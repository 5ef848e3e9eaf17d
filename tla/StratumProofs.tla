---------------------------- MODULE StratumProofs ----------------------------
(* Theorems about one pool session, for any pool, any number of lines and   *)
(* jobs, and any sizes of the share queue and the pending table.            *)
EXTENDS Stratum, FiniteSetTheorems, SequenceTheorems, WellFoundedInduction, TLAPS

-----------------------------------------------------------------------------
(* A set of natural numbers that is not empty has a least element.          *)
LEMMA LeastNat ==
  ASSUME NEW T, T \subseteq Nat, T # {}
  PROVE  \E x \in T : \A y \in T : x <= y
<1> DEFINE R == OpToRel(<, Nat)
<1>1. IsWellFoundedOn(R, Nat)
  BY NatLessThanWellFounded
<1>2. \A y \in Nat : \A z \in Nat : z < y => <<z, y>> \in R
  BY DEF OpToRel
<1> HIDE DEF R
<1>3. PICK x \in T : \A y \in T : ~ (<<y, x>> \in R)
  BY <1>1, WFMin
<1>4. ASSUME NEW y \in T PROVE x <= y
  <2>1. x \in Nat /\ y \in Nat
    OBVIOUS
  <2>2. ~ (y < x)
    BY <1>2, <1>3, <2>1, Zenon
  <2>3. QED
    BY <2>1, <2>2
<1>5. QED
  BY <1>4

-----------------------------------------------------------------------------
(* Submits and their answers.                                               *)

Open == {id \in owed : id >= 4}
Used == {s \in Slots : pending[s] # 0}

(* Ids are never used again, a slot holds the id of an open submit, and no  *)
(* two slots the same.                                                      *)
AccountInv ==
  /\ nextId \in Nat /\ nextId >= 4
  /\ owed \subseteq 1 .. nextId - 1
  /\ at = "connect" => owed = {}
  /\ submits \in Nat /\ accepts \in Nat /\ rejects \in Nat
  /\ submits = accepts + rejects + Cardinality(Open)
  /\ pending \in [Slots -> Nat]
  /\ Active \subseteq Open
  /\ \A s, r \in Slots : pending[s] = pending[r] /\ pending[s] # 0 => s = r
  /\ pendingCount = Cardinality(Used)
  /\ ~overflowed => Active = Open

LEMMA SlotsFinite == IsFiniteSet(Slots) /\ Slots \subseteq Nat /\ PendingSlots \in Nat \ {0}
BY StratumAssumption, FS_Interval DEF Slots

LEMMA AccountFinite ==
  ASSUME AccountInv
  PROVE  /\ IsFiniteSet(Open) /\ Cardinality(Open) \in Nat
         /\ IsFiniteSet(Used) /\ Cardinality(Used) \in Nat
<1>1. IsFiniteSet(1 .. nextId - 1)
  BY FS_Interval DEF AccountInv
<1>2. Open \in SUBSET (1 .. nextId - 1)
  BY DEF AccountInv, Open
<1>3. Used \in SUBSET Slots
  BY DEF Used
<1>4. IsFiniteSet(Open) /\ IsFiniteSet(Used)
  BY <1>1, <1>2, <1>3, FS_Subset, SlotsFinite
<1>5. QED
  BY <1>4, FS_CardinalityType

(* register_pending_share writes into the table, and into a slot in use     *)
(* only when all are.                                                       *)
LEMMA SlotForFits ==
  ASSUME NEW id \in Nat
  PROVE  SlotFor(id) \in Slots
         /\ (pending[SlotFor(id)] = 0 \/ \A s \in Slots : pending[s] # 0)
<1>1. CASE \E s \in Slots : pending[s] = 0
  <2> DEFINE T == {s \in Slots : pending[s] = 0}
  <2>1. T \subseteq Nat /\ T # {}
    BY <1>1, SlotsFinite
  <2>2. PICK s \in T : \A r \in T : s <= r
    BY <2>1, LeastNat
  <2>3. \E s1 \in Slots : pending[s1] = 0 /\ \A r \in Slots : pending[r] = 0 => s1 <= r
    BY <2>2
  <2>4. SlotFor(id) \in Slots /\ pending[SlotFor(id)] = 0
    BY <1>1, <2>3 DEF SlotFor
  <2>5. QED
    BY <2>4
<1>2. CASE \A s \in Slots : pending[s] # 0
  <2>1. SlotFor(id) = id % PendingSlots
    BY <1>2 DEF SlotFor
  <2>2. id % PendingSlots \in 0 .. PendingSlots - 1
    BY SlotsFinite
  <2>3. QED
    BY <1>2, <2>1, <2>2 DEF Slots
<1>3. QED
  BY <1>1, <1>2

LEMMA MoreIds ==
  ASSUME NEW m \in Nat, NEW n \in Nat, m >= 4, n >= m
  PROVE  1 .. m - 1 \subseteq 1 .. n - 1 /\ {1, 2, 3} \subseteq 1 .. n - 1
OBVIOUS

(* Requests that are not submits change nothing of this.                    *)
LEMMA QuietAccount ==
  ASSUME AccountInv,
         UNCHANGED <<submits, accepts, rejects, pending, pendingCount, overflowed>>,
         nextId' \in {nextId, nextId + 1}, Open' = Open,
         owed' \subseteq owed \union {1, 2, 3},
         at' = "connect" => owed' = {}
  PROVE  AccountInv'
<1>1. UNCHANGED <<Active, Used>>
  BY DEF Active, Used
<1>2. nextId' \in Nat /\ nextId \in Nat /\ nextId' >= nextId /\ nextId >= 4
  BY DEF AccountInv
<1>3. owed' \subseteq 1 .. nextId' - 1
  <2>1. 1 .. nextId - 1 \subseteq 1 .. nextId' - 1 /\ {1, 2, 3} \subseteq 1 .. nextId' - 1
    BY <1>2, MoreIds
  <2>2. owed \subseteq 1 .. nextId - 1
    BY DEF AccountInv
  <2>3. QED
    BY <2>1, <2>2
<1>4. Cardinality(Open') = Cardinality(Open) /\ Cardinality(Used') = Cardinality(Used)
  BY <1>1
<1>5. submits' = accepts' + rejects' + Cardinality(Open')
  BY <1>4 DEF AccountInv
<1>6. Active' \subseteq Open' /\ pendingCount' = Cardinality(Used')
      /\ (~overflowed' => Active' = Open')
  BY <1>1, <1>4 DEF AccountInv
<1>7. /\ submits' \in Nat /\ accepts' \in Nat /\ rejects' \in Nat
      /\ pending' \in [Slots -> Nat]
      /\ \A s, r \in Slots : pending'[s] = pending'[r] /\ pending'[s] # 0 => s = r
  BY DEF AccountInv
<1>8. nextId' >= 4
  BY <1>2
<1>9. QED
  BY <1>2, <1>3, <1>5, <1>6, <1>7, <1>8 DEF AccountInv

LEMMA FlushAccounts ==
  ASSUME AccountInv, FlushShare PROVE AccountInv'
<1> DEFINE k == SlotFor(nextId)
<1>1. /\ nextId' = nextId + 1 /\ owed' = owed \union {nextId}
      /\ submits' = submits + 1 /\ UNCHANGED <<accepts, rejects>>
      /\ pending' = [pending EXCEPT ![k] = nextId]
      /\ pendingCount' = IF pending[k] = 0 THEN pendingCount + 1 ELSE pendingCount
      /\ overflowed' = (overflowed \/ 0 \notin {pending[s] : s \in Slots})
      /\ at = "flush" /\ at' = at
  BY DEF FlushShare, loopVars
<1>2. k \in Slots /\ (pending[k] = 0 \/ \A s \in Slots : pending[s] # 0)
      /\ nextId \in Nat /\ nextId >= 4
  BY SlotForFits DEF AccountInv
<1> HIDE DEF k
<1>3. nextId \notin owed /\ nextId \notin Open
  BY <1>2 DEF AccountInv, Open
<1>4. Open' = Open \union {nextId}
  BY <1>1, <1>2 DEF Open
<1>5. Cardinality(Open') = Cardinality(Open) + 1
  BY <1>3, <1>4, AccountFinite, FS_AddElement
<1>6. submits' = accepts' + rejects' + Cardinality(Open')
  BY <1>1, <1>5, AccountFinite DEF AccountInv
<1>7. /\ pending \in [Slots -> Nat] /\ pending' \in [Slots -> Nat] /\ pending'[k] = nextId
      /\ \A s \in Slots \ {k} : pending'[s] = pending[s]
  BY <1>1, <1>2 DEF AccountInv
<1>8. \A s \in Slots : pending[s] # nextId
  <2>1. ASSUME NEW s \in Slots, pending[s] = nextId PROVE FALSE
    <3>1. nextId \in Active
      BY <1>2, <2>1 DEF Active
    <3>2. QED
      BY <1>3, <3>1 DEF AccountInv
  <2>2. QED
    BY <2>1
<1>9. \A s, r \in Slots : pending'[s] = pending'[r] /\ pending'[s] # 0 => s = r
  BY <1>7, <1>8 DEF AccountInv
<1>10. Active' \subseteq Active \union {nextId} /\ nextId \in Active'
  BY <1>2, <1>7 DEF Active
<1>11. Active' \subseteq Open'
  BY <1>4, <1>10 DEF AccountInv
<1>12. pendingCount' = Cardinality(Used')
  <2>1. Used' = Used \union {k}
    BY <1>2, <1>7 DEF Used
  <2>2. k \in Used <=> pending[k] # 0
    BY <1>2 DEF Used
  <2>3. Cardinality(Used') = IF k \in Used THEN Cardinality(Used) ELSE Cardinality(Used) + 1
    BY <2>1, AccountFinite, FS_AddElement
  <2>4. QED
    BY <1>1, <2>2, <2>3 DEF AccountInv
<1>13. ~overflowed' => Active' = Open'
  <2>1. SUFFICES ASSUME ~overflowed' PROVE Open' \subseteq Active'
    BY <1>11
  <2>2. ~overflowed /\ pending[k] = 0
    BY <1>1, <1>2, <2>1
  <2>3. Active = Open
    BY <2>2 DEF AccountInv
  <2>4. Active \subseteq Active'
    BY <1>7, <2>2 DEF Active
  <2>5. QED
    BY <1>4, <1>10, <2>3, <2>4
<1>14. owed' \subseteq 1 .. nextId' - 1
  BY <1>1, <1>2 DEF AccountInv
<1>15. nextId' \in Nat /\ nextId' >= 4 /\ submits' \in Nat
  BY <1>1, <1>2 DEF AccountInv
<1>16. QED
  BY <1>1, <1>6, <1>7, <1>9, <1>11, <1>12, <1>13, <1>14, <1>15 DEF AccountInv

LEMMA AnswerAccounts ==
  ASSUME AccountInv, NEW id \in owed, SubmitAnswer(id) PROVE AccountInv'
<1>1. /\ owed' = owed \ {id} /\ id > 3 /\ UNCHANGED <<nextId, submits, overflowed>>
      /\ at' # "connect"
  BY DEF SubmitAnswer, Answer, Goto
<1>2. id \in Nat /\ id >= 4 /\ id \in Open
  BY <1>1 DEF AccountInv, Open
<1>3. /\ \/ accepts' = accepts + 1 /\ rejects' = rejects
         \/ rejects' = rejects + 1 /\ accepts' = accepts
      /\ pending' = [s \in Slots |-> IF pending[s] = id THEN 0 ELSE pending[s]]
      /\ pendingCount' = IF Held(id) THEN pendingCount - 1 ELSE pendingCount
  BY <1>2 DEF SubmitAnswer, IsSubmit
<1>4. Open' = Open \ {id}
  BY <1>1 DEF Open
<1>5. Cardinality(Open') = Cardinality(Open) - 1
  BY <1>2, <1>4, AccountFinite, FS_RemoveElement
<1>6. accepts' \in Nat /\ rejects' \in Nat
      /\ submits' = accepts' + rejects' + Cardinality(Open')
  BY <1>1, <1>3, <1>5, AccountFinite DEF AccountInv
<1>7. pending \in [Slots -> Nat] /\ pending' \in [Slots -> Nat]
      /\ \A s \in Slots : pending'[s] = IF pending[s] = id THEN 0 ELSE pending[s]
  BY <1>3 DEF AccountInv
<1>8. Active' = Active \ {id}
  BY <1>2, <1>7 DEF Active
<1>9. \A s, r \in Slots : pending'[s] = pending'[r] /\ pending'[s] # 0 => s = r
  BY <1>7 DEF AccountInv
<1>10. pendingCount' = Cardinality(Used')
  <2>1. CASE Held(id)
    <3>1. PICK k \in Slots : pending[k] = id
      BY <2>1 DEF Held, Active
    <3>2. \A s \in Slots : pending[s] = id => s = k
      BY <1>2, <3>1 DEF AccountInv
    <3>3. Used' = Used \ {k} /\ k \in Used
      BY <1>2, <1>7, <3>1, <3>2 DEF Used
    <3>4. Cardinality(Used') = Cardinality(Used) - 1
      BY <3>3, AccountFinite, FS_RemoveElement
    <3>5. QED
      BY <1>3, <2>1, <3>4 DEF AccountInv
  <2>2. CASE ~Held(id)
    <3>1. \A s \in Slots : pending[s] # id
      BY <1>2, <2>2 DEF Held, Active
    <3>2. Used' = Used
      BY <1>7, <3>1 DEF Used
    <3>3. QED
      BY <1>3, <2>2, <3>2 DEF AccountInv
  <2>3. QED
    BY <2>1, <2>2
<1>11. QED
  BY <1>1, <1>4, <1>6, <1>7, <1>8, <1>9, <1>10 DEF AccountInv

LEMMA AccountInvInit == Init => AccountInv
<1> SUFFICES ASSUME Init PROVE AccountInv
  OBVIOUS
<1>1. /\ at = "connect" /\ nextId = 4 /\ owed = {} /\ submits = 0 /\ accepts = 0
      /\ rejects = 0 /\ pending = [s \in Slots |-> 0] /\ pendingCount = 0
  BY DEF Init
<1>2. Open = {} /\ Used = {} /\ Active = {}
  BY <1>1 DEF Open, Used, Active
<1>3. Cardinality(Open) = 0 /\ Cardinality(Used) = 0
  BY <1>2, FS_EmptySet
<1>4. QED
  BY <1>1, <1>2, <1>3 DEF AccountInv

accountVars == <<nextId, owed, submits, accepts, rejects, pending, pendingCount, overflowed>>

(* The steps that leave all of this alone.                                  *)
LEMMA OtherAccounts ==
  ASSUME AccountInv, [Next]_vars,
         ~FlushShare, ~FlushFails, ~Connect, ~AfterLine,
         ~SubscribeAnswer, ~AuthorizeAnswer, ~SuggestAnswer,
         \A id \in owed : ~SubmitAnswer(id)
  PROVE  UNCHANGED accountVars /\ (at' = "connect" => at = "connect")
<1> USE DEF accountVars, countVars, rpcVars
<1>1. CASE ConnectFails \/ Top \/ FlushDone \/ RollExtranonce \/ AfterLineFails
  BY <1>1 DEF ConnectFails, Top, FlushDone, RollExtranonce, AfterLineFails, Goto, End
<1>2. CASE ReadTimesOut \/ ReadFails
  BY <1>2 DEF ReadTimesOut, ReadFails, Goto, End
<1>3. CASE IgnoredLine \/ SetDifficulty \/ SetExtranonce \/ Notify
  BY <1>3 DEF IgnoredLine, SetDifficulty, SetExtranonce, Notify, PoolLine, Goto
<1>4. CASE EngineStep \/ TimePasses \/ AskStop \/ Ended \/ UNCHANGED vars
  BY <1>4 DEF EngineStep, ExhaustNonces, FindShare, TimePasses, AskStop, Ended, vars,
     loopVars
<1>5. QED
  BY <1>1, <1>2, <1>3, <1>4 DEF Next, SessionStep, ReadStep

LEMMA AccountInvStep == AccountInv /\ [Next]_vars => AccountInv'
<1> SUFFICES ASSUME AccountInv, [Next]_vars PROVE AccountInv'
  OBVIOUS
<1> USE DEF countVars
<1>a. nextId \in Nat /\ nextId >= 4
  BY DEF AccountInv
<1>1. CASE FlushShare
  BY <1>1, FlushAccounts
<1>2. CASE \E id \in owed : SubmitAnswer(id)
  BY <1>2, AnswerAccounts
<1>3. CASE FlushFails
  <2>1. /\ UNCHANGED <<submits, accepts, rejects, pending, pendingCount, overflowed, owed>>
        /\ nextId' = nextId + 1 /\ at' = "ended"
    BY <1>3 DEF FlushFails, End
  <2>2. Open' = Open
    BY <2>1 DEF Open
  <2>3. QED
    BY <2>1, <2>2, QuietAccount
<1>4. CASE Connect
  <2>1. /\ UNCHANGED <<submits, accepts, rejects, pending, pendingCount, overflowed, nextId>>
        /\ owed = {} /\ owed' = {1} /\ at' = "top"
    BY <1>4 DEF Connect, Goto, AccountInv
  <2>2. Open' = Open
    BY <2>1 DEF Open
  <2>3. QED
    BY <2>1, <2>2, QuietAccount
<1>5. CASE AfterLine
  <2>1. /\ UNCHANGED <<submits, accepts, rejects, pending, pendingCount, overflowed, nextId>>
        /\ owed \subseteq owed' /\ owed' \subseteq owed \union {2, 3} /\ at' = "top"
    BY <1>5 DEF AfterLine
  <2>2. Open' = Open
    BY <2>1 DEF Open
  <2>3. QED
    BY <2>1, <2>2, QuietAccount
<1>6. CASE SubscribeAnswer \/ AuthorizeAnswer \/ SuggestAnswer
  <2>1. /\ UNCHANGED <<submits, accepts, rejects, pending, pendingCount, overflowed, nextId>>
        /\ at' = "after" /\ \E i \in {1, 2, 3} : owed' = owed \ {i}
    BY <1>6 DEF SubscribeAnswer, AuthorizeAnswer, SuggestAnswer, Answer, Goto
  <2>2. Open' = Open
    BY <2>1 DEF Open
  <2>3. QED
    BY <2>1, <2>2, QuietAccount
<1>7. CASE /\ ~FlushShare /\ ~FlushFails /\ ~Connect /\ ~AfterLine
           /\ ~SubscribeAnswer /\ ~AuthorizeAnswer /\ ~SuggestAnswer
           /\ \A id \in owed : ~SubmitAnswer(id)
  <2>1. UNCHANGED accountVars /\ (at' = "connect" => at = "connect")
    BY <1>7, OtherAccounts
  <2>2. UNCHANGED <<nextId, owed, submits, accepts, rejects, pending, pendingCount,
                    overflowed>>
    BY <2>1 DEF accountVars
  <2>3. at' = "connect" => owed' = {}
    BY <2>1, <2>2 DEF AccountInv
  <2>4. Open' = Open
    BY <2>2 DEF Open
  <2>5. QED
    BY <2>2, <2>3, <2>4, QuietAccount
<1>8. QED
  BY <1>1, <1>2, <1>3, <1>4, <1>5, <1>6, <1>7

(* Every submit is accepted, rejected or open, whatever the order of the    *)
(* answers.                                                                 *)
THEOREM SubmitsAlwaysAddUp == Spec => []SubmitsAddUp
<1>1. Init => AccountInv
  BY AccountInvInit
<1>2. AccountInv /\ [Next]_vars => AccountInv'
  BY AccountInvStep
<1>3. AccountInv => SubmitsAddUp
  BY DEF AccountInv, SubmitsAddUp, Open
<1>4. QED
  BY <1>1, <1>2, <1>3, PTL DEF Spec

(* The pending table holds open submits only, and all of them until there   *)
(* are more than it has slots, for a table of any size.                     *)
THEOREM PendingIsAlwaysOwed == Spec => []PendingIsOwed
<1>1. Init => AccountInv
  BY AccountInvInit
<1>2. AccountInv /\ [Next]_vars => AccountInv'
  BY AccountInvStep
<1>3. AccountInv => PendingIsOwed
  BY DEF AccountInv, PendingIsOwed, Open, Used
<1>4. QED
  BY <1>1, <1>2, <1>3, PTL DEF Spec

-----------------------------------------------------------------------------
(* What the engine works on.                                                *)

(* What the code does, stronger than what is asked of it: the difficulty of *)
(* the job is always the last one set.                                      *)
MinesLatest ==
  CanBuild => /\ job # Unset
              /\ job.id = template.id
              /\ job.en1 = extranonce1
              /\ job.diff = difficulty

(* The pool answers mining.subscribe before it notifies, so no template is  *)
(* there while that answer changes the extranonce without a new job.        *)
JobInv ==
  /\ en2Counter \in Nat
  /\ template.valid => template.id \in JobIds
  /\ extranonce1 \in Extranonces \union {Unset}
  /\ difficulty \in Difficulties \union {1}
  /\ 1 \in owed \/ at = "connect" => ~template.valid
  /\ nextId \in Nat /\ nextId >= 4
  /\ MinesLatest

(* rebuild_miner_job leaves the engine with what it was given, unless       *)
(* nothing can be built of it.                                              *)
LEMMA RebuildMines ==
  ASSUME NEW t, NEW e \in Extranonces \union {Unset}, NEW size,
         NEW diff \in Difficulties \union {1}, NEW flag,
         t.valid => t.id \in JobIds, en2Counter \in Nat,
         Rebuild(t, e, size, diff, flag),
         template' = t, extranonce1' = e, en2Size' = size, difficulty' = diff
  PROVE  MinesLatest' /\ en2Counter' \in Nat
<1>1. CASE NothingToBuild(t, e, size)
  <2>1. UNCHANGED en2Counter /\ ~CanBuild'
    BY <1>1 DEF Rebuild, NothingToBuild, CanBuild
  <2>2. QED
    BY <2>1 DEF MinesLatest
<1>2. CASE ~NothingToBuild(t, e, size)
  <2>1. en2Counter' = en2Counter + 1
    BY <1>2 DEF Rebuild, En2After
  <2>2. CASE job' = [id |-> t.id, en1 |-> e, en2 |-> en2Counter, diff |-> diff]
    <3>1. job' \in Jobs
      BY <1>2, <2>2 DEF NothingToBuild, Jobs
    <3>2. job' # Unset
      BY <3>1, StratumAssumption
    <3>3. job'.id = t.id /\ job'.en1 = e /\ job'.diff = diff
      BY <2>2
    <3>4. QED
      BY <2>1, <3>2, <3>3 DEF MinesLatest
  <2>3. CASE size = "long" \/ ~t.sound \/ en2Counter >= En2Space
    <3>1. en2Counter' >= En2Space \/ size = "long" \/ ~t.sound
      BY <2>1, <2>3, StratumAssumption
    <3>2. ~CanBuild'
      <4>1. CASE size = "long" \/ ~t.sound
        BY <4>1 DEF CanBuild
      <4>2. CASE en2Counter' >= En2Space
        BY <2>1, <4>2, StratumAssumption DEF CanBuild
      <4>3. QED
        BY <3>1, <4>1, <4>2
    <3>3. QED
      BY <2>1, <3>2 DEF MinesLatest
  <2>4. QED
    BY <1>2, <2>2, <2>3 DEF Rebuild, SetJob
<1>3. QED
  BY <1>1, <1>2

LEMMA JobInvInit == Init => JobInv
BY DEF Init, JobInv, NoTemplate, MinesLatest, CanBuild

(* The steps after which template, extranonce, difficulty and job are what  *)
(* they were.                                                               *)
LEMMA QuietJob ==
  ASSUME JobInv,
         UNCHANGED <<template, extranonce1, en2Size, difficulty, en2Counter, job>>,
         nextId' \in {nextId, nextId + 1},
         at' = "connect" => at = "connect",
         1 \in owed' => 1 \in owed \/ at = "connect"
  PROVE  JobInv'
<1>1. nextId' \in Nat /\ nextId' >= 4
  BY DEF JobInv
<1>2. MinesLatest'
  BY DEF JobInv, MinesLatest, CanBuild
<1>3. QED
  BY <1>1, <1>2 DEF JobInv

LEMMA JobInvStep == JobInv /\ [Next]_vars => JobInv'
<1> SUFFICES ASSUME JobInv, [Next]_vars PROVE JobInv'
  OBVIOUS
<1> USE DEF poolVars, feedVars
<1>a. /\ en2Counter \in Nat /\ nextId \in Nat /\ nextId >= 4
      /\ extranonce1 \in Extranonces \union {Unset} /\ difficulty \in Difficulties \union {1}
      /\ (template.valid => template.id \in JobIds)
      /\ (1 \in owed => ~template.valid)
  BY DEF JobInv
<1>1. CASE RollExtranonce
  <2>1. /\ at' = "read" /\ UNCHANGED <<rpcVars, poolVars>>
    BY <1>1 DEF RollExtranonce, Goto
  <2>2. CASE exhausted
    <3>1. Rebuild(template, extranonce1, en2Size, difficulty, FALSE)
      BY <1>1, <2>2 DEF RollExtranonce
    <3>2. MinesLatest' /\ en2Counter' \in Nat
      BY <1>a, <2>1, <3>1, RebuildMines
    <3>3. QED
      BY <1>a, <2>1, <3>2 DEF JobInv, rpcVars
  <2>3. CASE ~exhausted
    <3>1. UNCHANGED <<en2Counter, job>>
      BY <1>1, <2>3 DEF RollExtranonce
    <3>2. QED
      BY <2>1, <3>1, QuietJob DEF rpcVars
  <2>4. QED
    BY <2>2, <2>3
<1>2. CASE SetDifficulty
  <2>1. PICK diff \in Difficulties :
           difficulty' = diff /\ Rebuild(template, extranonce1, en2Size, diff, exhausted)
    BY <1>2 DEF SetDifficulty
  <2>2. /\ UNCHANGED <<extranonce1, en2Size, template, nextId, owed>> /\ at' = "after"
    BY <1>2 DEF SetDifficulty, PoolLine, Goto
  <2>3. MinesLatest' /\ en2Counter' \in Nat
    BY <1>a, <2>1, <2>2, RebuildMines
  <2>4. QED
    BY <1>a, <2>1, <2>2, <2>3 DEF JobInv
<1>3. CASE SetExtranonce
  <2>1. PICK e \in Extranonces \union {extranonce1}, size \in {"usable", "none", "long"} :
           /\ extranonce1' = e /\ en2Size' = size
           /\ Rebuild(template, e, size, difficulty, exhausted)
    BY <1>3 DEF SetExtranonce
  <2>2. /\ UNCHANGED <<difficulty, template, nextId, owed>> /\ at' = "after"
    BY <1>3 DEF SetExtranonce, PoolLine, Goto
  <2>3. e \in Extranonces \union {Unset}
    BY <1>a
  <2>4. MinesLatest' /\ en2Counter' \in Nat
    BY <1>a, <2>1, <2>2, <2>3, RebuildMines
  <2>5. QED
    BY <1>a, <2>1, <2>2, <2>3, <2>4 DEF JobInv
<1>4. CASE Notify
  <2>1. /\ 1 \notin owed /\ at' = "after"
        /\ UNCHANGED <<extranonce1, en2Size, difficulty, nextId, owed>>
    BY <1>4 DEF Notify, PoolLine, Goto
  <2>2. CASE template' = NoTemplate /\ UNCHANGED feedVars
    <3>1. ~template'.valid /\ UNCHANGED en2Counter
      BY <2>2 DEF NoTemplate
    <3>2. MinesLatest'
      BY <3>1 DEF MinesLatest, CanBuild
    <3>3. QED
      BY <1>a, <2>1, <3>1, <3>2 DEF JobInv
  <2>3. ASSUME NEW id \in JobIds, NEW sound \in BOOLEAN,
               template' = [id |-> id, valid |-> TRUE, sound |-> sound],
               Rebuild(template', extranonce1, en2Size, difficulty, exhausted)
        PROVE  JobInv'
    <3>1. template'.id \in JobIds
      BY <2>3
    <3>2. MinesLatest' /\ en2Counter' \in Nat
      BY <1>a, <2>1, <2>3, <3>1, RebuildMines
    <3>3. QED
      BY <1>a, <2>1, <3>1, <3>2 DEF JobInv
  <2>4. QED
    BY <1>4, <2>2, <2>3 DEF Notify
<1>5. CASE SubscribeAnswer
  <2>1. /\ 1 \in owed /\ at' = "after"
        /\ UNCHANGED <<template, difficulty, nextId, en2Counter>>
        /\ extranonce1' \in Extranonces \union {extranonce1}
    BY <1>5 DEF SubscribeAnswer, Answer, Goto
  <2>2. ~template.valid
    BY <1>a, <2>1
  <2>3. MinesLatest'
    BY <2>1, <2>2 DEF MinesLatest, CanBuild
  <2>4. QED
    BY <1>a, <2>1, <2>2, <2>3 DEF JobInv
<1>6. CASE Connect \/ ConnectFails \/ Top \/ FlushShare \/ FlushFails \/ FlushDone
           \/ AfterLine \/ AfterLineFails
  <2>1. /\ UNCHANGED <<template, extranonce1, en2Size, difficulty, en2Counter, job>>
        /\ nextId' \in {nextId, nextId + 1}
        /\ (at' = "connect" => at = "connect")
    BY <1>6 DEF Connect, ConnectFails, Top, FlushShare, FlushFails, FlushDone, AfterLine,
       AfterLineFails, Goto, End, rpcVars, loopVars
  <2>2. 1 \in owed' => 1 \in owed \/ at = "connect"
    BY <1>6, <1>a DEF Connect, ConnectFails, Top, FlushShare, FlushFails, FlushDone,
       AfterLine, AfterLineFails, rpcVars
  <2>3. QED
    BY <2>1, <2>2, QuietJob
<1>7. CASE ReadTimesOut \/ ReadFails \/ AuthorizeAnswer \/ SuggestAnswer \/ IgnoredLine
           \/ \E id \in owed : SubmitAnswer(id)
  <2>1. /\ UNCHANGED <<template, extranonce1, en2Size, difficulty, en2Counter, job>>
        /\ nextId' \in {nextId, nextId + 1}
        /\ (at' = "connect" => at = "connect")
        /\ owed' \subseteq owed
    BY <1>7 DEF ReadTimesOut, ReadFails, AuthorizeAnswer, SuggestAnswer, IgnoredLine,
       SubmitAnswer, Answer, PoolLine, Goto, End, rpcVars
  <2>2. QED
    BY <2>1, QuietJob
<1>8. CASE EngineStep \/ TimePasses \/ AskStop \/ Ended \/ UNCHANGED vars
  <2>1. /\ UNCHANGED <<template, extranonce1, en2Size, difficulty, en2Counter, job,
                       nextId, owed, at>>
    BY <1>8 DEF EngineStep, ExhaustNonces, FindShare, TimePasses, AskStop, Ended, vars,
       loopVars, rpcVars
  <2>2. QED
    BY <2>1, QuietJob
<1>9. QED
  BY <1>1, <1>2, <1>3, <1>4, <1>5, <1>6, <1>7, <1>8 DEF Next, SessionStep, ReadStep

(* Whenever the pool's last template can be built, the engine works on it   *)
(* with the extranonce set last and a difficulty no older than the last     *)
(* notify.                                                                  *)
THEOREM TheJobIsTheLastAskedFor == Spec => []MinesWhatPoolAsked
<1>1. Init => JobInv
  BY JobInvInit
<1>2. JobInv /\ [Next]_vars => JobInv'
  BY JobInvStep
<1>3. JobInv => MinesWhatPoolAsked
  BY DEF JobInv, MinesLatest, MinesWhatPoolAsked
<1>4. QED
  BY <1>1, <1>2, <1>3, PTL DEF Spec

-----------------------------------------------------------------------------
(* No share twice.                                                          *)

(* Every job has an extranonce2 of its own, a job's queue holds each nonce  *)
(* once, and what was sent of it is neither in the queue nor found again.   *)
UniqueInv ==
  /\ en2Counter \in Nat /\ submits \in Nat
  /\ queue \in Seq(Nonces)
  /\ queue # <<>> => job # Unset
  /\ job # Unset => job.en2 \in Nat /\ job.en2 < en2Counter
  /\ IsFiniteSet(sent) /\ Cardinality(sent) = submits
  /\ \A x \in sent : x.en2 \in Nat /\ x.en2 < en2Counter
  /\ \A x \in sent : job # Unset /\ x.en2 = job.en2 =>
       x.nonce \in found /\ \A i \in 1 .. Len(queue) : queue[i] # x.nonce
  /\ \A i \in 1 .. Len(queue) : queue[i] \in found
  /\ \A i, j \in 1 .. Len(queue) : queue[i] = queue[j] => i = j

LEMMA UniqueInvInit == Init => UniqueInv
<1> SUFFICES ASSUME Init PROVE UniqueInv
  OBVIOUS
<1>1. /\ en2Counter = 1 /\ submits = 0 /\ queue = <<>> /\ job = Unset /\ sent = {}
  BY DEF Init
<1>2. queue \in Seq(Nonces) /\ Len(queue) = 0
  BY <1>1, EmptySeq
<1>3. IsFiniteSet(sent) /\ Cardinality(sent) = 0
  BY <1>1, FS_EmptySet
<1>4. QED
  BY <1>1, <1>2, <1>3 DEF UniqueInv

LEMMA QuietUnique ==
  ASSUME UniqueInv, UNCHANGED <<en2Counter, submits, queue, job, found, sent>>
  PROVE  UniqueInv'
BY DEF UniqueInv

(* A new job has an extranonce2 that nothing sent so far has.               *)
LEMMA RebuildUnique ==
  ASSUME UniqueInv, NEW t, NEW e, NEW size, NEW diff, NEW flag,
         Rebuild(t, e, size, diff, flag), UNCHANGED <<submits, sent>>
  PROVE  UniqueInv'
<1>1. en2Counter \in Nat
  BY DEF UniqueInv
<1>2. CASE UNCHANGED <<en2Counter, job, queue, found>>
  BY <1>2, QuietUnique
<1>3. CASE en2Counter' = En2After /\ UNCHANGED <<job, queue, found>>
  <2>1. en2Counter' = en2Counter + 1
    BY <1>3 DEF En2After
  <2>2. job # Unset => job.en2 < en2Counter'
    BY <1>1, <2>1 DEF UniqueInv
  <2>3. \A x \in sent : x.en2 \in Nat /\ x.en2 < en2Counter'
    BY <1>1, <2>1 DEF UniqueInv
  <2>4. QED
    BY <1>1, <1>3, <2>1, <2>2, <2>3 DEF UniqueInv
<1>4. CASE /\ en2Counter' = En2After /\ queue' = <<>>
           /\ job' = [id |-> t.id, en1 |-> e, en2 |-> en2Counter, diff |-> diff]
  <2>1. en2Counter' = en2Counter + 1 /\ job'.en2 = en2Counter
    BY <1>4 DEF En2After
  <2>2. queue' \in Seq(Nonces) /\ Len(queue') = 0
    BY <1>4, EmptySeq
  <2>3. \A x \in sent : x.en2 \in Nat /\ x.en2 < en2Counter' /\ x.en2 # job'.en2
    BY <1>1, <2>1 DEF UniqueInv
  <2>4. IsFiniteSet(sent') /\ Cardinality(sent') = submits' /\ submits' \in Nat
    BY DEF UniqueInv
  <2>5. en2Counter' \in Nat /\ job'.en2 \in Nat /\ job'.en2 < en2Counter'
    BY <1>1, <2>1
  <2>6. QED
    BY <1>4, <2>2, <2>3, <2>4, <2>5 DEF UniqueInv
<1>5. QED
  BY <1>2, <1>3, <1>4 DEF Rebuild, SetJob

LEMMA FindUnique ==
  ASSUME UniqueInv, NEW n \in Nonces, FindShare(n) PROVE UniqueInv'
<1>1. /\ job # Unset /\ n \notin found /\ found' = found \union {n}
      /\ queue' = IF Len(queue) >= QueueSize THEN queue ELSE Append(queue, n)
      /\ UNCHANGED <<en2Counter, submits, job, sent>>
  BY DEF FindShare, Running, countVars
<1>2. queue \in Seq(Nonces) /\ Len(queue) \in Nat
  BY LenProperties DEF UniqueInv
<1>3. CASE queue' = queue
  BY <1>1, <1>3 DEF UniqueInv
<1>4. CASE queue' = Append(queue, n)
  <2>1. /\ queue' \in Seq(Nonces) /\ Len(queue') = Len(queue) + 1
        /\ \A i \in 1 .. Len(queue) : queue'[i] = queue[i]
        /\ queue'[Len(queue) + 1] = n
    BY <1>2, <1>4, AppendProperties
  <2>2. \A i \in 1 .. Len(queue') : i \in 1 .. Len(queue) \/ i = Len(queue) + 1
    BY <1>2, <2>1
  <2>3. \A i \in 1 .. Len(queue) : queue[i] \in found /\ queue[i] # n
    BY <1>1 DEF UniqueInv
  <2>4. \A i \in 1 .. Len(queue') : queue'[i] \in found'
    BY <1>1, <2>1, <2>2, <2>3
  <2>5. ASSUME NEW i \in 1 .. Len(queue'), NEW j \in 1 .. Len(queue'), queue'[i] = queue'[j]
        PROVE  i = j
    <3>1. CASE i \in 1 .. Len(queue) /\ j \in 1 .. Len(queue)
      <4>1. queue[i] = queue[j]
        BY <2>1, <2>5, <3>1
      <4>2. QED
        BY <3>1, <4>1 DEF UniqueInv
    <3>2. CASE i = Len(queue) + 1 /\ j \in 1 .. Len(queue)
      BY <2>1, <2>3, <2>5, <3>2
    <3>3. CASE i \in 1 .. Len(queue) /\ j = Len(queue) + 1
      BY <2>1, <2>3, <2>5, <3>3
    <3>4. CASE i = Len(queue) + 1 /\ j = Len(queue) + 1
      BY <3>4
    <3>5. QED
      BY <2>2, <3>1, <3>2, <3>3, <3>4
  <2>6. ASSUME NEW x \in sent, x.en2 = job.en2
        PROVE  x.nonce \in found' /\ \A i \in 1 .. Len(queue') : queue'[i] # x.nonce
    <3>1. x.nonce \in found /\ x.nonce # n /\ \A i \in 1 .. Len(queue) : queue[i] # x.nonce
      BY <1>1, <2>6 DEF UniqueInv
    <3>2. QED
      BY <1>1, <2>1, <2>2, <3>1
  <2>7. QED
    BY <1>1, <2>1, <2>4, <2>5, <2>6 DEF UniqueInv
<1>5. QED
  BY <1>1, <1>3, <1>4

(* flush_shares takes the first of the queue, sent or lost.                 *)
LEMMA TakeUnique ==
  ASSUME UniqueInv, queue # <<>>, queue' = Tail(queue),
         UNCHANGED <<en2Counter, job, found>>
  PROVE  /\ sent' = sent /\ submits' = submits => UniqueInv'
         /\ sent' = sent \union {Submission} /\ submits' = submits + 1 => UniqueInv'
<1>1. /\ queue \in Seq(Nonces) /\ Len(queue) \in Nat \ {0} /\ Head(queue) = queue[1]
      /\ queue' \in Seq(Nonces) /\ Len(queue') = Len(queue) - 1
      /\ \A i \in 1 .. Len(queue') : queue'[i] = queue[i + 1]
  BY HeadTailProperties, EmptySeq DEF UniqueInv
<1>2. /\ 1 \in 1 .. Len(queue)
      /\ \A i \in 1 .. Len(queue') : i + 1 \in 1 .. Len(queue) /\ i + 1 # 1
  BY <1>1
<1>3. /\ \A i \in 1 .. Len(queue') : queue'[i] \in found /\ queue'[i] # Head(queue)
      /\ Head(queue) \in found
  BY <1>1, <1>2 DEF UniqueInv
<1>4. ASSUME NEW i \in 1 .. Len(queue'), NEW j \in 1 .. Len(queue'), queue'[i] = queue'[j]
      PROVE  i = j
  <2>1. i + 1 = j + 1
    BY <1>1, <1>2, <1>4 DEF UniqueInv
  <2>2. QED
    BY <2>1
<1>5. job # Unset /\ job.en2 \in Nat /\ job.en2 < en2Counter
  BY DEF UniqueInv
<1>6. \A x \in sent : x.en2 = job.en2 =>
         x.nonce \in found /\ x.nonce # Head(queue)
         /\ \A i \in 1 .. Len(queue') : queue'[i] # x.nonce
  BY <1>1, <1>2, <1>5 DEF UniqueInv
<1>7. ASSUME sent' = sent, submits' = submits PROVE UniqueInv'
  BY <1>1, <1>3, <1>4, <1>5, <1>6, <1>7 DEF UniqueInv
<1>8. ASSUME sent' = sent \union {Submission}, submits' = submits + 1 PROVE UniqueInv'
  <2>1. Submission.en2 = job.en2 /\ Submission.nonce = Head(queue)
    BY DEF Submission
  <2>2. Submission \notin sent
    BY <1>6, <2>1
  <2>3. IsFiniteSet(sent') /\ Cardinality(sent') = submits' /\ submits' \in Nat
    <3>1. IsFiniteSet(sent) /\ Cardinality(sent) = submits /\ submits \in Nat
      BY DEF UniqueInv
    <3>2. IsFiniteSet(sent') /\ Cardinality(sent') = Cardinality(sent) + 1
      BY <1>8, <2>2, <3>1, FS_AddElement
    <3>3. QED
      BY <1>8, <3>1, <3>2
  <2>4. \A x \in sent' : x.en2 \in Nat /\ x.en2 < en2Counter
    BY <1>5, <1>8, <2>1 DEF UniqueInv
  <2>5. \A x \in sent' : x.en2 = job.en2 =>
           x.nonce \in found /\ \A i \in 1 .. Len(queue') : queue'[i] # x.nonce
    BY <1>3, <1>6, <1>8, <2>1
  <2>6. QED
    BY <1>1, <1>3, <1>4, <1>5, <2>3, <2>4, <2>5 DEF UniqueInv
<1>9. QED
  BY <1>7, <1>8

LEMMA UniqueInvStep == UniqueInv /\ [Next]_vars => UniqueInv'
<1> SUFFICES ASSUME UniqueInv, [Next]_vars PROVE UniqueInv'
  OBVIOUS
<1> USE DEF feedVars, countVars
<1>1. CASE FlushShare
  BY <1>1, TakeUnique DEF FlushShare
<1>2. CASE FlushFails
  BY <1>2, TakeUnique DEF FlushFails
<1>3. CASE RollExtranonce
  <2>1. UNCHANGED <<submits, sent>>
    BY <1>3 DEF RollExtranonce
  <2>2. CASE exhausted
    BY <1>3, <2>1, <2>2, RebuildUnique DEF RollExtranonce
  <2>3. CASE ~exhausted
    BY <1>3, <2>1, <2>3, QuietUnique DEF RollExtranonce
  <2>4. QED
    BY <2>2, <2>3
<1>4. CASE SetDifficulty
  BY <1>4, RebuildUnique DEF SetDifficulty
<1>5. CASE SetExtranonce
  BY <1>5, RebuildUnique DEF SetExtranonce
<1>6. CASE Notify
  <2>1. UNCHANGED <<submits, sent>>
    BY <1>6 DEF Notify
  <2>2. CASE UNCHANGED feedVars
    BY <2>1, <2>2, QuietUnique
  <2>3. CASE \E t : Rebuild(t, extranonce1, en2Size, difficulty, exhausted)
    BY <2>1, <2>3, RebuildUnique
  <2>4. QED
    BY <1>6, <2>2, <2>3 DEF Notify
<1>7. CASE \E n \in Nonces : FindShare(n)
  BY <1>7, FindUnique
<1>8. CASE Connect \/ ConnectFails \/ Top \/ FlushDone \/ AfterLine \/ AfterLineFails
           \/ ReadTimesOut \/ ReadFails \/ IgnoredLine
  <2>1. UNCHANGED <<en2Counter, submits, queue, job, found, sent>>
    BY <1>8 DEF Connect, ConnectFails, Top, FlushDone, AfterLine, AfterLineFails,
       ReadTimesOut, ReadFails, IgnoredLine
  <2>2. QED
    BY <2>1, QuietUnique
<1>9. CASE SubscribeAnswer \/ AuthorizeAnswer \/ SuggestAnswer
           \/ \E id \in owed : SubmitAnswer(id)
  <2>1. UNCHANGED <<en2Counter, submits, queue, job, found, sent>>
    BY <1>9 DEF SubscribeAnswer, AuthorizeAnswer, SuggestAnswer, SubmitAnswer
  <2>2. QED
    BY <2>1, QuietUnique
<1>10. CASE ExhaustNonces \/ TimePasses \/ AskStop \/ Ended \/ UNCHANGED vars
  <2>1. UNCHANGED <<en2Counter, submits, queue, job, found, sent>>
    BY <1>10 DEF ExhaustNonces, TimePasses, AskStop, Ended, vars
  <2>2. QED
    BY <2>1, QuietUnique
<1>11. QED
  BY <1>1, <1>2, <1>3, <1>4, <1>5, <1>6, <1>7, <1>8, <1>9, <1>10
  DEF Next, SessionStep, ReadStep, EngineStep

(* The pool never sees a share twice, however often and for whatever reason *)
(* the job was rebuilt.                                                     *)
THEOREM SubmitsAreUnique == Spec => []NoDuplicateSubmit
<1>1. Init => UniqueInv
  BY UniqueInvInit
<1>2. UniqueInv /\ [Next]_vars => UniqueInv'
  BY UniqueInvStep
<1>3. UniqueInv => NoDuplicateSubmit
  BY DEF UniqueInv, NoDuplicateSubmit
<1>4. QED
  BY <1>1, <1>2, <1>3, PTL DEF Spec
=============================================================================
