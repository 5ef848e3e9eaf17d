------------------------------- MODULE Stratum -------------------------------
(***************************************************************************)
(* One pool session of the native core: stratum_run_client and the line    *)
(* handlers of cpp/btcrig/stratum.c.                                       *)
(*                                                                         *)
(* The session thread loops: flush found shares, roll the extranonce when  *)
(* the nonce space is used up, read one line for at most 200 ms, handle    *)
(* it.  The hashing engine runs beside it and appears here as ShareFeed    *)
(* promises it (Miner shows that it keeps the promise).  The pool sends    *)
(* lines in any order, answers each request at most once, and answers      *)
(* mining.subscribe before it notifies.                                    *)
(***************************************************************************)
EXTENDS Integers, FiniteSets, Sequences

CONSTANTS
  JobIds,             (* job ids the pool uses, again and again             *)
  Extranonces,        (* values of extranonce1                              *)
  Difficulties,
  Nonces,             (* nonces that meet the target in every job           *)
  QueueSize,          (* SHARE_QUEUE_SIZE                                   *)
  PendingSlots,       (* STRATUM_PENDING_SHARES                             *)
  En2Space,           (* 256 ^ extranonce2_size                             *)
  Timed,              (* session_seconds > 0                                *)
  Suggests,           (* suggest_difficulty > 0                             *)
  Unset,              (* no job, and the empty extranonce1                  *)
  MaxLines,           (* bound of the model: lines of the pool, not answers *)
  MaxBuilds           (* bound of the model: jobs built                     *)

(* What the engine works on: the template and the values it was built with. *)
Jobs == [id : JobIds, en1 : Extranonces, en2 : Nat, diff : Difficulties \union {1}]

ASSUME StratumAssumption ==
  /\ QueueSize \in Nat \ {0} /\ PendingSlots \in Nat \ {0} /\ En2Space \in Nat
  /\ MaxLines \in Nat /\ MaxBuilds \in Nat
  /\ {Timed, Suggests} \subseteq BOOLEAN
  /\ Unset \notin Extranonces \union Jobs

VARIABLES
  at,            (* where stratum_run_client is                             *)
  runResult,
  stopAsked,     (* btcrig_android_core_should_stop()                       *)
  timer,         (* session_stop_at: unset, running or expired              *)
  authorizeSent, suggestSent, nextId,
  subscribed, authorized, extranonce1,
  en2Size,       (* extranonce2_size: usable, not positive, or too long     *)
  en2Counter,    (* extranonce2_counter                                     *)
  difficulty,
  template,      (* template_*: id, whether it is valid and can be built    *)
  notifies, submits, accepts, rejects,
  pending,       (* pending[]: the request id in each slot, 0 if inactive   *)
  pendingCount,
  job,           (* the engine: its job, whether its nonces are used up,    *)
  retired, exhausted, queue,
  found,         (* and which of Nonces it has met in this job              *)
  owed,          (* ids of the requests the pool has not answered           *)
  lines,         (* lines the pool sent, answers apart                      *)
  sent,          (* history: what was submitted                             *)
  overflowed,    (* history: more submits were open than pending[] holds    *)
  notifyDiff     (* history: the difficulty set when the last notify came   *)

loopVars  == <<at, runResult, stopAsked, timer>>
rpcVars   == <<authorizeSent, suggestSent, nextId, owed, lines>>
poolVars  == <<subscribed, authorized, extranonce1, en2Size, difficulty,
               template, notifies, notifyDiff>>
countVars == <<submits, accepts, rejects, pending, pendingCount, sent, overflowed>>
feedVars  == <<en2Counter, job, retired, exhausted, queue, found>>
vars == <<loopVars, rpcVars, poolVars, countVars, feedVars>>

Slots == 0 .. PendingSlots - 1
NoTemplate == [id |-> Unset, valid |-> FALSE, sound |-> FALSE]

Init ==
  /\ at = "connect" /\ runResult = 0 /\ stopAsked = FALSE /\ timer = "unset"
  /\ authorizeSent = FALSE /\ suggestSent = FALSE /\ nextId = 4
  /\ subscribed = FALSE /\ authorized = FALSE /\ extranonce1 = Unset
  /\ en2Size = "usable" /\ en2Counter = 1 /\ difficulty = 1
  /\ template = NoTemplate
  /\ notifies = 0 /\ submits = 0 /\ accepts = 0 /\ rejects = 0
  /\ pending = [s \in Slots |-> 0] /\ pendingCount = 0
  /\ job = Unset /\ retired = FALSE /\ exhausted = FALSE
  /\ queue = <<>> /\ found = {}
  /\ owed = {} /\ lines = 0 /\ sent = {} /\ overflowed = FALSE
  /\ notifyDiff = 1

Goto(place) == at' = place /\ UNCHANGED <<runResult, stopAsked, timer>>
End(result) == at' = "ended" /\ runResult' = result /\ UNCHANGED <<stopAsked, timer>>

-----------------------------------------------------------------------------
(* The engine beside the session (cpp/btcrig/miner.c).                     *)

SetJob(j) ==
  /\ job' = j
  /\ retired' = FALSE
  /\ exhausted' = FALSE
  /\ queue' = <<>>
  /\ found' = {}

Running == at \notin {"connect", "ended"} /\ job # Unset

(* queue_share_locked; a scan that began before the job was retired still   *)
(* counts.                                                                  *)
FindShare(n) ==
  /\ Running
  /\ n \notin found
  /\ found' = found \union {n}
  /\ queue' = IF Len(queue) >= QueueSize THEN queue ELSE Append(queue, n)
  /\ UNCHANGED <<loopVars, rpcVars, poolVars, countVars, en2Counter, job, retired,
                 exhausted>>

ExhaustNonces ==
  /\ Running
  /\ ~retired
  /\ en2Counter <= MaxBuilds
  /\ retired' = TRUE
  /\ exhausted' = TRUE
  /\ UNCHANGED <<loopVars, rpcVars, poolVars, countVars, en2Counter, job, queue, found>>

-----------------------------------------------------------------------------
(* Building a job from the template.                                       *)

(* Mutant of En2After: the counter stands still.                            *)
En2Reused == en2Counter
En2After == en2Counter + 1

(* The first return of rebuild_miner_job, then miner_format_extranonce2 and *)
(* miner_build_job: a counter that needs more digits than extranonce2 has   *)
(* makes an odd number of them, which fails, or too many, which does not.   *)
(* What is left of the exhausted flag if no job is set is the last argument.*)
NothingToBuild(t, e, size) == ~t.valid \/ e = Unset \/ size = "none"

Rebuild(t, e, size, diff, flag) ==
  \/ /\ NothingToBuild(t, e, size)
     /\ exhausted' = flag
     /\ UNCHANGED <<en2Counter, job, retired, queue, found>>
  \/ /\ ~NothingToBuild(t, e, size)
     /\ size = "usable" /\ t.sound
     /\ en2Counter' = En2After
     /\ SetJob([id |-> t.id, en1 |-> e, en2 |-> en2Counter, diff |-> diff])
  \/ /\ ~NothingToBuild(t, e, size)
     /\ size = "long" \/ ~t.sound \/ en2Counter >= En2Space
     /\ en2Counter' = En2After
     /\ exhausted' = flag
     /\ UNCHANGED <<job, retired, queue, found>>

-----------------------------------------------------------------------------
(* Before the loop: parse the url, connect, start the engine, subscribe.   *)

Connect ==
  /\ at = "connect"
  /\ Goto("top")
  /\ owed' = {1}
  /\ UNCHANGED <<authorizeSent, suggestSent, nextId, lines, poolVars, countVars, feedVars>>

ConnectFails ==
  /\ at = "connect"
  /\ \E result \in {1, 2} : End(result)
  /\ UNCHANGED <<rpcVars, poolVars, countVars, feedVars>>

(* The loop's own exits.                                                    *)
Top ==
  /\ at = "top"
  /\ IF stopAsked \/ timer = "expired" THEN End(0) ELSE Goto("flush")
  /\ UNCHANGED <<rpcVars, poolVars, countVars, feedVars>>

-----------------------------------------------------------------------------
(* flush_shares and the table of pending shares.                           *)

Active == {pending[s] : s \in Slots} \ {0}

(* Mutant of SlotFor: the id alone picks the slot.                          *)
SlotById(id) == id % PendingSlots

(* register_pending_share: the first free slot, else one that is in use.    *)
SlotFor(id) ==
  IF \E s \in Slots : pending[s] = 0
  THEN CHOOSE s \in Slots : pending[s] = 0 /\ \A r \in Slots : pending[r] = 0 => s <= r
  ELSE id % PendingSlots

Submission == [id |-> job.id, en1 |-> job.en1, en2 |-> job.en2, nonce |-> Head(queue)]

FlushShare ==
  /\ at = "flush"
  /\ queue # <<>>
  /\ queue' = Tail(queue)
  /\ nextId' = nextId + 1
  /\ owed' = owed \union {nextId}
  /\ sent' = sent \union {Submission}
  /\ submits' = submits + 1
  /\ pending' = [pending EXCEPT ![SlotFor(nextId)] = nextId]
  /\ pendingCount' = IF pending[SlotFor(nextId)] = 0 THEN pendingCount + 1
                                                     ELSE pendingCount
  /\ overflowed' = (overflowed \/ 0 \notin {pending[s] : s \in Slots})
  /\ UNCHANGED <<loopVars, authorizeSent, suggestSent, lines, poolVars, accepts,
                 rejects, en2Counter, job, retired, exhausted, found>>

(* The share that could not be sent is gone, the session too.               *)
FlushFails ==
  /\ at = "flush"
  /\ queue # <<>>
  /\ queue' = Tail(queue)
  /\ nextId' = nextId + 1
  /\ End(1)
  /\ UNCHANGED <<authorizeSent, suggestSent, owed, lines, poolVars, countVars,
                 en2Counter, job, retired, exhausted, found>>

FlushDone ==
  /\ at = "flush"
  /\ queue = <<>>
  /\ Goto("roll")
  /\ UNCHANGED <<rpcVars, poolVars, countVars, feedVars>>

(* Mutant of RollExtranonce: the flag is taken, and nothing follows.        *)
TakesTheFlag ==
  /\ at = "roll"
  /\ Goto("read")
  /\ exhausted' = FALSE
  /\ UNCHANGED <<en2Counter, job, retired, queue, found>>
  /\ UNCHANGED <<rpcVars, poolVars, countVars>>

(* maybe_roll_extranonce takes the flag and then builds the next job.       *)
RollExtranonce ==
  /\ at = "roll"
  /\ Goto("read")
  /\ IF exhausted THEN Rebuild(template, extranonce1, en2Size, difficulty, FALSE)
                  ELSE UNCHANGED feedVars
  /\ UNCHANGED <<rpcVars, poolVars, countVars>>

-----------------------------------------------------------------------------
(* Reading, and the handlers of what the pool sends.                       *)

ReadTimesOut ==
  /\ at = "read"
  /\ Goto("top")
  /\ UNCHANGED <<rpcVars, poolVars, countVars, feedVars>>

(* The pool closed the connection, it broke, or a line is too long.         *)
ReadFails ==
  /\ at = "read"
  /\ End(1)
  /\ UNCHANGED <<rpcVars, poolVars, countVars, feedVars>>

(* The answer to request id.                                                *)
Answer(id) ==
  /\ at = "read"
  /\ id \in owed
  /\ owed' = owed \ {id}
  /\ Goto("after")
  /\ UNCHANGED <<authorizeSent, suggestSent, nextId, lines>>

(* A result that is no array is ignored; an entry that is no string or no   *)
(* integer leaves the field as it was.                                      *)
SubscribeAnswer ==
  /\ Answer(1)
  /\ \/ /\ subscribed' = TRUE
        /\ extranonce1' \in Extranonces \union {extranonce1}
        /\ en2Size' \in {"usable", "none", "long"}
     \/ UNCHANGED <<subscribed, extranonce1, en2Size>>
  /\ UNCHANGED <<authorized, difficulty, template, notifies, notifyDiff, countVars,
                 feedVars>>

AuthorizeAnswer ==
  /\ Answer(2)
  /\ authorized' \in BOOLEAN
  /\ UNCHANGED <<subscribed, extranonce1, en2Size, difficulty, template, notifies,
                 notifyDiff, countVars, feedVars>>

(* mining.suggest_difficulty: the answer is only printed.                   *)
SuggestAnswer ==
  /\ Answer(3)
  /\ UNCHANGED <<poolVars, countVars, feedVars>>

(* Mutant of IsSubmit: the first submit is not seen as one.                 *)
IsLaterSubmit(id) == id > 4
IsSubmit(id) == id >= 4

Held(id) == id \in Active

(* An accept or a reject, and complete_pending_share.                       *)
SubmitAnswer(id) ==
  /\ id > 3
  /\ Answer(id)
  /\ IF IsSubmit(id)
     THEN /\ \/ accepts' = accepts + 1 /\ UNCHANGED rejects
             \/ rejects' = rejects + 1 /\ UNCHANGED accepts
          /\ pending' = [s \in Slots |-> IF pending[s] = id THEN 0 ELSE pending[s]]
          /\ pendingCount' = IF Held(id) THEN pendingCount - 1 ELSE pendingCount
     ELSE UNCHANGED <<accepts, rejects, pending, pendingCount>>
  /\ UNCHANGED <<submits, sent, overflowed, poolVars, feedVars>>

PoolLine ==
  /\ at = "read"
  /\ lines < MaxLines
  /\ lines' = lines + 1
  /\ Goto("after")
  /\ UNCHANGED <<authorizeSent, suggestSent, nextId, owed>>

(* Lines that change nothing: malformed, unknown or only printed.           *)
IgnoredLine ==
  /\ PoolLine
  /\ UNCHANGED <<poolVars, countVars, feedVars>>

(* handle_set_difficulty                                                    *)
SetDifficulty ==
  /\ PoolLine
  /\ \E diff \in Difficulties :
       /\ difficulty' = diff
       /\ Rebuild(template, extranonce1, en2Size, diff, exhausted)
  /\ UNCHANGED <<subscribed, authorized, extranonce1, en2Size, template, notifies,
                 notifyDiff, countVars>>

(* Mutant of SetExtranonce: the job stays as it was built.                  *)
SetExtranonceOnly ==
  /\ PoolLine
  /\ extranonce1' \in Extranonces \union {extranonce1}
  /\ en2Size' \in {"usable", "none", "long"}
  /\ UNCHANGED <<subscribed, authorized, difficulty, template, notifies, notifyDiff,
                 countVars, feedVars>>

(* handle_set_extranonce                                                    *)
SetExtranonce ==
  /\ PoolLine
  /\ \E e \in Extranonces \union {extranonce1}, size \in {"usable", "none", "long"} :
       /\ extranonce1' = e
       /\ en2Size' = size
       /\ Rebuild(template, e, size, difficulty, exhausted)
  /\ UNCHANGED <<subscribed, authorized, difficulty, template, notifies, notifyDiff,
                 countVars>>

(* handle_notify: a template with a field too long is dropped, and with it  *)
(* the one before; the engine goes on with its old job.                     *)
Notify ==
  /\ PoolLine
  /\ 1 \notin owed
  /\ notifies' = notifies + 1
  /\ notifyDiff' = difficulty
  /\ \/ /\ template' = NoTemplate
        /\ UNCHANGED feedVars
     \/ \E id \in JobIds, sound \in BOOLEAN :
          LET t == [id |-> id, valid |-> TRUE, sound |-> sound]
          IN  /\ template' = t
              /\ Rebuild(t, extranonce1, en2Size, difficulty, exhausted)
  /\ UNCHANGED <<subscribed, authorized, extranonce1, en2Size, difficulty, countVars>>

-----------------------------------------------------------------------------
(* After a line: authorize, suggest a difficulty, start the session timer.  *)

MustAuthorize == subscribed /\ ~authorizeSent
MustSuggest   == authorized /\ Suggests /\ ~suggestSent

AfterLine ==
  /\ at = "after"
  /\ at' = "top"
  /\ authorizeSent' = (authorizeSent \/ MustAuthorize)
  /\ suggestSent' = (suggestSent \/ MustSuggest)
  /\ owed' = owed \union (IF MustAuthorize THEN {2} ELSE {})
                  \union (IF MustSuggest THEN {3} ELSE {})
  /\ timer' = IF timer = "unset" /\ Timed /\ authorized /\ notifies > 0
              THEN "running" ELSE timer
  /\ UNCHANGED <<runResult, stopAsked, nextId, lines, poolVars, countVars, feedVars>>

AfterLineFails ==
  /\ at = "after"
  /\ MustAuthorize \/ MustSuggest
  /\ End(1)
  /\ UNCHANGED <<rpcVars, poolVars, countVars, feedVars>>

-----------------------------------------------------------------------------
(* Outside: the session time runs out, and someone stops the core.          *)

TimePasses ==
  /\ timer = "running"
  /\ timer' = "expired"
  /\ UNCHANGED <<at, runResult, stopAsked, rpcVars, poolVars, countVars, feedVars>>

AskStop ==
  /\ ~stopAsked
  /\ stopAsked' = TRUE
  /\ UNCHANGED <<at, runResult, timer, rpcVars, poolVars, countVars, feedVars>>

Ended ==
  /\ at = "ended"
  /\ UNCHANGED vars

ReadStep ==
  \/ ReadTimesOut \/ ReadFails \/ SubscribeAnswer \/ AuthorizeAnswer \/ SuggestAnswer
  \/ IgnoredLine \/ SetDifficulty \/ SetExtranonce \/ Notify
  \/ \E id \in owed : SubmitAnswer(id)

SessionStep ==
  \/ Connect \/ ConnectFails \/ Top \/ FlushShare \/ FlushFails \/ FlushDone
  \/ RollExtranonce \/ ReadStep \/ AfterLine \/ AfterLineFails

EngineStep == ExhaustNonces \/ \E n \in Nonces : FindShare(n)

Next == SessionStep \/ EngineStep \/ TimePasses \/ AskStop \/ Ended

(* The session thread runs, and a read ends after 200 ms.  Nothing is       *)
(* asked of the pool, of the engine or of the user.                         *)
Spec     == Init /\ [][Next]_vars
FairSpec == Spec /\ WF_vars(SessionStep)

-----------------------------------------------------------------------------
(* Properties.                                                             *)

(* The pool never sees the same share twice: however often the job is       *)
(* rebuilt (roll, difficulty, extranonce, a repeated notify) and its nonces *)
(* start again at zero, the extranonce2 differs.                            *)
NoDuplicateSubmit == Cardinality(sent) = submits

(* Every submitted share is accepted, rejected or still unanswered, and     *)
(* counted as exactly one of them.                                          *)
SubmitsAddUp ==
  submits = accepts + rejects + Cardinality({id \in owed : id >= 4})

(* The pending table holds only requests the pool still owes an answer to,  *)
(* its counter is the number of slots in use, and until more submits are    *)
(* open than it has slots it holds all of them.                             *)
PendingIsOwed ==
  /\ Active \subseteq owed
  /\ pendingCount = Cardinality({s \in Slots : pending[s] # 0})
  /\ ~overflowed => Active = {id \in owed : id >= 4}

CanBuild ==
  /\ template.valid /\ template.sound
  /\ extranonce1 # Unset /\ en2Size = "usable" /\ en2Counter < En2Space

(* Whenever the last template can be built, the engine works on it, with    *)
(* the extranonce1 the pool set last, whatever came in between and in which *)
(* order.  Its difficulty is the one that held at the last notify or the    *)
(* one set since: a comment (stratum.c:1152) has a new one wait for the     *)
(* next notify, the code rebuilds the job with it at once.                  *)
MinesWhatPoolAsked ==
  CanBuild => /\ job # Unset
              /\ job.id = template.id
              /\ job.en1 = extranonce1
              /\ job.diff \in {notifyDiff, difficulty}

(* A job whose nonces are used up is replaced as long as one can be built:  *)
(* the exhausted flag is never lost between the engine and the session.     *)
ExhaustionIsAnswered ==
  (retired /\ CanBuild) ~> (~retired \/ ~CanBuild \/ at = "ended")
=============================================================================
