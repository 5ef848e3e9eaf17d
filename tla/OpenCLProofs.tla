---------------------------- MODULE OpenCLProofs ----------------------------
(* Theorems about the OpenCL devices, for any configurations and machines   *)
(* and whatever calls fail: no object of the runtime is left behind, every  *)
(* program is whole, and every scan hands over exactly what it should.      *)
EXTENDS OpenCL, FiniteSetTheorems, FunctionTheorems, SequenceTheorems, TLAPS

-----------------------------------------------------------------------------
(* Nothing leaks.                                                           *)

(* What the handle being made may hold at each place of its creation.       *)
Before(place) ==
  CASE place = "context" -> {}
    [] place = "queue"   -> {"context"}
    [] place = "program" -> {"context", "queue"}
    [] place \in {"build", "kernel"} -> {"context", "queue", "program"}
    [] place = "params"  -> {"context", "queue", "program", "kernel"}
    [] place = "count"   -> {"context", "queue", "program", "kernel", "params"}
    [] place = "matches" -> {"context", "queue", "program", "kernel", "params", "count"}
    [] place = "results" -> Kinds \ {"results", "flags"}
    [] place = "flags"   -> Kinds \ {"flags"}
    [] place = "ready"   -> Kinds
    [] OTHER -> {}

(* The handles that mine, as a sequence until the workers are launched.     *)
Handles == {started[i] : i \in DOMAIN started}

LeakInv ==
  /\ live \in [Kinds -> Int]
  /\ IsFiniteSet(DOMAIN started)
  /\ pc # "mine" => started \in Seq(Handles)
  /\ "held" \in DOMAIN h /\ h.held \subseteq Before(pc)
  /\ NothingLeaks

(* The handles with an object of a kind are counted like any finite set.    *)
LEMMA HeldIsNat ==
  ASSUME NEW handles, IsFiniteSet(DOMAIN handles), NEW kind
  PROVE  /\ Held(handles, kind) \in Nat
         /\ IsFiniteSet({i \in DOMAIN handles : kind \in handles[i].handle.held})
BY FS_Subset, FS_CardinalityType DEF Held

LEMMA NoneHeld == ASSUME NEW kind PROVE Held(<<>>, kind) = 0
BY FS_EmptySet DEF Held

(* One more handle holds what it holds.                                     *)
LEMMA HeldOfAppend ==
  ASSUME NEW S, NEW handles \in Seq(S), NEW new, NEW kind
  PROVE  Held(Append(handles, new), kind) =
           Held(handles, kind) + IF kind \in new.handle.held THEN 1 ELSE 0
<1> DEFINE all  == Append(handles, new)
           old  == {i \in DOMAIN handles : kind \in handles[i].handle.held}
           next == {i \in DOMAIN all : kind \in all[i].handle.held}
<1>1. /\ Len(handles) \in Nat /\ DOMAIN handles = 1 .. Len(handles)
      /\ handles \in Seq(S \cup {new}) /\ new \in S \cup {new}
  OBVIOUS
<1>2. /\ DOMAIN all = 1 .. Len(handles) + 1
      /\ \A i \in 1 .. Len(handles) : all[i] = handles[i]
      /\ all[Len(handles) + 1] = new
  BY <1>1
<1>3. IsFiniteSet(old) /\ Cardinality(old) \in Nat
  <2>1. IsFiniteSet(1 .. Len(handles))
    BY <1>1, FS_Interval
  <2>2. old \subseteq 1 .. Len(handles)
    BY <1>1
  <2>3. QED
    BY <2>1, <2>2, FS_Subset, FS_CardinalityType
<1> HIDE DEF old, next, all
<1>4. Held(all, kind) = Cardinality(next) /\ Held(handles, kind) = Cardinality(old)
  BY DEF Held, old, next
<1>5. CASE kind \in new.handle.held
  <2>1. next = old \cup {Len(handles) + 1} /\ Len(handles) + 1 \notin old
    BY <1>1, <1>2, <1>5 DEF old, next
  <2>2. Cardinality(next) = Cardinality(old) + 1
    BY <1>3, <2>1, FS_AddElement
  <2>3. QED
    BY <1>5, <1>4, <2>2 DEF all
<1>6. CASE kind \notin new.handle.held
  <2>1. next = old
    BY <1>1, <1>2, <1>6 DEF old, next
  <2>2. QED
    BY <1>3, <1>6, <1>4, <2>1 DEF all
<1>7. QED
  BY <1>5, <1>6

(* Handles that are destroyed and those that stay are all there were.       *)
LEMMA HeldOfParts ==
  ASSUME NEW handles, IsFiniteSet(DOMAIN handles), NEW kept \in SUBSET DOMAIN handles,
         NEW kind
  PROVE  Held(handles, kind) =
           Held([i \in DOMAIN handles \ kept |-> handles[i]], kind)
             + Held([i \in kept |-> handles[i]], kind)
<1> DEFINE lost == [i \in DOMAIN handles \ kept |-> handles[i]]
           rest == [i \in kept |-> handles[i]]
           A == {i \in DOMAIN lost : kind \in lost[i].handle.held}
           B == {i \in DOMAIN rest : kind \in rest[i].handle.held}
           C == {i \in DOMAIN handles : kind \in handles[i].handle.held}
<1>1. C = A \cup B /\ A \cap B = {}
  OBVIOUS
<1>2. IsFiniteSet(A) /\ IsFiniteSet(B)
  BY FS_Subset
<1> HIDE DEF A, B, C
<1>3. Cardinality(C) = Cardinality(A) + Cardinality(B)
  <2>1. Cardinality(A \cup B) = Cardinality(A) + Cardinality(B) - Cardinality(A \cap B)
    BY <1>2, FS_Union
  <2>2. Cardinality(A \cap B) = 0 /\ Cardinality(A) \in Nat /\ Cardinality(B) \in Nat
    BY <1>1, <1>2, FS_EmptySet, FS_CardinalityType
  <2>3. QED
    BY <1>1, <2>1, <2>2
<1>4. QED
  BY <1>3 DEF Held, A, B, C

(* A handle that is given up leaves what the others hold.                   *)
LEMMA GiveUpKeeps == ASSUME LeakInv, GiveUp, pc # "mine" PROVE LeakInv'
<1>1. live' = Less(h.held) /\ h' = NoHandle /\ pc' = "next" /\ started' = started
  BY DEF GiveUp
<1>2. h'.held = {} /\ "held" \in DOMAIN h'
  BY <1>1 DEF NoHandle
<1>3. \A kind \in Kinds : Held(started, kind) \in Nat
  BY HeldIsNat DEF LeakInv
<1>4. live' \in [Kinds -> Int] /\ \A kind \in Kinds : live'[kind] = Held(started, kind)
  BY <1>1, <1>3 DEF Less, LeakInv, NothingLeaks
<1>5. NothingLeaks'
  BY <1>1, <1>2, <1>4 DEF NothingLeaks
<1>6. QED
  BY <1>1, <1>2, <1>4, <1>5 DEF LeakInv, Handles

LEMMA LeakInit == Init => LeakInv
<1> SUFFICES ASSUME Init PROVE LeakInv
  OBVIOUS
<1>1. started = <<>> /\ h.held = {} /\ "held" \in DOMAIN h
  BY DEF Init, NoHandle
<1>2. started \in Seq(Handles) /\ IsFiniteSet(DOMAIN started)
  BY <1>1, EmptySeq, FS_EmptySet
<1>3. live \in [Kinds -> Int] /\ \A kind \in Kinds : live[kind] = 0
  BY DEF Init
<1>4. QED
  BY <1>1, <1>2, <1>3, NoneHeld DEF LeakInv, NothingLeaks

LEMMA LeakStep == LeakInv /\ [Next]_vars => LeakInv'
<1> SUFFICES ASSUME LeakInv, [Next]_vars PROVE LeakInv'
  OBVIOUS
<1>1. \A kind \in Kinds : Held(started, kind) \in Nat
  BY HeldIsNat DEF LeakInv
<1>2. ASSUME UNCHANGED <<live, started>>, pc # "mine", "held" \in DOMAIN h', h'.held = h.held,
             h.held \subseteq Before(pc')
      PROVE  LeakInv'
  BY <1>2 DEF LeakInv, NothingLeaks, Handles
<1>3. CASE Resolve
  <2>1. h.held \subseteq Before(pc')
    BY <1>3 DEF Resolve, LeakInv, Before
  <2>2. QED
    BY <1>2, <1>3, <2>1 DEF Resolve, LeakInv
<1>4. CASE NextDevice
  <2>1. h.held \subseteq Before(pc')
    BY <1>4 DEF NextDevice, LeakInv, Before
  <2>2. QED
    BY <1>2, <1>4, <2>1 DEF NextDevice, LeakInv
<1>5. CASE Create
  <2>1. h.held = {} /\ h'.held = {} /\ "held" \in DOMAIN h'
    BY <1>5 DEF Create, LeakInv, Before, Handle
  <2>2. QED
    BY <1>2, <1>5, <2>1 DEF Create
<1>6. CASE CreateRefused \/ MakeFails \/ BuildFails \/ SelfTestScanFails
  <2>1. GiveUp /\ pc # "mine"
    BY <1>6 DEF CreateRefused, MakeFails, BuildFails, BuildFailed, SelfTestScanFails, Kinds
  <2>2. QED
    BY <2>1, GiveUpKeeps
<1>7. CASE Make
  <2>1. pc \in Kinds /\ pc \notin h.held /\ pc # "mine"
    BY <1>7 DEF Make, LeakInv, Before, Kinds
  <2>2. /\ "held" \in DOMAIN h' /\ h'.held = h.held \cup {pc}
        /\ live' = [live EXCEPT ![pc] = @ + 1] /\ started' = started
    BY <1>7 DEF Make, LeakInv
  <2>3. h'.held \subseteq Before(pc')
    BY <1>7, <2>1, <2>2 DEF Make, LeakInv, Before, After, Kinds
  <2>4. pc' # "mine"
    BY <1>7, <2>1 DEF Make, After, Kinds
  <2>5. live' \in [Kinds -> Int] /\ NothingLeaks'
    BY <1>1, <2>1, <2>2 DEF LeakInv, NothingLeaks
  <2>6. QED
    BY <2>1, <2>2, <2>3, <2>4, <2>5 DEF LeakInv, Handles
<1>8. CASE Build
  <2>1. h.held \subseteq Before(pc')
    BY <1>8 DEF Build, LeakInv, Before
  <2>2. QED
    BY <1>2, <1>8, <2>1 DEF Build, LeakInv
<1>9. CASE Fallback
  <2>1. /\ "held" \in DOMAIN h' /\ h'.held = h.held \ {"program", "kernel"}
        /\ live' = Less(h.held \cap {"program", "kernel"}) /\ started' = started
        /\ pc' = "program" /\ pc # "mine"
    BY <1>9 DEF Fallback, BuildFailed, Released, LeakInv
  <2>2. h'.held \subseteq Before(pc')
    BY <1>9, <2>1 DEF Fallback, BuildFailed, LeakInv, Before
  <2>3. live' \in [Kinds -> Int] /\ NothingLeaks'
    BY <1>1, <2>1 DEF LeakInv, NothingLeaks, Less
  <2>4. QED
    BY <2>1, <2>2, <2>3 DEF LeakInv, Handles
<1>10. CASE SelfTest
  <2>1. /\ live' = Less(h.held) /\ h' = NoHandle /\ started' = started
        /\ pc' \in {"create", "next"} /\ pc # "mine"
    BY <1>10 DEF SelfTest
  <2>2. h'.held = {} /\ "held" \in DOMAIN h'
    BY <2>1 DEF NoHandle
  <2>3. live' \in [Kinds -> Int] /\ NothingLeaks'
    BY <1>1, <2>1, <2>2 DEF LeakInv, NothingLeaks, Less
  <2>4. QED
    BY <2>1, <2>2, <2>3 DEF LeakInv, Handles
<1>11. CASE Keep
  <2> DEFINE new == [handle |-> h, tested |-> tested]
  <2>1. /\ started' = Append(started, new) /\ h' = NoHandle /\ live' = live
        /\ pc' = "next" /\ started \in Seq(Handles)
    BY <1>11 DEF Keep, LeakInv
  <2>2. \A kind \in Kinds :
          Held(started', kind) = Held(started, kind) + IF kind \in h.held THEN 1 ELSE 0
    BY <2>1, HeldOfAppend
  <2>3. h'.held = {} /\ "held" \in DOMAIN h'
    BY <2>1 DEF NoHandle
  <2>4. NothingLeaks'
    BY <1>1, <2>1, <2>2, <2>3 DEF LeakInv, NothingLeaks
  <2>5. Len(started) \in Nat /\ started' \in Seq(Handles \cup {new})
        /\ DOMAIN started' = 1 .. Len(started) + 1 /\ Len(started') = Len(started) + 1
    BY <2>1
  <2>6. started' \in Seq(Handles')
    BY <2>5, SeqDef DEF Handles
  <2>7. IsFiniteSet(DOMAIN started')
    BY <2>5, FS_Interval
  <2>8. QED
    BY <2>1, <2>3, <2>4, <2>6, <2>7 DEF LeakInv
<1>12. CASE Launch
  <2>1. PICK running \in SUBSET DOMAIN started :
          /\ live' = [kind \in Kinds |-> live[kind] -
                        Held([i \in DOMAIN started \ running |-> started[i]], kind)]
          /\ started' = [i \in running |-> started[i]]
    BY <1>12 DEF Launch
  <2>2. h' = h /\ h.held = {} /\ pc' = "mine"
    BY <1>12 DEF Launch, LeakInv, Before
  <2>3. IsFiniteSet(DOMAIN started')
    BY <2>1, FS_Subset DEF LeakInv
  <2> DEFINE lost == [i \in DOMAIN started \ running |-> started[i]]
  <2>4. IsFiniteSet(DOMAIN lost)
    BY FS_Subset DEF LeakInv
  <2>5. \A kind \in Kinds : Held(lost, kind) \in Nat /\ Held(started', kind) \in Nat
    BY <2>3, <2>4, HeldIsNat
  <2>6. \A kind \in Kinds :
          Held(started, kind) = Held(lost, kind) + Held(started', kind)
    BY <2>1, HeldOfParts DEF LeakInv
  <2> HIDE DEF lost
  <2>7. \A kind \in Kinds : live[kind] = Held(started, kind)
    BY <1>1, <2>2 DEF LeakInv, NothingLeaks
  <2>8. live' = [kind \in Kinds |-> live[kind] - Held(lost, kind)]
    BY <2>1 DEF lost
  <2>9. live' \in [Kinds -> Int] /\ \A kind \in Kinds : live'[kind] = Held(started', kind)
    BY <1>1, <2>5, <2>6, <2>7, <2>8 DEF LeakInv
  <2>10. NothingLeaks'
    BY <2>2, <2>5, <2>9 DEF NothingLeaks
  <2>11. QED
    BY <2>2, <2>3, <2>9, <2>10 DEF LeakInv, Before
<1>13. CASE (\E i \in DOMAIN started : Scan(i)) \/ ScanFails \/ UNCHANGED vars
  <2>1. UNCHANGED <<live, started, h, pc>>
    BY <1>13 DEF Scan, ScanFails, vars
  <2>2. QED
    BY <2>1 DEF LeakInv, NothingLeaks, Handles
<1>14. CASE Stop
  <2>1. /\ live' = [kind \in Kinds |-> live[kind] - Held(started, kind)]
        /\ started' = <<>> /\ h' = h /\ h.held = {} /\ pc' = "off"
    BY <1>14 DEF Stop, LeakInv, Before
  <2>2. live' \in [Kinds -> Int] /\ \A kind \in Kinds : live'[kind] = 0
    BY <1>1, <2>1 DEF LeakInv, NothingLeaks
  <2>3. NothingLeaks'
    BY <2>1, <2>2, NoneHeld DEF NothingLeaks
  <2>4. started' \in Seq(Handles') /\ IsFiniteSet(DOMAIN started')
    BY <2>1, EmptySeq, FS_EmptySet
  <2>5. QED
    BY <2>1, <2>2, <2>3, <2>4 DEF LeakInv
<1>15. QED
  BY <1>3, <1>4, <1>5, <1>6, <1>7, <1>8, <1>9, <1>10, <1>11, <1>12, <1>13, <1>14
  DEF Next

(* Whatever calls fail, each object of the runtime is held by the handle    *)
(* being made or by one that mines.                                         *)
THEOREM NothingIsLeftBehind == Spec => []NothingLeaks
BY LeakInit, LeakStep, PTL DEF Spec, LeakInv

-----------------------------------------------------------------------------
(* Programs are whole.                                                      *)

(* Only a modern backend is given a kernel that needs one.                  *)
BackendSuits == ModernOnly(h.kernel) => h.backend = "modern"

WholeInv ==
  pc \in {"context", "queue", "program", "build", "kernel"} =>
    {"kernel", "backend"} \subseteq DOMAIN h /\ BackendSuits

(* Then the sources chosen for a kernel define it and all they call, for    *)
(* any number of nonces per item.                                           *)
LEMMA SuitableIsWhole ==
  ASSUME NEW a, ModernOnly(a.kernel) => a.backend = "modern" PROVE Whole(a)
<1> USE DEF Whole, Sources, TailSource, Modern, KernelName, Defined, Needs
<1>1. CASE a.kernel = "legacy"
  BY <1>1
<1>2. CASE a.kernel \in {"fixed1", "fixed2", "fixed4"}
  BY <1>2 DEF ModernOnly, FixedNpi
<1>3. CASE a.kernel = "register"
  BY <1>3 DEF ModernOnly
<1>4. CASE a.kernel \notin {"legacy", "fixed1", "fixed2", "fixed4", "register"}
  BY <1>4 DEF KernelForNpi
<1>5. QED
  BY <1>1, <1>2, <1>3, <1>4

LEMMA WholeStep == WholeInv /\ [Next]_vars => WholeInv'
<1> SUFFICES ASSUME WholeInv, [Next]_vars PROVE WholeInv'
  OBVIOUS
<1> USE DEF WholeInv, BackendSuits
<1>1. CASE Create
  BY <1>1 DEF Create, Refused, Handle
<1>2. CASE Make
  BY <1>2 DEF Make, After, Kinds
<1>3. CASE Build
  BY <1>3 DEF Build
<1>4. CASE Fallback
  BY <1>4 DEF Fallback, BuildFailed, ModernOnly, FixedNpi
<1>5. CASE UNCHANGED vars
  BY <1>5 DEF vars
<1>6. CASE Resolve \/ NextDevice \/ SelfTest \/ Keep \/ Launch \/ Stop
  BY <1>6 DEF Resolve, NextDevice, SelfTest, Keep, Launch, Stop
<1>7. CASE CreateRefused \/ MakeFails \/ BuildFails \/ SelfTestScanFails
  BY <1>7 DEF CreateRefused, MakeFails, BuildFails, SelfTestScanFails, GiveUp
<1>8. CASE (\E i \in DOMAIN started : Scan(i)) \/ ScanFails
  BY <1>8 DEF Scan, ScanFails
<1>9. QED
  BY <1>1, <1>2, <1>3, <1>4, <1>5, <1>6, <1>7, <1>8 DEF Next

(* Every program that is built has the kernel that will be asked for and    *)
(* all it calls, after a fallback too.                                      *)
THEOREM ProgramsAreWhole == Spec => []ProgramIsWhole
<1>1. Init => WholeInv
  BY DEF Init, WholeInv
<1>2. WholeInv => ProgramIsWhole
  BY SuitableIsWhole DEF WholeInv, BackendSuits, ProgramIsWhole
<1>3. QED
  BY <1>1, <1>2, WholeStep, PTL DEF Spec

-----------------------------------------------------------------------------
(* The global size: work items in whole groups.                             *)

(* Rounding up to whole groups covers what there is.                        *)
LEMMA RoundedUp ==
  ASSUME NEW n \in Nat, NEW k \in Nat \ {0}
  PROVE  /\ (n + k - 1) \div k \in Nat
         /\ ((n + k - 1) \div k) * k >= n
<1> DEFINE q == (n + k - 1) \div k
<1>1. q \in Nat /\ q * k <= n + k - 1 /\ n + k - 1 < q * k + k
  OBVIOUS
<1>2. QED
  BY <1>1

LEMMA ItemOf ==
  ASSUME NEW n \in Nat, NEW k \in Nat \ {0}
  PROVE  /\ n \div k \in Nat
         /\ (n \div k) * k <= n /\ n < (n \div k) * k + k
OBVIOUS

(* A nonce lies in one item's stretch only.                                 *)
LEMMA OneItem ==
  ASSUME NEW k \in Nat \ {0}, NEW i \in Nat, NEW j \in Nat, NEW n \in Nat,
         i * k <= n, n < i * k + k, j * k <= n, n < j * k + k
  PROVE  i = j
<1>1. ASSUME NEW x \in Nat, NEW y \in Nat, x < y PROVE x * k + k <= y * k
  <2>1. y - x - 1 \in Nat /\ (y - x - 1) * k \in Nat
    BY <1>1
  <2>2. y * k = x * k + k + (y - x - 1) * k
    BY <1>1
  <2>3. QED
    BY <2>1, <2>2
<1>2. i * k \in Nat /\ j * k \in Nat
  OBVIOUS
<1>3. ~(i < j)
  BY <1>1, <1>2
<1>4. ~(j < i)
  BY <1>1, <1>2
<1>5. QED
  BY <1>3, <1>4

(* What a scan needs of a handle: its kernel goes through as many nonces    *)
(* per item as the host counts on.                                          *)
Ready(a) ==
  /\ a.npi \in Nat \ {0} /\ NpiOf(KernelName(a), a.npi) = a.npi
  /\ a.local \in Nat /\ a.results \in Nat /\ a.batch \in Nat

(* The global size leaves no nonce out.                                     *)
LEMMA ItemsCover ==
  ASSUME NEW a, Ready(a), NEW count \in Nat
  PROVE  WorkItems(a, count) \in Nat /\ count <= WorkItems(a, count) * a.npi
<1> DEFINE items == (count + a.npi - 1) \div a.npi
           groups == (items + a.local - 1) \div a.local
<1>1. items \in Nat /\ count <= items * a.npi
  BY RoundedUp DEF Ready
<1>2. CASE a.local = 0
  BY <1>1, <1>2 DEF WorkItems
<1>3. CASE a.local # 0
  <2>1. groups \in Nat /\ items <= groups * a.local
    BY <1>1, <1>3, RoundedUp DEF Ready
  <2>2. WorkItems(a, count) = groups * a.local
    BY <1>3 DEF WorkItems
  <2> HIDE DEF items, groups
  <2>3. groups * a.local \in Nat /\ a.npi \in Nat /\ a.local \in Nat
    BY <2>1 DEF Ready
  <2>4. items * a.npi <= (groups * a.local) * a.npi
    <3> DEFINE w == groups * a.local
    <3>1. w \in Nat /\ items <= w /\ items \in Nat
      BY <1>1, <2>1, <2>3
    <3> HIDE DEF w
    <3>2. w - items \in Nat
      BY <3>1
    <3>3. (w - items) * a.npi \in Nat /\ w * a.npi = items * a.npi + (w - items) * a.npi
      BY <2>3, <3>1, <3>2
    <3>4. items * a.npi <= w * a.npi
      BY <2>3, <3>1, <3>3
    <3>5. QED
      BY <3>4 DEF w
  <2>5. items * a.npi \in Nat /\ (groups * a.local) * a.npi \in Nat
    BY <1>1, <2>3
  <2>6. QED
    BY <1>1, <2>2, <2>3, <2>4, <2>5
<1>4. QED
  BY <1>2, <1>3

(* So each winner is a hit of the one item whose stretch it lies in.        *)
LEMMA HitsAreWinners ==
  ASSUME NEW a, Ready(a), NEW count \in Nat, NEW winners \in SUBSET (0 .. count - 1)
  PROVE  Hits(a, count, winners) = {<<n \div a.npi, n>> : n \in winners}
<1> DEFINE items == WorkItems(a, count)
<1>1. a.npi \in Nat \ {0} /\ items \in Nat /\ count <= items * a.npi
  BY ItemsCover DEF Ready
<1> HIDE DEF items
<1>2. \A item \in Nat, n \in winners :
        n \in Covered(item, a.npi, count) <=> item = n \div a.npi
  <2> SUFFICES ASSUME NEW item \in Nat, NEW n \in winners
               PROVE  n \in Covered(item, a.npi, count) <=> item = n \div a.npi
    OBVIOUS
  <2> DEFINE base == item * a.npi
  <2>1. base \in Nat /\ n \in Nat /\ n < count
    BY <1>1
  <2>2. n \in Covered(item, a.npi, count) <=> base <= n /\ n < base + a.npi
    <3> HIDE DEF base
    <3>1. Covered(item, a.npi, count) =
            IF base >= count THEN {} ELSE base .. Least(base + a.npi, count) - 1
      BY DEF Covered, base
    <3>2. QED
      BY <1>1, <2>1, <3>1 DEF Least
  <2>3. QED
    BY <1>1, <2>1, <2>2, ItemOf, OneItem
<1>3. \A n \in winners : n \div a.npi \in 0 .. items - 1
  <2> SUFFICES ASSUME NEW n \in winners PROVE n \div a.npi \in 0 .. items - 1
    OBVIOUS
  <2> DEFINE i == n \div a.npi
  <2>1. n \in Nat /\ n < count /\ i \in Nat /\ i * a.npi <= n
    BY <1>1, ItemOf
  <2> HIDE DEF i
  <2>2. ASSUME items <= i PROVE FALSE
    <3>1. (i - items) * a.npi \in Nat /\ i * a.npi = items * a.npi + (i - items) * a.npi
      BY <1>1, <2>1, <2>2
    <3>2. items * a.npi \in Nat /\ i * a.npi \in Nat
      BY <1>1, <2>1
    <3>3. QED
      BY <1>1, <2>1, <3>1, <3>2
  <2>3. i \in 0 .. items - 1
    BY <1>1, <2>1, <2>2
  <2>4. QED
    BY <2>3 DEF i
<1>4. Hits(a, count, winners) =
        UNION {{<<item, n>> : n \in winners \cap Covered(item, a.npi, count)} :
                 item \in 0 .. items - 1}
  BY DEF Hits, Ready, items
<1>5. QED
  BY <1>1, <1>2, <1>3, <1>4

(* Hits differ in their nonces, so they are as many.                        *)
LEMMA NoncesOfHits ==
  ASSUME NEW hits, IsFiniteSet(hits),
         \A x, y \in hits : x[2] = y[2] => x = y
  PROVE  LET nonces == {hit[2] : hit \in hits}
         IN  IsFiniteSet(nonces) /\ Cardinality(nonces) = Cardinality(hits)
<1> DEFINE nonces == {hit[2] : hit \in hits}
           f == [hit \in hits |-> hit[2]]
<1>1. f \in Bijection(hits, nonces)
  BY DEF Bijection, Injection, IsInjective, Surjection
<1>2. ExistsBijection(hits, nonces)
  BY <1>1 DEF ExistsBijection
<1>3. QED
  BY <1>2, FS_Bijection

-----------------------------------------------------------------------------
(* Ranks: a finite set in a strict total order, given as its pairs.         *)

Orders(R, S) ==
  /\ \A x \in S : <<x, x>> \notin R
  /\ \A x, y \in S : x # y => <<x, y>> \in R \/ <<y, x>> \in R
  /\ \A x, y, z \in S : <<x, y>> \in R /\ <<y, z>> \in R => <<x, z>> \in R

Below(R, S, x) == {y \in S : <<y, x>> \in R}
Rank(R, S) == [x \in S |-> Cardinality(Below(R, S, x))]

LEMMA StrictSubset ==
  ASSUME NEW T, IsFiniteSet(T), NEW U \in SUBSET T, NEW x \in T, x \notin U
  PROVE  /\ IsFiniteSet(U) /\ Cardinality(U) \in Nat /\ Cardinality(T) \in Nat
         /\ Cardinality(U) < Cardinality(T)
<1>1. IsFiniteSet(U) /\ Cardinality(U) <= Cardinality(T) /\ Cardinality(U) # Cardinality(T)
  BY FS_Subset
<1>2. Cardinality(U) \in Nat /\ Cardinality(T) \in Nat
  BY <1>1, FS_CardinalityType
<1>3. QED
  BY <1>1, <1>2

LEMMA RankGrows ==
  ASSUME NEW S, IsFiniteSet(S), NEW R, Orders(R, S),
         NEW x \in S, NEW y \in S, <<x, y>> \in R
  PROVE  /\ Rank(R, S)[x] \in Nat /\ Rank(R, S)[y] \in Nat
         /\ Rank(R, S)[x] < Rank(R, S)[y]
<1>1. /\ Below(R, S, x) \in SUBSET Below(R, S, y)
      /\ x \in Below(R, S, y) /\ x \notin Below(R, S, x)
  BY DEF Below, Orders
<1>2. IsFiniteSet(Below(R, S, y))
  BY FS_Subset DEF Below
<1>3. Cardinality(Below(R, S, x)) < Cardinality(Below(R, S, y))
      /\ Cardinality(Below(R, S, x)) \in Nat /\ Cardinality(Below(R, S, y)) \in Nat
  BY <1>1, <1>2, StrictSubset
<1>4. QED
  BY <1>3 DEF Rank

(* The ranks of n elements are 0 to n - 1, each once.                       *)
LEMMA RanksAreExact ==
  ASSUME NEW S, IsFiniteSet(S), NEW R, Orders(R, S)
  PROVE  Rank(R, S) \in Bijection(S, 0 .. Cardinality(S) - 1)
<1> DEFINE ranks == 0 .. Cardinality(S) - 1
<1>1. \A x \in S : Rank(R, S)[x] \in ranks
  <2> SUFFICES ASSUME NEW x \in S PROVE Rank(R, S)[x] \in ranks
    OBVIOUS
  <2>1. Below(R, S, x) \in SUBSET S /\ x \notin Below(R, S, x)
    BY DEF Below, Orders
  <2>2. QED
    BY <2>1, StrictSubset DEF Rank
<1>2. ASSUME NEW x \in S, NEW y \in S, <<x, y>> \in R
      PROVE  Rank(R, S)[x] # Rank(R, S)[y]
  BY <1>2, RankGrows
<1>3. \A x, y \in S : Rank(R, S)[x] = Rank(R, S)[y] => x = y
  BY <1>2 DEF Orders
<1>4. Rank(R, S) \in Injection(S, ranks)
  BY <1>1, <1>3, Fun_IsInj DEF Rank
<1>5. IsFiniteSet(ranks) /\ Cardinality(ranks) = Cardinality(S)
  <2>1. Cardinality(S) \in Nat
    BY FS_CardinalityType
  <2>2. QED
    BY <2>1, FS_Interval
<1>6. Rank(R, S) \in Surjection(S, ranks)
  BY <1>4, <1>5, FS_Injection
<1>7. QED
  BY <1>4, <1>6 DEF Bijection

(* As many elements have a rank below r as there are, or r.                 *)
LEMMA LowRanks ==
  ASSUME NEW S, IsFiniteSet(S), NEW R, Orders(R, S), NEW r \in Nat
  PROVE  LET low == {x \in S : Rank(R, S)[x] < r}
         IN  IsFiniteSet(low) /\ Cardinality(low) = Least(Cardinality(S), r)
<1> DEFINE low  == {x \in S : Rank(R, S)[x] < r}
           size == Least(Cardinality(S), r)
           f    == [x \in low |-> Rank(R, S)[x]]
<1>1. Cardinality(S) \in Nat /\ IsFiniteSet(low)
  BY FS_CardinalityType, FS_Subset
<1>2. /\ Rank(R, S) \in [S -> 0 .. Cardinality(S) - 1]
      /\ \A x, y \in S : Rank(R, S)[x] = Rank(R, S)[y] => x = y
      /\ \A k \in 0 .. Cardinality(S) - 1 : \E x \in S : Rank(R, S)[x] = k
  BY RanksAreExact DEF Bijection, Injection, IsInjective, Surjection
<1>3. size \in Nat /\ size <= r /\ size <= Cardinality(S)
      /\ (size = r \/ size = Cardinality(S))
  BY <1>1 DEF Least
<1> HIDE DEF size
<1>4. f \in [low -> 0 .. size - 1]
  BY <1>1, <1>2, <1>3
<1>5. \A x, y \in low : f[x] = f[y] => x = y
  BY <1>2
<1>6. \A k \in 0 .. size - 1 : \E x \in low : f[x] = k
  BY <1>1, <1>2, <1>3
<1> HIDE DEF f
<1>7. f \in Bijection(low, 0 .. size - 1)
  BY <1>4, <1>5, <1>6, Fun_IsBij
<1>8. Cardinality(0 .. size - 1) = Cardinality(low)
  BY <1>1, <1>7, FS_Bijection DEF ExistsBijection
<1>9. Cardinality(0 .. size - 1) = size
  BY <1>3, FS_Interval
<1>10. QED
  BY <1>1, <1>8, <1>9 DEF size

-----------------------------------------------------------------------------
(* What a scan hands over.                                                  *)

ByNonce(hits) == {p \in hits \X hits : p[1][2] < p[2][2]}

(* The flagged hits are those with the least nonces, as many as were asked  *)
(* for.                                                                     *)
LEMMA FlaggedIsExact ==
  ASSUME NEW a, a.results \in Nat, NEW hits, IsFiniteSet(hits),
         \A x \in hits : x[2] \in Nat, \A x, y \in hits : x[2] = y[2] => x = y
  PROVE  Cardinality(Flagged(a, hits)) = Least(Cardinality(hits), a.results)
<1> DEFINE R == ByNonce(hits)
<1>1. \A x, y \in hits : <<x, y>> \in R <=> x[2] < y[2]
  BY DEF ByNonce
<1> HIDE DEF R
<1>2. Orders(R, hits)
  BY <1>1 DEF Orders
<1>3. \A x \in hits : Rank(R, hits)[x] = Cardinality({y \in hits : y[2] < x[2]})
  <2> SUFFICES ASSUME NEW x \in hits
               PROVE  Rank(R, hits)[x] = Cardinality({y \in hits : y[2] < x[2]})
    OBVIOUS
  <2>1. Below(R, hits, x) = {y \in hits : y[2] < x[2]}
    BY <1>1 DEF Below
  <2>2. QED
    BY <2>1 DEF Rank
<1>4. Flagged(a, hits) = {x \in hits : Rank(R, hits)[x] < a.results}
  BY <1>3 DEF Flagged
<1>5. QED
  BY <1>2, <1>4, LowRanks

(* Every winner once, up to max_results, from a device with atomics or from *)
(* the kernel that needs none.                                              *)
LEMMA HandedOverIsExact ==
  ASSUME NEW a, Ready(a), NEW count \in Nat, NEW winners \in SUBSET (0 .. count - 1),
         NEW handed \in HandedOver(a, count, winners),
         a.dev.atomics \/ a.kernel = "legacy"
  PROVE  LET nonces == {hit[2] : hit \in handed}
         IN  /\ nonces \subseteq winners
             /\ Cardinality(nonces) = Cardinality(handed)
             /\ Cardinality(nonces) = Least(Cardinality(winners), a.results)
<1> DEFINE hits   == Hits(a, count, winners)
           nonces == {hit[2] : hit \in handed}
<1>1. hits = {<<n \div a.npi, n>> : n \in winners}
  BY HitsAreWinners
<1>2. IsFiniteSet(winners)
  <2>1. IsFiniteSet(0 .. count - 1)
    BY FS_Interval
  <2>2. QED
    BY <2>1, FS_Subset
<1>3. IsFiniteSet(hits) /\ Cardinality(hits) = Cardinality(winners)
  <2> DEFINE f == [n \in winners |-> <<n \div a.npi, n>>]
  <2> HIDE DEF hits
  <2>1. f \in Bijection(winners, hits)
    BY <1>1 DEF Bijection, Injection, IsInjective, Surjection
  <2>2. ExistsBijection(winners, hits)
    BY <2>1 DEF ExistsBijection
  <2>3. QED
    BY <1>2, <2>2, FS_Bijection
<1>4. /\ \A x \in hits : x[2] \in winners
      /\ \A x, y \in hits : x[2] = y[2] => x = y
  BY <1>1
<1> HIDE DEF hits
<1>5. handed \subseteq hits /\ Cardinality(handed) = Least(Cardinality(hits), a.results)
  <2>1. CASE a.kernel = "legacy"
    <3>1. handed = Flagged(a, hits) /\ handed \subseteq hits
      BY <2>1 DEF HandedOver, Flagged, hits
    <3>2. \A x \in hits : x[2] \in Nat
      <4>1. \A n \in winners : n \in Nat
        OBVIOUS
      <4>2. QED
        BY <1>4, <4>1
    <3>3. QED
      BY <1>3, <1>4, <3>1, <3>2, FlaggedIsExact DEF Ready
  <2>2. CASE a.kernel # "legacy"
    BY <2>2 DEF HandedOver, Stored, hits
  <2>3. QED
    BY <2>1, <2>2
<1>6. IsFiniteSet(handed)
  BY <1>3, <1>5, FS_Subset
<1>7. \A x, y \in handed : x[2] = y[2] => x = y
  BY <1>4, <1>5
<1>8. Cardinality(nonces) = Cardinality(handed)
  BY <1>6, <1>7, NoncesOfHits
<1>9. nonces \subseteq winners
  BY <1>4, <1>5
<1>10. QED
  BY <1>3, <1>5, <1>8, <1>9

(* Without atomics only the kernel that needs none passes the self-test.    *)
LEMMA RacyKernelsFail ==
  ASSUME NEW a, ~a.dev.atomics, a.kernel # "legacy", NEW winners,
         NEW handed \in HandedOver(a, TestNonces, winners)
  PROVE  ~Passes(handed)
<1>1. Cardinality(handed) = Least(Cardinality(Hits(a, TestNonces, winners)), 1)
  BY DEF HandedOver, Stored
<1>2. TestNonces \in Nat /\ TestNonces >= 2
  BY OpenCLAssumption
<1>3. QED
  BY <1>1, <1>2 DEF Passes, Least

-----------------------------------------------------------------------------
(* The devices that a configuration names are entries with unsigned numbers. *)

InPlace(at) == [platform |-> at.platform, device |-> at.device] = at
               /\ at.platform \in Nat /\ at.device \in Nat

LEMMA InOrderIsList ==
  ASSUME NEW S, IsFiniteSet(S), \A at \in S : InPlace(at)
  PROVE  InOrder(S) \in Seq(S)
<1> DEFINE R == {p \in S \X S : Earlier(p[1], p[2])}
           n == Cardinality(S)
<1>1. \A x, y \in S : <<x, y>> \in R <=> Earlier(x, y)
  OBVIOUS
<1> HIDE DEF R
<1>2. Orders(R, S)
  <2>1. \A x \in S : ~Earlier(x, x)
    BY DEF Earlier, InPlace
  <2>2. ASSUME NEW x \in S, NEW y \in S, x # y PROVE Earlier(x, y) \/ Earlier(y, x)
    <3>1. x.platform # y.platform \/ x.device # y.device
      BY <2>2 DEF InPlace
    <3>2. QED
      BY <3>1 DEF Earlier, InPlace
  <2>3. \A x, y, z \in S : Earlier(x, y) /\ Earlier(y, z) => Earlier(x, z)
    BY DEF Earlier, InPlace
  <2>4. QED
    BY <1>1, <2>1, <2>2, <2>3 DEF Orders
<1>3. /\ Rank(R, S) \in [S -> 0 .. n - 1]
      /\ \A k \in 0 .. n - 1 : \E x \in S : Rank(R, S)[x] = k
  BY <1>2, RanksAreExact DEF Bijection, Surjection
<1>4. n \in Nat
  BY FS_CardinalityType
<1> DEFINE list == [i \in 1 .. n |-> CHOOSE x \in S : Rank(R, S)[x] = i - 1]
<1>5. \A i \in 1 .. n : list[i] \in S /\ Rank(R, S)[list[i]] = i - 1
  BY <1>3, <1>4
<1>6. list \in [1 .. n -> S]
  BY <1>5
<1>7. \A i, j \in DOMAIN list : i < j => Earlier(list[i], list[j])
  <2> HIDE DEF list
  <2> SUFFICES ASSUME NEW i \in 1 .. n, NEW j \in 1 .. n, i < j
               PROVE  Earlier(list[i], list[j])
    BY <1>6
  <2>1. list[i] # list[j]
    BY <1>4, <1>5
  <2>2. ASSUME <<list[j], list[i]>> \in R PROVE FALSE
    <3>1. Rank(R, S)[list[j]] < Rank(R, S)[list[i]]
      BY <1>2, <1>5, <2>2, RankGrows
    <3>2. QED
      BY <1>4, <1>5, <3>1
  <2>3. QED
    BY <1>1, <1>2, <1>5, <2>1, <2>2 DEF Orders
<1>8. InOrder(S) \in [1 .. n -> S]
  <2> HIDE DEF list
  <2>1. \E f \in [1 .. n -> S] : \A i, j \in DOMAIN f : i < j => Earlier(f[i], f[j])
    BY <1>6, <1>7
  <2>2. QED
    BY <2>1 DEF InOrder
<1>9. QED
  BY <1>4, <1>8, SeqDef

LEMMA AtIsEntry ==
  ASSUME NEW c \in Sections, NEW p \in Int, NEW d \in Int
  PROVE  At(c, p, d) \in Entries /\ At(c, p, d).npi # 0
BY OpenCLAssumption DEF Sections, Entries, Kernels, Backends, At, OrElse, ClampNpi, Least

LEMMA LimitsKeepEntry ==
  ASSUME NEW c \in Entries PROVE LegacyLimits(c) \in Entries
BY OpenCLAssumption DEF Entries, Kernels, LegacyLimits, LegacyBatch, OrElse, Least

LEMMA ForDeviceIsEntry ==
  ASSUME NEW c \in Entries, NEW dev PROVE ForDevice(c, dev) \in Entries
<1>1. [c EXCEPT !.kernel = "legacy"] \in Entries
  BY DEF Entries, Kernels
<1>2. QED
  BY <1>1, LimitsKeepEntry DEF ForDevice

LEMMA DefaultsKeepEntry ==
  ASSUME NEW entry \in Entries, NEW c \in Sections
  PROVE  WithDefaults(entry, c) \in Entries
<1> DEFINE filled ==
      [entry EXCEPT !.batch = OrElse(@, OrElse(c.batch, DefaultBatch)),
                    !.results = OrElse(@, OrElse(c.results, DefaultResults)),
                    !.local = OrElse(@, c.local),
                    !.npi = ClampNpi(OrElse(@, c.npi)),
                    !.backend = IF @ = "auto" THEN c.backend ELSE @,
                    !.kernel = IF @ = "auto" THEN c.kernel ELSE @]
<1>1. \A x, y \in Nat : OrElse(x, y) \in Nat /\ ClampNpi(x) \in Nat
  BY OpenCLAssumption DEF OrElse, ClampNpi, Least
<1>2. /\ {entry.batch, entry.results, entry.local, entry.npi} \subseteq Nat
      /\ {c.batch, c.results, c.local, c.npi} \subseteq Nat
      /\ {c.backend, entry.backend} \subseteq Backends
      /\ {c.kernel, entry.kernel} \subseteq Kernels
  BY DEF Entries, Sections
<1>3. /\ OrElse(entry.batch, OrElse(c.batch, DefaultBatch)) \in Nat
      /\ OrElse(entry.results, OrElse(c.results, DefaultResults)) \in Nat
      /\ OrElse(entry.local, c.local) \in Nat
      /\ ClampNpi(OrElse(entry.npi, c.npi)) \in Nat
  BY <1>1, <1>2, OpenCLAssumption
<1>4. filled \in Entries
  BY <1>2, <1>3 DEF Entries
<1>5. QED
  BY <1>4, LimitsKeepEntry DEF WithDefaults

LEMMA GivenIsEntry ==
  ASSUME NEW c \in Sections, NEW entry \in Entries PROVE Given(c, entry) \in Entries
BY DEF Given, Sections, Entries, OrElse

LEMMA PositionsAreFinite ==
  ASSUME NEW m \in Seq(Seq(Devices))
  PROVE  IsFiniteSet(Positions(m)) /\ \A at \in Positions(m) : InPlace(at)
<1>1. /\ Len(m) \in Nat /\ DOMAIN m = 1 .. Len(m)
      /\ \A p \in DOMAIN m : Len(m[p]) \in Nat /\ DOMAIN m[p] = 1 .. Len(m[p])
  OBVIOUS
<1>2. \A at \in Positions(m) : InPlace(at)
  BY <1>1 DEF Positions, InPlace
<1>3. \A p \in DOMAIN m : IsFiniteSet({[platform |-> p, device |-> d] : d \in DOMAIN m[p]})
  <2> SUFFICES ASSUME NEW p \in DOMAIN m
               PROVE  IsFiniteSet({[platform |-> p, device |-> d] : d \in DOMAIN m[p]})
    OBVIOUS
  <2> DEFINE D == DOMAIN m[p]
             T == {[platform |-> p, device |-> d] : d \in D}
             f == [d \in D |-> [platform |-> p, device |-> d]]
  <2>1. IsFiniteSet(D)
    BY <1>1, FS_Interval
  <2> HIDE DEF D
  <2>2. f \in Surjection(D, T)
    BY DEF Surjection
  <2>3. QED
    BY <2>1, <2>2, FS_Surjection DEF D
<1>4. IsFiniteSet({{[platform |-> p, device |-> d] : d \in DOMAIN m[p]} : p \in DOMAIN m})
  <2> DEFINE D == DOMAIN m
             T == {{[platform |-> p, device |-> d] : d \in DOMAIN m[p]} : p \in D}
             f == [p \in D |-> {[platform |-> p, device |-> d] : d \in DOMAIN m[p]}]
  <2>1. IsFiniteSet(D)
    <3>1. IsFiniteSet(1 .. Len(m))
      BY <1>1, FS_Interval
    <3>2. QED
      BY <1>1, <3>1
  <2> HIDE DEF D
  <2>2. f \in Surjection(D, T)
    BY DEF Surjection
  <2>3. QED
    BY <2>1, <2>2, FS_Surjection DEF D
<1>5. IsFiniteSet(Positions(m))
  BY <1>3, <1>4, FS_UNION DEF Positions
<1>6. QED
  BY <1>2, <1>5

LEMMA OnePassIsList ==
  ASSUME NEW m \in Seq(Seq(Devices)), NEW c \in Sections, NEW gpu,
         NEW answered \in SUBSET Positions(m)
  PROVE  OnePass(m, c, gpu, answered) \in Seq(Entries)
<1> DEFINE chosen == {at \in answered : DeviceAt(m, at).gpu = gpu}
           taken  == InOrder(chosen)
<1>1. IsFiniteSet(chosen) /\ \A at \in chosen : InPlace(at)
  <2>1. chosen \in SUBSET Positions(m)
    OBVIOUS
  <2>2. QED
    BY <2>1, PositionsAreFinite, FS_Subset
<1>2. taken \in Seq(chosen)
  BY <1>1, InOrderIsList
<1> HIDE DEF chosen, taken
<1>3. Len(taken) \in Nat /\ DOMAIN taken = 1 .. Len(taken)
  BY <1>2
<1>4. \A i \in DOMAIN taken :
        ForDevice(At(c, taken[i].platform, taken[i].device), DeviceAt(m, taken[i])) \in Entries
  <2> SUFFICES ASSUME NEW i \in DOMAIN taken
               PROVE  ForDevice(At(c, taken[i].platform, taken[i].device),
                                DeviceAt(m, taken[i])) \in Entries
    OBVIOUS
  <2>1. taken[i].platform \in Nat /\ taken[i].device \in Nat
    BY <1>1, <1>2 DEF InPlace
  <2>2. QED
    BY <2>1, AtIsEntry, ForDeviceIsEntry
<1>5. [i \in DOMAIN taken |->
         ForDevice(At(c, taken[i].platform, taken[i].device), DeviceAt(m, taken[i]))]
        \in Seq(Entries)
  BY <1>3, <1>4, SeqDef
<1>6. QED
  BY <1>5 DEF OnePass, taken, chosen

LEMMA ResolutionsAreLists ==
  ASSUME NEW m \in Seq(Seq(Devices)), NEW c \in Sections,
         NEW list \in Resolutions(m, c)
  PROVE  list \in Seq(Entries)
<1>1. <<>> \in Seq(Entries)
  OBVIOUS
<1>2. ASSUME NEW any \in Seq(Entries)
      PROVE  SubSeq(any, 1, Least(Len(any), MaxDevices)) \in Seq(Entries)
  <2>1. Least(Len(any), MaxDevices) \in Nat /\ Least(Len(any), MaxDevices) <= Len(any)
    BY OpenCLAssumption DEF Least
  <2>2. QED
    BY <2>1
<1>3. c.list \in Seq(Entries) /\ c.platform \in Int /\ c.device \in Int
  BY DEF Sections
<1>4. [i \in DOMAIN c.list |-> WithDefaults(c.list[i], c)] \in Seq(Entries)
  <2>1. \A i \in DOMAIN c.list : WithDefaults(c.list[i], c) \in Entries
    BY <1>3, DefaultsKeepEntry
  <2>2. Len(c.list) \in Nat /\ DOMAIN c.list = 1 .. Len(c.list)
    BY <1>3
  <2>3. QED
    BY <2>1, <2>2, SeqDef
<1>5. ASSUME NEW first \in SUBSET Positions(m), NEW second \in SUBSET Positions(m)
      PROVE  TwoPasses(m, c, first, second) \in Seq(Entries)
  BY OnePassIsList DEF TwoPasses
<1>6. At(c, c.platform, c.device) \in Entries
  BY <1>3, AtIsEntry
<1>7. \A dev : ForDevice(At(c, c.platform, c.device), dev) \in Entries
  BY <1>6, ForDeviceIsEntry
<1>8. LegacyLimits(At(c, c.platform, c.device)) \in Entries
  BY <1>6, LimitsKeepEntry
<1>9. CASE ~c.enabled
  BY <1>1, <1>9 DEF Resolutions
<1>10. CASE c.enabled /\ c.list # <<>>
  <2> DEFINE filled == [i \in DOMAIN c.list |-> WithDefaults(c.list[i], c)]
  <2>1. filled \in Seq(Entries)
    BY <1>4
  <2>2. list \in {SubSeq(filled, 1, Least(Len(filled), MaxDevices))}
    <3> HIDE DEF filled
    <3>1. Resolutions(m, c) = {SubSeq(filled, 1, Least(Len(filled), MaxDevices))}
      BY <1>10, SMT DEF Resolutions, filled
    <3>2. QED
      BY <3>1
  <2> HIDE DEF filled
  <2>3. QED
    BY <1>2, <2>1, <2>2
<1>11. CASE c.enabled /\ c.list = <<>> /\ c.all
  <2>1. list = <<>> \/ \E first, second \in SUBSET Positions(m) :
          list = SubSeq(TwoPasses(m, c, first, second), 1,
                        Least(Len(TwoPasses(m, c, first, second)), MaxDevices))
    BY <1>11 DEF Resolutions
  <2>2. QED
    BY <1>1, <1>2, <1>5, <2>1
<1>12. CASE c.enabled /\ c.list = <<>> /\ ~c.all
  <2>1. \/ list = <<LegacyLimits(At(c, c.platform, c.device))>>
        \/ \E dev : list = <<ForDevice(At(c, c.platform, c.device), dev)>>
    BY <1>12 DEF Resolutions
  <2>2. \A any \in Entries : <<any>> \in Seq(Entries)
    OBVIOUS
  <2>3. QED
    BY <1>7, <1>8, <2>1, <2>2
<1>13. QED
  BY <1>9, <1>10, <1>11, <1>12 DEF Sections

-----------------------------------------------------------------------------
(* Scans are exact.                                                         *)

LEMMA SomeSize ==
  ASSUME NEW group \in Nat, NEW preferred \in Nat
  PROVE  ChooseLocal(preferred, group) \in Nat
<1> DEFINE sizes == {1, 2, 4, 8, 16, 32, 64, 128, 256, 512}
           Fits(size) == size <= group /\ (size = 512 \/ 2 * size > group)
<1>1. CASE group = 0 \/ preferred <= group
  BY <1>1 DEF ChooseLocal
<1>2. CASE group # 0 /\ ~(preferred <= group)
  <2>1. \E size \in sizes : Fits(size)
    BY <1>2
  <2>2. ChooseLocal(preferred, group) = CHOOSE size \in sizes : Fits(size)
    BY <1>2 DEF ChooseLocal
  <2> HIDE DEF Fits
  <2>3. ChooseLocal(preferred, group) \in sizes
    BY <2>1, <2>2
  <2>4. QED
    BY <2>3
<1>3. QED
  BY <1>1, <1>2

(* Whatever is asked for, a handle's kernel goes through as many nonces per *)
(* item as the host counts on.                                              *)
LEMMA HandlesAreReady ==
  ASSUME NEW c \in Entries, NEW dev, dev.group \in Nat
  PROVE  Ready(Handle(c, dev))
<1> DEFINE kernel == ChosenKernel(c.kernel, dev)
           new    == Handle(c, dev)
<1>1. /\ c.batch \in Nat /\ c.local \in Nat /\ c.npi \in Nat /\ c.results \in Nat
      /\ {DefaultBatch, MinBatch, LegacyMaxBatch, DefaultResults} \subseteq Nat
  BY OpenCLAssumption DEF Entries
<1>2. /\ new.kernel = kernel /\ new.local = Local(c.local, dev)
      /\ new.results = OrElse(c.results, DefaultResults)
      /\ new.batch = LegacyBatch(kernel, Greatest(OrElse(c.batch, DefaultBatch), MinBatch))
      /\ new.npi = OrElse(ForcedNpi(kernel), ClampNpi(c.npi))
  BY DEF Handle
<1> HIDE DEF new, kernel
<1>3. ClampNpi(c.npi) \in Nat \ {0}
  BY <1>1, OpenCLAssumption DEF ClampNpi, OrElse, Least
<1>4. new.npi \in Nat \ {0} /\ NpiOf(KernelName(new), new.npi) = new.npi
  BY <1>2, <1>3 DEF ForcedNpi, FixedNpi, OrElse, KernelName, KernelForNpi, NpiOf
<1>5. Preferred(dev) \in Nat
  BY DEF Preferred
<1>6. ChooseLocal(Preferred(dev), dev.group) \in Nat
  BY <1>5, SomeSize
<1>7. new.local \in Nat
  BY <1>1, <1>2, <1>6 DEF Local, Least
<1>8. new.results \in Nat /\ new.batch \in Nat
  BY <1>1, <1>2 DEF OrElse, LegacyBatch, Greatest, Least
<1>9. QED
  BY <1>4, <1>7, <1>8 DEF Ready, new

(* The places at which a device is being made ready.                        *)
Making == Kinds \cup {"build", "ready"}

(* What passed the self-test on a device without atomics needs none.        *)
Trusted(dev) == dev.atomics \/ tested = "legacy"

ScanInv ==
  /\ machine \in Machines /\ config \in Configs
  /\ todo \in Seq(Entries)
  /\ pc \in {"create"} \cup Making => todo # <<>>
  /\ pc \in Making =>
       /\ {"kernel", "batch", "held"} \subseteq DOMAIN h
       /\ Ready(h) /\ h.dev = DeviceAt(machine, Head(todo))
  /\ pc \in {"create"} \cup Making /\ ~Testing => Trusted(DeviceAt(machine, Head(todo)))
  /\ \A i \in DOMAIN started :
       /\ Ready(started[i].handle)
       /\ started[i].handle.dev.atomics \/ started[i].tested = "legacy"
  /\ pc # "mine" => out = NoScan
  /\ ScanIsExact

LEMMA TailIsList ==
  ASSUME todo \in Seq(Entries), todo # <<>>
  PROVE  Tail(todo) \in Seq(Entries) /\ Head(todo) \in Entries
OBVIOUS

(* Nothing of this changes when a device is passed over.                    *)
LEMMA PassedOverKeepsScans ==
  ASSUME ScanInv, pc \in {"create"} \cup Making, pc' = "next", todo' = Tail(todo),
         UNCHANGED <<machine, config, started, out>>
  PROVE  ScanInv'
<1>1. todo' \in Seq(Entries)
  BY TailIsList DEF ScanInv
<1>2. pc # "mine" /\ pc' \notin {"create", "mine"} \cup Making
  BY DEF Making, Kinds
<1>3. QED
  BY <1>1, <1>2 DEF ScanInv, ScanIsExact

LEMMA AskedIsEntry == ASSUME ScanInv, todo # <<>> PROVE Asked \in Entries
<1> DEFINE c == Given(config, Head(todo))
<1>1. config \in Sections /\ Head(todo) \in Entries
  BY DataAssumption, TailIsList DEF ScanInv
<1>2. c \in Entries
  BY <1>1, GivenIsEntry
<1> HIDE DEF c
<1>3. [c EXCEPT !.batch = MinBatch, !.results = TestResults] \in Entries
  BY <1>2, OpenCLAssumption DEF Entries
<1>4. QED
  BY <1>2, <1>3 DEF Asked, c

LEMMA ScanStep == LeakInv /\ ScanInv /\ [Next]_vars => ScanInv'
<1> SUFFICES ASSUME LeakInv, ScanInv, [Next]_vars PROVE ScanInv'
  OBVIOUS
<1>1. CASE Resolve
  <2>1. machine \in Seq(Seq(Devices)) /\ config' \in Sections /\ config' \in Configs
        /\ todo' \in Resolutions(machine, config')
    BY <1>1, DataAssumption DEF Resolve, ScanInv
  <2>2. todo' \in Seq(Entries)
    BY <2>1, ResolutionsAreLists
  <2>3. QED
    BY <1>1, <2>1, <2>2 DEF Resolve, ScanInv, ScanIsExact, Making, Kinds
<1>2. CASE NextDevice
  BY <1>2 DEF NextDevice, ScanInv, ScanIsExact, Testing, Making, Kinds
<1>3. CASE Create
  <2> DEFINE dev == DeviceAt(machine, Head(todo))
  <2>1. todo # <<>> /\ Asked \in Entries
    BY <1>3, AskedIsEntry DEF Create, ScanInv
  <2>2. machine \in Seq(Seq(Devices)) /\ Installed(machine, Head(todo))
    BY <1>3, DataAssumption DEF Create, ScanInv
  <2>3. dev \in Devices
    BY <2>2 DEF Installed, DeviceAt
  <2>4. dev.group \in Nat
    BY <2>3 DEF Devices
  <2>5. Ready(h') /\ h'.dev = dev /\ {"kernel", "batch", "held"} \subseteq DOMAIN h'
    <3>1. h' = Handle(Asked, dev)
      BY <1>3 DEF Create
    <3>2. Ready(h')
      BY <2>1, <2>4, <3>1, HandlesAreReady
    <3>3. QED
      BY <3>1, <3>2 DEF Handle
  <2>6. pc' = "context" /\ UNCHANGED <<machine, config, todo, tested, started, out>>
        /\ pc = "create"
    BY <1>3 DEF Create
  <2>7. QED
    BY <2>1, <2>5, <2>6 DEF ScanInv, ScanIsExact, Testing, Trusted, Making, Kinds
<1>4. CASE CreateRefused \/ MakeFails \/ BuildFails \/ SelfTestScanFails
  <2>1. GiveUp /\ pc \in {"create"} \cup Making
    BY <1>4 DEF CreateRefused, MakeFails, BuildFails, BuildFailed, SelfTestScanFails,
                Making, Kinds
  <2>2. QED
    BY <2>1, PassedOverKeepsScans DEF GiveUp
<1>5. CASE Make
  <2>1. pc \in Making /\ pc # "mine" /\ pc' \in Making /\ pc' # "mine" /\ pc' # "create"
    BY <1>5 DEF Make, After, Making, Kinds
  <2>2. DOMAIN h' = DOMAIN h /\ h' = [h EXCEPT !.held = @ \cup {pc}]
        /\ UNCHANGED <<machine, config, todo, tested, started, out>>
    BY <1>5 DEF Make
  <2>3. Ready(h') /\ h'.dev = h.dev
    BY <2>1, <2>2 DEF ScanInv, Ready, KernelName
  <2>4. QED
    BY <2>1, <2>2, <2>3 DEF ScanInv, ScanIsExact, Testing, Trusted
<1>6. CASE Build
  BY <1>6 DEF Build, ScanInv, ScanIsExact, Testing, Trusted, Making, Kinds
<1>7. CASE Fallback
  <2>1. pc \in Making /\ pc # "mine" /\ pc' = "program"
        /\ UNCHANGED <<machine, config, todo, tested, started, out>>
    BY <1>7 DEF Fallback, BuildFailed, Making, Kinds
  <2>2. PICK kernel \in {"compact", "legacy"} :
          h' = [h EXCEPT !.kernel = kernel, !.batch = LegacyBatch(kernel, @),
                         !.held = @ \ {"program", "kernel"}]
    BY <1>7 DEF Fallback
  <2>3. Ready(h) /\ {"kernel", "batch", "held"} \subseteq DOMAIN h
    BY <2>1 DEF ScanInv
  <2>4. DOMAIN h' = DOMAIN h /\ h'.dev = h.dev /\ h'.npi = h.npi /\ h'.local = h.local
        /\ h'.results = h.results /\ h'.kernel = kernel
        /\ h'.batch = LegacyBatch(kernel, h.batch)
    BY <2>2, <2>3
  <2>5. h'.batch \in Nat
    BY <2>3, <2>4, OpenCLAssumption DEF LegacyBatch, Least, Ready
  <2>6. NpiOf(KernelName(h'), h.npi) = h.npi
    BY <2>4 DEF NpiOf, KernelName, KernelForNpi
  <2>7. Ready(h')
    BY <2>3, <2>4, <2>5, <2>6 DEF Ready
  <2>8. QED
    BY <2>1, <2>3, <2>4, <2>7 DEF ScanInv, ScanIsExact, Testing, Trusted, Making, Kinds
<1>8. CASE SelfTest
  <2> DEFINE dev == DeviceAt(machine, Head(todo))
  <2>1. pc = "ready" /\ h.dev = dev /\ todo # <<>>
    BY <1>8 DEF SelfTest, ScanInv, Making
  <2>2. UNCHANGED <<machine, config, started, out>>
    BY <1>8 DEF SelfTest
  <2>3. PICK handed \in HandedOver(h, TestNonces, 0 .. TestNonces - 1) :
          IF Passes(handed)
          THEN tested' = h.kernel /\ pc' = "create" /\ UNCHANGED todo
          ELSE pc' = "next" /\ todo' = Tail(todo) /\ UNCHANGED tested
    BY <1>8 DEF SelfTest
  <2>4. CASE Passes(handed)
    <3>1. dev.atomics \/ h.kernel = "legacy"
      BY <2>1, <2>3, <2>4, RacyKernelsFail
    <3>2. Trusted(dev)'
      BY <2>2, <2>3, <2>4, <3>1 DEF Trusted
    <3>3. QED
      BY <2>1, <2>2, <2>3, <2>4, <3>2 DEF ScanInv, ScanIsExact, Making, Kinds
  <2>5. CASE ~Passes(handed)
    BY <2>1, <2>2, <2>3, <2>5, PassedOverKeepsScans DEF Making
  <2>6. QED
    BY <2>4, <2>5
<1>9. CASE Keep
  <2> DEFINE new == [handle |-> h, tested |-> tested]
  <2>1. /\ pc = "ready" /\ ~Testing /\ started' = Append(started, new)
        /\ todo' = Tail(todo) /\ pc' = "next" /\ UNCHANGED <<machine, config, out>>
    BY <1>9 DEF Keep
  <2>2. Ready(h) /\ (h.dev.atomics \/ tested = "legacy") /\ todo # <<>>
    BY <2>1 DEF ScanInv, Making, Trusted
  <2>3. todo' \in Seq(Entries)
    BY <2>1, <2>2, TailIsList DEF ScanInv
  <2>4. started \in Seq(Handles)
    BY <2>1 DEF LeakInv
  <2>5. \A i \in DOMAIN started' :
          \/ i \in DOMAIN started /\ started'[i] = started[i]
          \/ started'[i] = new
    <3>1. Len(started) \in Nat /\ DOMAIN started = 1 .. Len(started)
      BY <2>4
    <3>2. /\ DOMAIN Append(started, new) = 1 .. Len(started) + 1
          /\ \A i \in 1 .. Len(started) : Append(started, new)[i] = started[i]
          /\ Append(started, new)[Len(started) + 1] = new
      BY <2>4
    <3>3. QED
      BY <2>1, <3>1, <3>2
  <2>6. \A i \in DOMAIN started' :
          /\ Ready(started'[i].handle)
          /\ started'[i].handle.dev.atomics \/ started'[i].tested = "legacy"
    BY <2>2, <2>5 DEF ScanInv
  <2>7. QED
    BY <2>1, <2>3, <2>6 DEF ScanInv, ScanIsExact, Making, Kinds
<1>10. CASE Launch
  <2>1. PICK running \in SUBSET DOMAIN started : started' = [i \in running |-> started[i]]
    BY <1>10 DEF Launch
  <2>2. pc = "launch" /\ pc' = "mine" /\ UNCHANGED <<machine, config, todo, out>>
    BY <1>10 DEF Launch
  <2>3. \A i \in DOMAIN started' : i \in DOMAIN started /\ started'[i] = started[i]
    BY <2>1
  <2>4. QED
    BY <2>2, <2>3 DEF ScanInv, ScanIsExact, Making, Kinds
<1>11. CASE \E i \in DOMAIN started : Scan(i)
  <2>1. PICK i \in DOMAIN started : Scan(i)
    BY <1>11
  <2> DEFINE by == started[i]
  <2>2. Ready(by.handle) /\ (by.handle.dev.atomics \/ by.tested = "legacy")
    BY DEF ScanInv
  <2>3. PICK count \in 1 .. by.handle.batch :
          \E winners \in SUBSET (0 .. count - 1) :
            \E handed \in HandedOver(by.handle, count, winners) :
              out' = [winners |-> winners, handed |-> handed, device |-> i]
    BY <2>1 DEF Scan
  <2>4. PICK winners \in SUBSET (0 .. count - 1) :
          \E handed \in HandedOver(by.handle, count, winners) :
            out' = [winners |-> winners, handed |-> handed, device |-> i]
    BY <2>3
  <2>5. PICK handed \in HandedOver(by.handle, count, winners) :
          out' = [winners |-> winners, handed |-> handed, device |-> i]
    BY <2>4
  <2>6. count \in Nat
    BY <2>2 DEF Ready
  <2> DEFINE nonces == {hit[2] : hit \in handed}
  <2>7. UNCHANGED <<machine, config, pc, todo, tested, h, started>> /\ pc = "mine"
    BY <2>1 DEF Scan
  <2>8. ASSUME by.handle.dev.atomics \/ by.handle.kernel = by.tested
        PROVE  /\ nonces \subseteq winners
               /\ Cardinality(nonces) = Cardinality(handed)
               /\ Cardinality(nonces) = Least(Cardinality(winners), by.handle.results)
    <3>1. by.handle.dev.atomics \/ by.handle.kernel = "legacy"
      BY <2>2, <2>8
    <3> HIDE DEF by
    <3>2. QED
      BY <2>2, <2>6, <3>1, HandedOverIsExact
  <2>9. ScanIsExact'
    <3>1. out'.winners = winners /\ out'.handed = handed /\ started'[out'.device] = by
      BY <2>5, <2>7
    <3> HIDE DEF by
    <3>2. QED
      BY <2>8, <3>1 DEF ScanIsExact
  <2>10. QED
    BY <2>7, <2>9 DEF ScanInv, Testing, Trusted, Making, Kinds
<1>12. CASE ScanFails
  BY <1>12 DEF ScanFails, ScanInv, ScanIsExact, Testing, Trusted, Making, Kinds
<1>13. CASE UNCHANGED vars
  BY <1>13 DEF vars, ScanInv, ScanIsExact, Testing, Trusted
<1>14. CASE Stop
  BY <1>14 DEF Stop, ScanInv, ScanIsExact, Making, Kinds
<1>15. QED
  BY <1>1, <1>2, <1>3, <1>4, <1>5, <1>6, <1>7, <1>8, <1>9, <1>10, <1>11, <1>12, <1>13,
     <1>14 DEF Next

(* A scan that succeeds hands over every winner of its range, each once, up *)
(* to max_results of them, whatever the section asks for, the driver says   *)
(* and the runtime refuses.                                                 *)
THEOREM ScansAreExact == Spec => []ScanIsExact
<1>1. Init => ScanInv
  <2> SUFFICES ASSUME Init PROVE ScanInv
    OBVIOUS
  <2>1. todo \in Seq(Entries) /\ DOMAIN started = {}
    BY DEF Init
  <2>2. QED
    BY <2>1 DEF Init, ScanInv, ScanIsExact, Making, Kinds
<1>2. QED
  BY <1>1, LeakInit, LeakStep, ScanStep, PTL DEF Spec, ScanInv
=============================================================================
