----------------------------- MODULE MinerProofs -----------------------------
(* Theorems about Miner, for any number of workers, any nonce space, batch *)
(* and queue sizes, and any set of winning nonces.                         *)
EXTENDS Miner, FiniteSetTheorems, TLAPS

(* pthread_cond_broadcast leaves every worker at a place of worker_main.    *)
LEMMA BroadcastType ==
  ASSUME pc \in [Workers -> PcSet]
  PROVE  Broadcast(pc) \in [Workers -> PcSet]
BY DEF Broadcast, PcSet

(* What copy_job_and_nonce_range_sized hands out is a non-empty range that  *)
(* ends within the nonce space.                                             *)
LEMMA RangeSizeBounds ==
  ASSUME TypeOK, ~NoSpaceLeft, NEW w \in Workers
  PROVE  /\ RangeSize(w) \in Nat \ {0}
         /\ nextNonce \in Nat
         /\ nextNonce + RangeSize(w) \in 0 .. NonceLimit
<1>1. BatchSize(w) \in Nat \ {0}
  BY MinerAssumption DEF BatchSize
<1>2. nextNonce \in 0 .. NonceLimit /\ nextNonce < NonceLimit
  BY MinerAssumption DEF TypeOK, NoSpaceLeft
<1>3. QED
  BY <1>1, <1>2, MinerAssumption DEF RangeSize

(* Whatever meets a job's target is a nonce.                                *)
LEMMA HitsAreNonces ==
  ASSUME NEW c PROVE Hits(c) \subseteq Nonces
BY MinerAssumption DEF Hits

(* A well-typed claim stands for a set of nonces of the nonce space.        *)
LEMMA RangeIsNonces ==
  ASSUME NEW c \in ClaimSet, c.first + c.count <= NonceLimit
  PROVE  NoncesOf(c) \subseteq Nonces /\ RangeWork(c) \subseteq (Nat \X Nonces)
<1>1. NoncesOf(c) \subseteq Nonces
  BY MinerAssumption DEF NoncesOf, Nonces, ClaimSet
<1>2. QED
  BY <1>1 DEF RangeWork, ClaimSet

(* The engine's variables keep their types, and a claimed range never       *)
(* reaches past UINT32_MAX.                                                 *)
THEOREM TypeCorrect == Spec => []TypeOK
<1>1. Init => TypeOK
  <2> SUFFICES ASSUME Init PROVE TypeOK
    OBVIOUS
  <2>1. claim \in [Workers -> ClaimSet]
    BY DEF Init, NoClaim, ClaimSet
  <2>2. \A w \in Workers : claim[w].first + claim[w].count <= NonceLimit
    BY MinerAssumption DEF Init, NoClaim
  <2>3. pc \in [Workers -> PcSet] /\ found \in [Workers -> SUBSET Nonces]
        /\ threadHashes \in [Workers -> Nat]
    BY DEF Init, PcSet
  <2>4. nextNonce \in 0 .. NonceLimit /\ shares \in Seq(ShareSet)
    BY MinerAssumption DEF Init
  <2>5. QED
    BY <2>1, <2>2, <2>3, <2>4 DEF Init, TypeOK
<1>2. TypeOK /\ [Next]_vars => TypeOK'
  <2> SUFFICES ASSUME TypeOK, [Next]_vars PROVE TypeOK'
    OBVIOUS
  <2> USE DEF sessionVars, flagVars, jobVars, countVars, scanVars
  <2>1. ASSUME NEW w \in Workers, Check(w) PROVE TypeOK'
    BY <2>1 DEF TypeOK, Check, PcSet
  <2>2. ASSUME NEW w \in Workers, Claim(w) PROVE TypeOK'
    <3>1. claim'[w] \in ClaimSet
      BY <2>2, RangeSizeBounds DEF Claim, TypeOK, ClaimSet
    <3>2. nextNonce' \in 0 .. NonceLimit
      BY <2>2, RangeSizeBounds DEF Claim, CursorAfter
    <3>3. claim' \in [Workers -> ClaimSet]
      BY <2>2, <3>1 DEF Claim, TypeOK
    <3>4. \A v \in Workers : claim'[v].first + claim'[v].count <= NonceLimit
      BY <2>2, RangeSizeBounds DEF Claim, TypeOK
    <3>5. pc' \in [Workers -> PcSet]
      BY <2>2 DEF Claim, TypeOK, PcSet
    <3>6. QED
      BY <2>2, <3>2, <3>3, <3>4, <3>5 DEF Claim, TypeOK
  <2>3. ASSUME NEW w \in Workers, Exhaust(w) PROVE TypeOK'
    BY <2>3 DEF TypeOK, Exhaust, PcSet
  <2>4. ASSUME NEW w \in Workers, ClaimRefused(w) PROVE TypeOK'
    BY <2>4 DEF TypeOK, ClaimRefused, PcSet
  <2>5. ASSUME NEW w \in Workers, WaitForWork(w) PROVE TypeOK'
    BY <2>5 DEF TypeOK, WaitForWork, PcSet
  <2>6. ASSUME NEW w \in Workers, SpuriousWake(w) PROVE TypeOK'
    BY <2>6 DEF TypeOK, SpuriousWake, PcSet
  <2>7. ASSUME NEW w \in Workers, Scan(w) PROVE TypeOK'
    <3>1. PICK hits \in SUBSET Hits(claim[w]) :
            found' = [found EXCEPT ![w] = hits]
      BY <2>7 DEF Scan
    <3>2. found' \in [Workers -> SUBSET Nonces]
      BY <3>1, HitsAreNonces DEF TypeOK
    <3>3. pc' \in [Workers -> PcSet]
      BY <2>7 DEF Scan, TypeOK, PcSet
    <3>4. QED
      BY <2>7, <3>2, <3>3 DEF Scan, TypeOK
  <2>8. ASSUME NEW w \in Workers, ScanFails(w) PROVE TypeOK'
    <3>1. skipped' \subseteq Nonces
      BY <2>8, RangeIsNonces DEF ScanFails, TypeOK
    <3>2. QED
      BY <2>8, <3>1 DEF ScanFails, TypeOK, PcSet
  <2>9. ASSUME NEW w \in Workers, Report(w) PROVE TypeOK'
    <3>1. PICK n \in found[w] :
            /\ found' = [found EXCEPT ![w] = @ \ {n}]
            /\ shares' = IF StillCurrent(claim[w])
                         THEN QueueShare(Share(claim[w].seq, n)) ELSE shares
      BY <2>9 DEF Report
    <3>2. Share(claim[w].seq, n) \in ShareSet
      BY <3>1 DEF Share, ShareSet, TypeOK, ClaimSet
    <3>3. shares' \in Seq(ShareSet)
      BY <3>1, <3>2 DEF QueueShare, TypeOK
    <3>4. found' \in [Workers -> SUBSET Nonces]
      BY <3>1 DEF TypeOK
    <3>5. QED
      BY <2>9, <3>3, <3>4 DEF Report, TypeOK
  <2>10. ASSUME NEW w \in Workers, Credit(w) PROVE TypeOK'
    <3>1. claim[w] \in ClaimSet /\ claim[w].count \in Nat
      BY DEF TypeOK, ClaimSet
    <3>2. skipped' \subseteq Nonces /\ credited' \subseteq (Nat \X Nonces)
      BY <2>10, <3>1, RangeIsNonces DEF Credit, TypeOK
    <3>3. hashes' \in Nat /\ threadHashes' \in [Workers -> Nat]
      <4>1. CASE StillCurrent(claim[w])
        BY <2>10, <3>1, <4>1 DEF Credit, TypeOK
      <4>2. CASE ~StillCurrent(claim[w])
        BY <2>10, <4>2 DEF Credit, TypeOK
      <4>3. QED
        BY <4>1, <4>2
    <3>4. pc' \in [Workers -> PcSet]
      BY <2>10 DEF Credit, TypeOK, PcSet
    <3>5. QED
      BY <2>10, <3>2, <3>3, <3>4 DEF Credit, TypeOK
  <2>11. CASE SetJob
    <3>1. job' \in [seq : Nat, valid : BOOLEAN] /\ nextNonce' \in 0 .. NonceLimit
      BY <2>11, MinerAssumption DEF SetJob, TypeOK
    <3>2. shares' \in Seq(ShareSet)
      BY <2>11 DEF SetJob, QueueAfterSetJob
    <3>3. pc' \in [Workers -> PcSet]
      BY <2>11, BroadcastType DEF SetJob, TypeOK
    <3>4. interrupted' \subseteq Workers
      BY <2>11 DEF SetJob, TypeOK
    <3>5. QED
      BY <2>11, <3>1, <3>2, <3>3, <3>4 DEF SetJob, TypeOK
  <2>12. ASSUME NEW p \in BOOLEAN, SetPaused(p) PROVE TypeOK'
    BY <2>12, BroadcastType DEF SetPaused, EpochAfter, TypeOK
  <2>13. CASE TakeNonceExhausted
    BY <2>13 DEF TakeNonceExhausted, TypeOK
  <2>14. CASE PopShare
    <3>1. Head(shares) \in ShareSet /\ Tail(shares) \in Seq(ShareSet)
      BY <2>14 DEF PopShare, TypeOK
    <3>2. QED
      BY <2>14, <3>1 DEF PopShare, TypeOK
  <2>15. CASE StartDevices
    BY <2>15 DEF StartDevices, TypeOK
  <2>16. ASSUME NEW w \in Cpu, StartCpu(w) PROVE TypeOK'
    BY <2>16 DEF StartCpu, TypeOK, PcSet, Workers
  <2>17. ASSUME NEW w \in Cpu, StartCpuFails(w) PROVE TypeOK'
    BY <2>17, BroadcastType DEF StartCpuFails, RequestStop, TypeOK
  <2>18. CASE CpuStarted
    BY <2>18 DEF CpuStarted, TypeOK
  <2>19. ASSUME NEW w \in Gpu, StartGpu(w) PROVE TypeOK'
    BY <2>19 DEF StartGpu, TypeOK, PcSet, Workers
  <2>20. CASE Started
    BY <2>20, BroadcastType DEF Started, RequestStop, TypeOK
  <2>21. CASE Stop
    BY <2>21, BroadcastType DEF Stop, RequestStop, TypeOK
  <2>22. ASSUME NEW w \in Workers, Join(w) PROVE TypeOK'
    BY <2>22 DEF Join, TypeOK, PcSet
  <2>23. CASE Stopped
    BY <2>23 DEF Stopped, TypeOK
  <2>24. CASE UNCHANGED vars
    BY <2>24 DEF vars, TypeOK
  <2>25. QED
    BY <2>1, <2>2, <2>3, <2>4, <2>5, <2>6, <2>7, <2>8, <2>9, <2>10, <2>11,
       <2>12, <2>13, <2>14, <2>15, <2>16, <2>17, <2>18, <2>19, <2>20, <2>21,
       <2>22, <2>23, <2>24
    DEF Next, WorkerStep, SessionStep, StartStep, JoinStep, Terminated
<1>3. QED
  BY <1>1, <1>2, PTL DEF Spec
-----------------------------------------------------------------------------
(* Most steps leave work and shares alone; the invariants below are about   *)
(* the few that do not.                                                     *)

Quiet ==
  /\ UNCHANGED <<claim, found, shares, delivered, nextNonce, epoch, paused,
                 interrupted, hashes, credited, skipped>>
  /\ job'.seq = job.seq
  /\ \A w \in Workers : InFlight(w) \/ InFlight(w)' => pc'[w] = pc[w]

(* A broadcast wakes sleepers and changes nothing about workers that hold a *)
(* range.                                                                   *)
LEMMA BroadcastFrame ==
  ASSUME TypeOK, pc' = Broadcast(pc)
  PROVE  \A w \in Workers : /\ InFlight(w) \/ InFlight(w)' => pc'[w] = pc[w]
                            /\ InFlight(w)' <=> InFlight(w)
                            /\ pc'[w] # "sleep"
                            /\ pc'[w] = "none" <=> pc[w] = "none"
                            /\ pc'[w] = "joined" <=> pc[w] = "joined"
BY DEF Broadcast, InFlight, TypeOK

(* Every step is one of the nine that touch ranges, shares or jobs, or      *)
(* leaves all of these alone (Quiet).                                       *)
LEMMA StepCases ==
  ASSUME TypeOK, [Next]_vars
  PROVE  \/ Quiet \/ SetJob \/ PopShare
         \/ \E p \in BOOLEAN : SetPaused(p)
         \/ \E w \in Workers : \/ Claim(w) \/ Scan(w) \/ ScanFails(w)
                              \/ Report(w) \/ Credit(w)
<1> USE DEF sessionVars, flagVars, jobVars, countVars, scanVars
<1>1. ASSUME NEW w \in Workers,
             Check(w) \/ Exhaust(w) \/ ClaimRefused(w) \/ WaitForWork(w)
             \/ SpuriousWake(w) \/ Join(w)
      PROVE  Quiet
  <2>1. job'.seq = job.seq
    BY <1>1 DEF Check, Exhaust, ClaimRefused, WaitForWork, SpuriousWake, Join,
                TypeOK
  <2>2. \A v \in Workers : InFlight(v) \/ InFlight(v)' => pc'[v] = pc[v]
    BY <1>1 DEF Check, Exhaust, ClaimRefused, WaitForWork, SpuriousWake, Join,
                MayJoin, TypeOK, InFlight
  <2>3. QED
    BY <1>1, <2>1, <2>2
    DEF Check, Exhaust, ClaimRefused, WaitForWork, SpuriousWake, Join, Quiet
<1>2. ASSUME NEW w \in Workers, StartCpu(w) \/ StartCpuFails(w) \/ StartGpu(w)
      PROVE  Quiet
  <2>1. CASE StartCpu(w)
    BY <2>1 DEF StartCpu, Quiet, InFlight, TypeOK
  <2>2. CASE StartCpuFails(w)
    BY <2>2, BroadcastFrame DEF StartCpuFails, RequestStop, Quiet
  <2>3. CASE StartGpu(w)
    BY <2>3 DEF StartGpu, Quiet, InFlight, TypeOK
  <2>4. QED
    BY <1>2, <2>1, <2>2, <2>3
<1>3. CASE TakeNonceExhausted \/ StartDevices \/ CpuStarted \/ Stopped
  BY <1>3 DEF TakeNonceExhausted, StartDevices, CpuStarted, Stopped, Quiet
<1>4. CASE Started \/ Stop
  <2>1. CASE pc' = pc
    BY <1>4, <2>1 DEF Started, Stop, Quiet
  <2>2. CASE pc' = Broadcast(pc)
    BY <1>4, <2>2, BroadcastFrame DEF Started, Stop, Quiet
  <2>3. QED
    BY <1>4, <2>1, <2>2 DEF Started, Stop, RequestStop
<1>5. CASE UNCHANGED vars
  BY <1>5 DEF vars, Quiet
<1>6. QED
  BY <1>1, <1>2, <1>3, <1>4, <1>5
  DEF Next, WorkerStep, SessionStep, StartStep, JoinStep, Terminated, Workers

-----------------------------------------------------------------------------
(* The ranges.                                                              *)

(* Every step keeps RangeInv: a claim takes the nonces from next_nonce on,  *)
(* so it is disjoint from the claims of the same job; a new job makes all   *)
(* old claims claims of an older job.                                       *)
LEMMA RangeInvStep ==
  ASSUME TypeOK, TypeOK', RangeInv, [Next]_vars
  PROVE  RangeInv'
<1> USE DEF sessionVars, flagVars, jobVars, countVars, scanVars
<1>1. CASE Quiet
  BY <1>1 DEF Quiet, RangeInv, InFlight
<1>2. CASE SetJob
  <2>1. \A w \in Workers : (InFlight(w)' <=> InFlight(w)) /\
                           (InFlight(w) => pc'[w] = pc[w])
    BY <1>2, BroadcastFrame DEF SetJob
  <2>2. job'.seq = job.seq + 1 /\ job.seq \in Nat
    BY <1>2 DEF SetJob, TypeOK
  <2>3. \A w \in Workers : claim[w].seq \in Nat
    BY DEF TypeOK, ClaimSet
  <2>4. QED
    BY <1>2, <2>1, <2>2, <2>3 DEF SetJob, RangeInv, InFlight
<1>3. CASE PopShare
  BY <1>3 DEF PopShare, RangeInv, InFlight
<1>4. ASSUME NEW p \in BOOLEAN, SetPaused(p) PROVE RangeInv'
  <2>1. \A w \in Workers : (InFlight(w)' <=> InFlight(w)) /\
                           (InFlight(w) => pc'[w] = pc[w])
    BY <1>4, BroadcastFrame DEF SetPaused
  <2>2. epoch \in Nat /\ epoch' \in {epoch, epoch + 1}
    BY <1>4 DEF SetPaused, EpochAfter, TypeOK
  <2>3. \A w \in Workers : claim[w].epoch \in Nat
    BY DEF TypeOK, ClaimSet
  <2>4. QED
    BY <1>4, <2>1, <2>2, <2>3 DEF SetPaused, RangeInv, InFlight
<1>5. ASSUME NEW w \in Workers, Claim(w) PROVE RangeInv'
  <2>1. /\ claim'[w] = [seq |-> job.seq, epoch |-> epoch, first |-> nextNonce,
                        count |-> RangeSize(w)]
        /\ pc'[w] = "scan"
        /\ \A v \in Workers \ {w} : claim'[v] = claim[v] /\ pc'[v] = pc[v]
    BY <1>5 DEF Claim, TypeOK
  <2>2. RangeSize(w) \in Nat \ {0} /\ nextNonce \in Nat
        /\ nextNonce' = nextNonce + RangeSize(w)
    BY <1>5, RangeSizeBounds DEF Claim, CursorAfter
  <2>3. job.seq \in Nat /\ epoch \in Nat
    BY DEF TypeOK
  <2>4. \A v \in Workers : claim[v].first \in Nat /\ claim[v].count \in Nat
                           /\ claim[v].seq \in Nat
    BY DEF TypeOK, ClaimSet
  <2>5. \A v \in Workers \ {w} : InFlight(v) /\ claim[v].seq = job.seq =>
          NoncesOf(claim[v]) \intersect NoncesOf(claim'[w]) = {}
    BY <2>1, <2>2, <2>4 DEF RangeInv, NoncesOf
  <2>6. \A v \in Workers : InFlight(v)' =>
          /\ claim'[v].seq <= job'.seq
          /\ claim'[v].epoch <= epoch'
          /\ claim'[v].seq = job'.seq =>
               claim'[v].first + claim'[v].count <= nextNonce'
          /\ pc'[v] = "report" => found'[v] \subseteq Hits(claim'[v])
    BY <1>5, <2>1, <2>2, <2>3, <2>4 DEF Claim, RangeInv, InFlight
  <2>7. \A v, u \in Workers :
          u # v /\ InFlight(u)' /\ InFlight(v)' /\ claim'[v].seq = claim'[u].seq =>
            NoncesOf(claim'[v]) \intersect NoncesOf(claim'[u]) = {}
    BY <2>1, <2>5 DEF RangeInv, InFlight
  <2>8. QED
    BY <2>6, <2>7 DEF RangeInv, InFlight, NoncesOf, Hits
<1>6. ASSUME NEW w \in Workers, Scan(w) PROVE RangeInv'
  <2>1. PICK hits \in SUBSET Hits(claim[w]) :
          found' = [found EXCEPT ![w] = hits]
    BY <1>6 DEF Scan
  <2>2. \A v \in Workers : InFlight(v)' <=> InFlight(v)
    BY <1>6 DEF Scan, InFlight, TypeOK
  <2>3. \A v \in Workers : pc'[v] = "report" => found'[v] \subseteq Hits(claim[v])
    BY <1>6, <2>1 DEF Scan, RangeInv, InFlight, TypeOK
  <2>4. QED
    BY <1>6, <2>2, <2>3 DEF Scan, RangeInv
<1>7. ASSUME NEW w \in Workers, ScanFails(w) \/ Credit(w) PROVE RangeInv'
  <2>1. \A v \in Workers : InFlight(v)' => InFlight(v) /\ pc'[v] = pc[v]
    BY <1>7 DEF ScanFails, Credit, InFlight, TypeOK
  <2>2. UNCHANGED <<claim, found, job, nextNonce, epoch>>
    BY <1>7 DEF ScanFails, Credit
  <2>3. QED
    BY <2>1, <2>2 DEF RangeInv, NoncesOf, Hits
<1>8. ASSUME NEW w \in Workers, Report(w) PROVE RangeInv'
  <2>1. \A v \in Workers : found'[v] \subseteq found[v]
    BY <1>8 DEF Report, TypeOK
  <2>2. UNCHANGED <<pc, claim, job, nextNonce, epoch>>
    BY <1>8 DEF Report
  <2>3. QED
    BY <2>1, <2>2 DEF RangeInv, InFlight, NoncesOf, Hits
<1>9. QED
  BY <1>1, <1>2, <1>3, <1>4, <1>5, <1>6, <1>7, <1>8, StepCases

(* The ranges in flight lie below next_nonce and do not overlap.            *)
THEOREM RangesInvariant == Spec => []RangeInv
<1>1. Init => RangeInv
  BY DEF Init, RangeInv, InFlight
<1>2. TypeOK /\ TypeOK' /\ RangeInv /\ [Next]_vars => RangeInv'
  BY RangeInvStep
<1>3. QED
  BY <1>1, <1>2, TypeCorrect, PTL DEF Spec

(* No nonce of a job is ever in the hands of two workers.                   *)
THEOREM RangesAreDisjoint == Spec => []DisjointRanges
<1>1. RangeInv => DisjointRanges
  BY DEF RangeInv, DisjointRanges
<1>2. QED
  BY <1>1, RangesInvariant, PTL
-----------------------------------------------------------------------------
(* The share queue.                                                         *)

(* What a worker has still to report or to scan is part of its range.       *)
LEMMA PendingIsClaimed ==
  ASSUME TypeOK, RangeInv, NEW w \in Workers
  PROVE  Pending(w) \subseteq NoncesOf(claim[w])
BY DEF Pending, RangeInv, InFlight, Hits

(* A step that leaves the queue, the taken shares and the job number alone  *)
(* and adds no pending nonce keeps ShareInv.                                *)
LEMMA ShareInvFrame ==
  ASSUME ShareInv, UNCHANGED <<shares, delivered, nextNonce, claim>>,
         job'.seq = job.seq,
         \A w \in Workers : Pending(w)' \subseteq Pending(w)
  PROVE  ShareInv'
BY DEF ShareInv, Known, QueueIsCurrent, NoDuplicateShare

(* What Append does to length, members and positions of a sequence.         *)
LEMMA AppendElements ==
  ASSUME NEW S, NEW q \in Seq(S), NEW e \in S
  PROVE  /\ Append(q, e) \in Seq(S)
         /\ Len(Append(q, e)) = Len(q) + 1
         /\ Len(q) \in Nat
         /\ \A i \in 1 .. Len(q) : Append(q, e)[i] = q[i]
         /\ Append(q, e)[Len(q) + 1] = e
OBVIOUS

(* What Tail does to length, members and positions of a sequence.           *)
LEMMA TailElements ==
  ASSUME NEW S, NEW q \in Seq(S), q # <<>>
  PROVE  /\ Len(q) \in Nat \ {0}
         /\ Tail(q) \in Seq(S)
         /\ Len(Tail(q)) = Len(q) - 1
         /\ \A i \in 1 .. Len(q) - 1 : Tail(q)[i] = q[i + 1]
         /\ Head(q) = q[1]
OBVIOUS

(* Reporting a match: what queue_scan_match appends is new.                 *)
LEMMA ReportKeepsShareInv ==
  ASSUME TypeOK, RangeInv, ShareInv, NEW w \in Workers, Report(w)
  PROVE  ShareInv'
<1> USE DEF sessionVars, flagVars, jobVars, countVars, scanVars
<1>1. PICK n \in found[w] :
        /\ found' = [found EXCEPT ![w] = @ \ {n}]
        /\ shares' = IF StillCurrent(claim[w])
                     THEN QueueShare(Share(claim[w].seq, n)) ELSE shares
  BY DEF Report
<1>2. /\ pc[w] = "report"
      /\ UNCHANGED <<pc, claim, job, nextNonce, delivered>>
  BY DEF Report
<1>3. \A v \in Workers : Pending(v)' \subseteq Pending(v)
  BY <1>1, <1>2 DEF Pending, TypeOK, NoncesOf
<1>4. CASE shares' = shares
  BY <1>2, <1>3, <1>4, ShareInvFrame
<1>5. CASE shares' # shares
  <2> DEFINE e == Share(claim[w].seq, n)
  <2>1. /\ StillCurrent(claim[w]) /\ Len(shares) < QueueSize
        /\ shares' = Append(shares, e)
    BY <1>1, <1>5, MinerAssumption DEF QueueShare, TypeOK
  <2>2. e = [seq |-> job.seq, nonce |-> n] /\ claim[w].seq = job.seq
    BY <2>1 DEF StillCurrent, Share
  <2>3. e \in ShareSet
    BY <1>1, <2>2 DEF ShareSet, TypeOK
  <2>4. /\ Len(shares') = Len(shares) + 1 /\ Len(shares) \in Nat
        /\ \A i \in 1 .. Len(shares) : shares'[i] = shares[i]
        /\ shares'[Len(shares) + 1] = e
    BY <2>1, <2>3, AppendElements DEF TypeOK
  <2>5. n \in Pending(w) /\ n \in NoncesOf(claim[w])
    BY <1>1, <1>2, PendingIsClaimed DEF Pending
  <2>6. e \notin Known
    BY <2>2, <2>5 DEF ShareInv
  <2>7. n < nextNonce
    <3>1. claim[w].first + claim[w].count <= nextNonce
      BY <1>2, <2>2 DEF RangeInv, InFlight
    <3>2. claim[w].first \in Nat /\ claim[w].count \in Nat /\ nextNonce \in Nat
      BY MinerAssumption DEF TypeOK, ClaimSet
    <3>3. QED
      BY <2>5, <3>1, <3>2 DEF NoncesOf
  <2>8. \A v \in Workers : claim[v].seq = e.seq => n \notin Pending(v)'
    <3>1. n \notin Pending(w)'
      BY <1>1, <1>2 DEF Pending, TypeOK
    <3>2. ASSUME NEW v \in Workers \ {w}, claim[v].seq = e.seq
          PROVE  n \notin Pending(v)'
      <4>1. CASE InFlight(v)
        <5>1. n \notin NoncesOf(claim[v])
          BY <1>2, <2>2, <2>5, <3>2, <4>1 DEF RangeInv, InFlight
        <5>2. QED
          BY <1>3, <3>2, <5>1, PendingIsClaimed
      <4>2. CASE ~InFlight(v)
        BY <1>3, <3>2, <4>2 DEF Pending, InFlight
      <4>3. QED
        BY <4>1, <4>2
    <3>3. QED
      BY <3>1, <3>2
  <2>9. Known' = Known \union {e}
    <3>1. \A i \in 1 .. Len(shares') : i \in 1 .. Len(shares) \/ i = Len(shares) + 1
      BY <2>4
    <3>2. {shares'[i] : i \in 1 .. Len(shares')} =
            {shares[i] : i \in 1 .. Len(shares)} \union {e}
      BY <2>4, <3>1
    <3>3. QED
      BY <1>2, <3>2 DEF Known
  <2>10. QueueIsCurrent'
    BY <1>2, <2>1, <2>2, <2>4, MinerAssumption DEF ShareInv, QueueIsCurrent
  <2>11. NoDuplicateShare'
    BY <1>2, <2>4, <2>6 DEF ShareInv, NoDuplicateShare, Known
  <2>12. \A s \in Known' :
           /\ s.seq <= job'.seq
           /\ s.seq = job'.seq => s.nonce < nextNonce'
           /\ \A v \in Workers : s.seq = claim'[v].seq => s.nonce \notin Pending(v)'
    <3>1. ASSUME NEW s \in Known
          PROVE  /\ s.seq <= job'.seq
                 /\ s.seq = job'.seq => s.nonce < nextNonce'
                 /\ \A v \in Workers :
                      s.seq = claim'[v].seq => s.nonce \notin Pending(v)'
      BY <1>2, <1>3 DEF ShareInv
    <3>2. /\ e.seq <= job'.seq
          /\ e.nonce < nextNonce'
          /\ \A v \in Workers : e.seq = claim'[v].seq => e.nonce \notin Pending(v)'
      BY <1>2, <2>2, <2>7, <2>8 DEF TypeOK
    <3>3. QED
      BY <2>9, <3>1, <3>2
  <2>13. QED
    BY <2>10, <2>11, <2>12 DEF ShareInv
<1>6. QED
  BY <1>4, <1>5

(* A claim makes nonces pending that were never handed out for this job, so *)
(* none of them is queued or taken.                                         *)
LEMMA ClaimKeepsShareInv ==
  ASSUME TypeOK, RangeInv, ShareInv, NEW w \in Workers, Claim(w)
  PROVE  ShareInv'
<1> USE DEF sessionVars, flagVars, jobVars, countVars, scanVars
<1>1. /\ claim'[w] = [seq |-> job.seq, epoch |-> epoch, first |-> nextNonce,
                      count |-> RangeSize(w)]
      /\ pc'[w] = "scan"
      /\ \A v \in Workers \ {w} : claim'[v] = claim[v] /\ pc'[v] = pc[v]
      /\ UNCHANGED <<job, shares, delivered, found>>
  BY DEF Claim, TypeOK
<1>2. RangeSize(w) \in Nat \ {0} /\ nextNonce \in Nat
      /\ nextNonce' = nextNonce + RangeSize(w)
  BY RangeSizeBounds DEF Claim, CursorAfter
<1>3. Known' = Known
  BY <1>1 DEF Known
<1>4. \A s \in Known : s.seq \in Nat /\ s.nonce \in Nat
  <2>1. Known \subseteq ShareSet
    BY DEF Known, TypeOK
  <2>2. QED
    BY <2>1, MinerAssumption DEF ShareSet, Nonces
<1>5. ASSUME NEW s \in Known, NEW v \in Workers, s.seq = claim'[v].seq
      PROVE  s.nonce \notin Pending(v)'
  <2>1. CASE v = w
    <3>1. s.nonce < nextNonce
      BY <1>1, <1>5, <2>1 DEF ShareInv
    <3>2. Pending(w)' = nextNonce .. nextNonce + RangeSize(w) - 1
      BY <1>1 DEF Pending, NoncesOf
    <3>3. QED
      BY <1>2, <1>4, <2>1, <3>1, <3>2
  <2>2. CASE v # w
    BY <1>1, <1>5, <2>2 DEF ShareInv, Pending, NoncesOf
  <2>3. QED
    BY <2>1, <2>2
<1>6. \A s \in Known : s.seq = job'.seq => s.nonce < nextNonce'
  BY <1>1, <1>2, <1>4 DEF ShareInv
<1>7. QED
  BY <1>1, <1>3, <1>5, <1>6 DEF ShareInv, QueueIsCurrent, NoDuplicateShare

(* miner_set_job empties the queue, and no share of the new job number      *)
(* exists yet.                                                              *)
LEMMA SetJobKeepsShareInv ==
  ASSUME TypeOK, RangeInv, ShareInv, SetJob
  PROVE  ShareInv'
<1> USE DEF sessionVars, flagVars, jobVars, countVars, scanVars
<1>1. /\ shares' = <<>> /\ job'.seq = job.seq + 1 /\ job.seq \in Nat
      /\ UNCHANGED <<claim, found, delivered>>
  BY DEF SetJob, QueueAfterSetJob, TypeOK
<1>2. Known' = delivered
  BY <1>1 DEF Known
<1>3. \A w \in Workers : Pending(w)' = Pending(w)
  BY <1>1, BroadcastFrame DEF SetJob, Pending, InFlight, NoncesOf
<1>4. \A s \in delivered : s.seq \in Nat /\ s \in Known
  BY DEF TypeOK, ShareSet, Known
<1>5. \A s \in Known' :
        /\ s.seq <= job'.seq
        /\ s.seq # job'.seq
        /\ \A w \in Workers : s.seq = claim'[w].seq => s.nonce \notin Pending(w)'
  BY <1>1, <1>2, <1>3, <1>4 DEF ShareInv
<1>6. QueueIsCurrent' /\ NoDuplicateShare'
  BY <1>1, MinerAssumption DEF QueueIsCurrent, NoDuplicateShare
<1>7. QED
  BY <1>5, <1>6 DEF ShareInv

(* miner_pop_share moves the first share from the queue to the taken ones.  *)
LEMMA PopShareKeepsShareInv ==
  ASSUME TypeOK, ShareInv, PopShare
  PROVE  ShareInv'
<1> USE DEF sessionVars, flagVars, jobVars, countVars, scanVars
<1>1. UNCHANGED <<claim, found, pc, job, nextNonce>>
  BY DEF PopShare
<1>2. /\ Len(shares) \in Nat \ {0}
      /\ Len(shares') = Len(shares) - 1
      /\ \A i \in 1 .. Len(shares) - 1 : shares'[i] = shares[i + 1]
      /\ delivered' = delivered \union {shares[1]}
  BY TailElements DEF PopShare, TypeOK
<1>3. Known' \subseteq Known
  <2>1. {shares'[i] : i \in 1 .. Len(shares')} \subseteq
          {shares[i] : i \in 1 .. Len(shares)}
    BY <1>2
  <2>2. shares[1] \in {shares[i] : i \in 1 .. Len(shares)}
    BY <1>2
  <2>3. QED
    BY <1>2, <2>1, <2>2 DEF Known
<1>4. QueueIsCurrent'
  BY <1>1, <1>2, MinerAssumption DEF ShareInv, QueueIsCurrent
<1>5. NoDuplicateShare'
  <2>1. ASSUME NEW i \in 1 .. Len(shares'), NEW k \in 1 .. Len(shares'), i # k
        PROVE  shares'[i] # shares'[k]
    BY <1>2, <2>1 DEF ShareInv, NoDuplicateShare
  <2>2. ASSUME NEW i \in 1 .. Len(shares')
        PROVE  shares'[i] \notin delivered'
    BY <1>2 DEF ShareInv, NoDuplicateShare
  <2>3. QED
    BY <2>1, <2>2 DEF NoDuplicateShare
<1>6. \A w \in Workers : Pending(w)' = Pending(w)
  BY <1>1 DEF Pending, NoncesOf
<1>7. QED
  BY <1>1, <1>3, <1>4, <1>5, <1>6 DEF ShareInv

(* Every step keeps ShareInv.                                               *)
LEMMA ShareInvStep ==
  ASSUME TypeOK, RangeInv, ShareInv, [Next]_vars
  PROVE  ShareInv'
<1> USE DEF sessionVars, flagVars, jobVars, countVars, scanVars
<1>1. CASE Quiet
  <2>1. \A w \in Workers : Pending(w)' = Pending(w)
    BY <1>1 DEF Quiet, Pending, InFlight, NoncesOf
  <2>2. QED
    BY <1>1, <2>1, ShareInvFrame DEF Quiet
<1>2. ASSUME NEW p \in BOOLEAN, SetPaused(p) PROVE ShareInv'
  <2>1. \A w \in Workers : Pending(w)' = Pending(w)
    BY <1>2, BroadcastFrame DEF SetPaused, Pending, InFlight, NoncesOf
  <2>2. QED
    BY <1>2, <2>1, ShareInvFrame DEF SetPaused
<1>3. ASSUME NEW w \in Workers, Scan(w) PROVE ShareInv'
  <2>1. PICK hits \in SUBSET Hits(claim[w]) :
          found' = [found EXCEPT ![w] = hits]
    BY <1>3 DEF Scan
  <2>2. \A v \in Workers : Pending(v)' \subseteq Pending(v)
    BY <1>3, <2>1 DEF Scan, Pending, TypeOK, Hits, NoncesOf
  <2>3. QED
    BY <1>3, <2>2, ShareInvFrame DEF Scan
<1>4. ASSUME NEW w \in Workers, ScanFails(w) \/ Credit(w) PROVE ShareInv'
  <2>1. \A v \in Workers : Pending(v)' \subseteq Pending(v)
    BY <1>4 DEF ScanFails, Credit, Pending, TypeOK, NoncesOf
  <2>2. QED
    BY <1>4, <2>1, ShareInvFrame DEF ScanFails, Credit
<1>5. QED
  BY <1>1, <1>2, <1>3, <1>4, StepCases, ClaimKeepsShareInv, SetJobKeepsShareInv,
     PopShareKeepsShareInv, ReportKeepsShareInv

(* The queue, the taken shares and the pending nonces never share an        *)
(* element.                                                                 *)
THEOREM SharesInvariant == Spec => []ShareInv
<1>1. Init => ShareInv
  BY MinerAssumption
  DEF Init, ShareInv, Known, QueueIsCurrent, NoDuplicateShare
<1>2. TypeOK /\ RangeInv /\ ShareInv /\ [Next]_vars => ShareInv'
  BY ShareInvStep
<1>3. QED
  BY <1>1, <1>2, TypeCorrect, RangesInvariant, PTL DEF Spec

(* No share is queued twice, and none that the session already popped.      *)
THEOREM SharesAreUnique == Spec => []NoDuplicateShare
<1>1. ShareInv => NoDuplicateShare
  BY DEF ShareInv
<1>2. QED
  BY <1>1, SharesInvariant, PTL

(* Whatever miner_pop_share returns was found for the current job.          *)
THEOREM SharesAreCurrent == Spec => []QueueIsCurrent
<1>1. ShareInv => QueueIsCurrent
  BY DEF ShareInv
<1>2. QED
  BY <1>1, SharesInvariant, PTL
-----------------------------------------------------------------------------
(* Refinement of the share feed.                                            *)

(* A report that changes the queue is the feed's Find: the share is new, of *)
(* the installed job, and the ring has room.                                *)
LEMMA ReportIsFind ==
  ASSUME TypeOK, RangeInv, ShareInv, NEW w \in Workers, Report(w),
         shares' # shares
  PROVE  Feed!Find
<1> USE DEF sessionVars, flagVars, jobVars, countVars, scanVars
<1>1. PICK n \in found[w] :
        shares' = IF StillCurrent(claim[w])
                  THEN QueueShare(Share(claim[w].seq, n)) ELSE shares
  BY DEF Report
<1>2. /\ StillCurrent(claim[w]) /\ Len(shares) < QueueSize
      /\ shares' = Append(shares, Share(job.seq, n))
      /\ claim[w].seq = job.seq
  BY <1>1, MinerAssumption DEF QueueShare, TypeOK, StillCurrent
<1>3. pc[w] = "report" /\ UNCHANGED <<job, delivered, paused, stop>>
  BY DEF Report
<1>4. n \in Hits(claim[w])
  BY <1>1, <1>3 DEF RangeInv, InFlight
<1>5. <<job.seq, n>> \in Winners
  BY <1>2, <1>4 DEF Hits
<1>6. Share(job.seq, n) \notin Known
  BY <1>1, <1>2, <1>3 DEF ShareInv, Pending, Share
<1>7. Feed!Queued \union delivered = Known
  BY DEF Feed!Queued, Known
<1>8. <<job.seq, n>>[1] = job.seq /\ <<job.seq, n>>[2] = n
  OBVIOUS
<1>9. Share(job.seq, n) = Feed!Share(job.seq, n)
  BY DEF Share, Feed!Share
<1>10. ~(paused \/ stop)
  BY <1>2 DEF StillCurrent
<1>11. QED
  BY <1>2, <1>3, <1>5, <1>6, <1>7, <1>8, <1>9, <1>10 DEF Feed!Find

(* Every step of the engine is a step of the share feed or leaves it alone. *)
LEMMA StepIsFeedStep ==
  ASSUME TypeOK, TypeOK', RangeInv, ShareInv, [Next]_vars
  PROVE  [Feed!FeedNext]_(Feed!feedVars)
<1> USE DEF sessionVars, flagVars, jobVars, countVars, scanVars
<1>1. ASSUME job'.seq = job.seq, UNCHANGED <<shares, delivered>>
      PROVE  Feed!HoldOrRelease
  <2>1. (paused' \/ stop') \in BOOLEAN
    BY DEF TypeOK
  <2>2. QED
    BY <1>1, <2>1 DEF Feed!HoldOrRelease
<1>2. CASE Quiet
  BY <1>1, <1>2 DEF Quiet, Feed!FeedNext
<1>3. CASE SetJob
  BY <1>3 DEF SetJob, QueueAfterSetJob, Feed!FeedNext, Feed!NewJob
<1>4. CASE PopShare
  BY <1>4 DEF PopShare, Feed!FeedNext, Feed!Take
<1>5. ASSUME NEW p \in BOOLEAN, SetPaused(p) PROVE Feed!FeedNext
  BY <1>1, <1>5 DEF SetPaused, Feed!FeedNext
<1>6. ASSUME NEW w \in Workers,
             Claim(w) \/ Scan(w) \/ ScanFails(w) \/ Credit(w)
      PROVE  Feed!FeedNext
  BY <1>1, <1>6 DEF Claim, Scan, ScanFails, Credit, Feed!FeedNext
<1>7. ASSUME NEW w \in Workers, Report(w) PROVE Feed!FeedNext
  <2>1. CASE shares' = shares
    BY <1>1, <1>7, <2>1 DEF Report, Feed!FeedNext
  <2>2. CASE shares' # shares
    BY <1>7, <2>2, ReportIsFind DEF Feed!FeedNext
  <2>3. QED
    BY <2>1, <2>2
<1>8. QED
  BY <1>2, <1>3, <1>4, <1>5, <1>6, <1>7, StepCases

(* The engine, with any number of workers, implements the share feed.       *)
THEOREM MinerImplementsFeed == Spec => ImplementsFeed
<1>1. Init => Feed!FeedInit
  BY DEF Init, Feed!FeedInit
<1>2. TypeOK /\ TypeOK' /\ RangeInv /\ ShareInv /\ [Next]_vars
        => [Feed!FeedNext]_(Feed!feedVars)
  BY StepIsFeedStep
<1>3. QED
  BY <1>1, <1>2, TypeCorrect, RangesInvariant, SharesInvariant, PTL
  DEF Spec, ImplementsFeed, Feed!FeedSpec

-----------------------------------------------------------------------------
(* Work overtaken by a pause or a new job.                                  *)

(* Every step keeps OvertakenInv: epoch and job number only grow.           *)
LEMMA OvertakenInvStep ==
  ASSUME TypeOK, RangeInv, OvertakenInv, [Next]_vars
  PROVE  OvertakenInv'
<1> USE DEF sessionVars, flagVars, jobVars, countVars, scanVars
<1>1. CASE Quiet
  BY <1>1 DEF Quiet, OvertakenInv, InFlight
<1>2. job.seq \in Nat /\ epoch \in Nat
      /\ \A w \in Workers : claim[w].seq \in Nat /\ claim[w].epoch \in Nat
  BY DEF TypeOK, ClaimSet
<1>3. CASE SetJob
  <2>1. \A w \in Workers : InFlight(w)' <=> InFlight(w)
    BY <1>3, BroadcastFrame DEF SetJob
  <2>2. job'.seq = job.seq + 1 /\ UNCHANGED <<claim, epoch>>
    BY <1>3 DEF SetJob
  <2>3. \A w \in Workers : InFlight(w) => claim[w].seq <= job.seq
    BY DEF RangeInv
  <2>4. \A w \in interrupted' : InFlight(w)
    BY <1>3 DEF SetJob, OvertakenInv, TypeOK
  <2>5. QED
    BY <1>2, <2>1, <2>2, <2>3, <2>4 DEF OvertakenInv
<1>4. CASE PopShare
  BY <1>4 DEF PopShare, OvertakenInv, InFlight
<1>5. ASSUME NEW p \in BOOLEAN, SetPaused(p) PROVE OvertakenInv'
  <2>1. \A w \in Workers : InFlight(w)' <=> InFlight(w)
    BY <1>5, BroadcastFrame DEF SetPaused
  <2>2. /\ UNCHANGED <<claim, job>> /\ paused' = p
        /\ epoch' = IF p /\ ~paused THEN epoch + 1 ELSE epoch
        /\ interrupted' = IF p THEN interrupted \union {w \in Workers : InFlight(w)}
                               ELSE interrupted
    BY <1>5 DEF SetPaused, EpochAfter
  <2>3. \A w \in Workers : InFlight(w) => claim[w].epoch <= epoch
    BY DEF RangeInv
  <2>4. CASE p /\ ~paused
    BY <1>2, <2>1, <2>2, <2>3, <2>4 DEF OvertakenInv, TypeOK
  <2>5. CASE p /\ paused
    BY <1>2, <2>1, <2>2, <2>3, <2>5 DEF OvertakenInv, TypeOK
  <2>6. CASE ~p
    BY <1>2, <2>1, <2>2, <2>3, <2>6 DEF OvertakenInv, TypeOK
  <2>7. QED
    BY <2>4, <2>5, <2>6
<1>6. ASSUME NEW w \in Workers, Claim(w) PROVE OvertakenInv'
  <2>1. w \notin interrupted /\ ~paused
    BY <1>6 DEF Claim, Mining, OvertakenInv, InFlight
  <2>2. \A v \in Workers \ {w} : claim'[v] = claim[v] /\ pc'[v] = pc[v]
    BY <1>6 DEF Claim, TypeOK
  <2>3. UNCHANGED <<interrupted, paused, epoch, job>>
    BY <1>6 DEF Claim
  <2>4. QED
    BY <2>1, <2>2, <2>3 DEF OvertakenInv, InFlight
<1>7. ASSUME NEW w \in Workers, Scan(w) \/ Report(w) PROVE OvertakenInv'
  <2>1. \A v \in Workers : InFlight(v)' <=> InFlight(v)
    BY <1>7 DEF Scan, Report, InFlight, TypeOK
  <2>2. QED
    BY <1>7, <2>1 DEF Scan, Report, OvertakenInv
<1>8. ASSUME NEW w \in Workers, ScanFails(w) \/ Credit(w) PROVE OvertakenInv'
  <2>1. \A v \in Workers : /\ InFlight(v)' => InFlight(v)
                           /\ v # w => (InFlight(v)' <=> InFlight(v))
    BY <1>8 DEF ScanFails, Credit, InFlight, TypeOK
  <2>2. QED
    BY <1>8, <2>1 DEF ScanFails, Credit, OvertakenInv
<1>9. QED
  BY <1>1, <1>3, <1>4, <1>5, <1>6, <1>7, <1>8, StepCases

(* A worker whose range was overtaken holds an epoch or a job number older  *)
(* than the engine's.                                                       *)
LEMMA OvertakenInvariant == Spec => []OvertakenInv
<1>1. Init => OvertakenInv
  BY DEF Init, OvertakenInv, InFlight
<1>2. TypeOK /\ RangeInv /\ OvertakenInv /\ [Next]_vars => OvertakenInv'
  BY OvertakenInvStep
<1>3. QED
  BY <1>1, <1>2, TypeCorrect, RangesInvariant, PTL DEF Spec

(* No step of such a worker changes the queue or the hash count.            *)
LEMMA OvertakenStep ==
  ASSUME TypeOK, OvertakenInv, [Next]_vars, NEW w \in interrupted,
         pc'[w] # pc[w] \/ found'[w] # found[w]
  PROVE  UNCHANGED <<shares, hashes>>
<1> USE DEF sessionVars, flagVars, jobVars, countVars, scanVars
<1>1. w \in Workers /\ InFlight(w)
  BY DEF OvertakenInv, TypeOK
<1>2. ~StillCurrent(claim[w])
  <2>1. claim[w].epoch < epoch \/ claim[w].seq < job.seq
    BY <1>1 DEF OvertakenInv
  <2>2. /\ claim[w].epoch \in Nat /\ claim[w].seq \in Nat
        /\ epoch \in Nat /\ job.seq \in Nat
    BY <1>1 DEF TypeOK, ClaimSet
  <2>3. QED
    BY <2>1, <2>2 DEF StillCurrent
<1>3. CASE Quiet
  BY <1>3 DEF Quiet
<1>4. ASSUME SetJob \/ PopShare \/ (\E p \in BOOLEAN : SetPaused(p)) PROVE FALSE
  <2>1. found' = found
    BY <1>4 DEF SetJob, PopShare, SetPaused
  <2>2. pc'[w] = pc[w]
    BY <1>1, <1>4, BroadcastFrame DEF SetJob, PopShare, SetPaused
  <2>3. QED
    BY <2>1, <2>2
<1>5. ASSUME NEW v \in Workers,
             Claim(v) \/ Scan(v) \/ ScanFails(v) \/ Report(v) \/ Credit(v)
      PROVE  UNCHANGED <<shares, hashes>>
  <2>1. v = w
    BY <1>1, <1>5 DEF Claim, Scan, ScanFails, Report, Credit, TypeOK
  <2>2. QED
    BY <1>2, <1>5, <2>1 DEF Claim, Scan, ScanFails, Report, Credit
<1>6. QED
  BY <1>3, <1>4, <1>5, StepCases

(* What a worker finds or finishes after a pause or a new job overtook its  *)
(* range is neither queued nor counted.                                     *)
THEOREM OvertakenIsDropped == Spec => OvertakenWorkIsDropped
<1>1. TypeOK /\ OvertakenInv /\ [Next]_vars =>
        [\A w \in interrupted :
           pc'[w] # pc[w] \/ found'[w] # found[w] => UNCHANGED <<shares, hashes>>]_vars
  BY OvertakenStep
<1>2. QED
  BY <1>1, TypeCorrect, OvertakenInvariant, PTL DEF Spec, OvertakenWorkIsDropped
-----------------------------------------------------------------------------
(* Sleeping workers, exhaustion and devices.                                *)

(* A worker asleep on work_cond has nothing to do: whoever changes that     *)
(* broadcasts in the same critical section.                                 *)
THEOREM NoWakeupIsLost == Spec => []NoLostWakeup
<1>1. Init => NoLostWakeup
  BY DEF Init, NoLostWakeup
<1>2. TypeOK /\ NoLostWakeup /\ [Next]_vars => NoLostWakeup'
  <2> SUFFICES ASSUME TypeOK, NoLostWakeup, [Next]_vars PROVE NoLostWakeup'
    OBVIOUS
  <2> USE DEF sessionVars, flagVars, jobVars, countVars, scanVars
  <2>1. ASSUME NEW w \in Workers,
               \/ Check(w) \/ Claim(w) \/ Exhaust(w) \/ ClaimRefused(w)
               \/ WaitForWork(w) \/ SpuriousWake(w)
        PROVE  NoLostWakeup'
    BY <2>1 DEF Check, Claim, Exhaust, ClaimRefused, WaitForWork, SpuriousWake,
                NoLostWakeup, MustSleep, TypeOK
  <2>2. ASSUME NEW w \in Workers,
               Scan(w) \/ ScanFails(w) \/ Report(w) \/ Credit(w) \/ Join(w)
        PROVE  NoLostWakeup'
    BY <2>2 DEF Scan, ScanFails, Report, Credit, Join, NoLostWakeup, MustSleep,
                TypeOK
  <2>3. CASE pc' = Broadcast(pc)
    BY <2>3, BroadcastFrame DEF NoLostWakeup
  <2>4. ASSUME NEW w \in Workers, StartCpu(w) \/ StartGpu(w)
        PROVE  NoLostWakeup'
    BY <2>4 DEF StartCpu, StartGpu, NoLostWakeup, MustSleep, TypeOK
  <2>5. CASE UNCHANGED <<pc, stop, paused, job>>
    BY <2>5 DEF NoLostWakeup, MustSleep
  <2>6. QED
    BY <2>1, <2>2, <2>3, <2>4, <2>5
    DEF Next, WorkerStep, SessionStep, StartStep, JoinStep, Terminated, SetJob,
        SetPaused, TakeNonceExhausted, PopShare, StartDevices, CpuStarted,
        Started, Stop, Stopped, StartCpuFails, RequestStop, vars, Workers
<1>3. QED
  BY <1>1, <1>2, TypeCorrect, PTL DEF Spec

(* miner_take_nonce_exhausted returns 1 only for a job all of whose nonces  *)
(* were handed out.                                                         *)
THEOREM ExhaustionIsReal == Spec => []ExhaustedIsReal
<1>1. Init => ExhaustedIsReal
  BY DEF Init, ExhaustedIsReal
<1>2. TypeOK /\ ExhaustedIsReal /\ [Next]_vars => ExhaustedIsReal'
  <2> SUFFICES ASSUME TypeOK, ExhaustedIsReal, [Next]_vars PROVE ExhaustedIsReal'
    OBVIOUS
  <2> USE DEF sessionVars, flagVars, jobVars, countVars, scanVars
  <2>1. ASSUME NEW w \in Workers, Claim(w) PROVE ExhaustedIsReal'
    BY <2>1 DEF Claim, Mining, ExhaustedIsReal
  <2>2. ASSUME NEW w \in Workers, Exhaust(w) PROVE ExhaustedIsReal'
    <3>1. nextNonce' = NonceLimit
      BY <2>2, MinerAssumption DEF Exhaust, NoSpaceLeft, TypeOK
    <3>2. job'.valid = FALSE
      BY <2>2 DEF Exhaust, TypeOK
    <3>3. QED
      BY <3>1, <3>2 DEF ExhaustedIsReal
  <2>3. CASE exhausted' = FALSE
    BY <2>3 DEF ExhaustedIsReal
  <2>4. CASE UNCHANGED <<job, nextNonce, exhausted>>
    BY <2>4 DEF ExhaustedIsReal
  <2>5. ASSUME NEW w \in Workers, WorkerStep(w) \/ SpuriousWake(w) \/ Join(w)
        PROVE  ExhaustedIsReal'
    BY <2>1, <2>2, <2>4, <2>5
    DEF WorkerStep, Check, ClaimRefused, WaitForWork, SpuriousWake, Scan,
        ScanFails, Report, Credit, Join
  <2>6. QED
    BY <2>3, <2>4, <2>5
    DEF Next, SessionStep, StartStep, JoinStep, Terminated, SetJob, SetPaused,
        TakeNonceExhausted, PopShare, StartDevices, CpuStarted, Started, Stop,
        Stopped, StartCpu, StartGpu, StartCpuFails, vars
<1>3. QED
  BY <1>1, <1>2, TypeCorrect, PTL DEF Spec

(* No device is destroyed under a thread that scans on it.                  *)
THEOREM DevicesOutliveThreads == Spec => []DeviceOutlivesThread
<1>1. Init => DeviceInv
  BY DEF Init, DeviceInv, DeviceOutlivesThread, Workers
<1>2. TypeOK /\ DeviceInv /\ [Next]_vars => DeviceInv'
  <2> SUFFICES ASSUME TypeOK, DeviceInv, [Next]_vars PROVE DeviceInv'
    OBVIOUS
  <2> USE DEF sessionVars, flagVars, jobVars, countVars, scanVars, Workers
  <2>1. ASSUME NEW w \in Workers, WorkerStep(w) \/ SpuriousWake(w)
        PROVE  DeviceInv'
    <3>1. UNCHANGED <<ctl, devices>> /\ pc[w] \notin {"none", "joined"}
      BY <2>1 DEF WorkerStep, SpuriousWake, Check, Claim, Exhaust, ClaimRefused,
                  WaitForWork, Scan, ScanFails, Report, Credit
    <3>2. \A v \in Workers \ {w} : pc'[v] = pc[v]
      BY <2>1 DEF WorkerStep, SpuriousWake, Check, Claim, Exhaust, ClaimRefused,
                  WaitForWork, Scan, ScanFails, Report, Credit, TypeOK
    <3>3. QED
      BY <3>1, <3>2 DEF DeviceInv, DeviceOutlivesThread
  <2>2. CASE pc' = Broadcast(pc) /\ UNCHANGED <<ctl, devices>>
    BY <2>2, BroadcastFrame DEF DeviceInv, DeviceOutlivesThread
  <2>3. CASE RequestStop /\ UNCHANGED devices
    BY <2>3, BroadcastFrame DEF DeviceInv, DeviceOutlivesThread, RequestStop
  <2>4. ASSUME NEW w \in Cpu, StartCpuFails(w) PROVE DeviceInv'
    BY <2>4, BroadcastFrame
    DEF StartCpuFails, RequestStop, DeviceInv, DeviceOutlivesThread
  <2>5. ASSUME NEW w \in Cpu, StartCpu(w) PROVE DeviceInv'
    BY <2>5, MinerAssumption DEF StartCpu, DeviceInv, DeviceOutlivesThread, TypeOK
  <2>6. ASSUME NEW w \in Gpu, StartGpu(w) PROVE DeviceInv'
    BY <2>6 DEF StartGpu, DeviceInv, DeviceOutlivesThread, TypeOK
  <2>7. ASSUME NEW w \in Workers, Join(w) PROVE DeviceInv'
    BY <2>7, MinerAssumption DEF Join, DeviceInv, DeviceOutlivesThread, TypeOK
  <2>8. CASE StartDevices
    BY <2>8 DEF StartDevices, DeviceInv, DeviceOutlivesThread
  <2>9. CASE CpuStarted \/ Stopped
    BY <2>9 DEF CpuStarted, Stopped, DeviceInv, DeviceOutlivesThread
  <2>10. CASE UNCHANGED <<pc, devices>> /\ ctl' \notin {"created", "cpu"}
    BY <2>10 DEF DeviceInv, DeviceOutlivesThread
  <2>11. CASE UNCHANGED <<pc, devices, ctl>>
    BY <2>11 DEF DeviceInv, DeviceOutlivesThread
  <2>12. QED
    BY <2>1, <2>2, <2>3, <2>4, <2>5, <2>6, <2>7, <2>8, <2>9, <2>10, <2>11
    DEF Next, SessionStep, StartStep, JoinStep, Terminated, SetJob, SetPaused,
        TakeNonceExhausted, PopShare, Started, Stop, vars
<1>3. DeviceInv => DeviceOutlivesThread
  BY DEF DeviceInv
<1>4. QED
  BY <1>1, <1>2, <1>3, TypeCorrect, PTL DEF Spec
-----------------------------------------------------------------------------
(* The accounts: what becomes of every nonce that was handed out.           *)

Done(n) == <<job.seq, n>> \in credited
Held(n) == \E w \in Workers :
             InFlight(w) /\ claim[w].seq = job.seq /\ n \in NoncesOf(claim[w])

(* Pointwise, NonceAccounting; and nothing of a later job was counted.      *)
FateInv ==
  /\ \A x \in credited : x[1] <= job.seq
  /\ \A n \in Nonces : n < nextNonce <=> Done(n) \/ Held(n) \/ n \in skipped
  /\ \A n \in Nonces : /\ Done(n) => ~Held(n) /\ n \notin skipped
                       /\ Held(n) => n \notin skipped

CountInv == IsFiniteSet(credited) /\ HashesExact

(* A range that is in flight is one of nonces.                              *)
LEMMA ClaimIsNonces ==
  ASSUME TypeOK, NEW w \in Workers
  PROVE  /\ NoncesOf(claim[w]) \subseteq Nonces
         /\ claim[w].seq \in Nat /\ claim[w].first \in Nat /\ claim[w].count \in Nat
BY RangeIsNonces DEF TypeOK, ClaimSet

(* Steps that leave the workers' ranges and the job leave the accounts.     *)
LEMMA FateFrame ==
  ASSUME FateInv, UNCHANGED <<claim, nextNonce, credited, skipped>>,
         job'.seq = job.seq, \A w \in Workers : InFlight(w)' <=> InFlight(w)
  PROVE  FateInv'
<1>1. \A n : Done(n)' <=> Done(n)
  BY DEF Done
<1>2. \A n : Held(n)' <=> Held(n)
  BY DEF Held, NoncesOf
<1>3. QED
  BY <1>1, <1>2 DEF FateInv

LEMMA ClaimKeepsFate ==
  ASSUME TypeOK, FateInv, NEW w \in Workers, Claim(w) PROVE FateInv'
<1>1. /\ claim'[w] = [seq |-> job.seq, epoch |-> epoch, first |-> nextNonce,
                      count |-> RangeSize(w)]
      /\ pc'[w] = "scan" /\ pc[w] = "claim"
      /\ \A v \in Workers \ {w} : claim'[v] = claim[v] /\ pc'[v] = pc[v]
  BY DEF Claim, TypeOK
<1>2. RangeSize(w) \in Nat \ {0} /\ nextNonce \in Nat
      /\ nextNonce' = nextNonce + RangeSize(w)
  BY RangeSizeBounds DEF Claim, CursorAfter
<1>3. UNCHANGED <<credited, skipped, job>>
  BY DEF Claim, countVars
<1>4. \A n : Done(n)' <=> Done(n)
  BY <1>3 DEF Done
<1>5. \A n \in Nat : n \in NoncesOf(claim'[w]) <=> nextNonce <= n /\ n < nextNonce'
  BY <1>1, <1>2 DEF NoncesOf
<1>6. \A n \in Nat : Held(n)' <=> Held(n) \/ (nextNonce <= n /\ n < nextNonce')
  BY <1>1, <1>3, <1>5 DEF Held, InFlight, NoncesOf
<1>7. Nonces \subseteq Nat
  BY DEF Nonces
<1>8. QED
  BY <1>2, <1>3, <1>4, <1>6, <1>7 DEF FateInv

(* A worker that ends its scan hands its range over: to the counted nonces  *)
(* or to the skipped ones, or, of an older job, to nobody.                  *)
LEMMA ReleaseKeepsFate ==
  ASSUME TypeOK, RangeInv, FateInv, NEW w \in Workers, ScanFails(w) \/ Credit(w)
  PROVE  FateInv'
<1> USE DEF flagVars, jobVars, countVars, scanVars
<1>1. /\ UNCHANGED <<claim, job, nextNonce>> /\ InFlight(w) /\ ~InFlight(w)'
      /\ \A v \in Workers \ {w} : InFlight(v)' <=> InFlight(v)
  BY DEF ScanFails, Credit, InFlight, TypeOK
<1> DEFINE range == NoncesOf(claim[w])
           mine  == claim[w].seq = job.seq
<1>2. range \subseteq Nonces /\ claim[w].seq \in Nat /\ job.seq \in Nat
      /\ claim[w].seq <= job.seq
  BY <1>1, ClaimIsNonces DEF TypeOK, RangeInv
<1>3. \A n \in Nonces : Held(n)' <=> Held(n) /\ ~(mine /\ n \in range)
  <2>1. \A n \in Nonces, v \in Workers \ {w} :
          InFlight(v) /\ claim[v].seq = job.seq /\ n \in NoncesOf(claim[v]) =>
            ~(mine /\ n \in range)
    BY <1>1 DEF RangeInv
  <2>2. \A n \in Nonces : Held(n)' <=>
          \E v \in Workers \ {w} :
            InFlight(v) /\ claim[v].seq = job.seq /\ n \in NoncesOf(claim[v])
    BY <1>1 DEF Held, NoncesOf
  <2>3. QED
    BY <1>1, <2>1, <2>2 DEF Held
<1>4. \A n \in Nonces : mine /\ n \in range => Held(n)
  BY <1>1 DEF Held
<1>5. CASE credited' = credited /\ skipped' = IF mine THEN skipped \union range ELSE skipped
  <2>1. \A n : Done(n)' <=> Done(n)
    BY <1>1, <1>5 DEF Done
  <2>2. QED
    BY <1>1, <1>3, <1>4, <1>5, <2>1 DEF FateInv
<1>6. CASE skipped' = skipped /\ mine /\ credited' = credited \union RangeWork(claim[w])
  <2>1. \A n : Done(n)' <=> Done(n) \/ n \in range
    BY <1>1, <1>6 DEF Done, RangeWork
  <2>2. \A x \in credited' : x[1] <= job.seq
    BY <1>2, <1>6 DEF FateInv, RangeWork
  <2>3. QED
    BY <1>1, <1>3, <1>4, <1>6, <2>1, <2>2 DEF FateInv
<1>7. QED
  BY <1>5, <1>6 DEF ScanFails, Credit, StillCurrent

(* Nothing of a new job is counted, held or skipped yet.                    *)
LEMMA SetJobKeepsFate ==
  ASSUME TypeOK, RangeInv, FateInv, SetJob PROVE FateInv'
<1>1. /\ job'.seq = job.seq + 1 /\ job.seq \in Nat /\ nextNonce' = 0 /\ skipped' = {}
      /\ UNCHANGED <<claim, credited>>
  BY DEF SetJob, TypeOK, countVars, scanVars
<1>2. \A w \in Workers : InFlight(w)' <=> InFlight(w)
  BY BroadcastFrame DEF SetJob
<1>3. \A x \in credited : x[1] \in Nat /\ x[1] <= job.seq
  BY DEF FateInv, TypeOK
<1>4. \A n : ~Done(n)'
  BY <1>1, <1>3 DEF Done
<1>5. \A n : ~Held(n)'
  BY <1>1, <1>2, ClaimIsNonces DEF Held, RangeInv
<1>6. \A x \in credited' : x[1] <= job'.seq
  BY <1>1, <1>3
<1>7. \A n \in Nonces : ~(n < nextNonce')
  BY <1>1 DEF Nonces
<1>8. QED
  BY <1>1, <1>4, <1>5, <1>6, <1>7 DEF FateInv

LEMMA FateInvStep ==
  ASSUME TypeOK, RangeInv, FateInv, [Next]_vars PROVE FateInv'
<1> USE DEF jobVars, countVars, scanVars
<1>1. CASE Quiet
  BY <1>1, FateFrame DEF Quiet, InFlight
<1>2. CASE PopShare
  BY <1>2, FateFrame DEF PopShare, InFlight
<1>3. ASSUME NEW p \in BOOLEAN, SetPaused(p) PROVE FateInv'
  BY <1>3, FateFrame, BroadcastFrame DEF SetPaused
<1>4. ASSUME NEW w \in Workers, Scan(w) \/ Report(w) PROVE FateInv'
  <2>1. \A v \in Workers : InFlight(v)' <=> InFlight(v)
    BY <1>4 DEF Scan, Report, InFlight, TypeOK
  <2>2. QED
    BY <1>4, <2>1, FateFrame DEF Scan, Report
<1>5. QED
  BY <1>1, <1>2, <1>3, <1>4, SetJobKeepsFate, ClaimKeepsFate, ReleaseKeepsFate, StepCases

LEMMA FateInvariant == Spec => []FateInv
<1>1. Init => FateInv
  <2> SUFFICES ASSUME Init PROVE FateInv
    OBVIOUS
  <2>1. \A n : ~Done(n) /\ ~Held(n)
    BY DEF Init, Done, Held, InFlight
  <2>2. nextNonce = 0 /\ credited = {} /\ skipped = {}
    BY DEF Init
  <2>3. QED
    BY <2>1, <2>2 DEF FateInv, Nonces
<1>2. TypeOK /\ RangeInv /\ FateInv /\ [Next]_vars => FateInv'
  BY FateInvStep
<1>3. QED
  BY <1>1, <1>2, TypeCorrect, RangesInvariant, PTL DEF Spec

(* Every nonce below the cursor was hashed, is in a worker's hands or was   *)
(* given up, and only one of these.                                         *)
THEOREM NoncesAreAccountedFor == Spec => []NonceAccounting
<1>1. TypeOK /\ FateInv => NonceAccounting
  <2> SUFFICES ASSUME TypeOK, FateInv PROVE NonceAccounting
    OBVIOUS
  <2> DEFINE done == {n \in Nonces : <<job.seq, n>> \in credited}
             held == UNION {NoncesOf(claim[w]) : w \in
                              {v \in Workers : InFlight(v) /\ claim[v].seq = job.seq}}
  <2>1. \A n : n \in held <=> Held(n)
    BY DEF Held
  <2>2. held \subseteq Nonces /\ skipped \subseteq Nonces
    BY ClaimIsNonces DEF TypeOK
  <2>3. \A n \in Nonces : n \in done <=> Done(n)
    BY DEF Done
  <2>4. nextNonce \in 0 .. NonceLimit /\ NonceLimit \in Nat
    BY MinerAssumption DEF TypeOK
  <2>5. \A n : n \in 0 .. nextNonce - 1 <=> n \in Nonces /\ n < nextNonce
    BY <2>4 DEF Nonces
  <2> HIDE DEF done, held
  <2>6. done \subseteq Nonces
    BY DEF done
  <2>7. /\ done \union held \union skipped = 0 .. nextNonce - 1
        /\ done \intersect (held \union skipped) = {}
        /\ held \intersect skipped = {}
    BY <2>1, <2>2, <2>3, <2>5, <2>6 DEF FateInv
  <2>8. QED
    BY <2>7 DEF NonceAccounting, done, held
<1>2. QED
  BY <1>1, TypeCorrect, FateInvariant, PTL

-----------------------------------------------------------------------------
(* The sum: hashes is the number of nonces credited.                        *)

(* A range has as many <<seq, nonce>> pairs as its count says.              *)
LEMMA RangeWorkSize ==
  ASSUME TypeOK, NEW w \in Workers
  PROVE  /\ IsFiniteSet(RangeWork(claim[w]))
         /\ Cardinality(RangeWork(claim[w])) = claim[w].count
<1> DEFINE c == claim[w]
           f == [n \in NoncesOf(c) |-> <<c.seq, n>>]
<1>1. c.first \in Nat /\ c.count \in Nat
  BY ClaimIsNonces
<1> HIDE DEF c
<1>2. c.first + c.count - 1 \in Int /\ c.first \in Int
  BY <1>1
<1>3. /\ IsFiniteSet(NoncesOf(c))
      /\ Cardinality(NoncesOf(c)) =
           IF c.first > c.first + c.count - 1 THEN 0
           ELSE (c.first + c.count - 1) - c.first + 1
  BY <1>2, FS_Interval DEF NoncesOf
<1>4. Cardinality(NoncesOf(c)) = c.count
  BY <1>1, <1>3
<1>5. f \in Bijection(NoncesOf(c), RangeWork(c))
  BY DEF Bijection, Injection, IsInjective, Surjection, RangeWork
<1>6. ExistsBijection(NoncesOf(c), RangeWork(c))
  BY <1>5 DEF ExistsBijection
<1>7. QED
  BY <1>3, <1>4, <1>6, FS_Bijection DEF c

LEMMA CreditKeepsCount ==
  ASSUME TypeOK, FateInv, CountInv, NEW w \in Workers, Credit(w)
  PROVE  CountInv'
<1>1. CASE ~StillCurrent(claim[w])
  BY <1>1 DEF Credit, countVars, CountInv, HashesExact
<1>2. CASE StillCurrent(claim[w])
  <2> DEFINE range == RangeWork(claim[w])
  <2>1. /\ hashes' = hashes + claim[w].count /\ credited' = credited \union range
        /\ claim[w].seq = job.seq /\ InFlight(w)
    BY <1>2 DEF Credit, StillCurrent, InFlight
  <2>2. credited \intersect range = {}
    <3> SUFFICES ASSUME NEW n \in NoncesOf(claim[w]), <<job.seq, n>> \in credited
                 PROVE  FALSE
      BY <2>1 DEF RangeWork
    <3>1. n \in Nonces /\ Done(n) /\ Held(n)
      BY <2>1, ClaimIsNonces DEF Done, Held
    <3>2. QED
      BY <3>1 DEF FateInv
  <2>3. IsFiniteSet(range) /\ Cardinality(range) = claim[w].count
    BY RangeWorkSize
  <2>4. claim[w].count \in Nat
    BY ClaimIsNonces
  <2> HIDE DEF range
  <2>5. IsFiniteSet(credited) /\ Cardinality(credited) \in Nat
    BY FS_CardinalityType DEF CountInv
  <2>6. /\ IsFiniteSet(credited \union range)
        /\ Cardinality(credited \union range) =
             Cardinality(credited) + Cardinality(range) - Cardinality({})
    BY <2>2, <2>3, <2>5, FS_Union
  <2>7. Cardinality({}) = 0
    BY FS_EmptySet
  <2>8. QED
    BY <2>1, <2>3, <2>4, <2>5, <2>6, <2>7 DEF CountInv, HashesExact
<1>3. QED
  BY <1>1, <1>2

LEMMA CountInvStep ==
  ASSUME TypeOK, FateInv, CountInv, [Next]_vars PROVE CountInv'
<1>1. CASE UNCHANGED <<hashes, credited>>
  BY <1>1 DEF CountInv, HashesExact
<1>2. ASSUME NEW w \in Workers, Credit(w) PROVE CountInv'
  BY <1>2, CreditKeepsCount
<1>3. QED
  BY <1>1, <1>2, StepCases
  DEF Quiet, SetJob, PopShare, SetPaused, Claim, Scan, ScanFails, Report, countVars

(* The hash counter is exactly the number of nonces credited: no range is   *)
(* counted twice or in part.                                                *)
THEOREM HashesAreCounted == Spec => []HashesExact
<1>1. Init => CountInv
  BY FS_EmptySet DEF Init, CountInv, HashesExact
<1>2. TypeOK /\ FateInv /\ CountInv /\ [Next]_vars => CountInv'
  BY CountInvStep
<1>3. CountInv => HashesExact
  BY DEF CountInv
<1>4. QED
  BY <1>1, <1>2, <1>3, TypeCorrect, FateInvariant, PTL DEF Spec
=============================================================================
