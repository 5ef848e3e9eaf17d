-------------------------------- MODULE Miner --------------------------------
(***************************************************************************)
(* The native hashing engine, cpp/btcrig/miner.c.                          *)
(*                                                                         *)
(* One lock guards the current job, the nonce cursor, the pause flag and   *)
(* the share queue.  CPU and OpenCL workers claim consecutive nonce ranges *)
(* under the lock, scan them without it, and take it again for every match *)
(* and to credit the hashes.  The session thread installs jobs, pauses,    *)
(* pops shares, and starts and joins the workers.                          *)
(*                                                                         *)
(* Each action is one critical section of the lock, or one step of the     *)
(* session thread outside it.  What a nonce hashes to is the constant      *)
(* Winners: the <<job, nonce>> pairs that meet the share target.           *)
(***************************************************************************)
EXTENDS Integers, Sequences, FiniteSets

CONSTANTS
  Cpu,         (* CPU worker threads                                        *)
  Gpu,         (* OpenCL devices that opencl_miner_resolve_devices returns  *)
  NonceLimit,  (* UINT32_MAX + 1                                            *)
  CpuBatch,    (* MINER_BATCH_SIZE                                          *)
  MixedBatch,  (* MINER_MIXED_CPU_BATCH_SIZE, when a GPU was started        *)
  GpuBatch,    (* opencl_miner_batch_size                                   *)
  MaxResults,  (* matches one GPU scan can report                           *)
  QueueSize,   (* SHARE_QUEUE_SIZE                                          *)
  Winners,     (* the <<seq, nonce>> pairs whose hash meets the target      *)
  MaxSeq,      (* bound of the model: jobs set                              *)
  MaxPauses    (* bound of the model: pauses                                *)

Workers == Cpu \union Gpu
Nonces  == 0 .. NonceLimit - 1

ASSUME MinerAssumption ==
  /\ Cpu \intersect Gpu = {}
  /\ NonceLimit \in Nat \ {0}
  /\ CpuBatch \in Nat \ {0}
  /\ MixedBatch \in Nat \ {0}
  /\ GpuBatch \in Nat \ {0}
  /\ MaxResults \in Nat \ {0}
  /\ QueueSize \in Nat \ {0}
  /\ MaxSeq \in Nat
  /\ MaxPauses \in Nat
  /\ Winners \subseteq (Nat \X Nonces)

VARIABLES
  ctl,           (* where the session thread is in miner_start / miner_stop *)
  devices,       (* opencl_devices[i] != NULL                               *)
  openclStarted, (* opencl_started > 0                                      *)
  stop,
  paused,
  epoch,         (* pause_epoch                                             *)
  job,           (* job.public_job.seq and job.valid                        *)
  nextNonce,
  exhausted,     (* nonce_exhausted                                         *)
  hashes,
  threadHashes,  (* thread_hashes and opencl_hashes                         *)
  shares,        (* the ring shares[share_head ..] as a sequence            *)
  pc,            (* where each worker is                                    *)
  claim,         (* a worker's private copy of job, epoch and nonce range   *)
  found,         (* matches of a finished scan not yet reported             *)
  delivered,     (* history: shares the session has popped                  *)
  credited,      (* history: <<seq, nonce>> counted in hashes               *)
  skipped,       (* history: nonces of the job claimed and then given up    *)
  interrupted    (* history: workers whose scan a pause or new job overtook *)

sessionVars == <<ctl, devices, openclStarted>>
flagVars    == <<stop, paused, epoch>>
jobVars     == <<job, nextNonce, exhausted>>
countVars   == <<hashes, threadHashes, credited>>
scanVars    == <<claim, found>>
vars == <<sessionVars, flagVars, jobVars, countVars, shares, pc, scanVars,
          delivered, skipped, interrupted>>

NoClaim == [seq |-> 0, epoch |-> 0, first |-> 0, count |-> 0]

Init ==
  /\ ctl = "created"
  /\ devices = {}
  /\ openclStarted = FALSE
  /\ stop = FALSE
  /\ paused = FALSE
  /\ epoch = 0
  /\ job = [seq |-> 0, valid |-> FALSE]
  /\ nextNonce = 0
  /\ exhausted = FALSE
  /\ hashes = 0
  /\ threadHashes = [w \in Workers |-> 0]
  /\ shares = <<>>
  /\ pc = [w \in Workers |-> "none"]
  /\ claim = [w \in Workers |-> NoClaim]
  /\ found = [w \in Workers |-> {}]
  /\ delivered = {}
  /\ credited = {}
  /\ skipped = {}
  /\ interrupted = {}

InFlight(w)   == pc[w] \in {"scan", "report"}
NoncesOf(c)      == c.first .. c.first + c.count - 1
RangeWork(c)  == {<<c.seq, n>> : n \in NoncesOf(c)}
Share(s, n)   == [seq |-> s, nonce |-> n]

(* Mutants of Broadcast: a signal, and a forgotten wake-up.                 *)
WakesOne(p) ==
  LET asleep == {w \in Workers : p[w] = "sleep"}
  IN  IF asleep = {} THEN p ELSE [p EXCEPT ![CHOOSE w \in asleep : TRUE] = "wait"]
WakesNobody(p) == p

(* pthread_cond_broadcast: every thread asleep has to take the lock again.  *)
Broadcast(p) == [w \in Workers |-> IF p[w] = "sleep" THEN "wait" ELSE p[w]]

-----------------------------------------------------------------------------
(* Workers.                                                                *)

(* The top of worker_main's loop: read the two flags under the lock.       *)
Check(w) ==
  /\ pc[w] = "check"
  /\ pc' = [pc EXCEPT ![w] = IF stop THEN "done"
                             ELSE IF paused THEN "wait" ELSE "claim"]
  /\ UNCHANGED <<sessionVars, flagVars, jobVars, countVars, shares, scanVars,
                 delivered, skipped, interrupted>>

BatchSize(w) ==
  IF w \in Gpu THEN GpuBatch
  ELSE IF openclStarted THEN MixedBatch ELSE CpuBatch

(* Mutant of RangeSize: the last range is not cut.                          *)
RangeSizeUncut(w) == BatchSize(w)

(* min(remaining, batch): the last range of a job is cut at UINT32_MAX.     *)
RangeSize(w) ==
  IF NonceLimit - nextNonce < BatchSize(w) THEN NonceLimit - nextNonce
                                           ELSE BatchSize(w)

(* The cursor after a claim; its mutant hands the last nonce out again.     *)
CursorForgetsLast(w) == nextNonce + RangeSize(w) - 1
CursorAfter(w) == nextNonce + RangeSize(w)

Mining == ~stop /\ ~paused /\ job.valid

(* Mutant of NoSpaceLeft: UINT32_MAX itself is taken for the end.           *)
NoSpaceForTheLast == nextNonce >= NonceLimit - 1

NoSpaceLeft == nextNonce >= NonceLimit

(* copy_job_and_nonce_range_sized hands out the next range.                 *)
Claim(w) ==
  /\ pc[w] = "claim"
  /\ Mining
  /\ ~NoSpaceLeft
  /\ claim' = [claim EXCEPT ![w] = [seq   |-> job.seq,  epoch |-> epoch,
                                    first |-> nextNonce, count |-> RangeSize(w)]]
  /\ nextNonce' = CursorAfter(w)
  /\ pc' = [pc EXCEPT ![w] = "scan"]
  /\ UNCHANGED <<sessionVars, flagVars, job, exhausted, countVars, shares,
                 found, delivered, skipped, interrupted>>

(* The same call when nothing is left: the job is retired.                  *)
Exhaust(w) ==
  /\ pc[w] = "claim"
  /\ Mining
  /\ NoSpaceLeft
  /\ job' = [job EXCEPT !.valid = FALSE]
  /\ exhausted' = TRUE
  /\ pc' = [pc EXCEPT ![w] = "wait"]
  /\ UNCHANGED <<sessionVars, flagVars, nextNonce, countVars, shares,
                 scanVars, delivered, skipped, interrupted>>

(* The same call when the flags changed since Check.                        *)
ClaimRefused(w) ==
  /\ pc[w] = "claim"
  /\ ~Mining
  /\ pc' = [pc EXCEPT ![w] = "wait"]
  /\ UNCHANGED <<sessionVars, flagVars, jobVars, countVars, shares, scanVars,
                 delivered, skipped, interrupted>>

(* Mutant of MustSleep: the loop forgets the stop flag.                     *)
SleepsThroughStop == paused \/ ~job.valid

(* The condition of miner_wait_for_work's loop.                             *)
MustSleep == ~stop /\ (paused \/ ~job.valid)

WaitForWork(w) ==
  /\ pc[w] = "wait"
  /\ pc' = [pc EXCEPT ![w] = IF MustSleep THEN "sleep" ELSE "check"]
  /\ UNCHANGED <<sessionVars, flagVars, jobVars, countVars, shares, scanVars,
                 delivered, skipped, interrupted>>

(* POSIX lets pthread_cond_wait return without a broadcast.                 *)
SpuriousWake(w) ==
  /\ pc[w] = "sleep"
  /\ pc' = [pc EXCEPT ![w] = "wait"]
  /\ UNCHANGED <<sessionVars, flagVars, jobVars, countVars, shares, scanVars,
                 delivered, skipped, interrupted>>

Hits(c) == {n \in NoncesOf(c) : <<c.seq, n>> \in Winners}

(* The scan itself, without the lock.  A GPU keeps at most MaxResults       *)
(* matches, whichever work items got the slots.                             *)
Scan(w) ==
  /\ pc[w] = "scan"
  /\ \E hits \in SUBSET Hits(claim[w]) :
       /\ \/ hits = Hits(claim[w])
          \/ w \in Gpu /\ Cardinality(hits) = MaxResults
       /\ w \in Gpu => Cardinality(hits) <= MaxResults
       /\ found' = [found EXCEPT ![w] = hits]
  /\ pc' = [pc EXCEPT ![w] = "report"]
  /\ UNCHANGED <<sessionVars, flagVars, jobVars, countVars, shares, claim,
                 delivered, skipped, interrupted>>

(* opencl_miner_scan fails before it reports any match: the worker sleeps   *)
(* 250 ms and goes back to the top of the loop, without its range.          *)
ScanFails(w) ==
  /\ pc[w] = "scan"
  /\ w \in Gpu
  /\ pc' = [pc EXCEPT ![w] = "check"]
  /\ skipped' = IF claim[w].seq = job.seq
                THEN skipped \union NoncesOf(claim[w]) ELSE skipped
  /\ interrupted' = interrupted \ {w}
  /\ UNCHANGED <<sessionVars, flagVars, jobVars, countVars, shares, scanVars,
                 delivered>>

(* Mutant of StillCurrent: no epoch.                                        *)
StillCurrentNoEpoch(c) == ~stop /\ ~paused /\ job.seq = c.seq

(* scan_result_still_current_locked *)
StillCurrent(c) ==
  /\ ~stop
  /\ ~paused
  /\ epoch = c.epoch
  /\ job.seq = c.seq

(* Mutant of QueueShare: one share too many.                                *)
QueueShareBeyond(share) ==
  IF Len(shares) > QueueSize THEN shares ELSE Append(shares, share)

(* queue_share_locked: a full queue drops the share.                        *)
QueueShare(share) ==
  IF Len(shares) >= QueueSize THEN shares ELSE Append(shares, share)

(* A CPU scan meets its matches in nonce order, a GPU in any.               *)
NextMatch(w, n) == w \in Cpu => \A m \in found[w] : n <= m

(* queue_scan_match *)
Report(w) ==
  /\ pc[w] = "report"
  /\ \E n \in found[w] :
       /\ NextMatch(w, n)
       /\ found' = [found EXCEPT ![w] = @ \ {n}]
       /\ shares' = IF StillCurrent(claim[w])
                    THEN QueueShare(Share(claim[w].seq, n)) ELSE shares
  /\ UNCHANGED <<sessionVars, flagVars, jobVars, countVars, pc, claim,
                 delivered, skipped, interrupted>>

(* The end of the loop body: credit the whole range, or nothing.            *)
Credit(w) ==
  /\ pc[w] = "report"
  /\ found[w] = {}
  /\ IF StillCurrent(claim[w])
     THEN /\ hashes' = hashes + claim[w].count
          /\ threadHashes' = [threadHashes EXCEPT ![w] = @ + claim[w].count]
          /\ credited' = credited \union RangeWork(claim[w])
          /\ UNCHANGED skipped
     ELSE /\ UNCHANGED countVars
          /\ skipped' = IF claim[w].seq = job.seq
                        THEN skipped \union NoncesOf(claim[w]) ELSE skipped
  /\ pc' = [pc EXCEPT ![w] = "check"]
  /\ interrupted' = interrupted \ {w}
  /\ UNCHANGED <<sessionVars, flagVars, jobVars, shares, scanVars, delivered>>

WorkerStep(w) ==
  \/ Check(w) \/ Claim(w) \/ Exhaust(w) \/ ClaimRefused(w) \/ WaitForWork(w)
  \/ Scan(w) \/ ScanFails(w) \/ Report(w) \/ Credit(w)

-----------------------------------------------------------------------------
(* The session thread: jobs, pauses and shares.                            *)

(* miner_set_job replaces the template and forgets the shares of the old;   *)
(* the mutant keeps them.                                                   *)
KeepsOldShares == shares
QueueAfterSetJob == <<>>

SetJob ==
  /\ ctl = "running"
  /\ job.seq < MaxSeq
  /\ job' = [seq |-> job.seq + 1, valid |-> TRUE]
  /\ nextNonce' = 0
  /\ exhausted' = FALSE
  /\ shares' = QueueAfterSetJob
  /\ pc' = Broadcast(pc)
  /\ skipped' = {}
  /\ interrupted' = interrupted \union {w \in Workers : InFlight(w)}
  /\ UNCHANGED <<sessionVars, flagVars, countVars, scanVars, delivered>>

(* A pause, not a repeated one, opens a new epoch.                          *)
EpochAfter(p) == IF p /\ ~paused THEN epoch + 1 ELSE epoch

SetPaused(p) ==
  /\ ctl = "running"
  /\ p /\ ~paused => epoch < MaxPauses
  /\ epoch' = EpochAfter(p)
  /\ paused' = p
  /\ pc' = Broadcast(pc)
  /\ interrupted' = IF p THEN interrupted \union {w \in Workers : InFlight(w)}
                         ELSE interrupted
  /\ UNCHANGED <<sessionVars, stop, jobVars, countVars, shares, scanVars,
                 delivered, skipped>>

TakeNonceExhausted ==
  /\ ctl = "running"
  /\ exhausted
  /\ exhausted' = FALSE
  /\ UNCHANGED <<sessionVars, flagVars, job, nextNonce, countVars, shares, pc,
                 scanVars, delivered, skipped, interrupted>>

PopShare ==
  /\ ctl = "running"
  /\ shares # <<>>
  /\ delivered' = delivered \union {Head(shares)}
  /\ shares' = Tail(shares)
  /\ UNCHANGED <<sessionVars, flagVars, jobVars, countVars, pc, scanVars,
                 skipped, interrupted>>

-----------------------------------------------------------------------------
(* The session thread: miner_start and miner_stop.                         *)

(* Set the stop flag and wake everyone; joining follows.                    *)
RequestStop ==
  /\ stop' = TRUE
  /\ pc' = Broadcast(pc)
  /\ ctl' = "joining"

(* The devices that pass their self-test and can be created.                *)
StartDevices ==
  /\ ctl = "created"
  /\ \E up \in SUBSET Gpu :
       /\ devices' = up
       /\ openclStarted' = (up # {})
       /\ ctl' = IF Cpu = {} /\ up = {} THEN "failed" ELSE "cpu"
  /\ UNCHANGED <<flagVars, jobVars, countVars, shares, pc, scanVars, delivered,
                 skipped, interrupted>>

StartCpu(w) ==
  /\ ctl = "cpu"
  /\ pc[w] = "none"
  /\ pc' = [pc EXCEPT ![w] = "check"]
  /\ UNCHANGED <<sessionVars, flagVars, jobVars, countVars, shares, scanVars,
                 delivered, skipped, interrupted>>

(* stop_partially_started_cpu_threads: no GPU thread exists yet.            *)
StartCpuFails(w) ==
  /\ ctl = "cpu"
  /\ pc[w] = "none"
  /\ devices' = {}
  /\ openclStarted' = FALSE
  /\ RequestStop
  /\ UNCHANGED <<paused, epoch, jobVars, countVars, shares, scanVars,
                 delivered, skipped, interrupted>>

CpuStarted ==
  /\ ctl = "cpu"
  /\ \A w \in Cpu : pc[w] # "none"
  /\ ctl' = "gpu"
  /\ UNCHANGED <<devices, openclStarted, flagVars, jobVars, countVars, shares,
                 pc, scanVars, delivered, skipped, interrupted>>

(* Mutant of StartGpu: the device is destroyed though its thread runs.      *)
StartGpuDestroys(w) ==
  /\ ctl = "gpu"
  /\ w \in devices
  /\ pc[w] = "none"
  /\ pc' = [pc EXCEPT ![w] = "check"]
  /\ devices' = devices \ {w}
  /\ UNCHANGED <<ctl, openclStarted, flagVars, jobVars, countVars, shares,
                 scanVars, delivered, skipped, interrupted>>

StartGpu(w) ==
  /\ ctl = "gpu"
  /\ w \in devices
  /\ pc[w] = "none"
  /\ \/ pc' = [pc EXCEPT ![w] = "check"] /\ UNCHANGED devices
     \/ devices' = devices \ {w} /\ UNCHANGED pc
  /\ UNCHANGED <<ctl, openclStarted, flagVars, jobVars, countVars, shares,
                 scanVars, delivered, skipped, interrupted>>

(* The end of miner_start: it undoes itself when no thread runs.            *)
Started ==
  /\ ctl = "gpu"
  /\ \A w \in devices : pc[w] # "none"
  /\ IF Cpu = {} /\ devices = {}
     THEN RequestStop
     ELSE ctl' = "running" /\ UNCHANGED <<stop, pc>>
  /\ UNCHANGED <<devices, openclStarted, paused, epoch, jobVars, countVars,
                 shares, scanVars, delivered, skipped, interrupted>>

Stop ==
  /\ ctl = "running"
  /\ RequestStop
  /\ UNCHANGED <<devices, openclStarted, paused, epoch, jobVars, countVars,
                 shares, scanVars, delivered, skipped, interrupted>>

(* pthread_join, the CPU threads first; a device is destroyed after its     *)
(* thread is joined.                                                        *)
MayJoin(w) ==
  /\ pc[w] = "done"
  /\ w \in Gpu => \A c \in Cpu : pc[c] \in {"none", "joined"}

Join(w) ==
  /\ ctl = "joining"
  /\ MayJoin(w)
  /\ pc' = [pc EXCEPT ![w] = "joined"]
  /\ devices' = devices \ {w}
  /\ UNCHANGED <<ctl, openclStarted, flagVars, jobVars, countVars, shares,
                 scanVars, delivered, skipped, interrupted>>

Stopped ==
  /\ ctl = "joining"
  /\ \A w \in Workers : pc[w] \in {"none", "joined"}
  /\ ctl' = "stopped"
  /\ openclStarted' = FALSE
  /\ UNCHANGED <<devices, flagVars, jobVars, countVars, shares, pc, scanVars,
                 delivered, skipped, interrupted>>

(* miner_destroy has freed the engine, or miner_start returned -1.          *)
Terminated ==
  /\ ctl \in {"stopped", "failed"}
  /\ UNCHANGED vars

StartStep ==
  \/ StartDevices \/ CpuStarted \/ Started
  \/ \E w \in Cpu : StartCpu(w) \/ StartCpuFails(w)
  \/ \E w \in Gpu : StartGpu(w)

JoinStep == Stopped \/ \E w \in Workers : Join(w)

SessionStep ==
  \/ SetJob \/ TakeNonceExhausted \/ PopShare \/ Stop
  \/ \E p \in BOOLEAN : SetPaused(p)

Next ==
  \/ \E w \in Workers : WorkerStep(w) \/ SpuriousWake(w)
  \/ SessionStep \/ StartStep \/ JoinStep \/ Terminated

(* The scheduler runs every runnable thread; scans end, and joins return    *)
(* once the thread has.  Nothing makes the session call in.                 *)
Fairness ==
  /\ \A w \in Workers : WF_vars(WorkerStep(w))
  /\ WF_vars(JoinStep)

Spec     == Init /\ [][Next]_vars
FairSpec == Spec /\ Fairness
-----------------------------------------------------------------------------
(* Properties.                                                             *)

ShareSet == [seq : Nat, nonce : Nonces]
ClaimSet == [seq : Nat, epoch : Nat, first : Nat, count : Nat]
PcSet == {"none", "check", "claim", "wait", "sleep", "scan", "report", "done",
          "joined"}

(* The variables have their types, and no claim reaches past the nonce      *)
(* space.                                                                   *)
TypeOK ==
  /\ ctl \in {"created", "failed", "cpu", "gpu", "running", "joining", "stopped"}
  /\ devices \subseteq Gpu
  /\ openclStarted \in BOOLEAN
  /\ stop \in BOOLEAN
  /\ paused \in BOOLEAN
  /\ epoch \in Nat
  /\ job \in [seq : Nat, valid : BOOLEAN]
  /\ nextNonce \in 0 .. NonceLimit
  /\ exhausted \in BOOLEAN
  /\ hashes \in Nat
  /\ threadHashes \in [Workers -> Nat]
  /\ shares \in Seq(ShareSet)
  /\ pc \in [Workers -> PcSet]
  /\ claim \in [Workers -> ClaimSet]
  /\ \A w \in Workers : claim[w].first + claim[w].count <= NonceLimit
  /\ found \in [Workers -> SUBSET Nonces]
  /\ delivered \subseteq ShareSet
  /\ credited \subseteq (Nat \X Nonces)
  /\ skipped \subseteq Nonces
  /\ interrupted \subseteq Workers

(* Two workers never hash the same nonce of the same job, and nothing of    *)
(* the current job is hashed beyond the cursor: the ranges that             *)
(* copy_job_and_nonce_range_sized hands out do not overlap.                 *)
DisjointRanges ==
  \A w \in Workers : InFlight(w) =>
    /\ claim[w].seq = job.seq => claim[w].first + claim[w].count <= nextNonce
    /\ \A v \in Workers \ {w} :
         InFlight(v) /\ claim[v].seq = claim[w].seq =>
           NoncesOf(claim[v]) \intersect NoncesOf(claim[w]) = {}

(* The pool is never given the same share twice: a queued share is neither  *)
(* queued again nor one that miner_pop_share already returned.              *)
NoDuplicateShare ==
  /\ \A i, k \in 1 .. Len(shares) : i # k => shares[i] # shares[k]
  /\ \A i \in 1 .. Len(shares) : shares[i] \notin delivered

(* The queue holds shares of the current job only, and no more than the     *)
(* ring has slots: after miner_set_job the session cannot pop a share of    *)
(* the previous template, whatever a worker was doing.                      *)
QueueIsCurrent ==
  /\ Len(shares) <= QueueSize
  /\ \A i \in 1 .. Len(shares) : shares[i].seq = job.seq

(* No worker sleeps on work_cond while there is work for it or a stop to    *)
(* notice: each change that ends the wait is followed by a broadcast.       *)
NoLostWakeup ==
  \A w \in Workers : pc[w] = "sleep" => MustSleep

(* The nonces of the current job below the cursor are exactly those counted *)
(* as hashed, in a worker's hands, or given up because of a pause or a      *)
(* failed GPU scan; no nonce is both hashed and given up.                   *)
NonceAccounting ==
  LET done == {n \in Nonces : <<job.seq, n>> \in credited}
      held == UNION {NoncesOf(claim[w]) : w \in
                       {v \in Workers : InFlight(v) /\ claim[v].seq = job.seq}}
  IN  /\ done \union held \union skipped = 0 .. nextNonce - 1
      /\ done \intersect (held \union skipped) = {}
      /\ held \intersect skipped = {}

(* The reported hash count is the number of distinct nonces hashed: nothing *)
(* is counted twice, through a pause or a job change either.                *)
HashesExact == hashes = Cardinality(credited)

(* The session is told of exhaustion only when every nonce of the job was   *)
(* handed out, and the exhausted job is retired at the same moment.         *)
ExhaustedIsReal ==
  exhausted => /\ ~job.valid
               /\ nextNonce = NonceLimit

(* A device outlives the thread that scans on it: miner_start and           *)
(* miner_stop destroy it only when no thread was started on it or after     *)
(* the thread was joined.                                                   *)
DeviceOutlivesThread ==
  \A w \in Gpu : pc[w] \notin {"none", "joined"} => w \in devices

(* Work overtaken by a pause or a new job counts for nothing: whatever its  *)
(* worker still finds or finishes leaves the queue and the hash counts      *)
(* alone, even when mining was resumed meanwhile.                           *)
OvertakenWorkIsDropped ==
  [][\A w \in interrupted :
       pc'[w] # pc[w] \/ found'[w] # found[w] => UNCHANGED <<shares, hashes>>]_vars

(* miner_stop returns: every worker sees the stop flag, asleep or not, and  *)
(* all are joined.                                                          *)
StopEnds == ctl = "joining" ~> ctl = "stopped"

(* A job that stays installed, unpaused, is worked to the end of its nonce  *)
(* space: no worker stays asleep through miner_set_job or a resume.         *)
JobIsMined ==
  \A s \in 1 .. MaxSeq :
    (ctl = "running" /\ ~paused /\ job = [seq |-> s, valid |-> TRUE])
      ~> (ctl # "running" \/ paused \/ job # [seq |-> s, valid |-> TRUE])

(* The engine implements the abstract share feed.                           *)
Feed == INSTANCE ShareFeed WITH
          Capacity <- QueueSize,
          cur      <- job.seq,
          held     <- (paused \/ stop),
          queue    <- shares,
          taken    <- delivered

(* Seen through its queue, the engine with all its threads behaves like the *)
(* feed: every step of a worker or of the session is a step of ShareFeed or *)
(* invisible to it.                                                         *)
ImplementsFeed == Feed!FeedSpec

-----------------------------------------------------------------------------
(* The inductive invariants behind the properties; see MinerProofs.        *)

(* The nonces a worker may yet report.                                      *)
Pending(w) == IF pc[w] = "scan" THEN NoncesOf(claim[w])
              ELSE IF pc[w] = "report" THEN found[w] ELSE {}

(* Shares queued or already popped.                                         *)
Known == {shares[i] : i \in 1 .. Len(shares)} \union delivered

RangeInv ==
  /\ \A w \in Workers : InFlight(w) =>
       /\ claim[w].seq <= job.seq
       /\ claim[w].epoch <= epoch
       /\ claim[w].seq = job.seq => claim[w].first + claim[w].count <= nextNonce
       /\ pc[w] = "report" => found[w] \subseteq Hits(claim[w])
  /\ \A w, v \in Workers :
       w # v /\ InFlight(w) /\ InFlight(v) /\ claim[v].seq = claim[w].seq =>
         NoncesOf(claim[v]) \intersect NoncesOf(claim[w]) = {}

ShareInv ==
  /\ QueueIsCurrent
  /\ NoDuplicateShare
  /\ \A s \in Known :
       /\ s.seq <= job.seq
       /\ s.seq = job.seq => s.nonce < nextNonce
       /\ \A w \in Workers : s.seq = claim[w].seq => s.nonce \notin Pending(w)

OvertakenInv ==
  \A w \in Workers :
    /\ w \in interrupted => InFlight(w)
    /\ InFlight(w) /\ (paused \/ w \in interrupted) =>
         claim[w].epoch < epoch \/ claim[w].seq < job.seq

DeviceInv ==
  /\ DeviceOutlivesThread
  /\ ctl \in {"created", "cpu"} => \A w \in Gpu : pc[w] = "none"
=============================================================================
