# BTCRig-Android in TLA+

BTCRig-Android is an Android Bitcoin miner: a Java/Kotlin app with a foreground
service around a native core (C, pthreads) that speaks Stratum to a pool and
hashes on CPU threads and OpenCL devices, or around a child process, XMRig. This
directory models the parts in which several threads, the pool, the devices and
the user meet, model-checks them with TLC and proves every safety property that
a passing run checks with TLAPS.

Paths below are relative to `src/app/src/main/`; `native` is `cpp/`, `java` is
`java/com/btcrig/android/`.

## 1. The system

| Component | State | Operations | Talks to |
|---|---|---|---|
| Hashing engine, `native/btcrig/miner.c` | job, `next_nonce`, `nonce_exhausted`, `paused`, `pause_epoch`, `stop`, share ring, hash counts; one lock and one condition variable | `miner_start`, `miner_stop`, `miner_set_job`, `miner_set_paused`, `miner_take_nonce_exhausted`, `miner_pop_share`; worker loops | called by the session thread; owns CPU and OpenCL threads |
| OpenCL backend, `native/btcrig/opencl_miner.c` | device, context, queue, program, kernel, buffers, batch and work-group sizes | resolve, create, self-test, scan, destroy | called by `miner_start` and the OpenCL workers |
| OpenCL loader, `native/btcrig/opencl_loader.c` | library handle, table of functions | `btcrig_opencl_load` | core thread, settings page |
| Pool session, `native/btcrig/stratum.c` | socket, request ids, extranonces, difficulty, block template, pending table, counters | `stratum_run_client`: one loop of flush, roll, read, handle | pool (lines), engine (calls), core (stop flag, statistics callback) |
| Core, `native/btcrig_core_full.c` | `g_running`, `g_thread_started`, `g_stop_joining`, `g_stop_requested`, `g_thread`, configuration, statistics | `btcrig_core_start`, `btcrig_core_stop`, `run_core`, benchmark, challenge | called over JNI by several Java threads; runs sessions |
| JNI bridge, `native/btcrig_jni.c` | none | conversions | service, activity |
| Pool input: TLS bridge, `native/btcrig_android_tls.c`, `java/BtcrigTls.java` | chunk queue, flags, reader thread | open, read, write, close; `read_line` | session thread, reader thread |
| Foreground service, `java/BtcrigService.java` | `stopping`, `notificationLoopRunning`, wake lock, preference `desired_running` | start and stop intents, `onDestroy`, recovery | Android main thread, notification thread, stop thread |
| XMRig runner, `java/XmrigRunner.java` | child process, `benchmarking`, `xmrig-config.json`, preference "benchmark" | start, stop, sweep of stale children, calibration, watcher | service, activity, settings page |
| Configuration, `java/BtcrigConfig.java`, `read_config` of the core | `config.json`, the companion's file | ensure, migrate, read, save, edit; read for the miner | activity, service, core |
| Activity, `java/ModernActivity.kt` | screens; benchmark and challenge threads | taps | service, JNI |
| Log trimming, UI text, CPU detection, hash kernels | files, none | read, write, compute | everyone |

What is hard in each, and what makes it correct:

* **Engine.** Workers scan without the lock; a pause, a new job or a stop can
  overtake them anywhere. Correct: ranges never overlap, a stale result is
  never queued or counted, no worker sleeps through work, an exhausted job is
  reported once it really is, devices outlive their threads.
* **OpenCL.** Every runtime call may fail, sizes are clamped in four places, a
  work item takes one to four nonces by kernel, a kernel that does not build
  gives way to a simpler one, and the handle that was tested is not the one that
  mines. Correct: a scan covers its range once, nothing is left behind, a
  program has every function its kernel calls.
* **Loader.** One table of functions, no lock, two threads. Correct: who is told
  that the runtime is there finds every function.
* **Session.** The pool sends anything in any order; the job is rebuilt for four
  different reasons. Correct: no share is submitted twice, every submit is
  accounted for, the engine works on the template and the extranonce that the pool
  set last and on a difficulty no older than the last notify, an exhausted job is
  replaced.
* **Pool input.** A reader thread fills a queue that the session drains into a
  line buffer; the end, an error, the limit or a close come at any moment.
  Correct: the session gets the pool's lines, all, once and in order, then the
  end; no thread waits for a dead connection or survives a closed one.
* **Core and service.** Start and stop are called from four threads and join the
  same pthread; a recovery may be starting the core while the user stops it; the
  main thread takes the same monitor. Correct: at most one core thread, joined
  once, a stop request is not withdrawn from a living thread, a stop wins over a
  recovery, a core that gave up comes back, the main thread gets out of every
  callback. The last does not hold of the code in general: where `g_running` is
  cleared under a core thread that goes on (section 6), the next start joins that
  thread for good. It is checked for all runs in which that does not happen.
* **Core thread.** Sessions fail, complete or are stopped; counters restart with
  each. Correct: totals are sums over sessions, donation is mined only after a
  complete user phase, a stop ends the thread anywhere.
* **XMRig.** Children outlive the app's process; five kinds of thread start, stop
  and sweep them; the benchmark writes its result in two rounds, and its child
  mines if the app dies under it. Correct: no second child mines once this life of
  the app has started one or has opened, a stop leaves none, a calibration was
  measured (unless its two writes were disturbed).
* **Configuration.** Five spellings of the same setting, read by two parsers with
  rules of their own; a file truncated and filled in place. Correct: what was
  saved stays while `hasPool` finds a pool in it and its write is not cut short, and
  the miner works with what the page shows.

## 2. Modules and how they map to the code

Every definition's source lines are in `PROJECT.json` under `map`. A definition
whose comment begins "Mutant of" is a plausible bug of the definition below it;
`mutants` says which property notices. The `MC` modules only name small sets.

**`Miner`** is `miner.c`. An action is one critical section of `miner->lock` or
one step of the session thread outside it. A worker's `pc` follows
`worker_main` / `opencl_worker_main`: `check` (534), `wait`/`sleep`
(`miner_wait_for_work`), `claim` (`copy_job_and_nonce_range_sized`), `scan`
(no lock), `report` (one match, `queue_scan_match`), `done`. `claim[w]` is the
worker's private copy of job number, pause epoch and range; `found[w]` are its
matches not yet reported. The session's calls are `SetJob`, `SetPaused`,
`TakeNonceExhausted`, `PopShare`; `ctl` follows `miner_start` (with every
partial failure and its clean-up) and `miner_stop`. `SpuriousWake` is allowed,
as POSIX allows it. What a nonce hashes to is the constant `Winners`; the nonce
space 2^32 is `NonceLimit`. A CPU worker queues each match as it scans; an
OpenCL worker gets all matches, at most `MaxResults` of them, or a failure.
Four history variables (`delivered`, `credited`, `skipped`, `interrupted`)
record what the properties compare with.

**`ShareFeed`** is what the session relies on: a bounded queue of shares of the
current job, each given at most once, nothing found while mining is held. `Miner`
refines it (`Feed == INSTANCE ShareFeed WITH cur <- job.seq, held <- (paused \/
stop), queue <- shares, taken <- delivered`).

**`OpenCL`** is `opencl_miner.c` with the part of `miner_start` that uses it. The
first part turns a configuration and a machine into the devices to use (the
three ways to name them, defaults, clamps, the limits of the kernel without
atomics). Then each device is created call by call, every call may fail, and
`live` counts the runtime objects that exist; a build that fails falls back to a
simpler kernel where the choice was left open. Each device is created twice:
once for the self-test, a scan in which every nonce must be found, and once to
mine. `Scan` adds up what the host
asks for (work items rounded up to groups, nonces per item) and what each kernel
takes. Left out: device attributes do not change between calls, the wrap of
32-bit arithmetic near 2^32, the hash itself, and the listing for the settings
page. A device without atomics has one shared slot counter whose increments may
be lost.

**`OpenCLLoader`** is `opencl_loader.c`: the loop over library names, opening,
filling the table symbol by symbol, closing, with `Threads` inside at once.

**`Stratum`** is one call of `stratum_run_client` with the handlers of all lines.
`at` is the place in the loop; `flush`, `roll`, `read`, `after` are the loop's
four blocks. `Rebuild` is `rebuild_miner_job` with its three outcomes (nothing
to build, a job set, a build that fails after the counter moved); the engine
beside the session is the share feed (`FindShare`, `ExhaustNonces`). The pool
answers each request it owes at most once (`owed`), in any order, and sends
notifies, difficulties, extranonces and junk. Assumed of the pool: no answer to
ids it was not sent, and `mining.subscribe` answered before the first notify.
`extranonce2_size` has three values: usable, not positive, too long for its
buffer; `En2Space` is the number of values a usable one has. `notifyDiff` is the
difficulty at the last notify, a history variable: the comment at
`stratum.c:1152` defers a new difficulty to the next notify, the code below it
rebuilds the job at once, and the property allows either.

**`PoolInput`** is the reader thread of `BtcrigTls.java`, its chunk queue, `read`
and `close`, and `read_line` of `stratum.c` on top; a byte is its position, and
`feeds` says which positions are line feeds. Opening a connection and writing
are single calls outside it. **`LineFeed`** is what the session relies on: lines
in order, each ending at the next line feed, then the end. `PoolInput` refines it.

**`RunCore`** is the loop of `run_core` with `update_stats` and
`mark_disconnected`: phases, retries, pause, and the statistics kept across
sessions.

**`CoreLifecycle`** is `btcrig_core_start`, `btcrig_core_stop`,
`join_core_thread_once` and the end of `run_core`. Each critical section of
`g_lock` is an action, and so are the steps outside it: `pthread_create`,
`pthread_join`, and `g_thread_started = 1`, which the code stores without the
lock (600). `GiveUp` is a core that ends by itself.

**`Service`** EXTENDS `CoreLifecycle` and adds `BtcrigService` (engine "btcrig"):
the main thread with start and stop intents and `onDestroy`, the notification
thread with `recoverCoreIfNeeded`, the `BTCRig-stop` thread, and the activity. A
tap (`TapStart`, `TapStop`) writes `desired_running` itself and sends an intent
(`ModernActivity.kt` 223-240); `intents` is what was sent and not delivered,
`capsule` what the next tap does, refreshed from `isRunning` (`RefreshUi`,
`OpenActivity`). When the stop intent cannot be sent (`StopIntentFails`), the
activity's own thread stops the core (379-387, `FallbackStops`). `monitor[i]` is
the instance's Java monitor, held across `startConfiguredCore`, hence across the
native start and any join in it. Left out: a resume of the activity while its stop
is under way, which lets the capsule be tapped again before the core is down; and
the death of the process with the sticky restart, which `Xmrig` and `Config` have.

**`Xmrig`** is `XmrigRunner` under the same service with the engine "xmrig". Its
threads are main, notification, the notification thread of a destroyed instance,
the stop thread of a stop and that of a destroyed instance, and the benchmark.
`AppDies` is a death of the app's process: the children live on, the benchmark's
among them (`calibrating`; it mines when it has calibrated), and the fields start
anew. `marker` is the number of threads that the preference names; `Read` is
`needsBenchmark` for the number now set, `Prepare` the second read of the file, in
`prepareConfig`. Reduced: the engine stays xmrig, the native companion is left to
`CoreLifecycle`, there is one "old" and one "end" thread at a time, an intent is
delivered as it is sent and the activity's stop thread and its own writes of
`desired_running` are left to `Service`, and what the benchmark's log says is an
outcome.

**`Config`** is `BtcrigConfig.java` with its callers and `read_config`. A text is
a function from the twenty keys that either side looks at, and one more, to
values; an object is there when one of its keys is. The one more is "ahead": how
much stands before the keys that name a pool, of which `hasPool` reads the first
8192 bytes. With "much" it finds no pool; with "some" it does until the text is
rewritten with an indentation, by a save or by `migrateDefaults` (`Fades`). Every
value is absent or of the type its reader asks for (`IsText`); a wrongly typed
value typed into the editor, which the two parsers would coerce each in its way,
is outside the model. Address, password and similar fields follow the same path
as the pool and are not kept apart. A write is two steps, truncate and fill; a
kill, a failure (`PutFails`) or another reader may fall between. A write that
fails leaves the file empty: one that stores a part of the text, whose effect
depends on where it is cut, is outside the model, and so is the tail that a longer
text would leave if two threads had the file open for writing at once. The
notification thread reads the file in `WatchedSpec` only, and the page's other
threads (the benchmark, the challenge) do not.

**`MinerProofs`**, **`ServiceProofs`**, **`RunProofs`**, **`InputProofs`**,
**`StratumProofs`**, **`XmrigProofs`**, **`OpenCLProofs`** and **`ConfigProofs`**
hold the theorems.

## 3. Runs

| Run | Instance | Shows |
|---|---|---|
| `miner` | 1 CPU and 1 OpenCL worker, 2 nonces, batches 2 (CPU alone), 1 (beside a GPU) and 2 (GPU), 2 jobs, 1 pause, two winners per job, ring of 1, one match per scan, fair | nine invariants, overtaken work dropped, refinement of `ShareFeed`, a stop joins everyone, an installed job is worked to its end |
| `serviceSafety` | one service instance, all its threads, taps, 2 intents on the way, the activity's stop thread, 2 pthread identities (symmetric) | one core thread, one join of it, no withdrawn stop |
| `serviceLive` | the same without the activity's stop thread, 1 pthread identity, fair | a stop wins over a recovery, a lost core comes back, the main thread gets free while `g_running` tells of the core |
| `serviceTap` | the specification and constants of `serviceLive` | violation: ordinary taps beside a recovery leave a core the user cannot stop, with the main thread blocked |
| `stratum` | 1 job id reused, 2 extranonces, 2 difficulties, 1 nonce, 3 extranonce2 values, pending table of 2, ring of 1, 3 pool lines besides answers, 2 exhausted jobs, timed, a difficulty suggested, fair | no duplicate submit, accounting, pending table, the job mined is the one asked for, an exhausted job is replaced if the last template can be built |
| `poolInput` | every stream of up to 5 bytes, reads of up to 2, a queue of 3, a line buffer of 3, fair | end last, losses noticed, no thread left, refinement of `LineFeed` |
| `runCore` | 4 sessions, 2 counters up to 2, limits none, 0 and 1, with and without donation and pool, fair | totals are sums, donation is earned, a stop ends the thread |
| `config` | 2 processors, 3 saves or edits, eight typed texts (old flat form, miner's own keys, XMRig with companion, a pool behind much else, no pool, ...), kills and failing writes | what is saved stays unless it names no pool in sight or its write is cut short, ensure leaves a usable file unless its own write fails, the miner works with what the page shows |
| `configSaved` | 1 save, the notification thread reading too | violation: the defaults overwrite a save |
| `opencl` | six machines (none, GPU, old runtime, no atomics, large groups, broken), every kernel, backend and nonces-per-item setting, two devices | a tested scan is exact, nothing leaks, programs are whole |
| `openclLoad` | 2 threads, 3 library names, 2 symbols | violation: loaded with an empty table |
| `xmrig` | 2 children, any number of deaths of the app, 2 numbers of threads (symmetric) | one miner once the app has started one or opened, a stop leaves none, placeholders pass for measured rates only if the two writes were disturbed |

Bounds, and why they are enough. `miner`: a batch of two fills the space of two
and a batch of one cuts it; two jobs and one pause give every order of pause,
resume, job change and scan; a ring of one is full after one of the two winners.
`stratum`: two pending slots with up to three open submits force the overwrite;
three extranonce2 values with two rolls and three lines let the counter run past
its space. `MaxSeq`, `MaxPauses`, `MaxLines`, `MaxBuilds` are guards of `SetJob`,
`SetPaused`, the pool's lines and `ExhaustNonces`. `serviceSafety`: two pthread
identities are one more than should exist at once, so a second thread would be
seen; they are told apart by nothing, hence the symmetry. Two intents on the way
are a start and the stop that overtakes its effect. `serviceLive`: the identity
can be used again once its thread is joined, so one is enough where
`serviceSafety` has shown that there never is a second; the activity's stop thread
is left out because the fair specification with it takes TLC more than five
minutes. `runCore`: four sessions are
user, donation, broken user and user again, with the first snapshot of each
falling behind the last of the one before in one counter, both or none.
`poolInput`: five bytes overflow a queue of three and a line buffer of three,
with chunks of one and two bytes cut in the middle by a full buffer. `config`:
three saves are a typed text, the page saving over it, and another typed text.
`opencl`: sizes are scaled so that every clamp is on either side of every limit
in some configuration. `xmrig`: one child more than should be alive, which is as many as a death
can leave behind, and two numbers of threads, one for which a
calibration is valid and one for which it is not.

`CHECK_DEADLOCK FALSE` is set for the service, which may rest for ever once it
was stopped; elsewhere ended runs stutter by an explicit action.

## 4. Fairness

* Engine: weak fairness of each worker's step and of the joins. The scheduler
  runs runnable threads, scans are bounded, and `pthread_join` returns after the
  thread did. Nothing makes the session call in.
* Core and service: weak fairness of each call in progress and of the thread
  noticing the stop flag (`stratum_run_client` polls it at least every 200 ms,
  the retry pause every second); strong fairness of the main thread's steps,
  since it competes for the monitor with a recovery that takes it only for a
  moment every 15 s, of the moment the notification thread sees the core down
  with 15 s passed, and of `pthread_create` succeeding among the recovery's
  repeated attempts; weak fairness of the delivery of an intent, which happens
  only while the main thread is idle. Taps, configuration errors and a core that
  gives up are not fair. `MainThreadIsFree` has a hypothesis besides, that
  `RunningIsTold` always holds; section 6 says what happens where it does not.
  `StoppingEndsMining` is stated with `<>[]`: `stopping` is never taken back, so it
  says that a stop is followed by a core at rest for good.
* Session: weak fairness of the session thread only. A read ends after 200 ms
  (on TLS at once), so the loop always comes round; the pool need not say anything.
* Core thread: weak fairness of its own steps and of the end of a session that
  was asked to stop. A session nobody stops may go on for ever.
* Pool input: weak fairness of the session thread, strong fairness of the reader
  thread's critical sections (the session holds the lock only while it copies),
  and a read of a closed socket throws. The pool need not send or close.
* Config, OpenCL, its loader and XMRig are checked for safety only.

## 5. What is proved

For every value of the constants that the named assumptions allow, without the
bounds of the runs mattering:

* **`MinerProofs`** (`MinerAssumption`: positive sizes, disjoint workers):
  `TypeCorrect`, `RangesAreDisjoint`, `SharesAreUnique`, `SharesAreCurrent`,
  `OvertakenIsDropped`, `NoWakeupIsLost`, `ExhaustionIsReal`,
  `DevicesOutliveThreads`, and `MinerImplementsFeed` (the refinement).
  `RangeInv` adds to the disjoint ranges that a claim never is of a later job or
  epoch, that a claim of the current job ends at or before the cursor, and that
  matches are winners of the range: only then is the next claim disjoint from
  all others. `ShareInv` adds that a known share (queued or taken) lies below the
  cursor of its job and is not among the nonces a worker may still report.
  `OvertakenInv` says that an overtaken worker holds an older epoch or job number
  than the engine's; both only grow, so `scan_result_still_current_locked` can
  never accept it again, even after a resume. `DeviceInv` adds that no OpenCL
  thread exists before the CPU threads do, which is why `miner_start` may destroy
  devices when it fails early. `StepCases` splits Next into the nine actions that
  touch ranges and shares and the rest (`Quiet`), and each invariant has one
  lemma per action that can disturb it. `NoncesAreAccountedFor` and
  `HashesAreCounted` rest on `FateInv`, which says of each nonce that it lies
  below the cursor exactly when it is credited, held by a worker or given up, and
  that it is only one of the three; a range that is credited is therefore new,
  and by the cardinality theorems `hashes` grows by as much as the set.

* **`ServiceProofs`** (`ServiceAssumption`, and a single instance as hypothesis
  of each theorem): `OneThread`, `ThreadsAreJoinedOnce`, `StopsStand`, for any
  number of pthread identities. `CoreInv` says who may be where: a thread exists
  only while `g_running`, `g_thread_started`, a starter between its two stores or
  a joiner in progress accounts for it, and only one caller starts. That last
  part comes from `MonitorInv`: whoever is inside the native start holds the
  instance's monitor. `btcrig_core_start` alone does not give
  `OneCoreThread` to concurrent starters (the window at line 600).

* **`StratumProofs`** (`StratumAssumption`: positive table and queue, "unset" is
  neither an extranonce nor a job): `SubmitsAlwaysAddUp`, `PendingIsAlwaysOwed`,
  `TheJobIsTheLastAskedFor`, `SubmitsAreUnique`. `AccountInv` relates the pending
  table, its counter and the answers owed; `JobInv` says that the job was built
  from what was set last (of the code as it is; the theorem leaves open whether a
  difficulty set since the last notify is in it), which needs that `subscribe` was
  answered before the first notify; `UniqueInv` says that every job has an extranonce2 of its own
  below the counter, so that equal nonces of two rebuilt jobs differ.

* **`InputProofs`** (`InputAssumption`: positive sizes): `EndAlwaysComesLast` and
  the refinement `InputIsLineFeed`. The inductive invariant says that the lines
  given, the line buffer, the chunks and what the reader has got but not stored
  are consecutive stretches of the stream (`StreamInv`, `QueueInv`), and that the
  line buffer holds no line feed (`LineInv`). `LeastNat`
  is well-ordering: the first line feed of a stretch, and in `StratumProofs` the
  first free slot of the pending table.

* **`RunProofs`** (`RunAssumption`): `TotalsAreAlwaysSums`, for any counters:
  `SumInv` says that while a session is open the base is what the earlier ones
  came to. `DonationsAreEarned`: `PhaseInv` says that a donation phase that has
  begun is paid for by the user phase before it.

* **`XmrigProofs`** (`XmrigAssumption`): `ThereIsOneMiner`, `StopsEndMining`,
  `CalibrationsAreMeasured`, for any number of children, deaths of the app and numbers of
  threads. `ChildInv` says that every child is the one `XmrigRunner.process` names,
  except the orphans of an earlier life before the first sweep, and that a start
  past its check holds the class's monitor while no child is there; without the
  last part two starts could each find nothing to sweep. `StopInv` says that a
  child nobody wants always has a thread, or an `onDestroy` that is due, whose next
  look ends it. `CalibrationInv` says that placeholders are marked as measured only
  between the benchmark's two writes, or after a start that read them there, and
  that a start that found a calibration finds its flag when it reads again: else it
  would mark the placeholders of another start as measured.

* **`OpenCLProofs`** (`OpenCLAssumption`: positive sizes; `DataAssumption`:
  configurations and machines are what the parser and the runtime can return):
  `NothingIsLeftBehind`, for any number of devices and any sequence of failures:
  `LeakInv` says for each place of the creation what the handle may already
  hold, and the runtime's count of live objects is the number of handles that
  hold one (`HeldOfAppend` and the lemmas beside it). `ProgramsAreWhole`:
  `WholeInv` says that only the modern backend is given a kernel that calls its
  functions. `ScansAreExact`: `ScanInv` says that a handle with a kernel is
  `Ready`, that is, its kernel takes as many nonces per work item as the host
  counts on, whatever forced, default or fallback choice led to it, and that a
  device that mines has atomics or was tested with the kernel that needs none
  (`Trusted`; the self-test has more winners than one slot). Then the rounded-up
  work items leave no nonce out (`ItemsCover`), every winner is the hit of one
  item (`HitsAreWinners`), and what is handed over is as many of them as
  `max_results` allows: by the counted buffer where increments are atomic, by
  rank where each nonce has a slot (`FlaggedIsExact`, over the lemmas on ranks).

* **`ConfigProofs`** (`ConfigAssumption`: a processor at least, the percentages
  the page offers, typed texts; `AbsentAssumption`: "absent" is no value):
  `SavedTextsStay`, `EnsureIsEnough` and `MinerObeysPage`, for any texts typed
  into the editor, any difficulties on the page and any number of saves, kills and
  failing writes. The defaults come back only for a text in which `hasPool` finds
  no pool, as typed or as rewritten, and for one that a kill or a failing write
  lost. `PlaceInv` says where the main thread can be and that nobody else
  touches the file; `EnsuredInv` that past `ensure` either its own write has failed
  or the text names a pool and another migration would change nothing, which needs
  `MigratedTwice`: migrating is idempotent, so a file that is migrated at every
  look stays within one migration of what was saved (`Remains`). `LaunchInv` says
  that between the read and the launch the file does not change, unless it is a
  text that fades: for it the defaults may come in between. `PageInv` says that a
  file not typed by hand is `Written`: it holds every key `writeBasic` sets,
  which makes the defaults of the two readers irrelevant (`ReadersAgree`), and it
  `Keeps` the user's choice through the rewrites that a start does
  (`StoredAgainKeeps`). All three are theorems of `Spec`, in which the main
  thread is alone on the file; in `WatchedSpec`, with the notification thread,
  `SavedStays` is false (run `configSaved`).

Every safety property of a passing run is thus stated by a theorem. Only
model-checked are the liveness properties and the three violations. Out of
TLAPS's reach here: liveness under fairness, ENABLED, induction over data, and
RECURSIVE operators (none is used).

## 6. Findings

* **Start against stop** (`btcrig_core_full.c:600`). `g_thread_started` is set
  after `pthread_create` without the lock. A stop that runs its last section in
  that window clears `g_running` of the new thread; the core mines with
  "started, not running", the next start joins it inside the service's monitor
  and never returns, and the main thread blocks in `markStopping`. The stop may be
  the one with which recovery takes its own start back: a tap to start, then one to
  stop, beside a recovery are enough, as is a start whose configuration cannot be
  read; the activity's own stop thread opens the same window. Seen by `serviceTap`,
  whose constants leave that thread out. `MainThreadIsFree` excludes exactly the
  runs in which `g_running` does not tell of a core thread that goes on.
* **Settings overwritten** (`BtcrigConfig.java:49`). A save truncates the file and
  fills it; the notification thread's `ensure` in between finds no pool and
  writes the defaults over what the user has just saved. Seen by `configSaved`.
* **Loader without a lock** (`opencl_loader.c:212`). Of two threads that load the
  OpenCL library at once, one is told it is there while the table of functions
  is empty. Seen by `openclLoad`.

One comment disagrees with the code beside it: `stratum.c:1152` says that a new
difficulty applies to the next notify, 1154-1157 rebuild the job with it at once.
Which of the two is meant cannot be told from the rest of the code, so
`MinesWhatPoolAsked` and its theorem allow the job either difficulty, the one at
the last notify or the one set last, and no run treats the case as a defect.

Observations met while modelling, for which no document says what should hold,
so that no run checks them:

* `miner.c:665` logs "scan failed; retrying", but the worker claims the next
  range: the failed one is lost for the job (`NonceAccounting` counts it as given
  up).
* `stratum.c:583`: on TLS `conn_wait_read` ignores its timeout and the session
  thread polls without pause. Time is abstract here.
* `btcrig_core_full.c:497`: without donation the retry counter is not reset by a
  session that worked. Line 543 overwrites the status that says why the core
  ended.
* `BtcrigConfig.java:271` looks for a pool in the first 8192 bytes only: a text
  that names its pool later is replaced by the defaults at the next look, and
  `migrateDefaults` can push a pool out of sight (`Fades`).
* `BtcrigService.java:36`: a start intent that arrives while the instance is
  stopping is ignored, after the tap has set `desired_running`.
* `XmrigRunner.java:136`: a start, an exception or the app's death between the two
  writes of a calibration leaves placeholder rates marked as measured.
* `btcrig_core_full.c:404, 458`: `donation_percent`, `tls_compat`,
  `donation.level` and `pools.difficulty` typed into the editor overrule what the
  page writes. One thread chosen together with the default pool is widened to
  all cores; a CPU switched on with no threads is shown as off and mines on all.
* `miner.c:954`: the handle that mines is built anew after the self-test; if that
  build falls back to another kernel, the new one mines untested.
* `BtcrigService.java:211`: the engine may change between the notification
  thread's read and its start; line 238 takes the wake lock after the second look
  at `stopping`. A recovery of a destroyed XMRig instance can stop a newer
  session's child, and the calibration's two writes can be split by a start.

## 7. Not modelled, and why

Bit-level hashing, OpenCL kernels' text and device arithmetic, sockets and JSON
syntax: data without the control these properties need. The benchmark and the
challenge drive the engine from one thread without a pool; what they add is a
256-entry list of proofs and an upload. CPU affinity and detection, statistics
printing, keyboard commands (no terminal on Android), notifications, log files
and their trimming, UI layout: I/O or pure functions. CUDA is not in the Android
build. XMRig itself is a submodule that is not in the tree. Time is abstract: a
delay or a timeout may end at any moment.

## 8. Plan

Done, in order: engine, its abstract feed and its proofs; core; service over
core; session over the feed; core thread; pool input; configuration; OpenCL
backend and loader; XMRig runner; proofs of service, core thread, input,
session, XMRig runner and OpenCL backend; the accounts of the engine; exact
scans; proofs of the configuration. Next:

1. The challenge: a bounded list of proofs between two collections.
2. A service instance destroyed while its threads still run, and its successor:
   the two have different monitors, so `OneCoreThread` loses its serialised
   starter; `Service` already takes the set of instances as a constant.
3. `LogFiles.trim`, `donation_phase_seconds` and `miner_format_extranonce2`
   against reference definitions.
