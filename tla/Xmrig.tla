------------------------------- MODULE Xmrig --------------------------------
(* XmrigRunner.java and the xmrig branch of BtcrigService.java: one xmrig    *)
(* child process that mines, started, stopped, watched and restarted by      *)
(* several threads; a second child for the algorithm benchmark; the file in  *)
(* which the benchmark leaves its calibration; children that outlive the app *)
(* when its process dies, where the benchmark's goes on to mine.             *)
(*                                                                           *)
(* The threads that start the miner are the main thread (onStartCommand, and *)
(* onCreate's clean-up), the notification thread, and "old", the             *)
(* notification thread of a service instance that has been destroyed         *)
(* meanwhile. "stop" is the thread of a stop that the user asked for, "end"  *)
(* that of a destroyed instance. Of "old" and "end" there is one at a time.  *)
(* An intent is delivered as it is sent, and the activity's own stop thread  *)
(* is left out: Service has both.                                            *)
EXTENDS Integers, FiniteSets

CONSTANTS
  MaxChildren,   (* bound of the model: miners alive or remembered at once   *)
  ThreadCounts   (* settings of the number of threads                        *)

ASSUME XmrigAssumption ==
  /\ MaxChildren \in Nat
  /\ "none" \notin ThreadCounts

VARIABLES
  pc,            (* what each thread does next                               *)
  alive,         (* the children that mine                                   *)
  process,       (* XmrigRunner.process, 0 for null                          *)
  benchmarking,
  calibrating,   (* the benchmark's child is alive                           *)
  monitor,       (* the thread inside start, the class's monitor             *)
  service,       (* the thread inside startConfiguredCore, the service's     *)
  stopping, loop, desired,   (* of BtcrigService; desired is a preference    *)
  ending,        (* stopSelf has been called, onDestroy is due               *)
  opened,        (* the activity has been created in this process            *)
  file,          (* xmrig-config.json: btcrig-calibrated and algo-perf       *)
  marker,        (* the number of threads in the preference "benchmark", if  *)
                 (* that names this build                                    *)
  root,          (* what start and benchmark have read of the file           *)
  disturbed      (* history: a start, an exception or a crash fell between   *)
                 (* the two writes in which the benchmark stores its result  *)

threads  == <<pc, monitor, service>>
children == <<alive, process>>
benchVars == <<benchmarking, calibrating>>
serviceVars == <<stopping, loop, desired, ending, opened>>
calibration == <<file, marker, root, disturbed>>
vars == <<threads, children, benchVars, serviceVars, calibration>>

Starters == {"main", "notify", "old"}
Stoppers == {"stop", "end"}
Threads  == Starters \cup Stoppers \cup {"bench"}
Ids      == 1 .. MaxChildren
Empty    == [flag |-> FALSE, perf |-> "none"]

Init ==
  /\ pc = [t \in Threads |-> "idle"] /\ monitor = "free" /\ service = "free"
  /\ alive = {} /\ process = 0
  /\ benchmarking = FALSE /\ calibrating = FALSE
  /\ stopping = FALSE /\ loop = FALSE /\ desired = FALSE
  /\ ending = FALSE /\ opened = FALSE
  /\ file = Empty /\ marker = "none"
  /\ root = [t \in Threads |-> Empty] /\ disturbed = FALSE

Goto(t, where) == pc' = [pc EXCEPT ![t] = where]

-----------------------------------------------------------------------------
(* Pieces of XmrigRunner.                                                   *)

Running == process \in alive

(* The name of a new child: the least that is not in use.                   *)
Fresh(used) == {i \in Ids \ used : 1 .. i - 1 \subseteq used}

(* isRunning, under the class's monitor: a process that ended is forgotten. *)
Free(t)   == monitor \in {"free", t}
Refreshed == IF Running THEN process ELSE 0

(* Mutant of Stale: only the child this process knows of.                   *)
StaleKnown == {process} \cap alive

(* The children whose command line names libxmrig.                          *)
Stale == alive

(* Mutant of Performance: the flag is not looked at.                        *)
PerformanceAnyway(f) == f.perf

(* What the benchmark has measured, if the file says that it has.           *)
Performance(f) == IF f.flag THEN f.perf ELSE "none"

NeedsBenchmark(n) == marker # n \/ Performance(file) = "none"

(* prepareConfig.                                                           *)
Prepared(r, calibrated, fixed) ==
  [flag |-> calibrated,
   perf |-> IF fixed THEN "none" ELSE IF calibrated THEN r.perf ELSE "placeholder"]

(* The benchmark stores its result in two rounds of read and write.         *)
Storing == pc["bench"] \in {"writePrepared", "writeResult"}

-----------------------------------------------------------------------------
(* cleanupStaleProcess, on a thread that goes on at "next": the check, and  *)
(* the kills some time after it.                                            *)
SweepCheck(t, from, kills, next) ==
  /\ pc[t] = from /\ Free(t)
  /\ process' = Refreshed
  /\ Goto(t, IF Running \/ benchmarking THEN next ELSE kills)
  /\ UNCHANGED <<monitor, service, alive, benchVars, serviceVars, calibration>>

SweepKill(t, kills, next) ==
  /\ pc[t] = kills
  /\ alive' = alive \ Stale
  /\ calibrating' = FALSE
  /\ Goto(t, next)
  /\ UNCHANGED <<monitor, service, process, benchmarking, serviceVars,
                 calibration>>

(* onCreate of the activity: a clean-up on the main thread.                 *)
OpenActivity ==
  /\ pc["main"] = "idle"
  /\ Goto("main", "openCheck")
  /\ UNCHANGED <<monitor, service, children, benchVars, serviceVars, calibration>>

Opened ==
  /\ pc["main"] = "opened"
  /\ opened' = TRUE
  /\ Goto("main", "idle")
  /\ UNCHANGED <<monitor, service, children, benchVars, stopping, loop, desired,
                 ending, calibration>>

-----------------------------------------------------------------------------
(* startConfiguredCore and start, on a starter.                             *)

(* onStartCommand, for the user or, after a crash, for a sticky service.    *)
StartIntent ==
  /\ pc["main"] = "idle" /\ ~stopping
  /\ opened \/ desired
  /\ Goto("main", "go")
  /\ UNCHANGED <<monitor, service, children, benchVars, serviceVars, calibration>>

(* recoverCoreIfNeeded, up to its decision.                                 *)
Recover ==
  /\ pc["notify"] = "idle" /\ loop /\ ~stopping /\ desired
  /\ Free("notify") /\ ~Running
  /\ process' = Refreshed
  /\ Goto("notify", "go")
  /\ UNCHANGED <<monitor, service, alive, benchVars, serviceVars, calibration>>

(* The service's monitor; a destroyed instance has its own.                 *)
Enter(t) ==
  /\ pc[t] = "go" /\ Free(t)
  /\ t = "old" \/ service = "free"
  /\ process' = Refreshed
  /\ service' = IF Running \/ t = "old" THEN service ELSE t
  /\ Goto(t, IF Running THEN "started" ELSE "check1")
  /\ UNCHANGED <<monitor, alive, benchVars, serviceVars, calibration>>

Leave(t) == service' = IF service = t THEN "free" ELSE service

(* start takes the class's monitor and looks again.                         *)
Start(t) ==
  /\ pc[t] = "start" /\ Free(t)
  /\ process' = Refreshed
  /\ IF Running
     THEN Goto(t, "started") /\ Leave(t) /\ UNCHANGED monitor
     ELSE Goto(t, "check2") /\ monitor' = t /\ UNCHANGED service
  /\ UNCHANGED <<alive, benchVars, serviceVars, calibration>>

(* needsBenchmark, for the thread count of the settings.                    *)
Read(t) ==
  /\ pc[t] = "read"
  /\ \E n \in ThreadCounts :
       root' = [root EXCEPT ![t] = [flag |-> ~NeedsBenchmark(n), perf |-> "none"]]
  /\ Goto(t, "prepare")
  /\ UNCHANGED <<monitor, service, children, benchVars, serviceVars, file, marker,
                 disturbed>>

(* prepareConfig reads the file again.                                      *)
Prepare(t) ==
  /\ pc[t] = "prepare"
  /\ \E fixed \in BOOLEAN :
       root' = [root EXCEPT ![t] = Prepared(file, root[t].flag, fixed)]
  /\ Goto(t, "write")
  /\ UNCHANGED <<monitor, service, children, benchVars, serviceVars, file, marker,
                 disturbed>>

Write(t) ==
  /\ pc[t] = "write"
  /\ file' = root[t]
  /\ root' = [root EXCEPT ![t] = Empty]
  /\ disturbed' = (disturbed \/ Storing)
  /\ Goto(t, "spawn")
  /\ UNCHANGED <<monitor, service, children, benchVars, serviceVars, marker>>

Spawned(t) ==
  /\ pc[t] = "spawn"
  /\ \E i \in Fresh(alive \cup {process}) :
       alive' = alive \cup {i} /\ process' = i
  /\ Goto(t, "started") /\ monitor' = "free" /\ Leave(t)
  /\ UNCHANGED <<benchVars, serviceVars, calibration>>

(* An exception on the way: no process, start returns false.                *)
StartFails(t) ==
  /\ pc[t] \in {"write", "spawn"}
  /\ process' = 0
  /\ root' = [root EXCEPT ![t] = Empty]
  /\ Goto(t, "failed") /\ monitor' = "free" /\ Leave(t)
  /\ UNCHANGED <<alive, benchVars, serviceVars, file, marker, disturbed>>

(* The rest of onStartCommand; a start that failed ends the service.        *)
StartEnds ==
  /\ pc["main"] \in {"started", "failed"}
  /\ desired' = (pc["main"] = "started")
  /\ loop' = (loop \/ pc["main"] = "started")
  /\ ending' = (ending \/ pc["main"] = "failed")
  /\ Goto("main", "idle")
  /\ UNCHANGED <<monitor, service, children, benchVars, stopping, opened, calibration>>

(* Mutant of Withdrawn: recovery does not look again after its start.       *)
WithdrawnNever(t) == FALSE

Withdrawn(t) == t = "old" \/ stopping \/ ~desired

(* The rest of recoverCoreIfNeeded: what was started after a stop goes.     *)
RecoverEnds(t) ==
  /\ t # "main" /\ pc[t] \in {"started", "failed"}
  /\ Goto(t, IF pc[t] = "started" /\ Withdrawn(t) THEN "undo" ELSE "idle")
  /\ UNCHANGED <<monitor, service, children, benchVars, serviceVars, calibration>>

-----------------------------------------------------------------------------
(* XmrigRunner.stop, from recovery and from a stop thread.                  *)
Stop(t) ==
  /\ pc[t] = "undo" /\ Free(t)
  /\ alive' = alive \ {process}
  /\ process' = 0
  /\ Goto(t, IF t = "stop" THEN "stopSelf" ELSE "idle")
  /\ UNCHANGED <<monitor, service, benchVars, serviceVars, calibration>>

StopSelf ==
  /\ pc["stop"] = "stopSelf"
  /\ ending' = TRUE
  /\ Goto("stop", "idle")
  /\ UNCHANGED <<monitor, service, children, benchVars, stopping, loop, desired, opened,
                 calibration>>

StopIntent ==
  /\ pc["main"] = "idle" /\ opened
  /\ desired' = FALSE /\ loop' = FALSE
  /\ Goto("main", "mark")
  /\ UNCHANGED <<monitor, service, children, benchVars, stopping, ending, opened,
                 calibration>>

(* markStopping waits for whoever is inside startConfiguredCore.            *)
MarkStopping ==
  /\ pc["main"] = "mark" /\ service = "free"
  /\ stopping' = TRUE
  /\ pc' = [pc EXCEPT !["main"] = "idle",
                      !["stop"] = IF stopping THEN @ ELSE "undo"]
  /\ UNCHANGED <<monitor, service, children, benchVars, loop, desired, ending, opened,
                 calibration>>

Destroy ==
  /\ pc["main"] = "idle" /\ ending
  /\ loop' = FALSE
  /\ Goto("main", "destroy")
  /\ UNCHANGED <<monitor, service, children, benchVars, stopping, desired, ending,
                 opened, calibration>>

(* The rest of onDestroy. What the next intent finds is a new instance; the *)
(* threads of this one go on by themselves.                                 *)
Destroyed ==
  /\ pc["main"] = "destroy" /\ service = "free"
  /\ pc["old"] = "idle" /\ pc["end"] = "idle"
  /\ stopping' = FALSE /\ ending' = FALSE
  /\ pc' = [pc EXCEPT !["main"] = "idle",
                      !["old"] = pc["notify"], !["notify"] = "idle",
                      !["end"] = IF stopping /\ pc["stop"] # "undo" THEN "idle" ELSE "undo",
                      !["stop"] = "idle"]
  /\ UNCHANGED <<monitor, service, children, benchVars, loop, desired, opened,
                 calibration>>

-----------------------------------------------------------------------------
(* benchmark, on its thread.                                                *)
Benchmark ==
  /\ pc["bench"] = "idle" /\ opened
  /\ Free("bench") /\ ~Running
  /\ process' = Refreshed
  /\ Goto("bench", "begin")
  /\ UNCHANGED <<monitor, service, alive, benchVars, serviceVars, calibration>>

(* From here on clean-ups keep away; one that looked before may still kill  *)
(* the second child, and the benchmark fails.                               *)
BenchmarkBegins ==
  /\ pc["bench"] = "begin"
  /\ benchmarking' = TRUE /\ calibrating' = TRUE
  /\ Goto("bench", "measure")
  /\ UNCHANGED <<monitor, service, children, serviceVars, calibration>>

(* The log says that the calibration is complete; prepareConfig reads.      *)
Measured ==
  /\ pc["bench"] = "measure"
  /\ \E fixed \in BOOLEAN :
       root' = [root EXCEPT !["bench"] = Prepared(file, TRUE, fixed)]
  /\ Goto("bench", "writePrepared")
  /\ disturbed' = (disturbed \/ \E t \in Starters : pc[t] = "write")
  /\ UNCHANGED <<monitor, service, children, benchVars, serviceVars, file, marker>>

WritePrepared ==
  /\ pc["bench"] = "writePrepared"
  /\ file' = root["bench"]
  /\ root' = [root EXCEPT !["bench"] = Empty]
  /\ Goto("bench", "writeResult")
  /\ UNCHANGED <<monitor, service, children, benchVars, serviceVars, marker, disturbed>>

(* savePerformance, which keeps nothing of these two fields.                *)
WriteResult ==
  /\ pc["bench"] = "writeResult"
  /\ file' = [flag |-> TRUE, perf |-> "measured"]
  /\ disturbed' = (disturbed \/ \E t \in Starters : pc[t] = "write")
  /\ Goto("bench", "complete")
  /\ UNCHANGED <<monitor, service, children, benchVars, serviceVars, marker, root>>

(* markBenchmarkComplete.                                                   *)
Complete ==
  /\ pc["bench"] = "complete"
  /\ marker' \in ThreadCounts
  /\ Goto("bench", "finish")
  /\ UNCHANGED <<monitor, service, children, benchVars, serviceVars, file, root,
                 disturbed>>

(* Its child ended early, ten minutes passed, or something threw.           *)
BenchmarkFails ==
  /\ pc["bench"] \in {"measure", "writePrepared", "writeResult"}
  /\ disturbed' = (disturbed \/ pc["bench"] = "writeResult")
  /\ root' = [root EXCEPT !["bench"] = Empty]
  /\ Goto("bench", "finish")
  /\ UNCHANGED <<monitor, service, children, benchVars, serviceVars, file, marker>>

BenchmarkEnds ==
  /\ pc["bench"] = "finish"
  /\ benchmarking' = FALSE /\ calibrating' = FALSE
  /\ Goto("bench", "idle")
  /\ UNCHANGED <<monitor, service, children, serviceVars, calibration>>

-----------------------------------------------------------------------------
(* Children, their watchers, and the app's process.                         *)
ChildEnds(i) ==
  /\ i \in alive
  /\ alive' = alive \ {i}
  /\ UNCHANGED <<threads, process, benchVars, serviceVars, calibration>>

(* The watch thread of the child that process names.                        *)
Watch ==
  /\ process # 0 /\ ~Running /\ monitor = "free"
  /\ process' = 0
  /\ UNCHANGED <<threads, alive, benchVars, serviceVars, calibration>>

(* The app's process dies; its children live on, and that of a benchmark    *)
(* mines once it has calibrated.                                            *)
Orphans ==
  IF calibrating THEN {alive \cup {i} : i \in Fresh(alive)} ELSE {alive}

AppDies ==
  /\ pc' = [t \in Threads |-> "idle"] /\ monitor' = "free" /\ service' = "free"
  /\ alive' \in Orphans
  /\ process' = 0 /\ benchmarking' = FALSE /\ calibrating' = FALSE
  /\ stopping' = FALSE /\ loop' = FALSE /\ ending' = FALSE /\ opened' = FALSE
  /\ root' = [t \in Threads |-> Empty] /\ disturbed' = (disturbed \/ Storing)
  /\ UNCHANGED <<desired, file, marker>>

Next ==
  \/ OpenActivity \/ Opened
  \/ SweepCheck("main", "openCheck", "openKill", "opened")
  \/ SweepKill("main", "openKill", "opened")
  \/ StartIntent \/ Recover \/ StartEnds
  \/ \E t \in Starters :
       \/ Enter(t) \/ Start(t) \/ Read(t) \/ Prepare(t) \/ Write(t)
       \/ Spawned(t) \/ StartFails(t)
       \/ SweepCheck(t, "check1", "kill1", "start") \/ SweepKill(t, "kill1", "start")
       \/ SweepCheck(t, "check2", "kill2", "read") \/ SweepKill(t, "kill2", "read")
       \/ RecoverEnds(t)
  \/ \E t \in Threads : Stop(t)
  \/ StopSelf \/ StopIntent \/ MarkStopping \/ Destroy \/ Destroyed
  \/ Benchmark \/ BenchmarkBegins \/ Measured \/ WritePrepared
  \/ WriteResult \/ Complete \/ BenchmarkFails \/ BenchmarkEnds
  \/ (\E i \in Ids : ChildEnds(i)) \/ Watch
  \/ AppDies

Spec == Init /\ [][Next]_vars

-----------------------------------------------------------------------------
(* Properties.                                                              *)

(* At most one xmrig mines, whichever threads start it.  Two can be left of *)
(* an app that died (a miner and the benchmark's child, which then mines);  *)
(* both are gone before this life of the app starts one or has opened.      *)
OneMiner ==
  Cardinality(alive) > 1 => process = 0 /\ ~opened

(* Once a stop of the user, or a start that failed, is through in an app    *)
(* that is open, and no thread is under way, no xmrig mines: one that       *)
(* recovery started past the stop is stopped by recovery or by onDestroy,   *)
(* one of an earlier life of the app was cleaned up.                        *)
StopEndsMining ==
  (opened /\ ~desired /\ ~ending /\ \A t \in Threads \ {"bench"} : pc[t] = "idle")
    => alive = {}

(* The placeholders written for a start without calibration are never taken *)
(* for a calibration of this build and thread count, unless a start, an     *)
(* exception or the app's death fell between the two writes that store a    *)
(* result.                                                                  *)
CalibrationIsMeasured ==
  (marker # "none" /\ ~Storing /\ ~disturbed) => Performance(file) # "placeholder"
=============================================================================
