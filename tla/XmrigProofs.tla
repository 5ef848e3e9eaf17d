----------------------------- MODULE XmrigProofs -----------------------------
(* Theorems about the xmrig child, for any number of children and of deaths *)
(* of the app's process.                                                    *)
EXTENDS Xmrig, FiniteSetTheorems, TLAPS

-----------------------------------------------------------------------------
(* The inductive invariant.                                                 *)

(* Inside XmrigRunner.start, which holds the class's monitor.               *)
Holding == {"check2", "kill2", "read", "prepare", "write", "spawn"}

(* From the start intent to the end of onStartCommand.                      *)
Starting == Holding \cup {"go", "check1", "kill1", "start", "started", "failed"}

Places == Starting \cup
  {"idle", "openCheck", "openKill", "opened", "undo", "stopSelf", "mark", "destroy",
   "begin", "measure", "writePrepared", "writeResult", "complete", "finish"}

(* Inside startConfiguredCore, which holds the service's monitor.           *)
Inside == Holding \cup {"check1", "kill1", "start"}

Others == Threads \ {"main"}

(* Children of an earlier life of the app, before the first clean-up of     *)
(* this one: only the main thread has anything to do yet.                   *)
Orphaned ==
  /\ process = 0
  /\ ~opened /\ ~benchmarking /\ ~loop /\ ~ending /\ ~stopping
  /\ \A t \in Others : pc[t] = "idle"
  /\ pc["main"] \in {"idle", "openCheck", "openKill", "go", "check1", "kill1"}

(* Every other child is the one XmrigRunner.process names, and none is      *)
(* there while a start makes one.                                           *)
ChildInv ==
  /\ pc \in [Threads -> Places]
  /\ alive \subseteq Ids /\ process \in Ids \cup {0}
  /\ alive \subseteq {process} \/ Orphaned
  /\ \A t \in Threads : pc[t] \in Holding => monitor = t /\ process \notin alive
  /\ \A t \in {"main", "notify"} : pc[t] \in Inside => service = t

(* Recovery that has started a child, or found one, will look again.        *)
Recovering == \E t \in {"notify", "old"} : pc[t] \in {"started", "undo"}

(* A child that is not wanted is somebody's to end.                         *)
Owned ==
  \/ ending
  \/ pc["main"] \in Starting \cup {"mark"}
  \/ pc["stop"] = "undo"
  \/ pc["end"] = "undo"
  \/ Recovering

StopInv ==
  /\ alive # {} /\ ~desired => Orphaned \/ Owned
  /\ stopping => pc["main"] \notin Starting
  /\ stopping /\ pc["stop"] # "undo" /\ alive # {} => Recovering

XmrigInv == ChildInv /\ StopInv

-----------------------------------------------------------------------------
(* The steps, in groups.                                                    *)
Sweep ==
  \/ SweepCheck("main", "openCheck", "openKill", "opened")
  \/ SweepKill("main", "openKill", "opened")
  \/ \E t \in Starters :
       \/ SweepCheck(t, "check1", "kill1", "start") \/ SweepKill(t, "kill1", "start")
       \/ SweepCheck(t, "check2", "kill2", "read") \/ SweepKill(t, "kill2", "read")

StartStep ==
  \E t \in Starters :
    \/ Enter(t) \/ Start(t) \/ Read(t) \/ Prepare(t) \/ Write(t)
    \/ Spawned(t) \/ StartFails(t)

MainStep ==
  OpenActivity \/ Opened \/ StartIntent \/ StartEnds \/ StopIntent \/ MarkStopping \/ Destroy

BenchStep ==
  \/ Benchmark \/ BenchmarkBegins \/ Measured \/ WritePrepared
  \/ WriteResult \/ Complete \/ BenchmarkFails \/ BenchmarkEnds

RecoverStep == Recover \/ StopSelf \/ \E t \in Starters : RecoverEnds(t)

LEMMA StepCases ==
  ASSUME [Next]_vars
  PROVE  \/ Sweep \/ StartStep \/ MainStep \/ BenchStep \/ RecoverStep
         \/ (\E t \in Threads : Stop(t)) \/ Destroyed
         \/ (\E i \in Ids : ChildEnds(i)) \/ Watch \/ AppDies
         \/ UNCHANGED vars
BY DEF Next, Sweep, StartStep, MainStep, BenchStep, RecoverStep

LEMMA InvInit == Init => XmrigInv
<1> SUFFICES ASSUME Init PROVE XmrigInv
  OBVIOUS
<1>1. pc \in [Threads -> Places] /\ \A t \in Threads : pc[t] = "idle"
  BY DEF Init, Places
<1>2. alive = {} /\ process = 0 /\ ~stopping
  BY DEF Init
<1>3. QED
  BY <1>1, <1>2
  DEF XmrigInv, ChildInv, StopInv, Holding, Inside, Threads, Starters

-----------------------------------------------------------------------------
(* One step per group of actions: what it does to the one child, and who    *)
(* has to end it afterwards.                                                *)

(* XmrigRunner.stop ends the one child there is.                            *)
LEMMA StopEndsTheChild ==
  ASSUME ChildInv, NEW t \in Threads, Stop(t)
  PROVE  /\ alive' = {} /\ process' = 0
         /\ pc' \in [Threads -> Places] /\ pc[t] = "undo"
         /\ pc'[t] \in {"stopSelf", "idle"}
         /\ \A u \in Threads \ {t} : pc'[u] = pc[u]
<1>1. pc[t] = "undo" /\ pc' \in [Threads -> Places]
      /\ pc'[t] \in {"stopSelf", "idle"}
      /\ \A u \in Threads \ {t} : pc'[u] = pc[u]
  BY DEF Stop, ChildInv, Goto, Places
<1>2. ~Orphaned
  BY <1>1 DEF Orphaned, Others
<1>3. alive' = {} /\ process' = 0
  BY <1>2 DEF Stop, ChildInv
<1>4. QED
  BY <1>1, <1>3

(* What a dead app leaves behind are orphans.                               *)
LEMMA DeathLeavesOrphans ==
  ASSUME ChildInv, AppDies
  PROVE  /\ Orphaned' /\ alive' \subseteq Ids
         /\ pc' = [t \in Threads |-> "idle"]
<1>1. alive' \subseteq Ids
  BY DEF AppDies, ChildInv, Orphans, Fresh
<1>2. QED
  BY <1>1 DEF AppDies, Orphaned, Others, Threads, Starters, Stoppers

LEMMA InvStep == XmrigInv /\ [Next]_vars => XmrigInv'
<1> SUFFICES ASSUME XmrigInv, [Next]_vars PROVE XmrigInv'
  OBVIOUS
<1> USE DEF XmrigInv, ChildInv, StopInv, Orphaned, Owned, Recovering, Places,
            Starting, Holding, Inside, Threads, Starters, Stoppers, Others, Ids, benchVars
<1>1. CASE Sweep
  <2>1. CASE SweepCheck("main", "openCheck", "openKill", "opened")
    BY <2>1 DEF SweepCheck, Goto, Free, Running, Refreshed, serviceVars
  <2>2. CASE SweepKill("main", "openKill", "opened")
    BY <2>2 DEF SweepKill, Goto, Stale, serviceVars
  <2>3. CASE \E t \in Starters : SweepCheck(t, "check1", "kill1", "start")
    BY <2>3 DEF SweepCheck, Goto, Free, Running, Refreshed, serviceVars
  <2>4. CASE \E t \in Starters : SweepKill(t, "kill1", "start")
    BY <2>4 DEF SweepKill, Goto, Stale, serviceVars
  <2>5. CASE \E t \in Starters : SweepCheck(t, "check2", "kill2", "read")
    BY <2>5 DEF SweepCheck, Goto, Free, Running, Refreshed, serviceVars
  <2>6. CASE \E t \in Starters : SweepKill(t, "kill2", "read")
    BY <2>6 DEF SweepKill, Goto, Stale, serviceVars
  <2>7. QED
    BY <1>1, <2>1, <2>2, <2>3, <2>4, <2>5, <2>6 DEF Sweep
<1>2. CASE StartStep
  <2>1. PICK t \in Starters :
          \/ Enter(t) \/ Start(t) \/ Read(t) \/ Prepare(t) \/ Write(t)
          \/ Spawned(t) \/ StartFails(t)
    BY <1>2 DEF StartStep
  <2>2. CASE Enter(t)
    BY <2>2 DEF Enter, Goto, Free, Running, Refreshed, serviceVars
  <2>3. CASE Start(t)
    BY <2>3 DEF Start, Goto, Free, Running, Refreshed, Leave, serviceVars
  <2>4. CASE Read(t)
    BY <2>4 DEF Read, Goto, children, serviceVars
  <2>5. CASE Write(t)
    BY <2>5 DEF Write, Goto, children, serviceVars
  <2>6. CASE Spawned(t)
    <3>1. alive = {}
      BY <2>6 DEF Spawned
    <3>2. alive' \subseteq {process'} /\ process' \in Ids
      BY <2>6, <3>1 DEF Spawned, Fresh
    <3>3. QED
      BY <2>6, <3>2 DEF Spawned, Goto, Leave, serviceVars
  <2>7. CASE StartFails(t)
    BY <2>7 DEF StartFails, Goto, Leave, serviceVars
  <2>8. CASE Prepare(t)
    BY <2>8 DEF Prepare, Goto, children, serviceVars
  <2>9. QED
    BY <2>1, <2>2, <2>3, <2>4, <2>5, <2>6, <2>7, <2>8
<1>3. CASE MainStep
  <2>1. CASE OpenActivity
    BY <2>1 DEF OpenActivity, Goto, children, serviceVars
  <2>2. CASE Opened
    BY <2>2 DEF Opened, Goto, children, serviceVars
  <2>3. CASE StartIntent
    BY <2>3 DEF StartIntent, Goto, children, serviceVars
  <2>4. CASE StartEnds
    BY <2>4 DEF StartEnds, Goto, children, serviceVars
  <2>5. CASE StopIntent
    BY <2>5 DEF StopIntent, Goto, children, serviceVars
  <2>6. CASE MarkStopping
    BY <2>6 DEF MarkStopping, Goto, children, serviceVars
  <2>7. CASE Destroy
    BY <2>7 DEF Destroy, Goto, children, serviceVars
  <2>8. QED
    BY <1>3, <2>1, <2>2, <2>3, <2>4, <2>5, <2>6, <2>7 DEF MainStep
<1>4. CASE BenchStep
  <2>1. CASE Benchmark
    BY <2>1 DEF Benchmark, Goto, Free, Running, Refreshed, serviceVars
  <2>2. CASE BenchmarkBegins
    BY <2>2 DEF BenchmarkBegins, Goto, children, serviceVars
  <2>3. CASE Measured
    BY <2>3 DEF Measured, Goto, children, serviceVars
  <2>4. CASE WritePrepared
    BY <2>4 DEF WritePrepared, Goto, children, serviceVars
  <2>5. CASE WriteResult
    BY <2>5 DEF WriteResult, Goto, children, serviceVars
  <2>6. CASE Complete
    BY <2>6 DEF Complete, Goto, children, serviceVars
  <2>7. CASE BenchmarkFails
    BY <2>7 DEF BenchmarkFails, Goto, children, serviceVars
  <2>8. CASE BenchmarkEnds
    BY <2>8 DEF BenchmarkEnds, Goto, children, serviceVars
  <2>9. QED
    BY <1>4, <2>1, <2>2, <2>3, <2>4, <2>5, <2>6, <2>7, <2>8 DEF BenchStep
<1>5. CASE RecoverStep
  <2>1. CASE Recover
    BY <2>1 DEF Recover, Free, Running, Refreshed, Goto, serviceVars
  <2>2. CASE StopSelf
    BY <2>2 DEF StopSelf, children, Goto, serviceVars
  <2>3. CASE \E t \in Starters : RecoverEnds(t)
    BY <2>3 DEF RecoverEnds, Withdrawn, children, Goto, serviceVars
  <2>4. QED
    BY <1>5, <2>1, <2>2, <2>3 DEF RecoverStep
<1>6. CASE \E t \in Threads : Stop(t)
  <2>1. PICK t \in Threads : Stop(t)
    BY <1>6
  <2>2. UNCHANGED <<monitor, service, stopping>>
    BY <2>1 DEF Stop, serviceVars
  <2>3. QED
    BY <2>1, <2>2, StopEndsTheChild
<1>7. CASE Destroyed
  <2>1. pc' \in [Threads -> Places]
    BY <1>7 DEF Destroyed
  <2>2. /\ pc'["main"] = "idle" /\ pc'["notify"] = "idle" /\ pc'["stop"] = "idle"
        /\ pc'["old"] = pc["notify"] /\ pc'["bench"] = pc["bench"]
        /\ pc'["end"] = IF stopping /\ pc["stop"] # "undo" THEN "idle" ELSE "undo"
    BY <1>7 DEF Destroyed
  <2>3. pc["notify"] \notin Holding
    BY <1>7 DEF Destroyed
  <2>4. QED
    BY <1>7, <2>1, <2>2, <2>3 DEF Destroyed, children
<1>8. CASE (\E i \in Ids : ChildEnds(i)) \/ Watch
  <2>1. CASE \E i \in Ids : ChildEnds(i)
    BY <2>1 DEF ChildEnds, threads, serviceVars
  <2>2. CASE Watch
    BY <2>2 DEF Watch, Running, threads, serviceVars
  <2>3. QED
    BY <1>8, <2>1, <2>2
<1>9. CASE AppDies
  <2>1. Orphaned' /\ alive' \subseteq Ids /\ pc' = [t \in Threads |-> "idle"]
    BY <1>9, DeathLeavesOrphans
  <2>2. process' = 0 /\ ~stopping'
    BY <1>9 DEF AppDies
  <2>3. QED
    BY <2>1, <2>2
<1>10. CASE UNCHANGED vars
  BY <1>10 DEF vars, threads, children, serviceVars
<1>11. QED
  BY <1>1, <1>2, <1>3, <1>4, <1>5, <1>6, <1>7, <1>8, <1>9, <1>10, StepCases

-----------------------------------------------------------------------------
(* The calibration.                                                         *)

Texts == [flag : BOOLEAN, perf : {"none", "placeholder", "measured"}]

Sound(text) == text.flag => text.perf # "placeholder"

(* Only between its two writes does the benchmark leave placeholders marked *)
(* as measured, and a start that reads them there leaves a trace. A start   *)
(* that found a calibration will find the flag when it reads again.         *)
CalibrationInv ==
  /\ file \in Texts /\ root \in [Threads -> Texts]
  /\ disturbed \in BOOLEAN
  /\ pc["bench"] = "writePrepared" => root["bench"].flag
  /\ \A t \in Starters : pc[t] = "prepare" /\ root[t].flag => file.flag
  /\ (~disturbed /\ pc["bench"] # "writeResult") =>
       Sound(file) /\ \A t \in Starters : pc[t] = "write" => Sound(root[t])

(* What a start prepares is as sound as what it read, if the flag it found  *)
(* is still there.                                                          *)
LEMMA PreparedIsSound ==
  ASSUME file \in Texts, NEW calibrated \in BOOLEAN, NEW fixed \in BOOLEAN
  PROVE  /\ Prepared(file, calibrated, fixed) \in Texts
         /\ Prepared(file, calibrated, fixed).flag = calibrated
         /\ Sound(file) /\ (calibrated => file.flag)
              => Sound(Prepared(file, calibrated, fixed))
BY DEF Prepared, Sound, Texts

LEMMA CalibrationStep == XmrigInv /\ CalibrationInv /\ [Next]_vars => CalibrationInv'
<1> SUFFICES ASSUME XmrigInv, CalibrationInv, [Next]_vars PROVE CalibrationInv'
  OBVIOUS
<1>0. /\ pc \in [Threads -> Places]
      /\ pc["notify"] \in {"prepare", "write"} => service = "notify"
      /\ \A t \in Starters : pc[t] \in {"prepare", "write"} => monitor = t
  BY DEF XmrigInv, ChildInv, Inside, Holding, Threads
<1> USE DEF CalibrationInv, Threads, Starters, Stoppers, calibration
<1>1. ASSUME NEW t \in Starters, Read(t) PROVE CalibrationInv'
  <2>1. PICK n \in ThreadCounts :
          root' = [root EXCEPT ![t] = [flag |-> ~NeedsBenchmark(n), perf |-> "none"]]
    BY <1>1 DEF Read
  <2>2. (~NeedsBenchmark(n)) \in BOOLEAN /\ (~NeedsBenchmark(n) => file.flag)
    <3>1. ~NeedsBenchmark(n) => file.flag
      BY DEF NeedsBenchmark, Performance
    <3>2. QED
      BY <3>1
  <2>3. root' \in [Threads -> Texts] /\ (root'[t].flag => file.flag)
        /\ \A u \in Threads \ {t} : root'[u] = root[u]
    BY <2>1, <2>2 DEF Texts
  <2>4. pc'[t] = "prepare" /\ \A u \in Threads \ {t} : pc'[u] = pc[u]
    BY <1>0, <1>1 DEF Read, Goto
  <2>5. QED
    BY <1>0, <1>1, <2>3, <2>4 DEF Read
<1>20. ASSUME NEW t \in Starters, Prepare(t) PROVE CalibrationInv'
  <2>1. PICK fixed \in BOOLEAN :
          root' = [root EXCEPT ![t] = Prepared(file, root[t].flag, fixed)]
    BY <1>20 DEF Prepare
  <2>2. root[t].flag \in BOOLEAN /\ (root[t].flag => file.flag)
    BY <1>20 DEF Prepare, Texts
  <2>3. root' \in [Threads -> Texts] /\ (Sound(file) => Sound(root'[t]))
        /\ \A u \in Threads \ {t} : root'[u] = root[u]
    BY <2>1, <2>2, PreparedIsSound
  <2>4. pc'[t] = "write" /\ \A u \in Threads \ {t} : pc'[u] = pc[u]
    BY <1>0, <1>20 DEF Prepare, Goto
  <2>5. QED
    BY <1>0, <1>20, <2>3, <2>4 DEF Prepare
<1>2. ASSUME NEW t \in Starters, Write(t) PROVE CalibrationInv'
  <2>1. file' = root[t] /\ file' \in Texts /\ root' \in [Threads -> Texts]
    BY <1>0, <1>2 DEF Write, Empty, Texts
  <2>2. \A u \in Starters : pc'[u] = "write" => pc[u] = "write" /\ root'[u] = root[u]
    BY <1>0, <1>2 DEF Write, Goto
  <2>3. pc'["bench"] = pc["bench"] /\ pc[t] = "write" /\ root'["bench"] = root["bench"]
        /\ \A u \in Starters : pc'[u] # "prepare"
    BY <1>0, <1>2 DEF Write, Goto
  <2>4. QED
    BY <1>0, <1>2, <2>1, <2>2, <2>3 DEF Write
<1>3. CASE Measured
  BY <1>0, <1>3, PreparedIsSound DEF Measured, Goto
<1>4. CASE WritePrepared
  BY <1>0, <1>4 DEF WritePrepared, Goto, Empty, Texts
<1>5. CASE WriteResult
  BY <1>0, <1>5 DEF WriteResult, Goto, Texts, Sound
<1>6. CASE BenchmarkFails
  BY <1>0, <1>6 DEF BenchmarkFails, Goto, Empty, Texts
<1>7. CASE AppDies
  BY <1>0, <1>7 DEF AppDies, Storing, Empty, Texts
<1>8. ASSUME NEW t \in Starters, StartFails(t) PROVE CalibrationInv'
  BY <1>0, <1>8 DEF StartFails, Goto, Empty, Texts
<1>9. CASE Complete
  BY <1>0, <1>9 DEF Complete, Goto
<1>10. ASSUME UNCHANGED calibration,
              (pc'["bench"] = "writeResult") <=> (pc["bench"] = "writeResult"),
              pc'["bench"] = "writePrepared" => pc["bench"] = "writePrepared",
              \A t \in Starters : pc'[t] \in {"prepare", "write"} => pc'[t] = pc[t]
       PROVE  CalibrationInv'
  BY <1>0, <1>10
<1>11. CASE Sweep
  BY <1>0, <1>10, <1>11 DEF Sweep, SweepCheck, SweepKill, Goto
<1>12. ASSUME NEW t \in Starters, Enter(t) \/ Start(t) \/ Spawned(t) PROVE CalibrationInv'
  BY <1>0, <1>10, <1>12 DEF Enter, Start, Spawned, Goto
<1>13. CASE MainStep
  BY <1>0, <1>10, <1>13 DEF MainStep, OpenActivity, Opened, StartIntent, StartEnds,
                      StopIntent, MarkStopping, Destroy, Goto
<1>14. CASE Benchmark \/ BenchmarkBegins \/ BenchmarkEnds
  BY <1>0, <1>10, <1>14 DEF Benchmark, BenchmarkBegins, BenchmarkEnds, Goto
<1>15. CASE RecoverStep
  BY <1>0, <1>10, <1>15 DEF RecoverStep, Recover, StopSelf, RecoverEnds, Goto
<1>16. CASE \E t \in Threads : Stop(t)
  BY <1>0, <1>10, <1>16 DEF Stop, Goto
<1>17. CASE Destroyed
  <2>1. pc["notify"] \notin {"prepare", "write"}
    BY <1>0, <1>17 DEF Destroyed
  <2>2. QED
    BY <1>0, <1>10, <1>17, <2>1 DEF Destroyed
<1>18. CASE (\E i \in Ids : ChildEnds(i)) \/ Watch \/ UNCHANGED vars
  BY <1>0, <1>10, <1>18 DEF ChildEnds, Watch, vars, threads
<1>19. QED
  BY <1>0, <1>1, <1>2, <1>3, <1>4, <1>5, <1>6, <1>7, <1>8, <1>9, <1>11, <1>12, <1>13,
     <1>14, <1>15, <1>16, <1>17, <1>18, <1>20, StepCases DEF StartStep, BenchStep

-----------------------------------------------------------------------------
(* The theorems.                                                            *)

(* However starts, recoveries, stops, clean-ups and deaths of the app       *)
(* interleave, there is never a second child that mines but among those     *)
(* that a dead app left: XmrigRunner.start makes one only inside the        *)
(* class's monitor and after it has looked.                                 *)
THEOREM ThereIsOneMiner == Spec => []OneMiner
<1>1. XmrigInv => OneMiner
  <2> SUFFICES ASSUME XmrigInv, ~Orphaned PROVE ~(Cardinality(alive) > 1)
    BY DEF OneMiner, Orphaned
  <2>1. alive = {} \/ alive = {process}
    BY DEF XmrigInv, ChildInv
  <2>2. Cardinality(alive) \in {0, 1}
    BY <2>1, FS_EmptySet, FS_Singleton
  <2>3. QED
    BY <2>2
<1>2. QED
  BY <1>1, InvInit, InvStep, PTL DEF Spec

(* A child that nobody wants any more always has a thread that will end it. *)
THEOREM StopsEndMining == Spec => []StopEndsMining
<1>1. XmrigInv => StopEndsMining
  BY DEF XmrigInv, StopInv, StopEndsMining, Orphaned, Owned, Recovering, Threads,
         Starters, Stoppers, Starting, Holding
<1>2. QED
  BY <1>1, InvInit, InvStep, PTL DEF Spec

(* The placeholders are never taken for a calibration of this build unless  *)
(* the two writes that store one were disturbed.                            *)
THEOREM CalibrationsAreMeasured == Spec => []CalibrationIsMeasured
<1>1. Init => CalibrationInv
  <2> SUFFICES ASSUME Init PROVE CalibrationInv
    OBVIOUS
  <2>1. Empty \in Texts /\ Sound(Empty)
    BY DEF Empty, Texts, Sound
  <2>2. file = Empty /\ root = [t \in Threads |-> Empty] /\ ~disturbed
        /\ \A t \in Threads : pc[t] = "idle"
    BY DEF Init
  <2>3. disturbed \in BOOLEAN
    BY DEF Init
  <2>4. QED
    BY <2>1, <2>2, <2>3 DEF CalibrationInv, Threads, Starters
<1>2. XmrigInv /\ CalibrationInv => CalibrationIsMeasured
  BY DEF CalibrationInv, CalibrationIsMeasured, Sound, Performance, Storing
<1>3. QED
  BY <1>1, <1>2, InvInit, InvStep, CalibrationStep, PTL DEF Spec
=============================================================================
