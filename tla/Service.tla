------------------------------- MODULE Service -------------------------------
(***************************************************************************)
(* The foreground service over the native core: BtcrigService.java (engine *)
(* "btcrig") composed with CoreLifecycle.                                  *)
(*                                                                         *)
(* Android runs the activity, onStartCommand and onDestroy on the main     *)
(* thread; the intents the activity sends (ModernActivity.kt) wait until   *)
(* it is free.  Each service instance has a notification thread, which     *)
(* also restarts a core that ended, and a BTCRig-stop thread once it stops;*)
(* the activity has a thread of its own for the case that the stop intent  *)
(* cannot be sent.                                                         *)
(* An instance serialises its starts and markStopping with its own monitor *)
(* ("synchronized"); stops of the core are not serialised with anything.   *)
(***************************************************************************)
EXTENDS CoreLifecycle, Sequences

CONSTANTS
  Instances,         (* service objects Android may create, one after another *)
  MaxIntents,        (* bound: intents on their way to the service            *)
  StopIntentFails    (* whether startService(ACTION_STOP) may throw           *)

Main      == <<"main", 0>>
Activity  == <<"activity", 0>>
Notify(i) == <<"notify", i>>
StopT(i)  == <<"stop", i>>
Nobody    == <<"nobody", 0>>

ServiceStarters == {Main} \union {Notify(i) : i \in Instances}
ServiceStoppers == {Activity} \union {Notify(i) : i \in Instances}
                              \union {StopT(i) : i \in Instances}

ASSUME ServiceAssumption ==
  /\ Starters = ServiceStarters /\ Stoppers = ServiceStoppers
  /\ Instances \subseteq Nat \ {0}
  /\ MaxIntents \in Nat /\ StopIntentFails \in BOOLEAN

VARIABLES
  desired,     (* the desired_running preference                            *)
  alive,       (* Android's view of an instance                             *)
  stopping,
  loop,        (* notificationLoopRunning                                   *)
  wake,        (* wakeLock is held                                          *)
  selfStop,    (* stopSelf or stopService was called                        *)
  monitor,     (* who is inside a synchronized method                       *)
  mainAt,      (* what the main thread runs, and for which instance         *)
  notifyAt,    (* where each notification thread is                         *)
  notifyGot,   (* its local "started"                                       *)
  stopAt,      (* where each BTCRig-stop thread is                          *)
  fallback,    (* the activity's stop thread                                *)
  intents,     (* sent by the activity, not yet delivered                   *)
  capsule      (* what the status capsule does when it is tapped            *)

activityVars == <<fallback, intents, capsule>>
serviceVars == <<desired, alive, stopping, loop, wake, selfStop, monitor,
                 mainAt, notifyAt, notifyGot, stopAt, activityVars>>
allVars == <<coreVars, serviceVars>>

MainIdle == [at |-> "idle", inst |-> 0, stopSelf |-> FALSE]

ServiceInit ==
  /\ CoreInit
  /\ desired = FALSE
  /\ alive = [i \in Instances |-> "none"]
  /\ stopping = [i \in Instances |-> FALSE]
  /\ loop = [i \in Instances |-> FALSE]
  /\ wake = [i \in Instances |-> FALSE]
  /\ selfStop = [i \in Instances |-> FALSE]
  /\ monitor = [i \in Instances |-> Nobody]
  /\ mainAt = MainIdle
  /\ notifyAt = [i \in Instances |-> "none"]
  /\ notifyGot = [i \in Instances |-> FALSE]
  /\ stopAt = [i \in Instances |-> "none"]
  /\ fallback = "none"
  /\ intents = <<>>
  /\ capsule = "start"

(* An intent goes to the live instance; if there is none, Android creates   *)
(* the next one.                                                            *)
Receiver(i) ==
  \/ alive[i] = "live"
  \/ /\ alive[i] = "none"
     /\ \A k \in Instances : alive[k] # "live"
     /\ \A k \in Instances : k < i => alive[k] # "none"

MainRuns(i, place) == mainAt.at = place /\ mainAt.inst = i
MainGoto(i, place, self) ==
  mainAt' = [at |-> place, inst |-> i, stopSelf |-> self]

-----------------------------------------------------------------------------
(* The activity.  A tap writes desired_running itself and sends an intent; *)
(* while it stops, the capsule cannot be tapped.                           *)

UnchangedByActivity ==
  UNCHANGED <<alive, stopping, loop, wake, selfStop, monitor, mainAt, notifyAt,
              notifyGot, stopAt>>

Send(what) ==
  /\ Len(intents) < MaxIntents
  /\ intents' = Append(intents, what)

(* readUi: isRunning decides what the capsule offers.                       *)
CapsuleRead == IF running THEN "stop" ELSE "start"

TapStart ==
  /\ mainAt.at = "idle"
  /\ capsule = "start"
  /\ Send("start")
  /\ desired' = TRUE
  /\ capsule' = "stop"
  /\ UnchangedByActivity
  /\ UNCHANGED <<coreVars, fallback>>

(* startService(ACTION_STOP) threw: a thread stops the core, then calls     *)
(* stopService.                                                             *)
FallbackStops ==
  /\ StopIntentFails
  /\ fallback = "none"
  /\ CallStop(Activity)
  /\ fallback' = "wait"
  /\ UNCHANGED intents

TapStop ==
  /\ mainAt.at = "idle"
  /\ capsule = "stop"
  /\ \/ Send("stop") /\ UNCHANGED <<coreVars, fallback>>
     \/ FallbackStops
  /\ desired' = FALSE
  /\ capsule' = "stopping"
  /\ UnchangedByActivity

FallbackEnds ==
  /\ fallback = "wait"
  /\ Return(Activity)
  /\ fallback' = "none"
  /\ selfStop' = [i \in Instances |-> selfStop[i] \/ alive[i] = "live"]
  /\ UNCHANGED <<desired, alive, stopping, loop, wake, monitor, mainAt, notifyAt,
                 notifyGot, stopAt, intents, capsule>>

(* The polls of the core while it runs, or until it has stopped.            *)
RefreshUi ==
  /\ mainAt.at = "idle"
  /\ capsule' = IF capsule = "stopping" /\ running THEN "stopping" ELSE CapsuleRead
  /\ UnchangedByActivity
  /\ UNCHANGED <<coreVars, desired, fallback, intents>>

(* onCreate with maybeAutoStartMining: the setting auto_start, or           *)
(* desired_running of before, starts the service, if the settings are valid.*)
OpenActivity ==
  /\ mainAt.at = "idle"
  /\ \/ ~running /\ Send("start")
     \/ UNCHANGED intents
  /\ capsule' = CapsuleRead
  /\ UnchangedByActivity
  /\ UNCHANGED <<coreVars, desired, fallback>>

(* Android delivers the oldest intent once the main thread is free.         *)
Deliver(i, what) ==
  /\ mainAt.at = "idle"
  /\ intents # <<>> /\ Head(intents) = what
  /\ Receiver(i)
  /\ intents' = Tail(intents)
  /\ alive' = [alive EXCEPT ![i] = "live"]
  /\ UNCHANGED <<fallback, capsule>>

-----------------------------------------------------------------------------
(* onStartCommand without ACTION_STOP.                                     *)

StartIntent(i) ==
  /\ Deliver(i, "start")
  /\ IF stopping[i] THEN UNCHANGED mainAt ELSE MainGoto(i, "enter", FALSE)
  /\ UNCHANGED <<coreVars, desired, stopping, loop, wake, selfStop, monitor,
                 notifyAt, notifyGot, stopAt>>

(* The configuration cannot be read.                                        *)
ConfigFails(i) ==
  /\ MainRuns(i, "enter")
  /\ desired' = FALSE
  /\ selfStop' = [selfStop EXCEPT ![i] = TRUE]
  /\ mainAt' = MainIdle
  /\ UNCHANGED <<coreVars, alive, stopping, loop, wake, monitor, notifyAt,
                 notifyGot, stopAt, activityVars>>

(* startConfiguredCore enters the monitor and asks isRunning.               *)
MainEnters(i) ==
  /\ MainRuns(i, "enter")
  /\ monitor[i] = Nobody
  /\ IF running
     THEN /\ MainGoto(i, "started", FALSE)
          /\ UNCHANGED <<monitor, coreVars>>
     ELSE /\ MainGoto(i, "starting", FALSE)
          /\ monitor' = [monitor EXCEPT ![i] = Main]
          /\ CallStart(Main)
  /\ UNCHANGED <<desired, alive, stopping, loop, wake, selfStop, notifyAt,
                 notifyGot, stopAt, activityVars>>

MainStartReturns(i) ==
  /\ MainRuns(i, "starting")
  /\ Return(Main)
  /\ monitor' = [monitor EXCEPT ![i] = Nobody]
  /\ MainGoto(i, IF result[Main] THEN "started" ELSE "failed", FALSE)
  /\ UNCHANGED <<desired, alive, stopping, loop, wake, selfStop, notifyAt,
                 notifyGot, stopAt, activityVars>>

StartFailed(i) ==
  /\ MainRuns(i, "failed")
  /\ desired' = FALSE
  /\ wake' = [wake EXCEPT ![i] = FALSE]
  /\ selfStop' = [selfStop EXCEPT ![i] = TRUE]
  /\ mainAt' = MainIdle
  /\ UNCHANGED <<coreVars, alive, stopping, loop, monitor, notifyAt, notifyGot,
                 stopAt, activityVars>>

(* setDesiredRunning(true), acquireWakeLock, startNotificationLoop.         *)
StartSucceeded(i) ==
  /\ MainRuns(i, "started")
  /\ desired' = TRUE
  /\ wake' = [wake EXCEPT ![i] = TRUE]
  /\ loop' = [loop EXCEPT ![i] = TRUE]
  /\ notifyAt' = [notifyAt EXCEPT ![i] = IF @ \in {"none", "ended"} THEN "top" ELSE @]
  /\ mainAt' = MainIdle
  /\ UNCHANGED <<coreVars, alive, stopping, selfStop, monitor, notifyGot, stopAt,
                 activityVars>>

-----------------------------------------------------------------------------
(* ACTION_STOP, and onDestroy.                                              *)

StopIntent(i) ==
  /\ Deliver(i, "stop")
  /\ desired' = FALSE
  /\ loop' = [loop EXCEPT ![i] = FALSE]
  /\ MainGoto(i, "markStopping", TRUE)
  /\ UNCHANGED <<coreVars, stopping, wake, selfStop, monitor, notifyAt, notifyGot,
                 stopAt>>

(* Android destroys the instance after stopSelf or stopService.             *)
DestroyService(i) ==
  /\ mainAt.at = "idle"
  /\ alive[i] = "live"
  /\ selfStop[i]
  /\ alive' = [alive EXCEPT ![i] = "destroyed"]
  /\ loop' = [loop EXCEPT ![i] = FALSE]
  /\ MainGoto(i, "markStopping", FALSE)
  /\ UNCHANGED <<coreVars, desired, stopping, wake, selfStop, monitor, notifyAt,
                 notifyGot, stopAt, activityVars>>

(* stopCoreAsync: markStopping is synchronized; the first to mark starts    *)
(* the BTCRig-stop thread.  onDestroy goes on to release the wake lock.     *)
MarkStopping(i) ==
  /\ MainRuns(i, "markStopping")
  /\ monitor[i] = Nobody
  /\ stopping' = [stopping EXCEPT ![i] = TRUE]
  /\ stopAt' = [stopAt EXCEPT ![i] =
                  IF stopping[i] THEN @
                  ELSE IF mainAt.stopSelf THEN "callAndStopSelf" ELSE "call"]
  /\ wake' = [wake EXCEPT ![i] = @ /\ mainAt.stopSelf]
  /\ mainAt' = MainIdle
  /\ UNCHANGED <<coreVars, desired, alive, loop, selfStop, monitor, notifyAt,
                 notifyGot, activityVars>>

StopThreadCalls(i) ==
  /\ stopAt[i] \in {"call", "callAndStopSelf"}
  /\ CallStop(StopT(i))
  /\ stopAt' = [stopAt EXCEPT ![i] = IF @ = "call" THEN "wait" ELSE "waitAndStopSelf"]
  /\ UNCHANGED <<desired, alive, stopping, loop, wake, selfStop, monitor, mainAt,
                 notifyAt, notifyGot, activityVars>>

StopThreadEnds(i) ==
  /\ stopAt[i] \in {"wait", "waitAndStopSelf"}
  /\ Return(StopT(i))
  /\ wake' = [wake EXCEPT ![i] = FALSE]
  /\ selfStop' = [selfStop EXCEPT ![i] = @ \/ stopAt[i] = "waitAndStopSelf"]
  /\ stopAt' = [stopAt EXCEPT ![i] = "ended"]
  /\ UNCHANGED <<desired, alive, stopping, loop, monitor, mainAt, notifyAt,
                 notifyGot, activityVars>>

-----------------------------------------------------------------------------
(* The notification thread: its loop, with recoverCoreIfNeeded inlined.     *)

NotifyGoto(i, place) == notifyAt' = [notifyAt EXCEPT ![i] = place]
UnchangedByNotify ==
  UNCHANGED <<desired, alive, stopping, loop, selfStop, mainAt, stopAt, activityVars>>

MayRecover(i) == ~stopping[i] /\ desired

(* The while condition and the first look at stopping and desired_running.  *)
NotifyTop(i) ==
  /\ notifyAt[i] = "top"
  /\ NotifyGoto(i, IF ~loop[i] THEN "ended"
                   ELSE IF MayRecover(i) THEN "probe" ELSE "sleep")
  /\ UnchangedByNotify
  /\ UNCHANGED <<coreVars, wake, monitor, notifyGot>>

(* isRunning says the core is up, or the last attempt is not 15 s old.      *)
NotifyHasNothingToDo(i) ==
  /\ notifyAt[i] = "probe"
  /\ NotifyGoto(i, "sleep")
  /\ UnchangedByNotify
  /\ UNCHANGED <<coreVars, wake, monitor, notifyGot>>

NotifySeesCoreDown(i) ==
  /\ notifyAt[i] = "probe"
  /\ ~running
  /\ NotifyGoto(i, "enter")
  /\ UnchangedByNotify
  /\ UNCHANGED <<coreVars, wake, monitor, notifyGot>>

(* startConfiguredCore *)
NotifyEnters(i) ==
  /\ notifyAt[i] = "enter"
  /\ monitor[i] = Nobody
  /\ IF running
     THEN /\ NotifyGoto(i, "recheck")
          /\ notifyGot' = [notifyGot EXCEPT ![i] = TRUE]
          /\ UNCHANGED <<monitor, coreVars>>
     ELSE /\ NotifyGoto(i, "starting")
          /\ monitor' = [monitor EXCEPT ![i] = Notify(i)]
          /\ CallStart(Notify(i))
          /\ UNCHANGED notifyGot
  /\ UnchangedByNotify
  /\ UNCHANGED wake

NotifyStartReturns(i) ==
  /\ notifyAt[i] = "starting"
  /\ Return(Notify(i))
  /\ monitor' = [monitor EXCEPT ![i] = Nobody]
  /\ notifyGot' = [notifyGot EXCEPT ![i] = result[Notify(i)]]
  /\ NotifyGoto(i, "recheck")
  /\ UnchangedByNotify
  /\ UNCHANGED wake

(* Mutant of StopOvertook: the second look is left out.                     *)
NoSecondLook(i) == FALSE
(* The second look: a stop that came meanwhile is carried out here.         *)
StopOvertook(i) == ~MayRecover(i)

NotifyRechecks(i) ==
  /\ notifyAt[i] = "recheck"
  /\ NotifyGoto(i, IF ~notifyGot[i] THEN "sleep"
                   ELSE IF StopOvertook(i) THEN "undo" ELSE "acquire")
  /\ UnchangedByNotify
  /\ UNCHANGED <<coreVars, wake, monitor, notifyGot>>

NotifyAcquires(i) ==
  /\ notifyAt[i] = "acquire"
  /\ wake' = [wake EXCEPT ![i] = TRUE]
  /\ NotifyGoto(i, "sleep")
  /\ UnchangedByNotify
  /\ UNCHANGED <<coreVars, monitor, notifyGot>>

(* safeStopCore *)
NotifyUndoes(i) ==
  /\ notifyAt[i] = "undo"
  /\ CallStop(Notify(i))
  /\ NotifyGoto(i, "undoing")
  /\ UnchangedByNotify
  /\ UNCHANGED <<wake, monitor, notifyGot>>

NotifyUndone(i) ==
  /\ notifyAt[i] = "undoing"
  /\ Return(Notify(i))
  /\ NotifyGoto(i, "sleep")
  /\ UnchangedByNotify
  /\ UNCHANGED <<wake, monitor, notifyGot>>

(* Five seconds later; stopNotificationLoop interrupts the sleep.           *)
NotifyWakes(i) ==
  /\ notifyAt[i] = "sleep"
  /\ NotifyGoto(i, IF loop[i] THEN "top" ELSE "ended")
  /\ UnchangedByNotify
  /\ UNCHANGED <<coreVars, wake, monitor, notifyGot>>

-----------------------------------------------------------------------------
CoreStep ==
  /\ \/ \E c \in Callers : CallStep(c)
     \/ \E t \in Threads : ThreadStep(t) \/ GiveUp(t)
  /\ UNCHANGED serviceVars

MainStep(i) ==
  \/ MainEnters(i) \/ MainStartReturns(i) \/ StartFailed(i) \/ StartSucceeded(i)
  \/ MarkStopping(i) \/ DestroyService(i)

StopThreadStep(i) == StopThreadCalls(i) \/ StopThreadEnds(i)

NotifyStep(i) ==
  \/ NotifyTop(i) \/ NotifyHasNothingToDo(i) \/ NotifySeesCoreDown(i)
  \/ NotifyEnters(i) \/ NotifyStartReturns(i) \/ NotifyRechecks(i)
  \/ NotifyAcquires(i) \/ NotifyUndoes(i) \/ NotifyUndone(i) \/ NotifyWakes(i)

IntentStep(i) == StartIntent(i) \/ StopIntent(i)

UserStep == TapStart \/ TapStop \/ RefreshUi \/ OpenActivity

ServiceNext ==
  \/ CoreStep
  \/ \E i \in Instances :
       \/ IntentStep(i) \/ ConfigFails(i) \/ MainStep(i)
       \/ StopThreadStep(i) \/ NotifyStep(i)
  \/ UserStep \/ FallbackEnds

(* Every thread that can go on does, an intent is delivered and a service   *)
(* that asked to be stopped is destroyed.  A recovery holds the monitor only *)
(* for a moment every 15 s, so the main thread gets in.  The 15 s between   *)
(* two recoveries pass, and pthread_create does not fail for ever.  The     *)
(* user, the configuration and a core that gives up are not fair.           *)
ServiceFairness ==
  /\ \A c \in Callers : WF_allVars(CallStep(c) /\ UNCHANGED serviceVars)
  /\ \A t \in Threads : WF_allVars(ThreadStep(t) /\ UNCHANGED serviceVars)
  /\ \A i \in Instances :
       /\ WF_allVars(IntentStep(i))
       /\ SF_allVars(MainStep(i))
       /\ WF_allVars(StopThreadStep(i))
       /\ WF_allVars(NotifyStep(i))
       /\ SF_allVars(NotifySeesCoreDown(i))
       /\ SF_allVars(CreateThread(Notify(i)) /\ UNCHANGED serviceVars)
  /\ WF_allVars(FallbackEnds)

ServiceSpec     == ServiceInit /\ [][ServiceNext]_allVars
FairServiceSpec == ServiceSpec /\ ServiceFairness

-----------------------------------------------------------------------------
(* Properties.                                                             *)

Mining == {t \in Threads : threads[t] = "mining"}

(* Once an instance is stopping, the core comes to rest for good, even when *)
(* the notification thread was just restarting it.                          *)
StoppingEndsMining ==
  \A i \in Instances : <>[](stopping[i] => Mining = {})

(* While the service is wanted and nothing stops it, a core that gave up is *)
(* started again.                                                           *)
CoreIsRecovered ==
  \A i \in Instances :
    <>[](desired /\ loop[i] /\ ~stopping[i]) => []<>(Mining # {})

(* g_running tells of a core thread that nobody has asked to stop.  It does *)
(* not always: see TapStopsMining.                                          *)
RunningIsTold ==
  \A t \in Threads : threads[t] = "mining" /\ ~stopRequested => running

(* As long as g_running is never cleared under a core thread that goes on,  *)
(* the main thread never stays in a service callback: a start it runs, or   *)
(* waits for at the monitor, returns, whatever taps, failed starts, the     *)
(* notification thread and the BTCRig-stop thread do meanwhile.             *)
MainThreadIsFree ==
  []RunningIsTold => []<>(mainAt.at = "idle")

(* README.md, usage: a tap on the status capsule stops mining.              *)
TapStopsMining ==
  ~desired ~> (desired \/ Mining = {})
=============================================================================
