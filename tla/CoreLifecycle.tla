---------------------------- MODULE CoreLifecycle ----------------------------
(***************************************************************************)
(* Starting and stopping the native core, cpp/btcrig_core_full.c:          *)
(* btcrig_core_start, btcrig_core_stop and the end of run_core, called     *)
(* through JNI by several Java threads at once.                            *)
(*                                                                         *)
(* An action is one critical section of g_lock or one step outside it:     *)
(* pthread_create, pthread_join, and the store to g_thread_started that    *)
(* btcrig_core_start makes after the create, without the lock.             *)
(***************************************************************************)
EXTENDS Integers, FiniteSets

CONSTANTS
  Starters,   (* Java threads that call btcrig_core_start                   *)
  Stoppers,   (* Java threads that call btcrig_core_stop                    *)
  Threads,    (* pthread identities; one is free again once joined          *)
  NoThread

Callers == Starters \union Stoppers

ASSUME CoreAssumption == NoThread \notin Threads

VARIABLES
  running,        (* g_running                                              *)
  threadStarted,  (* g_thread_started                                       *)
  joining,        (* g_stop_joining                                         *)
  stopRequested,  (* g_stop_requested                                       *)
  gThread,        (* g_thread                                               *)
  threads,        (* state of each core thread                              *)
  call,           (* what each caller is doing: [op, at]                    *)
  target,         (* the thread a caller is to join                         *)
  result          (* what a caller's btcrig_core_start returned             *)

flags  == <<running, threadStarted, joining, stopRequested>>
coreVars == <<flags, gThread, threads, call, target, result>>

Idle == [op |-> "none", at |-> "idle"]

CoreInit ==
  /\ running = FALSE
  /\ threadStarted = FALSE
  /\ joining = FALSE
  /\ stopRequested = FALSE
  /\ gThread = NoThread
  /\ threads = [t \in Threads |-> "free"]
  /\ call = [c \in Callers |-> Idle]
  /\ target = [c \in Callers |-> NoThread]
  /\ result = [c \in Callers |-> FALSE]

At(c, place) == call[c].at = place
Goto(c, place) == call' = [call EXCEPT ![c].at = place]

-----------------------------------------------------------------------------
(* join_core_thread_once, shared by start and stop.                         *)

AfterJoin(c) == IF call[c].op = "start" THEN "claim" ELSE "clear"

(* Mutant of MayTakeJoin: a second caller joins the same thread.            *)
JoinsAgain == threadStarted
MayTakeJoin == threadStarted /\ ~joining

TakeJoin(c) ==
  /\ At(c, "look")
  /\ MayTakeJoin
  /\ joining' = TRUE
  /\ target' = [target EXCEPT ![c] = gThread]
  /\ Goto(c, "join")
  /\ UNCHANGED <<running, threadStarted, stopRequested, gThread, threads, result>>

NothingToJoin(c) ==
  /\ At(c, "look")
  /\ ~MayTakeJoin
  /\ Goto(c, AfterJoin(c))
  /\ UNCHANGED <<flags, gThread, threads, target, result>>

(* pthread_join returns once run_core has.                                  *)
JoinThread(c) ==
  /\ At(c, "join")
  /\ threads[target[c]] = "exited"
  /\ threads' = [threads EXCEPT ![target[c]] = "free"]
  /\ Goto(c, "joined")
  /\ UNCHANGED <<flags, gThread, target, result>>

FinishJoin(c) ==
  /\ At(c, "joined")
  /\ threadStarted' = FALSE
  /\ joining' = FALSE
  /\ target' = [target EXCEPT ![c] = NoThread]
  /\ Goto(c, AfterJoin(c))
  /\ UNCHANGED <<running, stopRequested, gThread, threads, result>>

-----------------------------------------------------------------------------
(* btcrig_core_start                                                        *)

CallStart(c) ==
  /\ c \in Starters
  /\ call[c] = Idle
  /\ call' = [call EXCEPT ![c] = [op |-> "start", at |-> "check"]]
  /\ UNCHANGED <<flags, gThread, threads, target, result>>

(* Mutant of StaleThread: a thread that ended by itself is not noticed.     *)
StaleUnseen == FALSE
(* A thread that ended by itself is still to be joined.                     *)
StaleThread == threadStarted /\ ~running /\ ~joining

CheckStale(c) ==
  /\ At(c, "check")
  /\ Goto(c, IF StaleThread THEN "look" ELSE "claim")
  /\ UNCHANGED <<flags, gThread, threads, target, result>>

(* Mutant of Busy: the start looks at g_running alone.                      *)
BusyIfRunning == running
Busy == running \/ threadStarted \/ joining

StartRefused(c) ==
  /\ At(c, "claim")
  /\ Busy
  /\ result' = [result EXCEPT ![c] = running]
  /\ call' = [call EXCEPT ![c].at = "returned"]
  /\ UNCHANGED <<flags, gThread, threads, target>>

StartClaimed(c) ==
  /\ At(c, "claim")
  /\ ~Busy
  /\ stopRequested' = FALSE
  /\ running' = TRUE
  /\ Goto(c, "create")
  /\ UNCHANGED <<threadStarted, joining, gThread, threads, target, result>>

CreateThread(c) ==
  /\ At(c, "create")
  /\ \E t \in Threads :
       /\ threads[t] = "free"
       /\ threads' = [threads EXCEPT ![t] = "mining"]
       /\ gThread' = t
  /\ Goto(c, "mark")
  /\ UNCHANGED <<flags, target, result>>

CreateFails(c) ==
  /\ At(c, "create")
  /\ running' = FALSE
  /\ result' = [result EXCEPT ![c] = FALSE]
  /\ Goto(c, "returned")
  /\ UNCHANGED <<threadStarted, joining, stopRequested, gThread, threads, target>>

(* g_thread_started = 1, without the lock.                                  *)
MarkStarted(c) ==
  /\ At(c, "mark")
  /\ threadStarted' = TRUE
  /\ result' = [result EXCEPT ![c] = TRUE]
  /\ Goto(c, "returned")
  /\ UNCHANGED <<running, joining, stopRequested, gThread, threads, target>>

-----------------------------------------------------------------------------
(* btcrig_core_stop                                                         *)

CallStop(c) ==
  /\ c \in Stoppers
  /\ call[c] = Idle
  /\ call' = [call EXCEPT ![c] = [op |-> "stop", at |-> "flag"]]
  /\ UNCHANGED <<flags, gThread, threads, target, result>>

RequestStop(c) ==
  /\ At(c, "flag")
  /\ stopRequested' = TRUE
  /\ Goto(c, "look")
  /\ UNCHANGED <<running, threadStarted, joining, gThread, threads, target, result>>

ClearRunning(c) ==
  /\ At(c, "clear")
  /\ running' = (running /\ (threadStarted \/ joining))
  /\ Goto(c, "returned")
  /\ UNCHANGED <<threadStarted, joining, stopRequested, gThread, threads, target,
                 result>>

-----------------------------------------------------------------------------
(* run_core leaves its loop because of the stop flag, or by itself: no pool *)
(* is configured, or the retry limit is reached.                            *)

HearStop(t) ==
  /\ threads[t] = "mining"
  /\ stopRequested
  /\ threads' = [threads EXCEPT ![t] = "leaving"]
  /\ UNCHANGED <<flags, gThread, call, target, result>>

GiveUp(t) ==
  /\ threads[t] = "mining"
  /\ ~stopRequested
  /\ threads' = [threads EXCEPT ![t] = "leaving"]
  /\ UNCHANGED <<flags, gThread, call, target, result>>

(* The last critical section of run_core, then the thread ends.             *)
Leave(t) ==
  /\ threads[t] = "leaving"
  /\ running' = FALSE
  /\ threads' = [threads EXCEPT ![t] = "exited"]
  /\ UNCHANGED <<threadStarted, joining, stopRequested, gThread, call, target, result>>

ThreadStep(t) == HearStop(t) \/ Leave(t)

CallStep(c) ==
  \/ TakeJoin(c) \/ NothingToJoin(c) \/ JoinThread(c) \/ FinishJoin(c)
  \/ CheckStale(c) \/ StartRefused(c) \/ StartClaimed(c) \/ CreateThread(c)
  \/ CreateFails(c) \/ MarkStarted(c) \/ RequestStop(c) \/ ClearRunning(c)

(* The Java caller gets its answer.                                         *)
Return(c) ==
  /\ At(c, "returned")
  /\ call' = [call EXCEPT ![c] = Idle]
  /\ UNCHANGED <<flags, gThread, threads, target, result>>

CoreNext ==
  \/ \E c \in Callers : CallStart(c) \/ CallStop(c) \/ CallStep(c) \/ Return(c)
  \/ \E t \in Threads : ThreadStep(t) \/ GiveUp(t)

CoreSpec == CoreInit /\ [][CoreNext]_coreVars

-----------------------------------------------------------------------------
(* Properties, for starts that are serialised (one starter), as those of    *)
(* one BtcrigService are, and stops from any number of threads.             *)

Unjoined == {t \in Threads : threads[t] # "free"}

(* There is never more than one core thread, mining or waiting to be        *)
(* joined, and it is the one g_thread names: btcrig_core_start never        *)
(* creates a second and never overwrites the handle of the first.           *)
OneCoreThread ==
  \A t \in Unjoined : t = gThread

(* pthread_join is called once for each thread: two callers never wait for  *)
(* the same one, nor one for a thread already joined.                       *)
JoinedOnce ==
  /\ \A c, d \in Callers : c # d => ~(At(c, "join") /\ At(d, "join"))
  /\ \A c \in Callers : At(c, "join") => target[c] \in Unjoined

(* A stop request is withdrawn only by a start that finds no core thread:   *)
(* a thread that was told to stop is never told to go on.                   *)
StopIsNotWithdrawn ==
  [][stopRequested /\ ~stopRequested' => Unjoined = {}]_coreVars
=============================================================================
