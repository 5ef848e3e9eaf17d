---------------------------- MODULE ServiceProofs ----------------------------
(* Theorems about the native core under one service instance, with any     *)
(* number of pthread identities: the instance's monitor serialises its     *)
(* starts, and this is enough for btcrig_core_start and btcrig_core_stop,  *)
(* which serialise little themselves.                                      *)
EXTENDS Service, TLAPS

-----------------------------------------------------------------------------
(* The inductive invariant of the core.                                     *)

Places == {"idle", "check", "look", "join", "joined", "claim", "create", "mark",
           "flag", "clear", "returned"}

StartPlaces == {"check", "claim", "create", "mark"}

CoreTypeOK ==
  /\ running \in BOOLEAN
  /\ threadStarted \in BOOLEAN
  /\ joining \in BOOLEAN
  /\ stopRequested \in BOOLEAN
  /\ gThread \in Threads \union {NoThread}
  /\ threads \in [Threads -> {"free", "mining", "leaving", "exited"}]
  /\ call \in [Callers -> [op : {"none", "start", "stop"}, at : Places]]
  /\ target \in [Callers -> Threads \union {NoThread}]
  /\ result \in [Callers -> BOOLEAN]

(* One start at a time, and only a start is at the places of one.           *)
OneStart ==
  /\ \A c, d \in Callers : call[c].op = "start" /\ call[d].op = "start" => c = d
  /\ \A c \in Callers : call[c].at \in StartPlaces => call[c].op = "start"

(* g_stop_joining: one caller joins, and it joins the thread there is.      *)
OneJoin ==
  /\ \A c, d \in Callers : target[c] # NoThread /\ target[d] # NoThread => c = d
  /\ \A c \in Callers :
       (target[c] # NoThread) <=> (call[c].at \in {"join", "joined"})
  /\ joining <=> \E c \in Callers : target[c] # NoThread
  /\ \A c \in Callers : At(c, "join") => target[c] = gThread /\ gThread \in Unjoined
  /\ \A c \in Callers : At(c, "joined") => Unjoined = {}

(* g_thread_started says of the one thread whether a join is owed, but for  *)
(* the moment in which the start that created it has not stored it yet.     *)
StartedIsKnown ==
  /\ joining => threadStarted
  /\ threadStarted => gThread \in Unjoined \/ \E c \in Callers : At(c, "joined")
  /\ Unjoined # {} => threadStarted \/ \E c \in Callers : At(c, "mark")
  /\ \A c \in Callers : At(c, "create") => ~threadStarted /\ Unjoined = {}
  /\ \A c \in Callers : At(c, "mark") => ~threadStarted /\ gThread \in Unjoined

CoreInv ==
  CoreTypeOK /\ OneStart /\ OneCoreThread /\ OneJoin /\ StartedIsKnown

(* The core starts with no thread, and no caller inside.                    *)
LEMMA CoreInvInit == CoreInit => CoreInv
<1> SUFFICES ASSUME CoreInit PROVE CoreInv
  OBVIOUS
<1>1. CoreTypeOK
  BY DEF CoreInit, CoreTypeOK, Idle, Places
<1>2. \A c \in Callers : call[c].at = "idle" /\ call[c].op = "none" /\ target[c] = NoThread
  BY DEF CoreInit, Idle
<1>3. Unjoined = {} /\ ~joining /\ ~threadStarted
  BY DEF CoreInit, Unjoined
<1>4. QED
  BY <1>1, <1>2, <1>3
  DEF CoreInv, OneStart, OneCoreThread, OneJoin, StartedIsKnown, StartPlaces, At

(* A step of one caller leaves the places of the others.                    *)
LEMMA GotoCall ==
  ASSUME CoreTypeOK, NEW c \in Callers, NEW place \in Places, Goto(c, place)
  PROVE  /\ call' \in [Callers -> [op : {"none", "start", "stop"}, at : Places]]
         /\ call'[c].at = place /\ call'[c].op = call[c].op
         /\ \A d \in Callers \ {c} : call'[d] = call[d]
BY DEF CoreTypeOK, Goto

LEMMA TakeJoinKeeps ==
  ASSUME CoreInv, NEW c \in Callers, TakeJoin(c) PROVE CoreInv'
<1> USE DEF CoreInv, flags
<1>1. Goto(c, "join") /\ "join" \in Places
  BY DEF TakeJoin, Places
<1>2. call' \in [Callers -> [op : {"none", "start", "stop"}, at : Places]]
      /\ call'[c].at = "join" /\ call'[c].op = call[c].op
      /\ \A d \in Callers \ {c} : call'[d] = call[d]
  BY <1>1, GotoCall
<1>3. threadStarted /\ ~joining /\ call[c].at = "look"
  BY DEF TakeJoin, MayTakeJoin, At
<1>4. \A d \in Callers : target[d] = NoThread
  BY <1>3 DEF OneJoin
<1>5. gThread \in Unjoined /\ gThread \in Threads
  BY <1>3, <1>4 DEF StartedIsKnown, OneJoin, At, Unjoined
<1>6. target'[c] = gThread /\ \A d \in Callers \ {c} : target'[d] = NoThread
  BY <1>4 DEF TakeJoin, CoreTypeOK
<1>7. UNCHANGED <<running, threadStarted, stopRequested, gThread, threads, Unjoined>>
  BY DEF TakeJoin, Unjoined
<1>8. CoreTypeOK'
  BY <1>2, <1>7 DEF CoreTypeOK, TakeJoin
<1>9. OneStart'
  BY <1>2 DEF OneStart, StartPlaces
<1>10. OneCoreThread'
  BY <1>7 DEF OneCoreThread
<1>11. OneJoin'
  <2>1. gThread # NoThread
    BY <1>5, CoreAssumption
  <2>2. joining'
    BY DEF TakeJoin
  <2>3. QED
    BY <1>2, <1>4, <1>5, <1>6, <1>7, <2>1, <2>2 DEF OneJoin, At
<1>12. StartedIsKnown'
  BY <1>2, <1>3, <1>5, <1>7 DEF StartedIsKnown, At
<1>13. QED
  BY <1>8, <1>9, <1>10, <1>11, <1>12

(* A caller that neither holds, hands over nor marks a thread may go where  *)
(* none of this is done.                                                    *)
LEMMA MoveKeeps ==
  ASSUME CoreInv, NEW c \in Callers, NEW place \in Places, Goto(c, place),
         UNCHANGED <<threadStarted, joining, gThread, threads, target>>,
         running' \in BOOLEAN, stopRequested' \in BOOLEAN,
         result' \in [Callers -> BOOLEAN],
         call[c].at \notin {"join", "joined", "mark"},
         place \notin {"join", "joined", "create", "mark"},
         place \in StartPlaces => call[c].op = "start"
  PROVE  CoreInv'
<1> USE DEF CoreInv
<1>1. call' \in [Callers -> [op : {"none", "start", "stop"}, at : Places]]
      /\ call'[c].at = place /\ call'[c].op = call[c].op
      /\ \A d \in Callers \ {c} : call'[d] = call[d]
  BY GotoCall
<1>2. UNCHANGED Unjoined
  BY DEF Unjoined
<1>3. CoreTypeOK'
  BY <1>1 DEF CoreTypeOK
<1>4. OneStart'
  BY <1>1 DEF OneStart, StartPlaces
<1>5. OneCoreThread'
  BY <1>2 DEF OneCoreThread
<1>6. OneJoin'
  BY <1>1, <1>2 DEF OneJoin, At
<1>7. StartedIsKnown'
  BY <1>1, <1>2 DEF StartedIsKnown, At
<1>8. QED
  BY <1>3, <1>4, <1>5, <1>6, <1>7

(* pthread_join returns: no core thread is left, and its joiner knows.      *)
LEMMA JoinThreadKeeps ==
  ASSUME CoreInv, NEW c \in Callers, JoinThread(c) PROVE CoreInv'
<1> USE DEF CoreInv, flags
<1>1. Goto(c, "joined") /\ "joined" \in Places
  BY DEF JoinThread, Places
<1>2. call' \in [Callers -> [op : {"none", "start", "stop"}, at : Places]]
      /\ call'[c].at = "joined" /\ call'[c].op = call[c].op
      /\ \A d \in Callers \ {c} : call'[d] = call[d]
  BY <1>1, GotoCall
<1>3. call[c].at = "join" /\ target[c] = gThread /\ gThread \in Unjoined
  BY DEF JoinThread, OneJoin, At
<1>4. target[c] # NoThread /\ joining /\ threadStarted
  BY <1>3 DEF OneJoin, StartedIsKnown
<1>5. \A d \in Callers \ {c} : call[d].at \notin {"join", "joined", "create", "mark"}
  BY <1>4 DEF OneJoin, StartedIsKnown, At
<1>6. threads' = [threads EXCEPT ![gThread] = "free"]
  BY <1>3 DEF JoinThread
<1>7. Unjoined' = {}
  BY <1>6 DEF OneCoreThread, Unjoined, CoreTypeOK
<1>8. UNCHANGED <<flags, gThread, target, result>>
  BY DEF JoinThread
<1>9. CoreTypeOK'
  BY <1>2, <1>6, <1>8 DEF CoreTypeOK
<1>10. OneStart'
  BY <1>2 DEF OneStart, StartPlaces
<1>11. OneCoreThread'
  BY <1>7 DEF OneCoreThread
<1>12. OneJoin'
  <2>1. target'[c] # NoThread
    BY <1>4, <1>8
  <2>2. \A d \in Callers : d # c => ~(At(d, "join")' \/ At(d, "joined")')
    BY <1>2, <1>5 DEF At
  <2>3. QED
    BY <1>2, <1>3, <1>7, <1>8, <2>1, <2>2 DEF OneJoin, At
<1>13. StartedIsKnown'
  BY <1>2, <1>4, <1>5, <1>7, <1>8 DEF StartedIsKnown, At
<1>14. QED
  BY <1>9, <1>10, <1>11, <1>12, <1>13

LEMMA FinishJoinKeeps ==
  ASSUME CoreInv, NEW c \in Callers, FinishJoin(c) PROVE CoreInv'
<1> USE DEF CoreInv
<1>1. Goto(c, AfterJoin(c)) /\ AfterJoin(c) \in {"claim", "clear"}
  BY DEF FinishJoin, AfterJoin
<1>2. call' \in [Callers -> [op : {"none", "start", "stop"}, at : Places]]
      /\ call'[c].at = AfterJoin(c) /\ call'[c].op = call[c].op
      /\ \A d \in Callers \ {c} : call'[d] = call[d]
  BY <1>1, GotoCall DEF Places
<1>3. call[c].at = "joined" /\ Unjoined = {} /\ target[c] # NoThread
  BY DEF FinishJoin, OneJoin, At
<1>4. threadStarted /\ \A d \in Callers \ {c} : target[d] = NoThread
  BY <1>3 DEF OneJoin, StartedIsKnown
<1>5. threadStarted' = FALSE /\ joining' = FALSE /\ target' = [target EXCEPT ![c] = NoThread]
      /\ UNCHANGED <<running, stopRequested, gThread, threads, result>>
  BY DEF FinishJoin
<1>6. \A d \in Callers : target'[d] = NoThread
  BY <1>4, <1>5 DEF CoreTypeOK
<1>7. \A d \in Callers : call'[d].at \notin {"join", "joined", "create", "mark"}
  <2>1. call'[c].at \notin {"join", "joined", "create", "mark"}
    BY <1>1, <1>2
  <2>2. \A d \in Callers \ {c} : call[d].at \notin {"join", "joined", "create", "mark"}
    BY <1>4 DEF OneJoin, StartedIsKnown, At
  <2>3. QED
    BY <1>2, <2>1, <2>2
<1>8. UNCHANGED Unjoined
  BY <1>5 DEF Unjoined
<1>9. CoreTypeOK'
  BY <1>2, <1>5 DEF CoreTypeOK
<1>10. OneStart'
  BY <1>2 DEF OneStart, StartPlaces, AfterJoin
<1>11. OneCoreThread'
  BY <1>3, <1>8 DEF OneCoreThread
<1>12. OneJoin'
  BY <1>5, <1>6, <1>7 DEF OneJoin, At
<1>13. StartedIsKnown'
  BY <1>3, <1>5, <1>7, <1>8 DEF StartedIsKnown, At
<1>14. QED
  BY <1>9, <1>10, <1>11, <1>12, <1>13

(* The start that finds the core idle: there is no thread, and no other     *)
(* start that could be about to mark one.                                   *)
LEMMA ClaimFindsNone ==
  ASSUME CoreInv, NEW c \in Callers, StartClaimed(c)
  PROVE  /\ ~threadStarted /\ ~joining /\ Unjoined = {}
         /\ \A d \in Callers \ {c} : call[d].at \notin StartPlaces
<1> USE DEF CoreInv
<1>1. call[c].at = "claim" /\ ~threadStarted /\ ~joining
  BY DEF StartClaimed, Busy, At
<1>2. \A d \in Callers \ {c} : call[d].at \notin StartPlaces
  BY <1>1 DEF OneStart, StartPlaces
<1>3. QED
  BY <1>1, <1>2 DEF StartedIsKnown, At, StartPlaces

LEMMA StartClaimedKeeps ==
  ASSUME CoreInv, NEW c \in Callers, StartClaimed(c) PROVE CoreInv'
<1> USE DEF CoreInv
<1>1. Goto(c, "create") /\ "create" \in Places /\ call[c].at = "claim"
  BY DEF StartClaimed, Places, At
<1>2. call' \in [Callers -> [op : {"none", "start", "stop"}, at : Places]]
      /\ call'[c].at = "create" /\ call'[c].op = call[c].op
      /\ \A d \in Callers \ {c} : call'[d] = call[d]
  BY <1>1, GotoCall
<1>3. /\ ~threadStarted /\ ~joining /\ Unjoined = {}
      /\ \A d \in Callers \ {c} : call[d].at \notin StartPlaces
  BY ClaimFindsNone
<1>4. UNCHANGED <<threadStarted, joining, gThread, threads, target, result, Unjoined>>
  BY DEF StartClaimed, Unjoined
<1>5. CoreTypeOK'
  BY <1>2, <1>4 DEF CoreTypeOK, StartClaimed
<1>6. OneStart'
  BY <1>1, <1>2 DEF OneStart, StartPlaces
<1>7. OneCoreThread'
  BY <1>4 DEF OneCoreThread
<1>8. OneJoin'
  BY <1>1, <1>2, <1>4 DEF OneJoin, At
<1>9. StartedIsKnown'
  BY <1>2, <1>3, <1>4 DEF StartedIsKnown, At, StartPlaces
<1>10. QED
  BY <1>5, <1>6, <1>7, <1>8, <1>9

(* The new thread is the only one: g_thread may be overwritten.             *)
LEMMA CreateThreadKeeps ==
  ASSUME CoreInv, NEW c \in Callers, CreateThread(c) PROVE CoreInv'
<1> USE DEF CoreInv, flags
<1>1. Goto(c, "mark") /\ "mark" \in Places /\ call[c].at = "create"
  BY DEF CreateThread, Places, At
<1>2. call' \in [Callers -> [op : {"none", "start", "stop"}, at : Places]]
      /\ call'[c].at = "mark" /\ call'[c].op = call[c].op
      /\ \A d \in Callers \ {c} : call'[d] = call[d]
  BY <1>1, GotoCall
<1>3. ~threadStarted /\ ~joining /\ Unjoined = {} /\ call[c].op = "start"
  BY <1>1 DEF StartedIsKnown, OneStart, StartPlaces, At
<1>4. \A d \in Callers \ {c} : call[d].at \notin StartPlaces \union {"join", "joined"}
  BY <1>1, <1>3 DEF OneStart, OneJoin, StartPlaces
<1>5. PICK t \in Threads :
        threads' = [threads EXCEPT ![t] = "mining"] /\ gThread' = t
  BY DEF CreateThread
<1>6. Unjoined' = {t}
  BY <1>3, <1>5 DEF Unjoined, CoreTypeOK
<1>7. UNCHANGED <<flags, target, result>>
  BY DEF CreateThread
<1>8. CoreTypeOK'
  BY <1>2, <1>5, <1>7 DEF CoreTypeOK
<1>9. OneStart'
  BY <1>1, <1>2 DEF OneStart, StartPlaces
<1>10. OneCoreThread'
  BY <1>5, <1>6 DEF OneCoreThread
<1>11. OneJoin'
  BY <1>1, <1>2, <1>4, <1>7 DEF OneJoin, At
<1>12. StartedIsKnown'
  <2>1. \A d \in Callers : ~At(d, "create")'
    BY <1>2, <1>4 DEF At, StartPlaces
  <2>2. \A d \in Callers : At(d, "mark")' => ~threadStarted' /\ (gThread \in Unjoined)'
    BY <1>3, <1>5, <1>6, <1>7
  <2>3. At(c, "mark")'
    BY <1>2 DEF At
  <2>4. QED
    BY <1>3, <1>7, <2>1, <2>2, <2>3 DEF StartedIsKnown
<1>13. QED
  BY <1>8, <1>9, <1>10, <1>11, <1>12

LEMMA MarkStartedKeeps ==
  ASSUME CoreInv, NEW c \in Callers, MarkStarted(c) PROVE CoreInv'
<1> USE DEF CoreInv
<1>1. Goto(c, "returned") /\ "returned" \in Places /\ call[c].at = "mark"
  BY DEF MarkStarted, Places, At
<1>2. call' \in [Callers -> [op : {"none", "start", "stop"}, at : Places]]
      /\ call'[c].at = "returned" /\ call'[c].op = call[c].op
      /\ \A d \in Callers \ {c} : call'[d] = call[d]
  BY <1>1, GotoCall
<1>3. ~threadStarted /\ gThread \in Unjoined
  BY <1>1 DEF StartedIsKnown, At
<1>4. \A d \in Callers \ {c} : call[d].at \notin StartPlaces
  BY <1>1 DEF OneStart, StartPlaces
<1>5. threadStarted' /\ result' = [result EXCEPT ![c] = TRUE]
      /\ UNCHANGED <<running, joining, stopRequested, gThread, threads, target, Unjoined>>
  BY DEF MarkStarted, Unjoined
<1>6. CoreTypeOK'
  BY <1>2, <1>5 DEF CoreTypeOK
<1>7. OneStart'
  BY <1>2 DEF OneStart, StartPlaces
<1>8. OneCoreThread'
  BY <1>5 DEF OneCoreThread
<1>9. OneJoin'
  BY <1>1, <1>2, <1>5 DEF OneJoin, At
<1>10. StartedIsKnown'
  BY <1>2, <1>3, <1>4, <1>5 DEF StartedIsKnown, At, StartPlaces
<1>11. QED
  BY <1>6, <1>7, <1>8, <1>9, <1>10

(* The core thread leaves its loop, and ends; it stays to be joined.        *)
LEMMA ThreadKeeps ==
  ASSUME CoreInv, NEW t \in Threads, ThreadStep(t) \/ GiveUp(t) PROVE CoreInv'
<1> USE DEF CoreInv, flags
<1>1. PICK state \in {"leaving", "exited"} :
        threads' = [threads EXCEPT ![t] = state] /\ threads[t] # "free"
  BY DEF ThreadStep, HearStop, Leave, GiveUp
<1>2. UNCHANGED Unjoined
  BY <1>1 DEF Unjoined, CoreTypeOK
<1>3. UNCHANGED <<threadStarted, joining, stopRequested, gThread, call, target, result>>
      /\ running' \in BOOLEAN
  BY DEF ThreadStep, HearStop, Leave, GiveUp, CoreTypeOK
<1>4. CoreTypeOK'
  BY <1>1, <1>3 DEF CoreTypeOK
<1>5. OneStart' /\ OneCoreThread'
  BY <1>2, <1>3 DEF OneStart, OneCoreThread
<1>6. OneJoin'
  BY <1>2, <1>3 DEF OneJoin, At
<1>7. StartedIsKnown'
  BY <1>2, <1>3 DEF StartedIsKnown, At
<1>8. QED
  BY <1>4, <1>5, <1>6, <1>7

(* One step of a caller inside btcrig_core_start or btcrig_core_stop.       *)
LEMMA CallStepKeeps ==
  ASSUME CoreInv, NEW c \in Callers, CallStep(c) PROVE CoreInv'
<1> USE DEF flags
<1> CoreTypeOK
  BY DEF CoreInv
<1>1. CASE TakeJoin(c) \/ JoinThread(c) \/ FinishJoin(c)
  BY <1>1, TakeJoinKeeps, JoinThreadKeeps, FinishJoinKeeps
<1>2. CASE StartClaimed(c) \/ CreateThread(c) \/ MarkStarted(c)
  BY <1>2, StartClaimedKeeps, CreateThreadKeeps, MarkStartedKeeps
<1>3. CASE NothingToJoin(c)
  <2>1. Goto(c, AfterJoin(c)) /\ AfterJoin(c) \in Places /\ call[c].at = "look"
        /\ (AfterJoin(c) = "clear" \/ (AfterJoin(c) = "claim" /\ call[c].op = "start"))
    BY <1>3 DEF NothingToJoin, AfterJoin, Places, At
  <2>2. UNCHANGED <<flags, gThread, threads, target, result>>
    BY <1>3 DEF NothingToJoin
  <2>3. QED
    BY <2>1, <2>2, MoveKeeps DEF CoreTypeOK, StartPlaces
<1>4. CASE CheckStale(c)
  <2>1. PICK place \in {"look", "claim"} : Goto(c, place)
    BY <1>4 DEF CheckStale
  <2>2. call[c].at = "check" /\ call[c].op = "start"
    BY <1>4 DEF CheckStale, At, CoreInv, OneStart, StartPlaces
  <2>3. UNCHANGED <<flags, gThread, threads, target, result>>
    BY <1>4 DEF CheckStale
  <2>4. place \in Places
    BY DEF Places
  <2>5. QED
    BY <2>1, <2>2, <2>3, <2>4, MoveKeeps DEF CoreTypeOK
<1>5. CASE StartRefused(c)
  <2>1. Goto(c, "returned") /\ "returned" \in Places /\ call[c].at = "claim"
    BY <1>5 DEF StartRefused, Goto, Places, At
  <2>2. UNCHANGED <<flags, gThread, threads, target>>
        /\ result' \in [Callers -> BOOLEAN]
    BY <1>5 DEF StartRefused, CoreTypeOK
  <2>3. QED
    BY <2>1, <2>2, MoveKeeps DEF CoreTypeOK, StartPlaces
<1>6. CASE CreateFails(c)
  <2>1. Goto(c, "returned") /\ "returned" \in Places /\ call[c].at = "create"
    BY <1>6 DEF CreateFails, Places, At
  <2>2. UNCHANGED <<threadStarted, joining, stopRequested, gThread, threads, target>>
        /\ running' \in BOOLEAN /\ result' \in [Callers -> BOOLEAN]
    BY <1>6 DEF CreateFails, CoreTypeOK
  <2>3. QED
    BY <2>1, <2>2, MoveKeeps DEF CoreTypeOK, StartPlaces
<1>7. CASE RequestStop(c)
  <2>1. Goto(c, "look") /\ "look" \in Places /\ call[c].at = "flag"
    BY <1>7 DEF RequestStop, Places, At
  <2>2. UNCHANGED <<running, threadStarted, joining, gThread, threads, target, result>>
        /\ stopRequested' \in BOOLEAN
    BY <1>7 DEF RequestStop
  <2>3. QED
    BY <2>1, <2>2, MoveKeeps DEF CoreTypeOK, StartPlaces
<1>8. CASE ClearRunning(c)
  <2>1. Goto(c, "returned") /\ "returned" \in Places /\ call[c].at = "clear"
    BY <1>8 DEF ClearRunning, Places, At
  <2>2. UNCHANGED <<threadStarted, joining, stopRequested, gThread, threads, target, result>>
        /\ running' \in BOOLEAN
    BY <1>8 DEF ClearRunning, CoreTypeOK
  <2>3. QED
    BY <2>1, <2>2, MoveKeeps DEF CoreTypeOK, StartPlaces
<1>9. QED
  BY <1>1, <1>2, <1>3, <1>4, <1>5, <1>6, <1>7, <1>8 DEF CallStep

(* A Java thread enters or leaves the core; a start enters alone.           *)
LEMMA EnterKeeps ==
  ASSUME CoreInv, NEW c \in Callers,
         \/ CallStart(c) /\ \A d \in Callers : call[d].op # "start"
         \/ CallStop(c)
         \/ Return(c)
  PROVE  CoreInv'
<1> USE DEF CoreInv
<1>1. PICK new \in [op : {"none", "start", "stop"}, at : {"check", "flag", "idle"}] :
        /\ call' = [call EXCEPT ![c] = new]
        /\ new.at = "check" => new.op = "start"
        /\ new.op = "start" => \A d \in Callers : call[d].op # "start"
  BY DEF CallStart, CallStop, Return, Idle
<1>2. call[c].at \in {"idle", "returned"}
  BY DEF CallStart, CallStop, Return, Idle, At
<1>3. UNCHANGED <<flags, gThread, threads, target, result, Unjoined>>
  BY DEF CallStart, CallStop, Return, Unjoined
<1>4. new \in [op : {"none", "start", "stop"}, at : Places]
  BY DEF Places
<1>5. call'[c] = new /\ \A d \in Callers \ {c} : call'[d] = call[d]
  BY <1>1 DEF CoreTypeOK
<1>6. CoreTypeOK'
  BY <1>1, <1>3, <1>4 DEF CoreTypeOK, flags
<1>7. OneStart'
  BY <1>1, <1>5 DEF OneStart, StartPlaces
<1>8. OneCoreThread'
  BY <1>3 DEF OneCoreThread
<1>9. OneJoin'
  BY <1>2, <1>3, <1>5 DEF OneJoin, At, flags
<1>10. StartedIsKnown'
  BY <1>2, <1>3, <1>5 DEF StartedIsKnown, At, flags
<1>11. QED
  BY <1>6, <1>7, <1>8, <1>9, <1>10

-----------------------------------------------------------------------------
(* The monitor of the one instance makes starts take turns.                 *)

MonitorInv ==
  /\ mainAt.at = "starting" => mainAt.inst \in Instances /\ monitor[mainAt.inst] = Main
  /\ \A i \in Instances : notifyAt[i] = "starting" => monitor[i] = Notify(i)
  /\ call[Main].op = "start" => mainAt.at = "starting"
  /\ \A i \in Instances : call[Notify(i)].op = "start" => notifyAt[i] = "starting"
  /\ \A c \in Callers : call[c].op = "start" => c \in Starters

MainPlaces == {"idle", "enter", "starting", "started", "failed", "markStopping"}

NotifyPlaces == {"none", "top", "probe", "enter", "starting", "recheck", "acquire",
                 "undo", "undoing", "sleep", "ended"}

ServiceTypes ==
  /\ mainAt \in [at : MainPlaces, inst : Nat, stopSelf : BOOLEAN]
  /\ notifyAt \in [Instances -> NotifyPlaces]
  /\ monitor \in [Instances -> Callers \union {Nobody}]

ServiceInv == CoreInv /\ ServiceTypes /\ MonitorInv

(* The names of the Java threads.                                           *)
LEMMA Names ==
  /\ Main \in Starters /\ Main \in Callers /\ Activity \in Callers
  /\ \A i \in Instances : /\ Notify(i) \in Starters /\ Notify(i) \in Callers
                         /\ StopT(i) \in Callers
                         /\ Notify(i) # Main /\ Notify(i) # Nobody
                         /\ StopT(i) # Main /\ StopT(i) # Notify(i)
                         /\ Activity # Notify(i)
  /\ Main # Nobody /\ Activity # Main
  /\ \A i, k \in Instances : Notify(i) = Notify(k) => i = k
  /\ \A i, k \in Instances : StopT(i) # Notify(k)
  /\ \A c \in Starters : c = Main \/ \E i \in Instances : c = Notify(i)
BY ServiceAssumption DEF Callers, ServiceStarters, ServiceStoppers, Main, Activity,
   Notify, StopT, Nobody

LEMMA ServiceInvInit == ServiceInit => ServiceInv
<1> SUFFICES ASSUME ServiceInit PROVE ServiceInv
  OBVIOUS
<1>1. CoreInv
  BY CoreInvInit DEF ServiceInit
<1>2. ServiceTypes
  <2>1. mainAt \in [at : MainPlaces, inst : Nat, stopSelf : BOOLEAN]
    BY DEF ServiceInit, MainIdle, MainPlaces
  <2>2. notifyAt \in [Instances -> NotifyPlaces]
    BY DEF ServiceInit, NotifyPlaces
  <2>3. monitor \in [Instances -> Callers \union {Nobody}]
    BY DEF ServiceInit
  <2>4. QED
    BY <2>1, <2>2, <2>3 DEF ServiceTypes
<1>3. \A c \in Callers : call[c].op = "none"
  BY DEF ServiceInit, CoreInit, Idle
<1>4. MonitorInv
  BY <1>3, Names DEF ServiceInit, MonitorInv, MainIdle
<1>5. QED
  BY <1>1, <1>2, <1>4 DEF ServiceInv

(* Inside the core a caller does not change its operation.                  *)
LEMMA CoreStepKeepsOps ==
  ASSUME CoreTypeOK, CoreStep
  PROVE  \A c \in Callers : call'[c].op = call[c].op
<1>1. CASE \E t \in Threads : ThreadStep(t) \/ GiveUp(t)
  BY <1>1 DEF ThreadStep, HearStop, Leave, GiveUp
<1>2. ASSUME NEW c \in Callers, CallStep(c)
      PROVE  \A d \in Callers : call'[d].op = call[d].op
  <2>1. \E place : call' = [call EXCEPT ![c].at = place]
    BY <1>2 DEF CallStep, Goto, TakeJoin, NothingToJoin, JoinThread, FinishJoin,
       CheckStale, StartRefused, StartClaimed, CreateThread, CreateFails, MarkStarted,
       RequestStop, ClearRunning
  <2>2. PICK place : call' = [call EXCEPT ![c].at = place]
    BY <2>1
  <2>3. \A d \in Callers : call'[d].op = call[d].op
    BY <2>2 DEF CoreTypeOK
  <2>4. QED
    BY <2>3
<1>3. QED
  BY <1>1, <1>2 DEF CoreStep

(* With one instance, whoever is inside startConfiguredCore holds the       *)
(* monitor; the next one to enter starts alone.                             *)
LEMMA ServiceInvStep ==
  ASSUME NEW only \in Instances, Instances = {only}, ServiceInv, [ServiceNext]_allVars
  PROVE  ServiceInv'
<1> USE DEF ServiceInv
<1>a. only \in Nat /\ only # 0
  BY ServiceAssumption
<1> CoreTypeOK
  BY DEF CoreInv
<1>1. CASE CoreStep
  <2>1. CoreInv'
    BY <1>1, CallStepKeeps, ThreadKeeps DEF CoreStep
  <2>2. UNCHANGED <<mainAt, notifyAt, monitor>>
    BY <1>1 DEF CoreStep, serviceVars
  <2>3. \A c \in Callers : call'[c].op = call[c].op
    BY <1>1, CoreStepKeepsOps
  <2>4. ServiceTypes'
    BY <2>2 DEF ServiceTypes
  <2>5. MonitorInv'
    BY <2>2, <2>3, Names DEF MonitorInv
  <2>6. QED
    BY <2>1, <2>4, <2>5
<1>2. ASSUME UNCHANGED <<coreVars, mainAt, notifyAt, monitor>> PROVE ServiceInv'
  <2>1. CoreInv'
    BY <1>2 DEF CoreInv, coreVars, flags, CoreTypeOK, OneStart, OneCoreThread, OneJoin,
       StartedIsKnown, Unjoined, At
  <2>2. ServiceTypes' /\ MonitorInv'
    BY <1>2 DEF ServiceTypes, MonitorInv, coreVars
  <2>3. QED
    BY <2>1, <2>2
<1>3. ASSUME NEW i \in Instances, StartIntent(i) \/ ConfigFails(i) \/ StartFailed(i)
                \/ StartSucceeded(i) \/ StopIntent(i) \/ DestroyService(i) \/ MarkStopping(i)
      PROVE  ServiceInv'
  <2>1. UNCHANGED <<coreVars, monitor>>
    BY <1>3 DEF StartIntent, Deliver, ConfigFails, StartFailed, StartSucceeded, StopIntent,
       DestroyService, MarkStopping
  <2>2. CoreInv'
    BY <2>1 DEF CoreInv, coreVars, flags, CoreTypeOK, OneStart, OneCoreThread, OneJoin,
       StartedIsKnown, Unjoined, At
  <2>3. mainAt' = mainAt \/ (mainAt.at # "starting" /\ mainAt'.at # "starting")
    BY <1>3 DEF StartIntent, Deliver, ConfigFails, StartFailed, StartSucceeded, StopIntent,
       DestroyService, MarkStopping, MainRuns, MainGoto, MainIdle
  <2>4. \A k \in Instances : notifyAt'[k] = notifyAt[k]
          \/ (notifyAt[k] \in {"none", "ended"} /\ notifyAt'[k] = "top")
    BY <1>3 DEF StartIntent, Deliver, ConfigFails, StartFailed, StartSucceeded, StopIntent,
       DestroyService, MarkStopping, ServiceTypes
  <2>5. ServiceTypes'
    <3>1. mainAt' = mainAt
            \/ mainAt' \in {[at |-> "idle", inst |-> 0, stopSelf |-> FALSE],
                           [at |-> "enter", inst |-> i, stopSelf |-> FALSE],
                           [at |-> "markStopping", inst |-> i, stopSelf |-> TRUE],
                           [at |-> "markStopping", inst |-> i, stopSelf |-> FALSE]}
      BY <1>3 DEF StartIntent, Deliver, ConfigFails, StartFailed, StartSucceeded, StopIntent,
         DestroyService, MarkStopping, MainGoto, MainIdle
    <3>2. notifyAt' \in [Instances -> NotifyPlaces]
      BY <1>3 DEF StartIntent, Deliver, ConfigFails, StartFailed, StartSucceeded, StopIntent,
         DestroyService, MarkStopping, ServiceTypes, NotifyPlaces
    <3>3. i \in Nat
      BY ServiceAssumption
    <3>4. mainAt' \in [at : MainPlaces, inst : Nat, stopSelf : BOOLEAN]
      <4>1. CASE mainAt' = mainAt
        BY <4>1 DEF ServiceInv, ServiceTypes
      <4>2. /\ [at |-> "idle", inst |-> 0, stopSelf |-> FALSE]
                  \in [at : MainPlaces, inst : Nat, stopSelf : BOOLEAN]
            /\ [at |-> "enter", inst |-> i, stopSelf |-> FALSE]
                  \in [at : MainPlaces, inst : Nat, stopSelf : BOOLEAN]
            /\ [at |-> "markStopping", inst |-> i, stopSelf |-> TRUE]
                  \in [at : MainPlaces, inst : Nat, stopSelf : BOOLEAN]
            /\ [at |-> "markStopping", inst |-> i, stopSelf |-> FALSE]
                  \in [at : MainPlaces, inst : Nat, stopSelf : BOOLEAN]
        BY <3>3 DEF MainPlaces
      <4>3. QED
        BY <3>1, <4>1, <4>2
    <3>5. QED
      BY <2>1, <3>2, <3>4 DEF ServiceInv, ServiceTypes
  <2>6. MonitorInv'
    BY <2>1, <2>3, <2>4 DEF MonitorInv, coreVars
  <2>7. QED
    BY <2>2, <2>5, <2>6
<1>4. ASSUME NEW i \in Instances, MainEnters(i) PROVE ServiceInv'
  <2>1. CASE running
    <3>1. UNCHANGED <<coreVars, monitor, notifyAt>> /\ mainAt.at = "enter"
          /\ mainAt' = [at |-> "started", inst |-> i, stopSelf |-> FALSE]
      BY <1>4, <2>1 DEF MainEnters, MainRuns, MainGoto
    <3>2. CoreInv'
      BY <3>1 DEF CoreInv, coreVars, flags, CoreTypeOK, OneStart, OneCoreThread, OneJoin,
         StartedIsKnown, Unjoined, At
    <3>3. ServiceTypes' /\ MonitorInv'
      BY <3>1, <1>a DEF ServiceTypes, MonitorInv, coreVars, MainPlaces
    <3>4. QED
      BY <3>2, <3>3
  <2>2. CASE ~running
    <3>1. /\ monitor[i] = Nobody /\ CallStart(Main) /\ i = only
          /\ monitor' = [monitor EXCEPT ![i] = Main]
          /\ mainAt' = [at |-> "starting", inst |-> i, stopSelf |-> FALSE]
          /\ UNCHANGED notifyAt
      BY <1>4, <2>2 DEF MainEnters, MainGoto
    <3>2. call[Main].op = "none" /\ call' = [call EXCEPT ![Main] = [op |-> "start", at |-> "check"]]
      BY <3>1 DEF CallStart, Idle
    <3>3. \A c \in Callers : call[c].op # "start"
      BY <3>1, <3>2, Names DEF MonitorInv
    <3>4. CoreInv'
      BY <3>1, <3>3, EnterKeeps, Names
    <3>5. ServiceTypes'
      BY <3>1, <1>a, Names DEF ServiceTypes, MainPlaces
    <3>6. MonitorInv'
      <4>1. \A k \in Instances : notifyAt[k] # "starting"
        BY <3>1, Names DEF MonitorInv
      <4>2. monitor'[i] = Main
        BY <3>1 DEF ServiceTypes
      <4>3. \A c \in Callers \ {Main} : call'[c].op # "start"
        BY <3>2, <3>3 DEF CoreTypeOK
      <4>4. QED
        BY <3>1, <4>1, <4>2, <4>3, Names DEF MonitorInv
    <3>7. QED
      BY <3>4, <3>5, <3>6
  <2>3. QED
    BY <2>1, <2>2
<1>5. ASSUME NEW i \in Instances, MainStartReturns(i) PROVE ServiceInv'
  <2>1. /\ mainAt.at = "starting" /\ mainAt.inst = i /\ Return(Main) /\ i = only
        /\ monitor' = [monitor EXCEPT ![i] = Nobody]
        /\ mainAt' = [at |-> IF result[Main] THEN "started" ELSE "failed", inst |-> i,
                      stopSelf |-> FALSE]
        /\ UNCHANGED notifyAt
    BY <1>5 DEF MainStartReturns, MainRuns, MainGoto
  <2>2. CoreInv'
    BY <2>1, EnterKeeps, Names
  <2>3. ServiceTypes'
    BY <2>1, <1>a DEF ServiceTypes, MainPlaces
  <2>4. MonitorInv'
    <3>1. monitor[i] = Main /\ \A k \in Instances : notifyAt[k] # "starting"
      BY <2>1, Names DEF MonitorInv
    <3>2. call'[Main].op = "none" /\ \A c \in Callers \ {Main} : call'[c] = call[c]
      BY <2>1, Names DEF Return, Idle, CoreTypeOK
    <3>3. QED
      BY <2>1, <3>1, <3>2, Names DEF MonitorInv
  <2>5. QED
    BY <2>2, <2>3, <2>4
<1>6. ASSUME NEW c \in Callers, CallStop(c) \/ Return(c),
             UNCHANGED <<mainAt, monitor>>,
             \A k \in Instances : notifyAt[k] # "starting" \/ c # Notify(k),
             \A k \in Instances : notifyAt'[k] = notifyAt[k] \/
                                  (notifyAt[k] # "starting" /\ notifyAt'[k] # "starting"),
             notifyAt' \in [Instances -> NotifyPlaces]
      PROVE  ServiceInv'
  <2>1. CoreInv'
    BY <1>6, EnterKeeps
  <2>2. call'[c].op # "start" /\ \A d \in Callers \ {c} : call'[d] = call[d]
    BY <1>6 DEF CallStop, Return, Idle, CoreTypeOK
  <2>3. ServiceTypes'
    BY <1>6 DEF ServiceTypes
  <2>4. MonitorInv'
    BY <1>6, <2>2, Names DEF MonitorInv
  <2>5. QED
    BY <2>1, <2>3, <2>4
<1>7. ASSUME NEW i \in Instances, StopThreadCalls(i) \/ StopThreadEnds(i) PROVE ServiceInv'
  <2>1. (CallStop(StopT(i)) \/ Return(StopT(i))) /\ UNCHANGED <<mainAt, monitor, notifyAt>>
    BY <1>7 DEF StopThreadCalls, StopThreadEnds
  <2>2. QED
    BY <1>6, <2>1, Names DEF ServiceTypes
<1>8. CASE TapStop \/ FallbackEnds
  <2>1. UNCHANGED <<mainAt, monitor, notifyAt>>
        /\ (UNCHANGED coreVars \/ CallStop(Activity) \/ Return(Activity))
    BY <1>8 DEF TapStop, FallbackStops, FallbackEnds, UnchangedByActivity
  <2>2. CASE UNCHANGED coreVars
    BY <1>2, <2>1, <2>2
  <2>3. CASE CallStop(Activity) \/ Return(Activity)
    BY <1>6, <2>1, <2>3, Names DEF ServiceTypes
  <2>4. QED
    BY <2>1, <2>2, <2>3
<1>9. ASSUME NEW i \in Instances, NotifyUndoes(i) \/ NotifyUndone(i) PROVE ServiceInv'
  <2>1. /\ CallStop(Notify(i)) \/ Return(Notify(i))
        /\ UNCHANGED <<mainAt, monitor>>
        /\ notifyAt[i] \in {"undo", "undoing"} /\ i = only
        /\ \E place \in {"undoing", "sleep"} : notifyAt' = [notifyAt EXCEPT ![i] = place]
    BY <1>9 DEF NotifyUndoes, NotifyUndone, UnchangedByNotify, NotifyGoto
  <2>2. /\ notifyAt' \in [Instances -> NotifyPlaces]
        /\ notifyAt'[i] # "starting"
    BY <2>1 DEF ServiceTypes, NotifyPlaces
  <2>3. QED
    BY <1>6, <2>1, <2>2, Names
<1>10. ASSUME NEW i \in Instances, UNCHANGED <<coreVars, mainAt, monitor>>,
              notifyAt[i] # "starting",
              NEW place \in NotifyPlaces \ {"starting"}, NotifyGoto(i, place)
       PROVE  ServiceInv'
  <2>1. CoreInv'
    BY <1>10 DEF CoreInv, coreVars, flags, CoreTypeOK, OneStart, OneCoreThread, OneJoin,
       StartedIsKnown, Unjoined, At
  <2>2. ServiceTypes'
    BY <1>10 DEF ServiceTypes, NotifyGoto
  <2>3. MonitorInv'
    BY <1>10 DEF MonitorInv, ServiceTypes, NotifyGoto, coreVars
  <2>4. QED
    BY <2>1, <2>2, <2>3
<1>11. ASSUME NEW i \in Instances,
              \/ NotifyTop(i) \/ NotifyHasNothingToDo(i) \/ NotifySeesCoreDown(i)
              \/ NotifyRechecks(i) \/ NotifyAcquires(i) \/ NotifyWakes(i)
       PROVE  ServiceInv'
  <2>1. /\ UNCHANGED <<coreVars, mainAt, monitor>>
        /\ notifyAt[i] # "starting"
        /\ \E place \in {"ended", "probe", "sleep", "enter", "undo", "acquire", "top"} :
             NotifyGoto(i, place)
    BY <1>11 DEF NotifyTop, NotifyHasNothingToDo, NotifySeesCoreDown, NotifyRechecks,
       NotifyAcquires, NotifyWakes, UnchangedByNotify
  <2>2. QED
    BY <1>10, <2>1 DEF NotifyPlaces
<1>12. ASSUME NEW i \in Instances, NotifyEnters(i) PROVE ServiceInv'
  <2>1. CASE running
    <3>1. NotifyGoto(i, "recheck") /\ notifyAt[i] = "enter"
          /\ UNCHANGED <<coreVars, mainAt, monitor>>
      BY <1>12, <2>1 DEF NotifyEnters, UnchangedByNotify
    <3>2. QED
      BY <1>10, <3>1 DEF NotifyPlaces
  <2>2. CASE ~running
    <3>1. /\ monitor[i] = Nobody /\ CallStart(Notify(i)) /\ i = only
          /\ monitor' = [monitor EXCEPT ![i] = Notify(i)]
          /\ notifyAt' = [notifyAt EXCEPT ![i] = "starting"]
          /\ UNCHANGED mainAt
      BY <1>12, <2>2 DEF NotifyEnters, NotifyGoto, UnchangedByNotify
    <3>2. call[Notify(i)].op = "none"
          /\ call' = [call EXCEPT ![Notify(i)] = [op |-> "start", at |-> "check"]]
      BY <3>1 DEF CallStart, Idle
    <3>3. mainAt.at # "starting"
      BY <3>1, Names DEF MonitorInv
    <3>4. \A c \in Callers : call[c].op # "start"
      BY <3>1, <3>2, <3>3, Names DEF MonitorInv
    <3>5. CoreInv'
      BY <3>1, <3>4, EnterKeeps, Names
    <3>6. ServiceTypes'
      BY <3>1, Names DEF ServiceTypes, NotifyPlaces
    <3>7. MonitorInv'
      <4>1. monitor'[i] = Notify(i) /\ notifyAt'[i] = "starting"
        BY <3>1 DEF ServiceTypes
      <4>2. \A c \in Callers \ {Notify(i)} : call'[c].op # "start"
        BY <3>2, <3>4 DEF CoreTypeOK
      <4>3. QED
        BY <3>1, <3>3, <4>1, <4>2, Names DEF MonitorInv
    <3>8. QED
      BY <3>5, <3>6, <3>7
  <2>3. QED
    BY <2>1, <2>2
<1>13. ASSUME NEW i \in Instances, NotifyStartReturns(i) PROVE ServiceInv'
  <2>1. /\ notifyAt[i] = "starting" /\ Return(Notify(i)) /\ i = only
        /\ monitor' = [monitor EXCEPT ![i] = Nobody]
        /\ notifyAt' = [notifyAt EXCEPT ![i] = "recheck"]
        /\ UNCHANGED mainAt
    BY <1>13 DEF NotifyStartReturns, NotifyGoto, UnchangedByNotify
  <2>2. CoreInv'
    BY <2>1, EnterKeeps, Names
  <2>3. ServiceTypes'
    BY <2>1 DEF ServiceTypes, NotifyPlaces
  <2>4. MonitorInv'
    <3>1. mainAt.at # "starting" /\ notifyAt'[i] # "starting"
      BY <2>1, Names DEF MonitorInv, ServiceTypes
    <3>2. call'[Notify(i)].op = "none"
          /\ \A c \in Callers \ {Notify(i)} : call'[c] = call[c]
      BY <2>1, Names DEF Return, Idle, CoreTypeOK
    <3>3. QED
      BY <2>1, <3>1, <3>2, Names DEF MonitorInv
  <2>5. QED
    BY <2>2, <2>3, <2>4
<1>14. CASE UNCHANGED allVars
  BY <1>2, <1>14 DEF allVars, serviceVars
<1>15. CASE TapStart \/ RefreshUi \/ OpenActivity
  BY <1>2, <1>15 DEF TapStart, RefreshUi, OpenActivity, UnchangedByActivity
<1>16. QED
  BY <1>1, <1>3, <1>4, <1>5, <1>7, <1>8, <1>9, <1>11, <1>12, <1>13, <1>14, <1>15
  DEF ServiceNext, IntentStep, UserStep, MainStep, StopThreadStep, NotifyStep

-----------------------------------------------------------------------------
(* There is never more than one core thread, mining or waiting to be        *)
(* joined, and g_thread names it, for any number of pthread identities.     *)
THEOREM OneThread ==
  ASSUME NEW only \in Instances, Instances = {only}
  PROVE  ServiceSpec => []OneCoreThread
<1>1. ServiceInit => ServiceInv
  BY ServiceInvInit
<1>2. ServiceInv /\ [ServiceNext]_allVars => ServiceInv'
  BY ServiceInvStep
<1>3. ServiceInv => OneCoreThread
  BY DEF ServiceInv, CoreInv
<1>4. QED
  BY <1>1, <1>2, <1>3, PTL DEF ServiceSpec

(* pthread_join is called once for a core thread, whichever of the threads  *)
(* that start and stop the core comes to it.                                *)
THEOREM ThreadsAreJoinedOnce ==
  ASSUME NEW only \in Instances, Instances = {only}
  PROVE  ServiceSpec => []JoinedOnce
<1>1. ServiceInit => ServiceInv
  BY ServiceInvInit
<1>2. ServiceInv /\ [ServiceNext]_allVars => ServiceInv'
  BY ServiceInvStep
<1>3. ServiceInv => JoinedOnce
  BY DEF ServiceInv, CoreInv, OneJoin, JoinedOnce, At
<1>4. QED
  BY <1>1, <1>2, <1>3, PTL DEF ServiceSpec

(* The start that withdraws a stop request finds no core thread that could  *)
(* have been told to stop.                                                  *)
LEMMA WithdrawnFromNone ==
  ASSUME ServiceInv, [ServiceNext]_allVars, stopRequested, ~stopRequested'
  PROVE  Unjoined = {}
<1>1. PICK c \in Callers : StartClaimed(c)
  BY DEF ServiceNext, CoreStep, CallStep, ThreadStep, TakeJoin, NothingToJoin, JoinThread,
     FinishJoin, CheckStale, StartRefused, CreateThread, CreateFails, MarkStarted,
     RequestStop, ClearRunning, HearStop, Leave, GiveUp, IntentStep, UserStep,
     MainStep, TapStart, TapStop, RefreshUi, OpenActivity, UnchangedByActivity,
     StopThreadStep, NotifyStep, StartIntent, Deliver, ConfigFails, StopIntent, MainEnters,
     MainStartReturns, StartFailed, StartSucceeded, MarkStopping, DestroyService,
     StopThreadCalls, StopThreadEnds, FallbackStops, FallbackEnds, NotifyTop,
     NotifyHasNothingToDo, NotifySeesCoreDown, NotifyEnters, NotifyStartReturns,
     NotifyRechecks, NotifyAcquires, NotifyUndoes, NotifyUndone, NotifyWakes,
     CallStart, CallStop, Return, allVars, coreVars, flags
<1>2. QED
  BY <1>1, ClaimFindsNone DEF ServiceInv

(* A stop request is never withdrawn from a living core thread: what was    *)
(* told to stop is never told to go on.                                     *)
THEOREM StopsStand ==
  ASSUME NEW only \in Instances, Instances = {only}
  PROVE  ServiceSpec => StopIsNotWithdrawn
<1>1. ServiceInit => ServiceInv
  BY ServiceInvInit
<1>2. ServiceInv /\ [ServiceNext]_allVars => ServiceInv'
  BY ServiceInvStep
<1>3. ServiceInv /\ [ServiceNext]_allVars
        => [stopRequested /\ ~stopRequested' => Unjoined = {}]_coreVars
  BY WithdrawnFromNone
<1>4. QED
  BY <1>1, <1>2, <1>3, PTL DEF ServiceSpec, StopIsNotWithdrawn
=============================================================================
