-------------------------------- MODULE RunCore --------------------------------
(***************************************************************************)
(* The core thread, run_core of cpp/btcrig_core_full.c: one pool session   *)
(* after the other, with retries, a pause after each failure, alternating  *)
(* user and donation phases, and the statistics that outlive a session     *)
(* (update_stats).                                                         *)
(*                                                                         *)
(* A session is what Stratum says of stratum_run_client: it publishes      *)
(* snapshots of its counters, from zero, and returns 0 when it was stopped *)
(* or its phase is over, and something else when it failed.                *)
(***************************************************************************)
EXTENDS Integers, FiniteSets

CONSTANTS
  Counters,     (* hashes, jobs, submits, accepts, rejects                  *)
  RetryLimits,  (* values of "retries"; a negative one sets no limit        *)
  MaxSessions,  (* bound of the model: sessions of one run                  *)
  MaxCount      (* bound of the model: what one session counts              *)

ASSUME RunAssumption ==
  RetryLimits \subseteq Int /\ MaxSessions \in Nat /\ MaxCount \in Nat

VARIABLES
  config,      (* g_config: retries, donation enabled, a pool configured    *)
  at,          (* where the core thread is                                  *)
  stop,        (* g_stop_requested                                          *)
  attempt, donating,
  phase,       (* phase_seconds: none, first (random), user, donate         *)
  counts,      (* the session's own counters                                *)
  base, conn, total, connected,     (* g_stats                              *)
  sessions,    (* history: sessions begun,                                  *)
  userPhases,  (* user phases completed, donation sessions begun,           *)
  donations,
  earlier,     (* what earlier sessions published last,                     *)
  shown        (* and what this one did                                     *)

threadVars == <<config, attempt, donating, phase>>
statVars   == <<base, conn, total, connected, shown>>
pastVars   == <<sessions, userPhases, donations, earlier>>
vars == <<threadVars, at, stop, counts, statVars, pastVars>>

Zero == [c \in Counters |-> 0]
Plus(f, g) == [c \in Counters |-> f[c] + g[c]]

Configs == [retries : RetryLimits, donation : BOOLEAN, pool : BOOLEAN]

(* btcrig_core_start resets the statistics, run_core its own variables.     *)
Init ==
  /\ config \in Configs
  /\ at = "loop" /\ stop = FALSE /\ attempt = 0 /\ donating = FALSE
  /\ phase = IF config.donation THEN "first" ELSE "none"
  /\ counts = Zero /\ base = Zero /\ conn = Zero /\ total = Zero
  /\ connected = FALSE
  /\ sessions = 0 /\ userPhases = 0 /\ donations = 0
  /\ earlier = Zero /\ shown = Zero

-----------------------------------------------------------------------------
(* The loop of run_core.                                                   *)

LimitReached == config.retries >= 0 /\ attempt > config.retries

MustLeave == ~config.pool \/ LimitReached

(* Mutant of Leave: only the thread's own reasons count.                    *)
LeaveUnasked ==
  /\ at = "loop"
  /\ MustLeave
  /\ at' = "ended"
  /\ UNCHANGED <<threadVars, stop, counts, statVars, pastVars>>

Leave ==
  /\ at = "loop"
  /\ stop \/ MustLeave
  /\ at' = "ended"
  /\ UNCHANGED <<threadVars, stop, counts, statVars, pastVars>>

StartSession ==
  /\ at = "loop"
  /\ ~stop /\ ~MustLeave
  /\ sessions < MaxSessions
  /\ at' = "connect"
  /\ attempt' = attempt + 1
  /\ counts' = Zero
  /\ sessions' = sessions + 1
  /\ donations' = IF donating THEN donations + 1 ELSE donations
  /\ shown' = Zero
  /\ earlier' = Plus(earlier, shown)
  /\ UNCHANGED <<config, donating, phase, stop, base, conn, total, connected,
                 userPhases>>

-----------------------------------------------------------------------------
(* The session and update_stats.                                           *)

(* Mutant of RolledOver: every counter has to fall.                         *)
AllFell(snapshot) == \A c \in Counters : snapshot[c] < conn[c]
RolledOver(snapshot) == \E c \in Counters : snapshot[c] < conn[c]

UpdateStats(snapshot, authorized) ==
  /\ base' = IF RolledOver(snapshot) THEN Plus(base, conn) ELSE base
  /\ conn' = snapshot
  /\ total' = Plus(base', snapshot)
  /\ connected' = authorized
  /\ shown' = snapshot

(* The first snapshot of a session, before its engine starts.               *)
SessionOpens ==
  /\ at = "connect"
  /\ at' = "session"
  /\ UpdateStats(Zero, FALSE)
  /\ UNCHANGED <<threadVars, stop, counts, pastVars>>

SessionWorks ==
  /\ at = "session"
  /\ \E c \in Counters :
       /\ counts[c] < MaxCount
       /\ counts' = [counts EXCEPT ![c] = @ + 1]
  /\ UNCHANGED <<threadVars, at, stop, statVars, pastVars>>

Publish ==
  /\ at = "session"
  /\ \E authorized \in BOOLEAN : UpdateStats(counts, authorized)
  /\ UNCHANGED <<threadVars, at, stop, counts, pastVars>>

(* The url is wrong, or nothing answers there.                              *)
ConnectFails ==
  /\ at = "connect"
  /\ at' = "failure"
  /\ UNCHANGED <<threadVars, stop, counts, statVars, pastVars>>

(* The engine could not start: no last snapshot.                            *)
EngineFails ==
  /\ at = "session"
  /\ counts = Zero
  /\ at' = "failure"
  /\ UNCHANGED <<threadVars, stop, counts, statVars, pastVars>>

(* cleanup publishes once more.  Only a timed session is ever complete.     *)
SessionEnds ==
  /\ at = "session"
  /\ at' \in {"failure", "success"}
  /\ at' = "success" => stop \/ phase # "none"
  /\ \E authorized \in BOOLEAN : UpdateStats(counts, authorized)
  /\ UNCHANGED <<threadVars, stop, counts, pastVars>>

-----------------------------------------------------------------------------
(* After a session.  mark_disconnected comes first in each case.            *)

LeaveAfterSession ==
  /\ at \in {"failure", "success"}
  /\ stop
  /\ at' = "ended"
  /\ connected' = FALSE
  /\ UNCHANGED <<threadVars, stop, counts, base, conn, total, shown, pastVars>>

PhaseFor(donate) == IF donate THEN "donate" ELSE "user"

(* A phase is over: the other one is next, and the retries count anew.      *)
NextPhase ==
  /\ at = "success"
  /\ ~stop
  /\ config.donation
  /\ donating' = ~donating
  /\ phase' = PhaseFor(donating')
  /\ attempt' = 0
  /\ at' = "loop"
  /\ connected' = FALSE
  /\ userPhases' = IF donating THEN userPhases ELSE userPhases + 1
  /\ UNCHANGED <<config, stop, counts, base, conn, total, shown, sessions,
                 donations, earlier>>

(* Mutant of PhaseAfterFailure: a broken donation session is tried again.   *)
TriesAgain == UNCHANGED <<donating, phase>>
(* A broken donation session is not repeated; a broken user session begins  *)
(* its phase anew.                                                          *)
PhaseAfterFailure ==
  IF donating THEN donating' = FALSE /\ phase' = PhaseFor(FALSE)
              ELSE UNCHANGED <<donating, phase>>

Reconnect ==
  /\ at = "failure"
  /\ ~stop
  /\ PhaseAfterFailure
  /\ at' = "pause"
  /\ connected' = FALSE
  /\ UNCHANGED <<config, attempt, stop, counts, base, conn, total, shown, pastVars>>

(* retry_pause seconds, or a stop.                                          *)
PauseEnds ==
  /\ at = "pause"
  /\ at' = "loop"
  /\ UNCHANGED <<threadVars, stop, counts, statVars, pastVars>>

-----------------------------------------------------------------------------
(* Outside: btcrig_core_stop.                                              *)

RequestStop ==
  /\ ~stop
  /\ stop' = TRUE
  /\ UNCHANGED <<threadVars, at, counts, statVars, pastVars>>

(* The next start resets all of this.                                       *)
Ended ==
  /\ at = "ended"
  /\ UNCHANGED vars

AfterSession == LeaveAfterSession \/ NextPhase \/ Reconnect \/ PauseEnds

Next ==
  \/ Leave \/ StartSession
  \/ SessionOpens \/ SessionWorks \/ Publish
  \/ ConnectFails \/ EngineFails \/ SessionEnds
  \/ AfterSession \/ RequestStop \/ Ended

(* The core thread runs, and a session that is asked to stop ends: its loop *)
(* looks at stop_requested between any two reads of 200 ms.                 *)
Fairness ==
  /\ WF_vars(Leave \/ StartSession \/ SessionOpens \/ ConnectFails \/ AfterSession)
  /\ WF_vars(SessionEnds /\ stop)

Spec     == Init /\ [][Next]_vars
FairSpec == Spec /\ Fairness

-----------------------------------------------------------------------------
(* Properties.                                                             *)

(* The totals shown to the user are the sums over all sessions of this run, *)
(* however they ended, whether or not they ever connected, and whatever the *)
(* order in which their snapshots rose.                                     *)
TotalsAreSums == total = Plus(earlier, shown)

(* The donation address is mined for only after a complete user phase, once *)
(* for each and not again when that session breaks, and always for the      *)
(* donation period; without donation, never.                                *)
DonationIsEarned ==
  /\ donations <= userPhases /\ userPhases <= donations + 1
  /\ donating <=> phase = "donate"
  /\ userPhases > 0 => config.donation

(* A stop request ends the core thread, in a session, in the pause or       *)
(* between them.                                                            *)
StopEndsCore == stop ~> at = "ended"
=============================================================================
