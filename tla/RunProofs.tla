------------------------------ MODULE RunProofs ------------------------------
(* Theorems about the core thread, for any counters, any number of sessions *)
(* and any retry limits.                                                    *)
EXTENDS RunCore, TLAPS

-----------------------------------------------------------------------------
(* The statistics.                                                          *)

Tallies == [Counters -> Nat]

(* update_stats knows of sessions only what their snapshots show: base and  *)
(* conn together are the total, and while a session is open base is what    *)
(* the earlier ones came to and conn no more than it counted.               *)
SumInv ==
  /\ counts \in Tallies /\ base \in Tallies /\ conn \in Tallies
  /\ total \in Tallies /\ earlier \in Tallies /\ shown \in Tallies
  /\ total = Plus(base, conn)
  /\ total = Plus(earlier, shown)
  /\ at = "connect" => shown = Zero
  /\ at = "session" => /\ base = earlier /\ conn = shown
                       /\ \A c \in Counters : conn[c] <= counts[c]

LEMMA ZeroTallies == Zero \in Tallies /\ \A c \in Counters : Zero[c] = 0
BY DEF Zero, Tallies

LEMMA PlusTallies ==
  ASSUME NEW f \in Tallies, NEW g \in Tallies
  PROVE  Plus(f, g) \in Tallies /\ \A c \in Counters : Plus(f, g)[c] = f[c] + g[c]
BY DEF Plus, Tallies

LEMMA PlusZero ==
  ASSUME NEW f \in Tallies
  PROVE  Plus(f, Zero) = f
BY DEF Plus, Zero, Tallies

(* What a snapshot of nothing does: conn moves into base, whether or not a  *)
(* counter fell.                                                            *)
LEMMA SumOpens ==
  ASSUME SumInv, SessionOpens PROVE SumInv'
<1>1. at = "connect" /\ at' = "session" /\ shown = Zero /\ UNCHANGED <<counts, earlier>>
  BY DEF SumInv, SessionOpens, pastVars
<1>2. conn' = Zero /\ shown' = Zero /\ total' = Plus(base', Zero)
      /\ base' = IF RolledOver(Zero) THEN Plus(base, conn) ELSE base
  BY DEF SessionOpens, UpdateStats
<1>3. earlier = total /\ earlier = Plus(base, conn)
  BY <1>1, PlusZero DEF SumInv
<1>4. base' = earlier
  <2>1. CASE RolledOver(Zero)
    BY <1>2, <1>3, <2>1
  <2>2. CASE ~RolledOver(Zero)
    <3>1. \A c \in Counters : conn[c] = 0
      BY <2>2, ZeroTallies DEF RolledOver, SumInv, Tallies
    <3>2. conn = Zero
      BY <3>1 DEF Zero, SumInv, Tallies
    <3>3. QED
      BY <1>2, <1>3, <2>2, <3>2, PlusZero DEF SumInv
  <2>3. QED
    BY <2>1, <2>2
<1>5. total' = earlier /\ Plus(earlier, Zero) = earlier
  BY <1>2, <1>4, PlusZero DEF SumInv
<1>6. \A c \in Counters : Zero[c] <= counts[c]
  BY ZeroTallies DEF SumInv, Tallies
<1>7. QED
  BY <1>1, <1>2, <1>4, <1>5, <1>6, ZeroTallies DEF SumInv

(* Within a session no counter falls, so base stays and conn follows.       *)
LEMMA SumUpdates ==
  ASSUME SumInv, at = "session", NEW authorized \in BOOLEAN,
         UpdateStats(counts, authorized), UNCHANGED <<counts, earlier>>,
         at' \in {"session", "failure", "success"}
  PROVE  SumInv'
<1>1. ~RolledOver(counts)
  BY DEF SumInv, RolledOver, Tallies
<1>2. base' = base /\ conn' = counts /\ shown' = counts /\ total' = Plus(base, counts)
  BY <1>1 DEF UpdateStats
<1>3. base = earlier /\ Plus(base, counts) \in Tallies
  BY PlusTallies DEF SumInv
<1>4. \A c \in Counters : counts[c] <= counts[c]
  BY DEF SumInv, Tallies
<1>5. QED
  BY <1>2, <1>3, <1>4 DEF SumInv

LEMMA SumInvStep == SumInv /\ [Next]_vars => SumInv'
<1> SUFFICES ASSUME SumInv, [Next]_vars PROVE SumInv'
  OBVIOUS
<1> USE DEF statVars, pastVars, threadVars
<1>1. CASE StartSession
  <2>1. at' = "connect" /\ counts' = Zero /\ shown' = Zero
        /\ earlier' = Plus(earlier, shown) /\ UNCHANGED <<base, conn, total>>
    BY <1>1 DEF StartSession
  <2>2. earlier' \in Tallies /\ total = earlier'
    BY <2>1, PlusTallies DEF SumInv
  <2>3. Plus(earlier', Zero) = earlier'
    BY <2>2, PlusZero
  <2>4. QED
    BY <2>1, <2>2, <2>3, ZeroTallies DEF SumInv
<1>2. CASE SessionOpens
  BY <1>2, SumOpens
<1>3. CASE SessionWorks
  <2>1. PICK c \in Counters : counts' = [counts EXCEPT ![c] = @ + 1]
    BY <1>3 DEF SessionWorks
  <2>2. at = "session" /\ UNCHANGED <<at, base, conn, total, shown, earlier>>
    BY <1>3 DEF SessionWorks
  <2>3. counts' \in Tallies /\ \A d \in Counters : counts[d] <= counts'[d]
    BY <2>1 DEF SumInv, Tallies
  <2>4. \A d \in Counters : conn[d] <= counts'[d]
    BY <2>2, <2>3 DEF SumInv, Tallies
  <2>5. QED
    BY <2>2, <2>3, <2>4 DEF SumInv
<1>4. CASE Publish
  BY <1>4, SumUpdates DEF Publish
<1>5. CASE SessionEnds
  BY <1>5, SumUpdates DEF SessionEnds
<1>6. CASE Leave \/ ConnectFails \/ EngineFails \/ AfterSession
  <2>1. UNCHANGED <<counts, base, conn, total, shown, earlier>>
        /\ at' \notin {"connect", "session"}
    BY <1>6 DEF Leave, ConnectFails, EngineFails, AfterSession, LeaveAfterSession,
       NextPhase, Reconnect, PauseEnds
  <2>2. QED
    BY <2>1 DEF SumInv
<1>7. CASE RequestStop \/ Ended \/ UNCHANGED vars
  <2>1. UNCHANGED <<at, counts, base, conn, total, shown, earlier>>
    BY <1>7 DEF RequestStop, Ended, vars
  <2>2. QED
    BY <2>1 DEF SumInv
<1>8. QED
  BY <1>1, <1>2, <1>3, <1>4, <1>5, <1>6, <1>7 DEF Next

(* The totals are the sums over all sessions, whatever the order in which   *)
(* their counters rose, failed or were never published.                     *)
THEOREM TotalsAreAlwaysSums == Spec => []TotalsAreSums
<1>1. Init => SumInv
  <2> SUFFICES ASSUME Init PROVE SumInv
    OBVIOUS
  <2>1. Plus(Zero, Zero) = Zero
    BY ZeroTallies, PlusZero
  <2>2. QED
    BY <2>1, ZeroTallies DEF Init, SumInv
<1>2. SumInv /\ [Next]_vars => SumInv'
  BY SumInvStep
<1>3. SumInv => TotalsAreSums
  BY DEF SumInv, TotalsAreSums
<1>4. QED
  BY <1>1, <1>2, <1>3, PTL DEF Spec

-----------------------------------------------------------------------------
(* The phases.                                                              *)

(* A donation phase that has begun is paid for by the user phase before it, *)
(* and is over as soon as its session is.                                   *)
PhaseInv ==
  /\ userPhases \in Nat /\ donations \in Nat
  /\ donating <=> phase = "donate"
  /\ \/ userPhases = donations
     \/ donating /\ at \in {"loop", "ended"} /\ userPhases = donations + 1
  /\ donating /\ at = "loop" => userPhases = donations + 1
  /\ at = "pause" => ~donating
  /\ donating \in BOOLEAN
  /\ userPhases > 0 => config.donation

LEMMA PhaseInvStep == PhaseInv /\ [Next]_vars => PhaseInv'
<1> SUFFICES ASSUME PhaseInv, [Next]_vars PROVE PhaseInv'
  OBVIOUS
<1> USE DEF statVars, pastVars, threadVars
<1>1. CASE StartSession
  BY <1>1 DEF StartSession, PhaseInv
<1>2. CASE SessionOpens \/ SessionWorks \/ Publish \/ SessionEnds
  <2>1. UNCHANGED <<threadVars, userPhases, donations>>
        /\ at \in {"connect", "session"} /\ at' \in {"session", "failure", "success"}
    BY <1>2 DEF SessionOpens, SessionWorks, Publish, SessionEnds
  <2>2. QED
    BY <2>1 DEF PhaseInv
<1>3. CASE ConnectFails \/ EngineFails
  BY <1>3 DEF ConnectFails, EngineFails, PhaseInv
<1>4. CASE Leave \/ LeaveAfterSession
  BY <1>4 DEF Leave, LeaveAfterSession, PhaseInv
<1>5. CASE NextPhase
  <2>1. at = "success" /\ at' = "loop" /\ config.donation
        /\ UNCHANGED <<config, donations>> /\ donating' = ~donating
        /\ phase' = PhaseFor(donating')
        /\ userPhases' = IF donating THEN userPhases ELSE userPhases + 1
    BY <1>5 DEF NextPhase
  <2>2. userPhases = donations
    BY <2>1 DEF PhaseInv
  <2>3. CASE donating
    <3>1. ~donating' /\ donating' \in BOOLEAN /\ phase' # "donate" /\ userPhases' = userPhases
      BY <2>1, <2>3 DEF PhaseFor
    <3>2. QED
      BY <2>1, <2>2, <3>1 DEF PhaseInv
  <2>4. CASE ~donating
    <3>1. donating' /\ donating' \in BOOLEAN /\ phase' = "donate"
          /\ userPhases' = userPhases + 1
      BY <2>1, <2>4 DEF PhaseFor
    <3>2. QED
      BY <2>1, <2>2, <3>1 DEF PhaseInv
  <2>5. QED
    BY <2>3, <2>4
<1>6. CASE Reconnect
  <2>1. at = "failure" /\ at' = "pause" /\ UNCHANGED <<config, donations, userPhases>>
        /\ userPhases = donations
    BY <1>6 DEF Reconnect, PhaseInv
  <2>2. ~donating' /\ phase' # "donate"
    <3>1. CASE donating
      BY <1>6, <3>1 DEF Reconnect, PhaseAfterFailure, PhaseFor
    <3>2. CASE ~donating
      BY <1>6, <3>2 DEF Reconnect, PhaseAfterFailure, PhaseInv
    <3>3. QED
      BY <3>1, <3>2
  <2>3. donating' \in BOOLEAN
    BY <1>6 DEF Reconnect, PhaseAfterFailure, PhaseInv
  <2>4. QED
    BY <2>1, <2>2, <2>3 DEF PhaseInv
<1>7. CASE PauseEnds
  BY <1>7 DEF PauseEnds, PhaseInv
<1>8. CASE RequestStop \/ Ended \/ UNCHANGED vars
  <2>1. UNCHANGED <<threadVars, at, userPhases, donations>>
    BY <1>8 DEF RequestStop, Ended, vars
  <2>2. QED
    BY <2>1 DEF PhaseInv
<1>9. QED
  BY <1>1, <1>2, <1>3, <1>4, <1>5, <1>6, <1>7, <1>8 DEF Next, AfterSession

(* Every donation session follows a user phase of its own, whatever breaks, *)
(* is retried or is stopped.                                                *)
THEOREM DonationsAreEarned == Spec => []DonationIsEarned
<1>1. Init => PhaseInv
  <2> SUFFICES ASSUME Init PROVE PhaseInv
    OBVIOUS
  <2>1. ~donating /\ donating \in BOOLEAN
    BY DEF Init
  <2>2. phase # "donate" /\ userPhases = 0 /\ donations = 0
    BY DEF Init
  <2>3. QED
    BY <2>1, <2>2 DEF PhaseInv
<1>2. PhaseInv /\ [Next]_vars => PhaseInv'
  BY PhaseInvStep
<1>3. PhaseInv => DonationIsEarned
  BY DEF PhaseInv, DonationIsEarned
<1>4. QED
  BY <1>1, <1>2, <1>3, PTL DEF Spec
=============================================================================
