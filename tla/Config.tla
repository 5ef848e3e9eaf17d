------------------------------- MODULE Config -------------------------------
(* The settings: config.json as BtcrigConfig.java keeps it, the activity and *)
(* the service that read and rewrite it, and read_config of                  *)
(* btcrig_core_full.c, which reads the same file for the miner.              *)
(*                                                                           *)
(* A text is a function from Keys to values or Absent, an object being there *)
(* when one of its keys is. A pool stands for its URL, user and password.    *)
(* The file is rewritten in place: truncated when it is opened, filled by    *)
(* the write, so another thread, the next process after a kill, or whoever   *)
(* reads it after a write that failed, may find it empty. A write stores the *)
(* whole text or, failing, nothing of it.                                    *)
EXTENDS Integers

CONSTANTS
  Cores,          (* available processors                                    *)
  Watchers,       (* {} or {"notify"}: the service's notification thread     *)
  Edits,          (* texts typed into the JSON editor                        *)
  Threads, Donations, Diffs,  (* what the settings page offers               *)
  DefaultDiff,
  Absent,         (* no such key, nothing in the file                        *)
  MaxSaves        (* bound of the model: saves and edits of the user         *)

Keys == {"engine", "cpu.enabled", "cpu.threads", "cpu_threads", "opencl.enabled",
         "tls.compat", "tls_compat", "donation.percent", "donation.level",
         "donate-level", "donation_percent", "wake_lock", "xmrig.url",
         "xmrig.companion", "pool", "pools.url", "pools.diff",
         "pools.difficulty", "diff", "difficulty", "ahead"}

Pools == {"default", "own"}     (* the developer's pool and wallet; another *)

(* "ahead" is what keys of the user's own put before those that name a pool, *)
(* which hasPool looks for in the first 8192 bytes. Absent: little; "some":  *)
(* it finds them, but not once the text is rewritten with an indentation;    *)
(* "much": it does not find them.                                            *)
(*                                                                           *)
(* What a key's value is read as: optBoolean, optString, optInt; a number   *)
(* stands for a difficulty too, which is an optDouble. Strings is STRING,    *)
(* with the ones this module uses by name.                                  *)
Flags   == {"cpu.enabled", "opencl.enabled", "tls.compat", "tls_compat", "wake_lock",
            "xmrig.companion"}
Names   == {"engine", "xmrig.url", "pool", "pools.url", "ahead"}
Strings == STRING \union {"btcrig", "xmrig", "url", "some", "much"} \union Pools

Values(key) ==
  {Absent} \union IF key \in Flags THEN BOOLEAN ELSE IF key \in Names THEN Strings ELSE Int

IsText(text) == /\ text = [key \in Keys |-> text[key]]
                /\ \A key \in Keys : text[key] \in Values(key)

ASSUME ConfigAssumption ==
  /\ Cores \in Nat \ {0}
  /\ Threads \subseteq 0 .. Cores
  /\ Donations \subseteq {0, 1, 3, 5, 99}
  /\ Diffs \union {DefaultDiff} \subseteq Int
  /\ \A text \in Edits : IsText(text)
  /\ MaxSaves \in Nat

(* Absent is neither a value nor a text.                                    *)
ASSUME AbsentAssumption ==
  /\ Absent \notin BOOLEAN \union Int \union Strings
  /\ Absent \notin [Keys -> BOOLEAN \union Int \union Strings \union {Absent}]

-----------------------------------------------------------------------------
(* Texts and what the two sides read in them.                               *)

Or(c, key, fallback) == IF c[key] = Absent THEN fallback ELSE c[key]

HasCpu(c)   == c["cpu.enabled"] # Absent \/ c["cpu.threads"] # Absent
HasPools(c) == c["pools.url"] # Absent \/ c["pools.diff"] # Absent
                 \/ c["pools.difficulty"] # Absent

NamesPool(c) ==
  /\ c # Absent
  /\ \E key \in {"pool", "pools.url", "xmrig.url"} : c[key] # Absent

PoolInSight(c) == NamesPool(c) /\ c["ahead"] # "much"

(* Mutant of HasPool: only the form the settings page writes counts.        *)
HasPoolsUrl(c) == c # Absent /\ c["pools.url"] # Absent

(* Mutant of HasPool: any text will do.                                     *)
HasText(c) == c # Absent

(* "pool" or "url" occurs in the first 8192 bytes.                          *)
HasPool(c) == PoolInSight(c)

Sanitized(percent) == IF percent = 99 THEN 99
                      ELSE IF percent >= 5 THEN 5
                      ELSE IF percent >= 3 THEN 3
                      ELSE IF percent >= 1 THEN 1 ELSE 0

(* The config.json of the APK.                                              *)
Asset ==
  [key \in Keys |->
    CASE key \in {"cpu.enabled", "opencl.enabled", "tls.compat", "wake_lock"} -> TRUE
      [] key \in {"donation.percent", "donate-level"} -> 1
      [] key = "pools.url" -> "default"
      [] key = "pools.diff" -> DefaultDiff
      [] OTHER -> Absent]

(* toString(2) spreads a text out, in the order its keys had.               *)
Spread(ahead) == IF ahead = "some" THEN "much" ELSE ahead

NotNegative(n) == IF n < 0 THEN 0 ELSE n

AtLeastOne(engine, percent) ==
  IF engine = "xmrig" /\ percent < 1 THEN 1 ELSE percent

(* readBasic: what the settings page shows and the service acts on.         *)
Basic(c) ==
  LET engine  == IF c["engine"] = "xmrig" THEN "xmrig" ELSE "btcrig"
      n       == Or(c, "cpu.threads", Cores)
      percent == Or(c, "donation_percent", Or(c, "donation.percent", 1))
  IN  [engine    |-> engine,
       threads   |-> IF ~HasCpu(c) THEN Or(c, "cpu_threads", Cores)
                     ELSE IF Or(c, "cpu.enabled", n > 0) THEN n ELSE 0,
       opencl    |-> Or(c, "opencl.enabled", TRUE),
       compat    |-> Or(c, "tls_compat", Or(c, "tls.compat", TRUE)),
       donation  |-> AtLeastOne(engine, Sanitized(percent)),
       wake      |-> Or(c, "wake_lock", TRUE),
       companion |-> Or(c, "xmrig.companion", FALSE),
       pool      |-> IF HasPools(c) THEN Or(c, "pools.url", "default")
                     ELSE Or(c, "pool", "default"),
       diff      |-> IF HasPools(c)
                     THEN Or(c, "pools.diff", Or(c, "pools.difficulty", DefaultDiff))
                     ELSE Or(c, "diff", Or(c, "difficulty", DefaultDiff))]

(* The settings of a text that says nothing, shown when none can be read.   *)
DefaultBasic == Basic([key \in Keys |-> Absent])

(* Mutant of WithBasic: threads are stored, whether to use the CPU is not.  *)
WithBasicThreads(c, b) ==
  LET percent == AtLeastOne(b.engine, Sanitized(b.donation)) IN
  [c EXCEPT !["engine"] = b.engine,
            !["cpu.threads"] = NotNegative(b.threads), !["opencl.enabled"] = b.opencl,
            !["tls.compat"] = b.compat, !["donation.percent"] = percent,
            !["donate-level"] = percent, !["wake_lock"] = b.wake,
            !["xmrig.url"] = "url", !["xmrig.companion"] = b.companion,
            !["pools.url"] = b.pool, !["pools.diff"] = NotNegative(b.diff),
            !["ahead"] = Spread(@)]

(* writeBasic: the settings page's values put into the text; keys it does   *)
(* not know stay.                                                           *)
WithBasic(c, b) ==
  LET percent == AtLeastOne(b.engine, Sanitized(b.donation)) IN
  [c EXCEPT !["engine"] = b.engine, !["cpu.enabled"] = b.threads > 0,
            !["cpu.threads"] = NotNegative(b.threads), !["opencl.enabled"] = b.opencl,
            !["tls.compat"] = b.compat, !["donation.percent"] = percent,
            !["donate-level"] = percent, !["wake_lock"] = b.wake,
            !["xmrig.url"] = "url", !["xmrig.companion"] = b.companion,
            !["pools.url"] = b.pool, !["pools.diff"] = NotNegative(b.diff),
            !["ahead"] = Spread(@)]

(* One thread with the developer's pool and wallet becomes all of them.     *)
Widened(c) ==
  /\ Cores > 1
  /\ c["cpu.enabled"] = TRUE /\ c["cpu.threads"] = 1
  /\ IF HasPools(c) THEN c["pools.url"] = "default" ELSE c["pool"] = "default"

(* The keys migrateDefaults sets.                                           *)
Defaulted(c) ==
  LET percent == Sanitized(Or(c, "donate-level",
                   Or(c, "donation_percent", Or(c, "donation.percent", 1))))
  IN  [c EXCEPT
        !["cpu.threads"]      = IF Widened(c) THEN Cores ELSE @,
        !["donation.percent"] = IF @ = Absent THEN percent ELSE @,
        !["donate-level"]     = IF @ = Absent THEN percent ELSE @,
        !["wake_lock"]        = IF @ = Absent THEN TRUE ELSE @,
        !["pools.diff"]       = IF @ = Absent /\ HasPools(c)
                                   /\ c["pools.difficulty"] = Absent
                                THEN DefaultDiff ELSE @]

(* migrateDefaults writes only a text it has changed.                       *)
Migrated(c) ==
  LET d == Defaulted(c) IN IF d = c THEN c ELSE [d EXCEPT !["ahead"] = Spread(@)]

(* writeCompanionConfig: the miner beside XMRig works on the GPU alone.     *)
Companion(c) ==
  [c EXCEPT !["cpu.enabled"] = FALSE, !["cpu.threads"] = 0,
            !["opencl.enabled"] = TRUE]

(* donation_level_or_zero                                                   *)
Level(n) == IF n <= 0 THEN 0 ELSE IF n >= 100 THEN 99 ELSE n

(* read_config: what the miner works with.                                  *)
Mined(c) ==
  LET n       == Or(c, "cpu.threads", Or(c, "cpu_threads", 0))
      percent == Or(c, "donation.percent",
                   Or(c, "donation_percent", Or(c, "donate-level", 1)))
  IN  [threads  |-> IF ~Or(c, "cpu.enabled", TRUE) THEN 0
                    ELSE IF n <= 0 THEN Cores ELSE n,
       opencl   |-> Or(c, "opencl.enabled", TRUE),
       compat   |-> Or(c, "tls.compat", Or(c, "tls_compat", TRUE)),
       donation |-> Level(Or(c, "donation.level", percent)),
       pool     |-> Or(c, "pools.url", Or(c, "pool", "none")),
       diff     |-> Or(c, "pools.difficulty", Or(c, "pools.diff", DefaultDiff))]

(* What the settings page promises of the miner.                            *)
Promised(b) == [threads |-> b.threads, opencl |-> b.opencl, compat |-> b.compat,
                donation |-> b.donation, pool |-> b.pool, diff |-> b.diff]

(* Keys of older files and of the miner alone that writeBasic leaves as they *)
(* are and one of the two readers prefers.                                   *)
Overruling == {"donation_percent", "donation.level", "tls_compat", "pools.difficulty"}

(* validateBasicMessage                                                     *)
Valid(b) == /\ b.engine = "btcrig" \/ b.companion => b.pool \in Pools
            /\ b.engine = "btcrig" => /\ b.threads \in 0 .. Cores
                                      /\ b.threads > 0 \/ b.opencl
                                      /\ b.diff >= 0

-----------------------------------------------------------------------------
(* The file and the threads that use it.                                    *)

VARIABLES
  file,        (* the text of config.json; Absent: empty or not there        *)
  companion,   (* the text of gpu-companion.json                             *)
  pc, op,      (* of each thread: its step and what it does it for           *)
  basic,       (* the settings it holds                                      *)
  draft, then, (* the text it writes and the step after                      *)
  shown,       (* the settings page; Absent: the activity is not there       *)
  ordered, serving,   (* a start intent on its way; the service runs         *)
  saved,       (* history: the text last saved; Absent: none, or lost        *)
  chosen,      (* history: the settings last saved on the page; Absent:      *)
               (* typed as JSON, lost, or replaced by the defaults           *)
  edited,      (* history: the JSON editor wrote the file last               *)
  failed,      (* history: the write of the last ensure() failed             *)
  saves        (* saves and edits so far                                     *)

vars == <<file, companion, pc, op, basic, draft, then, shown, ordered, serving,
          saved, chosen, edited, failed, saves>>

Procs == {"main"} \union Watchers

Idle(p) == pc[p] = "idle"

Init ==
  /\ file = Absent /\ companion = Absent
  /\ pc = [p \in Procs |-> "idle"] /\ op = [p \in Procs |-> "none"]
  /\ basic = [p \in Procs |-> Absent]
  /\ draft = [p \in Procs |-> Absent] /\ then = [p \in Procs |-> "idle"]
  /\ shown = Absent /\ ordered = FALSE /\ serving = FALSE
  /\ saved = Absent /\ chosen = Absent /\ edited = FALSE
  /\ failed = FALSE /\ saves = 0

(* Every operation begins with ensure(), which begins with hasPool.         *)
Begin(p, o, b) ==
  /\ pc' = [pc EXCEPT ![p] = "has"]
  /\ op' = [op EXCEPT ![p] = o]
  /\ basic' = [basic EXCEPT ![p] = b]

(* Opening the file for writing truncates it.                               *)
Truncate(p, text, step) ==
  /\ file' = Absent
  /\ pc' = [pc EXCEPT ![p] = "put"]
  /\ draft' = [draft EXCEPT ![p] = text]
  /\ then' = [then EXCEPT ![p] = step]

Ended(p) ==
  /\ pc' = [pc EXCEPT ![p] = "idle"] /\ op' = [op EXCEPT ![p] = "none"]
  /\ basic' = [basic EXCEPT ![p] = Absent]

(* What an operation does when ensure() or its read throws. The page shows  *)
(* defaults; a start that cannot go on comes back to the page; the service  *)
(* stops itself, but for a companion that it does without.                  *)
GiveUp(p) ==
  /\ shown' = IF op[p] = "refresh" THEN DefaultBasic ELSE shown
  /\ serving' = (serving /\ ~(p = "main" /\ op[p] \in {"command", "ensure"}))
  /\ IF op[p] \in {"refresh", "store", "start"} THEN Begin(p, "look", Absent) ELSE Ended(p)

(* ensure(): a file without a pool is replaced by the asset.                *)
EnsureAction(p) ==
  /\ pc[p] = "has"
  /\ IF HasPool(file)
     THEN /\ pc' = [pc EXCEPT ![p] = "migrate"]
          /\ UNCHANGED <<file, draft, then, chosen>>
     ELSE Truncate(p, Asset, "migrate") /\ chosen' = Absent
  /\ failed' = FALSE
  /\ UNCHANGED <<companion, op, basic, shown, ordered, serving, saved, edited, saves>>

(* migrateDefaults reads the file again; an empty one is left alone, and a  *)
(* text that needs nothing is not written.                                  *)
MigrateAction(p) ==
  /\ pc[p] = "migrate"
  /\ IF file # Absent /\ Migrated(file) # file
     THEN Truncate(p, Migrated(file), "read")
     ELSE /\ pc' = [pc EXCEPT ![p] = "read"]
          /\ UNCHANGED <<file, draft, then>>
  /\ UNCHANGED <<companion, op, basic, shown, ordered, serving, saved, chosen,
                 edited, failed, saves>>

(* The write: the thread goes on with ensure, with its read, or is done. The *)
(* end of a save is where the user is told.                                  *)
PutAction(p) ==
  /\ pc[p] = "put"
  /\ file' = draft[p]
  /\ draft' = [draft EXCEPT ![p] = Absent]
  /\ then' = [then EXCEPT ![p] = "idle"]
  /\ IF then[p] # "saved"
     THEN /\ pc' = [pc EXCEPT ![p] = then[p]]
          /\ UNCHANGED <<op, basic, shown, ordered, saved, chosen>>
          /\ edited' = (edited /\ draft[p] # Asset)
     ELSE /\ saved' = draft[p]
          /\ edited' = (op[p] = "edit")
          /\ CASE op[p] = "edit" ->
                    /\ Begin(p, "refresh", Absent)
                    /\ chosen' = Absent /\ UNCHANGED <<shown, ordered>>
               [] op[p] = "save" ->
                    /\ Begin(p, "look", Absent)
                    /\ chosen' = basic[p] /\ UNCHANGED <<shown, ordered>>
               [] op[p] = "store" ->
                    /\ Begin(p, "look", Absent)
                    /\ ordered' = TRUE /\ UNCHANGED <<shown, chosen>>
  /\ UNCHANGED <<companion, serving, failed, saves>>

(* The write fails, and with it what the file held is gone. ensure() throws *)
(* if it was writing the asset; migrateDefaults ignores it; the user is     *)
(* told that a save failed.                                                 *)
PutFails(p) ==
  /\ pc[p] = "put"
  /\ draft' = [draft EXCEPT ![p] = Absent]
  /\ then' = [then EXCEPT ![p] = "idle"]
  /\ saved' = Absent /\ chosen' = Absent
  /\ failed' = (then[p] # "saved")
  /\ IF then[p] = "read"
     THEN /\ pc' = [pc EXCEPT ![p] = "read"]
          /\ UNCHANGED <<op, basic, shown, serving>>
     ELSE GiveUp(p)
  /\ UNCHANGED <<file, companion, ordered, edited, saves>>

(* The read that follows ensure(), and what the operation makes of it. An    *)
(* empty file is a JSONException; onStartCommand's ensure() does not read.   *)
ReadAction(p) ==
  /\ pc[p] = "read"
  /\ CASE file = Absent /\ op[p] # "ensure" ->
            /\ GiveUp(p) /\ UNCHANGED <<file, companion, draft, then>>
       [] op[p] = "look" /\ file # Absent ->
            /\ Ended(p) /\ UNCHANGED <<file, companion, draft, then, shown, serving>>
       [] op[p] = "refresh" /\ file # Absent ->
            /\ shown' = Basic(file)
            /\ Begin(p, "look", Absent)
            /\ UNCHANGED <<file, companion, draft, then, serving>>
       [] op[p] \in {"save", "store"} /\ file # Absent ->
            /\ Truncate(p, WithBasic(file, basic[p]), "saved")
            /\ UNCHANGED <<companion, op, basic, shown, serving>>
       [] op[p] = "start" /\ file # Absent ->
            /\ IF Valid(Basic(file)) THEN Begin(p, "store", Basic(file))
               ELSE Begin(p, "look", Absent)
            /\ UNCHANGED <<file, companion, draft, then, shown, serving>>
       [] op[p] = "command" /\ file # Absent ->
            /\ Begin(p, "ensure", Basic(file))
            /\ UNCHANGED <<file, companion, draft, then, shown, serving>>
       [] op[p] = "ensure" ->
            /\ serving' = TRUE
            /\ IF p # "main" THEN Ended(p)
               ELSE IF basic[p].engine = "btcrig"
               THEN /\ pc' = [pc EXCEPT ![p] = "launch"] /\ UNCHANGED <<op, basic>>
               ELSE IF basic[p].companion THEN Begin(p, "companion", basic[p])
               ELSE Ended(p)
            /\ UNCHANGED <<file, companion, draft, then, shown>>
       [] op[p] = "companion" /\ file # Absent ->
            /\ \/ /\ companion' = Companion(file)
                  /\ pc' = [pc EXCEPT ![p] = "launch"]
                  /\ UNCHANGED <<op, basic>>
               \/ companion' = Absent /\ Ended(p)
            /\ UNCHANGED <<file, draft, then, shown, serving>>
  /\ UNCHANGED <<ordered, saved, chosen, edited, failed, saves>>

(* btcrig_core_start reads the file it was given.                           *)
LaunchAction(p) ==
  /\ pc[p] = "launch"
  /\ Ended(p)
  /\ UNCHANGED <<file, companion, draft, then, shown, ordered, serving, saved,
                 chosen, edited, failed, saves>>

Step(p) == \/ EnsureAction(p) \/ MigrateAction(p) \/ PutAction(p) \/ PutFails(p)
           \/ ReadAction(p) \/ LaunchAction(p)

-----------------------------------------------------------------------------
(* What the user and Android do; all of it on the main thread.              *)

BeginOnMain(o, b) ==
  /\ Idle("main")
  /\ Begin("main", o, b)
  /\ UNCHANGED <<file, companion, draft, then, serving, saved, chosen, edited, failed>>

(* The activity is created or resumed.                                      *)
Resume == BeginOnMain("refresh", Absent) /\ UNCHANGED <<shown, ordered, saves>>

(* One setting is changed; saveBasic writes at once if all are valid.        *)
Changed ==
  {[shown EXCEPT !.engine = e] : e \in {"btcrig", "xmrig"}} \union
  {[shown EXCEPT !.threads = n] : n \in Threads} \union
  {[shown EXCEPT !.opencl = ~@], [shown EXCEPT !.compat = ~@],
   [shown EXCEPT !.companion = ~@]} \union
  {[shown EXCEPT !.donation = d] : d \in Donations} \union
  {[shown EXCEPT !.pool = u] : u \in Pools} \union
  {[shown EXCEPT !.diff = d] : d \in Diffs}

Save ==
  /\ shown # Absent /\ saves < MaxSaves
  /\ \E next \in Changed :
       /\ Valid(next)
       /\ BeginOnMain("save", next)
       /\ shown' = next
  /\ saves' = saves + 1
  /\ UNCHANGED ordered

(* The JSON editor writes its text without looking at the file.             *)
Edit ==
  /\ shown # Absent /\ saves < MaxSaves
  /\ Idle("main")
  /\ \E text \in Edits : Truncate("main", text, "saved")
  /\ op' = [op EXCEPT !["main"] = "edit"]
  /\ saves' = saves + 1
  /\ UNCHANGED <<companion, basic, shown, ordered, serving, saved, chosen, edited,
                 failed>>

(* startBtcrigService; then onStartCommand, also when Android restarts a    *)
(* service it had killed.                                                   *)
Start == shown # Absent /\ BeginOnMain("start", Absent)
           /\ UNCHANGED <<shown, ordered, saves>>

Command == /\ ordered
           /\ BeginOnMain("command", Absent)
           /\ ordered' = FALSE
           /\ UNCHANGED <<shown, saves>>

(* recoverCoreIfNeeded, every five seconds.                                 *)
Recover(p) ==
  /\ serving /\ Idle(p)
  /\ Begin(p, "command", Absent)
  /\ UNCHANGED <<file, companion, draft, then, shown, ordered, serving, saved,
                 chosen, edited, failed, saves>>

(* Android kills the process: the files stay as they are.                   *)
Kill ==
  LET lost == \E p \in Procs : pc[p] = "put" IN
  /\ pc' = [p \in Procs |-> "idle"] /\ op' = [p \in Procs |-> "none"]
  /\ basic' = [p \in Procs |-> Absent]
  /\ draft' = [p \in Procs |-> Absent] /\ then' = [p \in Procs |-> "idle"]
  /\ shown' = Absent
  /\ ordered' = (ordered \/ serving) /\ serving' = FALSE
  /\ saved' = IF lost THEN Absent ELSE saved
  /\ chosen' = IF lost THEN Absent ELSE chosen
  /\ UNCHANGED <<file, companion, edited, failed, saves>>

Next ==
  \/ \E p \in Procs : Step(p)
  \/ Resume \/ Save \/ Edit \/ Start \/ Command \/ Kill

Spec == Init /\ [][Next]_vars

(* Beside a notification thread that looks after the core.                  *)
WatchedNext == Next \/ \E p \in Watchers : Recover(p)

WatchedSpec == Init /\ [][WatchedNext]_vars

-----------------------------------------------------------------------------
(* Properties.                                                              *)

(* hasPool finds the pool in the text, but not as migrateDefaults writes it. *)
Fades(c) == PoolInSight(c) /\ ~PoolInSight(Migrated(c))

(* What was saved stays in the file, but for what migrateDefaults adds, until *)
(* the next save. The defaults come back only for a text in which hasPool   *)
(* finds no pool, as typed or as rewritten, or after a kill or a failure in *)
(* the middle of a write.                                                   *)
SavedStays ==
  (\A p \in Procs : pc[p] # "put") =>
    file \in IF PoolInSight(saved)
             THEN {saved, Migrated(saved)}
                    \union IF Fades(saved) THEN {Absent, Asset, Migrated(Asset)} ELSE {}
             ELSE {saved, Absent, Asset, Migrated(Asset)}

(* ensure() leaves a file the settings can be read from, after a kill or a  *)
(* failed write that left it empty too, unless its own write fails.         *)
EnsureLeavesPool ==
  \A p \in Procs : pc[p] = "read" => NamesPool(file) \/ (file = Absent /\ failed)

(* The miner works with what the settings page shows and with what the user *)
(* saved there last, though it reads the file by rules of its own. Only a    *)
(* key the page does not write, typed into the editor earlier, overrules it, *)
(* and migrateDefaults for one thread on the default pool. A typed text that *)
(* fades may give way to the defaults between the service's read and the    *)
(* miner's. The miner beside XMRig leaves the CPU to it and uses the GPU,    *)
(* whatever the file says.                                                   *)
MinesAsShown ==
  LET overruled == \E key \in Overruling : file[key] # Absent IN
  pc["main"] = "launch" =>
    IF basic["main"].engine = "xmrig"
    THEN Mined(companion).threads = 0 /\ Mined(companion).opencl
    ELSE (~edited /\ ~overruled) =>
           /\ Fades(saved) \/ Mined(file) = Promised(basic["main"])
           /\ (chosen # Absent /\ (chosen.threads # 1 \/ chosen.pool # "default")) =>
                Mined(file) = Promised(chosen)
=============================================================================
