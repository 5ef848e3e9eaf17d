---------------------------- MODULE ConfigProofs -----------------------------
(* Theorems about the settings, for any number of processors, any texts     *)
(* typed into the editor and any choices of the page, with the main thread  *)
(* alone on the file.                                                       *)
EXTENDS Config, TLAPS

(* What the settings page shows and writes.                                 *)
Percents == {0, 1, 3, 5, 99}
Basics ==
  [engine : {"btcrig", "xmrig"}, threads : Int, opencl : BOOLEAN, compat : BOOLEAN,
   donation : Percents, wake : BOOLEAN, companion : BOOLEAN, pool : Strings,
   diff : Int]

-----------------------------------------------------------------------------
(* Texts.                                                                   *)

LEMMA TextIsThere == ASSUME NEW c, IsText(c) PROVE c # Absent
<1>1. \A key \in Keys : c[key] \in BOOLEAN \union Int \union Strings \union {Absent}
  BY DEF IsText, Values
<1>2. c \in [Keys -> BOOLEAN \union Int \union Strings \union {Absent}]
  BY <1>1 DEF IsText
<1>3. QED
  BY <1>2, AbsentAssumption

LEMMA AbsentIsNone ==
  /\ Absent \notin BOOLEAN /\ Absent \notin Int /\ Absent \notin Strings
  /\ Absent # TRUE /\ Absent # FALSE /\ Absent # "btcrig" /\ Absent # "xmrig"
  /\ Absent # "url" /\ Absent # "default" /\ Absent # "own"
  /\ Absent # "some" /\ Absent # "much"
<1>1. Absent \notin BOOLEAN /\ Absent \notin Int /\ Absent \notin Strings
  BY AbsentAssumption
<1>2. Absent # TRUE /\ Absent # FALSE
  BY <1>1, Zenon
<1>3. \A s \in {"btcrig", "xmrig", "url", "default", "own", "some", "much"} : s \in Strings
  BY DEF Strings, Pools
<1>4. QED
  BY <1>1, <1>2, <1>3

LEMMA SanitizedIsPercent ==
  ASSUME NEW percent PROVE Sanitized(percent) \in Percents
BY DEF Sanitized, Percents

LEMMA PercentStays ==
  ASSUME NEW percent \in Percents
  PROVE  Sanitized(percent) = percent /\ Level(percent) = percent /\ percent \in Int
BY DEF Sanitized, Percents, Level

LEMMA AssetIsText == IsText(Asset)
BY ConfigAssumption DEF IsText, Asset, Values, Keys, Flags, Names, Strings, Pools

LEMMA AssetIsSeen == PoolInSight(Asset) /\ Asset["ahead"] = Absent
<1>1. Asset["pools.url"] = "default" /\ Asset["ahead"] = Absent
  BY DEF Asset, Keys
<1>2. Asset # Absent
  BY AssetIsText, TextIsThere
<1>3. QED
  BY <1>1, <1>2, AbsentIsNone DEF PoolInSight, NamesPool

(* migrateDefaults, key by key.                                             *)
MigratedPercent(c) ==
  Sanitized(Or(c, "donate-level", Or(c, "donation_percent", Or(c, "donation.percent", 1))))

LEMMA DefaultedKeys ==
  ASSUME NEW c, IsText(c)
  PROVE  /\ DOMAIN Defaulted(c) = Keys
         /\ Defaulted(c) = [key \in Keys |-> Defaulted(c)[key]]
         /\ \A key \in Keys \ {"cpu.threads", "donation.percent", "donate-level", "wake_lock",
                               "pools.diff"} : Defaulted(c)[key] = c[key]
         /\ Defaulted(c)["cpu.threads"] = IF Widened(c) THEN Cores ELSE c["cpu.threads"]
         /\ \A key \in {"donation.percent", "donate-level"} :
              Defaulted(c)[key] = IF c[key] = Absent THEN MigratedPercent(c) ELSE c[key]
         /\ Defaulted(c)["wake_lock"] = IF c["wake_lock"] = Absent THEN TRUE ELSE c["wake_lock"]
         /\ Defaulted(c)["pools.diff"] =
              IF c["pools.diff"] = Absent /\ HasPools(c) /\ c["pools.difficulty"] = Absent
              THEN DefaultDiff ELSE c["pools.diff"]
<1> DEFINE d == Defaulted(c)
<1>1. DOMAIN c = Keys /\ c = [key \in Keys |-> c[key]]
  BY DEF IsText
<1>2. DOMAIN d = Keys /\ d = [key \in Keys |-> d[key]]
  BY <1>1 DEF Defaulted
<1>3. \A key \in Keys \ {"cpu.threads", "donation.percent", "donate-level", "wake_lock",
                        "pools.diff"} : d[key] = c[key]
  BY <1>1 DEF Defaulted
<1>4. /\ d["cpu.threads"] = IF Widened(c) THEN Cores ELSE c["cpu.threads"]
      /\ d["donation.percent"] = IF c["donation.percent"] = Absent
                                 THEN MigratedPercent(c) ELSE c["donation.percent"]
      /\ d["donate-level"] = IF c["donate-level"] = Absent
                             THEN MigratedPercent(c) ELSE c["donate-level"]
  BY <1>1 DEF Defaulted, MigratedPercent, Keys
<1>5. /\ d["wake_lock"] = IF c["wake_lock"] = Absent THEN TRUE ELSE c["wake_lock"]
      /\ d["pools.diff"] =
           IF c["pools.diff"] = Absent /\ HasPools(c) /\ c["pools.difficulty"] = Absent
           THEN DefaultDiff ELSE c["pools.diff"]
  BY <1>1 DEF Defaulted, Keys
<1> HIDE DEF d
<1>6. QED
  BY <1>2, <1>3, <1>4, <1>5 DEF d

LEMMA MigratedKeys ==
  ASSUME NEW c, IsText(c)
  PROVE  /\ DOMAIN Migrated(c) = Keys
         /\ Migrated(c) = [key \in Keys |-> Migrated(c)[key]]
         /\ \A key \in Keys \ {"ahead"} : Migrated(c)[key] = Defaulted(c)[key]
         /\ Migrated(c)["ahead"] \in {c["ahead"], Spread(c["ahead"])}
<1>1. DOMAIN c = Keys /\ c = [key \in Keys |-> c[key]]
  BY DEF IsText
<1> DEFINE d == Defaulted(c)
<1>2. DOMAIN d = Keys /\ d["ahead"] = c["ahead"]
  BY DefaultedKeys DEF Keys
<1> HIDE DEF d
<1>3. Migrated(c) = IF d = c THEN c ELSE [d EXCEPT !["ahead"] = Spread(@)]
  BY DEF Migrated, d
<1>4. CASE d = c
  BY <1>1, <1>3, <1>4 DEF d
<1>5. CASE d # c
  <2>1. Migrated(c) = [d EXCEPT !["ahead"] = Spread(@)]
    BY <1>3, <1>5
  <2>2. d = [key \in Keys |-> d[key]]
    BY DefaultedKeys DEF d
  <2>3. "ahead" \in Keys
    BY DEF Keys
  <2>4. /\ DOMAIN Migrated(c) = Keys /\ Migrated(c) = [key \in Keys |-> Migrated(c)[key]]
        /\ \A key \in Keys \ {"ahead"} : Migrated(c)[key] = d[key]
        /\ Migrated(c)["ahead"] = Spread(d["ahead"])
    BY <2>1, <2>2, <2>3
  <2>5. QED
    BY <1>2, <2>4 DEF d
<1>6. QED
  BY <1>4, <1>5

LEMMA SpreadIsString ==
  ASSUME NEW ahead \in Strings \union {Absent}
  PROVE  Spread(ahead) \in Strings \union {Absent}
BY DEF Spread, Strings

LEMMA MigratedIsText == ASSUME NEW c, IsText(c) PROVE IsText(Migrated(c))
<1> DEFINE d == Migrated(c)
           e == Defaulted(c)
<1>1. d = [key \in Keys |-> d[key]]
  BY MigratedKeys
<1>2. MigratedPercent(c) \in Int
  BY SanitizedIsPercent, PercentStays DEF MigratedPercent
<1> HIDE DEF d, e
<1>3. \A key \in Keys : e[key] \in Values(key)
  <2> SUFFICES ASSUME NEW key \in Keys PROVE e[key] \in Values(key)
    OBVIOUS
  <2>1. c[key] \in Values(key)
    BY DEF IsText
  <2>2. CASE key \notin {"cpu.threads", "donation.percent", "donate-level", "wake_lock",
                         "pools.diff"}
    BY <2>1, <2>2, DefaultedKeys DEF e
  <2>3. CASE key = "cpu.threads"
    <3>1. e["cpu.threads"] = Cores \/ e["cpu.threads"] = c["cpu.threads"]
      BY DefaultedKeys DEF e
    <3>2. Cores \in Int
      BY ConfigAssumption
    <3>3. QED
      BY <2>1, <2>3, <3>1, <3>2 DEF Values, Flags, Names
  <2>4. CASE key \in {"donation.percent", "donate-level"}
    BY <2>1, <2>4, <1>2, DefaultedKeys DEF e, Values, Flags, Names
  <2>5. CASE key = "wake_lock"
    BY <2>1, <2>5, DefaultedKeys DEF e, Values, Flags
  <2>6. CASE key = "pools.diff"
    BY <2>1, <2>6, DefaultedKeys, ConfigAssumption DEF e, Values, Flags, Names
  <2>7. QED
    BY <2>2, <2>3, <2>4, <2>5, <2>6
<1>4. d["ahead"] \in Values("ahead")
  <2>1. Values("ahead") = Strings \union {Absent}
    BY DEF Values, Flags, Names
  <2>2. c["ahead"] \in Strings \union {Absent}
    BY <2>1 DEF IsText, Keys
  <2>3. QED
    BY <2>1, <2>2, SpreadIsString, MigratedKeys DEF d
<1>5. \A key \in Keys : d[key] \in Values(key)
  <2> SUFFICES ASSUME NEW key \in Keys PROVE d[key] \in Values(key)
    OBVIOUS
  <2>1. CASE key = "ahead"
    BY <1>4, <2>1
  <2>2. CASE key # "ahead"
    BY <1>3, <2>2, MigratedKeys DEF d, e
  <2>3. QED
    BY <2>1, <2>2
<1>6. QED
  BY <1>1, <1>5 DEF IsText, d

(* It takes no pool away, and has nothing left to do the second time.       *)
LEMMA MigratedNamesPool ==
  ASSUME NEW c, IsText(c), NamesPool(c) PROVE NamesPool(Migrated(c))
<1>1. \A key \in {"pool", "pools.url", "xmrig.url"} : Migrated(c)[key] = c[key]
  <2>1. /\ \A key \in Keys \ {"ahead"} : Migrated(c)[key] = Defaulted(c)[key]
        /\ \A key \in Keys \ {"cpu.threads", "donation.percent", "donate-level", "wake_lock",
                              "pools.diff"} : Defaulted(c)[key] = c[key]
    BY MigratedKeys, DefaultedKeys
  <2>2. {"pool", "pools.url", "xmrig.url"} \subseteq
          Keys \ {"ahead", "cpu.threads", "donation.percent", "donate-level", "wake_lock",
                  "pools.diff"}
    BY DEF Keys
  <2>3. QED
    BY <2>1, <2>2
<1>2. Migrated(c) # Absent
  BY MigratedIsText, TextIsThere
<1>3. QED
  BY <1>1, <1>2 DEF NamesPool

LEMMA MigratedTwice ==
  ASSUME NEW c, IsText(c) PROVE Migrated(Migrated(c)) = Migrated(c)
<1> DEFINE d == Migrated(c)
           e == Defaulted(d)
<1>1. IsText(d)
  BY MigratedIsText
<1>2. DOMAIN e = Keys /\ e = [key \in Keys |-> e[key]]
  BY <1>1, DefaultedKeys
<1> HIDE DEF d, e
<1>3. \A key \in Keys \ {"ahead"} : d[key] = Defaulted(c)[key]
  BY MigratedKeys DEF d
<1>4. HasPools(d) <=> HasPools(c)
  <2>1. d["pools.url"] = c["pools.url"] /\ d["pools.difficulty"] = c["pools.difficulty"]
    BY <1>3, DefaultedKeys DEF Keys
  <2>2. d["pools.diff"] = IF c["pools.diff"] = Absent /\ HasPools(c)
                               /\ c["pools.difficulty"] = Absent
                          THEN DefaultDiff ELSE c["pools.diff"]
    BY <1>3, DefaultedKeys DEF Keys
  <2>3. DefaultDiff # Absent
    BY ConfigAssumption, AbsentIsNone
  <2>4. QED
    BY <2>1, <2>2, <2>3 DEF HasPools
<1>5. ~Widened(d)
  <2>1. d["cpu.enabled"] = c["cpu.enabled"] /\ d["pools.url"] = c["pools.url"]
        /\ d["pool"] = c["pool"]
        /\ d["cpu.threads"] = IF Widened(c) THEN Cores ELSE c["cpu.threads"]
    BY <1>3, DefaultedKeys DEF Keys
  <2>2. QED
    BY <1>4, <2>1, ConfigAssumption DEF Widened
<1>6. MigratedPercent(c) # Absent
  <2>1. MigratedPercent(c) \in Int
    BY SanitizedIsPercent, PercentStays DEF MigratedPercent
  <2>2. QED
    BY <2>1, AbsentIsNone
<1>7. \A key \in Keys : e[key] = d[key]
  <2> SUFFICES ASSUME NEW key \in Keys PROVE e[key] = d[key]
    OBVIOUS
  <2>1. CASE key \notin {"cpu.threads", "donation.percent", "donate-level", "wake_lock",
                         "pools.diff"}
    BY <1>1, <2>1, DefaultedKeys DEF e
  <2>2. CASE key = "cpu.threads"
    BY <1>1, <1>5, <2>2, DefaultedKeys DEF e
  <2>3. CASE key \in {"donation.percent", "donate-level"}
    <3>1. d[key] # Absent
      <4>1. d[key] = Defaulted(c)[key]
        BY <1>3, <2>3
      <4>2. QED
        BY <1>6, <2>3, <4>1, DefaultedKeys
    <3>2. QED
      BY <1>1, <2>3, <3>1, DefaultedKeys DEF e
  <2>4. CASE key = "wake_lock"
    <3>1. d["wake_lock"] # Absent
      <4>1. d["wake_lock"] = IF c["wake_lock"] = Absent THEN TRUE ELSE c["wake_lock"]
        BY <1>3, DefaultedKeys DEF Keys
      <4>2. QED
        BY <4>1, AbsentIsNone, Zenon
    <3>2. QED
      BY <1>1, <2>4, <3>1, DefaultedKeys DEF e
  <2>5. CASE key = "pools.diff"
    <3>1. d["pools.difficulty"] = c["pools.difficulty"]
      BY <1>3, DefaultedKeys DEF Keys
    <3>2. DefaultDiff # Absent
      BY ConfigAssumption, AbsentIsNone
    <3>3. d["pools.diff"] = IF c["pools.diff"] = Absent /\ HasPools(c)
                                 /\ c["pools.difficulty"] = Absent
                            THEN DefaultDiff ELSE c["pools.diff"]
      BY <1>3, DefaultedKeys DEF Keys
    <3>4. e["pools.diff"] = IF d["pools.diff"] = Absent /\ HasPools(d)
                                 /\ d["pools.difficulty"] = Absent
                            THEN DefaultDiff ELSE d["pools.diff"]
      BY <1>1, DefaultedKeys DEF e
    <3>5. QED
      BY <1>4, <2>5, <3>1, <3>2, <3>3, <3>4
  <2>6. QED
    BY <2>1, <2>2, <2>3, <2>4, <2>5
<1>8. e = d
  BY <1>1, <1>2, <1>7 DEF IsText
<1>9. QED
  BY <1>8 DEF Migrated, d, e

(* hasPool loses sight only of what had something ahead, and a text that    *)
(* has been rewritten has much or little.                                   *)
LEMMA FadingText ==
  ASSUME NEW c, IsText(c), Fades(c) PROVE c["ahead"] = "some"
<1>1. NamesPool(Migrated(c)) /\ c["ahead"] # "much"
  BY MigratedNamesPool DEF Fades, PoolInSight
<1>2. Migrated(c)["ahead"] = "much"
  BY <1>1 DEF Fades, PoolInSight
<1>3. QED
  BY <1>1, <1>2, MigratedKeys DEF Spread

LEMMA AssetIsMigrated == Migrated(Asset) = Asset
<1> DEFINE d == Defaulted(Asset)
<1>1. /\ Asset["cpu.threads"] # 1 /\ Asset["wake_lock"] # Absent
      /\ Asset["donation.percent"] # Absent /\ Asset["donate-level"] # Absent
      /\ Asset["pools.diff"] # Absent
  <2>1. /\ Asset["cpu.threads"] = Absent /\ Asset["wake_lock"] = TRUE
        /\ Asset["donation.percent"] = 1 /\ Asset["donate-level"] = 1
        /\ Asset["pools.diff"] = DefaultDiff
    BY DEF Asset, Keys
  <2>2. 1 # Absent /\ DefaultDiff # Absent
    BY ConfigAssumption, AbsentIsNone
  <2>3. QED
    BY <2>1, <2>2, AbsentIsNone
<1>2. \A key \in Keys : d[key] = Asset[key]
  BY <1>1, AssetIsText, DefaultedKeys DEF Widened
<1>3. d = [key \in Keys |-> d[key]] /\ Asset = [key \in Keys |-> Asset[key]]
  BY AssetIsText, DefaultedKeys DEF IsText
<1> HIDE DEF d
<1>4. d = Asset
  BY <1>2, <1>3
<1>5. QED
  BY <1>4 DEF Migrated, d

Overruled(c) == \E key \in Overruling : c[key] # Absent

(* writeBasic, key by key.                                                  *)
Rewritten == {"engine", "cpu.enabled", "cpu.threads", "opencl.enabled", "tls.compat",
              "donation.percent", "donate-level", "wake_lock", "xmrig.url",
              "xmrig.companion", "pools.url", "pools.diff", "ahead"}

LEMMA WithBasicKeys ==
  ASSUME NEW c, IsText(c), NEW b \in Basics
  PROVE  /\ DOMAIN WithBasic(c, b) = Keys
         /\ WithBasic(c, b) = [key \in Keys |-> WithBasic(c, b)[key]]
         /\ \A key \in Keys \ Rewritten : WithBasic(c, b)[key] = c[key]
         /\ WithBasic(c, b)["engine"] = b.engine
         /\ WithBasic(c, b)["cpu.enabled"] = (b.threads > 0)
         /\ WithBasic(c, b)["cpu.threads"] = NotNegative(b.threads)
         /\ WithBasic(c, b)["opencl.enabled"] = b.opencl
         /\ WithBasic(c, b)["tls.compat"] = b.compat
         /\ WithBasic(c, b)["donation.percent"] = AtLeastOne(b.engine, b.donation)
         /\ WithBasic(c, b)["donate-level"] = AtLeastOne(b.engine, b.donation)
         /\ WithBasic(c, b)["wake_lock"] = b.wake
         /\ WithBasic(c, b)["xmrig.url"] = "url"
         /\ WithBasic(c, b)["xmrig.companion"] = b.companion
         /\ WithBasic(c, b)["pools.url"] = b.pool
         /\ WithBasic(c, b)["pools.diff"] = NotNegative(b.diff)
         /\ WithBasic(c, b)["ahead"] = Spread(c["ahead"])
<1> DEFINE d == WithBasic(c, b)
<1>1. DOMAIN c = Keys /\ c = [key \in Keys |-> c[key]]
  BY DEF IsText
<1>2. Sanitized(b.donation) = b.donation
  BY PercentStays DEF Basics
<1>3. DOMAIN d = Keys /\ d = [key \in Keys |-> d[key]]
  BY <1>1 DEF WithBasic
<1>4. \A key \in Keys \ Rewritten : d[key] = c[key]
  BY <1>1 DEF WithBasic, Rewritten
<1>5. /\ d["engine"] = b.engine /\ d["cpu.enabled"] = (b.threads > 0)
      /\ d["cpu.threads"] = NotNegative(b.threads) /\ d["opencl.enabled"] = b.opencl
      /\ d["tls.compat"] = b.compat
      /\ d["donation.percent"] = AtLeastOne(b.engine, b.donation)
      /\ d["donate-level"] = AtLeastOne(b.engine, b.donation) /\ d["wake_lock"] = b.wake
      /\ d["xmrig.url"] = "url" /\ d["xmrig.companion"] = b.companion
      /\ d["pools.url"] = b.pool /\ d["pools.diff"] = NotNegative(b.diff)
      /\ d["ahead"] = Spread(c["ahead"])
  BY <1>1, <1>2 DEF WithBasic, Keys
<1> HIDE DEF d
<1>6. QED
  BY <1>3, <1>4, <1>5 DEF d

LEMMA OldKeysStay ==
  ASSUME NEW c, IsText(c), NEW b \in Basics
  PROVE  /\ \A key \in Overruling : WithBasic(c, b)[key] = c[key]
         /\ Overruled(WithBasic(c, b)) <=> Overruled(c)
<1>1. \A key \in Overruling : key \in Keys /\ key \notin Rewritten
  BY DEF Overruling, Keys, Rewritten
<1>2. \A key \in Keys \ Rewritten : WithBasic(c, b)[key] = c[key]
  BY WithBasicKeys
<1>3. QED
  BY <1>1, <1>2 DEF Overruled

LEMMA WithBasicIsText ==
  ASSUME NEW c, IsText(c), NEW b \in Basics PROVE IsText(WithBasic(c, b))
<1> DEFINE d == WithBasic(c, b)
           percent == AtLeastOne(b.engine, b.donation)
<1>1. /\ b.engine \in Strings /\ NotNegative(b.threads) \in Int /\ b.opencl \in BOOLEAN
      /\ b.compat \in BOOLEAN /\ b.wake \in BOOLEAN /\ b.companion \in BOOLEAN
      /\ b.pool \in Strings /\ NotNegative(b.diff) \in Int /\ "url" \in Strings
  BY DEF Basics, Strings, NotNegative
<1>2. percent \in Int
  BY PercentStays DEF Basics, AtLeastOne, Percents
<1>3. (b.threads > 0) \in BOOLEAN
  OBVIOUS
<1> HIDE DEF d, percent
<1>4. /\ d["engine"] = b.engine /\ d["cpu.enabled"] = (b.threads > 0)
      /\ d["cpu.threads"] = NotNegative(b.threads) /\ d["opencl.enabled"] = b.opencl
      /\ d["tls.compat"] = b.compat /\ d["donation.percent"] = percent
      /\ d["donate-level"] = percent /\ d["wake_lock"] = b.wake
      /\ d["xmrig.url"] = "url" /\ d["xmrig.companion"] = b.companion
      /\ d["pools.url"] = b.pool /\ d["pools.diff"] = NotNegative(b.diff)
      /\ d["ahead"] = Spread(c["ahead"])
  BY WithBasicKeys DEF d, percent
<1>5. \A key \in {"cpu.enabled", "opencl.enabled", "tls.compat", "wake_lock",
                  "xmrig.companion"} : d[key] \in BOOLEAN
  <2>1. /\ d["cpu.enabled"] \in BOOLEAN /\ d["opencl.enabled"] \in BOOLEAN
        /\ d["tls.compat"] \in BOOLEAN /\ d["wake_lock"] \in BOOLEAN
        /\ d["xmrig.companion"] \in BOOLEAN
    BY <1>1, <1>3, <1>4, Zenon
  <2>2. QED
    BY <2>1
<1>6. \A key \in Keys : d[key] \in Values(key)
  <2> SUFFICES ASSUME NEW key \in Keys PROVE d[key] \in Values(key)
    OBVIOUS
  <2>1. CASE key \notin Rewritten
    <3>1. d[key] = c[key]
      <4>1. \A k \in Keys \ Rewritten : d[k] = c[k]
        BY WithBasicKeys DEF d
      <4>2. QED
        BY <2>1, <4>1
    <3>2. QED
      BY <3>1 DEF IsText
  <2>2. CASE key \in {"engine", "xmrig.url", "pools.url"}
    <3>1. d[key] \in Strings
      BY <1>1, <1>4, <2>2
    <3>2. QED
      BY <2>2, <3>1 DEF Values, Flags, Names
  <2>3. CASE key \in {"cpu.enabled", "opencl.enabled", "tls.compat", "wake_lock",
                      "xmrig.companion"}
    <3>1. d[key] \in BOOLEAN
      BY <1>5, <2>3
    <3>2. QED
      BY <2>3, <3>1 DEF Values, Flags
  <2>4. CASE key \in {"cpu.threads", "donation.percent", "donate-level", "pools.diff"}
    <3>1. d[key] \in Int
      BY <1>1, <1>2, <1>4, <2>4
    <3>2. QED
      BY <2>4, <3>1 DEF Values, Flags, Names
  <2>5. CASE key = "ahead"
    <3>1. c[key] \in Strings \union {Absent}
      BY <2>5 DEF IsText, Values, Flags, Names, Keys
    <3>2. d[key] \in Strings \union {Absent}
      BY <1>4, <2>5, <3>1, SpreadIsString
    <3>3. QED
      BY <2>5, <3>2 DEF Values, Flags, Names
  <2>6. QED
    BY <2>1, <2>2, <2>3, <2>4, <2>5 DEF Rewritten
<1>7. QED
  BY <1>6, WithBasicKeys DEF IsText, d

LEMMA WithBasicNamesPool ==
  ASSUME NEW c, IsText(c), NEW b \in Basics PROVE NamesPool(WithBasic(c, b))
<1>1. WithBasic(c, b)["xmrig.url"] = "url"
  BY WithBasicKeys
<1>2. WithBasic(c, b) # Absent
  BY WithBasicIsText, TextIsThere
<1>3. QED
  BY <1>1, <1>2, AbsentIsNone DEF NamesPool

LEMMA WithBasicNeverFades ==
  ASSUME NEW c, IsText(c), NEW b \in Basics PROVE ~Fades(WithBasic(c, b))
<1>1. WithBasic(c, b)["ahead"] = Spread(c["ahead"]) /\ IsText(WithBasic(c, b))
  BY WithBasicKeys, WithBasicIsText
<1>2. QED
  BY <1>1, FadingText DEF Spread

(* readBasic makes sense of any text.                                       *)
LEMMA BasicIsBasic == ASSUME NEW c, IsText(c) PROVE Basic(c) \in Basics
<1>1. \A key \in Flags : c[key] # Absent => c[key] \in BOOLEAN
  BY DEF IsText, Values, Flags, Keys
<1>2. \A key \in Names : c[key] # Absent => c[key] \in Strings
  BY DEF IsText, Values, Flags, Names, Keys
<1>3. \A key \in Keys \ (Flags \union Names) : c[key] # Absent => c[key] \in Int
  BY DEF IsText, Values
<1>4. Cores \in Int /\ DefaultDiff \in Int /\ "default" \in Strings
  BY ConfigAssumption DEF Strings, Pools
<1> DEFINE b == Basic(c)
<1>5. b.engine \in {"btcrig", "xmrig"}
  BY DEF Basic
<1>6. b.threads \in Int
  BY <1>3, <1>4 DEF Basic, Or, Keys, Flags, Names
<1>7. /\ Or(c, "opencl.enabled", TRUE) \in BOOLEAN
      /\ Or(c, "tls_compat", Or(c, "tls.compat", TRUE)) \in BOOLEAN
      /\ Or(c, "xmrig.companion", FALSE) \in BOOLEAN
      /\ Or(c, "wake_lock", TRUE) \in BOOLEAN
  BY <1>1 DEF Or, Flags
<1>8. b.opencl \in BOOLEAN /\ b.compat \in BOOLEAN /\ b.companion \in BOOLEAN
      /\ b.wake \in BOOLEAN
  BY <1>7 DEF Basic
<1>9. b.donation \in Percents
  <2>1. \A engine, percent : percent \in Percents => AtLeastOne(engine, percent) \in Percents
    BY DEF AtLeastOne, Percents
  <2>2. QED
    BY <2>1, SanitizedIsPercent DEF Basic
<1>10. b.pool \in Strings
  BY <1>2, <1>4 DEF Basic, Or, Names
<1>11. b.diff \in Int
  BY <1>3, <1>4 DEF Basic, Or, Keys, Flags, Names
<1>12. b = [engine |-> b.engine, threads |-> b.threads, opencl |-> b.opencl,
            compat |-> b.compat, donation |-> b.donation, wake |-> b.wake,
            companion |-> b.companion, pool |-> b.pool, diff |-> b.diff]
  BY DEF Basic
<1> HIDE DEF b
<1>13. b \in Basics
  BY <1>5, <1>6, <1>8, <1>9, <1>10, <1>11, <1>12 DEF Basics
<1>14. QED
  BY <1>13 DEF b

LEMMA DefaultIsBasic == DefaultBasic \in Basics
<1>1. IsText([key \in Keys |-> Absent])
  BY DEF IsText, Values
<1>2. QED
  BY <1>1, BasicIsBasic DEF DefaultBasic

-----------------------------------------------------------------------------
(* The two readers agree on what the page has written.                      *)

(* A text of the settings page, or the asset.                               *)
Written(c) ==
  /\ \A key \in {"cpu.enabled", "opencl.enabled", "tls.compat", "donation.percent",
                 "donate-level", "wake_lock", "pools.url", "pools.diff"} : c[key] # Absent
  /\ c["donation.percent"] \in Percents
  /\ c["engine"] # "xmrig" =>
       IF c["cpu.threads"] = Absent THEN c["cpu.enabled"] = TRUE /\ c["cpu_threads"] = Absent
       ELSE c["cpu.threads"] \in Nat /\ c["cpu.enabled"] = (c["cpu.threads"] > 0)

LEMMA AssetIsWritten == Written(Asset)
<1>1. /\ \A key \in {"cpu.enabled", "opencl.enabled", "tls.compat", "wake_lock"} :
           Asset[key] = TRUE
      /\ \A key \in {"donation.percent", "donate-level"} : Asset[key] = 1
      /\ Asset["pools.url"] = "default" /\ Asset["pools.diff"] = DefaultDiff
      /\ \A key \in {"cpu.threads", "cpu_threads"} : Asset[key] = Absent
  BY DEF Asset, Keys
<1>2. DefaultDiff # Absent /\ 1 # Absent
  BY ConfigAssumption, AbsentIsNone
<1>3. QED
  BY <1>1, <1>2, AbsentIsNone DEF Written, Percents

LEMMA WithBasicIsWritten ==
  ASSUME NEW c, IsText(c), NEW b \in Basics PROVE Written(WithBasic(c, b))
<1> DEFINE d == WithBasic(c, b)
           percent == AtLeastOne(b.engine, b.donation)
           n == NotNegative(b.threads)
<1>1. percent \in Percents
  BY DEF Basics, Percents, AtLeastOne
<1>2. IsText(d)
  BY WithBasicIsText
<1>3. /\ n \in Nat /\ (b.threads > 0) = (n > 0)
      /\ NotNegative(b.diff) \in Int
  BY DEF NotNegative, Basics
<1> HIDE DEF d, percent, n
<1>4. /\ d["engine"] = b.engine /\ d["cpu.enabled"] = (b.threads > 0)
      /\ d["cpu.threads"] = n /\ d["opencl.enabled"] = b.opencl
      /\ d["tls.compat"] = b.compat /\ d["donation.percent"] = percent
      /\ d["donate-level"] = percent /\ d["wake_lock"] = b.wake
      /\ d["pools.url"] = b.pool /\ d["pools.diff"] = NotNegative(b.diff)
  BY WithBasicKeys DEF d, percent, n
<1>5. \A key \in {"cpu.enabled", "opencl.enabled", "tls.compat", "wake_lock"} :
        d[key] \in BOOLEAN
  <2>1. b.opencl \in BOOLEAN /\ b.compat \in BOOLEAN /\ b.wake \in BOOLEAN
    BY DEF Basics
  <2>2. (b.threads > 0) \in BOOLEAN
    OBVIOUS
  <2>3. /\ d["cpu.enabled"] \in BOOLEAN /\ d["opencl.enabled"] \in BOOLEAN
        /\ d["tls.compat"] \in BOOLEAN /\ d["wake_lock"] \in BOOLEAN
    BY <1>4, <2>1, <2>2, Zenon
  <2>4. QED
    BY <2>3
<1>6. d["donation.percent"] \in Int /\ d["donate-level"] \in Int /\ d["pools.diff"] \in Int
      /\ d["pools.url"] \in Strings
  BY <1>1, <1>3, <1>4, PercentStays DEF Basics
<1>7. d["cpu.threads"] # Absent /\ d["cpu.threads"] \in Nat
  BY <1>3, <1>4, AbsentIsNone
<1>8. d["cpu.enabled"] = (d["cpu.threads"] > 0)
  BY <1>3, <1>4, Zenon
<1>9. QED
  BY <1>1, <1>4, <1>5, <1>6, <1>7, <1>8, AbsentIsNone DEF Written, d

LEMMA MigratedIsWritten ==
  ASSUME NEW c, IsText(c), Written(c)
  PROVE  /\ Written(Migrated(c))
         /\ \A key \in Keys \ {"cpu.threads", "ahead"} : Migrated(c)[key] = c[key]
         /\ Migrated(c)["cpu.threads"] = IF Widened(c) THEN Cores ELSE c["cpu.threads"]
<1> DEFINE d == Migrated(c)
<1>1. \A key \in Keys \ {"cpu.threads", "ahead"} : d[key] = c[key]
  <2>1. \A key \in Keys \ {"cpu.threads"} : Defaulted(c)[key] = c[key]
    BY DefaultedKeys DEF Written
  <2>2. QED
    BY <2>1, MigratedKeys
<1>2. d["cpu.threads"] = IF Widened(c) THEN Cores ELSE c["cpu.threads"]
  <2>1. "cpu.threads" \in Keys \ {"ahead"}
    BY DEF Keys
  <2>2. d["cpu.threads"] = Defaulted(c)["cpu.threads"]
    BY <2>1, MigratedKeys
  <2>3. QED
    BY <2>2, DefaultedKeys
<1> HIDE DEF d
<1>3. /\ \A key \in {"cpu.enabled", "opencl.enabled", "tls.compat", "donation.percent",
                     "donate-level", "wake_lock", "pools.url", "pools.diff"} :
           d[key] = c[key]
      /\ d["engine"] = c["engine"] /\ d["cpu_threads"] = c["cpu_threads"]
  BY <1>1 DEF Keys
<1>4. Widened(c) => Cores \in Nat /\ Cores > 0 /\ c["cpu.enabled"] = TRUE /\ Cores # Absent
  BY ConfigAssumption, AbsentIsNone DEF Widened
<1>5. c["engine"] # "xmrig" =>
       IF d["cpu.threads"] = Absent THEN d["cpu.enabled"] = TRUE /\ d["cpu_threads"] = Absent
       ELSE d["cpu.threads"] \in Nat /\ d["cpu.enabled"] = (d["cpu.threads"] > 0)
  BY <1>2, <1>3, <1>4 DEF Written
<1>6. Written(d)
  BY <1>3, <1>5 DEF Written
<1>7. QED
  BY <1>1, <1>2, <1>6 DEF d

(* Both readers make the same of a number of threads.                       *)
LEMMA ThreadsAgree ==
  ASSUME NEW c, c["cpu.threads"] \in Nat, c["cpu.enabled"] = (c["cpu.threads"] > 0)
  PROVE  Basic(c).threads = c["cpu.threads"] /\ Mined(c).threads = c["cpu.threads"]
<1> DEFINE n == c["cpu.threads"]
<1>1. n # Absent /\ \A fallback : Or(c, "cpu.threads", fallback) = n
  BY AbsentIsNone DEF Or
<1>2. CASE n > 0
  <2>1. c["cpu.enabled"] = TRUE
    BY <1>2
  <2>2. \A fallback : Or(c, "cpu.enabled", fallback) = TRUE
    BY <2>1, AbsentIsNone, Zenon DEF Or
  <2>3. Basic(c).threads = IF TRUE THEN n ELSE 0
    BY <1>1, <2>2 DEF Basic, HasCpu
  <2>4. Mined(c).threads = IF ~TRUE THEN 0 ELSE IF n <= 0 THEN Cores ELSE n
    BY <1>1, <2>2 DEF Mined
  <2>5. QED
    BY <1>2, <2>3, <2>4
<1>3. CASE ~(n > 0)
  <2>1. c["cpu.enabled"] = FALSE
    <3>1. (n > 0) = FALSE
      BY <1>3
    <3>2. QED
      BY <3>1, Zenon
  <2>2. \A fallback : Or(c, "cpu.enabled", fallback) = FALSE
    BY <2>1, AbsentIsNone, Zenon DEF Or
  <2>3. Basic(c).threads = IF FALSE THEN n ELSE 0
    BY <1>1, <2>2 DEF Basic, HasCpu
  <2>4. Mined(c).threads = IF ~FALSE THEN 0 ELSE IF n <= 0 THEN Cores ELSE n
    BY <1>1, <2>2 DEF Mined
  <2>5. QED
    BY <1>3, <2>3, <2>4
<1>4. QED
  BY <1>2, <1>3

(* Unless a key it does not write overrules it, the miner works with what   *)
(* the page shows.                                                          *)
LEMMA ReadersAgree ==
  ASSUME NEW c, IsText(c), Written(c), ~Overruled(c), c["engine"] # "xmrig"
  PROVE  Mined(c) = Promised(Basic(c))
<1>1. \A key \in {"donation_percent", "donation.level", "tls_compat", "pools.difficulty"} :
        c[key] = Absent
  BY DEF Overruled, Overruling
<1>2. \A key \in {"cpu.enabled", "opencl.enabled", "tls.compat", "donation.percent",
                  "pools.url", "pools.diff"} : c[key] # Absent
  BY DEF Written
<1> DEFINE percent == c["donation.percent"]
<1>3. Sanitized(percent) = percent /\ Level(percent) = percent
  BY PercentStays DEF Written
<1>4. Basic(c).donation = percent /\ Mined(c).donation = percent
  BY <1>1, <1>2, <1>3 DEF Basic, Mined, Or, AtLeastOne
<1>5. Basic(c).threads = Mined(c).threads
  <2>1. CASE c["cpu.threads"] = Absent
    BY <1>2, <2>1 DEF Basic, Mined, Or, HasCpu, Written
  <2>2. CASE c["cpu.threads"] # Absent
    <3>1. c["cpu.threads"] \in Nat /\ c["cpu.enabled"] = (c["cpu.threads"] > 0)
      BY <2>2 DEF Written
    <3>2. QED
      BY <3>1, ThreadsAgree
  <2>3. QED
    BY <2>1, <2>2
<1>6. /\ Basic(c).opencl = Mined(c).opencl /\ Basic(c).compat = Mined(c).compat
      /\ Basic(c).pool = Mined(c).pool /\ Basic(c).diff = Mined(c).diff
  BY <1>1, <1>2 DEF Basic, Mined, Or, HasPools
<1>7. QED
  BY <1>4, <1>5, <1>6 DEF Promised, Mined

(* What the user has chosen is what the text says, but for the case that    *)
(* migrateDefaults changes; XMRig mines by its own file.                    *)
Keeps(c, b) ==
  /\ c["engine"] = b.engine
  /\ b.engine = "btcrig" /\ (b.threads # 1 \/ b.pool # "default") /\ ~Overruled(c) =>
       /\ c["cpu.threads"] = b.threads /\ c["opencl.enabled"] = b.opencl
       /\ c["tls.compat"] = b.compat /\ c["donation.percent"] = b.donation
       /\ c["pools.url"] = b.pool /\ c["pools.diff"] = b.diff

LEMMA WithBasicKeeps ==
  ASSUME NEW c, IsText(c), NEW b \in Basics, Valid(b) PROVE Keeps(WithBasic(c, b), b)
<1>1. b.engine = "btcrig" => /\ AtLeastOne(b.engine, b.donation) = b.donation
                             /\ NotNegative(b.threads) = b.threads
                             /\ NotNegative(b.diff) = b.diff
  BY ConfigAssumption DEF AtLeastOne, Valid, NotNegative, Basics
<1>2. QED
  BY <1>1, WithBasicKeys DEF Keeps

LEMMA MigratedKeeps ==
  ASSUME NEW c, IsText(c), Written(c), NEW b \in Basics, Keeps(c, b)
  PROVE  Keeps(Migrated(c), b)
<1> DEFINE d == Migrated(c)
<1>1. \A key \in Keys \ {"cpu.threads", "ahead"} : d[key] = c[key]
  BY MigratedIsWritten
<1>2. d["cpu.threads"] = IF Widened(c) THEN Cores ELSE c["cpu.threads"]
  BY MigratedIsWritten
<1> HIDE DEF d
<1>3. /\ d["engine"] = c["engine"] /\ d["opencl.enabled"] = c["opencl.enabled"]
      /\ d["tls.compat"] = c["tls.compat"] /\ d["donation.percent"] = c["donation.percent"]
      /\ d["pools.url"] = c["pools.url"] /\ d["pools.diff"] = c["pools.diff"]
  BY <1>1 DEF Keys
<1>4. Overruled(d) <=> Overruled(c)
  BY <1>1 DEF Overruled, Overruling, Keys
<1>5. ASSUME b.engine = "btcrig", b.threads # 1 \/ b.pool # "default", ~Overruled(c)
      PROVE  ~Widened(c)
  <2>1. HasPools(c)
    BY DEF Written, HasPools
  <2>2. c["cpu.threads"] = b.threads /\ c["pools.url"] = b.pool
    BY <1>5 DEF Keeps
  <2>3. QED
    BY <1>5, <2>1, <2>2 DEF Widened
<1>6. Keeps(d, b)
  BY <1>2, <1>3, <1>4, <1>5 DEF Keeps
<1>7. QED
  BY <1>6 DEF d

(* Then the miner works with what was chosen, and so does the page.         *)
LEMMA MinedAsChosen ==
  ASSUME NEW c, IsText(c), Written(c), NEW b \in Basics, Keeps(c, b), ~Overruled(c),
         b.engine = "btcrig", b.threads # 1 \/ b.pool # "default"
  PROVE  Mined(c) = Promised(b) /\ Promised(Basic(c)) = Promised(b)
<1>1. /\ c["engine"] = "btcrig" /\ c["cpu.threads"] = b.threads
      /\ c["opencl.enabled"] = b.opencl /\ c["tls.compat"] = b.compat
      /\ c["donation.percent"] = b.donation /\ c["pools.url"] = b.pool
      /\ c["pools.diff"] = b.diff
  BY DEF Keeps
<1>2. \A key \in {"donation_percent", "donation.level", "tls_compat",
                  "pools.difficulty"} : c[key] = Absent
  BY DEF Overruled, Overruling
<1>3. \A key \in {"cpu.enabled", "opencl.enabled", "tls.compat", "donation.percent",
                  "pools.url", "pools.diff"} : c[key] # Absent
  BY DEF Written
<1>4. Mined(c).threads = b.threads
  <2>1. b.threads \in Int /\ b.threads # Absent
    BY AbsentIsNone DEF Basics
  <2>2. c["cpu.threads"] \in Nat /\ c["cpu.enabled"] = (c["cpu.threads"] > 0)
    BY <1>1, <2>1 DEF Written
  <2>3. QED
    BY <1>1, <2>2, ThreadsAgree
<1>5. Mined(c).donation = b.donation
  BY <1>1, <1>2, <1>3, PercentStays DEF Mined, Or, Basics
<1>6. Mined(c).opencl = b.opencl /\ Mined(c).compat = b.compat
      /\ Mined(c).pool = b.pool /\ Mined(c).diff = b.diff
  BY <1>1, <1>2, <1>3 DEF Mined, Or
<1>7. Mined(c) = Promised(b)
  BY <1>4, <1>5, <1>6 DEF Mined, Promised
<1>8. QED
  BY <1>1, <1>7, ReadersAgree

(* Reading the settings and storing them again changes none of them.        *)
LEMMA StoredAgainKeeps ==
  ASSUME NEW c, IsText(c), Written(c), Valid(Basic(c)), NEW b \in Basics, Keeps(c, b)
  PROVE  Keeps(WithBasic(c, Basic(c)), b)
<1> DEFINE a == Basic(c)
           d == WithBasic(c, a)
<1>1. a \in Basics /\ a.engine = b.engine
  <2>1. a \in Basics
    BY BasicIsBasic
  <2>2. a.engine = b.engine
    BY DEF Basic, Keeps, Basics
  <2>3. QED
    BY <2>1, <2>2
<1>2. Keeps(d, a)
  BY <1>1, WithBasicKeeps
<1>3. Overruled(d) <=> Overruled(c)
  BY <1>1, OldKeysStay
<1> HIDE DEF a, d
<1>4. ASSUME b.engine = "btcrig", b.threads # 1 \/ b.pool # "default", ~Overruled(c)
      PROVE  /\ a.threads = b.threads /\ a.opencl = b.opencl /\ a.compat = b.compat
             /\ a.donation = b.donation /\ a.pool = b.pool /\ a.diff = b.diff
  <2>1. Promised(a) = Promised(b)
    BY <1>4, MinedAsChosen DEF a
  <2>2. QED
    BY <2>1 DEF Promised
<1>5. Keeps(d, b)
  BY <1>1, <1>2, <1>3, <1>4 DEF Keeps
<1>6. QED
  BY <1>5 DEF a, d

-----------------------------------------------------------------------------
(* The file, with the main thread alone on it.                              *)

(* The text that the file holds, or will when the write is done.            *)
Current == IF pc["main"] = "put" THEN draft["main"] ELSE file

Saving == pc["main"] = "put" /\ then["main"] = "saved"

(* What may have become of the text last saved.                             *)
Remains(c) ==
  c \in IF PoolInSight(saved)
        THEN {saved, Migrated(saved)}
               \union IF Fades(saved) THEN {Absent, Asset, Migrated(Asset)} ELSE {}
        ELSE {saved, Absent, Asset, Migrated(Asset)}

Places == {"idle", "has", "migrate", "read", "put", "launch"}
Asks   == {"look", "refresh", "save", "store", "start", "command", "ensure", "companion"}

(* The other threads never touch the file; the main thread is at one place. *)
PlaceInv ==
  /\ DOMAIN pc = Procs /\ DOMAIN op = Procs /\ DOMAIN basic = Procs
  /\ DOMAIN draft = Procs /\ DOMAIN then = Procs
  /\ \A p \in Procs : p # "main" => pc[p] = "idle"
  /\ pc["main"] \in Places
  /\ pc["main"] \in {"has", "migrate", "read"} \/ (pc["main"] = "put" /\ ~Saving) =>
       op["main"] \in Asks
  /\ pc["main"] = "put" =>
       file = Absent /\ IsText(draft["main"]) /\ then["main"] \in {"migrate", "read", "saved"}

(* Settings are made sense of before they are stored.                       *)
DataInv ==
  /\ Current # Absent => IsText(Current)
  /\ saved # Absent => IsText(saved)
  /\ shown # Absent => shown \in Basics
  /\ op["main"] \in {"save", "store"} => basic["main"] \in Basics /\ Valid(basic["main"])
  /\ Saving => op["main"] \in {"edit", "save", "store"}
  /\ op["main"] = "edit" => Saving

(* ensure() has seen to it that hasPool finds a pool, migrateDefaults that  *)
(* it has nothing more to add; unless the write failed.                     *)
EnsuredInv ==
  /\ ~Saving => Remains(Current)
  /\ pc["main"] = "migrate" \/ (pc["main"] = "put" /\ then["main"] = "migrate") =>
       PoolInSight(Current)
  /\ pc["main"] = "put" /\ then["main"] = "read" => Current # Absent
  /\ pc["main"] = "read" /\ Current = Absent => failed
  /\ (pc["main"] = "read" \/ (pc["main"] = "put" /\ then["main"] = "read"))
       /\ Current # Absent =>
       /\ NamesPool(Current) /\ Migrated(Current) = Current
       /\ Fades(saved) \/ PoolInSight(Current)

(* On the way to a store or a launch the file stays what the settings were  *)
(* read from, unless it fades.                                              *)
Under == op["main"] \in {"ensure", "companion"} \/ (op["main"] = "store" /\ ~Saving)

LaunchInv ==
  /\ Under =>
       /\ pc["main"] \in {"has", "migrate", "read", "put", "launch"}
       /\ NamesPool(Current) /\ Migrated(Current) = Current
       /\ pc["main"] = "put" => then["main"] = "migrate"
       /\ ~Fades(saved) => /\ pc["main"] # "put" /\ PoolInSight(file)
                           /\ basic["main"] = Basic(file)
  /\ pc["main"] = "launch" =>
       \/ op["main"] = "ensure" /\ basic["main"].engine = "btcrig"
       \/ op["main"] = "companion" /\ companion = Companion(file)

(* Without an edit the text is the page's or the asset, and what was chosen *)
(* is in it.                                                                *)
PageInv ==
  /\ ~edited /\ ~Saving => Current = Absent \/ Written(Current)
  /\ Saving /\ op["main"] # "edit" => Written(Current)
  /\ Saving /\ op["main"] = "save" => Keeps(Current, basic["main"])
  /\ Saving /\ op["main"] # "edit" => ~Fades(Current)
  /\ chosen # Absent =>
       /\ chosen \in Basics /\ ~Fades(saved)
       /\ ~Saving \/ op["main"] = "store" =>
            Current # Absent /\ Written(Current) /\ Keeps(Current, chosen)

ConfigInv == PlaceInv /\ DataInv /\ EnsuredInv /\ LaunchInv /\ PageInv

LEMMA MainIsThere == "main" \in Procs
BY DEF Procs

(* ensure() and migrateDefaults keep what was saved.                        *)
LEMMA RemainsEnsured ==
  ASSUME NEW c, Remains(c), ~PoolInSight(c) PROVE Remains(Asset)
BY DEF Remains, Fades

LEMMA RemainsMigrated ==
  ASSUME NEW c, saved # Absent => IsText(saved), Remains(c), PoolInSight(c)
  PROVE  /\ Remains(Migrated(c))
         /\ Fades(saved) \/ PoolInSight(Migrated(c))
<1>1. PoolInSight(saved) => IsText(saved)
  BY DEF PoolInSight, NamesPool
<1>2. c # Absent
  BY DEF PoolInSight, NamesPool
<1>3. Migrated(Asset) = Asset /\ PoolInSight(Asset)
  BY AssetIsMigrated, AssetIsSeen
<1>4. CASE c = saved
  BY <1>4 DEF Remains, Fades
<1>5. CASE c = Migrated(saved) /\ PoolInSight(saved)
  BY <1>1, <1>5, MigratedTwice DEF Remains
<1>6. CASE c = Asset /\ (Fades(saved) \/ ~PoolInSight(saved))
  BY <1>3, <1>6 DEF Remains
<1>7. QED
  BY <1>2, <1>3, <1>4, <1>5, <1>6 DEF Remains

(* A step between two places at which nothing is written.                   *)
LEMMA TextStays ==
  ASSUME ConfigInv, pc["main"] # "put", pc'["main"] # "put",
         UNCHANGED <<file, saved, chosen, edited>>
  PROVE  /\ Current = file /\ Current' = file /\ ~Saving /\ ~Saving'
         /\ Current' # Absent => IsText(Current)'
         /\ (saved # Absent => IsText(saved))'
         /\ Remains(Current)' /\ PageInv'
<1>1. Current = file /\ Current' = file /\ ~Saving /\ ~Saving'
  BY DEF Current, Saving
<1>2. (Current' # Absent => IsText(Current)') /\ (saved # Absent => IsText(saved))'
      /\ Remains(Current)'
  BY <1>1 DEF ConfigInv, DataInv, EnsuredInv, Remains
<1>3. PageInv'
  BY <1>1 DEF ConfigInv, PageInv
<1>4. QED
  BY <1>1, <1>2, <1>3

(* The main thread is done, or begins what needs no settings.               *)
LEMMA NewAsk ==
  ASSUME ConfigInv, pc["main"] # "put", UNCHANGED <<file, saved, chosen, edited>>, PlaceInv',
         \/ pc'["main"] = "idle" /\ op'["main"] = "none"
         \/ pc'["main"] = "has" /\ op'["main"] \in {"look", "refresh", "start", "command"},
         (shown # Absent => shown \in Basics)'
  PROVE  ConfigInv'
<1>1. pc'["main"] # "put" /\ pc'["main"] \notin {"migrate", "read", "launch"}
      /\ op'["main"] \notin {"save", "store", "edit", "ensure", "companion"}
  OBVIOUS
<1>2. DataInv'
  BY <1>1, TextStays DEF DataInv
<1>3. EnsuredInv'
  BY <1>1, TextStays DEF EnsuredInv
<1>4. LaunchInv'
  BY <1>1 DEF LaunchInv, Under
<1>5. QED
  BY <1>1, <1>2, <1>3, <1>4, TextStays DEF ConfigInv

(* What was in the file is lost, and the main thread holds no settings of it. *)
LEMMA FileLost ==
  ASSUME PlaceInv', file' = Absent, saved' = Absent, chosen' = Absent,
         pc'["main"] \in {"idle", "has", "read"}, pc'["main"] = "read" => failed',
         op'["main"] \notin {"edit", "store", "ensure", "companion"},
         (op["main"] = "save" => basic["main"] \in Basics /\ Valid(basic["main"]))',
         (shown # Absent => shown \in Basics)'
  PROVE  ConfigInv'
<1>1. Current' = Absent /\ ~Saving'
  BY DEF Current, Saving
<1>2. DataInv'
  BY <1>1 DEF DataInv
<1>3. EnsuredInv'
  BY <1>1 DEF EnsuredInv, Remains, PoolInSight, NamesPool
<1>4. LaunchInv' /\ PageInv'
  BY <1>1 DEF LaunchInv, Under, PageInv
<1>5. QED
  BY <1>2, <1>3, <1>4 DEF ConfigInv

LEMMA GivenUp ==
  ASSUME ConfigInv, pc["main"] # "idle", GiveUp("main"), DOMAIN draft' = Procs,
         DOMAIN then' = Procs
  PROVE  /\ PlaceInv' /\ (shown # Absent => shown \in Basics)'
         /\ \/ pc'["main"] = "idle" /\ op'["main"] = "none"
            \/ pc'["main"] = "has" /\ op'["main"] = "look"
<1> USE MainIsThere
<1>1. (shown # Absent => shown \in Basics)'
  BY DefaultIsBasic DEF GiveUp, ConfigInv, DataInv
<1>2. CASE op["main"] \in {"refresh", "store", "start"}
  <2>1. Begin("main", "look", Absent)
    BY <1>2 DEF GiveUp
  <2>2. QED
    BY <1>1, <2>1 DEF Begin, ConfigInv, PlaceInv, Places, Saving, Asks
<1>3. CASE op["main"] \notin {"refresh", "store", "start"}
  <2>1. Ended("main")
    BY <1>3 DEF GiveUp
  <2>2. QED
    BY <1>1, <2>1 DEF Ended, ConfigInv, PlaceInv, Places, Saving
<1>4. QED
  BY <1>2, <1>3

LEMMA EnsureStep == ASSUME ConfigInv, EnsureAction("main") PROVE ConfigInv'
<1> USE MainIsThere
<1>1. pc["main"] = "has" /\ UNCHANGED <<op, basic, shown, saved, edited, companion>>
      /\ Current = file /\ ~Saving
  BY DEF EnsureAction, Current, Saving
<1>2. CASE HasPool(file)
  <2>1. pc' = [pc EXCEPT !["main"] = "migrate"] /\ UNCHANGED <<file, draft, then, chosen>>
    BY <1>2 DEF EnsureAction
  <2>2. PlaceInv'
    BY <1>1, <2>1 DEF ConfigInv, PlaceInv, Places, Saving
  <2>3. pc'["main"] = "migrate"
    BY <2>1 DEF ConfigInv, PlaceInv
  <2>4. DataInv'
    BY <1>1, <2>1, <2>3, TextStays DEF ConfigInv, DataInv
  <2>5. EnsuredInv'
    BY <1>1, <1>2, <2>1, <2>3, TextStays DEF EnsuredInv, HasPool
  <2>6. LaunchInv'
    BY <1>1, <2>1, <2>3, TextStays DEF ConfigInv, LaunchInv, Under
  <2>7. QED
    BY <1>1, <2>1, <2>2, <2>3, <2>4, <2>5, <2>6, TextStays DEF ConfigInv
<1>3. CASE ~HasPool(file)
  <2>1. /\ file' = Absent /\ pc' = [pc EXCEPT !["main"] = "put"]
        /\ draft' = [draft EXCEPT !["main"] = Asset]
        /\ then' = [then EXCEPT !["main"] = "migrate"] /\ chosen' = Absent
    BY <1>3 DEF EnsureAction, Truncate
  <2>2. pc'["main"] = "put" /\ draft'["main"] = Asset /\ then'["main"] = "migrate"
    BY <2>1 DEF ConfigInv, PlaceInv
  <2>3. Current' = Asset /\ ~Saving'
    BY <2>2 DEF Current, Saving
  <2>4. PlaceInv'
    BY <1>1, <2>1, <2>2, <2>3, AssetIsText DEF ConfigInv, PlaceInv, Places
  <2>5. Under => Fades(saved)
    BY <1>1, <1>3 DEF ConfigInv, LaunchInv, HasPool
  <2>6. DataInv'
    BY <1>1, <2>3, AssetIsText DEF ConfigInv, DataInv
  <2>7. Remains(Current)'
    <3>1. Remains(Asset)
      BY <1>1, <1>3, RemainsEnsured DEF ConfigInv, DataInv, EnsuredInv, HasPool
    <3>2. QED
      BY <1>1, <2>3, <3>1 DEF Remains
  <2>8. EnsuredInv'
    BY <2>2, <2>3, <2>7, AssetIsSeen DEF EnsuredInv
  <2>9. LaunchInv'
    BY <1>1, <2>2, <2>3, <2>5, AssetIsSeen, AssetIsMigrated DEF LaunchInv, Under, PoolInSight
  <2>10. PageInv'
    BY <2>1, <2>3, AssetIsWritten DEF PageInv
  <2>11. QED
    BY <2>4, <2>6, <2>8, <2>9, <2>10 DEF ConfigInv
<1>4. QED
  BY <1>2, <1>3

LEMMA MigrateStep == ASSUME ConfigInv, MigrateAction("main") PROVE ConfigInv'
<1> USE MainIsThere
<1>1. pc["main"] = "migrate"
      /\ UNCHANGED <<op, basic, shown, saved, chosen, edited, companion>>
      /\ Current = file /\ ~Saving
  BY DEF MigrateAction, Current, Saving
<1>2. PoolInSight(file) /\ NamesPool(file) /\ file # Absent /\ IsText(file)
  BY <1>1 DEF ConfigInv, EnsuredInv, DataInv, PoolInSight, NamesPool
<1>3. CASE Migrated(file) = file
  <2>1. pc' = [pc EXCEPT !["main"] = "read"] /\ UNCHANGED <<file, draft, then>>
    BY <1>3 DEF MigrateAction
  <2>2. PlaceInv'
    BY <1>1, <2>1 DEF ConfigInv, PlaceInv, Places, Saving
  <2>3. pc'["main"] = "read"
    BY <2>1 DEF ConfigInv, PlaceInv
  <2>4. DataInv'
    BY <1>1, <2>1, <2>3, TextStays DEF ConfigInv, DataInv
  <2>5. EnsuredInv'
    BY <1>1, <1>2, <1>3, <2>1, <2>3, TextStays DEF EnsuredInv
  <2>6. LaunchInv'
    BY <1>1, <2>1, <2>3, TextStays DEF ConfigInv, LaunchInv, Under
  <2>7. QED
    BY <1>1, <2>1, <2>2, <2>3, <2>4, <2>5, <2>6, TextStays DEF ConfigInv
<1>4. CASE Migrated(file) # file
  <2> DEFINE new == Migrated(file)
  <2>1. /\ file' = Absent /\ pc' = [pc EXCEPT !["main"] = "put"]
        /\ draft' = [draft EXCEPT !["main"] = new]
        /\ then' = [then EXCEPT !["main"] = "read"]
    BY <1>2, <1>4, TextIsThere DEF MigrateAction, Truncate
  <2>2. IsText(new) /\ NamesPool(new) /\ Migrated(new) = new
    BY <1>2, MigratedIsText, MigratedNamesPool, MigratedTwice
  <2>3. Written(file) => Written(new)
    BY <1>2, MigratedIsWritten
  <2>4. chosen # Absent =>
          chosen \in Basics /\ ~Fades(saved) /\ Written(new) /\ Keeps(new, chosen)
    BY <1>1, <1>2, <2>3, MigratedKeeps DEF ConfigInv, PageInv
  <2>5. Remains(new) /\ (Fades(saved) \/ PoolInSight(new))
    BY <1>1, <1>2, RemainsMigrated DEF ConfigInv, DataInv, EnsuredInv
  <2> HIDE DEF new
  <2>6. pc'["main"] = "put" /\ draft'["main"] = new /\ then'["main"] = "read"
    BY <2>1 DEF ConfigInv, PlaceInv
  <2>7. Current' = new /\ ~Saving'
    BY <2>6 DEF Current, Saving
  <2>8. PlaceInv'
    BY <1>1, <2>1, <2>2, <2>6, <2>7 DEF ConfigInv, PlaceInv, Places
  <2>9. op["main"] \notin {"ensure", "companion", "store"}
    BY <1>1, <1>4 DEF ConfigInv, LaunchInv, Under
  <2>10. DataInv'
    BY <1>1, <2>2, <2>7, <2>9 DEF ConfigInv, DataInv
  <2>11. EnsuredInv'
    BY <1>1, <2>2, <2>5, <2>6, <2>7, TextIsThere DEF EnsuredInv, Remains
  <2>12. LaunchInv'
    BY <1>1, <2>6, <2>9 DEF LaunchInv, Under
  <2>13. new # Absent
    BY <2>2, TextIsThere
  <2>14. ~edited => Written(new)
    BY <1>1, <1>2, <2>3, TextIsThere DEF ConfigInv, PageInv
  <2>15. PageInv'
    BY <1>1, <2>4, <2>7, <2>13, <2>14 DEF PageInv
  <2>16. QED
    BY <2>8, <2>10, <2>11, <2>12, <2>15 DEF ConfigInv
<1>5. QED
  BY <1>3, <1>4

LEMMA PutStep == ASSUME ConfigInv, PutAction("main") PROVE ConfigInv'
<1> USE MainIsThere
<1> DEFINE text == draft["main"]
<1>1. pc["main"] = "put" /\ file' = text /\ Current = text /\ UNCHANGED companion
      /\ draft' = [draft EXCEPT !["main"] = Absent]
      /\ then' = [then EXCEPT !["main"] = "idle"]
  BY DEF PutAction, Current
<1>2. IsText(text) /\ text # Absent /\ then["main"] \in {"migrate", "read", "saved"}
  BY <1>1, TextIsThere DEF ConfigInv, PlaceInv
<1> HIDE DEF text
<1>3. CASE then["main"] # "saved"
  <2>1. pc' = [pc EXCEPT !["main"] = then["main"]]
        /\ UNCHANGED <<op, basic, shown, saved, chosen>>
        /\ edited' = (edited /\ text # Asset)
    BY <1>3 DEF PutAction, text
  <2>2. pc'["main"] \in {"migrate", "read"} /\ pc'["main"] = then["main"] /\ ~Saving
    BY <1>2, <1>3, <2>1 DEF ConfigInv, PlaceInv, Saving
  <2>3. Current' = text /\ ~Saving'
    BY <1>1, <2>2 DEF Current, Saving
  <2>4. PlaceInv'
    BY <1>1, <2>1, <2>2, <2>3 DEF ConfigInv, PlaceInv, Places
  <2>5. Under => Fades(saved) /\ NamesPool(text) /\ Migrated(text) = text
    BY <1>1 DEF ConfigInv, LaunchInv
  <2>6. DataInv'
    BY <1>1, <1>2, <2>1, <2>2, <2>3 DEF ConfigInv, DataInv
  <2>7. EnsuredInv'
    BY <1>1, <2>1, <2>2, <2>3 DEF ConfigInv, EnsuredInv, Remains
  <2>8. LaunchInv'
    BY <2>1, <2>2, <2>3, <2>5 DEF LaunchInv, Under
  <2>9. ~edited' => Written(text)
    <3>1. ~edited' => ~edited \/ text = Asset
      BY <2>1
    <3>2. ~edited => Written(text)
      BY <1>1, <1>2, <2>2 DEF ConfigInv, PageInv
    <3>3. QED
      BY <3>1, <3>2, AssetIsWritten
  <2>10. PageInv'
    BY <1>1, <2>1, <2>2, <2>3, <2>9 DEF ConfigInv, PageInv
  <2>11. QED
    BY <2>4, <2>6, <2>7, <2>8, <2>10 DEF ConfigInv
<1>4. CASE then["main"] = "saved"
  <2>1. Saving /\ op["main"] \in {"edit", "save", "store"}
    BY <1>1, <1>4 DEF Saving, ConfigInv, DataInv
  <2>2. saved' = text /\ edited' = (op["main"] = "edit") /\ UNCHANGED shown
        /\ \/ /\ op["main"] = "edit" /\ Begin("main", "refresh", Absent) /\ chosen' = Absent
           \/ /\ op["main"] = "save" /\ Begin("main", "look", Absent)
              /\ chosen' = basic["main"]
           \/ /\ op["main"] = "store" /\ Begin("main", "look", Absent) /\ chosen' = chosen
    BY <1>4, <2>1 DEF PutAction, text
  <2>3. /\ pc' = [pc EXCEPT !["main"] = "has"] /\ DOMAIN op' = DOMAIN op
        /\ DOMAIN basic' = DOMAIN basic /\ op'["main"] \in {"look", "refresh"}
    BY <2>2 DEF Begin, ConfigInv, PlaceInv
  <2>4. pc'["main"] = "has"
    BY <2>3 DEF ConfigInv, PlaceInv
  <2>5. Current' = text /\ ~Saving'
    BY <1>1, <2>4 DEF Current, Saving
  <2>6. PlaceInv'
    BY <1>1, <2>3, <2>4 DEF ConfigInv, PlaceInv, Places, Asks
  <2>7. DataInv'
    BY <1>2, <2>2, <2>3, <2>5 DEF ConfigInv, DataInv
  <2>8. EnsuredInv'
    BY <2>2, <2>4, <2>5 DEF EnsuredInv, Remains
  <2>9. LaunchInv'
    BY <2>3, <2>4 DEF LaunchInv, Under
  <2>10. ~edited' => Written(text)
    BY <1>1, <2>1, <2>2 DEF ConfigInv, PageInv
  <2>11. chosen' # Absent =>
           /\ chosen' \in Basics /\ ~Fades(text)
           /\ Written(text) /\ Keeps(text, chosen')
    <3>1. CASE op["main"] = "edit"
      BY <2>2, <3>1
    <3>2. CASE op["main"] = "save"
      BY <1>1, <2>1, <2>2, <3>2 DEF ConfigInv, PageInv, DataInv
    <3>3. CASE op["main"] = "store"
      BY <1>1, <2>1, <2>2, <3>3 DEF ConfigInv, PageInv
    <3>4. QED
      BY <2>1, <3>1, <3>2, <3>3
  <2>12. PageInv'
    BY <1>2, <2>2, <2>5, <2>10, <2>11 DEF PageInv
  <2>13. QED
    BY <2>6, <2>7, <2>8, <2>9, <2>12 DEF ConfigInv
<1>5. QED
  BY <1>3, <1>4

(* A write that fails loses what was saved, and the operation ends, or goes *)
(* on to find the file empty.                                               *)
LEMMA PutFailsStep == ASSUME ConfigInv, PutFails("main") PROVE ConfigInv'
<1> USE MainIsThere
<1>1. /\ pc["main"] = "put" /\ file' = Absent /\ saved' = Absent /\ chosen' = Absent
      /\ failed' = (then["main"] # "saved")
      /\ DOMAIN draft' = Procs /\ DOMAIN then' = Procs
  BY DEF PutFails, ConfigInv, PlaceInv
<1>2. CASE then["main"] = "read"
  <2>1. pc' = [pc EXCEPT !["main"] = "read"] /\ UNCHANGED <<op, basic, shown>>
    BY <1>2 DEF PutFails
  <2>2. pc'["main"] = "read" /\ failed'
    BY <1>1, <1>2, <2>1 DEF ConfigInv, PlaceInv
  <2>3. ~Saving /\ op["main"] \in Asks \ {"store", "ensure", "companion"}
    BY <1>1, <1>2 DEF ConfigInv, PlaceInv, LaunchInv, Under, Saving
  <2>4. PlaceInv'
    BY <1>1, <2>1, <2>2, <2>3 DEF ConfigInv, PlaceInv, Places, Saving
  <2>5. op'["main"] \notin {"edit", "store", "ensure", "companion"}
    BY <2>1, <2>3 DEF Asks
  <2>6. QED
    BY <1>1, <2>1, <2>2, <2>4, <2>5, FileLost DEF ConfigInv, DataInv
<1>3. CASE then["main"] # "read"
  <2>1. GiveUp("main")
    BY <1>3 DEF PutFails
  <2>2. QED
    BY <1>1, <2>1, GivenUp, FileLost
<1>4. QED
  BY <1>2, <1>3

LEMMA ReadStep == ASSUME ConfigInv, ReadAction("main") PROVE ConfigInv'
<1> USE MainIsThere
<1>1. pc["main"] = "read" /\ Current = file /\ ~Saving
      /\ UNCHANGED <<ordered, saved, chosen, edited, saves>>
  BY DEF ReadAction, Current, Saving
<1>2. file # Absent => /\ IsText(file) /\ Basic(file) \in Basics /\ NamesPool(file)
                       /\ Migrated(file) = file /\ (Fades(saved) \/ PoolInSight(file))
  BY <1>1, BasicIsBasic DEF ConfigInv, EnsuredInv, DataInv
<1>3. op["main"] \in Asks
  BY <1>1 DEF ConfigInv, PlaceInv
<1>ensured. op["main"] = "ensure" => file # Absent
  BY <1>1 DEF ConfigInv, LaunchInv, Under, NamesPool
<1>empty. CASE file = Absent
  <2>1. GiveUp("main") /\ UNCHANGED <<file, draft, then>>
    BY <1>1, <1>ensured, <1>empty DEF ReadAction
  <2>2. DOMAIN draft' = Procs /\ DOMAIN then' = Procs
    BY <2>1 DEF ConfigInv, PlaceInv
  <2>3. QED
    BY <1>1, <2>1, <2>2, GivenUp, NewAsk
<1> SUFFICES ASSUME file # Absent PROVE ConfigInv'
  BY <1>empty
<1>4. ASSUME Ended("main"), UNCHANGED <<file, draft, then, shown>>
      PROVE  ConfigInv'
  <2>1. PlaceInv' /\ pc'["main"] = "idle" /\ op'["main"] = "none"
    BY <1>1, <1>4 DEF Ended, ConfigInv, PlaceInv, Places, Saving
  <2>2. QED
    BY <1>1, <1>4, <2>1, NewAsk DEF ConfigInv, DataInv
<1>5. ASSUME NEW ask \in {"look"}, Begin("main", ask, Absent),
             UNCHANGED <<file, draft, then>>, shown' = shown \/ shown' \in Basics
      PROVE  ConfigInv'
  <2>1. PlaceInv' /\ pc'["main"] = "has" /\ op'["main"] = ask
    BY <1>1, <1>5 DEF Begin, ConfigInv, PlaceInv, Places, Saving, Asks
  <2>2. QED
    BY <1>1, <1>5, <2>1, NewAsk DEF ConfigInv, DataInv
<1>6. ASSUME NEW ask \in {"store", "ensure", "companion"}, NEW b, Begin("main", ask, b),
             UNCHANGED <<file, draft, then, shown>>, Fades(saved) \/ b = Basic(file),
             ask = "store" => b \in Basics /\ Valid(b)
      PROVE  ConfigInv'
  <2>1. PlaceInv' /\ pc'["main"] = "has" /\ op'["main"] = ask /\ basic'["main"] = b
    BY <1>1, <1>6 DEF Begin, ConfigInv, PlaceInv, Places, Saving, Asks
  <2>2. /\ Current' = file /\ ~Saving' /\ PageInv'
        /\ Current' # Absent => IsText(Current)'
        /\ (saved # Absent => IsText(saved))' /\ Remains(Current)'
    BY <1>1, <1>6, <2>1, TextStays
  <2>3. DataInv'
    BY <1>6, <2>1, <2>2 DEF ConfigInv, DataInv
  <2>4. EnsuredInv'
    BY <2>1, <2>2 DEF EnsuredInv
  <2>5. LaunchInv'
    BY <1>1, <1>2, <1>6, <2>1, <2>2 DEF LaunchInv
  <2>6. QED
    BY <2>1, <2>2, <2>3, <2>4, <2>5 DEF ConfigInv
<1>7. ASSUME pc' = [pc EXCEPT !["main"] = "launch"],
             UNCHANGED <<file, op, basic, draft, then, shown>>,
             \/ op["main"] = "ensure" /\ basic["main"].engine = "btcrig"
             \/ op["main"] = "companion" /\ companion' = Companion(file)
      PROVE  ConfigInv'
  <2>1. PlaceInv' /\ pc'["main"] = "launch"
    BY <1>1, <1>7 DEF ConfigInv, PlaceInv, Places, Saving
  <2>2. /\ Current' = file /\ ~Saving' /\ PageInv'
        /\ Current' # Absent => IsText(Current)'
        /\ (saved # Absent => IsText(saved))' /\ Remains(Current)'
    BY <1>1, <1>7, <2>1, TextStays
  <2>3. DataInv'
    BY <1>7, <2>1, <2>2 DEF ConfigInv, DataInv
  <2>4. EnsuredInv'
    BY <2>1, <2>2 DEF EnsuredInv
  <2>5. LaunchInv'
    BY <1>1, <1>7, <2>1, <2>2 DEF ConfigInv, LaunchInv, Under
  <2>6. QED
    BY <2>1, <2>2, <2>3, <2>4, <2>5 DEF ConfigInv
<1>8. CASE op["main"] = "look"
  BY <1>2, <1>4, <1>8 DEF ReadAction
<1>9. CASE op["main"] = "refresh"
  <2>1. shown' = Basic(file) /\ Begin("main", "look", Absent) /\ UNCHANGED <<file, draft, then>>
    BY <1>2, <1>9 DEF ReadAction
  <2>2. QED
    BY <1>2, <1>5, <2>1
<1>10. CASE op["main"] \in {"save", "store"}
  <2> DEFINE b == basic["main"]
             new == WithBasic(file, b)
  <2>1. Truncate("main", new, "saved") /\ UNCHANGED <<companion, op, basic, shown>>
    BY <1>2, <1>10 DEF ReadAction
  <2>2. b \in Basics /\ Valid(b)
    BY <1>10 DEF ConfigInv, DataInv
  <2>3. IsText(new) /\ new # Absent /\ Written(new) /\ Keeps(new, b) /\ ~Fades(new)
    BY <1>2, <2>2, WithBasicIsText, TextIsThere, WithBasicIsWritten, WithBasicKeeps,
       WithBasicNeverFades
  <2>4. op["main"] = "store" => Fades(saved) \/ b = Basic(file)
    BY <1>1 DEF ConfigInv, LaunchInv, Under
  <2>5. chosen # Absent /\ op["main"] = "store" => chosen \in Basics /\ Keeps(new, chosen)
    BY <1>1, <1>2, <2>2, <2>4, StoredAgainKeeps DEF ConfigInv, PageInv
  <2> HIDE DEF new
  <2>6. /\ pc' = [pc EXCEPT !["main"] = "put"] /\ draft' = [draft EXCEPT !["main"] = new]
        /\ then' = [then EXCEPT !["main"] = "saved"] /\ file' = Absent
        /\ pc'["main"] = "put" /\ draft'["main"] = new /\ then'["main"] = "saved"
    BY <2>1 DEF Truncate, ConfigInv, PlaceInv
  <2>7. Current' = new /\ Saving'
    BY <2>6 DEF Current, Saving
  <2>8. PlaceInv'
    BY <2>1, <2>3, <2>6, <2>7 DEF ConfigInv, PlaceInv, Places
  <2>9. DataInv'
    BY <1>1, <1>10, <2>1, <2>3, <2>7 DEF ConfigInv, DataInv
  <2>10. EnsuredInv'
    BY <2>6, <2>7 DEF EnsuredInv
  <2>11. LaunchInv'
    BY <1>10, <2>1, <2>6, <2>7 DEF LaunchInv, Under
  <2>12. PageInv'
    BY <1>1, <2>1, <2>3, <2>5, <2>7 DEF ConfigInv, PageInv
  <2>13. QED
    BY <2>8, <2>9, <2>10, <2>11, <2>12 DEF ConfigInv
<1>11. CASE op["main"] = "start"
  <2>1. /\ IF Valid(Basic(file)) THEN Begin("main", "store", Basic(file))
           ELSE Begin("main", "look", Absent)
        /\ UNCHANGED <<file, draft, then, shown>>
    BY <1>2, <1>11 DEF ReadAction
  <2>2. QED
    BY <1>2, <1>5, <1>6, <2>1
<1>12. CASE op["main"] = "command"
  <2>1. Begin("main", "ensure", Basic(file)) /\ UNCHANGED <<file, draft, then, shown>>
    BY <1>2, <1>12 DEF ReadAction
  <2>2. QED
    BY <1>6, <2>1
<1>13. CASE op["main"] = "ensure"
  <2>1. /\ IF basic["main"].engine = "btcrig"
           THEN pc' = [pc EXCEPT !["main"] = "launch"] /\ UNCHANGED <<op, basic>>
           ELSE IF basic["main"].companion THEN Begin("main", "companion", basic["main"])
           ELSE Ended("main")
        /\ UNCHANGED <<file, draft, then, shown>>
    BY <1>2, <1>13 DEF ReadAction
  <2>2. Fades(saved) \/ basic["main"] = Basic(file)
    BY <1>13 DEF ConfigInv, LaunchInv, Under
  <2>3. CASE basic["main"].engine = "btcrig"
    BY <1>7, <1>13, <2>1, <2>3
  <2>4. CASE basic["main"].engine # "btcrig" /\ basic["main"].companion
    <3>1. Begin("main", "companion", basic["main"])
      BY <2>1, <2>4
    <3>2. QED
      BY <1>6, <2>1, <2>2, <3>1
  <2>5. CASE basic["main"].engine # "btcrig" /\ ~basic["main"].companion
    BY <1>4, <2>1, <2>5
  <2>6. QED
    BY <2>3, <2>4, <2>5
<1>14. CASE op["main"] = "companion"
  <2>1. /\ \/ /\ companion' = Companion(file) /\ pc' = [pc EXCEPT !["main"] = "launch"]
              /\ UNCHANGED <<op, basic>>
           \/ Ended("main")
        /\ UNCHANGED <<file, draft, then, shown>>
    BY <1>14 DEF ReadAction
  <2>2. QED
    BY <1>4, <1>7, <1>14, <2>1
<1>15. QED
  BY <1>3, <1>8, <1>9, <1>10, <1>11, <1>12, <1>13, <1>14 DEF Asks

(* What the user and Android do.                                            *)
LEMMA EditStep == ASSUME ConfigInv, Edit PROVE ConfigInv'
<1> USE MainIsThere
<1>1. PICK text \in Edits : Truncate("main", text, "saved")
  BY DEF Edit
<1>2. IsText(text) /\ text # Absent
  BY ConfigAssumption, TextIsThere
<1>3. /\ pc' = [pc EXCEPT !["main"] = "put"] /\ draft' = [draft EXCEPT !["main"] = text]
      /\ then' = [then EXCEPT !["main"] = "saved"] /\ file' = Absent
      /\ op' = [op EXCEPT !["main"] = "edit"]
      /\ UNCHANGED <<companion, basic, shown, saved, chosen, edited>>
  BY <1>1 DEF Edit, Truncate
<1>4. /\ pc'["main"] = "put" /\ draft'["main"] = text /\ then'["main"] = "saved"
      /\ op'["main"] = "edit"
  BY <1>3 DEF ConfigInv, PlaceInv
<1>5. Current' = text /\ Saving'
  BY <1>4 DEF Current, Saving
<1>6. PlaceInv'
  BY <1>2, <1>3, <1>4, <1>5 DEF ConfigInv, PlaceInv, Places
<1>7. DataInv'
  BY <1>2, <1>3, <1>4, <1>5 DEF ConfigInv, DataInv
<1>8. EnsuredInv' /\ LaunchInv'
  BY <1>4, <1>5 DEF EnsuredInv, LaunchInv, Under
<1>9. PageInv'
  <2>1. chosen # Absent => chosen \in Basics /\ ~Fades(saved)
    BY DEF ConfigInv, PageInv
  <2>2. QED
    BY <1>3, <1>4, <1>5, <2>1 DEF PageInv
<1>10. QED
  BY <1>6, <1>7, <1>8, <1>9 DEF ConfigInv

LEMMA ChangedAreBasics ==
  ASSUME shown \in Basics, NEW next \in Changed PROVE next \in Basics
<1>1. /\ Threads \subseteq Int /\ Donations \subseteq Percents /\ Diffs \subseteq Int
      /\ Pools \subseteq Strings
  BY ConfigAssumption DEF Percents, Strings
<1>2. /\ \A e \in {"btcrig", "xmrig"} : [shown EXCEPT !.engine = e] \in Basics
      /\ \A n \in Threads : [shown EXCEPT !.threads = n] \in Basics
      /\ \A d \in Donations : [shown EXCEPT !.donation = d] \in Basics
      /\ \A u \in Pools : [shown EXCEPT !.pool = u] \in Basics
      /\ \A d \in Diffs : [shown EXCEPT !.diff = d] \in Basics
  BY <1>1 DEF Basics
<1>3. /\ [shown EXCEPT !.opencl = ~@] \in Basics /\ [shown EXCEPT !.compat = ~@] \in Basics
      /\ [shown EXCEPT !.companion = ~@] \in Basics
  BY DEF Basics
<1>4. QED
  BY <1>2, <1>3 DEF Changed

LEMMA SaveStep == ASSUME ConfigInv, Save PROVE ConfigInv'
<1> USE MainIsThere
<1>1. PICK next \in Changed :
        Valid(next) /\ BeginOnMain("save", next) /\ shown' = next
  BY DEF Save
<1>2. next \in Basics
  BY ChangedAreBasics DEF Save, ConfigInv, DataInv
<1>3. pc["main"] = "idle" /\ UNCHANGED <<file, companion, draft, then, saved, chosen, edited>>
      /\ Begin("main", "save", next)
  BY <1>1 DEF BeginOnMain, Idle
<1>4. PlaceInv' /\ pc'["main"] = "has" /\ op'["main"] = "save" /\ basic'["main"] = next
  BY <1>3 DEF Begin, ConfigInv, PlaceInv, Places, Saving, Asks
<1>5. /\ Current' = file /\ ~Saving' /\ PageInv'
      /\ Current' # Absent => IsText(Current)'
      /\ (saved # Absent => IsText(saved))' /\ Remains(Current)'
  BY <1>3, <1>4, TextStays
<1>6. DataInv'
  BY <1>1, <1>2, <1>4, <1>5 DEF DataInv
<1>7. EnsuredInv' /\ LaunchInv'
  BY <1>4, <1>5 DEF EnsuredInv, LaunchInv, Under
<1>8. QED
  BY <1>4, <1>5, <1>6, <1>7 DEF ConfigInv

LEMMA AskStep == ASSUME ConfigInv, Resume \/ Start \/ Command PROVE ConfigInv'
<1> USE MainIsThere
<1>1. PICK ask \in {"refresh", "start", "command"} : BeginOnMain(ask, Absent)
  BY DEF Resume, Start, Command
<1>2. pc["main"] = "idle" /\ UNCHANGED <<file, draft, then, saved, chosen, edited, shown>>
      /\ Begin("main", ask, Absent)
  BY <1>1 DEF BeginOnMain, Idle, Resume, Start, Command
<1>3. PlaceInv' /\ pc'["main"] = "has" /\ op'["main"] = ask
  BY <1>2 DEF Begin, ConfigInv, PlaceInv, Places, Saving, Asks
<1>4. QED
  BY <1>2, <1>3, NewAsk DEF ConfigInv, DataInv

LEMMA KillStep == ASSUME ConfigInv, Kill PROVE ConfigInv'
<1> USE MainIsThere
<1>1. /\ pc' = [p \in Procs |-> "idle"] /\ op' = [p \in Procs |-> "none"]
      /\ basic' = [p \in Procs |-> Absent] /\ draft' = [p \in Procs |-> Absent]
      /\ then' = [p \in Procs |-> "idle"] /\ shown' = Absent
      /\ UNCHANGED <<file, companion, edited, saves>>
  BY DEF Kill
<1>2. PlaceInv' /\ pc'["main"] = "idle" /\ op'["main"] = "none"
  BY <1>1 DEF PlaceInv, Places, Saving
<1>3. CASE pc["main"] # "put"
  <2>1. ~\E p \in Procs : pc[p] = "put"
    BY <1>3 DEF ConfigInv, PlaceInv
  <2>2. saved' = saved /\ chosen' = chosen
    BY <2>1 DEF Kill
  <2>3. QED
    BY <1>1, <1>2, <1>3, <2>2, NewAsk
<1>4. CASE pc["main"] = "put"
  <2>1. saved' = Absent /\ chosen' = Absent /\ file' = Absent
    BY <1>1, <1>4 DEF Kill, ConfigInv, PlaceInv
  <2>2. QED
    BY <1>1, <1>2, <2>1, FileLost
<1>5. QED
  BY <1>3, <1>4

LEMMA ConfigStep == ConfigInv /\ [Next]_vars => ConfigInv'
<1> SUFFICES ASSUME ConfigInv, [Next]_vars PROVE ConfigInv'
  OBVIOUS
<1>1. CASE \E p \in Procs : Step(p)
  <2>1. PICK p \in Procs : Step(p)
    BY <1>1
  <2>2. p = "main"
    <3>1. pc[p] # "idle"
      BY <2>1 DEF Step, EnsureAction, MigrateAction, PutAction, PutFails, ReadAction,
                  LaunchAction
    <3>2. QED
      BY <3>1 DEF ConfigInv, PlaceInv
  <2>3. CASE LaunchAction("main")
    <3>1. pc["main"] = "launch" /\ Ended("main")
          /\ UNCHANGED <<file, draft, then, saved, chosen, edited, shown>>
      BY <2>3 DEF LaunchAction
    <3>2. PlaceInv' /\ pc'["main"] = "idle" /\ op'["main"] = "none"
      BY <3>1, MainIsThere DEF Ended, ConfigInv, PlaceInv, Places, Saving
    <3>3. QED
      BY <3>1, <3>2, NewAsk DEF ConfigInv, DataInv
  <2>4. QED
    BY <2>1, <2>2, <2>3, EnsureStep, MigrateStep, PutStep, PutFailsStep, ReadStep DEF Step
<1>2. CASE UNCHANGED vars
  <2>1. UNCHANGED <<Current, Saving>>
    BY <1>2 DEF vars, Current, Saving
  <2>2. PlaceInv' /\ DataInv'
    BY <1>2, <2>1 DEF vars, ConfigInv, PlaceInv, DataInv
  <2>3. EnsuredInv' /\ LaunchInv' /\ PageInv'
    BY <1>2, <2>1 DEF vars, ConfigInv, EnsuredInv, LaunchInv, Under, PageInv, Remains
  <2>4. QED
    BY <2>2, <2>3 DEF ConfigInv
<1>3. QED
  BY <1>1, <1>2, EditStep, SaveStep, AskStep, KillStep DEF Next

LEMMA ConfigInit == Init => ConfigInv
<1> SUFFICES ASSUME Init PROVE ConfigInv
  OBVIOUS
<1>1. pc["main"] = "idle" /\ op["main"] = "none" /\ Current = Absent /\ ~Saving
  BY MainIsThere DEF Init, Current, Saving
<1>2. PlaceInv /\ DataInv
  BY <1>1 DEF Init, PlaceInv, DataInv, Places
<1>3. EnsuredInv /\ LaunchInv /\ PageInv
  BY <1>1 DEF Init, EnsuredInv, LaunchInv, Under, PageInv, Remains, PoolInSight, NamesPool
<1>4. QED
  BY <1>2, <1>3 DEF ConfigInv

(* With the main thread alone on the file, what was saved stays in it, but  *)
(* for what migrateDefaults adds, until the next save, whatever was typed,  *)
(* shown, killed or failed: the defaults come back only for a text in which *)
(* hasPool finds no pool, as typed or as rewritten, and for one that a kill *)
(* or a failing write lost.                                                 *)
THEOREM SavedTextsStay == Spec => []SavedStays
<1>1. ConfigInv => SavedStays
  BY MainIsThere DEF ConfigInv, EnsuredInv, SavedStays, Remains, Current, Saving
<1>2. QED
  BY <1>1, ConfigInit, ConfigStep, PTL DEF Spec

(* ensure() leaves a text that names a pool, after a kill or a failed write *)
(* that left the file empty too, unless a write of its own fails.           *)
THEOREM EnsureIsEnough == Spec => []EnsureLeavesPool
<1>1. ConfigInv => EnsureLeavesPool
  BY DEF ConfigInv, PlaceInv, EnsuredInv, EnsureLeavesPool, Current
<1>2. QED
  BY <1>1, ConfigInit, ConfigStep, PTL DEF Spec

(* The miner works with what the page shows and with what was chosen there, *)
(* and leaves the CPU to XMRig.                                             *)
THEOREM MinerObeysPage == Spec => []MinesAsShown
<1>1. ASSUME ConfigInv PROVE MinesAsShown
  <2> SUFFICES ASSUME pc["main"] = "launch"
               PROVE  IF basic["main"].engine = "xmrig"
                      THEN Mined(companion).threads = 0 /\ Mined(companion).opencl
                      ELSE (~edited /\ ~Overruled(file)) =>
                             /\ Fades(saved) \/ Mined(file) = Promised(basic["main"])
                             /\ (chosen # Absent
                                   /\ (chosen.threads # 1 \/ chosen.pool # "default")) =>
                                  Mined(file) = Promised(chosen)
    BY DEF MinesAsShown, Overruled
  <2>1. /\ Current = file /\ ~Saving /\ NamesPool(file) /\ IsText(file)
        /\ Fades(saved) \/ basic["main"] = Basic(file)
    BY <1>1 DEF ConfigInv, LaunchInv, Under, DataInv, Current, Saving, NamesPool
  <2>2. CASE basic["main"].engine = "xmrig"
    <3>1. companion = Companion(file)
      BY <1>1, <2>2 DEF ConfigInv, LaunchInv
    <3>2. companion["cpu.enabled"] = FALSE /\ companion["opencl.enabled"] = TRUE
      BY <2>1, <3>1 DEF Companion, IsText, Keys
    <3>3. /\ Or(companion, "cpu.enabled", TRUE) = FALSE
          /\ Or(companion, "opencl.enabled", TRUE) = TRUE
      BY <3>2, AbsentIsNone, Zenon DEF Or
    <3>4. Mined(companion).threads = 0 /\ Mined(companion).opencl = TRUE
      BY <3>3 DEF Mined
    <3>5. QED
      BY <2>2, <3>4
  <2>3. CASE basic["main"].engine # "xmrig"
    <3> SUFFICES ASSUME ~edited, ~Overruled(file)
                 PROVE  /\ Fades(saved) \/ Mined(file) = Promised(basic["main"])
                        /\ (chosen # Absent
                              /\ (chosen.threads # 1 \/ chosen.pool # "default")) =>
                             Mined(file) = Promised(chosen)
      BY <2>1, <2>3
    <3>1. Written(file)
      BY <1>1, <2>1, TextIsThere DEF ConfigInv, PageInv
    <3>2. Fades(saved) \/ Mined(file) = Promised(basic["main"])
      <4>1. basic["main"] = Basic(file) => file["engine"] # "xmrig"
        BY <2>3 DEF Basic
      <4>2. QED
        BY <2>1, <3>1, <4>1, ReadersAgree
    <3>3. ASSUME chosen # Absent, chosen.threads # 1 \/ chosen.pool # "default"
          PROVE  Mined(file) = Promised(chosen)
      <4>1. chosen \in Basics /\ Keeps(file, chosen) /\ ~Fades(saved)
        BY <1>1, <2>1, <3>3 DEF ConfigInv, PageInv
      <4>2. file["engine"] # "xmrig"
        BY <2>1, <2>3, <4>1 DEF Basic
      <4>3. chosen.engine = "btcrig"
        BY <4>1, <4>2 DEF Keeps, Basics
      <4>4. QED
        BY <2>1, <3>1, <3>3, <4>1, <4>3, MinedAsChosen
    <3>4. QED
      BY <3>2, <3>3
  <2>4. QED
    BY <2>2, <2>3
<1>2. QED
  BY <1>1, ConfigInit, ConfigStep, PTL DEF Spec
=============================================================================
