------------------------------ MODULE MCConfig ------------------------------
(* Config for TLC: two cores, and texts a user may have typed.             *)
EXTENDS Config, TLC

Text(keys) == keys @@ [key \in Keys |-> Absent]

(* The old flat form; one that the page cannot overrule; the miner's own   *)
(* keys; a CPU switched on with no threads; XMRig with a companion; a pool  *)
(* behind much else.                                                       *)
TypedTexts ==
  {Text("pool" :> "own" @@ "cpu_threads" :> 1 @@ "diff" :> 2),
   Text("pools.url" :> "own" @@ "donation_percent" :> 5 @@ "tls_compat" :> FALSE),
   Text("pools.url" :> "own" @@ "pools.difficulty" :> 2 @@ "donation.level" :> 3
          @@ "donation.percent" :> 2),
   Text("cpu.enabled" :> TRUE @@ "cpu.threads" :> 0 @@ "pools.url" :> "own"),
   Text("engine" :> "xmrig" @@ "xmrig.companion" :> TRUE @@ "pools.url" :> "own"
          @@ "donation.percent" :> 0),
   Text("pools.url" :> "own" @@ "ahead" :> "some"),
   Text("pools.url" :> "own" @@ "ahead" :> "much"),
   Text("engine" :> "btcrig")}

TypedText == {Text("pools.url" :> "own")}

NoWatcher  == {}
OneWatcher == {"notify"}
=============================================================================
