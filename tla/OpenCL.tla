------------------------------- MODULE OpenCL -------------------------------
(* opencl_miner.c with the part of miner_start that uses it: which devices a *)
(* configuration names, how a device's program is chosen, built, tested and  *)
(* taken down, and what a scan hands over. The OpenCL runtime and the device *)
(* are modelled as the host uses them: any call may fail.                    *)
(*                                                                           *)
(* A nonce is an offset in the range of a scan; a winner is a nonce that     *)
(* meets the target.                                                         *)
EXTENDS Integers, FiniteSets, Sequences

CONSTANTS
  Configs,       (* the opencl sections read_config may have read            *)
  Machines,      (* what is installed: platforms, each a sequence of devices *)
  MaxDevices,    (* MINER_OPENCL_MAX_DEVICES                                 *)
  DefaultBatch, MinBatch, LegacyMaxBatch, DefaultResults, MaxNpi, LegacyLocal,
  TestNonces, TestResults,     (* the self-test's range and result slots     *)
  MaxWinners     (* bound of the model: winners in one mining scan           *)

ASSUME OpenCLAssumption ==
  /\ {MaxDevices, DefaultBatch, MinBatch, LegacyMaxBatch, DefaultResults, MaxNpi,
      LegacyLocal, TestResults} \subseteq Nat \ {0}
  /\ MinBatch <= LegacyMaxBatch /\ MinBatch <= DefaultBatch
  /\ TestNonces \in 2 .. MinBatch /\ TestNonces <= TestResults

(* What the driver says of a device; an entry of the devices list; the       *)
(* section. Kernels and backends are numbered constants of the code; a place *)
(* may be any integer, the other settings are unsigned.                      *)
Kernels  == {"auto", "compact", "unrolled", "fixed1", "fixed2", "fixed4", "register",
             "legacy"}
Backends == {"auto", "compat10", "modern"}
Devices  == [gpu : BOOLEAN, caicos : BOOLEAN, intel : BOOLEAN, atomics : BOOLEAN,
             version : 0 .. 2, group : Nat, builds : SUBSET Kernels]
Entries  == [platform : Int, device : Int, batch : Nat, local : Nat, npi : Nat,
             results : Nat, backend : Backends, kernel : Kernels]
Sections == [enabled : BOOLEAN, all : BOOLEAN, list : Seq(Entries),
             platform : Int, device : Int, batch : Nat, local : Nat, npi : Nat,
             results : Nat, backend : Backends, kernel : Kernels]

ASSUME DataAssumption == Machines \subseteq Seq(Seq(Devices)) /\ Configs \subseteq Sections

-----------------------------------------------------------------------------
(* Choosing the devices.                                                    *)

OrElse(value, fallback) == IF value = 0 THEN fallback ELSE value
Least(a, b) == IF a < b THEN a ELSE b
Greatest(a, b) == IF a > b THEN a ELSE b

ClampNpi(npi) == Least(OrElse(npi, 1), MaxNpi)

LegacyBatch(kernel, batch) ==
  IF kernel = "legacy" THEN Least(batch, LegacyMaxBatch) ELSE batch

(* apply_legacy_noatomic_limits.                                            *)
LegacyLimits(c) ==
  IF c.kernel # "legacy" THEN c
  ELSE [c EXCEPT !.batch = LegacyBatch("legacy", OrElse(@, LegacyMaxBatch)),
                 !.local = OrElse(@, LegacyLocal)]

(* A device known to lack atomics ("caicos") gets the kernel without.       *)
ForDevice(c, dev) ==
  LegacyLimits(IF c.kernel = "auto" /\ dev.caicos
               THEN [c EXCEPT !.kernel = "legacy"] ELSE c)

(* opencl_device_config_apply_defaults, for an entry of the devices list.   *)
WithDefaults(entry, c) ==
  LegacyLimits(
    [entry EXCEPT !.batch = OrElse(@, OrElse(c.batch, DefaultBatch)),
                  !.results = OrElse(@, OrElse(c.results, DefaultResults)),
                  !.local = OrElse(@, c.local),
                  !.npi = ClampNpi(OrElse(@, c.npi)),
                  !.backend = IF @ = "auto" THEN c.backend ELSE @,
                  !.kernel = IF @ = "auto" THEN c.kernel ELSE @])

(* A device named by its position, the rest taken from the section itself.  *)
At(c, p, d) ==
  [platform |-> p, device |-> d, batch |-> OrElse(c.batch, DefaultBatch),
   local |-> c.local, npi |-> ClampNpi(c.npi),
   results |-> OrElse(c.results, DefaultResults),
   backend |-> c.backend, kernel |-> c.kernel]

Installed(m, c) == c.platform \in DOMAIN m /\ c.device \in DOMAIN m[c.platform]
DeviceAt(m, c) == m[c.platform][c.device]

Positions(m) ==
  UNION {{[platform |-> p, device |-> d] : d \in DOMAIN m[p]} : p \in DOMAIN m}

(* The loops visit the platforms, and the devices of each, by their index.  *)
Earlier(a, b) == \/ a.platform < b.platform
                 \/ a.platform = b.platform /\ a.device < b.device

InOrder(positions) ==
  CHOOSE list \in [1 .. Cardinality(positions) -> positions] :
    \A i, j \in DOMAIN list : i < j => Earlier(list[i], list[j])

(* One pass: the devices of one kind among those whose queries answered.    *)
OnePass(m, c, gpu, answered) ==
  LET taken == InOrder({at \in answered : DeviceAt(m, at).gpu = gpu})
  IN  [i \in DOMAIN taken |->
         ForDevice(At(c, taken[i].platform, taken[i].device), DeviceAt(m, taken[i]))]

(* A device that is no GPU counts only when no GPU was found.               *)
TwoPasses(m, c, first, second) ==
  LET gpus == OnePass(m, c, TRUE, first)
  IN  IF gpus = <<>> THEN OnePass(m, c, FALSE, second) ELSE gpus

(* opencl_miner_resolve_devices: the lists it may return, <<>> for none or  *)
(* an error.                                                                *)
Resolutions(m, c) ==
  LET Capped(list) == SubSeq(list, 1, Least(Len(list), MaxDevices))
      named == At(c, c.platform, c.device)
      answers == SUBSET Positions(m)
  IN  IF ~c.enabled THEN {<<>>}
      ELSE IF c.list # <<>>
        THEN {Capped([i \in DOMAIN c.list |-> WithDefaults(c.list[i], c)])}
      ELSE IF c.all
        THEN {<<>>} \cup {Capped(TwoPasses(m, c, first, second)) :
                            first \in answers, second \in answers}
      ELSE {<<LegacyLimits(named)>>}
             \cup {<<ForDevice(named, dev)>> :
                     dev \in IF Installed(m, c) THEN {DeviceAt(m, c)} ELSE {}}

(* opencl_device_to_config: what miner_start passes on for one device.      *)
Given(c, entry) ==
  [entry EXCEPT !.batch = OrElse(@, c.batch), !.local = OrElse(@, c.local),
                !.npi = OrElse(@, c.npi), !.results = OrElse(@, c.results),
                !.backend = IF @ = "auto" THEN c.backend ELSE @,
                !.kernel = IF @ = "auto" THEN c.kernel ELSE @]

-----------------------------------------------------------------------------
(* Choosing a backend, a kernel and a work-group size.                      *)

(* version: 0 unusable, 1 before OpenCL 1.2, 2 from there on.               *)
Backend(asked, version) ==
  IF asked # "auto" THEN asked ELSE IF version = 2 THEN "modern" ELSE "compat10"

BackendFits(backend, version) == version >= IF backend = "modern" THEN 2 ELSE 1

FixedNpi(kernel) ==
  CASE kernel = "fixed1" -> 1 [] kernel = "fixed2" -> 2 [] kernel = "fixed4" -> 4
    [] OTHER -> 0

(* Mutant of ForcedNpi: only the kernels with a number in their name.       *)
ForcedNpiNamed(kernel) == FixedNpi(kernel)

ForcedNpi(kernel) == IF kernel = "register" THEN 2 ELSE FixedNpi(kernel)

ModernOnly(kernel) == kernel = "register" \/ FixedNpi(kernel) # 0

(* choose_local_work_size; 0 leaves the choice to the runtime.              *)
ChooseLocal(preferred, group) ==
  IF group = 0 THEN 0
  ELSE IF preferred <= group THEN preferred
  ELSE CHOOSE size \in {1, 2, 4, 8, 16, 32, 64, 128, 256, 512} :
         size <= group /\ (size = 512 \/ 2 * size > group)

Preferred(dev) == IF dev.caicos THEN 64 ELSE IF dev.intel THEN 128 ELSE 256

Local(asked, dev) ==
  IF asked = 0 THEN ChooseLocal(Preferred(dev), dev.group)
  ELSE IF dev.group > 0 THEN Least(asked, dev.group) ELSE asked

ChosenKernel(asked, dev) ==
  IF asked # "auto" THEN asked ELSE IF dev.caicos THEN "legacy" ELSE "unrolled"

(* opencl_miner_create, up to its first object: why it stops there, or the  *)
(* handle it has set up.                                                    *)
Refused(c, dev) ==
  LET kernel == ChosenKernel(c.kernel, dev)
      backend == Backend(c.backend, dev.version)
  IN  \/ dev.caicos /\ kernel # "legacy"
      \/ ~BackendFits(backend, dev.version)
      \/ ModernOnly(kernel) /\ backend # "modern"

Handle(c, dev) ==
  LET kernel == ChosenKernel(c.kernel, dev)
  IN  [dev |-> dev, asked |-> c.kernel, kernel |-> kernel,
       backend |-> Backend(c.backend, dev.version),
       batch |-> LegacyBatch(kernel, Greatest(OrElse(c.batch, DefaultBatch), MinBatch)),
       results |-> OrElse(c.results, DefaultResults),
       npi |-> OrElse(ForcedNpi(kernel), ClampNpi(c.npi)),
       local |-> Local(c.local, dev),
       held |-> {}]

-----------------------------------------------------------------------------
(* The program: the sources compiled, the kernels in them.                  *)

Modern(h, kernels) == h.backend = "modern" /\ h.kernel \in kernels

(* Mutant of TailSource: one of the fixed kernels is not looked for.        *)
TailSourceShort(h) ==
  IF h.kernel = "legacy" THEN "noatomic_tail_kernel"
  ELSE IF Modern(h, {"register"}) THEN "modern_register_kernel"
  ELSE IF Modern(h, {"fixed1", "fixed2"}) THEN "modern_fixed_kernels"
  ELSE "tail_kernels"

TailSource(h) ==
  IF h.kernel = "legacy" THEN "noatomic_tail_kernel"
  ELSE IF Modern(h, {"register"}) THEN "modern_register_kernel"
  ELSE IF Modern(h, {"fixed1", "fixed2", "fixed4"}) THEN "modern_fixed_kernels"
  ELSE "tail_kernels"

Sources(h) ==
  {TailSource(h)}
    \cup (IF h.kernel \in {"legacy", "compact"} THEN {"compact"} ELSE {"base", "rounds"})
    \cup (IF h.kernel = "legacy" THEN {"noatomic_tail_helpers"}
          ELSE IF Modern(h, {"unrolled", "fixed1", "fixed2", "fixed4", "register"})
            THEN {"modern_scalar_macro", "modern_tail_helpers"}
          ELSE {"tail_helpers"})
    \cup (IF Modern(h, {"register"})
          THEN {"modern_register_prefix", "modern_register_scan"} ELSE {})

(* The kernels a source defines, and the sources it calls into.             *)
Defined(source) ==
  CASE source = "tail_kernels" -> {"scan", "scan_npi1", "scan_npi2", "scan_npi4"}
    [] source = "modern_fixed_kernels" -> {"fixed_npi1", "fixed_npi2", "fixed_npi4"}
    [] source = "modern_register_kernel" -> {"register_heavy"}
    [] source = "noatomic_tail_kernel" -> {"legacy_scan"}
    [] OTHER -> {}

Needs(source) ==
  CASE source \in {"tail_kernels", "modern_fixed_kernels"} ->
         {{"tail_helpers", "modern_tail_helpers"}}
    [] source = "modern_register_kernel" -> {{"modern_register_scan"}}
    [] source = "modern_register_scan" -> {{"modern_register_prefix"}, {"modern_tail_helpers"}}
    [] source = "noatomic_tail_kernel" -> {{"noatomic_tail_helpers"}}
    [] source = "modern_tail_helpers" -> {{"modern_scalar_macro"}}
    [] source \in {"tail_helpers", "noatomic_tail_helpers"} -> {{"compact", "base"}}
    [] source = "modern_scalar_macro" -> {{"base"}}
    [] source = "base" -> {{"rounds"}}
    [] OTHER -> {}

KernelForNpi(npi) ==
  CASE npi = 1 -> "scan_npi1" [] npi = 2 -> "scan_npi2" [] npi = 4 -> "scan_npi4"
    [] OTHER -> "scan"

KernelName(h) ==
  CASE h.kernel = "fixed1" -> "fixed_npi1" [] h.kernel = "fixed2" -> "fixed_npi2"
    [] h.kernel = "fixed4" -> "fixed_npi4" [] h.kernel = "register" -> "register_heavy"
    [] h.kernel = "legacy" -> "legacy_scan"
    [] OTHER -> KernelForNpi(h.npi)

(* The sources make a whole program with the kernel that will be asked for. *)
Whole(h) ==
  /\ KernelName(h) \in UNION {Defined(source) : source \in Sources(h)}
  /\ \A source \in Sources(h) : \A any \in Needs(source) : any \cap Sources(h) # {}

-----------------------------------------------------------------------------
(* A scan on the device.                                                    *)

(* Nonces that one work item of a kernel goes through.                      *)
NpiOf(name, npi) ==
  CASE name \in {"scan_npi1", "fixed_npi1"} -> 1
    [] name \in {"scan_npi2", "fixed_npi2", "register_heavy"} -> 2
    [] name \in {"scan_npi4", "fixed_npi4"} -> 4
    [] OTHER -> npi

Covered(item, npi, count) ==
  LET base == item * npi
  IN  IF base >= count THEN {} ELSE base .. Least(base + npi, count) - 1

(* The global size: an item per npi nonces, in whole work groups.           *)
WorkItems(h, count) ==
  LET items == (count + h.npi - 1) \div h.npi
  IN  IF h.local = 0 THEN items
      ELSE ((items + h.local - 1) \div h.local) * h.local

(* Each winner an item comes across, with the item.                         *)
Hits(h, count, winners) ==
  LET npi == NpiOf(KernelName(h), h.npi)
  IN  UNION {{<<item, nonce>> : nonce \in winners \cap Covered(item, npi, count)} :
               item \in 0 .. WorkItems(h, count) - 1}

(* The hits left in a counted buffer: without atomics they all land in its  *)
(* first slot.                                                              *)
Stored(h, hits) ==
  LET room == IF h.dev.atomics THEN h.results ELSE 1
  IN  {kept \in SUBSET hits : Cardinality(kept) = Least(Cardinality(hits), room)}

(* A slot per nonce, read in order until max_results were handed over.      *)
Flagged(h, hits) ==
  {hit \in hits : Cardinality({other \in hits : other[2] < hit[2]}) < h.results}

HandedOver(h, count, winners) ==
  LET hits == Hits(h, count, winners)
  IN  IF h.kernel = "legacy" THEN {Flagged(h, hits)} ELSE Stored(h, hits)

-----------------------------------------------------------------------------
VARIABLES
  machine, config,
  pc,        (* where miner_start stands, or the workers                     *)
  todo,      (* the resolved devices still to start                          *)
  tested,    (* the kernel that passed the self-test of this device          *)
  h,         (* the handle being made: for the test first, then to mine      *)
  live,      (* the objects the runtime holds, by kind                       *)
  started,   (* opencl_devices: the handles that mine                        *)
  out        (* the last scan of a worker                                    *)

vars == <<machine, config, pc, todo, tested, h, live, started, out>>

Kinds == {"context", "queue", "program", "kernel", "params", "count", "matches",
          "results", "flags"}

NoHandle == [held |-> {}]
NoScan   == [winners |-> {}]

Init ==
  /\ machine \in Machines /\ config \in Configs
  /\ pc = "off" /\ todo = <<>> /\ tested = "none" /\ h = NoHandle
  /\ live = [kind \in Kinds |-> 0]
  /\ started = <<>> /\ out = NoScan

Less(held) == [kind \in Kinds |-> live[kind] - IF kind \in held THEN 1 ELSE 0]

(* miner_start, with the settings of that moment.                           *)
Resolve ==
  /\ pc = "off"
  /\ config' \in Configs
  /\ todo' \in Resolutions(machine, config')
  /\ pc' = "next"
  /\ UNCHANGED <<machine, tested, h, live, started, out>>

(* The next device, tested before it is used.                               *)
NextDevice ==
  /\ pc = "next"
  /\ tested' = "none"
  /\ pc' = IF todo = <<>> THEN "launch" ELSE "create"
  /\ UNCHANGED <<machine, config, todo, h, live, started, out>>

Testing == tested = "none"

(* The settings asked for; the self-test sets two of them itself.           *)
Asked ==
  LET c == Given(config, Head(todo))
  IN  IF Testing THEN [c EXCEPT !.batch = MinBatch, !.results = TestResults] ELSE c

(* opencl_miner_destroy, and the device is passed over.                     *)
GiveUp ==
  /\ live' = Less(h.held)
  /\ h' = NoHandle
  /\ todo' = Tail(todo)
  /\ pc' = "next"
  /\ UNCHANGED <<machine, config, tested, started, out>>

Create ==
  /\ pc = "create"
  /\ Installed(machine, Head(todo))
  /\ ~Refused(Asked, DeviceAt(machine, Head(todo)))
  /\ h' = Handle(Asked, DeviceAt(machine, Head(todo)))
  /\ pc' = "context"
  /\ UNCHANGED <<machine, config, todo, tested, live, started, out>>

(* The device does not suit, or a query failed.                             *)
CreateRefused == pc = "create" /\ GiveUp

(* The calls that make an object, in their order.                           *)
After(kind) ==
  CASE kind = "context" -> "queue"
    [] kind = "queue"   -> "program"
    [] kind = "program" -> "build"
    [] kind = "kernel"  -> IF h.kernel = "legacy" THEN "params" ELSE "count"
    [] kind = "params"  -> "count"
    [] kind = "count"   -> "matches"
    [] kind = "matches" -> "results"
    [] kind = "results" -> IF h.kernel = "legacy" THEN "flags" ELSE "ready"
    [] kind = "flags"   -> "ready"

Make ==
  /\ pc \in Kinds
  /\ live' = [live EXCEPT ![pc] = @ + 1]
  /\ h' = [h EXCEPT !.held = @ \cup {pc}]
  /\ pc' = After(pc)
  /\ UNCHANGED <<machine, config, todo, tested, started, out>>

MakeFails == pc \in Kinds \ {"program", "kernel"} /\ GiveUp

(* The device's compiler takes the kernel.                                  *)
Build ==
  /\ pc = "build" /\ h.kernel \in h.dev.builds
  /\ pc' = "kernel"
  /\ UNCHANGED <<machine, config, todo, tested, h, live, started, out>>

(* Mutant of Released: the program is left behind.                          *)
ReleasedKernel(held) == Less(held \cap {"kernel"})

(* release_program_objects.                                                 *)
Released(held) == Less(held \cap {"program", "kernel"})

BuildFailed == pc \in {"program", "build", "kernel"}

(* build_program failed: where the kernel was left to choose, the next      *)
(* simpler one is tried.                                                    *)
Fallback ==
  /\ BuildFailed
  /\ h.asked = "auto" /\ h.kernel # "legacy"
  /\ LET kernel == IF h.kernel = "unrolled" THEN "compact" ELSE "legacy"
     IN  h' = [h EXCEPT !.kernel = kernel, !.batch = LegacyBatch(kernel, @),
                        !.held = @ \ {"program", "kernel"}]
  /\ live' = Released(h.held)
  /\ pc' = "program"
  /\ UNCHANGED <<machine, config, todo, tested, started, out>>

BuildFails ==
  /\ BuildFailed
  /\ h.asked # "auto" \/ h.kernel = "legacy"
  /\ GiveUp

(* Each nonce of the range was handed over, and once.                       *)
Passes(handed) ==
  /\ {hit[2] : hit \in handed} = 0 .. TestNonces - 1
  /\ Cardinality(handed) = TestNonces

(* opencl_miner_self_test with its handle: a scan in which every nonce wins. *)
SelfTest ==
  /\ pc = "ready" /\ Testing
  /\ \E handed \in HandedOver(h, TestNonces, 0 .. TestNonces - 1) :
       IF Passes(handed)
       THEN tested' = h.kernel /\ pc' = "create" /\ UNCHANGED todo
       ELSE pc' = "next" /\ todo' = Tail(todo) /\ UNCHANGED tested
  /\ live' = Less(h.held)
  /\ h' = NoHandle
  /\ UNCHANGED <<machine, config, started, out>>

SelfTestScanFails == pc = "ready" /\ Testing /\ GiveUp

(* The second handle is the one that mines.                                 *)
Keep ==
  /\ pc = "ready" /\ ~Testing
  /\ started' = Append(started, [handle |-> h, tested |-> tested])
  /\ h' = NoHandle
  /\ todo' = Tail(todo)
  /\ pc' = "next"
  /\ UNCHANGED <<machine, config, tested, live, out>>

Held(handles, kind) == Cardinality({i \in DOMAIN handles : kind \in handles[i].handle.held})

(* A device goes whose worker could not be started.                         *)
Launch ==
  /\ pc = "launch"
  /\ \E running \in SUBSET DOMAIN started :
       LET lost == [i \in DOMAIN started \ running |-> started[i]]
       IN  /\ live' = [kind \in Kinds |-> live[kind] - Held(lost, kind)]
           /\ started' = [i \in running |-> started[i]]
  /\ pc' = "mine"
  /\ UNCHANGED <<machine, config, todo, tested, h, out>>

(* opencl_miner_scan for a worker; a call that fails hands nothing over.    *)
Scan(i) ==
  /\ pc = "mine"
  /\ \E count \in 1 .. started[i].handle.batch :
       \E winners \in {w \in SUBSET (0 .. count - 1) : Cardinality(w) <= MaxWinners} :
         \E handed \in HandedOver(started[i].handle, count, winners) :
           out' = [winners |-> winners, handed |-> handed, device |-> i]
  /\ UNCHANGED <<machine, config, pc, todo, tested, h, live, started>>

ScanFails == pc = "mine" /\ out' = NoScan
             /\ UNCHANGED <<machine, config, pc, todo, tested, h, live, started>>

(* miner_stop.                                                              *)
Stop ==
  /\ pc = "mine"
  /\ live' = [kind \in Kinds |-> live[kind] - Held(started, kind)]
  /\ started' = <<>> /\ out' = NoScan
  /\ pc' = "off"
  /\ UNCHANGED <<machine, config, todo, tested, h>>

Next ==
  \/ Resolve \/ NextDevice \/ Create \/ CreateRefused
  \/ Make \/ MakeFails \/ Build \/ Fallback \/ BuildFails
  \/ SelfTest \/ SelfTestScanFails \/ Keep \/ Launch
  \/ \E i \in DOMAIN started : Scan(i)
  \/ ScanFails \/ Stop

Spec == Init /\ [][Next]_vars

-----------------------------------------------------------------------------
(* Properties.                                                              *)

(* A scan that succeeds hands over every winner of its range, each once, up *)
(* to max_results of them, and nothing else: the host's work items, rounded *)
(* up to work groups, and the nonces each item of the chosen kernel takes   *)
(* add up to the range, for every kernel, batch and work-group size. On a   *)
(* device without atomics this holds for the kernel the self-test ran; a    *)
(* second build that falls back to another one is not tested again.         *)
ScanIsExact ==
  out # NoScan =>
    LET by == started[out.device]
        nonces == {hit[2] : hit \in out.handed}
    IN  (by.handle.dev.atomics \/ by.handle.kernel = by.tested) =>
          /\ nonces \subseteq out.winners
          /\ Cardinality(nonces) = Cardinality(out.handed)
          /\ Cardinality(nonces) = Least(Cardinality(out.winners), by.handle.results)

(* Whatever call fails, at every step of creation, fallback, self-test,     *)
(* start and stop: each object of the runtime that is still alive is held   *)
(* by the handle being made or by one that mines.                           *)
NothingLeaks ==
  \A kind \in Kinds :
    live[kind] = Held(started, kind) + IF kind \in h.held THEN 1 ELSE 0

(* The program compiled for a handle holds the kernel that is asked for and *)
(* all the code it calls, whatever the kernel, backend and nonces per item, *)
(* and after a fallback too.                                                *)
ProgramIsWhole == pc \in {"build", "kernel"} => Whole(h)
=============================================================================
