------------------------------ MODULE MCOpenCL ------------------------------
(* OpenCL for TLC: machines with and without a GPU, a device for each reason *)
(* the code has to treat one differently, and every kernel and backend.      *)
EXTENDS OpenCL, TLC

All == {"compact", "unrolled", "fixed1", "fixed2", "fixed4", "register", "legacy"}

Gpu    == [gpu |-> TRUE, caicos |-> FALSE, intel |-> FALSE, atomics |-> TRUE,
           version |-> 2, group |-> 3, builds |-> All]
Old    == [Gpu EXCEPT !.version = 1, !.builds = {"compact", "legacy"}, !.group = 0]
Caicos == [Gpu EXCEPT !.caicos = TRUE, !.atomics = FALSE, !.group = 2]
Racy   == [Gpu EXCEPT !.atomics = FALSE, !.intel = TRUE, !.group = 300]
Cpu    == [Gpu EXCEPT !.gpu = FALSE, !.group = 1]
Broken == [Gpu EXCEPT !.version = 0]

SomeMachines == {<<>>, <<<<Gpu>>>>, <<<<Old>>>>, <<<<Caicos>>>>, <<<<Racy>>>>,
                 <<<<Cpu>>, <<Broken>>>>}

Section == [enabled |-> TRUE, all |-> FALSE, list |-> <<>>, platform |-> 1, device |-> 1,
            batch |-> 0, local |-> 0, npi |-> 0, results |-> 0,
            backend |-> "auto", kernel |-> "auto"]

Entry == [platform |-> 1, device |-> 1, batch |-> 5, local |-> 0, npi |-> 3, results |-> 1,
          backend |-> "auto", kernel |-> "auto"]

SomeConfigs ==
  {[Section EXCEPT !.enabled = FALSE]}
    \cup {[Section EXCEPT !.kernel = kernel, !.backend = backend, !.npi = npi, !.local = local] :
            kernel \in All \cup {"auto"}, backend \in {"auto", "compat10", "modern"},
            npi \in {1, 2, 3, 4}, local \in {0, 2}}
    \cup {[Section EXCEPT !.all = TRUE, !.npi = 5, !.batch = 1],
          [Section EXCEPT !.list = <<Entry, [Entry EXCEPT !.kernel = "legacy"]>>],
          [Section EXCEPT !.platform = 2]}
=============================================================================
