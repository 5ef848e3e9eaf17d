---------------------------- MODULE OpenCLLoader ----------------------------
(* opencl_loader.c: the OpenCL runtime is opened the first time anyone needs *)
(* it, name by name, and its symbols are taken one by one into g_opencl.api. *)
(* The threads that ask (the page's openclStatus on the main thread, miner_  *)
(* start on the core's, a benchmark) share g_opencl without a lock; their    *)
(* reads and writes interleave as they come.                                 *)
EXTENDS Integers, Sequences

CONSTANTS
  Threads,
  Libraries,   (* for each name tried, the symbols found under it, {} where  *)
               (* there is no library                                        *)
  Symbols,     (* their number; load_required_symbols takes them in order    *)
  None

VARIABLES
  library,     (* g_opencl.library: the index of a name, or None             *)
  api,         (* g_opencl.api: the library each symbol was taken from       *)
  loaded,      (* g_opencl.loaded                                            *)
  refs,        (* dlopen minus dlclose of each library                       *)
  pc, name, symbol    (* of each thread                                      *)

vars == <<library, api, loaded, refs, pc, name, symbol>>

Cleared == [s \in 1 .. Symbols |-> None]

Init ==
  /\ library = None /\ api = Cleared /\ loaded = FALSE
  /\ refs = [n \in DOMAIN Libraries |-> 0]
  /\ pc = [t \in Threads |-> "idle"]
  /\ name = [t \in Threads |-> 1] /\ symbol = [t \in Threads |-> 1]

Goto(t, where) == pc' = [pc EXCEPT ![t] = where]

(* btcrig_opencl_load: done before, or the names are tried from the first.  *)
Load(t) ==
  /\ pc[t] = "idle"
  /\ Goto(t, IF loaded THEN "using" ELSE "loop")
  /\ name' = [name EXCEPT ![t] = 1]
  /\ UNCHANGED <<library, api, loaded, refs, symbol>>

(* The loop of open_library: on while there is no library and a name left.  *)
LoopEnds(t) ==
  /\ pc[t] = "loop"
  /\ library # None \/ name[t] > Len(Libraries)
  /\ Goto(t, "opened")
  /\ UNCHANGED <<library, api, loaded, refs, name, symbol>>

LoopGoesOn(t) ==
  /\ pc[t] = "loop"
  /\ library = None /\ name[t] <= Len(Libraries)
  /\ Goto(t, "open")
  /\ UNCHANGED <<library, api, loaded, refs, name, symbol>>

(* try_open_library.                                                        *)
Open(t) ==
  /\ pc[t] = "open"
  /\ IF Libraries[name[t]] = {}
     THEN /\ library' = None
          /\ name' = [name EXCEPT ![t] = @ + 1]
          /\ Goto(t, "loop") /\ UNCHANGED refs
     ELSE /\ library' = name[t]
          /\ refs' = [refs EXCEPT ![name[t]] = @ + 1]
          /\ Goto(t, "clear") /\ UNCHANGED name
  /\ UNCHANGED <<api, loaded, symbol>>

Clear(t) ==
  /\ pc[t] = "clear"
  /\ api' = Cleared
  /\ symbol' = [symbol EXCEPT ![t] = 1]
  /\ Goto(t, "symbol")
  /\ UNCHANGED <<library, loaded, refs, name>>

(* LOAD_OPENCL_SYMBOL: the next one, from whatever library is open now.     *)
Has(lib, s) == lib # None /\ s \in Libraries[lib]

Take(t) ==
  /\ pc[t] = "symbol" /\ symbol[t] <= Symbols /\ Has(library, symbol[t])
  /\ api' = [api EXCEPT ![symbol[t]] = library]
  /\ symbol' = [symbol EXCEPT ![t] = @ + 1]
  /\ UNCHANGED <<library, loaded, refs, pc, name>>

Missing(t) ==
  /\ pc[t] = "symbol" /\ symbol[t] <= Symbols /\ ~Has(library, symbol[t])
  /\ api' = Cleared
  /\ Goto(t, "close")
  /\ UNCHANGED <<library, loaded, refs, name, symbol>>

(* close_library, and on to the next name.                                  *)
Close(t) ==
  /\ pc[t] = "close"
  /\ refs' = IF library = None THEN refs ELSE [refs EXCEPT ![library] = @ - 1]
  /\ library' = None
  /\ name' = [name EXCEPT ![t] = @ + 1]
  /\ Goto(t, "loop")
  /\ UNCHANGED <<api, loaded, symbol>>

(* Every symbol was there: the loop ends at the library that has them.      *)
AllTaken(t) ==
  /\ pc[t] = "symbol" /\ symbol[t] > Symbols
  /\ name' = [name EXCEPT ![t] = @ + 1]
  /\ Goto(t, "loop")
  /\ UNCHANGED <<library, api, loaded, refs, symbol>>

(* open_library's last look, and what the caller is told.                   *)
Opened(t) ==
  /\ pc[t] = "opened"
  /\ loaded' = (loaded \/ library # None)
  /\ Goto(t, IF library = None THEN "idle" ELSE "using")
  /\ UNCHANGED <<library, api, refs, name, symbol>>

(* The caller is through with its calls.                                    *)
Done(t) ==
  /\ pc[t] = "using"
  /\ Goto(t, "idle")
  /\ UNCHANGED <<library, api, loaded, refs, name, symbol>>

Next == \E t \in Threads :
  \/ Load(t) \/ LoopEnds(t) \/ LoopGoesOn(t) \/ Open(t) \/ Clear(t) \/ Take(t)
  \/ Missing(t) \/ Close(t) \/ AllTaken(t) \/ Opened(t) \/ Done(t)

Spec == Init /\ [][Next]_vars

-----------------------------------------------------------------------------
(* A caller that was told the runtime is there finds each required symbol   *)
(* in the table, taken from a library that is still open: it calls through  *)
(* the table without a check (the cl* macros of opencl_miner.c).            *)
LoadedIsComplete ==
  \A t \in Threads : pc[t] = "using" =>
    \A s \in 1 .. Symbols : api[s] # None /\ refs[api[s]] > 0
=============================================================================
