---------------------------- MODULE MCCosmosStore ----------------------------
(***************************************************************************)
(* An instance of CosmosStore for TLC: two runtimes with a loop each, and  *)
(* a callback that arrives at the first one.                               *)
(***************************************************************************)
EXTENDS CosmosStore, TLC

CallbackAtFirst == ("loop1" :> "r1") @@ ("loop2" :> "r2") @@ ("callback" :> "r1")
=============================================================================
