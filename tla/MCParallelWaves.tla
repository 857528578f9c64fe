-------------------------- MODULE MCParallelWaves --------------------------
(***************************************************************************)
(* Two waves with more branches than the pool has threads.                 *)
(***************************************************************************)
EXTENDS ParallelWaves, TLC

MCPlan == <<<<"a", "b", "c", "d">>, <<"e", "f", "g">>>>
=============================================================================
