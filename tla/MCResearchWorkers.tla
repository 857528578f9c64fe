-------------------------- MODULE MCResearchWorkers --------------------------
(***************************************************************************)
(* The worker pipeline on small instances.                                 *)
(***************************************************************************)
EXTENDS ResearchWorkers, TLC

\* Two successful results with different manifests, and a failed one.
MCResults == {[status |-> "SUCCEEDED", content |-> "a"],
              [status |-> "SUCCEEDED", content |-> "b"],
              [status |-> "FAILED", content |-> "a"]}
=============================================================================
