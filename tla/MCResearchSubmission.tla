------------------------ MODULE MCResearchSubmission ------------------------
(***************************************************************************)
(* Request handling on small instances: three requests share a key, one of *)
(* them with another body, and a fourth has a key of its own.              *)
(***************************************************************************)
EXTENDS ResearchSubmission, TLC

CONSTANTS r1, r2, r3, r4

MCKeyOf  == (r1 :> "k1") @@ (r2 :> "k1") @@ (r3 :> "k1") @@ (r4 :> "k2")
MCBodyOf == (r1 :> "b1") @@ (r2 :> "b1") @@ (r3 :> "b2") @@ (r4 :> "b1")
=============================================================================
