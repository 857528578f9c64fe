------------------------- MODULE MCResearchLineage -------------------------
(***************************************************************************)
(* The lineage of two runs.  Plans and digests are interchangeable.        *)
(***************************************************************************)
EXTENDS ResearchLineage, TLC

MCSymmetry == Permutations(Plans) \cup Permutations(Digests)
              \cup Permutations(Clients) \cup Permutations(Runs)
=============================================================================
