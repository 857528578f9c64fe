------------------------ MODULE MCResearchRepository ------------------------
EXTENDS ResearchRepository, TLC

CONSTANTS a1, a2

MCParents == a1 :> {} @@ a2 :> {a1}
=============================================================================
