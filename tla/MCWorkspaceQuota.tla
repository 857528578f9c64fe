-------------------------- MODULE MCWorkspaceQuota --------------------------
(***************************************************************************)
(* A workspace that upgrades, cancels, and is moved to another plan by an  *)
(* event that carries no time.                                             *)
(***************************************************************************)
EXTENDS WorkspaceQuota, TLC

Event(i, plan, status, at) == [id |-> i, plan |-> plan, status |-> status, at |-> at]

MCEventIds == {"upgrade", "cancel", "manual"}

MCMessages == {Event("upgrade", "pro", "active", 1),
               Event("cancel", "pro", "cancelled", 2),
               Event("manual", "team", "trialing", None)}

MCMaxDatasets == [p \in Plans |-> CASE p = "free" -> 1
                                    [] p = "enterprise" -> 0
                                    [] OTHER -> 2]

MCSymmetry == Permutations(Clients) \cup Permutations(Datasets)
              \cup Permutations(Digests)
=============================================================================
