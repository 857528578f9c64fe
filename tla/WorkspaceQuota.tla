--------------------------- MODULE WorkspaceQuota ---------------------------
(***************************************************************************)
(* Billing events and dataset uploads of one workspace together: the       *)
(* entitlement that billing events project is the dataset limit uploads    *)
(* are admitted under.                                                     *)
(***************************************************************************)
EXTENDS BillingEvents, DatasetUploads

CONSTANT MaxDatasets   \* max_datasets of each plan; 0 is unlimited

ASSUME QuotaAssumption == MaxDatasets \in [Plans -> Nat]

vars == <<billingVars, uploadVars>>

Init == BillingInit /\ UploadInit

Billing == BillingNext /\ UNCHANGED uploadVars

Admit(x) == \/ \E d \in Datasets, g \in Digests :
                  UploadDataset(x, d, g, MaxDatasets[EntitledPlan])
            \/ \E d \in Datasets, g \in Digests, n \in 1..MaxVersions :
                  UploadVersion(x, d, g, n)

Uploads == /\ \E x \in Clients : Admit(x) \/ UploadStep(x)
           /\ UNCHANGED billingVars

Next == Billing \/ Uploads

Spec == Init /\ [][Next]_vars

-----------------------------------------------------------------------------
(* Properties *)

\* The plans the workspace may have been entitled to so far.
PlansSeen == {"free"} \cup {m.plan : m \in {events[i] : i \in EventIds} \ {None}}

\* The limit is checked before the dataset is created, so uploads that run at
\* the same time may exceed it, but by no more than one each besides the first,
\* and whatever billing events do in between.
QuotaOvershoot ==
    \E p \in PlansSeen :
       \/ MaxDatasets[p] = 0
       \/ Cardinality(datasets) < MaxDatasets[p] + Cardinality(Clients)
=============================================================================
