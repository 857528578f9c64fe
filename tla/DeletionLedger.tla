--------------------------- MODULE DeletionLedger ---------------------------
(***************************************************************************)
(* What the record of destructive operations promises an auditor, whoever  *)
(* calls, retries, fails or dies: intent is written before anything is     *)
(* destroyed, an operation is closed only after its resource is gone and   *)
(* (for the governed operations) the event that says so is in the audit    *)
(* log, and nothing that was destroyed, logged or closed is ever taken     *)
(* back.                                                                   *)
(***************************************************************************)
CONSTANTS Ops, Resources, ResourceOf,
          Governed      \* operations that need an approval and a completion event

VARIABLES state,        \* the row of retention_deletion_operation
          gone,         \* resources that were destroyed
          log           \* audit events, each with its operation

vars == <<state, gone, log>>

Init == /\ state = [o \in Ops |-> "absent"]
        /\ gone = {}
        /\ log = {}

Move(o, from, to) == /\ state[o] \in from
                     /\ state' = [state EXCEPT ![o] = to]
                     /\ UNCHANGED <<gone, log>>

Has(o, event) == o \in Governed => <<o, event>> \in log

Reserve(o) == Move(o, {"absent"}, "APPROVED")

Attempt(o) == /\ Has(o, "deletion_approved")
              /\ Move(o, {"APPROVED"}, "DELETE_ATTEMPTED")

\* Only under a record that already says so.
Destroy(o) == /\ state[o] \in {"DELETE_ATTEMPTED", "RECONCILIATION_REQUIRED", "COMPLETED"}
              /\ Has(o, "deletion_approved")
              /\ gone' = gone \cup {ResourceOf[o]}
              /\ UNCHANGED <<state, log>>

Append(o, event) == /\ log' = log \cup {<<o, event>>}
                    /\ UNCHANGED <<state, gone>>

LogApproval(o) == o \in Governed /\ Append(o, "deletion_approved")

LogCompletion(o) == /\ state[o] # "absent"
                    /\ ResourceOf[o] \in gone
                    /\ Append(o, "deletion_completed")

Flag(o) == Move(o, {"APPROVED", "DELETE_ATTEMPTED"}, "RECONCILIATION_REQUIRED")

Close(o) == /\ ResourceOf[o] \in gone
            /\ Has(o, "deletion_completed")
            /\ Move(o, {"DELETE_ATTEMPTED", "RECONCILIATION_REQUIRED"}, "COMPLETED")

Next == \E o \in Ops : \/ Reserve(o) \/ Attempt(o) \/ Destroy(o)
                       \/ LogApproval(o) \/ LogCompletion(o)
                       \/ Flag(o) \/ Close(o)

Spec == Init /\ [][Next]_vars
=============================================================================
