------------------------ MODULE DeletionOperations ------------------------
(***************************************************************************)
(* Destructive operations and the durable record that guards them.  Two    *)
(* kinds of call share the store of deletion operations: execute_deletion, *)
(* which deletes a retained resource between two audit events, and         *)
(* soft_delete_workspace, which repeats its own finished operation.  The   *)
(* delete, the audit and the record are separate systems: a call to any of *)
(* them can fail before or after it took effect, the process can die       *)
(* between two of them, and several callers, retries among them, can work  *)
(* on one operation at a time.                                             *)
(***************************************************************************)
EXTENDS Naturals

CONSTANTS Executors,    \* calls of execute_deletion
          Requests,     \* calls of soft_delete_workspace
          Ops,          \* operation ids
          Resources,
          OpOf,         \* the operation a call works on
          ResourceOf,   \* the resource an operation is bound to
          MaxFaults     \* failed calls and deaths in one behaviour

Calls == Executors \cup Requests

ASSUME CallsAssumption ==
    /\ OpOf \in [Calls -> Ops]
    /\ ResourceOf \in [Ops -> Resources]
    /\ \A e \in Executors, q \in Requests : e # q /\ OpOf[e] # OpOf[q]
    /\ MaxFaults \in Nat

VARIABLES state,     \* state[o]: the row of retention_deletion_operation
          gone,      \* the resources that were deleted
          log,       \* the audit events, each with its operation
          pc,        \* pc[c]: the step call c makes next
          answer,    \* answer[c]: how c returned, "none" while it has not
          verified,  \* operations whose resource the operator found absent
          faults

vars == <<state, gone, log, pc, answer, verified, faults>>

States  == {"absent", "APPROVED", "DELETE_ATTEMPTED", "COMPLETED",
            "RECONCILIATION_REQUIRED"}
Events  == {"deletion_approved", "deletion_completed"}
Steps   == {"reserve", "gates", "approve", "attempt", "delete", "repeat", "flag",
            "audit", "flag_audit", "complete", "done"}
Answers == {"none", "retained", "raised", "reconciliation_required", "deletion_completed"}

TypeOK == /\ state \in [Ops -> States]
          /\ gone \in SUBSET Resources
          /\ log \in SUBSET (Ops \X Events)
          /\ pc \in [Calls -> Steps]
          /\ answer \in [Calls -> Answers]
          /\ verified \in SUBSET Ops
          /\ faults \in 0 .. MaxFaults

Init == /\ state = [o \in Ops |-> "absent"]
        /\ gone = {}
        /\ log = {}
        /\ pc = [c \in Calls |-> "reserve"]
        /\ answer = [c \in Calls |-> "none"]
        /\ verified = {}
        /\ faults = MaxFaults

-----------------------------------------------------------------------------
\* "ok": the call ran and was answered; "lost": it never ran; "cut": it ran and
\* the caller sees an exception.
Ends == {"ok", "lost", "cut"}
Ran(net) == net # "lost"
Charge(net) == IF net = "ok" THEN faults' = faults
                             ELSE faults > 0 /\ faults' = faults - 1

Goto(c, step) == /\ pc' = [pc EXCEPT ![c] = step]
                 /\ UNCHANGED answer

Return(c, how) == /\ pc' = [pc EXCEPT ![c] = "done"]
                  /\ answer' = [answer EXCEPT ![c] = how]

\* Mutant: a flagged operation can be attempted again.
AllowedReattempt(from, to) ==
    from = to \/ to \in CASE from = "APPROVED" -> {"DELETE_ATTEMPTED", "RECONCILIATION_REQUIRED"}
                          [] from = "DELETE_ATTEMPTED" -> {"COMPLETED", "RECONCILIATION_REQUIRED"}
                          [] from = "RECONCILIATION_REQUIRED" -> {"COMPLETED", "DELETE_ATTEMPTED"}
                          [] OTHER -> {}

\* _ALLOWED_TRANSITIONS; a transition to the current state is accepted.
Allowed(from, to) ==
    from = to \/ to \in CASE from = "APPROVED" -> {"DELETE_ATTEMPTED", "RECONCILIATION_REQUIRED"}
                          [] from = "DELETE_ATTEMPTED" -> {"COMPLETED", "RECONCILIATION_REQUIRED"}
                          [] from = "RECONCILIATION_REQUIRED" -> {"COMPLETED"}
                          [] OTHER -> {}

\* One transition of the store: what it leaves behind, and whether its caller
\* goes on without an exception.
Transition(o, to, net) ==
    state' = IF Ran(net) /\ Allowed(state[o], to) THEN [state EXCEPT ![o] = to] ELSE state
Succeeds(o, to, net) == net = "ok" /\ Allowed(state[o], to)

AppendEvent(o, event, net) == log' = IF Ran(net) THEN log \cup {<<o, event>>} ELSE log

-----------------------------------------------------------------------------
\* Mutant: the insert overwrites the operation it conflicts with.
ReserveOverwrites(c, net) ==
    LET o == OpOf[c]
    IN  /\ pc[c] = "reserve"
        /\ Charge(net)
        /\ state' = IF Ran(net) THEN [state EXCEPT ![o] = "APPROVED"] ELSE state
        /\ IF net # "ok" THEN Return(c, "raised")
           ELSE Goto(c, IF c \in Executors THEN "gates" ELSE "attempt")
        /\ UNCHANGED <<gone, log, verified>>

\* The insert that leaves an existing operation as it is.  soft_delete_workspace
\* reserves first of all; execute_deletion expects its caller to have done so.
Reserve(c, net) ==
    LET o == OpOf[c]
    IN  /\ pc[c] = "reserve"
        /\ Charge(net)
        /\ state' = IF Ran(net) /\ state[o] = "absent"
                    THEN [state EXCEPT ![o] = "APPROVED"] ELSE state
        /\ IF net # "ok" THEN Return(c, "raised")
           ELSE Goto(c, IF c \in Executors THEN "gates"
                        ELSE IF state[o] = "COMPLETED" THEN "repeat" ELSE "attempt")
        /\ UNCHANGED <<gone, log, verified>>

\* Eligibility, switch, approval, authorization and dependencies, in the order
\* that decides only which reason the caller reads.
Gates(c) == /\ pc[c] = "gates"
            /\ Goto(c, "approve") \/ Return(c, "retained")
            /\ UNCHANGED <<state, gone, log, verified, faults>>

Approve(c, net) ==
    /\ pc[c] = "approve"
    /\ Charge(net)
    /\ AppendEvent(OpOf[c], "deletion_approved", net)
    /\ IF net = "ok" THEN Goto(c, "attempt") ELSE Return(c, "raised")
    /\ UNCHANGED <<state, gone, verified>>

\* Mutant: the delete goes ahead although the transition failed.
AttemptIgnoresError(c, net) ==
    /\ pc[c] = "attempt"
    /\ Charge(net)
    /\ Transition(OpOf[c], "DELETE_ATTEMPTED", net)
    /\ Goto(c, "delete")
    /\ UNCHANGED <<gone, log, verified>>

Attempt(c, net) ==
    /\ pc[c] = "attempt"
    /\ Charge(net)
    /\ Transition(OpOf[c], "DELETE_ATTEMPTED", net)
    /\ IF Succeeds(OpOf[c], "DELETE_ATTEMPTED", net)
       THEN Goto(c, "delete") ELSE Return(c, "raised")
    /\ UNCHANGED <<gone, log, verified>>

\* The delete itself is external.  It removes the resource or it does not, and
\* what it says of a resource that is already gone is its own affair.
Destroy(o, net) ==
    /\ gone' = IF Ran(net) THEN gone \cup {ResourceOf[o]} ELSE gone
    /\ IF ResourceOf[o] \in gone THEN UNCHANGED faults ELSE Charge(net)

\* Mutant: a delete that raises counts as done.
DeleteIgnoresError(c, net) ==
    /\ pc[c] = "delete"
    /\ Destroy(OpOf[c], net)
    /\ Goto(c, IF c \in Executors THEN "audit" ELSE "complete")
    /\ UNCHANGED <<state, log, verified>>

Delete(c, net) ==
    /\ pc[c] = "delete"
    /\ Destroy(OpOf[c], net)
    /\ Goto(c, IF net # "ok" THEN "flag"
               ELSE IF c \in Executors THEN "audit" ELSE "complete")
    /\ UNCHANGED <<state, log, verified>>

\* How a call returns once all of its calls succeeded; soft_delete_workspace
\* raises when the database gave it no receipt.
Finished(c) == IF c \in Executors THEN {"deletion_completed"}
                                  ELSE {"deletion_completed", "raised"}

\* A repeated soft_delete_workspace asks the database for the receipt again.
Repeat(c, net) ==
    /\ pc[c] = "repeat"
    /\ Destroy(OpOf[c], net)
    /\ \E how \in IF net = "ok" THEN Finished(c) ELSE {"raised"} : Return(c, how)
    /\ UNCHANGED <<state, log, verified>>

\* After a failed delete, or a failed completion: flag the operation, then
\* raise, whether or not the flag was written.
Flag(c, net) ==
    /\ pc[c] = "flag"
    /\ Charge(net)
    /\ Transition(OpOf[c], "RECONCILIATION_REQUIRED", net)
    /\ Return(c, "raised")
    /\ UNCHANGED <<gone, log, verified>>

\* Mutant: a lost completion event goes unnoticed.
AuditIgnoresError(c, net) ==
    /\ pc[c] = "audit"
    /\ Charge(net)
    /\ AppendEvent(OpOf[c], "deletion_completed", net)
    /\ Goto(c, "complete")
    /\ UNCHANGED <<state, gone, verified>>

Audit(c, net) ==
    /\ pc[c] = "audit"
    /\ Charge(net)
    /\ AppendEvent(OpOf[c], "deletion_completed", net)
    /\ Goto(c, IF net = "ok" THEN "complete" ELSE "flag_audit")
    /\ UNCHANGED <<state, gone, verified>>

\* Mutant: the caller is told to reconcile although the flag was not written.
FlagAuditIgnoresError(c, net) ==
    /\ pc[c] = "flag_audit"
    /\ Charge(net)
    /\ Transition(OpOf[c], "RECONCILIATION_REQUIRED", net)
    /\ Return(c, "reconciliation_required")
    /\ UNCHANGED <<gone, log, verified>>

\* After a failed completion event: flag the operation and return.
FlagAudit(c, net) ==
    /\ pc[c] = "flag_audit"
    /\ Charge(net)
    /\ Transition(OpOf[c], "RECONCILIATION_REQUIRED", net)
    /\ Return(c, IF Succeeds(OpOf[c], "RECONCILIATION_REQUIRED", net)
                 THEN "reconciliation_required" ELSE "raised")
    /\ UNCHANGED <<gone, log, verified>>

\* execute_deletion flags a completion that failed, soft_delete_workspace does not.
Complete(c, net) ==
    /\ pc[c] = "complete"
    /\ Charge(net)
    /\ Transition(OpOf[c], "COMPLETED", net)
    /\ IF Succeeds(OpOf[c], "COMPLETED", net)
       THEN \E how \in Finished(c) : Return(c, how)
       ELSE IF c \in Executors THEN Goto(c, "flag") ELSE Return(c, "raised")
    /\ UNCHANGED <<gone, log, verified>>

\* The process dies between two steps.
Crash(c) == /\ pc[c] # "done"
            /\ faults > 0
            /\ faults' = faults - 1
            /\ Goto(c, "done")
            /\ UNCHANGED <<state, gone, log, verified>>

-----------------------------------------------------------------------------
\* The operator and the recovery runbook: flag what was left behind, verify
\* that the resource is absent, write the missing event, close the operation.
RequireReconciliation(o) ==
    /\ state[o] # "absent"
    /\ Transition(o, "RECONCILIATION_REQUIRED", "ok")
    /\ UNCHANGED <<gone, log, pc, answer, verified, faults>>

Verify(o) == /\ state[o] # "absent"
             /\ ResourceOf[o] \in gone
             /\ verified' = verified \cup {o}
             /\ UNCHANGED <<state, gone, log, pc, answer, faults>>

AppendMissing(o) == /\ o \in verified
                    /\ AppendEvent(o, "deletion_completed", "ok")
                    /\ UNCHANGED <<state, gone, pc, answer, verified, faults>>

CompleteReconciliation(o) ==
    /\ o \in verified
    /\ <<o, "deletion_completed">> \in log
    /\ Transition(o, "COMPLETED", "ok")
    /\ UNCHANGED <<gone, log, pc, answer, verified, faults>>

-----------------------------------------------------------------------------
CallStep(c, net) == \/ Reserve(c, net) \/ Approve(c, net) \/ Attempt(c, net)
                    \/ Delete(c, net) \/ Repeat(c, net) \/ Flag(c, net)
                    \/ Audit(c, net) \/ FlagAudit(c, net) \/ Complete(c, net)

OperatorStep(o) == \/ RequireReconciliation(o) \/ Verify(o)
                   \/ AppendMissing(o) \/ CompleteReconciliation(o)

Next == \/ \E c \in Calls, net \in Ends : CallStep(c, net)
        \/ \E c \in Calls : Gates(c) \/ Crash(c)
        \/ \E o \in Ops : OperatorStep(o)

Spec == Init /\ [][Next]_vars

-----------------------------------------------------------------------------
(***************************************************************************)
(* Properties.                                                             *)
(***************************************************************************)
Governed == {OpOf[e] : e \in Executors}
Begun == {"DELETE_ATTEMPTED", "RECONCILIATION_REQUIRED", "COMPLETED"}

\* An operation says COMPLETED only when its resource is really gone, whichever
\* of several callers, failed deletes and operators closed it.
CompletedMeansDeleted ==
    \A o \in Ops : state[o] = "COMPLETED" => ResourceOf[o] \in gone

\* Nothing is destroyed without a durable trace: some operation on a deleted
\* resource is past APPROVED, and if execute_deletion ran it, its approval was
\* audited before.  No crash and no lost call can leave a silent deletion.
DeletionIsOnRecord ==
    \A x \in gone : \E o \in Ops :
        /\ ResourceOf[o] = x
        /\ state[o] \in Begun
        /\ o \in Governed => <<o, "deletion_approved">> \in log

\* An operation of execute_deletion is closed only with its completion event in
\* the audit log: the event comes first, and a failed event flags the operation.
CompletedIsAudited ==
    \A o \in Governed : state[o] = "COMPLETED" => <<o, "deletion_completed">> \in log

\* docs/saas/RETENTION_DELETION_RECOVERY_RUNBOOK.md, "Do not retry the
\* destructive delete blindly": once an operation is flagged or completed it can
\* only complete, and no further call gets as far as the delete.
SettledIsNotRetried ==
    [][\A o \in Ops : state[o] \in {"RECONCILIATION_REQUIRED", "COMPLETED"} =>
          /\ state'[o] \in {state[o], "COMPLETED"}
          /\ \A c \in Calls : OpOf[c] = o /\ pc'[c] = "delete" => pc[c] = "delete"]_vars

\* What a caller was told stays true: "deletion_completed" names a resource that
\* is gone and an operation that is closed, "reconciliation_required" one that
\* is gone and whose operation is flagged or was closed since.
AnswersHold ==
    \A c \in Calls :
        /\ answer[c] = "deletion_completed" =>
              ResourceOf[OpOf[c]] \in gone /\ state[OpOf[c]] = "COMPLETED"
        /\ answer[c] = "reconciliation_required" =>
              /\ ResourceOf[OpOf[c]] \in gone
              /\ state[OpOf[c]] \in {"RECONCILIATION_REQUIRED", "COMPLETED"}

\* The calls, retries, faults and operators together keep the promises of the
\* abstract ledger: every step of any of them is one of its steps or changes
\* nothing an auditor can see.
Ledger == INSTANCE DeletionLedger
ImplementsLedger == Ledger!Spec

-----------------------------------------------------------------------------
(***************************************************************************)
(* The inductive invariant behind the theorems of DeletionOperationsProofs.*)
(***************************************************************************)

\* What a call knows at each of its steps, whatever the others do meanwhile.
CallInv(c) ==
    LET o == OpOf[c]
    IN  /\ pc[c] \in {"gates", "approve", "audit", "flag_audit"} => c \in Executors
        /\ pc[c] \in {"attempt", "delete"} /\ c \in Executors =>
              <<o, "deletion_approved">> \in log
        /\ pc[c] \in {"delete", "audit", "flag_audit", "complete"} => state[o] \in Begun
        /\ pc[c] \in {"audit", "flag_audit", "complete"} => ResourceOf[o] \in gone
        /\ pc[c] = "complete" /\ c \in Executors => <<o, "deletion_completed">> \in log
        /\ pc[c] = "repeat" => state[o] = "COMPLETED"

IInv == /\ TypeOK
        /\ \A c \in Calls : CallInv(c)
        /\ \A o \in verified : ResourceOf[o] \in gone
        /\ CompletedMeansDeleted
        /\ CompletedIsAudited
        /\ DeletionIsOnRecord
        /\ AnswersHold
=============================================================================
