--------------------------- MODULE BillingEvents ---------------------------
(***************************************************************************)
(* Billing webhooks of one workspace.  A provider delivers an event any    *)
(* number of times and in any order; process_billing_event records it and  *)
(* projects it onto the subscription and the entitlement of the workspace. *)
(*                                                                         *)
(* The function is one transaction.  Its lock on the subscription row,     *)
(* which provision_workspace inserted, puts two events of a workspace one  *)
(* after the other, so a delivery is one step.  The provider's customer,   *)
(* subscription and period columns are left out: nothing here reads them.  *)
(***************************************************************************)
EXTENDS Naturals

CONSTANTS None,
          EventIds,
          Messages   \* what deliveries carry: [id, plan, status, at]; the
                     \* payload hash of two messages differs when they do

Plans    == {"free", "pro", "team", "enterprise"}
Statuses == {"trialing", "active", "past_due", "cancelled", "incomplete"}
Times    == Nat \cup {None}   \* provider_event_created_at may be null

ASSUME BillingAssumption ==
    /\ None \notin Nat \cup Messages \cup Plans
    /\ Messages \subseteq [id: EventIds, plan: Plans, status: Statuses, at: Times]

VARIABLES events,        \* events[i]: None, or the message recorded for the id
          subscription,  \* the row: plan, status, last_billing_event_at
          entitlement,   \* None while the row is missing, else its plan
          applied        \* the message that set the subscription last

billingVars == <<events, subscription, entitlement, applied>>

BillingTypeOK ==
    /\ events \in [EventIds -> Messages \cup {None}]
    /\ subscription \in [plan: Plans, status: Statuses, last: Times]
    /\ entitlement \in Plans \cup {None}
    /\ applied \in Messages \cup {None}

\* provision_workspace gives a workspace a free subscription and no entitlement.
BillingInit ==
    /\ events = [i \in EventIds |-> None]
    /\ subscription = [plan |-> "free", status |-> "active", last |-> None]
    /\ entitlement = None
    /\ applied = None

EffectivePlan(row) ==
    IF row.status \in {"active", "trialing"} THEN row.plan ELSE "free"

\* EntitlementStore.get: without a row, the plan that the membership resolver
\* reads from the subscription decides.
EntitledPlan == IF entitlement # None THEN entitlement
                                      ELSE EffectivePlan(subscription)

Stale(m) == /\ m.at # None
            /\ subscription.last # None
            /\ m.at < subscription.last

\* Mutant: an event without a time clears last_billing_event_at.
LastEventAtPlain(m) == m.at

LastEventAt(m) == IF m.at # None THEN m.at ELSE subscription.last

Project(m) ==
    /\ entitlement' = EffectivePlan(m)
    /\ subscription' = [plan |-> m.plan, status |-> m.status,
                        last |-> LastEventAt(m)]
    /\ applied' = m

\* Mutant: the insert of a known event id is not told from a new one.
NewAny(m) == events[m.id] \in {None, m}

New(m) == events[m.id] = None

ProcessBillingEvent(m) ==
    /\ New(m)
    /\ events' = [events EXCEPT ![m.id] = m]
    /\ \/ Stale(m) /\ UNCHANGED <<subscription, entitlement, applied>>
       \/ ~Stale(m) /\ Project(m)

\* The same payload answers "replayed"; another one under the id is refused, and
\* so is a call that fails.  The provider delivers again.
Redeliver(m) == /\ events[m.id] # None
                /\ UNCHANGED billingVars

BillingNext == \E m \in Messages : ProcessBillingEvent(m) \/ Redeliver(m)

-----------------------------------------------------------------------------
(* Properties *)

\* Whatever the order of delivery, the subscription and the entitlement are
\* those of one recorded event, and no recorded event is newer than it; only an
\* event that carries no time may stand in for the newest one.
NewestEventWins ==
    applied # None =>
       /\ events[applied.id] = applied
       /\ subscription.plan = applied.plan
       /\ entitlement = EffectivePlan(subscription)
       /\ applied.at # None =>
             \A i \in EventIds :
                events[i] = None \/ events[i].at = None \/ events[i].at <= applied.at

\* A redelivered event, or one that reuses an id, changes nothing: what the
\* workspace is entitled to moves only with the recording of a new event.
ReplayIsInert ==
    [][events' = events => UNCHANGED <<subscription, entitlement>>]_billingVars
=============================================================================
