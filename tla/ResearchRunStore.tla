-------------------------- MODULE ResearchRunStore --------------------------
(***************************************************************************)
(* The row of one research run and the transactions the job store runs on  *)
(* it: claim, renew, record_result and finish.  Each is one SQL function   *)
(* (or one critical section of InMemoryResearchJobStore), so each is one   *)
(* operator from a row to the row the transaction leaves behind, with the  *)
(* test that decides what its caller is told beside it.                    *)
(*                                                                         *)
(* A lease token is a fresh random uuid in the code.  Here it is the number*)
(* of the attempt that drew it, which is as unique within a run because a  *)
(* claim draws a token exactly when it counts an attempt.  A null token is *)
(* 0.  lease_expires_at is kept as ttl, the ticks left before it passes:   *)
(* "lease_expires_at <= clock_timestamp()" is ttl = 0.                     *)
(***************************************************************************)
EXTENDS Naturals

CONSTANTS Results,      \* the results an execution can produce
          MaxAttempts,  \* research_run.max_attempts, 3 unless a row says otherwise
          LeaseTicks    \* lease_seconds of ResearchWorker

\* A result has a status and the rest of what its manifest hashes.  Two results
\* have the same manifest_sha256 exactly when they are equal.
ASSUME ResultsAssumption ==
    \A res \in Results : res.status \in {"SUCCEEDED", "FAILED"}

ASSUME BudgetAssumption ==
    /\ MaxAttempts \in Nat \ {0}
    /\ LeaseTicks \in Nat \ {0}

NoResult == [status |-> "NONE"]

Terminal == {"succeeded", "failed"}
Status   == {"absent", "queued", "running"} \cup Terminal
Error    == {"none", "executor_error", "provenance_error", "max_attempts_exceeded"}

Row == [status   : Status,
        attempts : 0 .. MaxAttempts,
        token    : 0 .. MaxAttempts,
        ttl      : 0 .. LeaseTicks,
        error    : Error,
        result   : Results \cup {NoResult}]

\* No row yet: what create_research_run_idempotent will insert.
AbsentRow == [status |-> "absent", attempts |-> 0, token |-> 0, ttl |-> 0,
              error |-> "none", result |-> NoResult]

-----------------------------------------------------------------------------
\* Mutant: a claim that does not look at lease_expires_at.
ClaimableAnyLease(r) == r.status \in {"queued", "running"}

\* A claim takes a queued run, or a running one whose lease has run out.
Claimable(r) == r.status = "queued" \/ (r.status = "running" /\ r.ttl = 0)

\* Mutant: a finish that forgets to compare the lease token.
HoldsLeaseAnyToken(r, tok) == r.status = "running"

\* The finish transaction asks for the current token and not for a live lease.
HoldsLease(r, tok) == r.status = "running" /\ r.token = tok

\* The renew and record transactions ask for both.
LiveLease(r, tok) == HoldsLease(r, tok) /\ r.ttl > 0

\* Mutants: the attempt budget is off by one in either direction.
GrantsPastBudget(r) == Claimable(r) /\ r.attempts <= MaxAttempts
GrantsOneShort(r) == Claimable(r) /\ r.attempts + 1 < MaxAttempts

Grants(r) == Claimable(r) /\ r.attempts < MaxAttempts

Granted(r) == [r EXCEPT !.status = "running", !.attempts = r.attempts + 1,
                        !.token = r.attempts + 1, !.ttl = LeaseTicks,
                        !.error = "none"]

Closed(r, target, err) == [r EXCEPT !.status = target, !.token = 0, !.ttl = 0,
                                    !.error = err]

ClaimRow(r) == IF Grants(r) THEN Granted(r)
               ELSE IF Claimable(r) THEN Closed(r, "failed", "max_attempts_exceeded")
               ELSE r

\* Mutant: a renew that answers without moving lease_expires_at.
RenewKeepsExpiry(r, tok) == r

RenewRow(r, tok) == IF LiveLease(r, tok) THEN [r EXCEPT !.ttl = LeaseTicks] ELSE r

\* Mutant: a record that does not compare manifest_sha256.
AcceptsAnyManifest(r, tok, res) == LiveLease(r, tok)

\* A second record of the same manifest is a replay, of another one an error.
Accepts(r, tok, res) == LiveLease(r, tok) /\ r.result \in {NoResult, res}

RecordRow(r, tok, res) == IF Accepts(r, tok, res) THEN [r EXCEPT !.result = res] ELSE r

FinishRow(r, tok, target, err) ==
    IF HoldsLease(r, tok) THEN Closed(r, target, err) ELSE r

AgeRow(r) == [r EXCEPT !.ttl = IF r.ttl > 0 THEN r.ttl - 1 ELSE 0]
=============================================================================
