---------------------------- MODULE RunLifecycle ----------------------------
(***************************************************************************)
(* What the API promises about a research run, whatever the workers, the   *)
(* queue and the clock do (docs/saas/API_CONTRACT_V1.md, section 6):       *)
(* queued -> running -> succeeded or failed, at most MaxAttempts attempts, *)
(* terminal states are final, the recorded result is written once, and a   *)
(* run succeeds only on a recorded result that says SUCCEEDED.             *)
(***************************************************************************)
EXTENDS Naturals

CONSTANTS Jobs, Results, MaxAttempts, NoResult

VARIABLES status,    \* what GET /v1/research-runs/{id} shows
          attempts,  \* attempt_count
          result     \* what GET /v1/research-runs/{id}/result shows

vars == <<status, attempts, result>>

Init == /\ status   = [j \in Jobs |-> "absent"]
        /\ attempts = [j \in Jobs |-> 0]
        /\ result   = [j \in Jobs |-> NoResult]

Create(j) == /\ status[j] = "absent"
             /\ status' = [status EXCEPT ![j] = "queued"]
             /\ UNCHANGED <<attempts, result>>

\* A first attempt, or a further one after the previous attempt lost its lease.
Attempt(j) == /\ status[j] \in {"queued", "running"}
              /\ attempts[j] < MaxAttempts
              /\ status'   = [status EXCEPT ![j] = "running"]
              /\ attempts' = [attempts EXCEPT ![j] = attempts[j] + 1]
              /\ UNCHANGED result

Record(j, res) == /\ status[j] = "running"
                  /\ result[j] = NoResult
                  /\ result' = [result EXCEPT ![j] = res]
                  /\ UNCHANGED <<status, attempts>>

Succeed(j) == /\ status[j] = "running"
              /\ result[j].status = "SUCCEEDED"
              /\ status' = [status EXCEPT ![j] = "succeeded"]
              /\ UNCHANGED <<attempts, result>>

Fail(j) == /\ status[j] = "running"
           /\ status' = [status EXCEPT ![j] = "failed"]
           /\ UNCHANGED <<attempts, result>>

Next == \E j \in Jobs : \/ Create(j)
                        \/ Attempt(j)
                        \/ \E res \in Results : Record(j, res)
                        \/ Succeed(j)
                        \/ Fail(j)

Spec == Init /\ [][Next]_vars
=============================================================================
