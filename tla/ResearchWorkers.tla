-------------------------- MODULE ResearchWorkers --------------------------
(***************************************************************************)
(* The research job pipeline after a request is accepted: the API process  *)
(* that inserts a run and sends its message, the pgmq queue                *)
(* qros-research-runs with its visibility timeout, the job store, and a    *)
(* fleet of StandaloneResearchWorker processes, each looping over receive, *)
(* claim, execute, record, finish and ack, with a heartbeat thread that    *)
(* renews the lease meanwhile.                                             *)
(*                                                                         *)
(* One action is one remote call with everything the process does with the *)
(* answer.  Processes, threads and the clock interleave freely; a call can *)
(* be lost before or after it took effect, and a process can die between   *)
(* any two calls.  MaxFaults bounds how often that happens.                *)
(***************************************************************************)
EXTENDS ResearchRunStore

CONSTANTS Jobs, NoJob,
          Workers,
          VisibilityTicks,   \* QUEUE_VISIBILITY_TIMEOUT_SECONDS
          HeartbeatTicks,    \* lease_seconds / 3
          RowDecodes,        \* whether _row_to_job accepts the rows claim and renew return
          MaxFaults          \* lost calls and process deaths in one behaviour

ASSUME FleetAssumption ==
    /\ NoJob \notin Jobs
    /\ VisibilityTicks \in Nat \ {0}
    /\ HeartbeatTicks \in Nat \ {0}
    /\ RowDecodes \in BOOLEAN
    /\ MaxFaults \in Nat

VARIABLES run,       \* run[j]: the research_run row and its research_run_result
          msg,       \* msg[j]: the queue message that names run j
          sent,      \* messages sent so far, the source of msg_id
          creating,  \* runs inserted by an API request that has not sent the message yet
          pc,        \* pc[w]: the call worker w makes next
          cur,       \* cur[w]: the local variables of run_forever and _run_once_traced
          beats,     \* the live heartbeat threads
          faults,    \* faults still allowed
          pace       \* whether every heartbeat was served before the next tick so far

vars == <<run, msg, sent, creating, pc, cur, beats, faults, pace>>

Message == [state : {"unsent", "queued", "acked"}, id : Nat, vt : 0 .. VisibilityTicks]
Unsent  == [state |-> "unsent", id |-> 0, vt |-> 0]
Acked   == [state |-> "acked", id |-> 0, vt |-> 0]

Labels == {"idle", "claim", "execute", "record", "finish", "handle", "ack", "down"}

Locals == [job : Jobs \cup {NoJob}, token : 0 .. MaxAttempts,
           result : Results \cup {NoResult}, error : Error]
NoLocals == [job |-> NoJob, token |-> 0, result |-> NoResult, error |-> "none"]

Beat == [worker : Workers, job : Jobs, token : 1 .. MaxAttempts,
         stopping : BOOLEAN, due : 0 .. HeartbeatTicks]

TypeOK == /\ run \in [Jobs -> Row]
          /\ msg \in [Jobs -> Message]
          /\ sent \in Nat
          /\ creating \in SUBSET Jobs
          /\ pc \in [Workers -> Labels]
          /\ cur \in [Workers -> Locals]
          /\ beats \in SUBSET Beat
          /\ faults \in 0 .. MaxFaults
          /\ pace \in {"punctual", "late"}

Init == /\ run = [j \in Jobs |-> AbsentRow]
        /\ msg = [j \in Jobs |-> Unsent]
        /\ sent = 0
        /\ creating = {}
        /\ pc = [w \in Workers |-> "idle"]
        /\ cur = [w \in Workers |-> NoLocals]
        /\ beats = {}
        /\ faults = MaxFaults
        /\ pace = "punctual"

-----------------------------------------------------------------------------
\* How a remote call can end: it ran and the caller has the answer ("ok"), it
\* never ran ("lost"), or it ran and the caller sees an exception ("cut").
Ends == {"ok", "lost", "cut"}
Ran(net) == net # "lost"

Charge(net) == IF net = "ok" THEN faults' = faults
                             ELSE faults > 0 /\ faults' = faults - 1

Goto(w, label, locals) == /\ pc' = [pc EXCEPT ![w] = label]
                          /\ cur' = [cur EXCEPT ![w] = locals]

\* The process is gone and its daemon threads with it.
Exit(w) == /\ Goto(w, "down", NoLocals)
           /\ beats' = {b \in beats : b.worker # w}

-----------------------------------------------------------------------------
\* The API: POST /v1/research-runs inserts the row, then sends the message.
CreateRun(j) ==
    /\ run[j].status = "absent"
    /\ run' = [run EXCEPT ![j].status = "queued"]
    /\ creating' = creating \cup {j}
    /\ UNCHANGED <<msg, sent, pc, cur, beats, faults, pace>>

\* A send that fails is not retried: the request answers with an error and a
\* repeat of it is answered from the idempotency record without a send.
Enqueue(j, net) ==
    /\ j \in creating
    /\ Charge(net)
    /\ creating' = creating \ {j}
    /\ IF Ran(net)
       THEN /\ sent' = sent + 1
            /\ msg' = [msg EXCEPT ![j] = [state |-> "queued", id |-> sent + 1, vt |-> 0]]
       ELSE UNCHANGED <<sent, msg>>
    /\ UNCHANGED <<run, pc, cur, beats, pace>>

-----------------------------------------------------------------------------
\* The worker loop.
Visible(j) == msg[j].state = "queued" /\ msg[j].vt = 0

\* pgmq reads the visible message with the lowest msg_id.
Oldest(j) == Visible(j) /\ \A k \in Jobs : Visible(k) => msg[j].id <= msg[k].id

Receive(w, net) ==
    /\ pc[w] = "idle"
    /\ Charge(net)
    /\ \E j \in Jobs :
          /\ Oldest(j)
          /\ msg' = IF Ran(net) THEN [msg EXCEPT ![j].vt = VisibilityTicks] ELSE msg
          /\ IF net = "ok"
             THEN /\ Goto(w, "claim", [NoLocals EXCEPT !.job = j])
                  /\ beats' = beats
             ELSE Exit(w)
    /\ UNCHANGED <<run, sent, creating, pace>>

StartBeat(w, j, tok) == [worker |-> w, job |-> j, token |-> tok,
                         stopping |-> FALSE, due |-> HeartbeatTicks]

Claim(w, net) ==
    LET j   == cur[w].job
        tok == run[j].attempts + 1
    IN  /\ pc[w] = "claim"
        /\ Charge(net)
        /\ run' = IF Ran(net) THEN [run EXCEPT ![j] = ClaimRow(run[j])] ELSE run
        /\ IF net = "ok" /\ Grants(run[j]) /\ RowDecodes
           THEN /\ Goto(w, "execute", [cur[w] EXCEPT !.token = tok])
                /\ beats' = beats \cup {StartBeat(w, j, tok)}
           ELSE /\ Goto(w, "handle", cur[w])
                /\ beats' = beats
        /\ UNCHANGED <<msg, sent, creating, pace>>

\* GovernedResearchExecutor.execute returns a result or raises.
Execute(w) ==
    /\ pc[w] = "execute"
    /\ \/ \E res \in Results : Goto(w, "record", [cur[w] EXCEPT !.result = res])
       \/ Goto(w, "finish", [cur[w] EXCEPT !.error = "executor_error"])
    /\ UNCHANGED <<run, msg, sent, creating, beats, faults, pace>>

Record(w, net) ==
    LET j == cur[w].job
        ok == net = "ok" /\ Accepts(run[j], cur[w].token, cur[w].result)
    IN  /\ pc[w] = "record"
        /\ Charge(net)
        /\ run' = IF Ran(net)
                  THEN [run EXCEPT ![j] = RecordRow(run[j], cur[w].token, cur[w].result)]
                  ELSE run
        /\ Goto(w, "finish",
                IF ok THEN cur[w] ELSE [cur[w] EXCEPT !.error = "provenance_error"])
        /\ UNCHANGED <<msg, sent, creating, beats, pace>>

\* Mutant: the target status is taken from the local result alone, whether or
\* not the store accepted it.
TargetOfLocalResult(c) == IF c.result.status = "SUCCEEDED" THEN "succeeded" ELSE "failed"

Target(c) == IF c.error = "none" /\ c.result.status = "SUCCEEDED"
             THEN "succeeded" ELSE "failed"

\* stop.set() and join(1.0): the thread is gone, unless it was inside a renew
\* call that outlasts the join.
StopBeat(w) ==
    LET mine == {b \in beats : b.worker = w /\ ~b.stopping}
    IN  \/ beats' = beats \ mine
        \/ beats' = (beats \ mine) \cup {[b EXCEPT !.stopping = TRUE] : b \in mine}

Finish(w, net) ==
    LET j  == cur[w].job
        ok == net = "ok" /\ HoldsLease(run[j], cur[w].token)
    IN  /\ pc[w] = "finish"
        /\ Charge(net)
        /\ run' = IF Ran(net)
                  THEN [run EXCEPT ![j] = FinishRow(run[j], cur[w].token,
                                                    Target(cur[w]), cur[w].error)]
                  ELSE run
        /\ Goto(w, IF ok /\ cur[w].error = "none" THEN "ack" ELSE "handle",
                [NoLocals EXCEPT !.job = j])
        /\ StopBeat(w)
        /\ UNCHANGED <<msg, sent, creating, pace>>

\* Mutants: the except branch acks every message, or none.
AckAlways(j) == TRUE
AckNever(j) == FALSE

Ackable(j) == run[j].status \in Terminal

\* The except branch of run_forever: ack what is already terminal, leave the
\* rest to the visibility timeout.
Handle(w, net) ==
    /\ pc[w] = "handle"
    /\ Charge(net)
    /\ IF net # "ok" THEN Exit(w)
       ELSE /\ IF Ackable(cur[w].job)
               THEN Goto(w, "ack", [NoLocals EXCEPT !.job = cur[w].job])
               ELSE Goto(w, "idle", NoLocals)
            /\ beats' = beats
    /\ UNCHANGED <<run, msg, sent, creating, pace>>

\* An ack of a message that is no longer there raises, and nothing catches it.
Ack(w, net) ==
    LET j == cur[w].job
    IN  /\ pc[w] = "ack"
        /\ Charge(net)
        /\ msg' = IF Ran(net) THEN [msg EXCEPT ![j] = Acked] ELSE msg
        /\ IF net = "ok" /\ msg[j].state = "queued"
           THEN Goto(w, "idle", NoLocals) /\ beats' = beats
           ELSE Exit(w)
        /\ UNCHANGED <<run, sent, creating, pace>>

\* One renew call of a heartbeat thread; an exception ends the thread.
Renew(b, net) ==
    /\ b \in beats
    /\ b.stopping \/ b.due = 0
    /\ Charge(net)
    /\ run' = IF Ran(net)
              THEN [run EXCEPT ![b.job] = RenewRow(run[b.job], b.token)] ELSE run
    /\ beats' = IF net = "ok" /\ RowDecodes /\ LiveLease(run[b.job], b.token) /\ ~b.stopping
                THEN (beats \ {b}) \cup {[b EXCEPT !.due = HeartbeatTicks]}
                ELSE beats \ {b}
    /\ UNCHANGED <<msg, sent, creating, pc, cur, pace>>

-----------------------------------------------------------------------------
\* The environment.
Crash(w) == /\ pc[w] # "down"
            /\ faults > 0
            /\ faults' = faults - 1
            /\ Exit(w)
            /\ UNCHANGED <<run, msg, sent, creating, pace>>

Restart(w) == /\ pc[w] = "down"
              /\ Goto(w, "idle", NoLocals)
              /\ UNCHANGED <<run, msg, sent, creating, beats, faults, pace>>

Age(m) == [m EXCEPT !.vt = IF m.vt > 0 THEN m.vt - 1 ELSE 0]

TimersRunning == \/ \E j \in Jobs : run[j].ttl > 0 \/ msg[j].vt > 0
                 \/ \E b \in beats : b.due > 0

Tick == /\ TimersRunning
        /\ pace' = IF \A b \in beats : b.stopping \/ b.due > 0 THEN pace ELSE "late"
        /\ run' = [j \in Jobs |-> AgeRow(run[j])]
        /\ msg' = [j \in Jobs |-> Age(msg[j])]
        /\ beats' = {[b EXCEPT !.due = IF b.due > 0 THEN b.due - 1 ELSE 0] : b \in beats}
        /\ UNCHANGED <<sent, creating, pc, cur, faults>>

WorkerStep(w, net) == \/ Receive(w, net) \/ Claim(w, net) \/ Record(w, net)
                      \/ Finish(w, net) \/ Handle(w, net) \/ Ack(w, net)

Next == \/ \E j \in Jobs : CreateRun(j)
        \/ \E j \in Jobs, net \in Ends : Enqueue(j, net)
        \/ \E w \in Workers, net \in Ends : WorkerStep(w, net)
        \/ \E w \in Workers : Execute(w) \/ Crash(w) \/ Restart(w)
        \/ \E b \in beats, net \in Ends : Renew(b, net)
        \/ Tick

Spec == Init /\ [][Next]_vars

\* Calls return, executions end, threads are scheduled and time passes.  Nothing
\* is assumed of the API's clients or of who restarts a dead worker.
Fairness == /\ WF_vars(Tick)
            /\ \A w \in Workers : WF_vars(Execute(w) \/ \E net \in Ends : WorkerStep(w, net))
            /\ WF_vars(\E b \in beats, net \in Ends : Renew(b, net))

FairSpec == Spec /\ Fairness
-----------------------------------------------------------------------------
(***************************************************************************)
(* Properties.                                                             *)
(***************************************************************************)
Working == {"execute", "record", "finish"}

\* No call was lost or cut, no process died and no heartbeat was late so far.
Undisturbed == faults = MaxFaults /\ pace = "punctual"

\* A run is succeeded only with a recorded result that says SUCCEEDED: the
\* worker records before it finishes, however many workers, attempts, lost
\* replies and expired leases lie between the two calls.
SucceededHasResult ==
    \A j \in Jobs : run[j].status = "succeeded" => run[j].result.status = "SUCCEEDED"

\* The message of a run leaves the queue only once the run is terminal, so no
\* run loses its last delivery while it still needs one.
AckedRunIsFinal ==
    \A j \in Jobs : msg[j].state = "acked" => run[j].status \in Terminal

\* At most one worker acts under the lease a run currently has: a reclaim
\* fences off every earlier attempt that is still executing.
OneLeaseHolder ==
    \A v, w \in Workers :
        /\ pc[v] \in Working /\ pc[w] \in Working
        /\ cur[v].job = cur[w].job
        /\ HoldsLease(run[cur[v].job], cur[v].token)
        /\ HoldsLease(run[cur[w].job], cur[w].token)
        => v = w

\* A run is closed as max_attempts_exceeded only when its whole attempt budget
\* is used up, and then no worker still holds its lease.
ExhaustedMeansAllAttemptsUsed ==
    \A j \in Jobs : run[j].error = "max_attempts_exceeded" =>
        /\ run[j].status = "failed"
        /\ run[j].attempts = MaxAttempts
        /\ \A w \in Workers : cur[w].job = j => ~HoldsLease(run[j], cur[w].token)

\* The worker that makes a run succeeded is the one its current attempt belongs
\* to, and the result it computed is the very result that is recorded, never
\* one that an earlier attempt left behind with another manifest.
SucceedsOnOwnResult ==
    [][\A j \in Jobs :
          run[j].status # "succeeded" /\ run'[j].status = "succeeded" =>
             \E w \in Workers : /\ cur[w].job = j
                                /\ cur[w].token = run[j].attempts
                                /\ cur[w].result = run[j].result]_vars

\* What the runs show to the API's clients is the abstract lifecycle.
Lifecycle == INSTANCE RunLifecycle
                WITH status   <- [j \in Jobs |-> run[j].status],
                     attempts <- [j \in Jobs |-> run[j].attempts],
                     result   <- [j \in Jobs |-> run[j].result]
ImplementsLifecycle == Lifecycle!Spec

\* Until a first call is lost or cut, a first process dies or a first heartbeat
\* comes late, a worker never works under an expired lease, however long the
\* execution takes.
LeaseHeldWhileWorking ==
    Undisturbed => \A w \in Workers : pc[w] \in Working =>
                      LiveLease(run[cur[w].job], cur[w].token)

\* Until then no run is attempted twice either: a message that becomes visible
\* again during a long execution finds the lease alive, and a run that failed is
\* closed and not retried.
AttemptedOnce == Undisturbed => \A j \in Jobs : run[j].attempts <= 1

\* Every run whose message was sent ends, unless all workers stay down: the
\* redelivery of the message and the attempt budget see to it.
EveryRunEnds ==
    \A j \in Jobs : msg[j].state = "queued" ~>
        (run[j].status \in Terminal \/ [](\A w \in Workers : pc[w] = "down"))

\* The message of a finished run is eventually removed: nobody keeps being
\* handed a run that has nothing left to do.
QueueDrains ==
    \A j \in Jobs : (msg[j].state = "queued" /\ run[j].status \in Terminal) ~>
        (msg[j].state = "acked" \/ [](\A w \in Workers : pc[w] = "down"))

\* A step in which a worker's finish closes a run does so under a live lease.
FinalizedUnderLiveLease ==
    \A j \in Jobs :
       /\ run[j].status = "running" /\ run'[j].status \in Terminal
       /\ run'[j].error # "max_attempts_exceeded"
       => run[j].ttl > 0

\* docs/saas/API_CONTRACT_V1.md:155, "a stale lease token cannot finalize a
\* run": a worker's finish closes a run only while its lease is live.
StaleLeaseCannotFinalize == [][FinalizedUnderLiveLease]_vars

\* ResearchJobStore.claim returns the WorkerLease of the attempt it counts
\* (researchos/saas/tests/test_worker.py:198-199): a claim that starts an
\* attempt hands it to the worker that called it.
ClaimHandsOutLease ==
    [][\A j \in Jobs : run'[j].attempts > run[j].attempts =>
          \E w \in Workers : /\ pc'[w] = "execute"
                             /\ cur'[w].job = j
                             /\ cur'[w].token = run'[j].token]_vars

-----------------------------------------------------------------------------
(***************************************************************************)
(* The inductive invariant behind the theorems of ResearchWorkersProofs.   *)
(***************************************************************************)

\* What a row promises by itself.
RowInv(r) ==
    /\ r.status \in {"absent", "queued"} => r.attempts = 0 /\ r.result = NoResult
    /\ r.status = "running" => r.attempts > 0 /\ r.token = r.attempts
    /\ r.status = "succeeded" => r.result.status = "SUCCEEDED"
    /\ r.error = "max_attempts_exceeded" =>
          r.status = "failed" /\ r.attempts = MaxAttempts

\* What a worker knows about the row it works on: its token is one the row has
\* already counted; past a record that was accepted, the recorded result is
\* its own; before an ack, the run is terminal.
WorkerInv(w) ==
    /\ pc[w] \notin {"idle", "down"} => cur[w].job \in Jobs
    /\ pc[w] \in Working => /\ cur[w].token > 0
                            /\ cur[w].token <= run[cur[w].job].attempts
    /\ pc[w] \in {"claim", "execute", "record"} => cur[w].error = "none"
    /\ pc[w] = "record" => cur[w].result \in Results
    /\ pc[w] = "finish" /\ cur[w].error = "none" =>
          cur[w].result \in Results /\ run[cur[w].job].result = cur[w].result
    /\ pc[w] = "ack" => run[cur[w].job].status \in Terminal
    /\ pc[w] \notin Working => cur[w].token = 0
    /\ cur[w].error # "max_attempts_exceeded"

\* No two workers hold the same token of the same run.
TokensUnique ==
    \A v, w \in Workers :
        /\ pc[v] \in Working /\ pc[w] \in Working
        /\ cur[v].job = cur[w].job /\ cur[v].token = cur[w].token
        => v = w

IInv == /\ TypeOK
        /\ \A j \in Jobs : RowInv(run[j])
        /\ \A w \in Workers : WorkerInv(w)
        /\ TokensUnique
        /\ AckedRunIsFinal

-----------------------------------------------------------------------------
(***************************************************************************)
(* The inductive invariant behind the theorems of ResearchLeaseProofs.     *)
(***************************************************************************)

\* The heartbeat of worker w, due before the lease it renews runs out.
Covers(b, w) == /\ b.worker = w /\ ~b.stopping
                /\ b.job = cur[w].job /\ b.token = cur[w].token
                /\ b.due < run[b.job].ttl

\* A worker that works holds its lease and has a heartbeat that covers it.
Covered(w) == pc[w] \in Working =>
    /\ RowDecodes
    /\ HoldsLease(run[cur[w].job], cur[w].token)
    /\ \E b \in beats : Covers(b, w)

\* A heartbeat that nobody told to stop belongs to a worker that works.
Attached(b) == ~b.stopping =>
    /\ pc[b.worker] \in Working
    /\ b.job = cur[b.worker].job /\ b.token = cur[b.worker].token

LeaseInv == Undisturbed => /\ \A w \in Workers : Covered(w)
                          /\ \A b \in beats : Attached(b)

\* A run that was claimed once is running in the hands of a worker, or closed.
HeldOnce(j) == /\ run[j].attempts <= 1
               /\ run[j].status = "running" =>
                     \E w \in Workers : pc[w] \in Working /\ cur[w].job = j

OnceInv == Undisturbed => \A j \in Jobs : HeldOnce(j)
=============================================================================
