----------------------- MODULE ResearchWorkersProofs -----------------------
(***************************************************************************)
(* Proofs about ResearchWorkers for every set of jobs and workers, every   *)
(* attempt budget, lease length and visibility timeout, any number of lost *)
(* calls and process deaths, and either behaviour of the store's adapter.  *)
(*                                                                         *)
(* The plan: every transaction of the store takes a row to a row that only *)
(* grew (RowStep); so no step of any process breaks what the other workers *)
(* know about their rows, and each action has only its own worker left to  *)
(* argue about.                                                            *)
(***************************************************************************)
EXTENDS ResearchWorkers, TLAPS

\* The rows a transaction may leave behind: attempts never go down, a recorded
\* result and a terminal status stay.
RowStep(r, s) ==
    /\ s \in Row
    /\ RowInv(s)
    /\ r.attempts <= s.attempts
    /\ r.result \in Results => s.result = r.result
    /\ r.status \in Terminal => s.status = r.status

-----------------------------------------------------------------------------
\* NoResult is not a result: no result has its status.
LEMMA NoResultIsNone == NoResult \notin Results
  BY ResultsAssumption DEF NoResult

\* A row that is left alone satisfies RowStep.
LEMMA RowStepSame ==
  ASSUME NEW r \in Row, RowInv(r)
  PROVE  RowStep(r, r)
  BY BudgetAssumption DEF RowStep, Row

\* Closing a row gives a row.
LEMMA ClosedIsRow ==
  ASSUME NEW r \in Row, NEW target \in Status, NEW err \in Error
  PROVE  Closed(r, target, err) \in Row
<1>1. 0 \in 0 .. MaxAttempts /\ 0 \in 0 .. LeaseTicks
  BY BudgetAssumption
<1>2. QED
  BY <1>1 DEF Closed, Row

\* The claim transaction, which grants an attempt, closes an exhausted run or
\* leaves the row alone, keeps the row's invariant.
LEMMA ClaimRowStep ==
  ASSUME NEW r \in Row, RowInv(r)
  PROVE  RowStep(r, ClaimRow(r))
<1> USE BudgetAssumption DEF RowStep, RowInv, Row, Status, Terminal, Error
<1>1. CASE Grants(r)
  <2>1. ClaimRow(r) = Granted(r)
    BY <1>1 DEF ClaimRow
  <2>2. r.attempts + 1 \in 1 .. MaxAttempts
    BY <1>1 DEF Grants
  <2>3. Granted(r) \in Row
    <3>1. "running" \in Status /\ "none" \in Error /\ LeaseTicks \in 0 .. LeaseTicks
      OBVIOUS
    <3>2. r.attempts + 1 \in 0 .. MaxAttempts
      BY <2>2
    <3> HIDE DEF Status, Error
    <3>3. QED
      BY <3>1, <3>2 DEF Granted
  <2>4. QED
    BY <1>1, <2>1, <2>2, <2>3 DEF Granted, Grants, Claimable
<1>2. CASE ~Grants(r) /\ Claimable(r)
  <2>1. r.status = "running" /\ r.attempts = MaxAttempts
    BY <1>2 DEF Grants, Claimable
  <2>2. ClaimRow(r) = Closed(r, "failed", "max_attempts_exceeded")
    BY <1>2 DEF ClaimRow
  <2>3. Closed(r, "failed", "max_attempts_exceeded") \in Row
    <3>1. "failed" \in Status /\ "max_attempts_exceeded" \in Error
      OBVIOUS
    <3>2. QED
      BY <3>1, ClosedIsRow
  <2>4. QED
    BY <2>1, <2>2, <2>3 DEF Closed
<1>3. CASE ~Grants(r) /\ ~Claimable(r)
  BY <1>3, RowStepSame DEF ClaimRow
<1>4. QED
  BY <1>1, <1>2, <1>3

\* A renew moves nothing but the lease expiry.
LEMMA RenewRowStep ==
  ASSUME NEW r \in Row, RowInv(r), NEW tok
  PROVE  RowStep(r, RenewRow(r, tok))
<1>1. CASE LiveLease(r, tok)
  BY <1>1, BudgetAssumption DEF RenewRow, RowStep, RowInv, Row
<1>2. CASE ~LiveLease(r, tok)
  BY <1>2, RowStepSame DEF RenewRow
<1>3. QED
  BY <1>1, <1>2

\* A record writes the result of a running row once.
LEMMA RecordRowStep ==
  ASSUME NEW r \in Row, RowInv(r), NEW tok, NEW res \in Results
  PROVE  RowStep(r, RecordRow(r, tok, res))
<1>1. CASE Accepts(r, tok, res)
  BY <1>1, NoResultIsNone, BudgetAssumption
     DEF Accepts, LiveLease, HoldsLease, RecordRow, RowStep, RowInv, Row, Terminal
<1>2. CASE ~Accepts(r, tok, res)
  BY <1>2, RowStepSame DEF RecordRow
<1>3. QED
  BY <1>1, <1>2

\* A finish closes a row, as succeeded only if the recorded result allows it.
LEMMA FinishRowStep ==
  ASSUME NEW r \in Row, RowInv(r), NEW tok, NEW target \in Terminal,
         NEW err \in Error \ {"max_attempts_exceeded"},
         target = "succeeded" => r.result.status = "SUCCEEDED"
  PROVE  RowStep(r, FinishRow(r, tok, target, err))
<1>1. CASE HoldsLease(r, tok)
  <2>1. Closed(r, target, err) \in Row
    <3>1. target \in Status /\ err \in Error
      BY DEF Status
    <3>2. QED
      BY <3>1, ClosedIsRow
  <2>2. QED
    BY <1>1, <2>1, BudgetAssumption
       DEF HoldsLease, FinishRow, Closed, RowStep, RowInv, Row, Terminal
<1>2. CASE ~HoldsLease(r, tok)
  BY <1>2, RowStepSame DEF FinishRow
<1>3. QED
  BY <1>1, <1>2

\* Time only wears the lease off.
LEMMA AgeRowStep ==
  ASSUME NEW r \in Row, RowInv(r)
  PROVE  RowStep(r, AgeRow(r))
  BY BudgetAssumption DEF AgeRow, RowStep, RowInv, Row

\* The insert of a run.
LEMMA CreateRowStep ==
  ASSUME NEW r \in Row, RowInv(r), r.status = "absent"
  PROVE  RowStep(r, [r EXCEPT !.status = "queued"])
  BY BudgetAssumption DEF RowStep, RowInv, Row, Status, Terminal

-----------------------------------------------------------------------------
\* A worker that is past an accepted record and wants to succeed has what the
\* finish transaction needs.
LEMMA FinishFacts ==
  ASSUME IInv, NEW w \in Workers, pc[w] = "finish"
  PROVE  /\ cur[w].job \in Jobs
         /\ Target(cur[w]) \in Terminal
         /\ cur[w].error \in Error \ {"max_attempts_exceeded"}
         /\ Target(cur[w]) = "succeeded" =>
               run[cur[w].job].result.status = "SUCCEEDED"
  BY DEF IInv, TypeOK, WorkerInv, Locals, Target, Terminal

\* How a step can change the rows: one transaction on one row, or time.
LEMMA RowChange ==
  ASSUME IInv, [Next]_vars
  PROVE  \/ run' = run
         \/ run' = [j \in Jobs |-> AgeRow(run[j])]
         \/ \E j \in Jobs : /\ run[j].status = "absent"
                            /\ run' = [run EXCEPT ![j] = [run[j] EXCEPT !.status = "queued"]]
         \/ \E j \in Jobs : run' = [run EXCEPT ![j] = ClaimRow(run[j])]
         \/ \E j \in Jobs, tok \in 0 .. MaxAttempts :
               run' = [run EXCEPT ![j] = RenewRow(run[j], tok)]
         \/ \E w \in Workers :
               /\ pc[w] = "record"
               /\ run' = [run EXCEPT ![cur[w].job] =
                             RecordRow(run[cur[w].job], cur[w].token, cur[w].result)]
         \/ \E w \in Workers :
               /\ pc[w] = "finish"
               /\ run' = [run EXCEPT ![cur[w].job] =
                             FinishRow(run[cur[w].job], cur[w].token,
                                       Target(cur[w]), cur[w].error)]
<1>1. run \in [Jobs -> Row] /\ beats \in SUBSET Beat
  BY DEF IInv, TypeOK
<1>2. ASSUME NEW j \in Jobs, CreateRun(j)
      PROVE  run' = [run EXCEPT ![j] = [run[j] EXCEPT !.status = "queued"]]
  BY <1>1, <1>2 DEF CreateRun
<1>3. ASSUME NEW w \in Workers, NEW net \in Ends, Claim(w, net)
      PROVE  /\ cur[w].job \in Jobs
             /\ run' = run \/ run' = [run EXCEPT ![cur[w].job] = ClaimRow(run[cur[w].job])]
  BY <1>3 DEF Claim, IInv, WorkerInv
<1>4. ASSUME NEW b \in beats, NEW net \in Ends, Renew(b, net)
      PROVE  /\ b.job \in Jobs /\ b.token \in 0 .. MaxAttempts
             /\ run' = run \/ run' = [run EXCEPT ![b.job] = RenewRow(run[b.job], b.token)]
  BY <1>1, <1>4, BudgetAssumption DEF Renew, Beat
<1>5. ASSUME NEW w \in Workers, NEW net \in Ends,
             Receive(w, net) \/ Handle(w, net) \/ Ack(w, net)
      PROVE  run' = run
  BY <1>5 DEF Receive, Handle, Ack
<1>6. ASSUME NEW w \in Workers, Execute(w) \/ Crash(w) \/ Restart(w)
      PROVE  run' = run
  BY <1>6 DEF Execute, Crash, Restart
<1>7. ASSUME NEW w \in Workers, NEW net \in Ends, WorkerStep(w, net)
      PROVE  \/ run' = run
             \/ Claim(w, net) \/ Record(w, net) \/ Finish(w, net)
  BY <1>5, <1>7 DEF WorkerStep
<1>8. CASE \E w \in Workers, net \in Ends : Record(w, net)
  BY <1>8 DEF Record
<1>9. CASE \E w \in Workers, net \in Ends : Finish(w, net)
  BY <1>9 DEF Finish
<1>10. CASE \E j \in Jobs : CreateRun(j)
  BY <1>2, <1>10 DEF CreateRun
<1>11. CASE \E w \in Workers, net \in Ends : Claim(w, net)
  BY <1>3, <1>11
<1>12. CASE \E b \in beats, net \in Ends : Renew(b, net)
  BY <1>4, <1>12
<1>13. CASE Tick
  BY <1>13 DEF Tick
<1>14. QED
  BY <1>6, <1>7, <1>8, <1>9, <1>10, <1>11, <1>12, <1>13 DEF Next, Enqueue, vars

\* Every step takes every row to a row that satisfies RowStep.
LEMMA RowsStep ==
  ASSUME IInv, [Next]_vars
  PROVE  /\ run' \in [Jobs -> Row]
         /\ \A j \in Jobs : RowStep(run[j], run'[j])
<1> DEFINE Goal == run' \in [Jobs -> Row] /\ \A j \in Jobs : RowStep(run[j], run'[j])
<1>1. run \in [Jobs -> Row] /\ \A j \in Jobs : RowInv(run[j])
  BY DEF IInv, TypeOK
<1>2. \A j \in Jobs : RowStep(run[j], run[j])
  BY <1>1, RowStepSame
<1>3. ASSUME NEW j \in Jobs, NEW s, RowStep(run[j], s), run' = [run EXCEPT ![j] = s]
      PROVE  Goal
  <2>1. s \in Row
    BY <1>3 DEF RowStep
  <2>2. QED
    BY <1>1, <1>2, <1>3, <2>1
<1>4. CASE run' = run
  BY <1>1, <1>2, <1>4
<1>5. CASE run' = [j \in Jobs |-> AgeRow(run[j])]
  <2>1. \A j \in Jobs : RowStep(run[j], AgeRow(run[j]))
    BY <1>1, AgeRowStep
  <2>2. \A j \in Jobs : AgeRow(run[j]) \in Row
    BY <2>1 DEF RowStep
  <2>3. QED
    BY <1>5, <2>1, <2>2
<1>6. ASSUME NEW j \in Jobs, run[j].status = "absent",
             run' = [run EXCEPT ![j] = [run[j] EXCEPT !.status = "queued"]]
      PROVE  Goal
  BY <1>1, <1>3, <1>6, CreateRowStep
<1>7. ASSUME NEW j \in Jobs, run' = [run EXCEPT ![j] = ClaimRow(run[j])]
      PROVE  Goal
  BY <1>1, <1>3, <1>7, ClaimRowStep
<1>8. ASSUME NEW j \in Jobs, NEW tok, run' = [run EXCEPT ![j] = RenewRow(run[j], tok)]
      PROVE  Goal
  BY <1>1, <1>3, <1>8, RenewRowStep
<1>9. ASSUME NEW w \in Workers, pc[w] = "record",
             run' = [run EXCEPT ![cur[w].job] =
                        RecordRow(run[cur[w].job], cur[w].token, cur[w].result)]
      PROVE  Goal
  <2>1. cur[w].job \in Jobs /\ cur[w].result \in Results
    BY <1>9 DEF IInv, WorkerInv
  <2>2. RowStep(run[cur[w].job], RecordRow(run[cur[w].job], cur[w].token, cur[w].result))
    BY <1>1, <2>1, RecordRowStep
  <2>3. QED
    BY <1>3, <1>9, <2>1, <2>2
<1>10. ASSUME NEW w \in Workers, pc[w] = "finish",
              run' = [run EXCEPT ![cur[w].job] =
                         FinishRow(run[cur[w].job], cur[w].token,
                                   Target(cur[w]), cur[w].error)]
       PROVE  Goal
  <2>1. RowStep(run[cur[w].job],
                FinishRow(run[cur[w].job], cur[w].token, Target(cur[w]), cur[w].error))
    BY <1>1, <1>10, FinishFacts, FinishRowStep
  <2>2. QED
    BY <1>3, <1>10, <2>1, FinishFacts
<1>11. QED
  BY <1>4, <1>5, <1>6, <1>7, <1>8, <1>9, <1>10, RowChange

-----------------------------------------------------------------------------
\* Moving a worker keeps the types of pc and cur.
LEMMA GotoType ==
  ASSUME pc \in [Workers -> Labels], cur \in [Workers -> Locals],
         NEW w \in Workers, NEW label \in Labels, NEW locals \in Locals,
         Goto(w, label, locals)
  PROVE  pc' \in [Workers -> Labels] /\ cur' \in [Workers -> Locals]
  BY DEF Goto

\* The locals a worker starts from, with and without a message in hand.
LEMMA FreshLocals ==
  /\ NoLocals \in Locals
  /\ \A j \in Jobs : [NoLocals EXCEPT !.job = j] \in Locals
<1>1. 0 \in 0 .. MaxAttempts /\ "none" \in Error
  BY BudgetAssumption DEF Error
<1>2. QED
  BY <1>1 DEF NoLocals, Locals

\* A worker that dies keeps the types and only loses heartbeats.
LEMMA ExitType ==
  ASSUME pc \in [Workers -> Labels], cur \in [Workers -> Locals],
         beats \in SUBSET Beat, NEW w \in Workers, Exit(w)
  PROVE  pc' \in [Workers -> Labels] /\ cur' \in [Workers -> Locals] /\ beats' \in SUBSET Beat
<1>1. "down" \in Labels
  BY DEF Labels
<1>2. pc' \in [Workers -> Labels] /\ cur' \in [Workers -> Locals]
  BY <1>1, FreshLocals, GotoType DEF Exit
<1>3. QED
  BY <1>2 DEF Exit

\* Every step keeps the types of the workers' program counters and locals.
LEMMA WorkersType ==
  ASSUME IInv, [Next]_vars
  PROVE  pc' \in [Workers -> Labels] /\ cur' \in [Workers -> Locals]
<1> DEFINE Goal == pc' \in [Workers -> Labels] /\ cur' \in [Workers -> Locals]
<1>1. /\ pc \in [Workers -> Labels] /\ cur \in [Workers -> Locals]
      /\ beats \in SUBSET Beat /\ run \in [Jobs -> Row]
  BY DEF IInv, TypeOK
<1>2. /\ {"idle", "claim", "execute", "record", "finish", "handle", "ack", "down"} \subseteq Labels
      /\ {"executor_error", "provenance_error"} \subseteq Error
  BY DEF Labels, Error
<1>3. \A w \in Workers : pc[w] \notin {"idle", "down"} => cur[w].job \in Jobs
  BY DEF IInv, WorkerInv
<1>4. ASSUME UNCHANGED <<pc, cur>>
      PROVE  Goal
  BY <1>1, <1>4
<1>5. ASSUME NEW w \in Workers, NEW net \in Ends, Receive(w, net)
      PROVE  Goal
  <2>1. PICK j \in Jobs : \/ Goto(w, "claim", [NoLocals EXCEPT !.job = j])
                          \/ Exit(w)
    BY <1>5 DEF Receive
  <2>2. QED
    BY <1>1, <1>2, <2>1, FreshLocals, GotoType, ExitType
<1>6. ASSUME NEW w \in Workers, NEW net \in Ends, Claim(w, net)
      PROVE  Goal
  <2>1. cur[w].job \in Jobs
    BY <1>3, <1>6 DEF Claim
  <2>2. CASE Goto(w, "handle", cur[w])
    BY <1>1, <1>2, <2>2, GotoType
  <2>3. CASE /\ Grants(run[cur[w].job])
             /\ Goto(w, "execute", [cur[w] EXCEPT !.token = run[cur[w].job].attempts + 1])
    <3>1. run[cur[w].job].attempts + 1 \in 0 .. MaxAttempts
      BY <1>1, <2>1, <2>3, BudgetAssumption DEF Grants, Row
    <3>2. [cur[w] EXCEPT !.token = run[cur[w].job].attempts + 1] \in Locals
      BY <1>1, <3>1 DEF Locals
    <3>3. QED
      BY <1>1, <1>2, <2>3, <3>2, GotoType
  <2>4. QED
    BY <1>6, <2>2, <2>3 DEF Claim
<1>7. ASSUME NEW w \in Workers, Execute(w)
      PROVE  Goal
  <2>1. [cur[w] EXCEPT !.error = "executor_error"] \in Locals
    BY <1>1, <1>2 DEF Locals
  <2>2. \A res \in Results : [cur[w] EXCEPT !.result = res] \in Locals
    BY <1>1 DEF Locals
  <2>3. QED
    BY <1>1, <1>2, <1>7, <2>1, <2>2, GotoType DEF Execute
<1>8. ASSUME NEW w \in Workers, NEW net \in Ends, Record(w, net)
      PROVE  Goal
  <2>1. [cur[w] EXCEPT !.error = "provenance_error"] \in Locals
    BY <1>1, <1>2 DEF Locals
  <2>2. QED
    BY <1>1, <1>2, <1>8, <2>1, GotoType DEF Record
<1>9. ASSUME NEW w \in Workers, NEW net \in Ends, Finish(w, net)
      PROVE  Goal
  <2>1. cur[w].job \in Jobs
    BY <1>3, <1>9 DEF Finish
  <2>2. QED
    BY <1>1, <1>2, <1>9, <2>1, FreshLocals, GotoType DEF Finish
<1>10. ASSUME NEW w \in Workers, NEW net \in Ends, Handle(w, net)
       PROVE  Goal
  <2>1. cur[w].job \in Jobs
    BY <1>3, <1>10 DEF Handle
  <2>2. QED
    BY <1>1, <1>2, <1>10, <2>1, FreshLocals, GotoType, ExitType DEF Handle
<1>11. ASSUME NEW w \in Workers, NEW net \in Ends, Ack(w, net)
       PROVE  Goal
  BY <1>1, <1>2, <1>11, FreshLocals, GotoType, ExitType DEF Ack
<1>12. ASSUME NEW w \in Workers, Crash(w) \/ Restart(w)
       PROVE  Goal
  BY <1>1, <1>2, <1>12, FreshLocals, GotoType, ExitType DEF Crash, Restart
<1>13. QED
  BY <1>4, <1>5, <1>6, <1>7, <1>8, <1>9, <1>10, <1>11, <1>12
     DEF Next, WorkerStep, CreateRun, Enqueue, Renew, Tick, vars

\* Every step keeps the heartbeat threads well formed: a thread starts with the
\* token of the attempt that was just granted.
LEMMA BeatsType ==
  ASSUME IInv, [Next]_vars
  PROVE  beats' \in SUBSET Beat
<1>1. beats \in SUBSET Beat /\ run \in [Jobs -> Row] /\ cur \in [Workers -> Locals]
  BY DEF IInv, TypeOK
<1>2. HeartbeatTicks \in 0 .. HeartbeatTicks
  BY FleetAssumption
<1>3. ASSUME NEW w \in Workers, NEW net \in Ends, Claim(w, net)
      PROVE  beats' \in SUBSET Beat
  <2>1. cur[w].job \in Jobs
    BY <1>3 DEF Claim, IInv, WorkerInv
  <2>2. CASE Grants(run[cur[w].job])
    <3>1. run[cur[w].job].attempts + 1 \in 1 .. MaxAttempts
      BY <1>1, <2>1, <2>2, BudgetAssumption DEF Grants, Row
    <3>2. StartBeat(w, cur[w].job, run[cur[w].job].attempts + 1) \in Beat
      BY <1>2, <2>1, <3>1 DEF StartBeat, Beat
    <3>3. QED
      BY <1>1, <1>3, <3>2 DEF Claim
  <2>3. CASE ~Grants(run[cur[w].job])
    BY <1>1, <1>3, <2>3 DEF Claim
  <2>4. QED
    BY <2>2, <2>3
<1>4. ASSUME NEW w \in Workers, NEW net \in Ends, Finish(w, net)
      PROVE  beats' \in SUBSET Beat
  <2>1. \A b \in Beat : [b EXCEPT !.stopping = TRUE] \in Beat
    BY DEF Beat
  <2>2. QED
    BY <1>1, <1>4, <2>1 DEF Finish, StopBeat
<1>5. ASSUME NEW b \in beats, NEW net \in Ends, Renew(b, net)
      PROVE  beats' \in SUBSET Beat
  <2>1. [b EXCEPT !.due = HeartbeatTicks] \in Beat
    BY <1>1, <1>2 DEF Beat
  <2>2. QED
    BY <1>1, <1>5, <2>1 DEF Renew
<1>6. CASE Tick
  <2>1. \A b \in Beat : [b EXCEPT !.due = IF b.due > 0 THEN b.due - 1 ELSE 0] \in Beat
    BY FleetAssumption DEF Beat
  <2>2. QED
    BY <1>1, <1>6, <2>1 DEF Tick
<1>7. ASSUME NEW w \in Workers, Exit(w)
      PROVE  beats' \in SUBSET Beat
  BY <1>1, <1>7 DEF Exit
<1>8. ASSUME beats' = beats
      PROVE  beats' \in SUBSET Beat
  BY <1>1, <1>8
<1>9. ASSUME NEW w \in Workers, NEW net \in Ends,
             Receive(w, net) \/ Record(w, net) \/ Handle(w, net) \/ Ack(w, net)
      PROVE  beats' \in SUBSET Beat
  BY <1>7, <1>8, <1>9 DEF Receive, Record, Handle, Ack
<1>10. ASSUME NEW w \in Workers, Execute(w) \/ Crash(w) \/ Restart(w)
       PROVE  beats' \in SUBSET Beat
  BY <1>7, <1>8, <1>10 DEF Execute, Crash, Restart
<1>11. QED
  BY <1>3, <1>4, <1>5, <1>6, <1>8, <1>9, <1>10
     DEF Next, WorkerStep, CreateRun, Enqueue, vars

\* Every step keeps the queue well formed.
LEMMA MessagesType ==
  ASSUME IInv, [Next]_vars
  PROVE  msg' \in [Jobs -> Message] /\ sent' \in Nat
<1> DEFINE Goal == msg' \in [Jobs -> Message] /\ sent' \in Nat
<1>1. msg \in [Jobs -> Message] /\ sent \in Nat
  BY DEF IInv, TypeOK
<1>2. 0 \in 0 .. VisibilityTicks /\ VisibilityTicks \in 0 .. VisibilityTicks
  BY FleetAssumption
<1>3. ASSUME UNCHANGED <<msg, sent>>
      PROVE  Goal
  BY <1>1, <1>3
<1>4. ASSUME NEW j \in Jobs, NEW net \in Ends, Enqueue(j, net)
      PROVE  Goal
  <2>1. [state |-> "queued", id |-> sent + 1, vt |-> 0] \in Message
    BY <1>1, <1>2 DEF Message
  <2>2. QED
    BY <1>1, <1>4, <2>1 DEF Enqueue
<1>5. ASSUME NEW w \in Workers, NEW net \in Ends, Receive(w, net)
      PROVE  Goal
  <2>1. \A m \in Message : [m EXCEPT !.vt = VisibilityTicks] \in Message
    BY <1>2 DEF Message
  <2>2. PICK j \in Jobs : msg' = IF Ran(net) THEN [msg EXCEPT ![j].vt = VisibilityTicks] ELSE msg
    BY <1>5 DEF Receive
  <2>3. [msg[j] EXCEPT !.vt = VisibilityTicks] \in Message
    BY <1>1, <2>1
  <2>4. [msg EXCEPT ![j].vt = VisibilityTicks] \in [Jobs -> Message]
    BY <1>1, <2>3
  <2>5. QED
    BY <1>1, <1>5, <2>2, <2>4 DEF Receive
<1>6. ASSUME NEW w \in Workers, NEW net \in Ends, Ack(w, net)
      PROVE  Goal
  <2>1. Acked \in Message
    BY <1>2 DEF Acked, Message
  <2>2. QED
    BY <1>1, <1>6, <2>1 DEF Ack
<1>7. CASE Tick
  <2>1. \A m \in Message : Age(m) \in Message
    BY FleetAssumption DEF Age, Message
  <2>2. QED
    BY <1>1, <1>7, <2>1 DEF Tick
<1>8. ASSUME NEW w \in Workers, NEW net \in Ends,
             Claim(w, net) \/ Record(w, net) \/ Finish(w, net) \/ Handle(w, net)
      PROVE  Goal
  BY <1>3, <1>8 DEF Claim, Record, Finish, Handle
<1>9. QED
  BY <1>3, <1>4, <1>5, <1>6, <1>7, <1>8
     DEF Next, WorkerStep, CreateRun, Execute, Crash, Restart, Renew, vars

\* Every step keeps the fault budget, the pace of the heartbeats and the API's
\* pending sends well formed.
LEMMA RestType ==
  ASSUME IInv, [Next]_vars
  PROVE  /\ creating' \in SUBSET Jobs /\ faults' \in 0 .. MaxFaults
         /\ pace' \in {"punctual", "late"}
<1>1. /\ creating \in SUBSET Jobs /\ faults \in 0 .. MaxFaults
      /\ pace \in {"punctual", "late"}
  BY DEF IInv, TypeOK
<1>2. faults' \in 0 .. MaxFaults
  <2>1. ASSUME NEW net, Charge(net)
        PROVE  faults' \in 0 .. MaxFaults
    BY <1>1, <2>1, FleetAssumption DEF Charge
  <2>2. ASSUME NEW w \in Workers, Crash(w)
        PROVE  faults' \in 0 .. MaxFaults
    BY <1>1, <2>2, FleetAssumption DEF Crash
  <2>3. ASSUME faults' = faults
        PROVE  faults' \in 0 .. MaxFaults
    BY <1>1, <2>3
  <2>4. ASSUME NEW w \in Workers, NEW net \in Ends, WorkerStep(w, net)
        PROVE  faults' \in 0 .. MaxFaults
    BY <2>1, <2>4 DEF WorkerStep, Receive, Claim, Record, Finish, Handle, Ack
  <2>5. QED
    BY <2>1, <2>2, <2>3, <2>4
       DEF Next, CreateRun, Enqueue, Execute, Restart, Renew, Tick, vars
<1>3. creating' \in SUBSET Jobs /\ pace' \in {"punctual", "late"}
  <2>1. CASE Tick
    BY <1>1, <2>1 DEF Tick
  <2>2. ASSUME NEW w \in Workers, NEW net \in Ends, WorkerStep(w, net)
        PROVE  creating' = creating /\ pace' = pace
    <3>1. CASE Receive(w, net) \/ Handle(w, net) \/ Ack(w, net)
      BY <3>1 DEF Receive, Handle, Ack
    <3>2. CASE Claim(w, net)
      BY <3>2 DEF Claim
    <3>3. CASE Record(w, net) \/ Finish(w, net)
      BY <3>3 DEF Record, Finish
    <3>4. QED
      BY <2>2, <3>1, <3>2, <3>3 DEF WorkerStep
  <2>3. ASSUME NEW b \in beats, NEW net \in Ends, Renew(b, net)
        PROVE  creating' = creating /\ pace' = pace
    BY <2>3 DEF Renew
  <2>4. ASSUME NEW w \in Workers, Execute(w) \/ Crash(w) \/ Restart(w)
        PROVE  creating' = creating /\ pace' = pace
    BY <2>4 DEF Execute, Crash, Restart
  <2>5. ASSUME NEW j \in Jobs, NEW net \in Ends, Enqueue(j, net)
        PROVE  creating' \in SUBSET Jobs /\ pace' = pace
    BY <1>1, <2>5 DEF Enqueue
  <2>6. ASSUME NEW j \in Jobs, CreateRun(j)
        PROVE  creating' \in SUBSET Jobs /\ pace' = pace
    BY <1>1, <2>6 DEF CreateRun
  <2>7. CASE UNCHANGED vars
    BY <1>1, <2>7 DEF vars
  <2>8. QED
    BY <1>1, <2>1, <2>2, <2>3, <2>4, <2>5, <2>6, <2>7 DEF Next
<1>4. QED
  BY <1>2, <1>3

\* So every step keeps the types.
LEMMA TypeStep ==
  ASSUME IInv, [Next]_vars
  PROVE  TypeOK'
  BY RowsStep, WorkersType, BeatsType, MessagesType, RestType DEF TypeOK

-----------------------------------------------------------------------------
\* Moving one worker leaves the others where they are.
LEMMA GotoFacts ==
  ASSUME IInv, NEW w \in Workers, NEW label, NEW locals, Goto(w, label, locals)
  PROVE  /\ pc'[w] = label /\ cur'[w] = locals
         /\ \A v \in Workers \ {w} : pc'[v] = pc[v] /\ cur'[v] = cur[v]
  BY DEF Goto, IInv, TypeOK

\* What a worker knows survives every step that is not its own: the rows only
\* grow, so no other worker, heartbeat or tick can take it away.
LEMMA OthersKeepWorkerInv ==
  ASSUME IInv, [Next]_vars, NEW v \in Workers, pc'[v] = pc[v], cur'[v] = cur[v]
  PROVE  WorkerInv(v)'
<1>1. WorkerInv(v) /\ cur[v] \in Locals /\ run \in [Jobs -> Row]
  BY DEF IInv, TypeOK
<1>2. pc[v] \in Working \cup {"ack"} =>
         /\ cur[v].job \in Jobs
         /\ run[cur[v].job] \in Row
         /\ RowStep(run[cur[v].job], run'[cur[v].job])
  <2>1. "idle" \notin Working \cup {"ack"} /\ "down" \notin Working \cup {"ack"}
    BY DEF Working
  <2>2. QED
    BY <1>1, <2>1, RowsStep DEF WorkerInv
<1>3. pc[v] \in Working => cur[v].token <= run'[cur[v].job].attempts
  BY <1>1, <1>2, BudgetAssumption DEF RowStep, WorkerInv, Row, Locals
<1>4. pc[v] = "finish" /\ cur[v].error = "none" => run'[cur[v].job].result = cur[v].result
  BY <1>1, <1>2 DEF RowStep, WorkerInv, Working
<1>5. pc[v] = "ack" => run'[cur[v].job].status \in Terminal
  BY <1>1, <1>2 DEF RowStep, WorkerInv
<1>6. QED
  BY <1>1, <1>3, <1>4, <1>5 DEF WorkerInv

\* A worker that moves to a place where it holds nothing keeps its invariant.
LEMMA HoldsNothing ==
  ASSUME NEW w \in Workers, cur'[w].token = 0, cur'[w].error = "none",
         \/ pc'[w] \in {"idle", "down"}
         \/ pc'[w] \in {"claim", "handle"} /\ cur'[w].job \in Jobs
         \/ pc'[w] = "ack" /\ cur'[w].job \in Jobs /\ run'[cur'[w].job].status \in Terminal
  PROVE  WorkerInv(w)'
  BY DEF WorkerInv, Working

\* The worker that acts in a step keeps its invariant.
LEMMA ActorKeepsWorkerInv ==
  ASSUME IInv, [Next]_vars, NEW w \in Workers,
         \/ \E net \in Ends : WorkerStep(w, net)
         \/ Execute(w) \/ Crash(w) \/ Restart(w)
  PROVE  WorkerInv(w)'
<1>1. WorkerInv(w) /\ cur[w] \in Locals /\ run \in [Jobs -> Row]
  BY DEF IInv, TypeOK
<1>2. \A j : [NoLocals EXCEPT !.job = j].token = 0 /\ [NoLocals EXCEPT !.job = j].error = "none"
             /\ [NoLocals EXCEPT !.job = j].job = j
  BY DEF NoLocals
<1>3. ASSUME Exit(w) \/ Goto(w, "idle", NoLocals)
      PROVE  WorkerInv(w)'
  BY <1>3, GotoFacts, HoldsNothing DEF Exit, NoLocals
<1>4. ASSUME NEW net \in Ends, Receive(w, net)
      PROVE  WorkerInv(w)'
  <2>1. PICK j \in Jobs : Goto(w, "claim", [NoLocals EXCEPT !.job = j]) \/ Exit(w)
    BY <1>4 DEF Receive
  <2>2. CASE Goto(w, "claim", [NoLocals EXCEPT !.job = j])
    <3>1. pc'[w] = "claim" /\ cur'[w] = [NoLocals EXCEPT !.job = j]
      BY <2>2, GotoFacts
    <3>2. cur'[w].token = 0 /\ cur'[w].error = "none" /\ cur'[w].job \in Jobs
      BY <1>2, <3>1
    <3>3. QED
      BY <3>1, <3>2, HoldsNothing
  <2>3. QED
    BY <1>3, <2>1, <2>2
<1>5. ASSUME NEW net \in Ends, Claim(w, net)
      PROVE  WorkerInv(w)'
  <2> DEFINE j == cur[w].job
  <2>1. j \in Jobs /\ cur[w].token = 0 /\ cur[w].error = "none" /\ pc[w] = "claim"
    BY <1>1, <1>5 DEF Claim, WorkerInv, Working
  <2>2. CASE net = "ok" /\ Grants(run[j]) /\ RowDecodes
    <3>1. run'[j] = Granted(run[j])
      BY <1>1, <1>5, <2>1, <2>2 DEF Claim, Ran, ClaimRow
    <3>2. run[j].attempts \in Nat
      BY <1>1, <2>1, BudgetAssumption DEF Row
    <3>3. run'[j].attempts = run[j].attempts + 1
      BY <1>1, <2>1, <3>1 DEF Granted, Row
    <3>4. pc'[w] = "execute" /\ cur'[w] = [cur[w] EXCEPT !.token = run[j].attempts + 1]
      BY <1>5, <2>2, GotoFacts DEF Claim
    <3>5. /\ cur'[w].token = run[j].attempts + 1
          /\ cur'[w].job = j
          /\ cur'[w].error = "none"
      BY <1>1, <2>1, <3>4 DEF Locals
    <3>6. QED
      BY <2>1, <3>2, <3>3, <3>4, <3>5 DEF WorkerInv, Working
  <2>3. CASE ~(net = "ok" /\ Grants(run[j]) /\ RowDecodes)
    BY <1>5, <2>1, <2>3, GotoFacts, HoldsNothing DEF Claim
  <2>4. QED
    BY <2>2, <2>3
<1>6. CASE Execute(w)
  <2>1. /\ cur[w].job \in Jobs /\ cur[w].token > 0
        /\ cur[w].token <= run'[cur[w].job].attempts /\ cur[w].error = "none"
    BY <1>1, <1>6 DEF Execute, WorkerInv, Working
  <2>2. ASSUME NEW res \in Results, Goto(w, "record", [cur[w] EXCEPT !.result = res])
        PROVE  WorkerInv(w)'
    BY <1>1, <2>1, <2>2, GotoFacts DEF WorkerInv, Working, Locals
  <2>3. ASSUME Goto(w, "finish", [cur[w] EXCEPT !.error = "executor_error"])
        PROVE  WorkerInv(w)'
    BY <1>1, <2>1, <2>3, GotoFacts DEF WorkerInv, Working, Locals
  <2>4. QED
    BY <1>6, <2>2, <2>3 DEF Execute
<1>7. ASSUME NEW net \in Ends, Record(w, net)
      PROVE  WorkerInv(w)'
  <2> DEFINE j == cur[w].job
  <2>1. /\ j \in Jobs /\ cur[w].token > 0 /\ cur[w].token <= run[j].attempts
        /\ cur[w].error = "none" /\ cur[w].result \in Results
    BY <1>1, <1>7 DEF Record, WorkerInv, Working
  <2>2. run[j] \in Row /\ run'[j] \in Row /\ run[j].attempts <= run'[j].attempts
    BY <1>1, <2>1, RowsStep DEF RowStep
  <2>3. cur[w].token <= run'[j].attempts
    BY <1>1, <2>1, <2>2, BudgetAssumption DEF Row, Locals
  <2>4. CASE net = "ok" /\ Accepts(run[j], cur[w].token, cur[w].result)
    <3>1. run'[j].result = cur[w].result
      BY <1>1, <1>7, <2>1, <2>2, <2>4 DEF Record, Ran, RecordRow, Row
    <3>2. pc'[w] = "finish" /\ cur'[w] = cur[w]
      BY <1>7, <2>4, GotoFacts DEF Record
    <3>3. QED
      BY <2>1, <2>3, <3>1, <3>2 DEF WorkerInv, Working
  <2>5. CASE ~(net = "ok" /\ Accepts(run[j], cur[w].token, cur[w].result))
    <3>1. pc'[w] = "finish" /\ cur'[w] = [cur[w] EXCEPT !.error = "provenance_error"]
      BY <1>7, <2>5, GotoFacts DEF Record
    <3>2. QED
      BY <1>1, <2>1, <2>3, <3>1 DEF WorkerInv, Working, Locals
  <2>6. QED
    BY <2>4, <2>5
<1>8. ASSUME NEW net \in Ends, Finish(w, net)
      PROVE  WorkerInv(w)'
  <2> DEFINE j == cur[w].job
  <2>1. j \in Jobs /\ Target(cur[w]) \in Terminal /\ pc[w] = "finish"
    BY <1>8, FinishFacts DEF Finish
  <2>2. CASE net = "ok" /\ HoldsLease(run[j], cur[w].token) /\ cur[w].error = "none"
    <3>1. run'[j] = Closed(run[j], Target(cur[w]), cur[w].error)
      BY <1>1, <1>8, <2>1, <2>2 DEF Finish, Ran, FinishRow
    <3>2. run'[j].status \in Terminal
      BY <1>1, <2>1, <3>1 DEF Closed, Row
    <3>3. pc'[w] = "ack" /\ cur'[w] = [NoLocals EXCEPT !.job = j]
      BY <1>8, <2>2, GotoFacts DEF Finish
    <3>4. QED
      BY <1>2, <2>1, <3>2, <3>3, HoldsNothing
  <2>3. CASE ~(net = "ok" /\ HoldsLease(run[j], cur[w].token) /\ cur[w].error = "none")
    <3>1. pc'[w] = "handle" /\ cur'[w] = [NoLocals EXCEPT !.job = j]
      BY <1>8, <2>3, GotoFacts DEF Finish
    <3>2. QED
      BY <1>2, <2>1, <3>1, HoldsNothing
  <2>4. QED
    BY <2>2, <2>3
<1>9. ASSUME NEW net \in Ends, Handle(w, net)
      PROVE  WorkerInv(w)'
  <2>1. cur[w].job \in Jobs
    BY <1>1, <1>9 DEF Handle, WorkerInv
  <2>2. CASE Goto(w, "ack", [NoLocals EXCEPT !.job = cur[w].job])
             /\ run'[cur[w].job].status \in Terminal
    <3>1. pc'[w] = "ack" /\ cur'[w] = [NoLocals EXCEPT !.job = cur[w].job]
      BY <2>2, GotoFacts
    <3>2. cur'[w].token = 0 /\ cur'[w].error = "none" /\ cur'[w].job = cur[w].job
      BY <1>2, <3>1
    <3>3. QED
      BY <2>1, <2>2, <3>1, <3>2, HoldsNothing
  <2>3. QED
    BY <1>3, <1>9, <2>2 DEF Handle, Ackable
<1>10. ASSUME NEW net \in Ends, Ack(w, net)
       PROVE  WorkerInv(w)'
  BY <1>3, <1>10 DEF Ack
<1>11. CASE Crash(w) \/ Restart(w)
  BY <1>3, <1>11 DEF Crash, Restart
<1>12. QED
  BY <1>4, <1>5, <1>6, <1>7, <1>8, <1>9, <1>10, <1>11 DEF WorkerStep

\* At most one worker moves in a step.
LEMMA OneWorkerMoves ==
  ASSUME IInv, [Next]_vars
  PROVE  \/ UNCHANGED <<pc, cur>>
         \/ \E w \in Workers :
               /\ \/ \E net \in Ends : WorkerStep(w, net)
                  \/ Execute(w) \/ Crash(w) \/ Restart(w)
               /\ \A v \in Workers \ {w} : pc'[v] = pc[v] /\ cur'[v] = cur[v]
<1> DEFINE Alone(w) == \A v \in Workers \ {w} : pc'[v] = pc[v] /\ cur'[v] = cur[v]
<1>1. ASSUME NEW w \in Workers, NEW label, NEW locals, Goto(w, label, locals)
      PROVE  Alone(w)
  BY <1>1, GotoFacts
<1>2. ASSUME NEW w \in Workers, Exit(w)
      PROVE  Alone(w)
  BY <1>1, <1>2 DEF Exit
<1>3. ASSUME NEW w \in Workers, NEW net \in Ends, WorkerStep(w, net)
      PROVE  Alone(w)
  <2> HIDE DEF Alone
  <2>1. CASE Receive(w, net) \/ Handle(w, net) \/ Ack(w, net)
    BY <1>1, <1>2, <2>1 DEF Receive, Handle, Ack
  <2>2. CASE Claim(w, net) \/ Record(w, net) \/ Finish(w, net)
    BY <1>1, <2>2 DEF Claim, Record, Finish
  <2>3. QED
    BY <1>3, <2>1, <2>2 DEF WorkerStep
<1>4. ASSUME NEW w \in Workers, Execute(w) \/ Crash(w) \/ Restart(w)
      PROVE  Alone(w)
  <2> HIDE DEF Alone
  <2>1. QED
    BY <1>1, <1>2, <1>4 DEF Execute, Crash, Restart
<1>5. QED
  BY <1>3, <1>4 DEF Next, CreateRun, Enqueue, Renew, Tick, vars

\* Every step keeps what every worker knows.
LEMMA WorkersStep ==
  ASSUME IInv, [Next]_vars
  PROVE  \A v \in Workers : WorkerInv(v)'
  BY OneWorkerMoves, ActorKeepsWorkerInv, OthersKeepWorkerInv

\* A worker that works after a step either worked before it, on the same run
\* with the same token, or was granted a token nobody had.
LEMMA TokenOrigin ==
  ASSUME IInv, [Next]_vars, NEW v \in Workers, pc'[v] \in Working
  PROVE  \/ pc[v] \in Working /\ cur'[v].job = cur[v].job /\ cur'[v].token = cur[v].token
         \/ cur'[v].job \in Jobs /\ cur'[v].token = run[cur'[v].job].attempts + 1
<1> DEFINE Goal == \/ pc[v] \in Working /\ cur'[v].job = cur[v].job
                                        /\ cur'[v].token = cur[v].token
                   \/ cur'[v].job \in Jobs /\ cur'[v].token = run[cur'[v].job].attempts + 1
<1>1. WorkerInv(v) /\ cur[v] \in Locals
  BY DEF IInv, TypeOK
<1>2. ASSUME pc'[v] = pc[v], cur'[v] = cur[v]
      PROVE  Goal
  BY <1>2
<1>3. ASSUME NEW label, NEW locals, Goto(v, label, locals)
      PROVE  label \in Working /\ cur'[v] = locals
  BY <1>3, GotoFacts
<1>4. ~Exit(v) /\ ~Goto(v, "idle", NoLocals)
  BY <1>3 DEF Exit, Working
<1>5. ASSUME NEW net \in Ends, WorkerStep(v, net)
      PROVE  Goal
  <2>1. ~Receive(v, net) /\ ~Handle(v, net) /\ ~Ack(v, net)
    <3>1. "claim" \notin Working /\ "ack" \notin Working
      BY DEF Working
    <3>2. ~Receive(v, net)
      BY <1>3, <1>4, <3>1 DEF Receive
    <3>3. ~Handle(v, net)
      BY <1>3, <1>4, <3>1 DEF Handle
    <3>4. ~Ack(v, net)
      BY <1>4 DEF Ack
    <3>5. QED
      BY <3>2, <3>3, <3>4
  <2>2. ~Finish(v, net)
    BY <1>3 DEF Finish, Working
  <2>3. CASE Claim(v, net)
    <3>1. cur[v].job \in Jobs
      BY <1>1, <2>3 DEF Claim, WorkerInv
    <3>2. cur'[v] = [cur[v] EXCEPT !.token = run[cur[v].job].attempts + 1]
      BY <1>3, <2>3 DEF Claim, Working
    <3>3. QED
      BY <1>1, <3>1, <3>2 DEF Locals
  <2>4. CASE Record(v, net)
    <3>1. pc[v] \in Working
      BY <2>4 DEF Record, Working
    <3>2. cur'[v] = cur[v] \/ cur'[v] = [cur[v] EXCEPT !.error = "provenance_error"]
      BY <1>3, <2>4 DEF Record
    <3>3. QED
      BY <1>1, <3>1, <3>2 DEF Locals
  <2>5. QED
    BY <1>5, <2>1, <2>2, <2>3, <2>4 DEF WorkerStep
<1>6. CASE Execute(v)
  <2>1. pc[v] \in Working
    BY <1>6 DEF Execute, Working
  <2>2. \/ \E res \in Results : cur'[v] = [cur[v] EXCEPT !.result = res]
        \/ cur'[v] = [cur[v] EXCEPT !.error = "executor_error"]
    BY <1>3, <1>6 DEF Execute
  <2>3. QED
    BY <1>1, <2>1, <2>2 DEF Locals
<1>7. ~Crash(v) /\ ~Restart(v)
  BY <1>4 DEF Crash, Restart
<1>8. QED
  BY <1>2, <1>5, <1>6, <1>7, OneWorkerMoves

\* A granted token is one nobody had, so tokens stay unique.
LEMMA TokensStep ==
  ASSUME IInv, [Next]_vars
  PROVE  TokensUnique'
<1>1. SUFFICES ASSUME NEW v \in Workers, NEW w \in Workers,
                      pc'[v] \in Working, pc'[w] \in Working,
                      cur'[v].job = cur'[w].job, cur'[v].token = cur'[w].token,
                      pc'[w] = pc[w], cur'[w] = cur[w], v # w
               PROVE  FALSE
  BY OneWorkerMoves DEF TokensUnique
<1>2. cur[w] \in Locals /\ WorkerInv(w) /\ run \in [Jobs -> Row] /\ TokensUnique
  BY DEF IInv, TypeOK
<1>3. pc[w] \in Working
  BY <1>1
<1>4. cur[w].job \in Jobs /\ cur[w].token <= run[cur[w].job].attempts
  BY <1>2, <1>3 DEF WorkerInv, Working
<1>5. cur[w].token # run[cur[w].job].attempts + 1
  <2>1. cur[w].token \in Nat /\ run[cur[w].job].attempts \in Nat
    BY <1>2, <1>4, BudgetAssumption DEF Locals, Row
  <2>2. QED
    BY <1>4, <2>1
<1>6. pc[v] \in Working /\ cur[v].job = cur[w].job /\ cur[v].token = cur[w].token
  BY <1>1, <1>5, TokenOrigin
<1>7. QED
  BY <1>1, <1>2, <1>3, <1>6 DEF TokensUnique

\* A message is acked only by a worker that saw its run terminal.
LEMMA AckedStep ==
  ASSUME IInv, [Next]_vars
  PROVE  AckedRunIsFinal'
<1>1. SUFFICES ASSUME NEW j \in Jobs, msg'[j].state = "acked"
               PROVE  run'[j].status \in Terminal
  BY DEF AckedRunIsFinal
<1>2. msg \in [Jobs -> Message] /\ RowStep(run[j], run'[j]) /\ AckedRunIsFinal
  BY RowsStep DEF IInv, TypeOK
<1>3. ASSUME msg[j].state = "acked"
      PROVE  run'[j].status \in Terminal
  BY <1>2, <1>3 DEF AckedRunIsFinal, RowStep
<1>4. ASSUME NEW w \in Workers, NEW net \in Ends, Ack(w, net), msg[j].state # "acked"
      PROVE  run'[j].status \in Terminal
  <2>1. cur[w].job = j
    BY <1>1, <1>2, <1>4 DEF Ack
  <2>2. QED
    BY <1>2, <1>4, <2>1 DEF Ack, IInv, WorkerInv, RowStep
<1>5. ASSUME NEW k \in Jobs, NEW net \in Ends, Enqueue(k, net)
      PROVE  msg[j].state = "acked"
  BY <1>1, <1>2, <1>5 DEF Enqueue
<1>6. ASSUME NEW w \in Workers, NEW net \in Ends, Receive(w, net)
      PROVE  msg[j].state = "acked"
  <2>1. PICK k \in Jobs : msg' = IF Ran(net) THEN [msg EXCEPT ![k].vt = VisibilityTicks] ELSE msg
    BY <1>6 DEF Receive
  <2>2. QED
    BY <1>1, <1>2, <2>1 DEF Message
<1>7. ASSUME Tick
      PROVE  msg[j].state = "acked"
  BY <1>1, <1>2, <1>7 DEF Tick, Age, Message
<1>8. ASSUME NEW w \in Workers, NEW net \in Ends,
             Claim(w, net) \/ Record(w, net) \/ Finish(w, net) \/ Handle(w, net)
      PROVE  msg[j].state = "acked"
  BY <1>1, <1>8 DEF Claim, Record, Finish, Handle
<1>9. QED
  BY <1>1, <1>3, <1>4, <1>5, <1>6, <1>7, <1>8
     DEF Next, WorkerStep, CreateRun, Execute, Crash, Restart, Renew, vars

-----------------------------------------------------------------------------
\* The inductive invariant holds of every behaviour of the worker pipeline.
THEOREM InvariantHolds == Spec => []IInv
<1>1. Init => IInv
  <2>1. SUFFICES ASSUME Init
                 PROVE  IInv
    OBVIOUS
  <2>2. AbsentRow \in Row /\ Unsent \in Message /\ NoLocals \in Locals /\ "idle" \in Labels
    <3>1. 0 \in 0 .. MaxAttempts /\ 0 \in 0 .. LeaseTicks /\ 0 \in 0 .. VisibilityTicks
      BY BudgetAssumption, FleetAssumption
    <3>2. "absent" \in Status /\ "none" \in Error
      BY DEF Status, Error
    <3>3. QED
      BY <3>1, <3>2, FreshLocals DEF AbsentRow, Row, Unsent, Message, Labels
  <2>3. TypeOK
    BY <2>1, <2>2, FleetAssumption DEF Init, TypeOK
  <2>4. \A j \in Jobs : RowInv(run[j])
    BY <2>1 DEF Init, RowInv, AbsentRow
  <2>5. \A w \in Workers : WorkerInv(w)
    BY <2>1 DEF Init, WorkerInv, Working, NoLocals
  <2>6. TokensUnique
    BY <2>1 DEF Init, TokensUnique, Working
  <2>7. AckedRunIsFinal
    BY <2>1 DEF Init, AckedRunIsFinal, Unsent
  <2>8. QED
    BY <2>3, <2>4, <2>5, <2>6, <2>7 DEF IInv
<1>2. IInv /\ [Next]_vars => IInv'
  <2>1. SUFFICES ASSUME IInv, [Next]_vars
                 PROVE  IInv'
    OBVIOUS
  <2>2. \A j \in Jobs : RowInv(run'[j])
    BY <2>1, RowsStep DEF RowStep
  <2>3. QED
    BY <2>1, <2>2, TypeStep, WorkersStep, TokensStep, AckedStep DEF IInv
<1>3. QED
  BY <1>1, <1>2, PTL DEF Spec

\* Every variable keeps its type, for every size of the fleet.
THEOREM TypeHolds == Spec => []TypeOK
<1>1. IInv => TypeOK
  BY DEF IInv
<1>2. QED
  BY <1>1, InvariantHolds, PTL

\* No interleaving of workers, expired leases, lost replies and crashes lets a
\* run succeed without a recorded result that says SUCCEEDED.
THEOREM SucceededHasResultHolds == Spec => []SucceededHasResult
<1>1. IInv => SucceededHasResult
  BY DEF IInv, RowInv, SucceededHasResult
<1>2. QED
  BY <1>1, InvariantHolds, PTL

\* No run loses its message before it is terminal.
THEOREM AckedRunIsFinalHolds == Spec => []AckedRunIsFinal
<1>1. IInv => AckedRunIsFinal
  BY DEF IInv
<1>2. QED
  BY <1>1, InvariantHolds, PTL

\* However many workers execute a run at once, one of them holds its lease.
THEOREM OneLeaseHolderHolds == Spec => []OneLeaseHolder
<1>1. IInv => OneLeaseHolder
  BY DEF IInv, TokensUnique, OneLeaseHolder, HoldsLease
<1>2. QED
  BY <1>1, InvariantHolds, PTL

\* A run is given up as max_attempts_exceeded only with its budget used up.
THEOREM ExhaustedHolds == Spec => []ExhaustedMeansAllAttemptsUsed
<1>1. IInv => ExhaustedMeansAllAttemptsUsed
  <2>1. \A j \in Jobs : RowInv(run[j]) /\ run[j].error = "max_attempts_exceeded" =>
           /\ run[j].status = "failed" /\ run[j].attempts = MaxAttempts
           /\ \A tok : ~HoldsLease(run[j], tok)
    BY DEF RowInv, HoldsLease
  <2>2. QED
    BY <2>1 DEF IInv, ExhaustedMeansAllAttemptsUsed
<1>2. QED
  BY <1>1, InvariantHolds, PTL

-----------------------------------------------------------------------------
\* A row becomes succeeded by a finish under the lease of its current attempt,
\* whose worker computed exactly the recorded result.
LEMMA SucceedStep ==
  ASSUME IInv, [Next]_vars, NEW j \in Jobs,
         run[j].status # "succeeded", run'[j].status = "succeeded"
  PROVE  \E w \in Workers : /\ cur[w].job = j
                            /\ cur[w].token = run[j].attempts
                            /\ cur[w].result = run[j].result
<1>1. run \in [Jobs -> Row] /\ RowInv(run[j]) /\ run' # run
  BY DEF IInv, TypeOK
<1>2. run' # [i \in Jobs |-> AgeRow(run[i])]
  BY <1>1 DEF AgeRow, Row
<1>3. \A i \in Jobs : run' # [run EXCEPT ![i] = [run[i] EXCEPT !.status = "queued"]]
  BY <1>1 DEF Row
<1>4. \A i \in Jobs : run' # [run EXCEPT ![i] = ClaimRow(run[i])]
  BY <1>1 DEF ClaimRow, Granted, Closed, Row
<1>5. \A i \in Jobs, tok \in 0 .. MaxAttempts :
         run' # [run EXCEPT ![i] = RenewRow(run[i], tok)]
  BY <1>1 DEF RenewRow, Row
<1>6. \A w \in Workers : run' # [run EXCEPT ![cur[w].job] =
                             RecordRow(run[cur[w].job], cur[w].token, cur[w].result)]
  BY <1>1 DEF RecordRow, Row
<1>7. PICK w \in Workers :
         /\ pc[w] = "finish"
         /\ run' = [run EXCEPT ![cur[w].job] =
                       FinishRow(run[cur[w].job], cur[w].token, Target(cur[w]), cur[w].error)]
  BY <1>1, <1>2, <1>3, <1>4, <1>5, <1>6, RowChange
<1>8. cur[w].job = j
  BY <1>1, <1>7
<1>9. run'[j] = FinishRow(run[j], cur[w].token, Target(cur[w]), cur[w].error)
  BY <1>1, <1>7, <1>8
<1>10. HoldsLease(run[j], cur[w].token) /\ Target(cur[w]) = "succeeded"
  BY <1>1, <1>9 DEF FinishRow, Closed, Row
<1>11. cur[w].token = run[j].attempts
  BY <1>1, <1>10 DEF HoldsLease, RowInv
<1>12. cur[w].error = "none"
  BY <1>10 DEF Target
<1>13. cur[w].result = run[j].result
  BY <1>7, <1>8, <1>12 DEF IInv, WorkerInv
<1>14. QED
  BY <1>8, <1>11, <1>13

\* A run succeeds only on the result its current attempt computed.
THEOREM SucceedsOnOwnResultHolds == Spec => SucceedsOnOwnResult
<1>1. IInv /\ [Next]_vars =>
        [\A j \in Jobs :
          run[j].status # "succeeded" /\ run'[j].status = "succeeded" =>
             \E w \in Workers : /\ cur[w].job = j
                                /\ cur[w].token = run[j].attempts
                                /\ cur[w].result = run[j].result]_vars
  BY SucceedStep
<1>2. QED
  BY <1>1, InvariantHolds, PTL DEF Spec, SucceedsOnOwnResult

-----------------------------------------------------------------------------
\* Changing one row changes one entry of each function the API shows.
LEMMA OneRowShown ==
  ASSUME run \in [Jobs -> Row], NEW j \in Jobs, NEW s, run' = [run EXCEPT ![j] = s]
  PROVE  /\ [i \in Jobs |-> run'[i].status] =
               [[i \in Jobs |-> run[i].status] EXCEPT ![j] = s.status]
         /\ [i \in Jobs |-> run'[i].attempts] =
               [[i \in Jobs |-> run[i].attempts] EXCEPT ![j] = s.attempts]
         /\ [i \in Jobs |-> run'[i].result] =
               [[i \in Jobs |-> run[i].result] EXCEPT ![j] = s.result]
  OBVIOUS

\* A transaction that moves neither status, attempts nor result shows nothing.
LEMMA HiddenRowStep ==
  ASSUME run \in [Jobs -> Row], run' \in [Jobs -> Row],
         \A j \in Jobs : /\ run'[j].status = run[j].status
                         /\ run'[j].attempts = run[j].attempts
                         /\ run'[j].result = run[j].result
  PROVE  UNCHANGED Lifecycle!vars
  BY DEF Lifecycle!vars

\* Every step of the pipeline is a step of the abstract lifecycle or hidden.
LEMMA LifecycleStep ==
  ASSUME IInv, [Next]_vars
  PROVE  [Lifecycle!Next]_(Lifecycle!vars)
<1> DEFINE Goal == Lifecycle!Next \/ UNCHANGED Lifecycle!vars
<1>1. /\ run \in [Jobs -> Row] /\ run' \in [Jobs -> Row]
      /\ \A j \in Jobs : RowInv(run[j])
  BY RowsStep DEF IInv, TypeOK
<1>2. CASE run' = run
  BY <1>1, <1>2, HiddenRowStep
<1>3. CASE run' = [j \in Jobs |-> AgeRow(run[j])]
  BY <1>1, <1>3, HiddenRowStep DEF AgeRow, Row
<1>4. ASSUME NEW j \in Jobs, run[j].status = "absent",
             run' = [run EXCEPT ![j] = [run[j] EXCEPT !.status = "queued"]]
      PROVE  Goal
  <2> DEFINE s == [run[j] EXCEPT !.status = "queued"]
  <2>1. s.status = "queued" /\ s.attempts = run[j].attempts /\ s.result = run[j].result
    BY <1>1 DEF Row
  <2>2. Lifecycle!Create(j)
    BY <1>1, <1>4, <2>1, OneRowShown DEF Lifecycle!Create
  <2>3. QED
    BY <2>2 DEF Lifecycle!Next
<1>5. ASSUME NEW j \in Jobs, run' = [run EXCEPT ![j] = ClaimRow(run[j])]
      PROVE  Goal
  <2>1. CASE Grants(run[j])
    <3> DEFINE s == Granted(run[j])
    <3>1. /\ s.status = "running" /\ s.attempts = run[j].attempts + 1
          /\ s.result = run[j].result /\ run' = [run EXCEPT ![j] = s]
      BY <1>1, <1>5, <2>1 DEF ClaimRow, Granted, Row
    <3>2. run[j].status \in {"queued", "running"} /\ run[j].attempts < MaxAttempts
      BY <2>1 DEF Grants, Claimable
    <3> HIDE DEF s
    <3>3. Lifecycle!Attempt(j)
      BY <1>1, <3>1, <3>2, OneRowShown DEF Lifecycle!Attempt
    <3>4. QED
      BY <3>3 DEF Lifecycle!Next
  <2>2. CASE ~Grants(run[j]) /\ Claimable(run[j])
    <3> DEFINE s == Closed(run[j], "failed", "max_attempts_exceeded")
    <3>1. /\ s.status = "failed" /\ s.attempts = run[j].attempts
          /\ s.result = run[j].result /\ run' = [run EXCEPT ![j] = s]
      BY <1>1, <1>5, <2>2 DEF ClaimRow, Closed, Row
    <3>2. run[j].status = "running"
      BY <1>1, <2>2, BudgetAssumption DEF Grants, Claimable, RowInv
    <3> HIDE DEF s
    <3>3. Lifecycle!Fail(j)
      BY <1>1, <3>1, <3>2, OneRowShown DEF Lifecycle!Fail
    <3>4. QED
      BY <3>3 DEF Lifecycle!Next
  <2>3. CASE ~Claimable(run[j])
    <3>1. run' = run
      BY <1>1, <1>5, <2>3 DEF ClaimRow, Grants
    <3>2. QED
      BY <1>2, <3>1
  <2>4. QED
    BY <2>1, <2>2, <2>3
<1>6. ASSUME NEW j \in Jobs, NEW tok, run' = [run EXCEPT ![j] = RenewRow(run[j], tok)]
      PROVE  Goal
  BY <1>1, <1>6, HiddenRowStep DEF RenewRow, Row
<1>7. ASSUME NEW w \in Workers, pc[w] = "record",
             run' = [run EXCEPT ![cur[w].job] =
                        RecordRow(run[cur[w].job], cur[w].token, cur[w].result)]
      PROVE  Goal
  <2>1. PICK j \in Jobs, res \in Results : j = cur[w].job /\ res = cur[w].result
    BY <1>7 DEF IInv, WorkerInv
  <2> DEFINE s == [run[j] EXCEPT !.result = res]
  <2>2. CASE Accepts(run[j], cur[w].token, res) /\ run[j].result = NoResult
    <3>1. /\ s.status = run[j].status /\ s.attempts = run[j].attempts
          /\ s.result = res /\ run' = [run EXCEPT ![j] = s]
      BY <1>1, <1>7, <2>1, <2>2 DEF RecordRow, Row
    <3>2. run[j].status = "running"
      BY <2>2 DEF Accepts, LiveLease, HoldsLease
    <3> HIDE DEF s
    <3>3. Lifecycle!Record(j, res)
      BY <1>1, <2>1, <2>2, <3>1, <3>2, OneRowShown DEF Lifecycle!Record
    <3>4. QED
      BY <2>1, <3>3 DEF Lifecycle!Next
  <2>3. CASE ~(Accepts(run[j], cur[w].token, res) /\ run[j].result = NoResult)
    <3>1. run' = run
      BY <1>1, <1>7, <2>1, <2>3 DEF RecordRow, Accepts, Row
    <3>2. QED
      BY <1>2, <3>1
  <2>4. QED
    BY <2>2, <2>3
<1>8. ASSUME NEW w \in Workers, pc[w] = "finish",
             run' = [run EXCEPT ![cur[w].job] =
                        FinishRow(run[cur[w].job], cur[w].token,
                                  Target(cur[w]), cur[w].error)]
      PROVE  Goal
  <2>1. PICK j \in Jobs :
           /\ j = cur[w].job /\ Target(cur[w]) \in Terminal
           /\ Target(cur[w]) = "succeeded" => run[j].result.status = "SUCCEEDED"
    BY <1>8, FinishFacts
  <2> DEFINE s == Closed(run[j], Target(cur[w]), cur[w].error)
  <2>2. CASE HoldsLease(run[j], cur[w].token)
    <3>1. /\ s.status = Target(cur[w]) /\ s.attempts = run[j].attempts
          /\ s.result = run[j].result /\ run' = [run EXCEPT ![j] = s]
      BY <1>1, <1>8, <2>1, <2>2 DEF FinishRow, Closed, Row
    <3>2. run[j].status = "running"
      BY <2>2 DEF HoldsLease
    <3> HIDE DEF s
    <3>3. CASE Target(cur[w]) = "succeeded"
      <4>1. Lifecycle!Succeed(j)
        BY <1>1, <2>1, <3>1, <3>2, <3>3, OneRowShown DEF Lifecycle!Succeed
      <4>2. QED
        BY <2>1, <4>1 DEF Lifecycle!Next
    <3>4. CASE Target(cur[w]) = "failed"
      <4>1. Lifecycle!Fail(j)
        BY <1>1, <2>1, <3>1, <3>2, <3>4, OneRowShown DEF Lifecycle!Fail
      <4>2. QED
        BY <2>1, <4>1 DEF Lifecycle!Next
    <3>5. QED
      BY <2>1, <3>3, <3>4 DEF Terminal
  <2>3. CASE ~HoldsLease(run[j], cur[w].token)
    <3>1. run' = run
      BY <1>1, <1>8, <2>1, <2>3 DEF FinishRow
    <3>2. QED
      BY <1>2, <3>1
  <2>4. QED
    BY <2>2, <2>3
<1>9. QED
  BY <1>2, <1>3, <1>4, <1>5, <1>6, <1>7, <1>8, RowChange

\* What clients see of the runs is the abstract lifecycle, whatever the
\* workers, the queue, the heartbeats and the clock do.
THEOREM LifecycleImplemented == Spec => ImplementsLifecycle
<1>1. Init => Lifecycle!Init
  BY DEF Init, Lifecycle!Init, AbsentRow
<1>2. IInv /\ [Next]_vars => [Lifecycle!Next]_(Lifecycle!vars)
  BY LifecycleStep
<1>3. QED
  BY <1>1, <1>2, InvariantHolds, PTL DEF Spec, ImplementsLifecycle, Lifecycle!Spec
=============================================================================
