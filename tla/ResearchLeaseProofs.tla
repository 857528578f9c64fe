------------------------ MODULE ResearchLeaseProofs ------------------------
(***************************************************************************)
(* Proofs about the lease a worker of ResearchWorkers works under, for     *)
(* every fleet, every lease length and every heartbeat interval shorter    *)
(* than it.  ResearchWorker._heartbeat_until_stopped waits                 *)
(* max(1.0, lease_seconds / 3), so the interval is shorter than the lease  *)
(* for every lease_seconds but 1.                                          *)
(*                                                                         *)
(* The plan: while nothing has failed, each worker that works has a        *)
(* heartbeat whose next renew comes before the lease runs out.  Time takes *)
(* as much from the one as from the other, a renew puts the full distance  *)
(* between them again, and a lease that lives keeps every other worker     *)
(* from claiming the run.                                                  *)
(***************************************************************************)
EXTENDS ResearchWorkersProofs

\* A heartbeat comes around before the lease it renews runs out.
BeatsBeforeExpiry == HeartbeatTicks < LeaseTicks

-----------------------------------------------------------------------------
\* A call that failed is charged: where no fault was, every call has answered.
LEMMA CallAnswered ==
  ASSUME IInv, faults' = faults, NEW net \in Ends, Charge(net)
  PROVE  net = "ok"
  BY FleetAssumption DEF Charge, IInv, TypeOK

\* A fault or a late heartbeat is never taken back.
LEMMA FaultsOnlyHappen ==
  ASSUME IInv, [Next]_vars, Undisturbed'
  PROVE  Undisturbed
<1>1. faults \in 0 .. MaxFaults /\ MaxFaults \in Nat /\ faults' = MaxFaults
  BY FleetAssumption DEF IInv, TypeOK, Undisturbed
<1>2. ASSUME NEW net \in Ends, Charge(net)
      PROVE  faults = MaxFaults
  BY <1>1, <1>2 DEF Charge
<1>3. ASSUME NEW w \in Workers, Crash(w)
      PROVE  faults = MaxFaults
  BY <1>1, <1>3 DEF Crash
<1>4. ASSUME NEW w \in Workers, NEW net \in Ends, WorkerStep(w, net)
      PROVE  faults = MaxFaults /\ pace' = pace
  BY <1>2, <1>4 DEF WorkerStep, Receive, Claim, Record, Finish, Handle, Ack
<1>5. ASSUME NEW b \in beats, NEW net \in Ends, Renew(b, net)
      PROVE  faults = MaxFaults /\ pace' = pace
  BY <1>2, <1>5 DEF Renew
<1>6. ASSUME NEW j \in Jobs, NEW net \in Ends, Enqueue(j, net)
      PROVE  faults = MaxFaults /\ pace' = pace
  BY <1>2, <1>6 DEF Enqueue
<1>7. ASSUME Tick
      PROVE  faults = MaxFaults /\ (pace' = "punctual" => pace = "punctual")
  BY <1>1, <1>7 DEF Tick
<1>8. QED
  BY <1>1, <1>3, <1>4, <1>5, <1>6, <1>7
     DEF Next, CreateRun, Execute, Crash, Restart, vars, Undisturbed

-----------------------------------------------------------------------------
\* A transaction of somebody else on a row under a live lease leaves the lease
\* with its holder and never brings its end closer: a claim is refused, a renew
\* and a record only extend or keep it.
LEMMA LiveRowKept ==
  ASSUME NEW r \in Row, NEW tok, HoldsLease(r, tok), r.ttl > 0,
         NEW other, NEW res,
         NEW s \in {ClaimRow(r), RenewRow(r, other), RecordRow(r, other, res)}
  PROVE  HoldsLease(s, tok) /\ r.ttl <= s.ttl
<1>1. r.ttl \in 0 .. LeaseTicks /\ LeaseTicks \in Nat
  BY BudgetAssumption DEF Row
<1>2. ClaimRow(r) = r
  BY <1>1 DEF ClaimRow, Grants, Claimable, HoldsLease
<1>3. CASE s = ClaimRow(r)
  BY <1>1, <1>2, <1>3
<1>4. CASE s = RenewRow(r, other)
  BY <1>1, <1>4 DEF RenewRow, HoldsLease, Row
<1>5. CASE s = RecordRow(r, other, res)
  BY <1>1, <1>5 DEF RecordRow, HoldsLease, Row
<1>6. QED
  BY <1>3, <1>4, <1>5

\* What a covered worker's heartbeat says of its row.
LEMMA CoveredIsLive ==
  ASSUME IInv, NEW w \in Workers, Covered(w), pc[w] \in Working
  PROVE  /\ cur[w].job \in Jobs
         /\ run[cur[w].job] \in Row
         /\ HoldsLease(run[cur[w].job], cur[w].token)
         /\ run[cur[w].job].ttl > 0
<1>1. cur[w].job \in Jobs /\ run[cur[w].job] \in Row
  BY DEF IInv, TypeOK, WorkerInv, Working
<1>2. PICK b \in beats : Covers(b, w)
  BY DEF Covered
<1>3. b.due \in Nat /\ run[cur[w].job].ttl \in Nat
  BY <1>1, FleetAssumption, BudgetAssumption DEF IInv, TypeOK, Beat, Row
<1>4. QED
  BY <1>1, <1>2, <1>3 DEF Covered, Covers

\* A worker stays covered when its lease and its heartbeat are left to it.
LEMMA CoveredKept ==
  ASSUME IInv, NEW w \in Workers, Covered(w),
         pc'[w] \in Working => /\ pc[w] \in Working
                               /\ cur'[w].job = cur[w].job /\ cur'[w].token = cur[w].token,
         pc[w] \in Working =>
            /\ HoldsLease(run'[cur[w].job], cur[w].token)
            /\ run'[cur[w].job] \in Row
            /\ run[cur[w].job].ttl <= run'[cur[w].job].ttl,
         \A b \in beats : Covers(b, w) => b \in beats'
  PROVE  Covered(w)'
<1>1. SUFFICES ASSUME pc'[w] \in Working
               PROVE  /\ RowDecodes
                      /\ HoldsLease(run'[cur[w].job], cur[w].token)
                      /\ \E b \in beats' : Covers(b, w)'
  BY DEF Covered
<1>2. PICK b \in beats : Covers(b, w)
  BY <1>1 DEF Covered
<1>3. /\ b.due \in Nat /\ run[cur[w].job].ttl \in Nat /\ run'[cur[w].job].ttl \in Nat
  BY <1>1, CoveredIsLive, FleetAssumption, BudgetAssumption DEF IInv, TypeOK, Beat, Row
<1>4. b.due < run'[cur[w].job].ttl
  BY <1>1, <1>2, <1>3 DEF Covers
<1>5. Covers(b, w)' /\ b \in beats'
  BY <1>1, <1>2, <1>4 DEF Covers
<1>6. QED
  BY <1>1, <1>5 DEF Covered

\* A heartbeat stays attached when its worker goes on with its attempt.
LEMMA AttachedKept ==
  ASSUME NEW b, Attached(b),
         pc[b.worker] \in Working =>
            /\ pc'[b.worker] \in Working
            /\ cur'[b.worker].job = cur[b.worker].job
            /\ cur'[b.worker].token = cur[b.worker].token
  PROVE  Attached(b)'
  BY DEF Attached

-----------------------------------------------------------------------------
\* What the next lemmas establish of one step.
StaysCovered == /\ \A w \in Workers : Covered(w)'
                /\ \A b \in beats' : Attached(b)'

\* What they start from, with nothing failed before or during the step.
Punctual == /\ IInv
            /\ Undisturbed /\ Undisturbed' /\ faults' = faults
            /\ \A w \in Workers : Covered(w)
            /\ \A b \in beats : Attached(b)

\* A step of a worker that neither works before it nor after it, and that only
\* drops heartbeats of its own, if any: there are none left to lose.
LEMMA QuietStep ==
  ASSUME Punctual, run' = run, NEW w \in Workers,
         pc[w] \notin Working, pc'[w] \notin Working,
         \A v \in Workers \ {w} : pc'[v] = pc[v] /\ cur'[v] = cur[v],
         beats' = beats \/ beats' = {b \in beats : b.worker # w}
  PROVE  StaysCovered
<1>1. IInv /\ beats \in SUBSET Beat /\ run \in [Jobs -> Row]
  BY DEF Punctual, IInv, TypeOK
<1>2. ASSUME NEW v \in Workers
      PROVE  Covered(v)'
  <2>1. CASE v = w
    BY <2>1 DEF Covered
  <2>2. CASE v # w
    <3>1. pc[v] \in Working => /\ HoldsLease(run'[cur[v].job], cur[v].token)
                               /\ run'[cur[v].job] \in Row
                               /\ run[cur[v].job].ttl <= run'[cur[v].job].ttl
      <4>1. SUFFICES ASSUME pc[v] \in Working
                     PROVE  /\ HoldsLease(run[cur[v].job], cur[v].token)
                            /\ run[cur[v].job] \in Row
                            /\ run[cur[v].job].ttl <= run[cur[v].job].ttl
        OBVIOUS
      <4>2. run[cur[v].job] \in Row /\ HoldsLease(run[cur[v].job], cur[v].token)
        BY <4>1, CoveredIsLive DEF Punctual
      <4>3. QED
        BY <4>2, BudgetAssumption DEF Row
    <3>2. \A b \in beats : Covers(b, v) => b \in beats'
      BY <2>2 DEF Covers
    <3>3. QED
      BY <1>1, <2>2, <3>1, <3>2, CoveredKept DEF Punctual
  <2>3. QED
    BY <2>1, <2>2
<1>3. ASSUME NEW b \in beats'
      PROVE  Attached(b)'
  <2>1. b \in beats /\ b.worker \in Workers /\ Attached(b)
    BY <1>1, <1>3 DEF Punctual, Beat
  <2>2. QED
    BY <2>1, AttachedKept DEF Punctual
<1>4. QED
  BY <1>2, <1>3 DEF StaysCovered

\* A step that leaves every worker's attempt and every heartbeat alone and
\* whose transaction, if any, is none that can end a live lease.
LEMMA AttemptsGoOn ==
  ASSUME Punctual, run' \in [Jobs -> Row], beats' = beats,
         \A v \in Workers : (pc[v] \in Working \/ pc'[v] \in Working) =>
            /\ pc[v] \in Working /\ pc'[v] \in Working
            /\ cur'[v].job = cur[v].job /\ cur'[v].token = cur[v].token,
         \A j \in Jobs : \A tok : HoldsLease(run[j], tok) /\ run[j].ttl > 0 =>
            HoldsLease(run'[j], tok) /\ run[j].ttl <= run'[j].ttl
  PROVE  StaysCovered
<1>1. IInv /\ beats \in SUBSET Beat
  BY DEF Punctual, IInv, TypeOK
<1>2. ASSUME NEW v \in Workers
      PROVE  Covered(v)'
  <2>1. pc[v] \in Working => /\ HoldsLease(run'[cur[v].job], cur[v].token)
                             /\ run'[cur[v].job] \in Row
                             /\ run[cur[v].job].ttl <= run'[cur[v].job].ttl
    BY CoveredIsLive DEF Punctual
  <2>2. QED
    BY <1>1, <2>1, CoveredKept DEF Punctual
<1>3. ASSUME NEW b \in beats'
      PROVE  Attached(b)'
  <2>1. b \in beats /\ b.worker \in Workers /\ Attached(b)
    BY <1>1, <1>3 DEF Punctual, Beat
  <2>2. QED
    BY <2>1, AttachedKept DEF Punctual
<1>4. QED
  BY <1>2, <1>3 DEF StaysCovered

\* A receive, an ack, the except branch and a restart are quiet.
LEMMA QuietActions ==
  ASSUME Punctual, NEW w \in Workers,
         \/ \E net \in Ends : Receive(w, net) \/ Handle(w, net) \/ Ack(w, net)
         \/ Restart(w)
  PROVE  StaysCovered
<1>1. IInv
  BY DEF Punctual
<1>2. pc[w] \in {"idle", "handle", "ack", "down"}
  BY DEF Receive, Handle, Ack, Restart
<1>3. run' = run
  BY DEF Receive, Handle, Ack, Restart
<1>4. (\E label \in {"idle", "claim", "ack"} : \E locals :
            Goto(w, label, locals) /\ beats' = beats)
         \/ Exit(w)
  BY DEF Receive, Handle, Ack, Restart
<1>5. pc'[w] \in {"idle", "claim", "ack", "down"}
  BY <1>1, <1>4, GotoFacts DEF Exit
<1>6. /\ \A v \in Workers \ {w} : pc'[v] = pc[v] /\ cur'[v] = cur[v]
      /\ beats' = beats \/ beats' = {b \in beats : b.worker # w}
  BY <1>1, <1>4, GotoFacts DEF Exit
<1>7. pc[w] \notin Working /\ pc'[w] \notin Working
  BY <1>2, <1>5 DEF Working
<1>8. QED
  BY <1>3, <1>6, <1>7, QuietStep

\* A new run, a send and an execution that ends touch no lease.
LEMMA LeaselessActions ==
  ASSUME Punctual, [Next]_vars,
         \/ \E j \in Jobs : CreateRun(j)
         \/ \E j \in Jobs, net \in Ends : Enqueue(j, net)
         \/ \E w \in Workers : Execute(w)
  PROVE  StaysCovered
<1>1. IInv /\ run \in [Jobs -> Row] /\ cur \in [Workers -> Locals]
  BY DEF Punctual, IInv, TypeOK
<1>2. run' \in [Jobs -> Row]
  BY <1>1, RowsStep
<1>3. ASSUME NEW r \in Row
      PROVE  r.ttl <= r.ttl
  BY BudgetAssumption DEF Row
<1>4. \A j \in Jobs : \A tok : HoldsLease(run[j], tok) =>
         HoldsLease(run'[j], tok) /\ run[j].ttl <= run'[j].ttl
  <2>1. CASE run' = run
    BY <1>1, <1>3, <2>1
  <2>2. ASSUME NEW k \in Jobs, CreateRun(k)
        PROVE  \A j \in Jobs : \A tok : HoldsLease(run[j], tok) => run'[j] = run[j]
    BY <1>1, <2>2 DEF CreateRun, HoldsLease
  <2>3. QED
    BY <1>1, <1>3, <2>1, <2>2 DEF Enqueue, Execute
<1>5. beats' = beats
  BY DEF CreateRun, Enqueue, Execute
<1>6. \A v \in Workers : (pc[v] \in Working \/ pc'[v] \in Working) =>
         /\ pc[v] \in Working /\ pc'[v] \in Working
         /\ cur'[v].job = cur[v].job /\ cur'[v].token = cur[v].token
  <2>1. CASE UNCHANGED <<pc, cur>>
    BY <2>1
  <2>2. ASSUME NEW w \in Workers, Execute(w), NEW v \in Workers
        PROVE  (pc[v] \in Working \/ pc'[v] \in Working) =>
                  /\ pc[v] \in Working /\ pc'[v] \in Working
                  /\ cur'[v].job = cur[v].job /\ cur'[v].token = cur[v].token
    <3>1. CASE v # w
      BY <1>1, <2>2, <3>1, GotoFacts DEF Execute
    <3>2. CASE v = w
      <4>0. ASSUME NEW label, NEW locals, Goto(w, label, locals)
          PROVE  pc'[w] = label /\ cur'[w] = locals
        BY <1>1, <4>0, GotoFacts
      <4>1. pc[w] = "execute" /\ pc'[w] \in {"record", "finish"}
        BY <1>1, <2>2, GotoFacts DEF Execute
      <4>2. \/ \E res \in Results : cur'[w] = [cur[w] EXCEPT !.result = res]
            \/ cur'[w] = [cur[w] EXCEPT !.error = "executor_error"]
        BY <2>2, <4>0 DEF Execute
      <4>3. QED
        BY <1>1, <3>2, <4>1, <4>2 DEF Working, Locals
    <3>3. QED
      BY <3>1, <3>2
  <2>3. QED
    BY <2>1, <2>2 DEF CreateRun, Enqueue
<1>7. QED
  BY <1>2, <1>4, <1>5, <1>6, AttemptsGoOn

-----------------------------------------------------------------------------
\* A claim that is granted hands out a lease that no working worker has, and a
\* heartbeat that covers it; any other claim changes no live lease.
LEMMA ClaimStaysCovered ==
  ASSUME Punctual, BeatsBeforeExpiry, [Next]_vars,
         NEW w \in Workers, NEW net \in Ends, Claim(w, net)
  PROVE  StaysCovered
<1> DEFINE j   == cur[w].job
           tok == run[j].attempts + 1
<1>1. /\ IInv /\ beats \in SUBSET Beat /\ run \in [Jobs -> Row]
      /\ cur \in [Workers -> Locals] /\ WorkerInv(w)
  BY DEF Punctual, IInv, TypeOK
<1>2. net = "ok"
  BY CallAnswered DEF Punctual, Claim
<1>3. pc[w] = "claim" /\ j \in Jobs /\ run[j] \in Row /\ pc[w] \notin Working
  BY <1>1 DEF Claim, WorkerInv, Working
<1>4. run' = [run EXCEPT ![j] = ClaimRow(run[j])] /\ run' \in [Jobs -> Row]
  BY <1>1, <1>2, RowsStep DEF Claim, Ran
<1>5. /\ \A v \in Workers \ {w} : pc'[v] = pc[v] /\ cur'[v] = cur[v]
      /\ beats \subseteq beats'
  BY <1>1, GotoFacts DEF Claim
<1>6. ASSUME NEW v \in Workers \ {w}
      PROVE  Covered(v)'
  <2>1. pc[v] \in Working => /\ HoldsLease(run'[cur[v].job], cur[v].token)
                             /\ run'[cur[v].job] \in Row
                             /\ run[cur[v].job].ttl <= run'[cur[v].job].ttl
    <3>1. SUFFICES ASSUME pc[v] \in Working
                   PROVE  /\ HoldsLease(run'[cur[v].job], cur[v].token)
                          /\ run'[cur[v].job] \in Row
                          /\ run[cur[v].job].ttl <= run'[cur[v].job].ttl
      OBVIOUS
    <3>2. /\ cur[v].job \in Jobs /\ run[cur[v].job] \in Row
          /\ HoldsLease(run[cur[v].job], cur[v].token)
          /\ run[cur[v].job].ttl > 0
      BY <1>1, <3>1, CoveredIsLive DEF Punctual
    <3>3. run[cur[v].job].ttl <= run[cur[v].job].ttl
      BY <3>2, BudgetAssumption DEF Row
    <3>4. HoldsLease(ClaimRow(run[cur[v].job]), cur[v].token)
             /\ run[cur[v].job].ttl <= ClaimRow(run[cur[v].job]).ttl
      BY <3>2, LiveRowKept
    <3>5. run'[cur[v].job] \in {run[cur[v].job], ClaimRow(run[cur[v].job])}
      BY <1>1, <1>4, <3>2
    <3>6. QED
      BY <1>4, <3>2, <3>3, <3>4, <3>5
  <2>2. QED
    BY <1>1, <1>5, <1>6, <2>1, CoveredKept DEF Punctual
<1>7. \A b \in beats : Attached(b)'
  <2>1. ASSUME NEW b \in beats
        PROVE  Attached(b)'
    <3>1. b.worker \in Workers /\ Attached(b)
      BY <1>1 DEF Punctual, Beat
    <3>2. QED
      BY <1>3, <1>5, <3>1, AttachedKept
  <2>2. QED
    BY <2>1
<1>8. CASE Grants(run[j]) /\ RowDecodes
  <2>1. /\ pc'[w] = "execute" /\ cur'[w] = [cur[w] EXCEPT !.token = tok]
        /\ beats' = beats \cup {StartBeat(w, j, tok)}
    BY <1>1, <1>2, <1>8, GotoFacts DEF Claim
  <2>2. cur[w] \in Locals
    BY <1>1
  <2>3. cur'[w].job = j /\ cur'[w].token = tok
    BY <2>1, <2>2 DEF Locals
  <2>4. PICK b : b = StartBeat(w, j, tok)
    OBVIOUS
  <2>5. /\ b.worker = w /\ ~b.stopping /\ b.due = HeartbeatTicks
        /\ b.job = j /\ b.token = tok
    BY <2>4 DEF StartBeat
  <2>6. run'[j] = Granted(run[j])
    BY <1>1, <1>3, <1>4, <1>8 DEF ClaimRow
  <2>7. HoldsLease(run'[j], tok) /\ run'[j].ttl = LeaseTicks
    BY <1>3, <2>6 DEF Granted, HoldsLease, Row
  <2>8. Covers(b, w)'
    BY <2>3, <2>5, <2>7 DEF Covers, BeatsBeforeExpiry
  <2>9. Covered(w)'
    BY <1>8, <2>1, <2>3, <2>4, <2>7, <2>8 DEF Covered
  <2>10. Attached(b)'
    BY <2>1, <2>3, <2>5 DEF Attached, Working
  <2>11. QED
    BY <1>6, <1>7, <2>1, <2>4, <2>9, <2>10 DEF StaysCovered
<1>9. CASE ~(Grants(run[j]) /\ RowDecodes)
  <2>1. pc'[w] = "handle" /\ beats' = beats
    BY <1>1, <1>9, GotoFacts DEF Claim
  <2>2. Covered(w)'
    BY <2>1 DEF Covered, Working
  <2>3. QED
    BY <1>6, <1>7, <2>1, <2>2 DEF StaysCovered
<1>10. QED
  BY <1>8, <1>9

\* A record keeps the lease of its worker and of every other.
LEMMA RecordStaysCovered ==
  ASSUME Punctual, [Next]_vars, NEW w \in Workers, NEW net \in Ends, Record(w, net)
  PROVE  StaysCovered
<1>1. IInv /\ run \in [Jobs -> Row] /\ cur \in [Workers -> Locals] /\ WorkerInv(w)
  BY DEF Punctual, IInv, TypeOK
<1>2. run' \in [Jobs -> Row]
  BY <1>1, RowsStep
<1>3. \A j \in Jobs : run'[j] = run[j] \/ run'[j] = RecordRow(run[j], cur[w].token, cur[w].result)
  BY <1>1 DEF Record, WorkerInv
<1>4. \A j \in Jobs : \A tok : HoldsLease(run[j], tok) /\ run[j].ttl > 0 =>
         HoldsLease(run'[j], tok) /\ run[j].ttl <= run'[j].ttl
  <2>1. SUFFICES ASSUME NEW j \in Jobs, NEW tok, HoldsLease(run[j], tok), run[j].ttl > 0
                 PROVE  HoldsLease(run'[j], tok) /\ run[j].ttl <= run'[j].ttl
    OBVIOUS
  <2>2. run[j] \in Row /\ run[j].ttl <= run[j].ttl
    BY <1>1, BudgetAssumption DEF Row
  <2>3. LET s == RecordRow(run[j], cur[w].token, cur[w].result)
        IN  HoldsLease(s, tok) /\ run[j].ttl <= s.ttl
    BY <2>1, <2>2, LiveRowKept
  <2>4. QED
    BY <1>3, <2>1, <2>2, <2>3
<1>5. ASSUME NEW v \in Workers, pc[v] \in Working \/ pc'[v] \in Working
      PROVE  /\ pc[v] \in Working /\ pc'[v] \in Working
             /\ cur'[v].job = cur[v].job /\ cur'[v].token = cur[v].token
  <2>1. CASE v # w
    BY <1>1, <1>5, <2>1, GotoFacts DEF Record
  <2>2. CASE v = w
    <3>1. pc[w] = "record" /\ pc'[w] = "finish"
      BY <1>1, GotoFacts DEF Record
    <3>2. cur'[w] = cur[w] \/ cur'[w] = [cur[w] EXCEPT !.error = "provenance_error"]
      BY <1>1, GotoFacts DEF Record
    <3>3. QED
      BY <1>1, <2>2, <3>1, <3>2 DEF Working, Locals
  <2>3. QED
    BY <2>1, <2>2
<1>6. QED
  BY <1>2, <1>4, <1>5, AttemptsGoOn DEF Record

\* A finish ends the lease of its own worker: no other worker that works has
\* that run, because the lease of every one of them is live.
LEMMA FinishStaysCovered ==
  ASSUME Punctual, [Next]_vars, NEW w \in Workers, NEW net \in Ends, Finish(w, net)
  PROVE  StaysCovered
<1>1. /\ IInv /\ beats \in SUBSET Beat /\ run \in [Jobs -> Row]
      /\ WorkerInv(w) /\ TokensUnique
  BY DEF Punctual, IInv, TypeOK
<1>2. pc[w] = "finish" /\ pc[w] \in Working /\ cur[w].job \in Jobs
  BY <1>1 DEF Finish, WorkerInv, Working
<1>3. /\ pc'[w] \in {"ack", "handle"}
      /\ \A v \in Workers \ {w} : pc'[v] = pc[v] /\ cur'[v] = cur[v]
  BY <1>1, GotoFacts DEF Finish
<1>4. \A k \in Jobs \ {cur[w].job} : run'[k] = run[k]
  BY <1>1 DEF Finish
<1>5. ASSUME NEW b \in beats'
      PROVE  b.stopping \/ (b \in beats /\ b.worker # w)
  <2>1. \A c \in Beat : [c EXCEPT !.stopping = TRUE].stopping = TRUE
    BY DEF Beat
  <2>2. PICK mine : /\ mine = {c \in beats : c.worker = w /\ ~c.stopping}
                    /\ \/ beats' = beats \ mine
                       \/ beats' = (beats \ mine) \cup {[c EXCEPT !.stopping = TRUE] : c \in mine}
    BY DEF Finish, StopBeat
  <2>3. b \in beats \ mine \/ \E c \in mine : b = [c EXCEPT !.stopping = TRUE]
    BY <1>5, <2>2
  <2>4. QED
    BY <1>1, <2>1, <2>2, <2>3
<1>6. \A b \in beats : b.worker # w => b \in beats'
  BY DEF Finish, StopBeat
<1>7. ASSUME NEW v \in Workers
      PROVE  Covered(v)'
  <2>1. CASE v = w
    BY <1>3, <2>1 DEF Covered, Working
  <2>2. CASE v # w
    <3>1. pc[v] \in Working =>
             /\ HoldsLease(run'[cur[v].job], cur[v].token)
             /\ run'[cur[v].job] \in Row
             /\ run[cur[v].job].ttl <= run'[cur[v].job].ttl
      <4>1. SUFFICES ASSUME pc[v] \in Working
                     PROVE  /\ HoldsLease(run'[cur[v].job], cur[v].token)
                            /\ run'[cur[v].job] \in Row
                            /\ run[cur[v].job].ttl <= run'[cur[v].job].ttl
        OBVIOUS
      <4>2. /\ cur[v].job \in Jobs /\ run[cur[v].job] \in Row
            /\ HoldsLease(run[cur[v].job], cur[v].token)
        BY <1>1, <4>1, CoveredIsLive DEF Punctual
      <4>3. HoldsLease(run[cur[w].job], cur[w].token)
        BY <1>1, <1>2, CoveredIsLive DEF Punctual
      <4>4. cur[v].job # cur[w].job
        BY <1>1, <1>2, <2>2, <4>1, <4>2, <4>3 DEF TokensUnique, HoldsLease
      <4>5. run[cur[v].job].ttl <= run[cur[v].job].ttl
        BY <4>2, BudgetAssumption DEF Row
      <4>6. QED
        BY <1>4, <4>2, <4>4, <4>5
    <3>2. \A b \in beats : Covers(b, v) => b \in beats'
      BY <1>6, <2>2 DEF Covers
    <3>3. QED
      BY <1>1, <1>3, <2>2, <3>1, <3>2, CoveredKept DEF Punctual
  <2>3. QED
    BY <2>1, <2>2
<1>8. ASSUME NEW b \in beats'
      PROVE  Attached(b)'
  <2>1. CASE b.stopping
    BY <2>1 DEF Attached
  <2>2. CASE ~b.stopping
    <3>1. b \in beats /\ b.worker # w /\ b.worker \in Workers /\ Attached(b)
      BY <1>1, <1>5, <2>2 DEF Punctual, Beat
    <3>2. QED
      BY <1>3, <3>1, AttachedKept
  <2>3. QED
    BY <2>1, <2>2
<1>9. QED
  BY <1>7, <1>8 DEF StaysCovered

\* A renew puts the full lease before the heartbeat that made it, and takes
\* nothing from any other.
LEMMA RenewStaysCovered ==
  ASSUME Punctual, BeatsBeforeExpiry, [Next]_vars,
         NEW b \in beats, NEW net \in Ends, Renew(b, net)
  PROVE  StaysCovered
<1>1. /\ IInv /\ beats \in SUBSET Beat /\ run \in [Jobs -> Row]
      /\ b \in Beat /\ b.job \in Jobs /\ b.worker \in Workers
  BY DEF Punctual, IInv, TypeOK, Beat
<1>2. net = "ok" /\ pc' = pc /\ cur' = cur
  BY CallAnswered DEF Punctual, Renew
<1>3. run' = [run EXCEPT ![b.job] = RenewRow(run[b.job], b.token)] /\ run' \in [Jobs -> Row]
  BY <1>1, <1>2, RowsStep DEF Renew, Ran
<1>4. PICK c : c = [b EXCEPT !.due = HeartbeatTicks]
  OBVIOUS
<1>5. /\ c.worker = b.worker /\ c.job = b.job /\ c.token = b.token
      /\ c.stopping = b.stopping /\ c.due = HeartbeatTicks
  BY <1>1, <1>4 DEF Beat
<1>6. beats \ {b} \subseteq beats' /\ beats' \subseteq (beats \ {b}) \cup {c}
  BY <1>4 DEF Renew
<1>7. ASSUME NEW v \in Workers
      PROVE  Covered(v)'
  <2>1. CASE pc[v] \notin Working
    BY <1>2, <2>1 DEF Covered
  <2>2. CASE pc[v] \in Working /\ ~Covers(b, v)
    <3>1. /\ cur[v].job \in Jobs /\ run[cur[v].job] \in Row
          /\ HoldsLease(run[cur[v].job], cur[v].token)
          /\ run[cur[v].job].ttl > 0
      BY <1>1, <2>2, CoveredIsLive DEF Punctual
    <3>2. run[cur[v].job].ttl <= run[cur[v].job].ttl
      BY <3>1, BudgetAssumption DEF Row
    <3>3. LET r == RenewRow(run[cur[v].job], b.token)
          IN  HoldsLease(r, cur[v].token) /\ run[cur[v].job].ttl <= r.ttl
      BY <3>1, LiveRowKept
    <3>4. run'[cur[v].job] \in {run[cur[v].job], RenewRow(run[cur[v].job], b.token)}
      BY <1>1, <1>3, <3>1
    <3>5. /\ HoldsLease(run'[cur[v].job], cur[v].token)
          /\ run'[cur[v].job] \in Row
          /\ run[cur[v].job].ttl <= run'[cur[v].job].ttl
      BY <1>3, <3>1, <3>2, <3>3, <3>4
    <3>6. \A d \in beats : Covers(d, v) => d \in beats'
      BY <1>6, <2>2
    <3>7. QED
      BY <1>1, <1>2, <2>2, <3>5, <3>6, CoveredKept DEF Punctual
  <2>3. CASE pc[v] \in Working /\ Covers(b, v)
    <3>1. /\ b.worker = v /\ ~b.stopping /\ b.job = cur[v].job /\ b.token = cur[v].token
      BY <2>3 DEF Covers
    <3>2. /\ run[b.job] \in Row /\ HoldsLease(run[b.job], b.token)
          /\ run[b.job].ttl > 0 /\ RowDecodes
      BY <1>1, <2>3, <3>1, CoveredIsLive DEF Punctual, Covered
    <3>3. c \in beats'
      BY <1>2, <1>4, <3>1, <3>2 DEF Renew, LiveLease
    <3>4. run'[b.job] = [run[b.job] EXCEPT !.ttl = LeaseTicks]
      BY <1>1, <1>3, <3>2 DEF RenewRow, LiveLease
    <3>5. HoldsLease(run'[b.job], b.token) /\ run'[b.job].ttl = LeaseTicks
      BY <3>2, <3>4 DEF HoldsLease, Row
    <3>6. Covers(c, v)'
      BY <1>2, <1>5, <3>1, <3>5 DEF Covers, BeatsBeforeExpiry
    <3>7. QED
      BY <1>2, <3>1, <3>2, <3>3, <3>5, <3>6 DEF Covered
  <2>4. QED
    BY <2>1, <2>2, <2>3
<1>8. ASSUME NEW d \in beats'
      PROVE  Attached(d)'
  BY <1>2, <1>5, <1>6, <1>8 DEF Punctual, Attached
<1>9. QED
  BY <1>7, <1>8 DEF StaysCovered

\* Time passes only when no renew is due, and takes one tick from the heartbeat
\* and one from the lease.
LEMMA TickStaysCovered ==
  ASSUME Punctual, Tick
  PROVE  StaysCovered
<1> DEFINE Older(b) == [b EXCEPT !.due = IF b.due > 0 THEN b.due - 1 ELSE 0]
<1>1. /\ IInv /\ beats \in SUBSET Beat /\ run \in [Jobs -> Row]
  BY DEF Punctual, IInv, TypeOK
<1>2. /\ pc' = pc /\ cur' = cur /\ beats' = {Older(b) : b \in beats}
      /\ run' = [j \in Jobs |-> AgeRow(run[j])]
      /\ \A b \in beats : b.stopping \/ b.due > 0
  BY DEF Tick, Punctual, Undisturbed
<1>3. ASSUME NEW b \in Beat
      PROVE  /\ Older(b).worker = b.worker /\ Older(b).job = b.job
             /\ Older(b).token = b.token /\ Older(b).stopping = b.stopping
             /\ b.due > 0 => Older(b).due = b.due - 1
  BY DEF Beat
<1> HIDE DEF Older
<1>4. ASSUME NEW v \in Workers, pc[v] \in Working
      PROVE  /\ RowDecodes
             /\ HoldsLease(run'[cur[v].job], cur[v].token)
             /\ \E b \in beats' : Covers(b, v)'
  <2>1. PICK b \in beats : Covers(b, v)
    BY <1>4 DEF Punctual, Covered
  <2>2. /\ cur[v].job \in Jobs /\ run[cur[v].job] \in Row
        /\ HoldsLease(run[cur[v].job], cur[v].token)
        /\ run[cur[v].job].ttl > 0
    BY <1>1, <1>4, CoveredIsLive DEF Punctual
  <2>3. run'[cur[v].job] = AgeRow(run[cur[v].job])
    BY <1>2, <2>2
  <2>4. /\ HoldsLease(run'[cur[v].job], cur[v].token)
        /\ run'[cur[v].job].ttl = run[cur[v].job].ttl - 1
    BY <2>2, <2>3 DEF AgeRow, HoldsLease, Row
  <2>5. PICK c : c = Older(b)
    OBVIOUS
  <2>6. c \in beats'
    BY <1>2, <2>5
  <2>7. /\ b.worker = v /\ ~b.stopping /\ b.job = cur[v].job /\ b.token = cur[v].token
        /\ b.due < run[cur[v].job].ttl
    BY <2>1 DEF Covers
  <2>8. /\ c.worker = v /\ ~c.stopping /\ c.job = cur[v].job /\ c.token = cur[v].token
        /\ c.due = b.due - 1
    BY <1>1, <1>2, <1>3, <2>5, <2>7
  <2>9. b.due \in Nat /\ run[cur[v].job].ttl \in Nat
    BY <1>1, <2>2, FleetAssumption, BudgetAssumption DEF Beat, Row
  <2>10. c.due < run'[cur[v].job].ttl
    BY <2>4, <2>7, <2>8, <2>9
  <2>11. Covers(c, v)'
    BY <1>2, <2>8, <2>10 DEF Covers
  <2>12. QED
    BY <1>4, <2>4, <2>6, <2>11 DEF Punctual, Covered
<1>5. \A v \in Workers : Covered(v)'
  BY <1>2, <1>4 DEF Covered
<1>6. ASSUME NEW c \in beats'
      PROVE  Attached(c)'
  <2>1. PICK b \in beats : c = Older(b)
    BY <1>2, <1>6
  <2>2. QED
    BY <1>1, <1>2, <1>3, <2>1 DEF Punctual, Attached
<1>7. QED
  BY <1>5, <1>6 DEF StaysCovered

-----------------------------------------------------------------------------
\* Every step that is not a fault keeps every working worker covered.
LEMMA LeaseStep ==
  ASSUME IInv, LeaseInv, [Next]_vars, BeatsBeforeExpiry
  PROVE  LeaseInv'
<1>1. SUFFICES ASSUME Undisturbed'
               PROVE  StaysCovered
  BY DEF LeaseInv, StaysCovered
<1>2. Punctual
  BY <1>1, FaultsOnlyHappen DEF LeaseInv, Punctual, Undisturbed
<1>3. CASE UNCHANGED vars
  BY <1>2, <1>3 DEF vars, Punctual, StaysCovered, Covered, Covers, Attached
<1>4. ASSUME NEW w \in Workers, NEW net \in Ends, WorkerStep(w, net)
      PROVE  StaysCovered
  BY <1>2, <1>4, QuietActions, ClaimStaysCovered, RecordStaysCovered, FinishStaysCovered
     DEF WorkerStep
<1>5. ASSUME NEW w \in Workers, Crash(w)
      PROVE  FALSE
  <2>1. faults > 0 /\ faults' = faults - 1 /\ faults = faults' /\ faults \in Nat
    BY <1>2, <1>5, FleetAssumption DEF Crash, Punctual, Undisturbed
  <2>2. QED
    BY <2>1
<1>6. CASE Next
  BY <1>2, <1>4, <1>5, <1>6, LeaselessActions, QuietActions, RenewStaysCovered, TickStaysCovered
     DEF Next
<1>7. QED
  BY <1>3, <1>6

\* Until a first call fails, a first process dies or a first heartbeat is late, a
\* worker never works under an expired lease: with a heartbeat interval shorter
\* than the lease, for executions of any length.
THEOREM LeaseHeldWhileWorkingHolds ==
  ASSUME BeatsBeforeExpiry
  PROVE  Spec => []LeaseHeldWhileWorking
<1>1. Init => LeaseInv
  BY DEF Init, LeaseInv, Covered, Attached, Working
<1>2. IInv /\ LeaseInv /\ [Next]_vars => LeaseInv'
  BY LeaseStep
<1>3. IInv /\ LeaseInv => LeaseHeldWhileWorking
  BY CoveredIsLive DEF LeaseInv, LeaseHeldWhileWorking, LiveLease
<1>4. QED
  BY <1>1, <1>2, <1>3, InvariantHolds, PTL DEF Spec

-----------------------------------------------------------------------------
\* Only a claim counts an attempt or makes a run running.
LEMMA OnlyClaimsCount ==
  ASSUME IInv, [Next]_vars, ~(\E w \in Workers, net \in Ends : Claim(w, net)), NEW j \in Jobs
  PROVE  /\ run'[j].attempts = run[j].attempts
         /\ run'[j].status = "running" => run[j].status = "running"
<1> DEFINE Goal == /\ run'[j].attempts = run[j].attempts
                   /\ run'[j].status = "running" => run[j].status = "running"
<1>1. run \in [Jobs -> Row] /\ beats \in SUBSET Beat /\ run[j] \in Row
  BY DEF IInv, TypeOK
<1>2. CASE run' = run
  BY <1>2
<1>3. CASE Tick
  BY <1>1, <1>3 DEF Tick, AgeRow, Row
<1>4. ASSUME NEW k \in Jobs, CreateRun(k)
      PROVE  Goal
  BY <1>1, <1>4 DEF CreateRun, Row
<1>5. ASSUME NEW b \in beats, NEW net \in Ends, Renew(b, net)
      PROVE  Goal
  <2>1. run'[j] = run[j] \/ run'[j] = RenewRow(run[j], b.token)
    BY <1>1, <1>5 DEF Renew, Beat
  <2>2. QED
    BY <1>1, <2>1 DEF RenewRow, Row
<1>6. ASSUME NEW w \in Workers, NEW net \in Ends, Record(w, net)
      PROVE  Goal
  <2>1. run'[j] = run[j] \/ run'[j] = RecordRow(run[j], cur[w].token, cur[w].result)
    BY <1>1, <1>6 DEF Record
  <2>2. QED
    BY <1>1, <2>1 DEF RecordRow, Row
<1>7. ASSUME NEW w \in Workers, NEW net \in Ends, Finish(w, net)
      PROVE  Goal
  <2>1. run'[j] = run[j]
           \/ run'[j] = FinishRow(run[j], cur[w].token, Target(cur[w]), cur[w].error)
    BY <1>1, <1>7 DEF Finish
  <2>2. Target(cur[w]) # "running"
    BY DEF Target
  <2>3. QED
    BY <1>1, <2>1, <2>2 DEF FinishRow, Closed, Row
<1>8. QED
  BY <1>2, <1>3, <1>4, <1>5, <1>6, <1>7
     DEF Next, WorkerStep, Enqueue, Receive, Handle, Ack, Execute, Crash, Restart, vars

\* A worker that works goes on with its run until it finishes it.
LEMMA WorksUntilFinish ==
  ASSUME Punctual, [Next]_vars, NEW w \in Workers, pc[w] \in Working,
         ~(\E net \in Ends : Finish(w, net))
  PROVE  pc'[w] \in Working /\ cur'[w].job = cur[w].job
<1>1. IInv /\ cur[w] \in Locals
  BY DEF Punctual, IInv, TypeOK
<1>2. ASSUME NEW label, NEW locals, Goto(w, label, locals)
      PROVE  pc'[w] = label /\ cur'[w] = locals
  BY <1>1, <1>2, GotoFacts
<1>3. CASE Execute(w)
  <2>1. pc'[w] \in {"record", "finish"}
    BY <1>2, <1>3 DEF Execute
  <2>2. \/ \E res \in Results : cur'[w] = [cur[w] EXCEPT !.result = res]
        \/ cur'[w] = [cur[w] EXCEPT !.error = "executor_error"]
    BY <1>2, <1>3 DEF Execute
  <2>3. QED
    BY <1>1, <2>1, <2>2 DEF Working, Locals
<1>4. ASSUME NEW net \in Ends, Record(w, net)
      PROVE  pc'[w] \in Working /\ cur'[w].job = cur[w].job
  <2>1. pc'[w] = "finish"
    BY <1>2, <1>4 DEF Record
  <2>2. cur'[w] = cur[w] \/ cur'[w] = [cur[w] EXCEPT !.error = "provenance_error"]
    BY <1>2, <1>4 DEF Record
  <2>3. QED
    BY <1>1, <2>1, <2>2 DEF Working, Locals
<1>5. ~Crash(w)
  BY FleetAssumption DEF Crash, Punctual, Undisturbed
<1>6. /\ ~Restart(w)
      /\ \A net \in Ends : ~Receive(w, net) /\ ~Claim(w, net) /\ ~Handle(w, net) /\ ~Ack(w, net)
  BY DEF Restart, Receive, Claim, Handle, Ack, Working
<1>7. QED
  BY <1>1, <1>3, <1>4, <1>5, <1>6, OneWorkerMoves DEF WorkerStep

\* A claim finds the run waiting for its first attempt, or changes nothing.
LEMMA ClaimStaysOnce ==
  ASSUME Punctual, RowDecodes, [Next]_vars, \A j \in Jobs : HeldOnce(j),
         NEW w \in Workers, NEW net \in Ends, Claim(w, net), NEW j \in Jobs, run'[j] # run[j]
  PROVE  /\ run'[j].attempts = 1
         /\ pc'[w] = "execute" /\ cur'[w].job = j
<1>1. /\ IInv /\ run \in [Jobs -> Row] /\ run[j] \in Row /\ RowInv(run[j])
      /\ cur[w] \in Locals /\ WorkerInv(w)
  BY DEF Punctual, IInv, TypeOK
<1>2. net = "ok" /\ pc[w] = "claim" /\ cur[w].job \in Jobs
  BY <1>1, CallAnswered DEF Punctual, Claim, WorkerInv
<1>3. cur[w].job = j /\ run'[j] = ClaimRow(run[j])
  BY <1>1, <1>2 DEF Claim, Ran
<1>4. run[j].status # "running" \/ run[j].ttl > 0
  <2>1. SUFFICES ASSUME run[j].status = "running"
                 PROVE  run[j].ttl > 0
    OBVIOUS
  <2>2. PICK v \in Workers : pc[v] \in Working /\ cur[v].job = j
    BY <2>1 DEF HeldOnce
  <2>3. QED
    BY <1>1, <2>2, CoveredIsLive DEF Punctual
<1>5. Claimable(run[j])
  BY <1>3 DEF ClaimRow, Grants
<1>6. run[j].status = "queued" /\ run[j].attempts = 0
  BY <1>1, <1>4, <1>5 DEF Claimable, RowInv, Row
<1>7. Grants(run[j]) /\ run'[j] = Granted(run[j])
  BY <1>3, <1>5, <1>6, BudgetAssumption DEF ClaimRow, Grants
<1>8. run'[j].attempts = 1
  BY <1>1, <1>6, <1>7 DEF Granted, Row
<1>9. Goto(w, "execute", [cur[w] EXCEPT !.token = run[j].attempts + 1])
  BY <1>2, <1>3, <1>7 DEF Claim
<1>10. pc'[w] = "execute" /\ cur'[w] = [cur[w] EXCEPT !.token = run[j].attempts + 1]
  BY <1>1, <1>9, GotoFacts
<1>11. QED
  BY <1>1, <1>3, <1>8, <1>10 DEF Locals

\* Every step that is not a fault keeps every run at one attempt.
LEMMA OnceStep ==
  ASSUME IInv, LeaseInv, OnceInv, [Next]_vars, RowDecodes
  PROVE  OnceInv'
<1>1. SUFFICES ASSUME Undisturbed', NEW j \in Jobs
               PROVE  HeldOnce(j)'
  BY DEF OnceInv
<1>2. Punctual /\ \A k \in Jobs : HeldOnce(k)
  BY <1>1, FaultsOnlyHappen DEF LeaseInv, OnceInv, Punctual, Undisturbed
<1>3. run \in [Jobs -> Row] /\ run' \in [Jobs -> Row]
  BY RowsStep DEF IInv, TypeOK
<1>4. ASSUME NEW w \in Workers, NEW net \in Ends, Claim(w, net), run'[j] # run[j]
      PROVE  HeldOnce(j)'
  BY <1>2, <1>4, ClaimStaysOnce DEF HeldOnce, Working
<1>5. ASSUME run'[j].attempts = run[j].attempts,
             run'[j].status = "running" => run[j].status = "running"
      PROVE  HeldOnce(j)'
  <2>1. run'[j].attempts <= 1
    BY <1>2, <1>5 DEF HeldOnce
  <2>2. ASSUME run'[j].status = "running"
        PROVE  \E w \in Workers : pc'[w] \in Working /\ cur'[w].job = j
    <3>1. PICK w \in Workers : pc[w] \in Working /\ cur[w].job = j
      BY <1>2, <1>5, <2>2 DEF HeldOnce
    <3>2. ASSUME NEW net \in Ends, Finish(w, net)
          PROVE  FALSE
      <4>1. net = "ok" /\ HoldsLease(run[j], cur[w].token)
        BY <1>2, <3>1, <3>2, CallAnswered, CoveredIsLive DEF Punctual, Finish
      <4>2. run'[j] = Closed(run[j], Target(cur[w]), cur[w].error)
        BY <1>3, <3>1, <3>2, <4>1 DEF Finish, Ran, FinishRow
      <4>3. run'[j].status = Target(cur[w])
        BY <1>3, <4>2 DEF Closed, Row
      <4>4. QED
        BY <2>2, <4>3 DEF Target
    <3>3. QED
      BY <1>2, <3>1, <3>2, WorksUntilFinish
  <2>3. QED
    BY <2>1, <2>2 DEF HeldOnce
<1>6. CASE \E w \in Workers, net \in Ends : Claim(w, net)
  BY <1>4, <1>5, <1>6
<1>7. CASE ~(\E w \in Workers, net \in Ends : Claim(w, net))
  BY <1>5, <1>7, OnlyClaimsCount
<1>8. QED
  BY <1>6, <1>7

\* Until a first fault or late heartbeat, no run is attempted twice, however often
\* the queue hands its message out again.
THEOREM AttemptedOnceHolds ==
  ASSUME BeatsBeforeExpiry, RowDecodes
  PROVE  Spec => []AttemptedOnce
<1>1. Init => LeaseInv /\ OnceInv
  BY DEF Init, LeaseInv, Covered, Attached, Working, OnceInv, HeldOnce, AbsentRow
<1>2. IInv /\ LeaseInv /\ OnceInv /\ [Next]_vars => LeaseInv' /\ OnceInv'
  BY LeaseStep, OnceStep
<1>3. OnceInv => AttemptedOnce
  BY DEF OnceInv, HeldOnce, AttemptedOnce
<1>4. QED
  BY <1>1, <1>2, <1>3, InvariantHolds, PTL DEF Spec

-----------------------------------------------------------------------------
\* The contract's sentence "a stale lease token cannot finalize a run" is true
\* until a first fault or late heartbeat, although the finish transaction does
\* not look at the lease's end.
THEOREM UndisturbedFinishIsNotStale ==
  ASSUME BeatsBeforeExpiry
  PROVE  Spec => [][Undisturbed => FinalizedUnderLiveLease]_vars
<1>1. Init => LeaseInv
  BY DEF Init, LeaseInv, Covered, Attached, Working
<1>2. IInv /\ LeaseInv /\ [Next]_vars => LeaseInv'
  BY LeaseStep
<1>3. IInv /\ LeaseInv /\ [Next]_vars => [Undisturbed => FinalizedUnderLiveLease]_vars
  <2>1. SUFFICES ASSUME IInv, LeaseInv, [Next]_vars, Undisturbed, NEW j \in Jobs,
                        run[j].status = "running", run'[j].status \in Terminal,
                        run'[j].error # "max_attempts_exceeded"
                 PROVE  run[j].ttl > 0
    BY DEF FinalizedUnderLiveLease
  <2>2. run \in [Jobs -> Row] /\ run[j] \in Row /\ run[j].status \notin Terminal
    BY <2>1 DEF IInv, TypeOK, Terminal
  <2>3. run'[j] # run[j] /\ run'[j].status # "running"
    BY <2>1, <2>2 DEF Terminal
  <2>4. ASSUME run' = [k \in Jobs |-> AgeRow(run[k])]
        PROVE  FALSE
    BY <2>2, <2>1, <2>3, <2>4 DEF AgeRow, Row
  <2>5. ASSUME NEW k \in Jobs, run[k].status = "absent",
               run' = [run EXCEPT ![k] = [run[k] EXCEPT !.status = "queued"]]
        PROVE  FALSE
    BY <2>1, <2>2, <2>3, <2>5 DEF Row
  <2>6. ASSUME NEW k \in Jobs, run' = [run EXCEPT ![k] = ClaimRow(run[k])]
        PROVE  FALSE
    <3>1. run'[j] = ClaimRow(run[j])
      BY <2>2, <2>3, <2>6
    <3>2. run'[j] = Granted(run[j]) \/ run'[j] = Closed(run[j], "failed", "max_attempts_exceeded")
      BY <2>3, <3>1 DEF ClaimRow
    <3>3. Granted(run[j]).status = "running"
      BY <2>2 DEF Granted, Row
    <3>4. Closed(run[j], "failed", "max_attempts_exceeded").error = "max_attempts_exceeded"
      BY <2>2 DEF Closed, Row
    <3>5. QED
      BY <2>1, <2>3, <3>2, <3>3, <3>4
  <2>7. ASSUME NEW k \in Jobs, NEW tok, run' = [run EXCEPT ![k] = RenewRow(run[k], tok)]
        PROVE  FALSE
    <3>1. run'[j] = RenewRow(run[j], tok)
      BY <2>2, <2>3, <2>7
    <3>2. QED
      BY <2>1, <2>2, <2>3, <3>1 DEF RenewRow, Row
  <2>8. ASSUME NEW w \in Workers,
               run' = [run EXCEPT ![cur[w].job] =
                          RecordRow(run[cur[w].job], cur[w].token, cur[w].result)]
        PROVE  FALSE
    <3>1. run'[j] = RecordRow(run[j], cur[w].token, cur[w].result)
      BY <2>2, <2>3, <2>8
    <3>2. QED
      BY <2>1, <2>2, <2>3, <3>1 DEF RecordRow, Row
  <2>9. ASSUME NEW w \in Workers, pc[w] = "finish",
               run' = [run EXCEPT ![cur[w].job] =
                          FinishRow(run[cur[w].job], cur[w].token, Target(cur[w]), cur[w].error)]
        PROVE  run[j].ttl > 0
    <3>1. cur[w].job = j
      BY <2>2, <2>3, <2>9
    <3>2. Covered(w)
      BY <2>1 DEF LeaseInv
    <3>3. QED
      BY <2>1, <2>9, <3>1, <3>2, CoveredIsLive DEF Working
  <2>10. QED
    BY <2>1, <2>3, <2>4, <2>5, <2>6, <2>7, <2>8, <2>9, RowChange
<1>4. QED
  BY <1>1, <1>2, <1>3, InvariantHolds, PTL DEF Spec

\* Where the adapter accepts the row that the claim returns and no call fails,
\* a claim that counts an attempt hands it to the worker that called it.
THEOREM DecodedClaimHandsOutLease ==
  ASSUME RowDecodes, MaxFaults = 0
  PROVE  Spec => ClaimHandsOutLease
<1> DEFINE Handed == \A j \in Jobs : run'[j].attempts > run[j].attempts =>
                        \E w \in Workers : /\ pc'[w] = "execute"
                                           /\ cur'[w].job = j
                                           /\ cur'[w].token = run'[j].token
<1>1. IInv /\ [Next]_vars /\ IInv' => Handed
  <2>1. SUFFICES ASSUME IInv, [Next]_vars, IInv', NEW j \in Jobs,
                        run'[j].attempts > run[j].attempts
                 PROVE  \E w \in Workers : /\ pc'[w] = "execute"
                                           /\ cur'[w].job = j
                                           /\ cur'[w].token = run'[j].token
    OBVIOUS
  <2>2. run \in [Jobs -> Row] /\ run[j] \in Row /\ run[j].attempts \in Nat
    BY <2>1, BudgetAssumption DEF IInv, TypeOK, Row
  <2>3. PICK w \in Workers, net \in Ends : Claim(w, net)
    BY <2>1, <2>2, OnlyClaimsCount
  <2>4. faults' = faults
    BY <2>1 DEF IInv, TypeOK
  <2>5. net = "ok" /\ cur[w] \in Locals /\ cur[w].job \in Jobs
    BY <2>1, <2>3, <2>4, CallAnswered DEF Claim, IInv, TypeOK, WorkerInv
  <2>6. run'[j] # run[j]
    BY <2>1, <2>2
  <2>7. cur[w].job = j /\ run'[j] = ClaimRow(run[j])
    BY <2>2, <2>3, <2>5, <2>6 DEF Claim, Ran
  <2>8. Grants(run[j])
    <3>1. Closed(run[j], "failed", "max_attempts_exceeded").attempts = run[j].attempts
      BY <2>2 DEF Closed, Row
    <3>2. QED
      BY <2>1, <2>2, <2>6, <2>7, <3>1 DEF ClaimRow
  <2>9. run'[j].token = run[j].attempts + 1
    BY <2>2, <2>7, <2>8 DEF ClaimRow, Granted, Row
  <2>10. Goto(w, "execute", [cur[w] EXCEPT !.token = run[j].attempts + 1])
    BY <2>3, <2>5, <2>7, <2>8 DEF Claim
  <2>11. pc'[w] = "execute" /\ cur'[w] = [cur[w] EXCEPT !.token = run[j].attempts + 1]
    BY <2>1, <2>10, GotoFacts
  <2>12. QED
    BY <2>5, <2>7, <2>9, <2>11 DEF Locals
<1>2. Handed => [\A j \in Jobs : run'[j].attempts > run[j].attempts =>
                   \E w \in Workers : /\ pc'[w] = "execute"
                                      /\ cur'[w].job = j
                                      /\ cur'[w].token = run'[j].token]_vars
  OBVIOUS
<1>3. QED
  BY <1>1, <1>2, InvariantHolds, PTL DEF Spec, ClaimHandsOutLease
=============================================================================
