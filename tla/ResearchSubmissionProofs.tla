---------------------- MODULE ResearchSubmissionProofs ----------------------
(***************************************************************************)
(* Idempotent submission for any requests, keys, bodies, limits and lost   *)
(* calls.                                                                  *)
(*                                                                         *)
(* Until a key lapses, the run it is reserved for is the only one of its   *)
(* requests; every 202 names a run that was made under the same key and    *)
(* body.                                                                   *)
(***************************************************************************)
EXTENDS ResearchSubmission, FiniteSetTheorems, TLAPS

\* A run is inserted by the create call of its request and by nothing else.
Inserted == \A r \in Requests :
               /\ pc[r] \in {"quota", "limit", "create"} => row[r] = "absent"
               /\ pc[r] = "enqueue" => row[r] # "absent"

\* A reservation is for a run made under the key, and no other run was made
\* under the key before it lapsed.
Reserved == /\ \A k \in Keys : idem[k] # NoRequest =>
                  KeyOf[idem[k]] = k /\ row[idem[k]] # "absent"
            /\ \A r \in Requests : row[r] # "absent" /\ KeyOf[r] \notin expired =>
                  idem[KeyOf[r]] = r

Answered == \A r \in Requests : reply[r] = "202" =>
               /\ answer[r] \in Requests /\ row[answer[r]] # "absent"
               /\ KeyOf[answer[r]] = KeyOf[r] /\ BodyOf[answer[r]] = BodyOf[r]

Inv == TypeOK /\ Inserted /\ Reserved /\ Answered /\ UndeliveredRunsWereReported

LEMMA InitInv == Init => Inv
BY SubmissionAssumption DEF Init, Inv, TypeOK, Steps, Replies, Inserted, Reserved, Answered,
   UndeliveredRunsWereReported

\* A request without a run is answered without one.
LEMMA RespondInv ==
    ASSUME Inv, NEW r \in Requests, row[r] = "absent", NEW code \in Replies, NEW named,
           Respond(r, code, named),
           \/ code # "202" /\ named = NoRequest
           \/ /\ named \in Requests /\ row[named] # "absent"
              /\ KeyOf[named] = KeyOf[r] /\ BodyOf[named] = BodyOf[r],
           UNCHANGED <<row, month, idem, expired, sent>>, faults' \in 0 .. MaxFaults
    PROVE  Inv'
<1> USE DEF Inv, TypeOK, Respond
<1>1. TypeOK'
  BY DEF Steps
<1>2. Inserted' /\ Reserved'
  BY DEF Inserted, Reserved
<1>3. Answered'
  BY DEF Answered
<1>4. UndeliveredRunsWereReported'
  BY DEF UndeliveredRunsWereReported
<1>5. QED
  BY <1>1, <1>2, <1>3, <1>4

\* Checks that pass.
LEMMA ProceedInv ==
    ASSUME Inv, NEW r \in Requests, row[r] = "absent", NEW step \in {"limit", "create"},
           Proceed(r, step), UNCHANGED <<row, month, idem, expired, sent, faults>>
    PROVE  Inv'
<1> USE DEF Inv, TypeOK, Proceed
<1>1. TypeOK'
  BY DEF Steps
<1>2. Inserted' /\ Reserved'
  BY DEF Inserted, Reserved
<1>3. Answered' /\ UndeliveredRunsWereReported'
  BY DEF Answered, UndeliveredRunsWereReported
<1>4. QED
  BY <1>1, <1>2, <1>3

LEMMA ChargeType ==
    ASSUME Inv, NEW net, Charge(net) PROVE faults' \in 0 .. MaxFaults
BY SubmissionAssumption DEF Inv, TypeOK, Charge

LEMMA CreateInv ==
    ASSUME Inv, NEW r \in Requests, NEW net \in Ends, Create(r, net) PROVE Inv'
<1> DEFINE k == KeyOf[r]
<1>k. k \in Keys /\ NoRequest \notin Requests
  BY SubmissionAssumption
<1>1. /\ pc[r] = "create" /\ row[r] = "absent"
      /\ UNCHANGED <<expired, sent>> /\ faults' \in 0 .. MaxFaults
  BY ChargeType DEF Create, Inv, Inserted
<1>r. {"202", "409", "500"} \subseteq Replies
  BY DEF Replies
<1>2. CASE net # "lost" /\ Free(r)
  <2>1. /\ row' = [row EXCEPT ![r] = "active"]
        /\ month' = month \cup {r}
        /\ idem' = [idem EXCEPT ![k] = r]
        /\ idem[k] = NoRequest
        /\ Proceed(r, "enqueue") \/ Respond(r, "500", NoRequest)
    BY <1>2 DEF Create, Reserve, Free
  <2>2. /\ pc' = [pc EXCEPT ![r] = "enqueue"] \/ pc' = [pc EXCEPT ![r] = "done"]
        /\ reply' = reply \/ reply' = [reply EXCEPT ![r] = "500"]
        /\ answer' = answer \/ answer' = [answer EXCEPT ![r] = NoRequest]
        /\ reply'[r] = "202" => reply' = reply /\ answer' = answer
    BY <2>1 DEF Proceed, Respond, Inv, TypeOK
  <2>3. TypeOK'
    BY <1>1, <1>k, <1>r, <2>1, <2>2 DEF Inv, TypeOK, Steps
  <2>4. Inserted'
    BY <1>1, <2>1, <2>2 DEF Inv, TypeOK, Inserted
  <2>5. Reserved'
    <3>1. \A s \in Requests : row[s] # "absent" /\ KeyOf[s] \notin expired => KeyOf[s] # k
      BY <1>k, <2>1 DEF Inv, Reserved
    <3>2. QED
      BY <1>1, <1>k, <2>1, <3>1, SubmissionAssumption DEF Inv, TypeOK, Reserved
  <2>6. Answered'
    BY <1>1, <2>1, <2>2 DEF Inv, TypeOK, Answered
  <2>7. UndeliveredRunsWereReported'
    BY <1>1, <2>1 DEF Inv, TypeOK, UndeliveredRunsWereReported, Proceed, Respond
  <2>8. QED
    BY <2>3, <2>4, <2>5, <2>6, <2>7 DEF Inv
<1>3. CASE ~(net # "lost" /\ Free(r))
  <2>1. UNCHANGED <<row, month, idem>>
    BY <1>3 DEF Create
  <2>2. CASE \E code \in {"409", "500"} : Respond(r, code, NoRequest)
    <3>1. PICK code \in {"409", "500"} : Respond(r, code, NoRequest)
      BY <2>2
    <3>2. code # "202" /\ code \in Replies
      BY <1>r
    <3>3. QED
      BY <1>1, <2>1, <3>1, <3>2, RespondInv
  <2>3. CASE ~Free(r) /\ Replays(r, idem[k]) /\ Respond(r, "202", idem[k])
    <3>1. /\ idem[k] \in Requests /\ row[idem[k]] # "absent"
          /\ KeyOf[idem[k]] = KeyOf[r] /\ BodyOf[idem[k]] = BodyOf[r]
      BY <1>k, <2>3 DEF Free, Replays, Inv, TypeOK, Reserved
    <3>2. QED
      BY <1>1, <1>r, <2>1, <2>3, <3>1, RespondInv
  <2>4. QED
    BY <1>3, <2>2, <2>3 DEF Create, Conflict, Ends
<1>4. QED
  BY <1>2, <1>3

LEMMA NextInv == Inv /\ [Next]_vars => Inv'
<1> SUFFICES ASSUME Inv, [Next]_vars PROVE Inv'
  OBVIOUS
<1>f. faults \in 0 .. MaxFaults
  BY DEF Inv, TypeOK
<1>r. {"refused", "402", "429"} \subseteq Replies
  BY DEF Replies
<1>1. ASSUME NEW r \in Requests, Refuse(r) \/ CheckQuota(r) \/ CheckConcurrency(r) PROVE Inv'
  <2>1. row[r] = "absent" /\ UNCHANGED <<row, month, idem, expired, sent, faults>>
    BY <1>1 DEF Refuse, CheckQuota, CheckConcurrency, Inv, Inserted
  <2>2. \/ \E code \in {"refused", "402", "429"} : Respond(r, code, NoRequest)
        \/ \E step \in {"limit", "create"} : Proceed(r, step)
    BY <1>1 DEF Refuse, CheckQuota, CheckConcurrency
  <2>3. CASE \E code \in {"refused", "402", "429"} : Respond(r, code, NoRequest)
    <3>1. PICK code \in {"refused", "402", "429"} : Respond(r, code, NoRequest)
      BY <2>3
    <3>2. code # "202" /\ code \in Replies
      BY <1>r
    <3>3. QED
      BY <1>f, <2>1, <3>1, <3>2, RespondInv
  <2>4. CASE \E step \in {"limit", "create"} : Proceed(r, step)
    BY <2>1, <2>4, ProceedInv
  <2>5. QED
    BY <2>2, <2>3, <2>4
<1>2. ASSUME NEW r \in Requests, NEW net \in Ends, Enqueue(r, net) PROVE Inv'
  <2>1. /\ pc[r] = "enqueue" /\ row[r] # "absent" /\ faults' \in 0 .. MaxFaults
        /\ UNCHANGED <<row, month, idem, expired>>
        /\ sent' = sent \/ sent' = sent \cup {r}
    BY <1>2, ChargeType DEF Enqueue, Inv, Inserted
  <2>2. \/ net = "ok" /\ Respond(r, "202", r) /\ r \in sent'
        \/ Respond(r, "500", NoRequest)
    BY <1>2 DEF Enqueue
  <2>3. TypeOK'
    BY <2>1, <2>2 DEF Inv, TypeOK, Respond, Steps, Replies
  <2>4. Inserted' /\ Reserved'
    BY <2>1, <2>2 DEF Inv, TypeOK, Inserted, Reserved, Respond
  <2>5. Answered'
    BY <2>1, <2>2 DEF Inv, TypeOK, Answered, Respond
  <2>6. UndeliveredRunsWereReported'
    BY <2>1, <2>2 DEF Inv, TypeOK, UndeliveredRunsWereReported, Respond
  <2>7. QED
    BY <2>3, <2>4, <2>5, <2>6 DEF Inv
<1>3. ASSUME NEW r \in Requests, RunEnds(r) PROVE Inv'
  BY <1>3 DEF RunEnds, Inv, TypeOK, Inserted, Reserved, Answered, UndeliveredRunsWereReported
<1>4. ASSUME NEW k \in Keys, KeyExpires(k) PROVE Inv'
  BY <1>4 DEF KeyExpires, Inv, TypeOK, Inserted, Reserved, Answered, UndeliveredRunsWereReported
<1>5. CASE MonthBegins
  BY <1>5 DEF MonthBegins, Inv, TypeOK, Inserted, Reserved, Answered, UndeliveredRunsWereReported
<1>6. CASE UNCHANGED vars
  BY <1>6 DEF vars, Inv, TypeOK, Inserted, Reserved, Answered, UndeliveredRunsWereReported
<1>7. QED
  BY <1>1, <1>2, <1>3, <1>4, <1>5, <1>6, CreateInv DEF Next

LEMMA Invariance == Spec => []Inv
BY InitInv, NextInv, PTL DEF Spec

\* The rows, keys and answers of submissions have their types.
THEOREM TypeCorrect == Spec => []TypeOK
BY Invariance, PTL DEF Inv

\* Requests with one key make one run until the reservation lapses.
THEOREM OneRunPerKeyHolds == Spec => []OneRunPerKey
<1>1. Inv => OneRunPerKey
  BY DEF Inv, Reserved, OneRunPerKey
<1>2. QED
  BY <1>1, Invariance, PTL

\* A 202 names a run made for the same body, and one run per reservation.
THEOREM AnswersAgreeHolds == Spec => []AnswersAgree
<1>1. Inv => AnswersAgree
  BY DEF Inv, Reserved, Answered, AnswersAgree
<1>2. QED
  BY <1>1, Invariance, PTL

\* Only a request that was answered 500 leaves a run without a queue message.
THEOREM UndeliveredRunsWereReportedHolds == Spec => []UndeliveredRunsWereReported
BY Invariance, PTL DEF Inv
-----------------------------------------------------------------------------
(* A lost or cut call is the only way to a 202 without a queue message.         *)

Delivered == faults = MaxFaults =>
    \A r \in Requests : row[r] # "absent" => r \in sent \/ pc[r] = "enqueue"

LEMMA ChargeFault ==
    ASSUME Inv, NEW net, Charge(net), faults' = MaxFaults
    PROVE  net = "ok" /\ faults = MaxFaults
BY SubmissionAssumption DEF Inv, TypeOK, Charge

LEMMA DeliveredStep == Inv /\ Delivered /\ [Next]_vars => Delivered'
<1> SUFFICES ASSUME Inv, Delivered, [Next]_vars, faults' = MaxFaults,
                    NEW s \in Requests, row'[s] # "absent"
             PROVE  s \in sent' \/ pc'[s] = "enqueue"
  BY DEF Delivered
<1>t. /\ row \in [Requests -> {"absent", "active", "ended"}] /\ pc \in [Requests -> Steps]
      /\ pc[s] \in {"quota", "limit", "create"} => row[s] = "absent"
  BY DEF Inv, TypeOK, Inserted
<1>1. ASSUME NEW r \in Requests, NEW net \in Ends, Create(r, net)
      PROVE  s \in sent' \/ pc'[s] = "enqueue"
  <2>1. net = "ok" /\ faults = MaxFaults /\ sent' = sent /\ pc[r] = "create"
    BY <1>1, ChargeFault DEF Create
  <2>2. CASE s = r
    <3>1. Free(r)
      BY <1>1, <1>t, <2>1, <2>2 DEF Create
    <3>2. Proceed(r, "enqueue")
      BY <1>1, <2>1, <3>1 DEF Create
    <3>3. QED
      BY <1>t, <2>2, <3>2 DEF Proceed
  <2>3. CASE s # r
    <3>1. row'[s] = row[s] /\ pc'[s] = pc[s]
      BY <1>1, <1>t, <2>1, <2>3 DEF Create, Reserve, Proceed, Respond
    <3>2. QED
      BY <2>1, <3>1 DEF Delivered
  <2>4. QED
    BY <2>2, <2>3
<1>2. ASSUME NEW r \in Requests, NEW net \in Ends, Enqueue(r, net)
      PROVE  s \in sent' \/ pc'[s] = "enqueue"
  <2>1. /\ net = "ok" /\ faults = MaxFaults /\ sent' = sent \cup {r} /\ row' = row
        /\ Respond(r, "202", r)
    BY <1>2, ChargeFault DEF Enqueue
  <2>2. QED
    BY <1>t, <2>1 DEF Delivered, Respond
<1>3. ASSUME NEW r \in Requests, Refuse(r) \/ CheckQuota(r) \/ CheckConcurrency(r)
      PROVE  s \in sent' \/ pc'[s] = "enqueue"
  <2>1. /\ faults = MaxFaults /\ sent' = sent /\ row' = row
        /\ pc[r] \in {"quota", "limit", "create"}
        /\ \A u \in Requests : u # r => pc'[u] = pc[u]
    BY <1>3, <1>t DEF Refuse, CheckQuota, CheckConcurrency, Proceed, Respond
  <2>2. QED
    BY <1>t, <2>1 DEF Delivered
<1>4. ASSUME NEW r \in Requests, RunEnds(r) PROVE s \in sent' \/ pc'[s] = "enqueue"
  BY <1>4, <1>t DEF RunEnds, Delivered
<1>5. CASE MonthBegins \/ (\E k \in Keys : KeyExpires(k)) \/ UNCHANGED vars
  BY <1>5 DEF MonthBegins, KeyExpires, vars, Delivered
<1>6. QED
  BY <1>1, <1>2, <1>3, <1>4, <1>5 DEF Next

\* As long as no call was lost or cut, every run named by a 202 is in the queue or
\* about to be sent: the failed send is what AcceptedIsEnqueued fails on.
THEOREM AcceptedIsEnqueuedUntilFault ==
    Spec => [](faults = MaxFaults => AcceptedIsEnqueued)
<1>1. Init => Delivered
  BY DEF Init, Delivered
<1>2. Inv /\ Delivered => (faults = MaxFaults => AcceptedIsEnqueued)
  BY DEF Inv, Answered, Delivered, AcceptedIsEnqueued
<1>3. QED
  BY <1>1, <1>2, DeliveredStep, Invariance, PTL DEF Spec

-----------------------------------------------------------------------------
(***************************************************************************)
(* The limits.  A run that counts against a limit was inserted by a        *)
(* request that passed the check before, so what grows is the number of    *)
(* runs and of requests past the check together: at the check the runs are *)
(* fewer than the limit, and the racers are at most n.                     *)
(***************************************************************************)

\* used counts against limit; past has passed the check and not yet inserted.
Room(used, past, limit, n) ==
    /\ IsFiniteSet(used) /\ IsFiniteSet(past)
    /\ Cardinality(used) + Cardinality(past) <= limit - 1 + n

\* The three ways a step moves runs and racers: some leave, a racer inserts its
\* run, or a request passes the check.
Moves(used, past, usedNext, pastNext, limit) ==
    \/ usedNext \subseteq used /\ pastNext \subseteq past
    \/ \E r \in past : usedNext = used \cup {r} /\ pastNext = past \ {r}
    \/ \E r : usedNext = used /\ pastNext = past \cup {r} /\ Cardinality(used) < limit

\* Each of them leaves the room there was, where at most n race.
LEMMA RoomKept ==
    ASSUME NEW A, NEW B, NEW C, NEW D, NEW limit \in Nat, NEW n \in Nat,
           Room(A, B, limit, n), Moves(A, B, C, D, limit), Cardinality(D) <= n
    PROVE  Room(C, D, limit, n)
<1>1. /\ IsFiniteSet(A) /\ IsFiniteSet(B) /\ Cardinality(A) \in Nat /\ Cardinality(B) \in Nat
      /\ Cardinality(A) + Cardinality(B) <= limit - 1 + n
  BY FS_CardinalityType DEF Room
<1>2. CASE C \subseteq A /\ D \subseteq B
  <2>1. /\ IsFiniteSet(C) /\ Cardinality(C) <= Cardinality(A)
        /\ IsFiniteSet(D) /\ Cardinality(D) <= Cardinality(B)
    BY <1>1, <1>2, FS_Subset
  <2>2. Cardinality(C) \in Nat /\ Cardinality(D) \in Nat
    BY <2>1, FS_CardinalityType
  <2>3. QED
    BY <1>1, <2>1, <2>2 DEF Room
<1>3. CASE \E r \in B : C = A \cup {r} /\ D = B \ {r}
  <2>1. PICK r \in B : C = A \cup {r} /\ D = B \ {r}
    BY <1>3
  <2>2. IsFiniteSet(C) /\ (Cardinality(C) = Cardinality(A) \/ Cardinality(C) = Cardinality(A) + 1)
    BY <1>1, <2>1, FS_AddElement
  <2>3. IsFiniteSet(D) /\ Cardinality(D) = Cardinality(B) - 1
    BY <1>1, <2>1, FS_RemoveElement
  <2>4. QED
    BY <1>1, <2>2, <2>3 DEF Room
<1>4. CASE \E r : C = A /\ D = B \cup {r} /\ Cardinality(A) < limit
  <2>1. C = A /\ IsFiniteSet(D) /\ Cardinality(A) < limit
    BY <1>1, <1>4, FS_AddElement
  <2>2. Cardinality(D) \in Nat
    BY <2>1, FS_CardinalityType
  <2>3. QED
    BY <1>1, <2>1, <2>2 DEF Room
<1>5. QED
  BY <1>2, <1>3, <1>4 DEF Moves

\* A request that answers leaves the racers, and no run comes or goes.
LEMMA RespondMoves ==
    ASSUME TypeOK, NEW r \in Requests, NEW code, NEW named, Respond(r, code, named),
           UNCHANGED <<row, month>>
    PROVE  /\ Moves(Active, Admitted, Active', Admitted', MaxConcurrent)
           /\ Moves(month, Counted, month', Counted', MaxMonthly)
BY DEF TypeOK, Respond, Active, Admitted, Counted, Moves

LEMMA CheckMoves ==
    ASSUME TypeOK, NEW r \in Requests, CheckQuota(r) \/ CheckConcurrency(r)
    PROVE  /\ ~Unlimited(MaxConcurrent) =>
                  Moves(Active, Admitted, Active', Admitted', MaxConcurrent)
           /\ ~Unlimited(MaxMonthly) => Moves(month, Counted, month', Counted', MaxMonthly)
<1>1. UNCHANGED <<row, month>>
  BY DEF CheckQuota, CheckConcurrency
<1>2. CASE \E code : Respond(r, code, NoRequest)
  BY <1>1, <1>2, RespondMoves
<1>3. CASE /\ pc[r] = "quota" /\ Allows(MaxMonthly, Cardinality(month))
           /\ Proceed(r, "limit")
  <2>1. Admitted' = Admitted /\ Counted' = Counted \cup {r} /\ Active' = Active
    BY <1>1, <1>3 DEF TypeOK, Proceed, Admitted, Counted, Active
  <2>2. QED
    BY <1>1, <1>3, <2>1 DEF Moves, Allows, Unlimited
<1>4. CASE /\ pc[r] = "limit" /\ Allows(MaxConcurrent, Cardinality(Active))
           /\ Proceed(r, "create")
  <2>1. Admitted' = Admitted \cup {r} /\ Counted' = Counted /\ Active' = Active
    BY <1>1, <1>4 DEF TypeOK, Proceed, Admitted, Counted, Active
  <2>2. QED
    BY <1>1, <1>4, <2>1 DEF Moves, Allows, Unlimited
<1>5. QED
  BY <1>2, <1>3, <1>4 DEF CheckQuota, CheckConcurrency

LEMMA CreateMoves ==
    ASSUME TypeOK, NEW r \in Requests, NEW net \in Ends, Create(r, net)
    PROVE  /\ Moves(Active, Admitted, Active', Admitted', MaxConcurrent)
           /\ Moves(month, Counted, month', Counted', MaxMonthly)
<1>1. CASE net # "lost" /\ Free(r)
  <2>1. /\ pc[r] = "create"
        /\ row' = [row EXCEPT ![r] = "active"] /\ month' = month \cup {r}
        /\ Proceed(r, "enqueue") \/ Respond(r, "500", NoRequest)
    BY <1>1 DEF Create, Reserve
  <2>2. pc' = [pc EXCEPT ![r] = "enqueue"] \/ pc' = [pc EXCEPT ![r] = "done"]
    BY <2>1 DEF Proceed, Respond
  <2>3. /\ r \in Admitted /\ r \in Counted
        /\ Admitted' = Admitted \ {r} /\ Counted' = Counted \ {r}
        /\ Active' = Active \cup {r}
    BY <2>1, <2>2 DEF TypeOK, Admitted, Counted, Active
  <2>4. QED
    BY <2>1, <2>3 DEF Moves
<1>2. CASE ~(net # "lost" /\ Free(r))
  <2>1. UNCHANGED <<row, month>> /\ \E code, named : Respond(r, code, named)
    BY <1>2 DEF Create, Ends
  <2>2. QED
    BY <2>1, RespondMoves
<1>3. QED
  BY <1>1, <1>2

LEMMA NextMoves ==
    ASSUME TypeOK, [Next]_vars
    PROVE  /\ ~Unlimited(MaxConcurrent) =>
                  Moves(Active, Admitted, Active', Admitted', MaxConcurrent)
           /\ ~Unlimited(MaxMonthly) => Moves(month, Counted, month', Counted', MaxMonthly)
<1>1. ASSUME NEW r \in Requests, Refuse(r)
      PROVE  /\ Moves(Active, Admitted, Active', Admitted', MaxConcurrent)
             /\ Moves(month, Counted, month', Counted', MaxMonthly)
  BY <1>1, RespondMoves DEF Refuse
<1>2. ASSUME NEW r \in Requests, NEW net \in Ends, Enqueue(r, net)
      PROVE  /\ Moves(Active, Admitted, Active', Admitted', MaxConcurrent)
             /\ Moves(month, Counted, month', Counted', MaxMonthly)
  <2>1. UNCHANGED <<row, month>> /\ \E code, named : Respond(r, code, named)
    BY <1>2 DEF Enqueue
  <2>2. QED
    BY <2>1, RespondMoves
<1>3. ASSUME NEW r \in Requests, RunEnds(r)
      PROVE  /\ Moves(Active, Admitted, Active', Admitted', MaxConcurrent)
             /\ Moves(month, Counted, month', Counted', MaxMonthly)
  <2>1. Active' \subseteq Active /\ UNCHANGED <<month, pc>>
    BY <1>3 DEF RunEnds, TypeOK, Active
  <2>2. Admitted' = Admitted /\ Counted' = Counted
    BY <2>1 DEF Admitted, Counted
  <2>3. QED
    BY <2>1, <2>2 DEF Moves
<1>4. CASE MonthBegins \/ (\E k \in Keys : KeyExpires(k)) \/ UNCHANGED vars
  <2>1. month' \subseteq month /\ UNCHANGED <<row, pc>>
    BY <1>4 DEF MonthBegins, KeyExpires, vars
  <2>2. Admitted' = Admitted /\ Counted' = Counted /\ Active' = Active
    BY <2>1 DEF Admitted, Counted, Active
  <2>3. QED
    BY <2>1, <2>2 DEF Moves
<1>5. QED
  BY <1>1, <1>2, <1>3, <1>4, CheckMoves, CreateMoves DEF Next

\* Where at most n requests at a time are past a check and not yet inserted, the
\* limit of that check is exceeded by at most n - 1 runs: neither check is made
\* in the transaction that inserts.
THEOREM OvershootBounded ==
    ASSUME NEW n \in Nat PROVE Spec => OvershootIsBounded(n)
<1> DEFINE Concurrent == Room(Active, Admitted, MaxConcurrent, n)
           Monthly == Room(month, Counted, MaxMonthly, n)
           Few == Cardinality(Admitted) <= n
           FewCounted == Cardinality(Counted) <= n
           Bound == Cardinality(Active) <= MaxConcurrent - 1 + n
           BoundMonth == Cardinality(month) <= MaxMonthly - 1 + n
<1>1. /\ ~Unlimited(MaxConcurrent) => (Init => Concurrent)
      /\ ~Unlimited(MaxMonthly) => (Init => Monthly)
  <2> SUFFICES ASSUME Init
               PROVE  /\ ~Unlimited(MaxConcurrent) => Concurrent
                      /\ ~Unlimited(MaxMonthly) => Monthly
    OBVIOUS
  <2>1. Active = {} /\ Admitted = {} /\ Counted = {} /\ month = {}
    BY DEF Init, Active, Admitted, Counted
  <2>2. QED
    BY <2>1, FS_EmptySet, SubmissionAssumption DEF Room, Unlimited
<1>2. /\ ~Unlimited(MaxConcurrent) =>
            (TypeOK /\ [Next]_vars /\ Concurrent /\ Few' => Concurrent')
      /\ ~Unlimited(MaxMonthly) =>
            (TypeOK /\ [Next]_vars /\ Monthly /\ FewCounted' => Monthly')
  BY NextMoves, RoomKept, SubmissionAssumption
<1>3. (Concurrent => Bound) /\ (Monthly => BoundMonth)
  BY FS_CardinalityType, SubmissionAssumption DEF Room
<1>4. ASSUME ~Unlimited(MaxConcurrent) PROVE Spec /\ []Few => []Bound
  <2>1. (Init => Concurrent) /\ (TypeOK /\ [Next]_vars /\ Concurrent /\ Few' => Concurrent')
    BY <1>1, <1>2, <1>4
  <2> HIDE DEF Concurrent, Few, Bound
  <2>2. QED
    BY <1>3, <2>1, TypeCorrect, PTL DEF Spec
<1>5. ASSUME ~Unlimited(MaxMonthly) PROVE Spec /\ []FewCounted => []BoundMonth
  <2>1. (Init => Monthly) /\ (TypeOK /\ [Next]_vars /\ Monthly /\ FewCounted' => Monthly')
    BY <1>1, <1>2, <1>5
  <2> HIDE DEF Monthly, FewCounted, BoundMonth
  <2>2. QED
    BY <1>3, <2>1, TypeCorrect, PTL DEF Spec
<1>6. QED
  BY <1>4, <1>5 DEF OvershootIsBounded

\* Requests one at a time keep both limits, two at a time exceed one by at most
\* one run.
THEOREM LimitsUnlessRacedHolds == Spec => LimitsUnlessRaced
<1>1. Spec => OvershootIsBounded(1)
  BY OvershootBounded
<1>2. Spec => OvershootIsBounded(2)
  BY OvershootBounded
<1>3. QED
  BY <1>1, <1>2 DEF LimitsUnlessRaced
=============================================================================
