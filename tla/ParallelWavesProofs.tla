------------------------ MODULE ParallelWavesProofs ------------------------
(***************************************************************************)
(* The barrier between waves and the order of results, for any plan and    *)
(* any number of threads.                                                  *)
(*                                                                         *)
(* The argument follows the caller: waves ahead are untouched, waves       *)
(* behind have returned, and what the caller has taken of the current one  *)
(* decides what it will append or raise.                                   *)
(***************************************************************************)
EXTENDS ParallelWaves, TLAPS

Ahead  == \A w \in DOMAIN Plan : w > wave => \A b \in Range(Plan[w]) : future[b] = "none"
Behind == \A w \in 1..(wave - 1) : \A b \in Range(Plan[w]) : future[b] = "ok"

\* While nothing is to be raised, the futures taken have returned and their
\* values are in place.
Taken == raised = None =>
            /\ \A b \in seen : future[b] = "ok"
            /\ \A i \in DOMAIN Current : Current[i] \in seen => values[i] = Current[i]

Stage == /\ at = "submit" => seen = {}
         /\ at \in {"submit", "await"} => raised = None
         /\ at = "cancel" => raised \in Branches
         /\ at \in {"shutdown", "end"} /\ raised = None => seen = Range(Current)
         /\ raised \in Branches => future[raised] = "error"

Ended == /\ at # "end" => outcome = None
         /\ at = "end" => Ends /\ Joined
         /\ outcome = "result" => at = "end" /\ raised = None
         /\ outcome = "error" => raised \in Branches

\* The waves appended so far.
Waves == IF at \in {"shutdown", "end"} /\ raised = None THEN wave ELSE wave - 1
Built == /\ Len(completed) = Waves
         /\ \A w \in 1..Waves : completed[w] = Plan[w]

Inv == TypeOK /\ Ahead /\ Behind /\ Taken /\ Stage /\ Ended /\ Built

\* Facts of the plan: a wave is a sequence with a branch, and no branch is in it
\* twice or in another.
LEMMA PlanFacts ==
    /\ DOMAIN Plan = 1..Len(Plan) /\ Len(Plan) \in Nat \ {0}
    /\ \A w \in DOMAIN Plan : /\ Plan[w] \in Seq(Branches) /\ Len(Plan[w]) \in Nat \ {0}
                              /\ DOMAIN Plan[w] = 1..Len(Plan[w])
                              /\ Range(Plan[w]) \subseteq Branches
                              /\ \A i \in DOMAIN Plan[w] : Plan[w][i] \in Range(Plan[w])
    /\ \A v, w \in DOMAIN Plan : v # w => Range(Plan[v]) \cap Range(Plan[w]) = {}
    /\ \A w \in DOMAIN Plan : \A i, j \in DOMAIN Plan[w] : Plan[w][i] = Plan[w][j] => i = j
<1>1. Plan \in Seq(Seq(Branches)) /\ Plan # <<>>
  BY PlanAssumption
<1>2. DOMAIN Plan = 1..Len(Plan) /\ Len(Plan) \in Nat \ {0}
  BY <1>1
<1>3. ASSUME NEW w \in DOMAIN Plan
      PROVE  /\ Plan[w] \in Seq(Branches) /\ Len(Plan[w]) \in Nat \ {0}
             /\ DOMAIN Plan[w] = 1..Len(Plan[w])
  <2>1. Plan[w] \in Seq(Branches) /\ Plan[w] # <<>>
    BY <1>1, <1>2, PlanAssumption
  <2>2. QED
    BY <2>1
<1>4. ASSUME NEW w \in DOMAIN Plan
      PROVE  /\ Range(Plan[w]) \subseteq Branches
             /\ \A i \in DOMAIN Plan[w] : Plan[w][i] \in Range(Plan[w])
  BY DEF Range, Branches
<1>5. ASSUME NEW v \in DOMAIN Plan, NEW w \in DOMAIN Plan, v # w
      PROVE  Range(Plan[v]) \cap Range(Plan[w]) = {}
  BY <1>5, PlanAssumption DEF Range
<1>6. \A w \in DOMAIN Plan : \A i, j \in DOMAIN Plan[w] : Plan[w][i] = Plan[w][j] => i = j
  BY PlanAssumption
<1>7. QED
  BY <1>2, <1>3, <1>4, <1>5, <1>6

LEMMA InitInv == Init => Inv
<1> SUFFICES ASSUME Init PROVE Inv
  OBVIOUS
<1> USE DEF Init
<1>1. 1 \in DOMAIN Plan
  BY PlanFacts
<1>2. TypeOK
  BY <1>1, PlanFacts DEF TypeOK, Current, Nothing, Futures
<1>3. Ahead /\ Behind
  <2>1. \A w \in DOMAIN Plan : \A b \in Range(Plan[w]) : future[b] = "none"
    BY PlanFacts
  <2>2. QED
    BY <2>1 DEF Ahead, Behind
<1>4. Taken /\ Stage /\ Ended /\ Built
  BY PlanAssumption DEF Taken, Stage, Ended, Built, Waves
<1>5. QED
  BY <1>2, <1>3, <1>4 DEF Inv

LEMMA NextInv == Inv /\ [Next]_vars => Inv'
<1> SUFFICES ASSUME Inv, [Next]_vars PROVE Inv'
  OBVIOUS
<1> USE DEF Inv
<1>c. /\ wave \in DOMAIN Plan /\ Current \in Seq(Branches) /\ Len(Current) \in Nat \ {0}
      /\ DOMAIN Current = 1..Len(Current)
      /\ \A i \in DOMAIN Current : Current[i] \in Range(Current) /\ Current[i] \in Branches
      /\ \A i, j \in DOMAIN Current : Current[i] = Current[j] => i = j
      /\ next \in DOMAIN Current
  BY PlanFacts DEF TypeOK, Current
<1>d. \A w \in DOMAIN Plan : w # wave => \A i \in DOMAIN Current : Current[i] \notin Range(Plan[w])
  BY <1>c, PlanFacts DEF Current
<1>w. \A w \in 1..(wave - 1) : w \in DOMAIN Plan /\ w # wave
  BY <1>c, PlanFacts
<1>e. ASSUME NEW i \in DOMAIN Current, NEW s, future' = [future EXCEPT ![Current[i]] = s],
             UNCHANGED wave
      PROVE  Ahead' /\ Behind'
  <2>1. ASSUME NEW w \in DOMAIN Plan, w # wave, NEW b \in Range(Plan[w])
        PROVE  future'[b] = future[b]
    <3>1. b \in Branches /\ b # Current[i]
      BY <2>1, <1>d, PlanFacts
    <3>2. QED
      BY <1>e, <3>1 DEF TypeOK
  <2>2. Ahead'
    BY <1>e, <1>c, <2>1, PlanFacts DEF Ahead
  <2>3. Behind'
    BY <1>e, <1>c, <1>w, <2>1 DEF Behind
  <2>4. QED
    BY <2>2, <2>3
\* A step that changes the futures of the current wave only.
<1>m. ASSUME UNCHANGED <<wave, seen, values, raised, completed, outcome>>,
             NEW i \in DOMAIN Current, NEW s \in Futures,
             future' = [future EXCEPT ![Current[i]] = s],
             Current[i] \notin seen \/ raised # None,
             future[Current[i]] # "error" \/ s = "error"
      PROVE  Ahead' /\ Behind' /\ Taken' /\ (raised \in Branches => future[raised] = "error")'
  <2> USE DEF TypeOK
  <2>1. Ahead' /\ Behind'
    BY <1>m, <1>e
  <2>2. Taken'
    <3>1. Current' = Current /\ \A b \in seen : b \in Branches
      BY <1>m, PlanFacts DEF Current
    <3>2. raised = None => \A b \in seen : future'[b] = "ok"
      BY <1>m, <1>c, <3>1 DEF Taken
    <3>3. QED
      BY <1>m, <3>1, <3>2 DEF Taken
  <2>3. (raised \in Branches => future[raised] = "error")'
    BY <1>m, <1>c DEF Stage
  <2>4. QED
    BY <2>1, <2>2, <2>3
<1>1. ASSUME NEW i \in DOMAIN Current, Start(i) PROVE Inv'
  <2>1. Current[i] \notin seen \/ raised # None
    BY <1>1 DEF Start, Taken
  <2>2. /\ UNCHANGED <<wave, at, next, seen, values, raised, completed, outcome>>
        /\ "running" \in Futures /\ future' = [future EXCEPT ![Current[i]] = "running"]
        /\ future[Current[i]] = "pending"
    BY <1>1 DEF Start, Futures
  <2>3. Ahead' /\ Behind' /\ Taken' /\ (raised \in Branches => future[raised] = "error")'
    BY <1>m, <2>1, <2>2
  <2>4. TypeOK' /\ Built'
    BY <1>c, <2>2 DEF TypeOK, Current, Built, Waves
  <2>5. at # "end"
    BY <1>c, <2>2 DEF Ended, Joined, InState
  <2>6. Stage' /\ Ended'
    BY <2>2, <2>3, <2>5, <1>c DEF Stage, Ended, Current
  <2>7. QED
    BY <2>3, <2>4, <2>6
<1>2. ASSUME NEW b \in Branches, Finish(b) PROVE Inv'
  <2>1. PICK s \in Finished : future' = [future EXCEPT ![b] = s]
    BY <1>2 DEF Finish
  <2>2. /\ UNCHANGED <<wave, at, next, seen, values, raised, completed, outcome>>
        /\ s \in Futures /\ future[b] = "running"
    BY <1>2, <2>1 DEF Finish, Futures, Finished
  <2>3. TypeOK' /\ Built'
    BY <2>1, <2>2 DEF TypeOK, Current, Built, Waves
  <2>4. Ahead' /\ Behind'
    BY <2>1, <2>2, <1>c, PlanFacts DEF Ahead, Behind, TypeOK
  <2>5. Taken'
    <3>1. Current' = Current /\ \A c \in seen : c \in Branches
      BY <2>2, PlanFacts DEF Current, TypeOK
    <3>2. raised = None => \A c \in seen : future'[c] = "ok"
      BY <2>1, <2>2, <3>1 DEF Taken, TypeOK
    <3>3. QED
      BY <2>2, <3>1, <3>2 DEF Taken
  <2>6. at # "end"
    BY <2>2 DEF Ended, Joined, InState
  <2>7. Stage' /\ Ended'
    BY <2>1, <2>2, <2>6 DEF Stage, Ended, Current, TypeOK
  <2>8. QED
    BY <2>3, <2>4, <2>5, <2>7
<1>3. CASE Submit
  <2>1. /\ UNCHANGED <<wave, seen, values, raised, completed, outcome>> /\ at = "submit"
        /\ future' = [future EXCEPT ![Current[next]] = "pending"] /\ "pending" \in Futures
        /\ at' \in {"submit", "await"} /\ next' \in DOMAIN Current
    BY <1>3, <1>c DEF Submit, Futures
  <2>2. seen = {} /\ raised = None /\ outcome = None
    BY <2>1 DEF Stage, Ended
  <2>3. raised \notin Branches
    BY <2>2, PlanAssumption
  <2>4. Ahead' /\ Behind'
    BY <2>1, <1>c, <1>e
  <2>5. TypeOK' /\ Built' /\ Taken'
    BY <1>c, <2>1, <2>2 DEF TypeOK, Current, Built, Waves, Taken
  <2>6. Stage' /\ Ended'
    BY <2>1, <2>2, <2>3, PlanAssumption DEF Stage, Ended
  <2>7. QED
    BY <2>4, <2>5, <2>6
<1>4. CASE SubmitRaises
  <2>1. /\ UNCHANGED <<wave, future, seen, values, completed, outcome>> /\ at = "submit"
        /\ at' = "shutdown" /\ next' = 1 /\ raised' = "fatal"
        /\ raised' # None /\ raised' \notin Branches
    BY <1>4, PlanAssumption DEF SubmitRaises
  <2>2. raised = None /\ outcome = None
    BY <2>1 DEF Stage, Ended
  <2>3. TypeOK' /\ Built'
    BY <1>c, <2>1, <2>2 DEF TypeOK, Current, Built, Waves
  <2>4. Ahead' /\ Behind' /\ Taken'
    BY <2>1 DEF Ahead, Behind, Taken
  <2>5. Stage' /\ Ended'
    BY <2>1, <2>2, PlanAssumption DEF Stage, Ended
  <2>6. QED
    BY <2>3, <2>4, <2>5
<1>5. ASSUME NEW i \in DOMAIN Current, Observe(i) PROVE Inv'
  <2>1. /\ UNCHANGED <<wave, next, future, outcome>> /\ at = "await"
        /\ seen' = seen \cup {Current[i]} /\ Current[i] \notin seen
    BY <1>5 DEF Observe
  <2>2. raised = None /\ outcome = None
    BY <2>1 DEF Stage, Ended
  <2>3. Ahead' /\ Behind'
    BY <2>1 DEF Ahead, Behind
  <2>4. seen' \subseteq Range(Current)
    BY <2>1, <1>c DEF TypeOK
  <2>5. CASE /\ future[Current[i]] = "ok" /\ values' = Store(i) /\ UNCHANGED raised
             /\ at' = IF seen' = Range(Current) THEN "shutdown" ELSE at
             /\ completed' = IF seen' = Range(Current)
                             THEN Append(completed, values') ELSE completed
    <3>1. /\ values' \in [DOMAIN Current -> Branches \cup {None}]
          /\ values'[i] = Current[i]
          /\ \A j \in DOMAIN Current : j # i => values'[j] = values[j]
      BY <2>5, <1>c DEF Store, TypeOK
    <3>2. Taken'
      BY <2>1, <2>2, <2>5, <3>1, <1>c DEF Taken, Current
    <3>3. CASE seen' # Range(Current)
      <4>1. at' = "await" /\ completed' = completed
        BY <2>1, <2>5, <3>3
      <4>2. TypeOK' /\ Built'
        BY <1>c, <2>1, <2>2, <2>4, <2>5, <3>1, <4>1 DEF TypeOK, Current, Built, Waves
      <4>3. Stage' /\ Ended'
        BY <2>1, <2>2, <2>5, <4>1, PlanAssumption DEF Stage, Ended
      <4>4. QED
        BY <2>3, <3>2, <4>2, <4>3
    <3>4. CASE seen' = Range(Current)
      <4>1. at' = "shutdown" /\ completed' = Append(completed, values')
        BY <2>5, <3>4
      <4>2. \A j \in DOMAIN Current : values'[j] = Current[j]
        BY <1>c, <2>1, <2>2, <2>5, <3>2, <3>4, PlanAssumption DEF Taken, Current
      <4>3. values' = Current
        <5>1. DOMAIN values' = DOMAIN Current /\ values' = [j \in DOMAIN Current |-> values'[j]]
          BY <3>1
        <5>2. Current = [j \in DOMAIN Current |-> Current[j]]
          BY <1>c
        <5>3. QED
          BY <4>2, <5>1, <5>2
      <4>4. /\ Len(completed) = wave - 1 /\ completed \in Seq(Seq(Branches))
            /\ \A w \in 1..(wave - 1) : completed[w] = Plan[w]
            /\ wave \in Nat
        BY <2>1, <1>c, PlanFacts DEF Built, Waves, TypeOK
      <4>5. /\ completed' \in Seq(Seq(Branches)) /\ Len(completed') = wave
            /\ \A w \in 1..wave : completed'[w] = Plan[w]
        BY <1>c, <4>1, <4>3, <4>4 DEF Current
      <4>6. TypeOK'
        BY <1>c, <2>1, <2>2, <2>4, <2>5, <3>1, <4>1, <4>5 DEF TypeOK, Current
      <4>7. Built'
        BY <2>1, <2>2, <2>5, <4>1, <4>5 DEF Built, Waves
      <4>8. Stage' /\ Ended'
        BY <2>1, <2>2, <2>5, <3>4, <4>1, PlanAssumption DEF Stage, Ended, Current
      <4>9. QED
        BY <2>3, <3>2, <4>6, <4>7, <4>8
    <3>5. QED
      BY <3>3, <3>4
  <2>6. CASE /\ future[Current[i]] = "error" /\ at' = "cancel" /\ raised' = Current[i]
             /\ UNCHANGED <<values, completed>>
    <3>1. raised' \in Branches /\ raised' # None
      BY <2>6, <1>c, PlanAssumption
    <3>2. TypeOK' /\ Built' /\ Taken'
      BY <1>c, <2>1, <2>2, <2>4, <2>6, <3>1 DEF TypeOK, Current, Built, Waves, Taken
    <3>3. Stage' /\ Ended'
      BY <2>1, <2>2, <2>6, <3>1, PlanAssumption DEF Stage, Ended
    <3>4. QED
      BY <2>3, <3>2, <3>3
  <2>7. CASE /\ future[Current[i]] = "fatal" /\ at' = "shutdown" /\ raised' = "fatal"
             /\ UNCHANGED <<values, completed>>
    <3>1. raised' \notin Branches /\ raised' # None
      BY <2>7, PlanAssumption
    <3>2. TypeOK' /\ Built' /\ Taken'
      BY <1>c, <2>1, <2>2, <2>4, <2>7, <3>1 DEF TypeOK, Current, Built, Waves, Taken
    <3>3. Stage' /\ Ended'
      BY <2>1, <2>2, <2>7, <3>1, PlanAssumption DEF Stage, Ended
    <3>4. QED
      BY <2>3, <3>2, <3>3
  <2>8. QED
    BY <1>5, <2>5, <2>6, <2>7 DEF Observe
<1>6. CASE Cancel
  <2> DEFINE s == IF future[Current[next]] = "pending" THEN "cancelled" ELSE future[Current[next]]
  <2>1. /\ UNCHANGED <<wave, seen, values, raised, completed, outcome>> /\ at = "cancel"
        /\ future' = [future EXCEPT ![Current[next]] = s]
        /\ at' \in {"cancel", "shutdown"} /\ next' \in DOMAIN Current
    BY <1>6, <1>c DEF Cancel
  <2>2. s \in Futures /\ (future[Current[next]] # "error" \/ s = "error")
    BY <1>c DEF TypeOK, Futures
  <2> HIDE DEF s
  <2>3. raised \in Branches /\ raised # None /\ outcome = None
    BY <2>1, PlanAssumption DEF Stage, Ended
  <2>4. Ahead' /\ Behind' /\ Taken' /\ (raised \in Branches => future[raised] = "error")'
    BY <1>m, <1>c, <2>1, <2>2, <2>3
  <2>5. TypeOK' /\ Built'
    BY <1>c, <2>1, <2>2, <2>3 DEF TypeOK, Current, Built, Waves
  <2>6. Stage' /\ Ended'
    BY <2>1, <2>3, <2>4, PlanAssumption DEF Stage, Ended
  <2>7. QED
    BY <2>4, <2>5, <2>6
<1>7. ASSUME NEW i \in DOMAIN Current, Drain(i) PROVE Inv'
  <2>1. /\ UNCHANGED <<wave, at, next, seen, values, raised, completed, outcome>>
        /\ at = "shutdown" /\ future[Current[i]] = "pending"
        /\ "cancelled" \in Futures /\ future' = [future EXCEPT ![Current[i]] = "cancelled"]
    BY <1>7 DEF Drain, Futures
  <2>2. Current[i] \notin seen \/ raised # None
    BY <2>1 DEF Taken
  <2>3. Ahead' /\ Behind' /\ Taken' /\ (raised \in Branches => future[raised] = "error")'
    BY <1>m, <2>1, <2>2
  <2>4. TypeOK' /\ Built'
    BY <1>c, <2>1 DEF TypeOK, Current, Built, Waves
  <2>5. Stage' /\ Ended'
    BY <2>1, <2>3, PlanAssumption DEF Stage, Ended, Current
  <2>6. QED
    BY <2>3, <2>4, <2>5
<1>8. CASE NextWave
  <2>1. /\ UNCHANGED <<future, raised, completed, outcome>> /\ at = "shutdown"
        /\ raised = None /\ wave # Len(Plan) /\ wave' = wave + 1
        /\ at' = "submit" /\ next' = 1 /\ seen' = {} /\ values' = Nothing(wave + 1)
    BY <1>8 DEF NextWave, Ends
  <2>2. wave + 1 \in DOMAIN Plan /\ wave \in Nat
    BY <2>1, <1>c, PlanFacts
  <2>3. \A b \in Range(Current) : future[b] = "ok"
    BY <2>1 DEF Stage, Taken
  <2>4. Ahead' /\ Behind'
    <3>1. Ahead'
      BY <2>1, <2>2, PlanFacts DEF Ahead
    <3>2. Behind'
      BY <2>1, <2>2, <2>3 DEF Behind, Current
    <3>3. QED
      BY <3>1, <3>2
  <2>5. TypeOK'
    BY <2>1, <2>2, PlanFacts DEF TypeOK, Current, Nothing
  <2>6. Built' /\ Taken'
    BY <2>1, <2>2 DEF Built, Waves, Taken
  <2>7. Stage' /\ Ended'
    BY <2>1, PlanAssumption DEF Stage, Ended
  <2>8. QED
    BY <2>4, <2>5, <2>6, <2>7
<1>9. CASE Return
  <2>1. /\ UNCHANGED <<wave, next, future, seen, values, raised, completed>>
        /\ at = "shutdown" /\ at' = "end" /\ Joined /\ Ends
    BY <1>9 DEF Return
  <2>2. /\ outcome' \in {"result", "error", "fatal"}
        /\ outcome' = "result" => raised = None
        /\ outcome' = "error" => raised \in Branches
    <3>1. CASE raised = None
      BY <1>9, <3>1, PlanAssumption DEF Return
    <3>2. CASE raised \in Branches
      BY <1>9, <3>2, PlanAssumption DEF Return
    <3>3. CASE raised # None /\ raised \notin Branches
      BY <1>9, <3>3 DEF Return
    <3>4. QED
      BY <3>1, <3>2, <3>3
  <2>3. TypeOK' /\ Built' /\ Taken' /\ Ahead' /\ Behind'
    BY <2>1, <2>2 DEF TypeOK, Current, Built, Waves, Taken, Ahead, Behind
  <2>4. Stage'
    BY <2>1 DEF Stage, Current
  <2>5. Ended'
    BY <2>1, <2>2 DEF Ended, Ends, Joined, InState
  <2>6. QED
    BY <2>3, <2>4, <2>5
<1>10. CASE UNCHANGED vars
  BY <1>10 DEF vars, TypeOK, Current, Built, Waves, Taken, Ahead, Behind, Stage, Ended, Ends,
     Joined, InState
<1>11. QED
  BY <1>1, <1>2, <1>3, <1>4, <1>5, <1>6, <1>7, <1>8, <1>9, <1>10 DEF Next, Pool, Caller

LEMMA Invariance == Spec => []Inv
BY InitInv, NextInv, PTL DEF Spec

\* The state of run and of its futures has its type.
THEOREM TypeCorrect == Spec => []TypeOK
BY Invariance, PTL DEF Inv

\* No wave starts before the one before it has returned, and no thread outlives
\* run.
THEOREM WaveBarrierHolds == Spec => []WaveBarrier
<1>1. Inv => WaveBarrier
  <2> SUFFICES ASSUME Inv PROVE WaveBarrier
    OBVIOUS
  <2>1. wave \in 1..Len(Plan) /\ DOMAIN Plan = 1..Len(Plan) /\ Len(Plan) \in Nat
    BY PlanFacts DEF Inv, TypeOK
  <2>2. ASSUME NEW w \in DOMAIN Plan, NEW b \in Range(Plan[w]), future[b] # "none",
               NEW v \in 1..(w - 1), NEW c \in Range(Plan[v])
        PROVE  future[c] = "ok"
    BY <2>1, <2>2 DEF Inv, Ahead, Behind
  <2>3. outcome # None => \A b \in Branches : future[b] \notin {"pending", "running"}
    BY DEF Inv, Ended, Joined, InState
  <2>4. QED
    BY <2>2, <2>3 DEF WaveBarrier
<1>2. QED
  BY <1>1, Invariance, PTL

\* run returns the values in the plan's order, or raises the error of a branch.
THEOREM DeclaredOrderHolds == Spec => []DeclaredOrder
<1>1. Inv => DeclaredOrder
  <2> SUFFICES ASSUME Inv PROVE DeclaredOrder
    OBVIOUS
  <2>1. ASSUME outcome = "result" PROVE completed = Plan
    <3>1. at = "end" /\ raised = None /\ wave = Len(Plan)
      BY <2>1 DEF Inv, Ended, Ends
    <3>2. /\ completed \in Seq(Seq(Branches)) /\ Plan \in Seq(Seq(Branches))
          /\ Len(completed) = Len(Plan) /\ \A w \in 1..Len(Plan) : completed[w] = Plan[w]
      BY <3>1, PlanAssumption DEF Inv, TypeOK, Built, Waves
    <3>3. /\ completed = [w \in 1..Len(Plan) |-> completed[w]]
          /\ Plan = [w \in 1..Len(Plan) |-> Plan[w]]
      BY <3>2
    <3>4. QED
      BY <3>2, <3>3
  <2>2. outcome = "error" => raised \in Branches /\ future[raised] = "error"
    BY DEF Inv, Ended, Stage
  <2>3. QED
    BY <2>1, <2>2 DEF DeclaredOrder
<1>2. QED
  BY <1>1, Invariance, PTL
=============================================================================
