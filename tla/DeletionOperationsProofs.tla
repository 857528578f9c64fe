--------------------- MODULE DeletionOperationsProofs ---------------------
(***************************************************************************)
(* Safety of destructive operations, for every set of calls, operations    *)
(* and resources and any number of faults.                                 *)
(*                                                                         *)
(* The argument: what is gone stays gone, what is logged stays logged, and *)
(* an operation that has begun never looks unbegun again (Advance).  So    *)
(* what a call learned at one step still holds at the next, whatever the   *)
(* other calls and the operator did in between (OthersKeepCallInv), and    *)
(* each action is left with what it changes itself.                        *)
(***************************************************************************)
EXTENDS DeletionOperations, TLAPS

\* What every step does to the shared state.
Advance == /\ gone \subseteq gone'
           /\ log \subseteq log'
           /\ \A o \in Ops : /\ state[o] \in Begun => state'[o] \in Begun
                             /\ state[o] = "COMPLETED" => state'[o] = "COMPLETED"
                             /\ state[o] = "RECONCILIATION_REQUIRED" =>
                                   state'[o] \in {"RECONCILIATION_REQUIRED", "COMPLETED"}

\* A transition leaves a well-formed record, moves one operation at most, and
\* moves it forward.
LEMMA TransitionFacts ==
    ASSUME TypeOK, NEW o \in Ops, NEW to \in States, NEW net, Transition(o, to, net)
    PROVE  /\ state' \in [Ops -> States]
           /\ \A p \in Ops : p # o => state'[p] = state[p]
           /\ state'[o] = state[o] \/ (state'[o] = to /\ Allowed(state[o], to))
           /\ Succeeds(o, to, net) => state'[o] = to
  BY DEF TypeOK, Transition, Succeeds, Ran

\* What the transition table allows keeps an operation begun, and closed.
LEMMA AllowedFacts ==
    ASSUME NEW from \in States, NEW to \in States, Allowed(from, to)
    PROVE  /\ from \in Begun => to \in Begun
           /\ from = "COMPLETED" => to = "COMPLETED"
           /\ from = "RECONCILIATION_REQUIRED" =>
                 to \in {"RECONCILIATION_REQUIRED", "COMPLETED"}
  BY DEF Allowed, States, Begun

LEMMA ChargeFacts ==
    ASSUME TypeOK, NEW net, Charge(net)
    PROVE  faults' \in 0 .. MaxFaults
  BY CallsAssumption DEF TypeOK, Charge

\* A step of one call moves its own program counter and nobody else's.
LEMMA GotoFacts ==
    ASSUME TypeOK, NEW c \in Calls, NEW step \in Steps, Goto(c, step)
    PROVE  /\ pc' \in [Calls -> Steps]
           /\ answer' \in [Calls -> Answers]
           /\ pc'[c] = step
           /\ answer' = answer
           /\ \A d \in Calls : d # c => pc'[d] = pc[d] /\ answer'[d] = answer[d]
  BY DEF TypeOK, Goto

LEMMA ReturnFacts ==
    ASSUME TypeOK, NEW c \in Calls, NEW how \in Answers, Return(c, how)
    PROVE  /\ pc' \in [Calls -> Steps]
           /\ answer' \in [Calls -> Answers]
           /\ pc'[c] = "done"
           /\ answer'[c] = how
           /\ \A d \in Calls : d # c => pc'[d] = pc[d] /\ answer'[d] = answer[d]
  BY DEF TypeOK, Return, Steps, Answers

LEMMA DestroyFacts ==
    ASSUME TypeOK, NEW o \in Ops, NEW net, Destroy(o, net)
    PROVE  /\ gone' \in SUBSET Resources
           /\ gone' \in {gone, gone \cup {ResourceOf[o]}}
           /\ net = "ok" => ResourceOf[o] \in gone'
           /\ faults' \in 0 .. MaxFaults
  BY ChargeFacts, CallsAssumption DEF TypeOK, Destroy, Ran

LEMMA AppendFacts ==
    ASSUME TypeOK, NEW o \in Ops, NEW event \in Events, NEW net, AppendEvent(o, event, net)
    PROVE  /\ log' \in SUBSET (Ops \X Events)
           /\ log \subseteq log'
           /\ net = "ok" => <<o, event>> \in log'
  BY DEF TypeOK, AppendEvent, Ran

\* A call that does not move keeps what it knows.
LEMMA OthersKeepCallInv ==
    ASSUME Advance, NEW c \in Calls, CallInv(c), pc'[c] = pc[c]
    PROVE  CallInv(c)'
  BY CallsAssumption DEF Advance, CallInv

\* Operations of execute_deletion and of soft_delete_workspace are distinct.
LEMMA WhoseOperation ==
    ASSUME NEW c \in Calls
    PROVE  /\ OpOf[c] \in Ops
           /\ ResourceOf[OpOf[c]] \in Resources
           /\ OpOf[c] \in Governed => c \in Executors
  BY CallsAssumption DEF Governed, Calls

\* The promises about operations and resources, from what a step closes and
\* what it deletes.
LEMMA PromisesStep ==
    ASSUME IInv, Advance,
           \A o \in Ops : state'[o] = "COMPLETED" =>
               \/ state[o] = "COMPLETED"
               \/ /\ ResourceOf[o] \in gone'
                  /\ o \in Governed => <<o, "deletion_completed">> \in log',
           \A x \in gone' :
               \/ x \in gone
               \/ \E o \in Ops : /\ ResourceOf[o] = x
                                 /\ state'[o] \in Begun
                                 /\ o \in Governed => <<o, "deletion_approved">> \in log'
    PROVE  CompletedMeansDeleted' /\ CompletedIsAudited' /\ DeletionIsOnRecord'
  <1>1. CompletedMeansDeleted'
    BY DEF IInv, CompletedMeansDeleted, Advance
  <1>2. CompletedIsAudited'
    BY CallsAssumption DEF IInv, CompletedIsAudited, Advance, Governed, Calls
  <1>3. DeletionIsOnRecord'
    <2>1. SUFFICES ASSUME NEW x \in gone'
                   PROVE  \E o \in Ops : /\ ResourceOf[o] = x
                                         /\ state'[o] \in Begun
                                         /\ o \in Governed =>
                                               <<o, "deletion_approved">> \in log'
      BY DEF DeletionIsOnRecord, Governed
    <2>2. CASE x \in gone
      <3>1. PICK o \in Ops : /\ ResourceOf[o] = x
                             /\ state[o] \in Begun
                             /\ o \in Governed => <<o, "deletion_approved">> \in log
        BY <2>2 DEF IInv, DeletionIsOnRecord
      <3>2. state'[o] \in Begun /\ (o \in Governed => <<o, "deletion_approved">> \in log')
        BY <3>1 DEF Advance
      <3>3. QED  BY <3>1, <3>2
    <2>3. CASE x \notin gone
      BY <2>3
    <2>4. QED  BY <2>2, <2>3
  <1>4. QED  BY <1>1, <1>2, <1>3

\* What a call was told, from what the step tells it.
AnswerHolds(c) ==
    /\ answer[c] = "deletion_completed" =>
          ResourceOf[OpOf[c]] \in gone /\ state[OpOf[c]] = "COMPLETED"
    /\ answer[c] = "reconciliation_required" =>
          /\ ResourceOf[OpOf[c]] \in gone
          /\ state[OpOf[c]] \in {"RECONCILIATION_REQUIRED", "COMPLETED"}

\* A step of one call keeps the invariant when it keeps its own part of it.
LEMMA OneCallMoves ==
    ASSUME IInv, TypeOK', Advance, NEW c \in Calls,
           \A d \in Calls : d # c => pc'[d] = pc[d] /\ answer'[d] = answer[d],
           verified' = verified,
           CallInv(c)', AnswerHolds(c)',
           CompletedMeansDeleted', CompletedIsAudited', DeletionIsOnRecord'
    PROVE  IInv'
  <1>1. \A d \in Calls : CallInv(d)'
    BY OthersKeepCallInv DEF IInv
  <1>2. AnswersHold'
    <2>1. SUFFICES ASSUME NEW d \in Calls PROVE AnswerHolds(d)'
      BY DEF AnswersHold, AnswerHolds
    <2>2. CASE d = c
      BY <2>2
    <2>3. CASE d # c
      BY <2>3, CallsAssumption DEF IInv, AnswersHold, AnswerHolds, Advance
    <2>4. QED  BY <2>2, <2>3
  <1>3. \A o \in verified' : ResourceOf[o] \in gone'
    BY DEF IInv, Advance
  <1>4. QED  BY <1>1, <1>2, <1>3 DEF IInv

\* A call that returns with an exception, or dies, or has yet to return, was
\* told nothing that could turn out wrong.
LEMMA NothingTold ==
    ASSUME IInv, Advance, NEW c \in Calls,
           answer'[c] \in {answer[c], "none", "retained", "raised"}
    PROVE  AnswerHolds(c)'
  BY CallsAssumption DEF IInv, AnswersHold, AnswerHolds, Advance

\* A call that is done claims nothing any more.
LEMMA DoneClaimsNothing ==
    ASSUME NEW c \in Calls, pc'[c] = "done"
    PROVE  CallInv(c)'
  BY DEF CallInv

\* A transition that is not a completion keeps the promises.
LEMMA TransitionKeepsPromises ==
    ASSUME IInv, NEW o \in Ops, NEW net, UNCHANGED <<gone, log>>,
           NEW to \in {"DELETE_ATTEMPTED", "RECONCILIATION_REQUIRED", "COMPLETED"},
           Transition(o, to, net),
           to = "COMPLETED" =>
               /\ ResourceOf[o] \in gone
               /\ o \in Governed => <<o, "deletion_completed">> \in log
    PROVE  /\ Advance
           /\ CompletedMeansDeleted' /\ CompletedIsAudited' /\ DeletionIsOnRecord'
  <1>1. /\ TypeOK
        /\ to \in States
    BY DEF IInv, States
  <1>2. Advance
    <2>1. SUFFICES ASSUME NEW p \in Ops
                   PROVE  /\ state[p] \in Begun => state'[p] \in Begun
                          /\ state[p] = "COMPLETED" => state'[p] = "COMPLETED"
                          /\ state[p] = "RECONCILIATION_REQUIRED" =>
                                state'[p] \in {"RECONCILIATION_REQUIRED", "COMPLETED"}
      BY DEF Advance
    <2>2. CASE state'[p] = state[p]
      BY <2>2
    <2>3. CASE state'[p] # state[p]
      <3>1. p = o /\ state'[p] = to /\ Allowed(state[p], to)
        BY <1>1, <2>3, TransitionFacts
      <3>2. state[p] \in States
        BY <1>1 DEF TypeOK
      <3>3. QED  BY <1>1, <3>1, <3>2, AllowedFacts
    <2>4. QED  BY <2>2, <2>3
  <1>3. \A p \in Ops : state'[p] = "COMPLETED" =>
            \/ state[p] = "COMPLETED"
            \/ /\ ResourceOf[p] \in gone'
               /\ p \in Governed => <<p, "deletion_completed">> \in log'
    BY <1>1, TransitionFacts
  <1>4. QED  BY <1>2, <1>3, PromisesStep

-----------------------------------------------------------------------------
\* One lemma per kind of step.  A transition of the store by a call.
LEMMA CallTransitionKeepsInv ==
    ASSUME IInv, NEW c \in Calls, NEW net \in Ends,
           Attempt(c, net) \/ Flag(c, net) \/ FlagAudit(c, net) \/ Complete(c, net)
    PROVE  IInv'
  <1> DEFINE o == OpOf[c]
  <1> USE DEF IInv
  <1>0. o \in Ops /\ ResourceOf[o] \in Resources /\ (o \in Governed => c \in Executors)
    BY WhoseOperation
  <1>a. CallInv(c) /\ TypeOK
    OBVIOUS
  <1>b. /\ {"raised", "reconciliation_required", "deletion_completed"} \subseteq Answers
        /\ {"delete", "flag"} \subseteq Steps
        /\ {"DELETE_ATTEMPTED", "RECONCILIATION_REQUIRED", "COMPLETED"} \subseteq States
    BY DEF Answers, Steps, States
  <1>1. CASE Attempt(c, net)
    <2>1. /\ pc[c] = "attempt" /\ Charge(net) /\ Transition(o, "DELETE_ATTEMPTED", net)
          /\ UNCHANGED <<gone, log, verified>>
          /\ \/ Succeeds(o, "DELETE_ATTEMPTED", net) /\ Goto(c, "delete")
             \/ Return(c, "raised")
      BY <1>1 DEF Attempt
    <2>2. /\ Advance
          /\ CompletedMeansDeleted' /\ CompletedIsAudited' /\ DeletionIsOnRecord'
      BY <1>0, <2>1, TransitionKeepsPromises
    <2>3. TypeOK'
      BY <1>0, <1>a, <1>b, <2>1, TransitionFacts, ChargeFacts, GotoFacts, ReturnFacts DEF TypeOK
    <2>4. \A d \in Calls : d # c => pc'[d] = pc[d] /\ answer'[d] = answer[d]
      BY <1>a, <1>b, <2>1, GotoFacts, ReturnFacts
    <2>5. CallInv(c)' /\ AnswerHolds(c)'
      <3>1. CASE Succeeds(o, "DELETE_ATTEMPTED", net) /\ Goto(c, "delete")
        <4>1. pc'[c] = "delete" /\ answer'[c] = answer[c] /\ state'[o] = "DELETE_ATTEMPTED"
          BY <1>0, <1>a, <1>b, <2>1, <3>1, GotoFacts, TransitionFacts
        <4>2. CallInv(c)'
          BY <1>a, <2>1, <4>1 DEF CallInv, Begun
        <4>3. QED  BY <2>2, <4>1, <4>2, NothingTold
      <3>2. CASE Return(c, "raised")
        BY <1>a, <1>b, <2>2, <3>2, ReturnFacts, NothingTold, DoneClaimsNothing
      <3>3. QED  BY <2>1, <3>1, <3>2
    <2>6. QED  BY <2>1, <2>2, <2>3, <2>4, <2>5, OneCallMoves
  <1>2. CASE Flag(c, net)
    <2>1. /\ Charge(net) /\ Transition(o, "RECONCILIATION_REQUIRED", net)
          /\ UNCHANGED <<gone, log, verified>>
          /\ Return(c, "raised")
      BY <1>2 DEF Flag
    <2>2. /\ Advance
          /\ CompletedMeansDeleted' /\ CompletedIsAudited' /\ DeletionIsOnRecord'
      BY <1>0, <2>1, TransitionKeepsPromises
    <2>3. TypeOK'
      BY <1>0, <1>a, <1>b, <2>1, TransitionFacts, ChargeFacts, ReturnFacts DEF TypeOK
    <2>4. \A d \in Calls : d # c => pc'[d] = pc[d] /\ answer'[d] = answer[d]
      BY <1>a, <1>b, <2>1, ReturnFacts
    <2>5. CallInv(c)' /\ AnswerHolds(c)'
      BY <1>a, <1>b, <2>1, <2>2, ReturnFacts, NothingTold, DoneClaimsNothing
    <2>6. QED  BY <2>1, <2>2, <2>3, <2>4, <2>5, OneCallMoves
  <1>3. CASE FlagAudit(c, net)
    <2>1. /\ pc[c] = "flag_audit" /\ Charge(net)
          /\ Transition(o, "RECONCILIATION_REQUIRED", net)
          /\ UNCHANGED <<gone, log, verified>>
          /\ \/ Succeeds(o, "RECONCILIATION_REQUIRED", net)
                /\ Return(c, "reconciliation_required")
             \/ Return(c, "raised")
      BY <1>3 DEF FlagAudit
    <2>2. /\ Advance
          /\ CompletedMeansDeleted' /\ CompletedIsAudited' /\ DeletionIsOnRecord'
      BY <1>0, <2>1, TransitionKeepsPromises
    <2>3. TypeOK'
      BY <1>0, <1>a, <1>b, <2>1, TransitionFacts, ChargeFacts, ReturnFacts DEF TypeOK
    <2>4. pc'[c] = "done" /\ \A d \in Calls : d # c => pc'[d] = pc[d] /\ answer'[d] = answer[d]
      BY <1>a, <1>b, <2>1, ReturnFacts
    <2>5. AnswerHolds(c)'
      <3>1. CASE Return(c, "raised")
        BY <1>a, <1>b, <2>2, <3>1, ReturnFacts, NothingTold
      <3>2. CASE /\ Succeeds(o, "RECONCILIATION_REQUIRED", net)
                 /\ Return(c, "reconciliation_required")
        <4>1. answer'[c] = "reconciliation_required" /\ state'[o] = "RECONCILIATION_REQUIRED"
          BY <1>0, <1>a, <1>b, <2>1, <3>2, ReturnFacts, TransitionFacts
        <4>2. QED  BY <1>a, <2>1, <4>1 DEF AnswerHolds, CallInv
      <3>3. QED  BY <2>1, <3>1, <3>2
    <2>6. QED  BY <2>1, <2>2, <2>3, <2>4, <2>5, DoneClaimsNothing, OneCallMoves
  <1>4. CASE Complete(c, net)
    <2>1. /\ pc[c] = "complete" /\ Charge(net) /\ Transition(o, "COMPLETED", net)
          /\ UNCHANGED <<gone, log, verified>>
          /\ \/ Succeeds(o, "COMPLETED", net) /\ Return(c, "deletion_completed")
             \/ Return(c, "raised")
             \/ Goto(c, "flag")
      BY <1>4 DEF Complete, Finished
    <2>2. ResourceOf[o] \in gone /\ (o \in Governed => <<o, "deletion_completed">> \in log)
      BY <1>0, <1>a, <2>1 DEF CallInv
    <2>3. /\ Advance
          /\ CompletedMeansDeleted' /\ CompletedIsAudited' /\ DeletionIsOnRecord'
      BY <1>0, <2>1, <2>2, TransitionKeepsPromises
    <2>4. TypeOK'
      BY <1>0, <1>a, <1>b, <2>1, TransitionFacts, ChargeFacts, GotoFacts, ReturnFacts DEF TypeOK
    <2>5. \A d \in Calls : d # c => pc'[d] = pc[d] /\ answer'[d] = answer[d]
      BY <1>a, <1>b, <2>1, GotoFacts, ReturnFacts
    <2>6. CallInv(c)' /\ AnswerHolds(c)'
      <3>1. CASE Succeeds(o, "COMPLETED", net) /\ Return(c, "deletion_completed")
        <4>1. pc'[c] = "done" /\ answer'[c] = "deletion_completed" /\ state'[o] = "COMPLETED"
          BY <1>0, <1>a, <1>b, <2>1, <3>1, ReturnFacts, TransitionFacts
        <4>2. AnswerHolds(c)'
          BY <2>1, <2>2, <4>1 DEF AnswerHolds
        <4>3. QED  BY <4>1, <4>2, DoneClaimsNothing
      <3>2. CASE Return(c, "raised")
        BY <1>a, <1>b, <2>3, <3>2, ReturnFacts, NothingTold, DoneClaimsNothing
      <3>3. CASE Goto(c, "flag")
        <4>1. pc'[c] = "flag" /\ answer'[c] = answer[c]
          BY <1>a, <1>b, <3>3, GotoFacts
        <4>2. CallInv(c)'
          BY <4>1 DEF CallInv
        <4>3. QED  BY <2>3, <4>1, <4>2, NothingTold
      <3>4. QED  BY <2>1, <3>1, <3>2, <3>3
    <2>7. QED  BY <2>1, <2>3, <2>4, <2>5, <2>6, OneCallMoves
  <1>5. QED  BY <1>1, <1>2, <1>3, <1>4

\* A step that leaves the record alone and deletes nothing it should not.
LEMMA GrowthKeepsPromises ==
    ASSUME IInv, UNCHANGED state, gone \subseteq gone', log \subseteq log',
           \A x \in gone' :
               \/ x \in gone
               \/ \E o \in Ops : /\ ResourceOf[o] = x
                                 /\ state'[o] \in Begun
                                 /\ o \in Governed => <<o, "deletion_approved">> \in log'
    PROVE  /\ Advance
           /\ CompletedMeansDeleted' /\ CompletedIsAudited' /\ DeletionIsOnRecord'
  <1>1. Advance
    BY DEF Advance
  <1>2. QED  BY <1>1, PromisesStep

\* The delete, and its repetition.
LEMMA DeleteKeepsInv ==
    ASSUME IInv, NEW c \in Calls, NEW net \in Ends, Delete(c, net) \/ Repeat(c, net)
    PROVE  IInv'
  <1> DEFINE o == OpOf[c]
  <1> USE DEF IInv
  <1>0. o \in Ops /\ ResourceOf[o] \in Resources /\ (o \in Governed => c \in Executors)
    BY WhoseOperation
  <1>a. CallInv(c) /\ TypeOK /\ CompletedMeansDeleted
    OBVIOUS
  <1>b. /\ {"raised", "deletion_completed"} \subseteq Answers
        /\ {"flag", "audit", "complete"} \subseteq Steps
    BY DEF Answers, Steps
  <1>1. CASE Delete(c, net)
    <2>1. /\ pc[c] = "delete" /\ Destroy(o, net) /\ UNCHANGED <<state, log, verified>>
          /\ \/ Goto(c, "flag")
             \/ net = "ok" /\ c \in Executors /\ Goto(c, "audit")
             \/ net = "ok" /\ c \notin Executors /\ Goto(c, "complete")
      BY <1>1 DEF Delete
    <2>2. state[o] \in Begun /\ (o \in Governed => <<o, "deletion_approved">> \in log)
      BY <1>0, <1>a, <2>1 DEF CallInv
    <2>3. /\ Advance
          /\ CompletedMeansDeleted' /\ CompletedIsAudited' /\ DeletionIsOnRecord'
      <3>1. gone' \in {gone, gone \cup {ResourceOf[o]}}
        BY <1>0, <1>a, <2>1, DestroyFacts
      <3>2. \A x \in gone' :
                \/ x \in gone
                \/ /\ ResourceOf[o] = x
                   /\ state'[o] \in Begun
                   /\ o \in Governed => <<o, "deletion_approved">> \in log'
        BY <2>1, <2>2, <3>1
      <3>3. QED  BY <1>0, <2>1, <3>1, <3>2, GrowthKeepsPromises
    <2>4. TypeOK'
      BY <1>0, <1>a, <1>b, <2>1, DestroyFacts, GotoFacts DEF TypeOK
    <2>5. answer' = answer /\ \A d \in Calls : d # c => pc'[d] = pc[d] /\ answer'[d] = answer[d]
      BY <1>a, <1>b, <2>1, GotoFacts
    <2>6. CallInv(c)'
      <3>1. CASE Goto(c, "flag")
        <4>1. pc'[c] = "flag"
          BY <1>a, <1>b, <3>1, GotoFacts
        <4>2. QED  BY <4>1 DEF CallInv
      <3>2. CASE net = "ok" /\ c \in Executors /\ Goto(c, "audit")
        <4>1. pc'[c] = "audit" /\ ResourceOf[o] \in gone'
          BY <1>0, <1>a, <1>b, <2>1, <3>2, GotoFacts, DestroyFacts
        <4>2. QED  BY <2>1, <2>2, <3>2, <4>1 DEF CallInv
      <3>3. CASE net = "ok" /\ c \notin Executors /\ Goto(c, "complete")
        <4>1. pc'[c] = "complete" /\ ResourceOf[o] \in gone'
          BY <1>0, <1>a, <1>b, <2>1, <3>3, GotoFacts, DestroyFacts
        <4>2. QED  BY <2>1, <2>2, <3>3, <4>1 DEF CallInv
      <3>4. QED  BY <2>1, <3>1, <3>2, <3>3
    <2>7. QED  BY <2>1, <2>3, <2>4, <2>5, <2>6, NothingTold, OneCallMoves
  <1>2. CASE Repeat(c, net)
    <2>1. /\ pc[c] = "repeat" /\ Destroy(o, net) /\ UNCHANGED <<state, log, verified>>
          /\ \/ Return(c, "raised")
             \/ net = "ok" /\ Return(c, "deletion_completed")
      BY <1>2 DEF Repeat, Finished
    <2>2. state[o] = "COMPLETED" /\ ResourceOf[o] \in gone
      BY <1>0, <1>a, <2>1 DEF CallInv, CompletedMeansDeleted
    <2>3. gone' = gone
      BY <1>0, <1>a, <2>1, <2>2, DestroyFacts
    <2>4. /\ Advance
          /\ CompletedMeansDeleted' /\ CompletedIsAudited' /\ DeletionIsOnRecord'
      BY <2>1, <2>3, GrowthKeepsPromises
    <2>5. TypeOK'
      BY <1>0, <1>a, <1>b, <2>1, DestroyFacts, ReturnFacts DEF TypeOK
    <2>6. pc'[c] = "done" /\ \A d \in Calls : d # c => pc'[d] = pc[d] /\ answer'[d] = answer[d]
      BY <1>a, <1>b, <2>1, ReturnFacts
    <2>7. AnswerHolds(c)'
      <3>1. answer'[c] \in {"raised", "deletion_completed"}
        BY <1>a, <1>b, <2>1, ReturnFacts
      <3>2. QED  BY <2>1, <2>2, <2>3, <3>1 DEF AnswerHolds
    <2>8. QED  BY <2>1, <2>4, <2>5, <2>6, <2>7, DoneClaimsNothing, OneCallMoves
  <1>3. QED  BY <1>1, <1>2

\* The two audit events.
LEMMA AuditKeepsInv ==
    ASSUME IInv, NEW c \in Calls, NEW net \in Ends, Approve(c, net) \/ Audit(c, net)
    PROVE  IInv'
  <1> DEFINE o == OpOf[c]
  <1> USE DEF IInv
  <1>0. o \in Ops /\ ResourceOf[o] \in Resources
    BY WhoseOperation
  <1>a. CallInv(c) /\ TypeOK
    OBVIOUS
  <1>b. /\ "raised" \in Answers /\ Events = {"deletion_approved", "deletion_completed"}
        /\ {"attempt", "flag_audit", "complete"} \subseteq Steps
    BY DEF Answers, Steps, Events
  <1>1. CASE Approve(c, net)
    <2>1. /\ pc[c] = "approve" /\ Charge(net) /\ AppendEvent(o, "deletion_approved", net)
          /\ UNCHANGED <<state, gone, verified>>
          /\ \/ net = "ok" /\ Goto(c, "attempt")
             \/ Return(c, "raised")
      BY <1>1 DEF Approve
    <2>2. log' \in SUBSET (Ops \X Events) /\ log \subseteq log'
          /\ (net = "ok" => <<o, "deletion_approved">> \in log')
      BY <1>0, <1>a, <1>b, <2>1, AppendFacts
    <2>3. /\ Advance
          /\ CompletedMeansDeleted' /\ CompletedIsAudited' /\ DeletionIsOnRecord'
      BY <2>1, <2>2, GrowthKeepsPromises
    <2>4. TypeOK'
      BY <1>a, <1>b, <2>1, <2>2, ChargeFacts, GotoFacts, ReturnFacts DEF TypeOK
    <2>5. \A d \in Calls : d # c => pc'[d] = pc[d] /\ answer'[d] = answer[d]
      BY <1>a, <1>b, <2>1, GotoFacts, ReturnFacts
    <2>6. CallInv(c)' /\ AnswerHolds(c)'
      <3>1. CASE net = "ok" /\ Goto(c, "attempt")
        <4>1. pc'[c] = "attempt" /\ answer'[c] = answer[c]
          BY <1>a, <1>b, <3>1, GotoFacts
        <4>2. CallInv(c)'
          BY <2>2, <3>1, <4>1 DEF CallInv
        <4>3. QED  BY <2>3, <4>1, <4>2, NothingTold
      <3>2. CASE Return(c, "raised")
        BY <1>a, <1>b, <2>3, <3>2, ReturnFacts, NothingTold, DoneClaimsNothing
      <3>3. QED  BY <2>1, <3>1, <3>2
    <2>7. QED  BY <2>1, <2>3, <2>4, <2>5, <2>6, OneCallMoves
  <1>2. CASE Audit(c, net)
    <2>1. /\ pc[c] = "audit" /\ Charge(net) /\ AppendEvent(o, "deletion_completed", net)
          /\ UNCHANGED <<state, gone, verified>>
          /\ \/ net = "ok" /\ Goto(c, "complete")
             \/ Goto(c, "flag_audit")
      BY <1>2 DEF Audit
    <2>2. log' \in SUBSET (Ops \X Events) /\ log \subseteq log'
          /\ (net = "ok" => <<o, "deletion_completed">> \in log')
      BY <1>0, <1>a, <1>b, <2>1, AppendFacts
    <2>3. /\ Advance
          /\ CompletedMeansDeleted' /\ CompletedIsAudited' /\ DeletionIsOnRecord'
      BY <2>1, <2>2, GrowthKeepsPromises
    <2>4. TypeOK'
      BY <1>a, <1>b, <2>1, <2>2, ChargeFacts, GotoFacts DEF TypeOK
    <2>5. answer' = answer /\ \A d \in Calls : d # c => pc'[d] = pc[d] /\ answer'[d] = answer[d]
      BY <1>a, <1>b, <2>1, GotoFacts
    <2>6. CallInv(c)'
      <3>1. CASE net = "ok" /\ Goto(c, "complete")
        <4>1. pc'[c] = "complete"
          BY <1>a, <1>b, <3>1, GotoFacts
        <4>2. QED  BY <1>a, <2>1, <2>2, <3>1, <4>1 DEF CallInv
      <3>2. CASE Goto(c, "flag_audit")
        <4>1. pc'[c] = "flag_audit"
          BY <1>a, <1>b, <3>2, GotoFacts
        <4>2. QED  BY <1>a, <2>1, <4>1 DEF CallInv
      <3>3. QED  BY <2>1, <3>1, <3>2
    <2>7. QED  BY <2>1, <2>3, <2>4, <2>5, <2>6, NothingTold, OneCallMoves
  <1>3. QED  BY <1>1, <1>2

\* The steps before the first side effect, and the death of a call.
LEMMA StartKeepsInv ==
    ASSUME IInv, NEW c \in Calls, (\E net \in Ends : Reserve(c, net)) \/ Gates(c) \/ Crash(c)
    PROVE  IInv'
  <1> DEFINE o == OpOf[c]
  <1> USE DEF IInv
  <1>0. o \in Ops /\ ResourceOf[o] \in Resources
    BY WhoseOperation
  <1>a. CallInv(c) /\ TypeOK
    OBVIOUS
  <1>b. /\ {"raised", "retained"} \subseteq Answers
        /\ {"gates", "approve", "attempt", "repeat", "done"} \subseteq Steps
        /\ "APPROVED" \in States
    BY DEF Answers, Steps, States
  <1>1. ASSUME NEW net \in Ends, Reserve(c, net)
        PROVE  IInv'
    <2>1. /\ pc[c] = "reserve" /\ Charge(net)
          /\ \/ state' = state
             \/ state[o] = "absent" /\ state' = [state EXCEPT ![o] = "APPROVED"]
          /\ UNCHANGED <<gone, log, verified>>
          /\ \/ Return(c, "raised")
             \/ c \in Executors /\ Goto(c, "gates")
             \/ c \notin Executors /\ state[o] = "COMPLETED" /\ Goto(c, "repeat")
             \/ c \notin Executors /\ Goto(c, "attempt")
      BY <1>1 DEF Reserve
    <2>2. /\ state' \in [Ops -> States]
          /\ \A p \in Ops : state'[p] = state[p] \/ (state[p] = "absent" /\ state'[p] = "APPROVED")
      BY <1>0, <1>a, <1>b, <2>1 DEF TypeOK
    <2>3. Advance
      BY <2>1, <2>2 DEF Advance, Begun
    <2>4. CompletedMeansDeleted' /\ CompletedIsAudited' /\ DeletionIsOnRecord'
      BY <2>1, <2>2, <2>3, PromisesStep
    <2>5. TypeOK'
      BY <1>a, <1>b, <2>1, <2>2, ChargeFacts, GotoFacts, ReturnFacts DEF TypeOK
    <2>6. \A d \in Calls : d # c => pc'[d] = pc[d] /\ answer'[d] = answer[d]
      BY <1>a, <1>b, <2>1, GotoFacts, ReturnFacts
    <2>7. CallInv(c)' /\ AnswerHolds(c)'
      <3>1. CASE Return(c, "raised")
        BY <1>a, <1>b, <2>3, <3>1, ReturnFacts, NothingTold, DoneClaimsNothing
      <3>2. CASE c \in Executors /\ Goto(c, "gates")
        <4>1. pc'[c] = "gates" /\ answer'[c] = answer[c]
          BY <1>a, <1>b, <3>2, GotoFacts
        <4>2. CallInv(c)'
          BY <3>2, <4>1 DEF CallInv
        <4>3. QED  BY <2>3, <4>1, <4>2, NothingTold
      <3>3. CASE c \notin Executors /\ state[o] = "COMPLETED" /\ Goto(c, "repeat")
        <4>1. pc'[c] = "repeat" /\ answer'[c] = answer[c] /\ state'[o] = "COMPLETED"
          BY <1>0, <1>a, <1>b, <2>3, <3>3, GotoFacts DEF Advance
        <4>2. CallInv(c)'
          BY <4>1 DEF CallInv
        <4>3. QED  BY <2>3, <4>1, <4>2, NothingTold
      <3>4. CASE c \notin Executors /\ Goto(c, "attempt")
        <4>1. pc'[c] = "attempt" /\ answer'[c] = answer[c]
          BY <1>a, <1>b, <3>4, GotoFacts
        <4>2. CallInv(c)'
          BY <3>4, <4>1 DEF CallInv
        <4>3. QED  BY <2>3, <4>1, <4>2, NothingTold
      <3>5. QED  BY <2>1, <3>1, <3>2, <3>3, <3>4
    <2>8. QED  BY <2>1, <2>3, <2>4, <2>5, <2>6, <2>7, OneCallMoves
  <1>2. CASE Gates(c) \/ Crash(c)
    <2>1. /\ UNCHANGED <<state, gone, log, verified>>
          /\ faults' \in 0 .. MaxFaults
          /\ \/ pc[c] = "gates" /\ Goto(c, "approve")
             \/ Goto(c, "done")
             \/ Return(c, "retained")
      BY <1>2, <1>a, CallsAssumption DEF Gates, Crash, TypeOK
    <2>2. /\ Advance
          /\ CompletedMeansDeleted' /\ CompletedIsAudited' /\ DeletionIsOnRecord'
      BY <2>1, GrowthKeepsPromises
    <2>3. TypeOK'
      BY <1>a, <1>b, <2>1, GotoFacts, ReturnFacts DEF TypeOK
    <2>4. \A d \in Calls : d # c => pc'[d] = pc[d] /\ answer'[d] = answer[d]
      BY <1>a, <1>b, <2>1, GotoFacts, ReturnFacts
    <2>5. CallInv(c)' /\ AnswerHolds(c)'
      <3>1. /\ answer'[c] \in {answer[c], "retained"}
            /\ pc'[c] = "done" \/ (pc[c] = "gates" /\ pc'[c] = "approve")
        BY <1>a, <1>b, <2>1, GotoFacts, ReturnFacts
      <3>2. CallInv(c)'
        BY <1>a, <3>1 DEF CallInv
      <3>3. QED  BY <2>2, <3>1, <3>2, NothingTold
    <2>6. QED  BY <2>1, <2>2, <2>3, <2>4, <2>5, OneCallMoves
  <1>3. QED  BY <1>1, <1>2

\* A step during which no call moves.
LEMMA NoCallMoves ==
    ASSUME IInv, TypeOK', Advance, UNCHANGED <<pc, answer>>,
           \A o \in verified' : ResourceOf[o] \in gone',
           CompletedMeansDeleted', CompletedIsAudited', DeletionIsOnRecord'
    PROVE  IInv'
  <1>1. \A d \in Calls : CallInv(d)'
    BY OthersKeepCallInv DEF IInv
  <1>2. AnswersHold'
    BY CallsAssumption DEF IInv, AnswersHold, Advance
  <1>3. QED  BY <1>1, <1>2 DEF IInv

\* The steps of the operator.
LEMMA OperatorKeepsInv ==
    ASSUME IInv, NEW o \in Ops, OperatorStep(o)
    PROVE  IInv'
  <1> USE DEF IInv
  <1>a. TypeOK
    OBVIOUS
  <1>b. /\ {"RECONCILIATION_REQUIRED", "COMPLETED"} \subseteq States
        /\ "deletion_completed" \in Events
    BY DEF States, Events
  <1>1. CASE RequireReconciliation(o)
    <2>1. /\ Transition(o, "RECONCILIATION_REQUIRED", "ok")
          /\ UNCHANGED <<gone, log, pc, answer, verified, faults>>
      BY <1>1 DEF RequireReconciliation
    <2>2. /\ Advance
          /\ CompletedMeansDeleted' /\ CompletedIsAudited' /\ DeletionIsOnRecord'
      BY <2>1, TransitionKeepsPromises
    <2>3. TypeOK'
      BY <1>a, <1>b, <2>1, TransitionFacts DEF TypeOK
    <2>4. QED  BY <2>1, <2>2, <2>3, NoCallMoves
  <1>2. CASE Verify(o)
    <2>1. /\ ResourceOf[o] \in gone /\ verified' = verified \cup {o}
          /\ UNCHANGED <<state, gone, log, pc, answer, faults>>
      BY <1>2 DEF Verify
    <2>2. /\ Advance
          /\ CompletedMeansDeleted' /\ CompletedIsAudited' /\ DeletionIsOnRecord'
      BY <2>1, GrowthKeepsPromises
    <2>3. TypeOK'
      BY <1>a, <2>1 DEF TypeOK
    <2>4. QED  BY <2>1, <2>2, <2>3, NoCallMoves
  <1>3. CASE AppendMissing(o)
    <2>1. /\ AppendEvent(o, "deletion_completed", "ok")
          /\ UNCHANGED <<state, gone, pc, answer, verified, faults>>
      BY <1>3 DEF AppendMissing
    <2>2. log' \in SUBSET (Ops \X Events) /\ log \subseteq log'
      BY <1>a, <1>b, <2>1, AppendFacts
    <2>3. /\ Advance
          /\ CompletedMeansDeleted' /\ CompletedIsAudited' /\ DeletionIsOnRecord'
      BY <2>1, <2>2, GrowthKeepsPromises
    <2>4. TypeOK'
      BY <1>a, <2>1, <2>2 DEF TypeOK
    <2>5. QED  BY <2>1, <2>3, <2>4, NoCallMoves
  <1>4. CASE CompleteReconciliation(o)
    <2>1. /\ o \in verified /\ <<o, "deletion_completed">> \in log
          /\ Transition(o, "COMPLETED", "ok")
          /\ UNCHANGED <<gone, log, pc, answer, verified, faults>>
      BY <1>4 DEF CompleteReconciliation
    <2>2. /\ Advance
          /\ CompletedMeansDeleted' /\ CompletedIsAudited' /\ DeletionIsOnRecord'
      BY <2>1, TransitionKeepsPromises
    <2>3. TypeOK'
      BY <1>a, <1>b, <2>1, TransitionFacts DEF TypeOK
    <2>4. QED  BY <2>1, <2>2, <2>3, NoCallMoves
  <1>5. QED  BY <1>1, <1>2, <1>3, <1>4 DEF OperatorStep

-----------------------------------------------------------------------------
\* The invariant of the whole specification: calls of both kinds, crashes,
\* failed calls and the operator, in any interleaving.
THEOREM InvariantHolds == Spec => []IInv
  <1>1. Init => IInv
    <2>1. SUFFICES ASSUME Init PROVE IInv
      OBVIOUS
    <2>2. TypeOK
      BY <2>1, CallsAssumption DEF Init, TypeOK, States, Steps, Answers
    <2>3. \A c \in Calls : pc[c] = "reserve" /\ answer[c] = "none"
      BY <2>1 DEF Init
    <2>4. (\A c \in Calls : CallInv(c)) /\ AnswersHold
      BY <2>3 DEF CallInv, AnswersHold
    <2>5. CompletedMeansDeleted /\ CompletedIsAudited /\ DeletionIsOnRecord
      BY <2>1, CallsAssumption
      DEF Init, CompletedMeansDeleted, CompletedIsAudited, DeletionIsOnRecord, Governed, Calls
    <2>6. QED  BY <2>1, <2>2, <2>4, <2>5 DEF IInv, Init
  <1>2. IInv /\ [Next]_vars => IInv'
    <2>1. SUFFICES ASSUME IInv, [Next]_vars PROVE IInv'
      OBVIOUS
    <2>2. ASSUME NEW c \in Calls, NEW net \in Ends, CallStep(c, net)
          PROVE  IInv'
      BY <2>1, <2>2, StartKeepsInv, AuditKeepsInv, DeleteKeepsInv, CallTransitionKeepsInv
      DEF CallStep
    <2>3. ASSUME NEW c \in Calls, Gates(c) \/ Crash(c)
          PROVE  IInv'
      BY <2>1, <2>3, StartKeepsInv
    <2>4. ASSUME NEW o \in Ops, OperatorStep(o)
          PROVE  IInv'
      BY <2>1, <2>4, OperatorKeepsInv
    <2>5. CASE UNCHANGED vars
      <3>1. TypeOK' /\ Advance /\ UNCHANGED <<pc, answer>>
            /\ (\A o \in verified' : ResourceOf[o] \in gone')
        BY <2>1, <2>5 DEF IInv, TypeOK, vars, Advance
      <3>2. CompletedMeansDeleted' /\ CompletedIsAudited' /\ DeletionIsOnRecord'
        BY <2>1, <2>5, <3>1, PromisesStep DEF vars
      <3>3. QED  BY <2>1, <3>1, <3>2, NoCallMoves
    <2>6. QED  BY <2>1, <2>2, <2>3, <2>4, <2>5 DEF Next
  <1>3. QED  BY <1>1, <1>2, PTL DEF Spec

\* States, log, answers and program counters of the calls have their types.
THEOREM TypeHolds == Spec => []TypeOK
  <1>1. IInv => TypeOK
    BY DEF IInv
  <1>2. QED  BY <1>1, InvariantHolds, PTL

\* COMPLETED means deleted: no caller and no operator closes an operation whose
\* resource still exists.
THEOREM CompletedMeansDeletedHolds == Spec => []CompletedMeansDeleted
  <1>1. IInv => CompletedMeansDeleted
    BY DEF IInv
  <1>2. QED  BY <1>1, InvariantHolds, PTL

\* No deletion without a durable trace and, for execute_deletion, an audited
\* approval, whatever crashes or is lost.
THEOREM DeletionIsOnRecordHolds == Spec => []DeletionIsOnRecord
  <1>1. IInv => DeletionIsOnRecord
    BY DEF IInv
  <1>2. QED  BY <1>1, InvariantHolds, PTL

\* A closed operation of execute_deletion has its completion event.
THEOREM CompletedIsAuditedHolds == Spec => []CompletedIsAudited
  <1>1. IInv => CompletedIsAudited
    BY DEF IInv
  <1>2. QED  BY <1>1, InvariantHolds, PTL

\* What execute_deletion and soft_delete_workspace told a caller stays true.
THEOREM AnswersHoldHolds == Spec => []AnswersHold
  <1>1. IInv => AnswersHold
    BY DEF IInv
  <1>2. QED  BY <1>1, InvariantHolds, PTL

-----------------------------------------------------------------------------
\* Only an accepted attempt brings a call to its delete.
LEMMA DeleteNeedsAttempt ==
    ASSUME IInv, Next, NEW c \in Calls, pc'[c] = "delete", pc[c] # "delete"
    PROVE  \E net \in Ends : Attempt(c, net) /\ Succeeds(OpOf[c], "DELETE_ATTEMPTED", net)
  <1>0. pc \in [Calls -> Steps]
    BY DEF IInv, TypeOK
  <1>1. ASSUME NEW d \in Calls, NEW net \in Ends, CallStep(d, net)
        PROVE  Attempt(c, net) /\ Succeeds(OpOf[c], "DELETE_ATTEMPTED", net)
    <2>1. CASE Attempt(d, net)
      BY <1>0, <2>1 DEF Attempt, Goto, Return
    <2>2. CASE \/ Reserve(d, net) \/ Approve(d, net) \/ Delete(d, net)
      BY <1>0, <2>2 DEF Reserve, Approve, Delete, Goto, Return
    <2>3. CASE Repeat(d, net) \/ Flag(d, net)
      BY <1>0, <2>3 DEF Repeat, Flag, Goto, Return
    <2>4. CASE Audit(d, net) \/ FlagAudit(d, net) \/ Complete(d, net)
      BY <1>0, <2>4 DEF Audit, FlagAudit, Complete, Goto, Return
    <2>5. QED  BY <1>1, <2>1, <2>2, <2>3, <2>4 DEF CallStep
  <1>2. ASSUME NEW d \in Calls, Gates(d) \/ Crash(d)
        PROVE  FALSE
    BY <1>0, <1>2 DEF Gates, Crash, Goto, Return
  <1>3. ASSUME NEW o \in Ops, OperatorStep(o)
        PROVE  FALSE
    BY <1>3 DEF OperatorStep, RequireReconciliation, Verify, AppendMissing, CompleteReconciliation
  <1>4. QED  BY <1>1, <1>2, <1>3 DEF Next

\* Every step moves the record forward.
LEMMA StepAdvances ==
    ASSUME IInv, Next, NEW o \in Ops, state[o] \in {"RECONCILIATION_REQUIRED", "COMPLETED"}
    PROVE  state'[o] \in {state[o], "COMPLETED"}
  <1>0. TypeOK /\ \A p \in Ops : state[p] \in States
    BY DEF IInv, TypeOK
  <1>a. {"DELETE_ATTEMPTED", "RECONCILIATION_REQUIRED", "COMPLETED"} \subseteq States
    BY DEF States
  <1>1. ASSUME NEW p \in Ops, NEW net,
               NEW to \in {"DELETE_ATTEMPTED", "RECONCILIATION_REQUIRED", "COMPLETED"},
               Transition(p, to, net)
        PROVE  state'[o] \in {state[o], "COMPLETED"}
    <2>1. to \in States
      BY <1>a
    <2>2. CASE state'[o] = state[o]
      BY <2>2
    <2>3. CASE state'[o] # state[o]
      <3>1. o = p /\ state'[o] = to /\ Allowed(state[o], to)
        BY <1>0, <1>1, <2>1, <2>3, TransitionFacts
      <3>2. QED  BY <3>1 DEF Allowed
    <2>4. QED  BY <2>2, <2>3
  <1>2. ASSUME NEW c \in Calls, NEW net \in Ends, CallStep(c, net)
        PROVE  state'[o] \in {state[o], "COMPLETED"}
    <2>1. OpOf[c] \in Ops
      BY WhoseOperation
    <2>2. CASE Reserve(c, net)
      <3>1. state' = state \/ (state[OpOf[c]] = "absent"
                               /\ state' = [state EXCEPT ![OpOf[c]] = "APPROVED"])
        BY <2>2 DEF Reserve
      <3>2. QED  BY <1>0, <3>1 DEF TypeOK
    <2>3. CASE Approve(c, net) \/ Delete(c, net) \/ Repeat(c, net) \/ Audit(c, net)
      BY <2>3 DEF Approve, Delete, Repeat, Audit
    <2>4. CASE Attempt(c, net) \/ Flag(c, net) \/ FlagAudit(c, net) \/ Complete(c, net)
      BY <1>1, <2>1, <2>4 DEF Attempt, Flag, FlagAudit, Complete
    <2>5. QED  BY <1>2, <2>2, <2>3, <2>4 DEF CallStep
  <1>3. ASSUME NEW c \in Calls, Gates(c) \/ Crash(c)
        PROVE  state'[o] \in {state[o], "COMPLETED"}
    BY <1>3 DEF Gates, Crash
  <1>4. ASSUME NEW p \in Ops, OperatorStep(p)
        PROVE  state'[o] \in {state[o], "COMPLETED"}
    <2>1. CASE RequireReconciliation(p) \/ CompleteReconciliation(p)
      BY <1>1, <2>1 DEF RequireReconciliation, CompleteReconciliation
    <2>2. CASE Verify(p) \/ AppendMissing(p)
      BY <2>2 DEF Verify, AppendMissing
    <2>3. QED  BY <1>4, <2>1, <2>2 DEF OperatorStep
  <1>5. QED  BY <1>2, <1>3, <1>4 DEF Next

\* Once an operation is flagged or completed it can only complete, and no
\* further call reaches its delete.
THEOREM SettledIsNotRetriedHolds == Spec => SettledIsNotRetried
  <1> DEFINE Settled == \A o \in Ops : state[o] \in {"RECONCILIATION_REQUIRED", "COMPLETED"} =>
                 /\ state'[o] \in {state[o], "COMPLETED"}
                 /\ \A c \in Calls : OpOf[c] = o /\ pc'[c] = "delete" => pc[c] = "delete"
  <1>1. ASSUME IInv, [Next]_vars
        PROVE  [Settled]_vars
    <2>1. CASE UNCHANGED vars
      BY <2>1
    <2>2. ASSUME Next, NEW o \in Ops, state[o] \in {"RECONCILIATION_REQUIRED", "COMPLETED"}
          PROVE  /\ state'[o] \in {state[o], "COMPLETED"}
                 /\ \A c \in Calls : OpOf[c] = o /\ pc'[c] = "delete" => pc[c] = "delete"
      <3>1. state'[o] \in {state[o], "COMPLETED"}
        BY <1>1, <2>2, StepAdvances
      <3>2. ASSUME NEW c \in Calls, OpOf[c] = o, pc'[c] = "delete", pc[c] # "delete"
            PROVE  FALSE
        <4>1. PICK net \in Ends : Succeeds(OpOf[c], "DELETE_ATTEMPTED", net)
          BY <1>1, <2>2, <3>2, DeleteNeedsAttempt
        <4>2. QED  BY <2>2, <3>2, <4>1 DEF Succeeds, Allowed
      <3>3. QED  BY <3>1, <3>2
    <2>3. QED  BY <1>1, <2>1, <2>2
  <1>2. QED  BY <1>1, InvariantHolds, PTL DEF Spec, SettledIsNotRetried

-----------------------------------------------------------------------------
\* A transition either changes nothing or moves one operation to another state
\* along the transition table.
LEMMA TransitionMoves ==
    ASSUME TypeOK, NEW o \in Ops, NEW to, NEW net, Transition(o, to, net)
    PROVE  \/ state' = state
           \/ /\ state' = [state EXCEPT ![o] = to]
              /\ state[o] # to
              /\ Allowed(state[o], to)
  BY DEF TypeOK, Transition

\* An operation the operator verified was reserved before.
VerifiedIsReserved == \A o \in verified : state[o] # "absent"

\* Nothing makes a reserved operation absent again, and only a reserved one is
\* verified.
LEMMA VerifiedStep ==
    ASSUME IInv, VerifiedIsReserved, [Next]_vars
    PROVE  VerifiedIsReserved'
  <1>1. TypeOK
    BY DEF IInv
  <1>2. ASSUME NEW o \in Ops, NEW net,
               NEW to \in {"DELETE_ATTEMPTED", "RECONCILIATION_REQUIRED", "COMPLETED"},
               Transition(o, to, net)
        PROVE  \A p \in Ops : state[p] # "absent" => state'[p] # "absent"
    BY <1>1, <1>2 DEF TypeOK, Transition
  <1>3. \A p \in Ops : state[p] # "absent" => state'[p] # "absent"
    <2>1. ASSUME NEW c \in Calls, NEW net \in Ends, CallStep(c, net)
          PROVE  \A p \in Ops : state[p] # "absent" => state'[p] # "absent"
      <3>1. OpOf[c] \in Ops
        BY WhoseOperation
      <3>2. CASE Reserve(c, net)
        BY <1>1, <3>1, <3>2 DEF Reserve, TypeOK
      <3>3. CASE Approve(c, net) \/ Delete(c, net) \/ Repeat(c, net) \/ Audit(c, net)
        BY <3>3 DEF Approve, Delete, Repeat, Audit
      <3>4. CASE Attempt(c, net) \/ Flag(c, net) \/ FlagAudit(c, net) \/ Complete(c, net)
        BY <1>2, <3>1, <3>4 DEF Attempt, Flag, FlagAudit, Complete
      <3>5. QED  BY <2>1, <3>2, <3>3, <3>4 DEF CallStep
    <2>2. ASSUME NEW o \in Ops, RequireReconciliation(o) \/ CompleteReconciliation(o)
          PROVE  \A p \in Ops : state[p] # "absent" => state'[p] # "absent"
      BY <1>2, <2>2 DEF RequireReconciliation, CompleteReconciliation
    <2>3. QED
      BY <2>1, <2>2 DEF Next, Gates, Crash, OperatorStep, Verify, AppendMissing, vars
  <1>4. verified' = verified \/ \E o \in Ops : /\ state[o] # "absent"
                                               /\ verified' = verified \cup {o}
    BY DEF Next, CallStep, Reserve, Approve, Attempt, Delete, Repeat, Flag, Audit, FlagAudit,
           Complete, Gates, Crash, OperatorStep, RequireReconciliation, Verify, AppendMissing,
           CompleteReconciliation, vars
  <1>5. QED  BY <1>1, <1>3, <1>4 DEF VerifiedIsReserved, TypeOK

\* Every step of a call or an operator is a step of the abstract ledger, or
\* changes nothing an auditor can see.
LEMMA LedgerStep ==
    ASSUME IInv, VerifiedIsReserved, [Next]_vars
    PROVE  [Ledger!Next]_(Ledger!vars)
  <1> DEFINE Same == UNCHANGED <<state, gone, log>>
             Seen(o) == \/ Ledger!Reserve(o) \/ Ledger!Attempt(o) \/ Ledger!Destroy(o)
                        \/ Ledger!LogApproval(o) \/ Ledger!LogCompletion(o)
                        \/ Ledger!Flag(o) \/ Ledger!Close(o)
  <1>1. TypeOK /\ \A c \in Calls : CallInv(c)
    BY DEF IInv
  <1>2. ASSUME NEW o \in Ops, NEW net, UNCHANGED <<gone, log>>,
               Transition(o, "RECONCILIATION_REQUIRED", net)
        PROVE  Same \/ Ledger!Flag(o)
    BY <1>1, <1>2, TransitionMoves DEF Allowed, Ledger!Flag, Ledger!Move
  <1>3. ASSUME NEW o \in Ops, NEW net, UNCHANGED <<gone, log>>,
               Transition(o, "DELETE_ATTEMPTED", net),
               o \in Governed => <<o, "deletion_approved">> \in log
        PROVE  Same \/ Ledger!Attempt(o)
    BY <1>1, <1>3, TransitionMoves DEF Allowed, Ledger!Attempt, Ledger!Move, Ledger!Has
  <1>4. ASSUME NEW o \in Ops, NEW net, UNCHANGED <<gone, log>>,
               Transition(o, "COMPLETED", net), ResourceOf[o] \in gone,
               o \in Governed => <<o, "deletion_completed">> \in log
        PROVE  Same \/ Ledger!Close(o)
    BY <1>1, <1>4, TransitionMoves DEF Allowed, Ledger!Close, Ledger!Move, Ledger!Has
  <1>5. ASSUME NEW c \in Calls, NEW net \in Ends, CallStep(c, net)
        PROVE  Same \/ Seen(OpOf[c])
    <2> DEFINE o == OpOf[c]
    <2>1. o \in Ops /\ (o \in Governed => c \in Executors) /\ (c \in Executors => o \in Governed)
      BY WhoseOperation DEF Governed
    <2>2. CASE Reserve(c, net)
      BY <2>2 DEF Reserve, Ledger!Reserve, Ledger!Move
    <2>3. CASE Approve(c, net)
      <3>1. c \in Executors
        BY <1>1, <2>3 DEF Approve, CallInv
      <3>2. QED
        BY <2>1, <2>3, <3>1 DEF Approve, AppendEvent, Ledger!LogApproval, Ledger!Append
    <2>4. CASE Attempt(c, net)
      <3>1. c \in Executors => <<o, "deletion_approved">> \in log
        BY <1>1, <2>4 DEF Attempt, CallInv
      <3>2. QED  BY <1>3, <2>1, <2>4, <3>1 DEF Attempt
    <2>5. CASE Delete(c, net)
      <3>1. state[o] \in Begun /\ (c \in Executors => <<o, "deletion_approved">> \in log)
        BY <1>1, <2>5 DEF Delete, CallInv
      <3>2. QED
        BY <2>1, <2>5, <3>1 DEF Delete, Destroy, Begun, Ledger!Destroy, Ledger!Has
    <2>6. CASE Repeat(c, net)
      <3>1. ResourceOf[o] \in gone
        BY <1>1, <2>1, <2>6 DEF Repeat, CallInv, IInv, CompletedMeansDeleted
      <3>2. QED  BY <2>6, <3>1 DEF Repeat, Destroy
    <2>7. CASE Flag(c, net) \/ FlagAudit(c, net)
      BY <1>2, <2>1, <2>7 DEF Flag, FlagAudit
    <2>8. CASE Audit(c, net)
      <3>1. ResourceOf[o] \in gone /\ state[o] \in Begun
        BY <1>1, <2>8 DEF Audit, CallInv
      <3>2. QED
        BY <2>8, <3>1 DEF Audit, AppendEvent, Begun, Ledger!LogCompletion, Ledger!Append
    <2>9. CASE Complete(c, net)
      <3>1. ResourceOf[o] \in gone /\ (c \in Executors => <<o, "deletion_completed">> \in log)
        BY <1>1, <2>9 DEF Complete, CallInv
      <3>2. QED  BY <1>4, <2>1, <2>9, <3>1 DEF Complete
    <2>10. QED
      BY <1>5, <2>2, <2>3, <2>4, <2>5, <2>6, <2>7, <2>8, <2>9 DEF CallStep
  <1>6. ASSUME NEW o \in Ops, OperatorStep(o)
        PROVE  Same \/ Seen(o)
    <2>1. CASE RequireReconciliation(o)
      BY <1>2, <2>1 DEF RequireReconciliation
    <2>2. CASE Verify(o)
      BY <2>2 DEF Verify
    <2>3. CASE AppendMissing(o)
      BY <2>3 DEF AppendMissing, AppendEvent, IInv, Ran, VerifiedIsReserved,
                  Ledger!LogCompletion, Ledger!Append
    <2>4. CASE CompleteReconciliation(o)
      <3>1. ResourceOf[o] \in gone /\ <<o, "deletion_completed">> \in log
        BY <2>4 DEF CompleteReconciliation, IInv
      <3>2. QED  BY <1>4, <2>4, <3>1 DEF CompleteReconciliation
    <2>5. QED  BY <1>6, <2>1, <2>2, <2>3, <2>4 DEF OperatorStep
  <1>7. CASE Same
    BY <1>7 DEF Ledger!vars
  <1>8. ASSUME NEW o \in Ops, Seen(o)
        PROVE  Ledger!Next
    BY <1>8 DEF Ledger!Next
  <1> HIDE DEF Seen
  <1>9. ASSUME NEW c \in Calls, NEW net \in Ends, CallStep(c, net)
        PROVE  Same \/ Ledger!Next
    BY <1>5, <1>8, <1>9, WhoseOperation
  <1>10. ASSUME NEW o \in Ops, OperatorStep(o)
         PROVE  Same \/ Ledger!Next
    BY <1>6, <1>8, <1>10
  <1>11. Same \/ Ledger!Next
    BY <1>9, <1>10 DEF Next, Gates, Crash, vars
  <1>12. QED  BY <1>7, <1>11

\* Calls, retries, faults and operators implement the abstract ledger: intent
\* before destruction, proof before closing, nothing taken back.
THEOREM LedgerImplemented == Spec => ImplementsLedger
  <1>1. Init => Ledger!Init /\ VerifiedIsReserved
    BY DEF Init, Ledger!Init, VerifiedIsReserved
  <1>2. IInv /\ VerifiedIsReserved /\ [Next]_vars => VerifiedIsReserved'
    BY VerifiedStep
  <1>3. IInv /\ VerifiedIsReserved /\ [Next]_vars => [Ledger!Next]_(Ledger!vars)
    BY LedgerStep
  <1>4. QED
    BY <1>1, <1>2, <1>3, InvariantHolds, PTL DEF Spec, ImplementsLedger, Ledger!Spec
===========================================================================
