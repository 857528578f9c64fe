----------------------- MODULE ResearchLineageProofs -----------------------
(***************************************************************************)
(* The lineage from claim to finding, for any number of claims, runs and   *)
(* clients.  The invariant adds to the properties what requests have read: *)
(* a request to lock a plan read an unlocked claim or its own plan, and a  *)
(* request to store a finding read a VALIDATED validation.                 *)
(***************************************************************************)
EXTENDS ResearchLineage, TLAPS

\* What a request knows when it writes.
ReadsHold ==
    \A x \in Clients :
       /\ req[x].op = "lock" => Lockable(req[x].read, req[x].plan)
       /\ req[x].op = "find" => req[x].record.validation.status = "VALIDATED"

IInv == /\ TypeOK /\ ReadsHold
        /\ FindingLineage /\ AnswersAreStored

LEMMA InitIInv == Init => IInv
BY LineageAssumption, SMT DEF Init, IInv, TypeOK, ReadsHold, FindingLineage,
   AnswersAreStored, Maybe, Idle

LEMMA NextTypeOK == TypeOK /\ [Next]_vars => TypeOK'
<1> SUFFICES ASSUME TypeOK, [Next]_vars PROVE TypeOK'
  OBVIOUS
<1> USE LineageAssumption DEF TypeOK, rows, Maybe
<1>1. ASSUME NEW c \in Claims, CreateClaim(c) PROVE TypeOK'
  BY <1>1, SMT DEF CreateClaim, SaveClaim
<1>2. ASSUME NEW r \in Runs, CreateRun(r) PROVE TypeOK'
  BY <1>2, SMT DEF CreateRun, InsertRun, Binding
<1>3. ASSUME NEW r \in Runs, NEW k \in Keys, NEW c \in Claims, NEW p \in Plans,
             CreateGovernedRun(r, k, c, p)
      PROVE  TypeOK'
  BY <1>3, SMT DEF CreateGovernedRun, InsertRun, Binding
<1>4. ASSUME NEW r \in Runs, NEW m \in Manifests, RecordResult(r, m) PROVE TypeOK'
  BY <1>4, SMT DEF RecordResult
<1>5. ASSUME NEW x \in Clients, NEW c \in Claims, NEW p \in Plans, ReadClaim(x, c, p)
      PROVE  TypeOK'
  BY <1>5, SMT DEF ReadClaim, Requests
<1>6. ASSUME NEW x \in Clients, SaveLockedClaim(x) PROVE TypeOK'
  BY <1>6, SMT DEF SaveLockedClaim, SaveClaim, Requests, Idle
<1>7. ASSUME NEW x \in Clients, NEW r \in Runs, NEW m \in Manifests, NEW d \in Digests,
             NEW s \in Statuses, ReadResult(x, r, m, d, s)
      PROVE  TypeOK'
  BY <1>7, SMT DEF ReadResult, Requests, Validation
<1>8. ASSUME NEW x \in Clients, StoreValidation(x) PROVE TypeOK'
  BY <1>8, SMT DEF StoreValidation, Requests, Idle, Answer, Wins, Same
<1>9. ASSUME NEW x \in Clients, NEW r \in Runs, NEW d \in Digests, NEW e \in Digests,
             ReadValidation(x, r, d, e)
      PROVE  TypeOK'
  BY <1>9, SMT DEF ReadValidation, Eligible, Requests, Finding
<1>10. ASSUME NEW x \in Clients, StoreFinding(x) PROVE TypeOK'
  BY <1>10, SMT DEF StoreFinding, Requests, Idle, Answer, Wins, Same
<1>11. ASSUME NEW x \in Clients, Return(x) PROVE TypeOK'
  BY <1>11, SMT DEF Return
<1>12. CASE UNCHANGED vars
  BY <1>12, SMT DEF vars
<1>13. QED
  BY <1>1, <1>2, <1>3, <1>4, <1>5, <1>6, <1>7, <1>8, <1>9, <1>10, <1>11, <1>12 DEF Next, Step

\* Every step keeps the properties, each action apart.
LEMMA NextIInv == IInv /\ [Next]_vars => IInv'
<1> SUFFICES ASSUME IInv, [Next]_vars PROVE IInv'
  OBVIOUS
<1> DEFINE Rest == ReadsHold /\ FindingLineage /\ AnswersAreStored
<1>0. TypeOK'
  BY NextTypeOK DEF IInv
<1> USE LineageAssumption DEF IInv, TypeOK, rows, Maybe, Requests, Idle, Lockable,
        ReadsHold, FindingLineage, AnswersAreStored
<1>1. ASSUME NEW c \in Claims, CreateClaim(c) PROVE Rest'
  BY <1>1, SMT DEF CreateClaim, SaveClaim, Locked, Binding, Validation, Finding
<1>2. ASSUME NEW r \in Runs, CreateRun(r) PROVE Rest'
  BY <1>2, SMT DEF CreateRun, InsertRun, Binding, Validation, Finding
<1>3. ASSUME NEW r \in Runs, NEW k \in Keys, NEW c \in Claims, NEW p \in Plans,
             CreateGovernedRun(r, k, c, p) PROVE Rest'
  BY <1>3, SMT DEF CreateGovernedRun, InsertRun, Governs, Binding, Validation, Finding
<1>4. ASSUME NEW r \in Runs, NEW m \in Manifests, RecordResult(r, m) PROVE Rest'
  BY <1>4, SMT DEF RecordResult, Binding, Validation, Finding
<1>5. ASSUME NEW x \in Clients, NEW c \in Claims, NEW p \in Plans, ReadClaim(x, c, p) PROVE Rest'
  BY <1>5, SMT DEF ReadClaim, Binding, Validation, Finding
<1>6. ASSUME NEW x \in Clients, SaveLockedClaim(x) PROVE Rest'
  BY <1>6, SMT DEF SaveLockedClaim, SaveClaim, Locked, Binding, Validation, Finding
<1>7. ASSUME NEW x \in Clients, NEW r \in Runs, NEW m \in Manifests, NEW d \in Digests,
             NEW s \in Statuses, ReadResult(x, r, m, d, s) PROVE Rest'
  BY <1>7, SMT DEF ReadResult, Binding, Validation, Finding
<1>8. ASSUME NEW x \in Clients, StoreValidation(x) PROVE Rest'
  <2> DEFINE r == req[x].run  new == req[x].record
  <2>1. r \in Runs /\ new \in Validation
    BY <1>8, SMT DEF StoreValidation
  <2>2. CASE /\ Wins(validation[r], new.digest)
             /\ result[r] = new.manifest
             /\ run[r] = new.binding
             /\ validation' = [validation EXCEPT ![r] = new]
             /\ Answer(x, "validated", new)
    <3>1. finding[r] = None
      BY <2>1, <2>2, SMT DEF Wins, Finding
    <3>2. ReadsHold'
      BY <1>8, <2>1, <2>2, SMT DEF StoreValidation, Answer
    <3>3. FindingLineage'
      BY <1>8, <2>1, <2>2, <3>1, SMT DEF StoreValidation
    <3>4. AnswersAreStored'
      BY <1>8, <2>1, <2>2, SMT DEF StoreValidation, Answer, Wins
    <3>5. QED
      BY <3>2, <3>3, <3>4
  <2>3. CASE /\ Same(validation[r], new.digest)
             /\ Answer(x, "validated", validation[r])
             /\ UNCHANGED validation
    BY <1>8, <2>1, <2>3, SMT DEF StoreValidation, Answer, Same
  <2>4. QED
    BY <1>8, <2>2, <2>3 DEF StoreValidation
<1>9. ASSUME NEW x \in Clients, NEW r \in Runs, NEW d \in Digests, NEW e \in Digests,
             ReadValidation(x, r, d, e) PROVE Rest'
  BY <1>9, SMT DEF ReadValidation, Eligible, Binding, Validation, Finding
<1>10. ASSUME NEW x \in Clients, StoreFinding(x) PROVE Rest'
  <2> DEFINE r == req[x].run  new == req[x].record
  <2>1. r \in Runs /\ new \in Finding
    BY <1>10, SMT DEF StoreFinding
  <2>2. CASE /\ Wins(finding[r], new.digest)
             /\ validation[r] = new.validation
             /\ finding' = [finding EXCEPT ![r] = new]
             /\ Answer(x, "found", new)
    <3>1. ReadsHold'
      BY <1>10, <2>1, <2>2, SMT DEF StoreFinding, Answer
    <3>2. FindingLineage'
      BY <1>10, <2>1, <2>2, SMT DEF StoreFinding
    <3>3. AnswersAreStored'
      BY <1>10, <2>1, <2>2, SMT DEF StoreFinding, Answer, Wins
    <3>4. QED
      BY <3>1, <3>2, <3>3
  <2>3. CASE /\ Same(finding[r], new.digest)
             /\ Answer(x, "found", finding[r])
             /\ UNCHANGED finding
    BY <1>10, <2>1, <2>3, SMT DEF StoreFinding, Answer, Same
  <2>4. QED
    BY <1>10, <2>2, <2>3 DEF StoreFinding
<1>11. ASSUME NEW x \in Clients, Return(x) PROVE Rest'
  BY <1>11, SMT DEF Return, Binding, Validation, Finding
<1>12. CASE UNCHANGED vars
  BY <1>12, SMT DEF vars
<1>13. QED
  BY <1>0, <1>1, <1>2, <1>3, <1>4, <1>5, <1>6, <1>7, <1>8, <1>9, <1>10, <1>11, <1>12 DEF Next, Step

-----------------------------------------------------------------------------
\* Every table row and every request of ResearchLineage has its type.
THEOREM TypeCorrect == Spec => []TypeOK
<1>1. Init => TypeOK
  BY InitIInv DEF IInv
<1>2. QED
  BY <1>1, NextTypeOK, PTL DEF Spec

LEMMA Invariance == Spec => []IInv
BY InitIInv, NextIInv, PTL DEF Spec

\* A finding rests on the stored VALIDATED validation of its run, and that on the
\* run's own result, claim and plan: create_validation, create_finding and their
\* database functions, for any number of clients.
THEOREM FindingLineageHolds == Spec => []FindingLineage
BY Invariance, PTL DEF IInv

\* A client answered 201 by the validation or finding endpoint holds what is
\* stored.
THEOREM AnswersAreStoredHolds == Spec => []AnswersAreStored
BY Invariance, PTL DEF IInv

\* What the violation of LockedPlanIsKept comes down to: a locked plan is replaced
\* only by a repeated POST of the claim, or by a lock request that read the claim
\* before that plan was locked; never by one that saw it (lock_plan).
LockLostToRace ==
    [][\A c \in Claims : Locked(c) /\ claim'[c] # claim[c] =>
          \/ claim'[c] = "open"
          \/ \E x \in Clients : /\ req[x].op = "lock"
                                /\ req[x].claim = c
                                /\ req[x].read # claim[c]]_vars

\* These are the only two ways to lose a locked plan, for any number of clients.
THEOREM LockLostToRaceHolds == Spec => LockLostToRace
<1> DEFINE Race(c) == \/ claim'[c] = "open"
                      \/ \E x \in Clients : /\ req[x].op = "lock"
                                            /\ req[x].claim = c
                                            /\ req[x].read # claim[c]
           Act == \A c \in Claims : Locked(c) /\ claim'[c] # claim[c] => Race(c)
<1>1. IInv /\ [Next]_vars => [Act]_vars
  <2> SUFFICES ASSUME IInv, Next, NEW c \in Claims, Locked(c), claim'[c] # claim[c]
               PROVE  Race(c)
    OBVIOUS
  <2> USE LineageAssumption DEF IInv, TypeOK, rows, Maybe
  <2>1. ASSUME NEW d \in Claims, CreateClaim(d) PROVE Race(c)
    BY <2>1, SMT DEF CreateClaim, SaveClaim
  <2>2. ASSUME NEW x \in Clients, SaveLockedClaim(x) PROVE Race(c)
    BY <2>2, SMT DEF SaveLockedClaim, SaveClaim, ReadsHold, Lockable, Locked,
                     Requests, Idle
  <2>3. QED
    BY <2>1, <2>2 DEF Next, Step, CreateRun, CreateGovernedRun, RecordResult,
       ReadClaim, ReadResult, StoreValidation, ReadValidation, StoreFinding, Return
<1>2. QED
  BY <1>1, Invariance, PTL DEF Spec, LockLostToRace
=============================================================================
