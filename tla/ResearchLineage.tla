-------------------------- MODULE ResearchLineage --------------------------
(***************************************************************************)
(* From a research claim to a finding, in one workspace: a claim is posted *)
(* and its plan locked, runs are created under the locked plan, a worker   *)
(* records a result, and clients post a validation of the result and then  *)
(* a finding.                                                              *)
(*                                                                         *)
(* Each row (claim, run, result, validation, finding) is written by one    *)
(* database call.  The requests that read before they write (plan lock,    *)
(* validation, finding) are two steps of a client, and clients interleave. *)
(* A hash is a model value.  No row is deleted here; DeletionOperations    *)
(* and soft deletion deal with that.                                       *)
(***************************************************************************)
EXTENDS Naturals, FiniteSets

CONSTANTS Clients, None,
          Claims,       \* ids of research claims
          UuidClaims,   \* the ids that are UUIDs; _stable_claim_id gives none
          Plans,        \* content_hash of the plans clients lock
          Runs,         \* ids of research runs
          Keys,         \* idempotency keys of governed runs
          Manifests,    \* manifest_sha256 of results
          Digests       \* sha256 of validation and finding payloads

Maybe(S)    == S \cup {None}
Statuses    == {"VALIDATED", "REJECTED"}
Binding     == [claim: Maybe(Claims), plan: Maybe(Plans)]
Validation  == [manifest: Manifests, binding: Binding,
                digest: Digests, status: Statuses]
Finding     == [validation: Validation, digest: Digests]

ASSUME LineageAssumption ==
    /\ None \notin Claims \cup Plans \cup Runs \cup Manifests \cup {"open"}
    /\ None \notin Binding \cup Validation \cup Finding
    /\ UuidClaims \subseteq Claims
    /\ "open" \notin Plans

VARIABLES claim,       \* claim[c]: None, "open", or the hash of its locked plan
          run,         \* run[r]: None, or the claim and plan columns of the row
          idem,        \* idem[k]: the run a governed creation reserved k for
          result,      \* result[r]: None, or the manifest of the stored result
          validation,  \* validation[r]: None, or the stored record
          finding,     \* finding[r]: None, or the stored record
          req          \* req[x]: what client x is at, and what it has read

rows == <<claim, run, idem, result, validation, finding>>
vars == <<rows, req>>

Idle        == [op |-> "idle"]
Requests    == [op: {"lock"}, claim: Claims, plan: Plans,
                read: Plans \cup {"open"}]
               \cup [op: {"validate"}, run: Runs, record: Validation]
               \cup [op: {"find"}, run: Runs, record: Finding]
               \cup [op: {"validated"}, run: Runs, record: Validation]
               \cup [op: {"found"}, run: Runs, record: Finding]

\* Every variable has the type of its table or request.
TypeOK == /\ claim \in [Claims -> Maybe(Plans \cup {"open"})]
          /\ run \in [Runs -> Maybe(Binding)]
          /\ idem \in [Keys -> Maybe(Runs)]
          /\ result \in [Runs -> Maybe(Manifests)]
          /\ validation \in [Runs -> Maybe(Validation)]
          /\ finding \in [Runs -> Maybe(Finding)]
          /\ req \in [Clients -> Requests \cup {Idle}]

Init == /\ claim = [c \in Claims |-> None]
        /\ run = [r \in Runs |-> None]
        /\ idem = [k \in Keys |-> None]
        /\ result = [r \in Runs |-> None]
        /\ validation = [r \in Runs |-> None]
        /\ finding = [r \in Runs |-> None]
        /\ req = [x \in Clients |-> Idle]

Locked(c) == claim[c] \in Plans

-----------------------------------------------------------------------------
(* Claims *)

\* Every write of a claim is an upsert on (workspace_id, id).
SaveClaim(c, value) == claim' = [claim EXCEPT ![c] = value]

\* POST /v1/research-claims builds an unlocked claim under the id that the same
\* content always gets.
CreateClaim(c) == /\ SaveClaim(c, "open")
                  /\ UNCHANGED <<run, idem, result, validation, finding, req>>

\* lock_plan: an unlocked claim takes any plan, a locked one only its own.
Lockable(read, plan) == read \in {"open", plan}

ReadClaim(x, c, p) ==
    /\ req[x] = Idle
    /\ claim[c] # None
    /\ Lockable(claim[c], p)
    /\ req' = [req EXCEPT ![x] =
                  [op |-> "lock", claim |-> c, plan |-> p, read |-> claim[c]]]
    /\ UNCHANGED rows

SaveLockedClaim(x) ==
    /\ req[x].op = "lock"
    /\ SaveClaim(req[x].claim, req[x].plan)
    /\ req' = [req EXCEPT ![x] = Idle]
    /\ UNCHANGED <<run, idem, result, validation, finding>>

-----------------------------------------------------------------------------
(* Runs and their results *)

InsertRun(r, c, p) ==
    /\ run[r] = None
    /\ run' = [run EXCEPT ![r] = [claim |-> c, plan |-> p]]

\* POST /v1/research-runs binds no claim.
CreateRun(r) == /\ InsertRun(r, None, None)
                /\ UNCHANGED <<claim, idem, result, validation, finding, req>>

Governs(c, p) == claim[c] = p

\* create_governed_research_run_idempotent: the claim's locked plan must be the
\* one named.  The branch that replays a reserved key does not return, so the
\* run is inserted whether or not the key was reserved before.
CreateGovernedRun(r, k, c, p) ==
    /\ Governs(c, p)
    /\ idem[k] # None => run[idem[k]] = [claim |-> c, plan |-> p]
    /\ InsertRun(r, c, p)
    /\ idem' = [idem EXCEPT ![k] = IF @ = None THEN r ELSE @]
    /\ UNCHANGED <<claim, result, validation, finding, req>>

\* record_result: the first manifest stays, the same one is a replay, another is
\* refused.  UUID(job.claim_id) raises for the claim ids the API hands out.
RecordResult(r, m) ==
    /\ run[r] # None
    /\ run[r].claim \in Maybe(UuidClaims)
    /\ result[r] = None
    /\ result' = [result EXCEPT ![r] = m]
    /\ UNCHANGED <<claim, run, idem, validation, finding, req>>

-----------------------------------------------------------------------------
(* Validations and findings *)

\* create_validation: the run and its result are read and the manifest of the
\* request compared; claim and plan are copied from the run.
ReadResult(x, r, m, d, s) ==
    /\ req[x] = Idle
    /\ run[r] # None
    /\ result[r] = m
    /\ req' = [req EXCEPT ![x] =
                  [op |-> "validate", run |-> r,
                   record |-> [manifest |-> m, binding |-> run[r],
                               digest |-> d, status |-> s]]]
    /\ UNCHANGED rows

\* Mutant: a later record with another digest takes the place of the first.
WinsLast(stored, digest) == TRUE

\* create_research_validation and create_research_finding keep the first record;
\* one with the same digest is answered with it, another is refused.
Wins(stored, digest) == stored = None

Same(stored, digest) == stored # None /\ stored.digest = digest

Answer(x, op, stored) ==
    req' = [req EXCEPT ![x] = [op |-> op, run |-> @.run, record |-> stored]]

StoreValidation(x) ==
    LET r == req[x].run  new == req[x].record
    IN  /\ req[x].op = "validate"
        /\ \/ /\ Wins(validation[r], new.digest)
              /\ result[r] = new.manifest
              /\ run[r] = new.binding
              /\ validation' = [validation EXCEPT ![r] = new]
              /\ Answer(x, "validated", new)
           \/ /\ Same(validation[r], new.digest)
              /\ Answer(x, "validated", validation[r])
              /\ UNCHANGED validation
        /\ UNCHANGED <<claim, run, idem, result, finding>>

\* Mutant: create_finding does not look at the status of the validation.
EligibleAnyStatus(r, d) == validation[r] # None /\ validation[r].digest = d

Eligible(r, d) == /\ validation[r] # None
                  /\ validation[r].status = "VALIDATED"
                  /\ validation[r].digest = d

ReadValidation(x, r, d, payload) ==
    /\ req[x] = Idle
    /\ Eligible(r, d)
    /\ req' = [req EXCEPT ![x] =
                  [op |-> "find", run |-> r,
                   record |-> [validation |-> validation[r], digest |-> payload]]]
    /\ UNCHANGED rows

StoreFinding(x) ==
    LET r == req[x].run  new == req[x].record
    IN  /\ req[x].op = "find"
        /\ \/ /\ Wins(finding[r], new.digest)
              /\ validation[r] = new.validation
              /\ finding' = [finding EXCEPT ![r] = new]
              /\ Answer(x, "found", new)
           \/ /\ Same(finding[r], new.digest)
              /\ Answer(x, "found", finding[r])
              /\ UNCHANGED finding
        /\ UNCHANGED <<claim, run, idem, result, validation>>

\* The client has its answer, or an error: the record was refused, a concurrent
\* insert won the unique constraint, or the call was lost before or after it ran.
Return(x) == /\ req[x] # Idle
             /\ req' = [req EXCEPT ![x] = Idle]
             /\ UNCHANGED rows

-----------------------------------------------------------------------------
Step(x) == \/ \E c \in Claims, p \in Plans : ReadClaim(x, c, p)
           \/ SaveLockedClaim(x)
           \/ \E r \in Runs, m \in Manifests, d \in Digests, s \in Statuses :
                 ReadResult(x, r, m, d, s)
           \/ StoreValidation(x)
           \/ \E r \in Runs, d, payload \in Digests : ReadValidation(x, r, d, payload)
           \/ StoreFinding(x)
           \/ Return(x)

Next == \/ \E c \in Claims : CreateClaim(c)
        \/ \E r \in Runs : CreateRun(r)
        \/ \E r \in Runs, k \in Keys, c \in Claims, p \in Plans :
              CreateGovernedRun(r, k, c, p)
        \/ \E r \in Runs, m \in Manifests : RecordResult(r, m)
        \/ \E x \in Clients : Step(x)

Spec == Init /\ [][Next]_vars

-----------------------------------------------------------------------------
(* Properties *)

\* A finding rests on the validation stored for its run, which is VALIDATED and
\* names the run's own result, claim and plan, in whatever order clients post.
FindingLineage ==
    \A r \in Runs :
       /\ validation[r] # None => /\ validation[r].manifest = result[r]
                                  /\ validation[r].binding = run[r]
       /\ finding[r] # None => /\ finding[r].validation = validation[r]
                               /\ validation[r].status = "VALIDATED"

\* A client answered 201 holds the record that is stored, not its own draft.
AnswersAreStored ==
    \A x \in Clients :
       /\ req[x].op = "validated" => req[x].record = validation[req[x].run]
       /\ req[x].op = "found" => req[x].record = finding[req[x].run]

\* The locked plan of a claim is neither replaced nor unlocked
\* (researchos/claims/claim.py:210 and :214, docs/saas/API_CONTRACT_V1.md:117).
\* lock_plan compares with the claim it read, but the upsert of a repeated POST or
\* of a lock request that read the claim earlier writes over the plan.
LockedPlanIsKept == [][\A c \in Claims : Locked(c) => claim'[c] = claim[c]]_vars
=============================================================================
