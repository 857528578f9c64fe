------------------------- MODULE ResearchSubmission -------------------------
(***************************************************************************)
(* POST /v1/research-runs for one workspace: the request checks the monthly*)
(* entitlement, then the concurrency limit, then inserts the run and the   *)
(* idempotency record in one transaction, then sends the queue message.    *)
(* Each of these is a call of its own and requests run concurrently.       *)
(*                                                                         *)
(* A request inserts at most one run, so a run is named by its request.    *)
(* What happens to a run after its message is sent is one step here        *)
(* (RunEnds); ResearchWorkers has the detail.                              *)
(***************************************************************************)
EXTENDS Naturals, FiniteSets

CONSTANTS Requests, NoRequest,
          Keys,             \* values of the Idempotency-Key header
          Bodies,           \* what request_fingerprint tells apart
          KeyOf, BodyOf,    \* the header and the body each request carries
          MaxConcurrent,    \* UsagePolicy.max_concurrent_runs, 0 for unlimited
          MaxMonthly,       \* the monthly job entitlement, 0 for unlimited
          MaxFaults         \* lost calls in one behaviour

ASSUME SubmissionAssumption ==
    /\ NoRequest \notin Requests
    /\ KeyOf \in [Requests -> Keys]
    /\ BodyOf \in [Requests -> Bodies]
    /\ MaxConcurrent \in Nat
    /\ MaxMonthly \in Nat
    /\ MaxFaults \in Nat

VARIABLES row,      \* row[r]: "absent", "active" (queued or running) or "ended"
          month,    \* the runs count_monthly counts
          idem,     \* idem[k]: the request whose run the key is reserved for
          expired,  \* keys whose reservation has lapsed at least once
          sent,     \* runs whose queue message was sent
          pc,       \* pc[r]: the call request r makes next
          reply,    \* reply[r]: the HTTP status r was answered with
          answer,   \* answer[r]: the run the body of that answer names
          faults

vars == <<row, month, idem, expired, sent, pc, reply, answer, faults>>

Steps   == {"quota", "limit", "create", "enqueue", "done"}
Replies == {"none", "refused", "202", "402", "409", "429", "500"}

TypeOK == /\ row \in [Requests -> {"absent", "active", "ended"}]
          /\ month \in SUBSET Requests
          /\ idem \in [Keys -> Requests \cup {NoRequest}]
          /\ expired \in SUBSET Keys
          /\ sent \in SUBSET Requests
          /\ pc \in [Requests -> Steps]
          /\ reply \in [Requests -> Replies]
          /\ answer \in [Requests -> Requests \cup {NoRequest}]
          /\ faults \in 0 .. MaxFaults

Init == /\ row = [r \in Requests |-> "absent"]
        /\ month = {}
        /\ idem = [k \in Keys |-> NoRequest]
        /\ expired = {}
        /\ sent = {}
        /\ pc = [r \in Requests |-> "quota"]
        /\ reply = [r \in Requests |-> "none"]
        /\ answer = [r \in Requests |-> NoRequest]
        /\ faults = MaxFaults

-----------------------------------------------------------------------------
\* "ok": the call ran and was answered; "lost": it never ran; "cut": it ran and
\* the request sees an exception.
Ends == {"ok", "lost", "cut"}
Charge(net) == IF net = "ok" THEN faults' = faults
                             ELSE faults > 0 /\ faults' = faults - 1

Active == {r \in Requests : row[r] = "active"}

\* Mutant: the limit itself still passes.
AllowsAtLimit(limit, used) == limit = 0 \/ used <= limit

Allows(limit, used) == limit = 0 \/ used < limit

Proceed(r, step) == /\ pc' = [pc EXCEPT ![r] = step]
                    /\ UNCHANGED <<reply, answer>>

Respond(r, code, named) == /\ pc' = [pc EXCEPT ![r] = "done"]
                           /\ reply' = [reply EXCEPT ![r] = code]
                           /\ answer' = [answer EXCEPT ![r] = named]

\* The refusals that read nothing the other requests write: rate limit, header
\* and workflow checks, entitlement service, a count that fails, the dataset.
Refuse(r) == /\ pc[r] \in {"quota", "limit", "create"}
             /\ Respond(r, "refused", NoRequest)
             /\ UNCHANGED <<row, month, idem, expired, sent, faults>>

CheckQuota(r) ==
    /\ pc[r] = "quota"
    /\ IF Allows(MaxMonthly, Cardinality(month))
       THEN Proceed(r, "limit") ELSE Respond(r, "402", NoRequest)
    /\ UNCHANGED <<row, month, idem, expired, sent, faults>>

CheckConcurrency(r) ==
    /\ pc[r] = "limit"
    /\ IF Allows(MaxConcurrent, Cardinality(Active))
       THEN Proceed(r, "create") ELSE Respond(r, "429", NoRequest)
    /\ UNCHANGED <<row, month, idem, expired, sent, faults>>

\* create_idempotent: reserve the key and insert the run, or replay the run the
\* key is reserved for, or refuse a key reserved for another body.
Reserve(r) == /\ row' = [row EXCEPT ![r] = "active"]
              /\ month' = month \cup {r}
              /\ idem' = [idem EXCEPT ![KeyOf[r]] = r]

\* Mutant: the insert of the key does not look at the reservation in place.
FreeAlways(r) == TRUE

Free(r) == idem[KeyOf[r]] = NoRequest

\* Mutant: the replay does not compare request_fingerprint.
ReplaysAnyBody(r, owner) == TRUE

Replays(r, owner) == BodyOf[owner] = BodyOf[r]

\* The in-memory store raises the ValueError the handler turns into a 409, the
\* Supabase store lets the error of the database through.
Conflict == {"409", "500"}

Create(r, net) ==
    LET owner == idem[KeyOf[r]]
    IN  /\ pc[r] = "create"
        /\ Charge(net)
        /\ IF net # "lost" /\ Free(r)
           THEN Reserve(r) ELSE UNCHANGED <<row, month, idem>>
        /\ IF net # "ok" THEN Respond(r, "500", NoRequest)
           ELSE IF Free(r) THEN Proceed(r, "enqueue")
           ELSE IF Replays(r, owner) THEN Respond(r, "202", owner)
           ELSE \E code \in Conflict : Respond(r, code, NoRequest)
        /\ UNCHANGED <<expired, sent>>

\* Mutant: a failed send is swallowed.
EnqueueSwallowsError(r, net) ==
    /\ pc[r] = "enqueue"
    /\ Charge(net)
    /\ sent' = IF net = "lost" THEN sent ELSE sent \cup {r}
    /\ Respond(r, "202", r)
    /\ UNCHANGED <<row, month, idem, expired>>

Enqueue(r, net) ==
    /\ pc[r] = "enqueue"
    /\ Charge(net)
    /\ sent' = IF net = "lost" THEN sent ELSE sent \cup {r}
    /\ IF net = "ok" THEN Respond(r, "202", r) ELSE Respond(r, "500", NoRequest)
    /\ UNCHANGED <<row, month, idem, expired>>

-----------------------------------------------------------------------------
RunEnds(r) == /\ r \in sent
              /\ row[r] = "active"
              /\ row' = [row EXCEPT ![r] = "ended"]
              /\ UNCHANGED <<month, idem, expired, sent, pc, reply, answer, faults>>

\* A reservation lapses after 24 hours; the next create deletes it first.
KeyExpires(k) == /\ idem[k] # NoRequest
                 /\ idem' = [idem EXCEPT ![k] = NoRequest]
                 /\ expired' = expired \cup {k}
                 /\ UNCHANGED <<row, month, sent, pc, reply, answer, faults>>

MonthBegins == /\ month # {}
               /\ month' = {}
               /\ UNCHANGED <<row, idem, expired, sent, pc, reply, answer, faults>>

Next == \/ \E r \in Requests : Refuse(r) \/ CheckQuota(r) \/ CheckConcurrency(r) \/ RunEnds(r)
        \/ \E r \in Requests, net \in Ends : Create(r, net) \/ Enqueue(r, net)
        \/ \E k \in Keys : KeyExpires(k)
        \/ MonthBegins

Spec == Init /\ [][Next]_vars

-----------------------------------------------------------------------------
(***************************************************************************)
(* Properties.                                                             *)
(***************************************************************************)

\* docs/saas/API_CONTRACT_V1.md:165: concurrent identical requests cannot create
\* duplicate durable jobs.  Until its reservation lapses, a key has one run,
\* whatever the interleaving and however often the client repeats a request
\* whose answer was lost.
OneRunPerKey ==
    \A r, s \in Requests :
        /\ KeyOf[r] = KeyOf[s] /\ KeyOf[r] \notin expired
        /\ row[r] # "absent" /\ row[s] # "absent"
        => r = s

\* A request is never answered with a run made for another body, not even when
\* its key was reserved, lapsed and reserved again meanwhile; and all requests
\* under one reservation are answered with the same run.
AnswersAgree ==
    \A r, s \in Requests :
        reply[r] = "202" /\ reply[s] = "202" =>
            /\ BodyOf[answer[r]] = BodyOf[r]
            /\ row[answer[r]] # "absent"
            /\ KeyOf[r] = KeyOf[s] /\ KeyOf[r] \notin expired => answer[r] = answer[s]

\* The run of an answer 202 to the request that made it has its message in the
\* queue: only a request that was told of an error can leave a run behind that
\* nobody will deliver.
UndeliveredRunsWereReported ==
    \A r \in Requests :
        row[r] # "absent" /\ r \notin sent /\ pc[r] = "done" => reply[r] = "500"

\* Neither limit is checked in the transaction that inserts the run, so requests
\* that race between the check and the insert can exceed it, by no more than
\* they are: where at most n requests at a time are past a check and not yet
\* inserted, the limit is exceeded by at most n - 1 runs, and never where
\* requests come one at a time.
Unlimited(limit) == limit = 0
Counted == {r \in Requests : pc[r] \in {"limit", "create"}}
Admitted == {r \in Requests : pc[r] = "create"}

OvershootIsBounded(n) ==
    /\ ~Unlimited(MaxConcurrent) /\ [](Cardinality(Admitted) <= n) =>
          [](Cardinality(Active) <= MaxConcurrent - 1 + n)
    /\ ~Unlimited(MaxMonthly) /\ [](Cardinality(Counted) <= n) =>
          [](Cardinality(month) <= MaxMonthly - 1 + n)

\* One request at a time, and two: the theorem has every n.
LimitsUnlessRaced == OvershootIsBounded(1) /\ OvershootIsBounded(2)

\* docs/saas/API_CONTRACT_V1.md:99, "POST /v1/research-runs - enqueue a frozen
\* research workflow": a run named by an answer 202 is in the queue, or the
\* request that made it is about to send its message.
AcceptedIsEnqueued ==
    \A r \in Requests : reply[r] = "202" =>
        answer[r] \in sent \/ pc[answer[r]] = "enqueue"
=============================================================================
