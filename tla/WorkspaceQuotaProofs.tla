------------------------ MODULE WorkspaceQuotaProofs ------------------------
(***************************************************************************)
(* Billing and dataset uploads for any events, clients, contents and       *)
(* faults.                                                                 *)
(*                                                                         *)
(* Billing rests on last_billing_event_at being the newest time recorded.  *)
(* Uploads rest on what a request in flight answers for: the object it has *)
(* put or found, the dataset it has created, and its share of the limit.   *)
(***************************************************************************)
EXTENDS WorkspaceQuota, FiniteSetTheorems, TLAPS

-----------------------------------------------------------------------------
(* Billing *)

\* No recorded event is newer than last_billing_event_at, which is the time of
\* the applied event if that has one.
LastIsNewest ==
    /\ \A i \in EventIds : events[i] # None /\ events[i].at # None =>
          subscription.last # None /\ events[i].at <= subscription.last
    /\ applied # None /\ applied.at # None => subscription.last = applied.at

BillingInv == BillingTypeOK /\ LastIsNewest /\ NewestEventWins

LEMMA BillingInitInv == BillingInit => BillingInv
BY BillingAssumption, SMT DEF BillingInit, BillingInv, BillingTypeOK, LastIsNewest,
   NewestEventWins, Plans, Statuses, Times

LEMMA BillingNextInv == BillingInv /\ [BillingNext]_billingVars => BillingInv'
<1> SUFFICES ASSUME BillingInv, [BillingNext]_billingVars PROVE BillingInv'
  OBVIOUS
<1> USE BillingAssumption DEF BillingInv, BillingTypeOK, Times
<1>1. ASSUME NEW m \in Messages, ProcessBillingEvent(m) PROVE BillingInv'
  <2>1. /\ m.id \in EventIds /\ m.plan \in Plans /\ m.status \in Statuses
        /\ m.at \in Nat \cup {None}
        /\ "free" \in Plans
    BY SMT DEF Plans
  <2>2. CASE Stale(m) /\ UNCHANGED <<subscription, entitlement, applied>>
    BY <1>1, <2>1, <2>2, SMT DEF ProcessBillingEvent, New, Stale, LastIsNewest, NewestEventWins, EffectivePlan
  <2>3. CASE ~Stale(m) /\ Project(m)
    <3>1. BillingTypeOK'
      BY <1>1, <2>1, <2>3, SMT DEF ProcessBillingEvent, Project, LastEventAt, EffectivePlan
    <3>2. LastIsNewest'
      BY <1>1, <2>1, <2>3, SMT DEF ProcessBillingEvent, Project, New, Stale, LastEventAt, LastIsNewest
    <3>3. NewestEventWins'
      BY <1>1, <2>1, <2>3, <3>1, <3>2, SMT DEF ProcessBillingEvent, Project, EffectivePlan,
         NewestEventWins, LastIsNewest
    <3>4. QED
      BY <3>1, <3>2, <3>3
  <2>4. QED
    BY <1>1, <2>2, <2>3 DEF ProcessBillingEvent
<1>2. CASE UNCHANGED billingVars
  BY <1>2, SMT DEF billingVars, LastIsNewest, NewestEventWins, EffectivePlan
<1>3. QED
  BY <1>1, <1>2 DEF BillingNext, Redeliver

LEMMA NextBilling == [Next]_vars => [BillingNext]_billingVars
BY DEF Next, Billing, Uploads, vars

LEMMA BillingInvariance == Spec => []BillingInv
<1>1. Init => BillingInv
  BY BillingInitInv DEF Init
<1>2. BillingInv /\ [Next]_vars => BillingInv'
  BY BillingNextInv, NextBilling
<1>3. QED
  BY <1>1, <1>2, PTL DEF Spec

\* The rows that process_billing_event writes have their types.
THEOREM BillingTypeCorrect == Spec => []BillingTypeOK
BY BillingInvariance, PTL DEF BillingInv

\* Whatever the provider's order of delivery, no recorded event is newer than the
\* one the subscription and the entitlement come from.
THEOREM NewestEventWinsHolds == Spec => []NewestEventWins
BY BillingInvariance, PTL DEF BillingInv

\* A replayed event id changes neither subscription nor entitlement.
THEOREM ReplayIsInertHolds == Spec => ReplayIsInert
<1> DEFINE Act == events' = events => UNCHANGED <<subscription, entitlement>>
<1>1. BillingInv /\ [BillingNext]_billingVars => [Act]_billingVars
  <2> SUFFICES ASSUME BillingInv, NEW m \in Messages, ProcessBillingEvent(m) PROVE Act
    BY DEF BillingNext, Redeliver, billingVars
  <2>1. events'[m.id] = m /\ events[m.id] = None /\ m # None
    BY BillingAssumption, SMT DEF ProcessBillingEvent, New, BillingInv, BillingTypeOK
  <2>2. QED
    BY <2>1
<1>2. BillingInv /\ [Next]_vars => [Act]_billingVars
  BY <1>1, NextBilling
<1>3. QED
  BY <1>2, BillingInvariance, PTL DEF Spec, ReplayIsInert

-----------------------------------------------------------------------------
(* Uploads: the next call of a request *)

LEMMA GoToFields ==
    ASSUME NEW r \in Request, NEW call \in Calls
    PROVE  LET q == GoTo(r, call)
           IN  /\ q \in Request /\ q.at = call /\ q.op = r.op /\ q.object = r.object
               /\ q.dataset = r.dataset /\ q.digest = r.digest /\ q.path = r.path
<1> DEFINE a == [r EXCEPT !.at = call]
<1>1. /\ a \in Request /\ a.at = call /\ a.op = r.op /\ a.object = r.object
      /\ a.dataset = r.dataset /\ a.digest = r.digest /\ a.path = r.path
  BY SMT DEF Request
<1>2. GoTo(r, call) = [a EXCEPT !.limit = 0]
  BY DEF GoTo
<1> HIDE DEF a
<1>3. QED
  BY <1>1, <1>2, SMT DEF Request

LEMMA PutFields ==
    ASSUME NEW r \in Request
    PROVE  LET q == Insert([r EXCEPT !.object = "made"])
           IN  /\ q \in Request /\ q.op = r.op /\ q.object = "made"
               /\ q.at = IF r.op = "upload" THEN "dataset" ELSE "version"
               /\ q.dataset = r.dataset /\ q.digest = r.digest /\ q.path = r.path
<1> DEFINE m == [r EXCEPT !.object = "made"]
<1>1. m.op = r.op /\ m.dataset = r.dataset /\ m.digest = r.digest /\ m.path = r.path
  BY SMT DEF Request
<1>2. m.object = "made"
  BY SMT DEF Request
<1>3. m \in Request
  BY SMT DEF Request
<1> DEFINE call == IF m.op = "upload" THEN "dataset" ELSE "version"
<1>4. call \in Calls
  BY DEF Calls
<1>5. Insert(m) = GoTo(m, call)
  BY DEF Insert
<1>6. /\ GoTo(m, call) \in Request /\ GoTo(m, call).at = call
      /\ GoTo(m, call).op = m.op /\ GoTo(m, call).object = m.object
      /\ GoTo(m, call).dataset = m.dataset /\ GoTo(m, call).digest = m.digest
      /\ GoTo(m, call).path = m.path
  <2> HIDE DEF m, call
  <2>1. QED
    BY <1>3, <1>4, GoToFields
<1>7. QED
  BY <1>1, <1>2, <1>5, <1>6, Zenon

LEMMA RaisedFields ==
    ASSUME NEW r \in Request
    PROVE  /\ Raised(r) \in Request \cup {Idle}
           /\ Raised(r).at \in {"idle", "undo", "remove"}
           /\ r.op = "upload" /\ r.at \in {"dataset", "version"} => Raised(r).at = "undo"
           /\ (r.op = "version" /\ r.at = "version") \/ r.at = "undo" =>
                 Raised(r).at = IF r.object = "made" THEN "remove" ELSE "idle"
           /\ r.at \notin {"dataset", "version", "undo"} => Raised(r) = Idle
           /\ Raised(r).at # "idle" =>
                 /\ Raised(r).op = r.op /\ Raised(r).object = r.object
                 /\ Raised(r).dataset = r.dataset /\ Raised(r).path = r.path
<1>1. "undo" \in Calls /\ "remove" \in Calls
  BY DEF Calls
<1>2. r.op \in {"upload", "version"} /\ r.object \in {"made", "unmade"}
  BY SMT DEF Request
<1>3. Idle.at = "idle"
  BY DEF Idle
<1>4. CASE r.at \in {"dataset", "version"} /\ r.op = "upload"
  <2>1. Raised(r) = GoTo(r, "undo")
    BY <1>4, SMT DEF Raised
  <2>2. QED
    BY <1>1, <1>2, <1>4, <2>1, GoToFields, SMT
<1>5. CASE (r.at = "version" /\ r.op # "upload") \/ r.at = "undo"
  <2>1. Raised(r) = RemoveOrEnd(r)
    BY <1>5, SMT DEF Raised
  <2>2. CASE r.object = "made"
    <3>1. Raised(r) = GoTo(r, "remove")
      BY <2>1, <2>2 DEF RemoveOrEnd
    <3>2. QED
      BY <1>1, <1>2, <1>5, <2>2, <3>1, GoToFields, SMT
  <2>3. CASE r.object # "made"
    <3>1. Raised(r) = Idle
      BY <2>1, <2>3 DEF RemoveOrEnd
    <3>2. QED
      BY <1>2, <1>3, <1>5, <2>3, <3>1, SMT
  <2>4. QED
    BY <2>2, <2>3
<1>6. CASE /\ ~(r.at \in {"dataset", "version"} /\ r.op = "upload")
           /\ ~((r.at = "version" /\ r.op # "upload") \/ r.at = "undo")
  <2>1. Raised(r) = Idle
    BY <1>6, SMT DEF Raised
  <2>2. QED
    BY <1>2, <1>3, <1>6, <2>1, SMT
<1>7. QED
  BY <1>4, <1>5, <1>6

-----------------------------------------------------------------------------
(* Uploads: types *)

LEMMA UploadInitType == UploadInit => UploadTypeOK
BY UploadAssumption, SMT DEF UploadInit, UploadTypeOK

\* What a step of the composition is for the uploads.
UploadNext == \E x \in Clients :
                 \/ \E d \in Datasets, g \in Digests, limit \in Nat :
                       UploadDataset(x, d, g, limit)
                 \/ \E d \in Datasets, g \in Digests, n \in 1..MaxVersions :
                       UploadVersion(x, d, g, n)
                 \/ UploadStep(x)

LEMMA AnsweredType ==
    ASSUME UploadTypeOK, NEW x \in Clients, req[x] # Idle,
           NEW q \in Request \cup {Idle}, Answered(x, q)
    PROVE  req' \in [Clients -> Request \cup {Idle}] /\ faults' \in 0..MaxFaults
<1>1. req[x] \in Request
  BY DEF UploadTypeOK
<1>2. Raised(req[x]) \in Request \cup {Idle}
  BY <1>1, RaisedFields
<1>3. QED
  BY <1>2, UploadAssumption, SMT DEF Answered, UploadTypeOK

LEMMA UploadNextType == UploadTypeOK /\ [UploadNext]_uploadVars => UploadTypeOK'
<1> SUFFICES ASSUME UploadTypeOK, [UploadNext]_uploadVars PROVE UploadTypeOK'
  OBVIOUS
<1> USE UploadAssumption
<1>0. \A c \in Calls : c \in {"count", "probe", "put", "dataset", "version", "undo", "remove"}
  BY DEF Calls
<1>a. ASSUME NEW x \in Clients, req[x].at \in Calls PROVE req[x] # Idle /\ req[x] \in Request
  BY <1>a, <1>0, SMT DEF UploadTypeOK, Idle
<1>1. ASSUME NEW x \in Clients, NEW d \in Datasets, NEW g \in Digests, NEW limit \in Nat,
             UploadDataset(x, d, g, limit)
      PROVE  UploadTypeOK'
  BY <1>1, SMT DEF UploadDataset, UploadTypeOK, Request, Calls, Paths, Numbers
<1>2. ASSUME NEW x \in Clients, NEW d \in Datasets, NEW g \in Digests,
             NEW n \in 1..MaxVersions, UploadVersion(x, d, g, n)
      PROVE  UploadTypeOK'
  BY <1>2, SMT DEF UploadVersion, UploadTypeOK, Request, Calls, Paths, Numbers
<1>3. ASSUME NEW x \in Clients, CountDatasets(x) PROVE UploadTypeOK'
  <2>1. req[x] \in Request /\ "probe" \in Calls
    BY <1>3, <1>a DEF CountDatasets, Calls
  <2>2. GoTo(req[x], "probe") \in Request
    BY <2>1, GoToFields
  <2>3. QED
    BY <1>3, <2>2, SMT DEF CountDatasets, UploadTypeOK
<1>4. ASSUME NEW x \in Clients, Probe(x) PROVE UploadTypeOK'
  <2>1. req[x] \in Request /\ "put" \in Calls /\ "dataset" \in Calls /\ "version" \in Calls
    BY <1>4, <1>a DEF Probe, Calls
  <2>2. GoTo(req[x], "put") \in Request /\ Insert(req[x]) \in Request
    BY <2>1, GoToFields DEF Insert
  <2>3. QED
    BY <1>4, <2>2, SMT DEF Probe, UploadTypeOK
<1>5. ASSUME NEW x \in Clients, Put(x) PROVE UploadTypeOK'
  <2>1. req[x] # Idle /\ req[x] \in Request
    BY <1>5, <1>a DEF Put, Calls
  <2>2. Insert([req[x] EXCEPT !.object = "made"]) \in Request /\ req[x].path \in Paths
    BY <2>1, PutFields, SMT DEF Request
  <2>3. req' \in [Clients -> Request \cup {Idle}] /\ faults' \in 0..MaxFaults
    BY <1>5, <2>1, <2>2, AnsweredType DEF Put
  <2>4. QED
    BY <1>5, <2>2, <2>3, SMT DEF Put, UploadTypeOK
<1>6. ASSUME NEW x \in Clients, CreateDataset(x) PROVE UploadTypeOK'
  <2>1. req[x] # Idle /\ req[x] \in Request /\ "version" \in Calls
    BY <1>6, <1>a DEF CreateDataset, Calls
  <2>2. GoTo(req[x], "version") \in Request /\ req[x].dataset \in Datasets
    BY <2>1, GoToFields, SMT DEF Request
  <2>3. req' \in [Clients -> Request \cup {Idle}] /\ faults' \in 0..MaxFaults
    BY <1>6, <2>1, <2>2, AnsweredType DEF CreateDataset
  <2>4. QED
    BY <1>6, <2>2, <2>3, SMT DEF CreateDataset, UploadTypeOK
<1>7. ASSUME NEW x \in Clients, NEW n \in Numbers, CreateVersion(x, n) PROVE UploadTypeOK'
  <2>1. req[x] # Idle /\ req[x] \in Request
    BY <1>7, <1>a DEF CreateVersion, Calls
  <2>2. req' \in [Clients -> Request \cup {Idle}] /\ faults' \in 0..MaxFaults
    BY <1>7, <2>1, AnsweredType DEF CreateVersion
  <2>3. [dataset |-> req[x].dataset, no |-> n, digest |-> req[x].digest, path |-> req[x].path]
           \in Version
    BY <2>1, SMT DEF Request, Version
  <2>4. QED
    BY <1>7, <2>2, <2>3, SMT DEF CreateVersion, UploadTypeOK
<1>8. ASSUME NEW x \in Clients, DeleteDataset(x) PROVE UploadTypeOK'
  <2>1. req[x] \in Request /\ "remove" \in Calls
    BY <1>8, <1>a DEF DeleteDataset, Calls
  <2>2. RemoveOrEnd(req[x]) \in Request \cup {Idle}
    BY <2>1, GoToFields DEF RemoveOrEnd
  <2>3. QED
    BY <1>8, <2>2, SMT DEF DeleteDataset, UploadTypeOK
<1>9. ASSUME NEW x \in Clients, Remove(x) PROVE UploadTypeOK'
  <2>1. req[x] \in Request
    BY <1>9, <1>a DEF Remove, Calls
  <2>2. req[x].path \in Paths
    BY <2>1, SMT DEF Request
  <2>3. QED
    BY <1>9, <2>2, SMT DEF Remove, UploadTypeOK
<1>10. ASSUME NEW x \in Clients, Refused(x) \/ Fault(x) PROVE UploadTypeOK'
  <2>1. req[x] \in Request
    BY <1>10, <1>a, SMT DEF Refused, Fault, Calls, UploadTypeOK
  <2>2. Raised(req[x]) \in Request \cup {Idle}
    BY <2>1, RaisedFields
  <2>3. QED
    BY <1>10, <2>2, SMT DEF Refused, Fault, UploadTypeOK
<1>11. ASSUME NEW x \in Clients, Crash(x) PROVE UploadTypeOK'
  BY <1>11, SMT DEF Crash, UploadTypeOK
<1>12. CASE UNCHANGED uploadVars
  BY <1>12, SMT DEF uploadVars, UploadTypeOK
<1>13. QED
  BY <1>1, <1>2, <1>3, <1>4, <1>5, <1>6, <1>7, <1>8, <1>9, <1>10, <1>11, <1>12
     DEF UploadNext, UploadStep

-----------------------------------------------------------------------------
(* Uploads: what requests in flight answer for *)

\* Only upload_dataset inserts or deletes a dataset.
Held == \A x \in Clients : req[x].at \in {"dataset", "undo"} => req[x].op = "upload"

OwnsDataset(x, d) == /\ req[x].at \in {"version", "undo"} /\ req[x].op = "upload"
                     /\ req[x].dataset = d
OwnsObject(x, p)  == /\ req[x].at \in {"dataset", "version", "undo", "remove"}
                     /\ req[x].object = "made" /\ req[x].path = p

\* A version names the path, or did until its dataset was deleted.
Named(p) == p \in orphans \/ \E v \in versions : v.path = p

\* As long as no call has failed, a dataset without a version and an object that
\* none has named belong to a request that will finish or remove them.
DatasetsOwned == faults = 0 =>
    \A d \in datasets : \/ \E v \in versions : v.dataset = d
                        \/ \E x \in Clients : OwnsDataset(x, d)
ObjectsOwned == faults = 0 =>
    \A p \in objects : Named(p) \/ \E x \in Clients : OwnsObject(x, p)

UploadInv == /\ UploadTypeOK /\ Held /\ VersionsNumbered
             /\ DatasetsOwned /\ ObjectsOwned

LEMMA UploadInitInv == UploadInit => UploadInv
<1> SUFFICES ASSUME UploadInit PROVE UploadInv
  OBVIOUS
<1>1. UploadTypeOK
  BY UploadInitType
<1>2. QED
  BY <1>1, SMT DEF UploadInit, UploadInv, Held, VersionsNumbered, DatasetsOwned, ObjectsOwned, Idle

\* x goes on as q, which keeps what x answers for.
HandsOver(x, q) ==
    /\ q \in Request \cup {Idle}
    /\ q.at \in {"dataset", "undo"} => req[x].op = "upload"
    /\ q # Idle => /\ q.op = req[x].op /\ q.dataset = req[x].dataset
                   /\ q.path = req[x].path
    /\ faults' = 0 /\ req[x].op = "upload" /\ req[x].at \in {"version", "undo"} =>
          \/ q.at \in {"version", "undo"}
          \/ req[x].dataset \notin datasets'
          \/ \E v \in versions' : v.dataset = req[x].dataset
    /\ faults' = 0 /\ req[x].at \in {"dataset", "version", "undo", "remove"}
          /\ req[x].object = "made" =>
             \/ q.at \in {"dataset", "version", "undo", "remove"} /\ q.object = "made"
             \/ req[x].path \notin objects' \/ req[x].path \in orphans'
             \/ \E v \in versions' : v.path = req[x].path

\* A row or an object that appears is owned at once, and versions leave with
\* their dataset only.
Grows(x, q) ==
    /\ \A v \in versions : v.dataset \in datasets' => v \in versions'
    /\ \A p \in objects' : Named(p) => Named(p)'
    /\ faults' = 0 => faults = 0
    /\ faults' = 0 => \A d \in datasets' \ datasets : 
          q.at \in {"version", "undo"} /\ q.op = "upload" /\ q.dataset = d
    /\ faults' = 0 => \A p \in objects' \ objects :
          /\ q.at \in {"dataset", "version", "undo", "remove"}
          /\ q.object = "made" /\ q.path = p

LEMMA Handover ==
    ASSUME UploadInv, NEW x \in Clients, req[x] \in Request, NEW q,
           req' = [req EXCEPT ![x] = q], HandsOver(x, q), Grows(x, q)
    PROVE  Held' /\ DatasetsOwned' /\ ObjectsOwned'
<1>0. Idle.at = "idle"
  BY DEF Idle
<1>t. req \in [Clients -> Request \cup {Idle}]
  BY DEF UploadInv, UploadTypeOK
<1>1. Held'
  BY <1>0, <1>t, SMT DEF Held, UploadInv, HandsOver, Grows
<1>2. DatasetsOwned'
  <2> SUFFICES ASSUME faults' = 0, NEW d \in datasets', ~ \E v \in versions' : v.dataset = d
               PROVE  \E y \in Clients : OwnsDataset(y, d)'
    BY DEF DatasetsOwned
  <2>1. CASE d \notin datasets
    BY <2>1, <1>t, SMT DEF Grows, OwnsDataset
  <2>2. CASE d \in datasets
    <3>1. PICK y \in Clients : OwnsDataset(y, d)
      BY <2>2, SMT DEF UploadInv, DatasetsOwned, Grows
    <3>2. CASE y # x
      BY <3>1, <3>2, <1>t, SMT DEF OwnsDataset
    <3>3. CASE y = x
      BY <3>1, <3>3, <1>0, <1>t, SMT DEF OwnsDataset, HandsOver
    <3>4. QED
      BY <3>2, <3>3
  <2>3. QED
    BY <2>1, <2>2
<1>3. ObjectsOwned'
  <2> SUFFICES ASSUME faults' = 0, NEW p \in objects', ~Named(p)'
               PROVE  \E y \in Clients : OwnsObject(y, p)'
    BY DEF ObjectsOwned
  <2>1. CASE p \notin objects
    BY <2>1, <1>t, SMT DEF Grows, OwnsObject
  <2>2. CASE p \in objects
    <3>1. PICK y \in Clients : OwnsObject(y, p)
      BY <2>2, SMT DEF UploadInv, ObjectsOwned, Grows
    <3>2. CASE y # x
      BY <3>1, <3>2, <1>t, SMT DEF OwnsObject
    <3>3. CASE y = x
      BY <3>1, <3>3, <1>0, <1>t, SMT DEF OwnsObject, HandsOver, Named
    <3>4. QED
      BY <3>2, <3>3
  <2>3. QED
    BY <2>1, <2>2
<1>4. QED
  BY <1>1, <1>2, <1>3

\* What a raising request goes on as inserts nothing, and deletes a dataset only
\* in upload_dataset.
LEMMA RaisedHandsOver ==
    ASSUME UploadInv, NEW x \in Clients, req[x] \in Request,
           \/ faults' # 0
           \/ req[x].at = "put"
           \/ req[x].at = "version"
    PROVE  HandsOver(x, Raised(req[x]))
<1> DEFINE r == req[x]
           q == Raised(req[x])
<1>1. /\ q \in Request \cup {Idle} /\ q.at \in {"idle", "undo", "remove"}
      /\ r.op = "upload" /\ r.at \in {"dataset", "version"} => q.at = "undo"
      /\ (r.op = "version" /\ r.at = "version") \/ r.at = "undo" =>
            q.at = IF r.object = "made" THEN "remove" ELSE "idle"
      /\ r.at \notin {"dataset", "version", "undo"} => q = Idle
      /\ q.at # "idle" => /\ q.op = r.op /\ q.object = r.object
                          /\ q.dataset = r.dataset /\ q.path = r.path
  BY RaisedFields
<1>2. Idle.at = "idle"
  BY DEF Idle
<1>3. r.op \in {"upload", "version"} /\ r.at \in Calls
  BY SMT DEF Request
<1>4. r.at \in {"dataset", "undo"} => r.op = "upload"
  BY DEF UploadInv, Held
<1>5. q \in Request => q.at \in Calls
  BY SMT DEF Request
<1>6. q # Idle => q.at # "idle"
  BY <1>1, <1>5, SMT DEF Calls
<1> HIDE DEF q, r
<1>7. q.at = "undo" => r.op = "upload"
  <2>1. CASE r.at = "undo"
    BY <1>4, <2>1
  <2>2. CASE r.at = "dataset"
    BY <1>4, <2>2
  <2>3. CASE r.at = "version"
    BY <1>1, <1>3, <2>3, SMT
  <2>4. CASE r.at \notin {"dataset", "version", "undo"}
    BY <1>1, <1>2, <2>4, SMT
  <2>5. QED
    BY <2>1, <2>2, <2>3, <2>4
<1>8. /\ q \in Request \cup {Idle}
      /\ q.at \in {"dataset", "undo"} => r.op = "upload"
      /\ q # Idle => q.op = r.op /\ q.dataset = r.dataset /\ q.path = r.path
  BY <1>1, <1>6, <1>7, SMT
<1>9. faults' = 0 /\ r.op = "upload" /\ r.at \in {"version", "undo"} =>
          \/ q.at \in {"version", "undo"}
          \/ r.dataset \notin datasets'
          \/ \E v \in versions' : v.dataset = r.dataset
  BY <1>1, SMT DEF r
<1>10. faults' = 0 /\ r.at \in {"dataset", "version", "undo", "remove"} /\ r.object = "made" =>
          \/ q.at \in {"dataset", "version", "undo", "remove"} /\ q.object = "made"
          \/ r.path \notin objects' \/ r.path \in orphans'
          \/ \E v \in versions' : v.path = r.path
  BY <1>1, <1>3, SMT DEF r
<1>11. QED
  BY <1>8, <1>9, <1>10 DEF HandsOver, q, r

LEMMA UploadNextInv == UploadInv /\ [UploadNext]_uploadVars => UploadInv'
<1> SUFFICES ASSUME UploadInv, [UploadNext]_uploadVars PROVE UploadInv'
  OBVIOUS
<1> DEFINE Rest == Held /\ VersionsNumbered /\ DatasetsOwned /\ ObjectsOwned
<1>0. UploadTypeOK'
  BY UploadNextType DEF UploadInv
<1>i. Idle.at = "idle"
  BY DEF Idle
<1>a. ASSUME NEW x \in Clients, req[x].at \in Calls PROVE req[x] # Idle /\ req[x] \in Request
  BY <1>a, SMT DEF UploadInv, UploadTypeOK, Idle, Calls
<1>b. \A c \in {"count", "probe", "put", "dataset", "version", "undo", "remove"} : c \in Calls
  BY DEF Calls
<1>c. ASSUME NEW x \in Clients, req[x] \in Request
      PROVE  /\ req[x].at \in {"dataset", "undo"} => req[x].op = "upload"
             /\ req[x].op \in {"upload", "version"}
  BY <1>c, SMT DEF UploadInv, Held, Request
<1>1. ASSUME NEW x \in Clients, NEW d \in Datasets, NEW g \in Digests, NEW limit \in Nat,
             UploadDataset(x, d, g, limit)
      PROVE  Rest'
  BY <1>1, SMT DEF UploadDataset, UploadInv, UploadTypeOK, Idle, Held, VersionsNumbered,
     VersionsOf, DatasetsOwned, ObjectsOwned, OwnsDataset, OwnsObject, Named
<1>2. ASSUME NEW x \in Clients, NEW d \in Datasets, NEW g \in Digests,
             NEW n \in 1..MaxVersions, UploadVersion(x, d, g, n)
      PROVE  Rest'
  BY <1>2, SMT DEF UploadVersion, UploadInv, UploadTypeOK, Idle, Held, VersionsNumbered,
     VersionsOf, DatasetsOwned, ObjectsOwned, OwnsDataset, OwnsObject, Named
<1>3. ASSUME NEW x \in Clients, CountDatasets(x) PROVE Rest'
  <2> DEFINE q == IF WithinLimit(req[x].limit) THEN GoTo(req[x], "probe") ELSE Idle
             g == GoTo(req[x], "probe")
  <2>1. req[x] \in Request /\ req[x].at = "count"
    BY <1>3, <1>a, <1>b DEF CountDatasets
  <2>2. /\ g \in Request /\ g.at = "probe" /\ g.op = req[x].op
        /\ g.dataset = req[x].dataset /\ g.path = req[x].path
    BY <2>1, <1>b, GoToFields
  <2>3. q = g \/ q = Idle
    OBVIOUS
  <2>4. req' = [req EXCEPT ![x] = q] /\ UNCHANGED <<datasets, versions, objects, orphans, faults>>
    BY <1>3 DEF CountDatasets
  <2> HIDE DEF q, g
  <2>5. HandsOver(x, q)
    BY <2>1, <2>2, <2>3, <1>i, SMT DEF HandsOver
  <2>6. Grows(x, q)
    BY <2>4, SMT DEF Grows, Named
  <2>7. VersionsNumbered'
    BY <2>4, SMT DEF UploadInv, VersionsNumbered, VersionsOf
  <2>8. QED
    BY <2>1, <2>4, <2>5, <2>6, <2>7, Handover
<1>4. ASSUME NEW x \in Clients, Probe(x) PROVE Rest'
  <2> DEFINE call == IF req[x].path \in objects
                     THEN IF req[x].op = "upload" THEN "dataset" ELSE "version" ELSE "put"
             q == GoTo(req[x], call)
  <2>1. req[x] \in Request /\ req[x].at = "probe"
    BY <1>4, <1>a, <1>b DEF Probe
  <2>2. req' = [req EXCEPT ![x] = q] /\ UNCHANGED <<datasets, versions, objects, orphans, faults>>
    BY <1>4 DEF Probe, Insert
  <2>3. /\ call \in Calls /\ call \in {"put", "dataset", "version"}
        /\ call = "dataset" => req[x].op = "upload"
    BY <1>b
  <2> HIDE DEF call
  <2>4. /\ q \in Request /\ q.at = call /\ q.op = req[x].op
        /\ q.dataset = req[x].dataset /\ q.path = req[x].path
    BY <2>1, <2>3, GoToFields
  <2> HIDE DEF q
  <2>5. HandsOver(x, q)
    BY <2>1, <2>2, <2>3, <2>4, SMT DEF HandsOver
  <2>6. Grows(x, q)
    BY <2>2, SMT DEF Grows, Named
  <2>7. VersionsNumbered'
    BY <2>2, SMT DEF UploadInv, VersionsNumbered, VersionsOf
  <2>8. QED
    BY <2>1, <2>2, <2>5, <2>6, <2>7, Handover
<1>5. ASSUME NEW x \in Clients, Refused(x) PROVE Rest'
  <2> DEFINE q == Raised(req[x])
  <2>1. /\ req[x] \in Request
        /\ req' = [req EXCEPT ![x] = q] /\ UNCHANGED <<datasets, versions, objects, orphans, faults>>
    BY <1>5, <1>a, <1>b DEF Refused
  <2>2. \/ req[x].at = "put"
        \/ req[x].at = "version"
    BY <1>5, <2>1, SMT DEF Refused
  <2>3. HandsOver(x, q)
    BY <2>1, <2>2, RaisedHandsOver
  <2> HIDE DEF q
  <2>4. Grows(x, q)
    BY <2>1, SMT DEF Grows, Named
  <2>5. VersionsNumbered'
    BY <2>1, SMT DEF UploadInv, VersionsNumbered, VersionsOf
  <2>6. QED
    BY <2>1, <2>3, <2>4, <2>5, Handover
<1>6. ASSUME NEW x \in Clients, Fault(x) PROVE Rest'
  <2> DEFINE q == Raised(req[x])
  <2>1. /\ req[x] \in Request /\ faults' # 0
        /\ req' = [req EXCEPT ![x] = q] /\ UNCHANGED <<datasets, versions, objects, orphans>>
    BY <1>6, SMT DEF Fault, UploadInv, UploadTypeOK
  <2>3. HandsOver(x, q)
    BY <2>1, RaisedHandsOver
  <2> HIDE DEF q
  <2>4. Grows(x, q)
    BY <2>1, SMT DEF Grows, Named
  <2>5. VersionsNumbered'
    BY <2>1, SMT DEF UploadInv, VersionsNumbered, VersionsOf
  <2>6. QED
    BY <2>1, <2>3, <2>4, <2>5, Handover
<1>7. ASSUME NEW x \in Clients, Crash(x) PROVE Rest'
  <2>1. /\ req[x] \in Request /\ faults' # 0
        /\ req' = [req EXCEPT ![x] = Idle]
        /\ UNCHANGED <<datasets, versions, objects, orphans>>
    BY <1>7, SMT DEF Crash, UploadInv, UploadTypeOK
  <2>3. HandsOver(x, Idle)
    BY <2>1, <1>i, SMT DEF HandsOver
  <2>4. Grows(x, Idle)
    BY <2>1, SMT DEF Grows, Named
  <2>5. VersionsNumbered'
    BY <2>1, SMT DEF UploadInv, VersionsNumbered, VersionsOf
  <2>6. QED
    BY <2>1, <2>3, <2>4, <2>5, Handover
<1>8. ASSUME NEW x \in Clients, Put(x) PROVE Rest'
  <2> DEFINE q == Insert([req[x] EXCEPT !.object = "made"])
  <2>1. /\ req[x] \in Request /\ req[x].at = "put"
        /\ objects' = objects \cup {req[x].path}
        /\ UNCHANGED <<datasets, versions, orphans>>
    BY <1>8, <1>a, <1>b DEF Put
  <2>2. VersionsNumbered'
    BY <2>1, SMT DEF UploadInv, VersionsNumbered, VersionsOf
  <2>3. CASE req' = [req EXCEPT ![x] = q] /\ UNCHANGED faults
    <3>1. /\ q \in Request /\ q.op = req[x].op /\ q.object = "made"
          /\ q.at = IF req[x].op = "upload" THEN "dataset" ELSE "version"
          /\ q.dataset = req[x].dataset /\ q.path = req[x].path
      BY <2>1, PutFields
    <3> HIDE DEF q
    <3>2. HandsOver(x, q)
      BY <2>1, <3>1, SMT DEF HandsOver
    <3>3. Grows(x, q)
      BY <2>1, <2>3, <3>1, SMT DEF Grows, Named
    <3>4. QED
      BY <2>1, <2>2, <2>3, <3>2, <3>3, Handover
  <2>4. CASE faults' # 0 /\ req' = [req EXCEPT ![x] = Raised(req[x])]
    <3>1. HandsOver(x, Raised(req[x]))
      BY <2>1, <2>4, RaisedHandsOver
    <3>2. Grows(x, Raised(req[x]))
      BY <2>1, <2>4, SMT DEF Grows, Named
    <3>3. QED
      BY <2>1, <2>2, <2>4, <3>1, <3>2, Handover
  <2>5. QED
    BY <1>8, <2>3, <2>4, SMT DEF Put, Answered, UploadInv, UploadTypeOK
<1>9. ASSUME NEW x \in Clients, CreateDataset(x) PROVE Rest'
  <2> DEFINE q == GoTo(req[x], "version")
  <2>1. /\ req[x] \in Request /\ req[x].at = "dataset"
        /\ datasets' = datasets \cup {req[x].dataset}
        /\ UNCHANGED <<versions, objects, orphans>>
    BY <1>9, <1>a, <1>b DEF CreateDataset
  <2>2. VersionsNumbered'
    BY <2>1, SMT DEF UploadInv, VersionsNumbered, VersionsOf
  <2>3. CASE req' = [req EXCEPT ![x] = q] /\ UNCHANGED faults
    <3>1. /\ q \in Request /\ q.op = req[x].op /\ q.object = req[x].object /\ q.at = "version"
          /\ q.dataset = req[x].dataset /\ q.path = req[x].path
      BY <2>1, <1>b, GoToFields
    <3> HIDE DEF q
    <3>2. HandsOver(x, q)
      BY <2>1, <3>1, <1>c, SMT DEF HandsOver
    <3>3. Grows(x, q)
      BY <2>1, <2>3, <3>1, <1>c, SMT DEF Grows, Named
    <3>4. QED
      BY <2>1, <2>2, <2>3, <3>2, <3>3, Handover
  <2>4. CASE faults' # 0 /\ req' = [req EXCEPT ![x] = Raised(req[x])]
    <3>1. HandsOver(x, Raised(req[x]))
      BY <2>1, <2>4, RaisedHandsOver
    <3>2. Grows(x, Raised(req[x]))
      BY <2>1, <2>4, SMT DEF Grows, Named
    <3>3. QED
      BY <2>1, <2>2, <2>4, <3>1, <3>2, Handover
  <2>5. QED
    BY <1>9, <2>3, <2>4, SMT DEF CreateDataset, Answered, UploadInv, UploadTypeOK
<1>10. ASSUME NEW x \in Clients, NEW n \in Numbers, CreateVersion(x, n) PROVE Rest'
  <2> DEFINE w == [dataset |-> req[x].dataset, no |-> n, digest |-> req[x].digest,
                   path |-> req[x].path]
  <2>1. /\ req[x] \in Request /\ req[x].at = "version" /\ Insertable(req[x], n)
        /\ versions' = versions \cup {w}
        /\ UNCHANGED <<datasets, objects, orphans>>
    BY <1>10, <1>a, <1>b DEF CreateVersion
  <2>w. /\ w.dataset = req[x].dataset /\ w.no = n /\ w.digest = req[x].digest
        /\ w.path = req[x].path
    OBVIOUS
  <2> HIDE DEF w
  <2>n. n \in Nat /\ \A v \in versions : v.no \in Nat
    BY UploadAssumption, SMT DEF Numbers, Version, UploadInv, UploadTypeOK
  <2>2. VersionsNumbered'
    <3>1. ASSUME NEW v \in versions, v.dataset = w.dataset
          PROVE  v.no # w.no /\ v.digest # w.digest
      BY <2>1, <2>w, <2>n, <3>1, SMT DEF Insertable, IsNextNo, VersionsOf
    <3>2. w.dataset \in datasets /\ w.path = <<w.digest, w.no>>
      BY <2>1, <2>w DEF Insertable, PathValid
    <3>3. w.no = 1 \/ \E v \in versions : v.dataset = w.dataset /\ v.no = w.no - 1
      BY <2>1, <2>w, SMT DEF Insertable, IsNextNo, VersionsOf
    <3> SUFFICES ASSUME NEW v \in versions'
                 PROVE  /\ v.dataset \in datasets
                        /\ v.path = <<v.digest, v.no>>
                        /\ v.no = 1 \/ \E u \in versions' :
                                          u.dataset = v.dataset /\ u.no = v.no - 1
                        /\ \A u \in versions' : u.dataset = v.dataset /\ u # v =>
                              u.no # v.no /\ u.digest # v.digest
      BY <2>1, SMT DEF VersionsNumbered, VersionsOf
    <3>4. CASE v = w
      BY <2>1, <3>1, <3>2, <3>3, <3>4, SMT
    <3>5. CASE v \in versions
      BY <2>1, <3>1, <3>5, SMT DEF UploadInv, VersionsNumbered, VersionsOf
    <3>6. QED
      BY <2>1, <3>4, <3>5
  <2>3. CASE req' = [req EXCEPT ![x] = Idle] /\ UNCHANGED faults
    <3>2. HandsOver(x, Idle)
      BY <2>1, <2>w, <1>i, SMT DEF HandsOver
    <3>3. Grows(x, Idle)
      BY <2>1, <2>3, SMT DEF Grows, Named
    <3>4. QED
      BY <2>1, <2>2, <2>3, <3>2, <3>3, Handover
  <2>4. CASE faults' # 0 /\ req' = [req EXCEPT ![x] = Raised(req[x])]
    <3>1. HandsOver(x, Raised(req[x]))
      BY <2>1, <2>4, RaisedHandsOver
    <3>2. Grows(x, Raised(req[x]))
      BY <2>1, <2>4, SMT DEF Grows, Named
    <3>3. QED
      BY <2>1, <2>2, <2>4, <3>1, <3>2, Handover
  <2>5. QED
    BY <1>10, <2>3, <2>4, SMT DEF CreateVersion, Answered, UploadInv, UploadTypeOK
<1>11. ASSUME NEW x \in Clients, DeleteDataset(x) PROVE Rest'
  <2> DEFINE q == RemoveOrEnd(req[x])
             g == GoTo(req[x], "remove")
  <2>1. /\ req[x] \in Request /\ req[x].at = "undo"
        /\ datasets' = datasets \ {req[x].dataset}
        /\ versions' = versions \ VersionsOf(req[x].dataset)
        /\ orphans' = orphans \cup ({v.path : v \in VersionsOf(req[x].dataset)} \cap objects)
        /\ req' = [req EXCEPT ![x] = q]
        /\ UNCHANGED <<objects, faults>>
    BY <1>11, <1>a, <1>b DEF DeleteDataset
  <2>2. VersionsNumbered'
    BY <2>1, SMT DEF UploadInv, VersionsNumbered, VersionsOf
  <2>3. /\ g \in Request /\ g.at = "remove" /\ g.op = req[x].op /\ g.object = req[x].object
        /\ g.dataset = req[x].dataset /\ g.path = req[x].path
    BY <2>1, <1>b, GoToFields
  <2>4. (req[x].object = "made" /\ q = g) \/ (req[x].object # "made" /\ q = Idle)
    BY DEF RemoveOrEnd
  <2> HIDE DEF q, g
  <2>5. HandsOver(x, q)
    BY <2>1, <2>3, <2>4, <1>i, SMT DEF HandsOver
  <2>6. Grows(x, q)
    <3>1. \A v \in versions : v.dataset \in datasets' => v \in versions'
      BY <2>1, SMT DEF VersionsOf
    <3>2. ASSUME NEW p \in objects', Named(p) PROVE Named(p)'
      <4>1. CASE p \in orphans
        BY <2>1, <4>1 DEF Named
      <4>2. CASE \E v \in versions : v.path = p
        <5>1. PICK v \in versions : v.path = p
          BY <4>2
        <5>2. v \in versions' \/ v \in VersionsOf(req[x].dataset)
          BY <2>1
        <5>3. QED
          BY <2>1, <5>1, <5>2, <3>2 DEF Named
      <4>3. QED
        BY <3>2, <4>1, <4>2 DEF Named
    <3>3. QED
      BY <2>1, <3>1, <3>2, SMT DEF Grows
  <2>7. QED
    BY <2>1, <2>2, <2>5, <2>6, Handover
<1>12. ASSUME NEW x \in Clients, Remove(x) PROVE Rest'
  <2>1. /\ req[x] \in Request /\ req[x].at = "remove"
        /\ objects' = objects \ {req[x].path}
        /\ orphans' = orphans \ {req[x].path}
        /\ req' = [req EXCEPT ![x] = Idle]
        /\ UNCHANGED <<datasets, versions, faults>>
    BY <1>12, <1>a, <1>b DEF Remove
  <2>2. VersionsNumbered'
    BY <2>1, SMT DEF UploadInv, VersionsNumbered, VersionsOf
  <2>3. HandsOver(x, Idle)
    BY <2>1, <1>i, SMT DEF HandsOver
  <2>4. Grows(x, Idle)
    BY <2>1, SMT DEF Grows, Named
  <2>5. QED
    BY <2>1, <2>2, <2>3, <2>4, Handover
<1>13. CASE UNCHANGED uploadVars
  <2>1. Held' /\ VersionsNumbered'
    BY <1>13, SMT DEF uploadVars, UploadInv, Held, VersionsNumbered, VersionsOf
  <2>2. DatasetsOwned' /\ ObjectsOwned'
    BY <1>13 DEF uploadVars, UploadInv, DatasetsOwned, ObjectsOwned, OwnsDataset, OwnsObject,
       Named
  <2>3. QED
    BY <1>0, <2>1, <2>2 DEF UploadInv
<1>14. QED
  BY <1>0, <1>1, <1>2, <1>3, <1>4, <1>5, <1>6, <1>7, <1>8, <1>9, <1>10, <1>11, <1>12, <1>13
     DEF UploadNext, UploadStep, UploadInv

-----------------------------------------------------------------------------
(* The composition *)

LEMMA EntitledPlanType == BillingTypeOK => EntitledPlan \in Plans
BY BillingAssumption, SMT DEF BillingTypeOK, EntitledPlan, EffectivePlan, Plans

LEMMA NextUploads == BillingTypeOK /\ [Next]_vars => [UploadNext]_uploadVars
<1> SUFFICES ASSUME BillingTypeOK, Uploads PROVE UploadNext
  BY DEF Next, Billing, vars
<1>1. MaxDatasets[EntitledPlan] \in Nat
  BY EntitledPlanType, QuotaAssumption, SMT
<1>2. QED
  BY <1>1 DEF Uploads, Admit, UploadNext

LEMMA UploadInvariance == Spec => []UploadInv
<1>1. Init => UploadInv
  BY UploadInitInv DEF Init
<1>2. UploadInv /\ BillingInv /\ [Next]_vars => UploadInv'
  BY UploadNextInv, NextUploads DEF BillingInv
<1>3. QED
  BY <1>1, <1>2, BillingInvariance, PTL DEF Spec

\* The rows, objects and requests of uploads have their types.
THEOREM UploadTypeCorrect == Spec => []UploadTypeOK
BY UploadInvariance, PTL DEF UploadInv

\* Whatever numbers concurrent uploads computed, the versions of a dataset are
\* numbered without gaps and stored under their own numbers.
THEOREM VersionsNumberedHolds == Spec => []VersionsNumbered
BY UploadInvariance, PTL DEF UploadInv

\* Uploads that lost no call leave no dataset without a version, and no object
\* without one but where a deleted dataset took the version away.
THEOREM CleanUploadsHolds == Spec => []CleanUploads
<1>1. UploadInv => CleanUploads
  <2> SUFFICES ASSUME UploadInv, faults = 0, Busy = {}
               PROVE  /\ datasets = {v.dataset : v \in versions}
                      /\ objects \subseteq {v.path : v \in versions} \cup orphans
    BY DEF CleanUploads
  <2>1. \A x \in Clients : req[x].at = "idle"
    BY DEF Busy, Idle
  <2>2. /\ \A d \in datasets : \E v \in versions : v.dataset = d
        /\ \A p \in objects : Named(p)
    BY <2>1, SMT DEF UploadInv, DatasetsOwned, ObjectsOwned, OwnsDataset, OwnsObject
  <2>3. \A v \in versions : v.dataset \in datasets
    BY DEF UploadInv, VersionsNumbered
  <2>4. QED
    BY <2>2, <2>3, SMT DEF Named
<1>2. QED
  BY <1>1, UploadInvariance, PTL

-----------------------------------------------------------------------------
(* The limit *)

\* Uploads past the check that have not created their dataset.
Admitted == {x \in Clients : /\ req[x].at \in {"probe", "put", "dataset"}
                             /\ req[x].op = "upload"}

\* Each plan that set a limit in use has been seen, and the datasets stored and
\* admitted exceed the limit of one plan seen by less than one per client.
QuotaInv ==
    /\ EntitledPlan \in PlansSeen
    /\ \A x \in Clients : req[x].at = "count" =>
          \E p \in PlansSeen : req[x].limit = MaxDatasets[p]
    /\ \E p \in PlansSeen :
          \/ MaxDatasets[p] = 0
          \/ Cardinality(datasets) + Cardinality(Admitted)
                < MaxDatasets[p] + Cardinality(Clients)

LEMMA Finite ==
    ASSUME NEW D \in SUBSET Datasets, NEW A \in SUBSET Clients
    PROVE  /\ IsFiniteSet(D) /\ Cardinality(D) \in Nat
           /\ IsFiniteSet(A) /\ Cardinality(A) \in Nat
           /\ Cardinality(A) <= Cardinality(Clients)
           /\ Cardinality(Clients) \in Nat
<1>1. IsFiniteSet(Clients) /\ IsFiniteSet(Datasets)
  BY UploadAssumption
<1>2. IsFiniteSet(A) /\ IsFiniteSet(D) /\ Cardinality(A) <= Cardinality(Clients)
  BY <1>1, FS_Subset
<1>3. QED
  BY <1>1, <1>2, FS_CardinalityType

LEMMA QuotaInitInv == Init => QuotaInv
<1> SUFFICES ASSUME Init PROVE QuotaInv
  OBVIOUS
<1>1. datasets = {} /\ Admitted = {}
  BY SMT DEF Init, UploadInit, Admitted, Idle
<1>2. Cardinality(datasets) = 0 /\ Cardinality(Admitted) = 0
  BY <1>1, FS_EmptySet
<1>3. Cardinality(Clients) \in Nat
  BY UploadAssumption, FS_CardinalityType
<1>4. "free" \in PlansSeen /\ MaxDatasets["free"] \in Nat
  BY QuotaAssumption, SMT DEF PlansSeen, Plans
<1>5. EntitledPlan = "free"
  BY SMT DEF Init, BillingInit, EntitledPlan, EffectivePlan
<1>6. \A x \in Clients : req[x].at # "count"
  BY SMT DEF Init, UploadInit, Idle
<1>7. QED
  BY <1>2, <1>3, <1>4, <1>5, <1>6, SMT DEF QuotaInv

LEMMA PlansSeenGrow ==
    ASSUME BillingInv, [BillingNext]_billingVars, EntitledPlan \in PlansSeen
    PROVE  PlansSeen \subseteq PlansSeen' /\ EntitledPlan' \in PlansSeen'
<1> USE BillingAssumption DEF BillingInv, BillingTypeOK
<1>1. ASSUME NEW m \in Messages, ProcessBillingEvent(m)
      PROVE  PlansSeen \subseteq PlansSeen' /\ EntitledPlan' \in PlansSeen'
  <2>1. m.id \in EventIds /\ m # None /\ m.plan \in Plans
    BY SMT
  <2>2. events' = [events EXCEPT ![m.id] = m] /\ events[m.id] = None
    BY <1>1 DEF ProcessBillingEvent, New
  <2>3. PlansSeen \subseteq PlansSeen' /\ m.plan \in PlansSeen' /\ "free" \in PlansSeen'
    BY <2>1, <2>2, SMT DEF PlansSeen
  <2>4. CASE UNCHANGED <<subscription, entitlement>>
    BY <2>3, <2>4 DEF EntitledPlan, EffectivePlan
  <2>5. CASE Project(m)
    <3>1. EffectivePlan(m) \in PlansSeen'
      BY <2>3 DEF EffectivePlan
    <3>2. EffectivePlan(m) # None
      BY <2>1, SMT DEF EffectivePlan, Plans
    <3>3. QED
      BY <2>3, <2>5, <3>1, <3>2 DEF Project, EntitledPlan
  <2>6. QED
    BY <1>1, <2>4, <2>5 DEF ProcessBillingEvent
<1>2. CASE UNCHANGED billingVars
  BY <1>2 DEF billingVars, PlansSeen, EntitledPlan, EffectivePlan
<1>3. QED
  BY <1>1, <1>2 DEF BillingNext, Redeliver

\* A step after which no more datasets are stored and admitted than before, or
\* after which less datasets are stored than some plan seen allows.
LEMMA QuotaKept ==
    ASSUME QuotaInv, UploadTypeOK, UploadTypeOK', PlansSeen \subseteq PlansSeen',
           EntitledPlan' \in PlansSeen',
           \A x \in Clients : req'[x].at = "count" =>
              \/ req[x].at = "count" /\ req'[x].limit = req[x].limit
              \/ \E p \in PlansSeen : req'[x].limit = MaxDatasets[p],
           \/ Cardinality(datasets') + Cardinality(Admitted')
                 <= Cardinality(datasets) + Cardinality(Admitted)
           \/ \E p \in PlansSeen : \/ MaxDatasets[p] = 0
                                   \/ Cardinality(datasets') < MaxDatasets[p],
           \A p \in PlansSeen : MaxDatasets[p] \in Nat
    PROVE  QuotaInv'
<1>1. /\ datasets' \in SUBSET Datasets /\ Admitted' \in SUBSET Clients
      /\ datasets \in SUBSET Datasets /\ Admitted \in SUBSET Clients
  BY DEF UploadTypeOK, Admitted
<1>2. /\ Cardinality(datasets') \in Nat /\ Cardinality(Admitted') \in Nat
      /\ Cardinality(datasets) \in Nat /\ Cardinality(Admitted) \in Nat
      /\ Cardinality(Admitted') <= Cardinality(Clients)
      /\ Cardinality(Clients) \in Nat
  BY <1>1, Finite
<1>3. \E p \in PlansSeen' :
          \/ MaxDatasets[p] = 0
          \/ Cardinality(datasets') + Cardinality(Admitted')
                < MaxDatasets[p] + Cardinality(Clients)
  <2>1. CASE Cardinality(datasets') + Cardinality(Admitted')
                 <= Cardinality(datasets) + Cardinality(Admitted)
    <3>1. PICK p \in PlansSeen :
              \/ MaxDatasets[p] = 0
              \/ Cardinality(datasets) + Cardinality(Admitted)
                    < MaxDatasets[p] + Cardinality(Clients)
      BY DEF QuotaInv
    <3>2. QED
      BY <1>2, <2>1, <3>1, SMT
  <2>2. CASE \E p \in PlansSeen : \/ MaxDatasets[p] = 0
                                  \/ Cardinality(datasets') < MaxDatasets[p]
    BY <1>2, <2>2, SMT
  <2>3. QED
    BY <2>1, <2>2
<1>4. \A x \in Clients : req'[x].at = "count" =>
          \E p \in PlansSeen' : req'[x].limit = MaxDatasets[p]
  BY SMT DEF QuotaInv
<1>5. QED
  BY <1>3, <1>4 DEF QuotaInv

LEMMA PlansSeenType == BillingTypeOK => \A p \in PlansSeen : MaxDatasets[p] \in Nat
<1> SUFFICES ASSUME BillingTypeOK, NEW p \in PlansSeen PROVE p \in Plans
  BY QuotaAssumption, SMT
<1>1. QED
  BY BillingAssumption, SMT DEF PlansSeen, BillingTypeOK, Plans

\* The requests of the others stand still: x alone may come to be admitted, and
\* if it does not, no one does.
LEMMA AdmittedKept ==
    ASSUME UploadTypeOK, UploadTypeOK', NEW x \in Clients,
           \A y \in Clients : y # x => req'[y] = req[y],
           x \in Admitted' => x \in Admitted
    PROVE  /\ Admitted' \subseteq Admitted
           /\ Cardinality(Admitted') <= Cardinality(Admitted)
           /\ x \in Admitted /\ x \notin Admitted' =>
                 Cardinality(Admitted') <= Cardinality(Admitted) - 1
<1>1. Admitted' \subseteq Admitted /\ Admitted \in SUBSET Clients
  BY SMT DEF Admitted
<1>2. IsFiniteSet(Admitted)
  BY <1>1, UploadAssumption, FS_Subset
<1>3. Cardinality(Admitted') <= Cardinality(Admitted)
  BY <1>1, <1>2, FS_Subset
<1>4. ASSUME x \in Admitted, x \notin Admitted'
      PROVE  Cardinality(Admitted') <= Cardinality(Admitted) - 1
  <2>1. Admitted' \in SUBSET (Admitted \ {x})
    BY <1>1, <1>4
  <2>2. IsFiniteSet(Admitted \ {x}) /\ Cardinality(Admitted \ {x}) = Cardinality(Admitted) - 1
    BY <1>2, <1>4, FS_RemoveElement
  <2>3. QED
    BY <2>1, <2>2, FS_Subset
<1>5. QED
  BY <1>1, <1>3, <1>4

\* A request goes on as q without being admitted by this step.
LEMMA QuotaMove ==
    ASSUME QuotaInv, BillingTypeOK, UNCHANGED billingVars, UploadTypeOK, UploadTypeOK',
           NEW x \in Clients, NEW q, req' = [req EXCEPT ![x] = q],
           q.at = "count" => \E p \in PlansSeen : q.limit = MaxDatasets[p],
           q.at \in {"probe", "put", "dataset"} /\ q.op = "upload" => x \in Admitted,
           datasets' \subseteq datasets
    PROVE  QuotaInv'
<1>1. req'[x] = q /\ \A y \in Clients : y # x => req'[y] = req[y]
  BY SMT DEF UploadTypeOK
<1>2. Cardinality(Admitted') <= Cardinality(Admitted)
  BY <1>1, AdmittedKept DEF Admitted
<1>3. datasets \in SUBSET Datasets /\ Admitted \in SUBSET Clients /\ Admitted' \in SUBSET Clients
      /\ datasets' \in SUBSET Datasets
  BY DEF UploadTypeOK, Admitted
<1>4. /\ IsFiniteSet(datasets) /\ Cardinality(datasets) \in Nat
      /\ Cardinality(Admitted) \in Nat /\ Cardinality(Admitted') \in Nat
      /\ Cardinality(datasets') \in Nat
  BY <1>3, Finite
<1>5. Cardinality(datasets') <= Cardinality(datasets)
  BY <1>4, FS_Subset
<1>6. Cardinality(datasets') + Cardinality(Admitted')
         <= Cardinality(datasets) + Cardinality(Admitted)
  BY <1>2, <1>4, <1>5, SMT
<1>7. PlansSeen' = PlansSeen /\ EntitledPlan' = EntitledPlan
  BY DEF billingVars, PlansSeen, EntitledPlan, EffectivePlan
<1>8. \A p \in PlansSeen : MaxDatasets[p] \in Nat
  BY PlansSeenType
<1>9. \A y \in Clients : req'[y].at = "count" =>
         \/ req[y].at = "count" /\ req'[y].limit = req[y].limit
         \/ \E p \in PlansSeen : req'[y].limit = MaxDatasets[p]
  BY <1>1
<1>10. PlansSeen \subseteq PlansSeen' /\ EntitledPlan' \in PlansSeen'
  BY <1>7 DEF QuotaInv
<1>11. QED
  BY <1>6, <1>8, <1>9, <1>10, QuotaKept

\* A raising request is not admitted.
LEMMA QuotaRaised ==
    ASSUME QuotaInv, BillingTypeOK, UNCHANGED billingVars, UploadTypeOK, UploadTypeOK',
           NEW x \in Clients, req[x] \in Request,
           req' = [req EXCEPT ![x] = Raised(req[x])] \/ req' = [req EXCEPT ![x] = Idle],
           datasets' \subseteq datasets
    PROVE  QuotaInv'
<1>1. Raised(req[x]).at \in {"idle", "undo", "remove"}
  BY RaisedFields
<1>2. Idle.at = "idle"
  BY DEF Idle
<1> DEFINE q == req'[x]
<1>3. req' = [req EXCEPT ![x] = q] /\ q.at \in {"idle", "undo", "remove"}
  BY <1>1, <1>2, Zenon DEF UploadTypeOK
<1> HIDE DEF q
<1>4. /\ q.at = "count" => \E p \in PlansSeen : q.limit = MaxDatasets[p]
      /\ q.at \in {"probe", "put", "dataset"} /\ q.op = "upload" => x \in Admitted
  BY <1>3, SMT
<1>5. QED
  BY <1>3, <1>4, QuotaMove

LEMMA QuotaUploads ==
    ASSUME QuotaInv, BillingTypeOK, UploadInv, UploadTypeOK', Uploads
    PROVE  QuotaInv'
<1>u. UNCHANGED billingVars /\ UploadTypeOK
  BY DEF Uploads, UploadInv
<1>a. ASSUME NEW x \in Clients, req[x].at \in Calls PROVE req[x] # Idle /\ req[x] \in Request
  BY <1>a, SMT DEF UploadInv, UploadTypeOK, Idle, Calls
<1>b. \A c \in {"count", "probe", "put", "dataset", "version", "undo", "remove"} : c \in Calls
  BY DEF Calls
<1>i. Idle.at = "idle"
  BY DEF Idle
<1>1. ASSUME NEW x \in Clients, NEW d \in Datasets, NEW g \in Digests,
             UploadDataset(x, d, g, MaxDatasets[EntitledPlan])
      PROVE  QuotaInv'
  <2> DEFINE q == [at |-> "count", op |-> "upload", dataset |-> d, digest |-> g,
                   path |-> <<g, 1>>, object |-> "unmade", limit |-> MaxDatasets[EntitledPlan]]
  <2>1. req' = [req EXCEPT ![x] = q] /\ datasets' \subseteq datasets
    BY <1>1 DEF UploadDataset
  <2>2. q.at = "count" /\ q.limit = MaxDatasets[EntitledPlan]
    OBVIOUS
  <2> HIDE DEF q
  <2>3. /\ q.at = "count" => \E p \in PlansSeen : q.limit = MaxDatasets[p]
        /\ q.at \in {"probe", "put", "dataset"} /\ q.op = "upload" => x \in Admitted
    BY <2>2 DEF QuotaInv
  <2>4. QED
    BY <1>u, <2>1, <2>3, QuotaMove
<1>2. ASSUME NEW x \in Clients, NEW d \in Datasets, NEW g \in Digests,
             NEW n \in 1..MaxVersions, UploadVersion(x, d, g, n)
      PROVE  QuotaInv'
  <2> DEFINE q == [at |-> "probe", op |-> "version", dataset |-> d, digest |-> g,
                   path |-> <<g, n>>, object |-> "unmade", limit |-> 0]
  <2>1. req' = [req EXCEPT ![x] = q] /\ datasets' \subseteq datasets
    BY <1>2 DEF UploadVersion
  <2>2. q.at = "probe" /\ q.op = "version"
    OBVIOUS
  <2> HIDE DEF q
  <2>3. /\ q.at = "count" => \E p \in PlansSeen : q.limit = MaxDatasets[p]
        /\ q.at \in {"probe", "put", "dataset"} /\ q.op = "upload" => x \in Admitted
    BY <2>2
  <2>4. QED
    BY <1>u, <2>1, <2>3, QuotaMove
<1>3. ASSUME NEW x \in Clients, CountDatasets(x) PROVE QuotaInv'
  <2>1. req[x] \in Request /\ req[x].at = "count" /\ datasets' = datasets
    BY <1>3, <1>a, <1>b DEF CountDatasets
  <2>2. PICK p \in PlansSeen : req[x].limit = MaxDatasets[p]
    BY <2>1 DEF QuotaInv
  <2>3. CASE ~WithinLimit(req[x].limit)
    <3>1. req' = [req EXCEPT ![x] = Idle]
      BY <1>3, <2>3 DEF CountDatasets
    <3>2. QED
      BY <1>u, <2>1, <3>1, QuotaRaised
  <2>4. CASE WithinLimit(req[x].limit)
    <3> DEFINE q == GoTo(req[x], "probe")
    <3>1. req' = [req EXCEPT ![x] = q]
      BY <1>3, <2>4 DEF CountDatasets
    <3>2. q.at = "probe"
      BY <2>1, <1>b, GoToFields
    <3> HIDE DEF q
    <3>3. \A y \in Clients : req'[y].at = "count" =>
             \/ req[y].at = "count" /\ req'[y].limit = req[y].limit
             \/ \E s \in PlansSeen : req'[y].limit = MaxDatasets[s]
      BY <1>u, <3>1, <3>2, SMT DEF UploadTypeOK
    <3>4. MaxDatasets[p] = 0 \/ Cardinality(datasets') < MaxDatasets[p]
      BY <2>1, <2>2, <2>4 DEF WithinLimit
    <3>5. PlansSeen' = PlansSeen /\ EntitledPlan' = EntitledPlan
      BY <1>u DEF billingVars, PlansSeen, EntitledPlan, EffectivePlan
    <3>6. PlansSeen \subseteq PlansSeen' /\ EntitledPlan' \in PlansSeen'
      BY <3>5 DEF QuotaInv
    <3>7. \A s \in PlansSeen : MaxDatasets[s] \in Nat
      BY PlansSeenType
    <3>8. \E s \in PlansSeen : MaxDatasets[s] = 0 \/ Cardinality(datasets') < MaxDatasets[s]
      BY <3>4
    <3>9. QED
      BY <1>u, <3>3, <3>6, <3>7, <3>8, QuotaKept
  <2>5. QED
    BY <2>3, <2>4
<1>4. ASSUME NEW x \in Clients, Probe(x) PROVE QuotaInv'
  <2> DEFINE call == IF req[x].path \in objects
                     THEN IF req[x].op = "upload" THEN "dataset" ELSE "version" ELSE "put"
             q == GoTo(req[x], call)
  <2>1. req[x] \in Request /\ req[x].at = "probe"
    BY <1>4, <1>a, <1>b DEF Probe
  <2>2. req' = [req EXCEPT ![x] = q] /\ datasets' \subseteq datasets
    BY <1>4 DEF Probe, Insert
  <2>3. call \in Calls /\ call # "count"
    BY <1>b
  <2> HIDE DEF call
  <2>4. q.at = call /\ q.op = req[x].op
    BY <2>1, <2>3, GoToFields
  <2> HIDE DEF q
  <2>5. /\ q.at = "count" => \E p \in PlansSeen : q.limit = MaxDatasets[p]
        /\ q.at \in {"probe", "put", "dataset"} /\ q.op = "upload" => x \in Admitted
    BY <2>1, <2>3, <2>4 DEF Admitted
  <2>6. QED
    BY <1>u, <2>2, <2>5, QuotaMove
<1>5. ASSUME NEW x \in Clients, Put(x) PROVE QuotaInv'
  <2> DEFINE q == Insert([req[x] EXCEPT !.object = "made"])
  <2>1. req[x] \in Request /\ req[x].at = "put" /\ datasets' \subseteq datasets
    BY <1>5, <1>a, <1>b DEF Put
  <2>2. CASE req' = [req EXCEPT ![x] = q]
    <3>1. /\ q.op = req[x].op
          /\ q.at = IF req[x].op = "upload" THEN "dataset" ELSE "version"
      BY <2>1, PutFields
    <3> HIDE DEF q
    <3>2. /\ q.at = "count" => \E p \in PlansSeen : q.limit = MaxDatasets[p]
          /\ q.at \in {"probe", "put", "dataset"} /\ q.op = "upload" => x \in Admitted
      BY <2>1, <3>1 DEF Admitted
    <3>3. QED
      BY <1>u, <2>1, <2>2, <3>2, QuotaMove
  <2>3. CASE req' = [req EXCEPT ![x] = Raised(req[x])]
    BY <1>u, <2>1, <2>3, QuotaRaised
  <2>4. QED
    BY <1>5, <2>2, <2>3 DEF Put, Answered
<1>6. ASSUME NEW x \in Clients, CreateDataset(x) PROVE QuotaInv'
  <2> DEFINE q == req'[x]
             D == datasets
             e == req[x].dataset
  <2>1. req[x] \in Request /\ req[x].at = "dataset" /\ datasets' = D \cup {e}
    BY <1>6, <1>a, <1>b DEF CreateDataset
  <2>2. x \in Admitted
    BY <2>1 DEF UploadInv, Held, Admitted
  <2>3. /\ GoTo(req[x], "version").at = "version"
        /\ Raised(req[x]).at \in {"idle", "undo", "remove"}
    BY <2>1, <1>b, GoToFields, RaisedFields
  <2>4. /\ req' = [req EXCEPT ![x] = q]
        /\ q.at \in {"version", "idle", "undo", "remove"}
    BY <1>6, <1>u, <2>3, Zenon DEF CreateDataset, Answered, UploadTypeOK
  <2> HIDE DEF q
  <2>5. req'[x] = q /\ \A y \in Clients : y # x => req'[y] = req[y]
    BY <1>u, <2>4, SMT DEF UploadTypeOK
  <2>6. Cardinality(Admitted') <= Cardinality(Admitted) - 1
    <3>1. x \notin Admitted'
      BY <2>4, <2>5 DEF Admitted
    <3>2. QED
      BY <1>u, <2>2, <2>5, <3>1, AdmittedKept
  <2>7. /\ datasets \in SUBSET Datasets /\ Admitted \in SUBSET Clients
        /\ Admitted' \in SUBSET Clients
    BY <1>u DEF UploadTypeOK, Admitted
  <2>8. /\ IsFiniteSet(D) /\ Cardinality(D) \in Nat
        /\ Cardinality(Admitted) \in Nat /\ Cardinality(Admitted') \in Nat
    BY <2>7, Finite
  <2>9. Cardinality(D \cup {e}) = IF e \in D THEN Cardinality(D) ELSE Cardinality(D) + 1
    BY <2>8, FS_AddElement
  <2>10. Cardinality(datasets') + Cardinality(Admitted')
            <= Cardinality(datasets) + Cardinality(Admitted)
    BY <2>1, <2>6, <2>8, <2>9, SMT
  <2>11. \A y \in Clients : req'[y].at = "count" =>
            \/ req[y].at = "count" /\ req'[y].limit = req[y].limit
            \/ \E s \in PlansSeen : req'[y].limit = MaxDatasets[s]
    BY <2>4, <2>5, SMT
  <2>12. PlansSeen' = PlansSeen /\ EntitledPlan' = EntitledPlan
    BY <1>u DEF billingVars, PlansSeen, EntitledPlan, EffectivePlan
  <2>13. PlansSeen \subseteq PlansSeen' /\ EntitledPlan' \in PlansSeen'
    BY <2>12 DEF QuotaInv
  <2>14. \A s \in PlansSeen : MaxDatasets[s] \in Nat
    BY PlansSeenType
  <2>15. QED
    BY <1>u, <2>10, <2>11, <2>13, <2>14, QuotaKept
<1>7. ASSUME NEW x \in Clients,
             \/ \E n \in Numbers : CreateVersion(x, n)
             \/ Remove(x) \/ Refused(x) \/ Fault(x) \/ Crash(x)
      PROVE  QuotaInv'
  <2>1. /\ req[x] \in Request /\ datasets' \subseteq datasets
        /\ \/ req' = [req EXCEPT ![x] = Raised(req[x])]
           \/ req' = [req EXCEPT ![x] = Idle]
    <3>1. CASE \E n \in Numbers : CreateVersion(x, n)
      BY <3>1, <1>a, <1>b DEF CreateVersion, Answered
    <3>2. CASE Remove(x)
      BY <3>2, <1>a, <1>b DEF Remove
    <3>3. CASE Refused(x)
      BY <3>3, <1>a, <1>b DEF Refused
    <3>4. CASE Fault(x) \/ Crash(x)
      BY <3>4, <1>u DEF Fault, Crash, UploadTypeOK
    <3>5. QED
      BY <1>7, <3>1, <3>2, <3>3, <3>4
  <2>2. QED
    BY <1>u, <2>1, QuotaRaised
<1>8. ASSUME NEW x \in Clients, DeleteDataset(x) PROVE QuotaInv'
  <2> DEFINE q == RemoveOrEnd(req[x])
  <2>1. /\ req[x] \in Request /\ datasets' \subseteq datasets
        /\ req' = [req EXCEPT ![x] = q]
    BY <1>8, <1>a, <1>b DEF DeleteDataset
  <2>2. GoTo(req[x], "remove").at = "remove"
    BY <2>1, <1>b, GoToFields
  <2>3. q.at \in {"remove", "idle"}
    BY <2>2, <1>i DEF RemoveOrEnd
  <2> HIDE DEF q
  <2>4. /\ q.at = "count" => \E p \in PlansSeen : q.limit = MaxDatasets[p]
        /\ q.at \in {"probe", "put", "dataset"} /\ q.op = "upload" => x \in Admitted
    BY <2>3
  <2>5. QED
    BY <1>u, <2>1, <2>4, QuotaMove
<1>9. QED
  BY <1>1, <1>2, <1>3, <1>4, <1>5, <1>6, <1>7, <1>8 DEF Uploads, Admit, UploadStep

LEMMA QuotaNextInv ==
    QuotaInv /\ BillingInv /\ UploadInv /\ UploadTypeOK' /\ [Next]_vars => QuotaInv'
<1> SUFFICES ASSUME QuotaInv, BillingInv, UploadInv, UploadTypeOK', [Next]_vars
             PROVE  QuotaInv'
  OBVIOUS
<1>1. CASE Uploads
  BY <1>1, QuotaUploads DEF BillingInv
<1>2. CASE UNCHANGED uploadVars
  <2>1. req' = req /\ datasets' = datasets /\ Admitted' = Admitted
    BY <1>2 DEF uploadVars, Admitted
  <2>2. PlansSeen \subseteq PlansSeen' /\ EntitledPlan' \in PlansSeen'
    BY NextBilling, PlansSeenGrow DEF QuotaInv
  <2>3. QED
    BY <2>1, <2>2 DEF QuotaInv
<1>3. QED
  BY <1>1, <1>2 DEF Next, Billing, vars

\* Uploads running at once exceed the limit of one of the plans the workspace has
\* had by less than the number of clients.
THEOREM QuotaOvershootHolds == Spec => []QuotaOvershoot
<1>1. Init => QuotaInv
  BY QuotaInitInv
<1>2. BillingTypeOK /\ UploadTypeOK /\ QuotaInv => QuotaOvershoot
  <2> SUFFICES ASSUME BillingTypeOK, UploadTypeOK, QuotaInv PROVE QuotaOvershoot
    OBVIOUS
  <2>1. datasets \in SUBSET Datasets /\ Admitted \in SUBSET Clients
    BY DEF UploadTypeOK, Admitted
  <2>2. /\ Cardinality(datasets) \in Nat /\ Cardinality(Admitted) \in Nat
        /\ Cardinality(Clients) \in Nat
    BY <2>1, Finite
  <2>3. \A p \in PlansSeen : MaxDatasets[p] \in Nat
    BY PlansSeenType
  <2>4. QED
    BY <2>2, <2>3, SMT DEF QuotaInv, QuotaOvershoot
<1>3. QED
  BY <1>1, <1>2, QuotaNextInv, BillingInvariance, UploadInvariance, PTL
     DEF Spec, BillingInv, UploadInv
=============================================================================
