--------------------------- MODULE DatasetUploads ---------------------------
(***************************************************************************)
(* Dataset uploads of one workspace.  upload_dataset creates a dataset     *)
(* with its version 1, persist_version adds a version; both put the        *)
(* content in object storage first, under a path made of the content's     *)
(* digest and the version number, and undo what they did when a later call *)
(* raises.                                                                 *)
(*                                                                         *)
(* A request is a client's; each call it makes to the tables or to the     *)
(* object storage is one step, requests interleave, a call may fail before *)
(* or after it took effect, and the API process may die between two calls. *)
(***************************************************************************)
EXTENDS Naturals, FiniteSets

CONSTANTS Clients,
          Datasets,     \* uuid4 ids, of which upload_dataset draws a new one each time
          Digests,      \* sha256 of the content
          MaxVersions,  \* bound: versions of one dataset
          MaxFaults     \* bound: failed or unanswered calls, and crashes

ASSUME UploadAssumption == /\ IsFiniteSet(Clients) /\ IsFiniteSet(Datasets)
                           /\ MaxVersions \in Nat \ {0} /\ MaxFaults \in Nat

VARIABLES datasets,  \* ids of the dataset rows
          versions,  \* the dataset_version rows
          objects,   \* paths of the stored objects
          req,       \* req[x]: the request of client x, at its next call
          drawn,     \* ids that uploads have drawn
          orphans,   \* objects whose version went with its dataset
          faults

uploadVars == <<datasets, versions, objects, req, drawn, orphans, faults>>

Numbers == 1..(MaxVersions + 1)
Paths   == Digests \X Numbers
Idle    == [at |-> "idle"]
Calls   == {"count", "probe", "put", "dataset", "version", "undo", "remove"}
Version == [dataset: Datasets, no: Numbers, digest: Digests, path: Paths]
Request == [at: Calls, op: {"upload", "version"}, dataset: Datasets,
            digest: Digests, path: Paths, object: {"made", "unmade"}, limit: Nat]

UploadTypeOK == /\ datasets \subseteq Datasets
                /\ versions \subseteq Version
                /\ objects \subseteq Paths
                /\ req \in [Clients -> Request \cup {Idle}]
                /\ drawn \subseteq Datasets
                /\ orphans \subseteq Paths
                /\ faults \in 0..MaxFaults

UploadInit == /\ datasets = {}
              /\ versions = {}
              /\ objects = {}
              /\ req = [x \in Clients |-> Idle]
              /\ drawn = {}
              /\ orphans = {}
              /\ faults = 0

Busy          == {x \in Clients : req[x] # Idle}
VersionsOf(d) == {v \in versions : v.dataset = d}

\* n is coalesce(max(version_no), 0) + 1 over the versions of d.
IsNextNo(n, d) == /\ \A v \in VersionsOf(d) : v.no < n
                  /\ n = 1 \/ \E v \in VersionsOf(d) : v.no = n - 1

-----------------------------------------------------------------------------
(* What an exception leads to *)

\* The limit read matters to the count only.
GoTo(r, call) == [r EXCEPT !.at = call, !.limit = 0]

\* The cleanup removes the object when this request put it.
RemoveOrEnd(r) == IF r.object = "made" THEN GoTo(r, "remove") ELSE Idle

\* Mutant: persist_version raises without removing the object it put.
RaisedLeavesObject(r) ==
    IF r.at \in {"dataset", "version"} /\ r.op = "upload" THEN GoTo(r, "undo")
    ELSE IF r.at = "undo" THEN RemoveOrEnd(r) ELSE Idle

\* Only the two inserts are inside the try that cleans up, and the removal is in
\* the finally of delete_dataset.
Raised(r) ==
    IF r.at \in {"dataset", "version"} /\ r.op = "upload" THEN GoTo(r, "undo")
    ELSE IF r.at \in {"version", "undo"} THEN RemoveOrEnd(r) ELSE Idle

\* The call of x returns and the request goes on, or its answer is lost and the
\* caller sees an exception although the call took effect.
Answered(x, next) ==
    \/ req' = [req EXCEPT ![x] = next] /\ UNCHANGED faults
    \/ /\ faults < MaxFaults
       /\ faults' = faults + 1
       /\ req' = [req EXCEPT ![x] = Raised(@)]

-----------------------------------------------------------------------------
(* Admission *)

\* upload_dataset reads the entitlement, and the number of datasets after it.
UploadDataset(x, d, g, limit) ==
    /\ req[x] = Idle
    /\ d \notin drawn
    /\ drawn' = drawn \cup {d}
    /\ req' = [req EXCEPT ![x] =
                  [at |-> "count", op |-> "upload", dataset |-> d, digest |-> g,
                   path |-> <<g, 1>>, object |-> "unmade", limit |-> limit]]
    /\ UNCHANGED <<datasets, versions, objects, orphans, faults>>

\* Mutant: the comparison lets one dataset more in.
WithinLimitPlusOne(limit) == limit = 0 \/ Cardinality(datasets) <= limit

WithinLimit(limit) == limit = 0 \/ Cardinality(datasets) < limit

CountDatasets(x) ==
    /\ req[x].at = "count"
    /\ req' = [req EXCEPT ![x] = IF WithinLimit(@.limit)
                                 THEN GoTo(@, "probe") ELSE Idle]
    /\ UNCHANGED <<datasets, versions, objects, drawn, orphans, faults>>

\* persist_version: content the dataset already has is answered at once, else the
\* next number is computed from the versions read here.
UploadVersion(x, d, g, n) ==
    /\ req[x] = Idle
    /\ d \in datasets
    /\ \A v \in VersionsOf(d) : v.digest # g
    /\ IsNextNo(n, d)
    /\ req' = [req EXCEPT ![x] =
                  [at |-> "probe", op |-> "version", dataset |-> d, digest |-> g,
                   path |-> <<g, n>>, object |-> "unmade", limit |-> 0]]
    /\ UNCHANGED <<datasets, versions, objects, drawn, orphans, faults>>

-----------------------------------------------------------------------------
(* Storing the content and the rows *)

Insert(r) == GoTo(r, IF r.op = "upload" THEN "dataset" ELSE "version")

Probe(x) ==
    /\ req[x].at = "probe"
    /\ req' = [req EXCEPT ![x] = IF @.path \in objects THEN Insert(@)
                                 ELSE GoTo(@, "put")]
    /\ UNCHANGED <<datasets, versions, objects, drawn, orphans, faults>>

\* upload with upsert false.
Put(x) ==
    /\ req[x].at = "put"
    /\ req[x].path \notin objects
    /\ objects' = objects \cup {req[x].path}
    /\ Answered(x, Insert([req[x] EXCEPT !.object = "made"]))
    /\ UNCHANGED <<datasets, versions, drawn, orphans>>

CreateDataset(x) ==
    /\ req[x].at = "dataset"
    /\ datasets' = datasets \cup {req[x].dataset}
    /\ Answered(x, GoTo(req[x], "version"))
    /\ UNCHANGED <<versions, objects, drawn, orphans>>

\* Mutant: the path is compared with the number the client asked for, as when
\* the check fires before the number is allocated.
PathValidAsAsked(r, n) == r.path[1] = r.digest

\* dataset_version_allocate_no gives the row its number, and
\* dataset_version_storage_path_contract then compares the path with it.
PathValid(r, n) == r.path = <<r.digest, n>>

Insertable(r, n) == /\ r.dataset \in datasets
                    /\ IsNextNo(n, r.dataset)
                    /\ PathValid(r, n)
                    /\ \A v \in VersionsOf(r.dataset) : v.digest # r.digest

CreateVersion(x, n) ==
    LET r == req[x]
    IN  /\ r.at = "version"
        /\ Insertable(r, n)
        /\ versions' = versions \cup
              {[dataset |-> r.dataset, no |-> n, digest |-> r.digest,
                path |-> r.path]}
        /\ Answered(x, Idle)
        /\ UNCHANGED <<datasets, objects, drawn, orphans>>

-----------------------------------------------------------------------------
(* Undoing *)

\* The versions of the dataset go with it, whoever inserted them: the foreign key
\* cascades (202609170001_saas_core.sql:43), and dataset_version_immutable fires
\* before updates only (202609231000_dataset_storage_registry_hardening.sql:82-85).
DeleteDataset(x) ==
    /\ req[x].at = "undo"
    /\ datasets' = datasets \ {req[x].dataset}
    /\ versions' = versions \ VersionsOf(req[x].dataset)
    /\ orphans' = orphans \cup ({v.path : v \in VersionsOf(req[x].dataset)} \cap objects)
    /\ req' = [req EXCEPT ![x] = RemoveOrEnd(@)]
    /\ UNCHANGED <<objects, drawn, faults>>

Remove(x) ==
    /\ req[x].at = "remove"
    /\ objects' = objects \ {req[x].path}
    /\ orphans' = orphans \ {req[x].path}
    /\ req' = [req EXCEPT ![x] = Idle]
    /\ UNCHANGED <<datasets, versions, drawn, faults>>

\* The call raises because of what is stored: the object is there by now, or the
\* row is refused.
Refused(x) ==
    LET r == req[x]
    IN  /\ \/ r.at = "put" /\ r.path \in objects
           \/ r.at = "version" /\ \A n \in Numbers : ~Insertable(r, n)
        /\ req' = [req EXCEPT ![x] = Raised(r)]
        /\ UNCHANGED <<datasets, versions, objects, drawn, orphans, faults>>

\* The call raises and has had no effect: it was lost or, for delete_dataset, a
\* run refers to a version already.
Fault(x) == /\ req[x] # Idle /\ faults < MaxFaults
            /\ faults' = faults + 1
            /\ req' = [req EXCEPT ![x] = Raised(@)]
            /\ UNCHANGED <<datasets, versions, objects, drawn, orphans>>

\* The API process dies.
Crash(x) == /\ req[x] # Idle /\ faults < MaxFaults
            /\ faults' = faults + 1
            /\ req' = [req EXCEPT ![x] = Idle]
            /\ UNCHANGED <<datasets, versions, objects, drawn, orphans>>

\* The step of a client's request, once admitted.
UploadStep(x) ==
    \/ CountDatasets(x) \/ Probe(x) \/ Put(x) \/ CreateDataset(x)
    \/ \E n \in Numbers : CreateVersion(x, n)
    \/ DeleteDataset(x) \/ Remove(x) \/ Refused(x) \/ Fault(x) \/ Crash(x)

-----------------------------------------------------------------------------
(* Properties *)

\* However stale the number an upload computed, the versions of a dataset that is
\* there are numbered from 1 without a gap, no two of them have the same content,
\* and each is stored under the number that the trigger gave it.
VersionsNumbered ==
    \A v \in versions :
       /\ v.dataset \in datasets
       /\ v.path = <<v.digest, v.no>>
       /\ v.no = 1 \/ \E w \in VersionsOf(v.dataset) : w.no = v.no - 1
       /\ \A w \in VersionsOf(v.dataset) : w # v => w.no # v.no /\ w.digest # v.digest

\* Uploads that raced but lost no call leave nothing half done: once they have
\* returned, every dataset has a version, and every object a version that names
\* it or did so until its dataset was deleted.
CleanUploads ==
    faults = 0 /\ Busy = {} =>
       /\ datasets = {v.dataset : v \in versions}
       /\ objects \subseteq {v.path : v \in versions} \cup orphans

\* A version that was recorded stays, and its object is not deleted
\* (docs/saas/DATABASE_SCHEMA.md:188 and :204).  delete_dataset in the cleanup of a
\* refused upload takes the version of another client with it.
VersionsRemainReadable ==
    [][\A v \in versions :
          v \in versions' /\ (v.path \in objects => v.path \in objects')]_uploadVars
=============================================================================
