------------------------- MODULE ResearchRepository -------------------------
(***************************************************************************)
(* The SQLite object store (ResearchRepository), its transaction context   *)
(* and the evidence graph kept in the same file (EvidenceRepository), used *)
(* by the threads of one process.                                          *)
(*                                                                         *)
(* All threads share one connection.  `db' is what that connection sees,   *)
(* `disk' what is committed: commit copies db to disk and rollback copies  *)
(* disk to db, whichever thread wrote the statements in between.  A write  *)
(* transaction holds the repository's lock; delete_object uses the         *)
(* connection without it.  One action is one SQL statement or one lock     *)
(* operation.                                                              *)
(*                                                                         *)
(* An audit row's entry_hash is named by the row's id (the primary key),   *)
(* so `prev' says which row the hash was chained to.  The relation of a    *)
(* lineage edge and the content behind an artifact hash are left out.      *)
(***************************************************************************)
EXTENDS Naturals, Sequences, FiniteSets

CONSTANTS Threads, None,
          Entries,          \* AuditEntry objects
          Cycles,           \* ResearchCycle objects
          Artifacts,        \* evidence envelopes, named by artifact_hash
          Parents,          \* Parents[a]: parent_hashes of the envelope a
          Plain,            \* ids that save_object is called with
          Targets,          \* ids that deletions name
          MaxWriteRetries,  \* MAX_WRITE_RETRIES
          MaxCalls,         \* calls in one behaviour
          MaxFaults         \* statements and commits that find the database locked,
                            \* and crashes

Ids == Entries \cup Cycles \cup Artifacts \cup Plain

ASSUME RepositoryAssumption ==
    /\ None \notin Threads \cup Ids
    /\ Entries \cap Cycles = {}
    /\ Parents \in [Artifacts -> SUBSET Artifacts]
    /\ Targets \subseteq Ids
    /\ MaxWriteRetries \in Nat \ {0}
    /\ MaxCalls \in Nat
    /\ MaxFaults \in Nat

VARIABLES db, disk,
          lock,      \* the thread that acquired the repository's lock, or None
          closed,    \* _closed
          pc,        \* pc[t]: the statement thread t executes next
          call,      \* call[t]: the operation it is in
          last,      \* last[t]: prev_hash, the entry_hash save_audit_entry read
          tries,     \* tries[t]: commits of this transaction that found a lock
          stored,    \* appends whose transaction ended without an exception
          split,     \* artifacts another thread's commit caught half-written
          calls, faults

vars == <<db, disk, lock, closed, pc, call, last, tries,
          stored, split, calls, faults>>

Row     == [id: Entries, prev: Entries \cup {None}]
Kinds   == {"none", "audit", "cycle", "mirror", "plain"}
Tables  == [objects: [Ids -> Kinds], cycles: SUBSET Cycles, audit: Seq(Row),
            evidence: SUBSET Artifacts, edges: SUBSET (Artifacts \X Artifacts)]
Ops     == {"save_object", "delete", "save_cycle", "save_audit_entry",
            "append_artifact", "add_lineage_edge", "delete_object", "close"}
NoCall  == [op |-> "none", id |-> None, parent |-> None]
Calls   == [op: Ops, id: Ids \cup {None}, parent: Artifacts \cup {None}]
Inside  == {"select", "write", "raised", "mirror", "edges", "exit"}
Steps   == Inside \cup {"idle", "enter", "retry", "unlocked", "commit", "close"}

TypeOK == /\ db \in Tables
          /\ disk \in Tables
          /\ lock \in Threads \cup {None}
          /\ closed \in BOOLEAN
          /\ pc \in [Threads -> Steps]
          /\ call \in [Threads -> Calls \cup {NoCall}]
          /\ last \in [Threads -> Entries \cup {None}]
          /\ tries \in [Threads -> 0 .. MaxWriteRetries]
          /\ stored \in SUBSET Ids
          /\ split \in SUBSET Artifacts
          /\ calls \in 0 .. MaxCalls
          /\ faults \in 0 .. MaxFaults

Empty == [objects |-> [i \in Ids |-> "none"], cycles |-> {}, audit |-> << >>,
          evidence |-> {}, edges |-> {}]

Init == /\ db = Empty
        /\ disk = Empty
        /\ lock = None
        /\ closed = FALSE
        /\ pc = [t \in Threads |-> "idle"]
        /\ call = [t \in Threads |-> NoCall]
        /\ last = [t \in Threads |-> None]
        /\ tries = [t \in Threads |-> 0]
        /\ stored = {}
        /\ split = {}
        /\ calls = 0
        /\ faults = MaxFaults

Goto(t, step) == pc' = [pc EXCEPT ![t] = step]

Ghosts == <<stored, split>>

-----------------------------------------------------------------------------
(* Calls.  save dispatches on the type of the object it is given.          *)

First(op) == CASE op = "delete_object" -> "unlocked"
               [] op = "close"         -> "close"
               [] OTHER                -> "enter"

Begin(t, op, id, parent) ==
    /\ pc[t] = "idle"
    /\ calls < MaxCalls
    /\ calls' = calls + 1
    /\ call' = [call EXCEPT ![t] = [op |-> op, id |-> id, parent |-> parent]]
    /\ tries' = [tries EXCEPT ![t] = 0]
    /\ Goto(t, First(op))
    /\ UNCHANGED <<db, disk, lock, closed, last, Ghosts, faults>>

Save(t) == \/ \E i \in Plain     : Begin(t, "save_object", i, None)
           \/ \E i \in Cycles    : Begin(t, "save_cycle", i, None)
           \/ \E i \in Entries   : Begin(t, "save_audit_entry", i, None)

Delete(t) == \E i \in Targets : \/ Begin(t, "delete", i, None)
                                \/ Begin(t, "delete_object", i, None)

AppendArtifact(t) == \E a \in Artifacts : Begin(t, "append_artifact", a, None)

AddLineageEdge(t) ==
    \E p, c \in Artifacts : Begin(t, "add_lineage_edge", c, p)

Close(t) == Begin(t, "close", None, None)

-----------------------------------------------------------------------------
(* _TransactionContext: __enter__ *)

\* Mutant: the transaction starts without waiting for the lock.
FreeAlways == TRUE

Free == lock = None

\* A thread takes the lock and a cursor.
Enter(t) ==
    /\ pc[t] = "enter"
    /\ Free
    /\ ~closed
    /\ lock' = t
    /\ Goto(t, IF call[t].op = "save_audit_entry" THEN "select" ELSE "write")
    /\ UNCHANGED <<db, disk, closed, call, last, tries, Ghosts, calls, faults>>

\* _get_conn raises RuntimeError in a closed repository, which __enter__ does
\* not catch: the call ends with the lock taken, and __exit__ never runs.
EnterClosed(t) ==
    /\ pc[t] = "enter"
    /\ Free
    /\ closed
    /\ lock' = t
    /\ Goto(t, "idle")
    /\ UNCHANGED <<db, disk, closed, call, last, tries, Ghosts, calls, faults>>

-----------------------------------------------------------------------------
(* The statements of the transactions *)

LastHash(rows) == IF rows = << >> THEN None ELSE rows[Len(rows)].id

SelectLast(t) ==
    /\ pc[t] = "select"
    /\ last' = [last EXCEPT ![t] = LastHash(db.audit)]
    /\ Goto(t, "write")
    /\ UNCHANGED <<db, disk, lock, closed, call, tries, Ghosts, calls, faults>>

Kind(id) == IF id \in Entries THEN "audit"
            ELSE IF id \in Cycles THEN "cycle" ELSE "plain"

Put(id, kind) == db' = [db EXCEPT !.objects = [@ EXCEPT ![id] = kind]]

AuditIds(rows) == {rows[i].id : i \in DOMAIN rows}

Write(t, op, next) == /\ pc[t] = "write"
                      /\ call[t].op = op
                      /\ Goto(t, next)
                      /\ UNCHANGED <<disk, lock, closed, call, last, tries,
                                     Ghosts, calls, faults>>

SaveObject(t) == Write(t, "save_object", "exit")
                 /\ Put(call[t].id, Kind(call[t].id))

DeleteRow(t) == Write(t, "delete", "exit") /\ Put(call[t].id, "none")

SaveCycle(t) == Write(t, "save_cycle", "exit")
                /\ db' = [db EXCEPT !.cycles = @ \cup {call[t].id}]

InsertAudit(t) ==
    /\ Write(t, "save_audit_entry", "exit")
    /\ call[t].id \notin AuditIds(db.audit)
    /\ db' = [db EXCEPT !.audit =
                 Append(@, [id |-> call[t].id, prev |-> last[t]])]

\* INSERT INTO audit_logs of an id that is there raises IntegrityError.
InsertAuditTwice(t) ==
    /\ Write(t, "save_audit_entry", "raised")
    /\ call[t].id \in AuditIds(db.audit)
    /\ UNCHANGED db

Present(a) == a \in db.evidence

\* Mutant: the parents of a new artifact are not looked up.
AppendableAnyParents(a) == ~ Present(a)

Appendable(a) == ~ Present(a) /\ \A p \in Parents[a] : Present(p)

InsertEvidence(t) ==
    /\ Write(t, "append_artifact", "mirror")
    /\ Appendable(call[t].id)
    /\ db' = [db EXCEPT !.evidence = @ \cup {call[t].id}]

\* An artifact that is there is returned as it is stored, or the envelope differs
\* from it and is refused; so is one whose parents are missing.
ReplayEvidence(t) == /\ Write(t, "append_artifact", "exit")
                     /\ Present(call[t].id)
                     /\ UNCHANGED db

RefuseOverwrite(t) == /\ Write(t, "append_artifact", "raised")
                      /\ Present(call[t].id)
                      /\ UNCHANGED db

RefuseOrphan(t) == /\ Write(t, "append_artifact", "raised")
                   /\ ~ Present(call[t].id)
                   /\ ~ Appendable(call[t].id)
                   /\ UNCHANGED db

InsertMirror(t) ==
    /\ pc[t] = "mirror"
    /\ IF db.objects[call[t].id] \in {"none", "mirror"}
       THEN Put(call[t].id, "mirror") /\ Goto(t, "edges")
       ELSE Goto(t, "raised") /\ UNCHANGED db
    /\ UNCHANGED <<disk, lock, closed, call, last, tries, Ghosts, calls, faults>>

Unlinked(a) == {p \in Parents[a] : <<p, a>> \notin db.edges}

InsertEdge(t) ==
    /\ pc[t] = "edges"
    /\ IF Unlinked(call[t].id) = {}
       THEN Goto(t, "exit") /\ UNCHANGED db
       ELSE /\ \E p \in Unlinked(call[t].id) :
                  db' = [db EXCEPT !.edges = @ \cup {<<p, call[t].id>>}]
            /\ UNCHANGED pc
    /\ UNCHANGED <<disk, lock, closed, call, last, tries, Ghosts, calls, faults>>

LinkArtifacts(t) ==
    /\ Write(t, "add_lineage_edge", "exit")
    /\ Present(call[t].id) /\ Present(call[t].parent)
    /\ db' = [db EXCEPT !.edges = @ \cup {<<call[t].parent, call[t].id>>}]

RefuseLink(t) == /\ Write(t, "add_lineage_edge", "raised")
                 /\ ~ (Present(call[t].id) /\ Present(call[t].parent))
                 /\ UNCHANGED db

\* "database is locked" at the statement that would begin SQLite's transaction,
\* which is where another process's transaction is met first (journal_mode is WAL):
\* the statement raises, in a write transaction or in delete_object.
StatementLocked(t) ==
    /\ db = disk
    /\ faults > 0
    /\ faults' = faults - 1
    /\ \/ pc[t] = "write" /\ Goto(t, "raised")
       \/ pc[t] = "unlocked" /\ ~ closed /\ Goto(t, "idle")
    /\ UNCHANGED <<db, disk, lock, closed, call, last, tries, Ghosts, calls>>

-----------------------------------------------------------------------------
(* _TransactionContext: __exit__ *)

TwoParts == {"save_cycle", "save_audit_entry"}

\* save_cycle and save_audit_entry go on with save_object in a transaction of
\* its own.
After(t) ==
    IF call[t].op \in TwoParts
    THEN /\ call' = [call EXCEPT ![t].op = "save_object"]
         /\ tries' = [tries EXCEPT ![t] = 0]
         /\ Goto(t, "enter")
    ELSE Goto(t, "idle") /\ UNCHANGED <<call, tries>>

\* The row this transaction adds to a table nothing is ever deleted from.
Told(t) == IF call[t].op \in TwoParts \cup {"append_artifact"}
           THEN {call[t].id} ELSE {}

Commit(t) ==
    /\ pc[t] = "exit"
    /\ ~ closed
    /\ disk' = db
    /\ lock' = None
    /\ stored' = stored \cup Told(t)
    /\ After(t)
    /\ UNCHANGED <<db, closed, last, split, calls, faults>>

\* Mutant: the lock is not released for the pause.
CommitBusyKeepsLock(t) ==
    /\ pc[t] = "exit"
    /\ ~ closed
    /\ db # disk
    /\ faults > 0
    /\ faults' = faults - 1
    /\ db' = disk
    /\ tries' = [tries EXCEPT ![t] = @ + 1]
    /\ Goto(t, "retry")
    /\ UNCHANGED <<disk, lock, closed, call, last, stored, split, calls>>

\* "database is locked": the transaction is rolled back, the lock is released,
\* and after a pause commit is called again on what is left.
CommitBusy(t) ==
    /\ pc[t] = "exit"
    /\ ~ closed
    /\ db # disk
    /\ faults > 0
    /\ faults' = faults - 1
    /\ db' = disk
    /\ lock' = None
    /\ tries' = [tries EXCEPT ![t] = @ + 1]
    /\ Goto(t, "retry")
    /\ UNCHANGED <<disk, closed, call, last, stored, split, calls>>

CommitAgain(t) ==
    /\ pc[t] = "retry"
    /\ Free
    /\ IF tries[t] < MaxWriteRetries
       THEN lock' = t /\ Goto(t, "exit")
       ELSE Goto(t, "idle") /\ UNCHANGED lock     \* raises, the lock released
    /\ UNCHANGED <<db, disk, closed, call, last, tries, Ghosts, calls, faults>>

\* close() ran during the pause: commit on the closed connection raises.
CommitClosed(t) ==
    /\ pc[t] = "exit"
    /\ closed
    /\ lock' = None
    /\ Goto(t, "idle")
    /\ UNCHANGED <<db, disk, closed, call, last, tries, Ghosts, calls, faults>>

Rollback(t) ==
    /\ pc[t] = "raised"
    /\ db' = disk
    /\ lock' = None
    /\ Goto(t, "idle")
    /\ UNCHANGED <<disk, closed, call, last, tries, Ghosts, calls, faults>>

-----------------------------------------------------------------------------
(* delete_object and close *)

DeleteUnlocked(t) ==
    /\ pc[t] = "unlocked"
    /\ IF closed THEN Goto(t, "idle") /\ UNCHANGED db
                 ELSE Put(call[t].id, "none") /\ Goto(t, "commit")
    /\ UNCHANGED <<disk, lock, closed, call, last, tries, Ghosts, calls, faults>>

Whole(tables, a) == /\ Parents[a] \subseteq tables.evidence
                    /\ \A p \in Parents[a] : <<p, a>> \in tables.edges

Halves == {a \in db.evidence : ~ Whole(db, a)}

\* Commits whatever the connection has open, another thread's statements too.
CommitUnlocked(t) ==
    /\ pc[t] = "commit"
    /\ ~ closed
    /\ disk' = db
    /\ split' = split \cup Halves
    /\ Goto(t, "idle")
    /\ UNCHANGED <<db, lock, closed, call, last, tries, stored, calls, faults>>

\* The commit raises, as it finds the database locked or the connection closed;
\* nothing rolls the deletion back.
CommitUnlockedFails(t) ==
    /\ pc[t] = "commit"
    /\ IF closed THEN UNCHANGED faults
                 ELSE db # disk /\ faults > 0 /\ faults' = faults - 1
    /\ Goto(t, "idle")
    /\ UNCHANGED <<db, disk, lock, closed, call, last, tries, Ghosts, calls>>

CloseConn(t) ==
    /\ pc[t] = "close"
    /\ Free
    /\ closed' = TRUE
    /\ db' = disk
    /\ Goto(t, "idle")
    /\ UNCHANGED <<disk, lock, call, last, tries, Ghosts, calls, faults>>

\* The process dies; the next one opens the file (_init_db adds no rows).
Crash ==
    /\ faults > 0
    /\ faults' = faults - 1
    /\ db' = disk
    /\ lock' = None
    /\ closed' = FALSE
    /\ pc' = [t \in Threads |-> "idle"]
    /\ UNCHANGED <<disk, call, last, tries, Ghosts, calls>>

-----------------------------------------------------------------------------
Statement(t) == \/ SelectLast(t) \/ SaveObject(t) \/ DeleteRow(t) \/ SaveCycle(t)
                \/ InsertAudit(t) \/ InsertAuditTwice(t)
                \/ InsertEvidence(t) \/ ReplayEvidence(t)
                \/ RefuseOverwrite(t) \/ RefuseOrphan(t)
                \/ InsertMirror(t) \/ InsertEdge(t)
                \/ LinkArtifacts(t) \/ RefuseLink(t)

Proceed(t) == \/ Enter(t) \/ EnterClosed(t) \/ Statement(t)
              \/ Commit(t) \/ CommitAgain(t) \/ CommitClosed(t) \/ Rollback(t)
              \/ DeleteUnlocked(t) \/ CommitUnlocked(t) \/ CloseConn(t)

Step(t) == \/ Save(t) \/ Delete(t) \/ AppendArtifact(t) \/ AddLineageEdge(t)
           \/ Close(t) \/ Proceed(t)
           \/ StatementLocked(t) \/ CommitBusy(t) \/ CommitUnlockedFails(t)

Next == (\E t \in Threads : Step(t)) \/ Crash

\* A thread runs on until its call returns; nobody makes calls or faults happen.
Fairness == \A t \in Threads :
    /\ WF_vars(Proceed(t))
    /\ WF_vars(pc[t] = "commit" /\ closed /\ CommitUnlockedFails(t))

Spec == Init /\ [][Next]_vars /\ Fairness

-----------------------------------------------------------------------------
(* Properties *)

\* verify_audit_chain: every row is chained to the row before it.
Chained(rows) == \A i \in DOMAIN rows :
                    rows[i].prev = IF i = 1 THEN None ELSE rows[i - 1].id

\* The audit log on disk always passes verify_audit_chain, whatever threads
\* append, delete, fail and crash around it, and no entry is in it twice.
AuditChainIntact ==
    /\ Chained(disk.audit)
    /\ \A i, j \in DOMAIN disk.audit :
          disk.audit[i].id = disk.audit[j].id => i = j

\* The evidence graph on disk is closed under parents and declared edges, and
\* edges join stored artifacts, except for an artifact that delete_object
\* committed in the middle of its append.
EvidenceClosed ==
    /\ \A a \in disk.evidence \ split : Whole(disk, a)
    /\ \A e \in disk.edges : e[1] \in disk.evidence /\ e[2] \in disk.evidence

\* test_concurrent_writes_dont_cause_data_loss (tests/test_institutional.py:81) and
\* verify_dual_storage_consistency (storage/repository.py:857): an audit entry whose
\* save_audit_entry has returned is in audit_logs.
InCall(x) == \E t \in Threads : pc[t] # "idle" /\ call[t].id = x
ReturnedIsStored ==
    \A e \in stored \cap Entries : InCall(e) \/ e \in AuditIds(disk.audit)

\* The lock is held only by a thread that is inside a transaction, until a
\* transaction is begun on the closed repository.
LockHasOwner == lock # None /\ ~ closed => pc[lock] \in Inside

\* "append-only" (storage/repository.py:284, evidence/repository.py:1): to a reader
\* of the file the tables are the history of ResearchHistory, in which each commit
\* adds the record of one call and none is lost, rewritten or reordered, although
\* delete_object commits what another thread has open.
History == INSTANCE ResearchHistory WITH
    audit <- disk.audit, cycles <- disk.cycles,
    evidence <- disk.evidence, edges <- disk.edges
ImplementsHistory == History!Spec

\* Every call returns, unless the repository is closed under it.
CallsReturn == \A t \in Threads :
    pc[t] # "idle" ~> (pc[t] = "idle" \/ closed)
=============================================================================
