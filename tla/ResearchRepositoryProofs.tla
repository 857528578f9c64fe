---------------------- MODULE ResearchRepositoryProofs ----------------------
(***************************************************************************)
(* Proofs about ResearchRepository.  The invariant has four parts:         *)
(*                                                                         *)
(*   Control   types, what a call may name, and the lock: a thread that is *)
(*             inside a transaction has it (Exclusive), and whoever has it *)
(*             is inside one (LockHasOwner);                               *)
(*   ChainInv  both copies of the audit log are chains, and the thread     *)
(*             that is about to insert a row has read the last one: true   *)
(*             because nobody else is inside;                              *)
(*   GraphInv  both copies of the evidence graph are closed, but for the   *)
(*             artifact that is being appended and those caught halfway;   *)
(*   StoreInv  nothing leaves the append-only tables and, as long as no    *)
(*             fault has happened, a transaction about to commit has its   *)
(*             row.                                                        *)
(*                                                                         *)
(* The refinement of ResearchHistory adds Pending: what is not yet         *)
(* committed is the record of one call.                                    *)
(*                                                                         *)
(* Each part is preserved by every action, given Control.                  *)
(***************************************************************************)
EXTENDS ResearchRepository, TLAPS

\* A thread inside a transaction has the lock.
Exclusive == \A t \in Threads : pc[t] \in Inside => lock = t

\* What a call may name.
CallIds == \A t \in Threads :
    /\ call[t].op \in Ops \cup {"none"}
    /\ call[t].op \in {"save_object", "delete", "delete_object"} => call[t].id \in Ids
    /\ call[t].op = "save_cycle" => call[t].id \in Cycles
    /\ call[t].op = "save_audit_entry" => call[t].id \in Entries
    /\ call[t].op = "append_artifact" => call[t].id \in Artifacts
    /\ call[t].op = "add_lineage_edge" =>
          call[t].id \in Artifacts /\ call[t].parent \in Artifacts
    /\ pc[t] \in {"mirror", "edges"} => call[t].op = "append_artifact"
    /\ pc[t] \in {"unlocked", "commit"} => call[t].op = "delete_object"
    /\ pc[t] = "select" => call[t].op = "save_audit_entry"

\* A transaction that may still commit has found fewer locks than it may.
TriesLeft == \A t \in Threads :
                pc[t] \in Inside \cup {"enter"} => tries[t] < MaxWriteRetries

LEMMA LockStep ==
    ASSUME TypeOK, Exclusive, LockHasOwner, TriesLeft, [Next]_vars
    PROVE  Exclusive' /\ LockHasOwner' /\ TriesLeft'
<1> USE RepositoryAssumption DEF TypeOK, Exclusive, LockHasOwner, TriesLeft, Inside, Goto
<1>1. ASSUME NEW t \in Threads, NEW op, NEW id, NEW parent, Begin(t, op, id, parent)
      PROVE  Exclusive' /\ LockHasOwner' /\ TriesLeft'
  BY <1>1 DEF Begin, First
<1>2. ASSUME NEW t \in Threads, Enter(t) \/ EnterClosed(t) \/ CommitAgain(t)
      PROVE  Exclusive' /\ LockHasOwner' /\ TriesLeft'
  BY <1>2 DEF Enter, EnterClosed, CommitAgain, Free
<1>3. ASSUME NEW t \in Threads, Statement(t)
      PROVE  Exclusive' /\ LockHasOwner' /\ TriesLeft'
  BY <1>3 DEF Statement, SelectLast, SaveObject, DeleteRow, SaveCycle, InsertAudit,
     InsertAuditTwice,
     InsertEvidence, ReplayEvidence, RefuseOverwrite, RefuseOrphan, InsertMirror,
     InsertEdge, LinkArtifacts, RefuseLink, Write
<1>4. ASSUME NEW t \in Threads, Commit(t) \/ CommitBusy(t) \/ CommitClosed(t) \/ Rollback(t)
      PROVE  Exclusive' /\ LockHasOwner' /\ TriesLeft'
  BY <1>4 DEF Commit, CommitBusy, CommitClosed, Rollback, After
<1>5. ASSUME NEW t \in Threads, 
             DeleteUnlocked(t) \/ CommitUnlocked(t) \/ CommitUnlockedFails(t) \/ CloseConn(t)
             \/ StatementLocked(t)
      PROVE  Exclusive' /\ LockHasOwner' /\ TriesLeft'
  BY <1>5 DEF DeleteUnlocked, CommitUnlocked, CommitUnlockedFails, CloseConn, Free,
     StatementLocked
<1>6. CASE Crash
  BY <1>6 DEF Crash
<1>7. CASE UNCHANGED vars
  BY <1>7 DEF vars
<1>8. QED
  BY <1>1, <1>2, <1>3, <1>4, <1>5, <1>6, <1>7 DEF Next, Step, Save, Delete,
     AppendArtifact, AddLineageEdge,
     Close, Proceed

-----------------------------------------------------------------------------
(* Types *)

\* The calls that Save, Delete, AppendArtifact, AddLineageEdge and Close begin.
Begun(op, id, parent) ==
    \/ op \in {"save_object"} /\ id \in Plain /\ parent = None
    \/ op = "save_cycle" /\ id \in Cycles /\ parent = None
    \/ op = "save_audit_entry" /\ id \in Entries /\ parent = None
    \/ op \in {"delete", "delete_object"} /\ id \in Targets /\ parent = None
    \/ op = "append_artifact" /\ id \in Artifacts /\ parent = None
    \/ op = "add_lineage_edge" /\ id \in Artifacts /\ parent \in Artifacts
    \/ op = "close" /\ id = None /\ parent = None

LEMMA Beginning ==
    ASSUME NEW t \in Threads,
           Save(t) \/ Delete(t) \/ AppendArtifact(t) \/ AddLineageEdge(t) \/ Close(t)
    PROVE  \E op, id, parent : Begun(op, id, parent) /\ Begin(t, op, id, parent)
BY DEF Save, Delete, AppendArtifact, AddLineageEdge, Close, Begun

LEMMA BegunType ==
    ASSUME NEW op, NEW id, NEW parent, Begun(op, id, parent)
    PROVE  [op |-> op, id |-> id, parent |-> parent] \in Calls
BY RepositoryAssumption DEF Begun, Calls, Ops, Ids

LEMMA BeginType ==
    ASSUME TypeOK, CallIds, NEW t \in Threads, NEW op, NEW id, NEW parent, Begun(op, id, parent),
           Begin(t, op, id, parent)
    PROVE  TypeOK' /\ CallIds'
<1> DEFINE c == [op |-> op, id |-> id, parent |-> parent]
<1>1. c \in Calls /\ c.op = op /\ c.id = id /\ c.parent = parent
  BY BegunType
<1> HIDE DEF c
<1>2. /\ pc[t] = "idle" /\ calls' \in 0 .. MaxCalls
      /\ call' = [call EXCEPT ![t] = c] /\ tries' = [tries EXCEPT ![t] = 0]
      /\ pc' = [pc EXCEPT ![t] = First(op)]
      /\ UNCHANGED <<db, disk, lock, closed, last, stored, split, faults>>
  BY RepositoryAssumption DEF Begin, TypeOK, Goto, Ghosts, c
<1>3. First(op) \in {"unlocked", "close", "enter"} /\ (First(op) = "unlocked" <=> op = "delete_object")
  BY DEF First
<1>4. TypeOK'
  BY <1>1, <1>2, <1>3, RepositoryAssumption DEF TypeOK, Steps
<1>5. CallIds'
  <2> SUFFICES ASSUME NEW u \in Threads
               PROVE  /\ call'[u].op \in Ops \cup {"none"}
                      /\ call'[u].op \in {"save_object", "delete", "delete_object"} => call'[u].id \in Ids
                      /\ call'[u].op = "save_cycle" => call'[u].id \in Cycles
                      /\ call'[u].op = "save_audit_entry" => call'[u].id \in Entries
                      /\ call'[u].op = "append_artifact" => call'[u].id \in Artifacts
                      /\ call'[u].op = "add_lineage_edge" =>
                            call'[u].id \in Artifacts /\ call'[u].parent \in Artifacts
                      /\ pc'[u] \in {"mirror", "edges"} => call'[u].op = "append_artifact"
                      /\ pc'[u] \in {"unlocked", "commit"} => call'[u].op = "delete_object"
                      /\ pc'[u] = "select" => call'[u].op = "save_audit_entry"
    BY DEF CallIds
  <2>1. CASE u # t
    BY <2>1, <1>2 DEF CallIds, TypeOK
  <2>2. CASE u = t
    <3>1. call'[u] = c /\ pc'[u] = First(op)
      BY <1>2, <2>2 DEF TypeOK
    <3>2. op \in Ops
      BY DEF Begun, Ops
    <3>3. QED
      BY <1>1, <1>3, <3>1, <3>2, RepositoryAssumption DEF Begun, Ids
  <2>3. QED
    BY <2>1, <2>2
<1>6. QED
  BY <1>4, <1>5

LEMMA CallStep ==
    ASSUME TypeOK, CallIds, [Next]_vars PROVE CallIds'
<1>p. pc \in [Threads -> Steps] /\ call \in [Threads -> Calls \cup {NoCall}]
  BY DEF TypeOK
<1>1. ASSUME NEW t \in Threads,
             Save(t) \/ Delete(t) \/ AppendArtifact(t) \/ AddLineageEdge(t) \/ Close(t)
      PROVE  CallIds'
  BY <1>1, Beginning, BeginType
\* A step of t that keeps its call.
<1>2. ASSUME NEW t \in Threads, NEW step, call' = call, pc' = [pc EXCEPT ![t] = step],
             step \in {"mirror", "edges"} => call[t].op = "append_artifact",
             step \in {"unlocked", "commit"} => call[t].op = "delete_object",
             step = "select" => call[t].op = "save_audit_entry"
      PROVE  CallIds'
  BY <1>2, <1>p DEF CallIds
<1>3. ASSUME NEW t \in Threads, UNCHANGED call, \E step \in {"write", "exit", "idle", "raised", "retry", "enter"} :
             Goto(t, step)
      PROVE CallIds'
  BY <1>2, <1>3 DEF Goto
<1>4. ASSUME NEW t \in Threads, Enter(t) PROVE CallIds'
  BY <1>2, <1>4 DEF Enter, Goto
<1>5. ASSUME NEW t \in Threads, EnterClosed(t) \/ CommitAgain(t) PROVE CallIds'
  BY <1>3, <1>5 DEF EnterClosed, CommitAgain
<1>6. ASSUME NEW t \in Threads, InsertEvidence(t) PROVE CallIds'
  BY <1>2, <1>6 DEF InsertEvidence, Write, Goto
<1>7. ASSUME NEW t \in Threads, InsertMirror(t) PROVE CallIds'
  BY <1>2, <1>7 DEF InsertMirror, Goto, CallIds
<1>8. ASSUME NEW t \in Threads, InsertEdge(t) PROVE CallIds'
  BY <1>3, <1>8 DEF InsertEdge, CallIds
<1>9. ASSUME NEW t \in Threads, SelectLast(t) \/ SaveObject(t) \/ DeleteRow(t) \/ SaveCycle(t)
             \/ InsertAudit(t) \/ InsertAuditTwice(t) \/ ReplayEvidence(t)
             \/ RefuseOverwrite(t) \/ RefuseOrphan(t) \/ LinkArtifacts(t) \/ RefuseLink(t)
      PROVE CallIds'
  BY <1>3, <1>9 DEF SelectLast, SaveObject, DeleteRow, SaveCycle, InsertAudit,
     InsertAuditTwice, ReplayEvidence, RefuseOverwrite, RefuseOrphan, LinkArtifacts, RefuseLink, Write
<1>10. ASSUME NEW t \in Threads, CommitBusy(t) \/ CommitClosed(t) \/ Rollback(t)
             \/ CommitUnlocked(t) \/ CommitUnlockedFails(t) \/ CloseConn(t) \/ StatementLocked(t)
      PROVE  CallIds'
  BY <1>3, <1>10 DEF CommitBusy, CommitClosed, Rollback, CommitUnlocked,
     CommitUnlockedFails, CloseConn, StatementLocked
<1>11. ASSUME NEW t \in Threads, DeleteUnlocked(t) PROVE CallIds'
  <2>1. call[t].op = "delete_object"
    BY <1>11 DEF DeleteUnlocked, CallIds
  <2>2. QED
    BY <1>2, <1>11, <2>1 DEF DeleteUnlocked, Goto
<1>12. ASSUME NEW t \in Threads, Commit(t) PROVE CallIds'
  <2>1. CASE call[t].op \notin TwoParts
    BY <1>3, <1>12, <2>1 DEF Commit, After
  <2>2. CASE call[t].op \in TwoParts
    <3>1. /\ call' = [call EXCEPT ![t].op = "save_object"]
          /\ pc' = [pc EXCEPT ![t] = "enter"]
      BY <1>12, <2>2 DEF Commit, After, Goto
    <3>2. /\ call'[t].op = "save_object" /\ call'[t].id = call[t].id
          /\ \A u \in Threads : u # t => call'[u] = call[u]
      BY <1>p, <3>1 DEF Calls, NoCall
    <3>3. call[t].id \in Ids
      BY <2>2 DEF CallIds, TwoParts, Ids
    <3>4. QED
      BY <1>p, <3>1, <3>2, <3>3 DEF CallIds, Ops
  <2>3. QED
    BY <2>1, <2>2
<1>13. CASE Crash
  BY <1>13 DEF Crash, CallIds
<1>14. CASE UNCHANGED vars
  BY <1>14 DEF vars, CallIds
<1>15. QED
  BY <1>1, <1>4, <1>5, <1>6, <1>7, <1>8, <1>9, <1>10, <1>11, <1>12, <1>13, <1>14
     DEF Next, Step, Proceed, Statement

\* The rows a statement leaves, table by table.
LEMMA PutTables ==
    ASSUME db \in Tables, NEW id, NEW kind \in Kinds, Put(id, kind)
    PROVE  /\ db' \in Tables
           /\ db'.objects = [db.objects EXCEPT ![id] = kind]
           /\ db'.cycles = db.cycles /\ db'.audit = db.audit
           /\ db'.evidence = db.evidence /\ db'.edges = db.edges
<1> DEFINE o == [db.objects EXCEPT ![id] = kind]
<1>1. o \in [Ids -> Kinds]
  BY DEF Tables
<1>2. db' = [db EXCEPT !.objects = o]
  BY DEF Put
<1> HIDE DEF o
<1>3. QED
  BY <1>1, <1>2 DEF Tables, o

LEMMA CycleTables ==
    ASSUME db \in Tables, NEW c \in Cycles, db' = [db EXCEPT !.cycles = @ \cup {c}]
    PROVE  /\ db' \in Tables /\ db'.cycles = db.cycles \cup {c}
           /\ db'.objects = db.objects /\ db'.audit = db.audit
           /\ db'.evidence = db.evidence /\ db'.edges = db.edges
BY DEF Tables

LEMMA AuditTables ==
    ASSUME db \in Tables, NEW r \in Row, db' = [db EXCEPT !.audit = Append(@, r)]
    PROVE  /\ db' \in Tables /\ db'.audit = Append(db.audit, r)
           /\ db'.objects = db.objects /\ db'.cycles = db.cycles
           /\ db'.evidence = db.evidence /\ db'.edges = db.edges
<1> DEFINE rows == Append(db.audit, r)
<1>1. rows \in Seq(Row)
  BY DEF Tables
<1>2. db' = [db EXCEPT !.audit = rows]
  OBVIOUS
<1> HIDE DEF rows
<1>3. QED
  BY <1>1, <1>2 DEF Tables, rows

LEMMA EvidenceTables ==
    ASSUME db \in Tables, NEW a \in Artifacts, db' = [db EXCEPT !.evidence = @ \cup {a}]
    PROVE  /\ db' \in Tables /\ db'.evidence = db.evidence \cup {a}
           /\ db'.objects = db.objects /\ db'.cycles = db.cycles
           /\ db'.audit = db.audit /\ db'.edges = db.edges
BY DEF Tables

LEMMA EdgeTables ==
    ASSUME db \in Tables, NEW a \in Artifacts, NEW p \in Artifacts,
           db' = [db EXCEPT !.edges = @ \cup {<<p, a>>}]
    PROVE  /\ db' \in Tables /\ db'.edges = db.edges \cup {<<p, a>>}
           /\ db'.objects = db.objects /\ db'.cycles = db.cycles
           /\ db'.audit = db.audit /\ db'.evidence = db.evidence
<1> DEFINE e == <<p, a>>
<1>1. e \in Artifacts \X Artifacts
  OBVIOUS
<1>2. db' = [db EXCEPT !.edges = @ \cup {e}]
  OBVIOUS
<1> HIDE DEF e
<1>3. QED
  BY <1>1, <1>2 DEF Tables, e

LEMMA TypeStep ==
    ASSUME TypeOK, CallIds, TriesLeft, [Next]_vars PROVE TypeOK'
<1>p. /\ pc \in [Threads -> Steps] /\ call \in [Threads -> Calls \cup {NoCall}]
      /\ db \in Tables /\ disk \in Tables
  BY DEF TypeOK
<1>c. {"none", "mirror"} \subseteq Kinds /\ \A id : Kind(id) \in Kinds
  BY DEF Kind, Kinds
<1>s. /\ {"idle", "enter", "retry", "commit", "select", "write", "raised", "mirror", "edges", "exit"}
            \subseteq Steps
      /\ \A t \in Threads, step \in Steps : [pc EXCEPT ![t] = step] \in [Threads -> Steps]
  BY <1>p DEF Steps, Inside
<1>1. ASSUME NEW t \in Threads,
             Save(t) \/ Delete(t) \/ AppendArtifact(t) \/ AddLineageEdge(t) \/ Close(t)
      PROVE  TypeOK'
  BY <1>1, Beginning, BeginType
\* A statement, which changes db and where its thread is.
<1>2. ASSUME NEW t \in Threads, NEW step \in Steps, pc' = [pc EXCEPT ![t] = step], db' \in Tables,
             UNCHANGED <<disk, lock, closed, call, last, tries, Ghosts, calls, faults>>
      PROVE  TypeOK'
  BY <1>2, <1>s DEF TypeOK, Ghosts
<1>3. ASSUME NEW t \in Threads, Enter(t) \/ EnterClosed(t) PROVE TypeOK'
  BY <1>3, <1>s DEF Enter, EnterClosed, TypeOK, Ghosts, Goto
<1>4. ASSUME NEW t \in Threads, SelectLast(t) PROVE TypeOK'
  <2>1. LastHash(db.audit) \in Entries \cup {None}
    <3>1. db.audit \in Seq(Row)
      BY <1>p DEF Tables
    <3>2. db.audit # << >> => db.audit[Len(db.audit)] \in Row
      BY <3>1
    <3>3. QED
      BY <3>2 DEF LastHash, Row
  <2>2. QED
    BY <1>4, <1>s, <2>1 DEF SelectLast, TypeOK, Ghosts, Goto
<1>5. ASSUME NEW t \in Threads, SaveObject(t) \/ DeleteRow(t) PROVE TypeOK'
  <2>1. db' \in Tables
    BY <1>5, <1>p, <1>c, PutTables DEF SaveObject, DeleteRow
  <2>2. QED
    BY <1>5, <1>2, <1>s, <2>1 DEF SaveObject, DeleteRow, Write, Goto
<1>6. ASSUME NEW t \in Threads, SaveCycle(t) PROVE TypeOK'
  <2>1. call[t].id \in Cycles
    BY <1>6 DEF SaveCycle, Write, CallIds
  <2>2. db' \in Tables
    BY <1>6, <1>p, <2>1, CycleTables DEF SaveCycle
  <2>3. QED
    BY <1>6, <1>2, <1>s, <2>2 DEF SaveCycle, Write, Goto
<1>7. ASSUME NEW t \in Threads, InsertAudit(t) PROVE TypeOK'
  <2>1. [id |-> call[t].id, prev |-> last[t]] \in Row
    BY <1>7 DEF InsertAudit, Write, CallIds, Row, TypeOK
  <2>2. db' \in Tables
    BY <1>7, <1>p, <2>1, AuditTables DEF InsertAudit
  <2>3. QED
    BY <1>7, <1>2, <1>s, <2>2 DEF InsertAudit, Write, Goto
<1>8. ASSUME NEW t \in Threads, InsertEvidence(t) PROVE TypeOK'
  <2>1. call[t].id \in Artifacts
    BY <1>8 DEF InsertEvidence, Write, CallIds
  <2>2. db' \in Tables
    BY <1>8, <1>p, <2>1, EvidenceTables DEF InsertEvidence
  <2>3. QED
    BY <1>8, <1>2, <1>s, <2>2 DEF InsertEvidence, Write, Goto
<1>9. ASSUME NEW t \in Threads, LinkArtifacts(t) PROVE TypeOK'
  <2>1. call[t].id \in Artifacts /\ call[t].parent \in Artifacts
    BY <1>9 DEF LinkArtifacts, Write, CallIds
  <2>2. db' \in Tables
    BY <1>9, <1>p, <2>1, EdgeTables DEF LinkArtifacts
  <2>3. QED
    BY <1>9, <1>2, <1>s, <2>2 DEF LinkArtifacts, Write, Goto
<1>10. ASSUME NEW t \in Threads,
              InsertAuditTwice(t) \/ ReplayEvidence(t) \/ RefuseOverwrite(t) \/ RefuseOrphan(t)
              \/ RefuseLink(t)
      PROVE  TypeOK'
  BY <1>10, <1>2, <1>p, <1>s DEF InsertAuditTwice, ReplayEvidence, RefuseOverwrite,
     RefuseOrphan, RefuseLink, Write, Goto
<1>11. ASSUME NEW t \in Threads, InsertMirror(t) PROVE TypeOK'
  <2>1. db' \in Tables
    BY <1>11, <1>p, <1>c, PutTables DEF InsertMirror
  <2>2. QED
    BY <1>11, <1>2, <1>s, <2>1 DEF InsertMirror, Goto
<1>12. ASSUME NEW t \in Threads, InsertEdge(t) PROVE TypeOK'
  <2>1. call[t].id \in Artifacts
    BY <1>12 DEF InsertEdge, CallIds
  <2>2. CASE Unlinked(call[t].id) = {}
    BY <1>12, <1>2, <1>p, <1>s, <2>2 DEF InsertEdge, Goto
  <2>3. CASE Unlinked(call[t].id) # {}
    <3>1. PICK p \in Unlinked(call[t].id) : db' = [db EXCEPT !.edges = @ \cup {<<p, call[t].id>>}]
      BY <1>12, <2>3 DEF InsertEdge
    <3>2. p \in Artifacts
      BY <2>1, RepositoryAssumption DEF Unlinked
    <3>3. db' \in Tables
      BY <1>p, <2>1, <3>1, <3>2, EdgeTables
    <3>4. QED
      BY <1>12, <2>3, <3>3 DEF InsertEdge, TypeOK, Ghosts
  <2>4. QED
    BY <2>2, <2>3
<1>13. ASSUME NEW t \in Threads PROVE Told(t) \subseteq Ids
  BY DEF Told, TwoParts, CallIds, Ids
<1>14. ASSUME NEW t \in Threads, Commit(t) PROVE TypeOK'
  <2>1. /\ call' \in [Threads -> Calls \cup {NoCall}]
        /\ tries' \in [Threads -> 0 .. MaxWriteRetries] /\ pc' \in [Threads -> Steps]
    <3>1. CASE call[t].op \in TwoParts
      <4>1. call[t] \in Calls
        BY <1>p, <3>1 DEF TwoParts, NoCall
      <4>2. [call[t] EXCEPT !.op = "save_object"] \in Calls
        BY <4>1 DEF Calls, Ops
      <4>3. call' = [call EXCEPT ![t] = [call[t] EXCEPT !.op = "save_object"]]
        BY <1>14, <3>1 DEF Commit, After
      <4>4. call' \in [Threads -> Calls \cup {NoCall}]
        BY <1>p, <4>2, <4>3
      <4>5. QED
        BY <1>14, <1>s, <3>1, <4>4, RepositoryAssumption DEF Commit, After, Goto, TypeOK
    <3>2. CASE call[t].op \notin TwoParts
      BY <1>14, <1>s, <3>2 DEF Commit, After, Goto, TypeOK
    <3>3. QED
      BY <3>1, <3>2
  <2>2. QED
    BY <1>13, <1>14, <2>1 DEF Commit, TypeOK
<1>15. ASSUME NEW t \in Threads, CommitBusy(t) PROVE TypeOK'
  <2>1. tries[t] < MaxWriteRetries
    BY <1>15 DEF CommitBusy, TriesLeft, Inside
  <2>2. QED
    BY <1>13, <1>15, <1>s, <2>1, RepositoryAssumption DEF CommitBusy, TypeOK, Goto
<1>16. ASSUME NEW t \in Threads,
              CommitAgain(t) \/ CommitClosed(t) \/ Rollback(t) \/ CommitUnlockedFails(t) \/ CloseConn(t)
              \/ StatementLocked(t)
      PROVE  TypeOK'
  <2>1. CASE CommitAgain(t)
    BY <1>s, <2>1 DEF CommitAgain, TypeOK, Ghosts, Goto
  <2>2. CASE CommitClosed(t) \/ Rollback(t)
    BY <1>s, <2>2 DEF CommitClosed, Rollback, TypeOK, Ghosts, Goto
  <2>3. CASE CommitUnlockedFails(t)
    <3>1. faults' \in 0 .. MaxFaults
      BY <2>3, RepositoryAssumption DEF CommitUnlockedFails, TypeOK
    <3>2. QED
      BY <1>s, <2>3, <3>1 DEF CommitUnlockedFails, TypeOK, Ghosts, Goto
  <2>4. CASE CloseConn(t)
    BY <1>s, <2>4 DEF CloseConn, TypeOK, Ghosts, Goto
  <2>5. CASE StatementLocked(t)
    <3>1. faults' \in 0 .. MaxFaults
      BY <2>5, RepositoryAssumption DEF StatementLocked, TypeOK
    <3>2. QED
      BY <1>s, <2>5, <3>1 DEF StatementLocked, TypeOK, Ghosts, Goto
  <2>6. QED
    BY <1>16, <2>1, <2>2, <2>3, <2>4, <2>5
<1>17. ASSUME NEW t \in Threads, DeleteUnlocked(t) PROVE TypeOK'
  <2>1. db' \in Tables
    BY <1>17, <1>p, <1>c, PutTables DEF DeleteUnlocked
  <2>2. QED
    BY <1>17, <1>2, <1>s, <2>1 DEF DeleteUnlocked, Goto
<1>18. ASSUME NEW t \in Threads, CommitUnlocked(t) PROVE TypeOK'
  <2>1. Halves \subseteq Artifacts
    BY <1>p DEF Halves, Tables
  <2>2. QED
    BY <1>18, <1>s, <2>1 DEF CommitUnlocked, TypeOK, Goto
<1>19. CASE Crash
  <2>1. faults' \in 0 .. MaxFaults
    BY <1>19, RepositoryAssumption DEF Crash, TypeOK
  <2>2. QED
    BY <1>19, <1>s, <2>1 DEF Crash, TypeOK, Ghosts
<1>20. CASE UNCHANGED vars
  BY <1>20 DEF vars, TypeOK
<1>21. QED
  BY <1>1, <1>3, <1>4, <1>5, <1>6, <1>7, <1>8, <1>9, <1>10, <1>11, <1>12, <1>14, <1>15, <1>16,
     <1>17, <1>18, <1>19, <1>20 DEF Next, Step, Proceed, Statement

-----------------------------------------------------------------------------
(* The audit chain *)

Control == TypeOK /\ CallIds /\ Exclusive /\ LockHasOwner /\ TriesLeft

IsChain(rows) == /\ Chained(rows)
                 /\ \A i, j \in DOMAIN rows : rows[i].id = rows[j].id => i = j

Writing(t) == pc[t] = "write" /\ call[t].op = "save_audit_entry"

\* The hash that save_audit_entry has read is still the last one when it writes.
ChainInv == /\ IsChain(db.audit) /\ IsChain(disk.audit)
            /\ \A t \in Threads : Writing(t) => last[t] = LastHash(db.audit)

LEMMA Chaining ==
    ASSUME NEW rows \in Seq(Row), IsChain(rows), NEW r \in Row,
           r.prev = LastHash(rows), r.id \notin AuditIds(rows)
    PROVE  IsChain(Append(rows, r))
<1> DEFINE n == Len(rows)
           more == Append(rows, r)
<1>1. /\ n \in Nat /\ DOMAIN rows = 1 .. n /\ DOMAIN more = 1 .. (n + 1)
      /\ \A i \in 1 .. n : more[i] = rows[i]
      /\ more[n + 1] = r
  OBVIOUS
<1>2. r.prev = IF n = 0 THEN None ELSE rows[n].id
  BY DEF LastHash
<1>3. \A i \in 1 .. n : rows[i].id # r.id
  BY <1>1 DEF AuditIds
<1> HIDE DEF n, more
<1>4. Chained(more)
  BY <1>1, <1>2, SMT DEF IsChain, Chained
<1>5. \A i, j \in DOMAIN more : more[i].id = more[j].id => i = j
  BY <1>1, <1>3, SMT DEF IsChain
<1>6. QED
  BY <1>4, <1>5 DEF IsChain, more

\* What a step that undoes the open transaction leaves: no thread inside.
Rolled == /\ db' = disk /\ UNCHANGED disk
          /\ \A u \in Threads : pc'[u] \notin Inside

LEMMA Rolling ==
    ASSUME Control, NEW t \in Threads,
           CommitBusy(t) \/ Rollback(t) \/ CloseConn(t) \/ Crash
    PROVE  Rolled
<1>p. pc \in [Threads -> Steps] /\ None \notin Threads
  BY RepositoryAssumption DEF Control, TypeOK
<1>1. CASE CommitBusy(t) \/ Rollback(t)
  <2>1. pc[t] \in Inside
    BY <1>1 DEF CommitBusy, Rollback, Inside
  <2>2. \A u \in Threads : u # t => pc[u] \notin Inside
    BY <2>1 DEF Control, Exclusive
  <2>3. pc'[t] \notin Inside /\ \A u \in Threads : u # t => pc'[u] = pc[u]
    BY <1>1, <1>p DEF CommitBusy, Rollback, Goto, Inside
  <2>4. QED
    BY <1>1, <2>2, <2>3 DEF Rolled, CommitBusy, Rollback
<1>2. CASE CloseConn(t)
  <2>1. \A u \in Threads : pc[u] \notin Inside
    BY <1>2, <1>p DEF Control, Exclusive, CloseConn, Free
  <2>2. pc'[t] \notin Inside /\ \A u \in Threads : u # t => pc'[u] = pc[u]
    BY <1>2, <1>p DEF CloseConn, Goto, Inside
  <2>3. QED
    BY <1>2, <2>1, <2>2 DEF Rolled, CloseConn
<1>3. CASE Crash
  BY <1>3 DEF Rolled, Crash, Inside
<1>4. QED
  BY <1>1, <1>2, <1>3

\* A thread that executes a statement of a transaction is alone in one.
LEMMA Alone ==
    ASSUME Control, NEW t \in Threads, pc[t] \in Inside, NEW u \in Threads, pc[u] \in Inside
    PROVE  u = t
BY DEF Control, Exclusive

LEMMA ChainStep == Control /\ ChainInv /\ [Next]_vars => ChainInv'
<1> SUFFICES ASSUME Control, ChainInv, [Next]_vars PROVE ChainInv'
  OBVIOUS
<1>p. pc \in [Threads -> Steps] /\ call \in [Threads -> Calls \cup {NoCall}]
      /\ last \in [Threads -> Entries \cup {None}] /\ db \in Tables
  BY DEF Control, TypeOK
\* The rows stay and nobody comes to write an entry.
<1>1. ASSUME db'.audit = db.audit, disk'.audit \in {disk.audit, db.audit},
             UNCHANGED last, \A t \in Threads : Writing(t)' => Writing(t)
      PROVE  ChainInv'
  BY <1>1 DEF ChainInv
\* A step of t that keeps its call, to another statement.
<1>2. ASSUME NEW t \in Threads, NEW step, step # "write", Goto(t, step), UNCHANGED <<call, last>>,
             db'.audit = db.audit, disk'.audit \in {disk.audit, db.audit}
      PROVE  ChainInv'
  BY <1>1, <1>2, <1>p DEF Goto, Writing
<1>3. ASSUME Rolled PROVE ChainInv'
  BY <1>3 DEF ChainInv, Rolled, Writing, Inside
<1>4. ASSUME NEW t \in Threads, NEW op, NEW id, NEW parent, Begin(t, op, id, parent)
      PROVE  ChainInv'
  <2>1. \A u \in Threads : Writing(u)' => Writing(u)
    BY <1>4, <1>p DEF Begin, First, Goto, Writing
  <2>2. QED
    BY <1>1, <1>4, <2>1 DEF Begin
<1>5. ASSUME NEW t \in Threads, Enter(t) PROVE ChainInv'
  <2>1. \A u \in Threads : Writing(u)' => Writing(u)
    BY <1>5, <1>p DEF Enter, Goto, Writing
  <2>2. QED
    BY <1>1, <1>5, <2>1 DEF Enter
<1>6. ASSUME NEW t \in Threads, SelectLast(t) PROVE ChainInv'
  <2>1. \A u \in Threads : u # t => ~ Writing(u)
    BY <1>6, Alone DEF SelectLast, Writing, Inside
  <2>2. \A u \in Threads : Writing(u)' => u = t
    BY <1>6, <1>p, <2>1 DEF SelectLast, Goto, Writing
  <2>3. last'[t] = LastHash(db'.audit)
    BY <1>6, <1>p DEF SelectLast
  <2>4. QED
    BY <1>6, <2>2, <2>3 DEF ChainInv, SelectLast
<1>7. ASSUME NEW t \in Threads, InsertAudit(t) PROVE ChainInv'
  <2> DEFINE r == [id |-> call[t].id, prev |-> last[t]]
  <2>1. Writing(t) /\ call[t].id \in Entries
    BY <1>7 DEF InsertAudit, Write, Writing, Control, CallIds
  <2>2. r \in Row /\ r.id = call[t].id /\ r.prev = LastHash(db.audit) /\ r.id \notin AuditIds(db.audit)
    BY <1>7, <1>p, <2>1 DEF InsertAudit, ChainInv, Row
  <2>3. db'.audit = Append(db.audit, r)
    BY <1>7, <1>p, <2>2, AuditTables DEF InsertAudit
  <2>4. IsChain(db'.audit)
    BY <1>p, <2>2, <2>3, Chaining DEF ChainInv, Tables
  <2>5. \A u \in Threads : ~ Writing(u)'
    <3>1. \A u \in Threads : u # t => ~ Writing(u)
      BY <2>1, Alone DEF Writing, Inside
    <3>2. QED
      BY <1>7, <1>p, <3>1 DEF InsertAudit, Write, Goto, Writing
  <2>6. QED
    BY <1>7, <2>4, <2>5 DEF ChainInv, InsertAudit, Write
<1>8. ASSUME NEW t \in Threads, SaveObject(t) \/ DeleteRow(t) PROVE ChainInv'
  <2>1. Kind(call[t].id) \in Kinds /\ "none" \in Kinds
    BY DEF Kind, Kinds
  <2>2. db'.audit = db.audit
    BY <1>8, <1>p, <2>1, PutTables DEF SaveObject, DeleteRow
  <2>3. QED
    BY <1>2, <1>8, <2>2 DEF SaveObject, DeleteRow, Write
<1>9. ASSUME NEW t \in Threads, SaveCycle(t) \/ InsertEvidence(t) \/ LinkArtifacts(t) PROVE ChainInv'
  <2>1. db'.audit = db.audit
    BY <1>9, <1>p DEF SaveCycle, InsertEvidence, LinkArtifacts, Tables
  <2>2. QED
    BY <1>2, <1>9, <2>1 DEF SaveCycle, InsertEvidence, LinkArtifacts, Write
<1>10. ASSUME NEW t \in Threads,
              InsertAuditTwice(t) \/ ReplayEvidence(t) \/ RefuseOverwrite(t) \/ RefuseOrphan(t)
              \/ RefuseLink(t)
      PROVE  ChainInv'
  BY <1>2, <1>10 DEF InsertAuditTwice, ReplayEvidence, RefuseOverwrite, RefuseOrphan,
     RefuseLink, Write
<1>11. ASSUME NEW t \in Threads, InsertMirror(t) \/ DeleteUnlocked(t) PROVE ChainInv'
  <2>1. {"none", "mirror"} \subseteq Kinds
    BY DEF Kinds
  <2>2. db'.audit = db.audit
    BY <1>11, <1>p, <2>1, PutTables DEF InsertMirror, DeleteUnlocked
  <2>3. QED
    BY <1>2, <1>11, <2>2 DEF InsertMirror, DeleteUnlocked
<1>12. ASSUME NEW t \in Threads, InsertEdge(t) PROVE ChainInv'
  <2>1. db'.audit = db.audit
    BY <1>12, <1>p DEF InsertEdge, Tables
  <2>2. CASE UNCHANGED pc
    <3>1. \A u \in Threads : Writing(u)' => Writing(u)
      BY <1>12, <2>2 DEF InsertEdge, Writing
    <3>2. QED
      BY <1>1, <1>12, <2>1, <3>1 DEF InsertEdge
  <2>3. CASE Goto(t, "exit")
    BY <1>2, <1>12, <2>1, <2>3 DEF InsertEdge
  <2>4. QED
    BY <1>12, <2>2, <2>3 DEF InsertEdge
<1>13. ASSUME NEW t \in Threads, Commit(t) PROVE ChainInv'
  <2>1. \A u \in Threads : Writing(u)' => Writing(u)
    BY <1>13, <1>p DEF Commit, After, Goto, Writing
  <2>2. QED
    BY <1>1, <1>13, <2>1 DEF Commit
<1>14. ASSUME NEW t \in Threads, EnterClosed(t) \/ CommitAgain(t) \/ CommitClosed(t)
              \/ CommitUnlocked(t) \/ CommitUnlockedFails(t) \/ StatementLocked(t)
       PROVE  ChainInv'
  BY <1>2, <1>14 DEF EnterClosed, CommitAgain, CommitClosed, CommitUnlocked,
     CommitUnlockedFails, StatementLocked
<1>15. CASE UNCHANGED vars
  <2>1. \A u \in Threads : Writing(u)' => Writing(u)
    BY <1>15 DEF vars, Writing
  <2>2. QED
    BY <1>1, <1>15, <2>1 DEF vars
<1>16. ASSUME NEW t \in Threads,
              Save(t) \/ Delete(t) \/ AppendArtifact(t) \/ AddLineageEdge(t) \/ Close(t)
       PROVE  ChainInv'
  BY <1>4, <1>16, Beginning
<1>17. ASSUME NEW t \in Threads, CommitBusy(t) \/ Rollback(t) \/ CloseConn(t) PROVE ChainInv'
  BY <1>3, <1>17, Rolling
<1>18. CASE Crash
  <2>1. Rolled
    BY <1>18 DEF Rolled, Crash, Inside
  <2>2. QED
    BY <1>3, <2>1
<1>19. QED
  BY <1>5, <1>6, <1>7, <1>8, <1>9, <1>10, <1>11, <1>12, <1>13, <1>14, <1>15, <1>16, <1>17, <1>18
     DEF Next, Step, Proceed, Statement

-----------------------------------------------------------------------------
(* The evidence graph *)

Joins(tables) == \A e \in tables.edges : e[1] \in tables.evidence /\ e[2] \in tables.evidence

\* The thread that has inserted a and not yet all of its edges.
Appending(t, a) == /\ pc[t] \in {"mirror", "edges", "raised"}
                   /\ call[t].op = "append_artifact" /\ call[t].id = a

\* On the connection, an artifact is whole or its thread is at work on it.
GraphInv ==
    /\ Joins(db) /\ Joins(disk)
    /\ \A a \in disk.evidence \ split : Whole(disk, a)
    /\ \A a \in db.evidence \ split : Whole(db, a) \/ \E t \in Threads : Appending(t, a)
    /\ \A t \in Threads : pc[t] \in {"mirror", "edges"} =>
          call[t].id \in db.evidence /\ Parents[call[t].id] \subseteq db.evidence

LEMMA GraphStep == Control /\ GraphInv /\ [Next]_vars => GraphInv'
<1> SUFFICES ASSUME Control, GraphInv, [Next]_vars PROVE GraphInv'
  OBVIOUS
<1>p. pc \in [Threads -> Steps] /\ call \in [Threads -> Calls \cup {NoCall}]
      /\ db \in Tables /\ disk \in Tables
  BY DEF Control, TypeOK
<1>q. Parents \in [Artifacts -> SUBSET Artifacts]
  BY RepositoryAssumption
\* The graph stays and so do the threads at work on it.
<1>1. ASSUME db'.evidence = db.evidence, db'.edges = db.edges, UNCHANGED <<disk, split>>,
             \A t \in Threads : pc[t] \in {"mirror", "edges", "raised"} /\ call[t].op = "append_artifact" =>
                pc'[t] \in {"mirror", "edges", "raised"} /\ call'[t] = call[t],
             \A t \in Threads : pc'[t] \in {"mirror", "edges"} =>
                pc[t] \in {"mirror", "edges"} /\ call'[t] = call[t]
      PROVE  GraphInv'
  <2>1. Joins(db)' /\ Joins(disk)'
    BY <1>1 DEF GraphInv, Joins
  <2>2. \A a \in disk'.evidence \ split' : Whole(disk', a)
    BY <1>1 DEF GraphInv, Whole
  <2>3. ASSUME NEW a \in db'.evidence \ split'
        PROVE  Whole(db', a) \/ \E t \in Threads : Appending(t, a)'
    BY <1>1, <2>3 DEF GraphInv, Whole, Appending
  <2>4. \A t \in Threads : pc'[t] \in {"mirror", "edges"} =>
          call'[t].id \in db'.evidence /\ Parents[call'[t].id] \subseteq db'.evidence
    BY <1>1 DEF GraphInv
  <2>5. QED
    BY <2>1, <2>2, <2>3, <2>4 DEF GraphInv
\* A step of t from and to statements that are not about the graph.
<1>2. ASSUME NEW t \in Threads, NEW step, Goto(t, step), UNCHANGED <<disk, split, call>>,
             db'.evidence = db.evidence, db'.edges = db.edges,
             pc[t] \notin {"mirror", "edges", "raised"}, step \notin {"mirror", "edges"}
      PROVE  GraphInv'
  <2>1. pc'[t] = step /\ \A u \in Threads : u # t => pc'[u] = pc[u]
    BY <1>2, <1>p DEF Goto
  <2>2. QED
    BY <1>1, <1>2, <2>1
<1>3. ASSUME Rolled, UNCHANGED split PROVE GraphInv'
  BY <1>3 DEF GraphInv, Rolled, Joins, Whole, Inside
<1>4. ASSUME NEW t \in Threads, NEW op, NEW id, NEW parent, Begin(t, op, id, parent)
      PROVE  GraphInv'
  <2>1. First(op) \in {"unlocked", "close", "enter"}
    BY DEF First
  <2>2. pc'[t] = First(op) /\ pc[t] = "idle"
        /\ \A u \in Threads : u # t => pc'[u] = pc[u] /\ call'[u] = call[u]
    BY <1>4, <1>p DEF Begin, Goto
  <2>3. UNCHANGED <<db, disk, split>>
    BY <1>4 DEF Begin, Ghosts
  <2>4. QED
    BY <1>1, <2>1, <2>2, <2>3
<1>5. ASSUME NEW t \in Threads, Enter(t) \/ EnterClosed(t) \/ SelectLast(t) PROVE GraphInv'
  BY <1>2, <1>5 DEF Enter, EnterClosed, SelectLast, Ghosts
<1>6. ASSUME NEW t \in Threads, SaveObject(t) \/ DeleteRow(t) \/ DeleteUnlocked(t) PROVE GraphInv'
  <2>1. Kind(call[t].id) \in Kinds /\ "none" \in Kinds
    BY DEF Kind, Kinds
  <2>2. db'.evidence = db.evidence /\ db'.edges = db.edges
    BY <1>6, <1>p, <2>1, PutTables DEF SaveObject, DeleteRow, DeleteUnlocked
  <2>3. QED
    BY <1>2, <1>6, <2>2 DEF SaveObject, DeleteRow, DeleteUnlocked, Write, Ghosts
<1>7. ASSUME NEW t \in Threads, SaveCycle(t) PROVE GraphInv'
  <2>1. db'.evidence = db.evidence /\ db'.edges = db.edges
    BY <1>7, <1>p DEF SaveCycle, Tables
  <2>2. QED
    BY <1>2, <1>7, <2>1 DEF SaveCycle, Write, Ghosts
<1>8. ASSUME NEW t \in Threads, InsertAudit(t) PROVE GraphInv'
  <2>1. db'.evidence = db.evidence /\ db'.edges = db.edges
    BY <1>8, <1>p DEF InsertAudit, Tables
  <2>2. QED
    BY <1>2, <1>8, <2>1 DEF InsertAudit, Write, Ghosts
<1>9. ASSUME NEW t \in Threads,
             InsertAuditTwice(t) \/ ReplayEvidence(t) \/ RefuseOverwrite(t) \/ RefuseOrphan(t)
             \/ RefuseLink(t)
      PROVE  GraphInv'
  BY <1>2, <1>9 DEF InsertAuditTwice, ReplayEvidence, RefuseOverwrite, RefuseOrphan,
     RefuseLink, Write, Ghosts
<1>10. ASSUME NEW t \in Threads, InsertEvidence(t) PROVE GraphInv'
  <2> DEFINE a == call[t].id
  <2>1. /\ a \in Artifacts /\ pc[t] = "write" /\ call[t].op = "append_artifact"
        /\ a \notin db.evidence /\ \A p \in Parents[a] : p \in db.evidence
        /\ pc' = [pc EXCEPT ![t] = "mirror"] /\ UNCHANGED <<call, disk, split>>
    BY <1>10 DEF InsertEvidence, Write, Goto, Appendable, Present, Control, CallIds, Ghosts
  <2>2. db'.evidence = db.evidence \cup {a} /\ db'.edges = db.edges
    BY <1>10, <1>p, <2>1, EvidenceTables DEF InsertEvidence
  <2>3. pc'[t] = "mirror" /\ \A u \in Threads : u # t => pc'[u] = pc[u] /\ pc[u] \notin Inside
    BY <1>p, <2>1, Alone DEF Inside
  <2>4. Joins(db)' /\ Joins(disk)'
    BY <2>1, <2>2 DEF GraphInv, Joins
  <2>5. ASSUME NEW b \in db'.evidence \ split'
        PROVE  Whole(db', b) \/ \E u \in Threads : Appending(u, b)'
    <3>1. CASE b = a
      BY <2>1, <2>3, <3>1 DEF Appending
    <3>2. CASE b # a
      <4>1. b \in db.evidence \ split
        BY <2>1, <2>2, <2>5, <3>2
      <4>2. ~ \E u \in Threads : Appending(u, b)
        BY <2>1, <2>3 DEF Appending, Inside
      <4>3. Whole(db, b)
        BY <4>1, <4>2 DEF GraphInv
      <4>4. QED
        BY <2>2, <4>3 DEF Whole
    <3>3. QED
      BY <3>1, <3>2
  <2>6. \A u \in Threads : pc'[u] \in {"mirror", "edges"} =>
          call'[u].id \in db'.evidence /\ Parents[call'[u].id] \subseteq db'.evidence
    BY <2>1, <2>2, <2>3 DEF Inside
  <2>7. \A b \in disk'.evidence \ split' : Whole(disk', b)
    BY <2>1 DEF GraphInv, Whole
  <2>8. QED
    BY <2>4, <2>5, <2>6, <2>7 DEF GraphInv
<1>11. ASSUME NEW t \in Threads, LinkArtifacts(t) PROVE GraphInv'
  <2>1. /\ call[t].id \in Artifacts /\ call[t].parent \in Artifacts
        /\ call[t].id \in db.evidence /\ call[t].parent \in db.evidence
        /\ pc[t] = "write" /\ pc' = [pc EXCEPT ![t] = "exit"] /\ UNCHANGED <<call, disk, split>>
    BY <1>11 DEF LinkArtifacts, Write, Goto, Present, Control, CallIds, Ghosts
  <2> DEFINE e == <<call[t].parent, call[t].id>>
  <2>2. db'.evidence = db.evidence /\ db'.edges = db.edges \cup {e}
    BY <1>11, <1>p, <2>1, EdgeTables DEF LinkArtifacts
  <2>e. e[1] \in db.evidence /\ e[2] \in db.evidence
    BY <2>1
  <2> HIDE DEF e
  <2>3. pc'[t] = "exit" /\ \A u \in Threads : u # t => pc'[u] = pc[u] /\ pc[u] \notin Inside
    BY <1>p, <2>1, Alone DEF Inside
  <2>4. Joins(db)' /\ Joins(disk)'
    BY <2>1, <2>2, <2>e DEF GraphInv, Joins
  <2>5. \A b \in db'.evidence \ split' : Whole(db', b)
    <3>1. \A b : ~ \E u \in Threads : Appending(u, b)
      BY <2>1, <2>3 DEF Appending, Inside
    <3>2. QED
      BY <2>1, <2>2, <3>1 DEF GraphInv, Whole
  <2>6. \A u \in Threads : pc'[u] \notin {"mirror", "edges"}
    BY <2>3 DEF Inside
  <2>7. \A b \in disk'.evidence \ split' : Whole(disk', b)
    BY <2>1 DEF GraphInv, Whole
  <2>8. QED
    BY <2>4, <2>5, <2>6, <2>7 DEF GraphInv
<1>12. ASSUME NEW t \in Threads, InsertMirror(t) PROVE GraphInv'
  <2>1. "mirror" \in Kinds
    BY DEF Kinds
  <2>2. db'.evidence = db.evidence /\ db'.edges = db.edges
    BY <1>12, <1>p, <2>1, PutTables DEF InsertMirror
  <2>3. /\ pc[t] = "mirror" /\ pc'[t] \in {"edges", "raised"} /\ UNCHANGED <<call, disk, split>>
        /\ \A u \in Threads : u # t => pc'[u] = pc[u]
    BY <1>12, <1>p DEF InsertMirror, Goto, Ghosts
  <2>4. QED
    BY <1>1, <2>2, <2>3
<1>13. ASSUME NEW t \in Threads, InsertEdge(t) PROVE GraphInv'
  <2> DEFINE a == call[t].id
  <2>1. /\ a \in Artifacts /\ pc[t] = "edges" /\ call[t].op = "append_artifact"
        /\ a \in db.evidence /\ Parents[a] \subseteq db.evidence /\ UNCHANGED <<call, disk, split>>
    BY <1>13 DEF InsertEdge, Control, CallIds, GraphInv, Ghosts
  <2>2. \A u \in Threads : u # t => pc[u] \notin Inside
    BY <2>1, Alone DEF Inside
  <2>3. CASE Unlinked(a) = {}
    <3>1. pc' = [pc EXCEPT ![t] = "exit"] /\ UNCHANGED db
      BY <1>13, <2>3 DEF InsertEdge, Goto
    <3>2. Whole(db, a)
      BY <2>1, <2>3 DEF Unlinked, Whole
    <3>3. \A b \in db'.evidence \ split' : Whole(db', b)
      BY <2>1, <2>2, <3>1, <3>2 DEF GraphInv, Appending, Inside
    <3>4. \A u \in Threads : pc'[u] \notin {"mirror", "edges"}
      BY <1>p, <2>2, <3>1 DEF Inside
    <3>5. Joins(db)' /\ Joins(disk)' /\ \A b \in disk'.evidence \ split' : Whole(disk', b)
      BY <2>1, <3>1 DEF GraphInv, Joins, Whole
    <3>6. QED
      BY <3>3, <3>4, <3>5 DEF GraphInv
  <2>4. CASE Unlinked(a) # {}
    <3>1. PICK p \in Unlinked(a) : db' = [db EXCEPT !.edges = @ \cup {<<p, a>>}]
      BY <1>13, <2>4 DEF InsertEdge
    <3>2. p \in Artifacts /\ p \in db.evidence
      BY <1>q, <2>1 DEF Unlinked
    <3> DEFINE e == <<p, a>>
    <3>3. db'.evidence = db.evidence /\ db'.edges = db.edges \cup {e}
      BY <1>p, <2>1, <3>1, <3>2, EdgeTables
    <3>e. e[1] \in db.evidence /\ e[2] \in db.evidence
      BY <2>1, <3>2
    <3> HIDE DEF e
    <3>4. UNCHANGED pc
      BY <1>13, <2>4 DEF InsertEdge
    <3>5. Joins(db)' /\ Joins(disk)' /\ \A b \in disk'.evidence \ split' : Whole(disk', b)
      BY <2>1, <3>3, <3>e DEF GraphInv, Joins, Whole
    <3>6. ASSUME NEW b \in db'.evidence \ split'
          PROVE  Whole(db', b) \/ \E u \in Threads : Appending(u, b)'
      BY <2>1, <3>3, <3>4, <3>6 DEF GraphInv, Whole, Appending
    <3>7. \A u \in Threads : pc'[u] \in {"mirror", "edges"} =>
            call'[u].id \in db'.evidence /\ Parents[call'[u].id] \subseteq db'.evidence
      BY <2>1, <3>3, <3>4 DEF GraphInv
    <3>8. QED
      BY <3>5, <3>6, <3>7 DEF GraphInv
  <2>5. QED
    BY <2>3, <2>4
<1>14. ASSUME NEW t \in Threads, Commit(t) PROVE GraphInv'
  <2>1. pc[t] = "exit" /\ disk' = db /\ UNCHANGED <<db, split>>
    BY <1>14 DEF Commit
  <2>2. \A u \in Threads : u # t => pc[u] \notin Inside
    BY <2>1, Alone DEF Inside
  <2>3. \A u \in Threads : pc'[u] \notin {"mirror", "edges"}
    BY <1>14, <1>p, <2>2 DEF Commit, After, Goto, Inside
  <2>4. \A b : ~ \E u \in Threads : Appending(u, b)
    BY <2>1, <2>2 DEF Appending, Inside
  <2>5. \A b \in db.evidence \ split : Whole(db, b)
    BY <2>4 DEF GraphInv
  <2>6. QED
    BY <2>1, <2>3, <2>5 DEF GraphInv, Joins
<1>15. ASSUME NEW t \in Threads, CommitUnlocked(t) PROVE GraphInv'
  <2>1. /\ pc[t] = "commit" /\ disk' = db /\ UNCHANGED <<db, call>> /\ split' = split \cup Halves
        /\ pc' = [pc EXCEPT ![t] = "idle"]
    BY <1>15 DEF CommitUnlocked, Goto
  <2>2. \A b \in db.evidence \ split' : Whole(db, b)
    BY <2>1 DEF Halves
  <2>3. \A u \in Threads : pc'[u] \in {"mirror", "edges"} => pc[u] = pc'[u]
    BY <1>p, <2>1
  <2>4. QED
    BY <2>1, <2>2, <2>3 DEF GraphInv, Joins
<1>16. ASSUME NEW t \in Threads,
              CommitAgain(t) \/ CommitClosed(t) \/ CommitUnlockedFails(t) \/ StatementLocked(t)
       PROVE  GraphInv'
  BY <1>2, <1>16 DEF CommitAgain, CommitClosed, CommitUnlockedFails, StatementLocked, Ghosts
<1>17. ASSUME NEW t \in Threads,
              Save(t) \/ Delete(t) \/ AppendArtifact(t) \/ AddLineageEdge(t) \/ Close(t)
       PROVE  GraphInv'
  BY <1>4, <1>17, Beginning
<1>18. ASSUME NEW t \in Threads, CommitBusy(t) \/ Rollback(t) \/ CloseConn(t) PROVE GraphInv'
  <2>1. Rolled /\ UNCHANGED split
    BY <1>18, Rolling DEF CommitBusy, Rollback, CloseConn, Ghosts
  <2>2. QED
    BY <1>3, <2>1
<1>19. CASE Crash
  <2>1. Rolled /\ UNCHANGED split
    BY <1>19 DEF Rolled, Crash, Inside, Ghosts
  <2>2. QED
    BY <1>3, <2>1
<1>20. CASE UNCHANGED vars
  BY <1>1, <1>20 DEF vars
<1>21. QED
  BY <1>5, <1>6, <1>7, <1>8, <1>9, <1>10, <1>11, <1>12, <1>13, <1>14, <1>15, <1>16, <1>17, <1>18,
     <1>19, <1>20 DEF Next, Step, Proceed, Statement

-----------------------------------------------------------------------------
(* What callers were told *)

Grown == /\ disk.evidence \subseteq db.evidence /\ disk.cycles \subseteq db.cycles
         /\ AuditIds(disk.audit) \subseteq AuditIds(db.audit)

OnDisk(x) == x \in disk.evidence \cup disk.cycles \cup AuditIds(disk.audit)

\* A transaction about to commit has the row that its call adds.
Settled(t) == /\ pc[t] # "retry"
              /\ pc[t] = "exit" =>
                    Told(t) \subseteq db.evidence \cup db.cycles \cup AuditIds(db.audit)

StoreInv == /\ Grown
            /\ faults = MaxFaults => /\ \A x \in stored : OnDisk(x)
                                     /\ \A t \in Threads : Settled(t)

LEMMA AppendIds ==
    ASSUME NEW rows \in Seq(Row), NEW r \in Row
    PROVE  AuditIds(Append(rows, r)) = AuditIds(rows) \cup {r.id}
<1> DEFINE n == Len(rows)
           more == Append(rows, r)
<1>1. /\ n \in Nat /\ DOMAIN rows = 1 .. n /\ DOMAIN more = 1 .. (n + 1)
      /\ \A i \in 1 .. n : more[i] = rows[i]
      /\ more[n + 1] = r
  OBVIOUS
<1> HIDE DEF n, more
<1>2. ASSUME NEW i \in 1 .. (n + 1) PROVE more[i].id \in AuditIds(rows) \cup {r.id}
  <2>1. i \in 1 .. n \/ i = n + 1
    BY <1>1
  <2>2. QED
    BY <1>1, <2>1 DEF AuditIds
<1>3. AuditIds(rows) \cup {r.id} \subseteq AuditIds(more)
  <2>1. \A i \in 1 .. n : i \in 1 .. (n + 1)
    BY <1>1
  <2>2. n + 1 \in 1 .. (n + 1)
    BY <1>1
  <2>3. QED
    BY <1>1, <2>1, <2>2 DEF AuditIds
<1>4. AuditIds(more) \subseteq AuditIds(rows) \cup {r.id}
  BY <1>1, <1>2 DEF AuditIds
<1>5. QED
  BY <1>3, <1>4 DEF more

LEMMA StoreStep == Control /\ GraphInv /\ StoreInv /\ [Next]_vars => StoreInv'
<1> SUFFICES ASSUME Control, GraphInv, StoreInv, [Next]_vars PROVE StoreInv'
  OBVIOUS
<1> DEFINE Rows == db.evidence \cup db.cycles \cup AuditIds(db.audit)
<1>p. pc \in [Threads -> Steps] /\ call \in [Threads -> Calls \cup {NoCall}]
      /\ db \in Tables /\ disk \in Tables /\ faults \in 0 .. MaxFaults /\ MaxFaults \in Nat
  BY RepositoryAssumption DEF Control, TypeOK
\* The open transaction may add rows; nothing is committed or rolled back.
<1>1. ASSUME db.evidence \subseteq db'.evidence, db.cycles \subseteq db'.cycles,
             AuditIds(db.audit) \subseteq AuditIds(db'.audit), UNCHANGED <<disk, stored>>,
             faults' = MaxFaults => faults = MaxFaults /\ \A t \in Threads : Settled(t)'
      PROVE  StoreInv'
  BY <1>1 DEF StoreInv, Grown, OnDisk
\* A step of t that keeps its call, to a place where nothing is claimed of it or
\* with its row written.
<1>2. ASSUME NEW t \in Threads, NEW step, Goto(t, step), UNCHANGED <<call, disk, stored, faults>>,
             db.evidence \subseteq db'.evidence, db.cycles \subseteq db'.cycles,
             AuditIds(db.audit) \subseteq AuditIds(db'.audit), step # "retry",
             step = "exit" => Told(t) \subseteq Rows' \/ faults # MaxFaults
      PROVE  StoreInv'
  <2>1. pc'[t] = step /\ \A u \in Threads : u # t => pc'[u] = pc[u]
    BY <1>2, <1>p DEF Goto
  <2>2. \A u \in Threads : Told(u)' = Told(u)
    BY <1>2 DEF Told
  <2>3. ASSUME faults' = MaxFaults, NEW u \in Threads PROVE Settled(u)'
    <3>1. faults = MaxFaults /\ Settled(u)
      BY <1>2, <2>3 DEF StoreInv
    <3>2. CASE u = t
      BY <1>2, <2>1, <2>2, <3>1, <3>2 DEF Settled
    <3>3. CASE u # t
      BY <1>2, <2>1, <2>2, <3>1, <3>3 DEF Settled
    <3>4. QED
      BY <3>2, <3>3
  <2>4. QED
    BY <1>1, <1>2, <2>3
\* A step that rolls back: no thread is left inside.
<1>3. ASSUME Rolled, UNCHANGED stored,
             faults' = MaxFaults => faults = MaxFaults /\
                 \A u \in Threads : pc'[u] = "retry" => pc[u] = "retry"
      PROVE  StoreInv'
  <2>1. ASSUME faults' = MaxFaults, NEW u \in Threads PROVE Settled(u)'
    BY <1>3, <2>1 DEF StoreInv, Settled, Rolled, Inside
  <2>2. QED
    BY <1>3, <2>1 DEF StoreInv, Grown, OnDisk, Rolled
<1>4. ASSUME NEW t \in Threads, NEW op, NEW id, NEW parent, Begin(t, op, id, parent)
      PROVE  StoreInv'
  <2>1. First(op) \in {"unlocked", "close", "enter"}
    BY DEF First
  <2>2. /\ pc'[t] = First(op) /\ UNCHANGED <<db, disk, stored, faults>>
        /\ \A u \in Threads : u # t => pc'[u] = pc[u] /\ call'[u] = call[u]
    BY <1>4, <1>p DEF Begin, Goto, Ghosts
  <2>3. ASSUME faults' = MaxFaults, NEW u \in Threads PROVE Settled(u)'
    <3>1. CASE u = t
      BY <2>1, <2>2, <3>1 DEF Settled
    <3>2. CASE u # t
      <4>1. Told(u)' = Told(u)
        BY <2>2, <3>2 DEF Told
      <4>2. QED
        BY <2>2, <2>3, <3>2, <4>1 DEF StoreInv, Settled
    <3>3. QED
      BY <3>1, <3>2
  <2>4. QED
    BY <1>1, <2>2, <2>3
<1>5. ASSUME NEW t \in Threads,
             \/ Enter(t) \/ EnterClosed(t) \/ SelectLast(t) \/ InsertAuditTwice(t)
             \/ RefuseOverwrite(t) \/ RefuseOrphan(t) \/ RefuseLink(t) \/ CommitClosed(t)
      PROVE  StoreInv'
  BY <1>2, <1>5 DEF Enter, EnterClosed, SelectLast, InsertAuditTwice, RefuseOverwrite,
     RefuseOrphan, RefuseLink, CommitClosed, Write, Ghosts
<1>6. ASSUME NEW t \in Threads,
             SaveObject(t) \/ DeleteRow(t) \/ DeleteUnlocked(t) \/ InsertMirror(t)
      PROVE  StoreInv'
  <2>1. Kind(call[t].id) \in Kinds /\ {"none", "mirror"} \subseteq Kinds
    BY DEF Kind, Kinds
  <2>2. db'.evidence = db.evidence /\ db'.cycles = db.cycles /\ db'.audit = db.audit
    BY <1>6, <1>p, <2>1, PutTables DEF SaveObject, DeleteRow, DeleteUnlocked, InsertMirror
  <2>3. SaveObject(t) \/ DeleteRow(t) => Told(t) = {}
    BY DEF SaveObject, DeleteRow, Write, Told, TwoParts
  <2>4. QED
    BY <1>2, <1>6, <2>2, <2>3 DEF SaveObject, DeleteRow, DeleteUnlocked, InsertMirror,
       Write, Ghosts
<1>7. ASSUME NEW t \in Threads, SaveCycle(t) PROVE StoreInv'
  <2>1. call[t].op = "save_cycle" /\ call[t].id \in Cycles
    BY <1>7 DEF SaveCycle, Write, Control, CallIds
  <2>2. /\ db'.cycles = db.cycles \cup {call[t].id}
        /\ db'.audit = db.audit /\ db'.evidence = db.evidence
    BY <1>7, <1>p, <2>1, CycleTables DEF SaveCycle
  <2>3. Told(t) \subseteq Rows'
    BY <2>1, <2>2 DEF Told
  <2>4. QED
    BY <1>2, <1>7, <2>2, <2>3 DEF SaveCycle, Write, Ghosts
<1>8. ASSUME NEW t \in Threads, InsertAudit(t) PROVE StoreInv'
  <2> DEFINE r == [id |-> call[t].id, prev |-> last[t]]
  <2>1. call[t].op = "save_audit_entry" /\ call[t].id \in Entries
    BY <1>8 DEF InsertAudit, Write, Control, CallIds
  <2>2. r \in Row /\ r.id = call[t].id
    BY <2>1 DEF Row, Control, TypeOK
  <2>3. /\ db'.audit = Append(db.audit, r)
        /\ db'.cycles = db.cycles /\ db'.evidence = db.evidence
    BY <1>8, <1>p, <2>2, AuditTables DEF InsertAudit
  <2>4. AuditIds(db'.audit) = AuditIds(db.audit) \cup {call[t].id}
    BY <1>p, <2>2, <2>3, AppendIds DEF Tables
  <2>5. Told(t) \subseteq Rows'
    BY <2>4 DEF Told
  <2>6. QED
    BY <1>2, <1>8, <2>3, <2>4, <2>5 DEF InsertAudit, Write, Ghosts
<1>9. ASSUME NEW t \in Threads, InsertEvidence(t) PROVE StoreInv'
  <2>1. call[t].id \in Artifacts
    BY <1>9 DEF InsertEvidence, Write, Control, CallIds
  <2>2. /\ db'.evidence = db.evidence \cup {call[t].id}
        /\ db'.audit = db.audit /\ db'.cycles = db.cycles
    BY <1>9, <1>p, <2>1, EvidenceTables DEF InsertEvidence
  <2>3. QED
    BY <1>2, <1>9, <2>2 DEF InsertEvidence, Write, Ghosts
<1>10. ASSUME NEW t \in Threads, LinkArtifacts(t) PROVE StoreInv'
  <2>1. /\ call[t].op = "add_lineage_edge"
        /\ call[t].id \in Artifacts /\ call[t].parent \in Artifacts
    BY <1>10 DEF LinkArtifacts, Write, Control, CallIds
  <2>2. db'.evidence = db.evidence /\ db'.audit = db.audit /\ db'.cycles = db.cycles
    BY <1>10, <1>p, <2>1, EdgeTables DEF LinkArtifacts
  <2>3. Told(t) = {}
    BY <2>1 DEF Told, TwoParts
  <2>4. QED
    BY <1>2, <1>10, <2>2, <2>3 DEF LinkArtifacts, Write, Ghosts
<1>11. ASSUME NEW t \in Threads, ReplayEvidence(t) PROVE StoreInv'
  <2>1. Told(t) \subseteq Rows'
    BY <1>11 DEF ReplayEvidence, Write, Present, Told
  <2>2. QED
    BY <1>2, <1>11, <2>1 DEF ReplayEvidence, Write, Ghosts
<1>12. ASSUME NEW t \in Threads, InsertEdge(t) PROVE StoreInv'
  <2>1. call[t].id \in Artifacts /\ call[t].id \in db.evidence
    BY <1>12 DEF InsertEdge, Control, CallIds, GraphInv
  <2>2. CASE Goto(t, "exit") /\ UNCHANGED db
    <3>1. Told(t) \subseteq Rows'
      BY <2>1, <2>2 DEF Told
    <3>2. QED
      BY <1>2, <1>12, <2>2, <3>1 DEF InsertEdge, Ghosts
  <2>3. CASE /\ UNCHANGED pc
             /\ \E p \in Unlinked(call[t].id) : db' = [db EXCEPT !.edges = @ \cup {<<p, call[t].id>>}]
    <3>1. PICK p \in Unlinked(call[t].id) : db' = [db EXCEPT !.edges = @ \cup {<<p, call[t].id>>}]
      BY <2>3
    <3>2. p \in Artifacts
      BY <2>1, RepositoryAssumption DEF Unlinked
    <3>3. db'.evidence = db.evidence /\ db'.audit = db.audit /\ db'.cycles = db.cycles
      BY <1>p, <2>1, <3>1, <3>2, EdgeTables
    <3>4. UNCHANGED <<disk, stored, call, faults>>
      BY <1>12 DEF InsertEdge, Ghosts
    <3>5. ASSUME faults' = MaxFaults, NEW u \in Threads PROVE Settled(u)'
      BY <2>3, <3>3, <3>4, <3>5 DEF StoreInv, Settled, Told
    <3>6. QED
      BY <1>1, <3>3, <3>4, <3>5
  <2>4. QED
    BY <1>12, <2>2, <2>3 DEF InsertEdge
<1>13. ASSUME NEW t \in Threads, Commit(t) PROVE StoreInv'
  <2>1. /\ pc[t] = "exit" /\ disk' = db /\ UNCHANGED <<db, faults>>
        /\ stored' = stored \cup Told(t) /\ After(t)
    BY <1>13 DEF Commit
  <2>2. pc'[t] \in {"enter", "idle"}
        /\ \A u \in Threads : u # t => pc'[u] = pc[u] /\ call'[u] = call[u]
    BY <1>p, <2>1 DEF After, Goto
  <2>3. ASSUME faults' = MaxFaults, NEW x \in stored' PROVE OnDisk(x)'
    <3>1. faults = MaxFaults /\ Settled(t)
      BY <2>1, <2>3 DEF StoreInv
    <3>2. CASE x \in stored
      BY <2>1, <3>1, <3>2 DEF StoreInv, OnDisk, Grown
    <3>3. CASE x \in Told(t)
      BY <2>1, <3>1, <3>3 DEF Settled, OnDisk
    <3>4. QED
      BY <2>1, <3>2, <3>3
  <2>4. ASSUME faults' = MaxFaults, NEW u \in Threads PROVE Settled(u)'
    <3>1. CASE u = t
      BY <2>2, <3>1 DEF Settled
    <3>2. CASE u # t
      <4>1. Told(u)' = Told(u)
        BY <2>2, <3>2 DEF Told
      <4>2. QED
        BY <2>1, <2>2, <2>4, <3>2, <4>1 DEF StoreInv, Settled
    <3>3. QED
      BY <3>1, <3>2
  <2>5. QED
    BY <2>1, <2>3, <2>4 DEF StoreInv, Grown
<1>14. ASSUME NEW t \in Threads, CommitUnlocked(t) PROVE StoreInv'
  <2>1. /\ disk' = db /\ UNCHANGED <<db, call, stored, faults>>
        /\ pc' = [pc EXCEPT ![t] = "idle"]
    BY <1>14 DEF CommitUnlocked, Goto
  <2>2. ASSUME faults' = MaxFaults, NEW u \in Threads PROVE Settled(u)'
    <3>1. Settled(u) /\ Told(u)' = Told(u) /\ pc'[u] \in {pc[u], "idle"}
      BY <1>p, <2>1, <2>2 DEF StoreInv, Told
    <3>2. QED
      BY <2>1, <3>1 DEF Settled
  <2>3. QED
    BY <2>1, <2>2 DEF StoreInv, Grown, OnDisk
\* A fault: nothing is claimed any more.
<1>15. ASSUME NEW t \in Threads, StatementLocked(t) PROVE StoreInv'
  <2>1. faults' # MaxFaults /\ UNCHANGED <<db, disk, stored>>
    BY <1>15, <1>p DEF StatementLocked, Ghosts
  <2>2. QED
    BY <1>1, <2>1
<1>16. ASSUME NEW t \in Threads, CommitUnlockedFails(t) PROVE StoreInv'
  <2>1. CASE UNCHANGED faults
    BY <1>2, <1>16, <2>1 DEF CommitUnlockedFails, Ghosts
  <2>2. CASE faults > 0 /\ faults' = faults - 1
    <3>1. faults' # MaxFaults /\ UNCHANGED <<db, disk, stored>>
      BY <1>16, <1>p, <2>2 DEF CommitUnlockedFails, Ghosts
    <3>2. QED
      BY <1>1, <3>1
  <2>3. QED
    BY <1>16, <2>1, <2>2 DEF CommitUnlockedFails
<1>17. ASSUME NEW t \in Threads, CommitAgain(t) PROVE StoreInv'
  <2>1. faults # MaxFaults
    BY <1>17 DEF CommitAgain, StoreInv, Settled
  <2>2. QED
    BY <1>2, <1>17, <2>1 DEF CommitAgain, Ghosts
<1>18. ASSUME NEW t \in Threads, CommitBusy(t) PROVE StoreInv'
  <2>1. Rolled
    BY <1>18, Rolling
  <2>2. UNCHANGED stored /\ faults' # MaxFaults
    BY <1>18, <1>p DEF CommitBusy
  <2>3. QED
    BY <1>3, <2>1, <2>2
<1>19. ASSUME NEW t \in Threads, Rollback(t) \/ CloseConn(t) PROVE StoreInv'
  <2>1. Rolled /\ UNCHANGED <<stored, faults>> /\ pc' = [pc EXCEPT ![t] = "idle"]
    BY <1>19, Rolling DEF Rollback, CloseConn, Goto, Ghosts
  <2>2. \A u \in Threads : pc'[u] = "retry" => pc[u] = "retry"
    BY <1>p, <2>1
  <2>3. QED
    BY <1>3, <2>1, <2>2
<1>20. CASE Crash
  <2>1. Rolled /\ UNCHANGED stored /\ faults' # MaxFaults
    BY <1>20, <1>p DEF Rolled, Crash, Inside, Ghosts
  <2>2. QED
    BY <1>3, <2>1
<1>21. ASSUME NEW t \in Threads,
              Save(t) \/ Delete(t) \/ AppendArtifact(t) \/ AddLineageEdge(t) \/ Close(t)
       PROVE  StoreInv'
  BY <1>4, <1>21, Beginning
<1>22. CASE UNCHANGED vars
  BY <1>22 DEF vars, StoreInv, Grown, OnDisk, Settled, Told
<1>23. QED
  BY <1>5, <1>6, <1>7, <1>8, <1>9, <1>10, <1>11, <1>12, <1>13, <1>14, <1>15, <1>16, <1>17, <1>18,
     <1>19, <1>20, <1>21, <1>22 DEF Next, Step, Proceed, Statement

-----------------------------------------------------------------------------
(* The history.  What the connection sees and what is on disk differ by the     *)
(* record of the one call that is inside a transaction.                         *)

Clean == /\ db.audit = disk.audit /\ db.cycles = disk.cycles
         /\ db.evidence = disk.evidence /\ db.edges = disk.edges

NewEntry(e) == /\ e \notin AuditIds(disk.audit)
               /\ db.audit = Append(disk.audit, [id |-> e, prev |-> LastHash(disk.audit)])
               /\ db.cycles = disk.cycles
               /\ db.evidence = disk.evidence /\ db.edges = disk.edges

NewCycle(c) == /\ db.cycles = disk.cycles \cup {c}
               /\ db.audit = disk.audit
               /\ db.evidence = disk.evidence /\ db.edges = disk.edges

NewEdge(p, c) == /\ p \in disk.evidence /\ c \in disk.evidence
                 /\ db.edges = disk.edges \cup ({p} \X {c})
                 /\ db.audit = disk.audit /\ db.cycles = disk.cycles
                 /\ db.evidence = disk.evidence

\* An artifact and some of its edges; delete_object may have committed a part.
Growing(a) == /\ db.evidence = disk.evidence \cup {a}
              /\ Parents[a] \subseteq disk.evidence
              /\ \E from \in SUBSET Parents[a] : db.edges = disk.edges \cup (from \X {a})
              /\ db.audit = disk.audit /\ db.cycles = disk.cycles

OneRecord == \/ Clean
             \/ \E e \in Entries : NewEntry(e)
             \/ \E c \in Cycles : NewCycle(c)
             \/ \E a \in Artifacts : Growing(a)
             \/ \E p, c \in Artifacts : NewEdge(p, c)

\* The statements after which a transaction may have rows that are not on disk.
Written == {"mirror", "edges", "raised", "exit"}

Pending == /\ OneRecord
           /\ (\A t \in Threads : pc[t] \notin Written) => Clean
           /\ \A t \in Threads : pc[t] \in {"mirror", "edges"} => Growing(call[t].id)
           /\ closed => Clean /\ \A t \in Threads : pc[t] \in Inside => pc[t] = "exit"

\* The four tables of the history.
SameHistory == /\ db'.audit = db.audit /\ db'.cycles = db.cycles
               /\ db'.evidence = db.evidence /\ db'.edges = db.edges

\* Only t moves.
Moves(t) == \A u \in Threads : u # t => pc'[u] = pc[u] /\ call'[u] = call[u]

LEMMA GotoMoves ==
    ASSUME Control, NEW t \in Threads, NEW step, Goto(t, step), UNCHANGED call
    PROVE  Moves(t) /\ pc'[t] = step /\ call'[t] = call[t]
BY DEF Control, TypeOK, Goto, Moves

\* Before a transaction writes, the connection sees what is on disk.
LEMMA CleanAtWrite ==
    ASSUME Control, Pending, NEW t \in Threads, pc[t] \in {"select", "write"}
    PROVE  Clean /\ ~closed /\ \A u \in Threads : u # t => pc[u] \notin Inside
<1>1. pc[t] \in Inside /\ pc[t] \notin Written /\ pc[t] # "exit"
  BY DEF Inside, Written
<1>2. \A u \in Threads : u # t => pc[u] \notin Inside
  BY <1>1, Alone
<1>3. \A u \in Threads : pc[u] \notin Written
  BY <1>1, <1>2 DEF Written, Inside
<1>4. QED
  BY <1>1, <1>2, <1>3 DEF Pending

\* A step of t that leaves the history alone.
LEMMA QuietStep ==
    ASSUME Pending, NEW t \in Threads, SameHistory, UNCHANGED <<disk, closed>>, Moves(t),
           pc[t] \notin Written \/ Clean \/ pc'[t] \in Written,
           pc'[t] \in {"mirror", "edges"} => Growing(call'[t].id),
           closed => pc'[t] \notin Inside \/ pc'[t] = "exit"
    PROVE  Pending'
<1>1. /\ Clean <=> Clean'
      /\ OneRecord => OneRecord'
      /\ \A a : Growing(a) => Growing(a)'
  <2>1. Clean <=> Clean'
    BY DEF SameHistory, Clean
  <2>2. ASSUME NEW a, Growing(a) PROVE Growing(a)'
    BY <2>2 DEF SameHistory, Growing
  <2>3. ASSUME NEW e, NewEntry(e) PROVE NewEntry(e)'
    BY <2>3 DEF SameHistory, NewEntry
  <2>4. /\ \A c : NewCycle(c) => NewCycle(c)'
        /\ \A p, c : NewEdge(p, c) => NewEdge(p, c)'
    BY DEF SameHistory, NewCycle, NewEdge
  <2>5. QED
    BY <2>1, <2>2, <2>3, <2>4 DEF OneRecord
<1>2. (\A u \in Threads : pc'[u] \notin Written) => Clean
  BY DEF Moves, Pending
<1>3. \A u \in Threads : pc'[u] \in {"mirror", "edges"} => Growing(call'[u].id)
  BY DEF Moves, Pending
<1>4. closed' => Clean /\ \A u \in Threads : pc'[u] \in Inside => pc'[u] = "exit"
  BY DEF Moves, Pending
<1>5. QED
  BY <1>1, <1>2, <1>3, <1>4 DEF Pending

\* A statement of t that writes a record.
LEMMA RecordStep ==
    ASSUME Pending, NEW t \in Threads, Moves(t), \A u \in Threads : u # t => pc[u] \notin Inside,
           OneRecord', ~closed', pc'[t] \in Written,
           pc'[t] \in {"mirror", "edges"} => Growing(call[t].id)'
    PROVE  Pending'
<1>1. \A u \in Threads : u # t => pc'[u] \notin Inside
  BY DEF Moves
<1>2. \A u \in Threads : pc'[u] \in {"mirror", "edges"} => Growing(call[u].id)'
  BY <1>1 DEF Inside
<1>3. QED
  BY <1>2 DEF Pending

\* A step after which the connection sees what is on disk.
LEMMA CleanStep ==
    ASSUME Clean', \A u \in Threads : pc'[u] \in {"mirror", "edges"} => Growing(call[u].id)',
           closed' => \A u \in Threads : pc'[u] \in Inside => pc'[u] = "exit"
    PROVE  Pending'
BY DEF Pending, OneRecord

LEMMA PendingStep == Control /\ ChainInv /\ GraphInv /\ Pending /\ [Next]_vars => Pending'
<1> SUFFICES ASSUME Control, ChainInv, GraphInv, Pending, [Next]_vars PROVE Pending'
  OBVIOUS
<1>p. pc \in [Threads -> Steps] /\ call \in [Threads -> Calls \cup {NoCall}]
      /\ db \in Tables /\ disk \in Tables
  BY DEF Control, TypeOK
<1>q. Parents \in [Artifacts -> SUBSET Artifacts]
  BY RepositoryAssumption
<1>1. ASSUME NEW t \in Threads, NEW op, NEW id, NEW parent, Begin(t, op, id, parent)
      PROVE  Pending'
  <2>1. /\ SameHistory /\ UNCHANGED <<disk, closed>> /\ Moves(t) /\ pc[t] = "idle"
        /\ pc'[t] \in {"unlocked", "close", "enter"}
    BY <1>1, <1>p DEF Begin, Goto, First, SameHistory, Moves
  <2>2. QED
    BY <2>1, QuietStep DEF Written, Inside
<1>2. ASSUME NEW t \in Threads, Enter(t) PROVE Pending'
  <2>1. /\ SameHistory /\ UNCHANGED <<disk, closed>> /\ ~closed /\ pc[t] = "enter"
        /\ UNCHANGED call
        /\ Goto(t, "select") \/ Goto(t, "write")
    BY <1>2 DEF Enter, SameHistory
  <2>2. Moves(t) /\ pc'[t] \in {"select", "write"}
    BY <2>1, GotoMoves
  <2>3. QED
    BY <2>1, <2>2, QuietStep DEF Written
<1>3. ASSUME NEW t \in Threads,
             \/ EnterClosed(t) \/ CommitAgain(t) \/ CommitUnlockedFails(t) \/ DeleteUnlocked(t)
             \/ (StatementLocked(t) /\ pc[t] = "unlocked")
      PROVE  Pending'
  <2>1. SameHistory
    <3>1. "none" \in Kinds
      BY DEF Kinds
    <3>2. QED
      BY <1>3, <1>p, <3>1, PutTables DEF EnterClosed, CommitAgain, CommitUnlockedFails,
         DeleteUnlocked, StatementLocked, SameHistory
  <2>2. /\ UNCHANGED <<disk, closed, call>>
        /\ pc[t] \in {"enter", "retry", "commit", "unlocked"}
        /\ Goto(t, "idle") \/ Goto(t, "exit") \/ Goto(t, "commit")
    BY <1>3 DEF EnterClosed, CommitAgain, CommitUnlockedFails, DeleteUnlocked,
       StatementLocked
  <2>3. Moves(t) /\ pc'[t] \in {"idle", "exit", "commit"}
    BY <2>2, GotoMoves
  <2>4. QED
    BY <2>1, <2>2, <2>3, QuietStep DEF Written, Inside
<1>4. ASSUME NEW t \in Threads, SelectLast(t) PROVE Pending'
  <2>1. SameHistory /\ UNCHANGED <<disk, closed>> /\ Moves(t) /\ pc'[t] = "write"
    BY <1>4, GotoMoves DEF SelectLast, SameHistory
  <2>2. ~closed /\ pc[t] \notin Written
    BY <1>4, CleanAtWrite DEF SelectLast, Written
  <2>3. QED
    BY <2>1, <2>2, QuietStep
<1>5. ASSUME NEW t \in Threads,
             \/ SaveObject(t) \/ DeleteRow(t) \/ InsertAuditTwice(t)
             \/ ReplayEvidence(t) \/ RefuseOverwrite(t) \/ RefuseOrphan(t) \/ RefuseLink(t)
             \/ (StatementLocked(t) /\ pc[t] = "write")
      PROVE  Pending'
  <2>1. SameHistory
    <3>1. Kind(call[t].id) \in Kinds /\ "none" \in Kinds
      BY DEF Kind, Kinds
    <3>2. QED
      BY <1>5, <1>p, <3>1, PutTables DEF SaveObject, DeleteRow, InsertAuditTwice,
         ReplayEvidence, RefuseOverwrite, RefuseOrphan, RefuseLink, StatementLocked,
         SameHistory
  <2>2. /\ pc[t] = "write" /\ UNCHANGED <<disk, closed, call>>
        /\ Goto(t, "exit") \/ Goto(t, "raised")
    BY <1>5 DEF SaveObject, DeleteRow, InsertAuditTwice, ReplayEvidence, RefuseOverwrite,
       RefuseOrphan, RefuseLink, StatementLocked, Write
  <2>3. Moves(t) /\ pc'[t] \in {"exit", "raised"}
    BY <2>2, GotoMoves
  <2>4. ~closed
    BY <2>2, CleanAtWrite
  <2>5. QED
    BY <2>1, <2>2, <2>3, <2>4, QuietStep DEF Written
<1>6. ASSUME NEW t \in Threads, InsertMirror(t) PROVE Pending'
  <2>1. SameHistory
    <3>1. "mirror" \in Kinds
      BY DEF Kinds
    <3>2. QED
      BY <1>6, <1>p, <3>1, PutTables DEF InsertMirror, SameHistory
  <2>2. /\ pc[t] = "mirror" /\ UNCHANGED <<disk, closed, call>>
        /\ Goto(t, "edges") \/ Goto(t, "raised")
    BY <1>6 DEF InsertMirror
  <2>3. Moves(t) /\ pc'[t] \in {"edges", "raised"} /\ call'[t] = call[t]
    BY <2>2, GotoMoves
  <2>4. ~closed /\ Growing(call'[t].id)
    BY <2>2, <2>3 DEF Pending, Inside
  <2>5. QED
    BY <2>1, <2>2, <2>3, <2>4, QuietStep DEF Written
<1>7. ASSUME NEW t \in Threads, InsertEdge(t) PROVE Pending'
  <2> DEFINE a == call[t].id
  <2>1. /\ pc[t] = "edges" /\ ~closed /\ UNCHANGED <<disk, closed, call>>
        /\ a \in Artifacts /\ Growing(a)
    BY <1>7 DEF InsertEdge, Pending, Inside, Control, CallIds
  <2>2. CASE Goto(t, "exit") /\ UNCHANGED db
    <3>1. Moves(t) /\ pc'[t] = "exit"
      BY <2>1, <2>2, GotoMoves
    <3>2. QED
      BY <2>1, <2>2, <3>1, QuietStep DEF Written, SameHistory
  <2>3. CASE UNCHANGED pc /\ \E p \in Unlinked(a) :
                db' = [db EXCEPT !.edges = @ \cup {<<p, a>>}]
    <3>1. PICK p \in Unlinked(a) : db' = [db EXCEPT !.edges = @ \cup {<<p, a>>}]
      BY <2>3
    <3>2. p \in Parents[a] /\ p \in Artifacts
      BY <1>q, <2>1, <3>1 DEF Unlinked
    <3>3. /\ db'.edges = db.edges \cup {<<p, a>>} /\ db'.evidence = db.evidence
          /\ db'.cycles = db.cycles /\ db'.audit = db.audit
      BY <1>p, <2>1, <3>1, <3>2, EdgeTables
    <3>4. PICK from \in SUBSET Parents[a] : db.edges = disk.edges \cup (from \X {a})
      BY <2>1 DEF Growing
    <3>5. db'.edges = disk.edges \cup ((from \cup {p}) \X {a})
      BY <3>3, <3>4
    <3>6. Growing(a)'
      BY <2>1, <3>2, <3>3, <3>5 DEF Growing
    <3>7. Moves(t) /\ pc'[t] \in Written /\ call'[t].id = a
      BY <2>1, <2>3 DEF Moves, Written
    <3>8. \A u \in Threads : u # t => pc[u] \notin Inside
      BY <2>1, Alone DEF Inside
    <3>9. OneRecord'
      BY <2>1, <3>6 DEF OneRecord
    <3>10. QED
      BY <2>1, <3>6, <3>7, <3>8, <3>9, RecordStep
  <2>4. QED
    BY <1>7, <2>2, <2>3 DEF InsertEdge
<1>8. ASSUME NEW t \in Threads, InsertEvidence(t) PROVE Pending'
  <2> DEFINE a == call[t].id
  <2>1. /\ pc[t] = "write" /\ UNCHANGED <<disk, closed, call>> /\ Goto(t, "mirror")
        /\ a \in Artifacts /\ Appendable(a)
        /\ db' = [db EXCEPT !.evidence = @ \cup {a}]
    BY <1>8 DEF InsertEvidence, Write, Control, CallIds
  <2>2. Clean /\ ~closed /\ \A u \in Threads : u # t => pc[u] \notin Inside
    BY <2>1, CleanAtWrite
  <2>3. /\ db'.evidence = db.evidence \cup {a} /\ db'.edges = db.edges
        /\ db'.cycles = db.cycles /\ db'.audit = db.audit
    BY <1>p, <2>1, EvidenceTables
  <2>4. db'.edges = disk.edges \cup ({} \X {a}) /\ {} \in SUBSET Parents[a]
    BY <2>2, <2>3 DEF Clean
  <2>5. Growing(a)'
    BY <2>1, <2>2, <2>3, <2>4 DEF Growing, Clean, Appendable, Present
  <2>6. Moves(t) /\ pc'[t] = "mirror" /\ call'[t].id = a
    BY <2>1, GotoMoves
  <2>7. OneRecord'
    BY <2>1, <2>5 DEF OneRecord
  <2>8. QED
    BY <2>1, <2>2, <2>5, <2>6, <2>7, RecordStep DEF Written
<1>9. ASSUME NEW t \in Threads, InsertAudit(t) \/ SaveCycle(t) \/ LinkArtifacts(t) PROVE Pending'
  <2> DEFINE i == call[t].id
  <2>1. /\ pc[t] = "write" /\ UNCHANGED <<disk, closed, call>> /\ Goto(t, "exit")
    BY <1>9 DEF InsertAudit, SaveCycle, LinkArtifacts, Write
  <2>2. Clean /\ ~closed /\ \A u \in Threads : u # t => pc[u] \notin Inside
    BY <2>1, CleanAtWrite
  <2>3. Moves(t) /\ pc'[t] = "exit"
    BY <2>1, GotoMoves
  <2>4. ASSUME InsertAudit(t) PROVE OneRecord'
    <3>1. i \in Entries /\ i \notin AuditIds(db.audit) /\ last[t] = LastHash(db.audit)
      BY <2>1, <2>4 DEF InsertAudit, Write, Control, CallIds, ChainInv, Writing
    <3>2. [id |-> i, prev |-> last[t]] \in Row
      BY <3>1 DEF Row, Control, TypeOK
    <3>3. /\ db'.audit = Append(db.audit, [id |-> i, prev |-> last[t]])
          /\ db'.cycles = db.cycles /\ db'.evidence = db.evidence /\ db'.edges = db.edges
      BY <1>p, <2>4, <3>2, AuditTables DEF InsertAudit
    <3>4. NewEntry(i)'
      BY <2>1, <2>2, <3>1, <3>3 DEF NewEntry, Clean
    <3>5. QED
      BY <2>1, <3>1, <3>4 DEF OneRecord
  <2>5. ASSUME SaveCycle(t) PROVE OneRecord'
    <3>1. i \in Cycles
      BY <2>5 DEF SaveCycle, Write, Control, CallIds
    <3>2. /\ db'.cycles = db.cycles \cup {i} /\ db'.audit = db.audit
          /\ db'.evidence = db.evidence /\ db'.edges = db.edges
      BY <1>p, <2>5, <3>1, CycleTables DEF SaveCycle
    <3>3. NewCycle(i)'
      BY <2>1, <2>2, <3>2 DEF NewCycle, Clean
    <3>4. QED
      BY <2>1, <3>1, <3>3 DEF OneRecord
  <2>6. ASSUME LinkArtifacts(t) PROVE OneRecord'
    <3> DEFINE p == call[t].parent
    <3>1. i \in Artifacts /\ p \in Artifacts
      BY <2>6 DEF LinkArtifacts, Write, Control, CallIds
    <3>2. /\ db'.edges = db.edges \cup {<<p, i>>} /\ db'.evidence = db.evidence
          /\ db'.cycles = db.cycles /\ db'.audit = db.audit
      BY <1>p, <2>6, <3>1, EdgeTables DEF LinkArtifacts
    <3>3. db'.edges = disk.edges \cup ({p} \X {i})
      BY <2>2, <3>2 DEF Clean
    <3>4. p \in disk.evidence /\ i \in disk.evidence
      BY <2>2, <2>6 DEF LinkArtifacts, Present, Clean
    <3>5. NewEdge(p, i)'
      BY <2>1, <2>2, <3>2, <3>3, <3>4 DEF NewEdge, Clean
    <3>6. QED
      BY <2>1, <3>1, <3>5 DEF OneRecord
  <2>7. OneRecord'
    BY <1>9, <2>4, <2>5, <2>6
  <2>8. QED
    BY <2>1, <2>2, <2>3, <2>7, RecordStep DEF Written
<1>10. ASSUME NEW t \in Threads, Commit(t) PROVE Pending'
  <2>1. /\ Clean' /\ ~closed' /\ pc[t] = "exit"
        /\ Goto(t, "enter") \/ Goto(t, "idle")
    BY <1>10 DEF Commit, After, Clean
  <2>2. \A u \in Threads : u # t => pc[u] \notin Inside
    BY <2>1, Alone DEF Inside
  <2>3. \A u \in Threads : pc'[u] \notin Inside
    BY <1>p, <2>1, <2>2 DEF Goto, Inside
  <2>4. QED
    BY <2>1, <2>3, CleanStep DEF Inside
<1>11. ASSUME NEW t \in Threads, CommitClosed(t) PROVE Pending'
  <2>1. SameHistory /\ UNCHANGED <<disk, closed>> /\ Moves(t) /\ pc'[t] = "idle" /\ closed
    BY <1>11, GotoMoves DEF CommitClosed, SameHistory
  <2>2. Clean
    BY <2>1 DEF Pending
  <2>3. QED
    BY <2>1, <2>2, QuietStep DEF Inside
<1>12. ASSUME NEW t \in Threads, CommitUnlocked(t) PROVE Pending'
  <2>1. Clean' /\ ~closed' /\ UNCHANGED <<db, call>> /\ disk' = db /\ Goto(t, "idle")
    BY <1>12 DEF CommitUnlocked, Clean
  <2>2. \A u \in Threads : pc'[u] \in {"mirror", "edges"} => pc[u] = pc'[u]
    BY <1>p, <2>1 DEF Goto
  <2>3. ASSUME NEW u \in Threads, pc'[u] \in {"mirror", "edges"} PROVE Growing(call[u].id)'
    <3> DEFINE a == call[u].id
    <3>1. a \in db.evidence /\ Parents[a] \subseteq db.evidence
      BY <2>2, <2>3 DEF GraphInv
    <3>2. db'.edges = disk'.edges \cup ({} \X {a}) /\ {} \in SUBSET Parents[a]
      BY <2>1
    <3>3. QED
      BY <2>1, <3>1, <3>2 DEF Growing
  <2>4. QED
    BY <2>1, <2>3, CleanStep
<1>13. ASSUME Rolled PROVE Pending'
  <2>1. Clean' /\ \A u \in Threads : pc'[u] \notin Inside
    BY <1>13 DEF Rolled, Clean
  <2>2. QED
    BY <2>1, CleanStep DEF Inside
<1>14. ASSUME NEW t \in Threads, CommitBusy(t) \/ Rollback(t) \/ CloseConn(t) PROVE Pending'
  BY <1>13, <1>14, Rolling
<1>15. CASE Crash
  <2>1. Rolled
    BY <1>15 DEF Rolled, Crash, Inside
  <2>2. QED
    BY <1>13, <2>1
<1>16. CASE UNCHANGED vars
  BY <1>16 DEF vars, Pending, OneRecord, Clean, NewEntry, NewCycle, NewEdge, Growing
<1>17. ASSUME NEW t \in Threads,
              Save(t) \/ Delete(t) \/ AppendArtifact(t) \/ AddLineageEdge(t) \/ Close(t)
       PROVE  Pending'
  BY <1>1, <1>17, Beginning
<1>18. QED
  BY <1>2, <1>3, <1>4, <1>5, <1>6, <1>7, <1>8, <1>9, <1>10, <1>11, <1>12, <1>14, <1>15, <1>16,
     <1>17 DEF Next, Step, Proceed, Statement, StatementLocked

\* A commit writes what the connection sees, and nothing else touches the file.
LEMMA DiskStep ==
    ASSUME [Next]_vars PROVE UNCHANGED disk \/ disk' = db
<1>1. ASSUME NEW t \in Threads, Statement(t) PROVE UNCHANGED disk
  BY <1>1 DEF Statement, SelectLast, SaveObject, DeleteRow, SaveCycle, InsertAudit,
     InsertAuditTwice, InsertEvidence, ReplayEvidence, RefuseOverwrite, RefuseOrphan,
     InsertMirror, InsertEdge, LinkArtifacts, RefuseLink, Write
<1>2. ASSUME NEW t \in Threads,
             Save(t) \/ Delete(t) \/ AppendArtifact(t) \/ AddLineageEdge(t) \/ Close(t)
      PROVE  UNCHANGED disk
  BY <1>2 DEF Save, Delete, AppendArtifact, AddLineageEdge, Close, Begin
<1>3. ASSUME NEW t \in Threads,
             \/ Enter(t) \/ EnterClosed(t) \/ Commit(t) \/ CommitAgain(t) \/ CommitClosed(t)
             \/ Rollback(t) \/ DeleteUnlocked(t) \/ CommitUnlocked(t) \/ CloseConn(t)
             \/ CommitBusy(t) \/ CommitUnlockedFails(t) \/ StatementLocked(t)
      PROVE  UNCHANGED disk \/ disk' = db
  BY <1>3 DEF Enter, EnterClosed, Commit, CommitAgain, CommitClosed, Rollback, DeleteUnlocked,
     CommitUnlocked, CloseConn, CommitBusy, CommitUnlockedFails, StatementLocked
<1>4. CASE Crash \/ UNCHANGED vars
  BY <1>4 DEF Crash, vars
<1>5. QED
  BY <1>1, <1>2, <1>3, <1>4 DEF Next, Step, Proceed

\* Committing one record is a step of the history.
LEMMA HistoryStep ==
    ASSUME OneRecord, disk' = db PROVE History!Next \/ UNCHANGED History!vars
<1>q. Parents \in [Artifacts -> SUBSET Artifacts]
  BY RepositoryAssumption
<1>1. CASE Clean
  BY <1>1 DEF Clean, History!vars
<1>2. ASSUME NEW e \in Entries, NewEntry(e) PROVE History!Next
  <2>1. History!AppendEntry(e)
    BY <1>2 DEF NewEntry, AuditIds, LastHash, History!AppendEntry
  <2>2. QED
    BY <2>1 DEF History!Next
<1>3. ASSUME NEW c \in Cycles, NewCycle(c) PROVE History!Next
  BY <1>3 DEF NewCycle, History!AppendCycle, History!Next
<1>4. ASSUME NEW a \in Artifacts, Growing(a) PROVE History!Next
  <2>1. PICK from \in SUBSET Parents[a] : db.edges = disk.edges \cup (from \X {a})
    BY <1>4 DEF Growing
  <2>2. from \in SUBSET Artifacts
    BY <1>q
  <2>3. CASE a \in disk.evidence
    <3>1. History!AppendEdges(a, from)
      BY <1>4, <2>1, <2>3 DEF Growing, History!AppendEdges
    <3>2. QED
      BY <2>2, <3>1 DEF History!Next
  <2>4. CASE a \notin disk.evidence
    <3>1. History!AppendArtifact(a, from)
      BY <1>4, <2>1, <2>4 DEF Growing, History!AppendArtifact
    <3>2. QED
      BY <2>2, <3>1 DEF History!Next
  <2>5. QED
    BY <2>3, <2>4
<1>5. ASSUME NEW p \in Artifacts, NEW c \in Artifacts, NewEdge(p, c) PROVE History!Next
  <2>1. History!AppendEdges(c, {p})
    BY <1>5 DEF NewEdge, History!AppendEdges
  <2>2. QED
    BY <2>1 DEF History!Next
<1>6. QED
  BY <1>1, <1>2, <1>3, <1>4, <1>5 DEF OneRecord

-----------------------------------------------------------------------------
(* The theorems *)

Inv == Control /\ ChainInv /\ GraphInv /\ StoreInv

LEMMA InitInv == Init => Inv
<1> SUFFICES ASSUME Init PROVE Inv
  OBVIOUS
<1>1. /\ db = Empty /\ disk = Empty /\ db.audit = << >> /\ db.cycles = {} /\ db.evidence = {}
      /\ db.edges = {} /\ db.objects = [i \in Ids |-> "none"]
  BY DEF Init, Empty
<1>2. \A t \in Threads : pc[t] = "idle" /\ call[t] = NoCall /\ call[t].op = "none"
  BY DEF Init, NoCall
<1>3. db \in Tables
  BY DEF Init, Empty, Tables, Kinds
<1>4. TypeOK
  <2>1. None \in Entries \cup {None} /\ 0 \in 0 .. MaxWriteRetries /\ 0 \in 0 .. MaxCalls
        /\ MaxFaults \in 0 .. MaxFaults /\ "idle" \in Steps
    BY RepositoryAssumption DEF Steps
  <2>2. /\ pc \in [Threads -> Steps]
        /\ call \in [Threads -> Calls \cup {NoCall}]
        /\ last \in [Threads -> Entries \cup {None}]
        /\ tries \in [Threads -> 0 .. MaxWriteRetries]
    BY <2>1 DEF Init
  <2>3. disk \in Tables /\ lock \in Threads \cup {None} /\ closed \in BOOLEAN
        /\ calls \in 0 .. MaxCalls /\ faults \in 0 .. MaxFaults
    BY <1>1, <1>3, <2>1 DEF Init
  <2>4. QED
    BY <1>3, <2>2, <2>3 DEF Init, TypeOK
<1>5. CallIds /\ Exclusive /\ LockHasOwner /\ TriesLeft
  BY <1>2, RepositoryAssumption DEF Init, CallIds, Exclusive, LockHasOwner, TriesLeft,
     Inside
<1>6. ChainInv
  BY <1>1, <1>2 DEF ChainInv, IsChain, Chained, Writing
<1>7. GraphInv
  BY <1>1, <1>2 DEF GraphInv, Joins
<1>8. StoreInv
  BY <1>1, <1>2 DEF Init, StoreInv, Grown, Told, TwoParts, OnDisk, Settled
<1>9. QED
  BY <1>4, <1>5, <1>6, <1>7, <1>8 DEF Inv, Control

LEMMA Invariance == Spec => []Inv
<1>1. Inv /\ [Next]_vars => Inv'
  BY TypeStep, CallStep, LockStep, ChainStep, GraphStep, StoreStep DEF Inv, Control
<1>2. QED
  BY <1>1, InitInv, PTL DEF Spec

\* The tables, calls and counters of the repository have their types.
THEOREM TypeCorrect == Spec => []TypeOK
BY Invariance, PTL DEF Inv, Control

\* A transaction that ended in an open repository has given the lock back.
THEOREM LockHasOwnerHolds == Spec => []LockHasOwner
BY Invariance, PTL DEF Inv, Control

\* The audit log on disk passes verify_audit_chain and holds no entry twice.
THEOREM AuditChainIntactHolds == Spec => []AuditChainIntact
<1>1. Inv => AuditChainIntact
  BY DEF Inv, ChainInv, IsChain, AuditChainIntact
<1>2. QED
  BY <1>1, Invariance, PTL

\* The stored evidence is closed under parents and edges, but for what
\* delete_object commits early.
THEOREM EvidenceClosedHolds == Spec => []EvidenceClosed
<1>1. Inv => EvidenceClosed
  BY DEF Inv, GraphInv, Joins, EvidenceClosed
<1>2. QED
  BY <1>1, Invariance, PTL

\* Until a statement or a commit finds the database locked, or the process dies, an
\* audit row, cycle or artifact whose transaction ended without an exception is on
\* disk, whatever other threads append, delete, roll back and close around it.
THEOREM StoredUntilFault ==
    Spec => [](faults = MaxFaults => \A x \in stored : OnDisk(x))
<1>1. Inv => (faults = MaxFaults => \A x \in stored : OnDisk(x))
  BY DEF Inv, StoreInv
<1>2. QED
  BY <1>1, Invariance, PTL

\* To a reader of the file the append-only tables are the history: a commit adds
\* the record of one call, and no commit, retry or crash takes one back.
THEOREM HistoryImplemented == Spec => ImplementsHistory
<1>1. Init => Pending /\ History!Init
  BY DEF Init, Empty, Pending, OneRecord, Clean, Inside, History!Init
<1>2. Inv /\ Pending /\ [Next]_vars => Pending'
  BY PendingStep DEF Inv
<1>3. Pending /\ [Next]_vars => [History!Next]_(History!vars)
  <2> SUFFICES ASSUME Pending, [Next]_vars PROVE [History!Next]_(History!vars)
    OBVIOUS
  <2>1. CASE UNCHANGED disk
    BY <2>1 DEF History!vars
  <2>2. CASE disk' = db
    BY <2>2, HistoryStep DEF Pending
  <2>3. QED
    BY <2>1, <2>2, DiskStep
<1>4. QED
  BY <1>1, <1>2, <1>3, Invariance, PTL DEF Spec, ImplementsHistory, History!Spec
=============================================================================
