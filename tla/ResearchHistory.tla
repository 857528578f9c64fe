-------------------------- MODULE ResearchHistory --------------------------
(***************************************************************************)
(* What the append-only tables of the repository promise a reader of the   *)
(* file, whatever threads, busy commits and crashes do to it: a commit     *)
(* publishes the record of at most one call, an audit row is chained to    *)
(* the row before it, an artifact comes after its parents, an edge after   *)
(* both of its ends, and nothing is ever taken back.                       *)
(***************************************************************************)
EXTENDS Naturals, Sequences

CONSTANTS Entries, Cycles, Artifacts, Parents, None

VARIABLES audit,     \* audit_logs, oldest row first
          cycles,    \* the ids in cycles
          evidence,  \* the hashes in evidence
          edges      \* the pairs in lineage

vars == <<audit, cycles, evidence, edges>>

Init == /\ audit = << >>
        /\ cycles = {}
        /\ evidence = {}
        /\ edges = {}

AppendEntry(e) ==
    /\ \A i \in DOMAIN audit : audit[i].id # e
    /\ audit' = Append(audit, [id |-> e, prev |-> IF audit = << >> THEN None
                                                  ELSE audit[Len(audit)].id])
    /\ UNCHANGED <<cycles, evidence, edges>>

\* Cycles are rows of INSERT OR REPLACE: saving one again replaces its content, and
\* only the ids are append-only.
AppendCycle(c) == /\ cycles' = cycles \cup {c}
                  /\ UNCHANGED <<audit, evidence, edges>>

\* With all of its edges, or with some of them where delete_object commits in
\* the middle of the append.
AppendArtifact(a, from) ==
    /\ a \notin evidence
    /\ from \subseteq Parents[a] /\ Parents[a] \subseteq evidence
    /\ evidence' = evidence \cup {a}
    /\ edges' = edges \cup (from \X {a})
    /\ UNCHANGED <<audit, cycles>>

AppendEdges(a, from) ==
    /\ {a} \cup from \subseteq evidence
    /\ edges' = edges \cup (from \X {a})
    /\ UNCHANGED <<audit, cycles, evidence>>

Next == \/ \E e \in Entries : AppendEntry(e)
        \/ \E c \in Cycles : AppendCycle(c)
        \/ \E a \in Artifacts : \E from \in SUBSET Artifacts :
              AppendArtifact(a, from) \/ AppendEdges(a, from)

Spec == Init /\ [][Next]_vars
=============================================================================
