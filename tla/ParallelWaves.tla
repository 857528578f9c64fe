--------------------------- MODULE ParallelWaves ---------------------------
(***************************************************************************)
(* ParallelResearchExecutor.run: the branches of a wave run on a thread    *)
(* pool of their own, the caller takes their futures as they complete, the *)
(* first failure cancels what has not started, and the pool is shut down   *)
(* before the next wave may begin.                                         *)
(*                                                                         *)
(* Pool threads and the caller interleave.  The pool (concurrent.futures,  *)
(* external) hands queued futures to at most MaxWorkers threads in the     *)
(* order of submission.  A branch's value is the branch itself.            *)
(***************************************************************************)
EXTENDS Naturals, Sequences, FiniteSets, Functions

CONSTANTS None,
          Plan,        \* the waves, each the sequence of its branches
          MaxWorkers   \* threads of a pool

Branches == UNION {Range(Plan[w]) : w \in DOMAIN Plan}

\* run refuses an empty plan and a branch that occurs twice; a wave has a branch.
ASSUME PlanAssumption ==
    /\ Plan \in Seq(Seq(Branches)) /\ Plan # <<>> /\ MaxWorkers \in Nat \ {0}
    /\ \A w \in DOMAIN Plan : Plan[w] # <<>>
    /\ \A v, w \in DOMAIN Plan : \A i \in DOMAIN Plan[v], j \in DOMAIN Plan[w] :
          Plan[v][i] = Plan[w][j] => v = w /\ i = j
    /\ None \notin Branches \cup {"result", "error", "fatal"}
    /\ "fatal" \notin Branches

VARIABLES wave,       \* the wave the caller is at
          at,         \* what the caller is at in it
          next,       \* index of the branch to submit or to cancel next
          future,     \* future[b]: state of the future of branch b
          seen,       \* branches whose future the caller has taken
          values,     \* values of the wave, in declared order
          raised,     \* what the caller will raise after the shutdown
          completed,  \* results of the completed waves
          outcome     \* None, or how run ended: "error" is a
                      \* ParallelOrchestrationError, "fatal" another exception

vars == <<wave, at, next, future, seen, values, raised, completed, outcome>>

Finished == {"ok", "error", "fatal"}
Futures  == {"none", "pending", "running", "cancelled"} \cup Finished
Current  == Plan[wave]

TypeOK ==
    /\ wave \in DOMAIN Plan
    /\ at \in {"submit", "await", "cancel", "shutdown", "end"}
    /\ next \in 1..Len(Current)
    /\ future \in [Branches -> Futures]
    /\ seen \subseteq Range(Current)
    /\ values \in [DOMAIN Current -> Branches \cup {None}]
    /\ raised \in {None, "fatal"} \cup Branches
    /\ completed \in Seq(Seq(Branches))
    /\ outcome \in {None, "result", "error", "fatal"}

Nothing(w) == [i \in DOMAIN Plan[w] |-> None]

Init == /\ wave = 1 /\ at = "submit" /\ next = 1
        /\ future = [b \in Branches |-> "none"]
        /\ seen = {} /\ values = Nothing(1) /\ raised = None
        /\ completed = <<>> /\ outcome = None

-----------------------------------------------------------------------------
(* The pool *)

InState(s) == {b \in Branches : future[b] = s}

\* A free thread takes the first future in the queue.
Start(i) ==
    /\ i \in DOMAIN Current /\ future[Current[i]] = "pending"
    /\ \A j \in 1..(i - 1) : future[Current[j]] # "pending"
    /\ Cardinality(InState("running")) < MaxWorkers
    /\ future' = [future EXCEPT ![Current[i]] = "running"]
    /\ UNCHANGED <<wave, at, next, seen, values, raised, completed, outcome>>

\* A branch returns, raises an Exception, or raises another BaseException.
Finish(b) ==
    /\ future[b] = "running"
    /\ \E s \in Finished : future' = [future EXCEPT ![b] = s]
    /\ UNCHANGED <<wave, at, next, seen, values, raised, completed, outcome>>

-----------------------------------------------------------------------------
(* The caller *)

Submit ==
    /\ at = "submit"
    /\ future' = [future EXCEPT ![Current[next]] = "pending"]
    /\ IF next < Len(Current) THEN at' = at /\ next' = next + 1
                              ELSE at' = "await" /\ next' = 1
    /\ UNCHANGED <<wave, seen, values, raised, completed, outcome>>

\* submit raises, as when no thread can be started.
SubmitRaises ==
    /\ at = "submit"
    /\ at' = "shutdown" /\ next' = 1 /\ raised' = "fatal"
    /\ UNCHANGED <<wave, future, seen, values, completed, outcome>>

\* Mutant: values are kept in the order of completion.
StoreInTurn(i) == [values EXCEPT ![Cardinality(seen) + 1] = Current[i]]

\* branch_by_future gives a value the place of its branch.
Store(i) == [values EXCEPT ![i] = Current[i]]

\* as_completed yields a finished future; the first that raised an Exception ends
\* the loop, another BaseException leaves it.
Observe(i) ==
    /\ at = "await"
    /\ i \in DOMAIN Current /\ Current[i] \notin seen
    /\ future[Current[i]] \in Finished
    /\ seen' = seen \cup {Current[i]}
    /\ \/ /\ future[Current[i]] = "ok"
          /\ values' = Store(i)
          /\ at' = IF seen' = Range(Current) THEN "shutdown" ELSE at
          /\ completed' = IF seen' = Range(Current)
                          THEN Append(completed, values') ELSE completed
          /\ UNCHANGED raised
       \/ /\ future[Current[i]] = "error"
          /\ at' = "cancel" /\ raised' = Current[i]
          /\ UNCHANGED <<values, completed>>
       \/ /\ future[Current[i]] = "fatal"
          /\ at' = "shutdown" /\ raised' = "fatal"
          /\ UNCHANGED <<values, completed>>
    /\ UNCHANGED <<wave, next, future, outcome>>

\* The loop over futures after a failure; a future that runs is not cancelled.
Cancel ==
    /\ at = "cancel"
    /\ future' = [future EXCEPT ![Current[next]] =
                     IF @ = "pending" THEN "cancelled" ELSE @]
    /\ IF next < Len(Current) THEN at' = at /\ next' = next + 1
                              ELSE at' = "shutdown" /\ next' = 1
    /\ UNCHANGED <<wave, seen, values, raised, completed, outcome>>

\* shutdown(cancel_futures=True) empties the queue.
Drain(i) ==
    /\ at = "shutdown"
    /\ i \in DOMAIN Current /\ future[Current[i]] = "pending"
    /\ future' = [future EXCEPT ![Current[i]] = "cancelled"]
    /\ UNCHANGED <<wave, at, next, seen, values, raised, completed, outcome>>

\* Mutant: shutdown does not wait for the threads.
JoinedQueue == InState("pending") = {}

\* Mutant: the barrier waits for cancelled branches too.
JoinedAll == \A i \in DOMAIN Current : future[Current[i]] \in Finished

\* shutdown(wait=True) returns when the threads have ended.
Joined == InState("pending") \cup InState("running") = {}

Ends == raised # None \/ wave = Len(Plan)

NextWave ==
    /\ at = "shutdown" /\ Joined /\ ~Ends
    /\ wave' = wave + 1
    /\ at' = "submit" /\ next' = 1 /\ seen' = {} /\ values' = Nothing(wave + 1)
    /\ UNCHANGED <<future, raised, completed, outcome>>

Return ==
    /\ at = "shutdown" /\ Joined /\ Ends
    /\ at' = "end"
    /\ outcome' = CASE raised = None -> "result"
                    [] raised \in Branches -> "error"
                    [] OTHER -> "fatal"
    /\ UNCHANGED <<wave, next, future, seen, values, raised, completed>>

-----------------------------------------------------------------------------
Pool   == \E i \in DOMAIN Current : Start(i)
Caller == \/ Submit \/ SubmitRaises \/ Cancel \/ NextWave \/ Return
          \/ \E i \in DOMAIN Current : Observe(i) \/ Drain(i)

Next == Pool \/ Caller \/ \E b \in Branches : Finish(b)

Spec == Init /\ [][Next]_vars

\* The pool and the caller go on when they can, and every branch ends.
FairSpec == /\ Spec
            /\ WF_vars(Pool)
            /\ WF_vars(Caller)
            /\ \A b \in Branches : WF_vars(Finish(b))

-----------------------------------------------------------------------------
(* Properties *)

\* "prevents later waves from starting": a branch is touched only after every
\* branch of the earlier waves has returned a value, and none of them is still
\* running; no thread of the plan outlives run.
WaveBarrier ==
    /\ \A w \in DOMAIN Plan : \A b \in Range(Plan[w]) :
          future[b] # "none" =>
             \A v \in 1..(w - 1) : \A c \in Range(Plan[v]) : future[c] = "ok"
    /\ outcome # None => \A b \in Branches : future[b] \notin {"pending", "running"}

\* "Results are returned in declared plan order": run returns the plan itself,
\* each value in the place of its branch, or raises the error of a branch that
\* did fail.
DeclaredOrder ==
    /\ outcome = "result" => completed = Plan
    /\ outcome = "error" => raised \in Branches /\ future[raised] = "error"

\* run returns or raises, whatever branches fail and however few threads there
\* are.
Returns == <>(outcome # None)
=============================================================================
