------------------------- MODULE OrchestrationBoard --------------------------
(***************************************************************************)
(* The coordinator, its store and its workers implement TaskBoard, as long *)
(* as nothing else writes to the store and the tasks are created before    *)
(* the first of them is dispatched: the refinement mapping.                *)
(***************************************************************************)
EXTENDS Orchestration

Breaker == 3

PlaceOf == [none |-> "absent", pending |-> "waiting", ready |-> "offered",
            dispatched |-> "taken", completed |-> "done", failed |-> "given up"]

\* The workers with an active dispatch of the task.
HolderOf(t) == {ctx[d].who : d \in {e \in Rows(t) : Active(e)}}

\* The greatest failure count of the task's dispatches. A failure that is counted
\* against a task already given up adds nothing.
FailuresOf(t) ==
  LET counts == {ctx[d].fails : d \in Rows(t)}
  IN  Cardinality({n \in 1 .. Breaker : \E m \in counts : m >= n})

Board == INSTANCE TaskBoard
           WITH place <- [t \in Task |-> PlaceOf[status[t]]], needs <- deps,
                holder <- [t \in Task |-> HolderOf(t)],
                failures <- [t \in Task |-> FailuresOf(t)],
                Limit <- MaxConcurrent, Tries <- Breaker

\* Whatever its workers do, in whatever order, their messages and exits arrive,
\* a run treats the tasks as the board says: each step of the loop, of a worker
\* or of a terminal is a step of the board or none.
ImplementsBoard == Board!Spec
=============================================================================
