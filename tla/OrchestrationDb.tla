--------------------------- MODULE OrchestrationDb ---------------------------
(***************************************************************************)
(* The store behind agent orchestration: the SQLite tables of              *)
(* src/main/runtime/orchestration/db.ts and the methods that write them.   *)
(* Every method runs synchronously on the one JavaScript thread of the     *)
(* Orca runtime, so each is an operator that a handler's action calls.     *)
(*                                                                         *)
(* A task id and a dispatch id are random and are never issued twice: a    *)
(* row that "reset" deletes keeps its place with the status "deleted", so  *)
(* that an id held by a late message can still be looked up and not found. *)
(* Of the messages table only the unread rows addressed to the coordinator *)
(* are kept: nothing the coordinator does depends on the others.           *)
(***************************************************************************)
EXTENDS Naturals, Sequences, FiniteSets

CONSTANTS Task,     \* task ids
          Worker,   \* terminal handles an agent can run in
          Coord     \* coordinator instances, one per call of orchestration.run

VARIABLES status,   \* tasks.status of each id ("none": not created yet)
          deps,     \* tasks.deps: the ids the task waits for
          ctx,      \* dispatch_contexts in rowid order; the index is the id
          gate,     \* decision_gates in rowid order
          inbox,    \* unread messages to the coordinator's handle, by sequence
          run       \* coordinator_runs.status of the row of each instance

dbVars == <<status, deps, ctx, gate, inbox, run>>

-----------------------------------------------------------------------------
(* Row types. *)

TaskStatus == {"pending", "ready", "dispatched", "completed", "failed", "blocked"}

RunStatus == {"none", "running", "completed", "failed", "deleted"}

\* completed_at, dispatched_at, last_failure and the heartbeat stamp are left
\* out: they are written for display and read by no decision.
CtxRow == [task   : Task,
           who    : Worker,
           status : {"dispatched", "completed", "failed", "circuit_broken", "deleted"},
           fails  : Nat]

GateRow == [task : Task, status : {"pending", "resolved", "deleted"}]

\* The three message types the coordinator acts on; "from" is set by the
\* sender and the rest is the parsed payload. A "malformed" one is a message
\* whose payload its handler cannot read (the JSON text "null" of a worker_done).
Message == [type : {"worker_done"}, from : Worker, task : Task, ctx : Nat]
             \cup [type : {"escalation", "decision_gate"}, task : Task]
             \cup [type : {"malformed"}]

DbInit == /\ status = [t \in Task |-> "none"]
          /\ deps = [t \in Task |-> {}]
          /\ ctx = <<>>
          /\ gate = <<>>
          /\ inbox = <<>>
          /\ run = [c \in Coord |-> "none"]

-----------------------------------------------------------------------------
(* Queries. *)

Present(t) == status[t] \in TaskStatus

Tasks(s) == {t \in Task : status[t] = s}

\* The rows of dispatch_contexts for a task.
Rows(t) == {d \in DOMAIN ctx : ctx[d].task = t /\ ctx[d].status # "deleted"}

Exists(d) == d \in DOMAIN ctx /\ ctx[d].status # "deleted"

\* A context row is never written with the status 'pending', so the SQL
\* test status IN ('pending', 'dispatched') is this one.
Active(d) == d \in DOMAIN ctx /\ ctx[d].status = "dispatched"

\* d is the row getDispatchContext(t) returns: ORDER BY rowid DESC LIMIT 1.
Latest(d, t) == d \in Rows(t) /\ \A e \in Rows(t) : e <= d

LatestActive(d, t) == /\ d \in Rows(t) /\ Active(d)
                      /\ \A e \in Rows(t) : Active(e) => e <= d

Busy(w) == \E d \in DOMAIN ctx : Active(d) /\ ctx[d].who = w

ActiveRun == \E c \in Coord : run[c] = "running"

\* SELECT MAX(failure_count), as the set of the values it can return: one value.
PriorFailures(t) ==
  IF Rows(t) = {} THEN {0}
  ELSE {ctx[d].fails : d \in {e \in Rows(t) : \A f \in Rows(t) : ctx[f].fails <= ctx[e].fails}}

-----------------------------------------------------------------------------
(* Writes to tasks and dispatch contexts. An UPDATE of a row that is not    *)
(* there changes nothing.                                                   *)

SetStatus(t, s) == [status EXCEPT ![t] = IF Present(t) THEN s ELSE @]

\* Mutant: one completed dependency is enough.
PromoteOnFirst(st, t) ==
  [u \in Task |-> IF st[u] = "pending" /\ t \in deps[u] THEN "ready" ELSE st[u]]

\* promoteReadyTasks: in the table st, the pending tasks that wait for t and
\* whose dependencies are now all completed become ready.
Promote(st, t) ==
  [u \in Task |->
     IF /\ st[u] = "pending"
        /\ t \in deps[u]
        /\ \A v \in deps[u] : st[v] = "completed"
     THEN "ready" ELSE st[u]]

CompleteActiveDispatch(t) ==
  [d \in DOMAIN ctx |-> IF LatestActive(d, t)
                        THEN [ctx[d] EXCEPT !.status = "completed"]
                        ELSE ctx[d]]

\* Mutant: the promotion comes before the UPDATE of the task's own row.
UpdateTaskStatusPromoteFirst(t, s) ==
  /\ status' = [u \in Task |-> IF u = t THEN SetStatus(t, s)[t] ELSE Promote(status, t)[u]]
  /\ ctx' = IF s = "completed" THEN CompleteActiveDispatch(t) ELSE ctx

\* Mutant: the dispatch of a completed task is left active.
UpdateTaskStatusKeepsDispatch(t, s) ==
  /\ status' = IF s = "completed" THEN Promote(SetStatus(t, s), t) ELSE SetStatus(t, s)
  /\ ctx' = ctx

UpdateTaskStatus(t, s) ==
  \/ /\ s = "completed"
     /\ status' = Promote(SetStatus(t, s), t)
     /\ ctx' = CompleteActiveDispatch(t)
  \/ /\ s # "completed"
     /\ status' = SetStatus(t, s)
     /\ ctx' = ctx

\* Mutant: the terminal's active dispatch is not looked for.
CanDispatchAnywhere(t, w) == status[t] = "ready"

\* The guards of createDispatchContext; where they fail it throws.
CanDispatch(t, w) == status[t] = "ready" /\ ~Busy(w)

CreateDispatchContext(t, w) ==
  /\ CanDispatch(t, w)
  /\ \E n \in PriorFailures(t) :
       ctx' = Append(ctx, [task |-> t, who |-> w, status |-> "dispatched", fails |-> n])
  /\ status' = [status EXCEPT ![t] = "dispatched"]

\* The failure that makes the count of row d reach the limit of the breaker.
Breaks(d) == ctx[d].fails + 1 >= 3

\* Mutants: the task's row is not updated; the breaker does not fail the task;
\* the task goes back to pending, as if it still waited for its dependencies.
FailDispatchOnly(d) ==
  /\ ctx' = IF Exists(d)
            THEN [ctx EXCEPT ![d].status = IF Breaks(d) THEN "circuit_broken" ELSE "failed",
                             ![d].fails = @ + 1]
            ELSE ctx
  /\ UNCHANGED status

FailDispatchTo(d, retry, broken) ==
  /\ ctx' = [ctx EXCEPT ![d].status = IF Breaks(d) THEN "circuit_broken" ELSE "failed",
                        ![d].fails = @ + 1]
  /\ status' = SetStatus(ctx[d].task, IF Breaks(d) THEN broken ELSE retry)

FailDispatchAlwaysRetries(d) == Exists(d) /\ FailDispatchTo(d, "ready", "ready")

FailDispatchToPending(d) == Exists(d) /\ FailDispatchTo(d, "pending", "failed")

FailDispatch(d) ==
  \/ /\ Exists(d)
     /\ ctx' = [ctx EXCEPT ![d].status = IF Breaks(d) THEN "circuit_broken" ELSE "failed",
                           ![d].fails = @ + 1]
     /\ status' = SetStatus(ctx[d].task, IF Breaks(d) THEN "failed" ELSE "ready")
  \/ /\ ~Exists(d)
     /\ UNCHANGED <<ctx, status>>

-----------------------------------------------------------------------------
(* Tasks, gates and resets. *)

\* createTask: a task with dependencies starts pending, whatever their status.
CreateTask(t, D) ==
  /\ status[t] = "none"
  /\ status' = [status EXCEPT ![t] = IF D = {} THEN "ready" ELSE "pending"]
  /\ deps' = [deps EXCEPT ![t] = D]

\* Mutant: the dispatch of the task stays active behind the gate.
CreateGateKeepsDispatch(t) ==
  /\ gate' = Append(gate, [task |-> t, status |-> "pending"])
  /\ status' = SetStatus(t, "blocked")
  /\ ctx' = ctx

CreateGate(t) ==
  /\ gate' = Append(gate, [task |-> t, status |-> "pending"])
  /\ ctx' = CompleteActiveDispatch(t)
  /\ status' = SetStatus(t, "blocked")

\* resolveGate looks at neither the gate's status nor the task's.
ResolveGate(g) ==
  /\ g \in DOMAIN gate /\ gate[g].status # "deleted"
  /\ gate' = [gate EXCEPT ![g].status = "resolved"]
  /\ status' = SetStatus(gate[g].task, "ready")

PendingGate(t) == \E g \in DOMAIN gate : gate[g].task = t /\ gate[g].status = "pending"

\* Mutant: ids are reissued from the first one after a reset.
ResetTasksReissuesIds ==
  /\ status' = [t \in Task |-> IF Present(t) THEN "deleted" ELSE status[t]]
  /\ ctx' = <<>>
  /\ gate' = <<>>
  /\ run' = [c \in Coord |-> IF run[c] = "none" THEN "none" ELSE "deleted"]

ResetTasks ==
  /\ status' = [t \in Task |-> IF Present(t) THEN "deleted" ELSE status[t]]
  /\ ctx' = [d \in DOMAIN ctx |-> [ctx[d] EXCEPT !.status = "deleted"]]
  /\ gate' = [g \in DOMAIN gate |-> [gate[g] EXCEPT !.status = "deleted"]]
  /\ run' = [c \in Coord |-> IF run[c] = "none" THEN "none" ELSE "deleted"]

ResetMessages == inbox' = <<>>

=============================================================================
