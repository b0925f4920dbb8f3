---------------------------- MODULE Orchestration ----------------------------
(***************************************************************************)
(* The coordinator's loop among everything else that writes to the store:  *)
(* the orchestration.* calls of the CLI                                    *)
(* (src/main/runtime/rpc/methods/orchestration.ts and                      *)
(* orchestration-gates.ts), the workers' messages, the exits of terminals  *)
(* (src/main/runtime/orca-runtime.ts) and the end of the Orca process,     *)
(* which the SQLite file survives and the loops and handles do not.        *)
(*                                                                         *)
(* "Ops" selects which of these happen, so that a run can ask what the     *)
(* store guarantees under a given use of the system.                       *)
(***************************************************************************)
EXTENDS Coordinator

CONSTANTS Ops,             \* the operations that occur besides the loop's own
          ManualStatuses,  \* the statuses set by orchestration.taskUpdate
          MaxInbox,        \* bound: unread messages to the coordinator
          MaxFails         \* bound: a task is made ready by hand, and a worker
                           \* escalates, only while no failure count is above it

OpNames == {"task-create-late", "task-update", "dispatch", "dispatch-manual",
            "gate-create", "gate-resolve", "reset", "reset-messages", "run-stop",
            "worker_done", "escalation", "decision_gate", "malformed", "check",
            "exit", "exit-headless", "restart", "torn-write"}

ASSUME OrchestrationAssumption ==
  /\ Ops \subseteq OpNames
  /\ ManualStatuses \subseteq TaskStatus
  /\ MaxInbox \in Nat
  /\ MaxFails \in Nat

VARIABLES rpcSend,  \* dispatches whose injection an RPC call is awaiting
          byHand    \* history: tasks whose last dispatch is not the loop's

vars == <<dbVars, loopVars, at, hostVars, rpcSend, byHand>>

Init == DbInit /\ CoordInit /\ rpcSend = {} /\ byHand = {}

FailsBounded == \A d \in DOMAIN ctx : ctx[d].fails <= MaxFails

May(op) == op \in Ops /\ thread = Nobody

-----------------------------------------------------------------------------
(* orchestration.task-create, task-update and reset.                        *)

\* Dependencies are ids the CLI has been given. Unless "task-create-late" is
\* allowed, the whole DAG is created before any of its tasks is dispatched.
TaskCreate(t, D) ==
  /\ thread = Nobody
  /\ \A u \in D : status[u] # "none"
  /\ \/ "task-create-late" \in Ops
     \/ ctx = <<>> /\ \A c \in Coord : run[c] = "none"
  /\ CreateTask(t, D)
  /\ UNCHANGED <<ctx, gate, inbox, run, loopVars, at, hostVars, rpcSend, byHand>>

TaskUpdate(t, s) ==
  /\ May("task-update") /\ FailsBounded
  /\ Present(t)
  /\ UpdateTaskStatus(t, s)
  /\ UNCHANGED <<deps, gate, inbox, run, loopVars, at, hostVars, rpcSend, byHand>>

\* --tasks, and --all, which deletes the messages as well.
Reset == /\ May("reset")
         /\ ResetTasks
         /\ \/ ResetMessages
            \/ UNCHANGED inbox
         /\ UNCHANGED <<deps, loopVars, at, hostVars, rpcSend, byHand>>

\* --messages; or orchestration.check by the agent that owns the coordinator's
\* handle, which marks the unread messages read.
MessagesGone == /\ May("reset-messages") \/ May("check")
                /\ ResetMessages
                /\ UNCHANGED <<status, deps, ctx, gate, run, loopVars, at, hostVars, rpcSend, byHand>>

-----------------------------------------------------------------------------
(* orchestration.dispatch.                                                  *)

\* With --inject the target must run an agent, and the call then awaits
\* sendTerminal; without it the handle is not looked at.
Dispatch(t, w) ==
  /\ thread = Nobody
  /\ Len(ctx) < MaxCtx
  /\ CreateDispatchContext(t, w)
  /\ \/ "dispatch" \in Ops /\ w \in live /\ rpcSend' = rpcSend \cup {Len(ctx) + 1}
     \/ "dispatch-manual" \in Ops /\ UNCHANGED rpcSend
  /\ byHand' = byHand \cup {t}
  /\ UNCHANGED <<deps, gate, inbox, run, loopVars, at, hostVars>>

DispatchSettles(d) ==
  /\ thread = Nobody /\ d \in rpcSend
  /\ rpcSend' = rpcSend \ {d}
  /\ \/ UNCHANGED <<ctx, status>>
     \/ FailDispatch(d)
  /\ UNCHANGED <<deps, gate, inbox, run, loopVars, at, hostVars, byHand>>

-----------------------------------------------------------------------------
(* orchestration.gateCreate, gateResolve, run and runStop.                  *)

GateCreate(t) ==
  /\ May("gate-create")
  /\ Len(gate) < MaxGates
  /\ status[t] # "none"
  /\ CreateGate(t)
  /\ UNCHANGED <<deps, inbox, run, loopVars, at, hostVars, rpcSend, byHand>>

GateResolve(g) ==
  /\ May("gate-resolve") /\ FailsBounded
  /\ ResolveGate(g)
  /\ UNCHANGED <<deps, ctx, inbox, run, loopVars, at, hostVars, rpcSend, byHand>>

\* The loop starts with decompose, which fails the run when there is no task.
Run(c) ==
  /\ thread = Nobody /\ ~ActiveRun /\ run[c] = "none"
  /\ \/ /\ \E t \in Task : Present(t)
        /\ run' = [run EXCEPT ![c] = "running"]
        /\ pc' = [pc EXCEPT ![c] = "messages"]
        /\ thread' = c
        /\ active' = c
     \/ /\ \A t \in Task : ~Present(t)
        /\ run' = [run EXCEPT ![c] = "failed"]
        /\ pc' = [pc EXCEPT ![c] = "done"]
        /\ thread' = Nobody
        /\ active' = Nobody
  /\ UNCHANGED <<status, deps, ctx, gate, inbox, stopped, todo, slots, free, cur,
                 failedSeen, at, live, gone, rpcSend, byHand>>

\* Mutant: runStop closes the row itself, before the loop has ended.
RunStopClosesRow ==
  /\ May("run-stop") /\ ActiveRun
  /\ stopped' = [c \in Coord |-> stopped[c] \/ active = c]
  /\ active' = Nobody
  /\ run' = [c \in Coord |-> IF run[c] = "running" THEN "failed" ELSE run[c]]
  /\ UNCHANGED <<status, deps, ctx, gate, inbox, pc, todo, slots, free, cur, failedSeen,
                 at, thread, live, gone, rpcSend, byHand>>

RunStop ==
  /\ May("run-stop") /\ ActiveRun
  /\ stopped' = [c \in Coord |-> stopped[c] \/ active = c]
  /\ active' = Nobody
  /\ UNCHANGED <<dbVars, pc, todo, slots, free, cur, failedSeen, at, thread, live, gone, rpcSend, byHand>>

-----------------------------------------------------------------------------
(* The workers and their terminals.                                         *)

InFlight(d) == d \in rpcSend \/ \E c \in Coord : cur[c] = d

Post(m) == Len(inbox) < MaxInbox /\ inbox' = Append(inbox, m)

\* A worker speaks of a dispatch whose preamble it was given, as often and as
\* late as it likes; --from is what the caller says it is.
WorkerSends(d, w) ==
  /\ thread = Nobody
  /\ d \in DOMAIN ctx /\ ~InFlight(d)
  /\ \/ /\ "worker_done" \in Ops
        /\ Post([type |-> "worker_done", from |-> w, task |-> ctx[d].task, ctx |-> d])
     \/ /\ "escalation" \in Ops /\ FailsBounded
        /\ Post([type |-> "escalation", task |-> ctx[d].task])
     \/ /\ "decision_gate" \in Ops /\ Len(gate) + Len(inbox) < MaxGates
        /\ Post([type |-> "decision_gate", task |-> ctx[d].task])
     \/ /\ "malformed" \in Ops
        /\ Post([type |-> "malformed"])
  /\ UNCHANGED <<status, deps, ctx, gate, run, loopVars, at, hostVars, rpcSend, byHand>>

\* onPtyExit and failActiveDispatchOnExit. The escalation goes to the
\* coordinator of the active run, if there is one.
Exit(w) ==
  /\ May("exit") /\ w \in live
  /\ \/ \E d \in DOMAIN ctx :
          /\ Active(d) /\ ctx[d].who = w
          /\ FailDispatch(d)
          /\ \/ ActiveRun /\ Post([type |-> "escalation", task |-> ctx[d].task])
             \/ ~ActiveRun /\ UNCHANGED inbox
     \/ ~Busy(w) /\ UNCHANGED <<ctx, status, inbox>>
  /\ live' = live \ {w}
  /\ gone' = gone \cup {w}
  /\ UNCHANGED <<deps, gate, run, loopVars, at, thread, active, rpcSend, byHand>>

\* The terminal of "orca serve", or one the window has not adopted: a pty with
\* no leaf, and onPtyExit calls failActiveDispatchOnExit for leaves only.
ExitHeadless(w) ==
  /\ May("exit-headless") /\ w \in live
  /\ live' = live \ {w}
  /\ gone' = gone \cup {w}
  /\ UNCHANGED <<dbVars, loopVars, at, thread, active, rpcSend, byHand>>

-----------------------------------------------------------------------------
(* The Orca process ends, at any moment, and is started again.              *)

ProcessLost ==
  /\ pc' = [c \in Coord |-> IF pc[c] = "off" THEN "off" ELSE "done"]
  /\ todo' = [c \in Coord |-> {}]
  /\ free' = [c \in Coord |-> {}]
  /\ slots' = [c \in Coord |-> 0]
  /\ cur' = [c \in Coord |-> 0]
  /\ at' = 0
  /\ thread' = Nobody
  /\ active' = Nobody
  /\ live' = {}
  /\ gone' = gone \cup live
  /\ rpcSend' = {}
  /\ UNCHANGED <<stopped, failedSeen, byHand>>

Restart == "restart" \in Ops /\ ProcessLost /\ UNCHANGED dbVars

\* Every statement is its own transaction: the process can end between the
\* statements of one method, whoever called it.
TornCompletion(t) ==
  /\ \E U \in SUBSET Task :
       status' = [u \in Task |-> IF u \in U THEN Promote(SetStatus(t, "completed"), t)[u]
                                           ELSE SetStatus(t, "completed")[u]]
  /\ UNCHANGED <<ctx, gate, run>>

TornDispatch(t, w) ==
  /\ Len(ctx) < MaxCtx
  /\ CanDispatch(t, w)
  /\ \E n \in PriorFailures(t) :
       ctx' = Append(ctx, [task |-> t, who |-> w, status |-> "dispatched", fails |-> n])
  /\ UNCHANGED <<status, gate, run>>

TornFailure(d) ==
  /\ Exists(d)
  /\ ctx' = [ctx EXCEPT ![d].status = IF Breaks(d) THEN "circuit_broken" ELSE "failed",
                        ![d].fails = @ + 1]
  /\ UNCHANGED <<status, gate, run>>

TornGate(t) ==
  /\ gate' = Append(gate, [task |-> t, status |-> "pending"])
  /\ ctx' \in {ctx, CompleteActiveDispatch(t)}
  /\ UNCHANGED <<status, run>>

TornResolution(g) ==
  /\ g \in DOMAIN gate /\ gate[g].status # "deleted"
  /\ gate' = [gate EXCEPT ![g].status = "resolved"]
  /\ UNCHANGED <<status, ctx, run>>

\* The runs, the gates, the dispatches and the tasks are deleted in this order.
TornReset ==
  /\ run' = [c \in Coord |-> IF run[c] = "none" THEN "none" ELSE "deleted"]
  /\ \/ UNCHANGED <<gate, ctx>>
     \/ /\ gate' = [g \in DOMAIN gate |-> [gate[g] EXCEPT !.status = "deleted"]]
        /\ \/ UNCHANGED ctx
           \/ ctx' = [d \in DOMAIN ctx |-> [ctx[d] EXCEPT !.status = "deleted"]]
  /\ UNCHANGED status

\* The message whose handler the end of the process catches half done.
TornHandler(m) ==
  \/ m.type = "worker_done" /\ Accepted(m) /\ TornCompletion(m.task)
  \/ m.type = "escalation" /\ Escalates(m) /\ \E d \in Rows(m.task) : Latest(d, m.task) /\ TornFailure(d)
  \/ m.type = "decision_gate" /\ TornGate(m.task)

\* The call or the event from outside the loop.
TornCall ==
  /\ thread = Nobody
  /\ \/ /\ "task-update" \in Ops /\ "completed" \in ManualStatuses
        /\ \E t \in Task : Present(t) /\ TornCompletion(t)
     \/ /\ {"dispatch", "dispatch-manual"} \cap Ops # {}
        /\ \E t \in Task, w \in Worker : TornDispatch(t, w)
     \/ "gate-create" \in Ops /\ Len(gate) < MaxGates /\ \E t \in Task : status[t] # "none" /\ TornGate(t)
     \/ "gate-resolve" \in Ops /\ \E g \in DOMAIN gate : TornResolution(g)
     \/ "reset" \in Ops /\ TornReset
     \/ "exit" \in Ops /\ \E d \in DOMAIN ctx : Active(d) /\ ctx[d].who \in live /\ TornFailure(d)
     \/ \E d \in rpcSend : TornFailure(d)

TornWrite ==
  /\ "torn-write" \in Ops
  /\ ProcessLost
  /\ \/ /\ thread # Nobody /\ pc[thread] = "messages" /\ at < Len(inbox)
        /\ TornHandler(inbox[at + 1])
     \/ \E c \in Coord :
          \/ /\ thread = Nobody /\ pc[c] = "dispatch"
             /\ \E t \in todo[c], w \in free[c] : TornDispatch(t, w)
          \/ thread \in {Nobody, c} /\ pc[c] = "send" /\ TornFailure(cur[c])
     \/ TornCall
  /\ UNCHANGED <<deps, inbox>>

-----------------------------------------------------------------------------

Loop(c) ==
  /\ LoopStep(c)
  /\ byHand' = {t \in byHand : status'[t] = "dispatched" => status[t] = "dispatched"}
  /\ UNCHANGED rpcSend

Next == \/ \E c \in Coord : Loop(c) \/ Run(c)
        \/ \E t \in Task : \/ \E D \in SUBSET Task : TaskCreate(t, D)
                           \/ \E s \in ManualStatuses : TaskUpdate(t, s)
                           \/ \E w \in Worker : Dispatch(t, w)
                           \/ GateCreate(t)
        \/ \E d \in 1 .. MaxCtx : \/ DispatchSettles(d)
                                  \/ \E w \in Worker : WorkerSends(d, w)
        \/ \E g \in 1 .. MaxGates : GateResolve(g)
        \/ \E w \in Worker : Exit(w) \/ ExitHeadless(w)
        \/ Reset \/ MessagesGone \/ RunStop \/ Restart \/ TornWrite

Spec == Init /\ [][Next]_vars

-----------------------------------------------------------------------------
(* Fairness.                                                                *)

\* Timers fire and awaited calls settle (writeTerminalAction after 500 ms,
\* createTerminal within its timeout), so the loop goes on.
LoopFairness == \A c \in Coord : WF_vars(Loop(c))

\* Not for ever is a terminal missing, or the worktree behind its base.
ResourceFairness ==
  \A c \in Coord : /\ SF_vars(Loop(c) /\ ListTerminals(c) /\ free'[c] # {})
                   /\ SF_vars(Loop(c) /\ CreateTerminal(c) /\ free'[c] # {})
                   /\ SF_vars(Loop(c) /\ DispatchNext(c) /\ Len(ctx') > Len(ctx))

\* The preamble's rule: while workers hold tasks, one of them reports in the end.
WorkerFairness ==
  SF_vars(\E d \in 1 .. MaxCtx, w \in Worker :
            WorkerSends(d, w) /\ Active(d) /\ ctx[d].who = w)

LoopFairSpec == Spec /\ LoopFairness

FairSpec == Spec /\ LoopFairness /\ ResourceFairness /\ WorkerFairness

-----------------------------------------------------------------------------
(* Types.                                                                   *)

LoopTypeOK == /\ pc \in [Coord -> PC]
              /\ stopped \in [Coord -> BOOLEAN]
              /\ todo \in [Coord -> SUBSET Task]
              /\ slots \in [Coord -> Int]
              /\ free \in [Coord -> SUBSET Worker]
              /\ cur \in [Coord -> Nat]
              /\ failedSeen \in [Coord -> SUBSET Task]
              /\ at \in 0 .. Len(inbox)

\* Every variable keeps its type; a loop that awaits an injection names a
\* dispatch that was made, and only a loop that is on may hold the thread.
TypeOK == /\ status \in [Task -> TaskStatus \cup {"none", "deleted"}]
          /\ deps \in [Task -> SUBSET Task]
          /\ ctx \in Seq(CtxRow)
          /\ gate \in Seq(GateRow)
          /\ inbox \in Seq(Message)
          /\ run \in [Coord -> RunStatus]
          /\ LoopTypeOK
          /\ thread \in Coord \cup {Nobody}
          /\ active \in Coord \cup {Nobody}
          /\ live \in SUBSET Worker
          /\ gone \in SUBSET Worker
          /\ rpcSend \in SUBSET (DOMAIN ctx)
          /\ byHand \in SUBSET Task

-----------------------------------------------------------------------------
(* Dispatch contexts and tasks.                                             *)

\* The dispatch lock of createDispatchContext: two dispatches are never active
\* on one terminal, whoever dispatches, fails, gates, resets or restarts.
TerminalExclusive ==
  \A d, e \in DOMAIN ctx : Active(d) /\ Active(e) /\ ctx[d].who = ctx[e].who => d = e

\* A task that shows as dispatched has a worker: its latest dispatch is active.
\* Nothing would ever make the task move again if it were not.
DispatchedHasActiveContext ==
  \A t \in Tasks("dispatched") : \E d \in DOMAIN ctx : Latest(d, t) /\ Active(d)

\* An active dispatch belongs to a task that shows as dispatched, and is the
\* latest of the task: no two workers work on one task, and no terminal is held
\* by a dispatch that neither a worker_done nor a retry can close.
OneWorkerPerTask ==
  \A d \in DOMAIN ctx : Active(d) => status[ctx[d].task] = "dispatched" /\ Latest(d, ctx[d].task)

\* An active dispatch whose preamble has been delivered is on a terminal that
\* is still there: whatever the order of exits and injections, a worker's
\* death is noticed.
NoOrphanedDispatch ==
  \A d \in DOMAIN ctx : Active(d) /\ ~InFlight(d) => ctx[d].who \in live

\* The breaker's verdict is final: a dispatch is never active for a task one of
\* whose dispatches has tripped it.
BrokenStaysBroken ==
  \A d, e \in DOMAIN ctx :
    /\ ctx[d].status = "circuit_broken"
    /\ ctx[e].task = ctx[d].task
    => ~Active(e) /\ status[ctx[d].task] = "failed"

\* The breaker trips after three failed dispatches of the task, not before.
BreakerAfterThreeDispatches ==
  \A d \in DOMAIN ctx : ctx[d].status = "circuit_broken" => Cardinality(Rows(ctx[d].task)) >= 3

\* What completes a task is a worker_done about the dispatch that is active at
\* that moment, from the terminal it was given to; that dispatch completes.
CompletionAuthority ==
  [][\A t \in Task : status[t] # "completed" /\ status'[t] = "completed" =>
       \E d \in DOMAIN ctx :
         /\ ctx[d].task = t /\ Active(d)
         /\ ctx'[d].status = "completed"
         /\ \E i \in DOMAIN inbox : /\ inbox[i].type = "worker_done"
                                    /\ inbox[i].ctx = d
                                    /\ inbox[i].from = ctx[d].who]_vars

-----------------------------------------------------------------------------
(* The dependency graph.                                                    *)

\* A task is offered to a worker only when all it depends on is completed.
ReadyMeansDepsDone ==
  \A t \in Tasks("ready") \cup Tasks("dispatched") : deps[t] \subseteq Tasks("completed")

\* A task does not keep waiting for dependencies that are all completed.
NoStrandedTask == \A t \in Tasks("pending") : ~(deps[t] \subseteq Tasks("completed"))

-----------------------------------------------------------------------------
(* Decision gates.                                                          *)

\* A gate blocks its task until it is resolved: the task is not dispatched.
GateHoldsTask == \A t \in Tasks("dispatched") : ~PendingGate(t)

\* A blocked task has no worker: creating a gate completed its dispatch.
BlockedHasNoWorker ==
  \A d \in DOMAIN ctx : Active(d) => status[ctx[d].task] # "blocked"

-----------------------------------------------------------------------------
(* The loop and its run.                                                    *)

Looping(c) == pc[c] \notin {"off", "done"}

\* One loop at a time, across stops, ends, failures and new runs.
OneLoop == \A c, e \in Coord : Looping(c) /\ Looping(e) => c = e

\* A run that shows as running has a loop, and runStop can reach the loop or
\* has already told it to stop: otherwise no run could ever be started again.
RunIsStoppable == \A c \in Coord : run[c] = "running" => Looping(c) /\ (active = c \/ stopped[c])

\* The tasks the loop itself has given out never exceed maxConcurrent, although
\* it counts once a tick and then awaits terminals, probes and injections while
\* tasks are dispatched by hand, fail, complete and become ready again.
OwnTasks == Tasks("dispatched") \ byHand
OwnLimit == Cardinality(OwnTasks) <= MaxConcurrent

\* A run reported completed has all its tasks completed, now and later.
VerdictStands == \A c \in Coord : run[c] = "completed" => \A t \in Task : Present(t) => status[t] = "completed"

-----------------------------------------------------------------------------
(* Liveness.                                                                *)

\* A loop that is told to stop ends, wherever the stop catches it.
StopEndsRun == \A c \in Coord : stopped[c] ~> ~Looping(c)

\* A task the run is done with, or that waits for one that will not complete.
Settled(t) == \/ status[t] \in {"completed", "failed"}
              \/ status[t] = "pending" /\ \E u \in deps[t] : status[u] \in {"failed", "pending"}

\* While a loop is on, work runs out: every task that can be worked on is
\* brought to an end, within the breaker's retries, unless the loop is stopped.
WorkRunsOut ==
  \A c \in Coord : Looping(c) ~> stopped[c] \/ \A t \in Task : Present(t) => Settled(t)

=============================================================================
