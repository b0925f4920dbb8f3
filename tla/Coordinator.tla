----------------------------- MODULE Coordinator -----------------------------
(***************************************************************************)
(* The polling loop of src/main/runtime/orchestration/coordinator.ts.      *)
(*                                                                         *)
(* One tick reads the coordinator's messages, re-blocks gated tasks and    *)
(* takes the list of ready tasks without yielding the JavaScript thread;   *)
(* then it awaits the terminal list, perhaps a new terminal, and for each  *)
(* dispatch the drift probe and the injection of the preamble. Between two *)
(* awaits no other handler runs: "thread" names the instance that is in    *)
(* the middle of such a stretch, and every other action waits for it to be *)
(* Nobody. The loop takes its decisions from "todo", "slots" and "free",   *)
(* which it filled in before the awaits that follow.                       *)
(***************************************************************************)
EXTENDS OrchestrationDb, Integers

CONSTANTS MaxConcurrent,  \* maxConcurrent of CoordinatorOptions
          MaxCtx,         \* bound: dispatch contexts ever created
          MaxGates,       \* bound: decision gates ever created
          Nobody          \* no instance: the thread is free, the reference is null

\* The tables hold finitely many rows, and a handle is neither an instance nor null.
ASSUME CoordinatorAssumption ==
  /\ IsFiniteSet(Task)
  /\ MaxConcurrent \in Nat \ {0}
  /\ MaxCtx \in Nat
  /\ MaxGates \in Nat
  /\ Nobody \notin Coord
  /\ Nobody \notin Worker

VARIABLES pc,          \* where the loop of an instance stands
          stopped,     \* Coordinator.stopped
          todo,        \* readyTasks not yet tried in this tick
          slots,       \* slotsAvailable
          free,        \* terminals not yet taken in this tick
          cur,         \* id of the dispatch being injected, 0 if none
          failedSeen,  \* state.failedTasks
          at,          \* messages of the unread batch handled so far
          thread,      \* the instance in the middle of a synchronous stretch
          active,      \* activeCoordinator of orchestration-gates.ts
          live,        \* terminals listTerminals reports connected and writable
          gone         \* terminals that have exited; a handle is never reissued

loopVars == <<pc, stopped, todo, slots, free, cur, failedSeen>>
hostVars == <<thread, active, live, gone>>

PC == {"off", "messages", "list", "create", "dispatch", "send", "converge", "sleep", "done"}

CoordInit == /\ pc = [c \in Coord |-> "off"]
             /\ stopped = [c \in Coord |-> FALSE]
             /\ todo = [c \in Coord |-> {}]
             /\ slots = [c \in Coord |-> 0]
             /\ free = [c \in Coord |-> {}]
             /\ cur = [c \in Coord |-> 0]
             /\ failedSeen = [c \in Coord |-> {}]
             /\ at = 0
             /\ thread = Nobody
             /\ active = Nobody
             /\ live \in SUBSET Worker
             /\ gone = {}

-----------------------------------------------------------------------------
(* The end of executeLoop.                                                  *)

\* Mutant: the loop ends and its row keeps the status running.
EndKeepsRow(c, final) ==
  /\ pc' = [pc EXCEPT ![c] = "done"]
  /\ thread' = Nobody
  /\ active' = IF active = c THEN Nobody ELSE active
  /\ UNCHANGED run

\* updateCoordinatorRun writes nothing when the row was deleted by a reset.
End(c, final) ==
  /\ run' = [run EXCEPT ![c] = IF @ = "running" THEN final ELSE @]
  /\ pc' = [pc EXCEPT ![c] = "done"]
  /\ thread' = Nobody
  /\ active' = IF active = c THEN Nobody ELSE active

AllDone == \A t \in Task : Present(t) => status[t] \in {"completed", "failed"}

\* Mutant: only the failures this instance saw count, not those in the table.
FinishOnOwnFailures(c) ==
  End(c, IF stopped[c] \/ failedSeen[c] # {} \/ ~AllDone THEN "failed" ELSE "completed")

Finish(c) ==
  End(c, IF stopped[c] \/ failedSeen[c] # {} \/ Tasks("failed") # {} \/ ~AllDone
         THEN "failed" ELSE "completed")

-----------------------------------------------------------------------------
(* processMessages: one message at a time, the thread held throughout.      *)

\* Mutant: whoever names the dispatch may complete it.
AcceptedFromAnyone(m) == /\ Present(m.task)
                         /\ Active(m.ctx) /\ ctx[m.ctx].task = m.task
                         /\ Latest(m.ctx, m.task)
                         /\ status[m.task] = "dispatched"

\* Everything handleWorkerDone checks before it completes the task.
Accepted(m) == /\ Present(m.task)
               /\ Exists(m.ctx)
               /\ ctx[m.ctx].task = m.task
               /\ ctx[m.ctx].who = m.from
               /\ ctx[m.ctx].status = "dispatched"
               /\ Latest(m.ctx, m.task)
               /\ status[m.task] = "dispatched"

HandleWorkerDone(c, m) ==
  /\ m.type = "worker_done"
  /\ \/ Accepted(m) /\ UpdateTaskStatus(m.task, "completed")
     \/ ~Accepted(m) /\ UNCHANGED <<status, ctx>>
  /\ UNCHANGED <<gate, failedSeen>>

\* Mutant: the status of the task is not looked at.
EscalatesAnyway(m) == Present(m.task) /\ Rows(m.task) # {}

\* handleEscalation fails the latest dispatch of the task, active or not.
Escalates(m) == /\ status[m.task] \in TaskStatus \ {"completed", "failed"}
                /\ Rows(m.task) # {}

HandleEscalation(c, m) ==
  /\ m.type = "escalation"
  /\ \/ /\ Escalates(m)
        /\ \E d \in Rows(m.task) :
             /\ Latest(d, m.task)
             /\ FailDispatch(d)
             /\ failedSeen' = [failedSeen EXCEPT ![c] = IF Breaks(d) THEN @ \cup {m.task} ELSE @]
     \/ ~Escalates(m) /\ UNCHANGED <<status, ctx, failedSeen>>
  /\ UNCHANGED gate

HandleDecisionGate(c, m) ==
  /\ m.type = "decision_gate"
  /\ CreateGate(m.task)
  /\ UNCHANGED failedSeen

\* The batch is what getUnreadMessages returned; nothing can be added to it
\* while the thread is held, and markAsRead comes only after the last one.
ProcessMessage(c) ==
  /\ thread = c /\ pc[c] = "messages" /\ at < Len(inbox)
  /\ \/ HandleWorkerDone(c, inbox[at + 1])
     \/ HandleEscalation(c, inbox[at + 1])
     \/ HandleDecisionGate(c, inbox[at + 1])
  /\ at' = at + 1
  /\ UNCHANGED <<deps, inbox, run, pc, stopped, todo, slots, free, cur, hostVars>>

\* A handler throws: executeLoop closes the run, and the batch stays unread.
HandlerThrows(c) ==
  /\ thread = c /\ pc[c] = "messages" /\ at < Len(inbox)
  /\ inbox[at + 1].type = "malformed"
  /\ at' = 0
  /\ End(c, "failed")
  /\ UNCHANGED <<status, deps, ctx, gate, inbox, stopped, todo, slots, free, cur, failedSeen, live, gone>>

-----------------------------------------------------------------------------
(* processDecisionGates and the first half of dispatchReadyTasks.           *)

\* Mutant: gated tasks are not blocked again.
NotReblocked == status

\* Every task with a pending gate is blocked again.
Reblocked == [t \in Task |-> IF Present(t) /\ PendingGate(t) THEN "blocked" ELSE status[t]]

ScanReady(c) ==
  LET ready == {t \in Task : Reblocked[t] = "ready"}
      used  == Cardinality({t \in Task : Reblocked[t] = "dispatched"})
  IN /\ thread = c /\ pc[c] = "messages" /\ at = Len(inbox)
     /\ inbox' = <<>>
     /\ at' = 0
     /\ status' = Reblocked
     /\ \/ /\ ready = {} \/ used >= MaxConcurrent
           /\ pc' = [pc EXCEPT ![c] = "converge"]
           /\ UNCHANGED <<todo, slots, thread>>
        \/ /\ ready # {} /\ used < MaxConcurrent
           /\ pc' = [pc EXCEPT ![c] = "list"]
           /\ todo' = [todo EXCEPT ![c] = ready]
           /\ slots' = [slots EXCEPT ![c] = MaxConcurrent - used]
           /\ thread' = Nobody
     /\ UNCHANGED <<deps, ctx, gate, run, stopped, free, cur, failedSeen, active, live, gone>>

-----------------------------------------------------------------------------
(* getAvailableTerminals and createTerminal.                                *)

BusyHandles == {w \in Worker : \E t \in Tasks("dispatched") :
                                 \E d \in Rows(t) : Latest(d, t) /\ ctx[d].who = w}

\* The listing can also throw, which counts as no terminal.
ListTerminals(c) ==
  /\ thread = Nobody /\ pc[c] = "list"
  /\ \E ws \in {live \ BusyHandles, {}} :
       /\ free' = [free EXCEPT ![c] = ws]
       /\ pc' = [pc EXCEPT ![c] = IF ws = {} THEN "create" ELSE "dispatch"]
  /\ UNCHANGED <<dbVars, stopped, todo, slots, cur, failedSeen, at, hostVars>>

CreateTerminal(c) ==
  /\ thread = Nobody /\ pc[c] = "create"
  /\ \/ \E w \in Worker \ (live \cup gone) :
          /\ live' = live \cup {w}
          /\ free' = [free EXCEPT ![c] = {w}]
          /\ pc' = [pc EXCEPT ![c] = "dispatch"]
          /\ UNCHANGED thread
     \/ /\ pc' = [pc EXCEPT ![c] = "converge"]
        /\ thread' = c
        /\ UNCHANGED <<live, free>>
  /\ UNCHANGED <<dbVars, stopped, todo, slots, cur, failedSeen, at, active, gone>>

-----------------------------------------------------------------------------
(* The dispatch loop. The body first takes a task and a terminal, which     *)
(* touches only local state, then awaits the drift probe; what follows the  *)
(* probe is one step. At the loop's end the convergence check follows in    *)
(* the same stretch.                                                        *)

\* The head of the "for": go on while a task, a slot and a terminal are left.
LoopHead(c, more) == /\ pc' = [pc EXCEPT ![c] = IF more THEN "dispatch" ELSE "converge"]
                     /\ thread' = IF more THEN Nobody ELSE c

\* Mutant: the slots are not counted down.
MoreToTryUncounted(ts, n, ws) == ts # {} /\ ws # {}

MoreToTry(ts, n, ws) == ts # {} /\ n > 0 /\ ws # {}

\* sendTerminal throws at once when the terminal is gone: then the failure is
\* recorded before the thread is released.
DispatchNext(c) ==
  /\ thread = Nobody /\ pc[c] = "dispatch"
  /\ \E t \in todo[c], w \in free[c] :
       /\ todo' = [todo EXCEPT ![c] = @ \ {t}]
       /\ free' = [free EXCEPT ![c] = @ \ {w}]
       /\ slots' = [slots EXCEPT ![c] = @ - 1]
       /\ \/ /\ Len(ctx) < MaxCtx
             /\ CreateDispatchContext(t, w)
             /\ pc' = [pc EXCEPT ![c] = "send"]
             /\ cur' = [cur EXCEPT ![c] = Len(ctx) + 1]
             /\ thread' = IF w \in live THEN Nobody ELSE c
          \/ \* the worktree is too far behind, or createDispatchContext throws
             /\ LoopHead(c, MoreToTry(todo[c] \ {t}, slots[c] - 1, free[c] \ {w}))
             /\ UNCHANGED <<ctx, status, cur>>
  /\ UNCHANGED <<deps, gate, inbox, run, stopped, failedSeen, at, active, live, gone>>

\* Mutant: a failed injection is logged and no more.
SendSettlesUnrecorded(c) ==
  /\ thread \in {Nobody, c} /\ pc[c] = "send"
  /\ cur' = [cur EXCEPT ![c] = 0]
  /\ LoopHead(c, MoreToTry(todo[c], slots[c], free[c]))
  /\ UNCHANGED <<dbVars, failedSeen, stopped, todo, slots, free, at, active, live, gone>>

\* sendTerminal settles. A failure fails the dispatch it was made for.
SendSettles(c) ==
  /\ thread \in {Nobody, c} /\ pc[c] = "send"
  /\ \/ /\ thread = Nobody
        /\ UNCHANGED <<ctx, status, failedSeen>>
     \/ /\ FailDispatch(cur[c])
        /\ failedSeen' = [failedSeen EXCEPT ![c] =
                            IF Exists(cur[c]) /\ Breaks(cur[c]) THEN @ \cup {ctx[cur[c]].task} ELSE @]
  /\ cur' = [cur EXCEPT ![c] = 0]
  /\ LoopHead(c, MoreToTry(todo[c], slots[c], free[c]))
  /\ UNCHANGED <<deps, gate, inbox, run, stopped, todo, slots, free, at, active, live, gone>>

-----------------------------------------------------------------------------
(* checkConvergence and the sleep.                                          *)

Converge(c) ==
  /\ thread = c /\ pc[c] = "converge"
  /\ \/ AllDone /\ Finish(c)
     \/ /\ ~AllDone
        /\ pc' = [pc EXCEPT ![c] = "sleep"]
        /\ thread' = Nobody
        /\ UNCHANGED <<run, active>>
  /\ todo' = [todo EXCEPT ![c] = {}]
  /\ free' = [free EXCEPT ![c] = {}]
  /\ slots' = [slots EXCEPT ![c] = 0]
  /\ UNCHANGED <<status, deps, ctx, gate, inbox, stopped, cur, failedSeen, at, live, gone>>

\* Mutant: the flag is not read after the sleep.
WakeAnyway(c) ==
  /\ thread = Nobody /\ pc[c] = "sleep"
  /\ pc' = [pc EXCEPT ![c] = "messages"]
  /\ thread' = c
  /\ UNCHANGED <<dbVars, stopped, todo, slots, free, cur, failedSeen, at, active, live, gone>>

Wake(c) ==
  /\ thread = Nobody /\ pc[c] = "sleep"
  /\ \/ stopped[c] /\ Finish(c)
     \/ /\ ~stopped[c]
        /\ pc' = [pc EXCEPT ![c] = "messages"]
        /\ thread' = c
        /\ UNCHANGED <<run, active>>
  /\ UNCHANGED <<status, deps, ctx, gate, inbox, stopped, todo, slots, free, cur, failedSeen, at, live, gone>>

LoopStep(c) == \/ ProcessMessage(c) \/ HandlerThrows(c) \/ ScanReady(c)
               \/ ListTerminals(c) \/ CreateTerminal(c)
               \/ DispatchNext(c) \/ SendSettles(c) \/ Converge(c) \/ Wake(c)

=============================================================================
