----------------------------- MODULE BoardProofs -----------------------------
(***************************************************************************)
(* The coordinator left alone with its workers: nobody dispatches, sets a  *)
(* status, resets or gates a task by hand. Then what happens to the tasks  *)
(* is one of four events, whichever handler it happens in, and the         *)
(* coordinator implements the board of TaskBoard.                          *)
(***************************************************************************)
EXTENDS WorkProofs, OrchestrationBoard

\* Exits, failed injections, late and forged messages, stops, checks and
\* restarts remain.
Alone == {"dispatch", "dispatch-manual", "task-update", "gate-create", "decision_gate",
          "reset", "torn-write"} \cap Ops = {}

NoGates == gate = <<>> /\ \A i \in DOMAIN inbox : inbox[i].type # "decision_gate"

LEMMA PostNoGate ==
  ASSUME TypeOK, NoGates, NEW m, m.type # "decision_gate", inbox' = Append(inbox, m), gate' = gate
  PROVE  NoGates'
<1>1. /\ DOMAIN inbox' = DOMAIN inbox \cup {Len(inbox) + 1}
      /\ \A i \in DOMAIN inbox : inbox'[i] = inbox[i]
      /\ inbox'[Len(inbox) + 1] = m
  BY DEF TypeOK
<1> QED
  BY <1>1 DEF NoGates

LEMMA LoopGateless ==
  ASSUME TypeOK, NoGates, NEW c \in Coord, LoopStep(c)
  PROVE  NoGates'
<1>1. CASE ProcessMessage(c)
  <2>1. at + 1 \in DOMAIN inbox
    BY <1>1 DEF ProcessMessage, TypeOK, LoopTypeOK
  <2> QED
    BY <1>1, <2>1 DEF ProcessMessage, HandleWorkerDone, HandleEscalation, HandleDecisionGate, NoGates
<1>2. CASE ~ProcessMessage(c)
  <2>1. gate' = gate /\ (inbox' = inbox \/ inbox' = <<>>)
    BY <1>2 DEF LoopStep, HandlerThrows, ScanReady, ListTerminals, CreateTerminal, DispatchNext,
       SendSettles, Converge, Wake, dbVars
  <2> QED
    BY <2>1 DEF NoGates
<1> QED
  BY <1>1, <1>2

LEMMA NextGateless ==
  ASSUME Alone, TypeOK, NoGates, [Next]_vars
  PROVE  NoGates'
<1>1. ASSUME NEW c \in Coord, Loop(c) PROVE NoGates'
  BY <1>1, LoopGateless DEF Loop
<1>2. ASSUME gate' = gate, inbox' = inbox \/ inbox' = <<>> PROVE NoGates'
  BY <1>2 DEF NoGates
<1>3. ASSUME NEW c, Run(c) PROVE NoGates'
  BY <1>2, <1>3 DEF Run
<1>4. ASSUME NEW t, NEW D, TaskCreate(t, D) PROVE NoGates'
  BY <1>2, <1>4 DEF TaskCreate
<1>5. ASSUME NEW t, NEW w, Dispatch(t, w) PROVE NoGates'
  BY <1>2, <1>5 DEF Dispatch
<1>6. ASSUME NEW d, DispatchSettles(d) PROVE NoGates'
  BY <1>2, <1>6 DEF DispatchSettles
<1>7. ASSUME NEW d, NEW w, WorkerSends(d, w) PROVE NoGates'
  BY <1>7, PostNoGate DEF WorkerSends, Post, Alone
<1>8. ASSUME NEW w, Exit(w) PROVE NoGates'
  <2>1. gate' = gate
    BY <1>8 DEF Exit
  <2> QED
    BY <1>2, <1>8, <2>1, PostNoGate DEF Exit, Post
<1>9. ASSUME NEW w, ExitHeadless(w) PROVE NoGates'
  BY <1>2, <1>9 DEF ExitHeadless, dbVars
<1>10. ASSUME NEW g, GateResolve(g) PROVE FALSE
  BY <1>10 DEF GateResolve, ResolveGate, NoGates
<1>11. ASSUME MessagesGone \/ RunStop \/ Restart \/ UNCHANGED vars PROVE NoGates'
  BY <1>2, <1>11 DEF MessagesGone, ResetMessages, RunStop, Restart, dbVars, vars
<1>12. ASSUME \/ \E t \in Task : GateCreate(t) \/ \E s \in ManualStatuses : TaskUpdate(t, s)
              \/ Reset \/ TornWrite
       PROVE  FALSE
  BY <1>12 DEF GateCreate, TaskUpdate, Reset, TornWrite, May, Alone
<1> QED
  BY <1>1, <1>3, <1>4, <1>5, <1>6, <1>7, <1>8, <1>9, <1>10, <1>11, <1>12 DEF Next

\* All tasks that are worked on are the loop's own.
NoHands == byHand = {}

LEMMA NextHandless ==
  ASSUME Alone, NoHands, [Next]_vars
  PROVE  NoHands'
<1>1. ASSUME NEW c \in Coord, Loop(c) PROVE NoHands'
  BY <1>1 DEF Loop, NoHands
<1>2. \A t \in Task, w \in Worker : ~Dispatch(t, w)
  BY DEF Dispatch, Alone
<1> QED
  BY <1>1, <1>2, OthersKeepHand DEF NoHands

\* The invariants of the other modules, which hold here.
LoopInv == TypeInv /\ RunInv /\ WorkInv /\ LimitInv /\ NoGates /\ NoHands

LEMMA Looped ==
  ASSUME Alone
  PROVE  Spec => []LoopInv
<1>0. OnlyLoopsDispatch /\ "reset" \notin Ops
  BY DEF Alone, OnlyLoopsDispatch
<1>1. Spec => [](TypeInv /\ NoGates /\ NoHands)
  <2>1. Init => TypeInv /\ NoGates /\ NoHands
    BY TypeInit DEF Init, DbInit, NoGates, NoHands
  <2>2. TypeInv /\ NoGates /\ NoHands /\ [Next]_vars => (TypeInv /\ NoGates /\ NoHands)'
    BY NextTypes, NextGateless, NextHandless DEF TypeInv
  <2> QED
    BY <2>1, <2>2, PTL DEF Spec
<1>2. Spec => GatesOneByOne
  <2>1. NoGates => [\A g \in DOMAIN gate : GateResolve(g) => Sole(g)]_vars
    BY DEF NoGates
  <2> QED
    BY <1>1, <2>1, PTL DEF GatesOneByOne
<1>3. Spec /\ GatesOneByOne => [](TypeInv /\ RunInv /\ WorkInv)
  BY <1>0, Working
<1>4. Spec => []LimitInv
  BY Limiting DEF Alone
<1> QED
  BY <1>1, <1>2, <1>3, <1>4, PTL DEF LoopInv

-----------------------------------------------------------------------------
(* What happens to the tasks.                                               *)

Created(t, D) == /\ CreateTask(t, D)
                 /\ \A u \in D : status[u] # "none"
                 /\ \/ "task-create-late" \in Ops
                    \/ ctx = <<>> /\ \A c \in Coord : run[c] = "none"
                 /\ ctx' = ctx

Given(t, w) == /\ CreateDispatchContext(t, w)
               /\ Cardinality(Tasks("dispatched")) < MaxConcurrent
               /\ deps' = deps

Reported(t) == /\ status[t] = "dispatched"
               /\ UpdateTaskStatus(t, "completed")
               /\ deps' = deps

\* The dispatch that fails is the latest, and is not always active any more:
\* its injection can fail after its terminal's exit was noticed, and a worker
\* can escalate after that.
Failed(d) == /\ Latest(d, ctx[d].task)
             /\ status[ctx[d].task] \in {"dispatched", "ready", "failed"}
             /\ FailDispatch(d)
             /\ deps' = deps

\* No loop has a dispatch in its hands that it did not have before.
HandsDown == \A c \in Coord : cur'[c] \in {0, cur[c]}

Event == \/ HandsDown /\ UNCHANGED <<status, deps, ctx>>
         \/ HandsDown /\ \E t \in Task, D \in SUBSET Task : Created(t, D)
         \/ HandsDown /\ \E d : Failed(d)
         \/ /\ \A c \in Coord : cur'[c] \in {0, cur[c], Len(ctx) + 1}
            /\ \E t \in Task, w \in Worker : Given(t, w)
         \/ /\ \A c \in Coord : cur'[c] = 0
            /\ \E t \in Task : Reported(t)

\* A task whose dispatch is being injected is not completed: only the loop that
\* injects could do that.
Sending == \A c \in Coord : cur[c] # 0 => status[ctx[cur[c]].task] # "completed"

\* Whatever the history of a task, its state, its dispatches and the tasks it
\* waits for agree.
DispatchCounts ==
  \A t \in Task :
    /\ status[t] \in {"none", "pending"} => Rows(t) = {}
    /\ status[t] \in {"ready", "dispatched"} => \A d \in Rows(t) : ctx[d].fails <= 2
    /\ \A d \in Rows(t) : ctx[d].status = "circuit_broken" => status[t] = "failed"
    /\ \A d : Latest(d, t) =>
         /\ status[t] = "ready" => ctx[d].fails >= 1
         /\ status[t] = "failed" => ctx[d].fails >= 3
         /\ \A e \in Rows(t) : ctx[e].fails <= ctx[d].fails

WaitsInv ==
  /\ \A t \in Task : status[t] # "blocked"
  /\ \A t \in Task : status[t] \notin {"none", "pending"} => deps[t] \subseteq Tasks("completed")
  /\ ctx = <<>> => \A t \in Task : status[t] \notin {"dispatched", "completed"}

TasksInv == Sending /\ DispatchCounts /\ WaitsInv

LEMMA ProcessMessageEvent ==
  ASSUME LoopInv, TasksInv, NEW c \in Coord, ProcessMessage(c)
  PROVE  Event
<1>1. PICK m : m = inbox[at + 1] /\ at + 1 \in DOMAIN inbox
  BY DEF ProcessMessage, LoopInv, TypeInv, TypeOK, LoopTypeOK
<1>2. deps' = deps /\ cur' = cur /\ HandsDown
  BY DEF ProcessMessage, HandsDown
<1>3. \A e \in Coord : cur[e] = 0
  <2>1. \A e \in Coord : Looping(e) => e = c
    BY RunInvOneLoop DEF OneLoop, Looping, ProcessMessage, LoopInv
  <2> QED
    BY <2>1 DEF LoopInv, WorkInv, HandInv, Looping, ProcessMessage
<1>4. CASE HandleWorkerDone(c, m)
  <2>1. CASE Accepted(m) /\ UpdateTaskStatus(m.task, "completed")
    <3>1. m.task \in Task /\ Reported(m.task)
      BY <1>1, <1>2, <1>4, <2>1, MessageType
         DEF Accepted, Reported, HandleWorkerDone, LoopInv, TypeInv
    <3> QED
      BY <1>2, <1>3, <3>1 DEF Event
  <2> QED
    BY <1>2, <1>4, <2>1 DEF HandleWorkerDone, Event
<1>5. CASE HandleEscalation(c, m)
  <2>1. CASE Escalates(m)
    <3>1. PICK d \in Rows(m.task) : Latest(d, m.task) /\ FailDispatch(d)
      BY <1>5, <2>1 DEF HandleEscalation
    <3>2. m.task \in Task /\ ctx[d].task = m.task
      BY <1>1, <1>5, MessageType DEF HandleEscalation, Rows, LoopInv, TypeInv
    <3>3. status[m.task] \in {"dispatched", "ready"}
      BY <2>1, <3>1, <3>2 DEF Escalates, TaskStatus, TasksInv, DispatchCounts, WaitsInv
    <3>4. Failed(d)
      BY <1>2, <3>1, <3>2, <3>3 DEF Failed
    <3> QED
      BY <1>2, <3>4 DEF Event
  <2> QED
    BY <1>2, <1>5, <2>1 DEF HandleEscalation, Event
<1>6. CASE HandleDecisionGate(c, m)
  BY <1>1, <1>6 DEF HandleDecisionGate, LoopInv, NoGates
<1> QED
  BY <1>1, <1>4, <1>5, <1>6 DEF ProcessMessage

LEMMA DispatchNextEvent ==
  ASSUME LoopInv, NEW c \in Coord, DispatchNext(c)
  PROVE  Event
<1>1. deps' = deps /\ cur \in [Coord -> Nat] /\ pc[c] = "dispatch"
  BY DEF DispatchNext, LoopInv, TypeInv, TypeOK, LoopTypeOK
<1>2. PICK t \in todo[c], w \in free[c] :
        \/ CreateDispatchContext(t, w) /\ cur' = [cur EXCEPT ![c] = Len(ctx) + 1]
        \/ UNCHANGED <<ctx, status, cur>>
  BY DEF DispatchNext
<1>3. t \in Task /\ w \in Worker
  BY DEF LoopInv, TypeInv, TypeOK, LoopTypeOK
<1>4. CASE CreateDispatchContext(t, w) /\ cur' = [cur EXCEPT ![c] = Len(ctx) + 1]
  <2>1. PICK n : n = Cardinality(Tasks("dispatched"))
    OBVIOUS
  <2>2. n \in Nat /\ n + slots[c] <= MaxConcurrent /\ slots[c] >= 1 /\ slots[c] \in Int
    <3>1. OwnTasks = Tasks("dispatched")
      BY DEF OwnTasks, LoopInv, NoHands
    <3> QED
      BY <1>1, <2>1, <3>1, OwnFinite DEF LoopInv, LimitInv, InTick, Within, TypeInv, TypeOK, LoopTypeOK
  <2>3. n < MaxConcurrent
    BY <2>2, CoordinatorAssumption
  <2>4. Given(t, w)
    BY <1>1, <1>4, <2>1, <2>3 DEF Given
  <2>5. \A e \in Coord : cur'[e] \in {0, cur[e], Len(ctx) + 1}
    BY <1>1, <1>4
  <2> QED
    BY <1>3, <2>4, <2>5 DEF Event
<1>5. CASE UNCHANGED <<ctx, status, cur>>
  BY <1>1, <1>5 DEF Event, HandsDown
<1> QED
  BY <1>2, <1>4, <1>5

LEMMA SendSettlesEvent ==
  ASSUME LoopInv, TasksInv, NEW c \in Coord, SendSettles(c)
  PROVE  Event
<1>1. deps' = deps /\ HandsDown
  <2>1. cur \in [Coord -> Nat] /\ cur' = [cur EXCEPT ![c] = 0]
    BY DEF SendSettles, LoopInv, TypeInv, TypeOK, LoopTypeOK
  <2> QED
    BY <2>1 DEF HandsDown, SendSettles
<1>2. CASE UNCHANGED <<ctx, status>>
  BY <1>1, <1>2 DEF Event
<1>3. CASE FailDispatch(cur[c]) /\ ~UNCHANGED <<ctx, status>>
  <2>1. PICK d, t : d = cur[c] /\ t = ctx[d].task
    OBVIOUS
  <2>2. d \in DOMAIN ctx /\ d # 0 /\ t \in Task
    BY <1>3, <2>1, RowTask DEF FailDispatch, Exists, LoopInv, TypeInv
  <2>3. Latest(d, t) /\ d \in Rows(t)
    BY <2>1, <2>2 DEF LoopInv, WorkInv, HandInv, Latest
  <2>4. status[t] \notin {"completed", "none", "pending", "blocked", "deleted"}
    BY <2>1, <2>2, <2>3
       DEF TasksInv, Sending, DispatchCounts, WaitsInv, LoopInv, WorkInv, StoreInv, IdsInv
  <2>5. status[t] \in {"dispatched", "ready", "failed"}
    BY <2>2, <2>4 DEF LoopInv, TypeInv, TypeOK, TaskStatus
  <2>6. Failed(d)
    BY <1>1, <1>3, <2>1, <2>3, <2>5 DEF Failed
  <2> QED
    BY <1>1, <2>6 DEF Event
<1> QED
  BY <1>2, <1>3 DEF SendSettles

LEMMA LoopEvent ==
  ASSUME LoopInv, TasksInv, NEW c \in Coord, LoopStep(c)
  PROVE  Event
<1>1. CASE HandlerThrows(c) \/ ListTerminals(c) \/ CreateTerminal(c) \/ Converge(c) \/ Wake(c)
  BY <1>1 DEF HandlerThrows, ListTerminals, CreateTerminal, Converge, Wake, dbVars, Event, HandsDown
<1>2. CASE ScanReady(c)
  <2>1. \A t : ~PendingGate(t)
    BY DEF LoopInv, NoGates, PendingGate
  <2>2. status' = status
    BY <1>2, <2>1 DEF ScanReady, Reblocked, LoopInv, TypeInv, TypeOK
  <2> QED
    BY <1>2, <2>2 DEF ScanReady, Event, HandsDown
<1> QED
  BY <1>1, <1>2, ProcessMessageEvent, DispatchNextEvent, SendSettlesEvent DEF LoopStep

LEMMA ExitEvent ==
  ASSUME LoopInv, TasksInv, NEW w, Exit(w)
  PROVE  Event
<1>1. deps' = deps /\ HandsDown
  BY DEF Exit, loopVars, HandsDown
<1>2. ASSUME NEW d \in DOMAIN ctx, Active(d), FailDispatch(d)
      PROVE  Failed(d)
  BY <1>1, <1>2 DEF Failed, LoopInv, WorkInv, StoreInv, OneWorkerPerTask
<1>3. CASE \E d \in DOMAIN ctx : Active(d) /\ FailDispatch(d)
  BY <1>1, <1>2, <1>3 DEF Event
<1>4. CASE UNCHANGED <<ctx, status>>
  BY <1>1, <1>4 DEF Event
<1> QED
  BY <1>3, <1>4 DEF Exit

LEMMA NextEvent ==
  ASSUME Alone, LoopInv, TasksInv, [Next]_vars
  PROVE  Event
<1>1. ASSUME NEW c \in Coord, Loop(c) PROVE Event
  BY <1>1, LoopEvent DEF Loop
<1>2. ASSUME NEW t \in Task, NEW D \in SUBSET Task, TaskCreate(t, D) PROVE Event
  <2>1. Created(t, D)
    BY <1>2 DEF TaskCreate, Created
  <2>2. HandsDown
    BY <1>2 DEF TaskCreate, loopVars, HandsDown
  <2> QED
    BY <2>1, <2>2 DEF Event
<1>3. ASSUME UNCHANGED <<status, deps, ctx, cur>> PROVE Event
  BY <1>3 DEF Event, HandsDown
<1>4. ASSUME NEW c, Run(c) PROVE UNCHANGED <<status, deps, ctx, cur>>
  BY <1>4 DEF Run
<1>5. ASSUME NEW d, NEW w, WorkerSends(d, w) PROVE UNCHANGED <<status, deps, ctx, cur>>
  BY <1>5 DEF WorkerSends, loopVars
<1>6. ASSUME NEW w, ExitHeadless(w) PROVE UNCHANGED <<status, deps, ctx, cur>>
  BY <1>6 DEF ExitHeadless, dbVars, loopVars
<1>7. ASSUME MessagesGone \/ RunStop \/ UNCHANGED vars PROVE UNCHANGED <<status, deps, ctx, cur>>
  BY <1>7 DEF MessagesGone, RunStop, vars, dbVars, loopVars
<1>8. ASSUME Restart PROVE Event
  BY <1>8 DEF Restart, ProcessLost, dbVars, Event, HandsDown
<1>9. ASSUME NEW t, NEW w, Dispatch(t, w) PROVE FALSE
  BY <1>9 DEF Dispatch, Alone
<1>10. ASSUME NEW d, DispatchSettles(d) PROVE FALSE
  BY <1>10 DEF DispatchSettles, LoopInv, WorkInv
<1>11. ASSUME NEW g, GateResolve(g) PROVE FALSE
  BY <1>11 DEF GateResolve, ResolveGate, LoopInv, NoGates
<1>12. ASSUME \/ \E t \in Task : GateCreate(t) \/ \E s \in ManualStatuses : TaskUpdate(t, s)
              \/ Reset \/ TornWrite
       PROVE  FALSE
  BY <1>12 DEF GateCreate, TaskUpdate, Reset, TornWrite, May, Alone
<1> QED
  BY <1>1, <1>2, <1>3, <1>4, <1>5, <1>6, <1>7, <1>8, <1>9, <1>10, <1>11, <1>12, ExitEvent DEF Next

-----------------------------------------------------------------------------
(* What each event writes.                                                  *)

LEMMA CreatedDoes ==
  ASSUME LoopInv, NEW t \in Task, NEW D \in SUBSET Task, Created(t, D)
  PROVE  /\ status[t] = "none" /\ t \notin D
         /\ status'[t] = (IF D = {} THEN "ready" ELSE "pending")
         /\ deps'[t] = D
         /\ \A u \in Task : u # t => status'[u] = status[u] /\ deps'[u] = deps[u]
         /\ ctx' = ctx /\ \A u : Rows(u)' = Rows(u)
BY DEF Created, CreateTask, Rows, LoopInv, TypeInv, TypeOK

\* The new dispatch inherits the greatest failure count of the older ones.
RowGiven(t, w, k, n) ==
  /\ k = Len(ctx) + 1
  /\ Rows(t)' = Rows(t) \cup {k}
  /\ \A d \in DOMAIN ctx : d < k /\ ctx'[d] = ctx[d]
  /\ ctx'[k] = [task |-> t, who |-> w, status |-> "dispatched", fails |-> n]
  /\ \A d \in Rows(t) : ctx[d].fails <= n
  /\ \/ Rows(t) = {} /\ n = 0
     \/ \E d \in Rows(t) : n = ctx[d].fails

LEMMA GivenDoes ==
  ASSUME LoopInv, NEW t \in Task, NEW w, Given(t, w)
  PROVE  /\ status[t] = "ready" /\ status'[t] = "dispatched"
         /\ \A u \in Task : u # t => status'[u] = status[u]
         /\ \A u : u # t => Rows(u)' = Rows(u)
         /\ \E k \in Nat, n \in Nat : RowGiven(t, w, k, n)
<1>1. PICK n \in PriorFailures(t) :
        ctx' = Append(ctx, [task |-> t, who |-> w, status |-> "dispatched", fails |-> n])
  BY DEF Given, CreateDispatchContext
<1>2. ctx \in Seq(CtxRow) /\ status \in [Task -> AnyStatus]
  BY TypeOKStore DEF StoreTypeOK, LoopInv, TypeInv
<1>3. n \in Nat
  BY <1>2, PriorFailuresType
<1>4. PICK k \in Nat : k = Len(ctx) + 1
  BY <1>2
<1>5. /\ DOMAIN ctx' = DOMAIN ctx \cup {k}
      /\ \A d \in DOMAIN ctx : d < k /\ ctx'[d] = ctx[d]
      /\ ctx'[k] = [task |-> t, who |-> w, status |-> "dispatched", fails |-> n]
  BY <1>1, <1>2, <1>4
<1>6. Rows(t)' = Rows(t) \cup {k} /\ \A u : u # t => Rows(u)' = Rows(u)
  BY <1>5 DEF Rows
<1>7. /\ \A d \in Rows(t) : ctx[d].fails <= n
      /\ (Rows(t) = {} /\ n = 0) \/ (\E d \in Rows(t) : n = ctx[d].fails)
  BY DEF PriorFailures
<1>8. status[t] = "ready" /\ status' = [status EXCEPT ![t] = "dispatched"]
  BY DEF Given, CreateDispatchContext, CanDispatch
<1>9. RowGiven(t, w, k, n)
  BY <1>4, <1>5, <1>6, <1>7 DEF RowGiven
<1> QED
  BY <1>2, <1>3, <1>4, <1>6, <1>8, <1>9

LEMMA ReportedDoes ==
  ASSUME LoopInv, NEW t \in Task, Reported(t)
  PROVE  /\ status[t] = "dispatched" /\ status'[t] = "completed"
         /\ \A u \in Task : u # t =>
              status'[u] = IF /\ status[u] = "pending" /\ t \in deps[u]
                              /\ \A v \in deps[u] : v = t \/ status[v] = "completed"
                           THEN "ready" ELSE status[u]
         /\ \A u : Rows(u)' = Rows(u)
         /\ \A d \in DOMAIN ctx : /\ ctx'[d].fails = ctx[d].fails
                                  /\ ctx'[d].task = ctx[d].task /\ ctx'[d].who = ctx[d].who
                                  /\ ctx'[d].status \in {ctx[d].status, "completed"}
                                  /\ Active(d)' <=> Active(d) /\ ctx[d].task # t
<1>1. status' = Promote(SetStatus(t, "completed"), t) /\ ctx' = CompleteActiveDispatch(t)
  BY DEF Reported, UpdateTaskStatus
<1>2. status \in [Task -> AnyStatus] /\ deps \in [Task -> SUBSET Task] /\ status[t] = "dispatched"
  BY DEF Reported, LoopInv, TypeInv, TypeOK, AnyStatus
<1>3. \A u \in Task : SetStatus(t, "completed")[u] = IF u = t THEN "completed" ELSE status[u]
  BY <1>2 DEF SetStatus, Present, TaskStatus
<1>4. /\ status'[t] = "completed"
      /\ \A u \in Task : u # t =>
           status'[u] = IF /\ status[u] = "pending" /\ t \in deps[u]
                           /\ \A v \in deps[u] : v = t \/ status[v] = "completed"
                        THEN "ready" ELSE status[u]
  BY <1>1, <1>2, <1>3 DEF Promote
<1>5. ASSUME NEW d \in DOMAIN ctx
      PROVE  /\ ctx'[d].fails = ctx[d].fails
             /\ ctx'[d].task = ctx[d].task /\ ctx'[d].who = ctx[d].who
             /\ ctx'[d].status \in {ctx[d].status, "completed"}
             /\ Active(d)' <=> Active(d) /\ ctx[d].task # t
  <2>1. ctx[d] \in CtxRow /\ DOMAIN ctx' = DOMAIN ctx
    BY <1>1, RowTask DEF CompleteActiveDispatch, LoopInv, TypeInv
  <2>2. CASE LatestActive(d, t)
    <3>1. ctx'[d] = [ctx[d] EXCEPT !.status = "completed"] /\ ctx[d].task = t
      BY <1>1, <2>2 DEF CompleteActiveDispatch, LatestActive, Rows
    <3> QED
      BY <2>1, <3>1 DEF CtxRow, Active
  <2>3. CASE ~LatestActive(d, t)
    <3>1. ctx'[d] = ctx[d]
      BY <1>1, <2>3 DEF CompleteActiveDispatch
    <3>2. Active(d) => ctx[d].task # t
      BY <2>3 DEF LoopInv, WorkInv, StoreInv, OneWorkerPerTask, LatestActive, Latest
    <3> QED
      BY <2>1, <3>1, <3>2 DEF Active
  <2> QED
    BY <2>2, <2>3
<1>6. \A u : Rows(u)' = Rows(u)
  <2>1. DOMAIN ctx' = DOMAIN ctx /\ \A d \in DOMAIN ctx : ctx[d].status # "deleted"
    BY <1>1 DEF CompleteActiveDispatch, LoopInv, WorkInv, StoreInv, IdsInv
  <2> QED
    BY <1>5, <2>1 DEF Rows
<1> QED
  BY <1>2, <1>4, <1>5, <1>6

LEMMA FailedDoes ==
  ASSUME LoopInv, NEW d, Failed(d), NEW t, t = ctx[d].task
  PROVE  /\ d \in DOMAIN ctx /\ t \in Task /\ ctx[d].fails \in Nat
         /\ status'[t] = (IF ctx[d].fails + 1 >= 3 THEN "failed" ELSE "ready")
         /\ \A u \in Task : u # t => status'[u] = status[u]
         /\ \A u : Rows(u)' = Rows(u)
         /\ \A e \in DOMAIN ctx : e # d => ctx'[e] = ctx[e]
         /\ ctx'[d].fails = ctx[d].fails + 1
         /\ ctx'[d].status = (IF ctx[d].fails + 1 >= 3 THEN "circuit_broken" ELSE "failed")
         /\ ctx'[d].task = t
<1>1. /\ d \in DOMAIN ctx /\ Exists(d) /\ t \in Task
      /\ ctx[d] \in CtxRow /\ ctx[d].fails \in Nat
      /\ status \in [Task -> AnyStatus] /\ Present(t)
  BY RowTask DEF Failed, Latest, Rows, Exists, LoopInv, TypeInv, TypeOK, AnyStatus, Present, TaskStatus
<1>2. /\ ctx' = [ctx EXCEPT ![d].status = IF Breaks(d) THEN "circuit_broken" ELSE "failed",
                            ![d].fails = @ + 1]
      /\ status' = SetStatus(t, IF Breaks(d) THEN "failed" ELSE "ready")
  BY <1>1 DEF Failed, FailDispatch
<1>3. /\ status'[t] = (IF ctx[d].fails + 1 >= 3 THEN "failed" ELSE "ready")
      /\ \A u \in Task : u # t => status'[u] = status[u]
  BY <1>1, <1>2 DEF SetStatus, Breaks
<1>4. /\ ctx'[d].fails = ctx[d].fails + 1
      /\ ctx'[d].status = (IF ctx[d].fails + 1 >= 3 THEN "circuit_broken" ELSE "failed")
      /\ ctx'[d].task = t
      /\ DOMAIN ctx' = DOMAIN ctx
      /\ \A e \in DOMAIN ctx : e # d => ctx'[e] = ctx[e]
  BY <1>1, <1>2 DEF Breaks, CtxRow
<1>5. \A u : Rows(u)' = Rows(u)
  BY <1>1, <1>4 DEF Rows, Exists
<1> QED
  BY <1>1, <1>3, <1>4, <1>5

-----------------------------------------------------------------------------
(* The events keep TasksInv.                                                *)

LEMMA InHand ==
  ASSUME LoopInv, NEW c \in Coord, cur[c] # 0
  PROVE  cur[c] \in DOMAIN ctx /\ ctx[cur[c]].task \in Task
BY RowTask DEF LoopInv, TypeInv, WorkInv, HandInv, Latest, Rows

LEMMA SameKeepsTasks ==
  ASSUME LoopInv, TasksInv, HandsDown, UNCHANGED <<status, deps, ctx>>
  PROVE  TasksInv'
BY DEF TasksInv, HandsDown, Sending, DispatchCounts, Latest, Rows, WaitsInv, Tasks

LEMMA CreatedKeeps ==
  ASSUME LoopInv, TasksInv, HandsDown, NEW t \in Task, NEW D \in SUBSET Task, Created(t, D)
  PROVE  TasksInv'
<1>1. /\ status[t] = "none" /\ t \notin D
      /\ status'[t] = (IF D = {} THEN "ready" ELSE "pending")
      /\ deps'[t] = D
      /\ \A u \in Task : u # t => status'[u] = status[u] /\ deps'[u] = deps[u]
      /\ ctx' = ctx /\ \A u : Rows(u)' = Rows(u)
  BY CreatedDoes
<1>2. \A u \in Task : status'[u] = "completed" <=> status[u] = "completed"
  BY <1>1
<1>3. Sending'
  BY <1>1, <1>2, InHand DEF HandsDown, Sending, TasksInv
<1>4. DispatchCounts'
  <2>1. Rows(t) = {}
    BY <1>1 DEF TasksInv, DispatchCounts
  <2> QED
    BY <1>1, <2>1 DEF TasksInv, DispatchCounts, Latest
<1>5. WaitsInv'
  BY <1>1, <1>2 DEF TasksInv, WaitsInv, Tasks
<1> QED
  BY <1>3, <1>4, <1>5 DEF TasksInv

LEMMA GivenKeeps ==
  ASSUME LoopInv, TasksInv, NEW t \in Task, NEW w, Given(t, w),
         \A c \in Coord : cur'[c] \in {0, cur[c], Len(ctx) + 1}
  PROVE  TasksInv'
<1>1. /\ status[t] = "ready" /\ status'[t] = "dispatched"
      /\ \A u \in Task : u # t => status'[u] = status[u]
      /\ \A u : u # t => Rows(u)' = Rows(u)
  BY GivenDoes
<1>0. PICK k \in Nat, n \in Nat : RowGiven(t, w, k, n)
  BY GivenDoes
<1>2. /\ k = Len(ctx) + 1
      /\ Rows(t)' = Rows(t) \cup {k}
      /\ \A d \in DOMAIN ctx : d < k /\ ctx'[d] = ctx[d]
      /\ ctx'[k] = [task |-> t, who |-> w, status |-> "dispatched", fails |-> n]
      /\ \A d \in Rows(t) : ctx[d].fails <= n
      /\ \/ Rows(t) = {} /\ n = 0
         \/ \E d \in Rows(t) : n = ctx[d].fails
  BY <1>0 DEF RowGiven
<1>3. \A d : d \in Rows(t) => ctx'[d] = ctx[d] /\ d < k /\ d \in DOMAIN ctx
  BY <1>2 DEF Rows
<1>4. Sending'
  <2> SUFFICES ASSUME NEW c \in Coord, cur'[c] # 0
               PROVE  status'[ctx'[cur'[c]].task] # "completed"
    BY DEF Sending
  <2>1. CASE cur'[c] = k
    BY <1>1, <1>2, <2>1
  <2>2. CASE cur'[c] = cur[c]
    BY <1>1, <1>2, <2>2, InHand DEF TasksInv, Sending
  <2> QED
    BY <1>2, <2>1, <2>2
<1>5. DispatchCounts'
  <2>1. n <= 2 /\ \A d \in Rows(t) : ctx[d].status # "circuit_broken"
    BY <1>1, <1>2 DEF TasksInv, DispatchCounts
  <2>2. \A d \in Rows(t)' : ctx'[d].fails <= n /\ n <= 2 /\ ctx'[d].status # "circuit_broken"
    BY <1>2, <1>3, <2>1
  <2>3. \A d : Latest(d, t)' => d = k
    BY <1>2, <1>3 DEF Latest
  <2>4. \A d \in Rows(t)' : ctx'[d].fails \in Nat
    <3>1. \A d \in Rows(t) : ctx[d].fails \in Nat
      BY RowTask DEF Rows, LoopInv, TypeInv
    <3> QED
      BY <1>2, <1>3, <3>1
  <2>5. ASSUME NEW u \in Task, u # t
        PROVE  /\ Rows(u)' = Rows(u) /\ status'[u] = status[u]
               /\ \A d \in Rows(u) : ctx'[d] = ctx[d]
               /\ \A d : Latest(d, u)' <=> Latest(d, u)
    BY <1>1, <1>2, <2>5 DEF Rows, Latest
  <2> SUFFICES ASSUME NEW u \in Task
               PROVE  /\ status'[u] \in {"none", "pending"} => Rows(u)' = {}
                      /\ status'[u] \in {"ready", "dispatched"} =>
                           \A d \in Rows(u)' : ctx'[d].fails <= 2
                      /\ \A d \in Rows(u)' :
                           ctx'[d].status = "circuit_broken" => status'[u] = "failed"
                      /\ \A d : Latest(d, u)' =>
                           /\ status'[u] = "ready" => ctx'[d].fails >= 1
                           /\ status'[u] = "failed" => ctx'[d].fails >= 3
                           /\ \A e \in Rows(u)' : ctx'[e].fails <= ctx'[d].fails
    BY DEF DispatchCounts
  <2>6. CASE u = t
    BY <1>1, <1>2, <2>2, <2>3, <2>4, <2>6
  <2>7. CASE u # t
    BY <2>5, <2>7 DEF TasksInv, DispatchCounts, Latest
  <2> QED
    BY <2>6, <2>7
<1>6. WaitsInv'
  <2>1. \A u \in Task : status'[u] = "completed" <=> status[u] = "completed"
    BY <1>1
  <2>2. deps' = deps /\ ctx' # <<>>
    BY <1>2 DEF Given, CreateDispatchContext
  <2> QED
    BY <1>1, <2>1, <2>2 DEF TasksInv, WaitsInv, Tasks
<1> QED
  BY <1>4, <1>5, <1>6 DEF TasksInv

LEMMA ReportedKeeps ==
  ASSUME LoopInv, TasksInv, NEW t \in Task, Reported(t), \A c \in Coord : cur'[c] = 0
  PROVE  TasksInv'
<1>1. /\ status[t] = "dispatched" /\ status'[t] = "completed"
      /\ \A u \in Task : u # t =>
           status'[u] = IF /\ status[u] = "pending" /\ t \in deps[u]
                           /\ \A v \in deps[u] : v = t \/ status[v] = "completed"
                        THEN "ready" ELSE status[u]
      /\ \A u : Rows(u)' = Rows(u)
      /\ \A d \in DOMAIN ctx : /\ ctx'[d].fails = ctx[d].fails
                               /\ ctx'[d].status \in {ctx[d].status, "completed"}
  BY ReportedDoes
<1>2. Sending'
  BY DEF Sending
<1>3. DispatchCounts'
  <2> SUFFICES ASSUME NEW u \in Task
               PROVE  /\ status'[u] \in {"none", "pending"} => Rows(u) = {}
                      /\ status'[u] \in {"ready", "dispatched"} =>
                           \A d \in Rows(u) : ctx'[d].fails <= 2
                      /\ \A d \in Rows(u) :
                           ctx'[d].status = "circuit_broken" => status'[u] = "failed"
                      /\ \A d : Latest(d, u) =>
                           /\ status'[u] = "ready" => ctx'[d].fails >= 1
                           /\ status'[u] = "failed" => ctx'[d].fails >= 3
                           /\ \A e \in Rows(u) : ctx'[e].fails <= ctx'[d].fails
    BY <1>1 DEF DispatchCounts, Latest
  <2>1. \A d \in Rows(u) : /\ ctx'[d].fails = ctx[d].fails
                           /\ ctx'[d].status \in {ctx[d].status, "completed"}
    BY <1>1 DEF Rows
  <2>2. CASE status'[u] = status[u]
    BY <2>1, <2>2 DEF TasksInv, DispatchCounts, Latest
  <2>3. CASE u = t
    BY <1>1, <2>1, <2>3 DEF TasksInv, DispatchCounts, Latest
  <2>4. CASE status[u] = "pending"
    <3>1. Rows(u) = {}
      BY <2>4 DEF TasksInv, DispatchCounts
    <3> QED
      BY <3>1 DEF Latest
  <2> QED
    BY <1>1, <2>2, <2>3, <2>4
<1>4. WaitsInv'
  <2>1. deps' = deps /\ \A u \in Task : deps[u] \subseteq Task
    BY DEF Reported, LoopInv, TypeInv, TypeOK
  <2>2. \A u \in Task : status[u] = "completed" => status'[u] = "completed"
    BY <1>1
  <2>3. \A u \in Task : status'[u] # "blocked"
    BY <1>1 DEF TasksInv, WaitsInv
  <2>4. ASSUME NEW u \in Task, status'[u] \notin {"none", "pending"}, NEW v \in deps[u]
        PROVE  status'[v] = "completed"
    BY <1>1, <2>1, <2>2, <2>4 DEF TasksInv, WaitsInv, Tasks
  <2>5. ctx' # <<>>
    <3>1. ctx # <<>> /\ ctx \in Seq(CtxRow)
      BY <1>1 DEF TasksInv, WaitsInv, LoopInv, TypeInv, TypeOK
    <3>2. DOMAIN ctx' = DOMAIN ctx
      BY DEF Reported, UpdateTaskStatus, CompleteActiveDispatch
    <3> QED
      BY <3>1, <3>2
  <2> QED
    BY <2>1, <2>3, <2>4, <2>5 DEF WaitsInv, Tasks
<1> QED
  BY <1>2, <1>3, <1>4 DEF TasksInv

LEMMA FailedKeeps ==
  ASSUME LoopInv, TasksInv, HandsDown, NEW d, Failed(d)
  PROVE  TasksInv'
<1>1. PICK t : t = ctx[d].task
  OBVIOUS
<1>2. /\ d \in DOMAIN ctx /\ t \in Task /\ ctx[d].fails \in Nat
      /\ status'[t] = (IF ctx[d].fails + 1 >= 3 THEN "failed" ELSE "ready")
      /\ \A u \in Task : u # t => status'[u] = status[u]
      /\ \A u : Rows(u)' = Rows(u)
      /\ \A e \in DOMAIN ctx : e # d => ctx'[e] = ctx[e]
      /\ ctx'[d].fails = ctx[d].fails + 1
      /\ ctx'[d].status = (IF ctx[d].fails + 1 >= 3 THEN "circuit_broken" ELSE "failed")
      /\ ctx'[d].task = t
  BY <1>1, FailedDoes
<1>3. Latest(d, t) /\ status[t] \in {"dispatched", "ready", "failed"} /\ deps' = deps
  BY <1>1 DEF Failed
<1>4. \A u \in Task : status'[u] = "completed" <=> status[u] = "completed"
  BY <1>2, <1>3
<1>5. Sending'
  <2>1. \A e \in DOMAIN ctx : ctx'[e].task = ctx[e].task
    BY <1>1, <1>2
  <2> QED
    BY <1>4, <2>1, InHand DEF HandsDown, Sending, TasksInv
<1>6. DispatchCounts'
  <2> SUFFICES ASSUME NEW u \in Task
               PROVE  /\ status'[u] \in {"none", "pending"} => Rows(u) = {}
                      /\ status'[u] \in {"ready", "dispatched"} =>
                           \A e \in Rows(u) : ctx'[e].fails <= 2
                      /\ \A e \in Rows(u) :
                           ctx'[e].status = "circuit_broken" => status'[u] = "failed"
                      /\ \A e : Latest(e, u) =>
                           /\ status'[u] = "ready" => ctx'[e].fails >= 1
                           /\ status'[u] = "failed" => ctx'[e].fails >= 3
                           /\ \A f \in Rows(u) : ctx'[f].fails <= ctx'[e].fails
    BY <1>2 DEF DispatchCounts, Latest
  <2>1. CASE u # t
    <3>1. \A e \in Rows(u) : ctx'[e] = ctx[e]
      BY <1>1, <1>2, <2>1 DEF Rows
    <3> QED
      BY <1>2, <2>1, <3>1 DEF TasksInv, DispatchCounts, Latest
  <2>2. CASE u = t
    <3>1. \A e : Latest(e, t) => e = d
      BY <1>3, LatestUnique DEF LoopInv, TypeInv
    <3>2. \A e \in Rows(t) : ctx[e].fails \in Nat /\ ctx[e].fails <= ctx[d].fails
      BY <1>3, RowTask DEF Rows, LoopInv, TypeInv, TasksInv, DispatchCounts
    <3>3. \A e \in Rows(t) : /\ ctx'[e].fails \in Nat /\ ctx'[e].fails <= ctx[d].fails + 1
                             /\ e # d => ctx'[e] = ctx[e]
      BY <1>2, <3>2 DEF Rows
    <3>4. \A e \in Rows(t) : ctx'[e].status = "circuit_broken" => ctx[d].fails + 1 >= 3
      BY <1>2, <1>3, <3>3 DEF TasksInv, DispatchCounts
    <3> QED
      BY <1>2, <2>2, <3>1, <3>3, <3>4
  <2> QED
    BY <2>1, <2>2
<1>7. WaitsInv'
  <2>1. ctx' # <<>>
    BY <1>2, RowTask DEF LoopInv, TypeInv, TypeOK, Failed, FailDispatch
  <2>2. \A u \in Task : status'[u] # "blocked"
    BY <1>2 DEF TasksInv, WaitsInv
  <2>3. \A u \in Task : status'[u] \notin {"none", "pending"} => status[u] \notin {"none", "pending"}
    BY <1>2, <1>3
  <2> QED
    BY <1>3, <1>4, <2>1, <2>2, <2>3 DEF TasksInv, WaitsInv, Tasks
<1> QED
  BY <1>5, <1>6, <1>7 DEF TasksInv

LEMMA Tasking ==
  ASSUME Alone
  PROVE  Spec => []TasksInv
<1>1. Init => TasksInv
  <2> SUFFICES ASSUME Init PROVE TasksInv
    OBVIOUS
  <2>1. \A t : Rows(t) = {} /\ ~\E d : Latest(d, t)
    BY DEF Init, DbInit, Rows, Latest
  <2>2. \A t \in Task : status[t] = "none"
    BY DEF Init, DbInit
  <2> QED
    BY <2>1, <2>2 DEF Init, CoordInit, TasksInv, Sending, DispatchCounts, WaitsInv, Tasks
<1>2. LoopInv /\ TasksInv /\ [Next]_vars => TasksInv'
  BY NextEvent, SameKeepsTasks, CreatedKeeps, GivenKeeps, ReportedKeeps, FailedKeeps DEF Event
<1>3. Spec => []LoopInv
  BY Looped
<1> QED
  BY <1>1, <1>2, <1>3, PTL DEF Spec

-----------------------------------------------------------------------------
(* What follows for the breaker, the dependencies and the verdict.          *)

\* The breaker's verdict is final: no exit, escalation, late report, second
\* failure of an injection or restart gets a task worked on again once one of
\* its dispatches has tripped the breaker.
THEOREM BrokenForGood ==
  ASSUME Alone
  PROVE  Spec => []BrokenStaysBroken
<1>1. Spec => [](LoopInv /\ TasksInv)
  BY Looped, Tasking, PTL
<1>2. LoopInv /\ TasksInv => BrokenStaysBroken
  <2> SUFFICES ASSUME LoopInv, TasksInv,
                      NEW d \in DOMAIN ctx, NEW e \in DOMAIN ctx,
                      ctx[d].status = "circuit_broken", ctx[e].task = ctx[d].task
               PROVE  ~Active(e) /\ status[ctx[d].task] = "failed"
    BY DEF BrokenStaysBroken
  <2>1. d \in Rows(ctx[d].task) /\ ctx[d].task \in Task
    BY RowTask DEF Rows, LoopInv, TypeInv
  <2>2. status[ctx[d].task] = "failed"
    BY <2>1 DEF TasksInv, DispatchCounts
  <2> QED
    BY <2>2 DEF LoopInv, WorkInv, StoreInv, OneWorkerPerTask
<1> QED
  BY <1>1, <1>2, PTL

\* A task is offered to a worker, and worked on, only when all the tasks it
\* depends on are completed: promotion never runs ahead of a completion, and no
\* failure, retry or restart takes a completion back.
THEOREM DepsDone ==
  ASSUME Alone
  PROVE  Spec => []ReadyMeansDepsDone
<1>1. Spec => []TasksInv
  BY Tasking
<1>2. TasksInv => ReadyMeansDepsDone
  BY DEF TasksInv, WaitsInv, ReadyMeansDepsDone, Tasks
<1> QED
  BY <1>1, <1>2, PTL

\* No task keeps waiting for dependencies that are all completed, when the DAG
\* is created before its first task is dispatched. (Otherwise one does: a task
\* created after its dependency completed is never promoted.)
LEMMA StrandsNone ==
  ASSUME "task-create-late" \notin Ops, LoopInv, TasksInv, NoStrandedTask, Event
  PROVE  NoStrandedTask'
<1> SUFFICES ASSUME NEW u \in Task, status'[u] = "pending"
             PROVE  \E v \in deps'[u] : v \in Task /\ status'[v] # "completed"
  BY DEF NoStrandedTask, Tasks
<1>1. \A v \in Task : deps[v] \subseteq Task
  BY DEF LoopInv, TypeInv, TypeOK
<1>2. status[u] = "pending" => \E v \in deps[u] : v \in Task /\ status[v] # "completed"
  BY <1>1 DEF NoStrandedTask, Tasks
<1>3. CASE UNCHANGED <<status, deps, ctx>>
  BY <1>2, <1>3
<1>4. ASSUME NEW t \in Task, NEW D \in SUBSET Task, Created(t, D)
      PROVE  \E v \in deps'[u] : v \in Task /\ status'[v] # "completed"
  <2>1. /\ status[t] = "none" /\ t \notin D
        /\ status'[t] = (IF D = {} THEN "ready" ELSE "pending")
        /\ deps'[t] = D
        /\ \A v \in Task : v # t => status'[v] = status[v] /\ deps'[v] = deps[v]
    BY <1>4, CreatedDoes
  <2>2. \A v \in Task : status[v] # "completed"
    BY <1>4 DEF Created, TasksInv, WaitsInv
  <2> QED
    BY <1>2, <2>1, <2>2
<1>5. ASSUME NEW t \in Task, NEW w, Given(t, w)
      PROVE  \E v \in deps'[u] : v \in Task /\ status'[v] # "completed"
  BY <1>2, <1>5, GivenDoes DEF Given
<1>6. ASSUME NEW t \in Task, Reported(t)
      PROVE  \E v \in deps'[u] : v \in Task /\ status'[v] # "completed"
  <2>1. /\ status[t] = "dispatched" /\ status'[t] = "completed"
        /\ \A v \in Task : v # t =>
             status'[v] = IF /\ status[v] = "pending" /\ t \in deps[v]
                             /\ \A x \in deps[v] : x = t \/ status[x] = "completed"
                          THEN "ready" ELSE status[v]
    BY <1>6, ReportedDoes
  <2>2. deps' = deps
    BY <1>6 DEF Reported
  <2>3. u # t /\ status[u] = "pending"
    BY <2>1
  <2>4. PICK v \in deps[u] : v \in Task /\ v # t /\ status[v] # "completed"
    BY <1>1, <1>2, <2>1, <2>3
  <2>5. status'[v] # "completed"
    BY <2>1, <2>4
  <2> QED
    BY <2>2, <2>4, <2>5
<1>7. ASSUME NEW d, Failed(d)
      PROVE  \E v \in deps'[u] : v \in Task /\ status'[v] # "completed"
  <2>1. PICK t : t = ctx[d].task
    OBVIOUS
  <2>2. /\ status'[t] \in {"failed", "ready"}
        /\ \A v \in Task : v # t => status'[v] = status[v]
    BY <1>7, <2>1, FailedDoes
  <2> QED
    BY <1>2, <1>7, <2>2 DEF Failed
<1> QED
  BY <1>3, <1>4, <1>5, <1>6, <1>7 DEF Event

LEMMA Promoting ==
  ASSUME Alone, "task-create-late" \notin Ops
  PROVE  Spec => [](LoopInv /\ TasksInv /\ NoStrandedTask)
<1>1. Spec => [](LoopInv /\ TasksInv)
  BY Looped, Tasking, PTL
<1>2. Init => NoStrandedTask
  BY DEF Init, DbInit, NoStrandedTask, Tasks
<1>3. LoopInv /\ TasksInv /\ NoStrandedTask /\ [Next]_vars => NoStrandedTask'
  BY NextEvent, StrandsNone
<1> QED
  BY <1>1, <1>2, <1>3, PTL DEF Spec

\* A task never keeps waiting for dependencies that are all completed: the step
\* that completes the last of them offers the task, whatever their order.
THEOREM NoneStranded ==
  ASSUME Alone, "task-create-late" \notin Ops
  PROVE  Spec => []NoStrandedTask
BY Promoting, PTL

\* A row is closed as completed in a step that finds all tasks completed.
RunsHold ==
  \A c \in Coord : run'[c] = "completed" =>
    \/ run[c] = "completed"
    \/ AllDone /\ Tasks("failed") = {} /\ status' = status

LEMMA FinishHolds ==
  ASSUME TypeOK, NEW c \in Coord, Finish(c), status' = status
  PROVE  RunsHold
<1>1. run \in [Coord -> RunStatus]
  BY DEF TypeOK
<1>2. CASE End(c, "failed")
  BY <1>1, <1>2 DEF End, RunsHold
<1>3. CASE AllDone /\ Tasks("failed") = {} /\ End(c, "completed")
  BY <1>1, <1>3 DEF End, RunsHold
<1> QED
  BY <1>2, <1>3 DEF Finish

LEMMA NextHolds ==
  ASSUME Alone, TypeOK, [Next]_vars
  PROVE  RunsHold
<1>0. run \in [Coord -> RunStatus]
  BY DEF TypeOK
<1>1. ASSUME run' = run PROVE RunsHold
  BY <1>1 DEF RunsHold
<1>2. ASSUME NEW c \in Coord, LoopStep(c) PROVE RunsHold
  <2>1. CASE HandlerThrows(c)
    BY <1>0, <2>1 DEF HandlerThrows, End, RunsHold
  <2>2. CASE Converge(c) \/ Wake(c)
    <3>1. Finish(c) \/ run' = run
      BY <2>2 DEF Converge, Wake
    <3> QED
      BY <1>1, <2>2, <3>1, FinishHolds DEF Converge, Wake
  <2>3. CASE ~(HandlerThrows(c) \/ Converge(c) \/ Wake(c))
    <3>1. run' = run
      BY <1>2, <2>3 DEF LoopStep, ProcessMessage, ScanReady, ListTerminals, CreateTerminal,
         DispatchNext, SendSettles, dbVars
    <3> QED
      BY <1>1, <3>1
  <2> QED
    BY <2>1, <2>2, <2>3
<1>3. ASSUME NEW c \in Coord, Run(c) PROVE RunsHold
  BY <1>0, <1>3 DEF Run, RunsHold
<1>4. ASSUME NEW t, \/ \E D \in SUBSET Task : TaskCreate(t, D)
                    \/ \E w \in Worker : Dispatch(t, w)
      PROVE  run' = run
  BY <1>4 DEF TaskCreate, Dispatch
<1>5. ASSUME NEW d, DispatchSettles(d) \/ \E w \in Worker : WorkerSends(d, w) PROVE run' = run
  BY <1>5 DEF DispatchSettles, WorkerSends
<1>6. ASSUME NEW g, GateResolve(g) PROVE run' = run
  BY <1>6 DEF GateResolve
<1>7. ASSUME NEW w, Exit(w) \/ ExitHeadless(w) PROVE run' = run
  BY <1>7 DEF Exit, ExitHeadless, dbVars
<1>8. ASSUME MessagesGone \/ RunStop \/ Restart \/ UNCHANGED vars PROVE run' = run
  BY <1>8 DEF MessagesGone, RunStop, Restart, dbVars, vars
<1>9. ASSUME \/ \E t \in Task : GateCreate(t) \/ \E s \in ManualStatuses : TaskUpdate(t, s)
             \/ Reset \/ TornWrite
      PROVE  FALSE
  BY <1>9 DEF GateCreate, TaskUpdate, Reset, TornWrite, May, Alone
<1> QED
  BY <1>1, <1>2, <1>3, <1>4, <1>5, <1>6, <1>7, <1>8, <1>9 DEF Next, Loop

LEMMA VerdictKept ==
  ASSUME "task-create-late" \notin Ops, LoopInv, VerdictStands, Event, RunsHold
  PROVE  VerdictStands'
<1> SUFFICES ASSUME NEW c \in Coord, run'[c] = "completed",
                    NEW u \in Task, status'[u] \in TaskStatus
             PROVE  status'[u] = "completed"
  BY DEF VerdictStands, Present
<1>1. CASE AllDone /\ Tasks("failed") = {} /\ status' = status
  BY <1>1 DEF AllDone, Tasks, Present
<1>2. CASE run[c] = "completed"
  <2>1. \A t \in Task : status[t] \in TaskStatus => status[t] = "completed"
    BY <1>2 DEF VerdictStands, Present
  <2>2. ASSUME NEW t, NEW D, Created(t, D) PROVE FALSE
    BY <1>2, <2>2 DEF Created
  <2>3. ASSUME NEW t \in Task, NEW w, Given(t, w) PROVE FALSE
    BY <2>1, <2>3 DEF Given, CreateDispatchContext, CanDispatch, TaskStatus
  <2>4. ASSUME NEW t \in Task, Reported(t) PROVE FALSE
    BY <2>1, <2>4 DEF Reported, TaskStatus
  <2>5. ASSUME NEW d, Failed(d) PROVE FALSE
    <3>1. ctx[d].task \in Task
      BY <2>5, RowTask DEF Failed, Latest, Rows, LoopInv, TypeInv
    <3> QED
      BY <2>1, <2>5, <3>1 DEF Failed, TaskStatus
  <2> QED
    BY <2>1, <2>2, <2>3, <2>4, <2>5 DEF Event
<1> QED
  BY <1>1, <1>2 DEF RunsHold

\* A run that is reported completed has all its tasks completed, and nothing
\* that happens later, late messages and restarts included, makes it untrue.
THEOREM VerdictHolds ==
  ASSUME Alone, "task-create-late" \notin Ops
  PROVE  Spec => []VerdictStands
<1>1. Spec => [](LoopInv /\ TasksInv)
  BY Looped, Tasking, PTL
<1>2. Init => VerdictStands
  BY DEF Init, DbInit, VerdictStands
<1>3. LoopInv /\ TasksInv /\ VerdictStands /\ [Next]_vars => VerdictStands'
  BY NextEvent, NextHolds, VerdictKept DEF LoopInv, TypeInv
<1> QED
  BY <1>1, <1>2, <1>3, PTL DEF Spec

-----------------------------------------------------------------------------
(* The coordinator implements the board.                                    *)

BoardPlace == [t \in Task |-> PlaceOf[status[t]]]

BoardHolder == [t \in Task |-> HolderOf(t)]

BoardFailures == [t \in Task |-> FailuresOf(t)]

\* The number that stands for the greatest of the failure counts: it stops at
\* the limit of the breaker.
Worst(S) == Cardinality({n \in 1 .. Breaker : \E m \in S : m >= n})

LEMMA WorstOf ==
  ASSUME NEW S \in SUBSET Nat, NEW f \in S, \A m \in S : m <= f
  PROVE  Worst(S) = IF f < 3 THEN f ELSE 3
<1> DEFINE N == {n \in 1 .. 3 : \E m \in S : m >= n}
<1>1. Worst(S) = Cardinality(N)
  BY DEF Worst, Breaker
<1>2. CASE f < 3
  <2>1. N = 1 .. f
    BY <1>2
  <2>2. Cardinality(1 .. f) = f
    BY FS_Interval
  <2> QED
    BY <1>1, <1>2, <2>1, <2>2
<1>3. CASE ~(f < 3)
  <2>1. N = 1 .. 3
    BY <1>3
  <2>2. \A b \in Nat : Cardinality(1 .. b) = b
    BY FS_Interval
  <2> QED
    BY <1>1, <1>3, <2>1, <2>2
<1> QED
  BY <1>2, <1>3

\* A task keeps its holder and its failures when its rows keep theirs.
LEMMA RowsStay ==
  ASSUME NEW t, Rows(t)' = Rows(t),
         \A d \in Rows(t) : ctx'[d] = ctx[d]
  PROVE  HolderOf(t)' = HolderOf(t) /\ FailuresOf(t)' = FailuresOf(t)
<1>1. {d \in Rows(t) : Active(d)}' = {d \in Rows(t) : Active(d)}
  <2>1. \A d \in Rows(t) : d \in DOMAIN ctx /\ d \in DOMAIN ctx'
    BY DEF Rows
  <2> QED
    BY <2>1 DEF Active
<1>2. HolderOf(t)' = HolderOf(t)
  BY <1>1 DEF HolderOf
<1>3. FailuresOf(t)' = FailuresOf(t)
  BY DEF FailuresOf
<1> QED
  BY <1>2, <1>3

LEMMA NoHolder ==
  ASSUME NEW t, \A d \in Rows(t) : ~Active(d)
  PROVE  HolderOf(t) = {}
BY DEF HolderOf

LEMMA Placed ==
  ASSUME LoopInv, TasksInv, NEW t \in Task
  PROVE  status[t] \in {"none", "pending", "ready", "dispatched", "completed", "failed"}
BY DEF LoopInv, TypeInv, TypeOK, TaskStatus, WorkInv, StoreInv, IdsInv, TasksInv, WaitsInv

LEMMA PlaceOfStatus ==
  /\ PlaceOf["none"] = "absent" /\ PlaceOf["pending"] = "waiting" /\ PlaceOf["ready"] = "offered"
  /\ PlaceOf["dispatched"] = "taken" /\ PlaceOf["completed"] = "done"
  /\ PlaceOf["failed"] = "given up"
BY DEF PlaceOf

LEMMA CreatedAdds ==
  ASSUME LoopInv, TasksInv, NEW t \in Task, NEW D \in SUBSET Task, Created(t, D)
  PROVE  Board!Add(t)
<1>1. /\ status[t] = "none" /\ t \notin D
      /\ status'[t] = (IF D = {} THEN "ready" ELSE "pending")
      /\ \A u \in Task : u # t => status'[u] = status[u]
      /\ ctx' = ctx /\ \A u : Rows(u)' = Rows(u)
  BY CreatedDoes
<1>2. BoardHolder' = BoardHolder /\ BoardFailures' = BoardFailures
  <2>1. \A u \in Task : HolderOf(u)' = HolderOf(u) /\ FailuresOf(u)' = FailuresOf(u)
    BY <1>1, RowsStay
  <2> QED
    BY <2>1 DEF BoardHolder, BoardFailures
<1>3. BoardPlace' = [BoardPlace EXCEPT ![t] = IF D = {} THEN "offered" ELSE "waiting"]
  BY <1>1, PlaceOfStatus DEF BoardPlace
<1>4. D \in SUBSET {u \in Task : BoardPlace[u] # "absent"}
  BY Placed, PlaceOfStatus DEF BoardPlace, Created
<1>5. BoardPlace[t] = "absent" /\ deps' = [deps EXCEPT ![t] = D]
  BY <1>1, PlaceOfStatus DEF BoardPlace, Created, CreateTask
<1> QED
  BY <1>2, <1>3, <1>4, <1>5 DEF Board!Add, BoardPlace, BoardHolder, BoardFailures

LEMMA GivenTakes ==
  ASSUME LoopInv, TasksInv, NEW t \in Task, NEW w \in Worker, Given(t, w)
  PROVE  Board!Take(t, w)
<1>1. /\ status[t] = "ready" /\ status'[t] = "dispatched"
      /\ \A u \in Task : u # t => status'[u] = status[u]
      /\ \A u : u # t => Rows(u)' = Rows(u)
  BY GivenDoes
<1>2. PICK k \in Nat, n \in Nat : RowGiven(t, w, k, n)
  BY GivenDoes
<1>3. \A u \in Task : \A d \in Rows(u) : ctx'[d] = ctx[d] /\ d \in DOMAIN ctx /\ d # k
  BY <1>2 DEF RowGiven, Rows
<1>4. Rows(t)' = Rows(t) \cup {k} /\ ctx'[k] = [task |-> t, who |-> w, status |-> "dispatched", fails |-> n]
  BY <1>2 DEF RowGiven
<1>5. BoardHolder' = [BoardHolder EXCEPT ![t] = {w}]
  <2>1. \A d \in Rows(t) : ~Active(d)
    BY <1>1 DEF Rows, LoopInv, WorkInv, StoreInv, OneWorkerPerTask
  <2>2. \A d \in Rows(t) : ~Active(d)'
    BY <1>3, <2>1 DEF Active
  <2>3. Active(k)'
    BY <1>4 DEF Active, Rows
  <2>4. {d \in Rows(t) : Active(d)}' = {k}
    BY <1>4, <2>2, <2>3
  <2>5. HolderOf(t)' = {w}
    BY <1>4, <2>4 DEF HolderOf
  <2>6. \A u \in Task : u # t => HolderOf(u)' = HolderOf(u)
    BY <1>1, <1>3, RowsStay
  <2> QED
    BY <2>5, <2>6 DEF BoardHolder
<1>6. BoardFailures' = BoardFailures
  <2>1. \A u \in Task : u # t => FailuresOf(u)' = FailuresOf(u)
    BY <1>1, <1>3, RowsStay
  <2>2. FailuresOf(t)' = FailuresOf(t)
    <3>1. PICK S : S = {ctx[d].fails : d \in Rows(t)}
      OBVIOUS
    <3>2. {ctx'[d].fails : d \in Rows(t)'} = S \cup {n}
      BY <1>3, <1>4, <3>1
    <3>3. (S = {} /\ n = 0) \/ n \in S
      BY <1>2, <3>1 DEF RowGiven
    <3>4. \A i \in 1 .. Breaker : (\E m \in S \cup {n} : m >= i) <=> (\E m \in S : m >= i)
      BY <3>3
    <3> QED
      BY <3>1, <3>2, <3>4 DEF FailuresOf
  <2> QED
    BY <2>1, <2>2 DEF BoardFailures
<1>7. BoardPlace[t] = "offered" /\ BoardPlace' = [BoardPlace EXCEPT ![t] = "taken"]
  BY <1>1, PlaceOfStatus DEF BoardPlace
<1>8. Board!Taken = Tasks("dispatched")
  BY Placed, PlaceOfStatus DEF Board!Taken, Tasks
<1>9. \A u \in Task : w \notin BoardHolder[u]
  BY DEF Given, CreateDispatchContext, CanDispatch, Busy, BoardHolder, HolderOf, Rows
<1>10. Board!Cardinality(Board!Taken) < MaxConcurrent /\ deps' = deps
  <2>1. Board!Cardinality(Board!Taken) = Cardinality(Board!Taken)
    BY DEF Board!Cardinality, Cardinality
  <2> QED
    BY <1>8, <2>1 DEF Given
<1> QED
  BY <1>5, <1>6, <1>7, <1>9, <1>10 DEF Board!Take, BoardPlace, BoardHolder, BoardFailures

LEMMA ReportedFinishes ==
  ASSUME LoopInv, TasksInv, NoStrandedTask, NEW t \in Task, Reported(t)
  PROVE  Board!Finish(t)
<1>1. /\ status[t] = "dispatched" /\ status'[t] = "completed"
      /\ \A u \in Task : u # t =>
           status'[u] = IF /\ status[u] = "pending" /\ t \in deps[u]
                           /\ \A v \in deps[u] : v = t \/ status[v] = "completed"
                        THEN "ready" ELSE status[u]
      /\ \A u : Rows(u)' = Rows(u)
      /\ \A d \in DOMAIN ctx : /\ ctx'[d].fails = ctx[d].fails
                               /\ ctx'[d].who = ctx[d].who
                               /\ Active(d)' <=> Active(d) /\ ctx[d].task # t
  BY ReportedDoes
<1>2. \A u : \A d \in Rows(u) : /\ ctx'[d].fails = ctx[d].fails
                                /\ ctx'[d].who = ctx[d].who
                                /\ Active(d)' <=> Active(d) /\ u # t
  BY <1>1 DEF Rows
<1>3. BoardFailures' = BoardFailures
  <2>1. ASSUME NEW u \in Task PROVE FailuresOf(u)' = FailuresOf(u)
    <3>1. {ctx[d].fails : d \in Rows(u)}' = {ctx[d].fails : d \in Rows(u)}
      BY <1>1, <1>2
    <3> QED
      BY <3>1 DEF FailuresOf
  <2> QED
    BY <2>1 DEF BoardFailures
<1>4. BoardHolder' = [BoardHolder EXCEPT ![t] = {}]
  <2>1. HolderOf(t)' = {}
    BY <1>1, <1>2 DEF HolderOf
  <2>2. ASSUME NEW u \in Task, u # t PROVE HolderOf(u)' = HolderOf(u)
    <3>1. {d \in Rows(u) : Active(d)}' = {d \in Rows(u) : Active(d)}
      BY <1>1, <1>2, <2>2
    <3> QED
      BY <1>2, <3>1 DEF HolderOf
  <2> QED
    BY <2>1, <2>2 DEF BoardHolder
<1> DEFINE done == [BoardPlace EXCEPT ![t] = "done"]
<1>5. \A v \in Task : done[v] = "done" <=> v = t \/ status[v] = "completed"
  BY Placed, PlaceOfStatus DEF BoardPlace
<1>6. ASSUME NEW u \in Task
      PROVE  BoardPlace'[u] = IF /\ BoardPlace[u] = "waiting"
                                 /\ \A v \in deps[u] : done[v] = "done"
                              THEN "offered" ELSE done[u]
  <2>1. deps[u] \subseteq Task
    BY DEF LoopInv, TypeInv, TypeOK
  <2>2. BoardPlace[u] = PlaceOf[status[u]] /\ BoardPlace'[u] = PlaceOf[status'[u]]
    BY DEF BoardPlace
  <2>3. CASE u = t
    <3>1. BoardPlace[u] = "taken" /\ BoardPlace'[u] = "done" /\ done[u] = "done"
      BY <1>1, <2>2, <2>3, PlaceOfStatus DEF BoardPlace
    <3> QED
      BY <3>1
  <2>4. CASE u # t /\ status[u] = "pending"
    <3>1. \E v \in deps[u] : status[v] # "completed"
      BY <2>1, <2>4 DEF NoStrandedTask, Tasks
    <3>2. (\A v \in deps[u] : done[v] = "done")
            <=> (t \in deps[u] /\ \A v \in deps[u] : v = t \/ status[v] = "completed")
      BY <1>5, <2>1, <3>1
    <3>3. BoardPlace[u] = "waiting" /\ done[u] = "waiting"
      BY <2>2, <2>4, PlaceOfStatus DEF BoardPlace
    <3>4. status'[u] = IF \A v \in deps[u] : done[v] = "done" THEN "ready" ELSE "pending"
      BY <1>1, <2>4, <3>2
    <3> HIDE DEF done
    <3> QED
      BY <2>2, <3>3, <3>4, PlaceOfStatus
  <2>5. CASE u # t /\ status[u] # "pending"
    <3>1. status'[u] = status[u] /\ done[u] = BoardPlace[u]
      BY <1>1, <2>5 DEF BoardPlace
    <3>2. BoardPlace[u] # "waiting"
      BY <2>2, <2>5, Placed, PlaceOfStatus
    <3> QED
      BY <2>2, <3>1, <3>2
  <2> QED
    BY <2>3, <2>4, <2>5
<1>7. BoardPlace' = [u \in Task |-> IF /\ BoardPlace[u] = "waiting"
                                       /\ \A v \in deps[u] : done[v] = "done"
                                    THEN "offered" ELSE done[u]]
  <2>1. BoardPlace' = [u \in Task |-> BoardPlace'[u]]
    BY DEF BoardPlace
  <2> QED
    BY <1>6, <2>1
<1>8. BoardPlace[t] = "taken" /\ deps' = deps
  BY <1>1, PlaceOfStatus DEF BoardPlace, Reported
<1> QED
  BY <1>3, <1>4, <1>7, <1>8 DEF Board!Finish, BoardPlace, BoardHolder, BoardFailures

\* A failure counts once more, until the task is given up.
LEMMA FailedFails ==
  ASSUME LoopInv, TasksInv, NEW d, Failed(d), NEW t, t = ctx[d].task
  PROVE  \/ Board!Fail(t)
         \/ UNCHANGED <<BoardPlace, deps, BoardHolder, BoardFailures>>
<1> DEFINE f == ctx[d].fails
<1>1. /\ d \in DOMAIN ctx /\ t \in Task /\ f \in Nat
      /\ status'[t] = (IF f + 1 >= 3 THEN "failed" ELSE "ready")
      /\ \A u \in Task : u # t => status'[u] = status[u]
      /\ \A u : Rows(u)' = Rows(u)
      /\ \A e \in DOMAIN ctx : e # d => ctx'[e] = ctx[e]
      /\ ctx'[d].fails = f + 1
      /\ ctx'[d].status = (IF f + 1 >= 3 THEN "circuit_broken" ELSE "failed")
  BY FailedDoes
<1>2. Latest(d, t) /\ status[t] \in {"dispatched", "ready", "failed"} /\ deps' = deps
  BY DEF Failed
<1>3. d \in Rows(t) /\ \A e \in Rows(t) : ctx[e].fails \in Nat /\ ctx[e].fails <= f
  BY <1>1, <1>2, RowTask DEF Latest, Rows, LoopInv, TypeInv, TasksInv, DispatchCounts
<1>4. FailuresOf(t) = IF f < 3 THEN f ELSE 3
  <2>1. PICK S : S = {ctx[e].fails : e \in Rows(t)}
    OBVIOUS
  <2>2. S \in SUBSET Nat /\ f \in S /\ \A m \in S : m <= f
    BY <1>3, <2>1
  <2>3. Worst(S) = IF f < 3 THEN f ELSE 3
    BY <2>2, WorstOf
  <2> QED
    BY <2>1, <2>3 DEF FailuresOf, Worst
<1>5. FailuresOf(t)' = IF f + 1 < 3 THEN f + 1 ELSE 3
  <2>1. PICK S : S = {ctx'[e].fails : e \in Rows(t)}
    OBVIOUS
  <2>2. S \in SUBSET Nat /\ f + 1 \in S /\ \A m \in S : m <= f + 1
    <3>1. \A e \in Rows(t) : ctx'[e].fails \in Nat /\ ctx'[e].fails <= f + 1
      BY <1>1, <1>3 DEF Rows
    <3> QED
      BY <1>1, <1>3, <2>1, <3>1
  <2>3. Worst(S) = IF f + 1 < 3 THEN f + 1 ELSE 3
    BY <2>2, WorstOf
  <2> QED
    BY <1>1, <2>1, <2>3 DEF FailuresOf, Worst
<1>6. ASSUME NEW u \in Task, u # t
      PROVE  HolderOf(u)' = HolderOf(u) /\ FailuresOf(u)' = FailuresOf(u)
  <2>1. \A e \in Rows(u) : ctx'[e] = ctx[e]
    BY <1>1, <1>6 DEF Rows
  <2> QED
    BY <1>1, <2>1, RowsStay
<1>7. HolderOf(t)' = {}
  <2>1. ASSUME NEW e \in Rows(t), e # d PROVE ~Active(e)
    BY <1>2, <2>1, LatestUnique DEF Rows, LoopInv, TypeInv, WorkInv, StoreInv, OneWorkerPerTask
  <2>2. \A e \in Rows(t) : ~Active(e)'
    BY <1>1, <2>1 DEF Rows, Active
  <2> QED
    BY <1>1, <2>2 DEF HolderOf
<1>8. BoardHolder' = [BoardHolder EXCEPT ![t] = {}]
  BY <1>6, <1>7 DEF BoardHolder
<1>9. CASE status[t] \in {"dispatched", "ready"}
  <2>1. f <= 2 /\ (status[t] = "ready" => f >= 1)
    BY <1>1, <1>2, <1>3, <1>9 DEF TasksInv, DispatchCounts
  <2>2. BoardFailures[t] = f /\ BoardFailures' = [BoardFailures EXCEPT ![t] = f + 1]
    <3>1. BoardFailures[t] = f
      BY <1>1, <1>4, <2>1 DEF BoardFailures
    <3>2. FailuresOf(t)' = f + 1
      BY <1>1, <1>5, <2>1
    <3> QED
      BY <1>6, <3>1, <3>2 DEF BoardFailures
  <2>3. BoardPlace' = [BoardPlace EXCEPT ![t] = IF f + 1 < 3 THEN "offered" ELSE "given up"]
    <3>1. status'[t] = IF f + 1 < 3 THEN "ready" ELSE "failed"
      BY <1>1
    <3>2. PlaceOf[status'[t]] = IF f + 1 < 3 THEN "offered" ELSE "given up"
      BY <3>1, PlaceOfStatus, Zenon
    <3> QED
      BY <1>1, <3>2 DEF BoardPlace
  <2>4. BoardPlace[t] = "taken" \/ (BoardPlace[t] = "offered" /\ f > 0)
    <3>1. BoardPlace[t] = PlaceOf[status[t]]
      BY <1>1 DEF BoardPlace
    <3>2. status[t] = "dispatched" \/ (status[t] = "ready" /\ f > 0)
      BY <1>1, <1>9, <2>1
    <3> QED
      BY <3>1, <3>2, PlaceOfStatus, Zenon
  <2>5. Board!Fail(t)
    <3>1. BoardFailures' = [BoardFailures EXCEPT ![t] = @ + 1]
      BY <2>2
    <3>2. BoardPlace' = [BoardPlace EXCEPT ![t] =
                           IF BoardFailures[t] + 1 < Breaker THEN "offered" ELSE "given up"]
      BY <2>2, <2>3 DEF Breaker
    <3>3. BoardPlace[t] = "taken" \/ (BoardPlace[t] = "offered" /\ BoardFailures[t] > 0)
      BY <2>2, <2>4
    <3> QED
      BY <1>2, <1>8, <3>1, <3>2, <3>3 DEF Board!Fail, BoardPlace, BoardHolder, BoardFailures
  <2> QED
    BY <2>5
<1>10. CASE status[t] = "failed"
  <2>1. f >= 3
    BY <1>1, <1>2, <1>10 DEF TasksInv, DispatchCounts
  <2>2. FailuresOf(t)' = FailuresOf(t) /\ status'[t] = status[t]
    BY <1>1, <1>4, <1>5, <1>10, <2>1
  <2>3. HolderOf(t) = {}
    <3>1. \A e \in Rows(t) : ~Active(e)
      BY <1>10 DEF Rows, LoopInv, WorkInv, StoreInv, OneWorkerPerTask
    <3> QED
      BY <3>1, NoHolder
  <2>4. BoardHolder' = BoardHolder /\ BoardFailures' = BoardFailures
    BY <1>6, <1>7, <2>2, <2>3 DEF BoardHolder, BoardFailures
  <2>5. BoardPlace' = BoardPlace
    BY <1>1, <2>2 DEF BoardPlace
  <2> QED
    BY <1>2, <2>4, <2>5
<1> QED
  BY <1>2, <1>9, <1>10

LEMMA EventOnBoard ==
  ASSUME LoopInv, TasksInv, NoStrandedTask, Event
  PROVE  [Board!Next]_(Board!vars)
<1>1. CASE UNCHANGED <<status, deps, ctx>>
  <2>1. \A u \in Task : HolderOf(u)' = HolderOf(u) /\ FailuresOf(u)' = FailuresOf(u)
    <3>1. \A u : Rows(u)' = Rows(u)
      BY <1>1 DEF Rows
    <3> QED
      BY <1>1, <3>1, RowsStay
  <2>2. UNCHANGED <<BoardPlace, deps, BoardHolder, BoardFailures>>
    BY <1>1, <2>1 DEF BoardPlace, BoardHolder, BoardFailures
  <2> QED
    BY <2>2 DEF Board!vars, BoardPlace, BoardHolder, BoardFailures
<1>2. ASSUME NEW t \in Task, NEW D \in SUBSET Task, Created(t, D) PROVE Board!Next
  BY <1>2, CreatedAdds DEF Board!Next
<1>3. ASSUME NEW t \in Task, NEW w \in Worker, Given(t, w) PROVE Board!Next
  BY <1>3, GivenTakes DEF Board!Next
<1>4. ASSUME NEW t \in Task, Reported(t) PROVE Board!Next
  BY <1>4, ReportedFinishes DEF Board!Next
<1>5. ASSUME NEW d, Failed(d) PROVE [Board!Next]_(Board!vars)
  <2>1. PICK t : t = ctx[d].task
    OBVIOUS
  <2>2. t \in Task
    BY <1>5, <2>1, FailedDoes
  <2>3. Board!Fail(t) \/ UNCHANGED <<BoardPlace, deps, BoardHolder, BoardFailures>>
    BY <1>5, <2>1, FailedFails
  <2>4. CASE Board!Fail(t)
    BY <2>2, <2>4 DEF Board!Next
  <2>5. CASE UNCHANGED <<BoardPlace, deps, BoardHolder, BoardFailures>>
    BY <2>5 DEF Board!vars, BoardPlace, BoardHolder, BoardFailures
  <2> QED
    BY <2>3, <2>4, <2>5
<1> QED
  BY <1>1, <1>2, <1>3, <1>4, <1>5 DEF Event

LEMMA InitOnBoard ==
  ASSUME Init
  PROVE  Board!Init
<1>1. \A t \in Task : status[t] = "none" /\ Rows(t) = {}
  BY DEF Init, DbInit, Rows
<1>2. BoardPlace = [t \in Task |-> "absent"]
  BY <1>1, PlaceOfStatus DEF BoardPlace
<1>3. BoardHolder = [t \in Task |-> {}]
  <2>1. \A t \in Task : HolderOf(t) = {}
    BY <1>1, NoHolder
  <2> QED
    BY <2>1 DEF BoardHolder
<1>4. BoardFailures = [t \in Task |-> 0]
  <2>1. \A t \in Task : FailuresOf(t) = 0
    <3>1. Cardinality({}) = 0
      BY FS_EmptySet
    <3> QED
      BY <1>1, <3>1 DEF FailuresOf
  <2> QED
    BY <2>1 DEF BoardFailures
<1>5. deps = [t \in Task |-> {}]
  BY DEF Init, DbInit
<1> QED
  BY <1>2, <1>3, <1>4, <1>5 DEF Board!Init, BoardPlace, BoardHolder, BoardFailures

\* The coordinator, its store, its workers and their terminals implement the
\* board: whatever the order of their messages and exits, and through stops and
\* restarts, a task is taken by one worker that has no other and within the
\* limit, is done for good, or fails and is offered again until it is given up.
THEOREM Implementation ==
  ASSUME Alone, "task-create-late" \notin Ops
  PROVE  Spec => ImplementsBoard
<1>1. Init => Board!Init
  BY InitOnBoard
<1>2. LoopInv /\ TasksInv /\ NoStrandedTask /\ [Next]_vars => [Board!Next]_(Board!vars)
  BY NextEvent, EventOnBoard
<1>3. Spec => [](LoopInv /\ TasksInv /\ NoStrandedTask)
  BY Promoting
<1> QED
  BY <1>1, <1>2, <1>3, PTL DEF Spec, ImplementsBoard, Board!Spec
=============================================================================
