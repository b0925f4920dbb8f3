------------------------------ MODULE WorkProofs ------------------------------
(***************************************************************************)
(* What the coordinator's loop promises of the tasks: how many are worked  *)
(* on, who completes them, and that each has one worker, whatever gates    *)
(* are put on it.                                                          *)
(***************************************************************************)
EXTENDS DispatchProofs, RunProofs

-----------------------------------------------------------------------------
(* Which steps give a task a status. Gains(x) is about two statuses: the    *)
(* one that counts against maxConcurrent and the one that a worker reports. *)

NoneGains(x) == \A u \in Task : status'[u] = x => status[u] = x

LEMMA SetStatusGains ==
  ASSUME status \in [Task -> AnyStatus], NEW t, NEW s, NEW x \in TaskStatus, s # x,
         NEW u \in Task, SetStatus(t, s)[u] = x
  PROVE  status[u] = x /\ u # t
<1>1. CASE u = t
  BY <1>1 DEF SetStatus, Present
<1>2. CASE u # t
  BY <1>2 DEF SetStatus
<1> QED
  BY <1>1, <1>2

LEMMA UpdateTaskStatusGains ==
  ASSUME TypeOK, NEW t, NEW s \in TaskStatus, UpdateTaskStatus(t, s),
         NEW x \in TaskStatus \ {"ready"}, x # s
  PROVE  NoneGains(x)
<1>1. status \in [Task -> AnyStatus] /\ SetStatus(t, s) \in [Task -> AnyStatus]
  BY TypeOKStore, SetStatusType DEF StoreTypeOK
<1>2. ASSUME NEW u \in Task, status'[u] = x
      PROVE  SetStatus(t, s)[u] = x
  BY <1>1, <1>2 DEF UpdateTaskStatus, Promote
<1>3. ASSUME NEW u \in Task, SetStatus(t, s)[u] = x
      PROVE  status[u] = x
  BY <1>1, <1>3, SetStatusGains
<1> QED
  BY <1>2, <1>3 DEF NoneGains

LEMMA FailDispatchGains ==
  ASSUME TypeOK, NEW d, FailDispatch(d), NEW x \in TaskStatus \ {"ready", "failed"}
  PROVE  NoneGains(x)
<1>1. status \in [Task -> AnyStatus]
  BY DEF TypeOK, AnyStatus
<1>2. \/ status' = SetStatus(ctx[d].task, "failed")
      \/ status' = SetStatus(ctx[d].task, "ready")
      \/ status' = status
  BY DEF FailDispatch
<1> QED
  BY <1>1, <1>2, SetStatusGains DEF NoneGains

\* A step of the loop completes nothing but on a worker_done and dispatches
\* nothing but at the head of its dispatch loop.
LEMMA LoopGains ==
  ASSUME TypeOK, NEW c \in Coord, LoopStep(c), NEW x \in {"dispatched", "completed"},
         x = "dispatched" => ~DispatchNext(c),
         x = "completed" => ~(ProcessMessage(c) /\ HandleWorkerDone(c, inbox[at + 1]))
  PROVE  NoneGains(x)
<1>0. status \in [Task -> AnyStatus] /\ x \in TaskStatus \ {"ready", "failed", "blocked"}
  BY DEF TypeOK, AnyStatus, TaskStatus
<1>1. CASE ProcessMessage(c)
  <2> DEFINE m == inbox[at + 1]
  <2>1. CASE HandleWorkerDone(c, m)
    <3>1. CASE UpdateTaskStatus(m.task, "completed")
      BY <1>0, <1>1, <2>1, <3>1, UpdateTaskStatusGains DEF TaskStatus
    <3> QED
      BY <2>1, <3>1 DEF HandleWorkerDone, NoneGains
  <2>2. CASE HandleEscalation(c, m)
    <3>1. (\E d : FailDispatch(d)) \/ status' = status
      BY <2>2 DEF HandleEscalation
    <3> QED
      BY <1>0, <3>1, FailDispatchGains DEF NoneGains
  <2>3. CASE HandleDecisionGate(c, m)
    BY <1>0, <2>3, SetStatusGains DEF HandleDecisionGate, CreateGate, NoneGains
  <2> QED
    BY <1>1, <2>1, <2>2, <2>3 DEF ProcessMessage
<1>2. CASE HandlerThrows(c) \/ ListTerminals(c) \/ CreateTerminal(c) \/ Converge(c) \/ Wake(c)
  BY <1>2 DEF HandlerThrows, ListTerminals, CreateTerminal, Converge, Wake, dbVars, NoneGains
<1>3. CASE ScanReady(c)
  BY <1>0, <1>3 DEF ScanReady, Reblocked, NoneGains
<1>4. CASE DispatchNext(c)
  BY <1>0, <1>4 DEF DispatchNext, CreateDispatchContext, NoneGains
<1>5. CASE SendSettles(c)
  <2>1. (\E d : FailDispatch(d)) \/ status' = status
    BY <1>5 DEF SendSettles
  <2> QED
    BY <1>0, <2>1, FailDispatchGains DEF NoneGains
<1> QED
  BY <1>1, <1>2, <1>3, <1>4, <1>5 DEF LoopStep

\* Nobody else dispatches or completes a task, but for orchestration.dispatch,
\* a status set by hand and the end of the process in mid-completion.
LEMMA OthersGain ==
  ASSUME TypeOK, NEW x \in {"dispatched", "completed"}, [Next]_vars, ~\E c \in Coord : Loop(c),
         "task-update" \in Ops => x \notin ManualStatuses,
         x = "dispatched" => ~\E t \in Task, w \in Worker : Dispatch(t, w),
         x = "completed" => "torn-write" \notin Ops
  PROVE  NoneGains(x)
<1>0. status \in [Task -> AnyStatus] /\ x \in TaskStatus \ {"ready", "failed", "blocked"}
  BY DEF TypeOK, AnyStatus, TaskStatus
<1>1. ASSUME NEW t \in Task, NEW D \in SUBSET Task, TaskCreate(t, D) PROVE NoneGains(x)
  BY <1>0, <1>1 DEF TaskCreate, CreateTask, NoneGains
<1>2. ASSUME NEW t \in Task, NEW s \in ManualStatuses, TaskUpdate(t, s) PROVE NoneGains(x)
  <2>1. s \in TaskStatus /\ s # x /\ UpdateTaskStatus(t, s)
    BY <1>2, OrchestrationAssumption DEF TaskUpdate, May
  <2> QED
    BY <1>0, <2>1, UpdateTaskStatusGains
<1>3. ASSUME NEW t \in Task, NEW w \in Worker, Dispatch(t, w) PROVE NoneGains(x)
  BY <1>0, <1>3 DEF Dispatch, CreateDispatchContext, NoneGains
<1>4. ASSUME NEW t \in Task, GateCreate(t) PROVE NoneGains(x)
  BY <1>0, <1>4, SetStatusGains DEF GateCreate, CreateGate, NoneGains
<1>5. ASSUME NEW d, DispatchSettles(d) PROVE NoneGains(x)
  <2>1. FailDispatch(d) \/ status' = status
    BY <1>5 DEF DispatchSettles
  <2> QED
    BY <1>0, <2>1, FailDispatchGains DEF NoneGains
<1>6. ASSUME NEW g, GateResolve(g) PROVE NoneGains(x)
  BY <1>0, <1>6, SetStatusGains DEF GateResolve, ResolveGate, NoneGains
<1>7. ASSUME NEW w, Exit(w) PROVE NoneGains(x)
  <2>1. (\E d : FailDispatch(d)) \/ status' = status
    BY <1>7 DEF Exit
  <2> QED
    BY <1>0, <2>1, FailDispatchGains DEF NoneGains
<1>8. ASSUME Reset PROVE NoneGains(x)
  BY <1>0, <1>8 DEF Reset, ResetTasks, NoneGains
<1>9. ASSUME status' = status PROVE NoneGains(x)
  BY <1>9 DEF NoneGains
<1>10. ASSUME NEW c, Run(c) PROVE status' = status
  BY <1>10 DEF Run
<1>11. ASSUME NEW d, NEW w, WorkerSends(d, w) PROVE status' = status
  BY <1>11 DEF WorkerSends
<1>12. ASSUME NEW w, ExitHeadless(w) PROVE status' = status
  BY <1>12 DEF ExitHeadless, dbVars
<1>13. ASSUME MessagesGone \/ RunStop \/ Restart \/ UNCHANGED vars PROVE status' = status
  BY <1>13 DEF MessagesGone, RunStop, Restart, dbVars, vars
<1>14. ASSUME TornWrite PROVE NoneGains(x)
  <2>0. x = "dispatched"
    BY <1>14 DEF TornWrite
  <2>1. ASSUME NEW t, TornCompletion(t) PROVE NoneGains(x)
    <3>1. SetStatus(t, "completed") \in [Task -> AnyStatus]
      BY <1>0, SetStatusType DEF TaskStatus
    <3>2. \A u \in Task : status'[u] = x => SetStatus(t, "completed")[u] = x
      BY <2>1, <2>0, <3>1 DEF TornCompletion, Promote
    <3> QED
      BY <1>0, <2>0, <3>2, SetStatusGains DEF NoneGains
  <2>2. ASSUME ~\E t : TornCompletion(t) PROVE status' = status
    BY <1>14, <2>2 DEF TornWrite, TornHandler, TornCall, TornDispatch, TornFailure,
       TornGate, TornResolution, TornReset
  <2> QED
    BY <2>1, <2>2, <1>9
<1>15. CASE Next
  BY <1>1, <1>2, <1>3, <1>4, <1>5, <1>6, <1>7, <1>8, <1>9, <1>10, <1>11, <1>12, <1>13, <1>14,
     <1>15 DEF Next
<1> QED
  BY <1>9, <1>13, <1>15
-----------------------------------------------------------------------------
(* The authority to complete a task.                                        *)

\* The worker_done that a loop accepts is about the active dispatch of its task,
\* comes from its terminal, and completes it.
LEMMA WorkerDoneAuthority ==
  ASSUME TypeOK, NEW c \in Coord, ProcessMessage(c), HandleWorkerDone(c, inbox[at + 1]),
         NEW t \in Task, status[t] # "completed", status'[t] = "completed"
  PROVE  \E d \in DOMAIN ctx :
           /\ ctx[d].task = t /\ Active(d)
           /\ ctx'[d].status = "completed"
           /\ \E i \in DOMAIN inbox : /\ inbox[i].type = "worker_done"
                                      /\ inbox[i].ctx = d
                                      /\ inbox[i].from = ctx[d].who
<1>1. PICK m : m = inbox[at + 1]
  OBVIOUS
<1>2. at + 1 \in DOMAIN inbox /\ m.type = "worker_done"
  BY <1>1 DEF ProcessMessage, HandleWorkerDone, TypeOK, LoopTypeOK
<1>3. Accepted(m) /\ UpdateTaskStatus(m.task, "completed")
  BY <1>1 DEF HandleWorkerDone
<1>4. status \in [Task -> AnyStatus] /\ SetStatus(m.task, "completed") \in [Task -> AnyStatus]
  BY TypeOKStore, SetStatusType DEF StoreTypeOK, TaskStatus
<1>5. t = m.task
  <2>1. SetStatus(m.task, "completed")[t] = "completed"
    BY <1>3, <1>4 DEF UpdateTaskStatus, Promote
  <2> QED
    BY <2>1 DEF SetStatus
<1>6. LatestActive(m.ctx, t)
  BY <1>3, <1>5 DEF Accepted, Latest, LatestActive, Active, Exists
<1>7. m.ctx \in DOMAIN ctx /\ ctx[m.ctx] \in CtxRow
  BY <1>3, RowType DEF Accepted, Exists, TypeOK
<1>8. ctx'[m.ctx].status = "completed"
  BY <1>3, <1>5, <1>6, <1>7 DEF UpdateTaskStatus, CompleteActiveDispatch, CtxRow
<1> QED
  BY <1>1, <1>2, <1>3, <1>5, <1>7, <1>8 DEF Accepted, Active

\* Whoever resets, gates, stops, retries or restarts, a task is completed by the
\* worker that holds its active dispatch and by nobody else, and that dispatch
\* is completed with it. (A status set to completed by hand is the user's word,
\* and a torn write completes the task without its dispatch.)
THEOREM Authority ==
  ASSUME "task-update" \in Ops => "completed" \notin ManualStatuses,
         "torn-write" \notin Ops
  PROVE  Spec => CompletionAuthority
<1>1. ASSUME TypeOK, [Next]_vars, NEW t \in Task, status[t] # "completed", status'[t] = "completed"
      PROVE  \E d \in DOMAIN ctx :
               /\ ctx[d].task = t /\ Active(d)
               /\ ctx'[d].status = "completed"
               /\ \E i \in DOMAIN inbox : /\ inbox[i].type = "worker_done"
                                          /\ inbox[i].ctx = d
                                          /\ inbox[i].from = ctx[d].who
  <2>1. ~NoneGains("completed")
    BY <1>1 DEF NoneGains
  <2>2. PICK c \in Coord : Loop(c)
    BY <1>1, <2>1, OthersGain
  <2>3. ProcessMessage(c) /\ HandleWorkerDone(c, inbox[at + 1])
    BY <1>1, <2>1, <2>2, LoopGains DEF Loop
  <2> QED
    BY <1>1, <2>3, WorkerDoneAuthority
<1>2. TypeOK /\ [Next]_vars =>
        [\A t \in Task : status[t] # "completed" /\ status'[t] = "completed" =>
           \E d \in DOMAIN ctx :
             /\ ctx[d].task = t /\ Active(d)
             /\ ctx'[d].status = "completed"
             /\ \E i \in DOMAIN inbox : /\ inbox[i].type = "worker_done"
                                        /\ inbox[i].ctx = d
                                        /\ inbox[i].from = ctx[d].who]_vars
  BY <1>1
<1> QED
  BY <1>2, Typing, PTL DEF Spec, CompletionAuthority
-----------------------------------------------------------------------------
(* The limit on the tasks being worked on.                                  *)

\* Between the scan of a tick and its convergence check.
InTick(c) == pc[c] \in {"list", "create", "dispatch", "send"}

\* The slots a loop still has were free at its scan and have not been taken
\* since by a dispatch of its own. It goes on only while one is left.
Within(c) == /\ Cardinality(OwnTasks) + slots[c] <= MaxConcurrent
             /\ pc[c] # "send" => slots[c] >= 1

LimitInv == OwnLimit /\ \A c \in Coord : InTick(c) => Within(c)

\* No step but the loop's own dispatch adds a task that the loop has given out:
\* one dispatched by hand is the hand's, whoever had it before.
OwnKept == OwnTasks' \subseteq OwnTasks

LEMMA OwnFinite == IsFiniteSet(OwnTasks) /\ Cardinality(OwnTasks) \in Nat
BY FS_Subset, FS_CardinalityType, CoordinatorAssumption DEF OwnTasks, Tasks

LEMMA FewerOwn ==
  ASSUME OwnKept
  PROVE  Cardinality(OwnTasks)' \in Nat /\ Cardinality(OwnTasks)' <= Cardinality(OwnTasks)
<1> DEFINE New == OwnTasks'
<1>1. New \subseteq OwnTasks
  BY DEF OwnKept
<1>2. Cardinality(New) \in Nat /\ Cardinality(New) <= Cardinality(OwnTasks)
  BY <1>1, OwnFinite, FS_Subset, FS_CardinalityType
<1> QED
  BY <1>2

LEMMA GainsOwn ==
  ASSUME NoneGains("dispatched"),
         byHand' \in {byHand, {t \in byHand : status'[t] = "dispatched" => status[t] = "dispatched"}}
  PROVE  OwnKept
BY DEF NoneGains, OwnKept, OwnTasks, Tasks

LEMMA DispatchKeepsOwn ==
  ASSUME TypeOK, NEW t \in Task, NEW w \in Worker, Dispatch(t, w)
  PROVE  OwnKept
BY DEF Dispatch, CreateDispatchContext, OwnKept, OwnTasks, Tasks, TypeOK

LEMMA OthersKeepHand ==
  ASSUME [Next]_vars, ~\E c \in Coord : Loop(c), ~\E t \in Task, w \in Worker : Dispatch(t, w)
  PROVE  byHand' = byHand
BY DEF Next, Run, TaskCreate, TaskUpdate, GateCreate, DispatchSettles, WorkerSends, GateResolve,
   Exit, ExitHeadless, Reset, MessagesGone, RunStop, Restart, TornWrite, ProcessLost, vars

LEMMA OthersKeepOwn ==
  ASSUME TypeOK, [Next]_vars, ~\E c \in Coord : Loop(c),
         "task-update" \in Ops => "dispatched" \notin ManualStatuses
  PROVE  OwnKept
<1>1. CASE \E t \in Task, w \in Worker : Dispatch(t, w)
  BY <1>1, DispatchKeepsOwn
<1>2. CASE ~\E t \in Task, w \in Worker : Dispatch(t, w)
  BY <1>2, OthersGain, OthersKeepHand, GainsOwn
<1> QED
  BY <1>1, <1>2

\* A loop that was in its tick keeps a slot where it needs one, and the loops
\* that were not do not enter one.
SlotsKept ==
  \A c \in Coord : InTick(c)' => /\ InTick(c)
                                 /\ slots'[c] \in Int /\ slots'[c] <= slots[c]
                                 /\ pc'[c] # "send" => slots'[c] >= 1

LEMMA LimitKept ==
  ASSUME TypeOK, LimitInv, OwnKept, SlotsKept
  PROVE  LimitInv'
<1>1. PICK n, m : n = Cardinality(OwnTasks) /\ m = Cardinality(OwnTasks)'
  OBVIOUS
<1>2. n \in Nat /\ m \in Nat /\ m <= n /\ MaxConcurrent \in Nat
  BY <1>1, OwnFinite, FewerOwn, CoordinatorAssumption
<1>3. OwnLimit'
  BY <1>1, <1>2 DEF LimitInv, OwnLimit
<1>4. ASSUME NEW c \in Coord, InTick(c)'
      PROVE  m + slots'[c] <= MaxConcurrent /\ (pc'[c] # "send" => slots'[c] >= 1)
  <2>1. n + slots[c] <= MaxConcurrent /\ slots[c] \in Int
    BY <1>1, <1>4 DEF LimitInv, Within, SlotsKept, TypeOK, LoopTypeOK
  <2> QED
    BY <1>2, <1>4, <2>1 DEF SlotsKept
<1> QED
  BY <1>1, <1>3, <1>4 DEF LimitInv, Within

\* The scan counts the dispatched tasks of the table it has just written.
LEMMA ScanLimit ==
  ASSUME TypeOK, LimitInv, NEW c \in Coord, ScanReady(c), OwnKept
  PROVE  LimitInv'
<1>1. PICK n, m : n = Cardinality(OwnTasks) /\ m = Cardinality(OwnTasks)'
  OBVIOUS
<1>2. n \in Nat /\ m \in Nat /\ m <= n /\ MaxConcurrent \in Nat
  BY <1>1, OwnFinite, FewerOwn, CoordinatorAssumption
<1>3. OwnLimit'
  BY <1>1, <1>2 DEF LimitInv, OwnLimit
<1>4. PICK used \in Nat : used = Cardinality({t \in Task : Reblocked[t] = "dispatched"}) /\ m <= used
  <2> DEFINE Counted == {t \in Task : Reblocked[t] = "dispatched"}
             New == OwnTasks'
  <2>1. New \subseteq Counted
    BY DEF ScanReady, OwnTasks, Tasks
  <2>2. IsFiniteSet(Counted) /\ Cardinality(Counted) \in Nat
    BY FS_Subset, FS_CardinalityType, CoordinatorAssumption
  <2>3. Cardinality(New) <= Cardinality(Counted)
    BY <2>1, <2>2, FS_Subset
  <2> QED
    BY <1>1, <2>2, <2>3
<1>5. CASE pc' = [pc EXCEPT ![c] = "converge"] /\ UNCHANGED slots
  BY <1>5, LimitKept DEF SlotsKept, InTick, LimitInv, Within, TypeOK, LoopTypeOK
<1>6. CASE /\ used < MaxConcurrent
           /\ pc' = [pc EXCEPT ![c] = "list"]
           /\ slots' = [slots EXCEPT ![c] = MaxConcurrent - used]
  <2>0. pc \in [Coord -> PC] /\ slots \in [Coord -> Int]
    BY DEF TypeOK, LoopTypeOK
  <2>1. ASSUME NEW e \in Coord, InTick(e)'
        PROVE  m + slots'[e] <= MaxConcurrent /\ (pc'[e] # "send" => slots'[e] >= 1)
    <3>1. CASE e = c
      BY <1>2, <1>4, <1>6, <2>0, <3>1
    <3>2. CASE e # c
      <4>1. pc'[e] = pc[e] /\ slots'[e] = slots[e] /\ slots[e] \in Int /\ InTick(e)
        BY <1>6, <2>0, <2>1, <3>2 DEF InTick
      <4>2. n + slots[e] <= MaxConcurrent /\ (pc[e] # "send" => slots[e] >= 1)
        BY <1>1, <4>1 DEF LimitInv, Within
      <4> QED
        BY <1>2, <4>1, <4>2
    <3> QED
      BY <3>1, <3>2
  <2> QED
    BY <1>1, <1>3, <2>1 DEF LimitInv, Within
<1> QED
  BY <1>1, <1>4, <1>5, <1>6 DEF ScanReady

\* A dispatch takes one of the loop's own slots.
LEMMA DispatchLimit ==
  ASSUME TypeOK, OneLoop, LimitInv, NEW c \in Coord, DispatchNext(c), Loop(c)
  PROVE  LimitInv'
<1>1. PICK n, m : n = Cardinality(OwnTasks) /\ m = Cardinality(OwnTasks)'
  OBVIOUS
<1>2. n \in Nat /\ m \in Nat /\ MaxConcurrent \in Nat
  <2> DEFINE New == OwnTasks'
  <2>1. New \subseteq Task
    BY DEF OwnTasks, Tasks
  <2>2. Cardinality(New) \in Nat
    BY <2>1, FS_Subset, FS_CardinalityType, CoordinatorAssumption
  <2> QED
    BY <1>1, <2>2, OwnFinite, CoordinatorAssumption
<1>3. /\ pc[c] = "dispatch" /\ slots' = [slots EXCEPT ![c] = @ - 1]
      /\ slots \in [Coord -> Int] /\ pc \in [Coord -> PC]
  BY DEF DispatchNext, TypeOK, LoopTypeOK
<1>4. n + slots[c] <= MaxConcurrent /\ slots[c] >= 1
  BY <1>1, <1>3 DEF LimitInv, Within, InTick
<1>5. \A e \in Coord : InTick(e) => e = c
  BY <1>3 DEF OneLoop, Looping, InTick
<1>6. PICK t \in todo[c], w \in free[c] :
        \/ CreateDispatchContext(t, w) /\ pc' = [pc EXCEPT ![c] = "send"]
        \/ /\ LoopHead(c, MoreToTry(todo[c] \ {t}, slots[c] - 1, free[c] \ {w}))
           /\ status' = status
  BY DEF DispatchNext
<1>7. CASE CreateDispatchContext(t, w) /\ pc' = [pc EXCEPT ![c] = "send"]
  <2>1. m <= n + 1
    <3> DEFINE New == OwnTasks'
    <3>1. New \subseteq OwnTasks \cup {t}
      BY <1>7 DEF CreateDispatchContext, OwnTasks, Tasks, TypeOK, Loop
    <3>2. /\ IsFiniteSet(OwnTasks \cup {t})
          /\ Cardinality(OwnTasks \cup {t}) \in {n, n + 1}
      BY <1>1, OwnFinite, FS_AddElement
    <3>3. Cardinality(New) <= Cardinality(OwnTasks \cup {t})
      BY <3>1, <3>2, FS_Subset
    <3> QED
      BY <1>1, <1>2, <3>2, <3>3
  <2>2. ASSUME NEW e \in Coord, InTick(e)'
        PROVE  m + slots'[e] <= MaxConcurrent /\ (pc'[e] # "send" => slots'[e] >= 1)
    <3>1. e = c
      BY <1>3, <1>5, <1>7, <2>2 DEF InTick
    <3> QED
      BY <1>2, <1>3, <1>4, <1>7, <2>1, <3>1
  <2>3. OwnLimit'
    BY <1>1, <1>2, <1>3, <1>4, <2>1 DEF OwnLimit
  <2> QED
    BY <1>1, <2>2, <2>3 DEF LimitInv, Within
<1>8. CASE /\ LoopHead(c, MoreToTry(todo[c] \ {t}, slots[c] - 1, free[c] \ {w}))
           /\ status' = status
  <2>1. OwnKept
    BY <1>8, GainsOwn DEF NoneGains, Loop
  <2>2. SlotsKept
    BY <1>3, <1>5, <1>8 DEF LoopHead, MoreToTry, SlotsKept, InTick
  <2> QED
    BY <2>1, <2>2, LimitKept
<1> QED
  BY <1>6, <1>7, <1>8

LEMMA LoopLimit ==
  ASSUME TypeOK, OneLoop, LimitInv, NEW c \in Coord, Loop(c)
  PROVE  LimitInv'
<1>0. pc \in [Coord -> PC] /\ slots \in [Coord -> Int]
  BY DEF TypeOK, LoopTypeOK
<1>1. CASE DispatchNext(c)
  BY <1>1, DispatchLimit
<1>2. CASE ~DispatchNext(c)
  <2>1. OwnKept
    BY <1>2, LoopGains, GainsOwn DEF Loop
  <2>2. CASE ScanReady(c)
    BY <2>1, <2>2, ScanLimit
  <2>3. CASE ~ScanReady(c)
    <3>1. \A e \in Coord : InTick(e) => /\ slots[e] \in Int
                                        /\ pc[e] # "send" => slots[e] >= 1
      BY <1>0 DEF LimitInv, Within
    <3>2. ASSUME ProcessMessage(c) PROVE SlotsKept
      BY <3>1, <3>2 DEF ProcessMessage, SlotsKept, InTick
    <3>3. ASSUME HandlerThrows(c) \/ Converge(c) \/ Wake(c) PROVE SlotsKept
      <4>1. /\ \E p \in {"done", "sleep", "messages"} : pc' = [pc EXCEPT ![c] = p]
            /\ slots' = slots \/ slots' = [slots EXCEPT ![c] = 0]
        BY <3>3 DEF HandlerThrows, Converge, Wake, Finish, End
      <4> QED
        BY <1>0, <3>1, <4>1 DEF SlotsKept, InTick
    <3>4. ASSUME ListTerminals(c) \/ CreateTerminal(c) PROVE SlotsKept
      <4>1. /\ \E p \in {"create", "dispatch", "converge"} : pc' = [pc EXCEPT ![c] = p]
            /\ slots' = slots /\ pc[c] \in {"list", "create"}
        BY <3>4 DEF ListTerminals, CreateTerminal
      <4> QED
        BY <1>0, <3>1, <4>1 DEF SlotsKept, InTick
    <3>5. ASSUME SendSettles(c) PROVE SlotsKept
      <4>1. /\ LoopHead(c, MoreToTry(todo[c], slots[c], free[c]))
            /\ slots' = slots /\ pc[c] = "send"
        BY <3>5 DEF SendSettles
      <4> QED
        BY <1>0, <3>1, <4>1 DEF SlotsKept, InTick, LoopHead, MoreToTry
    <3> QED
      BY <1>2, <2>1, <2>3, <3>2, <3>3, <3>4, <3>5, LimitKept DEF Loop, LoopStep
  <2> QED
    BY <2>2, <2>3
<1> QED
  BY <1>1, <1>2

\* The calls, messages, exits and restarts leave every loop where it is, take
\* it out of the tick, or start one that has not come to its tick.
LEMMA OthersSlots ==
  ASSUME TypeOK, LimitInv, [Next]_vars, ~\E c \in Coord : Loop(c)
  PROVE  SlotsKept
<1>1. \A e \in Coord : InTick(e) => slots[e] \in Int /\ (pc[e] # "send" => slots[e] >= 1)
  BY DEF LimitInv, Within, TypeOK, LoopTypeOK
<1>2. ASSUME UNCHANGED <<pc, slots>> PROVE SlotsKept
  BY <1>1, <1>2 DEF SlotsKept, InTick
<1>3. ASSUME NEW c \in Coord, Run(c) PROVE SlotsKept
  <2>1. /\ \E p \in {"messages", "done"} : pc' = [pc EXCEPT ![c] = p]
        /\ slots' = slots /\ pc \in [Coord -> PC]
    BY <1>3 DEF Run, TypeOK, LoopTypeOK
  <2> QED
    BY <1>1, <2>1 DEF SlotsKept, InTick
<1>4. ASSUME ProcessLost PROVE SlotsKept
  BY <1>4 DEF ProcessLost, SlotsKept, InTick
<1>5. ASSUME NEW t \in Task, \/ \E D \in SUBSET Task : TaskCreate(t, D)
                             \/ \E s \in ManualStatuses : TaskUpdate(t, s)
                             \/ \E w \in Worker : Dispatch(t, w)
                             \/ GateCreate(t)
      PROVE  UNCHANGED <<pc, slots>>
  BY <1>5 DEF TaskCreate, TaskUpdate, Dispatch, GateCreate, loopVars
<1>6. ASSUME NEW d, DispatchSettles(d) \/ \E w \in Worker : WorkerSends(d, w)
      PROVE  UNCHANGED <<pc, slots>>
  BY <1>6 DEF DispatchSettles, WorkerSends, loopVars
<1>7. ASSUME NEW g, GateResolve(g) PROVE UNCHANGED <<pc, slots>>
  BY <1>7 DEF GateResolve, loopVars
<1>8. ASSUME NEW w, Exit(w) \/ ExitHeadless(w) PROVE UNCHANGED <<pc, slots>>
  BY <1>8 DEF Exit, ExitHeadless, loopVars
<1>9. ASSUME Reset \/ MessagesGone \/ RunStop \/ UNCHANGED vars PROVE UNCHANGED <<pc, slots>>
  BY <1>9 DEF Reset, MessagesGone, RunStop, loopVars, vars
<1>10. ASSUME Restart \/ TornWrite PROVE SlotsKept
  BY <1>4, <1>10 DEF Restart, TornWrite
<1> QED
  BY <1>2, <1>3, <1>5, <1>6, <1>7, <1>8, <1>9, <1>10 DEF Next

LEMMA Limiting ==
  ASSUME "reset" \notin Ops,
         "task-update" \in Ops => "dispatched" \notin ManualStatuses
  PROVE  Spec => []LimitInv
<1>1. Init => TypeInv /\ LimitInv
  <2> SUFFICES ASSUME Init PROVE LimitInv
    BY TypeInit
  <2>1. OwnTasks = {}
    BY DEF Init, DbInit, OwnTasks, Tasks
  <2>2. Cardinality(OwnTasks) <= MaxConcurrent
    BY <2>1, FS_EmptySet, CoordinatorAssumption
  <2> QED
    BY <2>2 DEF Init, CoordInit, LimitInv, OwnLimit, InTick
<1>2. TypeInv /\ OneLoop /\ LimitInv /\ [Next]_vars => (TypeInv /\ LimitInv)'
  <2> SUFFICES ASSUME TypeInv, OneLoop, LimitInv, [Next]_vars
               PROVE  LimitInv'
    BY NextTypes
  <2>1. ASSUME NEW c \in Coord, Loop(c) PROVE LimitInv'
    BY <2>1, LoopLimit DEF TypeInv
  <2>2. CASE ~\E c \in Coord : Loop(c)
    BY <2>2, OthersKeepOwn, OthersSlots, LimitKept DEF TypeInv
  <2> QED
    BY <2>1, <2>2
<1>3. Spec => []OneLoop
  BY SingleLoop
<1> QED
  BY <1>1, <1>2, <1>3, PTL DEF Spec

\* The loop never has more than maxConcurrent tasks of its own worked on,
\* although it counts them once a tick and then awaits terminals, probes and
\* injections: meanwhile workers report and die, tasks become ready again, and
\* tasks are dispatched by hand, those the loop is about to try included. What
\* is dispatched by hand after the count adds to the loop's own. Excluded are the reset, after which a second loop can run
\* beside the first, and a status set to dispatched by hand.
THEOREM Limited ==
  ASSUME "reset" \notin Ops,
         "task-update" \in Ops => "dispatched" \notin ManualStatuses
  PROVE  Spec => []OwnLimit
<1>1. Spec => []LimitInv
  BY Limiting
<1>2. LimitInv => OwnLimit
  BY DEF LimitInv
<1> QED
  BY <1>1, <1>2, PTL
-----------------------------------------------------------------------------
(* One worker per task, gates included. What the two tables and the gates   *)
(* have in common:                                                          *)

\* A gated task has no worker and is not about to get one.
GateIdle ==
  \A t \in Task : PendingGate(t) =>
    /\ \A d \in DOMAIN ctx : ctx[d].task = t => ~Active(d)
    /\ status[t] \notin {"none", "pending", "dispatched"}

\* Nothing is deleted, and no dispatch is older than its task.
IdsInv == /\ \A t \in Task : status[t] # "deleted"
          /\ \A d \in DOMAIN ctx : ctx[d].status # "deleted" /\ status[ctx[d].task] # "none"

StoreInv == OneWorkerPerTask /\ GateIdle /\ IdsInv

\* Steps that dispatch nothing. The tasks move as failures, completions, gates
\* and their resolutions move them, and a task that keeps its active dispatch
\* keeps showing as dispatched.
Moves == \A u \in Task : \/ status'[u] = status[u]
                         \/ status'[u] \in {"ready", "failed", "completed", "blocked"}
                         \/ status[u] = "none" /\ status'[u] = "pending"

QuietStep ==
  /\ Kept(ctx')
  /\ \A d \in DOMAIN ctx : ctx'[d].status # "deleted"
  /\ Moves
  /\ \A d \in DOMAIN ctx : Active(d)' => status'[ctx[d].task] = "dispatched"
  /\ \A u \in Task : PendingGate(u)' =>
       \/ PendingGate(u)
       \/ status'[u] = "blocked" /\ \A d \in DOMAIN ctx : ctx[d].task = u => ~Active(d)'

LEMMA RowTask ==
  ASSUME TypeOK, NEW d \in DOMAIN ctx
  PROVE  /\ ctx[d] \in CtxRow /\ ctx[d].task \in Task /\ ctx[d].who \in Worker
         /\ ctx[d].fails \in Nat /\ d \in Nat \ {0}
<1>1. ctx[d] \in CtxRow
  BY RowType DEF TypeOK
<1>2. d \in Nat \ {0}
  BY DEF TypeOK
<1> QED
  BY <1>1, <1>2 DEF CtxRow

\* Where nothing is deleted, the latest dispatch of a task stays the latest.
LEMMA LatestKept ==
  ASSUME IdsInv, Kept(ctx'), \A d \in DOMAIN ctx : ctx'[d].status # "deleted",
         NEW d, NEW t
  PROVE  Latest(d, t)' <=> Latest(d, t)
BY DEF IdsInv, Kept, Latest, Rows

LEMMA LatestUnique ==
  ASSUME TypeOK, NEW d, NEW e, NEW t, Latest(d, t), Latest(e, t)
  PROVE  d = e
<1>1. d \in Nat /\ e \in Nat /\ d <= e /\ e <= d
  BY DEF Latest, Rows, TypeOK
<1> QED
  BY <1>1

LEMMA QuietKeeps ==
  ASSUME TypeOK, StoreInv, QuietStep
  PROVE  StoreInv'
<1>1. OneWorkerPerTask'
  <2> SUFFICES ASSUME NEW d \in DOMAIN ctx', Active(d)'
               PROVE  status'[ctx'[d].task] = "dispatched" /\ Latest(d, ctx[d].task)'
                      /\ ctx'[d].task = ctx[d].task
    BY DEF OneWorkerPerTask
  <2>1. d \in DOMAIN ctx /\ Active(d) /\ ctx'[d].task = ctx[d].task
    BY DEF QuietStep, Kept, Active
  <2>2. Latest(d, ctx[d].task)
    BY <2>1 DEF StoreInv, OneWorkerPerTask
  <2>3. PICK t : t = ctx[d].task
    OBVIOUS
  <2>4. Latest(d, t)' /\ ctx'[d].task = t
    BY <2>1, <2>2, <2>3, LatestKept DEF QuietStep, StoreInv
  <2> QED
    BY <2>1, <2>3, <2>4 DEF QuietStep, Latest
<1>2. GateIdle'
  <2> SUFFICES ASSUME NEW u \in Task, PendingGate(u)'
               PROVE  /\ \A d \in DOMAIN ctx : ctx[d].task = u => ~Active(d)'
                      /\ status'[u] \notin {"none", "pending", "dispatched"}
    BY DEF GateIdle, QuietStep, Kept
  <2>1. CASE PendingGate(u)
    BY <2>1 DEF QuietStep, Moves, StoreInv, GateIdle, Kept, Active
  <2> QED
    BY <2>1 DEF QuietStep
<1>3. IdsInv'
  <2>1. \A d \in DOMAIN ctx : ctx[d].task \in Task
    BY RowTask
  <2> QED
    BY <2>1 DEF QuietStep, Moves, StoreInv, IdsInv, Kept
<1> QED
  BY <1>1, <1>2, <1>3 DEF StoreInv

\* A dispatch to a task that has no gate.
LEMMA GiveKeeps ==
  ASSUME TypeOK, StoreInv, NEW t \in Task, NEW w, CreateDispatchContext(t, w),
         ~PendingGate(t), gate' = gate
  PROVE  /\ StoreInv'
         /\ \A k : k = Len(ctx) + 1 => Latest(k, t)' /\ ctx'[k].task = t
<1>1. PICK n \in PriorFailures(t) :
        ctx' = Append(ctx, [task |-> t, who |-> w, status |-> "dispatched", fails |-> n])
  BY DEF CreateDispatchContext
<1>2. PICK k : k = Len(ctx) + 1
  OBVIOUS
<1>3. /\ DOMAIN ctx' = DOMAIN ctx \cup {k}
      /\ \A d \in DOMAIN ctx : ctx'[d] = ctx[d] /\ d \in Nat /\ d < k
      /\ ctx'[k].task = t /\ ctx'[k].status = "dispatched"
      /\ k \in Nat
  BY <1>1, <1>2 DEF TypeOK
<1>4. status[t] = "ready" /\ status' = [status EXCEPT ![t] = "dispatched"]
  BY DEF CreateDispatchContext, CanDispatch
<1>5. status \in [Task -> AnyStatus] /\ \A d \in DOMAIN ctx : ctx[d].task \in Task
  BY RowTask, TypeOKStore DEF StoreTypeOK
<1>6. Latest(k, t)'
  BY <1>3 DEF Latest, Rows
<1>7. OneWorkerPerTask'
  <2> SUFFICES ASSUME NEW d \in DOMAIN ctx', Active(d)'
               PROVE  status'[ctx'[d].task] = "dispatched" /\ \A e \in Rows(ctx[d].task)' : e <= d
    BY <1>3 DEF OneWorkerPerTask, Latest, Rows, Active
  <2>1. CASE d = k
    BY <1>3, <1>4, <1>5, <2>1 DEF Rows
  <2>2. CASE d \in DOMAIN ctx
    <3>1. Active(d) /\ ctx'[d].task = ctx[d].task
      BY <1>3, <2>2 DEF Active
    <3>2. status[ctx[d].task] = "dispatched" /\ Latest(d, ctx[d].task)
      BY <2>2, <3>1 DEF StoreInv, OneWorkerPerTask
    <3>3. ctx[d].task # t
      BY <1>4, <3>2
    <3> QED
      BY <1>3, <1>4, <1>5, <2>2, <3>1, <3>2, <3>3 DEF Latest, Rows
  <2> QED
    BY <1>3, <2>1, <2>2
<1>8. GateIdle'
  <2>1. \A u \in Task : PendingGate(u)' => PendingGate(u) /\ u # t
    BY DEF PendingGate
  <2> QED
    BY <1>3, <1>4, <1>5, <2>1 DEF StoreInv, GateIdle, Active
<1>9. IdsInv'
  BY <1>3, <1>4, <1>5 DEF StoreInv, IdsInv
<1> QED
  BY <1>2, <1>3, <1>6, <1>7, <1>8, <1>9 DEF StoreInv
-----------------------------------------------------------------------------
(* The methods of the store are quiet.                                      *)

LEMMA SetStatusMoves ==
  ASSUME status \in [Task -> AnyStatus], NEW t, NEW s \in {"ready", "failed", "completed", "blocked"},
         NEW u \in Task
  PROVE  /\ SetStatus(t, s)[u] \in {status[u], s}
         /\ u # t => SetStatus(t, s)[u] = status[u]
         /\ u = t /\ Present(t) => SetStatus(t, s)[u] = s
BY DEF SetStatus

LEMMA SameIsQuiet ==
  ASSUME TypeOK, StoreInv, UNCHANGED <<status, ctx, gate>>
  PROVE  QuietStep
<1>1. Kept(ctx')
  BY UnchangedKept DEF TypeOK
<1>2. \A u : PendingGate(u)' <=> PendingGate(u)
  BY DEF PendingGate
<1> QED
  BY <1>1, <1>2 DEF QuietStep, Moves, StoreInv, OneWorkerPerTask, IdsInv, Active

LEMMA CreateTaskIsQuiet ==
  ASSUME TypeOK, StoreInv, NEW t \in Task, NEW D, CreateTask(t, D), UNCHANGED <<ctx, gate>>
  PROVE  QuietStep
<1>1. Kept(ctx')
  BY UnchangedKept DEF TypeOK
<1>2. \A u : PendingGate(u)' <=> PendingGate(u)
  BY DEF PendingGate
<1>3. status \in [Task -> AnyStatus]
  BY DEF TypeOK, AnyStatus
<1>4. status[t] = "none" /\ \A u \in Task : u # t => status'[u] = status[u]
  BY <1>3 DEF CreateTask
<1>5. status'[t] \in {"ready", "pending"}
  BY <1>3 DEF CreateTask
<1>6. ASSUME NEW d \in DOMAIN ctx, Active(d)'
      PROVE  status'[ctx[d].task] = "dispatched"
  <2>1. status[ctx[d].task] = "dispatched" /\ ctx[d].task \in Task
    BY <1>6, RowTask DEF StoreInv, OneWorkerPerTask, Active
  <2> QED
    BY <1>4, <2>1
<1>7. Moves
  BY <1>4, <1>5 DEF Moves
<1> QED
  BY <1>1, <1>2, <1>6, <1>7 DEF QuietStep, StoreInv, IdsInv

LEMMA CompleteSettles ==
  ASSUME TypeOK, StoreInv, NEW t, ctx' = CompleteActiveDispatch(t)
  PROVE  /\ Kept(ctx')
         /\ \A d \in DOMAIN ctx : ctx'[d].status # "deleted"
         /\ \A d \in DOMAIN ctx : Active(d)' => Active(d) /\ ctx[d].task # t
<1>1. Kept(ctx')
  BY CompleteKept DEF TypeOK
<1>2. ASSUME NEW d \in DOMAIN ctx
      PROVE  ctx'[d].status # "deleted" /\ (Active(d)' => Active(d) /\ ctx[d].task # t)
  <2>1. ctx[d] \in CtxRow
    BY RowTask
  <2>2. CASE LatestActive(d, t)
    <3>1. ctx'[d].status = "completed"
      BY <2>1, <2>2 DEF CompleteActiveDispatch, CtxRow
    <3> QED
      BY <3>1 DEF Active
  <2>3. CASE ~LatestActive(d, t)
    <3>1. ctx'[d] = ctx[d]
      BY <2>3 DEF CompleteActiveDispatch
    <3>2. Active(d) => ctx[d].task # t
      BY <2>3 DEF StoreInv, OneWorkerPerTask, LatestActive, Latest
    <3>3. Active(d)' => Active(d)
      BY <3>1 DEF Active
    <3> QED
      BY <3>1, <3>2, <3>3 DEF StoreInv, IdsInv
  <2> QED
    BY <2>2, <2>3
<1> QED
  BY <1>1, <1>2

LEMMA CompletionIsQuiet ==
  ASSUME TypeOK, StoreInv, NEW t, UpdateTaskStatus(t, "completed"), gate' = gate
  PROVE  /\ QuietStep
         /\ \A u \in Task : status'[u] = "ready" => status[u] \in {"ready", "pending"}
<1>1. status \in [Task -> AnyStatus]
  BY DEF TypeOK, AnyStatus
<1>2. status' = Promote(SetStatus(t, "completed"), t) /\ ctx' = CompleteActiveDispatch(t)
  BY DEF UpdateTaskStatus
<1>3. \A u : PendingGate(u)' <=> PendingGate(u)
  BY DEF PendingGate
<1>4. ASSUME NEW u \in Task
      PROVE  /\ \/ status'[u] = SetStatus(t, "completed")[u]
                \/ SetStatus(t, "completed")[u] = "pending" /\ status'[u] = "ready"
             /\ SetStatus(t, "completed")[u] \in {status[u], "completed"}
             /\ u # t => SetStatus(t, "completed")[u] = status[u]
  BY <1>1, <1>2, SetStatusMoves DEF Promote
<1>5. ASSUME NEW d \in DOMAIN ctx, Active(d)'
      PROVE  status'[ctx[d].task] = "dispatched"
  <2>1. Active(d) /\ ctx[d].task # t /\ ctx[d].task \in Task
    BY <1>2, <1>5, CompleteSettles, RowTask
  <2>2. status[ctx[d].task] = "dispatched"
    BY <2>1 DEF StoreInv, OneWorkerPerTask
  <2> QED
    BY <1>4, <2>1, <2>2
<1>6. Moves
  BY <1>4 DEF Moves
<1> QED
  BY <1>2, <1>3, <1>4, <1>5, <1>6, CompleteSettles DEF QuietStep

LEMMA FailureIsQuiet ==
  ASSUME TypeOK, StoreInv, NEW d, Latest(d, ctx[d].task), FailDispatch(d), gate' = gate
  PROVE  /\ QuietStep
         /\ \A u \in Task : u # ctx[d].task => status'[u] = status[u]
<1>1. PICK t : t = ctx[d].task
  OBVIOUS
<1>2. status \in [Task -> AnyStatus] /\ d \in DOMAIN ctx /\ t \in Task /\ Exists(d)
  BY <1>1, RowTask DEF TypeOK, AnyStatus, Latest, Rows, Exists
<1>3. /\ ctx' = [ctx EXCEPT ![d].status = IF Breaks(d) THEN "circuit_broken" ELSE "failed",
                            ![d].fails = @ + 1]
      /\ status' = SetStatus(t, IF Breaks(d) THEN "failed" ELSE "ready")
  BY <1>1, <1>2 DEF FailDispatch
<1>4. \A u : PendingGate(u)' <=> PendingGate(u)
  BY DEF PendingGate
<1>5. ASSUME NEW u \in Task
      PROVE  status'[u] \in {status[u], "ready", "failed"} /\ (u # t => status'[u] = status[u])
  BY <1>2, <1>3, SetStatusMoves
<1>6. Kept(ctx') /\ ~Active(d)'
  BY FailDispatchSettles
<1>7. ASSUME NEW e \in DOMAIN ctx
      PROVE  ctx'[e].status # "deleted"
  <2>1. ctx[e] \in CtxRow /\ ctx[e].status # "deleted"
    BY RowTask DEF StoreInv, IdsInv
  <2> QED
    BY <1>2, <1>3, <2>1 DEF CtxRow
<1>8. ASSUME NEW e \in DOMAIN ctx, Active(e)'
      PROVE  status'[ctx[e].task] = "dispatched"
  <2>1. Active(e) /\ e # d /\ ctx[e].task \in Task
    BY <1>6, <1>8, RowTask DEF Kept, Active
  <2>2. status[ctx[e].task] = "dispatched" /\ Latest(e, ctx[e].task)
    BY <2>1 DEF StoreInv, OneWorkerPerTask
  <2>3. ctx[e].task # t
    BY <1>1, <2>1, <2>2, LatestUnique
  <2> QED
    BY <1>5, <2>1, <2>2, <2>3
<1>9. Moves
  BY <1>5 DEF Moves
<1>10. QuietStep
  BY <1>4, <1>6, <1>7, <1>8, <1>9 DEF QuietStep
<1> QED
  BY <1>1, <1>5, <1>10

LEMMA CreateGateIsQuiet ==
  ASSUME TypeOK, StoreInv, NEW t \in Task, status[t] # "none", CreateGate(t)
  PROVE  /\ QuietStep
         /\ \A u \in Task : /\ u # t => (PendingGate(u)' <=> PendingGate(u))
                            /\ status'[u] = (IF u = t THEN "blocked" ELSE status[u])
<1>1. status \in [Task -> AnyStatus] /\ Present(t)
  BY DEF TypeOK, AnyStatus, Present, StoreInv, IdsInv
<1>2. \A u \in Task : status'[u] = (IF u = t THEN "blocked" ELSE status[u])
  BY <1>1, SetStatusMoves DEF CreateGate
<1>3. ASSUME NEW u, u # t
      PROVE  PendingGate(u)' <=> PendingGate(u)
  <2>1. gate' = Append(gate, [task |-> t, status |-> "pending"]) /\ gate \in Seq(GateRow)
    BY DEF CreateGate, TypeOK
  <2>2. /\ DOMAIN gate' = DOMAIN gate \cup {Len(gate) + 1}
        /\ \A g \in DOMAIN gate : gate'[g] = gate[g]
        /\ gate'[Len(gate) + 1].task = t
    BY <2>1
  <2> QED
    BY <1>3, <2>2 DEF PendingGate
<1>4. /\ Kept(ctx')
      /\ \A d \in DOMAIN ctx : ctx'[d].status # "deleted"
      /\ \A d \in DOMAIN ctx : Active(d)' => Active(d) /\ ctx[d].task # t
  BY CompleteSettles DEF CreateGate
<1>5. ASSUME NEW d \in DOMAIN ctx, Active(d)'
      PROVE  status'[ctx[d].task] = "dispatched"
  <2>1. Active(d) /\ ctx[d].task # t /\ ctx[d].task \in Task
    BY <1>4, <1>5, RowTask
  <2> QED
    BY <1>2, <2>1 DEF StoreInv, OneWorkerPerTask
<1>6. Moves
  BY <1>2 DEF Moves
<1> QED
  BY <1>2, <1>3, <1>4, <1>5, <1>6 DEF QuietStep

LEMMA ReblockIsQuiet ==
  ASSUME TypeOK, StoreInv, status' = Reblocked, UNCHANGED <<ctx, gate>>
  PROVE  QuietStep
<1>1. Kept(ctx')
  BY UnchangedKept DEF TypeOK
<1>2. \A u : PendingGate(u)' <=> PendingGate(u)
  BY DEF PendingGate
<1>3. \A u \in Task : status'[u] = status[u] \/ (PendingGate(u) /\ status'[u] = "blocked")
  BY DEF Reblocked
<1>4. ASSUME NEW d \in DOMAIN ctx, Active(d)'
      PROVE  status'[ctx[d].task] = "dispatched"
  <2>1. Active(d) /\ ctx[d].task \in Task /\ status[ctx[d].task] = "dispatched"
    BY <1>4, RowTask DEF StoreInv, OneWorkerPerTask, Active
  <2> QED
    BY <1>3, <2>1 DEF StoreInv, GateIdle
<1>5. Moves
  BY <1>3 DEF Moves
<1> QED
  BY <1>1, <1>2, <1>4, <1>5 DEF QuietStep, StoreInv, IdsInv

\* The gate is pending, and no other gate of its task is.
Sole(g) == /\ gate[g].status = "pending"
           /\ \A h \in DOMAIN gate :
                gate[h].task = gate[g].task /\ gate[h].status = "pending" => h = g

LEMMA ResolutionIsQuiet ==
  ASSUME TypeOK, StoreInv, NEW g, Sole(g), ResolveGate(g), ctx' = ctx
  PROVE  /\ QuietStep
         /\ \A u \in Task : PendingGate(u)' => PendingGate(u) /\ status'[u] = status[u]
<1>1. PICK t : t = gate[g].task
  OBVIOUS
<1>2. g \in DOMAIN gate /\ \A h \in DOMAIN gate : gate[h] \in GateRow
  BY RowType DEF ResolveGate, TypeOK
<1>3. t \in Task /\ PendingGate(t)
  BY <1>1, <1>2 DEF Sole, PendingGate, GateRow
<1>4. status \in [Task -> AnyStatus] /\ status' = SetStatus(t, "ready")
  BY <1>1 DEF TypeOK, AnyStatus, ResolveGate
<1>5. ASSUME NEW u \in Task, PendingGate(u)'
      PROVE  PendingGate(u) /\ u # t
  <2>1. PICK h \in DOMAIN gate' : gate'[h].task = u /\ gate'[h].status = "pending"
    BY <1>5 DEF PendingGate
  <2>2. gate' = [gate EXCEPT ![g].status = "resolved"]
    BY DEF ResolveGate
  <2>3. h \in DOMAIN gate /\ h # g
    BY <1>2, <2>1, <2>2 DEF GateRow
  <2>4. gate[h].task = u /\ gate[h].status = "pending"
    BY <1>2, <2>1, <2>2, <2>3
  <2> QED
    BY <1>1, <2>3, <2>4 DEF Sole, PendingGate
<1>6. ASSUME NEW u \in Task
      PROVE  status'[u] \in {status[u], "ready"} /\ (u # t => status'[u] = status[u])
  BY <1>4, SetStatusMoves
<1>7. Kept(ctx')
  BY UnchangedKept DEF TypeOK
<1>8. ASSUME NEW d \in DOMAIN ctx, Active(d)'
      PROVE  status'[ctx[d].task] = "dispatched"
  <2>1. Active(d) /\ ctx[d].task \in Task /\ status[ctx[d].task] = "dispatched"
    BY <1>8, RowTask DEF StoreInv, OneWorkerPerTask, Active
  <2>2. ctx[d].task # t
    BY <1>3, <2>1 DEF StoreInv, GateIdle
  <2> QED
    BY <1>6, <2>1, <2>2
<1>9. Moves
  BY <1>6 DEF Moves
<1> QED
  BY <1>5, <1>6, <1>7, <1>8, <1>9 DEF QuietStep, StoreInv, IdsInv
-----------------------------------------------------------------------------
(* The loop's own variables, and the messages under way.                    *)

\* The dispatch a loop is injecting is the latest of its task, and the task has
\* been struck off the list of the tick.
HandInv ==
  \A c \in Coord : cur[c] # 0 =>
    /\ pc[c] = "send"
    /\ Latest(cur[c], ctx[cur[c]].task)
    /\ ctx[cur[c]].task \notin todo[c]

\* A task that the loop will still try is not both gated and ready.
TodoInv ==
  \A c \in Coord : InTick(c) =>
    \A t \in todo[c] : PendingGate(t) => status[t] # "ready"

\* A message is about a task that was created.
MsgInv == \A i \in DOMAIN inbox :
            inbox[i].type # "malformed" => status[inbox[i].task] # "none"

WorkInv == /\ StoreInv
           /\ HandInv /\ TodoInv /\ MsgInv
           /\ rpcSend = {}

\* The loops that are in a tick were in it before, with no task more to try.
TickShrinks == \A c \in Coord : InTick(c)' => InTick(c) /\ todo'[c] \subseteq todo[c]

HandsKept == \A c \in Coord : cur'[c] # 0 => /\ cur'[c] = cur[c] /\ pc'[c] = "send"
                                             /\ todo'[c] \subseteq todo[c]

LEMMA HandKept ==
  ASSUME TypeOK, StoreInv, HandInv, HandsKept, QuietStep
  PROVE  HandInv'
<1> SUFFICES ASSUME NEW c \in Coord, cur'[c] # 0
             PROVE  /\ pc'[c] = "send"
                    /\ Latest(cur[c], ctx[cur[c]].task)'
                    /\ ctx'[cur'[c]].task \notin todo'[c]
  BY DEF HandInv
<1>1. PICK k, t : k = cur[c] /\ t = ctx[k].task
  OBVIOUS
<1>2. Latest(k, t) /\ k \in DOMAIN ctx /\ t \notin todo[c] /\ cur'[c] = k
  BY <1>1 DEF HandInv, HandsKept, Latest, Rows
<1>3. ctx'[k].task = t /\ t \notin todo'[c]
  BY <1>1, <1>2 DEF QuietStep, Kept, HandsKept
<1>4. Latest(k, t)'
  BY <1>2, LatestKept DEF QuietStep, StoreInv
<1> QED
  BY <1>2, <1>3, <1>4 DEF HandsKept

\* No gated task is made ready while a loop is still to try it.
LEMMA TodoKept ==
  ASSUME TodoInv, TickShrinks,
         \A t \in Task : PendingGate(t)' /\ status'[t] = "ready" =>
           \/ PendingGate(t) /\ status[t] = "ready"
           \/ \A c \in Coord : InTick(c)' => t \notin todo'[c],
         TypeOK
  PROVE  TodoInv'
<1> SUFFICES ASSUME NEW c \in Coord, InTick(c)', NEW t \in todo'[c], PendingGate(t)',
                    status'[t] = "ready"
             PROVE  FALSE
  BY DEF TodoInv
<1>1. InTick(c) /\ t \in todo[c] /\ t \in Task
  BY DEF TickShrinks, TypeOK, LoopTypeOK
<1> QED
  BY <1>1 DEF TodoInv

LEMMA MsgKept ==
  ASSUME TypeOK, MsgInv, Moves \/ \E u \in Task : status' = [status EXCEPT ![u] = "dispatched"],
         \/ inbox' = inbox
         \/ inbox' = <<>>
         \/ \E m : /\ inbox' = Append(inbox, m)
                   /\ m.type # "malformed" => m.task \in Task /\ status[m.task] # "none"
  PROVE  MsgInv'
<1>1. ASSUME NEW t \in Task, status[t] # "none" PROVE status'[t] # "none"
  BY <1>1 DEF Moves, TypeOK
<1>2. \A i \in DOMAIN inbox : inbox[i].type # "malformed" =>
        inbox[i].task \in Task /\ status[inbox[i].task] # "none"
  BY MessageType DEF MsgInv
<1>3. CASE inbox' = inbox
  BY <1>1, <1>2, <1>3 DEF MsgInv
<1>4. CASE inbox' = <<>>
  BY <1>4 DEF MsgInv
<1>5. ASSUME NEW m, inbox' = Append(inbox, m),
             m.type # "malformed" => m.task \in Task /\ status[m.task] # "none"
      PROVE  MsgInv'
  <2>1. /\ DOMAIN inbox' = DOMAIN inbox \cup {Len(inbox) + 1}
        /\ \A i \in DOMAIN inbox : inbox'[i] = inbox[i]
        /\ inbox'[Len(inbox) + 1] = m
    BY <1>5 DEF TypeOK
  <2> QED
    BY <1>1, <1>2, <1>5, <2>1 DEF MsgInv
<1> QED
  BY <1>3, <1>4, <1>5

-----------------------------------------------------------------------------
(* Every step keeps WorkInv, when only loops dispatch.                      *)

\* A gated task is made ready by no step, but while no loop will try it.
GatesHold ==
  \A t \in Task : PendingGate(t)' /\ status'[t] = "ready" =>
    \/ PendingGate(t) /\ status[t] = "ready"
    \/ \A c \in Coord : InTick(c)' => t \notin todo'[c]

\* The unread messages stay, or are read, or one about a task is added.
Posted == \/ inbox' = inbox
          \/ inbox' = <<>>
          \/ \E m : /\ inbox' = Append(inbox, m)
                    /\ m.type # "malformed" => m.task \in Task /\ status[m.task] # "none"

LEMMA WorkKept ==
  ASSUME TypeOK, WorkInv, QuietStep, HandsKept, TickShrinks, GatesHold, Posted, rpcSend' = rpcSend
  PROVE  WorkInv'
<1>1. StoreInv'
  BY QuietKeeps DEF WorkInv
<1>2. HandInv'
  BY HandKept DEF WorkInv
<1>3. TodoInv'
  BY TodoKept DEF WorkInv, GatesHold
<1>4. MsgInv'
  BY MsgKept DEF WorkInv, QuietStep, Posted
<1> QED
  BY <1>1, <1>2, <1>3, <1>4 DEF WorkInv

LEMMA LoopsStay ==
  ASSUME HandInv, UNCHANGED <<pc, todo, cur>>
  PROVE  HandsKept /\ TickShrinks
BY DEF HandInv, HandsKept, TickShrinks, InTick

\* A step that makes no gated task ready and leaves the gates alone.
LEMMA SameStatusHolds ==
  ASSUME gate' = gate,
         \A t \in Task : PendingGate(t) /\ status'[t] = "ready" =>
           \/ status[t] = "ready"
           \/ \A c \in Coord : InTick(c)' => t \notin todo'[c]
  PROVE  GatesHold
<1>1. \A t : PendingGate(t)' <=> PendingGate(t)
  BY DEF PendingGate
<1> QED
  BY <1>1 DEF GatesHold

\* The steps of the loop, and of others, that write to no table.
LEMMA SameKeeps ==
  ASSUME TypeOK, WorkInv, UNCHANGED <<status, ctx, gate>>, HandsKept, TickShrinks, Posted,
         rpcSend' = rpcSend
  PROVE  WorkInv'
<1>1. QuietStep
  BY SameIsQuiet DEF WorkInv
<1>2. GatesHold
  BY SameStatusHolds
<1> QED
  BY <1>1, <1>2, WorkKept

\* A loop outside its tick has nothing in its hands.
LEMMA MoveKeepsHands ==
  ASSUME TypeOK, HandInv, NEW c \in Coord, NEW p, pc' = [pc EXCEPT ![c] = p], pc[c] # "send",
         p \in {"list", "create", "dispatch", "send"} => InTick(c),
         UNCHANGED cur, \A e \in Coord : todo'[e] \subseteq todo[e]
  PROVE  HandsKept /\ TickShrinks
<1>1. pc \in [Coord -> PC]
  BY DEF TypeOK, LoopTypeOK
<1> QED
  BY <1>1 DEF HandInv, HandsKept, TickShrinks, InTick

LEMMA ProcessMessageKeeps ==
  ASSUME TypeOK, RunInv, WorkInv, NEW c \in Coord, ProcessMessage(c), rpcSend' = rpcSend
  PROVE  WorkInv'
<1>1. HandsKept /\ TickShrinks /\ Posted
  BY LoopsStay DEF ProcessMessage, Posted, WorkInv
<1>2. \A e \in Coord : ~InTick(e)'
  <2>1. \A e \in Coord : InTick(e) => e = c
    BY RunInvOneLoop DEF OneLoop, Looping, InTick, ProcessMessage
  <2> QED
    BY <2>1 DEF InTick, ProcessMessage
<1>3. PICK m : m = inbox[at + 1] /\ at + 1 \in DOMAIN inbox
  BY DEF ProcessMessage, TypeOK, LoopTypeOK
<1>4. GatesHold
  BY <1>2 DEF GatesHold
<1>5. CASE HandleWorkerDone(c, m)
  <2>1. CASE Accepted(m) /\ UpdateTaskStatus(m.task, "completed")
    BY <1>5, <2>1, CompletionIsQuiet, <1>1, <1>4, WorkKept DEF HandleWorkerDone, WorkInv
  <2> QED
    BY <1>1, <1>5, <2>1, SameKeeps DEF HandleWorkerDone
<1>6. CASE HandleEscalation(c, m)
  <2>1. CASE ~Escalates(m)
    BY <1>1, <1>6, <2>1, SameKeeps DEF HandleEscalation
  <2>2. CASE Escalates(m)
    <3>1. PICK d \in Rows(m.task) : Latest(d, m.task) /\ FailDispatch(d)
      BY <1>6, <2>2 DEF HandleEscalation
    <3>2. ctx[d].task = m.task /\ gate' = gate
      BY <1>6 DEF Rows, HandleEscalation
    <3>3. QuietStep
      BY <3>1, <3>2, FailureIsQuiet DEF WorkInv
    <3> QED
      BY <1>1, <1>4, <3>3, WorkKept
  <2> QED
    BY <2>1, <2>2
<1>7. CASE HandleDecisionGate(c, m)
  <2>1. m.task \in Task /\ status[m.task] # "none" /\ CreateGate(m.task)
    BY <1>3, <1>7, MessageType DEF HandleDecisionGate, WorkInv, MsgInv
  <2>2. QuietStep
    BY <2>1, CreateGateIsQuiet DEF WorkInv
  <2> QED
    BY <1>1, <1>4, <2>2, WorkKept
<1> QED
  BY <1>3, <1>5, <1>6, <1>7 DEF ProcessMessage

\* The scan blocks the gated tasks again before it lists the ready ones.
LEMMA ScanReadyKeeps ==
  ASSUME TypeOK, WorkInv, NEW c \in Coord, ScanReady(c), rpcSend' = rpcSend
  PROVE  WorkInv'
<1>0. pc \in [Coord -> PC] /\ todo \in [Coord -> SUBSET Task] /\ pc[c] = "messages"
  BY DEF TypeOK, LoopTypeOK, ScanReady
<1>1. status' = Reblocked /\ UNCHANGED <<ctx, gate>> /\ inbox' = <<>>
  BY DEF ScanReady
<1>2. QuietStep
  BY <1>1, ReblockIsQuiet DEF WorkInv
<1>3. \A t \in Task : ~(PendingGate(t)' /\ status'[t] = "ready")
  <2>1. \A t : PendingGate(t)' <=> PendingGate(t)
    BY <1>1 DEF PendingGate
  <2> QED
    BY <1>1, <2>1 DEF Reblocked, Present, TaskStatus
<1>4. StoreInv'
  BY <1>2, QuietKeeps DEF WorkInv
<1>5. HandInv'
  <2>1. cur[c] = 0 /\ cur' = cur
    BY <1>0 DEF WorkInv, HandInv, ScanReady
  <2>2. \A e \in Coord : e # c => pc'[e] = pc[e] /\ todo'[e] = todo[e]
    BY <1>0 DEF ScanReady
  <2>3. HandsKept
    BY <2>1, <2>2 DEF HandsKept, WorkInv, HandInv
  <2> QED
    BY <1>2, <2>3, HandKept DEF WorkInv
<1>6. TodoInv'
  <2>1. \A e \in Coord : todo'[e] \subseteq Task
    BY <1>0 DEF ScanReady
  <2> QED
    BY <1>3, <2>1 DEF TodoInv
<1>7. MsgInv'
  BY <1>1 DEF MsgInv
<1> QED
  BY <1>4, <1>5, <1>6, <1>7 DEF WorkInv

\* The task that the loop takes from its list has no gate: it is ready.
LEMMA DispatchNextKeeps ==
  ASSUME TypeOK, RunInv, WorkInv, NEW c \in Coord, DispatchNext(c), rpcSend' = rpcSend
  PROVE  WorkInv'
<1>0. /\ pc \in [Coord -> PC] /\ todo \in [Coord -> SUBSET Task] /\ cur \in [Coord -> Nat]
      /\ pc[c] = "dispatch" /\ InTick(c)
  BY DEF TypeOK, LoopTypeOK, DispatchNext, InTick
<1>1. \A e \in Coord : InTick(e) => e = c
  BY <1>0, RunInvOneLoop DEF OneLoop, Looping, InTick
<1>2. \A e \in Coord : cur[e] = 0
  BY <1>0, <1>1 DEF WorkInv, HandInv, InTick
<1>3. PICK t \in todo[c], w \in free[c] :
        /\ todo' = [todo EXCEPT ![c] = @ \ {t}]
        /\ \/ /\ CreateDispatchContext(t, w)
              /\ pc' = [pc EXCEPT ![c] = "send"]
              /\ cur' = [cur EXCEPT ![c] = Len(ctx) + 1]
           \/ /\ LoopHead(c, MoreToTry(todo[c] \ {t}, slots[c] - 1, free[c] \ {w}))
              /\ UNCHANGED <<ctx, status, cur>>
  BY DEF DispatchNext
<1>4. t \in Task /\ gate' = gate /\ inbox' = inbox
  BY <1>0 DEF DispatchNext
<1>5. CASE /\ CreateDispatchContext(t, w)
           /\ pc' = [pc EXCEPT ![c] = "send"]
           /\ cur' = [cur EXCEPT ![c] = Len(ctx) + 1]
  <2>1. PICK k : k = Len(ctx) + 1
    OBVIOUS
  <2>2. ~PendingGate(t)
    BY <1>0, <1>4, <1>5 DEF WorkInv, TodoInv, CreateDispatchContext, CanDispatch
  <2>3. StoreInv' /\ Latest(k, t)' /\ ctx'[k].task = t
    BY <1>4, <1>5, <2>1, <2>2, GiveKeeps DEF WorkInv
  <2>4. HandInv'
    <3>1. ASSUME NEW e \in Coord, cur'[e] # 0
          PROVE  e = c
      BY <1>0, <1>2, <1>5, <3>1
    <3>2. cur'[c] = k /\ pc'[c] = "send" /\ t \notin todo'[c]
      BY <1>0, <1>3, <1>5, <2>1
    <3> QED
      BY <2>3, <3>1, <3>2 DEF HandInv
  <2>5. TodoInv'
    <3>1. \A e \in Coord : InTick(e)' => e = c
      BY <1>0, <1>1, <1>5 DEF InTick
    <3>2. todo'[c] = todo[c] \ {t} /\ todo[c] \subseteq Task
      BY <1>0, <1>3
    <3>3. \A u \in Task : u # t => status'[u] = status[u]
      BY <1>4, <1>5 DEF CreateDispatchContext, TypeOK
    <3>4. \A u : PendingGate(u)' <=> PendingGate(u)
      BY <1>4 DEF PendingGate
    <3> QED
      BY <1>0, <3>1, <3>2, <3>3, <3>4 DEF TodoInv, WorkInv
  <2>6. MsgInv'
    BY <1>4, <1>5, MsgKept DEF CreateDispatchContext, WorkInv
  <2> QED
    BY <2>3, <2>4, <2>5, <2>6 DEF WorkInv
<1>6. CASE /\ LoopHead(c, MoreToTry(todo[c] \ {t}, slots[c] - 1, free[c] \ {w}))
           /\ UNCHANGED <<ctx, status, cur>>
  <2>1. \E p : pc' = [pc EXCEPT ![c] = p]
    BY <1>6 DEF LoopHead
  <2>2. \A e \in Coord : todo'[e] \subseteq todo[e]
    BY <1>0, <1>3
  <2>3. HandsKept /\ TickShrinks
    BY <1>0, <1>6, <2>1, <2>2, MoveKeepsHands DEF WorkInv
  <2> QED
    BY <1>4, <1>6, <2>3, SameKeeps DEF Posted
<1> QED
  BY <1>3, <1>5, <1>6

\* A failed injection makes the task ready again; its loop has struck it off
\* its list, and no other loop is in its tick.
LEMMA SendSettlesKeeps ==
  ASSUME TypeOK, RunInv, WorkInv, NEW c \in Coord, SendSettles(c), rpcSend' = rpcSend
  PROVE  WorkInv'
<1>0. /\ pc \in [Coord -> PC] /\ cur \in [Coord -> Nat]
      /\ pc[c] = "send" /\ InTick(c) /\ todo' = todo
      /\ cur' = [cur EXCEPT ![c] = 0]
  BY DEF TypeOK, LoopTypeOK, SendSettles, InTick
<1>1. \A e \in Coord : InTick(e) => e = c
  BY <1>0, RunInvOneLoop DEF OneLoop, Looping, InTick
<1>2. HandsKept /\ TickShrinks
  <2>1. \E p : pc' = [pc EXCEPT ![c] = p]
    BY DEF SendSettles, LoopHead
  <2> QED
    BY <1>0, <2>1 DEF HandsKept, TickShrinks, WorkInv, HandInv, InTick
<1>3. UNCHANGED <<gate, inbox>>
  BY DEF SendSettles
<1>4. CASE UNCHANGED <<ctx, status>>
  BY <1>2, <1>3, <1>4, SameKeeps DEF Posted
<1>5. CASE FailDispatch(cur[c]) /\ ~UNCHANGED <<ctx, status>>
  <2>1. PICK d, t : d = cur[c] /\ t = ctx[d].task
    OBVIOUS
  <2>2. Exists(d) /\ d # 0
    BY <1>5, <2>1 DEF FailDispatch, Exists, TypeOK
  <2>3. Latest(d, t) /\ t \notin todo[c]
    BY <2>1, <2>2 DEF WorkInv, HandInv
  <2>4. QuietStep /\ \A u \in Task : u # t => status'[u] = status[u]
    BY <1>3, <1>5, <2>1, <2>3, FailureIsQuiet DEF WorkInv
  <2>5. GatesHold
    <3>1. \A e \in Coord : InTick(e)' => e = c
      BY <1>1, <1>2 DEF TickShrinks
    <3> QED
      BY <1>0, <1>3, <2>3, <2>4, <3>1, SameStatusHolds
  <2> QED
    BY <1>2, <1>3, <2>4, <2>5, WorkKept DEF Posted
<1> QED
  BY <1>4, <1>5 DEF SendSettles

LEMMA LoopKeeps ==
  ASSUME TypeOK, RunInv, WorkInv, NEW c \in Coord, LoopStep(c), rpcSend' = rpcSend
  PROVE  WorkInv'
<1>1. CASE HandlerThrows(c) \/ Wake(c)
  <2>1. /\ \E p \in {"done", "messages"} : pc' = [pc EXCEPT ![c] = p]
        /\ pc[c] # "send" /\ UNCHANGED <<status, ctx, gate, inbox, cur, todo>>
    BY <1>1 DEF HandlerThrows, Wake, Finish, End
  <2>2. HandsKept /\ TickShrinks
    BY <2>1, MoveKeepsHands DEF WorkInv
  <2> QED
    BY <2>1, <2>2, SameKeeps DEF Posted
<1>2. CASE ListTerminals(c) \/ CreateTerminal(c)
  <2>1. /\ \E p : pc' = [pc EXCEPT ![c] = p]
        /\ pc[c] # "send" /\ InTick(c) /\ UNCHANGED <<status, ctx, gate, inbox, cur, todo>>
    BY <1>2 DEF ListTerminals, CreateTerminal, dbVars, InTick
  <2>2. HandsKept /\ TickShrinks
    BY <2>1, MoveKeepsHands DEF WorkInv
  <2> QED
    BY <2>1, <2>2, SameKeeps DEF Posted
<1>3. CASE Converge(c)
  <2>1. /\ \E p \in {"done", "sleep"} : pc' = [pc EXCEPT ![c] = p]
        /\ pc[c] # "send" /\ UNCHANGED <<status, ctx, gate, inbox, cur>>
        /\ todo' = [todo EXCEPT ![c] = {}] /\ todo \in [Coord -> SUBSET Task]
    BY <1>3 DEF Converge, Finish, End, TypeOK, LoopTypeOK
  <2>2. HandsKept /\ TickShrinks
    BY <2>1, MoveKeepsHands DEF WorkInv
  <2> QED
    BY <2>1, <2>2, SameKeeps DEF Posted
<1> QED
  BY <1>1, <1>2, <1>3, ProcessMessageKeeps, ScanReadyKeeps, DispatchNextKeeps, SendSettlesKeeps
     DEF LoopStep

\* Only the loops dispatch, and of the statuses only "completed" is set by hand.
OnlyLoopsDispatch ==
  /\ {"dispatch", "dispatch-manual", "reset", "torn-write"} \cap Ops = {}
  /\ "task-update" \in Ops => ManualStatuses \subseteq {"completed"}

LEMMA TaskCallKeeps ==
  ASSUME OnlyLoopsDispatch, TypeOK, WorkInv, NEW t \in Task,
         \/ \E D \in SUBSET Task : TaskCreate(t, D)
         \/ \E s \in ManualStatuses : TaskUpdate(t, s)
         \/ \E w \in Worker : Dispatch(t, w)
         \/ GateCreate(t)
  PROVE  WorkInv'
<1>1. ASSUME NEW D, TaskCreate(t, D) PROVE WorkInv'
  <2>1. /\ CreateTask(t, D) /\ UNCHANGED <<ctx, gate, inbox, pc, todo, cur, rpcSend>>
    BY <1>1 DEF TaskCreate, loopVars
  <2>2. HandsKept /\ TickShrinks /\ QuietStep
    BY <2>1, LoopsStay, CreateTaskIsQuiet DEF WorkInv
  <2>3. status[t] = "none" /\ \A u \in Task : u # t => status'[u] = status[u]
    BY <2>1 DEF CreateTask, TypeOK
  <2>4. GatesHold
    BY <2>1, <2>3, SameStatusHolds DEF WorkInv, StoreInv, GateIdle
  <2> QED
    BY <2>1, <2>2, <2>4, WorkKept DEF Posted
<1>2. ASSUME NEW s \in ManualStatuses, TaskUpdate(t, s) PROVE WorkInv'
  <2>1. /\ UpdateTaskStatus(t, "completed")
        /\ UNCHANGED <<gate, inbox, pc, todo, cur, rpcSend>>
    BY <1>2 DEF TaskUpdate, May, OnlyLoopsDispatch, loopVars
  <2>2. /\ HandsKept /\ TickShrinks /\ QuietStep
        /\ \A u \in Task : status'[u] = "ready" => status[u] \in {"ready", "pending"}
    BY <2>1, LoopsStay, CompletionIsQuiet DEF WorkInv
  <2>3. GatesHold
    BY <2>1, <2>2, SameStatusHolds DEF WorkInv, StoreInv, GateIdle
  <2> QED
    BY <2>1, <2>2, <2>3, WorkKept DEF Posted
<1>3. ASSUME NEW w, Dispatch(t, w) PROVE FALSE
  BY <1>3 DEF Dispatch, OnlyLoopsDispatch
<1>4. ASSUME GateCreate(t) PROVE WorkInv'
  <2>1. /\ CreateGate(t) /\ status[t] # "none"
        /\ UNCHANGED <<inbox, pc, todo, cur, rpcSend>>
    BY <1>4 DEF GateCreate, loopVars
  <2>2. /\ HandsKept /\ TickShrinks /\ QuietStep
        /\ \A u \in Task : /\ u # t => (PendingGate(u)' <=> PendingGate(u))
                           /\ status'[u] = (IF u = t THEN "blocked" ELSE status[u])
    BY <2>1, LoopsStay, CreateGateIsQuiet DEF WorkInv
  <2>3. GatesHold
    BY <2>2 DEF GatesHold
  <2> QED
    BY <2>1, <2>2, <2>3, WorkKept DEF Posted
<1> QED
  BY <1>1, <1>2, <1>3, <1>4

LEMMA GateResolveKeeps ==
  ASSUME TypeOK, WorkInv, NEW g, GateResolve(g), Sole(g)
  PROVE  WorkInv'
<1>1. ResolveGate(g) /\ UNCHANGED <<ctx, inbox, pc, todo, cur, rpcSend>>
  BY DEF GateResolve, loopVars
<1>2. /\ HandsKept /\ TickShrinks /\ QuietStep
      /\ \A u \in Task : PendingGate(u)' => PendingGate(u) /\ status'[u] = status[u]
  BY <1>1, LoopsStay, ResolutionIsQuiet DEF WorkInv
<1>3. GatesHold
  BY <1>2 DEF GatesHold
<1> QED
  BY <1>1, <1>2, <1>3, WorkKept DEF Posted

LEMMA RunKeeps ==
  ASSUME TypeOK, RunInv, WorkInv, NEW c \in Coord, Run(c)
  PROVE  WorkInv'
<1>1. /\ \E p \in {"messages", "done"} : pc' = [pc EXCEPT ![c] = p]
      /\ UNCHANGED <<status, ctx, gate, inbox, todo, cur, rpcSend>>
  BY DEF Run
<1>2. pc[c] # "send"
  BY DEF Run, RunInv, Looping
<1>3. HandsKept /\ TickShrinks
  BY <1>1, <1>2, MoveKeepsHands DEF WorkInv
<1> QED
  BY <1>1, <1>3, SameKeeps DEF Posted

LEMMA WorkerSendsKeeps ==
  ASSUME TypeOK, WorkInv, NEW d, NEW w, WorkerSends(d, w)
  PROVE  WorkInv'
<1>1. UNCHANGED <<status, ctx, gate, pc, todo, cur, rpcSend>>
  BY DEF WorkerSends, loopVars
<1>2. d \in DOMAIN ctx /\ ctx[d].task \in Task /\ status[ctx[d].task] # "none"
  BY RowTask DEF WorkerSends, WorkInv, StoreInv, IdsInv
<1>3. Posted
  BY <1>2 DEF WorkerSends, Post, Posted
<1>4. HandsKept /\ TickShrinks
  BY <1>1, LoopsStay DEF WorkInv
<1> QED
  BY <1>1, <1>3, <1>4, SameKeeps

\* A worker's exit makes its task ready again; the task was dispatched, so it
\* had no gate.
LEMMA ExitKeeps ==
  ASSUME TypeOK, WorkInv, NEW w, Exit(w)
  PROVE  WorkInv'
<1>1. UNCHANGED <<gate, pc, todo, cur, rpcSend>>
  BY DEF Exit, loopVars
<1>2. HandsKept /\ TickShrinks
  BY <1>1, LoopsStay DEF WorkInv
<1>3. ASSUME NEW d \in DOMAIN ctx, Active(d), FailDispatch(d),
             \/ Post([type |-> "escalation", task |-> ctx[d].task])
             \/ UNCHANGED inbox
      PROVE  WorkInv'
  <2>1. PICK t : t = ctx[d].task
    OBVIOUS
  <2>2. t \in Task /\ status[t] = "dispatched" /\ Latest(d, t)
    BY <1>3, <2>1, RowTask DEF WorkInv, StoreInv, OneWorkerPerTask
  <2>3. QuietStep /\ \A u \in Task : u # t => status'[u] = status[u]
    BY <1>1, <1>3, <2>1, <2>2, FailureIsQuiet DEF WorkInv
  <2>4. ~PendingGate(t)
    BY <2>2 DEF WorkInv, StoreInv, GateIdle
  <2>5. GatesHold
    BY <1>1, <2>3, <2>4, SameStatusHolds
  <2>6. Posted
    BY <1>3, <2>1, <2>2 DEF Post, Posted
  <2> QED
    BY <1>1, <1>2, <2>3, <2>5, <2>6, WorkKept
<1>4. ASSUME UNCHANGED <<ctx, status, inbox>>
      PROVE  WorkInv'
  BY <1>1, <1>2, <1>4, SameKeeps DEF Posted
<1> QED
  BY <1>3, <1>4 DEF Exit

LEMMA RestartKeeps ==
  ASSUME TypeOK, WorkInv, Restart
  PROVE  WorkInv'
<1>1. UNCHANGED <<status, ctx, gate, inbox>> /\ rpcSend' = {} /\ rpcSend = {}
  BY DEF Restart, dbVars, ProcessLost, WorkInv
<1>2. HandsKept /\ TickShrinks
  BY DEF Restart, ProcessLost, HandsKept, TickShrinks, InTick
<1> QED
  BY <1>1, <1>2, SameKeeps DEF Posted

LEMMA NextKeeps ==
  ASSUME OnlyLoopsDispatch, TypeOK, RunInv, WorkInv, [Next]_vars,
         \A g \in DOMAIN gate : GateResolve(g) => Sole(g)
  PROVE  WorkInv'
<1>1. ASSUME NEW c \in Coord, Loop(c) PROVE WorkInv'
  BY <1>1, LoopKeeps DEF Loop
<1>2. ASSUME NEW g, GateResolve(g) PROVE WorkInv'
  <2>1. g \in DOMAIN gate
    BY <1>2 DEF GateResolve, ResolveGate
  <2> QED
    BY <1>2, <2>1, GateResolveKeeps
<1>3. ASSUME NEW d, DispatchSettles(d) PROVE FALSE
  BY <1>3 DEF DispatchSettles, WorkInv
<1>4. ASSUME Reset \/ TornWrite PROVE FALSE
  BY <1>4 DEF Reset, May, TornWrite, OnlyLoopsDispatch
<1>5. ASSUME NEW w, ExitHeadless(w) PROVE WorkInv'
  <2>1. UNCHANGED <<status, ctx, gate, inbox, pc, todo, cur, rpcSend>>
    BY <1>5 DEF ExitHeadless, dbVars, loopVars
  <2> QED
    BY <2>1, LoopsStay, SameKeeps DEF Posted, WorkInv
<1>6. ASSUME MessagesGone \/ RunStop \/ UNCHANGED vars PROVE WorkInv'
  <2>1. UNCHANGED <<status, ctx, gate, pc, todo, cur, rpcSend>> /\ Posted
    BY <1>6 DEF MessagesGone, ResetMessages, RunStop, vars, dbVars, loopVars, Posted
  <2> QED
    BY <2>1, LoopsStay, SameKeeps DEF WorkInv
<1> QED
  BY <1>1, <1>2, <1>3, <1>4, <1>5, <1>6, TaskCallKeeps, RunKeeps, WorkerSendsKeeps, ExitKeeps,
     RestartKeeps DEF Next

-----------------------------------------------------------------------------

\* No gate is resolved twice, or while another gate of its task is pending.
GatesOneByOne == [][\A g \in DOMAIN gate : GateResolve(g) => Sole(g)]_vars

LEMMA Working ==
  ASSUME OnlyLoopsDispatch
  PROVE  Spec /\ GatesOneByOne => [](TypeInv /\ RunInv /\ WorkInv)
<1>1. Init => TypeInv /\ RunInv /\ WorkInv
  <2>1. Init => TypeInv
    BY TypeInit
  <2>2. Init => RunInv
    BY DEF Init, DbInit, CoordInit, RunInv, Looping
  <2>3. Init => StoreInv
    BY DEF Init, DbInit, StoreInv, OneWorkerPerTask, GateIdle, PendingGate, IdsInv
  <2>4. Init => HandInv /\ TodoInv /\ MsgInv /\ rpcSend = {}
    BY DEF Init, DbInit, CoordInit, HandInv, TodoInv, MsgInv, InTick
  <2> QED
    BY <2>1, <2>2, <2>3, <2>4 DEF WorkInv
<1>2. /\ TypeInv /\ RunInv /\ WorkInv
      /\ [Next]_vars
      /\ [\A g \in DOMAIN gate : GateResolve(g) => Sole(g)]_vars
      => (TypeInv /\ RunInv /\ WorkInv)'
  <2> SUFFICES ASSUME TypeInv, RunInv, WorkInv, [Next]_vars,
                      [\A g \in DOMAIN gate : GateResolve(g) => Sole(g)]_vars
               PROVE  (TypeInv /\ RunInv /\ WorkInv)'
    OBVIOUS
  <2>1. TypeInv' /\ RunInv'
    BY NextTypes, NextRuns, RunStepKeeps DEF TypeInv, OnlyLoopsDispatch
  <2>2. WorkInv'
    <3>1. CASE UNCHANGED vars
      <4>1. UNCHANGED <<status, ctx, gate, inbox, pc, todo, cur, rpcSend>>
        BY <3>1 DEF vars, dbVars, loopVars
      <4> QED
        BY <4>1, LoopsStay, SameKeeps DEF WorkInv, TypeInv, Posted
    <3> QED
      BY <3>1, NextKeeps DEF TypeInv
  <2> QED
    BY <2>1, <2>2
<1> QED
  BY <1>1, <1>2, PTL DEF Spec, GatesOneByOne

\* A task that the loop dispatches has one worker: its latest dispatch, and no
\* other, is active while it shows as dispatched and not otherwise, through
\* exits, failed injections, late answers, gates, stops and restarts. Without
\* GatesOneByOne it fails: resolving a gate once more makes the task ready
\* although it is being worked on.
THEOREM OneWorker ==
  ASSUME {"dispatch", "dispatch-manual", "reset", "torn-write"} \cap Ops = {},
         "task-update" \in Ops => ManualStatuses \subseteq {"completed"}
  PROVE  Spec /\ GatesOneByOne => []OneWorkerPerTask
<1>1. Spec /\ GatesOneByOne => [](TypeInv /\ RunInv /\ WorkInv)
  BY Working DEF OnlyLoopsDispatch
<1>2. WorkInv => OneWorkerPerTask
  BY DEF WorkInv, StoreInv
<1> QED
  BY <1>1, <1>2, PTL

\* A gate holds its task, whoever created it and whenever: the loop that has the
\* task on its list, a worker that reports late, a restart do not get round it.
\* Without GatesOneByOne it fails: the first of two gates to be resolved makes
\* the task ready, and it is dispatched before the next tick blocks it again.
THEOREM GatesHoldTasks ==
  ASSUME {"dispatch", "dispatch-manual", "reset", "torn-write"} \cap Ops = {},
         "task-update" \in Ops => ManualStatuses \subseteq {"completed"}
  PROVE  Spec /\ GatesOneByOne => []GateHoldsTask
<1>1. Spec /\ GatesOneByOne => [](TypeInv /\ RunInv /\ WorkInv)
  BY Working DEF OnlyLoopsDispatch
<1>2. WorkInv => GateHoldsTask
  BY DEF WorkInv, StoreInv, GateIdle, GateHoldsTask, Tasks
<1> QED
  BY <1>1, <1>2, PTL

\* A blocked task has no worker: the gate completed the dispatch it found.
THEOREM BlockedAreIdle ==
  ASSUME {"dispatch", "dispatch-manual", "reset", "torn-write"} \cap Ops = {},
         "task-update" \in Ops => ManualStatuses \subseteq {"completed"}
  PROVE  Spec /\ GatesOneByOne => []BlockedHasNoWorker
<1>1. Spec /\ GatesOneByOne => []OneWorkerPerTask
  BY OneWorker
<1>2. OneWorkerPerTask => BlockedHasNoWorker
  BY DEF OneWorkerPerTask, BlockedHasNoWorker
<1> QED
  BY <1>1, <1>2, PTL
=============================================================================
