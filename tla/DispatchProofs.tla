---------------------------- MODULE DispatchProofs ----------------------------
(***************************************************************************)
(* A task that shows as dispatched has a worker: the proof, for every      *)
(* number of tasks, terminals and coordinators, that the two tables agree. *)
(*                                                                         *)
(* Two uses of the system are left out, and both break it: a process that  *)
(* ends between the writes of one method, and a task that is set to        *)
(* "dispatched" by hand.                                                   *)
(***************************************************************************)
EXTENDS OrchestrationProofs

-----------------------------------------------------------------------------
(* What a step does to the tasks that show as dispatched after it.          *)

\* The task was dispatched already and none of its rows has changed.
Untouched(u) ==
  /\ status[u] = "dispatched"
  /\ \A d \in DOMAIN ctx : ctx[d].task = u => d \in DOMAIN ctx' /\ ctx'[d] = ctx[d]
  /\ \A d \in DOMAIN ctx' : ctx'[d].task = u => d \in DOMAIN ctx /\ ctx'[d] = ctx[d]

\* The task has been given the last row, and that row is active.
JustGiven(u) ==
  \E d \in DOMAIN ctx' : /\ ctx'[d].task = u
                         /\ ctx'[d].status = "dispatched"
                         /\ \A e \in DOMAIN ctx' : e <= d

ServedStep ==
  \A u \in Task : status'[u] = "dispatched" => Untouched(u) \/ JustGiven(u)

\* Such a step keeps the two tables in agreement.
LEMMA ServedStepKeeps ==
  ASSUME DispatchedHasActiveContext, ServedStep
  PROVE  DispatchedHasActiveContext'
<1> SUFFICES ASSUME NEW u \in Task, status'[u] = "dispatched"
             PROVE  \E d \in DOMAIN ctx' : Latest(d, u)' /\ Active(d)'
  BY DEF DispatchedHasActiveContext, Tasks
<1>1. CASE Untouched(u)
  <2>1. PICK d \in DOMAIN ctx : Latest(d, u) /\ Active(d)
    BY <1>1 DEF DispatchedHasActiveContext, Tasks, Untouched
  <2>2. ctx[d].task = u /\ ctx[d].status = "dispatched"
    BY <2>1 DEF Latest, Rows, Active
  <2>3. d \in DOMAIN ctx' /\ ctx'[d] = ctx[d]
    BY <1>1, <2>2 DEF Untouched
  <2>4. ASSUME NEW e \in DOMAIN ctx', ctx'[e].task = u, ctx'[e].status # "deleted"
        PROVE  e <= d
    <3>1. e \in Rows(u)
      BY <1>1, <2>4 DEF Untouched, Rows
    <3> QED
      BY <2>1, <3>1 DEF Latest
  <2> QED
    BY <2>2, <2>3, <2>4 DEF Latest, Rows, Active
<1>2. CASE JustGiven(u)
  <2>1. PICK d \in DOMAIN ctx' : /\ ctx'[d].task = u
                                 /\ ctx'[d].status = "dispatched"
                                 /\ \A e \in DOMAIN ctx' : e <= d
    BY <1>2 DEF JustGiven
  <2> QED
    BY <2>1 DEF Latest, Rows, Active
<1> QED
  BY <1>1, <1>2 DEF ServedStep

\* A step that touches the rows of at most one task, which is not dispatched
\* afterwards, and dispatches no other task.
LEMMA OneTaskStep ==
  ASSUME NEW t, DOMAIN ctx' = DOMAIN ctx,
         \A d \in DOMAIN ctx : ctx'[d].task = ctx[d].task,
         \A d \in DOMAIN ctx : ctx[d].task # t => ctx'[d] = ctx[d],
         \A u \in Task : status'[u] = "dispatched" => status[u] = "dispatched" /\ u # t
  PROVE  ServedStep
BY DEF ServedStep, Untouched

\* A step that leaves the rows alone and dispatches no task.
LEMMA SameRowsStep ==
  ASSUME ctx' = ctx,
         \A u \in Task : status'[u] = "dispatched" => status[u] = "dispatched"
  PROVE  ServedStep
BY DEF ServedStep, Untouched

-----------------------------------------------------------------------------
(* The methods of the store.                                                *)

\* A task that is given another status than "dispatched" is not dispatched, and
\* the others keep theirs.
LEMMA SetStatusServes ==
  ASSUME status \in [Task -> AnyStatus], NEW t, NEW s, s # "dispatched",
         NEW u \in Task, SetStatus(t, s)[u] = "dispatched"
  PROVE  status[u] = "dispatched" /\ u # t
<1>1. CASE u = t
  <2>1. CASE Present(t)
    BY <1>1, <2>1 DEF SetStatus
  <2>2. CASE ~Present(t)
    BY <1>1, <2>2 DEF SetStatus, Present, TaskStatus
  <2> QED
    BY <2>1, <2>2
<1>2. CASE u # t
  BY <1>2 DEF SetStatus
<1> QED
  BY <1>1, <1>2

LEMMA CompleteServes ==
  ASSUME TypeOK, NEW t, ctx' = CompleteActiveDispatch(t),
         \A u \in Task : status'[u] = "dispatched" => status[u] = "dispatched" /\ u # t
  PROVE  ServedStep
<1>1. DOMAIN ctx' = DOMAIN ctx /\ \A d \in DOMAIN ctx : ctx'[d].task = ctx[d].task
  BY CompleteKept DEF Kept, TypeOK
<1>2. \A d \in DOMAIN ctx : ctx[d].task # t => ctx'[d] = ctx[d]
  BY DEF CompleteActiveDispatch, LatestActive, Rows
<1> QED
  BY <1>1, <1>2, OneTaskStep

LEMMA UpdateTaskStatusServes ==
  ASSUME TypeOK, NEW t, NEW s, s # "dispatched", UpdateTaskStatus(t, s)
  PROVE  ServedStep
<1>0. status \in [Task -> AnyStatus]
  BY DEF TypeOK, AnyStatus
<1>1. CASE s = "completed"
  <2>1. ASSUME NEW u \in Task, status'[u] = "dispatched"
        PROVE  SetStatus(t, s)[u] = "dispatched"
    BY <1>1, <2>1 DEF UpdateTaskStatus, Promote
  <2>2. \A u \in Task : status'[u] = "dispatched" => status[u] = "dispatched" /\ u # t
    BY <1>0, <2>1, SetStatusServes
  <2> QED
    BY <1>1, <2>2, CompleteServes DEF UpdateTaskStatus
<1>2. CASE s # "completed"
  <2>1. \A u \in Task : status'[u] = "dispatched" => status[u] = "dispatched"
    BY <1>0, <1>2, SetStatusServes DEF UpdateTaskStatus
  <2> QED
    BY <1>2, <2>1, SameRowsStep DEF UpdateTaskStatus
<1> QED
  BY <1>1, <1>2

LEMMA CreateDispatchContextServes ==
  ASSUME TypeOK, NEW t \in Task, NEW w, CreateDispatchContext(t, w)
  PROVE  ServedStep
<1>1. PICK n \in PriorFailures(t) :
        ctx' = Append(ctx, [task |-> t, who |-> w, status |-> "dispatched", fails |-> n])
  BY DEF CreateDispatchContext
<1>2. /\ DOMAIN ctx' = 1 .. Len(ctx) + 1
      /\ DOMAIN ctx = 1 .. Len(ctx)
      /\ Len(ctx) \in Nat
      /\ \A d \in DOMAIN ctx : ctx'[d] = ctx[d]
      /\ ctx'[Len(ctx) + 1] = [task |-> t, who |-> w, status |-> "dispatched", fails |-> n]
  BY <1>1 DEF TypeOK
<1>3. JustGiven(t)
  BY <1>2 DEF JustGiven
<1>4. ASSUME NEW u \in Task, u # t, status'[u] = "dispatched"
      PROVE  Untouched(u)
  <2>1. status[u] = "dispatched"
    BY <1>4 DEF CreateDispatchContext, TypeOK
  <2>2. \A d \in DOMAIN ctx' : ctx'[d].task = u => d \in DOMAIN ctx
    BY <1>2, <1>4
  <2> QED
    BY <1>2, <2>1, <2>2 DEF Untouched
<1> QED
  BY <1>3, <1>4 DEF ServedStep

LEMMA FailDispatchServes ==
  ASSUME TypeOK, NEW d, FailDispatch(d)
  PROVE  ServedStep
<1>1. CASE Exists(d)
  <2> DEFINE t == ctx[d].task
  <2>1. \A u \in Task : status'[u] = "dispatched" => status[u] = "dispatched" /\ u # t
    <3>1. status \in [Task -> AnyStatus]
      BY DEF TypeOK, AnyStatus
    <3>2. status' = SetStatus(t, "failed") \/ status' = SetStatus(t, "ready")
      BY <1>1 DEF FailDispatch
    <3> QED
      BY <3>1, <3>2, SetStatusServes
  <2>2. Kept(ctx')
    BY <1>1, FailDispatchType, TypeOKStore
  <2>3. DOMAIN ctx' = DOMAIN ctx /\ \A e \in DOMAIN ctx : ctx'[e].task = ctx[e].task
    BY <2>2 DEF Kept
  <2>4. \A e \in DOMAIN ctx : e # d => ctx'[e] = ctx[e]
    BY <1>1 DEF FailDispatch
  <2> QED
    BY <2>1, <2>3, <2>4, OneTaskStep
<1>2. CASE ~Exists(d)
  BY <1>2, SameRowsStep DEF FailDispatch
<1> QED
  BY <1>1, <1>2

LEMMA CreateGateServes ==
  ASSUME TypeOK, NEW t, CreateGate(t)
  PROVE  ServedStep
<1>1. status \in [Task -> AnyStatus]
  BY DEF TypeOK, AnyStatus
<1>2. \A u \in Task : status'[u] = "dispatched" => status[u] = "dispatched" /\ u # t
  BY <1>1, SetStatusServes DEF CreateGate
<1> QED
  BY <1>2, CompleteServes DEF CreateGate

-----------------------------------------------------------------------------
(* The actions that touch the two tables.                                   *)

LEMMA ProcessMessageServes ==
  ASSUME TypeOK, NEW c \in Coord, ProcessMessage(c)
  PROVE  ServedStep
<1> DEFINE m == inbox[at + 1]
<1>1. CASE HandleWorkerDone(c, m)
  <2>1. CASE UpdateTaskStatus(m.task, "completed")
    BY <2>1, UpdateTaskStatusServes
  <2>2. CASE UNCHANGED <<status, ctx>>
    BY <2>2, SameRowsStep
  <2> QED
    BY <1>1, <2>1, <2>2 DEF HandleWorkerDone
<1>2. CASE HandleEscalation(c, m)
  <2>1. CASE UNCHANGED <<status, ctx, failedSeen>>
    BY <2>1, SameRowsStep
  <2>2. CASE \E d \in Rows(m.task) : FailDispatch(d)
    BY <2>2, FailDispatchServes
  <2> QED
    BY <1>2, <2>1, <2>2 DEF HandleEscalation
<1>3. CASE HandleDecisionGate(c, m)
  BY <1>3, CreateGateServes DEF HandleDecisionGate
<1> QED
  BY <1>1, <1>2, <1>3 DEF ProcessMessage

LEMMA LoopServes ==
  ASSUME TypeOK, NEW c \in Coord, LoopStep(c)
  PROVE  ServedStep
<1>1. CASE ProcessMessage(c)
  BY <1>1, ProcessMessageServes
<1>2. CASE HandlerThrows(c) \/ ListTerminals(c) \/ CreateTerminal(c) \/ Converge(c) \/ Wake(c)
  <2>1. UNCHANGED <<status, ctx>>
    BY <1>2 DEF HandlerThrows, ListTerminals, CreateTerminal, Converge, Wake, dbVars
  <2> QED
    BY <2>1, SameRowsStep
<1>3. CASE ScanReady(c)
  <2>1. ctx' = ctx /\ status' = Reblocked
    BY <1>3 DEF ScanReady
  <2> QED
    BY <2>1, SameRowsStep DEF Reblocked
<1>4. CASE DispatchNext(c)
  <2>1. PICK t \in todo[c], w \in free[c] : CreateDispatchContext(t, w) \/ UNCHANGED <<ctx, status>>
    BY <1>4 DEF DispatchNext
  <2>2. t \in Task
    BY DEF TypeOK, LoopTypeOK
  <2> QED
    BY <2>1, <2>2, CreateDispatchContextServes, SameRowsStep
<1>5. CASE SendSettles(c)
  <2>1. FailDispatch(cur[c]) \/ UNCHANGED <<ctx, status>>
    BY <1>5 DEF SendSettles
  <2> QED
    BY <2>1, FailDispatchServes, SameRowsStep
<1> QED
  BY <1>1, <1>2, <1>3, <1>4, <1>5 DEF LoopStep

\* The calls about tasks and gates.
LEMMA TaskCallServes ==
  ASSUME TypeOK, "dispatched" \notin ManualStatuses, NEW t \in Task,
         \/ \E D \in SUBSET Task : TaskCreate(t, D)
         \/ \E s \in ManualStatuses : TaskUpdate(t, s)
         \/ \E w \in Worker : Dispatch(t, w)
         \/ GateCreate(t)
  PROVE  ServedStep
<1>1. ASSUME NEW D \in SUBSET Task, TaskCreate(t, D) PROVE ServedStep
  <2>1. \A u \in Task : status'[u] = "dispatched" => status[u] = "dispatched"
    BY <1>1 DEF TaskCreate, CreateTask, TypeOK
  <2> QED
    BY <1>1, <2>1, SameRowsStep DEF TaskCreate
<1>2. ASSUME NEW s \in ManualStatuses, TaskUpdate(t, s) PROVE ServedStep
  BY <1>2, UpdateTaskStatusServes DEF TaskUpdate
<1>3. ASSUME NEW w \in Worker, Dispatch(t, w) PROVE ServedStep
  BY <1>3, CreateDispatchContextServes DEF Dispatch
<1>4. CASE GateCreate(t)
  BY <1>4, CreateGateServes DEF GateCreate
<1> QED
  BY <1>1, <1>2, <1>3, <1>4

LEMMA GateResolveServes ==
  ASSUME TypeOK, NEW g, GateResolve(g)
  PROVE  ServedStep
<1>1. status \in [Task -> AnyStatus]
  BY DEF TypeOK, AnyStatus
<1>2. \A u \in Task : status'[u] = "dispatched" => status[u] = "dispatched"
  BY <1>1, SetStatusServes DEF GateResolve, ResolveGate
<1> QED
  BY <1>2, SameRowsStep DEF GateResolve

LEMMA ResetServes ==
  ASSUME TypeOK, Reset
  PROVE  ServedStep
<1>1. \A u \in Task : status'[u] # "dispatched"
  BY DEF Reset, ResetTasks, Present, TaskStatus
<1> QED
  BY <1>1 DEF ServedStep

LEMMA ExitServes ==
  ASSUME TypeOK, NEW w, Exit(w)
  PROVE  ServedStep
<1>1. (\E d \in DOMAIN ctx : FailDispatch(d)) \/ UNCHANGED <<ctx, status>>
  BY DEF Exit
<1> QED
  BY <1>1, FailDispatchServes, SameRowsStep

-----------------------------------------------------------------------------

LEMMA NextServes ==
  ASSUME TypeOK, "dispatched" \notin ManualStatuses, "torn-write" \notin Ops, [Next]_vars
  PROVE  ServedStep
<1>1. ASSUME NEW c \in Coord, Loop(c) PROVE ServedStep
  BY <1>1, LoopServes DEF Loop
<1>2. ASSUME NEW d \in 1 .. MaxCtx, DispatchSettles(d) PROVE ServedStep
  <2>1. FailDispatch(d) \/ UNCHANGED <<ctx, status>>
    BY <1>2 DEF DispatchSettles
  <2> QED
    BY <2>1, FailDispatchServes, SameRowsStep
<1>3. CASE UNCHANGED <<ctx, status>>
  BY <1>3, SameRowsStep
<1>4. ASSUME NEW c \in Coord, Run(c) PROVE UNCHANGED <<ctx, status>>
  BY <1>4 DEF Run
<1>5. ASSUME NEW d \in 1 .. MaxCtx, NEW w \in Worker, WorkerSends(d, w)
      PROVE  UNCHANGED <<ctx, status>>
  BY <1>5 DEF WorkerSends
<1>6. ASSUME NEW w \in Worker, ExitHeadless(w) PROVE UNCHANGED <<ctx, status>>
  BY <1>6 DEF ExitHeadless, dbVars
<1>7. ASSUME MessagesGone \/ RunStop \/ Restart \/ UNCHANGED vars
      PROVE  UNCHANGED <<ctx, status>>
  BY <1>7 DEF MessagesGone, RunStop, Restart, dbVars, vars
<1>8. ~TornWrite
  BY DEF TornWrite
<1>9. CASE Next
  BY <1>1, <1>2, <1>3, <1>4, <1>5, <1>6, <1>7, <1>8, <1>9,
     TaskCallServes, GateResolveServes, ResetServes, ExitServes DEF Next
<1> QED
  BY <1>3, <1>7, <1>9

\* A task that shows as dispatched has an active dispatch, its latest one: no
\* failure, completion, gate, reset, stop, exit or restart parts the tasks table
\* from the dispatch contexts, so no task is left waiting for a worker that the
\* store does not know of.
THEOREM Served ==
  ASSUME "dispatched" \notin ManualStatuses, "torn-write" \notin Ops
  PROVE  Spec => []DispatchedHasActiveContext
<1>1. Init => TypeInv /\ DispatchedHasActiveContext
  BY TypeInit DEF Init, DbInit, DispatchedHasActiveContext, Tasks
<1>2. TypeInv /\ DispatchedHasActiveContext /\ [Next]_vars => (TypeInv /\ DispatchedHasActiveContext)'
  BY NextTypes, NextServes, ServedStepKeeps DEF TypeInv
<1> QED
  BY <1>1, <1>2, PTL DEF Spec

-----------------------------------------------------------------------------
(* Every worker's death is noticed.                                         *)

\* The terminal of an active dispatch is there, or the loop that has just
\* dispatched to it still holds the thread and is about to record the failure.
Attended ==
  \A d \in DOMAIN ctx : Active(d) =>
    \/ ctx[d].who \in live
    \/ \E c \in Coord : thread = c /\ pc[c] = "send" /\ cur[c] = d

AllLive == \A d \in DOMAIN ctx : Active(d) => ctx[d].who \in live

LEMMA AttendedIsNoticed ==
  ASSUME Attended
  PROVE  NoOrphanedDispatch
BY DEF Attended, NoOrphanedDispatch, InFlight

LEMMA AttendedAllLive ==
  ASSUME Attended, \A c \in Coord : thread = c => pc[c] # "send"
  PROVE  AllLive
BY DEF Attended, AllLive

LEMMA FreeThreadAllLive ==
  ASSUME Attended, thread = Nobody
  PROVE  AllLive
BY CoordinatorAssumption DEF Attended, AllLive

\* No dispatch becomes active and no terminal goes.
LEMMA AllLiveKept ==
  ASSUME AllLive, Kept(ctx'), live \subseteq live'
  PROVE  Attended'
BY DEF AllLive, Kept, Active, Attended

\* A dispatch becomes active on a terminal that is there, or in the hands of
\* the loop.
LEMMA AllLiveGrown ==
  ASSUME TypeOK, AllLive, NEW t \in Task, NEW w, CreateDispatchContext(t, w), live' = live,
         w \in live \/ \E c \in Coord : thread' = c /\ pc'[c] = "send" /\ cur'[c] = Len(ctx) + 1
  PROVE  Attended'
<1>1. PICK n \in PriorFailures(t) :
        ctx' = Append(ctx, [task |-> t, who |-> w, status |-> "dispatched", fails |-> n])
  BY DEF CreateDispatchContext
<1>2. /\ DOMAIN ctx' = DOMAIN ctx \cup {Len(ctx) + 1}
      /\ \A d \in DOMAIN ctx : ctx'[d] = ctx[d]
      /\ ctx'[Len(ctx) + 1].who = w
  BY <1>1 DEF TypeOK
<1>3. ASSUME NEW d \in DOMAIN ctx, Active(d)'
      PROVE  ctx'[d].who \in live'
  BY <1>2, <1>3 DEF Active, AllLive
<1> QED
  BY <1>2, <1>3 DEF Attended

\* What failDispatch leaves active was active, and is another row.
LEMMA FailDispatchSettles ==
  ASSUME TypeOK, NEW d, FailDispatch(d)
  PROVE  Kept(ctx') /\ ~Active(d)'
<1>1. Kept(ctx')
  BY FailDispatchType, TypeOKStore
<1>2. CASE Exists(d)
  <2>1. ctx[d] \in CtxRow /\ d \in DOMAIN ctx
    BY <1>2, RowType DEF Exists, TypeOK
  <2>2. ctx' = [ctx EXCEPT ![d].status = IF Breaks(d) THEN "circuit_broken" ELSE "failed",
                           ![d].fails = @ + 1]
    BY <1>2 DEF FailDispatch
  <2>3. ctx'[d].status \in {"circuit_broken", "failed"}
    BY <2>1, <2>2 DEF CtxRow
  <2> QED
    BY <1>1, <2>3 DEF Active
<1>3. CASE ~Exists(d)
  <2>1. ctx' = ctx /\ ~Active(d)
    BY <1>3 DEF FailDispatch, Exists, Active
  <2> QED
    BY <1>1, <2>1 DEF Active
<1> QED
  BY <1>1, <1>2, <1>3

LEMMA SendSettlesAttended ==
  ASSUME TypeOK, Attended, NEW c \in Coord, SendSettles(c)
  PROVE  Attended'
<1>1. CASE thread = Nobody
  <2>1. Kept(ctx')
    BY <1>1, FailDispatchSettles, UnchangedKept DEF SendSettles, TypeOK
  <2> QED
    BY <1>1, <2>1, FreeThreadAllLive, AllLiveKept DEF SendSettles
<1>2. CASE thread # Nobody
  <2>1. PICK k : k = cur[c] /\ thread = c /\ FailDispatch(k) /\ live' = live
    BY <1>2 DEF SendSettles
  <2>2. Kept(ctx') /\ ~Active(k)'
    BY <2>1, FailDispatchSettles
  <2>3. ASSUME NEW d \in DOMAIN ctx', Active(d)'
        PROVE  ctx'[d].who \in live'
    <3>1. d \in DOMAIN ctx /\ Active(d) /\ ctx'[d].who = ctx[d].who /\ d # k
      BY <2>2, <2>3 DEF Kept, Active
    <3> QED
      BY <2>1, <3>1 DEF Attended
  <2> QED
    BY <2>3 DEF Attended
<1> QED
  BY <1>1, <1>2

LEMMA LoopAttended ==
  ASSUME TypeOK, Attended, NEW c \in Coord, LoopStep(c)
  PROVE  Attended'
<1>1. CASE ListTerminals(c) \/ CreateTerminal(c) \/ Wake(c)
  <2>1. thread = Nobody /\ ctx' = ctx /\ live \subseteq live'
    BY <1>1 DEF ListTerminals, CreateTerminal, Wake, dbVars, hostVars
  <2> QED
    BY <2>1, FreeThreadAllLive, AllLiveKept, UnchangedKept DEF TypeOK
<1>2. CASE HandlerThrows(c) \/ ScanReady(c) \/ Converge(c)
  <2>1. thread = c /\ pc[c] # "send" /\ ctx' = ctx /\ live' = live
    BY <1>2 DEF HandlerThrows, ScanReady, Converge
  <2> QED
    BY <2>1, AttendedAllLive, AllLiveKept, UnchangedKept DEF TypeOK
<1>3. CASE ProcessMessage(c)
  <2>1. thread = c /\ pc[c] # "send" /\ live' = live
    BY <1>3 DEF ProcessMessage, hostVars
  <2>2. StoreTypeOK
    BY TypeOKStore
  <2> DEFINE m == inbox[at + 1]
  <2>3. Kept(ctx')
    <3>1. CASE HandleWorkerDone(c, m)
      BY <2>2, <3>1, UpdateTaskStatusType, UnchangedKept
         DEF HandleWorkerDone, TaskStatus, StoreTypeOK
    <3>2. CASE HandleEscalation(c, m)
      BY <2>2, <3>2, FailDispatchType, UnchangedKept DEF HandleEscalation, StoreTypeOK
    <3>3. CASE HandleDecisionGate(c, m)
      BY <2>2, <3>3, CompleteKept DEF HandleDecisionGate, CreateGate, StoreTypeOK
    <3> QED
      BY <1>3, <3>1, <3>2, <3>3 DEF ProcessMessage
  <2> QED
    BY <2>1, <2>3, AttendedAllLive, AllLiveKept
<1>4. CASE DispatchNext(c)
  <2>1. thread = Nobody /\ live' = live
    BY <1>4 DEF DispatchNext
  <2>2. PICK t \in todo[c], w \in free[c] :
          \/ /\ CreateDispatchContext(t, w)
             /\ pc' = [pc EXCEPT ![c] = "send"]
             /\ cur' = [cur EXCEPT ![c] = Len(ctx) + 1]
             /\ thread' = IF w \in live THEN Nobody ELSE c
          \/ ctx' = ctx
    BY <1>4 DEF DispatchNext
  <2>3. t \in Task /\ pc \in [Coord -> PC] /\ cur \in [Coord -> Nat]
    BY DEF TypeOK, LoopTypeOK
  <2>4. CASE ctx' = ctx
    BY <2>1, <2>4, FreeThreadAllLive, AllLiveKept, UnchangedKept DEF TypeOK
  <2>5. CASE /\ CreateDispatchContext(t, w)
             /\ pc' = [pc EXCEPT ![c] = "send"]
             /\ cur' = [cur EXCEPT ![c] = Len(ctx) + 1]
             /\ thread' = IF w \in live THEN Nobody ELSE c
    <3>1. pc'[c] = "send" /\ cur'[c] = Len(ctx) + 1 /\ (w \notin live => thread' = c)
      BY <2>3, <2>5
    <3> QED
      BY <2>1, <2>3, <2>5, <3>1, FreeThreadAllLive, AllLiveGrown
  <2> QED
    BY <2>2, <2>4, <2>5
<1>5. CASE SendSettles(c)
  BY <1>5, SendSettlesAttended
<1> QED
  BY <1>1, <1>2, <1>3, <1>4, <1>5 DEF LoopStep

\* One terminal has one dispatch, so failing that one is enough.
LEMMA ExitAttended ==
  ASSUME TypeOK, TerminalExclusive, Attended, NEW w, Exit(w)
  PROVE  Attended'
<1>1. AllLive /\ live' = live \ {w}
  BY FreeThreadAllLive DEF Exit, May
<1>2. CASE \E d \in DOMAIN ctx : Active(d) /\ ctx[d].who = w /\ FailDispatch(d)
  <2>1. PICK d \in DOMAIN ctx : Active(d) /\ ctx[d].who = w /\ FailDispatch(d)
    BY <1>2
  <2>2. Kept(ctx') /\ ~Active(d)'
    BY <2>1, FailDispatchSettles
  <2>3. ASSUME NEW e \in DOMAIN ctx', Active(e)'
        PROVE  ctx'[e].who \in live'
    <3>1. e \in DOMAIN ctx /\ Active(e) /\ ctx'[e].who = ctx[e].who /\ e # d
      BY <2>2, <2>3 DEF Kept, Active
    <3> QED
      BY <1>1, <2>1, <3>1 DEF AllLive, TerminalExclusive
  <2> QED
    BY <2>3 DEF Attended
<1>3. CASE ~Busy(w) /\ ctx' = ctx
  BY <1>1, <1>3 DEF AllLive, Busy, Attended, Active
<1> QED
  BY <1>2, <1>3 DEF Exit

LEMMA NextAttended ==
  ASSUME TypeOK, TerminalExclusive, Attended,
         {"dispatch-manual", "exit-headless", "restart", "torn-write"} \cap Ops = {},
         [Next]_vars
  PROVE  Attended'
<1>0. StoreTypeOK /\ Kept(ctx)
  BY TypeOKStore, UnchangedKept DEF StoreTypeOK
<1>1. ASSUME NEW c \in Coord, Loop(c) PROVE Attended'
  BY <1>1, LoopAttended DEF Loop
<1>2. ASSUME NEW c \in Coord, Run(c) PROVE thread = Nobody /\ live' = live /\ Kept(ctx')
  BY <1>0, <1>2 DEF Run
<1>3. ASSUME NEW t \in Task, NEW D \in SUBSET Task, TaskCreate(t, D)
      PROVE  thread = Nobody /\ live' = live /\ Kept(ctx')
  BY <1>0, <1>3 DEF TaskCreate, hostVars
<1>4. ASSUME NEW t \in Task, NEW s \in ManualStatuses, TaskUpdate(t, s)
      PROVE  thread = Nobody /\ live' = live /\ Kept(ctx')
  BY <1>0, <1>4, UpdateTaskStatusType, OrchestrationAssumption DEF TaskUpdate, May, hostVars
<1>5. ASSUME NEW t \in Task, NEW w \in Worker, Dispatch(t, w) PROVE Attended'
  <2>1. thread = Nobody /\ live' = live /\ w \in live /\ CreateDispatchContext(t, w)
    BY <1>5 DEF Dispatch, hostVars
  <2> QED
    BY <2>1, FreeThreadAllLive, AllLiveGrown
<1>6. ASSUME NEW t \in Task, GateCreate(t)
      PROVE  thread = Nobody /\ live' = live /\ Kept(ctx')
  BY <1>0, <1>6, CompleteKept DEF GateCreate, CreateGate, StoreTypeOK, May, hostVars
<1>7. ASSUME NEW d, DispatchSettles(d)
      PROVE  thread = Nobody /\ live' = live /\ Kept(ctx')
  BY <1>0, <1>7, FailDispatchType DEF DispatchSettles, hostVars
<1>8. ASSUME NEW d, NEW w, WorkerSends(d, w)
      PROVE  thread = Nobody /\ live' = live /\ Kept(ctx')
  BY <1>0, <1>8 DEF WorkerSends, hostVars
<1>9. ASSUME NEW g, GateResolve(g)
      PROVE  thread = Nobody /\ live' = live /\ Kept(ctx')
  BY <1>0, <1>9 DEF GateResolve, May, hostVars
<1>10. ASSUME NEW w, Exit(w) PROVE Attended'
  BY <1>10, ExitAttended
<1>11. ASSUME Reset
       PROVE  thread = Nobody /\ live' = live /\ Kept(ctx')
  BY <1>0, <1>11, ResetTasksType DEF Reset, May, hostVars
<1>12. ASSUME MessagesGone \/ RunStop
       PROVE  thread = Nobody /\ live' = live /\ Kept(ctx')
  BY <1>0, <1>12 DEF MessagesGone, RunStop, May, hostVars, dbVars
<1>13. \A w : ~ExitHeadless(w)
  BY DEF ExitHeadless, May
<1>14. ~Restart /\ ~TornWrite
  BY DEF Restart, TornWrite
<1>15. ASSUME thread = Nobody, live' = live, Kept(ctx') PROVE Attended'
  BY <1>15, FreeThreadAllLive, AllLiveKept
<1>16. CASE UNCHANGED vars
  BY <1>16 DEF vars, dbVars, loopVars, hostVars, Attended, Active
<1>17. CASE Next
  BY <1>1, <1>2, <1>3, <1>4, <1>5, <1>6, <1>7, <1>8, <1>9, <1>10, <1>11, <1>12, <1>13, <1>14,
     <1>15, <1>17 DEF Next
<1> QED
  BY <1>16, <1>17

\* An active dispatch whose preamble has been delivered is on a terminal that
\* is there: whichever of an exit and an injection comes first, one of the two
\* records the failure. What breaks this is a terminal that goes without the
\* exit handler (headless, or with the process), and a dispatch to a handle that
\* nobody looks at.
THEOREM DeathNoticed ==
  ASSUME {"dispatch-manual", "exit-headless", "restart", "torn-write"} \cap Ops = {}
  PROVE  Spec => []NoOrphanedDispatch
<1>1. Init => TypeInv /\ Attended
  BY TypeInit DEF Init, DbInit, Attended
<1>2. TypeInv /\ TerminalExclusive /\ Attended /\ [Next]_vars => (TypeInv /\ Attended)'
  BY NextTypes, NextAttended DEF TypeInv
<1>3. Attended => NoOrphanedDispatch
  BY AttendedIsNoticed
<1> QED
  BY <1>1, <1>2, <1>3, Exclusivity, PTL DEF Spec
=============================================================================
