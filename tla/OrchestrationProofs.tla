------------------------- MODULE OrchestrationProofs -------------------------
(***************************************************************************)
(* Theorems about Orchestration for every number of tasks, terminals and   *)
(* coordinators, every choice of Ops and every bound.                      *)
(***************************************************************************)
EXTENDS Orchestration, SequenceTheorems, FiniteSetTheorems, TLAPS

-----------------------------------------------------------------------------
(* Sequences.                                                               *)

\* A sequence whose elements are replaced one by one is a sequence again.
LEMMA MappedSeq ==
  ASSUME NEW S, NEW s \in Seq(S), NEW f, f \in [DOMAIN s -> S]
  PROVE  f \in Seq(S) /\ Len(f) = Len(s) /\ DOMAIN f = DOMAIN s
<1>1. DOMAIN s = 1 .. Len(s) /\ Len(s) \in Nat
  OBVIOUS
<1>2. f \in [1 .. Len(s) -> S]
  BY <1>1
<1>3. f \in Seq(S)
  BY <1>1, <1>2, SeqDef
<1>4. Len(f) = Len(s)
  BY <1>1, <1>2, <1>3
<1> QED
  BY <1>1, <1>2, <1>3, <1>4

\* An element of a sequence of rows has the type of a row.
LEMMA RowType ==
  ASSUME NEW S, NEW s \in Seq(S), NEW d \in DOMAIN s
  PROVE  s[d] \in S
OBVIOUS

-----------------------------------------------------------------------------
(* Types of what the store's methods write.                                 *)

AnyStatus == TaskStatus \cup {"none", "deleted"}

StoreTypeOK == /\ status \in [Task -> AnyStatus]
               /\ deps \in [Task -> SUBSET Task]
               /\ ctx \in Seq(CtxRow)
               /\ gate \in Seq(GateRow)

LEMMA SetStatusType ==
  ASSUME status \in [Task -> AnyStatus], NEW t, NEW s \in TaskStatus
  PROVE  SetStatus(t, s) \in [Task -> AnyStatus]
BY DEF SetStatus, AnyStatus

LEMMA PromoteType ==
  ASSUME NEW st \in [Task -> AnyStatus], NEW t
  PROVE  Promote(st, t) \in [Task -> AnyStatus]
BY DEF Promote, AnyStatus, TaskStatus

\* What a method does to existing rows: none changes owner or task, and none
\* becomes active again.
Kept(rows) ==
  /\ rows \in Seq(CtxRow)
  /\ DOMAIN rows = DOMAIN ctx
  /\ \A d \in DOMAIN ctx : /\ rows[d].who = ctx[d].who
                           /\ rows[d].task = ctx[d].task
                           /\ rows[d].status = "dispatched" => ctx[d].status = "dispatched"

LEMMA UnchangedKept ==
  ASSUME ctx \in Seq(CtxRow)
  PROVE  Kept(ctx)
BY DEF Kept

LEMMA CompleteKept ==
  ASSUME ctx \in Seq(CtxRow), NEW t
  PROVE  Kept(CompleteActiveDispatch(t))
<1> DEFINE F == CompleteActiveDispatch(t)
<1>1. ASSUME NEW d \in DOMAIN ctx
      PROVE  /\ F[d] \in CtxRow
             /\ F[d].who = ctx[d].who
             /\ F[d].task = ctx[d].task
             /\ F[d].status = "dispatched" => ctx[d].status = "dispatched"
  <2>1. ctx[d] \in CtxRow
    BY <1>1, RowType
  <2> QED
    BY <1>1, <2>1 DEF CompleteActiveDispatch, CtxRow
<1>2. F \in [DOMAIN ctx -> CtxRow]
  BY <1>1 DEF CompleteActiveDispatch
<1>3. F \in Seq(CtxRow) /\ DOMAIN F = DOMAIN ctx
  BY <1>2, MappedSeq
<1> QED
  BY <1>1, <1>3 DEF Kept

LEMMA UpdateTaskStatusType ==
  ASSUME StoreTypeOK, NEW t, NEW s \in TaskStatus, UpdateTaskStatus(t, s)
  PROVE  status' \in [Task -> AnyStatus] /\ Kept(ctx')
<1>1. SetStatus(t, s) \in [Task -> AnyStatus]
  BY SetStatusType DEF StoreTypeOK
<1>2. CASE s = "completed"
  BY <1>1, <1>2, PromoteType, CompleteKept DEF UpdateTaskStatus, StoreTypeOK
<1>3. CASE s # "completed"
  BY <1>1, <1>3, UnchangedKept DEF UpdateTaskStatus, StoreTypeOK
<1> QED
  BY <1>2, <1>3

\* The row that failDispatch writes.
LEMMA FailedRowKept ==
  ASSUME ctx \in Seq(CtxRow), NEW d \in DOMAIN ctx,
         NEW s \in {"failed", "circuit_broken"},
         NEW rows, rows = [ctx EXCEPT ![d].status = s, ![d].fails = @ + 1]
  PROVE  Kept(rows)
<1>1. \A e \in DOMAIN ctx : ctx[e] \in CtxRow
  BY RowType
<1>2. rows \in [DOMAIN ctx -> CtxRow]
  BY <1>1 DEF CtxRow
<1>3. rows \in Seq(CtxRow) /\ DOMAIN rows = DOMAIN ctx
  BY <1>2, MappedSeq
<1>4. \A e \in DOMAIN ctx : /\ rows[e].who = ctx[e].who
                            /\ rows[e].task = ctx[e].task
                            /\ rows[e].status = "dispatched" => ctx[e].status = "dispatched"
  BY <1>1 DEF CtxRow
<1> QED
  BY <1>3, <1>4 DEF Kept

LEMMA FailDispatchType ==
  ASSUME StoreTypeOK, NEW d, FailDispatch(d)
  PROVE  status' \in [Task -> AnyStatus] /\ Kept(ctx')
<1>1. CASE Exists(d)
  <2>1. Kept(ctx')
    BY <1>1, FailedRowKept DEF FailDispatch, Exists, StoreTypeOK
  <2>2. status' \in [Task -> AnyStatus]
    BY <1>1, SetStatusType DEF FailDispatch, StoreTypeOK, TaskStatus
  <2> QED
    BY <2>1, <2>2
<1>2. CASE ~Exists(d)
  BY <1>2, UnchangedKept DEF FailDispatch, StoreTypeOK
<1> QED
  BY <1>1, <1>2

\* The failure count that a new dispatch inherits.
LEMMA PriorFailuresType ==
  ASSUME ctx \in Seq(CtxRow), NEW t, NEW n \in PriorFailures(t)
  PROVE  n \in Nat
<1>1. \A d \in Rows(t) : ctx[d].fails \in Nat
  <2>1. \A d \in DOMAIN ctx : ctx[d] \in CtxRow
    BY RowType
  <2> QED
    BY <2>1 DEF Rows, CtxRow
<1>2. CASE Rows(t) = {}
  BY <1>2 DEF PriorFailures
<1>3. CASE Rows(t) # {}
  <2> DEFINE Most == {e \in Rows(t) : \A f \in Rows(t) : ctx[f].fails <= ctx[e].fails}
  <2>1. n \in {ctx[d].fails : d \in Most}
    BY <1>3 DEF PriorFailures
  <2>2. PICK d \in Most : n = ctx[d].fails
    BY <2>1
  <2> QED
    BY <1>1, <2>2
<1> QED
  BY <1>2, <1>3

\* What createDispatchContext does to the rows: it adds an active one, on a
\* terminal that had none.
Grown(rows) ==
  \E t \in Task, w \in Worker, n \in Nat :
    /\ ~Busy(w)
    /\ rows = Append(ctx, [task |-> t, who |-> w, status |-> "dispatched", fails |-> n])

LEMMA GrownType ==
  ASSUME ctx \in Seq(CtxRow), NEW rows, Grown(rows)
  PROVE  /\ rows \in Seq(CtxRow)
         /\ DOMAIN rows = DOMAIN ctx \cup {Len(ctx) + 1}
         /\ \A d \in DOMAIN ctx : rows[d] = ctx[d]
<1>1. PICK t \in Task, w \in Worker, n \in Nat :
        rows = Append(ctx, [task |-> t, who |-> w, status |-> "dispatched", fails |-> n])
  BY DEF Grown
<1>2. [task |-> t, who |-> w, status |-> "dispatched", fails |-> n] \in CtxRow
  BY DEF CtxRow
<1> QED
  BY <1>1, <1>2

LEMMA CreateDispatchContextType ==
  ASSUME StoreTypeOK, NEW t \in Task, NEW w \in Worker, CreateDispatchContext(t, w)
  PROVE  status' \in [Task -> AnyStatus] /\ Grown(ctx')
<1>1. status' \in [Task -> AnyStatus]
  BY DEF CreateDispatchContext, StoreTypeOK, AnyStatus, TaskStatus
<1>2. PICK n \in PriorFailures(t) :
        ctx' = Append(ctx, [task |-> t, who |-> w, status |-> "dispatched", fails |-> n])
  BY DEF CreateDispatchContext
<1>3. n \in Nat
  BY PriorFailuresType DEF StoreTypeOK
<1>4. ~Busy(w)
  BY DEF CreateDispatchContext, CanDispatch
<1> QED
  BY <1>1, <1>2, <1>3, <1>4 DEF Grown

LEMMA CreateGateType ==
  ASSUME StoreTypeOK, NEW t \in Task, CreateGate(t)
  PROVE  status' \in [Task -> AnyStatus] /\ Kept(ctx') /\ gate' \in Seq(GateRow)
<1>1. status' \in [Task -> AnyStatus]
  BY SetStatusType DEF CreateGate, StoreTypeOK, TaskStatus
<1>2. Kept(ctx')
  BY CompleteKept DEF CreateGate, StoreTypeOK
<1>3. gate' \in Seq(GateRow)
  BY DEF CreateGate, StoreTypeOK, GateRow
<1> QED
  BY <1>1, <1>2, <1>3

LEMMA ResolveGateType ==
  ASSUME StoreTypeOK, NEW g, ResolveGate(g)
  PROVE  status' \in [Task -> AnyStatus] /\ gate' \in Seq(GateRow)
<1>1. status' \in [Task -> AnyStatus]
  BY SetStatusType DEF ResolveGate, StoreTypeOK, TaskStatus
<1>2. \A h \in DOMAIN gate : gate[h] \in GateRow
  BY RowType DEF StoreTypeOK
<1>3. gate' \in [DOMAIN gate -> GateRow]
  BY <1>2 DEF ResolveGate, GateRow
<1> QED
  BY <1>1, <1>3, MappedSeq DEF StoreTypeOK

\* What a reset does to the rows of a table.
LEMMA DeletedKept ==
  ASSUME ctx \in Seq(CtxRow),
         NEW rows, rows = [d \in DOMAIN ctx |-> [ctx[d] EXCEPT !.status = "deleted"]]
  PROVE  Kept(rows)
<1>1. \A d \in DOMAIN ctx : ctx[d] \in CtxRow
  BY RowType
<1>2. rows \in [DOMAIN ctx -> CtxRow]
  BY <1>1 DEF CtxRow
<1>3. \A d \in DOMAIN ctx : /\ rows[d].who = ctx[d].who
                            /\ rows[d].task = ctx[d].task
                            /\ rows[d].status # "dispatched"
  BY <1>1 DEF CtxRow
<1> QED
  BY <1>2, <1>3, MappedSeq DEF Kept

LEMMA DeletedGates ==
  ASSUME gate \in Seq(GateRow)
  PROVE  [g \in DOMAIN gate |-> [gate[g] EXCEPT !.status = "deleted"]] \in Seq(GateRow)
<1>1. \A h \in DOMAIN gate : gate[h] \in GateRow
  BY RowType
<1>2. [g \in DOMAIN gate |-> [gate[g] EXCEPT !.status = "deleted"]] \in [DOMAIN gate -> GateRow]
  BY <1>1 DEF GateRow
<1> QED
  BY <1>2, MappedSeq

LEMMA ResetTasksType ==
  ASSUME StoreTypeOK, ResetTasks
  PROVE  status' \in [Task -> AnyStatus] /\ Kept(ctx') /\ gate' \in Seq(GateRow)
<1>1. status' \in [Task -> AnyStatus]
  BY DEF ResetTasks, StoreTypeOK, AnyStatus
<1>2. Kept(ctx')
  BY DeletedKept DEF ResetTasks, StoreTypeOK
<1>3. gate' \in Seq(GateRow)
  BY DeletedGates DEF ResetTasks, StoreTypeOK
<1> QED
  BY <1>1, <1>2, <1>3

-----------------------------------------------------------------------------
(* The inductive invariant.                                                 *)

\* Only a loop that holds the thread is in the middle of a batch of messages:
\* this is what makes the position a valid one when messages come and go.
BatchInv == at # 0 => \E c \in Coord : thread = c /\ pc[c] = "messages"

TypeInv == TypeOK /\ BatchInv

\* The rows of dispatch_contexts change in one of these ways only.
RowsStep == Kept(ctx') \/ Grown(ctx')

LEMMA TypeOKStore ==
  ASSUME TypeOK
  PROVE  StoreTypeOK
BY DEF TypeOK, StoreTypeOK, AnyStatus

LEMMA MessageType ==
  ASSUME TypeOK, NEW i \in DOMAIN inbox
  PROVE  /\ inbox[i].type # "malformed" => inbox[i].task \in Task
         /\ inbox[i].type = "worker_done" => inbox[i].ctx \in Nat
<1>1. inbox[i] \in Message
  BY RowType DEF TypeOK
<1> QED
  BY <1>1 DEF Message

THEOREM TypeInit == Init => TypeInv
<1> SUFFICES ASSUME Init PROVE TypeInv
  OBVIOUS
<1>1. StoreTypeOK /\ inbox \in Seq(Message)
  BY DEF Init, DbInit, StoreTypeOK, AnyStatus
<1>2. run \in [Coord -> RunStatus] /\ at = 0
  BY DEF Init, DbInit, CoordInit, RunStatus
<1>3. LoopTypeOK
  BY <1>1, <1>2 DEF Init, CoordInit, DbInit, LoopTypeOK, PC
<1>4. thread = Nobody /\ active = Nobody /\ live \in SUBSET Worker /\ gone = {} /\ rpcSend = {} /\ byHand = {}
  BY DEF Init, CoordInit
<1> QED
  BY <1>1, <1>2, <1>3, <1>4 DEF TypeInv, TypeOK, BatchInv, StoreTypeOK, AnyStatus

-----------------------------------------------------------------------------
(* Every step keeps the types. StoreStep is about the tables that the store's *)
(* methods write, HostStep about everything else.                             *)

StoreStep == /\ status' \in [Task -> AnyStatus]
             /\ deps' \in [Task -> SUBSET Task]
             /\ RowsStep
             /\ gate' \in Seq(GateRow)

HostStep == /\ inbox' \in Seq(Message)
            /\ run' \in [Coord -> RunStatus]
            /\ thread' \in Coord \cup {Nobody}
            /\ active' \in Coord \cup {Nobody}
            /\ live' \in SUBSET Worker
            /\ gone' \in SUBSET Worker
            /\ rpcSend' \in SUBSET (DOMAIN ctx')
            /\ byHand' \in SUBSET Task

LEMMA RowsStepType ==
  ASSUME ctx \in Seq(CtxRow), RowsStep
  PROVE  ctx' \in Seq(CtxRow) /\ DOMAIN ctx \subseteq DOMAIN ctx'
<1>1. CASE Kept(ctx')
  BY <1>1 DEF Kept
<1>2. CASE Grown(ctx')
  BY <1>2, GrownType
<1> QED
  BY <1>1, <1>2 DEF RowsStep

LEMMA StoreUnchanged ==
  ASSUME TypeOK, UNCHANGED <<status, deps, ctx, gate>>
  PROVE  StoreStep
<1>1. Kept(ctx')
  BY UnchangedKept DEF TypeOK
<1> QED
  BY <1>1, TypeOKStore DEF StoreStep, StoreTypeOK, RowsStep

LEMMA StepType ==
  ASSUME TypeOK, StoreStep, HostStep, LoopTypeOK'
  PROVE  TypeOK'
<1>1. ctx' \in Seq(CtxRow)
  BY RowsStepType DEF TypeOK, StoreStep
<1> QED
  BY <1>1 DEF TypeOK, StoreStep, HostStep, AnyStatus

\* What UNCHANGED says when an action leaves the loops, or the host, alone.
LEMMA LoopUnchanged ==
  ASSUME TypeOK, UNCHANGED loopVars, at' \in 0 .. Len(inbox')
  PROVE  LoopTypeOK'
BY DEF TypeOK, LoopTypeOK, loopVars

\* An action of somebody else than the loops: the thread is free, so no batch
\* of messages is in the middle of being handled.
LEMMA FreeThread ==
  ASSUME TypeInv, thread = Nobody
  PROVE  at = 0
BY CoordinatorAssumption DEF TypeInv, BatchInv

LEMMA OutsideStep ==
  ASSUME TypeInv, thread = Nobody, StoreStep, HostStep, UNCHANGED <<loopVars, at>>
  PROVE  TypeInv'
<1>1. at' = 0
  BY FreeThread
<1>2. at' \in 0 .. Len(inbox')
  BY <1>1 DEF HostStep
<1>3. LoopTypeOK'
  BY <1>2, LoopUnchanged DEF TypeInv
<1>4. TypeOK'
  BY <1>3, StepType DEF TypeInv
<1> QED
  BY <1>1, <1>4 DEF TypeInv, BatchInv

-----------------------------------------------------------------------------
(* The operations of the CLI, the workers and the terminals.                *)

LEMMA TaskCreateStep ==
  ASSUME TypeInv, NEW t \in Task, NEW D \in SUBSET Task, TaskCreate(t, D)
  PROVE  TypeInv' /\ RowsStep
<1>1. Kept(ctx')
  BY UnchangedKept DEF TaskCreate, TypeInv, TypeOK
<1>2. StoreStep
  BY <1>1 DEF TaskCreate, CreateTask, TypeInv, TypeOK, StoreStep, RowsStep, AnyStatus, TaskStatus
<1>3. HostStep
  BY DEF TaskCreate, HostStep, hostVars, TypeInv, TypeOK
<1> QED
  BY <1>2, <1>3, OutsideStep DEF TaskCreate, StoreStep

LEMMA TaskUpdateStep ==
  ASSUME TypeInv, NEW t \in Task, NEW s \in ManualStatuses, TaskUpdate(t, s)
  PROVE  TypeInv' /\ RowsStep
<1>1. status' \in [Task -> AnyStatus] /\ Kept(ctx')
  BY UpdateTaskStatusType, TypeOKStore, OrchestrationAssumption DEF TaskUpdate, TypeInv
<1>2. StoreStep
  BY <1>1 DEF TaskUpdate, TypeInv, TypeOK, StoreStep, RowsStep
<1>3. HostStep
  BY <1>1 DEF TaskUpdate, HostStep, hostVars, TypeInv, TypeOK, Kept
<1> QED
  BY <1>2, <1>3, OutsideStep DEF TaskUpdate, May, StoreStep

LEMMA ResetStep ==
  ASSUME TypeInv, Reset
  PROVE  TypeInv' /\ RowsStep
<1>1. status' \in [Task -> AnyStatus] /\ Kept(ctx') /\ gate' \in Seq(GateRow)
  BY ResetTasksType, TypeOKStore DEF Reset, TypeInv
<1>2. StoreStep
  BY <1>1 DEF Reset, TypeInv, TypeOK, StoreStep, RowsStep
<1>3. inbox' \in Seq(Message)
  <2>1. CASE ResetMessages
    BY <2>1 DEF ResetMessages
  <2>2. CASE UNCHANGED inbox
    BY <2>2 DEF TypeInv, TypeOK
  <2> QED
    BY <2>1, <2>2 DEF Reset
<1>4. run' \in [Coord -> RunStatus]
  BY DEF Reset, ResetTasks, RunStatus
<1>5. HostStep
  BY <1>1, <1>3, <1>4 DEF Reset, HostStep, hostVars, TypeInv, TypeOK, Kept
<1> QED
  BY <1>2, <1>5, OutsideStep DEF Reset, May, StoreStep

LEMMA MessagesGoneStep ==
  ASSUME TypeInv, MessagesGone
  PROVE  TypeInv' /\ RowsStep
<1>1. StoreStep
  BY StoreUnchanged DEF MessagesGone, TypeInv
<1>2. HostStep
  BY DEF MessagesGone, ResetMessages, HostStep, hostVars, TypeInv, TypeOK
<1> QED
  BY <1>1, <1>2, OutsideStep DEF MessagesGone, May, StoreStep

LEMMA DispatchStep ==
  ASSUME TypeInv, NEW t \in Task, NEW w \in Worker, Dispatch(t, w)
  PROVE  TypeInv' /\ RowsStep
<1>1. status' \in [Task -> AnyStatus] /\ Grown(ctx')
  BY CreateDispatchContextType, TypeOKStore DEF Dispatch, TypeInv
<1>2. StoreStep
  BY <1>1 DEF Dispatch, TypeInv, TypeOK, StoreStep, RowsStep
<1>3. rpcSend' \in SUBSET (DOMAIN ctx')
  BY <1>1, GrownType DEF Dispatch, TypeInv, TypeOK
<1>4. HostStep
  BY <1>3 DEF Dispatch, HostStep, hostVars, TypeInv, TypeOK
<1> QED
  BY <1>2, <1>4, OutsideStep DEF Dispatch, StoreStep

LEMMA DispatchSettlesStep ==
  ASSUME TypeInv, NEW d, DispatchSettles(d)
  PROVE  TypeInv' /\ RowsStep
<1>1. status' \in [Task -> AnyStatus] /\ Kept(ctx')
  <2>1. CASE UNCHANGED <<ctx, status>>
    BY <2>1, UnchangedKept DEF TypeInv, TypeOK, AnyStatus
  <2>2. CASE FailDispatch(d)
    BY <2>2, FailDispatchType, TypeOKStore DEF TypeInv
  <2> QED
    BY <2>1, <2>2 DEF DispatchSettles
<1>2. StoreStep
  BY <1>1 DEF DispatchSettles, TypeInv, TypeOK, StoreStep, RowsStep
<1>3. HostStep
  BY <1>1 DEF DispatchSettles, HostStep, hostVars, TypeInv, TypeOK, Kept
<1> QED
  BY <1>2, <1>3, OutsideStep DEF DispatchSettles, StoreStep

LEMMA GateCreateStep ==
  ASSUME TypeInv, NEW t \in Task, GateCreate(t)
  PROVE  TypeInv' /\ RowsStep
<1>1. status' \in [Task -> AnyStatus] /\ Kept(ctx') /\ gate' \in Seq(GateRow)
  BY CreateGateType, TypeOKStore DEF GateCreate, TypeInv
<1>2. StoreStep
  BY <1>1 DEF GateCreate, TypeInv, TypeOK, StoreStep, RowsStep
<1>3. HostStep
  BY <1>1 DEF GateCreate, HostStep, hostVars, TypeInv, TypeOK, Kept
<1> QED
  BY <1>2, <1>3, OutsideStep DEF GateCreate, May, StoreStep

LEMMA GateResolveStep ==
  ASSUME TypeInv, NEW g, GateResolve(g)
  PROVE  TypeInv' /\ RowsStep
<1>1. status' \in [Task -> AnyStatus] /\ gate' \in Seq(GateRow)
  BY ResolveGateType, TypeOKStore DEF GateResolve, TypeInv
<1>2. Kept(ctx')
  BY UnchangedKept DEF GateResolve, TypeInv, TypeOK
<1>3. StoreStep
  BY <1>1, <1>2 DEF GateResolve, TypeInv, TypeOK, StoreStep, RowsStep
<1>4. HostStep
  BY DEF GateResolve, HostStep, hostVars, TypeInv, TypeOK
<1> QED
  BY <1>3, <1>4, OutsideStep DEF GateResolve, May, StoreStep

LEMMA PostType ==
  ASSUME inbox \in Seq(Message), NEW m \in Message, Post(m)
  PROVE  inbox' \in Seq(Message)
BY DEF Post

LEMMA WorkerSendsStep ==
  ASSUME TypeInv, NEW d, NEW w \in Worker, WorkerSends(d, w)
  PROVE  TypeInv' /\ RowsStep
<1>1. ctx[d] \in CtxRow /\ d \in Nat
  BY RowType DEF WorkerSends, TypeInv, TypeOK
<1>2. PICK m \in Message : Post(m)
  <2>1. [type |-> "worker_done", from |-> w, task |-> ctx[d].task, ctx |-> d] \in Message
    BY <1>1 DEF Message, CtxRow
  <2>2. /\ [type |-> "escalation", task |-> ctx[d].task] \in Message
        /\ [type |-> "decision_gate", task |-> ctx[d].task] \in Message
        /\ [type |-> "malformed"] \in Message
    BY <1>1 DEF Message, CtxRow
  <2> QED
    BY <2>1, <2>2 DEF WorkerSends
<1>3. inbox' \in Seq(Message)
  BY <1>2, PostType DEF TypeInv, TypeOK
<1>4. StoreStep
  BY StoreUnchanged DEF WorkerSends, TypeInv
<1>5. HostStep
  BY <1>3 DEF WorkerSends, HostStep, hostVars, TypeInv, TypeOK
<1> QED
  BY <1>4, <1>5, OutsideStep DEF WorkerSends, StoreStep

LEMMA ExitStep ==
  ASSUME TypeInv, NEW w \in Worker, Exit(w)
  PROVE  TypeInv' /\ RowsStep
<1>1. status' \in [Task -> AnyStatus] /\ Kept(ctx') /\ inbox' \in Seq(Message)
  <2>1. CASE UNCHANGED <<ctx, status, inbox>>
    BY <2>1, UnchangedKept DEF TypeInv, TypeOK, AnyStatus
  <2>2. ASSUME NEW d \in DOMAIN ctx, FailDispatch(d),
               \/ Post([type |-> "escalation", task |-> ctx[d].task])
               \/ UNCHANGED inbox
        PROVE  status' \in [Task -> AnyStatus] /\ Kept(ctx') /\ inbox' \in Seq(Message)
    <3>1. ctx[d] \in CtxRow
      BY RowType DEF TypeInv, TypeOK
    <3>2. [type |-> "escalation", task |-> ctx[d].task] \in Message
      BY <3>1 DEF Message, CtxRow
    <3>3. inbox' \in Seq(Message)
      BY <2>2, <3>2, PostType DEF TypeInv, TypeOK
    <3> QED
      BY <2>2, <3>3, FailDispatchType, TypeOKStore DEF TypeInv
  <2> QED
    BY <2>1, <2>2 DEF Exit
<1>2. StoreStep
  BY <1>1 DEF Exit, TypeInv, TypeOK, StoreStep, RowsStep
<1>3. HostStep
  BY <1>1 DEF Exit, HostStep, TypeInv, TypeOK, Kept
<1> QED
  BY <1>2, <1>3, OutsideStep DEF Exit, May, StoreStep

LEMMA ExitHeadlessStep ==
  ASSUME TypeInv, NEW w \in Worker, ExitHeadless(w)
  PROVE  TypeInv' /\ RowsStep
<1>1. StoreStep
  BY StoreUnchanged DEF ExitHeadless, dbVars, TypeInv
<1>2. HostStep
  BY DEF ExitHeadless, HostStep, dbVars, TypeInv, TypeOK
<1> QED
  BY <1>1, <1>2, OutsideStep DEF ExitHeadless, May, StoreStep

-----------------------------------------------------------------------------
(* The life of a run.                                                       *)

LEMMA RunStartStep ==
  ASSUME TypeInv, NEW c \in Coord, Run(c)
  PROVE  TypeInv' /\ RowsStep
<1>1. StoreStep
  BY StoreUnchanged DEF Run, TypeInv
<1>2. at = 0 /\ at' = 0 /\ inbox' = inbox
  BY FreeThread DEF Run
<1>3. run' \in [Coord -> RunStatus] /\ thread' \in Coord \cup {Nobody} /\ active' \in Coord \cup {Nobody}
  BY DEF Run, TypeInv, TypeOK, RunStatus
<1>4. HostStep
  BY <1>3 DEF Run, HostStep, TypeInv, TypeOK
<1>5. pc' \in [Coord -> PC]
  BY DEF Run, TypeInv, TypeOK, LoopTypeOK, PC
<1>6. LoopTypeOK'
  BY <1>2, <1>5 DEF Run, TypeInv, TypeOK, LoopTypeOK
<1>7. TypeOK'
  BY <1>1, <1>4, <1>6, StepType DEF TypeInv
<1> QED
  BY <1>1, <1>2, <1>7 DEF TypeInv, BatchInv, StoreStep

LEMMA RunStopStep ==
  ASSUME TypeInv, RunStop
  PROVE  TypeInv' /\ RowsStep
<1>1. StoreStep
  BY StoreUnchanged DEF RunStop, dbVars, TypeInv
<1>2. at = 0 /\ at' = 0 /\ inbox' = inbox
  BY FreeThread DEF RunStop, May, dbVars
<1>3. HostStep
  BY DEF RunStop, dbVars, HostStep, TypeInv, TypeOK
<1>4. stopped' \in [Coord -> BOOLEAN]
  BY DEF RunStop, TypeInv, TypeOK, LoopTypeOK
<1>5. LoopTypeOK'
  BY <1>2, <1>4 DEF RunStop, TypeInv, TypeOK, LoopTypeOK
<1>6. TypeOK'
  BY <1>1, <1>3, <1>5, StepType DEF TypeInv
<1> QED
  BY <1>1, <1>2, <1>6 DEF TypeInv, BatchInv, StoreStep

LEMMA ProcessLostStep ==
  ASSUME TypeInv, ProcessLost, StoreStep, UNCHANGED inbox, run' \in [Coord -> RunStatus]
  PROVE  TypeInv' /\ RowsStep
<1>1. HostStep
  BY DEF ProcessLost, HostStep, TypeInv, TypeOK
<1>2. pc' \in [Coord -> PC]
  BY DEF ProcessLost, TypeInv, TypeOK, LoopTypeOK, PC
<1>3. LoopTypeOK'
  BY <1>2 DEF ProcessLost, TypeInv, TypeOK, LoopTypeOK
<1>4. TypeOK'
  BY <1>1, <1>3, StepType DEF TypeInv
<1> QED
  BY <1>4 DEF ProcessLost, TypeInv, BatchInv, StoreStep

LEMMA RestartStep ==
  ASSUME TypeInv, Restart
  PROVE  TypeInv' /\ RowsStep
<1>1. StoreStep
  BY StoreUnchanged DEF Restart, dbVars, TypeInv
<1> QED
  BY <1>1, ProcessLostStep DEF Restart, dbVars, TypeInv, TypeOK

-----------------------------------------------------------------------------
(* The part of a method that a process writes before it ends.               *)

TornStep == /\ status' \in [Task -> AnyStatus]
            /\ RowsStep
            /\ gate' \in Seq(GateRow)
            /\ run' \in [Coord -> RunStatus]

LEMMA TornCompletionType ==
  ASSUME TypeOK, NEW t, TornCompletion(t)
  PROVE  TornStep
<1>1. SetStatus(t, "completed") \in [Task -> AnyStatus]
  BY SetStatusType DEF TypeOK, AnyStatus, TaskStatus
<1>2. Promote(SetStatus(t, "completed"), t) \in [Task -> AnyStatus]
  BY <1>1, PromoteType
<1>3. status' \in [Task -> AnyStatus]
  BY <1>1, <1>2 DEF TornCompletion
<1> QED
  BY <1>3, UnchangedKept DEF TornCompletion, TypeOK, TornStep, RowsStep

LEMMA TornDispatchType ==
  ASSUME TypeOK, NEW t \in Task, NEW w \in Worker, TornDispatch(t, w)
  PROVE  TornStep
<1>1. PICK n \in PriorFailures(t) :
        ctx' = Append(ctx, [task |-> t, who |-> w, status |-> "dispatched", fails |-> n])
  BY DEF TornDispatch
<1>2. n \in Nat
  BY PriorFailuresType DEF TypeOK
<1>3. Grown(ctx')
  BY <1>1, <1>2 DEF TornDispatch, CanDispatch, Grown
<1> QED
  BY <1>3 DEF TornDispatch, TypeOK, TornStep, RowsStep, AnyStatus

LEMMA TornFailureType ==
  ASSUME TypeOK, NEW d, TornFailure(d)
  PROVE  TornStep
<1>1. Kept(ctx')
  BY FailedRowKept DEF TornFailure, Exists, TypeOK
<1> QED
  BY <1>1 DEF TornFailure, TypeOK, TornStep, RowsStep, AnyStatus

LEMMA TornGateType ==
  ASSUME TypeOK, NEW t \in Task, TornGate(t)
  PROVE  TornStep
<1>1. Kept(ctx')
  BY CompleteKept, UnchangedKept DEF TornGate, TypeOK
<1>2. gate' \in Seq(GateRow)
  BY DEF TornGate, TypeOK, GateRow
<1> QED
  BY <1>1, <1>2 DEF TornGate, TypeOK, TornStep, RowsStep, AnyStatus

LEMMA TornResolutionType ==
  ASSUME TypeOK, NEW g, TornResolution(g)
  PROVE  TornStep
<1>1. \A h \in DOMAIN gate : gate[h] \in GateRow
  BY RowType DEF TypeOK
<1>2. gate' \in [DOMAIN gate -> GateRow]
  BY <1>1 DEF TornResolution, GateRow
<1>3. gate' \in Seq(GateRow)
  BY <1>2, MappedSeq DEF TypeOK
<1> QED
  BY <1>3, UnchangedKept DEF TornResolution, TypeOK, TornStep, RowsStep, AnyStatus

LEMMA TornResetType ==
  ASSUME TypeOK, TornReset
  PROVE  TornStep
<1>1. run' \in [Coord -> RunStatus]
  BY DEF TornReset, RunStatus
<1>2. Kept(ctx')
  <2>1. CASE UNCHANGED ctx
    BY <2>1, UnchangedKept DEF TypeOK
  <2>2. CASE ctx' = [d \in DOMAIN ctx |-> [ctx[d] EXCEPT !.status = "deleted"]]
    BY <2>2, DeletedKept DEF TypeOK
  <2> QED
    BY <2>1, <2>2 DEF TornReset
<1>3. gate' \in Seq(GateRow)
  <2>1. CASE UNCHANGED gate
    BY <2>1 DEF TypeOK
  <2>2. CASE gate' = [g \in DOMAIN gate |-> [gate[g] EXCEPT !.status = "deleted"]]
    BY <2>2, DeletedGates DEF TypeOK
  <2> QED
    BY <2>1, <2>2 DEF TornReset
<1> QED
  BY <1>1, <1>2, <1>3 DEF TornReset, TypeOK, TornStep, RowsStep, AnyStatus

LEMMA TornHandlerType ==
  ASSUME TypeOK, NEW i \in DOMAIN inbox, TornHandler(inbox[i])
  PROVE  TornStep
<1>1. CASE inbox[i].type = "worker_done" /\ TornCompletion(inbox[i].task)
  BY <1>1, TornCompletionType
<1>2. CASE \E d \in Rows(inbox[i].task) : TornFailure(d)
  BY <1>2, TornFailureType
<1>3. CASE inbox[i].type = "decision_gate" /\ TornGate(inbox[i].task)
  BY <1>3, MessageType, TornGateType
<1> QED
  BY <1>1, <1>2, <1>3 DEF TornHandler

LEMMA TornCallType ==
  ASSUME TypeOK, TornCall
  PROVE  TornStep
<1>1. ASSUME NEW t \in Task, TornCompletion(t) PROVE TornStep
  BY <1>1, TornCompletionType
<1>2. ASSUME NEW t \in Task, NEW w \in Worker, TornDispatch(t, w) PROVE TornStep
  BY <1>2, TornDispatchType
<1>3. ASSUME NEW t \in Task, TornGate(t) PROVE TornStep
  BY <1>3, TornGateType
<1>4. ASSUME NEW g \in DOMAIN gate, TornResolution(g) PROVE TornStep
  BY <1>4, TornResolutionType
<1>5. ASSUME TornReset PROVE TornStep
  BY <1>5, TornResetType
<1>6. ASSUME NEW d, TornFailure(d) PROVE TornStep
  BY <1>6, TornFailureType
<1> QED
  BY <1>1, <1>2, <1>3, <1>4, <1>5, <1>6 DEF TornCall

LEMMA TornWriteStep ==
  ASSUME TypeInv, TornWrite
  PROVE  TypeInv' /\ RowsStep
<1>1. TornStep
  <2>1. CASE /\ thread # Nobody /\ pc[thread] = "messages" /\ at < Len(inbox)
             /\ TornHandler(inbox[at + 1])
    <3>1. at + 1 \in DOMAIN inbox
      BY <2>1 DEF TypeInv, TypeOK, LoopTypeOK
    <3> QED
      BY <2>1, <3>1, TornHandlerType DEF TypeInv
  <2>2. ASSUME NEW c \in Coord, NEW t \in todo[c], NEW w \in free[c], TornDispatch(t, w)
        PROVE  TornStep
    <3>1. t \in Task /\ w \in Worker
      BY DEF TypeInv, TypeOK, LoopTypeOK
    <3> QED
      BY <2>2, <3>1, TornDispatchType DEF TypeInv
  <2>3. ASSUME NEW c \in Coord, TornFailure(cur[c])
        PROVE  TornStep
    BY <2>3, TornFailureType DEF TypeInv
  <2>4. CASE TornCall
    BY <2>4, TornCallType DEF TypeInv
  <2> QED
    BY <2>1, <2>2, <2>3, <2>4 DEF TornWrite
<1>2. StoreStep
  BY <1>1 DEF TornWrite, TornStep, StoreStep, TypeInv, TypeOK
<1> QED
  BY <1>1, <1>2, ProcessLostStep DEF TornWrite, TornStep

-----------------------------------------------------------------------------
(* The steps of the loop.                                                   *)

LEMMA ProcessMessageStep ==
  ASSUME TypeInv, NEW c \in Coord, ProcessMessage(c), UNCHANGED rpcSend, byHand' \in SUBSET Task
  PROVE  TypeInv' /\ RowsStep
<1> DEFINE m == inbox[at + 1]
<1>1. at \in Nat /\ at + 1 \in DOMAIN inbox /\ at + 1 \in 0 .. Len(inbox)
  BY DEF ProcessMessage, TypeInv, TypeOK, LoopTypeOK
<1>2. StoreTypeOK
  BY TypeOKStore DEF TypeInv
<1>3. /\ status' \in [Task -> AnyStatus] /\ RowsStep /\ gate' \in Seq(GateRow)
      /\ failedSeen' \in [Coord -> SUBSET Task]
  <2>1. CASE HandleWorkerDone(c, m)
    <3>1. status' \in [Task -> AnyStatus] /\ Kept(ctx')
      <4>1. CASE UpdateTaskStatus(m.task, "completed")
        BY <1>2, <4>1, UpdateTaskStatusType DEF TaskStatus
      <4>2. CASE UNCHANGED <<status, ctx>>
        BY <1>2, <4>2, UnchangedKept DEF StoreTypeOK
      <4> QED
        BY <2>1, <4>1, <4>2 DEF HandleWorkerDone
    <3> QED
      BY <1>2, <2>1, <3>1 DEF HandleWorkerDone, RowsStep, StoreTypeOK, TypeInv, TypeOK, LoopTypeOK
  <2>2. CASE HandleEscalation(c, m)
    <3>1. m.task \in Task
      BY <1>1, <2>2, MessageType DEF HandleEscalation, TypeInv
    <3>2. failedSeen' \in [Coord -> SUBSET Task]
      <4>1. failedSeen \in [Coord -> SUBSET Task]
        BY DEF TypeInv, TypeOK, LoopTypeOK
      <4>2. \/ failedSeen' = failedSeen
            \/ failedSeen' = [failedSeen EXCEPT ![c] = @ \cup {m.task}]
            \/ failedSeen' = [failedSeen EXCEPT ![c] = @]
        BY <2>2 DEF HandleEscalation
      <4> QED
        BY <3>1, <4>1, <4>2
    <3>3. status' \in [Task -> AnyStatus] /\ Kept(ctx')
      <4>1. CASE \E d \in Rows(m.task) : FailDispatch(d)
        BY <1>2, <4>1, FailDispatchType
      <4>2. CASE UNCHANGED <<status, ctx>>
        BY <1>2, <4>2, UnchangedKept DEF StoreTypeOK
      <4> QED
        BY <2>2, <4>1, <4>2 DEF HandleEscalation
    <3> QED
      BY <1>2, <2>2, <3>2, <3>3 DEF HandleEscalation, RowsStep, StoreTypeOK
  <2>3. CASE HandleDecisionGate(c, m)
    <3>1. m.task \in Task /\ CreateGate(m.task)
      BY <1>1, <2>3, MessageType DEF HandleDecisionGate, TypeInv
    <3> QED
      BY <1>2, <2>3, <3>1, CreateGateType DEF HandleDecisionGate, RowsStep, TypeInv, TypeOK, LoopTypeOK
  <2> QED
    BY <2>1, <2>2, <2>3 DEF ProcessMessage
<1>4. StoreStep
  BY <1>2, <1>3 DEF ProcessMessage, StoreStep, StoreTypeOK
<1>5. DOMAIN ctx \subseteq DOMAIN ctx'
  BY <1>2, <1>3, RowsStepType DEF StoreTypeOK
<1>6. HostStep
  BY <1>5 DEF ProcessMessage, HostStep, hostVars, TypeInv, TypeOK
<1>7. at' \in 0 .. Len(inbox')
  BY <1>1 DEF ProcessMessage
<1>8. LoopTypeOK'
  BY <1>3, <1>7 DEF ProcessMessage, TypeInv, TypeOK, LoopTypeOK
<1>9. TypeOK'
  BY <1>4, <1>6, <1>8, StepType DEF TypeInv
<1> QED
  BY <1>3, <1>9 DEF TypeInv, BatchInv, ProcessMessage, hostVars

\* The end of a run writes its row, its place and the module's reference.
LEMMA EndType ==
  ASSUME TypeInv, NEW c \in Coord, NEW final \in {"completed", "failed"}, End(c, final)
  PROVE  /\ run' \in [Coord -> RunStatus]
         /\ pc' \in [Coord -> PC]
         /\ thread' \in Coord \cup {Nobody}
         /\ active' \in Coord \cup {Nobody}
BY DEF End, TypeInv, TypeOK, LoopTypeOK, RunStatus, PC

LEMMA FinishType ==
  ASSUME TypeInv, NEW c \in Coord, Finish(c)
  PROVE  /\ run' \in [Coord -> RunStatus]
         /\ pc' \in [Coord -> PC]
         /\ thread' \in Coord \cup {Nobody}
         /\ active' \in Coord \cup {Nobody}
<1>1. CASE stopped[c] \/ failedSeen[c] # {} \/ Tasks("failed") # {} \/ ~AllDone
  BY <1>1, EndType DEF Finish
<1>2. CASE ~(stopped[c] \/ failedSeen[c] # {} \/ Tasks("failed") # {} \/ ~AllDone)
  BY <1>2, EndType DEF Finish
<1> QED
  BY <1>1, <1>2

LEMMA HandlerThrowsStep ==
  ASSUME TypeInv, NEW c \in Coord, HandlerThrows(c), UNCHANGED rpcSend, byHand' \in SUBSET Task
  PROVE  TypeInv' /\ RowsStep
<1>1. StoreStep
  BY StoreUnchanged DEF HandlerThrows, TypeInv
<1>2. /\ run' \in [Coord -> RunStatus] /\ pc' \in [Coord -> PC]
      /\ thread' \in Coord \cup {Nobody} /\ active' \in Coord \cup {Nobody}
  BY EndType DEF HandlerThrows
<1>3. HostStep
  BY <1>2 DEF HandlerThrows, HostStep, TypeInv, TypeOK
<1>4. LoopTypeOK'
  BY <1>2 DEF HandlerThrows, TypeInv, TypeOK, LoopTypeOK
<1>5. TypeOK'
  BY <1>1, <1>3, <1>4, StepType DEF TypeInv
<1> QED
  BY <1>1, <1>5 DEF HandlerThrows, TypeInv, BatchInv, StoreStep

LEMMA ScanReadyStep ==
  ASSUME TypeInv, NEW c \in Coord, ScanReady(c), UNCHANGED rpcSend, byHand' \in SUBSET Task
  PROVE  TypeInv' /\ RowsStep
<1>1. Reblocked \in [Task -> AnyStatus]
  BY DEF Reblocked, TypeInv, TypeOK, AnyStatus, TaskStatus
<1>2. Kept(ctx') /\ ctx' = ctx
  BY UnchangedKept DEF ScanReady, TypeInv, TypeOK
<1>3. StoreStep
  BY <1>1, <1>2 DEF ScanReady, StoreStep, RowsStep, TypeInv, TypeOK
<1>4. at' = 0 /\ inbox' = <<>>
  BY DEF ScanReady
<1>5. thread' \in Coord \cup {Nobody}
  BY DEF ScanReady, TypeInv, TypeOK
<1>6. HostStep
  BY <1>4, <1>5 DEF ScanReady, HostStep, TypeInv, TypeOK
<1>7. pc' \in [Coord -> PC]
  BY DEF ScanReady, TypeInv, TypeOK, LoopTypeOK, PC
<1>8. todo' \in [Coord -> SUBSET Task]
  <2> DEFINE ready == {t \in Task : Reblocked[t] = "ready"}
  <2>1. todo' = todo \/ todo' = [todo EXCEPT ![c] = ready]
    BY DEF ScanReady
  <2>2. ready \in SUBSET Task
    OBVIOUS
  <2> QED
    BY <2>1, <2>2 DEF TypeInv, TypeOK, LoopTypeOK
<1>9. slots' \in [Coord -> Int]
  <2> DEFINE Used == {t \in Task : Reblocked[t] = "dispatched"}
  <2>1. IsFiniteSet(Used)
    BY CoordinatorAssumption, FS_Subset
  <2>2. Cardinality(Used) \in Nat
    BY <2>1, FS_CardinalityType
  <2>3. slots' = slots \/ slots' = [slots EXCEPT ![c] = MaxConcurrent - Cardinality(Used)]
    BY DEF ScanReady
  <2>4. MaxConcurrent - Cardinality(Used) \in Int
    BY <2>2, CoordinatorAssumption
  <2> QED
    BY <2>3, <2>4 DEF TypeInv, TypeOK, LoopTypeOK
<1>10. LoopTypeOK'
  BY <1>4, <1>7, <1>8, <1>9 DEF ScanReady, TypeInv, TypeOK, LoopTypeOK
<1>11. TypeOK'
  BY <1>3, <1>6, <1>10, StepType DEF TypeInv
<1> QED
  BY <1>3, <1>4, <1>11 DEF TypeInv, BatchInv, StoreStep

\* Past its messages, a loop is in the middle of no batch.
LEMMA NoBatch ==
  ASSUME TypeInv, NEW c \in Coord, thread \in {Nobody, c}, pc[c] # "messages"
  PROVE  at = 0
BY CoordinatorAssumption DEF TypeInv, BatchInv

\* The rest of a tick: no messages are read, so the types of the loop's own
\* variables are all there is to show.
LEMMA TickStep ==
  ASSUME TypeInv, NEW c \in Coord, thread \in {Nobody, c}, pc[c] # "messages",
         StoreStep, HostStep, UNCHANGED <<at, inbox, stopped>>,
         pc' \in [Coord -> PC], todo' \in [Coord -> SUBSET Task], slots' \in [Coord -> Int],
         free' \in [Coord -> SUBSET Worker], cur' \in [Coord -> Nat],
         failedSeen' \in [Coord -> SUBSET Task]
  PROVE  TypeInv' /\ RowsStep
<1>1. at = 0 /\ at' = 0
  BY NoBatch
<1>2. LoopTypeOK'
  BY <1>1 DEF TypeInv, TypeOK, LoopTypeOK
<1>3. TypeOK'
  BY <1>2, StepType DEF TypeInv
<1> QED
  BY <1>1, <1>3 DEF TypeInv, BatchInv, StoreStep

LEMMA ListTerminalsStep ==
  ASSUME TypeInv, NEW c \in Coord, ListTerminals(c), UNCHANGED rpcSend, byHand' \in SUBSET Task
  PROVE  TypeInv' /\ RowsStep
<1>1. StoreStep
  BY StoreUnchanged DEF ListTerminals, dbVars, TypeInv
<1>2. HostStep
  BY DEF ListTerminals, dbVars, hostVars, HostStep, TypeInv, TypeOK
<1>3. PICK ws \in SUBSET Worker :
        /\ free' = [free EXCEPT ![c] = ws]
        /\ pc' = [pc EXCEPT ![c] = IF ws = {} THEN "create" ELSE "dispatch"]
  BY DEF ListTerminals, TypeInv, TypeOK
<1>4. free' \in [Coord -> SUBSET Worker]
  BY <1>3 DEF TypeInv, TypeOK, LoopTypeOK
<1>5. pc' \in [Coord -> PC]
  <2>1. pc' = [pc EXCEPT ![c] = "create"] \/ pc' = [pc EXCEPT ![c] = "dispatch"]
    BY <1>3
  <2> QED
    BY <2>1 DEF TypeInv, TypeOK, LoopTypeOK, PC
<1> QED
  BY <1>1, <1>2, <1>4, <1>5, TickStep DEF ListTerminals, dbVars, TypeInv, TypeOK, LoopTypeOK

LEMMA CreateTerminalStep ==
  ASSUME TypeInv, NEW c \in Coord, CreateTerminal(c), UNCHANGED rpcSend, byHand' \in SUBSET Task
  PROVE  TypeInv' /\ RowsStep
<1>1. StoreStep
  BY StoreUnchanged DEF CreateTerminal, dbVars, TypeInv
<1>2. HostStep
  BY DEF CreateTerminal, dbVars, HostStep, TypeInv, TypeOK
<1>3. free' \in [Coord -> SUBSET Worker]
  <2>1. free \in [Coord -> SUBSET Worker]
    BY DEF TypeInv, TypeOK, LoopTypeOK
  <2>2. ASSUME NEW w \in Worker, free' = [free EXCEPT ![c] = {w}]
        PROVE  free' \in [Coord -> SUBSET Worker]
    BY <2>1, <2>2
  <2> QED
    BY <2>1, <2>2 DEF CreateTerminal
<1>4. pc' \in [Coord -> PC]
  <2>1. pc' = [pc EXCEPT ![c] = "converge"] \/ pc' = [pc EXCEPT ![c] = "dispatch"]
    BY DEF CreateTerminal
  <2> QED
    BY <2>1 DEF TypeInv, TypeOK, LoopTypeOK, PC
<1> QED
  BY <1>1, <1>2, <1>3, <1>4, TickStep DEF CreateTerminal, dbVars, TypeInv, TypeOK, LoopTypeOK

LEMMA DispatchNextStep ==
  ASSUME TypeInv, NEW c \in Coord, DispatchNext(c), UNCHANGED rpcSend, byHand' \in SUBSET Task
  PROVE  TypeInv' /\ RowsStep
<1>1. PICK t \in todo[c], w \in free[c] :
        /\ todo' = [todo EXCEPT ![c] = @ \ {t}]
        /\ free' = [free EXCEPT ![c] = @ \ {w}]
        /\ slots' = [slots EXCEPT ![c] = @ - 1]
        /\ \/ /\ CreateDispatchContext(t, w)
              /\ pc' = [pc EXCEPT ![c] = "send"]
              /\ cur' = [cur EXCEPT ![c] = Len(ctx) + 1]
              /\ thread' \in {Nobody, c}
           \/ /\ \E more \in BOOLEAN : LoopHead(c, more)
              /\ UNCHANGED <<ctx, status, cur>>
  BY DEF DispatchNext, MoreToTry
<1>2. t \in Task /\ w \in Worker
  BY DEF TypeInv, TypeOK, LoopTypeOK
<1>3. /\ todo' \in [Coord -> SUBSET Task] /\ free' \in [Coord -> SUBSET Worker]
      /\ slots' \in [Coord -> Int]
  BY <1>1 DEF TypeInv, TypeOK, LoopTypeOK
<1>4. StoreTypeOK /\ Len(ctx) \in Nat
  BY TypeOKStore DEF TypeInv, TypeOK
<1>5. /\ status' \in [Task -> AnyStatus] /\ RowsStep
      /\ pc' \in [Coord -> PC] /\ cur' \in [Coord -> Nat] /\ thread' \in Coord \cup {Nobody}
  <2>1. CASE /\ CreateDispatchContext(t, w)
             /\ pc' = [pc EXCEPT ![c] = "send"]
             /\ cur' = [cur EXCEPT ![c] = Len(ctx) + 1]
             /\ thread' \in {Nobody, c}
    <3>1. status' \in [Task -> AnyStatus] /\ RowsStep
      BY <1>2, <1>4, <2>1, CreateDispatchContextType DEF RowsStep
    <3>2. cur' \in [Coord -> Nat]
      BY <1>4, <2>1 DEF TypeInv, TypeOK, LoopTypeOK
    <3> QED
      BY <2>1, <3>1, <3>2 DEF TypeInv, TypeOK, LoopTypeOK, PC
  <2>2. CASE /\ \E more \in BOOLEAN : LoopHead(c, more)
             /\ UNCHANGED <<ctx, status, cur>>
    <3>1. status' \in [Task -> AnyStatus] /\ RowsStep
      BY <1>4, <2>2, UnchangedKept DEF RowsStep, StoreTypeOK
    <3> QED
      BY <2>2, <3>1 DEF LoopHead, TypeInv, TypeOK, LoopTypeOK, PC
  <2> QED
    BY <1>1, <2>1, <2>2
<1>6. StoreStep
  BY <1>5, <1>4 DEF DispatchNext, StoreStep, StoreTypeOK
<1>7. DOMAIN ctx \subseteq DOMAIN ctx'
  BY <1>4, <1>5, RowsStepType DEF StoreTypeOK
<1>8. HostStep
  BY <1>5, <1>7 DEF DispatchNext, HostStep, TypeInv, TypeOK
<1> QED
  BY <1>3, <1>5, <1>6, <1>8, TickStep DEF DispatchNext, TypeInv, TypeOK, LoopTypeOK

LEMMA SendSettlesStep ==
  ASSUME TypeInv, NEW c \in Coord, SendSettles(c), UNCHANGED rpcSend, byHand' \in SUBSET Task
  PROVE  TypeInv' /\ RowsStep
<1>1. StoreTypeOK
  BY TypeOKStore DEF TypeInv
<1>2. status' \in [Task -> AnyStatus] /\ Kept(ctx') /\ failedSeen' \in [Coord -> SUBSET Task]
  <2>1. CASE UNCHANGED <<ctx, status, failedSeen>>
    BY <1>1, <2>1, UnchangedKept DEF StoreTypeOK, TypeInv, TypeOK, LoopTypeOK
  <2>2. CASE /\ FailDispatch(cur[c])
             /\ failedSeen' = [failedSeen EXCEPT ![c] =
                    IF Exists(cur[c]) /\ Breaks(cur[c]) THEN @ \cup {ctx[cur[c]].task} ELSE @]
    <3>1. status' \in [Task -> AnyStatus] /\ Kept(ctx')
      BY <1>1, <2>2, FailDispatchType
    <3>2. failedSeen \in [Coord -> SUBSET Task]
      BY DEF TypeInv, TypeOK, LoopTypeOK
    <3>3. CASE Exists(cur[c])
      <4>1. ctx[cur[c]] \in CtxRow
        BY <1>1, <3>3, RowType DEF StoreTypeOK, Exists
      <4>2. ctx[cur[c]].task \in Task
        BY <4>1 DEF CtxRow
      <4>3. \/ failedSeen' = [failedSeen EXCEPT ![c] = @ \cup {ctx[cur[c]].task}]
            \/ failedSeen' = [failedSeen EXCEPT ![c] = @]
        BY <2>2
      <4> QED
        BY <3>1, <3>2, <4>2, <4>3
    <3>4. CASE ~Exists(cur[c])
      BY <2>2, <3>1, <3>2, <3>4
    <3> QED
      BY <3>3, <3>4
  <2> QED
    BY <2>1, <2>2 DEF SendSettles
<1>3. StoreStep
  BY <1>1, <1>2 DEF SendSettles, StoreStep, StoreTypeOK, RowsStep
<1>4. /\ pc' \in [Coord -> PC] /\ thread' \in Coord \cup {Nobody}
      /\ cur' \in [Coord -> Nat]
  BY DEF SendSettles, LoopHead, TypeInv, TypeOK, LoopTypeOK, PC
<1>5. HostStep
  BY <1>2, <1>4 DEF SendSettles, HostStep, TypeInv, TypeOK, Kept
<1> QED
  BY <1>2, <1>3, <1>4, <1>5, TickStep DEF SendSettles, TypeInv, TypeOK, LoopTypeOK

LEMMA ConvergeStep ==
  ASSUME TypeInv, NEW c \in Coord, Converge(c), UNCHANGED rpcSend, byHand' \in SUBSET Task
  PROVE  TypeInv' /\ RowsStep
<1>1. StoreStep
  BY StoreUnchanged DEF Converge, TypeInv
<1>2. /\ run' \in [Coord -> RunStatus] /\ pc' \in [Coord -> PC]
      /\ thread' \in Coord \cup {Nobody} /\ active' \in Coord \cup {Nobody}
  <2>1. CASE Finish(c)
    BY <2>1, FinishType
  <2>2. CASE ~AllDone
    BY <2>2 DEF Converge, TypeInv, TypeOK, LoopTypeOK, PC
  <2> QED
    BY <2>1, <2>2 DEF Converge
<1>3. HostStep
  BY <1>2 DEF Converge, HostStep, TypeInv, TypeOK
<1>4. /\ todo' \in [Coord -> SUBSET Task] /\ free' \in [Coord -> SUBSET Worker]
      /\ slots' \in [Coord -> Int]
  BY DEF Converge, TypeInv, TypeOK, LoopTypeOK
<1> QED
  BY <1>1, <1>2, <1>3, <1>4, TickStep DEF Converge, TypeInv, TypeOK, LoopTypeOK

LEMMA WakeStep ==
  ASSUME TypeInv, NEW c \in Coord, Wake(c), UNCHANGED rpcSend, byHand' \in SUBSET Task
  PROVE  TypeInv' /\ RowsStep
<1>1. StoreStep
  BY StoreUnchanged DEF Wake, TypeInv
<1>2. /\ run' \in [Coord -> RunStatus] /\ pc' \in [Coord -> PC]
      /\ thread' \in Coord \cup {Nobody} /\ active' \in Coord \cup {Nobody}
  <2>1. CASE Finish(c)
    BY <2>1, FinishType
  <2>2. CASE ~stopped[c]
    BY <2>2 DEF Wake, TypeInv, TypeOK, LoopTypeOK, PC
  <2> QED
    BY <2>1, <2>2 DEF Wake
<1>3. HostStep
  BY <1>2 DEF Wake, HostStep, TypeInv, TypeOK
<1> QED
  BY <1>1, <1>2, <1>3, TickStep DEF Wake, TypeInv, TypeOK, LoopTypeOK

-----------------------------------------------------------------------------
(* Type correctness.                                                        *)

LEMMA LoopTypes ==
  ASSUME TypeInv, NEW c \in Coord, Loop(c)
  PROVE  TypeInv' /\ RowsStep
<1>0. UNCHANGED rpcSend /\ byHand' \in SUBSET Task
  BY DEF Loop, TypeInv, TypeOK
<1>1. CASE ProcessMessage(c)
  BY <1>0, <1>1, ProcessMessageStep
<1>2. CASE HandlerThrows(c)
  BY <1>0, <1>2, HandlerThrowsStep
<1>3. CASE ScanReady(c)
  BY <1>0, <1>3, ScanReadyStep
<1>4. CASE ListTerminals(c)
  BY <1>0, <1>4, ListTerminalsStep
<1>5. CASE CreateTerminal(c)
  BY <1>0, <1>5, CreateTerminalStep
<1>6. CASE DispatchNext(c)
  BY <1>0, <1>6, DispatchNextStep
<1>7. CASE SendSettles(c)
  BY <1>0, <1>7, SendSettlesStep
<1>8. CASE Converge(c)
  BY <1>0, <1>8, ConvergeStep
<1>9. CASE Wake(c)
  BY <1>0, <1>9, WakeStep
<1> QED
  BY <1>1, <1>2, <1>3, <1>4, <1>5, <1>6, <1>7, <1>8, <1>9 DEF Loop, LoopStep

LEMMA Unmoved ==
  ASSUME TypeInv, UNCHANGED vars
  PROVE  TypeInv' /\ RowsStep
<1>1. StoreStep
  BY StoreUnchanged DEF vars, dbVars, TypeInv
<1>2. HostStep
  BY DEF vars, dbVars, hostVars, HostStep, TypeInv, TypeOK
<1>3. LoopTypeOK'
  BY DEF vars, dbVars, loopVars, TypeInv, TypeOK, LoopTypeOK
<1>4. TypeOK'
  BY <1>1, <1>2, <1>3, StepType DEF TypeInv
<1> QED
  BY <1>1, <1>4 DEF TypeInv, BatchInv, StoreStep, vars, hostVars, loopVars

\* A step of anybody keeps the types, and rewrites dispatch_contexts only as
\* RowsStep allows.
LEMMA NextTypes ==
  ASSUME TypeInv, [Next]_vars
  PROVE  TypeInv' /\ RowsStep
<1>1. ASSUME NEW c \in Coord, Loop(c) \/ Run(c)
      PROVE  TypeInv' /\ RowsStep
  BY <1>1, LoopTypes, RunStartStep
<1>2. ASSUME NEW t \in Task, \/ \E D \in SUBSET Task : TaskCreate(t, D)
                             \/ \E s \in ManualStatuses : TaskUpdate(t, s)
                             \/ \E w \in Worker : Dispatch(t, w)
                             \/ GateCreate(t)
      PROVE  TypeInv' /\ RowsStep
  BY <1>2, TaskCreateStep, TaskUpdateStep, DispatchStep, GateCreateStep
<1>3. ASSUME NEW d \in 1 .. MaxCtx, DispatchSettles(d) \/ \E w \in Worker : WorkerSends(d, w)
      PROVE  TypeInv' /\ RowsStep
  BY <1>3, DispatchSettlesStep, WorkerSendsStep
<1>4. ASSUME NEW g \in 1 .. MaxGates, GateResolve(g)
      PROVE  TypeInv' /\ RowsStep
  BY <1>4, GateResolveStep
<1>5. ASSUME NEW w \in Worker, Exit(w) \/ ExitHeadless(w)
      PROVE  TypeInv' /\ RowsStep
  BY <1>5, ExitStep, ExitHeadlessStep
<1>6. ASSUME Reset \/ MessagesGone \/ RunStop \/ Restart \/ TornWrite
      PROVE  TypeInv' /\ RowsStep
  BY <1>6, ResetStep, MessagesGoneStep, RunStopStep, RestartStep, TornWriteStep
<1>7. ASSUME UNCHANGED vars
      PROVE  TypeInv' /\ RowsStep
  BY <1>7, Unmoved
<1>8. ASSUME Next
      PROVE  TypeInv' /\ RowsStep
  BY <1>1, <1>2, <1>3, <1>4, <1>5, <1>6, <1>8 DEF Next
<1> QED
  BY <1>7, <1>8

\* Every variable keeps its type, in every use of the system.
THEOREM Typing == Spec => []TypeOK
<1>1. Init => TypeInv
  BY TypeInit
<1>2. TypeInv /\ [Next]_vars => TypeInv'
  BY NextTypes
<1>3. TypeInv => TypeOK
  BY DEF TypeInv
<1> QED
  BY <1>1, <1>2, <1>3, PTL DEF Spec

-----------------------------------------------------------------------------
(* The dispatch lock.                                                       *)

\* The lock is kept by what the methods do to the rows, whoever calls them: a
\* row that changes does not become active, and one that is added is on a
\* terminal that had no active row.
LEMMA RowsKeepExclusive ==
  ASSUME TypeInv, TerminalExclusive, RowsStep
  PROVE  TerminalExclusive'
<1>1. CASE Kept(ctx')
  <2>1. \A d \in DOMAIN ctx' : d \in DOMAIN ctx /\ ctx'[d].who = ctx[d].who
    BY <1>1 DEF Kept
  <2>2. \A d \in DOMAIN ctx' : ctx'[d].status = "dispatched" => Active(d)
    BY <1>1 DEF Kept, Active
  <2> QED
    BY <2>1, <2>2 DEF TerminalExclusive, Active
<1>2. CASE Grown(ctx')
  <2>1. PICK t \in Task, w \in Worker, n \in Nat :
          /\ ~Busy(w)
          /\ ctx' = Append(ctx, [task |-> t, who |-> w, status |-> "dispatched", fails |-> n])
    BY <1>2 DEF Grown
  <2>2. /\ DOMAIN ctx' = DOMAIN ctx \cup {Len(ctx) + 1}
        /\ \A d \in DOMAIN ctx : ctx'[d] = ctx[d]
    BY <1>2, GrownType DEF TypeInv, TypeOK
  <2>3. ctx'[Len(ctx) + 1].who = w
    BY <2>1 DEF TypeInv, TypeOK
  <2>4. \A d \in DOMAIN ctx : ctx'[d].status = "dispatched" => ctx'[d].who # w
    BY <2>1, <2>2 DEF Busy, Active
  <2> QED
    BY <2>2, <2>3, <2>4 DEF TerminalExclusive, Active
<1> QED
  BY <1>1, <1>2 DEF RowsStep

\* Two dispatches are never active on one terminal: the dispatch lock holds
\* whoever dispatches, however calls and messages interleave, and across
\* resets, restarts and torn writes.
THEOREM Exclusivity == Spec => []TerminalExclusive
<1>1. Init => TypeInv /\ TerminalExclusive
  BY TypeInit DEF Init, DbInit, TerminalExclusive
<1>2. TypeInv /\ TerminalExclusive /\ [Next]_vars => (TypeInv /\ TerminalExclusive)'
  BY NextTypes, RowsKeepExclusive
<1> QED
  BY <1>1, <1>2, PTL DEF Spec
=============================================================================
