------------------------------ MODULE RunProofs ------------------------------
(***************************************************************************)
(* Coordinator loops never overlap, for any number of runs, as long as     *)
(* nobody resets the tasks: a reset deletes the row of a run whose loop     *)
(* goes on, and the row is all that keeps a second loop from starting.     *)
(***************************************************************************)
EXTENDS OrchestrationProofs

\* A loop that is on has a row that says so, and one row at a time says so.
\* The converse fails: after a restart the row has no loop.
RunInv == /\ \A c \in Coord : Looping(c) => run[c] = "running"
          /\ \A c, e \in Coord : run[c] = "running" /\ run[e] = "running" => c = e

LEMMA RunInvOneLoop ==
  ASSUME RunInv
  PROVE  OneLoop
BY DEF RunInv, OneLoop

-----------------------------------------------------------------------------
(* What a step does to the loops and to their rows.                         *)

\* No loop starts and no row changes.
Onward == /\ \A c \in Coord : Looping(c)' => Looping(c)
          /\ run' = run

\* The loop of c is off after the step and its row is closed.
Ended(c) == /\ ~Looping(c)'
            /\ run'[c] # "running"
            /\ \A e \in Coord \ {c} : (Looping(e)' => Looping(e)) /\ run'[e] = run[e]

\* The loop of c starts, when no row is running.
Started(c) == /\ ~ActiveRun
              /\ run'[c] = "running"
              /\ \A e \in Coord \ {c} : (Looping(e)' => Looping(e)) /\ run'[e] = run[e]

RunStep == Onward \/ \E c \in Coord : Ended(c) \/ Started(c)

LEMMA RunStepKeeps ==
  ASSUME RunInv, RunStep
  PROVE  RunInv'
<1>1. CASE Onward
  BY <1>1 DEF Onward, RunInv
<1>2. ASSUME NEW c \in Coord, Ended(c)
      PROVE  RunInv'
  <2>1. \A e \in Coord : Looping(e)' => run'[e] = "running"
    BY <1>2 DEF Ended, RunInv
  <2>2. \A e \in Coord : run'[e] = "running" => run[e] = "running"
    BY <1>2 DEF Ended
  <2> QED
    BY <2>1, <2>2 DEF RunInv
<1>3. ASSUME NEW c \in Coord, Started(c)
      PROVE  RunInv'
  <2>1. \A e \in Coord : ~Looping(e) /\ run[e] # "running"
    BY <1>3 DEF Started, ActiveRun, RunInv
  <2>2. \A e \in Coord : Looping(e)' \/ run'[e] = "running" => e = c
    BY <1>3, <2>1 DEF Started
  <2> QED
    BY <1>3, <2>2 DEF Started, RunInv
<1> QED
  BY <1>1, <1>2, <1>3 DEF RunStep

-----------------------------------------------------------------------------
(* The loop's own steps.                                                    *)

\* A loop that is on goes to another place in its tick.
LEMMA MoveIsOnward ==
  ASSUME TypeOK, NEW c \in Coord, Looping(c), NEW p, pc' = [pc EXCEPT ![c] = p], run' = run
  PROVE  RunStep
BY DEF TypeOK, LoopTypeOK, Looping, Onward, RunStep

LEMMA EndIsEnded ==
  ASSUME TypeOK, NEW c \in Coord, NEW final \in {"completed", "failed"}, End(c, final)
  PROVE  RunStep
<1>1. pc' = [pc EXCEPT ![c] = "done"] /\ pc \in [Coord -> PC] /\ run \in [Coord -> RunStatus]
  BY DEF End, TypeOK, LoopTypeOK
<1>2. \A e \in Coord \ {c} : (Looping(e)' => Looping(e)) /\ run'[e] = run[e]
  BY <1>1 DEF End, Looping
<1>3. ~Looping(c)' /\ run'[c] # "running"
  <2>1. CASE run[c] = "running"
    BY <1>1, <2>1 DEF End, Looping
  <2>2. CASE run[c] # "running"
    BY <1>1, <2>2 DEF End, Looping
  <2> QED
    BY <2>1, <2>2
<1> QED
  BY <1>2, <1>3 DEF Ended, RunStep

LEMMA FinishIsEnded ==
  ASSUME TypeOK, NEW c \in Coord, Finish(c)
  PROVE  RunStep
<1>1. End(c, "completed") \/ End(c, "failed")
  BY DEF Finish
<1> QED
  BY <1>1, EndIsEnded

LEMMA LoopRuns ==
  ASSUME TypeOK, NEW c \in Coord, LoopStep(c)
  PROVE  RunStep
<1>1. CASE ProcessMessage(c)
  BY <1>1 DEF ProcessMessage, Looping, Onward, RunStep
<1>2. CASE HandlerThrows(c)
  BY <1>2, EndIsEnded DEF HandlerThrows
<1>3. CASE ScanReady(c)
  <2>1. (\E p \in {"converge", "list"} : pc' = [pc EXCEPT ![c] = p]) /\ run' = run /\ Looping(c)
    BY <1>3 DEF ScanReady, Looping
  <2> QED
    BY <2>1, MoveIsOnward
<1>4. CASE ListTerminals(c)
  <2>1. (\E p : pc' = [pc EXCEPT ![c] = p]) /\ run' = run /\ Looping(c)
    BY <1>4 DEF ListTerminals, Looping, dbVars
  <2> QED
    BY <2>1, MoveIsOnward
<1>5. CASE CreateTerminal(c)
  <2>1. (\E p : pc' = [pc EXCEPT ![c] = p]) /\ run' = run /\ Looping(c)
    BY <1>5 DEF CreateTerminal, Looping, dbVars
  <2> QED
    BY <2>1, MoveIsOnward
<1>6. CASE DispatchNext(c)
  <2>1. (\E p : pc' = [pc EXCEPT ![c] = p]) /\ run' = run /\ Looping(c)
    BY <1>6 DEF DispatchNext, LoopHead, Looping
  <2> QED
    BY <2>1, MoveIsOnward
<1>7. CASE SendSettles(c)
  <2>1. (\E p : pc' = [pc EXCEPT ![c] = p]) /\ run' = run /\ Looping(c)
    BY <1>7 DEF SendSettles, LoopHead, Looping
  <2> QED
    BY <2>1, MoveIsOnward
<1>8. CASE Converge(c)
  <2>1. CASE Finish(c)
    BY <2>1, FinishIsEnded
  <2>2. CASE pc' = [pc EXCEPT ![c] = "sleep"] /\ run' = run
    BY <1>8, <2>2, MoveIsOnward DEF Converge, Looping
  <2> QED
    BY <1>8, <2>1, <2>2 DEF Converge
<1>9. CASE Wake(c)
  <2>1. CASE Finish(c)
    BY <2>1, FinishIsEnded
  <2>2. CASE pc' = [pc EXCEPT ![c] = "messages"] /\ run' = run
    BY <1>9, <2>2, MoveIsOnward DEF Wake, Looping
  <2> QED
    BY <1>9, <2>1, <2>2 DEF Wake
<1> QED
  BY <1>1, <1>2, <1>3, <1>4, <1>5, <1>6, <1>7, <1>8, <1>9 DEF LoopStep

-----------------------------------------------------------------------------
(* Everything else.                                                         *)

\* orchestration.run opens a row only when none is running.
LEMMA RunStarts ==
  ASSUME TypeOK, NEW c \in Coord, Run(c)
  PROVE  RunStep
<1>1. pc \in [Coord -> PC] /\ run \in [Coord -> RunStatus] /\ ~ActiveRun
  BY DEF Run, TypeOK, LoopTypeOK
<1>2. CASE run' = [run EXCEPT ![c] = "running"] /\ pc' = [pc EXCEPT ![c] = "messages"]
  <2>1. Started(c)
    BY <1>1, <1>2 DEF Started, Looping
  <2> QED
    BY <2>1 DEF RunStep
<1>3. CASE run' = [run EXCEPT ![c] = "failed"] /\ pc' = [pc EXCEPT ![c] = "done"]
  <2>1. Ended(c)
    BY <1>1, <1>3 DEF Ended, Looping
  <2> QED
    BY <2>1 DEF RunStep
<1> QED
  BY <1>2, <1>3 DEF Run

\* The end of the process takes every loop with it; a torn write of anything
\* but a reset leaves the rows of the runs alone.
LEMMA ProcessLostRuns ==
  ASSUME TypeOK, ProcessLost, run' = run
  PROVE  RunStep
<1>1. \A c \in Coord : ~Looping(c)'
  BY DEF ProcessLost, Looping, TypeOK, LoopTypeOK
<1> QED
  BY <1>1 DEF Onward, RunStep

LEMMA TornWriteRuns ==
  ASSUME TypeOK, "reset" \notin Ops, TornWrite
  PROVE  RunStep
<1>1. run' = run
  BY DEF TornWrite, TornHandler, TornCall, TornCompletion, TornDispatch, TornFailure,
         TornGate, TornResolution
<1> QED
  BY <1>1, ProcessLostRuns DEF TornWrite

\* The calls, messages and exits that neither start nor end a loop.
LEMMA OthersRun ==
  ASSUME UNCHANGED <<run, pc>>
  PROVE  RunStep
BY DEF Onward, RunStep, Looping

LEMMA NextRuns ==
  ASSUME TypeOK, "reset" \notin Ops, [Next]_vars
  PROVE  RunStep
<1>1. ASSUME NEW c \in Coord, Loop(c) \/ Run(c) PROVE RunStep
  BY <1>1, LoopRuns, RunStarts DEF Loop
<1>2. ASSUME NEW t \in Task, \/ \E D \in SUBSET Task : TaskCreate(t, D)
                             \/ \E s \in ManualStatuses : TaskUpdate(t, s)
                             \/ \E w \in Worker : Dispatch(t, w)
                             \/ GateCreate(t)
      PROVE  UNCHANGED <<run, pc>>
  BY <1>2 DEF TaskCreate, TaskUpdate, Dispatch, GateCreate, loopVars
<1>3. ASSUME NEW d, DispatchSettles(d) \/ \E w \in Worker : WorkerSends(d, w)
      PROVE  UNCHANGED <<run, pc>>
  BY <1>3 DEF DispatchSettles, WorkerSends, loopVars
<1>4. ASSUME NEW g, GateResolve(g) PROVE UNCHANGED <<run, pc>>
  BY <1>4 DEF GateResolve, loopVars
<1>5. ASSUME NEW w, Exit(w) \/ ExitHeadless(w) PROVE UNCHANGED <<run, pc>>
  BY <1>5 DEF Exit, ExitHeadless, dbVars, loopVars
<1>6. ASSUME MessagesGone \/ RunStop \/ UNCHANGED vars PROVE UNCHANGED <<run, pc>>
  BY <1>6 DEF MessagesGone, RunStop, dbVars, loopVars, vars
<1>7. ~Reset
  BY DEF Reset, May
<1>8. ASSUME Restart PROVE RunStep
  BY <1>8, ProcessLostRuns DEF Restart, dbVars
<1>9. CASE Next
  BY <1>1, <1>2, <1>3, <1>4, <1>5, <1>6, <1>7, <1>8, <1>9, TornWriteRuns, OthersRun DEF Next
<1> QED
  BY <1>6, <1>9, OthersRun

\* Two coordinator loops are never on at the same time, whatever runs are
\* started, stopped, thrown out of or lost with the process: the row of the run
\* is closed only by the loop's own last step.
THEOREM SingleLoop ==
  ASSUME "reset" \notin Ops
  PROVE  Spec => []OneLoop
<1>1. Init => TypeInv /\ RunInv
  BY TypeInit DEF Init, DbInit, CoordInit, RunInv, Looping
<1>2. TypeInv /\ RunInv /\ [Next]_vars => (TypeInv /\ RunInv)'
  BY NextTypes, NextRuns, RunStepKeeps DEF TypeInv
<1>3. RunInv => OneLoop
  BY RunInvOneLoop
<1> QED
  BY <1>1, <1>2, <1>3, PTL DEF Spec

-----------------------------------------------------------------------------
(* A run that shows as running can be stopped.                              *)

Reachable(c) == Looping(c) /\ (active = c \/ stopped[c])

\* No row begins to run, and a run that goes on stays within reach of runStop.
StaysReachable ==
  \A c \in Coord : run'[c] = "running" =>
    run[c] = "running" /\ (Reachable(c) => Reachable(c)')

LEMMA ReachableKeeps ==
  ASSUME RunIsStoppable, StaysReachable
  PROVE  RunIsStoppable'
BY DEF RunIsStoppable, StaysReachable, Reachable

\* A step of the loop to another place in its tick.
LEMMA MoveIsReachable ==
  ASSUME TypeOK, NEW c \in Coord, NEW p, p \notin {"off", "done"}, pc' = [pc EXCEPT ![c] = p],
         UNCHANGED <<run, active, stopped>>
  PROVE  StaysReachable
BY DEF TypeOK, LoopTypeOK, Looping, Reachable, StaysReachable

\* The loop of another instance ends: that leaves this one's row, loop and
\* reference alone.
LEMMA EndIsReachable ==
  ASSUME TypeOK, NEW c \in Coord, NEW final \in {"completed", "failed"}, End(c, final),
         stopped' = stopped
  PROVE  StaysReachable
<1>1. pc \in [Coord -> PC] /\ run \in [Coord -> RunStatus]
  BY DEF TypeOK, LoopTypeOK
<1>2. run'[c] # "running"
  BY <1>1 DEF End
<1>3. ASSUME NEW e \in Coord \ {c}
      PROVE  run'[e] = run[e] /\ (Reachable(e) => Reachable(e)')
  BY <1>1, <1>3 DEF End, Reachable, Looping
<1> QED
  BY <1>2, <1>3 DEF StaysReachable

LEMMA FinishIsReachable ==
  ASSUME TypeOK, NEW c \in Coord, Finish(c), stopped' = stopped
  PROVE  StaysReachable
<1>1. End(c, "completed") \/ End(c, "failed")
  BY DEF Finish
<1> QED
  BY <1>1, EndIsReachable

LEMMA SameIsReachable ==
  ASSUME UNCHANGED <<run, pc, active, stopped>>
  PROVE  StaysReachable
BY DEF StaysReachable, Reachable, Looping

LEMMA LoopReachable ==
  ASSUME TypeOK, NEW c \in Coord, LoopStep(c)
  PROVE  StaysReachable
<1>1. CASE ProcessMessage(c)
  BY <1>1, SameIsReachable DEF ProcessMessage, hostVars
<1>2. CASE HandlerThrows(c)
  BY <1>2, EndIsReachable DEF HandlerThrows
<1>3. CASE ScanReady(c)
  <2>1. /\ \E p \in {"converge", "list"} : pc' = [pc EXCEPT ![c] = p]
        /\ UNCHANGED <<run, active, stopped>>
    BY <1>3 DEF ScanReady
  <2> QED
    BY <2>1, MoveIsReachable
<1>4. CASE ListTerminals(c)
  <2>1. /\ \E p \in {"create", "dispatch"} : pc' = [pc EXCEPT ![c] = p]
        /\ UNCHANGED <<run, active, stopped>>
    BY <1>4 DEF ListTerminals, dbVars, hostVars
  <2> QED
    BY <2>1, MoveIsReachable
<1>5. CASE CreateTerminal(c)
  <2>1. /\ \E p \in {"converge", "dispatch"} : pc' = [pc EXCEPT ![c] = p]
        /\ UNCHANGED <<run, active, stopped>>
    BY <1>5 DEF CreateTerminal, dbVars
  <2> QED
    BY <2>1, MoveIsReachable
<1>6. CASE DispatchNext(c)
  <2>1. /\ \E p \in {"send", "dispatch", "converge"} : pc' = [pc EXCEPT ![c] = p]
        /\ UNCHANGED <<run, active, stopped>>
    BY <1>6 DEF DispatchNext, LoopHead
  <2> QED
    BY <2>1, MoveIsReachable
<1>7. CASE SendSettles(c)
  <2>1. /\ \E p \in {"dispatch", "converge"} : pc' = [pc EXCEPT ![c] = p]
        /\ UNCHANGED <<run, active, stopped>>
    BY <1>7 DEF SendSettles, LoopHead
  <2> QED
    BY <2>1, MoveIsReachable
<1>8. CASE Converge(c)
  <2>1. CASE Finish(c)
    BY <1>8, <2>1, FinishIsReachable DEF Converge
  <2>2. CASE pc' = [pc EXCEPT ![c] = "sleep"] /\ UNCHANGED <<run, active>>
    BY <1>8, <2>2, MoveIsReachable DEF Converge
  <2> QED
    BY <1>8, <2>1, <2>2 DEF Converge
<1>9. CASE Wake(c)
  <2>1. CASE Finish(c)
    BY <1>9, <2>1, FinishIsReachable DEF Wake
  <2>2. CASE pc' = [pc EXCEPT ![c] = "messages"] /\ UNCHANGED <<run, active>>
    BY <1>9, <2>2, MoveIsReachable DEF Wake
  <2> QED
    BY <1>9, <2>1, <2>2 DEF Wake
<1> QED
  BY <1>1, <1>2, <1>3, <1>4, <1>5, <1>6, <1>7, <1>8, <1>9 DEF LoopStep

\* orchestration.run refers to the loop it starts, and no other run is on.
LEMMA RunIsReachable ==
  ASSUME TypeOK, NEW c \in Coord, Run(c)
  PROVE  RunIsStoppable'
<1>1. pc \in [Coord -> PC] /\ run \in [Coord -> RunStatus] /\ ~ActiveRun
  BY DEF Run, TypeOK, LoopTypeOK
<1>2. CASE /\ run' = [run EXCEPT ![c] = "running"]
           /\ pc' = [pc EXCEPT ![c] = "messages"]
           /\ active' = c
  BY <1>1, <1>2 DEF RunIsStoppable, ActiveRun, Looping
<1>3. CASE run' = [run EXCEPT ![c] = "failed"]
  BY <1>1, <1>3 DEF RunIsStoppable, ActiveRun
<1> QED
  BY <1>2, <1>3 DEF Run

\* runStop gives up the reference only to a loop that it has told to stop.
LEMMA RunStopReachable ==
  ASSUME RunStop
  PROVE  StaysReachable
BY DEF RunStop, StaysReachable, Reachable, Looping, dbVars

\* A reset leaves no row that shows as running.
LEMMA ResetReachable ==
  ASSUME Reset
  PROVE  StaysReachable
BY DEF Reset, ResetTasks, StaysReachable

LEMMA NextStoppable ==
  ASSUME TypeOK, RunIsStoppable, {"restart", "torn-write"} \cap Ops = {}, [Next]_vars
  PROVE  RunIsStoppable'
<1>1. ASSUME NEW c \in Coord, Loop(c) PROVE StaysReachable
  BY <1>1, LoopReachable DEF Loop
<1>2. ASSUME NEW t \in Task, \/ \E D \in SUBSET Task : TaskCreate(t, D)
                             \/ \E s \in ManualStatuses : TaskUpdate(t, s)
                             \/ \E w \in Worker : Dispatch(t, w)
                             \/ GateCreate(t)
      PROVE  UNCHANGED <<run, pc, active, stopped>>
  BY <1>2 DEF TaskCreate, TaskUpdate, Dispatch, GateCreate, loopVars, hostVars
<1>3. ASSUME NEW d, DispatchSettles(d) \/ \E w \in Worker : WorkerSends(d, w)
      PROVE  UNCHANGED <<run, pc, active, stopped>>
  BY <1>3 DEF DispatchSettles, WorkerSends, loopVars, hostVars
<1>4. ASSUME NEW g, GateResolve(g) PROVE UNCHANGED <<run, pc, active, stopped>>
  BY <1>4 DEF GateResolve, loopVars, hostVars
<1>5. ASSUME NEW w, Exit(w) \/ ExitHeadless(w) PROVE UNCHANGED <<run, pc, active, stopped>>
  BY <1>5 DEF Exit, ExitHeadless, dbVars, loopVars
<1>6. ASSUME MessagesGone \/ UNCHANGED vars PROVE UNCHANGED <<run, pc, active, stopped>>
  BY <1>6 DEF MessagesGone, dbVars, loopVars, hostVars, vars
<1>7. ~Restart /\ ~TornWrite
  BY DEF Restart, TornWrite
<1>8. CASE Next
  BY <1>1, <1>2, <1>3, <1>4, <1>5, <1>6, <1>7, <1>8, RunIsReachable, RunStopReachable,
     ResetReachable, ReachableKeeps, SameIsReachable DEF Next
<1> QED
  BY <1>6, <1>8, ReachableKeeps, SameIsReachable

\* While the process lives, a run that shows as running has a loop that runStop
\* can reach or has already told to stop, whatever is started, stopped, reset or
\* thrown out of meanwhile: no row blocks orchestration.run for ever.
THEOREM Stoppable ==
  ASSUME {"restart", "torn-write"} \cap Ops = {}
  PROVE  Spec => []RunIsStoppable
<1>1. Init => TypeInv /\ RunIsStoppable
  BY TypeInit DEF Init, DbInit, CoordInit, RunIsStoppable
<1>2. TypeInv /\ RunIsStoppable /\ [Next]_vars => (TypeInv /\ RunIsStoppable)'
  BY NextTypes, NextStoppable DEF TypeInv
<1> QED
  BY <1>1, <1>2, PTL DEF Spec
=============================================================================
