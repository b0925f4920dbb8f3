------------------------------ MODULE TaskBoard ------------------------------
(***************************************************************************)
(* What a coordinator run promises of its tasks, as the users of           *)
(* orchestration see it: the board of src/skills/orchestration, without    *)
(* dispatch contexts, messages, ticks and terminals. A task waits for the  *)
(* tasks it needs, is offered, is taken by one worker that has no other,   *)
(* and is done for good, or goes back on offer with one failure more until *)
(* it is given up for good. OrchestrationBoard shows that the coordinator, *)
(* its store and its workers implement it.                                 *)
(***************************************************************************)
EXTENDS Naturals, FiniteSets

CONSTANTS Task, Worker,
          Limit,      \* the tasks worked on at a time
          Tries       \* the failures after which a task is given up

VARIABLES place,      \* where each task is
          needs,      \* the tasks it waits for
          holder,     \* the worker that has taken it, as a set
          failures    \* the failures counted against it

vars == <<place, needs, holder, failures>>

Place == {"absent", "waiting", "offered", "taken", "done", "given up"}

Taken == {t \in Task : place[t] = "taken"}

Init == /\ place = [t \in Task |-> "absent"]
        /\ needs = [t \in Task |-> {}]
        /\ holder = [t \in Task |-> {}]
        /\ failures = [t \in Task |-> 0]

\* The tasks it needs have been added before it.
Add(t) ==
  /\ place[t] = "absent"
  /\ \E D \in SUBSET {u \in Task : place[u] # "absent"} :
       /\ place' = [place EXCEPT ![t] = IF D = {} THEN "offered" ELSE "waiting"]
       /\ needs' = [needs EXCEPT ![t] = D]
  /\ UNCHANGED <<holder, failures>>

Take(t, w) ==
  /\ place[t] = "offered"
  /\ place' = [place EXCEPT ![t] = "taken"]
  /\ Cardinality(Taken) < Limit
  /\ \A u \in Task : w \notin holder[u]
  /\ holder' = [holder EXCEPT ![t] = {w}]
  /\ UNCHANGED <<needs, failures>>

\* A task is offered in the step that completes the last task it needs.
Finish(t) ==
  /\ place[t] = "taken"
  /\ LET done == [place EXCEPT ![t] = "done"]
     IN  place' = [u \in Task |-> IF /\ place[u] = "waiting"
                                     /\ \A v \in needs[u] : done[v] = "done"
                                  THEN "offered" ELSE done[u]]
  /\ holder' = [holder EXCEPT ![t] = {}]
  /\ UNCHANGED <<needs, failures>>

\* The failure of one attempt may be counted more than once.
Fail(t) ==
  /\ place[t] = "taken" \/ (place[t] = "offered" /\ failures[t] > 0)
  /\ place' = [place EXCEPT ![t] = IF failures[t] + 1 < Tries THEN "offered" ELSE "given up"]
  /\ failures' = [failures EXCEPT ![t] = @ + 1]
  /\ holder' = [holder EXCEPT ![t] = {}]
  /\ UNCHANGED needs

Next == \E t \in Task : \/ Add(t)
                        \/ \E w \in Worker : Take(t, w)
                        \/ Finish(t) \/ Fail(t)

Spec == Init /\ [][Next]_vars
=============================================================================
