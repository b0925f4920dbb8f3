--------------------------- MODULE MCOrchestration ---------------------------
(* Model values and symmetry for checking Orchestration.                    *)
EXTENDS OrchestrationBoard, TLC

CONSTANTS t1, t2, t3, w1, w2, w3, c1, c2

OneTask == {t1}
TwoTasks == {t1, t2}
ThreeTasks == {t1, t2, t3}
OneWorker == {w1}
TwoWorkers == {w1, w2}
ThreeWorkers == {w1, w2, w3}
OneCoord == {c1}
TwoCoords == {c1, c2}

Symmetry == Permutations(Task) \cup Permutations(Worker)
=============================================================================
