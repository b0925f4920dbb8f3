CONSTANTS
  t1 = t1
  t2 = t2
  t3 = t3
  w1 = w1
  w2 = w2
  w3 = w3
  c1 = c1
  c2 = c2
  Nobody = Nobody
  Task <- TwoTasks
  Worker <- TwoWorkers
  Coord <- OneCoord
  MaxConcurrent = 1
  MaxCtx = 2
  MaxGates = 1
  MaxInbox = 1
  MaxFails = 2
  Ops = {"worker_done", "escalation", "exit", "run-stop", "gate-create", "gate-resolve", "decision_gate"}
  ManualStatuses = {}
SPECIFICATION Spec
SYMMETRY Symmetry
CHECK_DEADLOCK FALSE
INVARIANTS GateHoldsTask BlockedHasNoWorker
