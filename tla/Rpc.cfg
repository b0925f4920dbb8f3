CONSTANTS
  t1 = t1
  t2 = t2
  t3 = t3
  w1 = w1
  w2 = w2
  w3 = w3
  c1 = c1
  c2 = c2
  Nobody = Nobody
  Task <- TwoTasks
  Worker <- TwoWorkers
  Coord <- TwoCoords
  MaxConcurrent = 1
  MaxCtx = 2
  MaxGates = 0
  MaxInbox = 1
  MaxFails = 2
  Ops = {"dispatch", "run-stop", "malformed", "worker_done", "escalation", "exit", "check"}
  ManualStatuses = {}
SPECIFICATION Spec
SYMMETRY Symmetry
CHECK_DEADLOCK FALSE
INVARIANTS OwnLimit DispatchedHasActiveContext NoOrphanedDispatch OneLoop RunIsStoppable
PROPERTIES CompletionAuthority
