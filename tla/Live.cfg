CONSTANTS
  t1 = t1
  t2 = t2
  t3 = t3
  w1 = w1
  w2 = w2
  w3 = w3
  c1 = c1
  c2 = c2
  Nobody = Nobody
  Task <- TwoTasks
  Worker <- OneWorker
  Coord <- OneCoord
  MaxConcurrent = 1
  MaxCtx = 6
  MaxGates = 0
  MaxInbox = 1
  MaxFails = 3
  Ops = {"worker_done", "escalation", "run-stop"}
  ManualStatuses = {}
SPECIFICATION FairSpec
CHECK_DEADLOCK FALSE
PROPERTIES StopEndsRun WorkRunsOut
