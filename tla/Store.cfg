CONSTANTS
  t1 = t1
  t2 = t2
  t3 = t3
  w1 = w1
  w2 = w2
  w3 = w3
  c1 = c1
  c2 = c2
  Nobody = Nobody
  Task <- OneTask
  Worker <- TwoWorkers
  Coord <- OneCoord
  MaxConcurrent = 1
  MaxCtx = 2
  MaxGates = 1
  MaxInbox = 1
  MaxFails = 1
  Ops = {"task-create-late", "task-update", "dispatch", "dispatch-manual", "gate-create", "gate-resolve", "reset", "reset-messages", "run-stop", "worker_done", "escalation", "decision_gate", "malformed", "check", "exit", "exit-headless", "restart", "torn-write"}
  ManualStatuses = {"completed"}
SPECIFICATION Spec
SYMMETRY Symmetry
CHECK_DEADLOCK FALSE
INVARIANTS TypeOK TerminalExclusive
