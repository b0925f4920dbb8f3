CONSTANTS
  Id = {a}
  MaxSessions = 2
  MaxInput = 2
  MaxNet = 1
  MaxLink = 2
SPECIFICATION FairSpec
CHECK_DEADLOCK FALSE
INVARIANTS TypeOK InputOrder NoOrphanChild ToldOnce OnlyRacesDisagree
PROPERTIES InputFlushed KillEnds
