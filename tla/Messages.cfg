CONSTANTS
  h1 = h1
  h2 = h2
  Nobody = Nobody
  Handle <- TwoHandles
  Terminal <- OneTerminal
  Sender <- JustNobody
  MaxCalls = 2
  Filters <- OneFilter
  MaxMsg = 2
  MaxEnter = 2
SPECIFICATION FairSpec
CHECK_DEADLOCK FALSE
INVARIANTS TypeOK StampedWasEntered ReadOnce NoLostWakeup AskGetsItsAnswer
PROPERTIES WaitEnds Delivered
