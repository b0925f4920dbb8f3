CONSTANTS
  Automation = {a}
  Period = 3
  Grace = 1
  Zone = {0, 1}
  MaxTime = 2
  MaxRuns = 2
  MaxEdits = 2
SPECIFICATION FairSpec
CHECK_DEADLOCK FALSE
INVARIANTS TypeOK OneRunPerOccurrence NoOccurrenceLost StartsOnce
PROPERTIES FinalStands DueIsHandled LaunchSettles
