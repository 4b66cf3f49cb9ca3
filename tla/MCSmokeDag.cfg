SPECIFICATION FairSpec
CONSTANTS
  tier = tier
  trigger = trigger
  Tasks = {tier, trigger}
  MaxClock = 3
INVARIANTS TypeOK ReaderSeesItsOwnRun NobodyFailsUnhurt
PROPERTIES PromiseKept TasksEnd
CHECK_DEADLOCK FALSE
