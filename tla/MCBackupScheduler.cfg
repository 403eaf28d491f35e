\* Two schedules, the moments 0 to 3, any order of starts, stops and changes.
SPECIFICATION FairSchedulerSpec
CONSTANTS
  Ids = {daily, weekly}
  MaxTime = 3
  Never = Never
INVARIANTS SleepsTowardsEarliest
PROPERTIES  StopReturns
