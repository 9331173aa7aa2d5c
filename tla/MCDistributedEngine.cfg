SPECIFICATION FairSpec
CONSTANTS
  MaxWorkers = 2
  Regions = {"east", "west"}
  Calls = {c1, c2}
  NoCall = NoCall
  ScenarioLists <- MCScenarioLists
INVARIANTS
  TypeOK
  RunningIsBusy
  OneTaskAtATime
  PlanPartitions
  TasksCounted
PROPERTIES
  DroppedOnlyWhenBusy
  Returns
CHECK_DEADLOCK FALSE
