SPECIFICATION Spec
CONSTANTS
  MaxWorkers = 2
  Regions = {"east"}
  Calls = {c1, c2}
  NoCall = NoCall
  ScenarioLists <- MCScenarioLists
INVARIANT
  AllScenariosExecuted
CHECK_DEADLOCK FALSE
