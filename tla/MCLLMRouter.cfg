SPECIFICATION RouterSpec
CONSTANTS
  Calls = {c1, c2}
  Prompts <- MCPrompts
  Keys <- MCKeys
  Threads = 1
  FailureThreshold = 3
  ResetTimeout = 2
  CacheTTL = 1
  NoAnswer = NoAnswer
  NoAsk = NoAsk
INVARIANT RouterTypeOK
PROPERTIES
  OpenRefuses
  AnswersFit
  EveryRouteAnswers
