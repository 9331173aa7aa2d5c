SPECIFICATION FairSpec
CONSTANTS
  NumScenarios = 2
  Concurrency = 2
  MaxRetries = 1
  MaxBurst = 3
  Codes = {200, 429}
  Workloads <- MCWorkloads
INVARIANTS
  TypeOK
  PermitsConserved
  BurstPaced
  VerdictJustified
  OneOpenClient
  LossesBounded
  HealthyCompletes
PROPERTIES
  ImplementsContract
  Termination
