SPECIFICATION Spec
CONSTANTS
  NumScenarios = 3
  Concurrency = 3
  MaxRetries = 1
  MaxBurst = 1
  Codes = {200}
  Workloads <- MCHealthyParallel
INVARIANT ParallelHealthyCompletes
