\* Schemas are uploaded, tested and reported on. A batch has 10 to 30
\* scenarios: the collection of 24 may hold less than one batch, or the end of
\* one and another.
SPECIFICATION MCSpec
CONSTANTS
  Files         <- MCFiles
  Replies       <- MCReplies
  Targets       <- MCTargets
  ProtocolFiles <- MCProtocolFiles
  IdLists       <- MCIdLists
  Slots         = {k1, k2}
  MaxDocs       = 24
  Persistent    = FALSE
  MaxUploads    = 2
  MaxSaves      = 6
  MaxDay        = 2
  FewSaves      = 4
  FewDays       = 1
INVARIANTS
  PipelineTypeOK
  EveryEndpointCovered
  ReportsAccount
  
  AnalyticsBalance
PROPERTIES
  ExecutionsAnswer
SYMMETRY SymmetricSlots
CHECK_DEADLOCK FALSE
