\* What two reports share is told by the type of a finding alone.
SPECIFICATION MCSpec
CONSTANTS
  Files         <- MCFiles
  Replies       <- MCReplies
  Targets       <- MCTargets
  ProtocolFiles <- MCProtocolFiles
  IdLists       <- MCIdLists
  Slots         = {k1, k2}
  MaxDocs       = 24
  Persistent    = FALSE
  MaxUploads    = 1
  MaxSaves      = 5
  MaxDay        = 1
  FewSaves      = 5
  FewDays       = 1
INVARIANT
  NewFindingsCounted
SYMMETRY SymmetricSlots
CHECK_DEADLOCK FALSE
