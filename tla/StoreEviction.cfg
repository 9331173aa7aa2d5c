SPECIFICATION Spec
CONSTANTS
  Ids = {i1, i2, i3}
  Docs = {d1, d2}
  NoDoc = NoDoc
  NoCall = NoCall
  MaxSize = 2
  TTL = 1
PROPERTY
  JustUsedStays
