SPECIFICATION Spec
CONSTANTS
  Ids = {i1, i2, i3, i4}
  Docs = {d1, d2}
  NoDoc = NoDoc
  NoCall = NoCall
  MaxSize = 3
  TTL = 1
SYMMETRY Alike
INVARIANTS
  TypeOK
  StampsMatch
  Bounded
  SweptOnUse
PROPERTIES
  NothingLostEarly
  ImplementsContract
