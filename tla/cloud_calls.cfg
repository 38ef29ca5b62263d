SPECIFICATION Spec
CONSTANTS
  Keys <- MCKeys
  NullMarker = 1
  Data = {d1}
  None = None
  MaxLen = 3
  BufferSize = 2
  PageSize = 2
  MaxChanges = 2
INVARIANTS
  TypeOK
  GetsWhole
  ListsExactly
PROPERTY
  PutsWhole
