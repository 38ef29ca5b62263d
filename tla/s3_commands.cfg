SPECIFICATION ProgramSpec
CONSTANTS
  None = None
  MaxRetries = 1
  MaxCommands = 1
  Keys <- MCKeys
  NullMarker = 1
  Bytes = {1, 2, 3}
  Files <- MCFiles
  Properties = {"private", "public"}
  BufferSize = 2
  PageSize = 2
  MaxKeys = 3
  MaxChanges = 1
  Stock <- MCStock
  OldFiles <- MCOldFiles
  Names <- MCNames
  Acls <- MCAcls
  MaxGrants = 2
  MaxAclCommands = 2
  MaxEdits = 2
  MixedEdits = 0
  BlockSize = 2
  Zero = 0
\* The commands of the bound are used up.
CHECK_DEADLOCK FALSE
INVARIANTS
  ProgramTypeOK
  GrowbufferHoldsRest
  GetDelivers
  ListsOnce
  ListNearLimit
  SetKeepsGrants
PROPERTIES
  ImplementsObjectStore
  CommandsEnd
