SPECIFICATION Spec
CONSTANTS
  Root = Root
  a = a
  a_b = a_b
  aplusb = aplusb
  akey = akey
  Dirs = {a}
  Files = {a_b, aplusb}
  Parent <- MCParent
  Keys = {akey}
  Key <- MCKey
  Handles = {h1, h2}
  DirHandles = {d1}
  None = None
  Link = Link
  Hidden = Hidden
  Metadata = Metadata
  LostFound = LostFound
  MaxLost = 2
SYMMETRY Symmetry
INVARIANTS
  TypeOK
  ProxyShowsLastWriter
  ObjectsCanBeRemoved
  OnlyRemovedFilesStay
  ListingIsOfThisDirectory
  LocksAreAccountedFor
