SPECIFICATION Spec
CONSTANTS
  Machines = {m1}
  Paths = {p1, p2}
  Keys = {p1, p2}
  Key <- MCKey
  Handles = {h1, h2}
  Blocks = {b1, b2}
  Zero = Zero
  StatBlock = StatBlock
  None = None
  Link = Link
  Cleared = Cleared
  Threshold = 0
  MaxLen = 2
  MayGiveUp = FALSE
  Shared = FALSE
  MayTruncate = FALSE
  Faults = {}
  MaxFaults = 0
  MaxGrants = 1
SYMMETRY Symmetry
INVARIANTS
  TypeOK
  GetattrTruthful
  OpenDeliversFile
  MetadataMatchesCloud
  BigFilesOffSSD
PROPERTY
  ImplementsSessionStore
