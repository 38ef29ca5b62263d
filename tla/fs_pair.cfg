SPECIFICATION Spec
CONSTANTS
  Machines = {m1, m2}
  Paths = {p1}
  Keys = {p1}
  Key <- MCKey
  Handles = {h1}
  Blocks = {b1, b2}
  Zero = Zero
  StatBlock = StatBlock
  None = None
  Link = Link
  Cleared = Cleared
  Threshold = 0
  MaxLen = 2
  MayGiveUp = FALSE
  Shared = FALSE
  MayTruncate = FALSE
  Faults = {}
  MaxFaults = 0
  MaxGrants = 2
SYMMETRY Symmetry
INVARIANTS
  CloudHoldsFileData
  PublishersAreCurrent
PROPERTY
  ImplementsSessionStore
