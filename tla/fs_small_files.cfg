SPECIFICATION Spec
CONSTANTS
  Machines = {m1}
  Paths = {p1}
  Keys = {p1}
  Key <- MCKey
  Handles = {h1}
  Blocks = {b1}
  Zero = Zero
  StatBlock = StatBlock
  None = None
  Link = Link
  Cleared = Cleared
  Threshold = 1
  MaxLen = 2
  MayGiveUp = FALSE
  Shared = FALSE
  MayTruncate = FALSE
  Faults = {}
  MaxFaults = 0
  MaxGrants = 1
INVARIANT
  OpenDeliversFile
