SPECIFICATION FairSpec
CONSTANTS
  Machines = {m1}
  Paths = {p1}
  Keys = {p1}
  Key <- MCKey
  Handles = {h1}
  Blocks = {b1}
  Zero = Zero
  StatBlock = StatBlock
  None = None
  Link = Link
  Cleared = Cleared
  Threshold = 1
  MaxLen = 2
  MayGiveUp = TRUE
  Shared = FALSE
  MayTruncate = TRUE
  Faults = {"crash", "open", "get", "put", "delete", "disk"}
  MaxFaults = 2
  MaxGrants = 2
\* A name that is a dangling link, or whose metadata was cut, is stuck.
CHECK_DEADLOCK FALSE
INVARIANTS
  CloudObjectsAreBig
PROPERTY
  HandlersFinish
