SPECIFICATION Spec
CONSTANTS
  Machines = {m1, m2}
  Paths = {p1}
  Keys = {p1}
  Key <- MCKey
  Handles = {h1}
  Blocks = {b1, b2}
  Zero = Zero
  StatBlock = StatBlock
  None = None
  Link = Link
  Cleared = Cleared
  Threshold = 0
  MaxLen = 1
  MayGiveUp = TRUE
  Shared = FALSE
  MayTruncate = FALSE
  Faults = {"crash"}
  MaxFaults = 1
  MaxGrants = 2
SYMMETRY Symmetry
\* A name whose link is dangling on every machine is stuck: nothing can happen to it.
CHECK_DEADLOCK FALSE
PROPERTY
  ImplementsSessionStore
