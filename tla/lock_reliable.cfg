SPECIFICATION Spec
CONSTANTS
  m1 = m1
  m2 = m2
  Machines = {m1, m2}
  Keys = {k1, k2}
  TracksOwners = FALSE
  MachineId <- HardCodedId
  MAXBLOCK = 2
  MaxVersion = 1
  Nested = FALSE
  Lossy = FALSE
  Restarts = TRUE
  MaxFailures = 1
INVARIANTS
  MutualExclusion
  LocksMatchSessions
