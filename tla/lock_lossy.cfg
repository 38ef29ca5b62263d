SPECIFICATION FairSpec
CONSTANTS
  m1 = m1
  m2 = m2
  Machines = {m1, m2}
  Keys = {k1}
  TracksOwners = TRUE
  MachineId <- DistinctIds
  MAXBLOCK = 2
  MaxVersion = 1
  Nested = FALSE
  Lossy = TRUE
  Restarts = FALSE
  MaxFailures = 1
INVARIANTS
  TypeOK
  MutualExclusion
  IInv
PROPERTY
  WrappersReturn
