SPECIFICATION MCFairSpec
CONSTANTS
  h1 = h1
  h2 = h2
  code = code
  added = added
  Absent = Absent
  Bad = Bad
  None = None
  Handlers <- MCHandlers
  Versions <- MCVersions
  Files <- MCFiles
  VersionFile = code
  ReleaseFiles <- MCReleaseFiles
  OpsOf <- AllOps
  MaxManual = 1
  Scopes <- LaunchOrSnapshots
INVARIANTS
  SetupOnWholeTree
PROPERTIES
  RunnerGoes
