SPECIFICATION MCSpec
CONSTANTS
  h1 = h1
  h2 = h2
  code = code
  added = added
  Absent = Absent
  Bad = Bad
  None = None
  Handlers <- MCHandlers
  Versions <- MCVersions
  Files <- MCFiles
  VersionFile = code
  ReleaseFiles <- MCReleaseFiles
  OpsOf <- AllOps
  MaxManual = 0
  Scopes <- Race
INVARIANTS
  StatusHonest
  OkMeansInstalled
  OnlyVerifiedCode
  FallbackHolds
  StartsOwnJob
