\* Four native crashes, one tombstone slot, two artifacts, one restart.
SPECIFICATION Spec
CONSTANTS
  c1 = c1 c2 = c2 c3 = c3 c4 = c4 i1 = i1 i2 = i2 p1 = p1
  Crashes = {c1, c2, c3, c4}
  Intercepts = {}
  Pids = {p1}
  InterceptPid <- InterceptPids
  InterceptType <- InterceptTypes
  NoIntercept = NoIntercept
  CrashType <- NativeType
  CrashPid <- OnePid
  PeerPid <- OnePid
  MaxArtifacts <- TwoArtifacts
  MaxDumps <- OneDump
  HasTmpfile = TRUE
  Faults = {}
  MaxClock = 2
  MaxRestarts = 1
  NoFile = NoFile NoQueue = NoQueue DevNull = DevNull
PROPERTY OverwritesOldest
SYMMETRY CrashSymmetry
CHECK_DEADLOCK FALSE
