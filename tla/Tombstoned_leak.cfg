\* Named temporary files and dumpers that die or time out.
SPECIFICATION Spec
CONSTANTS
  c1 = c1 c2 = c2 c3 = c3 c4 = c4 i1 = i1 i2 = i2 p1 = p1
  Crashes = {c1, c2}
  Intercepts = {}
  Pids = {p1}
  InterceptPid <- InterceptPids
  InterceptType <- InterceptTypes
  NoIntercept = NoIntercept
  CrashType <- NativeType
  CrashPid <- OnePid
  PeerPid <- OnePid
  MaxArtifacts <- TwoArtifacts
  MaxDumps <- OneDump
  HasTmpfile = FALSE
  Faults = {}
  MaxClock = 0
  MaxRestarts = 0
  NoFile = NoFile NoQueue = NoQueue DevNull = DevNull
INVARIANT TemporariesCleaned
CHECK_DEADLOCK FALSE
