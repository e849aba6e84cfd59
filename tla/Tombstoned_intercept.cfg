\* Two interceptors of one pid, and two dumps that compete for one slot.
SPECIFICATION FairSpec
CONSTANTS
  c1 = c1 c2 = c2 c3 = c3 c4 = c4 i1 = i1 i2 = i2 p1 = p1
  Crashes = {c1, c2}
  Intercepts = {i1, i2}
  Pids = {p1}
  InterceptPid <- InterceptPids
  InterceptType <- InterceptTypes
  NoIntercept = NoIntercept
  CrashType <- MixedType
  CrashPid <- OnePid
  PeerPid <- OnePid
  MaxArtifacts <- TwoArtifacts
  MaxDumps <- OneDump
  HasTmpfile = TRUE
  Faults = {}
  MaxClock = 0
  MaxRestarts = 1
  NoFile = NoFile NoQueue = NoQueue DevNull = DevNull
INVARIANTS CloseFindsIntercept InterceptDelivered
PROPERTY DumperAnswered
CHECK_DEADLOCK FALSE
