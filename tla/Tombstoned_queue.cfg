\* Four Java traces, two dump slots, named temporary files, failing unlink and linkat.
SPECIFICATION Spec
CONSTANTS
  c1 = c1 c2 = c2 c3 = c3 c4 = c4 i1 = i1 i2 = i2 p1 = p1
  Crashes = {c1, c2, c3, c4}
  Intercepts = {}
  Pids = {p1}
  InterceptPid <- InterceptPids
  InterceptType <- InterceptTypes
  NoIntercept = NoIntercept
  CrashType <- JavaType
  CrashPid <- OnePid
  PeerPid <- OnePid
  MaxArtifacts <- ThreeArtifacts
  MaxDumps <- TwoAnrDumps
  HasTmpfile = FALSE
  Faults = {"link", "unlink"}
  MaxClock = 0
  MaxRestarts = 0
  NoFile = NoFile NoQueue = NoQueue DevNull = DevNull
INVARIANTS DumpsCounted WaitsOnlyWhenFull OwnedOnce ArtifactsWhole
PROPERTY NoOvertaking
SYMMETRY CrashSymmetry
CHECK_DEADLOCK FALSE
