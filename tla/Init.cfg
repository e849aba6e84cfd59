SPECIFICATION Spec
CONSTANTS
  ServiceList <- MCServiceList
  Oneshot = {"o", "f", "t"}
  RcDisabled = {"c"}
  Critical = {"a"}
  OnFailure = {"f", "m"}
  Updatable = {"o"}
  Missing = {"m"}
  Temporary = {"t"}
  Main = {"a", "o"}
  ShutdownCritical = {"c"}
  SvcProp <- MCSvcProp
  CrashLimit = 1
  ActionList <- MCActionList
  Script <- MCScript
  OnRestart <- MCOnRestart
  Timed = {"o"}
  Props <- MCProps
  Requests <- MCRequests
  MaxEvents = 3
  KillAfterApps = {"a"}
CHECK_DEADLOCK FALSE
INVARIANT ServicesConsistent
INVARIANT NoChangeMissed
INVARIANT QueueSound
INVARIANT OnlyNeededAtUmount
INVARIANT FsckNotInterrupted
 
PROPERTY StartTakesEffect
PROPERTY Settles
