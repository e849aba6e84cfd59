CONSTANTS
  Threads = {1, 2, 3}
  Targets = {1, 2}
  Exiting = {3}
  Debugged = {3}
  Dumps = {1, 2}
  MaxSignals = 2
  MaxLoad = 4
  Fds = {1, 2}
SPECIFICATION Spec
INVARIANT ThreadInfoOutlivesPseudothread
INVARIANT RequestsDoNotKill
INVARIANT HandOverSound
PROPERTY StoppedForSnapshot
PROPERTY DumpBeforeDeath
PROPERTY HandlersFinish
