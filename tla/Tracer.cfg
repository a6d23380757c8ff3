CONSTANTS
  T1 = T1
  T2 = T2
  NoThread = NoThread
  ThreadList <- MC_ThreadList
  NumCode = 3
  WordLen = 2
  BpAddr = {0, 1}
  MaxSteps <- MC_MaxSteps
  ExitAddr = 2
  MaxSignals = 0
  SigTargets = {}
SPECIFICATION Spec
INVARIANTS
  TypeOK
  ArmedWhileRunning
  StepOverNotAbsorbed
PROPERTIES
  StoppedAndCached
  RestoredOnReturn
  EntryPointsReturn
CHECK_DEADLOCK FALSE
