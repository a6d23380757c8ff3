CONSTANTS
  T1 = T1
  T2 = T2
  NoThread = NoThread
  ThreadList <- MC_ThreadList
  NumCode = 3
  WordLen = 2
  BpAddr = {1}
  MaxSteps <- MC_MaxStepsSig
  ExitAddr = 2
  MaxSignals = 1
  SigTargets = {T1, T2}
SPECIFICATION Spec
INVARIANT ReportedSignalDelivered
PROPERTIES
  EntryPointsReturn
CHECK_DEADLOCK FALSE
