CONSTANTS
  Threads = {T1}
  Addr = {1, 2, 3}
  BpKinds <- MC_ArmKinds
  NumHw = 3
SPECIFICATION TableSpec
PROPERTY ResumePastHit
