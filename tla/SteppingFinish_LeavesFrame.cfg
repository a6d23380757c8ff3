CONSTANTS
  NumCode = 7
  Insn <- MC_Insn
  Entry = 0
  BpAddr = {1, 3, 4, 5}
SPECIFICATION Spec

PROPERTY FinishLeavesFrame
