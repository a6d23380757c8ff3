CONSTANTS
  T1 = T1
  T2 = T2
  Threads = {T1}
  Addr = {1, 2, 3, 4}
  BpKinds <- MC_BpKinds
SPECIFICATION TableSpec
INVARIANT TypeOK SlotForEveryEnabled
PROPERTY HwSpec
