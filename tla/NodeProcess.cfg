SPECIFICATION Spec
CONSTANTS
  Peer = {p1}
  Key = {k1, k2}
  Value = {v1}
  MESSAGE_LOG_CAP = 1
  Faults = {"write", "rename"}
  MaxVersion = 2
  MaxLogLen = 2
  MaxStarts = 2
CHECK_DEADLOCK FALSE
SYMMETRY Symmetry
INVARIANTS TypeOK NeverCorrupt PromisesKept ShownWasDone StoreIsLastWrite
PROPERTIES ImplementsStableStore
