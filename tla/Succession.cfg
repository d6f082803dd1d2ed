SPECIFICATION ClientsSpec
CONSTANTS
  Node = {n1, n2, n3}
  Command = {c1, c2}
  None = None
  SaveResults = {FALSE}
  MaxTerm = 3
  MaxLogLen = 1
  MaxRestarts = 0
  MaxMessages = 13
SYMMETRY Symmetry
INVARIANTS ElectionSafety LeaderCompleteness StateMachineSafety
