SPECIFICATION ClientsSpec
CONSTANTS
  Node = {n1}
  Command = {c1, c2}
  None = None
  SaveResults = {TRUE}
  MaxTerm = 3
  MaxLogLen = 3
  MaxRestarts = 2
  MaxMessages = 0
SYMMETRY Symmetry
INVARIANTS NoOneForgotten AppliedIsTrue StateMachineSafety
