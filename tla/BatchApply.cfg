SPECIFICATION ClientsSpec
CONSTANTS
  Node = {n1, n2, n3}
  Command = {c1}
  None = None
  SaveResults = {TRUE}
  MaxTerm = 1
  MaxLogLen = 2
  MaxRestarts = 0
  MaxMessages = 10
SYMMETRY Symmetry
INVARIANTS NoOneForgotten
