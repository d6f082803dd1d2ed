SPECIFICATION Spec
CONSTANTS
  Node = {n1, n2, n3}
  Command = {c1}
  None = None
  SaveResults = {TRUE}
  MaxTerm = 2
  MaxLogLen = 1
  MaxRestarts = 0
  MaxMessages = 14
SYMMETRY Symmetry
INVARIANTS MatchIndexSound
