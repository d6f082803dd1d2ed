SPECIFICATION TimersSpec
CONSTANTS
  Node = {n1, n2, n3}
  Command = {c1}
  None = None
  SaveResults = {TRUE}
  MaxTerm = 2
  MaxLogLen = 1
  MaxRestarts = 0
  MaxMessages = 10
  TimerCapacity = 2
SYMMETRY Symmetry
CHECK_DEADLOCK FALSE
INVARIANTS OnlyLeadersRest
