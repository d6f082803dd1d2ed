SPECIFICATION TimersSpec
CONSTANTS
  Node = {n1, n2}
  Command = {c1}
  None = None
  SaveResults = {TRUE}
  MaxTerm = 2
  MaxLogLen = 1
  MaxRestarts = 1
  MaxMessages = 40
  TimerCapacity = 1
CHECK_DEADLOCK FALSE
INVARIANTS ActiveRolesKeepTimer SomeoneCanStand
PROPERTIES StableLeaderCommits StableLeaderReplicates
