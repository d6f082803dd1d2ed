SPECIFICATION ConsoleSpec
CONSTANTS
  Task = {t1, t2}
  MaxTime = 1
  MaxStep = 2
  Node = {1, 2}
  Capacity = 1
  ClientCapacity = 1
  MaxDrop = 2
  MaxLatency = 1
  MaxText = 1
  MaxIncarnation = 2
  MaxSends = 2
  MaxKeys = 3
CHECK_DEADLOCK FALSE
INVARIANTS NoStaleDelivery AliveIsReachable CommandsHaveKeys
PROPERTIES SleepEnds KilledFallsSilent TypingIsHarmless
