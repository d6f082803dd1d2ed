SPECIFICATION ClientsSpec
CONSTANTS
  Node = {n1, n2, n3}
  Command = {c1}
  None = None
  SaveResults = {TRUE}
  MaxTerm = 2
  MaxLogLen = 2
  MaxRestarts = 1
  MaxMessages = 12
SYMMETRY Symmetry
INVARIANTS TypeOK ElectionSafety DurableVotes ElectionInv LogContiguous LogMatching CommittedOnQuorum LeaderCompleteness AppliedIsDurable WaitingLed
PROPERTIES CommitNeverRegresses LeaderAppendOnly
