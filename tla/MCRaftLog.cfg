SPECIFICATION Spec
CONSTANTS
  MaxLen = 3
  MaxTerm = 2
  Command = {c1, c2}
INVARIANTS ReconcileCopiesSender MessageCarriesRest CommitRuleIsLoop ApplyIsLoop
