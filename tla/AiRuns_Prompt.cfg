SPECIFICATION FairSpec
CONSTANTS
  Workers = {w1, w2}
  Runs = {r1}
  Labels = {l1}
  MaxAttempts = 2
  Cancellable = {r1}
  Prompt = TRUE
  MaxCrashes = 1
  None = None
INVARIANTS
  ClaimsExclusive
PROPERTIES
  ResultByHolder
  ImplementsLeasedWork
  EveryRunEnds
