SPECIFICATION FairSpec
CONSTANTS
  f1 = f1
  f2 = f2
  Filing <- MCFiling
  NoFiling = NoFiling
  Worker = {w1}
  Seniority <- MCSeniority
  Focus <- MCFocus
  VerifierModes = {TRUE, FALSE}
  BatchSize = 1
  ModelLimit = 2
  AttemptLimit = 3
  MaxCrashes = 1
  MaxStoreFaults = 0
INVARIANTS TypeOK HolderOwnsRow
PROPERTY EveryFilingDecided
