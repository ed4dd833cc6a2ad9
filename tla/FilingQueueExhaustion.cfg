SPECIFICATION Spec
CONSTANTS
  f1 = f1
  f2 = f2
  Filing = {f1}
  NoFiling = NoFiling
  Worker = {w1}
  Seniority <- MCSeniority
  Focus <- MCFocus
  VerifierModes = {TRUE}
  BatchSize = 1
  ModelLimit = 3
  AttemptLimit = 6
  MaxCrashes = 1
  MaxStoreFaults = 0
INVARIANT ExhaustionIsDecided
