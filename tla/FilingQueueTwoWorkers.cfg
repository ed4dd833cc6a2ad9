SPECIFICATION Spec
CONSTANTS
  f1 = f1
  f2 = f2
  Filing = {f1}
  NoFiling = NoFiling
  Worker = {w1, w2}
  Seniority <- MCSeniority
  Focus <- MCFocus
  VerifierModes = {TRUE, FALSE}
  BatchSize = 1
  ModelLimit = 2
  AttemptLimit = 3
  MaxCrashes = 1
  MaxStoreFaults = 1
INVARIANT LedgersAgree
PROPERTY DecidedOnce
