CONSTANTS
  m1 = m1
  m2 = m2
  Message = {m1}
  Hypothesis <- MCHypothesis
  HistoryLimit = 2
  Worker = {w1}
  Role = 2
  Tries = 2
  NoLead = NoLead
  NoResult = NoResult
  MaxCrashes = 1
  MaxRestarts = 0
  MaxFaults = 0
  MaxMishaps = 1
SPECIFICATION FairSpec
PROPERTY LeadsAreResolved
