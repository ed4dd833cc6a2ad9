SPECIFICATION FairSpec
CONSTANTS
  m1 = m1
  m2 = m2
  Message = {m1, m2}
  Hypothesis <- MCHypothesis
  HistoryLimit = 2
  Worker = {w1, w2}
  Role = 2
  Tries = 2
  NoLead = NoLead
  NoResult = NoResult
  MaxCrashes = 1
  MaxRestarts = 1
  MaxFaults = 1
  MaxMishaps = 1
INVARIANTS InvestigatedOnce DeliveriesFollowResults LineageStands InterruptedLeadsAreResolved
PROPERTIES AttemptsCloseOnce LeadsComeToAnEnd
