SPECIFICATION FairSpec
CONSTANTS
  j1 = j1
  j2 = j2
  Job = {j1, j2}
  NoJob = NoJob
  Worker = {w1, w2}
  Rank <- MCRank
  AbsentOutcomes = {TRUE}
  MaxBacklog = 1
  BatchSize = 1
  AttemptLimit = 2
  MaxCrashes = 1
  MaxAmendments = 1
INVARIANT ReceiptsMatchOutcomes
PROPERTIES JobsEndOnce TriggerAdmits JobsAreDecided
