CONSTANTS
  MaxPublications = 2
  Mapped = {2}
  Horizon = {1, 5}
  CloseRank <- MCCloseRank
  Worker = {w1}
  NoPlan = NoPlan
  NoOutcome = NoOutcome
  Limit = 1
  BatchSize = 1
  AttemptLimit = 2
  MaxCrashes = 0
  MaxSlow = 0
SPECIFICATION FairSpec
PROPERTY EveryDossierEnrolled
