CONSTANTS
  MaxPublications = 2
  Mapped = {2}
  Horizon = {1, 5}
  CloseRank <- MCCloseRank
  Worker = {w1, w2}
  NoPlan = NoPlan
  NoOutcome = NoOutcome
  Limit = 2
  BatchSize = 1
  AttemptLimit = 2
  MaxCrashes = 1
  MaxSlow = 1
SPECIFICATION FairSpec
INVARIANTS AttemptsAreGapFree OutcomeRetainsAttempts
PROPERTIES PlansEndOnce OutcomesAreFinal PlansAreEvaluated EnrolledUnlessCrowdedOut
