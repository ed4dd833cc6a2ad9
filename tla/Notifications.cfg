CONSTANTS
  MaxBriefs = 2
  NoOutcome = NoOutcome
  Worker = {w1, w2}
  Limit = 2
  MaxAttempts = 2
  MaxCrashes = 1
  MaxFaults = 1
SPECIFICATION FairSpec
INVARIANT PostedOncePerProcess
PROPERTIES SettledStaysQuiet BriefsAreNotified
