SPECIFICATION ConvergenceSpec
CONSTANTS
  MaxCvDay = 2
  CvShares = 2
  CvAttemptLimit = 2
  MaxCvCrash = 1
INVARIANT PlannedSaleIsRetained
