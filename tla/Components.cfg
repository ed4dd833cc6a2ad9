SPECIFICATION Spec
CHECK_DEADLOCK FALSE
CONSTANTS
  Parts = {"governor", "routing", "reuse", "filing_change", "evidence", "sections", "novelty", "convergence", "financing", "accounting", "web", "predictions", "signals", "science", "measurements"}
  GovernorSensor = {"temperature"}
  MaxSwap = 1
  MaximumSwapGrowth = 1
  RecoveryRequired = 3
  ReuseVersion = {"v1", "v2"}
  ReuseCurrent <- MCReuseCurrent
  DeltaSelector = {"risk_factors", "liquidity"}
  DeltaText = {"short", "long"}
  DeltaSize <- MCDeltaSize
  DeltaBudget = 2
  ReuseMoment = {0, 1}
  FcFiling = {"a", "b", "c"}
  FcScenarios <- MCScenarios
  FcWorker = {w1, w2}
  NoPrior = NoPrior
  FcPriorLimit = 2
  FcCategory <- MCCategory
  MaxSelected = 1
  ExcerptSize = 2
  FcAttemptLimit = 2
  MaxFcClock = 2
  MaxFcLosses = 1
  TextLength = 7
  Spaces = {2, 5}
  HalfWindow = 1
  MaxWindows = 2
  Separator = 1
  EvidenceBudget = 4
  MaxCandidates = 3
  EvidenceLabel = {"financing", "controls"}
  MaxTokens = 5
  MinSection = 2
  MaxSection = 3
  NvFiling = {1, 2, 3, 4}
  NvEntities <- MCEntities
  NvFacts <- MCFacts
  NvWorker = {w1, w2}
  NvPriorLimit = 2
  MaxNvClock = 4
  MaxCvDay = 2
  CvShares = 2
  CvAttemptLimit = 2
  MaxCvCrash = 1
  FtLength = 12
  FtSpaces = {1, 5, 9}
  FtHalf = 4
  FtBudget = 12
  FtMaxExcerpts = 2
  FtMaxSignals = 1
  FtPhrase <- MCPhrase
  AcLength = 5
  AcLate = 2
  AcOpening = 1
  AcLookBack = 1
  AcLookAhead = 2
  AcWindow = 3
  AcMaxEvidence = 2
  AcBudget = 4
  AcDisclosed <- MCDisclosed
  AcWorker = {w1, w2}
  AcPriorLimit = 2
  MaxAcClock = 6
  WebThread = {th1, th2}
  WebClient = {"c1"}
  WebToken = {"t1"}
  WebNonce = {"n1", "n2"}
  WebIdle = 1
  WebAbsolute = 2
  NonceLife = 1
  LoginAttempts = 1
  LoginWindow = 1
  RequestLimit = 3
  MaxWebClock = 1
  MaxWebCrash = 1
  PdDraft <- MCDrafts
  PdHorizon = 2
  PdPrice <- MCPrice
  PdCash <- MCCash
  PdDescriptive = 1
  MaxPdDay = 3
  MaxPdOutcomes = 2
  MaxPdCorrections = 1
  SgOffer <- MCOffers
  SgAnalysis <- MCAnalyses
  SgEvidence <- MCSources
  SgAsOf = 0
  SgCutoff = 1
  MaxSgAnalyses = 2
  SciPlan = {"q1", "q2", "q3"}
  SciDue <- MCDue
  SciVersion <- MCVersion
  SciLock = 1
  MinimumSample = 2
  PowerSample = 2
  MaximumPlans = 3
  MaxSciClock = 2
  MaxSnapshots = 1
  MeFiling = {"f1"}
  MeWorker = {"w1"}
  MeEpoch = 1
  MeWindow = {1, 2}
  MeCadence = 2
  MeSensor = {TRUE}
  MeShort = {2}
  MaxMeClock = 3
  MaxMeCalls = 1
  MaxMeLineages = 1
  MaxMeSets = 2
INVARIANTS
  ComponentTypesOK
  AdmissionIsEarned
  RoutingIsJustified
  ReuseLosesNothing
  FilingChangesAreSound
  ShownEvidenceIsSound
  SectionsAreDisjoint
  NoveltyStands
  ConvergenceIsSound
  FinancingIsTraceable
  AccountingIsTraceable
  SessionsAreAccountedFor
  PredictionsAreAccountedFor
  SignalIsSupported
  ScienceIsSound
  
