SPECIFICATION Spec
CONSTANTS
  n1 = n1
  n2 = n2
  u1 = u1
  u2 = u2
  Hashes = {}
  Corrupt = Corrupt
  Null = Null
  MaxRows = 2
  Names <- TwoNames
  Urls <- TwoUrls
  SizeOf <- Sizes1
  MaxBytes = 1
  MaxActive = 1
  GiveUpAfter = 2
  Requests <- Unrelated
  Feed <- NoFeed
  DbBlips = FALSE
  MaxCrashes = 2
  MaxToggles = 1
INVARIANT NoStuckRow
INVARIANT BudgetRespected
PROPERTY ResumeSurvivesRestart
CONSTRAINT Disturbances
