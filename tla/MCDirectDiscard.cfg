SPECIFICATION Spec
CONSTANTS
  n1 = n1
  n2 = n2
  u1 = u1
  u2 = u2
  Hashes = {}
  Corrupt = Corrupt
  Null = Null
  MaxRows = 2
  Names <- OneName
  Urls <- TwoUrls
  SizeOf <- Sizes2
  MaxBytes = 2
  MaxActive = 1
  GiveUpAfter = 1
  Requests <- ReAdd
  Feed <- NoFeed
  DbBlips = FALSE
  MaxCrashes = 0
  MaxToggles = 0
INVARIANT CompleteHasFile
