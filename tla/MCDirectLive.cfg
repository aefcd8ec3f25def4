SPECIFICATION FairSpec
CONSTANTS
  n1 = n1
  n2 = n2
  u1 = u1
  u2 = u2
  Hashes = {}
  Corrupt = Corrupt
  Null = Null
  MaxRows = 2
  Names <- TwoNames
  Urls <- TwoUrls
  SizeOf <- Sizes1
  MaxBytes = 1
  MaxActive = 1
  GiveUpAfter = 2
  Requests <- NoRequests
  Feed <- Announced
  DbBlips = FALSE
  MaxCrashes = 0
  MaxToggles = 0
INVARIANT FeedInstallsOnce
 
