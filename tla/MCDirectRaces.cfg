SPECIFICATION Spec
CONSTANTS
  n1 = n1
  n2 = n2
  u1 = u1
  u2 = u2
  Hashes = {}
  Corrupt = Corrupt
  Null = Null
  MaxRows = 2
  Names <- OneName
  Urls <- TwoUrls
  SizeOf <- Sizes21
  MaxBytes = 2
  MaxActive = 2
  GiveUpAfter = 2
  Requests <- ReAdd
  Feed <- NoFeed
  DbBlips = TRUE
  MaxCrashes = 0
  MaxToggles = 0
INVARIANT TypeOK
INVARIANT SingleLiveWriter
INVARIANT InstalledBytes
PROPERTY FollowsLifecycle
