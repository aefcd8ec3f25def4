SPECIFICATION Spec
CONSTANTS
  n1 = n1
  n2 = n2
  f1 = f1
  f2 = f2
  u1 = u1
  u2 = u2
  a1 = a1
  a2 = a2
  h1 = h1
  h2 = h2
  Corrupt = Corrupt
  Null = Null
  MaxRows = 2
  Names <- MCNames
  Urls <- MCUrls
  Hashes <- MCHashes
  HashOf <- MCHashOf
  NameOf <- SameName
  FileOf <- OneFile
  AdoptUrl <- MCAdoptUrl
  Requests <- TwoDownloads
  MaxActive = 1
  KeepCompleted = FALSE
  MaxFaults = 1
  MaxCrashes = 1
  MaxMeddling = 0
  MaxToggles = 0
INVARIANT TorrentTypeOK
INVARIANT OneOwnerPerFile
 
 
PROPERTY FollowsLifecycle
