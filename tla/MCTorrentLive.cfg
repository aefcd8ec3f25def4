SPECIFICATION FairSpec
CONSTANTS
  n1 = n1
  n2 = n2
  f1 = f1
  f2 = f2
  u1 = u1
  u2 = u2
  a1 = a1
  a2 = a2
  h1 = h1
  h2 = h2
  Corrupt = Corrupt
  Null = Null
  MaxRows = 1
  Names <- MCNames
  Urls <- MCUrls
  Hashes <- MCHashes
  HashOf <- MCHashOf
  NameOf <- SameName
  FileOf <- OneFile
  AdoptUrl <- MCAdoptUrl
  Requests <- OneDownload
  MaxActive = 1
  KeepCompleted = TRUE
  MaxFaults = 1
  MaxCrashes = 1
  MaxMeddling = 1
  MaxToggles = 2
PROPERTY Attended
PROPERTY CancelledLetsGo
