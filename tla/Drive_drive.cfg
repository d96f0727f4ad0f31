SPECIFICATION FairDriveSpec
CONSTANTS
  Targets = {"main", "other"}
  SubFolders = {"sub"}
  DriveFiles = {"plan", "new"}
  Place <- MCPlace
  Unborn = {"new"}
  FirstFolder = "main"
  Syncs = {1, 2}
  Nowhere = "nowhere"
  PageSize = 1
  Keys <- MCKeys
  NativeKeys = {"native"}
  CreationRequests <- MCRequests
  KeyOf <- MCKeyOf
  BytesOf <- MCBytesOf
  FileName <- MCFileName
  Candidates <- MCCandidates
  NoName = "no name"
  NoBytes = "no bytes"
  MaxFaults = 2
  ChunkSize = 3
  MaxNoProgress = 3
  Operators = {"a", "b"}
  MaxVersion = 2
  MaxObjects = 4
  NoOperator = "no one"
  Lengths = {0, 1, 2, 3, 4, 5, 6, 7}
  Themes = {"catalog", "registration", "upload", "migration"}
  Budgets <- MCBudgets
  Troubles <- MCTroubles
INVARIANTS
  DriveTypesOK LockIsSound RegistrationIsExact FileIsSource ObjectsAreTracked
PROPERTIES
  SweepIsExact BackingFollowsVersion WorkEnds
CHECK_DEADLOCK FALSE
