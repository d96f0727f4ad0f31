SPECIFICATION WorkspaceSpec
CONSTANTS
  Themes = {"editor"}
  Tabs = {t1, t2}
  t1 = t1
  t2 = t2
  Parts = {x, y}
  x = x
  y = y
  Calls = {c1, c2}
  Scopes <- MCFaultScopes
  MaxEdits = 2
  MaxSaves = 2
  MaxDrafts = 2
  NoTab = NoTab
  NoEdit = NoEdit
  Unset = Unset
  NoCall = NoCall
  NoDraft = NoDraft
  Ids = {1, 2, 3, 4}
  FolderIds = {1, 2, 3}
  Root = 0
  TrashOps = {o1, o2}
  NoTrash = "no trash"
  MaxName = 5
  MaxMoment = 2
  Principals = {"p", "g"}
  TreeRequests = {"r"}
  PageLimit = 1
  Trees <- MCTrees
  Requests = {"r1", "r2"}
  Old = "old"
  Jobs <- MCJobs
  Wanted <- MCWanted
  OtherName <- MCOtherName
  MaxTries = 3
  Corpus = {1, 2, 3}
  Commands = {a, b}
  BatchLimit = 1
  MaxContent = 2
  Corpora <- MCCorpora
  Formula = "formula"
  NoBody = "no body"
  NoFrame = "no frame"
  NoText = "no text"
  Candidates <- MCCandidates
  ValidTexts <- MCValidTexts
  OfficeFiles <- MCOfficeFiles
  OfficeFormats = {"TEXT"}
  CsvFields <- MCCsvFields
  Contents <- MCContents
  PatchScope = "plain"
  Readers = {q1, q2}
  Sizes <- MCSizes
  MaxVersion = 3
  WholeFile = WholeFile
  RangeHeaders <- MCRangeHeaders
  Scenes <- MCScenes
  Picked = {1, 2, 3}
  Senders = {w1, w2}
  NoUpload = 0
  Selections <- MCSelections
  MaxExpiries = 1
SYMMETRY WorkspaceSymmetry
INVARIANTS SavedMeansStored
CHECK_DEADLOCK FALSE
