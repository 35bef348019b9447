CONSTANTS
  Parts = {"place"}
  JobRows = {"a", "b"}
  Imports = {"d1", "d2"}
  BookFiles = {"epub1", "mobi1", "epub2"}
  DlOf <- MCDlOf
  BookOf <- MCBookOf
  StemOf <- MCStemOf
  MaxSuffix = 2
  MaxFailures = 2
  Items = {"x", "y"}
  Actors = {"p", "q"}
  Tokens = {"t1", "t2", "t3", "t4"}
  MaxPending = 1
  MaxEvents = 2
  Legs = {"l1", "l2"}
  DailyLimit = 2
  Window = 1
  LastHour = 2
  Ladder <- MCLadder
  ReadsFail = FALSE
  MaxMishaps = 2
  Files = {"epub", "mobi", "m4b"}
  KindOf <- MCKindOf
  Rank <- MCRank
  Workers = {"w1", "w2", "w3"}
  Attempts = 2
  MaxEdits = 1
  Audios = {"a1", "a2"}
  Tracks = {"cd1", "cd2", "cd3"}
  AudioOf <- MCAudioOf
  AudioBook <- MCAudioBook
  HomeNames = {"h1", "h2"}
  EbookOf <- MCEbookOf
  Layouts <- MCLayouts
  MaxTwin = 3
  MaxBreaks = 2
SPECIFICATION SharedSpec
CHECK_DEADLOCK FALSE
INVARIANT ImportedIsComplete
