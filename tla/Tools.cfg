SPECIFICATION Spec
CONSTANTS
  MaxRead <- Lengths
  EntriesOf <- Logs
  TargetOf <- Triples
  Cxx = {"g++"}
  LangOf <- Languages
  Listed <- FromFile
  NoLang = "none"
  Analyzer = {"sa", "tidy"}
  AnalyzerOf <- CheckerAnalyzer
  Under <- BeginningWith
  Profile <- Profiles
  Guarded = {"alpha.X"}
  MaxOptions = 3
  Unit = {1, 2, 3, 4}
  SourceOf <- UnitSource
  ArchOf <- UnitArch
  Skips <- SomeSkips
  Builds <- SomeBuilds
  PoolSize = 2
  MaxCollects = 2
  MaxBroken = 1
  NoMap = NoMap
  MaxLines = 6
  MaxFound = 4
  Report = {"r1", "r2", "r3"}
  HashOfReport <- ReportHash
  BaseOfReport <- ReportBase
  CheckerOfReport <- ReportChecker
  PathOfReport <- ReportPath
  SkipLists <- SkipFiles
  Comments <- CommentBlocks
  Edits <- HandWritten
  MaxParses = 2
  MaxEdits = 1
  NoSuppressFile = NoSuppressFile
CHECK_DEADLOCK FALSE
INVARIANTS
  
  CheckersChosen
  
  
