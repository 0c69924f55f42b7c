SPECIFICATION Spec
CONSTANTS
  a1 = a1
  a2 = a2
  w1 = w1
  w2 = w2
  Actions = {a1, a2}
  Analyzers = {"clangsa", "clang-tidy"}
  Converters = {"clang-tidy"}
  Workers = {w1, w2}
  Names = {"main", "my main"}
  Spaced = {"my main"}
  MaxAnalyses = 2
  MaxJobs = 2
  MaxRev = 1
  None = None
SYMMETRY Symmetry
CHECK_DEADLOCK FALSE
INVARIANTS
  ResultsAreRight
  DirectoryAgrees
PROPERTIES
  NamesStay
