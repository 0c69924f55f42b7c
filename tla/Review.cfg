SPECIFICATION Spec
CONSTANTS
  Run = {1, 2}
  Hash = {"h1", "h2"}
  Path = {1, 2}
  FileOf <- Files
  CheckerOf <- Checkers
  MessageOf <- Checkers
  SeverityOf <- Severities
  Unset = Unset
  None = None
  User = {"ann", "Anonymous"}
  Message = {"source", "m"}
  Tag = {"v1"}
  Request = {1, 2}
  MaxQuerySize = 2
  Asked <- Questions
  Bounds <- AllBounds
CHECK_DEADLOCK FALSE
INVARIANTS
  AnswersAreRight
  
PROPERTIES
  ReviewIsWhole
  CommentsKept
  
