SPECIFICATION FileSpec
CONSTANTS
  FileNodes = {"a", "b"}
  MaxEdits = 2
  MaxUploads = 3
INVARIANT LocalEditSurvives
CHECK_DEADLOCK FALSE
