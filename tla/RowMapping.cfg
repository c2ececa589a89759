SPECIFICATION Spec
CONSTANTS
  None = None
  Null = None
  Root = "A"
  Prefixes <- Letters
  Fields <- Arrays
  Values <- Strings
  Inputs <- Commands
CHECK_DEADLOCK FALSE
INVARIANTS
  TypeOK
  DocumentsFormForest
  OutcomeFollowsRows
  AnswerIsTheForest
  SortedRowsAreSafe
