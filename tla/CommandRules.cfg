SPECIFICATION Spec
CONSTANTS
  Rules <- RulesUnderTest
  MaxRules = 2
INVARIANTS
  TypeOK
  ResultIsAnswer
  ErrorsDoNotAuthorize
CHECK_DEADLOCK FALSE
