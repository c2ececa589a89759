SPECIFICATION Spec
CONSTANTS
  a = a
  b = b
  Ids = {a, b}
  MaxBlocks = 2
  MaxCommands = 2
SYMMETRY IdSymmetry
INVARIANTS
  TypeOK
  AnswerMatchesEffects
  ClassificationIsRight
