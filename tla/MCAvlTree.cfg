SPECIFICATION Spec
CONSTANTS
  MaxElement = 7
INVARIANTS
  TypeOK
  FindsEveryNode
  Balanced
  FreedOnceMidInsertion
