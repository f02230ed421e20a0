SPECIFICATION Spec
CONSTANTS
  ShowNum = 3
  MaxShare = 2
  MaxWalk = 5
INVARIANTS
  HighestShown
