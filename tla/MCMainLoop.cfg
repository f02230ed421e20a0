SPECIFICATION ConSpec
CONSTANTS
  Interval = 2
  KeyTimer = 3
  ShowEvery = 3
  CleanEvery = 2
  NrCpus = 2
  HelpLines = 4
  HelpRows <- Wide
  PromptRows = 1
  WinLines = 4
  IntWidth = 4
  MaxTyped = 5
INVARIANTS
  ConTypeOK
  PauseIsTimed
  CleanedUp
  CountersClosed
  HelpReadable
PROPERTIES
  SamplesAgain
  CleanupEnds
  ImplementsLoop
