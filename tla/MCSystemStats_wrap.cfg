SPECIFICATION SysSpec
CONSTANTS
  MaxVal = 40
  Cpus = {c0}
  Slowest = 1
  MaxPower = 3
  MinPower = 1
  Width64 = 16
  MaxProc = 1
  Width = 3
  Max32 = 1
  KB = 2
  MaxWork = 4
  MaxFails = 0
INVARIANTS
  OverflowHandled
