SPECIFICATION SysSpec
CONSTANTS
  MaxVal = 40
  Cpus = {c0, c1}
  Slowest = 1
  MaxPower = 3
  MinPower = 1
  Width64 = 16
  MaxProc = 2
  Width = 3
  Max32 = 1
  KB = 2
  MaxWork = 3
  MaxFails = 1
INVARIANTS
  SysTypeOK
  SystemBookedOnce
  DiskTablesAgree
  DiskChargeWithinTotal
  RunShareBounded
  PowerWithinLimits
