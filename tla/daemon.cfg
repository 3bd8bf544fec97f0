\* A period of 30 is below one step, 180 leaves room for a few; an increase that
\* starts at 250 or less keeps the periods few.  Mode 2 is refused by the kernel.
SPECIFICATION DaemonFairSpec
CONSTANTS
  WordMod = 1073741824
  LockedOps = {"increase", "decrease", "toggle"}
  DirectModes = {0, 1, 2}
  DirectPeriods = {30, 180}
  MaxPeriod = 250
  Reloads = TRUE
INVARIANTS
  DaemonTypeOK
  NeverFreezes
PROPERTIES
  UpdatesAreAtomic
  EveryCallReturns
