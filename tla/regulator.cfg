\* Two processes, both modes and a refused one, no period, a period below the
\* automatic ones and one that is negative as an int; 84, 37 and -0.1 degrees.
SPECIFICATION Spec
SYMMETRY Symmetry
CONSTANTS
  WordMod = 1073741824
  Clients = {c1, c2}
  RegThread = RegThread
  NoOwner = NoOwner
  Ops = {"get_temperature", "get_mode", "get_period", "set_mode", "set_period"}
  Modes = {0, 1, 2}
  Periods = {0, 700, 1073741823}
  Raws = {1200, 1560, 1875}
INVARIANTS
  TypeOK
  LockDiscipline
  BlinkFollowsPeriod
  LateWritesAtMostOne
  PeriodStatusNonZero
  WarmerNeverSlower
PROPERTY
  ImplementsFanControl
