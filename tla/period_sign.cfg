\* A user writes a period above INT_MAX, then 700 milliseconds.
SPECIFICATION FairSpec
CONSTANTS
  WordMod = 1073741824
  Clients = {c1}
  RegThread = RegThread
  NoOwner = NoOwner
  Ops = {"get_temperature", "get_mode", "get_period", "set_mode", "set_period"}
  Modes = {0}
  Periods = {700, 1073741823}
  Raws = {1200}
PROPERTY
  PeriodReachesLed

