\* Fairness and two clients that compete for the locks; periods the thread sleeps for.
SPECIFICATION FairSpec
CONSTANTS
  WordMod = 1073741824
  Clients = {c1, c2}
  RegThread = RegThread
  NoOwner = NoOwner
  Ops = {"set_mode", "set_period"}
  Modes = {0, 1}
  Periods = {700}
  Raws = {1200, 1560}
PROPERTIES
  CallsReturn
  AutoSettles
  PeriodReachesLed

