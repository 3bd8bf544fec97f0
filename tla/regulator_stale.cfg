\* One user against the regulator thread.
SPECIFICATION Spec
CONSTANTS
  WordMod = 1073741824
  Clients = {c1}
  RegThread = RegThread
  NoOwner = NoOwner
  Ops = {"get_temperature", "get_mode", "get_period", "set_mode", "set_period"}
  Modes = {0, 1}
  Periods = {700}
  Raws = {1200}
PROPERTY
  ManualPeriodIsUsers

