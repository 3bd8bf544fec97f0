\* A processor at 20 degrees and one just below zero.
SPECIFICATION FairSpec
CONSTANTS
  WordMod = 1073741824
  Clients = {c1}
  RegThread = RegThread
  NoOwner = NoOwner
  Ops = {"get_temperature", "set_mode"}
  Modes = {0}
  Periods = {700}
  Raws = {1700, 1875}
PROPERTY
  ColdRunsSlow

