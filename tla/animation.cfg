\* Two presses, on the increase and the mode button, while main is still starting
\* or later; a press may call back twice, and a button may be held from the start.
SPECIFICATION ButtonFairSpec
CONSTANTS
  BtnThread = BtnThread
  Callers = {BtnThread}
  Worker = Worker
  Nobody = Nobody
  Touched = {"inc", "mode"}
  MaxPresses = 2
  MaxTriggers = 6
INVARIANTS
  AnimTypeOK
  AnimLocked
  NoLostWakeup
  NoPulseWithoutPress
  AtMostTwicePerPress
PROPERTIES
  EveryPressPulses
  HeldPressIsHandled
\* main returns when a set-up step fails, and the user may then rest.
CHECK_DEADLOCK FALSE
