\* Five presses: as many decreases reach zero from the default period.
\* Two changes of the values on display: to the longest texts, or to none, and on.
SPECIFICATION Spec
CONSTANTS
  Modules <- CourseModules
  MSG <- Messages
  MaxKicks = 4
  MaxPressed = 5
  Temperatures = {9, 35}
  Periods <- SomePeriods
  MaxChanges = 2
INVARIANTS
  CleanAfterUnload
  MisusedOnlyAfterFailure
  InStep
PROPERTIES
  UnloadEnds
  LedKeepsBlinking
  MessagesArrive
  ScreenSettles
\* Modules end unloaded or failed, processes end, and buttons may be left alone.
CHECK_DEADLOCK FALSE
