\* The calls of blink_init may fail, too.
SPECIFICATION LifeSpec
CONSTANTS
  Clients = {c1}
  CanFail = {"gpio_request", "gpio_direction_output", "run_blink"}
INVARIANT
  StopsLiveThreads
