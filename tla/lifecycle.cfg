\* Every call of the load may fail.  Deadlock is not checked: once the loader has
\* died in kthread_stop the module is stuck, as it is in the kernel.
SPECIFICATION LifeFairSpec
CHECK_DEADLOCK FALSE
CONSTANTS
  Clients = {c1, c2}
  CanFail = {"request_mem_region", "ioremap", "gpio_request", "gpio_direction_output", "run_blink", "class_create", "device_create", "create_group", "run_regulator"}
INVARIANTS
  LifeTypeOK
  NothingLeaks
  SensorMappedWhileUsed
PROPERTIES
  LoadsAndUnloadsEnd
