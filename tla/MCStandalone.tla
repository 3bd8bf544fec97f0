---------------------------- MODULE MCStandalone ----------------------------
(* The parts of the repository that run on their own: one behaviour is one *)
(* of them, chosen at the beginning; the others stay where they start.     *)
EXTENDS DriverLifecycle, Sleeping, LedController, ProcessPair, Oled

VARIABLE alone  \* the part that runs

vars == <<alone, drvVars, sleepVars, ledVars, pairVars, oledVars>>

(* Every kernel module with as many elements, children and instances as    *)
(* the repository's own parameters, arrays and device tree give it, but    *)
(* for the four whose unloading leaves something behind or gives something *)
(* back too early.                                                         *)
CourseModules ==
  {lab_dynamic_allocation(1), lab_io_memory_mapped, lab_thread, lab_sleeping,
   lab_character_driver, lab_sysfs, sol_elements(2), sol_io_memory,
   sol_thread, sol_sleeping, drv_exercice02, drv_exercice03,
   drv_exercice05, driver_exercice06, drv_exercice06, driver_exercice06_1,
   drv_exercice06_1(3), drv_sample06_2(3), driver_sample06_3, drv_sample06_3(1),
   drv_exercice07, drv_exercice08, drv_exercice09, drv_exercice10, driver_dts,
   drv_dts, drv_sample05, drv_sample05_1(5)}

(* The lengths of the messages of process.c, in bytes.                     *)
Messages == <<14, 10, 25, 27, 23>>

(* The last one is 3000000000 ms.                                          *)
SomePeriods == {1, 50, 10000, -1294967296}

AnyReading == CHOOSE v \in Readings : TRUE

Init == /\ alone \in {"drivers", "sleeping", "led", "pair", "display"}
        /\ DrvInit /\ SleepInit /\ LedInit /\ PairInit /\ OledInit
        /\ alone # "drivers" => kmod = lab_thread
        /\ alone # "sleeping" => program = "lab"
        /\ alone # "display" => oled_thread = "absent" /\ bus /\ values = AnyReading

Next == /\ \/ /\ alone = "drivers" /\ DrvNext
              /\ UNCHANGED <<sleepVars, ledVars, pairVars, oledVars>>
           \/ /\ alone = "sleeping" /\ SleepNext
              /\ UNCHANGED <<drvVars, ledVars, pairVars, oledVars>>
           \/ /\ alone = "led" /\ LedNext
              /\ UNCHANGED <<drvVars, sleepVars, pairVars, oledVars>>
           \/ /\ alone = "pair" /\ PairNext
              /\ UNCHANGED <<drvVars, sleepVars, ledVars, oledVars>>
           \/ /\ alone = "display" /\ OledNext
              /\ UNCHANGED <<drvVars, sleepVars, ledVars, pairVars>>
        /\ UNCHANGED alone

(* The part that runs is as fair as its own fair specification says.       *)
Spec == /\ Init /\ [][Next]_vars
        /\ WF_sleepVars(alone = "sleeping" /\ thread_waker)
        /\ WF_sleepVars(alone = "sleeping" /\ thread_waiter)
        /\ WF_sleepVars(alone = "sleeping" /\ exit_waits)
        /\ WF_ledVars(alone = "led" /\ led_main)
        /\ WF_ledVars(alone = "led" /\ timer_thread)
        /\ WF_ledVars(alone = "led" /\ btn_goes_on)
        /\ WF_pairVars(alone = "pair" /\ WriterSteps)
        /\ WF_pairVars(alone = "pair" /\ ReaderSteps)
        /\ WF_oledVars(alone = "display" /\ update_oled_thread)

(* KeepsBlinking, of the behaviours in which the LED controller runs.      *)
LedKeepsBlinking == alone = "led" => KeepsBlinking

(* AllArrive, of the behaviours in which the two processes run.            *)
MessagesArrive == alone = "pair" => AllArrive
=============================================================================
