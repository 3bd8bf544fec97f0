------------------------------ MODULE Sleeping ------------------------------
(***************************************************************************)
(* Two kernel threads that sleep on wait queues and wake each other up: of *)
(* the lab (src/01-skeleton/kernel-module/s02e07-sleeping.c) or of its     *)
(* solution (solutions/02_modules/exercice07).  In both, the waker sleeps  *)
(* for five seconds, sets the trigger and wakes the waiter up, the waiter  *)
(* resets the trigger, and exit stops first the waker, then the waiter,    *)
(* and waits for the end of each.  The lab's waker then waits until the    *)
(* trigger is reset; the solution's does not, and its waiter counts down   *)
(* instead of resetting.                                                   *)
(*                                                                         *)
(* The kernel's part: kthread_stop sets a flag and wakes the thread up     *)
(* from whatever queue it sleeps on; a thread that is stopped before it    *)
(* ran for the first time never runs.                                      *)
(*                                                                         *)
(* An operator named F_something is F with a plausible bug in it, which no *)
(* behaviour of this specification has.                                    *)
(***************************************************************************)
EXTENDS Integers

CONSTANT MaxKicks  \* bound: the triggers set before the module is unloaded

ASSUME SleepAssumption == MaxKicks \in Nat

VARIABLES program,   \* "lab" or "solution"
          trigger,   \* trigger of the lab, is_kicked of the solution
          waker, waiter, \* where the two threads are
          should_stop, \* the threads that kthread_stop has been called for
          exit,      \* where the module's exit function is
          kicks, pings \* history: triggers set, and times the waiter went on

sleepVars == <<program, trigger, waker, waiter, should_stop, exit, kicks, pings>>

SleepInit == /\ program \in {"lab", "solution"}
             /\ trigger = 0
             /\ waker = "created" /\ waiter = "created"
             /\ should_stop = {}
             /\ exit = "loaded"
             /\ kicks = 0 /\ pings = 0

Stopped(t) == t \in should_stop
-----------------------------------------------------------------------------
(* The waker: thread_skeleton_1 of the lab, skeleton_thread_2 of the       *)
(* solution.                                                               *)

WakerLoops == /\ waker \in {"created", "top"}
              /\ waker' = IF Stopped("waker") THEN "ended" ELSE "ssleep"
              /\ UNCHANGED <<program, trigger, waiter, should_stop, exit, kicks, pings>>

(* ssleep, which cannot be cut short, and atomic_set.                      *)
SetTrigger == /\ waker = "ssleep"
              /\ kicks < MaxKicks \/ Stopped("waker")
              /\ trigger' = 1
              /\ kicks' = kicks + 1
              /\ waker' = "wake_up"
              /\ UNCHANGED <<program, waiter, should_stop, exit, pings>>

WakeWaiter == /\ waker = "wake_up"
              /\ waiter' = IF waiter = "asleep" THEN "wait" ELSE waiter
              /\ waker' = IF program = "lab" THEN "wait" ELSE "top"
              /\ UNCHANGED <<program, trigger, should_stop, exit, kicks, pings>>

WakerGoesOn_early == trigger \in {0, 1} \/ Stopped("waker")
WakerGoesOn == trigger = 0 \/ Stopped("waker")

(* The lab's wait_event_interruptible on queue_1.                          *)
WakerWaits == /\ waker = "wait"
              /\ waker' = IF WakerGoesOn THEN "top" ELSE "asleep"
              /\ UNCHANGED <<program, trigger, waiter, should_stop, exit, kicks, pings>>
-----------------------------------------------------------------------------
(* The waiter: thread_skeleton_2 of the lab, skeleton_thread_1 of the      *)
(* solution.                                                               *)

WaiterLoops == /\ waiter \in {"created", "top"}
               /\ waiter' = IF Stopped("waiter") THEN "ended" ELSE "wait"
               /\ UNCHANGED <<program, trigger, waker, should_stop, exit, kicks, pings>>

WaiterGoesOn_unstoppable == trigger # 0
WaiterGoesOn == trigger # 0 \/ Stopped("waiter")

(* wait_event_interruptible: a wake-up between the test and the sleep is   *)
(* not lost, so that both are one step.                                    *)
WaiterWaits == /\ waiter = "wait"
               /\ waiter' = IF WaiterGoesOn THEN "reset" ELSE "asleep"
               /\ UNCHANGED <<program, trigger, waker, should_stop, exit, kicks, pings>>

ResetTrigger == /\ waiter = "reset"
                /\ trigger' = IF program = "lab" THEN 0 ELSE trigger - 1
                /\ pings' = pings + 1
                /\ waiter' = IF program = "lab" THEN "wake_up" ELSE "top"
                /\ UNCHANGED <<program, waker, should_stop, exit, kicks>>

WakeWaker == /\ waiter = "wake_up"
             /\ waker' = IF waker = "asleep" THEN "wait" ELSE waker
             /\ waiter' = "top"
             /\ UNCHANGED <<program, trigger, should_stop, exit, kicks, pings>>
-----------------------------------------------------------------------------
(* sleeping_exit and skeleton_exit.                                        *)

Woken(pc) == CASE pc = "asleep"  -> "wait"
               [] pc = "created" -> "ended"
               [] OTHER          -> pc

StopWaker == /\ exit = "loaded"
             /\ should_stop' = should_stop \cup {"waker"}
             /\ waker' = Woken(waker)
             /\ exit' = "stopping waker"
             /\ UNCHANGED <<program, trigger, waiter, kicks, pings>>

StopWaiter == /\ exit = "stopping waker" /\ waker = "ended"
              /\ should_stop' = should_stop \cup {"waiter"}
              /\ waiter' = Woken(waiter)
              /\ exit' = "stopping waiter"
              /\ UNCHANGED <<program, trigger, waker, kicks, pings>>

ExitReturns == /\ exit = "stopping waiter" /\ waiter = "ended"
               /\ exit' = "unloaded"
               /\ UNCHANGED <<program, trigger, waker, waiter, should_stop, kicks, pings>>
-----------------------------------------------------------------------------
thread_waker == WakerLoops \/ SetTrigger \/ WakeWaiter \/ WakerWaits
thread_waiter == WaiterLoops \/ WaiterWaits \/ ResetTrigger \/ WakeWaker
exit_waits == StopWaiter \/ ExitReturns

SleepNext == thread_waker \/ thread_waiter \/ StopWaker \/ exit_waits

SleepSpec == SleepInit /\ [][SleepNext]_sleepVars

(* Threads that can run do; nobody has to unload the module.               *)
SleepFairSpec == /\ SleepSpec
                 /\ WF_sleepVars(thread_waker) /\ WF_sleepVars(thread_waiter)
                 /\ WF_sleepVars(exit_waits)
-----------------------------------------------------------------------------
(* The two threads keep in step.  The waiter goes on once for every time   *)
(* the trigger was set, and once more when it is stopped (s02e07:46-56).   *)
(* In the lab no trigger is set before the waiter saw the last one, not    *)
(* even when the waker is stopped in between (s02e07:25-38); the solution  *)
(* may lose one that comes before the count-down of the last.              *)
InStep == /\ pings <= kicks + (IF Stopped("waiter") THEN 1 ELSE 0)
          /\ program = "lab" => kicks <= pings + 1

(* Unloading ends, wherever the two threads are when it begins: neither is *)
(* left asleep on its queue by the other one's end (s02e07:84-89).         *)
UnloadEnds == exit = "stopping waker" ~> exit = "unloaded"
=============================================================================
