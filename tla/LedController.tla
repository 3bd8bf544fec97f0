--------------------------- MODULE LedController ---------------------------
(***************************************************************************)
(* The LED controller of lab 3 (src/03-led-controller): a thread that      *)
(* turns the status LED on and off with a one-shot timer that it sets      *)
(* again each time, for 2% and 98% of a period, and a thread that changes  *)
(* the period when a button is pressed.  They share the period without a   *)
(* lock, and each access of a thread is a step: the decrease that may give *)
(* zero and the correction of it are two writes, the two halves of a       *)
(* period are computed from two reads.  A compiler that joins the two      *)
(* reads or the two writes allows no behaviour that is not here.           *)
(*                                                                         *)
(* Which presses of a button the thread gets to see is left open; module   *)
(* Buttons has the details for the same use of epoll.  The timer expires   *)
(* some time after it is set.                                              *)
(*                                                                         *)
(* An operator named F_something is F with a plausible bug in it, which no *)
(* behaviour of this specification has.                                    *)
(***************************************************************************)
EXTENDS Integers

CONSTANT MaxPressed  \* bound: the presses that the button thread sees

ASSUME LedAssumption == MaxPressed \in Nat

DEFAULT_TIME_MS == 1000
DUTY_CYCLE_PERCENT == 2
NBR_BTN == 3

VARIABLES process,         \* "setup", "running", or "exited"
          flash_period_ms, \* shared
          timer_fd,        \* "disarmed" or "armed"
          timer_pc, on_ms, off_ms, \* the timer thread and its two times
          isLedOn,
          btn_pc, watched, \* the button thread and the buttons it hears of
          halves,          \* history: the last delay of each half
          window,          \* history: the period was read before its correction
          pressed          \* the bound's counter

ledVars == <<process, flash_period_ms, timer_fd, timer_pc, on_ms, off_ms, isLedOn,
             btn_pc, watched, halves, window, pressed>>

LedInit == /\ process = "setup"
           /\ flash_period_ms = DEFAULT_TIME_MS
           /\ timer_fd = "disarmed"
           /\ timer_pc = "absent" /\ on_ms = 0 /\ off_ms = 0
           /\ isLedOn = FALSE
           /\ btn_pc = "absent" /\ watched = {}
           /\ halves = [on |-> 0, off |-> 0]
           /\ window = FALSE
           /\ pressed = 0

Runs == process = "running"
-----------------------------------------------------------------------------
(* main.                                                                   *)

(* timerfd_settime: 0 disarms the timer, a negative time is refused.       *)
timer_set_time(ms) == /\ timer_fd' = IF ms > 0 THEN "armed" ELSE "disarmed"
                      /\ process' = IF ms < 0 THEN "exited" ELSE "running"

(* The creation of the button thread is not looked at.                     *)
SetUp == /\ process = "setup"
         /\ timer_set_time(flash_period_ms)
         /\ timer_pc' = "epoll_wait"
         /\ btn_pc' \in {"absent", "created"}
         /\ UNCHANGED <<flash_period_ms, on_ms, off_ms, isLedOn, watched, halves, window,
                        pressed>>

SetUpFails == /\ process = "setup"
              /\ process' = "exited"
              /\ UNCHANGED <<flash_period_ms, timer_fd, timer_pc, on_ms, off_ms, isLedOn,
                             btn_pc, watched, halves, window, pressed>>
-----------------------------------------------------------------------------
(* timer_thread.                                                           *)

TimerExpires == /\ Runs /\ timer_pc = "epoll_wait" /\ timer_fd = "armed"
                /\ timer_fd' = "disarmed"
                /\ timer_pc' = "read on"
                /\ UNCHANGED <<process, flash_period_ms, on_ms, off_ms, isLedOn, btn_pc,
                               watched, halves, window, pressed>>

(* epoll_wait or the read that follows it fails (a process that is stopped *)
(* and continued interrupts epoll_wait): the thread ends, the process goes *)
(* on.                                                                     *)
TimerFails == /\ Runs /\ timer_pc = "epoll_wait"
              /\ timer_pc' = "ended"
              /\ UNCHANGED <<process, flash_period_ms, timer_fd, on_ms, off_ms, isLedOn,
                             btn_pc, watched, halves, window, pressed>>

(* Between the decrease and its correction.                                *)
InWindow == btn_pc = "correct" /\ flash_period_ms <= 0

ReadOn == /\ Runs /\ timer_pc = "read on"
          /\ on_ms' = (flash_period_ms \div 100) * DUTY_CYCLE_PERCENT
          /\ window' = (window \/ InWindow)
          /\ timer_pc' = "read off"
          /\ UNCHANGED <<process, flash_period_ms, timer_fd, off_ms, isLedOn, btn_pc,
                         watched, halves, pressed>>

ReadOff == /\ Runs /\ timer_pc = "read off"
           /\ off_ms' = flash_period_ms - on_ms
           /\ window' = (window \/ InWindow)
           /\ timer_pc' = "toggle"
           /\ UNCHANGED <<process, flash_period_ms, timer_fd, on_ms, isLedOn, btn_pc,
                          watched, halves, pressed>>

Toggle == /\ Runs /\ timer_pc = "toggle"
          /\ isLedOn' = ~isLedOn
          /\ timer_set_time(IF isLedOn THEN off_ms ELSE on_ms)
          /\ halves' = IF isLedOn THEN [halves EXCEPT !.off = off_ms]
                                  ELSE [halves EXCEPT !.on = on_ms]
          /\ timer_pc' = "epoll_wait"
          /\ UNCHANGED <<flash_period_ms, on_ms, off_ms, btn_pc, watched, window, pressed>>
-----------------------------------------------------------------------------
(* btn_thread.                                                             *)

(* A button that cannot be opened or added is reported and then never      *)
(* heard of; without an epoll instance epoll_wait fails and the thread     *)
(* ends.                                                                   *)
OpenButtons == /\ Runs /\ btn_pc = "created"
               /\ \/ watched' \in SUBSET (0 .. NBR_BTN - 1) /\ btn_pc' = "epoll_wait"
                  \/ watched' = {} /\ btn_pc' = "ended"
               /\ UNCHANGED <<process, flash_period_ms, timer_fd, timer_pc, on_ms, off_ms,
                              isLedOn, halves, window, pressed>>

ButtonSeen(i) == /\ Runs /\ btn_pc = "epoll_wait" /\ i \in watched /\ pressed < MaxPressed
                 /\ pressed' = pressed + 1
                 /\ UNCHANGED <<process, timer_fd, timer_pc, on_ms, off_ms, isLedOn,
                                watched, halves, window>>

Increase == /\ ButtonSeen(0)
            /\ flash_period_ms' = flash_period_ms + 200
            /\ UNCHANGED btn_pc

Reset == /\ ButtonSeen(1)
         /\ flash_period_ms' = DEFAULT_TIME_MS
         /\ UNCHANGED btn_pc

Decrease == /\ ButtonSeen(2)
            /\ flash_period_ms' = flash_period_ms - 200
            /\ btn_pc' = "correct"

Corrected_off(p) == IF p < 0 THEN 200 ELSE p
Corrected(p) == IF p <= 0 THEN 200 ELSE p

Correct == /\ Runs /\ btn_pc = "correct"
           /\ flash_period_ms' = Corrected(flash_period_ms)
           /\ btn_pc' = "epoll_wait"
           /\ UNCHANGED <<process, timer_fd, timer_pc, on_ms, off_ms, isLedOn, watched,
                          halves, window, pressed>>

(* A failing epoll_wait ends this thread as well.                          *)
ButtonWaitFails == /\ Runs /\ btn_pc = "epoll_wait"
                   /\ btn_pc' = "ended"
                   /\ UNCHANGED <<process, flash_period_ms, timer_fd, timer_pc, on_ms, off_ms,
                                  isLedOn, watched, halves, window, pressed>>
-----------------------------------------------------------------------------
timer_thread == TimerExpires \/ ReadOn \/ ReadOff \/ Toggle
btn_thread == OpenButtons \/ Increase \/ Reset \/ Decrease \/ Correct \/ ButtonWaitFails
led_main == SetUp \/ SetUpFails

btn_goes_on == OpenButtons \/ Correct

LedNext == led_main \/ timer_thread \/ TimerFails \/ btn_thread

LedSpec == LedInit /\ [][LedNext]_ledVars

(* main and the timer thread are scheduled and a timer that is set         *)
(* expires; the button thread starts, and goes on when it has decreased.   *)
(* Nothing has to fail.                                                    *)
LedFairSpec == LedSpec /\ WF_ledVars(led_main) /\ WF_ledVars(timer_thread)
                       /\ WF_ledVars(btn_goes_on)
-----------------------------------------------------------------------------
(* The LED blinks for ever, and once the buttons are left alone its two    *)
(* halves add up to the period, whatever the moments of fewer than fifty   *)
(* presses, but in two cases: the timer thread reads the period between    *)
(* the decrease to zero and the correction (main.c:126-129 against         *)
(* 171-172), which disarms the timer for good or makes timerfd_settime     *)
(* refuse and the process exit; or the timer thread ends because its       *)
(* epoll_wait or read failed (main.c:160-169).  (LedStaysArmed of          *)
(* StandaloneProofs says why fifty.)                                       *)
KeepsBlinking == \/ <>(process = "exited" /\ timer_pc = "absent")
                 \/ <>window
                 \/ <>(timer_pc = "ended")
                 \/ /\ []<>isLedOn /\ []<>(~isLedOn)
                    /\ <>[](halves.on + halves.off = flash_period_ms)
=============================================================================
