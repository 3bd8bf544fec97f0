--------------------------- MODULE StandaloneProofs ---------------------------
(***************************************************************************)
(* Theorems about the parts that run on their own, for any bounds: what    *)
(* Sleeping promises, and the safety that the liveness properties of       *)
(* LedController, ProcessPair and Oled stand on.  (DriverProofs has the    *)
(* induction over natural numbers.)                                        *)
(***************************************************************************)
EXTENDS Sleeping, LedController, ProcessPair, Oled, DriverProofs, FiniteSetTheorems,
        TLAPS

(* Until the waiter is stopped the trigger is what it still has to answer; *)
(* it sets out to reset a trigger that is set only.                        *)
Owed == trigger \in {0, 1} /\ pings + trigger <= kicks
        /\ (waiter = "reset" => trigger = 1)

(* The lab's waker does not get to its next trigger before the last one is *)
(* answered, but for a last round when it is stopped.                      *)
LabOwed == /\ kicks <= pings + trigger
           /\ waker \in {"created", "ssleep"} => trigger = 0
           /\ waker = "top" => trigger = 0 \/ Stopped("waker")

(* Stopped, the waiter may go on once more, without a trigger, and the     *)
(* waker has ended.                                                        *)
LastRound == /\ waker = "ended"
             /\ pings <= kicks + 1
             /\ waiter \in {"created", "wait", "asleep", "reset"} => pings <= kicks

SleepInv == /\ trigger \in Int /\ kicks \in Int /\ pings \in Int
            /\ ~Stopped("waiter") => Owed /\ (program = "lab" => LabOwed)
            /\ Stopped("waiter") => LastRound
            /\ program = "lab" => kicks <= pings + 1

LEMMA SleepInvInit == SleepInit => SleepInv
  BY DEF SleepInit, SleepInv, Owed, LabOwed, Stopped

LEMMA SleepInvNext == SleepInv /\ [SleepNext]_sleepVars => SleepInv'
<1> SUFFICES ASSUME SleepInv, [SleepNext]_sleepVars PROVE SleepInv'
  OBVIOUS
<1> USE DEF SleepInv, Owed, LabOwed, LastRound, Stopped
<1>1. CASE WakerLoops
  BY <1>1 DEF WakerLoops
<1>2. CASE SetTrigger
  BY <1>2 DEF SetTrigger
<1>3. CASE WakeWaiter
  BY <1>3 DEF WakeWaiter
<1>4. CASE WakerWaits
  BY <1>4 DEF WakerWaits, WakerGoesOn
<1>5. CASE WaiterLoops
  BY <1>5 DEF WaiterLoops
<1>6. CASE WaiterWaits
  BY <1>6 DEF WaiterWaits, WaiterGoesOn
<1>7. CASE ResetTrigger
  BY <1>7 DEF ResetTrigger
<1>8. CASE WakeWaker
  BY <1>8 DEF WakeWaker
<1>9. CASE StopWaker
  BY <1>9 DEF StopWaker, Woken
<1>10. CASE StopWaiter
  <2>1. /\ waker = "ended" /\ waiter' = Woken(waiter)
        /\ "waiter" \in should_stop'
        /\ UNCHANGED <<program, trigger, waker, kicks, pings>>
    BY <1>10 DEF StopWaiter
  <2>2. waiter' \in {"created", "wait", "asleep", "reset"}
          => waiter \in {"created", "wait", "asleep", "reset"}
    BY <2>1 DEF Woken
  <2>3. /\ pings <= kicks + 1
        /\ waiter \in {"created", "wait", "asleep", "reset"} => pings <= kicks
    OBVIOUS
  <2> QED
    BY <2>1, <2>2, <2>3
<1>11. CASE ExitReturns
  BY <1>11 DEF ExitReturns
<1>12. CASE UNCHANGED sleepVars
  BY <1>12 DEF sleepVars
<1> QED
  BY <1>1, <1>2, <1>3, <1>4, <1>5, <1>6, <1>7, <1>8, <1>9, <1>10, <1>11, <1>12
     DEF SleepNext, thread_waker, thread_waiter, exit_waits

(* Wherever the two threads are when one is stopped, and however often     *)
(* they sleep: the waiter goes on once for each trigger, and once more     *)
(* when it is stopped; in the lab none is set before the last one was      *)
(* seen (s02e07-sleeping.c:19-61).                                         *)
THEOREM ThreadsKeepInStep == SleepSpec => []InStep
<1>1. SleepInv => InStep
  BY DEF SleepInv, Owed, LastRound, InStep, Stopped
<1> QED
  BY <1>1, SleepInvInit, SleepInvNext, PTL DEF SleepSpec
-----------------------------------------------------------------------------
(* LedController: the period is a positive multiple of 200 but between a   *)
(* decrease to zero and its correction.                                    *)
IsPeriod(p, k, pc) == /\ p \in Int /\ p % 200 = 0
                      /\ p <= 1000 + 200 * k
                      /\ p >= IF pc = "correct" THEN 0 ELSE 200

(* A time of 200 ms or more takes 45 presses, and those that are left      *)
(* cannot bring the period down to it.                                     *)
OnTimeFits(on, p, k) == /\ on \in Int /\ 0 < on /\ on <= 20 + 4 * k
                        /\ on < 200 \/ (k >= 45 /\ p >= 1000 - 200 * (k - 46))

(* As long as the timer thread has not read between decrease and           *)
(* correction, whenever it waits the timer is armed: it has never been     *)
(* disarmed, and no time was refused (main.c:126-143, timer.c).            *)
StaysArmed == ~window /\ timer_pc # "absent"
                => process = "running" /\ (timer_pc = "epoll_wait" => timer_fd = "armed")

Positive == Nat \ {0}

LedInv == /\ pressed \in 0 .. MaxPressed /\ window \in BOOLEAN
          /\ timer_pc \in {"absent", "epoll_wait", "read on", "read off", "toggle", "ended"}
          /\ process = "setup" => timer_pc = "absent" /\ btn_pc = "absent" /\ ~window
          /\ process = "running" => timer_pc # "absent"
          /\ IsPeriod(flash_period_ms, pressed, btn_pc)
          /\ ~window /\ timer_pc = "read off" => OnTimeFits(on_ms, flash_period_ms, pressed)
          /\ ~window /\ timer_pc = "toggle" => on_ms \in Positive /\ off_ms \in Positive
          /\ StaysArmed

LEMMA LedInvInit == LedInit => LedInv
<1> SUFFICES ASSUME LedInit PROVE LedInv
  OBVIOUS
<1>1. IsPeriod(flash_period_ms, pressed, btn_pc)
  BY DEF LedInit, IsPeriod, DEFAULT_TIME_MS
<1>2. pressed \in 0 .. MaxPressed
  BY LedAssumption DEF LedInit
<1> QED
  BY <1>1, <1>2 DEF LedInit, LedInv, StaysArmed

(* What the presses do to the period, and to the room it leaves.           *)
LEMMA PeriodSteps ==
  ASSUME NEW p, NEW k \in Nat, NEW pc, IsPeriod(p, k, pc)
  PROVE  /\ pc # "correct" => IsPeriod(p + 200, k + 1, pc)
         /\ pc # "correct" => IsPeriod(p - 200, k + 1, "correct")
         /\ pc # "correct" => IsPeriod(DEFAULT_TIME_MS, k + 1, pc)
         /\ \A l : pc # "correct" /\ l # "correct" => IsPeriod(p, k, l)
         /\ IsPeriod(Corrected(p), k, "epoll_wait")
  BY DEF IsPeriod, DEFAULT_TIME_MS, Corrected

LEMMA RoomSteps ==
  ASSUME NEW on, NEW p \in Int, NEW k \in Nat, k < 49, OnTimeFits(on, p, k)
  PROVE  /\ OnTimeFits(on, p + 200, k + 1) /\ OnTimeFits(on, p - 200, k + 1)
         /\ OnTimeFits(on, DEFAULT_TIME_MS, k + 1)
  BY DEF OnTimeFits, DEFAULT_TIME_MS

LEMMA CorrectedFits ==
  ASSUME NEW on, NEW p \in Int, NEW k \in Nat, k < 50, OnTimeFits(on, p, k)
  PROVE  OnTimeFits(on, Corrected(p), k)
  BY DEF OnTimeFits, Corrected

LEMMA FirstRead ==
  ASSUME NEW p, NEW k \in Nat, NEW pc, IsPeriod(p, k, pc), p > 0
  PROVE  OnTimeFits((p \div 100) * DUTY_CYCLE_PERCENT, p, k)
<1>1. p \in Int /\ p >= 200 /\ p <= 1000 + 200 * k
  BY DEF IsPeriod
<1>2. PICK q \in Int : q = p \div 100
  BY <1>1
<1>3. 100 * q <= p /\ p < 100 * q + 100
  BY <1>1, <1>2
<1> QED
  BY <1>1, <1>2, <1>3 DEF OnTimeFits, DUTY_CYCLE_PERCENT

LEMMA SecondRead ==
  ASSUME NEW on, NEW p, NEW k \in Nat, NEW pc, k < 50, IsPeriod(p, k, pc), p > 0,
         OnTimeFits(on, p, k)
  PROVE  on \in Positive /\ p - on \in Positive
  BY DEF OnTimeFits, IsPeriod, Positive

(* A step of the button thread, and one of the timer thread.               *)
LEMMA ButtonStep ==
  ASSUME LedInv, Runs, UNCHANGED <<process, timer_fd, timer_pc, on_ms, off_ms, window>>,
         pressed' \in 0 .. MaxPressed, IsPeriod(flash_period_ms, pressed, btn_pc)',
         OnTimeFits(on_ms, flash_period_ms, pressed)
           => OnTimeFits(on_ms, flash_period_ms', pressed')
  PROVE  LedInv'
  BY Zenon DEF LedInv, StaysArmed, Runs

LEMMA TimerStep ==
  ASSUME LedInv, UNCHANGED <<flash_period_ms, pressed, btn_pc>>,
         timer_pc # "absent", timer_pc' \in {"epoll_wait", "read on", "read off", "toggle"},
         window' \in BOOLEAN, process' # "setup",
         ~window' /\ timer_pc' = "read off" => OnTimeFits(on_ms', flash_period_ms, pressed),
         ~window' /\ timer_pc' = "toggle" => on_ms' \in Positive /\ off_ms' \in Positive,
         StaysArmed'
  PROVE  LedInv'
  BY Zenon DEF LedInv, StaysArmed

LEMMA LedInvNext == ASSUME MaxPressed < 50, LedInv, [LedNext]_ledVars PROVE LedInv'
<1>0. /\ pressed \in Nat /\ pressed < 50 /\ flash_period_ms \in Int
      /\ pressed < MaxPressed => pressed < 49 /\ pressed + 1 \in 0 .. MaxPressed
      /\ IsPeriod(flash_period_ms, pressed, btn_pc)
  <2>1. pressed \in 0 .. MaxPressed /\ IsPeriod(flash_period_ms, pressed, btn_pc)
    BY DEF LedInv
  <2>2. flash_period_ms \in Int
    BY <2>1 DEF IsPeriod
  <2> QED
    BY LedAssumption, <2>1, <2>2
<1>1. CASE SetUp
  <2>1. flash_period_ms > 0 /\ ~window
    BY <1>0, <1>1 DEF SetUp, LedInv, IsPeriod
  <2>2. /\ timer_pc' = "epoll_wait" /\ process' = "running" /\ timer_fd' = "armed"
        /\ UNCHANGED <<flash_period_ms, window, pressed>>
        /\ btn_pc = "absent" /\ btn_pc' \in {"absent", "created"}
    BY <1>0, <1>1, <2>1 DEF SetUp, timer_set_time, LedInv
  <2>3. IsPeriod(flash_period_ms, pressed, btn_pc')
    BY <1>0, <2>2, PeriodSteps
  <2> QED
    BY <2>2, <2>3 DEF LedInv, StaysArmed
<1>2. CASE SetUpFails
  BY <1>2 DEF SetUpFails, LedInv, StaysArmed
<1>3. CASE TimerExpires
  <2>1. /\ timer_pc' = "read on" /\ timer_pc = "epoll_wait" /\ process = "running"
        /\ UNCHANGED <<process, flash_period_ms, btn_pc, window, pressed>>
    BY <1>3 DEF TimerExpires, Runs
  <2> QED
    BY <2>1, TimerStep DEF LedInv, StaysArmed
<1>4. CASE ReadOn
  <2>1. /\ timer_pc = "read on" /\ timer_pc' = "read off" /\ process = "running"
        /\ on_ms' = (flash_period_ms \div 100) * DUTY_CYCLE_PERCENT
        /\ UNCHANGED <<process, flash_period_ms, btn_pc, pressed>>
    BY <1>4 DEF ReadOn, Runs
  <2>2. window' \in BOOLEAN /\ (~window' => ~window /\ ~InWindow)
    BY <1>4, Zenon DEF ReadOn, InWindow
  <2>3. ~window' => OnTimeFits(on_ms', flash_period_ms, pressed)
    <3>1. ~InWindow => flash_period_ms > 0
      BY <1>0 DEF InWindow, IsPeriod
    <3> QED
      BY <1>0, <2>1, <2>2, <3>1, FirstRead
  <2> QED
    BY <2>1, <2>2, <2>3, TimerStep DEF StaysArmed
<1>5. CASE ReadOff
  <2>1. /\ timer_pc = "read off" /\ timer_pc' = "toggle" /\ process = "running"
        /\ off_ms' = flash_period_ms - on_ms
        /\ UNCHANGED <<process, flash_period_ms, btn_pc, pressed, on_ms>>
    BY <1>5 DEF ReadOff, Runs
  <2>2. window' \in BOOLEAN /\ (~window' => ~window /\ ~InWindow)
    BY <1>5, Zenon DEF ReadOff, InWindow
  <2>3. ~window' => on_ms' \in Positive /\ off_ms' \in Positive
    <3>1. ~InWindow => flash_period_ms > 0
      BY <1>0 DEF InWindow, IsPeriod
    <3>2. ~window => OnTimeFits(on_ms, flash_period_ms, pressed)
      BY <2>1 DEF LedInv
    <3> QED
      BY <1>0, <2>1, <2>2, <3>1, <3>2, SecondRead
  <2> QED
    BY <2>1, <2>2, <2>3, TimerStep DEF StaysArmed
<1>6. CASE Toggle
  <2>1. /\ timer_pc = "toggle" /\ timer_pc' = "epoll_wait" /\ process = "running"
        /\ UNCHANGED <<flash_period_ms, btn_pc, pressed, window>>
        /\ timer_set_time(off_ms) \/ timer_set_time(on_ms)
    BY <1>6 DEF Toggle, Runs
  <2>2. ~window => on_ms \in Positive /\ off_ms \in Positive
    BY <2>1 DEF LedInv
  <2>3. process' # "setup" /\ (~window => process' = "running" /\ timer_fd' = "armed")
    BY <2>1, <2>2 DEF timer_set_time, Positive
  <2> QED
    BY <2>1, <2>3, TimerStep DEF StaysArmed, LedInv
<1>7. CASE OpenButtons
  <2>1. /\ btn_pc = "created" /\ btn_pc' \in {"epoll_wait", "ended"} /\ Runs
        /\ UNCHANGED <<process, timer_fd, timer_pc, on_ms, off_ms, window,
                       flash_period_ms, pressed>>
    BY <1>7 DEF OpenButtons
  <2>2. IsPeriod(flash_period_ms, pressed, btn_pc)'
    BY <1>0, <2>1, PeriodSteps
  <2> QED
    BY <2>1, <2>2, ButtonStep DEF LedInv
<1>8. CASE Increase \/ Reset \/ Decrease
  <2>1. /\ Runs /\ btn_pc = "epoll_wait" /\ pressed < MaxPressed /\ pressed' = pressed + 1
        /\ UNCHANGED <<process, timer_fd, timer_pc, on_ms, off_ms, window>>
        /\ \/ flash_period_ms' = flash_period_ms + 200 /\ btn_pc' = btn_pc
           \/ flash_period_ms' = DEFAULT_TIME_MS /\ btn_pc' = btn_pc
           \/ flash_period_ms' = flash_period_ms - 200 /\ btn_pc' = "correct"
    BY <1>8 DEF Increase, Reset, Decrease, ButtonSeen
  <2>2. IsPeriod(flash_period_ms, pressed, btn_pc)'
    <3>1. /\ IsPeriod(flash_period_ms + 200, pressed + 1, btn_pc)
          /\ IsPeriod(flash_period_ms - 200, pressed + 1, "correct")
          /\ IsPeriod(DEFAULT_TIME_MS, pressed + 1, btn_pc)
      BY <1>0, <2>1, PeriodSteps
    <3> QED
      BY <2>1, <3>1
  <2>3. OnTimeFits(on_ms, flash_period_ms, pressed)
          => OnTimeFits(on_ms, flash_period_ms', pressed')
    <3> SUFFICES ASSUME OnTimeFits(on_ms, flash_period_ms, pressed)
                 PROVE  OnTimeFits(on_ms, flash_period_ms', pressed')
      OBVIOUS
    <3>1. /\ OnTimeFits(on_ms, flash_period_ms + 200, pressed + 1)
          /\ OnTimeFits(on_ms, flash_period_ms - 200, pressed + 1)
          /\ OnTimeFits(on_ms, DEFAULT_TIME_MS, pressed + 1)
      BY <1>0, <2>1, RoomSteps
    <3> QED
      BY <2>1, <3>1
  <2> QED
    BY <1>0, <2>1, <2>2, <2>3, ButtonStep
<1>9. CASE Correct
  <2>1. /\ Runs /\ flash_period_ms' = Corrected(flash_period_ms) /\ btn_pc' = "epoll_wait"
        /\ UNCHANGED <<process, timer_fd, timer_pc, on_ms, off_ms, window, pressed>>
    BY <1>9 DEF Correct
  <2>2. IsPeriod(flash_period_ms, pressed, btn_pc)'
    BY <1>0, <2>1, PeriodSteps
  <2>3. OnTimeFits(on_ms, flash_period_ms, pressed)
          => OnTimeFits(on_ms, flash_period_ms', pressed')
    BY <1>0, <2>1, CorrectedFits
  <2> QED
    BY <2>1, <2>2, <2>3, ButtonStep DEF LedInv
<1>10. CASE TimerFails
  BY <1>10 DEF TimerFails, Runs, LedInv, StaysArmed
<1>11. CASE ButtonWaitFails
  <2>1. /\ Runs /\ btn_pc = "epoll_wait" /\ btn_pc' = "ended"
        /\ UNCHANGED <<process, timer_fd, timer_pc, on_ms, off_ms, window,
                       flash_period_ms, pressed>>
    BY <1>11 DEF ButtonWaitFails
  <2>2. IsPeriod(flash_period_ms, pressed, btn_pc)'
    BY <1>0, <2>1, PeriodSteps
  <2> QED
    BY <2>1, <2>2, ButtonStep DEF LedInv
<1>12. CASE UNCHANGED ledVars
  BY <1>12 DEF ledVars, LedInv, StaysArmed
<1> QED
  BY <1>1, <1>2, <1>3, <1>4, <1>5, <1>6, <1>7, <1>8, <1>9, <1>10, <1>11, <1>12
     DEF LedNext, led_main, timer_thread, btn_thread

(* The LED is only lost through the window between a decrease and its      *)
(* correction, whenever else the buttons change the period between two     *)
(* reads of it.  Fifty presses would allow another way: 45 that make the   *)
(* first half 200 ms, then a reset and four decreases before the second    *)
(* read, which makes the other half zero (main.c:126-127).                 *)
THEOREM LedStaysArmed == ASSUME MaxPressed < 50 PROVE LedSpec => []StaysArmed
<1>1. LedInv => StaysArmed
  BY DEF LedInv
<1>2. LedInv /\ [LedNext]_ledVars => LedInv'
  BY LedInvNext
<1> QED
  BY <1>1, <1>2, LedInvInit, PTL DEF LedSpec
-----------------------------------------------------------------------------
(* The bytes before message i, the recursive sum in Offset of ProcessPair. *)
Sums(f, n) == /\ f \in [0 .. n -> Nat] /\ f[0] = 0
              /\ \A k \in 1 .. n : f[k] = f[k - 1] + MSG[k]

Total == CHOOSE f : f = [k \in 0 .. NBR_MSG |-> IF k = 0 THEN 0 ELSE f[k - 1] + MSG[k]]

LEMMA Messages == /\ NBR_MSG \in Nat
                  /\ \A i \in 1 .. NBR_MSG : MSG[i] \in Nat /\ MSG[i] > 0
  BY PairAssumption DEF NBR_MSG

LEMMA OffsetIsTotal == \A i : Offset(i) = Total[i - 1]
  BY DEF Offset, Total

LEMMA SumsExist == \E f : Sums(f, NBR_MSG)
<1> DEFINE T == {n \in Nat : n <= NBR_MSG => \E f : Sums(f, n)}
<1>1. 0 \in T
  <2>1. Sums([k \in 0 .. 0 |-> 0], 0)
    BY DEF Sums
  <2> QED
    BY <2>1
<1>2. \A n \in Nat : n \in T => n + 1 \in T
  <2> SUFFICES ASSUME NEW n \in Nat, n \in T, n + 1 <= NBR_MSG
               PROVE  \E f : Sums(f, n + 1)
    OBVIOUS
  <2>1. PICK f : Sums(f, n)
    BY Messages
  <2> DEFINE g == [k \in 0 .. n + 1 |-> IF k = n + 1 THEN f[n] + MSG[n + 1] ELSE f[k]]
  <2>2. MSG[n + 1] \in Nat
    BY Messages
  <2>3. g \in [0 .. n + 1 -> Nat] /\ g[0] = 0
    BY <2>1, <2>2 DEF Sums
  <2>4. ASSUME NEW k \in 1 .. n + 1 PROVE g[k] = g[k - 1] + MSG[k]
    <3>1. g[k - 1] = f[k - 1]
      OBVIOUS
    <3>2. CASE k = n + 1
      BY <3>1, <3>2
    <3>3. CASE k \in 1 .. n
      BY <2>1, <3>1, <3>3 DEF Sums
    <3> QED
      BY <3>2, <3>3
  <2>5. Sums(g, n + 1)
    BY <2>3, <2>4 DEF Sums
  <2> QED
    BY <2>5
<1> HIDE DEF T
<1>3. NBR_MSG \in T
  BY <1>1, <1>2, SetInduction, Messages
<1> QED
  BY <1>3, Messages DEF T

LEMMA TotalEquation ==
  /\ Total[0] = 0
  /\ \A k \in 1 .. NBR_MSG : Total[k] = Total[k - 1] + MSG[k]
<1> DEFINE Step(f) == [k \in 0 .. NBR_MSG |-> IF k = 0 THEN 0 ELSE f[k - 1] + MSG[k]]
<1>1. PICK f : Sums(f, NBR_MSG)
  BY SumsExist
<1>2. f = Step(f)
  BY <1>1, Messages DEF Sums
<1>3. Total = Step(Total)
  <2>1. \E g : g = Step(g)
    BY <1>2
  <2>2. Total = CHOOSE g : g = Step(g)
    BY DEF Total
  <2> HIDE DEF Step
  <2> QED
    BY <2>1, <2>2
<1> HIDE DEF Total
<1> QED
  BY <1>3, Messages

LEMMA TotalType == \A k \in 0 .. NBR_MSG : Total[k] \in Nat
<1> DEFINE T == {n \in Nat : n <= NBR_MSG => Total[n] \in Nat}
<1>1. 0 \in T
  BY TotalEquation
<1>2. \A n \in Nat : n \in T => n + 1 \in T
  <2> SUFFICES ASSUME NEW n \in Nat, n \in T, n + 1 <= NBR_MSG
               PROVE  Total[n + 1] \in Nat
    OBVIOUS
  <2>1. Total[n] \in Nat
    BY Messages
  <2>2. Total[n + 1] = Total[n] + MSG[n + 1] /\ MSG[n + 1] \in Nat
    BY TotalEquation, Messages
  <2> QED
    BY <2>1, <2>2
<1> HIDE DEF T
<1>3. \A n \in Nat : n \in T
  BY <1>1, <1>2, SetInduction
<1> QED
  BY <1>3, Messages DEF T

LEMMA TotalGrows == \A j, k \in 0 .. NBR_MSG : j <= k => Total[j] <= Total[k]
<1> DEFINE Grows(d) == \A j \in 0 .. NBR_MSG :
                         j + d <= NBR_MSG => Total[j] <= Total[j + d]
           T == {d \in Nat : Grows(d)}
<1>1. 0 \in T
  BY TotalType, Messages
<1>2. \A d \in Nat : Grows(d) => Grows(d + 1)
  <2> SUFFICES ASSUME NEW d \in Nat, Grows(d), NEW j \in 0 .. NBR_MSG, j + (d + 1) <= NBR_MSG
               PROVE  Total[j] <= Total[j + (d + 1)]
    OBVIOUS
  <2>1. Total[j] <= Total[j + d]
    BY Messages
  <2>2. j + (d + 1) \in 1 .. NBR_MSG /\ j + (d + 1) - 1 = j + d /\ j + d \in 0 .. NBR_MSG
    BY Messages
  <2>3. /\ Total[j + (d + 1)] = Total[j + d] + MSG[j + (d + 1)]
        /\ MSG[j + (d + 1)] \in Nat
    BY <2>2, TotalEquation, Messages
  <2>4. Total[j] \in Nat /\ Total[j + d] \in Nat
    BY <2>2, TotalType
  <2> QED
    BY <2>1, <2>3, <2>4
<1> HIDE DEF Grows
<1>3. \A d \in Nat : d \in T => d + 1 \in T
  BY <1>2
<1> HIDE DEF T
<1>4. \A d \in Nat : d \in T
  BY <1>1, <1>3, SetInduction
<1> QED
  <2> SUFFICES ASSUME NEW j \in 0 .. NBR_MSG, NEW k \in 0 .. NBR_MSG, j <= k
               PROVE  Total[j] <= Total[k]
    OBVIOUS
  <2>1. k - j \in Nat /\ j + (k - j) = k
    BY Messages
  <2>2. Grows(k - j)
    BY <1>4, <2>1 DEF T
  <2> QED
    BY <2>1, <2>2 DEF Grows

(* How far the two have come, while nothing came in between.               *)
Loops(w, r, wr, tk) == /\ w \in 1 .. NBR_MSG + 1 /\ r \in 1 .. w
                       /\ wr = Total[w - 1] /\ tk = Total[r - 1]

(* The first r - 1 messages, each from where it begins to where it ends.   *)
GotWhole(q, r) == /\ q \in Seq(Int \X Int) /\ Len(q) = r - 1
                  /\ \A i \in 1 .. r - 1 : q[i] = <<Offset(i), Offset(i + 1)>>

PairInv == ~upset => /\ Loops(wi, ri, written, taken)
                     /\ GotWhole(got, ri)
                     /\ reader = "exited" => ri = NBR_MSG + 1

(* Nothing but an early exit and a read that a signal interrupts makes the *)
(* reader lose step: each read gives one message, whole, and all have been *)
(* read when it ends (process.c:94-118).                                   *)
MessagesWhole == ~upset => /\ \A i \in 1 .. Len(got) : i <= NBR_MSG /\ got[i] = Whole[i]
                           /\ reader = "exited" => got = Whole

(* A read asks for message r, of which nothing is read yet, when there is  *)
(* something in the stream.                                                *)
LEMMA ReadsWhole ==
  ASSUME NEW r \in 1 .. NBR_MSG, NEW w \in 1 .. NBR_MSG + 1, r <= w,
         Total[w - 1] > Total[r - 1]
  PROVE  /\ r + 1 <= w
         /\ Total[r - 1] + Min({MSG[r], Total[w - 1] - Total[r - 1]}) = Total[r]
<1>1. r # w
  BY TotalType, Messages
<1>2. Total[r] = Total[r - 1] + MSG[r] /\ MSG[r] \in Nat
  BY TotalEquation, Messages
<1>3. /\ Total[r] \in Nat /\ Total[r - 1] \in Nat /\ Total[w - 1] \in Nat
      /\ Total[r] <= Total[w - 1]
  BY <1>1, TotalType, TotalGrows, Messages
<1> DEFINE m == MSG[r]
           d == Total[w - 1] - Total[r - 1]
<1>4. m \in Int /\ d \in Int /\ m <= d
  BY <1>2, <1>3
<1>5. Min({m, d}) = m
  <2> HIDE DEF m, d
  <2>1. m \in {m, d} /\ \A y \in {m, d} : m <= y
    BY <1>4
  <2>2. \A x \in {m, d} : (\A y \in {m, d} : x <= y) => x = m
    BY <1>4
  <2> QED
    BY <2>1, <2>2 DEF Min
<1> QED
  BY <1>1, <1>2, <1>3, <1>5

LEMMA Advance ==
  ASSUME NEW q, NEW r \in 1 .. NBR_MSG, GotWhole(q, r)
  PROVE  GotWhole(Append(q, <<Total[r - 1], Total[r]>>), r + 1)
<1> DEFINE e == <<Total[r - 1], Total[r]>>
           p == Append(q, e)
<1>1. e \in Int \X Int
  BY TotalType, Messages
<1>2. e = <<Offset(r), Offset(r + 1)>>
  BY OffsetIsTotal, Messages
<1> HIDE DEF e
<1>3. p \in Seq(Int \X Int) /\ Len(p) = r + 1 - 1
  BY <1>1, Messages DEF GotWhole
<1>4. ASSUME NEW i \in 1 .. r + 1 - 1 PROVE p[i] = <<Offset(i), Offset(i + 1)>>
  <2>1. CASE i = r
    BY <1>2, <2>1 DEF GotWhole
  <2>2. CASE i \in 1 .. r - 1
    BY <2>2 DEF GotWhole
  <2>3. i = r \/ i \in 1 .. r - 1
    BY Messages
  <2> QED
    BY <2>1, <2>2, <2>3
<1> HIDE DEF p
<1>5. GotWhole(p, r + 1)
  BY <1>3, <1>4 DEF GotWhole
<1> QED
  BY <1>5 DEF p, e

LEMMA PairInvInit == PairInit => PairInv
<1> SUFFICES ASSUME PairInit PROVE PairInv
  OBVIOUS
<1>1. Loops(1, 1, 0, 0)
  BY TotalEquation, Messages DEF Loops
<1>2. GotWhole(<<>>, 1)
  BY DEF GotWhole
<1> QED
  BY <1>1, <1>2 DEF PairInit, PairInv

LEMMA PairInvNext == PairInv /\ [PairNext]_pairVars => PairInv'
<1> SUFFICES ASSUME PairInv, [PairNext]_pairVars PROVE PairInv'
  OBVIOUS
<1>1. CASE /\ UNCHANGED <<wi, ri, written, taken, got, upset>>
           /\ reader' = "exited" => reader = "exited"
  BY <1>1 DEF PairInv
<1>2. CASE upset' = TRUE
  BY <1>2 DEF PairInv
<1>3. CASE WriteMessage
  <2>1. /\ wi <= NBR_MSG /\ wi' = wi + 1 /\ written' = written + MSG[wi]
        /\ UNCHANGED <<reader, ri, taken, got, upset>>
    BY <1>3 DEF WriteMessage, BytesWritten
  <2>2. Loops(wi, ri, written, taken) => Loops(wi + 1, ri, written + MSG[wi], taken)
    BY <2>1, TotalEquation, Messages DEF Loops
  <2> QED
    BY <2>1, <2>2 DEF PairInv
<1>4. CASE ReadMessage
  <2> DEFINE n == Min({MSG[ri], written - taken})
  <2>1. /\ ri <= NBR_MSG /\ written > taken /\ reader = "read"
        /\ ri' = ri + 1 /\ taken' = taken + n
        /\ got' = Append(got, <<taken, taken + n>>)
        /\ UNCHANGED <<reader, wi, written, upset>>
    BY <1>4 DEF ReadMessage, ReadReturns
  <2>2. SUFFICES ASSUME ~upset
                 PROVE  Loops(wi', ri', written', taken') /\ GotWhole(got', ri')
    BY <2>1 DEF PairInv
  <2>3. Loops(wi, ri, written, taken) /\ GotWhole(got, ri)
    BY <2>2 DEF PairInv
  <2>4. /\ ri \in 1 .. NBR_MSG /\ wi \in 1 .. NBR_MSG + 1 /\ ri <= wi
        /\ Total[wi - 1] > Total[ri - 1]
    BY <2>1, <2>3, Messages DEF Loops
  <2>5. ri + 1 <= wi /\ taken = Total[ri - 1] /\ taken + n = Total[ri]
    BY <2>3, <2>4, ReadsWhole DEF Loops
  <2> HIDE DEF n
  <2>6. Loops(wi, ri + 1, written, taken + n)
    BY <2>3, <2>4, <2>5, Messages DEF Loops
  <2>7. GotWhole(Append(got, <<taken, taken + n>>), ri + 1)
    BY <2>3, <2>4, <2>5, Advance
  <2> QED
    BY <2>1, <2>6, <2>7
<1>5. CASE TestSignals
  <2>1. ~upset => ri = NBR_MSG + 1
    BY <1>5, Messages DEF TestSignals, PairInv, Loops
  <2> QED
    BY <1>5, <2>1 DEF TestSignals, PairInv
<1> QED
  BY <1>1, <1>2, <1>3, <1>4, <1>5
     DEF PairNext, WriterSteps, ReaderSteps, Fork, SetWriterAffinity, SetReaderAffinity,
         WriterDone, WriterExits, ReaderExits, ReadInterrupted, pairVars

(* Any number of messages of any lengths, however the two processes take   *)
(* turns: as long as no read is interrupted and the writer does not exit   *)
(* early, every read of the reader gives one message, whole and in order   *)
(* (process.c:45-63, 94-118).                                              *)
THEOREM EachReadOneMessage == PairSpec => []MessagesWhole
<1>1. PairInv => MessagesWhole
  <2> SUFFICES ASSUME PairInv, ~upset PROVE MessagesWhole
    BY DEF MessagesWhole
  <2>1. Loops(wi, ri, written, taken) /\ GotWhole(got, ri)
    BY DEF PairInv
  <2>2. /\ got \in Seq(Int \X Int) /\ Len(got) = ri - 1 /\ ri \in 1 .. NBR_MSG + 1
        /\ \A i \in 1 .. ri - 1 : got[i] = <<Offset(i), Offset(i + 1)>>
    BY <2>1, Messages DEF Loops, GotWhole
  <2>3. ASSUME NEW i \in 1 .. Len(got) PROVE i <= NBR_MSG /\ got[i] = Whole[i]
    <3>1. i \in 1 .. ri - 1 /\ i \in 1 .. NBR_MSG
      BY <2>2, Messages
    <3>2. Whole[i] = <<Offset(i), Offset(i + 1)>>
      BY <3>1 DEF Whole
    <3> QED
      BY <2>2, <3>1, <3>2
  <2>4. reader = "exited" => got = Whole
    <3> SUFFICES ASSUME reader = "exited" PROVE got = Whole
      OBVIOUS
    <3>1. Len(got) = NBR_MSG
      BY <2>2, Messages DEF PairInv
    <3>2. got = [i \in 1 .. NBR_MSG |-> got[i]]
      BY <2>2, <3>1
    <3> QED
      BY <2>3, <3>1, <3>2 DEF Whole
  <2> QED
    BY <2>3, <2>4 DEF MessagesWhole
<1> QED
  BY <1>1, PairInvInit, PairInvNext, PTL DEF PairSpec
-----------------------------------------------------------------------------
(* What a row can be given: a mode, a temperature, or a period.            *)
Legal(row) == CASE row = "mode" -> {0, 1} [] row = "temp" -> Nat [] OTHER -> Int

(* Nothing reaches further than the longest text of the row did, and a row *)
(* that has been written is clean.                                         *)
RowFits(row, s, w) == /\ s \in [value : Legal(row), extent : 0 .. Columns] /\ w \in Nat
                      /\ s.extent <= Around(row) + w
                      /\ row = "mode" => w <= 6
                      /\ \/ s.extent = 0
                         \/ s.extent = Visible(row, s.value)
                         \/ w > Glyphs(row, s.value) + Spare[row]

OledInv == /\ values \in [Fields -> Int]
           /\ \A row \in RowSet : values[FieldOf(row)] \in Legal(row)
           /\ \A row \in RowSet : FieldOf(row) \in DOMAIN fetched
                                    => fetched[FieldOf(row)] \in Legal(row)
           /\ oled_thread \in RowSet => DOMAIN fetched = Fields
           /\ screen \in [RowSet -> [value : Int, extent : Int]]
           /\ widest \in [RowSet -> Nat]
           /\ \A row \in RowSet : RowFits(row, screen[row], widest[row])

(* A row is only rid of rests by the blanks behind the new text, and it    *)
(* has one only where a text was longer by more than those blanks before   *)
(* (oled.c:35-53).  Cleared rows have no text yet.                         *)
NoRest == \A row \in RowSet : screen[row].extent # 0 => RowIsClean(row)

LEMMA TheRows == RowSet = {"mode", "temp", "freq", "period"}
<1>1. /\ Rows[1] = "mode" /\ Rows[2] = "temp" /\ Rows[3] = "freq" /\ Rows[4] = "period"
  BY DEF Rows
<1>2. 1 .. 4 = {1, 2, 3, 4}
  OBVIOUS
<1> QED
  BY <1>1, <1>2, Zenon DEF RowSet

LEMMA LegalIs == /\ Legal("mode") = {0, 1} /\ Legal("temp") = Nat
                 /\ Legal("freq") = Int /\ Legal("period") = Int
  BY DEF Legal

LEMMA DigitsArePositive == ASSUME NEW n PROVE Digits(n) \in Nat /\ Digits(n) >= 1
<1> DEFINE K == {k \in 1 .. 9 : 10 ^ k <= n}
<1>1. IsFiniteSet(1 .. 9)
  <2>1. 1 \in Int /\ 9 \in Int
    OBVIOUS
  <2> QED
    BY <2>1, FS_Interval, Zenon
<1>2. K \subseteq 1 .. 9
  OBVIOUS
<1> HIDE DEF K
<1>3. IsFiniteSet(K)
  BY <1>1, <1>2, FS_Subset
<1>4. Cardinality(K) \in Nat
  BY <1>3, FS_CardinalityType
<1>5. Digits(n) = 1 + Cardinality(K)
  BY DEF Digits, K
<1> QED
  BY <1>4, <1>5

(* The text of a value has a glyph at least, that of a mode at most six.   *)
LEMMA GlyphsAre ==
  ASSUME NEW row \in RowSet, NEW v \in Legal(row)
  PROVE  /\ Glyphs(row, v) \in Nat /\ Glyphs(row, v) >= 1
         /\ row = "mode" => Glyphs(row, v) = IF v = 0 THEN 6 ELSE 4
<1>1. CASE row = "mode"
  BY <1>1 DEF Glyphs
<1>2. CASE row = "temp"
  <2>1. Glyphs(row, v) = Digits(v) + 2
    BY <1>2 DEF Glyphs
  <2> QED
    BY <1>2, <2>1, DigitsArePositive
<1>3. CASE row = "freq"
  <2>1. Glyphs(row, v) = IF v = 0 THEN 3
                         ELSE (IF v < 0 THEN 1 ELSE Digits(1000 \div v)) + 3
    BY <1>3 DEF Glyphs
  <2>2. Digits(1000 \div v) \in Nat
    BY DigitsArePositive
  <2> QED
    BY <1>3, <2>1, <2>2
<1>4. CASE row = "period"
  <2>1. Glyphs(row, v) = IF v < 0 THEN 1 + Digits(-v) ELSE Digits(v)
    BY <1>4 DEF Glyphs
  <2>2. Digits(v) \in Nat /\ Digits(v) >= 1 /\ Digits(-v) \in Nat
    BY DigitsArePositive
  <2> QED
    BY <1>4, <2>1, <2>2
<1> QED
  BY <1>1, <1>2, <1>3, <1>4, TheRows

LEMMA AroundIs == ASSUME NEW row \in RowSet PROVE Around(row) \in 6 .. 10
  BY TheRows DEF Around

(* The blanks are what Spare says, except behind "MANUAL", which is the    *)
(* longest text of its row.                                                *)
LEMMA BlanksAre ==
  ASSUME NEW row \in RowSet, NEW v
  PROVE  /\ Blanks(row, v) \in Nat /\ Spare[row] \in Nat
         /\ Blanks(row, v) < Spare[row] => row = "mode" /\ v = 0
<1>1. /\ Spare["mode"] = 2 /\ Spare["temp"] = 0 /\ Spare["freq"] = 2
      /\ Spare["period"] = 2
  BY DEF Spare
<1>2. /\ Blanks("mode", v) = IF v = 0 THEN 0 ELSE 3
      /\ Blanks("temp", v) = 0 /\ Blanks("freq", v) = 2 /\ Blanks("period", v) = 2
  BY DEF Blanks
<1> QED
  BY <1>1, <1>2, TheRows

(* A new text over the old one.                                            *)
LEMMA PutFits ==
  ASSUME NEW row \in RowSet, NEW s, NEW w, RowFits(row, s, w), NEW v \in Legal(row)
  PROVE  RowFits(row, ssd1306_puts(s, row, v),
                 IF w < Glyphs(row, v) THEN Glyphs(row, v) ELSE w)
<1> DEFINE gl == Glyphs(row, v)
           ar == Around(row)
           vis == Visible(row, v)
           bl == Blanks(row, v)
           sp == Spare[row]
           wide == IF w < gl THEN gl ELSE w
           ext == IF s.extent > vis + bl THEN s.extent ELSE vis
<1>1. /\ gl \in Nat /\ gl >= 1 /\ ar \in 6 .. 10 /\ bl \in Nat /\ sp \in Nat
      /\ vis = IF ar + gl < 16 THEN ar + gl ELSE 16
  BY GlyphsAre, AroundIs, BlanksAre DEF Visible, Columns
<1>2. s.extent \in 0 .. 16 /\ w \in Nat /\ s.extent <= ar + w /\ (row = "mode" => w <= 6)
  BY DEF RowFits, Columns
<1>3. /\ row = "mode" => gl <= 6
      /\ bl < sp => row = "mode" /\ gl = 6
  BY GlyphsAre, BlanksAre
<1>4. ssd1306_puts(s, row, v) = [value |-> v, extent |-> ext]
  BY DEF ssd1306_puts
<1> HIDE DEF gl, ar, vis, bl, sp
<1>5. /\ ext \in 0 .. 16 /\ wide \in Nat /\ ext <= ar + wide
      /\ row = "mode" => wide <= 6
  BY <1>1, <1>2, <1>3
<1>6. ASSUME s.extent > vis + bl PROVE wide > gl + sp
  <2>1. vis = ar + gl /\ w > gl + bl /\ wide = w
    BY <1>1, <1>2, <1>6
  <2> QED
    BY <1>1, <1>2, <1>3, <2>1
<1>7. ext = vis \/ wide > gl + sp
  BY <1>6
<1> HIDE DEF ext, wide
<1> DEFINE new == [value |-> v, extent |-> ext]
<1>8. new.value = v /\ new.extent = ext /\ new \in [value : Legal(row), extent : 0 .. 16]
  BY <1>5
<1> HIDE DEF new
<1>9. RowFits(row, new, wide)
  BY <1>5, <1>7, <1>8 DEF RowFits, Columns, gl, ar, vis, sp
<1> QED
  BY <1>4, <1>9 DEF new, wide, gl

LEMMA LegalType == \A row \in RowSet : Legal(row) \subseteq Int
  BY TheRows, LegalIs

(* Readings and no readings are legal values of the rows.                  *)
LEMMA ReadingsLegal ==
  ASSUME NEW r \in Readings \cup {NoModule}
  PROVE  r \in [Fields -> Int] /\ \A row \in RowSet : r[FieldOf(row)] \in Legal(row)
<1>1. r.mode \in {0, 1} /\ r.temp \in Nat /\ r.period \in Int
  <2>1. CASE r \in Readings
    <3>1. r.mode \in {0, 1} /\ r.temp \in Temperatures /\ r.period \in Periods
      BY <2>1 DEF Readings
    <3> QED
      BY <3>1, OledAssumption
  <2>2. CASE r = NoModule
    BY <2>2 DEF NoModule
  <2> QED
    BY <2>1, <2>2
<1>2. DOMAIN r = {"mode", "temp", "period"} /\ r = [f \in DOMAIN r |-> r[f]]
  BY DEF Readings, NoModule
<1>3. r \in [Fields -> Int]
  BY <1>1, <1>2 DEF Fields
<1> QED
  BY <1>1, <1>3, TheRows, LegalIs DEF FieldOf

LEMMA OledInvInit == OledInit => OledInv
<1> SUFFICES ASSUME OledInit PROVE OledInv
  OBVIOUS
<1>1. values \in [Fields -> Int] /\ \A row \in RowSet : values[FieldOf(row)] \in Legal(row)
  BY ReadingsLegal DEF OledInit
<1>2. oled_thread \notin RowSet /\ DOMAIN fetched = {}
  BY TheRows DEF OledInit
<1>3. ASSUME NEW row \in RowSet PROVE RowFits(row, [value |-> 0, extent |-> 0], 0)
  <2>1. 0 \in Legal(row) /\ Around(row) \in 6 .. 10
    BY AroundIs, TheRows, LegalIs
  <2> QED
    BY <2>1 DEF RowFits, Columns
<1> QED
  BY <1>1, <1>2, <1>3 DEF OledInit, OledInv

LEMMA OledInvNext == OledInv /\ [OledNext]_oledVars => OledInv'
<1> SUFFICES ASSUME OledInv, [OledNext]_oledVars PROVE OledInv'
  OBVIOUS
<1>1. CASE ValuesChange
  <2>1. values' \in [Fields -> Int] /\ \A row \in RowSet : values'[FieldOf(row)] \in Legal(row)
    BY <1>1, ReadingsLegal DEF ValuesChange
  <2> QED
    BY <1>1, <2>1 DEF ValuesChange, OledInv
<1>2. ASSUME NEW f \in Fields, Fetch(f) PROVE OledInv'
  <2>1. /\ DOMAIN fetched' = DOMAIN fetched \cup {f}
        /\ \A g \in DOMAIN fetched' : fetched'[g] = IF g = f THEN values[f] ELSE fetched[g]
        /\ oled_thread' \in RowSet => DOMAIN fetched' = Fields
        /\ UNCHANGED <<values, screen, widest>>
    BY <1>2, TheRows DEF Fetch
  <2>2. ASSUME NEW row \in RowSet, FieldOf(row) \in DOMAIN fetched'
        PROVE  fetched'[FieldOf(row)] \in Legal(row)
    BY <2>1, <2>2 DEF OledInv
  <2> QED
    BY <2>1, <2>2 DEF OledInv
<1>3. ASSUME NEW i \in 1 .. 4, Show(i) PROVE OledInv'
  <2> DEFINE row == Rows[i]
             v == fetched[FieldOf(row)]
             new == ssd1306_puts(screen[row], row, v)
             wide == IF widest[row] < Glyphs(row, v) THEN Glyphs(row, v) ELSE widest[row]
  <2>1. row \in RowSet /\ oled_thread = row /\ DOMAIN fetched = Fields /\ FieldOf(row) \in Fields
    BY <1>3, TheRows DEF Show, OledInv, RowSet, FieldOf, Fields
  <2>2. RowFits(row, new, wide)
    <3>1. RowFits(row, screen[row], widest[row]) /\ v \in Legal(row)
      BY <2>1 DEF OledInv
    <3> QED
      BY <2>1, <3>1, PutFits
  <2>3. /\ \/ screen' = [screen EXCEPT ![row] = new] /\ widest' = [widest EXCEPT ![row] = wide]
           \/ screen' = screen /\ widest' = widest
        /\ values' = values
        /\ \/ DOMAIN fetched' = {} /\ oled_thread' = "fetch"
           \/ fetched' = fetched
    BY <1>3 DEF Show
  <2> HIDE DEF row, new, wide
  <2>4. new \in [value : Int, extent : Int] /\ wide \in Nat
    BY <2>1, <2>2, LegalType DEF RowFits, Columns
  <2>5. /\ screen' \in [RowSet -> [value : Int, extent : Int]] /\ widest' \in [RowSet -> Nat]
        /\ \A r \in RowSet : RowFits(r, screen'[r], widest'[r])
    BY <2>1, <2>2, <2>3, <2>4 DEF OledInv
  <2>6. "fetch" \notin RowSet
    BY TheRows
  <2> QED
    BY <2>1, <2>3, <2>5, <2>6 DEF OledInv
<1>4. CASE UNCHANGED oledVars
  BY <1>4 DEF oledVars, OledInv
<1> QED
  BY <1>1, <1>2, <1>3, <1>4 DEF OledNext, update_oled_thread

(* For any temperatures and periods, whatever the values go through and in *)
(* whatever mixture they are fetched: a row that has a rest of an earlier  *)
(* text once showed one by three glyphs longer, or is that of the          *)
(* temperature and showed any longer one.                                  *)
THEOREM OledLeavesNoRest == OledSpec => []NoRest
<1>1. OledInv => NoRest
  BY DEF OledInv, RowFits, NoRest, RowIsClean
<1> QED
  BY <1>1, OledInvInit, OledInvNext, PTL DEF OledSpec
=============================================================================
