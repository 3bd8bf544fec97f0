----------------------------- MODULE Regulator -----------------------------
(***************************************************************************)
(* The loaded temp_regulator module at the grain of its locks: the sysfs   *)
(* handlers run by any number of user processes (kernel/sysfs/sysfs.c),    *)
(* the mode and period register behind them and the regulator thread       *)
(* (kernel/regulator/regulator.c), the blink thread and the atomic it      *)
(* reads without a lock (kernel/blink/blink.c), and the sensor.            *)
(*                                                                         *)
(* A client is a process inside, or outside, one read or write of a sysfs  *)
(* file.  A store whose text does not parse returns at once without a lock *)
(* and without an effect (sysfs.c:51,79): it is a stuttering step here.    *)
(* A release of regulator_lock is part of the last access it protects.     *)
(*                                                                         *)
(* An operator named F_something is F with a plausible bug in it: no       *)
(* behaviour of this specification uses it; it is there to try out that    *)
(* the properties at the end would notice.                                 *)
(***************************************************************************)
EXTENDS Temperature

CONSTANTS Clients,     \* processes that use the sysfs files
          RegThread,   \* the kernel thread regulator_logic
          NoOwner,     \* the owner of a free mutex
          Ops,         \* the handlers the clients run
          Modes,       \* the ints written to the file mode
          Periods,     \* the uint32_t values written to the file period_set
          Raws         \* the values the sensor's register takes

Reads == {"get_temperature", "get_mode", "get_period"}
Handlers == Reads \cup {"set_mode", "set_period"}

ASSUME RegulatorAssumption == /\ RegThread \notin Clients
                              /\ NoOwner \notin Clients \cup {RegThread}
                              /\ Ops \subseteq Handlers
                              /\ Modes \subseteq Int
                              /\ Periods \subseteq UInt
                              /\ Raws \subseteq RawValues

VARIABLES current_mode,      \* regulator.c:12
          current_period,    \* regulator.c:13
          blink_period_ms,   \* blink.c:4, an atomic_t
          sysfs_lock,        \* owner of sysfs.c:17
          regulator_lock,    \* owner of regulator.c:18
          pc, req, ret,      \* of each client: where it is, its call, its result
          rt,                \* the regulator thread: pc, new_period
          blink,             \* the blink thread: pc, period
          raw,               \* the sensor's register
          late               \* history: automatic writes since manual mode was set

regVars == <<current_mode, current_period, late>>
locks == <<sysfs_lock, regulator_lock>>
clientVars == <<pc, req, ret>>
vars == <<regVars, blink_period_ms, locks, clientVars, rt, blink, raw>>
-----------------------------------------------------------------------------
Requests == [op : Ops \cap Reads, arg : {0}]
              \cup [op : Ops \cap {"set_mode"}, arg : Modes]
              \cup [op : Ops \cap {"set_period"}, arg : Periods]

NoRequest == [op |-> "none", arg |-> 0]

(* A local variable that is dead is kept at its initial value.             *)
Init == /\ current_mode = 1 /\ current_period = 1000 /\ late = 0
        /\ blink_period_ms = 1000
        /\ sysfs_lock = NoOwner /\ regulator_lock = NoOwner
        /\ pc = [c \in Clients |-> "idle"]
        /\ req = [c \in Clients |-> NoRequest]
        /\ ret = [c \in Clients |-> 0]
        /\ rt = [pc |-> "sample_lock", new_period |-> 2]
        /\ blink = [pc |-> "run", period |-> 0]
        /\ raw \in Raws

Goto(c, label) == pc' = [pc EXCEPT ![c] = label]
-----------------------------------------------------------------------------
(* The sysfs handlers.                                                     *)

Call(c, r) == /\ pc[c] = "idle"
              /\ req' = [req EXCEPT ![c] = r]
              /\ Goto(c, "sysfs_lock")
              /\ UNCHANGED <<regVars, blink_period_ms, locks, ret, rt, blink, raw>>

(* The callbacks that read the sensor or refuse a mode need no second lock. *)
FirstStep_anymode(r) == IF r.op = "get_temperature" THEN "read_temp" ELSE "reg_lock"

FirstStep(r) == CASE r.op = "get_temperature"                    -> "read_temp"
                  [] r.op = "set_mode" /\ r.arg \notin {0, 1}    -> "return"
                  [] OTHER                                       -> "reg_lock"

LockSysfs(c) == /\ pc[c] = "sysfs_lock" /\ sysfs_lock = NoOwner
                /\ sysfs_lock' = c
                /\ Goto(c, FirstStep(req[c]))
                /\ UNCHANGED <<regVars, blink_period_ms, regulator_lock, req, ret,
                               rt, blink, raw>>

cb_get_temperature(c) == /\ pc[c] = "read_temp"
                         /\ ret' = [ret EXCEPT ![c] = read_temp(raw)]
                         /\ Goto(c, "return")
                         /\ UNCHANGED <<regVars, blink_period_ms, locks, req, rt,
                                        blink, raw>>

LockReg_nowait(c) == /\ pc[c] = "reg_lock"
                     /\ regulator_lock' = c
                     /\ Goto(c, req[c].op)
                     /\ UNCHANGED <<regVars, blink_period_ms, sysfs_lock, req, ret,
                                    rt, blink, raw>>

LockReg(c) == /\ pc[c] = "reg_lock" /\ regulator_lock = NoOwner
              /\ regulator_lock' = c
              /\ Goto(c, req[c].op)
              /\ UNCHANGED <<regVars, blink_period_ms, sysfs_lock, req, ret, rt,
                             blink, raw>>

UnlockReg_leak(c) == UNCHANGED regulator_lock /\ Goto(c, "return")

UnlockReg(c) == regulator_lock' = NoOwner /\ Goto(c, "return")

cb_get_mode(c) == /\ pc[c] = "get_mode"
                  /\ ret' = [ret EXCEPT ![c] = current_mode]
                  /\ UnlockReg(c)
                  /\ UNCHANGED <<regVars, blink_period_ms, sysfs_lock, req, rt,
                                 blink, raw>>

cb_get_period(c) == /\ pc[c] = "get_period"
                    /\ ret' = [ret EXCEPT ![c] = current_period]
                    /\ UnlockReg(c)
                    /\ UNCHANGED <<regVars, blink_period_ms, sysfs_lock, req, rt,
                                   blink, raw>>

cb_set_mode(c) == /\ pc[c] = "set_mode"
                  /\ current_mode' = req[c].arg
                  /\ late' = 0
                  /\ UnlockReg(c)
                  /\ UNCHANGED <<current_period, blink_period_ms, sysfs_lock, req,
                                 ret, rt, blink, raw>>

(* The period and its copy for the blink thread are two writes: the second *)
(* one is the call of adjust_period, still under regulator_lock.           *)
Settable_zero(p) == current_mode = 0
Settable_auto(p) == p > 0
Settable(p) == current_mode = 0 /\ p > 0

cb_set_period(c) ==
  /\ pc[c] = "set_period"
  /\ \/ /\ Settable(req[c].arg)
        /\ current_period' = req[c].arg
        /\ Goto(c, "adjust")
        /\ UNCHANGED regulator_lock
     \/ /\ ~Settable(req[c].arg)
        /\ UnlockReg(c)
        /\ UNCHANGED current_period
  /\ UNCHANGED <<current_mode, late, blink_period_ms, sysfs_lock, req, ret, rt,
                 blink, raw>>

adjust_period == blink_period_ms' = ToInt(current_period)

AdjustManual_skip(c) == /\ pc[c] = "adjust"
                        /\ UnlockReg(c)
                        /\ UNCHANGED <<regVars, blink_period_ms, sysfs_lock, req, ret,
                                       rt, blink, raw>>

AdjustManual(c) == /\ pc[c] = "adjust"
                   /\ adjust_period
                   /\ UnlockReg(c)
                   /\ UNCHANGED <<regVars, sysfs_lock, req, ret, rt, blink, raw>>

Return(c) == /\ pc[c] = "return"
             /\ sysfs_lock' = NoOwner
             /\ req' = [req EXCEPT ![c] = NoRequest]
             /\ ret' = [ret EXCEPT ![c] = 0]
             /\ Goto(c, "idle")
             /\ UNCHANGED <<regVars, blink_period_ms, regulator_lock, rt, blink, raw>>
-----------------------------------------------------------------------------
(* The regulator thread.                                                   *)

RtGoto(label) == rt' = [rt EXCEPT !.pc = label]

RtSleep == rt' = [pc |-> "sleep", new_period |-> 2]

RtLock(from, to) == /\ rt.pc = from /\ regulator_lock = NoOwner
                    /\ regulator_lock' = RegThread
                    /\ RtGoto(to)
                    /\ UNCHANGED <<regVars, blink_period_ms, sysfs_lock, clientVars,
                                   blink, raw>>

RtLockSample == RtLock("sample_lock", "sample")
RtLockApply == RtLock("apply_lock", "apply")

RtSample == /\ rt.pc = "sample"
            /\ RtGoto(IF current_mode = 1 THEN "read_temp" ELSE "sleep")
            /\ regulator_lock' = NoOwner
            /\ UNCHANGED <<regVars, blink_period_ms, sysfs_lock, clientVars,
                           blink, raw>>

RtReadTemp == /\ rt.pc = "read_temp"
              /\ rt' = [rt EXCEPT !.new_period = AutoPeriod(read_temp(raw)),
                                  !.pc = "apply_lock"]
              /\ UNCHANGED <<regVars, blink_period_ms, locks, clientVars, blink,
                             raw>>

(* The call of adjust_period moved behind the unlock.                      *)
RtApply_unlockfirst ==
  /\ rt.pc = "apply"
  /\ rt.new_period # current_period
  /\ current_period' = rt.new_period
  /\ RtGoto("adjust")
  /\ regulator_lock' = NoOwner
  /\ UNCHANGED <<current_mode, late, blink_period_ms, sysfs_lock, clientVars, blink,
                 raw>>

(* The write does not look at current_mode again.                          *)
RtApply ==
  /\ rt.pc = "apply"
  /\ \/ /\ rt.new_period # current_period
        /\ current_period' = rt.new_period
        /\ late' = IF current_mode = 0 THEN late + 1 ELSE late
        /\ RtGoto("adjust")
        /\ UNCHANGED regulator_lock
     \/ /\ rt.new_period = current_period
        /\ RtSleep
        /\ regulator_lock' = NoOwner
        /\ UNCHANGED <<current_period, late>>
  /\ UNCHANGED <<current_mode, blink_period_ms, sysfs_lock, clientVars, blink,
                 raw>>

AdjustAuto_skip == /\ rt.pc = "adjust"
                   /\ RtSleep
                   /\ regulator_lock' = NoOwner
                   /\ UNCHANGED <<regVars, blink_period_ms, sysfs_lock, clientVars,
                                  blink, raw>>

AdjustAuto == /\ rt.pc = "adjust"
              /\ adjust_period
              /\ RtSleep
              /\ regulator_lock' = NoOwner
              /\ UNCHANGED <<regVars, sysfs_lock, clientVars, blink, raw>>

RtWake_nosample == /\ rt.pc = "sleep"
                   /\ RtGoto("read_temp")
                   /\ UNCHANGED <<regVars, blink_period_ms, locks, clientVars, blink,
                                  raw>>

RtWake == /\ rt.pc = "sleep"
          /\ RtGoto("sample_lock")
          /\ UNCHANGED <<regVars, blink_period_ms, locks, clientVars, blink, raw>>
-----------------------------------------------------------------------------
(* The blink thread: each round toggles the LED, whose level no property   *)
(* is about, reads the period and sleeps for half of it.  msleep takes an  *)
(* unsigned count, and the kernel makes an endless timeout of one with its *)
(* top bit set: a negative period is a sleep that has no end.              *)

Blink == /\ blink.pc = "run"
         /\ blink' = [pc |-> "sleep", period |-> blink_period_ms]
         /\ UNCHANGED <<regVars, blink_period_ms, locks, clientVars, rt, raw>>

BlinkWake == /\ blink.pc = "sleep" /\ blink.period >= 0
             /\ blink' = [blink EXCEPT !.pc = "run"]
             /\ UNCHANGED <<regVars, blink_period_ms, locks, clientVars, rt, raw>>

(* The environment: the temperature changes.                               *)
Sense == /\ raw' \in Raws \ {raw}
         /\ UNCHANGED <<regVars, blink_period_ms, locks, clientVars, rt, blink>>
-----------------------------------------------------------------------------
Handler(c) == \/ LockSysfs(c) \/ cb_get_temperature(c) \/ LockReg(c)
              \/ cb_get_mode(c) \/ cb_get_period(c) \/ cb_set_mode(c)
              \/ cb_set_period(c) \/ AdjustManual(c) \/ Return(c)

regulator_thread_fn == \/ RtLockSample \/ RtSample \/ RtReadTemp \/ RtLockApply
                       \/ RtApply \/ AdjustAuto \/ RtWake

thread_blinkThread == Blink \/ BlinkWake

Next == \/ \E c \in Clients : Handler(c) \/ \E r \in Requests : Call(c, r)
        \/ regulator_thread_fn
        \/ thread_blinkThread
        \/ Sense

Spec == Init /\ [][Next]_vars

(* Threads and handlers run, and a mutex that is released again and again  *)
(* is handed to every waiter in the end (the kernel's mutexes hand over):  *)
(* strong fairness of a thread is strong fairness of the lock it waits     *)
(* for.  No process is obliged to make a call, nor the sensor to change.   *)
Fairness == /\ \A c \in Clients : SF_vars(Handler(c))
            /\ SF_vars(regulator_thread_fn)
            /\ WF_vars(thread_blinkThread)

FairSpec == Spec /\ Fairness
-----------------------------------------------------------------------------
(* Where a client holds sysfs_lock, and where the actors hold regulator_lock. *)
InSysfs == {"read_temp", "reg_lock", "get_mode", "get_period", "set_mode",
            "set_period", "adjust", "return"}
InReg == {"get_mode", "get_period", "set_mode", "set_period", "adjust"}
RtInReg == {"sample", "apply", "adjust"}

(* The values every variable takes; a period of zero is never among them.  *)
TypeOK ==
  /\ current_mode \in {0, 1}
  /\ current_period \in PosUInt
  /\ blink_period_ms \in Int
  /\ late \in Nat
  /\ sysfs_lock \in Clients \cup {NoOwner}
  /\ regulator_lock \in Clients \cup {NoOwner, RegThread}
  /\ pc \in [Clients -> InSysfs \cup {"idle", "sysfs_lock"}]
  /\ req \in [Clients -> Requests \cup {NoRequest}]
  /\ ret \in [Clients -> UInt]
  /\ rt \in [pc : RtInReg \cup {"sample_lock", "read_temp", "apply_lock", "sleep"},
             new_period : PosUInt]
  /\ blink \in [pc : {"run", "sleep"}, period : Int]
  /\ raw \in Raws

(* Each mutex has the owner its critical sections say it has: at most one  *)
(* handler runs inside the module, and mode and period are never touched   *)
(* by two actors at once (regulator.c:28,36,46,53,97,113, sysfs.c:23-84).  *)
LockDiscipline ==
  /\ \A c \in Clients : /\ pc[c] \in InSysfs <=> sysfs_lock = c
                        /\ pc[c] \in InReg <=> regulator_lock = c
  /\ rt.pc \in RtInReg <=> regulator_lock = RegThread

(* The copy the LED blinks with never drifts from the period that is shown *)
(* to users: whenever regulator_lock is free, blink_period_ms is the int   *)
(* made of current_period, although two actors write both, in two steps.   *)
BlinkFollowsPeriod ==
  regulator_lock = NoOwner => blink_period_ms = ToInt(current_period)

(* The mode is not looked at again before an automatic write (regulator.c: *)
(* 97-105), so one may land in manual mode; never two for one switch.      *)
RtCommitted == rt.pc \in {"read_temp", "apply_lock", "apply"}
LateWritesAtMostOne == late <= 1

(* A reader of period_status never gets 0, the value the daemon takes for  *)
(* "the module is not loaded" (daemon/application/sysfs.c:67-70).          *)
PeriodStatusNonZero ==
  \A c \in Clients : pc[c] = "return" /\ req[c].op = "get_period" => ret[c] # 0

(* For temperatures the uint32_t can hold, a warmer processor never makes  *)
(* the fan (the LED) slower, across both formulas and all thresholds.      *)
WarmerNeverSlower ==
  \A r \in Raws : MilliDegrees(raw) >= 0 /\ MilliDegrees(r) >= MilliDegrees(raw)
    => AutoPeriod(read_temp(r)) <= AutoPeriod(read_temp(raw))

(* Left in automatic mode on a processor below 35 degrees, the LED ends up *)
(* with the longest period (regulator.c:87).  The code violates it: below  *)
(* zero degrees read_temp wraps and the processor counts as a hot one.     *)
ColdRunsSlow == <>[](current_mode = 1 /\ MilliDegrees(raw) < 35000)
                  => <>[](blink.period = 500)

(* In manual mode the period changes only by a user's write (regulator.c:  *)
(* 54): no step of the regulator thread changes it.  The code violates it. *)
ManualPeriodIsUsers ==
  [][current_mode = 0 /\ regulator_thread_fn => UNCHANGED current_period]_vars

(* The module implements the promise, with the lock-protected period as    *)
(* the period and a thread past its look at the mode as what is pending.   *)
Fan == INSTANCE FanControl WITH mode <- current_mode, period <- current_period,
                                pending <- current_mode = 1 \/ RtCommitted
ImplementsFanControl == Fan!FanSpec

(* Every read and write of a sysfs file returns.                           *)
CallsReturn == \A c \in Clients : pc[c] # "idle" ~> pc[c] = "idle"

(* Left in automatic mode at a steady temperature, the LED ends up         *)
(* blinking, for good, with the period the thresholds ask for.             *)
AutoSettles ==
  \A r \in Raws : <>[](current_mode = 1 /\ raw = r)
                    => <>[](blink.period = AutoPeriod(read_temp(r)))

(* A period that stays set reaches the blink thread and stays there.       *)
PeriodReachesLed ==
  \A p \in Periods : <>[](current_period = p) => <>[](blink.period = ToInt(p))
=============================================================================
