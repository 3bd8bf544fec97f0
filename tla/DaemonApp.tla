----------------------------- MODULE DaemonApp -----------------------------
(***************************************************************************)
(* The daemon's application layer (daemon/application/app.c, sysfs.c) over *)
(* the kernel module, which appears as its abstract specification          *)
(* FanControl: the mode and the period behind the sysfs files.  Increase,  *)
(* decrease and toggle read a file and write one, under app_lock; set_mode *)
(* and set_period of the IPC thread write without that lock.  One call of  *)
(* sysfs.c is one access to one file under its own sysfs_lock: one step.   *)
(* The module may be unloaded and loaded: then a read yields 0 and a write *)
(* goes nowhere.                                                           *)
(*                                                                         *)
(* An operator named F_something is F with a plausible bug in it, which no *)
(* behaviour of this specification has.                                    *)
(***************************************************************************)
EXTENDS FanControl

CONSTANTS LockedOps,   \* of "increase", "decrease", "toggle": those called
          DirectModes, \* the values of set_mode messages
          DirectPeriods, \* the values of set_period messages
          MaxPeriod,   \* bound: no increase starts while a period above it is in use
          Reloads      \* whether the module is unloaded and loaded meanwhile

GAP_PERIOD_MS == 50
Threads == {"button", "ipc"}
NoThread == "nobody"

ASSUME DaemonAssumption == /\ LockedOps \subseteq {"increase", "decrease", "toggle"}
                           /\ DirectModes \subseteq UInt /\ DirectPeriods \subseteq UInt
                           /\ MaxPeriod \in UInt /\ Reloads \in BOOLEAN

VARIABLES loaded,    \* the kernel module is there
          app_lock,  \* owner of app.c:16
          at, call,  \* of each thread: where it is, and its call
          seen,      \* the value it read
          dirty      \* history: what it read was changed since, without app_lock

kernelVars == <<mode, period, pending, loaded>>
daemonVars == <<kernelVars, app_lock, at, call, seen, dirty>>

Locked == [op : LockedOps, arg : {0}]
Direct == [op : {"set_mode"}, arg : DirectModes]
            \cup [op : {"set_period"}, arg : DirectPeriods]
NoCall == [op |-> "none", arg |-> 0]

(* The callbacks main registers: only buttons toggle, only messages set.   *)
CallsOf(t) == IF t = "ipc" THEN {c \in Locked : c.op # "toggle"} \cup Direct ELSE Locked

DaemonInit == /\ FanInit /\ loaded = TRUE
              /\ app_lock = NoThread
              /\ at = [t \in Threads |-> "idle"]
              /\ call = [t \in Threads |-> NoCall]
              /\ seen = [t \in Threads |-> 0]
              /\ dirty = [t \in Threads |-> FALSE]

AtGoto(t, label) == at' = [at EXCEPT ![t] = label]

(* What happens now to the files is missed by a thread that has read them  *)
(* under app_lock and has not written yet.                                 *)
Soil == dirty' = [t \in Threads |->
                    \/ dirty[t]
                    \/ at[t] = "write" /\ app_lock = t
                         /\ <<mode, period, loaded>>' # <<mode, period, loaded>>]

Finish(t) == /\ AtGoto(t, "idle")
             /\ call' = [call EXCEPT ![t] = NoCall]
             /\ seen' = [seen EXCEPT ![t] = 0]
-----------------------------------------------------------------------------
(* The accesses of daemon/application/sysfs.c and what the kernel does.    *)

(* The value read, or 0 without a module.                                  *)
FileValue_error(op) == IF ~loaded THEN -1 ELSE IF op = "toggle" THEN mode ELSE period
FileValue(op) == IF ~loaded THEN 0 ELSE IF op = "toggle" THEN mode ELSE period

sysfs_set_period(p) == IF loaded /\ mode = 0 /\ p > 0
                         THEN period' = p /\ UNCHANGED <<mode, pending, loaded>>
                         ELSE UNCHANGED kernelVars

sysfs_set_mode(m) == IF loaded /\ m \in {0, 1}
                       THEN SetMode /\ mode' = m /\ UNCHANGED loaded
                       ELSE UNCHANGED kernelVars
-----------------------------------------------------------------------------
(* increase_period, decrease_period and mode_toggle.                       *)

Begin(t) == /\ at[t] = "idle"
            /\ \E c \in CallsOf(t) :
                 /\ c.op = "increase" => /\ period <= MaxPeriod
                                         /\ \A u \in Threads : seen[u] <= MaxPeriod
                 /\ call' = [call EXCEPT ![t] = c]
                 /\ AtGoto(t, IF c \in Direct THEN "write" ELSE "app_lock")
            /\ UNCHANGED <<kernelVars, app_lock, seen, dirty>>

LockApp_nowait(t) == /\ at[t] = "app_lock"
                     /\ app_lock' = t
                     /\ AtGoto(t, "read")
                     /\ UNCHANGED <<kernelVars, call, seen, dirty>>

LockApp(t) == /\ at[t] = "app_lock" /\ app_lock = NoThread
              /\ app_lock' = t
              /\ AtGoto(t, "read")
              /\ UNCHANGED <<kernelVars, call, seen, dirty>>

(* decrease_period gives up on a period it cannot shorten.                 *)
TooShort_off(op, v) == FALSE
TooShort(op, v) == op = "decrease" /\ v <= GAP_PERIOD_MS

Read(t) == /\ at[t] = "read"
           /\ LET v == FileValue(call[t].op)
              IN \/ /\ TooShort(call[t].op, v)
                    /\ Finish(t)
                    /\ app_lock' = NoThread
                 \/ /\ ~TooShort(call[t].op, v)
                    /\ seen' = [seen EXCEPT ![t] = v]
                    /\ AtGoto(t, "write")
                    /\ UNCHANGED <<app_lock, call>>
           /\ UNCHANGED <<kernelVars, dirty>>

(* The new period is a uint32_t again; the new mode is the old one ^ 1.    *)
NewValue(op, v) == CASE op = "increase" -> (v + GAP_PERIOD_MS) % WordMod
                     [] op = "decrease" -> (v - GAP_PERIOD_MS) % WordMod
                     [] op = "toggle"   -> 1 - v

WriteNew(t) == LET op == call[t].op
               IN IF op = "toggle" THEN sysfs_set_mode(NewValue(op, seen[t]))
                                   ELSE sysfs_set_period(NewValue(op, seen[t]))

WriteLocked_leak(t) == /\ at[t] = "write" /\ call[t] \in Locked
                       /\ WriteNew(t)
                       /\ dirty' = [dirty EXCEPT ![t] = FALSE]
                       /\ Finish(t)
                       /\ UNCHANGED app_lock

WriteLocked(t) == /\ at[t] = "write" /\ call[t] \in Locked
                  /\ WriteNew(t)
                  /\ app_lock' = NoThread
                  /\ dirty' = [dirty EXCEPT ![t] = FALSE]
                  /\ Finish(t)

(* set_period and set_mode, which take no lock of the application.         *)
WriteDirect(t) == /\ at[t] = "write" /\ call[t] \in Direct
                  /\ IF call[t].op = "set_mode" THEN sysfs_set_mode(call[t].arg)
                                                ELSE sysfs_set_period(call[t].arg)
                  /\ Finish(t)
                  /\ Soil
                  /\ UNCHANGED app_lock
-----------------------------------------------------------------------------
(* The kernel module meanwhile: its thread adjusts the period, and it may  *)
(* be unloaded and loaded.  The values a load starts from are set as soon  *)
(* as the module is gone, when nobody can read them.                       *)

KernelAdjusts == /\ loaded /\ Adjust
                 /\ UNCHANGED <<loaded, app_lock, at, call, seen>>
                 /\ Soil

Unload == /\ Reloads /\ loaded
          /\ loaded' = FALSE
          /\ mode' = 1 /\ period' = 1000 /\ pending' = TRUE
          /\ Soil
          /\ UNCHANGED <<app_lock, at, call, seen>>

Load == /\ ~loaded
        /\ loaded' = TRUE
        /\ UNCHANGED <<mode, period, pending, app_lock, at, call, seen>>
        /\ Soil

ThreadStep(t) == LockApp(t) \/ Read(t) \/ WriteLocked(t) \/ WriteDirect(t)

DaemonNext == \/ \E t \in Threads : Begin(t) \/ ThreadStep(t)
              \/ KernelAdjusts \/ Unload \/ Load

DaemonSpec == DaemonInit /\ [][DaemonNext]_daemonVars

(* Threads are scheduled, and a mutex free again and again is obtained.    *)
(* Nobody has to press a button or send a message.                         *)
DaemonFairSpec == DaemonSpec /\ \A t \in Threads : SF_daemonVars(ThreadStep(t))
-----------------------------------------------------------------------------
(* Types; a thread without a call carries nothing.                         *)
DaemonTypeOK ==
  /\ mode \in {0, 1} /\ 0 < period /\ period < WordMod
  /\ pending \in BOOLEAN /\ loaded \in BOOLEAN
  /\ app_lock \in Threads \cup {NoThread}
  /\ \A t \in Threads :
       /\ at[t] \in {"idle", "app_lock", "read", "write"}
       /\ call[t] \in CallsOf(t) \cup {NoCall}
       /\ 0 <= seen[t] /\ seen[t] < WordMod
       /\ dirty[t] \in BOOLEAN

(* No increase, decrease or toggle is lost to another one: the one that    *)
(* ends starts from the value in the file, unless a writer that takes no   *)
(* app_lock came in between (app.c:36-65), so two presses are two steps.   *)
(* The kernel ignores a new period of 0 and periods in automatic mode.     *)
UpdatesAreAtomic ==
  [][\A t \in Threads :
       LET new == NewValue(call[t].op, IF call[t].op = "toggle" THEN mode ELSE period)
       IN at[t] = "write" /\ at'[t] = "idle" /\ call[t] \in Locked /\ loaded /\ ~dirty[t]
            => IF call[t].op = "toggle" THEN mode' = new
               ELSE mode = 0 /\ new > 0 => period' = new]_daemonVars

(* Whoever interleaves, and also around a reload: as long as messages set  *)
(* periods that fit an int, the LED never gets one that does not, for      *)
(* decrease_period does not wrap (app.c:46).                               *)
NeverFreezes == ToInt(period) > 0

(* Every call into the application layer returns.                          *)
EveryCallReturns == \A t \in Threads : at[t] # "idle" ~> at[t] = "idle"
=============================================================================
