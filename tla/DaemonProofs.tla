---------------------------- MODULE DaemonProofs ----------------------------
(***************************************************************************)
(* Theorems about DaemonApp, for any messages, any choice of operations,   *)
(* with and without reloads of the kernel module.                          *)
(***************************************************************************)
EXTENDS DaemonApp, TLAPS

LEMMA WordModBig == WordMod \in Nat /\ WordMod >= 1048576
  BY WordModAssumption

LEMMA Words == /\ {0, 1} \subseteq UInt /\ 1000 \in PosUInt
               /\ AutoPeriods \subseteq PosUInt
               /\ PosUInt = UInt \ {0}
               /\ \A v \in UInt : v \in Int /\ 0 <= v /\ v < WordMod
  BY WordModBig, SMT DEF UInt, PosUInt, AutoPeriods

(* A uint32_t plus or minus the gap is a uint32_t.                         *)
LEMMA NewPeriodType == ASSUME NEW v \in UInt, NEW op \in {"increase", "decrease"}
                       PROVE  NewValue(op, v) \in UInt
<1>1. \A x \in Int : x % WordMod \in 0 .. WordMod - 1
  BY WordModBig, SMT
<1>2. v + GAP_PERIOD_MS \in Int /\ v - GAP_PERIOD_MS \in Int
  BY Words DEF GAP_PERIOD_MS
<1> QED
  BY <1>1, <1>2 DEF NewValue, UInt

(* Whatever is written, the kernel keeps a mode and a period.              *)
LEMMA SetPeriodType == ASSUME NEW p \in UInt, sysfs_set_period(p),
                              period \in PosUInt, pending \in BOOLEAN, mode \in {0, 1}
                       PROVE  /\ period' \in PosUInt /\ pending' \in BOOLEAN
                              /\ mode' \in {0, 1} /\ loaded' = loaded
  BY Words DEF sysfs_set_period, kernelVars

LEMMA SetModeType == ASSUME NEW m, sysfs_set_mode(m),
                            period \in PosUInt, pending \in BOOLEAN, mode \in {0, 1}
                     PROVE  /\ period' \in PosUInt /\ pending' \in BOOLEAN
                            /\ mode' \in {0, 1} /\ loaded' = loaded
  BY DEF sysfs_set_mode, SetMode, kernelVars

(* Where a thread is in its call, and who has app_lock.                    *)
HoldsApp(t) == at[t] = "read" \/ (at[t] = "write" /\ call[t] \in Locked)

Shape == /\ at \in [Threads -> {"idle", "app_lock", "read", "write"}]
         /\ call \in [Threads -> Locked \cup Direct \cup {NoCall}]
         /\ seen \in [Threads -> UInt]
         /\ period \in PosUInt /\ pending \in BOOLEAN
         /\ dirty \in [Threads -> BOOLEAN]
         /\ mode \in {0, 1} /\ loaded \in BOOLEAN
         /\ app_lock \in Threads \cup {NoThread}
         /\ \A t \in Threads : /\ call[t] \in CallsOf(t) \cup {NoCall}
                               /\ at[t] \in {"app_lock", "read"} => call[t] \in Locked
                               /\ at[t] = "write" => call[t] \in Locked \cup Direct
                               /\ HoldsApp(t) <=> app_lock = t

(* What a thread carries from its read to its write is what the file holds *)
(* as long as nobody wrote without app_lock.                               *)
Fresh == \A t \in Threads :
           at[t] = "write" /\ call[t] \in Locked /\ loaded /\ ~dirty[t]
             => seen[t] = FileValue(call[t].op)

LEMMA LockedIsNotDirect == ASSUME NEW c \in Locked
                           PROVE  /\ c \notin Direct /\ c # NoCall
                                  /\ c.op \in {"increase", "decrease", "toggle"}
  <1>1. c.op \in {"increase", "decrease", "toggle"}
    BY DaemonAssumption DEF Locked
  <1>2. \A d \in Direct : d.op \in {"set_mode", "set_period"}
    BY DEF Direct
  <1>3. NoCall.op = "none"
    BY DEF NoCall
  <1> QED
    BY <1>1, <1>2, <1>3

LEMMA ShapeInit == DaemonInit => Shape /\ Fresh
  BY Words DEF DaemonInit, FanInit, Shape, Fresh, HoldsApp, NoCall, Threads, NoThread

LEMMA SoilType == Soil => dirty' \in [Threads -> BOOLEAN]
  BY DEF Soil

(* Each step of a thread, and each step of the kernel.                     *)
LEMMA ShapeNext == Shape /\ Fresh /\ [DaemonNext]_daemonVars => (Shape /\ Fresh)'
<1> SUFFICES ASSUME Shape, Fresh, [DaemonNext]_daemonVars
             PROVE  (Shape /\ Fresh)'
  OBVIOUS
<1> USE DEF Shape, Fresh, HoldsApp, AtGoto, kernelVars
<1>0. NoThread \notin Threads
  BY DEF NoThread, Threads
<1>1. ASSUME NEW t \in Threads, Begin(t) PROVE (Shape /\ Fresh)'
  <2>1. PICK c \in CallsOf(t) : /\ call' = [call EXCEPT ![t] = c]
                                /\ AtGoto(t, IF c \in Direct THEN "write" ELSE "app_lock")
    BY <1>1 DEF Begin
  <2>2. c \in Locked \/ c \in Direct
    BY DEF CallsOf
  <2>3. CASE c \in Locked
    <3>1. c \notin Direct
      BY <2>3, LockedIsNotDirect
    <3> QED
      BY <1>1, <2>1, <2>3, <3>1 DEF Begin, FileValue
  <2>4. CASE c \in Direct
    <3>1. c \notin Locked
      BY <2>4, LockedIsNotDirect
    <3> QED
      BY <1>1, <2>1, <2>4, <3>1 DEF Begin, FileValue
  <2> QED
    BY <2>2, <2>3, <2>4
<1>2. ASSUME NEW t \in Threads, LockApp(t) PROVE (Shape /\ Fresh)'
  BY <1>0, <1>2 DEF LockApp, FileValue
<1>3. ASSUME NEW t \in Threads, Read(t) PROVE (Shape /\ Fresh)'
  <2> DEFINE v == FileValue(call[t].op)
  <2>1. v \in UInt
    BY Words DEF FileValue
  <2>2. CASE TooShort(call[t].op, v)
    BY <1>0, <1>3, <2>2, Words, SMT DEF Read, Finish, FileValue
  <2>3. CASE ~TooShort(call[t].op, v)
    BY <1>0, <1>3, <2>1, <2>3, SMT DEF Read, FileValue
  <2> QED
    BY <2>2, <2>3
<1>4. ASSUME NEW t \in Threads, WriteLocked(t) PROVE (Shape /\ Fresh)'
  <2> DEFINE op == call[t].op
  <2>1. /\ period' \in PosUInt /\ pending' \in BOOLEAN
        /\ mode' \in {0, 1} /\ loaded' = loaded
    <3>1. op \in {"increase", "decrease", "toggle"} /\ WriteNew(t)
      BY <1>4, LockedIsNotDirect DEF WriteLocked
    <3>2. CASE op = "toggle"
      BY <3>1, <3>2, SetModeType DEF WriteNew
    <3>3. CASE op \in {"increase", "decrease"}
      <4>1. NewValue(op, seen[t]) \in UInt
        BY <3>3, NewPeriodType
      <4> QED
        BY <3>1, <3>3, <4>1, SetPeriodType DEF WriteNew
    <3> QED
      BY <3>1, <3>2, <3>3
  <2>2. Shape'
    BY <1>0, <1>4, <2>1, Words DEF WriteLocked, Finish
  <2>3. \A u \in Threads : ~(at'[u] = "write" /\ call'[u] \in Locked)
    BY <1>0, <1>4, <2>2 DEF WriteLocked, Finish
  <2> QED
    BY <2>2, <2>3
<1>5. ASSUME NEW t \in Threads, WriteDirect(t) PROVE (Shape /\ Fresh)'
  <2>1. /\ period' \in PosUInt /\ pending' \in BOOLEAN
        /\ mode' \in {0, 1} /\ loaded' = loaded
    <3>1. call[t].op = "set_period" \/ call[t].op = "set_mode"
      BY <1>5 DEF WriteDirect, Direct
    <3>2. CASE call[t].op = "set_mode"
      BY <1>5, <3>2, SetModeType DEF WriteDirect
    <3>3. CASE call[t].op = "set_period"
      <4>1. call[t].arg \in UInt
        BY <1>5, <3>3, DaemonAssumption DEF WriteDirect, Direct
      <4> QED
        BY <1>5, <3>3, <4>1, SetPeriodType DEF WriteDirect
    <3> QED
      BY <3>1, <3>2, <3>3
  <2>2. call[t] \notin Locked
    BY <1>5, LockedIsNotDirect DEF WriteDirect
  <2>3. Shape'
    BY <1>0, <1>5, <2>1, <2>2, Words DEF WriteDirect, Finish, Soil
  <2>4. Fresh'
    BY <1>0, <1>5, <2>1, <2>2 DEF WriteDirect, Finish, Soil, FileValue
  <2> QED
    BY <2>3, <2>4
<1>6. CASE KernelAdjusts
  BY <1>0, <1>6, Words DEF KernelAdjusts, Adjust, Soil, FileValue
<1>7. CASE Unload
  <2>1. period' = 1000 /\ mode' = 1 /\ UNCHANGED <<app_lock, at, call, seen>>
    BY <1>7 DEF Unload
  <2>2. /\ period' \in PosUInt /\ mode' \in {0, 1}
        /\ pending' \in BOOLEAN /\ loaded' \in BOOLEAN /\ ~loaded'
    <3>1. pending' = TRUE /\ loaded' = FALSE
      BY <1>7 DEF Unload
    <3>2. pending' \in BOOLEAN /\ loaded' \in BOOLEAN /\ ~loaded'
      BY <3>1, Zenon
    <3>3. period' \in PosUInt /\ mode' \in {0, 1}
      BY <2>1, Words
    <3> QED
      BY <3>2, <3>3
  <2>3. dirty' \in [Threads -> BOOLEAN]
    <3>1. Soil
      BY <1>7 DEF Unload
    <3> QED
      BY <3>1, SoilType, Zenon
  <2>4. Shape'
    BY <2>1, <2>2, <2>3
  <2>5. Fresh'
    BY <2>2, Zenon
  <2> QED
    BY <2>4, <2>5
<1>8. CASE Load
  BY <1>0, <1>8 DEF Load, Soil, FileValue
<1>9. CASE UNCHANGED daemonVars
  BY <1>9 DEF daemonVars, FileValue
<1> QED
  BY <1>1, <1>2, <1>3, <1>4, <1>5, <1>6, <1>7, <1>8, <1>9 DEF DaemonNext, ThreadStep

LEMMA ShapeAlways == DaemonSpec => [](Shape /\ Fresh)
  BY ShapeInit, ShapeNext, PTL DEF DaemonSpec

(* The files of a loaded module always hold a mode and a positive period,  *)
(* and the threads' locals are what their types say.                       *)
THEOREM DaemonTypeCorrect == DaemonSpec => []DaemonTypeOK
<1>1. Shape => DaemonTypeOK
  <2> SUFFICES ASSUME Shape PROVE DaemonTypeOK
    OBVIOUS
  <2>1. 0 < period /\ period < WordMod
    BY WordModBig, SMT DEF Shape, PosUInt
  <2>2. \A t \in Threads : 0 <= seen[t] /\ seen[t] < WordMod
    <3>1. TAKE t \in Threads
    <3>2. seen[t] \in UInt
      BY DEF Shape
    <3> QED
      BY <3>2, Words
  <2>3. app_lock \in Threads \cup {NoThread}
    BY DEF Shape
  <2> QED
    BY <2>1, <2>2, <2>3 DEF Shape, DaemonTypeOK
<1> QED
  BY <1>1, ShapeAlways, PTL

(* An increase, a decrease or a toggle takes effect on the value that the  *)
(* file holds at that moment, unless a writer without app_lock or a reload *)
(* came in between (app.c:36-65).                                          *)
THEOREM AtomicUpdates == DaemonSpec => UpdatesAreAtomic
<1> DEFINE Now(t) == IF call[t].op = "toggle" THEN mode ELSE period
           Atomic == \A t \in Threads :
             LET new == NewValue(call[t].op, Now(t))
             IN at[t] = "write" /\ at'[t] = "idle" /\ call[t] \in Locked /\ loaded /\ ~dirty[t]
                  => IF call[t].op = "toggle" THEN mode' = new
                     ELSE mode = 0 /\ new > 0 => period' = new
<1>1. Shape /\ Fresh /\ [DaemonNext]_daemonVars => Atomic
  <2> SUFFICES ASSUME Shape, Fresh, [DaemonNext]_daemonVars, NEW t \in Threads,
                      at[t] = "write", at'[t] = "idle", call[t] \in Locked, loaded, ~dirty[t]
               PROVE  IF call[t].op = "toggle" THEN mode' = NewValue(call[t].op, Now(t))
                      ELSE mode = 0 /\ NewValue(call[t].op, Now(t)) > 0
                             => period' = NewValue(call[t].op, Now(t))
    OBVIOUS
  <2>1. seen[t] = Now(t)
    BY DEF Fresh, FileValue
(* Nothing but its own locked write takes t back to idle from there.       *)
  <2>2. WriteLocked(t)
    <3>1. call[t] \notin Direct
      BY LockedIsNotDirect
    <3>2. ~UNCHANGED at
      OBVIOUS
    <3>3. ASSUME NEW u \in Threads, u # t PROVE ~(Begin(u) \/ ThreadStep(u))
      BY <3>3 DEF Shape, Begin, ThreadStep, LockApp, Read, WriteLocked, WriteDirect,
                  Finish, AtGoto
    <3> QED
      BY <3>1, <3>2, <3>3 DEF DaemonNext, ThreadStep, Begin, LockApp, Read, WriteDirect,
                              KernelAdjusts, Unload, Load, daemonVars
  <2>3. CASE call[t].op = "toggle"
    <3>1. mode \in {0, 1} /\ NewValue(call[t].op, mode) = 1 - mode
      BY <2>3 DEF Shape, NewValue
    <3>2. NewValue(call[t].op, mode) \in {0, 1}
      BY <3>1
    <3>3. sysfs_set_mode(NewValue(call[t].op, mode))
      BY <2>1, <2>2, <2>3 DEF WriteLocked, WriteNew
    <3> QED
      BY <2>3, <3>2, <3>3 DEF sysfs_set_mode
  <2>4. CASE call[t].op # "toggle"
    BY <2>1, <2>2, <2>4 DEF WriteLocked, WriteNew, sysfs_set_period
  <2> QED
    BY <2>3, <2>4
<1> QED
  BY <1>1, ShapeAlways, PTL DEF DaemonSpec, UpdatesAreAtomic
-----------------------------------------------------------------------------
(* The int a period becomes stays positive.  A call to increase_period may *)
(* begin while another one is under way, and finds the file changed when   *)
(* it reads it: each one under way needs room for its step.                *)
Half == WordMod \div 2
Coming(t) == IF call[t].op = "increase" THEN GAP_PERIOD_MS ELSE 0
AllComing == Coming("button") + Coming("ipc")

InReach ==
  /\ period + AllComing < Half
  /\ \A t \in Threads :
       at[t] = "write" /\ call[t] \in Locked
         => /\ seen[t] + AllComing < Half
            /\ call[t].op = "decrease" => seen[t] > GAP_PERIOD_MS

(* What messages may set, and the bound below which an increase begins,    *)
(* leave room for the steps that can follow at once.                       *)
RoomForSteps == /\ \A p \in DirectPeriods : p + GAP_PERIOD_MS < Half
                /\ MaxPeriod + 2 * GAP_PERIOD_MS < Half

LEMMA ModeKeepsPeriod == ASSUME NEW m, sysfs_set_mode(m) PROVE period' = period
<1>1. SetMode => period' = period
  BY Zenon DEF SetMode
<1> QED
  BY <1>1, Zenon DEF sysfs_set_mode, kernelVars

LEMMA HalfBig == /\ WordMod \in Nat /\ Half \in Nat /\ Half <= WordMod
                 /\ GAP_PERIOD_MS = 50
  BY WordModAssumption, SMT DEF Half, GAP_PERIOD_MS

LEMMA RoomAtStart == 1000 + 2 * GAP_PERIOD_MS < Half
  BY WordModAssumption, SMT DEF Half, GAP_PERIOD_MS

LEMMA ComingType == \A t : Coming(t) = 0 \/ Coming(t) = 50
  BY DEF Coming, GAP_PERIOD_MS

(* A step that adds nothing to the period, nor to what is coming.          *)
(* Cited for primed values, which the arithmetic backend types badly.      *)
LEMMA SumBelow == \A a, b, c, d, h \in Int : c + d < h /\ a <= c /\ b <= d => a + b < h
  OBVIOUS

LEMMA StillInReach ==
  ASSUME Shape, InReach, Shape',
         period' <= period \/ period' + 2 * GAP_PERIOD_MS < Half,
         \A t \in Threads : Coming(t)' <= Coming(t),
         \A t \in Threads : at'[t] = "write" /\ call'[t] \in Locked
           => at[t] = "write" /\ call[t] = call'[t] /\ seen[t] = seen'[t]
  PROVE  InReach'
<1> USE HalfBig
<1>1. /\ AllComing' <= AllComing /\ AllComing' <= 100 /\ AllComing <= 100
      /\ AllComing \in Int /\ AllComing' \in Int
  <2>1. \A t : Coming(t)' = 0 \/ Coming(t)' = 50
    BY DEF Coming, GAP_PERIOD_MS
  <2> QED
    BY <2>1, ComingType DEF AllComing, Threads
<1>2. period \in Int /\ period' \in Int
  BY Words DEF Shape
<1>3. period' + AllComing' < Half
  <2>1. Half \in Int /\ 100 \in Int
    OBVIOUS
  <2>2. CASE period' <= period
    BY <1>1, <1>2, <2>1, <2>2, SumBelow, Zenon DEF InReach
  <2>3. CASE period' + 100 < Half
    <3>1. period' <= period'
      BY <1>2
    <3>2. AllComing' <= 100 /\ AllComing' \in Int /\ period' \in Int
      BY <1>1, <1>2
    <3> QED
      BY <2>1, <2>3, <3>1, <3>2, SumBelow, Zenon
  <2>4. 2 * GAP_PERIOD_MS = 100
    OBVIOUS
  <2> QED
    BY <2>2, <2>3, <2>4
<1>4. ASSUME NEW t \in Threads, at'[t] = "write", call'[t] \in Locked
      PROVE  /\ seen'[t] + AllComing' < Half
             /\ call'[t].op = "decrease" => seen'[t] > GAP_PERIOD_MS
  <2>1. seen[t] \in Int
    BY Words DEF Shape
  <2> QED
    BY <1>1, <1>4, <2>1 DEF InReach
<1> QED
  BY <1>3, <1>4 DEF InReach, Half

LEMMA InReachNext ==
  ASSUME RoomForSteps, Shape, Fresh, InReach, [DaemonNext]_daemonVars
  PROVE  InReach'
<1> USE HalfBig
<1>0. Shape' /\ NoThread \notin Threads
  BY ShapeNext DEF NoThread, Threads
<1>1. ASSUME NEW t \in Threads, Begin(t) PROVE InReach'
  <2>1. PICK c \in CallsOf(t) :
          /\ c.op = "increase" => period <= MaxPeriod /\ \A u \in Threads : seen[u] <= MaxPeriod
          /\ call' = [call EXCEPT ![t] = c]
          /\ AtGoto(t, IF c \in Direct THEN "write" ELSE "app_lock")
    BY <1>1 DEF Begin
  <2>2. period' = period /\ seen' = seen
    BY <1>1 DEF Begin, kernelVars
  <2>3. \A u \in Threads : at'[u] = "write" /\ call'[u] \in Locked
          => at[u] = "write" /\ call[u] = call'[u] /\ seen[u] = seen'[u]
    <3>1. c \in Locked => c \notin Direct
      BY LockedIsNotDirect
    <3> QED
      BY <2>1, <2>2, <3>1 DEF Shape, AtGoto
  <2>4. CASE c.op = "increase"
    <3>1. period + 2 * GAP_PERIOD_MS < Half
          /\ \A u \in Threads : seen[u] + 2 * GAP_PERIOD_MS < Half
      <4>1. MaxPeriod \in Int /\ period \in Int /\ \A u \in Threads : seen[u] \in Int
        BY DaemonAssumption, Words DEF Shape
      <4> QED
        BY <2>1, <2>4, <4>1 DEF RoomForSteps
    <3>2. AllComing' <= 100 /\ AllComing' \in Int
      <4>1. \A u : Coming(u)' = 0 \/ Coming(u)' = 50
        BY DEF Coming, GAP_PERIOD_MS
      <4> QED
        BY <4>1 DEF AllComing, Threads
    <3>3. period' + AllComing' < Half
      <4>1. period \in Int
        BY Words DEF Shape
      <4>2. period' \in Int /\ period' + 100 < Half
        BY <2>2, <3>1, <4>1
      <4>3. 100 \in Int /\ Half \in Int
        OBVIOUS
      <4>4. period' <= period'
        BY <4>2
      <4> QED
        BY <3>2, <4>2, <4>3, <4>4, SumBelow, Zenon
    <3>4. ASSUME NEW u \in Threads, at'[u] = "write", call'[u] \in Locked
          PROVE  /\ seen'[u] + AllComing' < Half
                 /\ call'[u].op = "decrease" => seen'[u] > GAP_PERIOD_MS
      <4>1. seen[u] \in Int
        BY Words DEF Shape
      <4> QED
        BY <2>2, <2>3, <3>1, <3>2, <3>4, <4>1 DEF InReach
    <3> QED
      BY <3>3, <3>4 DEF InReach, Half
  <2>5. CASE c.op # "increase"
    <3>1. \A u \in Threads : Coming(u)' <= Coming(u)
      BY <2>1, <2>5, ComingType DEF Coming, Shape
    <3>2. period' <= period
      BY <2>2, Words DEF Shape
    <3> QED
      BY <1>0, <2>3, <3>1, <3>2, StillInReach
  <2> QED
    BY <2>4, <2>5
<1>2. ASSUME NEW t \in Threads, LockApp(t) PROVE InReach'
  <2>1. period' = period /\ call' = call /\ seen' = seen
    BY <1>2 DEF LockApp, kernelVars
  <2>2. \A u \in Threads : at'[u] = "write" => at[u] = "write"
    BY <1>2 DEF LockApp, AtGoto, Shape
  <2>3. period' <= period /\ \A u \in Threads : Coming(u)' <= Coming(u)
    BY <2>1, ComingType, Words DEF Coming, Shape
  <2> QED
    BY <1>0, <2>1, <2>2, <2>3, StillInReach
<1>3. ASSUME NEW t \in Threads, Read(t) PROVE InReach'
  <2> DEFINE v == FileValue(call[t].op)
  <2>1. period' = period /\ period \in Int
    BY <1>3, Words DEF Read, kernelVars, Shape
  <2>2. CASE TooShort(call[t].op, v)
    <3>1. /\ at' = [at EXCEPT ![t] = "idle"] /\ call' = [call EXCEPT ![t] = NoCall]
          /\ seen' = [seen EXCEPT ![t] = 0]
      BY <1>3, <2>2 DEF Read, Finish, AtGoto
    <3>2. \A u \in Threads : Coming(u)' <= Coming(u)
      BY <3>1, ComingType DEF Coming, Shape, NoCall
    <3>3. \A u \in Threads : at'[u] = "write" /\ call'[u] \in Locked
            => at[u] = "write" /\ call[u] = call'[u] /\ seen[u] = seen'[u]
      BY <3>1 DEF Shape
    <3>4. period' <= period
      BY <2>1
    <3> QED
      BY <1>0, <3>2, <3>3, <3>4, StillInReach
  <2>3. CASE ~TooShort(call[t].op, v)
    <3>1. call' = call /\ at' = [at EXCEPT ![t] = "write"] /\ seen' = [seen EXCEPT ![t] = v]
      BY <1>3, <2>3 DEF Read, AtGoto
    <3>2. AllComing' = AllComing /\ AllComing \in Int
      BY <3>1, ComingType DEF AllComing, Coming
    <3>3. v \in Int /\ v <= period
      BY Words, <2>1 DEF FileValue, Shape, PosUInt
    <3>4. call[t].op = "decrease" => v > GAP_PERIOD_MS
      BY <2>3, <3>3 DEF TooShort
    <3>5. ASSUME NEW u \in Threads, at'[u] = "write", call'[u] \in Locked
          PROVE  /\ seen'[u] + AllComing' < Half
                 /\ call'[u].op = "decrease" => seen'[u] > GAP_PERIOD_MS
      BY <2>1, <3>1, <3>2, <3>3, <3>4, <3>5 DEF InReach, Shape
    <3> QED
      BY <2>1, <3>2, <3>5 DEF InReach, Half
  <2> QED
    BY <2>2, <2>3
<1>4. ASSUME NEW t \in Threads, WriteLocked(t) PROVE InReach'
  <2>1. /\ at' = [at EXCEPT ![t] = "idle"] /\ call' = [call EXCEPT ![t] = NoCall]
        /\ seen' = [seen EXCEPT ![t] = 0] /\ at[t] = "write" /\ call[t] \in Locked
    BY <1>4 DEF WriteLocked, Finish, AtGoto
  <2>2. call[t].op \in {"increase", "decrease", "toggle"} /\ seen[t] \in Int /\ seen[t] >= 0
    BY <2>1, LockedIsNotDirect, Words DEF Shape
  <2>3. period \in Int
    BY Words DEF Shape
  <2>4. \A u \in Threads : Coming(u)' <= Coming(u) /\ (u # t => Coming(u)' = Coming(u))
    BY <2>1, ComingType DEF Coming, Shape, NoCall
(* Nobody else is at a locked write: t has app_lock.                       *)
  <2>5. \A u \in Threads : ~(at'[u] = "write" /\ call'[u] \in Locked)
    <3>1. \A u \in Threads \ {t} : ~(at[u] = "write" /\ call[u] \in Locked)
      BY <2>1 DEF Shape, HoldsApp
    <3> QED
      BY <2>1, <3>1 DEF Shape
  <2>6. CASE call[t].op = "increase"
    <3>1. AllComing' = AllComing - 50 /\ AllComing \in Int
      <4>1. Coming(t) = 50 /\ Coming(t)' = 0
        BY <2>1, <2>6 DEF Coming, GAP_PERIOD_MS, NoCall, Shape
      <4> QED
        BY <2>4, <4>1, ComingType DEF AllComing, Threads
    <3>2. period' = period \/ period' = (seen[t] + 50) % WordMod
      BY <1>4, <2>6 DEF WriteLocked, WriteNew, NewValue, sysfs_set_period, kernelVars
    <3>3. seen[t] + AllComing < Half /\ AllComing >= 50
      <4>1. Coming(t) = 50
        BY <2>6 DEF Coming
      <4> QED
        BY <2>1, <4>1, ComingType DEF InReach, AllComing, Threads
    <3>4. \A x \in Nat : x < WordMod => x % WordMod = x
      BY SMT
    <3>5. (seen[t] + 50) % WordMod = seen[t] + 50
      BY <2>2, <3>1, <3>3, <3>4
    <3>6. period' + AllComing' < Half
      BY <2>2, <2>3, <3>1, <3>2, <3>3, <3>5 DEF InReach
    <3> QED
      BY <2>5, <3>6 DEF InReach, Half
  <2>7. CASE call[t].op = "decrease"
    <3>1. period' = period \/ period' = (seen[t] - 50) % WordMod
      BY <1>4, <2>7 DEF WriteLocked, WriteNew, NewValue, sysfs_set_period, kernelVars
    <3>2. seen[t] + AllComing < Half /\ seen[t] > 50
      BY <2>1, <2>7 DEF InReach
    <3>3. \A x \in Nat : x < WordMod => x % WordMod = x
      BY SMT
    <3>4. (seen[t] - 50) % WordMod = seen[t] - 50 /\ AllComing' <= AllComing
          /\ AllComing' \in Int /\ AllComing \in Int
      <4>1. AllComing' <= AllComing /\ AllComing' \in Int /\ AllComing \in 0 .. 100
        <5>1. \A u : Coming(u)' = 0 \/ Coming(u)' = 50
          BY DEF Coming, GAP_PERIOD_MS
        <5> QED
          BY <2>4, <5>1, ComingType DEF AllComing, Threads
      <4> QED
        BY <2>2, <3>2, <3>3, <4>1
    <3>5. period' + AllComing' < Half
      BY <2>2, <2>3, <3>1, <3>2, <3>4 DEF InReach
    <3> QED
      BY <2>5, <3>5 DEF InReach, Half
  <2>8. CASE call[t].op = "toggle"
    <3>1. period' = period
      BY <1>4, <2>8, ModeKeepsPeriod DEF WriteLocked, WriteNew
    <3> QED
      BY <1>0, <2>3, <2>4, <2>5, <3>1, StillInReach
  <2> QED
    BY <2>2, <2>6, <2>7, <2>8
<1>5. ASSUME NEW t \in Threads, WriteDirect(t) PROVE InReach'
  <2>1. /\ at' = [at EXCEPT ![t] = "idle"] /\ call' = [call EXCEPT ![t] = NoCall]
        /\ seen' = [seen EXCEPT ![t] = 0] /\ at[t] = "write" /\ call[t] \in Direct
    BY <1>5 DEF WriteDirect, Finish, AtGoto
  <2>2. call[t].op \in {"set_mode", "set_period"} /\ Coming(t) = 0
    BY <2>1 DEF Direct, Coming
  <2>3. /\ \A u \in Threads : Coming(u)' <= Coming(u)
        /\ AllComing' \in 0 .. 50 /\ AllComing' <= AllComing
    <3>1. \A u \in Threads : Coming(u)' = Coming(u)
      BY <2>1, <2>2 DEF Coming, Shape, NoCall
    <3> QED
      BY <2>2, <3>1, ComingType DEF AllComing, Threads
  <2>4. \A u \in Threads : at'[u] = "write" /\ call'[u] \in Locked
          => at[u] = "write" /\ call[u] = call'[u] /\ seen[u] = seen'[u]
    BY <2>1 DEF Shape
  <2>5. CASE period' = period
    <3>1. period' <= period
      BY <2>5, Words DEF Shape
    <3> QED
      BY <1>0, <2>3, <2>4, <3>1, StillInReach
  <2>6. CASE period' # period
    <3>1. period' = call[t].arg /\ call[t].op = "set_period"
      BY <1>5, <2>2, <2>6, ModeKeepsPeriod DEF WriteDirect, sysfs_set_period, kernelVars
    <3>2. period' \in Int /\ period' + 50 < Half
      <4>1. call[t].arg \in DirectPeriods
        BY <2>1, <3>1 DEF Direct
      <4> QED
        BY <3>1, <4>1, DaemonAssumption, Words DEF RoomForSteps
    <3>3. AllComing \in 0 .. 100
      BY ComingType DEF AllComing
    <3>4. period' + AllComing' < Half
      <4>1. AllComing' \in Int /\ AllComing' <= 50
        BY <2>3
      <4>2. 50 \in Int /\ Half \in Int
        OBVIOUS
      <4>3. period' <= period'
        BY <3>2
      <4> QED
        BY <3>2, <4>1, <4>2, <4>3, SumBelow, Zenon
    <3>5. ASSUME NEW u \in Threads, at'[u] = "write", call'[u] \in Locked
          PROVE  /\ seen'[u] + AllComing' < Half
                 /\ call'[u].op = "decrease" => seen'[u] > GAP_PERIOD_MS
      <4>1. seen[u] \in Int
        BY Words DEF Shape
      <4> QED
        BY <2>3, <2>4, <3>3, <3>5, <4>1 DEF InReach
    <3> QED
      BY <3>4, <3>5 DEF InReach, Half
  <2> QED
    BY <2>5, <2>6
<1>6. CASE KernelAdjusts \/ Unload \/ Load
  <2>1. /\ UNCHANGED <<at, call, seen>>
        /\ period' = period \/ period' = 1000 \/ period' \in AutoPeriods
    BY <1>6 DEF KernelAdjusts, Unload, Load, Adjust
  <2>2. period' <= period \/ period' + 2 * GAP_PERIOD_MS < Half
    BY <2>1, Words, RoomAtStart DEF Shape, AutoPeriods
  <2>3. \A u \in Threads : Coming(u)' <= Coming(u)
    BY <2>1, ComingType DEF Coming
  <2> QED
    BY <1>0, <2>1, <2>2, <2>3, StillInReach
<1>7. CASE UNCHANGED daemonVars
  BY <1>7 DEF daemonVars, kernelVars, InReach, AllComing, Coming, Half
<1> QED
  BY <1>1, <1>2, <1>3, <1>4, <1>5, <1>6, <1>7 DEF DaemonNext, ThreadStep

(* If messages set periods that leave room for one more step within an int *)
(* (INT_MAX - 50 and below), then the period never becomes a negative int, *)
(* whoever interleaves: decrease_period does not wrap, two increases under *)
(* way do not add up beyond it (app.c:36-50).                              *)
THEOREM PeriodsFitAnInt == ASSUME RoomForSteps PROVE DaemonSpec => []NeverFreezes
<1>1. DaemonInit => InReach
  BY HalfBig, RoomAtStart DEF DaemonInit, FanInit, InReach, AllComing, Coming, NoCall, Threads
<1>2. Shape /\ Fresh /\ InReach /\ [DaemonNext]_daemonVars => InReach'
  BY InReachNext
<1>3. Shape /\ InReach => NeverFreezes
  <2> SUFFICES ASSUME Shape, InReach PROVE NeverFreezes
    OBVIOUS
  <2>1. AllComing >= 0 /\ AllComing \in Int
    BY ComingType DEF AllComing
  <2>2. period > 0 /\ period \in Int
    BY Words DEF Shape, PosUInt, UInt
  <2> QED
    BY <2>1, <2>2, HalfBig DEF InReach, Half, NeverFreezes, ToInt
<1> QED
  BY <1>1, <1>2, <1>3, ShapeAlways, PTL DEF DaemonSpec
=============================================================================
