-------------------------- MODULE RegulatorProofs --------------------------
(***************************************************************************)
(* Proofs about Regulator for any number of clients, any values written to *)
(* the files, any sensor values and any word size.                         *)
(***************************************************************************)
EXTENDS Regulator, TLAPS

-----------------------------------------------------------------------------
(* The arithmetic.                                                         *)

(* read_temp returns a uint32_t.                                           *)
LEMMA ReadTempType == ASSUME NEW r \in RawValues PROVE read_temp(r) \in UInt
  <1>1. MilliDegrees(r) \in Int
    BY DEF MilliDegrees, RawValues
  <1>2. \A x \in Int : x % WordMod \in 0 .. WordMod - 1
    BY WordModAssumption
  <1> QED
    BY <1>1, <1>2 DEF read_temp, UInt

(* Every reading has one of the four automatic periods.                    *)
LEMMA AutoPeriodType == ASSUME NEW t \in UInt PROVE AutoPeriod(t) \in AutoPeriods
  <1>1. t \div 1000 \in Int
    BY WordModAssumption DEF UInt
  <1> QED
    BY <1>1 DEF AutoPeriod, AutoPeriods

LEMMA UIntFacts == /\ {0, 1, 2} \subseteq UInt /\ 2 \in PosUInt
                   /\ AutoPeriods \subseteq PosUInt
                   /\ PosUInt = UInt \ {0}
  BY WordModAssumption DEF AutoPeriods, PosUInt, UInt

LEMMA ToIntType == ASSUME NEW w \in UInt PROVE ToInt(w) \in Int
  BY WordModAssumption DEF ToInt, UInt

LEMMA WordModBig == WordMod \in Nat /\ WordMod >= 1048576
  BY WordModAssumption

LEMMA SmallMod == ASSUME NEW x \in Nat, x < WordMod PROVE x % WordMod = x
  BY WordModBig, SMT

(* From zero degrees on nothing wraps: the uint32_t is the temperature.    *)
LEMMA NoWrap == ASSUME NEW r \in RawValues, MilliDegrees(r) >= 0
                PROVE read_temp(r) = MilliDegrees(r)
  <1>1. (1191 * r) \div 10 \in Nat /\ (1452 * r) \div 10 \in Nat
    BY SMT DEF RawValues
  <1>2. MilliDegrees(r) \in Nat /\ MilliDegrees(r) <= 259000
    BY <1>1, SMT DEF MilliDegrees, RawValues
  <1>3. MilliDegrees(r) \in Nat /\ MilliDegrees(r) < WordMod
    BY <1>2, WordModBig, SMT
  <1> QED
    BY <1>3, SmallMod, SMT DEF read_temp

(* The thresholds are a non-increasing function of the temperature.        *)
LEMMA AutoPeriodAntitone == ASSUME NEW s \in Nat, NEW t \in Nat, s <= t
                            PROVE AutoPeriod(t) <= AutoPeriod(s)
  <1>1. s \div 1000 \in Int /\ t \div 1000 \in Int /\ s \div 1000 <= t \div 1000
    OBVIOUS
  <1>2. \A x \in Nat : AutoPeriod(x) = IF x \div 1000 < 35 THEN 500
                                       ELSE IF x \div 1000 < 40 THEN 200
                                       ELSE IF x \div 1000 < 45 THEN 100 ELSE 50
    <2>1. TAKE x \in Nat
    <2>2. x \div 1000 \in Int
      OBVIOUS
    <2> QED
      BY <2>2 DEF AutoPeriod
  <1> QED
    BY <1>1, <1>2

-----------------------------------------------------------------------------
(* The inductive invariant.  Routed ties the place of a client to the call *)
(* it makes: cb_set_mode is only reached with 0 or 1.  Agreement says what *)
(* holds inside the critical sections, where the two writes of a period    *)
(* are apart only at "adjust".  LateBudget bounds the late writes together *)
(* with the one the thread is committed to.                                *)

Routed ==
  \A c \in Clients :
    /\ pc[c] \notin {"idle"} => req[c] \in Requests
    /\ pc[c] = "reg_lock" => FirstStep(req[c]) = "reg_lock"
    /\ pc[c] \in InReg \ {"adjust"} => pc[c] = req[c].op /\ FirstStep(req[c]) = "reg_lock"
    /\ pc[c] = "adjust" => req[c].op = "set_period"
    /\ pc[c] = "read_temp" => req[c].op = "get_temperature"

Agreement == \/ \E c \in Clients : pc[c] = "adjust"
             \/ rt.pc = "adjust"
             \/ blink_period_ms = ToInt(current_period)

LateBudget == /\ current_mode = 1 => late = 0
              /\ late <= 1 /\ (current_mode = 0 /\ RtCommitted => late = 0)

Decided == rt.pc \in {"apply_lock", "apply"} => rt.new_period \in AutoPeriods

IInv == /\ TypeOK /\ Routed /\ LockDiscipline
        /\ Agreement /\ LateBudget /\ PeriodStatusNonZero /\ Decided

(* What the sensor's users get, whatever it shows: a uint32_t and one of   *)
(* the four periods.                                                       *)
LEMMA SensorType == ASSUME NEW r \in Raws
                    PROVE /\ read_temp(r) \in UInt
                          /\ AutoPeriod(read_temp(r)) \in AutoPeriods \cap PosUInt
  <1>1. r \in RawValues
    BY RegulatorAssumption
  <1> QED
    BY <1>1, ReadTempType, AutoPeriodType, UIntFacts

(* A request in Requests is what the file it was written to can parse.     *)
LEMMA RequestType == ASSUME NEW q \in Requests
                     PROVE /\ q.op \in Handlers
                           /\ q.op = "set_period" => q.arg \in UInt
                           /\ FirstStep(q) = "reg_lock" =>
                                /\ q.op \in InReg \ {"adjust"}
                                /\ q.op = "set_mode" => q.arg \in {0, 1}
  <1>1. q.op \in Handlers /\ (q.op = "set_period" => q.arg \in UInt)
    BY RegulatorAssumption DEF Requests, Handlers, Reads
  <1>2. ASSUME FirstStep(q) = "reg_lock"
        PROVE q.op # "get_temperature" /\ ~(q.op = "set_mode" /\ q.arg \notin {0, 1})
    BY <1>2 DEF FirstStep
  <1> QED
    BY <1>1, <1>2 DEF Handlers, Reads, InReg

LEMMA FirstStepType == \A q : FirstStep(q) \in {"read_temp", "reg_lock", "return"}
  BY DEF FirstStep

(* What a client's place says of its request.                              *)
LEMMA RoutedFacts ==
  ASSUME TypeOK, Routed, NEW c \in Clients
  PROVE /\ pc[c] = "reg_lock" => req[c].op \in InReg \ {"adjust"}
        /\ pc[c] = "set_mode" => req[c].arg \in {0, 1}
        /\ pc[c] = "set_period" => req[c].arg \in UInt
  BY RequestType DEF Routed, InReg

LEMMA TypeInit == Init => TypeOK /\ Routed
  BY RegulatorAssumption, WordModAssumption
  DEF Init, TypeOK, Routed, Requests, NoRequest, InSysfs, InReg, RtInReg, UInt, PosUInt

(* Type correctness is preserved, together with Routed.                    *)
LEMMA TypeStep == ASSUME TypeOK, Routed, [Next]_vars PROVE TypeOK'
  <1> USE DEF TypeOK, InSysfs, RtInReg, regVars, locks, clientVars
  <1>1. ASSUME NEW c \in Clients, LockSysfs(c) PROVE TypeOK'
    BY <1>1, FirstStepType DEF LockSysfs, Goto
  <1>2. ASSUME NEW c \in Clients, cb_get_temperature(c) PROVE TypeOK'
    BY <1>2, SensorType DEF cb_get_temperature, Goto
  <1>3. ASSUME NEW c \in Clients, LockReg(c) PROVE TypeOK'
    BY <1>3, RoutedFacts DEF LockReg, Goto, InReg
  <1>4. ASSUME NEW c \in Clients, cb_get_mode(c) PROVE TypeOK'
    BY <1>4, UIntFacts DEF cb_get_mode, Goto, UnlockReg
  <1>5. ASSUME NEW c \in Clients, cb_get_period(c) PROVE TypeOK'
    BY <1>5, UIntFacts DEF cb_get_period, Goto, UnlockReg
  <1>6. ASSUME NEW c \in Clients, cb_set_mode(c) PROVE TypeOK'
    BY <1>6, RoutedFacts DEF cb_set_mode, Goto, UnlockReg
  <1>7. ASSUME NEW c \in Clients, cb_set_period(c) PROVE TypeOK'
    BY <1>7, RoutedFacts, UIntFacts DEF cb_set_period, Goto, UnlockReg, Settable
  <1>8. ASSUME NEW c \in Clients, AdjustManual(c) PROVE TypeOK'
    BY <1>8, ToIntType, UIntFacts DEF AdjustManual, Goto, adjust_period, UnlockReg
  <1>9. ASSUME NEW c \in Clients, Return(c) PROVE TypeOK'
    BY <1>9, UIntFacts DEF Return, Goto
  <1>10. ASSUME NEW c \in Clients, NEW r \in Requests, Call(c, r) PROVE TypeOK'
    BY <1>10 DEF Call, Goto
  <1>11. CASE RtLockSample
    BY <1>11 DEF RtLockSample, RtLock, RtGoto
  <1>12. CASE RtSample
    BY <1>12 DEF RtSample, RtGoto
  <1>13. CASE RtReadTemp
    BY <1>13, SensorType DEF RtReadTemp
  <1>14. CASE RtLockApply
    BY <1>14 DEF RtLockApply, RtLock, RtGoto
  <1>15. CASE RtApply
    BY <1>15, UIntFacts DEF RtApply, RtGoto, RtSleep
  <1>16. CASE AdjustAuto
    BY <1>16, ToIntType, UIntFacts DEF AdjustAuto, RtSleep, adjust_period
  <1>17. CASE RtWake
    BY <1>17 DEF RtWake, RtGoto
  <1>18. CASE Blink
    BY <1>18 DEF Blink
  <1>19. CASE BlinkWake
    BY <1>19 DEF BlinkWake
  <1>20. CASE Sense
    BY <1>20 DEF Sense
  <1>21. CASE UNCHANGED vars
    BY <1>21 DEF vars
  <1>22. QED
    BY <1>1, <1>2, <1>3, <1>4, <1>5, <1>6, <1>7, <1>8, <1>9, <1>10, <1>11,
       <1>12, <1>13, <1>14, <1>15, <1>16, <1>17, <1>18, <1>19, <1>20,
       <1>21
    DEF Next, Handler, regulator_thread_fn, thread_blinkThread

(* Only the client that steps moves, and every step leads where Routed     *)
(* expects it; the steps of the threads leave the clients alone.           *)
LEMMA RoutedStep == ASSUME TypeOK, Routed, [Next]_vars PROVE Routed'
  <1> USE DEF TypeOK, Routed, InSysfs, InReg
  <1>1. ASSUME NEW c \in Clients, LockSysfs(c) PROVE Routed'
    BY <1>1, FirstStepType DEF LockSysfs, FirstStep, Goto
  <1>2. ASSUME NEW c \in Clients, LockReg(c) PROVE Routed'
    BY <1>2, RequestType DEF LockReg, Goto
  <1>3. ASSUME NEW c \in Clients, cb_get_temperature(c) \/ cb_get_mode(c)
                                 \/ cb_get_period(c) \/ cb_set_mode(c)
        PROVE Routed'
    BY <1>3 DEF cb_get_temperature, cb_get_mode, cb_get_period, cb_set_mode,
                UnlockReg, Goto
  <1>4. ASSUME NEW c \in Clients, cb_set_period(c) \/ AdjustManual(c) PROVE Routed'
    BY <1>4 DEF cb_set_period, AdjustManual, UnlockReg, Goto
  <1>5. ASSUME NEW c \in Clients, Return(c) PROVE Routed'
    BY <1>5 DEF Return, Goto
  <1>6. ASSUME NEW c \in Clients, NEW r \in Requests, Call(c, r) PROVE Routed'
    BY <1>6 DEF Call, Goto
  <1>7. CASE regulator_thread_fn \/ thread_blinkThread \/ Sense \/ UNCHANGED vars
    BY <1>7 DEF regulator_thread_fn, thread_blinkThread, RtLockSample, RtSample,
                RtReadTemp, RtLockApply, RtApply, AdjustAuto, RtWake, RtLock,
                Blink, BlinkWake, Sense, vars, clientVars
  <1>8. QED
    BY <1>1, <1>2, <1>3, <1>4, <1>5, <1>6, <1>7 DEF Next, Handler

(* Every variable keeps its type, and no period is ever zero: cb_set_mode  *)
(* and cb_set_period let nothing else through.                             *)
THEOREM TypeCorrect == Spec => [](TypeOK /\ Routed)
  BY TypeInit, TypeStep, RoutedStep, PTL DEF Spec
-----------------------------------------------------------------------------
(* Mutual exclusion.                                                       *)

LEMMA LockInit == Init => LockDiscipline
  BY RegulatorAssumption DEF Init, LockDiscipline, InSysfs, InReg, RtInReg

LEMMA LockStep == ASSUME TypeOK, Routed, LockDiscipline, [Next]_vars
                  PROVE LockDiscipline'
  <1> USE RegulatorAssumption DEF TypeOK, LockDiscipline, InSysfs, InReg, RtInReg, locks
  <1>1. ASSUME NEW c \in Clients, LockSysfs(c) PROVE LockDiscipline'
    BY <1>1, FirstStepType DEF LockSysfs, Goto
  <1>2. ASSUME NEW c \in Clients, LockReg(c) PROVE LockDiscipline'
    BY <1>2, RoutedFacts DEF LockReg, Goto
  <1>3. ASSUME NEW c \in Clients, cb_get_mode(c) \/ cb_get_period(c) \/ cb_set_mode(c)
        PROVE LockDiscipline'
    BY <1>3 DEF cb_get_mode, cb_get_period, cb_set_mode, UnlockReg, Goto
  <1>4. ASSUME NEW c \in Clients, cb_set_period(c) \/ AdjustManual(c)
        PROVE LockDiscipline'
    BY <1>4 DEF cb_set_period, AdjustManual, UnlockReg, Goto
  <1>5. ASSUME NEW c \in Clients, cb_get_temperature(c) \/ Return(c)
        PROVE LockDiscipline'
    BY <1>5 DEF cb_get_temperature, Return, Goto
  <1>6. ASSUME NEW c \in Clients, NEW r \in Requests, Call(c, r) PROVE LockDiscipline'
    BY <1>6 DEF Call, Goto
  <1>7. CASE RtLockSample \/ RtLockApply
    BY <1>7 DEF RtLockSample, RtLockApply, RtLock, RtGoto, clientVars
  <1>8. CASE RtSample \/ RtReadTemp \/ RtWake
    <2>1. CASE RtSample
      BY <2>1 DEF RtSample, RtGoto, clientVars
    <2>2. CASE RtReadTemp
      BY <2>2 DEF RtReadTemp, clientVars
    <2>3. CASE RtWake
      BY <2>3 DEF RtWake, RtGoto, clientVars
    <2> QED
      BY <1>8, <2>1, <2>2, <2>3
  <1>9. CASE RtApply \/ AdjustAuto
    <2>1. CASE RtApply
      BY <2>1 DEF RtApply, RtGoto, RtSleep, clientVars
    <2>2. CASE AdjustAuto
      BY <2>2 DEF AdjustAuto, RtGoto, RtSleep, clientVars
    <2> QED
      BY <1>9, <2>1, <2>2
  <1>10. CASE thread_blinkThread \/ Sense \/ UNCHANGED vars
    BY <1>10 DEF thread_blinkThread, Blink, BlinkWake, Sense, vars, clientVars
  <1>11. QED
    BY <1>1, <1>2, <1>3, <1>4, <1>5, <1>6, <1>7, <1>8, <1>9, <1>10
    DEF Next, Handler, regulator_thread_fn

(* regulator_lock and sysfs_lock exclude: one actor at a time is in a      *)
(* critical section, and it is the owner.                                  *)
THEOREM MutualExclusion == Spec => []LockDiscipline
  <1>1. TypeOK /\ Routed /\ LockDiscipline /\ [Next]_vars => LockDiscipline'
    BY LockStep
  <1> QED
    BY <1>1, LockInit, TypeCorrect, PTL DEF Spec
-----------------------------------------------------------------------------
(* The two copies of the period.                                           *)

LEMMA AgreementInit == Init => Agreement
  BY WordModAssumption DEF Init, Agreement, ToInt

LEMMA AgreementStep == ASSUME TypeOK, Agreement, [Next]_vars PROVE Agreement'
  <1> USE DEF TypeOK, Agreement, ToInt, regVars
  <1>1. ASSUME NEW c \in Clients, cb_set_period(c) PROVE Agreement'
    BY <1>1 DEF cb_set_period, UnlockReg, Goto
  <1>2. ASSUME NEW c \in Clients, AdjustManual(c) PROVE Agreement'
    BY <1>2 DEF AdjustManual, adjust_period
  <1>3. ASSUME NEW c \in Clients, LockSysfs(c) \/ LockReg(c) \/ Return(c)
        PROVE Agreement'
    BY <1>3 DEF LockSysfs, LockReg, Return, Goto
  <1>4. ASSUME NEW c \in Clients, cb_get_temperature(c) \/ cb_get_mode(c)
                                 \/ cb_get_period(c) \/ cb_set_mode(c)
        PROVE Agreement'
    BY <1>4 DEF cb_get_temperature, cb_get_mode, cb_get_period, cb_set_mode,
                UnlockReg, Goto
  <1>5. ASSUME NEW c \in Clients, NEW r \in Requests, Call(c, r) PROVE Agreement'
    BY <1>5 DEF Call, Goto
  <1>6. CASE RtApply
    BY <1>6 DEF RtApply, RtGoto, clientVars
  <1>7. CASE AdjustAuto
    BY <1>7 DEF AdjustAuto, adjust_period
  <1>8. CASE RtLockSample \/ RtLockApply \/ RtSample \/ RtReadTemp \/ RtWake
    BY <1>8 DEF RtLockSample, RtLockApply, RtLock, RtSample, RtReadTemp, RtWake,
                RtGoto, clientVars
  <1>9. CASE thread_blinkThread \/ Sense \/ UNCHANGED vars
    BY <1>9 DEF thread_blinkThread, Blink, BlinkWake, Sense, vars, clientVars
  <1>10. QED
    BY <1>1, <1>2, <1>3, <1>4, <1>5, <1>6, <1>7, <1>8, <1>9
    DEF Next, Handler, regulator_thread_fn

(* The LED's copy of the period is the shown one whenever nobody holds     *)
(* regulator_lock, for any number of writers.                              *)
THEOREM CopiesAgree == Spec => []BlinkFollowsPeriod
  <1>1. TypeOK /\ Agreement /\ [Next]_vars => Agreement'
    BY AgreementStep
  <1>2. TypeOK /\ LockDiscipline /\ Agreement => BlinkFollowsPeriod
    BY RegulatorAssumption
    DEF TypeOK, LockDiscipline, Agreement, BlinkFollowsPeriod, InReg, RtInReg
  <1> QED
    BY <1>1, <1>2, AgreementInit, TypeCorrect, MutualExclusion, PTL DEF Spec
-----------------------------------------------------------------------------
(* The stale look at the mode.                                             *)

LEMMA LateInit == Init => LateBudget
  BY DEF Init, LateBudget

LEMMA LateStep == ASSUME TypeOK, Routed, LateBudget, [Next]_vars PROVE LateBudget'
  <1> USE DEF TypeOK, LateBudget, RtCommitted, regVars
  <1>1. ASSUME NEW c \in Clients, cb_set_mode(c) PROVE LateBudget'
    BY <1>1, RoutedFacts DEF cb_set_mode
  <1>2. ASSUME NEW c \in Clients, cb_set_period(c) \/ AdjustManual(c)
        PROVE LateBudget'
    BY <1>2 DEF cb_set_period, AdjustManual
  <1>3. ASSUME NEW c \in Clients,
               LockSysfs(c) \/ cb_get_temperature(c) \/ LockReg(c) \/ cb_get_mode(c)
                            \/ cb_get_period(c) \/ Return(c)
        PROVE LateBudget'
    BY <1>3 DEF LockSysfs, cb_get_temperature, LockReg, cb_get_mode, cb_get_period,
                Return
  <1>4. ASSUME NEW c \in Clients, NEW r \in Requests, Call(c, r) PROVE LateBudget'
    BY <1>4 DEF Call
  <1>5. CASE RtSample
    BY <1>5 DEF RtSample, RtGoto
  <1>6. CASE RtApply
    BY <1>6 DEF RtApply, RtGoto, RtSleep
  <1>7. CASE RtLockSample \/ RtLockApply \/ RtReadTemp
    BY <1>7 DEF RtLockSample, RtLockApply, RtLock, RtReadTemp, RtGoto
  <1>8. CASE AdjustAuto \/ RtWake
    BY <1>8 DEF AdjustAuto, RtWake, RtGoto, RtSleep
  <1>9. CASE thread_blinkThread \/ Sense \/ UNCHANGED vars
    BY <1>9 DEF thread_blinkThread, Blink, BlinkWake, Sense, vars
  <1>10. QED
    BY <1>1, <1>2, <1>3, <1>4, <1>5, <1>6, <1>7, <1>8, <1>9
    DEF Next, Handler, regulator_thread_fn

(* At most one automatic write lands in manual mode after a switch to it.  *)
THEOREM OneLateWrite == Spec => []LateWritesAtMostOne
  <1>1. TypeOK /\ Routed /\ LateBudget /\ [Next]_vars => LateBudget'
    BY LateStep
  <1>2. LateBudget => LateWritesAtMostOne
    BY DEF LateBudget, LateWritesAtMostOne
  <1> QED
    BY <1>1, <1>2, LateInit, TypeCorrect, PTL DEF Spec
-----------------------------------------------------------------------------
(* What a reader gets.                                                     *)

LEMMA StatusInit == Init => PeriodStatusNonZero
  BY DEF Init, PeriodStatusNonZero

LEMMA StatusStep == ASSUME TypeOK, Routed, PeriodStatusNonZero, [Next]_vars
                    PROVE PeriodStatusNonZero'
  <1> USE DEF TypeOK, PeriodStatusNonZero, InSysfs, clientVars
  <1>1. ASSUME NEW c \in Clients, LockSysfs(c) PROVE PeriodStatusNonZero'
    BY <1>1 DEF LockSysfs, FirstStep, Goto
  <1>2. ASSUME NEW c \in Clients, cb_get_temperature(c) PROVE PeriodStatusNonZero'
    <2>1. ~(req[c].op = "get_period")
      BY <1>2 DEF cb_get_temperature, Routed
    <2> QED
      BY <1>2, <2>1 DEF cb_get_temperature, Goto
  <1>3. ASSUME NEW c \in Clients, cb_get_period(c) PROVE PeriodStatusNonZero'
    BY <1>3, UIntFacts DEF cb_get_period, UnlockReg, Goto
  <1>4. ASSUME NEW c \in Clients, cb_get_mode(c) \/ cb_set_mode(c) \/ cb_set_period(c)
                                 \/ AdjustManual(c)
        PROVE PeriodStatusNonZero'
    BY <1>4 DEF cb_get_mode, cb_set_mode, cb_set_period, AdjustManual, UnlockReg,
                Goto, Routed, InReg
  <1>5. ASSUME NEW c \in Clients, LockReg(c) \/ Return(c) PROVE PeriodStatusNonZero'
    BY <1>5, RoutedFacts DEF LockReg, Return, Goto, InReg
  <1>6. ASSUME NEW c \in Clients, NEW r \in Requests, Call(c, r)
        PROVE PeriodStatusNonZero'
    BY <1>6 DEF Call, Goto
  <1>7. CASE regulator_thread_fn \/ thread_blinkThread \/ Sense \/ UNCHANGED vars
    BY <1>7 DEF regulator_thread_fn, thread_blinkThread, RtLockSample, RtSample,
                RtReadTemp, RtLockApply, RtApply, AdjustAuto, RtWake, RtLock,
                Blink, BlinkWake, Sense, vars
  <1>8. QED
    BY <1>1, <1>2, <1>3, <1>4, <1>5, <1>6, <1>7 DEF Next, Handler

(* No reader of period_status gets the daemon's value for a missing module. *)
THEOREM StatusNonZero == Spec => []PeriodStatusNonZero
  <1>1. TypeOK /\ Routed /\ PeriodStatusNonZero /\ [Next]_vars
          => PeriodStatusNonZero'
    BY StatusStep
  <1> QED
    BY <1>1, StatusInit, TypeCorrect, PTL DEF Spec
-----------------------------------------------------------------------------
(* The module implements FanControl.                                       *)

LEMMA DecidedStep == ASSUME TypeOK, Decided, [Next]_vars PROVE Decided'
  <1> USE DEF TypeOK, Decided
  <1>1. CASE RtReadTemp
    BY <1>1, SensorType DEF RtReadTemp
  <1>2. CASE RtLockSample \/ RtSample \/ RtLockApply \/ RtApply \/ AdjustAuto \/ RtWake
    BY <1>2 DEF RtLockSample, RtSample, RtLockApply, RtApply, AdjustAuto, RtWake,
                RtLock, RtGoto, RtSleep
  <1>3. ASSUME NEW c \in Clients, Handler(c) \/ \E r \in Requests : Call(c, r)
        PROVE Decided'
    BY <1>3 DEF Handler, LockSysfs, cb_get_temperature, LockReg, cb_get_mode,
                cb_get_period, cb_set_mode, cb_set_period, AdjustManual, Return, Call
  <1>4. CASE thread_blinkThread \/ Sense \/ UNCHANGED vars
    BY <1>4 DEF thread_blinkThread, Blink, BlinkWake, Sense, vars
  <1>5. QED
    BY <1>1, <1>2, <1>3, <1>4 DEF Next, regulator_thread_fn

LEMMA FanStep == ASSUME TypeOK, Routed, Decided, [Next]_vars
                 PROVE [Fan!FanNext]_(Fan!fanVars)
  <1> USE DEF TypeOK, RtCommitted, regVars, Fan!FanNext, Fan!fanVars
  <1>1. ASSUME NEW c \in Clients, cb_set_mode(c) PROVE Fan!SetMode
    BY <1>1, RoutedFacts DEF cb_set_mode, Fan!SetMode
  <1>2. ASSUME NEW c \in Clients, cb_set_period(c)
        PROVE Fan!SetPeriod \/ UNCHANGED Fan!fanVars
    BY <1>2, RoutedFacts DEF cb_set_period, Settable, Fan!SetPeriod, PosUInt, UInt, Fan!PosUInt
  <1>3. ASSUME NEW c \in Clients,
               LockSysfs(c) \/ cb_get_temperature(c) \/ LockReg(c) \/ cb_get_mode(c)
                 \/ cb_get_period(c) \/ AdjustManual(c) \/ Return(c)
                 \/ \E r \in Requests : Call(c, r)
        PROVE UNCHANGED Fan!fanVars
    BY <1>3 DEF LockSysfs, cb_get_temperature, LockReg, cb_get_mode, cb_get_period,
                AdjustManual, Return, Call
  <1>4. CASE RtApply
    <2>1. Fan!Adjust
      BY <1>4 DEF RtApply, RtGoto, RtSleep, Decided, Fan!Adjust, Fan!AutoPeriods, AutoPeriods
    <2> QED
      BY <2>1
  <1>5. CASE RtSample
    BY <1>5 DEF RtSample, RtGoto
  <1>6. CASE RtLockSample \/ RtLockApply \/ RtWake
    BY <1>6 DEF RtLockSample, RtLockApply, RtWake, RtLock, RtGoto
  <1>7. CASE RtReadTemp
    BY <1>7 DEF RtReadTemp
  <1>8. CASE AdjustAuto
    BY <1>8 DEF AdjustAuto, RtSleep
  <1>9. CASE thread_blinkThread \/ Sense \/ UNCHANGED vars
    BY <1>9 DEF thread_blinkThread, Blink, BlinkWake, Sense, vars
  <1>10. QED
    BY <1>1, <1>2, <1>3, <1>4, <1>5, <1>6, <1>7, <1>8, <1>9
    DEF Next, Handler, regulator_thread_fn

(* Every behaviour of the module, with its locks and threads, is one of    *)
(* FanControl: the period changes only by a user in manual mode, by the    *)
(* thresholds in automatic mode, and once, late, after the switch.         *)
THEOREM Refinement == Spec => ImplementsFanControl
  <1>1. Init => Fan!FanInit
    BY DEF Init, Fan!FanInit
  <1>2. Init => Decided
    BY DEF Init, Decided
  <1>3. TypeOK /\ Decided /\ [Next]_vars => Decided'
    BY DecidedStep
  <1>4. TypeOK /\ Routed /\ Decided /\ [Next]_vars => [Fan!FanNext]_(Fan!fanVars)
    BY FanStep
  <1> QED
    BY <1>1, <1>2, <1>3, <1>4, TypeCorrect, PTL
    DEF Spec, ImplementsFanControl, Fan!FanSpec
-----------------------------------------------------------------------------
(* A warmer processor never slows the LED down, from zero degrees on and   *)
(* for every pair of sensor values, across both conversion formulas.       *)
THEOREM WarmerIsFaster == Spec => []WarmerNeverSlower
  <1>1. TypeOK => WarmerNeverSlower
    <2> SUFFICES ASSUME TypeOK, NEW r \in Raws, MilliDegrees(raw) >= 0,
                        MilliDegrees(r) >= MilliDegrees(raw)
                 PROVE AutoPeriod(read_temp(r)) <= AutoPeriod(read_temp(raw))
      BY DEF WarmerNeverSlower
    <2>1. r \in RawValues /\ raw \in RawValues
      BY RegulatorAssumption DEF TypeOK
    <2>2. MilliDegrees(r) \in Int /\ MilliDegrees(raw) \in Int
      BY <2>1 DEF MilliDegrees, RawValues
    <2>3. read_temp(r) = MilliDegrees(r) /\ read_temp(raw) = MilliDegrees(raw)
      BY <2>1, <2>2, NoWrap
    <2> QED
      BY <2>2, <2>3, AutoPeriodAntitone
  <1> QED
    BY <1>1, TypeCorrect, PTL
=============================================================================
