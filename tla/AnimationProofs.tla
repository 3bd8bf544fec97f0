-------------------------- MODULE AnimationProofs --------------------------
(***************************************************************************)
(* Theorems about Animation, for any set of callers and any number of      *)
(* presses.                                                                *)
(***************************************************************************)
EXTENDS Animation, FiniteSetTheorems, TLAPS

(* Types, places and owners, which every other fact leans on.              *)
AnimInv == AnimTypeOK /\ AnimLocked

LEMMA AnimInvInit == AnimInit => AnimInv
  BY AnimationAssumption DEF AnimInit, AnimInv, AnimTypeOK, AnimLocked

LEMMA AnimInvNext == AnimInv /\ [AnimNext]_animVars => AnimInv'
<1> SUFFICES ASSUME AnimInv, [AnimNext]_animVars
             PROVE  AnimInv'
  OBVIOUS
<1> USE AnimationAssumption DEF AnimInv, AnimTypeOK, AnimLocked
<1>1. ASSUME NEW c \in Callers, Press(c) PROVE AnimInv'
  BY <1>1 DEF Press, CallerGoto
<1>2. ASSUME NEW c \in Callers, LockTrigger(c) PROVE AnimInv'
  BY <1>2 DEF LockTrigger, CallerGoto
<1>3. ASSUME NEW c \in Callers, Increment(c) PROVE AnimInv'
  BY <1>3 DEF Increment, CallerGoto
<1>4. ASSUME NEW c \in Callers, Signal(c) PROVE AnimInv'
  BY <1>4 DEF Signal, Wakes, CallerGoto
<1>5. CASE init_animations
  BY <1>5 DEF init_animations
<1>6. CASE LockWorker
  BY <1>6 DEF LockWorker
<1>7. CASE Wait
  BY <1>7 DEF Wait
<1>8. CASE TakeOne
  BY <1>8 DEF TakeOne
<1>9. CASE Pulse
  BY <1>9 DEF Pulse
<1>10. CASE SpuriousWakeup
  BY <1>10 DEF SpuriousWakeup
<1>11. CASE UNCHANGED animVars
  BY <1>11 DEF animVars
<1> QED
  BY <1>1, <1>2, <1>3, <1>4, <1>5, <1>6, <1>7, <1>8, <1>9, <1>10, <1>11
  DEF AnimNext, trigger_pulse, animation_worker

LEMMA AnimInvAlways == AnimSpec => []AnimInv
  BY AnimInvInit, AnimInvNext, PTL DEF AnimSpec

(* The program counters, the counter and the mutex keep their types.       *)
THEOREM AnimTypeCorrect == AnimSpec => []AnimTypeOK
  BY AnimInvAlways, PTL DEF AnimInv

(* The counter of pending pulses is only touched by the owner of anim_lock *)
(* (app.c:77-102,129-138).                                                 *)
THEOREM AnimMutex == AnimSpec => []AnimLocked
  BY AnimInvAlways, PTL DEF AnimInv
-----------------------------------------------------------------------------
LEMMA WakeupNext == AnimInv /\ NoLostWakeup /\ [AnimNext]_animVars => NoLostWakeup'
<1> SUFFICES ASSUME AnimInv, NoLostWakeup, [AnimNext]_animVars
             PROVE  NoLostWakeup'
  OBVIOUS
<1> USE AnimationAssumption DEF AnimInv, AnimTypeOK, NoLostWakeup
(* A caller that had come to the signal is still there.                    *)
<1>1. ASSUME NEW c \in Callers, Press(c) PROVE NoLostWakeup'
  BY <1>1 DEF Press, CallerGoto
<1>2. ASSUME NEW c \in Callers, LockTrigger(c) PROVE NoLostWakeup'
  BY <1>2 DEF LockTrigger, CallerGoto
(* The one who makes a pulse pending goes on to signal it.                 *)
<1>3. ASSUME NEW c \in Callers, Increment(c) PROVE NoLostWakeup'
  BY <1>3 DEF Increment, CallerGoto
(* After the signal nobody waits.                                          *)
<1>4. ASSUME NEW c \in Callers, Signal(c) PROVE NoLostWakeup'
  BY <1>4 DEF Signal, Wakes, CallerGoto
(* The worker waits after it saw, under the lock, that nothing is pending. *)
<1>5. CASE Wait
  BY <1>5 DEF Wait
<1>6. CASE init_animations \/ LockWorker \/ TakeOne \/ Pulse \/ SpuriousWakeup
  BY <1>6 DEF init_animations, LockWorker, TakeOne, Pulse, SpuriousWakeup
<1>7. CASE UNCHANGED animVars
  BY <1>7 DEF animVars
<1> QED
  BY <1>1, <1>2, <1>3, <1>4, <1>5, <1>6, <1>7
  DEF AnimNext, trigger_pulse, animation_worker

(* The worker never sleeps on a pending pulse for which no signal is about *)
(* to come, whenever it starts and however often it wakes by itself.       *)
THEOREM WakeupsAreKept == AnimSpec => []NoLostWakeup
<1>1. AnimInit => NoLostWakeup
  BY DEF AnimInit, NoLostWakeup
<1> QED
  BY <1>1, AnimInvAlways, WakeupNext, PTL DEF AnimSpec
-----------------------------------------------------------------------------
(* Where the pulse of a press is: with a caller that has not counted it    *)
(* yet, in the counter, in the worker's hand, or done.                     *)
Due == {c \in Callers : caller[c] \in {"lock", "increment"}}
InHand == IF worker = "pulse" THEN 1 ELSE 0
Account == triggers = Cardinality(Due) + pending_animations + InHand + pulses

LEMMA DueFinite == IsFiniteSet(Due) /\ Cardinality(Due) \in Nat
  BY AnimationAssumption, FS_Subset, FS_CardinalityType DEF Due

LEMMA AccountNext == AnimInv /\ Account /\ [AnimNext]_animVars => Account'
<1> SUFFICES ASSUME AnimInv, Account, [AnimNext]_animVars
             PROVE  Account'
  OBVIOUS
<1> USE DEF AnimInv, AnimTypeOK, Account
<1>0. ASSUME caller' = caller PROVE Due' = Due
  BY <1>0 DEF Due
<1>1. ASSUME NEW c \in Callers, Press(c) PROVE Account'
  <2>1. c \notin Due /\ Due' = Due \cup {c}
    BY <1>1 DEF Press, CallerGoto, Due
  <2>2. Cardinality(Due') = Cardinality(Due) + 1
    BY <2>1, DueFinite, FS_AddElement
  <2> QED
    BY <1>1, <2>2, DueFinite DEF Press, InHand
<1>2. ASSUME NEW c \in Callers, LockTrigger(c) PROVE Account'
  <2>1. Due' = Due
    BY <1>2 DEF LockTrigger, CallerGoto, Due
  <2> QED
    BY <1>2, <2>1 DEF LockTrigger, InHand
<1>3. ASSUME NEW c \in Callers, Increment(c) PROVE Account'
  <2>1. c \in Due /\ Due' = Due \ {c}
    BY <1>3 DEF Increment, CallerGoto, Due
  <2>2. Cardinality(Due') = Cardinality(Due) - 1
    BY <2>1, DueFinite, FS_RemoveElement
  <2> QED
    BY <1>3, <2>2, DueFinite DEF Increment, InHand
<1>4. ASSUME NEW c \in Callers, Signal(c) PROVE Account'
  <2>1. Due' = Due
    BY <1>4 DEF Signal, CallerGoto, Due
  <2> QED
    BY <1>4, <2>1 DEF Signal, Wakes, InHand
<1>5. CASE TakeOne
  BY <1>5, <1>0, DueFinite DEF TakeOne, InHand
<1>6. CASE Pulse
  BY <1>6, <1>0, DueFinite DEF Pulse, InHand
<1>7. CASE init_animations \/ LockWorker \/ Wait \/ SpuriousWakeup
  BY <1>7, <1>0 DEF init_animations, LockWorker, Wait, SpuriousWakeup, InHand
<1>8. CASE UNCHANGED animVars
  BY <1>8, <1>0 DEF animVars, InHand
<1> QED
  BY <1>1, <1>2, <1>3, <1>4, <1>5, <1>6, <1>7, <1>8
  DEF AnimNext, trigger_pulse, animation_worker

(* No pulse without a press: the pulses done and pending are never more    *)
(* than the presses made, whatever wakes the worker.                       *)
THEOREM PulsesAreEarned == AnimSpec => []NoPulseWithoutPress
<1>1. AnimInit => Account
  <2> SUFFICES ASSUME AnimInit PROVE Account
    OBVIOUS
  <2>1. Due = {}
    BY DEF AnimInit, Due
  <2> QED
    BY <2>1, FS_EmptySet DEF AnimInit, Account, InHand
<1>2. AnimInv /\ Account => NoPulseWithoutPress
  BY DueFinite DEF AnimInv, AnimTypeOK, Account, InHand, NoPulseWithoutPress
<1> QED
  BY <1>1, <1>2, AnimInvAlways, AccountNext, PTL DEF AnimSpec
=============================================================================
