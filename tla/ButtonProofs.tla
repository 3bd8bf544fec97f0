---------------------------- MODULE ButtonProofs ----------------------------
(***************************************************************************)
(* Theorems about Buttons: the daemon from main to the pulses is one more  *)
(* user of the animation worker, so that what AnimationProofs shows of the *)
(* worker holds of the daemon, and a press calls back at most twice.       *)
(***************************************************************************)
EXTENDS Buttons, AnimationProofs

(* Each step of the daemon is a step of the worker or of its one caller,   *)
(* or one that they cannot notice.                                         *)
LEMMA StepImplements == [ButtonNext]_allBtnVars => [AnimNext]_animVars
<1> SUFFICES ASSUME [ButtonNext]_allBtnVars PROVE [AnimNext]_animVars
  OBVIOUS
<1>1. CASE Main
  BY <1>1 DEF Main, BTN_init, BTN_set_callback, SetUpRest, StartWorker, GiveUp, AnimNext
<1>2. CASE User
  BY <1>2 DEF User, PressButton, ReleaseButton
<1>3. CASE epoll_thread
  BY <1>3, ButtonAssumption DEF epoll_thread, EpollWait, NextEvent, CallbackReturns, AnimNext
<1>4. CASE InCallback
  BY <1>4, ButtonAssumption DEF InCallback, AnimNext
<1>5. CASE Worker_pulses
  BY <1>5 DEF Worker_pulses, AnimNext
<1>6. CASE Worker_wakes
  BY <1>6 DEF Worker_wakes, AnimNext
<1>7. CASE UNCHANGED allBtnVars
  BY <1>7 DEF allBtnVars
<1> QED
  BY <1>1, <1>2, <1>3, <1>4, <1>5, <1>6, <1>7 DEF ButtonNext

(* What Animation assumes of whoever asks it for pulses is what the edge   *)
(* thread of the daemon does, in every interleaving of main, user and      *)
(* worker (main.c:45-71, button.c:163-190).                                *)
THEOREM ButtonsUseTheWorker == ButtonSpec => AnimSpec
<1>1. ButtonInit => AnimInit
  BY DEF ButtonInit
<1> QED
  BY <1>1, StepImplements, PTL DEF ButtonSpec, AnimSpec

(* So no wake-up is lost and no pulse is unearned in the whole daemon.     *)
THEOREM DaemonPulses ==
  ButtonSpec => [](AnimTypeOK /\ AnimLocked /\ NoLostWakeup /\ NoPulseWithoutPress)
  BY ButtonsUseTheWorker, AnimTypeCorrect, AnimMutex, WakeupsAreKept, PulsesAreEarned, PTL
-----------------------------------------------------------------------------
(* Where main sets each button up.                                         *)
FirstInit == [b \in Btns |-> CASE b = "inc" -> 1 [] b = "dec" -> 2 [] b = "mode" -> 3]

LEMMA StartupLen == Len(Startup) = 11
  BY DEF Startup
LEMMA StartupAt == \A b \in Btns : \A i \in 1 .. 11 :
             Startup[i] = <<"BTN_init", b>> <=> i = FirstInit[b]
<1> DEFINE S == Startup
<1>1. /\ S[1] = <<"BTN_init", "inc">> /\ S[2] = <<"BTN_init", "dec">>
      /\ S[3] = <<"BTN_init", "mode">>
  BY DEF Startup
<1>2. \A i \in 4 .. 11 : S[i][1] # "BTN_init"
  <2>1. S[4][1] # "BTN_init" /\ S[5][1] # "BTN_init" /\ S[6][1] # "BTN_init"
    BY DEF Startup
  <2>2. S[7][1] # "BTN_init" /\ S[8][1] # "BTN_init" /\ S[9][1] # "BTN_init"
    BY DEF Startup
  <2>3. S[10][1] # "BTN_init" /\ S[11][1] # "BTN_init"
    BY DEF Startup
  <2>4. \A i \in 4 .. 11 : i \in {4, 5, 6, 7, 8, 9, 10, 11}
    OBVIOUS
  <2> QED
    BY <2>1, <2>2, <2>3, <2>4
<1>3. \A b : <<"BTN_init", b>>[1] = "BTN_init" /\ <<"BTN_init", b>>[2] = b
  OBVIOUS
<1> HIDE DEF S
<1>4. ASSUME NEW b \in Btns, NEW i \in 4 .. 11 PROVE S[i] # <<"BTN_init", b>> /\ i # FirstInit[b]
  BY <1>2, <1>3, <1>4 DEF FirstInit, Btns
<1>5. ASSUME NEW b \in Btns, NEW i \in 1 .. 3
      PROVE  S[i] = <<"BTN_init", b>> <=> i = FirstInit[b]
  <2>1. i = 1 \/ i = 2 \/ i = 3
    OBVIOUS
  <2>2. FirstInit["inc"] = 1 /\ FirstInit["dec"] = 2 /\ FirstInit["mode"] = 3
    BY DEF FirstInit, Btns
  <2>3. b = "inc" \/ b = "dec" \/ b = "mode"
    BY DEF Btns
  <2> QED
    BY <1>1, <1>3, <2>1, <2>2, <2>3
<1>6. \A i \in 1 .. 11 : i \in 1 .. 3 \/ i \in 4 .. 11
  OBVIOUS
<1> QED
  BY <1>4, <1>5, <1>6 DEF S

(* An edge of b that epoll_thread has not looked at yet: in the list of    *)
(* the epoll instance, or in what epoll_wait returned.                     *)
InCall(b) == btn_thread = "callback" /\ locked = b
Unseen(b) == (IF b \in ready THEN 1 ELSE 0)
             + (IF b \in events /\ ~InCall(b) THEN 1 ELSE 0)

(* A pressed button calls back once more for each of them, at most.        *)
Credit(b) == IF level[b] = 1 THEN Unseen(b) ELSE 0

(* What may be called already and what may come are paid for by presses,   *)
(* two each, and by the edge that BTN_init makes.                          *)
PaidFor(b) ==
  /\ calls[b] + Credit(b) <= 2 * presses[b] + (IF FirstInit[b] <= main THEN 1 ELSE 0)
  /\ main < FirstInit[b] => b \notin ready \cup events \cup watched
Paid == \A b \in Btns : PaidFor(b)

BtnShape == /\ main \in 0 .. 11
            /\ level \in [Btns -> {0, 1}]
            /\ ready \subseteq Btns /\ events \subseteq Btns /\ watched \subseteq Btns
            /\ btn_thread \in {"absent", "epoll_wait", "events", "callback"}
            /\ presses \in [Btns -> Nat] /\ calls \in [Btns -> Nat]
            /\ main = 0 => btn_thread = "absent"

BtnInv == BtnShape /\ Paid

LEMMA BtnInvInit == ButtonInit => BtnInv
<1> SUFFICES ASSUME ButtonInit PROVE BtnInv
  OBVIOUS
<1>1. BtnShape
  BY DEF ButtonInit, BtnShape
<1>2. \A b \in Btns : FirstInit[b] \in 1 .. 3
  BY DEF FirstInit, Btns
<1>3. \A b \in Btns : calls[b] = 0 /\ presses[b] = 0 /\ Credit(b) = 0
  BY DEF ButtonInit, Credit, Unseen
<1> QED
  BY <1>1, <1>2, <1>3 DEF ButtonInit, BtnInv, Paid, PaidFor

(* Nothing more to pay for b.                                              *)
LEMMA StillPaid == ASSUME BtnInv, NEW b \in Btns, main' \in main .. 11,
                          calls'[b] = calls[b], presses'[b] = presses[b],
                          Credit(b)' <= Credit(b), Credit(b)' \in 0 .. 2,
                          b \in ready' \cup events' \cup watched'
                            => b \in ready \cup events \cup watched
                   PROVE  PaidFor(b)'
<1>1. FirstInit[b] \in 1 .. 3
  BY DEF FirstInit, Btns
<1>2. Credit(b) \in 0 .. 2
  BY DEF Credit, Unseen
<1> QED
  BY <1>1, <1>2 DEF BtnInv, BtnShape, Paid, PaidFor

(* One step of main.                                                       *)
LEMMA MainKeeps == ASSUME BtnInv, Main PROVE BtnInv'
<1> USE DEF BtnInv, BtnShape
<1>1. ASSUME NEW b \in Btns, BTN_init(b) PROVE BtnInv'
  <2>1. FirstInit[b] = main + 1
    BY <1>1, StartupLen, StartupAt DEF BTN_init, Starting
  <2>2. BtnShape'
    BY <1>1, <2>1 DEF BTN_init, FirstInit, Btns
  <2>3. ASSUME NEW d \in Btns
        PROVE  PaidFor(d)'
    <3>1. calls'[d] = calls[d] /\ presses'[d] = presses[d] /\ level'[d] = level[d]
          /\ events' = events /\ main' = main + 1
      BY <1>1 DEF BTN_init
    <3>2. FirstInit[d] \in 1 .. 3
      BY DEF FirstInit, Btns
    <3>3. InCall(d)' <=> InCall(d)
      BY <1>1 DEF BTN_init, InCall
    <3>4. CASE d = b
      BY <1>1, <2>1, <3>1, <3>2, <3>3, <3>4 DEF BTN_init, Paid, PaidFor, Credit, Unseen
    <3>5. CASE d # b
      <4>1. (d \in ready' <=> d \in ready) /\ (d \in watched' <=> d \in watched)
        BY <1>1, <3>5 DEF BTN_init
      <4>2. Credit(d)' = Credit(d)
        BY <3>1, <3>3, <4>1 DEF Credit, Unseen
      <4>3. Credit(d) \in 0 .. 2
        BY DEF Credit, Unseen
      <4> QED
        BY <3>1, <3>2, <4>1, <4>2, <4>3 DEF Paid, PaidFor
    <3> QED
      BY <3>4, <3>5
  <2> QED
    BY <2>2, <2>3 DEF Paid
<1>2. ASSUME ~(\E b \in Btns : BTN_init(b)) PROVE BtnInv'
  <2>1. /\ main' \in main .. 11 /\ (main' = 0 => main = 0)
        /\ UNCHANGED <<level, watched, ready, events, btn_thread, locked, presses, calls>>
    <3>1. main' = main \/ (main' = main + 1 /\ main < 11)
      BY <1>2, StartupLen DEF Main, BTN_set_callback, SetUpRest, StartWorker, GiveUp, Starting
    <3>2. UNCHANGED <<level, watched, ready, events, btn_thread, locked, presses, calls>>
      BY <1>2 DEF Main, BTN_set_callback, SetUpRest, StartWorker, GiveUp
    <3> QED
      BY <3>1, <3>2
  <2>2. ASSUME NEW d \in Btns PROVE PaidFor(d)'
    <3>1. Credit(d)' = Credit(d) /\ Credit(d) \in 0 .. 2
      BY <2>1 DEF Credit, Unseen, InCall
    <3> QED
      BY <2>1, <3>1, StillPaid
  <2> QED
    BY <2>1, <2>2 DEF Paid
<1> QED
  BY <1>1, <1>2

(* Another press pays for the two edges that may be unseen when it comes.  *)
LEMMA PressKeeps == ASSUME BtnInv, NEW b \in Btns, PressButton(b) PROVE BtnInv'
<1> USE DEF BtnInv, BtnShape
<1>1. BtnShape'
  BY DEF PressButton, Edge
<1>2. PaidFor(b)'
  <2>1. /\ calls'[b] = calls[b] /\ presses'[b] = presses[b] + 1 /\ main' = main
        /\ events' = events /\ level[b] = 0
    BY DEF PressButton
  <2>2. Credit(b) = 0 /\ Credit(b)' \in 0 .. 2
    BY <2>1 DEF Credit, Unseen
  <2>3. main < FirstInit[b] => b \notin ready' \cup events' \cup watched'
    BY DEF PressButton, Edge, Paid, PaidFor
  <2>4. FirstInit[b] \in 1 .. 3
    BY DEF FirstInit, Btns
  <2> QED
    BY <2>1, <2>2, <2>3, <2>4 DEF Paid, PaidFor
<1>3. ASSUME NEW d \in Btns \ {b} PROVE PaidFor(d)'
  <2>1. /\ calls'[d] = calls[d] /\ presses'[d] = presses[d] /\ main' = main
        /\ events' = events /\ level'[d] = level[d] /\ (d \in ready' <=> d \in ready)
        /\ watched' = watched
        /\ btn_thread' = btn_thread /\ locked' = locked
    BY DEF PressButton, Edge
  <2>2. Credit(d)' = Credit(d) /\ Credit(d) \in 0 .. 2
    BY <2>1 DEF Credit, Unseen, InCall
  <2> QED
    BY <2>1, <2>2, StillPaid
<1> QED
  BY <1>1, <1>2, <1>3 DEF Paid

(* A release makes the unseen edges worthless.                             *)
LEMMA ReleaseKeeps == ASSUME BtnInv, NEW b \in Btns, ReleaseButton(b) PROVE BtnInv'
<1> USE DEF BtnInv, BtnShape
<1>1. BtnShape'
  BY DEF ReleaseButton, Edge
<1>2. PaidFor(b)'
  <2>1. /\ calls'[b] = calls[b] /\ presses'[b] = presses[b] /\ main' = main
        /\ events' = events /\ level'[b] = 0
    BY DEF ReleaseButton
  <2>2. Credit(b)' = 0 /\ Credit(b) \in 0 .. 2
    BY <2>1 DEF Credit, Unseen
  <2>3. main < FirstInit[b] => b \notin ready' \cup events' \cup watched'
    BY DEF ReleaseButton, Edge, Paid, PaidFor
  <2>4. FirstInit[b] \in 1 .. 3
    BY DEF FirstInit, Btns
  <2> QED
    BY <2>1, <2>2, <2>3, <2>4 DEF Paid, PaidFor
<1>3. ASSUME NEW d \in Btns \ {b} PROVE PaidFor(d)'
  <2>1. /\ calls'[d] = calls[d] /\ presses'[d] = presses[d] /\ main' = main
        /\ events' = events /\ level'[d] = level[d] /\ (d \in ready' <=> d \in ready)
        /\ watched' = watched
        /\ btn_thread' = btn_thread /\ locked' = locked
    BY DEF ReleaseButton, Edge
  <2>2. Credit(d)' = Credit(d) /\ Credit(d) \in 0 .. 2
    BY <2>1 DEF Credit, Unseen, InCall
  <2> QED
    BY <2>1, <2>2, StillPaid
<1> QED
  BY <1>1, <1>2, <1>3 DEF Paid

(* epoll_thread: a call is one unseen edge less.                           *)
LEMMA ThreadKeeps == ASSUME BtnInv, epoll_thread PROVE BtnInv'
<1> USE DEF BtnInv, BtnShape
<1>1. CASE EpollWait
  <2>1. BtnShape'
    BY <1>1 DEF EpollWait
  <2>2. ASSUME NEW d \in Btns PROVE PaidFor(d)'
    <3>1. Credit(d)' <= Credit(d) /\ Credit(d)' \in 0 .. 2
      BY <1>1 DEF EpollWait, Credit, Unseen, InCall
    <3>2. /\ main' = main /\ calls' = calls /\ presses' = presses /\ watched' = watched
          /\ (d \in ready' \cup events' => d \in ready \cup events)
      BY <1>1 DEF EpollWait
    <3> QED
      BY <3>1, <3>2, StillPaid
  <2> QED
    BY <2>1, <2>2 DEF Paid
<1>2. ASSUME NEW b \in Btns, NextEvent(b), CallsBack(b) PROVE BtnInv'
  <2>1. BtnShape'
    BY <1>2 DEF NextEvent
  <2>2. ASSUME NEW d \in Btns \ {b} PROVE PaidFor(d)'
    <3>1. /\ main' = main /\ calls'[d] = calls[d] /\ presses' = presses /\ watched' = watched
          /\ ready' = ready /\ events' = events /\ level' = level
      BY <1>2 DEF NextEvent
    <3>2. ~InCall(d) /\ ~InCall(d)'
      BY <1>2 DEF NextEvent, InCall
    <3>3. Credit(d)' = Credit(d) /\ Credit(d) \in 0 .. 2
      BY <3>1, <3>2 DEF Credit, Unseen
    <3> QED
      BY <3>1, <3>3, StillPaid
  <2>3. PaidFor(b)'
    <3>1. /\ main' = main /\ calls'[b] = calls[b] + 1 /\ presses' = presses
          /\ watched' = watched
          /\ ready' = ready /\ events' = events /\ level' = level
          /\ level[b] = 1 /\ b \in events
      BY <1>2 DEF NextEvent, CallsBack
    <3>2. ~InCall(b) /\ InCall(b)'
      BY <1>2 DEF NextEvent, InCall
    <3>3. Credit(b)' = Credit(b) - 1 /\ Credit(b) \in 1 .. 2
      BY <3>1, <3>2 DEF Credit, Unseen
    <3>4. FirstInit[b] \in 1 .. 3
      BY DEF FirstInit, Btns
    <3> QED
      BY <3>1, <3>3, <3>4 DEF Paid, PaidFor
  <2> QED
    BY <2>1, <2>2, <2>3 DEF Paid
<1>3. ASSUME NEW b \in Btns, NextEvent(b), ~CallsBack(b) PROVE BtnInv'
  <2>1. BtnShape'
    BY <1>3 DEF NextEvent, Afterwards
  <2>2. ASSUME NEW d \in Btns PROVE PaidFor(d)'
    <3>1. /\ main' = main /\ calls' = calls /\ presses' = presses /\ watched' = watched
          /\ ready' = ready /\ events' \subseteq events /\ level' = level
      BY <1>3 DEF NextEvent
    <3>2. ~InCall(d) /\ ~InCall(d)'
      BY <1>3 DEF NextEvent, InCall, Afterwards
    <3>3. Credit(d)' <= Credit(d) /\ Credit(d)' \in 0 .. 2
      BY <3>1, <3>2 DEF Credit, Unseen
    <3> QED
      BY <3>1, <3>3, StillPaid
  <2> QED
    BY <2>1, <2>2 DEF Paid
<1>4. CASE CallbackReturns
  <2>1. BtnShape'
    BY <1>4 DEF CallbackReturns, Afterwards
  <2>2. ASSUME NEW d \in Btns PROVE PaidFor(d)'
    <3>1. /\ main' = main /\ calls' = calls /\ presses' = presses /\ ready' = ready
          /\ watched' = watched
          /\ events' = events \ {locked} /\ level' = level /\ btn_thread = "callback"
      BY <1>4 DEF CallbackReturns
    <3>2. Credit(d)' <= Credit(d) /\ Credit(d)' \in 0 .. 2
      BY <3>1 DEF Credit, Unseen, InCall
    <3> QED
      BY <3>1, <3>2, StillPaid
  <2> QED
    BY <2>1, <2>2 DEF Paid
<1> QED
  BY <1>1, <1>2, <1>3, <1>4 DEF epoll_thread

LEMMA BtnInvNext == BtnInv /\ [ButtonNext]_allBtnVars => BtnInv'
<1> SUFFICES ASSUME BtnInv, [ButtonNext]_allBtnVars PROVE BtnInv'
  OBVIOUS
<1>1. CASE UNCHANGED btnVars
  <2>1. \A d \in Btns : Credit(d)' = Credit(d)
    BY <1>1 DEF btnVars, Credit, Unseen, InCall
  <2> QED
    BY <1>1, <2>1 DEF btnVars, BtnInv, BtnShape, Paid, PaidFor
<1> QED
  BY <1>1, MainKeeps, PressKeeps, ReleaseKeeps, ThreadKeeps
     DEF ButtonNext, User, InCallback, Worker_pulses, Worker_wakes, allBtnVars

LEMMA BtnInvAlways == ButtonSpec => []BtnInv
  BY BtnInvInit, BtnInvNext, PTL DEF ButtonSpec

(* The level is read late, so that a press may call back a second time,    *)
(* but never a third, however edges, starts and callbacks interleave       *)
(* (button.c:163-190).                                                     *)
THEOREM TwicePerPress == ButtonSpec => []AtMostTwicePerPress
<1>1. BtnInv => AtMostTwicePerPress
  <2> SUFFICES ASSUME BtnInv, NEW b \in Btns
               PROVE  calls[b] <= 2 * presses[b] + (IF main = 0 THEN 0 ELSE 1)
    BY DEF AtMostTwicePerPress
  <2>1. FirstInit[b] \in 1 .. 3 /\ Credit(b) \in 0 .. 2
    BY DEF FirstInit, Btns, Credit, Unseen
  <2> QED
    BY <2>1 DEF BtnInv, BtnShape, Paid, PaidFor
<1> QED
  BY <1>1, BtnInvAlways, PTL
-----------------------------------------------------------------------------
(* MaxPresses bounds the user, and MaxTriggers nothing more than that: a   *)
(* callback that is due finds its thread outside trigger_pulse and the     *)
(* bound of Animation not reached, so that no behaviour is cut off by it.  *)
PressBound == presses["inc"] + presses["dec"] + presses["mode"] <= MaxPresses

CallbackCanAsk ==
  \A b \in {"inc", "dec"} : btn_thread = "events" /\ b \in events /\ CallsBack(b)
                              => caller[BtnThread] = "idle" /\ triggers < MaxTriggers

AskInv == /\ triggers = calls["inc"] + calls["dec"] /\ PressBound
          /\ btn_thread # "callback" => caller[BtnThread] = "idle"

LEMMA AskInvNext == ASSUME BtnInv, AnimInv, AskInv, [ButtonNext]_allBtnVars
                    PROVE  AskInv'
<1> USE ButtonAssumption DEF BtnInv, BtnShape, AnimInv, AnimTypeOK, AskInv, PressBound, Btns
<1>1. CASE Main
  BY <1>1 DEF Main, BTN_init, BTN_set_callback, SetUpRest, StartWorker, GiveUp,
              init_animations, animVars
<1>2. ASSUME NEW b \in Btns, PressButton(b) PROVE AskInv'
  BY <1>2 DEF PressButton, animVars
<1>3. ASSUME NEW b \in Btns, ReleaseButton(b) PROVE AskInv'
  BY <1>3 DEF ReleaseButton, animVars
<1>4. CASE EpollWait \/ CallbackReturns
  BY <1>4 DEF EpollWait, CallbackReturns, animVars
<1>5. ASSUME NEW b \in Btns, NextEvent(b) PROVE AskInv'
  BY <1>5 DEF NextEvent, Press, CallerGoto, animVars
<1>6. CASE InCallback
  BY <1>6 DEF InCallback, trigger_pulse, LockTrigger, Increment, Signal, CallerGoto, btnVars
<1>7. CASE Worker_pulses \/ Worker_wakes
  BY <1>7 DEF Worker_pulses, Worker_wakes, animation_worker, LockWorker, Wait, TakeOne,
              Pulse, SpuriousWakeup, btnVars
<1>8. CASE UNCHANGED allBtnVars
  BY <1>8 DEF allBtnVars, btnVars, animVars
<1> QED
  BY <1>1, <1>2, <1>3, <1>4, <1>5, <1>6, <1>7, <1>8 DEF ButtonNext, User, epoll_thread

(* Every callback that may run does run as far as trigger_pulse            *)
(* (app.c:127-149).                                                        *)
THEOREM BoundIsOutOfReach == ButtonSpec => []CallbackCanAsk
<1>1. ButtonInit => AskInv
  BY ButtonAssumption DEF ButtonInit, AnimInit, AskInv, PressBound, Btns
<1>2. BtnInv /\ AnimInv /\ AskInv /\ [ButtonNext]_allBtnVars => AskInv'
  BY AskInvNext
<1>3. BtnInv /\ AnimInv /\ AskInv => CallbackCanAsk
  <2> SUFFICES ASSUME BtnInv, AnimInv, AskInv, NEW b \in {"inc", "dec"},
                      btn_thread = "events", b \in events, CallsBack(b)
               PROVE  triggers < MaxTriggers
    BY DEF CallbackCanAsk, AskInv
  <2>1. /\ calls["inc"] + Credit("inc") <= 2 * presses["inc"] + 1
        /\ calls["dec"] + Credit("dec") <= 2 * presses["dec"] + 1
    <3>1. \A d \in Btns : /\ Credit(d) \in 0 .. 2 /\ calls[d] \in Nat /\ presses[d] \in Nat
                          /\ calls[d] + Credit(d)
                               <= 2 * presses[d] + (IF FirstInit[d] <= main THEN 1 ELSE 0)
      BY DEF BtnInv, BtnShape, Paid, PaidFor, Credit, Unseen
    <3> QED
      BY <3>1 DEF Btns
  <2>2. Credit(b) >= 1
    BY DEF CallsBack, Credit, Unseen, InCall
  <2>3. Credit("inc") \in 0 .. 2 /\ Credit("dec") \in 0 .. 2
    BY DEF Credit, Unseen
  <2>4. /\ calls["inc"] \in Nat /\ calls["dec"] \in Nat
        /\ presses["inc"] \in Nat /\ presses["dec"] \in Nat /\ presses["mode"] \in Nat
    BY DEF BtnInv, BtnShape, Btns
  <2> QED
    BY <2>1, <2>2, <2>3, <2>4, ButtonAssumption, AnimationAssumption DEF AskInv, PressBound
<1>4. ButtonSpec => []AnimInv
  BY ButtonsUseTheWorker, AnimInvAlways, PTL
<1> QED
  BY <1>1, <1>2, <1>3, <1>4, BtnInvAlways, PTL DEF ButtonSpec
=============================================================================
