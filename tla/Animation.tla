----------------------------- MODULE Animation -----------------------------
(***************************************************************************)
(* The pulses of the daemon's power LED (daemon/application/app.c): every  *)
(* button press leaves one pending animation under anim_lock and signals a *)
(* condition variable, and a single worker, started last by main, takes    *)
(* them one by one.  The wait may end without a signal, as POSIX allows.   *)
(* keep_running is never cleared and is left out.                          *)
(*                                                                         *)
(* An operator named F_something is F with a plausible bug in it, which no *)
(* behaviour of this specification has.                                    *)
(***************************************************************************)
EXTENDS Integers, FiniteSets

CONSTANTS Callers,     \* threads that run button callbacks (one in the daemon)
          Worker,      \* the thread animation_worker
          Nobody,      \* the owner of a free mutex
          MaxTriggers  \* bound: the presses of a behaviour

ASSUME AnimationAssumption == /\ IsFiniteSet(Callers)
                              /\ Worker \notin Callers
                              /\ Nobody \notin Callers \cup {Worker}
                              /\ MaxTriggers \in Nat

VARIABLES anim_lock,           \* owner of app.c:14
          pending_animations,  \* app.c:19
          caller,              \* where each caller is in trigger_pulse
          worker,              \* where the worker is
          triggers, pulses     \* history: presses made, pulses finished

animVars == <<anim_lock, pending_animations, caller, worker, triggers, pulses>>

AnimInit == /\ anim_lock = Nobody /\ pending_animations = 0
            /\ caller = [c \in Callers |-> "idle"]
            /\ worker = "absent"
            /\ triggers = 0 /\ pulses = 0

CallerGoto(c, label) == caller' = [caller EXCEPT ![c] = label]
-----------------------------------------------------------------------------
(* trigger_pulse, one step per line that another thread can notice.        *)

Press(c) == /\ caller[c] = "idle" /\ triggers < MaxTriggers
            /\ triggers' = triggers + 1
            /\ CallerGoto(c, "lock")
            /\ UNCHANGED <<anim_lock, pending_animations, worker, pulses>>

LockTrigger_nowait(c) == /\ caller[c] = "lock"
                         /\ anim_lock' = c
                         /\ CallerGoto(c, "increment")
                         /\ UNCHANGED <<pending_animations, worker, triggers, pulses>>

LockTrigger(c) == /\ caller[c] = "lock" /\ anim_lock = Nobody
                  /\ anim_lock' = c
                  /\ CallerGoto(c, "increment")
                  /\ UNCHANGED <<pending_animations, worker, triggers, pulses>>

Increment(c) == /\ caller[c] = "increment"
                /\ pending_animations' = pending_animations + 1
                /\ CallerGoto(c, "signal")
                /\ UNCHANGED <<anim_lock, worker, triggers, pulses>>

(* The signal wakes the worker if it waits, and is forgotten if not.       *)
Wakes == IF worker = "wait" THEN "relock" ELSE worker

Signal_never(c) == /\ caller[c] = "signal"
                   /\ anim_lock' = Nobody
                   /\ CallerGoto(c, "idle")
                   /\ UNCHANGED <<pending_animations, worker, triggers, pulses>>

Signal(c) == /\ caller[c] = "signal"
             /\ worker' = Wakes
             /\ anim_lock' = Nobody
             /\ CallerGoto(c, "idle")
             /\ UNCHANGED <<pending_animations, triggers, pulses>>
-----------------------------------------------------------------------------
(* animation_worker.                                                       *)

init_animations == /\ worker = "absent"
                   /\ worker' = "lock"
                   /\ UNCHANGED <<anim_lock, pending_animations, caller, triggers,
                                  pulses>>

(* A worker that waits before it looks, as one written around the signal.  *)
LockWorker_waitfirst == /\ worker \in {"lock", "relock"} /\ anim_lock = Nobody
                        /\ IF worker = "lock"
                             THEN worker' = "wait" /\ UNCHANGED anim_lock
                             ELSE worker' = "test" /\ anim_lock' = Worker
                        /\ UNCHANGED <<pending_animations, caller, triggers, pulses>>

(* Entering the loop, and returning from pthread_cond_wait.                *)
LockWorker == /\ worker \in {"lock", "relock"} /\ anim_lock = Nobody
              /\ anim_lock' = Worker
              /\ worker' = "test"
              /\ UNCHANGED <<pending_animations, caller, triggers, pulses>>

(* pthread_cond_wait releases the mutex and waits in one step.             *)
Wait == /\ worker = "test" /\ pending_animations = 0
        /\ worker' = "wait"
        /\ anim_lock' = Nobody
        /\ UNCHANGED <<pending_animations, caller, triggers, pulses>>

SpuriousWakeup == /\ worker = "wait"
                  /\ worker' = "relock"
                  /\ UNCHANGED <<anim_lock, pending_animations, caller, triggers, pulses>>

(* An if in the place of the while: a spurious wake-up counts as work.     *)
TakeOne_if == /\ worker = "test"
              /\ pending_animations' = pending_animations - 1
              /\ worker' = "pulse"
              /\ anim_lock' = Nobody
              /\ UNCHANGED <<caller, triggers, pulses>>

TakeOne_keep == /\ worker = "test" /\ pending_animations > 0
                /\ worker' = "pulse"
                /\ anim_lock' = Nobody
                /\ UNCHANGED <<pending_animations, caller, triggers, pulses>>

TakeOne == /\ worker = "test" /\ pending_animations > 0
           /\ pending_animations' = pending_animations - 1
           /\ worker' = "pulse"
           /\ anim_lock' = Nobody
           /\ UNCHANGED <<caller, triggers, pulses>>

(* LED_on, usleep, LED_off, usleep.                                        *)
Pulse == /\ worker = "pulse"
         /\ pulses' = pulses + 1
         /\ worker' = "lock"
         /\ UNCHANGED <<anim_lock, pending_animations, caller, triggers>>
-----------------------------------------------------------------------------
trigger_pulse(c) == LockTrigger(c) \/ Increment(c) \/ Signal(c)
animation_worker == LockWorker \/ Wait \/ TakeOne \/ Pulse

AnimNext == \/ \E c \in Callers : Press(c) \/ trigger_pulse(c)
            \/ init_animations \/ animation_worker \/ SpuriousWakeup

AnimSpec == AnimInit /\ [][AnimNext]_animVars

-----------------------------------------------------------------------------
AnimTypeOK == /\ anim_lock \in Callers \cup {Nobody, Worker}
              /\ pending_animations \in Nat
              /\ caller \in [Callers -> {"idle", "lock", "increment", "signal"}]
              /\ worker \in {"absent", "lock", "test", "wait", "relock", "pulse"}
              /\ triggers \in Nat /\ pulses \in Nat

(* The counter is touched by the owner of anim_lock only.                  *)
AnimLocked == /\ \A c \in Callers :
                   caller[c] \in {"increment", "signal"} <=> anim_lock = c
              /\ worker = "test" <=> anim_lock = Worker

(* The worker never sleeps on a pending pulse, except while the one who    *)
(* made it pending is about to signal (app.c:84-91,130-137).               *)
NoLostWakeup == worker = "wait" /\ pending_animations > 0
                  => \E c \in Callers : caller[c] = "signal"

(* No pulse without a press, whatever wakes the worker, and no more can be *)
(* pending than were asked for.                                            *)
NoPulseWithoutPress == pulses + pending_animations <= triggers
=============================================================================
