------------------------------ MODULE Buttons ------------------------------
(***************************************************************************)
(* The daemon from main (daemon/main.c) to the pulses of its power LED:    *)
(* main sets up three buttons (daemon/gpio/button.c), the LED              *)
(* (daemon/gpio/led.c), the callbacks and the worker of Animation, one     *)
(* after the other, while the user already presses.  The first BTN_init    *)
(* starts the one thread that waits for edges of all buttons with          *)
(* edge-triggered epoll.  The thread reads the level of a button when it   *)
(* gets to the edge, not when the edge happened, and calls the callback    *)
(* with the button's mutex held.                                           *)
(*                                                                         *)
(* Outside the daemon: a value file of a GPIO can always be read, so that  *)
(* it is ready as soon as it is added to the epoll instance, and then once *)
(* for all the edges since the last epoll_wait.                            *)
(*                                                                         *)
(* An operator named F_something is F with a plausible bug in it, which no *)
(* behaviour of this specification has.                                    *)
(***************************************************************************)
EXTENDS Animation, Sequences

CONSTANTS BtnThread,   \* the thread epoll_thread
          Touched,     \* bound: the buttons that the user presses
          MaxPresses   \* bound: the presses of a behaviour, of all buttons

Btns == {"inc", "dec", "mode"}
NoBtn == "none"

(* A press calls back at most twice and a button held from the start once  *)
(* more, so that no callback meets the bound of Animation.                 *)
ASSUME ButtonAssumption == /\ Callers = {BtnThread} /\ Touched \subseteq Btns
                           /\ MaxPresses \in Nat /\ MaxTriggers >= 2 * MaxPresses + 2

VARIABLES main,        \* how many steps of Startup main has done
          running,     \* main has not returned
          level,       \* of each button: the value of its GPIO
          watched,     \* the buttons whose edges the epoll instance hears of
          ready,       \* the epoll instance's list of files with news
          events,      \* what epoll_wait returned and is not yet looked at
          btn_thread,  \* where epoll_thread is
          locked,      \* the button whose mutex it holds while it calls back
          due,         \* history: pressed with a callback set, held, not called
          presses, calls \* history: presses and callbacks of each button

btnVars == <<main, running, level, watched, ready, events, btn_thread, locked, due,
             presses, calls>>
allBtnVars == <<btnVars, animVars>>

(* What main does before it sleeps for ever.                               *)
Startup == <<<<"BTN_init", "inc">>, <<"BTN_init", "dec">>, <<"BTN_init", "mode">>,
             <<"LED_init", "power">>,
             <<"BTN_set_callback", "inc">>, <<"BTN_set_callback", "dec">>,
             <<"BTN_set_callback", "mode">>,
             <<"start_ipc_server", "">>, <<"init_oled", "">>, <<"btn_set_led", "">>,
             <<"init_animations", "">>>>

CanFail == {"BTN_init", "LED_init", "start_ipc_server"}

Starting(call, arg) == /\ running /\ main < Len(Startup)
                       /\ Startup[main + 1] = <<call, arg>>
Done(call, arg) == \E i \in 1 .. main : Startup[i] = <<call, arg>>

ButtonInit == /\ AnimInit
              /\ main = 0 /\ running = TRUE
              /\ level \in [Btns -> {0, 1}] /\ \A b \in Btns \ Touched : level[b] = 0
              /\ watched = {} /\ ready = {} /\ events = {}
              /\ btn_thread = "absent" /\ locked = NoBtn
              /\ due = {}
              /\ presses = [b \in Btns |-> 0]
              /\ calls = [b \in Btns |-> 0]
-----------------------------------------------------------------------------
(* main.                                                                   *)

(* The first button brings the epoll instance and its thread, every one    *)
(* adds its file.  That may fail, and so may the write that asks for both  *)
(* edges: BTN_init returns 0 all the same, with a button nobody hears of,  *)
(* or one whose file is ready once, when it is added.                      *)
BTN_init(b) == /\ Starting("BTN_init", b)
               /\ main' = main + 1
               /\ btn_thread' = IF main = 0 THEN "epoll_wait" ELSE btn_thread
               /\ \/ ready' = ready \cup {b} /\ watched' \in {watched, watched \cup {b}}
                  \/ UNCHANGED <<ready, watched>>
               /\ UNCHANGED <<running, level, events, locked, due, presses, calls, animVars>>

BTN_set_callback(b) == /\ Starting("BTN_set_callback", b)
                       /\ locked # b
                       /\ main' = main + 1
                       /\ UNCHANGED <<running, level, watched, ready, events, btn_thread,
                                      locked, due, presses, calls, animVars>>

(* The steps that neither the buttons nor the pulses can notice.           *)
SetUpRest == /\ \/ Starting("LED_init", "power")
                \/ Starting("start_ipc_server", "")
                \/ Starting("init_oled", "")
                \/ Starting("btn_set_led", "")
             /\ main' = main + 1
             /\ UNCHANGED <<running, level, watched, ready, events, btn_thread, locked, due,
                            presses, calls, animVars>>

(* Whether pthread_create gives a worker is not looked at.                 *)
StartWorker == /\ Starting("init_animations", "")
               /\ init_animations \/ UNCHANGED animVars
               /\ main' = main + 1
               /\ UNCHANGED <<running, level, watched, ready, events, btn_thread, locked,
                              due, presses, calls>>

(* A step that fails makes main return, which ends every thread; so does   *)
(* the exit in epoll_init.                                                 *)
GiveUp == /\ running /\ main < Len(Startup) /\ Startup[main + 1][1] \in CanFail
          /\ running' = FALSE
          /\ UNCHANGED <<main, level, watched, ready, events, btn_thread, locked, due,
                         presses, calls, animVars>>
-----------------------------------------------------------------------------
(* The user and the GPIO driver, which reports both edges.  After the end  *)
(* of the program they concern nobody.                                     *)

Edge(b) == ready' = IF b \in watched THEN ready \cup {b} ELSE ready

PressButton(b) == /\ running /\ level[b] = 0 /\ b \in Touched
                  /\ presses["inc"] + presses["dec"] + presses["mode"] < MaxPresses
                  /\ level' = [level EXCEPT ![b] = 1]
                  /\ presses' = [presses EXCEPT ![b] = @ + 1]
                  /\ due' = IF Done("BTN_set_callback", b) THEN due \cup {b} ELSE due
                  /\ Edge(b)
                  /\ UNCHANGED <<main, running, watched, events, btn_thread, locked, calls,
                                 animVars>>

ReleaseButton(b) == /\ running /\ level[b] = 1
                    /\ level' = [level EXCEPT ![b] = 0]
                    /\ due' = due \ {b}
                    /\ Edge(b)
                    /\ UNCHANGED <<main, running, watched, events, btn_thread, locked, presses,
                                   calls, animVars>>
-----------------------------------------------------------------------------
(* epoll_thread.                                                           *)

EpollWait == /\ running /\ btn_thread = "epoll_wait" /\ ready # {}
             /\ events' = ready
             /\ ready' = {}
             /\ btn_thread' = "events"
             /\ UNCHANGED <<main, running, level, watched, locked, due, presses, calls,
                            animVars>>

Afterwards_first(b) == "epoll_wait"

(* The rest of the events of this epoll_wait comes first.                  *)
Afterwards(b) == IF events = {b} THEN "epoll_wait" ELSE "events"

(* Whether the level read now counts as a press that calls back.           *)
CallsBack_always(b) == Done("BTN_set_callback", b)
CallsBack(b) == level[b] = 1 /\ Done("BTN_set_callback", b)

(* The callbacks of the two period buttons ask for a pulse first; mode_toggle *)
(* does not.  What they do to mode and period is in DaemonApp.             *)
NextEvent(b) ==
  /\ running /\ btn_thread = "events" /\ b \in events
  /\ IF CallsBack(b)
       THEN /\ locked' = b /\ btn_thread' = "callback"
            /\ calls' = [calls EXCEPT ![b] = @ + 1]
            /\ due' = due \ {b}
            /\ IF b = "mode" THEN UNCHANGED animVars ELSE Press(BtnThread)
            /\ UNCHANGED events
       ELSE /\ events' = events \ {b}
            /\ btn_thread' = Afterwards(b)
            /\ UNCHANGED <<locked, due, calls, animVars>>
  /\ UNCHANGED <<main, running, level, watched, ready, presses>>

CallbackReturns == /\ running /\ btn_thread = "callback" /\ caller[BtnThread] = "idle"
                   /\ events' = events \ {locked}
                   /\ btn_thread' = Afterwards(locked)
                   /\ locked' = NoBtn
                   /\ UNCHANGED <<main, running, level, watched, ready, due, presses, calls,
                                  animVars>>
-----------------------------------------------------------------------------
Main == \/ \E b \in Btns : BTN_init(b) \/ BTN_set_callback(b)
        \/ SetUpRest \/ StartWorker \/ GiveUp

User == \E b \in Btns : PressButton(b) \/ ReleaseButton(b)

epoll_thread == EpollWait \/ (\E b \in Btns : NextEvent(b)) \/ CallbackReturns

InCallback == running /\ trigger_pulse(BtnThread) /\ UNCHANGED btnVars
Worker_pulses == running /\ animation_worker /\ UNCHANGED btnVars
Worker_wakes == running /\ SpuriousWakeup /\ UNCHANGED btnVars

ButtonNext == Main \/ User \/ epoll_thread \/ InCallback \/ Worker_pulses \/ Worker_wakes

ButtonSpec == ButtonInit /\ [][ButtonNext]_allBtnVars

(* main and the threads are scheduled, and a mutex that is free again and  *)
(* again is obtained.  Nobody has to press or to release a button, and no  *)
(* wake-up comes without a signal for sure.                                *)
ButtonFairSpec == /\ ButtonSpec
                  /\ WF_allBtnVars(Main)
                  /\ WF_allBtnVars(epoll_thread)
                  /\ SF_allBtnVars(InCallback)
                  /\ SF_allBtnVars(Worker_pulses)
-----------------------------------------------------------------------------
(* A button that is held long enough is seen: once it is pressed with its  *)
(* callback set, the callback runs unless the user lets go before (or main *)
(* gave up), whatever the other buttons, earlier edges and the pulses do   *)
(* (button.c:163-190, edge-triggered).  A shorter press may be missed, and *)
(* every press of a button that BTN_init failed to add (button.c:143-146). *)
HeldPressIsHandled == \A b \in Touched : b \in due \cap watched ~> b \notin due \/ ~running

(* The level is read late (button.c:179), so that an edge may find the     *)
(* level of a later press, and both then call back.  More than two calls a *)
(* press, beyond one for a button held since before main, cannot be.       *)
AtMostTwicePerPress ==
  \A b \in Btns : calls[b] <= 2 * presses[b] + (IF main = 0 THEN 0 ELSE 1)

(* Every callback of a period button gets its pulse, also one before       *)
(* main started the worker (main.c:45-71), unless main gives up or its     *)
(* call of pthread_create failed, unnoticed (app.c:120): the pulses catch  *)
(* up with the callbacks, after the last press for good.                   *)
NoWorker == main = Len(Startup) /\ worker = "absent"
EveryPressPulses == []<>(pulses >= triggers \/ ~running \/ NoWorker)
=============================================================================
