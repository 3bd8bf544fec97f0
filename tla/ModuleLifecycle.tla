-------------------------- MODULE ModuleLifecycle --------------------------
(***************************************************************************)
(* Loading and unloading temp_regulator.ko: the calls of temp_regulator_   *)
(* init and temp_regulator_exit (kernel/main.c) and of the functions they  *)
(* run in temp.c, blink.c, regulator.c and sysfs/sysfs.c, one step per     *)
(* resource taken or given back, any of which may fail when it is taken.   *)
(* Meanwhile the two kernel threads run, and users are inside the handlers *)
(* of the sysfs files from the moment the files exist.                     *)
(*                                                                         *)
(* An operator named F_something is F with a plausible bug in it, which no *)
(* behaviour of this specification has.                                    *)
(*                                                                         *)
(* All failure paths of the load join the path of the unload: the loader   *)
(* gives back what it took, in reverse order, from where it failed.        *)
(***************************************************************************)
EXTENDS Naturals, FiniteSets

CONSTANTS Clients,    \* processes that use the sysfs files
          CanFail     \* the calls of the load that may fail

Calls == {"request_mem_region", "ioremap", "gpio_request", "gpio_direction_output",
          "run_blink", "class_create", "device_create", "create_group",
          "run_regulator"}
Resources == {"region", "temp_reg", "gpio", "blink_thread", "class", "device",
              "files", "regulator_thread"}
Threads == {"blink_thread", "regulator_thread"}

ASSUME LifecycleAssumption == CanFail \subseteq Calls

VARIABLES loader,     \* the next call of insmod or rmmod; "out" and "loaded" rest
          held,       \* the resources the module holds now
          should_stop,\* the threads kthread_stop waits for
          thread,     \* where each running thread is: "head" or inside "read_temp"
          handler     \* where each client is: "out", "in" or inside "read_temp"

lifeVars == <<loader, held, should_stop, thread, handler>>

LifeInit == /\ loader = "out" /\ held = {} /\ should_stop = {}
            /\ thread = [t \in Threads |-> "head"]
            /\ handler = [c \in Clients |-> "out"]
-----------------------------------------------------------------------------
(* A call of the load: it takes r and goes on, or fails and goes elsewhere. *)
Take(call, r, next, onFailure) ==
  /\ loader = call
  /\ \/ held' = held \cup {r} /\ loader' = next
     \/ call \in CanFail /\ loader' = onFailure /\ UNCHANGED held
  /\ UNCHANGED <<should_stop, thread, handler>>

(* A call of the unload: it gives r back, if the module has it.            *)
GiveBack(call, r, next) ==
  /\ loader = call
  /\ held' = held \ {r} /\ loader' = next
  /\ UNCHANGED <<should_stop, thread, handler>>

Insmod == /\ loader = "out"
          /\ loader' = "request_mem_region"
          /\ UNCHANGED <<held, should_stop, thread, handler>>

(* A region that somebody else holds is only worth a warning.              *)
temp_init == \/ Take("request_mem_region", "region", "ioremap", "ioremap")
             \/ Take("ioremap", "temp_reg", "gpio_request", "release_mem_region")

(* blink_init returns nothing: its caller cannot know that it failed.      *)
blink_init ==
  \/ Take("gpio_request", "gpio", "gpio_direction_output", "class_create")
  \/ /\ loader = "gpio_direction_output"
     /\ \/ loader' = "run_blink" /\ UNCHANGED held
        \/ /\ "gpio_direction_output" \in CanFail
           /\ loader' = "class_create" /\ held' = held \ {"gpio"}
     /\ UNCHANGED <<should_stop, thread, handler>>
  \/ Take("run_blink", "blink_thread", "class_create", "free_gpio_of_failed_blink")
  \/ GiveBack("free_gpio_of_failed_blink", "gpio", "class_create")

temp_regulator_sysfs_init ==
  \/ Take("class_create", "class", "device_create", "stop_blink")
  \/ Take("device_create", "device", "create_group", "class_destroy")
  \/ Take("create_group", "files", "run_regulator", "device_destroy")

(* A failed kthread_run that leaves the sysfs files behind.                *)
regulator_init_keepfiles ==
  \/ temp_regulator_sysfs_init
  \/ Take("run_regulator", "regulator_thread", "loaded", "stop_blink")

regulator_init ==
  \/ temp_regulator_sysfs_init
  \/ Take("run_regulator", "regulator_thread", "loaded", "remove_group")

Rmmod == /\ loader = "loaded"
         /\ loader' = "stop_regulator"
         /\ UNCHANGED <<held, should_stop, thread, handler>>
-----------------------------------------------------------------------------
(* kthread_stop asks the thread to stop and waits until it has returned.   *)
(* There is a thread to wait for only if kthread_run made one: anything    *)
(* else in the pointer is dereferenced, and the caller dies there.         *)
KthreadStop(call, t, next) ==
  /\ loader = call
  /\ \/ t \in held /\ should_stop' = should_stop \cup {t} /\ loader' = next
     \/ t \notin held /\ loader' = "oops" /\ UNCHANGED should_stop
  /\ UNCHANGED <<held, thread, handler>>

Joined(wait, t, next) == /\ loader = wait /\ t \notin held
                         /\ loader' = next
                         /\ UNCHANGED <<held, should_stop, thread, handler>>

(* sysfs_remove_group lets no new handler in and waits for those inside.   *)
Drained == \A c \in Clients : handler[c] = "out"

RemoveGroup == GiveBack("remove_group", "files", "drain")
Drain == /\ loader = "drain" /\ Drained
         /\ loader' = "device_destroy"
         /\ UNCHANGED <<held, should_stop, thread, handler>>

temp_regulator_sysfs_exit == \/ RemoveGroup \/ Drain
                             \/ GiveBack("device_destroy", "device", "class_destroy")
                             \/ GiveBack("class_destroy", "class", "stop_blink")

regulator_exit == \/ KthreadStop("stop_regulator", "regulator_thread", "join_regulator")
                  \/ Joined("join_regulator", "regulator_thread", "remove_group")
                  \/ temp_regulator_sysfs_exit

blink_exit == \/ KthreadStop("stop_blink", "blink_thread", "join_blink")
              \/ Joined("join_blink", "blink_thread", "gpio_free")
              \/ GiveBack("gpio_free", "gpio", "iounmap")

temp_exit_keepregion == GiveBack("iounmap", "temp_reg", "out")

temp_exit == \/ GiveBack("iounmap", "temp_reg", "release_mem_region")
             \/ GiveBack("release_mem_region", "region", "out")
-----------------------------------------------------------------------------
(* The threads look at kthread_should_stop at the head of their loop only. *)
ThreadReadsTemp == /\ "regulator_thread" \in held \ should_stop
                   /\ thread["regulator_thread"] = "head"
                   /\ thread' = [thread EXCEPT !["regulator_thread"] = "read_temp"]
                   /\ UNCHANGED <<loader, held, should_stop, handler>>

ThreadRead == /\ thread["regulator_thread"] = "read_temp"
              /\ thread' = [thread EXCEPT !["regulator_thread"] = "head"]
              /\ UNCHANGED <<loader, held, should_stop, handler>>

(* A stop flag that is never cleared, and a blink loop that never looks.    *)
ThreadReturns_noclear(t) == /\ t \in should_stop /\ thread[t] = "head"
                            /\ held' = held \ {t}
                            /\ UNCHANGED <<loader, should_stop, thread, handler>>
ThreadReturns_deafblink(t) == /\ t \in should_stop \ {"blink_thread"}
                              /\ thread[t] = "head"
                              /\ held' = held \ {t} /\ should_stop' = should_stop \ {t}
                              /\ UNCHANGED <<loader, thread, handler>>

ThreadReturns(t) == /\ t \in should_stop /\ thread[t] = "head"
                    /\ held' = held \ {t} /\ should_stop' = should_stop \ {t}
                    /\ UNCHANGED <<loader, thread, handler>>

Enter(c) == /\ handler[c] = "out" /\ "files" \in held
            /\ handler' = [handler EXCEPT ![c] = "in"]
            /\ UNCHANGED <<loader, held, should_stop, thread>>

ClientReadsTemp(c) == /\ handler[c] = "in"
                      /\ handler' = [handler EXCEPT ![c] = "read_temp"]
                      /\ UNCHANGED <<loader, held, should_stop, thread>>

Leave(c) == /\ handler[c] # "out"
            /\ handler' = [handler EXCEPT ![c] = "out"]
            /\ UNCHANGED <<loader, held, should_stop, thread>>
-----------------------------------------------------------------------------
Loading == temp_init \/ blink_init \/ regulator_init
Unloading == regulator_exit \/ blink_exit \/ temp_exit

LifeNext == \/ Insmod \/ Rmmod \/ Loading \/ Unloading
            \/ ThreadReadsTemp \/ ThreadRead
            \/ \E t \in Threads : ThreadReturns(t)
            \/ \E c \in Clients : Enter(c) \/ ClientReadsTemp(c) \/ Leave(c)

LifeSpec == LifeInit /\ [][LifeNext]_lifeVars

(* insmod and rmmod run on, the threads are scheduled (and every sleep of  *)
(* theirs ends), and a handler that was entered returns.                   *)
LifeFairSpec == /\ LifeSpec
                /\ WF_lifeVars(Loading) /\ WF_lifeVars(Unloading)
                /\ WF_lifeVars(ThreadRead)
                /\ \A t \in Threads : WF_lifeVars(ThreadReturns(t))
                /\ \A c \in Clients : WF_lifeVars(Leave(c))
-----------------------------------------------------------------------------
LifeTypeOK == /\ held \subseteq Resources /\ should_stop \subseteq held \cap Threads
              /\ thread \in [Threads -> {"head", "read_temp"}]
              /\ handler \in [Clients -> {"out", "in", "read_temp"}]
              /\ loader \in Calls \cup {"out", "loaded", "oops", "stop_regulator",
                   "join_regulator", "remove_group", "drain", "device_destroy",
                   "class_destroy", "stop_blink", "join_blink", "gpio_free",
                   "iounmap", "release_mem_region", "free_gpio_of_failed_blink"}

(* Whatever failed, and however often the module was loaded, once it is    *)
(* out it holds nothing: no region, mapping, pin, thread, class, device or *)
(* file survives (main.c:33-39,46-57, regulator.c:144-148, sysfs.c:119-138, *)
(* blink.c:20-32, temp.c:32-41).                                           *)
NothingLeaks == loader = "out" => held = {} /\ Drained

(* Whoever is inside read_temp, a user or the regulator thread, finds the  *)
(* registers mapped, and a device to be a file of, in every interleaving   *)
(* with a failing load or with the unload (main.c:50-54).                  *)
SensorMappedWhileUsed ==
  /\ (\E c \in Clients : handler[c] # "out") => {"temp_reg", "device", "class"} \subseteq held
  /\ thread["regulator_thread"] = "read_temp" => {"temp_reg", "regulator_thread"} \subseteq held

(* kthread_stop is only called for a thread that exists (mini-project.typ: *)
(* "The exit function stop this thread").  The code violates it when       *)
(* blink_init failed, which temp_regulator_init cannot see.                *)
StopsLiveThreads == loader # "oops"

(* Every load ends, loaded or not, and every unload ends, in spite of      *)
(* users that keep entering the files, if the blink thread was started:    *)
(* nobody waits for a handler or a thread that waits for the loader.       *)
LoadsAndUnloadsEnd ==
  "blink_thread" \in held /\ loader \in {"class_create", "stop_regulator"}
    ~> loader \in {"out", "loaded"}
=============================================================================
