--------------------------- MODULE LifecycleProofs ---------------------------
(***************************************************************************)
(* Theorems about ModuleLifecycle, for any number of users of the files    *)
(* and whichever calls of the load may fail.                               *)
(*                                                                         *)
(* The argument is a lifetime for each resource: the points of insmod and  *)
(* rmmod between the call that takes it and the call that gives it back.   *)
(* Lifetimes nest, because every failure path joins the unload at the      *)
(* point that undoes the last call that succeeded.                         *)
(***************************************************************************)
EXTENDS ModuleLifecycle, TLAPS

LifeOfThread == {"loaded", "stop_regulator", "join_regulator"}
LifeOfFiles  == LifeOfThread \cup {"run_regulator", "remove_group"}
LifeOfUsers  == LifeOfFiles \cup {"drain"}
LifeOfDevice == LifeOfUsers \cup {"create_group", "device_destroy"}
LifeOfClass  == LifeOfDevice \cup {"device_create", "class_destroy"}
LifeOfBlink  == LifeOfClass \cup {"class_create", "stop_blink", "join_blink"}
LifeOfGpio   == LifeOfBlink \cup {"gpio_direction_output", "run_blink", "gpio_free",
                                  "free_gpio_of_failed_blink", "oops"}
LifeOfMap    == LifeOfGpio \cup {"gpio_request", "iounmap"}
LifeOfRegion == LifeOfMap \cup {"ioremap", "release_mem_region"}

(* A call that must have worked for the load to get this far, and one that *)
(* may have failed without stopping it.                                    *)
Lifetimes ==
  /\ "temp_reg" \in held <=> loader \in LifeOfMap
  /\ "class" \in held <=> loader \in LifeOfClass
  /\ "device" \in held <=> loader \in LifeOfDevice
  /\ "files" \in held <=> loader \in LifeOfFiles
  /\ "region" \in held => loader \in LifeOfRegion
  /\ "gpio" \in held => loader \in LifeOfGpio
  /\ "blink_thread" \in held => loader \in LifeOfBlink
  /\ "regulator_thread" \in held => loader \in LifeOfThread
  /\ loader \in {"loaded", "stop_regulator"} => "regulator_thread" \in held

(* Users are inside while there are files and until the group is drained;  *)
(* a thread is asked to stop only while the unload waits for it, and the   *)
(* one that reads the temperature has not returned.                        *)
Activity ==
  /\ \A c \in Clients : handler[c] # "out" => loader \in LifeOfUsers
  /\ "regulator_thread" \in should_stop => loader = "join_regulator"
  /\ "blink_thread" \in should_stop => loader = "join_blink"
  /\ thread["regulator_thread"] = "read_temp" => "regulator_thread" \in held

LifeInv == LifeTypeOK /\ Lifetimes /\ Activity

LEMMA LifeInvInit == LifeInit => LifeInv
  BY DEF LifeInit, LifeInv, LifeTypeOK, Lifetimes, Activity, Threads, Resources, Calls,
         LifeOfThread, LifeOfFiles, LifeOfUsers, LifeOfDevice, LifeOfClass, LifeOfBlink,
         LifeOfGpio, LifeOfMap, LifeOfRegion


(* A user that enters, reads or leaves.                                    *)
LEMMA UsersKeepInv == ASSUME LifeInv, NEW c \in Clients,
                             Enter(c) \/ ClientReadsTemp(c) \/ Leave(c)
                      PROVE  LifeInv'
<1>1. UNCHANGED <<loader, held, should_stop, thread>>
  BY DEF Enter, ClientReadsTemp, Leave
<1>2. /\ handler' \in [Clients -> {"out", "in", "read_temp"}]
      /\ \A d \in Clients : handler'[d] # "out" => d = c \/ handler[d] # "out"
  BY DEF LifeInv, LifeTypeOK, Enter, ClientReadsTemp, Leave
<1>3. loader \in LifeOfUsers
  <2>1. CASE Enter(c)
    BY <2>1 DEF LifeInv, Lifetimes, Enter, LifeOfUsers
  <2>2. CASE handler[c] # "out"
    BY <2>2 DEF LifeInv, Activity
  <2> QED
    BY <2>1, <2>2 DEF ClientReadsTemp, Leave
<1>4. LifeTypeOK'
  BY <1>1, <1>2 DEF LifeInv, LifeTypeOK
<1>5. Lifetimes'
  BY <1>1 DEF LifeInv, Lifetimes
<1>6. Activity'
  BY <1>1, <1>2, <1>3 DEF LifeInv, Activity
<1> QED
  BY <1>4, <1>5, <1>6 DEF LifeInv

LEMMA LifeInvNext == LifeInv /\ [LifeNext]_lifeVars => LifeInv'
<1> SUFFICES ASSUME LifeInv, [LifeNext]_lifeVars
             PROVE  LifeInv'
  OBVIOUS
<1> USE DEF LifeInv, LifeTypeOK, Lifetimes, Activity, Threads, Resources, Calls,
            LifeOfThread, LifeOfFiles, LifeOfUsers, LifeOfDevice, LifeOfClass,
            LifeOfBlink, LifeOfGpio, LifeOfMap, LifeOfRegion
<1>1. CASE Insmod
  BY <1>1 DEF Insmod
<1>2. CASE Rmmod
  BY <1>2 DEF Rmmod
<1>3. CASE temp_init
  <2>1. CASE Take("request_mem_region", "region", "ioremap", "ioremap")
    BY <2>1 DEF Take
  <2>2. CASE Take("ioremap", "temp_reg", "gpio_request", "release_mem_region")
    BY <2>2 DEF Take
  <2> QED
    BY <1>3, <2>1, <2>2 DEF temp_init
<1>4. CASE blink_init
  <2>1. CASE Take("gpio_request", "gpio", "gpio_direction_output", "class_create")
    BY <2>1 DEF Take
  <2>2. CASE loader = "gpio_direction_output"
    <3>1. /\ UNCHANGED <<should_stop, thread, handler>>
          /\ \/ loader' = "run_blink" /\ held' = held
             \/ loader' = "class_create" /\ held' = held \ {"gpio"}
      BY <1>4, <2>2 DEF blink_init, Take, GiveBack
    <3>2. CASE loader' = "run_blink" /\ held' = held
      BY <2>2, <3>1, <3>2
    <3>3. CASE loader' = "class_create" /\ held' = held \ {"gpio"}
      BY <2>2, <3>1, <3>3
    <3> QED
      BY <3>1, <3>2, <3>3
  <2>3. CASE Take("run_blink", "blink_thread", "class_create", "free_gpio_of_failed_blink")
    BY <2>3 DEF Take
  <2>4. CASE GiveBack("free_gpio_of_failed_blink", "gpio", "class_create")
    BY <2>4 DEF GiveBack
  <2> QED
    BY <1>4, <2>1, <2>2, <2>3, <2>4 DEF blink_init
<1>5. CASE regulator_init
  <2>1. CASE Take("class_create", "class", "device_create", "stop_blink")
    BY <2>1 DEF Take
  <2>2. CASE Take("device_create", "device", "create_group", "class_destroy")
    BY <2>2 DEF Take
  <2>3. CASE Take("create_group", "files", "run_regulator", "device_destroy")
    BY <2>3 DEF Take
  <2>4. CASE Take("run_regulator", "regulator_thread", "loaded", "remove_group")
    BY <2>4 DEF Take
  <2> QED
    BY <1>5, <2>1, <2>2, <2>3, <2>4 DEF regulator_init, temp_regulator_sysfs_init
<1>6. CASE regulator_exit
  <2>1. CASE KthreadStop("stop_regulator", "regulator_thread", "join_regulator")
    BY <2>1 DEF KthreadStop
  <2>2. CASE Joined("join_regulator", "regulator_thread", "remove_group")
    BY <2>2 DEF Joined
  <2>3. CASE RemoveGroup
    BY <2>3 DEF RemoveGroup, GiveBack
  <2>4. CASE Drain
    BY <2>4 DEF Drain, Drained
  <2>5. CASE GiveBack("device_destroy", "device", "class_destroy")
    BY <2>5 DEF GiveBack
  <2>6. CASE GiveBack("class_destroy", "class", "stop_blink")
    BY <2>6 DEF GiveBack
  <2> QED
    BY <1>6, <2>1, <2>2, <2>3, <2>4, <2>5, <2>6 DEF regulator_exit, temp_regulator_sysfs_exit
<1>7. CASE blink_exit
  <2>1. CASE KthreadStop("stop_blink", "blink_thread", "join_blink")
    BY <2>1 DEF KthreadStop
  <2>2. CASE Joined("join_blink", "blink_thread", "gpio_free")
    BY <2>2 DEF Joined
  <2>3. CASE GiveBack("gpio_free", "gpio", "iounmap")
    BY <2>3 DEF GiveBack
  <2> QED
    BY <1>7, <2>1, <2>2, <2>3 DEF blink_exit
<1>8. CASE temp_exit
  <2>1. CASE GiveBack("iounmap", "temp_reg", "release_mem_region")
    BY <2>1 DEF GiveBack
  <2>2. CASE GiveBack("release_mem_region", "region", "out")
    BY <2>2 DEF GiveBack
  <2> QED
    BY <1>8, <2>1, <2>2 DEF temp_exit
<1>9. CASE ThreadReadsTemp
  BY <1>9 DEF ThreadReadsTemp
<1>10. CASE ThreadRead
  BY <1>10 DEF ThreadRead
<1>11. ASSUME NEW t \in Threads, ThreadReturns(t) PROVE LifeInv'
  BY <1>11 DEF ThreadReturns
<1>12. ASSUME NEW c \in Clients, Enter(c) \/ ClientReadsTemp(c) \/ Leave(c) PROVE LifeInv'
  BY <1>12, UsersKeepInv
<1>13. CASE UNCHANGED lifeVars
  BY <1>13 DEF lifeVars
<1> QED
  BY <1>1, <1>2, <1>3, <1>4, <1>5, <1>6, <1>7, <1>8, <1>9, <1>10, <1>11, <1>12, <1>13
     DEF LifeNext, Loading, Unloading

LEMMA LifeInvAlways == LifeSpec => []LifeInv
<1> QED
  BY LifeInvInit, LifeInvNext, PTL DEF LifeSpec
-----------------------------------------------------------------------------
(* The module is always at a point of its load or unload, and only threads *)
(* it still has are asked to stop (main.c:26-57).                          *)
THEOREM LifeTypeCorrect == LifeSpec => []LifeTypeOK
<1>1. LifeInv => LifeTypeOK
  BY DEF LifeInv
<1> QED
  BY <1>1, LifeInvAlways, PTL

(* Whichever calls failed, an unloaded module holds nothing and nobody is  *)
(* inside its handlers (main.c:33-39,46-57).                               *)
THEOREM NothingIsLeaked == LifeSpec => []NothingLeaks
<1>1. LifeInv => NothingLeaks
  <2> SUFFICES ASSUME LifeInv, loader = "out"
               PROVE  held = {} /\ Drained
    BY DEF NothingLeaks
  <2>1. loader \notin LifeOfRegion
    BY DEF LifeOfThread, LifeOfFiles, LifeOfUsers, LifeOfDevice, LifeOfClass,
           LifeOfBlink, LifeOfGpio, LifeOfMap, LifeOfRegion
  <2>2. \A r \in Resources : r \notin held
    BY <2>1 DEF LifeInv, Lifetimes, Resources, LifeOfFiles, LifeOfUsers, LifeOfDevice,
                LifeOfClass, LifeOfBlink, LifeOfGpio, LifeOfMap, LifeOfRegion
  <2>3. Drained
    BY <2>1 DEF LifeInv, Activity, Drained, LifeOfDevice, LifeOfClass, LifeOfBlink,
                LifeOfGpio, LifeOfMap, LifeOfRegion
  <2> QED
    BY <2>2, <2>3 DEF LifeInv, LifeTypeOK
<1> QED
  BY <1>1, LifeInvAlways, PTL

(* The registers are mapped for as long as a user or the regulator thread  *)
(* may be reading the sensor, and the user's file has a device (main.c:50). *)
THEOREM SensorStaysMapped == LifeSpec => []SensorMappedWhileUsed
<1>1. LifeInv => SensorMappedWhileUsed
  <2> SUFFICES ASSUME LifeInv PROVE SensorMappedWhileUsed
    OBVIOUS
  <2>1. LifeOfUsers \subseteq LifeOfDevice /\ LifeOfDevice \subseteq LifeOfClass
        /\ LifeOfClass \subseteq LifeOfMap /\ LifeOfThread \subseteq LifeOfMap
    BY DEF LifeOfFiles, LifeOfUsers, LifeOfDevice, LifeOfClass, LifeOfBlink,
           LifeOfGpio, LifeOfMap
  <2>2. (\E c \in Clients : handler[c] # "out") => {"temp_reg", "device", "class"} \subseteq held
    BY <2>1 DEF LifeInv, Activity, Lifetimes
  <2>3. thread["regulator_thread"] = "read_temp" => {"temp_reg", "regulator_thread"} \subseteq held
    BY <2>1 DEF LifeInv, Activity, Lifetimes
  <2> QED
    BY <2>2, <2>3 DEF SensorMappedWhileUsed
<1> QED
  BY <1>1, LifeInvAlways, PTL
-----------------------------------------------------------------------------
(* If the three calls of blink_init cannot fail there is a blink thread    *)
(* from the class to the end of the unload.                                *)
BlinkCalls == {"gpio_request", "gpio_direction_output", "run_blink"}

BlinkRuns == /\ loader \in LifeOfBlink \ {"join_blink"} => "blink_thread" \in held
             /\ loader \notin {"free_gpio_of_failed_blink", "oops"}

LEMMA BlinkRunsNext == ASSUME CanFail \cap BlinkCalls = {}, LifeInv, BlinkRuns,
                              [LifeNext]_lifeVars
                       PROVE  BlinkRuns'
<1> USE DEF BlinkCalls, BlinkRuns, LifeOfThread, LifeOfFiles, LifeOfUsers, LifeOfDevice,
            LifeOfClass, LifeOfBlink
<1>1. CASE Insmod \/ Rmmod
  BY <1>1 DEF Insmod, Rmmod
<1>2. CASE temp_init
  BY <1>2 DEF temp_init, Take
<1>3. CASE blink_init
  BY <1>3 DEF blink_init, Take, GiveBack
<1>4. CASE regulator_init
  BY <1>4 DEF regulator_init, temp_regulator_sysfs_init, Take
<1>5. CASE regulator_exit
  <2>1. CASE KthreadStop("stop_regulator", "regulator_thread", "join_regulator")
    BY <2>1 DEF KthreadStop, LifeInv, Lifetimes
  <2>2. CASE Joined("join_regulator", "regulator_thread", "remove_group")
    BY <2>2 DEF Joined
  <2>3. CASE temp_regulator_sysfs_exit
    BY <2>3 DEF temp_regulator_sysfs_exit, RemoveGroup, Drain, GiveBack
  <2> QED
    BY <1>5, <2>1, <2>2, <2>3 DEF regulator_exit
<1>6. CASE blink_exit
  BY <1>6 DEF blink_exit, KthreadStop, Joined, GiveBack
<1>7. CASE temp_exit
  BY <1>7 DEF temp_exit, GiveBack
<1>8. ASSUME NEW t \in Threads, ThreadReturns(t) PROVE BlinkRuns'
  BY <1>8 DEF ThreadReturns, LifeInv, Activity, Threads
<1>9. CASE UNCHANGED <<loader, held>>
  BY <1>9
<1> QED
  BY <1>1, <1>2, <1>3, <1>4, <1>5, <1>6, <1>7, <1>8, <1>9
     DEF LifeNext, Loading, Unloading, ThreadReadsTemp, ThreadRead, Enter,
         ClientReadsTemp, Leave, lifeVars

(* The caller of kthread_stop dies for one reason only: a failure of       *)
(* blink_init, which returns void, so that nobody hears of it              *)
(* (main.c:25,50, blink.c:8-37).                                           *)
THEOREM OnlyBlinkFailureKills ==
  ASSUME CanFail \cap BlinkCalls = {}
  PROVE  LifeSpec => []StopsLiveThreads
<1>1. LifeInit => BlinkRuns
  BY DEF LifeInit, BlinkRuns, LifeOfThread, LifeOfFiles, LifeOfUsers, LifeOfDevice,
         LifeOfClass, LifeOfBlink
<1>2. LifeInv /\ BlinkRuns /\ [LifeNext]_lifeVars => BlinkRuns'
  BY BlinkRunsNext
<1>3. BlinkRuns => StopsLiveThreads
  BY DEF BlinkRuns, StopsLiveThreads
<1> QED
  BY <1>1, <1>2, <1>3, LifeInvAlways, PTL DEF LifeSpec
=============================================================================
