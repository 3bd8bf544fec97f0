-------------------------- MODULE DriverLifecycle --------------------------
(***************************************************************************)
(* The kernel modules of the course, of the labs (src/01-skeleton,         *)
(* src/02-driver) and of the course's own solutions (solutions/02_modules, *)
(* solutions/03_drivers): what each acquires when it is loaded, what it    *)
(* does about a call that fails, and what it gives back when it is         *)
(* unloaded.  One module is loaded and unloaded while the rest of the      *)
(* system calls into whatever it has published.  A module is a record:     *)
(*   init     the calls of its init function (or probe), <<how, resource>> *)
(*   returns  "status" or, whatever failed, "zero"                         *)
(*   exit     the calls of its exit function (or remove)                   *)
(*   devm     the kinds that the driver core gives back by itself          *)
(* A resource is a kind and a number.  What a call does when it fails:     *)
(*   "chain"  it and all other chained calls are skipped from then on      *)
(*   "any"    nothing, its result is not looked at                         *)
(*   "after"  the same, and it is made only if the call before succeeded   *)
(*   "set"    init returns the result of the last call of this kind        *)
(*   "noted"  nothing at first, but init then fails after the last of them *)
(*   "must"   init returns at once                                         *)
(*   "put"    gives back, in init, unless it has failed; in exit "always"  *)
(*            does, and "held" after a test that there is anything to give *)
(*            back                                                         *)
(*                                                                         *)
(* An operator named F_something is F with a plausible bug in it, which no *)
(* behaviour of this specification has.                                    *)
(***************************************************************************)
EXTENDS Integers, Sequences, SequencesExt

CONSTANT Modules  \* the modules that may be loaded

VARIABLES kmod,    \* the module that is loaded
          phase, step, \* where it is
          status,  \* the status variable of its init function
          held,    \* the resources it has
          failed,  \* history: a call has failed
          misuse   \* what went wrong: then nothing more is said

drvVars == <<kmod, phase, step, status, held, failed, misuse>>

R(kind) == <<kind, 0>>
Each(how, kind, n) == [i \in 1 .. n |-> <<how, <<kind, i>>>>]
(* f(1) to f(n), one after the other.                                      *)
PerInstance(f(_), n) == FlattenSeq([i \in 1 .. n |-> f(i)])
-----------------------------------------------------------------------------
(* Labs: src/01-skeleton/kernel-module and src/02-driver.                  *)

(* skeleton.c is built with one of its exercises, whose functions return   *)
(* nothing.                                                                *)
Skeleton(init, exit) == [init |-> init, returns |-> "zero", devm |-> {}, exit |-> exit]

(* One kcalloc for all elements, of which exit frees every one: right for  *)
(* one element, the default.                                               *)
lab_dynamic_allocation(n) ==
  Skeleton(<<<<"must", <<"memory", 1>>>>>>,
           <<<<"held", <<"memory", 1>>>>>> \o Each("always", "memory", n - 1))

lab_io_memory_mapped ==
  Skeleton(Each("any", "region", 3) \o Each("must", "map", 3) \o Each("put", "map", 3),
           Each("held", "region", 3))

lab_thread == Skeleton(<<<<"must", R("thread")>>>>, <<<<"always", R("thread")>>>>)

lab_sleeping == Skeleton(Each("must", "thread", 2), Each("always", "thread", 2))

lab_interrupt ==
  Skeleton(PerInstance(LAMBDA i : <<<<"any", <<"gpio", i>>>>, <<"after", <<"irq", i>>>>>>, 3),
           PerInstance(LAMBDA i : <<<<"always", <<"gpio", i>>>>,
                                    <<"always", <<"irq", i>>>>>>, 3))

(* The device is open to everyone before it has buffers.                   *)
lab_character_driver ==
  [init |-> <<<<"must", R("chrdev")>>, <<"must", R("cdev")>>, <<"any", R("buffers")>>>>,
   returns |-> "status", devm |-> {},
   exit |-> <<<<"always", R("cdev")>>, <<"always", R("chrdev")>>, <<"held", R("buffers")>>>>]

ClassDevice == <<<<"any", R("class")>>, <<"any", R("device")>>>>
NoClassDevice == <<<<"always", R("device")>>, <<"always", R("class")>>>>

lab_sysfs == [init |-> ClassDevice \o <<<<"chain", R("file")>>>>, returns |-> "zero",
              devm |-> {}, exit |-> <<<<"always", R("file")>>>> \o NoClassDevice]
-----------------------------------------------------------------------------
(* Solutions: 02_modules.  The elements are allocated one by one.          *)

sol_elements(n) == [init |-> Each("any", "memory", n), returns |-> "zero", devm |-> {},
                    exit |-> Each("held", "memory", n)]

sol_io_memory == [init |-> <<<<"any", <<"region", 1>>>>>> \o Each("noted", "map", 3)
                             \o Each("put", "map", 3),
                  returns |-> "status", devm |-> {},
                  exit |-> <<<<"held", <<"region", 1>>>>>>]

sol_thread == [init |-> <<<<"any", R("thread")>>>>, returns |-> "zero", devm |-> {},
               exit |-> <<<<"always", R("thread")>>>>]

sol_sleeping == [init |-> Each("any", "thread", 2), returns |-> "zero", devm |-> {},
                 exit |-> Reverse(Each("always", "thread", 2))]

sol_interrupt ==
  [init |-> PerInstance(LAMBDA i : <<<<"chain", <<"gpio", i>>>>, <<"chain", <<"irq", i>>>>>>, 3),
   returns |-> "status", devm |-> {},
   exit |-> PerInstance(LAMBDA i : <<<<"always", <<"gpio", i>>>>,
                                     <<"always", <<"irq", i>>>>>>, 3)]
-----------------------------------------------------------------------------
(* Solutions: 03_drivers.                                                  *)

Chrdev == <<<<"chain", R("chrdev")>>, <<"chain", R("cdev")>>>>
NoChrdev == <<<<"always", R("cdev")>>, <<"always", R("chrdev")>>>>

drv_exercice02 == [init |-> Chrdev, returns |-> "zero", devm |-> {}, exit |-> NoChrdev]

drv_exercice03 == [init |-> Chrdev \o <<<<"after", R("buffers")>>>>, returns |-> "status",
                   devm |-> {}, exit |-> NoChrdev \o <<<<"held", R("buffers")>>>>]

TwoFiles(how) == Each(how, "file", 2)

drv_exercice05 == [init |-> ClassDevice \o TwoFiles("chain"), returns |-> "zero",
                   devm |-> {}, exit |-> TwoFiles("always") \o NoClassDevice]

(* The device has the number of the character device, and device_destroy   *)
(* looks for number 0: it finds nothing.                                   *)
drv_exercice05_1 ==
  [init |-> Chrdev \o ClassDevice \o TwoFiles("chain"), returns |-> "zero", devm |-> {},
   exit |-> TwoFiles("always") \o <<<<"always", R("class")>>>> \o NoChrdev]

(* The platform drivers: loading the module registers the driver.          *)
SysfsDriver(returns) == [init |-> <<<<"chain", R("driver")>>>>, returns |-> returns,
                         devm |-> {}, exit |-> <<<<"always", R("driver")>>>>]
driver_exercice06 == SysfsDriver("zero")
driver_exercice06_1 == SysfsDriver("zero")
driver_sample06_3 == SysfsDriver("zero")
driver_dts == SysfsDriver("status")

(* Probe and remove of a platform driver, with one device.                 *)
drv_exercice06 == [init |-> <<<<"must", <<"data", 1>>>>, <<"must", <<"misc", 1>>>>>>,
                   returns |-> "status", devm |-> {"data"},
                   exit |-> <<<<"always", <<"misc", 1>>>>>>]

Child_publishedfirst(i) == <<<<"must", <<"misc", i>>>>, <<"must", <<"data", i>>>>>>
Child(i) == <<<<"must", <<"data", i>>>>, <<"must", <<"misc", i>>>>>>

drv_exercice06_1_last(n) ==
  [init |-> <<<<"must", R("list")>>>> \o PerInstance(Child, n), returns |-> "status",
   devm |-> {"list", "data"}, exit |-> <<<<"always", <<"misc", n>>>>>>]

(* A device for each child of the device tree's node, kept in a list.      *)
drv_exercice06_1(n) ==
  [init |-> <<<<"must", R("list")>>>> \o PerInstance(Child, n), returns |-> "status",
   devm |-> {"list", "data"}, exit |-> Each("always", "misc", n)]

drv_sample06_2(n) ==
  [init |-> Chrdev \o PerInstance(LAMBDA i : <<<<"chain", <<"device", i>>>>,
                                               <<"chain", <<"file", i>>>>>>, n),
   returns |-> "status", devm |-> {},
   exit |-> PerInstance(LAMBDA i : <<<<"always", <<"file", i>>>>,
                                     <<"always", <<"device", i>>>>>>, n) \o NoChrdev]

(* The driver data is overwritten by each child: remove finds the last one *)
(* only, whose attribute goes with its device.  The device tree has three. *)
drv_sample06_3(n) ==
  [init |-> PerInstance(LAMBDA i : Child(i) \o <<<<"must", <<"attr", i>>>>>>, n),
   returns |-> "status", devm |-> {"data"},
   exit |-> <<<<"always", <<"misc", n>>>>, <<"held", <<"attr", n>>>>>>]

(* The interrupts belong to the device and are freed with it.              *)
drv_exercice07 == [init |-> <<<<"chain", R("misc")>>>> \o Each("chain", "irq", 3),
                   returns |-> "status", devm |-> {},
                   exit |-> <<<<"always", R("misc")>>>> \o Each("held", "irq", 3)]

drv_exercice08 == [init |-> Chrdev \o <<<<"chain", R("device")>>>>, returns |-> "zero",
                   devm |-> {}, exit |-> <<<<"always", R("device")>>>> \o NoChrdev]

drv_exercice09 == [init |-> Chrdev, returns |-> "zero", devm |-> {}, exit |-> NoChrdev]

drv_exercice10 == [init |-> <<<<"set", R("procdir")>>>> \o Each("any", "procfile", 2),
                   returns |-> "status", devm |-> {},
                   exit |-> Each("held", "procfile", 2) \o <<<<"always", R("procdir")>>>>]

drv_dts == [init |-> <<<<"any", R("misc")>>>>, returns |-> "zero", devm |-> {},
            exit |-> <<<<"always", R("misc")>>>>]

drv_sample05 == [init |-> ClassDevice \o <<<<"set", R("file")>>>>, returns |-> "status",
                 devm |-> {}, exit |-> <<<<"always", R("file")>>>> \o NoClassDevice]

drv_sample05_1(n) ==
  [init |-> <<<<"any", R("class")>>>>
            \o PerInstance(LAMBDA i : <<<<"any", <<"device", i>>>>, <<"set", <<"file", i>>>>>>, n),
   returns |-> "status", devm |-> {},
   exit |-> PerInstance(LAMBDA i : <<<<"always", <<"file", i>>>>,
                                     <<"always", <<"device", i>>>>>>, n)
            \o <<<<"always", R("class")>>>>]
-----------------------------------------------------------------------------
(* Loading and unloading.                                                  *)

DrvInit == /\ kmod \in Modules
           /\ phase = "init" /\ step = 1 /\ status = 0
           /\ held = {} /\ failed = FALSE /\ misuse = "no"

Live == misuse = "no"
Calls == IF phase = "init" THEN kmod.init ELSE kmod.exit
How == Calls[step][1]
Res == Calls[step][2]
AtCall(ph) == Live /\ phase = ph /\ step <= Len(Calls)
AtEnd(ph) == Live /\ phase = ph /\ step > Len(Calls)

(* The driver core frees what was asked for with devm_.                    *)
Released == {r \in held : r[1] \in kmod.devm}

(* What has to be there for a call to make sense: the same number, or the  *)
(* only one, of another kind that the module itself acquires.              *)
Missing(base, r) == /\ r[1] \in DOMAIN base
                    /\ \E i \in DOMAIN kmod.init : kmod.init[i][2][1] = base[r[1]]
                    /\ held \cap {<<base[r[1]], 0>>, <<base[r[1]], r[2]>>} = {}

ToAcquire == [file |-> "device", device |-> "class", irq |-> "gpio", attr |-> "misc"]
ToRemove == [file |-> "device", device |-> "class", irq |-> "gpio"]
ToServe == [cdev |-> "buffers", misc |-> "data"]

(* A misused kernel object leaves nothing to be said of what follows.      *)
Misuse(what) == misuse' = what /\ UNCHANGED <<kmod, phase, step, status, held, failed>>

Skipped == \/ How \in {"chain", "put"} /\ status # 0
           \/ How = "after" /\ kmod.init[step - 1][2] \notin held

NextCall == step' = step + 1 /\ UNCHANGED <<kmod, phase, misuse>>

Skip == /\ AtCall("init") /\ Skipped
        /\ NextCall
        /\ UNCHANGED <<status, held, failed>>

Acquire == /\ AtCall("init") /\ ~Skipped /\ How # "put" /\ ~Missing(ToAcquire, Res)
           /\ held' = held \cup {Res}
           /\ status' = IF How = "set" THEN 0 ELSE status
           /\ NextCall
           /\ UNCHANGED failed

(* A call can fail for want of memory, of a free number, or for a clash.   *)
AcquireFails == /\ AtCall("init") /\ ~Skipped /\ How \notin {"put", "must"}
                /\ ~Missing(ToAcquire, Res)
                /\ failed' = TRUE
                /\ status' = IF How \in {"chain", "set", "noted"} THEN -1 ELSE status
                /\ NextCall
                /\ UNCHANGED held

InitReturns(result) ==
  /\ phase' = IF result = 0 \/ kmod.returns = "zero" THEN "loaded" ELSE "failed"
  /\ held' = IF phase' = "failed" THEN held \ Released ELSE held
  /\ step' = 1
  /\ UNCHANGED <<kmod, misuse>>

MustFails == /\ AtCall("init") /\ How = "must"
             /\ failed' = TRUE
             /\ status' = -1
             /\ InitReturns(-1)

PutInInit == /\ AtCall("init") /\ How = "put" /\ ~Skipped
             /\ held' = held \ {Res}
             /\ NextCall
             /\ UNCHANGED <<status, failed>>

Loaded == AtEnd("init") /\ InitReturns(status) /\ UNCHANGED <<status, failed>>

BaseMisused == /\ \/ AtCall("init") /\ ~Skipped /\ How # "put" /\ Missing(ToAcquire, Res)
                  \/ AtCall("exit") /\ Res \in held /\ Missing(ToRemove, Res)
               /\ Misuse("base")

(* A process opens a device and reads or writes it.  A module that is      *)
(* being loaded can already be opened, one that is being unloaded cannot.  *)
CallFromOutside == /\ Live /\ phase \in {"init", "loaded", "unloaded"}
                   /\ \E r \in held : r[1] \in DOMAIN ToServe /\ Missing(ToServe, r)
                                        /\ Misuse(IF phase = "init" /\ r[1] = "cdev"
                                                   THEN "early call" ELSE "call")

Unload == /\ Live /\ phase = "loaded"
          /\ phase' = "exit"
          /\ UNCHANGED <<kmod, step, status, held, failed, misuse>>

(* kfree of NULL and the like do nothing.                                  *)
GiveBack == /\ AtCall("exit") /\ ~Missing(ToRemove, Res)
            /\ How = "held" \/ Res \in held
            /\ held' = held \ {Res}
            /\ NextCall
            /\ UNCHANGED <<status, failed>>

PutMisused == AtCall("exit") /\ How = "always" /\ Res \notin held /\ Misuse("put")

Unloaded == /\ AtEnd("exit")
            /\ phase' = "unloaded"
            /\ held' = held \ Released
            /\ UNCHANGED <<kmod, step, status, failed, misuse>>

DrvNext == \/ Skip \/ Acquire \/ AcquireFails \/ MustFails \/ PutInInit \/ Loaded
           \/ BaseMisused \/ CallFromOutside \/ PutMisused
           \/ Unload \/ GiveBack \/ Unloaded

DrvSpec == DrvInit /\ [][DrvNext]_drvVars
-----------------------------------------------------------------------------
(* What a module took when nothing failed it gives back when it is         *)
(* unloaded, all of it, with init and exit written apart from each other   *)
(* and in loops of their own.                                              *)
CleanAfterUnload == phase = "unloaded" /\ ~failed => held = {}

(* As long as no call fails: nothing is given back that is not there or    *)
(* that something still hangs on (a file on its device, an interrupt on    *)
(* its line), and whoever opens a device finds its data there, for a misc  *)
(* device even while the module is still being loaded.  (A character       *)
(* device may be opened before its buffers are there:                      *)
(* character-oriented/skeleton.c:141-158.)  lab_interrupt and              *)
(* sol_interrupt free each line before the interrupt on it                 *)
(* (s02e08-interrupt.c:69-76): of them this is not true.                   *)
MisusedOnlyAfterFailure == misuse \in {"call", "put", "base"} => failed
=============================================================================
