# Verification of the CSEL laboratory programs

TLA+ models, TLC runs and TLAPS proofs for the programs of `src/src/`, above all for the
mini-project `src/src/06-mini-project/`: a simulated fan (the status LED) that a kernel module
drives by the processor's temperature, with a user-space daemon and a command line client.

## Inventory

| component | state it keeps | operations | interacts through | what is hard, what makes it correct |
|---|---|---|---|---|
| regulator (`kernel/regulator/`) | `current_mode`, `current_period`, `regulator_lock`, one kernel thread | the callbacks of five sysfs handlers; once a second: sample the mode, read the temperature, apply a period | callbacks from sysfs, `adjust_period` of blink, `read_temp` | thread against users: the mode is sampled, released and used; two copies of the period must agree |
| kernel sysfs (`kernel/sysfs/`) | `device_cbs`, `sysfs_lock`, class and device | `temperature_show`, `mode_show`, `mode_store`, `period_status_show`, `period_set_store`; creation and removal | users above, regulator below, both locks nested | lock order, every call returns, no handler outlives the module |
| blink (`kernel/blink/`) | `blink_period_ms` (atomic), one kernel thread | toggle, read the period, sleep half of it; `adjust_period` | lock-free read of what the regulator writes | unsigned to signed conversion, endless sleep, silent init failure |
| temperature (`kernel/temperature/`) | mapped registers, `temp_lock` | `read_temp`, map, unmap | called by handlers and by the thread | two formulas, truncation, wrap-around below zero |
| module entry (`kernel/main.c`) | none | init and exit of the four parts above | all of them | a failure at any step, users inside handlers meanwhile |
| daemon application (`daemon/application/`) | `app_lock`, pending animations, its condition variable, user-side `sysfs_lock` | increase, decrease, toggle, set; animation worker | sysfs files, power LED, called by buttons and IPC | read-modify-write against writers that take no lock; lost wake-ups |
| buttons (`daemon/gpio/button.c`) | list of buttons, epoll instance, a mutex per button | init, set callback, event loop | calls the application layer | level read after the edge; double and missed presses |
| IPC server (`daemon/ipc/`) and client (`cli/`) | socket, `is_running`, callbacks, `cb_mutex` | route one message; send one datagram | datagram socket | restart, lost messages, argument check on an unsigned value |
| OLED (`daemon/oled/`) | what the screen shows | fetch three values, draw four rows, every 250 ms | reads through the application layer | separate fetches, rests of longer texts |
| LED controller (`03-led-controller/`) | one period shared by two threads without a lock | three buttons, one timer | shared variable, timerfd | transient zero, two reads of one value |
| process pair (`04-multiprocessing/`) | socket pair | writer, reader, signals | socket, fork | messages on a stream, interrupted reads, a reader that keeps the writer's end open |
| kernel exercises (`01-skeleton`, `02-driver`) | a list, wait queues, buffers of devices | module init and exit, open, read, write | kernel interfaces | init order against users, failing calls, lost wake-ups |
| course solutions (`src/solutions/`) | those of the same kernel modules and drivers, platform drivers with several devices | init, exit, probe, remove | kernel interfaces | what is acquired in a loop is given back by code written apart from it |

`PROJECT.json` lists every component with its sources and whether it is modelled, and the hazards
of this code at their lines.

## Modules

| module | models | EXTENDS / INSTANCE |
|---|---|---|
| `Temperature` | `read_temp`, the thresholds of `process_auto_mode`, `uint32_t` and its conversion to `int`; pure | |
| `FanControl` | abstract: what the regulator promises about mode and period | `Temperature` |
| `Regulator` | `regulator.c`, the handlers of `sysfs.c`, the loop of `blink.c`, at the grain of the locks | `Temperature`; `Fan == INSTANCE FanControl` |
| `MCRegulator` | instances of `Regulator` for TLC | `Regulator` |
| `RegulatorProofs` | theorems about `Regulator` | `Regulator`, `TLAPS` |
| `ModuleLifecycle` | `main.c` and the init and exit functions it calls, with failures, users and threads | |
| `LifecycleProofs` | theorems about `ModuleLifecycle` | `ModuleLifecycle`, `TLAPS` |
| `DaemonApp` | the daemon's `app.c` and `sysfs.c`: increase, decrease, toggle, set, over a reloadable kernel module | `FanControl` |
| `DaemonProofs` | theorems about `DaemonApp` | `DaemonApp`, `TLAPS` |
| `Animation` | the pulses of the power LED: `trigger_pulse`, `animation_worker`, `init_animations` | |
| `AnimationProofs` | theorems about `Animation` | `Animation`, `TLAPS` |
| `Buttons` | `button.c` and the set-up of the daemon's `main`, composed with `Animation` | `Animation` |
| `ButtonProofs` | theorems about `Buttons`, and that it implements `Animation` | `Buttons`, `AnimationProofs` |
| `IpcServer` | client and IPC server around one socket file | |
| `MCIpcServer` | the requests of its run | `IpcServer` |
| `IpcProofs` | theorems about `IpcServer` | `IpcServer`, `SequenceTheorems`, `TLAPS` |
| `DriverLifecycle` | loading, use and unloading of the kernel modules of labs and solutions | |
| `DriverProofs` | theorems about `DriverLifecycle`, for any table and for those of the course | `DriverLifecycle`, `WellFoundedInduction`, `TLAPS` |
| `Sleeping` | the two threads of s02e07 and of its solution | |
| `LedController` | lab 3 | |
| `ProcessPair` | lab 4 | |
| `Oled` | the daemon's display | |
| `MCStandalone` | `DriverLifecycle`, `Sleeping`, `LedController`, `ProcessPair` and `Oled`, one per behaviour | all five |
| `StandaloneProofs` | theorems about `Sleeping`, `LedController`, `ProcessPair` and `Oled` | these four, `DriverProofs` (induction), `TLAPS` |
| `MCDriverLeak` | the driver of sample06.3 with three devices | `DriverLifecycle` |

Operators named `F_something` are variants of `F` with a plausible bug (a missing check, a lost
unlock, another order). No behaviour of a specification uses them. With `F` replaced by its
variant TLC finds the property of `PROJECT.json` "mutants" violated, so no property holds by the
shape of the model alone.

### Regulator

A client is a process outside (`idle`) or inside one access to a sysfs file. Its `pc` follows the
code: `sysfs_lock` (waits for that mutex), then `read_temp` or `reg_lock`, then the body of the
callback under `regulator_lock`, `return`. An operation and its guard are those of the callback:
`cb_set_mode` is not reached with a mode other than 0 or 1, `cb_set_period` changes something only
in mode 0 and above 0. The period is written in two steps, `current_period` first and then, at
`adjust`, `blink_period_ms`; both under `regulator_lock`, but the blink thread reads the second
without a lock. A mutex is a variable holding its owner. Taking it is a step of its own; releasing
it is part of the last step that it protects, which only removes states in which nothing else
could have noticed the difference. The regulator thread samples the mode, unlocks, reads the
sensor (`temp_lock` protects that single read and is folded into it), locks again and applies.
`late` is a history variable: the automatic writes in manual mode since the mode was last set.

A local variable that is dead has its initial value, requests of idle clients are cleared, and the
level of the LED pin is left out: this only identifies states that behave alike. Texts that do not
parse return without an effect and are stuttering steps. `msleep` is given an unsigned number, and
Linux turns one with the top bit set into an endless timeout; so `BlinkWake` is enabled only for a
period that is not negative. How long a finite sleep takes is not modelled.

`FanControl` keeps `mode`, `period` and `pending`: in manual mode the period is changed by the user,
in automatic mode by the thresholds, and after a switch to manual mode at most one adjustment that
was already decided may still land. `ImplementsFanControl` is the refinement, with `pending` mapped
to "automatic mode, or the thread is past its look at the mode".

### ModuleLifecycle

One step per resource that init takes or exit gives back. Every call in `CanFail` may fail, and the
failure paths enter the unwinding chain where the code enters it. `blink_init` cannot report a
failure, so the loader goes on. Users enter handlers as soon as the files exist, and
`sysfs_remove_group` waits for those inside (a guarantee of the kernel, marked external). The
threads look at `kthread_should_stop` at the head of their loop. `kthread_stop` of a thread that was
never started ends in `oops`.

### DaemonApp

The kernel module appears as `FanControl`, which `Regulator` was shown to implement, so the daemon
is checked against what the module promises and not against its locks. Two threads call: the button
thread (increase, decrease, toggle) and the IPC thread (increase, decrease, set mode, set period), as
`main.c` registers them. A call under `app_lock` is three steps, `LockApp`, `Read` and the write; one
access to a file, under the daemon's own `sysfs_lock`, is one step because that lock is held for a
single access only. `set_period` and `set_mode` of the IPC thread are a single write without
`app_lock`. Meanwhile the module adjusts the period and may be unloaded and loaded; without it a read
gives 0 and a write goes nowhere. `dirty[t]` is a history variable: what `t` has read under `app_lock`
was changed since by somebody who does not take that lock. `UpdatesAreAtomic` exempts exactly those
updates, which really may overwrite a message or start from an outdated value.

### Animation

`trigger_pulse` and `animation_worker` at the grain of what another thread can notice: lock,
increment, signal with unlock; lock, look, wait or take. `pthread_cond_wait` gives up the mutex and
waits in one step, a signal without a waiter is forgotten, and a wait may end by itself
(`SpuriousWakeup`). The worker does not exist until `init_animations`, which `main` calls after the
buttons work. `keep_running` is never cleared in the code, so the worker never ends.

### Buttons

One step per call of `main`'s set-up (`Startup` is the list of them). A call of `CanFail` may end
the program. Two kinds of failure go unnoticed: `BTN_init` succeeds although `epoll_ctl`, or the
request for both edges, failed (`watched` has the buttons whose edges epoll hears of), and
`init_animations` does not look at the result of `pthread_create`, so that there may be no worker.
Then there are the epoll thread, which starts inside the first `BTN_init`; the user; and
`Animation`, whose `Press` is the first thing the callbacks of the two period buttons do, on the
epoll thread. The GPIO driver reports both edges; `ready` is epoll's list of files with news,
`events` what one `epoll_wait` returned. The level is read when the event is looked at, so that an
edge may find the level of a later press or none. The callback holds the button's mutex, which only
`BTN_set_callback` also wants. Of each button the model counts presses and callbacks, and remembers
whether a press is `due`: made with the callback set, still held, not yet called back.

### IpcServer

A client is one step: it checks its arguments and its `sendto` finds the socket behind the file or
not. `start_ipc_server` is a step per call, because a second daemon may come in between; the thread
receives and calls back. A daemon may be killed at any place and started again. `asked` and `called`
are the history of a daemon's life, `mishap` remembers that a daemon ended since the last bind. The
value of a message is a `uint32_t`, as is what `atoi` gave.

### The programs on their own

`DriverLifecycle` treats every kernel module as data: the calls of its init function with what the
code does about the failure of each (skip the rest, go on, return, undo), the calls of its exit
function with the tests around them, and what the driver core frees by itself (`devm_`). One set of
actions loads, uses and unloads whichever it is, and any call may fail. A resource given back twice,
or while another hangs on it (a file on its device, a device on its class, an interrupt on its GPIO
line), or a device opened without its data, ends the behaviour with a `misuse` of that name. The
table is read off the init and exit functions alone, so that an entry is as good as its two lists.
Two things in the sources do not build as committed: `solutions/03_drivers/exercice06` defines two
`module_init`, of which the one of its `INIT` variant is modelled, and `skeleton.c` of lab 1 calls
an `Alloc_init` that no file has (`dynAlloc_init` is taken); the other variants chosen by a macro
are those the sources define.

`Sleeping` has the two threads, their two wait queues, the trigger and the exit function, for the lab
and, with the same actions, for the solution, whose waker does not wait. `wait_event` tests and
sleeps in one step, which is what the kernel guarantees; `kthread_stop` sets the flag and wakes.

`LedController` makes each access to the shared `flash_period_ms` a step: the decrease and its
correction are two writes, the halves of a period come from two reads. `timer_set_time` with 0
disarms the timer and below 0 ends the program. Either thread may end when its wait, or the read of
the timer, fails (`TimerFails`, `ButtonWaitFails`); the program goes on without it. `window`
remembers that a read fell between the decrease and its correction.

`ProcessPair` is a stream by the number of bytes written and read; a read returns what there is, up
to what it asked for, or nothing when a signal interrupts it. `upset` remembers an early exit or such
a signal.

`Oled` fetches three values in any order, each from the kernel at that moment, and draws row after
row. A row is the value it shows and the last column with a glyph: a shorter text leaves the rest of
a longer one unless it has blanks behind it. `widest` remembers the longest value that a row ever
had. Temperatures are any natural numbers and periods any integers but 0, as `%d` prints them. A
text of more than 16 columns (a period of 10 s, or a frequency of 1000 Hz, with the two blanks)
wraps to the beginning of its own row and writes over its own label; what it makes of that is not
modelled, only that the row is then full. Transfers that fail on the way to the display are left out
too.

## Runs

| run | bounds | shows |
|---|---|---|
| `regulator` | 2 clients (symmetric), modes 0, 1 and a refused 2, periods 0, 700 and one above INT_MAX, 3 temperatures (84, 37 and -0.1 degrees) | types, mutual exclusion, agreement of the two copies, at most one late write, status never 0, thresholds monotone, refinement of `FanControl` |
| `regulator_live` | 2 clients that set mode and period, 2 temperatures | every call returns; automatic mode settles; a lasting period reaches the LED |
| `regulator_stale` | 1 client | counterexample: an automatic write changes the period in manual mode |
| `period_sign` | 1 client, periods 700 and one above INT_MAX | counterexample: after the large period no later one reaches the LED |
| `below_zero` | 1 client, 20 and -0.1 degrees | counterexample: the coldest processor gets the shortest period |
| `lifecycle` | 2 clients, any call may fail, loads repeat | nothing leaks, no read of an unmapped sensor, loads and unloads end |
| `lifecycle_blink` | 1 client, the calls of `blink_init` may fail | counterexample: the unload stops a thread that does not exist |
| `daemon` | both threads, all operations, modes 0, 1 and a refused 2, set periods 30 and 180, increases from at most 250, reloads | no update of a lock holder is lost, no wrap into a period that freezes the LED, every call returns |
| `animation` | the epoll thread, 2 presses on a period button and the mode button, each possibly held since before the start, any failure of the set-up | no lost wake-up, never more pulses than callbacks, at most two callbacks a press; unless set-up failed unnoticed, a held press is handled and every callback of a period button pulses |
| `ipc` | 2 daemons, 3 starts, 3 clients, sockets of 2 datagrams, each command and three refused requests | requests are called back in order and as the usage text says, racing starts leave a reachable daemon, what was sent is called |
| `standalone` | 28 kernel modules with the instances, elements and children their parameters and device trees give; 4 triggers; 5 presses; the 5 messages of `process.c`; 2 changes of the displayed values, among 9 and 35 degrees and periods of 1, 50, 10 000 and 3 000 000 000 ms (negative as `%d` shows it) | unloading gives everything back, no misuse unless a call failed, the two threads keep in step and can be unloaded, the LED keeps blinking, the messages arrive whole, the screen settles |
| `driver_leak` | the driver of sample06.3 with 3 children | counterexample: two devices outlive the driver |

Why the bounds are enough. Clients exclude each other by `sysfs_lock`, so two of them show every
contention: one inside, one waiting. A period matters by being 0, an automatic one, another one, or
negative as an int; a sensor value by its side of the two formulas, its band and its sign. TLC's
integers have 32 bits, so `WordMod` is 2^30 in the runs; every temperature is far below, and the
theorems hold for every even word size from 2^20 on, the program's 2^32 included. `regulator_live`
leaves out the reading handlers, which take the same locks in the same order as the writing ones;
its periods fit an int, because `period_sign` shows what happens otherwise. In `daemon` a period
matters by being above or below one step of 50 and by how the two threads' steps add up; `MaxPeriod`
only keeps a staircase of increases short; `daemon.cfg` checks deadlock. In `animation` two presses
are enough for a signal to come before the worker exists, while it pulses and after it woke by
itself, for two buttons to be ready at once, for an edge to meet a later level, and for a button
held since before the program; a callback twice a press gives up to six pulses, the bound
`MaxTriggers`. In `ipc` a daemon can be replaced by another one, by itself, or by none, with messages
under way in each; a third client comes after a full queue. In `standalone` five decreases take the period from 1000 ms to zero, and both halves of a
blink are computed in between; every resource of a kernel module may or may not have been had; on
the display every text meets ones that are shorter by what its blanks cover, by more, and by none,
and ones that fill the row. The runs that allow a program to end, and those in which nobody has to
act any more, do not check deadlock: `lifecycle` (after `oops` the loader really stops),
`animation`, `ipc`, `standalone`.

Fairness. Kernel threads and handlers are scheduled, hence weak fairness. A kernel mutex is handed
to its waiters, so one that is free again and again is obtained: strong fairness of the thread that
waits. Nobody has to open a file, nor the temperature to change, nor `insmod` or `rmmod` to be
called. The daemon's threads are POSIX threads on mutexes under the default scheduler; there too the
waiter of a mutex that is free again and again is assumed to get it, and spurious wake-ups are never
assumed to happen. In `lifecycle`, a handler that was entered returns, which `CallsReturn`
justifies, and every sleep of a thread ends, which fails in the situation of `period_sign`. `main`
and the threads of the daemon go on, a button is pressed or let go by nobody in particular. In `ipc`
only the steps of a daemon that runs are fair; being killed is never assumed and never excluded. In
`standalone` the program that runs is as fair as its own specification says (`SleepFairSpec`,
`LedFairSpec`, `PairFairSpec`, `OledFairSpec`); the display has its weak fairness because it shares
nothing but files.

## Proofs

`RegulatorProofs` proves, for any set of clients, values, temperatures and any even word size from
2^20 on (the assumptions are `WordModAssumption` and `RegulatorAssumption`):

- `TypeCorrect`: `TypeOK`, with `Routed`. Alone, `TypeOK` is not inductive: that `current_mode` stays
  in {0, 1} depends on the request the client carries at `set_mode`, which `Routed` ties to its place.
- `MutualExclusion`: `LockDiscipline`, from `TypeOK` and `Routed`.
- `CopiesAgree`: `BlinkFollowsPeriod`. It says nothing inside the critical sections, so `Agreement`
  adds that the copies differ only while somebody is at `adjust`, who by `LockDiscipline` is the
  owner of `regulator_lock`.
- `OneLateWrite`: `LateWritesAtMostOne`, from `LateBudget`: in automatic mode `late` is 0, and in
  manual mode a thread that is committed to a write has not yet spent it.
- `StatusNonZero`, from `Routed`.
- `Refinement`: `ImplementsFanControl`. With `Decided` (the thread carries an automatic period when
  it is about to apply), every step is one of `FanControl` or leaves its variables unchanged.
- `WarmerIsFaster`: `WarmerNeverSlower` for every pair of the 4096 sensor values, from lemmas on
  truncating division (`NoWrap`, `AutoPeriodAntitone`).

`AnimationProofs`, for any finite set of callers and any number of presses (`AnimationAssumption`):

- `AnimTypeCorrect` and `AnimMutex`: one invariant, since that the counter stays in Nat follows from
  the guard and that the guard still holds from nothing but the lock.
- `WakeupsAreKept`: `NoLostWakeup` is inductive as it stands, on top of the above.
- `PulsesAreEarned`: `NoPulseWithoutPress` is not, since a press counts before its pulse is pending
  and a pulse after it was taken. `Account` says where each press is: with a caller that has not
  counted it, in the counter, in the worker's hand, or done.

`DaemonProofs`, for any messages and choice of operations, with and without reloads
(`DaemonAssumption`):

- `DaemonTypeCorrect`: `DaemonTypeOK`, from `Shape`, which ties a thread's place to its call and to
  `app_lock`.
- `AtomicUpdates`: `UpdatesAreAtomic`, from `Fresh`: what a thread carries from its read to its write
  is what the file holds, unless it is marked `dirty`. `Shape` is needed because only the exclusion
  by `app_lock` keeps another update from coming in between unmarked.

- `PeriodsFitAnInt`: `NeverFreezes`, under `RoomForSteps`: what messages may set directly, and the
  `MaxPeriod` below which an increase begins, leave room for one step, or two, below 2^31. The code
  checks nothing of the kind, and `period_sign` shows that a message of its own breaks the property;
  the theorem says that no interleaving does. `InReach` is the invariant: the period, and what each
  thread is about to write, stays in range even when every increase that is under way still lands.
  That two increases may both follow one test is why it sums over the threads; `Shape` gives the
  thread that decreases a value above one step, read under the same lock.

`LifecycleProofs`, for any set of clients and any set `CanFail` of calls:

- `LifeTypeCorrect`, `NothingIsLeaked`, `SensorStaysMapped`, from one invariant. Every resource has
  a lifetime, the places of the loader at which it is held, and these sets are nested as the calls
  of `main.c` are: the thread inside the files, the files inside the device, down to the mapped
  registers. `Lifetimes` says that what is held lies within its lifetime, on failure paths too, and
  that a resource whose failed call ends the load is held throughout it; `Activity` that users are
  inside handlers only during the life of the files, and threads in their loops only between
  `kthread_run` and the join. The properties speak of the end points alone and are not inductive.
- `OnlyBlinkFailureKills`: `StopsLiveThreads` if the calls of `blink_init` do not fail. The run
  `lifecycle_blink` shows that the hypothesis is needed, and so the only one.

`ButtonProofs`, for any number of presses and any set of failing start-up calls:

- `ButtonsUseTheWorker`: every step of `Buttons` is a step of `Animation` or none, so that
  `DaemonPulses` has the theorems of `AnimationProofs` for the whole daemon.
- `TwicePerPress`: `AtMostTwicePerPress` from `Paid`. Each press is worth two callbacks: one for its
  own edge and one for the edge of its release, which a late read may see as another press, and one
  more callback may come from the edge that `BTN_init` makes. `Paid` counts callbacks plus what the
  edges that nobody has looked at may still cost while the button is down; `BtnShape` ties those
  edges to `epoll`'s lists and to the place of the thread.
- `BoundIsOutOfReach`: no callback is ever refused by `MaxTriggers`, so the bound hides no
  behaviour.

`IpcProofs`, for any daemons, starts, clients, requests and capacity of the sockets:

- `Reachable`: `ReachableWhenSettled` from `FileInv`: the file leads to a daemon that has bound it,
  and if nobody was lost while daemons run, it leads somewhere or somebody stands between unlink and
  bind.
- `RequestsAreCalled`: `CalledAsAsked`, under `RequestsInRange`: values as `atoi` gives them, and
  periods that are not negative, since the client's test of an unsigned value lets those through as
  large ones (`cli/main.c:46`). `FlowInv` splits the sequence of requests of each daemon at every
  moment into those called, the one in the thread's hands and those in the socket, position by
  position; the lemmas `Flows...` move one datagram across each border. Prefix lengths alone, or the
  concatenation that the property states, would not give the next step.

`DriverProofs`, for any set of modules with any lists of calls:

- `TablesMatch`: `CleanAfterUnload` holds if `GivesAllBack` holds of every table: what a call of
  init takes is put back by a later call of init, by a call of exit or by the driver core. `OwnOnly`
  is the invariant (what is held was taken by an earlier call and not put back since), and it is
  where the order of the calls, the users and the skipped calls go.
- `ListsInOrder`: `MisusedOnlyAfterFailure` holds if besides `InOrder` does: init takes what
  something hangs on first, what serves others has its data at every step of init, exit gives back
  what is there and in the reverse of that order. `AllThere`, the converse of `OwnOnly`, is needed
  too.
- `ModulesLeaveNothing` and `ModulesAreUsedInOrder`: `GivesAllBack` and `InOrder` of every module
  that the run `standalone` has, which are all but the four of the section on disagreements
  (`SoundModules`: `FixedModules` and `LoopingModules`), and for any number of elements, children
  and devices where the code loops over as many as it is given (exercice04, exercice06.1,
  sample05.1, sample06.2). A module is built up as its functions are, from parts: `InitPart(s, x, K,
  h)` says that the calls `s` take the resources `x` in order if those of `h` are there, `ExitPart`
  the same of giving back. `JoinInit` and `JoinExit` put two parts behind each other, `InitLoop` and
  `ExitLoop` any number of them. The last two are by induction over the partial results of
  `FlattenSeq` (`Joins`). Since no lemma can have an operator for its parameter here, `SetInduction`
  says of a set what an induction theorem says of a predicate; it rests on the library's `WFMin`.
  Three modules whose order is their own (a character device that is open before its buffers,
  mappings that init itself puts back) have lemmas of their own.

`StandaloneProofs`, for any bounds, the safety that the liveness properties of `standalone` stand on:

- `ThreadsKeepInStep` from `SleepInv`, for any number of triggers. The trigger is what the waiter
  owes until it is stopped (`Owed`), the lab's waker passes its wait only when nothing is owed
  (`LabOwed`), and a stopped waiter has one round left (`LastRound`).
- `LedStaysArmed`, below 50 presses: unless the timer thread reads between a decrease to zero and
  its correction (`window`), its timer is armed whenever it waits, and no time that it sets is
  refused. The period is a multiple of 200 between the limits of so many presses (`IsPeriod`), and
  the time of the first half is below what any later read of the period can give (`OnTimeFits`). The
  hypothesis is needed: 45 presses make the first half 200 ms, and a reset and four decreases before
  the second read make the other half 0, which disarms the timer. `LedKeepsBlinking` says so of the
  run's presses only.
- `EachReadOneMessage`, for any messages: as long as nothing upsets the stream every read gives one
  message, whole. `Loops` ties what is written and taken to the place of both loops; that a read
  cannot run into the next message needs that offsets grow (`TotalGrows`), an induction over the
  recursive sum.
- `OledLeavesNoRest`, for any temperatures, periods and changes: a row ends where the text of its
  value ends (`RowIsClean`), or once had a value with more glyphs than the blanks behind the present
  one cover. `RowFits` bounds what a row has ever reached by `widest`, and each text keeps that
  (`PutFits`).

TLC checked every one of these invariants over the bounds of the run of its module before it was
proved. Two hypotheses are about bounds of the model, `MaxPeriod` in `RoomForSteps` and the presses in
`LedStaysArmed`; all other bounds are arbitrary constants.

Model-checked only: liveness (`CallsReturn`, `AutoSettles`, `PeriodReachesLed`,
`LoadsAndUnloadsEnd`, `EveryPressPulses`, `EveryCallReturns`, `HeldPressIsHandled`, `SentIsCalled`,
and of `standalone` `UnloadEnds`, `LedKeepsBlinking`, `MessagesArrive` and `ScreenSettles`), since
the prover handles neither fairness nor `ENABLED`. Every safety property of a passing run is stated
by a theorem.

## Disagreements found

1. `regulator.c:97`: a late automatic write in manual mode (`regulator_stale`).
2. `blink.c:61`: a period above INT_MAX freezes the LED for good (`period_sign`).
3. `temp.c:67`: below zero degrees the fan runs at full speed (`below_zero`).
4. `blink.c:39`: after a failing `blink_init` the unload stops a missing thread (`lifecycle_blink`).
5. `sample06.3/skeleton.c:230`: the driver unregisters only the last of its devices (`driver_leak`).

What the properties exempt, because nothing in the repository promises it or because the program
goes on after a failure it does not look at:

- a press shorter than the way to the read of its level, or before the callback is set; every press
  of a button that `BTN_init` could not add to epoll (`button.c:143`), and every pulse if the worker
  could not be created (`app.c:120`);
- a datagram in the queue of a daemon that ends; a second daemon that takes the socket file of a
  running one;
- updates of the period that start before a write without `app_lock` and end after it (`app.c:28`);
- a read of lab 3's period between decrease and correction, after which the LED may stop, and fifty
  presses of which the last five come between two reads; the timer thread of lab 3 that ended
  because its wait or its read failed (`main.c:160`);
- the early exit of the writer of lab 4, and a signal that interrupts its reader;
- the rest of a text of the display by at least three glyphs longer than the present one, or of any
  longer temperature (10.0 to 9.9 degrees leaves a C);
- a character device opened while its module is still being loaded, and what a kernel module whose
  init function reports success after a failed call does afterwards.

Four kernel modules fail `CleanAfterUnload` or `MisusedOnlyAfterFailure` in the model, as one sees
by adding them to `CourseModules`, and are left out of the passing run: `drv_exercice05_1`, which
destroys the device number 0 instead of its own; `lab_dynamic_allocation` with more than one
element, which frees the elements of one allocation one by one; and `lab_interrupt` and
`sol_interrupt`, which give each GPIO line back before the interrupt on it (`s02e08-interrupt.c:69`,
`solutions/02_modules/exercice08/skeleton.c:56`).

## Plan

In this order, most important behaviour first:

1. `Temperature`, `FanControl`, `Regulator`, `ModuleLifecycle` (done).
2. `DaemonApp` over `FanControl`, and `Animation`, with their theorems (done).
3. `Buttons` composed with `Animation`; `IpcServer` (done).
4. `LedController`, `Sleeping`, `ProcessPair`, `Oled`, and `DriverLifecycle` with the table of the
   kernel modules (done).
5. Proofs of the safety of `ModuleLifecycle` (nothing leaks for any subset of failing calls), of
   `NeverFreezes` under a bound on the periods in messages, of `CalledAsAsked`, of
   `AtMostTwicePerPress`, that `Buttons` implements `Animation`, and of the tables of
   `DriverLifecycle` and the two threads of `Sleeping` (done).
6. Safety that stands behind the liveness of `LedController`, `ProcessPair` and `Oled`: that no
   message is cut while nothing upsets the stream, that the timer is only disarmed through the
   window, that a row shows the value it was last drawn with. The tables of all modules, with any
   number of instances (done).

## Not modelled

- What a driver's `read` and `write` copy, what a `show` prints, the log: straight-line code over one
  buffer or one variable. The life cycle around it is in `DriverLifecycle`.
- `stop_ipc_server`, `LED_deinit`, `BTN_deinit` in the daemon: after a `while (1)` of `main`, never
  reached. `LED_toggle` has no caller that runs.
- The programs of lab 5 (optimisation, counters, memory-mapped GPIO) and the user space programs of
  lab 2: single-threaded, measured or run once, with no state that anything else sees.
- The cgroup and CPU load tools of lab 4: busy loops and allocations until the kernel's limit.
- `solutions/01_environment`, `04_system`, `06_optimization`, `07_miniproj`: handed out to try tools
  on, or the starting points of the laboratories modelled here; `procstat.c` only prints.
- Build files and the configuration of the board.
