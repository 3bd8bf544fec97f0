----------------------------- MODULE DriverProofs -----------------------------
(***************************************************************************)
(* Theorems about DriverLifecycle.  The first part says what the tables of *)
(* a module's init and exit functions have to say, each on its own line,   *)
(* for the property to hold however the module is loaded, called into and  *)
(* unloaded (TablesMatch, ListsInOrder).  The second part shows it of      *)
(* tables that are built from parts, loops over any number of instances    *)
(* among them, and the third of the modules of the lab and the solutions.  *)
(***************************************************************************)
EXTENDS DriverLifecycle, WellFoundedInduction, TLAPS

(* The two lists of a module are sequences.                                *)
IsList(s) == Len(s) \in Nat /\ DOMAIN s = 1 .. Len(s)
IsTable(m) == IsList(m.init) /\ IsList(m.exit)

IsPut(m, j, r) == m.init[j][1] = "put" /\ m.init[j][2] = r
Takes(m, i, r) == m.init[i][1] # "put" /\ m.init[i][2] = r

(* Whatever init takes, init or exit puts back, or the driver core does.   *)
GivesAllBack(m) ==
  \A i \in DOMAIN m.init : m.init[i][1] # "put" =>
     \/ \E j \in DOMAIN m.init : i < j /\ IsPut(m, j, m.init[i][2])
     \/ \E j \in DOMAIN m.exit : m.exit[j][2] = m.init[i][2]
     \/ m.init[i][2][1] \in m.devm

(* Before call k of init, r was taken and not put back since.              *)
TakenBefore(m, r, k) ==
  \E i \in DOMAIN m.init : /\ i < k /\ Takes(m, i, r)
                           /\ \A j \in DOMAIN m.init : i < j /\ j < k => ~IsPut(m, j, r)

(* A module that had no failure holds what init took at most, and in exit  *)
(* nothing that a call up to now has given back.                           *)
OwnOnly ==
  /\ kmod \in Modules
  /\ phase \in {"init", "loaded", "exit", "failed", "unloaded"}
  /\ step \in Nat /\ step >= 1
  /\ phase = "loaded" => step = 1
  /\ ~failed => /\ status = 0
                /\ phase = "init" => \A r \in held : TakenBefore(kmod, r, step)
                /\ phase \in {"loaded", "exit"} =>
                     \A r \in held : TakenBefore(kmod, r, Len(kmod.init) + 1)
                /\ phase = "exit" =>
                     \A r \in held, j \in DOMAIN kmod.exit : j < step => kmod.exit[j][2] # r
                /\ phase = "unloaded" => held = {}

LEMMA OwnOnlyInit == DrvInit => OwnOnly
  BY DEF DrvInit, OwnOnly

(* What was taken before a call is taken after it, unless that puts it     *)
(* back.                                                                   *)
LEMMA StillTaken ==
  ASSUME NEW m, IsTable(m), NEW r, NEW k \in Nat, TakenBefore(m, r, k), ~IsPut(m, k, r)
  PROVE  TakenBefore(m, r, k + 1)
<1>1. PICK i \in DOMAIN m.init :
        /\ i < k /\ Takes(m, i, r)
        /\ \A j \in DOMAIN m.init : i < j /\ j < k => ~IsPut(m, j, r)
  BY DEF TakenBefore
<1>2. DOMAIN m.init \subseteq Nat
  BY DEF IsTable, IsList
<1>3. i < k + 1
  BY <1>1, <1>2
<1>4. \A j \in DOMAIN m.init : i < j /\ j < k + 1 => ~IsPut(m, j, r)
  <2>1. \A j \in DOMAIN m.init : j < k + 1 => j < k \/ j = k
    BY <1>2
  <2> QED
    BY <1>1, <2>1
<1> QED
  BY <1>1, <1>3, <1>4 DEF TakenBefore

LEMMA JustTaken ==
  ASSUME NEW m, IsTable(m), NEW k \in DOMAIN m.init, m.init[k][1] # "put"
  PROVE  TakenBefore(m, m.init[k][2], k + 1)
<1>1. DOMAIN m.init \subseteq Nat
  BY DEF IsTable, IsList
<1>2. k < k + 1 /\ \A j \in DOMAIN m.init : ~(k < j /\ j < k + 1)
  BY <1>1
<1> QED
  BY <1>2 DEF TakenBefore, Takes

(* Every call is before the end of its list.                               *)
LEMMA CallsUpTo ==
  ASSUME NEW s, IsList(s), NEW k \in Nat
  PROVE  /\ DOMAIN s = 1 .. Len(s) /\ Len(s) \in Nat
         /\ 1 <= k /\ k <= Len(s) => k \in DOMAIN s
  BY DEF IsList

(* TakenBefore at any later point than the end says the same.              *)
LEMMA TakenAtEnd ==
  ASSUME NEW m, IsTable(m), NEW r, NEW k \in Nat, k > Len(m.init), TakenBefore(m, r, k)
  PROVE  TakenBefore(m, r, Len(m.init) + 1)
<1>1. DOMAIN m.init = 1 .. Len(m.init) /\ Len(m.init) \in Nat
  BY CallsUpTo DEF IsTable
<1>2. \A j \in DOMAIN m.init : j < k /\ j < Len(m.init) + 1
  BY <1>1
<1> QED
  BY <1>2 DEF TakenBefore

LEMMA OwnOnlyNext ==
  ASSUME \A m \in Modules : IsTable(m) /\ GivesAllBack(m), OwnOnly, [DrvNext]_drvVars
  PROVE  OwnOnly'
<1>1. IsTable(kmod) /\ GivesAllBack(kmod) /\ kmod \in Modules
  BY DEF OwnOnly
<1>2. /\ AtCall("init") => /\ phase = "init" /\ step \in DOMAIN kmod.init
                           /\ Res = kmod.init[step][2] /\ How = kmod.init[step][1]
      /\ AtCall("exit") => /\ phase = "exit" /\ step \in DOMAIN kmod.exit
                           /\ Res = kmod.exit[step][2] /\ How = kmod.exit[step][1]
  BY <1>1, CallsUpTo DEF OwnOnly, IsTable, AtCall, Calls, Res, How
<1>3. CASE Skip
  <2>1. /\ phase = "init" /\ step \in DOMAIN kmod.init /\ step' = step + 1
        /\ UNCHANGED <<kmod, phase, status, held, failed>>
    BY <1>2, <1>3 DEF Skip, NextCall
  <2>2. ~failed => kmod.init[step][1] # "put"
    BY <1>2, <1>3 DEF Skip, Skipped, OwnOnly
  <2>3. ~failed => \A r \in held : TakenBefore(kmod, r, step + 1)
    BY <1>1, <2>1, <2>2, StillTaken DEF OwnOnly, IsPut
  <2> QED
    BY <2>1, <2>3 DEF OwnOnly
<1>4. CASE Acquire
  <2>1. /\ phase = "init" /\ step \in DOMAIN kmod.init /\ step' = step + 1
        /\ kmod.init[step][1] # "put" /\ held' = held \cup {kmod.init[step][2]}
        /\ UNCHANGED <<kmod, phase, failed>> /\ (status = 0 => status' = 0)
    BY <1>2, <1>4 DEF Acquire, NextCall
  <2>2. ~failed => \A r \in held : TakenBefore(kmod, r, step + 1)
    BY <1>1, <2>1, StillTaken DEF OwnOnly, IsPut
  <2>3. TakenBefore(kmod, kmod.init[step][2], step + 1)
    BY <1>1, <2>1, JustTaken
  <2>4. ~failed' => \A r \in held' : TakenBefore(kmod, r, step + 1)
    BY <2>1, <2>2, <2>3
  <2> QED
    BY <2>1, <2>4 DEF OwnOnly
<1>5. CASE AcquireFails
  <2>1. /\ phase = "init" /\ step' = step + 1 /\ failed' = TRUE
        /\ UNCHANGED <<kmod, phase>>
    BY <1>2, <1>5 DEF AcquireFails, NextCall
  <2> QED
    BY <2>1 DEF OwnOnly
<1>6. CASE MustFails
  <2>1. /\ failed' = TRUE /\ step' = 1 /\ kmod' = kmod /\ phase' \in {"loaded", "failed"}
    BY <1>6 DEF MustFails, InitReturns
  <2> QED
    BY <2>1 DEF OwnOnly
<1>7. CASE PutInInit
  <2>1. /\ phase = "init" /\ step \in DOMAIN kmod.init /\ step' = step + 1
        /\ held' = held \ {kmod.init[step][2]}
        /\ UNCHANGED <<kmod, phase, status, failed>>
    BY <1>2, <1>7 DEF PutInInit, NextCall
  <2>2. ~failed => \A r \in held' : TakenBefore(kmod, r, step + 1)
    BY <1>1, <2>1, StillTaken DEF OwnOnly, IsPut
  <2> QED
    BY <2>1, <2>2 DEF OwnOnly
<1>8. CASE Loaded
  <2>1. phase = "init" /\ step > Len(kmod.init)
    BY <1>8 DEF Loaded, AtEnd, Calls
  <2>2. /\ UNCHANGED <<kmod, status, failed>> /\ step' = 1
        /\ phase' \in {"loaded", "failed"}
        /\ status = 0 => phase' = "loaded"
        /\ phase' = "loaded" => held' = held
    BY <1>8 DEF Loaded, InitReturns
  <2>3. ~failed => \A r \in held : TakenBefore(kmod, r, Len(kmod.init) + 1)
    BY <1>1, <2>1, TakenAtEnd DEF OwnOnly
  <2> QED
    BY <2>2, <2>3 DEF OwnOnly
<1>9. CASE BaseMisused \/ CallFromOutside \/ PutMisused
  <2>1. UNCHANGED <<kmod, phase, step, status, held, failed>>
    BY <1>9 DEF BaseMisused, CallFromOutside, PutMisused, Misuse
  <2> QED
    BY <2>1 DEF OwnOnly
<1>10. CASE Unload
  <2>1. phase = "loaded" /\ phase' = "exit" /\ UNCHANGED <<kmod, step, status, held, failed>>
    BY <1>10 DEF Unload
  <2>2. step = 1 /\ \A j \in DOMAIN kmod.exit : ~(j < 1)
    BY <1>1, <2>1, CallsUpTo DEF OwnOnly, IsTable
  <2> QED
    BY <2>1, <2>2 DEF OwnOnly
<1>11. CASE GiveBack
  <2>1. /\ phase = "exit" /\ step \in DOMAIN kmod.exit /\ step' = step + 1
        /\ held' = held \ {kmod.exit[step][2]}
        /\ UNCHANGED <<kmod, phase, status, failed>>
    BY <1>2, <1>11 DEF GiveBack, NextCall
  <2>2. \A j \in DOMAIN kmod.exit : j < step + 1 => j < step \/ j = step
    BY <1>1, CallsUpTo DEF OwnOnly, IsTable
  <2>3. ~failed => \A r \in held', j \in DOMAIN kmod.exit : j < step + 1 => kmod.exit[j][2] # r
    BY <2>1, <2>2 DEF OwnOnly
  <2> QED
    BY <2>1, <2>3 DEF OwnOnly
<1>12. CASE Unloaded
  <2>1. /\ phase = "exit" /\ step > Len(kmod.exit) /\ phase' = "unloaded"
        /\ held' = held \ Released
        /\ UNCHANGED <<kmod, step, status, failed>>
    BY <1>12 DEF Unloaded, AtEnd, Calls
  <2>2. ASSUME ~failed, NEW r \in held PROVE r \in Released
    <3>1. TakenBefore(kmod, r, Len(kmod.init) + 1)
      BY <2>1, <2>2 DEF OwnOnly
    <3>2. PICK i \in DOMAIN kmod.init :
            /\ Takes(kmod, i, r)
            /\ \A j \in DOMAIN kmod.init :
                 i < j /\ j < Len(kmod.init) + 1 => ~IsPut(kmod, j, r)
      BY <3>1 DEF TakenBefore
    <3>3. \A j \in DOMAIN kmod.init : j < Len(kmod.init) + 1
      BY <1>1, CallsUpTo DEF IsTable
    <3>4. \A j \in DOMAIN kmod.exit : j < step
      BY <1>1, <2>1, CallsUpTo DEF IsTable, OwnOnly
    <3>5. \A j \in DOMAIN kmod.exit : kmod.exit[j][2] # r
      BY <2>1, <2>2, <3>4 DEF OwnOnly
    <3> QED
      BY <1>1, <3>2, <3>3, <3>5 DEF GivesAllBack, Takes, Released
  <2> QED
    BY <2>1, <2>2 DEF OwnOnly
<1>13. CASE UNCHANGED drvVars
  BY <1>13 DEF drvVars, OwnOnly
<1> QED
  BY <1>3, <1>4, <1>5, <1>6, <1>7, <1>8, <1>9, <1>10, <1>11, <1>12, <1>13 DEF DrvNext

(* It is enough that the tables match: no order of calls, and nobody who   *)
(* opens a device meanwhile, makes a module leave something behind.        *)
THEOREM TablesMatch ==
  ASSUME \A m \in Modules : IsTable(m) /\ GivesAllBack(m)
  PROVE  DrvSpec => []CleanAfterUnload
<1>1. OwnOnly /\ [DrvNext]_drvVars => OwnOnly'
  BY OwnOnlyNext
<1>2. OwnOnly => CleanAfterUnload
  BY DEF OwnOnly, CleanAfterUnload
<1> QED
  BY <1>1, <1>2, OwnOnlyInit, PTL DEF DrvSpec
-----------------------------------------------------------------------------
(* The resources that a list of calls names.                               *)
Named(s) == {s[i][2] : i \in DOMAIN s}
Names(s, rs) == IsList(s) /\ Named(s) = rs

LEMMA NamesEach == ASSUME NEW h, NEW k, NEW n \in Nat
                   PROVE  Names(Each(h, k, n), {<<k, i>> : i \in 1 .. n})
  BY DEF Names, Named, IsList, Each

LEMMA NamesOne == ASSUME NEW h, NEW r PROVE Names(<<<<h, r>>>>, {r})
  BY DEF Names, Named, IsList

LEMMA NamesTwo == ASSUME NEW h, NEW r, NEW g, NEW q
                  PROVE  Names(<<<<h, r>>, <<g, q>>>>, {r, q})
  BY DEF Names, Named, IsList

LEMMA NamesThree == ASSUME NEW h, NEW r, NEW g, NEW q, NEW f, NEW p
                    PROVE  Names(<<<<h, r>>, <<g, q>>, <<f, p>>>>, {r, q, p})
  BY DEF Names, Named, IsList

LEMMA NamesConcat == ASSUME NEW s, NEW t, NEW x, NEW y, Names(s, x), Names(t, y)
                     PROVE  Names(s \o t, x \cup y)
<1>1. /\ IsList(s \o t) /\ Len(s \o t) = Len(s) + Len(t)
      /\ \A i \in 1 .. Len(s) + Len(t) :
            (s \o t)[i] = IF i <= Len(s) THEN s[i] ELSE t[i - Len(s)]
  BY DEF Names, IsList
<1>2. ASSUME NEW r \in x \cup y PROVE r \in Named(s \o t)
  <2>1. CASE r \in x
    <3>1. PICK i \in 1 .. Len(s) : s[i][2] = r
      BY <2>1 DEF Names, Named, IsList
    <3>2. i \in 1 .. Len(s) + Len(t) /\ i <= Len(s)
      BY DEF Names, IsList
    <3>3. (s \o t)[i][2] = r /\ i \in DOMAIN (s \o t)
      BY <1>1, <3>1, <3>2 DEF IsList
    <3> QED
      BY <3>3 DEF Named
  <2>2. CASE r \in y
    <3>1. PICK i \in 1 .. Len(t) : t[i][2] = r
      BY <2>2 DEF Names, Named, IsList
    <3> DEFINE j == Len(s) + i
    <3>2. j \in 1 .. Len(s) + Len(t) /\ ~(j <= Len(s)) /\ j - Len(s) = i
      BY DEF Names, IsList
    <3> HIDE DEF j
    <3>3. (s \o t)[j][2] = r /\ j \in DOMAIN (s \o t)
      BY <1>1, <3>1, <3>2 DEF IsList
    <3> QED
      BY <3>3 DEF Named
  <2> QED
    BY <1>2, <2>1, <2>2
<1>3. ASSUME NEW i \in DOMAIN (s \o t) PROVE (s \o t)[i][2] \in x \cup y
  <2>1. i \in 1 .. Len(s) + Len(t) /\ Len(s) \in Nat /\ Len(t) \in Nat
    BY <1>1 DEF Names, IsList
  <2>2. CASE i <= Len(s)
    <3>1. i \in DOMAIN s /\ (s \o t)[i] = s[i]
      BY <1>1, <2>1, <2>2 DEF Names, IsList
    <3> QED
      BY <3>1 DEF Names, Named
  <2>3. CASE ~(i <= Len(s))
    <3>1. i - Len(s) \in DOMAIN t /\ (s \o t)[i] = t[i - Len(s)]
      BY <1>1, <2>1, <2>3 DEF Names, IsList
    <3> QED
      BY <3>1 DEF Names, Named
  <2> QED
    BY <2>2, <2>3
<1>4. Named(s \o t) = x \cup y
  BY <1>2, <1>3 DEF Named
<1> QED
  BY <1>1, <1>4 DEF Names

IsJoin(c, s, t) == /\ IsList(c) /\ Len(c) = Len(s) + Len(t)
                   /\ \A i \in 1 .. Len(s) : c[i] = s[i]
                   /\ \A i \in 1 .. Len(t) : c[Len(s) + i] = t[i]

LEMMA JoinElements == ASSUME NEW s, NEW t, IsList(s), IsList(t) PROVE IsJoin(s \o t, s, t)
  BY DEF IsList, IsJoin

-----------------------------------------------------------------------------
(* What r hangs on, if the module has anything of that kind.               *)
Needs(m, base, r) == r[1] \in DOMAIN base
                     /\ \E i \in DOMAIN m.init : m.init[i][2][1] = base[r[1]]
Bases(base, r) == {<<base[r[1]], 0>>, <<base[r[1]], r[2]>>}

LeftBefore(m, r, k) == /\ TakenBefore(m, r, Len(m.init) + 1)
                       /\ \A j \in DOMAIN m.exit : j < k => m.exit[j][2] # r

(* A module's own order, line by line.  Init takes what something hangs on *)
(* first, and asks only about calls that take; what serves others has its  *)
(* data, a misc device from its first moment on; exit gives back what is   *)
(* still there, and what hangs on something before that.                   *)
TakesInOrder(m) ==
  \A k \in DOMAIN m.init : m.init[k][1] # "put" =>
    /\ Needs(m, ToAcquire, m.init[k][2])
         => \E q \in Bases(ToAcquire, m.init[k][2]) : TakenBefore(m, q, k)
    /\ m.init[k][1] = "after" => k > 1 /\ m.init[k - 1][1] # "put"

ServesWithData(m) ==
  \A k \in 1 .. Len(m.init) + 1, r \in Named(m.init) :
    TakenBefore(m, r, k) /\ Needs(m, ToServe, r) /\ (r[1] = "cdev" => k = Len(m.init) + 1)
      => \E q \in Bases(ToServe, r) : TakenBefore(m, q, k)

GivesInOrder(m) ==
  \A k \in DOMAIN m.exit :
    /\ m.exit[k][1] = "always" => LeftBefore(m, m.exit[k][2], k)
    /\ LeftBefore(m, m.exit[k][2], k) /\ Needs(m, ToRemove, m.exit[k][2])
         => \E q \in Bases(ToRemove, m.exit[k][2]) : LeftBefore(m, q, k)

InOrder(m) == TakesInOrder(m) /\ ServesWithData(m) /\ GivesInOrder(m)

(* A module that had no failure holds all that its lists say.              *)
AllThere ==
  /\ misuse \in {"call", "put", "base"} => failed
  /\ phase = "init" => step <= Len(kmod.init) + 1
  /\ ~failed =>
       /\ phase = "init" => \A r \in Named(kmod.init) : TakenBefore(kmod, r, step) => r \in held
       /\ phase \in {"loaded", "exit"} =>
            \A r \in Named(kmod.init) : LeftBefore(kmod, r, step) => r \in held

LEMMA AllThereInit == ASSUME \A m \in Modules : IsTable(m), DrvInit PROVE AllThere
<1>1. IsTable(kmod) /\ step = 1 /\ phase = "init" /\ misuse = "no"
  BY DEF DrvInit
<1>2. \A r : ~TakenBefore(kmod, r, 1)
  BY <1>1 DEF TakenBefore, IsTable, IsList
<1>3. 1 <= Len(kmod.init) + 1
  BY <1>1 DEF IsTable, IsList
<1> QED
  BY <1>1, <1>2, <1>3 DEF AllThere

LEMMA TakenIsNamed == ASSUME NEW m, NEW r, NEW k, TakenBefore(m, r, k) PROVE r \in Named(m.init)
  BY DEF TakenBefore, Takes, Named

(* What is taken after a call was before, or the call took it.             *)
LEMMA TakenBackwards ==
  ASSUME NEW m, IsTable(m), NEW r, NEW k \in DOMAIN m.init, TakenBefore(m, r, k + 1)
  PROVE  Takes(m, k, r) \/ (TakenBefore(m, r, k) /\ ~IsPut(m, k, r))
<1>1. PICK i \in DOMAIN m.init :
        /\ i < k + 1 /\ Takes(m, i, r)
        /\ \A j \in DOMAIN m.init : i < j /\ j < k + 1 => ~IsPut(m, j, r)
  BY DEF TakenBefore
<1>2. DOMAIN m.init = 1 .. Len(m.init) /\ Len(m.init) \in Nat
  BY DEF IsTable, IsList
<1>3. CASE i = k
  <2>1. Takes(m, k, r)
    BY <1>1, <1>3
  <2> QED
    BY <2>1
<1>4. CASE i < k
  <2>1. ~IsPut(m, k, r)
    BY <1>1, <1>2, <1>4
  <2>2. \A j \in DOMAIN m.init : i < j /\ j < k => ~IsPut(m, j, r)
    BY <1>1, <1>2
  <2> QED
    BY <1>1, <1>4, <2>1, <2>2 DEF TakenBefore
<1> QED
  BY <1>1, <1>2, <1>3, <1>4

LEMMA LeftBackwards ==
  ASSUME NEW m, IsTable(m), NEW r, NEW k \in DOMAIN m.exit, LeftBefore(m, r, k + 1)
  PROVE  LeftBefore(m, r, k) /\ m.exit[k][2] # r
<1>1. DOMAIN m.exit = 1 .. Len(m.exit) /\ Len(m.exit) \in Nat
  BY DEF IsTable, IsList
<1>2. k < k + 1 /\ \A j \in DOMAIN m.exit : j < k => j < k + 1
  BY <1>1
<1> QED
  BY <1>2 DEF LeftBefore

LEMMA AllThereNext ==
  ASSUME \A m \in Modules : IsTable(m) /\ GivesAllBack(m) /\ InOrder(m),
         OwnOnly, AllThere, [DrvNext]_drvVars
  PROVE  AllThere'
<1>1. IsTable(kmod) /\ InOrder(kmod)
  BY DEF OwnOnly
<1>2. /\ DOMAIN kmod.init = 1 .. Len(kmod.init) /\ Len(kmod.init) \in Nat
      /\ DOMAIN kmod.exit = 1 .. Len(kmod.exit) /\ Len(kmod.exit) \in Nat
      /\ step \in Nat /\ step >= 1
  BY <1>1 DEF IsTable, IsList, OwnOnly
<1>3. /\ AtCall("init") => /\ phase = "init" /\ step \in DOMAIN kmod.init
                           /\ Res = kmod.init[step][2] /\ How = kmod.init[step][1]
      /\ AtCall("exit") => /\ phase = "exit" /\ step \in DOMAIN kmod.exit
                           /\ Res = kmod.exit[step][2] /\ How = kmod.exit[step][1]
  BY <1>2 DEF AtCall, Calls, Res, How
<1>4. step \in DOMAIN kmod.init => step + 1 <= Len(kmod.init) + 1
  BY <1>2
<1>5. ASSUME NEW base, NEW r, NEW q \in Bases(base, r), q \in held PROVE ~Missing(base, r)
  BY <1>5 DEF Missing, Bases
<1>6. CASE Skip
  <2>1. /\ AtCall("init") /\ Skipped /\ step' = step + 1
        /\ UNCHANGED <<kmod, phase, misuse, status, held, failed>>
    BY <1>6 DEF Skip, NextCall
  <2>2. failed
    <3> SUFFICES ASSUME ~failed PROVE FALSE
      OBVIOUS
    <3>1. How = "after" /\ kmod.init[step - 1][2] \notin held
      BY <2>1 DEF Skipped, OwnOnly
    <3>2. step \in DOMAIN kmod.init /\ step > 1 /\ kmod.init[step - 1][1] # "put"
      BY <1>1, <1>3, <2>1, <3>1 DEF InOrder, TakesInOrder
    <3> DEFINE i == step - 1
    <3>3. i \in DOMAIN kmod.init /\ i + 1 = step
      BY <1>2, <3>2
    <3>4. TakenBefore(kmod, kmod.init[i][2], i + 1)
      BY <1>1, <3>2, <3>3, JustTaken
    <3>5. kmod.init[i][2] \in Named(kmod.init)
      BY <3>3 DEF Named
    <3> QED
      BY <1>3, <2>1, <3>1, <3>3, <3>4, <3>5 DEF AllThere
  <2> QED
    BY <1>3, <1>4, <2>1, <2>2 DEF AllThere
<1>7. CASE Acquire
  <2>1. /\ phase = "init" /\ step \in DOMAIN kmod.init /\ step' = step + 1
        /\ held' = held \cup {kmod.init[step][2]}
        /\ UNCHANGED <<kmod, phase, failed, misuse>>
    BY <1>3, <1>7 DEF Acquire, NextCall
  <2>2. \A r : TakenBefore(kmod, r, step + 1)
               => r = kmod.init[step][2] \/ TakenBefore(kmod, r, step)
    BY <1>1, <2>1, TakenBackwards DEF Takes
  <2> QED
    BY <1>4, <2>1, <2>2 DEF AllThere
<1>8. CASE AcquireFails
  <2>1. /\ AtCall("init") /\ step' = step + 1 /\ failed' = TRUE
        /\ UNCHANGED <<kmod, phase, misuse>>
    BY <1>8 DEF AcquireFails, NextCall
  <2> QED
    BY <1>3, <1>4, <2>1 DEF AllThere
<1>9. CASE MustFails
  <2>1. failed' = TRUE /\ phase' \in {"loaded", "failed"} /\ UNCHANGED misuse
    BY <1>9 DEF MustFails, InitReturns
  <2> QED
    BY <2>1 DEF AllThere
<1>10. CASE PutInInit
  <2>1. /\ phase = "init" /\ step \in DOMAIN kmod.init /\ step' = step + 1
        /\ kmod.init[step][1] = "put" /\ held' = held \ {kmod.init[step][2]}
        /\ UNCHANGED <<kmod, phase, failed, misuse>>
    BY <1>3, <1>10 DEF PutInInit, NextCall
  <2>2. \A r : TakenBefore(kmod, r, step + 1)
               => r # kmod.init[step][2] /\ TakenBefore(kmod, r, step)
    BY <1>1, <2>1, TakenBackwards DEF Takes, IsPut
  <2> QED
    BY <1>4, <2>1, <2>2 DEF AllThere
<1>11. CASE Loaded
  <2>1. phase = "init" /\ step > Len(kmod.init)
    BY <1>11 DEF Loaded, AtEnd, Calls
  <2>2. /\ UNCHANGED <<kmod, failed, misuse>> /\ step' = 1
        /\ phase' \in {"loaded", "failed"}
        /\ phase' = "loaded" => held' = held
    BY <1>11 DEF Loaded, InitReturns
  <2>3. step = Len(kmod.init) + 1
    BY <1>2, <2>1 DEF AllThere
  <2>4. ~failed => \A r \in Named(kmod.init) : LeftBefore(kmod, r, 1) => r \in held
    BY <2>1, <2>3 DEF AllThere, LeftBefore
  <2> QED
    BY <2>2, <2>4 DEF AllThere
<1>12. CASE BaseMisused
  <2>1. misuse' = "base" /\ UNCHANGED <<kmod, phase, step, status, held, failed>>
    BY <1>12 DEF BaseMisused, Misuse
  <2>2. failed
    <3> SUFFICES ASSUME ~failed PROVE FALSE
      OBVIOUS
    <3>1. CASE AtCall("init") /\ How # "put" /\ Missing(ToAcquire, Res)
      <4>1. Needs(kmod, ToAcquire, Res)
        BY <3>1 DEF Missing, Needs
      <4>2. PICK q \in Bases(ToAcquire, Res) : TakenBefore(kmod, q, step)
        BY <1>1, <1>3, <3>1, <4>1 DEF InOrder, TakesInOrder
      <4>3. q \in held
        BY <1>3, <3>1, <4>2, TakenIsNamed DEF AllThere
      <4> QED
        BY <1>5, <3>1, <4>3
    <3>2. CASE AtCall("exit") /\ Res \in held /\ Missing(ToRemove, Res)
      <4>1. Needs(kmod, ToRemove, Res)
        BY <3>2 DEF Missing, Needs
      <4>2. LeftBefore(kmod, Res, step)
        BY <1>3, <3>2 DEF OwnOnly, LeftBefore
      <4>3. PICK q \in Bases(ToRemove, Res) : LeftBefore(kmod, q, step)
        BY <1>1, <1>3, <3>2, <4>1, <4>2 DEF InOrder, GivesInOrder
      <4>4. q \in held
        BY <1>3, <3>2, <4>3, TakenIsNamed DEF AllThere, LeftBefore
      <4> QED
        BY <1>5, <3>2, <4>4
    <3> QED
      BY <1>12, <3>1, <3>2 DEF BaseMisused
  <2> QED
    BY <2>1, <2>2 DEF AllThere
<1>13. CASE CallFromOutside
  <2>1. UNCHANGED <<kmod, phase, step, status, held, failed>>
    BY <1>13 DEF CallFromOutside, Misuse
  <2>2. PICK r \in held : /\ Missing(ToServe, r) /\ phase \in {"init", "loaded", "unloaded"}
                          /\ misuse' = IF phase = "init" /\ r[1] = "cdev"
                                       THEN "early call" ELSE "call"
    BY <1>13 DEF CallFromOutside, Misuse
  <2>3. misuse' = "call" => failed
    <3> SUFFICES ASSUME misuse' = "call", ~failed PROVE FALSE
      OBVIOUS
    <3>1. Needs(kmod, ToServe, r)
      BY <2>2 DEF Missing, Needs
    <3>2. CASE phase = "init"
      <4>1. step \in 1 .. Len(kmod.init) + 1 /\ TakenBefore(kmod, r, step) /\ r[1] # "cdev"
        BY <1>2, <2>2, <3>2 DEF AllThere, OwnOnly
      <4>2. PICK q \in Bases(ToServe, r) : TakenBefore(kmod, q, step)
        BY <1>1, <3>1, <4>1, TakenIsNamed DEF InOrder, ServesWithData
      <4>3. q \in held
        BY <3>2, <4>2, TakenIsNamed DEF AllThere
      <4> QED
        BY <1>5, <2>2, <4>3
    <3>3. CASE phase = "loaded"
      <4> DEFINE n == Len(kmod.init) + 1
      <4>1. TakenBefore(kmod, r, n) /\ step = 1 /\ n \in 1 .. n
        BY <1>2, <3>3 DEF OwnOnly
      <4>2. PICK q \in Bases(ToServe, r) : TakenBefore(kmod, q, n)
        BY <1>1, <3>1, <4>1, TakenIsNamed DEF InOrder, ServesWithData
      <4>3. LeftBefore(kmod, q, step)
        BY <1>2, <4>1, <4>2 DEF LeftBefore
      <4>4. q \in held
        BY <3>3, <4>2, <4>3, TakenIsNamed DEF AllThere
      <4> QED
        BY <1>5, <2>2, <4>4
    <3>4. CASE phase = "unloaded"
      BY <3>4 DEF OwnOnly
    <3> QED
      BY <2>2, <3>2, <3>3, <3>4
  <2> QED
    BY <2>1, <2>2, <2>3 DEF AllThere
<1>14. CASE PutMisused
  <2>1. /\ misuse' = "put" /\ UNCHANGED <<kmod, phase, step, status, held, failed>>
        /\ AtCall("exit") /\ How = "always" /\ Res \notin held
    BY <1>14 DEF PutMisused, Misuse
  <2>2. LeftBefore(kmod, Res, step)
    BY <1>1, <1>3, <2>1 DEF InOrder, GivesInOrder
  <2>3. Res \in Named(kmod.init)
    BY <2>2, TakenIsNamed DEF LeftBefore
  <2>4. failed
    BY <1>3, <2>1, <2>2, <2>3 DEF AllThere
  <2> QED
    BY <2>1, <2>4 DEF AllThere
<1>15. CASE Unload
  <2>1. phase = "loaded" /\ phase' = "exit"
        /\ UNCHANGED <<kmod, step, status, held, failed, misuse>>
    BY <1>15 DEF Unload
  <2> QED
    BY <2>1 DEF AllThere
<1>16. CASE GiveBack
  <2>1. /\ phase = "exit" /\ step \in DOMAIN kmod.exit /\ step' = step + 1
        /\ held' = held \ {kmod.exit[step][2]}
        /\ UNCHANGED <<kmod, phase, status, failed, misuse>>
    BY <1>3, <1>16 DEF GiveBack, NextCall
  <2>2. \A r : LeftBefore(kmod, r, step + 1)
               => LeftBefore(kmod, r, step) /\ r # kmod.exit[step][2]
    BY <1>1, <2>1, LeftBackwards
  <2> QED
    BY <2>1, <2>2 DEF AllThere
<1>17. CASE Unloaded
  <2>1. phase' = "unloaded" /\ UNCHANGED <<kmod, step, status, failed, misuse>>
    BY <1>17 DEF Unloaded
  <2> QED
    BY <2>1 DEF AllThere
<1>18. CASE UNCHANGED drvVars
  BY <1>18 DEF drvVars, AllThere
<1> QED
  BY <1>6, <1>7, <1>8, <1>9, <1>10, <1>11, <1>12, <1>13, <1>14, <1>15, <1>16, <1>17, <1>18
     DEF DrvNext

(* A module whose lists are in order on their own is used in order,        *)
(* whenever others call into what it has published, as long as no call of  *)
(* its own fails.                                                          *)
THEOREM ListsInOrder ==
  ASSUME \A m \in Modules : IsTable(m) /\ GivesAllBack(m) /\ InOrder(m)
  PROVE  DrvSpec => []MisusedOnlyAfterFailure
<1>1. OwnOnly /\ AllThere /\ [DrvNext]_drvVars => OwnOnly' /\ AllThere'
  BY OwnOnlyNext, AllThereNext
<1>2. DrvInit => OwnOnly /\ AllThere
  BY OwnOnlyInit, AllThereInit
<1>3. AllThere => MisusedOnlyAfterFailure
  BY DEF AllThere, MisusedOnlyAfterFailure
<1> QED
  BY <1>1, <1>2, <1>3, PTL DEF DrvSpec
-----------------------------------------------------------------------------
(* Init that only takes.                                                   *)
NoPuts(m) == \A i \in DOMAIN m.init : /\ m.init[i][1] # "put"
                                      /\ m.init[i][1] = "after" => i > 1

LEMMA TakenOnce ==
  ASSUME NEW m, NoPuts(m), NEW i \in DOMAIN m.init, NEW k, i < k
  PROVE  TakenBefore(m, m.init[i][2], k)
  BY DEF NoPuts, TakenBefore, Takes, IsPut

LEMMA AskedAfterTaking ==
  ASSUME NEW m, IsTable(m), NoPuts(m), NEW k \in DOMAIN m.init, m.init[k][1] = "after"
  PROVE  k > 1 /\ m.init[k - 1][1] # "put"
<1>1. k > 1
  BY DEF NoPuts
<1>2. k - 1 \in DOMAIN m.init
  BY <1>1 DEF IsTable, IsList
<1> QED
  BY <1>1, <1>2 DEF NoPuts

(* Induction over the number of instances.                                 *)
LEMMA NatMin == ASSUME NEW T, T \subseteq Nat, T # {}
                PROVE  \E n \in T : \A m \in T : n <= m
<1> DEFINE O == OpToRel(<, Nat)
<1>1. IsWellFoundedOn(O, Nat)
  BY NatLessThanWellFounded
<1>2. PICK n \in T : \A m \in T : <<m, n>> \notin O
  <2> HIDE DEF O
  <2> QED
    BY <1>1, WFMin
<1>3. \A m \in T : ~(m < n)
  <2> TAKE m \in T
  <2>1. <<m, n>> \in Nat \X Nat
    OBVIOUS
  <2>2. <<m, n>>[1] = m /\ <<m, n>>[2] = n
    OBVIOUS
  <2> QED
    BY <1>2, <2>1, <2>2 DEF OpToRel
<1> HIDE DEF O
<1>4. ASSUME NEW m \in T PROVE n <= m
  <2>1. m \in Int /\ n \in Int
    OBVIOUS
  <2> QED
    BY <1>3, <2>1
<1> QED
  BY <1>4

(* What is true of 0, and of n + 1 whenever it is true of n, is true of    *)
(* every natural number; a set says what is true, since no lemma can have  *)
(* an operator for its parameter here.                                     *)
LEMMA SetInduction == ASSUME NEW T, 0 \in T, \A n \in Nat : n \in T => n + 1 \in T
                      PROVE  \A n \in Nat : n \in T
<1> SUFFICES ASSUME NEW k \in Nat, k \notin T PROVE FALSE
  OBVIOUS
<1>1. PICK n \in Nat \ T : \A m \in Nat \ T : n <= m
  BY NatMin
<1>2. n # 0 /\ n - 1 \in Nat
  BY <1>1
<1>3. n - 1 \in T
  BY <1>1, <1>2
<1> QED
  BY <1>1, <1>2, <1>3

(* Concatenation with a name, for the prover.                              *)
Cat(s, t) == s \o t

(* The partial results of FlattenSeq, after k of n lists.                  *)
Joins(g, F, n) == /\ DOMAIN g = 1 .. n
                  /\ n >= 1 => g[1] = F[1]
                  /\ \A k \in 2 .. n : g[k] = Cat(g[k - 1], F[k])

LEMMA JoinsExist == ASSUME NEW F, NEW N \in Nat PROVE \E g : Joins(g, F, N)
<1> DEFINE Has(n) == \E g : Joins(g, F, n)
           T == {n \in Nat : Has(n)}
<1>1. Has(0)
  <2>1. Joins([k \in 1 .. 0 |-> k], F, 0)
    BY DEF Joins
  <2> QED
    BY <2>1
<1>2. ASSUME NEW n \in Nat, Has(n) PROVE Has(n + 1)
  <2>1. PICK g : Joins(g, F, n)
    BY <1>2
  <2> DEFINE h == [k \in 1 .. n + 1 |->
                    IF k = n + 1 THEN IF n = 0 THEN F[1] ELSE Cat(g[n], F[n + 1])
                                        ELSE g[k]]
  <2>2. h[1] = F[1]
    BY <2>1 DEF Joins
  <2>3. ASSUME NEW k \in 2 .. n + 1 PROVE h[k] = Cat(h[k - 1], F[k])
    <3>1. h[k - 1] = g[k - 1]
      OBVIOUS
    <3>2. CASE k = n + 1
      <4>1. n # 0 /\ k - 1 = n
        BY <3>2
      <4>2. h[n + 1] = Cat(g[n], F[n + 1])
        BY <4>1
      <4> QED
        BY <3>1, <3>2, <4>1, <4>2
    <3>3. CASE k \in 2 .. n
      <4>1. h[k] = g[k]
        BY <3>3
      <4> QED
        BY <2>1, <3>1, <3>3, <4>1 DEF Joins
    <3> QED
      BY <3>2, <3>3
  <2>4. Joins(h, F, n + 1)
    BY <2>2, <2>3 DEF Joins
  <2> QED
    BY <2>4
<1> HIDE DEF Has
<1>3. 0 \in T /\ \A n \in Nat : n \in T => n + 1 \in T
  BY <1>1, <1>2
<1> HIDE DEF T
<1>4. N \in T
  BY <1>3, SetInduction
<1> QED
  BY <1>4 DEF T, Has

LEMMA FlattenJoins == ASSUME NEW F, NEW n \in Nat, n >= 1, DOMAIN F = 1 .. n, Len(F) = n
                      PROVE  \E g : Joins(g, F, n) /\ FlattenSeq(F) = g[n]
<1> DEFINE Step(g) == [i \in 1 .. Len(F) |-> IF i = 1 THEN F[i] ELSE Cat(g[i - 1], F[i])]
           flatten == CHOOSE g : g = Step(g)
<1>1. PICK h : Joins(h, F, n)
  BY JoinsExist
<1>2. PICK g : g = [i \in 1 .. n |-> h[i]]
  OBVIOUS
<1>3. DOMAIN g = 1 .. n /\ \A i \in 1 .. n : g[i] = h[i]
  BY <1>2
<1>4. g = Step(g)
  <2>1. ASSUME NEW i \in 1 .. n PROVE g[i] = IF i = 1 THEN F[i] ELSE Cat(g[i - 1], F[i])
    <3>1. CASE i = 1
      BY <1>1, <1>3, <3>1 DEF Joins
    <3>2. CASE i \in 2 .. n
      <4>1. h[i] = Cat(h[i - 1], F[i])
        BY <1>1, <3>2 DEF Joins
      <4> QED
        BY <1>3, <3>2, <4>1
    <3> QED
      BY <3>1, <3>2
  <2>2. g = [i \in 1 .. n |-> g[i]]
    BY <1>2
  <2> QED
    BY <2>1, <2>2
<1>5. FlattenSeq(F) = flatten[n]
  BY DEF FlattenSeq, Cat
<1>6. flatten = Step(flatten)
  <2> HIDE DEF Step
  <2> QED
    BY <1>4
<1> HIDE DEF flatten
<1>7. Joins(flatten, F, n)
  <2>1. DOMAIN flatten = 1 .. n /\ flatten[1] = F[1]
    BY <1>6
  <2>2. \A k \in 2 .. n : flatten[k] = Cat(flatten[k - 1], F[k])
    <3> TAKE k \in 2 .. n
    <3>1. k \in 1 .. n /\ k # 1
      OBVIOUS
    <3> QED
      BY <1>6, <3>1
  <2> QED
    BY <2>1, <2>2 DEF Joins
<1> QED
  BY <1>5, <1>7

LEMMA FlattenNone == ASSUME NEW F, Len(F) = 0 PROVE FlattenSeq(F) = F
  BY DEF FlattenSeq

(* r is of a kind that hangs on another, which is among the kinds K.       *)
Hangs(base, K, r) == r[1] \in DOMAIN base /\ base[r[1]] \in K

Earlier(s, k, q) == \E j \in DOMAIN s : j < k /\ s[j][2] = q

(* A part of init that takes the resources x, when those of h were taken   *)
(* before it: what something hangs on is among them, or taken before in    *)
(* the part itself.                                                        *)
InitPart(s, x, K, h) ==
  /\ Names(s, x)
  /\ \A k \in DOMAIN s :
       /\ s[k][1] # "put" /\ (s[k][1] = "after" => k > 1) /\ s[k][2][1] \in K
       /\ \A base \in {ToAcquire, ToServe} : Hangs(base, K, s[k][2])
            => \E q \in Bases(base, s[k][2]) : q \in h \/ Earlier(s, k, q)

(* A part of exit that gives back y, of all that is taken, x, when g is    *)
(* given back before it: nothing twice, and nothing that something hangs   *)
(* on before that.                                                         *)
ExitPart(s, y, K, x, g) ==
  /\ Names(s, y) /\ y \subseteq x
  /\ \A k \in DOMAIN s :
       /\ s[k][2] \notin g /\ ~Earlier(s, k, s[k][2])
       /\ Hangs(ToRemove, K, s[k][2])
            => \E q \in Bases(ToRemove, s[k][2]) : q \in x \ g /\ ~Earlier(s, k, q)

LEMMA NamedIn == ASSUME NEW s, NEW x, Names(s, x)
                 PROVE  /\ \A k \in DOMAIN s : s[k][2] \in x
                        /\ \A r \in x : \E k \in DOMAIN s : s[k][2] = r
                        /\ DOMAIN s = 1 .. Len(s) /\ Len(s) \in Nat /\ IsList(s)
  BY DEF Names, Named, IsList

(* An element of a list of two parts is one of the first, or of the other. *)
LEMMA InJoin ==
  ASSUME NEW s, NEW t, IsList(s), IsList(t)
  PROVE  LET c == s \o t
         IN  /\ IsList(c)
             /\ \A k \in DOMAIN s : k \in DOMAIN c /\ c[k] = s[k]
             /\ \A k \in DOMAIN t : Len(s) + k \in DOMAIN c /\ c[Len(s) + k] = t[k]
             /\ \A k \in DOMAIN c : k \in DOMAIN s
                                    \/ (k - Len(s) \in DOMAIN t /\ c[k] = t[k - Len(s)])
<1> DEFINE c == s \o t
<1>1. IsJoin(c, s, t)
  BY JoinElements
<1> HIDE DEF c
<1>2. /\ DOMAIN s = 1 .. Len(s) /\ Len(s) \in Nat /\ DOMAIN t = 1 .. Len(t) /\ Len(t) \in Nat
      /\ DOMAIN c = 1 .. Len(s) + Len(t) /\ IsList(c)
  BY <1>1 DEF IsList, IsJoin
<1>3. \A k \in DOMAIN s : k \in DOMAIN c /\ c[k] = s[k]
  BY <1>1, <1>2 DEF IsJoin
<1>4. \A k \in DOMAIN t : Len(s) + k \in DOMAIN c /\ c[Len(s) + k] = t[k]
  BY <1>1, <1>2 DEF IsJoin
<1>5. ASSUME NEW k \in DOMAIN c, k \notin DOMAIN s
      PROVE  k - Len(s) \in DOMAIN t /\ c[k] = t[k - Len(s)]
  <2>1. PICK j \in DOMAIN t : j = k - Len(s) /\ Len(s) + j = k
    BY <1>2, <1>5
  <2> QED
    BY <1>4, <2>1
<1> QED
  BY <1>2, <1>3, <1>4, <1>5 DEF c

(* What is earlier than an element of a list of two parts.                 *)
LEMMA EarlierInJoin ==
  ASSUME NEW s, NEW t, NEW x, Names(s, x), IsList(t), NEW q
  PROVE  LET c == s \o t
         IN  /\ \A k \in DOMAIN s : Earlier(c, k, q) <=> Earlier(s, k, q)
             /\ \A k \in DOMAIN t :
                  Earlier(c, Len(s) + k, q) <=> q \in x \/ Earlier(t, k, q)
<1> DEFINE c == s \o t
<1>1. /\ IsList(c)
      /\ \A k \in DOMAIN s : k \in DOMAIN c /\ c[k] = s[k]
      /\ \A k \in DOMAIN t : Len(s) + k \in DOMAIN c /\ c[Len(s) + k] = t[k]
      /\ \A k \in DOMAIN c : k \in DOMAIN s \/ (k - Len(s) \in DOMAIN t /\ c[k] = t[k - Len(s)])
  BY InJoin DEF Names
<1> HIDE DEF c
<1>2. /\ DOMAIN s = 1 .. Len(s) /\ Len(s) \in Nat /\ DOMAIN t = 1 .. Len(t) /\ Len(t) \in Nat
      /\ DOMAIN c \subseteq Int
  BY <1>1 DEF Names, IsList
<1>3. ASSUME NEW k \in DOMAIN s PROVE Earlier(c, k, q) <=> Earlier(s, k, q)
  <2>1. \A j \in DOMAIN c : j < k => j \in DOMAIN s
    BY <1>1, <1>2
  <2> QED
    BY <1>1, <2>1 DEF Earlier
<1>4. ASSUME NEW k \in DOMAIN t, Earlier(c, Len(s) + k, q)
      PROVE  q \in x \/ Earlier(t, k, q)
  <2>1. PICK j \in DOMAIN c : j < Len(s) + k /\ c[j][2] = q
    BY <1>4 DEF Earlier
  <2>2. CASE j \in DOMAIN s
    BY <1>1, <2>1, <2>2, NamedIn
  <2>3. CASE j - Len(s) \in DOMAIN t /\ c[j] = t[j - Len(s)]
    <3>1. j - Len(s) < k
      BY <1>2, <2>1
    <3> QED
      BY <2>1, <2>3, <3>1 DEF Earlier
  <2> QED
    BY <1>1, <2>2, <2>3
<1>5. ASSUME NEW k \in DOMAIN t, q \in x PROVE Earlier(c, Len(s) + k, q)
  <2>1. PICK j \in DOMAIN s : s[j][2] = q
    BY <1>5, NamedIn
  <2>2. j < Len(s) + k
    BY <1>2
  <2> QED
    BY <1>1, <2>1, <2>2 DEF Earlier
<1>6. ASSUME NEW k \in DOMAIN t, Earlier(t, k, q) PROVE Earlier(c, Len(s) + k, q)
  <2>1. PICK j \in DOMAIN t : j < k /\ t[j][2] = q
    BY <1>6 DEF Earlier
  <2>2. Len(s) + j < Len(s) + k
    BY <1>2, <2>1
  <2> QED
    BY <1>1, <2>1, <2>2 DEF Earlier
<1> QED
  BY <1>3, <1>4, <1>5, <1>6 DEF c

(* Two parts of init behind each other, the second with what the first     *)
(* took; and two parts of exit.                                            *)
LEMMA JoinInit ==
  ASSUME NEW s, NEW t, NEW x, NEW y, NEW K, NEW h,
         InitPart(s, x, K, h), InitPart(t, y, K, h \cup x)
  PROVE  InitPart(s \o t, x \cup y, K, h)
<1> DEFINE c == s \o t
           Fits(e, k, l) ==
             /\ e[1] # "put" /\ (e[1] = "after" => k > 1) /\ e[2][1] \in K
             /\ \A base \in {ToAcquire, ToServe} : Hangs(base, K, e[2])
                  => \E q \in Bases(base, e[2]) : q \in h \/ Earlier(l, k, q)
<1>1. Names(s, x) /\ Names(t, y) /\ Names(c, x \cup y) /\ IsList(s) /\ IsList(t)
  BY NamesConcat DEF InitPart, Names
<1>2. /\ \A k \in DOMAIN s : k \in DOMAIN c /\ c[k] = s[k]
      /\ \A k \in DOMAIN t : Len(s) + k \in DOMAIN c /\ c[Len(s) + k] = t[k]
      /\ \A k \in DOMAIN c : k \in DOMAIN s \/ (k - Len(s) \in DOMAIN t /\ c[k] = t[k - Len(s)])
      /\ DOMAIN s = 1 .. Len(s) /\ Len(s) \in Nat /\ DOMAIN t = 1 .. Len(t) /\ IsList(c)
  BY <1>1, InJoin DEF IsList
<1>3. /\ \A q : \A k \in DOMAIN s : Earlier(c, k, q) <=> Earlier(s, k, q)
      /\ \A q : \A k \in DOMAIN t : Earlier(c, Len(s) + k, q) <=> q \in x \/ Earlier(t, k, q)
  BY <1>1, EarlierInJoin
<1> HIDE DEF c
<1>4. ASSUME NEW k \in DOMAIN s PROVE Fits(c[k], k, c)
  <2>1. Fits(s[k], k, s)
    BY DEF InitPart
  <2> QED
    BY <1>2, <1>3, <2>1
<1>5. ASSUME NEW k \in DOMAIN t PROVE Fits(c[Len(s) + k], Len(s) + k, c)
  <2>1. /\ t[k][1] # "put" /\ (t[k][1] = "after" => k > 1) /\ t[k][2][1] \in K
        /\ \A base \in {ToAcquire, ToServe} : Hangs(base, K, t[k][2])
             => \E q \in Bases(base, t[k][2]) : q \in h \cup x \/ Earlier(t, k, q)
    BY DEF InitPart
  <2>2. k > 1 => Len(s) + k > 1
    BY <1>2
  <2>3. c[Len(s) + k] = t[k]
    BY <1>2
  <2>4. \A q : q \in h \cup x \/ Earlier(t, k, q) => q \in h \/ Earlier(c, Len(s) + k, q)
    BY <1>3
  <2> HIDE DEF Fits
  <2>5. Fits(t[k], Len(s) + k, c)
    BY <2>1, <2>2, <2>4 DEF Fits
  <2> QED
    BY <2>3, <2>5
<1>6. ASSUME NEW k \in DOMAIN c PROVE Fits(c[k], k, c)
  <2> HIDE DEF Fits
  <2>1. CASE k \in DOMAIN s
    BY <1>4, <2>1
  <2>2. CASE k - Len(s) \in DOMAIN t
    <3>1. PICK j \in DOMAIN t : j = k - Len(s)
      BY <2>2
    <3>2. k = Len(s) + j
      BY <1>2, <3>1 DEF IsList
    <3> QED
      BY <1>5, <3>2
  <2> QED
    BY <1>2, <2>1, <2>2
<1>7. InitPart(c, x \cup y, K, h)
  BY <1>1, <1>6 DEF InitPart
<1> QED
  BY <1>7 DEF c

LEMMA JoinExit ==
  ASSUME NEW s, NEW t, NEW x, NEW y, NEW z, NEW K, NEW g,
         ExitPart(s, y, K, x, g), ExitPart(t, z, K, x, g \cup y)
  PROVE  ExitPart(s \o t, y \cup z, K, x, g)
<1> DEFINE c == s \o t
           Fits(e, k, l) ==
             /\ e[2] \notin g /\ ~Earlier(l, k, e[2])
             /\ Hangs(ToRemove, K, e[2])
                  => \E q \in Bases(ToRemove, e[2]) : q \in x \ g /\ ~Earlier(l, k, q)
<1>1. /\ Names(s, y) /\ Names(t, z) /\ Names(c, y \cup z) /\ IsList(s) /\ IsList(t)
      /\ y \cup z \subseteq x
  BY NamesConcat DEF ExitPart, Names
<1>2. /\ \A k \in DOMAIN s : k \in DOMAIN c /\ c[k] = s[k]
      /\ \A k \in DOMAIN t : Len(s) + k \in DOMAIN c /\ c[Len(s) + k] = t[k]
      /\ \A k \in DOMAIN c : k \in DOMAIN s \/ (k - Len(s) \in DOMAIN t /\ c[k] = t[k - Len(s)])
      /\ DOMAIN s = 1 .. Len(s) /\ Len(s) \in Nat /\ DOMAIN t = 1 .. Len(t) /\ IsList(c)
  BY <1>1, InJoin DEF IsList
<1>3. /\ \A q : \A k \in DOMAIN s : Earlier(c, k, q) <=> Earlier(s, k, q)
      /\ \A q : \A k \in DOMAIN t : Earlier(c, Len(s) + k, q) <=> q \in y \/ Earlier(t, k, q)
  BY <1>1, EarlierInJoin
<1> HIDE DEF c
<1>4. ASSUME NEW k \in DOMAIN s PROVE Fits(c[k], k, c)
  <2>1. Fits(s[k], k, s)
    BY DEF ExitPart
  <2> QED
    BY <1>2, <1>3, <2>1
<1>5. ASSUME NEW k \in DOMAIN t PROVE Fits(c[Len(s) + k], Len(s) + k, c)
  <2>1. /\ t[k][2] \notin g \cup y /\ ~Earlier(t, k, t[k][2])
        /\ Hangs(ToRemove, K, t[k][2])
             => \E q \in Bases(ToRemove, t[k][2]) : q \in x \ (g \cup y) /\ ~Earlier(t, k, q)
    BY DEF ExitPart
  <2>2. c[Len(s) + k] = t[k]
    BY <1>2
  <2>3. \A q : q \notin y /\ ~Earlier(t, k, q) => ~Earlier(c, Len(s) + k, q)
    BY <1>3
  <2> HIDE DEF Fits
  <2>4. Fits(t[k], Len(s) + k, c)
    BY <2>1, <2>3 DEF Fits
  <2> QED
    BY <2>2, <2>4
<1>6. ASSUME NEW k \in DOMAIN c PROVE Fits(c[k], k, c)
  <2> HIDE DEF Fits
  <2>1. CASE k \in DOMAIN s
    BY <1>4, <2>1
  <2>2. CASE k - Len(s) \in DOMAIN t
    <3>1. PICK j \in DOMAIN t : j = k - Len(s)
      BY <2>2
    <3>2. k = Len(s) + j
      BY <1>2, <3>1 DEF IsList
    <3> QED
      BY <1>5, <3>2
  <2> QED
    BY <1>2, <2>1, <2>2
<1>7. ExitPart(c, y \cup z, K, x, g)
  BY <1>1, <1>6 DEF ExitPart
<1> QED
  BY <1>7 DEF c

LEMMA MoreTaken == ASSUME NEW s, NEW x, NEW K, NEW h, NEW l, InitPart(s, x, K, h), h \subseteq l
                   PROVE  InitPart(s, x, K, l)
<1>1. \A k \in DOMAIN s : \A q : q \in h \/ Earlier(s, k, q) => q \in l \/ Earlier(s, k, q)
  OBVIOUS
<1> QED
  BY <1>1 DEF InitPart

LEMMA NoPart == ASSUME NEW s, IsList(s), Len(s) = 0, NEW K, NEW h, NEW x, NEW g
                PROVE  InitPart(s, {}, K, h) /\ ExitPart(s, {}, K, x, g)
  BY DEF IsList, InitPart, ExitPart, Names, Named

(* Any number of parts, none of which needs another.                       *)
LEMMA InitLoop ==
  ASSUME NEW n \in Nat, NEW F, IsList(F), Len(F) = n, NEW X, NEW K, NEW h,
         \A i \in 1 .. n : InitPart(F[i], X[i], K, h)
  PROVE  InitPart(FlattenSeq(F), UNION {X[i] : i \in 1 .. n}, K, h)
<1> DEFINE Up(k) == UNION {X[i] : i \in 1 .. k}
<1>1. CASE n = 0
  <2>1. InitPart(F, {}, K, h) /\ FlattenSeq(F) = F
    BY <1>1, NoPart, FlattenNone
  <2>2. Up(n) = {}
    BY <1>1
  <2> QED
    BY <2>1, <2>2
<1>2. CASE n >= 1
  <2>1. PICK g : Joins(g, F, n) /\ FlattenSeq(F) = g[n]
    BY <1>2, FlattenJoins DEF IsList
  <2> DEFINE Part(k) == k + 1 <= n => InitPart(g[k + 1], Up(k + 1), K, h)
             T == {k \in Nat : Part(k)}
  <2>2. Part(0)
    <3>1. g[1] = F[1] /\ Up(1) = X[1] /\ 1 \in 1 .. n
      BY <1>2, <2>1 DEF Joins
    <3> HIDE DEF Up
    <3>2. InitPart(F[1], X[1], K, h)
      BY <3>1
    <3> QED
      BY <3>1, <3>2
  <2>3. ASSUME NEW k \in Nat, Part(k) PROVE Part(k + 1)
    <3> SUFFICES ASSUME k + 2 <= n PROVE InitPart(g[k + 2], Up(k + 2), K, h)
      OBVIOUS
    <3>1. InitPart(g[k + 1], Up(k + 1), K, h)
      BY <2>3
    <3>2. g[k + 2] = g[k + 1] \o F[k + 2]
      <4>1. k + 2 \in 2 .. n /\ (k + 2) - 1 = k + 1
        OBVIOUS
      <4> QED
        BY <2>1, <4>1 DEF Joins, Cat
    <3>3. Up(k + 2) = Up(k + 1) \cup X[k + 2]
      OBVIOUS
    <3> HIDE DEF Up
    <3>4. InitPart(F[k + 2], X[k + 2], K, h \cup Up(k + 1))
      BY MoreTaken
    <3>5. InitPart(g[k + 1] \o F[k + 2], Up(k + 1) \cup X[k + 2], K, h)
      BY <3>1, <3>4, JoinInit
    <3> QED
      BY <3>2, <3>3, <3>5
  <2> HIDE DEF Part
  <2>4. 0 \in T /\ \A k \in Nat : k \in T => k + 1 \in T
    BY <2>2, <2>3
  <2> HIDE DEF T
  <2>5. n - 1 \in Nat /\ n - 1 \in T /\ (n - 1) + 1 = n
    BY <1>2, <2>4, SetInduction
  <2> HIDE DEF Up
  <2>6. InitPart(g[n], Up(n), K, h)
    BY <2>5 DEF T, Part
  <2> QED
    BY <2>1, <2>6 DEF Up
<1> QED
  BY <1>1, <1>2

(* Any number of parts of exit, each with what those before gave back.     *)
LEMMA ExitLoop ==
  ASSUME NEW n \in Nat, NEW F, IsList(F), Len(F) = n, NEW X, NEW K, NEW x, NEW g,
         \A i \in 1 .. n : ExitPart(F[i], X[i], K, x, g \cup UNION {X[j] : j \in 1 .. i - 1})
  PROVE  ExitPart(FlattenSeq(F), UNION {X[i] : i \in 1 .. n}, K, x, g)
<1> DEFINE Up(k) == UNION {X[i] : i \in 1 .. k}
<1>1. CASE n = 0
  <2>1. ExitPart(F, {}, K, x, g) /\ FlattenSeq(F) = F
    BY <1>1, NoPart, FlattenNone
  <2>2. Up(n) = {}
    BY <1>1
  <2> QED
    BY <2>1, <2>2
<1>2. CASE n >= 1
  <2>1. PICK f : Joins(f, F, n) /\ FlattenSeq(F) = f[n]
    BY <1>2, FlattenJoins DEF IsList
  <2>2. \A i \in 1 .. n : ExitPart(F[i], X[i], K, x, g \cup Up(i - 1))
    OBVIOUS
  <2> DEFINE Part(k) == k + 1 <= n => ExitPart(f[k + 1], Up(k + 1), K, x, g)
             T == {k \in Nat : Part(k)}
  <2>3. Part(0)
    <3>1. f[1] = F[1] /\ Up(1) = X[1] /\ g \cup Up(1 - 1) = g
      BY <1>2, <2>1 DEF Joins
    <3>2. 1 \in 1 .. n
      BY <1>2
    <3> HIDE DEF Up
    <3>3. ExitPart(F[1], X[1], K, x, g)
      BY <2>2, <3>1, <3>2
    <3> QED
      BY <3>1, <3>3
  <2>4. ASSUME NEW k \in Nat, Part(k) PROVE Part(k + 1)
    <3> SUFFICES ASSUME k + 2 <= n PROVE ExitPart(f[k + 2], Up(k + 2), K, x, g)
      OBVIOUS
    <3>1. ExitPart(f[k + 1], Up(k + 1), K, x, g)
      BY <2>4
    <3>2. f[k + 2] = f[k + 1] \o F[k + 2]
      <4>1. k + 2 \in 2 .. n /\ (k + 2) - 1 = k + 1
        OBVIOUS
      <4> QED
        BY <2>1, <4>1 DEF Joins, Cat
    <3>3. Up(k + 2) = Up(k + 1) \cup X[k + 2]
      OBVIOUS
    <3> HIDE DEF Up
    <3>4. ExitPart(F[k + 2], X[k + 2], K, x, g \cup Up(k + 1))
      <4>1. k + 2 \in 1 .. n /\ (k + 2) - 1 = k + 1
        OBVIOUS
      <4> QED
        BY <2>2, <4>1
    <3>5. ExitPart(f[k + 1] \o F[k + 2], Up(k + 1) \cup X[k + 2], K, x, g)
      BY <3>1, <3>4, JoinExit
    <3> QED
      BY <3>2, <3>3, <3>5
  <2> HIDE DEF Part
  <2>5. 0 \in T /\ \A k \in Nat : k \in T => k + 1 \in T
    BY <2>3, <2>4
  <2> HIDE DEF T
  <2>6. n - 1 \in Nat /\ n - 1 \in T /\ (n - 1) + 1 = n
    BY <1>2, <2>5, SetInduction
  <2> HIDE DEF Up
  <2>7. ExitPart(f[n], Up(n), K, x, g)
    BY <2>6 DEF T, Part
  <2> QED
    BY <2>1, <2>7 DEF Up
<1> QED
  BY <1>1, <1>2

(* A module whose init and exit are parts from nothing.  The kinds         *)
(* leave out the character device with buffers, which it only has at the   *)
(* end of init.                                                            *)
LEMMA OrderedByParts ==
  ASSUME NEW m, NEW K, NEW x, NEW y, ~("cdev" \in K /\ "buffers" \in K),
         InitPart(m.init, x, K, {}), ExitPart(m.exit, y, K, x, {})
  PROVE  IsTable(m) /\ InOrder(m)
<1>1. /\ IsTable(m) /\ DOMAIN m.init = 1 .. Len(m.init) /\ Len(m.init) \in Nat
      /\ DOMAIN m.exit = 1 .. Len(m.exit) /\ Len(m.exit) \in Nat
      /\ Named(m.init) = x /\ Named(m.exit) = y /\ y \subseteq x
  BY DEF InitPart, ExitPart, Names, IsTable, IsList
<1>2. \A base, r : Needs(m, base, r) => Hangs(base, K, r)
  BY DEF Needs, Hangs, InitPart
<1>3. NoPuts(m)
  BY DEF NoPuts, InitPart
<1>4. \A k, r : Earlier(m.init, k, r) => TakenBefore(m, r, k)
  BY <1>3, TakenOnce DEF Earlier
<1>5. TakesInOrder(m)
  <2> SUFFICES ASSUME NEW k \in DOMAIN m.init
               PROVE  /\ Needs(m, ToAcquire, m.init[k][2])
                           => \E q \in Bases(ToAcquire, m.init[k][2]) : TakenBefore(m, q, k)
                      /\ m.init[k][1] = "after" => k > 1 /\ m.init[k - 1][1] # "put"
    BY DEF TakesInOrder
  <2>1. Hangs(ToAcquire, K, m.init[k][2])
          => \E q \in Bases(ToAcquire, m.init[k][2]) : q \in {} \/ Earlier(m.init, k, q)
    BY DEF InitPart
  <2> QED
    BY <1>1, <1>2, <1>3, <1>4, <2>1, AskedAfterTaking
<1>6. ServesWithData(m)
  <2> SUFFICES ASSUME NEW k \in 1 .. Len(m.init) + 1, NEW r \in Named(m.init),
                      TakenBefore(m, r, k), Needs(m, ToServe, r)
               PROVE  \E q \in Bases(ToServe, r) : TakenBefore(m, q, k)
    BY DEF ServesWithData
  <2>1. PICK i \in DOMAIN m.init : i < k /\ m.init[i][2] = r
    BY DEF TakenBefore, Takes
  <2>2. Hangs(ToServe, K, r)
    BY <1>2
  <2>3. PICK q \in Bases(ToServe, r) : Earlier(m.init, i, q)
    BY <2>1, <2>2 DEF InitPart
  <2>4. Earlier(m.init, k, q)
    <3>1. PICK j \in DOMAIN m.init : j < i /\ m.init[j][2] = q
      BY <2>3 DEF Earlier
    <3>2. j < k
      BY <1>1, <2>1, <3>1
    <3> QED
      BY <3>1, <3>2 DEF Earlier
  <2> QED
    BY <1>4, <2>3, <2>4
<1>7. GivesInOrder(m)
  <2>1. ASSUME NEW r \in x PROVE TakenBefore(m, r, Len(m.init) + 1)
    <3>1. PICK i \in DOMAIN m.init : m.init[i][2] = r
      BY <1>1, <2>1 DEF Named
    <3>2. i < Len(m.init) + 1
      BY <1>1
    <3> QED
      BY <1>3, <3>1, <3>2, TakenOnce
  <2>2. ASSUME NEW k, NEW r \in x, ~Earlier(m.exit, k, r) PROVE LeftBefore(m, r, k)
    BY <2>1, <2>2 DEF LeftBefore, Earlier
  <2> SUFFICES ASSUME NEW k \in DOMAIN m.exit
               PROVE  /\ LeftBefore(m, m.exit[k][2], k)
                      /\ Needs(m, ToRemove, m.exit[k][2])
                           => \E q \in Bases(ToRemove, m.exit[k][2]) : LeftBefore(m, q, k)
    BY DEF GivesInOrder
  <2>3. /\ m.exit[k][2] \in x /\ ~Earlier(m.exit, k, m.exit[k][2])
        /\ Hangs(ToRemove, K, m.exit[k][2])
             => \E q \in Bases(ToRemove, m.exit[k][2]) : q \in x /\ ~Earlier(m.exit, k, q)
    BY <1>1 DEF ExitPart, Named
  <2> QED
    BY <1>2, <2>2, <2>3
<1> QED
  BY <1>1, <1>5, <1>6, <1>7 DEF InOrder

(* A resource can be taken after those of h.                               *)
Rests(K, r, h) == /\ r[1] \in K
                  /\ \A base \in {ToAcquire, ToServe} :
                       Hangs(base, K, r) => \E q \in Bases(base, r) : q \in h

(* One of x can be given back after those of g.                            *)
Frees(K, r, x, g) == /\ r \in x /\ r \notin g
                     /\ Hangs(ToRemove, K, r) => \E q \in Bases(ToRemove, r) : q \in x \ g

(* Parts of one call, of two, and of one for each of n instances.          *)
LEMMA InitOne == ASSUME NEW h, NEW r, NEW K, NEW l, h \notin {"put", "after"}, Rests(K, r, l)
                 PROVE  InitPart(<<<<h, r>>>>, {r}, K, l)
<1> DEFINE s == <<<<h, r>>>>
<1>1. DOMAIN s = {1} /\ s[1][1] = h /\ s[1][2] = r
  OBVIOUS
<1>2. Names(s, {r})
  BY NamesOne
<1> HIDE DEF s
<1>3. InitPart(s, {r}, K, l)
  BY <1>1, <1>2 DEF InitPart, Rests
<1> QED
  BY <1>3 DEF s

LEMMA InitTwo == ASSUME NEW h, NEW r, NEW f, NEW q, NEW K, NEW l,
                        h \notin {"put", "after"}, f # "put",
                        Rests(K, r, l), Rests(K, q, l \cup {r})
                 PROVE  InitPart(<<<<h, r>>, <<f, q>>>>, {r, q}, K, l)
<1> DEFINE s == <<<<h, r>>, <<f, q>>>>
<1>1. DOMAIN s = {1, 2} /\ s[1][1] = h /\ s[1][2] = r /\ s[2][1] = f /\ s[2][2] = q
  OBVIOUS
<1>2. Names(s, {r, q})
  BY NamesTwo
<1> HIDE DEF s
<1>3. Earlier(s, 2, r)
  BY <1>1 DEF Earlier
<1>4. InitPart(s, {r, q}, K, l)
  <2>1. ASSUME NEW base \in {ToAcquire, ToServe}, Hangs(base, K, q)
        PROVE  \E p \in Bases(base, q) : p \in l \/ Earlier(s, 2, p)
    BY <1>3, <2>1 DEF Rests
  <2> QED
    BY <1>1, <1>2, <2>1 DEF InitPart, Rests
<1> QED
  BY <1>4 DEF s

LEMMA InitEach == ASSUME NEW h, NEW k, NEW n \in Nat, NEW K, NEW l,
                         h \notin {"put", "after"}, \A i \in 1 .. n : Rests(K, <<k, i>>, l)
                  PROVE  InitPart(Each(h, k, n), {<<k, i>> : i \in 1 .. n}, K, l)
<1> DEFINE s == Each(h, k, n)
<1>1. DOMAIN s = 1 .. n /\ \A i \in 1 .. n : s[i][1] = h /\ s[i][2] = <<k, i>>
  BY DEF Each
<1>2. Names(s, {<<k, i>> : i \in 1 .. n})
  BY NamesEach
<1> HIDE DEF s
<1>3. InitPart(s, {<<k, i>> : i \in 1 .. n}, K, l)
  BY <1>1, <1>2 DEF InitPart, Rests
<1> QED
  BY <1>3 DEF s

LEMMA ExitOne == ASSUME NEW h, NEW r, NEW K, NEW x, NEW g, Frees(K, r, x, g)
                 PROVE  ExitPart(<<<<h, r>>>>, {r}, K, x, g)
<1> DEFINE s == <<<<h, r>>>>
<1>1. DOMAIN s = {1} /\ s[1][2] = r
  OBVIOUS
<1>2. Names(s, {r})
  BY NamesOne
<1> HIDE DEF s
<1>3. \A q : ~Earlier(s, 1, q)
  BY <1>1 DEF Earlier
<1>4. ExitPart(s, {r}, K, x, g)
  BY <1>1, <1>2, <1>3 DEF ExitPart, Frees
<1> QED
  BY <1>4 DEF s

LEMMA ExitTwo == ASSUME NEW h, NEW r, NEW f, NEW q, NEW K, NEW x, NEW g,
                        Frees(K, r, x, g), Frees(K, q, x, g \cup {r})
                 PROVE  ExitPart(<<<<h, r>>, <<f, q>>>>, {r, q}, K, x, g)
<1> DEFINE s == <<<<h, r>>, <<f, q>>>>
<1>1. DOMAIN s = {1, 2} /\ s[1][2] = r /\ s[2][2] = q
  OBVIOUS
<1>2. Names(s, {r, q})
  BY NamesTwo
<1> HIDE DEF s
<1>3. \A p : ~Earlier(s, 1, p) /\ (Earlier(s, 2, p) => p = r)
  BY <1>1 DEF Earlier
<1>4. ExitPart(s, {r, q}, K, x, g)
  BY <1>1, <1>2, <1>3 DEF ExitPart, Frees
<1> QED
  BY <1>4 DEF s

LEMMA ExitEach ==
  ASSUME NEW h, NEW k, NEW n \in Nat, NEW K, NEW x, NEW g,
         \A i \in 1 .. n : Frees(K, <<k, i>>, x, g \cup {<<k, j>> : j \in 1 .. i - 1})
  PROVE  ExitPart(Each(h, k, n), {<<k, i>> : i \in 1 .. n}, K, x, g)
<1> DEFINE s == Each(h, k, n)
           Up(i) == {<<k, j>> : j \in 1 .. i - 1}
<1>1. DOMAIN s = 1 .. n /\ \A i \in 1 .. n : s[i][2] = <<k, i>>
  BY DEF Each
<1>2. Names(s, {<<k, i>> : i \in 1 .. n})
  BY NamesEach
<1> HIDE DEF s
<1>3. ASSUME NEW i \in 1 .. n, NEW q, Earlier(s, i, q) PROVE q \in Up(i)
  <2>1. PICK j \in 1 .. n : j < i /\ q = <<k, j>>
    BY <1>1, <1>3 DEF Earlier
  <2> QED
    BY <2>1
<1>4. \A i \in 1 .. n : Frees(K, <<k, i>>, x, g \cup Up(i))
  OBVIOUS
<1> HIDE DEF Up
<1>5. \A i \in 1 .. n : /\ <<k, i>> \in x /\ <<k, i>> \notin g /\ ~Earlier(s, i, <<k, i>>)
                        /\ Hangs(ToRemove, K, <<k, i>>)
                             => \E q \in Bases(ToRemove, <<k, i>>) : q \in x \ g /\ ~Earlier(s, i, q)
  BY <1>3, <1>4 DEF Frees
<1>6. {<<k, i>> : i \in 1 .. n} \subseteq x
  BY <1>5
<1>7. ExitPart(s, {<<k, i>> : i \in 1 .. n}, K, x, g)
  BY <1>1, <1>2, <1>5, <1>6 DEF ExitPart
<1> QED
  BY <1>7 DEF s

(* Which kinds hang on which, of the kinds K that a module has.            *)
LEMMA RestsOn ==
  ASSUME NEW K, NEW k \in K, NEW i, NEW l, k = "cdev" => "buffers" \notin K,
         k = "file" /\ "device" \in K => <<"device", 0>> \in l \/ <<"device", i>> \in l,
         k = "device" /\ "class" \in K => <<"class", 0>> \in l,
         k = "irq" /\ "gpio" \in K => <<"gpio", i>> \in l,
         k = "attr" => <<"misc", i>> \in l,
         k = "misc" /\ "data" \in K => <<"data", i>> \in l
  PROVE  Rests(K, <<k, i>>, l)
<1> DEFINE r == <<k, i>>
<1>1. r[1] = k /\ r[2] = i
  OBVIOUS
<1> HIDE DEF r
<1>2. /\ Hangs(ToAcquire, K, r) <=> \/ k = "file" /\ "device" \in K
                                    \/ k = "device" /\ "class" \in K
                                    \/ k = "irq" /\ "gpio" \in K
                                    \/ k = "attr" /\ "misc" \in K
      /\ Hangs(ToServe, K, r) <=> \/ k = "cdev" /\ "buffers" \in K
                                  \/ k = "misc" /\ "data" \in K
  BY <1>1 DEF Hangs, ToAcquire, ToServe
<1>3. /\ k = "file" => Bases(ToAcquire, r) = {<<"device", 0>>, <<"device", i>>}
      /\ k = "device" => Bases(ToAcquire, r) = {<<"class", 0>>, <<"class", i>>}
      /\ k = "irq" => Bases(ToAcquire, r) = {<<"gpio", 0>>, <<"gpio", i>>}
      /\ k = "attr" => Bases(ToAcquire, r) = {<<"misc", 0>>, <<"misc", i>>}
      /\ k = "misc" => Bases(ToServe, r) = {<<"data", 0>>, <<"data", i>>}
  BY <1>1 DEF Bases, ToAcquire, ToServe
<1>4. Hangs(ToAcquire, K, r) => \E q \in Bases(ToAcquire, r) : q \in l
  BY <1>2, <1>3
<1>5. Hangs(ToServe, K, r) => \E q \in Bases(ToServe, r) : q \in l
  BY <1>2, <1>3
<1>6. Rests(K, r, l)
  BY <1>1, <1>4, <1>5 DEF Rests
<1> QED
  BY <1>6 DEF r

LEMMA FreesOn ==
  ASSUME NEW K, NEW k, NEW i, NEW x, NEW g, <<k, i>> \in x \ g,
         k = "file" /\ "device" \in K => \/ <<"device", 0>> \in x \ g
                                         \/ <<"device", i>> \in x \ g,
         k = "device" /\ "class" \in K => <<"class", 0>> \in x \ g,
         k = "irq" => "gpio" \notin K
  PROVE  Frees(K, <<k, i>>, x, g)
<1> DEFINE r == <<k, i>>
<1>1. r[1] = k /\ r[2] = i
  OBVIOUS
<1>2. r \in x \ g
  OBVIOUS
<1> HIDE DEF r
<1>3. /\ Hangs(ToRemove, K, r) <=> \/ k = "file" /\ "device" \in K
                                   \/ k = "device" /\ "class" \in K
                                   \/ k = "irq" /\ "gpio" \in K
      /\ k = "file" => Bases(ToRemove, r) = {<<"device", 0>>, <<"device", i>>}
      /\ k = "device" => Bases(ToRemove, r) = {<<"class", 0>>, <<"class", i>>}
  BY <1>1 DEF Hangs, Bases, ToRemove
<1>4. Frees(K, r, x, g)
  BY <1>2, <1>3 DEF Frees
<1> QED
  BY <1>4 DEF r

(* The loops that make two calls for each of n instances.                  *)
Pairs(h, k, f, l, n) == FlattenSeq([i \in 1 .. n |-> <<<<h, <<k, i>>>>, <<f, <<l, i>>>>>>])
OfKind(k, n) == {<<k, i>> : i \in 1 .. n}

LEMMA InKind == ASSUME NEW k, NEW i, NEW l, NEW n
                PROVE  <<k, i>> \in OfKind(l, n) <=> k = l /\ i \in 1 .. n
  BY DEF OfKind

LEMMA InitPairs ==
  ASSUME NEW h, NEW k, NEW f, NEW l, NEW n \in Nat, NEW K, NEW t,
         h \notin {"put", "after"}, f # "put",
         \A i \in 1 .. n : Rests(K, <<k, i>>, t) /\ Rests(K, <<l, i>>, t \cup {<<k, i>>})
  PROVE  InitPart(Pairs(h, k, f, l, n), OfKind(k, n) \cup OfKind(l, n), K, t)
<1> DEFINE F == [i \in 1 .. n |-> <<<<h, <<k, i>>>>, <<f, <<l, i>>>>>>]
           X == [i \in 1 .. n |-> {<<k, i>>, <<l, i>>}]
<1>1. ASSUME NEW i \in 1 .. n PROVE InitPart(F[i], X[i], K, t)
  BY InitTwo
<1>2. IsList(F) /\ Len(F) = n
  BY DEF IsList
<1>3. UNION {X[i] : i \in 1 .. n} = OfKind(k, n) \cup OfKind(l, n)
  BY DEF OfKind
<1>4. Pairs(h, k, f, l, n) = FlattenSeq(F)
  BY DEF Pairs
<1> HIDE DEF F, X
<1>5. InitPart(FlattenSeq(F), UNION {X[i] : i \in 1 .. n}, K, t)
  BY <1>1, <1>2, InitLoop
<1> QED
  BY <1>3, <1>4, <1>5

LEMMA ExitPairs ==
  ASSUME NEW h, NEW k, NEW f, NEW l, NEW n \in Nat, NEW K, NEW x, NEW g,
         \A i \in 1 .. n :
            LET u == g \cup OfKind(k, i - 1) \cup OfKind(l, i - 1)
            IN  Frees(K, <<k, i>>, x, u) /\ Frees(K, <<l, i>>, x, u \cup {<<k, i>>})
  PROVE  ExitPart(Pairs(h, k, f, l, n), OfKind(k, n) \cup OfKind(l, n), K, x, g)
<1> DEFINE F == [i \in 1 .. n |-> <<<<h, <<k, i>>>>, <<f, <<l, i>>>>>>]
           X == [i \in 1 .. n |-> {<<k, i>>, <<l, i>>}]
<1>1. ASSUME NEW m \in 0 .. n
      PROVE  UNION {X[i] : i \in 1 .. m} = OfKind(k, m) \cup OfKind(l, m)
  <2>1. \A i \in 1 .. m : X[i] = {<<k, i>>, <<l, i>>}
    OBVIOUS
  <2> HIDE DEF X
  <2> QED
    BY <2>1 DEF OfKind
<1>2. ASSUME NEW i \in 1 .. n
      PROVE  ExitPart(F[i], X[i], K, x, g \cup UNION {X[j] : j \in 1 .. i - 1})
  <2> DEFINE u == g \cup OfKind(k, i - 1) \cup OfKind(l, i - 1)
  <2>1. g \cup UNION {X[j] : j \in 1 .. i - 1} = u
    <3>1. i - 1 \in 0 .. n
      OBVIOUS
    <3> HIDE DEF X
    <3> QED
      BY <1>1, <3>1
  <2>2. Frees(K, <<k, i>>, x, u) /\ Frees(K, <<l, i>>, x, u \cup {<<k, i>>})
    OBVIOUS
  <2>3. F[i] = <<<<h, <<k, i>>>>, <<f, <<l, i>>>>>> /\ X[i] = {<<k, i>>, <<l, i>>}
    OBVIOUS
  <2> HIDE DEF u, F, X
  <2>4. ExitPart(<<<<h, <<k, i>>>>, <<f, <<l, i>>>>>>, {<<k, i>>, <<l, i>>}, K, x, u)
    BY <2>2, ExitTwo
  <2> QED
    BY <2>1, <2>3, <2>4
<1>3. IsList(F) /\ Len(F) = n
  BY DEF IsList
<1>4. Pairs(h, k, f, l, n) = FlattenSeq(F)
  BY DEF Pairs
<1> HIDE DEF F, X
<1>5. ExitPart(FlattenSeq(F), UNION {X[i] : i \in 1 .. n}, K, x, g)
  BY <1>2, <1>3, ExitLoop
<1>6. UNION {X[i] : i \in 1 .. n} = OfKind(k, n) \cup OfKind(l, n)
  <2>1. n \in 0 .. n
    OBVIOUS
  <2> QED
    BY <1>1, <2>1
<1> QED
  BY <1>4, <1>5, <1>6

(* What TablesMatch and ListsInOrder ask of a module.                      *)
Sound(m) == IsTable(m) /\ GivesAllBack(m) /\ InOrder(m)

LEMMA SoundByParts ==
  ASSUME NEW m, NEW K, NEW x, NEW y, ~("cdev" \in K /\ "buffers" \in K),
         InitPart(m.init, x, K, {}), ExitPart(m.exit, y, K, x, {}),
         \A r \in x : r \in y \/ r[1] \in m.devm
  PROVE  Sound(m)
<1>1. IsTable(m) /\ InOrder(m)
  BY OrderedByParts
<1>2. /\ \A i \in DOMAIN m.init : m.init[i][2] \in x
      /\ \A r \in y : \E j \in DOMAIN m.exit : m.exit[j][2] = r
  BY NamedIn DEF InitPart, ExitPart
<1>3. GivesAllBack(m)
  BY <1>2 DEF GivesAllBack
<1> QED
  BY <1>1, <1>3 DEF Sound

LEMMA SoundByTwo ==
  ASSUME NEW m, NEW K, NEW s, NEW t, NEW e, NEW f, NEW x1, NEW x2, NEW y1, NEW y2,
         ~("cdev" \in K /\ "buffers" \in K), m.init = s \o t, m.exit = e \o f,
         InitPart(s, x1, K, {}), InitPart(t, x2, K, x1),
         ExitPart(e, y1, K, x1 \cup x2, {}), ExitPart(f, y2, K, x1 \cup x2, y1),
         \A r \in x1 \cup x2 : r \in y1 \cup y2 \/ r[1] \in m.devm
  PROVE  Sound(m)
<1> DEFINE x == x1 \cup x2
           y == y1 \cup y2
<1>1. {} \cup x1 = x1 /\ {} \cup y1 = y1
  OBVIOUS
<1> HIDE DEF x
<1>2. InitPart(s \o t, x1 \cup x2, K, {})
  BY <1>1, JoinInit
<1>3. ExitPart(e \o f, y1 \cup y2, K, x, {})
  BY <1>1, JoinExit DEF x
<1>4. InitPart(m.init, x, K, {}) /\ ExitPart(m.exit, y, K, x, {})
  BY <1>2, <1>3 DEF x
<1>5. \A r \in x : r \in y \/ r[1] \in m.devm
  BY DEF x
<1> HIDE DEF y
<1> QED
  BY <1>4, <1>5, SoundByParts
-----------------------------------------------------------------------------
(* The modules themselves.                                                 *)

(* A call for something that hangs on nothing and serves nobody, and the   *)
(* one that gives it back.                                                 *)
Loose == {"thread", "memory", "driver", "class", "chrdev", "procdir", "procfile",
          "data", "list", "gpio"}

LEMMA LooseRests == ASSUME NEW K, NEW k \in K, k \in Loose, NEW i, NEW h PROVE Rests(K, <<k, i>>, h)
  BY RestsOn DEF Loose

LEMMA LooseFrees == ASSUME NEW K, NEW k, k \notin {"file", "device"}, NEW i, NEW x, NEW g,
                           k = "irq" => "gpio" \notin K, <<k, i>> \in x \ g
                    PROVE  Frees(K, <<k, i>>, x, g)
  BY FreesOn

(* One call each: lab_thread, sol_thread, SysfsDriver, drv_dts.            *)
LEMMA OneCall == ASSUME NEW m, NEW h, NEW f, NEW k, k \in Loose \cup {"misc"},
                        h \notin {"put", "after"},
                        m.init = <<<<h, R(k)>>>>, m.exit = <<<<f, R(k)>>>>
                 PROVE  Sound(m)
<1> DEFINE K == {k}
           x == {R(k)}
<1>1. Rests(K, R(k), {})
  BY RestsOn DEF R, Loose
<1>2. Frees(K, R(k), x, {})
  BY LooseFrees DEF R, Loose
<1>3. ~("cdev" \in K /\ "buffers" \in K) /\ \A r \in x : r \in x \/ r[1] \in m.devm
  OBVIOUS
<1>4. InitPart(m.init, x, K, {}) /\ ExitPart(m.exit, x, K, x, {})
  <2> HIDE DEF K
  <2> QED
    BY <1>1, <1>2, InitOne, ExitOne
<1> HIDE DEF K, x
<1> QED
  BY <1>3, <1>4, SoundByParts

LEMMA OneCallEach == /\ Sound(lab_thread) /\ Sound(sol_thread) /\ Sound(drv_dts)
                     /\ Sound(driver_exercice06) /\ Sound(driver_exercice06_1)
                     /\ Sound(driver_sample06_3) /\ Sound(driver_dts)
<1>1. \A h \in {"must", "any", "chain"} : h \notin {"put", "after"}
  OBVIOUS
<1>2. /\ lab_thread.init = <<<<"must", R("thread")>>>>
      /\ lab_thread.exit = <<<<"always", R("thread")>>>>
      /\ sol_thread.init = <<<<"any", R("thread")>>>>
      /\ sol_thread.exit = <<<<"always", R("thread")>>>>
      /\ drv_dts.init = <<<<"any", R("misc")>>>>
      /\ drv_dts.exit = <<<<"always", R("misc")>>>>
      /\ \A z : /\ SysfsDriver(z).init = <<<<"chain", R("driver")>>>>
                /\ SysfsDriver(z).exit = <<<<"always", R("driver")>>>>
  BY DEF lab_thread, Skeleton, sol_thread, drv_dts, SysfsDriver
<1>3. {"thread", "misc", "driver"} \subseteq Loose \cup {"misc"}
  BY DEF Loose
<1>4. \A z : Sound(SysfsDriver(z))
  BY <1>1, <1>2, <1>3, OneCall
<1> QED
  BY <1>1, <1>2, <1>3, <1>4, OneCall
     DEF driver_exercice06, driver_exercice06_1, driver_sample06_3, driver_dts

(* The same call for each of n instances.                                  *)
LEMMA FreesEach == ASSUME NEW K, NEW k, k \notin {"file", "device"}, NEW n \in Nat,
                          k = "irq" => "gpio" \notin K,
                          NEW x, NEW g, \A i \in 1 .. n : <<k, i>> \in x \ g, NEW h
                   PROVE  ExitPart(Each(h, k, n), OfKind(k, n), K, x, g)
<1> DEFINE Up(i) == {<<k, j>> : j \in 1 .. i - 1}
<1>1. ASSUME NEW i \in 1 .. n PROVE Frees(K, <<k, i>>, x, g \cup Up(i))
  <2>1. <<k, i>> \notin Up(i)
    OBVIOUS
  <2>2. <<k, i>> \in x \ (g \cup Up(i))
    BY <2>1
  <2> HIDE DEF Up
  <2> QED
    BY <2>2, LooseFrees
<1> QED
  BY <1>1, ExitEach DEF OfKind

LEMMA LooseEach == ASSUME NEW m, NEW h, NEW f, NEW k \in Loose, NEW n \in Nat, h \notin {"put", "after"},
                          m.init = Each(h, k, n), m.exit = Each(f, k, n)
                   PROVE  Sound(m)
<1> DEFINE K == {k}
           x == OfKind(k, n)
<1>1. \A i \in 1 .. n : Rests(K, <<k, i>>, {})
  BY LooseRests
<1>2. InitPart(m.init, x, K, {})
  <2> HIDE DEF K
  <2> QED
    BY <1>1, InitEach DEF OfKind
<1>3. ExitPart(m.exit, x, K, x, {})
  <2>1. \A i \in 1 .. n : <<k, i>> \in x \ {}
    BY DEF OfKind
  <2>2. k \notin {"file", "device", "irq"}
    BY DEF Loose
  <2> HIDE DEF K, x
  <2>3. ExitPart(Each(f, k, n), OfKind(k, n), K, x, {})
    BY <2>1, <2>2, FreesEach
  <2> QED
    BY <2>3 DEF x
<1>4. ~("cdev" \in K /\ "buffers" \in K) /\ \A r \in x : r \in x \/ r[1] \in m.devm
  OBVIOUS
<1> HIDE DEF K, x
<1> QED
  BY <1>2, <1>3, <1>4, SoundByParts

LEMMA LoopsOfOneCall == Sound(lab_sleeping) /\ \A n \in Nat : Sound(sol_elements(n))
<1>1. /\ lab_sleeping.init = Each("must", "thread", 2)
      /\ lab_sleeping.exit = Each("always", "thread", 2)
      /\ \A n \in Nat : /\ sol_elements(n).init = Each("any", "memory", n)
                        /\ sol_elements(n).exit = Each("held", "memory", n)
  BY DEF lab_sleeping, sol_elements, Skeleton
<1>2. \A h \in {"must", "any"} : h \notin {"put", "after"}
  OBVIOUS
<1>3. {"thread", "memory"} \subseteq Loose /\ 2 \in Nat
  BY DEF Loose
<1> QED
  BY <1>1, <1>2, <1>3, LooseEach

LEMMA ReversedLoop == Sound(sol_sleeping)
<1> DEFINE m == sol_sleeping
           K == {"thread"}
           x == OfKind("thread", 2)
           e == Each("always", "thread", 2)
           a == <<"thread", 1>>
           b == <<"thread", 2>>
<1>1. m.exit = <<<<"always", b>>, <<"always", a>>>>
  <2>1. DOMAIN e = 1 .. 2 /\ Len(e) = 2 /\ e[1] = <<"always", a>> /\ e[2] = <<"always", b>>
    BY DEF Each
  <2>2. m.exit = Reverse(e)
    BY DEF sol_sleeping
  <2> HIDE DEF e, a, b
  <2>3. Reverse(e) = [i \in 1 .. 2 |-> e[2 - i + 1]]
    BY <2>1 DEF Reverse
  <2> QED
    BY <2>1, <2>2, <2>3
<1>2. InitPart(m.init, x, K, {})
  <2>1. \A i \in 1 .. 2 : Rests(K, <<"thread", i>>, {})
    BY LooseRests DEF Loose
  <2>2. m.init = Each("any", "thread", 2) /\ 2 \in Nat
    BY DEF sol_sleeping
  <2> HIDE DEF K, m
  <2> QED
    BY <2>1, <2>2, InitEach DEF OfKind
<1>3. ExitPart(m.exit, {b, a}, K, x, {})
  <2>1. b \in x \ {} /\ a \in x \ ({} \cup {b})
    BY InKind
  <2> HIDE DEF K, x
  <2>2. Frees(K, b, x, {})
    BY <2>1, LooseFrees
  <2>3. Frees(K, a, x, {} \cup {b})
    BY <2>1, LooseFrees
  <2> HIDE DEF m, a, b
  <2> QED
    BY <1>1, <2>2, <2>3, ExitTwo
<1>4. ~("cdev" \in K /\ "buffers" \in K) /\ \A r \in x : r \in {b, a} \/ r[1] \in m.devm
  BY DEF OfKind
<1> HIDE DEF m, K, x, a, b
<1>5. Sound(m)
  BY <1>2, <1>3, <1>4, SoundByParts
<1> QED
  BY <1>5 DEF m

LEMMA OneElementSound == Sound(lab_dynamic_allocation(1))
<1> DEFINE m == lab_dynamic_allocation(1)
           K == {"memory"}
           a == <<"memory", 1>>
           x == {a}
<1>1. /\ m.init = <<<<"must", a>>>>
      /\ m.exit = <<<<"held", a>>>> \o Each("always", "memory", 0)
  BY DEF lab_dynamic_allocation, Skeleton
<1>2. Rests(K, a, {}) /\ Frees(K, a, x, {})
  BY LooseRests, LooseFrees DEF Loose
<1>3. IsList(Each("always", "memory", 0)) /\ Len(Each("always", "memory", 0)) = 0
  BY DEF Each, IsList
<1>4. ~("cdev" \in K /\ "buffers" \in K) /\ \A r \in x : r \in x \/ r[1] \in m.devm
  OBVIOUS
<1> HIDE DEF m, K, a
<1>5. InitPart(m.init, x, K, {})
  BY <1>1, <1>2, InitOne
<1>6. ExitPart(m.exit, x, K, x, {})
  <2>1. ExitPart(<<<<"held", a>>>>, x, K, x, {})
    BY <1>2, ExitOne
  <2>2. ExitPart(Each("always", "memory", 0), {}, K, x, {} \cup x)
    BY <1>3, NoPart
  <2>3. x \cup {} = x
    OBVIOUS
  <2> HIDE DEF x
  <2>4. ExitPart(<<<<"held", a>>>> \o Each("always", "memory", 0), x \cup {}, K, x, {})
    BY <2>1, <2>2, JoinExit
  <2> QED
    BY <1>1, <2>3, <2>4
<1> HIDE DEF x
<1>7. Sound(m)
  BY <1>4, <1>5, <1>6, SoundByParts
<1> QED
  BY <1>7 DEF m

(* A class with its device, and with what comes after them: s takes the    *)
(* files, e removes them.                                                  *)
LEMMA ClassDeviceAnd ==
  ASSUME NEW m, NEW s, NEW e, NEW fs, fs \cap {R("class"), R("device")} = {},
         m.init = ClassDevice \o s, m.exit = e \o NoClassDevice,
         LET K == {"class", "device", "file"}
             B == {R("class"), R("device")}
         IN  InitPart(s, fs, K, B) /\ ExitPart(e, fs, K, B \cup fs, {})
  PROVE  Sound(m)
<1> DEFINE K == {"class", "device", "file"}
           B == {R("class"), R("device")}
           x == B \cup fs
<1>1. InitPart(ClassDevice, B, K, {})
  <2>1. Rests(K, R("class"), {}) /\ Rests(K, R("device"), {} \cup {R("class")})
    BY RestsOn DEF R
  <2> HIDE DEF K
  <2> QED
    BY <2>1, InitTwo DEF ClassDevice
<1>2. ExitPart(NoClassDevice, B, K, x, fs)
  <2>1. R("device") # R("class")
    BY DEF R
  <2>2. /\ <<"device", 0>> \in x \ fs /\ <<"class", 0>> \in x \ fs
        /\ <<"class", 0>> \in x \ (fs \cup {R("device")})
    BY <2>1 DEF R
  <2> HIDE DEF x
  <2>3. Frees(K, R("device"), x, fs)
    BY <2>2, FreesOn DEF R
  <2>4. Frees(K, R("class"), x, fs \cup {R("device")})
    BY <2>2, FreesOn DEF R
  <2>5. {R("device"), R("class")} = B
    OBVIOUS
  <2> HIDE DEF K, B
  <2> QED
    BY <2>3, <2>4, <2>5, ExitTwo DEF NoClassDevice
<1>3. ~("cdev" \in K /\ "buffers" \in K) /\ \A r \in x : r \in fs \cup B
  OBVIOUS
<1>4. InitPart(s, fs, K, B) /\ ExitPart(e, fs, K, x, {})
  OBVIOUS
<1> HIDE DEF K, B
<1> QED
  BY <1>1, <1>2, <1>3, <1>4, SoundByTwo

LEMMA SysfsSound == Sound(lab_sysfs) /\ Sound(drv_sample05) /\ Sound(drv_exercice05)
<1> DEFINE K == {"class", "device", "file"}
           B == {R("class"), R("device")}
           C == {R("file")}
           D == OfKind("file", 2)
<1>1. \A i : Rests(K, <<"file", i>>, B)
  BY RestsOn DEF R
<1>2. ASSUME NEW x, B \subseteq x, NEW g, g \cap B = {}, NEW i, <<"file", i>> \in x \ g
      PROVE  Frees(K, <<"file", i>>, x, g)
  <2>1. <<"device", 0>> \in x \ g
    BY <1>2 DEF R
  <2> QED
    BY <1>2, <2>1, FreesOn
<1>3. C \cap B = {} /\ D \cap B = {}
  BY DEF R, OfKind
<1>4. ASSUME NEW h, h \notin {"put", "after"}, NEW f
      PROVE  InitPart(<<<<h, R("file")>>>>, C, K, B) /\ ExitPart(<<<<f, R("file")>>>>, C, K, B \cup C, {})
  <2>1. R("file") = <<"file", 0>> /\ R("file") \in (B \cup C) \ {} /\ {} \cap B = {} /\ B \subseteq B \cup C
    BY DEF R
  <2>2. Rests(K, R("file"), B)
    BY <1>1, <2>1
  <2>3. Frees(K, R("file"), B \cup C, {})
    <3> HIDE DEF B, C, K
    <3> QED
      BY <1>2, <2>1
  <2> HIDE DEF K, B
  <2> QED
    BY <1>4, <2>2, <2>3, InitOne, ExitOne
<1>5. InitPart(TwoFiles("chain"), D, K, B) /\ ExitPart(TwoFiles("always"), D, K, B \cup D, {})
  <2>1. \A i \in 1 .. 2 : Rests(K, <<"file", i>>, B)
    BY <1>1
  <2>2. "chain" \notin {"put", "after"} /\ 2 \in Nat
    OBVIOUS
  <2> DEFINE Up(i) == {<<"file", j>> : j \in 1 .. i - 1}
             x == B \cup D
  <2>3. ASSUME NEW i \in 1 .. 2 PROVE Frees(K, <<"file", i>>, x, {} \cup Up(i))
    <3>1. B \subseteq x /\ ({} \cup Up(i)) \cap B = {} /\ <<"file", i>> \in x \ ({} \cup Up(i))
      BY DEF OfKind, R
    <3> HIDE DEF K, B, x, Up
    <3> QED
      BY <1>2, <3>1
  <2> HIDE DEF K, B, x
  <2>4. InitPart(Each("chain", "file", 2), {<<"file", i>> : i \in 1 .. 2}, K, B)
    BY <2>1, <2>2, InitEach
  <2>5. ExitPart(Each("always", "file", 2), {<<"file", i>> : i \in 1 .. 2}, K, x, {})
    BY <2>2, <2>3, ExitEach
  <2> QED
    BY <2>4, <2>5 DEF TwoFiles, OfKind, x
<1>6. /\ lab_sysfs.init = ClassDevice \o <<<<"chain", R("file")>>>>
      /\ lab_sysfs.exit = <<<<"always", R("file")>>>> \o NoClassDevice
      /\ drv_sample05.init = ClassDevice \o <<<<"set", R("file")>>>>
      /\ drv_sample05.exit = <<<<"always", R("file")>>>> \o NoClassDevice
      /\ drv_exercice05.init = ClassDevice \o TwoFiles("chain")
      /\ drv_exercice05.exit = TwoFiles("always") \o NoClassDevice
  BY DEF lab_sysfs, drv_sample05, drv_exercice05
<1>7. \A h \in {"chain", "set"} : h \notin {"put", "after"}
  OBVIOUS
<1> HIDE DEF C, D
<1>8. Sound(lab_sysfs)
  BY <1>3, <1>4, <1>6, <1>7, ClassDeviceAnd
<1>9. Sound(drv_sample05)
  BY <1>3, <1>4, <1>6, <1>7, ClassDeviceAnd
<1>10. Sound(drv_exercice05)
  BY <1>3, <1>5, <1>6, ClassDeviceAnd
<1> QED
  BY <1>8, <1>9, <1>10

(* A class with a device and a file of it for each of n, sample05.1.       *)
LEMMA Sample05_1 == ASSUME NEW n \in Nat PROVE Sound(drv_sample05_1(n))
<1> DEFINE m == drv_sample05_1(n)
           K == {"class", "device", "file"}
           C == {R("class")}
           D == OfKind("device", n) \cup OfKind("file", n)
           x == C \cup D
<1>1. /\ m.init = <<<<"any", R("class")>>>> \o Pairs("any", "device", "set", "file", n)
      /\ m.exit = Pairs("always", "file", "always", "device", n) \o <<<<"always", R("class")>>>>
  BY DEF drv_sample05_1, PerInstance, Pairs
<1>2. InitPart(<<<<"any", R("class")>>>>, C, K, {})
  <2>1. Rests(K, R("class"), {})
    BY RestsOn DEF R
  <2> HIDE DEF K
  <2> QED
    BY <2>1, InitOne
<1>3. InitPart(Pairs("any", "device", "set", "file", n), D, K, C)
  <2>1. ASSUME NEW i \in 1 .. n
        PROVE  Rests(K, <<"device", i>>, C) /\ Rests(K, <<"file", i>>, C \cup {<<"device", i>>})
    BY RestsOn DEF R
  <2> HIDE DEF K, C
  <2> QED
    BY <2>1, InitPairs
<1>4. ExitPart(Pairs("always", "file", "always", "device", n), D, K, x, {})
  <2>1. ASSUME NEW i \in 1 .. n
        PROVE LET u == {} \cup OfKind("file", i - 1) \cup OfKind("device", i - 1)
              IN  /\ Frees(K, <<"file", i>>, x, u)
                  /\ Frees(K, <<"device", i>>, x, u \cup {<<"file", i>>})
    <3> DEFINE u == {} \cup OfKind("file", i - 1) \cup OfKind("device", i - 1)
    <3>1. /\ <<"file", i>> \in x \ u
          /\ <<"device", i>> \in x \ u /\ <<"device", i>> \in x \ (u \cup {<<"file", i>>})
      BY InKind
    <3>2. <<"class", 0>> \in x \ (u \cup {<<"file", i>>})
      BY InKind DEF R
    <3> HIDE DEF u, x
    <3>3. Frees(K, <<"file", i>>, x, u)
      BY <3>1, FreesOn
    <3>4. Frees(K, <<"device", i>>, x, u \cup {<<"file", i>>})
      BY <3>1, <3>2, FreesOn
    <3> QED
      BY <3>3, <3>4 DEF u
  <2>2. D = OfKind("file", n) \cup OfKind("device", n)
    OBVIOUS
  <2> HIDE DEF K, x, D
  <2> QED
    BY <2>1, <2>2, ExitPairs
<1>5. ExitPart(<<<<"always", R("class")>>>>, C, K, x, D)
  <2>1. R("class") = <<"class", 0>> /\ R("class") \in x \ D
    BY InKind DEF R
  <2>2. Frees(K, R("class"), x, D)
    <3> HIDE DEF x, D
    <3> QED
      BY <2>1, LooseFrees
  <2> HIDE DEF K, x, D
  <2> QED
    BY <2>2, ExitOne
<1>6. ~("cdev" \in K /\ "buffers" \in K) /\ \A r \in x : r \in D \cup C
  OBVIOUS
<1> HIDE DEF m, K, C, D
<1>7. Sound(m)
  BY <1>1, <1>2, <1>3, <1>4, <1>5, <1>6, SoundByTwo
<1> QED
  BY <1>7 DEF m

(* A character device on its own, or with a device for it (exercice08).    *)
LEMMA CharacterDevices == Sound(drv_exercice02) /\ Sound(drv_exercice09) /\ Sound(drv_exercice08)
<1> DEFINE K == {"chrdev", "cdev", "device"}
           C == {R("chrdev"), R("cdev")}
           D == {R("device")}
           t == <<<<"chain", R("device")>>>>
           e == <<<<"always", R("device")>>>>
<1>1. InitPart(Chrdev, C, K, {})
  <2>1. Rests(K, R("chrdev"), {}) /\ Rests(K, R("cdev"), {} \cup {R("chrdev")})
    BY RestsOn DEF R
  <2> HIDE DEF K
  <2> QED
    BY <2>1, InitTwo DEF Chrdev
<1>2. ASSUME NEW x, C \subseteq x, NEW g, C \cap g = {} PROVE ExitPart(NoChrdev, C, K, x, g)
  <2>1. R("cdev") # R("chrdev")
    BY DEF R
  <2>2. /\ <<"cdev", 0>> \in x \ g /\ <<"chrdev", 0>> \in x \ (g \cup {R("cdev")})
    BY <1>2, <2>1 DEF R
  <2>3. Frees(K, R("cdev"), x, g) /\ Frees(K, R("chrdev"), x, g \cup {R("cdev")})
    BY <2>2, LooseFrees DEF R
  <2>4. C = {R("cdev"), R("chrdev")}
    OBVIOUS
  <2> HIDE DEF K, C
  <2> QED
    BY <2>3, <2>4, ExitTwo DEF NoChrdev
<1>3. ~("cdev" \in K /\ "buffers" \in K) /\ C \cap D = {} /\ C \cap {} = {}
  BY DEF R
<1>4. /\ drv_exercice02.init = Chrdev /\ drv_exercice02.exit = NoChrdev
      /\ drv_exercice09.init = Chrdev /\ drv_exercice09.exit = NoChrdev
      /\ drv_exercice08.init = Chrdev \o t
      /\ drv_exercice08.exit = e \o NoChrdev
  BY DEF drv_exercice02, drv_exercice08, drv_exercice09
<1>5. InitPart(t, D, K, C)
  <2>1. Rests(K, R("device"), C)
    BY RestsOn DEF R
  <2> HIDE DEF K, C
  <2> QED
    BY <2>1, InitOne
<1>6. ExitPart(e, D, K, C \cup D, {})
  <2>1. Frees(K, R("device"), C \cup D, {})
    BY FreesOn DEF R
  <2> HIDE DEF K, C
  <2> QED
    BY <2>1, ExitOne
<1> HIDE DEF K, C, D, t, e
<1>7. Sound(drv_exercice02) /\ Sound(drv_exercice09)
  <2>1. ExitPart(NoChrdev, C, K, C, {})
    BY <1>2, <1>3
  <2>2. ASSUME NEW m, m.init = Chrdev, m.exit = NoChrdev PROVE Sound(m)
    <3>1. \A r \in C : r \in C \/ r[1] \in m.devm
      OBVIOUS
    <3> QED
      BY <1>1, <1>3, <2>1, <2>2, <3>1, SoundByParts
  <2> QED
    BY <1>4, <2>2
<1>8. Sound(drv_exercice08)
  <2>1. ExitPart(NoChrdev, C, K, C \cup D, D)
    BY <1>2, <1>3
  <2>2. \A r \in C \cup D : r \in D \cup C \/ r[1] \in drv_exercice08.devm
    OBVIOUS
  <2> QED
    BY <1>1, <1>3, <1>4, <1>5, <1>6, <2>1, <2>2, SoundByTwo
<1> QED
  BY <1>7, <1>8

(* A device and a file of it for each of n instances (sample06.2).         *)
LEMMA Sample06_2 == ASSUME NEW n \in Nat PROVE Sound(drv_sample06_2(n))
<1> DEFINE m == drv_sample06_2(n)
           K == {"chrdev", "cdev", "device", "file"}
           C == {R("chrdev"), R("cdev")}
           D == OfKind("device", n) \cup OfKind("file", n)
           x == C \cup D
           c == <<"cdev", 0>>
           d == <<"chrdev", 0>>
<1>1. /\ m.init = Chrdev \o Pairs("chain", "device", "chain", "file", n)
      /\ m.exit = Pairs("always", "file", "always", "device", n) \o NoChrdev
  BY DEF drv_sample06_2, PerInstance, Pairs
<1>2. InitPart(Chrdev, C, K, {})
  <2>1. Rests(K, R("chrdev"), {}) /\ Rests(K, R("cdev"), {} \cup {R("chrdev")})
    BY RestsOn DEF R
  <2> HIDE DEF K
  <2> QED
    BY <2>1, InitTwo DEF Chrdev
<1>3. InitPart(Pairs("chain", "device", "chain", "file", n), D, K, C)
  <2>1. ASSUME NEW i \in 1 .. n
        PROVE  Rests(K, <<"device", i>>, C) /\ Rests(K, <<"file", i>>, C \cup {<<"device", i>>})
    BY RestsOn
  <2> HIDE DEF K, C
  <2> QED
    BY <2>1, InitPairs
<1>4. ExitPart(Pairs("always", "file", "always", "device", n), D, K, x, {})
  <2>1. ASSUME NEW i \in 1 .. n
        PROVE LET u == {} \cup OfKind("file", i - 1) \cup OfKind("device", i - 1)
              IN  /\ Frees(K, <<"file", i>>, x, u)
                  /\ Frees(K, <<"device", i>>, x, u \cup {<<"file", i>>})
    <3> DEFINE u == {} \cup OfKind("file", i - 1) \cup OfKind("device", i - 1)
    <3>1. /\ <<"file", i>> \in x \ u
          /\ <<"device", i>> \in x \ u /\ <<"device", i>> \in x \ (u \cup {<<"file", i>>})
      BY InKind
    <3> HIDE DEF u, x
    <3>2. Frees(K, <<"file", i>>, x, u)
      BY <3>1, FreesOn
    <3>3. Frees(K, <<"device", i>>, x, u \cup {<<"file", i>>})
      BY <3>1, FreesOn
    <3> QED
      BY <3>2, <3>3 DEF u
  <2>2. D = OfKind("file", n) \cup OfKind("device", n)
    OBVIOUS
  <2> HIDE DEF K, x, D
  <2> QED
    BY <2>1, <2>2, ExitPairs
<1>5. ExitPart(NoChrdev, C, K, x, D)
  <2>1. Frees(K, R("cdev"), x, D) /\ Frees(K, R("chrdev"), x, D \cup {R("cdev")})
    BY FreesOn, InKind DEF R
  <2>2. ExitPart(NoChrdev, {R("cdev"), R("chrdev")}, K, x, D)
    <3> HIDE DEF K, x, D
    <3> QED
      BY <2>1, ExitTwo DEF NoChrdev
  <2> QED
    BY <2>2
<1>6. ~("cdev" \in K /\ "buffers" \in K) /\ \A r \in x : r \in D \cup C
  OBVIOUS
<1> HIDE DEF m, K, C, D
<1>7. Sound(m)
  BY <1>1, <1>2, <1>3, <1>4, <1>5, <1>6, SoundByTwo
<1> QED
  BY <1>7 DEF m

(* The misc device of exercice06 stands on its data, which the driver core *)
(* frees after remove.                                                     *)
LEMMA MiscWithData == Sound(drv_exercice06)
<1> DEFINE m == drv_exercice06
           K == {"data", "misc"}
           a == <<"data", 1>>
           b == <<"misc", 1>>
           x == {a, b}
<1>1. /\ m.init = <<<<"must", a>>, <<"must", b>>>> /\ m.exit = <<<<"always", b>>>>
      /\ m.devm = {"data"}
  BY DEF drv_exercice06
<1>2. Rests(K, a, {}) /\ Rests(K, b, {} \cup {a})
  BY RestsOn
<1>3. Frees(K, b, x, {})
  BY FreesOn
<1>4. ~("cdev" \in K /\ "buffers" \in K) /\ \A r \in x : r \in {b} \/ r[1] \in m.devm
  BY <1>1
<1> HIDE DEF m, K, a, b
<1>5. InitPart(m.init, x, K, {}) /\ ExitPart(m.exit, {b}, K, x, {})
  BY <1>1, <1>2, <1>3, InitTwo, ExitOne
<1> HIDE DEF x
<1>6. Sound(m)
  BY <1>4, <1>5, SoundByParts
<1> QED
  BY <1>6 DEF m

(* For each child its data, then its device, in a list (exercice06.1).     *)
LEMMA ListOfChildren == ASSUME NEW n \in Nat PROVE Sound(drv_exercice06_1(n))
<1> DEFINE m == drv_exercice06_1(n)
           K == {"list", "data", "misc"}
           C == {R("list")}
           M == OfKind("misc", n)
           D == OfKind("data", n) \cup M
           x == C \cup D
<1>1. /\ m.init = <<<<"must", R("list")>>>> \o Pairs("must", "data", "must", "misc", n)
      /\ m.exit = Each("always", "misc", n) /\ m.devm = {"list", "data"}
  BY DEF drv_exercice06_1, PerInstance, Pairs, Child
<1>2. InitPart(<<<<"must", R("list")>>>>, C, K, {})
  <2>1. Rests(K, R("list"), {})
    BY RestsOn DEF R
  <2> HIDE DEF K
  <2> QED
    BY <2>1, InitOne
<1>3. InitPart(Pairs("must", "data", "must", "misc", n), D, K, C)
  <2>1. ASSUME NEW i \in 1 .. n
        PROVE  Rests(K, <<"data", i>>, C) /\ Rests(K, <<"misc", i>>, C \cup {<<"data", i>>})
    BY RestsOn
  <2> HIDE DEF K, C
  <2> QED
    BY <2>1, InitPairs
<1>4. InitPart(m.init, x, K, {})
  <2>1. {} \cup C = C
    OBVIOUS
  <2> HIDE DEF m, K, C, D
  <2> QED
    BY <1>1, <1>2, <1>3, <2>1, JoinInit
<1>5. ExitPart(m.exit, M, K, x, {})
  <2>1. \A i \in 1 .. n : <<"misc", i>> \in x \ {}
    BY InKind
  <2> HIDE DEF K, x, m
  <2> QED
    BY <1>1, <2>1, FreesEach
<1>6. ~("cdev" \in K /\ "buffers" \in K)
  OBVIOUS
<1>7. ASSUME NEW r \in x PROVE r \in M \/ r[1] \in m.devm
  <2>1. CASE r \in C
    BY <1>1, <2>1 DEF R
  <2>2. CASE r \in OfKind("data", n)
    BY <1>1, <2>2 DEF OfKind
  <2> QED
    BY <2>1, <2>2
<1> HIDE DEF m, K, M, x
<1>8. Sound(m)
  BY <1>4, <1>5, <1>6, <1>7, SoundByParts
<1> QED
  BY <1>8 DEF m

(* The driver data of sample06.3 is right as long as there is one child.   *)
LEMMA OneChild == Sound(drv_sample06_3(1))
<1> DEFINE m == drv_sample06_3(1)
           K == {"data", "misc", "attr"}
           a == <<"data", 1>>
           b == <<"misc", 1>>
           c == <<"attr", 1>>
           s == Child(1) \o <<<<"must", c>>>>
           F == [i \in 1 .. 1 |-> Child(i) \o <<<<"must", <<"attr", i>>>>>>]
           x == {a, b, c}
<1>1. /\ m.init = FlattenSeq(F) /\ m.devm = {"data"}
      /\ m.exit = <<<<"always", b>>, <<"held", c>>>>
  BY DEF drv_sample06_3, PerInstance
<1>2. IsList(F) /\ Len(F) = 1 /\ F[1] = s
  BY DEF IsList
<1>3. Rests(K, a, {}) /\ Rests(K, b, {} \cup {a}) /\ Rests(K, c, {} \cup {a, b})
  BY RestsOn
<1>4. /\ b \in x \ {} /\ c \in x \ ({} \cup {b})
      /\ \A r \in x : r \in {b, c} \/ r[1] \in m.devm
      /\ ~("cdev" \in K /\ "buffers" \in K)
  BY <1>1
<1>5. Frees(K, b, x, {}) /\ Frees(K, c, x, {} \cup {b})
  <2> HIDE DEF x, K
  <2> QED
    BY <1>4, LooseFrees
<1>6. InitPart(s, x, K, {})
  <2>1. {a, b} \cup {c} = x
    OBVIOUS
  <2> HIDE DEF K, a, b, c, x
  <2>2. InitPart(<<<<"must", a>>, <<"must", b>>>>, {a, b}, K, {})
    BY <1>3, InitTwo
  <2>3. InitPart(<<<<"must", c>>>>, {c}, K, {} \cup {a, b})
    BY <1>3, InitOne
  <2>4. InitPart(<<<<"must", a>>, <<"must", b>>>> \o <<<<"must", c>>>>, {a, b} \cup {c}, K, {})
    BY <2>2, <2>3, JoinInit
  <2>5. s = <<<<"must", a>>, <<"must", b>>>> \o <<<<"must", c>>>>
    BY DEF Child, a, b
  <2> QED
    BY <2>1, <2>4, <2>5
<1>7. InitPart(m.init, x, K, {})
  <2> DEFINE X == [i \in 1 .. 1 |-> x]
  <2>1. UNION {X[i] : i \in 1 .. 1} = x
    BY DEF X
  <2>2. \A i \in 1 .. 1 : X[i] = x /\ F[i] = s
    BY <1>2
  <2>3. 1 \in Nat
    OBVIOUS
  <2> HIDE DEF m, F, X, x, K, s
  <2>4. \A i \in 1 .. 1 : InitPart(F[i], X[i], K, {})
    BY <1>6, <2>2
  <2>5. InitPart(FlattenSeq(F), UNION {X[i] : i \in 1 .. 1}, K, {})
    BY <1>2, <2>3, <2>4, InitLoop
  <2> QED
    BY <1>1, <2>1, <2>5
<1> HIDE DEF m, K, a, b, c, x, s, F
<1>8. ExitPart(m.exit, {b, c}, K, x, {})
  BY <1>1, <1>5, ExitTwo
<1>9. Sound(m)
  BY <1>4, <1>7, <1>8, SoundByParts
<1> QED
  BY <1>9 DEF m

(* A device or a directory with what belongs to it: exercice07 frees the   *)
(* device first, exercice10 the files.                                     *)
LEMMA WithLists == Sound(drv_exercice07) /\ Sound(drv_exercice10)
<1>1. Sound(drv_exercice07)
  <2> DEFINE m == drv_exercice07
             K == {"misc", "irq"}
             C == {R("misc")}
             D == OfKind("irq", 3)
             x == C \cup D
             s == <<<<"chain", R("misc")>>>>
             e == <<<<"always", R("misc")>>>>
  <2>1. /\ m.init = s \o Each("chain", "irq", 3) /\ m.exit = e \o Each("held", "irq", 3)
    BY DEF drv_exercice07
  <2>2. Rests(K, R("misc"), {}) /\ \A i \in 1 .. 3 : Rests(K, <<"irq", i>>, C)
    BY RestsOn DEF R
  <2>3. /\ R("misc") = <<"misc", 0>> /\ R("misc") \in x \ {}
        /\ \A i \in 1 .. 3 : <<"irq", i>> \in x \ C
        /\ 3 \in Nat /\ ~("cdev" \in K /\ "buffers" \in K) /\ "gpio" \notin K
        /\ \A r \in x : r \in C \cup D
    BY InKind DEF R
  <2>4. Frees(K, R("misc"), x, {}) /\ ExitPart(Each("held", "irq", 3), D, K, x, C)
    <3> HIDE DEF K, x, C
    <3> QED
      BY <2>3, LooseFrees, FreesEach
  <2> HIDE DEF m, K, x
  <2>5. InitPart(s, C, K, {}) /\ ExitPart(e, C, K, x, {})
    BY <2>2, <2>4, InitOne, ExitOne
  <2>6. InitPart(Each("chain", "irq", 3), D, K, C)
    BY <2>2, <2>3, InitEach DEF OfKind
  <2> HIDE DEF C, D, s, e
  <2>7. Sound(m)
    BY <2>1, <2>3, <2>4, <2>5, <2>6, SoundByTwo DEF x
  <2> QED
    BY <2>7 DEF m
<1>2. Sound(drv_exercice10)
  <2> DEFINE m == drv_exercice10
             K == {"procdir", "procfile"}
             C == {R("procdir")}
             D == OfKind("procfile", 2)
             x == C \cup D
             s == <<<<"set", R("procdir")>>>>
             e == <<<<"always", R("procdir")>>>>
  <2>1. /\ m.init = s \o Each("any", "procfile", 2)
        /\ m.exit = Each("held", "procfile", 2) \o e
    BY DEF drv_exercice10
  <2>2. Rests(K, R("procdir"), {}) /\ \A i \in 1 .. 2 : Rests(K, <<"procfile", i>>, C)
    BY RestsOn DEF R
  <2>3. /\ R("procdir") = <<"procdir", 0>> /\ R("procdir") \in x \ D
        /\ \A i \in 1 .. 2 : <<"procfile", i>> \in x \ {}
        /\ 2 \in Nat /\ ~("cdev" \in K /\ "buffers" \in K)
        /\ \A r \in x : r \in D \cup C
    BY InKind DEF R
  <2>4. Frees(K, R("procdir"), x, D) /\ ExitPart(Each("held", "procfile", 2), D, K, x, {})
    <3> HIDE DEF K, x
    <3>1. Frees(K, <<"procdir", 0>>, x, D)
      <4>1. <<"procdir", 0>> \in x \ D
        BY <2>3
      <4> HIDE DEF D
      <4> QED
        BY <4>1, LooseFrees
    <3>2. ExitPart(Each("held", "procfile", 2), D, K, x, {})
      BY <2>3, FreesEach
    <3> QED
      BY <2>3, <3>1, <3>2
  <2> HIDE DEF m, K, x
  <2>5. InitPart(s, C, K, {}) /\ ExitPart(e, C, K, x, D)
    BY <2>2, <2>4, InitOne, ExitOne
  <2>6. InitPart(Each("any", "procfile", 2), D, K, C)
    BY <2>2, <2>3, InitEach DEF OfKind
  <2> HIDE DEF C, D, s, e
  <2>7. Sound(m)
    BY <2>1, <2>3, <2>4, <2>5, <2>6, SoundByTwo DEF x
  <2> QED
    BY <2>7 DEF m
<1> QED
  BY <1>1, <1>2

LEMMA MatchByName == ASSUME NEW m, NEW x, NEW y, Names(m.init, x), Names(m.exit, y), x \subseteq y
                     PROVE  IsTable(m) /\ GivesAllBack(m)
<1>1. \A i \in DOMAIN m.init : \E j \in DOMAIN m.exit : m.exit[j][2] = m.init[i][2]
  BY DEF Names, Named
<1> QED
  BY <1>1 DEF Names, IsTable, GivesAllBack

LEMMA CharacterDrivers ==
  /\ IsTable(lab_character_driver) /\ GivesAllBack(lab_character_driver)
  /\ IsTable(drv_exercice03) /\ GivesAllBack(drv_exercice03)
<1> DEFINE Base == {R("chrdev"), R("cdev")}
<1>1. Names(Chrdev, Base) /\ Names(NoChrdev, Base)
  <2>1. Names(Chrdev, {R("chrdev"), R("cdev")})
    BY NamesTwo DEF Chrdev
  <2>2. Names(NoChrdev, {R("cdev"), R("chrdev")})
    BY NamesTwo DEF NoChrdev
  <2>3. {R("cdev"), R("chrdev")} = {R("chrdev"), R("cdev")}
    OBVIOUS
  <2> QED
    BY <2>1, <2>2, <2>3
<1>2. \A h, r : Names(<<<<h, r>>>>, {r})
  BY NamesOne
<1> HIDE DEF Base
<1>3. /\ Names(drv_exercice03.init, Base \cup {R("buffers")})
      /\ Names(drv_exercice03.exit, Base \cup {R("buffers")})
  BY <1>1, <1>2, NamesConcat DEF drv_exercice03
<1>4. /\ Names(lab_character_driver.init, {R("chrdev"), R("cdev"), R("buffers")})
      /\ Names(lab_character_driver.exit, {R("cdev"), R("chrdev"), R("buffers")})
  BY NamesThree DEF lab_character_driver
<1>5. {R("chrdev"), R("cdev"), R("buffers")} \subseteq {R("cdev"), R("chrdev"), R("buffers")}
  OBVIOUS
<1> QED
  BY <1>3, <1>4, <1>5, MatchByName

Three(s, x, y, z) == /\ IsList(s) /\ Len(s) = 3
                     /\ s[1][2] = x /\ s[2][2] = y /\ s[3][2] = z

(* The character device of the lab and of exercice03 finds its buffers     *)
(* from the end of init to the beginning of exit.                          *)
LEMMA OrderedCharacter ==
  ASSUME NEW m, IsTable(m), NoPuts(m), Len(m.init) = 3, Len(m.exit) = 3,
         m.init[1][2] = R("chrdev"), m.init[2][2] = R("cdev"), m.init[3][2] = R("buffers"),
         m.exit[1][2] = R("cdev"), m.exit[2][2] = R("chrdev"), m.exit[3][2] = R("buffers")
  PROVE  InOrder(m)
<1> DEFINE Own == {R("chrdev"), R("cdev"), R("buffers")}
<1>0. /\ R("chrdev") # R("cdev") /\ R("chrdev") # R("buffers") /\ R("cdev") # R("buffers")
      /\ DOMAIN m.init = 1 .. 3 /\ DOMAIN m.exit = 1 .. 3
      /\ R("chrdev")[1] # "cdev" /\ R("buffers")[1] # "cdev"
  BY DEF R, IsTable, IsList
<1>1. \A r \in Own : TakenBefore(m, r, 4)
  BY <1>0, TakenOnce
<1>2. /\ R("buffers") \in Bases(ToServe, R("cdev"))
      /\ ~Needs(m, ToServe, R("chrdev")) /\ ~Needs(m, ToServe, R("buffers"))
      /\ \A r \in Own : ~Needs(m, ToAcquire, r) /\ ~Needs(m, ToRemove, r)
  BY DEF Bases, Needs, R, ToAcquire, ToRemove, ToServe
<1>3. TakesInOrder(m)
  BY <1>0, <1>2, AskedAfterTaking DEF TakesInOrder
<1>4. ServesWithData(m)
  <2> SUFFICES ASSUME NEW k \in 1 .. Len(m.init) + 1, NEW r \in Named(m.init),
                      Needs(m, ToServe, r), r[1] = "cdev" => k = Len(m.init) + 1
               PROVE  \E q \in Bases(ToServe, r) : TakenBefore(m, q, k)
    BY DEF ServesWithData
  <2>1. r = R("cdev")
    BY <1>0, <1>2 DEF Named
  <2>2. k = 4
    BY <2>1 DEF R
  <2> QED
    BY <1>1, <1>2, <2>1, <2>2
<1>5. /\ LeftBefore(m, R("cdev"), 1) /\ LeftBefore(m, R("chrdev"), 2)
      /\ LeftBefore(m, R("buffers"), 3)
  BY <1>0, <1>1 DEF LeftBefore
<1>6. GivesInOrder(m)
  BY <1>0, <1>2, <1>5 DEF GivesInOrder
<1> QED
  BY <1>3, <1>4, <1>6 DEF InOrder

LEMMA CharacterInOrder == InOrder(lab_character_driver) /\ InOrder(drv_exercice03)
<1>1. /\ Three(lab_character_driver.init, R("chrdev"), R("cdev"), R("buffers"))
      /\ Three(lab_character_driver.exit, R("cdev"), R("chrdev"), R("buffers"))
      /\ lab_character_driver.init[1][1] = "must" /\ lab_character_driver.init[2][1] = "must"
      /\ lab_character_driver.init[3][1] = "any"
  BY DEF lab_character_driver, Three, IsList
<1>2. /\ Three(drv_exercice03.init, R("chrdev"), R("cdev"), R("buffers"))
      /\ drv_exercice03.init[1][1] = "chain" /\ drv_exercice03.init[2][1] = "chain"
      /\ drv_exercice03.init[3][1] = "after"
  BY DEF drv_exercice03, Chrdev, Three, IsList
<1>3. Three(drv_exercice03.exit, R("cdev"), R("chrdev"), R("buffers"))
  BY DEF drv_exercice03, NoChrdev, Three, IsList
<1>4. \A m : Three(m.init, R("chrdev"), R("cdev"), R("buffers"))
                => DOMAIN m.init = 1 .. 3 /\ IsList(m.init)
  BY DEF Three, IsList
<1>5. NoPuts(lab_character_driver) /\ NoPuts(drv_exercice03)
  BY <1>1, <1>2, <1>4 DEF NoPuts
<1> QED
  BY <1>1, <1>2, <1>3, <1>5, OrderedCharacter DEF Three, IsTable

(* Init may put back itself what it needed in between.                     *)
LEMMA PutInBetween ==
  ASSUME NEW m, NEW s, NEW h, NEW k, NEW n \in Nat, NEW x, NEW y, Names(s, x), Names(m.exit, y),
         m.init = s \o Each(h, k, n) \o Each("put", k, n), x \subseteq y
  PROVE  IsTable(m) /\ GivesAllBack(m)
<1>1. PICK t, p, u : /\ t = Each(h, k, n) /\ p = Each("put", k, n)
                     /\ u = s \o t /\ m.init = u \o p
  OBVIOUS
<1>2. /\ IsList(t) /\ Len(t) = n /\ \A i \in 1 .. n : t[i][2] = <<k, i>>
      /\ IsList(p) /\ Len(p) = n /\ \A i \in 1 .. n : p[i][1] = "put" /\ p[i][2] = <<k, i>>
      /\ IsList(s) /\ Len(s) \in Nat /\ IsList(m.exit)
  BY <1>1 DEF Each, Names, IsList
<1>3. /\ IsList(u) /\ Len(u) = Len(s) + n
      /\ \A i \in 1 .. Len(s) : u[i] = s[i]
      /\ \A i \in 1 .. n : u[Len(s) + i] = t[i]
  <2>1. IsJoin(s \o t, s, t)
    BY <1>2, JoinElements
  <2> QED
    BY <1>1, <1>2, <2>1 DEF IsJoin
<1>4. /\ IsList(m.init) /\ Len(m.init) = Len(s) + n + n
      /\ \A i \in 1 .. Len(s) + n : m.init[i] = u[i]
      /\ \A i \in 1 .. n : m.init[Len(s) + n + i] = p[i]
  <2>1. IsJoin(m.init, u, p)
    BY <1>1, <1>2, <1>3, JoinElements
  <2>2. /\ IsList(m.init) /\ Len(m.init) = Len(u) + Len(p)
        /\ \A i \in 1 .. Len(u) : m.init[i] = u[i]
        /\ \A i \in 1 .. Len(p) : m.init[Len(u) + i] = p[i]
    BY <2>1 DEF IsJoin
  <2> QED
    BY <1>2, <1>3, <2>2
<1>5. ASSUME NEW i \in DOMAIN m.init, m.init[i][1] # "put"
      PROVE  \/ \E j \in DOMAIN m.init : i < j /\ IsPut(m, j, m.init[i][2])
             \/ \E j \in DOMAIN m.exit : m.exit[j][2] = m.init[i][2]
  <2>1. i \in 1 .. Len(s) + n + n /\ DOMAIN m.init = 1 .. Len(s) + n + n
    BY <1>4 DEF IsList
  <2>2. CASE i <= Len(s)
    <3>1. i \in 1 .. Len(s) /\ i \in 1 .. Len(s) + n
      BY <1>2, <2>1, <2>2
    <3>2. m.init[i] = s[i] /\ s[i][2] \in x
      BY <1>3, <1>4, <3>1 DEF Names, Named, IsList
    <3> QED
      BY <3>2 DEF Names, Named
  <2>3. CASE Len(s) < i /\ i <= Len(s) + n
    <3> DEFINE j == i - Len(s)
               l == Len(s) + n + j
    <3>1. j \in 1 .. n /\ Len(s) + j = i /\ i \in 1 .. Len(s) + n
      BY <1>2, <2>1, <2>3
    <3>2. l \in 1 .. Len(s) + n + n /\ i < l
      BY <1>2, <2>1, <2>3
    <3> HIDE DEF j
    <3>3. m.init[i] = t[j] /\ m.init[l] = p[j]
      BY <1>3, <1>4, <3>1
    <3> HIDE DEF l
    <3>4. IsPut(m, l, m.init[i][2])
      BY <1>2, <3>1, <3>3 DEF IsPut
    <3> QED
      BY <2>1, <3>2, <3>4
  <2>4. CASE Len(s) + n < i
    <3> DEFINE j == i - (Len(s) + n)
    <3>1. j \in 1 .. n /\ Len(s) + n + j = i
      BY <1>2, <2>1, <2>4
    <3> HIDE DEF j
    <3> QED
      BY <1>2, <1>4, <1>5, <3>1
  <2> QED
    BY <1>2, <2>1, <2>2, <2>3, <2>4
<1> QED
  BY <1>2, <1>4, <1>5 DEF IsTable, GivesAllBack

LEMMA MappedMemory ==
  /\ IsTable(lab_io_memory_mapped) /\ GivesAllBack(lab_io_memory_mapped)
  /\ IsTable(sol_io_memory) /\ GivesAllBack(sol_io_memory)
<1>1. /\ \A h : Names(Each(h, "region", 3), {<<"region", i>> : i \in 1 .. 3})
      /\ \A h : Names(<<<<h, <<"region", 1>>>>>>, {<<"region", 1>>})
  BY NamesEach, NamesOne
<1>2. /\ lab_io_memory_mapped.init
            = Each("any", "region", 3) \o Each("must", "map", 3) \o Each("put", "map", 3)
      /\ lab_io_memory_mapped.exit = Each("held", "region", 3)
      /\ sol_io_memory.init
            = <<<<"any", <<"region", 1>>>>>> \o Each("noted", "map", 3) \o Each("put", "map", 3)
      /\ sol_io_memory.exit = <<<<"held", <<"region", 1>>>>>>
  BY DEF lab_io_memory_mapped, sol_io_memory, Skeleton
<1>3. 3 \in Nat
  OBVIOUS
<1>4. IsTable(lab_io_memory_mapped) /\ GivesAllBack(lab_io_memory_mapped)
  <2>1. /\ Names(Each("any", "region", 3), {<<"region", i>> : i \in 1 .. 3})
        /\ Names(lab_io_memory_mapped.exit, {<<"region", i>> : i \in 1 .. 3})
    BY <1>1, <1>2
  <2> QED
    BY <1>2, <1>3, <2>1, PutInBetween, Zenon
<1>5. IsTable(sol_io_memory) /\ GivesAllBack(sol_io_memory)
  <2>1. /\ Names(<<<<"any", <<"region", 1>>>>>>, {<<"region", 1>>})
        /\ Names(sol_io_memory.exit, {<<"region", 1>>})
    BY <1>1, <1>2
  <2> QED
    BY <1>2, <1>3, <2>1, PutInBetween, Zenon
<1> QED
  BY <1>4, <1>5

(* Regions and mappings: nothing hangs on them, and exit asks what is      *)
(* there.                                                                  *)
LEMMA MappedInOrder == InOrder(lab_io_memory_mapped) /\ InOrder(sol_io_memory)
<1> DEFINE Kinds == {"region", "map"}
           Heads == {"any", "must", "noted", "put"}
           Fit(s) == IsList(s) /\ \A k \in DOMAIN s : s[k][1] \in Heads /\ s[k][2][1] \in Kinds
<1>1. ASSUME NEW s, NEW t, Fit(s), Fit(t) PROVE Fit(s \o t)
  <2> DEFINE c == s \o t
  <2>1. /\ IsList(c)
        /\ \A k \in DOMAIN s : k \in DOMAIN c /\ c[k] = s[k]
        /\ \A k \in DOMAIN c : k \in DOMAIN s \/ (k - Len(s) \in DOMAIN t /\ c[k] = t[k - Len(s)])
    <3>1. IsList(s) /\ IsList(t)
      BY <1>1
    <3> HIDE DEF Fit, Heads, Kinds
    <3> QED
      BY <3>1, InJoin
  <2> HIDE DEF c, Heads, Kinds
  <2>2. ASSUME NEW k \in DOMAIN c PROVE c[k][1] \in Heads /\ c[k][2][1] \in Kinds
    BY <1>1, <2>1
  <2>3. Fit(c)
    BY <2>1, <2>2
  <2> QED
    BY <2>3 DEF c
<1>2. ASSUME NEW h \in Heads, NEW k \in Kinds, NEW n \in Nat PROVE Fit(Each(h, k, n))
  BY DEF Each, IsList
<1>3. Fit(<<<<"any", <<"region", 1>>>>>>)
  BY DEF IsList
<1>4. /\ lab_io_memory_mapped.init
            = Each("any", "region", 3) \o Each("must", "map", 3) \o Each("put", "map", 3)
      /\ lab_io_memory_mapped.exit = Each("held", "region", 3)
      /\ sol_io_memory.init
            = <<<<"any", <<"region", 1>>>>>> \o Each("noted", "map", 3) \o Each("put", "map", 3)
      /\ sol_io_memory.exit = <<<<"held", <<"region", 1>>>>>>
  BY DEF lab_io_memory_mapped, sol_io_memory, Skeleton
<1>5. /\ Fit(Each("any", "region", 3)) /\ Fit(Each("must", "map", 3))
      /\ Fit(Each("noted", "map", 3)) /\ Fit(Each("put", "map", 3))
  <2>1. /\ "any" \in Heads /\ "must" \in Heads /\ "noted" \in Heads /\ "put" \in Heads
        /\ "region" \in Kinds /\ "map" \in Kinds /\ 3 \in Nat
    OBVIOUS
  <2> HIDE DEF Heads, Kinds, Fit
  <2> QED
    BY <1>2, <2>1
<1>6. Fit(lab_io_memory_mapped.init) /\ Fit(sol_io_memory.init)
  <2> HIDE DEF Fit
  <2>1. Fit(Each("any", "region", 3) \o Each("must", "map", 3))
    BY <1>1, <1>5
  <2>2. Fit(<<<<"any", <<"region", 1>>>>>> \o Each("noted", "map", 3))
    BY <1>1, <1>3, <1>5
  <2>3. /\ Fit(Each("any", "region", 3) \o Each("must", "map", 3) \o Each("put", "map", 3))
        /\ Fit(<<<<"any", <<"region", 1>>>>>> \o Each("noted", "map", 3) \o Each("put", "map", 3))
    BY <1>1, <1>5, <2>1, <2>2
  <2> QED
    BY <1>4, <2>3
<1>7. /\ \A k \in DOMAIN lab_io_memory_mapped.exit :
            /\ lab_io_memory_mapped.exit[k][1] = "held"
            /\ lab_io_memory_mapped.exit[k][2][1] = "region"
      /\ \A k \in DOMAIN sol_io_memory.exit :
            sol_io_memory.exit[k][1] = "held" /\ sol_io_memory.exit[k][2][1] = "region"
  BY <1>4 DEF Each
<1>8. ASSUME NEW m, Fit(m.init),
             \A k \in DOMAIN m.exit : m.exit[k][1] = "held" /\ m.exit[k][2][1] = "region"
      PROVE  InOrder(m)
  <2>1. ASSUME NEW r, r[1] \in Kinds
        PROVE  ~Needs(m, ToAcquire, r) /\ ~Needs(m, ToServe, r) /\ ~Needs(m, ToRemove, r)
    BY <2>1 DEF Needs, ToAcquire, ToServe, ToRemove
  <2>2. \A k \in DOMAIN m.init : m.init[k][1] # "after" /\ m.init[k][2][1] \in Kinds
    BY <1>8
  <2>3. \A k \in DOMAIN m.exit : m.exit[k][1] # "always" /\ m.exit[k][2][1] \in Kinds
    BY <1>8
  <2> HIDE DEF Kinds
  <2> QED
    BY <2>1, <2>2, <2>3 DEF InOrder, TakesInOrder, ServesWithData, GivesInOrder, Named
<1> HIDE DEF Fit
<1> QED
  BY <1>6, <1>7, <1>8

LEMMA BuffersSound == /\ Sound(lab_character_driver) /\ Sound(drv_exercice03)
                      /\ Sound(lab_io_memory_mapped) /\ Sound(sol_io_memory)
  BY CharacterDrivers, CharacterInOrder, MappedMemory, MappedInOrder DEF Sound

(* The kernel modules of the lab and of the solutions, but the two that    *)
(* leave something behind and the two that free a line before the          *)
(* interrupt on it: those that make a fixed number of calls, and    *)
(* those that loop over any number of elements, children or instances.     *)
FixedModules ==
  {lab_dynamic_allocation(1), lab_io_memory_mapped, lab_thread, lab_sleeping,
   lab_character_driver, lab_sysfs, sol_io_memory, sol_thread, sol_sleeping, drv_exercice02, drv_exercice03, drv_exercice05,
   driver_exercice06, drv_exercice06, driver_exercice06_1, driver_sample06_3,
   drv_sample06_3(1), drv_exercice07, drv_exercice08, drv_exercice09, drv_exercice10,
   driver_dts, drv_dts, drv_sample05}
LoopingModules == {sol_elements(n) : n \in Nat} \cup {drv_exercice06_1(n) : n \in Nat}
                  \cup {drv_sample06_2(n) : n \in Nat} \cup {drv_sample05_1(n) : n \in Nat}

SoundModules == FixedModules \cup LoopingModules

LEMMA AllSound == ASSUME NEW m \in SoundModules PROVE Sound(m)
<1>1. CASE m \in FixedModules
  BY <1>1, OneElementSound, BuffersSound, OneCallEach, LoopsOfOneCall,
     SysfsSound, ReversedLoop, CharacterDevices, MiscWithData, OneChild, WithLists
     DEF FixedModules
<1>2. CASE m \in LoopingModules
  BY <1>2, LoopsOfOneCall, ListOfChildren, Sample06_2, Sample05_1 DEF LoopingModules
<1> QED
  BY <1>1, <1>2 DEF SoundModules

(* None of them leaves anything behind when it is unloaded and no call of  *)
(* its own failed, with any number of elements, children and instances     *)
(* (drivers' init and exit functions, 02_modules, 03_drivers and the lab). *)
THEOREM ModulesLeaveNothing ==
  ASSUME Modules \subseteq SoundModules PROVE DrvSpec => []CleanAfterUnload
<1>1. \A m \in Modules : IsTable(m) /\ GivesAllBack(m)
  BY AllSound DEF Sound
<1> QED
  BY <1>1, TablesMatch

(* And each is used in order until a call of its own fails: nothing is     *)
(* taken before what it hangs on, given back twice or too early, and who   *)
(* opens a device finds its data (open and probe of the drivers, e.g.      *)
(* 03_drivers/exercice06.1/skeleton.c), whenever that happens.             *)
THEOREM ModulesAreUsedInOrder ==
  ASSUME Modules \subseteq SoundModules PROVE DrvSpec => []MisusedOnlyAfterFailure
<1>1. \A m \in Modules : IsTable(m) /\ GivesAllBack(m) /\ InOrder(m)
  BY AllSound DEF Sound
<1> QED
  BY <1>1, ListsInOrder
=============================================================================
