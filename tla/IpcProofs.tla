------------------------------ MODULE IpcProofs ------------------------------
(***************************************************************************)
(* Theorems about IpcServer, for any number of daemons, clients, starts    *)
(* and requests, and any capacity of the sockets.                          *)
(***************************************************************************)
EXTENDS IpcServer, SequenceTheorems, TLAPS

Places == {"off", "unlink", "bind", "create", "recvfrom", "process_message"}
Bound(d) == server[d] \in {"create", "recvfrom", "process_message"}

(* The file leads to a socket that its daemon has bound, or to that of a   *)
(* daemon that is gone; while daemons run and none was lost since the last *)
(* bind, it leads somewhere or somebody is about to bind.                  *)
FileInv ==
  /\ server \in [Daemons -> Places]
  /\ socket_path \in Daemons \cup {Orphan, Absent}
  /\ \A d \in Daemons : socket_path = d => Bound(d)
  /\ socket_path = Orphan => mishap
  /\ ~mishap /\ (\E d \in Daemons : Bound(d))
       => socket_path \in Daemons \/ \E d \in Daemons : server[d] = "bind"

LEMMA FileInvInit == IpcInit => FileInv
<1> SUFFICES ASSUME IpcInit PROVE FileInv
  OBVIOUS
<1>1. \A d \in Daemons : ~Bound(d) /\ socket_path # d
  BY IpcAssumption DEF IpcInit, Bound
<1>2. server \in [Daemons -> Places] /\ socket_path = Absent /\ socket_path # Orphan
  BY IpcAssumption DEF IpcInit, Places
<1> QED
  BY <1>1, <1>2, IpcAssumption DEF FileInv

LEMMA FileInvNext == FileInv /\ [IpcNext]_ipcVars => FileInv'
<1> SUFFICES ASSUME FileInv, [IpcNext]_ipcVars PROVE FileInv'
  OBVIOUS
<1> USE IpcAssumption DEF FileInv, Bound, Places, Goto
<1>1. ASSUME NEW r \in Requests, Client(r) PROVE FileInv'
  BY <1>1 DEF Client
<1>2. ASSUME NEW d \in Daemons, Start(d) PROVE FileInv'
  <2>1. server' = [server EXCEPT ![d] = "unlink"] /\ server[d] = "off"
        /\ UNCHANGED <<socket_path, mishap>>
    BY <1>2 DEF Start
  <2>2. \A e \in Daemons : /\ Bound(e)' <=> Bound(e)
                           /\ server[e] = "bind" => server'[e] = "bind"
    BY <2>1
  <2> QED
    BY <2>1, <2>2
<1>3. ASSUME NEW d \in Daemons, Killed(d) PROVE FileInv'
  BY <1>3 DEF Killed, Ends
<1>4. ASSUME NEW d \in Daemons, Unlink(d) PROVE FileInv'
  BY <1>4 DEF Unlink
<1>5. ASSUME NEW d \in Daemons, Bind(d) PROVE FileInv'
  BY <1>5 DEF Bind
<1>6. ASSUME NEW d \in Daemons, BindFails(d) PROVE FileInv'
  BY <1>6 DEF BindFails, Ends
<1>7. ASSUME NEW d \in Daemons, CreateThread(d) PROVE FileInv'
  BY <1>7 DEF CreateThread
<1>8. ASSUME NEW d \in Daemons, CreateFails(d) PROVE FileInv'
  BY <1>8 DEF CreateFails, Ends
<1>9. ASSUME NEW d \in Daemons, Receive(d) PROVE FileInv'
  BY <1>9 DEF Receive
<1>10. ASSUME NEW d \in Daemons, ProcessMessage(d) PROVE FileInv'
  BY <1>10 DEF ProcessMessage
<1>11. CASE UNCHANGED ipcVars
  BY <1>11 DEF ipcVars
<1> QED
  BY <1>1, <1>2, <1>3, <1>4, <1>5, <1>6, <1>7, <1>8, <1>9, <1>10, <1>11
     DEF IpcNext, start_ipc_server, ipc_thread_func

(* However many daemons start and whoever unlinks whose file: once all is  *)
(* settled, a client reaches a daemon that runs, unless one was lost since *)
(* the last bind (ipc_server.c:119-126).                                   *)
THEOREM Reachable == IpcSpec => []ReachableWhenSettled
<1>1. FileInv => ReachableWhenSettled
  BY DEF FileInv, Bound, Places, ReachableWhenSettled, Running, IsStarting
<1> QED
  BY <1>1, FileInvInit, FileInvNext, PTL DEF IpcSpec
-----------------------------------------------------------------------------
(* What clients are called with: a value that atoi can return and, as the  *)
(* client does not refuse a period below zero, none of those.              *)
RequestsInRange == \A r \in Requests : /\ 1 - WordMod < r.value /\ r.value < WordMod
                                       /\ r.word = "period" => r.value >= 0

Commands == {"CMD_SET_MODE", "CMD_SET_PERIOD", "CMD_INC_PERIOD", "CMD_DEC_PERIOD"}
Messages == [command : Commands, value : Int]
Callbacks == {"set_mode", "set_period", "increase_period", "decrease_period"} \X Int

LEMMA RemainderInRange == ASSUME NEW v \in Int
                          PROVE  /\ v % WordMod \in 0 .. WordMod - 1
                                 /\ 0 <= v /\ v < WordMod => v % WordMod = v
                                 /\ v < 0 /\ 1 - WordMod < v => v % WordMod = v + WordMod
<1>1. WordMod \in Int /\ WordMod > 1
  BY IpcAssumption
<1> QED
  BY <1>1, SMT

LEMMA ZeroMod == 0 % WordMod = 0
  BY RemainderInRange, IpcAssumption

(* The client's table and the server's undo each other.                    *)
LEMMA RoutedAsMeant == ASSUME RequestsInRange, NEW r \in Requests, process_arguments(r)
                       PROVE  /\ ToMessage(r) \in Messages
                              /\ Routed(ToMessage(r)) = Meaning(r)
<1>1. r.word \in {"mode", "period", "inc", "dec"} /\ r.value \in Int
  BY IpcAssumption
<1>2. r.value % WordMod \in Int /\ 0 % WordMod = 0
  BY <1>1, RemainderInRange, ZeroMod
<1>3. CASE r.word = "mode"
  <2>1. ToMessage(r) = [command |-> "CMD_SET_MODE", value |-> r.value % WordMod]
    BY <1>3 DEF ToMessage, Message
  <2>2. r.value % WordMod \in {0, 1}
    BY <1>3, <2>1 DEF process_arguments
  <2>3. r.value % WordMod = r.value
    BY <1>1, <2>2, RemainderInRange, IpcAssumption DEF RequestsInRange
  <2> QED
    BY <1>2, <1>3, <2>1, <2>3 DEF Routed, Meaning, Messages, Commands
<1>4. CASE r.word = "period"
  <2>1. ToMessage(r) = [command |-> "CMD_SET_PERIOD", value |-> r.value % WordMod]
    BY <1>4 DEF ToMessage, Message
  <2>2. r.value % WordMod = r.value
    BY <1>1, <1>4, RemainderInRange DEF RequestsInRange
  <2> QED
    BY <1>2, <1>4, <2>1, <2>2 DEF Routed, Meaning, Messages, Commands
<1>5. CASE r.word = "inc"
  <2>1. ToMessage(r) = [command |-> "CMD_DEC_PERIOD", value |-> 0]
    BY <1>2, <1>5 DEF ToMessage, Message
  <2> QED
    BY <1>5, <2>1 DEF Routed, Meaning, Messages, Commands
<1>6. CASE r.word = "dec"
  <2>1. ToMessage(r) = [command |-> "CMD_INC_PERIOD", value |-> 0]
    BY <1>2, <1>6 DEF ToMessage, Message
  <2> QED
    BY <1>6, <2>1 DEF Routed, Meaning, Messages, Commands
<1> QED
  BY <1>1, <1>3, <1>4, <1>5, <1>6

LEMMA RoutedType == ASSUME NEW m \in Messages PROVE Routed(m) \in Callbacks
  BY DEF Messages, Commands, Routed, Callbacks

LEMMA MeaningType == ASSUME NEW r \in Requests PROVE Meaning(r) \in Callbacks
<1>1. r.word \in {"mode", "period", "inc", "dec"} /\ r.value \in Int
  BY IpcAssumption
<1> QED
  BY <1>1 DEF Meaning, Callbacks
-----------------------------------------------------------------------------
(* The history a of what a socket took is split into what was called (c),  *)
(* what is being processed (m) and what waits (q).                         *)
Flows(a, c, m, q) ==
  /\ a \in Seq(Requests) /\ c \in Seq(Callbacks) /\ m \in Seq(Messages) /\ q \in Seq(Messages)
  /\ Len(c) + Len(m) + Len(q) = Len(a)
  /\ \A i \in 1 .. Len(c) : c[i] = Meaning(a[i])
  /\ \A i \in 1 .. Len(m) : Routed(m[i]) = Meaning(a[Len(c) + i])
  /\ \A i \in 1 .. Len(q) : Routed(q[i]) = Meaning(a[Len(c) + Len(m) + i])

LEMMA FlowsEmpty == Flows(<<>>, <<>>, <<>>, <<>>)
  BY EmptySeq DEF Flows

LEMMA FlowsAsk ==
  ASSUME NEW a, NEW c, NEW m, NEW q, Flows(a, c, m, q),
         NEW r \in Requests, NEW p \in Messages, Routed(p) = Meaning(r)
  PROVE  Flows(Append(a, r), c, m, Append(q, p))
<1> DEFINE b == Append(a, r)
           k == Append(q, p)
<1>1. /\ b \in Seq(Requests) /\ Len(b) = Len(a) + 1 /\ b[Len(a) + 1] = r
      /\ \A i \in 1 .. Len(a) : b[i] = a[i]
  BY AppendProperties DEF Flows
<1>2. /\ k \in Seq(Messages) /\ Len(k) = Len(q) + 1 /\ k[Len(q) + 1] = p
      /\ \A i \in 1 .. Len(q) : k[i] = q[i]
  BY AppendProperties DEF Flows
<1>3. Len(a) \in Nat /\ Len(c) \in Nat /\ Len(m) \in Nat /\ Len(q) \in Nat
  BY LenProperties DEF Flows
<1> HIDE DEF b, k
<1>0. Len(c) + Len(m) + Len(q) = Len(a)
  BY DEF Flows
<1>4. ASSUME NEW i \in 1 .. Len(c) PROVE c[i] = Meaning(b[i])
  <2>1. c[i] = Meaning(a[i])
    BY DEF Flows
  <2>2. i \in 1 .. Len(a)
    BY <1>0, <1>3
  <2> QED
    BY <1>1, <2>1, <2>2
<1>5. ASSUME NEW i \in 1 .. Len(m) PROVE Routed(m[i]) = Meaning(b[Len(c) + i])
  <2>1. Routed(m[i]) = Meaning(a[Len(c) + i])
    BY DEF Flows
  <2>2. Len(c) + i \in 1 .. Len(a)
    BY <1>0, <1>3
  <2> QED
    BY <1>1, <2>1, <2>2
<1>6. ASSUME NEW i \in 1 .. Len(k) PROVE Routed(k[i]) = Meaning(b[Len(c) + Len(m) + i])
  <2>1. CASE i = Len(q) + 1
    <3>1. Len(c) + Len(m) + i = Len(a) + 1
      BY <1>0, <1>3, <2>1
    <3> QED
      BY <1>1, <1>2, <2>1, <3>1
  <2>2. CASE i \in 1 .. Len(q)
    <3>1. Routed(q[i]) = Meaning(a[Len(c) + Len(m) + i])
      BY <2>2 DEF Flows
    <3>2. Len(c) + Len(m) + i \in 1 .. Len(a)
      BY <1>0, <1>3, <2>2
    <3> QED
      BY <1>1, <1>2, <2>2, <3>1, <3>2
  <2> QED
    BY <1>2, <1>3, <2>1, <2>2
<1>7. Len(c) + Len(m) + Len(k) = Len(b)
  BY <1>0, <1>1, <1>2, <1>3
<1>8. c \in Seq(Callbacks) /\ m \in Seq(Messages)
  BY DEF Flows
<1>9. Flows(b, c, m, k)
  BY <1>1, <1>2, <1>4, <1>5, <1>6, <1>7, <1>8 DEF Flows
<1> QED
  BY <1>9 DEF b, k

LEMMA FlowsReceive ==
  ASSUME NEW a, NEW c, NEW q, Flows(a, c, <<>>, q), q # <<>>
  PROVE  Flows(a, c, <<Head(q)>>, Tail(q))
<1> DEFINE t == Tail(q)
           n == <<Head(q)>>
<1>1. /\ t \in Seq(Messages) /\ Len(t) = Len(q) - 1
      /\ \A i \in 1 .. Len(t) : t[i] = q[i + 1]
  BY HeadTailProperties DEF Flows
<1>2. n \in Seq(Messages) /\ Len(n) = 1 /\ n[1] = q[1]
  <2>1. Head(q) = q[1] /\ Head(q) \in Messages
    BY HeadTailProperties DEF Flows
  <2> QED
    BY <2>1
<1>3. Len(a) \in Nat /\ Len(c) \in Nat /\ Len(q) \in Nat /\ Len(q) > 0 /\ Len(<<>>) = 0
  BY LenProperties, EmptySeq DEF Flows
<1> HIDE DEF t, n
<1>4. Routed(n[1]) = Meaning(a[Len(c) + 1])
  BY <1>2, <1>3 DEF Flows
<1>5. \A i \in 1 .. Len(t) : Routed(t[i]) = Meaning(a[Len(c) + Len(n) + i])
  <2> SUFFICES ASSUME NEW i \in 1 .. Len(t)
               PROVE  Routed(t[i]) = Meaning(a[Len(c) + Len(n) + i])
    OBVIOUS
  <2>1. t[i] = q[i + 1] /\ i + 1 \in 1 .. Len(q)
    BY <1>1, <1>3
  <2>2. Routed(q[i + 1]) = Meaning(a[Len(c) + Len(<<>>) + (i + 1)])
    BY <2>1 DEF Flows
  <2>3. Len(c) + Len(<<>>) + (i + 1) = Len(c) + Len(n) + i
    BY <1>1, <1>2, <1>3
  <2> QED
    BY <2>1, <2>2, <2>3
<1> QED
  BY <1>1, <1>2, <1>3, <1>4, <1>5 DEF Flows, t, n

LEMMA FlowsProcess ==
  ASSUME NEW a, NEW c, NEW m, NEW q, Flows(a, c, m, q), Len(m) = 1
  PROVE  Flows(a, Append(c, Routed(m[1])), <<>>, q)
<1> DEFINE e == Append(c, Routed(m[1]))
<1>1. Len(a) \in Nat /\ Len(c) \in Nat /\ Len(q) \in Nat /\ Len(<<>>) = 0
      /\ <<>> \in Seq(Messages)
  BY LenProperties, EmptySeq DEF Flows
<1>2. m[1] \in Messages /\ Routed(m[1]) \in Callbacks
  <2>1. m \in Seq(Messages) /\ 1 \in 1 .. Len(m)
    BY DEF Flows
  <2>2. m[1] \in Messages
    BY <2>1, ElementOfSeq
  <2> QED
    BY <2>2, RoutedType
<1>3. /\ e \in Seq(Callbacks) /\ Len(e) = Len(c) + 1 /\ e[Len(c) + 1] = Routed(m[1])
      /\ \A i \in 1 .. Len(c) : e[i] = c[i]
  BY <1>2, AppendProperties DEF Flows
<1> HIDE DEF e
<1>0. Len(c) + 1 + Len(q) = Len(a)
  BY DEF Flows
<1>4. ASSUME NEW i \in 1 .. Len(e) PROVE e[i] = Meaning(a[i])
  <2>1. CASE i = Len(c) + 1
    <3>1. Routed(m[1]) = Meaning(a[Len(c) + 1])
      BY DEF Flows
    <3> QED
      BY <1>3, <2>1, <3>1
  <2>2. CASE i \in 1 .. Len(c)
    <3>1. c[i] = Meaning(a[i])
      BY <2>2 DEF Flows
    <3> QED
      BY <1>3, <2>2, <3>1
  <2> QED
    BY <1>1, <1>3, <2>1, <2>2
<1>5. ASSUME NEW i \in 1 .. Len(q) PROVE Routed(q[i]) = Meaning(a[Len(e) + Len(<<>>) + i])
  <2>1. Routed(q[i]) = Meaning(a[Len(c) + Len(m) + i])
    BY DEF Flows
  <2>2. Len(c) + Len(m) + i = Len(e) + Len(<<>>) + i
    BY <1>1, <1>3
  <2> QED
    BY <2>1, <2>2
<1>6. Len(e) + Len(<<>>) + Len(q) = Len(a) /\ a \in Seq(Requests) /\ q \in Seq(Messages)
  BY <1>0, <1>1, <1>3 DEF Flows
<1>7. \A i \in 1 .. Len(<<>>) : Routed(<<>>[i]) = Meaning(a[Len(e) + i])
  BY <1>1
<1>8. Flows(a, e, <<>>, q)
  BY <1>1, <1>3, <1>4, <1>5, <1>6, <1>7 DEF Flows
<1> QED
  BY <1>8 DEF e

(* Such a split is what the property asks for.                             *)
AllRouted(s) == [i \in DOMAIN s |-> Routed(s[i])]
AllMeant(s) == [i \in DOMAIN s |-> Meaning(s[i])]

Whole(c, m, q) == c \o AllRouted(m) \o AllRouted(q)

LEMMA FlowsAsAsked ==
  ASSUME NEW a, NEW c, NEW m, NEW q, Flows(a, c, m, q)
  PROVE  Whole(c, m, q) = AllMeant(a)
<1> DEFINE M == AllRouted(m)
           Q == AllRouted(q)
           A == AllMeant(a)
           L == c \o M
           R == L \o Q
<1>1. /\ Len(a) \in Nat /\ Len(c) \in Nat /\ Len(m) \in Nat /\ Len(q) \in Nat
      /\ DOMAIN a = 1 .. Len(a) /\ DOMAIN m = 1 .. Len(m) /\ DOMAIN q = 1 .. Len(q)
      /\ c \in Seq(Callbacks) /\ Len(c) + Len(m) + Len(q) = Len(a)
  BY LenProperties DEF Flows
<1>2. /\ \A i \in 1 .. Len(a) : Meaning(a[i]) \in Callbacks
      /\ \A i \in 1 .. Len(m) : Routed(m[i]) \in Callbacks
      /\ \A i \in 1 .. Len(q) : Routed(q[i]) \in Callbacks
  BY ElementOfSeq, RoutedType, MeaningType DEF Flows
<1>3. /\ M \in Seq(Callbacks) /\ Len(M) = Len(m)
      /\ Q \in Seq(Callbacks) /\ Len(Q) = Len(q)
      /\ A \in Seq(Callbacks) /\ Len(A) = Len(a)
  BY <1>1, <1>2 DEF AllRouted, AllMeant
<1>4. /\ \A i \in 1 .. Len(m) : M[i] = Routed(m[i])
      /\ \A i \in 1 .. Len(q) : Q[i] = Routed(q[i])
      /\ \A i \in 1 .. Len(a) : A[i] = Meaning(a[i])
  BY <1>1 DEF AllRouted, AllMeant
<1> HIDE DEF M, Q, A
<1>5. /\ L \in Seq(Callbacks) /\ Len(L) = Len(c) + Len(m)
      /\ \A i \in 1 .. Len(c) + Len(m) : L[i] = IF i <= Len(c) THEN c[i] ELSE M[i - Len(c)]
  <2>1. /\ c \o M \in Seq(Callbacks) /\ Len(c \o M) = Len(c) + Len(M)
        /\ \A i \in 1 .. Len(c) + Len(M) :
             (c \o M)[i] = IF i <= Len(c) THEN c[i] ELSE M[i - Len(c)]
    <3>1. c \in Seq(Callbacks) /\ M \in Seq(Callbacks)
      BY <1>1, <1>3
    <3> QED
      BY <3>1, ConcatProperties
  <2> QED
    BY <1>3, <2>1, Zenon DEF L
<1> HIDE DEF L
<1>6. /\ R \in Seq(Callbacks) /\ Len(R) = Len(a)
      /\ \A i \in 1 .. Len(a) : R[i] = IF i <= Len(L) THEN L[i] ELSE Q[i - Len(L)]
  <2>1. /\ L \o Q \in Seq(Callbacks) /\ Len(L \o Q) = Len(L) + Len(Q)
        /\ \A i \in 1 .. Len(L) + Len(Q) :
             (L \o Q)[i] = IF i <= Len(L) THEN L[i] ELSE Q[i - Len(L)]
    <3>1. L \in Seq(Callbacks) /\ Q \in Seq(Callbacks)
      BY <1>3, <1>5
    <3> QED
      BY <3>1, ConcatProperties
  <2>2. Len(L) + Len(Q) = Len(a)
    BY <1>1, <1>3, <1>5
  <2> QED
    BY <2>1, <2>2, Zenon DEF R
<1> HIDE DEF R
<1>7. ASSUME NEW i \in 1 .. Len(a) PROVE R[i] = A[i]
  <2>1. CASE i <= Len(c)
    <3>1. R[i] = c[i]
      BY <1>1, <1>5, <1>6, <2>1
    <3>2. c[i] = Meaning(a[i])
      BY <1>1, <2>1 DEF Flows
    <3> QED
      BY <1>4, <3>1, <3>2
  <2>2. CASE Len(c) < i /\ i <= Len(c) + Len(m)
    <3> DEFINE j == i - Len(c)
    <3>1. j \in 1 .. Len(m) /\ Len(c) + j = i
      BY <1>1, <2>2
    <3>2. R[i] = Routed(m[j])
      <4>1. R[i] = L[i]
        BY <1>1, <1>5, <1>6, <2>2
      <4>2. L[i] = M[j]
        BY <1>1, <1>5, <2>2
      <4> QED
        BY <1>4, <3>1, <4>1, <4>2
    <3> HIDE DEF j
    <3>3. Routed(m[j]) = Meaning(a[Len(c) + j])
      BY <3>1 DEF Flows
    <3> QED
      BY <1>4, <3>1, <3>2, <3>3
  <2>3. CASE Len(c) + Len(m) < i
    <3> DEFINE j == i - (Len(c) + Len(m))
    <3>1. j \in 1 .. Len(q) /\ Len(c) + Len(m) + j = i
      BY <1>1, <2>3
    <3>2. R[i] = Routed(q[j])
      <4>1. R[i] = Q[i - Len(L)]
        BY <1>1, <1>5, <1>6, <2>3
      <4>2. i - Len(L) = j
        BY <1>1, <1>5
      <4> QED
        BY <1>4, <3>1, <4>1, <4>2
    <3> HIDE DEF j
    <3>3. Routed(q[j]) = Meaning(a[Len(c) + Len(m) + j])
      BY <3>1 DEF Flows
    <3> QED
      BY <1>4, <3>1, <3>2, <3>3
  <2> QED
    BY <1>1, <2>1, <2>2, <2>3
<1>8. R = A
  BY <1>3, <1>6, <1>7, SeqEqual
<1> QED
  BY <1>8 DEF Whole, R, L, M, Q, A
-----------------------------------------------------------------------------
Flow(d) == Flows(asked[d], called[d], msg[d], queue[d])

FlowInv ==
  /\ DOMAIN asked = Daemons /\ DOMAIN called = Daemons
  /\ DOMAIN msg = Daemons /\ DOMAIN queue = Daemons
  /\ \A d \in Daemons : /\ Flow(d)
                        /\ IF server[d] = "process_message" THEN Len(msg[d]) = 1
                                                            ELSE msg[d] = <<>>

LEMMA FlowInvInit == IpcInit => FlowInv
  BY FlowsEmpty DEF IpcInit, FlowInv, Flow

(* A daemon that ends takes its history with it.                           *)
LEMMA EndsKeepsFlow == ASSUME FileInv, FlowInv, NEW d \in Daemons, Ends(d)
                       PROVE  FlowInv'
  BY FlowsEmpty DEF FileInv, FlowInv, Flow, Ends, Goto

(* Nobody's messages move, and nobody starts or ends to process one.       *)
LEMMA GotoKeepsFlow ==
  ASSUME FileInv, FlowInv, NEW d \in Daemons, NEW label, Goto(d, label),
         server[d] # "process_message", label # "process_message",
         UNCHANGED <<queue, msg, asked, called>>
  PROVE  FlowInv'
  BY DEF FileInv, FlowInv, Flow, Goto

LEMMA FlowInvNext ==
  ASSUME RequestsInRange, FileInv, FlowInv, [IpcNext]_ipcVars
  PROVE  FlowInv'
<1>1. ASSUME NEW r \in Requests, Client(r) PROVE FlowInv'
  <2>1. ToMessage(r) \in Messages /\ Routed(ToMessage(r)) = Meaning(r)
    BY <1>1, RoutedAsMeant DEF Client
  <2>2. PICK d \in Daemons : /\ queue' = [queue EXCEPT ![d] = Append(@, ToMessage(r))]
                             /\ asked' = [asked EXCEPT ![d] = Append(@, r)]
    BY <1>1 DEF Client
  <2>3. UNCHANGED <<server, msg, called>>
    BY <1>1 DEF Client
  <2>4. Flows(Append(asked[d], r), called[d], msg[d], Append(queue[d], ToMessage(r)))
    BY <2>1, FlowsAsk DEF FlowInv, Flow
  <2>5. Flow(d)'
    BY <2>2, <2>3, <2>4 DEF FlowInv, Flow
  <2>6. \A e \in Daemons \ {d} : Flow(e)'
    BY <2>2, <2>3 DEF FlowInv, Flow
  <2> QED
    BY <2>2, <2>3, <2>5, <2>6 DEF FlowInv
<1>2. ASSUME NEW d \in Daemons, Start(d) PROVE FlowInv'
  BY <1>2, GotoKeepsFlow DEF Start
<1>3. ASSUME NEW d \in Daemons, Unlink(d) \/ Bind(d) \/ CreateThread(d) PROVE FlowInv'
  BY <1>3, GotoKeepsFlow DEF Unlink, Bind, CreateThread
<1>4. ASSUME NEW d \in Daemons, Killed(d) \/ BindFails(d) \/ CreateFails(d) PROVE FlowInv'
  BY <1>4, EndsKeepsFlow DEF Killed, BindFails, CreateFails
<1>5. ASSUME NEW d \in Daemons, Receive(d) PROVE FlowInv'
  <2>1. /\ queue[d] # <<>> /\ server[d] = "recvfrom"
        /\ msg' = [msg EXCEPT ![d] = <<Head(queue[d])>>]
        /\ queue' = [queue EXCEPT ![d] = Tail(queue[d])]
        /\ server' = [server EXCEPT ![d] = "process_message"]
        /\ UNCHANGED <<asked, called>>
    BY <1>5 DEF Receive, Goto
  <2>2. Flows(asked[d], called[d], <<Head(queue[d])>>, Tail(queue[d]))
    BY <2>1, FlowsReceive DEF FlowInv, Flow
  <2>3. Flow(d)' /\ Len(msg'[d]) = 1 /\ server'[d] = "process_message"
    BY <2>1, <2>2 DEF FileInv, FlowInv, Flow
  <2>4. ASSUME NEW e \in Daemons, e # d
        PROVE  Flow(e)' /\ msg'[e] = msg[e] /\ server'[e] = server[e]
    BY <2>1, <2>4 DEF FileInv, FlowInv, Flow
  <2> QED
    BY <2>1, <2>3, <2>4 DEF FlowInv
<1>6. ASSUME NEW d \in Daemons, ProcessMessage(d) PROVE FlowInv'
  <2>1. /\ server[d] = "process_message"
        /\ called' = [called EXCEPT ![d] = Append(called[d], Routed(msg[d][1]))]
        /\ msg' = [msg EXCEPT ![d] = <<>>]
        /\ server' = [server EXCEPT ![d] = "recvfrom"]
        /\ UNCHANGED <<queue, asked>>
    BY <1>6 DEF ProcessMessage, Goto
  <2>2. Flows(asked[d], Append(called[d], Routed(msg[d][1])), <<>>, queue[d])
    BY <2>1, FlowsProcess DEF FlowInv, Flow
  <2>3. Flow(d)' /\ msg'[d] = <<>> /\ server'[d] = "recvfrom"
    BY <2>1, <2>2 DEF FileInv, FlowInv, Flow
  <2>4. ASSUME NEW e \in Daemons, e # d
        PROVE  Flow(e)' /\ msg'[e] = msg[e] /\ server'[e] = server[e]
    BY <2>1, <2>4 DEF FileInv, FlowInv, Flow
  <2> QED
    BY <2>1, <2>3, <2>4 DEF FlowInv
<1>7. CASE UNCHANGED ipcVars
  BY <1>7 DEF ipcVars, FlowInv, Flow
<1> QED
  BY <1>1, <1>2, <1>3, <1>4, <1>5, <1>6, <1>7
     DEF IpcNext, start_ipc_server, ipc_thread_func

(* No request is lost, doubled, overtaken or misread between the client's  *)
(* Success and the callback, for requests that the client's usage text     *)
(* allows (cli/main.c:24-27, ipc_server.c:24-88).                          *)
THEOREM RequestsAreCalled == ASSUME RequestsInRange PROVE IpcSpec => []CalledAsAsked
<1>1. FileInv /\ FlowInv /\ [IpcNext]_ipcVars => FlowInv'
  BY FlowInvNext
<1>2. FlowInv => CalledAsAsked
  <2> SUFFICES ASSUME FlowInv, NEW d \in Daemons
               PROVE  called[d] \o [i \in DOMAIN msg[d] |-> Routed(msg[d][i])]
                                \o [i \in DOMAIN queue[d] |-> Routed(queue[d][i])]
                        = [i \in DOMAIN asked[d] |-> Meaning(asked[d][i])]
    BY DEF CalledAsAsked
  <2>1. Flows(asked[d], called[d], msg[d], queue[d])
    BY DEF FlowInv, Flow
  <2>2. Whole(called[d], msg[d], queue[d]) = AllMeant(asked[d])
    BY <2>1, FlowsAsAsked
  <2> QED
    BY <2>2 DEF Whole, AllRouted, AllMeant
<1> QED
  BY <1>1, <1>2, FileInvInit, FileInvNext, FlowInvInit, PTL DEF IpcSpec
=============================================================================
