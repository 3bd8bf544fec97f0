----------------------------- MODULE IpcServer -----------------------------
(***************************************************************************)
(* The command line client (cli/main.c) and the IPC server of the daemon   *)
(* (daemon/ipc/ipc_server.c) around one socket file.  A client checks its  *)
(* arguments, sends one datagram and ends.  A daemon unlinks the file,     *)
(* binds its own socket to it and starts a thread that routes one message  *)
(* after the other to a callback.  Daemons may be started twice, killed at *)
(* any time and started again; the file of a killed one stays.             *)
(* stop_ipc_server, which main never reaches, is left out, and so are      *)
(* datagrams that no client sends.                                         *)
(*                                                                         *)
(* An operator named F_something is F with a plausible bug in it, which no *)
(* behaviour of this specification has.                                    *)
(***************************************************************************)
EXTENDS Integers, Sequences

CONSTANTS WordMod,    \* the modulus of the uint32_t value of a message
          Daemons,    \* processes that may run the daemon
          Orphan,     \* the file of a daemon that is gone
          Absent,     \* no file
          Requests,   \* what clients are called with: [word, value]
          QueueLimit, \* datagrams a socket holds before senders wait
          MaxClients, \* bound: the clients of a behaviour
          MaxStarts   \* bound: the starts of a daemon in a behaviour

ASSUME IpcAssumption ==
  /\ WordMod \in Nat /\ WordMod > 1
  /\ {Orphan, Absent} \cap Daemons = {} /\ Orphan # Absent
  /\ Requests \subseteq [word : {"mode", "period", "inc", "dec"}, value : Int]
  /\ QueueLimit \in Nat /\ MaxClients \in Nat /\ MaxStarts \in Nat

VARIABLES socket_path, \* whose socket SOCKET_PATH leads to
          server,      \* of each daemon: where start_ipc_server is
          queue,       \* the datagrams in its socket
          msg,         \* what its thread is processing: a sequence of one or none
          asked,       \* history: the requests its socket took
          called,      \* history: the callbacks its thread called
          mishap,      \* history: a daemon ended and none bound since
          clients, starts \* bounds' counters

ipcVars == <<socket_path, server, queue, msg, asked, called, mishap, clients, starts>>

IpcInit == /\ socket_path = Absent
           /\ server = [d \in Daemons |-> "off"]
           /\ queue = [d \in Daemons |-> <<>>]
           /\ msg = [d \in Daemons |-> <<>>]
           /\ asked = [d \in Daemons |-> <<>>]
           /\ called = [d \in Daemons |-> <<>>]
           /\ mishap = FALSE
           /\ clients = 0 /\ starts = 0
-----------------------------------------------------------------------------
(* The client.                                                             *)

Message(command, value) == [command |-> command, value |-> value % WordMod]

(* The value is a uint32_t: what atoi reads below zero is a large one.     *)
ToMessage_swapped(r) == CASE r.word = "mode"   -> Message("CMD_SET_MODE", r.value)
                          [] r.word = "period" -> Message("CMD_SET_PERIOD", r.value)
                          [] r.word = "dec"    -> Message("CMD_DEC_PERIOD", 0)
                          [] r.word = "inc"    -> Message("CMD_INC_PERIOD", 0)
ToMessage(r) == CASE r.word = "mode"   -> Message("CMD_SET_MODE", r.value)
                  [] r.word = "period" -> Message("CMD_SET_PERIOD", r.value)
                  [] r.word = "dec"    -> Message("CMD_INC_PERIOD", 0)
                  [] r.word = "inc"    -> Message("CMD_DEC_PERIOD", 0)

(* The test of an unsigned value for <= 0 refuses only 0.                  *)
process_arguments(r) == CASE r.word = "mode"   -> ToMessage(r).value \in {0, 1}
                          [] r.word = "period" -> ToMessage(r).value # 0
                          [] OTHER             -> TRUE

(* sendto finds a socket behind the file, or the client reports an error   *)
(* and nothing else happens.                                               *)
Client(r) == /\ clients < MaxClients
             /\ process_arguments(r)
             /\ \E d \in Daemons : /\ socket_path = d /\ Len(queue[d]) < QueueLimit
                                   /\ queue' = [queue EXCEPT ![d] = Append(@, ToMessage(r))]
                                   /\ asked' = [asked EXCEPT ![d] = Append(@, r)]
             /\ clients' = clients + 1
             /\ UNCHANGED <<socket_path, server, msg, called, mishap, starts>>
-----------------------------------------------------------------------------
(* start_ipc_server.                                                       *)

Goto(d, label) == server' = [server EXCEPT ![d] = label]

(* The process ends: its socket, its thread and what they hold go with it. *)
Ends(d) == /\ Goto(d, "off")
           /\ queue' = [queue EXCEPT ![d] = <<>>]
           /\ msg' = [msg EXCEPT ![d] = <<>>]
           /\ asked' = [asked EXCEPT ![d] = <<>>]
           /\ called' = [called EXCEPT ![d] = <<>>]

(* main gets to start_ipc_server; a socket that cannot be had is a start   *)
(* that never was.                                                         *)
Start(d) == /\ server[d] = "off" /\ starts < MaxStarts
            /\ starts' = starts + 1
            /\ Goto(d, "unlink")
            /\ UNCHANGED <<socket_path, queue, msg, asked, called, mishap, clients>>

Unlink(d) == /\ server[d] = "unlink"
             /\ socket_path' = Absent
             /\ Goto(d, "bind")
             /\ UNCHANGED <<queue, msg, asked, called, mishap, clients, starts>>

Bind(d) == /\ server[d] = "bind" /\ socket_path = Absent
           /\ socket_path' = d
           /\ mishap' = FALSE
           /\ Goto(d, "create")
           /\ UNCHANGED <<queue, msg, asked, called, clients, starts>>

BindFails_unlink(d) == /\ server[d] = "bind" /\ socket_path # Absent
                       /\ Ends(d)
                       /\ socket_path' = Absent
                       /\ UNCHANGED <<mishap, clients, starts>>

(* Another daemon was faster between the two calls: main returns 1 and the *)
(* file stays with the other one.                                          *)
BindFails(d) == /\ server[d] = "bind" /\ socket_path # Absent
                /\ Ends(d)
                /\ UNCHANGED <<socket_path, mishap, clients, starts>>

CreateThread(d) == /\ server[d] = "create"
                   /\ Goto(d, "recvfrom")
                   /\ UNCHANGED <<socket_path, queue, msg, asked, called, mishap, clients,
                                  starts>>

(* Without a thread the file is unlinked, whoever's it is by now.          *)
CreateFails(d) == /\ server[d] = "create"
                  /\ Ends(d)
                  /\ socket_path' = Absent
                  /\ mishap' = TRUE
                  /\ UNCHANGED <<clients, starts>>

Killed(d) == /\ server[d] # "off"
             /\ Ends(d)
             /\ socket_path' = IF socket_path = d THEN Orphan ELSE socket_path
             /\ mishap' = TRUE
             /\ UNCHANGED <<clients, starts>>
-----------------------------------------------------------------------------
(* ipc_thread_func.                                                        *)

Receive(d) == /\ server[d] = "recvfrom" /\ queue[d] # <<>>
              /\ msg' = [msg EXCEPT ![d] = <<Head(queue[d])>>]
              /\ queue' = [queue EXCEPT ![d] = Tail(@)]
              /\ Goto(d, "process_message")
              /\ UNCHANGED <<socket_path, asked, called, mishap, clients, starts>>

(* The switch of process_message: the callbacks main registered, by name.  *)
Routed(m) == CASE m.command = "CMD_SET_MODE"   -> <<"set_mode", m.value>>
               [] m.command = "CMD_SET_PERIOD" -> <<"set_period", m.value>>
               [] m.command = "CMD_INC_PERIOD" -> <<"increase_period", 0>>
               [] m.command = "CMD_DEC_PERIOD" -> <<"decrease_period", 0>>

ProcessMessage_stop(d) == /\ server[d] = "process_message"
                          /\ called' = [called EXCEPT ![d] = Append(@, Routed(msg[d][1]))]
                          /\ msg' = [msg EXCEPT ![d] = <<>>]
                          /\ Goto(d, "stopped")
                          /\ UNCHANGED <<socket_path, queue, asked, mishap, clients, starts>>

(* The callback, with cb_mutex held, which nobody else takes meanwhile.    *)
ProcessMessage(d) == /\ server[d] = "process_message"
                     /\ called' = [called EXCEPT ![d] = Append(@, Routed(msg[d][1]))]
                     /\ msg' = [msg EXCEPT ![d] = <<>>]
                     /\ Goto(d, "recvfrom")
                     /\ UNCHANGED <<socket_path, queue, asked, mishap, clients, starts>>
-----------------------------------------------------------------------------
start_ipc_server(d) == Unlink(d) \/ Bind(d) \/ BindFails(d) \/ CreateThread(d)
                         \/ CreateFails(d)
ipc_thread_func(d) == Receive(d) \/ ProcessMessage(d)

IpcNext == \/ \E r \in Requests : Client(r)
           \/ \E d \in Daemons : \/ Start(d) \/ Killed(d)
                                 \/ start_ipc_server(d) \/ ipc_thread_func(d)

IpcSpec == IpcInit /\ [][IpcNext]_ipcVars

(* A process that runs is scheduled; nobody has to start or kill one.      *)
IpcFairSpec == IpcSpec /\ \A d \in Daemons : /\ WF_ipcVars(start_ipc_server(d))
                                             /\ WF_ipcVars(ipc_thread_func(d))
-----------------------------------------------------------------------------
Running(d) == server[d] \in {"recvfrom", "process_message"}
IsStarting(d) == server[d] \in {"unlink", "bind", "create"}

(* What the usage text of the client says a request does (cli/main.c:24-27): *)
(* the faster, the shorter the period.                                     *)
Meaning(r) == CASE r.word = "mode"   -> <<"set_mode", r.value>>
                [] r.word = "period" -> <<"set_period", r.value>>
                [] r.word = "inc"    -> <<"decrease_period", 0>>
                [] r.word = "dec"    -> <<"increase_period", 0>>

(* As long as a daemon lives, every request its socket took is called back *)
(* once, in the order of the requests, with the effect that the client's   *)
(* usage text promises: none is lost, doubled or overtaken between the     *)
(* client's Success and the callback.                                      *)
CalledAsAsked ==
  \A d \in Daemons : called[d] \o [i \in DOMAIN msg[d] |-> Routed(msg[d][i])]
                               \o [i \in DOMAIN queue[d] |-> Routed(queue[d][i])]
                       = [i \in DOMAIN asked[d] |-> Meaning(asked[d][i])]

(* Two daemons that start at the same time do not lock each other out: with *)
(* no start under way, and no daemon gone since the last bind, a client    *)
(* reaches one of those that run (ipc_server.c:119-126).  A daemon that    *)
(* ends may take the file of another one with it.                          *)
ReachableWhenSettled ==
  (\E d \in Daemons : Running(d)) /\ (\A d \in Daemons : ~IsStarting(d)) /\ ~mishap
    => \E d \in Daemons : socket_path = d /\ Running(d)

(* What the client calls Success gets to the callback, also when it was    *)
(* sent before the thread started, unless the daemon ends first            *)
(* (cli/main.c:107).                                                       *)
SentIsCalled == \A d \in Daemons, n \in 1 .. MaxClients :
                  Len(asked[d]) = n ~> Len(called[d]) >= n \/ server[d] = "off"
=============================================================================
