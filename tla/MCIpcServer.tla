---------------------------- MODULE MCIpcServer ----------------------------
(* The requests of run ipc: each command of the client, and three it       *)
(* refuses (a mode of 2, one below zero, a period of 0).                   *)
EXTENDS IpcServer

SomeRequests == {[word |-> "mode", value |-> 0], [word |-> "mode", value |-> 2],
                 [word |-> "mode", value |-> -1], [word |-> "period", value |-> 0],
                 [word |-> "period", value |-> 200], [word |-> "inc", value |-> 0],
                 [word |-> "dec", value |-> 0]}
=============================================================================
