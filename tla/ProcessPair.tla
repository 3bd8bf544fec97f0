---------------------------- MODULE ProcessPair ----------------------------
(***************************************************************************)
(* The two processes of lab 4 (src/04-multiprocessing/process.c): one      *)
(* writes five messages to a stream socket, the other reads as many times, *)
(* each time for as many bytes as the message of that number has.  Both    *)
(* keep both ends open, so that a reader finds an empty stream, never an   *)
(* ended one.  A signal from outside reaches a handler that ends the       *)
(* process (SIGINT) or prints; it makes a read that waits return at once   *)
(* without a message, because it is installed without SA_RESTART.          *)
(*                                                                         *)
(* The socket holds all five messages, each is written as a whole, and a   *)
(* read returns what is there up to what it asked for.  The stream is      *)
(* given by the number of bytes written and read.                          *)
(*                                                                         *)
(* An operator named F_something is F with a plausible bug in it, which no *)
(* behaviour of this specification has.                                    *)
(***************************************************************************)
EXTENDS Integers, Sequences, FiniteSetsExt

CONSTANT MSG  \* the lengths of the messages

ASSUME PairAssumption == MSG \in Seq(Nat \ {0})

NBR_MSG == Len(MSG)

VARIABLES reader, writer, \* where the two processes are
          wi, ri,         \* their loop counters i, from 1
          written, taken, \* bytes written to and read from the stream
          got,            \* history: of each read, the bytes from and to
          upset           \* history: an exit or a signal came in between

pairVars == <<reader, writer, wi, ri, written, taken, got, upset>>

PairInit == /\ reader = "absent" /\ writer = "main"
            /\ wi = 1 /\ ri = 1
            /\ written = 0 /\ taken = 0
            /\ got = <<>>
            /\ upset = FALSE

(* socketpair and fork, after install_catch_signal.                        *)
Fork == /\ writer = "main"
        /\ reader' = "affinity" /\ writer' = "affinity"
        /\ UNCHANGED <<wi, ri, written, taken, got, upset>>

(* Either of them fails, and SIGINT at any time: exit.                     *)
WriterExits == /\ writer \in {"main", "affinity", "write"}
               /\ writer' = "exited"
               /\ upset' = TRUE
               /\ UNCHANGED <<reader, wi, ri, written, taken, got>>

ReaderExits == /\ reader \in {"affinity", "read"}
               /\ reader' = "exited"
               /\ upset' = TRUE
               /\ UNCHANGED <<writer, wi, ri, written, taken, got>>

SetWriterAffinity == /\ writer = "affinity"
                     /\ writer' = "write"
                     /\ UNCHANGED <<reader, wi, ri, written, taken, got, upset>>

SetReaderAffinity == /\ reader = "affinity"
                     /\ reader' = "read"
                     /\ UNCHANGED <<writer, wi, ri, written, taken, got, upset>>
-----------------------------------------------------------------------------
(* The loops.                                                              *)

BytesWritten_withnull(i) == MSG[i] + 1
BytesWritten(i) == MSG[i]

WriteMessage == /\ writer = "write" /\ wi <= NBR_MSG
                /\ written' = written + BytesWritten(wi)
                /\ wi' = wi + 1
                /\ UNCHANGED <<reader, writer, ri, taken, got, upset>>

WriterDone == /\ writer = "write" /\ wi > NBR_MSG
              /\ writer' = "exited"
              /\ UNCHANGED <<reader, wi, ri, written, taken, got, upset>>

(* What a read returns, maybe nothing, counts as message ri.               *)
ReadReturns(n) == /\ taken' = taken + n
                  /\ got' = Append(got, <<taken, taken + n>>)
                  /\ ri' = ri + 1
                  /\ UNCHANGED <<reader, writer, wi, written>>

ReadMessage == /\ reader = "read" /\ ri <= NBR_MSG /\ written > taken
               /\ ReadReturns(Min({MSG[ri], written - taken}))
               /\ UNCHANGED upset

ReadInterrupted == /\ reader = "read" /\ ri <= NBR_MSG /\ written = taken
                   /\ ReadReturns(0)
                   /\ upset' = TRUE

(* The signals that the reader sends to itself: four are printed, the last *)
(* one, SIGINT, ends it.                                                   *)
TestSignals == /\ reader = "read" /\ ri > NBR_MSG
               /\ reader' = "exited"
               /\ UNCHANGED <<writer, wi, ri, written, taken, got, upset>>
-----------------------------------------------------------------------------
WriterSteps == Fork \/ SetWriterAffinity \/ WriteMessage \/ WriterDone
ReaderSteps == SetReaderAffinity \/ ReadMessage \/ TestSignals

PairNext == \/ WriterSteps \/ ReaderSteps
            \/ WriterExits \/ ReaderExits \/ ReadInterrupted

PairSpec == PairInit /\ [][PairNext]_pairVars

(* Both processes are scheduled; nothing has to fail.                      *)
PairFairSpec == PairSpec /\ WF_pairVars(WriterSteps) /\ WF_pairVars(ReaderSteps)
-----------------------------------------------------------------------------
(* Read number i is message i, from its first byte to its last.            *)
Offset(i) == LET sum[k \in 0 .. NBR_MSG] == IF k = 0 THEN 0 ELSE sum[k - 1] + MSG[k]
             IN  sum[i - 1]
Whole == [i \in 1 .. NBR_MSG |-> <<Offset(i), Offset(i + 1)>>]

(* Both processes end, and the reader has then got every message whole and *)
(* in order from a stream without boundaries, however the two take turns   *)
(* (process.c:94-118), unless one exits early or a signal interrupts a     *)
(* read that waits: then the reader may wait for ever, or take the end of  *)
(* one message and the beginning of the next for one.                      *)
AllArrive == <>(\/ upset
                \/ reader = "exited" /\ writer = "exited" /\ got = Whole)
=============================================================================
