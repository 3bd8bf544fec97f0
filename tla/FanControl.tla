----------------------------- MODULE FanControl -----------------------------
(***************************************************************************)
(* What the regulator promises its users, without threads or locks: a mode *)
(* and a period.  In automatic mode (1) the period follows the thresholds, *)
(* in manual mode (0) it is what the user sets.  The one weakness that the *)
(* code has is stated, not hidden: an adjustment decided in automatic mode *)
(* may still land once after the switch to manual mode (pending).          *)
(***************************************************************************)
EXTENDS Temperature

VARIABLES mode, period, pending

fanVars == <<mode, period, pending>>

FanInit == mode = 1 /\ period = 1000 /\ pending = TRUE

(* Entering manual mode may leave an automatic adjustment behind.          *)
SetMode == /\ mode' \in {0, 1}
           /\ CASE mode' = 1              -> pending' = TRUE
                [] mode' = 0 /\ mode = 1  -> pending' \in BOOLEAN
                [] mode' = 0 /\ mode = 0  -> pending' = pending
           /\ UNCHANGED period

SetPeriod == /\ mode = 0
             /\ period' \in PosUInt
             /\ UNCHANGED <<mode, pending>>

(* An automatic adjustment; the late one is the last of its manual phase.  *)
Adjust == /\ pending
          /\ period' \in AutoPeriods \cup {period}
          /\ pending' = (mode = 1)
          /\ UNCHANGED mode

FanNext == SetMode \/ SetPeriod \/ Adjust

FanSpec == FanInit /\ [][FanNext]_fanVars
=============================================================================
