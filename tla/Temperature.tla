---------------------------- MODULE Temperature ----------------------------
(***************************************************************************)
(* The arithmetic of the temp_regulator kernel module: the conversion of   *)
(* the raw sensor register into milli-degrees (kernel/temperature/temp.c), *)
(* the temperature thresholds of the automatic mode and the unsigned to    *)
(* signed conversion a period goes through on its way to the blink thread  *)
(* (kernel/regulator/regulator.c, kernel/blink/blink.c).                   *)
(*                                                                         *)
(* WordMod is the number of values of a uint32_t: 2^32 in the program, a   *)
(* smaller power of two that keeps every sensor value apart for TLC.       *)
(***************************************************************************)
EXTENDS Integers

CONSTANT WordMod

ASSUME WordModAssumption == /\ WordMod \in Nat
                            /\ WordMod >= 1048576
                            /\ WordMod % 2 = 0

(* A uint32_t, and the int the compiler makes of one (two's complement).   *)
UInt == 0 .. WordMod - 1
PosUInt == 1 .. WordMod - 1
ToInt(w) == IF w < WordMod \div 2 THEN w ELSE w - WordMod

(* The sensor's data field is 12 bits wide.                                *)
RawValues == 0 .. 4095

(* The temperature in milli-degrees, as the int expression of read_temp.   *)
(* C division truncates towards zero, and both dividends are negative.     *)
MilliDegrees(raw) ==
  IF raw > 1280 THEN 223000 - (1191 * raw) \div 10
                ELSE 259000 - (1452 * raw) \div 10

(* read_temp stores that int in a uint32_t: below zero degrees it wraps.   *)
read_temp(raw) == MilliDegrees(raw) % WordMod

(* The period process_auto_mode chooses for a reading in milli-degrees.    *)
AutoPeriods == {500, 200, 100, 50}
AutoPeriod_reversed(temp_milli) ==
  LET temp_c == temp_milli \div 1000
  IN  CASE temp_c < 35       -> 50
        [] temp_c \in 35..39 -> 100
        [] temp_c \in 40..44 -> 200
        [] OTHER             -> 500
AutoPeriod(temp_milli) ==
  LET temp_c == temp_milli \div 1000
  IN  CASE temp_c < 35       -> 500
        [] temp_c \in 35..39 -> 200
        [] temp_c \in 40..44 -> 100
        [] OTHER             -> 50
=============================================================================
