-------------------------------- MODULE Oled --------------------------------
(***************************************************************************)
(* The display of the daemon (daemon/oled/oled.c) and its driver           *)
(* (daemon/oled/ssd1306.c): a thread that again and again fetches mode,    *)
(* temperature and period, one after the other, and writes each into a row *)
(* of the screen, over what is there: the screen is cleared only once.  A  *)
(* row is given by the value it shows and by the column after its last     *)
(* visible glyph; what is behind the text just written stays.  A text that *)
(* is longer than the 16 columns goes on at column 0 of its own row, over  *)
(* its own beginning (the controller is left in page addressing mode).     *)
(*                                                                         *)
(* The values are those of the kernel module, which change at any time;    *)
(* without the module the sysfs layer reads 0 for each.  A transfer that   *)
(* fails on the way to the display is left out.                            *)
(*                                                                         *)
(* An operator named F_something is F with a plausible bug in it, which no *)
(* behaviour of this specification has.                                    *)
(***************************************************************************)
EXTENDS Integers, FiniteSets

CONSTANTS Temperatures, \* in degrees: what the kernel module may read
          Periods,      \* in ms, as %d shows them: from 2^31 on they are negative
          MaxChanges    \* bound: the changes of the values in a behaviour

ASSUME OledAssumption == /\ Temperatures \subseteq Nat
                         /\ Periods \subseteq Int \ {0}
                         /\ MaxChanges \in Nat

VARIABLES values,     \* behind the sysfs files: mode, temp and period
          changes,    \* the bound's counter
          bus,        \* the display could be opened
          oled_thread, \* where update_oled_thread is
          fetched,    \* what it has fetched of the three so far
          screen,     \* of each row: [value, extent]
          widest      \* history, of each row: the most glyphs its value had

oledVars == <<values, changes, bus, oled_thread, fetched, screen, widest>>

Fields == {"mode", "temp", "period"}
Rows == <<"mode", "temp", "freq", "period">>
RowSet == {Rows[i] : i \in 1 .. 4}
NoModule == [mode |-> 0, temp |-> 0, period |-> 0]
Readings == [mode : {0, 1}, temp : Temperatures, period : Periods]

(* The frequency is computed from the period.                              *)
FieldOf(row) == IF row = "freq" THEN "period" ELSE row
-----------------------------------------------------------------------------
(* The texts of display().                                                 *)

Digits(n) == 1 + Cardinality({k \in 1 .. 9 : 10 ^ k <= n})

(* The glyphs of the value itself: "MANUAL" or "AUTO", "35.5", "20.00" (or *)
(* "inf", of a period of 0), "50".                                         *)
Glyphs(row, v) ==
  CASE row = "mode"   -> IF v = 0 THEN 6 ELSE 4
    [] row = "temp"   -> Digits(v) + 2
    [] row = "freq"   -> IF v = 0 THEN 3
                         ELSE (IF v < 0 THEN 1 ELSE Digits(1000 \div v)) + 3
    [] row = "period" -> IF v < 0 THEN 1 + Digits(-v) ELSE Digits(v)

(* And those around it: "Mode: ", "Temp: 'C", "Freq: Hz" and "Period: ms". *)
Around(row) == CASE row = "mode" -> 6 [] row = "period" -> 10 [] OTHER -> 8

(* Columns up to the last visible glyph.                                   *)
Columns == 16
Visible(row, v) == IF Around(row) + Glyphs(row, v) < Columns
                     THEN Around(row) + Glyphs(row, v) ELSE Columns

(* The blanks of the texts behind that.                                    *)
Blanks_one(row, v) == IF row = "temp" THEN 0 ELSE 1
Blanks(row, v) == CASE row = "mode" -> IF v = 0 THEN 0 ELSE 3
                    [] row = "temp" -> 0
                    [] OTHER        -> 2

(* ssd1306_set_position and ssd1306_puts: later columns keep their glyphs. *)
ssd1306_puts(shown, row, v) ==
  [value |-> v,
   extent |-> IF shown.extent > Visible(row, v) + Blanks(row, v)
                THEN shown.extent ELSE Visible(row, v)]
-----------------------------------------------------------------------------
(* ssd1306_init clears the screen; if it fails, or the thread cannot be    *)
(* created, nobody notices.                                                *)
OledInit == /\ values \in Readings /\ changes = 0
            /\ bus \in BOOLEAN
            /\ oled_thread \in {"absent", "fetch"}
            /\ fetched = [f \in {} |-> 0]
            /\ screen = [row \in RowSet |-> [value |-> 0, extent |-> 0]]
            /\ widest = [row \in RowSet |-> 0]

(* The kernel, the user and whoever unloads and loads the module.          *)
ValuesChange == /\ changes < MaxChanges
                /\ values' \in (Readings \cup {NoModule}) \ {values}
                /\ changes' = changes + 1
                /\ UNCHANGED <<bus, oled_thread, fetched, screen, widest>>

(* The arguments of display() are evaluated in any order.                  *)
Fetch(f) == /\ oled_thread = "fetch" /\ f \notin DOMAIN fetched
            /\ fetched' = [g \in DOMAIN fetched \cup {f} |->
                             IF g = f THEN values[f] ELSE fetched[g]]
            /\ oled_thread' = IF DOMAIN fetched' = Fields THEN "mode" ELSE "fetch"
            /\ UNCHANGED <<values, changes, bus, screen, widest>>

(* One row after the other; after the last one it sleeps, then starts over. *)
Show(i) ==
  LET row == Rows[i]
      v   == fetched[FieldOf(row)]
  IN  /\ oled_thread = row
      /\ IF bus
           THEN /\ screen' = [screen EXCEPT ![row] = ssd1306_puts(@, row, v)]
                /\ widest' = [widest EXCEPT ![row] = IF @ < Glyphs(row, v) THEN Glyphs(row, v)
                                                                         ELSE @]
           ELSE UNCHANGED <<screen, widest>>
      /\ IF i = 4 THEN oled_thread' = "fetch" /\ fetched' = [f \in {} |-> 0]
                  ELSE oled_thread' = Rows[i + 1] /\ UNCHANGED fetched
      /\ UNCHANGED <<values, changes, bus>>

update_oled_thread == (\E f \in Fields : Fetch(f)) \/ (\E i \in 1 .. 4 : Show(i))

OledNext == ValuesChange \/ update_oled_thread

OledSpec == OledInit /\ [][OledNext]_oledVars

OledFairSpec == OledSpec /\ WF_oledVars(update_oled_thread)
-----------------------------------------------------------------------------
(* How many glyphs a value may be shorter than an earlier one and still    *)
(* leave nothing of it: a temperature none, since its text has no blanks   *)
(* behind it.                                                              *)
Spare == [mode |-> 2, temp |-> 0, freq |-> 2, period |-> 2]

(* A row shows no glyph but those of its value's text, or once had a value *)
(* that was too long for that.                                             *)
RowIsClean(row) == LET v == screen[row].value
                   IN  \/ screen[row].extent = Visible(row, v)
                       \/ widest[row] > Glyphs(row, v) + Spare[row]

(* Whatever the values went through, and in whatever mixture they were     *)
(* shown meanwhile, also across a time without the kernel module: once     *)
(* they are left alone the screen shows them, and a row has a rest of an   *)
(* earlier text only where the blanks behind the texts cannot suffice: one *)
(* by three glyphs longer, or any longer temperature (oled.c:35-53).       *)
ScreenSettles ==
  \/ ~bus \/ oled_thread = "absent"
  \/ <>[](\A row \in RowSet : /\ screen[row].value = values[FieldOf(row)]
                               /\ RowIsClean(row))
=============================================================================
