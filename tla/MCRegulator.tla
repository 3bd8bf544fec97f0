---------------------------- MODULE MCRegulator -----------------------------
(* Instances of Regulator for TLC.                                         *)
EXTENDS Regulator, TLC

(* The clients are interchangeable in everything that is not temporal.     *)
Symmetry == Permutations(Clients)
=============================================================================
