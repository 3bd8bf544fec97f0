---------------------------- MODULE MCDriverLeak ----------------------------
(* The driver of sample06.3 with the three children that its device tree   *)
(* has.                                                                    *)
EXTENDS DriverLifecycle

ThreeChildren == {drv_sample06_3(3)}
=============================================================================
