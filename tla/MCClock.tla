------------------------------- MODULE MCClock ------------------------------
(***************************************************************************)
(* Small instances of the clock server for TLC.                            *)
(***************************************************************************)
EXTENDS ClockServer, TLC
CONSTANTS c1, c2, r1, r2
=============================================================================
