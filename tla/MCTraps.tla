------------------------------ MODULE MCTraps ------------------------------
(* Small instances of Traps for TLC.                                       *)
EXTENDS Traps, TLC

OneSig == {"INT"}
OneBody == {"print"}
=============================================================================
