---------------------------- MODULE MCJobControl ----------------------------
(* Small instances of JobControl for TLC.                                  *)
EXTENDS JobControl, TLC

CONSTANTS P1, P2

NonePid == {}
OnePid == {P1}
TwoPids == {P1, P2}
TwoPidsSymmetry == Permutations(TwoPids)
=============================================================================
