--------------------------- MODULE MCSignalQueue ---------------------------
(* Small instances of SignalQueue for TLC.                                 *)
EXTENDS SignalQueue, TLC

CONSTANTS SIGCHLD, SIGINT

AllSigs == {SIGCHLD, SIGINT}
OneSig == {SIGCHLD}
SigSymmetry == Permutations(AllSigs)
=============================================================================
