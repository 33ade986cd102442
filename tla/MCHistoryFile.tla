--------------------------- MODULE MCHistoryFile ---------------------------
(* Instances of HistoryFile for TLC.                                       *)
EXTENDS HistoryFile, TLC

CONSTANTS A, B

OneShell == {A}
TwoShells == {A, B}

TwoShellsSymmetry == Permutations(TwoShells)

=============================================================================
