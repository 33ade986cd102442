--------------------------- MODULE MCBrightLink ---------------------------
(* Instances of BrightLink for TLC.                                        *)
EXTENDS BrightLink, TLC

CONSTANTS I1, I2

TwoIdents == {I1, I2}

=============================================================================
