---------------------------- MODULE MCControlFlow ----------------------------
EXTENDS ControlFlow

Untroubled    == {}
UntilContinue == {"untilContinue"}
Interrupted   == {"alwaysInt"}
=============================================================================
