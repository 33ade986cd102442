------------------------------ MODULE MCParams ------------------------------
(* Instances of Params for TLC.                                            *)
EXTENDS Params, TLC
Scalars == [n \in Names |-> {"1", "2"}]
NamesOf == [n \in Names |-> IF n \in Refs THEN Names ELSE {"x"}]
Others == [n \in Names |-> IF n \in Refs THEN Names \ {n} ELSE {"x"}]
=============================================================================
