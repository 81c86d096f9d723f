---------------------------- MODULE MCCondVarIds ----------------------------
(* Instances of CondVarIds for TLC. *)
EXTENDS CondVarIds

CONSTANTS maker, maker2, breaker, breaker2

OneMaker == {maker}
TwoMakers == {maker, maker2}
NoBreaker == {}
TwoBreakers == {breaker, breaker2}
=============================================================================
