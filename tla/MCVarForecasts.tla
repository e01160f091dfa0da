---------------------------- MODULE MCVarForecasts ----------------------------
(* Small instances of VarForecasts for TLC: a holiday on day 3, and a VaR of *)
(* two returns out of three.                                                 *)
EXTENDS VarForecasts

SevenDays == {0, 1, 2, 4, 5, 6}
ByDay     == {0, 1}
Evening   == {2}
=============================================================================
