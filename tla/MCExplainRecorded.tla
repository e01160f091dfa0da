--------------------------- MODULE MCExplainRecorded ---------------------------
(* A small instance of ExplainRecorded for TLC: a cap of 3 shares, prices that *)
(* fall or rise by a tenth, slippage of 1%, a Friday to the next Tuesday.     *)
EXTENDS ExplainRecorded

CONSTANTS s1, s2

OverWeekend == <<4, 7, 8>>

SomeProposals == {[action |-> "BUY", qty |-> 2], [action |-> "BUY", qty |-> -1],
                  [action |-> "SELL", qty |-> 1], [action |-> "SELL", qty |-> 3]}
OverOrNone    == {NoVar, 3}
TwoPrices     == {9, 10}

SomeRules ==
  {Baseline, VarNode,
   [Rule0 EXCEPT !.drawdown = 5],
   [Rule0 EXCEPT !.stop = 6],
   [Rule0 EXCEPT !.drawdown = 5, !.stop = 6],
   [Rule0 EXCEPT !.trailing = 10],
   [Rule0 EXCEPT !.spacing = 2]}

OneOrThree == {1, 3}
AnyScript  == Permutations(Scripts)
=============================================================================
