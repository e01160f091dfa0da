------------------------------ MODULE MCLiveCycle ------------------------------
(* Small instances of LiveCycle for TLC: a cap of 3 shares. *)
EXTENDS LiveCycle

CONSTANTS c1, c2, c3

OneSymbol  == <<"AAPL">>
TwoSymbols == <<"AAPL", "MSFT">>

Lot(s, t, n) == [symbol |-> s, opened |-> t, shares |-> n, status |-> "OPEN"]

NoLots      == <<>>
TwoLots     == <<Lot("AAPL", -2, 2), Lot("AAPL", -1, 1)>>
LotsOfBoth  == <<Lot("AAPL", -2, 1), Lot("AAPL", -1, 1), Lot("MSFT", -1, 3)>>

BuyOrSell == {[action |-> "BUY", qty |-> 2], [action |-> "SELL", qty |-> 2]}
SellOnly  == {[action |-> "SELL", qty |-> 2]}
OnlyNoVar == {NoVar}
OnePrice  == {1}
TwoPrices == {1, 2}

AnyCycle == Permutations(Cycles)
=============================================================================
