------------------------------ MODULE ReplayRules ------------------------------
(***************************************************************************)
(* Replaying a recorded backtest through other risk rules, without a model *)
(* (scripts/replay_risk_rules.py, and scripts/compare_var_node.py with the *)
(* VaR budget).  Pure operators on the tape's rows and on a book, the      *)
(* state replay() carries from row to row.  Money is counted in 1/Unit of  *)
(* the price unit, so that fills with slippage are whole numbers; what is  *)
(* only printed (buys, sells, blocked, closed) is left out.                *)
(***************************************************************************)
EXTENDS RiskGate, FifoLedger

CONSTANTS Unit,      \* 10000, the denominator of basis points
          SlipBps    \* DEFAULT_SLIPPAGE_BPS, 5 in the code

ASSUME ReplayConstants ==
  Unit \in Nat \ {0} /\ SlipBps \in 0..Unit - 1 /\ None \notin Int

\* A row of the tape: the proposal, the fill price before slippage, and the
\* share limit of the day's VaR forecast.
TapeRow(day, proposal, price, varMax) ==
  [day |-> day, action |-> proposal.action, qty |-> proposal.qty, price |-> price,
   varMax |-> varMax]

\* The options of replay(), percentages in whole per cent.
Rule0 == [drawdown |-> None, stop |-> None, trailing |-> None, spacing |-> None,
          varBudget |-> FALSE]
Baseline == Rule0
VarNode  == [Rule0 EXCEPT !.varBudget = TRUE]

EmptyBook == [lots |-> <<>>, peak |-> None, lastBuy |-> None, realized |-> 0]

-----------------------------------------------------------------------------
(* Lots *)

\* _slip, and _apply_slippage of the backtest: a fill in 1/Unit.
Fill(price, action) ==
  CASE action = "BUY"  -> price * (Unit + SlipBps)
    [] action = "SELL" -> price * (Unit - SlipBps)
    [] OTHER           -> price * Unit

HeldIn(lots) == FoldLeft(LAMBDA sum, lot : sum + lot.qty, 0, lots)
Cost(lots)   == FoldLeft(LAMBDA sum, lot : sum + lot.qty * lot.entry, 0, lots)

\* Shares of lot i in a sale of n: what the older lots leave of it.
TakenFrom(lots, n, i) ==
  LET older == HeldIn(SubSeq(lots, 1, i - 1))
  IN  IF n <= older THEN 0 ELSE IF n - older > lots[i].qty THEN lots[i].qty ELSE n - older

\* _sell_fifo: the realized P&L, and the lots that are left.
SaleGain(lots, n, fill) ==
  FoldLeft(LAMBDA sum, i : sum + TakenFrom(lots, n, i) * (fill - lots[i].entry), 0,
           [i \in DOMAIN lots |-> i])

LotsLeft(lots, n) ==
  LET cut  == [i \in DOMAIN lots |-> [lots[i] EXCEPT !.qty = @ - TakenFrom(lots, n, i)]]
      left == {i \in DOMAIN lots : cut[i].qty > 0}
  IN  SubSeq(cut, Min(left \cup {Len(lots) + 1}), Len(lots))

Sell(book, n, price) ==
  LET fill == Fill(price, "SELL")
  IN  [book EXCEPT !.realized = @ + SaleGain(book.lots, n, fill),
                   !.lots     = LotsLeft(@, n)]

-----------------------------------------------------------------------------
(* Rules *)

\* Price is at least pct per cent below the average entry of the lots.
DownBy(lots, price, pct) ==
  /\ pct # None /\ Cost(lots) > 0
  /\ 100 * (Cost(lots) - HeldIn(lots) * price * Unit) >= pct * Cost(lots)

\* The highest price seen while holding; there is none while nothing is held.
Marked(book, price) ==
  [book EXCEPT !.peak = IF book.lots = <<>> THEN None
                        ELSE IF @ = None \/ price > @ THEN price ELSE @]

StopHit(rule, book, price) ==
  /\ book.lots # <<>>
  /\ \/ DownBy(book.lots, price, rule.stop)
     \/ /\ rule.trailing # None
        /\ 100 * (book.peak - price) >= rule.trailing * book.peak

\* Mutant of AfterStop: a stop only sells the oldest lot.
AfterStopOldest(rule, book, price) ==
  IF StopHit(rule, book, price)
  THEN [Sell(book, book.lots[1].qty, price) EXCEPT !.peak = None] ELSE book

\* A forced exit comes before the day's proposal.
AfterStop(rule, book, price) ==
  IF StopHit(rule, book, price)
  THEN [Sell(book, HeldIn(book.lots), price) EXCEPT !.peak = None] ELSE book

\* blocked_by_spacing: too few weekdays since the last buy (day 0 is a Monday).
BlockedBySpacing(today, last, least) ==
  /\ least # None /\ last # None
  /\ Cardinality({d \in last + 1..today : d % 7 < 5}) < least

\* The shares a BUY may bring the position to.
BuyCap(rule, row) ==
  IF rule.varBudget /\ row.varMax # None /\ row.varMax < MaxPositionQty
  THEN row.varMax ELSE MaxPositionQty

\* Mutant of BuyQty: the cap is compared with the order, not with its sum.
BuyQtyAlone(rule, row, held) ==
  IF held >= BuyCap(rule, row) THEN 0
  ELSE IF row.qty < BuyCap(rule, row) THEN row.qty ELSE BuyCap(rule, row)

\* min(qty, cap - held), 0 if there is no room.
BuyQty(rule, row, held) ==
  IF held >= BuyCap(rule, row) THEN 0
  ELSE IF row.qty < BuyCap(rule, row) - held THEN row.qty ELSE BuyCap(rule, row) - held

SellQty(row, held) == IF row.qty < held THEN row.qty ELSE held

Buys(rule, book, row) ==
  /\ row.action = "BUY" /\ row.qty > 0
  /\ BuyQty(rule, row, HeldIn(book.lots)) > 0
  /\ ~DownBy(book.lots, row.price, rule.drawdown)
  /\ ~BlockedBySpacing(row.day, book.lastBuy, rule.spacing)

Sells(book, row) == row.action = "SELL" /\ row.qty > 0 /\ book.lots # <<>>

\* The day's proposal, re-gated.
Traded(rule, book, row) ==
  LET held == HeldIn(book.lots)
  IN  CASE Buys(rule, book, row) ->
             [book EXCEPT !.lots = Append(@, [qty   |-> BuyQty(rule, row, held),
                                              entry |-> Fill(row.price, "BUY")]),
                          !.lastBuy = row.day]
        [] Sells(book, row) -> Sell(book, SellQty(row, held), row.price)
        [] OTHER -> book

\* One turn of replay()'s loop.
ReplayDay(rule, book, row) ==
  Traded(rule, AfterStop(rule, Marked(book, row.price), row.price), row)
=============================================================================
