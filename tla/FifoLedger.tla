------------------------------ MODULE FifoLedger ------------------------------
(***************************************************************************)
(* The lots of one symbol: the rows of `outcomes` or `backtest_outcomes`   *)
(* and what _record_paper_trade (runner.py) and its twin                   *)
(* _record_backtest_trade (backtest.py) make of them.  Pure operators on   *)
(* the rows, by id; a trade happens inside its caller's transaction, so    *)
(* that only its result is ever seen (two callers at once: LiveCycle).     *)
(***************************************************************************)
EXTENDS Integers, SequencesExt

CONSTANT None   \* a value or an option that is not there

NewLot(n, price, asOf) ==
  [opened |-> asOf, shares |-> n, entry |-> price,
   status |-> "OPEN", exit |-> None, closed |-> None, gain |-> 0]

\* What a closing statement makes of n shares of a lot.
ClosedPart(lot, n, price, asOf) ==
  [lot EXCEPT !.shares = n, !.status = "CLOSED", !.exit = price, !.closed = asOf,
              !.gain = (price - lot.entry) * n]

\* Mutant of OpenIds: the status is not part of the WHERE clause.
OpenIdsAny(rows) == DOMAIN rows

OpenIds(rows) == {i \in DOMAIN rows : rows[i].status = "OPEN"}

\* Mutant of LastInLine: ORDER BY opened_at DESC.
LastInLineOldest(rows, ids) ==
  CHOOSE i \in ids : \A j \in ids : rows[i].opened <= rows[j].opened

\* ORDER BY opened_at ASC: of some lots, the one the loop reaches last.
LastInLine(rows, ids) ==
  CHOOSE i \in ids : \A j \in ids : rows[j].opened <= rows[i].opened

SharesOf(rows, ids) == SumFunctionOnSet([i \in DOMAIN rows |-> rows[i].shares], ids)

\* The quantity column of the positions view.
SharesHeld(rows) == SharesOf(rows, OpenIds(rows))

\* compute_backtest_metrics: SUM(realized_pnl) over CLOSED rows.
RealizedPnl(rows) ==
  SumFunctionOnSet([i \in DOMAIN rows |-> rows[i].gain], DOMAIN rows \ OpenIds(rows))

-----------------------------------------------------------------------------
\* BUY: always a new lot.
Bought(rows, n, price, asOf) == Append(rows, NewLot(n, price, asOf))

\* The whole lot goes: its row becomes CLOSED.
CloseLot(rows, id, price, asOf) ==
  [rows EXCEPT ![id] = ClosedPart(@, @.shares, price, asOf)]

\* Mutant of SplitLot: the open row is not reduced by what was sold.
SplitLotKeepsOpen(rows, id, n, price, asOf) ==
  Append(rows, ClosedPart(rows[id], n, price, asOf))

\* Part of the lot goes: the open row shrinks and a CLOSED row is added.
SplitLot(rows, id, n, price, asOf) ==
  Append([rows EXCEPT ![id].shares = @ - n], ClosedPart(rows[id], n, price, asOf))

\* One turn of the loop over open_lots; it stops when nothing remains to sell.
SellFrom(sale, id, price, asOf) ==
  LET shares == sale.rows[id].shares
  IN  IF sale.remaining <= 0 THEN sale
      ELSE IF sale.remaining >= shares
           THEN [rows      |-> CloseLot(sale.rows, id, price, asOf),
                 remaining |-> sale.remaining - shares]
           ELSE [rows      |-> SplitLot(sale.rows, id, sale.remaining, price, asOf),
                 remaining |-> 0]

\* SELL: the open lots are read once, before anything is written, and the loop
\* takes them in line.
Sold(rows, n, price, asOf) ==
  MapThenFoldSet(LAMBDA id, sale : SellFrom(sale, id, price, asOf),
                 [rows |-> rows, remaining |-> n],
                 LAMBDA id : id, LAMBDA ids : LastInLine(rows, ids), OpenIds(rows)).rows

\* The whole function: HOLD, or a quantity of zero or less, records nothing, and
\* a SELL of more than is held raises.
Refuses(rows, action, n) == action = "SELL" /\ n > SharesHeld(rows)

AfterTrade(rows, action, n, price, asOf) ==
  IF n <= 0 THEN rows
  ELSE CASE action = "BUY"  -> Bought(rows, n, price, asOf)
         [] action = "SELL" -> Sold(rows, n, price, asOf)
         [] action = "HOLD" -> rows
=============================================================================
