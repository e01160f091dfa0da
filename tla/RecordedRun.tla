------------------------------ MODULE RecordedRun ------------------------------
(***************************************************************************)
(* A backtest of one symbol as it stands recorded (app/agent/backtest.py,  *)
(* read back by the scripts that work on finished backtests): decisions    *)
(* that risk_manager ruled, the lots FifoLedger made of them, and beside   *)
(* them every replay of the tape so far.  A replay is a fold of ReplayDay  *)
(* over the tape, so that the books kept here are what replay() returns    *)
(* for each prefix, as path_stats in compare_var_node.py asks for them.    *)
(***************************************************************************)
EXTENDS ReplayRules

CONSTANTS TradingDays,   \* the days of the window, in order
          Proposals,     \* what the Portfolio Manager may propose
          Vars,          \* VaR figures the risk node may compute
          MarketPrices,  \* opening prices
          Rules          \* the variants that are replayed

ASSUME RecordedConstants ==
  /\ TradingDays \in Seq(Nat)
  /\ \A i, j \in DOMAIN TradingDays : i < j => TradingDays[i] < TradingDays[j]
  /\ Proposals \subseteq Proposal
  /\ Vars \subseteq Int \cup {NoVar} /\ MarketPrices \subseteq Nat \ {0}
  /\ {Baseline, VarNode} \subseteq Rules

VARIABLES
  decisions,  \* the recorded decisions with their opinions and forecasts
  outcomes,   \* the rows of backtest_outcomes
  price,      \* price of the last tape row
  books       \* rule -> book of its replay

runVars == <<decisions, outcomes, price, books>>

Init ==
  /\ decisions = <<>> /\ outcomes = <<>> /\ price = None
  /\ books = [r \in Rules |-> EmptyBook]

\* agent_opinions, var_forecasts and decisions rows of one day.
DecisionRow(proposal, current, var, p) ==
  [pm |-> proposal, current |-> current, ruling |-> Gate(proposal, current, var),
   varMax |-> IF var = NoVar THEN None ELSE VarMaxQty(var),
   flags |-> RiskFlags(proposal, current, var), price |-> p]

\* The TAPE query leaves out days without a current_price, and so does
\* _simulate_day when it records trades.
OnTape(p) == p # None

\* The fill of a decision.
Executed(d, asOf) ==
  IF OnTape(d.price)
  THEN AfterTrade(outcomes, d.ruling.action, d.ruling.qty, Fill(d.price, d.ruling.action), asOf)
  ELSE outcomes

\* One committed day; on the tape, every replay takes it as well.  (A forecast
\* of a negative position fails the day: such a backtest is not finished.)
SimulateDay ==
  /\ Len(decisions) < Len(TradingDays)
  /\ \E t \in Proposals, v \in Vars, p \in MarketPrices \cup {None} :
       LET d    == DecisionRow(t, SharesHeld(outcomes), v, p)
           asOf == TradingDays[Len(decisions) + 1]
           row  == TapeRow(asOf, t, p, d.varMax)
       IN  /\ p = None => v = NoVar
           /\ v = NoVar \/ PositionAfter(d.current, d.ruling.action, d.ruling.qty) >= 0
           /\ ~Refuses(outcomes, d.ruling.action, d.ruling.qty)
           /\ decisions' = Append(decisions, d)
           /\ outcomes' = Executed(d, asOf)
           /\ IF OnTape(p)
              THEN /\ price' = p
                   /\ books' = [r \in Rules |-> ReplayDay(r, books[r], row)]
              ELSE UNCHANGED <<price, books>>

Finished == Len(decisions) = Len(TradingDays)

TriggerFlags == {"var_budget_scale", "var_budget_veto"}

\* The budget changed this decision: vf.risk_flags && TRIGGER_FLAGS.
IsTriggered(d) == d.flags \cap TriggerFlags # {}

-----------------------------------------------------------------------------
(* Properties *)

\* However lots are closed and split, the shares bought on one day are exactly
\* the shares of the rows, open or closed, opened on that day: none is lost,
\* sold twice, or given another purchase's entry date.
EveryShareAccounted ==
  \A i \in DOMAIN decisions :
    LET d == decisions[i]
    IN  SharesOf(outcomes, {k \in DOMAIN outcomes : outcomes[k].opened = TradingDays[i]}) =
          IF OnTape(d.price) /\ d.ruling.action = "BUY" /\ d.ruling.qty > 0 THEN d.ruling.qty ELSE 0

\* A closed row is a fact: no later trade touches it.
ClosedRowsKept ==
  [][\A i \in DOMAIN outcomes :
       outcomes[i].status = "CLOSED" => i \in DOMAIN outcomes' /\ outcomes'[i] = outcomes[i]]_runVars

SharesIn(lots) == FlattenSeq([i \in DOMAIN lots |-> [k \in 1..lots[i].qty |-> lots[i].entry]])

\* What was paid for each open share, oldest first: rows are never reordered, and
\* a split lot stays where it is.
OpenShares(rs) ==
  LET open(lot) == IF lot.status = "OPEN" THEN lot.shares ELSE 0
  IN  FlattenSeq([i \in DOMAIN rs |-> [k \in 1..open(rs[i]) |-> rs[i].entry]])

\* The rows are a FIFO queue of shares with the P&L of the sold ones: the
\* detailed ledger implements the share-by-share definition.
Shares == INSTANCE FifoQueue WITH
  Sizes <- 1..MaxPositionQty, Prices <- {Fill(p, a) : p \in MarketPrices, a \in Trades},
  queue <- OpenShares(outcomes), gained <- RealizedPnl(outcomes)

ImplementsFifoQueue == Shares!Spec

\* "The replay is only trusted if it first reproduces the recorded run exactly":
\* replaying the VaR budget gives the recorded lots and realized P&L whatever was
\* proposed, and so does the baseline as long as the budget changed nothing.
ReplayReproduces ==
  LET reproduces(rule) == /\ SharesIn(books[rule].lots) = OpenShares(outcomes)
                          /\ books[rule].realized = RealizedPnl(outcomes)
  IN  /\ reproduces(VarNode)
      /\ (\A i \in DOMAIN decisions : ~IsTriggered(decisions[i])) => reproduces(Baseline)

\* No replayed rule holds more than the cap, however stops and buys meet on a
\* day; and none ends a day of the tape down by its stop-loss percentage or more,
\* unless the day's SELL took the older, cheaper lots and left the dearer ones.
StopsHold ==
  LET taped == {i \in DOMAIN decisions : OnTape(decisions[i].price)}
      sold  == taped # {} /\ decisions[Max(taped)].pm.action = "SELL"
  IN  \A r \in Rules :
        /\ HeldIn(books[r].lots) \in 0..MaxPositionQty
        /\ books[r].lots # <<>> /\ ~sold => ~DownBy(books[r].lots, price, r.stop)
=============================================================================
