------------------------------- MODULE RiskGate -------------------------------
(***************************************************************************)
(* The deterministic half of the Risk Manager (app/agent/risk_manager.py): *)
(* the share cap of _v1_rules and the VaR budget applied on top of it.     *)
(* Pure operators; DecisionGraph, BacktestRun and LiveCycle use them.      *)
(*                                                                         *)
(* A proposal is what the Portfolio Manager returned: an action and an     *)
(* integer quantity (TentativeDecision bounds neither its sign nor its     *)
(* size).  A VaR is a whole number of basis points, or NoVar when there    *)
(* are too few returns; VarBudget is in basis points as well.              *)
(***************************************************************************)
EXTENDS Integers

CONSTANTS MaxPositionQty,  \* MAX_POSITION_QTY, 20 shares in the code
          VarBudget,       \* VAR_BUDGET, 200 basis points in the code
          NoVar            \* historical_var returned None

ASSUME RiskConstants == /\ MaxPositionQty \in Nat \ {0}
                        /\ VarBudget \in Nat
                        /\ NoVar \notin Int

Trades   == {"BUY", "SELL", "HOLD"}
Verdicts == {"APPROVE", "SCALE", "VETO"}
Proposal == [action : Trades, qty : Int]
Ruling   == [verdict : Verdicts, action : Trades, qty : Int]

Rule(verdict, action, qty) ==
  [verdict |-> verdict, action |-> action, qty |-> qty]

NoTrade(verdict) == Rule(verdict, "HOLD", 0)

-----------------------------------------------------------------------------
\* Mutant of BuyRule: tests the holding alone, not the holding plus the order.
BuyRuleIgnoresOrder(qty, current) ==
  IF current >= MaxPositionQty THEN NoTrade("VETO") ELSE Rule("APPROVE", "BUY", qty)

BuyRule(qty, current) ==
  IF current >= MaxPositionQty THEN NoTrade("VETO")
  ELSE IF current + qty > MaxPositionQty
       THEN Rule("SCALE", "BUY", MaxPositionQty - current)
       ELSE Rule("APPROVE", "BUY", qty)

SellRule(qty, current) ==
  IF current = 0 THEN NoTrade("VETO")
  ELSE IF qty > current THEN Rule("SCALE", "SELL", current)
       ELSE Rule("APPROVE", "SELL", qty)

\* _v1_rules: the position limits without the VaR budget.
V1Rules(proposal, current) ==
  IF proposal.action = "HOLD" \/ proposal.qty = 0 THEN NoTrade("APPROVE")
  ELSE IF proposal.action = "BUY" THEN BuyRule(proposal.qty, current)
       ELSE SellRule(proposal.qty, current)

-----------------------------------------------------------------------------
\* Shares the budget allows.  The code's round(., 9) only removes float noise
\* from the exact quotient whose floor is taken here.
VarMaxQty(var) ==
  IF var <= 0 THEN MaxPositionQty
  ELSE LET allowed == (MaxPositionQty * VarBudget) \div var
       IN  IF allowed < MaxPositionQty THEN allowed ELSE MaxPositionQty

\* The budget touches a BUY only, and only ever to shrink or veto it.
BudgetRule(ruling, current, var) ==
  IF var = NoVar \/ ruling.action # "BUY" THEN ruling
  ELSE LET room == VarMaxQty(var) - current
       IN  IF room <= 0 THEN NoTrade("VETO")
           ELSE IF ruling.qty > room THEN Rule("SCALE", "BUY", room) ELSE ruling

\* The whole node: what is decided for a proposal, a holding and a VaR.
Gate(proposal, current, var) ==
  BudgetRule(V1Rules(proposal, current), current, var)

\* Mutant of RiskFlags: a scaled BUY is not flagged, so nobody explains it.
RiskFlagsNoScale(proposal, current, var) ==
  IF var = NoVar THEN {"var_unavailable"}
  ELSE {f \in {"over_var_budget", "var_budget_veto"} :
          \/ f = "over_var_budget" /\ current > VarMaxQty(var)
          \/ /\ f = "var_budget_veto"
             /\ V1Rules(proposal, current).action = "BUY"
             /\ VarMaxQty(var) <= current}

\* The budget part of risk_flags (correlation flags change no decision).
RiskFlags(proposal, current, var) ==
  IF var = NoVar THEN {"var_unavailable"}
  ELSE LET v1   == V1Rules(proposal, current)
           room == VarMaxQty(var) - current
       IN  {f \in {"over_var_budget", "var_budget_veto", "var_budget_scale"} :
              \/ f = "over_var_budget" /\ room < 0
              \/ f = "var_budget_veto" /\ v1.action = "BUY" /\ room <= 0
              \/ f = "var_budget_scale" /\ v1.action = "BUY" /\ room > 0 /\ v1.qty > room}

-----------------------------------------------------------------------------
\* position_after (var_forecasts.py): the holding written beside the forecast.
PositionAfter(current, action, qty) ==
  IF action = "BUY" THEN current + qty
  ELSE IF action = "SELL" THEN current - qty ELSE current

\* What the ledger makes of a ruling: _record_paper_trade and
\* _record_backtest_trade return at once on HOLD or quantity <= 0.
LedgerAfter(current, action, qty) ==
  IF qty <= 0 THEN current ELSE PositionAfter(current, action, qty)
=============================================================================
