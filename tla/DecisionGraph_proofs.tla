-------------------------- MODULE DecisionGraph_proofs --------------------------
(***************************************************************************)
(* What the risk node decides, for every proposal, holding, VaR, cap and   *)
(* budget: the ruling is the largest part of the proposal that the limits  *)
(* allow, and the position stored with a forecast is what the ledger holds.*)
(* And what the explainer adds: it explains what the budget changed, its   *)
(* citation check means what it says, and the trace alone repeats it.      *)
(***************************************************************************)
EXTENDS DecisionGraph, TradingFacts

-----------------------------------------------------------------------------
(* The limit *)

\* The limit as the code computes it (var_max_qty, or the cap alone).
LimitFor(v) == IF v = NoVar THEN MaxPositionQty ELSE VarMaxQty(v)

\* A floor quotient is the only number of shares whose VaR fits the budget while
\* one share more would not.
LEMMA Quotient ==
  ASSUME NEW x \in Nat, NEW v \in Nat, v > 0
  PROVE  /\ x \div v \in Nat
         /\ (x \div v) * v <= x /\ (x \div v + 1) * v > x
         /\ \A n \in Nat : n * v <= x /\ (n + 1) * v > x => n = x \div v
<1>1. PICK q \in Int : q = x \div v
  OBVIOUS
<1>2. q >= 0 /\ q * v <= x /\ x < q * v + v
  BY <1>1
<1>3. ASSUME NEW n \in Nat, n * v <= x, (n + 1) * v > x
      PROVE  n = q
  <2>1. (n + 1) * v = n * v + v /\ (q + 1) * v = q * v + v
    BY <1>1
  <2>2. CASE n < q
    <3>1. (n + 1) * v <= q * v
      BY <1>1, <2>2
    <3> QED BY <1>2, <1>3, <3>1
  <2>3. CASE q < n
    <3>1. (q + 1) * v <= n * v
      BY <1>1, <2>3
    <3> QED BY <1>2, <1>3, <2>1, <3>1
  <2> QED BY <1>1, <2>2, <2>3
<1> QED BY <1>1, <1>2, <1>3

LEMMA LimitIs ==
  ASSUME var \in Int \cup {NoVar}
  PROVE  Limit = LimitFor(var) /\ Limit \in 0..MaxPositionQty
<1>1. CASE var = NoVar
  BY <1>1, RiskConstants DEF Limit, LimitFor
<1>2. CASE var # NoVar /\ var <= 0
  BY <1>2, RiskConstants DEF Limit, LimitFor, VarMaxQty
<1> DEFINE x == MaxPositionQty * VarBudget
           q == x \div var
<1>3. CASE var # NoVar /\ var > 0
  <2>1. x \in Nat /\ var \in Nat /\ MaxPositionQty \in Nat /\ VarBudget \in Nat
    BY <1>3, RiskConstants
  <2>2. /\ q \in Nat /\ q * var <= x /\ (q + 1) * var > x
        /\ \A n \in Nat : n * var <= x /\ (n + 1) * var > x => n = q
    BY <1>3, <2>1, Quotient
  <2>3. LimitFor(var) = IF q < MaxPositionQty THEN q ELSE MaxPositionQty
    BY <1>3 DEF LimitFor, VarMaxQty
  <2> HIDE DEF q, x
  <2>4. CASE var <= VarBudget
    <3>1. MaxPositionQty * var <= x
      BY <2>1, <2>4 DEF x
    <3>2. ~(q < MaxPositionQty)
      <4>1. SUFFICES ASSUME q < MaxPositionQty PROVE FALSE
        OBVIOUS
      <4>2. (q + 1) * var <= MaxPositionQty * var
        BY <2>1, <2>2, <4>1
      <4> QED BY <2>1, <2>2, <3>1, <4>2
    <3> QED BY <1>3, <2>1, <2>3, <2>4, <3>2 DEF Limit
  <2>5. CASE var > VarBudget
    <3>1. MaxPositionQty * var > x
      BY <2>1, <2>5, RiskConstants DEF x
    <3>2. q < MaxPositionQty
      <4>1. SUFFICES ASSUME q >= MaxPositionQty PROVE FALSE
        BY <2>1, <2>2
      <4>2. MaxPositionQty * var <= q * var
        BY <2>1, <2>2, <4>1
      <4> QED BY <2>1, <2>2, <3>1, <4>2
    <3>3. q \in 0..MaxPositionQty
      BY <2>1, <2>2, <3>2
    <3>4. Limit = CHOOSE n \in 0..MaxPositionQty : n * var <= x /\ (n + 1) * var > x
      BY <1>3, <2>1, <2>5 DEF Limit, x
    <3>5. \A n \in 0..MaxPositionQty : (n * var <= x /\ (n + 1) * var > x) <=> n = q
      BY <2>1, <2>2
    <3>6. Limit = q
      BY <3>3, <3>4, <3>5
    <3> QED BY <2>3, <3>2, <3>3, <3>6
  <2> QED BY <2>1, <2>4, <2>5
<1> QED BY <1>1, <1>2, <1>3

-----------------------------------------------------------------------------
(* The ruling *)

\* What a proposal asks for, and the parts of it that limit and holding allow.
Asked(p) == IF p.action = "HOLD" THEN 0 ELSE p.qty

PartOf(p, held, limit, n) ==
  CASE p.action = "BUY"  -> n = 0 \/ held + n <= limit
    [] p.action = "SELL" -> n <= held
    [] p.action = "HOLD" -> n = 0

\* risk_manager's two layers, against that definition.
LEMMA GateIsLargest ==
  ASSUME NEW p \in Proposal, p.qty >= 0, NEW held \in Nat, NEW v \in Int \cup {NoVar},
         NEW limit, limit = LimitFor(v), NEW r, r = Gate(p, held, v)
  PROVE  /\ r.qty \in 0..Asked(p) /\ PartOf(p, held, limit, r.qty)
         /\ \A n \in 0..Asked(p) : PartOf(p, held, limit, n) => n <= r.qty
         /\ r.action = IF r.qty = 0 THEN "HOLD" ELSE p.action
         /\ r.verdict = IF r.qty = Asked(p) THEN "APPROVE" ELSE IF r.qty = 0 THEN "VETO" ELSE "SCALE"
<1>1. limit \in 0..MaxPositionQty /\ MaxPositionQty \in Nat
  BY VarMaxQtyRange, RiskConstants DEF LimitFor
<1>2. p.action \in Trades /\ p.qty \in Nat
  BY DEF Proposal
<1>3. CASE p.action = "HOLD" \/ p.qty = 0
  <2>1. V1Rules(p, held) = NoTrade("APPROVE")
    BY <1>3 DEF V1Rules
  <2>2. r = Rule("APPROVE", "HOLD", 0)
    BY <2>1 DEF Gate, BudgetRule, NoTrade, Rule
  <2>3. r.qty = 0 /\ r.action = "HOLD" /\ r.verdict = "APPROVE"
    BY <2>2 DEF Rule
  <2>4. Asked(p) = 0
    BY <1>3 DEF Asked
  <2>5. PartOf(p, held, limit, 0)
    <3>1. CASE p.action = "BUY"
      BY <3>1 DEF PartOf
    <3>2. CASE p.action = "SELL"
      BY <3>2 DEF PartOf
    <3>3. CASE p.action = "HOLD"
      BY <3>3 DEF PartOf
    <3> QED BY <1>2, <3>1, <3>2, <3>3 DEF Trades
  <2> QED BY <2>3, <2>4, <2>5
<1>4. CASE p.action = "SELL" /\ p.qty > 0
  <2>1. V1Rules(p, held) = SellRule(p.qty, held)
    BY <1>2, <1>4 DEF V1Rules
  <2>2. r = SellRule(p.qty, held)
    BY <2>1 DEF Gate, BudgetRule, SellRule, NoTrade, Rule
  <2> QED BY <1>2, <1>4, <2>2 DEF SellRule, NoTrade, Rule, Asked, PartOf
<1>5. CASE p.action = "BUY" /\ p.qty > 0
  <2>1. V1Rules(p, held) = BuyRule(p.qty, held)
    BY <1>2, <1>5 DEF V1Rules
  <2>2. r = IF limit <= held THEN NoTrade("VETO")
            ELSE IF held + p.qty > limit THEN Rule("SCALE", "BUY", limit - held)
                 ELSE Rule("APPROVE", "BUY", p.qty)
    <3>1. CASE v = NoVar
      BY <1>1, <1>2, <2>1, <3>1 DEF Gate, BudgetRule, LimitFor, BuyRule
    <3>2. CASE v # NoVar
      <4>1. limit = VarMaxQty(v)
        BY <3>2 DEF LimitFor
      <4> QED
        BY <1>1, <1>2, <2>1, <3>2, <4>1 DEF Gate, BudgetRule, BuyRule, NoTrade, Rule
    <3> QED BY <3>1, <3>2
  <2>3. /\ Asked(p) = p.qty
        /\ \A n : PartOf(p, held, limit, n) <=> n = 0 \/ held + n <= limit
    BY <1>5 DEF Asked, PartOf
  <2>4. CASE limit <= held
    BY <1>1, <1>2, <1>5, <2>2, <2>3, <2>4 DEF NoTrade, Rule
  <2>5. CASE limit > held /\ held + p.qty > limit
    <3>1. r.qty = limit - held /\ r.action = "BUY" /\ r.verdict = "SCALE"
      BY <1>1, <2>2, <2>5 DEF Rule
    <3> QED BY <1>1, <1>2, <1>5, <2>3, <2>5, <3>1
  <2>6. CASE held + p.qty <= limit
    <3>1. r.qty = p.qty /\ r.action = "BUY" /\ r.verdict = "APPROVE"
      BY <1>1, <1>2, <1>5, <2>2, <2>6 DEF Rule
    <3> QED BY <1>1, <1>2, <1>5, <2>3, <2>6, <3>1
  <2> QED BY <1>1, <1>2, <2>4, <2>5, <2>6
<1> QED BY <1>2, <1>3, <1>4, <1>5 DEF Trades

-----------------------------------------------------------------------------
(* The invariant *)

\* Once the risk node has run, what it read and ruled stays as it was; the
\* explainer only runs after it; and what is recorded is that ruling.
GInv ==
  /\ stage \in [Nodes -> Stages]
  /\ stage["portfolio_manager"] = "done" => proposal \in Proposals
  /\ stage["risk_manager"] = "done" =>
       /\ stage["portfolio_manager"] = "done"
       /\ current \in Holdings /\ var \in Vars \cup {NoVar}
       /\ ruling = Gate(proposal, current, var)
  /\ stage["explainer"] \notin {"absent", "waiting"} => stage["risk_manager"] = "done"
  /\ stage["technical_analyst"] # "done" => stage["portfolio_manager"] = "waiting"
  /\ stage["risk_manager"] \in {"waiting", "done"}
  /\ outcome = "recorded" =>
       /\ stage["risk_manager"] = "done"
       /\ saved.decision = ruling
       /\ saved.forecast = IF var = NoVar THEN None ELSE ForecastPosition
       /\ saved.held = IF priced THEN LedgerAfter(current, ruling.action, ruling.qty) ELSE current

LEMMA GInvInit == Init => GInv
BY DEF Init, GInv, Nodes, Analysts, Stages

LEMMA GInvNext == GInv /\ [Next]_vars => GInv'
<1> SUFFICES ASSUME GInv, [Next]_vars PROVE GInv'
  OBVIOUS
<1> USE DEF Nodes, Analysts, Stages
<1>1. CASE TechnicalAnalyst
  BY <1>1 DEF GInv, TechnicalAnalyst, Runs, To, risk, recorder, ForecastPosition
<1>2. CASE SentimentReads
  BY <1>2 DEF GInv, SentimentReads, Runs, To, opinions, risk, ForecastPosition
<1>3. CASE SentimentReplies
  BY <1>3 DEF GInv, SentimentReplies, To, opinions, risk, ForecastPosition
<1>4. CASE PortfolioManagerAsks
  BY <1>4 DEF GInv, PortfolioManagerAsks, Runs, To, opinions, risk, ForecastPosition
<1>5. CASE PortfolioManagerReplies
  BY <1>5 DEF GInv, PortfolioManagerReplies, To, risk, ForecastPosition
<1>6. CASE RiskManager
  BY <1>6 DEF GInv, RiskManager, Runs, To, opinions, ForecastPosition
<1>7. CASE ExplainerStarts
  BY <1>7 DEF GInv, ExplainerStarts, Runs, To, opinions, risk, recorder, ForecastPosition
<1>8. CASE Retrieve
  BY <1>8 DEF GInv, Retrieve, opinions, risk, ForecastPosition
<1>9. CASE ExplainerAsks
  BY <1>9 DEF GInv, ExplainerAsks, To, opinions, risk, ForecastPosition
<1>10. CASE ExplainerReplies
  BY <1>10 DEF GInv, ExplainerReplies, To, opinions, risk, ForecastPosition
<1>11. CASE \E n \in Nodes : CallFails(n)
  BY <1>11 DEF GInv, CallFails, opinions, risk
<1>12. CASE Record
  BY <1>12 DEF GInv, Record, Finished, HasExplainer, opinions, risk, recorder, ForecastPosition
<1>13. CASE RecordRefused
  BY <1>13 DEF GInv, RecordRefused, opinions, risk, recorder
<1>14. CASE UNCHANGED vars
  BY <1>14 DEF GInv, vars, opinions, risk, recorder, ForecastPosition
<1> QED
  BY <1>1, <1>2, <1>3, <1>4, <1>5, <1>6, <1>7, <1>8, <1>9, <1>10, <1>11, <1>12, <1>13, <1>14
  DEF Next

-----------------------------------------------------------------------------
(* The explanation *)

\* The triggering flags are raised exactly when the budget changes the trade
\* (risk_manager.py sets flags and ruling in separate branches).
LEMMA FlagsTellBudget ==
  ASSUME NEW p \in Proposal, NEW held \in Int, NEW v \in Int \cup {NoVar}
  PROVE  RiskFlags(p, held, v) \cap {"var_budget_scale", "var_budget_veto"} = {}
           <=> Gate(p, held, v) = V1Rules(p, held)
<1> DEFINE v1 == V1Rules(p, held)
           room == VarMaxQty(v) - held
           fired == RiskFlags(p, held, v) \cap {"var_budget_scale", "var_budget_veto"}
<1>1. v1 \in Ruling
  BY V1RulesType
<1>2. CASE v = NoVar
  BY <1>2 DEF RiskFlags, Gate, BudgetRule
<1>3. CASE v # NoVar
  <2>1. room \in Int
    BY <1>3, VarMaxQtyRange, RiskConstants
  <2>2. RiskFlags(p, held, v) =
          {f \in {"over_var_budget", "var_budget_veto", "var_budget_scale"} :
              \/ f = "over_var_budget" /\ room < 0
              \/ f = "var_budget_veto" /\ v1.action = "BUY" /\ room <= 0
              \/ f = "var_budget_scale" /\ v1.action = "BUY" /\ room > 0 /\ v1.qty > room}
    BY <1>3 DEF RiskFlags
  <2>3. Gate(p, held, v) = IF v1.action # "BUY" THEN v1
                           ELSE IF room <= 0 THEN NoTrade("VETO")
                           ELSE IF v1.qty > room THEN Rule("SCALE", "BUY", room) ELSE v1
    BY <1>3 DEF Gate, BudgetRule
  <2> HIDE DEF v1, room
  <2>4. fired = {} <=> v1.action # "BUY" \/ (room > 0 /\ ~(v1.qty > room))
    BY <1>1, <2>1, <2>2 DEF Ruling
  <2>5. NoTrade("VETO").action = "HOLD" /\ Rule("SCALE", "BUY", room).qty = room
    BY DEF NoTrade, Rule
  <2>6. v1.action = "BUY" => v1 # NoTrade("VETO")
    BY <2>5
  <2>7. v1.qty > room => v1 # Rule("SCALE", "BUY", room)
    BY <1>1, <2>1, <2>5 DEF Ruling
  <2>8. Gate(p, held, v) = v1 <=> v1.action # "BUY" \/ (room > 0 /\ ~(v1.qty > room))
    BY <1>1, <2>1, <2>3, <2>6, <2>7 DEF Ruling
  <2> QED BY <2>4, <2>8 DEF v1
<1> QED BY <1>2, <1>3

\* The driver days are different days (one return per session), all on record.
LEMMA DriversFacts ==
  /\ Len(Drivers) \in Nat /\ DOMAIN Drivers = 1..Len(Drivers)
  /\ \A i \in 1..Len(Drivers) : Drivers[i] \in DOMAIN HeadlinesFor
  /\ \A i, j \in 1..Len(Drivers) : Drivers[i] = Drivers[j] => i = j
  /\ Drivers = <<>> <=> Len(Drivers) = 0
<1> DEFINE n == IF Len(TailDays) < DriverDays THEN Len(TailDays) ELSE DriverDays
<1>1. TailDays \in Seq(DOMAIN HeadlinesFor) /\ IsInjective(TailDays) /\ DriverDays \in Nat
  BY GraphConstants
<1>2. n \in 0..Len(TailDays) /\ DOMAIN TailDays = 1..Len(TailDays) /\ Len(TailDays) \in Nat
  BY <1>1
<1>3. Drivers = SubSeq(TailDays, 1, n)
  BY DEF Drivers
<1> HIDE DEF n
<1>4. /\ Drivers \in Seq(DOMAIN HeadlinesFor) /\ Len(Drivers) = n
      /\ \A i \in 1..n : Drivers[i] = TailDays[i]
  BY <1>1, <1>2, <1>3
<1>5. \A i \in 1..n : TailDays[i] \in DOMAIN HeadlinesFor
  BY <1>1, <1>2
<1>6. \A i, j \in 1..n : TailDays[i] = TailDays[j] => i = j
  BY <1>1, <1>2 DEF IsInjective
<1> QED BY <1>2, <1>4, <1>5, <1>6

\* What the explainer has looked up after k driver days.
Found(k) == [d \in {Drivers[i] : i \in 1..k} |-> HeadlinesFor[d]]

\* The explainer works through the driver days in order, asks its model only
\* when a trigger fired and there is such a day, and what it stores was checked
\* against the headlines of every one of them.
EInv ==
  /\ stage["risk_manager"] = "done" => flags = RiskFlags(proposal, current, var)
  /\ \E k \in 0..Len(Drivers) :
       /\ retrieved = Found(k)
       /\ IsFiniteSet(DOMAIN retrieved) /\ Cardinality(DOMAIN retrieved) = k
       /\ stage["explainer"] \in {"absent", "waiting"} => k = 0
       /\ stage["explainer"] = "asking" => k = Len(Drivers)
  /\ stage["explainer"] \in {"retrieving", "asking"} => Triggers # {} /\ Drivers # <<>>
  /\ stage["explainer"] # "done" => explanation = None
  /\ stage["explainer"] = "done" =>
       IF Triggers = {} \/ Drivers = <<>> THEN explanation = None
       ELSE /\ retrieved = Found(Len(Drivers))
            /\ \E reply \in Replies : explanation = Explanation(reply, Triggers, retrieved)
  /\ outcome = "recorded" => Finished /\ saved.explanation = explanation

\* What one more look-up makes of the dictionary.
LEMMA FoundFacts ==
  /\ Found(0) = <<>> /\ IsFiniteSet(DOMAIN Found(0)) /\ Cardinality(DOMAIN Found(0)) = 0
  /\ \A k \in 0..Len(Drivers) : k < Len(Drivers) =>
       LET day == Drivers[k + 1]
       IN  /\ day \notin DOMAIN Found(k)
           /\ [d \in DOMAIN Found(k) \cup {day} |->
                 IF d = day THEN HeadlinesFor[day] ELSE Found(k)[d]] = Found(k + 1)
<1>1. /\ Len(Drivers) \in Nat
      /\ \A i, j \in 1..Len(Drivers) : Drivers[i] = Drivers[j] => i = j
  BY DriversFacts
<1>2. {Drivers[i] : i \in 1..0} = {}
  OBVIOUS
<1>3. DOMAIN Found(0) = {} /\ Found(0) = <<>>
  BY <1>2 DEF Found
<1>4. ASSUME NEW k \in 0..Len(Drivers), k < Len(Drivers), NEW day, day = Drivers[k + 1]
      PROVE  /\ day \notin DOMAIN Found(k)
             /\ [d \in DOMAIN Found(k) \cup {day} |->
                   IF d = day THEN HeadlinesFor[day] ELSE Found(k)[d]] = Found(k + 1)
  <2> DEFINE S == {Drivers[i] : i \in 1..k}
             T == {Drivers[i] : i \in 1..(k + 1)}
  <2>1. day \notin S
    BY <1>1, <1>4
  <2>2. T = S \cup {day}
    BY <1>1, <1>4
  <2>3. Found(k) = [d \in S |-> HeadlinesFor[d]] /\ Found(k + 1) = [d \in T |-> HeadlinesFor[d]]
    BY DEF Found
  <2> HIDE DEF S, T
  <2> QED BY <2>1, <2>2, <2>3
<1> QED BY <1>3, <1>4, FS_EmptySet

LEMMA EInvInit == Init => EInv
<1> SUFFICES ASSUME Init PROVE EInv
  OBVIOUS
<1>1. /\ stage["explainer"] \in {"absent", "waiting"} /\ stage["risk_manager"] = "waiting"
      /\ retrieved = <<>> /\ explanation = None /\ outcome = "running"
  BY DEF Init, Nodes, Analysts
<1>2. 0 \in 0..Len(Drivers)
  BY DriversFacts
<1>3. retrieved = Found(0) /\ IsFiniteSet(DOMAIN retrieved) /\ Cardinality(DOMAIN retrieved) = 0
  BY <1>1, FoundFacts
<1> QED BY <1>1, <1>2, <1>3 DEF EInv

LEMMA EInvNext == GInv /\ EInv /\ [Next]_vars => EInv'
<1> SUFFICES ASSUME GInv, EInv, [Next]_vars PROVE EInv'
  OBVIOUS
<1> USE DEF Nodes, Analysts, Stages
<1>1. CASE TechnicalAnalyst
  BY <1>1 DEF GInv, EInv, TechnicalAnalyst, Runs, To, risk, recorder, Triggers, Finished, HasExplainer
<1>2. CASE SentimentReads
  BY <1>2 DEF GInv, EInv, SentimentReads, Runs, To, opinions, risk, Triggers, Finished, HasExplainer
<1>3. CASE SentimentReplies
  BY <1>3 DEF GInv, EInv, SentimentReplies, To, opinions, risk, Triggers, Finished, HasExplainer
<1>4. CASE PortfolioManagerAsks
  BY <1>4 DEF GInv, EInv, PortfolioManagerAsks, Runs, To, opinions, risk, Triggers, Finished, HasExplainer
<1>5. CASE PortfolioManagerReplies
  BY <1>5 DEF GInv, EInv, PortfolioManagerReplies, To, risk, Triggers, Finished, HasExplainer
<1>6. CASE RiskManager
  BY <1>6 DEF GInv, EInv, RiskManager, Runs, To, opinions, Triggers, Finished, HasExplainer
<1>7. CASE ExplainerStarts
  BY <1>7 DEF GInv, EInv, ExplainerStarts, Runs, To, opinions, risk, recorder, Triggers, Finished, HasExplainer
<1>8. CASE Retrieve
  <2> DEFINE done == Cardinality(DOMAIN retrieved)
             day  == Drivers[done + 1]
  <2>1. /\ stage["explainer"] = "retrieving" /\ outcome = "running" /\ done < Len(Drivers)
        /\ retrieved' = [d \in DOMAIN retrieved \cup {day} |->
                           IF d = day THEN HeadlinesFor[day] ELSE retrieved[d]]
        /\ UNCHANGED <<stage, proposal, current, var, flags, explanation, outcome, saved>>
    BY <1>8 DEF Retrieve, opinions, risk
  <2>2. /\ done \in 0..Len(Drivers) /\ retrieved = Found(done)
        /\ IsFiniteSet(DOMAIN retrieved)
    BY DEF EInv
  <2> HIDE DEF done
  <2>3. day \notin DOMAIN retrieved /\ retrieved' = Found(done + 1)
    BY <2>1, <2>2, FoundFacts
  <2>4. DOMAIN retrieved' = DOMAIN retrieved \cup {day}
    BY <2>1
  <2>5. IsFiniteSet(DOMAIN retrieved') /\ Cardinality(DOMAIN retrieved') = done + 1
    BY <2>2, <2>3, <2>4, FS_AddElement DEF done
  <2>6. done + 1 \in 0..Len(Drivers)
    BY <2>1, <2>2, DriversFacts
  <2> QED BY <2>1, <2>3, <2>5, <2>6 DEF EInv, Triggers, Finished, HasExplainer
<1>9. CASE ExplainerAsks
  BY <1>9 DEF GInv, EInv, ExplainerAsks, To, opinions, risk, Triggers, Finished, HasExplainer
<1>10. CASE ExplainerReplies
  BY <1>10 DEF GInv, EInv, ExplainerReplies, To, opinions, risk, Triggers, Finished, HasExplainer
<1>11. CASE \E n \in Nodes : CallFails(n)
  BY <1>11 DEF GInv, EInv, CallFails, opinions, risk, Triggers, Finished, HasExplainer
<1>12. CASE Record
  <2>1. /\ UNCHANGED <<stage, proposal, current, var, flags, retrieved, explanation>>
        /\ Finished /\ outcome = "running"
        /\ outcome' = "recorded" => saved'.explanation = explanation
    BY <1>12 DEF Record, opinions, risk
  <2>2. Finished' = Finished /\ Triggers' = Triggers
    BY <2>1 DEF Finished, HasExplainer, Triggers
  <2> QED BY <2>1, <2>2 DEF EInv
<1>13. CASE RecordRefused
  BY <1>13 DEF GInv, EInv, RecordRefused, opinions, risk, recorder, Triggers, Finished, HasExplainer
<1>14. CASE UNCHANGED vars
  BY <1>14 DEF GInv, EInv, vars, opinions, risk, recorder, Triggers, Finished, HasExplainer
<1> QED
  BY <1>1, <1>2, <1>3, <1>4, <1>5, <1>6, <1>7, <1>8, <1>9, <1>10, <1>11, <1>12, <1>13, <1>14
  DEF Next

-----------------------------------------------------------------------------
(* Theorems *)

\* What the trace audit and the backtests rely on: a recorded decision executes
\* the largest part of its proposal that cap, VaR budget and holding allow, and
\* its verdict says so (risk_manager.py; a VaR that is no number counts as none).
THEOREM RulingsAreLargest == Spec => []RulingIsLargestAllowed
<1>1. GInv => RulingIsLargestAllowed
  <2> SUFFICES ASSUME GInv, outcome = "recorded", proposal.qty >= 0
               PROVE  RulingIsLargestAllowed
    BY DEF RulingIsLargestAllowed
  <2>1. /\ proposal \in Proposal /\ current \in Nat /\ var \in Int \cup {NoVar}
        /\ saved.decision = Gate(proposal, current, var)
    BY GraphConstants DEF GInv
  <2>2. PICK r, p, held, v, limit :
          r = saved.decision /\ p = proposal /\ held = current /\ v = var /\ limit = Limit
    OBVIOUS
  <2>3. Limit = LimitFor(var)
    BY <2>1, LimitIs
  <2>4. /\ r.qty \in 0..Asked(proposal) /\ PartOf(proposal, current, Limit, r.qty)
        /\ \A n \in 0..Asked(proposal) : PartOf(proposal, current, Limit, n) => n <= r.qty
        /\ r.action = IF r.qty = 0 THEN "HOLD" ELSE proposal.action
        /\ r.verdict = IF r.qty = Asked(proposal) THEN "APPROVE"
                       ELSE IF r.qty = 0 THEN "VETO" ELSE "SCALE"
    <3>1. /\ p \in Proposal /\ p.qty >= 0 /\ held \in Nat /\ v \in Int \cup {NoVar}
          /\ limit = LimitFor(v) /\ r = Gate(p, held, v)
      BY <2>1, <2>2, <2>3
    <3>2. /\ r.qty \in 0..Asked(p) /\ PartOf(p, held, limit, r.qty)
          /\ \A n \in 0..Asked(p) : PartOf(p, held, limit, n) => n <= r.qty
          /\ r.action = IF r.qty = 0 THEN "HOLD" ELSE p.action
          /\ r.verdict = IF r.qty = Asked(p) THEN "APPROVE"
                         ELSE IF r.qty = 0 THEN "VETO" ELSE "SCALE"
      BY <3>1, GateIsLargest
    <3> QED BY <2>2, <3>2
  <2> QED BY <2>2, <2>4 DEF RulingIsLargestAllowed, Asked, PartOf
<1> QED BY <1>1, GInvInit, GInvNext, PTL DEF Spec

\* The position written beside a forecast is the one the ledger arrives at, except
\* when a trade was ruled that has no price to be filled at (record_var_forecast
\* and _record_backtest_trade go by different conditions).
THEOREM ForecastsShowHoldings == Spec => []ForecastPositionIsHeld
<1>1. GInv => ForecastPositionIsHeld
  <2> SUFFICES ASSUME GInv, outcome = "recorded", saved.forecast # None, proposal.qty >= 0
               PROVE  saved.forecast = saved.held <=> priced \/ saved.decision.action = "HOLD"
    BY DEF ForecastPositionIsHeld
  <2>1. /\ proposal \in Proposal /\ current \in Nat /\ var \in Int \cup {NoVar}
        /\ ruling = Gate(proposal, current, var) /\ saved.decision = ruling
        /\ saved.forecast = PositionAfter(current, ruling.action, ruling.qty)
        /\ saved.held = IF priced THEN LedgerAfter(current, ruling.action, ruling.qty) ELSE current
    BY GraphConstants DEF GInv, ForecastPosition
  <2>2. ruling.qty \in Nat /\ ruling.action \in {"BUY", "SELL", "HOLD"}
        /\ (ruling.action = "HOLD" <=> ruling.qty = 0)
    <3>1. /\ ruling.qty \in 0..Asked(proposal)
          /\ ruling.action = IF ruling.qty = 0 THEN "HOLD" ELSE proposal.action
      BY <2>1, GateIsLargest
    <3>2. Asked(proposal) = IF proposal.action = "HOLD" THEN 0 ELSE proposal.qty
      BY DEF Asked
    <3>3. proposal.action \in {"BUY", "SELL", "HOLD"}
      BY <2>1 DEF Proposal, Trades
    <3> QED BY <3>1, <3>2, <3>3
  <2>3. /\ LedgerAfter(current, ruling.action, ruling.qty)
             = PositionAfter(current, ruling.action, ruling.qty)
        /\ PositionAfter(current, ruling.action, ruling.qty) = current <=> ruling.action = "HOLD"
    BY <2>1, <2>2 DEF PositionAfter, LedgerAfter
  <2> QED BY <2>1, <2>3
<1> QED BY <1>1, GInvInit, GInvNext, PTL DEF Spec

LEMMA AllFound == Found(Len(Drivers)) = [d \in ToSet(Drivers) |-> HeadlinesFor[d]]
<1>1. ToSet(Drivers) = {Drivers[i] : i \in 1..Len(Drivers)}
  BY DriversFacts DEF ToSet
<1> QED BY <1>1 DEF Found

\* What a recorded explanation is.
LEMMA ExplanationFacts ==
  ASSUME GInv, EInv, outcome = "recorded"
  PROVE  /\ saved.explanation # None <=> HasExplainer /\ Drivers # <<>> /\ Triggers # {}
         /\ saved.explanation # None =>
              \E reply \in Replies :
                saved.explanation =
                  Explanation(reply, Triggers, [d \in ToSet(Drivers) |-> HeadlinesFor[d]])
<1>1. saved.explanation = explanation /\ Finished
  BY DEF EInv
<1>2. CASE ~HasExplainer
  <2>1. explanation = None
    BY <1>2 DEF EInv, HasExplainer
  <2> QED BY <1>1, <1>2, <2>1
<1>3. CASE HasExplainer
  <2>1. stage["explainer"] = "done"
    BY <1>1, <1>3 DEF Finished
  <2>2. CASE Triggers = {} \/ Drivers = <<>>
    BY <1>1, <2>1, <2>2 DEF EInv
  <2>3. CASE ~(Triggers = {} \/ Drivers = <<>>)
    <3>1. PICK reply \in Replies :
            explanation = Explanation(reply, Triggers, Found(Len(Drivers)))
      BY <2>1, <2>3 DEF EInv
    <3>2. Triggers \in SUBSET {"var_budget_scale", "var_budget_veto"}
      BY DEF Triggers
    <3> QED BY <1>1, <1>3, <2>3, <3>1, <3>2, AllFound, NoneIsNoExplanation
  <2> QED BY <2>2, <2>3
<1> QED BY <1>2, <1>3

\* An explanation is stored for a decision exactly when the VaR budget changed
\* it: a BUY that the share cap alone refused or shrunk has none, and one that
\* the budget shrunk has one however the flags came about (explainer.triggered).
THEOREM BudgetChangesAreExplained == Spec => []ExplainedIffBudgetChanged
<1>1. GInv /\ EInv => ExplainedIffBudgetChanged
  <2> SUFFICES ASSUME GInv, EInv, outcome = "recorded" PROVE ExplainedIffBudgetChanged
    BY DEF ExplainedIffBudgetChanged
  <2>1. /\ proposal \in Proposal /\ current \in Int /\ var \in Int \cup {NoVar}
        /\ flags = RiskFlags(proposal, current, var)
    <3>1. stage["risk_manager"] = "done" /\ stage["portfolio_manager"] = "done"
      BY DEF GInv
    <3>2. proposal \in Proposals /\ current \in Holdings /\ var \in Vars \cup {NoVar}
      BY <3>1 DEF GInv
    <3>3. flags = RiskFlags(proposal, current, var)
      BY <3>1 DEF EInv
    <3> QED BY <3>2, <3>3, GraphConstants
  <2>2. PICK p, held, v : p = proposal /\ held = current /\ v = var
    OBVIOUS
  <2>3. Triggers = {} <=> Gate(p, held, v) = V1Rules(p, held)
    BY <2>1, <2>2, FlagsTellBudget DEF Triggers
  <2> QED BY <2>2, <2>3, ExplanationFacts DEF ExplainedIffBudgetChanged
<1> QED BY <1>1, GInvInit, GInvNext, EInvInit, EInvNext, PTL DEF Spec

\* No citation problem is left exactly when each day has an entry, no other day
\* has one, and each entry cites of what was found for its day.
LEMMA NoProblem ==
  ASSUME NEW reply, NEW found
  PROVE  Problems(reply, found) = {}
           <=> /\ {reply[i].day : i \in DOMAIN reply} = DOMAIN found
               /\ \A i \in DOMAIN reply : ToSet(reply[i].ids) \subseteq ToSet(found[reply[i].day])
<1> DEFINE days == {reply[i].day : i \in DOMAIN reply}
           unknown == {<<"unknown date", d>> : d \in days \ DOMAIN found}
           missing == {<<"no driver entry", d>> : d \in DOMAIN found \ days}
           wrong(i) == {<<"not retrieved", h, reply[i].day>> :
                          h \in ToSet(reply[i].ids) \ Allowed(found, reply[i].day)}
<1>1. Problems(reply, found) = unknown \cup missing \cup UNION {wrong(i) : i \in DOMAIN reply}
  BY DEF Problems
<1>2. unknown = {} /\ missing = {} <=> days = DOMAIN found
  OBVIOUS
<1>3. \A i \in DOMAIN reply :
        wrong(i) = {} <=> ToSet(reply[i].ids) \subseteq Allowed(found, reply[i].day)
  OBVIOUS
<1>4. days = DOMAIN found =>
        \A i \in DOMAIN reply : Allowed(found, reply[i].day) = ToSet(found[reply[i].day])
  BY DEF Allowed
<1>5. UNION {wrong(i) : i \in DOMAIN reply} = {} <=> \A i \in DOMAIN reply : wrong(i) = {}
  OBVIOUS
<1> HIDE DEF days, unknown, missing, wrong
<1>6. Problems(reply, found) = {}
        <=> /\ days = DOMAIN found
            /\ \A i \in DOMAIN reply : ToSet(reply[i].ids) \subseteq Allowed(found, reply[i].day)
  BY <1>1, <1>2, <1>3, <1>5
<1> QED BY <1>4, <1>6 DEF days

\* citations_valid means what it says: one entry or more for every loss date the
\* model was shown and none for another, citing only headlines that were
\* retrieved for that date (explainer.validate, after up to five look-ups).
THEOREM ValidIsGrounded == Spec => []ValidMeansGrounded
<1>1. GInv /\ EInv => ValidMeansGrounded
  <2> SUFFICES ASSUME GInv, EInv, outcome = "recorded", saved.explanation # None
               PROVE  ValidMeansGrounded
    BY DEF ValidMeansGrounded
  <2> DEFINE all == [d \in ToSet(Drivers) |-> HeadlinesFor[d]]
  <2>1. PICK reply \in Replies : saved.explanation = Explanation(reply, Triggers, all)
    BY ExplanationFacts
  <2>2. /\ saved.explanation.reply = reply
        /\ saved.explanation.check.valid = (Problems(reply, all) = {})
    <3>1. saved.explanation.reply = reply /\ saved.explanation.check = Checked(reply, all)
      BY <2>1 DEF Explanation
    <3>2. Checked(reply, all).valid = (Problems(reply, all) = {})
      BY Zenon DEF Checked
    <3> QED BY <3>1, <3>2, Zenon
  <2>3. /\ DOMAIN all = ToSet(Drivers)
        /\ \A d \in ToSet(Drivers) : all[d] = HeadlinesFor[d]
    OBVIOUS
  <2> HIDE DEF all
  <2>4. saved.explanation.check.valid
          <=> /\ {reply[i].day : i \in DOMAIN reply} = ToSet(Drivers)
              /\ \A i \in DOMAIN reply : ToSet(reply[i].ids) \subseteq ToSet(all[reply[i].day])
    <3>1. Problems(reply, all) = {}
            <=> /\ {reply[i].day : i \in DOMAIN reply} = DOMAIN all
                /\ \A i \in DOMAIN reply : ToSet(reply[i].ids) \subseteq ToSet(all[reply[i].day])
      BY NoProblem
    <3> QED BY <2>2, <2>3, <3>1, Zenon
  <2>5. {reply[i].day : i \in DOMAIN reply} = ToSet(Drivers) =>
          \A i \in DOMAIN reply : all[reply[i].day] = HeadlinesFor[reply[i].day]
    BY <2>3
  <2> QED BY <2>2, <2>4, <2>5 DEF ValidMeansGrounded
<1> QED BY <1>1, GInvInit, GInvNext, EInvInit, EInvNext, PTL DEF Spec

-----------------------------------------------------------------------------
(* The trace *)

Fields == {"node", "kind", "input", "output"}

IsTrace(t) == t \in Seq(ToSet(t)) /\ \A i \in DOMAIN t : DOMAIN t[i] = Fields

\* A call under way has a step of its own that waits for the reply.
CallsAreOpen ==
  /\ outcome = "running" => \A n \in Nodes : stage[n] = "asking" => n \in DOMAIN open
  /\ \A n \in DOMAIN open :
       open[n] \in DOMAIN steps /\ steps[open[n]].node = n /\ steps[open[n]].kind = "llm"

\* The explainer's retrieval steps are its dictionary.
LookUpsAreTraced ==
  /\ \A i \in Explaining(steps, "retrieval") :
       steps[i].input \in DOMAIN retrieved /\ steps[i].output = HeadlinesFor[steps[i].input]
  /\ \A d \in DOMAIN retrieved : \E i \in Explaining(steps, "retrieval") : steps[i].input = d

\* It has one model step at most, and that one holds the reply it was made of.
ReplyIsTraced ==
  /\ stage["explainer"] \notin {"asking", "done"} => Explaining(steps, "llm") = {}
  /\ outcome = "running" /\ stage["explainer"] = "asking" =>
       Explaining(steps, "llm") = {open["explainer"]}
  /\ stage["explainer"] = "done" /\ explanation # None =>
       \E i \in DOMAIN steps :
         Explaining(steps, "llm") = {i} /\ steps[i].output = explanation.reply

\* The trace as far as it will be read back.
TInv ==
  /\ IsTrace(steps) /\ CallsAreOpen /\ LookUpsAreTraced /\ ReplyIsTraced
  /\ outcome = "recorded" => saved.trace = steps

\* u is the trace t and one step s more.
Longer(t, s, u) ==
  /\ IsTrace(u) /\ Len(t) \in Nat /\ DOMAIN t = 1..Len(t)
  /\ DOMAIN u = 1..(Len(t) + 1) /\ Len(u) = Len(t) + 1
  /\ (\A i \in DOMAIN t : u[i] = t[i]) /\ u[Len(t) + 1] = s
  /\ \A kind : Explaining(u, kind) =
       Explaining(t, kind) \cup {i \in {Len(t) + 1} : s.node = "explainer" /\ s.kind = kind}

LEMMA TracedFacts ==
  ASSUME NEW t, NEW s, IsTrace(t), DOMAIN s = Fields
  PROVE  Longer(t, s, Append(t, s))
<1> DEFINE u == Append(t, s)
<1>1. t \in Seq(ToSet(t))
  BY DEF IsTrace
<1>2. /\ Len(t) \in Nat /\ DOMAIN t = 1..Len(t)
      /\ Len(u) = Len(t) + 1 /\ DOMAIN u = 1..(Len(t) + 1)
      /\ (\A i \in DOMAIN t : u[i] = t[i]) /\ u[Len(t) + 1] = s
  BY <1>1
<1>3. \A i \in DOMAIN u : u[i] \in ToSet(u)
  BY DEF ToSet
<1>4. u \in Seq(ToSet(u))
  <2>1. u \in Seq(ToSet(t) \cup {s})
    BY <1>1
  <2>2. ToSet(t) \cup {s} \subseteq ToSet(u)
    BY <1>2 DEF ToSet
  <2> QED BY <2>1, <2>2
<1>5. \A i \in DOMAIN u : DOMAIN u[i] = Fields
  BY <1>2 DEF IsTrace
<1>6. ASSUME NEW kind
      PROVE  Explaining(u, kind) =
               Explaining(t, kind)
                 \cup {i \in {Len(t) + 1} : s.node = "explainer" /\ s.kind = kind}
  BY <1>2 DEF Explaining
<1> QED BY <1>2, <1>4, <1>5, <1>6 DEF IsTrace, Longer

\* u is the trace t with the output of its step n filled in.
Filled(t, n, out, u) ==
  /\ IsTrace(u) /\ DOMAIN u = DOMAIN t /\ u[n].output = out
  /\ \A i \in DOMAIN t : i # n => u[i] = t[i]
  /\ \A i \in DOMAIN t : u[i].node = t[i].node /\ u[i].kind = t[i].kind
  /\ \A kind : Explaining(u, kind) = Explaining(t, kind)

LEMMA AnsweredFacts ==
  ASSUME NEW t, IsTrace(t), NEW n \in DOMAIN t, NEW out
  PROVE  Filled(t, n, out, [t EXCEPT ![n].output = out])
<1> DEFINE u == [t EXCEPT ![n].output = out]
<1>1. t \in Seq(ToSet(t)) /\ DOMAIN t[n] = Fields
  BY DEF IsTrace
<1>2. PICK s : s = [t[n] EXCEPT !.output = out]
  OBVIOUS
<1>3. DOMAIN s = Fields /\ s.node = t[n].node /\ s.kind = t[n].kind /\ s.output = out
  BY <1>1, <1>2 DEF Fields
<1>4. u = [t EXCEPT ![n] = s]
  BY <1>2
<1>5. /\ DOMAIN u = DOMAIN t /\ u[n] = s
      /\ \A i \in DOMAIN t : i # n => u[i] = t[i]
  BY <1>4
<1>6. u \in Seq(ToSet(u))
  <2>1. u \in Seq(ToSet(t) \cup {s})
    BY <1>1, <1>4
  <2>2. Len(u) \in Nat /\ DOMAIN u = 1..Len(u) /\ \A i \in 1..Len(u) : u[i] \in ToSet(u)
    BY <2>1 DEF ToSet
  <2>3. u \in [1..Len(u) -> ToSet(t) \cup {s}]
    BY <2>1
  <2>4. u \in [1..Len(u) -> ToSet(u)]
    BY <2>2, <2>3
  <2>5. u \in UNION {[1..m -> ToSet(u)] : m \in Nat}
    BY <2>2, <2>4, Zenon
  <2>6. Seq(ToSet(u)) = UNION {[1..m -> ToSet(u)] : m \in Nat}
    BY SeqDef, Zenon
  <2> QED BY <2>5, <2>6, Zenon
<1>7. \A i \in DOMAIN u : DOMAIN u[i] = Fields
  BY <1>3, <1>5 DEF IsTrace
<1>8. \A i \in DOMAIN t : u[i].node = t[i].node /\ u[i].kind = t[i].kind
  BY <1>3, <1>5
<1>9. \A kind : Explaining(u, kind) = Explaining(t, kind)
  BY <1>5, <1>8 DEF Explaining
<1> HIDE DEF u
<1>10. Filled(t, n, out, u)
  BY <1>3, <1>5, <1>6, <1>7, <1>8, <1>9 DEF IsTrace, Filled
<1> QED BY <1>10 DEF u

LEMMA TInvInit == Init => TInv
<1> SUFFICES ASSUME Init PROVE TInv
  OBVIOUS
<1>1. /\ steps = <<>> /\ open = <<>> /\ retrieved = <<>> /\ explanation = None /\ outcome = "running"
      /\ stage["explainer"] \in {"absent", "waiting"} /\ \A n \in Nodes : stage[n] # "asking"
  BY DEF Init, Nodes, Analysts
<1>2. /\ IsTrace(<<>>) /\ DOMAIN <<>> = {} /\ \A kind : Explaining(<<>>, kind) = {}
  BY DEF IsTrace, Explaining
<1> QED BY <1>1, <1>2 DEF TInv, CallsAreOpen, LookUpsAreTraced, ReplyIsTraced

\* A step that leaves the explainer, its steps and its call alone.
LEMMA NotTheExplainers ==
  ASSUME TInv, outcome = "running", DOMAIN steps \subseteq DOMAIN steps',
         \A i \in DOMAIN steps : steps[i].node = "explainer" => steps'[i] = steps[i],
         \A kind \in {"retrieval", "llm"} : Explaining(steps', kind) = Explaining(steps, kind),
         "explainer" \in DOMAIN open => open'["explainer"] = open["explainer"],
         stage'["explainer"] = stage["explainer"],
         "explainer" \in Nodes,
         UNCHANGED <<retrieved, explanation>>
  PROVE  LookUpsAreTraced' /\ ReplyIsTraced'
<1>1. \A kind : \A i \in Explaining(steps, kind) :
        i \in DOMAIN steps /\ steps[i].node = "explainer"
  BY DEF Explaining
<1>2. LookUpsAreTraced'
  BY <1>1 DEF TInv, LookUpsAreTraced
<1>3. stage["explainer"] = "asking" => "explainer" \in DOMAIN open
  BY DEF TInv, CallsAreOpen
<1>4. ReplyIsTraced'
  BY <1>1, <1>3 DEF TInv, ReplyIsTraced
<1> QED BY <1>2, <1>4

LEMMA StepFields ==
  ASSUME NEW n, NEW k, NEW x, NEW y
  PROVE  /\ DOMAIN Step(n, k, x, y) = Fields
         /\ Step(n, k, x, y).node = n /\ Step(n, k, x, y).kind = k
         /\ Step(n, k, x, y).input = x /\ Step(n, k, x, y).output = y
BY DEF Step, Fields

\* The reply to a call of another node.
LEMMA OthersReply ==
  ASSUME GInv, TInv, outcome = "running", NEW n \in Nodes, n # "explainer", stage[n] = "asking",
         NEW out, steps' = Answered(n, out), open' = Closed(n),
         \A m \in Nodes : m # n => stage'[m] = stage[m],
         outcome' = "running" => stage'[n] = "done", outcome' # "recorded",
         UNCHANGED <<retrieved, explanation>>
  PROVE  TInv'
<1>1. /\ IsTrace(steps) /\ CallsAreOpen /\ n \in DOMAIN open
      /\ open[n] \in DOMAIN steps /\ steps[open[n]].node = n
  BY DEF TInv, CallsAreOpen
<1>2. Filled(steps, open[n], out, steps')
  BY <1>1, AnsweredFacts DEF Answered
<1>3. /\ IsTrace(steps') /\ DOMAIN steps' = DOMAIN steps
      /\ \A i \in DOMAIN steps : i # open[n] => steps'[i] = steps[i]
      /\ \A i \in DOMAIN steps : steps'[i].node = steps[i].node /\ steps'[i].kind = steps[i].kind
      /\ \A kind : Explaining(steps', kind) = Explaining(steps, kind)
  BY <1>2 DEF Filled
<1>4. DOMAIN open' = DOMAIN open \ {n} /\ \A m \in DOMAIN open' : open'[m] = open[m]
  BY DEF Closed
<1>5. CallsAreOpen'
  BY <1>1, <1>3, <1>4 DEF CallsAreOpen
<1>6. "explainer" \in Nodes /\ \A i \in DOMAIN steps : steps[i].node = "explainer" => steps'[i] = steps[i]
  BY <1>1, <1>3 DEF Nodes
<1>7. LookUpsAreTraced' /\ ReplyIsTraced'
  BY <1>3, <1>4, <1>6, NotTheExplainers
<1> QED BY <1>3, <1>5, <1>7 DEF TInv

LEMMA TInvNext == GInv /\ EInv /\ TInv /\ [Next]_vars => TInv'
<1> SUFFICES ASSUME GInv, EInv, TInv, [Next]_vars PROVE TInv'
  OBVIOUS
<1> USE DEF Nodes, Analysts, Stages
<1>0. /\ IsTrace(steps) /\ CallsAreOpen /\ LookUpsAreTraced /\ ReplyIsTraced
      /\ stage \in [Nodes -> Stages]
  BY DEF TInv, GInv
<1>1. CASE TechnicalAnalyst
  <2>1. /\ outcome = "running" /\ stage' = [stage EXCEPT !["technical_analyst"] = "done"]
        /\ UNCHANGED <<steps, open, retrieved, explanation, outcome, saved>>
    BY <1>1 DEF TechnicalAnalyst, Runs, To, recorder
  <2>2. CallsAreOpen'
    BY <1>0, <2>1 DEF CallsAreOpen
  <2>3. LookUpsAreTraced' /\ ReplyIsTraced'
    BY <1>0, <2>1 DEF LookUpsAreTraced, ReplyIsTraced, Explaining
  <2> QED BY <1>0, <2>1, <2>2, <2>3 DEF TInv
<1>2. CASE SentimentReads
  <2>0. PICK news \in BOOLEAN :
          LET read == IF NewsIsTraced
                      THEN Traced("sentiment_analyst", "retrieval", "recent", news)
                      ELSE steps
          IN  IF news
              THEN /\ steps' = Append(read, Step("sentiment_analyst", "llm", "prompt", None))
                   /\ open' = Opened("sentiment_analyst", Len(read) + 1)
                   /\ To("sentiment_analyst", "asking")
              ELSE /\ steps' = read /\ To("sentiment_analyst", "done")
                   /\ UNCHANGED open
    BY <1>2 DEF SentimentReads
  <2> DEFINE look == Step("sentiment_analyst", "retrieval", "recent", news)
             read == IF NewsIsTraced THEN Append(steps, look) ELSE steps
  <2>1. /\ outcome = "running" /\ stage["sentiment_analyst"] = "waiting"
        /\ UNCHANGED <<retrieved, explanation, outcome, saved>>
        /\ news => /\ steps' = Append(read, Step("sentiment_analyst", "llm", "prompt", None))
                   /\ open' = Opened("sentiment_analyst", Len(read) + 1)
                   /\ stage' = [stage EXCEPT !["sentiment_analyst"] = "asking"]
        /\ ~news => /\ steps' = read /\ open' = open
                    /\ stage' = [stage EXCEPT !["sentiment_analyst"] = "done"]
    BY <1>2, <2>0 DEF SentimentReads, Runs, To, Traced
  <2>2. /\ IsTrace(read) /\ DOMAIN steps \subseteq DOMAIN read
        /\ \A i \in DOMAIN steps : read[i] = steps[i]
        /\ \A kind : Explaining(read, kind) = Explaining(steps, kind)
    <3>1. CASE NewsIsTraced
      <4>1. DOMAIN look = Fields /\ look.node = "sentiment_analyst"
        BY StepFields
      <4> HIDE DEF look
      <4>2. Longer(steps, look, read)
        BY <1>0, <3>1, <4>1, TracedFacts
      <4> HIDE DEF read
      <4>3. {i \in {Len(steps) + 1} : look.node = "explainer"} = {}
        BY <4>1
      <4>4. \A kind : Explaining(read, kind) = Explaining(steps, kind)
        BY <4>1, <4>2 DEF Longer
      <4>5. DOMAIN steps \subseteq DOMAIN read
        BY <4>2 DEF Longer
      <4> QED BY <4>2, <4>4, <4>5 DEF Longer
    <3>2. CASE ~NewsIsTraced
      BY <1>0, <3>2
    <3> QED BY <3>1, <3>2
  <2> HIDE DEF read, look
  <2>3. CASE ~news
    <3>1. CallsAreOpen'
      BY <1>0, <2>1, <2>2, <2>3 DEF CallsAreOpen
    <3>2. LookUpsAreTraced' /\ ReplyIsTraced'
      BY <1>0, <2>1, <2>2, <2>3, NotTheExplainers
    <3> QED BY <2>1, <2>2, <2>3, <3>1, <3>2 DEF TInv
  <2>4. CASE news
    <3>1. /\ IsTrace(steps') /\ Len(read) \in Nat /\ DOMAIN read = 1..Len(read)
          /\ DOMAIN steps' = 1..(Len(read) + 1)
          /\ \A i \in DOMAIN read : steps'[i] = read[i]
          /\ steps'[Len(read) + 1].node = "sentiment_analyst" /\ steps'[Len(read) + 1].kind = "llm"
          /\ \A kind : Explaining(steps', kind) = Explaining(read, kind)
      <4>1. PICK s : s = Step("sentiment_analyst", "llm", "prompt", None)
        OBVIOUS
      <4>2. DOMAIN s = Fields /\ s.node = "sentiment_analyst" /\ s.kind = "llm"
        BY <4>1, StepFields
      <4>3. steps' = Append(read, s)
        BY <2>1, <2>4, <4>1
      <4>4. Longer(read, s, steps')
        BY <2>2, <4>2, <4>3, TracedFacts
      <4> QED BY <4>2, <4>4 DEF Longer
    <3>2. \A n \in DOMAIN open' :
            open'[n] = IF n = "sentiment_analyst" THEN Len(read) + 1 ELSE open[n]
      BY <2>1, <2>4 DEF Opened
    <3>3. DOMAIN open' = DOMAIN open \cup {"sentiment_analyst"}
      BY <2>1, <2>4 DEF Opened
    <3>4. CallsAreOpen'
      BY <1>0, <2>1, <2>2, <2>4, <3>1, <3>2, <3>3 DEF CallsAreOpen
    <3>5. LookUpsAreTraced' /\ ReplyIsTraced'
      <4>1. DOMAIN steps \subseteq DOMAIN steps'
        BY <2>2, <3>1
      <4>2. \A i \in DOMAIN steps : steps[i].node = "explainer" => steps'[i] = steps[i]
        BY <2>2, <3>1
      <4>3. \A kind \in {"retrieval", "llm"} : Explaining(steps', kind) = Explaining(steps, kind)
        BY <2>2, <3>1
      <4>4. stage'["explainer"] = stage["explainer"]
        BY <1>0, <2>1, <2>4
      <4>5. "explainer" \in DOMAIN open => open'["explainer"] = open["explainer"]
        BY <3>2, <3>3
      <4> QED BY <2>1, <4>1, <4>2, <4>3, <4>4, <4>5, NotTheExplainers
    <3> QED BY <2>1, <3>1, <3>4, <3>5 DEF TInv
  <2> QED BY <2>3, <2>4
<1>3. CASE SentimentReplies
  <2>1. /\ outcome = "running" /\ stage["sentiment_analyst"] = "asking"
        /\ steps' = Answered("sentiment_analyst", "score") /\ open' = Closed("sentiment_analyst")
        /\ stage' = [stage EXCEPT !["sentiment_analyst"] = "done"]
        /\ UNCHANGED <<retrieved, explanation, outcome>>
    BY <1>3 DEF SentimentReplies, To
  <2> QED BY <1>0, <2>1, OthersReply
<1>4. CASE PortfolioManagerAsks
  <2> DEFINE s == Step("portfolio_manager", "llm", "prompt", None)
  <2>1. /\ outcome = "running" /\ steps' = Append(steps, s)
        /\ open' = Opened("portfolio_manager", Len(steps) + 1)
        /\ stage' = [stage EXCEPT !["portfolio_manager"] = "asking"]
        /\ UNCHANGED <<retrieved, explanation, outcome, saved>>
    BY <1>4 DEF PortfolioManagerAsks, StartCall, Traced, Runs, To
  <2>2. DOMAIN s = Fields /\ s.node = "portfolio_manager" /\ s.kind = "llm"
    BY StepFields
  <2> HIDE DEF s
  <2>3. Longer(steps, s, steps')
    BY <1>0, <2>1, <2>2, TracedFacts
  <2>4. /\ DOMAIN open' = DOMAIN open \cup {"portfolio_manager"}
        /\ \A n \in DOMAIN open' :
             open'[n] = IF n = "portfolio_manager" THEN Len(steps) + 1 ELSE open[n]
    BY <2>1 DEF Opened
  <2>5. CallsAreOpen'
    BY <1>0, <2>1, <2>2, <2>3, <2>4 DEF CallsAreOpen, Longer
  <2>6. LookUpsAreTraced' /\ ReplyIsTraced'
    <3>1. DOMAIN steps \subseteq DOMAIN steps' /\ \A i \in DOMAIN steps : steps'[i] = steps[i]
      BY <2>3 DEF Longer
    <3>2. {i \in {Len(steps) + 1} : s.node = "explainer"} = {}
      BY <2>2
    <3>3. \A kind : Explaining(steps', kind) = Explaining(steps, kind)
      BY <2>2, <2>3, <3>2 DEF Longer
    <3>4. stage'["explainer"] = stage["explainer"]
      BY <1>0, <2>1
    <3>5. "explainer" \in DOMAIN open => open'["explainer"] = open["explainer"]
      BY <2>4
    <3> QED BY <2>1, <3>1, <3>3, <3>4, <3>5, NotTheExplainers
  <2>7. IsTrace(steps')
    BY <2>3 DEF Longer
  <2> QED BY <2>1, <2>5, <2>6, <2>7 DEF TInv
<1>5. CASE PortfolioManagerReplies
  <2>1. PICK t \in Proposals : steps' = Answered("portfolio_manager", t)
    BY <1>5 DEF PortfolioManagerReplies
  <2>2. /\ outcome = "running" /\ stage["portfolio_manager"] = "asking"
        /\ open' = Closed("portfolio_manager")
        /\ stage' = [stage EXCEPT !["portfolio_manager"] = "done"]
        /\ UNCHANGED <<retrieved, explanation, outcome>>
    BY <1>5 DEF PortfolioManagerReplies, To
  <2> QED BY <1>0, <2>1, <2>2, OthersReply
<1>6. CASE RiskManager
  <2> DEFINE s == Step("risk_manager", "rule", <<proposal, current', var'>>, <<ruling', flags'>>)
  <2>1. /\ outcome = "running" /\ steps' = Append(steps, s)
        /\ stage' = [stage EXCEPT !["risk_manager"] = "done"]
        /\ UNCHANGED <<open, retrieved, explanation, outcome, saved>>
    BY <1>6 DEF RiskManager, Traced, Runs, To
  <2>2. DOMAIN s = Fields /\ s.node = "risk_manager"
    BY StepFields
  <2> HIDE DEF s
  <2>3. Longer(steps, s, steps')
    BY <1>0, <2>1, <2>2, TracedFacts
  <2>4. DOMAIN steps \subseteq DOMAIN steps' /\ \A i \in DOMAIN steps : steps'[i] = steps[i]
    BY <2>3 DEF Longer
  <2>5. CallsAreOpen'
    BY <1>0, <2>1, <2>4 DEF CallsAreOpen
  <2>6. LookUpsAreTraced' /\ ReplyIsTraced'
    <3>1. {i \in {Len(steps) + 1} : s.node = "explainer"} = {}
      BY <2>2
    <3>2. \A kind : Explaining(steps', kind) = Explaining(steps, kind)
      BY <2>2, <2>3, <3>1 DEF Longer
    <3>3. stage'["explainer"] = stage["explainer"]
      BY <1>0, <2>1
    <3> QED BY <2>1, <2>4, <3>2, <3>3, NotTheExplainers
  <2>7. IsTrace(steps')
    BY <2>3 DEF Longer
  <2> QED BY <2>1, <2>5, <2>6, <2>7 DEF TInv
<1>7. CASE ExplainerStarts
  <2>1. /\ outcome = "running" /\ stage["explainer"] = "waiting"
        /\ stage' = [stage EXCEPT !["explainer"] = IF Triggers = {} \/ Drivers = <<>>
                                                   THEN "done" ELSE "retrieving"]
        /\ UNCHANGED <<steps, open, retrieved, explanation, outcome, saved>>
    BY <1>7 DEF ExplainerStarts, Runs, To, recorder
  <2>2. explanation = None
    BY <2>1 DEF EInv
  <2>3. CallsAreOpen'
    BY <1>0, <2>1 DEF CallsAreOpen
  <2>4. LookUpsAreTraced' /\ ReplyIsTraced'
    BY <1>0, <2>1, <2>2 DEF LookUpsAreTraced, ReplyIsTraced, Explaining
  <2> QED BY <1>0, <2>1, <2>3, <2>4 DEF TInv
<1>8. CASE Retrieve
  <2> DEFINE day == Drivers[Cardinality(DOMAIN retrieved) + 1]
             s   == Step("explainer", "retrieval", day, HeadlinesFor[day])
  <2>1. /\ outcome = "running" /\ stage["explainer"] = "retrieving"
        /\ retrieved' = [d \in DOMAIN retrieved \cup {day} |->
                           IF d = day THEN HeadlinesFor[day] ELSE retrieved[d]]
        /\ steps' = Append(steps, s)
        /\ UNCHANGED <<stage, open, explanation, outcome, saved>>
    BY <1>8 DEF Retrieve, RetrievalStep, Traced
  <2>2. /\ DOMAIN s = Fields /\ s.node = "explainer" /\ s.kind = "retrieval"
        /\ s.input = day /\ s.output = HeadlinesFor[day]
    BY StepFields
  <2> HIDE DEF s, day
  <2>3. Longer(steps, s, steps')
    BY <1>0, <2>1, <2>2, TracedFacts
  <2>4. /\ Len(steps) \in Nat /\ DOMAIN steps = 1..Len(steps)
        /\ DOMAIN steps' = 1..(Len(steps) + 1)
        /\ \A i \in DOMAIN steps : steps'[i] = steps[i]
        /\ steps'[Len(steps) + 1] = s
    BY <2>3 DEF Longer
  <2>5. /\ Explaining(steps', "retrieval") = Explaining(steps, "retrieval") \cup {Len(steps) + 1}
        /\ Explaining(steps', "llm") = Explaining(steps, "llm")
    <3>1. {i \in {Len(steps) + 1} : s.node = "explainer" /\ s.kind = "retrieval"} = {Len(steps) + 1}
      BY <2>2
    <3>2. {i \in {Len(steps) + 1} : s.node = "explainer" /\ s.kind = "llm"} = {}
      BY <2>2
    <3> QED BY <2>3, <3>1, <3>2 DEF Longer
  <2>6. DOMAIN retrieved' = DOMAIN retrieved \cup {day}
    BY <2>1
  <2>7. \A i \in Explaining(steps, "retrieval") : i \in DOMAIN steps
    BY DEF Explaining
  <2>8. LookUpsAreTraced'
    BY <1>0, <2>2, <2>4, <2>5, <2>6, <2>7 DEF LookUpsAreTraced
  <2>9. ReplyIsTraced'
    BY <1>0, <2>1, <2>5 DEF ReplyIsTraced
  <2>10. CallsAreOpen'
    BY <1>0, <2>1, <2>4 DEF CallsAreOpen
  <2>11. IsTrace(steps')
    BY <2>3 DEF Longer
  <2> QED BY <2>1, <2>8, <2>9, <2>10, <2>11 DEF TInv
<1>9. CASE ExplainerAsks
  <2> DEFINE s == Step("explainer", "llm", "prompt", None)
  <2>1. /\ outcome = "running" /\ stage["explainer"] = "retrieving" /\ steps' = Append(steps, s)
        /\ open' = Opened("explainer", Len(steps) + 1)
        /\ stage' = [stage EXCEPT !["explainer"] = "asking"]
        /\ UNCHANGED <<retrieved, explanation, outcome, saved>>
    BY <1>9 DEF ExplainerAsks, StartCall, Traced, To
  <2>2. DOMAIN s = Fields /\ s.node = "explainer" /\ s.kind = "llm"
    BY StepFields
  <2> HIDE DEF s
  <2>3. Longer(steps, s, steps')
    BY <1>0, <2>1, <2>2, TracedFacts
  <2>4. /\ DOMAIN open' = DOMAIN open \cup {"explainer"}
        /\ \A n \in DOMAIN open' : open'[n] = IF n = "explainer" THEN Len(steps) + 1 ELSE open[n]
    BY <2>1 DEF Opened
  <2>5. CallsAreOpen'
    BY <1>0, <2>1, <2>2, <2>3, <2>4 DEF CallsAreOpen, Longer
  <2>6. /\ Explaining(steps', "retrieval") = Explaining(steps, "retrieval")
        /\ Explaining(steps', "llm") = {Len(steps) + 1}
    <3>1. {i \in {Len(steps) + 1} : s.node = "explainer" /\ s.kind = "retrieval"} = {}
      BY <2>2
    <3>2. {i \in {Len(steps) + 1} : s.node = "explainer" /\ s.kind = "llm"} = {Len(steps) + 1}
      BY <2>2
    <3>3. Explaining(steps, "llm") = {}
      BY <1>0, <2>1 DEF ReplyIsTraced
    <3> QED BY <2>3, <3>1, <3>2, <3>3 DEF Longer
  <2>7. \A i \in Explaining(steps, "retrieval") : steps'[i] = steps[i]
    BY <2>3 DEF Explaining, Longer
  <2>8. LookUpsAreTraced'
    <3>1. retrieved' = retrieved
      BY <2>1
    <3> QED BY <1>0, <2>6, <2>7, <3>1 DEF LookUpsAreTraced
  <2>9. ReplyIsTraced'
    BY <1>0, <2>1, <2>4, <2>6 DEF ReplyIsTraced
  <2>10. IsTrace(steps')
    BY <2>3 DEF Longer
  <2> QED BY <2>1, <2>5, <2>8, <2>9, <2>10 DEF TInv
<1>10. CASE ExplainerReplies
  <2>1. PICK reply \in Replies :
          /\ explanation' = Explanation(reply, Triggers, retrieved)
          /\ steps' = Append(Answered("explainer", reply),
                             Step("explainer", "check", <<retrieved, reply>>, Checked(reply, retrieved)))
    BY <1>10 DEF ExplainerReplies
  <2> DEFINE s == Step("explainer", "check", <<retrieved, reply>>, Checked(reply, retrieved))
             t == Answered("explainer", reply)
             at == open["explainer"]
  <2>2. /\ outcome = "running" /\ stage["explainer"] = "asking"
        /\ open' = Closed("explainer") /\ stage' = [stage EXCEPT !["explainer"] = "done"]
        /\ UNCHANGED <<retrieved, outcome, saved>>
    BY <1>10 DEF ExplainerReplies, To
  <2>3. "explainer" \in DOMAIN open /\ at \in DOMAIN steps /\ steps[at].kind = "llm"
    BY <1>0, <2>2 DEF CallsAreOpen
  <2>4. Explaining(steps, "llm") = {at}
    BY <1>0, <2>2 DEF ReplyIsTraced
  <2>5. Filled(steps, at, reply, t)
    BY <1>0, <2>3, AnsweredFacts DEF Answered
  <2>6. DOMAIN s = Fields /\ s.node = "explainer" /\ s.kind = "check"
    BY StepFields
  <2>7. steps' = Append(t, s) /\ explanation'.reply = reply
    BY <2>1 DEF Explanation
  <2> HIDE DEF s, t, at
  <2>8. Longer(t, s, steps')
    BY <2>5, <2>6, <2>7, TracedFacts DEF Filled
  <2>9. {i \in {Len(t) + 1} : s.node = "explainer" /\ s.kind \in {"retrieval", "llm"}} = {}
    BY <2>6
  <2>10. /\ Explaining(steps', "retrieval") = Explaining(steps, "retrieval")
         /\ Explaining(steps', "llm") = {at}
    BY <2>4, <2>5, <2>6, <2>8, <2>9 DEF Longer, Filled
  <2>11. /\ DOMAIN steps \subseteq DOMAIN steps' /\ steps'[at].output = reply
         /\ \A i \in DOMAIN steps : i # at => steps'[i] = steps[i]
         /\ \A i \in DOMAIN steps : steps'[i].node = steps[i].node /\ steps'[i].kind = steps[i].kind
    BY <2>3, <2>5, <2>8 DEF Longer, Filled
  <2>12. \A i \in Explaining(steps, "retrieval") : steps'[i] = steps[i]
    BY <2>3, <2>11 DEF Explaining
  <2>13. LookUpsAreTraced'
    <3>1. retrieved' = retrieved
      BY <2>2
    <3> QED BY <1>0, <2>10, <2>12, <3>1 DEF LookUpsAreTraced
  <2>14. ReplyIsTraced'
    BY <1>0, <2>2, <2>3, <2>7, <2>10, <2>11 DEF ReplyIsTraced
  <2>15. DOMAIN open' = DOMAIN open \ {"explainer"} /\ \A n \in DOMAIN open' : open'[n] = open[n]
    BY <2>2 DEF Closed
  <2>16. CallsAreOpen'
    BY <1>0, <2>2, <2>11, <2>15 DEF CallsAreOpen
  <2>17. IsTrace(steps')
    BY <2>8 DEF Longer
  <2> QED BY <2>2, <2>13, <2>14, <2>16, <2>17 DEF TInv
<1>11. CASE \E n \in Nodes : CallFails(n)
  <2>1. PICK n \in Nodes : CallFails(n)
    BY <1>11
  <2>2. /\ outcome = "running" /\ stage[n] = "asking" /\ outcome' = "raised"
        /\ steps' = Answered(n, "error") /\ open' = Closed(n)
        /\ UNCHANGED <<stage, retrieved, explanation>>
    BY <2>1 DEF CallFails
  <2>3. CASE n # "explainer"
    BY <2>2, <2>3, OthersReply
  <2>4. CASE n = "explainer"
    <3>1. /\ n \in DOMAIN open /\ open[n] \in DOMAIN steps /\ steps[open[n]].kind = "llm"
      BY <1>0, <2>2 DEF CallsAreOpen
    <3>2. Filled(steps, open[n], "error", steps')
      BY <1>0, <2>2, <3>1, AnsweredFacts DEF Answered
    <3>3. \A i \in Explaining(steps, "retrieval") : steps'[i] = steps[i]
      BY <3>1, <3>2 DEF Filled, Explaining
    <3>4. LookUpsAreTraced'
      BY <1>0, <2>2, <3>2, <3>3 DEF LookUpsAreTraced, Filled
    <3>5. ReplyIsTraced'
      BY <2>2, <2>4 DEF ReplyIsTraced
    <3>6. DOMAIN open' = DOMAIN open \ {n} /\ \A m \in DOMAIN open' : open'[m] = open[m]
      BY <2>2 DEF Closed
    <3>7. CallsAreOpen'
      BY <1>0, <2>2, <3>2, <3>6 DEF CallsAreOpen, Filled
    <3>8. IsTrace(steps')
      BY <3>2 DEF Filled
    <3> QED BY <2>2, <3>4, <3>5, <3>7, <3>8 DEF TInv
  <2> QED BY <2>3, <2>4
<1>12. CASE Record
  <2>1. /\ UNCHANGED <<stage, steps, open, retrieved, explanation>>
        /\ outcome = "running" /\ outcome' # "running"
        /\ outcome' = "recorded" => saved'.trace = steps
    BY <1>12 DEF Record, recorder
  <2> QED
    BY <1>0, <2>1 DEF TInv, CallsAreOpen, LookUpsAreTraced, ReplyIsTraced, Explaining
<1>13. CASE RecordRefused
  <2>1. UNCHANGED <<stage, steps, open, retrieved, explanation>> /\ outcome' = "raised"
    BY <1>13 DEF RecordRefused, recorder
  <2> QED
    BY <1>0, <2>1 DEF TInv, CallsAreOpen, LookUpsAreTraced, ReplyIsTraced, Explaining
<1>14. CASE UNCHANGED vars
  <2>1. UNCHANGED <<stage, steps, open, retrieved, explanation, outcome, saved>>
    BY <1>14 DEF vars, recorder
  <2> QED
    BY <1>0, <2>1 DEF TInv, CallsAreOpen, LookUpsAreTraced, ReplyIsTraced, Explaining
<1> QED
  BY <1>1, <1>2, <1>3, <1>4, <1>5, <1>6, <1>7, <1>8, <1>9, <1>10, <1>11, <1>12, <1>13, <1>14
  DEF Next

\* A set of positions in a trace has the last one that Rebuilt takes.
LEMMA LastOf ==
  ASSUME NEW n \in Nat, NEW S, S \subseteq 1..n, S # {}
  PROVE  Max(S) \in S
<1>0. S \subseteq 0..n
  OBVIOUS
<1>1. PICK x \in S : \A y \in S : y <= x
  BY <1>0, GreatestOf
<1>2. \E z \in S : \A y \in S : z >= y
  BY <1>1
<1> QED BY <1>2 DEF Max

\* The pre-registered completeness check of phase 10 cannot fail: from the steps
\* of a recorded decision alone, the day-by-day look-ups and the reply, the
\* stored citation check is rebuilt field by field
\* (trace_audit.rebuild_explanation_check against explainer.validate).
THEOREM TracesRebuildExplanations == Spec => []TraceRebuildsExplanation
<1>1. GInv /\ EInv /\ TInv => TraceRebuildsExplanation
  <2> SUFFICES ASSUME GInv, EInv, TInv, outcome = "recorded", saved.explanation # None
               PROVE  Rebuilt(saved.trace) = saved.explanation.check
    BY DEF TraceRebuildsExplanation
  <2> DEFINE lookups == Explaining(steps, "retrieval")
             at(d)   == {i \in lookups : steps[i].input = d}
             found   == [d \in {steps[i].input : i \in lookups} |-> steps[Max(at(d))].output]
             all     == [d \in ToSet(Drivers) |-> HeadlinesFor[d]]
  <2>1. saved.trace = steps /\ saved.explanation = explanation /\ stage["explainer"] = "done"
    <3>1. saved.trace = steps /\ saved.explanation = explanation /\ Finished
      BY DEF TInv, EInv
    <3> QED BY <3>1, ExplanationFacts DEF Finished
  <2>2. PICK reply \in Replies : explanation = Explanation(reply, Triggers, all)
    BY <2>1, ExplanationFacts
  <2>3. explanation.reply = reply /\ explanation.check = Checked(reply, all)
    BY <2>2 DEF Explanation
  <2>4. PICK j \in DOMAIN steps :
          Explaining(steps, "llm") = {j} /\ steps[j].output = explanation.reply
    BY <2>1 DEF TInv, ReplyIsTraced
  <2>5. Len(steps) \in Nat /\ DOMAIN steps = 1..Len(steps)
    BY DEF TInv, IsTrace
  <2>6. retrieved = all
    <3>1. Triggers # {} /\ Drivers # <<>>
      BY <2>1, ExplanationFacts
    <3>2. retrieved = Found(Len(Drivers))
      BY <2>1, <3>1 DEF EInv
    <3> QED BY <3>2, AllFound
  <2>7. /\ DOMAIN all = ToSet(Drivers)
        /\ \A d \in ToSet(Drivers) : all[d] = HeadlinesFor[d]
    OBVIOUS
  <2>8. {steps[i].input : i \in lookups} = ToSet(Drivers)
    BY <2>6, <2>7 DEF TInv, LookUpsAreTraced
  <2>9. ASSUME NEW d \in ToSet(Drivers)
        PROVE  steps[Max(at(d))].output = HeadlinesFor[d]
    <3>1. at(d) \subseteq 1..Len(steps) /\ at(d) # {}
      BY <2>5, <2>8 DEF Explaining
    <3>2. Max(at(d)) \in at(d)
      BY <2>5, <3>1, LastOf
    <3> QED BY <3>2 DEF TInv, LookUpsAreTraced
  <2>10. found = all
    BY <2>8, <2>9
  <2>11. Max(Explaining(steps, "llm")) = j
    <3>1. {j} \subseteq 1..Len(steps) /\ {j} # {}
      BY <2>5
    <3>2. Max({j}) \in {j}
      BY <2>5, <3>1, LastOf
    <3> QED BY <2>4, <3>2
  <2>12. Rebuilt(steps) = Checked(steps[j].output, found)
    BY <2>4, <2>11 DEF Rebuilt
  <2> QED BY <2>1, <2>3, <2>4, <2>10, <2>12
<1> QED BY <1>1, GInvInit, GInvNext, EInvInit, EInvNext, TInvInit, TInvNext, PTL DEF Spec

=============================================================================
