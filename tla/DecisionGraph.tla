----------------------------- MODULE DecisionGraph -----------------------------
(***************************************************************************)
(* One decision: the LangGraph pipeline of app/agent/graph.py for one      *)
(* symbol, from the two analysts that run side by side to the explainer,   *)
(* and the rows its caller writes.  Prompts and opinions are left out;     *)
(* what the models reply is chosen freely from what their schemas admit.   *)
(* The recorder of app/agent/trace.py collects the steps as they happen.   *)
(***************************************************************************)
EXTENDS RiskGate, SequencesExt

CONSTANTS Proposals,      \* what the Portfolio Manager may propose
          Vars,           \* historical_var of the symbol's returns
          Holdings,       \* shares held when the risk node looks
          Explainers,     \* is explainer_retriever given? TRUE, FALSE or either
          NewsIsTraced,   \* HistoricalHeadlineSource, not AlpacaHeadlineSource
          TailDays,       \* dates of var_tail, worst first
          DriverDays,     \* DRIVER_DAYS, 5 in the code
          HeadlinesFor,   \* day -> headline ids the retriever's query returns
          Replies,        \* explanations the model may return
          None

ASSUME GraphConstants ==
  /\ Proposals \subseteq Proposal
  /\ Vars \subseteq Int \cup {NoVar}
  /\ Holdings \subseteq Nat
  /\ Explainers \subseteq BOOLEAN /\ NewsIsTraced \in BOOLEAN
  /\ TailDays \in Seq(DOMAIN HeadlinesFor) /\ IsInjective(TailDays)
  /\ DriverDays \in Nat \ {0}

Analysts == {"technical_analyst", "sentiment_analyst"}
Nodes    == Analysts \cup {"portfolio_manager", "risk_manager", "explainer"}
Stages   == {"absent", "waiting", "asking", "retrieving", "done"}

\* tail[:DRIVER_DAYS]
Drivers == SubSeq(TailDays, 1, IF Len(TailDays) < DriverDays THEN Len(TailDays) ELSE DriverDays)

VARIABLES
  stage,        \* how far each node is
  priced,       \* technical_opinion.raw_output has a current_price
  proposal,     \* tentative_decision
  current,      \* current_qty
  var,          \* var_95
  ruling,       \* risk_verdict, final_action, final_quantity
  flags,        \* risk_flags
  retrieved,    \* the explainer's dict day -> headline ids
  explanation,  \* risk_explanation
  steps,        \* TraceRecorder.steps
  open,         \* TraceRecorder._open: the step of each call under way
  outcome,      \* "running", "raised" or "recorded"
  saved         \* the rows written for the decision

opinions == <<priced, proposal>>
risk     == <<current, var, ruling, flags>>
recorder == <<steps, open>>
vars == <<stage, opinions, risk, retrieved, explanation, recorder, outcome, saved>>

Init ==
  /\ \E given \in Explainers :
       stage = [n \in Nodes |-> IF n = "explainer" /\ ~given THEN "absent" ELSE "waiting"]
  /\ priced = FALSE /\ proposal = None
  /\ current = 0 /\ var = NoVar /\ ruling = None /\ flags = {}
  /\ retrieved = <<>> /\ explanation = None
  /\ steps = <<>> /\ open = <<>>
  /\ outcome = "running" /\ saved = None

-----------------------------------------------------------------------------
(* The trace recorder *)

Step(node, kind, input, output) ==
  [node |-> node, kind |-> kind, input |-> input, output |-> output]

\* trace.record
Traced(node, kind, input, output) == Append(steps, Step(node, kind, input, output))

\* _open once a call of the node is under way at step n.
Opened(node, n) == [m \in DOMAIN open \cup {node} |-> IF m = node THEN n ELSE open[m]]

\* on_chat_model_start
StartCall(node) ==
  /\ steps' = Traced(node, "llm", "prompt", None)
  /\ open' = Opened(node, Len(steps) + 1)

\* The step list after on_llm_end or on_llm_error of a node's call.
Answered(node, output) == [steps EXCEPT ![open[node]].output = output]

Closed(node) == [n \in DOMAIN open \ {node} |-> open[n]]

-----------------------------------------------------------------------------
(* The nodes *)

Runs(node) == outcome = "running" /\ stage[node] = "waiting"
To(node, s) == stage' = [stage EXCEPT ![node] = s]

\* Fewer than 20 closes in 40 days: an opinion without a price.
TechnicalAnalyst ==
  /\ Runs("technical_analyst")
  /\ priced' \in BOOLEAN
  /\ To("technical_analyst", "done")
  /\ UNCHANGED <<proposal, risk, retrieved, explanation, recorder, outcome, saved>>

\* get_recent_headlines is traced and the model asked only if there are any.
SentimentReads ==
  /\ Runs("sentiment_analyst")
  /\ \E news \in BOOLEAN :
       LET read == IF NewsIsTraced
                   THEN Traced("sentiment_analyst", "retrieval", "recent", news)
                   ELSE steps
       IN  IF news
           THEN /\ steps' = Append(read, Step("sentiment_analyst", "llm", "prompt", None))
                /\ open' = Opened("sentiment_analyst", Len(read) + 1)
                /\ To("sentiment_analyst", "asking")
           ELSE /\ steps' = read /\ To("sentiment_analyst", "done")
                /\ UNCHANGED open
  /\ UNCHANGED <<opinions, risk, retrieved, explanation, outcome, saved>>

SentimentReplies ==
  /\ outcome = "running" /\ stage["sentiment_analyst"] = "asking"
  /\ steps' = Answered("sentiment_analyst", "score")
  /\ open' = Closed("sentiment_analyst")
  /\ To("sentiment_analyst", "done")
  /\ UNCHANGED <<opinions, risk, retrieved, explanation, outcome, saved>>

\* Both edges into the node must have fired.
PortfolioManagerAsks ==
  /\ Runs("portfolio_manager")
  /\ \A n \in Analysts : stage[n] = "done"
  /\ StartCall("portfolio_manager")
  /\ To("portfolio_manager", "asking")
  /\ UNCHANGED <<opinions, risk, retrieved, explanation, outcome, saved>>

PortfolioManagerReplies ==
  /\ outcome = "running" /\ stage["portfolio_manager"] = "asking"
  /\ \E t \in Proposals :
       /\ proposal' = t
       /\ steps' = Answered("portfolio_manager", t)
  /\ open' = Closed("portfolio_manager")
  /\ To("portfolio_manager", "done")
  /\ UNCHANGED <<priced, risk, retrieved, explanation, outcome, saved>>

\* The node asks for a year of bars of its own: a symbol whose last sessions are
\* missing may have a VaR while the technicals, with 40 days, found no price.
RiskManager ==
  /\ Runs("risk_manager") /\ stage["portfolio_manager"] = "done"
  /\ current' \in Holdings
  /\ var' \in Vars
  /\ ruling' = Gate(proposal, current', var')
  /\ flags' = RiskFlags(proposal, current', var')
  /\ steps' = Traced("risk_manager", "rule", <<proposal, current', var'>>, <<ruling', flags'>>)
  /\ To("risk_manager", "done")
  /\ UNCHANGED <<opinions, retrieved, explanation, open, outcome, saved>>

-----------------------------------------------------------------------------
(* The explainer *)

\* triggered
Triggers == flags \cap {"var_budget_scale", "var_budget_veto"}

ExplainerStarts ==
  /\ Runs("explainer") /\ stage["risk_manager"] = "done"
  /\ To("explainer", IF Triggers = {} \/ Drivers = <<>> THEN "done" ELSE "retrieving")
  /\ UNCHANGED <<opinions, risk, retrieved, explanation, recorder, outcome, saved>>

\* Mutant of RetrievalStep: a day without headlines leaves no trace step.
RetrievalStepIfAny(day, ids) ==
  IF ids = <<>> THEN steps ELSE Traced("explainer", "retrieval", day, ids)

RetrievalStep(day, ids) == Traced("explainer", "retrieval", day, ids)

\* HeadlineRetriever.around for the next driver day.
Retrieve ==
  LET done == Cardinality(DOMAIN retrieved)
      day  == Drivers[done + 1]
  IN  /\ outcome = "running" /\ stage["explainer"] = "retrieving"
      /\ done < Len(Drivers)
      /\ retrieved' = [d \in DOMAIN retrieved \cup {day} |->
                         IF d = day THEN HeadlinesFor[day] ELSE retrieved[d]]
      /\ steps' = RetrievalStep(day, HeadlinesFor[day])
      /\ UNCHANGED <<stage, opinions, risk, explanation, open, outcome, saved>>

ExplainerAsks ==
  /\ outcome = "running" /\ stage["explainer"] = "retrieving"
  /\ Cardinality(DOMAIN retrieved) = Len(Drivers)
  /\ StartCall("explainer")
  /\ To("explainer", "asking")
  /\ UNCHANGED <<opinions, risk, retrieved, explanation, outcome, saved>>

\* Mutant of Allowed: a headline retrieved for any day will do.
AllowedAnyDay(found, day) == UNION {ToSet(found[d]) : d \in DOMAIN found}

\* What a driver entry of this day may cite.
Allowed(found, day) == IF day \in DOMAIN found THEN ToSet(found[day]) ELSE {}

\* validate: the ids a reply cites and the problems with it.
Cited(reply) == FlattenSeq([i \in DOMAIN reply |-> reply[i].ids])

Problems(reply, found) ==
  LET days == {reply[i].day : i \in DOMAIN reply}
  IN  {<<"unknown date", d>> : d \in days \ DOMAIN found}
        \cup {<<"no driver entry", d>> : d \in DOMAIN found \ days}
        \cup UNION {{<<"not retrieved", h, reply[i].day>> :
                       h \in ToSet(reply[i].ids) \ Allowed(found, reply[i].day)} :
                     i \in DOMAIN reply}

Checked(reply, found) ==
  [retrieved |-> found, cited |-> Cited(reply), problems |-> Problems(reply, found),
   valid |-> Problems(reply, found) = {}]

\* RiskExplanation
Explanation(reply, fired, found) ==
  [reply |-> reply, triggers |-> fired, check |-> Checked(reply, found)]

\* risk_explanation is either None or such an object.
ASSUME NoneIsNoExplanation ==
  \A reply \in Replies, fired \in SUBSET {"var_budget_scale", "var_budget_veto"} :
    Explanation(reply, fired, [d \in ToSet(Drivers) |-> HeadlinesFor[d]]) # None

ExplainerReplies ==
  /\ outcome = "running" /\ stage["explainer"] = "asking"
  /\ \E reply \in Replies :
       /\ explanation' = Explanation(reply, Triggers, retrieved)
       /\ steps' = Append(Answered("explainer", reply),
                          Step("explainer", "check", <<retrieved, reply>>, Checked(reply, retrieved)))
  /\ open' = Closed("explainer")
  /\ To("explainer", "done")
  /\ UNCHANGED <<opinions, risk, retrieved, outcome, saved>>

-----------------------------------------------------------------------------
(* Ends *)

\* A model call fails: ainvoke raises and the caller's transaction with it.
CallFails(node) ==
  /\ outcome = "running" /\ stage[node] = "asking"
  /\ outcome' = "raised"
  /\ steps' = Answered(node, "error")
  /\ open' = Closed(node)
  /\ UNCHANGED <<stage, opinions, risk, retrieved, explanation, saved>>

\* build_graph compiled a node for it.
HasExplainer == stage["explainer"] # "absent"

\* The last node of the compiled graph has returned.
Finished == stage[IF HasExplainer THEN "explainer" ELSE "risk_manager"] = "done"

\* Mutant of ForecastPosition: the proposal is applied instead of the ruling.
ForecastPositionProposed == PositionAfter(current, proposal.action, proposal.qty)

\* record_var_forecast's position_qty.
ForecastPosition == PositionAfter(current, ruling.action, ruling.qty)

\* Decision, opinions, trace, forecast, explanation and fill, in one
\* transaction; CHECK (position_qty >= 0) refuses a negative position.
Record ==
  LET fills == IF priced THEN LedgerAfter(current, ruling.action, ruling.qty) ELSE current
  IN  /\ outcome = "running" /\ Finished
      /\ IF fills < 0 \/ (var # NoVar /\ ForecastPosition < 0)
         THEN outcome' = "raised" /\ UNCHANGED saved
         ELSE /\ outcome' = "recorded"
              /\ saved' = [decision    |-> ruling,
                           forecast    |-> IF var = NoVar THEN None ELSE ForecastPosition,
                           held        |-> fills,
                           trace       |-> steps,
                           explanation |-> explanation]
      /\ UNCHANGED <<stage, opinions, risk, retrieved, explanation, recorder>>

\* record_trace finds a key-like string in a step, or an insert fails: nothing
\* of the decision stays, although its models were paid.
RecordRefused ==
  /\ outcome = "running" /\ Finished
  /\ outcome' = "raised"
  /\ UNCHANGED <<stage, opinions, risk, retrieved, explanation, recorder, saved>>

Next ==
  \/ TechnicalAnalyst \/ SentimentReads \/ SentimentReplies
  \/ PortfolioManagerAsks \/ PortfolioManagerReplies
  \/ RiskManager
  \/ ExplainerStarts \/ Retrieve \/ ExplainerAsks \/ ExplainerReplies
  \/ \E n \in Nodes : CallFails(n)
  \/ Record \/ RecordRefused

Spec == Init /\ [][Next]_vars

-----------------------------------------------------------------------------
(* Reading a decision back: app/agent/trace_audit.py *)

\* The steps of the explainer of one kind.
Explaining(trace, kind) ==
  {i \in DOMAIN trace : trace[i].node = "explainer" /\ trace[i].kind = kind}

\* rebuild_explanation_check, from the trace alone.
Rebuilt(trace) ==
  LET lookups == Explaining(trace, "retrieval")
      replies == Explaining(trace, "llm")
      found   == [d \in {trace[i].input : i \in lookups} |->
                    trace[Max({i \in lookups : trace[i].input = d})].output]
  IN  IF replies = {} THEN None ELSE Checked(trace[Max(replies)].output, found)

-----------------------------------------------------------------------------
(* Properties *)

\* The nodes are in known stages and open calls belong to nodes that wait for
\* their model, each at a step of its own.
TypeOK ==
  /\ stage \in [Nodes -> Stages]
  /\ priced \in BOOLEAN
  /\ proposal \in Proposals \cup {None}
  /\ ruling \in Ruling \cup {None}
  /\ DOMAIN retrieved \subseteq ToSet(Drivers)
  /\ \A i \in DOMAIN steps : steps[i].node \in Nodes /\ steps[i].kind \in {"llm", "retrieval", "rule", "check"}
  /\ outcome = "running" => DOMAIN open = {n \in Nodes : stage[n] = "asking"}
  /\ \A n \in DOMAIN open : steps[open[n]].node = n /\ steps[open[n]].output = None
  /\ outcome \in {"running", "raised", "recorded"}

\* The limit in force for a symbol: the cap, and the budget if there is a VaR.
Limit == IF var = NoVar \/ var <= VarBudget
         THEN MaxPositionQty
         ELSE CHOOSE n \in 0..MaxPositionQty :
                /\ n * var <= MaxPositionQty * VarBudget
                /\ (n + 1) * var > MaxPositionQty * VarBudget

\* The trade that is ruled is the largest part of the proposed one that
\* neither breaks the limit nor goes short (risk_manager's two rules combined,
\* against a direct definition), and the verdict stored beside it says what
\* became of the proposal: approved as it was, shrunk, or refused.
RulingIsLargestAllowed ==
  outcome = "recorded" /\ proposal.qty >= 0 =>
    LET got     == saved.decision
        asked   == IF proposal.action = "HOLD" THEN 0 ELSE proposal.qty
        allowed == {n \in 0..asked :
                      CASE proposal.action = "BUY"  -> n = 0 \/ current + n <= Limit
                        [] proposal.action = "SELL" -> n <= current
                        [] proposal.action = "HOLD" -> n = 0}
    IN  /\ got.qty \in allowed
        /\ \A n \in allowed : n <= got.qty
        /\ got.action = IF got.qty = 0 THEN "HOLD" ELSE proposal.action
        /\ got.verdict = IF got.qty = asked THEN "APPROVE" ELSE IF got.qty = 0 THEN "VETO" ELSE "SCALE"

\* An explanation is stored exactly when the VaR budget, not the share cap,
\* changed the trade.
ExplainedIffBudgetChanged ==
  outcome = "recorded" =>
    (saved.explanation # None
       <=> HasExplainer /\ Drivers # <<>> /\ Gate(proposal, current, var) # V1Rules(proposal, current))

\* citations_valid is true only of an explanation that has an entry for each
\* loss date it was given, and cites for each what was retrieved for that date.
ValidMeansGrounded ==
  outcome = "recorded" /\ saved.explanation # None =>
    LET reply == saved.explanation.reply
    IN  saved.explanation.check.valid <=>
          /\ {reply[i].day : i \in DOMAIN reply} = ToSet(Drivers)
          /\ \A i \in DOMAIN reply : ToSet(reply[i].ids) \subseteq ToSet(HeadlinesFor[reply[i].day])

\* The pre-registered completeness check of phase 10: the citation check rebuilt
\* from the trace alone equals the stored row, field by field.
TraceRebuildsExplanation ==
  outcome = "recorded" /\ saved.explanation # None =>
    Rebuilt(saved.trace) = saved.explanation.check

\* 006: position_qty is "Shares held once this decision's trade (if any) is
\* applied".  It is what the ledger holds afterwards, except in exactly one case:
\* a trade was ruled and the technical analyst had no price to fill it at.  The
\* forecast then counts a trade that was never recorded.  (Nor is it, for a
\* proposal of a negative quantity, which nothing refuses: the ledger ignores it.)
ForecastPositionIsHeld ==
  outcome = "recorded" /\ saved.forecast # None /\ proposal.qty >= 0 =>
    (saved.forecast = saved.held <=> priced \/ saved.decision.action = "HOLD")
=============================================================================
