----------------------------- MODULE MCBacktestRun -----------------------------
(* Small instances of BacktestRun for TLC. *)
EXTENDS BacktestRun, TLC

CONSTANTS p1, p2, p3

\* 20 shares and a 2% budget in the code; here 3 shares, and a VaR of 3 (the
\* budget is 2) leaves room for two of them.
OneSymbol  == <<"AAPL">>
TwoSymbols == <<"AAPL", "MSFT">>

OddProposals  == {[action |-> "BUY", qty |-> 2], [action |-> "SELL", qty |-> 3],
                  [action |-> "BUY", qty |-> -1]}
HoldProposals == {[action |-> "HOLD", qty |-> 0]}

NoVarOrTight == {NoVar, 3}
OnlyNoVar    == {NoVar}

PaidRun ==
  [real |-> TRUE, cap |-> 4, allowDirty |-> FALSE, noSentiment |-> FALSE,
   mode |-> "score", explain |-> "off", dryPm |-> "HOLD", trace |-> TRUE,
   slippage |-> 5, code |-> [commit |-> "a1", dirty |-> FALSE],
   llm |-> [portfolio_manager |-> "claude-sonnet-5-5",
            sentiment_analyst |-> "claude-haiku-4-5",
            explainer         |-> "claude-haiku-4-5"]]

\* Resumed after a commit, with a dirty tree; or with an explainer added.
SameStrategy  == [PaidRun EXCEPT !.code = [commit |-> "b2", dirty |-> TRUE],
                                 !.allowDirty = TRUE, !.trace = FALSE]
WithExplainer == [PaidRun EXCEPT !.explain = "fts"]
AfterCommit   == {PaidRun, SameStrategy, WithExplainer}

\* The default provider has no prices; a dry run needs no cap, a paid one does.
Openai   == [PaidRun EXCEPT !.llm = [portfolio_manager |-> "gpt-4o",
                                     sentiment_analyst |-> "gpt-4o-mini",
                                     explainer         |-> "gpt-4o-mini"]]
Uncapped == [PaidRun EXCEPT !.cap = NoCap]
DryRun   == [Uncapped EXCEPT !.real = FALSE]
Spenders == {PaidRun, Openai, Uncapped, DryRun}
Claude   == {"claude-sonnet-5-5", "claude-haiku-4-5", "claude-opus-5-5"}

Free == {0}
Paid == {1, 3}

AllFaultsOccur == {"exception", "kill", "mark_fails"}
Exceptions     == {"exception"}

AnyProcess == Permutations(Procs)
=============================================================================
