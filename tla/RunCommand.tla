------------------------------ MODULE RunCommand ------------------------------
(***************************************************************************)
(* The command line of a backtest (scripts/run_backtest.py), with the      *)
(* environment it is given in: what it is refused for, the strategy it     *)
(* runs, and what is stored of it in backtests.config.  BacktestRun starts *)
(* its processes with these commands.                                      *)
(*                                                                         *)
(* A command is a record: real (--use-real-llms), cap (--max-cost-usd),    *)
(* allowDirty, noSentiment, mode, explain, dryPm, trace and slippage are   *)
(* the options; llm is what describe() says of the environment, by role;   *)
(* code is _git_state(), the commit and whether the tree is dirty.  The    *)
(* symbols and the window are the same for all.                            *)
(***************************************************************************)
EXTENDS Integers

CONSTANT NoCap  \* --max-cost-usd is not given

Code    == [commit : STRING, dirty : BOOLEAN]
Models  == [portfolio_manager : STRING, sentiment_analyst : STRING, explainer : STRING]
Command == [real : BOOLEAN, cap : Nat \cup {NoCap}, allowDirty : BOOLEAN,
            noSentiment : BOOLEAN, mode : {"score", "categorical"},
            explain : {"off", "fts", "recent"}, dryPm : {"HOLD", "BUY"},
            trace : BOOLEAN, slippage : Nat, llm : Models, code : Code]

\* Mutant of Refused: a paid run without a cap is let through.
RefusedIfDirty(c) == c.real /\ c.code.dirty /\ ~c.allowDirty

\* The two checks of main() before anything is opened.
Refused(c) == c.real /\ (c.cap = NoCap \/ (c.code.dirty /\ ~c.allowDirty))

-----------------------------------------------------------------------------
(* What runs *)

Real(model) == <<"model", model>>
Fake(name)  == <<"fake", name>>

PortfolioLlm(c) == IF c.real THEN Real(c.llm.portfolio_manager) ELSE Fake(c.dryPm)

\* The neutral stand-in replaces the sentiment model in dry runs and ablations.
SentimentLlm(c) ==
  IF c.noSentiment \/ ~c.real THEN Fake("neutral") ELSE Real(c.llm.sentiment_analyst)

ExplainerLlm(c) == IF c.real THEN Real(c.llm.explainer) ELSE Fake("grounded")

Off == <<>>

\* What make_graph builds, and the slippage of the fills: all that decides what a
\* backtest trades and explains, given the code.
Strategy(c) ==
  [portfolio |-> PortfolioLlm(c), sentiment |-> SentimentLlm(c), mode |-> c.mode,
   explainer |-> IF c.explain = "off" THEN Off ELSE <<c.explain, ExplainerLlm(c)>>,
   slippage  |-> c.slippage]

\* _fake_llms: the one proposal of a dry run's Portfolio Manager.
DryProposal(c) == [action |-> c.dryPm, qty |-> IF c.dryPm = "BUY" THEN 5 ELSE 0]

-----------------------------------------------------------------------------
(* What is stored *)

\* config; the entries that are the same for every command are left out.
ConfigOf(c) ==
  [llm       |-> c.llm,
   models    |-> <<PortfolioLlm(c), SentimentLlm(c)>>,
   mode      |-> c.mode,
   ablation  |-> c.noSentiment,
   explainer |-> IF c.explain = "off" THEN Off ELSE <<c.explain, ExplainerLlm(c)>>,
   slippage  |-> c.slippage,
   trace     |-> c.trace,
   code      |-> c.code]

\* Mutant of MustMatch: the explainer, added in phase 08, is not compared.
MustMatchBeforePhase08(config) ==
  <<config.llm, config.models, config.mode, config.ablation, config.slippage>>

\* The values under RESUME_MUST_MATCH.
MustMatch(config) ==
  <<config.llm, config.models, config.mode, config.ablation, config.slippage,
    config.explainer>>
=============================================================================
