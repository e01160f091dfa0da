------------------------------- MODULE EvalRound -------------------------------
(***************************************************************************)
(* Phase 09: does the explainer name the real cause of a loss?             *)
(* scripts/eval_explanations.py, whose stages are run one at a time and    *)
(* hand each other the files of eval/.  explain and judge pay for one      *)
(* model call per day under a cap and write their file at the end; a stage *)
(* that raises writes nothing.  The sign test and the retrieval scores are *)
(* those of scripts/eval_retrieval.py.                                     *)
(***************************************************************************)
EXTENDS Integers, SequencesExt, Combinatorics

CONSTANTS GoldenDays,   \* golden_days.json: the test days, in order
          NoNewsDays,   \* its no_news_driver_days
          SeenDays,     \* labels.json: days seen before they were labelled
          OrderFor,     \* day -> who is shown as A and as B (order_for)
          Grades,       \* what the judge may say of an answer
          CallCosts,    \* spending of one call
          CostCap,      \* --max-cost-usd
          AlphaPct,     \* ALPHA, 5 per cent in the code
          MaxStages,    \* bound on the stages that are run
          None

Answers == {"explainer", "quote"}
Grade   == [matches : {"yes", "partly", "no"}, supported : BOOLEAN]

ASSUME EvalConstants ==
  /\ GoldenDays \in Seq(ToSet(GoldenDays)) /\ NoNewsDays \in Seq(ToSet(NoNewsDays))
  /\ IsInjective(GoldenDays \o NoNewsDays) /\ SeenDays \subseteq ToSet(GoldenDays)
  /\ OrderFor \in [ToSet(GoldenDays) -> {<<"explainer", "quote">>, <<"quote", "explainer">>}]
  /\ Grades \subseteq Grade
  /\ CallCosts \subseteq Nat \ {0} /\ CostCap \in Nat
  /\ AlphaPct \in 1..100 /\ MaxStages \in Nat

VARIABLES
  stage,         \* the stage that runs, or "idle"
  out,           \* its `out`
  spent,         \* what its calls cost
  explanations,  \* explanations.json: the days explained
  judgements,    \* judgements.json: the judged days
  stages         \* how many stages were run

evalVars == <<stage, out, spent, explanations, judgements, stages>>

EvalInit ==
  /\ stage = "idle" /\ out = <<>> /\ spent = 0
  /\ explanations = None /\ judgements = None
  /\ stages = 0

-----------------------------------------------------------------------------
(* The stages *)

Targets == GoldenDays \o NoNewsDays

\* check_cap raises CapReached.
CapReached == out # <<>> /\ spent * (Len(out) + 1) > CostCap * Len(out)

Begin(s) ==
  /\ stage = "idle" /\ stages < MaxStages
  /\ stage' = s /\ out' = <<>> /\ spent' = 0 /\ stages' = stages + 1
  /\ UNCHANGED <<explanations, judgements>>

Pay == \E cost \in CallCosts : spent' = spent + cost

StartExplain == Begin("explain")

ExplainNext ==
  /\ stage = "explain" /\ Len(out) < Len(Targets) /\ ~CapReached
  /\ Pay
  /\ out' = Append(out, Targets[Len(out) + 1])
  /\ UNCHANGED <<stage, explanations, judgements, stages>>

SaveExplanations ==
  /\ stage = "explain" /\ (Len(out) = Len(Targets) \/ CapReached)
  /\ explanations' = out
  /\ stage' = "idle" /\ out' = <<>> /\ spent' = 0
  /\ UNCHANGED <<judgements, stages>>

\* context() reads the files.
StartJudge == explanations # None /\ Begin("judge")

\* Mutant of Attributed: A is taken to be the explainer.
AttributedInOrder(day) == <<"explainer", "quote">>

\* a_who, b_who: whose grades answer_a and answer_b are.
Attributed(day) == OrderFor[day]

\* The judge grades A and B of item_text.  `about`, which is not in the file, is
\* whose answer the judge had before it.
JudgeNext ==
  LET day   == GoldenDays[Len(out) + 1]
      shown == OrderFor[day]
  IN  /\ stage = "judge" /\ Len(out) < Len(GoldenDays) /\ ~CapReached
      /\ day \in ToSet(explanations)
      /\ Pay
      /\ \E a, b \in Grades :
           LET given == <<[grade |-> a, about |-> shown[1]], [grade |-> b, about |-> shown[2]]>>
           IN  out' = Append(out, [date   |-> day,
                                   answer |-> [who \in Answers |->
                                                 given[CHOOSE k \in 1..2 : Attributed(day)[k] = who]]])
      /\ UNCHANGED <<stage, explanations, judgements, stages>>

SaveJudgements ==
  /\ stage = "judge" /\ (Len(out) = Len(GoldenDays) \/ CapReached)
  /\ judgements' = out
  /\ stage' = "idle" /\ out' = <<>> /\ spent' = 0
  /\ UNCHANGED <<explanations, stages>>

\* A call fails, or ex[day] raises because that day was not explained.
StageRaises ==
  /\ stage # "idle"
  /\ stage' = "idle" /\ out' = <<>> /\ spent' = 0
  /\ UNCHANGED <<explanations, judgements, stages>>

EvalStep ==
  \/ StartExplain \/ ExplainNext \/ SaveExplanations
  \/ StartJudge \/ JudgeNext \/ SaveJudgements
  \/ StageRaises

-----------------------------------------------------------------------------
(* The pre-registered test *)

\* sign_p and sign_test_p, as 2^n times the p-value.
SignTail(w, l) ==
  LET n    == w + l
      k    == IF w < l THEN w ELSE l
      tail == SumFunctionOnSet([i \in 0..k |-> choose(n, i)], 0..k)
  IN  IF 2 * tail < 2^n THEN 2 * tail ELSE 2^n

Significant(w, l) == 100 * SignTail(w, l) < AlphaPct * 2^(w + l)

Yes(row, who) == row.answer[who].grade.matches = "yes"

\* The rows of these days; stage_report skips the days that were not judged.
RowsOf(rows, days) == {r \in ToSet(rows) : r.date \in days}

Wins(rs)      == Cardinality({r \in rs : Yes(r, "explainer") /\ ~Yes(r, "quote")})
Losses(rs)    == Cardinality({r \in rs : Yes(r, "quote") /\ ~Yes(r, "explainer")})
Supported(rs) == Cardinality({r \in rs : r.answer["explainer"].grade.supported})

\* beats and meets_pre_registered_bar.
Beats(rs) ==
  /\ Significant(Wins(rs), Losses(rs)) /\ Wins(rs) > Losses(rs)
  /\ 10 * Supported(rs) >= 9 * Cardinality(rs)
=============================================================================
