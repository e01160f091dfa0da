------------------------------- MODULE RiskMath -------------------------------
(***************************************************************************)
(* The order statistics of app/agent/risk_math.py: returns of a series of  *)
(* closes, the historical VaR and the losses it is built from.  Returns    *)
(* are whole multiples of 1/Scale, for closes that Scale makes divisible.  *)
(* Means and deviations (parametric VaR, correlation) and the Kupiec test  *)
(* are floating-point formulas and left out.                               *)
(***************************************************************************)
EXTENDS Integers, SequencesExt

CONSTANTS Scale,       \* returns are counted in 1/Scale
          Confidence,  \* CONFIDENCE in per cent, 95 in the code
          VarWindow    \* VAR_WINDOW, 250 returns in the code

ASSUME MathConstants ==
  Scale \in Nat \ {0} /\ Confidence \in 1..99 /\ VarWindow \in Nat \ {0}

\* close[t] / close[t-1] - 1
Return(before, after) == (Scale * after) \div before - Scale

\* simple_returns
SimpleReturns(closes) == [i \in 1..Len(closes) - 1 |-> Return(closes[i], closes[i + 1])]

\* _tail_count of the window: rounded up, at least one.
TailCount == Max({1, (VarWindow * (100 - Confidence) + 99) \div 100})

\* seq[-window:]
Recent(seq) == SubSeq(seq, Len(seq) - VarWindow + 1, Len(seq))

\* historical_var, given enough returns: the k-th largest loss, that is, the one
\* that fewer than k are larger than, but k or more at least as large as.
HistoricalVar(returns) ==
  LET losses == [i \in 1..VarWindow |-> -Recent(returns)[i]]
  IN  CHOOSE x \in ToSet(losses) :
        /\ Cardinality({i \in 1..VarWindow : losses[i] > x}) < TailCount
        /\ Cardinality({i \in 1..VarWindow : losses[i] >= x}) >= TailCount

\* sorted(): the positions of a series from its least value to its greatest, and
\* equal values in the order in which they stand.
Sooner(series, i, j) == series[i] < series[j] \/ (series[i] = series[j] /\ i < j)

Order(series) ==
  [a \in DOMAIN series |->
     CHOOSE i \in DOMAIN series :
       Cardinality({j \in DOMAIN series : Sooner(series, j, i)}) = a - 1]

\* Mutant of TailDays: the labels are not cut to the window.
TailDaysUncut(returns, labels) ==
  LET order == Order(Recent(returns))
  IN  [a \in 1..TailCount |-> [label |-> labels[order[a]], return |-> Recent(returns)[order[a]]]]

\* tail_losses, given enough returns: labels of the k worst returns, worst first.
TailDays(returns, labels) ==
  LET order == Order(Recent(returns))
  IN  [a \in 1..TailCount |->
         [label |-> Recent(labels)[order[a]], return |-> Recent(returns)[order[a]]]]
=============================================================================
