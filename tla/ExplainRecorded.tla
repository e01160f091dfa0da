---------------------------- MODULE ExplainRecorded ----------------------------
(***************************************************************************)
(* scripts/explain_recorded.py: runs of the script that explain, later,    *)
(* decisions of a finished backtest that the VaR budget changed.  Each run *)
(* selects once, pays for one model call per decision, and commits every   *)
(* explanation, with its trace, by itself.  Runs may overlap.              *)
(***************************************************************************)
EXTENDS RecordedRun

CONSTANTS Scripts,      \* runs of the script
          PerBacktest,  \* --per-backtest
          CallCosts,    \* spending of one explainer call
          CostCap       \* --max-cost-usd

ASSUME ExplainConstants ==
  PerBacktest \in Nat \ {0} /\ CallCosts \subseteq Nat \ {0} /\ CostCap \in Nat

VARIABLES
  explained,  \* risk_explanations: decision -> the script that wrote it
  pc,         \* where each script is
  rows,       \* the decisions it selected
  done,       \* its `done`
  spent       \* what its calls cost

scriptVars == <<explained, pc, rows, done, spent>>
vars == <<runVars, scriptVars>>

ScriptInit ==
  /\ explained = <<>>
  /\ pc     = [s \in Scripts |-> "idle"]
  /\ rows   = [s \in Scripts |-> <<>>]
  /\ done   = [s \in Scripts |-> 0]
  /\ spent  = [s \in Scripts |-> 0]

-----------------------------------------------------------------------------
\* Python's round(a / b): to the even neighbour of a half.
Rounded(a, b) ==
  IF 2 * (a % b) < b \/ (2 * (a % b) = b /\ (a \div b) % 2 = 0)
  THEN a \div b ELSE a \div b + 1

\* evenly_spaced: rows 0, round(count / n), round(2 * count / n), ...
EvenlySpaced(all, n) ==
  IF n >= Len(all) THEN all
  ELSE [k \in 1..n |-> all[Rounded((k - 1) * Len(all), n) + 1]]

\* The DECISIONS query, in date order.
Unexplained ==
  SelectSeq([i \in DOMAIN decisions |-> i],
            LAMBDA i : IsTriggered(decisions[i]) /\ i \notin DOMAIN explained)

\* Mutant of FinalQuantity: the proposal unless it was vetoed.
FinalQuantityProposed(d) == IF d.ruling.verdict = "VETO" THEN 0 ELSE d.pm.qty

\* final_quantity, from the stored opinions.
FinalQuantity(d) ==
  IF d.ruling.verdict = "VETO" THEN 0
  ELSE IF "var_budget_scale" \in d.flags THEN d.varMax - d.current ELSE d.pm.qty

-----------------------------------------------------------------------------
Select(s) ==
  /\ pc[s] = "idle" /\ Finished
  /\ rows' = [rows EXCEPT ![s] = EvenlySpaced(Unexplained, PerBacktest)]
  /\ pc' = [pc EXCEPT ![s] = "next"]
  /\ UNCHANGED <<explained, done, spent>>

LikelyToCross(s) == done[s] > 0 /\ spent[s] * (done[s] + 1) > CostCap * done[s]

\* _CapReached, or no row is left: report().
Stop(s) ==
  /\ pc[s] = "next" /\ (rows[s] = <<>> \/ LikelyToCross(s))
  /\ pc' = [pc EXCEPT ![s] = "reported"]
  /\ UNCHANGED <<explained, rows, done, spent>>

\* _invoke: the model has answered and is paid for.
Call(s) ==
  /\ pc[s] = "next" /\ rows[s] # <<>> /\ ~LikelyToCross(s)
  /\ \E cost \in CallCosts : spent' = [spent EXCEPT ![s] = @ + cost]
  /\ done' = [done EXCEPT ![s] = @ + 1]
  /\ pc' = [pc EXCEPT ![s] = "store"]
  /\ UNCHANGED <<explained, rows>>

\* The rows' worst-loss days could not be recomputed: the node returns None.
NothingToExplain(s) ==
  /\ pc[s] = "next" /\ rows[s] # <<>> /\ ~LikelyToCross(s)
  /\ done' = [done EXCEPT ![s] = @ + 1]
  /\ rows' = [rows EXCEPT ![s] = Tail(@)]
  /\ UNCHANGED <<explained, pc, spent>>

Continue(s) ==
  /\ rows' = [rows EXCEPT ![s] = Tail(@)]
  /\ pc' = [pc EXCEPT ![s] = "next"]

\* record_explanation and record_trace, one transaction.
Store(s) ==
  /\ pc[s] = "store" /\ Head(rows[s]) \notin DOMAIN explained
  /\ explained' = [i \in DOMAIN explained \cup {Head(rows[s])} |->
                     IF i = Head(rows[s]) THEN s ELSE explained[i]]
  /\ Continue(s)
  /\ UNCHANGED <<done, spent>>

\* Mutant of StoreRefused: ON CONFLICT DO NOTHING, and on to the next row.
StoreRefusedQuietly(s) ==
  /\ pc[s] = "store" /\ Head(rows[s]) \in DOMAIN explained
  /\ Continue(s)
  /\ UNCHANGED <<explained, done, spent>>

\* UNIQUE (decision_id): another run was faster, the insert raises.
StoreRefused(s) ==
  /\ pc[s] = "store" /\ Head(rows[s]) \in DOMAIN explained
  /\ pc' = [pc EXCEPT ![s] = "raised"]
  /\ UNCHANGED <<explained, rows, done, spent>>

\* The model or the database raises, or the run is interrupted.
Break(s) ==
  /\ pc[s] \in {"next", "store"}
  /\ pc' = [pc EXCEPT ![s] = "raised"]
  /\ UNCHANGED <<explained, rows, done, spent>>

ScriptStep(s) ==
  Select(s) \/ Stop(s) \/ Call(s) \/ NothingToExplain(s) \/ Store(s) \/ StoreRefused(s) \/ Break(s)

ExplainInit == Init /\ ScriptInit

Next ==
  \/ SimulateDay /\ UNCHANGED scriptVars
  \/ \E s \in Scripts : ScriptStep(s) /\ UNCHANGED runVars

Spec == ExplainInit /\ [][Next]_vars

-----------------------------------------------------------------------------
(* Properties *)

\* The state rebuilt for the explainer has the quantity the risk manager ruled,
\* although that quantity was never stored.
QuantityRebuilt ==
  \A i \in DOMAIN decisions :
    IsTriggered(decisions[i]) => FinalQuantity(decisions[i]) = decisions[i].ruling.qty

\* Whatever stops a run, and whatever another run explains meanwhile, it has
\* paid for one explanation at most that is not in the database, and for none
\* if it ended by itself; it passes its cap by one call at most.
LossBounded ==
  \A s \in Scripts :
    LET stored == Cardinality({i \in DOMAIN explained : explained[i] = s})
    IN  /\ spent[s] <= (stored + 1) * Max(CallCosts)
        /\ pc[s] = "reported" => spent[s] <= stored * Max(CallCosts)
        /\ spent[s] <= CostCap + Max(CallCosts)
=============================================================================
