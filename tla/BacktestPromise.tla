---------------------------- MODULE BacktestPromise ----------------------------
(***************************************************************************)
(* What run_backtest promises its reader, with processes, transactions,    *)
(* budgets and failures left out: the trading days of the window are       *)
(* simulated one after the other, each exactly once and as a whole; every  *)
(* day leaves each position within the cap; and the backtest is reported   *)
(* as a success only when the last day is in, after which it never changes.*)
(* An interruption is not visible here at all: a resumed run reads like    *)
(* one that was never interrupted.  BacktestRun implements this.           *)
(***************************************************************************)
EXTENDS Naturals

CONSTANTS LastDay, Tickers, Cap

VARIABLES daysIn,     \* how many days of the window have been simulated
          book,       \* shares held per ticker
          reported    \* the backtest has been declared a success

promiseVars == <<daysIn, book, reported>>

Init == /\ daysIn = 0
        /\ book = [s \in Tickers |-> 0]
        /\ reported = FALSE

SimulateDay == /\ ~reported
               /\ daysIn < LastDay
               /\ daysIn' = daysIn + 1
               /\ book' \in [Tickers -> 0..Cap]
               /\ UNCHANGED reported

Report == /\ ~reported
          /\ daysIn = LastDay
          /\ reported' = TRUE
          /\ UNCHANGED <<daysIn, book>>

Next == SimulateDay \/ Report

Spec == Init /\ [][Next]_promiseVars
=============================================================================
