------------------------------ MODULE BacktestRun ------------------------------
(***************************************************************************)
(* The life of one row of `backtests` (app/agent/backtest.py): the process *)
(* that creates it, the day loop, the processes that resume it, and every  *)
(* way any of them can stop.  Each operating-system process runs           *)
(* run_backtest once and holds one database connection; the risk node      *)
(* reads positions through another one, so it sees committed rows only.    *)
(* What a process was started with is a command of RunCommand.             *)
(*                                                                         *)
(* The ledger (backtest_outcomes) is kept here as open shares per symbol;  *)
(* FifoLedger models its rows and shows that they add up to this number.   *)
(* LLM spending is counted in whole units per graph call.                  *)
(***************************************************************************)
EXTENDS RiskGate, RunCommand, Sequences

CONSTANTS Procs,       \* processes, each calling run_backtest at most once
          NDays,       \* trading days in the window
          SymbolSeq,   \* --symbols, in the order they are processed
          Proposals,   \* what the Portfolio Manager may propose
          Vars,        \* VaR figures the risk node may compute
          Commands,    \* the commands it may be started or resumed with
          CallCosts,   \* spending of one graph call that uses real models
          Priced,      \* the models in PRICES_PER_MTOK
          Faults,      \* which of AllFaults can happen
          MayOverlap,  \* may a process start while another is still alive?
          NoUsage,     \* llm_usage IS NULL
          NoCommand,   \* of a process that has not started
          NoConfig     \* no row in backtests yet

AllFaults == {"exception", "kill", "mark_fails"}

ASSUME BacktestConstants ==
  /\ NDays \in Nat \ {0}
  /\ SymbolSeq \in Seq(STRING) /\ SymbolSeq # <<>>
  /\ Proposals \subseteq Proposal
  /\ Vars \subseteq Int \cup {NoVar}
  /\ Commands \subseteq Command
  /\ CallCosts \subseteq Nat
  /\ Faults \subseteq AllFaults
  /\ MayOverlap \in BOOLEAN
  /\ NoUsage \notin Nat
  /\ NoCap \notin Nat
  /\ NoCommand \notin Commands

\* With two writers at once a SELL works on rows another transaction holds,
\* which share counts cannot express: LiveCycle models that at row level.
ASSUME OverlapOnlyBuys ==
  MayOverlap => \A t \in Proposals : t.action # "SELL"

VARIABLES
  \* --- committed rows of the database ---
  status,    \* backtests.status, "NONE" before the row exists
  config,    \* backtests.config, without its 'resumes'
  llmUsage,  \* backtests.llm_usage, added up over models
  resumes,   \* backtests.config->'resumes'
  runs,      \* the rows of runs of this backtest, in commit order; `by`, the
             \* command of the process that wrote a row, is history
  held,      \* open shares per symbol in backtest_outcomes
  \* --- per process ---
  pc,        \* where its run_backtest is
  mine,      \* the command it was started with
  first,     \* the first day of its (filtered) trading_days
  day,       \* the day it is at
  sym,       \* index of the symbol it is at
  seen,      \* current_qty the risk node read for that symbol
  delta,     \* shares its open transaction has added or removed
  spent,     \* what its UsageMetadataCallbackHandler has counted
  before,    \* llm_usage as _finish has read it
  \* --- history, not in the program ---
  burnt      \* everything spent on this backtest by any process

backtestRow == <<status, config, llmUsage, resumes>>
committed   == <<runs, held>>
dayWork     == <<sym, seen, delta>>
plan        == <<mine, first>>
spending    == <<spent, burnt>>
vars == <<backtestRow, committed, pc, plan, day, dayWork, spending, before>>

Symbols  == {SymbolSeq[i] : i \in DOMAIN SymbolSeq}
NoChange == [s \in Symbols |-> 0]
\* `llm_usage or {}`.
AsNumber(usage) == IF usage = NoUsage THEN 0 ELSE usage

Statuses == {"NONE", "RUNNING", "FAILED", "SUCCESS"}
Working  == {"loop", "decide", "record", "commit"}
Stopping == {"finish", "capped", "failing", "marking"}
Alive    == Working \cup Stopping
PCs      == Alive \cup {"idle", "ended"}

\* The commands that main() does not refuse.
Accepted == {c \in Commands : ~Refused(c)}

Symbol(p)   == SymbolSeq[sym[p]]
DaysDone(p) == day[p] - first[p]

\* A second process on the same backtest is the operator's doing: nothing in
\* the code prevents it (a RUNNING row may be resumed).
MayStart == MayOverlap \/ \A q \in Procs : pc[q] \notin Alive

Init ==
  /\ status = "NONE" /\ config = NoConfig /\ llmUsage = NoUsage /\ resumes = <<>>
  /\ runs = <<>> /\ held = NoChange
  /\ pc     = [p \in Procs |-> "idle"]
  /\ mine   = [p \in Procs |-> NoCommand]
  /\ first  = [p \in Procs |-> 1]
  /\ day    = [p \in Procs |-> 1]
  /\ sym    = [p \in Procs |-> 1]
  /\ seen   = [p \in Procs |-> 0]
  /\ delta  = [p \in Procs |-> NoChange]
  /\ spent  = [p \in Procs |-> 0]
  /\ before = [p \in Procs |-> 0]
  /\ burnt  = 0

-----------------------------------------------------------------------------
(* Starting: the first transaction of _run_backtest *)

\* Mutant of LastDone: the last committed day is run again.
LastDoneRepeats ==
  IF runs = <<>> THEN 0
  ELSE (CHOOSE d \in {runs[i].day : i \in DOMAIN runs} :
          \A i \in DOMAIN runs : runs[i].day <= d) - 1

\* max(as_of) over the runs rows of this backtest; 0 stands for date.min.
LastDone ==
  IF runs = <<>> THEN 0
  ELSE CHOOSE d \in {runs[i].day : i \in DOMAIN runs} :
         \A i \in DOMAIN runs : runs[i].day <= d

\* Mutant of Resumable: a finished backtest may be resumed as well.
ResumableAnyStatus(c) ==
  /\ status # "NONE"
  /\ MustMatch(ConfigOf(c)) = MustMatch(config)
  /\ \A i \in DOMAIN runs : runs[i].status = "SUCCESS"

\* The checks of _start_resume.
Resumable(c) ==
  /\ status \in {"RUNNING", "FAILED"}
  /\ MustMatch(ConfigOf(c)) = MustMatch(config)
  /\ \A i \in DOMAIN runs : runs[i].status = "SUCCESS"

\* INSERT INTO backtests ... and created.append.
Create(p) ==
  /\ pc[p] = "idle" /\ MayStart
  /\ status = "NONE"
  /\ \E c \in Accepted :
       /\ config' = ConfigOf(c)
       /\ mine' = [mine EXCEPT ![p] = c]
  /\ status' = "RUNNING"
  /\ pc' = [pc EXCEPT ![p] = "loop"]
  /\ UNCHANGED <<llmUsage, resumes, committed, first, day, dayWork, spending, before>>

\* Mutant of ResumeNote: the code of the first process is written down again.
ResumeNoteStored(c) == [after |-> LastDone, usageBefore |-> llmUsage, code |-> config.code]

\* The entry of config->'resumes': what may differ from the stored settings.
ResumeNote(c) == [after |-> LastDone, usageBefore |-> llmUsage, code |-> c.code]

\* _start_resume accepts: the row is RUNNING again and trading_days is cut.
Resume(p) ==
  /\ pc[p] = "idle" /\ MayStart
  /\ \E c \in Accepted :
       /\ Resumable(c)
       /\ mine' = [mine EXCEPT ![p] = c]
       /\ resumes' = Append(resumes, ResumeNote(c))
  /\ status' = "RUNNING"
  /\ first' = [first EXCEPT ![p] = LastDone + 1]
  /\ day'   = [day EXCEPT ![p] = LastDone + 1]
  /\ pc' = [pc EXCEPT ![p] = "loop"]
  /\ UNCHANGED <<config, llmUsage, committed, dayWork, spending, before>>

\* _start_resume raises before created.append: nothing is marked FAILED.
\* (Naming a backtest that does not exist is refused too; not modelled.)
RefuseResume(p) ==
  /\ pc[p] = "idle" /\ MayStart
  /\ status # "NONE"
  /\ \E c \in Accepted : ~Resumable(c)
  /\ pc' = [pc EXCEPT ![p] = "ended"]
  /\ UNCHANGED <<backtestRow, committed, plan, day, dayWork, spending, before>>

-----------------------------------------------------------------------------
(* The day loop *)

\* A cap is set and a day is done: the spending is looked at.
Checks(p) == mine[p].cap # NoCap /\ DaysDone(p) > 0

\* Mutant of LikelyToCross: the check also guards the process's first day.
LikelyToCrossFromStart(p) ==
  mine[p].cap # NoCap /\ spent[p] * (DaysDone(p) + 1) >= mine[p].cap * DaysDone(p)

\* spent + spent/done > max_cost_usd, not asked before the first day.
LikelyToCross(p) ==
  /\ Checks(p)
  /\ spent[p] * (DaysDone(p) + 1) > mine[p].cap * DaysDone(p)

\* The models that usage_summary certainly, or possibly, has tokens of: not every
\* day has headlines or a decision to explain.
Asked(c)    == {m \in {PortfolioLlm(c)} : m[1] = "model"}
MayAsk(c)   == {m \in {PortfolioLlm(c), SentimentLlm(c)} \cup
                      (IF c.explain = "off" THEN {} ELSE {ExplainerLlm(c)}) : m[1] = "model"}
Unpriced(S) == \E m \in S : m[2] \notin Priced

\* usage_cost_usd raises KeyError: "a spending cap that silently counted it as
\* free would not be a cap".
CannotPrice(p) ==
  /\ pc[p] = "loop" /\ day[p] <= NDays
  /\ Checks(p) /\ Unpriced(MayAsk(mine[p]))
  /\ pc' = [pc EXCEPT ![p] = "failing"]
  /\ UNCHANGED <<backtestRow, committed, plan, day, dayWork, spending, before>>

\* The price of what was spent is known.
CanPrice(p) == Checks(p) => ~Unpriced(Asked(mine[p]))

\* BudgetExceeded.
StopAtCap(p) ==
  /\ pc[p] = "loop" /\ day[p] <= NDays
  /\ CanPrice(p) /\ LikelyToCross(p)
  /\ pc' = [pc EXCEPT ![p] = "capped"]
  /\ UNCHANGED <<backtestRow, committed, plan, day, dayWork, spending, before>>

\* The day's transaction opens and its runs row is inserted as RUNNING.
BeginDay(p) ==
  /\ pc[p] = "loop" /\ day[p] <= NDays
  /\ CanPrice(p) /\ ~LikelyToCross(p)
  /\ pc' = [pc EXCEPT ![p] = "decide"]
  /\ sym' = [sym EXCEPT ![p] = 1]
  /\ delta' = [delta EXCEPT ![p] = NoChange]
  /\ UNCHANGED <<backtestRow, committed, plan, day, seen, spending, before>>

\* Mutant of PositionSeen: as when the days were savepoints of one never
\* committed transaction, another connection sees no position at all.
PositionSeenNothing(p) == 0

\* BacktestRepository.list_positions, on its own connection.
PositionSeen(p) == held[Symbol(p)]

\* Only real models cost anything.
CostsOf(c) == IF c.real THEN CallCosts ELSE {0}

\* graph.ainvoke: the LLM calls are paid for, the risk node reads the holding.
Decide(p) ==
  /\ pc[p] = "decide"
  /\ \E cost \in CostsOf(mine[p]) :
       /\ spent' = [spent EXCEPT ![p] = @ + cost]
       /\ burnt' = burnt + cost
  /\ seen' = [seen EXCEPT ![p] = PositionSeen(p)]
  /\ pc' = [pc EXCEPT ![p] = "record"]
  /\ UNCHANGED <<backtestRow, committed, plan, day, sym, delta, before>>

\* The rows written for a ruling are accepted: var_forecasts has a row only
\* when there is a VaR, with CHECK (position_qty >= 0); a SELL beyond the open
\* lots that this transaction sees raises ValueError.
Writable(p, ruling, var, priced) ==
  LET own == held[Symbol(p)] + delta[p][Symbol(p)]
  IN  /\ var = NoVar \/ PositionAfter(seen[p], ruling.action, ruling.qty) >= 0
      /\ priced => LedgerAfter(own, ruling.action, ruling.qty) >= 0

\* The shares a ruling adds; without a current_price no trade is recorded.
TradedShares(ruling, priced) ==
  IF priced THEN LedgerAfter(0, ruling.action, ruling.qty) ELSE 0

\* What the Portfolio Manager of this process may propose.
MayPropose(c) == IF c.real THEN Proposals ELSE {DryProposal(c)}

\* decisions, opinions, trace, forecast, explanation and the fill of one
\* symbol; after the last symbol the runs row is set to SUCCESS.
RecordDecision(p) ==
  /\ pc[p] = "record"
  /\ \E t \in MayPropose(mine[p]), var \in Vars, priced \in BOOLEAN :
       LET ruling == Gate(t, seen[p], var)
       IN  /\ Writable(p, ruling, var, priced)
           /\ delta' = [delta EXCEPT ![p][Symbol(p)] = @ + TradedShares(ruling, priced)]
  /\ IF sym[p] < Len(SymbolSeq)
     THEN /\ sym' = [sym EXCEPT ![p] = @ + 1]
          /\ pc' = [pc EXCEPT ![p] = "decide"]
     ELSE /\ pc' = [pc EXCEPT ![p] = "commit"]
          /\ UNCHANGED sym
  /\ UNCHANGED <<backtestRow, committed, plan, day, seen, spending, before>>

\* What an aborted day leaves behind.
Rollback(p) == UNCHANGED committed

\* One of the inserts of this symbol is refused.
RejectDecision(p) ==
  /\ pc[p] = "record"
  /\ \E t \in MayPropose(mine[p]), var \in Vars, priced \in BOOLEAN :
       ~Writable(p, Gate(t, seen[p], var), var, priced)
  /\ pc' = [pc EXCEPT ![p] = "failing"]
  /\ Rollback(p)
  /\ UNCHANGED <<backtestRow, plan, day, dayWork, spending, before>>

CommitDay(p) ==
  /\ pc[p] = "commit"
  /\ runs' = Append(runs, [day |-> day[p], by |-> mine[p], status |-> "SUCCESS"])
  /\ held' = [s \in Symbols |-> held[s] + delta[p][s]]
  /\ day' = [day EXCEPT ![p] = @ + 1]
  /\ pc' = [pc EXCEPT ![p] = "loop"]
  /\ UNCHANGED <<backtestRow, plan, dayWork, spending, before>>

-----------------------------------------------------------------------------
(* Stopping *)

\* The loop is over: _finish reads llm_usage first ...
ReadUsage(p) ==
  /\ pc[p] = "loop" /\ day[p] > NDays
  /\ before' = [before EXCEPT ![p] = AsNumber(llmUsage)]
  /\ pc' = [pc EXCEPT ![p] = "finish"]
  /\ UNCHANGED <<backtestRow, committed, plan, day, dayWork, spending>>

\* Mutant of SettleRow: the tokens of the earlier processes are overwritten.
SettleRowOverwrites(p, outcome) ==
  IF status = "RUNNING"
  THEN status' = outcome /\ llmUsage' = spent[p]
  ELSE UNCHANGED <<status, llmUsage>>

\* ... and then updates the row, if it is still RUNNING.
SettleRow(p, outcome) ==
  IF status = "RUNNING"
  THEN status' = outcome /\ llmUsage' = before[p] + spent[p]
  ELSE UNCHANGED <<status, llmUsage>>

FinishRun(p) ==
  /\ pc[p] = "finish"
  /\ SettleRow(p, "SUCCESS")
  /\ pc' = [pc EXCEPT ![p] = "ended"]
  /\ UNCHANGED <<config, resumes, committed, plan, day, dayWork, spending, before>>

\* Any step between created.append and the end of _finish raises: an API out
\* of credits, a lost connection, no opening price, Ctrl-C.
StepRaises(p) ==
  /\ "exception" \in Faults
  /\ pc[p] \in Working \cup {"finish"}
  /\ pc' = [pc EXCEPT ![p] = "failing"]
  /\ Rollback(p)
  /\ UNCHANGED <<backtestRow, plan, day, dayWork, spending, before>>

\* _mark_failed: _finish(conn, "FAILED") on a fresh connection.
ReadUsageToFail(p) ==
  /\ pc[p] \in {"capped", "failing"}
  /\ before' = [before EXCEPT ![p] = AsNumber(llmUsage)]
  /\ pc' = [pc EXCEPT ![p] = "marking"]
  /\ UNCHANGED <<backtestRow, committed, plan, day, dayWork, spending>>

MarkFailed(p) ==
  /\ pc[p] = "marking"
  /\ SettleRow(p, "FAILED")
  /\ pc' = [pc EXCEPT ![p] = "ended"]
  /\ UNCHANGED <<config, resumes, committed, plan, day, dayWork, spending, before>>

\* The fresh connection fails as well; the row stays RUNNING.
MarkingFails(p) ==
  /\ "mark_fails" \in Faults
  /\ pc[p] \in {"capped", "failing", "marking"}
  /\ pc' = [pc EXCEPT ![p] = "ended"]
  /\ UNCHANGED <<backtestRow, committed, plan, day, dayWork, spending, before>>

\* The process is killed outright.
Kill(p) ==
  /\ "kill" \in Faults
  /\ pc[p] \in Alive
  /\ pc' = [pc EXCEPT ![p] = "ended"]
  /\ Rollback(p)
  /\ UNCHANGED <<backtestRow, plan, day, dayWork, spending, before>>

-----------------------------------------------------------------------------
Starts(p) == Create(p) \/ Resume(p)

\* What a process does by itself once it is running.
Advances(p) ==
  \/ StopAtCap(p)  \/ BeginDay(p) \/ Decide(p)    \/ RecordDecision(p)
  \/ CommitDay(p)  \/ ReadUsage(p) \/ FinishRun(p)
  \/ ReadUsageToFail(p) \/ MarkFailed(p) \/ CannotPrice(p)

Breaks(p) == RejectDecision(p) \/ StepRaises(p) \/ MarkingFails(p) \/ Kill(p)

Next == \E p \in Procs : Starts(p) \/ RefuseResume(p) \/ Advances(p) \/ Breaks(p)

Spec == Init /\ [][Next]_vars

\* The event loop keeps running what it runs; an operator who sees a stopped
\* backtest resumes it in the end, with the settings it had.
FairSpec == /\ Spec
            /\ \A p \in Procs : WF_vars(Advances(p))
            /\ WF_vars(\E p \in Procs : Starts(p))

-----------------------------------------------------------------------------
(* Properties *)

RunRow      == [day : 1..NDays, by : Accepted, status : {"RUNNING", "SUCCESS"}]
ResumeEntry == [after : 0..NDays, usageBefore : Nat \cup {NoUsage}, code : Code]

\* Every variable has the type of the column or local variable it stands for.
TypeOK ==
  /\ status \in Statuses
  /\ config \in {ConfigOf(c) : c \in Accepted} \cup {NoConfig}
  /\ llmUsage \in Nat \cup {NoUsage}
  /\ resumes \in Seq(ResumeEntry)
  /\ runs \in Seq(RunRow)
  /\ held \in [Symbols -> Int]
  /\ pc \in [Procs -> PCs]
  /\ mine \in [Procs -> Accepted \cup {NoCommand}]
  /\ first \in [Procs -> 1..NDays + 1]
  /\ day \in [Procs -> 1..NDays + 1]
  /\ sym \in [Procs -> DOMAIN SymbolSeq]
  /\ seen \in [Procs -> Int]
  /\ delta \in [Procs -> [Symbols -> Int]]
  /\ spent \in [Procs -> Nat]
  /\ before \in [Procs -> Nat]
  /\ burnt \in Nat

DaysOnceInOrder   == \A i \in DOMAIN runs : runs[i].day = i
WholeDays         == \A i \in DOMAIN runs : runs[i].status = "SUCCESS"
SuccessIsComplete == status = "SUCCESS" => Len(runs) = NDays

\* However often a backtest stops and is resumed, its committed days are day 1,
\* day 2, ... without a gap or a repetition; none is ever half written, whatever
\* a process was doing when it raised or was killed ("whole days or nothing",
\* run_backtest's docstring); and SUCCESS means that all of the window is there.
RunsAreWhole == DaysOnceInOrder /\ WholeDays /\ SuccessIsComplete

\* All days of one backtest were decided by the same models under the same
\* options: RESUME_MUST_MATCH leaves out nothing that decides a trade.
OneStrategy ==
  \A i, j \in DOMAIN runs : Strategy(runs[i].by) = Strategy(runs[j].by)

\* The code that decided day i, as the row tells it: that of the last resume
\* before the day, or else that of the process that created the row.
CodeAt(i) ==
  LET earlier == {k \in DOMAIN resumes : resumes[k].after < i}
  IN  IF earlier = {} THEN config.code
      ELSE resumes[CHOOSE k \in earlier : \A j \in earlier : j <= k].code

\* A resume may run other code than the process before it; which commit decided
\* which day can be read off the row ("recorded per resume").
CodeRecorded == \A i \in DOMAIN runs : runs[i].by.code = CodeAt(i)

\* The 20-share cap, and no short position, at the end of every day: the
\* position the risk node is shown is the one the day's fills start from.
PositionWithinCap == \A s \in Symbols : held[s] \in 0..MaxPositionQty

\* Once SUCCESS, neither the row nor the days nor the positions change again.
SuccessIsFinal == [][status = "SUCCESS" => UNCHANGED <<backtestRow, committed>>]_vars

\* When all processes have ended by returning or raising, llm_usage holds
\* exactly what they spent, all of them together (007: "measured"), and the row
\* says how it ended instead of RUNNING forever, as backtests 5 and 18 did.
RowSettled ==
  (\A p \in Procs : pc[p] \notin Alive)
    => AsNumber(llmUsage) = burnt /\ status # "RUNNING"

MaxOf(S) == CHOOSE x \in S : \A y \in S : y <= x

\* The spending check looks one average day ahead.  So a process passes its cap
\* only by what its first day costs, or by what its last day costs more than
\* the average: never by a whole day of its usual price.  Every process that can
\* spend anything has a cap, since main() refuses the others.
OvershootWithinSpread ==
  LET dearest  == MaxOf(CallCosts)
      cheapest == CHOOSE x \in CallCosts : \A y \in CallCosts : x <= y
      calls    == Len(SymbolSeq)
  IN  \A p \in Procs : \/ spent[p] <= calls * dearest
                       \/ /\ mine[p].cap # NoCap
                          /\ spent[p] <= mine[p].cap + calls * (dearest - cheapest)

\* The days committed by a resumed run continue the stopped one: this module
\* implements the uninterrupted, all-at-once view of a backtest.
Promise == INSTANCE BacktestPromise WITH
  LastDay <- NDays, Tickers <- Symbols, Cap <- MaxPositionQty,
  daysIn <- Len(runs), book <- held, reported <- (status = "SUCCESS")

ImplementsPromise == Promise!Spec

\* No process raised, or was refused for settings the backtest does not have.
NothingWrong ==
  \A p \in Procs : /\ pc[p] # "failing"
                   /\ pc[p] = "ended" => mine[p] # NoCommand

\* While nothing goes wrong, a backtest that is always resumed completes, under
\* any cap: every process runs its first day unchecked, and its successor goes
\* on from there.
EventuallySucceeds ==
  []NothingWrong => ((status = "RUNNING") ~> (status = "SUCCESS"))
=============================================================================
