----------------------------- MODULE VarForecasts -----------------------------
(***************************************************************************)
(* VaR forecasts and the day they are scored (app/agent/var_forecasts.py), *)
(* with the daily bars both are read from (app/agent/data_sources.py).     *)
(* Time is New York time in three ticks a day: before the open, while the  *)
(* session runs, and from its close on.  A price is known by its session,  *)
(* by whether that was over when the price was read, and by its close.     *)
(* scripts/evaluate_var.py recomputes the same figures offline, from bars  *)
(* fetched once.                                                           *)
(***************************************************************************)
EXTENDS RiskMath

CONSTANTS LastDay,        \* bound on the calendar: days 0..LastDay
          Sessions,       \* the days on which the market opens
          Prices,         \* what a session may close at
          LiveTicks,      \* ticks of the day at which live cycles are started
          Backtests,      \* ids of backtests
          MaxForecasts,   \* bound on the number of forecasts
          None            \* NULL: of realized_return, and of a live backtest_id

ASSUME ForecastConstants ==
  /\ LastDay \in Nat /\ Sessions \subseteq 0..LastDay
  /\ Prices \subseteq Nat \ {0} /\ MaxForecasts \in Nat
  /\ LiveTicks \subseteq 0..2
  /\ None \notin Backtests /\ None \notin [day : Sessions, final : BOOLEAN]

VARIABLES close,       \* what each session closes at
          now,         \* the wall clock
          forecasts    \* rows of var_forecasts, with the var_tail of their decision

vars == <<close, now, forecasts>>

Day         == 3
DayOf(t)    == t \div Day           \* astimezone(NEW_YORK).date()
Opening(d)  == Day * d + 1
Closing(d)  == Day * d + 2          \* SESSION_CLOSE
BeforeOpen(d) == Day * d            \* 12:00 UTC, the as_of of a backtest day

Init == close \in [Sessions -> Prices] /\ now = 0 /\ forecasts = <<>>

-----------------------------------------------------------------------------
(* Bars *)

\* What Alpaca returns now for end = `end`: bars are stamped at midnight, and
\* today's is there from the open on, with the last trade for its close.
Provided(end) ==
  {[day |-> d, final |-> Closing(d) <= now] :
     d \in {s \in Sessions : Day * s <= end /\ Opening(s) <= now}}

\* Mutant of BarsClosedBefore: no filter on top of end=as_of.
BarsClosedBeforeAll(bars, asOf) == bars

BarsClosedBefore(bars, asOf) == {b \in bars : Closing(b.day) <= asOf}

GetRecentBars(asOf) == BarsClosedBefore(Provided(asOf), asOf)

LastBar(bars) == CHOOSE b \in bars : \A o \in bars : o.day <= b.day

\* The bars' days in order, and the returns from one to the next.
DaysOf(bars) ==
  LET days == {b.day : b \in bars}
  IN  [i \in 1..Cardinality(days) |->
         CHOOSE d \in days : Cardinality({e \in days : e < d}) = i - 1]

ReturnsOf(days) == SimpleReturns([i \in DOMAIN days |-> close[days[i]]])

-----------------------------------------------------------------------------
(* record_var_forecast *)

\* What the risk node had: the VaR, its tail, and the newest close.
NewForecast(backtest, asOf, bars) ==
  LET days == DaysOf(bars)
  IN  [backtest |-> backtest, asOf |-> asOf, lastClose |-> LastBar(bars),
       var |-> HistoricalVar(ReturnsOf(days)), tail |-> TailDays(ReturnsOf(days), Tail(days)),
       realized |-> None]

\* A row is written only if the risk node had a VaR, VarWindow returns.
RecordVarForecast(backtest, asOf) ==
  LET bars == GetRecentBars(asOf)
  IN  /\ Len(forecasts) < MaxForecasts
      /\ Cardinality(bars) > VarWindow
      /\ forecasts' = Append(forecasts, NewForecast(backtest, asOf, bars))
      /\ UNCHANGED <<close, now>>

LiveDecision == now % Day \in LiveTicks /\ RecordVarForecast(None, now)

\* Backtests are run over days that are long past.
BacktestDecision(b) ==
  \E d \in Sessions : Closing(d) < now /\ RecordVarForecast(b, BeforeOpen(d))

-----------------------------------------------------------------------------
(* fill_realized_returns *)

Unscored(backtest) ==
  {i \in DOMAIN forecasts : forecasts[i].backtest = backtest /\ forecasts[i].realized = None}

\* Mutant of FillEnd: bars are asked for up to the last forecast itself.
FillEndLast(rows) == Max({forecasts[i].asOf : i \in rows})

\* Through the end of the last forecast day.
FillEnd(rows) == Max({forecasts[i].asOf : i \in rows}) + Day

\* Mutant of CloseOn: a day without a bar gets the bar before it.
CloseOnOrBefore(bars, day) ==
  LET found == {b \in bars : b.day <= day}
  IN  IF found = {} THEN None ELSE LastBar(found)

\* close_on.get(day)
CloseOn(bars, day) ==
  LET found == {b \in bars : b.day = day}
  IN  IF found = {} THEN None ELSE LastBar(found)

\* One symbol's rows; a day without a bar stays NULL.
FillRealizedReturns(backtest) ==
  LET rows == Unscored(backtest)
      bars == GetRecentBars(FillEnd(rows))
  IN  /\ rows # {}
      /\ forecasts' = [i \in DOMAIN forecasts |->
                         IF i \in rows
                         THEN [forecasts[i] EXCEPT
                                 !.realized = CloseOn(bars, DayOf(forecasts[i].asOf))]
                         ELSE forecasts[i]]
      /\ UNCHANGED <<close, now>>

Tick == now < Closing(LastDay) /\ now' = now + 1 /\ UNCHANGED <<close, forecasts>>

Next ==
  \/ Tick \/ LiveDecision
  \/ \E b \in Backtests : BacktestDecision(b)
  \/ \E b \in Backtests \cup {None} : FillRealizedReturns(b)

Spec == Init /\ [][Next]_vars

-----------------------------------------------------------------------------
(* evaluate_var: forecasts and check_backtest *)

\* Mutant of ClosesBefore: closes[:i + 1], the day itself included.
ClosesBeforeAnd(days, i) == SubSeq(days, 1, i)

\* closes[:i]: the closes before the i-th day.
ClosesBefore(days, i) == SubSeq(days, 1, i - 1)

\* One fetch of bars to the end of the window, cut day by day.
Evaluated(start, end) ==
  LET days == DaysOf(GetRecentBars(BeforeOpen(end + 1)))
  IN  {[day |-> days[i], var |-> HistoricalVar(ReturnsOf(ClosesBefore(days, i))),
        realized |-> Return(close[days[i - 1]], close[days[i]])] :
         i \in {j \in 2..Len(days) : start <= days[j] /\ days[j] <= end
                                     /\ j - 2 >= VarWindow}}

\* Rows of a backtest, and the window they span.
Stored(b) == {i \in DOMAIN forecasts : forecasts[i].backtest = b}
Checked(b) ==
  LET days == {DayOf(forecasts[i].asOf) : i \in Stored(b)}
  IN  IF days = {} THEN {} ELSE Evaluated(Min(days), Max(days))

-----------------------------------------------------------------------------
(* Properties *)

\* "Prior-day close only": the closes a forecast is made from are final ones of
\* sessions that were over at its as_of, in live runs and in backtests alike.
NoLookAhead ==
  \A i \in DOMAIN forecasts :
    forecasts[i].lastClose.final /\ Closing(forecasts[i].lastClose.day) <= forecasts[i].asOf

\* The scored price is of the first session after that of last_close.
OverOneSession(f) ==
  /\ f.lastClose.day < f.realized.day
  /\ \A s \in Sessions : ~(f.lastClose.day < s /\ s < f.realized.day)

\* "The forecast for D predicts close(D) / close(D-1) - 1; close(D-1) was stored as
\* last_close": whatever is scored is scored over exactly one session.  (That the
\* price is close(D), and not one on the way to it, is FillsScoreFinalClose.)
ScoresNextSession ==
  \A i \in DOMAIN forecasts :
    forecasts[i].realized # None => OverOneSession(forecasts[i])

\* 006: realized_return is close(D) / close(D-1) - 1, "filled in once close(D)
\* exists".  What a fill sets is that, from one final close to the next, except in
\* exactly one case: it runs during the session of D.  Then it sets, for good, the
\* return to a price on the way to close(D).
FillsScoreFinalClose ==
  [][\A i \in DOMAIN forecasts :
       forecasts[i].realized = None /\ forecasts'[i].realized # None =>
         LET f == forecasts'[i]
             d == DayOf(f.asOf)
         IN  /\ OverOneSession(f) /\ f.lastClose.final
             /\ f.realized.final <=> ~(Opening(d) <= now /\ now < Closing(d))]_vars

Loss(d) == -Return(close[Max({s \in Sessions : s < d})], close[d])

\* "These are exactly the days the VaR figure is built from": of the VarWindow
\* sessions before the decision, the smallest number that is a share of at least
\* 1 - Confidence, each once and worst first; the VaR is the least of their
\* losses, and no other day of the window lost more.
TailBehindVar ==
  \A i \in DOMAIN forecasts :
    LET f     == forecasts[i]
        over  == {s \in Sessions : Closing(s) <= f.asOf}
        days  == {s \in over : Cardinality({o \in over : o > s}) < VarWindow}
        k     == Len(f.tail)
        worst == {f.tail[a].label : a \in 1..k}
    IN  /\ 100 * k >= VarWindow * (100 - Confidence)
        /\ 100 * (k - 1) < VarWindow * (100 - Confidence)
        /\ worst \subseteq days /\ Cardinality(worst) = k
        /\ \A a \in 1..k : f.tail[a].return = -Loss(f.tail[a].label)
        /\ \A a, b \in 1..k : a < b => f.tail[a].return <= f.tail[b].return
        /\ f.var = -f.tail[k].return
        /\ \A s \in days \ worst : Loss(s) <= f.var

\* "The session-close filter is date-based, so the result is identical": every
\* stored forecast of a backtest is found again by the evaluation, with the VaR
\* and the realized return that were stored, whenever that is run.
EvaluationAgrees ==
  \A b \in Backtests : \A i \in Stored(b) :
    LET f == forecasts[i]
    IN  \E r \in Checked(b) :
          /\ r.day = DayOf(f.asOf) /\ r.var = f.var
          /\ f.realized # None =>
               r.realized = Return(close[f.lastClose.day], close[f.realized.day])

\* A fill leaves no forecast behind whose session is over by then: the range of
\* bars it asks for reaches the first and the last of its rows.  And what a score
\* says once is what it says for good, whoever fills next.
FillSettles ==
  [][/\ \A b \in Backtests \cup {None} :
          FillRealizedReturns(b) =>
            \A i \in Unscored(b) :
              LET d == DayOf(forecasts[i].asOf)
              IN  d \in Sessions /\ Closing(d) <= now => forecasts'[i].realized # None
     /\ \A i \in DOMAIN forecasts :
          forecasts[i].realized # None => forecasts'[i].realized = forecasts[i].realized]_vars
=============================================================================
