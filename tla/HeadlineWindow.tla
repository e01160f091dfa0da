----------------------------- MODULE HeadlineWindow -----------------------------
(***************************************************************************)
(* Which archived headlines a backtest day may read: the queries of        *)
(* HistoricalHeadlineSource (app/agent/data_sources.py) and of             *)
(* HeadlineRetriever (app/agent/explainer.py) over historical_headlines.   *)
(* Time is UTC in DayTicks ticks a day; New York runs NyOffset behind.     *)
(* Most stamps are dates, 00:00 UTC; when on that date the headline really *)
(* came out is not recorded, so a headline is given with every such time.  *)
(***************************************************************************)
EXTENDS Integers, SequencesExt

CONSTANTS DayTicks,     \* ticks a day
          NyOffset,     \* ticks from UTC midnight to New York midnight
          AsOfTick,     \* 12:00 UTC, the time of day of a backtest decision
          Sessions,     \* the trading days of the window
          FirstDay,     \* there is no news before this day
          Lookback      \* lookback_days of the sentiment analyst, 3 in the code

ASSUME ClockConstants ==
  /\ DayTicks \in Nat \ {0} /\ NyOffset \in 1..DayTicks - 1
  /\ AsOfTick \in NyOffset..DayTicks - 1
  /\ FirstDay \in Int /\ Sessions # {} /\ \A d \in Sessions : d \in Int /\ d >= FirstDay
  /\ Lookback \in Nat \ {0}

FirstSession == CHOOSE d \in Sessions : \A e \in Sessions : d <= e
LastSession  == CHOOSE d \in Sessions : \A e \in Sessions : e <= d

\* A headline: its published_at, and when it was really first to be read.
Times    == DayTicks * FirstDay .. DayTicks * (LastSession + 1)
DateOnly(t) == t % DayTicks = 0
Headlines ==
  {h \in [stamp : Times, out : Times] :
     IF DateOnly(h.stamp) THEN h.out >= h.stamp /\ h.out < h.stamp + DayTicks + NyOffset
     ELSE h.out = h.stamp}

VARIABLES archive,    \* the committed rows of historical_headlines, by id
          todo,       \* the sessions not decided yet
          asOf,       \* as_of of the last decision
          early,      \* history: the archive at the first decision
          read        \* history: what the sentiment analyst was ever given

windowVars == <<todo, asOf, early, read>>

AsOf(d) == DayTicks * d + AsOfTick

\* Mutant of AvailableAt: a date-only stamp is taken for a time.
AvailableAtStamp(h) == h.stamp

\* HEADLINE_AVAILABLE_AT: when the stamped date has ended in New York.
AvailableAt(h) ==
  IF DateOnly(h.stamp) THEN h.stamp + DayTicks + NyOffset ELSE h.stamp

\* HEADLINE_DATE: the stamped date, or the New York date of a stamp with a time.
DateOf(h) ==
  IF DateOnly(h.stamp) THEN h.stamp \div DayTicks ELSE (h.stamp - NyOffset) \div DayTicks

\* Mutant of ScanFrom: the scan starts where the window itself does.
ScanFromWindow(at) == at - DayTicks * Lookback

ScanFrom(at) == at - DayTicks * (Lookback + 2)

\* HistoricalHeadlineSource.get_recent_headlines
RecentHeadlines(at) ==
  {h \in Range(archive) : /\ h.stamp < at /\ h.stamp >= ScanFrom(at)
                          /\ AvailableAt(h) < at
                          /\ AvailableAt(h) >= at - DayTicks * Lookback}

\* Mutant of ScanTo: the scan ends with the UTC day.
ScanToUtcDay(d) == DayTicks * (d + 1)

ScanTo(d) == DayTicks * (d + 2)

\* HeadlineRetriever.around: dated the day of the loss or the day before.  (The
\* ranking and the limit of 8 are left out.)
Around(d, at) ==
  {h \in Range(archive) : /\ h.stamp >= DayTicks * (d - 2) /\ h.stamp < ScanTo(d)
                          /\ DateOf(h) \in {d - 1, d}
                          /\ AvailableAt(h) < at}

WindowInit ==
  /\ todo = Sessions /\ asOf = DayTicks * FirstDay
  /\ early = {} /\ read = {}

\* A day of the backtest.  The explainer's query may follow at any time until the
\* next one, for any earlier loss: it is Around(d, asOf).
Decide(d) ==
  /\ d \in todo /\ \A e \in todo : d <= e
  /\ todo' = todo \ {d}
  /\ asOf' = AsOf(d)
  /\ early' = IF todo = Sessions THEN Range(archive) ELSE early
  /\ read' = read \cup RecentHeadlines(AsOf(d))
  /\ UNCHANGED archive

-----------------------------------------------------------------------------
(* Properties *)

\* No agent reads a headline that had not come out when its decision was made,
\* at whatever time of the stamped date, in whatever time zone, that was.
NoLookAhead ==
  \A d \in FirstDay..LastSession :
    \A h \in RecentHeadlines(asOf) \cup Around(d, asOf) : h.out < asOf

\* "The plain published_at bounds only narrow the scan for the index": what is
\* given is what availability and date alone ask for.
ScanOnlyNarrows ==
  /\ RecentHeadlines(asOf) =
       {h \in Range(archive) : AvailableAt(h) \in asOf - DayTicks * Lookback .. asOf - 1}
  /\ \A d \in FirstDay..LastSession :
       Around(d, asOf) =
         {h \in Range(archive) : DateOf(h) \in {d - 1, d} /\ AvailableAt(h) < asOf}

\* Waiting for the stamped date to end loses nothing: as long as the sessions
\* are no further apart than the lookback, a headline that was imported before
\* the backtest and became available within the window has been read by the
\* decision that follows.
NoneMissed ==
  todo # Sessions =>
    {h \in early : AvailableAt(h) \in AsOf(FirstSession) - DayTicks * Lookback .. asOf - 1}
      \subseteq read
=============================================================================
