-------------------------- MODULE VarForecasts_proofs --------------------------
(* Proofs about VarForecasts: no forecast looks ahead, a score is over the next *)
(* session, a fill is complete and final, a VaR is the least loss of the tail   *)
(* kept with it, and the offline evaluation finds what a backtest stored, for   *)
(* any calendar, any prices, any window and any number of forecasts.            *)
EXTENDS VarForecasts, FiniteSetTheorems, WellFoundedInduction, TLAPS

-----------------------------------------------------------------------------
(* The least and the greatest of some numbers *)

Before == {p \in Nat \X Nat : p[1] < p[2]}

\* A non-empty set of natural numbers has a least element.
LEMMA LeastOf ==
  ASSUME NEW T, T \subseteq Nat, T # {}
  PROVE  \E x \in T : \A y \in T : x <= y
<1>1. IsWellFoundedOn(Before, Nat)
  BY NatLessThanWellFounded DEF OpToRel, Before
<1>2. PICK x \in T : \A y \in T : ~(<<y, x>> \in Before)
  BY <1>1, WFMin
<1>3. ASSUME NEW y \in T
      PROVE  x <= y
  <2>1. x \in Nat /\ y \in Nat
    OBVIOUS
  <2>2. <<y, x>> \in Nat \X Nat /\ <<y, x>>[1] = y /\ <<y, x>>[2] = x
    BY <2>1
  <2>3. ~(y < x)
    BY <1>2, <2>2 DEF Before
  <2> QED BY <2>1, <2>3
<1> QED BY <1>3

\* A bounded one has a greatest element.
LEMMA GreatestOf ==
  ASSUME NEW n \in Nat, NEW T, T \subseteq 0..n, T # {}
  PROVE  \E x \in T : \A y \in T : y <= x
<1> DEFINE U == {n - x : x \in T}
<1>1. \A x \in T : x \in Int /\ n - x \in Nat
  OBVIOUS
<1>2. U \subseteq Nat /\ U # {}
  BY <1>1
<1>3. PICK u \in U : \A v \in U : u <= v
  BY <1>2, LeastOf
<1>4. PICK x \in T : u = n - x
  BY <1>3
<1>5. \A y \in T : n - x <= n - y
  BY <1>3, <1>4
<1> QED BY <1>1, <1>5

-----------------------------------------------------------------------------
(* Bars *)

\* What get_recent_bars returns: closed sessions that have begun, and all of them.
LEMMA BarsReturned ==
  ASSUME NEW end \in Nat, NEW b \in GetRecentBars(end)
  PROVE  /\ b \in [day : Sessions, final : BOOLEAN]
         /\ Closing(b.day) <= end /\ (b.final <=> Closing(b.day) <= now)
<1>1. b \in Provided(end) /\ Closing(b.day) <= end
  BY DEF GetRecentBars, BarsClosedBefore
<1>2. PICK d \in Sessions : b = [day |-> d, final |-> Closing(d) <= now]
  BY <1>1 DEF Provided
<1>3. b.day = d /\ b.final = (Closing(d) <= now)
  BY <1>2
<1>4. (Closing(d) <= now) \in BOOLEAN
  OBVIOUS
<1>5. b \in [day : Sessions, final : BOOLEAN]
  BY <1>2, <1>4
<1> QED BY <1>1, <1>3, <1>5

LEMMA AllBarsReturned ==
  ASSUME NEW end \in Nat, now \in Nat, NEW s \in Sessions,
         Closing(s) <= end, Opening(s) <= now
  PROVE  \E b \in GetRecentBars(end) : b.day = s
<1>1. s \in Int /\ Day * s <= end
  BY ForecastConstants DEF Closing, Day
<1>2. [day |-> s, final |-> Closing(s) <= now] \in Provided(end)
  BY <1>1 DEF Provided
<1> QED BY <1>2 DEF GetRecentBars, BarsClosedBefore

\* The last of some bars is one of them, and none is later.
LEMMA LastBarIs ==
  ASSUME NEW bars, bars \subseteq [day : Sessions, final : BOOLEAN], bars # {}
  PROVE  LastBar(bars) \in bars /\ \A o \in bars : o.day <= LastBar(bars).day
<1> DEFINE days == {b.day : b \in bars}
<1>1. days \subseteq 0..LastDay /\ days # {}
  BY ForecastConstants
<1>2. PICK d \in days : \A e \in days : e <= d
  BY <1>1, ForecastConstants, GreatestOf
<1>3. PICK b \in bars : b.day = d
  OBVIOUS
<1>4. \A o \in bars : o.day <= b.day
  BY <1>2, <1>3
<1>5. \E c \in bars : \A o \in bars : o.day <= c.day
  BY <1>4
<1> QED BY <1>5 DEF LastBar

-----------------------------------------------------------------------------
(* The invariant *)

\* A stored forecast: made from the last session that was over at its as_of, and
\* scored, if at all, by the bar of that day.
Sound(f) ==
  /\ "realized" \in DOMAIN f
  /\ f.asOf \in Nat /\ f.asOf <= now
  /\ f.lastClose \in [day : Sessions, final : BOOLEAN]
  /\ f.lastClose.final /\ Closing(f.lastClose.day) <= f.asOf
  /\ \A s \in Sessions : Closing(s) <= f.asOf => s <= f.lastClose.day
  /\ f.realized # None =>
       f.realized \in [day : Sessions, final : BOOLEAN] /\ f.realized.day = DayOf(f.asOf)
  /\ LiveTicks \subseteq {0, 1} => f.asOf < Closing(DayOf(f.asOf))

FInv ==
  /\ now \in Nat
  /\ \E S : forecasts \in Seq(S)
  /\ \A i \in DOMAIN forecasts : Sound(forecasts[i])

LEMMA FInvInit == Init => FInv
<1> SUFFICES ASSUME Init PROVE FInv
  OBVIOUS
<1>1. forecasts \in Seq({}) /\ DOMAIN forecasts = {} /\ now \in Nat
  BY DEF Init
<1> QED BY <1>1 DEF FInv

\* A forecast that was sound stays so while the clock runs.
LEMMA SoundLater ==
  ASSUME now \in Nat, NEW f, Sound(f), now' \in Nat, now' >= now
  PROVE  Sound(f)'
BY DEF Sound

\* record_var_forecast, with bars as of now or before.
LEMMA RecordKeeps ==
  ASSUME FInv, NEW b, NEW asOf \in Nat, asOf <= now,
         LiveTicks \subseteq {0, 1} => asOf < Closing(DayOf(asOf)),
         RecordVarForecast(b, asOf)
  PROVE  FInv'
<1>1. PICK bars : bars = GetRecentBars(asOf)
  OBVIOUS
<1>2. PICK f : f = NewForecast(b, asOf, bars)
  OBVIOUS
<1>3. now' = now /\ now \in Nat /\ forecasts' = Append(forecasts, f)
  BY <1>1, <1>2 DEF RecordVarForecast, FInv
<1>4. bars # {}
  <2>1. Cardinality(bars) > VarWindow
    BY <1>1 DEF RecordVarForecast
  <2>2. Cardinality({}) = 0
    BY FS_EmptySet
  <2> QED BY <2>1, <2>2, MathConstants
<1>5. bars \subseteq [day : Sessions, final : BOOLEAN]
  BY <1>1, BarsReturned
<1>6. PICK l \in bars : l = LastBar(bars) /\ \A o \in bars : o.day <= l.day
  BY <1>4, <1>5, LastBarIs
<1>7. ASSUME NEW s \in Sessions, Closing(s) <= asOf
      PROVE  s <= l.day
  <2>1. s \in Int
    BY ForecastConstants
  <2>2. Opening(s) <= now
    BY <1>3, <1>7, <2>1 DEF Opening, Closing, Day
  <2> QED BY <1>1, <1>3, <1>6, <1>7, <2>2, AllBarsReturned
<1>8. l.final /\ Closing(l.day) <= asOf
  <2>1. l.day \in Sessions
    BY <1>5
  <2>2. l.day \in Int
    <3>1. \A d \in Sessions : d \in Int
      BY ForecastConstants
    <3> QED BY <2>1, <3>1
  <2> QED BY <1>1, <1>3, <1>6, <2>2, BarsReturned DEF Closing, Day
<1>9. /\ "realized" \in DOMAIN f
      /\ f.asOf = asOf /\ f.lastClose = l /\ f.realized = None
  BY <1>2, <1>6 DEF NewForecast
<1>10. Sound(f)'
  BY <1>3, <1>5, <1>6, <1>7, <1>8, <1>9 DEF Sound
<1>11. PICK S : forecasts \in Seq(S)
  BY DEF FInv
<1>12. /\ forecasts' \in Seq(S \cup {f})
       /\ \A i \in DOMAIN forecasts' :
            forecasts'[i] = f \/ (i \in DOMAIN forecasts /\ forecasts'[i] = forecasts[i])
  BY <1>3, <1>11
<1>13. ASSUME NEW i \in DOMAIN forecasts'
       PROVE  Sound(forecasts[i])'
  <2>1. CASE forecasts'[i] = f
    BY <1>10, <2>1 DEF Sound
  <2>2. CASE i \in DOMAIN forecasts /\ forecasts'[i] = forecasts[i]
    BY <1>3, <2>2 DEF FInv, Sound
  <2> QED BY <1>12, <2>1, <2>2
<1> QED BY <1>3, <1>12, <1>13 DEF FInv

\* What a fill makes of one row: unscored, or scored by the bar of its day.
LEMMA CloseOnIs ==
  ASSUME NEW end \in Nat, NEW bars, bars = GetRecentBars(end), NEW d
  PROVE  CloseOn(bars, d) # None =>
           CloseOn(bars, d) \in [day : Sessions, final : BOOLEAN] /\ CloseOn(bars, d).day = d
<1>1. PICK found : found = {b \in bars : b.day = d}
  OBVIOUS
<1>2. found \subseteq [day : Sessions, final : BOOLEAN]
  BY <1>1, BarsReturned
<1>3. CASE found # {}
  <2>1. LastBar(found) \in found
    BY <1>2, <1>3, LastBarIs
  <2> QED BY <1>1, <1>2, <2>1 DEF CloseOn
<1> QED BY <1>1, <1>3 DEF CloseOn

\* The range of bars a fill asks for reaches beyond each of its rows.
LEMMA FillEndIs ==
  ASSUME FInv, NEW b, Unscored(b) # {}
  PROVE  /\ FillEnd(Unscored(b)) \in Nat
         /\ \A i \in Unscored(b) : forecasts[i].asOf + Day <= FillEnd(Unscored(b))
<1> DEFINE times == {forecasts[i].asOf : i \in Unscored(b)}
<1>1. \A i \in Unscored(b) : forecasts[i].asOf \in 0..now
  BY DEF Unscored, FInv, Sound
<1>2. times \subseteq 0..now /\ times # {} /\ now \in Nat
  BY <1>1 DEF FInv
<1>3. PICK m \in times : \A x \in times : x <= m
  BY <1>2, GreatestOf
<1>4. Max(times) \in times /\ \A x \in times : x <= Max(times)
  BY <1>3 DEF Max
<1>5. Max(times) \in Nat
  BY <1>2, <1>4
<1>6. FillEnd(Unscored(b)) = Max(times) + Day
  BY DEF FillEnd
<1>7. ASSUME NEW i \in Unscored(b)
      PROVE  forecasts[i].asOf <= Max(times) /\ forecasts[i].asOf \in Int
  BY <1>1, <1>4
<1> HIDE DEF times
<1> QED BY <1>5, <1>6, <1>7 DEF Day

LEMMA FillKeeps ==
  ASSUME FInv, NEW b, FillRealizedReturns(b)
  PROVE  FInv'
<1>1. PICK rows : rows = Unscored(b)
  OBVIOUS
<1>2. PICK bars : bars = GetRecentBars(FillEnd(rows))
  OBVIOUS
<1>3. /\ rows # {} /\ now' = now /\ FillEnd(rows) \in Nat
      /\ forecasts' = [i \in DOMAIN forecasts |->
                         IF i \in rows
                         THEN [forecasts[i] EXCEPT
                                 !.realized = CloseOn(bars, DayOf(forecasts[i].asOf))]
                         ELSE forecasts[i]]
  BY <1>1, <1>2, FillEndIs DEF FillRealizedReturns
<1>4. DOMAIN forecasts' = DOMAIN forecasts
  BY <1>3
<1>5. \E S : forecasts' \in Seq(S)
  <2>1. PICK S : forecasts \in Seq(S)
    BY DEF FInv
  <2>2. PICK n \in Nat : DOMAIN forecasts = 1..n
    BY <2>1
  <2>3. PICK T : T = {forecasts'[i] : i \in 1..n}
    OBVIOUS
  <2>4. forecasts' \in [1..n -> T]
    BY <1>3, <2>2, <2>3
  <2>5. forecasts' \in Seq(T)
    BY <2>4
  <2> QED BY <2>5
<1>6. ASSUME NEW i \in DOMAIN forecasts
      PROVE  Sound(forecasts[i])'
  <2>1. Sound(forecasts[i])
    BY DEF FInv
  <2>2. CASE i \notin rows
    BY <1>3, <2>1, <2>2 DEF Sound
  <2>3. CASE i \in rows
    <3>1. PICK f : f = forecasts[i]
      OBVIOUS
    <3>2. PICK c : c = CloseOn(bars, DayOf(f.asOf))
      OBVIOUS
    <3>3. forecasts'[i] = [f EXCEPT !.realized = c]
      BY <1>3, <2>3, <3>1, <3>2
    <3>4. /\ "realized" \in DOMAIN forecasts'[i]
          /\ forecasts'[i].realized = c
          /\ forecasts'[i].asOf = f.asOf /\ forecasts'[i].lastClose = f.lastClose
      BY <2>1, <3>1, <3>3 DEF Sound
    <3>5. c # None => c \in [day : Sessions, final : BOOLEAN] /\ c.day = DayOf(f.asOf)
      BY <1>2, <1>3, <3>2, CloseOnIs
    <3> QED BY <1>3, <2>1, <3>1, <3>4, <3>5 DEF Sound
  <2> QED BY <2>2, <2>3
<1> QED BY <1>3, <1>4, <1>5, <1>6 DEF FInv

LEMMA FInvNext == FInv /\ [Next]_vars => FInv'
<1> SUFFICES ASSUME FInv, [Next]_vars PROVE FInv'
  OBVIOUS
<1>1. now \in Nat
  BY DEF FInv
<1>2. CASE Tick
  <2>1. now' \in Nat /\ now' >= now /\ forecasts' = forecasts
    BY <1>1, <1>2 DEF Tick
  <2>2. ASSUME NEW i \in DOMAIN forecasts
        PROVE  Sound(forecasts[i])'
    <3>1. PICK f : f = forecasts[i]
      OBVIOUS
    <3>2. Sound(f)'
      BY <1>1, <2>1, <3>1, SoundLater DEF FInv
    <3> QED BY <2>1, <3>1, <3>2 DEF Sound
  <2> QED BY <2>1, <2>2 DEF FInv
<1>3. CASE LiveDecision
  <2>1. LiveTicks \subseteq {0, 1} => now < Closing(DayOf(now))
    BY <1>1, <1>3 DEF LiveDecision, Closing, DayOf, Day
  <2> QED BY <1>1, <1>3, <2>1, RecordKeeps DEF LiveDecision
<1>4. ASSUME NEW b \in Backtests, BacktestDecision(b)
      PROVE  FInv'
  <2>1. PICK d \in Sessions : Closing(d) < now /\ RecordVarForecast(b, BeforeOpen(d))
    BY <1>4 DEF BacktestDecision
  <2>2. d \in Nat
    BY ForecastConstants
  <2>3. BeforeOpen(d) \in Nat /\ BeforeOpen(d) <= now /\ BeforeOpen(d) < Closing(DayOf(BeforeOpen(d)))
    BY <1>1, <2>1, <2>2 DEF BeforeOpen, Closing, DayOf, Day
  <2> QED BY <2>1, <2>3, RecordKeeps
<1>5. ASSUME NEW b, FillRealizedReturns(b)
      PROVE  FInv'
  BY <1>5, FillKeeps
<1>6. CASE UNCHANGED vars
  BY <1>6 DEF vars, FInv, Sound
<1> QED BY <1>2, <1>3, <1>4, <1>5, <1>6 DEF Next

-----------------------------------------------------------------------------
(* Look-ahead and scores *)

\* Every stored forecast rests on final closes of sessions that were over at its
\* as_of, live or in a backtest (get_recent_bars, bars_closed_before).
THEOREM ForecastsNeverLookAhead == Spec => []NoLookAhead
<1>1. FInv => NoLookAhead
  BY DEF FInv, Sound, NoLookAhead
<1> QED BY <1>1, FInvInit, FInvNext, PTL DEF Spec

\* A forecast made before the close of the day it is scored on, from the newest
\* session over by then, is scored over exactly one session.
LEMMA NextSession ==
  ASSUME NEW f, f.asOf \in Nat, f.lastClose.day \in Sessions, f.realized.day \in Sessions,
         f.realized.day = DayOf(f.asOf), f.asOf < Closing(f.realized.day),
         Closing(f.lastClose.day) <= f.asOf,
         \A s \in Sessions : Closing(s) <= f.asOf => s <= f.lastClose.day
  PROVE  OverOneSession(f)
<1>1. PICK l, r, t : l = f.lastClose.day /\ r = f.realized.day /\ t = f.asOf
  OBVIOUS
<1>2. /\ l \in Sessions /\ r \in Sessions /\ r = DayOf(t)
      /\ t \in Nat /\ Closing(l) <= t /\ t < Closing(r)
      /\ \A s \in Sessions : Closing(s) <= t => s <= l
  BY <1>1
<1>3. \A s \in Sessions : s \in Nat
  BY ForecastConstants
<1>4. l < r
  BY <1>2, <1>3 DEF Closing, Day
<1>5. ASSUME NEW s \in Sessions, l < s, s < r
      PROVE  FALSE
  <2>1. s \in Nat /\ r \in Nat /\ t \in Nat /\ r = t \div 3
    BY <1>2, <1>3 DEF DayOf, Day
  <2>2. 3 * r <= t
    BY <2>1
  <2>3. Closing(s) <= t
    BY <1>5, <2>1, <2>2 DEF Closing, Day
  <2> QED BY <1>2, <1>3, <1>5, <2>3
<1> QED BY <1>1, <1>4, <1>5 DEF OverOneSession

\* Only a fill scores a forecast.
LEMMA OnlyFillsScore ==
  ASSUME FInv, [Next]_vars, NEW i \in DOMAIN forecasts, forecasts'[i] # forecasts[i]
  PROVE  \E b : FillRealizedReturns(b)
<1>1. ASSUME NEW b, NEW asOf, RecordVarForecast(b, asOf)
      PROVE  FALSE
  <2>1. PICK f : forecasts' = Append(forecasts, f)
    BY <1>1 DEF RecordVarForecast
  <2> QED BY <2>1 DEF FInv
<1> QED BY <1>1 DEF Next, Tick, LiveDecision, BacktestDecision, vars

\* As long as no live cycle is started after the close, what a fill sets is the
\* return from one final close to the next, unless it runs during the session it
\* scores: then, and only then, the second price is not final
\* (fill_realized_returns).
THEOREM ScoresAreOneSession == LiveTicks \subseteq {0, 1} /\ Spec => FillsScoreFinalClose
<1> SUFFICES ASSUME LiveTicks \subseteq {0, 1}
             PROVE  Spec => FillsScoreFinalClose
  OBVIOUS
<1>1. ASSUME FInv, [Next]_vars, NEW i \in DOMAIN forecasts,
             forecasts[i].realized = None, forecasts'[i].realized # None,
             NEW f, f = forecasts'[i], NEW d, d = DayOf(f.asOf)
      PROVE  /\ OverOneSession(f) /\ f.lastClose.final
             /\ f.realized.final <=> ~(Opening(d) <= now /\ now < Closing(d))
  <2>1. PICK b : FillRealizedReturns(b)
    BY <1>1, OnlyFillsScore
  <2>2. PICK bars : bars = GetRecentBars(FillEnd(Unscored(b)))
    OBVIOUS
  <2>3. Unscored(b) # {} /\ FillEnd(Unscored(b)) \in Nat /\ now' = now /\ now \in Nat
    BY <1>1, <2>1, FillEndIs DEF FillRealizedReturns, FInv
  <2>4. forecasts'[i] = IF i \in Unscored(b)
                        THEN [forecasts[i] EXCEPT
                                !.realized = CloseOn(bars, DayOf(forecasts[i].asOf))]
                        ELSE forecasts[i]
    BY <1>1, <2>1, <2>2 DEF FillRealizedReturns
  <2>5. PICK g : g = forecasts[i] /\ Sound(g) /\ f = [g EXCEPT !.realized = CloseOn(bars, DayOf(g.asOf))]
    BY <1>1, <2>4 DEF FInv
  <2>6. /\ f.asOf = g.asOf /\ f.lastClose = g.lastClose
        /\ f.realized = CloseOn(bars, d) /\ f.realized # None
    BY <1>1, <2>5 DEF Sound
  <2>7. PICK found : found = {o \in bars : o.day = d}
    OBVIOUS
  <2>8. found # {} /\ f.realized = LastBar(found)
    BY <2>6, <2>7 DEF CloseOn
  <2>9. found \subseteq [day : Sessions, final : BOOLEAN]
    BY <2>2, <2>3, <2>7, BarsReturned
  <2>10. f.realized \in bars /\ f.realized.day = d
    BY <2>7, <2>8, <2>9, LastBarIs
  <2>11. d \in Sessions /\ (f.realized.final <=> Closing(d) <= now)
    <3>1. f.realized \in GetRecentBars(FillEnd(Unscored(b)))
      BY <2>2, <2>10
    <3> QED BY <2>3, <2>10, <3>1, BarsReturned
  <2>12. OverOneSession(f)
    BY <1>1, <2>5, <2>6, <2>10, <2>11, NextSession DEF Sound
  <2>13. Opening(d) <= now
    <3>1. d \in Nat
      BY <2>11, ForecastConstants
    <3>2. g.asOf \in Nat /\ g.asOf <= now /\ d = DayOf(g.asOf)
      BY <1>1, <2>5, <2>6 DEF Sound
    <3>3. f.realized \in Provided(FillEnd(Unscored(b)))
      BY <2>2, <2>10 DEF GetRecentBars, BarsClosedBefore
    <3>4. PICK e \in Sessions : /\ Opening(e) <= now
                                /\ f.realized = [day |-> e, final |-> Closing(e) <= now]
      BY <3>3 DEF Provided
    <3>5. f.realized.day = e
      BY <3>4
    <3> QED BY <2>10, <3>4, <3>5
  <2>14. Closing(d) \in Int
    <3>1. d \in Nat
      BY <2>11, ForecastConstants
    <3> QED BY <3>1 DEF Closing, Day
  <2>15. f.lastClose.final
    BY <2>5, <2>6 DEF Sound
  <2>16. Closing(d) <= now <=> ~(Opening(d) <= now /\ now < Closing(d))
    BY <2>3, <2>13, <2>14
  <2> QED BY <2>11, <2>12, <2>15, <2>16
<1>2. FInv /\ [Next]_vars =>
        [\A i \in DOMAIN forecasts :
           forecasts[i].realized = None /\ forecasts'[i].realized # None =>
             LET f == forecasts'[i]
                 d == DayOf(f.asOf)
             IN  /\ OverOneSession(f) /\ f.lastClose.final
                 /\ f.realized.final <=> ~(Opening(d) <= now /\ now < Closing(d))]_vars
  BY <1>1
<1> QED BY <1>2, FInvInit, FInvNext, PTL DEF Spec, FillsScoreFinalClose

\* A fill scores every one of its rows whose session is over, and no score is ever
\* changed (fill_realized_returns).
THEOREM FillsAreComplete == Spec => FillSettles
<1>1. ASSUME FInv, NEW b, FillRealizedReturns(b), NEW i \in Unscored(b),
             DayOf(forecasts[i].asOf) \in Sessions, Closing(DayOf(forecasts[i].asOf)) <= now
      PROVE  forecasts'[i].realized # None
  <2>1. PICK rows : rows = Unscored(b)
    OBVIOUS
  <2>2. PICK bars : bars = GetRecentBars(FillEnd(rows))
    OBVIOUS
  <2>3. PICK d : d = DayOf(forecasts[i].asOf)
    OBVIOUS
  <2>4. i \in DOMAIN forecasts /\ Sound(forecasts[i]) /\ now \in Nat
    BY <1>1 DEF Unscored, FInv
  <2>5. FillEnd(rows) \in Nat /\ forecasts[i].asOf + Day <= FillEnd(rows)
    BY <1>1, <2>1, FillEndIs
  <2>6. forecasts'[i] = [forecasts[i] EXCEPT !.realized = CloseOn(bars, d)]
    BY <1>1, <2>1, <2>2, <2>3, <2>4 DEF FillRealizedReturns
  <2>7. forecasts'[i].realized = CloseOn(bars, d)
    BY <2>4, <2>6 DEF Sound
  <2>8. d \in Sessions /\ d \in Nat /\ Closing(d) <= now
    <3>1. \A s \in Sessions : s \in Nat
      BY ForecastConstants
    <3> QED BY <1>1, <2>3, <3>1
  <2>9. Closing(d) <= FillEnd(rows) /\ Opening(d) <= now
    BY <2>3, <2>4, <2>5, <2>8 DEF Sound, DayOf, Closing, Opening, Day
  <2>10. PICK c \in bars : c.day = d
    BY <2>2, <2>4, <2>5, <2>8, <2>9, AllBarsReturned
  <2>11. PICK found : found = {o \in bars : o.day = d}
    OBVIOUS
  <2>12. found \subseteq [day : Sessions, final : BOOLEAN] /\ found # {}
    BY <2>2, <2>5, <2>10, <2>11, BarsReturned
  <2>13. LastBar(found) \in [day : Sessions, final : BOOLEAN]
    BY <2>12, LastBarIs
  <2>14. CloseOn(bars, d) = LastBar(found)
    BY <2>11, <2>12 DEF CloseOn
  <2> QED BY <2>7, <2>13, <2>14, ForecastConstants
<1>2. ASSUME FInv, [Next]_vars, NEW i \in DOMAIN forecasts, forecasts[i].realized # None
      PROVE  forecasts'[i].realized = forecasts[i].realized
  <2>1. ASSUME NEW b, FillRealizedReturns(b)
        PROVE  forecasts'[i] = forecasts[i]
    BY <1>2, <2>1 DEF FillRealizedReturns, Unscored
  <2>2. ASSUME NEW b, NEW asOf, RecordVarForecast(b, asOf)
        PROVE  forecasts'[i] = forecasts[i]
    <3>1. PICK f : forecasts' = Append(forecasts, f)
      BY <2>2 DEF RecordVarForecast
    <3> QED BY <1>2, <3>1 DEF FInv
  <2> QED
    BY <1>2, <2>1, <2>2 DEF Next, Tick, LiveDecision, BacktestDecision, vars
<1>3. FInv /\ [Next]_vars =>
        [/\ \A b \in Backtests \cup {None} :
              FillRealizedReturns(b) =>
                \A i \in Unscored(b) :
                  LET d == DayOf(forecasts[i].asOf)
                  IN  d \in Sessions /\ Closing(d) <= now => forecasts'[i].realized # None
         /\ \A i \in DOMAIN forecasts :
              forecasts[i].realized # None => forecasts'[i].realized = forecasts[i].realized]_vars
  BY <1>1, <1>2
<1> QED BY <1>3, FInvInit, FInvNext, PTL DEF Spec, FillSettles

-----------------------------------------------------------------------------
(* Ranks *)

Below(S, R, x) == {y \in S : <<y, x>> \in R}

\* R orders S strictly and totally.
Orders(S, R) ==
  /\ \A x \in S : <<x, x>> \notin R
  /\ \A x, y, z \in S : <<x, y>> \in R /\ <<y, z>> \in R => <<x, z>> \in R
  /\ \A x, y \in S : x # y => <<x, y>> \in R \/ <<y, x>> \in R

\* f lists the n elements of S in the order R.
Lists(f, S, R, n) ==
  /\ n = Cardinality(S) /\ f \in [1..n -> S]
  /\ \A x \in S : \E k \in 1..n : f[k] = x
  /\ \A k \in 1..n : Cardinality(Below(S, R, f[k])) = k - 1
  /\ \A k, l \in 1..n : k < l => <<f[k], f[l]>> \in R

\* An element has less below it than one that it is below.
LEMMA RanksAscend ==
  ASSUME NEW S, IsFiniteSet(S), NEW R, Orders(S, R),
         NEW x \in S, NEW y \in S, <<x, y>> \in R
  PROVE  /\ Cardinality(Below(S, R, x)) \in Nat /\ Cardinality(Below(S, R, y)) \in Nat
         /\ Cardinality(Below(S, R, x)) < Cardinality(Below(S, R, y))
<1>1. Below(S, R, x) \subseteq Below(S, R, y)
  BY DEF Below, Orders
<1>2. x \in Below(S, R, y) /\ x \notin Below(S, R, x)
  BY DEF Below, Orders
<1>3. IsFiniteSet(Below(S, R, y)) /\ IsFiniteSet(Below(S, R, x))
  BY FS_Subset DEF Below
<1>4. /\ Cardinality(Below(S, R, x)) <= Cardinality(Below(S, R, y))
      /\ Cardinality(Below(S, R, y)) # Cardinality(Below(S, R, x))
  BY <1>1, <1>2, <1>3, FS_Subset
<1> QED BY <1>3, <1>4, FS_CardinalityType

\* There is one element of each rank.
LEMMA RanksAreFilled ==
  ASSUME NEW S, IsFiniteSet(S), NEW R, Orders(S, R), NEW k \in 1..Cardinality(S)
  PROVE  \E x \in S : Cardinality(Below(S, R, x)) = k - 1
<1> DEFINE n == Cardinality(S)
           rank == [x \in S |-> Cardinality(Below(S, R, x))]
<1>1. n \in Nat
  BY FS_CardinalityType
<1>2. ASSUME NEW x \in S
      PROVE  rank[x] \in 0..n - 1
  <2>1. Below(S, R, x) \in SUBSET (S \ {x})
    BY DEF Below, Orders
  <2>2. IsFiniteSet(S \ {x}) /\ Cardinality(S \ {x}) = n - 1
    BY FS_RemoveElement
  <2>3. IsFiniteSet(Below(S, R, x)) /\ Cardinality(Below(S, R, x)) <= n - 1
    BY <2>1, <2>2, FS_Subset
  <2> QED BY <1>1, <2>3, FS_CardinalityType
<1>3. ASSUME NEW x \in S, NEW y \in S, x # y
      PROVE  rank[x] # rank[y]
  <2>1. <<x, y>> \in R \/ <<y, x>> \in R
    BY <1>3 DEF Orders
  <2>2. Cardinality(Below(S, R, x)) # Cardinality(Below(S, R, y))
    BY <2>1, RanksAscend
  <2> QED BY <2>2
<1>4. rank \in [S -> 0..n - 1]
  BY <1>2
<1>5. rank \in Injection(S, 0..n - 1)
  BY <1>3, <1>4, Zenon DEF Injection, IsInjective
<1>6. IsFiniteSet(0..n - 1) /\ Cardinality(0..n - 1) = n
  <2>1. n >= 1 /\ 0 \in Int /\ n - 1 \in Int
    BY <1>1
  <2> HIDE DEF n
  <2> QED BY <1>1, <2>1, FS_Interval
<1>7. rank \in Surjection(S, 0..n - 1)
  BY <1>5, <1>6, FS_Injection
<1>8. k - 1 \in 0..n - 1
  BY <1>1
<1> HIDE DEF n
<1>9. \E x \in S : rank[x] = k - 1
  BY <1>7, <1>8 DEF Surjection
<1> QED BY <1>9

\* The elements of each rank in turn list the set.
LEMMA RankedLists ==
  ASSUME NEW S, IsFiniteSet(S), NEW R, Orders(S, R), NEW n, n = Cardinality(S),
         NEW f, f \in [1..n -> S], \A k \in 1..n : Cardinality(Below(S, R, f[k])) = k - 1
  PROVE  n \in Nat /\ Lists(f, S, R, n)
<1>1. n \in Nat
  BY FS_CardinalityType
<1>2. ASSUME NEW k \in 1..n
      PROVE  f[k] \in S /\ Cardinality(Below(S, R, f[k])) = k - 1
  OBVIOUS
<1>4. ASSUME NEW k \in 1..n, NEW l \in 1..n, k < l
      PROVE  <<f[k], f[l]>> \in R
  <2>1. ~ <<f[l], f[k]>> \in R
    BY <1>1, <1>2, <1>4, RanksAscend
  <2>2. f[k] # f[l]
    BY <1>1, <1>2, <1>4
  <2> QED BY <1>2, <2>1, <2>2 DEF Orders
<1>5. ASSUME NEW x \in S
      PROVE  \E k \in 1..n : f[k] = x
  <2>1. PICK r : r = Cardinality(Below(S, R, x))
    OBVIOUS
  <2>2. Below(S, R, x) \in SUBSET (S \ {x})
    BY DEF Below, Orders
  <2>3. IsFiniteSet(S \ {x}) /\ Cardinality(S \ {x}) = n - 1
    BY FS_RemoveElement
  <2>4. r \in Nat /\ r <= n - 1
    BY <2>1, <2>2, <2>3, FS_Subset, FS_CardinalityType
  <2>5. r + 1 \in 1..n /\ (r + 1) - 1 = r
    BY <1>1, <2>4
  <2>6. f[r + 1] \in S /\ Cardinality(Below(S, R, f[r + 1])) = r
    BY <1>2, <2>5
  <2>7. f[r + 1] = x
    <3>1. ~ <<f[r + 1], x>> \in R /\ ~ <<x, f[r + 1]>> \in R
      BY <2>1, <2>4, <2>6, RanksAscend
    <3> QED BY <2>6, <3>1 DEF Orders
  <2> QED BY <2>5, <2>7
<1> QED BY <1>1, <1>4, <1>5 DEF Lists

\* m elements, told apart, are m.
LEMMA ImageCard ==
  ASSUME NEW m \in Nat, NEW f, DOMAIN f = 1..m, f = [i \in 1..m |-> f[i]],
         \A i, j \in 1..m : i # j => f[i] # f[j]
  PROVE  Cardinality({f[i] : i \in 1..m}) = m
<1> DEFINE U == {f[i] : i \in 1..m}
<1>1. f \in [1..m -> U] /\ \A u \in U : \E i \in 1..m : f[i] = u
  OBVIOUS
<1>2. f \in Bijection(1..m, U)
  BY <1>1, Zenon DEF Bijection, Injection, Surjection, IsInjective
<1>3. ExistsBijection(1..m, U)
  BY <1>2 DEF ExistsBijection
<1> QED BY <1>3, FS_CountingElements

-----------------------------------------------------------------------------
(* The tail of a window *)

LEMMA TailCountIs ==
  /\ TailCount \in 1..VarWindow
  /\ 100 * TailCount >= VarWindow * (100 - Confidence)
  /\ 100 * (TailCount - 1) < VarWindow * (100 - Confidence)
<1> DEFINE p == VarWindow * (100 - Confidence)
           q == (p + 99) \div 100
<1>1. VarWindow \in Nat /\ VarWindow >= 1 /\ 100 - Confidence \in 1..99
  BY MathConstants
<1>2. p \in Nat /\ p >= 1 /\ p <= 99 * VarWindow
  <2>1. PICK w, c : w = VarWindow /\ c = 100 - Confidence /\ p = w * c
    OBVIOUS
  <2>2. \A u \in Nat, v \in 1..99 : u >= 1 => u * v \in Nat /\ u * v >= 1 /\ u * v <= 99 * u
    OBVIOUS
  <2> HIDE DEF p
  <2> QED BY <1>1, <2>1, <2>2
<1>3. /\ q \in Nat /\ q >= 1 /\ q <= VarWindow
      /\ 100 * q >= p /\ 100 * (q - 1) < p
  <2> HIDE DEF p
  <2> QED BY <1>1, <1>2
<1>4. TailCount = Max({1, q})
  BY DEF TailCount
<1> HIDE DEF q
<1>5. Max({1, q}) = q
  BY <1>3 DEF Max
<1> QED BY <1>1, <1>3, <1>4, <1>5

\* One place is sooner than another in a series of numbers.
Soonest(series, n) == {p \in (1..n) \X (1..n) : Sooner(series, p[1], p[2])}

\* Order lists the places from the least value to the greatest.
LEMMA OrderLists ==
  ASSUME NEW n \in Nat, NEW series, series \in [1..n -> Int]
  PROVE  Lists(Order(series), 1..n, Soonest(series, n), n)
<1> DEFINE R == Soonest(series, n)
<1>1. \A i, j \in 1..n : <<i, j>> \in R <=> Sooner(series, i, j)
  BY DEF Soonest
<1>2. Orders(1..n, R)
  <2>1. \A i \in 1..n : series[i] \in Int
    OBVIOUS
  <2> HIDE DEF R
  <2>2. \A x \in 1..n : <<x, x>> \notin R
    BY <1>1, <2>1 DEF Sooner
  <2>3. \A x, y, z \in 1..n : <<x, y>> \in R /\ <<y, z>> \in R => <<x, z>> \in R
    <3> SUFFICES ASSUME NEW x \in 1..n, NEW y \in 1..n, NEW z \in 1..n,
                        <<x, y>> \in R, <<y, z>> \in R
                 PROVE  <<x, z>> \in R
      OBVIOUS
    <3>1. Sooner(series, x, y) /\ Sooner(series, y, z)
      BY <1>1
    <3>2. Sooner(series, x, z)
      BY <2>1, <3>1 DEF Sooner
    <3> QED BY <1>1, <3>2
  <2>4. \A x, y \in 1..n : x # y => <<x, y>> \in R \/ <<y, x>> \in R
    BY <1>1, <2>1 DEF Sooner
  <2> QED BY <2>2, <2>3, <2>4 DEF Orders
<1>3. IsFiniteSet(1..n) /\ Cardinality(1..n) = n
  BY FS_Interval
<1>4. \A i \in 1..n : Below(1..n, R, i) = {j \in 1..n : Sooner(series, j, i)}
  BY <1>1 DEF Below
<1>5. DOMAIN series = 1..n
  OBVIOUS
<1> HIDE DEF R
<1>6. ASSUME NEW a \in 1..n
      PROVE  /\ Order(series)[a] \in 1..n
             /\ Cardinality(Below(1..n, R, Order(series)[a])) = a - 1
  <2>1. Order(series)[a] = CHOOSE i \in 1..n : Cardinality({j \in 1..n : Sooner(series, j, i)}) = a - 1
    BY <1>5 DEF Order
  <2>2. \E i \in 1..n : Cardinality(Below(1..n, R, i)) = a - 1
    BY <1>2, <1>3, RanksAreFilled
  <2>3. \E i \in 1..n : Cardinality({j \in 1..n : Sooner(series, j, i)}) = a - 1
    BY <1>4, <2>2
  <2> QED BY <1>4, <2>1, <2>3
<1>7. Lists(Order(series), 1..n, R, n)
  <2>1. Order(series) \in [1..n -> 1..n]
    BY <1>5, <1>6 DEF Order
  <2> QED BY <1>2, <1>3, <1>6, <2>1, RankedLists
<1> QED BY <1>7 DEF R

\* The VaR of a window is the loss of the k-th of its places.
LEMMA VarIsOfOrder ==
  ASSUME NEW returns, NEW r, r = Recent(returns), r \in [1..VarWindow -> Int]
  PROVE  HistoricalVar(returns) = -r[Order(r)[TailCount]]
<1> DEFINE w == VarWindow
           k == TailCount
           R == Soonest(r, w)
           o == Order(r)[k]
           losses == [i \in 1..w |-> -Recent(returns)[i]]
           More(x) == {i \in 1..w : losses[i] > x}
           AsMuch(x) == {i \in 1..w : losses[i] >= x}
<1>1. w \in Nat /\ k \in 1..w /\ Lists(Order(r), 1..w, R, w)
  BY MathConstants, TailCountIs, OrderLists
<1>2. o \in 1..w /\ Cardinality(Below(1..w, R, o)) = k - 1
  BY <1>1 DEF Lists
<1>3. /\ \A i \in 1..w : losses[i] = -r[i] /\ r[i] \in Int
      /\ losses \in [1..w -> Int]
  OBVIOUS
<1>4. Below(1..w, R, o) = {i \in 1..w : Sooner(r, i, o)}
  BY <1>2 DEF Below, Soonest
<1>5. /\ IsFiniteSet(1..w)
      /\ \A X \in SUBSET (1..w) : IsFiniteSet(X) /\ Cardinality(X) \in Nat
  <2>1. IsFiniteSet(1..w)
    BY <1>1, FS_Interval
  <2> QED BY <2>1, FS_Subset, FS_CardinalityType
<1>6. /\ \A x : More(x) \in SUBSET (1..w) /\ AsMuch(x) \in SUBSET (1..w)
      /\ Below(1..w, R, o) \in SUBSET (1..w)
      /\ \A x : Cardinality(More(x)) \in Nat /\ Cardinality(AsMuch(x)) \in Nat
      /\ k \in Nat
  <2>1. \A x : More(x) \in SUBSET (1..w) /\ AsMuch(x) \in SUBSET (1..w)
    OBVIOUS
  <2>2. Below(1..w, R, o) \in SUBSET (1..w)
    BY DEF Below
  <2>3. k \in Nat
    <3> HIDE DEF k
    <3> QED BY <1>1
  <2> HIDE DEF More, AsMuch, o, k, losses
  <2> QED BY <1>5, <2>1, <2>2, <2>3
<1>7. Cardinality(More(-r[o])) < k
  <2>1. More(-r[o]) \subseteq Below(1..w, R, o)
    BY <1>2, <1>3, <1>4 DEF Sooner
  <2>2. Cardinality(More(-r[o])) <= k - 1
    BY <1>2, <1>5, <1>6, <2>1, FS_Subset
  <2> HIDE DEF k, More, AsMuch, o
  <2> QED BY <1>6, <2>2
<1>8. Cardinality(AsMuch(-r[o])) >= k
  <2>1. Below(1..w, R, o) \cup {o} \subseteq AsMuch(-r[o])
    BY <1>2, <1>3, <1>4 DEF Sooner
  <2>2. o \notin Below(1..w, R, o)
    <3>1. ~Sooner(r, o, o)
      BY <1>2, <1>3 DEF Sooner
    <3> QED BY <1>4, <3>1
  <2>3. Cardinality(Below(1..w, R, o) \cup {o}) = (k - 1) + 1
    <3>1. PICK b : b = Below(1..w, R, o)
      OBVIOUS
    <3>2. IsFiniteSet(b) /\ Cardinality(b) = k - 1 /\ o \notin b
      BY <1>2, <1>5, <1>6, <2>2, <3>1
    <3> HIDE DEF o, k
    <3>3. Cardinality(b \cup {o}) = (k - 1) + 1
      BY <3>2, FS_AddElement
    <3> QED BY <3>1, <3>3
  <2>4. Cardinality(Below(1..w, R, o) \cup {o}) <= Cardinality(AsMuch(-r[o]))
    BY <1>5, <1>6, <2>1, FS_Subset
  <2> HIDE DEF k, More, AsMuch, o
  <2> QED BY <1>6, <2>3, <2>4
<1>9. ToSet(losses) = {losses[i] : i \in 1..w}
  BY DEF ToSet
<1>10. -r[o] \in ToSet(losses)
  BY <1>2, <1>3, <1>9
<1>11. ASSUME NEW y \in ToSet(losses), Cardinality(More(y)) < k, Cardinality(AsMuch(y)) >= k
       PROVE  y = -r[o]
  <2>1. y \in Int /\ -r[o] \in Int
    BY <1>2, <1>3, <1>9
  <2>2. /\ Cardinality(More(y)) \in Nat /\ Cardinality(AsMuch(y)) \in Nat /\ k \in Nat
        /\ Cardinality(More(-r[o])) \in Nat /\ Cardinality(AsMuch(-r[o])) \in Nat
    <3> HIDE DEF k, More, AsMuch, o, losses
    <3> QED BY <1>6
  <2>3. CASE y < -r[o]
    <3>1. AsMuch(-r[o]) \subseteq More(y)
      BY <1>3, <2>1, <2>3
    <3>2. Cardinality(AsMuch(-r[o])) <= Cardinality(More(y))
      BY <1>5, <1>6, <3>1, FS_Subset
    <3> HIDE DEF k, AsMuch, More, o
    <3> QED BY <1>8, <1>11, <2>2, <3>2
  <2>4. CASE y > -r[o]
    <3>1. AsMuch(y) \subseteq More(-r[o])
      BY <1>3, <2>1, <2>4
    <3>2. Cardinality(AsMuch(y)) <= Cardinality(More(-r[o]))
      BY <1>5, <1>6, <3>1, FS_Subset
    <3> HIDE DEF k, AsMuch, More, o
    <3> QED BY <1>7, <1>11, <2>2, <3>2
  <2> QED BY <2>1, <2>3, <2>4
<1>12. HistoricalVar(returns) =
         CHOOSE x \in ToSet(losses) : Cardinality(More(x)) < k /\ Cardinality(AsMuch(x)) >= k
  BY DEF HistoricalVar
<1> HIDE DEF k, AsMuch, More, losses, o
<1>13. HistoricalVar(returns) = -r[o]
  BY <1>7, <1>8, <1>10, <1>11, <1>12
<1> QED BY <1>13 DEF o, k

-----------------------------------------------------------------------------
(* Days in order *)

\* Some days in order, as DaysOf makes them of its bars.
Listed(T) ==
  [i \in 1..Cardinality(T) |-> CHOOSE d \in T : Cardinality({e \in T : e < d}) = i - 1]

\* days is T in order, and each place says how many days lie before and after.
InOrder(days, T, n) ==
  /\ n = Cardinality(T) /\ n \in Nat /\ days \in [1..n -> T]
  /\ \A x \in T : \E k \in 1..n : days[k] = x
  /\ \A k, l \in 1..n : k < l => days[k] < days[l]
  /\ \A k \in 1..n : Cardinality({e \in T : e < days[k]}) = k - 1
  /\ \A k \in 1..n : Cardinality({e \in T : e > days[k]}) = n - k

LEMMA BeforeOrders ==
  ASSUME NEW T, T \subseteq Nat
  PROVE  Orders(T, Before) /\ \A d \in T : Below(T, Before, d) = {e \in T : e < d}
<1>1. \A x, y \in T : <<x, y>> \in Before <=> x < y
  BY DEF Before
<1>2. \A x \in T : x \in Nat
  OBVIOUS
<1>3. Orders(T, Before)
  <2>1. \A x \in T : <<x, x>> \notin Before
    BY <1>1, <1>2
  <2>2. ASSUME NEW x \in T, NEW y \in T, NEW z \in T, <<x, y>> \in Before, <<y, z>> \in Before
        PROVE  <<x, z>> \in Before
    BY <1>1, <1>2, <2>2
  <2>3. \A x, y \in T : x # y => <<x, y>> \in Before \/ <<y, x>> \in Before
    BY <1>1, <1>2
  <2> QED BY <2>1, <2>2, <2>3 DEF Orders
<1> QED BY <1>1, <1>3 DEF Below

LEMMA ListedInOrder ==
  ASSUME NEW T, T \subseteq Nat, IsFiniteSet(T), NEW n, n = Cardinality(T)
  PROVE  InOrder(Listed(T), T, n)
<1> DEFINE days == Listed(T)
<1>1. Orders(T, Before) /\ \A d \in T : Below(T, Before, d) = {e \in T : e < d}
  BY BeforeOrders
<1>2. ASSUME NEW k \in 1..n
      PROVE  days[k] \in T /\ Cardinality({e \in T : e < days[k]}) = k - 1
  <2>1. \E d \in T : Cardinality(Below(T, Before, d)) = k - 1
    BY <1>1, RanksAreFilled
  <2>2. \E d \in T : Cardinality({e \in T : e < d}) = k - 1
    BY <1>1, <2>1
  <2>3. days[k] = CHOOSE d \in T : Cardinality({e \in T : e < d}) = k - 1
    BY DEF Listed
  <2> HIDE DEF days
  <2> QED BY <2>2, <2>3
<1>3. days \in [1..n -> T]
  BY <1>2 DEF Listed
<1> HIDE DEF days
<1>4. n \in Nat /\ Lists(days, T, Before, n)
  <2>1. \A k \in 1..n : Cardinality(Below(T, Before, days[k])) = k - 1
    BY <1>1, <1>2
  <2> QED BY <1>1, <1>3, <2>1, RankedLists
<1>5. \A k, l \in 1..n : k < l => days[k] < days[l]
  BY <1>2, <1>4 DEF Lists, Before
<1>6. ASSUME NEW k \in 1..n
      PROVE  Cardinality({e \in T : e > days[k]}) = n - k
  <2>1. PICK d, under, above :
          d = days[k] /\ under = {e \in T : e < d} /\ above = {e \in T : e > d}
    OBVIOUS
  <2>2. d \in T /\ d \in Nat /\ Cardinality(under) = k - 1
    BY <1>2, <2>1
  <2>3. IsFiniteSet(under) /\ IsFiniteSet(above) /\ d \notin under
    BY <2>1, <2>2, FS_Subset
  <2>4. IsFiniteSet(under \cup {d}) /\ Cardinality(under \cup {d}) = (k - 1) + 1
    BY <2>2, <2>3, FS_AddElement
  <2>5. (under \cup {d}) \cup above = T /\ (under \cup {d}) \cap above = {}
    <3>1. \A e \in T : e < d \/ e = d \/ e > d
      BY <2>2
    <3>2. \A e \in T : ~(e < d /\ e > d) /\ ~(d > d)
      BY <2>2
    <3> QED BY <2>1, <2>2, <3>1, <3>2, Zenon
  <2>6. Cardinality(T) = Cardinality(under \cup {d}) + Cardinality(above) - Cardinality({})
    BY <2>3, <2>4, <2>5, FS_Union
  <2>7. Cardinality(above) \in Nat /\ Cardinality({}) = 0
    BY <2>3, FS_CardinalityType, FS_EmptySet
  <2>8. PICK c : c = Cardinality(above)
    OBVIOUS
  <2>9. c = n - k
    BY <1>4, <2>4, <2>6, <2>7, <2>8
  <2> QED BY <2>1, <2>8, <2>9
<1> QED BY <1>2, <1>3, <1>4, <1>5, <1>6 DEF InOrder, Lists, days

\* The day in the next place is the next day.
LEMMA PlacesAdjoin ==
  ASSUME NEW T, T \subseteq Nat, NEW n, NEW days, InOrder(days, T, n),
         NEW j \in 2..n, NEW x \in T, x < days[j]
  PROVE  x <= days[j - 1]
<1>1. PICK l \in 1..n : days[l] = x
  BY DEF InOrder
<1>2. n \in Nat /\ j - 1 \in 1..n /\ j \in 1..n
  BY DEF InOrder
<1>3. \A k \in 1..n : days[k] \in Nat
  BY DEF InOrder
<1>4. l < j
  <2>1. ~(j < l) /\ j # l
    BY <1>1, <1>2, <1>3 DEF InOrder
  <2> QED BY <1>2, <2>1
<1>5. l = j - 1 \/ l < j - 1
  BY <1>2, <1>4
<1> QED BY <1>1, <1>2, <1>3, <1>5 DEF InOrder

LEMMA ReturnType ==
  ASSUME NEW before \in Nat \ {0}, NEW after \in Nat \ {0}
  PROVE  Return(before, after) \in Int
<1>1. Scale * after \in Nat /\ Scale \in Nat
  BY MathConstants
<1>2. (Scale * after) \div before \in Int
  <2>1. PICK p : p = Scale * after
    OBVIOUS
  <2>2. p \div before \in Int
    BY <1>1, <2>1
  <2> QED BY <2>1, <2>2
<1> QED BY <1>1, <1>2 DEF Return

\* The window of a series of days that is longer than it: the returns and the
\* days they are of, each by its place in the series.
Windowed(days, n, r, labels) ==
  /\ labels = [i \in 1..VarWindow |-> days[(n - VarWindow) + i]]
  /\ r \in [1..VarWindow -> Int]
  /\ \A i \in 1..VarWindow :
       r[i] = Return(close[days[(n - VarWindow) + i - 1]], close[days[(n - VarWindow) + i]])

LEMMA WindowIs ==
  ASSUME close \in [Sessions -> Prices],
         NEW T, T \subseteq Sessions, NEW n, NEW days, InOrder(days, T, n), n > VarWindow
  PROVE  Windowed(days, n, Recent(ReturnsOf(days)), Recent(Tail(days)))
<1> DEFINE w == VarWindow
           m == n - VarWindow
           returns == ReturnsOf(days)
           labels == Tail(days)
<1>1. w \in Nat /\ w >= 1 /\ n \in Nat /\ n > w /\ m \in Nat /\ m >= 1
  BY MathConstants DEF InOrder
<1>2. days \in [1..n -> T]
  BY DEF InOrder
<1>3. \A i \in 1..n : close[days[i]] \in Nat \ {0}
  BY <1>2, ForecastConstants
<1>4. days \in Seq(T) /\ Len(days) = n /\ DOMAIN days = 1..n
  BY <1>1, <1>2
<1>5. returns = [i \in 1..n - 1 |-> Return(close[days[i]], close[days[i + 1]])]
  <2> DEFINE closes == [i \in DOMAIN days |-> close[days[i]]]
  <2>1. closes \in [1..n -> Nat] /\ Len(closes) = n
    BY <1>1, <1>3, <1>4
  <2>2. \A i \in 1..n - 1 : closes[i] = close[days[i]] /\ closes[i + 1] = close[days[i + 1]]
    BY <1>1, <1>4
  <2>3. returns = SimpleReturns(closes)
    BY DEF ReturnsOf
  <2> HIDE DEF closes
  <2> QED BY <2>1, <2>2, <2>3 DEF SimpleReturns
<1>6. \A i \in 1..n - 1 : Return(close[days[i]], close[days[i + 1]]) \in Int
  <2> SUFFICES ASSUME NEW i \in 1..n - 1
               PROVE  Return(close[days[i]], close[days[i + 1]]) \in Int
    OBVIOUS
  <2>1. i \in 1..n /\ i + 1 \in 1..n
    BY <1>1
  <2> QED BY <1>3, <2>1, ReturnType
<1>7. returns \in Seq(Int) /\ Len(returns) = n - 1
  BY <1>1, <1>5, <1>6
<1>8. labels \in Seq(T) /\ Len(labels) = n - 1 /\ \A i \in 1..n - 1 : labels[i] = days[i + 1]
  BY <1>1, <1>4
<1> HIDE DEF returns, labels
<1>9. Recent(returns) = [i \in 1..w |-> returns[(n - 1) - w + i]]
  <2>1. /\ Len(returns) - w + 1 \in Nat /\ Len(returns) - w + 1 >= 1
        /\ Len(returns) - (Len(returns) - w + 1) + 1 = w
    BY <1>1, <1>7
  <2> QED BY <1>1, <1>7, <2>1 DEF Recent
<1>10. Recent(labels) = [i \in 1..w |-> labels[(n - 1) - w + i]]
  <2>1. /\ Len(labels) - w + 1 \in Nat /\ Len(labels) - w + 1 >= 1
        /\ Len(labels) - (Len(labels) - w + 1) + 1 = w
    BY <1>1, <1>8
  <2> QED BY <1>1, <1>8, <2>1 DEF Recent
<1>11. ASSUME NEW i \in 1..w
       PROVE  /\ (n - 1) - w + i \in 1..n - 1
              /\ (n - 1) - w + i = m + i - 1 /\ ((n - 1) - w + i) + 1 = m + i
  BY <1>1
<1>12. \A i \in 1..w : labels[(n - 1) - w + i] = days[m + i]
  BY <1>8, <1>11
<1>13. \A i \in 1..w : returns[(n - 1) - w + i] = Return(close[days[m + i - 1]], close[days[m + i]])
  BY <1>5, <1>11
<1>14. Recent(returns) \in [1..w -> Int]
  BY <1>7, <1>9, <1>11
<1> QED BY <1>9, <1>10, <1>12, <1>13, <1>14 DEF Windowed, returns, labels

-----------------------------------------------------------------------------
(* The tail behind a VaR *)

\* The sessions that were over at a time.
Over(asOf) == {s \in Sessions : Closing(s) <= asOf}

LEMMA OverIs ==
  ASSUME NEW asOf \in Nat
  PROVE  /\ Over(asOf) \subseteq Nat /\ Over(asOf) \subseteq Sessions
         /\ IsFiniteSet(Over(asOf)) /\ Cardinality(Over(asOf)) \in Nat
         /\ \A s \in Over(asOf), t \in Sessions : t < s => t \in Over(asOf)
<1>1. Sessions \subseteq 0..LastDay /\ LastDay \in Nat
  BY ForecastConstants
<1>2. IsFiniteSet(0..LastDay)
  BY <1>1, FS_Interval
<1>3. Over(asOf) \in SUBSET (0..LastDay)
  BY <1>1 DEF Over
<1>4. IsFiniteSet(Over(asOf)) /\ Cardinality(Over(asOf)) \in Nat
  BY <1>2, <1>3, FS_Subset, FS_CardinalityType
<1>5. \A s \in Over(asOf), t \in Sessions : t < s => t \in Over(asOf)
  <2> SUFFICES ASSUME NEW s \in Sessions, Closing(s) <= asOf, NEW t \in Sessions, t < s
               PROVE  Closing(t) <= asOf
    BY DEF Over
  <2>1. s \in Int /\ t \in Int
    BY <1>1
  <2> QED BY <2>1 DEF Closing, Day
<1> QED BY <1>3, <1>4, <1>5 DEF Over

\* The last VarWindow of some days.
Latest(T) == {s \in T : Cardinality({o \in T : o > s}) < VarWindow}

\* What TailBehindVar says of one forecast.
TailExplains(asOf, var, tail) ==
  LET days  == Latest(Over(asOf))
      k     == Len(tail)
      worst == {tail[a].label : a \in 1..k}
  IN  /\ 100 * k >= VarWindow * (100 - Confidence)
      /\ 100 * (k - 1) < VarWindow * (100 - Confidence)
      /\ worst \subseteq days /\ Cardinality(worst) = k
      /\ \A a \in 1..k : tail[a].return = -Loss(tail[a].label)
      /\ \A a, b \in 1..k : a < b => tail[a].return <= tail[b].return
      /\ var = -tail[k].return
      /\ \A s \in days \ worst : Loss(s) <= var

\* A day's loss is over the day in the place before it.
LEMMA LossIs ==
  ASSUME close \in [Sessions -> Prices], NEW asOf \in Nat, NEW n, NEW days,
         InOrder(days, Over(asOf), n), NEW j \in 2..n
  PROVE  /\ Loss(days[j]) = -Return(close[days[j - 1]], close[days[j]])
         /\ Return(close[days[j - 1]], close[days[j]]) \in Int
<1> DEFINE T == Over(asOf)
           earlier == {s \in Sessions : s < days[j]}
<1>1. n \in Nat /\ j \in 1..n /\ j - 1 \in 1..n /\ j - 1 < j
  BY DEF InOrder
<1>2. days[j] \in T /\ days[j - 1] \in T /\ days[j - 1] < days[j]
  BY <1>1 DEF InOrder
<1>3. T \subseteq Nat /\ T \subseteq Sessions
  BY OverIs
<1>4. days[j - 1] \in earlier
  BY <1>2, <1>3
<1>5. ASSUME NEW s \in earlier
      PROVE  s <= days[j - 1] /\ s \in Nat
  <2>1. s \in T
    BY <1>2, OverIs
  <2> QED BY <1>3, <2>1, PlacesAdjoin
<1>6. days[j - 1] \in Nat
  BY <1>2, <1>3
<1>7. \A s \in earlier : days[j - 1] >= s
  BY <1>5, <1>6
<1>8. \A x \in earlier : (\A s \in earlier : x >= s) => x = days[j - 1]
  BY <1>4, <1>5, <1>6
<1>9. Max(earlier) = days[j - 1]
  <2> HIDE DEF earlier
  <2> QED BY <1>4, <1>7, <1>8 DEF Max
<1>10. close[days[j]] \in Nat \ {0} /\ close[days[j - 1]] \in Nat \ {0}
  BY <1>2, <1>3, ForecastConstants
<1> QED BY <1>9, <1>10, ReturnType DEF Loss

LEMMA LatestAre ==
  ASSUME NEW asOf \in Nat, NEW n, NEW days, InOrder(days, Over(asOf), n), n > VarWindow
  PROVE  Latest(Over(asOf)) = {days[(n - VarWindow) + i] : i \in 1..VarWindow}
<1> DEFINE w == VarWindow
           m == n - w
           T == Over(asOf)
           last == Latest(T)
<1>1. w \in Nat /\ n \in Nat /\ n > w
  BY MathConstants DEF InOrder
<1>2. ASSUME NEW i \in 1..w
      PROVE  days[m + i] \in last
  <2>1. m + i \in 1..n /\ n - (m + i) < w
    BY <1>1
  <2>2. Cardinality({o \in T : o > days[m + i]}) < w
    BY <2>1 DEF InOrder
  <2> QED BY <2>1, <2>2 DEF InOrder, Latest
<1>3. ASSUME NEW s \in last
      PROVE  \E i \in 1..w : s = days[m + i]
  <2>1. PICK j \in 1..n : days[j] = s
    BY DEF InOrder, Latest
  <2>2. Cardinality({o \in T : o > days[j]}) = n - j
    BY DEF InOrder
  <2>3. n - j < w
    BY <2>1, <2>2 DEF Latest
  <2>4. j - m \in 1..w /\ m + (j - m) = j
    BY <1>1, <2>3
  <2> QED BY <2>1, <2>4
<1> HIDE DEF last
<1>4. last = {days[m + i] : i \in 1..w}
  BY <1>2, <1>3
<1> QED BY <1>4 DEF last

LEMMA TailIs ==
  ASSUME close \in [Sessions -> Prices], NEW asOf \in Nat,
         Cardinality(Over(asOf)) > VarWindow, NEW days, days = Listed(Over(asOf))
  PROVE  TailExplains(asOf, HistoricalVar(ReturnsOf(days)), TailDays(ReturnsOf(days), Tail(days)))
<1> DEFINE T == Over(asOf)
           n == Cardinality(T)
           w == VarWindow
           m == n - w
           k == TailCount
           r == Recent(ReturnsOf(days))
           labels == Recent(Tail(days))
           order == Order(r)
           R == Soonest(r, w)
           var == HistoricalVar(ReturnsOf(days))
           tail == TailDays(ReturnsOf(days), Tail(days))
           window == Latest(T)
           worst == {tail[a].label : a \in 1..k}
<1>1. InOrder(days, T, n)
  BY OverIs, ListedInOrder
<1>2. w \in Nat /\ w >= 1 /\ n \in Nat /\ n > w /\ m \in Nat /\ m >= 1
  BY OverIs, MathConstants
<1>3. Windowed(days, n, r, labels)
  BY <1>1, <1>2, OverIs, WindowIs
<1> HIDE DEF r, labels
<1>4. Lists(order, 1..w, R, w)
  BY <1>2, <1>3, OrderLists DEF Windowed
<1>5. /\ k \in 1..w
      /\ 100 * k >= VarWindow * (100 - Confidence)
      /\ 100 * (k - 1) < VarWindow * (100 - Confidence)
  BY TailCountIs
<1>6. tail = [a \in 1..k |-> [label |-> labels[order[a]], return |-> r[order[a]]]]
  BY DEF TailDays, r, labels
<1>7. var = -r[order[k]]
  BY <1>3, VarIsOfOrder DEF Windowed, r
<1> HIDE DEF tail, var, k, n, T
<1>8. Len(tail) = k
  BY <1>5, <1>6
<1>9. \A a \in 1..k : a \in 1..w
  BY <1>2, <1>5
<1>10. \A a \in 1..w : order[a] \in 1..w
  BY <1>4 DEF Lists
<1>11. \A i \in 1..w : r[i] \in Int
  BY <1>3 DEF Windowed
<1>12. \A a \in 1..k : tail[a].label = labels[order[a]] /\ tail[a].return = r[order[a]]
  BY <1>6
<1>13. \A i \in 1..w : labels[i] = days[m + i] /\ m + i \in 2..n
  BY <1>2, <1>3 DEF Windowed
<1>14. \A i \in 1..w : r[i] = -Loss(labels[i])
  <2> SUFFICES ASSUME NEW i \in 1..w PROVE r[i] = -Loss(labels[i])
    OBVIOUS
  <2>1. PICK j \in 2..n : j = m + i /\ labels[i] = days[j]
    BY <1>13
  <2>2. r[i] = Return(close[days[j - 1]], close[days[j]])
    <3>1. j - 1 = (n - VarWindow) + i - 1
      BY <1>2, <2>1
    <3> QED BY <1>3, <2>1, <3>1 DEF Windowed
  <2>3. Loss(days[j]) = -Return(close[days[j - 1]], close[days[j]])
    BY <1>1, LossIs DEF T
  <2> QED BY <1>11, <2>1, <2>2, <2>3
<1>15. window = {labels[i] : i \in 1..w}
  <2>1. window = {days[m + i] : i \in 1..w}
    <3>1. InOrder(days, Over(asOf), n) /\ n > VarWindow
      BY <1>1, <1>2 DEF T
    <3> QED BY <3>1, LatestAre DEF T
  <2> HIDE DEF window
  <2> QED BY <1>13, <2>1
<1> HIDE DEF window
<1>16. worst \subseteq window
  BY <1>9, <1>10, <1>12, <1>15
<1>17. Cardinality(worst) = k
  <2> DEFINE f == [a \in 1..k |-> tail[a].label]
  <2>1. ASSUME NEW a \in 1..k, NEW b \in 1..k, a # b
        PROVE  f[a] # f[b]
    <3>1. order[a] # order[b]
      <4>1. \A i \in 1..w : <<i, i>> \notin R
        BY <1>11 DEF Soonest, Sooner
      <4>2. a < b \/ b < a
        BY <2>1
      <4> QED BY <1>9, <1>10, <1>4, <4>1, <4>2 DEF Lists
    <3>2. ASSUME NEW i \in 1..w, NEW j \in 1..w, i < j
          PROVE  labels[i] < labels[j]
      <4>1. m + i \in 1..n /\ m + j \in 1..n /\ m + i < m + j
        BY <1>2, <1>13, <3>2
      <4>2. days[m + i] < days[m + j]
        BY <1>1, <1>2, <4>1 DEF InOrder
      <4> QED BY <1>13, <4>2
    <3>3. ASSUME NEW i \in 1..w
          PROVE  labels[i] \in Nat
      <4>1. T \subseteq Nat
        BY OverIs DEF T
      <4>2. days \in [1..n -> T]
        BY <1>1 DEF InOrder
      <4>3. m + i \in 1..n
        BY <1>2, <1>13
      <4> QED BY <1>13, <4>1, <4>2, <4>3
    <3>4. labels[order[a]] # labels[order[b]]
      BY <1>9, <1>10, <3>1, <3>2, <3>3
    <3> QED BY <1>12, <3>4
  <2>2. k \in Nat /\ \A a \in 1..k : f[a] = tail[a].label
    BY <1>5
  <2>3. PICK g : g = f /\ DOMAIN g = 1..k /\ g = [a \in 1..k |-> g[a]]
    OBVIOUS
  <2> HIDE DEF f
  <2>4. \A a, b \in 1..k : a # b => g[a] # g[b]
    BY <2>1, <2>3
  <2>5. Cardinality({g[a] : a \in 1..k}) = k
    BY <2>2, <2>3, <2>4, ImageCard
  <2> QED BY <2>2, <2>3, <2>5
<1>18. \A a \in 1..k : tail[a].return = -Loss(tail[a].label)
  BY <1>9, <1>10, <1>12, <1>14
<1>19. \A a, b \in 1..w : a < b => r[order[a]] <= r[order[b]]
  <2> SUFFICES ASSUME NEW a \in 1..w, NEW b \in 1..w, a < b
               PROVE  r[order[a]] <= r[order[b]]
    OBVIOUS
  <2>1. Sooner(r, order[a], order[b])
    BY <1>4 DEF Lists, Soonest
  <2> QED BY <1>10, <1>11, <2>1 DEF Sooner
<1>20. \A a, b \in 1..k : a < b => tail[a].return <= tail[b].return
  BY <1>9, <1>12, <1>19
<1>21. var = -tail[k].return
  BY <1>5, <1>7, <1>12
<1>22. ASSUME NEW s \in window \ worst
       PROVE  Loss(s) <= var
  <2>1. PICK i \in 1..w : s = labels[i]
    BY <1>15
  <2>2. PICK a \in 1..w : order[a] = i
    BY <1>4 DEF Lists
  <2>3. ~(a \in 1..k)
    BY <1>12, <2>1, <2>2
  <2>4. k < a
    BY <1>5, <2>3
  <2>5. r[order[k]] <= r[i] /\ r[order[k]] \in Int /\ r[i] \in Int
    BY <1>5, <1>10, <1>11, <1>19, <2>2, <2>4
  <2>6. Loss(s) = -r[i]
    <3>1. PICK x : x = Loss(s)
      OBVIOUS
    <3>2. r[i] = -x /\ -r[i] \in Int
      BY <1>14, <2>1, <2>5, <3>1
    <3>3. x = -(-x)
      <4>1. \A j \in 2..n : Loss(days[j]) \in Int
        BY <1>1, LossIs DEF T
      <4>2. x \in Int
        BY <1>13, <2>1, <3>1, <4>1
      <4> QED BY <4>2
    <3> QED BY <3>1, <3>2, <3>3
  <2> QED BY <1>7, <2>5, <2>6
<1>23. /\ 100 * Len(tail) >= VarWindow * (100 - Confidence)
       /\ 100 * (Len(tail) - 1) < VarWindow * (100 - Confidence)
  BY <1>5, <1>8
<1>24. TailExplains(asOf, var, tail)
  BY <1>8, <1>16, <1>17, <1>18, <1>20, <1>21, <1>22, <1>23 DEF TailExplains, window, T
<1> QED BY <1>24 DEF var, tail

-----------------------------------------------------------------------------
(* What the figures of a forecast are *)

\* The days of the bars that are there up to a time, today's included.
Known(end) == {s \in Over(end) : Opening(s) <= now}

LEMMA BarDays ==
  ASSUME now \in Nat, NEW end \in Nat
  PROVE  /\ {b.day : b \in GetRecentBars(end)} = Known(end)
         /\ Cardinality(GetRecentBars(end)) = Cardinality(Known(end))
         /\ Known(end) \subseteq Over(end)
         /\ IsFiniteSet(Known(end))
         /\ end <= now => Known(end) = Over(end)
<1> DEFINE bars == GetRecentBars(end)
           T == Known(end)
           bar(d) == [day |-> d, final |-> Closing(d) <= now]
           g == [d \in T |-> bar(d)]
<1>1. \A s \in Sessions : s \in Int
  BY ForecastConstants
<1>2. bars = {bar(d) : d \in T}
  <2>1. ASSUME NEW b \in bars
        PROVE  \E d \in T : b = bar(d)
    <3>1. b \in Provided(end) /\ Closing(b.day) <= end
      BY DEF GetRecentBars, BarsClosedBefore
    <3>2. PICK d \in Sessions : b = bar(d) /\ Opening(d) <= now
      BY <3>1 DEF Provided
    <3>3. b.day = d
      BY <3>2
    <3> QED BY <3>1, <3>2, <3>3 DEF Known, Over
  <2>2. ASSUME NEW d \in T
        PROVE  bar(d) \in bars
    <3>1. d \in Sessions /\ Closing(d) <= end /\ Opening(d) <= now /\ d \in Int
      BY <1>1 DEF Known, Over
    <3>2. Day * d <= end
      BY <3>1 DEF Closing, Day
    <3>3. bar(d) \in Provided(end) /\ bar(d).day = d
      BY <3>1, <3>2 DEF Provided
    <3> QED BY <3>1, <3>3 DEF GetRecentBars, BarsClosedBefore
  <2> HIDE DEF bars, T, bar
  <2> QED BY <2>1, <2>2
<1>3. \A d \in T : bar(d).day = d
  OBVIOUS
<1>4. {b.day : b \in bars} = T
  <2> HIDE DEF bars, T, bar
  <2> QED BY <1>2, <1>3
<1>5. T \subseteq Over(end) /\ IsFiniteSet(T)
  BY OverIs, FS_Subset DEF Known
<1>6. Cardinality(bars) = Cardinality(T)
  <2> HIDE DEF bars, T, bar
  <2>1. g \in [T -> bars] /\ \A b \in bars : \E d \in T : g[d] = b
    BY <1>2
  <2>2. \A d, e \in T : g[d] = g[e] => d = e
    BY <1>3
  <2> HIDE DEF g
  <2>3. g \in Bijection(T, bars)
    BY <2>1, <2>2, Zenon DEF Bijection, Injection, Surjection, IsInjective
  <2>4. ExistsBijection(T, bars)
    BY <2>3 DEF ExistsBijection
  <2> QED BY <1>5, <2>4, FS_Bijection
<1>7. end <= now => T = Over(end)
  BY <1>1 DEF Known, Over, Opening, Closing, Day
<1> HIDE DEF bars, T
<1> QED BY <1>4, <1>5, <1>6, <1>7 DEF bars, T

\* A stored forecast's figures are those of the sessions that were over at its
\* as_of; one of a backtest is of a morning whose session has since been held.
Built(f) ==
  LET days == Listed(Over(f.asOf))
  IN  /\ DOMAIN f = {"backtest", "asOf", "lastClose", "var", "tail", "realized"}
      /\ Cardinality(Over(f.asOf)) > VarWindow
      /\ f.var = HistoricalVar(ReturnsOf(days))
      /\ f.tail = TailDays(ReturnsOf(days), Tail(days))
      /\ f.backtest # None =>
           /\ DayOf(f.asOf) \in Sessions /\ Closing(DayOf(f.asOf)) < now
           /\ f.asOf = BeforeOpen(DayOf(f.asOf))

VInv ==
  /\ close \in [Sessions -> Prices]
  /\ \A i \in DOMAIN forecasts : Built(forecasts[i])

LEMMA VInvInit == Init => VInv
BY DEF Init, VInv

\* A forecast's figures stay what they are while closes do.
LEMMA BuiltLater ==
  ASSUME now \in Nat, NEW f, Built(f), NEW e,
         DOMAIN e = DOMAIN f, e.backtest = f.backtest, e.asOf = f.asOf,
         e.var = f.var, e.tail = f.tail,
         close' = close, now' \in Nat, now' >= now
  PROVE  Built(e)'
<1>1. PICK days : days = Listed(Over(f.asOf))
  OBVIOUS
<1>2. ReturnsOf(days)' = ReturnsOf(days)
  BY DEF ReturnsOf
<1>3. /\ DOMAIN e = {"backtest", "asOf", "lastClose", "var", "tail", "realized"}
      /\ Cardinality(Over(e.asOf)) > VarWindow /\ days = Listed(Over(e.asOf))
      /\ e.var = HistoricalVar(ReturnsOf(days))
      /\ e.tail = TailDays(ReturnsOf(days), Tail(days))
  BY <1>1 DEF Built
<1>4. e.backtest # None =>
           /\ DayOf(e.asOf) \in Sessions /\ Closing(DayOf(e.asOf)) < now'
           /\ e.asOf = BeforeOpen(DayOf(e.asOf))
  <2>1. \A d \in Sessions : Closing(d) \in Int
    BY ForecastConstants DEF Closing, Day
  <2> QED BY <2>1 DEF Built
<1> QED BY <1>2, <1>3, <1>4 DEF Built

LEMMA RecordBuilds ==
  ASSUME FInv, VInv, NEW b, NEW asOf \in Nat, asOf <= now,
         b # None => /\ DayOf(asOf) \in Sessions /\ Closing(DayOf(asOf)) < now
                     /\ asOf = BeforeOpen(DayOf(asOf)),
         RecordVarForecast(b, asOf)
  PROVE  VInv'
<1>1. PICK bars : bars = GetRecentBars(asOf)
  OBVIOUS
<1>2. PICK f : f = NewForecast(b, asOf, bars)
  OBVIOUS
<1>3. /\ now' = now /\ now \in Nat /\ close' = close /\ forecasts' = Append(forecasts, f)
      /\ Cardinality(bars) > VarWindow
  BY <1>1, <1>2 DEF RecordVarForecast, FInv
<1>4. {c.day : c \in bars} = Over(asOf) /\ Cardinality(bars) = Cardinality(Over(asOf))
  BY <1>1, <1>3, BarDays
<1>5. DaysOf(bars) = Listed(Over(asOf))
  <2>1. DaysOf(bars) = Listed({c.day : c \in bars})
    BY DEF DaysOf, Listed
  <2> QED BY <1>4, <2>1
<1>6. Built(f)
  <2>1. PICK days : days = Listed(Over(asOf))
    OBVIOUS
  <2>2. f = [backtest |-> b, asOf |-> asOf, lastClose |-> LastBar(bars),
             var |-> HistoricalVar(ReturnsOf(days)),
             tail |-> TailDays(ReturnsOf(days), Tail(days)), realized |-> None]
    BY <1>2, <1>5, <2>1 DEF NewForecast
  <2>3. /\ DOMAIN f = {"backtest", "asOf", "lastClose", "var", "tail", "realized"}
        /\ f.backtest = b /\ f.asOf = asOf
        /\ f.var = HistoricalVar(ReturnsOf(days))
        /\ f.tail = TailDays(ReturnsOf(days), Tail(days))
    BY <2>2
  <2> QED BY <1>3, <1>4, <2>1, <2>3 DEF Built
<1>7. PICK S : forecasts \in Seq(S)
  BY DEF FInv
<1>8. \A i \in DOMAIN forecasts' :
        forecasts'[i] = f \/ (i \in DOMAIN forecasts /\ forecasts'[i] = forecasts[i])
  BY <1>3, <1>7
<1>9. ASSUME NEW i \in DOMAIN forecasts'
      PROVE  Built(forecasts[i])'
  <2>1. PICK e : e = forecasts'[i] /\ Built(e)
    BY <1>6, <1>8 DEF VInv
  <2>2. Built(e)'
    BY <1>3, <2>1, BuiltLater
  <2> QED BY <2>1, <2>2
<1> QED BY <1>3, <1>9 DEF VInv

LEMMA FillLeavesBuilt ==
  ASSUME FInv, VInv, NEW b, FillRealizedReturns(b)
  PROVE  VInv'
<1>1. now' = now /\ now \in Nat /\ close' = close /\ DOMAIN forecasts' = DOMAIN forecasts
  BY DEF FillRealizedReturns, FInv
<1>2. ASSUME NEW i \in DOMAIN forecasts
      PROVE  Built(forecasts[i])'
  <2>1. PICK f, e : f = forecasts[i] /\ e = forecasts'[i] /\ Built(f)
    BY DEF VInv
  <2>2. e = f \/ \E c : e = [f EXCEPT !.realized = c]
    BY <2>1 DEF FillRealizedReturns
  <2>3. /\ DOMAIN e = DOMAIN f /\ e.backtest = f.backtest /\ e.asOf = f.asOf
        /\ e.var = f.var /\ e.tail = f.tail
    BY <2>1, <2>2 DEF Built
  <2>4. Built(e)'
    BY <1>1, <2>1, <2>3, BuiltLater
  <2> QED BY <2>1, <2>4
<1> QED BY <1>1, <1>2 DEF VInv

LEMMA VInvNext == FInv /\ VInv /\ [Next]_vars => VInv'
<1> SUFFICES ASSUME FInv, VInv, [Next]_vars PROVE VInv'
  OBVIOUS
<1>1. now \in Nat
  BY DEF FInv
<1>2. CASE Tick \/ UNCHANGED vars
  <2>1. now' \in Nat /\ now' >= now /\ close' = close /\ forecasts' = forecasts
    BY <1>1, <1>2 DEF Tick, vars
  <2>2. ASSUME NEW i \in DOMAIN forecasts
        PROVE  Built(forecasts[i])'
    <3>1. PICK f : f = forecasts[i] /\ Built(f)
      BY DEF VInv
    <3>2. Built(f)'
      BY <1>1, <2>1, <3>1, BuiltLater
    <3> QED BY <2>1, <3>1, <3>2
  <2> QED BY <2>1, <2>2 DEF VInv
<1>3. CASE LiveDecision
  BY <1>1, <1>3, RecordBuilds DEF LiveDecision
<1>4. ASSUME NEW b \in Backtests, BacktestDecision(b)
      PROVE  VInv'
  <2>1. PICK d \in Sessions : Closing(d) < now /\ RecordVarForecast(b, BeforeOpen(d))
    BY <1>4 DEF BacktestDecision
  <2>2. d \in Nat
    BY ForecastConstants
  <2>3. BeforeOpen(d) \in Nat /\ BeforeOpen(d) <= now /\ DayOf(BeforeOpen(d)) = d
    BY <1>1, <2>1, <2>2 DEF BeforeOpen, Closing, DayOf, Day
  <2> QED BY <2>1, <2>3, RecordBuilds
<1>5. ASSUME NEW b, FillRealizedReturns(b)
      PROVE  VInv'
  BY <1>5, FillLeavesBuilt
<1> QED BY <1>2, <1>3, <1>4, <1>5 DEF Next

\* The days kept with a VaR are the window's worst, and the VaR the least of
\* their losses, whatever the prices (tail_losses, historical_var).
THEOREM TailsAreBehindVar == Spec => []TailBehindVar
<1>1. FInv /\ VInv => TailBehindVar
  <2> SUFFICES ASSUME FInv, VInv, NEW i \in DOMAIN forecasts
               PROVE  TailExplains(forecasts[i].asOf, forecasts[i].var, forecasts[i].tail)
    BY Zenon DEF TailBehindVar, TailExplains, Latest, Over
  <2>1. PICK f : f = forecasts[i] /\ Sound(f) /\ Built(f)
    BY DEF FInv, VInv
  <2>2. f.asOf \in Nat /\ close \in [Sessions -> Prices]
    BY <2>1 DEF Sound, VInv
  <2>3. PICK days : days = Listed(Over(f.asOf))
    OBVIOUS
  <2>4. TailExplains(f.asOf, HistoricalVar(ReturnsOf(days)), TailDays(ReturnsOf(days), Tail(days)))
    BY <2>1, <2>2, <2>3, TailIs DEF Built
  <2> QED BY <2>1, <2>3, <2>4 DEF Built
<1> QED BY <1>1, FInvInit, FInvNext, VInvInit, VInvNext, PTL DEF Spec

-----------------------------------------------------------------------------
(* The evaluation of a stored forecast *)

\* The list of the first days of some is the beginning of the list of all.
LEMMA ListedBegins ==
  ASSUME NEW T, T \subseteq Nat, IsFiniteSet(T), NEW n, NEW days, InOrder(days, T, n),
         NEW j \in 1..n
  PROVE  /\ Listed({s \in T : s < days[j]}) = SubSeq(days, 1, j - 1)
         /\ Cardinality({s \in T : s < days[j]}) = j - 1
<1> DEFINE U == {s \in T : s < days[j]}
           first == Listed(U)
           m == Cardinality(U)
<1>1. m = j - 1 /\ n \in Nat /\ m \in Nat /\ m < n /\ days \in [1..n -> T]
  BY DEF InOrder
<1>2. U \subseteq Nat /\ U \subseteq T /\ IsFiniteSet(U)
  BY FS_Subset
<1>3. InOrder(first, U, m)
  BY <1>2, ListedInOrder
<1>4. \A k \in 1..n : days[k] \in Nat
  BY <1>1
<1>5. ASSUME NEW k \in 1..m
      PROVE  first[k] = days[k]
  <2>1. k \in 1..n /\ k < j /\ days[k] \in U
    BY <1>1 DEF InOrder
  <2>2. {s \in U : s < days[k]} = {s \in T : s < days[k]}
    <3>1. \A s \in T : s \in Nat
      OBVIOUS
    <3>2. days[k] < days[j] /\ days[k] \in Nat /\ days[j] \in Nat
      BY <1>4, <2>1
    <3>3. \A s \in T : s < days[k] => s < days[j]
      BY <3>1, <3>2
    <3> QED BY <3>3
  <2>3. Cardinality({s \in U : s < days[k]}) = k - 1
    BY <2>1, <2>2 DEF InOrder
  <2>4. PICK l \in 1..m : first[l] = days[k]
    BY <1>3, <2>1 DEF InOrder
  <2>5. Cardinality({s \in U : s < first[l]}) = l - 1
    BY <1>3 DEF InOrder
  <2>6. l - 1 = k - 1
    <3> HIDE DEF U, first, m
    <3> QED BY <2>3, <2>4, <2>5
  <2>7. l \in Int /\ k \in Int
    BY <1>1
  <2> QED BY <2>4, <2>6, <2>7
<1>6. first \in [1..m -> U]
  BY <1>3 DEF InOrder
<1>7. days \in Seq(T) /\ Len(days) = n
  BY <1>1
<1> HIDE DEF first, m, U
<1>8. SubSeq(days, 1, m) = [k \in 1..m |-> days[k]]
  BY <1>1, <1>7
<1>9. first = [k \in 1..m |-> first[k]]
  BY <1>6
<1>10. first = SubSeq(days, 1, m)
  BY <1>5, <1>8, <1>9
<1> QED BY <1>1, <1>10 DEF first, m, U

\* The evaluation's bars, for a window that reaches a day whose session was held,
\* hold that day in its place, with the same days before it as on its morning.
LEMMA EvaluatedAlike ==
  ASSUME FInv, NEW d \in Sessions, Closing(d) < now, NEW end \in Nat, d <= end,
         NEW days, days = DaysOf(GetRecentBars(BeforeOpen(end + 1))),
         NEW over, over = Over(BeforeOpen(d))
  PROVE  \E j \in DOMAIN days :
           /\ days[j] = d
           /\ j - 1 = Cardinality(over) /\ SubSeq(days, 1, j - 1) = Listed(over)
           /\ j # 1 => days[j - 1] \in over /\ \A s \in over : s <= days[j - 1]
           /\ Len(days) \in Nat /\ DOMAIN days = 1..Len(days)
<1> DEFINE until == BeforeOpen(end + 1)
<1>1. PICK T : T = Known(until)
  OBVIOUS
<1>2. d \in Nat /\ until \in Nat /\ now \in Nat /\ \A s \in Sessions : s \in Nat
  BY ForecastConstants DEF BeforeOpen, Day, FInv
<1>3. T = {c.day : c \in GetRecentBars(until)} /\ IsFiniteSet(T) /\ T \subseteq Over(until)
  BY <1>1, <1>2, BarDays
<1>4. T \subseteq Nat /\ T \subseteq Sessions
  BY <1>2, <1>3 DEF Over
<1>5. days = Listed({c.day : c \in GetRecentBars(until)})
  BY DEF DaysOf, Listed
<1>6. PICK n : n = Cardinality(T)
  OBVIOUS
<1>7. InOrder(days, T, n)
  BY <1>3, <1>4, <1>5, <1>6, ListedInOrder
<1>8. n \in Nat /\ days \in [1..n -> T] /\ Len(days) = n /\ DOMAIN days = 1..n
  BY <1>7 DEF InOrder
<1>9. d \in T
  BY <1>1, <1>2 DEF Known, Over, Opening, Closing, BeforeOpen, Day
<1>10. PICK j \in 1..n : days[j] = d
  BY <1>7, <1>9 DEF InOrder
<1>11. {s \in T : s < d} = over
  <2>1. ASSUME NEW s \in Sessions
        PROVE  s \in over <=> s \in T /\ s < d
    <3>1. s \in Nat /\ (s \in over <=> Closing(s) <= BeforeOpen(d))
      BY <1>2 DEF Over
    <3>2. s \in over <=> s < d
      BY <1>2, <3>1 DEF Closing, BeforeOpen, Day
    <3>3. s < d => Closing(s) <= until /\ Opening(s) <= now
      BY <1>2, <3>1 DEF Closing, Opening, BeforeOpen, Day
    <3> QED BY <1>1, <3>2, <3>3 DEF Known, Over
  <2>2. over \subseteq Sessions
    BY DEF Over
  <2> QED BY <1>4, <2>1, <2>2
<1>12. j - 1 = Cardinality(over) /\ SubSeq(days, 1, j - 1) = Listed(over)
  <2>1. /\ Listed({s \in T : s < days[j]}) = SubSeq(days, 1, j - 1)
        /\ Cardinality({s \in T : s < days[j]}) = j - 1
    BY <1>3, <1>4, <1>7, ListedBegins
  <2>2. {s \in T : s < days[j]} = over
    BY <1>10, <1>11
  <2> QED BY <2>1, <2>2
<1>13. ASSUME j # 1
       PROVE  days[j - 1] \in over /\ \A s \in over : s <= days[j - 1]
  <2>1. j \in 2..n /\ j - 1 \in 1..n /\ j - 1 < j
    BY <1>8, <1>13
  <2>2. days[j - 1] \in T /\ days[j - 1] < d
    BY <1>7, <1>8, <1>10, <2>1 DEF InOrder
  <2>3. ASSUME NEW s \in over
        PROVE  s <= days[j - 1]
    BY <1>4, <1>7, <1>10, <1>11, <2>1, PlacesAdjoin
  <2> QED BY <1>11, <2>2, <2>3
<1> QED BY <1>8, <1>10, <1>12, <1>13

LEMMA StoredIsEvaluated ==
  ASSUME FInv, VInv, NEW b \in Backtests, NEW i \in Stored(b), NEW f, f = forecasts[i]
  PROVE  \E r \in Checked(b) :
           /\ r.day = DayOf(f.asOf) /\ r.var = f.var
           /\ f.realized # None =>
                r.realized = Return(close[f.lastClose.day], close[f.realized.day])
<1> DEFINE stored == {DayOf(forecasts[k].asOf) : k \in Stored(b)}
           d == DayOf(f.asOf)
           over == Over(BeforeOpen(d))
<1>1. Sound(f) /\ Built(f) /\ f.backtest # None
  BY ForecastConstants DEF Stored, FInv, VInv
<1>2. ASSUME NEW k \in Stored(b)
      PROVE  DayOf(forecasts[k].asOf) \in Sessions
  BY ForecastConstants DEF Stored, VInv, Built
<1>3. /\ d \in Sessions /\ Closing(d) < now /\ f.asOf = BeforeOpen(d)
      /\ Cardinality(over) > VarWindow
      /\ f.var = HistoricalVar(ReturnsOf(Listed(over)))
  BY <1>1 DEF Built
<1>4. LastDay \in Nat /\ stored \subseteq 0..LastDay /\ d \in stored
  BY <1>2, ForecastConstants
<1>5. PICK first, last : /\ first = Min(stored) /\ last = Max(stored)
                         /\ last \in Nat /\ first <= d /\ d <= last
  <2> HIDE DEF stored, d
  <2>1. stored \subseteq Nat
    BY <1>4
  <2>2. \E x \in stored : \A y \in stored : x <= y
    BY <1>4, <2>1, LeastOf
  <2>3. \E x \in stored : \A y \in stored : y <= x
    BY <1>4, GreatestOf
  <2>4. Min(stored) \in stored /\ \A y \in stored : Min(stored) <= y
    BY <2>2 DEF Min
  <2>5. Max(stored) \in stored /\ \A y \in stored : Max(stored) >= y
    BY <2>1, <2>3 DEF Max
  <2> QED BY <1>4, <2>1, <2>4, <2>5
<1>6. Checked(b) = Evaluated(first, last)
  <2>1. Checked(b) = IF stored = {} THEN {} ELSE Evaluated(Min(stored), Max(stored))
    BY DEF Checked
  <2> HIDE DEF stored, d
  <2>2. stored # {}
    BY <1>4
  <2> QED BY <1>5, <2>1, <2>2
<1>7. PICK days : days = DaysOf(GetRecentBars(BeforeOpen(last + 1)))
  OBVIOUS
<1>8. PICK j \in DOMAIN days :
           /\ days[j] = d
           /\ j - 1 = Cardinality(over) /\ SubSeq(days, 1, j - 1) = Listed(over)
           /\ j # 1 => days[j - 1] \in over /\ \A s \in over : s <= days[j - 1]
           /\ Len(days) \in Nat /\ DOMAIN days = 1..Len(days)
  <2> HIDE DEF d
  <2> QED BY <1>3, <1>5, <1>7, EvaluatedAlike
<1> HIDE DEF d, over
<1>9. j \in 2..Len(days) /\ j - 2 >= VarWindow /\ first <= days[j] /\ days[j] <= last
  BY <1>3, <1>5, <1>8, MathConstants
<1> DEFINE r == [day |-> days[j], var |-> HistoricalVar(ReturnsOf(ClosesBefore(days, j))),
                 realized |-> Return(close[days[j - 1]], close[days[j]])]
<1>10. r \in Checked(b)
  BY <1>6, <1>7, <1>9 DEF Evaluated
<1>11. r.day = d /\ r.var = f.var
  BY <1>3, <1>8 DEF ClosesBefore
<1>12. f.realized # None => f.realized.day = d
  BY <1>1 DEF Sound, d
<1>13. f.lastClose.day = days[j - 1]
  <2>1. f.lastClose.day \in over /\ \A s \in over : s <= f.lastClose.day
    BY <1>1, <1>3 DEF Sound, Over, over
  <2>2. days[j - 1] \in over /\ \A s \in over : s <= days[j - 1]
    BY <1>8, <1>9
  <2>3. \A s \in over : s \in Nat
    BY ForecastConstants DEF over, Over
  <2> QED BY <2>1, <2>2, <2>3
<1> QED BY <1>8, <1>10, <1>11, <1>12, <1>13 DEF d

\* Every forecast a backtest stored is found by the evaluation of its rows, with
\* the same VaR and the same realized return (evaluate_var.py, check_backtest).
THEOREM EvaluationsAgree == Spec => []EvaluationAgrees
<1>1. FInv /\ VInv => EvaluationAgrees
  BY StoredIsEvaluated DEF EvaluationAgrees
<1> QED BY <1>1, FInvInit, FInvNext, VInvInit, VInvNext, PTL DEF Spec
=============================================================================
