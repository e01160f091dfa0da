--------------------------- MODULE BacktestRun_proofs ---------------------------
(***************************************************************************)
(* Proofs about BacktestRun for every number of processes, days and        *)
(* symbols, every set of proposals and VaRs, and every fault, as long as   *)
(* nobody starts a second process while one is alive (~MayOverlap); what a *)
(* process spends beyond its cap is bounded even then.                     *)
(***************************************************************************)
EXTENDS BacktestRun, TradingFacts

\* No symbol is listed twice.
DistinctSymbols ==
  \A i, j \in DOMAIN SymbolSeq : SymbolSeq[i] = SymbolSeq[j] => i = j

InDay == {"decide", "record", "commit"}

\* At most one process writes to the backtest.
OneWriter ==
  \A p, q \in Procs : pc[p] \in Alive /\ pc[q] \in Alive => p = q

\* A command that would be let resume the backtest, its status apart.
Matches(c) == c \in Accepted /\ MustMatch(ConfigOf(c)) = MustMatch(config)

\* The row is RUNNING under a command that matches it, and untouched before it.
RowInv ==
  /\ \A p \in Procs : pc[p] \in Alive => status = "RUNNING" /\ Matches(mine[p])
  /\ status = "NONE" => runs = <<>> /\ resumes = <<>>
  /\ status = "SUCCESS" => Len(runs) = NDays

\* The committed days, and where the writer is relative to them.
DayInv ==
  /\ Len(runs) <= NDays
  /\ DaysOnceInOrder
  /\ WholeDays
  /\ \A i \in DOMAIN runs : Matches(runs[i].by)
  /\ \A p \in Procs :
       /\ pc[p] = "idle" => day[p] = 1
       /\ pc[p] \in Working \cup {"finish"} => day[p] = Len(runs) + 1
       /\ pc[p] \in InDay => day[p] <= NDays
       /\ pc[p] = "finish" => day[p] = NDays + 1

\* The open day, were it committed now, keeps the cap; the symbols still to
\* come are untouched by it, so what the risk node reads of them is exact.
OpenDay(p) ==
  /\ pc[p] \in InDay =>
       \A s \in Symbols : held[s] + delta[p][s] \in 0..MaxPositionQty
  /\ pc[p] \in {"decide", "record"} =>
       \A j \in sym[p]..Len(SymbolSeq) : delta[p][SymbolSeq[j]] = 0
  /\ pc[p] = "record" => seen[p] = held[SymbolSeq[sym[p]]]

PositionInv == PositionWithinCap /\ \A p \in Procs : OpenDay(p)

\* The resumes tell the code of every day, the writer's next one included.
CodeInv ==
  /\ \A k \in DOMAIN resumes : resumes[k].after <= Len(runs)
  /\ \A p \in Procs : pc[p] \in Alive => mine[p].code = CodeAt(Len(runs) + 1)
  /\ CodeRecorded

IInv == TypeOK /\ OneWriter /\ RowInv /\ DayInv /\ CodeInv /\ PositionInv

-----------------------------------------------------------------------------
\* With the days in order, max(as_of) is the number of days.
LEMMA LastDoneIsLength ==
  ASSUME TypeOK, DaysOnceInOrder
  PROVE  LastDone = Len(runs)
<1>1. CASE runs = <<>>
  BY <1>1 DEF LastDone
<1>2. CASE runs # <<>>
  <2>1. /\ DOMAIN runs = 1..Len(runs)
        /\ Len(runs) \in Nat \ {0}
    BY <1>2 DEF TypeOK
  <2> DEFINE done == {runs[i].day : i \in DOMAIN runs}
             isLast(d) == \A i \in DOMAIN runs : runs[i].day <= d
  <2>2. done = 1..Len(runs)
    BY <2>1 DEF DaysOnceInOrder
  <2>3. Len(runs) \in done /\ isLast(Len(runs))
    BY <2>1, <2>2 DEF DaysOnceInOrder
  <2> HIDE DEF done
  <2>4. ASSUME NEW d \in done, isLast(d) PROVE d = Len(runs)
    <3>1. runs[Len(runs)].day = Len(runs)
      BY <2>1 DEF DaysOnceInOrder
    <3>2. Len(runs) <= d
      BY <2>1, <2>4, <3>1
    <3>3. d \in 1..Len(runs)
      BY <2>2
    <3>4. Len(runs) \in Nat
      BY <2>1
    <3> QED
      BY <3>2, <3>3, <3>4
  <2>5. LastDone = CHOOSE d \in done : isLast(d)
    BY <1>2 DEF LastDone, done
  <2> QED
    BY <2>3, <2>4, <2>5
<1> QED
  BY <1>1, <1>2

LEMMA SymbolFacts ==
  /\ DOMAIN SymbolSeq = 1..Len(SymbolSeq)
  /\ Len(SymbolSeq) \in Nat \ {0}
  /\ \A i \in 1..Len(SymbolSeq) : SymbolSeq[i] \in Symbols
BY BacktestConstants DEF Symbols

LEMMA CostsAreNatural == \A c : CostsOf(c) \subseteq Nat
BY BacktestConstants DEF CostsOf

LEMMA MayProposeType == \A c \in Accepted : MayPropose(c) \subseteq Proposal
<1> SUFFICES ASSUME NEW c \in Accepted PROVE MayPropose(c) \subseteq Proposal
  OBVIOUS
<1>1. DryProposal(c) \in Proposal
  <2>1. c.dryPm \in {"HOLD", "BUY"}
    BY BacktestConstants DEF Accepted, Command
  <2> QED
    BY <2>1 DEF DryProposal, Proposal, Trades
<1> QED
  BY <1>1, BacktestConstants DEF MayPropose

LEMMA InitIInv == Init => IInv
<1> SUFFICES ASSUME Init PROVE IInv
  OBVIOUS
<1> USE BacktestConstants, RiskConstants, SymbolFacts DEF Init
<1>1. TypeOK
  BY DEF TypeOK, Statuses, PCs, NoChange
<1>2. OneWriter /\ RowInv
  BY DEF OneWriter, RowInv, Alive, Working, Stopping
<1>3. DayInv
  BY DEF DayInv, DaysOnceInOrder, WholeDays, Matches, InDay, Working
<1>4. PositionInv
  BY DEF PositionInv, OpenDay, PositionWithinCap, InDay, NoChange
<1>5. CodeInv
  BY DEF CodeInv, CodeRecorded, Alive, Working, Stopping
<1> QED
  BY <1>1, <1>2, <1>3, <1>4, <1>5 DEF IInv

-----------------------------------------------------------------------------
\* The code of the days is told by columns that only starting a process and
\* committing a day write.
LEMMA CodeKept ==
  ASSUME CodeInv, UNCHANGED <<config, resumes, runs, mine>>,
         \A q \in Procs : pc'[q] \in Alive => pc[q] \in Alive
  PROVE  CodeInv'
<1>1. \A i : CodeAt(i)' = CodeAt(i)
  BY DEF CodeAt
<1> QED
  BY <1>1 DEF CodeInv, CodeRecorded

\* Starting a process: the only step at which a second writer could appear.
LEMMA CreateStep ==
  ASSUME ~MayOverlap, IInv, NEW p \in Procs, Create(p)
  PROVE  IInv'
<1>0. PICK c \in Accepted : config' = ConfigOf(c) /\ mine' = [mine EXCEPT ![p] = c]
  BY DEF Create
<1>1. TypeOK'
  <2> USE DEF IInv, TypeOK, Create
  <2>2. status' \in Statuses /\ pc' \in [Procs -> PCs]
    BY DEF Statuses, PCs, Alive, Working
  <2>3. /\ config' \in {ConfigOf(d) : d \in Accepted} \cup {NoConfig}
        /\ mine' \in [Procs -> Accepted \cup {NoCommand}]
    BY <1>0
  <2> QED
    BY <2>2, <2>3 DEF committed, dayWork, spending
<1>2. OneWriter' /\ RowInv'
  <2>1. /\ pc \in [Procs -> PCs]
        /\ \A q \in Procs : pc[q] \notin Alive
        /\ pc' = [pc EXCEPT ![p] = "loop"]
        /\ status' = "RUNNING" /\ runs' = runs
    BY DEF IInv, TypeOK, Create, MayStart, committed
  <2>2. mine'[p] = c /\ Matches(c)'
    BY <1>0 DEF IInv, TypeOK, Matches
  <2> QED
    BY <2>1, <2>2 DEF OneWriter, RowInv
<1>3. DayInv'
  <2>1. /\ pc \in [Procs -> PCs] /\ pc[p] = "idle"
        /\ \A q \in Procs : pc[q] \notin Alive
        /\ pc' = [pc EXCEPT ![p] = "loop"]
        /\ runs = <<>> /\ runs' = runs /\ day' = day
        /\ \A q \in Procs : pc[q] = "idle" => day[q] = 1
    BY DEF IInv, TypeOK, Create, MayStart, RowInv, DayInv, committed
  <2> QED
    BY <2>1, BacktestConstants DEF DayInv, DaysOnceInOrder, WholeDays, Matches, Alive, Working, Stopping, InDay
<1>4. PositionInv'
  BY DEF IInv, TypeOK, PositionInv, OpenDay, PositionWithinCap, Create, committed, dayWork, InDay, Symbol
<1>5. CodeInv'
  <2>1. /\ runs = <<>> /\ resumes = <<>> /\ runs' = runs /\ resumes' = resumes
        /\ \A q \in Procs : pc'[q] \in Alive => q = p
        /\ mine'[p] = c
    BY <1>0 DEF IInv, TypeOK, Create, MayStart, RowInv, committed
  <2>2. config'.code = c.code
    BY <1>0 DEF ConfigOf
  <2>3. \A i : CodeAt(i)' = c.code
    BY <2>1, <2>2 DEF CodeAt
  <2> QED
    BY <2>1, <2>3 DEF CodeInv, CodeRecorded
<1> QED
  BY <1>1, <1>2, <1>3, <1>4, <1>5 DEF IInv

LEMMA ResumeStep ==
  ASSUME ~MayOverlap, IInv, NEW p \in Procs, Resume(p)
  PROVE  IInv'
<1> DEFINE n == Len(runs)
<1>1. /\ pc \in [Procs -> PCs] /\ pc[p] = "idle"
      /\ \A q \in Procs : pc[q] \notin Alive
      /\ pc' = [pc EXCEPT ![p] = "loop"]
      /\ status' = "RUNNING" /\ config' = config
      /\ UNCHANGED <<runs, held, llmUsage, sym, seen, delta, spent, burnt, before>>
  BY DEF IInv, TypeOK, Resume, MayStart, committed, dayWork, spending
<1>2. n \in 0..NDays /\ LastDone = n
  BY LastDoneIsLength, BacktestConstants DEF IInv, TypeOK, DayInv
<1>3. /\ first' = [first EXCEPT ![p] = n + 1]
      /\ day' = [day EXCEPT ![p] = n + 1]
  BY <1>2 DEF Resume
<1> DEFINE note(c) == [after |-> n, usageBefore |-> llmUsage, code |-> c.code]
<1>0. PICK c \in Accepted : /\ resumes' = Append(resumes, note(c))
                           /\ mine' = [mine EXCEPT ![p] = c]
                           /\ Matches(c)
  BY <1>2 DEF Resume, Resumable, Matches, ResumeNote
<1>4. TypeOK'
  <2> HIDE DEF n
  <2>1. first' \in [Procs -> 1..NDays + 1] /\ day' \in [Procs -> 1..NDays + 1]
    BY <1>2, <1>3, BacktestConstants DEF IInv, TypeOK
  <2>2. resumes' \in Seq(ResumeEntry)
    <3>1. note(c) \in ResumeEntry
      BY <1>2, BacktestConstants DEF IInv, TypeOK, ResumeEntry, Accepted, Command
    <3> QED
      BY <3>1, <1>0 DEF IInv, TypeOK
  <2>3. status' \in Statuses /\ pc' \in [Procs -> PCs]
    BY <1>1 DEF Statuses, PCs, Alive, Working
  <2>4. mine' \in [Procs -> Accepted \cup {NoCommand}]
    BY <1>0 DEF IInv, TypeOK
  <2> QED
    BY <1>1, <2>1, <2>2, <2>3, <2>4 DEF IInv, TypeOK
<1>5. OneWriter' /\ RowInv'
  <2>1. mine'[p] = c /\ Matches(c)'
    BY <1>0, <1>1 DEF IInv, TypeOK, Matches
  <2> QED
    BY <1>1, <2>1 DEF OneWriter, RowInv
<1>6. DayInv'
  <2>1. day \in [Procs -> 1..NDays + 1] /\ day'[p] = n + 1
    BY <1>3 DEF IInv, TypeOK
  <2>2. \A q \in Procs : q # p => day'[q] = day[q] /\ pc'[q] = pc[q]
    BY <1>1, <1>3, <2>1
  <2> QED
    BY <1>1, <2>1, <2>2
    DEF IInv, DayInv, DaysOnceInOrder, WholeDays, Matches, Alive, Working, Stopping, InDay
<1>7. PositionInv'
  BY <1>1 DEF IInv, PositionInv, OpenDay, PositionWithinCap, InDay, Symbol
<1>8. CodeInv'
  <2> DEFINE m == Len(resumes) + 1
  <2>1. /\ DOMAIN resumes' = 1..m /\ DOMAIN resumes = 1..(m - 1) /\ m \in Nat \ {0}
        /\ resumes'[m] = note(c)
        /\ \A k \in 1..(m - 1) : resumes'[k] = resumes[k]
    BY <1>0 DEF IInv, TypeOK
  <2> HIDE DEF m
  <2>2. CodeAt(n + 1)' = c.code
    <3> DEFINE earlier == {k \in DOMAIN resumes' : resumes'[k].after < n + 1}
    <3>1. m \in earlier /\ \A j \in earlier : j <= m
      BY <1>2, <2>1
    <3>2. \A k \in earlier : (\A j \in earlier : j <= k) => k = m
      BY <2>1, <3>1
    <3>3. (CHOOSE k \in earlier : \A j \in earlier : j <= k) = m
      <4> HIDE DEF earlier
      <4> QED
        BY <3>1, <3>2
    <3>4. resumes'[m].code = c.code
      BY <2>1
    <3>5. CodeAt(n + 1)' = resumes'[CHOOSE k \in earlier : \A j \in earlier : j <= k].code
      BY <1>1, <3>1 DEF CodeAt
    <3> QED
      BY <3>3, <3>4, <3>5
  <2>3. \A i \in 1..n : CodeAt(i)' = CodeAt(i)
    <3>1. SUFFICES ASSUME NEW i \in 1..n PROVE CodeAt(i)' = CodeAt(i)
      OBVIOUS
    <3> DEFINE earlier == {k \in DOMAIN resumes : resumes[k].after < i}
    <3>2. {k \in DOMAIN resumes' : resumes'[k].after < i} = earlier
      BY <1>2, <2>1
    <3>3. \A k \in earlier : resumes'[k] = resumes[k]
      BY <2>1
    <3>4. earlier # {} => (CHOOSE k \in earlier : \A j \in earlier : j <= k) \in earlier
      <4>1. ASSUME earlier # {} PROVE \E k \in earlier : \A j \in earlier : j <= k
        <5>1. earlier \subseteq 0..(m - 1) /\ m - 1 \in Nat
          BY <2>1
        <5> HIDE DEF earlier
        <5> QED
          BY <4>1, <5>1, GreatestOf
      <4> HIDE DEF earlier
      <4> QED
        BY <4>1
    <3> DEFINE last == CHOOSE k \in earlier : \A j \in earlier : j <= k
    <3>5. CodeAt(i) = IF earlier = {} THEN config.code ELSE resumes[last].code
      BY DEF CodeAt
    <3>6. CodeAt(i)' = IF earlier = {} THEN config.code ELSE resumes'[last].code
      <4> DEFINE later == {k \in DOMAIN resumes' : resumes'[k].after < i}
      <4>1. CodeAt(i)' = IF later = {} THEN config'.code
                         ELSE resumes'[CHOOSE k \in later : \A j \in later : j <= k].code
        BY DEF CodeAt
      <4>2. later = earlier
        BY <3>2
      <4> HIDE DEF later, earlier
      <4> QED
        BY <1>1, <4>1, <4>2
    <3> HIDE DEF earlier, last
    <3>7. earlier # {} => resumes'[last] = resumes[last]
      BY <3>3, <3>4 DEF last
    <3> QED
      BY <3>5, <3>6, <3>7
  <2>4. \A k \in DOMAIN resumes' : resumes'[k].after <= n
    BY <1>2, <2>1 DEF IInv, CodeInv
  <2>5. \A q \in Procs : pc'[q] \in Alive => q = p
    BY <1>1
  <2>6. mine'[p].code = c.code
    BY <1>0 DEF IInv, TypeOK
  <2>7. DOMAIN runs = 1..n
    BY DEF IInv, TypeOK
  <2> QED
    BY <1>1, <2>2, <2>3, <2>4, <2>5, <2>6, <2>7 DEF IInv, CodeInv, CodeRecorded
<1> QED
  BY <1>4, <1>5, <1>6, <1>7, <1>8 DEF IInv

LEMMA RefuseStep ==
  ASSUME IInv, NEW p \in Procs, RefuseResume(p)
  PROVE  IInv'
<1>1. /\ pc \in [Procs -> PCs] /\ pc[p] = "idle"
      /\ pc' = [pc EXCEPT ![p] = "ended"]
      /\ UNCHANGED <<status, config, llmUsage, resumes, runs, held, mine, first, day,
                     sym, seen, delta, spent, before, burnt>>
  BY DEF IInv, TypeOK, RefuseResume, backtestRow, committed, plan, dayWork, spending
<1>2. TypeOK'
  BY <1>1 DEF IInv, TypeOK, PCs
<1>3. OneWriter' /\ RowInv'
  BY <1>1 DEF IInv, OneWriter, RowInv, Matches, Alive, Working, Stopping
<1>4. DayInv'
  BY <1>1 DEF IInv, DayInv, DaysOnceInOrder, WholeDays, Matches, Working, InDay
<1>5. PositionInv'
  BY <1>1 DEF IInv, PositionInv, OpenDay, PositionWithinCap, InDay, Symbol
<1>6. CodeInv'
  BY <1>1, CodeKept DEF IInv, Alive, Working, Stopping
<1> QED
  BY <1>2, <1>3, <1>4, <1>5, <1>6 DEF IInv

\* Leaving the day loop, whatever the reason, drops the open day and moves
\* nothing but the process itself.
LEMMA LeaveStep ==
  ASSUME IInv, NEW p \in Procs, pc[p] \in Alive,
         NEW to \in {"capped", "failing", "marking", "finish", "ended"},
         to = "finish" => pc[p] = "loop" /\ day[p] > NDays,
         pc' = [pc EXCEPT ![p] = to],
         UNCHANGED <<status, config, llmUsage, resumes, runs, held, mine, first, day,
                     sym, seen, delta, spent, burnt>>,
         before' \in [Procs -> Nat]
  PROVE  IInv'
<1>1. pc \in [Procs -> PCs] /\ day[p] \in 1..NDays + 1 /\ NDays \in Nat
  BY BacktestConstants DEF IInv, TypeOK
<1>2. TypeOK'
  BY DEF IInv, TypeOK, PCs, Alive, Stopping
<1>3. OneWriter' /\ RowInv'
  BY <1>1 DEF IInv, OneWriter, RowInv, Matches, Alive, Working, Stopping
<1>4. DayInv'
  BY <1>1 DEF IInv, DayInv, DaysOnceInOrder, WholeDays, Matches, Working, InDay
<1>5. PositionInv'
  BY <1>1 DEF IInv, PositionInv, OpenDay, PositionWithinCap, InDay, Symbol
<1>6. CodeInv'
  BY <1>1, CodeKept DEF IInv
<1> QED
  BY <1>2, <1>3, <1>4, <1>5, <1>6 DEF IInv

\* Settling the row: SUCCESS only when every day is in.
LEMMA SettleStep ==
  ASSUME IInv, NEW p \in Procs,
         NEW outcome \in {"SUCCESS", "FAILED"},
         outcome = "SUCCESS" => pc[p] = "finish",
         outcome = "FAILED" => pc[p] = "marking",
         SettleRow(p, outcome),
         pc' = [pc EXCEPT ![p] = "ended"],
         UNCHANGED <<config, resumes, runs, held, mine, first, day, sym, seen, delta,
                     spent, burnt, before>>
  PROVE  IInv'
<1>1. pc \in [Procs -> PCs] /\ pc[p] \in Alive
  BY DEF IInv, TypeOK, Alive, Stopping
<1>2. status = "RUNNING"
  BY <1>1 DEF IInv, RowInv
<1>3. status' = outcome /\ llmUsage' = before[p] + spent[p]
  BY <1>2 DEF SettleRow
<1>4. TypeOK'
  <2>1. llmUsage' \in Nat
    BY <1>3 DEF IInv, TypeOK
  <2> QED
    BY <1>1, <1>3, <2>1 DEF IInv, TypeOK, PCs, Statuses
<1>5. \A q \in Procs : pc'[q] \notin Alive
  BY <1>1 DEF IInv, OneWriter, Alive, Working, Stopping
<1>6. OneWriter' /\ RowInv'
  <2>1. outcome = "SUCCESS" => Len(runs) = NDays
    <3>1. pc[p] = "finish" => day[p] = Len(runs) + 1 /\ day[p] = NDays + 1
      BY DEF IInv, DayInv
    <3>2. Len(runs) \in Nat /\ NDays \in Nat
      BY BacktestConstants DEF IInv, TypeOK
    <3> QED
      BY <3>1, <3>2
  <2>2. status' # "NONE" /\ runs' = runs
    BY <1>2, <1>3
  <2> QED
    BY <1>3, <1>5, <2>1, <2>2 DEF OneWriter, RowInv
<1>7. DayInv'
  BY <1>1 DEF IInv, DayInv, DaysOnceInOrder, WholeDays, Matches, Working, InDay
<1>8. PositionInv'
  BY <1>1 DEF IInv, PositionInv, OpenDay, PositionWithinCap, InDay, Symbol
<1>9. CodeInv'
  BY <1>1, <1>5, CodeKept DEF IInv
<1> QED
  BY <1>4, <1>6, <1>7, <1>8, <1>9 DEF IInv

\* What is common to the steps inside a day: one process moves on, and the
\* database does not change.
LEMMA InsideDay ==
  ASSUME IInv, NEW p \in Procs, pc[p] \in Working,
         NEW to \in InDay, day[p] <= NDays,
         pc' = [pc EXCEPT ![p] = to],
         UNCHANGED <<status, config, resumes, runs, mine, day>>
  PROVE  OneWriter' /\ RowInv' /\ DayInv' /\ CodeInv'
<1>1. pc \in [Procs -> PCs]
  BY DEF IInv, TypeOK
<1>2. OneWriter' /\ RowInv'
  BY <1>1 DEF IInv, OneWriter, RowInv, Matches, Alive, Working, Stopping, InDay
<1>3. DayInv'
  BY <1>1 DEF IInv, DayInv, DaysOnceInOrder, WholeDays, Matches, Working, InDay
<1>4. CodeInv'
  BY <1>1, CodeKept DEF IInv, Alive
<1> QED
  BY <1>2, <1>3, <1>4

LEMMA BeginDayStep ==
  ASSUME IInv, NEW p \in Procs, BeginDay(p)
  PROVE  IInv'
<1>1. /\ pc \in [Procs -> PCs] /\ pc[p] = "loop" /\ day[p] <= NDays
      /\ pc' = [pc EXCEPT ![p] = "decide"]
      /\ sym' = [sym EXCEPT ![p] = 1]
      /\ delta' = [delta EXCEPT ![p] = NoChange]
      /\ UNCHANGED <<status, config, llmUsage, resumes, runs, held, mine, first, day,
                     seen, spent, before, burnt>>
  BY DEF IInv, TypeOK, BeginDay, backtestRow, committed, plan, spending
<1>2. TypeOK'
  <2>1. 1 \in DOMAIN SymbolSeq /\ NoChange \in [Symbols -> Int]
    BY SymbolFacts DEF NoChange
  <2> QED
    BY <1>1, <2>1 DEF IInv, TypeOK, PCs, Alive, Working
<1>3. OneWriter' /\ RowInv' /\ DayInv' /\ CodeInv'
  BY <1>1, InsideDay DEF Working, InDay
<1>4. PositionInv'
  <2>1. delta'[p] = NoChange
    BY <1>1 DEF IInv, TypeOK
  <2>2. \A s \in Symbols : held[s] + NoChange[s] \in 0..MaxPositionQty
    BY RiskConstants DEF IInv, PositionInv, OpenDay, PositionWithinCap, TypeOK, NoChange
  <2>3. \A j \in 1..Len(SymbolSeq) : NoChange[SymbolSeq[j]] = 0
    BY SymbolFacts DEF NoChange
  <2>4. sym'[p] = 1
    BY <1>1 DEF IInv, TypeOK
  <2>5. \A q \in Procs : q # p => pc'[q] = pc[q] /\ delta'[q] = delta[q] /\ sym'[q] = sym[q]
    BY <1>1 DEF IInv, TypeOK
  <2>6. pc'[p] = "decide"
    BY <1>1
  <2>7. PositionWithinCap'
    BY <1>1 DEF IInv, PositionInv, OpenDay, PositionWithinCap
  <2> QED
    BY <1>1, <2>1, <2>2, <2>3, <2>4, <2>5, <2>6, <2>7 DEF IInv, PositionInv, OpenDay, Symbol
<1> QED
  BY <1>2, <1>3, <1>4 DEF IInv

LEMMA DecideStep ==
  ASSUME IInv, NEW p \in Procs, Decide(p)
  PROVE  IInv'
<1>1. /\ pc \in [Procs -> PCs] /\ pc[p] = "decide"
      /\ pc' = [pc EXCEPT ![p] = "record"]
      /\ seen' = [seen EXCEPT ![p] = held[Symbol(p)]]
      /\ UNCHANGED <<status, config, llmUsage, resumes, runs, held, mine, first, day,
                     sym, delta, before>>
  BY DEF IInv, TypeOK, Decide, PositionSeen, backtestRow, committed, plan
<1>2. day[p] <= NDays
  BY <1>1 DEF IInv, DayInv, InDay
<1>3. TypeOK'
  <2>1. PICK cost \in Nat : /\ spent' = [spent EXCEPT ![p] = @ + cost]
                            /\ burnt' = burnt + cost
    BY CostsAreNatural DEF Decide
  <2>2. spent' \in [Procs -> Nat] /\ burnt' \in Nat
    BY <2>1 DEF IInv, TypeOK
  <2>3. held[Symbol(p)] \in Int
    BY SymbolFacts DEF IInv, TypeOK, Symbol
  <2>4. seen' \in [Procs -> Int]
    BY <1>1, <2>3 DEF IInv, TypeOK
  <2> QED
    BY <1>1, <2>2, <2>4 DEF IInv, TypeOK, PCs, Alive, Working
<1>4. OneWriter' /\ RowInv' /\ DayInv' /\ CodeInv'
  BY <1>1, <1>2, InsideDay DEF Working, InDay
<1>5. PositionInv'
  <2>1. seen'[p] = held[Symbol(p)]
    BY <1>1 DEF IInv, TypeOK
  <2>2. \A q \in Procs : q # p => pc'[q] = pc[q] /\ seen'[q] = seen[q]
    BY <1>1 DEF IInv, TypeOK
  <2> QED
    BY <1>1, <2>1, <2>2 DEF IInv, PositionInv, OpenDay, PositionWithinCap, Symbol, InDay
<1> QED
  BY <1>3, <1>4, <1>5 DEF IInv

\* The heart of the cap: the fill starts from the very position the risk node
\* was shown, because the symbol is touched only once in a day.
LEMMA RecordDecisionStep ==
  ASSUME DistinctSymbols, IInv, NEW p \in Procs, RecordDecision(p)
  PROVE  IInv'
<1> DEFINE s0 == Symbol(p)
<1>1. /\ pc \in [Procs -> PCs] /\ pc[p] = "record"
      /\ UNCHANGED <<status, config, llmUsage, resumes, runs, held, mine, first, day,
                     seen, spent, before, burnt>>
  BY DEF IInv, TypeOK, RecordDecision, backtestRow, committed, plan, spending
<1>2. PICK t \in MayPropose(mine[p]), var \in Vars, priced \in BOOLEAN :
        delta' = [delta EXCEPT ![p][Symbol(p)] =
                    @ + TradedShares(Gate(t, seen[p], var), priced)]
  BY Zenon DEF RecordDecision
<1> DEFINE ruling == Gate(t, seen[p], var)
           traded == TradedShares(ruling, priced)
<1>3. /\ sym[p] \in 1..Len(SymbolSeq) /\ s0 \in Symbols
      /\ delta \in [Procs -> [Symbols -> Int]]
      /\ held \in [Symbols -> Int]
  BY SymbolFacts DEF IInv, TypeOK, Symbol
<1>4. /\ held[s0] \in 0..MaxPositionQty
      /\ seen[p] = held[s0]
      /\ \A j \in sym[p]..Len(SymbolSeq) : delta[p][SymbolSeq[j]] = 0
      /\ \A s \in Symbols : held[s] + delta[p][s] \in 0..MaxPositionQty
  <2>1. OpenDay(p) /\ PositionWithinCap
    BY DEF IInv, PositionInv
  <2> QED
    BY <1>1, <1>3, <2>1 DEF OpenDay, PositionWithinCap, InDay, Symbol
<1>5. delta[p][s0] = 0
  <2>1. sym[p] \in sym[p]..Len(SymbolSeq)
    BY <1>3, SymbolFacts
  <2>2. delta[p][SymbolSeq[sym[p]]] = 0
    BY <1>4, <2>1
  <2> QED
    BY <2>2 DEF Symbol
<1>6. traded \in Int /\ held[s0] + traded \in 0..MaxPositionQty
  <2>1. t \in Proposal /\ var \in Int \cup {NoVar}
    <3>1. mine[p] \in Accepted
      BY <1>1 DEF IInv, RowInv, Matches, Alive, Working
    <3> QED
      BY <3>1, BacktestConstants, MayProposeType
  <2>2. seen[p] \in 0..MaxPositionQty /\ seen[p] \in Int
    BY <1>4, RiskConstants
  <2>3. ruling \in Ruling
    BY <2>1, <2>2, GateType
  <2>4. LedgerAfter(seen[p], ruling.action, ruling.qty) \in 0..MaxPositionQty
    BY <2>1, <2>2, GateKeepsCap
  <2>5. LedgerAfter(seen[p], ruling.action, ruling.qty)
          = seen[p] + LedgerAfter(0, ruling.action, ruling.qty)
    BY <2>2, <2>3, LedgerAfterAdds
  <2>6. LedgerAfter(0, ruling.action, ruling.qty) \in Int
    BY <2>3, LedgerAfterType
  <2> HIDE DEF ruling
  <2> QED
    BY <1>4, <2>2, <2>4, <2>5, <2>6, RiskConstants DEF TradedShares
<1> HIDE DEF traded
<1>7. /\ delta'[p] = [delta[p] EXCEPT ![s0] = traded]
      /\ delta' \in [Procs -> [Symbols -> Int]]
      /\ \A q \in Procs : q # p => delta'[q] = delta[q]
  <2>1. delta[p] \in [Symbols -> Int]
    BY <1>3
  <2>2. delta' = [delta EXCEPT ![p] = [delta[p] EXCEPT ![s0] = delta[p][s0] + traded]]
    BY <1>2, <1>3 DEF traded
  <2>3. delta[p][s0] + traded = traded
    BY <1>5, <1>6
  <2> QED
    BY <1>3, <1>6, <2>1, <2>2, <2>3
<1>8. \A s \in Symbols : held[s] + delta'[p][s] \in 0..MaxPositionQty
  BY <1>3, <1>4, <1>6, <1>7
<1>9. day[p] <= NDays
  BY <1>1 DEF IInv, DayInv, InDay
<1>10. CASE sym[p] < Len(SymbolSeq)
  <2>1. pc' = [pc EXCEPT ![p] = "decide"] /\ sym' = [sym EXCEPT ![p] = sym[p] + 1]
    BY <1>10 DEF RecordDecision
  <2>2. sym[p] + 1 \in 1..Len(SymbolSeq) /\ sym \in [Procs -> 1..Len(SymbolSeq)]
    <3>1. sym \in [Procs -> 1..Len(SymbolSeq)]
      BY SymbolFacts DEF IInv, TypeOK
    <3> QED
      BY <1>10, <3>1, SymbolFacts
  <2>3. TypeOK'
    BY <1>1, <1>7, <2>1, <2>2, SymbolFacts DEF IInv, TypeOK, PCs, Alive, Working
  <2>4. OneWriter' /\ RowInv' /\ DayInv' /\ CodeInv'
    BY <1>1, <1>9, <2>1, InsideDay DEF Working, InDay
  <2>5. \A j \in (sym[p] + 1)..Len(SymbolSeq) : delta'[p][SymbolSeq[j]] = 0
    <3>1. SUFFICES ASSUME NEW j \in (sym[p] + 1)..Len(SymbolSeq)
                   PROVE  delta'[p][SymbolSeq[j]] = 0
      OBVIOUS
    <3>2. j \in sym[p]..Len(SymbolSeq) /\ j # sym[p] /\ j \in 1..Len(SymbolSeq)
      BY <1>3, SymbolFacts
    <3>3. SymbolSeq[j] # s0
      BY <1>3, <3>2, SymbolFacts DEF DistinctSymbols, Symbol
    <3>4. SymbolSeq[j] \in Symbols
      BY <3>2, SymbolFacts
    <3> QED
      BY <1>3, <1>4, <1>7, <3>2, <3>3, <3>4
  <2>6. sym'[p] = sym[p] + 1 /\ pc'[p] = "decide"
    BY <1>1, <2>1, <2>2
  <2>7. \A q \in Procs : q # p => pc'[q] = pc[q] /\ sym'[q] = sym[q]
    BY <1>1, <2>1, <2>2
  <2>8. OpenDay(p)'
    BY <1>1, <1>8, <2>5, <2>6 DEF OpenDay, InDay
  <2>9. ASSUME NEW q \in Procs, q # p PROVE OpenDay(q)'
    <3>1. pc'[q] = pc[q] /\ sym'[q] = sym[q] /\ delta'[q] = delta[q]
      BY <1>7, <2>7, <2>9
    <3> QED
      BY <1>1, <3>1 DEF IInv, PositionInv, OpenDay
  <2>10. PositionWithinCap'
    BY <1>1 DEF IInv, PositionInv, PositionWithinCap
  <2>11. PositionInv'
    BY <2>8, <2>9, <2>10 DEF PositionInv
  <2> QED
    BY <2>3, <2>4, <2>11 DEF IInv
<1>11. CASE ~(sym[p] < Len(SymbolSeq))
  <2>1. pc' = [pc EXCEPT ![p] = "commit"] /\ sym' = sym
    BY <1>11 DEF RecordDecision
  <2>2. TypeOK'
    BY <1>1, <1>7, <2>1 DEF IInv, TypeOK, PCs, Alive, Working
  <2>3. OneWriter' /\ RowInv' /\ DayInv' /\ CodeInv'
    BY <1>1, <1>9, <2>1, InsideDay DEF Working, InDay
  <2>4. OpenDay(p)'
    BY <1>1, <1>8, <2>1 DEF OpenDay, InDay
  <2>5. ASSUME NEW q \in Procs, q # p PROVE OpenDay(q)'
    <3>1. pc'[q] = pc[q] /\ sym'[q] = sym[q] /\ delta'[q] = delta[q]
      BY <1>1, <1>7, <2>1, <2>5
    <3> QED
      BY <1>1, <3>1 DEF IInv, PositionInv, OpenDay
  <2>6. PositionWithinCap'
    BY <1>1 DEF IInv, PositionInv, PositionWithinCap
  <2>7. PositionInv'
    BY <2>4, <2>5, <2>6 DEF PositionInv
  <2> QED
    BY <2>2, <2>3, <2>7 DEF IInv
<1> QED
  BY <1>10, <1>11

\* Committing a day appends the one day that was missing.
LEMMA CommitDayStep ==
  ASSUME IInv, NEW p \in Procs, CommitDay(p)
  PROVE  IInv'
<1> DEFINE row == [day |-> day[p], by |-> mine[p], status |-> "SUCCESS"]
           n   == Len(runs)
<1>1. /\ pc \in [Procs -> PCs] /\ pc[p] = "commit"
      /\ runs' = Append(runs, row)
      /\ held' = [s \in Symbols |-> held[s] + delta[p][s]]
      /\ day' = [day EXCEPT ![p] = day[p] + 1]
      /\ pc' = [pc EXCEPT ![p] = "loop"]
      /\ UNCHANGED <<status, config, llmUsage, resumes, mine, first, sym, seen, delta,
                     spent, before, burnt>>
  BY DEF IInv, TypeOK, CommitDay, backtestRow, plan, dayWork, spending
<1>2. /\ pc[p] \in Alive /\ status = "RUNNING" /\ Matches(mine[p])
      /\ day[p] = n + 1 /\ day[p] <= NDays
      /\ n \in Nat /\ NDays \in Nat
      /\ \A q \in Procs : q # p => pc[q] \notin Alive
  BY <1>1, BacktestConstants
  DEF IInv, TypeOK, OneWriter, RowInv, DayInv, Alive, Working, InDay
<1>3. row \in RunRow
  BY <1>2 DEF IInv, TypeOK, RunRow, Matches
<1>4. /\ runs' \in Seq(RunRow) /\ Len(runs') = n + 1
      /\ \A i \in 1..n : runs'[i] = runs[i]
      /\ runs'[n + 1] = row
      /\ DOMAIN runs' = 1..(n + 1) /\ DOMAIN runs = 1..n
  BY <1>1, <1>3 DEF IInv, TypeOK
<1>5. TypeOK'
  <2>1. held' \in [Symbols -> Int]
    BY <1>1 DEF IInv, TypeOK
  <2>2. day' \in [Procs -> 1..NDays + 1]
    BY <1>1, <1>2 DEF IInv, TypeOK
  <2> HIDE DEF row
  <2> QED
    BY <1>1, <1>4, <2>1, <2>2 DEF IInv, TypeOK, PCs, Alive, Working
<1>6. OneWriter' /\ RowInv'
  BY <1>1, <1>2 DEF IInv, OneWriter, RowInv, Matches, Alive, Working, Stopping
<1>7. DayInv'
  <2>1. day'[p] = n + 2
    BY <1>1, <1>2 DEF IInv, TypeOK
  <2>2. \A q \in Procs : q # p => day'[q] = day[q] /\ pc'[q] = pc[q] /\ pc[q] \notin Alive
    BY <1>1, <1>2 DEF IInv, TypeOK
  <2>3. DaysOnceInOrder' /\ WholeDays' /\ (\A i \in DOMAIN runs : Matches(runs[i].by))'
    <3>1. row.day = n + 1 /\ row.status = "SUCCESS" /\ row.by = mine[p]
      BY <1>2
    <3>2. \A i \in 1..(n + 1) : i \in 1..n \/ i = n + 1
      BY <1>2
    <3> HIDE DEF row
    <3> QED
      BY <1>1, <1>2, <1>4, <3>1, <3>2
      DEF IInv, DayInv, DaysOnceInOrder, WholeDays, Matches
  <2>4. pc'[p] = "loop"
    BY <1>1
  <2> HIDE DEF row
  <2> QED
    BY <1>2, <1>4, <2>1, <2>2, <2>3, <2>4
    DEF IInv, DayInv, Alive, Working, Stopping, InDay
<1>8. PositionInv'
  <2>1. \A s \in Symbols : held'[s] \in 0..MaxPositionQty
    BY <1>1 DEF IInv, PositionInv, OpenDay, InDay
  <2>2. \A q \in Procs : pc'[q] \notin InDay
    BY <1>1, <1>2 DEF Alive, Working, InDay
  <2> QED
    BY <2>1, <2>2 DEF PositionInv, OpenDay, PositionWithinCap, InDay
<1>9. CodeInv'
  <2>1. \A k \in DOMAIN resumes : resumes[k].after \in Int /\ resumes[k].after <= n
    <3>1. \A k \in DOMAIN resumes : resumes[k] \in ResumeEntry
      BY DEF IInv, TypeOK
    <3> QED
      BY <1>2, <3>1 DEF IInv, CodeInv, ResumeEntry
  <2>2. PICK next \in Nat : next = n + 2
    BY <1>2
  <2>3. CodeAt(next) = CodeAt(n + 1)
    <3> DEFINE earlier(i) == {k \in DOMAIN resumes : resumes[k].after < i}
               code(S) == IF S = {} THEN config.code
                          ELSE resumes[CHOOSE k \in S : \A j \in S : j <= k].code
    <3>1. earlier(next) = earlier(n + 1)
      BY <1>2, <2>1, <2>2
    <3>2. CodeAt(next) = code(earlier(next)) /\ CodeAt(n + 1) = code(earlier(n + 1))
      BY DEF CodeAt
    <3> HIDE DEF earlier, code
    <3> QED
      BY <3>1, <3>2
  <2>4. \A i : CodeAt(i)' = CodeAt(i)
    BY <1>1 DEF CodeAt
  <2>5. row.by = mine[p] /\ mine[p].code = CodeAt(n + 1)
    BY <1>2 DEF IInv, CodeInv
  <2>6. \A q \in Procs : pc'[q] \in Alive => q = p
    BY <1>1, <1>2
  <2>7. \A i \in 1..(n + 1) : i \in 1..n \/ i = n + 1
    BY <1>2
  <2>8. CodeRecorded'
    <3> HIDE DEF row
    <3> QED
      BY <1>4, <2>4, <2>5, <2>7 DEF IInv, CodeInv, CodeRecorded
  <2>9. \A k \in DOMAIN resumes' : resumes'[k].after <= n + 1
    BY <1>1, <1>2, <2>1
  <2>10. mine'[p].code = CodeAt(next)'
    BY <1>1, <2>3, <2>4, <2>5
  <2>11. CodeAt(Len(runs) + 1)' = CodeAt(next)'
    <3>1. Len(runs') + 1 = next
      BY <1>2, <1>4, <2>2
    <3>2. ASSUME NEW i, NEW j, i = j PROVE CodeAt(i)' = CodeAt(j)'
      BY <3>2
    <3> QED
      BY <3>1, <3>2
  <2> HIDE DEF row
  <2> QED
    BY <1>4, <2>6, <2>8, <2>9, <2>10, <2>11 DEF CodeInv
<1> QED
  BY <1>5, <1>6, <1>7, <1>8, <1>9 DEF IInv

\* Every step keeps the invariant.
LEMMA NextIInv ==
  ASSUME ~MayOverlap, DistinctSymbols, IInv, [Next]_vars
  PROVE  IInv'
<1>1. CASE UNCHANGED vars
  <2>1. CodeInv'
    BY <1>1, CodeKept DEF vars, backtestRow, committed, plan, IInv
  <2> QED
    BY <1>1, <2>1
    DEF vars, backtestRow, committed, plan, dayWork, spending, IInv, TypeOK, OneWriter,
        RowInv, DayInv, DaysOnceInOrder, WholeDays, Matches, PositionInv,
        PositionWithinCap, OpenDay
<1>2. ASSUME NEW p \in Procs, Starts(p) \/ RefuseResume(p) PROVE IInv'
  BY <1>2, CreateStep, ResumeStep, RefuseStep DEF Starts
<1>3. ASSUME NEW p \in Procs, Advances(p) PROVE IInv'
  <2>1. CASE StopAtCap(p) \/ CannotPrice(p)
    <3>1. PICK to \in {"capped", "failing"} :
            /\ pc[p] \in Alive /\ pc' = [pc EXCEPT ![p] = to]
            /\ UNCHANGED <<status, config, llmUsage, resumes, runs, held, mine, first,
                           day, sym, seen, delta, spent, burnt, before>>
      BY <2>1 DEF StopAtCap, CannotPrice, backtestRow, committed, plan, dayWork, spending,
         Alive, Working
    <3>2. before' \in [Procs -> Nat]
      BY <3>1 DEF IInv, TypeOK
    <3> QED
      BY <3>1, <3>2, LeaveStep
  <2>2. CASE ReadUsage(p) \/ ReadUsageToFail(p)
    <3>1. AsNumber(llmUsage) \in Nat
      BY DEF IInv, TypeOK, AsNumber
    <3>2. before' \in [Procs -> Nat]
      BY <2>2, <3>1 DEF ReadUsage, ReadUsageToFail, IInv, TypeOK
    <3>3. CASE ReadUsage(p)
      BY <3>2, <3>3, LeaveStep DEF ReadUsage, backtestRow, committed, plan, dayWork,
         spending, Alive, Working
    <3>4. CASE ReadUsageToFail(p)
      BY <3>2, <3>4, LeaveStep DEF ReadUsageToFail, backtestRow, committed, plan,
         dayWork, spending, Alive, Stopping
    <3> QED
      BY <2>2, <3>3, <3>4
  <2>3. CASE FinishRun(p)
    BY <2>3, SettleStep DEF FinishRun, committed, plan, dayWork, spending
  <2>4. CASE MarkFailed(p)
    BY <2>4, SettleStep DEF MarkFailed, committed, plan, dayWork, spending
  <2> QED
    BY <1>3, <2>1, <2>2, <2>3, <2>4, BeginDayStep, DecideStep, RecordDecisionStep,
       CommitDayStep DEF Advances
<1>4. ASSUME NEW p \in Procs, Breaks(p) PROVE IInv'
  <2>1. /\ pc[p] \in Alive
        /\ pc' = [pc EXCEPT ![p] = "failing"] \/ pc' = [pc EXCEPT ![p] = "ended"]
        /\ UNCHANGED <<status, config, llmUsage, resumes, runs, held, mine, first, day,
                       sym, seen, delta, spent, burnt, before>>
    BY <1>4 DEF Breaks, RejectDecision, StepRaises, MarkingFails, Kill, Rollback,
       backtestRow, committed, plan, dayWork, spending, Alive, Working, Stopping
  <2>2. before' \in [Procs -> Nat]
    BY <2>1 DEF IInv, TypeOK
  <2> QED
    BY <2>1, <2>2, LeaveStep
<1> QED
  BY <1>1, <1>2, <1>3, <1>4 DEF Next

\* A backtest run and resumed one process at a time keeps its inductive
\* invariant: the row, the committed days, the open day and the positions.
THEOREM BacktestInvariant ==
  ASSUME ~MayOverlap, DistinctSymbols
  PROVE  Spec => []IInv
<1>1. Init => IInv
  BY InitIInv
<1>2. IInv /\ [Next]_vars => IInv'
  BY NextIInv
<1> QED
  BY <1>1, <1>2, PTL DEF Spec

\* Every variable keeps the type of the column or local it stands for.
THEOREM BacktestTypes ==
  ASSUME ~MayOverlap, DistinctSymbols
  PROVE  Spec => []TypeOK
<1>1. IInv => TypeOK
  BY DEF IInv
<1> QED
  BY <1>1, BacktestInvariant, PTL

\* Whatever fails and however often it is resumed, the committed days of a
\* backtest are 1, 2, ... in order, each whole, and SUCCESS means all of them.
THEOREM BacktestDays ==
  ASSUME ~MayOverlap, DistinctSymbols
  PROVE  Spec => []RunsAreWhole
<1>1. IInv => RunsAreWhole
  BY DEF IInv, RowInv, DayInv, RunsAreWhole, SuccessIsComplete
<1> QED
  BY <1>1, BacktestInvariant, PTL

\* What RESUME_MUST_MATCH compares decides everything that make_graph builds
\* and the fills charge: the stored configuration determines the strategy.
LEMMA MustMatchDecides ==
  ASSUME NEW c, NEW d, MustMatch(ConfigOf(c)) = MustMatch(ConfigOf(d))
  PROVE  Strategy(c) = Strategy(d)
BY DEF MustMatch, ConfigOf, Strategy

\* All days of one backtest are decided by the same models under the same
\* options, whatever command it is resumed with.
THEOREM BacktestStrategy ==
  ASSUME ~MayOverlap, DistinctSymbols
  PROVE  Spec => []OneStrategy
<1>1. IInv => OneStrategy
  BY MustMatchDecides DEF IInv, DayInv, Matches, OneStrategy
<1> QED
  BY <1>1, BacktestInvariant, PTL

\* The code of every day can be read off the row, however often it was resumed.
THEOREM BacktestCode ==
  ASSUME ~MayOverlap, DistinctSymbols
  PROVE  Spec => []CodeRecorded
<1>1. IInv => CodeRecorded
  BY DEF IInv, CodeInv
<1> QED
  BY <1>1, BacktestInvariant, PTL

\* No committed position is short or above the cap (risk_manager's
\* MAX_POSITION_QTY), whatever the Portfolio Manager proposes.
THEOREM BacktestPositions ==
  ASSUME ~MayOverlap, DistinctSymbols
  PROVE  Spec => []PositionWithinCap
<1>1. IInv => PositionWithinCap
  BY DEF IInv, PositionInv
<1> QED
  BY <1>1, BacktestInvariant, PTL

-----------------------------------------------------------------------------
\* A step of a process that is alive happens while the row is RUNNING.
LEMMA LiveRowRuns ==
  ASSUME IInv, NEW p \in Procs, Advances(p) \/ Breaks(p)
  PROVE  pc[p] \in Alive /\ status = "RUNNING"
<1>1. pc[p] \in Alive
  BY DEF Advances, StopAtCap, BeginDay, Decide, RecordDecision, CommitDay, ReadUsage,
     FinishRun, ReadUsageToFail, MarkFailed, CannotPrice, Breaks, RejectDecision, StepRaises,
     MarkingFails, Kill, Alive, Working, Stopping
<1> QED
  BY <1>1 DEF IInv, RowInv

\* Nothing writes to a finished backtest: it cannot be resumed.
THEOREM BacktestFinal ==
  ASSUME ~MayOverlap, DistinctSymbols
  PROVE  Spec => SuccessIsFinal
<1>1. ASSUME IInv, [Next]_vars
      PROVE  [status = "SUCCESS" => UNCHANGED <<backtestRow, committed>>]_vars
  <2>1. CASE UNCHANGED vars
    BY <2>1
  <2>2. ASSUME NEW p \in Procs, Starts(p), status = "SUCCESS" PROVE FALSE
    BY <2>2 DEF Starts, Create, Resume, Resumable
  <2>3. ASSUME NEW p \in Procs, RefuseResume(p) PROVE UNCHANGED <<backtestRow, committed>>
    BY <2>3 DEF RefuseResume
  <2>4. ASSUME NEW p \in Procs, Advances(p) \/ Breaks(p), status = "SUCCESS" PROVE FALSE
    BY <1>1, <2>4, LiveRowRuns
  <2> QED
    BY <1>1, <2>1, <2>2, <2>3, <2>4 DEF Next
<1> QED
  BY <1>1, BacktestInvariant, PTL DEF Spec, SuccessIsFinal

\* Interruptions, resumes and failed fills are invisible at the level of
\* BacktestPromise: only a committed day and the final report are steps of it.
THEOREM BacktestImplements ==
  ASSUME ~MayOverlap, DistinctSymbols
  PROVE  Spec => ImplementsPromise
<1> DEFINE reportedNow == (status = "SUCCESS")
<1>1. Init => Promise!Init
  BY DEF Init, NoChange, Promise!Init
<1>2. ASSUME IInv, IInv', [Next]_vars
      PROVE  [Promise!Next]_(Promise!promiseVars)
  <2>1. ASSUME UNCHANGED <<runs, held>>, reportedNow' = reportedNow
        PROVE  UNCHANGED Promise!promiseVars
    BY <2>1 DEF Promise!promiseVars
  <2>2. CASE UNCHANGED vars
    BY <2>1, <2>2 DEF vars, backtestRow, committed
  <2>3. ASSUME NEW p \in Procs, Starts(p) \/ RefuseResume(p)
        PROVE  UNCHANGED Promise!promiseVars
    BY <2>1, <2>3 DEF Starts, Create, Resume, Resumable, RefuseResume, backtestRow, committed
  <2>4. ASSUME NEW p \in Procs, Breaks(p)
        PROVE  UNCHANGED Promise!promiseVars
    BY <2>1, <2>4 DEF Breaks, RejectDecision, StepRaises, MarkingFails, Kill, Rollback,
       backtestRow, committed
  <2>5. ASSUME NEW p \in Procs, CommitDay(p)
        PROVE  Promise!SimulateDay
    <3>1. pc[p] = "commit" /\ status = "RUNNING" /\ status' = status
      BY <1>2, <2>5, LiveRowRuns DEF CommitDay, Advances, backtestRow
    <3>2. day[p] = Len(runs) + 1 /\ day[p] <= NDays /\ Len(runs) \in Nat /\ NDays \in Nat
      BY <1>2, <3>1, BacktestConstants DEF IInv, TypeOK, DayInv, Working, InDay
    <3>3. Len(runs') = Len(runs) + 1
      BY <1>2, <2>5 DEF CommitDay, IInv, TypeOK
    <3>4. held' \in [Symbols -> 0..MaxPositionQty]
      BY <1>2 DEF IInv, TypeOK, PositionInv, PositionWithinCap
    <3> QED
      BY <3>1, <3>2, <3>3, <3>4 DEF Promise!SimulateDay
  <2>6. ASSUME NEW p \in Procs, FinishRun(p)
        PROVE  Promise!Report
    <3>1. pc[p] = "finish" /\ status = "RUNNING"
      BY <1>2, <2>6, LiveRowRuns DEF FinishRun, Advances
    <3>2. status' = "SUCCESS" /\ UNCHANGED <<runs, held>>
      BY <2>6, <3>1 DEF FinishRun, SettleRow, committed
    <3>3. Len(runs) = NDays
      BY <1>2, <3>2 DEF IInv, RowInv
    <3> QED
      BY <3>1, <3>2, <3>3 DEF Promise!Report
  <2>7. ASSUME NEW p \in Procs, MarkFailed(p)
        PROVE  UNCHANGED Promise!promiseVars
    <3>1. status = "RUNNING" /\ status' = "FAILED" /\ UNCHANGED <<runs, held>>
      BY <1>2, <2>7, LiveRowRuns DEF MarkFailed, Advances, SettleRow, committed
    <3> QED
      BY <2>1, <3>1
  <2>8. ASSUME NEW p \in Procs,
               StopAtCap(p) \/ BeginDay(p) \/ Decide(p) \/ RecordDecision(p)
                 \/ ReadUsage(p) \/ ReadUsageToFail(p) \/ CannotPrice(p)
        PROVE  UNCHANGED Promise!promiseVars
    BY <2>1, <2>8 DEF StopAtCap, BeginDay, Decide, RecordDecision, ReadUsage,
       ReadUsageToFail, CannotPrice, backtestRow, committed
  <2> QED
    BY <1>2, <2>2, <2>3, <2>4, <2>5, <2>6, <2>7, <2>8 DEF Next, Advances, Promise!Next
<1> QED
  BY <1>1, <1>2, BacktestInvariant, PTL DEF Spec, ImplementsPromise, Promise!Spec

-----------------------------------------------------------------------------
\* Where the money spent on a backtest is to be found: in llm_usage, and for
\* the process that is alive also in its own counter.
UsageInv ==
  /\ \A p \in Procs : pc[p] = "idle" => spent[p] = 0
  /\ \A p \in Procs : pc[p] \in Alive => burnt = AsNumber(llmUsage) + spent[p]
  /\ \A p \in Procs : pc[p] \in {"finish", "marking"} => before[p] = AsNumber(llmUsage)
  /\ (\A p \in Procs : pc[p] \notin Alive)
        => burnt = AsNumber(llmUsage) /\ status # "RUNNING"

LEMMA AsNumberType ==
  ASSUME IInv PROVE AsNumber(llmUsage) \in Nat
BY DEF IInv, TypeOK, AsNumber

\* Only a process that dies without settling its row loses track of tokens.
LEMMA NextUsageInv ==
  ASSUME ~MayOverlap, Faults \subseteq {"exception"}, IInv, UsageInv, [Next]_vars
  PROVE  UsageInv'
<1> USE AsNumberType
<1>0. pc \in [Procs -> PCs] /\ spent \in [Procs -> Nat] /\ before \in [Procs -> Nat] /\ burnt \in Nat
  BY DEF IInv, TypeOK
<1>1. CASE UNCHANGED vars
  BY <1>1 DEF vars, backtestRow, spending, UsageInv, AsNumber
<1>2. ASSUME NEW p \in Procs, Starts(p) PROVE UsageInv'
  <2>1. /\ \A q \in Procs : pc[q] \notin Alive
        /\ pc[p] = "idle" /\ pc' = [pc EXCEPT ![p] = "loop"]
        /\ UNCHANGED <<llmUsage, spent, burnt, before>>
    BY <1>2 DEF Starts, Create, Resume, MayStart, spending
  <2>2. spent[p] = 0 /\ burnt = AsNumber(llmUsage)
    BY <2>1 DEF UsageInv
  <2>3. \A q \in Procs : q # p => pc'[q] = pc[q] /\ pc[q] \notin Alive
    BY <1>0, <2>1
  <2>4. pc'[p] = "loop" /\ AsNumber(llmUsage)' = AsNumber(llmUsage)
    BY <1>0, <2>1 DEF AsNumber
  <2> QED
    BY <1>0, <2>1, <2>2, <2>3, <2>4 DEF UsageInv, Alive, Working, Stopping
<1>3. ASSUME NEW p \in Procs, RefuseResume(p) PROVE UsageInv'
  <2>1. /\ pc[p] = "idle" /\ pc' = [pc EXCEPT ![p] = "ended"]
        /\ UNCHANGED <<status, llmUsage, spent, burnt, before>>
    BY <1>3 DEF RefuseResume, backtestRow, spending
  <2> QED
    BY <1>0, <2>1 DEF UsageInv, AsNumber, Alive, Working, Stopping
\* Steps that neither spend nor write the row, but keep the process alive.
<1>4. ASSUME NEW p \in Procs,
             StopAtCap(p) \/ BeginDay(p) \/ RecordDecision(p) \/ CommitDay(p)
               \/ RejectDecision(p) \/ StepRaises(p) \/ CannotPrice(p)
      PROVE  UsageInv'
  <2>1. PICK to \in {"capped", "failing", "decide", "commit", "loop"} :
          /\ pc[p] \in Working \cup {"finish"}
          /\ pc' = [pc EXCEPT ![p] = to]
          /\ UNCHANGED <<status, llmUsage, spent, burnt, before>>
    BY <1>4 DEF StopAtCap, BeginDay, RecordDecision, CommitDay, RejectDecision,
       StepRaises, CannotPrice, backtestRow, spending, Working
  <2> QED
    BY <1>0, <2>1 DEF UsageInv, AsNumber, Alive, Working, Stopping
<1>5. ASSUME NEW p \in Procs, Decide(p) PROVE UsageInv'
  <2>1. PICK cost \in Nat : /\ spent' = [spent EXCEPT ![p] = @ + cost]
                            /\ burnt' = burnt + cost
    BY <1>5, CostsAreNatural DEF Decide
  <2>2. /\ pc[p] = "decide" /\ pc' = [pc EXCEPT ![p] = "record"]
        /\ UNCHANGED <<status, llmUsage, before>>
        /\ cost \in Nat
    BY <1>5 DEF Decide, backtestRow
  <2>3. \A q \in Procs : q # p => pc[q] \notin Alive /\ pc'[q] = pc[q] /\ spent'[q] = spent[q]
    BY <1>0, <2>1, <2>2 DEF IInv, OneWriter, Alive, Working
  <2>4. spent'[p] = spent[p] + cost /\ pc'[p] = "record" /\ burnt = AsNumber(llmUsage) + spent[p]
    BY <1>0, <2>1, <2>2 DEF UsageInv, Alive, Working
  <2>5. AsNumber(llmUsage)' = AsNumber(llmUsage)
    BY <2>2 DEF AsNumber
  <2> QED
    BY <1>0, <2>1, <2>2, <2>3, <2>4, <2>5 DEF UsageInv, Alive, Working, Stopping
<1>6. ASSUME NEW p \in Procs, ReadUsage(p) \/ ReadUsageToFail(p) PROVE UsageInv'
  <2>1. PICK to \in {"finish", "marking"} :
          /\ pc[p] \in Alive
          /\ pc' = [pc EXCEPT ![p] = to]
          /\ before' = [before EXCEPT ![p] = AsNumber(llmUsage)]
          /\ UNCHANGED <<status, llmUsage, spent, burnt>>
    BY <1>6 DEF ReadUsage, ReadUsageToFail, backtestRow, spending, Alive, Working, Stopping
  <2>2. AsNumber(llmUsage)' = AsNumber(llmUsage)
    BY <2>1 DEF AsNumber
  <2> QED
    BY <1>0, <2>1, <2>2 DEF UsageInv, Alive, Working, Stopping
<1>7. ASSUME NEW p \in Procs, FinishRun(p) \/ MarkFailed(p) PROVE UsageInv'
  <2>1. /\ pc[p] \in {"finish", "marking"}
        /\ pc' = [pc EXCEPT ![p] = "ended"]
        /\ UNCHANGED <<spent, burnt, before>>
    BY <1>7 DEF FinishRun, MarkFailed, spending
  <2>2. pc[p] \in Alive /\ status = "RUNNING"
    BY <2>1 DEF IInv, RowInv, Alive, Stopping
  <2>3. llmUsage' = before[p] + spent[p] /\ status' # "RUNNING"
    BY <1>7, <2>2 DEF FinishRun, MarkFailed, SettleRow
  <2>4. AsNumber(llmUsage)' = burnt
    BY <1>0, <2>1, <2>2, <2>3, BacktestConstants DEF UsageInv, AsNumber
  <2>5. \A q \in Procs : pc'[q] \notin Alive
    BY <1>0, <2>1, <2>2 DEF IInv, OneWriter, Alive, Working, Stopping
  <2>6. \A q \in Procs : pc'[q] = "idle" => pc[q] = "idle"
    BY <1>0, <2>1
  <2> QED
    BY <2>1, <2>3, <2>4, <2>5, <2>6 DEF UsageInv, Alive, Stopping
<1>8. ASSUME NEW p \in Procs PROVE ~MarkingFails(p) /\ ~Kill(p)
  BY DEF MarkingFails, Kill
<1> QED
  BY <1>1, <1>2, <1>3, <1>4, <1>5, <1>6, <1>7, <1>8 DEF Next, Advances, Breaks

\* As long as processes end by returning or raising, llm_usage holds all that
\* any of them spent, and no ended backtest is left RUNNING: the two bookkeeping
\* duties of _finish and _mark_failed.
THEOREM BacktestAccounts ==
  ASSUME ~MayOverlap, DistinctSymbols, Faults \subseteq {"exception"}
  PROVE  Spec => []RowSettled
<1>1. Init => UsageInv
  BY BacktestConstants DEF Init, UsageInv, AsNumber, Alive, Working, Stopping
<1>2. IInv /\ UsageInv /\ [Next]_vars => UsageInv'
  BY NextUsageInv
<1>3. UsageInv => RowSettled
  BY DEF UsageInv, RowSettled
<1> QED
  BY <1>1, <1>2, <1>3, BacktestInvariant, PTL DEF Spec
-----------------------------------------------------------------------------
(* How far a process passes its cap.  Nothing here needs ~MayOverlap: what a *)
(* process spends is its own affair.                                         *)

Dearest  == MaxOf(CallCosts)
Cheapest == CHOOSE x \in CallCosts : \A y \in CallCosts : x <= y
DayCalls == Len(SymbolSeq)

\* What a call costs is bounded: max_tokens of the models.
CostsBounded == CallCosts # {} /\ \E n \in Nat : CallCosts \subseteq 0..n

Paying(p) == mine[p] \in Accepted /\ mine[p].real

\* Calls of the open day that are paid for.
Called(p) ==
  IF pc[p] = "decide" THEN sym[p] - 1 ELSE IF pc[p] = "record" THEN sym[p] ELSE DayCalls

WithinSpread(p) ==
  \/ spent[p] <= DayCalls * Dearest
  \/ mine[p].cap # NoCap /\ spent[p] <= mine[p].cap + DayCalls * (Dearest - Cheapest)

SpendTypes ==
  /\ runs \in Seq(RunRow)
  /\ pc \in [Procs -> PCs]
  /\ mine \in [Procs -> Accepted \cup {NoCommand}]
  /\ first \in [Procs -> 1..NDays + 1] /\ day \in [Procs -> 1..NDays + 1]
  /\ sym \in [Procs -> 1..DayCalls]
  /\ spent \in [Procs -> Nat]

\* The completed days cost at least the cheapest calls; the open one started
\* where the average day before it still fitted under the cap.
SpendOf(p) ==
  /\ pc[p] = "idle" => first[p] = 1 /\ day[p] = 1 /\ mine[p] = NoCommand
  /\ pc[p] \in Alive => mine[p] \in Accepted
  /\ pc[p] \in InDay => day[p] <= NDays
  /\ pc[p] \in Working => first[p] <= day[p]
  /\ ~Paying(p) => spent[p] = 0
  /\ pc[p] = "loop" /\ Paying(p) =>
       /\ DaysDone(p) * (DayCalls * Cheapest) <= spent[p]
       /\ DaysDone(p) = 0 => spent[p] = 0
  /\ pc[p] \in InDay /\ Paying(p) =>
       /\ DaysDone(p) * (DayCalls * Cheapest) + Called(p) * Cheapest <= spent[p]
       /\ DaysDone(p) = 0 => spent[p] <= Called(p) * Dearest
       /\ DaysDone(p) > 0 =>
            spent[p] + DayCalls * Cheapest <= mine[p].cap + Called(p) * Dearest
  /\ WithinSpread(p)

SpendInv == SpendTypes /\ \A p \in Procs : SpendOf(p)
LEMMA CostFacts ==
  ASSUME CostsBounded
  PROVE  /\ Cheapest \in Nat /\ Dearest \in Nat
         /\ \A x \in CallCosts : Cheapest <= x /\ x <= Dearest
         /\ DayCalls \in Nat \ {0}
         /\ DayCalls * Cheapest \in Nat /\ DayCalls * Dearest \in Nat
<1>1. \E x \in CallCosts : \A y \in CallCosts : x <= y
  BY LeastOf, BacktestConstants DEF CostsBounded
<1>2. \E x \in CallCosts : \A y \in CallCosts : y <= x
  BY GreatestOf DEF CostsBounded
<1>3. Cheapest \in CallCosts /\ \A y \in CallCosts : Cheapest <= y
  BY <1>1 DEF Cheapest
<1>4. Dearest \in CallCosts /\ \A y \in CallCosts : y <= Dearest
  BY <1>2 DEF Dearest, MaxOf
<1>5. DayCalls \in Nat \ {0}
  BY SymbolFacts DEF DayCalls
<1>6. Cheapest \in Nat /\ Dearest \in Nat
  BY <1>3, <1>4, BacktestConstants
<1>7. DayCalls * Cheapest \in Nat /\ DayCalls * Dearest \in Nat
  BY <1>5, <1>6
<1> QED BY <1>3, <1>4, <1>5, <1>6, <1>7

\* An average day more fits under the cap: then so does one of the cheapest.
LEMMA CheapDayFits ==
  ASSUME NEW s \in Nat, NEW cap \in Nat, NEW k \in Nat \ {0}, NEW cheap \in Nat,
         s * (k + 1) <= cap * k, k * cheap <= s
  PROVE  s + cheap <= cap
<1> SUFFICES ASSUME cap + 1 <= s + cheap PROVE FALSE
  OBVIOUS
<1>1. s * (k + 1) = k * s + s /\ k * s \in Nat /\ cap * k = k * cap /\ k * cap \in Nat
      /\ k * cheap \in Nat
  OBVIOUS
<1>2. k * (cap + 1) <= k * (s + cheap)
  <2>1. \A a, b \in Nat : a <= b => k * a <= k * b
    OBVIOUS
  <2> QED BY <2>1
<1>3. k * (cap + 1) = k * cap + k /\ k * (s + cheap) = k * s + k * cheap
  OBVIOUS
<1> QED BY <1>1, <1>2, <1>3

\* Which LastDone the resumed process goes on from, whoever else is at work.
LEMMA LastDoneType ==
  ASSUME runs \in Seq(RunRow)
  PROVE  LastDone \in 0..NDays
<1> DEFINE done == {runs[i].day : i \in DOMAIN runs}
           isLast(d) == \A i \in DOMAIN runs : runs[i].day <= d
<1>1. CASE runs = <<>>
  BY <1>1, BacktestConstants DEF LastDone
<1>2. CASE runs # <<>>
  <2>1. 1 \in DOMAIN runs /\ \A i \in DOMAIN runs : runs[i].day \in 1..NDays
    <3>1. \A r \in RunRow : r.day \in 1..NDays
      BY DEF RunRow
    <3>2. 1 \in DOMAIN runs /\ \A i \in DOMAIN runs : runs[i] \in RunRow
      BY <1>2
    <3> QED BY <3>1, <3>2
  <2>2. done # {} /\ done \subseteq 0..NDays /\ NDays \in Nat
    BY <2>1, BacktestConstants
  <2>3. \E d \in done : \A e \in done : e <= d
    <3> HIDE DEF done
    <3> QED BY <2>2, GreatestOf
  <2>4. \E d \in done : isLast(d)
    BY <2>3
  <2>5. LastDone = CHOOSE d \in done : isLast(d)
    BY <1>2 DEF LastDone
  <2> HIDE DEF done, isLast
  <2> QED BY <2>2, <2>4, <2>5
<1> QED BY <1>1, <1>2

LEMMA SpendInit ==
  ASSUME CostsBounded, Init
  PROVE  SpendInv
<1>1. 1 \in 1..NDays + 1 /\ 1 \in 1..DayCalls
  BY BacktestConstants, CostFacts
<1>2. SpendTypes
  BY <1>1 DEF Init, SpendTypes, PCs
<1>3. ASSUME NEW p \in Procs PROVE SpendOf(p)
  <2>1. pc[p] = "idle" /\ spent[p] = 0 /\ mine[p] = NoCommand /\ mine[p] \notin Accepted
    BY <1>3, BacktestConstants DEF Init, Accepted
  <2>2. WithinSpread(p)
    BY <2>1, CostFacts DEF WithinSpread
  <2> QED BY <1>3, <2>1, <2>2 DEF Init, SpendOf, Paying, Alive, Working, Stopping, InDay
<1> QED BY <1>2, <1>3 DEF SpendInv

\* A process another one's step does not concern.
Idles(q) ==
  /\ pc'[q] = pc[q] /\ mine'[q] = mine[q] /\ first'[q] = first[q]
  /\ day'[q] = day[q] /\ sym'[q] = sym[q] /\ spent'[q] = spent[q]

LEMMA SpendIdle ==
  ASSUME NEW q \in Procs, SpendOf(q), Idles(q)
  PROVE  SpendOf(q)'
<1>1. /\ Paying(q)' = Paying(q) /\ Called(q)' = Called(q) /\ DaysDone(q)' = DaysDone(q)
      /\ WithinSpread(q)' = WithinSpread(q)
  BY DEF Idles, Paying, Called, DaysDone, WithinSpread
<1> QED BY <1>1 DEF SpendOf, Idles

\* A process that leaves the loop, or has left it: it spends nothing more.
LEMMA SpendLeave ==
  ASSUME SpendInv, NEW p \in Procs,
         pc' = [pc EXCEPT ![p] = pc'[p]],
         pc'[p] \in Stopping \cup {"ended"}, pc'[p] \in Alive => pc[p] \in Alive,
         UNCHANGED <<runs, mine, first, day, sym, spent>>
  PROVE  SpendInv'
<1>1. SpendTypes'
  BY DEF SpendInv, SpendTypes, PCs, Alive
<1>2. \A q \in Procs : q # p => SpendOf(q)'
  BY SpendIdle DEF SpendInv, SpendTypes, Idles
<1>3. SpendOf(p)'
  <2>1. Paying(p)' = Paying(p) /\ WithinSpread(p)' = WithinSpread(p)
    BY DEF Paying, WithinSpread
  <2> QED BY <2>1 DEF SpendInv, SpendOf, Stopping, Working, InDay
<1> QED BY <1>1, <1>2, <1>3 DEF SpendInv

LEMMA SpendStart ==
  ASSUME SpendInv, CostsBounded, NEW p \in Procs, Starts(p)
  PROVE  SpendInv'
<1>1. /\ pc[p] = "idle" /\ pc' = [pc EXCEPT ![p] = "loop"]
      /\ UNCHANGED <<runs, sym, spent>>
      /\ \E c \in Accepted : mine' = [mine EXCEPT ![p] = c]
  BY DEF Starts, Create, Resume, committed, dayWork, spending
<1>2. PICK c \in Accepted : mine' = [mine EXCEPT ![p] = c]
  BY <1>1
<1>3. /\ first' \in [Procs -> 1..NDays + 1] /\ day' \in [Procs -> 1..NDays + 1]
      /\ day'[p] = first'[p]
      /\ \A q \in Procs : q # p => first'[q] = first[q] /\ day'[q] = day[q]
  <2>1. CASE Create(p)
    BY <1>1, <2>1 DEF Create, SpendInv, SpendTypes, SpendOf
  <2>2. CASE Resume(p)
    <3>1. LastDone + 1 \in 1..NDays + 1
      BY LastDoneType, BacktestConstants DEF SpendInv, SpendTypes
    <3> QED BY <2>2, <3>1 DEF Resume, SpendInv, SpendTypes
  <2> QED BY <2>1, <2>2 DEF Starts
<1>4. SpendTypes'
  BY <1>1, <1>2, <1>3 DEF SpendInv, SpendTypes, PCs, Alive, Working
<1>5. \A q \in Procs : q # p => SpendOf(q)'
  BY <1>1, <1>2, <1>3, SpendIdle DEF SpendInv, SpendTypes, Idles
<1>6. SpendOf(p)'
  <2>1. pc'[p] = "loop" /\ mine'[p] = c /\ spent'[p] = 0 /\ day'[p] \in Nat
    <3>1. ~Paying(p)
      BY <1>1, BacktestConstants DEF SpendInv, SpendOf, Paying, Accepted
    <3>2. spent[p] = 0 /\ pc'[p] = "loop" /\ mine'[p] = c
      BY <1>1, <1>2, <3>1 DEF SpendInv, SpendTypes, SpendOf
    <3>3. day'[p] \in 1..NDays + 1
      BY <1>3
    <3> QED BY <1>1, <3>2, <3>3
  <2>2. DaysDone(p)' = 0
    BY <1>3, <2>1 DEF DaysDone
  <2>3. WithinSpread(p)'
    BY <2>1, CostFacts DEF WithinSpread
  <2>4. 0 * (DayCalls * Cheapest) = 0
    BY CostFacts
  <2> QED BY <1>3, <2>1, <2>2, <2>3, <2>4 DEF SpendOf, Alive, Working, InDay
<1> QED BY <1>4, <1>5, <1>6 DEF SpendInv

LEMMA SpendBeginDay ==
  ASSUME SpendInv, CostsBounded, NEW p \in Procs, BeginDay(p)
  PROVE  SpendInv'
<1>1. /\ pc[p] = "loop" /\ pc' = [pc EXCEPT ![p] = "decide"] /\ day[p] <= NDays
      /\ sym' = [sym EXCEPT ![p] = 1]
      /\ UNCHANGED <<runs, mine, first, day, spent>> /\ ~LikelyToCross(p)
  BY DEF BeginDay, committed, plan, spending
<1>2. SpendTypes'
  <2>1. 1 \in 1..DayCalls
    BY CostFacts
  <2> QED BY <1>1, <2>1 DEF SpendInv, SpendTypes, PCs, Alive, Working
<1>3. \A q \in Procs : q # p => SpendOf(q)'
  BY <1>1, SpendIdle DEF SpendInv, SpendTypes, Idles
<1>4. SpendOf(p)'
  <2>1. /\ pc'[p] = "decide" /\ Called(p)' = 0 /\ DaysDone(p)' = DaysDone(p)
        /\ Paying(p)' = Paying(p) /\ WithinSpread(p)' = WithinSpread(p)
        /\ mine[p] \in Accepted /\ first[p] <= day[p]
        /\ DaysDone(p) \in Nat /\ spent[p] \in Nat /\ SpendOf(p)
    <3>1. first[p] <= day[p] /\ first[p] \in Int /\ day[p] \in Int
      BY <1>1, BacktestConstants DEF SpendInv, SpendTypes, SpendOf, Working
    <3>2. DaysDone(p) \in Nat
      BY <3>1 DEF DaysDone
    <3>3. pc'[p] = "decide" /\ sym'[p] = 1
      BY <1>1 DEF SpendInv, SpendTypes
    <3>4. Called(p)' = 0
      BY <3>3 DEF Called
    <3>5. /\ DaysDone(p)' = DaysDone(p) /\ Paying(p)' = Paying(p)
          /\ WithinSpread(p)' = WithinSpread(p)
      BY <1>1 DEF DaysDone, Paying, WithinSpread
    <3>6. SpendOf(p) /\ spent[p] \in Nat
      BY DEF SpendInv, SpendTypes
    <3>7. mine[p] \in Accepted
      BY <1>1, <3>6 DEF SpendOf, Alive, Working
    <3> QED BY <3>1, <3>2, <3>3, <3>4, <3>5, <3>6, <3>7
  <2> DEFINE k     == DaysDone(p)
             cheap == DayCalls * Cheapest
  <2>2. ASSUME Paying(p), k > 0
        PROVE  spent[p] + cheap <= mine[p].cap
    <3>1. mine[p].cap \in Nat
      BY <2>2, BacktestConstants DEF Paying, Accepted, Refused, Command
    <3>2. spent[p] * (k + 1) <= mine[p].cap * k
      <4>1. Checks(p)
        BY <2>2, <3>1, BacktestConstants DEF Checks
      <4>2. ~(spent[p] * (k + 1) > mine[p].cap * k)
        BY <1>1, <4>1 DEF LikelyToCross
      <4>3. spent[p] * (k + 1) \in Nat /\ mine[p].cap * k \in Nat
        BY <2>1, <3>1
      <4> QED BY <4>2, <4>3
    <3>3. k * cheap <= spent[p]
      BY <1>1, <2>1, <2>2 DEF SpendOf
    <3> HIDE DEF k, cheap
    <3>4. k \in Nat \ {0} /\ cheap \in Nat /\ spent[p] \in Nat
      BY <2>1, <2>2, CostFacts DEF k, cheap
    <3> QED BY <3>1, <3>2, <3>3, <3>4, CheapDayFits
  <2>3. 0 * Cheapest = 0 /\ 0 * Dearest = 0 /\ k * cheap + 0 = k * cheap
    BY <2>1, CostFacts
  <2>4. Paying(p) => /\ k * cheap <= spent[p]
                     /\ k = 0 => spent[p] = 0
                     /\ mine[p].cap \in Nat
    BY <1>1, <2>1, BacktestConstants DEF SpendOf, Paying, Accepted, Refused, Command
  <2>5. ~Paying(p) => spent[p] = 0
    BY <2>1 DEF SpendOf
  <2>6. WithinSpread(p)
    BY <2>1 DEF SpendOf
  <2> HIDE DEF k, cheap
  <2>7. Paying(p) =>
          /\ k * cheap + 0 * Cheapest <= spent[p]
          /\ k = 0 => spent[p] <= 0 * Dearest
          /\ k > 0 => spent[p] + cheap <= mine[p].cap + 0 * Dearest
    <3>1. k * cheap + 0 * Cheapest = k * cheap
      BY <2>3
    <3>2. Paying(p) => mine[p].cap + 0 * Dearest = mine[p].cap
      BY <2>3, <2>4
    <3>3. spent[p] = 0 => spent[p] <= 0 * Dearest
      BY <2>3
    <3> QED BY <2>2, <2>4, <3>1, <3>2, <3>3
  <2> QED BY <1>1, <2>1, <2>5, <2>6, <2>7 DEF SpendOf, k, cheap, Working, InDay
<1> QED BY <1>2, <1>3, <1>4 DEF SpendInv
LEMMA SpendDecide ==
  ASSUME SpendInv, CostsBounded, NEW p \in Procs, Decide(p)
  PROVE  SpendInv'
<1>1. /\ pc[p] = "decide" /\ pc' = [pc EXCEPT ![p] = "record"]
      /\ UNCHANGED <<runs, mine, first, day, sym>>
      /\ \E cost \in CostsOf(mine[p]) : spent' = [spent EXCEPT ![p] = @ + cost]
  BY DEF Decide, committed, plan
<1>2. PICK cost \in CostsOf(mine[p]) : spent' = [spent EXCEPT ![p] = @ + cost]
  BY <1>1
<1>3. cost \in Nat
  BY <1>2, CostsAreNatural
<1>4. SpendTypes'
  BY <1>1, <1>2, <1>3 DEF SpendInv, SpendTypes, PCs, Alive, Working
<1>5. \A q \in Procs : q # p => SpendOf(q)'
  BY <1>1, <1>2, SpendIdle DEF SpendInv, SpendTypes, Idles
<1>6. SpendOf(p)'
  <2>1. /\ pc'[p] = "record" /\ spent'[p] = spent[p] + cost /\ DaysDone(p)' = DaysDone(p)
        /\ Paying(p)' = Paying(p) /\ sym[p] \in 1..DayCalls /\ spent[p] \in Nat
        /\ Called(p) = sym[p] - 1 /\ Called(p)' = sym[p]
    BY <1>1, <1>2 DEF SpendInv, SpendTypes, Called, DaysDone, Paying
  <2>2. SpendOf(p) /\ pc[p] \in InDay /\ pc[p] \in Alive /\ pc[p] \in Working
    BY <1>1 DEF SpendInv, InDay, Alive, Working
  <2>3. /\ mine[p] \in Accepted /\ first[p] <= day[p] /\ day[p] <= NDays
        /\ first[p] \in Int /\ day[p] \in Int /\ DaysDone(p) \in Nat
    <3>1. mine[p] \in Accepted /\ first[p] <= day[p] /\ day[p] <= NDays
      BY <2>2 DEF SpendOf
    <3>2. first[p] \in Int /\ day[p] \in Int
      BY BacktestConstants DEF SpendInv, SpendTypes
    <3> QED BY <3>1, <3>2 DEF DaysDone
  <2> DEFINE k     == DaysDone(p)
             cheap == DayCalls * Cheapest
             j     == sym[p]
             done  == k * cheap
  <2>4. CASE ~Paying(p)
    <3>1. cost = 0 /\ spent[p] = 0
      BY <2>2, <2>3, <2>4 DEF SpendOf, Paying, CostsOf
    <3>2. WithinSpread(p)'
      BY <2>1, <3>1, CostFacts DEF WithinSpread
    <3> QED BY <1>1, <2>1, <2>3, <2>4, <3>1, <3>2 DEF SpendOf, Working, InDay
  <2>5. CASE Paying(p)
    <3>1. /\ mine[p].cap \in Nat /\ mine[p].cap # NoCap
          /\ Cheapest <= cost /\ cost <= Dearest
      BY <1>2, <2>5, CostFacts, BacktestConstants DEF Paying, CostsOf, Accepted, Refused, Command
    <3>2. /\ Cheapest \in Nat /\ Dearest \in Nat /\ DayCalls \in Nat \ {0}
          /\ cheap \in Nat /\ done \in Nat /\ j \in Nat /\ 1 <= j /\ j <= DayCalls
          /\ (j - 1) * Cheapest = j * Cheapest - Cheapest
          /\ (j - 1) * Dearest = j * Dearest - Dearest
          /\ j * Cheapest \in Nat /\ j * Dearest \in Nat
      BY <2>1, <2>3, CostFacts
    <3>3. /\ done + (j - 1) * Cheapest <= spent[p]
          /\ k = 0 => spent[p] <= (j - 1) * Dearest
          /\ k > 0 => spent[p] + cheap <= mine[p].cap + (j - 1) * Dearest
      BY <2>1, <2>2, <2>5 DEF SpendOf
    <3> HIDE DEF done, cheap, j, k
    <3>4. /\ done + j * Cheapest <= spent[p] + cost
          /\ k = 0 => spent[p] + cost <= j * Dearest
          /\ k > 0 => spent[p] + cost + cheap <= mine[p].cap + j * Dearest
      BY <1>3, <2>1, <3>1, <3>2, <3>3
    <3>5. WithinSpread(p)'
      <4>1. j * Dearest <= DayCalls * Dearest
        BY <3>2
      <4>2. k = 0 => spent[p] + cost <= DayCalls * Dearest
        BY <1>3, <2>1, <3>2, <3>4, <4>1
      <4>3. k > 0 => spent[p] + cost <= mine[p].cap + DayCalls * (Dearest - Cheapest)
        <5>1. DayCalls * (Dearest - Cheapest) = DayCalls * Dearest - cheap
          BY <3>2 DEF cheap
        <5>2. DayCalls * Dearest \in Nat
          BY <3>2
        <5> QED BY <1>3, <2>1, <3>1, <3>2, <3>4, <4>1, <5>1, <5>2
      <4>4. k = 0 \/ k > 0
        BY <2>3 DEF k
      <4> QED BY <1>1, <2>1, <3>1, <4>2, <4>3, <4>4 DEF WithinSpread
    <3> QED BY <1>1, <2>1, <2>3, <2>5, <3>4, <3>5 DEF SpendOf, Working, InDay, done, cheap, j, k
  <2> QED BY <2>4, <2>5
<1> QED BY <1>4, <1>5, <1>6 DEF SpendInv

LEMMA SpendRecord ==
  ASSUME SpendInv, CostsBounded, NEW p \in Procs, RecordDecision(p)
  PROVE  SpendInv'
<1>1. /\ pc[p] = "record" /\ UNCHANGED <<runs, mine, first, day, spent>>
      /\ \/ /\ sym[p] < Len(SymbolSeq) /\ sym' = [sym EXCEPT ![p] = @ + 1]
            /\ pc' = [pc EXCEPT ![p] = "decide"]
         \/ /\ ~(sym[p] < Len(SymbolSeq)) /\ sym' = sym /\ pc' = [pc EXCEPT ![p] = "commit"]
  BY DEF RecordDecision, committed, plan, spending
<1>2. sym[p] \in 1..DayCalls /\ DayCalls \in Nat /\ pc'[p] \in {"decide", "commit"}
      /\ \A q \in Procs : q # p => pc'[q] = pc[q] /\ sym'[q] = sym[q]
  BY <1>1, CostFacts DEF SpendInv, SpendTypes
<1>3. SpendTypes'
  <2>1. sym[p] < Len(SymbolSeq) => sym[p] + 1 \in 1..DayCalls
    BY <1>2 DEF DayCalls
  <2>2. sym' \in [Procs -> 1..DayCalls]
    BY <1>1, <2>1 DEF SpendInv, SpendTypes
  <2>3. pc' \in [Procs -> PCs]
    BY <1>1 DEF SpendInv, SpendTypes, PCs, Alive, Working
  <2> QED BY <1>1, <2>2, <2>3 DEF SpendInv, SpendTypes
<1>4. \A q \in Procs : q # p => SpendOf(q)'
  BY <1>1, <1>2, SpendIdle DEF SpendInv, Idles
<1>5. SpendOf(p)'
  <2>1. Called(p)' = Called(p)
    <3>1. CASE sym[p] < Len(SymbolSeq)
      <4>1. pc'[p] = "decide" /\ sym'[p] = sym[p] + 1 /\ sym[p] \in Int
        BY <1>1, <1>2, <3>1 DEF SpendInv, SpendTypes
      <4> QED BY <1>1, <4>1 DEF Called
    <3>2. CASE ~(sym[p] < Len(SymbolSeq))
      <4>1. pc'[p] = "commit" /\ sym[p] = DayCalls
        BY <1>1, <1>2, <3>2 DEF SpendInv, SpendTypes, DayCalls
      <4> QED BY <1>1, <4>1 DEF Called
    <3> QED BY <3>1, <3>2
  <2>2. /\ Paying(p)' = Paying(p) /\ DaysDone(p)' = DaysDone(p)
        /\ WithinSpread(p)' = WithinSpread(p)
    BY <1>1 DEF Paying, DaysDone, WithinSpread
  <2> QED BY <1>1, <1>2, <2>1, <2>2 DEF SpendInv, SpendOf, InDay, Alive, Working
<1> QED BY <1>3, <1>4, <1>5 DEF SpendInv

LEMMA SpendCommitDay ==
  ASSUME SpendInv, CostsBounded, NEW p \in Procs, CommitDay(p)
  PROVE  SpendInv'
<1>1. /\ pc[p] = "commit" /\ pc' = [pc EXCEPT ![p] = "loop"]
      /\ day' = [day EXCEPT ![p] = @ + 1]
      /\ runs' = Append(runs, [day |-> day[p], by |-> mine[p], status |-> "SUCCESS"])
      /\ UNCHANGED <<mine, first, sym, spent>>
  BY DEF CommitDay, plan, dayWork, spending
<1>2. /\ SpendOf(p) /\ mine[p] \in Accepted /\ first[p] <= day[p] /\ day[p] <= NDays
      /\ first[p] \in 1..NDays + 1 /\ day[p] \in 1..NDays + 1 /\ NDays \in Nat
  <2>1. SpendOf(p) /\ first[p] \in 1..NDays + 1 /\ day[p] \in 1..NDays + 1 /\ NDays \in Nat
    BY BacktestConstants DEF SpendInv, SpendTypes
  <2> QED BY <1>1, <2>1 DEF SpendOf, Alive, Working, InDay
<1>3. SpendTypes'
  <2>1. [day |-> day[p], by |-> mine[p], status |-> "SUCCESS"] \in RunRow
    BY <1>2 DEF RunRow
  <2>2. day' \in [Procs -> 1..NDays + 1]
    BY <1>1, <1>2 DEF SpendInv, SpendTypes
  <2> QED BY <1>1, <2>1, <2>2 DEF SpendInv, SpendTypes, PCs, Alive, Working
<1>4. \A q \in Procs : q # p => SpendOf(q)'
  BY <1>1, SpendIdle DEF SpendInv, SpendTypes, Idles
<1>5. SpendOf(p)'
  <2>1. /\ pc'[p] = "loop" /\ day'[p] = day[p] + 1
        /\ Paying(p)' = Paying(p) /\ WithinSpread(p)' = WithinSpread(p)
        /\ Called(p) = DayCalls
    BY <1>1 DEF SpendInv, SpendTypes, Paying, WithinSpread, Called
  <2>2. DaysDone(p) \in Nat /\ DaysDone(p)' = DaysDone(p) + 1
    BY <1>1, <1>2, <2>1 DEF DaysDone
  <2>3. Paying(p) => (DaysDone(p) + 1) * (DayCalls * Cheapest) <= spent[p]
    <3>1. Paying(p) => DaysDone(p) * (DayCalls * Cheapest) + DayCalls * Cheapest <= spent[p]
      BY <1>1, <1>2, <2>1 DEF SpendOf, InDay
    <3>2. \A k, x \in Nat : (k + 1) * x = k * x + x
      OBVIOUS
    <3> QED BY <2>2, <3>1, <3>2, CostFacts
  <2> QED BY <1>1, <1>2, <2>1, <2>2, <2>3 DEF SpendOf, InDay, Alive, Working
<1> QED BY <1>3, <1>4, <1>5 DEF SpendInv

LEMMA SpendNext ==
  ASSUME SpendInv, CostsBounded, [Next]_vars
  PROVE  SpendInv'
<1>1. CASE UNCHANGED vars
  <2>1. UNCHANGED <<runs, pc, mine, first, day, sym, spent>>
    BY <1>1 DEF vars, committed, plan, dayWork, spending
  <2>2. \A q \in Procs : SpendOf(q)'
    BY <2>1, SpendIdle DEF SpendInv, Idles
  <2> QED BY <2>1, <2>2 DEF SpendInv, SpendTypes
<1>2. ASSUME NEW p \in Procs,
             RefuseResume(p) \/ CannotPrice(p) \/ StopAtCap(p) \/ RejectDecision(p)
               \/ StepRaises(p) \/ ReadUsage(p) \/ ReadUsageToFail(p) \/ FinishRun(p)
               \/ MarkFailed(p) \/ MarkingFails(p) \/ Kill(p)
      PROVE  SpendInv'
  <2>1. PICK to \in Stopping \cup {"ended"} :
          /\ pc' = [pc EXCEPT ![p] = to] /\ (to \in Alive => pc[p] \in Alive)
          /\ UNCHANGED <<runs, mine, first, day, sym, spent>>
    BY <1>2 DEF RefuseResume, CannotPrice, StopAtCap, RejectDecision, StepRaises, ReadUsage,
       ReadUsageToFail, FinishRun, MarkFailed, MarkingFails, Kill, Rollback,
       committed, plan, dayWork, spending, Alive, Working, Stopping
  <2>2. pc'[p] = to
    BY <2>1 DEF SpendInv, SpendTypes
  <2> QED BY <2>1, <2>2, SpendLeave
<1> QED
  BY <1>1, <1>2, SpendStart, SpendBeginDay, SpendDecide, SpendRecord, SpendCommitDay
  DEF Next, Advances, Breaks

\* "The day loop stops before the day that would probably cross the cap": what a
\* process spends beyond it is what its first day cost, or the difference between
\* a dear day and cheap ones.  However many processes there are, however they
\* stop, and even if two of them work on the backtest at once.
THEOREM BacktestOvershoot ==
  ASSUME CostsBounded
  PROVE  Spec => []OvershootWithinSpread
<1>1. Init => SpendInv
  BY SpendInit
<1>2. SpendInv /\ [Next]_vars => SpendInv'
  BY SpendNext
<1>3. SpendInv => OvershootWithinSpread
  <2>1. SpendInv => \A p \in Procs : WithinSpread(p)
    BY DEF SpendInv, SpendOf
  <2> QED BY <2>1 DEF OvershootWithinSpread, WithinSpread, Dearest, Cheapest, DayCalls
<1> QED
  BY <1>1, <1>2, <1>3, PTL DEF Spec
=============================================================================
