-------------------------- MODULE NewsArchive_proofs --------------------------
(* Proofs about NewsArchive and what it is composed of: no headline is read     *)
(* before it came out and none is passed over, the schema is what               *)
(* schema_migrations says, a run of the migrations commits all files or none,   *)
(* and imports neither lose nor repeat a row; for any clock, archive, number of *)
(* files, containers and restarts.                                              *)
EXTENDS NewsArchive, FiniteSetTheorems, WellFoundedInduction, TLAPS

-----------------------------------------------------------------------------
(* Headlines and the time they came out *)

\* A date-only headline is out by the time it counts as available, whenever on
\* its date it was published (HEADLINE_AVAILABLE_AT).
LEMMA OutWhenAvailable ==
  ASSUME NEW h \in Headlines
  PROVE  h.out <= AvailableAt(h)
<1>1. h.stamp \in Int /\ h.out \in Int
  BY ClockConstants DEF Headlines, Times
<1>2. CASE DateOnly(h.stamp)
  BY <1>1, <1>2, ClockConstants DEF Headlines, AvailableAt
<1>3. CASE ~DateOnly(h.stamp)
  BY <1>1, <1>3 DEF Headlines, AvailableAt
<1> QED BY <1>2, <1>3

\* So nothing either query returns came out at or after the time it is asked for.
LEMMA QueriesLookBack ==
  ASSUME Range(archive) \subseteq Headlines, NEW at \in Int, NEW d \in Int
  PROVE  \A h \in RecentHeadlines(at) \cup Around(d, at) : h.out < at
<1> SUFFICES ASSUME NEW h \in RecentHeadlines(at) \cup Around(d, at)
             PROVE  h.out < at
  OBVIOUS
<1>1. h \in Headlines /\ AvailableAt(h) < at
  BY DEF RecentHeadlines, Around
<1>2. h.stamp \in Int /\ h.out \in Int
  BY <1>1, ClockConstants DEF Headlines, Times
<1>3. AvailableAt(h) \in Int
  BY <1>2, ClockConstants DEF AvailableAt
<1> QED BY <1>1, <1>2, <1>3, OutWhenAvailable

-----------------------------------------------------------------------------
(* The import *)

\* The rows a transaction of the import holds, and where in the file it is.
RunType == [on : BOOLEAN, range : [from : Int, to : Int], chunk : Nat \ {0},
            draft : Seq(Headlines), next : Nat \ {0}]

ImportType ==
  /\ csv \in Seq(Headlines \cup {Unusable})
  /\ archive \in Seq(Headlines)
  /\ run \in RunType

LEMMA ImportTypeInit == Init => ImportType
BY ArchiveConstants DEF Init, ImportInit, ImportType, RunType, NoRun

LEMMA PositionInFile ==
  ASSUME ImportType, RowsLeft
  PROVE  /\ Position \in 1..Len(csv)
         /\ csv[Position] \in Headlines \cup {Unusable}
<1>1. run.chunk - 1 \in Nat /\ run.next \in Nat \ {0}
  BY DEF ImportType, RunType
<1>2. ChunkRows * (run.chunk - 1) \in Nat
  BY <1>1, ImportConstants
<1>3. Position \in 1..Len(csv)
  BY <1>1, <1>2 DEF ImportType, RowsLeft, Position
<1> QED BY <1>3 DEF ImportType

\* What InsertRow makes of its transaction's rows.
Draft == IF Matches(csv[Position], run.range) THEN Inserted(run.draft, csv[Position]) ELSE run.draft

LEMMA DraftType ==
  ASSUME ImportType, RowsLeft
  PROVE  Draft \in Seq(Headlines)
<1>1. run.draft \in Seq(Headlines)
  BY DEF ImportType, RunType
<1> QED BY <1>1, PositionInFile DEF Draft, Matches, Inserted

LEMMA ImportTypeNext == ImportType /\ [Next]_vars => ImportType'
<1> SUFFICES ASSUME ImportType, [Next]_vars PROVE ImportType'
  OBVIOUS
<1>1. CASE StartImport
  <2>1. PICK range \in Ranges : run' = [NoRun EXCEPT !.on = TRUE, !.range = range]
    BY <1>1 DEF StartImport
  <2>2. range \in [from : Int, to : Int]
    BY ImportConstants
  <2>3. run' = [on |-> TRUE, range |-> range, chunk |-> 1, draft |-> <<>>, next |-> 1]
    BY <2>1 DEF NoRun
  <2>4. run' \in RunType
    BY <2>2, <2>3 DEF RunType
  <2> QED BY <1>1, <2>4 DEF StartImport, ImportType
<1>2. CASE InsertRow
  <2>1. run' = [run EXCEPT !.draft = Draft, !.next = @ + 1]
    BY <1>2 DEF InsertRow, Draft
  <2>2. RowsLeft
    BY <1>2 DEF InsertRow
  <2>3. Draft \in Seq(Headlines) /\ run \in RunType
    BY <2>2, DraftType DEF ImportType
  <2>4. run' = [on |-> run.on, range |-> run.range, chunk |-> run.chunk,
                draft |-> Draft, next |-> run.next + 1]
    BY <2>1, <2>3 DEF RunType
  <2>5. run.next + 1 \in Nat \ {0}
    BY <2>3 DEF RunType
  <2>6. run' \in RunType
    BY <2>3, <2>4, <2>5 DEF RunType
  <2> QED BY <1>2, <2>6 DEF InsertRow, ImportType
<1>3. CASE CommitChunk
  <2>1. archive' \in Seq(Headlines)
    BY <1>3 DEF CommitChunk, ImportType, RunType
  <2>2. run' = [run EXCEPT !.chunk = @ + 1, !.next = 1, !.draft = <<>>]
    BY <1>3 DEF CommitChunk
  <2>3. run \in RunType
    BY DEF ImportType
  <2>4. run' = [on |-> run.on, range |-> run.range, chunk |-> run.chunk + 1,
                draft |-> <<>>, next |-> 1]
    BY <2>2, <2>3 DEF RunType
  <2>5. run.chunk + 1 \in Nat \ {0} /\ 1 \in Nat \ {0} /\ <<>> \in Seq(Headlines)
    BY <2>3 DEF RunType
  <2>6. run' \in RunType
    BY <2>3, <2>4, <2>5 DEF RunType
  <2> QED BY <1>3, <2>1, <2>6 DEF CommitChunk, ImportType
<1>4. CASE FinishImport
  BY <1>4 DEF FinishImport, ImportType, RunType, NoRun
<1>5. CASE ImportDies
  BY <1>5 DEF ImportDies, ImportType, RunType, NoRun
<1>6. CASE UNCHANGED <<archive, importVars>>
  BY <1>6 DEF importVars, ImportType
<1> QED
  BY <1>1, <1>2, <1>3, <1>4, <1>5, <1>6
  DEF Next, Migrate, Import, DecideDay, Decide, vars

-----------------------------------------------------------------------------
(* No look-ahead *)

LEMMA QuotedRows ==
  ASSUME ImportType
  PROVE  Range(archive) \subseteq Headlines
BY DEF ImportType, Range

AsOfType == asOf \in Int

LEMMA AsOfInit == Init => AsOfType
BY ClockConstants DEF Init, WindowInit, AsOfType

LEMMA AsOfNext == AsOfType /\ [Next]_vars => AsOfType'
<1> SUFFICES ASSUME asOf \in Int, [Next]_vars PROVE asOf' \in Int
  BY DEF AsOfType
<1>1. CASE DecideDay
  <2>1. PICK d \in Sessions : asOf' = AsOf(d)
    BY <1>1 DEF DecideDay, Decide
  <2> QED BY <2>1, ClockConstants DEF AsOf
<1>2. CASE UNCHANGED windowVars
  BY <1>2 DEF windowVars
<1> QED BY <1>1, <1>2 DEF Next, Migrate, Import, vars

\* No agent of a backtest reads a headline that had not come out at its as_of
\* (HistoricalHeadlineSource and HeadlineRetriever), whatever was imported, in
\* however many runs, and whenever between two decisions.
THEOREM HeadlinesNeverLookAhead == Spec => []NoLookAhead
<1>1. ImportType /\ AsOfType => NoLookAhead
  <2> SUFFICES ASSUME ImportType, asOf \in Int, NEW d \in FirstDay..LastSession
               PROVE  \A h \in RecentHeadlines(asOf) \cup Around(d, asOf) : h.out < asOf
    BY DEF NoLookAhead, AsOfType
  <2>1. d \in Int
    OBVIOUS
  <2> QED BY <2>1, QuotedRows, QueriesLookBack
<1> QED
  BY <1>1, ImportTypeInit, ImportTypeNext, AsOfInit, AsOfNext, PTL DEF Spec

-----------------------------------------------------------------------------
(* No headline lost or repeated by the import *)

\* What the archive would hold if the running transaction were committed now.
Kept == Range(archive) \cup Range(run.draft)

\* The rows of the file up to here that match are kept, each once and no other.
ImportInv ==
  /\ IsInjective(archive)
  /\ IsInjective(run.draft)
  /\ Range(archive) \cap Range(run.draft) = {}
  /\ Kept \subseteq Range(csv) \ {Unusable}
  /\ run.draft # <<>> => ChunksLeft
  /\ run.next <= ChunkRows + 1
  /\ \A i \in 1..Len(csv) : i < Position /\ Matches(csv[i], run.range) => csv[i] \in Kept
  /\ \A range \in finished :
       \A i \in 1..Len(csv) : Matches(csv[i], range) => csv[i] \in Range(archive)

LEMMA ImportInvInit == Init => ImportInv
BY ImportConstants, ArchiveConstants
DEF Init, ImportInit, ImportInv, NoRun, Kept, Range, IsInjective, Position, ChunksLeft

\* Appending a new row leaves each row once.
LEMMA AppendNew ==
  ASSUME NEW S, NEW rows \in Seq(S), NEW row \in S
  PROVE  /\ Range(Append(rows, row)) = Range(rows) \cup {row}
         /\ IsInjective(rows) /\ row \notin Range(rows) => IsInjective(Append(rows, row))
<1> DEFINE more == Append(rows, row)
<1>1. /\ DOMAIN rows = 1..Len(rows) /\ Len(rows) \in Nat
      /\ DOMAIN more = 1..Len(rows) + 1
      /\ more[Len(rows) + 1] = row
      /\ \A i \in 1..Len(rows) : more[i] = rows[i]
  OBVIOUS
<1> HIDE DEF more
<1>2. Range(more) = Range(rows) \cup {row}
  BY <1>1 DEF Range
<1>3. ASSUME IsInjective(rows), row \notin Range(rows)
      PROVE  IsInjective(more)
  BY <1>1, <1>3 DEF IsInjective, Range
<1> QED BY <1>2, <1>3 DEF more

\* Joining rows that have none in common leaves each once.
LEMMA JoinDisjoint ==
  ASSUME NEW S, NEW r1 \in Seq(S), NEW r2 \in Seq(S)
  PROVE  /\ Range(r1 \o r2) = Range(r1) \cup Range(r2)
         /\ IsInjective(r1) /\ IsInjective(r2) /\ Range(r1) \cap Range(r2) = {}
              => IsInjective(r1 \o r2)
<1> DEFINE both == r1 \o r2
<1>1. /\ DOMAIN r1 = 1..Len(r1) /\ DOMAIN r2 = 1..Len(r2)
      /\ Len(r1) \in Nat /\ Len(r2) \in Nat
      /\ DOMAIN both = 1..Len(r1) + Len(r2)
      /\ \A i \in 1..Len(r1) : both[i] = r1[i]
      /\ \A i \in Len(r1) + 1..Len(r1) + Len(r2) : both[i] = r2[i - Len(r1)]
  OBVIOUS
<1>2. \A j \in 1..Len(r2) : both[Len(r1) + j] = r2[j]
  BY <1>1
<1> HIDE DEF both
<1>3. Range(both) = Range(r1) \cup Range(r2)
  <2>1. Range(both) \subseteq Range(r1) \cup Range(r2)
    BY <1>1 DEF Range
  <2>2. Range(r1) \subseteq Range(both)
    BY <1>1 DEF Range
  <2>3. Range(r2) \subseteq Range(both)
    <3>1. \A j \in 1..Len(r2) : Len(r1) + j \in 1..Len(r1) + Len(r2)
      BY <1>1
    <3> QED BY <1>1, <1>2, <3>1 DEF Range
  <2> QED BY <2>1, <2>2, <2>3
<1>4. ASSUME IsInjective(r1), IsInjective(r2), Range(r1) \cap Range(r2) = {},
             NEW a \in DOMAIN both, NEW b \in DOMAIN both, both[a] = both[b]
      PROVE  a = b
  <2>1. CASE a <= Len(r1) /\ b <= Len(r1)
    BY <1>1, <1>4, <2>1 DEF IsInjective
  <2>2. CASE a > Len(r1) /\ b > Len(r1)
    <3>1. a - Len(r1) \in 1..Len(r2) /\ b - Len(r1) \in 1..Len(r2)
      BY <1>1, <1>4, <2>2
    <3> a \in Len(r1) + 1..Len(r1) + Len(r2) /\ b \in Len(r1) + 1..Len(r1) + Len(r2)
      BY <1>1, <2>2
    <3>2. both[a] = r2[a - Len(r1)] /\ both[b] = r2[b - Len(r1)]
      BY <1>1
    <3>3. a - Len(r1) = b - Len(r1)
      BY <1>1, <1>4, <3>1, <3>2 DEF IsInjective
    <3> QED BY <1>1, <3>3
  <2>3. ASSUME NEW i \in DOMAIN both, NEW j \in DOMAIN both, i <= Len(r1), j > Len(r1)
        PROVE  both[i] # both[j]
    <3>1. both[i] = r1[i] /\ i \in DOMAIN r1
      BY <1>1, <2>3
    <3>2. both[j] = r2[j - Len(r1)] /\ j - Len(r1) \in DOMAIN r2
      BY <1>1, <2>3
    <3>3. r1[i] \in Range(r1) /\ r2[j - Len(r1)] \in Range(r2)
      BY <3>1, <3>2 DEF Range
    <3> QED BY <1>4, <3>1, <3>2, <3>3
  <2>4. a \in Int /\ b \in Int /\ Len(r1) \in Int
    BY <1>1, <1>4
  <2> QED BY <1>4, <2>1, <2>2, <2>3, <2>4
<1> QED BY <1>3, <1>4 DEF both, IsInjective

LEMMA InsertRowKeeps ==
  ASSUME ImportType, ImportInv, InsertRow
  PROVE  ImportInv'
<1>1. /\ csv' = csv /\ archive' = archive /\ finished' = finished /\ run \in RunType
      /\ RowsLeft
  BY DEF InsertRow, ImportType
<1>2. run' = [on |-> run.on, range |-> run.range, chunk |-> run.chunk,
              draft |-> Draft, next |-> run.next + 1]
  BY <1>1 DEF InsertRow, Draft, RunType
<1>3. /\ run.chunk \in Int /\ run.next \in Nat /\ run.next >= 1
      /\ ChunkRows * (run.chunk - 1) \in Int
      /\ Position \in 1..Len(csv) /\ Position' = Position + 1
  <2>1. run.chunk \in Nat \ {0} /\ run.chunk - 1 \in Nat /\ run.next \in Nat \ {0}
    BY <1>1 DEF RunType
  <2>2. ChunkRows * (run.chunk - 1) \in Nat
    BY <2>1, ImportConstants
  <2>3. Position' = Position + 1
    BY <1>2, <2>1, <2>2 DEF Position
  <2> QED BY <1>1, <2>1, <2>2, <2>3, PositionInFile
<1> DEFINE row == csv[Position]
<1>4. CASE Matches(row, run.range) /\ row \notin Kept
  <2>1. Draft = Append(run.draft, row) /\ row \in Headlines /\ row # Unusable
    BY <1>1, <1>4, PositionInFile DEF Draft, Inserted, Kept, Matches
  <2>2. run.draft \in Seq(Headlines)
    BY <1>1 DEF RunType
  <2>3. /\ Range(Draft) = Range(run.draft) \cup {row}
        /\ IsInjective(Draft)
    BY <1>4, <2>1, <2>2, AppendNew DEF ImportInv, Kept
  <2>4. row \in Range(csv)
    BY <1>3 DEF ImportType, Range
  <2>5. Kept' = Kept \cup {row}
    BY <1>1, <1>2, <2>3 DEF Kept
  <2>6. ChunksLeft'
    <3>1. run'.chunk = run.chunk
      BY <1>2
    <3>2. ChunkRows * (run.chunk - 1) < Len(csv)
      BY <1>3 DEF Position, ImportType
    <3> QED BY <1>1, <3>1, <3>2 DEF ChunksLeft
  <2>7. run'.next <= ChunkRows + 1
    BY <1>1, <1>2, <1>3, ImportConstants DEF RowsLeft
  <2>8. ASSUME NEW i \in 1..Len(csv), i < Position', Matches(csv[i], run.range)
        PROVE  csv[i] \in Kept'
    <3>1. i < Position \/ i = Position
      BY <1>3, <2>8
    <3> QED BY <2>5, <2>8, <3>1 DEF ImportInv
  <2>9. Range(archive) \cap Range(Draft) = {}
    BY <1>4, <2>3 DEF Kept, ImportInv
  <2>10. Kept' \subseteq Range(csv) \ {Unusable}
    BY <2>1, <2>4, <2>5 DEF ImportInv
  <2>11. run'.draft = Draft /\ run'.range = run.range
    BY <1>2
  <2> HIDE DEF row
  <2> QED
    BY <1>1, <2>3, <2>6, <2>7, <2>8, <2>9, <2>10, <2>11 DEF ImportInv
<1>5. CASE ~(Matches(row, run.range) /\ row \notin Kept)
  <2>1. Draft = run.draft
    BY <1>5 DEF Draft, Inserted, Kept
  <2>2. run'.draft = run.draft /\ run'.range = run.range /\ run'.chunk = run.chunk
    BY <1>2, <2>1
  <2>3. Kept' = Kept /\ (ChunksLeft' <=> ChunksLeft)
    BY <1>1, <2>2 DEF Kept, ChunksLeft
  <2>4. run'.next <= ChunkRows + 1
    BY <1>1, <1>2, <1>3, ImportConstants DEF RowsLeft
  <2>5. ASSUME NEW i \in 1..Len(csv), i < Position', Matches(csv[i], run.range)
        PROVE  csv[i] \in Kept
    <3>1. i < Position \/ i = Position
      BY <1>3, <2>5
    <3> QED BY <1>5, <2>5, <3>1 DEF ImportInv
  <2> HIDE DEF row
  <2> QED BY <1>1, <2>2, <2>3, <2>4, <2>5 DEF ImportInv
<1> QED BY <1>4, <1>5

LEMMA CommitChunkKeeps ==
  ASSUME ImportType, ImportInv, CommitChunk
  PROVE  ImportInv'
<1>1. /\ csv' = csv /\ archive' = archive \o run.draft /\ finished' = finished
      /\ run \in RunType /\ archive \in Seq(Headlines) /\ ~RowsLeft
  BY DEF CommitChunk, ImportType
<1>2. run' = [on |-> run.on, range |-> run.range, chunk |-> run.chunk + 1,
              draft |-> <<>>, next |-> 1]
  BY <1>1 DEF CommitChunk, RunType
<1>3. run.draft \in Seq(Headlines)
  BY <1>1 DEF RunType
<1>4. Range(archive') = Kept /\ IsInjective(archive')
  BY <1>1, <1>3, JoinDisjoint DEF Kept, ImportInv
<1>5. Range(run'.draft) = {} /\ IsInjective(run'.draft) /\ run'.draft = <<>> /\ run'.range = run.range
  BY <1>2 DEF Range, IsInjective
<1>6. Kept' = Kept
  BY <1>4, <1>5 DEF Kept
<1>7. run'.next <= ChunkRows + 1
  BY <1>2, ImportConstants
<1>8. ASSUME NEW i \in 1..Len(csv), i < Position'
      PROVE  i < Position
  <2>1. run.chunk \in Int /\ run.next \in Int /\ ChunkRows \in Int /\ Len(csv) \in Int
    BY <1>1, ImportConstants DEF RunType, ImportType
  <2>2. ChunkRows * run.chunk \in Int /\ ChunkRows * (run.chunk - 1) = ChunkRows * run.chunk - ChunkRows
    BY <2>1
  <2>3. PICK end \in Int : end = ChunkRows * run.chunk
    BY <2>2
  <2>4. Position' = end + 1
    BY <1>2, <2>1, <2>2, <2>3 DEF Position
  <2>5. Position = end - ChunkRows + run.next
    BY <2>2, <2>3 DEF Position
  <2>6. i \in Int /\ i <= Len(csv) /\ i < end + 1
    BY <1>8, <2>1, <2>4
  <2>7. CASE run.next > ChunkRows
    BY <2>1, <2>5, <2>6, <2>7
  <2>8. CASE run.next <= ChunkRows
    <3>1. Position > Len(csv)
      BY <1>1, <2>1, <2>3, <2>5, <2>8 DEF RowsLeft
    <3> QED BY <2>1, <2>5, <2>6, <3>1
  <2> QED BY <2>1, <2>7, <2>8
<1> QED
  BY <1>1, <1>4, <1>5, <1>6, <1>7, <1>8 DEF ImportInv, Kept

\* A run that ends without a draft leaves what is committed as it was.
LEMMA RunEnds ==
  ASSUME ImportType, ImportInv, run' = NoRun, UNCHANGED <<csv, archive>>,
         \A range \in finished' :
           \A i \in 1..Len(csv) : Matches(csv[i], range) => csv[i] \in Range(archive)
  PROVE  ImportInv'
<1>1. /\ run'.draft = <<>> /\ run'.next = 1
      /\ Range(run'.draft) = {} /\ IsInjective(run'.draft)
  BY DEF NoRun, Range, IsInjective
<1>2. Position' = 1
  BY ImportConstants DEF NoRun, Position
<1>3. Kept' \subseteq Kept
  BY <1>1 DEF Kept
<1> QED BY <1>1, <1>2, <1>3, ImportConstants DEF ImportInv

LEMMA ImportInvNext == ImportType /\ ImportInv /\ [Next]_vars => ImportInv'
<1> SUFFICES ASSUME ImportType, ImportInv, [Next]_vars PROVE ImportInv'
  OBVIOUS
<1>1. CASE StartImport
  <2>1. PICK range \in Ranges : run' = [NoRun EXCEPT !.on = TRUE, !.range = range]
    BY <1>1 DEF StartImport
  <2>2. run'.draft = <<>> /\ run'.next = 1 /\ run'.chunk = 1
    BY <2>1 DEF NoRun
  <2>3. Range(run'.draft) = {} /\ IsInjective(run'.draft)
    BY <2>2 DEF Range, IsInjective
  <2>4. Position' = 1 /\ Kept' \subseteq Kept
    BY <1>1, <2>2, <2>3, ImportConstants DEF StartImport, Position, Kept
  <2> QED BY <1>1, <2>2, <2>3, <2>4, ImportConstants DEF StartImport, ImportInv
<1>2. CASE InsertRow
  BY <1>2, InsertRowKeeps
<1>3. CASE CommitChunk
  BY <1>3, CommitChunkKeeps
<1>4. CASE FinishImport
  <2>1. run.draft = <<>> /\ run \in RunType /\ Len(csv) \in Int
    BY <1>4 DEF FinishImport, ImportInv, ImportType
  <2>2. Kept = Range(archive)
    BY <2>1 DEF Kept, Range
  <2>3. Len(csv) < Position
    <3>1. run.next \in Nat /\ run.next >= 1 /\ run.chunk \in Int
      BY <2>1 DEF RunType
    <3>2. ChunkRows * (run.chunk - 1) \in Int
      BY <3>1, ImportConstants
    <3> QED BY <1>4, <2>1, <3>1, <3>2 DEF FinishImport, ChunksLeft, Position
  <2>4. Position \in Int
    BY <2>1, ImportConstants DEF Position, RunType
  <2>5. \A i \in 1..Len(csv) : Matches(csv[i], run.range) => csv[i] \in Range(archive)
    BY <2>1, <2>2, <2>3, <2>4 DEF ImportInv
  <2> QED BY <1>4, <2>5, RunEnds DEF FinishImport, ImportInv
<1>5. CASE ImportDies
  BY <1>5, RunEnds DEF ImportDies, ImportInv
<1>6. CASE UNCHANGED <<archive, importVars>>
  BY <1>6 DEF importVars, ImportInv, Kept, ChunksLeft, Position
<1> QED
  BY <1>1, <1>2, <1>3, <1>4, <1>5, <1>6
  DEF Next, Migrate, Import, DecideDay, Decide, vars

\* An archive built by any number of runs, killed anywhere, holds each headline
\* once, nothing else, and all that a run which came to its end was to import
\* (import_fnspid.main with migration 004's unique index).
THEOREM ImportsAddUp == Spec => []ImportedOnce
<1>1. ImportType /\ ImportInv => ImportedOnce
  <2> SUFFICES ASSUME ImportType, ImportInv PROVE ImportedOnce
    OBVIOUS
  <2>1. ASSUME NEW range \in finished, NEW row \in Range(csv), Matches(row, range)
        PROVE  row \in Range(archive)
    <3>1. PICK i \in 1..Len(csv) : row = csv[i]
      BY DEF Range, ImportType
    <3> QED BY <2>1, <3>1 DEF ImportInv
  <2> QED BY <2>1 DEF ImportInv, ImportedOnce, Kept
<1> QED
  BY <1>1, ImportTypeInit, ImportTypeNext, ImportInvInit, ImportInvNext, PTL DEF Spec

-----------------------------------------------------------------------------
(* The migrations *)

RunnerType == [pc : {"stopped", "connected", "applying", "executed", "migrated"},
               applied : SUBSET Files, ran : Seq(Files), noted : SUBSET Files]

\* The files that ran are the first few, and they are the recorded ones.
Applied == Len(schema)

SchemaInv ==
  /\ schema \in Seq(Files)
  /\ \A i \in 1..Applied : schema[i] = i
  /\ Applied <= LastFile
  /\ recorded = 1..Applied
  /\ runner \in [Runners -> RunnerType]

\* An open transaction continues what it read, in order; when it ran a file, what
\* it read is all there is, and no other transaction has run one.
OpenTransaction(r) ==
  LET n == Len(runner[r].ran)
  IN  \E a \in 0..Applied :
        /\ runner[r].applied = 1..a
        /\ a + n <= LastFile
        /\ \A i \in 1..n : runner[r].ran[i] = a + i
        /\ runner[r].pc = "applying" => runner[r].noted = a + 1..a + n
        /\ runner[r].pc = "executed" => runner[r].noted = a + 1..a + n - 1 /\ n > 0
        /\ n > 0 => a = Applied

RunnerInv ==
  /\ \A r \in Runners : runner[r].pc \in {"applying", "executed"} => OpenTransaction(r)
  /\ \A r \in Runners : runner[r].pc \notin {"applying", "executed"} =>
                         runner[r].ran = <<>> /\ runner[r].noted = {}
  /\ \A r, o \in Runners : r # o => runner[r].ran = <<>> \/ runner[o].ran = <<>>

MigrationInv == SchemaInv /\ RunnerInv

LEMMA StoppedType == Stopped \in RunnerType
BY DEF Stopped, Idle, RunnerType

LEMMA MigrationInvInit == Init => MigrationInv
<1> SUFFICES ASSUME Init PROVE MigrationInv
  OBVIOUS
<1>1. PICK k \in 0..LastFile : schema = [i \in 1..k |-> i]
  BY DEF Init, MigrationInit
<1>2. k \in Nat /\ LastFile \in Nat /\ 1..k \subseteq Files
  BY MigrationConstants DEF Files
<1>3. schema \in Seq(Files) /\ Len(schema) = k
  BY <1>1, <1>2
<1>4. recorded = 1..k
  BY <1>1 DEF Init, MigrationInit, Range
<1>5. runner = [r \in Runners |-> Stopped]
  BY DEF Init, MigrationInit
<1>6. SchemaInv
  BY <1>1, <1>2, <1>3, <1>4, <1>5, StoppedType DEF SchemaInv, Applied
<1>7. RunnerInv
  BY <1>5 DEF RunnerInv, Stopped, Idle
<1> QED BY <1>6, <1>7 DEF MigrationInv

\* What is left to do starts with the file after those read and run.
LEMMA NextFileIs ==
  ASSUME MigrationInv, NEW r \in Runners, runner[r].pc = "applying", Pending(r) # {},
         NEW a \in 0..Applied, runner[r].applied = 1..a,
         NEW n \in Nat, runner[r].noted = a + 1..a + n, a + n <= LastFile
  PROVE  NextFile(r) = a + n + 1 /\ NextFile(r) \in Files
<1>1. a \in Nat /\ LastFile \in Nat
  BY MigrationConstants DEF MigrationInv, SchemaInv
<1>2. Pending(r) = a + n + 1..LastFile
  BY <1>1 DEF Pending, Files
<1>3. a + n + 1 \in Pending(r) /\ \A f \in Pending(r) : a + n + 1 <= f /\ f \in Int
  BY <1>1, <1>2
<1>4. NextFile(r) \in Pending(r) /\ \A f \in Pending(r) : NextFile(r) <= f
  BY <1>3 DEF NextFile, Min
<1>5. NextFile(r) = a + n + 1
  BY <1>1, <1>3, <1>4
<1> QED BY <1>4, <1>5 DEF Pending

\* A step of one runner that leaves the committed state as it is.
LEMMA StepOfOne ==
  ASSUME MigrationInv, UNCHANGED <<schema, recorded>>,
         NEW r \in Runners, NEW x \in RunnerType, runner' = [runner EXCEPT ![r] = x],
         x.pc \in {"applying", "executed"} => OpenTransaction(r)',
         x.pc \notin {"applying", "executed"} => x.ran = <<>> /\ x.noted = {},
         x.ran = <<>> \/ \A o \in Runners \ {r} : runner[o].ran = <<>>
  PROVE  MigrationInv'
<1>1. runner' \in [Runners -> RunnerType]
  BY DEF MigrationInv, SchemaInv
<1>2. SchemaInv'
  BY <1>1 DEF MigrationInv, SchemaInv, Applied
<1>3. runner'[r] = x /\ \A o \in Runners \ {r} : runner'[o] = runner[o]
  BY DEF MigrationInv, SchemaInv
<1>4. ASSUME NEW o \in Runners, runner'[o].pc \in {"applying", "executed"}
      PROVE  OpenTransaction(o)'
  <2>1. CASE o = r
    BY <1>3, <1>4, <2>1
  <2>2. CASE o # r
    <3>1. OpenTransaction(o)
      BY <1>3, <1>4, <2>2 DEF MigrationInv, RunnerInv
    <3> QED BY <1>3, <2>2, <3>1 DEF OpenTransaction, Applied
  <2> QED BY <2>1, <2>2
<1>5. ASSUME NEW o \in Runners, runner'[o].pc \notin {"applying", "executed"}
      PROVE  runner'[o].ran = <<>> /\ runner'[o].noted = {}
  BY <1>3, <1>5 DEF MigrationInv, RunnerInv
<1>6. ASSUME NEW o \in Runners, NEW q \in Runners, o # q
      PROVE  runner'[o].ran = <<>> \/ runner'[q].ran = <<>>
  BY <1>3, <1>6 DEF MigrationInv, RunnerInv
<1> QED BY <1>2, <1>4, <1>5, <1>6 DEF MigrationInv, RunnerInv

\* Executing the next file of an open transaction (migrate.py:64).
LEMMA ExecuteKeeps ==
  ASSUME MigrationInv, NEW r \in Runners, Execute(r)
  PROVE  MigrationInv'
<1>1. /\ runner[r] \in RunnerType /\ runner[r].pc = "applying" /\ Pending(r) # {}
      /\ ~Blocked(r) /\ Executable(r) /\ OpenTransaction(r)
  BY DEF Execute, MigrationInv, SchemaInv, RunnerInv
<1> DEFINE ran == runner[r].ran
           n == Len(ran)
           more == Append(ran, NextFile(r))
           x == [pc |-> "executed", applied |-> runner[r].applied,
                 ran |-> more, noted |-> runner[r].noted]
<1>2. ran \in Seq(Files) /\ n \in Nat /\ DOMAIN ran = 1..n
  BY <1>1 DEF RunnerType
<1>3. PICK a \in 0..Applied :
        /\ runner[r].applied = 1..a /\ a + n <= LastFile
        /\ \A i \in 1..n : ran[i] = a + i
        /\ runner[r].noted = a + 1..a + n
        /\ n > 0 => a = Applied
  BY <1>1 DEF OpenTransaction
<1>4. /\ NextFile(r) = a + n + 1 /\ NextFile(r) \in Files
  BY <1>1, <1>2, <1>3, NextFileIs
<1>5. /\ schema \in Seq(Files) /\ Applied \in Nat /\ a \in Nat
      /\ \A i \in 1..Applied : i \in Range(schema)
  BY DEF MigrationInv, SchemaInv, Applied, Range
<1>6. a = Applied
  <2>1. NextFile(r) \notin Range(schema)
    BY <1>1 DEF Executable
  <2>2. CASE n = 0
    BY <1>4, <1>5, <2>1, <2>2
  <2> QED BY <1>2, <1>3, <2>2
<1>7. ASSUME NEW o \in Runners \ {r}, runner[o].ran # <<>>
      PROVE  FALSE
  <2>1. runner[r].ran = <<>>
    BY <1>7 DEF MigrationInv, RunnerInv
  <2>2. NextFile(r) = Applied + 1
    BY <1>2, <1>4, <1>5, <1>6, <2>1
  <2>3. OpenTransaction(o) /\ runner[o].ran \in Seq(Files)
    BY <1>7 DEF MigrationInv, RunnerInv, SchemaInv, RunnerType
  <2>4. Len(runner[o].ran) \in Nat /\ Len(runner[o].ran) > 0 /\ 1 \in DOMAIN runner[o].ran
    BY <1>7, <2>3
  <2>5. runner[o].ran[1] = Applied + 1
    BY <2>3, <2>4 DEF OpenTransaction
  <2>6. NextFile(r) \in Range(runner[o].ran)
    BY <2>2, <2>4, <2>5 DEF Range
  <2> QED BY <1>1, <2>6 DEF Blocked
<1>8. /\ more \in Seq(Files) /\ Len(more) = n + 1
      /\ \A i \in 1..n + 1 : more[i] = a + i
  <2>1. more \in Seq(Files) /\ Len(more) = n + 1
    BY <1>2, <1>4
  <2>2. \A i \in 1..n : more[i] = a + i
    BY <1>2, <1>3
  <2>3. more[n + 1] = a + (n + 1)
    BY <1>2, <1>4, <1>5
  <2>4. \A i \in 1..n + 1 : i \in 1..n \/ i = n + 1
    BY <1>2
  <2> QED BY <2>1, <2>2, <2>3, <2>4
<1>9. runner' = [runner EXCEPT ![r] = Runs(runner[r], NextFile(r))]
  BY DEF Execute, MigrationInv, SchemaInv
<1>10. Runs(runner[r], NextFile(r)) = x
  BY DEF Runs
<1> HIDE DEF ran, more
<1>11. x \in RunnerType /\ x.pc = "executed"
  <2>1. runner[r].applied \in SUBSET Files /\ runner[r].noted \in SUBSET Files
    BY <1>1 DEF RunnerType
  <2> QED BY <1>8, <2>1 DEF RunnerType
<1>12. runner' = [runner EXCEPT ![r] = x] /\ UNCHANGED <<schema, recorded>>
  BY <1>9, <1>10 DEF Execute
<1>13. runner'[r] = x /\ x.ran = more /\ x.applied = 1..a /\ x.noted = a + 1..a + n
  BY <1>3, <1>12 DEF MigrationInv, SchemaInv
<1> HIDE DEF x
<1>14. OpenTransaction(r)'
  <2>1. a + (n + 1) <= LastFile /\ a + (n + 1) - 1 = a + n /\ n + 1 > 0
    BY <1>2, <1>4, <1>5, MigrationConstants DEF Files
  <2>2. Applied' = Applied
    BY <1>12 DEF Applied
  <2>3. a \in 0..Applied'
    BY <2>2
  <2> QED
    BY <1>6, <1>8, <1>11, <1>13, <2>1, <2>2, <2>3 DEF OpenTransaction
<1> QED BY <1>7, <1>11, <1>12, <1>14, StepOfOne

LEMMA OneMore ==
  ASSUME NEW a \in Nat, NEW n \in Nat, n > 0
  PROVE  (a + 1..a + n - 1) \cup {a + n} = a + 1..a + n
OBVIOUS

\* Recording it.
LEMMA NoteKeeps ==
  ASSUME MigrationInv, NEW r \in Runners, Note(r)
  PROVE  MigrationInv'
<1> DEFINE y == runner[r]
           n == Len(y.ran)
           x == Notes(y, NextFile(r))
<1>1. /\ y \in RunnerType /\ y.pc = "executed" /\ OpenTransaction(r)
      /\ runner' = [runner EXCEPT ![r] = x] /\ UNCHANGED <<schema, recorded>>
  BY DEF Note, MigrationInv, SchemaInv, RunnerInv
<1>2. PICK a \in 0..Applied :
        /\ y.applied = 1..a /\ a + n <= LastFile
        /\ \A i \in 1..n : y.ran[i] = a + i
        /\ y.noted = a + 1..a + n - 1 /\ n > 0
        /\ n > 0 => a = Applied
  BY <1>1 DEF OpenTransaction
<1>3. n \in Nat /\ a \in Nat /\ LastFile \in Nat /\ y.ran # <<>>
  BY <1>1, <1>2, MigrationConstants DEF RunnerType, MigrationInv, SchemaInv, Applied
<1>4. NextFile(r) = a + n /\ a + n \in Files
  <2>1. Pending(r) = a + n..LastFile
    BY <1>2, <1>3 DEF Pending, Files
  <2>2. a + n \in Pending(r) /\ \A f \in Pending(r) : a + n <= f /\ f \in Int
    BY <1>2, <1>3, <2>1
  <2>3. NextFile(r) \in Pending(r) /\ \A f \in Pending(r) : NextFile(r) <= f
    BY <2>2 DEF NextFile, Min
  <2>4. NextFile(r) = a + n
    BY <1>3, <2>2, <2>3
  <2> QED BY <2>2, <2>4 DEF Pending
<1>5. x.noted = a + 1..a + n /\ x.pc = "applying" /\ x.ran = y.ran /\ x.applied = y.applied
  <2>1. (a + 1..a + n - 1) \cup {a + n} = a + 1..a + n
    BY <1>2, <1>3, OneMore
  <2>2. /\ x.noted = y.noted \cup {NextFile(r)}
        /\ x.pc = "applying" /\ x.ran = y.ran /\ x.applied = y.applied
    BY DEF Notes
  <2> QED BY <1>2, <1>4, <2>1, <2>2
<1>6. x \in RunnerType
  <2>1. y.applied \in SUBSET Files /\ y.ran \in Seq(Files) /\ y.noted \cup {NextFile(r)} \in SUBSET Files
    BY <1>1, <1>4 DEF RunnerType
  <2> QED BY <2>1 DEF RunnerType, Notes
<1>7. runner'[r] = x /\ Applied' = Applied /\ Len(x.ran) = n /\ x.applied = 1..a
  BY <1>1, <1>2, <1>5 DEF MigrationInv, SchemaInv, Applied
<1> HIDE DEF x
<1>8. OpenTransaction(r)'
  <2>1. \A i \in 1..n : x.ran[i] = a + i
    BY <1>2, <1>5
  <2> HIDE DEF n, y
  <2> QED BY <1>2, <1>5, <1>7, <2>1 DEF OpenTransaction
<1>9. \A o \in Runners \ {r} : runner[o].ran = <<>>
  BY <1>3 DEF MigrationInv, RunnerInv
<1> QED BY <1>1, <1>5, <1>6, <1>8, <1>9, StepOfOne

LEMMA AlreadyAppliedKeeps ==
  ASSUME MigrationInv, NEW r \in Runners, AlreadyApplied(r)
  PROVE  MigrationInv'
<1> DEFINE x == Reads(runner[r])
<1>1. /\ runner[r] \in RunnerType /\ runner[r].pc = "connected" /\ runner[r].ran = <<>>
      /\ runner' = [runner EXCEPT ![r] = x] /\ UNCHANGED <<schema, recorded>>
      /\ recorded = 1..Applied /\ Applied \in Nat /\ Applied <= LastFile
  BY DEF AlreadyApplied, MigrationInv, SchemaInv, RunnerInv, Applied
<1>2. CASE runner[r].noted = {}
  <2>1. x \in RunnerType
    BY <1>1, <1>2, MigrationConstants DEF RunnerType, Reads, Files
  <2>2. x.pc = "applying" /\ x.applied = 1..Applied /\ x.ran = <<>> /\ x.noted = {}
    BY <1>1, <1>2 DEF Reads
  <2>3. runner'[r] = x /\ Applied' = Applied
    BY <1>1 DEF MigrationInv, SchemaInv, Applied
  <2> HIDE DEF x
  <2>4. OpenTransaction(r)'
    <3>1. Len(x.ran) = 0 /\ {} = Applied + 1..Applied + 0
      BY <1>1, <2>2
    <3>2. \A i \in 1..0 : x.ran[i] = Applied + i
      OBVIOUS
    <3>3. Applied \in 0..Applied' /\ Applied + 0 <= LastFile
      BY <1>1, <2>3
    <3> QED BY <2>2, <2>3, <3>1, <3>2, <3>3 DEF OpenTransaction
  <2> QED BY <1>1, <2>1, <2>2, <2>4, StepOfOne
<1>3. runner[r].noted = {}
  BY <1>1 DEF MigrationInv, RunnerInv
<1> QED BY <1>2, <1>3

\* The commit (the end of `with psycopg.connect`): all files, or none were left.
LEMMA CommitFilesKeeps ==
  ASSUME MigrationInv, NEW r \in Runners, CommitFiles(r)
  PROVE  /\ MigrationInv'
         /\ schema' # schema => Range(schema') = Files
<1> DEFINE ran == runner[r].ran
           n == Len(ran)
           x == Idle("migrated")
<1>1. /\ runner[r] \in RunnerType /\ OpenTransaction(r) /\ runner[r].pc = "applying"
      /\ schema' = schema \o ran /\ recorded' = recorded \cup runner[r].noted
      /\ runner' = [runner EXCEPT ![r] = x] /\ Pending(r) = {}
  BY DEF CommitFiles, MigrationInv, SchemaInv, RunnerInv
<1>2. PICK a \in 0..Applied :
        /\ runner[r].applied = 1..a /\ a + n <= LastFile
        /\ \A i \in 1..n : ran[i] = a + i
        /\ runner[r].noted = a + 1..a + n
        /\ n > 0 => a = Applied
  BY <1>1 DEF OpenTransaction
<1>3. /\ ran \in Seq(Files) /\ n \in Nat /\ a \in Nat /\ Applied \in Nat
      /\ schema \in Seq(Files) /\ LastFile \in Nat /\ LastFile > 0 /\ Applied <= LastFile
      /\ recorded = 1..Applied /\ \A i \in 1..Applied : schema[i] = i
  BY <1>1, <1>2, MigrationConstants DEF RunnerType, MigrationInv, SchemaInv, Applied
<1>4. a + n = LastFile
  <2>1. LastFile \in (1..a) \cup (a + 1..a + n)
    <3>1. LastFile \in Files
      BY <1>3 DEF Files
    <3>2. LastFile \in runner[r].applied \cup runner[r].noted
      BY <1>1, <3>1 DEF Pending
    <3> QED BY <1>2, <3>2
  <2>2. a + n \in Int
    BY <1>3
  <2> HIDE DEF n
  <2> QED BY <1>2, <1>3, <2>1, <2>2
<1>5. Applied + n = LastFile /\ Applied' = LastFile
  <2>1. Applied + n = LastFile
    BY <1>2, <1>3, <1>4
  <2>2. Len(schema \o ran) = Applied + n
    BY <1>3 DEF Applied
  <2> QED BY <1>1, <2>1, <2>2 DEF Applied
<1>6. \A i \in 1..LastFile : schema'[i] = i
  <2>1. ASSUME NEW i \in 1..Applied
        PROVE  schema'[i] = i
    BY <1>1, <1>3 DEF Applied
  <2>2. ASSUME NEW j \in 1..n
        PROVE  schema'[Applied + j] = Applied + j
    <3>1. (schema \o ran)[Len(schema) + j] = ran[j]
      BY <1>3
    <3>2. ran[j] = a + j /\ a = Applied
      BY <1>2, <1>3
    <3> QED BY <1>1, <3>1, <3>2 DEF Applied
  <2>3. ASSUME NEW i \in 1..LastFile, i > Applied
        PROVE  schema'[i] = i
    <3>1. i - Applied \in 1..n /\ i = Applied + (i - Applied)
      BY <1>3, <1>5, <2>3
    <3> QED BY <2>2, <3>1
  <2>4. \A i \in 1..LastFile : i \in 1..Applied \/ i > Applied
    BY <1>3
  <2> QED BY <2>1, <2>3, <2>4
<1>7. recorded' = 1..LastFile
  <2>1. recorded' = (1..Applied) \cup (a + 1..a + n)
    BY <1>1, <1>2, <1>3
  <2> QED BY <1>2, <1>3, <1>4, <1>5, <2>1
<1>8. x.pc = "migrated" /\ x.ran = <<>> /\ x.noted = {} /\ x \in RunnerType
  BY DEF Idle, RunnerType
<1>9. runner'[r] = x /\ (\A o \in Runners \ {r} : runner'[o] = runner[o])
      /\ runner' \in [Runners -> RunnerType]
  BY <1>1, <1>8 DEF MigrationInv, SchemaInv
<1>10. schema' \in Seq(Files)
  BY <1>1, <1>3
<1> HIDE DEF x, n, ran
<1>11. SchemaInv'
  BY <1>3, <1>5, <1>6, <1>7, <1>9, <1>10 DEF SchemaInv, Applied
<1>12. ASSUME NEW o \in Runners, runner'[o].pc \in {"applying", "executed"}
       PROVE  OpenTransaction(o)'
  <2> DEFINE m == Len(runner[o].ran)
  <2>1. o # r /\ runner'[o] = runner[o]
    BY <1>8, <1>9, <1>12
  <2>2. OpenTransaction(o)
    BY <1>12, <2>1 DEF MigrationInv, RunnerInv
  <2>3. m > 0 => n = 0
    BY <2>1 DEF MigrationInv, RunnerInv, n, ran
  <2>4. PICK b \in 0..Applied :
          /\ runner[o].applied = 1..b /\ b + m <= LastFile
          /\ \A i \in 1..m : runner[o].ran[i] = b + i
          /\ runner[o].pc = "applying" => runner[o].noted = b + 1..b + m
          /\ runner[o].pc = "executed" => runner[o].noted = b + 1..b + m - 1 /\ m > 0
          /\ m > 0 => b = Applied
    BY <2>2 DEF OpenTransaction
  <2>5. b \in 0..Applied' /\ (m > 0 => b = Applied')
    BY <1>3, <1>5, <2>3, <2>4
  <2> QED BY <2>1, <2>4, <2>5 DEF OpenTransaction
<1>13. RunnerInv'
  BY <1>8, <1>9, <1>12 DEF MigrationInv, RunnerInv
<1>14. Range(schema') = Files
  <2>1. DOMAIN schema' = 1..LastFile
    BY <1>5, <1>10 DEF Applied
  <2> QED BY <1>6, <2>1 DEF Range, Files
<1> QED BY <1>11, <1>13, <1>14 DEF MigrationInv

LEMMA MigrationInvNext ==
  ASSUME MigrationInv, [Next]_vars
  PROVE  MigrationInv' /\ (schema' # schema => Range(schema') = Files)
<1>1. CASE \E r \in Runners : CommitFiles(r)
  BY <1>1, CommitFilesKeeps
<1>2. CASE \E r \in Runners : AlreadyApplied(r) \/ Execute(r) \/ Note(r)
  BY <1>2, AlreadyAppliedKeeps, ExecuteKeeps, NoteKeeps
     DEF AlreadyApplied, Execute, Note
<1>3. CASE \E r \in Runners : Connect(r) \/ RunnerFails(r) \/ Seed(r)
  <2>1. PICK r \in Runners : Connect(r) \/ RunnerFails(r) \/ Seed(r)
    BY <1>3
  <2>2. runner \in [Runners -> RunnerType] /\ UNCHANGED <<schema, recorded>>
    BY <2>1 DEF MigrationInv, SchemaInv, Connect, RunnerFails, UndoFiles, Seed
  <2>3. CASE Connect(r)
    <3>1. [runner[r] EXCEPT !.pc = "connected"] \in RunnerType
      BY <2>2 DEF RunnerType
    <3>2. runner[r].ran = <<>> /\ runner[r].noted = {}
      BY <2>3 DEF Connect, MigrationInv, RunnerInv
    <3>3. /\ [runner[r] EXCEPT !.pc = "connected"].pc = "connected"
          /\ [runner[r] EXCEPT !.pc = "connected"].ran = runner[r].ran
          /\ [runner[r] EXCEPT !.pc = "connected"].noted = runner[r].noted
      BY <2>2 DEF RunnerType
    <3> QED BY <2>2, <2>3, <3>1, <3>2, <3>3, StepOfOne DEF Connect
  <2>4. CASE RunnerFails(r) \/ Seed(r)
    <3>1. runner' = [runner EXCEPT ![r] = Stopped]
      BY <2>4 DEF RunnerFails, Seed
    <3>2. Stopped.pc = "stopped" /\ Stopped.ran = <<>> /\ Stopped.noted = {}
      BY DEF Stopped, Idle
    <3> QED BY <2>2, <3>1, <3>2, StoppedType, StepOfOne
  <2> QED BY <2>1, <2>3, <2>4
<1>4. CASE UNCHANGED migrationVars
  BY <1>4 DEF migrationVars, MigrationInv, SchemaInv, RunnerInv, OpenTransaction, Applied
<1> QED
  BY <1>1, <1>2, <1>3, <1>4 DEF Next, Migrate, MigrationNext, Import, DecideDay, vars

\* However many containers bootstrap a database at once, and wherever each fails:
\* the files that ran are 1 to some k, each once and in order, and schema_migrations
\* lists them (migrate.py).
THEOREM SchemaStaysRecorded == Spec => []SchemaIsRecorded
<1>1. MigrationInv => SchemaIsRecorded
  <2> SUFFICES ASSUME MigrationInv PROVE SchemaIsRecorded
    OBVIOUS
  <2>1. schema \in Seq(Files) /\ \A i \in 1..Len(schema) : schema[i] = i
    BY DEF MigrationInv, SchemaInv, Applied
  <2>2. DOMAIN schema = 1..Len(schema) /\ schema = [i \in 1..Len(schema) |-> i]
    BY <2>1
  <2>3. Range(schema) = 1..Len(schema)
    BY <2>1, <2>2 DEF Range
  <2> QED BY <2>2, <2>3 DEF SchemaIsRecorded, MigrationInv, SchemaInv, Applied
<1> QED
  BY <1>1, MigrationInvInit, MigrationInvNext, PTL DEF Spec

\* A run of migrate.py commits every pending file or none.
THEOREM MigrationsAreWhole == Spec => AllFilesOrNone
<1>1. MigrationInv /\ [Next]_vars => [schema' # schema => Range(schema') = Files]_migrationVars
  BY MigrationInvNext
<1> QED
  BY <1>1, MigrationInvInit, MigrationInvNext, PTL DEF Spec, AllFilesOrNone

-----------------------------------------------------------------------------
(* The bounds on published_at lose no headline *)

LEMMA DivBounds ==
  ASSUME NEW a \in Int, NEW b \in Nat \ {0}
  PROVE  /\ a \div b \in Int
         /\ b * (a \div b) <= a /\ a < b * (a \div b) + b
OBVIOUS

LEMMA DayTicksGrow ==
  ASSUME NEW d \in Int, NEW e \in Int, d <= e
  PROVE  DayTicks * d \in Int /\ DayTicks * e \in Int /\ DayTicks * d <= DayTicks * e
<1>1. DayTicks \in Nat
  BY ClockConstants
<1> DEFINE k == e - d
<1>2. k \in Nat /\ e = d + k
  OBVIOUS
<1> HIDE DEF k
<1>3. DayTicks * k \in Nat /\ DayTicks * (d + k) = DayTicks * d + DayTicks * k /\ DayTicks * d \in Int
  BY <1>1, <1>2
<1> DEFINE a == DayTicks * d
           b == DayTicks * k
           c == DayTicks * (d + k)
<1>4. b \in Nat /\ c = a + b /\ a \in Int
  BY <1>3
<1> HIDE DEF a, b, c
<1>5. c \in Int /\ a <= c
  BY <1>4
<1> QED BY <1>2, <1>4, <1>5 DEF a, c

\* A headline is available less than two days after its stamp, and not before it.
LEMMA AvailableSoon ==
  ASSUME NEW h \in Headlines
  PROVE  /\ h.stamp \in Int /\ AvailableAt(h) \in Int
         /\ h.stamp <= AvailableAt(h) /\ AvailableAt(h) < h.stamp + DayTicks + DayTicks
<1>1. h.stamp \in Int
  BY ClockConstants DEF Headlines, Times
<1> QED BY <1>1, ClockConstants DEF AvailableAt

LEMMA RecentIsWindow ==
  ASSUME Range(archive) \subseteq Headlines, NEW at \in Int
  PROVE  RecentHeadlines(at) =
           {h \in Range(archive) : AvailableAt(h) \in at - DayTicks * Lookback .. at - 1}
<1> DEFINE span == DayTicks * Lookback
<1>1. span \in Int /\ DayTicks \in Nat /\ DayTicks * (Lookback + 2) = span + DayTicks + DayTicks
  BY ClockConstants
<1>2. ScanFrom(at) = at - (span + DayTicks + DayTicks)
  BY <1>1 DEF ScanFrom
<1> HIDE DEF span
<1>3. ASSUME NEW h \in Range(archive)
      PROVE  (/\ h.stamp < at /\ h.stamp >= at - (span + DayTicks + DayTicks)
              /\ AvailableAt(h) < at /\ AvailableAt(h) >= at - span)
               <=> AvailableAt(h) \in at - span .. at - 1
  <2> DEFINE av == AvailableAt(h)
             st == h.stamp
  <2>1. st \in Int /\ av \in Int /\ st <= av /\ av < st + DayTicks + DayTicks
    BY AvailableSoon
  <2> HIDE DEF av, st
  <2>2. (/\ st < at /\ st >= at - (span + DayTicks + DayTicks) /\ av < at /\ av >= at - span)
          <=> av \in at - span .. at - 1
    BY <1>1, <2>1
  <2> QED BY <2>2 DEF av, st
<1>4. RecentHeadlines(at) = {h \in Range(archive) : AvailableAt(h) \in at - span .. at - 1}
  BY <1>2, <1>3 DEF RecentHeadlines, span
<1> QED BY <1>4 DEF span

LEMMA AroundIsDated ==
  ASSUME Range(archive) \subseteq Headlines, NEW at \in Int, NEW d \in Int
  PROVE  Around(d, at) =
           {h \in Range(archive) : DateOf(h) \in {d - 1, d} /\ AvailableAt(h) < at}
<1>1. ASSUME NEW h \in Range(archive), DateOf(h) \in {d - 1, d}
      PROVE  h.stamp >= DayTicks * (d - 2) /\ h.stamp < ScanTo(d)
  <2> DEFINE day == DateOf(h)
             st  == h.stamp
             lo  == DayTicks * (d - 2)
             hi  == DayTicks * (d + 2)
             mid == DayTicks * day
  <2>1. st \in Int /\ DayTicks \in Nat \ {0} /\ NyOffset \in Nat /\ NyOffset < DayTicks
    BY AvailableSoon, ClockConstants
  <2>2. day \in Int /\ mid \in Int /\ mid <= st /\ st < mid + DayTicks + NyOffset
    <3>1. CASE DateOnly(h.stamp)
      <4>1. day = st \div DayTicks
        BY <3>1 DEF DateOf
      <4> HIDE DEF st, day
      <4>2. day \in Int /\ DayTicks * day <= st /\ st < DayTicks * day + DayTicks
        BY <2>1, <4>1, DivBounds
      <4>3. DayTicks * day \in Int
        BY <2>1, <4>2
      <4> HIDE DEF mid
      <4>4. mid \in Int /\ mid <= st /\ st < mid + DayTicks
        BY <4>2, <4>3 DEF mid
      <4> QED BY <2>1, <4>2, <4>4
    <3>2. CASE ~DateOnly(h.stamp)
      <4>1. day = (st - NyOffset) \div DayTicks /\ st - NyOffset \in Int
        BY <2>1, <3>2 DEF DateOf
      <4> HIDE DEF st, day
      <4>2. day \in Int /\ DayTicks * day <= st - NyOffset /\ st - NyOffset < DayTicks * day + DayTicks
        BY <2>1, <4>1, DivBounds
      <4>3. DayTicks * day \in Int
        BY <2>1, <4>2
      <4> HIDE DEF mid
      <4>4. mid \in Int /\ mid <= st - NyOffset /\ st - NyOffset < mid + DayTicks
        BY <4>2, <4>3 DEF mid
      <4> QED BY <2>1, <4>2, <4>4
    <3> QED BY <3>1, <3>2
  <2>3. d - 2 <= day /\ day + 2 <= d + 2
    BY <1>1
  <2> HIDE DEF st, day
  <2>4. lo \in Int /\ lo <= mid
    BY <2>2, <2>3, DayTicksGrow
  <2>5. hi \in Int /\ mid + DayTicks + DayTicks <= hi
    <3>1. day + 2 \in Int /\ DayTicks * (day + 2) = mid + DayTicks + DayTicks
      BY <2>1, <2>2
    <3>2. hi \in Int /\ DayTicks * (day + 2) <= hi
      BY <2>3, <3>1, DayTicksGrow
    <3> QED BY <3>1, <3>2
  <2> HIDE DEF lo, mid, hi
  <2>6. st >= lo /\ st < hi
    BY <2>1, <2>2, <2>4, <2>5
  <2> QED BY <2>6 DEF st, lo, hi, ScanTo
<1> QED BY <1>1 DEF Around

\* "The plain published_at bounds only narrow the scan for the index."
THEOREM ScansOnlyNarrow == Spec => []ScanOnlyNarrows
<1>1. ImportType /\ AsOfType => ScanOnlyNarrows
  <2> SUFFICES ASSUME ImportType, asOf \in Int PROVE ScanOnlyNarrows
    BY DEF AsOfType
  <2>1. \A d \in FirstDay..LastSession : d \in Int
    OBVIOUS
  <2> QED BY <2>1, QuotedRows, RecentIsWindow, AroundIsDated DEF ScanOnlyNarrows
<1> QED
  BY <1>1, ImportTypeInit, ImportTypeNext, AsOfInit, AsOfNext, PTL DEF Spec

-----------------------------------------------------------------------------
(* Waiting for a headline's date to end loses none *)

\* No session is further than the lookback after some earlier one.
SessionsClose ==
  \A d \in Sessions : d = FirstSession \/ \E e \in Sessions : e < d /\ d - e <= Lookback

\* Sessions are decided in order, asOf is that of the last one, and what the
\* archive held at the first one and is available by now has been read.
ReadInv ==
  /\ early \subseteq Range(archive)
  /\ todo \subseteq Sessions
  /\ \A e \in Sessions \ todo, f \in todo : e < f
  /\ todo # Sessions =>
       \E last \in Sessions \ todo :
         /\ asOf = AsOf(last)
         /\ \A e \in Sessions : e \notin todo => e <= last
  /\ NoneMissed

LEMMA ReadInvInit == Init => ReadInv
BY DEF Init, WindowInit, ReadInv, NoneMissed

LEMMA SessionType ==
  ASSUME NEW d \in Sessions
  PROVE  d \in Int /\ AsOf(d) \in Int
BY ClockConstants DEF AsOf

LEMMA FirstExists == \E g \in Sessions : \A e \in Sessions : g <= e
<1> DEFINE T == {d - FirstDay : d \in Sessions}
<1>1. FirstDay \in Int /\ \A d \in Sessions : d \in Int /\ d >= FirstDay
  BY ClockConstants
<1>2. T \subseteq Nat /\ T # {}
  BY <1>1, ClockConstants
<1>3. PICK x \in T : \A y \in T : x <= y
  <2> DEFINE Before == {p \in Nat \X Nat : p[1] < p[2]}
  <2> HIDE DEF T
  <2>1. IsWellFoundedOn(Before, Nat)
    BY NatLessThanWellFounded DEF OpToRel
  <2>2. PICK x \in T : \A y \in T : ~(<<y, x>> \in Before)
    <3> HIDE DEF Before
    <3> QED BY <1>2, <2>1, WFMin
  <2>3. ASSUME NEW y \in T PROVE x <= y
    <3>1. x \in Nat /\ y \in Nat
      BY <1>2
    <3>2. <<y, x>> \in Nat \X Nat /\ <<y, x>>[1] = y /\ <<y, x>>[2] = x
      BY <3>1
    <3> QED BY <2>2, <3>1, <3>2
  <2> QED BY <2>3
<1>4. PICK g \in Sessions : x = g - FirstDay
  BY <1>3
<1>5. ASSUME NEW e \in Sessions PROVE g <= e
  <2>1. x <= e - FirstDay
    BY <1>3
  <2> QED BY <1>1, <1>4, <2>1
<1> QED BY <1>5

\* The first session is the one that is decided first.
LEMMA FirstIsFirst ==
  ASSUME NEW d \in Sessions, \A e \in Sessions : d <= e
  PROVE  FirstSession = d
<1>1. FirstSession \in Sessions /\ \A e \in Sessions : FirstSession <= e
  BY DEF FirstSession
<1> QED BY <1>1, SessionType

LEMMA DecideKeeps ==
  ASSUME SessionsClose, ImportType, ReadInv, NEW d \in Sessions, Decide(d)
  PROVE  ReadInv'
<1>1. /\ d \in todo /\ \A e \in todo : d <= e
      /\ todo' = todo \ {d} /\ asOf' = AsOf(d) /\ archive' = archive
      /\ early' = IF todo = Sessions THEN Range(archive) ELSE early
      /\ read' = read \cup RecentHeadlines(AsOf(d))
  BY DEF Decide
<1>2. early' \subseteq Range(archive') /\ todo' \subseteq Sessions /\ todo' # Sessions
  BY <1>1 DEF ReadInv
<1>3. \A e \in Sessions \ todo', f \in todo' : e < f
  <2> SUFFICES ASSUME NEW e \in Sessions \ todo', NEW f \in todo' PROVE e < f
    OBVIOUS
  <2>1. f \in todo /\ f # d /\ f \in Sessions
    BY <1>1 DEF ReadInv
  <2>2. CASE e = d
    BY <1>1, <2>1, <2>2, SessionType
  <2>3. CASE e # d
    BY <1>1, <2>1, <2>3 DEF ReadInv
  <2> QED BY <2>2, <2>3
<1>4. d \in Sessions \ todo' /\ \A e \in Sessions : e \notin todo' => e <= d
  <2>1. ASSUME NEW e \in Sessions, e \notin todo'
        PROVE  e <= d
    <3>1. CASE e = d
      BY <3>1, SessionType
    <3>2. CASE e # d
      <4>1. e < d
        BY <1>1, <2>1, <3>2 DEF ReadInv
      <4> QED BY <4>1, SessionType
    <3> QED BY <3>1, <3>2
  <2> QED BY <1>1, <2>1
<1> DEFINE from == AsOf(FirstSession) - DayTicks * Lookback
           to   == AsOf(d) - 1
<1>5. ASSUME NEW h \in early', AvailableAt(h) \in from .. to
      PROVE  h \in read'
  <2>1. h \in Range(archive) /\ Range(archive) \subseteq Headlines /\ AsOf(d) \in Int
    BY <1>1, <1>2, QuotedRows, SessionType
  <2>2. RecentHeadlines(AsOf(d)) =
          {g \in Range(archive) : AvailableAt(g) \in AsOf(d) - DayTicks * Lookback .. AsOf(d) - 1}
    BY <2>1, RecentIsWindow
  <2>3. CASE todo = Sessions
    <3>1. FirstSession = d
      BY <1>1, <2>3, FirstIsFirst
    <3> QED BY <1>1, <1>5, <2>1, <2>2, <3>1
  <2>4. CASE todo # Sessions
    <3>1. PICK last \in Sessions \ todo :
            /\ asOf = AsOf(last)
            /\ \A e \in Sessions : e \notin todo => e <= last
      BY <2>4 DEF ReadInv
    <3>2. last < d /\ last \in Int /\ d \in Int
      BY <1>1, <3>1, SessionType DEF ReadInv
    <3>3. d - last <= Lookback
      <4>1. d # FirstSession
        <5>1. FirstSession \in Sessions /\ \A e \in Sessions : FirstSession <= e
          <6>1. \E g \in Sessions : \A e \in Sessions : g <= e
            BY FirstExists
          <6> QED BY <6>1 DEF FirstSession
        <5>2. FirstSession <= last
          BY <5>1
        <5> QED BY <3>2, <5>1, <5>2
      <4>2. PICK e \in Sessions : e < d /\ d - e <= Lookback
        BY <4>1 DEF SessionsClose
      <4>3. e \in Int /\ e \notin todo
        BY <1>1, <3>2, <4>2, SessionType
      <4>4. e <= last
        BY <3>1, <4>3
      <4> QED BY <3>2, <4>2, <4>3, <4>4, ClockConstants
    <3>4. AsOf(d) - DayTicks * Lookback <= AsOf(last)
      <4> DEFINE a == DayTicks * last
                 b == DayTicks * (d - Lookback)
                 c == DayTicks * d
                 l == DayTicks * Lookback
      <4>1. d - Lookback \in Int /\ d - Lookback <= last
        BY <3>2, <3>3, ClockConstants
      <4>2. a \in Int /\ b \in Int /\ b <= a
        BY <3>2, <4>1, DayTicksGrow
      <4>3. c \in Int /\ l \in Int /\ b = c - l
        BY <3>2, ClockConstants
      <4>4. AsOf(d) = c + AsOfTick /\ AsOf(last) = a + AsOfTick /\ AsOfTick \in Int
        BY ClockConstants DEF AsOf
      <4> HIDE DEF a, b, c, l
      <4>5. (c + AsOfTick) - l <= a + AsOfTick
        BY <4>2, <4>3, <4>4
      <4>6. AsOf(d) - l <= AsOf(last)
        BY <4>4, <4>5
      <4> QED BY <4>6 DEF l
    <3>5. h \in early
      BY <1>1, <2>4
    <3>6. CASE AvailableAt(h) <= asOf - 1
      <4>1. AvailableAt(h) \in from .. asOf - 1
        BY <1>5, <3>1, <3>6, SessionType
      <4>2. h \in read
        BY <2>4, <3>5, <4>1 DEF ReadInv, NoneMissed
      <4> QED BY <1>1, <4>2
    <3>7. CASE ~(AvailableAt(h) <= asOf - 1)
      <4> DEFINE av == AvailableAt(h)
                 l == DayTicks * Lookback
                 now == AsOf(d)
                 then == AsOf(last)
      <4>1. av \in Int /\ now \in Int /\ then \in Int /\ l \in Int /\ av <= now - 1
        BY <1>5, <2>1, AvailableSoon, SessionType, ClockConstants
      <4>2. ~(av <= then - 1) /\ now - l <= then
        BY <3>1, <3>4, <3>7
      <4> HIDE DEF av, l, now, then
      <4>3. av \in now - l .. now - 1
        BY <4>1, <4>2
      <4> QED BY <1>1, <2>1, <2>2, <4>3 DEF av, l, now
    <3> QED BY <3>6, <3>7
  <2> QED BY <2>3, <2>4
<1>6. NoneMissed'
  BY <1>1, <1>5 DEF NoneMissed
<1> QED BY <1>1, <1>2, <1>3, <1>4, <1>6 DEF ReadInv

\* Imports only add to the archive.
LEMMA ImportKeepsRead ==
  ASSUME ImportType, ReadInv, UNCHANGED windowVars, Range(archive) \subseteq Range(archive')
  PROVE  ReadInv'
BY DEF ReadInv, NoneMissed, windowVars

LEMMA ReadInvNext ==
  ASSUME SessionsClose, ImportType, ReadInv, [Next]_vars
  PROVE  ReadInv'
<1>1. CASE DecideDay
  BY <1>1, DecideKeeps DEF DecideDay
<1>2. CASE CommitChunk /\ UNCHANGED windowVars
  <2>1. archive' = archive \o run.draft /\ archive \in Seq(Headlines) /\ run.draft \in Seq(Headlines)
    BY <1>2 DEF CommitChunk, ImportType, RunType
  <2>2. Range(archive') = Range(archive) \cup Range(run.draft)
    BY <2>1, JoinDisjoint
  <2> QED BY <1>2, <2>2, ImportKeepsRead
<1>3. CASE archive' = archive /\ UNCHANGED windowVars
  BY <1>3, ImportKeepsRead
<1> QED
  BY <1>1, <1>2, <1>3
  DEF Next, Migrate, Import, DecideDay, StartImport, InsertRow, FinishImport, ImportDies, vars

\* As long as sessions are no further apart than the lookback, each headline that
\* was imported before the backtest has been read by the decision that follows
\* its becoming available (HistoricalHeadlineSource.get_recent_headlines).
THEOREM NoHeadlineMissed == ASSUME SessionsClose PROVE Spec => []NoneMissed
<1>1. ReadInv => NoneMissed
  BY DEF ReadInv
<1> QED
  BY <1>1, ImportTypeInit, ImportTypeNext, ReadInvInit, ReadInvNext, PTL DEF Spec
=============================================================================
