---------------------------- MODULE HeadlineImport ----------------------------
(***************************************************************************)
(* scripts/import_fnspid.py: the rows of a CSV file go into                *)
(* historical_headlines, one transaction per chunk of the file.  A run     *)
(* that dies is started again from the beginning, or with another range.   *)
(* A row is a headline of one symbol, or not usable: of another symbol,    *)
(* without a title, or with a date that does not parse.                    *)
(***************************************************************************)
EXTENDS HeadlineWindow

CONSTANTS ChunkRows,    \* CHUNK_ROWS, 200000 in the code
          Ranges,       \* the values of --start and --end
          MaxImports,   \* bound on the number of runs
          Unusable      \* a row that is filtered out

ASSUME ImportConstants ==
  /\ ChunkRows \in Nat \ {0} /\ MaxImports \in Nat
  /\ Ranges \subseteq [from : Int, to : Int] /\ Unusable \notin Headlines

VARIABLES csv,        \* the file
          run,        \* the running script and its open transaction
          runs,       \* how many were started
          finished    \* the ranges of those that came to their end

importVars == <<csv, run, runs, finished>>

NoRun == [on |-> FALSE, range |-> [from |-> 0, to |-> 0], chunk |-> 1, draft |-> <<>>, next |-> 1]

ImportInit ==
  /\ archive = <<>>
  /\ run = NoRun /\ runs = 0 /\ finished = {}

StartImport ==
  /\ ~run.on /\ runs < MaxImports
  /\ \E range \in Ranges : run' = [NoRun EXCEPT !.on = TRUE, !.range = range]
  /\ runs' = runs + 1
  /\ UNCHANGED <<csv, archive, finished>>

\* published_at within --start and the end of --end.
InRange(h, range) == h.stamp >= DayTicks * range.from /\ h.stamp < DayTicks * (range.to + 1)

Matches(row, range) == row # Unusable /\ InRange(row, range)

\* Mutant of Inserted: no ON CONFLICT.
InsertedAlways(rows, row) == Append(rows, row)

\* ON CONFLICT (symbol, published_at, headline) DO NOTHING
Inserted(rows, row) == IF row \in Range(archive) \cup Range(rows) THEN rows ELSE Append(rows, row)

Position   == ChunkRows * (run.chunk - 1) + run.next
ChunksLeft == ChunkRows * (run.chunk - 1) < Len(csv)
RowsLeft   == run.next <= ChunkRows /\ Position <= Len(csv)

\* One row of the chunk: filtered out, or inserted by executemany.
InsertRow ==
  /\ run.on /\ RowsLeft
  /\ run' = [run EXCEPT !.draft = IF Matches(csv[Position], run.range)
                                  THEN Inserted(@, csv[Position]) ELSE @,
                        !.next = @ + 1]
  /\ UNCHANGED <<csv, archive, runs, finished>>

\* conn.commit(), then the next chunk of the file.
CommitChunk ==
  /\ run.on /\ ChunksLeft /\ ~RowsLeft
  /\ archive' = archive \o run.draft
  /\ run' = [run EXCEPT !.chunk = @ + 1, !.next = 1, !.draft = <<>>]
  /\ UNCHANGED <<csv, runs, finished>>

FinishImport ==
  /\ run.on /\ ~ChunksLeft
  /\ finished' = finished \cup {run.range}
  /\ run' = NoRun
  /\ UNCHANGED <<csv, archive, runs>>

\* It raises or is killed: the open chunk is gone.
ImportDies ==
  /\ run.on
  /\ run' = NoRun
  /\ UNCHANGED <<csv, archive, runs, finished>>

-----------------------------------------------------------------------------
(* Properties *)

\* 004: "Import scripts are expected to run more than once (re-imports, partial
\* re-runs after a crash)".  However they end, each usable headline is there at
\* most once, no other is, and all that a finished run's range covers are.
ImportedOnce ==
  /\ IsInjective(archive)
  /\ Range(archive) \subseteq Range(csv) \ {Unusable}
  /\ \A range \in finished :
       {row \in Range(csv) : Matches(row, range)} \subseteq Range(archive)
=============================================================================
