------------------------------ MODULE NewsArchive ------------------------------
(***************************************************************************)
(* From an empty database to what a backtest reads of the news: migrations *)
(* (Migrations) create historical_headlines, imports (HeadlineImport) fill *)
(* it, and decisions (HeadlineWindow) query it, each of them restarted or  *)
(* running beside the others.                                              *)
(***************************************************************************)
EXTENDS Migrations, HeadlineImport

CONSTANT HeadlineFile,  \* 004_historical_headlines.sql
         CsvFiles      \* the files that may be given to the import

ASSUME ArchiveConstants ==
  HeadlineFile \in Files /\ CsvFiles \subseteq Seq(Headlines \cup {Unusable})

vars == <<migrationVars, archive, windowVars, importVars>>

TableExists == HeadlineFile \in Range(schema)

Init ==
  /\ MigrationInit /\ ImportInit /\ WindowInit
  /\ csv \in CsvFiles

Migrate == MigrationNext /\ UNCHANGED <<archive, windowVars, importVars>>

\* The symbols are those of the watchlist; without any the script ends.  An insert
\* into a table that is not there raises.
Import ==
  /\ \/ watchlist /\ StartImport
     \/ InsertRow /\ (run'.draft # run.draft => TableExists)
     \/ CommitChunk \/ FinishImport \/ ImportDies
  /\ UNCHANGED <<migrationVars, windowVars>>

\* So does a query.
DecideDay ==
  /\ TableExists
  /\ \E d \in Sessions : Decide(d)
  /\ UNCHANGED <<migrationVars, importVars>>

Next == Migrate \/ Import \/ DecideDay

Spec == Init /\ [][Next]_vars
=============================================================================
