----------------------------- MODULE Migrations -----------------------------
(***************************************************************************)
(* Bringing a database up to date: db/migrate.py, and db/bootstrap.py,     *)
(* which seeds the watchlist afterwards.  Both run whenever a container    *)
(* starts, so several may run at once.  A file of db/migrations is its     *)
(* number; running one fails if what it creates is there already, or if    *)
(* what it refers to, created by an earlier file, is not.                  *)
(***************************************************************************)
EXTENDS Integers, SequencesExt

CONSTANTS LastFile,     \* the migration files are 1..LastFile
          Runners,      \* containers that bootstrap the database
          MaxStarts     \* bound on how often they are started

ASSUME MigrationConstants == LastFile \in Nat \ {0} /\ MaxStarts \in Nat

VARIABLES schema,      \* the files whose objects exist, in the order they ran
          recorded,    \* filenames in schema_migrations
          watchlist,   \* is there a symbol in the watchlist?
          runner,      \* per runner: where it is, and its open transaction
          starts       \* history: how often a runner was started

migrationVars == <<schema, recorded, watchlist, runner, starts>>

Files == 1..LastFile

\* `applied` is what it read, `ran` and `noted` what its transaction did so far.
Idle(pc) == [pc |-> pc, applied |-> {}, ran |-> <<>>, noted |-> {}]

Stopped == Idle("stopped")

\* A new database, or one that an older version of the program brought up.
MigrationInit ==
  /\ \E k \in 0..LastFile : schema = [i \in 1..k |-> i]
  /\ recorded = Range(schema)
  /\ watchlist = (schema # <<>>)
  /\ starts = 0
  /\ runner = [r \in Runners |-> Stopped]

\* ensure_migrations_table, committed at once.
Connect(r) ==
  /\ runner[r].pc = "stopped" /\ starts < MaxStarts
  /\ runner' = [runner EXCEPT ![r].pc = "connected"]
  /\ starts' = starts + 1
  /\ UNCHANGED <<schema, recorded, watchlist>>

\* What these steps make of the runner.
Reads(x)    == [pc |-> "applying", applied |-> recorded, ran |-> x.ran, noted |-> x.noted]
Runs(x, f)  == [pc |-> "executed", applied |-> x.applied, ran |-> Append(x.ran, f), noted |-> x.noted]
Notes(x, f) == [pc |-> "applying", applied |-> x.applied, ran |-> x.ran, noted |-> x.noted \cup {f}]

\* already_applied.  It opens the transaction that all files will be part of.
AlreadyApplied(r) ==
  /\ runner[r].pc = "connected"
  /\ runner' = [runner EXCEPT ![r] = Reads(@)]
  /\ UNCHANGED <<schema, recorded, watchlist, starts>>

Pending(r)  == Files \ (runner[r].applied \cup runner[r].noted)

\* sorted(glob)
NextFile(r) == Min(Pending(r))

\* Creating what another transaction is creating waits for its end.
Blocked(r) == \E o \in Runners \ {r} : NextFile(r) \in Range(runner[o].ran)

Executable(r) ==
  LET f == NextFile(r)
      there == Range(schema) \cup Range(runner[r].ran)
  IN  f \notin there /\ \A e \in Files : e < f => e \in there

\* conn.execute(sql)
Execute(r) ==
  /\ runner[r].pc = "applying" /\ Pending(r) # {} /\ ~Blocked(r) /\ Executable(r)
  /\ runner' = [runner EXCEPT ![r] = Runs(@, NextFile(r))]
  /\ UNCHANGED <<schema, recorded, watchlist, starts>>

\* INSERT INTO schema_migrations
Note(r) ==
  /\ runner[r].pc = "executed"
  /\ runner' = [runner EXCEPT ![r] = Notes(@, NextFile(r))]
  /\ UNCHANGED <<schema, recorded, watchlist, starts>>

\* The end of `with psycopg.connect`: everything is committed.
CommitFiles(r) ==
  /\ runner[r].pc = "applying" /\ Pending(r) = {}
  /\ schema' = schema \o runner[r].ran
  /\ recorded' = recorded \cup runner[r].noted
  /\ runner' = [runner EXCEPT ![r] = Idle("migrated")]
  /\ UNCHANGED <<watchlist, starts>>

\* Mutant of UndoFiles: in autocommit, what ran stays.
UndoFilesNot(r) == schema' = schema \o runner[r].ran /\ recorded' = recorded \cup runner[r].noted

\* The savepoint undoes the failing file, the connection's exit the others.
UndoFiles(r) == UNCHANGED <<schema, recorded>>

\* A statement raises (a file that was applied meanwhile always does), or the
\* container dies.
RunnerFails(r) ==
  /\ runner[r].pc # "stopped"
  /\ UndoFiles(r)
  /\ runner' = [runner EXCEPT ![r] = Stopped]
  /\ UNCHANGED <<watchlist, starts>>

\* apply_seed
Seed(r) ==
  /\ runner[r].pc = "migrated"
  /\ watchlist' = TRUE
  /\ runner' = [runner EXCEPT ![r] = Stopped]
  /\ UNCHANGED <<schema, recorded, starts>>

MigrationNext ==
  \E r \in Runners :
    \/ Connect(r) \/ AlreadyApplied(r) \/ Execute(r) \/ Note(r)
    \/ CommitFiles(r) \/ RunnerFails(r) \/ Seed(r)

-----------------------------------------------------------------------------
(* Properties *)

\* "Re-running this script is a no-op for anything already applied", and "a
\* failing migration doesn't leave the schema half-created": whoever fails where,
\* and however runs overlap, the files that ran are the first few, each once and
\* in order, and they are the recorded ones.
SchemaIsRecorded ==
  /\ schema = [i \in 1..Len(schema) |-> i] /\ Len(schema) <= LastFile
  /\ recorded = Range(schema)

\* A run commits all pending files or none: the SELECT before them opened the
\* transaction, so that what migrate.py calls a transaction is a savepoint in it.
AllFilesOrNone == [][schema' # schema => Range(schema') = Files]_migrationVars
=============================================================================
