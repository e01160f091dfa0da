---------------------------- MODULE PublicSnapshot ----------------------------
(***************************************************************************)
(* The public demo: scripts/export_public_snapshot.py copies the decisions *)
(* of the published backtests and the evaluation into the files of         *)
(* docs/data, and public_api/main.py serves those files.  The export is    *)
(* one read-only transaction at READ COMMITTED, run by hand and again      *)
(* whenever it failed, while scripts/explain_recorded.py may be adding     *)
(* explanations.  app/mcp_server.py and scripts/trace_completeness.py read *)
(* the database and check traces with app/agent/trace_audit.py.            *)
(***************************************************************************)
EXTENDS EvalRound

CONSTANTS StartRows,   \* published decision -> what is recorded of it
          MaxExports,  \* bound on the runs of the export
          Torn,        \* half a file
          NotFound     \* status 404

\* changed: the budget changed the decision; explained: it has a row in
\* risk_explanations; steps: its trace_steps, none, without or with the
\* explainer's reply.
DecisionRow == [changed : BOOLEAN, explained : BOOLEAN, steps : {"none", "other", "explainer"}]

\* What decision_detail makes a file of.
File == [explanation : BOOLEAN, trace : {"none", "other", "explainer"}]

\* The run commits an explainer's reply in one transaction with its explanation.
ASSUME SnapshotConstants ==
  /\ StartRows \in Seq(DecisionRow)
  /\ \A i \in DOMAIN StartRows :
       /\ StartRows[i].explained => StartRows[i].changed
       /\ StartRows[i].steps = "explainer" => StartRows[i].explained
  /\ MaxExports \in Nat
  /\ Torn # None /\ NotFound # Torn /\ {None, Torn, NotFound} \cap File = {}
  /\ NotFound \notin {"explanation", "other", "explainer"}

VARIABLES
  rows,     \* the database
  pc,       \* where the export is
  read,     \* decision_ids: the flags of the decisions still to be exported
  index,    \* the index it collects
  files,    \* docs/data
  exports,  \* how often the export was started
  audit     \* completeness(): the decisions it has still to check

snapshotVars == <<rows, pc, read, index, files, exports, audit>>
vars == <<evalVars, snapshotVars>>

Decisions == DOMAIN StartRows

NoFiles == [decision |-> [d \in Decisions |-> None], decisions |-> None, backtests |-> FALSE,
            eval |-> None, manifest |-> None]
NoAudit == [todo |-> <<>>, mismatches |-> {}]

SnapshotInit ==
  /\ rows = StartRows
  /\ pc = "idle" /\ read = <<>> /\ index = <<>> /\ exports = 0
  /\ files = NoFiles
  /\ audit = NoAudit

-----------------------------------------------------------------------------
\* scripts/explain_recorded.py commits an explanation, with --trace together
\* with its trace; UNIQUE (decision_id, step) refuses a second trace.
Explain(d, trace) ==
  /\ rows[d].changed /\ ~rows[d].explained
  /\ trace => rows[d].steps = "none"
  /\ rows' = [rows EXCEPT ![d].explained = TRUE,
                          ![d].steps = IF trace THEN "explainer" ELSE @]
  /\ UNCHANGED <<pc, read, index, files, exports, audit>>

-----------------------------------------------------------------------------
(* The export *)

\* decision_ids: has_explanation and has_trace in one statement.
Flags(d) == [id |-> d, explained |-> rows[d].explained, traced |-> rows[d].steps # "none"]

StartExport ==
  /\ pc = "idle" /\ exports < MaxExports
  /\ read' = [d \in Decisions |-> Flags(d)]
  /\ index' = <<>> /\ exports' = exports + 1
  /\ pc' = "decisions"
  /\ UNCHANGED <<rows, files, audit>>

\* Mutant of TraceRead: whatever trace there is by now.
TraceReadAlways(flags) == rows[flags.id].steps

TraceRead(flags) == IF flags.traced THEN rows[flags.id].steps ELSE "none"

\* decision_detail.
Detail(flags) == [explanation |-> flags.explained, trace |-> TraceRead(flags)]

\* Mutant of IndexEntry: the flags are looked up again.
IndexEntryAgain(flags) == Flags(flags.id)

IndexEntry(flags) == flags

WriteDecision ==
  /\ pc = "decisions" /\ read # <<>>
  /\ files' = [files EXCEPT !.decision[Head(read).id] = Detail(Head(read))]
  /\ index' = Append(index, IndexEntry(Head(read)))
  /\ read' = Tail(read)
  /\ UNCHANGED <<rows, pc, exports, audit>>

WriteIndex ==
  /\ pc = "decisions" /\ read = <<>>
  /\ files' = [files EXCEPT !.decisions = index]
  /\ pc' = "backtests"
  /\ UNCHANGED <<rows, read, index, exports, audit>>

\* recorded_results of every published backtest, then backtests.json.
WriteBacktests ==
  /\ pc = "backtests"
  /\ files' = [files EXCEPT !.backtests = TRUE]
  /\ pc' = "eval"
  /\ UNCHANGED <<rows, read, index, exports, audit>>

\* jrows[d] for every day.
Judged(days) == judgements # None /\ days \subseteq {r.date : r \in ToSet(judgements)}

\* explanation_test.
Test(days) ==
  LET rs == RowsOf(judgements, days)
  IN  [days |-> Cardinality(rs), wins |-> Wins(rs), losses |-> Losses(rs),
       tail |-> SignTail(Wins(rs), Losses(rs)), bar |-> Beats(rs)]

\* eval_snapshot, then eval.json.
WriteEval ==
  /\ pc = "eval"
  /\ explanations # None /\ Judged(ToSet(GoldenDays))
  /\ files' = [files EXCEPT !.eval =
       [judged   |-> judgements,
        primary  |-> Test(ToSet(GoldenDays)),
        unseen   |-> Test(ToSet(GoldenDays) \ SeenDays)]]
  /\ pc' = "manifest"
  /\ UNCHANGED <<rows, read, index, exports, audit>>

\* manifest.json, and then SystemExit if the files exceed SIZE_CAP.
WriteManifest ==
  /\ pc = "manifest"
  /\ files' = [files EXCEPT !.manifest =
       [decisions |-> Len(index),
        explained |-> Cardinality({i \in DOMAIN index : index[i].explained}),
        traced    |-> Cardinality({i \in DOMAIN index : index[i].traced})]]
  /\ pc' \in {"done", "refused"}
  /\ UNCHANGED <<rows, read, index, exports, audit>>

\* A query, compare_var_node.py or eval_snapshot raises (KeyError, missing file).
ExportRaises ==
  /\ pc \in {"decisions", "backtests", "eval"}
  /\ pc' = "idle"
  /\ UNCHANGED <<rows, read, index, files, exports, audit>>

\* Killed while it writes a file (write_text empties the file first).
ExportKilled ==
  /\ pc' = "idle"
  /\ \/ /\ pc = "decisions" /\ read # <<>>
        /\ files' = [files EXCEPT !.decision[Head(read).id] = Torn]
     \/ /\ pc = "decisions" /\ read = <<>>
        /\ files' = [files EXCEPT !.decisions = Torn]
     \/ pc = "backtests" /\ files' = [files EXCEPT !.backtests = Torn]
     \/ /\ pc = "eval" /\ explanations # None /\ Judged(ToSet(GoldenDays))
        /\ files' = [files EXCEPT !.eval = Torn]
     \/ pc = "manifest" /\ files' = [files EXCEPT !.manifest = Torn]
  /\ UNCHANGED <<rows, read, index, exports, audit>>

\* Somebody runs it once more.
ExportAgain ==
  /\ pc \in {"done", "refused"}
  /\ pc' = "idle"
  /\ UNCHANGED <<rows, read, index, files, exports, audit>>

-----------------------------------------------------------------------------
(* public_api/main.py *)

ListDecisions ==
  IF files.decisions \in {None, Torn} THEN {} ELSE ToSet(files.decisions)

\* _decision: 404 without a file; half a file does not parse.
LoadDecision(d) == IF files.decision[d] = None THEN NotFound ELSE files.decision[d]

\* GET /decisions/{id}/explanation and /trace.
ExplainDecision(d) ==
  LET file == LoadDecision(d)
  IN  IF file \in {NotFound, Torn} THEN file
      ELSE IF file.explanation THEN "explanation" ELSE NotFound

GetTrace(d) ==
  LET file == LoadDecision(d)
  IN  IF file \in {NotFound, Torn} THEN file
      ELSE IF file.trace = "none" THEN NotFound ELSE file.trace

-----------------------------------------------------------------------------
(* app/agent/trace_audit.py, for get_trace of the MCP server and for           *)
(* trace_completeness.py                                                       *)

\* The explanations that are checked.
Stored(d) == rows[d].explained /\ rows[d].steps # "none"

\* get_trace checks one decision, trace_completeness.py all of them.
StartAudit ==
  /\ audit.todo = <<>>
  /\ \E asked \in {Decisions} \cup {{d} : d \in {e \in Decisions : rows[e].steps # "none"}} :
       audit' = [todo       |-> SetToSeq({d \in asked : Stored(d)}),
                 mismatches |-> {}]
  /\ UNCHANGED <<rows, pc, read, index, files, exports>>

\* load_steps and rebuild_explanation_check of the next one.
AuditNext ==
  LET d == Head(audit.todo)
  IN  /\ audit.todo # <<>>
      /\ audit' = [todo       |-> Tail(audit.todo),
                   mismatches |-> IF rows[d].steps = "explainer" THEN audit.mismatches
                                  ELSE audit.mismatches \cup {d}]
      /\ UNCHANGED <<rows, pc, read, index, files, exports>>

-----------------------------------------------------------------------------
ExportStep ==
  \/ StartExport \/ WriteDecision \/ WriteIndex \/ WriteBacktests \/ WriteEval \/ WriteManifest
  \/ ExportRaises \/ ExportKilled \/ ExportAgain

Init == EvalInit /\ SnapshotInit

Next ==
  \/ EvalStep /\ UNCHANGED snapshotVars
  \/ /\ \/ \E d \in Decisions, trace \in BOOLEAN : Explain(d, trace)
        \/ ExportStep
        \/ StartAudit \/ AuditNext
     /\ UNCHANGED evalVars

Spec == Init /\ [][Next]_vars

-----------------------------------------------------------------------------
(* Properties *)

\* The site never leads nowhere, also after exports that broke off half-way: a
\* listed decision has its file, and if the list says that it has an explanation
\* or a trace, so has the file (unless a kill cut that file short).  Once an
\* export came to its end, nothing is cut short and the list is exact.
ListedIsServed ==
  \A entry \in ListDecisions :
    LET explanation == ExplainDecision(entry.id)
        trace       == GetTrace(entry.id)
    IN  /\ LoadDecision(entry.id) # NotFound
        /\ entry.explained => explanation # NotFound
        /\ entry.traced => trace # NotFound
        /\ pc \in {"done", "refused"} =>
             /\ entry.explained <=> explanation = "explanation"
             /\ entry.traced <=> trace \in {"other", "explainer"}

\* "explanation and its trace together": whoever reads while decisions are being
\* explained sees both or neither, in what is published as in the completeness
\* check, which reports a decision only if it was explained without --trace
\* although it had a trace already.
SeenTogether ==
  /\ \A d \in Decisions :
       files.decision[d] \notin {None, Torn} /\ rows[d].steps = "explainer" =>
         (files.decision[d].explanation <=> files.decision[d].trace = "explainer")
  /\ \A d \in audit.mismatches : rows[d].explained /\ rows[d].steps = "other"

\* The grades of the explainer's answers, as the judge gave them.
Given(row, who) == row.answer[CHOOSE w \in Answers : row.answer[w].about = who].grade

\* The published verdict is the pre-registered one: over every test day, each
\* grade counted for the answer it was given to although A and B change places,
\* with the exact two-sided p-value, the number of outcomes of n fair coins at
\* least as one-sided as the one observed.
EvalIsExact ==
  files.eval \notin {None, Torn} =>
    \A pair \in {<<files.eval.primary, ToSet(GoldenDays)>>,
                 <<files.eval.unseen, ToSet(GoldenDays) \ SeenDays>>} :
      LET test   == pair[1]
          days   == pair[2]
          rs     == {r \in ToSet(files.eval.judged) : r.date \in days}
          yes(r, who) == Given(r, who).matches = "yes"
          won    == Cardinality({r \in rs : yes(r, "explainer") /\ ~yes(r, "quote")})
          lost   == Cardinality({r \in rs : yes(r, "quote") /\ ~yes(r, "explainer")})
          apart(a, b) == IF a < b THEN b - a ELSE a - b
          extreme == Cardinality({heads \in SUBSET (1..won + lost) :
                        apart(Cardinality(heads), won + lost - Cardinality(heads)) >= apart(won, lost)})
          backed == Cardinality({r \in rs : Given(r, "explainer").supported})
      IN  /\ test.days = Cardinality(days)
          /\ test.wins = won /\ test.losses = lost /\ test.tail = extreme
          /\ test.bar <=> /\ 100 * extreme < AlphaPct * 2^(won + lost)
                          /\ won > lost
                          /\ 100 * backed >= 90 * Cardinality(days)
=============================================================================
