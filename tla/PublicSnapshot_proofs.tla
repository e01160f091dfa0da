------------------------ MODULE PublicSnapshot_proofs ------------------------
(***************************************************************************)
(* Facts about the public demo: what it lists it serves, also between two  *)
(* exports and after one that broke off; nobody sees an explanation        *)
(* without the trace that was committed with it; and the verdict it        *)
(* publishes is the pre-registered one, with the exact p-value.  For the   *)
(* p-value the outcomes of n coins are counted: the binomial coefficients, *)
(* computed by dividing factorials, are numbers of subsets.                *)
(***************************************************************************)
EXTENDS PublicSnapshot, TradingFacts

-----------------------------------------------------------------------------
(* The invariant *)

Flag == [id : Decisions, explained : BOOLEAN, traced : BOOLEAN]

\* Flags that were read do not say more than the database: nothing is taken back.
Holds(f) ==
  /\ f.explained => rows[f.id].explained
  /\ f.traced => rows[f.id].steps # "none"

\* They were read before or after the explainer's reply was committed, which
\* came together with its explanation.
Whole(f) == rows[f.id].steps = "explainer" => (f.explained <=> f.traced)

\* Flags f of a decision were read before flags g of it.
Earlier(f, g) == f.id = g.id => (f.explained => g.explained) /\ (f.traced => g.traced)

\* The file has what the list says, and nothing else.
Matches(f) ==
  LET file == files.decision[f.id]
  IN  file \in File /\ (f.explained <=> file.explanation) /\ (f.traced <=> file.trace # "none")

\* The file has what the list says, if a kill did not cut it short.
Serves(f) ==
  LET file == files.decision[f.id]
  IN  \/ file = Torn
      \/ file \in File /\ (f.explained => file.explanation) /\ (f.traced => file.trace # "none")

\* A file says of a decision what the database says, or said before.
Truthful(d) ==
  LET file == files.decision[d]
  IN  file \in File =>
        /\ file.explanation => rows[d].explained
        /\ file.trace # "none" => rows[d].steps = file.trace
        /\ rows[d].steps = "explainer" => (file.explanation <=> file.trace = "explainer")

RowsInv ==
  /\ rows \in Seq(DecisionRow) /\ DOMAIN rows = Decisions
  /\ \A d \in Decisions : rows[d].steps = "explainer" => rows[d].explained

\* The export goes through the decisions in their order.
WalkInv ==
  /\ index \in Seq(Flag) /\ read \in Seq(Flag)
  /\ \A i \in DOMAIN index : index[i].id = i
  /\ \A i \in DOMAIN read : read[i].id = Len(index) + i
  /\ \A i \in DOMAIN read : Holds(read[i]) /\ Whole(read[i])
  /\ \A i \in DOMAIN index : Holds(index[i])
  /\ pc # "idle" => \A i \in DOMAIN index : Matches(index[i])
  /\ pc \in {"backtests", "eval", "manifest", "done", "refused"} =>
       files.decisions = index /\ read = <<>>

\* The files of docs/data.
Folder(fs) ==
  fs = [decision |-> fs.decision, decisions |-> fs.decisions, backtests |-> fs.backtests,
        eval |-> fs.eval, manifest |-> fs.manifest]

FilesInv ==
  /\ Folder(files)
  /\ files.decision \in [Decisions -> {None, Torn} \cup File]
  /\ \A d \in Decisions : Truthful(d)

ListInv ==
  \A f \in ListDecisions :
    /\ f \in Flag /\ Holds(f) /\ Serves(f)
    /\ \A i \in DOMAIN read : Earlier(f, read[i])

AuditInv ==
  /\ audit.todo \in Seq(Decisions)
  /\ \A i \in DOMAIN audit.todo : Stored(audit.todo[i])
  /\ \A d \in audit.mismatches : d \in Decisions /\ rows[d].explained /\ rows[d].steps = "other"

DemoInv == RowsInv /\ WalkInv /\ FilesInv /\ ListInv /\ AuditInv

-----------------------------------------------------------------------------
(* Constants and data *)

LEMMA StartFacts ==
  /\ StartRows \in Seq(DecisionRow) /\ Len(StartRows) \in Nat
  /\ Decisions = 1..Len(StartRows) /\ IsFiniteSet(Decisions)
  /\ \A d \in Decisions : StartRows[d] \in DecisionRow
  /\ \A d \in Decisions : StartRows[d].steps = "explainer" => StartRows[d].explained
BY SnapshotConstants, FS_Interval DEF Decisions

\* None and Torn are no files, and no request answers with one.
LEMMA Distinct ==
  /\ Torn # None /\ NotFound # Torn /\ None \notin File /\ Torn \notin File /\ NotFound \notin File
  /\ NotFound # "explanation" /\ NotFound # "other" /\ NotFound # "explainer"
<1>1. \A x \in {None, Torn, NotFound} : x \notin File
  BY SnapshotConstants
<1> QED BY <1>1, SnapshotConstants

LEMMA FlagsType ==
  ASSUME RowsInv, NEW d \in Decisions
  PROVE  Flags(d) \in Flag /\ Flags(d).id = d /\ Holds(Flags(d)) /\ Whole(Flags(d))
<1>1. rows[d] \in DecisionRow
  BY DEF RowsInv
<1> QED BY <1>1 DEF Flags, Flag, Holds, Whole, RowsInv, DecisionRow

LEMMA DetailType ==
  ASSUME RowsInv, NEW f \in Flag, Holds(f), Whole(f)
  PROVE  /\ Detail(f) \in File
         /\ f.explained = Detail(f).explanation
         /\ f.traced <=> Detail(f).trace # "none"
         /\ Detail(f).explanation => rows[f.id].explained
         /\ Detail(f).trace # "none" => rows[f.id].steps = Detail(f).trace
         /\ rows[f.id].steps = "explainer" =>
              (Detail(f).explanation <=> Detail(f).trace = "explainer")
<1>1. f.id \in Decisions /\ f.explained \in BOOLEAN /\ f.traced \in BOOLEAN
  BY DEF Flag
<1>2. rows[f.id] \in DecisionRow
  BY <1>1 DEF RowsInv
<1>3. Detail(f).explanation = f.explained /\ Detail(f).trace = TraceRead(f)
  BY DEF Detail
<1>4. TraceRead(f) \in {"none", "other", "explainer"}
  BY <1>2 DEF TraceRead, DecisionRow
<1>5. Detail(f) \in File
  BY <1>1, <1>4 DEF Detail, File
<1>6. f.traced <=> TraceRead(f) # "none"
  BY <1>1 DEF TraceRead, Holds
<1>7. TraceRead(f) # "none" => rows[f.id].steps = TraceRead(f)
  BY DEF TraceRead
<1>8. rows[f.id].steps = "explainer" => (f.explained <=> TraceRead(f) = "explainer")
  BY <1>1 DEF TraceRead, Whole
<1> QED BY <1>1, <1>3, <1>5, <1>6, <1>7, <1>8 DEF Holds

-----------------------------------------------------------------------------
(* Each operation keeps it *)

LEMMA DemoInit == SnapshotInit => DemoInv
<1> SUFFICES ASSUME SnapshotInit PROVE DemoInv
  OBVIOUS
<1>1. RowsInv
  BY StartFacts DEF SnapshotInit, RowsInv
<1>2. WalkInv
  BY DEF SnapshotInit, WalkInv
<1>3. \A d \in Decisions : files.decision[d] = None
  BY DEF SnapshotInit, NoFiles
<1>4. FilesInv
  <2>1. files.decision \in [Decisions -> {None, Torn} \cup File]
    BY DEF SnapshotInit, NoFiles
  <2>2. \A d \in Decisions : Truthful(d)
    BY <1>3, Distinct DEF Truthful
  <2>3. Folder(files)
    BY DEF SnapshotInit, NoFiles, Folder
  <2> QED BY <2>1, <2>2, <2>3 DEF FilesInv
<1>5. ListInv
  BY DEF SnapshotInit, NoFiles, ListInv, ListDecisions
<1>6. AuditInv
  BY DEF SnapshotInit, NoAudit, AuditInv
<1> QED BY <1>1, <1>2, <1>4, <1>5, <1>6 DEF DemoInv

\* An explanation that is committed takes nothing back of what was read or
\* written before, and its trace is new.
LEMMA ExplainKeeps ==
  ASSUME DemoInv, NEW d \in Decisions, NEW trace \in BOOLEAN, Explain(d, trace)
  PROVE  DemoInv'
<1>1. RowsInv /\ WalkInv /\ FilesInv /\ ListInv /\ AuditInv
  BY DEF DemoInv
<1>2. UNCHANGED <<pc, read, index, files, exports, audit>>
  BY DEF Explain
<1>3. rows \in Seq(DecisionRow) /\ DOMAIN rows = Decisions /\ rows[d] \in DecisionRow
  BY <1>1 DEF RowsInv
<1>4. /\ rows[d].changed /\ ~rows[d].explained
      /\ trace => rows[d].steps = "none"
      /\ rows[d].steps # "explainer"
  BY <1>1 DEF Explain, RowsInv
<1>5. PICK row : row = [rows[d] EXCEPT !.explained = TRUE,
                                       !.steps = IF trace THEN "explainer" ELSE rows[d].steps]
  OBVIOUS
<1>6. rows' = [rows EXCEPT ![d] = row]
  BY <1>3, <1>5 DEF Explain
<1>7. row \in DecisionRow /\ row.explained /\ row.steps = IF trace THEN "explainer" ELSE rows[d].steps
  BY <1>3, <1>5 DEF DecisionRow
<1>8. /\ rows' \in Seq(DecisionRow) /\ DOMAIN rows' = Decisions
      /\ rows'[d] = row /\ \A e \in Decisions \ {d} : rows'[e] = rows[e]
  BY <1>3, <1>6, <1>7
<1>9. \A e \in Decisions :
        /\ rows[e].explained => rows'[e].explained
        /\ rows[e].steps # "none" => rows'[e].steps = rows[e].steps
        /\ rows'[e].steps = "explainer" => rows'[e].explained
        /\ rows'[e].steps = "explainer" /\ rows[e].steps # "explainer" =>
             ~rows[e].explained /\ rows[e].steps = "none"
  <2> SUFFICES ASSUME NEW e \in Decisions
               PROVE  /\ rows[e].explained => rows'[e].explained
                      /\ rows[e].steps # "none" => rows'[e].steps = rows[e].steps
                      /\ rows'[e].steps = "explainer" => rows'[e].explained
                      /\ rows'[e].steps = "explainer" /\ rows[e].steps # "explainer" =>
                           ~rows[e].explained /\ rows[e].steps = "none"
    OBVIOUS
  <2>1. CASE e = d
    BY <1>4, <1>7, <1>8, <2>1
  <2>2. CASE e # d
    <3>1. rows'[e] = rows[e]
      BY <1>8, <2>2
    <3> QED BY <1>1, <3>1 DEF RowsInv
  <2> QED BY <2>1, <2>2
<1>10. RowsInv'
  BY <1>8, <1>9 DEF RowsInv
<1>11. \A f \in Flag : Holds(f) => Holds(f)' /\ (Whole(f) => Whole(f)')
  <2> SUFFICES ASSUME NEW f \in Flag, Holds(f)
               PROVE  Holds(f)' /\ (Whole(f) => Whole(f)')
    OBVIOUS
  <2>1. f.id \in Decisions /\ f.explained \in BOOLEAN /\ f.traced \in BOOLEAN
    BY DEF Flag
  <2> QED BY <1>9, <2>1 DEF Holds, Whole
<1>12. WalkInv'
  <2>1. \A i \in DOMAIN read : Holds(read[i])' /\ Whole(read[i])'
    <3> SUFFICES ASSUME NEW i \in DOMAIN read PROVE Holds(read[i])' /\ Whole(read[i])'
      OBVIOUS
    <3>1. read[i] \in Flag /\ Holds(read[i]) /\ Whole(read[i]) /\ read'[i] = read[i]
      BY <1>1, <1>2 DEF WalkInv
    <3> QED BY <1>11, <3>1, <1>2 DEF Holds, Whole
  <2>2. \A i \in DOMAIN index : Holds(index[i])'
    <3> SUFFICES ASSUME NEW i \in DOMAIN index PROVE Holds(index[i])'
      OBVIOUS
    <3>1. index[i] \in Flag /\ Holds(index[i])
      BY <1>1 DEF WalkInv
    <3> QED BY <1>11, <3>1, <1>2 DEF Holds
  <2> QED BY <1>1, <1>2, <2>1, <2>2 DEF WalkInv, Matches
<1>13. FilesInv'
  <2> SUFFICES ASSUME NEW e \in Decisions PROVE Truthful(e)'
    BY <1>1, <1>2 DEF FilesInv
  <2>1. files' = files /\ Truthful(e)
    BY <1>1, <1>2 DEF FilesInv
  <2> QED BY <1>9, <2>1 DEF Truthful, File
<1>14. ListInv'
  <2>1. ListDecisions' = ListDecisions
    BY <1>2 DEF ListDecisions
  <2> SUFFICES ASSUME NEW f \in ListDecisions
               PROVE  f \in Flag /\ Holds(f)' /\ Serves(f)' /\ \A i \in DOMAIN read : Earlier(f, read[i])
    BY <1>2, <2>1 DEF ListInv, Earlier
  <2>2. f \in Flag /\ Holds(f) /\ Serves(f) /\ \A i \in DOMAIN read : Earlier(f, read[i])
    BY <1>1 DEF ListInv
  <2> QED BY <1>2, <1>11, <2>2 DEF Serves
<1>15. AuditInv'
  <2>1. \A i \in DOMAIN audit.todo : Stored(audit.todo[i])'
    <3> SUFFICES ASSUME NEW i \in DOMAIN audit.todo PROVE Stored(audit.todo[i])'
      OBVIOUS
    <3>1. audit.todo[i] \in Decisions /\ Stored(audit.todo[i])
      BY <1>1 DEF AuditInv
    <3> QED BY <1>2, <1>9, <3>1 DEF Stored
  <2>2. \A e \in audit.mismatches : e \in Decisions /\ rows'[e].explained /\ rows'[e].steps = "other"
    BY <1>1, <1>9 DEF AuditInv
  <2> QED BY <1>1, <1>2, <2>1, <2>2 DEF AuditInv
<1> QED BY <1>10, <1>12, <1>13, <1>14, <1>15 DEF DemoInv

\* What an export that starts reads is later than whatever is on the list.
LEMMA StartKeeps ==
  ASSUME DemoInv, StartExport
  PROVE  DemoInv'
<1>1. RowsInv /\ WalkInv /\ FilesInv /\ ListInv /\ AuditInv
  BY DEF DemoInv
<1>2. UNCHANGED <<rows, files, audit>> /\ index' = <<>> /\ pc' = "decisions"
  BY DEF StartExport
<1>3. PICK flags : flags = [d \in Decisions |-> Flags(d)]
  OBVIOUS
<1>4. read' = flags
  BY <1>3 DEF StartExport
<1>5. \A d \in Decisions : flags[d] \in Flag /\ flags[d].id = d /\ Holds(flags[d]) /\ Whole(flags[d])
  BY <1>1, <1>3, FlagsType
<1>6. DOMAIN flags = Decisions /\ flags \in Seq(Flag)
  <2>1. flags \in [Decisions -> Flag]
    BY <1>3, <1>5
  <2> QED BY <2>1, StartFacts
<1>7. WalkInv'
  <2>1. \A i \in DOMAIN read' : read'[i].id = Len(index') + i
    BY <1>2, <1>4, <1>5, <1>6, StartFacts
  <2>2. \A i \in DOMAIN read' : Holds(read[i])' /\ Whole(read[i])'
    BY <1>2, <1>4, <1>5, <1>6 DEF Holds, Whole
  <2> QED BY <1>2, <1>4, <1>6, <2>1, <2>2 DEF WalkInv
<1>8. ListInv'
  <2>1. ListDecisions' = ListDecisions
    BY <1>2 DEF ListDecisions
  <2> SUFFICES ASSUME NEW f \in ListDecisions
               PROVE  f \in Flag /\ Holds(f) /\ Serves(f) /\ \A i \in DOMAIN flags : Earlier(f, flags[i])
    BY <1>2, <1>4, <2>1 DEF ListInv, Earlier, Holds, Serves
  <2>2. f \in Flag /\ Holds(f) /\ Serves(f)
    BY <1>1 DEF ListInv
  <2>3. ASSUME NEW i \in DOMAIN flags PROVE Earlier(f, flags[i])
    <3>1. i \in Decisions /\ flags[i] = Flags(i) /\ rows[i] \in DecisionRow
      BY <1>1, <1>3, <1>6 DEF RowsInv
    <3>2. flags[i].id = i /\ flags[i].explained = rows[i].explained
      BY <3>1 DEF Flags
    <3>3. flags[i].traced <=> rows[i].steps # "none"
      <4>1. Flags(i).traced = (rows[i].steps # "none")
        BY DEF Flags
      <4> QED BY <3>1, <4>1, Zenon
    <3> QED BY <2>2, <3>2, <3>3 DEF Earlier, Holds
  <2> QED BY <2>2, <2>3
<1>9. RowsInv' /\ FilesInv' /\ AuditInv'
  BY <1>1, <1>2 DEF RowsInv, FilesInv, Truthful, AuditInv, Stored
<1> QED BY <1>7, <1>8, <1>9 DEF DemoInv

\* A write changes one file of the demo: the list, a decision's, or another.
LEMMA ListWritten ==
  ASSUME NEW fs, Folder(fs), NEW x, NEW new, new = [fs EXCEPT !.decisions = x]
  PROVE  Folder(new) /\ new.decision = fs.decision /\ new.decisions = x
BY DEF Folder

DecisionWrite(fs, new, d, x) == new = [fs EXCEPT !.decision[d] = x]

LEMMA DecisionWritten ==
  ASSUME NEW fs, Folder(fs), NEW d, NEW x, NEW new, DecisionWrite(fs, new, d, x)
  PROVE  Folder(new) /\ new.decision = [fs.decision EXCEPT ![d] = x] /\ new.decisions = fs.decisions
<1>1. PICK a, b, c, e, m :
        fs = [decision |-> a, decisions |-> b, backtests |-> c, eval |-> e, manifest |-> m]
  BY DEF Folder
<1>2. new = [decision |-> [a EXCEPT ![d] = x], decisions |-> b, backtests |-> c,
             eval |-> e, manifest |-> m]
  BY <1>1 DEF DecisionWrite
<1> QED BY <1>1, <1>2 DEF Folder

OtherWrite(fs, new) ==
  \/ new = fs
  \/ \E x : \/ new = [fs EXCEPT !.backtests = x]
            \/ new = [fs EXCEPT !.eval = x]
            \/ new = [fs EXCEPT !.manifest = x]

LEMMA OtherWritten ==
  ASSUME NEW fs, Folder(fs), NEW new, OtherWrite(fs, new)
  PROVE  Folder(new) /\ new.decision = fs.decision /\ new.decisions = fs.decisions
<1>1. PICK x : \/ new = fs
               \/ new = [fs EXCEPT !.backtests = x]
               \/ new = [fs EXCEPT !.eval = x]
               \/ new = [fs EXCEPT !.manifest = x]
  BY DEF OtherWrite
<1>2. CASE new = fs
  BY <1>2
<1>3. CASE new = [fs EXCEPT !.backtests = x]
  BY <1>3 DEF Folder
<1>4. CASE new = [fs EXCEPT !.eval = x]
  BY <1>4 DEF Folder
<1>5. CASE new = [fs EXCEPT !.manifest = x]
  BY <1>5 DEF Folder
<1> QED BY <1>1, <1>2, <1>3, <1>4, <1>5

\* Steps of the export that write neither a decision's file nor the list.
LEMMA OthersKeep ==
  ASSUME DemoInv,
         UNCHANGED <<rows, read, index, audit>>,
         OtherWrite(files, files'),
         \/ pc' = "idle"
         \/ /\ pc \in {"backtests", "eval", "manifest", "done", "refused"}
            /\ pc' \in {"backtests", "eval", "manifest", "done", "refused"}
  PROVE  DemoInv'
<1>1. RowsInv /\ WalkInv /\ FilesInv /\ ListInv /\ AuditInv
  BY DEF DemoInv
<1>2. /\ files'.decision = files.decision /\ files'.decisions = files.decisions
      /\ Folder(files')
  BY <1>1, OtherWritten DEF FilesInv
<1>3. ListDecisions' = ListDecisions
  BY <1>2 DEF ListDecisions
<1>4. ListInv'
  BY <1>1, <1>2, <1>3 DEF ListInv, Serves, Holds, Earlier
<1>5. WalkInv'
  BY <1>1, <1>2 DEF WalkInv, Holds, Whole, Matches
<1>6. RowsInv' /\ FilesInv' /\ AuditInv'
  BY <1>1, <1>2 DEF RowsInv, FilesInv, Truthful, AuditInv, Stored
<1> QED BY <1>4, <1>5, <1>6 DEF DemoInv

\* The next decision gets its file and its place in the index.
LEMMA DecisionKeeps ==
  ASSUME DemoInv, WriteDecision
  PROVE  DemoInv'
<1>1. RowsInv /\ WalkInv /\ FilesInv /\ ListInv /\ AuditInv
  BY DEF DemoInv
<1>2. UNCHANGED <<rows, pc, exports, audit>> /\ pc = "decisions" /\ read # <<>>
  BY DEF WriteDecision
<1>3. PICK f, n, m : f = Head(read) /\ n = Len(index) /\ m = Len(read)
  OBVIOUS
<1>4. /\ n \in Nat /\ m \in Nat \ {0} /\ DOMAIN index = 1..n /\ DOMAIN read = 1..m
      /\ f \in Flag /\ f = read[1] /\ Holds(f) /\ Whole(f) /\ f.id = n + 1
      /\ f.id \in Decisions /\ 1 \in DOMAIN read
  <2>1. index \in Seq(Flag) /\ read \in Seq(Flag) /\ read # <<>>
    BY <1>1, <1>2 DEF WalkInv
  <2>2. n \in Nat /\ m \in Nat \ {0} /\ DOMAIN index = 1..n /\ DOMAIN read = 1..m
    BY <1>3, <2>1
  <2>3. 1 \in DOMAIN read /\ f = read[1] /\ f \in Flag
    BY <1>3, <2>1, <2>2
  <2>4. Holds(f) /\ Whole(f) /\ f.id = n + 1
    BY <1>1, <1>3, <2>3 DEF WalkInv
  <2>5. f.id \in Decisions
    BY <2>3 DEF Flag
  <2> QED BY <2>2, <2>3, <2>4, <2>5
<1>5. files' = [files EXCEPT !.decision[f.id] = Detail(f)]
  BY <1>3 DEF WriteDecision
<1>6. index' = Append(index, f) /\ read' = Tail(read)
  BY <1>3 DEF WriteDecision, IndexEntry
<1>7. /\ index' \in Seq(Flag) /\ Len(index') = n + 1 /\ DOMAIN index' = 1..n + 1
      /\ index'[n + 1] = f /\ \A i \in 1..n : index'[i] = index[i]
  BY <1>1, <1>3, <1>4, <1>6 DEF WalkInv
<1>8. /\ read' \in Seq(Flag) /\ DOMAIN read' = 1..m - 1
      /\ \A i \in 1..m - 1 : read'[i] = read[i + 1] /\ i + 1 \in DOMAIN read
  BY <1>1, <1>2, <1>3, <1>4, <1>6 DEF WalkInv
<1>9. /\ files'.decision \in [Decisions -> {None, Torn} \cup File]
      /\ files'.decision[f.id] = Detail(f)
      /\ \A d \in Decisions \ {f.id} : files'.decision[d] = files.decision[d]
      /\ files'.decisions = files.decisions
      /\ Folder(files')
  <2>1. Detail(f) \in File
    BY <1>1, <1>4, DetailType
  <2>2. files.decision \in [Decisions -> {None, Torn} \cup File]
    BY <1>1 DEF FilesInv
  <2>3. PICK new : new = [files.decision EXCEPT ![f.id] = Detail(f)]
    OBVIOUS
  <2>4. /\ files'.decision = new /\ files'.decisions = files.decisions
        /\ Folder(files')
    <3>1. Folder(files) /\ DecisionWrite(files, files', f.id, Detail(f))
      BY <1>1, <1>5 DEF FilesInv, DecisionWrite
    <3>2. /\ Folder(files') /\ files'.decision = [files.decision EXCEPT ![f.id] = Detail(f)]
          /\ files'.decisions = files.decisions
      BY <3>1, DecisionWritten
    <3> QED BY <2>3, <3>2
  <2> QED BY <1>4, <2>1, <2>2, <2>3, <2>4
<1>10. /\ Detail(f) \in File
       /\ f.explained = Detail(f).explanation
       /\ f.traced <=> Detail(f).trace # "none"
       /\ Detail(f).explanation => rows[f.id].explained
       /\ Detail(f).trace # "none" => rows[f.id].steps = Detail(f).trace
       /\ rows[f.id].steps = "explainer" =>
            (Detail(f).explanation <=> Detail(f).trace = "explainer")
  BY <1>1, <1>4, DetailType
<1> HIDE DEF WriteDecision
<1>11. WalkInv'
  <2>1. \A i \in 1..n + 1 : index'[i].id = i /\ Holds(index'[i])
    <3> SUFFICES ASSUME NEW i \in 1..n + 1 PROVE index'[i].id = i /\ Holds(index'[i])
      OBVIOUS
    <3>1. CASE i = n + 1
      BY <1>4, <1>7, <3>1
    <3>2. CASE i # n + 1
      <4>1. i \in 1..n /\ i \in DOMAIN index
        BY <1>4, <3>2
      <4> QED BY <1>1, <1>7, <4>1 DEF WalkInv
    <3> QED BY <3>1, <3>2
  <2>2. \A i \in 1..n + 1 : Matches(index[i])'
    <3> SUFFICES ASSUME NEW i \in 1..n + 1 PROVE Matches(index[i])'
      OBVIOUS
    <3>1. CASE i = n + 1
      BY <1>4, <1>7, <1>9, <1>10, <3>1 DEF Matches
    <3>2. CASE i # n + 1
      <4>1. i \in 1..n /\ i \in DOMAIN index
        BY <1>4, <3>2
      <4>2. index'[i] = index[i] /\ index[i] \in Flag /\ index[i].id = i /\ Matches(index[i])
        BY <1>1, <1>2, <1>7, <4>1 DEF WalkInv
      <4>3. files'.decision[i] = files.decision[i]
        BY <1>4, <1>9, <4>1, <4>2 DEF Flag
      <4> QED BY <4>2, <4>3 DEF Matches
    <3> QED BY <3>1, <3>2
  <2>3. \A i \in 1..m - 1 : /\ read'[i].id = Len(index') + i
                            /\ Holds(read'[i]) /\ Whole(read'[i])
    <3> SUFFICES ASSUME NEW i \in 1..m - 1
                 PROVE  /\ read'[i].id = Len(index') + i
                        /\ Holds(read'[i]) /\ Whole(read'[i])
      OBVIOUS
    <3>1. i + 1 \in DOMAIN read /\ read'[i] = read[i + 1] /\ Len(index') = n + 1 /\ i \in Int
      BY <1>7, <1>8
    <3>2. read[i + 1].id = n + (i + 1) /\ Holds(read[i + 1]) /\ Whole(read[i + 1])
      BY <1>1, <1>3, <3>1 DEF WalkInv
    <3> QED BY <1>4, <3>1, <3>2
  <2> QED BY <1>2, <1>7, <1>8, <2>1, <2>2, <2>3 DEF WalkInv, Holds, Whole
<1>12. FilesInv'
  <2> SUFFICES ASSUME NEW d \in Decisions PROVE Truthful(d)'
    BY <1>9 DEF FilesInv
  <2>1. CASE d = f.id
    BY <1>2, <1>9, <1>10, <2>1 DEF Truthful
  <2>2. CASE d # f.id
    BY <1>1, <1>2, <1>9, <2>2 DEF FilesInv, Truthful
  <2> QED BY <2>1, <2>2
<1>13. ListInv'
  <2>1. ListDecisions' = ListDecisions
    BY <1>9 DEF ListDecisions
  <2> SUFFICES ASSUME NEW g \in ListDecisions
               PROVE  g \in Flag /\ Holds(g) /\ Serves(g)' /\ \A i \in DOMAIN read' : Earlier(g, read'[i])
    BY <1>2, <2>1 DEF ListInv, Earlier, Holds
  <2>2. g \in Flag /\ Holds(g) /\ Serves(g) /\ \A i \in DOMAIN read : Earlier(g, read[i])
    BY <1>1 DEF ListInv
  <2>3. \A i \in DOMAIN read' : Earlier(g, read'[i])
    BY <1>8, <2>2
  <2>4. Serves(g)'
    <3>1. g.id \in Decisions /\ Earlier(g, f)
      BY <1>4, <2>2 DEF Flag
    <3>2. CASE g.id = f.id
      BY <1>4, <1>9, <1>10, <3>1, <3>2 DEF Serves, Earlier
    <3>3. CASE g.id # f.id
      BY <1>9, <2>2, <3>1, <3>3 DEF Serves
    <3> QED BY <3>2, <3>3
  <2> QED BY <2>2, <2>3, <2>4
<1>14. RowsInv' /\ AuditInv'
  BY <1>1, <1>2 DEF RowsInv, AuditInv, Stored
<1> QED BY <1>11, <1>12, <1>13, <1>14 DEF DemoInv

\* Once the last decision has its file, the index is the list.
LEMMA IndexKeeps ==
  ASSUME DemoInv, WriteIndex
  PROVE  DemoInv'
<1>1. RowsInv /\ WalkInv /\ FilesInv /\ ListInv /\ AuditInv
  BY DEF DemoInv
<1>2. /\ UNCHANGED <<rows, read, index, exports, audit>>
      /\ pc = "decisions" /\ read = <<>> /\ pc' = "backtests"
  BY DEF WriteIndex
<1>3. files' = [files EXCEPT !.decisions = index]
  BY DEF WriteIndex
<1>4. Folder(files') /\ files'.decision = files.decision /\ files'.decisions = index
  BY <1>1, <1>3, ListWritten DEF FilesInv
<1>5. ASSUME NEW f \in ListDecisions'
      PROVE  f \in Flag /\ Holds(f) /\ Serves(f)
  <2>1. f \in ToSet(index)
    BY <1>4 DEF ListDecisions
  <2>2. PICK i \in DOMAIN index : f = index[i]
    BY <2>1 DEF ToSet
  <2>3. f \in Flag /\ Holds(f) /\ Matches(f)
    BY <1>1, <1>2, <2>2 DEF WalkInv
  <2> QED BY <2>3 DEF Serves, Matches
<1>6. ListInv'
  BY <1>2, <1>4, <1>5 DEF ListInv, Holds, Serves
<1>7. WalkInv'
  BY <1>1, <1>2, <1>4 DEF WalkInv, Holds, Whole, Matches
<1>8. RowsInv' /\ FilesInv' /\ AuditInv'
  BY <1>1, <1>2, <1>4 DEF RowsInv, FilesInv, Truthful, AuditInv, Stored
<1> QED BY <1>6, <1>7, <1>8 DEF DemoInv

\* A kill leaves half a file, of which the site says that it cannot be read.
LEMMA KillKeeps ==
  ASSUME DemoInv, ExportKilled
  PROVE  DemoInv'
<1>1. RowsInv /\ WalkInv /\ FilesInv /\ ListInv /\ AuditInv
  BY DEF DemoInv
<1>2. UNCHANGED <<rows, read, index, exports, audit>> /\ pc' = "idle"
  BY DEF ExportKilled
<1>3. CASE pc = "decisions" /\ read # <<>> /\ files' = [files EXCEPT !.decision[Head(read).id] = Torn]
  <2>1. PICK d : d = Head(read).id
    OBVIOUS
  <2>2. /\ Folder(files') /\ files'.decision = [files.decision EXCEPT ![d] = Torn]
        /\ files'.decisions = files.decisions
    <3>1. Folder(files) /\ DecisionWrite(files, files', d, Torn)
      BY <1>1, <1>3, <2>1 DEF FilesInv, DecisionWrite
    <3> QED BY <3>1, DecisionWritten
  <2>3. files.decision \in [Decisions -> {None, Torn} \cup File]
    BY <1>1 DEF FilesInv
  <2>4. /\ files'.decision \in [Decisions -> {None, Torn} \cup File]
        /\ \A e \in Decisions : files'.decision[e] = files.decision[e] \/ files'.decision[e] = Torn
    BY <2>2, <2>3
  <2>5. FilesInv'
    <3> SUFFICES ASSUME NEW e \in Decisions PROVE Truthful(e)'
      BY <2>2, <2>4 DEF FilesInv
    <3>1. Truthful(e)
      BY <1>1 DEF FilesInv
    <3> QED BY <1>2, <2>4, <3>1, Distinct DEF Truthful
  <2>6. ListInv'
    <3>1. ListDecisions' = ListDecisions
      BY <2>2 DEF ListDecisions
    <3> SUFFICES ASSUME NEW f \in ListDecisions
                 PROVE  /\ f \in Flag /\ Holds(f) /\ Serves(f)'
                        /\ \A i \in DOMAIN read : Earlier(f, read[i])
      BY <1>2, <3>1 DEF ListInv, Earlier, Holds
    <3>2. f \in Flag /\ Holds(f) /\ Serves(f) /\ \A i \in DOMAIN read : Earlier(f, read[i])
      BY <1>1 DEF ListInv
    <3>3. f.id \in Decisions
      BY <3>2 DEF Flag
    <3> QED BY <2>4, <3>2, <3>3 DEF Serves
  <2>7. RowsInv' /\ WalkInv' /\ AuditInv'
    BY <1>1, <1>2 DEF RowsInv, WalkInv, Holds, Whole, AuditInv, Stored
  <2> QED BY <2>5, <2>6, <2>7 DEF DemoInv
<1>4. CASE files' = [files EXCEPT !.decisions = Torn]
  <2>1. Folder(files') /\ files'.decision = files.decision /\ files'.decisions = Torn
    BY <1>1, <1>4, ListWritten DEF FilesInv
  <2>2. ListInv'
    BY <2>1 DEF ListInv, ListDecisions
  <2>3. RowsInv' /\ WalkInv' /\ FilesInv' /\ AuditInv'
    BY <1>1, <1>2, <2>1 DEF RowsInv, WalkInv, Holds, Whole, FilesInv, Truthful, AuditInv, Stored
  <2> QED BY <2>2, <2>3 DEF DemoInv
<1>5. CASE OtherWrite(files, files')
  BY <1>2, <1>5, OthersKeep
<1>6. \/ pc = "decisions" /\ read # <<>> /\ files' = [files EXCEPT !.decision[Head(read).id] = Torn]
      \/ files' = [files EXCEPT !.decisions = Torn]
      \/ OtherWrite(files, files')
  BY DEF ExportKilled, OtherWrite
<1> QED BY <1>3, <1>4, <1>5, <1>6

LEMMA ExportKeeps ==
  ASSUME DemoInv, ExportStep
  PROVE  DemoInv'
<1>1. CASE WriteBacktests \/ WriteEval \/ WriteManifest \/ ExportRaises \/ ExportAgain
  <2>1. UNCHANGED <<rows, read, index, audit>>
    BY <1>1 DEF WriteBacktests, WriteEval, WriteManifest, ExportRaises, ExportAgain
  <2>2. OtherWrite(files, files')
    <3>1. CASE WriteBacktests
      BY <3>1 DEF WriteBacktests, OtherWrite
    <3>2. CASE WriteEval
      <4>1. PICK x : files' = [files EXCEPT !.eval = x]
        BY <3>2 DEF WriteEval
      <4> QED BY <4>1 DEF OtherWrite
    <3>3. CASE WriteManifest
      <4>1. PICK x : files' = [files EXCEPT !.manifest = x]
        BY <3>3 DEF WriteManifest
      <4> QED BY <4>1 DEF OtherWrite
    <3>4. CASE ExportRaises \/ ExportAgain
      BY <3>4 DEF ExportRaises, ExportAgain, OtherWrite
    <3> QED BY <1>1, <3>1, <3>2, <3>3, <3>4
  <2>3. \/ pc' = "idle"
        \/ /\ pc \in {"backtests", "eval", "manifest", "done", "refused"}
           /\ pc' \in {"backtests", "eval", "manifest", "done", "refused"}
    BY <1>1 DEF WriteBacktests, WriteEval, WriteManifest, ExportRaises, ExportAgain
  <2> QED BY <2>1, <2>2, <2>3, OthersKeep
<1> QED BY <1>1, StartKeeps, DecisionKeeps, IndexKeeps, KillKeeps DEF ExportStep

-----------------------------------------------------------------------------
(* The completeness check *)

LEMMA InSomeOrder ==
  ASSUME NEW S, IsFiniteSet(S)
  PROVE  SetToSeq(S) \in Seq(S)
<1>1. PICK n \in Nat : n = Cardinality(S)
  BY FS_CardinalityType
<1>2. PICK f : f \in Bijection(1..n, S)
  BY <1>1, FS_CardinalityType DEF ExistsBijection
<1>3. f \in [1..n -> S] /\ IsInjective(f)
  BY <1>2 DEF Bijection, Injection, IsInjective
<1>4. SetToSeq(S) \in [1..n -> S]
  BY <1>1, <1>3 DEF SetToSeq
<1> QED BY <1>4

LEMMA AuditKeeps ==
  ASSUME DemoInv, StartAudit \/ AuditNext
  PROVE  DemoInv'
<1>1. RowsInv /\ WalkInv /\ FilesInv /\ ListInv /\ AuditInv
  BY DEF DemoInv
<1>2. UNCHANGED <<rows, pc, read, index, files, exports>>
  BY DEF StartAudit, AuditNext
<1>3. RowsInv' /\ WalkInv' /\ FilesInv' /\ ListInv'
  <2>1. ListDecisions' = ListDecisions
    BY <1>2 DEF ListDecisions
  <2> QED
    BY <1>1, <1>2, <2>1
    DEF RowsInv, WalkInv, Holds, Whole, Matches, FilesInv, Truthful, ListInv, Serves, Earlier
<1>4. CASE StartAudit
  <2>1. PICK asked : /\ asked \in {Decisions} \cup {{d} : d \in {e \in Decisions : rows[e].steps # "none"}}
                     /\ audit' = [todo       |-> SetToSeq({d \in asked : Stored(d)}),
                                  mismatches |-> {}]
    BY <1>4 DEF StartAudit
  <2>2. PICK S : S = {d \in asked : Stored(d)}
    OBVIOUS
  <2>3. S \subseteq Decisions /\ \A d \in S : Stored(d)
    BY <2>1, <2>2
  <2>4. SetToSeq(S) \in Seq(S)
    BY <2>3, StartFacts, FS_Subset, InSomeOrder
  <2>5. audit'.todo = SetToSeq(S) /\ audit'.mismatches = {}
    BY <2>1, <2>2
  <2>6. audit'.todo \in Seq(Decisions) /\ \A i \in DOMAIN audit'.todo : Stored(audit'.todo[i])
    <3>1. \A i \in DOMAIN SetToSeq(S) : SetToSeq(S)[i] \in S
      BY <2>4
    <3> QED BY <2>3, <2>4, <2>5, <3>1
  <2> QED BY <1>2, <1>3, <2>5, <2>6 DEF DemoInv, AuditInv, Stored
<1>5. CASE AuditNext
  <2>1. PICK todo, d : todo = audit.todo /\ d = Head(todo)
    OBVIOUS
  <2>2. /\ todo # <<>> /\ todo \in Seq(Decisions)
        /\ audit' = [todo       |-> Tail(todo),
                     mismatches |-> IF rows[d].steps = "explainer" THEN audit.mismatches
                                    ELSE audit.mismatches \cup {d}]
    BY <1>1, <1>5, <2>1 DEF AuditNext, AuditInv
  <2>3. d = todo[1] /\ 1 \in DOMAIN todo /\ d \in Decisions
    BY <2>1, <2>2
  <2>4. Stored(d) /\ rows[d] \in DecisionRow
    BY <1>1, <2>1, <2>3 DEF AuditInv, RowsInv
  <2>5. /\ Tail(todo) \in Seq(Decisions)
        /\ \A i \in DOMAIN Tail(todo) : i + 1 \in DOMAIN todo /\ Tail(todo)[i] = todo[i + 1]
    BY <2>2
  <2>6. \A i \in DOMAIN audit'.todo : Stored(audit'.todo[i])
    BY <1>1, <2>1, <2>2, <2>5 DEF AuditInv
  <2>7. \A e \in audit'.mismatches : e \in Decisions /\ rows[e].explained /\ rows[e].steps = "other"
    <3>1. rows[d].steps # "explainer" => rows[d].steps = "other"
      BY <2>4 DEF Stored, DecisionRow
    <3> QED BY <1>1, <2>2, <2>3, <2>4, <3>1 DEF AuditInv, Stored
  <2> QED BY <1>2, <1>3, <2>2, <2>5, <2>6, <2>7 DEF DemoInv, AuditInv, Stored
<1> QED BY <1>4, <1>5

\* Once an export came to its end, the list is its index.
LEMMA Listed ==
  ASSUME DemoInv, pc \in {"done", "refused"}, NEW f \in ListDecisions
  PROVE  Matches(f)
<1>1. WalkInv /\ files.decisions = index
  BY DEF DemoInv, WalkInv
<1>2. f \in ToSet(index)
  BY <1>1 DEF ListDecisions
<1>3. PICK i \in DOMAIN index : f = index[i]
  BY <1>2 DEF ToSet
<1> QED BY <1>1, <1>3 DEF WalkInv

-----------------------------------------------------------------------------
(* The theorems *)

\* Only the export, explain_recorded.py and the completeness check move what
\* the site and its readers depend on, and each keeps the invariant.
THEOREM DemoInvariant == Spec => []DemoInv
<1>1. Init => DemoInv
  BY DemoInit DEF Init
<1>2. DemoInv /\ [Next]_vars => DemoInv'
  <2> SUFFICES ASSUME DemoInv, [Next]_vars PROVE DemoInv'
    OBVIOUS
  <2>1. CASE UNCHANGED snapshotVars
    BY <2>1
    DEF snapshotVars, DemoInv, RowsInv, WalkInv, Holds, Whole, Matches, FilesInv, Truthful,
        ListInv, ListDecisions, Serves, Earlier, AuditInv, Stored
  <2>2. CASE \E d \in Decisions, trace \in BOOLEAN : Explain(d, trace)
    BY <2>2, ExplainKeeps
  <2>3. CASE ExportStep
    BY <2>3, ExportKeeps
  <2>4. CASE StartAudit \/ AuditNext
    BY <2>4, AuditKeeps
  <2> QED BY <2>1, <2>2, <2>3, <2>4 DEF Next, vars
<1> QED BY <1>1, <1>2, PTL DEF Spec

\* The site never leads nowhere: a listed decision has its file, with the
\* explanation and the trace that the list promises, also while an export runs
\* and after it broke off, and the list is exact once an export came to its end.
THEOREM WhatIsListedIsServed == Spec => []ListedIsServed
<1>1. DemoInv => ListedIsServed
  <2> SUFFICES ASSUME DemoInv, NEW f \in ListDecisions
               PROVE  LET explanation == ExplainDecision(f.id)
                          trace       == GetTrace(f.id)
                      IN  /\ LoadDecision(f.id) # NotFound
                          /\ f.explained => explanation # NotFound
                          /\ f.traced => trace # NotFound
                          /\ pc \in {"done", "refused"} =>
                               /\ f.explained <=> explanation = "explanation"
                               /\ f.traced <=> trace \in {"other", "explainer"}
    BY DEF ListedIsServed
  <2>1. f \in Flag /\ Serves(f) /\ f.explained \in BOOLEAN /\ f.traced \in BOOLEAN
    BY DEF DemoInv, ListInv, Flag
  <2>2. PICK file : file = files.decision[f.id]
    OBVIOUS
  <2>3. LoadDecision(f.id) = file /\ file # NotFound
    BY <2>1, <2>2, Distinct DEF Serves, LoadDecision
  <2>4. CASE file = Torn
    <3>1. ExplainDecision(f.id) = Torn /\ GetTrace(f.id) = Torn
      BY <2>3, <2>4 DEF ExplainDecision, GetTrace
    <3>2. pc \notin {"done", "refused"}
      <4> SUFFICES ASSUME pc \in {"done", "refused"} PROVE FALSE
        OBVIOUS
      <4>1. Matches(f)
        BY Listed
      <4> QED BY <2>2, <2>4, <4>1, Distinct DEF Matches
    <3> QED BY <2>3, <3>1, <3>2, Distinct
  <2>5. CASE file # Torn
    <3>1. /\ file \in File /\ file.explanation \in BOOLEAN
          /\ file.trace \in {"none", "other", "explainer"}
          /\ f.explained => file.explanation
          /\ f.traced => file.trace # "none"
      BY <2>1, <2>2, <2>5 DEF Serves, File
    <3>2. /\ ExplainDecision(f.id) = IF file.explanation THEN "explanation" ELSE NotFound
          /\ GetTrace(f.id) = IF file.trace = "none" THEN NotFound ELSE file.trace
      BY <2>3, <2>5 DEF ExplainDecision, GetTrace
    <3>3. pc \in {"done", "refused"} =>
            (f.explained <=> file.explanation) /\ (f.traced <=> file.trace # "none")
      BY <2>2, Listed DEF Matches
    <3> QED BY <2>1, <2>3, <3>1, <3>2, <3>3, Distinct
  <2> QED BY <2>4, <2>5
<1> QED BY <1>1, DemoInvariant, PTL

\* Whoever reads while decisions are being explained sees an explanation and the
\* trace that was committed with it together, or neither: in what is published,
\* and in the completeness check.
THEOREM BothOrNeither == Spec => []SeenTogether
<1>1. DemoInv => SeenTogether
  <2> SUFFICES ASSUME DemoInv PROVE SeenTogether
    OBVIOUS
  <2>1. ASSUME NEW d \in Decisions, files.decision[d] \notin {None, Torn},
               rows[d].steps = "explainer"
        PROVE  files.decision[d].explanation <=> files.decision[d].trace = "explainer"
    <3>1. files.decision[d] \in File
      BY <2>1 DEF DemoInv, FilesInv
    <3> QED BY <2>1, <3>1 DEF DemoInv, FilesInv, Truthful
  <2>2. \A d \in audit.mismatches : rows[d].explained /\ rows[d].steps = "other"
    BY DEF DemoInv, AuditInv
  <2> QED BY <2>1, <2>2 DEF SeenTogether
<1> QED BY <1>1, DemoInvariant, PTL

-----------------------------------------------------------------------------
(* Factorials *)

\* h is the table of factorials up to m.
Factorials(h, m) == h = [n \in 0..m |-> IF n = 0 THEN 1 ELSE n * h[n - 1]]

\* The tables of fewer and of more numbers agree.
LEMMA FactorialsAgree ==
  ASSUME NEW m \in Nat, NEW n \in Nat, n <= m, NEW h, Factorials(h, m), NEW g, Factorials(g, n)
  PROVE  \A i \in 0..n : h[i] = g[i]
<1> DEFINE B == {i \in 0..n : h[i] # g[i]}
<1>1. SUFFICES ASSUME B # {} PROVE FALSE
  OBVIOUS
<1>2. PICK i \in B : \A j \in B : i <= j
  <2>1. B \subseteq Nat
    OBVIOUS
  <2> HIDE DEF B
  <2> QED BY <1>1, <2>1, LeastOf
<1>3. /\ i \in 0..n /\ i \in 0..m /\ h[i] # g[i]
      /\ h[i] = IF i = 0 THEN 1 ELSE i * h[i - 1]
      /\ g[i] = IF i = 0 THEN 1 ELSE i * g[i - 1]
  BY DEF Factorials
<1>4. i - 1 \in 0..n => h[i - 1] = g[i - 1]
  BY <1>2, <1>3
<1> QED BY <1>3, <1>4

LEMMA FactorialsExist ==
  ASSUME NEW m \in Nat
  PROVE  \E h : Factorials(h, m)
<1> DEFINE B == {n \in Nat : ~\E h : Factorials(h, n)}
<1>1. SUFFICES ASSUME B # {} PROVE FALSE
  OBVIOUS
<1>2. PICK n \in B : \A j \in B : n <= j
  <2>1. B \subseteq Nat
    OBVIOUS
  <2> HIDE DEF B
  <2> QED BY <1>1, <2>1, LeastOf
<1>3. CASE n = 0
  <2> DEFINE h == [i \in 0..0 |-> 1]
  <2>1. h = [i \in 0..0 |-> IF i = 0 THEN 1 ELSE i * h[i - 1]]
    OBVIOUS
  <2> QED BY <1>2, <1>3, <2>1 DEF Factorials
<1>4. CASE n # 0
  <2>1. n \in Nat /\ n - 1 \in Nat /\ n - 1 \notin B
    BY <1>2, <1>4
  <2>2. PICK g : Factorials(g, n - 1)
    BY <2>1
  <2> DEFINE h == [i \in 0..n |-> IF i = n THEN n * g[n - 1] ELSE g[i]]
  <2>3. ASSUME NEW i \in 0..n
        PROVE  h[i] = IF i = 0 THEN 1 ELSE i * h[i - 1]
    <3>1. CASE i = n
      <4>1. h[i] = n * g[n - 1] /\ h[i - 1] = g[n - 1]
        BY <2>1, <3>1
      <4> QED BY <1>4, <3>1, <4>1
    <3>2. CASE i # n
      <4>1. i \in 0..(n - 1) /\ h[i] = g[i] /\ (i # 0 => h[i - 1] = g[i - 1])
        BY <2>1, <3>2
      <4>2. g[i] = IF i = 0 THEN 1 ELSE i * g[i - 1]
        BY <2>2, <4>1 DEF Factorials
      <4> QED BY <4>1, <4>2
    <3> QED BY <3>1, <3>2
  <2>4. h = [i \in 0..n |-> IF i = 0 THEN 1 ELSE i * h[i - 1]]
    <3>1. h = [i \in 0..n |-> h[i]]
      OBVIOUS
    <3> HIDE DEF h
    <3>2. [i \in 0..n |-> h[i]] = [i \in 0..n |-> IF i = 0 THEN 1 ELSE i * h[i - 1]]
      BY <2>3
    <3> QED BY <3>1, <3>2
  <2> HIDE DEF h
  <2> QED BY <1>2, <2>4 DEF Factorials
<1> QED BY <1>3, <1>4

\* The function of the library is defined by its equation.
LEMMA FactorialRecurs ==
  factorial = [n \in Nat |-> IF n = 0 THEN 1 ELSE n * factorial[n - 1]]
<1> DEFINE table(n) == CHOOSE h : Factorials(h, n)
           f == [n \in Nat |-> table(n)[n]]
<1>1. \A n \in Nat : Factorials(table(n), n)
  BY FactorialsExist
<1> HIDE DEF table
<1>2. ASSUME NEW n \in Nat
      PROVE  f[n] = IF n = 0 THEN 1 ELSE n * f[n - 1]
  <2>1. f[n] = IF n = 0 THEN 1 ELSE n * table(n)[n - 1]
    BY <1>1 DEF Factorials
  <2>2. CASE n # 0
    <3>1. n - 1 \in Nat /\ n - 1 <= n /\ n - 1 \in 0..(n - 1)
      BY <2>2
    <3>2. table(n)[n - 1] = table(n - 1)[n - 1]
      BY <1>1, <3>1, FactorialsAgree
    <3> QED BY <2>1, <3>1, <3>2
  <2> QED BY <2>1, <2>2
<1>3. f = [n \in Nat |-> IF n = 0 THEN 1 ELSE n * f[n - 1]]
  <2>1. f = [n \in Nat |-> f[n]]
    OBVIOUS
  <2> HIDE DEF f
  <2>2. [n \in Nat |-> f[n]] = [n \in Nat |-> IF n = 0 THEN 1 ELSE n * f[n - 1]]
    BY <1>2
  <2> QED BY <2>1, <2>2
<1> HIDE DEF f
<1>4. \E g : g = [n \in Nat |-> IF n = 0 THEN 1 ELSE n * g[n - 1]]
  BY <1>3
<1> QED BY <1>4 DEF factorial

LEMMA FactorialFacts ==
  /\ factorial[0] = 1
  /\ \A n \in Nat : factorial[n] \in Nat \ {0} /\ factorial[n + 1] = (n + 1) * factorial[n]
<1>1. \A n \in Nat : factorial[n] = IF n = 0 THEN 1 ELSE n * factorial[n - 1]
  BY FactorialRecurs
<1>2. factorial[0] = 1
  BY <1>1
<1>3. \A n \in Nat : factorial[n + 1] = (n + 1) * factorial[n]
  <2> SUFFICES ASSUME NEW n \in Nat PROVE factorial[n + 1] = (n + 1) * factorial[n]
    OBVIOUS
  <2>1. n + 1 \in Nat /\ n + 1 # 0 /\ (n + 1) - 1 = n
    OBVIOUS
  <2> QED BY <1>1, <2>1
<1>4. \A n \in Nat : factorial[n] \in Nat \ {0}
  <2> DEFINE B == {n \in Nat : factorial[n] \notin Nat \ {0}}
  <2>1. SUFFICES ASSUME B # {} PROVE FALSE
    OBVIOUS
  <2>2. PICK n \in B : \A j \in B : n <= j
    <3>1. B \subseteq Nat
      OBVIOUS
    <3> HIDE DEF B
    <3> QED BY <2>1, <3>1, LeastOf
  <2>3. n \in Nat /\ n # 0 /\ n - 1 \in Nat /\ n - 1 \notin B
    BY <1>2, <2>2
  <2>4. factorial[n - 1] \in Nat \ {0}
    BY <2>3
  <2>5. factorial[n] = n * factorial[n - 1]
    BY <1>1, <2>3
  <2>6. \A a, b \in Nat \ {0} : a * b \in Nat \ {0}
    OBVIOUS
  <2> QED BY <2>2, <2>3, <2>4, <2>5, <2>6
<1> QED BY <1>2, <1>3, <1>4

-----------------------------------------------------------------------------
(* Subsets of a size *)

Of(n, i)   == {T \in SUBSET (1..n) : Cardinality(T) = i}
Ways(n, i) == Cardinality(Of(n, i))

LEMMA SubsetsFinite ==
  ASSUME NEW n \in Nat
  PROVE  /\ IsFiniteSet(1..n) /\ Cardinality(1..n) = n /\ IsFiniteSet(SUBSET (1..n))
         /\ \A T \in SUBSET (1..n) : IsFiniteSet(T) /\ Cardinality(T) \in 0..n
         /\ \A C \in SUBSET (SUBSET (1..n)) : IsFiniteSet(C) /\ Cardinality(C) \in Nat
<1>1. IsFiniteSet(1..n) /\ Cardinality(1..n) = n
  BY FS_Interval
<1>2. IsFiniteSet(SUBSET (1..n))
  BY <1>1, FS_SUBSET
<1>3. \A T \in SUBSET (1..n) : IsFiniteSet(T) /\ Cardinality(T) \in 0..n
  <2> SUFFICES ASSUME NEW T \in SUBSET (1..n) PROVE IsFiniteSet(T) /\ Cardinality(T) \in 0..n
    OBVIOUS
  <2>1. IsFiniteSet(T) /\ Cardinality(T) <= Cardinality(1..n)
    BY <1>1, FS_Subset
  <2>2. Cardinality(T) \in Nat
    BY <2>1, FS_CardinalityType
  <2> QED BY <1>1, <2>1, <2>2
<1>4. \A C \in SUBSET (SUBSET (1..n)) : IsFiniteSet(C) /\ Cardinality(C) \in Nat
  BY <1>2, FS_Subset, FS_CardinalityType
<1> QED BY <1>1, <1>2, <1>3, <1>4

LEMMA WaysNone ==
  ASSUME NEW n \in Nat
  PROVE  Ways(n, 0) = 1 /\ \A i \in Nat : i > n => Ways(n, i) = 0
<1>1. \A T \in SUBSET (1..n) : IsFiniteSet(T) /\ Cardinality(T) \in 0..n
  BY SubsetsFinite
<1>2. Of(n, 0) = {{}}
  <2>1. \A T \in SUBSET (1..n) : Cardinality(T) = 0 <=> T = {}
    BY <1>1, FS_EmptySet
  <2> QED BY <2>1 DEF Of
<1>3. Cardinality({{}}) = 1
  BY FS_Singleton
<1>4. \A i \in Nat : i > n => Of(n, i) = {}
  BY <1>1 DEF Of
<1> QED BY <1>2, <1>3, <1>4, FS_EmptySet DEF Ways

\* Pascal's rule: a subset of 1..n+1 has n+1 or it has not.
LEMMA Pascal ==
  ASSUME NEW n \in Nat, NEW i \in Nat
  PROVE  Ways(n + 1, i + 1) = Ways(n, i + 1) + Ways(n, i)
<1> DEFINE A == Of(n, i + 1)
           B == Of(n, i)
           C == {T \in SUBSET (1..(n + 1)) : n + 1 \in T /\ Cardinality(T) = i + 1}
           f == [T \in B |-> T \cup {n + 1}]
<1>1. \A T \in SUBSET (1..(n + 1)) : IsFiniteSet(T) /\ Cardinality(T) \in Nat
  <2>1. n + 1 \in Nat
    OBVIOUS
  <2>2. \A T \in SUBSET (1..(n + 1)) : IsFiniteSet(T) /\ Cardinality(T) \in 0..(n + 1)
    BY <2>1, SubsetsFinite
  <2> QED BY <2>2
<1>2. Of(n + 1, i + 1) = A \cup C /\ A \cap C = {}
  <2>1. \A T : T \in SUBSET (1..(n + 1)) /\ n + 1 \notin T <=> T \in SUBSET (1..n)
    <3>1. 1..n = (1..(n + 1)) \ {n + 1}
      OBVIOUS
    <3> QED BY <3>1
  <2> QED BY <2>1 DEF Of
<1>3. f \in Bijection(B, C)
  <2>1. \A T \in B : T \cup {n + 1} \in C
    <3> SUFFICES ASSUME NEW T \in B PROVE T \cup {n + 1} \in C
      OBVIOUS
    <3>1. T \in SUBSET (1..n) /\ Cardinality(T) = i /\ IsFiniteSet(T)
      BY SubsetsFinite DEF Of
    <3>2. n + 1 \notin T /\ T \cup {n + 1} \in SUBSET (1..(n + 1))
      BY <3>1
    <3>3. Cardinality(T \cup {n + 1}) = i + 1
      BY <3>1, <3>2, FS_AddElement
    <3> QED BY <3>2, <3>3
  <2>2. \A T, U \in B : T \cup {n + 1} = U \cup {n + 1} => T = U
    <3>1. \A T \in B : n + 1 \notin T
      BY DEF Of
    <3>2. \A T \in B : (T \cup {n + 1}) \ {n + 1} = T
      BY <3>1
    <3> HIDE DEF B
    <3> QED BY <3>2
  <2>3. \A U \in C : U \ {n + 1} \in B /\ U = (U \ {n + 1}) \cup {n + 1}
    <3> SUFFICES ASSUME NEW U \in C PROVE U \ {n + 1} \in B /\ U = (U \ {n + 1}) \cup {n + 1}
      OBVIOUS
    <3>1. IsFiniteSet(U) /\ Cardinality(U) = i + 1 /\ n + 1 \in U /\ U \in SUBSET (1..(n + 1))
      BY <1>1
    <3>2. Cardinality(U \ {n + 1}) = i
      BY <3>1, FS_RemoveElement
    <3>3. U \ {n + 1} \in SUBSET (1..n)
      BY <3>1
    <3> QED BY <3>1, <3>2, <3>3 DEF Of
  <2>4. f \in [B -> C] /\ DOMAIN f = B /\ \A T \in B : f[T] = T \cup {n + 1}
    BY <2>1
  <2>5. \A T, U \in B : f[T] = f[U] => T = U
    BY <2>2, <2>4
  <2>6. \A U \in C : \E T \in B : f[T] = U
    <3> HIDE DEF f, C, B
    <3> SUFFICES ASSUME NEW U \in C PROVE \E T \in B : f[T] = U
      OBVIOUS
    <3>1. U \ {n + 1} \in B /\ f[U \ {n + 1}] = (U \ {n + 1}) \cup {n + 1}
      BY <2>3, <2>4
    <3>2. U = (U \ {n + 1}) \cup {n + 1}
      BY <2>3
    <3> QED BY <3>1, <3>2
  <2> HIDE DEF f, B, C
  <2> QED BY <2>4, <2>5, <2>6, Zenon DEF Bijection, Injection, Surjection, IsInjective
<1>4. IsFiniteSet(A) /\ IsFiniteSet(B) /\ Cardinality(A) \in Nat /\ Cardinality(B) \in Nat
  BY SubsetsFinite DEF Of
<1>5. IsFiniteSet(C) /\ Cardinality(C) = Cardinality(B)
  <2> HIDE DEF f, B, C
  <2>1. ExistsBijection(B, C)
    BY <1>3 DEF ExistsBijection
  <2> QED BY <1>4, <2>1, FS_Bijection
<1>6. Cardinality(A \cup C) = Cardinality(A) + Cardinality(C)
  <2> HIDE DEF A, C
  <2>1. Cardinality(A \cap C) = 0
    BY <1>2, FS_EmptySet
  <2>2. Cardinality(C) \in Nat
    BY <1>5, FS_CardinalityType
  <2>3. IsFiniteSet(A) /\ IsFiniteSet(C)
    BY <1>4, <1>5
  <2>4. Cardinality(A \cup C) = Cardinality(A) + Cardinality(C) - Cardinality(A \cap C)
    BY <2>3, FS_Union
  <2>5. Cardinality(A) \in Nat
    BY <1>4
  <2> QED BY <2>1, <2>2, <2>4, <2>5
<1> QED BY <1>2, <1>5, <1>6 DEF Ways

\* Exact division.
LEMMA DivideExact ==
  ASSUME NEW w \in Nat, NEW p \in Nat \ {0}
  PROVE  (w * p) \div p = w
<1> DEFINE q == (w * p) \div p
<1>1. q \in Int /\ q * p <= w * p /\ w * p < (q + 1) * p
  OBVIOUS
<1> HIDE DEF q
<1>2. q <= w
  <2>1. SUFFICES ASSUME q >= w + 1 PROVE FALSE
    BY <1>1
  <2>2. (q - w) * p >= p
    BY <1>1, <2>1
  <2> QED BY <1>1, <2>2
<1>3. w < q + 1
  <2>1. SUFFICES ASSUME w >= q + 1 PROVE FALSE
    BY <1>1
  <2>2. (w - (q + 1)) * p >= 0
    BY <1>1, <2>1
  <2> QED BY <1>1, <2>2
<1>4. q = w
  BY <1>1, <1>2, <1>3
<1> QED BY <1>4 DEF q

\* One row of the triangle from the one above: a and b of n, with what they are
\* divided by in the factorial f of n.
LEMMA TriangleStep ==
  ASSUME NEW a \in Nat, NEW b \in Nat, NEW f \in Nat, NEW j \in Nat, NEW k \in Nat,
         NEW x \in Nat, NEW y \in Nat,
         a * (((j + 1) * x) * y) = f, b * (x * ((k + 1) * y)) = f
  PROVE  (a + b) * (((j + 1) * x) * ((k + 1) * y)) = (j + 1 + k + 1) * f
<1> DEFINE z == x * y
<1>1. z \in Nat
  OBVIOUS
<1>2. ((j + 1) * x) * y = (j + 1) * z /\ x * ((k + 1) * y) = (k + 1) * z
  OBVIOUS
<1>3. ((j + 1) * x) * ((k + 1) * y) = (j + 1) * ((k + 1) * z)
  OBVIOUS
<1> HIDE DEF z
<1>4. a * ((j + 1) * z) = f /\ b * ((k + 1) * z) = f
  BY <1>2
<1>5. a * ((j + 1) * ((k + 1) * z)) = (k + 1) * (a * ((j + 1) * z))
  BY <1>1
<1>6. b * ((j + 1) * ((k + 1) * z)) = (j + 1) * (b * ((k + 1) * z))
  BY <1>1
<1>7. (a + b) * ((j + 1) * ((k + 1) * z)) = (k + 1) * f + (j + 1) * f
  <2> DEFINE u == (j + 1) * ((k + 1) * z)
  <2>1. u \in Nat /\ a * u = (k + 1) * f /\ b * u = (j + 1) * f
    BY <1>1, <1>4, <1>5, <1>6
  <2> HIDE DEF u
  <2>2. (a + b) * u = a * u + b * u
    BY <2>1
  <2>3. (a + b) * u = (k + 1) * f + (j + 1) * f
    BY <2>1, <2>2
  <2> QED BY <2>3 DEF u
<1>8. (k + 1) * f + (j + 1) * f = (j + 1 + k + 1) * f
  OBVIOUS
<1> QED BY <1>3, <1>7, <1>8

\* As many subsets of each size as the factorials say.
LEMMA WaysTimes ==
  ASSUME NEW n \in Nat
  PROVE  \A i \in 0..n : Ways(n, i) * (factorial[i] * factorial[n - i]) = factorial[n]
<1> DEFINE Is(m, i) == Ways(m, i) * (factorial[i] * factorial[m - i]) = factorial[m]
           B == {m \in Nat : \E i \in 0..m : ~Is(m, i)}
<1>1. SUFFICES ASSUME B # {} PROVE FALSE
  OBVIOUS
<1>2. PICK m \in B : \A j \in B : m <= j
  <2>1. B \subseteq Nat
    OBVIOUS
  <2> HIDE DEF B
  <2> QED BY <1>1, <2>1, LeastOf
<1>3. PICK i \in 0..m : ~Is(m, i)
  BY <1>2
<1>0. m \in Nat
  BY <1>2
<1>4. \A k \in Nat : factorial[k] \in Nat \ {0} /\ factorial[k + 1] = (k + 1) * factorial[k]
  BY FactorialFacts
<1>5. factorial[0] = 1
  BY FactorialFacts
<1>6. CASE i = 0
  <2>1. Ways(m, 0) = 1 /\ m - 0 = m /\ factorial[m] \in Nat
    BY <1>0, <1>4, WaysNone
  <2> QED BY <1>3, <1>5, <1>6, <2>1
<1>7. CASE i # 0
  <2>1. PICK k \in Nat : k + 1 = m
    <3>1. m - 1 \in Nat /\ (m - 1) + 1 = m
      BY <1>0, <1>7
    <3> QED BY <3>1
  <2>2. PICK j \in Nat : j + 1 = i
    <3>1. i - 1 \in Nat /\ (i - 1) + 1 = i
      BY <1>7
    <3> QED BY <3>1
  <2>3. j \in 0..k /\ \A e \in 0..k : Is(k, e)
    <3>1. k \notin B /\ k \in Nat
      BY <1>2, <2>1
    <3> QED BY <2>1, <2>2, <3>1
  <2>4. Ways(m, i) = Ways(k, j + 1) + Ways(k, j)
    BY <2>1, <2>2, Pascal
  <2>5. Ways(k, j + 1) \in Nat /\ Ways(k, j) \in Nat
    BY SubsetsFinite DEF Ways, Of
  <2>6. /\ Ways(k, j) * (factorial[j] * factorial[k - j]) = factorial[k]
        /\ factorial[m] = (k + 1) * factorial[k] /\ factorial[i] = (j + 1) * factorial[j]
        /\ factorial[j] \in Nat /\ factorial[k] \in Nat
    BY <1>4, <2>1, <2>2, <2>3
  <2>7. CASE j = k
    <3>1. Ways(k, j + 1) = 0 /\ k - j = 0 /\ m - i = 0
      BY <2>1, <2>2, <2>7, WaysNone
    <3>2. Ways(k, j) * factorial[k] = factorial[k]
      BY <1>5, <2>5, <2>6, <2>7, <3>1
    <3>3. Ways(m, i) * (factorial[i] * factorial[m - i]) = Ways(k, j) * ((k + 1) * factorial[k])
      BY <1>5, <2>4, <2>5, <2>6, <2>7, <3>1
    <3>4. \A w, x, y \in Nat : w * (x * y) = x * (w * y)
      OBVIOUS
    <3>5. k + 1 \in Nat
      OBVIOUS
    <3>6. Ways(k, j) * ((k + 1) * factorial[k]) = (k + 1) * (Ways(k, j) * factorial[k])
      BY <2>5, <2>6, <3>4, <3>5
    <3> QED BY <1>3, <2>6, <3>2, <3>3, <3>6
  <2>8. CASE j # k
    <3>1. PICK l \in Nat : l + 1 = k - j
      <4>1. k - j - 1 \in Nat /\ (k - j - 1) + 1 = k - j
        BY <2>3, <2>8
      <4> QED BY <4>1
    <3>2. /\ j + 1 \in 0..k /\ k - (j + 1) = l /\ m - i = l + 1 /\ k - j = l + 1
          /\ k + 1 = j + 1 + l + 1
      BY <2>1, <2>2, <2>3, <3>1
    <3>3. Ways(k, j + 1) * (factorial[j + 1] * factorial[l]) = factorial[k]
      BY <2>3, <3>2
    <3>4. /\ factorial[l + 1] = (l + 1) * factorial[l] /\ factorial[l] \in Nat
          /\ factorial[j + 1] = (j + 1) * factorial[j]
      BY <1>4
    <3> DEFINE x == factorial[j]
               y == factorial[l]
               f == factorial[k]
               a == Ways(k, j + 1)
               b == Ways(k, j)
    <3>5. a * (((j + 1) * x) * y) = f /\ b * (x * ((l + 1) * y)) = f
      BY <2>6, <3>2, <3>3, <3>4
    <3>6. a \in Nat /\ b \in Nat /\ f \in Nat /\ x \in Nat /\ y \in Nat
      BY <2>5, <2>6, <3>4
    <3>7. Ways(m, i) * (factorial[i] * factorial[m - i])
            = (a + b) * (((j + 1) * x) * ((l + 1) * y))
      BY <2>4, <2>6, <3>2, <3>4
    <3>8. factorial[m] = (j + 1 + l + 1) * f
      BY <2>6, <3>2
    <3> HIDE DEF x, y, f, a, b
    <3>9. (a + b) * (((j + 1) * x) * ((l + 1) * y)) = (j + 1 + l + 1) * f
      BY <3>5, <3>6, TriangleStep
    <3> QED BY <1>3, <3>7, <3>8, <3>9
  <2> QED BY <2>7, <2>8
<1> QED BY <1>6, <1>7

\* choose counts subsets.
LEMMA ChooseIsWays ==
  ASSUME NEW n \in Nat, NEW i \in 0..n
  PROVE  choose(n, i) = Ways(n, i) /\ Ways(n, i) \in Nat
<1> DEFINE p == factorial[i] * factorial[n - i]
<1>1. Ways(n, i) \in Nat
  BY SubsetsFinite DEF Ways, Of
<1>2. Ways(n, i) * p = factorial[n]
  BY WaysTimes
<1>3. p \in Nat \ {0}
  <2>1. i \in Nat /\ n - i \in Nat
    OBVIOUS
  <2>2. factorial[i] \in Nat \ {0} /\ factorial[n - i] \in Nat \ {0}
    BY <2>1, FactorialFacts
  <2>3. \A a, b \in Nat \ {0} : a * b \in Nat \ {0}
    OBVIOUS
  <2> QED BY <2>2, <2>3
<1>4. choose(n, i) = factorial[n] \div p
  BY DEF choose
<1> HIDE DEF p
<1>5. (Ways(n, i) * p) \div p = Ways(n, i)
  BY <1>1, <1>3, DivideExact
<1> QED BY <1>1, <1>2, <1>4, <1>5

-----------------------------------------------------------------------------
(* The tails of n coins *)

Sized(n, U) == {T \in SUBSET (1..n) : Cardinality(T) \in U}
Few(n, k)   == {T \in SUBSET (1..n) : Cardinality(T) <= k}
Many(n, k)  == {T \in SUBSET (1..n) : Cardinality(T) >= n - k}

\* The sum of the binomial coefficients up to k counts the subsets of at most k.
LEMMA TailCounts ==
  ASSUME NEW n \in Nat, NEW k \in 0..n
  PROVE  SumFunctionOnSet([i \in 0..k |-> choose(n, i)], 0..k) = Cardinality(Few(n, k))
<1> DEFINE f == [i \in 0..k |-> choose(n, i)]
           B == {U \in SUBSET (0..k) : SumFunctionOnSet(f, U) # Cardinality(Sized(n, U))}
<1>0. IsFiniteSet(0..k) /\ k \in Nat
  BY FS_Interval
<1>1. \A i \in 0..k : f[i] = Ways(n, i) /\ f[i] \in Nat
  BY ChooseIsWays
<1> HIDE DEF f
<1>2. B = {}
  <2>1. SUFFICES ASSUME B # {} PROVE FALSE
    OBVIOUS
  <2>2. B \subseteq SUBSET (0..k)
    OBVIOUS
  <2> HIDE DEF B
  <2>3. PICK U \in B : \A V \in B : V \subseteq U => V = U
    <3> DEFINE S == 0..k
    <3>1. IsFiniteSet(S)
      BY <1>0
    <3>2. B \subseteq SUBSET S
      BY <2>2
    <3> HIDE DEF S
    <3> QED BY <2>1, <3>1, <3>2, LeastSubset
  <2> USE DEF B
  <2>4. U \in SUBSET (0..k) /\ IsFiniteSet(U) /\ SumFunctionOnSet(f, U) # Cardinality(Sized(n, U))
    BY <1>0, FS_Subset
  <2>5. U # {}
    <3>1. Sized(n, {}) = {} /\ Cardinality({}) = 0
      BY FS_EmptySet DEF Sized
    <3>2. SumFunctionOnSet(f, {}) = 0
      BY SumOfNone
    <3> QED BY <2>4, <3>1, <3>2
  <2>6. PICK e \in U : TRUE
    BY <2>5
  <2> DEFINE V == U \ {e}
  <2>7. SumFunctionOnSet(f, V) = Cardinality(Sized(n, V))
    <3>1. V \in SUBSET (0..k) /\ V \subseteq U /\ V # U
      BY <2>4, <2>6
    <3> QED BY <2>3, <3>1
  <2>8. SumFunctionOnSet(f, U) = f[e] + SumFunctionOnSet(f, V)
    <3>1. \A x \in U : f[x] \in Int
      BY <1>1, <2>4
    <3>2. IsFiniteSet(U) /\ e \in U
      BY <2>4
    <3> HIDE DEF B, V
    <3>3. SumFunctionOnSet(f, U) = f[e] + SumFunctionOnSet(f, U \ {e})
      BY <3>1, <3>2, SumWithout
    <3> QED BY <3>3 DEF V
  <2>9. Sized(n, U) = Of(n, e) \cup Sized(n, V) /\ Of(n, e) \cap Sized(n, V) = {}
    BY <2>6 DEF Sized, Of
  <2>10. /\ IsFiniteSet(Of(n, e)) /\ IsFiniteSet(Sized(n, V))
         /\ Cardinality(Of(n, e)) \in Nat /\ Cardinality(Sized(n, V)) \in Nat
    BY SubsetsFinite DEF Of, Sized
  <2> HIDE DEF V
  <2>11. Cardinality(Sized(n, U)) = Cardinality(Of(n, e)) + Cardinality(Sized(n, V))
    <3>1. Cardinality(Of(n, e) \cup Sized(n, V)) =
            Cardinality(Of(n, e)) + Cardinality(Sized(n, V)) - Cardinality(Of(n, e) \cap Sized(n, V))
      BY <2>10, FS_Union
    <3>2. Cardinality(Of(n, e) \cap Sized(n, V)) = 0
      BY <2>9, FS_EmptySet
    <3> QED BY <2>9, <2>10, <3>1, <3>2
  <2>12. f[e] = Cardinality(Of(n, e))
    BY <1>1, <2>4 DEF Ways
  <2> QED BY <2>4, <2>7, <2>8, <2>11, <2>12
<1>3. Sized(n, 0..k) = Few(n, k)
  <2>1. \A T \in SUBSET (1..n) : Cardinality(T) \in 0..n
    BY SubsetsFinite
  <2> QED BY <2>1 DEF Sized, Few
<1>4. SumFunctionOnSet(f, 0..k) = Cardinality(Sized(n, 0..k))
  BY <1>2
<1> QED BY <1>3, <1>4 DEF f

\* As many outcomes have at most k heads as have at most k tails.
LEMMA Mirror ==
  ASSUME NEW n \in Nat, NEW k \in 0..n
  PROVE  Cardinality(Many(n, k)) = Cardinality(Few(n, k))
<1> DEFINE S == 1..n
           A == Few(n, k)
           B == Many(n, k)
           f == [T \in A |-> S \ T]
<1>1. \A T \in SUBSET S : Cardinality(S \ T) = n - Cardinality(T) /\ Cardinality(T) \in 0..n
  <2> SUFFICES ASSUME NEW T \in SUBSET S
               PROVE  Cardinality(S \ T) = n - Cardinality(T) /\ Cardinality(T) \in 0..n
    OBVIOUS
  <2>1. Cardinality(S \ T) = Cardinality(S) - Cardinality(S \cap T)
    BY SubsetsFinite, FS_Difference
  <2>2. S \cap T = T
    OBVIOUS
  <2> QED BY <2>1, <2>2, SubsetsFinite
<1>2. \A T \in A : S \ T \in B /\ S \ (S \ T) = T
  <2> SUFFICES ASSUME NEW T \in A PROVE S \ T \in B /\ S \ (S \ T) = T
    OBVIOUS
  <2>1. T \in SUBSET S /\ Cardinality(T) <= k
    BY DEF Few
  <2>2. Cardinality(S \ T) >= n - k
    BY <1>1, <2>1
  <2>3. S \ T \in SUBSET (1..n)
    OBVIOUS
  <2> QED BY <2>1, <2>2, <2>3 DEF Many
<1>3. \A T \in B : S \ T \in A /\ S \ (S \ T) = T
  <2> SUFFICES ASSUME NEW T \in B PROVE S \ T \in A /\ S \ (S \ T) = T
    OBVIOUS
  <2>1. T \in SUBSET S /\ Cardinality(T) >= n - k
    BY DEF Many
  <2>2. Cardinality(S \ T) <= k
    BY <1>1, <2>1
  <2>3. S \ T \in SUBSET (1..n)
    OBVIOUS
  <2> QED BY <2>1, <2>2, <2>3 DEF Few
<1>4. f \in [A -> B] /\ DOMAIN f = A /\ \A T \in A : f[T] = S \ T
  BY <1>2
<1>5. IsFiniteSet(A)
  BY SubsetsFinite DEF Few
<1> HIDE DEF f, A, B, S
<1>6. f \in Bijection(A, B)
  <2>1. \A T, U \in A : f[T] = f[U] => T = U
    BY <1>2, <1>4
  <2>2. \A U \in B : \E T \in A : f[T] = U
    BY <1>3, <1>4
  <2> QED BY <1>4, <2>1, <2>2, Zenon DEF Bijection, Injection, Surjection, IsInjective
<1>7. ExistsBijection(A, B)
  BY <1>6 DEF ExistsBijection
<1>8. Cardinality(B) = Cardinality(A)
  BY <1>5, <1>7, FS_Bijection
<1> QED BY <1>8 DEF A, B

\* The distance of two numbers.
Apart(a, b) == IF a < b THEN b - a ELSE a - b

\* The outcomes of w + l coins at least as one-sided as w against l.
Extreme(w, l) ==
  {heads \in SUBSET (1..(w + l)) :
     Apart(Cardinality(heads), w + l - Cardinality(heads)) >= Apart(w, l)}

\* sign_test_p is exact.
LEMMA SignTailExact ==
  ASSUME NEW w \in Nat, NEW l \in Nat
  PROVE  SignTail(w, l) = Cardinality(Extreme(w, l))
<1>1. PICK n \in Nat : n = w + l
  OBVIOUS
<1>2. PICK k \in Nat : /\ k = (IF w < l THEN w ELSE l)
                       /\ k \in 0..n /\ k + k <= n /\ Apart(w, l) = n - (k + k)
  BY <1>1 DEF Apart
<1>3. PICK t : t = Cardinality(Few(n, k)) /\ t = Cardinality(Many(n, k)) /\ t \in Nat
  <2>1. k \in 0..n
    BY <1>2
  <2>2. Few(n, k) \in SUBSET (SUBSET (1..n))
    BY DEF Few
  <2>3. Cardinality(Few(n, k)) \in Nat
    BY <2>2, SubsetsFinite
  <2>4. Cardinality(Many(n, k)) = Cardinality(Few(n, k))
    BY <2>1, Mirror
  <2> QED BY <2>3, <2>4
<1>4. SignTail(w, l) = IF 2 * t < 2^n THEN 2 * t ELSE 2^n
  <2>1. SumFunctionOnSet([i \in 0..k |-> choose(n, i)], 0..k) = t
    BY <1>2, <1>3, TailCounts
  <2>2. (IF w < l THEN w ELSE l) = k
    BY <1>2
  <2> QED BY <1>1, <2>1, <2>2 DEF SignTail
<1>5. Extreme(w, l) = Few(n, k) \cup Many(n, k)
  <2>1. \A T \in SUBSET (1..n) : Cardinality(T) \in 0..n
    BY SubsetsFinite
  <2>2. \A c \in 0..n : Apart(c, n - c) >= n - (k + k) <=> c <= k \/ c >= n - k
    BY <1>2 DEF Apart
  <2> QED BY <1>1, <1>2, <2>1, <2>2 DEF Extreme, Few, Many
<1>6. PICK all : all = 2^n /\ all = Cardinality(SUBSET (1..n)) /\ all \in Nat
  <2>1. PICK S : S = 1..n /\ IsFiniteSet(S) /\ Cardinality(S) = n
    BY SubsetsFinite
  <2>2. Cardinality(SUBSET S) = 2^Cardinality(S)
    BY <2>1, FS_SUBSET
  <2>3. SUBSET (1..n) \in SUBSET (SUBSET (1..n))
    OBVIOUS
  <2>4. Cardinality(SUBSET (1..n)) \in Nat
    BY <2>3, SubsetsFinite
  <2> QED BY <2>1, <2>2, <2>4
<1>7. PICK both : /\ both = Cardinality(Few(n, k) \cap Many(n, k)) /\ both \in Nat
                  /\ Cardinality(Few(n, k) \cup Many(n, k)) = t + t - both
  <2>0. /\ Few(n, k) \in SUBSET (SUBSET (1..n)) /\ Many(n, k) \in SUBSET (SUBSET (1..n))
        /\ Few(n, k) \cap Many(n, k) \in SUBSET (SUBSET (1..n))
    BY DEF Few, Many
  <2>1. IsFiniteSet(Few(n, k)) /\ IsFiniteSet(Many(n, k))
    BY <2>0, SubsetsFinite
  <2>2. Cardinality(Few(n, k) \cup Many(n, k)) =
          Cardinality(Few(n, k)) + Cardinality(Many(n, k)) - Cardinality(Few(n, k) \cap Many(n, k))
    BY <2>1, FS_Union
  <2>3. Cardinality(Few(n, k) \cap Many(n, k)) \in Nat
    BY <2>0, SubsetsFinite
  <2> QED BY <1>3, <2>2, <2>3
<1>8. Cardinality(Few(n, k) \cup Many(n, k)) <= all
  <2>1. Few(n, k) \cup Many(n, k) \in SUBSET (SUBSET (1..n))
    BY DEF Few, Many
  <2> QED BY <1>6, <2>1, SubsetsFinite, FS_Subset
<1>9. CASE k + k < n
  <2>1. Few(n, k) \cap Many(n, k) = {}
    <3>1. \A T \in SUBSET (1..n) : Cardinality(T) \in 0..n
      BY SubsetsFinite
    <3> QED BY <1>2, <1>9, <3>1 DEF Few, Many
  <2>2. both = 0
    BY <1>7, <2>1, FS_EmptySet
  <2>3. PICK c : c = Cardinality(Few(n, k) \cup Many(n, k)) /\ c = t + t /\ c <= all
    BY <1>3, <1>7, <1>8, <2>2
  <2>4. Cardinality(Extreme(w, l)) = t + t /\ t + t <= all
    BY <1>5, <2>3
  <2> QED BY <1>3, <1>4, <1>6, <2>4
<1>10. CASE k + k = n
  <2>1. Few(n, k) \cup Many(n, k) = SUBSET (1..n)
    <3>1. \A T \in SUBSET (1..n) : Cardinality(T) \in 0..n
      BY SubsetsFinite
    <3> QED BY <1>2, <1>10, <3>1 DEF Few, Many
  <2>2. Cardinality(Extreme(w, l)) = Cardinality(SUBSET (1..n))
    BY <1>5, <2>1
  <2>3. Cardinality(SUBSET (1..n)) = t + t - both
    BY <1>7, <2>1
  <2>4. Cardinality(Extreme(w, l)) = all /\ all <= t + t
    BY <1>3, <1>6, <1>7, <2>2, <2>3
  <2> QED BY <1>3, <1>4, <1>6, <2>4
<1> QED BY <1>2, <1>9, <1>10

-----------------------------------------------------------------------------
(* The rows that the judge graded *)

Days == ToSet(GoldenDays)

\* A row whose two grades were given for the answers they are recorded under.
Fair(r) ==
  /\ r \in [date : Days, answer : [Answers -> [grade : Grade, about : Answers]]]
  /\ \A who \in Answers : r.answer[who].about = who

\* The golden days were judged in their order, each once.
Graded(js) ==
  /\ js \in Seq([date : Days, answer : [Answers -> [grade : Grade, about : Answers]]])
  /\ Len(js) <= Len(GoldenDays)
  /\ \A i \in 1..Len(js) : Fair(js[i]) /\ js[i].date = GoldenDays[i]

\* explanation_test of the rows js.
Verdict(js, days) ==
  LET rs == RowsOf(js, days)
  IN  [days |-> Cardinality(rs), wins |-> Wins(rs), losses |-> Losses(rs),
       tail |-> SignTail(Wins(rs), Losses(rs)), bar |-> Beats(rs)]

\* The published evaluation is that of rows of all golden days.
Published(e) ==
  /\ Graded(e.judged) /\ Days \subseteq {r.date : r \in ToSet(e.judged)}
  /\ e.primary = Verdict(e.judged, Days)
  /\ e.unseen = Verdict(e.judged, Days \ SeenDays)

JudgeInv ==
  /\ stage = "judge" => Graded(out)
  /\ judgements # None => Graded(judgements)
  /\ files.eval \notin {None, Torn} => Published(files.eval)

LEMMA GoldenFacts ==
  /\ GoldenDays \in Seq(Days) /\ Len(GoldenDays) \in Nat
  /\ \A i \in 1..Len(GoldenDays) : GoldenDays[i] \in Days
  /\ \A i, j \in 1..Len(GoldenDays) : GoldenDays[i] = GoldenDays[j] => i = j
<1>1. GoldenDays \in Seq(Days) /\ NoNewsDays \in Seq(ToSet(NoNewsDays))
  BY EvalConstants DEF Days
<1>2. PICK D : D = Days \cup ToSet(NoNewsDays)
  OBVIOUS
<1>3. GoldenDays \in Seq(D) /\ NoNewsDays \in Seq(D)
  BY <1>1, <1>2
<1> DEFINE q == GoldenDays \o NoNewsDays
<1>4. /\ q \in Seq(D) /\ Len(q) = Len(GoldenDays) + Len(NoNewsDays)
      /\ \A i \in 1..Len(GoldenDays) : q[i] = GoldenDays[i]
  BY <1>3
<1>5. DOMAIN q = 1..Len(q) /\ 1..Len(GoldenDays) \subseteq DOMAIN q
  BY <1>3, <1>4
<1>6. \A a, b \in DOMAIN q : q[a] = q[b] => a = b
  BY EvalConstants DEF IsInjective
<1> HIDE DEF q
<1>7. \A i, j \in 1..Len(GoldenDays) : GoldenDays[i] = GoldenDays[j] => i = j
  BY <1>4, <1>5, <1>6
<1> QED BY <1>1, <1>7

\* The grades of A and B are recorded under the answers they were given for,
\* whichever of the two was shown first.
LEMMA JudgedFairly ==
  ASSUME NEW day \in Days, NEW a \in Grade, NEW b \in Grade
  PROVE  LET shown == OrderFor[day]
             given == <<[grade |-> a, about |-> shown[1]], [grade |-> b, about |-> shown[2]]>>
         IN  Fair([date   |-> day,
                   answer |-> [who \in Answers |->
                                 given[CHOOSE k \in 1..2 : Attributed(day)[k] = who]]])
<1> DEFINE shown == OrderFor[day]
           given == <<[grade |-> a, about |-> shown[1]], [grade |-> b, about |-> shown[2]]>>
           place(who) == CHOOSE k \in 1..2 : Attributed(day)[k] = who
           r == [date |-> day, answer |-> [who \in Answers |-> given[place(who)]]]
<1>1. shown \in {<<"explainer", "quote">>, <<"quote", "explainer">>}
  BY EvalConstants DEF Days
<1>2. \A who \in Answers : \E k \in 1..2 : shown[k] = who
  <2>1. CASE shown = <<"explainer", "quote">>
    BY <2>1 DEF Answers
  <2>2. CASE shown = <<"quote", "explainer">>
    BY <2>2 DEF Answers
  <2> QED BY <1>1, <2>1, <2>2
<1>3. \A who \in Answers : place(who) \in 1..2 /\ shown[place(who)] = who
  BY <1>2 DEF Attributed
<1> HIDE DEF place
<1>4. shown[1] \in Answers /\ shown[2] \in Answers
  BY <1>1 DEF Answers
<1>5. \A k \in 1..2 : given[k] \in [grade : Grade, about : Answers] /\ given[k].about = shown[k]
  BY <1>4
<1> HIDE DEF given, shown
<1>6. \A who \in Answers : /\ given[place(who)] \in [grade : Grade, about : Answers]
                           /\ given[place(who)].about = who
  BY <1>3, <1>5
<1>7. Fair(r)
  BY <1>6 DEF Fair
<1> QED BY <1>7 DEF r, given, shown, place

-----------------------------------------------------------------------------
(* Each step keeps it *)

LEMMA JudgeInit == Init => JudgeInv
BY DEF Init, EvalInit, SnapshotInit, NoFiles, JudgeInv

LEMMA NothingGraded == Graded(<<>>)
BY GoldenFacts DEF Graded

LEMMA OneMoreGraded ==
  ASSUME JudgeInv, JudgeNext
  PROVE  Graded(out')
<1>1. Graded(out) /\ Len(out) < Len(GoldenDays)
  BY DEF JudgeInv, JudgeNext
<1>2. PICK n \in Nat : n = Len(out) /\ n + 1 \in 1..Len(GoldenDays)
  BY <1>1, GoldenFacts DEF Graded
<1>3. PICK day : day = GoldenDays[n + 1] /\ day \in Days
  BY <1>2, GoldenFacts
<1>4. PICK row : Fair(row) /\ row.date = day /\ out' = Append(out, row)
  <2> DEFINE graded(d, a, b) ==
               LET shown == OrderFor[d]
                   given == <<[grade |-> a, about |-> shown[1]], [grade |-> b, about |-> shown[2]]>>
               IN  [date   |-> d,
                    answer |-> [who \in Answers |->
                                  given[CHOOSE k \in 1..2 : Attributed(d)[k] = who]]]
  <2>1. PICK a, b \in Grades : out' = Append(out, graded(GoldenDays[Len(out) + 1], a, b))
    BY DEF JudgeNext
  <2>2. a \in Grade /\ b \in Grade
    BY EvalConstants
  <2>3. Fair(graded(day, a, b))
    BY <1>3, <2>2, JudgedFairly
  <2>4. graded(day, a, b).date = day
    OBVIOUS
  <2> HIDE DEF graded
  <2>5. out' = Append(out, graded(day, a, b))
    BY <1>2, <1>3, <2>1
  <2> QED BY <2>3, <2>4, <2>5
<1> DEFINE R == [date : Days, answer : [Answers -> [grade : Grade, about : Answers]]]
<1>5. out \in Seq(R) /\ row \in R
  BY <1>1, <1>4 DEF Graded, Fair
<1> HIDE DEF R
<1>6. /\ out' \in Seq(R) /\ Len(out') = n + 1 /\ out'[n + 1] = row
      /\ \A i \in 1..n : out'[i] = out[i]
  BY <1>2, <1>4, <1>5
<1>7. \A i \in 1..Len(out') : Fair(out'[i]) /\ out'[i].date = GoldenDays[i]
  <2> SUFFICES ASSUME NEW i \in 1..(n + 1)
               PROVE  Fair(out'[i]) /\ out'[i].date = GoldenDays[i]
    BY <1>6
  <2>1. CASE i = n + 1
    BY <1>3, <1>4, <1>6, <2>1
  <2>2. CASE i # n + 1
    <3>1. i \in 1..n
      BY <2>2
    <3> QED BY <1>1, <1>2, <1>6, <3>1 DEF Graded
  <2> QED BY <2>1, <2>2
<1>8. Len(out') <= Len(GoldenDays)
  BY <1>2, <1>6
<1> QED BY <1>6, <1>7, <1>8 DEF Graded, R

LEMMA StagesKeepGrades ==
  ASSUME JudgeInv, EvalStep, UNCHANGED snapshotVars
  PROVE  JudgeInv'
<1>1. files' = files
  BY DEF snapshotVars
<1>2. CASE StartExplain
  BY <1>1, <1>2 DEF StartExplain, Begin, JudgeInv
<1>3. CASE ExplainNext
  BY <1>1, <1>3 DEF ExplainNext, JudgeInv
<1>4. CASE SaveExplanations
  BY <1>1, <1>4 DEF SaveExplanations, JudgeInv
<1>5. CASE StartJudge
  BY <1>1, <1>5, NothingGraded DEF StartJudge, Begin, JudgeInv
<1>6. CASE JudgeNext
  <2>1. Graded(out') /\ judgements' = judgements
    BY <1>6, OneMoreGraded DEF JudgeNext
  <2> QED BY <1>1, <2>1 DEF JudgeInv
<1>7. CASE SaveJudgements
  BY <1>1, <1>7 DEF SaveJudgements, JudgeInv
<1>8. CASE StageRaises
  BY <1>1, <1>8 DEF StageRaises, JudgeInv
<1> QED BY <1>2, <1>3, <1>4, <1>5, <1>6, <1>7, <1>8 DEF EvalStep

LEMMA ExportKeepsGrades ==
  ASSUME JudgeInv, Folder(files), ExportStep, UNCHANGED evalVars
  PROVE  JudgeInv'
<1>1. stage' = stage /\ out' = out /\ judgements' = judgements
  BY DEF evalVars
<1>2. CASE files'.eval = files.eval \/ files'.eval = Torn
  BY <1>1, <1>2 DEF JudgeInv
<1>3. CASE WriteEval
  <2>1. /\ Judged(Days)
        /\ files'.eval = [judged  |-> judgements,
                          primary |-> Test(Days),
                          unseen  |-> Test(Days \ SeenDays)]
    BY <1>3 DEF WriteEval, Folder, Days
  <2>2. Graded(judgements) /\ Days \subseteq {r.date : r \in ToSet(judgements)}
    BY <2>1 DEF Judged, JudgeInv
  <2>3. \A days : Test(days) = Verdict(judgements, days)
    BY DEF Test, Verdict
  <2>4. Published(files'.eval)
    BY <2>1, <2>2, <2>3 DEF Published
  <2> QED BY <1>1, <2>4 DEF JudgeInv
<1>4. ASSUME ~WriteEval PROVE files'.eval = files.eval \/ files'.eval = Torn
  <2>1. CASE files' = files
    BY <2>1
  <2>2. CASE WriteDecision \/ WriteIndex \/ WriteBacktests \/ WriteManifest
    BY <2>2 DEF WriteDecision, WriteIndex, WriteBacktests, WriteManifest, Folder
  <2>3. CASE ExportKilled
    BY <2>3 DEF ExportKilled, Folder
  <2>4. StartExport \/ ExportRaises \/ ExportAgain => files' = files
    BY DEF StartExport, ExportRaises, ExportAgain
  <2> QED BY <1>4, <2>1, <2>2, <2>3, <2>4 DEF ExportStep
<1> QED BY <1>2, <1>3, <1>4

LEMMA OthersKeepGrades ==
  ASSUME JudgeInv, UNCHANGED evalVars, files' = files
  PROVE  JudgeInv'
BY DEF evalVars, JudgeInv

-----------------------------------------------------------------------------
(* The published verdict *)

\* What a test of the rows js over these days has to say.
Exact(test, js, days) ==
  LET rs     == {r \in ToSet(js) : r.date \in days}
      yes(r, who) == Given(r, who).matches = "yes"
      won    == Cardinality({r \in rs : yes(r, "explainer") /\ ~yes(r, "quote")})
      lost   == Cardinality({r \in rs : yes(r, "quote") /\ ~yes(r, "explainer")})
      extreme == Cardinality(Extreme(won, lost))
      backed == Cardinality({r \in rs : Given(r, "explainer").supported})
  IN  /\ test.days = Cardinality(days)
      /\ test.wins = won /\ test.losses = lost /\ test.tail = extreme
      /\ test.bar <=> /\ 100 * extreme < AlphaPct * 2^(won + lost)
                      /\ won > lost
                      /\ 100 * backed >= 90 * Cardinality(days)

\* Of each day at most one row was judged.
LEMMA RowPerDay ==
  ASSUME NEW js, Graded(js), NEW days, days \subseteq {r.date : r \in ToSet(js)}
  PROVE  /\ IsFiniteSet(RowsOf(js, days))
         /\ Cardinality(RowsOf(js, days)) = Cardinality(days)
         /\ \A r \in RowsOf(js, days) : Fair(r)
<1> DEFINE rs == RowsOf(js, days)
           f == [r \in rs |-> r.date]
<1>1. Len(js) \in Nat /\ DOMAIN js = 1..Len(js) /\ Len(js) <= Len(GoldenDays)
  BY DEF Graded
<1>2. \A r \in rs : \E i \in 1..Len(js) : r = js[i]
  BY <1>1 DEF RowsOf, ToSet
<1>3. IsFiniteSet(rs)
  <2> DEFINE S == 1..Len(js)
             T == ToSet(js)
  <2>1. IsFiniteSet(S) /\ DOMAIN js = S
    BY <1>1, FS_Interval
  <2>2. js \in [S -> T] /\ \A t \in T : \E i \in S : js[i] = t
    BY <1>1 DEF ToSet, Graded
  <2>3. rs \subseteq T
    BY DEF RowsOf
  <2> HIDE DEF S, T, rs
  <2>4. js \in Surjection(S, T)
    BY <2>2, Zenon DEF Surjection
  <2>5. IsFiniteSet(T)
    BY <2>1, <2>4, FS_Surjection
  <2> QED BY <2>3, <2>5, FS_Subset
<1>4. \A r \in rs : Fair(r)
  BY <1>2 DEF Graded
<1>5. \A r, s \in rs : r.date = s.date => r = s
  <2> SUFFICES ASSUME NEW r \in rs, NEW s \in rs, r.date = s.date PROVE r = s
    OBVIOUS
  <2>1. PICK i \in 1..Len(js) : r = js[i]
    BY <1>2
  <2>2. PICK j \in 1..Len(js) : s = js[j]
    BY <1>2
  <2>3. GoldenDays[i] = GoldenDays[j]
    BY <2>1, <2>2 DEF Graded
  <2>4. i \in 1..Len(GoldenDays) /\ j \in 1..Len(GoldenDays)
    BY <1>1, GoldenFacts
  <2> QED BY <2>1, <2>2, <2>3, <2>4, GoldenFacts
<1>6. \A r \in rs : r.date \in days
  BY DEF RowsOf
<1>7. \A d \in days : \E r \in rs : r.date = d
  BY DEF RowsOf
<1>8. f \in [rs -> days] /\ DOMAIN f = rs /\ \A r \in rs : f[r] = r.date
  BY <1>6
<1> HIDE DEF f, rs
<1>9. f \in Bijection(rs, days)
  <2>1. \A r, s \in rs : f[r] = f[s] => r = s
    BY <1>5, <1>8
  <2>2. \A d \in days : \E r \in rs : f[r] = d
    BY <1>7, <1>8
  <2> QED BY <1>8, <2>1, <2>2, Zenon DEF Bijection, Injection, Surjection, IsInjective
<1>10. ExistsBijection(rs, days)
  BY <1>9 DEF ExistsBijection
<1>11. Cardinality(days) = Cardinality(rs)
  BY <1>3, <1>10, FS_Bijection
<1> QED BY <1>3, <1>4, <1>11 DEF rs

\* A fair row has each grade where it belongs.
LEMMA GivenIsRecorded ==
  ASSUME NEW r, Fair(r), NEW who \in Answers
  PROVE  Given(r, who) = r.answer[who].grade
<1>1. \A w \in Answers : r.answer[w].about = w
  BY DEF Fair
<1>2. (CHOOSE w \in Answers : r.answer[w].about = who) = who
  BY <1>1
<1> QED BY <1>2 DEF Given

\* explanation_test says what the grades say.
LEMMA VerdictExact ==
  ASSUME NEW js, Graded(js), NEW days, days \subseteq {r.date : r \in ToSet(js)}
  PROVE  Exact(Verdict(js, days), js, days)
<1> DEFINE rs == RowsOf(js, days)
           yes(r, who) == Given(r, who).matches = "yes"
           W == {r \in rs : yes(r, "explainer") /\ ~yes(r, "quote")}
           L == {r \in rs : yes(r, "quote") /\ ~yes(r, "explainer")}
           S == {r \in rs : Given(r, "explainer").supported}
<1>1. \A r \in rs : /\ yes(r, "explainer") <=> Yes(r, "explainer")
                    /\ yes(r, "quote") <=> Yes(r, "quote")
                    /\ Given(r, "explainer").supported = r.answer["explainer"].grade.supported
  <2> SUFFICES ASSUME NEW r \in rs
               PROVE  /\ yes(r, "explainer") <=> Yes(r, "explainer")
                      /\ yes(r, "quote") <=> Yes(r, "quote")
                      /\ Given(r, "explainer").supported = r.answer["explainer"].grade.supported
    OBVIOUS
  <2>1. Fair(r)
    BY RowPerDay
  <2>2. Given(r, "explainer") = r.answer["explainer"].grade /\ Given(r, "quote") = r.answer["quote"].grade
    BY <2>1, GivenIsRecorded DEF Answers
  <2> QED BY <2>2 DEF Yes
<1>2. W = {r \in rs : Yes(r, "explainer") /\ ~Yes(r, "quote")}
  BY <1>1
<1>3. L = {r \in rs : Yes(r, "quote") /\ ~Yes(r, "explainer")}
  BY <1>1
<1>4. S = {r \in rs : r.answer["explainer"].grade.supported}
  BY <1>1
<1>5. rs = {r \in ToSet(js) : r.date \in days}
  BY DEF RowsOf
<1>6. W \subseteq rs /\ L \subseteq rs /\ S \subseteq rs
  OBVIOUS
<1>7. PICK won \in Nat, lost \in Nat, backed \in Nat, size \in Nat :
        /\ won = Cardinality(W) /\ lost = Cardinality(L) /\ backed = Cardinality(S)
        /\ size = Cardinality(rs) /\ size = Cardinality(days)
  <2> HIDE DEF W, L, S
  <2>1. IsFiniteSet(rs) /\ Cardinality(rs) = Cardinality(days)
    BY RowPerDay
  <2> HIDE DEF rs
  <2>2. IsFiniteSet(W) /\ IsFiniteSet(L) /\ IsFiniteSet(S)
    BY <1>6, <2>1, FS_Subset
  <2>3. /\ Cardinality(W) \in Nat /\ Cardinality(L) \in Nat /\ Cardinality(S) \in Nat
        /\ Cardinality(rs) \in Nat
    BY <2>1, <2>2, FS_CardinalityType
  <2> QED BY <2>1, <2>3
<1>8. Wins(rs) = won /\ Losses(rs) = lost /\ Supported(rs) = backed
  BY <1>2, <1>3, <1>4, <1>7 DEF Wins, Losses, Supported
<1>9. PICK extreme : extreme = SignTail(won, lost) /\ extreme = Cardinality(Extreme(won, lost))
  BY SignTailExact
<1>10. Beats(rs) <=> /\ 100 * extreme < AlphaPct * 2^(won + lost)
                     /\ won > lost
                     /\ 10 * backed >= 9 * size
  BY <1>7, <1>8, <1>9 DEF Beats, Significant
<1>11. 10 * backed >= 9 * size <=> 100 * backed >= 90 * size
  OBVIOUS
<1>12. PICK test : test = Verdict(js, days)
  OBVIOUS
<1>13. /\ test.days = size /\ test.wins = won /\ test.losses = lost /\ test.tail = extreme
       /\ test.bar <=> Beats(rs)
  BY <1>7, <1>8, <1>9, <1>12 DEF Verdict
<1> HIDE DEF rs
<1>14. /\ test.days = Cardinality(days)
       /\ test.wins = Cardinality(W) /\ test.losses = Cardinality(L)
       /\ test.tail = Cardinality(Extreme(Cardinality(W), Cardinality(L)))
       /\ test.bar <=> /\ 100 * Cardinality(Extreme(Cardinality(W), Cardinality(L)))
                            < AlphaPct * 2^(Cardinality(W) + Cardinality(L))
                       /\ Cardinality(W) > Cardinality(L)
                       /\ 100 * Cardinality(S) >= 90 * Cardinality(days)
  <2> HIDE DEF W, L, S
  <2> QED BY <1>7, <1>9, <1>10, <1>11, <1>13
<1> QED BY <1>5, <1>12, <1>14 DEF Exact

-----------------------------------------------------------------------------

\* The evaluation's stages and the export keep what was graded as it was given.
THEOREM GradesAreKept == Spec => []JudgeInv
<1>1. Init => JudgeInv
  BY JudgeInit
<1>2. DemoInv /\ JudgeInv /\ [Next]_vars => JudgeInv'
  <2> SUFFICES ASSUME DemoInv, JudgeInv, [Next]_vars PROVE JudgeInv'
    OBVIOUS
  <2>1. CASE EvalStep /\ UNCHANGED snapshotVars
    BY <2>1, StagesKeepGrades
  <2>2. CASE ExportStep /\ UNCHANGED evalVars
    <3>1. Folder(files)
      BY DEF DemoInv, FilesInv
    <3> QED BY <2>2, <3>1, ExportKeepsGrades
  <2>3. CASE UNCHANGED evalVars /\ files' = files
    BY <2>3, OthersKeepGrades
  <2>4. CASE (\E d \in Decisions, trace \in BOOLEAN : Explain(d, trace)) /\ UNCHANGED evalVars
    BY <2>3, <2>4 DEF Explain
  <2>5. CASE (StartAudit \/ AuditNext) /\ UNCHANGED evalVars
    BY <2>3, <2>5 DEF StartAudit, AuditNext
  <2>6. CASE UNCHANGED vars
    BY <2>3, <2>6 DEF vars, snapshotVars
  <2> QED BY <2>1, <2>2, <2>4, <2>5, <2>6 DEF Next
<1> QED BY <1>1, <1>2, DemoInvariant, PTL DEF Spec

\* The published verdict is the pre-registered one: over every golden day, with
\* each grade counted for the answer it was given to and the exact p-value.
THEOREM VerdictIsExact == Spec => []EvalIsExact
<1>1. JudgeInv => EvalIsExact
  <2> SUFFICES ASSUME JudgeInv, files.eval \notin {None, Torn},
                      NEW pair \in {<<files.eval.primary, Days>>, <<files.eval.unseen, Days \ SeenDays>>}
               PROVE  Exact(pair[1], files.eval.judged, pair[2])
    BY DEF EvalIsExact, Exact, Extreme, Apart, Days
  <2>1. Published(files.eval)
    BY DEF JudgeInv
  <2>2. pair[2] \subseteq {r.date : r \in ToSet(files.eval.judged)}
    BY <2>1 DEF Published
  <2>3. pair[1] = Verdict(files.eval.judged, pair[2])
    <3>1. CASE pair = <<files.eval.primary, Days>>
      <4>1. pair[1] = files.eval.primary /\ pair[2] = Days
        BY <3>1
      <4> QED BY <2>1, <4>1 DEF Published
    <3>2. CASE pair = <<files.eval.unseen, Days \ SeenDays>>
      <4>1. pair[1] = files.eval.unseen /\ pair[2] = Days \ SeenDays
        BY <3>2
      <4> QED BY <2>1, <4>1 DEF Published
    <3> QED BY <3>1, <3>2
  <2>4. Exact(Verdict(files.eval.judged, pair[2]), files.eval.judged, pair[2])
    BY <2>1, <2>2, VerdictExact DEF Published
  <2> QED BY <2>3, <2>4
<1> QED BY <1>1, GradesAreKept, PTL
=============================================================================
