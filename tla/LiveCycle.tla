------------------------------- MODULE LiveCycle -------------------------------
(***************************************************************************)
(* Live decision cycles (app/agent/runner.py, run_decision_cycle): started *)
(* by POST /run/trigger or by the daily schedule, each one transaction at  *)
(* READ COMMITTED over all active symbols.  A SELECT sees the committed    *)
(* rows and its own; an UPDATE waits for another transaction's lock on the *)
(* row and then works on what that one committed.  The risk node reads     *)
(* positions through the pool, on a connection outside the transaction.    *)
(***************************************************************************)
EXTENDS RiskGate, FiniteSetsExt, SequencesExt

CONSTANTS Cycles,      \* the cycles that are started, at most once each
          SymbolSeq,   \* active symbols, ORDER BY symbol
          Proposals,   \* what the Portfolio Manager may propose
          Vars,        \* VaR figures the risk node may compute
          Prices,      \* prices the Technical Analyst may see
          StartLots,   \* rows of outcomes left by earlier cycles
          MaxAtOnce,   \* bound on the cycles that run at the same time
          None

ASSUME CycleConstants ==
  /\ SymbolSeq \in Seq(STRING) /\ IsInjective(SymbolSeq)
  /\ Proposals \subseteq Proposal
  /\ Vars \subseteq Int \cup {NoVar}
  /\ Prices \subseteq Nat
  /\ MaxAtOnce \in Nat \ {0}

Symbols == ToSet(SymbolSeq)

VARIABLES
  lots,       \* committed rows of outcomes: id -> row
  snapshots,  \* committed rows of price_snapshots
  decisions,  \* committed rows of decisions, with what their fill did
  nextId,     \* outcomes_id_seq
  clock,      \* time, advanced by every start
  pc,         \* where each cycle is
  startedAt,  \* its started_at, the as_of of everything it writes
  todo,       \* the symbols it has not finished
  market,     \* current_price in technical_opinion
  ruling,     \* final_action and final_quantity
  price,      \* the price its trade is recorded at
  plan,       \* open_lots still to be looked at
  remaining,  \* shares still to be sold
  tx,         \* its uncommitted rows
  overlapped  \* history: a cycle was started while another one ran

shared == <<lots, snapshots, decisions>>
local  == <<startedAt, todo, market, ruling, price, plan, remaining>>
vars   == <<shared, nextId, clock, pc, local, tx, overlapped>>

Busy   == {"deciding", "pricing", "trading", "selling"}
Running == {c \in Cycles : pc[c] \in Busy}
NoRows == [lots |-> <<>>, snapshots |-> {}, decisions |-> {}]

Init ==
  /\ lots = StartLots /\ snapshots = {} /\ decisions = {}
  /\ nextId = Cardinality(DOMAIN StartLots) + 1
  /\ clock = 1
  /\ pc = [c \in Cycles |-> "idle"]
  /\ startedAt = [c \in Cycles |-> 0]
  /\ todo      = [c \in Cycles |-> <<>>]
  /\ market    = [c \in Cycles |-> None]
  /\ ruling    = [c \in Cycles |-> None]
  /\ price     = [c \in Cycles |-> None]
  /\ plan      = [c \in Cycles |-> <<>>]
  /\ remaining = [c \in Cycles |-> 0]
  /\ tx        = [c \in Cycles |-> NoRows]
  /\ overlapped = FALSE

-----------------------------------------------------------------------------
(* The database *)

\* Rows by id: a single one, and some rows with new ones written over them.
OneRow(id, row)  == [i \in {id} |-> row]
Over(new, rows) ==
  [i \in DOMAIN new \cup DOMAIN rows |-> IF i \in DOMAIN new THEN new[i] ELSE rows[i]]

\* What a statement of this cycle reads.
LotsSeen(c)      == Over(tx[c].lots, lots)
SnapshotsSeen(c) == snapshots \cup tx[c].snapshots

OpenOf(rows, s) == {i \in DOMAIN rows : rows[i].symbol = s /\ rows[i].status = "OPEN"}
Shares(rows)    == [i \in DOMAIN rows |-> rows[i].shares]
Held(rows, s)   == SumFunctionOnSet(Shares(rows), OpenOf(rows, s))

LotRow == [symbol : Symbols, opened : Int, shares : Nat \ {0}, status : {"OPEN", "CLOSED"}]

\* What cycles that followed one another left: holdings within the cap, and no
\* two open lots of a symbol of the same age.
ASSUME StartAssumption ==
  /\ StartLots \in Seq(LotRow)
  /\ \A s \in Symbols : Held(StartLots, s) <= MaxPositionQty
  /\ \A i \in DOMAIN StartLots : StartLots[i].opened <= 0
  /\ \A s \in Symbols : \A i, j \in OpenOf(StartLots, s) :
       StartLots[i].opened = StartLots[j].opened => i = j

\* No other transaction has a version of this row pending.
Unlocked(c, id) == \A d \in Cycles \ {c} : id \notin DOMAIN tx[d].lots

Write(c, new) == tx' = [tx EXCEPT ![c].lots = Over(new, @)]

Symbol(c) == Head(todo[c])

-----------------------------------------------------------------------------
\* run_decision_cycle opens its transaction, inserts its runs row, and works
\* through _active_symbols.
Start(c) ==
  /\ pc[c] = "idle"
  /\ Cardinality(Running) < MaxAtOnce
  /\ overlapped' = (overlapped \/ Running # {})
  /\ todo' = [todo EXCEPT ![c] = SymbolSeq]
  /\ startedAt' = [startedAt EXCEPT ![c] = clock]
  /\ clock' = clock + 1
  /\ pc' = [pc EXCEPT ![c] = "deciding"]
  /\ UNCHANGED <<shared, nextId, market, ruling, price, plan, remaining, tx>>

\* Mutant of PositionShown: the risk node is shown no position.
PositionShownNone(c) == 0

\* PostgresRepository.list_positions.
PositionShown(c) == Held(lots, Symbol(c))

\* graph.ainvoke, then the decision's own rows.
Decide(c) ==
  /\ pc[c] = "deciding" /\ todo[c] # <<>>
  /\ \E t \in Proposals, var \in Vars :
       ruling' = [ruling EXCEPT ![c] = Gate(t, PositionShown(c), var)]
  /\ \E p \in Prices \cup {None} : market' = [market EXCEPT ![c] = p]
  /\ pc' = [pc EXCEPT ![c] = "pricing"]
  /\ UNCHANGED <<shared, nextId, clock, startedAt, todo, price, plan, remaining, tx, overlapped>>

\* _latest_close: the close of the newest snapshot.
LatestClose(c) ==
  LET rows == {r \in SnapshotsSeen(c) : r.symbol = Symbol(c)}
  IN  IF rows = {} THEN None
      ELSE (CHOOSE r \in rows : \A o \in rows : o.at <= r.at).close

\* The last snapshot's price, failing that the Technical Analyst's; it is
\* written back as this cycle's snapshot.
Price(c) ==
  LET known == LatestClose(c)
      p     == IF known # None THEN known ELSE market[c]
  IN  /\ pc[c] = "pricing"
      /\ price' = [price EXCEPT ![c] = p]
      /\ tx' = IF p = None THEN tx
               ELSE [tx EXCEPT ![c].snapshots =
                       @ \cup {[symbol |-> Symbol(c), at |-> startedAt[c], close |-> p]}]
      /\ pc' = [pc EXCEPT ![c] = "trading"]
      /\ UNCHANGED <<shared, nextId, clock, startedAt, todo, market, ruling, plan, remaining, overlapped>>

\* The row of decisions, kept with what became of it.
DecisionRow(c) ==
  [cycle |-> c, symbol |-> Symbol(c), action |-> ruling[c].action, qty |-> ruling[c].qty,
   price |-> price[c], market |-> market[c]]

\* The symbol is done: on to the next one.
Advance(c) ==
  /\ todo' = [todo EXCEPT ![c] = Tail(@)]
  /\ pc' = [pc EXCEPT ![c] = "deciding"]
  /\ UNCHANGED <<shared, clock, startedAt, market, ruling, price, overlapped>>

Recordable(c) == price[c] # None /\ ruling[c].action # "HOLD" /\ ruling[c].qty > 0

\* No price at all, HOLD, or a quantity of zero or less.
SkipTrade(c) ==
  /\ pc[c] = "trading" /\ ~Recordable(c)
  /\ tx' = [tx EXCEPT ![c].decisions = @ \cup {DecisionRow(c)}]
  /\ Advance(c)
  /\ UNCHANGED <<nextId, plan, remaining>>

NewLot(c) == [symbol |-> Symbol(c), opened |-> startedAt[c], shares |-> ruling[c].qty,
              status |-> "OPEN"]

BuyLot(c) ==
  /\ pc[c] = "trading" /\ Recordable(c) /\ ruling[c].action = "BUY"
  /\ tx' = [tx EXCEPT ![c].decisions = @ \cup {DecisionRow(c)},
                      ![c].lots = Over(OneRow(nextId, NewLot(c)), @)]
  /\ nextId' = nextId + 1
  /\ Advance(c)
  /\ UNCHANGED <<plan, remaining>>

\* Mutant of OpenLots: no ORDER BY, so cycles may differ in their order.
OpenLotsUnordered(rows, s) == SetToSeqs(OpenOf(rows, s))

\* The orders open_lots may be read in: ORDER BY opened_at ASC.
OpenLots(rows, s) ==
  {ids \in SetToSeqs(OpenOf(rows, s)) :
     \A i, j \in DOMAIN ids : i < j => rows[ids[i]].opened <= rows[ids[j]].opened}

\* open_lots is selected and its sum checked.
StartSell(c) ==
  LET rows == LotsSeen(c)
  IN  /\ pc[c] = "trading" /\ Recordable(c) /\ ruling[c].action = "SELL"
      /\ ruling[c].qty <= Held(rows, Symbol(c))
      /\ \E ids \in OpenLots(rows, Symbol(c)) :
           plan' = [plan EXCEPT ![c] = [k \in DOMAIN ids |-> [id |-> ids[k], shares |-> rows[ids[k]].shares]]]
      /\ remaining' = [remaining EXCEPT ![c] = ruling[c].qty]
      /\ pc' = [pc EXCEPT ![c] = "selling"]
      /\ UNCHANGED <<shared, nextId, clock, startedAt, todo, market, ruling, price, tx, overlapped>>

\* close_qty.
CloseQty(c, lot) == Min({remaining[c], lot.shares})

\* The next lot of open_lots, once its row is free: closed as a whole (UPDATE
\* ... WHERE id, whatever the row has become since), or reduced and split.
SellFromNext(c) ==
  LET lot == Head(plan[c])
      row == LotsSeen(c)[lot.id]
      qty == CloseQty(c, lot)
  IN  /\ pc[c] = "selling" /\ remaining[c] > 0 /\ plan[c] # <<>>
      /\ Unlocked(c, lot.id)
      /\ \/ /\ qty = lot.shares
            /\ Write(c, OneRow(lot.id, [row EXCEPT !.status = "CLOSED"]))
            /\ UNCHANGED nextId
         \/ /\ qty # lot.shares
            /\ row.shares > qty                   \* CHECK (quantity > 0)
            /\ Write(c, Over(OneRow(lot.id, [row EXCEPT !.shares = @ - qty]),
                             OneRow(nextId, [row EXCEPT !.shares = qty, !.status = "CLOSED"])))
            /\ nextId' = nextId + 1
      /\ remaining' = [remaining EXCEPT ![c] = @ - qty]
      /\ plan' = [plan EXCEPT ![c] = Tail(@)]
      /\ UNCHANGED <<shared, clock, pc, startedAt, todo, market, ruling, price, overlapped>>

EndSell(c) ==
  /\ pc[c] = "selling" /\ (remaining[c] = 0 \/ plan[c] = <<>>)
  /\ tx' = [tx EXCEPT ![c].decisions = @ \cup {DecisionRow(c)}]
  /\ plan' = [plan EXCEPT ![c] = <<>>]
  /\ remaining' = [remaining EXCEPT ![c] = 0]
  /\ Advance(c)
  /\ UNCHANGED nextId

\* runs.status = SUCCESS and commit.
Commit(c) ==
  /\ pc[c] = "deciding" /\ todo[c] = <<>>
  /\ lots' = LotsSeen(c)
  /\ snapshots' = SnapshotsSeen(c)
  /\ decisions' = decisions \cup tx[c].decisions
  /\ tx' = [tx EXCEPT ![c] = NoRows]
  /\ pc' = [pc EXCEPT ![c] = "done"]
  /\ UNCHANGED <<nextId, clock, local, overlapped>>

\* Mutant of Discard: the rows written so far are committed.
DiscardCommits(c) ==
  /\ lots' = LotsSeen(c) /\ snapshots' = SnapshotsSeen(c)
  /\ decisions' = decisions \cup tx[c].decisions

Discard(c) == UNCHANGED shared

\* A model, Alpaca or the database raises, or a SELL exceeds the open lots: the
\* transaction is rolled back and the cycle is over.
Abort(c) ==
  /\ pc[c] \in Busy
  /\ Discard(c)
  /\ tx' = [tx EXCEPT ![c] = NoRows]
  /\ pc' = [pc EXCEPT ![c] = "done"]
  /\ UNCHANGED <<nextId, clock, local, overlapped>>

Next ==
  \E c \in Cycles :
    \/ Start(c) \/ Decide(c) \/ Price(c)
    \/ SkipTrade(c) \/ BuyLot(c) \/ StartSell(c) \/ SellFromNext(c) \/ EndSell(c)
    \/ Commit(c) \/ Abort(c)

Spec == Init /\ [][Next]_vars

-----------------------------------------------------------------------------
(* Properties *)

\* Rows satisfy the constraints of their tables, committed or not.
TypeOK ==
  /\ \A i \in DOMAIN lots : lots[i] \in LotRow
  /\ \A c \in Cycles : \A i \in DOMAIN tx[c].lots : tx[c].lots[i] \in LotRow
  /\ pc \in [Cycles -> Busy \cup {"idle", "done"}]
  /\ remaining \in [Cycles -> Nat]

\* "A failure partway through leaves no partial run behind": a cycle that has
\* any committed decision has one for every active symbol.
WholeCycles ==
  \A d \in decisions : {e.symbol : e \in {f \in decisions : f.cycle = d.cycle}} = Symbols

\* Shares the recorded trades of a symbol moved.
Traded(s, action) ==
  LET trades == {d \in decisions : d.symbol = s /\ d.action = action
                                     /\ d.price # None /\ d.qty > 0}
  IN  SumFunctionOnSet([d \in trades |-> d.qty], trades)

\* PROJECT.md: "Hard 20 shares, enforced by the Risk Manager", and no short: as
\* long as cycles follow one another, whatever failed in between, positions keep
\* the cap and are what the committed decisions, all of them, bought and sold.
PositionWithinCap ==
  ~overlapped =>
    \A s \in Symbols :
      /\ Held(lots, s) \in 0..MaxPositionQty
      /\ Held(lots, s) = Held(StartLots, s) + Traded(s, "BUY") - Traded(s, "SELL")

\* A SELL beyond what is held raises: more is never sold than was bought.
SalesAreBacked ==
  \A s \in Symbols : Traded(s, "SELL") <= Held(StartLots, s) + Traded(s, "BUY")

WaitsFor(c, d) ==
  /\ pc[c] = "selling" /\ remaining[c] > 0 /\ plan[c] # <<>>
  /\ Head(plan[c]).id \in DOMAIN tx[d].lots

\* Overlapping cycles lock rows in the same order (by symbol, then by age), so
\* they never wait for each other in a circle.
NoCircularWait ==
  \A c, d \in Cycles : c # d => ~(WaitsFor(c, d) /\ WaitsFor(d, c))

\* price_snapshots holds "prices observed during live runs": what a cycle writes
\* there is what its Technical Analyst saw.
SnapshotIsObserved ==
  \A d \in decisions : d.price # None /\ d.market # None => d.price = d.market
=============================================================================
