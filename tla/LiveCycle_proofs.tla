---------------------------- MODULE LiveCycle_proofs ----------------------------
(***************************************************************************)
(* Proofs about LiveCycle, for any number of cycles, symbols and lots: a   *)
(* cycle commits as a whole, two cycles never wait for each other, and     *)
(* cycles that follow one another keep the cap and account for every share;*)
(* and, at the end, about the connections that cycles share with other     *)
(* requests.                                                               *)
(***************************************************************************)
EXTENDS LiveCycle, ConnPool, TradingFacts

-----------------------------------------------------------------------------
(* The inductive invariant *)

\* How many symbols a cycle has finished, and which.
Pos(c) == Len(SymbolSeq) - Len(todo[c])
Finished(c, s) == \E p \in 1..Pos(c) : s = SymbolSeq[p]

RowsOK(rows) ==
  /\ DOMAIN rows \subseteq 1..(nextId - 1)
  /\ \A i \in DOMAIN rows : rows[i] \in LotRow

PlannedLot == [id : Nat, shares : Nat \ {0}]

Three(r) == [lots |-> r.lots, snapshots |-> r.snapshots, decisions |-> r.decisions]
Shape(t) == t = [c \in Cycles |-> Three(t[c])]

LTypes ==
  /\ nextId \in Nat \ {0} /\ clock \in Nat \ {0}
  /\ RowsOK(lots)
  /\ pc \in [Cycles -> Busy \cup {"idle", "done"}]
  /\ startedAt \in [Cycles -> Nat]
  /\ todo \in [Cycles -> Seq(Symbols)]
  /\ plan \in [Cycles -> Seq(PlannedLot)]
  /\ remaining \in [Cycles -> Nat]
  /\ DOMAIN ruling = Cycles /\ DOMAIN market = Cycles /\ DOMAIN price = Cycles
  /\ Shape(tx) /\ \A c \in Cycles : RowsOK(tx[c].lots)

\* Where a cycle is in its list of symbols.
TodoOf(c) ==
  /\ Len(todo[c]) <= Len(SymbolSeq)
  /\ \A k \in 1..Len(todo[c]) : todo[c][k] = SymbolSeq[Pos(c) + k]
  /\ pc[c] \in {"pricing", "trading", "selling"} => todo[c] # <<>> /\ ruling[c] \in Ruling
  /\ pc[c] = "selling" => Recordable(c) /\ ruling[c].action = "SELL"
  /\ pc[c] \notin Busy => tx[c] = NoRows

\* Uncommitted decisions are one for each finished symbol; committed ones are
\* of cycles that are done, and complete.
WholeOf(c) ==
  /\ \A d \in tx[c].decisions : d.cycle = c /\ d.qty \in Int /\ Finished(c, d.symbol)
  /\ \A d, e \in tx[c].decisions : d.symbol = e.symbol => d = e
  /\ pc[c] \in Busy =>
       \A p \in 1..Pos(c) : \E d \in tx[c].decisions : d.symbol = SymbolSeq[p]
  /\ IsFiniteSet(tx[c].decisions)

LCommitted ==
  /\ \A d \in decisions : d.cycle \in Cycles /\ pc[d.cycle] = "done" /\ d.qty \in Int
  /\ IsFiniteSet(decisions)
  /\ WholeCycles

\* The versions of the rows, committed and pending.
Versions == {lots} \cup {tx[c].lots : c \in Cycles}

\* All versions of a row are of one lot; open lots of a symbol differ in age.
SameLot ==
  \A A, B \in Versions : \A i \in DOMAIN A \cap DOMAIN B :
    A[i].symbol = B[i].symbol /\ A[i].opened = B[i].opened

AgesDiffer ==
  \A A, B \in Versions : \A i \in DOMAIN A, j \in DOMAIN B :
    /\ A[i].status = "OPEN" /\ B[j].status = "OPEN"
    /\ A[i].symbol = B[j].symbol /\ A[i].opened = B[j].opened
    => i = j

\* Nothing has the age of a running cycle but what it bought itself.
LClock ==
  /\ \A A \in Versions : \A i \in DOMAIN A : A[i].opened < clock
  /\ \A c \in Cycles : startedAt[c] < clock
  /\ \A c, d \in Cycles : pc[c] # "idle" /\ pc[d] # "idle" /\ startedAt[c] = startedAt[d] => c = d

AgesOf(c) ==
  pc[c] \in Busy =>
    /\ \A i \in DOMAIN lots : lots[i].opened # startedAt[c]
    /\ \A d \in Cycles \ {c} : \A i \in DOMAIN tx[d].lots : tx[d].lots[i].opened # startedAt[c]
    /\ \A i \in DOMAIN tx[c].lots :
         tx[c].lots[i].opened = startedAt[c] => Finished(c, tx[c].lots[i].symbol)

\* What a selling cycle still has to look at are committed rows of its symbol,
\* oldest first; what it has written is older, or of an earlier symbol.
PlanOf(c) ==
  pc[c] = "selling" =>
    /\ \A k \in DOMAIN plan[c] :
         plan[c][k].id \in DOMAIN lots /\ lots[plan[c][k].id].symbol = Symbol(c)
    /\ \A k, l \in DOMAIN plan[c] :
         k < l => lots[plan[c][k].id].opened < lots[plan[c][l].id].opened

LockedOf(c) ==
  \A i \in DOMAIN tx[c].lots :
    LET row == tx[c].lots[i]
    IN  \/ Finished(c, row.symbol)
        \/ /\ pc[c] = "selling" /\ row.symbol = Symbol(c)
           /\ \A k \in DOMAIN plan[c] : row.opened < lots[plan[c][k].id].opened

CycleInv(c) == TodoOf(c) /\ WholeOf(c) /\ AgesOf(c) /\ PlanOf(c) /\ LockedOf(c)

\* What a decision moved.
Moved(d) == IF d.price # None /\ d.qty > 0 THEN PositionAfter(0, d.action, d.qty) ELSE 0

Balanced(c) ==
  LET seen == LotsSeen(c)
  IN  /\ \A d \in tx[c].decisions :
           /\ Held(seen, d.symbol) = Held(lots, d.symbol) + Moved(d)
           /\ Held(seen, d.symbol) \in 0..MaxPositionQty
      /\ pc[c] \in {"pricing", "trading", "selling"} =>
           LedgerAfter(Held(lots, Symbol(c)), ruling[c].action, ruling[c].qty) \in 0..MaxPositionQty
      /\ pc[c] = "selling" =>
           /\ Held(seen, Symbol(c)) = Held(lots, Symbol(c)) - ruling[c].qty + remaining[c]
           /\ remaining[c] <= Held(seen, Symbol(c))
           /\ remaining[c] > 0 =>
                /\ OpenOf(seen, Symbol(c)) = {plan[c][k].id : k \in DOMAIN plan[c]}
                /\ \A k \in DOMAIN plan[c] : plan[c][k].shares = seen[plan[c][k].id].shares

LCap ==
  ~overlapped =>
    /\ \A c, d \in Running : c = d
    /\ PositionWithinCap
    /\ \A c \in Running : Balanced(c)

LInv ==
  /\ LTypes /\ LCommitted /\ SameLot /\ AgesDiffer /\ LClock
  /\ \A c \in Cycles : CycleInv(c)
  /\ LCap
-----------------------------------------------------------------------------
(* What a table of rows holds of a symbol *)

LEMMA OverRows ==
  ASSUME NEW new, NEW rows
  PROVE  /\ DOMAIN Over(new, rows) = DOMAIN new \cup DOMAIN rows
         /\ \A i \in DOMAIN new : Over(new, rows)[i] = new[i]
         /\ \A i \in DOMAIN rows \ DOMAIN new : Over(new, rows)[i] = rows[i]
BY DEF Over

LEMMA OneRowIs ==
  ASSUME NEW id, NEW row
  PROVE  DOMAIN OneRow(id, row) = {id} /\ OneRow(id, row)[id] = row
BY DEF OneRow

\* Finitely many rows of the table's type.
Table(rows) ==
  /\ \E n \in Nat : DOMAIN rows \subseteq 1..n
  /\ \A i \in DOMAIN rows : rows[i] \in LotRow

LEMMA OpenIsFinite ==
  ASSUME NEW rows, Table(rows), NEW s
  PROVE  /\ IsFiniteSet(OpenOf(rows, s))
         /\ \A i \in OpenOf(rows, s) :
              Shares(rows)[i] = rows[i].shares /\ rows[i].shares \in Nat \ {0}
<1>1. PICK n \in Nat : DOMAIN rows \subseteq 1..n
  BY DEF Table
<1>2. IsFiniteSet(1..n)
  BY FS_Interval
<1>3. OpenOf(rows, s) \subseteq 1..n
  BY <1>1 DEF OpenOf
<1> QED BY <1>2, <1>3, FS_Subset DEF OpenOf, Shares, Table, LotRow

LEMMA HeldType ==
  ASSUME NEW rows, Table(rows), NEW s
  PROVE  /\ Held(rows, s) \in Nat
         /\ \A i \in OpenOf(rows, s) : rows[i].shares <= Held(rows, s)
<1>1. /\ IsFiniteSet(OpenOf(rows, s))
      /\ \A i \in OpenOf(rows, s) :
           Shares(rows)[i] = rows[i].shares /\ rows[i].shares \in Nat \ {0}
  BY OpenIsFinite
<1>2. /\ SumFunctionOnSet(Shares(rows), OpenOf(rows, s)) \in Nat
      /\ \A i \in OpenOf(rows, s) :
           Shares(rows)[i] <= SumFunctionOnSet(Shares(rows), OpenOf(rows, s))
  BY <1>1, SumOfNats
<1> QED BY <1>1, <1>2 DEF Held

LEMMA HeldNone ==
  ASSUME NEW rows, NEW s, OpenOf(rows, s) = {}
  PROVE  Held(rows, s) = 0
BY SumOfNone DEF Held

LEMMA HeldSame ==
  ASSUME NEW rows, NEW new, Table(rows), Table(new), NEW s,
         OpenOf(new, s) = OpenOf(rows, s),
         \A i \in OpenOf(rows, s) : new[i].shares = rows[i].shares
  PROVE  Held(new, s) = Held(rows, s)
<1>1. IsFiniteSet(OpenOf(rows, s))
  BY OpenIsFinite
<1>2. \A i \in OpenOf(rows, s) : Shares(new)[i] = Shares(rows)[i]
  BY OpenIsFinite
<1> QED BY <1>1, <1>2, SumCongruent DEF Held

\* One more open row.
LEMMA HeldMore ==
  ASSUME NEW rows, NEW new, Table(rows), Table(new), NEW s,
         NEW id, id \notin OpenOf(rows, s), OpenOf(new, s) = OpenOf(rows, s) \cup {id},
         \A i \in OpenOf(rows, s) : new[i].shares = rows[i].shares
  PROVE  Held(new, s) = Held(rows, s) + new[id].shares
<1> DEFINE open == OpenOf(rows, s)
<1>1. IsFiniteSet(open) /\ \A i \in open \cup {id} : Shares(new)[i] = new[i].shares
                                                       /\ new[i].shares \in Int
  BY OpenIsFinite
<1>2. SumFunctionOnSet(Shares(new), open \cup {id})
        = Shares(new)[id] + SumFunctionOnSet(Shares(new), open)
  BY <1>1, SumWith
<1>3. \A i \in open : Shares(new)[i] = Shares(rows)[i]
  BY OpenIsFinite
<1>4. SumFunctionOnSet(Shares(new), open) = SumFunctionOnSet(Shares(rows), open)
  BY <1>1, <1>3, SumCongruent
<1>5. Held(rows, s) \in Int
  BY HeldType
<1>6. Held(new, s) = new[id].shares + Held(rows, s) /\ new[id].shares \in Int
  BY <1>1, <1>2, <1>4 DEF Held
<1> QED BY <1>5, <1>6

\* One open row less.
LEMMA HeldLess ==
  ASSUME NEW rows, NEW new, Table(rows), Table(new), NEW s,
         NEW id \in OpenOf(rows, s), OpenOf(new, s) = OpenOf(rows, s) \ {id},
         \A i \in OpenOf(new, s) : new[i].shares = rows[i].shares
  PROVE  Held(new, s) = Held(rows, s) - rows[id].shares
<1> DEFINE rest == OpenOf(rows, s) \ {id}
<1>1. /\ IsFiniteSet(OpenOf(rows, s))
      /\ \A i \in OpenOf(rows, s) : Shares(rows)[i] = rows[i].shares /\ rows[i].shares \in Int
  BY OpenIsFinite
<1>2. Held(rows, s) = rows[id].shares + SumFunctionOnSet(Shares(rows), rest)
  BY <1>1, SumWithout DEF Held
<1>3. IsFiniteSet(rest) /\ \A i \in rest : Shares(new)[i] = Shares(rows)[i]
  <2>1. \A i \in OpenOf(new, s) : Shares(new)[i] = new[i].shares
    BY OpenIsFinite
  <2> QED BY <1>1, <2>1, FS_Subset
<1>4. SumFunctionOnSet(Shares(new), rest) = SumFunctionOnSet(Shares(rows), rest)
  BY <1>3, SumCongruent
<1>5. Held(new, s) = SumFunctionOnSet(Shares(new), rest)
  BY DEF Held
<1>6. Held(new, s) \in Int /\ rows[id].shares \in Int
  BY <1>1, HeldType
<1> QED BY <1>2, <1>4, <1>5, <1>6

\* One open row with other shares.
LEMMA HeldChanged ==
  ASSUME NEW rows, NEW new, Table(rows), Table(new), NEW s,
         NEW id \in OpenOf(rows, s), OpenOf(new, s) = OpenOf(rows, s),
         \A i \in OpenOf(rows, s) \ {id} : new[i].shares = rows[i].shares
  PROVE  Held(new, s) = Held(rows, s) - rows[id].shares + new[id].shares
<1> DEFINE open == OpenOf(rows, s)
           rest == open \ {id}
<1>1. IsFiniteSet(open) /\ \A i \in open : /\ Shares(rows)[i] = rows[i].shares
                                           /\ Shares(new)[i] = new[i].shares
                                           /\ rows[i].shares \in Int /\ new[i].shares \in Int
  BY OpenIsFinite
<1>2. IsFiniteSet(rest)
  BY <1>1, FS_Subset
<1>3. SumFunctionOnSet(Shares(new), rest) = SumFunctionOnSet(Shares(rows), rest)
  BY <1>1, <1>2, SumCongruent
<1>4. /\ Held(new, s) = new[id].shares + SumFunctionOnSet(Shares(new), rest)
      /\ Held(rows, s) = rows[id].shares + SumFunctionOnSet(Shares(rows), rest)
  BY <1>1, SumWithout DEF Held
<1>5. SumFunctionOnSet(Shares(rows), rest) \in Int
  BY <1>1, <1>2, SumType
<1>6. rows[id].shares \in Int /\ new[id].shares \in Int
  BY <1>1
<1> HIDE DEF rest, open
<1> QED BY <1>3, <1>4, <1>5, <1>6

LEMMA SeenIs ==
  ASSUME NEW c
  PROVE  /\ DOMAIN LotsSeen(c) = DOMAIN tx[c].lots \cup DOMAIN lots
         /\ \A i \in DOMAIN LotsSeen(c) : LotsSeen(c)[i] =
              IF i \in DOMAIN tx[c].lots THEN tx[c].lots[i] ELSE lots[i]
BY DEF LotsSeen, Over

LEMMA RowsAreTables ==
  ASSUME LTypes, NEW c \in Cycles
  PROVE  Table(lots) /\ Table(tx[c].lots) /\ Table(LotsSeen(c))
<1>1. nextId - 1 \in Nat
  BY DEF LTypes
<1>2. Table(lots) /\ Table(tx[c].lots)
  BY <1>1 DEF LTypes, RowsOK, Table
<1>3. DOMAIN LotsSeen(c) = DOMAIN tx[c].lots \cup DOMAIN lots
      /\ \A i \in DOMAIN LotsSeen(c) : LotsSeen(c)[i] =
           IF i \in DOMAIN tx[c].lots THEN tx[c].lots[i] ELSE lots[i]
  BY SeenIs
<1>4. \A i \in DOMAIN LotsSeen(c) : LotsSeen(c)[i] \in LotRow
  BY <1>2, <1>3 DEF Table
<1>5. DOMAIN LotsSeen(c) \subseteq 1..(nextId - 1)
  BY <1>3 DEF LTypes, RowsOK
<1> QED BY <1>1, <1>2, <1>4, <1>5 DEF Table

-----------------------------------------------------------------------------
(* The initial state *)

LEMMA StartTable == Table(StartLots)
<1>1. Len(StartLots) \in Nat /\ DOMAIN StartLots = 1..Len(StartLots)
  BY StartAssumption
<1> QED BY <1>1, StartAssumption DEF Table

LEMMA LInvInit == Init => LInv
<1> SUFFICES ASSUME Init PROVE LInv
  OBVIOUS
<1>0. /\ Len(StartLots) \in Nat /\ DOMAIN StartLots = 1..Len(StartLots)
      /\ \A i \in DOMAIN StartLots : StartLots[i] \in LotRow
      /\ nextId = Len(StartLots) + 1 /\ Len(SymbolSeq) \in Nat
  <2>1. Len(StartLots) \in Nat /\ DOMAIN StartLots = 1..Len(StartLots)
        /\ \A i \in DOMAIN StartLots : StartLots[i] \in LotRow
    BY StartAssumption
  <2>2. Cardinality(1..Len(StartLots)) = Len(StartLots)
    BY <2>1, FS_Interval
  <2>3. Len(SymbolSeq) \in Nat
    BY CycleConstants
  <2> QED BY <2>1, <2>2, <2>3 DEF Init
<1>1. LTypes
  BY <1>0 DEF LTypes, Shape, Three, RowsOK, Init, NoRows, Busy
<1>2. LCommitted
  BY FS_EmptySet DEF LCommitted, WholeCycles, Init
<1>4. \A A \in Versions : A = StartLots \/ DOMAIN A = {}
  BY DEF Versions, Init, NoRows
<1>5. SameLot
  BY <1>4 DEF SameLot
<1>6. AgesDiffer
  <2> SUFFICES ASSUME NEW i \in DOMAIN StartLots, NEW j \in DOMAIN StartLots,
                      StartLots[i].status = "OPEN", StartLots[j].status = "OPEN",
                      StartLots[i].symbol = StartLots[j].symbol,
                      StartLots[i].opened = StartLots[j].opened
               PROVE  i = j
    BY <1>4 DEF AgesDiffer
  <2>1. StartLots[i].symbol \in Symbols
    BY <1>0 DEF LotRow
  <2> QED BY <2>1, StartAssumption DEF OpenOf
<1>7. LClock
  BY <1>0, <1>4, StartAssumption DEF LClock, Init, LotRow
<1>8. ASSUME NEW c \in Cycles
      PROVE  CycleInv(c)
  <2>1. /\ todo[c] = <<>> /\ pc[c] = "idle" /\ Pos(c) = Len(SymbolSeq)
        /\ tx[c] = NoRows /\ tx[c].lots = <<>> /\ tx[c].decisions = {}
    BY <1>0 DEF Init, NoRows, Pos
  <2>2. TodoOf(c)
    BY <1>0, <2>1 DEF TodoOf, Busy
  <2>3. WholeOf(c)
    BY <2>1, FS_EmptySet DEF WholeOf, Busy
  <2>4. AgesOf(c) /\ PlanOf(c) /\ LockedOf(c)
    BY <2>1 DEF AgesOf, PlanOf, LockedOf, Busy
  <2> QED BY <2>2, <2>3, <2>4 DEF CycleInv
<1>9. LCap
  <2>1. Running = {}
    BY DEF Running, Init, Busy
  <2>2. ASSUME NEW s \in Symbols
        PROVE  Held(lots, s) \in 0..MaxPositionQty
               /\ Held(lots, s) = Held(StartLots, s) + Traded(s, "BUY") - Traded(s, "SELL")
    <3>1. Held(StartLots, s) \in Nat /\ Held(StartLots, s) <= MaxPositionQty
      BY StartTable, HeldType, StartAssumption
    <3>2. Traded(s, "BUY") = 0 /\ Traded(s, "SELL") = 0
      <4>1. \A a : {d \in decisions : d.symbol = s /\ d.action = a
                                      /\ d.price # None /\ d.qty > 0} = {}
        BY DEF Init
      <4> QED BY <4>1, SumOfNone DEF Traded
    <3> QED BY <3>1, <3>2, RiskConstants DEF Init
  <2> QED BY <2>1, <2>2 DEF LCap, PositionWithinCap
<1> QED BY <1>1, <1>2, <1>5, <1>6, <1>7, <1>8, <1>9 DEF LInv

-----------------------------------------------------------------------------
(* What a step of one cycle leaves alone *)

Untouched(e) ==
  /\ pc'[e] = pc[e] /\ startedAt'[e] = startedAt[e] /\ todo'[e] = todo[e]
  /\ market'[e] = market[e] /\ ruling'[e] = ruling[e] /\ price'[e] = price[e]
  /\ plan'[e] = plan[e] /\ remaining'[e] = remaining[e] /\ tx'[e] = tx[e]

Step(c) ==
  \/ Start(c) \/ Decide(c) \/ Price(c)
  \/ SkipTrade(c) \/ BuyLot(c) \/ StartSell(c) \/ SellFromNext(c) \/ EndSell(c)
  \/ Commit(c) \/ Abort(c)

LEMMA OthersUntouched ==
  ASSUME LTypes, NEW c \in Cycles, Step(c), NEW e \in Cycles \ {c}
  PROVE  Untouched(e)
<1> USE DEF Untouched
<1>1. CASE Start(c)
  BY <1>1 DEF LTypes, Shape, Start
<1>2. CASE Decide(c)
  BY <1>2 DEF LTypes, Shape, Decide
<1>3. CASE Price(c)
  BY <1>3 DEF LTypes, Shape, Price
<1>4. CASE SkipTrade(c)
  BY <1>4 DEF LTypes, Shape, SkipTrade, Advance
<1>5. CASE BuyLot(c)
  BY <1>5 DEF LTypes, Shape, BuyLot, Advance
<1>6. CASE StartSell(c)
  BY <1>6 DEF LTypes, Shape, StartSell
<1>7. CASE SellFromNext(c)
  BY <1>7 DEF LTypes, Shape, SellFromNext, Write
<1>8. CASE EndSell(c)
  BY <1>8 DEF LTypes, Shape, EndSell, Advance
<1>9. CASE Commit(c)
  BY <1>9 DEF LTypes, Shape, Commit, local
<1>10. CASE Abort(c)
  BY <1>10 DEF LTypes, Shape, Abort, local
<1> QED
  BY <1>1, <1>2, <1>3, <1>4, <1>5, <1>6, <1>7, <1>8, <1>9, <1>10 DEF Step

\* Committed rows stay, with the lot they are of.
LotsStay ==
  \A i \in DOMAIN lots :
    /\ i \in DOMAIN lots'
    /\ lots'[i].symbol = lots[i].symbol /\ lots'[i].opened = lots[i].opened

LEMMA OthersKept ==
  ASSUME LTypes, NEW e \in Cycles, CycleInv(e), Untouched(e), LotsStay
  PROVE  TodoOf(e)' /\ WholeOf(e)' /\ PlanOf(e)' /\ LockedOf(e)'
<1>1. Pos(e)' = Pos(e) /\ Symbol(e)' = Symbol(e) /\ Recordable(e)' = Recordable(e)
  BY DEF Untouched, Pos, Symbol, Recordable
<1>2. \A s : Finished(e, s)' <=> Finished(e, s)
  BY <1>1 DEF Finished
<1>3. TodoOf(e)'
  BY <1>1 DEF CycleInv, TodoOf, Untouched
<1>4. WholeOf(e)'
  BY <1>1, <1>2 DEF CycleInv, WholeOf, Untouched
<1>5. PlanOf(e)'
  BY <1>1 DEF CycleInv, PlanOf, Untouched, LotsStay
<1>6. LockedOf(e)'
  <2>1. pc[e] = "selling" => \A k \in DOMAIN plan[e] : plan[e][k].id \in DOMAIN lots
    BY DEF CycleInv, PlanOf
  <2> QED BY <1>1, <1>2, <2>1 DEF CycleInv, LockedOf, Untouched, LotsStay
<1> QED BY <1>3, <1>4, <1>5, <1>6

\* A step of a running cycle that neither commits nor starts: what has to be
\* shown of it is about the rows of the table and about the cycle itself.
LEMMA StepKeeps ==
  ASSUME LInv, NEW c \in Cycles, Step(c), pc[c] \in Busy, pc'[c] # "idle",
         lots' = lots, decisions' = decisions, overlapped' = overlapped,
         clock' = clock, startedAt' = startedAt,
         LTypes', SameLot', AgesDiffer',
         \A A \in Versions' : \A i \in DOMAIN A : A[i].opened < clock,
         \A e \in Cycles : AgesOf(e)',
         TodoOf(c)', WholeOf(c)', PlanOf(c)', LockedOf(c)',
         ~overlapped /\ Balanced(c) /\ pc'[c] \in Busy => Balanced(c)'
  PROVE  LInv'
<1>1. \A e \in Cycles \ {c} : Untouched(e)
  BY OthersUntouched DEF LInv
<1>2. LotsStay
  BY DEF LotsStay
<1>3. \A e \in Cycles : CycleInv(e)'
  BY <1>1, <1>2, OthersKept DEF LInv, CycleInv
<1>4. pc[c] # "done" /\ pc[c] # "idle"
  BY DEF Busy
<1>5. LCommitted'
  <2>1. \A d \in decisions : pc'[d.cycle] = "done"
    BY <1>1, <1>4 DEF LInv, LCommitted, Untouched
  <2> QED BY <2>1 DEF LInv, LCommitted, WholeCycles
<1>6. LClock'
  BY <1>1, <1>4 DEF LInv, LClock, Untouched
<1>7. LCap'
  <2> SUFFICES ASSUME ~overlapped
               PROVE  /\ \A a, b \in Running' : a = b
                      /\ PositionWithinCap'
                      /\ \A e \in Running' : Balanced(e)'
    BY DEF LCap
  <2>1. c \in Running /\ \A e \in Running : e = c
    BY DEF LInv, LCap, Running
  <2>2. \A e \in Running' : e = c
    BY <1>1, <2>1 DEF Running, Untouched
  <2>3. PositionWithinCap'
    BY DEF LInv, LCap, PositionWithinCap, Traded
  <2>4. ASSUME NEW e \in Running' PROVE Balanced(e)'
    <3>1. e = c /\ pc'[c] \in Busy
      BY <2>2, <2>4 DEF Running
    <3>2. Balanced(c)
      BY <2>1 DEF LInv, LCap
    <3> QED BY <3>1, <3>2
  <2> QED BY <2>2, <2>3, <2>4
<1> QED BY <1>3, <1>5, <1>6, <1>7 DEF LInv

LEMMA RowsKept ==
  ASSUME LInv, lots' = lots, \A e \in Cycles : tx'[e].lots = tx[e].lots
  PROVE  /\ SameLot' /\ AgesDiffer'
         /\ \A A \in Versions' : \A i \in DOMAIN A : A[i].opened < clock
         /\ \A e \in Cycles : LotsSeen(e)' = LotsSeen(e)
<1>1. Versions' = Versions
  BY DEF Versions
<1>2. \A A \in Versions' : \A i \in DOMAIN A : A[i].opened < clock
  BY <1>1 DEF LInv, LClock
<1> QED BY <1>1, <1>2 DEF LInv, SameLot, AgesDiffer, LotsSeen

LEMMA AgesKept ==
  ASSUME LInv, NEW c \in Cycles, Step(c), pc[c] \in Busy, startedAt' = startedAt,
         lots' = lots, \A e \in Cycles : tx'[e].lots = tx[e].lots,
         \A s : Finished(c, s) => Finished(c, s)'
  PROVE  \A e \in Cycles : AgesOf(e)'
<1> SUFFICES ASSUME NEW e \in Cycles PROVE AgesOf(e)'
  OBVIOUS
<1>1. AgesOf(e)
  BY DEF LInv, CycleInv
<1>2. CASE e = c
  BY <1>1, <1>2 DEF AgesOf
<1>3. CASE e # c
  <2>1. Untouched(e)
    BY <1>3, OthersUntouched DEF LInv
  <2>2. \A s : Finished(e, s)' <=> Finished(e, s)
    BY <2>1 DEF Untouched, Finished, Pos
  <2> QED BY <1>1, <2>1, <2>2 DEF AgesOf, Untouched
<1> QED BY <1>2, <1>3

\* The symbol at hand is the next of SymbolSeq, and is not finished.
LEMMA SymbolAtHand ==
  ASSUME LInv, NEW c \in Cycles, todo[c] # <<>>
  PROVE  /\ Pos(c) \in Nat /\ Pos(c) + 1 \in 1..Len(SymbolSeq)
         /\ Symbol(c) = SymbolSeq[Pos(c) + 1] /\ Symbol(c) \in Symbols
         /\ ~Finished(c, Symbol(c))
<1>1. /\ Len(SymbolSeq) \in Nat /\ todo[c] \in Seq(Symbols) /\ Len(todo[c]) \in Nat
      /\ DOMAIN SymbolSeq = 1..Len(SymbolSeq)
  BY CycleConstants DEF LInv, LTypes
<1>2. Len(todo[c]) >= 1 /\ Len(todo[c]) <= Len(SymbolSeq)
  BY <1>1 DEF LInv, CycleInv, TodoOf
<1>3. Pos(c) \in Nat /\ Pos(c) + 1 \in 1..Len(SymbolSeq)
  BY <1>1, <1>2 DEF Pos
<1>4. Symbol(c) = SymbolSeq[Pos(c) + 1]
  BY <1>1, <1>2 DEF LInv, CycleInv, TodoOf, Symbol
<1>5. ~Finished(c, Symbol(c))
  BY <1>1, <1>3, <1>4, CycleConstants DEF Finished, IsInjective
<1>6. Symbol(c) \in Symbols
  BY <1>1, <1>3, <1>4 DEF Symbols, ToSet
<1> QED BY <1>3, <1>4, <1>5, <1>6

\* What Advance does to a cycle's place in its list.
LEMMA AdvanceOne ==
  ASSUME LInv, NEW c \in Cycles, todo[c] # <<>>, todo'[c] = Tail(todo[c])
  PROVE  /\ Pos(c)' = Pos(c) + 1
         /\ \A s : Finished(c, s)' <=> Finished(c, s) \/ s = Symbol(c)
         /\ todo'[c] \in Seq(Symbols)
         /\ Len(todo'[c]) <= Len(SymbolSeq)
         /\ \A k \in 1..Len(todo'[c]) : todo'[c][k] = SymbolSeq[Pos(c)' + k]
<1>1. /\ Pos(c) \in Nat /\ Pos(c) + 1 \in 1..Len(SymbolSeq)
      /\ Symbol(c) = SymbolSeq[Pos(c) + 1]
  BY SymbolAtHand
<1> DEFINE n == Len(SymbolSeq)
           l == Len(todo[c])
<1>2. /\ n \in Nat /\ todo[c] \in Seq(Symbols) /\ l \in Nat /\ l >= 1 /\ l <= n
      /\ \A k \in 1..Len(todo[c]) : todo[c][k] = SymbolSeq[Pos(c) + k]
  BY CycleConstants DEF LInv, LTypes, CycleInv, TodoOf
<1>3. /\ todo'[c] \in Seq(Symbols) /\ Len(todo'[c]) = l - 1
      /\ \A k \in 1..Len(todo'[c]) : todo'[c][k] = todo[c][k + 1]
  BY <1>2
<1>4. Pos(c)' = n - (l - 1) /\ Pos(c) = n - l
  BY <1>3 DEF Pos
<1> HIDE DEF n, l
<1>5. Pos(c)' = Pos(c) + 1
  BY <1>2, <1>4
<1>6. ASSUME NEW k \in 1..Len(todo'[c])
      PROVE  todo'[c][k] = SymbolSeq[Pos(c)' + k]
  <2>1. k + 1 \in 1..l /\ Pos(c) + (k + 1) = Pos(c)' + k
    <3>1. k \in 1..l - 1 /\ l \in Nat
      BY <1>2, <1>3
    <3>2. PICK p, q : p = Pos(c) /\ q = Pos(c)' /\ p \in Nat /\ q = p + 1
      BY <1>1, <1>5
    <3>3. p + (k + 1) = q + k
      BY <3>1, <3>2
    <3> QED BY <3>1, <3>2, <3>3
  <2>2. todo[c][k + 1] = SymbolSeq[Pos(c) + (k + 1)]
    BY <1>2, <2>1 DEF l
  <2> QED BY <1>3, <2>1, <2>2
<1>7. \A s : Finished(c, s)' <=> Finished(c, s) \/ s = Symbol(c)
  <2>1. 1..Pos(c)' = 1..Pos(c) \cup {Pos(c) + 1}
    BY <1>1, <1>5
  <2> QED BY <1>1, <2>1 DEF Finished
<1>8. Len(todo'[c]) <= n
  BY <1>2, <1>3
<1> QED BY <1>3, <1>5, <1>6, <1>7, <1>8 DEF n
-----------------------------------------------------------------------------
(* What a cycle's transaction becomes *)

LEMMA TxSnapshots ==
  ASSUME Shape(tx), NEW c \in Cycles, NEW x, tx' = [tx EXCEPT ![c].snapshots = x]
  PROVE  /\ Shape(tx)' /\ \A e \in Cycles \ {c} : tx'[e] = tx[e]
         /\ tx'[c].lots = tx[c].lots /\ tx'[c].decisions = tx[c].decisions
<1>1. tx[c] = Three(tx[c])
  BY DEF Shape
<1> DEFINE r == [tx[c] EXCEPT !.snapshots = x]
<1>2. r = Three(r) /\ r.lots = tx[c].lots /\ r.decisions = tx[c].decisions
  BY <1>1 DEF Three
<1>3. tx' = [tx EXCEPT ![c] = r]
  OBVIOUS
<1> HIDE DEF r
<1> QED BY <1>2, <1>3 DEF Shape

LEMMA TxDecisions ==
  ASSUME Shape(tx), NEW c \in Cycles, NEW x, tx' = [tx EXCEPT ![c].decisions = x]
  PROVE  /\ Shape(tx)' /\ \A e \in Cycles \ {c} : tx'[e] = tx[e]
         /\ tx'[c].lots = tx[c].lots /\ tx'[c].decisions = x
<1>1. tx[c] = Three(tx[c])
  BY DEF Shape
<1> DEFINE r == [tx[c] EXCEPT !.decisions = x]
<1>2. r = Three(r) /\ r.lots = tx[c].lots /\ r.decisions = x
  BY <1>1 DEF Three
<1>3. tx' = [tx EXCEPT ![c] = r]
  OBVIOUS
<1> HIDE DEF r
<1> QED BY <1>2, <1>3 DEF Shape

LEMMA TxLots ==
  ASSUME Shape(tx), NEW c \in Cycles, NEW x, tx' = [tx EXCEPT ![c].lots = x]
  PROVE  /\ Shape(tx)' /\ \A e \in Cycles \ {c} : tx'[e] = tx[e]
         /\ tx'[c].lots = x /\ tx'[c].decisions = tx[c].decisions
<1>1. tx[c] = Three(tx[c])
  BY DEF Shape
<1> DEFINE r == [tx[c] EXCEPT !.lots = x]
<1>2. r = Three(r) /\ r.lots = x /\ r.decisions = tx[c].decisions
  BY <1>1 DEF Three
<1>3. tx' = [tx EXCEPT ![c] = r]
  OBVIOUS
<1> HIDE DEF r
<1> QED BY <1>2, <1>3 DEF Shape

LEMMA TxBoth ==
  ASSUME Shape(tx), NEW c \in Cycles, NEW x, NEW y,
         tx' = [tx EXCEPT ![c].decisions = x, ![c].lots = y]
  PROVE  /\ Shape(tx)' /\ \A e \in Cycles \ {c} : tx'[e] = tx[e]
         /\ tx'[c].lots = y /\ tx'[c].decisions = x
<1>1. tx[c] = Three(tx[c]) /\ c \in DOMAIN tx
  BY DEF Shape
<1> DEFINE r == [lots |-> y, snapshots |-> tx[c].snapshots, decisions |-> x]
<1>2. r = Three(r) /\ r.lots = y /\ r.decisions = x
  BY DEF Three
<1>3. tx'[c] = r
  BY <1>1 DEF Three
<1>4. \A e \in Cycles \ {c} : tx'[e] = tx[e]
  BY DEF Shape
<1>5. tx' = [e \in Cycles |-> tx'[e]]
  BY DEF Shape
<1> HIDE DEF r
<1> QED BY <1>2, <1>3, <1>4, <1>5 DEF Shape

LEMMA TxDropped ==
  ASSUME Shape(tx), NEW c \in Cycles, tx' = [tx EXCEPT ![c] = NoRows]
  PROVE  Shape(tx)' /\ tx'[c] = NoRows /\ \A e \in Cycles \ {c} : tx'[e] = tx[e]
BY DEF Shape, NoRows, Three

-----------------------------------------------------------------------------
(* Steps that write no row *)

LEMMA DecideKeeps ==
  ASSUME LInv, NEW c \in Cycles, Decide(c)
  PROVE  LInv'
<1>1. LTypes'
  BY DEF LInv, LTypes, Shape, RowsOK, Decide, shared, Busy
<1>2. /\ pc[c] = "deciding" /\ pc'[c] = "pricing" /\ todo[c] # <<>> /\ todo'[c] = todo[c]
      /\ lots' = lots /\ decisions' = decisions /\ overlapped' = overlapped
      /\ clock' = clock /\ startedAt' = startedAt /\ tx' = tx
  BY DEF LInv, LTypes, Decide, shared
<1>3. PICK t \in Proposals, var \in Vars : ruling'[c] = Gate(t, PositionShown(c), var)
  BY DEF Decide, LInv, LTypes
<1>4. ruling'[c] \in Ruling
  <2>1. PositionShown(c) \in Nat
    BY RowsAreTables, HeldType DEF LInv, PositionShown
  <2> QED BY <1>3, <2>1, GateType, CycleConstants
<1>5. /\ Pos(c)' = Pos(c) /\ Symbol(c)' = Symbol(c) /\ \A s : Finished(c, s)' <=> Finished(c, s)
  BY <1>2 DEF Pos, Symbol, Finished
<1>6. TodoOf(c)' /\ WholeOf(c)' /\ PlanOf(c)' /\ LockedOf(c)'
  <2>1. TodoOf(c)'
    BY <1>2, <1>4, <1>5 DEF LInv, CycleInv, TodoOf, Busy
  <2>2. WholeOf(c)'
    BY <1>2, <1>5 DEF LInv, CycleInv, WholeOf, Busy
  <2>3. PlanOf(c)' /\ LockedOf(c)'
    BY <1>2, <1>5 DEF LInv, CycleInv, PlanOf, LockedOf
  <2> QED BY <2>1, <2>2, <2>3
<1>7. ~overlapped /\ Balanced(c) => Balanced(c)'
  <2> SUFFICES ASSUME ~overlapped, Balanced(c) PROVE Balanced(c)'
    OBVIOUS
  <2>1. Symbol(c) \in Symbols
    BY <1>2, SymbolAtHand
  <2>2. PositionShown(c) = Held(lots, Symbol(c)) /\ PositionShown(c) \in 0..MaxPositionQty
    BY <2>1 DEF PositionShown, LInv, LCap, PositionWithinCap
  <2>3. LedgerAfter(Held(lots, Symbol(c)), ruling'[c].action, ruling'[c].qty) \in 0..MaxPositionQty
    BY <1>3, <2>2, GateKeepsCap, CycleConstants
  <2>4. LotsSeen(c)' = LotsSeen(c)
    BY <1>2 DEF LotsSeen
  <2> QED BY <1>2, <1>5, <2>3, <2>4 DEF Balanced
<1>8. /\ Step(c) /\ pc[c] \in Busy /\ pc'[c] # "idle"
      /\ SameLot' /\ AgesDiffer' /\ \A A \in Versions' : \A i \in DOMAIN A : A[i].opened < clock
  BY <1>2, RowsKept DEF Step, Busy
<1>9. \A e \in Cycles : AgesOf(e)'
  BY <1>2, <1>5, <1>8, AgesKept
<1> QED
  BY <1>1, <1>2, <1>5, <1>6, <1>7, <1>8, <1>9, StepKeeps

LEMMA PriceKeeps ==
  ASSUME LInv, NEW c \in Cycles, Price(c)
  PROVE  LInv'
<1>a. /\ Shape(tx)' /\ \A e \in Cycles \ {c} : tx'[e] = tx[e]
      /\ tx'[c].lots = tx[c].lots /\ tx'[c].decisions = tx[c].decisions
  <2>1. Shape(tx)
    BY DEF LInv, LTypes
  <2>2. CASE tx' = tx
    BY <2>1, <2>2 DEF Shape
  <2>3. CASE tx' # tx
    <3>1. PICK x : tx' = [tx EXCEPT ![c].snapshots = x]
      BY <2>3 DEF Price
    <3> QED BY <2>1, <3>1, TxSnapshots
  <2> QED BY <2>2, <2>3
<1>1. LTypes'
  BY <1>a DEF LInv, LTypes, RowsOK, Price, shared, Busy
<1>2. /\ pc[c] = "pricing" /\ pc'[c] = "trading" /\ todo' = todo /\ ruling' = ruling
      /\ lots' = lots /\ decisions' = decisions /\ overlapped' = overlapped
      /\ clock' = clock /\ startedAt' = startedAt
      /\ \A e \in Cycles : tx'[e].lots = tx[e].lots /\ tx'[e].decisions = tx[e].decisions
  BY <1>a DEF LInv, LTypes, Price, shared
<1>3. /\ Pos(c)' = Pos(c) /\ Symbol(c)' = Symbol(c) /\ \A s : Finished(c, s)' <=> Finished(c, s)
  BY <1>2 DEF Pos, Symbol, Finished
<1>4. TodoOf(c)'
  BY <1>2, <1>3 DEF LInv, CycleInv, TodoOf, Busy
<1>5. WholeOf(c)'
  BY <1>2, <1>3 DEF LInv, CycleInv, WholeOf, Busy
<1>6. PlanOf(c)' /\ LockedOf(c)'
  BY <1>2, <1>3 DEF LInv, CycleInv, PlanOf, LockedOf
<1>7. Balanced(c) => Balanced(c)'
  <2>1. LotsSeen(c)' = LotsSeen(c)
    BY <1>2 DEF LotsSeen
  <2> QED BY <1>2, <1>3, <2>1 DEF Balanced
<1>8. /\ Step(c) /\ pc[c] \in Busy /\ pc'[c] # "idle"
      /\ SameLot' /\ AgesDiffer' /\ \A A \in Versions' : \A i \in DOMAIN A : A[i].opened < clock
  BY <1>2, RowsKept DEF Step, Busy
<1>9. \A e \in Cycles : AgesOf(e)'
  BY <1>2, <1>3, <1>8, AgesKept
<1> QED
  BY <1>1, <1>2, <1>3, <1>4, <1>5, <1>6, <1>7, <1>8, <1>9, StepKeeps

\* A symbol is done: its decision is kept and the cycle goes on.
LEMMA SymbolDone ==
  ASSUME LInv, NEW c \in Cycles, pc[c] \in {"trading", "selling"}, Advance(c),
         tx'[c].decisions = tx[c].decisions \cup {DecisionRow(c)}
  PROVE  /\ TodoOf(c)' /\ WholeOf(c)' /\ PlanOf(c)'
         /\ pc'[c] = "deciding"
         /\ \A s : Finished(c, s)' <=> Finished(c, s) \/ s = Symbol(c)
<1>1. todo[c] # <<>> /\ ruling[c] \in Ruling
  BY DEF LInv, CycleInv, TodoOf
<1>2. todo'[c] = Tail(todo[c]) /\ pc'[c] = "deciding"
  BY DEF Advance, LInv, LTypes
<1>3. /\ Pos(c)' = Pos(c) + 1 /\ Pos(c) \in Nat
      /\ \A s : Finished(c, s)' <=> Finished(c, s) \/ s = Symbol(c)
      /\ Len(todo'[c]) <= Len(SymbolSeq)
      /\ \A k \in 1..Len(todo'[c]) : todo'[c][k] = SymbolSeq[Pos(c)' + k]
  BY <1>1, <1>2, AdvanceOne, SymbolAtHand
<1>4. TodoOf(c)' /\ PlanOf(c)'
  BY <1>2, <1>3 DEF TodoOf, PlanOf, Busy
<1> DEFINE new == DecisionRow(c)
<1>5. new.cycle = c /\ new.symbol = Symbol(c) /\ new.qty \in Int
  BY <1>1 DEF DecisionRow, Ruling
<1>6. WholeOf(c) /\ ~Finished(c, Symbol(c)) /\ Symbol(c) = SymbolSeq[Pos(c) + 1]
  BY <1>1, SymbolAtHand DEF LInv, CycleInv
<1> HIDE DEF new
<1>7. \A d \in tx'[c].decisions : d.cycle = c /\ d.qty \in Int /\ Finished(c, d.symbol)'
  BY <1>3, <1>5, <1>6 DEF WholeOf, new
<1>8. \A d, e \in tx'[c].decisions : d.symbol = e.symbol => d = e
  BY <1>5, <1>6 DEF WholeOf, new
<1>9. \A p \in 1..Pos(c)' : \E d \in tx'[c].decisions : d.symbol = SymbolSeq[p]
  <2> SUFFICES ASSUME NEW p \in 1..Pos(c)'
               PROVE  \E d \in tx'[c].decisions : d.symbol = SymbolSeq[p]
    OBVIOUS
  <2>1. CASE p = Pos(c) + 1
    BY <1>5, <1>6, <2>1 DEF new
  <2>2. CASE p # Pos(c) + 1
    <3>1. p \in 1..Pos(c)
      BY <1>3, <2>2
    <3> QED BY <1>6, <3>1 DEF WholeOf, Busy
  <2> QED BY <2>1, <2>2
<1>10. IsFiniteSet(tx'[c].decisions)
  BY <1>6, FS_AddElement DEF WholeOf
<1> QED BY <1>2, <1>3, <1>4, <1>7, <1>8, <1>9, <1>10 DEF WholeOf

\* Of a symbol the cycle has not come to, or not traded yet, it sees what is
\* committed.
LEMMA SeenAsCommitted ==
  ASSUME LInv, NEW c \in Cycles, pc[c] # "selling", NEW s, ~Finished(c, s)
  PROVE  /\ OpenOf(LotsSeen(c), s) = OpenOf(lots, s)
         /\ \A i \in OpenOf(lots, s) : i \in DOMAIN lots \ DOMAIN tx[c].lots
                                       /\ LotsSeen(c)[i] = lots[i]
         /\ Held(LotsSeen(c), s) = Held(lots, s)
<1>1. \A i \in DOMAIN tx[c].lots : tx[c].lots[i].symbol # s
  BY DEF LInv, CycleInv, LockedOf
<1>2. \A i \in DOMAIN tx[c].lots \cap DOMAIN lots : lots[i].symbol # s
  BY <1>1 DEF LInv, SameLot, Versions
<1>3. /\ OpenOf(LotsSeen(c), s) = OpenOf(lots, s)
      /\ \A i \in OpenOf(lots, s) : i \in DOMAIN lots \ DOMAIN tx[c].lots
                                    /\ LotsSeen(c)[i] = lots[i]
  <2> DEFINE seen == LotsSeen(c)
  <2>1. /\ DOMAIN seen = DOMAIN tx[c].lots \cup DOMAIN lots
        /\ \A i \in DOMAIN seen : seen[i] =
             IF i \in DOMAIN tx[c].lots THEN tx[c].lots[i] ELSE lots[i]
    BY SeenIs
  <2> HIDE DEF seen
  <2>2. \A i : i \in OpenOf(seen, s) <=> i \in OpenOf(lots, s)
    BY <1>1, <1>2, <2>1 DEF OpenOf
  <2> QED BY <1>2, <2>1, <2>2 DEF OpenOf, seen
<1>4. Table(lots) /\ Table(LotsSeen(c))
  BY RowsAreTables DEF LInv
<1>5. Held(LotsSeen(c), s) = Held(lots, s)
  BY <1>3, <1>4, HeldSame
<1> QED BY <1>3, <1>5

LEMMA SkipTradeKeeps ==
  ASSUME LInv, NEW c \in Cycles, SkipTrade(c)
  PROVE  LInv'
<1>0. /\ Shape(tx)' /\ \A e \in Cycles \ {c} : tx'[e] = tx[e]
      /\ tx'[c].lots = tx[c].lots /\ tx'[c].decisions = tx[c].decisions \cup {DecisionRow(c)}
  BY TxDecisions DEF LInv, LTypes, SkipTrade
<1>1. /\ pc[c] = "trading" /\ todo[c] # <<>> /\ ruling[c] \in Ruling
      /\ lots' = lots /\ decisions' = decisions /\ overlapped' = overlapped
      /\ clock' = clock /\ startedAt' = startedAt
      /\ \A e \in Cycles : tx'[e].lots = tx[e].lots
  BY <1>0 DEF LInv, LTypes, CycleInv, TodoOf, SkipTrade, Advance, shared
<1>2. /\ TodoOf(c)' /\ WholeOf(c)' /\ PlanOf(c)' /\ pc'[c] = "deciding"
      /\ \A s : Finished(c, s)' <=> Finished(c, s) \/ s = Symbol(c)
  BY <1>0, <1>1, SymbolDone DEF SkipTrade
<1>3. todo'[c] \in Seq(Symbols)
  BY <1>1, AdvanceOne DEF SkipTrade, Advance, LInv, LTypes
<1>4. LTypes'
  BY <1>0, <1>1, <1>3 DEF LInv, LTypes, RowsOK, SkipTrade, Advance, shared, Busy
<1>5. LockedOf(c)'
  BY <1>1, <1>2 DEF LInv, CycleInv, LockedOf
<1>6. ~overlapped /\ Balanced(c) => Balanced(c)'
  <2> SUFFICES ASSUME ~overlapped, Balanced(c) PROVE Balanced(c)'
    OBVIOUS
  <2> DEFINE new == DecisionRow(c)
             s == Symbol(c)
  <2>1. s \in Symbols /\ Held(LotsSeen(c), s) = Held(lots, s)
    BY <1>1, SymbolAtHand, SeenAsCommitted
  <2>2. Held(lots, s) \in 0..MaxPositionQty
    BY <2>1 DEF LInv, LCap, PositionWithinCap
  <2>3. new.symbol = s /\ Moved(new) = 0
    BY <1>1 DEF DecisionRow, SkipTrade, Recordable, Moved, PositionAfter, Ruling
  <2>4. LotsSeen(c)' = LotsSeen(c)
    BY <1>1 DEF LotsSeen
  <2> HIDE DEF new, s
  <2>5. \A d \in tx[c].decisions \cup {new} :
          /\ Held(LotsSeen(c), d.symbol) = Held(lots, d.symbol) + Moved(d)
          /\ Held(LotsSeen(c), d.symbol) \in 0..MaxPositionQty
    BY <2>1, <2>2, <2>3 DEF Balanced
  <2>6. \A d : Moved(d)' = Moved(d)
    BY DEF Moved
  <2> QED BY <1>0, <1>1, <1>2, <2>4, <2>5 DEF Balanced, new
<1>8. /\ Step(c) /\ pc[c] \in Busy /\ pc'[c] # "idle"
      /\ SameLot' /\ AgesDiffer' /\ \A A \in Versions' : \A i \in DOMAIN A : A[i].opened < clock
  BY <1>1, <1>2, RowsKept DEF Step, Busy
<1>9. \A e \in Cycles : AgesOf(e)'
  BY <1>1, <1>2, <1>8, AgesKept
<1> QED
  BY <1>1, <1>2, <1>4, <1>5, <1>6, <1>8, <1>9, StepKeeps

LEMMA EndSellKeeps ==
  ASSUME LInv, NEW c \in Cycles, EndSell(c)
  PROVE  LInv'
<1>0. /\ Shape(tx)' /\ \A e \in Cycles \ {c} : tx'[e] = tx[e]
      /\ tx'[c].lots = tx[c].lots /\ tx'[c].decisions = tx[c].decisions \cup {DecisionRow(c)}
  BY TxDecisions DEF LInv, LTypes, EndSell
<1>1. /\ pc[c] = "selling" /\ todo[c] # <<>> /\ ruling[c] \in Ruling
      /\ lots' = lots /\ decisions' = decisions /\ overlapped' = overlapped
      /\ clock' = clock /\ startedAt' = startedAt
      /\ \A e \in Cycles : tx'[e].lots = tx[e].lots
  BY <1>0 DEF LInv, LTypes, CycleInv, TodoOf, EndSell, Advance, shared
<1>2. /\ TodoOf(c)' /\ WholeOf(c)' /\ PlanOf(c)' /\ pc'[c] = "deciding"
      /\ \A s : Finished(c, s)' <=> Finished(c, s) \/ s = Symbol(c)
  BY <1>0, <1>1, SymbolDone DEF EndSell
<1>3. todo'[c] \in Seq(Symbols)
  BY <1>1, AdvanceOne DEF EndSell, Advance, LInv, LTypes
<1>4. LTypes'
  <2>1. <<>> \in Seq(PlannedLot) /\ 0 \in Nat
    OBVIOUS
  <2> QED BY <1>0, <1>1, <1>3, <2>1 DEF LInv, LTypes, RowsOK, EndSell, Advance, shared, Busy
<1>5. LockedOf(c)'
  BY <1>1, <1>2 DEF LInv, CycleInv, LockedOf
<1>6. ~overlapped /\ Balanced(c) => Balanced(c)'
  <2> SUFFICES ASSUME ~overlapped, Balanced(c) PROVE Balanced(c)'
    OBVIOUS
  <2> DEFINE new == DecisionRow(c)
             s == Symbol(c)
             seen == LotsSeen(c)
  <2>1. Recordable(c) /\ ruling[c].action = "SELL"
    BY <1>1 DEF LInv, CycleInv, TodoOf
  <2>2. Held(seen, s) \in Nat /\ Held(lots, s) \in Nat /\ remaining[c] \in Nat
        /\ ruling[c].qty \in Int /\ ruling[c].qty > 0
    BY <1>1, <2>1, RowsAreTables, HeldType DEF LInv, LTypes, Ruling, Recordable
  <2>3. remaining[c] = 0
    <3>1. ASSUME remaining[c] > 0 PROVE FALSE
      <4>1. plan[c] = <<>>
        BY <3>1 DEF EndSell
      <4>2. OpenOf(seen, s) = {}
        BY <1>1, <3>1, <4>1 DEF Balanced
      <4>3. Held(seen, s) = 0
        BY <4>2, HeldNone
      <4> QED BY <1>1, <2>2, <3>1, <4>3 DEF Balanced
    <3> QED BY <2>2, <3>1
  <2>4. new.symbol = s /\ Moved(new) = 0 - ruling[c].qty
    BY <2>1, <2>2 DEF DecisionRow, Recordable, Moved, PositionAfter
  <2>5. Held(seen, s) = Held(lots, s) + Moved(new)
    BY <1>1, <2>2, <2>3, <2>4 DEF Balanced
  <2>6. Held(seen, s) \in 0..MaxPositionQty
    BY <1>1, <2>1, <2>2, <2>4, <2>5 DEF Balanced, LedgerAfter, PositionAfter
  <2>7. LotsSeen(c)' = seen
    BY <1>1 DEF LotsSeen
  <2> HIDE DEF new, s, seen
  <2>8. \A d \in tx[c].decisions \cup {new} :
          /\ Held(seen, d.symbol) = Held(lots, d.symbol) + Moved(d)
          /\ Held(seen, d.symbol) \in 0..MaxPositionQty
    BY <2>4, <2>5, <2>6 DEF Balanced, seen
  <2> QED BY <1>0, <1>1, <1>2, <2>7, <2>8 DEF Balanced, new
<1>8. /\ Step(c) /\ pc[c] \in Busy /\ pc'[c] # "idle"
      /\ SameLot' /\ AgesDiffer' /\ \A A \in Versions' : \A i \in DOMAIN A : A[i].opened < clock
  BY <1>1, <1>2, RowsKept DEF Step, Busy
<1>9. \A e \in Cycles : AgesOf(e)'
  BY <1>1, <1>2, <1>8, AgesKept
<1> QED
  BY <1>1, <1>2, <1>4, <1>5, <1>6, <1>8, <1>9, StepKeeps

\* A sequence that lists a finite set without repetition lists all of it.
LEMMA ListsAll ==
  ASSUME NEW S, IsFiniteSet(S), NEW q \in SetToSeqs(S)
  PROVE  /\ q \in Seq(S) /\ DOMAIN q = 1..Cardinality(S)
         /\ S = {q[k] : k \in DOMAIN q}
         /\ \A k, l \in DOMAIN q : k # l => q[k] # q[l]
<1>1. /\ Cardinality(S) \in Nat /\ q \in [1..Cardinality(S) -> S]
      /\ \A k, l \in 1..Cardinality(S) : k # l => q[k] # q[l]
  BY FS_CardinalityType DEF SetToSeqs
<1>2. q \in Injection(1..Cardinality(S), S)
  BY <1>1 DEF Injection, IsInjective
<1>3. Cardinality(1..Cardinality(S)) = Cardinality(S)
  BY <1>1, FS_Interval
<1>4. q \in Surjection(1..Cardinality(S), S)
  BY <1>2, <1>3, FS_Injection
<1>5. S = {q[k] : k \in 1..Cardinality(S)}
  BY <1>1, <1>4 DEF Surjection
<1> QED BY <1>1, <1>5

LEMMA StartSellKeeps ==
  ASSUME LInv, NEW c \in Cycles, StartSell(c)
  PROVE  LInv'
<1> DEFINE s == Symbol(c)
           seen == LotsSeen(c)
<1>1. /\ pc[c] = "trading" /\ pc'[c] = "selling" /\ todo[c] # <<>> /\ ruling[c] \in Ruling
      /\ todo' = todo /\ ruling' = ruling /\ price' = price /\ tx' = tx
      /\ lots' = lots /\ decisions' = decisions /\ overlapped' = overlapped
      /\ clock' = clock /\ startedAt' = startedAt
      /\ Recordable(c) /\ ruling[c].action = "SELL"
      /\ remaining'[c] = ruling[c].qty
      /\ ruling[c].qty <= Held(seen, s)
  BY DEF LInv, LTypes, CycleInv, TodoOf, StartSell, shared
<1>2. /\ s \in Symbols /\ ~Finished(c, s)
      /\ OpenOf(seen, s) = OpenOf(lots, s)
      /\ \A i \in OpenOf(lots, s) : seen[i] = lots[i]
      /\ Held(seen, s) = Held(lots, s)
  BY <1>1, SymbolAtHand, SeenAsCommitted
<1>3. PICK q \in OpenLots(seen, s) :
        plan' = [plan EXCEPT ![c] = [k \in DOMAIN q |-> [id |-> q[k], shares |-> seen[q[k]].shares]]]
  BY DEF StartSell
<1>4. /\ IsFiniteSet(OpenOf(seen, s))
      /\ \A i \in OpenOf(seen, s) : seen[i].shares \in Nat \ {0}
  BY RowsAreTables, OpenIsFinite DEF LInv
<1> HIDE DEF s, seen
<1>5. /\ q \in Seq(OpenOf(seen, s)) /\ DOMAIN q = 1..Cardinality(OpenOf(seen, s))
      /\ OpenOf(seen, s) = {q[k] : k \in DOMAIN q}
      /\ \A k, l \in DOMAIN q : k # l => q[k] # q[l]
      /\ \A k, l \in DOMAIN q : k < l => seen[q[k]].opened <= seen[q[l]].opened
  BY <1>3, <1>4, ListsAll DEF OpenLots
<1>5a. DOMAIN q = 1..Len(q) /\ Len(q) \in Nat
  <2>1. q \in Seq(OpenOf(seen, s))
    BY <1>5
  <2> QED BY <2>1
<1>6. /\ DOMAIN plan'[c] = DOMAIN q
      /\ \A k \in DOMAIN q : plan'[c][k].id = q[k] /\ plan'[c][k].shares = seen[q[k]].shares
      /\ plan'[c] = [k \in DOMAIN q |-> [id |-> q[k], shares |-> seen[q[k]].shares]]
  BY <1>3 DEF LInv, LTypes
<1>7. \A k \in DOMAIN q : q[k] \in OpenOf(lots, s) /\ q[k] \in DOMAIN lots
                          /\ q[k] \in Nat /\ seen[q[k]] = lots[q[k]]
                          /\ lots[q[k]] \in LotRow /\ seen[q[k]].shares \in Nat \ {0}
  <2>1. \A i \in OpenOf(lots, s) : i \in DOMAIN lots /\ i \in Nat /\ lots[i] \in LotRow
    BY DEF OpenOf, LInv, LTypes, RowsOK
  <2> QED BY <1>2, <1>4, <1>5, <2>1
<1>8. plan'[c] \in Seq(PlannedLot)
  <2>1. \A k \in DOMAIN q : [id |-> q[k], shares |-> seen[q[k]].shares] \in PlannedLot
    BY <1>7 DEF PlannedLot
  <2>2. plan'[c] \in [DOMAIN q -> PlannedLot]
    BY <1>6, <2>1
  <2> QED BY <1>5a, <2>2
<1>9. ruling[c].qty \in Nat
  BY <1>1 DEF Recordable, Ruling
<1>10. LTypes'
  BY <1>1, <1>3, <1>6, <1>8, <1>9 DEF LInv, LTypes, RowsOK, StartSell, Shape, shared, Busy
<1>11. /\ Pos(c)' = Pos(c) /\ Symbol(c)' = s /\ Recordable(c)' /\ \A x : Finished(c, x)' <=> Finished(c, x)
  BY <1>1 DEF Pos, Symbol, Finished, Recordable, s
<1>12. TodoOf(c)'
  BY <1>1, <1>11 DEF LInv, CycleInv, TodoOf, Busy
<1>13. WholeOf(c)'
  BY <1>1, <1>11 DEF LInv, CycleInv, WholeOf, Busy
<1>14. LockedOf(c)'
  BY <1>1, <1>11 DEF LInv, CycleInv, LockedOf
<1>15. PlanOf(c)'
  <2>1. \A k \in DOMAIN q : lots[q[k]].symbol = s
    BY <1>7 DEF OpenOf
  <2>2. ASSUME NEW k \in DOMAIN q, NEW l \in DOMAIN q, k < l
        PROVE  lots[q[k]].opened < lots[q[l]].opened
    <3>1. k # l
      <4>2. k \in Int /\ l \in Int
        BY <1>5a
      <4> QED BY <2>2, <4>2
    <3>2. lots[q[k]].opened # lots[q[l]].opened
      <4>1. lots \in Versions
        BY DEF Versions
      <4>2. q[k] # q[l] /\ lots[q[k]].status = "OPEN" /\ lots[q[l]].status = "OPEN"
        BY <1>5, <1>7, <3>1 DEF OpenOf
      <4> QED BY <1>7, <2>1, <4>1, <4>2 DEF LInv, AgesDiffer
    <3>3. lots[q[k]].opened <= lots[q[l]].opened
      BY <1>5, <1>7, <2>2
    <3>4. lots[q[k]].opened \in Int /\ lots[q[l]].opened \in Int
      BY <1>7 DEF LotRow
    <3> QED BY <3>2, <3>3, <3>4
  <2> QED BY <1>1, <1>6, <1>7, <1>11, <2>1, <2>2 DEF PlanOf
<1>16. ~overlapped /\ Balanced(c) => Balanced(c)'
  <2> SUFFICES ASSUME ~overlapped, Balanced(c) PROVE Balanced(c)'
    OBVIOUS
  <2>1. LotsSeen(c)' = seen
    BY <1>1 DEF LotsSeen, seen
  <2>2. Held(lots, s) \in Nat
    BY HeldType, RowsAreTables DEF LInv
  <2>3. Held(seen, s) = Held(lots, s) - ruling[c].qty + ruling[c].qty
    BY <1>2, <1>9, <2>2
  <2>4. OpenOf(seen, s) = {plan'[c][k].id : k \in DOMAIN plan'[c]}
    <3>1. {q[k] : k \in DOMAIN q} = {plan'[c][k].id : k \in DOMAIN q}
      <4> HIDE <1>5
      <4> QED BY <1>6
    <3> QED BY <1>5, <1>6, <3>1
  <2>5. \A k \in DOMAIN plan'[c] : plan'[c][k].shares = seen[plan'[c][k].id].shares
    <3> HIDE <1>5
    <3> QED BY <1>6
  <2> QED BY <1>1, <1>11, <2>1, <2>3, <2>4, <2>5 DEF Balanced, s, seen
<1>17. /\ Step(c) /\ pc[c] \in Busy /\ pc'[c] # "idle"
      /\ SameLot' /\ AgesDiffer' /\ \A A \in Versions' : \A i \in DOMAIN A : A[i].opened < clock
  BY <1>1, RowsKept DEF Step, Busy
<1>18. \A e \in Cycles : AgesOf(e)'
  BY <1>1, <1>11, <1>17, AgesKept
<1> QED
  BY <1>1, <1>10, <1>12, <1>13, <1>14, <1>15, <1>16, <1>17, <1>18, StepKeeps

\* A cycle that starts is older than nothing that was written before.
LEMMA StartKeeps ==
  ASSUME LInv, NEW c \in Cycles, Start(c)
  PROVE  LInv'
<1>1. /\ pc[c] = "idle" /\ pc'[c] = "deciding" /\ todo'[c] = SymbolSeq
      /\ startedAt'[c] = clock /\ clock' = clock + 1 /\ clock \in Nat /\ tx' = tx
      /\ lots' = lots /\ decisions' = decisions
      /\ overlapped' = (overlapped \/ Running # {})
      /\ tx[c] = NoRows /\ tx[c].lots = <<>> /\ tx[c].decisions = {}
      /\ \A e \in Cycles \ {c} : Untouched(e)
  <2>1. tx[c] = NoRows
    BY DEF LInv, CycleInv, TodoOf, Start, Busy
  <2>2. \A e \in Cycles \ {c} : Untouched(e)
    BY OthersUntouched DEF LInv, Step
  <2> QED BY <2>1, <2>2 DEF LInv, LTypes, Start, shared, NoRows
<1>2. Len(SymbolSeq) \in Nat /\ SymbolSeq \in Seq(Symbols)
  BY CycleConstants DEF Symbols, ToSet
<1>3. LTypes'
  BY <1>1, <1>2 DEF LInv, LTypes, RowsOK, Start, Shape, shared, Busy
<1>4. Pos(c)' = 0
  BY <1>1, <1>2 DEF Pos
<1>5. TodoOf(c)' /\ WholeOf(c)' /\ PlanOf(c)' /\ LockedOf(c)'
  BY <1>1, <1>2, <1>4, FS_EmptySet DEF TodoOf, WholeOf, PlanOf, LockedOf, Busy
<1>6. LotsStay
  BY <1>1 DEF LotsStay
<1>7. \A e \in Cycles : TodoOf(e)' /\ WholeOf(e)' /\ PlanOf(e)' /\ LockedOf(e)'
  BY <1>1, <1>5, <1>6, OthersKept DEF LInv
<1>8. SameLot' /\ AgesDiffer' /\ (\A A \in Versions' : \A i \in DOMAIN A : A[i].opened < clock)
      /\ Versions' = Versions
  BY <1>1, RowsKept DEF Versions
<1>9. ASSUME NEW e \in Cycles PROVE AgesOf(e)'
  <2>1. CASE e = c
    <3>1. \A A \in Versions : \A i \in DOMAIN A : A[i].opened # clock
      <4>1. \A A \in Versions : \A i \in DOMAIN A : A[i].opened \in Int
        BY DEF Versions, LInv, LTypes, RowsOK, LotRow
      <4> QED BY <1>1, <4>1 DEF LInv, LClock
    <3> QED BY <1>1, <2>1, <3>1 DEF AgesOf, Versions
  <2>2. CASE e # c
    <3>1. Untouched(e) /\ AgesOf(e)
      BY <1>1, <2>2 DEF LInv, CycleInv
    <3>2. \A s : Finished(e, s)' <=> Finished(e, s)
      BY <3>1 DEF Untouched, Finished, Pos
    <3> QED BY <1>1, <3>1, <3>2 DEF AgesOf, Untouched
  <2> QED BY <2>1, <2>2
<1>10. LCommitted'
  <2>1. \A d \in decisions : pc'[d.cycle] = "done"
    BY <1>1 DEF LInv, LCommitted, Untouched
  <2> QED BY <1>1, <2>1 DEF LInv, LCommitted, WholeCycles
<1>11. LClock'
  <2>1. \A A \in Versions' : \A i \in DOMAIN A : A[i].opened < clock'
    BY <1>1, <1>8 DEF Versions, LInv, LTypes, RowsOK, LotRow
  <2>2. \A e \in Cycles \ {c} : startedAt[e] \in Nat /\ startedAt[e] < clock
    BY DEF LInv, LTypes, LClock
  <2> QED BY <1>1, <2>1, <2>2 DEF LInv, LClock, Untouched
<1>12. LCap'
  <2> SUFFICES ASSUME ~overlapped, Running = {}
               PROVE  /\ \A a, b \in Running' : a = b
                      /\ PositionWithinCap'
                      /\ \A e \in Running' : Balanced(e)'
    BY <1>1 DEF LCap
  <2>1. \A e \in Running' : e = c
    BY <1>1 DEF Running, Untouched
  <2>2. PositionWithinCap'
    BY <1>1 DEF LInv, LCap, PositionWithinCap, Traded
  <2>3. Balanced(c)'
    BY <1>1 DEF Balanced
  <2> QED BY <2>1, <2>2, <2>3
<1> QED BY <1>3, <1>7, <1>8, <1>9, <1>10, <1>11, <1>12 DEF LInv, CycleInv
-----------------------------------------------------------------------------
(* Steps that write rows *)

\* A version row that continues one the cycle could see, or is split off it.
Inherits(c, rows, i) ==
  \E A \in {lots, tx[c].lots} : \E j \in DOMAIN A :
    /\ rows[i].symbol = A[j].symbol /\ rows[i].opened = A[j].opened
    /\ \/ i = j /\ (rows[i].status = "OPEN" => A[j].status = "OPEN")
       \/ i = nextId /\ rows[i].status = "CLOSED"

Bought(c, rows, i) ==
  i = nextId /\ rows[i].symbol = Symbol(c) /\ rows[i].opened = startedAt[c]

LEMMA RowsWritten ==
  ASSUME LInv, NEW c \in Cycles, pc[c] \in Busy, todo[c] # <<>>, startedAt' = startedAt,
         lots' = lots, \A e \in Cycles \ {c} : Untouched(e),
         NEW W, tx'[c].lots = W,
         \A i \in DOMAIN W : \/ Inherits(c, W, i)
                             \/ Bought(c, W, i) /\ \A s : s = Symbol(c) => Finished(c, s)',
         \A s : Finished(c, s) => Finished(c, s)'
  PROVE  /\ SameLot' /\ AgesDiffer'
         /\ \A A \in Versions' : \A i \in DOMAIN A : A[i].opened < clock
         /\ \A e \in Cycles : AgesOf(e)'
<1>1. /\ \A A \in Versions' : A \in Versions \/ A = W
      /\ lots \in Versions /\ tx[c].lots \in Versions
  BY DEF Versions, Untouched
<1>2. \A A \in Versions : \A i \in DOMAIN A : i # nextId /\ A[i] \in LotRow
  BY DEF LInv, LTypes, RowsOK, Versions
<1>3. /\ \A i \in DOMAIN lots : lots[i].opened # startedAt[c]
      /\ \A d \in Cycles \ {c} : \A i \in DOMAIN tx[d].lots : tx[d].lots[i].opened # startedAt[c]
      /\ \A i \in DOMAIN tx[c].lots :
           tx[c].lots[i].opened = startedAt[c] => Finished(c, tx[c].lots[i].symbol)
  BY DEF LInv, CycleInv, AgesOf
<1>4. ~Finished(c, Symbol(c))
  BY SymbolAtHand
\* What was bought has an age of its own.
<1>5. ASSUME NEW i \in DOMAIN W, Bought(c, W, i), NEW A \in Versions, NEW j \in DOMAIN A
      PROVE  ~(A[j].symbol = W[i].symbol /\ A[j].opened = W[i].opened)
  BY <1>3, <1>4, <1>5 DEF Versions, Bought
<1>6. \A i \in DOMAIN W : Inherits(c, W, i) =>
        \E A \in Versions : \E j \in DOMAIN A :
          /\ W[i].symbol = A[j].symbol /\ W[i].opened = A[j].opened
          /\ \/ i = j /\ (W[i].status = "OPEN" => A[j].status = "OPEN")
             \/ i = nextId /\ W[i].status = "CLOSED"
  BY <1>1 DEF Inherits
<1>7. ASSUME NEW A \in Versions, NEW i \in DOMAIN A, i \in DOMAIN W
      PROVE  A[i].symbol = W[i].symbol /\ A[i].opened = W[i].opened
  <2>1. i # nextId
    BY <1>2
  <2>2. PICK B \in Versions : i \in DOMAIN B /\ W[i].symbol = B[i].symbol /\ W[i].opened = B[i].opened
    BY <1>6, <1>7, <2>1 DEF Bought
  <2> QED BY <1>7, <2>2 DEF LInv, SameLot
<1>8. SameLot'
  <2> SUFFICES ASSUME NEW A \in Versions', NEW B \in Versions', NEW i \in DOMAIN A \cap DOMAIN B
               PROVE  A[i].symbol = B[i].symbol /\ A[i].opened = B[i].opened
    BY DEF SameLot
  <2>1. CASE A \in Versions /\ B \in Versions
    BY <2>1 DEF LInv, SameLot
  <2>2. CASE A = W \/ B = W
    BY <1>1, <1>7, <2>2
  <2> QED BY <1>1, <2>1, <2>2
<1>9. ASSUME NEW A \in Versions, NEW i \in DOMAIN A, NEW j \in DOMAIN W,
             A[i].status = "OPEN", W[j].status = "OPEN",
             A[i].symbol = W[j].symbol, A[i].opened = W[j].opened
      PROVE  i = j
  <2>1. ~Bought(c, W, j)
    BY <1>5, <1>9
  <2>2. PICK B \in Versions : /\ j \in DOMAIN B /\ B[j].status = "OPEN"
                              /\ W[j].symbol = B[j].symbol /\ W[j].opened = B[j].opened
    BY <1>6, <1>9, <2>1
  <2> QED BY <1>9, <2>2 DEF LInv, AgesDiffer
<1>10. ASSUME NEW i \in DOMAIN W, NEW j \in DOMAIN W,
              W[i].status = "OPEN", W[j].status = "OPEN",
              W[i].symbol = W[j].symbol, W[i].opened = W[j].opened
       PROVE  i = j
  <2>1. CASE Bought(c, W, i) /\ Bought(c, W, j)
    BY <2>1 DEF Bought
  <2>2. CASE ~Bought(c, W, i)
    <3>1. PICK B \in Versions : /\ i \in DOMAIN B /\ B[i].status = "OPEN"
                                /\ W[i].symbol = B[i].symbol /\ W[i].opened = B[i].opened
      BY <1>6, <1>10, <2>2
    <3> QED BY <1>9, <1>10, <3>1
  <2>3. CASE ~Bought(c, W, j)
    <3>1. PICK B \in Versions : /\ j \in DOMAIN B /\ B[j].status = "OPEN"
                                /\ W[j].symbol = B[j].symbol /\ W[j].opened = B[j].opened
      BY <1>6, <1>10, <2>3
    <3> QED BY <1>9, <1>10, <3>1
  <2> QED BY <2>1, <2>2, <2>3
<1>11. AgesDiffer'
  <2> SUFFICES ASSUME NEW A \in Versions', NEW B \in Versions', NEW i \in DOMAIN A, NEW j \in DOMAIN B,
                      A[i].status = "OPEN", B[j].status = "OPEN",
                      A[i].symbol = B[j].symbol, A[i].opened = B[j].opened
               PROVE  i = j
    BY DEF AgesDiffer
  <2>1. CASE A \in Versions /\ B \in Versions
    BY <2>1 DEF LInv, AgesDiffer
  <2>2. CASE A \in Versions /\ B = W
    BY <1>9, <2>2
  <2>3. CASE A = W /\ B \in Versions
    BY <1>9, <2>3
  <2>4. CASE A = W /\ B = W
    BY <1>10, <2>4
  <2> QED BY <1>1, <2>1, <2>2, <2>3, <2>4
<1>12. startedAt[c] < clock /\ \A A \in Versions : \A i \in DOMAIN A : A[i].opened < clock
  BY DEF LInv, LClock
<1>13. \A A \in Versions' : \A i \in DOMAIN A : A[i].opened < clock
  BY <1>1, <1>6, <1>12 DEF Bought
<1>14. ASSUME NEW e \in Cycles PROVE AgesOf(e)'
  <2>1. CASE e = c
    <3>1. ASSUME NEW i \in DOMAIN W, W[i].opened = startedAt[c]
          PROVE  Finished(c, W[i].symbol)'
      <4>1. CASE Inherits(c, W, i)
        <5>1. PICK j \in DOMAIN tx[c].lots : W[i].symbol = tx[c].lots[j].symbol
                                             /\ W[i].opened = tx[c].lots[j].opened
          BY <1>3, <3>1, <4>1 DEF Inherits
        <5>2. Finished(c, W[i].symbol)
          BY <1>3, <3>1, <5>1
        <5> QED BY <5>2
      <4>2. CASE Bought(c, W, i) /\ \A s : s = Symbol(c) => Finished(c, s)'
        BY <4>2 DEF Bought
      <4> QED BY <4>1, <4>2
    <3> QED BY <1>3, <2>1, <3>1 DEF AgesOf, Untouched
  <2>2. CASE e # c
    <3>1. Untouched(e) /\ AgesOf(e)
      BY <2>2 DEF LInv, CycleInv
    <3>2. \A s : Finished(e, s)' <=> Finished(e, s)
      BY <3>1 DEF Untouched, Finished, Pos
    <3>3. pc[e] \in Busy => startedAt[e] # startedAt[c]
      BY <2>2 DEF LInv, LClock, Busy
    <3>4. pc[e] \in Busy => \A i \in DOMAIN W : W[i].opened # startedAt[e]
      BY <2>2, <3>1, <3>3 DEF AgesOf, Inherits, Bought
    <3> QED BY <2>2, <3>1, <3>2, <3>4 DEF AgesOf, Untouched
  <2> QED BY <2>1, <2>2
<1> QED BY <1>8, <1>11, <1>13, <1>14

\* What a cycle sees after it has written rows.
LEMMA SeenAfter ==
  ASSUME NEW c, NEW new, lots' = lots, tx'[c].lots = Over(new, tx[c].lots)
  PROVE  /\ DOMAIN LotsSeen(c)' = DOMAIN new \cup DOMAIN LotsSeen(c)
         /\ \A i \in DOMAIN new : LotsSeen(c)'[i] = new[i]
         /\ \A i \in DOMAIN LotsSeen(c) \ DOMAIN new : LotsSeen(c)'[i] = LotsSeen(c)[i]
BY DEF LotsSeen, Over

\* Types of the rows, when a cycle has written some.
LEMMA RowsStayOK ==
  ASSUME LTypes, NEW c \in Cycles, lots' = lots, Shape(tx)',
         \A e \in Cycles \ {c} : tx'[e] = tx[e],
         nextId' \in {nextId, nextId + 1},
         NEW new, tx'[c].lots = Over(new, tx[c].lots),
         \A i \in DOMAIN new : i \in 1..(nextId' - 1) /\ new[i] \in LotRow
  PROVE  /\ nextId' \in Nat \ {0} /\ RowsOK(lots)' /\ Shape(tx)'
         /\ \A e \in Cycles : RowsOK(tx[e].lots)'
<1>0. nextId \in Nat \ {0}
  BY DEF LTypes
<1>1. nextId' \in Nat \ {0} /\ 1..(nextId - 1) \subseteq 1..(nextId' - 1)
  <2>1. nextId' = nextId \/ nextId' = nextId + 1
    OBVIOUS
  <2>2. \A n \in Nat \ {0} : \A m \in {n, n + 1} :
          m \in Nat \ {0} /\ 1..(n - 1) \subseteq 1..(m - 1)
    OBVIOUS
  <2> QED BY <1>0, <2>1, <2>2
<1>2. RowsOK(lots) /\ \A e \in Cycles : RowsOK(tx[e].lots)
  BY DEF LTypes
<1>3. RowsOK(lots)' /\ \A e \in Cycles \ {c} : RowsOK(tx[e].lots)'
  BY <1>1, <1>2 DEF RowsOK
<1>4. RowsOK(tx[c].lots)'
  BY <1>1, <1>2 DEF RowsOK, Over
<1> QED BY <1>1, <1>3, <1>4

LEMMA TableWith ==
  ASSUME NEW rows, Table(rows), NEW n \in Nat, NEW new,
         \A i \in DOMAIN new : i \in DOMAIN rows \cup 1..n /\ new[i] \in LotRow
  PROVE  Table(new)
<1>1. PICK m \in Nat : DOMAIN rows \subseteq 1..m
  BY DEF Table
<1>2. m + n \in Nat /\ DOMAIN new \subseteq 1..(m + n)
  BY <1>1
<1> QED BY <1>2 DEF Table

LEMMA BuyLotKeeps ==
  ASSUME LInv, NEW c \in Cycles, BuyLot(c)
  PROVE  LInv'
<1> DEFINE row == NewLot(c)
           new == OneRow(nextId, row)
<1>0. /\ Shape(tx)' /\ \A e \in Cycles \ {c} : tx'[e] = tx[e]
      /\ tx'[c].lots = Over(new, tx[c].lots)
      /\ tx'[c].decisions = tx[c].decisions \cup {DecisionRow(c)}
  <2>1. Shape(tx)
    BY DEF LInv, LTypes
  <2>2. tx' = [tx EXCEPT ![c].decisions = tx[c].decisions \cup {DecisionRow(c)},
                         ![c].lots = Over(new, tx[c].lots)]
    <3> HIDE DEF new
    <3> QED BY <2>1 DEF BuyLot, new, Shape
  <2> HIDE DEF new
  <2> QED BY <2>1, <2>2, TxBoth
<1>1. /\ pc[c] = "trading" /\ todo[c] # <<>> /\ ruling[c] \in Ruling
      /\ ruling[c].action = "BUY" /\ price[c] # None /\ ruling[c].qty > 0
      /\ lots' = lots /\ decisions' = decisions /\ overlapped' = overlapped
      /\ clock' = clock /\ startedAt' = startedAt /\ nextId' = nextId + 1 /\ Advance(c)
  BY DEF LInv, CycleInv, TodoOf, BuyLot, Advance, shared, Recordable
<1>2. /\ TodoOf(c)' /\ WholeOf(c)' /\ PlanOf(c)' /\ pc'[c] = "deciding"
      /\ \A s : Finished(c, s)' <=> Finished(c, s) \/ s = Symbol(c)
  BY <1>0, <1>1, SymbolDone
<1>3. /\ Symbol(c) \in Symbols /\ ~Finished(c, Symbol(c)) /\ todo'[c] \in Seq(Symbols)
      /\ nextId \in Nat \ {0} /\ startedAt[c] \in Nat /\ ruling[c].qty \in Nat \ {0}
  BY <1>1, SymbolAtHand, AdvanceOne DEF Advance, LInv, LTypes, Ruling
<1>4. /\ DOMAIN new = {nextId} /\ new[nextId] = row /\ row \in LotRow
      /\ row.symbol = Symbol(c) /\ row.opened = startedAt[c] /\ row.status = "OPEN"
      /\ row.shares = ruling[c].qty
  <2>1. row \in LotRow /\ row.symbol = Symbol(c) /\ row.opened = startedAt[c]
        /\ row.status = "OPEN" /\ row.shares = ruling[c].qty
    BY <1>3 DEF NewLot, LotRow
  <2> HIDE DEF row
  <2> QED BY <2>1, OneRowIs
<1> HIDE DEF new, row
<1>5. LTypes'
  <2>1. \A i \in DOMAIN new : i \in 1..(nextId' - 1) /\ new[i] \in LotRow
    BY <1>1, <1>3, <1>4
  <2>2. nextId' \in Nat \ {0} /\ RowsOK(lots)' /\ \A e \in Cycles : RowsOK(tx[e].lots)'
    BY <1>0, <1>1, <2>1, RowsStayOK DEF LInv
  <2>3. /\ pc' \in [Cycles -> Busy \cup {"idle", "done"}] /\ todo' \in [Cycles -> Seq(Symbols)]
        /\ DOMAIN ruling' = Cycles /\ DOMAIN market' = Cycles /\ DOMAIN price' = Cycles
        /\ plan' = plan /\ remaining' = remaining
    BY <1>1, <1>3 DEF LInv, LTypes, BuyLot, Advance, Busy
  <2> QED BY <1>0, <1>1, <2>2, <2>3 DEF LInv, LTypes
<1>6. \A e \in Cycles \ {c} : Untouched(e)
  BY OthersUntouched DEF LInv, Step
<1>7. /\ DOMAIN tx'[c].lots = {nextId} \cup DOMAIN tx[c].lots
      /\ tx'[c].lots[nextId] = row
      /\ \A i \in DOMAIN tx[c].lots : i # nextId /\ tx'[c].lots[i] = tx[c].lots[i]
  <2>1. \A i \in DOMAIN tx[c].lots : i # nextId
    BY <1>3 DEF LInv, LTypes, RowsOK
  <2> QED BY <1>0, <1>4, <2>1 DEF Over
<1>8. /\ SameLot' /\ AgesDiffer' /\ \A e \in Cycles : AgesOf(e)'
      /\ \A A \in Versions' : \A i \in DOMAIN A : A[i].opened < clock
  <2> DEFINE W == tx'[c].lots
  <2>1. \A i \in DOMAIN W : \/ Inherits(c, W, i)
                            \/ Bought(c, W, i) /\ \A s : s = Symbol(c) => Finished(c, s)'
    BY <1>2, <1>4, <1>7 DEF Inherits, Bought
  <2>2. pc[c] \in Busy /\ \A s : Finished(c, s) => Finished(c, s)'
    BY <1>1, <1>2 DEF Busy
  <2> HIDE DEF W
  <2> QED BY <1>1, <1>6, <2>1, <2>2, RowsWritten DEF W
<1>9. LockedOf(c)'
  BY <1>2, <1>4, <1>7 DEF LInv, CycleInv, LockedOf
<1>10. ~overlapped /\ Balanced(c) => Balanced(c)'
  <2> SUFFICES ASSUME ~overlapped, Balanced(c) PROVE Balanced(c)'
    OBVIOUS
  <2> DEFINE s == Symbol(c)
             before == LotsSeen(c)
             after  == LotsSeen(c)'
             done   == DecisionRow(c)
  <2>1. /\ DOMAIN after = {nextId} \cup DOMAIN before /\ after[nextId] = row
        /\ nextId \notin DOMAIN before
        /\ \A i \in DOMAIN before : after[i] = before[i]
    <3>1. nextId \notin DOMAIN lots /\ nextId \notin DOMAIN tx[c].lots
      BY <1>3 DEF LInv, LTypes, RowsOK
    <3>2. nextId \notin DOMAIN before
      BY <3>1, SeenIs
    <3> HIDE DEF before
    <3>3. /\ DOMAIN after = DOMAIN new \cup DOMAIN before
          /\ \A i \in DOMAIN new : after[i] = new[i]
          /\ \A i \in DOMAIN before \ DOMAIN new : after[i] = before[i]
      BY <1>0, <1>1, SeenAfter DEF before
    <3> HIDE DEF after
    <3> QED BY <1>4, <3>2, <3>3
  <2>2. Table(lots) /\ Table(before) /\ Table(after)
    <3>1. Table(lots) /\ Table(before)
      BY RowsAreTables DEF LInv
    <3> HIDE DEF before, after
    <3>2. \A i \in DOMAIN after : i \in DOMAIN before \cup 1..nextId /\ after[i] \in LotRow
      BY <1>3, <1>4, <2>1, <3>1 DEF Table
    <3> QED BY <1>3, <3>1, <3>2, TableWith
  <2>3. Held(before, s) = Held(lots, s) /\ Held(lots, s) \in Nat
    BY <1>1, <1>3, <2>2, SeenAsCommitted, HeldType
  <2> HIDE DEF before, after
  <2>4. Held(after, s) = Held(before, s) + ruling[c].qty
    <3>1. /\ OpenOf(after, s) = OpenOf(before, s) \cup {nextId} /\ nextId \notin OpenOf(before, s)
          /\ \A i \in OpenOf(before, s) : after[i].shares = before[i].shares
      BY <1>4, <2>1 DEF OpenOf
    <3> QED BY <1>4, <2>1, <2>2, <3>1, HeldMore
  <2>5. ASSUME NEW x, x # s
        PROVE  Held(after, x) = Held(before, x)
    <3>1. /\ OpenOf(after, x) = OpenOf(before, x)
          /\ \A i \in OpenOf(before, x) : after[i].shares = before[i].shares
      BY <1>4, <2>1, <2>5 DEF OpenOf
    <3> QED BY <2>2, <3>1, HeldSame
  <2>6. done.symbol = s /\ Moved(done) = ruling[c].qty
    BY <1>1, <1>3 DEF DecisionRow, Moved, PositionAfter
  <2>7. Held(after, s) \in 0..MaxPositionQty
    BY <1>1, <1>3, <2>3, <2>4 DEF Balanced, LedgerAfter, PositionAfter
  <2>8. \A d \in tx[c].decisions : d.symbol # s
    BY <1>3 DEF LInv, CycleInv, WholeOf
  <2> HIDE DEF s, done
  <2>9. \A d \in tx[c].decisions \cup {done} :
          /\ Held(after, d.symbol) = Held(lots, d.symbol) + Moved(d)
          /\ Held(after, d.symbol) \in 0..MaxPositionQty
    BY <2>3, <2>4, <2>5, <2>6, <2>7, <2>8 DEF Balanced, before
  <2>10. \A d : Moved(d)' = Moved(d)
    BY DEF Moved
  <2> QED BY <1>0, <1>1, <1>2, <2>9, <2>10 DEF Balanced, after, done
<1>11. Step(c) /\ pc[c] \in Busy /\ pc'[c] # "idle"
  BY <1>1, <1>2 DEF Step, Busy
<1> QED
  BY <1>1, <1>2, <1>5, <1>8, <1>9, <1>10, <1>11, StepKeeps

LEMMA LeastOfTwo ==
  ASSUME NEW a \in Nat, NEW b \in Nat
  PROVE  /\ Min({a, b}) \in Nat /\ Min({a, b}) \in {a, b}
         /\ Min({a, b}) <= a /\ Min({a, b}) <= b
<1>1. \E x \in {a, b} : \A y \in {a, b} : x <= y
  <2>1. a <= b \/ b <= a
    OBVIOUS
  <2> QED BY <2>1
<1>2. Min({a, b}) \in {a, b} /\ \A y \in {a, b} : Min({a, b}) <= y
  BY <1>1 DEF Min
<1> QED BY <1>2

\* The rows one step of a sale writes: the lot it comes to, closed or reduced,
\* and the part of it that is split off.
Sells(c, new) ==
  LET id  == Head(plan[c]).id
      row == lots[id]
      qty == CloseQty(c, Head(plan[c]))
  IN  \/ /\ qty = Head(plan[c]).shares
         /\ DOMAIN new = {id} /\ new[id] = [row EXCEPT !.status = "CLOSED"]
         /\ nextId' = nextId
      \/ /\ qty # Head(plan[c]).shares /\ row.shares > qty
         /\ DOMAIN new = {id, nextId}
         /\ new[id] = [row EXCEPT !.shares = @ - qty]
         /\ new[nextId] = [row EXCEPT !.shares = qty, !.status = "CLOSED"]
         /\ nextId' = nextId + 1

\* The lot a sale comes to is as it was committed.
LEMMA LotAtHand ==
  ASSUME LInv, NEW c \in Cycles, pc[c] = "selling", plan[c] # <<>>
  PROVE  LET id == Head(plan[c]).id
         IN  /\ id \in DOMAIN lots /\ id \notin DOMAIN tx[c].lots /\ LotsSeen(c)[id] = lots[id]
             /\ lots[id].symbol = Symbol(c) /\ lots[id] \in LotRow /\ id \in 1..(nextId - 1)
             /\ Head(plan[c]) \in PlannedLot
             /\ Tail(plan[c]) \in Seq(PlannedLot)
             /\ \A k \in DOMAIN Tail(plan[c]) :
                  /\ k + 1 \in DOMAIN plan[c] /\ Tail(plan[c])[k] = plan[c][k + 1]
                  /\ lots[id].opened < lots[Tail(plan[c])[k].id].opened
             /\ \A k \in DOMAIN plan[c] : k = 1 \/ k - 1 \in DOMAIN Tail(plan[c])
             /\ 1 \in DOMAIN plan[c] /\ Head(plan[c]) = plan[c][1]
<1> DEFINE id == Head(plan[c]).id
           rest == Tail(plan[c])
<1>1. /\ plan[c] \in Seq(PlannedLot) /\ PlanOf(c) /\ LockedOf(c) /\ ~Finished(c, Symbol(c))
  <2>1. todo[c] # <<>>
    BY DEF LInv, CycleInv, TodoOf
  <2> QED BY <2>1, SymbolAtHand DEF LInv, LTypes, CycleInv
<1>2. /\ 1 \in DOMAIN plan[c] /\ Head(plan[c]) = plan[c][1] /\ Head(plan[c]) \in PlannedLot
      /\ rest \in Seq(PlannedLot)
      /\ \A k \in DOMAIN rest : k + 1 \in DOMAIN plan[c] /\ rest[k] = plan[c][k + 1] /\ 1 < k + 1
      /\ \A k \in DOMAIN plan[c] : k = 1 \/ k - 1 \in DOMAIN rest
  BY <1>1
<1>3. id \in DOMAIN lots /\ lots[id].symbol = Symbol(c)
  BY <1>1, <1>2 DEF PlanOf
<1>4. \A k \in DOMAIN rest : lots[id].opened < lots[rest[k].id].opened
  BY <1>1, <1>2 DEF PlanOf
<1>5. lots[id] \in LotRow /\ id \in 1..(nextId - 1)
  BY <1>3 DEF LInv, LTypes, RowsOK
<1>6. id \notin DOMAIN tx[c].lots
  <2> SUFFICES ASSUME id \in DOMAIN tx[c].lots PROVE FALSE
    OBVIOUS
  <2>1. tx[c].lots[id].symbol = lots[id].symbol /\ tx[c].lots[id].opened = lots[id].opened
    BY <1>3 DEF LInv, SameLot, Versions
  <2>2. tx[c].lots[id].opened < lots[id].opened
    BY <1>1, <1>2, <1>3, <2>1 DEF LockedOf
  <2> QED BY <1>5, <2>1, <2>2 DEF LotRow
<1>7. LotsSeen(c)[id] = lots[id]
  BY <1>3, <1>6, SeenIs
<1> HIDE DEF rest
<1> QED BY <1>2, <1>3, <1>4, <1>5, <1>6, <1>7 DEF rest

\* What such a step changes.
LEMMA SellsOne ==
  ASSUME LInv, NEW c \in Cycles, SellFromNext(c)
  PROVE  /\ pc[c] = "selling" /\ plan[c] # <<>> /\ remaining[c] > 0
         /\ \E new : Sells(c, new) /\ tx'[c].lots = Over(new, tx[c].lots)
         /\ Shape(tx)' /\ \A e \in Cycles \ {c} : tx'[e] = tx[e]
         /\ tx'[c].decisions = tx[c].decisions
         /\ plan' = [plan EXCEPT ![c] = Tail(@)]
         /\ remaining' = [remaining EXCEPT ![c] = @ - CloseQty(c, Head(plan[c]))]
         /\ pc' = pc /\ todo' = todo /\ ruling' = ruling /\ price' = price /\ market' = market
         /\ lots' = lots /\ decisions' = decisions /\ overlapped' = overlapped
         /\ clock' = clock /\ startedAt' = startedAt
<1> DEFINE lot == Head(plan[c])
           id  == lot.id
           row == lots[id]
           qty == CloseQty(c, lot)
<1>1. pc[c] = "selling" /\ plan[c] # <<>> /\ Shape(tx)
  BY DEF SellFromNext, LInv, LTypes
<1>2. id # nextId /\ LotsSeen(c)[id] = row
  <2>1. id \in 1..(nextId - 1) /\ LotsSeen(c)[id] = row
    BY <1>1, LotAtHand
  <2>2. nextId \in Nat
    BY DEF LInv, LTypes
  <2> QED BY <2>1, <2>2
<1> HIDE DEF row, qty, id
<1>3. \E new : Sells(c, new) /\ tx' = [tx EXCEPT ![c].lots = Over(new, @)]
  <2>1. CASE /\ qty = lot.shares /\ nextId' = nextId
             /\ Write(c, OneRow(id, [row EXCEPT !.status = "CLOSED"]))
    <3> DEFINE new == OneRow(id, [row EXCEPT !.status = "CLOSED"])
    <3>1. DOMAIN new = {id} /\ new[id] = [row EXCEPT !.status = "CLOSED"]
      BY OneRowIs
    <3>2. tx' = [tx EXCEPT ![c].lots = Over(new, @)]
      BY <2>1 DEF Write
    <3> HIDE DEF new
    <3>3. Sells(c, new)
      BY <2>1, <3>1 DEF Sells, id, row, qty
    <3> QED BY <3>2, <3>3
  <2>2. CASE /\ qty # lot.shares /\ row.shares > qty /\ nextId' = nextId + 1
             /\ Write(c, Over(OneRow(id, [row EXCEPT !.shares = @ - qty]),
                              OneRow(nextId, [row EXCEPT !.shares = qty, !.status = "CLOSED"])))
    <3> DEFINE less == [row EXCEPT !.shares = @ - qty]
               part == [row EXCEPT !.shares = qty, !.status = "CLOSED"]
               new  == Over(OneRow(id, less), OneRow(nextId, part))
    <3>1. tx' = [tx EXCEPT ![c].lots = Over(new, @)]
      BY <2>2 DEF Write
    <3> HIDE DEF less, part
    <3>2. DOMAIN new = {id, nextId} /\ new[id] = less /\ new[nextId] = part
      BY <1>2 DEF Over, OneRow
    <3> HIDE DEF new
    <3>3. Sells(c, new)
      BY <2>2, <3>2 DEF Sells, id, row, qty, less, part
    <3> QED BY <3>1, <3>3
  <2> QED BY <1>2, <2>1, <2>2 DEF SellFromNext, id, row, qty
<1>4. PICK new : Sells(c, new) /\ tx' = [tx EXCEPT ![c].lots = Over(new, @)]
  BY <1>3
<1>5. /\ Shape(tx)' /\ \A e \in Cycles \ {c} : tx'[e] = tx[e]
      /\ tx'[c].lots = Over(new, tx[c].lots) /\ tx'[c].decisions = tx[c].decisions
  <2>1. tx' = [tx EXCEPT ![c].lots = Over(new, tx[c].lots)]
    BY <1>1, <1>4 DEF Shape
  <2> QED BY <1>1, <2>1, TxLots
<1> QED BY <1>4, <1>5 DEF SellFromNext, shared

LEMMA SellFromNextKeeps ==
  ASSUME LInv, NEW c \in Cycles, SellFromNext(c)
  PROVE  LInv'
<1> DEFINE lot == Head(plan[c])
           id  == lot.id
           row == lots[id]
           qty == CloseQty(c, lot)
           s   == Symbol(c)
<1>1. /\ pc[c] = "selling" /\ plan[c] # <<>> /\ remaining[c] > 0 /\ todo[c] # <<>>
      /\ Shape(tx)' /\ \A e \in Cycles \ {c} : tx'[e] = tx[e]
      /\ tx'[c].decisions = tx[c].decisions
      /\ plan' = [plan EXCEPT ![c] = Tail(@)]
      /\ remaining' = [remaining EXCEPT ![c] = @ - qty]
      /\ pc' = pc /\ todo' = todo /\ ruling' = ruling /\ price' = price /\ market' = market
      /\ lots' = lots /\ decisions' = decisions /\ overlapped' = overlapped
      /\ clock' = clock /\ startedAt' = startedAt
  BY SellsOne DEF LInv, CycleInv, TodoOf
<1>2. PICK new : Sells(c, new) /\ tx'[c].lots = Over(new, tx[c].lots)
  BY SellsOne
<1>3. /\ id \in DOMAIN lots /\ id \notin DOMAIN tx[c].lots /\ LotsSeen(c)[id] = row
      /\ row.symbol = s /\ row \in LotRow /\ id \in 1..(nextId - 1) /\ lot \in PlannedLot
      /\ Tail(plan[c]) \in Seq(PlannedLot)
  BY <1>1, LotAtHand
<1>4. /\ qty \in Nat \ {0} /\ qty \in {remaining[c], lot.shares}
      /\ qty <= remaining[c] /\ qty <= lot.shares
  <2>1. remaining[c] \in Nat /\ lot.shares \in Nat \ {0}
    BY <1>3 DEF LInv, LTypes, PlannedLot
  <2> HIDE DEF lot
  <2>2. CloseQty(c, lot) = Min({remaining[c], lot.shares})
    BY DEF CloseQty
  <2> QED BY <1>1, <2>1, <2>2, LeastOfTwo
<1>5. /\ plan'[c] = Tail(plan[c]) /\ remaining'[c] = remaining[c] - qty /\ remaining'[c] \in Nat
      /\ nextId \in Nat \ {0} /\ nextId' \in {nextId, nextId + 1}
  BY <1>1, <1>2, <1>4 DEF LInv, LTypes, Sells
<1> HIDE DEF qty, row, id
\* The rows written, by what matters of them.
<1>6. /\ DOMAIN new \subseteq {id, nextId} /\ id \in DOMAIN new /\ id # nextId
      /\ nextId \in DOMAIN new => nextId' = nextId + 1 /\ new[nextId].status = "CLOSED"
      /\ \A i \in DOMAIN new : /\ i \in 1..(nextId' - 1) /\ new[i] \in LotRow
                               /\ new[i].symbol = s /\ new[i].opened = row.opened
      /\ new[id].status = "OPEN" => row.status = "OPEN"
  <2>1. /\ row.symbol = s /\ row.shares \in Nat \ {0} /\ row.opened \in Int /\ s \in Symbols
        /\ row.status \in {"OPEN", "CLOSED"} /\ id # nextId /\ id \in 1..(nextId' - 1)
        /\ row = [symbol |-> s, opened |-> row.opened, shares |-> row.shares, status |-> row.status]
    BY <1>3, <1>5 DEF LotRow
  <2>2. CASE DOMAIN new = {id} /\ new[id] = [row EXCEPT !.status = "CLOSED"]
    BY <2>1, <2>2 DEF LotRow
  <2>3. CASE /\ DOMAIN new = {id, nextId} /\ nextId' = nextId + 1 /\ row.shares > qty
             /\ new[id] = [row EXCEPT !.shares = @ - qty]
             /\ new[nextId] = [row EXCEPT !.shares = qty, !.status = "CLOSED"]
    <3>1. new[id] = [symbol |-> s, opened |-> row.opened, shares |-> row.shares - qty, status |-> row.status]
      BY <2>1, <2>3
    <3>2. new[nextId] = [symbol |-> s, opened |-> row.opened, shares |-> qty, status |-> "CLOSED"]
      BY <2>1, <2>3
    <3>3. row.shares - qty \in Nat \ {0}
      BY <1>4, <2>1, <2>3
    <3>4. new[id] \in LotRow /\ new[nextId] \in LotRow
      BY <1>4, <2>1, <3>1, <3>2, <3>3 DEF LotRow
    <3>5. nextId \in 1..(nextId' - 1)
      BY <1>5, <2>3
    <3> QED BY <2>1, <2>3, <3>1, <3>2, <3>4, <3>5
  <2> QED BY <1>2, <2>2, <2>3 DEF Sells, id, row, qty
<1>7. LTypes'
  <2>1. nextId' \in Nat \ {0} /\ RowsOK(lots)' /\ \A e \in Cycles : RowsOK(tx[e].lots)'
    BY <1>1, <1>2, <1>5, <1>6, RowsStayOK DEF LInv
  <2>2. plan' \in [Cycles -> Seq(PlannedLot)] /\ remaining' \in [Cycles -> Nat]
    BY <1>1, <1>3, <1>5 DEF LInv, LTypes
  <2> QED BY <1>1, <2>1, <2>2 DEF LInv, LTypes
<1>8. \A e \in Cycles \ {c} : Untouched(e)
  BY OthersUntouched DEF LInv, Step
<1>9. /\ Pos(c)' = Pos(c) /\ Symbol(c)' = s /\ Recordable(c)' = Recordable(c)
      /\ \A x : Finished(c, x)' <=> Finished(c, x)
  BY <1>1 DEF Pos, Symbol, Finished, Recordable
<1>10. /\ DOMAIN tx'[c].lots = DOMAIN new \cup DOMAIN tx[c].lots
       /\ \A i \in DOMAIN new : tx'[c].lots[i] = new[i]
       /\ \A i \in DOMAIN tx[c].lots \ DOMAIN new : tx'[c].lots[i] = tx[c].lots[i]
  BY <1>2 DEF Over
<1>11. /\ SameLot' /\ AgesDiffer' /\ \A e \in Cycles : AgesOf(e)'
       /\ \A A \in Versions' : \A i \in DOMAIN A : A[i].opened < clock
  <2> DEFINE W == tx'[c].lots
  <2>1. ASSUME NEW i \in DOMAIN W PROVE Inherits(c, W, i)
    <3>1. CASE i \in DOMAIN new
      BY <1>3, <1>6, <1>10, <3>1 DEF Inherits, row
    <3>2. CASE i \notin DOMAIN new
      <4>1. i \in DOMAIN tx[c].lots /\ W[i] = tx[c].lots[i]
        BY <1>10, <3>2
      <4> QED BY <4>1 DEF Inherits
    <3> QED BY <3>1, <3>2
  <2>2. pc[c] \in Busy /\ \A x : Finished(c, x) => Finished(c, x)'
    BY <1>1, <1>9 DEF Busy
  <2> HIDE DEF W
  <2> QED BY <1>1, <1>8, <2>1, <2>2, RowsWritten DEF W
<1>12. TodoOf(c)'
  BY <1>1, <1>9 DEF LInv, CycleInv, TodoOf, Busy
<1>13. WholeOf(c)'
  BY <1>1, <1>9 DEF LInv, CycleInv, WholeOf
<1>14. PlanOf(c)'
  <2>1. PlanOf(c) /\ plan[c] \in Seq(PlannedLot)
    BY DEF LInv, LTypes, CycleInv
  <2>2. \A k \in DOMAIN Tail(plan[c]) : k \in Nat /\ k + 1 \in DOMAIN plan[c]
                                        /\ Tail(plan[c])[k] = plan[c][k + 1]
    BY <1>1, <2>1
  <2>3. \A k, l \in DOMAIN Tail(plan[c]) : k < l => k + 1 < l + 1
    BY <2>2
  <2> QED BY <1>1, <1>5, <1>9, <2>1, <2>2, <2>3 DEF PlanOf
<1>15. LockedOf(c)'
  <2>1. \A k \in DOMAIN plan'[c] :
          /\ k + 1 \in DOMAIN plan[c] /\ plan'[c][k] = plan[c][k + 1]
          /\ row.opened < lots[plan'[c][k].id].opened
    <3>1. \A k \in DOMAIN Tail(plan[c]) :
            /\ k + 1 \in DOMAIN plan[c] /\ Tail(plan[c])[k] = plan[c][k + 1]
            /\ row.opened < lots[Tail(plan[c])[k].id].opened
      BY <1>1, LotAtHand DEF row, id
    <3> QED BY <1>5, <3>1
  <2>2. ASSUME NEW i \in DOMAIN tx'[c].lots
        PROVE  \/ Finished(c, tx'[c].lots[i].symbol)
               \/ /\ tx'[c].lots[i].symbol = s
                  /\ \A k \in DOMAIN plan'[c] : tx'[c].lots[i].opened < lots[plan'[c][k].id].opened
    <3>1. CASE i \in DOMAIN new
      BY <1>6, <1>10, <2>1, <3>1
    <3>2. CASE i \notin DOMAIN new
      <4>1. i \in DOMAIN tx[c].lots /\ tx'[c].lots[i] = tx[c].lots[i]
        BY <1>10, <3>2
      <4> QED BY <1>1, <2>1, <4>1 DEF LInv, CycleInv, LockedOf
    <3> QED BY <3>1, <3>2
  <2> HIDE DEF s
  <2> QED BY <1>1, <1>9, <2>2 DEF LockedOf
<1>16. ~overlapped /\ Balanced(c) => Balanced(c)'
  <2> SUFFICES ASSUME ~overlapped, Balanced(c) PROVE Balanced(c)'
    OBVIOUS
  <2> DEFINE before == LotsSeen(c)
             after  == LotsSeen(c)'
             held   == Held(lots, s)
  <2>1. /\ DOMAIN after = DOMAIN new \cup DOMAIN before
        /\ \A i \in DOMAIN new : after[i] = new[i]
        /\ \A i \in DOMAIN before \ DOMAIN new : after[i] = before[i]
    BY <1>1, <1>2, SeenAfter
  <2>2. Table(lots) /\ Table(before)
    BY RowsAreTables DEF LInv
  <2>3. /\ id \in DOMAIN before /\ before[id] = row /\ row.symbol = s
        /\ nextId \notin DOMAIN before
    <3>1. nextId \notin DOMAIN lots /\ nextId \notin DOMAIN tx[c].lots
      BY <1>5 DEF LInv, LTypes, RowsOK
    <3> QED BY <1>3, <3>1, SeenIs
  <2>4. /\ ~Finished(c, s)
        /\ Held(before, s) = held - ruling[c].qty + remaining[c]
        /\ remaining[c] <= Held(before, s)
        /\ OpenOf(before, s) = {plan[c][k].id : k \in DOMAIN plan[c]}
        /\ \A k \in DOMAIN plan[c] : plan[c][k].shares = before[plan[c][k].id].shares
    BY <1>1, SymbolAtHand DEF Balanced
  <2>5. /\ Held(before, s) \in Nat /\ held \in Nat /\ remaining[c] \in Nat
        /\ ruling[c].qty \in Int /\ row.shares \in Nat \ {0}
    BY <1>1, <1>3, <2>2, HeldType DEF LInv, LTypes, CycleInv, TodoOf, Ruling, LotRow
  <2> HIDE DEF before, after, held, s
  <2>6. Table(after)
    <3>1. \A i \in DOMAIN after : i \in DOMAIN before \cup 1..nextId /\ after[i] \in LotRow
      BY <1>5, <1>6, <2>1, <2>2 DEF Table
    <3> QED BY <1>5, <2>2, <3>1, TableWith
  <2>7. /\ id \in OpenOf(before, s) /\ row.status = "OPEN" /\ lot.shares = row.shares
    <3>1. 1 \in DOMAIN plan[c] /\ plan[c][1] = lot
      BY <1>1, LotAtHand
    <3>2. id \in OpenOf(before, s) /\ lot.shares = row.shares
      BY <2>3, <2>4, <3>1 DEF id
    <3> QED BY <2>3, <3>2 DEF OpenOf
  <2>8. ASSUME NEW x, x # s
        PROVE  Held(after, x) = Held(before, x)
    <3>1. /\ OpenOf(after, x) = OpenOf(before, x)
          /\ \A i \in OpenOf(before, x) : after[i].shares = before[i].shares
      BY <1>6, <2>1, <2>3, <2>8 DEF OpenOf
    <3> QED BY <2>2, <2>6, <3>1, HeldSame
  <2>9. /\ Held(after, s) = Held(before, s) - qty
        /\ remaining'[c] > 0 =>
             /\ OpenOf(after, s) = OpenOf(before, s) \ {id}
             /\ \A i \in OpenOf(after, s) : after[i].shares = before[i].shares
    <3>1. CASE /\ qty = lot.shares
               /\ DOMAIN new = {id} /\ new[id] = [row EXCEPT !.status = "CLOSED"]
      <4>1. after[id].status = "CLOSED"
        BY <1>3, <2>1, <3>1 DEF LotRow
      <4>2. /\ OpenOf(after, s) = OpenOf(before, s) \ {id}
            /\ \A i \in OpenOf(after, s) : after[i].shares = before[i].shares
        BY <2>1, <2>3, <3>1, <4>1 DEF OpenOf
      <4>3. Held(after, s) = Held(before, s) - before[id].shares
        BY <2>2, <2>6, <2>7, <4>2, HeldLess
      <4> QED BY <2>3, <2>7, <3>1, <4>2, <4>3
    <3>2. CASE /\ qty # lot.shares /\ DOMAIN new = {id, nextId}
               /\ new[id] = [row EXCEPT !.shares = @ - qty]
               /\ new[nextId] = [row EXCEPT !.shares = qty, !.status = "CLOSED"]
      <4>1. /\ after[id].shares = row.shares - qty /\ after[id].status = "OPEN"
            /\ after[id].symbol = s /\ after[nextId].status = "CLOSED"
        BY <1>3, <2>1, <2>3, <2>7, <3>2 DEF LotRow
      <4>2. /\ OpenOf(after, s) = OpenOf(before, s)
            /\ \A i \in OpenOf(before, s) \ {id} : after[i].shares = before[i].shares
        <5>1. \A i \in DOMAIN before \ {id} : i \in DOMAIN after /\ after[i] = before[i]
          BY <2>1, <2>3, <3>2
        <5>2. \A i \in DOMAIN after : i = id \/ i = nextId \/ i \in DOMAIN before
          BY <2>1, <3>2
        <5>3. id \in DOMAIN after /\ id \in OpenOf(after, s)
          BY <2>1, <3>2, <4>1 DEF OpenOf
        <5>4. \A i : i \in OpenOf(after, s) <=> i \in OpenOf(before, s)
          BY <2>3, <2>7, <4>1, <5>1, <5>2, <5>3 DEF OpenOf
        <5> QED BY <5>1, <5>4 DEF OpenOf
      <4>3. Held(after, s) = Held(before, s) - before[id].shares + after[id].shares
        BY <2>2, <2>6, <2>7, <4>2, HeldChanged
      <4>4. remaining'[c] = 0
        BY <1>4, <1>5, <2>5, <3>2
      <4> QED BY <1>4, <2>3, <2>5, <4>1, <4>3, <4>4
    <3> QED BY <1>2, <3>1, <3>2 DEF Sells, id, row, qty
  <2>10. /\ Held(after, s) = held - ruling[c].qty + remaining'[c]
         /\ remaining'[c] <= Held(after, s)
    BY <1>4, <1>5, <2>4, <2>5, <2>9
  <2>11. remaining'[c] > 0 =>
           /\ OpenOf(after, s) = {plan'[c][k].id : k \in DOMAIN plan'[c]}
           /\ \A k \in DOMAIN plan'[c] : plan'[c][k].shares = after[plan'[c][k].id].shares
    <3>1. /\ \A k \in DOMAIN plan'[c] :
               /\ k + 1 \in DOMAIN plan[c] /\ plan'[c][k] = plan[c][k + 1]
               /\ plan'[c][k].id # id
          /\ \A k \in DOMAIN plan[c] : k = 1 \/ k - 1 \in DOMAIN plan'[c]
          /\ plan[c][1] = lot
      <4>1. \A k \in DOMAIN Tail(plan[c]) :
              /\ plan[c][k + 1].id \in DOMAIN lots
              /\ row.opened < lots[Tail(plan[c])[k].id].opened
              /\ k + 1 \in DOMAIN plan[c] /\ Tail(plan[c])[k] = plan[c][k + 1]
        BY <1>1, LotAtHand DEF LInv, CycleInv, PlanOf, row, id
      <4>2. row.opened \in Int
        BY <1>3 DEF LotRow
      <4>3. \A k \in DOMAIN Tail(plan[c]) : Tail(plan[c])[k].id # id
        BY <4>1, <4>2 DEF row
      <4> QED BY <1>1, <1>5, <4>1, <4>3, LotAtHand
    <3>2. \A k \in DOMAIN plan[c] : k \in Int /\ (k - 1) + 1 = k
      BY DEF LInv, LTypes
    <3>3. ASSUME NEW i
          PROVE  i \in {plan[c][k].id : k \in DOMAIN plan[c]} \ {id}
                   <=> i \in {plan'[c][k].id : k \in DOMAIN plan'[c]}
      <4>1. ASSUME NEW k \in DOMAIN plan[c], i = plan[c][k].id, i # id
            PROVE  i \in {plan'[c][l].id : l \in DOMAIN plan'[c]}
        <5>1. k # 1
          BY <3>1, <4>1 DEF id
        <5>2. k - 1 \in DOMAIN plan'[c] /\ plan'[c][k - 1] = plan[c][k]
          BY <3>1, <3>2, <5>1
        <5> QED BY <4>1, <5>2
      <4>2. ASSUME NEW k \in DOMAIN plan'[c], i = plan'[c][k].id
            PROVE  i \in {plan[c][l].id : l \in DOMAIN plan[c]} /\ i # id
        BY <3>1, <4>2
      <4> QED BY <4>1, <4>2
    <3>4. {plan[c][k].id : k \in DOMAIN plan[c]} \ {id} = {plan'[c][k].id : k \in DOMAIN plan'[c]}
      BY <3>3
    <3>5. ASSUME remaining'[c] > 0, NEW k \in DOMAIN plan'[c]
          PROVE  plan'[c][k].shares = after[plan'[c][k].id].shares
      <4>1. plan'[c][k].id \in OpenOf(after, s)
        BY <2>4, <2>9, <3>4, <3>5
      <4> QED BY <2>4, <2>9, <3>1, <3>5, <4>1
    <3> QED BY <2>4, <2>9, <3>4, <3>5
  <2>12. \A d \in tx[c].decisions : d.symbol # s
    BY <2>4 DEF LInv, CycleInv, WholeOf
  <2>13. \A d : Moved(d)' = Moved(d)
    BY DEF Moved
  <2>14. \A d \in tx'[c].decisions :
           /\ Held(after, d.symbol) = Held(lots, d.symbol) + Moved(d)
           /\ Held(after, d.symbol) \in 0..MaxPositionQty
    BY <1>1, <2>8, <2>12 DEF Balanced, before
  <2>15. LedgerAfter(held, ruling[c].action, ruling[c].qty) \in 0..MaxPositionQty
    BY <1>1 DEF Balanced, held, s
  <2> QED BY <1>1, <1>9, <2>10, <2>11, <2>13, <2>14, <2>15 DEF Balanced, after, held
<1>17. Step(c) /\ pc[c] \in Busy /\ pc'[c] # "idle"
  BY <1>1 DEF Step, Busy
<1> QED
  BY <1>1, <1>7, <1>11, <1>12, <1>13, <1>14, <1>15, <1>16, <1>17, StepKeeps
-----------------------------------------------------------------------------
(* The end of a cycle *)

\* Versions that hold no row that was in none before.
LEMMA RowsFromVersions ==
  ASSUME LInv,
         \A A \in Versions' : \A i \in DOMAIN A :
           \E B \in Versions : i \in DOMAIN B /\ A[i] = B[i]
  PROVE  /\ SameLot' /\ AgesDiffer'
         /\ \A A \in Versions' : \A i \in DOMAIN A : A[i].opened < clock
<1>1. SameLot'
  <2> SUFFICES ASSUME NEW A \in Versions', NEW B \in Versions', NEW i \in DOMAIN A \cap DOMAIN B
               PROVE  A[i].symbol = B[i].symbol /\ A[i].opened = B[i].opened
    BY DEF SameLot
  <2>1. PICK C \in Versions : i \in DOMAIN C /\ A[i] = C[i]
    OBVIOUS
  <2>2. PICK D \in Versions : i \in DOMAIN D /\ B[i] = D[i]
    OBVIOUS
  <2> QED BY <2>1, <2>2 DEF LInv, SameLot
<1>2. AgesDiffer'
  <2> SUFFICES ASSUME NEW A \in Versions', NEW B \in Versions', NEW i \in DOMAIN A, NEW j \in DOMAIN B,
                      A[i].status = "OPEN", B[j].status = "OPEN",
                      A[i].symbol = B[j].symbol, A[i].opened = B[j].opened
               PROVE  i = j
    BY DEF AgesDiffer
  <2>1. PICK C \in Versions : i \in DOMAIN C /\ A[i] = C[i]
    OBVIOUS
  <2>2. PICK D \in Versions : j \in DOMAIN D /\ B[j] = D[j]
    OBVIOUS
  <2> QED BY <2>1, <2>2 DEF LInv, AgesDiffer
<1>3. \A A \in Versions' : \A i \in DOMAIN A : A[i].opened < clock
  BY DEF LInv, LClock
<1> QED BY <1>1, <1>2, <1>3

\* A step that ends a cycle, whatever it leaves committed.
LEMMA EndKeeps ==
  ASSUME LInv, NEW c \in Cycles, Step(c), pc[c] \in Busy, pc'[c] = "done",
         tx'[c] = NoRows, overlapped' = overlapped, clock' = clock, startedAt' = startedAt,
         todo'[c] = todo[c], LTypes', LCommitted', LotsStay,
         \A i \in DOMAIN lots' : \E B \in {lots, tx[c].lots} : i \in DOMAIN B /\ lots'[i] = B[i],
         ~overlapped => PositionWithinCap'
  PROVE  LInv'
<1>1. \A e \in Cycles \ {c} : Untouched(e)
  BY OthersUntouched DEF LInv
<1>2. tx'[c].lots = <<>> /\ tx'[c].decisions = {}
  BY DEF NoRows
<1>3. \A A \in Versions' : \A i \in DOMAIN A :
        \E B \in Versions : i \in DOMAIN B /\ A[i] = B[i]
  <2> SUFFICES ASSUME NEW A \in Versions', NEW i \in DOMAIN A
               PROVE  \E B \in Versions : i \in DOMAIN B /\ A[i] = B[i]
    OBVIOUS
  <2>1. CASE A = lots'
    BY <2>1 DEF Versions
  <2>2. ASSUME NEW e \in Cycles, A = tx'[e].lots
        PROVE  \E B \in Versions : i \in DOMAIN B /\ A[i] = B[i]
    <3>1. e # c
      BY <1>2, <2>2
    <3> QED BY <1>1, <2>2, <3>1 DEF Untouched, Versions
  <2> QED BY <2>1, <2>2 DEF Versions
<1>4. /\ SameLot' /\ AgesDiffer'
      /\ \A A \in Versions' : \A i \in DOMAIN A : A[i].opened < clock
  BY <1>3, RowsFromVersions
<1>5. ASSUME NEW e \in Cycles PROVE AgesOf(e)'
  <2>1. CASE e = c
    BY <2>1 DEF AgesOf, Busy
  <2>2. CASE e # c
    <3>1. Untouched(e) /\ AgesOf(e)
      BY <1>1, <2>2 DEF LInv, CycleInv
    <3>2. \A s : Finished(e, s)' <=> Finished(e, s)
      BY <3>1 DEF Untouched, Finished, Pos
    <3>3. pc[e] \in Busy => \A i \in DOMAIN lots' : lots'[i].opened # startedAt[e]
      BY <2>2, <3>1 DEF AgesOf
    <3>4. pc[e] \in Busy => \A d \in Cycles \ {e} : \A i \in DOMAIN tx'[d].lots :
                              tx'[d].lots[i].opened # startedAt[e]
      BY <1>1, <1>2, <3>1 DEF AgesOf, Untouched
    <3> QED BY <3>1, <3>2, <3>3, <3>4 DEF AgesOf, Untouched
  <2> QED BY <2>1, <2>2
<1>6. Pos(c)' = Pos(c)
  BY DEF Pos
<1>7. TodoOf(c)' /\ WholeOf(c)' /\ PlanOf(c)' /\ LockedOf(c)'
  BY <1>2, <1>6, FS_EmptySet DEF LInv, CycleInv, TodoOf, WholeOf, PlanOf, LockedOf, Busy
<1>8. \A e \in Cycles : CycleInv(e)'
  BY <1>1, <1>5, <1>7, OthersKept DEF LInv, CycleInv
<1>9. LClock'
  BY <1>1, <1>4 DEF LInv, LClock, Untouched, Busy
<1>10. LCap'
  <2> SUFFICES ASSUME ~overlapped PROVE PositionWithinCap' /\ Running' = {}
    BY DEF LCap
  <2>1. \A e \in Running : e = c
    BY DEF LInv, LCap, Running
  <2>2. Running' = {}
    BY <1>1, <2>1 DEF Running, Untouched, Busy
  <2> QED BY <2>2
<1> QED BY <1>4, <1>8, <1>9, <1>10 DEF LInv

LEMMA AbortKeeps ==
  ASSUME LInv, NEW c \in Cycles, Abort(c)
  PROVE  LInv'
<1>1. /\ pc[c] \in Busy /\ pc'[c] = "done"
      /\ lots' = lots /\ decisions' = decisions /\ nextId' = nextId
      /\ overlapped' = overlapped /\ clock' = clock /\ startedAt' = startedAt
      /\ todo' = todo /\ plan' = plan /\ remaining' = remaining
      /\ ruling' = ruling /\ price' = price /\ market' = market
      /\ tx' = [tx EXCEPT ![c] = NoRows]
  BY DEF LInv, LTypes, Abort, Discard, shared, local
<1>2. Shape(tx)' /\ tx'[c] = NoRows /\ \A e \in Cycles \ {c} : tx'[e] = tx[e]
  BY <1>1, TxDropped DEF LInv, LTypes
<1>3. LTypes'
  <2>1. \A e \in Cycles : RowsOK(tx[e].lots)'
    BY <1>1, <1>2 DEF LInv, LTypes, RowsOK, NoRows
  <2>2. pc' \in [Cycles -> Busy \cup {"idle", "done"}]
    BY DEF Abort, LInv, LTypes
  <2> QED BY <1>1, <1>2, <2>1, <2>2 DEF LInv, LTypes, RowsOK
<1>4. LCommitted'
  <2>1. \A d \in decisions : pc'[d.cycle] = "done"
    BY DEF Abort, LInv, LTypes, LCommitted
  <2> QED BY <1>1, <2>1 DEF LInv, LCommitted, WholeCycles
<1>5. /\ LotsStay
      /\ \A i \in DOMAIN lots' : \E B \in {lots, tx[c].lots} : i \in DOMAIN B /\ lots'[i] = B[i]
  BY <1>1 DEF LotsStay
<1>6. ~overlapped => PositionWithinCap'
  BY <1>1 DEF LInv, LCap, PositionWithinCap, Traded
<1> QED BY <1>1, <1>2, <1>3, <1>4, <1>5, <1>6, EndKeeps DEF Step
\* ThatTraded(D, s, action) are the decisions of D that moved shares.
ThatTraded(D, s, action) ==
  {d \in D : d.symbol = s /\ d.action = action /\ d.price # None /\ d.qty > 0}
Volume(D, s, action) ==
  SumFunctionOnSet([d \in ThatTraded(D, s, action) |-> d.qty], ThatTraded(D, s, action))

\* The volume traded, with one more decision about the symbol.
LEMMA VolumeGrows ==
  ASSUME NEW D, IsFiniteSet(D), \A d \in D : d.qty \in Int, NEW s, NEW action,
         NEW E, NEW new \in E, new \notin D, new.qty \in Int, new.symbol = s,
         \A d \in E : d.symbol = s => d = new
  PROVE  /\ Volume(D, s, action) \in Int
         /\ Volume(D \cup E, s, action) = Volume(D, s, action) +
              IF new.action = action /\ new.price # None /\ new.qty > 0 THEN new.qty ELSE 0
<1> DEFINE old  == ThatTraded(D, s, action)
           all  == ThatTraded(D \cup E, s, action)
           f    == [d \in old |-> d.qty]
           g    == [d \in all |-> d.qty]
           moves == new.action = action /\ new.price # None /\ new.qty > 0
<1>1. /\ IsFiniteSet(old) /\ new \notin old
      /\ \A d \in old : f[d] = d.qty /\ d.qty \in Int
  <2>1. old \subseteq D
    BY DEF ThatTraded
  <2> QED BY <2>1, FS_Subset
<1>2. SumFunctionOnSet(f, old) \in Int
  BY <1>1, SumType
<1>3. CASE moves
  <2>1. all = old \cup {new}
    BY <1>3 DEF ThatTraded
  <2>2. \A d \in old \cup {new} : g[d] = d.qty /\ g[d] \in Int
    BY <1>1, <2>1
  <2>3. \A d \in old : g[d] = f[d]
    BY <1>1, <2>2
  <2> HIDE DEF old, all, f, g
  <2>4. SumFunctionOnSet(g, old \cup {new}) = g[new] + SumFunctionOnSet(g, old)
    BY <1>1, <2>2, SumWith
  <2>5. SumFunctionOnSet(g, old) = SumFunctionOnSet(f, old)
    BY <1>1, <2>3, SumCongruent
  <2>6. g[new] = new.qty
    BY <2>2
  <2>7. SumFunctionOnSet(g, all) = SumFunctionOnSet(f, old) + new.qty
    BY <1>2, <2>1, <2>4, <2>5, <2>6
  <2> QED BY <1>2, <1>3, <2>7 DEF Volume, old, all, f, g
<1>4. CASE ~moves
  <2>1. all = old
    BY <1>4 DEF ThatTraded
  <2>2. f = g
    BY <2>1
  <2> HIDE DEF old, all, f, g
  <2>3. SumFunctionOnSet(g, all) = SumFunctionOnSet(f, old) + 0
    BY <1>2, <2>1, <2>2
  <2> QED BY <1>2, <1>4, <2>3 DEF Volume, old, all, f, g
<1> QED BY <1>3, <1>4

LEMMA CommitKeeps ==
  ASSUME LInv, NEW c \in Cycles, Commit(c)
  PROVE  LInv'
<1> DEFINE mine == tx[c].decisions
<1>1. /\ pc[c] = "deciding" /\ todo[c] = <<>> /\ pc'[c] = "done" /\ pc[c] \in Busy
      /\ lots' = LotsSeen(c) /\ decisions' = decisions \cup mine /\ nextId' = nextId
      /\ overlapped' = overlapped /\ clock' = clock /\ startedAt' = startedAt
      /\ todo' = todo /\ plan' = plan /\ remaining' = remaining
      /\ ruling' = ruling /\ price' = price /\ market' = market
      /\ tx' = [tx EXCEPT ![c] = NoRows]
  BY DEF LInv, LTypes, Commit, local, Busy
<1>2. Shape(tx)' /\ tx'[c] = NoRows /\ \A e \in Cycles \ {c} : tx'[e] = tx[e]
  BY <1>1, TxDropped DEF LInv, LTypes
<1>3. /\ DOMAIN lots' = DOMAIN tx[c].lots \cup DOMAIN lots
      /\ \A i \in DOMAIN lots' : lots'[i] = IF i \in DOMAIN tx[c].lots THEN tx[c].lots[i] ELSE lots[i]
  BY <1>1, SeenIs
<1>4. LTypes'
  <2>1. \A e \in Cycles : RowsOK(tx[e].lots)'
    BY <1>1, <1>2 DEF LInv, LTypes, RowsOK, NoRows
  <2>2. pc' \in [Cycles -> Busy \cup {"idle", "done"}]
    BY DEF Commit, LInv, LTypes
  <2>3. RowsOK(lots)'
    BY <1>1, <1>3 DEF LInv, LTypes, RowsOK
  <2> QED BY <1>1, <1>2, <2>1, <2>2, <2>3 DEF LInv, LTypes
<1>5. \A i \in DOMAIN lots' : \E B \in {lots, tx[c].lots} : i \in DOMAIN B /\ lots'[i] = B[i]
  BY <1>3
<1>6. LotsStay
  <2>1. \A i \in DOMAIN lots \cap DOMAIN tx[c].lots :
          tx[c].lots[i].symbol = lots[i].symbol /\ tx[c].lots[i].opened = lots[i].opened
    BY DEF LInv, SameLot, Versions
  <2> QED BY <1>3, <2>1 DEF LotsStay
\* The decisions of this cycle are one for each of the symbols.
<1>7. /\ \A d \in mine : d.cycle = c /\ d.qty \in Int /\ d.symbol \in Symbols
      /\ \A d, e \in mine : d.symbol = e.symbol => d = e
      /\ \A s \in Symbols : \E d \in mine : d.symbol = s
      /\ IsFiniteSet(mine)
  <2>1. Pos(c) = Len(SymbolSeq) /\ DOMAIN SymbolSeq = 1..Len(SymbolSeq)
    BY <1>1, CycleConstants DEF Pos
  <2>2. \A s : Finished(c, s) <=> s \in Symbols
    BY <2>1 DEF Finished, Symbols, ToSet
  <2>3. \A s \in Symbols : \E p \in 1..Pos(c) : s = SymbolSeq[p]
    BY <2>2 DEF Finished
  <2> QED BY <1>1, <2>2, <2>3 DEF LInv, CycleInv, WholeOf
<1>8. \A d \in decisions : /\ d.cycle \in Cycles \ {c} /\ pc[d.cycle] = "done" /\ pc'[d.cycle] = "done"
                           /\ d.qty \in Int
  <2>1. \A d \in decisions : d.cycle \in Cycles /\ pc[d.cycle] = "done" /\ d.qty \in Int
    BY DEF LInv, LCommitted
  <2>2. \A e \in Cycles \ {c} : pc'[e] = pc[e]
    BY DEF LInv, LTypes, Commit
  <2> QED BY <1>1, <2>1, <2>2
<1> HIDE DEF mine
<1>9. LCommitted'
  <2>1. WholeCycles'
    <3> SUFFICES ASSUME NEW d \in decisions \cup mine
                 PROVE  {e.symbol : e \in {f \in decisions \cup mine : f.cycle = d.cycle}} = Symbols
      BY <1>1 DEF WholeCycles
    <3>1. CASE d \in mine
      <4>1. {f \in decisions \cup mine : f.cycle = d.cycle} = mine
        BY <1>7, <1>8, <3>1
      <4>2. {e.symbol : e \in mine} = Symbols
        BY <1>7
      <4> QED BY <4>1, <4>2
    <3>2. CASE d \in decisions
      <4>1. {f \in decisions \cup mine : f.cycle = d.cycle} = {f \in decisions : f.cycle = d.cycle}
        BY <1>7, <1>8, <3>2
      <4> QED BY <3>2, <4>1 DEF LInv, LCommitted, WholeCycles
    <3> QED BY <3>1, <3>2
  <2>2. IsFiniteSet(decisions \cup mine)
    BY <1>7, FS_Union DEF LInv, LCommitted
  <2> QED BY <1>1, <1>7, <1>8, <2>1, <2>2 DEF LCommitted
<1>10. ~overlapped => PositionWithinCap'
  <2> SUFFICES ASSUME ~overlapped, NEW s \in Symbols
               PROVE  /\ Held(lots', s) \in 0..MaxPositionQty
                      /\ Held(lots', s) = Held(StartLots, s) + Traded(s, "BUY")' - Traded(s, "SELL")'
    BY DEF PositionWithinCap
  <2>1. Balanced(c) /\ PositionWithinCap
    BY <1>1 DEF LInv, LCap, Running
  <2>2. PICK d \in mine : d.symbol = s
    BY <1>7
  <2>3. Held(lots', s) = Held(lots, s) + Moved(d) /\ Held(lots', s) \in 0..MaxPositionQty
    BY <1>1, <2>1, <2>2 DEF Balanced, mine
  <2>4. Held(lots, s) = Held(StartLots, s) + Traded(s, "BUY") - Traded(s, "SELL")
        /\ Held(lots, s) \in 0..MaxPositionQty
    BY <2>1 DEF PositionWithinCap
  <2>5. \A a : /\ Traded(s, a) = Volume(decisions, s, a)
               /\ Traded(s, a)' = Volume(decisions \cup mine, s, a)
    BY <1>1 DEF Traded, Volume, ThatTraded
  <2>6. \A a : /\ Volume(decisions, s, a) \in Int
               /\ Volume(decisions \cup mine, s, a) = Volume(decisions, s, a) +
                    IF d.action = a /\ d.price # None /\ d.qty > 0 THEN d.qty ELSE 0
    <3>1. d \notin decisions /\ d.qty \in Int /\ \A e \in mine : e.symbol = s => e = d
      BY <1>7, <1>8, <2>2
    <3>2. IsFiniteSet(decisions) /\ \A e \in decisions : e.qty \in Int
      BY <1>8 DEF LInv, LCommitted
    <3> QED BY <2>2, <3>1, <3>2, VolumeGrows
  <2>7. Held(StartLots, s) \in Int /\ d.qty \in Int
    BY <1>7, StartTable, HeldType
  <2>8. Moved(d) = IF d.price # None /\ d.qty > 0
                   THEN IF d.action = "BUY" THEN d.qty
                        ELSE IF d.action = "SELL" THEN 0 - d.qty ELSE 0
                   ELSE 0
    BY <2>7 DEF Moved, PositionAfter
  <2>9. Held(lots', s) = Held(StartLots, s) + Volume(decisions \cup mine, s, "BUY")
                           - Volume(decisions \cup mine, s, "SELL")
    <3> DEFINE buy  == Volume(decisions, s, "BUY")
               sell == Volume(decisions, s, "SELL")
               buy1  == Volume(decisions \cup mine, s, "BUY")
               sell1 == Volume(decisions \cup mine, s, "SELL")
    <3>1. /\ buy1 = buy + IF d.action = "BUY" /\ d.price # None /\ d.qty > 0 THEN d.qty ELSE 0
          /\ sell1 = sell + IF d.action = "SELL" /\ d.price # None /\ d.qty > 0 THEN d.qty ELSE 0
          /\ buy \in Int /\ sell \in Int
          /\ Held(lots, s) = Held(StartLots, s) + buy - sell
      BY <2>4, <2>5, <2>6
    <3> HIDE DEF buy, sell, buy1, sell1
    <3> QED BY <2>3, <2>7, <2>8, <3>1 DEF buy1, sell1
  <2> QED BY <2>3, <2>5, <2>9
<1> QED BY <1>1, <1>2, <1>4, <1>5, <1>6, <1>9, <1>10, EndKeeps DEF Step
-----------------------------------------------------------------------------
(* The theorems *)

LEMMA LInvNext == LInv /\ [Next]_vars => LInv'
<1> SUFFICES ASSUME LInv, [Next]_vars PROVE LInv'
  OBVIOUS
<1>1. ASSUME NEW c \in Cycles, Step(c) PROVE LInv'
  BY <1>1, StartKeeps, DecideKeeps, PriceKeeps, SkipTradeKeeps, BuyLotKeeps,
     StartSellKeeps, SellFromNextKeeps, EndSellKeeps, CommitKeeps, AbortKeeps DEF Step
<1>2. CASE UNCHANGED vars
  <2>1. /\ lots' = lots /\ snapshots' = snapshots /\ decisions' = decisions /\ nextId' = nextId
        /\ clock' = clock /\ pc' = pc /\ startedAt' = startedAt /\ todo' = todo /\ market' = market
        /\ ruling' = ruling /\ price' = price /\ plan' = plan /\ remaining' = remaining
        /\ tx' = tx /\ overlapped' = overlapped
    BY <1>2 DEF vars, shared, local
  <2>2. \A c \in Cycles : Untouched(c) /\ LotsSeen(c)' = LotsSeen(c)
    BY <2>1 DEF Untouched, LotsSeen
  <2>3. LTypes' /\ LCommitted' /\ LotsStay
    BY <2>1 DEF LInv, LTypes, RowsOK, Shape, LCommitted, WholeCycles, LotsStay
  <2>4. SameLot' /\ AgesDiffer' /\ LClock'
    <3>1. Versions' = Versions
      BY <2>1 DEF Versions
    <3> QED BY <2>1, <3>1 DEF LInv, SameLot, AgesDiffer, LClock
  <2>5. ASSUME NEW c \in Cycles PROVE CycleInv(c)'
    <3>1. TodoOf(c)' /\ WholeOf(c)' /\ PlanOf(c)' /\ LockedOf(c)'
      BY <2>2, <2>3, OthersKept DEF LInv
    <3>2. AgesOf(c)'
      BY <2>1 DEF LInv, CycleInv, AgesOf, Finished, Pos
    <3> QED BY <3>1, <3>2 DEF CycleInv
  <2>6. LCap'
    <3>1. PositionWithinCap => PositionWithinCap'
      BY <2>1 DEF PositionWithinCap, Traded
    <3>2. \A c \in Cycles : Balanced(c) => Balanced(c)'
      BY <2>1, <2>2 DEF Balanced, Symbol, Moved
    <3>3. Running' = Running /\ Running \subseteq Cycles
      BY <2>1 DEF Running
    <3> QED BY <2>1, <3>1, <3>2, <3>3 DEF LInv, LCap
  <2> QED BY <2>3, <2>4, <2>5, <2>6 DEF LInv
<1> QED BY <1>1, <1>2 DEF Next, Step

\* The invariant of every reachable state.
THEOREM CyclesInvariant == Spec => []LInv
<1>1. LInv /\ [Next]_vars => LInv'
  BY LInvNext
<1> QED BY LInvInit, <1>1, PTL DEF Spec

\* Every row of outcomes, committed or pending, satisfies the constraints of its
\* table: no lot of zero shares, whatever a sale splits off.
THEOREM CycleRowsTyped == Spec => []TypeOK
<1>1. LInv => TypeOK
  BY DEF LInv, LTypes, RowsOK, TypeOK
<1> QED BY CyclesInvariant, <1>1, PTL

\* run_decision_cycle is one transaction: a cycle leaves a decision for every
\* active symbol, or none.
THEOREM CyclesAreWhole == Spec => []WholeCycles
<1>1. LInv => WholeCycles
  BY DEF LInv, LCommitted
<1> QED BY CyclesInvariant, <1>1, PTL

\* Locks are taken by symbol and then by age, in every cycle the same way: no two
\* cycles wait for each other's rows.
THEOREM LocksAreOrdered == Spec => []NoCircularWait
<1>1. ASSUME LInv, NEW c \in Cycles, NEW d \in Cycles, WaitsFor(c, d)
      PROVE  /\ todo[c] # <<>>
             /\ \/ Finished(d, Symbol(c))
                \/ /\ pc[d] = "selling" /\ Symbol(d) = Symbol(c)
                   /\ plan[d] # <<>> =>
                        lots[Head(plan[c]).id].opened < lots[Head(plan[d]).id].opened
  <2> DEFINE id == Head(plan[c]).id
  <2>1. pc[c] = "selling" /\ plan[c] # <<>> /\ id \in DOMAIN tx[d].lots
    BY <1>1 DEF WaitsFor
  <2>2. id \in DOMAIN lots /\ lots[id].symbol = Symbol(c)
    BY <1>1, <2>1, LotAtHand
  <2>3. tx[d].lots[id].symbol = Symbol(c) /\ tx[d].lots[id].opened = lots[id].opened
    BY <1>1, <2>1, <2>2 DEF LInv, SameLot, Versions
  <2>4. pc[d] = "selling" /\ plan[d] # <<>> => 1 \in DOMAIN plan[d] /\ Head(plan[d]) = plan[d][1]
    BY <1>1, LotAtHand
  <2>5. LockedOf(d) /\ todo[c] # <<>>
    BY <1>1, <2>1 DEF LInv, CycleInv, TodoOf
  <2> HIDE DEF id
  <2> QED BY <2>1, <2>3, <2>4, <2>5 DEF LockedOf, id
<1>2. ASSUME LInv, NEW c \in Cycles, NEW d \in Cycles, Finished(d, Symbol(c)),
             todo[c] # <<>>, todo[d] # <<>>
      PROVE  Pos(c) < Pos(d)
  <2>1. /\ Pos(c) \in Nat /\ Pos(c) + 1 \in 1..Len(SymbolSeq) /\ Symbol(c) = SymbolSeq[Pos(c) + 1]
        /\ Pos(d) \in Nat /\ Pos(d) + 1 \in 1..Len(SymbolSeq)
    BY <1>2, SymbolAtHand
  <2>2. PICK p \in 1..Pos(d) : Symbol(c) = SymbolSeq[p]
    BY <1>2 DEF Finished
  <2>3. Len(SymbolSeq) \in Nat /\ DOMAIN SymbolSeq = 1..Len(SymbolSeq)
    BY CycleConstants
  <2>4. p \in DOMAIN SymbolSeq /\ Pos(c) + 1 \in DOMAIN SymbolSeq
    BY <2>1, <2>2, <2>3
  <2>5. p = Pos(c) + 1
    BY <2>1, <2>2, <2>4, CycleConstants DEF IsInjective
  <2> QED BY <2>1, <2>2, <2>5
<1>3. ASSUME LInv, NEW c \in Cycles, NEW d \in Cycles, c # d, WaitsFor(c, d), WaitsFor(d, c)
      PROVE  FALSE
  <2>1. /\ todo[c] # <<>> /\ todo[d] # <<>> /\ plan[c] # <<>> /\ plan[d] # <<>>
        /\ pc[c] = "selling" /\ pc[d] = "selling"
    BY <1>1, <1>3 DEF WaitsFor
  <2>2. /\ Pos(c) \in Nat /\ Pos(d) \in Nat
        /\ ~Finished(c, Symbol(c)) /\ ~Finished(d, Symbol(d))
    BY <1>3, <2>1, SymbolAtHand
  <2>3. CASE Finished(d, Symbol(c))
    <3>1. Finished(c, Symbol(d))
      BY <1>1, <1>3, <2>2, <2>3
    <3>2. Pos(c) < Pos(d) /\ Pos(d) < Pos(c)
      BY <1>2, <1>3, <2>1, <2>3, <3>1
    <3> QED BY <2>2, <3>2
  <2>4. CASE ~Finished(d, Symbol(c))
    <3> DEFINE a == lots[Head(plan[c]).id].opened
               b == lots[Head(plan[d]).id].opened
    <3>1. a < b /\ b < a
      BY <1>1, <1>3, <2>1, <2>2, <2>4
    <3>2. a \in Int /\ b \in Int
      BY <1>3, <2>1, LotAtHand DEF LotRow
    <3> QED BY <3>1, <3>2
  <2> QED BY <2>3, <2>4
<1>4. LInv => NoCircularWait
  BY <1>3 DEF NoCircularWait
<1> QED BY CyclesInvariant, <1>4, PTL

\* "Hard 20 shares, enforced by the Risk Manager": as long as cycles follow one
\* another, and whichever of them are rolled back, what is held of a symbol keeps
\* the cap, is never short, and is what the committed decisions bought and sold.
THEOREM CyclesKeepCap == Spec => []PositionWithinCap
<1>1. LInv => PositionWithinCap
  BY DEF LInv, LCap, PositionWithinCap
<1> QED BY CyclesInvariant, <1>1, PTL

-----------------------------------------------------------------------------
(* The connections that cycles and other requests borrow *)

\* The connections that a request's code has borrowed at each stage.
Borrowed(s) ==
  IF s = "reading" THEN 2 ELSE IF s \in {"holding", "queued2"} THEN 1 ELSE 0

Queued == {"queued", "queued2"}

\* A request owns what its stage says, and may have two only in a cycle.
RequestInv ==
  /\ stage \in [Requests -> Ended \cup Queued \cup {"new", "holding", "reading"}]
  /\ left \in [Requests -> 0..NReads]
  /\ owned \in [Requests -> 0..2]
  /\ \A r \in Requests : owned[r] = Borrowed(stage[r])
  /\ \A r \in Requests : stage[r] \in {"queued2", "reading"} => r \in Triggers /\ left[r] > 0

\* No one is in q twice.
Once(q) == \A i, j \in 1..Len(q) : q[i] = q[j] => i = j

\* q holds, once each, those at a stage of Queued.
Lists(q, at) ==
  /\ q \in Seq(Requests) /\ Once(q)
  /\ \A r \in Requests : (\E i \in 1..Len(q) : q[i] = r) <=> at[r] \in Queued

\* Every connection is free or owned by the request whose code borrowed it.
PoolInv ==
  /\ RequestInv
  /\ Lists(waiting, stage)
  /\ free \in Nat
  /\ free + SumFunctionOnSet(owned, Requests) = PoolSize

\* What the invariant says of types and of leaks.
LEMMA PoolInvTyped ==
  ASSUME PoolInv
  PROVE  PoolTypeOK /\ NoneLeaks
<1>1. IsFiniteSet(Requests) /\ PoolSize \in Nat
  BY FS_Union, PoolConstants DEF Requests
<1>2. SumFunctionOnSet(owned, Requests) \in Nat
  <2>1. \A r \in Requests : owned[r] \in Nat
    BY DEF PoolInv, RequestInv
  <2> QED BY <2>1, <1>1, SumOfNats
<1>3. free \in 0..PoolSize
  BY <1>1, <1>2 DEF PoolInv
<1>4. /\ IsInjective(waiting)
      /\ ToSet(waiting) = {r \in Requests : stage[r] \in Queued}
  <2>1. waiting \in Seq(Requests)
    BY DEF PoolInv, Lists
  <2>2. IsInjective(waiting)
    BY <2>1 DEF PoolInv, Lists, Once, IsInjective
  <2>3. ToSet(waiting) = {r \in Requests : stage[r] \in Queued}
    BY <2>1 DEF PoolInv, Lists, ToSet
  <2> QED BY <2>2, <2>3
<1>5. PoolTypeOK
  BY <1>1, <1>3, <1>4 DEF PoolTypeOK, PoolInv, RequestInv, Queued
<1>6. NoneLeaks
  BY <1>1 DEF NoneLeaks, PoolInv, RequestInv, Borrowed, Ended
<1> QED BY <1>5, <1>6

\* Nothing is borrowed before the first request.
LEMMA PoolInvInit ==
  ASSUME PoolInit
  PROVE  PoolInv
<1>1. IsFiniteSet(Requests) /\ PoolSize \in Nat /\ NReads \in Nat
  BY FS_Union, PoolConstants DEF Requests
<1>2. RequestInv
  BY <1>1 DEF PoolInit, RequestInv, Queued, Borrowed, Ended
<1>3. Lists(waiting, stage)
  BY <1>1 DEF PoolInit, Lists, Once, Queued
<1>4. SumFunctionOnSet(owned, Requests) = 0
  <2> DEFINE B == {U \in SUBSET Requests : SumFunctionOnSet(owned, U) # 0}
  <2>1. SUFFICES ASSUME B # {} PROVE FALSE
    OBVIOUS
  <2>2. B \subseteq SUBSET Requests
    OBVIOUS
  <2> HIDE DEF B
  <2>3. PICK T \in B : \A U \in B : U \subseteq T => U = T
    BY <1>1, <2>1, <2>2, LeastSubset
  <2> USE DEF B
  <2>4. T # {}
    BY SumOfNone
  <2>5. PICK e \in T : TRUE
    BY <2>4
  <2>6. IsFiniteSet(T) /\ \A x \in T : owned[x] = 0
    BY <1>1, FS_Subset DEF PoolInit
  <2>7. SumFunctionOnSet(owned, T) = owned[e] + SumFunctionOnSet(owned, T \ {e})
    BY <2>6, SumWithout
  <2>8. SumFunctionOnSet(owned, T \ {e}) = 0
    BY <2>3
  <2> QED BY <2>6, <2>7, <2>8
<1> QED BY <1>1, <1>2, <1>3, <1>4, PoolConstants DEF PoolInv, PoolInit

\* The first k of a queue are k.
LEMMA HeadCount ==
  ASSUME NEW q \in Seq(Requests), Once(q), NEW k \in 0..Len(q)
  PROVE  Cardinality({q[i] : i \in 1..k}) = k
<1> DEFINE T == {q[i] : i \in 1..k}
           f == [i \in 1..k |-> q[i]]
<1>1. f \in Bijection(1..k, T)
  <2>1. f \in [1..k -> T] /\ \A x \in T : \E i \in 1..k : f[i] = x
    OBVIOUS
  <2>2. \A i, j \in 1..k : f[i] = f[j] => i = j
    BY DEF Once
  <2>3. DOMAIN f = 1..k
    OBVIOUS
  <2> HIDE DEF f, T
  <2> QED BY <2>1, <2>2, <2>3, Zenon DEF Bijection, Injection, Surjection, IsInjective
<1>2. IsFiniteSet(1..k) /\ Cardinality(1..k) = k
  BY FS_Interval
<1>3. ExistsBijection(1..k, T)
  BY <1>1 DEF ExistsBijection
<1> QED BY <1>2, <1>3, FS_Bijection

\* The others stay in the queue, in their order.
LEMMA RestOfQueue ==
  ASSUME NEW q \in Seq(Requests), Once(q), NEW k \in 0..Len(q)
  PROVE  LET rest == SubSeq(q, k + 1, Len(q))
         IN  /\ rest \in Seq(Requests) /\ Once(rest)
             /\ \A r \in Requests : (\E i \in 1..Len(rest) : rest[i] = r) <=>
                                      /\ \E i \in 1..Len(q) : q[i] = r
                                      /\ r \notin {q[i] : i \in 1..k}
<1> DEFINE rest == SubSeq(q, k + 1, Len(q))
<1>1. /\ rest \in Seq(Requests) /\ Len(rest) = Len(q) - k
      /\ \A i \in 1..(Len(q) - k) : rest[i] = q[k + i]
  <2>1. \A i \in (k + 1)..Len(q) : q[i] \in Requests
    OBVIOUS
  <2>2. PICK m \in Nat : m = Len(q)
    OBVIOUS
  <2>3. /\ rest \in Seq(Requests)
        /\ Len(rest) = IF k + 1 <= m THEN m - (k + 1) + 1 ELSE 0
        /\ \A i \in 1..(m - (k + 1) + 1) : rest[i] = q[(k + 1) + i - 1]
    BY <2>1, <2>2, SubSeqProperties
  <2>4. m - (k + 1) + 1 = m - k /\ Len(rest) = m - k
    BY <2>2, <2>3
  <2>5. \A i \in Int : (k + 1) + i - 1 = k + i
    OBVIOUS
  <2> QED BY <2>2, <2>3, <2>4, <2>5
<1> HIDE DEF rest
<1>2. Once(rest)
  <2> SUFFICES ASSUME NEW i \in 1..Len(rest), NEW j \in 1..Len(rest), rest[i] = rest[j] PROVE i = j
    BY DEF Once
  <2>1. q[k + i] = q[k + j] /\ k + i \in 1..Len(q) /\ k + j \in 1..Len(q)
    BY <1>1
  <2>2. k + i = k + j
    BY <2>1 DEF Once
  <2> QED BY <2>2
<1>3. ASSUME NEW r \in Requests, NEW i \in 1..Len(rest), rest[i] = r
      PROVE  (\E j \in 1..Len(q) : q[j] = r) /\ r \notin {q[j] : j \in 1..k}
  <2>1. q[k + i] = r /\ k + i \in 1..Len(q)
    BY <1>1, <1>3
  <2> QED BY <2>1 DEF Once
<1>4. ASSUME NEW r \in Requests, NEW j \in 1..Len(q), q[j] = r, r \notin {q[i] : i \in 1..k}
      PROVE  \E i \in 1..Len(rest) : rest[i] = r
  <2>1. j > k
    BY <1>4
  <2>2. j - k \in 1..Len(rest) /\ k + (j - k) = j
    BY <1>1, <2>1
  <2> QED BY <1>1, <1>4, <2>2
<1> QED BY <1>1, <1>2, <1>3, <1>4 DEF rest

\* The queue q after r has left it.
IsWithout(rest, q, r) ==
  /\ rest \in Seq(Requests) /\ Once(rest)
  /\ \A x \in Requests : (\E i \in 1..Len(rest) : rest[i] = x) <=>
                           (\E i \in 1..Len(q) : q[i] = x) /\ x # r

\* Who gives up leaves the others waiting.
LEMMA WithoutOne ==
  ASSUME NEW q \in Seq(Requests), Once(q), NEW r, \E k \in 1..Len(q) : q[k] = r
  PROVE  IsWithout(RemoveFirst(q, r), q, r)
<1>0. PICK k \in 1..Len(q) : q[k] = r
  OBVIOUS
<1> DEFINE rest == RemoveFirst(q, r)
           a == SubSeq(q, 1, k - 1)
           b == SubSeq(q, k + 1, Len(q))
<1>1. rest = a \o b
  <2>1. {i \in 1..Len(q) : q[i] = r} = {k}
    BY <1>0 DEF Once
  <2>2. Min({k}) = k
    BY DEF Min
  <2>3. SelectInSeq(q, LAMBDA v : v = r) = k
    BY <2>1, <2>2 DEF SelectInSeq
  <2> QED BY <2>3 DEF RemoveFirst, RemoveAt
<1>2. /\ a \in Seq(Requests) /\ Len(a) = k - 1
      /\ \A i \in 1..(k - 1) : a[i] = q[i]
  <2>1. PICK m \in Nat : m = k - 1
    OBVIOUS
  <2>2. SubSeq(q, 1, m) \in Seq(Requests)
    BY <2>1, SubSeqProperties
  <2>3. Len(SubSeq(q, 1, m)) = IF 1 <= m THEN m - 1 + 1 ELSE 0
    BY <2>1, SubSeqProperties
  <2>4. \A i \in 1..(m - 1 + 1) : SubSeq(q, 1, m)[i] = q[1 + i - 1]
    BY <2>1, SubSeqProperties
  <2>5. m - 1 + 1 = m /\ \A i \in Int : 1 + i - 1 = i
    OBVIOUS
  <2> QED BY <2>1, <2>2, <2>3, <2>4, <2>5
<1>3. /\ b \in Seq(Requests) /\ Once(b)
      /\ \A x \in Requests : (\E i \in 1..Len(b) : b[i] = x) <=>
                               /\ \E i \in 1..Len(q) : q[i] = x
                               /\ x \notin {q[i] : i \in 1..k}
  <2>1. k \in 0..Len(q)
    OBVIOUS
  <2> QED BY <2>1, RestOfQueue
<1> HIDE DEF a, b
<1>4. /\ a \o b \in Seq(Requests) /\ Len(a \o b) = Len(a) + Len(b)
      /\ \A i \in 1..Len(a) : (a \o b)[i] = a[i]
      /\ \A i \in 1..Len(b) : (a \o b)[Len(a) + i] = b[i]
      /\ \A i \in 1..Len(a \o b) : i <= Len(a) \/ i - Len(a) \in 1..Len(b)
  <2>1. a \in Seq(Requests) /\ b \in Seq(Requests)
    BY <1>2, <1>3
  <2>2. PICK m \in Nat, n \in Nat : m = Len(a) /\ n = Len(b)
    BY <2>1
  <2>3. /\ a \o b \in Seq(Requests) /\ Len(a \o b) = m + n
        /\ \A i \in 1..(m + n) : (a \o b)[i] = IF i <= m THEN a[i] ELSE b[i - m]
    BY <2>1, <2>2
  <2>4. \A i \in 1..m : (a \o b)[i] = a[i]
    BY <2>3
  <2>5. \A i \in 1..n : m + i \in 1..(m + n) /\ ~(m + i <= m) /\ m + i - m = i
    OBVIOUS
  <2>6. \A i \in 1..n : (a \o b)[m + i] = b[i]
    BY <2>3, <2>5
  <2> QED BY <2>2, <2>3, <2>4, <2>6
<1>5. \A x \in Requests : (\E i \in 1..Len(a \o b) : (a \o b)[i] = x) <=>
                            (\E i \in 1..Len(q) : q[i] = x) /\ x # r
  <2>1. ASSUME NEW x \in Requests, NEW i \in 1..Len(a \o b), (a \o b)[i] = x
        PROVE  (\E j \in 1..Len(q) : q[j] = x) /\ x # r
    <3>1. CASE i <= Len(a)
      <4>1. i \in 1..Len(a) /\ i \in 1..(k - 1)
        BY <1>2, <3>1
      <4>2. (a \o b)[i] = a[i] /\ a[i] = q[i]
        BY <1>2, <1>4, <4>1
      <4>3. q[i] = x /\ i \in 1..Len(q) /\ i # k
        BY <2>1, <4>1, <4>2
      <4>4. q[i] # q[k]
        BY <4>3 DEF Once
      <4> QED BY <1>0, <4>3, <4>4
    <3>2. CASE i - Len(a) \in 1..Len(b)
      <4>1. PICK j \in 1..Len(b) : j = i - Len(a)
        BY <3>2
      <4>2. Len(a) + j = i
        BY <1>2, <4>1
      <4>3. b[j] = x
        BY <1>4, <2>1, <4>2
      <4> QED BY <1>0, <1>3, <4>3
    <3> QED BY <1>4, <3>1, <3>2
  <2>2. ASSUME NEW x \in Requests, NEW j \in 1..Len(q), q[j] = x, x # r
        PROVE  \E i \in 1..Len(a \o b) : (a \o b)[i] = x
    <3>1. CASE j < k
      <4>1. j \in 1..(k - 1) /\ j \in 1..Len(a) /\ j \in 1..Len(a \o b)
        BY <1>2, <1>3, <1>4, <3>1
      <4>2. (a \o b)[j] = x
        BY <1>2, <1>4, <2>2, <4>1
      <4> QED BY <4>1, <4>2
    <3>2. CASE j > k
      <4>1. x \notin {q[i] : i \in 1..k}
        BY <1>0, <2>2, <3>2 DEF Once
      <4>2. PICK i \in 1..Len(b) : b[i] = x
        BY <1>3, <2>2, <4>1
      <4>3. Len(a) + i \in 1..Len(a \o b)
        BY <1>2, <1>4, <4>2
      <4> QED BY <1>4, <4>2, <4>3
    <3> QED BY <1>0, <2>2, <3>1, <3>2
  <2> QED BY <2>1, <2>2
<1>6. Once(a \o b)
  <2> SUFFICES ASSUME NEW i \in 1..Len(a \o b), NEW j \in 1..Len(a \o b),
                      (a \o b)[i] = (a \o b)[j], i <= j
               PROVE  i = j
    BY DEF Once
  <2>1. CASE j <= Len(a)
    <3>1. q[i] = q[j] /\ i \in 1..Len(q) /\ j \in 1..Len(q)
      BY <1>2, <1>4, <2>1
    <3> QED BY <3>1 DEF Once
  <2>2. CASE i <= Len(a) /\ j > Len(a)
    <3>0. j - Len(a) \in 1..Len(b) /\ Len(a) + (j - Len(a)) = j
      BY <1>2, <1>4, <2>2
    <3>1. PICK n \in 1..Len(b) : Len(a) + n = j
      BY <3>0
    <3>2. i \in 1..(k - 1) /\ i \in 1..Len(a) /\ i \in 1..k
      BY <1>2, <2>2
    <3>3. (a \o b)[i] = q[i] /\ (a \o b)[j] = b[n] /\ q[i] = b[n]
      BY <1>2, <1>4, <3>1, <3>2
    <3>4. b[n] \in Requests
      BY <1>3, <3>1
    <3>5. q[i] \notin {q[h] : h \in 1..k}
      BY <1>3, <3>1, <3>3, <3>4
    <3> QED BY <3>2, <3>5
  <2>3. CASE i > Len(a)
    <3>0. /\ i - Len(a) \in 1..Len(b) /\ Len(a) + (i - Len(a)) = i
          /\ j - Len(a) \in 1..Len(b) /\ Len(a) + (j - Len(a)) = j
      BY <1>2, <1>4, <2>3
    <3>1. PICK n \in 1..Len(b) : Len(a) + n = i
      BY <3>0
    <3>2. PICK m \in 1..Len(b) : Len(a) + m = j
      BY <3>0
    <3>3. b[n] = b[m]
      BY <1>4, <3>1, <3>2
    <3>4. n = m
      BY <1>3, <3>3 DEF Once
    <3> QED BY <3>1, <3>2, <3>4
  <2> QED BY <1>2, <2>1, <2>2, <2>3
<1> QED BY <1>1, <1>4, <1>5, <1>6 DEF IsWithout

\* A request that gives back what it owns above what its new stage needs.
GivesBack(r, n, queue, s) ==
  /\ s \in Ended \cup {"holding"}
  /\ n \in Nat /\ owned[r] = Borrowed(s) + n
  /\ queue \in Seq(Requests) /\ Once(queue)
  /\ \A x \in Requests : (\E i \in 1..Len(queue) : queue[i] = x) <=> x # r /\ stage[x] \in Queued

\* Only r may have made one of its reads.
OthersReads(r) ==
  /\ left' \in [Requests -> 0..NReads]
  /\ \A x \in Requests : x # r => left'[x] = left[x]

\* Connections that are given back go to the head of the queue, or are free.
LEMMA HandOverKeeps ==
  ASSUME PoolInv, NEW r \in Requests, NEW n, NEW queue, NEW s,
         GivesBack(r, n, queue, s), OthersReads(r), HandOver(r, n, queue, s)
  PROVE  PoolInv'
<1>1. IsFiniteSet(Requests) /\ PoolSize \in Nat
  BY FS_Union, PoolConstants DEF Requests
<1>2. /\ n \in Nat /\ queue \in Seq(Requests) /\ Once(queue)
      /\ s \in Ended \cup {"holding"} /\ owned[r] = Borrowed(s) + n
      /\ \A x \in Requests : (\E i \in 1..Len(queue) : queue[i] = x) <=> x # r /\ stage[x] \in Queued
  BY DEF GivesBack
<1>3. PICK given \in Nat : given = Min({n, Len(queue)}) /\ given <= n /\ given \in 0..Len(queue)
  <2>1. PICK m \in Nat : m = Len(queue)
    BY <1>2
  <2>2. Min({n, m}) = IF n <= m THEN n ELSE m
    BY <1>2 DEF Min
  <2> QED BY <1>2, <2>1, <2>2
<1> DEFINE lucky == {queue[i] : i \in 1..given}
           rest == SubSeq(queue, given + 1, Len(queue))
<1>4. /\ \A q \in Requests : owned'[q] = owned[q] + (IF q \in lucky THEN 1 ELSE 0)
                                                  - (IF q = r THEN n ELSE 0)
      /\ DOMAIN owned' = Requests
      /\ \A q \in Requests : stage'[q] = IF q = r THEN s
                                         ELSE IF q \in lucky THEN Served(q) ELSE stage[q]
      /\ stage' = [q \in Requests |-> stage'[q]] /\ owned' = [q \in Requests |-> owned'[q]]
      /\ waiting' = rest
      /\ free' = free + n - given
  BY <1>1, <1>3 DEF HandOver
<1>5. /\ rest \in Seq(Requests) /\ Once(rest)
      /\ \A x \in Requests : (\E i \in 1..Len(rest) : rest[i] = x) <=>
                                /\ \E i \in 1..Len(queue) : queue[i] = x
                                /\ x \notin lucky
  <2>1. given \in 0..Len(queue) /\ queue \in Seq(Requests) /\ Once(queue)
    BY <1>2, <1>3
  <2> QED BY <2>1, RestOfQueue
<1>6. /\ lucky \subseteq Requests /\ Cardinality(lucky) = given
      /\ \A x \in lucky : \E i \in 1..Len(queue) : queue[i] = x
  <2>1. given \in 0..Len(queue) /\ queue \in Seq(Requests) /\ Once(queue)
    BY <1>2, <1>3
  <2>2. Cardinality(lucky) = given
    BY <2>1, HeadCount
  <2>3. \A i \in 1..given : i \in 1..Len(queue) /\ queue[i] \in Requests
    BY <2>1
  <2> QED BY <2>2, <2>3
<1>7. \A x \in lucky : x \in Requests /\ x # r /\ stage[x] \in Queued
  <2>1. \A x \in lucky : \E i \in 1..Len(queue) : queue[i] = x
    BY <1>6
  <2> QED BY <1>2, <1>6, <2>1
<1> HIDE DEF lucky, rest
<1>8. \A x \in Requests : /\ owned[x] \in 0..2 /\ owned[x] = Borrowed(stage[x])
                          /\ stage[x] \in {"queued2", "reading"} => x \in Triggers /\ left[x] > 0
                          /\ stage[x] \in Ended \cup Queued \cup {"new", "holding", "reading"}
  BY DEF PoolInv, RequestInv
<1>9. \A x \in Requests :
        /\ stage'[x] \in Ended \cup Queued \cup {"new", "holding", "reading"}
        /\ owned'[x] \in 0..2 /\ owned'[x] = Borrowed(stage'[x])
        /\ stage'[x] \in {"queued2", "reading"} => x \in Triggers /\ left'[x] > 0
        /\ stage'[x] \in Queued <=> x # r /\ stage[x] \in Queued /\ x \notin lucky
  <2> SUFFICES ASSUME NEW x \in Requests
               PROVE  /\ stage'[x] \in Ended \cup Queued \cup {"new", "holding", "reading"}
                      /\ owned'[x] \in 0..2 /\ owned'[x] = Borrowed(stage'[x])
                      /\ stage'[x] \in {"queued2", "reading"} => x \in Triggers /\ left'[x] > 0
                      /\ stage'[x] \in Queued <=> x # r /\ stage[x] \in Queued /\ x \notin lucky
    OBVIOUS
  <2>1. CASE x = r
    <3>1. x \notin lucky
      BY <1>7, <2>1
    <3>2. stage'[x] = s /\ owned'[x] = owned[x] - n
      BY <1>2, <1>4, <1>8, <2>1, <3>1
    <3> QED BY <1>2, <1>8, <2>1, <3>2 DEF Borrowed, Queued, Ended
  <2>2. CASE x # r /\ x \in lucky
    <3>1. stage[x] \in Queued /\ stage'[x] = Served(x) /\ owned'[x] = owned[x] + 1
      BY <1>4, <1>7, <1>8, <2>2
    <3>2. left'[x] = left[x]
      BY <2>2 DEF OthersReads
    <3> QED BY <1>8, <2>2, <3>1, <3>2 DEF Borrowed, Queued, Served, Ended
  <2>3. CASE x # r /\ x \notin lucky
    <3>1. stage'[x] = stage[x] /\ owned'[x] = owned[x]
      BY <1>4, <1>8, <2>3
    <3>2. left'[x] = left[x]
      BY <2>3 DEF OthersReads
    <3> QED BY <1>8, <2>3, <3>1, <3>2
  <2> QED BY <2>1, <2>2, <2>3
<1>10. RequestInv'
  <2>1. stage' \in [Requests -> Ended \cup Queued \cup {"new", "holding", "reading"}]
    BY <1>4, <1>9
  <2>2. owned' \in [Requests -> 0..2]
    BY <1>4, <1>9
  <2> QED BY <1>9, <2>1, <2>2 DEF RequestInv, OthersReads, Requests, Queued, Ended, Borrowed
<1>11. Lists(waiting, stage)'
  <2>1. \A x \in Requests : (\E i \in 1..Len(rest) : rest[i] = x) <=> stage'[x] \in Queued
    <3> SUFFICES ASSUME NEW x \in Requests
                 PROVE  (\E i \in 1..Len(rest) : rest[i] = x) <=> stage'[x] \in Queued
      OBVIOUS
    <3>1. (\E i \in 1..Len(queue) : queue[i] = x) <=> x # r /\ stage[x] \in Queued
      BY <1>2
    <3>2. stage'[x] \in Queued <=> x # r /\ stage[x] \in Queued /\ x \notin lucky
      BY <1>9
    <3>3. (\E i \in 1..Len(rest) : rest[i] = x) <=>
            (\E i \in 1..Len(queue) : queue[i] = x) /\ x \notin lucky
      BY <1>5
    <3> QED BY <3>1, <3>2, <3>3
  <2>2. rest \in Seq(Requests) /\ Once(rest) /\ waiting' = rest
    BY <1>4, <1>5
  <2> QED BY <2>1, <2>2 DEF Lists, Requests, Once, Queued
<1>12. SumFunctionOnSet(owned', Requests) = SumFunctionOnSet(owned, Requests) + given - n
  <2> DEFINE h == [x \in Requests |-> owned[x] + (IF x \in lucky THEN 1 ELSE 0)]
  <2>1. \A x \in Requests : owned[x] \in Int /\ h[x] = owned[x] + (IF x \in lucky THEN 1 ELSE 0)
    BY <1>8
  <2> HIDE DEF h
  <2>2. \A x \in Requests : h[x] \in Int /\ owned'[x] = h[x] - (IF x = r THEN n ELSE 0)
    <3> SUFFICES ASSUME NEW x \in Requests
                 PROVE  h[x] \in Int /\ owned'[x] = h[x] - (IF x = r THEN n ELSE 0)
      OBVIOUS
    <3>0. n \in Int
      BY <1>2
    <3>1. owned'[x] = owned[x] + (IF x \in lucky THEN 1 ELSE 0) - (IF x = r THEN n ELSE 0)
      BY <1>4
    <3>2. h[x] = owned[x] + (IF x \in lucky THEN 1 ELSE 0) /\ owned[x] \in Int
      BY <2>1
    <3>3. CASE x \in lucky
      BY <3>0, <3>1, <3>2, <3>3
    <3>4. CASE x \notin lucky
      BY <3>0, <3>1, <3>2, <3>4
    <3> QED BY <3>3, <3>4
  <2>3. SumFunctionOnSet(h, Requests) = SumFunctionOnSet(owned, Requests) + given
    BY <1>1, <1>6, <2>1, SumGiven
  <2>4. n \in Int /\ SumFunctionOnSet(h, Requests) \in Int
    BY <1>1, <1>2, <2>2, SumType
  <2>5. SumFunctionOnSet(owned', Requests) = SumFunctionOnSet(h, Requests) - n
    BY <1>1, <2>2, <2>4, SumTaken
  <2>6. SumFunctionOnSet(owned, Requests) \in Int
    BY <1>1, <2>1, SumType
  <2> QED BY <1>2, <2>3, <2>5, <2>6
<1>13. SumFunctionOnSet(owned, Requests) \in Int /\ free \in Nat
       /\ free + SumFunctionOnSet(owned, Requests) = PoolSize
  BY <1>1, <1>8, SumType DEF PoolInv
<1>14. free' \in Nat /\ free' + SumFunctionOnSet(owned', Requests) = PoolSize
  BY <1>1, <1>2, <1>3, <1>4, <1>12, <1>13
<1> QED BY <1>10, <1>11, <1>14 DEF PoolInv, Requests

\* A connection that is asked for comes from the free ones, or is waited for.
LEMMA GetConnKeeps ==
  ASSUME PoolInv, NEW r \in Requests, NEW given, NEW queued,
         stage[r] \notin Queued, given \in {"holding", "reading"}, queued \in Queued,
         Borrowed(given) = owned[r] + 1, Borrowed(queued) = owned[r],
         {given, queued} \cap {"queued2", "reading"} # {} => r \in Triggers /\ left[r] > 0,
         GetConn(r, given, queued), UNCHANGED left
  PROVE  PoolInv'
<1>1. IsFiniteSet(Requests) /\ PoolSize \in Nat
  BY FS_Union, PoolConstants DEF Requests
<1>2. /\ stage \in [Requests -> Ended \cup Queued \cup {"new", "holding", "reading"}]
      /\ owned \in [Requests -> 0..2] /\ left \in [Requests -> 0..NReads]
      /\ \A x \in Requests : /\ owned[x] = Borrowed(stage[x])
                             /\ stage[x] \in {"queued2", "reading"} => x \in Triggers /\ left[x] > 0
  BY DEF PoolInv, RequestInv
<1>3. /\ waiting \in Seq(Requests) /\ Once(waiting)
      /\ \A x \in Requests : (\E i \in 1..Len(waiting) : waiting[i] = x) <=> stage[x] \in Queued
      /\ free \in Nat /\ free + SumFunctionOnSet(owned, Requests) = PoolSize
      /\ SumFunctionOnSet(owned, Requests) \in Int
  <2>1. \A x \in Requests : owned[x] \in Int
    BY <1>2
  <2> QED BY <1>1, <2>1, SumType DEF PoolInv, Lists
<1>4. CASE free > 0
  <2>1. /\ free' = free - 1 /\ waiting' = waiting /\ left' = left
        /\ owned' = [owned EXCEPT ![r] = @ + 1] /\ stage' = [stage EXCEPT ![r] = given]
    BY <1>4 DEF GetConn, To
  <2>2. RequestInv'
    <3>1. stage' \in [Requests -> Ended \cup Queued \cup {"new", "holding", "reading"}]
      BY <1>2, <2>1
    <3>2. \A x \in Requests : /\ owned'[x] \in 0..2 /\ owned'[x] = Borrowed(stage'[x])
                              /\ stage'[x] \in {"queued2", "reading"} => x \in Triggers /\ left'[x] > 0
      <4> SUFFICES ASSUME NEW x \in Requests
                   PROVE  /\ owned'[x] \in 0..2 /\ owned'[x] = Borrowed(stage'[x])
                          /\ stage'[x] \in {"queued2", "reading"} => x \in Triggers /\ left'[x] > 0
        OBVIOUS
      <4>1. CASE x = r
        <5>1. stage'[x] = given /\ owned'[x] = owned[r] + 1 /\ left'[x] = left[r]
          BY <1>2, <2>1, <4>1
        <5>2. Borrowed(given) \in 0..2
          BY DEF Borrowed
        <5> QED BY <4>1, <5>1, <5>2
      <4>2. CASE x # r
        <5>1. stage'[x] = stage[x] /\ owned'[x] = owned[x] /\ left'[x] = left[x]
          BY <1>2, <2>1, <4>2
        <5> QED BY <1>2, <5>1
      <4> QED BY <4>1, <4>2
    <3>3. owned' \in [Requests -> 0..2]
      BY <1>2, <2>1, <3>2
    <3> QED BY <1>2, <2>1, <3>1, <3>2, <3>3 DEF RequestInv, Requests, Queued, Ended, Borrowed
  <2>3. \A x \in Requests : stage'[x] \in Queued <=> stage[x] \in Queued
    BY <1>2, <2>1 DEF Queued
  <2>4. Lists(waiting, stage)'
    BY <1>3, <2>1, <2>3 DEF Lists, Requests, Once, Queued
  <2>5. SumFunctionOnSet(owned', Requests) = SumFunctionOnSet(owned, Requests) + 1
    <3>1. /\ \A x \in Requests : owned[x] \in Int
          /\ \A x \in Requests : owned'[x] = owned[x] - (IF x = r THEN -1 ELSE 0)
      BY <1>2, <2>1
    <3>2. -1 \in Int
      OBVIOUS
    <3>3. SumFunctionOnSet(owned', Requests) = SumFunctionOnSet(owned, Requests) - (-1)
      BY <1>1, <3>1, <3>2, SumTaken
    <3> QED BY <1>3, <3>3
  <2>6. free' \in Nat /\ free' + SumFunctionOnSet(owned', Requests) = PoolSize
    BY <1>1, <1>3, <1>4, <2>1, <2>5
  <2> QED BY <2>2, <2>4, <2>6 DEF PoolInv, Requests
<1>5. CASE ~(free > 0)
  <2>1. /\ free' = free /\ waiting' = Append(waiting, r) /\ left' = left
        /\ owned' = owned /\ stage' = [stage EXCEPT ![r] = queued]
    BY <1>5 DEF GetConn, To
  <2>2. RequestInv'
    <3>1. stage' \in [Requests -> Ended \cup Queued \cup {"new", "holding", "reading"}]
      BY <1>2, <2>1
    <3>2. \A x \in Requests : /\ owned'[x] = Borrowed(stage'[x])
                              /\ stage'[x] \in {"queued2", "reading"} => x \in Triggers /\ left'[x] > 0
      BY <1>2, <2>1 DEF Borrowed
    <3> QED BY <1>2, <2>1, <3>1, <3>2 DEF RequestInv, Requests, Queued, Ended, Borrowed
  <2>3. \A x \in Requests : stage'[x] \in Queued <=> x = r \/ stage[x] \in Queued
    BY <1>2, <2>1
  <2>4. PICK m \in Nat : m = Len(waiting)
    BY <1>3
  <2>5. /\ waiting' \in Seq(Requests) /\ Len(waiting') = m + 1 /\ waiting'[m + 1] = r
        /\ \A i \in 1..m : waiting'[i] = waiting[i]
    BY <1>3, <2>1, <2>4
  <2>6. \A i \in 1..m : waiting[i] # r
    BY <1>3, <2>4
  <2>7. \A i \in 1..(m + 1) : i \in 1..m \/ i = m + 1
    OBVIOUS
  <2>8. Once(waiting')
    <3> SUFFICES ASSUME NEW i \in 1..(m + 1), NEW j \in 1..(m + 1), waiting'[i] = waiting'[j]
                 PROVE  i = j
      BY <2>5 DEF Once
    <3>1. CASE i \in 1..m /\ j \in 1..m
      <4>1. waiting[i] = waiting[j]
        BY <2>5, <3>1
      <4> QED BY <1>3, <2>4, <3>1, <4>1 DEF Once
    <3>2. CASE i = m + 1 /\ j \in 1..m
      BY <2>5, <2>6, <3>2
    <3>3. CASE j = m + 1 /\ i \in 1..m
      BY <2>5, <2>6, <3>3
    <3> QED BY <2>7, <3>1, <3>2, <3>3
  <2>9. \A x \in Requests : (\E i \in 1..(m + 1) : waiting'[i] = x) <=>
                              x = r \/ \E i \in 1..m : waiting[i] = x
    <3>1. m + 1 \in 1..(m + 1) /\ \A i \in 1..m : i \in 1..(m + 1)
      OBVIOUS
    <3> QED BY <2>5, <2>7, <3>1
  <2>10. Lists(waiting, stage)'
    <3>1. \A x \in Requests : (\E i \in 1..Len(waiting') : waiting'[i] = x) <=> stage'[x] \in Queued
      BY <1>3, <2>3, <2>4, <2>5, <2>9
    <3> QED BY <2>5, <2>8, <3>1 DEF Lists, Requests, Once, Queued
  <2> QED BY <1>3, <2>1, <2>2, <2>10 DEF PoolInv, Requests
<1> QED BY <1>4, <1>5

\* Each step of a request keeps the invariant: a time-out leaves the queue in
\* order, and an error gives back the inner connection with the outer one.
LEMMA PoolInvNext == PoolInv /\ [PoolNext]_poolVars => PoolInv'
<1> SUFFICES ASSUME PoolInv, [PoolNext]_poolVars PROVE PoolInv'
  OBVIOUS
<1>0. /\ stage \in [Requests -> Ended \cup Queued \cup {"new", "holding", "reading"}]
      /\ owned \in [Requests -> 0..2] /\ left \in [Requests -> 0..NReads] /\ NReads \in Nat
      /\ \A x \in Requests : /\ owned[x] = Borrowed(stage[x])
                             /\ stage[x] \in {"queued2", "reading"} => x \in Triggers /\ left[x] > 0
      /\ waiting \in Seq(Requests) /\ Once(waiting)
      /\ \A x \in Requests : (\E i \in 1..Len(waiting) : waiting[i] = x) <=> stage[x] \in Queued
  BY PoolConstants DEF PoolInv, RequestInv, Lists
<1>1. ASSUME NEW r \in Requests, stage[r] \notin Queued
      PROVE  \A x \in Requests : (\E i \in 1..Len(waiting) : waiting[i] = x)
                                   <=> x # r /\ stage[x] \in Queued
  BY <1>0, <1>1
<1>2. ASSUME NEW r \in Requests, Arrive(r) PROVE PoolInv'
  <2>1. /\ stage[r] = "new" /\ GetConn(r, "holding", "queued") /\ UNCHANGED left
        /\ owned[r] = 0
    BY <1>0, <1>2 DEF Arrive, Borrowed
  <2>2. /\ stage[r] \notin Queued /\ "queued" \in Queued
        /\ Borrowed("holding") = owned[r] + 1 /\ Borrowed("queued") = owned[r]
        /\ {"holding", "queued"} \cap {"queued2", "reading"} = {}
    BY <2>1 DEF Queued, Borrowed
  <2> QED BY <2>1, <2>2, GetConnKeeps
<1>3. ASSUME NEW r \in Requests, Answer(r) PROVE PoolInv'
  <2>1. stage[r] = "holding" /\ HandOver(r, 1, waiting, "served") /\ UNCHANGED left
    BY <1>3 DEF Answer, PutConns
  <2>2. GivesBack(r, 1, waiting, "served")
    BY <1>0, <1>1, <2>1 DEF GivesBack, Borrowed, Queued, Ended
  <2>3. OthersReads(r)
    BY <1>0, <2>1 DEF OthersReads
  <2> QED BY <2>1, <2>2, <2>3, HandOverKeeps
<1>4. ASSUME NEW r \in Requests, AskPosition(r) PROVE PoolInv'
  <2>1. /\ stage[r] = "holding" /\ GetConn(r, "reading", "queued2") /\ UNCHANGED left
        /\ r \in Triggers /\ left[r] > 0 /\ owned[r] = 1
    BY <1>0, <1>4 DEF AskPosition, Borrowed
  <2>2. /\ stage[r] \notin Queued /\ "queued2" \in Queued
        /\ Borrowed("reading") = owned[r] + 1 /\ Borrowed("queued2") = owned[r]
    BY <2>1 DEF Queued, Borrowed
  <2> QED BY <2>1, <2>2, GetConnKeeps
<1>5. ASSUME NEW r \in Requests, PositionRead(r) PROVE PoolInv'
  <2>1. /\ stage[r] = "reading" /\ HandOver(r, 1, waiting, "holding")
        /\ left' = [left EXCEPT ![r] = @ - 1]
    BY <1>5 DEF PositionRead, PutConns
  <2>2. GivesBack(r, 1, waiting, "holding")
    BY <1>0, <1>1, <2>1 DEF GivesBack, Borrowed, Queued
  <2>3. OthersReads(r)
    BY <1>0, <2>1 DEF OthersReads
  <2> QED BY <2>1, <2>2, <2>3, HandOverKeeps
<1>6. ASSUME NEW r \in Requests, FinishCycle(r) PROVE PoolInv'
  <2>1. stage[r] = "holding" /\ HandOver(r, 1, waiting, "served") /\ UNCHANGED left
    BY <1>6 DEF FinishCycle, PutConns
  <2>2. GivesBack(r, 1, waiting, "served")
    BY <1>0, <1>1, <2>1 DEF GivesBack, Borrowed, Queued, Ended
  <2>3. OthersReads(r)
    BY <1>0, <2>1 DEF OthersReads
  <2> QED BY <2>1, <2>2, <2>3, HandOverKeeps
<1>7. ASSUME NEW r \in Requests, Fail(r) PROVE PoolInv'
  <2>1. /\ stage[r] \in {"holding", "reading"} /\ UNCHANGED left
        /\ HandOver(r, owned[r], waiting, "failed")
    BY <1>7 DEF Fail, PutConns, Released
  <2>2. GivesBack(r, owned[r], waiting, "failed")
    BY <1>0, <1>1, <2>1 DEF GivesBack, Borrowed, Queued, Ended
  <2>3. OthersReads(r)
    BY <1>0, <2>1 DEF OthersReads
  <2> QED BY <2>1, <2>2, <2>3, HandOverKeeps
<1>8. ASSUME NEW r \in Requests, PoolTimeout(r) PROVE PoolInv'
  <2> DEFINE rest == RemoveFirst(waiting, r)
  <2>1. HandOver(r, owned[r], rest, "failed") /\ UNCHANGED left
    BY <1>8 DEF PoolTimeout
  <2>2. \E k \in 1..Len(waiting) : waiting[k] = r
    BY <1>0, <1>8 DEF PoolTimeout, MayTimeOut, ToSet
  <2>3. IsWithout(rest, waiting, r)
    BY <1>0, <2>2, WithoutOne
  <2> HIDE DEF rest
  <2>4. GivesBack(r, owned[r], rest, "failed")
    BY <1>0, <2>3 DEF IsWithout, GivesBack, Borrowed, Ended
  <2>5. OthersReads(r)
    BY <1>0, <2>1 DEF OthersReads
  <2> QED BY <2>1, <2>4, <2>5, HandOverKeeps
<1>9. CASE UNCHANGED poolVars
  BY <1>9 DEF poolVars, PoolInv, RequestInv, Lists, Once, Borrowed, Requests, Queued, Ended
<1>10. PoolNext => PoolInv'
  BY <1>2, <1>3, <1>4, <1>5, <1>6, <1>7, <1>8
     DEF PoolNext, Progress, Requests
<1> QED BY <1>9, <1>10

\* The inductive invariant of the pool, for any number of requests, connections
\* and reads in a cycle.
THEOREM PoolInvariant == PoolSpec => []PoolInv
<1>1. PoolInit => PoolInv
  BY PoolInvInit
<1>2. PoolInv /\ [PoolNext]_poolVars => PoolInv'
  BY PoolInvNext
<1> QED BY <1>1, <1>2, PTL DEF PoolSpec

\* However cycles and other requests nest, fail and time out, every connection is
\* free or held by a request under way; one that has ended holds none.
THEOREM ConnectionsAreReturned == PoolSpec => []NoneLeaks
<1>1. PoolInv => NoneLeaks
  BY PoolInvTyped
<1> QED BY <1>1, PoolInvariant, PTL

\* No request ever holds more than the two connections its code asks for, and a
\* cycle makes no more reads than it has.
THEOREM PoolTypes == PoolSpec => []PoolTypeOK
<1>1. PoolInv => PoolTypeOK
  BY PoolInvTyped
<1> QED BY <1>1, PoolInvariant, PTL
=============================================================================
