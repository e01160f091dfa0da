------------------------- MODULE ExplainRecorded_proofs -------------------------
(***************************************************************************)
(* Facts about the ledger of a recorded backtest, its replays, and the     *)
(* script that explains its decisions: trades neither lose nor invent a    *)
(* share and take the oldest first, as a queue of single shares would; a   *)
(* replay of the run under its own rules ends where the run did, and one   *)
(* with a stop keeps it; the position never leaves its cap; what the       *)
(* explainer rebuilds is what was ruled, and an interrupted script has     *)
(* lost one paid answer at most.                                           *)
(***************************************************************************)
EXTENDS ExplainRecorded, TradingFacts

-----------------------------------------------------------------------------
(* Sums over rows *)

Row == [opened : Nat, shares : Nat, entry : Int, status : {"OPEN", "CLOSED"},
        exit : Int \cup {None}, closed : Nat \cup {None}, gain : Int]

\* The rows of the shares bought on one day.
BoughtOn(rs, day) == {k \in DOMAIN rs : rs[k].opened = day}

LEMMA RowsFinite ==
  ASSUME NEW rs \in Seq(Row)
  PROVE  /\ DOMAIN rs = 1..Len(rs) /\ Len(rs) \in Nat /\ IsFiniteSet(DOMAIN rs)
         /\ \A k \in DOMAIN rs : rs[k] \in Row
BY FS_Interval

LEMMA SharesType ==
  ASSUME NEW rs \in Seq(Row), NEW ids \in SUBSET DOMAIN rs
  PROVE  SharesOf(rs, ids) \in Nat
<1> DEFINE f == [i \in DOMAIN rs |-> rs[i].shares]
<1>1. IsFiniteSet(ids)
  BY RowsFinite, FS_Subset
<1>2. \A i \in ids : f[i] \in Nat
  BY RowsFinite DEF Row
<1> HIDE DEF f
<1>3. SumFunctionOnSet(f, ids) \in Nat
  BY <1>1, <1>2, SumOfNats
<1> QED BY <1>3 DEF SharesOf, f

LEMMA SharesOfNone ==
  ASSUME NEW rs
  PROVE  SharesOf(rs, {}) = 0
BY SumOfNone DEF SharesOf

LEMMA SharesWithout ==
  ASSUME NEW rs \in Seq(Row), NEW ids \in SUBSET DOMAIN rs, NEW id \in ids
  PROVE  SharesOf(rs, ids) = rs[id].shares + SharesOf(rs, ids \ {id})
<1> DEFINE f == [i \in DOMAIN rs |-> rs[i].shares]
<1>1. IsFiniteSet(ids)
  BY RowsFinite, FS_Subset
<1>2. \A i \in ids : f[i] \in Int
  <2>1. \A i \in DOMAIN rs : rs[i].shares \in Nat
    BY RowsFinite DEF Row
  <2> QED BY <2>1
<1>3. f[id] = rs[id].shares
  OBVIOUS
<1> HIDE DEF f
<1>4. SumFunctionOnSet(f, ids) = f[id] + SumFunctionOnSet(f, ids \ {id})
  BY <1>1, <1>2, SumWithout
<1> QED BY <1>3, <1>4 DEF SharesOf, f

\* Only the shares of the rows that are counted matter.
LEMMA SharesCongruent ==
  ASSUME NEW rs \in Seq(Row), NEW more \in Seq(Row),
         NEW ids \in SUBSET (DOMAIN rs \cap DOMAIN more),
         \A i \in ids : rs[i].shares = more[i].shares
  PROVE  SharesOf(rs, ids) = SharesOf(more, ids)
<1> DEFINE f == [i \in DOMAIN rs |-> rs[i].shares]
           g == [i \in DOMAIN more |-> more[i].shares]
<1>1. IsFiniteSet(ids)
  BY RowsFinite, FS_Subset
<1>2. \A i \in ids : f[i] = g[i]
  OBVIOUS
<1> HIDE DEF f, g
<1>3. SumFunctionOnSet(f, ids) = SumFunctionOnSet(g, ids)
  BY <1>1, <1>2, SumCongruent
<1> QED BY <1>3 DEF SharesOf, f, g

-----------------------------------------------------------------------------
(* A sale as a table *)

\* t holds what the loop has made of rs when it has been through some lots.
SaleTable(t, rs, n, fill, asOf, ids) ==
  t = [T \in SUBSET ids |->
         IF T = {} THEN [rows |-> rs, remaining |-> n]
         ELSE SellFrom(t[T \ {LastInLine(rs, T)}], LastInLine(rs, T), fill, asOf)]

LEMMA LineHasAnEnd ==
  ASSUME NEW rs \in Seq(Row), NEW T \in SUBSET DOMAIN rs, T # {}
  PROVE  /\ LastInLine(rs, T) \in T
         /\ \A j \in T : rs[j].opened <= rs[LastInLine(rs, T)].opened
<1> DEFINE f == [i \in T |-> rs[i].opened]
           days == {f[i] : i \in T}
<1>1. \A i \in T : f[i] \in Nat
  BY RowsFinite DEF Row
<1>2. IsFiniteSet(T)
  BY RowsFinite, FS_Subset
<1> DEFINE sum == SumFunctionOnSet(f, T)
<1>3. sum \in Nat /\ \A i \in T : f[i] <= sum
  <2> HIDE DEF f
  <2> QED BY <1>1, <1>2, SumOfNats
<1>4. days \subseteq 0..sum /\ days # {}
  <2> HIDE DEF f, sum
  <2> QED BY <1>1, <1>3
<1>5. PICK day \in days : \A d \in days : d <= day
  <2> HIDE DEF days, sum
  <2> QED BY <1>3, <1>4, GreatestOf
<1>6. PICK i \in T : day = rs[i].opened
  BY <1>5
<1>7. \A j \in T : rs[j].opened <= rs[i].opened
  BY <1>5, <1>6
<1> QED BY <1>7 DEF LastInLine

\* A set of lots has one result, whatever larger set the table was made for.
LEMMA SalesAgree ==
  ASSUME NEW rs \in Seq(Row), NEW n, NEW fill, NEW asOf,
         NEW V \in SUBSET DOMAIN rs, NEW W \in SUBSET V,
         NEW g, SaleTable(g, rs, n, fill, asOf, V),
         NEW h, SaleTable(h, rs, n, fill, asOf, W)
  PROVE  g[W] = h[W]
<1> DEFINE B == {X \in SUBSET W : g[X] # h[X]}
           Before1(X) == X \ {LastInLine(rs, X)}
<1>1. SUFFICES ASSUME B # {} PROVE FALSE
  OBVIOUS
<1>2. IsFiniteSet(W)
  BY RowsFinite, FS_Subset
<1>3. PICK X \in B : \A U \in B : U \subseteq X => U = X
  <2>1. B \subseteq SUBSET W
    OBVIOUS
  <2> HIDE DEF B
  <2> QED BY <1>1, <1>2, <2>1, LeastSubset
<1>4. X # {} => LastInLine(rs, X) \in X
  BY LineHasAnEnd
<1>5. /\ g[X] = IF X = {} THEN [rows |-> rs, remaining |-> n]
                ELSE SellFrom(g[Before1(X)], LastInLine(rs, X), fill, asOf)
      /\ h[X] = IF X = {} THEN [rows |-> rs, remaining |-> n]
                ELSE SellFrom(h[Before1(X)], LastInLine(rs, X), fill, asOf)
  BY DEF SaleTable
<1>6. X # {} => g[Before1(X)] = h[Before1(X)]
  BY <1>3, <1>4
<1> QED BY <1>3, <1>5, <1>6

LEMMA SaleExists ==
  ASSUME NEW rs \in Seq(Row), NEW n, NEW fill, NEW asOf, NEW ids \in SUBSET DOMAIN rs
  PROVE  \E g : SaleTable(g, rs, n, fill, asOf, ids)
<1> DEFINE Is(g, T) == SaleTable(g, rs, n, fill, asOf, T)
           last(T) == LastInLine(rs, T)
           B == {T \in SUBSET ids : ~\E g : Is(g, T)}
<1>1. SUFFICES ASSUME B # {} PROVE FALSE
  OBVIOUS
<1>0. IsFiniteSet(ids)
  BY RowsFinite, FS_Subset
<1>2. PICK T \in B : \A U \in B : U \subseteq T => U = T
  <2>1. B \subseteq SUBSET ids
    OBVIOUS
  <2> HIDE DEF B
  <2> QED BY <1>0, <1>1, <2>1, LeastSubset
<1> DEFINE table(U) == CHOOSE g : Is(g, U)
           total(U) == table(U)[U]
           start == [rows |-> rs, remaining |-> n]
           g == [U \in SUBSET T |-> IF U = {} THEN start
                                    ELSE SellFrom(total(U \ {last(U)}), last(U), fill, asOf)]
<1>3. \A U \in SUBSET T : U # T => Is(table(U), U)
  BY <1>2
<1>4. ASSUME NEW U \in SUBSET T, U # {}
      PROVE  g[U \ {last(U)}] = total(U \ {last(U)})
  <2> DEFINE V == U \ {last(U)}
  <2>1. V \in SUBSET T /\ V # T /\ last(U) \in U
    BY <1>4, LineHasAnEnd
  <2>2. total(V) = IF V = {} THEN start
                   ELSE SellFrom(table(V)[V \ {last(V)}], last(V), fill, asOf)
    <3>1. Is(table(V), V)
      BY <1>3, <2>1
    <3> HIDE DEF table, V
    <3> QED BY <3>1 DEF SaleTable
  <2>3. CASE V = {}
    BY <2>1, <2>2, <2>3
  <2>4. CASE V # {}
    <3> DEFINE W == V \ {last(V)}
    <3>1. W \in SUBSET T /\ W # T /\ W \in SUBSET V /\ V \in SUBSET DOMAIN rs
      BY <2>1
    <3>2. Is(table(V), V) /\ Is(table(W), W)
      BY <1>3, <2>1, <3>1
    <3> HIDE DEF table
    <3>3. table(V)[W] = table(W)[W]
      <4> HIDE DEF V, W
      <4> QED BY <3>1, <3>2, SalesAgree
    <3> QED BY <2>1, <2>2, <2>4, <3>3
  <2> QED BY <2>3, <2>4
<1>5. Is(g, T)
  <2> HIDE DEF total
  <2>1. \A U \in SUBSET T :
          (IF U = {} THEN start ELSE SellFrom(total(U \ {last(U)}), last(U), fill, asOf))
            = (IF U = {} THEN start ELSE SellFrom(g[U \ {last(U)}], last(U), fill, asOf))
    BY <1>4
  <2> QED BY <2>1 DEF SaleTable
<1> QED BY <1>2, <1>5

\* What Sold returns is the last entry of such a table.
LEMMA SoldIsTable ==
  ASSUME NEW rs \in Seq(Row), NEW n, NEW fill, NEW asOf
  PROVE  \E g : /\ SaleTable(g, rs, n, fill, asOf, OpenIds(rs))
                /\ Sold(rs, n, fill, asOf) = g[OpenIds(rs)].rows
<1> DEFINE ids == OpenIds(rs)
           table == CHOOSE g : SaleTable(g, rs, n, fill, asOf, ids)
<1>1. ids \in SUBSET DOMAIN rs
  BY DEF OpenIds
<1>2. SaleTable(table, rs, n, fill, asOf, ids)
  BY <1>1, SaleExists
<1>3. Sold(rs, n, fill, asOf) = table[ids].rows
  BY DEF Sold, MapThenFoldSet, SaleTable
<1> QED BY <1>2, <1>3
-----------------------------------------------------------------------------
(* One lot of a sale *)

\* Closing a lot leaves its shares in the sums by day and takes them out of the
\* open ones.
LEMMA CloseSums ==
  ASSUME NEW rs \in Seq(Row), NEW id \in OpenIds(rs), NEW fill \in Int, NEW asOf \in Nat
  PROVE  LET new == CloseLot(rs, id, fill, asOf)
         IN  /\ new \in Seq(Row) /\ Len(new) = Len(rs)
             /\ \A k \in DOMAIN rs : new[k].opened = rs[k].opened
             /\ \A k \in DOMAIN rs : k # id => new[k] = rs[k]
             /\ OpenIds(new) = OpenIds(rs) \ {id}
             /\ \A day : SharesOf(new, BoughtOn(new, day)) = SharesOf(rs, BoughtOn(rs, day))
             /\ SharesHeld(rs) = rs[id].shares + SharesHeld(new)
<1> DEFINE closed == ClosedPart(rs[id], rs[id].shares, fill, asOf)
           new == CloseLot(rs, id, fill, asOf)
<1>1. id \in DOMAIN rs /\ rs[id] \in Row /\ rs[id].status = "OPEN"
  BY RowsFinite DEF OpenIds
<1>2. /\ closed \in Row
      /\ closed.opened = rs[id].opened /\ closed.shares = rs[id].shares
      /\ closed.status = "CLOSED"
  <2>1. /\ rs[id].entry \in Int /\ rs[id].shares \in Nat
    BY <1>1 DEF Row
  <2>2. (fill - rs[id].entry) * rs[id].shares \in Int
    BY <2>1
  <2> HIDE DEF closed
  <2> DEFINE gain == (fill - rs[id].entry) * rs[id].shares
  <2>3. closed = [rs[id] EXCEPT !.shares = rs[id].shares, !.status = "CLOSED", !.exit = fill,
                                !.closed = asOf, !.gain = gain]
    BY DEF closed, ClosedPart
  <2> HIDE DEF gain
  <2>4. gain \in Int
    BY <2>2 DEF gain
  <2> QED BY <1>1, <2>3, <2>4 DEF Row
<1>3. new = [rs EXCEPT ![id] = closed]
  BY DEF CloseLot, ClosedPart
<1> HIDE DEF closed, new
<1>4. /\ new \in Seq(Row) /\ Len(new) = Len(rs) /\ DOMAIN new = DOMAIN rs
      /\ new[id] = closed
      /\ \A k \in DOMAIN rs : k # id => new[k] = rs[k]
  BY <1>1, <1>2, <1>3
<1>5. \A k \in DOMAIN rs : new[k].opened = rs[k].opened /\ new[k].shares = rs[k].shares
  BY <1>2, <1>4
<1>6. OpenIds(new) = OpenIds(rs) \ {id}
  BY <1>1, <1>2, <1>4 DEF OpenIds
<1>7. ASSUME NEW day
      PROVE  SharesOf(new, BoughtOn(new, day)) = SharesOf(rs, BoughtOn(rs, day))
  <2>1. BoughtOn(new, day) = BoughtOn(rs, day)
    BY <1>4, <1>5 DEF BoughtOn
  <2>2. BoughtOn(rs, day) \in SUBSET (DOMAIN new \cap DOMAIN rs)
    BY <1>4 DEF BoughtOn
  <2> QED BY <1>4, <1>5, <2>1, <2>2, SharesCongruent
<1>8. SharesHeld(rs) = rs[id].shares + SharesHeld(new)
  <2>1. OpenIds(rs) \in SUBSET DOMAIN rs
    BY DEF OpenIds
  <2>2. SharesOf(rs, OpenIds(rs)) = rs[id].shares + SharesOf(rs, OpenIds(rs) \ {id})
    BY <2>1, SharesWithout
  <2>3. SharesOf(rs, OpenIds(rs) \ {id}) = SharesOf(new, OpenIds(rs) \ {id})
    BY <1>4, <1>5, <2>1, SharesCongruent
  <2> QED BY <1>6, <2>2, <2>3 DEF SharesHeld
<1> QED BY <1>4, <1>5, <1>6, <1>7, <1>8 DEF new

\* A number of shares less than the lot has.
IsPartOf(n, lot) == n < lot.shares

\* What a split makes of the rows.
Splits(rs, id, n, new) ==
  /\ new \in Seq(Row) /\ Len(new) = Len(rs) + 1
  /\ \A k \in DOMAIN rs : new[k].opened = rs[k].opened
  /\ \A k \in DOMAIN rs : k # id => new[k] = rs[k]
  /\ new[Len(rs) + 1].opened = rs[id].opened
  /\ OpenIds(new) = OpenIds(rs)
  /\ \A day : SharesOf(new, BoughtOn(new, day)) = SharesOf(rs, BoughtOn(rs, day))
  /\ SharesHeld(rs) = n + SharesHeld(new)

\* Splitting a lot: n of its shares move to a closed row of the same day.
LEMMA SplitSums ==
  ASSUME NEW rs \in Seq(Row), NEW id \in OpenIds(rs), NEW fill \in Int, NEW asOf \in Nat,
         NEW n \in Nat, IsPartOf(n, rs[id])
  PROVE  Splits(rs, id, n, SplitLot(rs, id, n, fill, asOf))
<1> DEFINE closed == ClosedPart(rs[id], n, fill, asOf)
           open == [rs[id] EXCEPT !.shares = @ - n]
           new == SplitLot(rs, id, n, fill, asOf)
           last == Len(rs) + 1
<1>1. id \in DOMAIN rs /\ rs[id] \in Row /\ rs[id].status = "OPEN"
  BY RowsFinite DEF OpenIds
<1>2. /\ closed \in Row
      /\ closed.opened = rs[id].opened /\ closed.shares = n /\ closed.status = "CLOSED"
  <2>1. /\ rs[id].entry \in Int
    BY <1>1 DEF Row
  <2>2. (fill - rs[id].entry) * n \in Int
    BY <2>1
  <2> HIDE DEF closed
  <2> DEFINE gain == (fill - rs[id].entry) * n
  <2>3. closed = [rs[id] EXCEPT !.shares = n, !.status = "CLOSED", !.exit = fill,
                                !.closed = asOf, !.gain = gain]
    BY DEF closed, ClosedPart
  <2> HIDE DEF gain
  <2>4. gain \in Int
    BY <2>2 DEF gain
  <2> QED BY <1>1, <2>3, <2>4 DEF Row
<1>3. /\ open \in Row
      /\ open.opened = rs[id].opened /\ open.shares = rs[id].shares - n /\ open.status = "OPEN"
  <2> DEFINE less == rs[id].shares - n
  <2>1. less \in Nat
    BY <1>1 DEF Row, IsPartOf
  <2>2. open = [rs[id] EXCEPT !.shares = less]
    OBVIOUS
  <2> HIDE DEF open, less
  <2>3. open \in Row /\ open.opened = rs[id].opened /\ open.shares = less /\ open.status = "OPEN"
    BY <1>1, <2>1, <2>2 DEF Row
  <2> QED BY <2>3 DEF less
<1>4. new = Append([rs EXCEPT ![id] = open], closed)
  BY DEF SplitLot
<1> HIDE DEF closed, open, new
<1>5. Len(rs) \in Nat /\ DOMAIN rs = 1..Len(rs) /\ \A k \in DOMAIN rs : rs[k] \in Row
  BY RowsFinite
<1>6. /\ new \in Seq(Row) /\ Len(new) = last /\ DOMAIN new = DOMAIN rs \cup {last}
      /\ new[id] = open /\ new[last] = closed
      /\ \A k \in DOMAIN rs : k # id => new[k] = rs[k]
  <2>1. [rs EXCEPT ![id] = open] \in Seq(Row) /\ Len([rs EXCEPT ![id] = open]) = Len(rs)
    BY <1>1, <1>3
  <2> QED BY <1>1, <1>2, <1>4, <1>5, <2>1
<1>7. last \notin DOMAIN rs
  BY <1>5
<1>8. \A k \in DOMAIN rs : new[k].opened = rs[k].opened
  BY <1>3, <1>6
<1>9. OpenIds(new) = OpenIds(rs)
  BY <1>1, <1>2, <1>3, <1>6, <1>7 DEF OpenIds
<1>10. ASSUME NEW ids \in SUBSET DOMAIN rs, id \in ids
       PROVE  /\ SharesOf(rs, ids) = n + SharesOf(new, ids)
              /\ SharesOf(new, ids \cup {last}) = SharesOf(rs, ids)
  <2>1. ids \in SUBSET DOMAIN new /\ ids \cup {last} \in SUBSET DOMAIN new
    BY <1>6
  <2>2. SharesOf(rs, ids) = rs[id].shares + SharesOf(rs, ids \ {id})
    BY <1>10, SharesWithout
  <2>3. SharesOf(new, ids) = new[id].shares + SharesOf(new, ids \ {id})
    BY <1>6, <1>10, <2>1, SharesWithout
  <2>4. SharesOf(rs, ids \ {id}) = SharesOf(new, ids \ {id})
    BY <1>6, SharesCongruent
  <2>5. SharesOf(new, ids \cup {last}) = new[last].shares + SharesOf(new, (ids \cup {last}) \ {last})
    BY <1>6, <2>1, SharesWithout
  <2>6. (ids \cup {last}) \ {last} = ids
    BY <1>7
  <2>7. SharesOf(rs, ids \ {id}) \in Nat /\ rs[id].shares \in Nat
    BY <1>1, SharesType DEF Row
  <2>8. new[last].shares = n /\ new[id].shares = rs[id].shares - n
    BY <1>2, <1>3, <1>6
  <2>9. SharesOf(rs, ids) = n + SharesOf(new, ids)
    BY <2>2, <2>3, <2>4, <2>7, <2>8
  <2>10. SharesOf(new, ids \cup {last}) = n + SharesOf(new, ids)
    BY <2>5, <2>6, <2>8
  <2> QED BY <2>9, <2>10
<1>11. ASSUME NEW day
       PROVE  SharesOf(new, BoughtOn(new, day)) = SharesOf(rs, BoughtOn(rs, day))
  <2>1. BoughtOn(rs, day) \in SUBSET DOMAIN rs
    BY DEF BoughtOn
  <2>2. CASE rs[id].opened = day
    <3>1. BoughtOn(new, day) = BoughtOn(rs, day) \cup {last} /\ id \in BoughtOn(rs, day)
      BY <1>1, <1>2, <1>6, <1>7, <1>8, <2>2 DEF BoughtOn
    <3> QED BY <1>10, <2>1, <3>1
  <2>3. CASE rs[id].opened # day
    <3>1. BoughtOn(new, day) = BoughtOn(rs, day) /\ id \notin BoughtOn(rs, day)
      BY <1>2, <1>6, <1>7, <1>8, <2>3 DEF BoughtOn
    <3>2. \A k \in BoughtOn(rs, day) : new[k].shares = rs[k].shares
      BY <1>6, <2>1, <3>1
    <3>3. BoughtOn(rs, day) \in SUBSET (DOMAIN new \cap DOMAIN rs)
      BY <1>6, <2>1
    <3> QED BY <1>6, <3>1, <3>2, <3>3, SharesCongruent
  <2> QED BY <2>2, <2>3
<1>12. SharesHeld(rs) = n + SharesHeld(new)
  BY <1>9, <1>10 DEF SharesHeld, OpenIds
<1>13. new[last].opened = rs[id].opened
  BY <1>2, <1>6
<1> QED BY <1>6, <1>8, <1>9, <1>11, <1>12, <1>13 DEF Splits, new
-----------------------------------------------------------------------------
(* A whole sale *)

\* What the loop keeps true about a sale of n shares when it has been through
\* the lots T, with the rows `lots` and `left` shares still to sell: every other
\* row is as it was, the shares bought on each day are still there, and what
\* has left the open rows is what was sold so far.
SaleRows(rs, T, lots, left) ==
  /\ lots \in Seq(Row) /\ left \in Nat
  /\ Len(rs) <= Len(lots)
  /\ \A k \in DOMAIN rs : k \notin T => lots[k] = rs[k]
  /\ \A k \in DOMAIN lots : \E j \in DOMAIN rs : lots[k].opened = rs[j].opened
  /\ \A k \in OpenIds(lots) : k \in DOMAIN rs
  /\ left > 0 => \A k \in OpenIds(lots) : k \notin T

SaleSums(rs, n, lots, left) ==
  /\ \A day : SharesOf(lots, BoughtOn(lots, day)) = SharesOf(rs, BoughtOn(rs, day))
  /\ SharesHeld(lots) + n = SharesHeld(rs) + left

SaleInv(rs, n, T, lots, left) == SaleRows(rs, T, lots, left) /\ SaleSums(rs, n, lots, left)

Sale(lots, left) == [rows |-> lots, remaining |-> left]

\* The loop, at lot id, goes from one sale that satisfies the invariant to another.
StepsOn(rs, n, T, old, left, id, fill, asOf) ==
  \E new, rest : /\ SellFrom(Sale(old, left), id, fill, asOf) = Sale(new, rest)
                 /\ SaleInv(rs, n, T \cup {id}, new, rest)

LEMMA SharesHeldType ==
  ASSUME NEW rs \in Seq(Row)
  PROVE  SharesHeld(rs) \in Nat
BY SharesType DEF SharesHeld, OpenIds

\* One turn of the loop.
LEMMA SaleStep ==
  ASSUME NEW rs \in Seq(Row), NEW n \in Nat, NEW fill \in Int, NEW asOf \in Nat,
         NEW T \in SUBSET OpenIds(rs), NEW id \in OpenIds(rs), id \notin T,
         NEW old, NEW left, SaleInv(rs, n, T, old, left)
  PROVE  StepsOn(rs, n, T, old, left, id, fill, asOf)
<1>1. /\ id \in DOMAIN rs /\ DOMAIN rs = 1..Len(rs) /\ Len(rs) \in Nat
      /\ old \in Seq(Row) /\ DOMAIN old = 1..Len(old) /\ Len(old) \in Nat
      /\ Len(rs) <= Len(old) /\ left \in Nat
  BY RowsFinite DEF OpenIds, SaleInv, SaleRows
<1>2. DOMAIN rs \subseteq DOMAIN old
  BY <1>1
<1>3. /\ old[id] = rs[id] /\ id \in OpenIds(old) /\ old[id].shares \in Nat
  BY <1>1, <1>2, RowsFinite DEF OpenIds, SaleInv, SaleRows, Row
<1>4. SharesHeld(rs) \in Int /\ SharesHeld(old) \in Int
  BY <1>1, SharesHeldType
<1>5. Sale(old, left).rows = old /\ Sale(old, left).remaining = left
  BY DEF Sale
<1>6. CASE left <= 0
  <2>1. SellFrom(Sale(old, left), id, fill, asOf) = Sale(old, left)
    BY <1>5, <1>6 DEF SellFrom
  <2>2. ~(left > 0)
    BY <1>1, <1>6
  <2>3. SaleInv(rs, n, T \cup {id}, old, left)
    BY <2>2 DEF SaleInv, SaleRows
  <2> QED BY <2>1, <2>3 DEF StepsOn
<1>7. CASE left > 0 /\ left >= old[id].shares
  <2> DEFINE new == CloseLot(old, id, fill, asOf)
             rest == left - old[id].shares
  <2>1. SellFrom(Sale(old, left), id, fill, asOf) = Sale(new, rest)
    BY <1>1, <1>5, <1>7 DEF SellFrom, Sale
  <2>2. rest \in Nat
    BY <1>1, <1>3, <1>7
  <2>3. /\ new \in Seq(Row) /\ Len(new) = Len(old)
        /\ \A k \in DOMAIN old : new[k].opened = old[k].opened
        /\ \A k \in DOMAIN old : k # id => new[k] = old[k]
        /\ OpenIds(new) = OpenIds(old) \ {id}
        /\ \A day : SharesOf(new, BoughtOn(new, day)) = SharesOf(old, BoughtOn(old, day))
        /\ SharesHeld(old) = old[id].shares + SharesHeld(new)
    BY <1>1, <1>3, CloseSums
  <2> HIDE DEF new
  <2>4. DOMAIN new = DOMAIN old /\ SharesHeld(new) \in Int
    BY <1>1, <2>3, RowsFinite, SharesHeldType
  <2>5. SaleRows(rs, T \cup {id}, new, rest)
    <3>1. \A k \in DOMAIN rs : k \notin T \cup {id} => new[k] = rs[k]
      BY <1>2, <2>3 DEF SaleInv, SaleRows
    <3>2. \A k \in DOMAIN new : \E j \in DOMAIN rs : new[k].opened = rs[j].opened
      BY <2>3, <2>4 DEF SaleInv, SaleRows
    <3>3. \A k \in OpenIds(new) : k \in DOMAIN rs /\ k \notin T \cup {id}
      BY <1>7, <2>3 DEF SaleInv, SaleRows
    <3> HIDE DEF rest
    <3> QED BY <1>1, <2>2, <2>3, <3>1, <3>2, <3>3 DEF SaleRows
  <2>6. SharesHeld(new) + n = SharesHeld(rs) + rest
    <3>1. SharesHeld(old) + n = SharesHeld(rs) + left
      BY DEF SaleInv, SaleSums
    <3>2. SharesHeld(old) = old[id].shares + SharesHeld(new)
      BY <2>3
    <3>3. SharesHeld(new) \in Int /\ old[id].shares \in Nat /\ left \in Nat
      BY <1>1, <1>3, <2>4
    <3> DEFINE heldOld == SharesHeld(old)
               heldNew == SharesHeld(new)
               heldRs  == SharesHeld(rs)
               lot     == old[id].shares
    <3>4. /\ heldOld + n = heldRs + left /\ heldOld = lot + heldNew /\ rest = left - lot
          /\ heldNew \in Int /\ lot \in Nat /\ left \in Nat /\ heldOld \in Int /\ heldRs \in Int
      BY <1>4, <3>1, <3>2, <3>3
    <3> HIDE DEF heldOld, heldNew, heldRs, lot, rest
    <3>5. heldNew + n = heldRs + rest
      BY <3>4
    <3> QED BY <3>5 DEF heldNew, heldRs
  <2>7. SaleSums(rs, n, new, rest)
    BY <2>3, <2>6 DEF SaleInv, SaleSums
  <2> QED BY <2>1, <2>5, <2>7 DEF SaleInv, StepsOn
<1>8. CASE left > 0 /\ left < old[id].shares
  <2> DEFINE new == SplitLot(old, id, left, fill, asOf)
             last == Len(old) + 1
  <2>1. SellFrom(Sale(old, left), id, fill, asOf) = Sale(new, 0)
    BY <1>1, <1>3, <1>5, <1>8 DEF SellFrom, Sale
  <2>2. /\ new \in Seq(Row) /\ Len(new) = Len(old) + 1
        /\ \A k \in DOMAIN old : new[k].opened = old[k].opened
        /\ \A k \in DOMAIN old : k # id => new[k] = old[k]
        /\ new[Len(old) + 1].opened = old[id].opened
        /\ OpenIds(new) = OpenIds(old)
        /\ \A day : SharesOf(new, BoughtOn(new, day)) = SharesOf(old, BoughtOn(old, day))
        /\ SharesHeld(old) = left + SharesHeld(new)
    <3>1. old \in Seq(Row) /\ id \in OpenIds(old) /\ left \in Nat /\ left < old[id].shares
      BY <1>1, <1>3, <1>8
    <3>2. IsPartOf(left, old[id])
      BY <3>1 DEF IsPartOf
    <3>3. Splits(old, id, left, new)
      BY <3>1, <3>2, SplitSums
    <3> HIDE DEF new
    <3> QED BY <3>3 DEF Splits
  <2> HIDE DEF new
  <2>3. SharesHeld(new) \in Int
    BY <2>2, SharesHeldType
  <2>4. DOMAIN new = DOMAIN old \cup {last} /\ id \in DOMAIN old /\ Len(rs) <= Len(new)
    <3>1. DOMAIN new = 1..last
      BY <2>2, RowsFinite
    <3> QED BY <1>1, <1>2, <2>2, <3>1
  <2>5. SaleRows(rs, T \cup {id}, new, 0)
    <3>1. \A k \in DOMAIN rs : k \notin T \cup {id} => new[k] = rs[k]
      BY <1>2, <2>2 DEF SaleInv, SaleRows
    <3>2. \A k \in DOMAIN new : \E j \in DOMAIN rs : new[k].opened = rs[j].opened
      <4>1. \A k \in DOMAIN old : \E j \in DOMAIN rs : old[k].opened = rs[j].opened
        BY DEF SaleInv, SaleRows
      <4>2. TAKE k \in DOMAIN new
      <4>3. CASE k \in DOMAIN old
        BY <2>2, <4>1, <4>3
      <4>4. CASE k = last
        <5>1. new[k].opened = old[id].opened
          BY <2>2, <4>4
        <5> QED BY <2>4, <4>1, <5>1
      <4> QED BY <2>4, <4>3, <4>4
    <3>3. \A k \in OpenIds(new) : k \in DOMAIN rs
      BY <2>2 DEF SaleInv, SaleRows
    <3> QED BY <2>2, <2>4, <3>1, <3>2, <3>3 DEF SaleRows
  <2>6. SharesHeld(new) + n = SharesHeld(rs) + 0
    <3>1. SharesHeld(old) + n = SharesHeld(rs) + left
      BY DEF SaleInv, SaleSums
    <3>2. SharesHeld(old) = left + SharesHeld(new)
      BY <2>2
    <3> DEFINE heldOld == SharesHeld(old)
               heldNew == SharesHeld(new)
               heldRs  == SharesHeld(rs)
    <3>3. /\ heldOld + n = heldRs + left /\ heldOld = left + heldNew
          /\ heldNew \in Int /\ left \in Nat /\ heldOld \in Int /\ heldRs \in Int
      BY <1>1, <1>4, <2>3, <3>1, <3>2
    <3> HIDE DEF heldOld, heldNew, heldRs
    <3>4. heldNew + n = heldRs + 0
      BY <3>3
    <3> QED BY <3>4 DEF heldNew, heldRs
  <2>7. SaleSums(rs, n, new, 0)
    BY <2>2, <2>6 DEF SaleInv, SaleSums
  <2> QED BY <2>1, <2>5, <2>7 DEF SaleInv, StepsOn
<1>9. \/ left <= 0
      \/ left > 0 /\ left >= old[id].shares
      \/ left > 0 /\ left < old[id].shares
  <2> DEFINE lot == old[id].shares
  <2>1. lot \in Nat /\ left \in Nat
    BY <1>1, <1>3
  <2> HIDE DEF lot
  <2>2. left <= 0 \/ (left > 0 /\ left >= lot) \/ (left > 0 /\ left < lot)
    BY <2>1
  <2> QED BY <2>2 DEF lot
<1> QED BY <1>6, <1>7, <1>8, <1>9

\* The loop keeps the invariant whatever lots it has been through.
LEMMA SaleKept ==
  ASSUME NEW rs \in Seq(Row), NEW n \in Nat, NEW fill \in Int, NEW asOf \in Nat,
         NEW g, SaleTable(g, rs, n, fill, asOf, OpenIds(rs)),
         NEW T \in SUBSET OpenIds(rs)
  PROVE  \E lots, left : g[T] = Sale(lots, left) /\ SaleInv(rs, n, T, lots, left)
<1> DEFINE ids == OpenIds(rs)
           Good(U) == \E lots, left : g[U] = Sale(lots, left) /\ SaleInv(rs, n, U, lots, left)
           B == {U \in SUBSET ids : ~Good(U)}
<1>1. SUFFICES ASSUME B # {} PROVE FALSE
  OBVIOUS
<1>2. ids \in SUBSET DOMAIN rs /\ IsFiniteSet(ids)
  BY RowsFinite, FS_Subset DEF OpenIds
<1>3. PICK U \in B : \A V \in B : V \subseteq U => V = U
  <2>1. B \subseteq SUBSET ids
    OBVIOUS
  <2> HIDE DEF B, ids
  <2> QED BY <1>1, <1>2, <2>1, LeastSubset
<1>4. U \in SUBSET ids /\ ~Good(U)
  BY <1>3
<1>5. CASE U = {}
  <2>1. g[U] = Sale(rs, n)
    BY <1>4, <1>5 DEF SaleTable, Sale
  <2>2. Len(rs) \in Nat /\ DOMAIN rs = 1..Len(rs)
    BY RowsFinite
  <2>3. SaleRows(rs, {}, rs, n)
    BY <2>2 DEF SaleRows, OpenIds
  <2>4. SaleSums(rs, n, rs, n)
    BY DEF SaleSums
  <2> QED BY <1>4, <1>5, <2>1, <2>3, <2>4 DEF SaleInv
<1>6. CASE U # {}
  <2> DEFINE id == LastInLine(rs, U)
             V == U \ {id}
  <2>1. id \in U
    BY <1>2, <1>4, <1>6, LineHasAnEnd
  <2>2. V \in SUBSET ids /\ id \in ids /\ id \notin V /\ V \cup {id} = U
    BY <1>4, <2>1
  <2>3. g[U] = SellFrom(g[V], id, fill, asOf)
    BY <1>4, <1>6 DEF SaleTable
  <2>4. Good(V)
    BY <1>3, <2>1, <2>2
  <2>5. PICK lots, left : g[V] = Sale(lots, left) /\ SaleInv(rs, n, V, lots, left)
    BY <2>4
  <2> HIDE DEF id, V
  <2>6. StepsOn(rs, n, V, lots, left, id, fill, asOf)
    <3>1. /\ V \in SUBSET OpenIds(rs) /\ id \in OpenIds(rs) /\ id \notin V
          /\ SaleInv(rs, n, V, lots, left)
      BY <2>2, <2>5
    <3> HIDE DEF ids
    <3> QED BY <3>1, SaleStep
  <2>7. PICK new, rest : /\ SellFrom(Sale(lots, left), id, fill, asOf) = Sale(new, rest)
                         /\ SaleInv(rs, n, V \cup {id}, new, rest)
    BY <2>6 DEF StepsOn
  <2> QED BY <1>4, <2>2, <2>3, <2>5, <2>7
<1> QED BY <1>5, <1>6

\* A sale of no more than is held sells exactly that, leaves the shares bought
\* on each day, and touches no closed row.
LEMMA SoldFacts ==
  ASSUME NEW rs \in Seq(Row), NEW n \in Nat, NEW fill \in Int, NEW asOf \in Nat,
         n <= SharesHeld(rs)
  PROVE  LET new == Sold(rs, n, fill, asOf)
         IN  /\ new \in Seq(Row) /\ Len(rs) <= Len(new)
             /\ \A k \in DOMAIN rs : rs[k].status = "CLOSED" => new[k] = rs[k]
             /\ \A k \in DOMAIN new : \E j \in DOMAIN rs : new[k].opened = rs[j].opened
             /\ \A day : SharesOf(new, BoughtOn(new, day)) = SharesOf(rs, BoughtOn(rs, day))
             /\ SharesHeld(new) = SharesHeld(rs) - n
<1> DEFINE ids == OpenIds(rs)
<1>1. PICK g : SaleTable(g, rs, n, fill, asOf, ids) /\ Sold(rs, n, fill, asOf) = g[ids].rows
  BY SoldIsTable
<1>2. PICK new, left : g[ids] = Sale(new, left) /\ SaleInv(rs, n, ids, new, left)
  BY <1>1, SaleKept
<1>3. Sold(rs, n, fill, asOf) = new
  BY <1>1, <1>2 DEF Sale
<1>4. /\ new \in Seq(Row) /\ left \in Nat /\ Len(rs) <= Len(new)
      /\ \A k \in DOMAIN rs : k \notin ids => new[k] = rs[k]
      /\ \A k \in DOMAIN new : \E j \in DOMAIN rs : new[k].opened = rs[j].opened
      /\ \A k \in OpenIds(new) : k \in DOMAIN rs
      /\ left > 0 => \A k \in OpenIds(new) : k \notin ids
      /\ \A day : SharesOf(new, BoughtOn(new, day)) = SharesOf(rs, BoughtOn(rs, day))
      /\ SharesHeld(new) + n = SharesHeld(rs) + left
  BY <1>2 DEF SaleInv, SaleRows, SaleSums
<1>5. \A k \in DOMAIN rs : rs[k].status = "CLOSED" => new[k] = rs[k]
  BY <1>4 DEF OpenIds
<1>6. SharesHeld(rs) \in Int /\ SharesHeld(new) \in Int
  BY <1>4, SharesHeldType
<1>7. left = 0
  <2>1. SUFFICES ASSUME left > 0 PROVE FALSE
    BY <1>4
  <2>2. OpenIds(new) = {}
    BY <1>4, <2>1 DEF OpenIds
  <2>3. SharesHeld(new) = 0
    BY <2>2, SharesOfNone DEF SharesHeld
  <2> QED BY <1>4, <1>6, <2>1, <2>3
<1>8. SharesHeld(new) = SharesHeld(rs) - n
  BY <1>4, <1>6, <1>7
<1> QED BY <1>3, <1>4, <1>5, <1>8
-----------------------------------------------------------------------------
(* A whole trade *)

\* What a trade makes of the rows: closed ones stay, a purchase is the only
\* thing that changes the shares of a day, and the position follows the ruling.
Trade(rs, action, n, asOf, new) ==
  /\ new \in Seq(Row) /\ Len(rs) <= Len(new)
  /\ \A k \in DOMAIN rs : rs[k].status = "CLOSED" => new[k] = rs[k]
  /\ \A k \in DOMAIN new :
       new[k].opened = asOf \/ \E j \in DOMAIN rs : new[k].opened = rs[j].opened
  /\ \A day : day # asOf =>
       SharesOf(new, BoughtOn(new, day)) = SharesOf(rs, BoughtOn(rs, day))
  /\ SharesOf(new, BoughtOn(new, asOf)) =
       SharesOf(rs, BoughtOn(rs, asOf)) + IF action = "BUY" /\ n > 0 THEN n ELSE 0
  /\ SharesHeld(new) = LedgerAfter(SharesHeld(rs), action, n)

LEMMA NoTradeFacts ==
  ASSUME NEW rs \in Seq(Row), NEW action \in Trades, NEW n \in Int, NEW asOf \in Nat,
         n <= 0 \/ action = "HOLD"
  PROVE  Trade(rs, action, n, asOf, rs)
<1>1. SharesOf(rs, BoughtOn(rs, asOf)) \in Nat /\ SharesHeld(rs) \in Nat /\ Len(rs) \in Nat
  BY SharesType, SharesHeldType, RowsFinite DEF BoughtOn
<1>2. ~(action = "BUY" /\ n > 0)
  OBVIOUS
<1>3. LedgerAfter(SharesHeld(rs), action, n) = SharesHeld(rs)
  BY DEF LedgerAfter, PositionAfter
<1> QED BY <1>1, <1>2, <1>3 DEF Trade

LEMMA BoughtFacts ==
  ASSUME NEW rs \in Seq(Row), NEW n \in Nat, n > 0, NEW fill \in Int, NEW asOf \in Nat
  PROVE  Trade(rs, "BUY", n, asOf, Bought(rs, n, fill, asOf))
<1> DEFINE lot == NewLot(n, fill, asOf)
           new == Bought(rs, n, fill, asOf)
           last == Len(rs) + 1
<1>1. lot \in Row /\ lot.opened = asOf /\ lot.shares = n /\ lot.status = "OPEN"
  BY DEF NewLot, Row
<1>2. new = Append(rs, lot)
  BY DEF Bought
<1> HIDE DEF lot, new
<1>3. Len(rs) \in Nat /\ DOMAIN rs = 1..Len(rs)
  BY RowsFinite
<1>4. /\ new \in Seq(Row) /\ Len(new) = last /\ DOMAIN new = DOMAIN rs \cup {last}
      /\ new[last] = lot /\ \A k \in DOMAIN rs : new[k] = rs[k]
  BY <1>1, <1>2, <1>3
<1>5. last \notin DOMAIN rs /\ Len(rs) <= Len(new)
  BY <1>3, <1>4
<1>6. ASSUME NEW ids \in SUBSET DOMAIN rs
      PROVE  /\ SharesOf(new, ids) = SharesOf(rs, ids)
             /\ SharesOf(new, ids \cup {last}) = n + SharesOf(rs, ids)
  <2>1. ids \in SUBSET (DOMAIN new \cap DOMAIN rs) /\ ids \cup {last} \in SUBSET DOMAIN new
    BY <1>4
  <2>2. SharesOf(new, ids) = SharesOf(rs, ids)
    BY <1>4, <2>1, SharesCongruent
  <2>3. SharesOf(new, ids \cup {last}) = new[last].shares + SharesOf(new, (ids \cup {last}) \ {last})
    BY <1>4, <2>1, SharesWithout
  <2>4. (ids \cup {last}) \ {last} = ids
    BY <1>5
  <2> QED BY <1>1, <1>4, <2>2, <2>3, <2>4
<1>7. \A k \in DOMAIN new : new[k].opened = asOf \/ \E j \in DOMAIN rs : new[k].opened = rs[j].opened
  BY <1>1, <1>4
<1>8. \A k \in DOMAIN rs : rs[k].status = "CLOSED" => new[k] = rs[k]
  BY <1>4
<1>9. ASSUME NEW day, day # asOf
      PROVE  SharesOf(new, BoughtOn(new, day)) = SharesOf(rs, BoughtOn(rs, day))
  <2>1. BoughtOn(new, day) = BoughtOn(rs, day) /\ BoughtOn(rs, day) \in SUBSET DOMAIN rs
    BY <1>1, <1>4, <1>9 DEF BoughtOn
  <2> QED BY <1>6, <2>1
<1>10. SharesOf(new, BoughtOn(new, asOf)) = SharesOf(rs, BoughtOn(rs, asOf)) + n
  <2>1. /\ BoughtOn(new, asOf) = BoughtOn(rs, asOf) \cup {last}
        /\ BoughtOn(rs, asOf) \in SUBSET DOMAIN rs
    BY <1>1, <1>4 DEF BoughtOn
  <2>2. SharesOf(rs, BoughtOn(rs, asOf)) \in Nat
    BY <2>1, SharesType
  <2>3. SharesOf(new, BoughtOn(new, asOf)) = n + SharesOf(rs, BoughtOn(rs, asOf))
    BY <1>6, <2>1
  <2> QED BY <2>2, <2>3
<1>11. SharesHeld(new) = SharesHeld(rs) + n
  <2>1. OpenIds(new) = OpenIds(rs) \cup {last} /\ OpenIds(rs) \in SUBSET DOMAIN rs
    BY <1>1, <1>4 DEF OpenIds
  <2>2. SharesHeld(rs) \in Nat
    BY SharesHeldType
  <2>3. SharesHeld(new) = n + SharesHeld(rs)
    BY <1>6, <2>1 DEF SharesHeld
  <2> QED BY <2>2, <2>3
<1>12. LedgerAfter(SharesHeld(rs), "BUY", n) = SharesHeld(rs) + n
  BY DEF LedgerAfter, PositionAfter
<1> DEFINE bought == IF "BUY" = "BUY" /\ n > 0 THEN n ELSE 0
<1>13. bought = n
  OBVIOUS
<1> HIDE DEF bought
<1>14. SharesOf(new, BoughtOn(new, asOf)) = SharesOf(rs, BoughtOn(rs, asOf)) + bought
  BY <1>10, <1>13
<1>15. SharesHeld(new) = LedgerAfter(SharesHeld(rs), "BUY", n)
  BY <1>11, <1>12
<1> QED BY <1>4, <1>5, <1>7, <1>8, <1>9, <1>14, <1>15 DEF Trade, new, bought

LEMMA SaleFacts ==
  ASSUME NEW rs \in Seq(Row), NEW n \in Nat, n > 0, NEW fill \in Int, NEW asOf \in Nat,
         n <= SharesHeld(rs)
  PROVE  Trade(rs, "SELL", n, asOf, Sold(rs, n, fill, asOf))
<1> DEFINE new == Sold(rs, n, fill, asOf)
<1>1. /\ new \in Seq(Row) /\ Len(rs) <= Len(new)
      /\ \A k \in DOMAIN rs : rs[k].status = "CLOSED" => new[k] = rs[k]
      /\ \A k \in DOMAIN new : \E j \in DOMAIN rs : new[k].opened = rs[j].opened
      /\ \A day : SharesOf(new, BoughtOn(new, day)) = SharesOf(rs, BoughtOn(rs, day))
      /\ SharesHeld(new) = SharesHeld(rs) - n
  BY SoldFacts
<1> HIDE DEF new
<1>2. SharesOf(rs, BoughtOn(rs, asOf)) \in Nat
  BY SharesType DEF BoughtOn
<1>3. LedgerAfter(SharesHeld(rs), "SELL", n) = SharesHeld(rs) - n
  BY DEF LedgerAfter, PositionAfter
<1>4. Trade(rs, "SELL", n, asOf, new)
  BY <1>1, <1>2, <1>3 DEF Trade
<1> QED BY <1>4 DEF new

LEMMA TradeFacts ==
  ASSUME NEW rs \in Seq(Row), NEW action \in Trades, NEW n \in Int, NEW fill \in Int,
         NEW asOf \in Nat, ~Refuses(rs, action, n)
  PROVE  Trade(rs, action, n, asOf, AfterTrade(rs, action, n, fill, asOf))
<1>1. CASE n <= 0
  BY <1>1, NoTradeFacts DEF AfterTrade
<1>2. CASE n > 0 /\ action = "BUY"
  BY <1>2, BoughtFacts DEF AfterTrade
<1>3. CASE n > 0 /\ action = "SELL"
  <2>1. n <= SharesHeld(rs)
    BY <1>3, SharesHeldType DEF Refuses
  <2> QED BY <1>3, <2>1, SaleFacts DEF AfterTrade
<1>4. CASE n > 0 /\ action = "HOLD"
  BY <1>4, NoTradeFacts DEF AfterTrade
<1> QED BY <1>1, <1>2, <1>3, <1>4 DEF Trades

-----------------------------------------------------------------------------
(* The recorded run *)

\* The rows a day may record, for a position within the cap.
Recorded ==
  {DecisionRow(t, current, v, p) : t \in Proposals, current \in 0..MaxPositionQty,
                                   v \in Vars, p \in MarketPrices \cup {None}}

\* Every lot was opened on a day that was decided, every share is accounted
\* for, and the position is within the cap.
RInv ==
  /\ decisions \in Seq(Recorded) /\ Len(decisions) <= Len(TradingDays)
  /\ outcomes \in Seq(Row)
  /\ \A k \in DOMAIN outcomes : \E i \in DOMAIN decisions : outcomes[k].opened = TradingDays[i]
  /\ EveryShareAccounted
  /\ SharesHeld(outcomes) \in 0..MaxPositionQty
-----------------------------------------------------------------------------
(* What the script has paid *)

\* The dearest call.
Dearest == Max(CallCosts)

\* What a call costs is bounded: max_tokens of the model.
CostsBounded == CallCosts # {} /\ \E n \in Nat : CallCosts \subseteq 0..n

\* The explanations a script has stored.
StoredBy(s) == {i \in DOMAIN explained : explained[i] = s}
Stored(s) == Cardinality(StoredBy(s))

States == {"idle", "next", "store", "reported", "raised"}

\* Between two rows a script has paid for nothing but what it stored; with an
\* answer in hand, for one more.
PaidOf(s) ==
  /\ pc[s] \in {"idle", "next", "reported"} => spent[s] <= Stored(s) * Dearest
  /\ spent[s] <= (Stored(s) + 1) * Dearest
  /\ spent[s] <= CostCap + Dearest
  /\ pc[s] = "idle" \/ done[s] = 0 => spent[s] = 0

SInv ==
  /\ IsFiniteSet(DOMAIN explained)
  /\ pc \in [Scripts -> States]
  /\ done \in [Scripts -> Nat] /\ spent \in [Scripts -> Nat]
  /\ DOMAIN rows = Scripts
  /\ \A s \in Scripts : PaidOf(s)
-----------------------------------------------------------------------------
(* The recorded run keeps its invariant *)

\* The shares a recorded row bought.
SharesBought(d) ==
  IF OnTape(d.price) /\ d.ruling.action = "BUY" /\ d.ruling.qty > 0 THEN d.ruling.qty ELSE 0

ClosedKept ==
  \A i \in DOMAIN outcomes :
    outcomes[i].status = "CLOSED" => i \in DOMAIN outcomes' /\ outcomes'[i] = outcomes[i]

LEMMA Accounted ==
  EveryShareAccounted <=>
    \A i \in DOMAIN decisions :
      SharesOf(outcomes, BoughtOn(outcomes, TradingDays[i])) = SharesBought(decisions[i])
BY DEF EveryShareAccounted, BoughtOn, SharesBought

LEMMA DaysDiffer ==
  ASSUME NEW i \in DOMAIN TradingDays, NEW j \in DOMAIN TradingDays, i < j
  PROVE  TradingDays[i] # TradingDays[j] /\ TradingDays[i] \in Nat /\ TradingDays[j] \in Nat
<1>1. TradingDays[i] < TradingDays[j]
  BY RecordedConstants
<1>2. TradingDays[i] \in Nat /\ TradingDays[j] \in Nat
  BY RecordedConstants
<1> QED BY <1>1, <1>2

\* What the day's trade makes of the rows.
LEMMA DayTrades ==
  ASSUME NEW rs \in Seq(Row), SharesHeld(rs) \in 0..MaxPositionQty,
         NEW t \in Proposals, NEW v \in Vars, NEW p \in MarketPrices, NEW asOf \in Nat,
         LET r == Gate(t, SharesHeld(rs), v) IN ~Refuses(rs, r.action, r.qty)
  PROVE  LET r   == Gate(t, SharesHeld(rs), v)
             new == AfterTrade(rs, r.action, r.qty, Fill(p, r.action), asOf)
         IN  Trade(rs, r.action, r.qty, asOf, new) /\ SharesHeld(new) \in 0..MaxPositionQty
<1> DEFINE held == SharesHeld(rs)
           r == Gate(t, held, v)
           fill == Fill(p, r.action)
           new == AfterTrade(rs, r.action, r.qty, fill, asOf)
<1>1. t \in Proposal /\ v \in Int \cup {NoVar} /\ held \in Int /\ p \in Int
  BY RecordedConstants, RiskConstants
<1>2. r \in Ruling
  BY <1>1, GateType
<1>3. LedgerAfter(held, r.action, r.qty) \in 0..MaxPositionQty
  BY <1>1, GateKeepsCap
<1> HIDE DEF r
<1>4. r.action \in Trades /\ r.qty \in Int
  BY <1>2 DEF Ruling
<1>5. fill \in Int
  <2>1. Unit \in Int /\ SlipBps \in Int
    BY ReplayConstants
  <2>2. p * (Unit + SlipBps) \in Int /\ p * (Unit - SlipBps) \in Int /\ p * Unit \in Int
    BY <1>1, <2>1
  <2> QED BY <2>2 DEF Fill
<1>6. Trade(rs, r.action, r.qty, asOf, new)
  <2>1. ~Refuses(rs, r.action, r.qty)
    BY DEF r
  <2> HIDE DEF fill
  <2> QED BY <1>4, <1>5, <2>1, TradeFacts
<1>7. SharesHeld(new) \in 0..MaxPositionQty
  BY <1>3, <1>6 DEF Trade
<1> QED BY <1>6, <1>7 DEF r

LEMMA RecordedQty ==
  ASSUME NEW d \in Recorded
  PROVE  d.ruling \in Ruling /\ d.ruling.qty \in Int
<1>1. PICK t \in Proposals, current \in 0..MaxPositionQty, v \in Vars, p \in MarketPrices \cup {None} :
        d = DecisionRow(t, current, v, p)
  BY DEF Recorded
<1>2. t \in Proposal /\ v \in Int \cup {NoVar} /\ current \in Int
  BY RecordedConstants, RiskConstants
<1>3. d.ruling = Gate(t, current, v)
  BY <1>1 DEF DecisionRow
<1>4. d.ruling \in Ruling
  BY <1>2, <1>3, GateType
<1> QED BY <1>4 DEF Ruling

\* A simulated day, as the proofs below use it.
LEMMA DayFacts ==
  ASSUME RInv, SimulateDay
  PROVE  \E d \in Recorded, asOf \in Nat :
           /\ Len(decisions) + 1 \in DOMAIN TradingDays
           /\ asOf = TradingDays[Len(decisions) + 1]
           /\ decisions' = Append(decisions, d)
           /\ IF OnTape(d.price)
              THEN Trade(outcomes, d.ruling.action, d.ruling.qty, asOf, outcomes')
              ELSE outcomes' = outcomes
           /\ SharesHeld(outcomes)' \in 0..MaxPositionQty
<1>1. PICK t \in Proposals, v \in Vars, p \in MarketPrices \cup {None} :
        LET d    == DecisionRow(t, SharesHeld(outcomes), v, p)
            asOf == TradingDays[Len(decisions) + 1]
        IN  /\ ~Refuses(outcomes, d.ruling.action, d.ruling.qty)
            /\ decisions' = Append(decisions, d)
            /\ outcomes' = Executed(d, asOf)
  BY DEF SimulateDay
<1> DEFINE d    == DecisionRow(t, SharesHeld(outcomes), v, p)
           asOf == TradingDays[Len(decisions) + 1]
           r    == Gate(t, SharesHeld(outcomes), v)
<1>2. outcomes \in Seq(Row) /\ SharesHeld(outcomes) \in 0..MaxPositionQty
  BY DEF RInv
<1>3. d.ruling = r /\ d.price = p
  BY DEF DecisionRow
<1>4. d \in Recorded
  BY <1>2 DEF Recorded
<1>5. Len(decisions) + 1 \in DOMAIN TradingDays
  <2>1. Len(decisions) \in Nat
    BY DEF RInv
  <2>2. TradingDays \in Seq(Nat) /\ Len(decisions) < Len(TradingDays)
    BY RecordedConstants DEF SimulateDay
  <2> QED BY <2>1, <2>2
<1>6. asOf \in Nat
  BY <1>5, RecordedConstants
<1> HIDE DEF d, asOf, r
<1>7. /\ ~Refuses(outcomes, r.action, r.qty)
      /\ decisions' = Append(decisions, d)
      /\ outcomes' = Executed(d, asOf)
  BY <1>1, <1>3 DEF d, asOf
<1>8. CASE OnTape(p)
  <2> DEFINE new == AfterTrade(outcomes, r.action, r.qty, Fill(p, r.action), asOf)
  <2>1. p \in MarketPrices
    BY <1>8 DEF OnTape
  <2>2. Trade(outcomes, r.action, r.qty, asOf, new) /\ SharesHeld(new) \in 0..MaxPositionQty
    BY <1>2, <1>6, <1>7, <2>1, DayTrades DEF r
  <2>3. outcomes' = new
    BY <1>3, <1>7, <1>8 DEF Executed
  <2> HIDE DEF new
  <2>4. SharesHeld(outcomes)' = SharesHeld(new)
    BY <2>3
  <2> QED BY <1>3, <1>4, <1>5, <1>6, <1>7, <1>8, <2>2, <2>3, <2>4 DEF asOf
<1>9. CASE ~OnTape(p)
  <2>1. outcomes' = outcomes
    BY <1>3, <1>7, <1>9 DEF Executed
  <2>2. SharesHeld(outcomes)' = SharesHeld(outcomes)
    BY <2>1
  <2> QED BY <1>2, <1>3, <1>4, <1>5, <1>6, <1>7, <1>9, <2>1, <2>2 DEF asOf
<1> QED BY <1>8, <1>9

LEMMA RInit ==
  ASSUME Init
  PROVE  RInv
<1>1. decisions = <<>> /\ outcomes = <<>>
  BY DEF Init
<1>2. /\ decisions \in Seq(Recorded) /\ Len(decisions) = 0 /\ DOMAIN decisions = {}
      /\ outcomes \in Seq(Row) /\ DOMAIN outcomes = {}
  BY <1>1
<1>3. Len(TradingDays) \in Nat
  BY RecordedConstants
<1>4. OpenIds(outcomes) = {}
  BY <1>2 DEF OpenIds
<1>5. SharesHeld(outcomes) = 0
  BY <1>4, SharesOfNone DEF SharesHeld
<1>6. EveryShareAccounted
  BY <1>2 DEF EveryShareAccounted
<1> QED BY <1>2, <1>3, <1>5, <1>6, RiskConstants DEF RInv

LEMMA RStep ==
  ASSUME RInv, SimulateDay
  PROVE  RInv' /\ ClosedKept
<1>1. PICK d \in Recorded, asOf \in Nat :
        /\ Len(decisions) + 1 \in DOMAIN TradingDays
        /\ asOf = TradingDays[Len(decisions) + 1]
        /\ decisions' = Append(decisions, d)
        /\ IF OnTape(d.price)
           THEN Trade(outcomes, d.ruling.action, d.ruling.qty, asOf, outcomes')
           ELSE outcomes' = outcomes
        /\ SharesHeld(outcomes)' \in 0..MaxPositionQty
  BY DayFacts
<1> DEFINE last == Len(decisions) + 1
<1>2. /\ decisions \in Seq(Recorded) /\ Len(decisions) \in Nat
      /\ DOMAIN decisions = 1..Len(decisions)
      /\ Len(decisions) <= Len(TradingDays)
      /\ DOMAIN TradingDays = 1..Len(TradingDays) /\ Len(TradingDays) \in Nat
      /\ outcomes \in Seq(Row)
  BY RecordedConstants DEF RInv
<1>3. /\ decisions' \in Seq(Recorded) /\ Len(decisions') = last
      /\ DOMAIN decisions' = DOMAIN decisions \cup {last}
      /\ decisions'[last] = d /\ last \notin DOMAIN decisions
      /\ \A i \in DOMAIN decisions : decisions'[i] = decisions[i]
  BY <1>1, <1>2
<1>4. Len(decisions') <= Len(TradingDays)
  BY <1>1, <1>2, <1>3
<1>5. \A i \in DOMAIN decisions : i \in DOMAIN TradingDays /\ TradingDays[i] # asOf
  <2>1. \A i \in DOMAIN decisions : i \in DOMAIN TradingDays /\ i < last
    BY <1>2
  <2> HIDE DEF last
  <2> QED BY <1>1, <2>1, DaysDiffer DEF last
<1>6. \A k \in DOMAIN outcomes : outcomes[k].opened # asOf
  BY <1>5 DEF RInv
<1>7. SharesOf(outcomes, BoughtOn(outcomes, asOf)) = 0
  <2>1. BoughtOn(outcomes, asOf) = {}
    BY <1>6 DEF BoughtOn
  <2> QED BY <2>1, SharesOfNone
<1>8. /\ outcomes' \in Seq(Row) /\ ClosedKept
      /\ \A k \in DOMAIN outcomes' :
           outcomes'[k].opened = asOf \/ \E j \in DOMAIN outcomes : outcomes'[k].opened = outcomes[j].opened
      /\ \A day : day # asOf =>
           SharesOf(outcomes', BoughtOn(outcomes', day)) = SharesOf(outcomes, BoughtOn(outcomes, day))
      /\ SharesOf(outcomes', BoughtOn(outcomes', asOf)) = SharesBought(d)
  <2>1. CASE OnTape(d.price)
    <3>1. Trade(outcomes, d.ruling.action, d.ruling.qty, asOf, outcomes')
      BY <1>1, <2>1
    <3>2. outcomes' \in Seq(Row) /\ Len(outcomes) <= Len(outcomes')
      BY <3>1 DEF Trade
    <3>3. DOMAIN outcomes \subseteq DOMAIN outcomes'
      <4>1. DOMAIN outcomes = 1..Len(outcomes) /\ Len(outcomes) \in Nat
        BY <1>2
      <4>2. DOMAIN outcomes' = 1..Len(outcomes') /\ Len(outcomes') \in Nat
        BY <3>2
      <4> QED BY <3>2, <4>1, <4>2
    <3>4. ClosedKept
      BY <3>1, <3>3 DEF Trade, ClosedKept
    <3>5. SharesOf(outcomes', BoughtOn(outcomes', asOf)) = SharesBought(d)
      <4> DEFINE bought == IF d.ruling.action = "BUY" /\ d.ruling.qty > 0 THEN d.ruling.qty ELSE 0
      <4>1. SharesOf(outcomes', BoughtOn(outcomes', asOf)) = 0 + bought
        BY <1>7, <3>1 DEF Trade
      <4>2. SharesBought(d) = bought
        BY <2>1 DEF SharesBought
      <4>3. d.ruling.qty \in Int
        BY <1>1, RecordedQty
      <4>4. bought \in Int
        BY <4>3
      <4> HIDE DEF bought
      <4> QED BY <4>1, <4>2, <4>4
    <3> QED BY <3>1, <3>2, <3>4, <3>5 DEF Trade
  <2>2. CASE ~OnTape(d.price)
    BY <1>1, <1>2, <1>7, <2>2 DEF SharesBought, ClosedKept
  <2> QED BY <2>1, <2>2
<1>9. \A k \in DOMAIN outcomes' : \E i \in DOMAIN decisions' : outcomes'[k].opened = TradingDays[i]
  BY <1>1, <1>3, <1>8 DEF RInv
<1>10. EveryShareAccounted'
  <2>1. \A i \in DOMAIN decisions' :
          SharesOf(outcomes', BoughtOn(outcomes', TradingDays[i])) = SharesBought(decisions'[i])
    <3>1. ASSUME NEW i \in DOMAIN decisions
          PROVE  SharesOf(outcomes', BoughtOn(outcomes', TradingDays[i])) = SharesBought(decisions'[i])
      <4>1. SharesOf(outcomes, BoughtOn(outcomes, TradingDays[i])) = SharesBought(decisions[i])
        BY Accounted DEF RInv
      <4> QED BY <1>3, <1>5, <1>8, <4>1
    <3> QED BY <1>1, <1>3, <1>8, <3>1
  <2> QED BY <2>1 DEF EveryShareAccounted, BoughtOn, SharesBought
<1> QED BY <1>1, <1>3, <1>4, <1>8, <1>9, <1>10 DEF RInv
\* The quantity of a recorded decision that the budget changed can be rebuilt.
LEMMA RebuiltQuantity ==
  ASSUME NEW d \in Recorded, IsTriggered(d)
  PROVE  FinalQuantity(d) = d.ruling.qty
<1>1. PICK t \in Proposals, current \in 0..MaxPositionQty, v \in Vars, p \in MarketPrices \cup {None} :
        d = DecisionRow(t, current, v, p)
  BY DEF Recorded
<1> DEFINE v1   == V1Rules(t, current)
           most == VarMaxQty(v)
           room == most - current
<1>2. /\ d.ruling = Gate(t, current, v) /\ d.flags = RiskFlags(t, current, v)
      /\ d.current = current /\ d.varMax = IF v = NoVar THEN None ELSE most
  BY <1>1 DEF DecisionRow
<1>3. t \in Proposal /\ v \in Int \cup {NoVar} /\ current \in Int
  BY RecordedConstants, RiskConstants
<1>4. v # NoVar
  BY <1>2 DEF IsTriggered, TriggerFlags, RiskFlags
<1>5. v1 \in Ruling /\ most \in Int
  BY <1>3, <1>4, V1RulesType, VarMaxQtyRange, RiskConstants
<1>6. v1.qty \in Int /\ room \in Int
  BY <1>3, <1>5 DEF Ruling
<1> HIDE DEF v1, most
<1>7. d.flags = {f \in {"over_var_budget", "var_budget_veto", "var_budget_scale"} :
                   \/ f = "over_var_budget" /\ room < 0
                   \/ f = "var_budget_veto" /\ v1.action = "BUY" /\ room <= 0
                   \/ f = "var_budget_scale" /\ v1.action = "BUY" /\ room > 0 /\ v1.qty > room}
  BY <1>2, <1>4 DEF RiskFlags, v1, most
<1>8. d.ruling = IF v1.action # "BUY" THEN v1
                 ELSE IF room <= 0 THEN NoTrade("VETO")
                 ELSE IF v1.qty > room THEN Rule("SCALE", "BUY", room) ELSE v1
  BY <1>2, <1>4 DEF Gate, BudgetRule, v1, most
<1>9. d.varMax - d.current = room
  BY <1>2, <1>4
<1> HIDE DEF room
<1>10. CASE "var_budget_veto" \in d.flags
  <2>1. d.ruling = NoTrade("VETO")
    BY <1>7, <1>8, <1>10
  <2> QED BY <2>1 DEF NoTrade, Rule, FinalQuantity
<1>11. CASE "var_budget_scale" \in d.flags
  <2>1. d.ruling = Rule("SCALE", "BUY", room)
    BY <1>6, <1>7, <1>8, <1>11
  <2> QED BY <1>9, <1>11, <2>1 DEF Rule, FinalQuantity
<1> QED BY <1>10, <1>11 DEF IsTriggered, TriggerFlags
-----------------------------------------------------------------------------
(* The scripts keep theirs *)

LEMMA DearestIsMost ==
  ASSUME CostsBounded
  PROVE  Dearest \in Nat /\ \A cost \in CallCosts : cost \in Nat /\ cost <= Dearest
<1>1. \E x \in CallCosts : \A y \in CallCosts : y <= x
  BY GreatestOf DEF CostsBounded
<1>2. \A x \in CallCosts : x \in Nat
  BY ExplainConstants
<1>3. \E x \in CallCosts : \A y \in CallCosts : x >= y
  BY <1>1, <1>2
<1>4. Dearest \in CallCosts /\ \A y \in CallCosts : Dearest >= y
  BY <1>3 DEF Dearest, Max
<1> QED BY <1>2, <1>4

\* The products that PaidOf compares with.
LEMMA StoredFacts ==
  ASSUME CostsBounded, IsFiniteSet(DOMAIN explained), NEW s \in Scripts
  PROVE  /\ Stored(s) \in Nat /\ IsFiniteSet(StoredBy(s))
         /\ Stored(s) * Dearest \in Nat
         /\ (Stored(s) + 1) * Dearest = Stored(s) * Dearest + Dearest
<1>1. IsFiniteSet(StoredBy(s))
  BY FS_Subset DEF StoredBy
<1>2. Stored(s) \in Nat
  BY <1>1, FS_CardinalityType DEF Stored
<1>3. Dearest \in Nat
  BY DearestIsMost
<1> DEFINE k == Stored(s)
           m == Dearest
<1>4. k \in Nat /\ m \in Nat
  BY <1>2, <1>3
<1> HIDE DEF k, m
<1>5. k * m \in Nat /\ (k + 1) * m = k * m + m
  BY <1>4
<1> QED BY <1>1, <1>2, <1>5 DEF k, m

\* A script that is not likely to cross its cap has not crossed it.
LEMMA NotCrossed ==
  ASSUME NEW s \in Scripts, SInv, ~LikelyToCross(s)
  PROVE  spent[s] <= CostCap
<1> DEFINE paid == spent[s]
           n == done[s]
<1>1. paid \in Nat /\ n \in Nat /\ CostCap \in Nat
  BY ExplainConstants DEF SInv
<1>2. n = 0 => paid = 0
  BY DEF SInv, PaidOf
<1>3. n > 0 => paid * (n + 1) <= CostCap * n
  <2>1. ~(n > 0 /\ paid * (n + 1) > CostCap * n)
    BY DEF LikelyToCross
  <2>2. paid * (n + 1) \in Int /\ CostCap * n \in Int
    BY <1>1
  <2> DEFINE a == paid * (n + 1)
             b == CostCap * n
  <2>3. a \in Int /\ b \in Int /\ ~(n > 0 /\ a > b)
    BY <2>1, <2>2
  <2> HIDE DEF a, b, n
  <2>4. n > 0 => a <= b
    BY <2>3
  <2> QED BY <2>4 DEF a, b
<1> HIDE DEF paid, n
<1>4. SUFFICES ASSUME paid > CostCap PROVE FALSE
  BY <1>1 DEF paid
<1>5. n > 0
  BY <1>1, <1>2, <1>4
<1> DEFINE over == paid - CostCap
<1>6. over \in Nat /\ over > 0 /\ paid = CostCap + over
  BY <1>1, <1>4
<1> HIDE DEF over
<1>7. /\ CostCap * n \in Nat /\ over * (n + 1) \in Nat /\ over * (n + 1) > 0
      /\ CostCap * (n + 1) = CostCap * n + CostCap
  BY <1>1, <1>6
<1>8. paid * (n + 1) = CostCap * (n + 1) + over * (n + 1)
  BY <1>1, <1>6
<1> DEFINE a == CostCap * n
           b == over * (n + 1)
           c == paid * (n + 1)
<1>9. a \in Nat /\ b \in Nat /\ b > 0 /\ c = a + CostCap + b /\ c <= a
  BY <1>3, <1>5, <1>7, <1>8
<1> HIDE DEF a, b, c
<1> QED BY <1>1, <1>9

LEMMA SInit ==
  ASSUME CostsBounded, ScriptInit
  PROVE  SInv
<1>1. DOMAIN explained = {} /\ IsFiniteSet(DOMAIN explained)
  BY FS_EmptySet DEF ScriptInit
<1>2. /\ pc \in [Scripts -> States] /\ done \in [Scripts -> Nat] /\ spent \in [Scripts -> Nat]
      /\ DOMAIN rows = Scripts
      /\ \A s \in Scripts : pc[s] = "idle" /\ spent[s] = 0
  BY DEF ScriptInit, States
<1>3. ASSUME NEW s \in Scripts
      PROVE  PaidOf(s)
  <2>1. /\ Stored(s) * Dearest \in Nat
        /\ (Stored(s) + 1) * Dearest = Stored(s) * Dearest + Dearest
        /\ Dearest \in Nat /\ CostCap \in Nat /\ spent[s] = 0
    BY <1>1, <1>2, StoredFacts, DearestIsMost, ExplainConstants
  <2> DEFINE a == Stored(s) * Dearest
             b == (Stored(s) + 1) * Dearest
  <2>2. a \in Nat /\ b = a + Dearest
    BY <2>1
  <2> HIDE DEF a, b
  <2>3. 0 <= a /\ 0 <= b /\ 0 <= CostCap + Dearest
    BY <2>1, <2>2
  <2> QED BY <2>1, <2>3 DEF PaidOf, a, b
<1> QED BY <1>1, <1>2, <1>3 DEF SInv

\* A step of one script leaves what the others have paid and stored.
LEMMA OtherScripts ==
  ASSUME SInv, NEW s \in Scripts, NEW o \in Scripts, o # s,
         pc'[o] = pc[o], done'[o] = done[o], spent'[o] = spent[o], StoredBy(o)' = StoredBy(o)
  PROVE  PaidOf(o)'
<1>1. PaidOf(o)
  BY DEF SInv
<1>2. Stored(o)' = Stored(o)
  BY DEF Stored
<1>3. Dearest' = Dearest
  BY DEF Dearest
<1> QED BY <1>1, <1>2, <1>3 DEF PaidOf
LEMMA ScriptTypes ==
  ASSUME SInv, NEW s \in Scripts, ScriptStep(s)
  PROVE  /\ IsFiniteSet(DOMAIN explained)'
         /\ pc' \in [Scripts -> States]
         /\ done' \in [Scripts -> Nat] /\ spent' \in [Scripts -> Nat]
         /\ DOMAIN rows' = Scripts
<1>1. IsFiniteSet(DOMAIN explained)'
  <2>1. CASE Store(s)
    <3>1. DOMAIN explained' = DOMAIN explained \cup {Head(rows[s])}
      BY <2>1 DEF Store
    <3> QED BY <3>1, FS_AddElement DEF SInv
  <2>2. CASE ~Store(s)
    <3>1. explained' = explained
      BY <2>2 DEF ScriptStep, Select, Stop, Call, NothingToExplain, StoreRefused, Break
    <3> QED BY <3>1 DEF SInv
  <2> QED BY <2>1, <2>2
<1>2. pc' \in [Scripts -> States]
  BY DEF SInv, States, ScriptStep, Select, Stop, Call, NothingToExplain, Store, StoreRefused,
         Break, Continue
<1>3. done' \in [Scripts -> Nat]
  BY DEF SInv, ScriptStep, Select, Stop, Call, NothingToExplain, Store, StoreRefused, Break
<1>4. spent' \in [Scripts -> Nat]
  <2>1. CASE Call(s)
    <3>1. PICK cost \in CallCosts : spent' = [spent EXCEPT ![s] = @ + cost]
      BY <2>1 DEF Call
    <3>2. cost \in Nat
      BY ExplainConstants
    <3> QED BY <3>1, <3>2 DEF SInv
  <2>2. CASE ~Call(s)
    BY <2>2 DEF SInv, ScriptStep, Select, Stop, NothingToExplain, Store, StoreRefused, Break
  <2> QED BY <2>1, <2>2
<1>5. DOMAIN rows' = Scripts
  BY DEF SInv, ScriptStep, Select, Stop, Call, NothingToExplain, Store, StoreRefused, Break,
         Continue
<1> QED BY <1>1, <1>2, <1>3, <1>4, <1>5

\* What a script does changes only its own counters and explanations.
LEMMA ScriptLocal ==
  ASSUME SInv, NEW s \in Scripts, ScriptStep(s), NEW o \in Scripts, o # s
  PROVE  PaidOf(o)'
<1>1. pc'[o] = pc[o]
  BY DEF SInv, ScriptStep, Select, Stop, Call, NothingToExplain, Store, StoreRefused, Break,
         Continue
<1>2. done'[o] = done[o]
  BY DEF SInv, ScriptStep, Select, Stop, Call, NothingToExplain, Store, StoreRefused, Break
<1>3. spent'[o] = spent[o]
  BY DEF SInv, ScriptStep, Select, Stop, Call, NothingToExplain, Store, StoreRefused, Break
<1>4. StoredBy(o)' = StoredBy(o)
  <2>1. CASE Store(s)
    <3>1. /\ Head(rows[s]) \notin DOMAIN explained
          /\ explained' = [i \in DOMAIN explained \cup {Head(rows[s])} |->
                             IF i = Head(rows[s]) THEN s ELSE explained[i]]
      BY <2>1 DEF Store
    <3> QED BY <3>1 DEF StoredBy
  <2>2. CASE ~Store(s)
    BY <2>2 DEF StoredBy, ScriptStep, Select, Stop, Call, NothingToExplain, StoreRefused, Break
  <2> QED BY <2>1, <2>2
<1> QED BY <1>1, <1>2, <1>3, <1>4, OtherScripts

\* Paying for nothing, with the explanations as they were.
LEMMA NothingPaid ==
  ASSUME SInv, CostsBounded, NEW s \in Scripts, ScriptStep(s),
         explained' = explained, spent' = spent,
         pc'[s] \in {"idle", "next", "reported"} => pc[s] \in {"idle", "next", "reported"},
         pc'[s] # "idle", done'[s] = 0 => done[s] = 0 \/ pc[s] = "idle"
  PROVE  PaidOf(s)'
<1>1. Stored(s)' = Stored(s) /\ Dearest' = Dearest
  BY DEF Stored, StoredBy, Dearest
<1>2. PaidOf(s)
  BY DEF SInv
<1> QED BY <1>1, <1>2 DEF PaidOf

LEMMA CallPays ==
  ASSUME SInv, CostsBounded, NEW s \in Scripts, Call(s)
  PROVE  PaidOf(s)'
<1>1. PICK cost \in CallCosts : spent' = [spent EXCEPT ![s] = @ + cost]
  BY DEF Call
<1>2. cost \in Nat /\ cost <= Dearest /\ Dearest \in Nat
  BY DearestIsMost
<1>3. spent[s] \in Nat /\ spent'[s] = spent[s] + cost
  BY <1>1 DEF SInv
<1>4. Stored(s)' = Stored(s) /\ Dearest' = Dearest
  BY DEF Call, Stored, StoredBy, Dearest
<1>5. spent[s] <= CostCap
  BY NotCrossed DEF Call
<1>6. pc'[s] = "store" /\ done'[s] # 0
  BY DEF Call, SInv
<1> DEFINE a == Stored(s) * Dearest
           b == (Stored(s) + 1) * Dearest
<1>7. a \in Nat /\ b = a + Dearest /\ spent[s] <= a
  BY StoredFacts DEF Call, SInv, PaidOf
<1> HIDE DEF a, b
<1>8. spent'[s] <= b /\ spent'[s] <= CostCap + Dearest
  BY <1>2, <1>3, <1>5, <1>7, ExplainConstants
<1> QED BY <1>4, <1>6, <1>8 DEF PaidOf, b

LEMMA StorePays ==
  ASSUME SInv, CostsBounded, NEW s \in Scripts, Store(s)
  PROVE  PaidOf(s)'
<1>1. /\ Head(rows[s]) \notin DOMAIN explained
      /\ explained' = [i \in DOMAIN explained \cup {Head(rows[s])} |->
                         IF i = Head(rows[s]) THEN s ELSE explained[i]]
  BY DEF Store
<1>2. StoredBy(s)' = StoredBy(s) \cup {Head(rows[s])} /\ Head(rows[s]) \notin StoredBy(s)
  BY <1>1 DEF StoredBy
<1>3. Stored(s) \in Nat /\ IsFiniteSet(StoredBy(s)) /\ Dearest \in Nat
  BY StoredFacts, DearestIsMost DEF SInv
<1>4. Stored(s)' = Stored(s) + 1
  BY <1>2, <1>3, FS_AddElement DEF Stored
<1>5. spent'[s] = spent[s] /\ done'[s] = done[s] /\ Dearest' = Dearest /\ pc'[s] = "next"
  BY DEF Store, Continue, SInv, Dearest
<1>6. PaidOf(s) /\ pc[s] = "store" /\ spent[s] \in Nat
  BY DEF SInv, Store
<1> DEFINE k == Stored(s) + 1
           m == Dearest
           a == k * m
           b == (k + 1) * m
<1>7. k \in Nat /\ m \in Nat
  BY <1>3
<1>8. a \in Nat /\ b = a + m
  <2> HIDE DEF k, m
  <2> QED BY <1>7
<1>9. spent[s] <= a
  BY <1>6 DEF PaidOf
<1>10. spent[s] <= b
  <2> HIDE DEF a, b, m
  <2> QED BY <1>6, <1>7, <1>8, <1>9
<1>11. spent'[s] <= Stored(s)' * Dearest' /\ spent'[s] <= (Stored(s)' + 1) * Dearest'
  BY <1>4, <1>5, <1>9, <1>10
<1> QED BY <1>5, <1>6, <1>11 DEF PaidOf

LEMMA ScriptKeeps ==
  ASSUME SInv, CostsBounded, NEW s \in Scripts, ScriptStep(s)
  PROVE  SInv'
<1>1. PaidOf(s)'
  <2>1. CASE Select(s)
    BY <2>1, NothingPaid DEF Select, SInv
  <2>2. CASE Stop(s)
    BY <2>2, NothingPaid DEF Stop, SInv
  <2>3. CASE Call(s)
    BY <2>3, CallPays
  <2>4. CASE NothingToExplain(s)
    <3>1. done'[s] # 0 /\ pc'[s] = "next" /\ pc[s] = "next"
      BY <2>4 DEF NothingToExplain, SInv
    <3> QED BY <2>4, <3>1, NothingPaid DEF NothingToExplain
  <2>5. CASE Store(s)
    BY <2>5, StorePays
  <2>6. CASE StoreRefused(s)
    BY <2>6, NothingPaid DEF StoreRefused, SInv
  <2>7. CASE Break(s)
    BY <2>7, NothingPaid DEF Break, SInv
  <2> QED BY <2>1, <2>2, <2>3, <2>4, <2>5, <2>6, <2>7 DEF ScriptStep
<1>2. \A o \in Scripts : PaidOf(o)'
  BY <1>1, ScriptLocal
<1> QED BY <1>2, ScriptTypes DEF SInv

-----------------------------------------------------------------------------
(* Theorems *)

\* The ledger's invariant holds in every state, however the scripts interleave.
THEOREM RecordedInvariant == Spec => []RInv
<1>1. ExplainInit => RInv
  BY RInit DEF ExplainInit
<1>2. RInv /\ [Next]_vars => RInv'
  <2>1. RInv /\ SimulateDay => RInv'
    BY RStep
  <2>2. RInv /\ UNCHANGED runVars => RInv'
    BY DEF RInv, runVars, EveryShareAccounted
  <2> QED BY <2>1, <2>2 DEF Next, vars
<1> QED BY <1>1, <1>2, PTL DEF Spec

\* _record_backtest_trade: the shares bought on a day stay in the rows opened on
\* that day, however sales close and split them.
THEOREM SharesAreAccounted == Spec => []EveryShareAccounted
<1>1. RInv => EveryShareAccounted
  BY DEF RInv
<1> QED BY <1>1, RecordedInvariant, PTL

\* A closed row is never touched again.
THEOREM ClosedRowsStay == Spec => ClosedRowsKept
<1>1. RInv /\ [Next]_vars => [ClosedKept]_runVars
  <2>1. RInv /\ SimulateDay => ClosedKept
    BY RStep
  <2> QED BY <2>1 DEF Next, vars
<1>2. Spec => [][ClosedKept]_runVars
  BY <1>1, RecordedInvariant, PTL DEF Spec
<1> QED BY <1>2 DEF ClosedRowsKept, ClosedKept

\* explain_recorded.py rebuilds the quantity that was ruled.
THEOREM RebuiltIsRuled == Spec => []QuantityRebuilt
<1>1. RInv => QuantityRebuilt
  BY RebuiltQuantity DEF RInv, QuantityRebuilt
<1> QED BY <1>1, RecordedInvariant, PTL

\* The script's invariant holds in every state.
THEOREM ScriptInvariant == ASSUME CostsBounded PROVE Spec => []SInv
<1>1. ExplainInit => SInv
  BY SInit DEF ExplainInit
<1>2. SInv /\ [Next]_vars => SInv'
  <2>1. SInv /\ UNCHANGED scriptVars => SInv'
    BY DEF SInv, PaidOf, Stored, StoredBy, Dearest, scriptVars
  <2>2. ASSUME NEW s \in Scripts, SInv, ScriptStep(s) PROVE SInv'
    BY <2>2, ScriptKeeps
  <2> QED BY <2>1, <2>2 DEF Next, vars
<1> QED BY <1>1, <1>2, PTL DEF Spec

\* However a run of the script ends, and whatever the others explain meanwhile,
\* it has lost one paid answer at most, and passed its cap by one call at most.
THEOREM LossIsBounded == ASSUME CostsBounded PROVE Spec => []LossBounded
<1>1. SInv => LossBounded
  BY DEF SInv, PaidOf, LossBounded, Stored, StoredBy, Dearest
<1> QED BY <1>1, ScriptInvariant, PTL

-----------------------------------------------------------------------------
(* The open shares and the gains, as a trade changes them *)

\* The shares a row contributes to the queue.
Open(lot) == IF lot.status = "OPEN" THEN lot.shares ELSE 0

OpenCounts(rs) == [i \in DOMAIN rs |-> Open(rs[i])]
Entries(rs) == [i \in DOMAIN rs |-> rs[i].entry]
ClosedIds(rs) == DOMAIN rs \ OpenIds(rs)

\* Rows are opened in the order of their ids.
OpenInOrder(rs) == \A i, j \in OpenIds(rs) : i < j => rs[i].opened < rs[j].opened

\* A row contributes a number of shares, at a price.
LEMMA OpenType ==
  ASSUME NEW lot \in Row
  PROVE  Open(lot) \in Nat /\ lot.entry \in Int
BY DEF Open, Row

\* The queue is the rows' open shares, written out row by row.
LEMMA OpenIsSpread ==
  ASSUME NEW rs \in Seq(Row)
  PROVE  /\ OpenShares(rs) = Spread(OpenCounts(rs), Entries(rs), Len(rs))
         /\ Counts(OpenCounts(rs), Len(rs)) /\ Values(Entries(rs), Len(rs))
         /\ \A i \in DOMAIN rs : OpenCounts(rs)[i] = Open(rs[i]) /\ Entries(rs)[i] = rs[i].entry
         /\ OpenShares(rs) \in Seq(Int)
<1> DEFINE q == OpenCounts(rs)
           e == Entries(rs)
<1>1. DOMAIN rs = 1..Len(rs) /\ Len(rs) \in Nat /\ \A i \in DOMAIN rs : rs[i] \in Row
  BY RowsFinite
<1>2. \A i \in DOMAIN rs : q[i] = Open(rs[i]) /\ e[i] = rs[i].entry
  BY DEF OpenCounts, Entries
<1> HIDE DEF q, e
<1>3. \A i \in 1..Len(rs) : q[i] \in Nat /\ e[i] \in Int
  BY <1>1, <1>2, OpenType
<1>4. OpenShares(rs) = Spread(q, e, Len(rs))
  <2>1. [i \in DOMAIN rs |-> [k \in 1..Open(rs[i]) |-> rs[i].entry]] =
          [i \in 1..Len(rs) |-> [k \in 1..q[i] |-> e[i]]]
    BY <1>1, <1>2
  <2> QED BY <2>1 DEF OpenShares, Spread, Run, Copies, Open
<1>5. Counts(q, Len(rs)) /\ Values(e, Len(rs))
  BY <1>3 DEF Counts, Values
<1>6. OpenShares(rs) \in Seq(Int)
  BY <1>1, <1>4, <1>5, SpreadFacts
<1> QED BY <1>2, <1>4, <1>5, <1>6 DEF q, e

\* n shares leave the first open row, and a row without any may come last.
TakesFrom(rs, id, n, new) ==
  /\ Open(new[id]) = rs[id].shares - n /\ new[id].entry = rs[id].entry
  /\ \A k \in DOMAIN rs : k # id => new[k] = rs[k]
  /\ \/ Len(new) = Len(rs)
     \/ Len(new) = Len(rs) + 1 /\ Open(new[Len(rs) + 1]) = 0

\* Shares that leave the oldest open row leave the front of the queue.
LEMMA OpenTaken ==
  ASSUME NEW rs \in Seq(Row), NEW new \in Seq(Row), NEW id \in OpenIds(rs),
         \A k \in OpenIds(rs) : id <= k,
         NEW n \in Nat, n <= rs[id].shares, TakesFrom(rs, id, n, new)
  PROVE  OpenShares(rs) = Copies(n, rs[id].entry) \o OpenShares(new)
<1> DEFINE q == OpenCounts(rs)
           p == OpenCounts(new)
           e == Entries(rs)
           d == Entries(new)
<1>0. PICK m, l : m = Len(rs) /\ l = Len(new)
  OBVIOUS
<1>1. /\ DOMAIN rs = 1..m /\ m \in Nat /\ DOMAIN new = 1..l /\ l \in Nat
      /\ \A i \in DOMAIN rs : rs[i] \in Row
  BY <1>0, RowsFinite
<1>2. id \in 1..m /\ rs[id].status = "OPEN" /\ rs[id].shares \in Nat
  BY <1>1 DEF OpenIds, Row
<1>3. /\ OpenShares(rs) = Spread(q, e, m) /\ Counts(q, m) /\ Values(e, m)
      /\ \A i \in 1..m : q[i] = Open(rs[i]) /\ e[i] = rs[i].entry
  BY <1>0, <1>1, OpenIsSpread
<1>4. /\ OpenShares(new) = Spread(p, d, l) /\ Counts(p, l) /\ Values(d, l)
      /\ \A i \in 1..l : p[i] = Open(new[i]) /\ d[i] = new[i].entry
  BY <1>0, <1>1, OpenIsSpread
<1> HIDE DEF q, p, e, d
<1>5. m <= l /\ (l = m \/ (l = m + 1 /\ p[m + 1] = 0))
  <2>1. l = m \/ (l = m + 1 /\ Open(new[m + 1]) = 0)
    BY <1>0 DEF TakesFrom
  <2>2. l = m + 1 => m + 1 \in 1..l
    BY <1>1
  <2>3. m <= l
    BY <1>1, <2>1
  <2> QED BY <1>4, <2>1, <2>2, <2>3
<1>6. \A i \in 1..m : i \in 1..l
  BY <1>1, <1>5
<1>7. Spread(p, d, l) = Spread(p, d, m)
  <2>1. CASE l = m
    BY <2>1
  <2>2. CASE l = m + 1 /\ p[m + 1] = 0
    <3>1. PICK last \in Nat \ {0} : last = l /\ last - 1 = m
      BY <1>1, <2>2
    <3>2. Spread(p, d, last) = Spread(p, d, last - 1)
      <4>1. Counts(p, last) /\ Values(d, last) /\ p[last] = 0
        BY <1>4, <2>2, <3>1
      <4> QED BY <4>1, SpreadMore
    <3> QED BY <3>1, <3>2
  <2> QED BY <1>5, <2>1, <2>2
<1>8. ASSUME NEW i \in 1..m
      PROVE  /\ d[i] = e[i]
             /\ i # id => p[i] = q[i]
  <2>1. d[i] = new[i].entry /\ e[i] = rs[i].entry /\ p[i] = Open(new[i]) /\ q[i] = Open(rs[i])
    BY <1>3, <1>4, <1>6
  <2> QED BY <1>1, <2>1 DEF TakesFrom
<1>9. Spread(p, d, m) = Spread(p, e, m)
  <2>1. \A i \in 1..m : Run(p, d, i) = Run(p, e, i)
    BY <1>8 DEF Run
  <2> QED BY <1>1, <2>1, SpreadSame
<1>10. q[id] = rs[id].shares /\ p[id] = q[id] - n /\ n <= q[id] /\ e[id] = rs[id].entry
  BY <1>2, <1>3, <1>4, <1>6 DEF TakesFrom, Open
<1>11. \A i \in 1..(id - 1) : q[i] = 0
  <2>1. TAKE i \in 1..(id - 1)
  <2>2. i \in 1..m /\ ~(id <= i)
    BY <1>1, <1>2
  <2>3. rs[i].status # "OPEN"
    BY <1>1, <2>2 DEF OpenIds
  <2> QED BY <1>3, <2>2, <2>3 DEF Open
<1>12. Spread(q, e, m) = Copies(n, e[id]) \o Spread(p, e, m)
  <2>1. \A i \in 1..m : i # id => p[i] = q[i]
    BY <1>8
  <2>2. LessInFront(q, p, m, id, n)
    BY <1>2, <1>10, <1>11, <2>1 DEF LessInFront
  <2> QED BY <1>1, <1>3, <2>2, SpreadTake
<1> QED BY <1>3, <1>4, <1>7, <1>9, <1>10, <1>12

\* What was realized is an amount.
LEMMA PnlType ==
  ASSUME NEW rs \in Seq(Row)
  PROVE  RealizedPnl(rs) \in Int
<1> DEFINE f == [i \in DOMAIN rs |-> rs[i].gain]
           S == ClosedIds(rs)
<1>1. IsFiniteSet(S)
  BY RowsFinite, FS_Subset DEF ClosedIds
<1>2. \A i \in S : f[i] \in Int
  BY RowsFinite DEF ClosedIds, Row
<1> HIDE DEF f, S
<1>3. SumFunctionOnSet(f, S) \in Int
  BY <1>1, <1>2, SumType
<1> QED BY <1>3 DEF RealizedPnl, f, S, ClosedIds

\* A row is closed: its gain is added.
LEMMA PnlOfOneMore ==
  ASSUME NEW rs \in Seq(Row), NEW new \in Seq(Row), NEW x \in DOMAIN new, x \notin ClosedIds(rs),
         ClosedIds(new) = ClosedIds(rs) \cup {x},
         \A k \in ClosedIds(rs) : new[k].gain = rs[k].gain
  PROVE  RealizedPnl(new) = RealizedPnl(rs) + new[x].gain
<1> DEFINE f == [i \in DOMAIN rs |-> rs[i].gain]
           g == [i \in DOMAIN new |-> new[i].gain]
           S == ClosedIds(rs)
<1>1. IsFiniteSet(S)
  BY RowsFinite, FS_Subset DEF ClosedIds
<1>2. S \subseteq DOMAIN rs /\ S \subseteq DOMAIN new
  BY DEF ClosedIds
<1>3. \A i \in S : f[i] \in Int /\ g[i] = f[i]
  BY <1>2, RowsFinite DEF Row
<1>4. g[x] = new[x].gain /\ g[x] \in Int
  BY RowsFinite DEF Row
<1>5. RealizedPnl(rs) = SumFunctionOnSet(f, S) /\ RealizedPnl(new) = SumFunctionOnSet(g, S \cup {x})
  BY DEF RealizedPnl, ClosedIds
<1> HIDE DEF f, g, S
<1>6. x \notin S
  BY DEF S
<1>7. SumFunctionOnSet(g, S \cup {x}) = g[x] + SumFunctionOnSet(g, S)
  BY <1>1, <1>3, <1>4, <1>6, SumWith
<1>8. SumFunctionOnSet(g, S) = SumFunctionOnSet(f, S)
  BY <1>1, <1>3, SumCongruent
<1>9. SumFunctionOnSet(f, S) \in Int
  BY <1>1, <1>3, SumType
<1> QED BY <1>4, <1>5, <1>7, <1>8, <1>9

\* What the loop's turn at the first open lot does to the queue: n shares leave
\* its front, each with its gain.
FromFront(rs, id, n, fill, new) ==
  /\ OpenShares(rs) = Copies(n, rs[id].entry) \o OpenShares(new)
  /\ RealizedPnl(new) = RealizedPnl(rs) + n * (fill - rs[id].entry)
  /\ \A k \in OpenIds(new) : k \in OpenIds(rs) /\ new[k].opened = rs[k].opened

\* Closing the oldest open row takes its shares off the queue's front.
LEMMA CloseIsFront ==
  ASSUME NEW rs \in Seq(Row), NEW id \in OpenIds(rs), \A k \in OpenIds(rs) : id <= k,
         NEW fill \in Int, NEW asOf \in Nat
  PROVE  FromFront(rs, id, rs[id].shares, fill, CloseLot(rs, id, fill, asOf))
<1> DEFINE n == rs[id].shares
           new == CloseLot(rs, id, fill, asOf)
           closed == ClosedPart(rs[id], n, fill, asOf)
<1>1. /\ id \in DOMAIN rs /\ rs[id] \in Row /\ n \in Nat /\ rs[id].entry \in Int
  BY RowsFinite DEF OpenIds, Row
<1>2. /\ new \in Seq(Row) /\ Len(new) = Len(rs) /\ OpenIds(new) = OpenIds(rs) \ {id}
      /\ \A k \in DOMAIN rs : new[k].opened = rs[k].opened
      /\ \A k \in DOMAIN rs : k # id => new[k] = rs[k]
  BY CloseSums
<1>3. /\ closed.status = "CLOSED" /\ closed.entry = rs[id].entry
      /\ closed.gain = (fill - rs[id].entry) * n
  BY <1>1 DEF ClosedPart, Row
<1>4. new[id] = closed
  BY <1>1 DEF CloseLot
<1>5. DOMAIN new = DOMAIN rs
  BY <1>2, RowsFinite
<1> HIDE DEF new, closed
<1>6. OpenShares(rs) = Copies(n, rs[id].entry) \o OpenShares(new)
  <2>1. Open(new[id]) = n - n
    BY <1>1, <1>3, <1>4 DEF Open
  <2>2. TakesFrom(rs, id, n, new)
    BY <1>2, <1>3, <1>4, <2>1 DEF TakesFrom
  <2>3. n \in Nat /\ n <= rs[id].shares
    BY <1>1
  <2> HIDE DEF n
  <2> QED BY <1>2, <2>2, <2>3, OpenTaken
<1>7. RealizedPnl(new) = RealizedPnl(rs) + new[id].gain
  <2>1. id \in DOMAIN new /\ id \notin ClosedIds(rs)
    BY <1>1, <1>5 DEF ClosedIds
  <2>2. ClosedIds(new) = ClosedIds(rs) \cup {id}
    BY <1>1, <1>2, <1>5 DEF ClosedIds
  <2>3. \A k \in ClosedIds(rs) : new[k].gain = rs[k].gain
    BY <1>2 DEF ClosedIds
  <2> QED BY <1>2, <2>1, <2>2, <2>3, PnlOfOneMore
<1>8. new[id].gain = n * (fill - rs[id].entry)
  <2>1. PICK x, y : x = rs[id].entry /\ y = n /\ x \in Int /\ y \in Int
    BY <1>1
  <2>2. (fill - x) * y = y * (fill - x)
    BY <2>1
  <2> QED BY <1>3, <1>4, <2>1, <2>2
<1>9. \A k \in OpenIds(new) : k \in OpenIds(rs) /\ new[k].opened = rs[k].opened
  BY <1>2 DEF OpenIds
<1> QED BY <1>6, <1>7, <1>8, <1>9 DEF FromFront, new

\* Splitting it takes off as many as were asked for.
LEMMA SplitIsFront ==
  ASSUME NEW rs \in Seq(Row), NEW id \in OpenIds(rs), \A k \in OpenIds(rs) : id <= k,
         NEW fill \in Int, NEW asOf \in Nat, NEW n \in Nat, IsPartOf(n, rs[id])
  PROVE  FromFront(rs, id, n, fill, SplitLot(rs, id, n, fill, asOf))
<1> DEFINE new == SplitLot(rs, id, n, fill, asOf)
           closed == ClosedPart(rs[id], n, fill, asOf)
           open == [rs[id] EXCEPT !.shares = @ - n]
           rest == [rs EXCEPT ![id] = open]
           last == Len(rs) + 1
<1>1. /\ id \in DOMAIN rs /\ rs[id] \in Row /\ rs[id].shares \in Nat /\ rs[id].entry \in Int
      /\ rs[id].status = "OPEN" /\ Len(rs) \in Nat /\ DOMAIN rs = 1..Len(rs)
  BY RowsFinite DEF OpenIds, Row
<1>2. /\ new \in Seq(Row) /\ Len(new) = last /\ OpenIds(new) = OpenIds(rs)
      /\ \A k \in DOMAIN rs : new[k].opened = rs[k].opened
      /\ \A k \in DOMAIN rs : k # id => new[k] = rs[k]
  <2>1. Splits(rs, id, n, new)
    BY SplitSums
  <2> HIDE DEF new
  <2> QED BY <2>1 DEF Splits
<1>3. /\ closed.status = "CLOSED" /\ closed.entry = rs[id].entry
      /\ closed.gain = (fill - rs[id].entry) * n
  BY <1>1 DEF ClosedPart, Row
<1>4. open.status = "OPEN" /\ open.shares = rs[id].shares - n /\ open.entry = rs[id].entry
  BY <1>1 DEF Row
<1>5. new[id] = open /\ new[last] = closed /\ DOMAIN new = DOMAIN rs \cup {last} /\ last \notin DOMAIN rs
  <2>1. new = Append(rest, closed)
    BY DEF SplitLot
  <2>2. Len(rest) = Len(rs) /\ rest[id] = open /\ id # last
    BY <1>1
  <2>3. new[last] = closed /\ new[id] = rest[id]
    <3> HIDE DEF new, closed, rest
    <3> QED BY <1>1, <2>1, <2>2
  <2>4. DOMAIN new = 1..last
    <3> HIDE DEF new
    <3> QED BY <1>2, RowsFinite
  <2> QED BY <1>1, <2>2, <2>3, <2>4
<1> HIDE DEF new, closed, open, rest, last
<1>6. OpenShares(rs) = Copies(n, rs[id].entry) \o OpenShares(new)
  <2>1. Open(new[id]) = rs[id].shares - n /\ Open(new[last]) = 0
    BY <1>3, <1>4, <1>5 DEF Open
  <2>2. TakesFrom(rs, id, n, new)
    BY <1>2, <1>4, <1>5, <2>1 DEF TakesFrom, last
  <2>3. n <= rs[id].shares
    <3>1. PICK shares : shares = rs[id].shares
      OBVIOUS
    <3>2. n < shares /\ shares \in Nat
      BY <1>1, <3>1 DEF IsPartOf
    <3> QED BY <3>1, <3>2
  <2> QED BY <1>2, <2>2, <2>3, OpenTaken
<1>7. RealizedPnl(new) = RealizedPnl(rs) + new[last].gain
  <2>1. last \in DOMAIN new /\ last \notin ClosedIds(rs)
    BY <1>5 DEF ClosedIds
  <2>2. ClosedIds(new) = ClosedIds(rs) \cup {last}
    BY <1>2, <1>5 DEF ClosedIds, OpenIds
  <2>3. \A k \in ClosedIds(rs) : new[k].gain = rs[k].gain
    BY <1>2 DEF ClosedIds
  <2> QED BY <1>2, <2>1, <2>2, <2>3, PnlOfOneMore
<1>8. new[last].gain = n * (fill - rs[id].entry)
  <2>1. PICK x : x = rs[id].entry /\ x \in Int
    BY <1>1
  <2>2. (fill - x) * n = n * (fill - x)
    BY <2>1
  <2> QED BY <1>3, <1>5, <2>1, <2>2
<1>9. \A k \in OpenIds(new) : k \in OpenIds(rs) /\ new[k].opened = rs[k].opened
  BY <1>2 DEF OpenIds
<1> QED BY <1>6, <1>7, <1>8, <1>9 DEF FromFront, new

-----------------------------------------------------------------------------
(* A sale takes shares off the queue's front *)

\* What the loop keeps true of the queue: what it has sold was in front.
QueueInv(rs, n, lots, left, fill) ==
  /\ \E sold \in Seq(Int) : /\ OpenShares(rs) = sold \o OpenShares(lots)
                           /\ Len(sold) + left = n
                           /\ RealizedPnl(lots) = RealizedPnl(rs) + Gain(sold, fill)
  /\ \A k \in OpenIds(lots) : k \in OpenIds(rs) /\ lots[k].opened = rs[k].opened

\* n more shares from the front.
LEMMA QueueTurn ==
  ASSUME NEW rs \in Seq(Row), NEW total \in Nat, NEW fill \in Int,
         NEW old \in Seq(Row), NEW left \in Nat, QueueInv(rs, total, old, left, fill),
         NEW new \in Seq(Row), NEW id \in OpenIds(old), NEW n \in Nat, n <= left,
         FromFront(old, id, n, fill, new)
  PROVE  QueueInv(rs, total, new, left - n, fill)
<1>1. PICK sold \in Seq(Int) : /\ OpenShares(rs) = sold \o OpenShares(old)
                               /\ Len(sold) + left = total
                               /\ RealizedPnl(old) = RealizedPnl(rs) + Gain(sold, fill)
  BY DEF QueueInv
<1>2. PICK x \in Int : x = old[id].entry
  BY RowsFinite DEF OpenIds, Row
<1>3. PICK c : c = Copies(n, x) /\ c \in Seq(Int) /\ Len(c) = n
  BY CopiesType
<1>4. PICK q : q = OpenShares(new) /\ q \in Seq(Int)
  BY OpenIsSpread
<1>5. OpenShares(rs) = (sold \o c) \o q
  <2>1. OpenShares(old) = c \o q
    BY <1>2, <1>3, <1>4 DEF FromFront
  <2>2. c \in Seq(Int) /\ q \in Seq(Int)
    BY <1>3, <1>4
  <2>3. (sold \o c) \o q = sold \o (c \o q)
    BY <2>2, Associative
  <2> QED BY <1>1, <2>1, <2>3
<1>6. sold \o c \in Seq(Int) /\ Len(sold \o c) = Len(sold) + n
  BY <1>3, ConcatProperties
<1>7. Gain(sold \o c, fill) = Gain(sold, fill) + n * (fill - x)
  BY <1>3, GainOfCopies
<1>8. RealizedPnl(new) = RealizedPnl(rs) + Gain(sold \o c, fill)
  <2>1. RealizedPnl(new) = RealizedPnl(old) + n * (fill - x)
    BY <1>2 DEF FromFront
  <2>0. n * (fill - x) \in Int /\ RealizedPnl(rs) \in Int /\ Gain(sold, fill) \in Int
    <3>1. Gain(sold, fill) \in Int
      BY <1>2, GainOfOneMore
    <3> QED BY <3>1, PnlType
  <2>2. PICK a, b, d : a = RealizedPnl(rs) /\ b = Gain(sold, fill) /\ d = n * (fill - x)
                       /\ a \in Int /\ b \in Int /\ d \in Int
    BY <2>0
  <2>3. (a + b) + d = a + (b + d)
    BY <2>2
  <2> QED BY <1>1, <1>7, <2>1, <2>2, <2>3
<1>9. Len(sold \o c) + (left - n) = total
  <2>1. PICK a, b : a = Len(sold) /\ b = Len(sold \o c)
    OBVIOUS
  <2>2. a \in Nat /\ a + left = total /\ b = a + n
    BY <1>1, <1>6, <2>1, LenProperties
  <2>3. b + (left - n) = total
    BY <2>2
  <2> QED BY <2>1, <2>3
<1>10. \A k \in OpenIds(new) : k \in OpenIds(rs) /\ new[k].opened = rs[k].opened
  BY DEF QueueInv, FromFront
<1>11. PICK more : more = sold \o c
  OBVIOUS
<1> QED BY <1>4, <1>5, <1>6, <1>8, <1>9, <1>10, <1>11 DEF QueueInv

\* One turn of the loop, at the first open lot that is left.
LEMMA QueueStep ==
  ASSUME NEW rs \in Seq(Row), NEW n \in Nat, NEW fill \in Int, NEW asOf \in Nat,
         NEW T \in SUBSET OpenIds(rs), NEW id \in OpenIds(rs), id \notin T,
         \A k \in OpenIds(rs) : k \notin T => id <= k,
         NEW old, NEW left, SaleInv(rs, n, T, old, left), QueueInv(rs, n, old, left, fill),
         NEW new, NEW rest, SellFrom(Sale(old, left), id, fill, asOf) = Sale(new, rest),
         new \in Seq(Row)
  PROVE  QueueInv(rs, n, new, rest, fill)
<1>1. /\ old \in Seq(Row) /\ left \in Nat /\ Len(rs) <= Len(old)
      /\ \A k \in DOMAIN rs : k \notin T => old[k] = rs[k]
      /\ left > 0 => \A k \in OpenIds(old) : k \notin T
  BY DEF SaleInv, SaleRows
<1>2. id \in OpenIds(old) /\ old[id].shares \in Nat
  <2>1. id \in DOMAIN rs /\ id \in DOMAIN old
    <3>1. DOMAIN rs = 1..Len(rs) /\ DOMAIN old = 1..Len(old) /\ Len(rs) \in Nat /\ Len(old) \in Nat
      BY <1>1, RowsFinite
    <3>2. id \in DOMAIN rs
      BY DEF OpenIds
    <3> QED BY <1>1, <3>1, <3>2
  <2>2. old[id] = rs[id]
    BY <1>1, <2>1
  <2> QED BY <1>1, <2>1, <2>2, RowsFinite DEF OpenIds, Row
<1>3. left > 0 => \A k \in OpenIds(old) : id <= k
  BY <1>1 DEF QueueInv
<1>4. Sale(old, left).rows = old /\ Sale(old, left).remaining = left
  BY DEF Sale
<1>5. \A r, l : SellFrom(Sale(old, left), id, fill, asOf) = Sale(r, l) => new = r /\ rest = l
  BY DEF Sale
<1>6. CASE left <= 0
  <2>1. SellFrom(Sale(old, left), id, fill, asOf) = Sale(old, left)
    BY <1>4, <1>6 DEF SellFrom
  <2> QED BY <1>5, <2>1
<1>7. CASE left > 0 /\ left >= old[id].shares
  <2>1. SellFrom(Sale(old, left), id, fill, asOf) = Sale(CloseLot(old, id, fill, asOf), left - old[id].shares)
    BY <1>1, <1>4, <1>7 DEF SellFrom, Sale
  <2>2. new = CloseLot(old, id, fill, asOf) /\ rest = left - old[id].shares
    BY <1>5, <2>1
  <2>3. FromFront(old, id, old[id].shares, fill, CloseLot(old, id, fill, asOf))
    BY <1>1, <1>2, <1>3, <1>7, CloseIsFront
  <2>4. PICK sold \in Nat : sold = old[id].shares
    BY <1>2
  <2>5. FromFront(old, id, sold, fill, new) /\ sold <= left /\ rest = left - sold
    BY <1>1, <1>7, <2>2, <2>3, <2>4
  <2> QED BY <1>1, <1>2, <2>5, QueueTurn
<1>8. CASE left > 0 /\ left < old[id].shares
  <2>1. SellFrom(Sale(old, left), id, fill, asOf) = Sale(SplitLot(old, id, left, fill, asOf), 0)
    BY <1>1, <1>2, <1>4, <1>8 DEF SellFrom, Sale
  <2>2. new = SplitLot(old, id, left, fill, asOf) /\ rest = 0
    BY <1>5, <2>1
  <2>3. FromFront(old, id, left, fill, SplitLot(old, id, left, fill, asOf))
    <3>1. IsPartOf(left, old[id])
      BY <1>8 DEF IsPartOf
    <3> QED BY <1>1, <1>2, <1>3, <1>8, <3>1, SplitIsFront
  <2>4. FromFront(old, id, left, fill, new) /\ left <= left /\ rest = left - left
    BY <1>1, <2>2, <2>3
  <2> QED BY <1>1, <1>2, <2>4, QueueTurn
<1>9. \/ left <= 0
      \/ left > 0 /\ left >= old[id].shares
      \/ left > 0 /\ left < old[id].shares
  <2>1. PICK lot \in Nat : lot = old[id].shares
    BY <1>2
  <2>2. left <= 0 \/ (left > 0 /\ left >= lot) \/ (left > 0 /\ left < lot)
    BY <1>1
  <2> QED BY <2>1, <2>2
<1> QED BY <1>6, <1>7, <1>8, <1>9

\* The lots up to some lot.
IsFront(rs, U) ==
  /\ U \in SUBSET OpenIds(rs)
  /\ \A i \in U, j \in OpenIds(rs) : j < i => j \in U

\* However far a sale has come, what it took is the front of the queue.
LEMMA QueueKept ==
  ASSUME NEW rs \in Seq(Row), OpenInOrder(rs), NEW n \in Nat, NEW fill \in Int, NEW asOf \in Nat,
         NEW g, SaleTable(g, rs, n, fill, asOf, OpenIds(rs)),
         NEW T, IsFront(rs, T)
  PROVE  \E lots, left : /\ g[T] = Sale(lots, left)
                         /\ SaleInv(rs, n, T, lots, left) /\ QueueInv(rs, n, lots, left, fill)
<1> DEFINE ids == OpenIds(rs)
           Good(U) == \E lots, left : /\ g[U] = Sale(lots, left)
                                      /\ SaleInv(rs, n, U, lots, left)
                                      /\ QueueInv(rs, n, lots, left, fill)
           B == {U \in SUBSET ids : IsFront(rs, U) /\ ~Good(U)}
<1>1. SUFFICES ASSUME B # {} PROVE FALSE
  BY DEF IsFront
<1>2. ids \in SUBSET DOMAIN rs /\ IsFiniteSet(ids)
  BY RowsFinite, FS_Subset DEF OpenIds
<1>3. PICK U \in B : \A V \in B : V \subseteq U => V = U
  <2>1. B \subseteq SUBSET ids
    OBVIOUS
  <2> HIDE DEF B, ids
  <2> QED BY <1>1, <1>2, <2>1, LeastSubset
<1>4. U \in SUBSET ids /\ IsFront(rs, U) /\ ~Good(U)
  BY <1>3
<1>5. CASE U = {}
  <2>1. g[U] = Sale(rs, n)
    BY <1>4, <1>5 DEF SaleTable, Sale
  <2>2. Len(rs) \in Nat /\ DOMAIN rs = 1..Len(rs)
    BY RowsFinite
  <2>3. SaleRows(rs, {}, rs, n)
    BY <2>2 DEF SaleRows, OpenIds
  <2>4. SaleSums(rs, n, rs, n)
    BY DEF SaleSums
  <2>5. QueueInv(rs, n, rs, n, fill)
    <3>1. OpenShares(rs) = <<>> \o OpenShares(rs) /\ <<>> \in Seq(Int) /\ Len(<<>>) + n = n
      BY OpenIsSpread, ConcatEmptySeq
    <3>2. RealizedPnl(rs) = RealizedPnl(rs) + Gain(<<>>, fill)
      BY GainOfNone, PnlType
    <3> QED BY <3>1, <3>2 DEF QueueInv
  <2> QED BY <1>4, <1>5, <2>1, <2>3, <2>4, <2>5 DEF SaleInv
<1>6. CASE U # {}
  <2> DEFINE id == LastInLine(rs, U)
             V == U \ {id}
  <2>1. id \in U
    BY <1>2, <1>4, <1>6, LineHasAnEnd
  <2>2. V \in SUBSET ids /\ id \in ids /\ id \notin V /\ V \cup {id} = U /\ V \subseteq U /\ V # U
    BY <1>4, <2>1
  <2>3. g[U] = SellFrom(g[V], id, fill, asOf)
    BY <1>4, <1>6 DEF SaleTable
  <2>4. \A j \in U : j <= id
    <3>1. \A j \in U : rs[j].opened <= rs[id].opened
      BY <1>2, <1>4, <1>6, LineHasAnEnd
    <3>2. TAKE j \in U
    <3>3. j \in Nat /\ id \in Nat /\ rs[j].opened \in Nat /\ rs[id].opened \in Nat
      <4>1. j \in DOMAIN rs /\ id \in DOMAIN rs
        BY <1>2, <1>4, <2>1
      <4>2. \A k \in DOMAIN rs : k \in Nat /\ rs[k].opened \in Nat
        <5>1. DOMAIN rs = 1..Len(rs) /\ \A k \in DOMAIN rs : rs[k] \in Row
          BY RowsFinite
        <5> QED BY <5>1 DEF Row
      <4> HIDE DEF id
      <4> QED BY <4>1, <4>2
    <3>4. id < j => rs[id].opened < rs[j].opened
      BY <1>4, <2>1 DEF OpenInOrder
    <3> QED BY <3>1, <3>3, <3>4
  <2>5. \A k \in ids : k \notin V => id <= k
    <3>1. TAKE k \in ids
    <3>2. k \in Nat /\ id \in Nat
      BY <1>2, <1>4, <2>1, RowsFinite
    <3>3. k < id => k \in U /\ k # id
      BY <1>4, <2>1, <3>2 DEF IsFront
    <3> QED BY <3>2, <3>3
  <2>6. IsFront(rs, V)
    <3>1. ASSUME NEW i \in V, NEW j \in ids, j < i PROVE j \in V
      <4>1. i \in Nat /\ j \in Nat /\ id \in Nat
        BY <1>2, <1>4, <2>1, <2>2, RowsFinite
      <4>2. j \in U /\ i <= id
        BY <1>4, <2>2, <2>4, <3>1 DEF IsFront
      <4>3. j # id
        BY <3>1, <4>1, <4>2
      <4> QED BY <4>2, <4>3
    <3> HIDE DEF V
    <3> QED BY <2>2, <3>1 DEF IsFront
  <2>7. Good(V)
    <3>1. V \notin B
      BY <1>3, <2>2
    <3> HIDE DEF V, Good
    <3> QED BY <2>2, <2>6, <3>1
  <2>8. PICK lots, left : /\ g[V] = Sale(lots, left)
                          /\ SaleInv(rs, n, V, lots, left)
                          /\ QueueInv(rs, n, lots, left, fill)
    BY <2>7
  <2> HIDE DEF id, V
  <2>9. StepsOn(rs, n, V, lots, left, id, fill, asOf)
    <3>1. /\ V \in SUBSET OpenIds(rs) /\ id \in OpenIds(rs) /\ id \notin V
          /\ SaleInv(rs, n, V, lots, left)
      BY <2>2, <2>8
    <3> HIDE DEF ids
    <3> QED BY <3>1, SaleStep
  <2>10. PICK new, rest : /\ SellFrom(Sale(lots, left), id, fill, asOf) = Sale(new, rest)
                          /\ SaleInv(rs, n, V \cup {id}, new, rest)
    BY <2>9 DEF StepsOn
  <2>11. QueueInv(rs, n, new, rest, fill)
    <3>1. new \in Seq(Row)
      BY <2>10 DEF SaleInv, SaleRows
    <3>2. \A k \in OpenIds(rs) : k \notin V => id <= k
      BY <2>5
    <3>3. V \in SUBSET OpenIds(rs) /\ id \in OpenIds(rs) /\ id \notin V
      BY <2>2
    <3> HIDE DEF ids, Good, B
    <3> QED BY <2>8, <2>10, <3>1, <3>2, <3>3, QueueStep
  <2> QED BY <1>4, <2>2, <2>3, <2>8, <2>10, <2>11
<1> QED BY <1>5, <1>6

\* A sale of no more than is held takes the n oldest shares, and realizes what
\* each of them gained.
LEMMA SoldIsQueueSale ==
  ASSUME NEW rs \in Seq(Row), OpenInOrder(rs), NEW n \in Nat, NEW fill \in Int, NEW asOf \in Nat,
         n <= SharesHeld(rs)
  PROVE  LET new == Sold(rs, n, fill, asOf)
         IN  /\ \E sold \in Seq(Int) : /\ OpenShares(rs) = sold \o OpenShares(new)
                                       /\ Len(sold) = n
                                       /\ RealizedPnl(new) = RealizedPnl(rs) + Gain(sold, fill)
             /\ OpenInOrder(new)
<1> DEFINE ids == OpenIds(rs)
<1>1. PICK g : SaleTable(g, rs, n, fill, asOf, ids) /\ Sold(rs, n, fill, asOf) = g[ids].rows
  BY SoldIsTable
<1>2. IsFront(rs, ids)
  BY DEF IsFront
<1>3. PICK new, left : /\ g[ids] = Sale(new, left)
                       /\ SaleInv(rs, n, ids, new, left) /\ QueueInv(rs, n, new, left, fill)
  BY <1>1, <1>2, QueueKept
<1>4. Sold(rs, n, fill, asOf) = new
  BY <1>1, <1>3 DEF Sale
<1>5. /\ new \in Seq(Row) /\ left \in Nat
      /\ \A k \in OpenIds(new) : k \in DOMAIN rs
      /\ left > 0 => \A k \in OpenIds(new) : k \notin ids
      /\ SharesHeld(new) + n = SharesHeld(rs) + left
  BY <1>3 DEF SaleInv, SaleRows, SaleSums
<1>6. /\ \A k \in OpenIds(new) : k \in ids /\ new[k].opened = rs[k].opened
  BY <1>3 DEF QueueInv
<1>7. left = 0
  <2>1. SUFFICES ASSUME left > 0 PROVE FALSE
    BY <1>5
  <2>2. OpenIds(new) = {}
    BY <1>5, <1>6, <2>1
  <2>3. SharesHeld(new) = 0 /\ SharesHeld(rs) \in Int
    BY <2>2, SharesOfNone, SharesHeldType DEF SharesHeld
  <2> QED BY <1>5, <2>1, <2>3
<1>8. PICK sold \in Seq(Int) : /\ OpenShares(rs) = sold \o OpenShares(new)
                               /\ Len(sold) + left = n
                               /\ RealizedPnl(new) = RealizedPnl(rs) + Gain(sold, fill)
  BY <1>3 DEF QueueInv
<1>9. Len(sold) = n
  BY <1>7, <1>8
<1>10. OpenInOrder(new)
  BY <1>6 DEF OpenInOrder
<1> QED BY <1>4, <1>8, <1>9, <1>10

-----------------------------------------------------------------------------
(* A trade moves the queue *)

\* What a trade makes of a queue q of shares and of the realized gain g.
Moves(q, g, action, n, fill, q2, g2) ==
  IF n <= 0 \/ action = "HOLD" THEN q2 = q /\ g2 = g
  ELSE IF action = "BUY" THEN q2 = q \o Copies(n, fill) /\ g2 = g
  ELSE /\ n <= Len(q)
       /\ q2 = SubSeq(q, n + 1, Len(q))
       /\ g2 = g + Gain(SubSeq(q, 1, n), fill)

\* Shares that leave the front, with their gain, are a sale of the queue.
LEMMA SaleMoves ==
  ASSUME NEW sold \in Seq(Int), NEW rest \in Seq(Int), NEW q, q = sold \o rest,
         NEW n, n = Len(sold), n > 0, NEW g, NEW fill,
         NEW g2, g2 = g + Gain(sold, fill)
  PROVE  Moves(q, g, "SELL", n, fill, rest, g2)
<1>1. /\ Len(q) = n + Len(rest) /\ n \in Nat /\ Len(rest) \in Nat
      /\ SubSeq(q, 1, n) = sold /\ SubSeq(q, n + 1, Len(q)) = rest
  BY PartsOf
<1>2. n <= Len(q) /\ ~(n <= 0)
  BY <1>1
<1> QED BY <1>1, <1>2 DEF Moves

\* A new row's shares join the queue at its end.
LEMMA BoughtIsQueueBuy ==
  ASSUME NEW rs \in Seq(Row), OpenInOrder(rs), NEW n \in Nat, NEW fill \in Int, NEW asOf \in Nat,
         \A k \in DOMAIN rs : rs[k].opened < asOf
  PROVE  LET new == Bought(rs, n, fill, asOf)
         IN  /\ OpenShares(new) = OpenShares(rs) \o Copies(n, fill)
             /\ RealizedPnl(new) = RealizedPnl(rs)
             /\ OpenInOrder(new)
<1> DEFINE lot == NewLot(n, fill, asOf)
           new == Bought(rs, n, fill, asOf)
           q == OpenCounts(rs)
           p == OpenCounts(new)
           e == Entries(rs)
           d == Entries(new)
<1>1. /\ lot \in Row /\ lot.opened = asOf /\ Open(lot) = n /\ lot.entry = fill
      /\ lot.status = "OPEN"
  BY DEF NewLot, Row, Open
<1>2. new = Append(rs, lot)
  BY DEF Bought
<1> HIDE DEF lot, new
<1>3. PICK m \in Nat : m = Len(rs) /\ DOMAIN rs = 1..m
  BY RowsFinite
<1>4. PICK last \in Nat \ {0} : last = m + 1 /\ last - 1 = m
  OBVIOUS
<1>5. /\ new \in Seq(Row) /\ Len(new) = last /\ DOMAIN new = 1..last
      /\ new[last] = lot /\ \A k \in 1..m : new[k] = rs[k]
  BY <1>1, <1>2, <1>3, <1>4
<1>6. /\ OpenShares(rs) = Spread(q, e, m) /\ \A i \in 1..m : q[i] = Open(rs[i]) /\ e[i] = rs[i].entry
  BY <1>3, OpenIsSpread
<1>7. /\ OpenShares(new) = Spread(p, d, last) /\ \A i \in 1..last : p[i] = Open(new[i]) /\ d[i] = new[i].entry
  BY <1>5, OpenIsSpread
<1> HIDE DEF q, p, e, d
<1>8. p[last] = n /\ d[last] = fill
  BY <1>1, <1>5, <1>7
<1>9. Spread(p, d, last) = Spread(p, d, m) \o Copies(n, fill)
  BY <1>4, <1>8, SpreadStep DEF Run
<1>10. Spread(p, d, m) = Spread(q, e, m)
  <2>1. \A i \in 1..m : p[i] = q[i] /\ d[i] = e[i]
    <3>1. \A i \in 1..m : i \in 1..last
      BY <1>4
    <3> QED BY <1>5, <1>6, <1>7, <3>1
  <2>2. \A i \in 1..m : Run(p, d, i) = Run(q, e, i)
    BY <2>1 DEF Run
  <2> QED BY <2>2, SpreadSame
<1>11. RealizedPnl(new) = RealizedPnl(rs)
  <2> DEFINE f == [i \in DOMAIN rs |-> rs[i].gain]
             g == [i \in DOMAIN new |-> new[i].gain]
             S == ClosedIds(rs)
  <2>1. ClosedIds(new) = S
    <3>1. DOMAIN new = DOMAIN rs \cup {last} /\ last \notin DOMAIN rs
      BY <1>3, <1>4, <1>5
    <3>2. OpenIds(new) = OpenIds(rs) \cup {last}
      BY <1>1, <1>3, <1>5, <3>1 DEF OpenIds
    <3> QED BY <3>1, <3>2 DEF ClosedIds
  <2>2. IsFiniteSet(S) /\ S \subseteq DOMAIN rs
    BY RowsFinite, FS_Subset DEF ClosedIds
  <2>3. \A i \in S : f[i] = g[i]
    <3>1. \A i \in S : i \in 1..m /\ i \in 1..last
      BY <1>3, <1>4, <2>2
    <3> HIDE DEF S
    <3> QED BY <1>3, <1>5, <3>1
  <2>4. RealizedPnl(rs) = SumFunctionOnSet(f, S) /\ RealizedPnl(new) = SumFunctionOnSet(g, S)
    BY <2>1 DEF RealizedPnl, ClosedIds
  <2> HIDE DEF f, g, S
  <2> QED BY <2>2, <2>3, <2>4, SumCongruent
<1>12. OpenInOrder(new)
  <2>1. ASSUME NEW i \in OpenIds(new), NEW j \in OpenIds(new), i < j
        PROVE  new[i].opened < new[j].opened
    <3>1. i \in 1..m /\ i \in OpenIds(rs) /\ new[i] = rs[i]
      <4>1. i \in 1..last /\ j \in 1..last
        BY <1>5 DEF OpenIds
      <4>2. i \in 1..m
        BY <1>4, <2>1, <4>1
      <4> QED BY <1>3, <1>5, <4>2 DEF OpenIds
    <3>2. CASE j = last
      BY <1>1, <1>3, <1>5, <3>1, <3>2
    <3>3. CASE j # last
      <4>1. j \in 1..m
        BY <1>4, <1>5, <3>3 DEF OpenIds
      <4>2. j \in OpenIds(rs) /\ new[j] = rs[j]
        BY <1>3, <1>5, <4>1 DEF OpenIds
      <4> QED BY <2>1, <3>1, <4>2 DEF OpenInOrder
    <3> QED BY <3>2, <3>3
  <2> QED BY <2>1 DEF OpenInOrder
<1> QED BY <1>6, <1>7, <1>9, <1>10, <1>11, <1>12 DEF new

\* Whatever was ruled, the trade that record_trade makes of it moves the queue so.
LEMMA TradeMoves ==
  ASSUME NEW rs \in Seq(Row), OpenInOrder(rs), NEW action \in Trades, NEW n \in Int, NEW fill \in Int,
         NEW asOf \in Nat, ~Refuses(rs, action, n), \A k \in DOMAIN rs : rs[k].opened < asOf
  PROVE  LET new == AfterTrade(rs, action, n, fill, asOf)
         IN  /\ Moves(OpenShares(rs), RealizedPnl(rs), action, n, fill, OpenShares(new), RealizedPnl(new))
             /\ OpenInOrder(new)
<1>1. CASE n <= 0 \/ action = "HOLD"
  <2>1. AfterTrade(rs, action, n, fill, asOf) = rs
    BY <1>1 DEF AfterTrade
  <2> QED BY <1>1, <2>1 DEF Moves
<1>2. CASE n > 0 /\ action = "BUY"
  <2>1. AfterTrade(rs, action, n, fill, asOf) = Bought(rs, n, fill, asOf)
    BY <1>2 DEF AfterTrade
  <2>2. PICK new : new = Bought(rs, n, fill, asOf)
    OBVIOUS
  <2>3. /\ OpenShares(new) = OpenShares(rs) \o Copies(n, fill)
        /\ RealizedPnl(new) = RealizedPnl(rs)
        /\ OpenInOrder(new)
    <3>1. n \in Nat
      BY <1>2
    <3> QED BY <2>2, <3>1, BoughtIsQueueBuy
  <2>4. ~(n <= 0 \/ action = "HOLD")
    BY <1>2
  <2> QED BY <1>2, <2>1, <2>2, <2>3, <2>4 DEF Moves
<1>3. CASE n > 0 /\ action = "SELL"
  <2>1. AfterTrade(rs, action, n, fill, asOf) = Sold(rs, n, fill, asOf)
    BY <1>3 DEF AfterTrade
  <2>2. PICK new : new = Sold(rs, n, fill, asOf)
    OBVIOUS
  <2>3. n \in Nat /\ n <= SharesHeld(rs)
    BY <1>3, SharesHeldType DEF Refuses
  <2>4. PICK sold \in Seq(Int) : /\ OpenShares(rs) = sold \o OpenShares(new)
                                 /\ Len(sold) = n
                                 /\ RealizedPnl(new) = RealizedPnl(rs) + Gain(sold, fill)
    BY <2>2, <2>3, SoldIsQueueSale
  <2>5. OpenInOrder(new) /\ new \in Seq(Row)
    BY <2>2, <2>3, SoldIsQueueSale, SoldFacts
  <2>6. OpenShares(new) \in Seq(Int)
    BY <2>5, OpenIsSpread
  <2>7. Moves(OpenShares(rs), RealizedPnl(rs), "SELL", n, fill, OpenShares(new), RealizedPnl(new))
    BY <1>3, <2>4, <2>6, SaleMoves
  <2> QED BY <1>3, <2>1, <2>2, <2>5, <2>7
<1> QED BY <1>1, <1>2, <1>3 DEF Trades

-----------------------------------------------------------------------------
(* The recorded ledger is a queue of shares *)

\* The gain as FifoQueue states it.
LEMMA FoldOfGains ==
  ASSUME NEW s \in Seq(Int), NEW base \in Int, NEW fill \in Int
  PROVE  FoldLeft(LAMBDA sum, paid : sum + (fill - paid), base, s) = base + Gain(s, fill)
<1> DEFINE w == [i \in DOMAIN s |-> fill - s[i]]
           table == CHOOSE f : f = [T \in SUBSET DOMAIN s |->
                      IF T = {} THEN base ELSE f[T \ {Max(T)}] + (fill - s[Max(T)])]
<1>1. PICK n \in Nat : n = Len(s) /\ DOMAIN s = 1..n /\ \A i \in 1..n : s[i] \in Int
  OBVIOUS
<1>2. FoldLeft(LAMBDA sum, paid : sum + (fill - paid), base, s) = table[DOMAIN s]
  BY DEF FoldLeft, MapThenFoldSet
<1>3. ASSUME NEW f
      PROVE  f = [T \in SUBSET DOMAIN s |-> IF T = {} THEN base ELSE f[T \ {Max(T)}] + (fill - s[Max(T)])]
               <=> AddsUp(f, w, base, 1..n)
  <2>1. ASSUME NEW T \in SUBSET (1..n)
        PROVE  (IF T = {} THEN base ELSE f[T \ {Max(T)}] + (fill - s[Max(T)]))
                 = (IF T = {} THEN base ELSE f[T \ {Max(T)}] + w[Max(T)])
    <3>1. T # {} => Max(T) \in 1..n
      BY MaxIsIn
    <3>2. \A i \in 1..n : w[i] = fill - s[i]
      BY <1>1
    <3> QED BY <3>1, <3>2
  <2> HIDE DEF w
  <2>2. [T \in SUBSET (1..n) |-> IF T = {} THEN base ELSE f[T \ {Max(T)}] + (fill - s[Max(T)])]
          = [T \in SUBSET (1..n) |-> IF T = {} THEN base ELSE f[T \ {Max(T)}] + w[Max(T)]]
    BY <2>1
  <2> QED BY <1>1, <2>2 DEF AddsUp
<1>4. \A i \in 1..n : w[i] \in Int
  BY <1>1
<1> HIDE DEF w
<1>5. AddsUp(table, w, base, 1..n)
  <2>1. \E f : AddsUp(f, w, base, 1..n)
    BY <1>4, AddsUpExists
  <2> QED BY <1>3, <2>1
<1> HIDE DEF table
<1>6. table[1..n] = base + SumFunctionOnSet(w, 1..n)
  BY <1>4, <1>5, AddsUpIsSum
<1> QED BY <1>1, <1>2, <1>6 DEF Gain, w

\* Every day comes after the days on which the rows were opened.
LEMMA DayIsLater ==
  ASSUME RInv, Len(decisions) + 1 \in DOMAIN TradingDays
  PROVE  \A k \in DOMAIN outcomes : outcomes[k].opened < TradingDays[Len(decisions) + 1]
<1>1. PICK n \in Nat : n = Len(decisions) /\ DOMAIN decisions = 1..n
  BY DEF RInv
<1>2. TAKE k \in DOMAIN outcomes
<1>3. PICK i \in 1..n : outcomes[k].opened = TradingDays[i]
  BY <1>1 DEF RInv
<1>4. i \in DOMAIN TradingDays /\ n + 1 \in DOMAIN TradingDays /\ i < n + 1
  <2>1. PICK m \in Nat : DOMAIN TradingDays = 1..m
    BY RecordedConstants
  <2> QED BY <1>1, <2>1
<1>5. TradingDays[i] < TradingDays[n + 1]
  BY <1>4, RecordedConstants
<1> QED BY <1>1, <1>3, <1>5

\* A fill is paid in whole units.
LEMMA FillType ==
  ASSUME NEW p \in MarketPrices, NEW action
  PROVE  Fill(p, action) \in Int
<1>1. p \in Nat /\ Unit \in Int /\ SlipBps \in Int
  BY RecordedConstants, ReplayConstants
<1>2. p * (Unit + SlipBps) \in Int /\ p * (Unit - SlipBps) \in Int /\ p * Unit \in Int
  BY <1>1
<1> QED BY <1>2 DEF Fill

\* A day of the tape moves the queue by what was ruled.
LEMMA DayMoves ==
  ASSUME RInv, OpenInOrder(outcomes), NEW t \in Proposals, NEW v \in Vars, NEW p \in MarketPrices,
         NEW r, r = Gate(t, SharesHeld(outcomes), v), ~Refuses(outcomes, r.action, r.qty),
         Len(decisions) + 1 \in DOMAIN TradingDays,
         NEW new, new = AfterTrade(outcomes, r.action, r.qty, Fill(p, r.action),
                                   TradingDays[Len(decisions) + 1])
  PROVE  /\ Moves(OpenShares(outcomes), RealizedPnl(outcomes), r.action, r.qty, Fill(p, r.action),
                  OpenShares(new), RealizedPnl(new))
         /\ OpenInOrder(new)
         /\ r.qty > 0 /\ r.action \in {"BUY", "SELL"} => r.qty \in 1..MaxPositionQty
         /\ r \in Ruling
<1> DEFINE held == SharesHeld(outcomes)
<1>1. outcomes \in Seq(Row) /\ held \in 0..MaxPositionQty
  BY DEF RInv
<1>2. t \in Proposal /\ v \in Int \cup {NoVar} /\ held \in Int
  BY <1>1, RecordedConstants, RiskConstants
<1>3. r \in Ruling /\ LedgerAfter(held, r.action, r.qty) \in 0..MaxPositionQty
  BY <1>1, <1>2, GateType, GateKeepsCap
<1>4. PICK action \in Trades, n \in Int, asOf \in Nat, fill \in Int :
        /\ action = r.action /\ n = r.qty /\ asOf = TradingDays[Len(decisions) + 1]
        /\ fill = Fill(p, r.action)
  <2>1. TradingDays[Len(decisions) + 1] \in Nat
    BY RecordedConstants
  <2> QED BY <1>3, <2>1, FillType DEF Ruling
<1>5. \A k \in DOMAIN outcomes : outcomes[k].opened < asOf
  BY <1>4, DayIsLater
<1>6. n > 0 /\ action \in {"BUY", "SELL"} => n \in 1..MaxPositionQty
  <2>1. LedgerAfter(held, action, n) \in 0..MaxPositionQty /\ MaxPositionQty \in Nat
    BY <1>3, <1>4, RiskConstants
  <2>2. ~(action = "SELL" /\ n > held)
    BY <1>4 DEF Refuses, held
  <2> HIDE DEF held
  <2> QED BY <1>1, <2>1, <2>2 DEF LedgerAfter, PositionAfter
<1>7. new = AfterTrade(outcomes, action, n, fill, asOf) /\ ~Refuses(outcomes, action, n)
  BY <1>4
<1>8. /\ Moves(OpenShares(outcomes), RealizedPnl(outcomes), action, n, fill,
                OpenShares(new), RealizedPnl(new))
      /\ OpenInOrder(new)
  BY <1>1, <1>5, <1>7, TradeMoves
<1> QED BY <1>3, <1>4, <1>6, <1>8

\* The rows of the run are opened in the order of their ids.
QInv == RInv /\ OpenInOrder(outcomes)

\* What shares may be bought and sold at.
FillPrices == {Fill(p, a) : p \in MarketPrices, a \in Trades}

\* A simulated day, as the proofs below use it.
LEMMA DayTraded ==
  ASSUME QInv, SimulateDay
  PROVE  \E t \in Proposals, v \in Vars, p \in MarketPrices \cup {None}, r \in Ruling :
           /\ r = Gate(t, SharesHeld(outcomes), v)
           /\ p = None => v = NoVar
           /\ decisions' = Append(decisions, DecisionRow(t, SharesHeld(outcomes), v, p))
           /\ OpenInOrder(outcomes')
           /\ IF p = None
              THEN outcomes' = outcomes /\ UNCHANGED <<price, books>>
              ELSE /\ Moves(OpenShares(outcomes), RealizedPnl(outcomes), r.action, r.qty,
                            Fill(p, r.action), OpenShares(outcomes'), RealizedPnl(outcomes'))
                   /\ r.qty > 0 /\ r.action \in {"BUY", "SELL"} => r.qty \in 1..MaxPositionQty
                   /\ price' = p
                   /\ books' = [rule \in Rules |->
                         ReplayDay(rule, books[rule],
                                   TapeRow(TradingDays[Len(decisions) + 1], t, p,
                                           IF v = NoVar THEN None ELSE VarMaxQty(v)))]
<1>1. PICK t \in Proposals, v \in Vars, p \in MarketPrices \cup {None} :
        LET d    == DecisionRow(t, SharesHeld(outcomes), v, p)
            asOf == TradingDays[Len(decisions) + 1]
            row  == TapeRow(asOf, t, p, d.varMax)
        IN  /\ p = None => v = NoVar
            /\ ~Refuses(outcomes, d.ruling.action, d.ruling.qty)
            /\ decisions' = Append(decisions, d)
            /\ outcomes' = Executed(d, asOf)
            /\ IF OnTape(p)
               THEN /\ price' = p
                    /\ books' = [r \in Rules |-> ReplayDay(r, books[r], row)]
               ELSE UNCHANGED <<price, books>>
  BY DEF SimulateDay
<1> DEFINE d    == DecisionRow(t, SharesHeld(outcomes), v, p)
           asOf == TradingDays[Len(decisions) + 1]
<1>2. PICK r \in Ruling : r = Gate(t, SharesHeld(outcomes), v)
  <2>1. SharesHeld(outcomes) \in Int /\ t \in Proposal /\ v \in Int \cup {NoVar}
    BY RecordedConstants, RiskConstants DEF QInv, RInv
  <2> QED BY <2>1, GateType
<1>3. d.ruling = r /\ d.price = p /\ d.varMax = IF v = NoVar THEN None ELSE VarMaxQty(v)
  BY <1>2 DEF DecisionRow
<1>4. Len(decisions) + 1 \in DOMAIN TradingDays
  <2>1. PICK n, m : n = Len(decisions) /\ m = Len(TradingDays)
    OBVIOUS
  <2>2. n \in Nat /\ m \in Nat /\ DOMAIN TradingDays = 1..m /\ n < m
    BY <2>1, RecordedConstants DEF QInv, RInv, SimulateDay
  <2> QED BY <2>1, <2>2
<1>5. /\ p = None => v = NoVar
      /\ ~Refuses(outcomes, r.action, r.qty)
      /\ decisions' = Append(decisions, d)
      /\ outcomes' = Executed(d, asOf)
      /\ IF OnTape(p)
         THEN /\ price' = p
              /\ books' = [rule \in Rules |-> ReplayDay(rule, books[rule], TapeRow(asOf, t, p, d.varMax))]
         ELSE UNCHANGED <<price, books>>
  BY <1>1, <1>3
<1> HIDE DEF d, asOf
<1>6. CASE p = None
  <2>1. outcomes' = outcomes /\ UNCHANGED <<price, books>>
    BY <1>3, <1>5, <1>6 DEF Executed, OnTape
  <2>2. OpenInOrder(outcomes')
    BY <2>1 DEF QInv
  <2> QED BY <1>2, <1>5, <1>6, <2>1, <2>2 DEF d
<1>7. CASE p # None
  <2>1. PICK new : new = AfterTrade(outcomes, r.action, r.qty, Fill(p, r.action), asOf)
    OBVIOUS
  <2>2. outcomes' = new
    BY <1>3, <1>5, <1>7, <2>1 DEF Executed, OnTape
  <2>3. p \in MarketPrices
    BY <1>7
  <2>4. /\ Moves(OpenShares(outcomes), RealizedPnl(outcomes), r.action, r.qty, Fill(p, r.action),
                  OpenShares(new), RealizedPnl(new))
        /\ OpenInOrder(new)
        /\ r.qty > 0 /\ r.action \in {"BUY", "SELL"} => r.qty \in 1..MaxPositionQty
    BY <1>2, <1>4, <1>5, <2>1, <2>3, DayMoves DEF QInv, asOf
  <2>5. /\ price' = p
        /\ books' = [rule \in Rules |-> ReplayDay(rule, books[rule], TapeRow(asOf, t, p, d.varMax))]
    BY <1>5, <1>7 DEF OnTape
  <2>6. books' = [rule \in Rules |->
                    ReplayDay(rule, books[rule],
                              TapeRow(TradingDays[Len(decisions) + 1], t, p,
                                      IF v = NoVar THEN None ELSE VarMaxQty(v)))]
    BY <1>3, <2>5 DEF asOf
  <2>7. /\ Moves(OpenShares(outcomes), RealizedPnl(outcomes), r.action, r.qty,
                  Fill(p, r.action), OpenShares(outcomes'), RealizedPnl(outcomes'))
        /\ OpenInOrder(outcomes')
    BY <2>2, <2>4
  <2>8. decisions' = Append(decisions, DecisionRow(t, SharesHeld(outcomes), v, p))
    BY <1>5 DEF d
  <2> QED BY <1>2, <1>5, <1>7, <2>4, <2>5, <2>6, <2>7, <2>8
<1> QED BY <1>6, <1>7

\* A run begins with an empty queue.
LEMMA NothingOpen ==
  ASSUME outcomes = <<>>
  PROVE  OpenShares(outcomes) = <<>> /\ RealizedPnl(outcomes) = 0 /\ OpenInOrder(outcomes)
<1>1. outcomes \in Seq(Row) /\ Len(outcomes) = 0 /\ DOMAIN outcomes = {}
  OBVIOUS
<1>2. OpenShares(outcomes) = <<>>
  BY <1>1, OpenIsSpread, SpreadNone
<1>3. OpenIds(outcomes) = {} /\ DOMAIN outcomes \ OpenIds(outcomes) = {}
  BY <1>1 DEF OpenIds
<1>4. RealizedPnl(outcomes) = 0
  BY <1>3, SumOfNone DEF RealizedPnl
<1> QED BY <1>2, <1>3, <1>4 DEF OpenInOrder

\* The rows of the run stay in the order in which they were opened, which is what
\* makes the ledger's oldest-first (ORDER BY opened_at ASC) the order of a queue.
THEOREM QueueInvariant == Spec => []QInv
<1>1. ExplainInit => QInv
  BY RInit, NothingOpen DEF ExplainInit, Init, QInv
<1>2. QInv /\ [Next]_vars => QInv'
  <2>1. QInv /\ SimulateDay => QInv'
    BY RStep, DayTraded DEF QInv
  <2>2. QInv /\ UNCHANGED runVars => QInv'
    BY DEF QInv, RInv, runVars, EveryShareAccounted
  <2> QED BY <2>1, <2>2 DEF Next, vars
<1> QED BY <1>1, <1>2, PTL DEF Spec

\* A move of the queue is a step of FifoQueue.
LEMMA MoveIsStep ==
  ASSUME QInv, NEW n \in Int, NEW action \in Trades, NEW p \in MarketPrices,
         n > 0 /\ action \in {"BUY", "SELL"} => n \in 1..MaxPositionQty,
         Moves(OpenShares(outcomes), RealizedPnl(outcomes), action, n, Fill(p, action),
               OpenShares(outcomes)', RealizedPnl(outcomes)')
  PROVE  [Shares!Next]_(Shares!queueVars)
<1> DEFINE q == OpenShares(outcomes)
           g == RealizedPnl(outcomes)
           fill == Fill(p, action)
<1>1. q \in Seq(Int) /\ g \in Int /\ fill \in Int
  BY OpenIsSpread, PnlType, FillType DEF QInv, RInv
<1>2. fill \in FillPrices
  BY DEF FillPrices
<1>3. Moves(q, g, action, n, fill, q', g')
  OBVIOUS
<1>4. CASE n <= 0 \/ action = "HOLD"
  BY <1>3, <1>4 DEF Moves, Shares!queueVars
<1>5. CASE n > 0 /\ action = "BUY"
  <2>1. q' = q \o Copies(n, fill) /\ g' = g
    BY <1>3, <1>5 DEF Moves
  <2>2. Shares!Buy(n, fill)
    BY <2>1 DEF Shares!Buy, Copies
  <2> QED BY <1>2, <1>5, <2>2 DEF Shares!Next, FillPrices
<1>6. CASE n > 0 /\ action = "SELL"
  <2>1. n <= Len(q) /\ q' = SubSeq(q, n + 1, Len(q)) /\ g' = g + Gain(SubSeq(q, 1, n), fill)
    BY <1>3, <1>6 DEF Moves
  <2>2. SubSeq(q, 1, n) \in Seq(Int)
    <3> HIDE DEF q
    <3> QED BY <1>1, <1>6, <2>1
  <2>3. PICK s \in Seq(Int) : s = SubSeq(q, 1, n)
    BY <2>2
  <2>4. FoldLeft(LAMBDA sum, paid : sum + (fill - paid), g, s) = g + Gain(s, fill)
    BY <1>1, FoldOfGains
  <2>5. Shares!FoldLeft(LAMBDA sum, paid : sum + (fill - paid), g, s)
          = FoldLeft(LAMBDA sum, paid : sum + (fill - paid), g, s)
    BY DEF Shares!FoldLeft, Shares!MapThenFoldSet, Shares!Max, FoldLeft, MapThenFoldSet, Max
  <2>6. Shares!Sell(n, fill)
    BY <2>1, <2>3, <2>4, <2>5 DEF Shares!Sell
  <2> QED BY <1>2, <1>6, <2>6 DEF Shares!Next, FillPrices
<1> QED BY <1>4, <1>5, <1>6 DEF Trades

\* The ledger of a recorded run, rows that are split, closed and copied, implements
\* a queue of single shares: a BUY appends what it bought, a SELL takes the front
\* and realizes its price less what each share had cost, for any tape and any cap.
THEOREM LedgerIsFifoQueue == Spec => ImplementsFifoQueue
<1>1. ExplainInit => Shares!Init
  BY NothingOpen DEF ExplainInit, Init, Shares!Init
<1>2. QInv /\ [Next]_vars => [Shares!Next]_(Shares!queueVars)
  <2>1. ASSUME QInv, SimulateDay PROVE [Shares!Next]_(Shares!queueVars)
    <3>1. PICK t \in Proposals, v \in Vars, p \in MarketPrices \cup {None}, r \in Ruling :
           /\ r = Gate(t, SharesHeld(outcomes), v)
           /\ IF p = None
              THEN outcomes' = outcomes
              ELSE /\ Moves(OpenShares(outcomes), RealizedPnl(outcomes), r.action, r.qty,
                            Fill(p, r.action), OpenShares(outcomes'), RealizedPnl(outcomes'))
                   /\ r.qty > 0 /\ r.action \in {"BUY", "SELL"} => r.qty \in 1..MaxPositionQty
      BY <2>1, DayTraded
    <3>2. CASE p = None
      BY <3>1, <3>2 DEF Shares!queueVars
    <3>3. CASE p # None
      <4>1. r.qty \in Int /\ r.action \in Trades
        <5>1. SharesHeld(outcomes) \in Int /\ t \in Proposal /\ v \in Int \cup {NoVar}
          BY <2>1, RecordedConstants, RiskConstants DEF QInv, RInv
        <5>2. r \in Ruling
          BY <3>1, <5>1, GateType
        <5> QED BY <5>2 DEF Ruling
      <4>2. PICK n \in Int, action \in Trades : n = r.qty /\ action = r.action
        BY <4>1
      <4>3. p \in MarketPrices
        BY <3>3
      <4>4. /\ Moves(OpenShares(outcomes), RealizedPnl(outcomes), action, n, Fill(p, action),
                      OpenShares(outcomes)', RealizedPnl(outcomes)')
            /\ n > 0 /\ action \in {"BUY", "SELL"} => n \in 1..MaxPositionQty
        BY <3>1, <3>3, <4>2
      <4> QED BY <2>1, <4>3, <4>4, MoveIsStep
    <3> QED BY <3>2, <3>3
  <2>2. UNCHANGED runVars => UNCHANGED Shares!queueVars
    BY DEF runVars, Shares!queueVars
  <2> QED BY <2>1, <2>2 DEF Next, vars
<1> QED BY <1>1, <1>2, QueueInvariant, PTL DEF Spec, ImplementsFifoQueue, Shares!Spec

-----------------------------------------------------------------------------
(* Partial sums *)

\* The sum of the first k numbers of q.
Upto(q, k) == SumFunctionOnSet(q, 1..k)

\* It grows by one number at a time.
LEMMA UptoStep ==
  ASSUME NEW q, NEW m \in Nat, \A i \in 1..m : q[i] \in Int
  PROVE  /\ Upto(q, 0) = 0
         /\ \A k \in 0..m : Upto(q, k) \in Int
         /\ \A k \in 1..m : Upto(q, k) = Upto(q, k - 1) + q[k]
<1>1. Upto(q, 0) = 0
  <2>1. 1..0 = {}
    OBVIOUS
  <2> QED BY <2>1, SumOfNone DEF Upto
<1>2. ASSUME NEW k \in 0..m
      PROVE  Upto(q, k) \in Int
  <2>1. PICK S : S = 1..k
    OBVIOUS
  <2>2. IsFiniteSet(S) /\ \A i \in S : q[i] \in Int
    BY <2>1, FS_Interval
  <2> QED BY <2>1, <2>2, SumType DEF Upto
<1>3. ASSUME NEW k \in 1..m
      PROVE  Upto(q, k) = Upto(q, k - 1) + q[k]
  <2>1. PICK S, j : S = 1..j /\ j = k - 1
    OBVIOUS
  <2>2. IsFiniteSet(S) /\ (\A i \in S : q[i] \in Int) /\ k \notin S /\ q[k] \in Int
    BY <2>1, FS_Interval
  <2>3. S \cup {k} = 1..k /\ j \in 0..m
    BY <2>1
  <2>4. SumFunctionOnSet(q, S \cup {k}) = q[k] + SumFunctionOnSet(q, S)
    BY <2>2, SumWith
  <2>5. Upto(q, k) = q[k] + Upto(q, j)
    BY <2>1, <2>3, <2>4 DEF Upto
  <2>6. Upto(q, j) \in Int
    BY <1>2, <2>3
  <2> QED BY <2>1, <2>2, <2>5, <2>6
<1> QED BY <1>1, <1>2, <1>3

\* Of counts it never shrinks.
LEMMA UptoGrows ==
  ASSUME NEW q, NEW m \in Nat, Counts(q, m)
  PROVE  /\ \A k \in 0..m : Upto(q, k) \in Nat
         /\ \A i, j \in 0..m : i <= j => Upto(q, i) <= Upto(q, j)
<1>1. \A i \in 1..m : q[i] \in Nat
  BY DEF Counts
<1>2. /\ Upto(q, 0) = 0
      /\ \A k \in 0..m : Upto(q, k) \in Int
      /\ \A k \in 1..m : Upto(q, k) = Upto(q, k - 1) + q[k]
  BY <1>1, UptoStep
<1>3. ASSUME NEW i \in 0..m, NEW j \in 0..m, i <= j
      PROVE  Upto(q, i) <= Upto(q, j)
  <2> DEFINE B == {k \in i..m : ~(Upto(q, i) <= Upto(q, k))}
  <2>1. SUFFICES ASSUME B # {} PROVE FALSE
    BY <1>3
  <2>2. PICK k \in B : \A l \in B : k <= l
    <3>1. B \subseteq Nat
      OBVIOUS
    <3> HIDE DEF B
    <3> QED BY <2>1, <3>1, LeastOf
  <2>3. k \in i..m /\ ~(Upto(q, i) <= Upto(q, k))
    BY <2>2
  <2>4. k # i
    BY <1>2, <2>3
  <2>5. PICK l \in i..m : l = k - 1 /\ k \in 1..m /\ l \in 0..m
    BY <2>3, <2>4
  <2>6. Upto(q, i) <= Upto(q, l)
    BY <2>2, <2>3, <2>5
  <2>7. Upto(q, k) = Upto(q, l) + q[k] /\ q[k] \in Nat
    BY <1>1, <1>2, <2>5
  <2>8. PICK a, b, c : a = Upto(q, i) /\ b = Upto(q, l) /\ c = Upto(q, k)
    OBVIOUS
  <2>9. a \in Int /\ b \in Int /\ c \in Int
    BY <1>2, <2>3, <2>5, <2>8
  <2> QED BY <2>3, <2>6, <2>7, <2>8, <2>9
<1>4. ASSUME NEW k \in 0..m
      PROVE  Upto(q, k) \in Nat
  <2>1. Upto(q, 0) <= Upto(q, k)
    BY <1>3
  <2> QED BY <1>2, <2>1
<1> QED BY <1>3, <1>4

\* A fold that adds w up is a sum.
LEMMA TableOfSums ==
  ASSUME NEW n \in Nat, NEW w, \A i \in 1..n : w[i] \in Int
  PROVE  (CHOOSE f : AddsUp(f, w, 0, 1..n))[1..n] = Upto(w, n)
<1>1. \E f : AddsUp(f, w, 0, 1..n)
  BY AddsUpExists
<1>2. PICK f : f = (CHOOSE t : AddsUp(t, w, 0, 1..n)) /\ AddsUp(f, w, 0, 1..n)
  BY <1>1
<1>3. f[1..n] = 0 + SumFunctionOnSet(w, 1..n)
  BY <1>2, AddsUpIsSum
<1>4. Upto(w, n) \in Int
  BY UptoStep
<1> QED BY <1>2, <1>3, <1>4 DEF Upto

-----------------------------------------------------------------------------
(* Lots of a book *)

\* What a book keeps of a purchase, and the lots of a book as lists of numbers.
Lot == [qty : Nat \ {0}, entry : Nat \ {0}]

Qtys(lots) == [i \in DOMAIN lots |-> lots[i].qty]
Costs(lots) == [i \in DOMAIN lots |-> lots[i].qty * lots[i].entry]

\* A book's lots, entry by entry.
LEMMA LotFacts ==
  ASSUME NEW lots \in Seq(Lot)
  PROVE  /\ DOMAIN lots = 1..Len(lots) /\ Len(lots) \in Nat
         /\ \A i \in DOMAIN lots : /\ lots[i] \in Lot
                                   /\ lots[i].qty \in Nat \ {0} /\ lots[i].entry \in Nat \ {0}
                                   /\ Qtys(lots)[i] = lots[i].qty /\ Entries(lots)[i] = lots[i].entry
                                   /\ Costs(lots)[i] = lots[i].qty * lots[i].entry
                                   /\ Costs(lots)[i] \in Nat \ {0}
         /\ Counts(Qtys(lots), Len(lots)) /\ Values(Entries(lots), Len(lots))
<1>1. DOMAIN lots = 1..Len(lots) /\ Len(lots) \in Nat /\ \A i \in DOMAIN lots : lots[i] \in Lot
  OBVIOUS
<1>2. \A i \in DOMAIN lots : lots[i].qty \in Nat \ {0} /\ lots[i].entry \in Nat \ {0}
  BY <1>1 DEF Lot
<1>3. \A i \in DOMAIN lots : /\ Qtys(lots)[i] = lots[i].qty /\ Entries(lots)[i] = lots[i].entry
                             /\ Costs(lots)[i] = lots[i].qty * lots[i].entry
  BY DEF Qtys, Entries, Costs
<1>4. ASSUME NEW i \in DOMAIN lots
      PROVE  Costs(lots)[i] \in Nat \ {0}
  <2>1. PICK a \in Nat \ {0}, b \in Nat \ {0} : a = lots[i].qty /\ b = lots[i].entry
    BY <1>2
  <2>2. a * b \in Nat \ {0}
    OBVIOUS
  <2> QED BY <1>3, <2>1, <2>2
<1>5. Counts(Qtys(lots), Len(lots)) /\ Values(Entries(lots), Len(lots))
  BY <1>1, <1>2, <1>3 DEF Counts, Values
<1> QED BY <1>1, <1>2, <1>3, <1>4, <1>5

\* What a book holds and has paid are sums over its lots.
LEMMA HeldInIsSum ==
  ASSUME NEW lots \in Seq(Lot)
  PROVE  HeldIn(lots) = Upto(Qtys(lots), Len(lots))
<1> DEFINE w == Qtys(lots)
<1>1. PICK n \in Nat : n = Len(lots) /\ DOMAIN lots = 1..n
  BY LotFacts
<1>2. \A i \in 1..n : w[i] = lots[i].qty /\ w[i] \in Int
  BY <1>1, LotFacts
<1> HIDE DEF w
<1>3. HeldIn(lots) = (CHOOSE f : f = [T \in SUBSET (1..n) |->
                        IF T = {} THEN 0 ELSE f[T \ {Max(T)}] + lots[Max(T)].qty])[1..n]
  BY <1>1 DEF HeldIn, FoldLeft, MapThenFoldSet
<1>4. \A f : f = [T \in SUBSET (1..n) |-> IF T = {} THEN 0 ELSE f[T \ {Max(T)}] + lots[Max(T)].qty]
               <=> AddsUp(f, w, 0, 1..n)
  <2>1. TAKE f
  <2>2. ASSUME NEW T \in SUBSET (1..n)
        PROVE  (IF T = {} THEN 0 ELSE f[T \ {Max(T)}] + lots[Max(T)].qty)
                 = (IF T = {} THEN 0 ELSE f[T \ {Max(T)}] + w[Max(T)])
    <3>1. T # {} => Max(T) \in 1..n
      BY MaxIsIn
    <3> QED BY <1>2, <3>1
  <2>3. [T \in SUBSET (1..n) |-> IF T = {} THEN 0 ELSE f[T \ {Max(T)}] + lots[Max(T)].qty]
          = [T \in SUBSET (1..n) |-> IF T = {} THEN 0 ELSE f[T \ {Max(T)}] + w[Max(T)]]
    BY <2>2
  <2> QED BY <2>3 DEF AddsUp
<1>5. HeldIn(lots) = (CHOOSE f : AddsUp(f, w, 0, 1..n))[1..n]
  BY <1>3, <1>4
<1> QED BY <1>1, <1>2, <1>5, TableOfSums DEF w

LEMMA CostIsSum ==
  ASSUME NEW lots \in Seq(Lot)
  PROVE  Cost(lots) = Upto(Costs(lots), Len(lots))
<1> DEFINE w == Costs(lots)
<1>1. PICK n \in Nat : n = Len(lots) /\ DOMAIN lots = 1..n
  BY LotFacts
<1>2. \A i \in 1..n : w[i] = lots[i].qty * lots[i].entry /\ w[i] \in Int
  BY <1>1, LotFacts
<1> HIDE DEF w
<1>3. Cost(lots) = (CHOOSE f : f = [T \in SUBSET (1..n) |->
                      IF T = {} THEN 0
                      ELSE f[T \ {Max(T)}] + lots[Max(T)].qty * lots[Max(T)].entry])[1..n]
  BY <1>1 DEF Cost, FoldLeft, MapThenFoldSet
<1>4. \A f : f = [T \in SUBSET (1..n) |->
                    IF T = {} THEN 0 ELSE f[T \ {Max(T)}] + lots[Max(T)].qty * lots[Max(T)].entry]
               <=> AddsUp(f, w, 0, 1..n)
  <2>1. TAKE f
  <2>2. ASSUME NEW T \in SUBSET (1..n)
        PROVE  (IF T = {} THEN 0 ELSE f[T \ {Max(T)}] + lots[Max(T)].qty * lots[Max(T)].entry)
                 = (IF T = {} THEN 0 ELSE f[T \ {Max(T)}] + w[Max(T)])
    <3>1. T # {} => Max(T) \in 1..n
      BY MaxIsIn
    <3> QED BY <1>2, <3>1
  <2>3. [T \in SUBSET (1..n) |-> IF T = {} THEN 0
                                 ELSE f[T \ {Max(T)}] + lots[Max(T)].qty * lots[Max(T)].entry]
          = [T \in SUBSET (1..n) |-> IF T = {} THEN 0 ELSE f[T \ {Max(T)}] + w[Max(T)]]
    BY <2>2
  <2> QED BY <2>3 DEF AddsUp
<1>5. Cost(lots) = (CHOOSE f : AddsUp(f, w, 0, 1..n))[1..n]
  BY <1>3, <1>4
<1> QED BY <1>1, <1>2, <1>5, TableOfSums DEF w

\* The shares of a book are its lots, written out lot by lot.
LEMMA SharesInIsSpread ==
  ASSUME NEW lots \in Seq(Lot)
  PROVE  /\ SharesIn(lots) = Spread(Qtys(lots), Entries(lots), Len(lots))
         /\ SharesIn(lots) \in Seq(Int)
         /\ HeldIn(lots) = Len(SharesIn(lots)) /\ HeldIn(lots) \in Nat
<1>0. PICK n \in Nat : n = Len(lots)
  OBVIOUS
<1>1. PICK q, e : n = Len(lots) /\ q = Qtys(lots) /\ e = Entries(lots)
  BY <1>0, LotFacts
<1>2. /\ DOMAIN lots = 1..n /\ \A i \in 1..n : q[i] = lots[i].qty /\ e[i] = lots[i].entry
      /\ Counts(q, n) /\ Values(e, n)
  BY <1>1, LotFacts
<1>3. SharesIn(lots) = Spread(q, e, n)
  <2>1. [i \in DOMAIN lots |-> [k \in 1..lots[i].qty |-> lots[i].entry]] =
          [i \in 1..n |-> [k \in 1..q[i] |-> e[i]]]
    BY <1>2
  <2> QED BY <2>1 DEF SharesIn, Spread, Run, Copies
<1>4. Spread(q, e, n) \in Seq(Int) /\ Len(Spread(q, e, n)) = Upto(q, n)
  BY <1>2, SpreadFacts DEF Upto
<1>5. HeldIn(lots) = Upto(q, n)
  BY <1>1, HeldInIsSum
<1> QED BY <1>1, <1>3, <1>4, <1>5

\* Nothing is held exactly when there is no lot.
LEMMA HeldInOfNone ==
  ASSUME NEW lots \in Seq(Lot)
  PROVE  lots = <<>> <=> HeldIn(lots) = 0
<1>0. PICK n \in Nat : n = Len(lots)
  OBVIOUS
<1>1. PICK q : /\ n = Len(lots) /\ q = Qtys(lots) /\ Counts(q, n)
               /\ \A i \in 1..n : q[i] \in Nat \ {0}
  BY <1>0, LotFacts
<1>2. HeldIn(lots) = Upto(q, n)
  BY <1>1, HeldInIsSum
<1>3. lots = <<>> <=> n = 0
  BY <1>1
<1>4. CASE n = 0
  <2>1. \A i \in 1..n : q[i] \in Int
    BY <1>1
  <2> QED BY <1>2, <1>3, <1>4, <2>1, UptoStep
<1>5. CASE n # 0
  <2>1. \A i \in 1..n : q[i] \in Int
    BY <1>1
  <2>2. n \in 1..n /\ n - 1 \in 0..n
    BY <1>5
  <2>3. Upto(q, n) = Upto(q, n - 1) + q[n] /\ Upto(q, n - 1) \in Nat /\ q[n] \in Nat \ {0}
    BY <1>1, <2>1, <2>2, UptoStep, UptoGrows
  <2>4. Upto(q, n) # 0
    BY <2>3
  <2> QED BY <1>2, <1>3, <1>5, <2>4
<1> QED BY <1>4, <1>5

-----------------------------------------------------------------------------
(* A sale takes the shares from the front *)

\* What a sale of n takes of run i, the earlier runs first; what it has taken
\* after k runs; and the runs as they are then.
Taken(q, n, i) ==
  IF n <= Upto(q, i - 1) THEN 0
  ELSE IF n - Upto(q, i - 1) > q[i] THEN q[i] ELSE n - Upto(q, i - 1)
Reached(q, n, k) == IF n <= Upto(q, k) THEN n ELSE Upto(q, k)
Cut(q, m, n, k) == [i \in 1..m |-> IF i <= k THEN q[i] - Taken(q, n, i) ELSE q[i]]
Gains(q, e, m, n, fill) == [i \in 1..m |-> Taken(q, n, i) * (fill - e[i])]

\* A sale takes no more of a run than it has, and none of one before it has
\* emptied the earlier ones.
LEMMA TakenFacts ==
  ASSUME NEW q, NEW m \in Nat, Counts(q, m), NEW n \in Nat, NEW i \in 1..m
  PROVE  /\ Taken(q, n, i) \in Nat /\ Taken(q, n, i) <= q[i]
         /\ Taken(q, n, i) > 0 => n > Upto(q, i - 1)
         /\ n >= Upto(q, i) => Taken(q, n, i) = q[i]
         /\ Reached(q, n, i) = Reached(q, n, i - 1) + Taken(q, n, i)
         /\ q[i] - Taken(q, n, i) > 0 => n < Upto(q, i)
<1>1. PICK a, b, c : a = Upto(q, i - 1) /\ b = Upto(q, i) /\ c = q[i]
  OBVIOUS
<1>2. i - 1 \in 0..m /\ i \in 0..m
  OBVIOUS
<1>3. a \in Nat /\ b \in Nat /\ c \in Nat /\ b = a + c
  <2>1. \A j \in 1..m : q[j] \in Int
    BY DEF Counts
  <2>2. Upto(q, i) = Upto(q, i - 1) + q[i]
    BY <2>1, UptoStep
  <2>3. Upto(q, i - 1) \in Nat /\ Upto(q, i) \in Nat
    BY <1>2, UptoGrows
  <2> QED BY <1>1, <2>2, <2>3 DEF Counts
<1>4. Taken(q, n, i) = IF n <= a THEN 0 ELSE IF n - a > c THEN c ELSE n - a
  BY <1>1 DEF Taken
<1>5. Reached(q, n, i) = (IF n <= b THEN n ELSE b) /\ Reached(q, n, i - 1) = IF n <= a THEN n ELSE a
  BY <1>1 DEF Reached
<1>6. PICK t : t = Taken(q, n, i)
  OBVIOUS
<1>7. /\ t \in Nat /\ t <= c /\ (t > 0 => n > a) /\ (n >= b => t = c)
      /\ (c - t > 0 => n < b)
      /\ (IF n <= b THEN n ELSE b) = (IF n <= a THEN n ELSE a) + t
  BY <1>3, <1>4, <1>6
<1> QED BY <1>1, <1>5, <1>6, <1>7

\* A run that a sale has reached had every earlier run emptied.
LEMMA EmptiedBefore ==
  ASSUME NEW q, NEW m \in Nat, Counts(q, m), NEW n \in Nat, NEW k \in 0..m, n >= Upto(q, k)
  PROVE  \A i \in 1..k : Taken(q, n, i) = q[i]
<1> TAKE i \in 1..k
<1>1. i \in 1..m /\ i \in 0..m /\ i <= k
  OBVIOUS
<1>2. Upto(q, i) <= Upto(q, k) /\ Upto(q, i) \in Nat /\ Upto(q, k) \in Nat
  BY <1>1, UptoGrows
<1>3. n >= Upto(q, i)
  <2>1. PICK a, b : a = Upto(q, i) /\ b = Upto(q, k)
    OBVIOUS
  <2> QED BY <1>2, <2>1
<1> QED BY <1>1, <1>3, TakenFacts

\* After k runs, what the sale took is the front of all, and gains run by run.
FrontSold(q, e, m, n, fill, k) ==
  \E sold \in Seq(Int) : /\ Spread(q, e, m) = sold \o Spread(Cut(q, m, n, k), e, m)
                         /\ Len(sold) = Reached(q, n, k)
                         /\ Gain(sold, fill) = Upto(Gains(q, e, m, n, fill), k)

\* The gain of one run.
LEMMA GainsType ==
  ASSUME NEW q, NEW e, NEW m \in Nat, Counts(q, m), Values(e, m), NEW n \in Nat, NEW fill \in Int
  PROVE  \A i \in 1..m : /\ Gains(q, e, m, n, fill)[i] = Taken(q, n, i) * (fill - e[i])
                         /\ Gains(q, e, m, n, fill)[i] \in Int
<1> TAKE i \in 1..m
<1>1. Taken(q, n, i) \in Nat /\ e[i] \in Int
  BY TakenFacts DEF Values
<1>2. Taken(q, n, i) * (fill - e[i]) \in Int
  BY <1>1
<1> QED BY <1>2 DEF Gains

\* p is what the sale left of q after k runs.
IsCut(p, q, m, n, k) == p = Cut(q, m, n, k)

\* It has counts again.
LEMMA CutType ==
  ASSUME NEW q, NEW m \in Nat, Counts(q, m), NEW n \in Nat, NEW k \in 0..m,
         NEW p, IsCut(p, q, m, n, k)
  PROVE  /\ Counts(p, m)
         /\ \A i \in 1..m : p[i] = IF i <= k THEN q[i] - Taken(q, n, i) ELSE q[i]
<1>1. ASSUME NEW i \in 1..m
      PROVE  /\ p[i] = IF i <= k THEN q[i] - Taken(q, n, i) ELSE q[i]
             /\ p[i] \in Nat
  <2>1. PICK t, c : t = Taken(q, n, i) /\ c = q[i] /\ t \in Nat /\ c \in Nat /\ t <= c
    BY TakenFacts DEF Counts
  <2>2. c - t \in Nat
    BY <2>1
  <2> QED BY <2>1, <2>2 DEF Cut, IsCut
<1> QED BY <1>1 DEF Counts

\* One more run extends the front.
LEMMA FrontSoldStep ==
  ASSUME NEW q, NEW e, NEW m \in Nat, Counts(q, m), Values(e, m), NEW n \in Nat, NEW fill \in Int,
         NEW k \in 1..m, FrontSold(q, e, m, n, fill, k - 1)
  PROVE  FrontSold(q, e, m, n, fill, k)
<1>1. PICK j \in 0..m : j = k - 1 /\ k \in 0..m /\ k \in Nat
  OBVIOUS
<1>2. PICK p, p2, t, g : /\ p = Cut(q, m, n, j) /\ p2 = Cut(q, m, n, k)
                         /\ t = Taken(q, n, k) /\ g = Gains(q, e, m, n, fill)
  OBVIOUS
<1>3. PICK sold \in Seq(Int) : /\ Spread(q, e, m) = sold \o Spread(p, e, m)
                               /\ Len(sold) = Reached(q, n, j)
                               /\ Gain(sold, fill) = Upto(g, j)
  BY <1>1, <1>2 DEF FrontSold
<1>4. /\ t \in Nat /\ t <= q[k] /\ (t > 0 => n > Upto(q, j))
      /\ Reached(q, n, k) = Reached(q, n, j) + t
      /\ q[k] \in Nat /\ e[k] \in Int
  <2>1. q[k] \in Nat /\ e[k] \in Int
    BY DEF Counts, Values
  <2>2. /\ Taken(q, n, k) \in Nat /\ Taken(q, n, k) <= q[k]
        /\ Taken(q, n, k) > 0 => n > Upto(q, k - 1)
        /\ Reached(q, n, k) = Reached(q, n, k - 1) + Taken(q, n, k)
    BY TakenFacts
  <2> QED BY <1>1, <1>2, <2>1, <2>2
<1>5. /\ Counts(p, m) /\ Counts(p2, m) /\ p[k] = q[k] /\ p2[k] = q[k] - t
      /\ \A i \in 1..m : i # k => p2[i] = p[i]
  <2>1. /\ Counts(p, m) /\ Counts(p2, m)
        /\ \A i \in 1..m : p[i] = IF i <= j THEN q[i] - Taken(q, n, i) ELSE q[i]
        /\ \A i \in 1..m : p2[i] = IF i <= k THEN q[i] - Taken(q, n, i) ELSE q[i]
    <3>1. IsCut(p, q, m, n, j) /\ IsCut(p2, q, m, n, k)
      BY <1>2 DEF IsCut
    <3> QED BY <1>1, <3>1, CutType
  <2>2. ~(k <= j) /\ \A i \in 1..m : i # k => (i <= k <=> i <= j)
    BY <1>1
  <2> QED BY <1>1, <1>2, <2>1, <2>2
<1>6. Upto(g, k) = Upto(g, j) + t * (fill - e[k])
  <2>1. /\ \A i \in 1..m : g[i] \in Int
        /\ g[k] = t * (fill - e[k])
    BY <1>2, GainsType
  <2> QED BY <1>1, <2>1, UptoStep
<1>7. Gain(sold, fill) \in Int
  BY GainOfOneMore
<1>8. CASE t = 0
  <2>1. \A i \in 1..m : p2[i] = p[i]
    <3>1. p2[k] = p[k]
      BY <1>4, <1>5, <1>8
    <3> QED BY <1>5, <3>1
  <2>2. Spread(p2, e, m) = Spread(p, e, m)
    <3>1. \A i \in 1..m : Run(p2, e, i) = Run(p, e, i)
      BY <2>1 DEF Run
    <3> QED BY <3>1, SpreadSame
  <2>3. t * (fill - e[k]) = 0
    BY <1>4, <1>8
  <2>4. Len(sold) = Reached(q, n, k)
    <3>1. Len(sold) \in Nat
      OBVIOUS
    <3> QED BY <1>3, <1>4, <1>8, <3>1
  <2>5. Gain(sold, fill) = Upto(g, k)
    BY <1>3, <1>6, <1>7, <2>3
  <2> QED BY <1>2, <1>3, <2>2, <2>4, <2>5 DEF FrontSold
<1>9. CASE t # 0
  <2>1. \A i \in 1..j : p[i] = 0
    <3>1. Upto(q, j) \in Nat /\ n >= Upto(q, j)
      BY <1>4, <1>9, UptoGrows
    <3>2. \A i \in 1..j : Taken(q, n, i) = q[i]
      BY <3>1, EmptiedBefore
    <3>3. \A i \in 1..j : i \in 1..m /\ q[i] \in Nat
      BY DEF Counts
    <3>4. \A i \in 1..j : p[i] = q[i] - Taken(q, n, i)
      <4>1. IsCut(p, q, m, n, j)
        BY <1>2 DEF IsCut
      <4>2. \A i \in 1..m : p[i] = IF i <= j THEN q[i] - Taken(q, n, i) ELSE q[i]
        BY <4>1, CutType
      <4> QED BY <3>3, <4>2
    <3> QED BY <3>2, <3>3, <3>4
  <2>2. LessInFront(p, p2, m, k, t)
    BY <1>1, <1>4, <1>5, <2>1 DEF LessInFront
  <2>3. Spread(p, e, m) = Copies(t, e[k]) \o Spread(p2, e, m)
    BY <1>5, <2>2, SpreadTake
  <2>4. PICK c, rest : c = Copies(t, e[k]) /\ rest = Spread(p2, e, m)
    OBVIOUS
  <2>5. c \in Seq(Int) /\ Len(c) = t /\ rest \in Seq(Int)
    BY <1>4, <1>5, <2>4, CopiesType, SpreadFacts
  <2>6. PICK more : more = sold \o c
    OBVIOUS
  <2>7. more \in Seq(Int) /\ Len(more) = Len(sold) + t
    BY <2>5, <2>6, ConcatProperties
  <2>8. Spread(q, e, m) = more \o rest
    <3>1. (sold \o c) \o rest = sold \o (c \o rest)
      BY <2>5, Associative
    <3> QED BY <1>3, <2>3, <2>4, <2>6, <3>1
  <2>9. Gain(more, fill) = Gain(sold, fill) + t * (fill - e[k])
    BY <1>4, <2>4, <2>6, GainOfCopies
  <2>10. Len(more) = Reached(q, n, k) /\ Gain(more, fill) = Upto(g, k)
    BY <1>3, <1>4, <1>6, <2>7, <2>9
  <2> QED BY <1>2, <2>4, <2>7, <2>8, <2>10 DEF FrontSold
<1> QED BY <1>8, <1>9

\* So a whole sale takes a front.
LEMMA FrontIsSold ==
  ASSUME NEW q, NEW e, NEW m \in Nat, Counts(q, m), Values(e, m), NEW n \in Nat, NEW fill \in Int
  PROVE  FrontSold(q, e, m, n, fill, m)
<1> DEFINE B == {k \in 0..m : ~FrontSold(q, e, m, n, fill, k)}
<1>1. SUFFICES ASSUME B # {} PROVE FALSE
  OBVIOUS
<1>2. PICK k \in B : \A j \in B : k <= j
  <2>1. B \subseteq Nat
    OBVIOUS
  <2> HIDE DEF B
  <2> QED BY <1>1, <2>1, LeastOf
<1>3. k \in 0..m /\ ~FrontSold(q, e, m, n, fill, k)
  BY <1>2
<1>4. k # 0
  <2>1. PICK p : p = Cut(q, m, n, 0)
    OBVIOUS
  <2>2. Counts(p, m) /\ \A i \in 1..m : p[i] = q[i]
    <3>1. 0 \in 0..m /\ \A i \in 1..m : ~(i <= 0)
      OBVIOUS
    <3>2. IsCut(p, q, m, n, 0)
      BY <2>1 DEF IsCut
    <3> QED BY <3>1, <3>2, CutType
  <2>3. Spread(p, e, m) = Spread(q, e, m)
    <3>1. \A i \in 1..m : Run(p, e, i) = Run(q, e, i)
      BY <2>2 DEF Run
    <3> QED BY <3>1, SpreadSame
  <2>4. Spread(q, e, m) \in Seq(Int)
    BY SpreadFacts
  <2>5. <<>> \in Seq(Int) /\ Len(<<>>) = 0 /\ Spread(q, e, m) = <<>> \o Spread(p, e, m)
    BY <2>3, <2>4, ConcatEmptySeq
  <2>6. Upto(q, 0) = 0 /\ Upto(Gains(q, e, m, n, fill), 0) = 0
    <3>1. \A i \in 1..m : q[i] \in Int
      BY DEF Counts
    <3>2. \A i \in 1..m : Gains(q, e, m, n, fill)[i] \in Int
      BY GainsType
    <3> QED BY <3>1, <3>2, UptoStep
  <2>7. Reached(q, n, 0) = 0
    BY <2>6 DEF Reached
  <2>8. FrontSold(q, e, m, n, fill, 0)
    BY <2>1, <2>5, <2>6, <2>7, GainOfNone DEF FrontSold
  <2> QED BY <1>3, <2>8
<1>5. k \in 1..m /\ k - 1 \in 0..m /\ k - 1 \notin B
  BY <1>2, <1>3, <1>4
<1>6. FrontSold(q, e, m, n, fill, k - 1)
  BY <1>5
<1> QED BY <1>3, <1>5, <1>6, FrontSoldStep

-----------------------------------------------------------------------------
(* The sale of a book *)

\* The first of some positions is one of them.
LEMMA MinIsIn ==
  ASSUME NEW T, T \subseteq Nat, T # {}
  PROVE  Min(T) \in T /\ \A y \in T : Min(T) <= y
BY LeastOf DEF Min

\* _sell_fifo takes of each lot what the sale of runs takes of its run.
LEMMA TakenFromIsTaken ==
  ASSUME NEW lots \in Seq(Lot), NEW n, NEW i \in 1..Len(lots)
  PROVE  TakenFrom(lots, n, i) = Taken(Qtys(lots), n, i)
<1>m. PICK m \in Nat : m = Len(lots)
  OBVIOUS
<1>0. PICK q : /\ m = Len(lots) /\ q = Qtys(lots)
               /\ DOMAIN lots = 1..m /\ \A k \in 1..m : q[k] = lots[k].qty
  BY <1>m, LotFacts
<1>1. PICK j, older : j = i - 1 /\ j \in Nat /\ j <= m /\ older = SubSeq(lots, 1, j)
  <2>1. i - 1 \in Nat /\ i - 1 <= m
    BY <1>0
  <2> QED BY <2>1
<1>2. older \in Seq(Lot) /\ Len(older) = j /\ \A k \in 1..j : older[k] = lots[k] /\ k \in 1..m
  BY <1>0, <1>1
<1>3. HeldIn(older) = Upto(Qtys(older), j)
  BY <1>2, HeldInIsSum
<1>4. Upto(Qtys(older), j) = Upto(q, j)
  <2>1. PICK S, w : S = 1..j /\ w = Qtys(older)
    OBVIOUS
  <2>2. IsFiniteSet(S) /\ \A k \in S : w[k] = q[k]
    <3>1. DOMAIN older = 1..j /\ \A k \in DOMAIN older : w[k] = older[k].qty
      BY <1>2, <2>1, LotFacts
    <3>2. \A k \in S : w[k] = q[k]
      BY <1>0, <1>2, <2>1, <3>1
    <3>3. IsFiniteSet(1..j)
      <4>1. j \in Int
        BY <1>1
      <4> QED BY <4>1, FS_Interval
    <3> QED BY <2>1, <3>2, <3>3
  <2>3. SumFunctionOnSet(w, S) = SumFunctionOnSet(q, S)
    BY <2>2, SumCongruent
  <2> QED BY <2>1, <2>3 DEF Upto
<1>5. HeldIn(SubSeq(lots, 1, i - 1)) = Upto(q, i - 1) /\ lots[i].qty = q[i]
  BY <1>0, <1>1, <1>3, <1>4
<1> QED BY <1>0, <1>5 DEF TakenFrom, Taken

\* The gain it books is the sum of the gains of the runs.
LEMMA SaleGainIsSum ==
  ASSUME NEW lots \in Seq(Lot), NEW n \in Nat, NEW fill \in Int
  PROVE  SaleGain(lots, n, fill)
           = Upto(Gains(Qtys(lots), Entries(lots), Len(lots), n, fill), Len(lots))
<1> DEFINE w == Gains(Qtys(lots), Entries(lots), Len(lots), n, fill)
           ids == [i \in DOMAIN lots |-> i]
<1>1. PICK m \in Nat : m = Len(lots) /\ DOMAIN lots = 1..m
  BY LotFacts
<1>2. \A i \in 1..m : /\ w[i] = TakenFrom(lots, n, i) * (fill - lots[i].entry)
                      /\ w[i] \in Int
  <2>1. PICK q, e : q = Qtys(lots) /\ e = Entries(lots)
    OBVIOUS
  <2>2. Counts(q, m) /\ Values(e, m)
    BY <1>1, <2>1, LotFacts
  <2>3. TAKE i \in 1..m
  <2>4. w[i] = Taken(q, n, i) * (fill - e[i]) /\ w[i] \in Int
    BY <1>1, <2>1, <2>2, GainsType
  <2>5. e[i] = lots[i].entry /\ Taken(q, n, i) = TakenFrom(lots, n, i)
    BY <1>1, <2>1, LotFacts, TakenFromIsTaken
  <2> QED BY <2>4, <2>5
<1> HIDE DEF w
<1>3. SaleGain(lots, n, fill) = (CHOOSE f : f = [T \in SUBSET (1..m) |->
          IF T = {} THEN 0
          ELSE f[T \ {Max(T)}] + TakenFrom(lots, n, ids[Max(T)]) * (fill - lots[ids[Max(T)]].entry)])[1..m]
  BY <1>1 DEF SaleGain, FoldLeft, MapThenFoldSet
<1>4. \A f : f = [T \in SUBSET (1..m) |->
          IF T = {} THEN 0
          ELSE f[T \ {Max(T)}] + TakenFrom(lots, n, ids[Max(T)]) * (fill - lots[ids[Max(T)]].entry)]
               <=> AddsUp(f, w, 0, 1..m)
  <2>1. TAKE f
  <2>2. ASSUME NEW T \in SUBSET (1..m)
        PROVE  (IF T = {} THEN 0
                ELSE f[T \ {Max(T)}] + TakenFrom(lots, n, ids[Max(T)]) * (fill - lots[ids[Max(T)]].entry))
                 = (IF T = {} THEN 0 ELSE f[T \ {Max(T)}] + w[Max(T)])
    <3>1. T # {} => Max(T) \in 1..m
      BY MaxIsIn
    <3>2. T # {} => ids[Max(T)] = Max(T)
      BY <1>1, <3>1
    <3> HIDE DEF ids
    <3> QED BY <1>2, <3>1, <3>2
  <2> HIDE DEF ids
  <2>3. [T \in SUBSET (1..m) |->
           IF T = {} THEN 0
           ELSE f[T \ {Max(T)}] + TakenFrom(lots, n, ids[Max(T)]) * (fill - lots[ids[Max(T)]].entry)]
          = [T \in SUBSET (1..m) |-> IF T = {} THEN 0 ELSE f[T \ {Max(T)}] + w[Max(T)]]
    BY <2>2
  <2> QED BY <2>3 DEF AddsUp
<1>5. SaleGain(lots, n, fill) = (CHOOSE f : AddsUp(f, w, 0, 1..m))[1..m]
  <2> HIDE DEF ids
  <2> QED BY <1>3, <1>4
<1>6. SaleGain(lots, n, fill) = Upto(w, m)
  BY <1>2, <1>5, TableOfSums
<1> QED BY <1>1, <1>6 DEF w

\* The lots that a sale leaves: the cut lots from the first that is not empty on.
LEMMA LotsLeftFacts ==
  ASSUME NEW lots \in Seq(Lot), NEW n \in Nat
  PROVE  /\ LotsLeft(lots, n) \in Seq(Lot)
         /\ \E f \in 0..Len(lots) :
              /\ Len(LotsLeft(lots, n)) = Len(lots) - f
              /\ \A i \in 1..f : lots[i].qty - Taken(Qtys(lots), n, i) = 0
              /\ \A i \in 1..Len(lots) - f :
                   /\ LotsLeft(lots, n)[i].qty = lots[f + i].qty - Taken(Qtys(lots), n, f + i)
                   /\ LotsLeft(lots, n)[i].entry = lots[f + i].entry
<1> DEFINE cut  == [i \in DOMAIN lots |-> [lots[i] EXCEPT !.qty = @ - TakenFrom(lots, n, i)]]
           left == {i \in DOMAIN lots : cut[i].qty > 0}
           first == Min(left \cup {Len(lots) + 1})
<1>0. PICK m \in Nat : m = Len(lots)
  OBVIOUS
<1>1. PICK q : /\ m = Len(lots) /\ q = Qtys(lots) /\ DOMAIN lots = 1..m /\ Counts(q, m)
               /\ \A i \in 1..m : /\ lots[i] \in Lot /\ q[i] = lots[i].qty
                                  /\ lots[i].qty \in Nat \ {0} /\ lots[i].entry \in Nat \ {0}
  BY <1>0, LotFacts
<1>2. ASSUME NEW i \in 1..m
      PROVE  /\ cut[i].qty = lots[i].qty - Taken(q, n, i) /\ cut[i].entry = lots[i].entry
             /\ cut[i].qty \in Nat /\ Taken(q, n, i) \in Nat
             /\ cut[i].qty > 0 => cut[i] \in Lot
  <2>1. TakenFrom(lots, n, i) = Taken(q, n, i)
    BY <1>1, TakenFromIsTaken
  <2>2. cut[i] = [lots[i] EXCEPT !.qty = @ - Taken(q, n, i)]
    BY <1>1, <2>1
  <2>3. Taken(q, n, i) \in Nat /\ Taken(q, n, i) <= q[i]
    BY <1>1, TakenFacts
  <2> HIDE DEF cut
  <2>4. PICK a, b, t : a = lots[i].qty /\ b = lots[i].entry /\ t = Taken(q, n, i)
    OBVIOUS
  <2>5. a \in Nat \ {0} /\ t \in Nat /\ t <= a /\ a - t \in Nat
    BY <1>1, <2>3, <2>4
  <2>6. lots[i] = [qty |-> a, entry |-> b] /\ b \in Nat \ {0}
    BY <1>1, <2>4 DEF Lot
  <2>7. cut[i] = [qty |-> a - t, entry |-> b]
    BY <2>2, <2>4, <2>6
  <2> QED BY <2>4, <2>5, <2>6, <2>7 DEF Lot
<1>3. DOMAIN cut = 1..m
  BY <1>1
<1>4. left = {i \in 1..m : cut[i].qty > 0}
  BY <1>1
<1>5. SubSeq(cut, first, m) = LotsLeft(lots, n)
  BY <1>1 DEF LotsLeft
<1> HIDE DEF cut
<1>6. /\ first \in left \cup {m + 1} /\ \A i \in left : first <= i
      /\ first \in 1..(m + 1)
  <2>1. left \cup {m + 1} \subseteq Nat /\ left \cup {m + 1} # {} /\ left \subseteq 1..m
    BY <1>4
  <2> HIDE DEF left
  <2>2. first \in left \cup {m + 1} /\ \A i \in left \cup {m + 1} : first <= i
    BY <1>1, <2>1, MinIsIn
  <2> HIDE DEF first
  <2> QED BY <2>1, <2>2
<1>7. ASSUME NEW i \in 1..m, i < first
      PROVE  cut[i].qty = 0
  <2>1. i \notin left
    <3> HIDE DEF left, first
    <3>1. first \in Int
      BY <1>6
    <3> QED BY <1>6, <1>7, <3>1
  <2> QED BY <1>2, <1>4, <2>1
<1>8. ASSUME NEW i \in 1..m, first <= i
      PROVE  cut[i] \in Lot
  <2>1. first \in left
    <3> HIDE DEF left, first
    <3> QED BY <1>6, <1>8
  <2>2. first \in 1..m /\ cut[first].qty > 0
    BY <1>4, <2>1
  <2> HIDE DEF first, left
  <2>3. CASE i = first
    BY <1>2, <2>2, <2>3
  <2>4. CASE i # first
    <3>1. n < Upto(q, first)
      <4>1. q[first] - Taken(q, n, first) > 0
        BY <1>1, <1>2, <2>2
      <4> QED BY <1>1, <2>2, <4>1, TakenFacts
    <3>2. first \in 0..m /\ i - 1 \in 0..m /\ first <= i - 1
      BY <1>8, <2>2, <2>4
    <3>3. Upto(q, first) <= Upto(q, i - 1) /\ Upto(q, first) \in Nat /\ Upto(q, i - 1) \in Nat
      BY <1>1, <3>2, UptoGrows
    <3>4. n <= Upto(q, i - 1)
      <4>1. PICK a, b : a = Upto(q, first) /\ b = Upto(q, i - 1)
        OBVIOUS
      <4> QED BY <3>1, <3>3, <4>1
    <3>5. Taken(q, n, i) = 0
      BY <3>4 DEF Taken
    <3>6. cut[i].qty > 0
      BY <1>1, <1>2, <3>5
    <3> QED BY <1>2, <3>6
  <2> QED BY <2>3, <2>4
<1> HIDE DEF first, left
<1>9. PICK f \in 0..m : f = first - 1 /\ first = f + 1
  BY <1>6
<1>10. /\ LotsLeft(lots, n) \in Seq(Lot) /\ Len(LotsLeft(lots, n)) = m - f
       /\ \A i \in 1..(m - f) : LotsLeft(lots, n)[i] = cut[f + i]
  <2>1. PICK new : new = LotsLeft(lots, n)
    OBVIOUS
  <2>2. new = [i \in 1..(m - f) |-> cut[f + i]]
    <3>1. new = SubSeq(cut, f + 1, m)
      BY <1>5, <1>9, <2>1
    <3>2. SubSeq(cut, f + 1, m) = [i \in 1..(1 + m - (f + 1)) |-> cut[(f + 1) + i - 1]]
      OBVIOUS
    <3>3. 1 + m - (f + 1) = m - f /\ \A i \in Int : (f + 1) + i - 1 = f + i
      OBVIOUS
    <3> QED BY <3>1, <3>2, <3>3
  <2>3. m - f \in Nat
    OBVIOUS
  <2>4. \A i \in 1..(m - f) : new[i] = cut[f + i]
    BY <2>2
  <2>5. ASSUME NEW i \in 1..(m - f) PROVE new[i] \in Lot
    <3>1. f + i \in 1..m /\ first <= f + i
      BY <1>9
    <3> QED BY <1>8, <2>4, <3>1
  <2>6. new \in Seq(Lot) /\ Len(new) = m - f
    BY <2>2, <2>3, <2>5
  <2> QED BY <2>1, <2>4, <2>6
<1>11. \A i \in 1..f : lots[i].qty - Taken(q, n, i) = 0
  <2>1. TAKE i \in 1..f
  <2>2. i \in 1..m /\ i < first
    BY <1>9
  <2> QED BY <1>2, <1>7, <2>2
<1>12. \A i \in 1..(m - f) :
          /\ LotsLeft(lots, n)[i].qty = lots[f + i].qty - Taken(q, n, f + i)
          /\ LotsLeft(lots, n)[i].entry = lots[f + i].entry
  <2>1. TAKE i \in 1..(m - f)
  <2>2. f + i \in 1..m
    OBVIOUS
  <2> QED BY <1>2, <1>10, <2>2
<1> QED BY <1>1, <1>10, <1>11, <1>12

\* A sale of a book takes shares off the front and books their gain.
LEMMA SaleOfLots ==
  ASSUME NEW lots \in Seq(Lot), NEW n \in Nat, n <= HeldIn(lots), NEW fill \in Int
  PROVE  /\ LotsLeft(lots, n) \in Seq(Lot)
         /\ \E sold \in Seq(Int) : /\ SharesIn(lots) = sold \o SharesIn(LotsLeft(lots, n))
                                   /\ Len(sold) = n
                                   /\ Gain(sold, fill) = SaleGain(lots, n, fill)
<1>0. PICK m \in Nat : m = Len(lots)
  OBVIOUS
<1>1. PICK q, e : /\ m = Len(lots) /\ q = Qtys(lots) /\ e = Entries(lots)
                  /\ Counts(q, m) /\ Values(e, m)
                  /\ \A i \in 1..m : q[i] = lots[i].qty /\ e[i] = lots[i].entry
  BY <1>0, LotFacts
<1>2. PICK new, p, d : new = LotsLeft(lots, n) /\ p = Qtys(new) /\ d = Entries(new)
  OBVIOUS
<1>3. PICK f \in 0..m :
        /\ new \in Seq(Lot) /\ Len(new) = m - f
        /\ \A i \in 1..f : lots[i].qty - Taken(q, n, i) = 0
        /\ \A i \in 1..(m - f) : /\ new[i].qty = lots[f + i].qty - Taken(q, n, f + i)
                                 /\ new[i].entry = lots[f + i].entry
  BY <1>1, <1>2, LotsLeftFacts
<1>4. PICK c : c = Cut(q, m, n, m)
  OBVIOUS
<1>5. Counts(c, m) /\ \A i \in 1..m : c[i] = q[i] - Taken(q, n, i)
  <2>1. IsCut(c, q, m, n, m) /\ m \in 0..m /\ \A i \in 1..m : i <= m
    BY <1>4 DEF IsCut
  <2> QED BY <1>1, <2>1, CutType
<1>6. SharesIn(new) = Spread(p, d, m - f)
  BY <1>2, <1>3, SharesInIsSpread
<1>7. Spread(c, e, m) = Spread(p, d, m - f)
  <2>1. \A i \in 1..f : c[i] = 0
    BY <1>1, <1>3, <1>5
  <2>2. \A i \in 1..(m - f) : p[i] = c[f + i] /\ d[i] = e[f + i]
    <3>1. TAKE i \in 1..(m - f)
    <3>2. f + i \in 1..m
      OBVIOUS
    <3>3. p[i] = new[i].qty /\ d[i] = new[i].entry
      BY <1>2, <1>3, LotFacts
    <3> QED BY <1>1, <1>3, <1>5, <3>2, <3>3
  <2> QED
    <3>1. Counts(c, m) /\ Values(e, m)
      BY <1>1, <1>5
    <3>2. EmptyInFront(c, e, p, d, m, f)
      BY <2>1, <2>2 DEF EmptyInFront
    <3> QED BY <3>1, <3>2, SpreadDrop
<1>8. FrontSold(q, e, m, n, fill, m)
  BY <1>1, FrontIsSold
<1>9. PICK sold \in Seq(Int) : /\ Spread(q, e, m) = sold \o Spread(c, e, m)
                               /\ Len(sold) = Reached(q, n, m)
                               /\ Gain(sold, fill) = Upto(Gains(q, e, m, n, fill), m)
  BY <1>4, <1>8 DEF FrontSold
<1>10. HeldIn(lots) = Upto(q, m) /\ SharesIn(lots) = Spread(q, e, m)
  BY <1>1, HeldInIsSum, SharesInIsSpread
<1>11. Len(sold) = n
  BY <1>9, <1>10 DEF Reached
<1>12. SaleGain(lots, n, fill) = Upto(Gains(q, e, m, n, fill), m)
  BY <1>1, SaleGainIsSum
<1> QED BY <1>2, <1>3, <1>6, <1>7, <1>9, <1>10, <1>11, <1>12

-----------------------------------------------------------------------------
(* One day of a book *)

\* The state of one replay, and a row of the tape.
Book == [lots : Seq(Lot), peak : Int \cup {None}, lastBuy : Int \cup {None}, realized : Int]
Tape == [day : Int, action : Trades, qty : Int, price : MarketPrices, varMax : Int \cup {None}]

\* Sums of the same numbers are the same.
LEMMA UptoSame ==
  ASSUME NEW q, NEW p, NEW k \in Nat, \A i \in 1..k : q[i] = p[i]
  PROVE  Upto(q, k) = Upto(p, k)
<1>1. PICK S : S = 1..k
  OBVIOUS
<1>2. IsFiniteSet(S) /\ \A i \in S : q[i] = p[i]
  BY <1>1, FS_Interval
<1>3. SumFunctionOnSet(q, S) = SumFunctionOnSet(p, S)
  BY <1>2, SumCongruent
<1> QED BY <1>1, <1>3 DEF Upto

\* One lot more comes last.
LEMMA LotAppended ==
  ASSUME NEW lots \in Seq(Lot), NEW lot \in Lot
  PROVE  LET new == Append(lots, lot)
         IN  /\ new \in Seq(Lot)
             /\ SharesIn(new) = SharesIn(lots) \o Copies(lot.qty, lot.entry)
             /\ HeldIn(new) = HeldIn(lots) + lot.qty
             /\ Cost(new) = Cost(lots) + lot.qty * lot.entry
<1>1. PICK m, last, new : /\ m = Len(lots) /\ last = m + 1 /\ new = Append(lots, lot)
  OBVIOUS
<1>2. /\ m \in Nat /\ last \in Nat \ {0} /\ m = last - 1 /\ last \in 1..last /\ m \in 0..last
      /\ new \in Seq(Lot) /\ Len(new) = last /\ DOMAIN new = 1..last
      /\ new[last] = lot /\ \A i \in 1..m : new[i] = lots[i] /\ i \in 1..last
  BY <1>1
<1>3. PICK q, e, p, d : q = Qtys(lots) /\ e = Entries(lots) /\ p = Qtys(new) /\ d = Entries(new)
  OBVIOUS
<1>4. /\ Counts(p, last) /\ Values(d, last) /\ p[last] = lot.qty /\ d[last] = lot.entry
      /\ \A i \in 1..m : p[i] = q[i] /\ d[i] = e[i] /\ Costs(new)[i] = Costs(lots)[i]
      /\ Costs(new)[last] = lot.qty * lot.entry
  <2>1. \A i \in 1..last : /\ p[i] = new[i].qty /\ d[i] = new[i].entry
                           /\ Costs(new)[i] = new[i].qty * new[i].entry
    BY <1>2, <1>3, LotFacts
  <2>2. \A i \in 1..m : /\ q[i] = lots[i].qty /\ e[i] = lots[i].entry
                        /\ Costs(lots)[i] = lots[i].qty * lots[i].entry
    BY <1>1, <1>3, LotFacts
  <2>3. Counts(p, last) /\ Values(d, last)
    BY <1>2, <1>3, LotFacts
  <2>4. ASSUME NEW i \in 1..m
        PROVE  p[i] = q[i] /\ d[i] = e[i] /\ Costs(new)[i] = Costs(lots)[i]
    <3>1. new[i] = lots[i] /\ i \in 1..last
      BY <1>2
    <3>2. Costs(new)[i] = lots[i].qty * lots[i].entry /\ p[i] = lots[i].qty /\ d[i] = lots[i].entry
      BY <2>1, <3>1
    <3>3. Costs(lots)[i] = lots[i].qty * lots[i].entry /\ q[i] = lots[i].qty /\ e[i] = lots[i].entry
      BY <2>2
    <3> QED BY <3>2, <3>3
  <2>5. p[last] = lot.qty /\ d[last] = lot.entry /\ Costs(new)[last] = lot.qty * lot.entry
    BY <1>2, <2>1
  <2> QED BY <2>3, <2>4, <2>5
<1>5. SharesIn(new) = SharesIn(lots) \o Copies(lot.qty, lot.entry)
  <2>1. SharesIn(new) = Spread(p, d, last) /\ SharesIn(lots) = Spread(q, e, m)
    BY <1>1, <1>2, <1>3, SharesInIsSpread
  <2>2. p[last] \in Nat /\ d[last] \in Int
    BY <1>2, <1>4 DEF Counts, Values
  <2>3. Spread(p, d, last) = Spread(p, d, last - 1) \o Run(p, d, last)
    BY <1>2, <2>2, SpreadStep
  <2>4. Spread(p, d, m) = Spread(q, e, m)
    <3>1. \A i \in 1..m : Run(p, d, i) = Run(q, e, i)
      BY <1>4 DEF Run
    <3> QED BY <1>2, <3>1, SpreadSame
  <2> QED BY <1>2, <1>4, <2>1, <2>3, <2>4 DEF Run
<1>6. HeldIn(new) = HeldIn(lots) + lot.qty
  <2>1. HeldIn(new) = Upto(p, last) /\ HeldIn(lots) = Upto(q, m)
    BY <1>1, <1>2, <1>3, HeldInIsSum
  <2>2. \A i \in 1..last : p[i] \in Int
    BY <1>4 DEF Counts
  <2>3. Upto(p, last) = Upto(p, last - 1) + p[last]
    BY <1>2, <2>2, UptoStep
  <2>4. Upto(p, m) = Upto(q, m)
    BY <1>2, <1>4, UptoSame
  <2> QED BY <1>2, <1>4, <2>1, <2>3, <2>4
<1>7. Cost(new) = Cost(lots) + lot.qty * lot.entry
  <2>1. PICK w, u : w = Costs(new) /\ u = Costs(lots)
    OBVIOUS
  <2>2. Cost(new) = Upto(w, last) /\ Cost(lots) = Upto(u, m)
    BY <1>1, <1>2, <2>1, CostIsSum
  <2>3. \A i \in 1..last : w[i] \in Int
    BY <1>2, <2>1, LotFacts
  <2>4. Upto(w, last) = Upto(w, last - 1) + w[last]
    BY <1>2, <2>3, UptoStep
  <2>5. Upto(w, m) = Upto(u, m)
    BY <1>2, <1>4, <2>1, UptoSame
  <2> QED BY <1>2, <1>4, <2>1, <2>2, <2>4, <2>5
<1> QED BY <1>1, <1>2, <1>5, <1>6, <1>7

\* Every sale of a book, a stop's or a proposal's, takes the oldest shares.
LEMMA SellMoves ==
  ASSUME NEW book \in Book, NEW n \in Nat, n > 0, n <= HeldIn(book.lots), NEW p \in MarketPrices
  PROVE  LET new == Sell(book, n, p)
         IN  /\ new \in Book
             /\ HeldIn(new.lots) = HeldIn(book.lots) - n
             /\ Moves(SharesIn(book.lots), book.realized, "SELL", n, Fill(p, "SELL"),
                      SharesIn(new.lots), new.realized)
<1>1. PICK fill \in Int : fill = Fill(p, "SELL")
  BY FillType
<1>2. PICK lots, new : lots = book.lots /\ new = Sell(book, n, p)
  OBVIOUS
<1>3. lots \in Seq(Lot) /\ book.realized \in Int
  BY <1>2 DEF Book
<1>4. n <= HeldIn(lots)
  BY <1>2
<1>5. PICK sold \in Seq(Int) : /\ SharesIn(lots) = sold \o SharesIn(LotsLeft(lots, n))
                               /\ Len(sold) = n /\ Gain(sold, fill) = SaleGain(lots, n, fill)
  BY <1>3, <1>4, SaleOfLots
<1>6. LotsLeft(lots, n) \in Seq(Lot)
  BY <1>3, <1>4, SaleOfLots
<1>7. SaleGain(lots, n, fill) \in Int
  BY <1>5, GainOfOneMore
<1>8. /\ new \in Book /\ new.lots = LotsLeft(lots, n)
      /\ new.realized = book.realized + Gain(sold, fill)
  <2>1. new = [book EXCEPT !.realized = @ + SaleGain(lots, n, fill), !.lots = LotsLeft(@, n)]
    BY <1>1, <1>2 DEF Sell
  <2>2. book = [lots |-> lots, peak |-> book.peak, lastBuy |-> book.lastBuy, realized |-> book.realized]
    BY <1>2 DEF Book
  <2>3. new = [lots |-> LotsLeft(lots, n), peak |-> book.peak, lastBuy |-> book.lastBuy,
               realized |-> book.realized + SaleGain(lots, n, fill)]
    <3>1. PICK gain, left, pk, last, real :
            /\ gain = SaleGain(lots, n, fill) /\ left = LotsLeft(lots, n)
            /\ pk = book.peak /\ last = book.lastBuy /\ real = book.realized
      OBVIOUS
    <3>2. [book EXCEPT !.realized = @ + gain]
            = [lots |-> lots, peak |-> pk, lastBuy |-> last, realized |-> real + gain]
      BY <2>2, <3>1
    <3>3. new = [[book EXCEPT !.realized = @ + gain] EXCEPT !.lots = LotsLeft(@, n)]
      BY <2>1, <3>1
    <3> QED BY <3>1, <3>2, <3>3
  <2>4. book.realized + SaleGain(lots, n, fill) \in Int
    BY <1>3, <1>7
  <2>5. book.peak \in Int \cup {None} /\ book.lastBuy \in Int \cup {None}
    BY DEF Book
  <2> QED BY <1>5, <1>6, <2>3, <2>4, <2>5 DEF Book
<1>9. SharesIn(new.lots) \in Seq(Int)
  BY <1>6, <1>8, SharesInIsSpread
<1>10. HeldIn(new.lots) = HeldIn(lots) - n
  <2>1. PICK a, b, c : a = SharesIn(lots) /\ b = SharesIn(new.lots) /\ c = sold
    OBVIOUS
  <2>2. HeldIn(lots) = Len(a) /\ HeldIn(new.lots) = Len(b)
    BY <1>3, <1>6, <1>8, <2>1, SharesInIsSpread
  <2>3. b \in Seq(Int) /\ c \in Seq(Int) /\ a = c \o b /\ Len(c) = n
    BY <1>5, <1>8, <1>9, <2>1
  <2>4. Len(a) = Len(c) + Len(b) /\ Len(b) \in Nat
    <3>1. Len(c \o b) = Len(c) + Len(b)
      BY <2>3, PartsOf
    <3> QED BY <2>3, <3>1
  <2>5. PICK x, y : x = Len(a) /\ y = Len(b)
    OBVIOUS
  <2>6. y = x - n
    BY <2>3, <2>4, <2>5
  <2> QED BY <2>2, <2>5, <2>6
<1>11. Moves(SharesIn(lots), book.realized, "SELL", n, fill, SharesIn(new.lots), new.realized)
  <2>1. PICK a, b, g, g2 : /\ a = SharesIn(lots) /\ b = SharesIn(new.lots)
                           /\ g = book.realized /\ g2 = new.realized
    OBVIOUS
  <2>2. b \in Seq(Int) /\ a = sold \o b /\ n = Len(sold) /\ g2 = g + Gain(sold, fill)
    BY <1>5, <1>8, <1>9, <2>1
  <2>3. Moves(a, g, "SELL", n, fill, b, g2)
    BY <2>2, SaleMoves
  <2> QED BY <2>1, <2>3
<1> QED BY <1>1, <1>2, <1>8, <1>10, <1>11

\* Marking a book to the day's price trades nothing.
LEMMA MarkedKeeps ==
  ASSUME NEW book \in Book, NEW p \in MarketPrices
  PROVE  LET new == Marked(book, p)
         IN  new \in Book /\ new.lots = book.lots /\ new.realized = book.realized
<1>1. p \in Int
  BY RecordedConstants
<1>2. PICK peak \in Int \cup {None} : Marked(book, p) = [book EXCEPT !.peak = peak]
  <2>1. PICK peak : peak = IF book.lots = <<>> THEN None
                           ELSE IF book.peak = None \/ p > book.peak THEN p ELSE book.peak
    OBVIOUS
  <2>2. peak \in Int \cup {None}
    BY <1>1, <2>1 DEF Book
  <2> QED BY <2>1, <2>2 DEF Marked
<1> QED BY <1>2 DEF Book

\* No rule lets a book grow beyond the position cap.
LEMMA CapFacts ==
  ASSUME NEW rule, NEW row \in Tape
  PROVE  BuyCap(rule, row) \in Int /\ BuyCap(rule, row) <= MaxPositionQty
BY RiskConstants DEF BuyCap, Tape

\* A stop leaves nothing or changes nothing.
LEMMA AfterStopFacts ==
  ASSUME NEW rule, NEW book \in Book, NEW p \in MarketPrices, HeldIn(book.lots) <= MaxPositionQty
  PROVE  LET new == AfterStop(rule, book, p)
         IN  /\ new \in Book /\ HeldIn(new.lots) <= MaxPositionQty
             /\ IF StopHit(rule, book, p) THEN new.lots = <<>> ELSE new = book
<1>1. CASE ~StopHit(rule, book, p)
  BY <1>1 DEF AfterStop
<1>2. CASE StopHit(rule, book, p)
  <2>1. book.lots \in Seq(Lot) /\ book.lots # <<>>
    BY <1>2 DEF Book, StopHit
  <2>2. PICK n : n = HeldIn(book.lots) /\ n \in Nat /\ n > 0
    <3>1. HeldIn(book.lots) \in Nat /\ HeldIn(book.lots) # 0
      BY <2>1, SharesInIsSpread, HeldInOfNone
    <3> QED BY <3>1
  <2>3. PICK sold : sold = Sell(book, n, p)
    OBVIOUS
  <2>4. n <= HeldIn(book.lots)
    BY <2>2
  <2>5. sold \in Book /\ HeldIn(sold.lots) = HeldIn(book.lots) - n
    BY <2>2, <2>3, <2>4, SellMoves
  <2>6. sold.lots \in Seq(Lot) /\ HeldIn(sold.lots) = 0
    BY <2>2, <2>5 DEF Book
  <2>7. sold.lots = <<>>
    BY <2>6, HeldInOfNone
  <2>8. AfterStop(rule, book, p) = [sold EXCEPT !.peak = None]
    BY <1>2, <2>2, <2>3 DEF AfterStop
  <2>9. /\ [sold EXCEPT !.peak = None] \in Book
        /\ [sold EXCEPT !.peak = None].lots = sold.lots
    BY <2>5 DEF Book
  <2> QED BY <1>2, <2>6, <2>7, <2>8, <2>9, RiskConstants
<1> QED BY <1>1, <1>2

\* new is old with a lot of n shares more.
LastLot(old, n, fill, new) ==
  \E lot \in Lot : lot.qty = n /\ lot.entry = fill /\ new = Append(old, lot)

\* What the re-gated proposal does to the queue of the book's shares.
LEMMA TradedFacts ==
  ASSUME NEW rule, NEW book \in Book, NEW row \in Tape, HeldIn(book.lots) <= MaxPositionQty
  PROVE  LET new  == Traded(rule, book, row)
             held == HeldIn(book.lots)
             buy  == BuyQty(rule, row, held)
             sell == SellQty(row, held)
             q    == SharesIn(book.lots)
         IN  /\ new \in Book /\ HeldIn(new.lots) <= MaxPositionQty
             /\ Buys(rule, book, row) =>
                  /\ buy \in Nat \ {0}
                  /\ LastLot(book.lots, buy, Fill(row.price, "BUY"), new.lots)
                  /\ Moves(q, book.realized, "BUY", buy, Fill(row.price, "BUY"),
                           SharesIn(new.lots), new.realized)
             /\ Sells(book, row) =>
                  /\ sell \in Nat \ {0}
                  /\ Moves(q, book.realized, "SELL", sell, Fill(row.price, "SELL"),
                           SharesIn(new.lots), new.realized)
             /\ ~Buys(rule, book, row) /\ ~Sells(book, row) => new = book
<1>1. PICK lots, held, buy, sell, p, new :
        /\ lots = book.lots /\ held = HeldIn(book.lots) /\ buy = BuyQty(rule, row, held)
        /\ sell = SellQty(row, held) /\ p = row.price /\ new = Traded(rule, book, row)
  OBVIOUS
<1>2. /\ lots \in Seq(Lot) /\ held \in Nat /\ held <= MaxPositionQty /\ MaxPositionQty \in Nat
      /\ p \in MarketPrices /\ row.qty \in Int /\ row.action \in Trades
      /\ (lots = <<>> <=> held = 0)
  <2>1. lots \in Seq(Lot)
    BY <1>1 DEF Book
  <2>2. held \in Nat /\ (lots = <<>> <=> held = 0)
    BY <1>1, <2>1, SharesInIsSpread, HeldInOfNone
  <2> QED BY <1>1, <2>1, <2>2, RiskConstants DEF Tape
<1>3. CASE Buys(rule, book, row)
  <2>1. buy \in Nat \ {0} /\ held + buy <= MaxPositionQty
    <3>1. PICK cap \in Int : cap = BuyCap(rule, row) /\ cap <= MaxPositionQty
      BY CapFacts
    <3>2. row.qty > 0 /\ buy > 0
      BY <1>1, <1>3 DEF Buys
    <3>3. buy = IF held >= cap THEN 0 ELSE IF row.qty < cap - held THEN row.qty ELSE cap - held
      BY <1>1, <3>1 DEF BuyQty
    <3> QED BY <1>2, <3>1, <3>2, <3>3
  <2>2. PICK fill, lot : fill = Fill(p, "BUY") /\ lot = [qty |-> buy, entry |-> fill]
    OBVIOUS
  <2>3. fill \in Nat \ {0}
    <3>1. p \in Nat \ {0} /\ Unit \in Nat \ {0} /\ SlipBps \in Nat
      BY <1>2, RecordedConstants, ReplayConstants
    <3>2. p * (Unit + SlipBps) \in Nat \ {0}
      BY <3>1
    <3> QED BY <2>2, <3>2 DEF Fill
  <2>4. lot \in Lot /\ lot.qty = buy /\ lot.entry = fill
    BY <2>1, <2>2, <2>3 DEF Lot
  <2>5. ~Sells(book, row)
    BY <1>3 DEF Buys, Sells
  <2>6. new = [book EXCEPT !.lots = Append(@, lot), !.lastBuy = row.day]
    <3>1. Traded(rule, book, row) =
            [book EXCEPT !.lots = Append(@, [qty   |-> BuyQty(rule, row, HeldIn(book.lots)),
                                             entry |-> Fill(row.price, "BUY")]),
                         !.lastBuy = row.day]
      BY <1>3, <2>5 DEF Traded
    <3> QED BY <1>1, <2>2, <3>1
  <2>7. /\ Append(lots, lot) \in Seq(Lot)
        /\ SharesIn(Append(lots, lot)) = SharesIn(lots) \o Copies(buy, fill)
        /\ HeldIn(Append(lots, lot)) = held + buy
    BY <1>1, <1>2, <2>4, LotAppended
  <2>8. new \in Book /\ new.lots = Append(lots, lot) /\ new.realized = book.realized
    BY <1>1, <2>6, <2>7 DEF Book, Tape
  <2>9. Moves(SharesIn(lots), book.realized, "BUY", buy, fill, SharesIn(new.lots), new.realized)
    BY <2>1, <2>7, <2>8 DEF Moves
  <2>10. HeldIn(new.lots) <= MaxPositionQty
    BY <2>1, <2>7, <2>8
  <2>11. LastLot(book.lots, buy, fill, new.lots)
    BY <1>1, <2>4, <2>8 DEF LastLot
  <2> QED BY <1>1, <1>3, <2>1, <2>2, <2>5, <2>8, <2>9, <2>10, <2>11
<1>4. CASE Sells(book, row)
  <2>1. ~Buys(rule, book, row)
    BY <1>4 DEF Buys, Sells
  <2>2. sell \in Nat /\ sell > 0 /\ sell <= held
    <3>1. row.qty > 0 /\ lots # <<>>
      BY <1>1, <1>4 DEF Sells
    <3> QED BY <1>1, <1>2, <3>1 DEF SellQty
  <2>3. new = Sell(book, sell, p)
    BY <1>1, <1>4, <2>1 DEF Traded
  <2>4. sell <= HeldIn(book.lots)
    BY <1>1, <2>2
  <2>5. /\ new \in Book /\ HeldIn(new.lots) = held - sell
        /\ Moves(SharesIn(book.lots), book.realized, "SELL", sell, Fill(p, "SELL"),
                 SharesIn(new.lots), new.realized)
    BY <1>1, <1>2, <2>2, <2>3, <2>4, SellMoves
  <2>6. HeldIn(new.lots) <= MaxPositionQty
    BY <1>2, <2>2, <2>5
  <2> QED BY <1>1, <1>4, <2>1, <2>2, <2>5, <2>6
<1>5. CASE ~Buys(rule, book, row) /\ ~Sells(book, row)
  <2>1. new = book
    BY <1>1, <1>5 DEF Traded
  <2> QED BY <1>1, <1>2, <1>5, <2>1
<1> QED BY <1>3, <1>4, <1>5

\* One day of any replay keeps its book and the cap.
LEMMA ReplayKeeps ==
  ASSUME NEW rule, NEW book \in Book, NEW row \in Tape, HeldIn(book.lots) <= MaxPositionQty
  PROVE  LET new == ReplayDay(rule, book, row)
         IN  new \in Book /\ HeldIn(new.lots) <= MaxPositionQty
<1>1. row.price \in MarketPrices
  BY DEF Tape
<1>2. PICK marked, stopped : /\ marked = Marked(book, row.price)
                             /\ stopped = AfterStop(rule, marked, row.price)
  OBVIOUS
<1>3. marked \in Book /\ HeldIn(marked.lots) <= MaxPositionQty
  BY <1>1, <1>2, MarkedKeeps
<1>4. stopped \in Book /\ HeldIn(stopped.lots) <= MaxPositionQty
  BY <1>1, <1>2, <1>3, AfterStopFacts
<1>5. ReplayDay(rule, book, row) = Traded(rule, stopped, row)
  BY <1>2 DEF ReplayDay
<1>6. PICK new : new = Traded(rule, stopped, row)
  OBVIOUS
<1>7. new \in Book /\ HeldIn(new.lots) <= MaxPositionQty
  BY <1>4, <1>6, TradedFacts
<1> QED BY <1>5, <1>6, <1>7

-----------------------------------------------------------------------------
(* The VaR budget's replay does what the risk node ruled *)

\* The row of the tape tells what was proposed and what the budget allowed.
TapeOf(t, v, row) ==
  /\ row.action = t.action /\ row.qty = t.qty
  /\ row.varMax = IF v = NoVar THEN None ELSE VarMaxQty(v)

\* The budget is replayed, or it did not change the day.
Replays(rule, t, held, v) ==
  \/ rule = VarNode
  \/ rule = Baseline /\ RiskFlags(t, held, v) \cap TriggerFlags = {}

\* Asked for the same proposal, holding and VaR, the replay buys and sells what
\* the risk node ruled.
LEMMA GateIsReplay ==
  ASSUME NEW t \in Proposals, NEW v \in Vars, NEW held \in 0..MaxPositionQty, NEW row, TapeOf(t, v, row),
         NEW rule, Replays(rule, t, held, v)
  PROVE  LET r   == Gate(t, held, v)
             buy == BuyQty(rule, row, held)
         IN  IF t.action = "BUY" /\ t.qty > 0 /\ buy > 0 THEN r.action = "BUY" /\ r.qty = buy
             ELSE IF t.action = "SELL" /\ t.qty > 0 /\ held > 0
                  THEN r.action = "SELL" /\ r.qty = SellQty(row, held)
             ELSE r.qty <= 0 \/ r.action = "HOLD"
<1>1. /\ t.action \in Trades /\ t.qty \in Int /\ v \in Int \cup {NoVar}
      /\ MaxPositionQty \in Nat \ {0}
  BY RecordedConstants, RiskConstants DEF Proposal
<1>2. row.action = t.action /\ row.qty = t.qty /\ row.varMax = IF v = NoVar THEN None ELSE VarMaxQty(v)
  BY DEF TapeOf
<1>3. rule \in {VarNode, Baseline}
  BY DEF Replays
<1>4. rule = VarNode => rule.varBudget = TRUE
  BY DEF VarNode, Rule0
<1>5. rule = Baseline => rule.varBudget = FALSE
  BY DEF Baseline, Rule0
<1>6. PICK cap : cap = BuyCap(rule, row)
  OBVIOUS
<1>7. PICK v1 : v1 = V1Rules(t, held)
  OBVIOUS
<1>8. BuyQty(rule, row, held) = IF held >= cap THEN 0
                                ELSE IF t.qty < cap - held THEN t.qty ELSE cap - held
  BY <1>2, <1>6 DEF BuyQty
<1>9. SellQty(row, held) = IF t.qty < held THEN t.qty ELSE held
  BY <1>2 DEF SellQty
<1>10. Gate(t, held, v) = BudgetRule(v1, held, v)
  BY <1>7 DEF Gate
<1>11. CASE v = NoVar
  <2>1. cap = MaxPositionQty
    BY <1>2, <1>6, <1>11 DEF BuyCap
  <2>2. Gate(t, held, v) = v1
    BY <1>10, <1>11 DEF BudgetRule
  <2> QED BY <1>1, <1>7, <1>8, <1>9, <2>1, <2>2
          DEF V1Rules, BuyRule, SellRule, NoTrade, Rule, Trades
<1>12. CASE v # NoVar
  <2>1. PICK most \in 0..MaxPositionQty : most = VarMaxQty(v)
    BY <1>1, <1>12, VarMaxQtyRange
  <2>2. row.varMax = most /\ most # None
    BY <1>2, <1>12, <2>1, ReplayConstants
  <2>3. BudgetRule(v1, held, v) =
          IF v1.action # "BUY" THEN v1
          ELSE IF most - held <= 0 THEN NoTrade("VETO")
          ELSE IF v1.qty > most - held THEN Rule("SCALE", "BUY", most - held) ELSE v1
    BY <1>12, <2>1 DEF BudgetRule
  <2>4. CASE rule = VarNode
    <3>1. cap = most
      BY <1>1, <1>4, <1>6, <2>1, <2>2, <2>4 DEF BuyCap
    <3> QED BY <1>1, <1>7, <1>8, <1>9, <1>10, <2>1, <2>3, <3>1
            DEF V1Rules, BuyRule, SellRule, NoTrade, Rule, Trades
  <2>5. CASE rule = Baseline /\ rule # VarNode
    <3>1. cap = MaxPositionQty
      BY <1>5, <1>6, <2>5 DEF BuyCap
    <3>2. RiskFlags(t, held, v) \cap TriggerFlags = {}
      BY <2>5 DEF Replays
    <3>3. v1.action = "BUY" => ~(most - held <= 0) /\ ~(v1.qty > most - held)
      BY <1>1, <1>7, <1>12, <2>1, <3>2, V1RulesType DEF RiskFlags, TriggerFlags, Ruling
    <3>4. BudgetRule(v1, held, v) = v1
      BY <2>3, <3>3
    <3> QED BY <1>1, <1>7, <1>8, <1>9, <1>10, <3>1, <3>4
            DEF V1Rules, BuyRule, SellRule, NoTrade, Rule, Trades
  <2> QED BY <1>3, <2>4, <2>5
<1> QED BY <1>11, <1>12

\* Neither of the two replays has a stop or a spacing.
LEMMA NoStops ==
  ASSUME NEW rule \in {VarNode, Baseline}
  PROVE  rule.stop = None /\ rule.trailing = None /\ rule.drawdown = None /\ rule.spacing = None
BY DEF VarNode, Baseline, Rule0

\* A day of such a replay moves the shares of its book by what was ruled.
LEMMA ReplayMoves ==
  ASSUME NEW t \in Proposals, NEW v \in Vars, NEW p \in MarketPrices, NEW book \in Book,
         NEW held, held = HeldIn(book.lots), held <= MaxPositionQty,
         NEW row \in Tape, TapeOf(t, v, row), row.price = p,
         NEW rule, Replays(rule, t, held, v),
         NEW r, r = Gate(t, held, v)
  PROVE  LET new == ReplayDay(rule, book, row)
         IN  Moves(SharesIn(book.lots), book.realized, r.action, r.qty, Fill(p, r.action),
                   SharesIn(new.lots), new.realized)
<1>1. rule.stop = None /\ rule.trailing = None /\ rule.drawdown = None /\ rule.spacing = None
  BY NoStops DEF Replays
<1>2. PICK marked, buy, new : /\ marked = Marked(book, p) /\ buy = BuyQty(rule, row, held)
                              /\ new = ReplayDay(rule, book, row)
  OBVIOUS
<1>3. /\ marked \in Book /\ marked.lots = book.lots /\ marked.realized = book.realized
      /\ HeldIn(marked.lots) = held
  BY <1>2, MarkedKeeps
<1>4. ~StopHit(rule, marked, p)
  BY <1>1 DEF StopHit, DownBy
<1>5. new = Traded(rule, marked, row)
  BY <1>2, <1>4 DEF ReplayDay, AfterStop
<1>6. book.lots \in Seq(Lot)
  BY DEF Book
<1>7. held \in 0..MaxPositionQty /\ (book.lots = <<>> <=> held = 0)
  BY <1>6, SharesInIsSpread, HeldInOfNone, RiskConstants
<1>8. row.action = t.action /\ row.qty = t.qty
  BY DEF TapeOf
<1>9. Buys(rule, marked, row) <=> t.action = "BUY" /\ t.qty > 0 /\ buy > 0
  BY <1>1, <1>2, <1>3, <1>8 DEF Buys, DownBy, BlockedBySpacing
<1>10. Sells(marked, row) <=> t.action = "SELL" /\ t.qty > 0 /\ held > 0
  BY <1>3, <1>7, <1>8 DEF Sells
<1>11. IF t.action = "BUY" /\ t.qty > 0 /\ buy > 0 THEN r.action = "BUY" /\ r.qty = buy
       ELSE IF t.action = "SELL" /\ t.qty > 0 /\ held > 0
            THEN r.action = "SELL" /\ r.qty = SellQty(row, held)
       ELSE r.qty <= 0 \/ r.action = "HOLD"
  BY <1>2, <1>7, GateIsReplay
<1>12. HeldIn(marked.lots) <= MaxPositionQty
  BY <1>3
<1>13. CASE Buys(rule, marked, row)
  <2>1. Moves(SharesIn(marked.lots), marked.realized, "BUY", BuyQty(rule, row, HeldIn(marked.lots)),
              Fill(row.price, "BUY"), SharesIn(new.lots), new.realized)
    BY <1>3, <1>5, <1>12, <1>13, TradedFacts
  <2> QED BY <1>2, <1>3, <1>9, <1>11, <1>13, <2>1
<1>14. CASE Sells(marked, row)
  <2>1. Moves(SharesIn(marked.lots), marked.realized, "SELL", SellQty(row, HeldIn(marked.lots)),
              Fill(row.price, "SELL"), SharesIn(new.lots), new.realized)
    BY <1>3, <1>5, <1>12, <1>14, TradedFacts
  <2>2. r.action = "SELL" /\ r.qty = SellQty(row, held)
    BY <1>10, <1>11, <1>14
  <2> QED BY <1>2, <1>3, <2>1, <2>2
<1>15. CASE ~Buys(rule, marked, row) /\ ~Sells(marked, row)
  <2>1. new = marked
    BY <1>3, <1>5, <1>12, <1>15, TradedFacts
  <2>2. r.qty <= 0 \/ r.action = "HOLD"
    BY <1>9, <1>10, <1>11, <1>15
  <2> QED BY <1>2, <1>3, <2>1, <2>2 DEF Moves
<1> QED BY <1>13, <1>14, <1>15

\* What was ruled determines where the queue and the gains go.
LEMMA MovesAgree ==
  ASSUME NEW q, NEW g, NEW action, NEW n, NEW fill, NEW q2, NEW g2, NEW q3, NEW g3,
         Moves(q, g, action, n, fill, q2, g2), Moves(q, g, action, n, fill, q3, g3)
  PROVE  q2 = q3 /\ g2 = g3
<1>1. CASE n <= 0 \/ action = "HOLD"
  BY <1>1 DEF Moves
<1>2. CASE ~(n <= 0 \/ action = "HOLD") /\ action = "BUY"
  BY <1>2 DEF Moves
<1>3. CASE ~(n <= 0 \/ action = "HOLD") /\ action # "BUY"
  <2>1. q2 = SubSeq(q, n + 1, Len(q)) /\ g2 = g + Gain(SubSeq(q, 1, n), fill)
    BY <1>3 DEF Moves
  <2>2. q3 = SubSeq(q, n + 1, Len(q)) /\ g3 = g + Gain(SubSeq(q, 1, n), fill)
    BY <1>3 DEF Moves
  <2> QED BY <2>1, <2>2
<1> QED BY <1>1, <1>2, <1>3

\* The position is the length of the queue.
LEMMA HeldIsQueue ==
  ASSUME NEW rs \in Seq(Row)
  PROVE  SharesHeld(rs) = Len(OpenShares(rs))
<1>0. PICK m \in Nat : m = Len(rs)
  OBVIOUS
<1>1. PICK q : /\ m = Len(rs) /\ q = OpenCounts(rs) /\ DOMAIN rs = 1..m
               /\ Counts(q, m) /\ Values(Entries(rs), m)
               /\ \A i \in 1..m : q[i] = Open(rs[i]) /\ rs[i] \in Row
  BY <1>0, RowsFinite, OpenIsSpread
<1>2. Len(OpenShares(rs)) = SumFunctionOnSet(q, 1..m)
  BY <1>1, OpenIsSpread, SpreadFacts
<1> DEFINE f == [i \in DOMAIN rs |-> rs[i].shares]
           Sum(k) == SumFunctionOnSet(f, {i \in 1..k : rs[i].status = "OPEN"})
           B == {k \in 0..m : Sum(k) # Upto(q, k)}
<1>3. \A i \in 1..m : q[i] \in Int /\ f[i] = rs[i].shares /\ f[i] \in Int
                      /\ q[i] = IF rs[i].status = "OPEN" THEN f[i] ELSE 0
  BY <1>1 DEF Row, Open, Counts
<1> HIDE DEF f
<1>4. B = {}
  <2>1. SUFFICES ASSUME B # {} PROVE FALSE
    OBVIOUS
  <2>2. PICK k \in B : \A j \in B : k <= j
    <3>1. B \subseteq Nat
      OBVIOUS
    <3> HIDE DEF B
    <3> QED BY <2>1, <3>1, LeastOf
  <2>3. k \in 0..m /\ Sum(k) # Upto(q, k)
    BY <2>2
  <2>4. k # 0
    <3>1. {i \in 1..0 : rs[i].status = "OPEN"} = {}
      OBVIOUS
    <3>2. Upto(q, 0) = 0
      BY <1>3, UptoStep
    <3> QED BY <2>3, <3>1, <3>2, SumOfNone
  <2>5. PICK j \in 0..m : j = k - 1 /\ k \in 1..m
    BY <2>3, <2>4
  <2>6. Sum(j) = Upto(q, j)
    BY <2>2, <2>5
  <2>7. Upto(q, k) = Upto(q, j) + q[k] /\ Upto(q, j) \in Int
    BY <1>3, <2>5, UptoStep
  <2>8. PICK S, U : S = {i \in 1..j : rs[i].status = "OPEN"} /\ U = {i \in 1..k : rs[i].status = "OPEN"}
    OBVIOUS
  <2>9. /\ IsFiniteSet(S) /\ k \notin S /\ (\A i \in S : f[i] \in Int)
        /\ U = IF rs[k].status = "OPEN" THEN S \cup {k} ELSE S
    <3>1. IsFiniteSet(1..j) /\ S \subseteq 1..j
      BY <2>5, <2>8, FS_Interval
    <3>2. IsFiniteSet(S)
      BY <3>1, FS_Subset
    <3>3. k \notin S /\ \A i \in S : f[i] \in Int
      BY <1>3, <2>5, <2>8
    <3>4. U = IF rs[k].status = "OPEN" THEN S \cup {k} ELSE S
      BY <2>5, <2>8
    <3> QED BY <3>2, <3>3, <3>4
  <2>10. Sum(j) = SumFunctionOnSet(f, S) /\ Sum(k) = SumFunctionOnSet(f, U)
    BY <2>8
  <2>11. CASE rs[k].status = "OPEN"
    <3>1. q[k] = f[k] /\ f[k] \in Int
      BY <1>3, <2>5, <2>11
    <3>2. SumFunctionOnSet(f, S \cup {k}) = f[k] + SumFunctionOnSet(f, S)
      BY <2>9, <3>1, SumWith
    <3> QED BY <2>3, <2>6, <2>7, <2>9, <2>10, <2>11, <3>1, <3>2
  <2>12. CASE rs[k].status # "OPEN"
    <3>1. q[k] = 0
      BY <1>3, <2>5, <2>12
    <3> QED BY <2>3, <2>6, <2>7, <2>9, <2>10, <2>12, <3>1
  <2> QED BY <2>11, <2>12
<1>5. Sum(m) = Upto(q, m)
  BY <1>4
<1>6. SharesHeld(rs) = Sum(m)
  BY <1>1 DEF SharesHeld, SharesOf, OpenIds, f
<1> QED BY <1>2, <1>5, <1>6 DEF Upto

-----------------------------------------------------------------------------
(* Every book, and the replays that reproduce the run *)

\* Every book is one, within the cap.
BooksInv ==
  /\ books \in [Rules -> Book]
  /\ \A r \in Rules : HeldIn(books[r].lots) <= MaxPositionQty

\* The replay of this rule holds and has realized what the recorded run has.
Reproduces(rule) ==
  /\ SharesIn(books[rule].lots) = OpenShares(outcomes)
  /\ books[rule].realized = RealizedPnl(outcomes)

\* The budget changed no decision.
Untriggered == \A i \in DOMAIN decisions : ~IsTriggered(decisions[i])

\* The run, its books, and what they reproduce.
XInv == QInv /\ BooksInv /\ ReplayReproduces

\* ReplayReproduces, rule by rule.
LEMMA ReproducesBoth ==
  ReplayReproduces <=> Reproduces(VarNode) /\ (Untriggered => Reproduces(Baseline))
BY DEF ReplayReproduces, Reproduces, Untriggered

\* A replay begins with nothing.
LEMMA EmptyBookFacts ==
  EmptyBook \in Book /\ HeldIn(EmptyBook.lots) = 0 /\ SharesIn(EmptyBook.lots) = <<>>
  /\ EmptyBook.realized = 0 /\ EmptyBook.lots = <<>>
<1>1. <<>> \in Seq(Lot) /\ Len(<<>>) = 0
  OBVIOUS
<1>2. HeldIn(<<>>) = 0
  BY <1>1, HeldInOfNone
<1>3. SharesIn(<<>>) = <<>>
  BY <1>1, SharesInIsSpread, SpreadNone
<1> QED BY <1>1, <1>2, <1>3 DEF EmptyBook, Book

\* A day's row of the tape is one, and tells what it should.
LEMMA TapeRowFacts ==
  ASSUME NEW t \in Proposals, NEW v \in Vars, NEW p \in MarketPrices, NEW day \in Nat,
         NEW row, row = TapeRow(day, t, p, IF v = NoVar THEN None ELSE VarMaxQty(v))
  PROVE  row \in Tape /\ TapeOf(t, v, row) /\ row.price = p
<1>1. PICK vm : vm = IF v = NoVar THEN None ELSE VarMaxQty(v)
  OBVIOUS
<1>2. vm \in Int \cup {None}
  BY <1>1, VarMaxQtyRange, RecordedConstants
<1>3. row = [day |-> day, action |-> t.action, qty |-> t.qty, price |-> p, varMax |-> vm]
  BY <1>1 DEF TapeRow
<1>4. t.action \in Trades /\ t.qty \in Int
  BY RecordedConstants DEF Proposal
<1> QED BY <1>1, <1>2, <1>3, <1>4 DEF Tape, TapeOf

\* The row and the ruling of one day, as premises.
DayOnTape(row, t, v, p) == row \in Tape /\ TapeOf(t, v, row) /\ row.price = p
Ruled(r, t, held, v) == r = Gate(t, held, v)

\* A replay that did what was ruled so far still does after one more day.
LEMMA ReproducesDay ==
  ASSUME QInv, BooksInv, NEW rule \in Rules, Reproduces(rule),
         NEW t \in Proposals, NEW v \in Vars, NEW p \in MarketPrices,
         Replays(rule, t, SharesHeld(outcomes), v),
         NEW row, DayOnTape(row, t, v, p),
         NEW r, Ruled(r, t, SharesHeld(outcomes), v),
         NEW q2, NEW g2,
         Moves(OpenShares(outcomes), RealizedPnl(outcomes), r.action, r.qty, Fill(p, r.action), q2, g2)
  PROVE  LET new == ReplayDay(rule, books[rule], row)
         IN  SharesIn(new.lots) = q2 /\ new.realized = g2
<1>1. PICK book, held, new : /\ book = books[rule] /\ held = HeldIn(book.lots)
                             /\ new = ReplayDay(rule, books[rule], row)
  OBVIOUS
<1>2. book \in Book /\ held <= MaxPositionQty /\ book.lots \in Seq(Lot)
  BY <1>1 DEF BooksInv, Book
<1>3. SharesIn(book.lots) = OpenShares(outcomes) /\ book.realized = RealizedPnl(outcomes)
  BY <1>1 DEF Reproduces
<1>4. held = SharesHeld(outcomes)
  <2>1. held = Len(SharesIn(book.lots))
    BY <1>1, <1>2, SharesInIsSpread
  <2>2. SharesHeld(outcomes) = Len(OpenShares(outcomes))
    BY HeldIsQueue DEF QInv, RInv
  <2> QED BY <1>3, <2>1, <2>2
<1>5. Replays(rule, t, held, v) /\ r = Gate(t, held, v)
  BY <1>4 DEF Ruled
<1>6. Moves(SharesIn(book.lots), book.realized, r.action, r.qty, Fill(p, r.action),
            SharesIn(new.lots), new.realized)
  BY <1>1, <1>2, <1>5, ReplayMoves DEF DayOnTape
<1>7. Moves(SharesIn(book.lots), book.realized, r.action, r.qty, Fill(p, r.action), q2, g2)
  BY <1>3
<1> QED BY <1>1, <1>6, <1>7, MovesAgree

\* The invariant at the start of a run, and across one of its days.
LEMMA BooksInit ==
  ASSUME Init
  PROVE  BooksInv /\ ReplayReproduces
<1>1. /\ books = [r \in Rules |-> EmptyBook] /\ outcomes = <<>>
      /\ VarNode \in Rules /\ Baseline \in Rules
  BY RecordedConstants DEF Init
<1>2. BooksInv
  BY <1>1, EmptyBookFacts, RiskConstants DEF BooksInv
<1>3. Reproduces(VarNode) /\ Reproduces(Baseline)
  BY <1>1, EmptyBookFacts, NothingOpen DEF Reproduces
<1> QED BY <1>2, <1>3, ReproducesBoth

LEMMA BooksStep ==
  ASSUME XInv, SimulateDay
  PROVE  BooksInv' /\ ReplayReproduces'
<1>1. PICK t \in Proposals, v \in Vars, p \in MarketPrices \cup {None}, r \in Ruling :
           /\ r = Gate(t, SharesHeld(outcomes), v)
           /\ decisions' = Append(decisions, DecisionRow(t, SharesHeld(outcomes), v, p))
           /\ IF p = None
              THEN outcomes' = outcomes /\ UNCHANGED <<price, books>>
              ELSE /\ Moves(OpenShares(outcomes), RealizedPnl(outcomes), r.action, r.qty,
                            Fill(p, r.action), OpenShares(outcomes'), RealizedPnl(outcomes'))
                   /\ books' = [rule \in Rules |->
                         ReplayDay(rule, books[rule],
                                   TapeRow(TradingDays[Len(decisions) + 1], t, p,
                                           IF v = NoVar THEN None ELSE VarMaxQty(v)))]
  BY DayTraded DEF XInv
<1>2. /\ QInv /\ BooksInv /\ Reproduces(VarNode) /\ (Untriggered => Reproduces(Baseline))
      /\ VarNode \in Rules /\ Baseline \in Rules
  BY ReproducesBoth, RecordedConstants DEF XInv
<1>3. PICK d : d = DecisionRow(t, SharesHeld(outcomes), v, p)
  OBVIOUS
<1>4. d.flags = RiskFlags(t, SharesHeld(outcomes), v)
  BY <1>3 DEF DecisionRow
<1>5. Untriggered' => Untriggered /\ ~IsTriggered(d)
  <2>1. PICK n \in Nat : n = Len(decisions) /\ decisions \in Seq(Recorded)
    BY <1>2 DEF QInv, RInv
  <2>2. PICK last : last = n + 1
    OBVIOUS
  <2>3. /\ DOMAIN decisions = 1..n /\ DOMAIN decisions' = 1..last /\ decisions'[last] = d
        /\ \A i \in 1..n : decisions'[i] = decisions[i] /\ i \in 1..last
        /\ last \in 1..last
    BY <1>1, <1>3, <2>1, <2>2
  <2>4. Untriggered' <=> \A i \in DOMAIN decisions' : ~IsTriggered(decisions'[i])
    BY DEF Untriggered, IsTriggered
  <2> QED BY <2>3, <2>4 DEF Untriggered
<1>6. CASE p = None
  <2>1. books' = books /\ outcomes' = outcomes
    BY <1>1, <1>6
  <2>2. BooksInv'
    BY <1>2, <2>1 DEF BooksInv
  <2>3. Reproduces(VarNode)' /\ (Untriggered' => Reproduces(Baseline)')
    BY <1>2, <1>5, <2>1 DEF Reproduces
  <2> QED BY <2>2, <2>3 DEF ReplayReproduces, Reproduces, Untriggered
<1>7. CASE p # None
  <2>1. p \in MarketPrices
    BY <1>7
  <2>2. TradingDays[Len(decisions) + 1] \in Nat
    <3>1. PICK n, m : n = Len(decisions) /\ m = Len(TradingDays)
      OBVIOUS
    <3>2. n \in Nat /\ m \in Nat /\ DOMAIN TradingDays = 1..m /\ n < m /\ TradingDays \in Seq(Nat)
      BY <1>2, <3>1, RecordedConstants DEF QInv, RInv, SimulateDay
    <3>3. n + 1 \in 1..m
      BY <3>2
    <3> QED BY <3>1, <3>2, <3>3
  <2>3. PICK row : row = TapeRow(TradingDays[Len(decisions) + 1], t, p,
                                 IF v = NoVar THEN None ELSE VarMaxQty(v))
    OBVIOUS
  <2>4. row \in Tape /\ TapeOf(t, v, row) /\ row.price = p
    BY <2>1, <2>2, <2>3, TapeRowFacts
  <2>5. books' = [rule \in Rules |-> ReplayDay(rule, books[rule], row)]
    BY <1>1, <1>7, <2>3
  <2>6. BooksInv'
    <3>1. \A rule \in Rules : books[rule] \in Book /\ HeldIn(books[rule].lots) <= MaxPositionQty
      BY <1>2 DEF BooksInv
    <3>2. ASSUME NEW rule \in Rules
          PROVE  books'[rule] \in Book /\ HeldIn(books'[rule].lots) <= MaxPositionQty
      BY <2>4, <2>5, <3>1, ReplayKeeps
    <3> QED BY <2>5, <3>2 DEF BooksInv
  <2>7. Moves(OpenShares(outcomes), RealizedPnl(outcomes), r.action, r.qty,
              Fill(p, r.action), OpenShares(outcomes'), RealizedPnl(outcomes'))
    BY <1>1, <1>7
  <2>8. ASSUME NEW rule \in Rules, Reproduces(rule), Replays(rule, t, SharesHeld(outcomes), v)
        PROVE  /\ SharesIn(books'[rule].lots) = OpenShares(outcomes')
               /\ books'[rule].realized = RealizedPnl(outcomes')
    <3>1. books'[rule] = ReplayDay(rule, books[rule], row)
      BY <2>5
    <3>2. PICK q2, g2 : q2 = OpenShares(outcomes') /\ g2 = RealizedPnl(outcomes')
      OBVIOUS
    <3>3. Moves(OpenShares(outcomes), RealizedPnl(outcomes), r.action, r.qty, Fill(p, r.action), q2, g2)
      BY <2>7, <3>2
    <3>4. /\ SharesIn(ReplayDay(rule, books[rule], row).lots) = q2
          /\ ReplayDay(rule, books[rule], row).realized = g2
      <4>1. Ruled(r, t, SharesHeld(outcomes), v)
        BY <1>1 DEF Ruled
      <4>2. DayOnTape(row, t, v, p)
        BY <2>4 DEF DayOnTape
      <4>3. Reproduces(rule) /\ Replays(rule, t, SharesHeld(outcomes), v) /\ QInv /\ BooksInv
        BY <1>2, <2>8
      <4> QED BY <2>1, <3>3, <4>1, <4>2, <4>3, ReproducesDay
    <3> QED BY <3>1, <3>2, <3>4
  <2>9. /\ SharesIn(books'[VarNode].lots) = OpenShares(outcomes')
        /\ books'[VarNode].realized = RealizedPnl(outcomes')
    BY <1>2, <2>8 DEF Replays
  <2>10. Untriggered' => /\ SharesIn(books'[Baseline].lots) = OpenShares(outcomes')
                         /\ books'[Baseline].realized = RealizedPnl(outcomes')
    <3>1. ~IsTriggered(d) => Replays(Baseline, t, SharesHeld(outcomes), v)
      BY <1>4 DEF IsTriggered, Replays
    <3> QED BY <1>2, <1>5, <2>8, <3>1
  <2> QED BY <2>6, <2>9, <2>10 DEF ReplayReproduces, Untriggered
<1> QED BY <1>6, <1>7

\* In every state of a recorded run each replay's book is within the cap, and the
\* two that must reproduce the run do.
THEOREM BooksInvariant == Spec => []XInv
<1>1. ExplainInit => XInv
  BY RInit, NothingOpen, BooksInit DEF ExplainInit, Init, QInv, XInv
<1>2. XInv /\ [Next]_vars => XInv'
  <2>1. XInv /\ SimulateDay => XInv'
    BY RStep, DayTraded, BooksStep DEF XInv, QInv
  <2>2. XInv /\ UNCHANGED runVars => XInv'
    BY DEF XInv, QInv, RInv, BooksInv, ReplayReproduces, runVars, EveryShareAccounted
  <2> QED BY <2>1, <2>2 DEF Next, vars
<1> QED BY <1>1, <1>2, PTL DEF Spec

\* The replay that every other rule is compared with is exact: under the VaR budget
\* it holds share for share, and has realized to the cent, what the recorded run
\* has, and so has the one without a rule as long as the budget changed nothing.
THEOREM ReplayIsTrusted == Spec => []ReplayReproduces
<1>1. XInv => ReplayReproduces
  BY DEF XInv
<1> QED BY <1>1, BooksInvariant, PTL

-----------------------------------------------------------------------------
(* Stops *)

\* A day's slippage alone never reaches a stop: what a share was bought for is
\* less than the stop's percentage above that day's price.
StopsWiderThanSlippage ==
  \A r \in Rules : r.stop = None \/ (r.stop \in Nat /\ 100 * SlipBps < r.stop * (Unit + SlipBps))

\* Multiplication by a count keeps an order.
LEMMA TimesPositive ==
  ASSUME NEW x \in Nat \ {0}, NEW a \in Int, NEW b \in Int, a < b
  PROVE  x * a < x * b
OBVIOUS

\* Shares bought at today's price, with its slippage, take a position that is not
\* down by pct no further than that.
LEMMA BuyKeepsAbove ==
  ASSUME NEW pct \in Nat, 100 * SlipBps < pct * (Unit + SlipBps),
         NEW p \in Nat \ {0}, NEW n \in Nat \ {0}, NEW cost \in Nat, NEW held \in Nat,
         100 * (cost - held * p * Unit) <= pct * cost
  PROVE  100 * ((cost + n * (p * (Unit + SlipBps))) - (held + n) * p * Unit)
           < pct * (cost + n * (p * (Unit + SlipBps)))
<1>1. PICK u \in Nat, s \in Nat : u = Unit /\ s = SlipBps
  BY ReplayConstants
<1>2. PICK x \in Nat \ {0} : x = n * p
  <2>1. n * p \in Nat \ {0}
    OBVIOUS
  <2> QED BY <2>1
<1>3. PICK y \in Int, xu \in Int, xs \in Int : y = held * p * u /\ xu = x * u /\ xs = x * s
  <2>1. held * p * u \in Int /\ x * u \in Int /\ x * s \in Int
    OBVIOUS
  <2> QED BY <2>1
<1>4. n * (p * (u + s)) = xu + xs
  <2>1. n * (p * (u + s)) = (n * p) * (u + s)
    OBVIOUS
  <2>2. x * (u + s) = x * u + x * s
    OBVIOUS
  <2> QED BY <1>2, <1>3, <2>1, <2>2
<1>5. (held + n) * p * u = y + xu
  <2>1. (held + n) * p = held * p + n * p
    OBVIOUS
  <2>2. PICK h \in Int : h = held * p
    <3>1. held * p \in Int
      OBVIOUS
    <3> QED BY <3>1
  <2>3. (h + x) * u = h * u + x * u
    OBVIOUS
  <2> QED BY <1>2, <1>3, <2>1, <2>2, <2>3
<1>6. PICK pcost \in Int, pextra \in Int : pcost = pct * cost /\ pextra = pct * (xu + xs)
  <2>1. pct * cost \in Int /\ pct * (xu + xs) \in Int
    OBVIOUS
  <2> QED BY <2>1
<1>7. pct * (cost + (xu + xs)) = pcost + pextra
  BY <1>6
<1>8. 100 * xs < pextra
  <2>1. PICK a \in Int, b \in Int : a = 100 * s /\ b = pct * (u + s)
    <3>1. 100 * s \in Int /\ pct * (u + s) \in Int
      OBVIOUS
    <3> QED BY <3>1
  <2>2. x * a < x * b
    <3>1. a < b
      BY <1>1, <2>1
    <3> QED BY <3>1, TimesPositive
  <2>3. x * a = 100 * xs
    <3>1. x * (100 * s) = 100 * (x * s)
      OBVIOUS
    <3> QED BY <1>3, <2>1, <3>1
  <2>4. x * b = pextra
    <3>1. x * (pct * (u + s)) = pct * (x * (u + s))
      OBVIOUS
    <3>2. x * (u + s) = xu + xs
      BY <1>3
    <3> QED BY <1>6, <2>1, <3>1, <3>2
  <2> QED BY <2>2, <2>3, <2>4
<1>9. 100 * (cost - y) <= pcost
  BY <1>1, <1>3, <1>6
<1>10. 100 * ((cost + (xu + xs)) - (y + xu)) < pcost + pextra
  BY <1>8, <1>9
<1> QED BY <1>1, <1>4, <1>5, <1>7, <1>10

\* What a book has paid is an amount, and nothing for no lots.
LEMMA CostType ==
  ASSUME NEW lots \in Seq(Lot)
  PROVE  Cost(lots) \in Nat /\ (lots = <<>> => Cost(lots) = 0)
<1>0. PICK m \in Nat : m = Len(lots)
  OBVIOUS
<1>1. PICK w : m = Len(lots) /\ w = Costs(lots) /\ \A i \in 1..m : w[i] \in Nat
  BY <1>0, LotFacts
<1>2. Cost(lots) = Upto(w, m)
  BY <1>1, CostIsSum
<1>3. Counts(w, m) /\ m \in 0..m
  BY <1>1 DEF Counts
<1>4. Upto(w, m) \in Nat
  BY <1>3, UptoGrows
<1>5. lots = <<>> => m = 0
  BY <1>1
<1>6. \A i \in 1..m : w[i] \in Int
  BY <1>1
<1>7. Upto(w, 0) = 0
  BY <1>6, UptoStep
<1> QED BY <1>2, <1>4, <1>5, <1>7

\* After a day without a SELL no position is down by the stop's percentage.
LEMMA StopDay ==
  ASSUME NEW rule, rule.stop \in Nat, 100 * SlipBps < rule.stop * (Unit + SlipBps),
         None \notin Int,
         NEW book \in Book, HeldIn(book.lots) <= MaxPositionQty,
         NEW row \in Tape, row.action # "SELL",
         NEW new, new = ReplayDay(rule, book, row)
  PROVE  ~DownBy(new.lots, row.price, rule.stop)
<1>1. PICK p, pct : p = row.price /\ pct = rule.stop
  OBVIOUS
<1>2. p \in MarketPrices /\ p \in Nat \ {0} /\ pct \in Nat /\ pct # None
  BY <1>1, RecordedConstants DEF Tape
<1>3. PICK marked, stopped : marked = Marked(book, p) /\ stopped = AfterStop(rule, marked, p)
  OBVIOUS
<1>4. marked \in Book /\ HeldIn(marked.lots) <= MaxPositionQty
  BY <1>2, <1>3, MarkedKeeps
<1>5. /\ stopped \in Book /\ HeldIn(stopped.lots) <= MaxPositionQty
      /\ IF StopHit(rule, marked, p) THEN stopped.lots = <<>> ELSE stopped = marked
  BY <1>2, <1>3, <1>4, AfterStopFacts
<1>6. PICK lots, cost, held : /\ lots = stopped.lots /\ cost = Cost(lots) /\ held = HeldIn(lots)
  OBVIOUS
<1>7. lots \in Seq(Lot) /\ cost \in Nat /\ held \in Nat
  <2>1. lots \in Seq(Lot)
    BY <1>5, <1>6 DEF Book
  <2> QED BY <1>6, <2>1, CostType, SharesInIsSpread
<1>8. lots # <<>> => ~DownBy(lots, p, pct)
  BY <1>1, <1>5, <1>6 DEF StopHit
<1>9. PICK worth \in Int, part \in Int : worth = held * p * Unit /\ part = pct * cost
  <2>1. Unit \in Int
    BY ReplayConstants
  <2>2. held * p * Unit \in Int /\ pct * cost \in Int
    BY <1>2, <1>7, <2>1
  <2> QED BY <2>2
<1>10. DownBy(lots, p, pct) <=> cost > 0 /\ 100 * (cost - worth) >= part
  BY <1>2, <1>6, <1>9 DEF DownBy
<1>11. 100 * (cost - worth) <= part
  <2>1. CASE cost = 0
    <3>1. worth \in Nat
      <4>1. Unit \in Nat
        BY ReplayConstants
      <4>2. held * p * Unit \in Nat
        BY <1>2, <1>7, <4>1
      <4> QED BY <1>9, <4>2
    <3>2. part = 0
      BY <1>2, <1>9, <2>1
    <3> QED BY <2>1, <3>1, <3>2
  <2>2. CASE cost # 0
    <3>1. lots # <<>>
      BY <1>6, <1>7, <2>2, CostType
    <3> QED BY <1>7, <1>8, <1>10, <2>2, <3>1
  <2> QED BY <2>1, <2>2
<1>12. new = Traded(rule, stopped, row)
  BY <1>1, <1>3 DEF ReplayDay
<1>13. ~Sells(stopped, row)
  BY DEF Sells
<1>14. CASE ~Buys(rule, stopped, row)
  <2>1. new = stopped
    BY <1>5, <1>12, <1>13, <1>14, TradedFacts
  <2>2. ~DownBy(lots, p, pct)
    <3>1. lots = <<>> => cost = 0
      BY <1>6, <1>7, CostType
    <3> QED BY <1>8, <1>10, <3>1
  <2> QED BY <1>1, <1>6, <2>1, <2>2
<1>15. CASE Buys(rule, stopped, row)
  <2>1. PICK n : n = BuyQty(rule, row, HeldIn(stopped.lots))
    OBVIOUS
  <2>2. PICK fill : fill = Fill(p, "BUY")
    OBVIOUS
  <2>3. PICK lot \in Lot : /\ lot.qty = n /\ lot.entry = fill /\ n \in Nat \ {0}
                           /\ new.lots = Append(stopped.lots, lot)
    <3>1. stopped \in Book /\ HeldIn(stopped.lots) <= MaxPositionQty
      BY <1>5
    <3>2. /\ BuyQty(rule, row, HeldIn(stopped.lots)) \in Nat \ {0}
          /\ LastLot(stopped.lots, BuyQty(rule, row, HeldIn(stopped.lots)), Fill(row.price, "BUY"),
                     Traded(rule, stopped, row).lots)
      BY <1>15, <3>1, TradedFacts
    <3> QED BY <1>1, <1>12, <2>1, <2>2, <3>2 DEF LastLot
  <2>4. fill = p * (Unit + SlipBps) /\ fill \in Nat \ {0}
    <3>1. Unit \in Nat \ {0} /\ SlipBps \in Nat
      BY ReplayConstants
    <3>2. p * (Unit + SlipBps) \in Nat \ {0}
      BY <1>2, <3>1
    <3> QED BY <2>2, <3>2 DEF Fill
  <2>6. Cost(new.lots) = cost + n * fill /\ HeldIn(new.lots) = held + n
    BY <1>6, <1>7, <2>3, LotAppended
  <2>7. 100 * (cost - held * p * Unit) <= pct * cost
    BY <1>9, <1>11
  <2>8. 100 * SlipBps < pct * (Unit + SlipBps)
    BY <1>1
  <2>9. 100 * ((cost + n * (p * (Unit + SlipBps))) - (held + n) * p * Unit)
          < pct * (cost + n * (p * (Unit + SlipBps)))
    BY <1>2, <1>7, <2>3, <2>7, <2>8, BuyKeepsAbove
  <2>10. PICK a, b : /\ a = 100 * (Cost(new.lots) - HeldIn(new.lots) * p * Unit)
                     /\ b = pct * Cost(new.lots)
    OBVIOUS
  <2>11. a < b
    BY <2>4, <2>6, <2>9, <2>10
  <2>12. a \in Int /\ b \in Int
    <3>1. Unit \in Int /\ n * fill \in Int /\ n \in Int
      BY <2>3, <2>4, ReplayConstants
    <3>2. PICK c \in Int, h \in Int : c = Cost(new.lots) /\ h = HeldIn(new.lots)
      BY <1>7, <2>6, <3>1
    <3>3. 100 * (c - h * p * Unit) \in Int /\ pct * c \in Int
      BY <1>2, <3>1
    <3> QED BY <2>10, <3>2, <3>3
  <2>13. ~DownBy(new.lots, p, pct)
    BY <2>10, <2>11, <2>12 DEF DownBy
  <2> QED BY <1>1, <2>13
<1> QED BY <1>14, <1>15

\* The last row of the tape, and whether it proposed a SELL.
Taped == {i \in DOMAIN decisions : OnTape(decisions[i].price)}
SoldLast == Taped # {} /\ decisions[Max(Taped)].pm.action = "SELL"

\* After a day on the tape that proposed no SELL, this rule's position is not down
\* by its stop.
StopKept(r) == books[r].lots # <<>> /\ ~SoldLast => ~DownBy(books[r].lots, price, r.stop)

\* The run with its books, and every stop kept.
StopInv == XInv /\ \A r \in Rules : StopKept(r)

\* The invariant at the start of a run, and across one of its days.
LEMMA StopsInit ==
  ASSUME Init
  PROVE  \A r \in Rules : StopKept(r)
<1>1. \A r \in Rules : books[r].lots = <<>>
  BY EmptyBookFacts DEF Init
<1> QED BY <1>1 DEF StopKept

LEMMA StopsStep ==
  ASSUME StopsWiderThanSlippage, StopInv, SimulateDay
  PROVE  \A r \in Rules : StopKept(r)'
<1>1. PICK t \in Proposals, v \in Vars, p \in MarketPrices \cup {None} :
           /\ decisions' = Append(decisions, DecisionRow(t, SharesHeld(outcomes), v, p))
           /\ IF p = None
              THEN UNCHANGED <<price, books>>
              ELSE /\ price' = p
                   /\ books' = [rule \in Rules |->
                         ReplayDay(rule, books[rule],
                                   TapeRow(TradingDays[Len(decisions) + 1], t, p,
                                           IF v = NoVar THEN None ELSE VarMaxQty(v)))]
  BY DayTraded DEF StopInv, XInv
<1>2. PICK d : d = DecisionRow(t, SharesHeld(outcomes), v, p)
  OBVIOUS
<1>3. d.price = p /\ d.pm = t
  BY <1>2 DEF DecisionRow
<1>4. PICK n \in Nat : n = Len(decisions) /\ DOMAIN decisions = 1..n /\ decisions \in Seq(Recorded)
  BY DEF StopInv, XInv, QInv, RInv
<1>5. PICK last : last = n + 1
  OBVIOUS
<1>6. /\ DOMAIN decisions' = 1..last /\ decisions'[last] = d /\ last \in 1..last
      /\ \A i \in 1..n : decisions'[i] = decisions[i] /\ i \in 1..last /\ i < last
      /\ \A i \in 1..last : i = last \/ i \in 1..n
      /\ last \in Nat /\ last \notin 1..n
  BY <1>1, <1>2, <1>4, <1>5
<1>7. CASE p = None
  <2>1. Taped' = Taped
    <3>1. ~OnTape(d.price)
      BY <1>3, <1>7 DEF OnTape
    <3> QED BY <1>4, <1>6, <3>1 DEF Taped, OnTape
  <2>2. SoldLast' <=> SoldLast
    <3>1. Taped # {} => Max(Taped) \in 1..n
      <4>1. Taped \in SUBSET (1..n)
        BY <1>4 DEF Taped
      <4> QED BY <4>1, MaxIsIn
    <3>2. Taped # {} => decisions'[Max(Taped)] = decisions[Max(Taped)]
      BY <1>6, <3>1
    <3> QED BY <2>1, <3>2 DEF SoldLast
  <2>3. books' = books /\ price' = price
    BY <1>1, <1>7
  <2> QED BY <2>2, <2>3 DEF StopInv, StopKept
<1>8. CASE p # None
  <2>1. p \in MarketPrices
    BY <1>8
  <2>2. SoldLast' <=> t.action = "SELL"
    <3>1. PICK T : T = Taped'
      OBVIOUS
    <3>2. T \in SUBSET (1..last) /\ last \in T
      BY <1>3, <1>6, <1>8, <3>1 DEF Taped, OnTape
    <3>3. Max(T) \in T /\ \A y \in T : y <= Max(T)
      BY <1>6, <3>2, MaxIsIn
    <3>4. Max(T) = last
      <4>1. Max(T) \in 1..last /\ last <= Max(T)
        BY <3>2, <3>3
      <4> QED BY <1>6, <4>1
    <3> QED BY <1>3, <1>6, <3>1, <3>2, <3>4 DEF SoldLast
  <2>3. PICK row : row = TapeRow(TradingDays[Len(decisions) + 1], t, p,
                                 IF v = NoVar THEN None ELSE VarMaxQty(v))
    OBVIOUS
  <2>4. row \in Tape /\ TapeOf(t, v, row) /\ row.price = p
    <3>1. TradingDays[Len(decisions) + 1] \in Nat
      <4>1. PICK m \in Nat : m = Len(TradingDays) /\ DOMAIN TradingDays = 1..m /\ TradingDays \in Seq(Nat)
        BY RecordedConstants
      <4>2. n + 1 \in 1..m
        BY <1>4, <4>1 DEF SimulateDay
      <4> QED BY <1>4, <4>1, <4>2
    <3> QED BY <2>1, <2>3, <3>1, TapeRowFacts
  <2>5. price' = p /\ books' = [rule \in Rules |-> ReplayDay(rule, books[rule], row)]
    BY <1>1, <1>8, <2>3
  <2>6. ASSUME NEW r \in Rules, t.action # "SELL"
        PROVE  ~DownBy(books'[r].lots, price', r.stop)
    <3>1. CASE r.stop = None
      BY <3>1 DEF DownBy
    <3>2. CASE r.stop # None
      <4>1. r.stop \in Nat /\ 100 * SlipBps < r.stop * (Unit + SlipBps)
        BY <3>2 DEF StopsWiderThanSlippage
      <4>2. books[r] \in Book /\ HeldIn(books[r].lots) <= MaxPositionQty
        BY DEF StopInv, XInv, BooksInv
      <4>3. row.action # "SELL"
        BY <2>4, <2>6 DEF TapeOf
      <4>4. PICK book, new : book = books[r] /\ new = ReplayDay(r, book, row)
        OBVIOUS
      <4>5. ~DownBy(new.lots, row.price, r.stop)
        BY <2>4, <4>1, <4>2, <4>3, <4>4, StopDay, ReplayConstants
      <4> QED BY <2>4, <2>5, <4>4, <4>5
    <3> QED BY <3>1, <3>2
  <2> QED BY <2>2, <2>6 DEF StopKept
<1> QED BY <1>7, <1>8

\* Stops are kept in every state, with the books they are about.
THEOREM StopsInvariant == ASSUME StopsWiderThanSlippage PROVE Spec => []StopInv
<1>1. ExplainInit => StopInv
  BY RInit, NothingOpen, BooksInit, StopsInit DEF ExplainInit, Init, QInv, XInv, StopInv
<1>2. StopInv /\ [Next]_vars => StopInv'
  <2>1. StopInv /\ SimulateDay => StopInv'
    BY RStep, DayTraded, BooksStep, StopsStep DEF XInv, QInv, StopInv
  <2>2. StopInv /\ UNCHANGED runVars => StopInv'
    BY DEF StopInv, XInv, QInv, RInv, BooksInv, ReplayReproduces, StopKept, SoldLast, Taped,
           runVars, EveryShareAccounted
  <2> QED BY <2>1, <2>2 DEF Next, vars
<1> QED BY <1>1, <1>2, PTL DEF Spec

\* A replay with a stop keeps it.  After a day on the tape that proposed no SELL,
\* a position that the stop should have closed is not open: whatever was bought and
\* sold before, it is down by less than the stop's percentage, also when the day's
\* own purchase, at its slippage, is part of it.  The cap holds throughout.
THEOREM StopsAreKept == ASSUME StopsWiderThanSlippage PROVE Spec => []StopsHold
<1>1. StopInv => StopsHold
  <2>1. ASSUME StopInv, NEW r \in Rules
        PROVE  HeldIn(books[r].lots) \in 0..MaxPositionQty
    <3>1. books[r] \in Book /\ HeldIn(books[r].lots) <= MaxPositionQty
      BY <2>1 DEF StopInv, XInv, BooksInv
    <3>2. HeldIn(books[r].lots) \in Nat
      BY <3>1, SharesInIsSpread DEF Book
    <3> QED BY <3>1, <3>2, RiskConstants
  <2> QED BY <2>1 DEF StopInv, StopsHold, StopKept, SoldLast, Taped
<1> QED BY <1>1, StopsInvariant, PTL
=============================================================================
