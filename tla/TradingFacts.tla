------------------------------ MODULE TradingFacts ------------------------------
(***************************************************************************)
(* What the proofs of the components that trade have in common.  What the  *)
(* Risk Manager's rules guarantee for every proposal, holding and VaR: the *)
(* position caps are built on GateKeepsCap.  Facts about numbers: bounds   *)
(* of sets of numbers are attained, and the sum over a finite set does not *)
(* depend on the order in which SumFunctionOnSet takes the elements.  And  *)
(* runs of equal elements, which lots become when they are written out     *)
(* share by share.                                                         *)
(***************************************************************************)
EXTENDS RiskGate, SequencesExt, FiniteSetTheorems, SequenceTheorems, WellFoundedInduction, TLAPS

-----------------------------------------------------------------------------
(* The Risk Manager's rules *)

\* The VaR budget allows between none and all of the capped position, whatever
\* the VaR (var_max_qty).
LEMMA VarMaxQtyRange ==
  ASSUME NEW var \in Int
  PROVE  VarMaxQty(var) \in 0..MaxPositionQty
<1>1. CASE var <= 0
  BY <1>1, RiskConstants DEF VarMaxQty
<1>2. CASE var > 0
  <2> DEFINE allowed == (MaxPositionQty * VarBudget) \div var
  <2>1. MaxPositionQty * VarBudget \in Nat
    BY RiskConstants
  <2>2. allowed \in Nat
    BY <1>2, <2>1
  <2> QED
    BY <1>2, <2>2, RiskConstants DEF VarMaxQty
<1> QED
  BY <1>1, <1>2

\* Both layers of rules return a ruling (_v1_rules, then the budget).
LEMMA V1RulesType ==
  ASSUME NEW proposal \in Proposal, NEW current \in Int
  PROVE  V1Rules(proposal, current) \in Ruling
BY RiskConstants
   DEF V1Rules, BuyRule, SellRule, NoTrade, Rule, Ruling, Proposal, Trades, Verdicts

LEMMA GateType ==
  ASSUME NEW proposal \in Proposal, NEW current \in Int, NEW var \in Int \cup {NoVar}
  PROVE  Gate(proposal, current, var) \in Ruling
<1> DEFINE v1 == V1Rules(proposal, current)
<1>1. v1 \in Ruling
  BY V1RulesType
<1>2. CASE var = NoVar \/ v1.action # "BUY"
  BY <1>1, <1>2 DEF Gate, BudgetRule
<1>3. CASE ~(var = NoVar \/ v1.action # "BUY")
  <2>1. VarMaxQty(var) \in Int
    BY <1>3, VarMaxQtyRange
  <2> QED
    BY <1>1, <1>3, <2>1
    DEF Gate, BudgetRule, NoTrade, Rule, Ruling, Trades, Verdicts
<1> QED
  BY <1>2, <1>3

\* Without the budget the rules already keep a holding between 0 and the cap.
LEMMA V1RulesKeepCap ==
  ASSUME NEW proposal \in Proposal, NEW current \in 0..MaxPositionQty
  PROVE  LET r == V1Rules(proposal, current)
         IN  LedgerAfter(current, r.action, r.qty) \in 0..MaxPositionQty
BY RiskConstants
   DEF V1Rules, BuyRule, SellRule, NoTrade, Rule, Proposal, Trades,
       LedgerAfter, PositionAfter

\* The node's ruling never takes a holding above the cap or below zero, even
\* for a quantity nobody asked the model for (zero, negative or huge).
THEOREM GateKeepsCap ==
  ASSUME NEW proposal \in Proposal, NEW current \in 0..MaxPositionQty,
         NEW var \in Int \cup {NoVar}
  PROVE  LET r == Gate(proposal, current, var)
         IN  LedgerAfter(current, r.action, r.qty) \in 0..MaxPositionQty
<1> DEFINE v1 == V1Rules(proposal, current)
<1>1. v1 \in Ruling /\ LedgerAfter(current, v1.action, v1.qty) \in 0..MaxPositionQty
  BY V1RulesType, V1RulesKeepCap, RiskConstants
<1>2. CASE var = NoVar \/ v1.action # "BUY"
  BY <1>1, <1>2 DEF Gate, BudgetRule
<1>3. CASE ~(var = NoVar \/ v1.action # "BUY")
  <2>1. VarMaxQty(var) \in 0..MaxPositionQty
    BY <1>3, VarMaxQtyRange
  <2> QED
    BY <1>1, <1>3, <2>1, RiskConstants
    DEF Gate, BudgetRule, NoTrade, Rule, Ruling, LedgerAfter, PositionAfter
<1> QED
  BY <1>2, <1>3

\* When there is a VaR, no BUY leaves more shares than the budget allows: a
\* holding above the budget (bought in calmer days) is never added to.
THEOREM BuyStaysInBudget ==
  ASSUME NEW proposal \in Proposal, NEW current \in 0..MaxPositionQty, NEW var \in Int,
         Gate(proposal, current, var).action = "BUY"
  PROVE  current + Gate(proposal, current, var).qty <= VarMaxQty(var)
<1> DEFINE v1 == V1Rules(proposal, current)
<1>1. v1 \in Ruling
  BY V1RulesType, RiskConstants
<1>2. VarMaxQty(var) \in 0..MaxPositionQty
  BY VarMaxQtyRange
<1>3. var # NoVar
  BY RiskConstants
<1>4. v1.action = "BUY"
  BY <1>3 DEF Gate, BudgetRule
<1> QED
  BY <1>1, <1>2, <1>3, <1>4, RiskConstants
  DEF Gate, BudgetRule, NoTrade, Rule, Ruling

\* The node may shrink a trade or drop it; it never enlarges or reverses one.
THEOREM GateOnlyShrinks ==
  ASSUME NEW proposal \in Proposal, proposal.qty > 0,
         NEW current \in 0..MaxPositionQty, NEW var \in Int \cup {NoVar}
  PROVE  LET r == Gate(proposal, current, var)
         IN  /\ r.qty \in 0..proposal.qty
             /\ r.qty > 0 => r.action = proposal.action
<1> DEFINE v1 == V1Rules(proposal, current)
<1>1. /\ v1 \in Ruling
      /\ v1.qty \in 0..proposal.qty
      /\ v1.qty > 0 => v1.action = proposal.action
  BY V1RulesType, RiskConstants
  DEF V1Rules, BuyRule, SellRule, NoTrade, Rule, Proposal, Trades
<1>2. CASE var = NoVar \/ v1.action # "BUY"
  BY <1>1, <1>2 DEF Gate, BudgetRule
<1>3. CASE ~(var = NoVar \/ v1.action # "BUY")
  <2>1. VarMaxQty(var) \in 0..MaxPositionQty
    BY <1>3, VarMaxQtyRange
  <2> QED
    BY <1>1, <1>3, <2>1, RiskConstants
    DEF Gate, BudgetRule, NoTrade, Rule, Ruling, Proposal
<1> QED
  BY <1>2, <1>3

\* What a ruling does to a holding is an amount that depends on the ruling
\* alone, as far as the ledger accepts it.
LEMMA LedgerAfterAdds ==
  ASSUME NEW current \in Int, NEW r \in Ruling
  PROVE  LedgerAfter(current, r.action, r.qty) = current + LedgerAfter(0, r.action, r.qty)
BY DEF LedgerAfter, PositionAfter, Ruling, Trades

LEMMA LedgerAfterType ==
  ASSUME NEW current \in Int, NEW r \in Ruling
  PROVE  LedgerAfter(current, r.action, r.qty) \in Int
BY DEF LedgerAfter, PositionAfter, Ruling, Trades

-----------------------------------------------------------------------------
(* The least and the greatest of some numbers *)

Before == {p \in Nat \X Nat : p[1] < p[2]}

\* A non-empty set of natural numbers has a least element.
LEMMA LeastOf ==
  ASSUME NEW T, T \subseteq Nat, T # {}
  PROVE  \E x \in T : \A y \in T : x <= y
<1>1. IsWellFoundedOn(Before, Nat)
  BY NatLessThanWellFounded DEF OpToRel, Before
<1>2. PICK x \in T : \A y \in T : ~(<<y, x>> \in Before)
  BY <1>1, WFMin
<1>3. ASSUME NEW y \in T
      PROVE  x <= y
  <2>1. x \in Nat /\ y \in Nat
    OBVIOUS
  <2>2. <<y, x>> \in Nat \X Nat /\ <<y, x>>[1] = y /\ <<y, x>>[2] = x
    BY <2>1
  <2>3. ~(y < x)
    BY <1>2, <2>2 DEF Before
  <2> QED BY <2>1, <2>3
<1> QED BY <1>3

\* A bounded one has a greatest element.
LEMMA GreatestOf ==
  ASSUME NEW n \in Nat, NEW T, T \subseteq 0..n, T # {}
  PROVE  \E x \in T : \A y \in T : y <= x
<1> DEFINE U == {n - x : x \in T}
<1>1. \A x \in T : x \in Int /\ n - x \in Nat
  OBVIOUS
<1>2. U \subseteq Nat /\ U # {}
  BY <1>1
<1>3. PICK u \in U : \A v \in U : u <= v
  BY <1>2, LeastOf
<1>4. PICK x \in T : u = n - x
  BY <1>3
<1>5. \A y \in T : n - x <= n - y
  BY <1>3, <1>4
<1> QED BY <1>1, <1>5

\* Among some subsets of a finite set one contains no other.
LEMMA LeastSubset ==
  ASSUME NEW S, IsFiniteSet(S), NEW B, B \subseteq SUBSET S, B # {}
  PROVE  \E T \in B : \A U \in B : U \subseteq T => U = T
<1>1. IsWellFoundedOn(StrictSubsetOrdering(S), FiniteSubsetsOf(S))
  BY FS_StrictSubsetOrderingWellFounded
<1>2. B \subseteq FiniteSubsetsOf(S)
  BY FS_Subset DEF FiniteSubsetsOf
<1>3. PICK T \in B : \A U \in B : ~(<<U, T>> \in StrictSubsetOrdering(S))
  BY <1>1, <1>2, WFMin
<1>4. ASSUME NEW U \in B, U \subseteq T
      PROVE  U = T
  <2>1. <<U, T>> \in (SUBSET S) \X (SUBSET S) /\ <<U, T>>[1] = U /\ <<U, T>>[2] = T
    OBVIOUS
  <2> QED BY <1>3, <1>4, <2>1 DEF StrictSubsetOrdering
<1> QED BY <1>4

-----------------------------------------------------------------------------
(* Sums over finite sets *)

Some(T) == CHOOSE x \in T : TRUE

\* g is the table of partial sums that SumFunctionOnSet(f, S) recurs over.
Tabulates(g, f, S) ==
  g = [T \in SUBSET S |-> IF T = {} THEN 0 ELSE f[Some(T)] + g[T \ {Some(T)}]]

\* The table has one value for a set, whatever larger set it was made for.
LEMMA SumTablesAgree ==
  ASSUME NEW f, NEW V, IsFiniteSet(V), NEW W, W \subseteq V,
         NEW g, Tabulates(g, f, V), NEW h, Tabulates(h, f, W)
  PROVE  g[W] = h[W]
<1> DEFINE B == {X \in SUBSET W : g[X] # h[X]}
<1>1. SUFFICES ASSUME B # {} PROVE FALSE
  OBVIOUS
<1>2. IsFiniteSet(W)
  BY FS_Subset
<1>3. PICK X \in B : \A U \in B : U \subseteq X => U = X
  <2>1. B \subseteq SUBSET W
    OBVIOUS
  <2> HIDE DEF B
  <2> QED BY <1>1, <1>2, <2>1, LeastSubset
<1>4. X # {} => Some(X) \in X
  BY DEF Some
<1>5. /\ g[X] = IF X = {} THEN 0 ELSE f[Some(X)] + g[X \ {Some(X)}]
      /\ h[X] = IF X = {} THEN 0 ELSE f[Some(X)] + h[X \ {Some(X)}]
  BY DEF Tabulates
<1>6. X # {} => g[X \ {Some(X)}] = h[X \ {Some(X)}]
  BY <1>3, <1>4
<1> QED BY <1>3, <1>5, <1>6

LEMMA SumTableExists ==
  ASSUME NEW f, NEW S, IsFiniteSet(S)
  PROVE  \E g : Tabulates(g, f, S)
<1> DEFINE B == {T \in SUBSET S : ~\E g : Tabulates(g, f, T)}
<1>1. SUFFICES ASSUME B # {} PROVE FALSE
  OBVIOUS
<1>2. PICK T \in B : \A U \in B : U \subseteq T => U = T
  <2>1. B \subseteq SUBSET S
    OBVIOUS
  <2> HIDE DEF B
  <2> QED BY <1>1, <2>1, LeastSubset
<1> DEFINE table(U) == CHOOSE g : Tabulates(g, f, U)
           total(U) == table(U)[U]
           g == [U \in SUBSET T |-> IF U = {} THEN 0 ELSE f[Some(U)] + total(U \ {Some(U)})]
<1>3. \A U \in SUBSET T : U # T => Tabulates(table(U), f, U)
  BY <1>2
<1>4. ASSUME NEW U \in SUBSET T, U # {}
      PROVE  g[U \ {Some(U)}] = total(U \ {Some(U)})
  <2> DEFINE V == U \ {Some(U)}
  <2>1. V \in SUBSET T /\ V # T /\ Some(U) \in U
    BY <1>4 DEF Some
  <2>2. total(V) = IF V = {} THEN 0 ELSE f[Some(V)] + table(V)[V \ {Some(V)}]
    <3>1. Tabulates(table(V), f, V)
      BY <1>3, <2>1
    <3> HIDE DEF table, V
    <3> QED BY <3>1 DEF Tabulates
  <2>3. CASE V = {}
    BY <2>1, <2>2, <2>3
  <2>4. CASE V # {}
    <3> DEFINE W == V \ {Some(V)}
    <3>1. W \in SUBSET T /\ W # T /\ W \subseteq V /\ IsFiniteSet(V)
      BY <2>1, FS_Subset
    <3>2. Tabulates(table(V), f, V) /\ Tabulates(table(W), f, W)
      BY <1>3, <2>1, <3>1
    <3>3. PICK tv, tw : /\ tv = table(V) /\ Tabulates(tv, f, V)
                        /\ tw = table(W) /\ Tabulates(tw, f, W)
      BY <3>2
    <3>4. PICK big, small : big = V /\ small = W
      OBVIOUS
    <3>5. /\ IsFiniteSet(big) /\ small \subseteq big
          /\ Tabulates(tv, f, big) /\ Tabulates(tw, f, small)
      BY <3>1, <3>3, <3>4
    <3> HIDE DEF table
    <3>6. tv[small] = tw[small]
      <4> HIDE DEF V, W
      <4> QED BY <3>5, SumTablesAgree
    <3>7. table(V)[W] = table(W)[W]
      BY <3>3, <3>4, <3>6
    <3> QED BY <2>1, <2>2, <2>4, <3>7
  <2> QED BY <2>3, <2>4
<1>5. Tabulates(g, f, T)
  <2> HIDE DEF total
  <2>1. \A U \in SUBSET T :
          (IF U = {} THEN 0 ELSE f[Some(U)] + total(U \ {Some(U)}))
            = (IF U = {} THEN 0 ELSE f[Some(U)] + g[U \ {Some(U)}])
    BY <1>4
  <2> QED BY <2>1 DEF Tabulates
<1> QED BY <1>2, <1>5

\* SumFunctionOnSet as its recursion equation.
LEMMA SumRecurs ==
  ASSUME NEW f, NEW S, IsFiniteSet(S)
  PROVE  SumFunctionOnSet(f, S) =
           IF S = {} THEN 0 ELSE f[Some(S)] + SumFunctionOnSet(f, S \ {Some(S)})
<1> DEFINE table(T) == CHOOSE g : Tabulates(g, f, T)
<1>1. \A T \in SUBSET S : Tabulates(table(T), f, T)
  BY SumTableExists, FS_Subset
<1>2. \A T : SumFunctionOnSet(f, T) = table(T)[T]
  BY DEF SumFunctionOnSet, FoldFunctionOnSet, MapThenFoldSet, Tabulates, Some
<1> HIDE DEF table
<1>3. table(S)[S] = IF S = {} THEN 0 ELSE f[Some(S)] + table(S)[S \ {Some(S)}]
  BY <1>1 DEF Tabulates
<1>4. table(S)[S \ {Some(S)}] = table(S \ {Some(S)})[S \ {Some(S)}]
  BY <1>1, SumTablesAgree
<1> QED BY <1>2, <1>3, <1>4

LEMMA SumOfNone ==
  ASSUME NEW f
  PROVE  SumFunctionOnSet(f, {}) = 0
BY SumRecurs, FS_EmptySet

LEMMA SumType ==
  ASSUME NEW f, NEW S, IsFiniteSet(S), \A x \in S : f[x] \in Int
  PROVE  SumFunctionOnSet(f, S) \in Int
<1> DEFINE B == {T \in SUBSET S : SumFunctionOnSet(f, T) \notin Int}
<1>1. SUFFICES ASSUME B # {} PROVE FALSE
  OBVIOUS
<1>2. PICK T \in B : \A U \in B : U \subseteq T => U = T
  <2>1. B \subseteq SUBSET S
    OBVIOUS
  <2> HIDE DEF B
  <2> QED BY <1>1, <2>1, LeastSubset
<1>3. T # {} => Some(T) \in T
  BY DEF Some
<1>4. SumFunctionOnSet(f, T) =
        IF T = {} THEN 0 ELSE f[Some(T)] + SumFunctionOnSet(f, T \ {Some(T)})
  BY SumRecurs, FS_Subset
<1>5. T # {} => SumFunctionOnSet(f, T \ {Some(T)}) \in Int
  BY <1>2, <1>3
<1> QED BY <1>2, <1>3, <1>4, <1>5

\* The sum without any one of the elements.
LEMMA SumWithout ==
  ASSUME NEW f, NEW S, IsFiniteSet(S), \A x \in S : f[x] \in Int, NEW e \in S
  PROVE  SumFunctionOnSet(f, S) = f[e] + SumFunctionOnSet(f, S \ {e})
<1> DEFINE sum(T) == SumFunctionOnSet(f, T)
           B == {T \in SUBSET S : \E x \in T : sum(T) # f[x] + sum(T \ {x})}
<1>1. SUFFICES ASSUME B # {} PROVE FALSE
  OBVIOUS
<1>2. PICK T \in B : \A U \in B : U \subseteq T => U = T
  <2>1. B \subseteq SUBSET S
    OBVIOUS
  <2> HIDE DEF B
  <2> QED BY <1>1, <2>1, LeastSubset
<1>3. PICK x \in T : sum(T) # f[x] + sum(T \ {x})
  BY <1>2
<1> DEFINE y == Some(T)
<1>4. y \in T
  BY <1>3 DEF Some
<1>5. sum(T) = f[y] + sum(T \ {y})
  BY <1>3, SumRecurs, FS_Subset
<1>6. x # y
  BY <1>3, <1>5
<1> DEFINE rest == T \ {x, y}
<1>7. /\ T \ {x} \in SUBSET S /\ T \ {x} # T
      /\ T \ {y} \in SUBSET S /\ T \ {y} # T
      /\ (T \ {x}) \ {y} = rest /\ (T \ {y}) \ {x} = rest
      /\ x \in T \ {y} /\ y \in T \ {x}
  BY <1>3, <1>4, <1>6
<1> HIDE DEF sum
<1>8. sum(T \ {y}) = f[x] + sum(rest) /\ sum(T \ {x}) = f[y] + sum(rest)
  BY <1>2, <1>7
<1>9. sum(rest) \in Int /\ f[x] \in Int /\ f[y] \in Int
  BY <1>4, SumType, FS_Subset DEF sum
<1> QED BY <1>3, <1>5, <1>8, <1>9

\* The sum with one element more.
LEMMA SumWith ==
  ASSUME NEW f, NEW S, IsFiniteSet(S), \A x \in S : f[x] \in Int,
         NEW e, e \notin S, f[e] \in Int
  PROVE  SumFunctionOnSet(f, S \cup {e}) = f[e] + SumFunctionOnSet(f, S)
<1>1. IsFiniteSet(S \cup {e}) /\ (S \cup {e}) \ {e} = S
  BY FS_AddElement
<1>2. SumFunctionOnSet(f, S \cup {e}) = f[e] + SumFunctionOnSet(f, (S \cup {e}) \ {e})
  BY <1>1, SumWithout
<1> QED BY <1>1, <1>2

\* Only the values on the set matter.
LEMMA SumCongruent ==
  ASSUME NEW f, NEW g, NEW S, IsFiniteSet(S), \A x \in S : f[x] = g[x]
  PROVE  SumFunctionOnSet(f, S) = SumFunctionOnSet(g, S)
<1> DEFINE B == {T \in SUBSET S : SumFunctionOnSet(f, T) # SumFunctionOnSet(g, T)}
<1>1. SUFFICES ASSUME B # {} PROVE FALSE
  OBVIOUS
<1>2. PICK T \in B : \A U \in B : U \subseteq T => U = T
  <2>1. B \subseteq SUBSET S
    OBVIOUS
  <2> HIDE DEF B
  <2> QED BY <1>1, <2>1, LeastSubset
<1>3. T # {} => Some(T) \in T
  BY DEF Some
<1>4. /\ SumFunctionOnSet(f, T) =
           IF T = {} THEN 0 ELSE f[Some(T)] + SumFunctionOnSet(f, T \ {Some(T)})
      /\ SumFunctionOnSet(g, T) =
           IF T = {} THEN 0 ELSE g[Some(T)] + SumFunctionOnSet(g, T \ {Some(T)})
  BY SumRecurs, FS_Subset
<1>5. T # {} => SumFunctionOnSet(f, T \ {Some(T)}) = SumFunctionOnSet(g, T \ {Some(T)})
  BY <1>2, <1>3
<1> QED BY <1>2, <1>3, <1>4, <1>5

\* A sum of natural numbers is one, and none of its terms exceeds it.
LEMMA SumOfNats ==
  ASSUME NEW f, NEW S, IsFiniteSet(S), \A x \in S : f[x] \in Nat
  PROVE  /\ SumFunctionOnSet(f, S) \in Nat
         /\ \A x \in S : f[x] <= SumFunctionOnSet(f, S)
<1> DEFINE B == {T \in SUBSET S : SumFunctionOnSet(f, T) \notin Nat}
<1>1. ASSUME B # {} PROVE FALSE
  <2>1. PICK T \in B : \A U \in B : U \subseteq T => U = T
    <3>1. B \subseteq SUBSET S
      OBVIOUS
    <3> HIDE DEF B
    <3> QED BY <1>1, <3>1, LeastSubset
  <2>2. T # {} => Some(T) \in T
    BY DEF Some
  <2>3. SumFunctionOnSet(f, T) =
          IF T = {} THEN 0 ELSE f[Some(T)] + SumFunctionOnSet(f, T \ {Some(T)})
    BY SumRecurs, FS_Subset
  <2>4. T # {} => SumFunctionOnSet(f, T \ {Some(T)}) \in Nat
    BY <2>1, <2>2
  <2> QED BY <2>1, <2>2, <2>3, <2>4
<1>2. \A T \in SUBSET S : SumFunctionOnSet(f, T) \in Nat
  BY <1>1
<1>3. ASSUME NEW x \in S
      PROVE  f[x] <= SumFunctionOnSet(f, S)
  <2>1. SumFunctionOnSet(f, S) = f[x] + SumFunctionOnSet(f, S \ {x})
    BY SumWithout
  <2>2. SumFunctionOnSet(f, S \ {x}) \in Nat /\ f[x] \in Nat
    BY <1>2
  <2> HIDE DEF B
  <2> QED BY <2>1, <2>2
<1> QED BY <1>2, <1>3

\* One more for each element of T makes the sum greater by how many they are.
LEMMA SumGiven ==
  ASSUME NEW S, IsFiniteSet(S), NEW f, NEW g, NEW T \in SUBSET S, \A x \in S : f[x] \in Int,
         \A x \in S : g[x] = f[x] + (IF x \in T THEN 1 ELSE 0)
  PROVE  SumFunctionOnSet(g, S) = SumFunctionOnSet(f, S) + Cardinality(T)
<1> DEFINE Is(U) == SumFunctionOnSet(g, U) = SumFunctionOnSet(f, U) + Cardinality(T \cap U)
           B == {U \in SUBSET S : ~Is(U)}
<1>1. SUFFICES ASSUME B # {} PROVE FALSE
  BY DEF Is
<1>2. B \subseteq SUBSET S
  OBVIOUS
<1> HIDE DEF B
<1>3. PICK U \in B : \A V \in B : V \subseteq U => V = U
  BY <1>1, <1>2, LeastSubset
<1> USE DEF B
<1>4. U \in SUBSET S /\ IsFiniteSet(U) /\ ~Is(U)
  BY FS_Subset
<1>5. U # {}
  <2>1. SUFFICES ASSUME U = {} PROVE Is(U)
    BY <1>4
  <2>2. T \cap U = {} /\ Cardinality({}) = 0
    BY <2>1, FS_EmptySet
  <2>3. SumFunctionOnSet(g, {}) = 0 /\ SumFunctionOnSet(f, {}) = 0
    BY SumOfNone
  <2> QED BY <2>1, <2>2, <2>3
<1>6. PICK e \in U : TRUE
  BY <1>5
<1> DEFINE V == U \ {e}
<1>7. V \in SUBSET S /\ IsFiniteSet(V) /\ IsFiniteSet(T \cap V) /\ Is(V)
  <2>1. IsFiniteSet(V) /\ IsFiniteSet(T \cap V)
    BY <1>4, FS_Subset
  <2> QED BY <1>3, <1>6, <2>1
<1>8. /\ SumFunctionOnSet(f, U) = f[e] + SumFunctionOnSet(f, V)
      /\ SumFunctionOnSet(f, V) \in Int /\ f[e] \in Int
  BY <1>4, <1>6, <1>7, SumWithout, SumType
<1>9. SumFunctionOnSet(g, U) = g[e] + SumFunctionOnSet(g, V)
  <2>1. \A x \in U : g[x] \in Int
    BY <1>4
  <2> QED BY <1>4, <1>6, <2>1, SumWithout
<1>10. Cardinality(T \cap U) = Cardinality(T \cap V) + (IF e \in T THEN 1 ELSE 0)
  <2>1. CASE e \in T
    <3>1. T \cap U = (T \cap V) \cup {e} /\ e \notin T \cap V
      BY <1>6, <2>1
    <3> QED BY <1>7, <2>1, <3>1, FS_AddElement
  <2>2. CASE e \notin T
    <3>1. T \cap U = T \cap V
      BY <2>2
    <3>2. Cardinality(T \cap V) \in Nat
      BY <1>7, FS_CardinalityType
    <3> QED BY <2>2, <3>1, <3>2
  <2> QED BY <2>1, <2>2
<1>11. Cardinality(T \cap V) \in Nat /\ g[e] = f[e] + (IF e \in T THEN 1 ELSE 0)
  BY <1>4, <1>6, <1>7, FS_CardinalityType
<1> QED BY <1>4, <1>7, <1>8, <1>9, <1>10, <1>11

\* n less for one element makes the sum less by n.
LEMMA SumTaken ==
  ASSUME NEW S, IsFiniteSet(S), NEW f, NEW g, NEW e \in S, NEW n \in Int, \A x \in S : f[x] \in Int,
         \A x \in S : g[x] = f[x] - (IF x = e THEN n ELSE 0)
  PROVE  SumFunctionOnSet(g, S) = SumFunctionOnSet(f, S) - n
<1> DEFINE V == S \ {e}
<1>1. IsFiniteSet(V) /\ \A x \in V : f[x] = g[x]
  BY FS_Subset
<1>2. SumFunctionOnSet(f, V) = SumFunctionOnSet(g, V)
  BY <1>1, SumCongruent
<1>3. SumFunctionOnSet(f, V) \in Int
  BY <1>1, SumType
<1>4. SumFunctionOnSet(f, S) = f[e] + SumFunctionOnSet(f, V)
  BY SumWithout
<1>5. \A x \in S : g[x] \in Int
  OBVIOUS
<1>6. SumFunctionOnSet(g, S) = g[e] + SumFunctionOnSet(g, V)
  BY <1>5, SumWithout
<1> QED BY <1>2, <1>3, <1>4, <1>6

-----------------------------------------------------------------------------
(* Runs of equal elements: what FlattenSeq makes of lots of shares *)

\* q[i] times e[i]; and one such run after the other.
Copies(n, x) == [k \in 1..n |-> x]
Run(q, e, i) == Copies(q[i], e[i])
Spread(q, e, m) == FlattenSeq([i \in 1..m |-> Run(q, e, i)])

\* The numbers q counts with, and the elements it counts.
Counts(q, m) == \A i \in 1..m : q[i] \in Nat
Values(e, m) == \A i \in 1..m : e[i] \in Int

\* h is the table that FlattenSeq fills for the first m runs.
Flattens(h, q, e, m) ==
  h = [i \in 1..m |-> IF i = 1 THEN Run(q, e, i) ELSE h[i - 1] \o Run(q, e, i)]

\* The tables of fewer and of more runs agree.
LEMMA FlattensAgree ==
  ASSUME NEW q, NEW e, NEW m \in Nat, NEW n \in Nat, n <= m,
         NEW h, Flattens(h, q, e, m), NEW g, Flattens(g, q, e, n)
  PROVE  \A i \in 1..n : h[i] = g[i]
<1> DEFINE B == {i \in 1..n : h[i] # g[i]}
<1>1. SUFFICES ASSUME B # {} PROVE FALSE
  OBVIOUS
<1>2. PICK i \in B : \A j \in B : i <= j
  <2>1. B \subseteq Nat
    OBVIOUS
  <2> HIDE DEF B
  <2> QED BY <1>1, <2>1, LeastOf
<1>3. i \in 1..n /\ i \in 1..m /\ h[i] # g[i]
  BY <1>2
<1>4. /\ h[i] = IF i = 1 THEN Run(q, e, i) ELSE h[i - 1] \o Run(q, e, i)
      /\ g[i] = IF i = 1 THEN Run(q, e, i) ELSE g[i - 1] \o Run(q, e, i)
  BY <1>3 DEF Flattens
<1>5. i # 1 => i - 1 \in 1..n /\ i - 1 \notin B
  BY <1>2, <1>3
<1>6. i # 1 => h[i - 1] = g[i - 1]
  BY <1>5
<1> QED BY <1>3, <1>4, <1>6

\* There is one for any number of runs.
LEMMA FlattensExist ==
  ASSUME NEW q, NEW e, NEW m \in Nat
  PROVE  \E h : Flattens(h, q, e, m)
<1> DEFINE B == {n \in Nat : ~\E h : Flattens(h, q, e, n)}
<1>1. SUFFICES ASSUME B # {} PROVE FALSE
  OBVIOUS
<1>2. PICK n \in B : \A j \in B : n <= j
  <2>1. B \subseteq Nat
    OBVIOUS
  <2> HIDE DEF B
  <2> QED BY <1>1, <2>1, LeastOf
<1>3. n \in Nat /\ ~\E h : Flattens(h, q, e, n)
  BY <1>2
<1>4. n # 0
  <2>1. Flattens(<<>>, q, e, 0)
    BY DEF Flattens
  <2> QED BY <1>3, <2>1
<1>5. n - 1 \in Nat /\ n - 1 \notin B
  BY <1>2, <1>3, <1>4
<1>6. PICK g : Flattens(g, q, e, n - 1)
  BY <1>5
<1> DEFINE h == [i \in 1..n |-> IF i < n THEN g[i]
                                ELSE IF i = 1 THEN Run(q, e, i) ELSE g[i - 1] \o Run(q, e, i)]
<1>7. ASSUME NEW i \in 1..n
      PROVE  h[i] = IF i = 1 THEN Run(q, e, i) ELSE h[i - 1] \o Run(q, e, i)
  <2>1. i # 1 => i - 1 \in 1..n /\ i - 1 < n
    BY <1>3
  <2>2. i # 1 => h[i - 1] = g[i - 1]
    BY <2>1
  <2>3. i < n => g[i] = IF i = 1 THEN Run(q, e, i) ELSE g[i - 1] \o Run(q, e, i)
    <3>1. i < n => i \in 1..(n - 1)
      BY <1>3
    <3> QED BY <1>6, <3>1 DEF Flattens
  <2> QED BY <2>2, <2>3
<1>8. Flattens(h, q, e, n)
  <2>1. h = [i \in 1..n |-> h[i]]
    OBVIOUS
  <2> HIDE DEF h
  <2> QED BY <1>7, <2>1 DEF Flattens
<1> QED BY <1>3, <1>8

\* FlattenSeq is its last entry.
LEMMA SpreadIsLast ==
  ASSUME NEW q, NEW e, NEW m \in Nat \ {0}, NEW h, Flattens(h, q, e, m)
  PROVE  Spread(q, e, m) = h[m]
<1> DEFINE seqs == [i \in 1..m |-> Run(q, e, i)]
           table == CHOOSE f : f = [i \in 1..m |-> IF i = 1 THEN seqs[i] ELSE f[i - 1] \o seqs[i]]
<1>1. Len(seqs) = m
  OBVIOUS
<1>2. Spread(q, e, m) = table[m]
  <2>1. Spread(q, e, m) = FlattenSeq(seqs)
    BY DEF Spread
  <2>2. m # 0
    OBVIOUS
  <2> HIDE DEF seqs
  <2> QED BY <1>1, <2>1, <2>2 DEF FlattenSeq
<1>3. \A f : f = [i \in 1..m |-> IF i = 1 THEN seqs[i] ELSE f[i - 1] \o seqs[i]]
               <=> Flattens(f, q, e, m)
  BY DEF Flattens
<1>4. Flattens(table, q, e, m)
  <2> HIDE DEF seqs
  <2> QED BY <1>3
<1>5. \A i \in 1..m : h[i] = table[i]
  <2> HIDE DEF table
  <2> QED BY <1>4, FlattensAgree
<1> QED BY <1>2, <1>5

\* No runs, nothing.
LEMMA SpreadNone ==
  ASSUME NEW q, NEW e
  PROVE  Spread(q, e, 0) = <<>>
<1> DEFINE seqs == [i \in 1..0 |-> Run(q, e, i)]
<1>1. seqs = <<>>
  OBVIOUS
<1>2. Len(<<>>) = 0
  OBVIOUS
<1>3. Spread(q, e, 0) = FlattenSeq(seqs)
  BY DEF Spread
<1> HIDE DEF seqs
<1> QED BY <1>1, <1>2, <1>3 DEF FlattenSeq

\* A run has its length and its element throughout.
LEMMA CopiesType ==
  ASSUME NEW n \in Nat, NEW x \in Int
  PROVE  /\ Copies(n, x) \in Seq(Int) /\ Len(Copies(n, x)) = n
         /\ \A k \in 1..n : Copies(n, x)[k] = x
BY DEF Copies

\* The empty run.
LEMMA CopiesOfNone ==
  ASSUME NEW x
  PROVE  Copies(0, x) = <<>>
BY DEF Copies

\* Two runs of one element are one run.
LEMMA CopiesSplit ==
  ASSUME NEW n \in Nat, NEW k \in Nat, NEW x \in Int
  PROVE  Copies(n + k, x) = Copies(n, x) \o Copies(k, x)
<1> DEFINE a == Copies(n, x)
           b == Copies(k, x)
           c == Copies(n + k, x)
<1>1. n + k \in Nat
  OBVIOUS
<1>2. /\ a \in Seq(Int) /\ Len(a) = n /\ \A i \in 1..n : a[i] = x
      /\ b \in Seq(Int) /\ Len(b) = k /\ \A i \in 1..k : b[i] = x
      /\ c \in Seq(Int) /\ Len(c) = n + k /\ \A i \in 1..(n + k) : c[i] = x
  BY <1>1, CopiesType
<1> HIDE DEF a, b, c
<1>3. /\ a \o b \in Seq(Int) /\ Len(a \o b) = n + k
      /\ \A i \in 1..(n + k) : (a \o b)[i] = IF i <= n THEN a[i] ELSE b[i - n]
  BY <1>2, ConcatProperties
<1>4. \A i \in 1..(n + k) : (a \o b)[i] = x
  BY <1>2, <1>3
<1>5. c = a \o b
  BY <1>2, <1>3, <1>4, SeqEqual
<1> QED BY <1>5 DEF a, b, c

\* The last run comes last.
LEMMA SpreadStep ==
  ASSUME NEW q, NEW e, NEW n \in Nat \ {0}, q[n] \in Nat, e[n] \in Int
  PROVE  Spread(q, e, n) = Spread(q, e, n - 1) \o Run(q, e, n)
<1>1. PICK h : Flattens(h, q, e, n)
  BY FlattensExist
<1>2. Spread(q, e, n) = h[n]
  BY <1>1, SpreadIsLast
<1>3. h[n] = IF n = 1 THEN Run(q, e, n) ELSE h[n - 1] \o Run(q, e, n)
  <2>1. n \in 1..n
    OBVIOUS
  <2> QED BY <1>1, <2>1 DEF Flattens
<1>4. CASE n = 1
  <2>1. Run(q, e, n) \in Seq(Int)
    BY CopiesType DEF Run
  <2>2. Spread(q, e, n - 1) = <<>>
    BY <1>4, SpreadNone
  <2>3. <<>> \o Run(q, e, n) = Run(q, e, n)
    BY <2>1, ConcatEmptySeq
  <2> QED BY <1>2, <1>3, <1>4, <2>2, <2>3
<1>5. CASE n # 1
  <2>1. PICK m \in Nat \ {0} : m = n - 1 /\ m <= n /\ m \in 1..m
    BY <1>5
  <2>2. PICK g : Flattens(g, q, e, m)
    BY FlattensExist
  <2>3. Spread(q, e, m) = g[m]
    BY <2>2, SpreadIsLast
  <2>4. h[m] = g[m]
    <3>1. n \in Nat /\ m \in Nat /\ m <= n
      BY <2>1
    <3>2. \A i \in 1..m : h[i] = g[i]
      BY <1>1, <2>2, <3>1, FlattensAgree
    <3> QED BY <2>1, <3>2
  <2> QED BY <1>2, <1>3, <1>5, <2>1, <2>3, <2>4
<1> QED BY <1>4, <1>5

\* The same runs make the same sequence.
LEMMA SpreadSame ==
  ASSUME NEW q, NEW e, NEW p, NEW d, NEW m \in Nat,
         \A i \in 1..m : Run(q, e, i) = Run(p, d, i)
  PROVE  Spread(q, e, m) = Spread(p, d, m)
<1>1. [i \in 1..m |-> Run(q, e, i)] = [i \in 1..m |-> Run(p, d, i)]
  OBVIOUS
<1> QED BY <1>1 DEF Spread

\* As many elements as the runs have together.
LEMMA SpreadFacts ==
  ASSUME NEW q, NEW e, NEW m \in Nat, Counts(q, m), Values(e, m)
  PROVE  Spread(q, e, m) \in Seq(Int) /\ Len(Spread(q, e, m)) = SumFunctionOnSet(q, 1..m)
<1> DEFINE Is(k) == /\ Spread(q, e, k) \in Seq(Int)
                    /\ Len(Spread(q, e, k)) = SumFunctionOnSet(q, 1..k)
           B == {k \in 0..m : ~Is(k)}
<1>1. SUFFICES ASSUME B # {} PROVE FALSE
  OBVIOUS
<1>2. PICK k \in B : \A j \in B : k <= j
  <2>1. B \subseteq Nat
    OBVIOUS
  <2> HIDE DEF B
  <2> QED BY <1>1, <2>1, LeastOf
<1>3. k \in 0..m /\ ~Is(k)
  BY <1>2
<1>4. CASE k = 0
  <2>1. Spread(q, e, 0) = <<>> /\ <<>> \in Seq(Int) /\ Len(<<>>) = 0
    BY SpreadNone
  <2>2. 1..0 = {}
    OBVIOUS
  <2>3. SumFunctionOnSet(q, 1..0) = 0
    BY <2>2, SumOfNone
  <2>4. Is(0)
    <3>1. Spread(q, e, 0) \in Seq(Int) /\ Len(Spread(q, e, 0)) = 0
      BY <2>1
    <3> QED BY <2>3, <3>1
  <2> QED BY <1>3, <1>4, <2>4
<1>5. CASE k # 0
  <2>1. PICK j \in 0..m : j = k - 1 /\ k = j + 1
    BY <1>3, <1>5
  <2>2. Is(j)
    <3>1. j \notin B
      BY <1>2, <2>1
    <3> QED BY <3>1
  <2>3. q[k] \in Nat /\ e[k] \in Int /\ k \in Nat \ {0}
    BY <1>3, <1>5 DEF Counts, Values
  <2>4. Spread(q, e, k) = Spread(q, e, j) \o Copies(q[k], e[k])
    BY <2>1, <2>3, SpreadStep DEF Run
  <2>5. Copies(q[k], e[k]) \in Seq(Int) /\ Len(Copies(q[k], e[k])) = q[k]
    BY <2>3, CopiesType
  <2>6. /\ Spread(q, e, k) \in Seq(Int)
        /\ Len(Spread(q, e, k)) = Len(Spread(q, e, j)) + q[k]
    <3>1. PICK a, b, c : a = Spread(q, e, j) /\ b = Copies(q[k], e[k]) /\ c = Spread(q, e, k)
      OBVIOUS
    <3>2. a \in Seq(Int) /\ b \in Seq(Int) /\ Len(b) = q[k] /\ c = a \o b
      BY <2>2, <2>4, <2>5, <3>1
    <3>3. c \in Seq(Int) /\ Len(c) = Len(a) + Len(b)
      BY <3>2, ConcatProperties
    <3> QED BY <3>1, <3>2, <3>3
  <2>7. SumFunctionOnSet(q, 1..k) = q[k] + SumFunctionOnSet(q, 1..j)
    <3>1. 1..k = (1..j) \cup {k} /\ k \notin 1..j
      BY <1>3, <2>1
    <3>2. IsFiniteSet(1..j) /\ \A x \in 1..j : q[x] \in Int
      BY FS_Interval DEF Counts
    <3>3. q[k] \in Int
      BY <2>3
    <3> DEFINE S == 1..j
    <3>4. IsFiniteSet(S) /\ (\A x \in S : q[x] \in Int) /\ k \notin S
      BY <3>1, <3>2
    <3> HIDE DEF S
    <3>5. SumFunctionOnSet(q, S \cup {k}) = q[k] + SumFunctionOnSet(q, S)
      BY <3>3, <3>4, SumWith
    <3> QED BY <3>1, <3>5 DEF S
  <2>8. Len(Spread(q, e, j)) \in Nat
    BY <2>2
  <2> QED BY <1>3, <2>2, <2>3, <2>6, <2>7, <2>8
<1> QED BY <1>4, <1>5

\* Runs of nothing.
LEMMA SpreadMore ==
  ASSUME NEW q, NEW e, NEW n \in Nat \ {0}, Counts(q, n), Values(e, n), q[n] = 0
  PROVE  Spread(q, e, n) = Spread(q, e, n - 1)
<1>1. PICK m \in Nat : m = n - 1
  OBVIOUS
<1>2. Counts(q, m) /\ Values(e, m) /\ e[n] \in Int
  BY <1>1 DEF Counts, Values
<1>3. Spread(q, e, m) \in Seq(Int)
  BY <1>2, SpreadFacts
<1>4. Spread(q, e, n) = Spread(q, e, m) \o <<>>
  <2>1. q[n] \in Nat
    OBVIOUS
  <2>2. Spread(q, e, n) = Spread(q, e, n - 1) \o Run(q, e, n)
    BY <1>2, <2>1, SpreadStep
  <2>3. Run(q, e, n) = <<>>
    BY CopiesOfNone DEF Run
  <2> QED BY <1>1, <2>2, <2>3
<1> QED BY <1>1, <1>3, <1>4, ConcatEmptySeq

\* Empty runs make nothing.
LEMMA SpreadNothing ==
  ASSUME NEW q, NEW e, NEW m \in Nat, Values(e, m), \A i \in 1..m : q[i] = 0
  PROVE  Spread(q, e, m) = <<>>
<1>1. Counts(q, m)
  BY DEF Counts
<1>2. \A i \in 1..m : Run(q, e, i) = <<>>
  BY CopiesOfNone DEF Run
<1> DEFINE B == {k \in 0..m : Spread(q, e, k) # <<>>}
<1>3. SUFFICES ASSUME B # {} PROVE FALSE
  OBVIOUS
<1>4. PICK k \in B : \A j \in B : k <= j
  <2>1. B \subseteq Nat
    OBVIOUS
  <2> HIDE DEF B
  <2> QED BY <1>3, <2>1, LeastOf
<1>5. k # 0 /\ k \in 0..m
  BY <1>4, SpreadNone
<1>6. k - 1 \in 0..m /\ k - 1 \notin B
  BY <1>4, <1>5
<1>7. k \in Nat \ {0} /\ Counts(q, k) /\ Values(e, k) /\ q[k] = 0
  BY <1>5 DEF Counts, Values
<1>8. Spread(q, e, k) = Spread(q, e, k - 1)
  BY <1>7, SpreadMore
<1> QED BY <1>4, <1>6, <1>8

\* The library's fact, for sequences of numbers.
LEMMA Associative ==
  ASSUME NEW a \in Seq(Int), NEW b \in Seq(Int), NEW c \in Seq(Int)
  PROVE  (a \o b) \o c = a \o (b \o c)
BY ConcatAssociative

\* Of the first run that is there, n elements less.
LessInFront(q, p, m, id, n) ==
  /\ id \in 1..m /\ n \in Nat /\ n <= q[id] /\ p[id] = q[id] - n
  /\ \A i \in 1..(id - 1) : q[i] = 0
  /\ \A i \in 1..m : i # id => p[i] = q[i]

\* That takes n elements off the front.
LEMMA SpreadTake ==
  ASSUME NEW q, NEW p, NEW e, NEW m \in Nat, Counts(q, m), Values(e, m),
         NEW id, NEW n, LessInFront(q, p, m, id, n)
  PROVE  Spread(q, e, m) = Copies(n, e[id]) \o Spread(p, e, m)
<1>0. /\ id \in 1..m /\ n \in Nat /\ n <= q[id] /\ p[id] = q[id] - n
      /\ \A i \in 1..(id - 1) : q[i] = 0
      /\ \A i \in 1..m : i # id => p[i] = q[i]
  BY DEF LessInFront
<1> DEFINE Is(k) == Spread(q, e, k) = Copies(n, e[id]) \o Spread(p, e, k)
           B == {k \in id..m : ~Is(k)}
<1>1. SUFFICES ASSUME B # {} PROVE FALSE
  <2>1. m \in id..m
    BY <1>0
  <2> QED BY <2>1
<1>2. PICK k \in B : \A j \in B : k <= j
  <2>1. B \subseteq Nat
    BY <1>0
  <2> HIDE DEF B
  <2> QED BY <1>1, <2>1, LeastOf
<1>3. k \in id..m /\ ~Is(k)
  BY <1>2
<1>4. Counts(p, m)
  <2>1. \A i \in 1..m : q[i] \in Nat
    BY DEF Counts
  <2>2. p[id] \in Nat
    BY <1>0, <2>1
  <2> QED BY <1>0, <2>1, <2>2 DEF Counts
<1>5. PICK j \in Nat : j = k - 1 /\ k = j + 1 /\ j <= m /\ k \in Nat \ {0} /\ k \in 1..m
  BY <1>0, <1>3
<1>6. /\ Counts(q, j) /\ Counts(p, j) /\ Values(e, j)
      /\ q[k] \in Nat /\ p[k] \in Nat /\ e[k] \in Int /\ e[id] \in Int
  BY <1>0, <1>4, <1>5 DEF Counts, Values
<1>7. /\ Spread(q, e, k) = Spread(q, e, j) \o Copies(q[k], e[k])
      /\ Spread(p, e, k) = Spread(p, e, j) \o Copies(p[k], e[k])
  <2>1. k \in Nat \ {0} /\ q[k] \in Nat /\ p[k] \in Nat /\ e[k] \in Int
    BY <1>5, <1>6
  <2>2. Spread(q, e, k) = Spread(q, e, k - 1) \o Run(q, e, k)
    BY <2>1, SpreadStep
  <2>3. Spread(p, e, k) = Spread(p, e, k - 1) \o Run(p, e, k)
    BY <2>1, SpreadStep
  <2> QED BY <1>5, <2>2, <2>3 DEF Run
<1>8. Copies(n, e[id]) \in Seq(Int) /\ Copies(p[k], e[k]) \in Seq(Int) /\ Copies(q[k], e[k]) \in Seq(Int)
  BY <1>0, <1>6, CopiesType
<1>9. CASE k = id
  <2>1. \A i \in 1..j : q[i] = 0 /\ p[i] = 0
    BY <1>0, <1>5, <1>9
  <2>2. Spread(q, e, j) = <<>> /\ Spread(p, e, j) = <<>>
    BY <1>6, <2>1, SpreadNothing
  <2>3. Spread(q, e, k) = Copies(q[k], e[k]) /\ Spread(p, e, k) = Copies(p[k], e[k])
    BY <1>7, <1>8, <2>2, ConcatEmptySeq
  <2>4. Copies(n + p[k], e[k]) = Copies(n, e[k]) \o Copies(p[k], e[k])
    BY <1>0, <1>6, CopiesSplit
  <2>5. n + p[k] = q[k]
    <3>1. PICK a, b : a = q[k] /\ b = p[k]
      OBVIOUS
    <3>2. b = a - n /\ a \in Nat /\ b \in Nat
      BY <1>0, <1>6, <1>9, <3>1
    <3>3. n + b = a
      BY <1>0, <3>2
    <3> QED BY <3>1, <3>3
  <2> QED BY <1>3, <1>9, <2>3, <2>4, <2>5
<1>10. CASE k # id
  <2>1. j \in id..m /\ j \notin B
    BY <1>0, <1>2, <1>3, <1>5, <1>10
  <2>2. Is(j)
    BY <2>1
  <2>3. p[k] = q[k]
    BY <1>0, <1>3, <1>5, <1>10
  <2>4. Spread(p, e, j) \in Seq(Int)
    BY <1>6, SpreadFacts
  <2>5. PICK a, b, c : a = Copies(n, e[id]) /\ b = Spread(p, e, j) /\ c = Copies(q[k], e[k])
    OBVIOUS
  <2>6. a \in Seq(Int) /\ b \in Seq(Int) /\ c \in Seq(Int)
    BY <1>8, <2>4, <2>5
  <2>7. (a \o b) \o c = a \o (b \o c)
    BY <2>6, Associative
  <2>8. Spread(q, e, k) = (a \o b) \o c /\ Spread(p, e, k) = b \o c
    BY <1>7, <2>2, <2>3, <2>5
  <2> QED BY <1>3, <2>5, <2>7, <2>8
<1> QED BY <1>9, <1>10

\* The first f runs are empty; p and d are the others.
EmptyInFront(q, e, p, d, m, f) ==
  /\ \A i \in 1..f : q[i] = 0
  /\ \A i \in 1..(m - f) : p[i] = q[f + i] /\ d[i] = e[f + i]

\* Empty runs at the front can be left out.
LEMMA SpreadDrop ==
  ASSUME NEW q, NEW e, NEW p, NEW d, NEW m \in Nat, Counts(q, m), Values(e, m),
         NEW f \in 0..m, EmptyInFront(q, e, p, d, m, f)
  PROVE  Spread(q, e, m) = Spread(p, d, m - f)
<1>0. /\ \A i \in 1..f : q[i] = 0
      /\ \A i \in 1..(m - f) : p[i] = q[f + i] /\ d[i] = e[f + i]
  BY DEF EmptyInFront
<1> DEFINE Is(k) == Spread(q, e, f + k) = Spread(p, d, k)
           B == {k \in 0..(m - f) : ~Is(k)}
<1>1. SUFFICES ASSUME B # {} PROVE FALSE
  <2>1. m - f \in 0..(m - f) /\ f + (m - f) = m
    OBVIOUS
  <2>2. Is(m - f)
    BY <1>1, <2>1
  <2> QED BY <2>1, <2>2
<1>2. PICK k \in B : \A j \in B : k <= j
  <2>1. B \subseteq Nat
    OBVIOUS
  <2> HIDE DEF B
  <2> QED BY <1>1, <2>1, LeastOf
<1>3. k \in 0..(m - f) /\ ~Is(k)
  BY <1>2
<1>4. CASE k = 0
  <2>1. f \in Nat /\ Values(e, f) /\ f + k = f
    BY <1>4 DEF Values
  <2>2. Spread(q, e, f) = <<>>
    BY <1>0, <2>1, SpreadNothing
  <2> QED BY <1>3, <1>4, <2>1, <2>2, SpreadNone
<1>5. CASE k # 0
  <2>1. PICK j, a, b : /\ j \in Nat /\ j = k - 1 /\ j \in 0..(m - f)
                       /\ a = f + k /\ b = f + j /\ b = a - 1
                       /\ a \in Nat \ {0} /\ a \in 1..m /\ k \in Nat \ {0} /\ k \in 1..(m - f)
    BY <1>3, <1>5
  <2>2. j \notin B
    BY <1>2, <2>1
  <2>3. Spread(q, e, b) = Spread(p, d, j)
    BY <2>1, <2>2
  <2>4. q[a] \in Nat /\ e[a] \in Int
    BY <2>1 DEF Counts, Values
  <2>5. p[k] = q[a] /\ d[k] = e[a]
    BY <1>0, <2>1
  <2>6. Spread(q, e, a) = Spread(q, e, b) \o Copies(q[a], e[a])
    BY <2>1, <2>4, SpreadStep DEF Run
  <2>7. Spread(p, d, k) = Spread(p, d, j) \o Copies(p[k], d[k])
    BY <2>1, <2>4, <2>5, SpreadStep DEF Run
  <2> QED BY <1>3, <2>1, <2>3, <2>5, <2>6, <2>7
<1> QED BY <1>4, <1>5

\* A sequence in two parts.
LEMMA PartsOf ==
  ASSUME NEW a \in Seq(Int), NEW b \in Seq(Int)
  PROVE  /\ Len(a \o b) = Len(a) + Len(b) /\ a \o b \in Seq(Int)
         /\ SubSeq(a \o b, 1, Len(a)) = a
         /\ SubSeq(a \o b, Len(a) + 1, Len(a \o b)) = b
<1> DEFINE c == a \o b
           n == Len(a)
           front == SubSeq(c, 1, n)
           back == SubSeq(c, n + 1, n + Len(b))
<1>1. /\ c \in Seq(Int) /\ Len(c) = n + Len(b) /\ n \in Nat /\ Len(b) \in Nat
      /\ \A i \in 1..(n + Len(b)) : c[i] = IF i <= n THEN a[i] ELSE b[i - n]
  BY ConcatProperties
<1> HIDE DEF c, n
<1>2. /\ front \in Seq(Int) /\ Len(front) = n /\ \A i \in 1..n : front[i] = c[i]
  BY <1>1
<1>3. \A i \in 1..n : front[i] = a[i]
  BY <1>1, <1>2
<1>4. front = a
  <2> HIDE DEF front
  <2> QED BY <1>2, <1>3, SeqEqual DEF n
<1>5. /\ back \in Seq(Int) /\ Len(back) = Len(b) /\ \A i \in 1..Len(b) : back[i] = c[n + i]
  BY <1>1
<1>6. \A i \in 1..Len(b) : back[i] = b[i]
  <2>1. TAKE i \in 1..Len(b)
  <2>2. n + i \in 1..(n + Len(b)) /\ ~(n + i <= n) /\ n + i - n = i
    BY <1>1
  <2>3. c[n + i] = b[i]
    BY <1>1, <2>2
  <2> QED BY <1>5, <2>3
<1>7. back = b
  <2> HIDE DEF back
  <2> QED BY <1>5, <1>6, SeqEqual
<1> QED BY <1>1, <1>4, <1>7 DEF c, n

-----------------------------------------------------------------------------
(* Folds over a sequence of numbers are sums *)

\* The greatest of some positions is one of them.
LEMMA MaxIsIn ==
  ASSUME NEW n \in Nat, NEW T \in SUBSET (1..n), T # {}
  PROVE  Max(T) \in T /\ \A y \in T : y <= Max(T)
<1>1. T \subseteq 0..n /\ \A x \in T : x \in Int
  OBVIOUS
<1>2. PICK x \in T : \A y \in T : y <= x
  BY <1>1, GreatestOf
<1>3. \A y \in T : x >= y
  BY <1>1, <1>2
<1>4. Max(T) \in T /\ \A y \in T : Max(T) >= y
  BY <1>3 DEF Max
<1> QED BY <1>1, <1>4

\* t is the table that FoldLeft fills when it adds w up, starting from b.
AddsUp(t, w, b, S) ==
  t = [T \in SUBSET S |-> IF T = {} THEN b ELSE t[T \ {Max(T)}] + w[Max(T)]]

\* It holds b and the sum of the positions' numbers.
LEMMA AddsUpIsSum ==
  ASSUME NEW n \in Nat, NEW w, \A i \in 1..n : w[i] \in Int, NEW b \in Int,
         NEW t, AddsUp(t, w, b, 1..n)
  PROVE  t[1..n] = b + SumFunctionOnSet(w, 1..n)
<1> DEFINE sum(T) == SumFunctionOnSet(w, T)
           B == {T \in SUBSET (1..n) : t[T] # b + sum(T)}
<1>1. SUFFICES ASSUME B # {} PROVE FALSE
  OBVIOUS
<1>2. IsFiniteSet(1..n)
  BY FS_Interval
<1>3. PICK T \in B : \A U \in B : U \subseteq T => U = T
  <2>1. PICK N : N = 1..n
    OBVIOUS
  <2>2. IsFiniteSet(N) /\ B \subseteq SUBSET N
    BY <1>2, <2>1
  <2> HIDE DEF B
  <2> QED BY <1>1, <2>2, LeastSubset
<1>4. T \in SUBSET (1..n) /\ t[T] # b + sum(T) /\ IsFiniteSet(T)
  BY <1>2, <1>3, FS_Subset
<1>5. t[T] = IF T = {} THEN b ELSE t[T \ {Max(T)}] + w[Max(T)]
  BY <1>4 DEF AddsUp
<1>6. CASE T = {}
  <2>1. sum(T) = 0
    BY <1>6, SumOfNone
  <2> QED BY <1>4, <1>5, <1>6, <2>1
<1>7. CASE T # {}
  <2>1. PICK x, U : x = Max(T) /\ U = T \ {x}
    OBVIOUS
  <2>2. x \in T
    BY <1>4, <1>7, <2>1, MaxIsIn
  <2>3. t[U] = b + sum(U)
    <3>1. U \in SUBSET (1..n) /\ U \subseteq T /\ U # T
      BY <1>4, <2>1, <2>2
    <3>2. U \notin B
      BY <1>3, <3>1
    <3> QED BY <3>1, <3>2
  <2>4. sum(T) = w[x] + sum(U)
    <3>1. \A y \in T : w[y] \in Int
      BY <1>4
    <3> QED BY <1>4, <2>1, <2>2, <3>1, SumWithout
  <2>5. sum(U) \in Int /\ w[x] \in Int
    <3>1. IsFiniteSet(U) /\ \A y \in U : w[y] \in Int
      BY <1>4, <2>1, FS_Subset
    <3>2. sum(U) \in Int
      BY <3>1, SumType
    <3> QED BY <1>4, <2>2, <3>2
  <2>6. t[T] = t[U] + w[x]
    BY <1>5, <1>7, <2>1
  <2> HIDE DEF sum, B
  <2>7. t[T] = b + sum(T)
    BY <2>3, <2>4, <2>5, <2>6
  <2> QED BY <1>4, <2>7
<1> QED BY <1>6, <1>7

\* There is such a table.
LEMMA AddsUpExists ==
  ASSUME NEW n \in Nat, NEW w, \A i \in 1..n : w[i] \in Int, NEW b \in Int
  PROVE  \E t : AddsUp(t, w, b, 1..n)
<1> DEFINE sum(T) == SumFunctionOnSet(w, T)
           t == [T \in SUBSET (1..n) |-> b + sum(T)]
<1>1. ASSUME NEW T \in SUBSET (1..n)
      PROVE  b + sum(T) = IF T = {} THEN b ELSE t[T \ {Max(T)}] + w[Max(T)]
  <2>1. IsFiniteSet(T)
    <3>1. IsFiniteSet(1..n)
      BY FS_Interval
    <3> QED BY <3>1, FS_Subset
  <2>2. CASE T = {}
    <3>1. sum(T) = 0
      BY <2>2, SumOfNone
    <3> QED BY <2>2, <3>1
  <2>3. CASE T # {}
    <3>1. PICK x, U : x = Max(T) /\ U = T \ {x}
      OBVIOUS
    <3>2. x \in T
      BY <2>3, <3>1, MaxIsIn
    <3>3. sum(T) = w[x] + sum(U)
      <4>1. PICK V : V = T
        OBVIOUS
      <4>2. IsFiniteSet(V) /\ x \in V /\ \A y \in V : w[y] \in Int
        BY <2>1, <3>2, <4>1
      <4>3. SumFunctionOnSet(w, V) = w[x] + SumFunctionOnSet(w, V \ {x})
        BY <4>2, SumWithout
      <4> QED BY <3>1, <4>1, <4>3
    <3>4. sum(U) \in Int /\ w[x] \in Int
      <4>1. IsFiniteSet(U) /\ \A y \in U : w[y] \in Int
        BY <2>1, <3>1, FS_Subset
      <4>2. sum(U) \in Int
        BY <4>1, SumType
      <4> QED BY <3>2, <4>2
    <3>5. t[U] = b + sum(U)
      BY <3>1
    <3> HIDE DEF sum, t
    <3>6. b + sum(T) = t[U] + w[x]
      BY <3>3, <3>4, <3>5
    <3> QED BY <2>3, <3>1, <3>6
  <2> QED BY <2>2, <2>3
<1>2. t = [T \in SUBSET (1..n) |-> IF T = {} THEN b ELSE t[T \ {Max(T)}] + w[Max(T)]]
  <2>1. [T \in SUBSET (1..n) |-> b + sum(T)] =
          [T \in SUBSET (1..n) |-> IF T = {} THEN b ELSE t[T \ {Max(T)}] + w[Max(T)]]
    <3> HIDE DEF t, sum
    <3> QED BY <1>1
  <2> QED BY <2>1
<1>3. AddsUp(t, w, b, 1..n)
  <2> HIDE DEF t
  <2> QED BY <1>2 DEF AddsUp
<1> QED BY <1>3

-----------------------------------------------------------------------------
(* What a sale gains *)

\* The price less what each share had cost.
Gain(paid, fill) == SumFunctionOnSet([i \in DOMAIN paid |-> fill - paid[i]], DOMAIN paid)

\* Nothing sold, nothing gained.
LEMMA GainOfNone ==
  ASSUME NEW fill
  PROVE  Gain(<<>>, fill) = 0
<1>1. DOMAIN <<>> = {}
  OBVIOUS
<1> QED BY <1>1, SumOfNone DEF Gain

\* One more share adds its own gain,
LEMMA GainOfOneMore ==
  ASSUME NEW s \in Seq(Int), NEW x \in Int, NEW fill \in Int
  PROVE  /\ Gain(s, fill) \in Int
         /\ Gain(s \o <<x>>, fill) = Gain(s, fill) + (fill - x)
<1> DEFINE more == s \o <<x>>
           last == Len(s) + 1
           f == [i \in DOMAIN s |-> fill - s[i]]
           g == [i \in DOMAIN more |-> fill - more[i]]
           S == DOMAIN s
<1>1. /\ Len(s) \in Nat /\ S = 1..Len(s) /\ IsFiniteSet(S) /\ last \notin S
      /\ \A i \in S : s[i] \in Int
  BY FS_Interval
<1>2. /\ DOMAIN more = S \cup {last} /\ more[last] = x /\ \A i \in S : more[i] = s[i]
  BY <1>1
<1>3. /\ \A i \in S : f[i] = g[i] /\ f[i] \in Int /\ g[i] \in Int
      /\ g[last] = fill - x /\ g[last] \in Int
  BY <1>1, <1>2
<1> HIDE DEF f, g, S, last, more
<1>4. SumFunctionOnSet(f, S) = SumFunctionOnSet(g, S)
  BY <1>1, <1>3, SumCongruent
<1>5. SumFunctionOnSet(g, S \cup {last}) = g[last] + SumFunctionOnSet(g, S)
  BY <1>1, <1>3, SumWith
<1>6. SumFunctionOnSet(f, S) \in Int
  BY <1>1, <1>3, SumType
<1>7. SumFunctionOnSet(g, S \cup {last}) = SumFunctionOnSet(f, S) + (fill - x)
  BY <1>3, <1>4, <1>5, <1>6
<1>8. Gain(s, fill) = SumFunctionOnSet(f, S)
  BY DEF Gain, f, S
<1>9. Gain(more, fill) = SumFunctionOnSet(g, S \cup {last})
  BY <1>2 DEF Gain, g
<1> QED BY <1>6, <1>7, <1>8, <1>9 DEF more

\* and a run of them as many times that.
LEMMA GainOfCopies ==
  ASSUME NEW s \in Seq(Int), NEW n \in Nat, NEW x \in Int, NEW fill \in Int
  PROVE  Gain(s \o Copies(n, x), fill) = Gain(s, fill) + n * (fill - x)
<1> DEFINE Is(k) == Gain(s \o Copies(k, x), fill) = Gain(s, fill) + k * (fill - x)
           B == {k \in Nat : ~Is(k)}
<1>1. SUFFICES ASSUME B # {} PROVE FALSE
  OBVIOUS
<1>2. PICK k \in B : \A j \in B : k <= j
  <2>1. B \subseteq Nat
    OBVIOUS
  <2> HIDE DEF B
  <2> QED BY <1>1, <2>1, LeastOf
<1>3. k \in Nat /\ ~Is(k)
  BY <1>2
<1>4. Gain(s, fill) \in Int
  BY GainOfOneMore
<1>5. CASE k = 0
  <2>1. s \o Copies(k, x) = s
    BY <1>5, CopiesOfNone, ConcatEmptySeq
  <2>2. k * (fill - x) = 0
    BY <1>5
  <2>3. PICK a, b : a = Gain(s, fill) /\ b = k * (fill - x) /\ a \in Int /\ b = 0
    BY <1>4, <2>2
  <2>4. a = a + b
    BY <2>3
  <2> QED BY <1>3, <2>1, <2>3, <2>4
<1>6. CASE k # 0
  <2>1. PICK j \in Nat : j = k - 1 /\ k = j + 1
    BY <1>3, <1>6
  <2>2. Is(j)
    <3>1. j \notin B
      BY <1>2, <2>1
    <3> QED BY <3>1
  <2>3. Copies(k, x) = Copies(j, x) \o <<x>>
    <3>1. Copies(j + 1, x) = Copies(j, x) \o Copies(1, x)
      BY <2>1, CopiesSplit
    <3>2. Copies(1, x) = <<x>>
      BY DEF Copies
    <3> QED BY <2>1, <3>1, <3>2
  <2>4. PICK c : c = Copies(j, x) /\ c \in Seq(Int)
    BY CopiesType
  <2>5. s \o Copies(k, x) = (s \o c) \o <<x>> /\ s \o c \in Seq(Int)
    <3>1. <<x>> \in Seq(Int) /\ c \in Seq(Int)
      BY <2>4
    <3>2. s \o c \in Seq(Int)
      BY <3>1, ConcatProperties
    <3>3. s \o (c \o <<x>>) = (s \o c) \o <<x>>
      BY <3>1, Associative
    <3> QED BY <2>3, <2>4, <3>2, <3>3
  <2>6. Gain(s \o Copies(k, x), fill) = Gain(s \o c, fill) + (fill - x)
    BY <2>5, GainOfOneMore
  <2>7. PICK each : each = fill - x /\ each \in Int
    OBVIOUS
  <2>8. k * each = j * each + each
    BY <2>1, <2>7
  <2>9. PICK a, b : a = k * each /\ b = j * each /\ a \in Int /\ b \in Int /\ a = b + each
    BY <1>3, <2>1, <2>7, <2>8
  <2>10. Gain(s \o c, fill) = Gain(s, fill) + b
    BY <2>2, <2>4, <2>7, <2>9
  <2>11. PICK g : g = Gain(s, fill) /\ g \in Int
    BY <1>4
  <2>12. (g + b) + each = g + a
    BY <2>7, <2>9, <2>11
  <2>13. Gain(s \o Copies(k, x), fill) = g + a
    <3>1. Gain(s \o Copies(k, x), fill) = (g + b) + each
      BY <2>6, <2>7, <2>10, <2>11
    <3> QED BY <2>12, <3>1
  <2>14. a = k * (fill - x)
    BY <2>7, <2>9
  <2>15. Is(k)
    BY <2>11, <2>13, <2>14
  <2> QED BY <1>3, <2>15
<1> QED BY <1>5, <1>6
=============================================================================
