---------------------------- MODULE MCDecisionGraph ----------------------------
(* Small instances of DecisionGraph for TLC: a cap of 4 shares, a budget of 2. *)
EXTENDS DecisionGraph

AllProposals == {[action |-> a, qty |-> q] : a \in {"BUY", "SELL"}, q \in {-1} \cup 1..5}
                  \cup {[action |-> "HOLD", qty |-> 0]}

AllVars  == {NoVar, -1, 0, 1, 2, 3, 4, 8, 9}
AllHeld  == 0..4

\* Three loss dates, of which the first two are explained; the second has no
\* headline on record.
ThreeDays == <<"Mar16", "Sep13", "Jun13">>
Archive   == [d \in {"Mar16", "Sep13", "Jun13"} |->
                CASE d = "Mar16" -> <<1, 2>> [] d = "Sep13" -> <<>> [] d = "Jun13" -> <<3>>]

Entry(d, ids) == [day |-> d, ids |-> ids]
SomeReplies ==
  LET entries == {Entry(d, ids) : d \in {"Mar16", "Sep13", "Jun13"}, ids \in {<<>>, <<1>>, <<3>>}}
  IN  {<<>>} \cup {<<e>> : e \in entries} \cup {<<e, f>> : e \in entries, f \in entries}
=============================================================================
