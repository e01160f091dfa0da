---------------------------- MODULE MCNewsArchive ----------------------------
(* A small instance of NewsArchive for TLC: five ticks a day, a weekend      *)
(* between the sessions, and a file whose second chunk repeats a row.        *)
EXTENDS NewsArchive

Containers  == Permutations(Runners)
OverWeekend == {3, 4, 7}
TwoRanges   == {[from |-> 0, to |-> 7], [from |-> 2, to |-> 4]}

\* Whether a headline is given depends on that headline alone: of the rows, one
\* is any headline and the other one is always the same; one file has a row that
\* is not usable.
Other      == [stamp |-> 17, out |-> 17]
SmallFiles == {<<g, Other, g>> : g \in Headlines} \cup {<<Other, Unusable, Other>>}
=============================================================================
