--------------------------- MODULE MCPublicSnapshot ---------------------------
(* A small instance of PublicSnapshot for TLC: three test days, so that three   *)
(* wins have p = 1/4 and Alpha is 30%, and two decisions.                       *)
EXTENDS PublicSnapshot

ThreeDays == <<"Mar16", "Sep13", "Jun13">>
OneDay    == <<"Jan03">>
FirstDay  == {"Mar16"}
Mixed     == [d \in {"Mar16", "Sep13", "Jun13"} |->
                IF d = "Sep13" THEN <<"quote", "explainer">> ELSE <<"explainer", "quote">>]

GoodOrBad  == {[matches |-> "yes", supported |-> TRUE], [matches |-> "no", supported |-> FALSE]}
OneOrThree == {1, 3}

\* Both changed by the budget: before there were traces, and since.
OldAndNew == <<[changed |-> TRUE, explained |-> FALSE, steps |-> "none"],
               [changed |-> TRUE, explained |-> FALSE, steps |-> "other"]>>
=============================================================================
