------------------------------ MODULE MCRestack ------------------------------
(* Restack of a stack of three branches.                                   *)
EXTENDS Restack

Three == <<"a", "b", "c">>

\* Each branch on the one before it, the first on trunk.
Stacked ==
    {[b \in Branch |-> LET i == CHOOSE i \in DOMAIN Order : Order[i] = b
                       IN IF i = 1 THEN Trunk ELSE Order[i - 1]]}

AllPlain   == [b \in Branch |-> "plain"]
But(b, k)  == [AllPlain EXCEPT ![b] = k]
KindsOfA   == {AllPlain, But("a", "anchor"), But("a", "frozen")}
KindsOfAB  == KindsOfA \cup {But("b", "frozen"), But("a", "locked")}
=============================================================================
