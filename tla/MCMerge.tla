------------------------------- MODULE MCMerge -------------------------------
(* A stack of three branches, merged by each command.                      *)
EXTENDS Merge

Stack == [b \in Branch |-> IF b = "a" THEN Trunk ELSE IF b = "b" THEN "a" ELSE "b"]

Uses == {{"drain", "next"}, {"steps", "sync"}, {"ship", "shipLater", "sync"}}

\* Only a drain pushes what it has locked; a drain and a ship are not mixed.
Situations ==
    {[kinds |-> kinds, gone |-> gone, hook |-> FALSE] : kinds \in Uses, gone \in BOOLEAN}
    \cup {[kinds |-> {"drain"}, gone |-> TRUE, hook |-> TRUE]}
=============================================================================
