------------------------- MODULE MCConflictWorkflow -------------------------
(* A stack of three branches, and one that is created later on trunk.      *)
EXTENDS ConflictWorkflow

ThreeAndOne == <<"a", "b", "c", "d">>
Stack == [b \in Branch |-> CASE b = "b" -> "a" [] b = "c" -> "b" [] OTHER -> Trunk]
=============================================================================
