---------------------------- MODULE MCStackEdits ----------------------------
EXTENDS StackEdits

\* A chain of three, and two branches on one; a name is free.
Forms == {[b \in Branch |-> CASE b = 1 -> Trunk [] b = 2 -> 1 [] b = 3 -> x [] OTHER -> None] : x \in {1, 2}}
=============================================================================
