------------------------------ MODULE MCSubmit ------------------------------
(***************************************************************************)
(* Two branches for Submit: b on a on trunk.                               *)
(***************************************************************************)
EXTENDS Submit

Stack == [b \in Branch |-> IF b = "b" THEN "a" ELSE Trunk]

\* Both branches have been submitted, or all but the upper one.
TopMayBeNew == {{}, {"b"}}
=============================================================================
