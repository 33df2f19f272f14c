------------------------------- MODULE MCSync -------------------------------
EXTENDS Sync
Stack == [b \in Branch |-> IF b = "a" THEN Trunk ELSE IF b = "b" THEN "a" ELSE "b"]
Every == {<<"batch", TRUE>>, <<"prompt", FALSE>>, <<"force", FALSE>>}
Batch == {<<"batch", FALSE>>}
=============================================================================
