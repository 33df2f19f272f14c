------------------------------ MODULE SyncOwed ------------------------------
(***************************************************************************)
(* What coalescing promises: requests made before a sync starts are served *)
(* by it together, a request made while one runs is owed one more, syncs   *)
(* never overlap, and none runs that nobody has asked for.                 *)
(***************************************************************************)
VARIABLES owed,   \* a request has been made since the last sync started
          busy    \* a sync is running

owedVars == <<owed, busy>>

OwedInit == owed = FALSE /\ busy = FALSE

Request == owed' = TRUE /\ busy' = busy

Begin == owed /\ ~busy /\ owed' = FALSE /\ busy' = TRUE

\* A sync ends; the next one starts in the same step if it is owed.
Again  == busy /\ owed /\ owed' = FALSE /\ busy' = TRUE
Finish == busy /\ ~owed /\ owed' = FALSE /\ busy' = FALSE

OwedNext == Request \/ Begin \/ Again \/ Finish

SafeSpec == OwedInit /\ [][OwedNext]_owedVars

Spec == SafeSpec /\ WF_owedVars(Begin) /\ WF_owedVars(Again \/ Finish)
=============================================================================
