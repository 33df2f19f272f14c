------------------------------ MODULE Revisions ------------------------------
(***************************************************************************)
(* Commits.                                                                *)
(*                                                                         *)
(* A revision is the sequence of the patches it is made of, oldest first:  *)
(* ancestors are prefixes, a merge base is a common prefix, a rebase moves *)
(* patches.                                                                *)
(***************************************************************************)
EXTENDS Naturals, SequencesExt

IsAncestor(r, s) == IsPrefix(r, s)
MergeBase(r, s)  == LongestCommonPrefix({r, s})

\* On top of onto the patches of from above the first n, except those that are
\* there already.
Picked(onto, there, from, n) ==
    LET up[i \in n .. Len(from)] ==
            IF i = n THEN onto
            ELSE IF from[i] \in there THEN up[i - 1] ELSE Append(up[i - 1], from[i])
    IN up[Len(from)]

CherryPick(onto, from, n) == Picked(onto, ToSet(onto), from, n)

\* Mutant: the new base and the old are swapped.
ReplaySwapped(onto, old, from) == CherryPick(old, from, Len(MergeBase(onto, from)))

\* git rebase --onto onto old from: the commits of old..from are made again on
\* top of onto, except those whose change is there already.
Replay(onto, old, from) == CherryPick(onto, from, Len(MergeBase(old, from)))
=============================================================================
