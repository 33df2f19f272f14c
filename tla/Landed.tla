-------------------------------- MODULE Landed --------------------------------
(***************************************************************************)
(* What has landed, and whose commits are whose then.                      *)
(*                                                                         *)
(* A pull request lands as one squashed commit.  Its patch has number 0,   *)
(* and landed says what it contains.                                       *)
(***************************************************************************)
EXTENDS Naturals, Revisions

CONSTANTS Branch, Trunk, None

VARIABLES tip,        \* refs/heads: the revision, or None
          parent,     \* metadata: parentBranchName, or None: not tracked
          base,       \* metadata: parentBranchRevision
          recorded,   \* metadata: the state of the pull request
          landed      \* GitHub: the patches a pull request was merged with

Exists(x) == tip[x] # None
Tracked == {b \in Branch : Exists(b) /\ parent[b] # None}

Squash(b) == [home |-> b, n |-> 0]

\* What the files of a revision contain.
Changes(S) == S \cup UNION {landed[p.home] : p \in {q \in S : q.n = 0}}
Contents(r) == Changes(ToSet(r))

\* IsMerged and IsSquashMerged: every patch of r is on t, or one commit of t
\* is all of them.
IsMerged(r, t) ==
    LET from == Len(MergeBase(r, t)) + 1
        own == ToSet(SubSeq(r, from, Len(r)))
        added == ToSet(SubSeq(t, from, Len(t)))
        squashed == {landed[p.home] : p \in {q \in added : q.n = 0}}
    IN (\A p \in own : p \in added \/ {p} \in squashed) \/ Changes(own) \in squashed

\* branchLanded: the pull request's recorded state, or git's word on trunk.
BranchLanded(b, r, to) ==
    \/ b # None /\ recorded[b] = "merged"
    \/ to = Trunk /\ r # None /\ IsMerged(r, tip[Trunk])

\* evaluateDeletionStatus.
DeletionKind(b) ==
    IF recorded[b] \in {"closed", "merged"} THEN recorded[b]
    ELSE IF IsAncestor(tip[b], tip[Trunk]) THEN "merged"
    ELSE IF recorded[b] = "none" THEN "none"
    ELSE IF BranchLanded(b, tip[b], Trunk) THEN "merged"
    ELSE IF Exists(parent[b]) /\ Contents(tip[b]) = Contents(tip[parent[b]]) THEN "empty"
    ELSE "none"

\* Mutant: where the branch and its new parent meet, in any case.
NewBaseMeets(b, to, keep) == MergeBase(tip[b], tip[to])

\* Where b's own commits begin, on a new parent.
NewBase(b, to, keep) ==
    IF \/ keep
       \/ /\ IsAncestor(base[b], tip[b])
          /\ \/ BranchLanded(parent[b], tip[parent[b]], to) \/ BranchLanded(None, base[b], to)
             \/ Exists(parent[b]) /\ IsMerged(tip[parent[b]], tip[to])
    THEN base[b]
    ELSE MergeBase(tip[b], tip[to])

OldUpstream(b) ==
    IF IsAncestor(base[b], tip[b]) THEN base[b] ELSE MergeBase(tip[b], tip[parent[b]])

\* A commit whose change is there already is dropped.
Rebased(onto, old, from) ==
    Picked(onto, Contents(onto), from, Len(MergeBase(old, from)))
=============================================================================
