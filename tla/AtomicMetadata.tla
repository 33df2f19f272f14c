-------------------------- MODULE AtomicMetadata --------------------------
(***************************************************************************)
(* What a metadata transaction promises, without caches, versions or       *)
(* retries: an operation reads the refs it names, adds its mark to those   *)
(* it updates, removes those it deletes, all in one step and only once.    *)
(***************************************************************************)
CONSTANTS Ref, Mark, Absent

VARIABLES content,   \* what every ref holds: Absent or a set of marks
          applied    \* marks of the operations that have taken effect

AInit == content \in [Ref -> {Absent, {}}] /\ applied = {}

MarksIn(v) == IF v = Absent THEN {} ELSE v

\* Operation m updates the refs in U and removes those in D.
Apply(m, U, D) ==
    /\ m \notin applied
    /\ applied' = applied \cup {m}
    /\ content' = [r \in Ref |-> IF r \in U THEN MarksIn(content[r]) \cup {m}
                                ELSE IF r \in D THEN Absent ELSE content[r]]

ANext == \E m \in Mark, U, D \in SUBSET Ref : Apply(m, U, D)

Spec == AInit /\ [][ANext]_<<content, applied>>
=============================================================================
