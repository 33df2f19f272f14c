------------------------------ MODULE GitRefs ------------------------------
(***************************************************************************)
(* The ref transaction every writer of stackit goes through:               *)
(* `git update-ref --stdin`, as runner.UpdateRefs and runner.DeleteRefs    *)
(* drive it.  A ref holds a version (the SHA of the blob or commit it      *)
(* points at) or Absent.  A batch is a function from the refs it names to  *)
(* what it asks of each; git applies a batch completely or not at all.     *)
(* Absent stands for git's missing ref and for the empty OldSHA.           *)
(***************************************************************************)
CONSTANTS Absent,   \* a ref that does not exist; an OldSHA that is ""
          Anything       \* what a command without an expectation demands

\* One element of UpdateRefs' argument (the ref it names is its index).
Update(new, old, mustNotExist, isDelete) ==
    [new |-> new, old |-> old, mustNotExist |-> mustNotExist, isDelete |-> isDelete]

\* Overwrite whatever is there; match `old`, an empty `old` matching anything.
Put(new)            == Update(new, Absent, FALSE, FALSE)
Match(new, old)     == Update(new, old, FALSE, FALSE)
\* Mutant: the version is not passed on.
SwapBlind(new, old) == Put(new)

\* Match `old`, an empty `old` meaning that the ref must not exist.
Swap(new, old)      == Update(new, old, old = Absent, FALSE)
Delete              == Update(Absent, Absent, FALSE, TRUE)
DeleteMatching(old) == Update(Absent, old, FALSE, TRUE)

\* Mutant: `create` is written as an unconditional `update`.
DemandsLax(u) == IF u.old # Absent THEN u.old ELSE Anything

\* The command UpdateRefs writes for an element: what git demands of the ref...
Demands(u) == IF u.mustNotExist /\ ~u.isDelete THEN Absent
              ELSE IF u.old # Absent THEN u.old ELSE Anything

\* ... and what the ref holds afterwards.
Result(u) == IF u.isDelete THEN Absent ELSE u.new

Accepts(refs, batch) == \A r \in DOMAIN batch : Demands(batch[r]) \in {Anything, refs[r]}

Applied(refs, batch) ==
    [r \in DOMAIN refs |-> IF r \in DOMAIN batch THEN Result(batch[r]) ELSE refs[r]]
=============================================================================
