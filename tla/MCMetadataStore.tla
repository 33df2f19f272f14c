-------------------------- MODULE MCMetadataStore --------------------------
(* Small instances of MetadataStore. *)
EXTENDS MetadataStore, TLC

CONSTANTS e1, e2, t1, t2, t3, b1

\* One goroutine per engine.
TwoEngines == (t1 :> e1) @@ (t2 :> e2)

\* Two goroutines of one engine, and a rival.
TwoAndOne == (t1 :> e1) @@ (t2 :> e1) @@ (t3 :> e2)

S1 == <<"shared", b1>>
L1 == <<"local", b1>>

Tx(refs)     == [op |-> "tx", refs |-> refs, del |-> {}, retry |-> TRUE]
TxOnce(refs) == [Tx(refs) EXCEPT !.retry = FALSE]
TxDel(refs)  == [TxOnce(refs) EXCEPT !.del = refs]
Op(op, refs) == [op |-> op, refs |-> refs, del |-> {}, retry |-> FALSE]

\* Every kind of operation on one branch.
AllJobs == {Tx({S1}), TxOnce({S1, L1}), TxDel({S1}), TxDel({L1}),
            Op("direct", {S1}), Op("direct", {L1}), Op("flag", {L1}),
            Op("restack", {S1}), Op("untrack", {S1}), Op("rebuild", {})}

\* Transactions only: updates of both tiers under WithRetry, and deletions that
\* get in their way.
TxJobs == {Tx({S1, L1}), TxOnce({S1}), TxDel({S1}), TxDel({L1})}

Swap2 == (e1 :> e2) @@ (e2 :> e1) @@ (t1 :> t2) @@ (t2 :> t1)
Same2 == (e1 :> e1) @@ (e2 :> e2) @@ (t1 :> t1) @@ (t2 :> t2)

\* Marks are interchangeable, and so are two engines with a thread each.
Symmetry == {p @@ q : p \in Permutations(Mark), q \in {Same2, Swap2}}
=============================================================================
