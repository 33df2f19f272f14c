------------------------------ MODULE StackEdits ------------------------------
(***************************************************************************)
(* The commands that change the shape of a stack: create, move, pluck,     *)
(* flatten, reorder, fold, delete, rename, squash, track and untrack.      *)
(*                                                                         *)
(* Each edits refs and metadata step by step and then restacks what it has *)
(* touched; the process can die between any two steps.  What holds them    *)
(* together is the recorded base: a branch's own commits are those above   *)
(* it, wherever the branch hangs meanwhile.                                *)
(*                                                                         *)
(* Conflicts and commands that run at the same time are the subject of     *)
(* ConflictWorkflow, Restack and MetadataStore.  Left out: empty branches,  *)
(* locks, scopes, worktrees, a fold that needs a merge commit, and the     *)
(* checks of a repository that only allows linear stacks.                  *)
(***************************************************************************)
EXTENDS Naturals, FiniteSets, Revisions

CONSTANTS
          Branch,        \* the names there are, in alphabetical order
          Trunk, None,
          Shapes,        \* the parents at first; None: no branch of that name
          MaxPatches,    \* bound on commits
          MaxActs        \* bound on commands, crashes and what people do with git

Node == Branch \cup {Trunk}
Patch == [home : Node, n : 0 .. MaxPatches]
Revision == Seq(Patch)

ASSUME ConstantsAssumption ==
    /\ Branch \subseteq Nat /\ Trunk \notin Branch /\ None \notin Node /\ None \notin Revision
    /\ Shapes \subseteq [Branch -> Node \cup {None}]
    /\ {MaxPatches, MaxActs} \subseteq Nat

VARIABLES tip,        \* refs/heads: the revision, or None
          parent,     \* metadata: parentBranchName, or None
          base,       \* metadata: parentBranchRevision
          cmd,        \* the command that is running: the steps it has left, and
                      \* the branches it has to leave in order
          own,        \* history: per branch, the patches people want on it
          made, acts

metaVars == <<parent, base>>
counters == <<made, acts>>
vars == <<tip, metaVars, cmd, own, counters>>

Exists(x) == tip[x] # None
Tracked == {b \in Branch : Exists(b) /\ parent[b] # None}

\* Names without a branch, and without a record that one has left behind.
Unused == {b \in Branch : ~Exists(b) /\ parent[b] = None}

\* What a restack of b replays.
Replayed(b) == ToSet(tip[b]) \ ToSet(base[b])

NoCommand == [kind |-> "none", steps |-> <<>>, due |-> {}]
Idle == cmd.kind = "none"

Init ==
    /\ parent \in Shapes
    /\ tip = LET at[x \in Node] == IF x = Trunk THEN <<[home |-> Trunk, n |-> 0]>>
                                   ELSE IF parent[x] = None THEN None
                                   ELSE Append(at[parent[x]], [home |-> x, n |-> 0])
             IN at
    /\ base = [b \in Branch |-> IF parent[b] = None THEN None ELSE tip[parent[b]]]
    /\ cmd = NoCommand
    /\ own = [x \in Node |-> IF tip[x] = None THEN {} ELSE {[home |-> x, n |-> 0]}]
    /\ made = 0 /\ acts = 0

-----------------------------------------------------------------------------
(* The stack graph, for the parents P.                                     *)

\* The branches x is stacked on, from the lowest one to x.
Path(P, x) ==
    LET up[y \in Node \cup {None}, i \in 0 .. Cardinality(Branch)] ==
            IF i = 0 \/ y \in {Trunk, None} \/ ~Exists(y) THEN <<>> ELSE Append(up[P[y], i - 1], y)
    IN up[x, Cardinality(Branch)]

Chain(P, x) == ToSet(Path(P, x))

\* b and what is stacked on it; everything, on trunk.
Upstack(P, x) ==
    {b \in Branch : /\ Exists(b) /\ P[b] # None
                    /\ IF x = Trunk THEN \A y \in Chain(P, b) : P[y] = Trunk \/ (P[y] # None /\ Exists(P[y]))
                                    ELSE x \in Chain(P, b)}

Children(x) == {b \in Tracked : parent[b] = x}

\* The graph's depths are computed without a guard against cycles.
Usable == \A b \in Tracked : b \notin Chain(parent, parent[b])

-----------------------------------------------------------------------------
(* What a restack makes of a branch.                                       *)

\* b, on trunk, has all its commits there.
Landed(b) ==
    LET p == parent[b]
    IN (p \in {Trunk, None} \/ ~Exists(p)) /\ ToSet(tip[b]) \subseteq ToSet(tip[Trunk])

\* findNearestValidAncestor: past parents that are gone or have landed.
NearestValid(b) ==
    LET up[x \in Node, i \in 0 .. Cardinality(Branch)] ==
            CASE x = Trunk \/ i = 0                 -> Trunk
              [] x # Trunk /\ ~Exists(x)            -> Trunk
              [] x # Trunk /\ Exists(x) /\ Landed(x) /\ parent[x] = None -> Trunk
              [] x # Trunk /\ Exists(x) /\ Landed(x) /\ parent[x] # None -> up[parent[x], i - 1]
              [] OTHER                              -> x
    IN up[parent[b], Cardinality(Branch)]

\* Mutant: where the branch and its parent meet, whatever was recorded.
OldUpstreamMerge(b, p) == MergeBase(tip[b], tip[p])

\* The recorded base, while the branch is above it.
OldUpstream(b, p) ==
    IF base[b] # None /\ IsAncestor(base[b], tip[b]) THEN base[b] ELSE MergeBase(tip[b], tip[p])

\* A restack would leave b as it is.
InPlace(b) ==
    Landed(b) \/ (Exists(parent[b]) /\ base[b] = tip[parent[b]] /\ IsAncestor(base[b], tip[b]))

\* The stacks are in order.
Settled == \A b \in Tracked : InPlace(b)

-----------------------------------------------------------------------------
(* The steps of a command.                                                 *)

Step(what, of, to) == <<[do |-> what, of |-> of, to |-> to]>>

Reparents(S, p) == LET s == SetToSeq(S)
                   IN [i \in DOMAIN s |-> Step("reparent", s[i], p)[1]]

RestackOf(S) == IF S = {} THEN <<>> ELSE Step("restack", S, None)

Act == acts < MaxActs /\ acts' = acts + 1

\* A command begins.  From a stack in order, it leaves the branches S in order.
Begin(kind, steps, S) ==
    /\ Usable
    /\ cmd' = [kind |-> kind, steps |-> steps,
               due |-> IF Settled THEN {b \in S : ~Exists(b) \/ ~Landed(b)} ELSE {}]
    /\ UNCHANGED <<tip, metaVars, own, made>>

Doing(what) == ~Idle /\ Head(cmd.steps).do = what
Of == Head(cmd.steps).of
To == Head(cmd.steps).to

\* The step is done.
Advance == cmd' = IF Len(cmd.steps) = 1 THEN NoCommand ELSE [cmd EXCEPT !.steps = Tail(@)]

\* setParentPreservingDivergence: the base stays.
Reparent ==
    /\ Doing("reparent") /\ Advance
    /\ parent' = [parent EXCEPT ![Of] = To]
    /\ UNCHANGED <<tip, base, own, counters>>

\* IsMerged.
Merged(r, s) == r # None /\ ToSet(r) \subseteq ToSet(s)

\* setParentRecomputingDivergence: where b and p meet, unless p has what b was
\* on before.
Recomputed(b, p) ==
    LET old == parent[b]
        kept == /\ old \notin {None, p} /\ base[b] # None /\ IsAncestor(base[b], tip[b])
                /\ \/ p = Trunk /\ Merged(base[b], tip[p])
                   \/ Merged(tip[old], tip[p])
    IN IF kept THEN base[b] ELSE MergeBase(tip[b], tip[p])

\* SetParent with DivergenceRecompute.
Recompute ==
    /\ Doing("recompute") /\ Advance
    /\ parent' = [parent EXCEPT ![Of] = To]
    /\ base' = [base EXCEPT ![Of] = Recomputed(Of, To)]
    /\ UNCHANGED <<tip, own, counters>>

\* DeleteRefs: branches and metadata, in one invocation.  A fold --keep has the
\* parent's patches on the branch that stays; other deletions give them up.
DeleteRefs ==
    /\ Doing("delete") /\ Advance
    /\ tip' = [x \in Node |-> IF x \in Of THEN None ELSE tip[x]]
    /\ parent' = [b \in Branch |-> IF b \in Of THEN None ELSE parent[b]]
    /\ base' = [b \in Branch |-> IF b \in Of THEN None ELSE base[b]]
    /\ own' = [x \in Node |-> IF x \in Of THEN {}
                              ELSE IF x = To /\ cmd.kind = "foldkeep"
                                   THEN own[x] \cup UNION {own[b] : b \in Of}
                              ELSE own[x]]
    /\ UNCHANGED counters

\* git merge --ff-only: a fold puts the branch's patches on its parent.
FastForward ==
    /\ Doing("forward") /\ Advance
    /\ tip' = [tip EXCEPT ![To] = tip[Of]]
    /\ own' = [own EXCEPT ![To] = @ \cup own[Of]]
    /\ UNCHANGED <<metaVars, counters>>

Making == made < MaxPatches /\ made' = made + 1
New(x) == [home |-> x, n |-> made + 1]

\* git checkout -b and git commit.
NewBranch ==
    /\ Doing("branch") /\ Advance /\ Making
    /\ tip' = [tip EXCEPT ![Of] = Append(tip[To], New(Of))]
    /\ own' = [own EXCEPT ![Of] = {New(Of)}]
    /\ UNCHANGED <<metaVars, acts>>

\* SquashCurrentBranch: the branch's own commits become one.
SquashOwn ==
    /\ Doing("squash") /\ Advance /\ Making
    /\ tip' = [tip EXCEPT ![Of] = Append(MergeBase(base[Of], tip[Of]), New(Of))]
    /\ own' = [own EXCEPT ![Of] = (@ \ Replayed(Of)) \cup {New(Of)}]
    /\ UNCHANGED <<metaVars, acts>>

\* RenameBranch: git branch -m, a copy of the metadata, and the children.
RenameRef ==
    /\ Doing("name") /\ Advance
    /\ tip' = [tip EXCEPT ![Of] = None, ![To] = tip[Of]]
    /\ own' = [own EXCEPT ![Of] = {}, ![To] = own[Of]]
    /\ UNCHANGED <<metaVars, counters>>

\* The record is copied; the old one stays behind.
RenameMetadata ==
    /\ Doing("record") /\ Advance
    /\ parent' = [parent EXCEPT ![To] = parent[Of]]
    /\ base' = [base EXCEPT ![To] = base[Of]]
    /\ UNCHANGED <<tip, own, counters>>

\* All children in one transaction.
AdoptChildren ==
    /\ Doing("adopt") /\ Advance
    /\ parent' = [b \in Branch |-> IF b \in Of THEN To ELSE parent[b]]
    /\ UNCHANGED <<tip, base, own, counters>>

\* One branch of a restack, parents first.  What the parent has already is no
\* longer a patch of the branch.
Restack(b) ==
    /\ Doing("restack") /\ b \in Of
    /\ \A c \in Of \ {b} : c \notin Chain(parent, b)
    /\ IF Landed(b) THEN UNCHANGED <<tip, metaVars, own>>
       ELSE LET p == NearestValid(b)
            IN /\ tip' = [tip EXCEPT ![b] = Replay(tip[p], OldUpstream(b, p), tip[b])]
               /\ parent' = [parent EXCEPT ![b] = p]
               /\ base' = [base EXCEPT ![b] = tip[p]]
               /\ own' = [own EXCEPT ![b] = @ \ ToSet(tip[p])]
    /\ IF Of = {b} THEN Advance
       ELSE cmd' = [cmd EXCEPT !.steps = RestackOf(Of \ {b}) \o Tail(@)]
    /\ UNCHANGED counters

\* Until it has recomputed the kept branch's base, a fold --keep has the parent's
\* patches below it: one that dies meanwhile gives them up.
Forfeited ==
    IF cmd.kind = "foldkeep" /\ Head(cmd.steps).do # "delete"
       /\ \E i \in DOMAIN cmd.steps : cmd.steps[i].do = "recompute"
    THEN LET s == SelectSeq(cmd.steps, LAMBDA x : x.do = "recompute")[1]
         IN [own EXCEPT ![s.of] = Replayed(s.of)]
    ELSE own

Crash ==
    /\ ~Idle /\ Act
    /\ cmd' = NoCommand /\ own' = Forfeited
    /\ UNCHANGED <<tip, metaVars, made>>

-----------------------------------------------------------------------------
(* The commands.                                                           *)

\* The parents once the moves are made.
After(steps) ==
    LET last(b) == {i \in DOMAIN steps : steps[i].of = b /\ steps[i].do \in {"reparent", "recompute"}}
    IN [b \in Branch |-> IF last(b) = {} THEN parent[b]
                         ELSE steps[CHOOSE i \in last(b) : \A j \in last(b) : j <= i].to]

\* Mutant: what is stacked on the branch is left behind.
MoveAlone(s, onto) ==
    /\ onto \notin Upstack(parent, s)
    /\ Begin("move", Step("reparent", s, onto) \o RestackOf({s}), Tracked)

\* move: a branch and what is stacked on it.
Move(s, onto) ==
    /\ onto \notin Upstack(parent, s)
    /\ LET moves == Step("reparent", s, onto)
       IN Begin("move", moves \o RestackOf(Upstack(After(moves), s)), Tracked)

\* pluck: a branch alone; its children stay on its parent.
Pluck(s, onto) ==
    /\ onto \notin Upstack(parent, s) /\ Exists(parent[s])
    /\ LET moves == Reparents(Children(s), parent[s]) \o Step("reparent", s, onto)
           above == UNION {Upstack(After(moves), c) : c \in Children(s)}
       IN Begin("pluck", moves \o RestackOf(above \cup {s}), Tracked)

\* buildFlattenPlan, for the stack on x: some branches move down, each to trunk or
\* to a branch that was sorted before it.
FlattenPlans(x) ==
    LET stack == Upstack(parent, x)
        depth(y) == Len(Path(parent, y))
        before == {<<b, t>> \in stack \X (stack \cup {Trunk}) :
                      /\ t # parent[b] /\ depth(t) <= depth(b)
                      /\ depth(t) = depth(b) => t < b}
    IN {M \in (SUBSET before) \ {{}} : \A m, n \in M : m[1] = n[1] => m = n}

\* flatten.
Flatten(x) ==
    /\ parent[x] = Trunk
    /\ \E M \in FlattenPlans(x) :
          LET s == SetToSeq(M)
              moves == [i \in DOMAIN s |-> Step("reparent", s[i][1], s[i][2])[1]]
          IN Begin("flatten", moves \o RestackOf(UNION {Upstack(After(moves), m[1]) : m \in M}),
                   Tracked)

\* The orders an editor can leave the branches in.
Orders(old) ==
    {[i \in DOMAIN old |-> old[p[i]]] : p \in Permutations(DOMAIN old)} \ {old}

\* findFirstAffectedBranch.
FirstAffected(old, order) ==
    order[CHOOSE i \in DOMAIN old : order[i] # old[i] /\ \A j \in 1 .. i - 1 : order[j] = old[j]]

\* updateParentRelationships.
InLine(order) ==
    [i \in DOMAIN order |-> Step("reparent", order[i], IF i = 1 THEN Trunk ELSE order[i - 1])[1]]

\* reorder: the branches up to b, in another order.  The restack is that of the
\* first that is in another place, and of what was stacked on it before.
Reorder(b) ==
    LET old == Path(parent, b)
    IN /\ ToSet(old) \subseteq Tracked
       /\ \E order \in Orders(old) :
             Begin("reorder", InLine(order) \o RestackOf(Upstack(parent, FirstAffected(old, order))), {})

\* nearestSurvivingParent.
Surviving(x, D) ==
    LET up[y \in Node, i \in 0 .. Cardinality(Branch)] ==
            IF y \notin D \/ i = 0 THEN y ELSE up[parent[y], i - 1]
    IN up[x, Cardinality(Branch)]

\* delete: the children of branches that are on trunk are reparented before they are
\* deleted, those of others afterwards; they are restacked, but not what is
\* stacked on them.
Delete(b, up, down) ==
    /\ LET D == {b} \cup (IF up THEN Upstack(parent, b) ELSE {})
                    \cup (IF down THEN Chain(parent, b) \cap Tracked ELSE {})
           left == {c \in Tracked \ D : parent[c] \in D}
           safe == {c \in left : IsAncestor(tip[parent[c]], tip[Trunk])}
           moves(S) == LET s == SetToSeq(S)
                       IN [i \in DOMAIN s |-> Step("reparent", s[i], Surviving(parent[s[i]], D))[1]]
       IN Begin("delete",
                moves(safe) \o Step("delete", D, None) \o moves(left \ safe) \o RestackOf(left),
                (Tracked \ D) \ (UNION {Upstack(parent, c) : c \in left} \ left))

\* fold, of a branch that is on its parent's tip.
FoldNormal(b) ==
    /\ Exists(parent[b]) /\ base[b] = tip[parent[b]]
    /\ LET p == parent[b]
           moves == Reparents(Children(b), p)
       IN Begin("fold", Step("forward", b, p) \o Step("delete", {b}, p) \o moves
                        \o RestackOf(Upstack(After(moves), p) \ {b, p}), Tracked \ {b})

\* Mutant: DeleteBranch's reparenting is left as it is.
FoldKeepPreserving(b) ==
    /\ parent[b] \in Tracked /\ base[b] = tip[parent[b]]
    /\ Exists(parent[parent[b]]) /\ base[parent[b]] = tip[parent[parent[b]]]
    /\ LET p == parent[b]
           moves == Reparents(Children(p), parent[p]) \o Reparents(Children(p) \ {b}, b)
       IN Begin("foldkeep", Step("delete", {p}, b) \o moves \o RestackOf(Upstack(After(moves), b)),
                Tracked \ {p})

\* fold --keep, of a branch on its parent's tip, which is on its own parent's.
FoldKeep(b) ==
    /\ parent[b] \in Tracked /\ base[b] = tip[parent[b]]
    /\ Exists(parent[parent[b]]) /\ base[parent[b]] = tip[parent[parent[b]]]
    /\ LET p == parent[b]
           moves == Reparents(Children(p), parent[p]) \o Step("recompute", b, parent[p])
                    \o Reparents(Children(p) \ {b}, b)
       IN Begin("foldkeep", Step("delete", {p}, b) \o moves \o RestackOf(Upstack(After(moves), b)),
                Tracked \ {p})

\* create, with changes and perhaps with --insert: the branches S come on top.
Create(n, x, S) ==
    /\ made < MaxPatches
    /\ LET s == SetToSeq(S)
           moves == [i \in DOMAIN s |-> Step("recompute", s[i], n)[1]]
       IN Begin("create", Step("branch", n, x) \o Step("recompute", n, x) \o moves
                          \o RestackOf(UNION {Upstack(parent, c) : c \in S}), Tracked \cup {n})

\* squash: a branch with commits of its own.
Squash(b) ==
    /\ made < MaxPatches /\ Replayed(b) # {}
    /\ Begin("squash", Step("squash", b, None) \o RestackOf(Upstack(parent, b) \ {b}), Tracked \ {b})

\* rename.
Rename(b, n) ==
    /\ Begin("rename", Step("name", b, n) \o Step("record", b, n)
                       \o (IF Children(b) = {} THEN <<>> ELSE Step("adopt", Children(b), n)),
             (Tracked \ {b}) \cup {n})

\* restack, from a branch upwards.
RestackStack(x) ==
    /\ Upstack(parent, x) # {}
    /\ Begin("restack", RestackOf(Upstack(parent, x)), Tracked)

\* track --parent: what is above the base from now on is the branch's own.
Track(b, p, force) ==
    /\ Exists(b) /\ b # p
    /\ force \/ IsAncestor(tip[p], tip[b])
    /\ parent' = [parent EXCEPT ![b] = p]
    /\ base' = [base EXCEPT ![b] = Recomputed(b, p)]
    /\ own' = [own EXCEPT ![b] = ToSet(tip[b]) \ ToSet(base'[b])]
    /\ UNCHANGED <<tip, cmd, made>>

\* untrack: a branch and all that is stacked on it.
Untrack(b) ==
    /\ Usable
    /\ LET S == Upstack(parent, b)
       IN /\ parent' = [c \in Branch |-> IF c \in S THEN None ELSE parent[c]]
          /\ base' = [c \in Branch |-> IF c \in S THEN None ELSE base[c]]
    /\ UNCHANGED <<tip, cmd, own, made>>

-----------------------------------------------------------------------------
(* People, with git.                                                       *)

\* git commit, on any branch; others' work, on trunk.
Commit(x) ==
    /\ Making /\ Exists(x)
    /\ tip' = [tip EXCEPT ![x] = Append(@, New(x))]
    /\ own' = [own EXCEPT ![x] = @ \cup {New(x)}]
    /\ UNCHANGED <<metaVars, cmd>>

\* git commit --amend.
Amend(b) ==
    /\ Making /\ Exists(b) /\ Last(tip[b]) \in own[b]
    /\ tip' = [tip EXCEPT ![b] = Append(Front(@), New(b))]
    /\ own' = [own EXCEPT ![b] = (@ \ {Last(tip[b])}) \cup {New(b)}]
    /\ UNCHANGED <<metaVars, cmd>>

\* A branch on trunk is merged there and trunk is pulled.
Land(b) ==
    /\ b \in Tracked /\ parent[b] = Trunk /\ Replayed(b) \ ToSet(tip[Trunk]) # {}
    /\ tip' = [tip EXCEPT ![Trunk] = @ \o SelectSeq(tip[b], LAMBDA p : p \notin ToSet(tip[Trunk]))]
    /\ UNCHANGED <<metaVars, cmd, own, made>>

\* git branch.
BranchByHand(n, x) ==
    /\ Exists(x)
    /\ tip' = [tip EXCEPT ![n] = tip[x]]
    /\ UNCHANGED <<metaVars, cmd, own, made>>

Stepping ==
    \/ Reparent \/ Recompute \/ DeleteRefs \/ FastForward \/ NewBranch \/ SquashOwn
    \/ RenameRef \/ RenameMetadata \/ AdoptChildren \/ Crash
    \/ \E b \in Branch : Restack(b)

Commanding ==
    \/ \E b \in Tracked :
          \/ \E x \in Node : Exists(x) /\ (Move(b, x) \/ Pluck(b, x))
          \/ Flatten(b) \/ Reorder(b)
          \/ \E up, down \in BOOLEAN : Delete(b, up, down)
          \/ FoldNormal(b) \/ FoldKeep(b) \/ Squash(b) \/ Untrack(b)
          \/ \E n \in Unused : Rename(b, n)
    \/ \E x \in Tracked \cup {Trunk} :
          \/ RestackStack(x)
          \/ \E n \in Unused : \E S \in SUBSET Children(x) : Create(n, x, S)
          \/ \E b \in Branch, force \in BOOLEAN : Track(b, x, force)

People ==
    \/ \E x \in Node : Commit(x)
    \/ \E b \in Branch : Amend(b) \/ Land(b)
    \/ \E n \in Unused, x \in Node : BranchByHand(n, x)

Next ==
    \/ Stepping
    \/ Idle /\ Act /\ (Commanding \/ People)

Spec == Init /\ [][Next]_vars

-----------------------------------------------------------------------------
\* Types.  A record has a parent and a base, or there is none: a rename copies
\* both, a deletion drops both.
TypeOK ==
    /\ \A x \in Node : tip[x] = None \/ tip[x] \in Revision
    /\ \A b \in Branch : /\ parent[b] \in Node \cup {None}
                         /\ base[b] = None \/ base[b] \in Revision
                         /\ parent[b] # None <=> base[b] # None
    /\ own \in [Node -> SUBSET Patch]

\* What people want on a branch is on some branch, at every step of the commands
\* and wherever they die: folding, deleting and squashing let go of a ref only
\* when another one, or nobody, has use for its commits.
NothingLost ==
    UNION {own[x] : x \in Node} \subseteq UNION {ToSet(tip[x]) : x \in {y \in Node : Exists(y)}}

\* What the next restack of a branch replays is what people want on it, neither
\* a commit of its former parents nor less than its own, after any sequence of
\* commands, complete and interrupted, amended parents and landed branches.
OwnCommits ==
    Idle => \A b \in Tracked : /\ IsAncestor(base[b], tip[b])
                               /\ Replayed(b) \ ToSet(tip[Trunk]) = own[b] \ ToSet(tip[Trunk])

\* The same, with the types.
Coherent == TypeOK /\ OwnCommits

\* A command that finds the stacks in order leaves them in order, without what
\* its restack is not for (Delete, Reorder); and no step of one, whatever others
\* have left undone, stacks branches on one another in a circle, on which the
\* graph's depths would never be found.  Create and rename can: they take the
\* name of a parent that is gone.
LeavesInOrder ==
    [][~Idle => /\ Usable' \/ cmd.kind \in {"create", "rename"}
                /\ (Idle' /\ ~Crash => \A b \in cmd.due : InPlace(b)')]_vars
=============================================================================
