------------------------------ MODULE SyncProofs ------------------------------
(***************************************************************************)
(* Theorems about Sync, for any stack, any number of syncs, and of things  *)
(* that others do.                                                         *)
(*                                                                         *)
(* What sync moves, deletes or leaves out of a rebase was on the remote,   *)
(* or its branch still has it.  A commit that neither has been pushed nor  *)
(* given up is on the branch that it was made on (AtHome), and nowhere but *)
(* there and on branches that were created on it (Lineage): a rebase of    *)
(* that branch does not take it for somebody else's.  What sync decides by *)
(* may be old (Judgement): what was on the remote once still was.          *)
(***************************************************************************)
EXTENDS Sync, StackLemmas

-----------------------------------------------------------------------------
(* The invariant.                                                          *)

\* What has been pushed or given up.
Spared == pushed \cup waived

\* x and what it was created on.
Lower(x) == Chain(x) \cup {Trunk}

\* Of what is not spared, S has only commits of x and of branches below.
Of(S, x) == \A p \in S : p \in Spared \/ p.home \in Lower(x)

\* What is not spared is on the branch it was made on.
AtHome ==
    \A p \in Local(tip) : p \in Spared \/ (Exists(p.home) /\ p \in ToSet(tip[p.home]))

\* Branches are on the branches they were created on, or on branches below,
\* and so are their commits.
Lineage ==
    /\ \A x \in Node : Exists(x) => Of(ToSet(tip[x]), x)
    /\ \A b \in Branch : parent[b] # None =>
          parent[b] \in Lower(Parent[b]) /\ Of(ToSet(base[b]), Parent[b])

\* What the remote has, has been pushed.
Remote ==
    /\ Local(remote) \subseteq pushed /\ Local(tracking) \subseteq pushed
    /\ \A b \in Branch : /\ landed[b] \subseteq pushed
                         /\ pr[b] # "none" => prBase[b] \in Node
    /\ remote[Trunk] # None /\ tracking[Trunk] # None /\ Exists(Trunk)

States == {"none", "open", "merged", "closed"}

\* What is known of a branch: if the remote has its commits, they were pushed.
Judged(s) ==
    /\ s.local \in Revision
    /\ s.remote # None /\ (s.base = s.local \/ s.remote = s.local) => ToSet(s.local) \subseteq pushed

\* The branch that UpdateBranchFromRemote is about to move.
Pulling(old) ==
    /\ Exists(old.of) /\ old.of \in Node /\ old.rev \in Revision /\ old.to \in Revision
    /\ IsAncestor(old.rev, old.to) /\ ToSet(old.to) \subseteq pushed

\* What a sync has seen.
Seen ==
    /\ sync.seen \subseteq Tracked
    /\ sync.todo \subseteq Node
    /\ sync.old # None => Pulling(sync.old) /\ sync.pc \in {"trunk", "pull"}
    /\ "prs" \in sync.got /\ sync.pc \in {"look", "trunk"} =>
          /\ DOMAIN sync.prs = sync.seen
          /\ \A b \in sync.seen : sync.prs[b].state \in States
    /\ sync.pc = "trunk" => "prs" \in sync.got
    /\ sync.pc \in {"trunk", "behind", "pull", "prompt"} => "status" \in sync.got
    /\ "status" \in sync.got /\ sync.pc \in {"look", "trunk", "behind", "pull", "prompt"} =>
          \A b \in DOMAIN sync.status : Judged(sync.status[b])

\* A branch that may go with what it was seen to have.
MayGo(b) == b \in sync.yes \/ Status(b).remote = None \/ ToSet(Status(b).local) \subseteq pushed

Standing(x) == x \in sync.doomed \/ Exists(x)

\* What a sync is going to do.
Judgement ==
    /\ sync.doomed \subseteq Branch
    /\ sync.pc = "prompt" => sync.doomed \subseteq sync.seen
    /\ sync.pc = "reparent" =>
          /\ \A b \in sync.doomed : MayGo(b)
          /\ \A m \in sync.moves : /\ m.of \in sync.seen /\ m.to \in Lower(Parent[m.of])
                                   /\ Standing(m.to)
    /\ sync.pc \in {"reparent", "adopt"} => \A b \in sync.seen : Standing(parent[b])
    /\ NoOrphans

Work == /\ DOMAIN sync = DOMAIN NoSync
        /\ Idle => sync = NoSync
        /\ Seen /\ Judgement

Counts == made \in Nat

\* The inductive invariant.
Inv == TypeOK /\ Counts /\ Lineage /\ AtHome /\ Remote /\ Work

-----------------------------------------------------------------------------
(* Branches and revisions.                                                 *)

LEMMA ParentIsTree == Tree(Parent, Branch, Trunk)
BY ConstantsAssumption DEF Tree, Rooted, Node

LEMMA ChainIs ==
    /\ Chain(Trunk) = {}
    /\ \A b \in Branch : Chain(b) = {b} \cup Chain(Parent[b]) /\ b \notin Chain(Parent[b])
    /\ \A x \in Node : Chain(x) \subseteq Branch /\ \A c \in Chain(x) : Chain(c) \subseteq Chain(x)
<1>1. \A x : Chain(x) = Beneath(Parent, Branch, Trunk)[x]
  BY DEF Chain, Beneath, Node
<1> QED
  BY <1>1, ParentIsTree, BeneathIs DEF Node

LEMMA LowerIs ==
    /\ \A b \in Branch : /\ b \in Lower(b) /\ b \notin Lower(Parent[b])
                         /\ Lower(Parent[b]) \subseteq Lower(b)
    /\ \A x \in Node : /\ x \in Lower(x) /\ Trunk \in Lower(x)
                       /\ \A y \in Lower(x) : y \in Node /\ Lower(y) \subseteq Lower(x)
<1>1. Trunk \notin Branch /\ Parent \in [Branch -> Node] /\ Node = Branch \cup {Trunk}
  BY ConstantsAssumption DEF Node
<1> QED
  BY <1>1, ChainIs DEF Lower

\* Patches, and what they contain.
LEMMA PatchIs ==
    ASSUME NEW p \in Patch
    PROVE  p.home \in Node /\ (p.n = 0 => p.home \in Branch)
BY DEF Patch, Squash, Node

LEMMA NewPatch ==
    ASSUME Counts, made <= MaxPatches, NEW x \in Node
    PROVE  /\ [home |-> x, n |-> made + 1] \in Patch
           /\ [home |-> x, n |-> made + 1].home = x
<1>1. made + 1 \in 1 .. MaxPatches + 1
  BY ConstantsAssumption DEF Counts
<1> HIDE DEF Counts
<1> DEFINE k == made + 1
<1> HIDE DEF k
<1> QED
  BY <1>1 DEF Patch, k

LEMMA ContentsIs ==
    ASSUME TypeOK, Remote, NEW r \in Revision
    PROVE  Contents(r) \subseteq ToSet(r) \cup pushed
<1>1. ToSet(r) \subseteq Patch
  BY ElementOfSeq, LenProperties DEF Revision, ToSet
<1> QED
  BY <1>1, PatchIs DEF Contents, Changes, Remote

\* A rebase drops what is on the old base, or on trunk.
LEMMA RebasedIs ==
    ASSUME TypeOK, Remote, NEW onto \in Revision, NEW old \in Revision, NEW from \in Revision
    PROVE  /\ Rebased(onto, old, from) \in Revision
           /\ ToSet(Rebased(onto, old, from)) \subseteq ToSet(onto) \cup ToSet(from)
           /\ ToSet(from) \subseteq ToSet(Rebased(onto, old, from)) \cup ToSet(old) \cup pushed
<1>1. Contents(onto) \subseteq ToSet(onto) \cup pushed
  BY ContentsIs
<1>2. ASSUME NEW D
      PROVE  LET r == Picked(onto, D, from, Len(MergeBase(old, from)))
             IN /\ r \in Revision
                /\ ToSet(onto) \subseteq ToSet(r) /\ ToSet(r) \subseteq ToSet(onto) \cup ToSet(from)
                /\ ToSet(from) \subseteq ToSet(r) \cup ToSet(old) \cup D
  BY PickedOwn DEF Revision
<1> QED
  BY <1>1, <1>2 DEF Rebased

\* Where two branches meet there is nothing that they do not have.
LEMMA MeetIs ==
    ASSUME NEW r \in Revision, NEW s \in Revision
    PROVE  /\ MergeBase(r, s) \in Revision
           /\ ToSet(MergeBase(r, s)) \subseteq ToSet(r)
           /\ ToSet(MergeBase(r, s)) \subseteq ToSet(s)
BY MergeBaseIs, AncestorSet DEF Revision

LEMMA AppendIs ==
    ASSUME NEW r \in Revision, NEW p \in Patch
    PROVE  /\ Append(r, p) \in Revision /\ Append(r, p) # None
           /\ ToSet(Append(r, p)) = ToSet(r) \cup {p}
BY AppendSet, AppendProperties, ConstantsAssumption DEF Revision

-----------------------------------------------------------------------------
(* What a step must not do.                                                *)

\* A step takes nothing away from what is spared.
Grows == pushed \subseteq pushed' /\ waived \subseteq waived'

\* A branch keeps its own commits, or they are spared.
Stays ==
    \A x \in Node : Exists(x) =>
        \A p \in ToSet(tip[x]) :
            p.home = x => p \in Spared' \/ (tip'[x] # None /\ p \in ToSet(tip'[x]))

\* No commit comes from nowhere.
Comes ==
    \A p \in Local(tip') : \/ p \in Local(tip) \/ p \in Spared'
                           \/ p.home \in Node /\ tip'[p.home] # None /\ p \in ToSet(tip'[p.home])

\* No commit goes that is not spared.
KeepsWork == \A p \in Local(tip) \ Local(tip') : p \in Spared'

LEMMA LocalPatches ==
    ASSUME TypeOK
    PROVE  /\ \A p \in Local(tip) \cup Local(remote) \cup Local(tracking) : p \in Patch
           /\ \A x \in Node : tip[x] # None => tip[x] \in Revision /\ ToSet(tip[x]) \subseteq Patch
           /\ \A b \in Branch : base[b] # None => base[b] \in Revision
<1>1. \A r \in Revision : ToSet(r) \subseteq Patch
  BY ElementOfSeq, LenProperties DEF Revision, ToSet
<1> QED
  BY <1>1 DEF TypeOK, Local

LEMMA HomeStep ==
    ASSUME TypeOK, AtHome, Grows, Stays, Comes
    PROVE  AtHome' /\ KeepsWork
<1> DEFINE On(p) == tip'[p.home] # None /\ p \in ToSet(tip'[p.home])
<1>1. ASSUME NEW p \in Local(tip) PROVE p \in Spared' \/ (p.home \in Node /\ On(p))
  <2>1. p.home \in Node
    BY <1>1, LocalPatches, PatchIs
  <2>2. p \in Spared => p \in Spared'
    BY DEF Grows, Spared
  <2>3. p \in Spared \/ (Exists(p.home) /\ p \in ToSet(tip[p.home]))
    BY <1>1 DEF AtHome
  <2> QED
    BY <2>1, <2>2, <2>3 DEF Stays
<1>2. AtHome'
  BY <1>1 DEF AtHome, Comes, Exists
<1>3. KeepsWork
  BY <1>1 DEF KeepsWork, Local
<1> QED
  BY <1>2, <1>3

\* A step that does not touch the branches.
LEMMA LocalFrame ==
    ASSUME Lineage, AtHome, Grows, UNCHANGED <<tip, parent, base>>
    PROVE  Lineage' /\ AtHome' /\ KeepsWork
<1>1. \A p : p \in Spared => p \in Spared'
  BY DEF Grows, Spared
<1>2. \A S, x : Of(S, x) => Of(S, x)'
  BY <1>1 DEF Of
<1> QED
  BY <1>1, <1>2 DEF Lineage, AtHome, KeepsWork, Exists

\* What a running sync has noted stays true beside others.
LEMMA SeenFrame ==
    ASSUME Seen, Grows, \A b \in sync.seen : b \in Tracked',
           \A x \in Node : Exists(x) => Exists(x)',
           sync'.seen = sync.seen, sync'.todo = sync.todo, sync'.old = sync.old,
           sync'.got = sync.got, sync'.prs = sync.prs, sync'.status = sync.status,
           sync'.pc = sync.pc
    PROVE  Seen'
<1>1. \A s : Judged(s) => Judged(s)'
  BY DEF Judged, Grows
<1>2. \A old : Pulling(old) => Pulling(old)'
  BY DEF Pulling, Grows
<1> QED
  BY <1>1, <1>2 DEF Seen

LEMMA JudgementFrame ==
    ASSUME Judgement, Grows, Seen,
           \A x \in Node : Exists(x) => Exists(x)', \A b \in sync.seen : parent'[b] = parent[b],
           \A b \in sync.seen : parent[b] \in Node,
           sync'.seen = sync.seen, sync'.doomed = sync.doomed, sync'.yes = sync.yes,
           sync'.moves = sync.moves, sync'.status = sync.status, sync'.pc = sync.pc
    PROVE  Judgement'
<1>1. \A x \in Node : Standing(x) => Standing(x)'
  BY DEF Standing
<1>2. \A b : MayGo(b) => MayGo(b)'
  BY DEF MayGo, Status, Grows
<1>3. \A b \in sync.seen : b \in Branch
  BY DEF Seen, Tracked
<1>4. \A m \in sync.moves : m.of \in sync.seen /\ m.to \in Lower(Parent[m.of]) => m.to \in Node
  BY <1>3, LowerIs, ConstantsAssumption
<1>5. NoOrphans => NoOrphans'
  BY DEF NoOrphans
<1> QED
  BY <1>1, <1>2, <1>4, <1>5 DEF Judgement

\* Others do not touch a sync, but for its being undisturbed.
LEMMA Beside ==
    ASSUME TypeOK, Work, Grows, Disturbs, 
           \A x \in Node : Exists(x) => Exists(x)', \A b \in sync.seen : parent'[b] = parent[b]
    PROVE  Work' /\ sync'.seen = sync.seen /\ sync'.doomed = sync.doomed /\ sync'.todo = sync.todo
<1>1. /\ DOMAIN sync' = DOMAIN NoSync /\ (Idle' => sync' = NoSync)
      /\ sync'.seen = sync.seen /\ sync'.todo = sync.todo /\ sync'.old = sync.old
      /\ sync'.got = sync.got /\ sync'.prs = sync.prs /\ sync'.status = sync.status
      /\ sync'.doomed = sync.doomed /\ sync'.yes = sync.yes /\ sync'.moves = sync.moves
      /\ sync'.pc = sync.pc
  BY DEF Disturbs, Work, NoSync, Idle
<1>2. \A b \in sync.seen : b \in Tracked /\ b \in Tracked' /\ parent[b] \in Node
  BY DEF Work, Seen, Tracked, TypeOK, Node, Exists
<1>3. Seen'
  BY <1>1, <1>2, SeenFrame DEF Work
<1>4. Judgement'
  BY <1>1, <1>2, JudgementFrame DEF Work
<1> QED
  BY <1>1, <1>3, <1>4 DEF Work

-----------------------------------------------------------------------------
(* People and GitHub.                                                      *)

LEMMA RemoteFrame ==
    ASSUME Remote, Grows, UNCHANGED <<remoteVars, tracking>>, Exists(Trunk)'
    PROVE  Remote'
BY DEF Remote, Grows, remoteVars, Local

\* ... after the step.
OfNext(S, x) == \A p \in S : p \in Spared' \/ p.home \in Lower(x)

LEMMA SpareGrows == ASSUME Grows PROVE \A S, x : Of(S, x) => OfNext(S, x)
BY DEF Of, OfNext, Grows, Spared

LEMMA LineageNext ==
    ASSUME \A x \in Node : tip'[x] # None => OfNext(ToSet(tip'[x]), x),
           \A b \in Branch : parent'[b] # None =>
              parent'[b] \in Lower(Parent[b]) /\ OfNext(ToSet(base'[b]), Parent[b])
    PROVE  Lineage'
BY DEF Lineage, Of, OfNext, Exists


\* A branch gets a commit of its own on top of what it has, or of what the
\* branch has that it is created on.
LEMMA AppendStep ==
    ASSUME TypeOK, NEW x \in Node, NEW r \in Revision, NEW p \in Patch, p.home = x,
           Of(ToSet(r), x), tip' = [tip EXCEPT ![x] = Append(r, p)], Grows,
           Exists(x) => r = tip[x], \A q \in ToSet(r) : q \in Local(tip),
           Lineage, AtHome
    PROVE  /\ tip' \in [Node -> Revision \cup {None}]
           /\ \A y \in Node : Exists(y) => Exists(y)'
           /\ \A y \in Node : tip'[y] # None => OfNext(ToSet(tip'[y]), y)
           /\ AtHome' /\ KeepsWork
<1>1. /\ Append(r, p) \in Revision /\ ToSet(Append(r, p)) = ToSet(r) \cup {p}
      /\ Append(r, p) # None
  BY AppendIs
<1> DEFINE new == Append(r, p)
<1> HIDE DEF new
<1>2. /\ tip \in [Node -> Revision \cup {None}]
      /\ tip' = [tip EXCEPT ![x] = new] /\ new \in Revision /\ ToSet(new) = ToSet(r) \cup {p}
      /\ new # None
  BY <1>1 DEF TypeOK, new
<1>3. /\ tip' \in [Node -> Revision \cup {None}]
      /\ tip'[x] = new /\ \A y \in Node : y # x => tip'[y] = tip[y]
  BY <1>2
<1>4. \A y \in Node : Exists(y) => Exists(y)'
  BY <1>2, <1>3 DEF Exists
<1>5. x \in Lower(x)
  BY LowerIs
<1>6. \A y \in Node : tip'[y] # None => OfNext(ToSet(tip'[y]), y)
  <2>1. OfNext(ToSet(new), x)
    BY <1>2, <1>5, SpareGrows DEF OfNext
  <2>2. \A y \in Node : y # x /\ Exists(y) => OfNext(ToSet(tip[y]), y)
    BY SpareGrows DEF Lineage
  <2> QED
    BY <1>3, <2>1, <2>2 DEF Exists
<1>7. Stays
  BY <1>2, <1>3 DEF Stays, Exists
<1>8. Comes
  <2>1. ASSUME NEW y \in Node, tip'[y] # None, NEW q \in ToSet(tip'[y])
        PROVE  q \in Local(tip) \/ q = p
    <3>1. CASE y = x
      BY <1>2, <1>3, <2>1, <3>1
    <3>2. CASE y # x
      BY <1>3, <2>1, <3>2 DEF Local
    <3> QED
      BY <3>1, <3>2
  <2>2. p.home \in Node /\ tip'[p.home] # None /\ p \in ToSet(tip'[p.home])
    BY <1>2, <1>3
  <2> QED
    BY <2>1, <2>2 DEF Comes, Local
<1>9. AtHome' /\ KeepsWork
  BY <1>7, <1>8, HomeStep
<1> QED
  BY <1>3, <1>4, <1>6, <1>9

LEMMA CommitStep ==
    ASSUME Inv, NEW x \in Node, Commit(x)
    PROVE  Inv' /\ KeepsWork
<1> DEFINE p == [home |-> x, n |-> made + 1]
<1>1. p \in Patch /\ p.home = x /\ made' \in Nat
  BY NewPatch DEF Inv, Counts, Commit, Making
<1>2. /\ tip' = [tip EXCEPT ![x] = Append(tip[x], p)] /\ objects' = objects \cup {p}
      /\ Exists(x) /\ Disturbs
      /\ UNCHANGED <<parent, base, recorded, tracking, main, remoteVars, pushed, waived>>
  BY DEF Commit
<1> HIDE DEF p
<1>3. tip[x] \in Revision /\ Of(ToSet(tip[x]), x) /\ \A q \in ToSet(tip[x]) : q \in Local(tip)
  BY <1>2, LocalPatches DEF Inv, Lineage, Exists, Local
<1>4. Grows
  BY <1>2 DEF Grows
<1>5. /\ tip' \in [Node -> Revision \cup {None}]
      /\ \A y \in Node : Exists(y) => Exists(y)'
      /\ \A y \in Node : tip'[y] # None => OfNext(ToSet(tip'[y]), y)
      /\ AtHome' /\ KeepsWork
  BY <1>1, <1>2, <1>3, <1>4, AppendStep DEF Inv
<1>6. Lineage'
  <2>1. \A b \in Branch : parent'[b] # None =>
           parent'[b] \in Lower(Parent[b]) /\ OfNext(ToSet(base'[b]), Parent[b])
    BY <1>2, <1>4, SpareGrows DEF Inv, Lineage
  <2> QED
    BY <1>5, <2>1, LineageNext
<1>7. Remote'
  <2>1. Exists(Trunk)'
    BY <1>5 DEF Inv, Remote, Node
  <2> QED
    BY <1>2, <1>4, <2>1, RemoteFrame DEF Inv
<1>8. /\ Work'
      /\ sync'.seen = sync.seen /\ sync'.doomed = sync.doomed /\ sync'.todo = sync.todo
  BY <1>2, <1>4, <1>5, Beside DEF Inv
<1>9. TypeOK'
  BY <1>1, <1>2, <1>5, <1>8 DEF Inv, TypeOK, remoteVars
<1> QED
  BY <1>1, <1>5, <1>6, <1>7, <1>8, <1>9 DEF Inv, Counts

LEMMA CreateStep ==
    ASSUME Inv, NEW b \in Branch, Create(b)
    PROVE  Inv' /\ KeepsWork
<1> DEFINE p == [home |-> b, n |-> made + 1]
           r == tip[Parent[b]]
<1>1. b \in Node /\ Parent[b] \in Node /\ Parent[b] # None
  BY ConstantsAssumption DEF Node
<1>2. p \in Patch /\ p.home = b /\ made' \in Nat
  BY <1>1, NewPatch DEF Inv, Counts, Create, Making
<1>3. /\ tip' = [tip EXCEPT ![b] = Append(r, p)] /\ objects' = objects \cup {p}
      /\ parent' = [parent EXCEPT ![b] = Parent[b]] /\ base' = [base EXCEPT ![b] = r]
      /\ ~Exists(b) /\ parent[b] = None /\ Exists(Parent[b]) /\ Disturbs
      /\ UNCHANGED <<recorded, tracking, main, remoteVars, pushed, waived>>
  BY DEF Create
<1> HIDE DEF p
<1>4. /\ r \in Revision /\ r # None
      /\ Of(ToSet(r), Parent[b]) /\ \A q \in ToSet(r) : q \in Local(tip)
  BY <1>1, <1>3, LocalPatches, ConstantsAssumption DEF Inv, Lineage, Exists, Local
<1> HIDE DEF r
<1>5. Grows
  BY <1>3 DEF Grows
<1>6. Of(ToSet(r), b)
  BY <1>4, LowerIs DEF Of
<1>7. /\ tip' \in [Node -> Revision \cup {None}]
      /\ \A y \in Node : Exists(y) => Exists(y)'
      /\ \A y \in Node : tip'[y] # None => OfNext(ToSet(tip'[y]), y)
      /\ AtHome' /\ KeepsWork
  BY <1>1, <1>2, <1>3, <1>4, <1>5, <1>6, AppendStep DEF Inv
<1>8. /\ parent \in [Branch -> Node \cup {None}] /\ base \in [Branch -> Revision \cup {None}]
      /\ \A c \in Branch : parent[c] = None <=> base[c] = None
  BY DEF Inv, TypeOK
<1>9. /\ parent'[b] = Parent[b] /\ base'[b] = r
      /\ \A c \in Branch : c # b => parent'[c] = parent[c] /\ base'[c] = base[c]
      /\ parent' \in [Branch -> Node \cup {None}] /\ base' \in [Branch -> Revision \cup {None}]
      /\ \A c \in Branch : parent'[c] = None <=> base'[c] = None
  BY <1>1, <1>3, <1>4, <1>8
<1>10. Lineage'
  <2>1. Parent[b] \in Lower(Parent[b])
    BY <1>1, LowerIs
  <2>2. OfNext(ToSet(r), Parent[b])
    BY <1>4, <1>5, SpareGrows
  <2>3. ASSUME NEW c \in Branch, parent'[c] # None
        PROVE  parent'[c] \in Lower(Parent[c]) /\ OfNext(ToSet(base'[c]), Parent[c])
    <3>1. CASE c = b
      BY <1>9, <2>1, <2>2, <3>1
    <3>2. CASE c # b
      BY <1>5, <1>9, <2>3, <3>2, SpareGrows DEF Inv, Lineage
    <3> QED
      BY <3>1, <3>2
  <2> QED
    BY <1>7, <2>3, LineageNext
<1>11. Remote'
  <2>1. Exists(Trunk)'
    BY <1>7 DEF Inv, Remote, Node
  <2> QED
    BY <1>3, <1>5, <2>1, RemoteFrame DEF Inv
<1>12. \A c \in sync.seen : parent'[c] = parent[c]
  BY <1>3, <1>9 DEF Inv, Work, Seen, Tracked
<1>13. /\ Work'
       /\ sync'.seen = sync.seen /\ sync'.doomed = sync.doomed /\ sync'.todo = sync.todo
  BY <1>3, <1>5, <1>7, <1>12, Beside DEF Inv
<1>14. TypeOK'
  BY <1>2, <1>3, <1>7, <1>9, <1>13 DEF Inv, TypeOK, remoteVars
<1> QED
  BY <1>2, <1>7, <1>10, <1>11, <1>13, <1>14 DEF Inv, Counts

\* What happens on the remote leaves the branches and the sync alone.
LEMMA ElsewhereStep ==
    ASSUME Inv, UNCHANGED localVars, waived' = waived, Disturbs, pushed \subseteq pushed'
    PROVE  /\ Lineage' /\ AtHome' /\ KeepsWork /\ Work'
           /\ sync'.seen = sync.seen /\ sync'.doomed = sync.doomed /\ sync'.todo = sync.todo
<1>1. UNCHANGED <<tip, parent, base>> /\ Grows
  BY DEF localVars, Grows
<1>2. \A y \in Node : Exists(y) => Exists(y)'
  BY <1>1 DEF Exists
<1> QED
  BY <1>1, <1>2, LocalFrame, Beside DEF Inv

LEMMA PushStep ==
    ASSUME Inv, NEW b \in Branch, Push(b)
    PROVE  Inv' /\ KeepsWork
<1>1. /\ Exists(b) /\ Disturbs
      /\ remote' = [remote EXCEPT ![b] = tip[b]] /\ tracking' = [tracking EXCEPT ![b] = tip[b]]
      /\ pushed' = pushed \cup ToSet(tip[b])
      /\ UNCHANGED <<localVars, objects, pr, prBase, landed, waived, made, events>>
  BY DEF Push, counters
<1>2. /\ tip[b] \in Revision /\ ToSet(tip[b]) \subseteq Patch /\ b \in Node /\ b # Trunk
  BY <1>1, LocalPatches, ConstantsAssumption DEF Inv, Exists, Node
<1> DEFINE r == tip[b]
<1>3. /\ Lineage' /\ AtHome' /\ KeepsWork /\ Work'
      /\ sync'.seen = sync.seen /\ sync'.doomed = sync.doomed /\ sync'.todo = sync.todo
  BY <1>1, ElsewhereStep
<1>4. /\ remote \in [Node -> Revision \cup {None}] /\ tracking \in [Node -> Revision \cup {None}]
      /\ remote' = [remote EXCEPT ![b] = r] /\ tracking' = [tracking EXCEPT ![b] = r]
      /\ pushed' = pushed \cup ToSet(r) /\ r \in Revision /\ ToSet(r) \subseteq Patch
  BY <1>1, <1>2 DEF Inv, TypeOK
<1> HIDE DEF r
<1>5. Remote'
  <2>1. /\ \A x \in Node : x # b => remote'[x] = remote[x] /\ tracking'[x] = tracking[x]
        /\ remote'[b] = r /\ tracking'[b] = r
    BY <1>2, <1>4
  <2>2. Local(remote') \subseteq pushed'
    BY <1>4, <2>1 DEF Inv, Remote, Local
  <2>3. Local(tracking') \subseteq pushed'
    BY <1>4, <2>1 DEF Inv, Remote, Local
  <2>4. remote'[Trunk] # None /\ tracking'[Trunk] # None /\ Exists(Trunk)'
    BY <1>1, <1>2, <2>1 DEF Inv, Remote, Node, localVars, Exists
  <2> QED
    BY <1>1, <1>4, <2>2, <2>3, <2>4 DEF Inv, Remote
<1>6. TypeOK'
  <2>1. remote' \in [Node -> Revision \cup {None}] /\ tracking' \in [Node -> Revision \cup {None}]
    BY <1>4
  <2> QED
    BY <1>1, <1>3, <1>4, <2>1 DEF Inv, TypeOK, localVars
<1> QED
  BY <1>1, <1>3, <1>5, <1>6 DEF Inv, Counts

LEMMA OthersPushStep ==
    ASSUME Inv, NEW b \in Branch, OthersPush(b)
    PROVE  Inv' /\ KeepsWork
<1> DEFINE p == [home |-> b, n |-> made + 1]
           r == Append(remote[b], p)
<1>1. b \in Node /\ b # Trunk
  BY ConstantsAssumption DEF Node
<1>2. p \in Patch /\ made' \in Nat
  BY <1>1, NewPatch DEF Inv, Counts, OthersPush, Making
<1>3. /\ remote[b] # None /\ Disturbs
      /\ remote' = [remote EXCEPT ![b] = r] /\ pushed' = pushed \cup {p}
      /\ UNCHANGED <<localVars, tracking, objects, pr, prBase, landed, waived>>
  BY DEF OthersPush
<1> HIDE DEF p
<1>4. r \in Revision /\ ToSet(r) = ToSet(remote[b]) \cup {p} /\ r # None
  <2>1. remote[b] \in Revision
    BY <1>1, <1>3 DEF Inv, TypeOK
  <2> QED
    BY <1>2, <2>1, AppendIs
<1> HIDE DEF r
<1>5. /\ Lineage' /\ AtHome' /\ KeepsWork /\ Work'
      /\ sync'.seen = sync.seen /\ sync'.doomed = sync.doomed /\ sync'.todo = sync.todo
  BY <1>3, ElsewhereStep
<1>6. /\ remote' \in [Node -> Revision \cup {None}] /\ remote'[b] = r
      /\ \A x \in Node : x # b => remote'[x] = remote[x]
  BY <1>1, <1>3, <1>4 DEF Inv, TypeOK
<1>7. Remote'
  <2>1. Local(remote') \subseteq pushed'
    BY <1>1, <1>3, <1>4, <1>6 DEF Inv, Remote, Local
  <2>2. remote'[Trunk] # None
    BY <1>1, <1>6 DEF Inv, Remote, Node
  <2> QED
    BY <1>3, <2>1, <2>2 DEF Inv, Remote, Local, localVars, Exists
<1>8. TypeOK'
  BY <1>2, <1>3, <1>5, <1>6 DEF Inv, TypeOK, localVars
<1> QED
  BY <1>2, <1>5, <1>7, <1>8 DEF Inv, Counts

LEMMA PruneStep ==
    ASSUME Inv, Prune
    PROVE  Inv' /\ KeepsWork
<1>1. /\ tracking' = remote /\ objects' = objects \cup Local(remote) /\ Disturbs
      /\ UNCHANGED <<localVars, remote, pr, prBase, landed, pushed, waived, made>>
  BY DEF Prune, remoteVars
<1>2. /\ Lineage' /\ AtHome' /\ KeepsWork /\ Work'
      /\ sync'.seen = sync.seen /\ sync'.doomed = sync.doomed /\ sync'.todo = sync.todo
  BY <1>1, ElsewhereStep
<1>3. Remote'
  BY <1>1 DEF Inv, Remote, Local, localVars, Exists
<1>4. TypeOK'
  BY <1>1, <1>2, LocalPatches DEF Inv, TypeOK, localVars
<1> QED
  BY <1>1, <1>2, <1>3, <1>4 DEF Inv, Counts

LEMMA CloseStep ==
    ASSUME Inv, NEW b \in Branch, NEW gone \in BOOLEAN, Close(b, gone)
    PROVE  Inv' /\ KeepsWork
<1>1. b \in Node /\ b # Trunk
  BY ConstantsAssumption DEF Node
<1>2. /\ pr[b] = "open" /\ pr' = [pr EXCEPT ![b] = "closed"] /\ Disturbs
      /\ remote' = [remote EXCEPT ![b] = IF gone THEN None ELSE remote[b]]
      /\ UNCHANGED <<localVars, tracking, objects, prBase, landed, pushed, waived, made>>
  BY DEF Close
<1>3. /\ Lineage' /\ AtHome' /\ KeepsWork /\ Work'
      /\ sync'.seen = sync.seen /\ sync'.doomed = sync.doomed /\ sync'.todo = sync.todo
  BY <1>2, ElsewhereStep
<1>4. /\ remote' \in [Node -> Revision \cup {None}]
      /\ \A x \in Node : remote'[x] = remote[x] \/ (x = b /\ remote'[x] = None)
  BY <1>1, <1>2 DEF Inv, TypeOK
<1>5. /\ pr' \in [Branch -> States] 
      /\ \A c \in Branch : pr'[c] # "none" => pr[c] # "none"
  BY <1>2 DEF Inv, TypeOK, States
<1>6. Remote'
  BY <1>1, <1>2, <1>4, <1>5 DEF Inv, Remote, Local, Node, localVars, Exists
<1>7. TypeOK'
  BY <1>2, <1>3, <1>4, <1>5 DEF Inv, TypeOK, localVars, States
<1> QED
  BY <1>2, <1>3, <1>6, <1>7 DEF Inv, Counts

LEMMA MergeStep ==
    ASSUME Inv, NEW b \in Branch, NEW gone \in BOOLEAN, Merge(b, gone)
    PROVE  Inv' /\ KeepsWork
<1> DEFINE into == prBase[b]
           new == Contents(remote[b]) \ Contents(remote[into])
           r == Append(remote[into], Squash(b))
<1>1. /\ pr[b] = "open" /\ remote[b] # None /\ remote[into] # None /\ Disturbs
      /\ landed' = [landed EXCEPT ![b] = new]
      /\ remote' = [x \in Node |-> IF gone /\ x = b THEN None
                                   ELSE IF x = into THEN Append(remote[x], Squash(b))
                                   ELSE remote[x]]
      /\ prBase' = [c \in Branch |-> IF gone /\ prBase[c] = b THEN into ELSE prBase[c]]
      /\ pr' = [pr EXCEPT ![b] = "merged"] /\ pushed' = pushed \cup {Squash(b)}
      /\ UNCHANGED <<localVars, tracking, objects, waived, made>>
  BY DEF Merge
<1>2. b \in Node /\ b # Trunk /\ into \in Node
  BY <1>1, ConstantsAssumption DEF Inv, Remote, Node
<1>3. Squash(b) \in Patch
  BY DEF Patch
<1>4. /\ remote \in [Node -> Revision \cup {None}]
      /\ remote[b] \in Revision /\ remote[into] \in Revision
  BY <1>1, <1>2 DEF Inv, TypeOK
<1>5. r \in Revision /\ ToSet(r) = ToSet(remote[into]) \cup {Squash(b)} /\ r # None
  BY <1>3, <1>4, AppendIs
<1>6. new \subseteq pushed
  <2>1. Contents(remote[b]) \subseteq ToSet(remote[b]) \cup pushed
    BY <1>4, ContentsIs DEF Inv
  <2>2. ToSet(remote[b]) \subseteq pushed
    BY <1>1, <1>2 DEF Inv, Remote, Local
  <2> QED
    BY <2>1, <2>2
<1> HIDE DEF into, new, r
<1>7. /\ remote' \in [Node -> Revision \cup {None}]
      /\ \A x \in Node : \/ remote'[x] = remote[x]
                         \/ remote'[x] = r /\ x = into
                         \/ remote'[x] = None /\ x = b
  BY <1>1, <1>4, <1>5 DEF r
<1>8. /\ Lineage' /\ AtHome' /\ KeepsWork /\ Work'
      /\ sync'.seen = sync.seen /\ sync'.doomed = sync.doomed /\ sync'.todo = sync.todo
  BY <1>1, ElsewhereStep
<1>9. /\ pr' \in [Branch -> States] 
      /\ \A c \in Branch : pr'[c] # "none" => pr[c] # "none"
  BY <1>1 DEF Inv, TypeOK, States
<1>10. landed' \in [Branch -> SUBSET Patch] /\ \A c \in Branch : landed'[c] \subseteq pushed'
  <2>1. pushed \subseteq Patch /\ landed \in [Branch -> SUBSET Patch]
    BY DEF Inv, TypeOK
  <2>2. \A c \in Branch : landed[c] \subseteq pushed
    BY DEF Inv, Remote
  <2> QED
    BY <1>1, <1>6, <2>1, <2>2
<1>11. Remote'
  <2>1. Local(remote') \subseteq pushed'
    <3>1. ToSet(r) \subseteq pushed'
      BY <1>1, <1>2, <1>5 DEF Inv, Remote, Local
    <3>2. ASSUME NEW x \in Node, remote'[x] # None PROVE ToSet(remote'[x]) \subseteq pushed'
      <4>1. remote[x] # None => ToSet(remote[x]) \subseteq pushed
        BY DEF Inv, Remote, Local
      <4> QED
        BY <1>1, <1>7, <3>1, <3>2, <4>1
    <3> QED
      BY <3>2 DEF Local
  <2>2. remote'[Trunk] # None
    BY <1>2, <1>5, <1>7 DEF Inv, Remote, Node
  <2>3. \A c \in Branch : pr'[c] # "none" => prBase'[c] \in Node
    BY <1>1, <1>2, <1>9 DEF Inv, Remote
  <2> QED
    BY <1>1, <1>10, <2>1, <2>2, <2>3 DEF Inv, Remote, localVars, Exists
<1>12. TypeOK'
  <2>1. prBase' \in [Branch -> Node \cup {None}]
    BY <1>1, <1>2 DEF Inv, TypeOK
  <2>2. pushed' \in SUBSET Patch
    BY <1>1, <1>3 DEF Inv, TypeOK
  <2>3. UNCHANGED <<tip, parent, base, recorded, main>>
    BY <1>1 DEF localVars
  <2> QED
    <3>1. /\ tip' \in [Node -> Revision \cup {None}] /\ tracking' \in [Node -> Revision \cup {None}]
          /\ parent' \in [Branch -> Node \cup {None}] /\ base' \in [Branch -> Revision \cup {None}]
          /\ \A c \in Branch : parent'[c] = None <=> base'[c] = None
          /\ recorded' \in [Branch -> States] /\ main' \in Branch \cup {None}
      BY <1>1, <2>3 DEF Inv, TypeOK, States
    <3>2. {objects', pushed', waived'} \subseteq SUBSET Patch
      BY <1>1, <2>2 DEF Inv, TypeOK
    <3>3. sync'.seen \subseteq Branch /\ sync'.doomed \subseteq Branch /\ sync'.todo \subseteq Node
      BY <1>8 DEF Inv, TypeOK
    <3> QED
      BY <1>7, <1>9, <1>10, <2>1, <3>1, <3>2, <3>3 DEF TypeOK, States
<1> QED
  BY <1>1, <1>8, <1>11, <1>12 DEF Inv, Counts

\* Nobody works on a branch that is deleted by hand, and it is given up.
LEMMA DeleteByHandStep ==
    ASSUME Inv, NEW b \in Branch, DeleteByHand(b)
    PROVE  Inv' /\ KeepsWork
<1>1. b \in Node /\ b # Trunk
  BY ConstantsAssumption DEF Node
<1>2. /\ Idle /\ Exists(b) /\ tip' = [tip EXCEPT ![b] = None]
      /\ waived' = waived \cup ToSet(tip[b]) /\ sync' = sync
      /\ UNCHANGED <<parent, base, recorded, tracking, objects, main, remoteVars, pushed, made>>
  BY DEF DeleteByHand, Disturbs
<1>3. /\ tip' \in [Node -> Revision \cup {None}] /\ tip'[b] = None
      /\ \A x \in Node : x # b => tip'[x] = tip[x]
  BY <1>1, <1>2 DEF Inv, TypeOK
<1>4. Grows
  BY <1>2 DEF Grows
<1>5. Stays
  BY <1>2, <1>3 DEF Stays, Exists, Spared
<1>6. Comes
  BY <1>3 DEF Comes, Local
<1>7. AtHome' /\ KeepsWork
  BY <1>4, <1>5, <1>6, HomeStep DEF Inv
<1>8. Lineage'
  <2>1. \A x \in Node : tip'[x] # None => OfNext(ToSet(tip'[x]), x)
    BY <1>3, <1>4, SpareGrows DEF Inv, Lineage, Exists
  <2>2. \A c \in Branch : parent'[c] # None =>
           parent'[c] \in Lower(Parent[c]) /\ OfNext(ToSet(base'[c]), Parent[c])
    BY <1>2, <1>4, SpareGrows DEF Inv, Lineage
  <2> QED
    BY <2>1, <2>2, LineageNext
<1>9. Remote'
  <2>1. Exists(Trunk)'
    BY <1>1, <1>3 DEF Inv, Remote, Node, Exists
  <2> QED
    BY <1>2, <1>4, <2>1, RemoteFrame DEF Inv
<1>10. Work'
  <2>1. sync' = NoSync /\ sync.pc = "idle"
    BY <1>2 DEF Inv, Work, Idle
  <2> QED
    BY <2>1 DEF Work, Seen, Judgement, NoSync, NoOrphans, Idle
<1>11. TypeOK'
  <2>1. waived' \in SUBSET Patch
    BY <1>1, <1>2, LocalPatches DEF Inv, TypeOK, Exists
  <2> QED
    BY <1>2, <1>3, <2>1 DEF Inv, TypeOK, remoteVars
<1> QED
  BY <1>2, <1>7, <1>8, <1>9, <1>10, <1>11 DEF Inv, Counts

-----------------------------------------------------------------------------
(* A sync that looks and decides.                                          *)

\* It leaves the branches alone.
LookStep ==
    UNCHANGED <<tip, parent, base, main, remote, pr, landed, pushed, waived, made>>

LEMMA LookKeeps ==
    ASSUME Inv, LookStep
    PROVE  Lineage' /\ AtHome' /\ KeepsWork /\ Counts'
<1>1. Grows
  BY DEF LookStep, Grows
<1> QED
  BY <1>1, LocalFrame DEF Inv, LookStep, Counts

\* What was judged, and what stands, is and does still.
LEMMA LookFrame ==
    ASSUME LookStep
    PROVE  /\ Tracked' = Tracked
           /\ \A s : Judged(s) => Judged(s)'
           /\ \A old : Pulling(old) => Pulling(old)'
           /\ \A x : Exists(x) => Exists(x)'
BY DEF LookStep, Tracked, Exists, Judged, Pulling

LEMMA LookRemote ==
    ASSUME Inv, LookStep, UNCHANGED <<tracking, prBase>>
    PROVE  Remote'
BY DEF Inv, LookStep, Remote, Local, Exists

\* The fields of a sync.
Fields == {"pc", "mode", "all", "calm", "got", "prs", "status", "seen", "todo", "old", "doomed", "yes",
           "moves", "moved"}

LEMMA FieldsAre == DOMAIN NoSync = Fields
BY DEF NoSync, Fields

LEMMA BeginStep ==
    ASSUME Inv, NEW m, NEW all, Begin(m, all)
    PROVE  Inv' /\ KeepsWork
<1>1. /\ LookStep /\ UNCHANGED <<recorded, tracking, objects, prBase>>
      /\ sync' = [NoSync EXCEPT !.pc = "look", !.mode = m, !.all = all, !.seen = Tracked]
  BY DEF Begin, LookStep, localVars, remoteVars
<1>2. /\ DOMAIN sync' = DOMAIN NoSync /\ sync'.pc = "look" /\ sync'.seen = Tracked
      /\ sync'.got = {} /\ sync'.todo = {} /\ sync'.old = None /\ sync'.doomed = {}
  BY <1>1 DEF NoSync
<1>3. Seen'
  BY <1>1, <1>2, LookFrame DEF Seen
<1>4. Judgement'
  BY <1>2 DEF Judgement, NoOrphans
<1>5. TypeOK'
  BY <1>1, <1>2 DEF Inv, TypeOK, LookStep, Tracked
<1> QED
  BY <1>1, <1>2, <1>3, <1>4, <1>5, LookKeeps, LookRemote DEF Inv, Work, Idle

\* The three answers come in any order; the others stay as they are.
LEMMA LookedIs ==
    ASSUME NEW r, DOMAIN r = Fields, NEW what \in {"trunk", "prs", "status"}
    PROVE  LET new == Looked(r, what)
           IN /\ DOMAIN new = Fields /\ new.got = r.got \cup {what}
              /\ new.pc = IF r.got \cup {what} = {"trunk", "prs", "status"} THEN "trunk" ELSE r.pc
              /\ new.mode = r.mode /\ new.prs = r.prs /\ new.status = r.status
              /\ new.seen = r.seen /\ new.todo = r.todo /\ new.old = r.old
              /\ new.doomed = r.doomed /\ new.yes = r.yes /\ new.moves = r.moves
BY DEF Looked, Fields

LEMMA LookingStep ==
    ASSUME Inv, LookStep, NEW what \in {"trunk", "prs", "status"}, sync.pc = "look",
           NEW r, DOMAIN r = Fields, sync' = Looked(r, what),
           r.pc = "look", r.got = sync.got, r.seen = sync.seen, r.old = sync.old,
           r.doomed = sync.doomed, r.todo \subseteq Node,
           what # "prs" => r.prs = sync.prs, what # "status" => r.status = sync.status,
           what = "prs" => DOMAIN r.prs = sync.seen /\ \A b \in sync.seen : r.prs[b].state \in States,
           what = "status" => \A b \in DOMAIN r.status : Judged(r.status[b])
    PROVE  Work' /\ sync'.seen \subseteq Branch /\ sync'.doomed \subseteq Branch /\ sync'.todo \subseteq Node
<1>1. /\ DOMAIN sync' = Fields /\ sync'.got = sync.got \cup {what}
      /\ sync'.pc = IF sync.got \cup {what} = {"trunk", "prs", "status"} THEN "trunk" ELSE "look"
      /\ sync'.prs = r.prs /\ sync'.status = r.status /\ sync'.seen = sync.seen
      /\ sync'.todo = r.todo /\ sync'.old = sync.old /\ sync'.doomed = sync.doomed
  BY LookedIs
<1>2. /\ sync.seen \subseteq Tracked /\ sync.old = None
      /\ "prs" \in sync.got =>
           DOMAIN sync.prs = sync.seen /\ \A b \in sync.seen : sync.prs[b].state \in States
      /\ "status" \in sync.got => \A b \in DOMAIN sync.status : Judged(sync.status[b])
      /\ sync.doomed \subseteq Branch
  BY DEF Inv, Work, Seen, Judgement
<1>3. sync'.pc \in {"look", "trunk"} /\ (sync'.pc = "trunk" => {"prs", "status"} \subseteq sync'.got)
  BY <1>1
<1>4. "prs" \in sync'.got =>
        DOMAIN sync'.prs = sync'.seen /\ \A b \in sync'.seen : sync'.prs[b].state \in States
  BY <1>1, <1>2
<1>5. "status" \in sync'.got => \A b \in DOMAIN sync'.status : Judged(sync'.status[b])
  <2>1. CASE what = "status"
    BY <1>1, <2>1
  <2>2. CASE what # "status"
    <3>1. sync'.status = sync.status /\ ("status" \in sync'.got => "status" \in sync.got)
      BY <1>1, <2>2
    <3> QED
      BY <1>2, <3>1, LookFrame
  <2> QED
    BY <2>1, <2>2
<1>6. Seen'
  <2>1. "status" \in sync'.got => \A b \in DOMAIN sync'.status : Judged(sync.status[b])'
    BY <1>5 DEF LookStep, Judged
  <2> QED
    BY <1>1, <1>2, <1>3, <1>4, <2>1, LookFrame DEF Seen
<1> QED
  BY <1>1, <1>2, <1>3, <1>6, FieldsAre DEF Work, Judgement, NoOrphans, Idle, Tracked

LEMMA FetchTrunkStep ==
    ASSUME Inv, FetchTrunk
    PROVE  Inv' /\ KeepsWork
<1> DEFINE r == [sync EXCEPT !.todo = {Trunk}]
<1>1. /\ LookStep /\ UNCHANGED <<recorded, prBase>>
      /\ tracking' = [tracking EXCEPT ![Trunk] = remote[Trunk]]
      /\ objects' = objects \cup ToSet(remote[Trunk])
      /\ sync.pc = "look" /\ sync' = Looked(r, "trunk")
  BY DEF FetchTrunk, Looking, LookStep, localVars, remoteVars, counters
<1>2. /\ DOMAIN r = Fields /\ r.pc = "look" /\ r.got = sync.got /\ r.seen = sync.seen
      /\ r.old = sync.old /\ r.doomed = sync.doomed /\ r.todo = {Trunk}
      /\ r.prs = sync.prs /\ r.status = sync.status
  BY <1>1, FieldsAre DEF Inv, Work, Fields
<1> HIDE DEF r
<1>3. Trunk \in Node
  BY DEF Node
<1>4. /\ Work'
      /\ sync'.seen \subseteq Branch /\ sync'.doomed \subseteq Branch /\ sync'.todo \subseteq Node
  BY <1>1, <1>2, <1>3, LookingStep
<1>5. remote[Trunk] \in Revision /\ ToSet(remote[Trunk]) \subseteq Patch
  BY <1>3, LocalPatches DEF Inv, TypeOK, Remote, Local
<1>6. /\ tracking' \in [Node -> Revision \cup {None}] /\ tracking'[Trunk] = remote[Trunk]
      /\ \A x \in Node : x # Trunk => tracking'[x] = tracking[x]
  BY <1>1, <1>3, <1>5 DEF Inv, TypeOK
<1>7. Remote'
  <2>1. \A x \in Node : tracking'[x] # None => ToSet(tracking'[x]) \subseteq pushed
    BY <1>6 DEF Inv, Remote, Local
  <2>2. Local(tracking') \subseteq pushed'
    BY <1>1, <2>1 DEF LookStep, Local
  <2> QED
    BY <1>1, <1>6, <2>2 DEF Inv, Remote, LookStep, Exists
<1>8. TypeOK'
  BY <1>1, <1>4, <1>5, <1>6 DEF Inv, TypeOK, LookStep
<1> QED
  BY <1>1, <1>4, <1>7, <1>8, LookKeeps DEF Inv

LEMMA QueryGitHubStep ==
    ASSUME Inv, QueryGitHub
    PROVE  Inv' /\ KeepsWork
<1> DEFINE prs == [b \in sync.seen |-> [state |-> pr[b], base |-> prBase[b]]]
           r == [sync EXCEPT !.prs = prs]
<1>1. /\ LookStep /\ UNCHANGED <<recorded, prBase, tracking, objects>>
      /\ sync.pc = "look" /\ sync' = Looked(r, "prs")
  BY DEF QueryGitHub, Looking, LookStep, localVars, remoteVars, counters
<1>2. DOMAIN prs = sync.seen /\ \A b \in sync.seen : prs[b].state \in States
  BY DEF Inv, TypeOK, States
<1> HIDE DEF prs
<1>3. /\ DOMAIN r = Fields /\ r.pc = "look" /\ r.got = sync.got /\ r.seen = sync.seen
      /\ r.old = sync.old /\ r.doomed = sync.doomed /\ r.todo = sync.todo
      /\ r.prs = prs /\ r.status = sync.status
  BY <1>1, FieldsAre DEF Inv, Work, Fields
<1> HIDE DEF r
<1>4. sync.todo \subseteq Node
  BY DEF Inv, TypeOK
<1>5. /\ Work'
      /\ sync'.seen \subseteq Branch /\ sync'.doomed \subseteq Branch /\ sync'.todo \subseteq Node
  BY <1>1, <1>2, <1>3, <1>4, LookingStep
<1>6. TypeOK'
  BY <1>1, <1>5 DEF Inv, TypeOK, LookStep
<1> QED
  BY <1>1, <1>5, <1>6, LookKeeps, LookRemote DEF Inv

\* A branch whose remote is where it is, or was found to be ahead of it, has
\* been pushed.
LEMMA StatusIs ==
    ASSUME Inv, NEW b \in Tracked
    PROVE  Judged(StatusOf(b))
<1> DEFINE there == IF remote[b] # None THEN remote[b] ELSE tracking[b]
           s == StatusOf(b)
<1>1. b \in Node /\ tip[b] # None /\ tip[b] \in Revision
  BY LocalPatches DEF Inv, Tracked, Node, Exists
<1>2. there # None => there \in Revision /\ ToSet(there) \subseteq pushed
  BY <1>1 DEF Inv, TypeOK, Remote, Local
<1>3. /\ s.local = tip[b] /\ s.remote = there
      /\ s.base = IF there = None \/ ~Exists(b) THEN None
                  ELSE IF Known(there) THEN MergeBase(tip[b], there) ELSE None
  BY DEF StatusOf
<1> HIDE DEF there, s
<1>4. ASSUME there # None, s.base = tip[b] \/ there = tip[b] PROVE ToSet(tip[b]) \subseteq pushed
  <2>1. CASE there = tip[b]
    BY <1>2, <1>4, <2>1
  <2>2. CASE s.base = tip[b]
    <3>1. MergeBase(tip[b], there) = tip[b]
      BY <1>1, <1>3, <1>4, <2>2
    <3>2. ToSet(MergeBase(tip[b], there)) \subseteq ToSet(there)
      BY <1>1, <1>2, <1>4, MeetIs
    <3> QED
      BY <1>2, <1>4, <3>1, <3>2
  <2> QED
    BY <1>4, <2>1, <2>2
<1> QED
  BY <1>1, <1>3, <1>4 DEF Judged, s

LEMMA ListRemoteStep ==
    ASSUME Inv, ListRemote
    PROVE  Inv' /\ KeepsWork
<1> DEFINE status == [b \in sync.seen |-> StatusOf(b)]
           r == [sync EXCEPT !.status = status]
<1>1. /\ LookStep /\ UNCHANGED <<recorded, prBase, tracking, objects>>
      /\ sync.pc = "look" /\ sync' = Looked(r, "status")
  BY DEF ListRemote, Looking, LookStep, localVars, remoteVars, counters
<1>2. \A b \in DOMAIN status : Judged(status[b])
  BY StatusIs DEF Inv, Work, Seen
<1> HIDE DEF status
<1>3. /\ DOMAIN r = Fields /\ r.pc = "look" /\ r.got = sync.got /\ r.seen = sync.seen
      /\ r.old = sync.old /\ r.doomed = sync.doomed /\ r.todo = sync.todo
      /\ r.prs = sync.prs /\ r.status = status
  BY <1>1, FieldsAre DEF Inv, Work, Fields
<1> HIDE DEF r
<1>4. sync.todo \subseteq Node
  BY DEF Inv, TypeOK
<1>5. /\ Work'
      /\ sync'.seen \subseteq Branch /\ sync'.doomed \subseteq Branch /\ sync'.todo \subseteq Node
  BY <1>1, <1>2, <1>3, <1>4, LookingStep
<1>6. TypeOK'
  BY <1>1, <1>5 DEF Inv, TypeOK, LookStep
<1> QED
  BY <1>1, <1>5, <1>6, LookKeeps, LookRemote DEF Inv

LEMMA PullReadsStep ==
    ASSUME Inv, NEW x \in Node, PullReads(x)
    PROVE  Inv' /\ KeepsWork
<1>1. /\ LookStep /\ UNCHANGED <<recorded, prBase, tracking, objects>>
      /\ sync.pc \in {"trunk", "pull"}
  BY DEF PullReads, LookStep, localVars, remoteVars, counters
<1> DEFINE old == [of |-> x, rev |-> tip[x], to |-> tracking[x]]
<1>2. \/ /\ Exists(x) /\ tracking[x] # None /\ IsAncestor(tip[x], tracking[x])
         /\ sync' = [sync EXCEPT !.todo = @ \ {x}, !.old = old]
      \/ sync' = [sync EXCEPT !.todo = @ \ {x}]
  BY DEF PullReads
<1>3. ASSUME Exists(x), tracking[x] # None, IsAncestor(tip[x], tracking[x]) PROVE Pulling(old)
  <2>1. tip[x] \in Revision /\ tracking[x] \in Revision /\ ToSet(tracking[x]) \subseteq pushed
    BY <1>3 DEF Inv, TypeOK, Remote, Local, Exists
  <2> QED
    BY <1>3, <2>1 DEF Pulling
<1> HIDE DEF old
<1>4. /\ DOMAIN sync' = DOMAIN sync /\ sync'.pc = sync.pc /\ sync'.got = sync.got
      /\ sync'.prs = sync.prs /\ sync'.status = sync.status /\ sync'.seen = sync.seen
      /\ sync'.doomed = sync.doomed /\ sync'.todo \subseteq sync.todo
      /\ sync'.old = sync.old \/ sync'.old = old
  BY <1>2 DEF Inv, Work, NoSync
<1>5. sync'.old = sync.old \/ (sync'.old = old /\ Pulling(old))
  BY <1>2, <1>3, <1>4 DEF Inv, Work, NoSync
<1>6. Seen'
  <2>1. sync'.old # None => Pulling(sync'.old)
    BY <1>5 DEF Inv, Work, Seen
  <2>2. (sync.old # None => Pulling(sync.old))'
    BY <1>1, <2>1 DEF LookStep, Pulling, Exists
  <2> QED
    BY <1>1, <1>4, <2>2, LookFrame DEF Inv, Work, Seen
<1>7. Judgement'
  BY <1>1, <1>4 DEF Inv, Work, Judgement, NoOrphans
<1>8. TypeOK'
  BY <1>1, <1>4 DEF Inv, TypeOK, LookStep
<1> QED
  BY <1>1, <1>4, <1>6, <1>7, <1>8, LookKeeps, LookRemote DEF Inv, Work, Idle

LEMMA ProcessGitHubStep ==
    ASSUME Inv, ProcessGitHub
    PROVE  Inv' /\ KeepsWork
<1> DEFINE asked == DOMAIN sync.prs
           moves == {b \in asked : sync.prs[b].state # "none" /\ sync.prs[b].base # parent[b]}
<1>1. /\ LookStep /\ UNCHANGED <<tracking, objects>>
      /\ sync.pc = "trunk" /\ sync.todo = {} /\ sync.old = None
      /\ recorded' = [b \in Branch |-> IF b \in asked THEN sync.prs[b].state ELSE recorded[b]]
      /\ prBase' = [b \in Branch |-> IF b \in moves /\ pr[b] = "open" /\ remote[parent[b]] # None
                                     THEN parent[b] ELSE prBase[b]]
      /\ sync' = [sync EXCEPT !.pc = "behind", !.seen = Tracked, !.prs = None]
  BY DEF ProcessGitHub, LookStep, counters
<1>2. /\ asked = sync.seen /\ \A b \in sync.seen : sync.prs[b].state \in States
      /\ \A b \in sync.seen : b \in Branch /\ parent[b] # None
      /\ "status" \in sync.got /\ \A b \in DOMAIN sync.status : Judged(sync.status[b])
      /\ sync.doomed \subseteq Branch
  BY <1>1 DEF Inv, Work, Seen, Judgement, Tracked
<1>3. /\ DOMAIN sync' = DOMAIN sync /\ sync'.pc = "behind" /\ sync'.seen = Tracked
      /\ sync'.got = sync.got /\ sync'.status = sync.status /\ sync'.todo = {} /\ sync'.old = None
      /\ sync'.doomed = sync.doomed
  BY <1>1 DEF Inv, Work, NoSync
<1>4. Seen'
  BY <1>1, <1>2, <1>3, LookFrame DEF Seen
<1>5. Judgement'
  BY <1>2, <1>3 DEF Judgement, NoOrphans
<1>6. \A b \in Branch : prBase'[b] = prBase[b] \/ prBase'[b] \in Node
  <2>1. \A b \in moves : parent[b] \in Node
    BY <1>2 DEF Inv, TypeOK
  <2> HIDE DEF moves
  <2> QED
    BY <1>1, <2>1
<1>7. Remote'
  BY <1>1, <1>6 DEF Inv, LookStep, Remote, Local, Exists
<1>8. TypeOK'
  <2>1. recorded' \in [Branch -> States]
    BY <1>1, <1>2 DEF Inv, TypeOK, States
  <2>2. prBase' \in [Branch -> Node \cup {None}]
    <3>1. prBase' = [b \in Branch |-> prBase'[b]]
      BY <1>1
    <3> QED
      BY <1>6, <3>1 DEF Inv, TypeOK
  <2> QED
    BY <1>1, <1>2, <1>3, <2>1, <2>2 DEF Inv, TypeOK, LookStep, States, Tracked
<1> QED
  BY <1>1, <1>3, <1>4, <1>5, <1>7, <1>8, LookKeeps DEF Inv, Work, Idle

LEMMA FetchBehindStep ==
    ASSUME Inv, FetchBehind
    PROVE  Inv' /\ KeepsWork
<1> DEFINE behind == {b \in sync.seen : Behind(Status(b)) /\ remote[b] # None}
<1>1. /\ LookStep /\ UNCHANGED <<recorded, prBase>>
      /\ sync.pc = "behind"
      /\ tracking' = [x \in Node |-> IF x \in behind THEN remote[x] ELSE tracking[x]]
      /\ objects' = objects \cup UNION {ToSet(remote[b]) : b \in behind}
      /\ sync' = [sync EXCEPT !.pc = "pull", !.todo = behind]
  BY DEF FetchBehind, LookStep, localVars, remoteVars, counters
<1>2. /\ behind \subseteq sync.seen /\ \A b \in behind : remote[b] # None
      /\ sync.seen \subseteq Tracked
  BY DEF Inv, Work, Seen
<1> HIDE DEF behind
<1>3. behind \subseteq Node /\ \A b \in behind : ToSet(remote[b]) \subseteq Patch
  BY <1>2, LocalPatches DEF Inv, Tracked, Node, Local
<1>4. /\ DOMAIN sync' = DOMAIN sync /\ sync'.pc = "pull" /\ sync'.seen = sync.seen
      /\ sync'.got = sync.got /\ sync'.status = sync.status /\ sync'.todo = behind
      /\ sync'.old = sync.old /\ sync'.doomed = sync.doomed
  BY <1>1 DEF Inv, Work, NoSync
<1>5. Seen'
  BY <1>1, <1>3, <1>4, LookFrame DEF Inv, Work, Seen
<1>6. Judgement'
  BY <1>4 DEF Inv, Work, Judgement, NoOrphans
<1>7. Remote'
  <2>1. \A x \in Node : tracking'[x] # None => ToSet(tracking'[x]) \subseteq pushed
    BY <1>1, <1>2 DEF Inv, Remote, Local
  <2>2. Local(tracking') \subseteq pushed'
    BY <1>1, <2>1 DEF LookStep, Local
  <2>3. tracking'[Trunk] # None
    BY <1>1, <1>2 DEF Node, Inv, Remote
  <2> QED
    BY <1>1, <2>2, <2>3 DEF Inv, Remote, LookStep, Exists
<1>8. TypeOK'
  <2>1. tracking' \in [Node -> Revision \cup {None}]
    BY <1>1 DEF Inv, TypeOK
  <2>2. objects' \in SUBSET Patch
    BY <1>1, <1>3 DEF Inv, TypeOK
  <2> QED
    BY <1>1, <1>3, <1>4, <2>1, <2>2 DEF Inv, TypeOK, LookStep
<1> QED
  BY <1>1, <1>4, <1>5, <1>6, <1>7, <1>8, LookKeeps DEF Inv, Work, Idle

LEMMA CrashStep ==
    ASSUME Inv, Crash
    PROVE  Inv' /\ KeepsWork
<1>1. LookStep /\ UNCHANGED <<recorded, prBase, tracking, objects>> /\ sync' = NoSync
  BY DEF Crash, LookStep, localVars, remoteVars
<1>2. Work'
  BY <1>1 DEF Work, Seen, Judgement, NoSync, NoOrphans
<1>3. TypeOK'
  BY <1>1 DEF Inv, TypeOK, LookStep, NoSync
<1> QED
  BY <1>1, <1>2, <1>3, LookKeeps, LookRemote DEF Inv

-----------------------------------------------------------------------------
(* Where the children of deleted branches go.                              *)

\* Parents that are below lead to trunk, too.
LEMMA LowerIsTree ==
    ASSUME NEW par \in [Branch -> Node], \A b \in Branch : par[b] \in Lower(Parent[b])
    PROVE  Tree(par, Branch, Trunk)
<1>1. /\ Trunk \notin Branch /\ Node = Branch \cup {Trunk} /\ Parent \in [Branch -> Node]
      /\ \A b \in Branch : Chain(b) = {b} \cup Chain(Parent[b])
      /\ \A x \in Node : Lower(x) = Chain(x) \cup {Trunk}
      /\ Chain(Trunk) = {}
  BY ConstantsAssumption, ChainIs DEF Node, Lower
<1>2. ASSUME NEW T \in SUBSET Branch, \A b \in Branch : par[b] \in T \cup {Trunk} => b \in T
      PROVE  T = Branch
  <2> DEFINE U == {b \in Branch : Chain(b) \subseteq T}
  <2>1. ASSUME NEW b \in Branch, Parent[b] \in U \cup {Trunk} PROVE b \in U
    <3>1. Chain(Parent[b]) \subseteq T
      BY <1>1, <2>1
    <3>2. par[b] \in T \cup {Trunk}
      BY <1>1, <3>1
    <3> QED
      BY <1>1, <1>2, <3>1, <3>2
  <2>2. U = Branch
    <3>1. U \in SUBSET Branch
      OBVIOUS
    <3> HIDE DEF U
    <3> QED
      BY <2>1, <3>1, ConstantsAssumption DEF Rooted
  <2> QED
    BY <1>1, <2>2
<1> QED
  BY <1>1, <1>2 DEF Tree

\* What a sync knows that a branch can be on: branches, ghosts and trunk.
Grounds == sync.seen \cup Ghosts \cup {Trunk}

LEMMA GroundsAre ==
    ASSUME Inv
    PROVE  /\ \A b \in sync.seen : parent[b] \in Grounds /\ parent[b] \in Node
           /\ \A x \in Grounds : x \in Ghosts \/ Exists(x)
           /\ Ghosts \subseteq Branch /\ Ghosts \cap sync.seen = {}
BY DEF Inv, TypeOK, Work, Seen, Remote, Grounds, Ghosts, Tracked, Node

LEMMA NearestIs ==
    ASSUME Inv, NEW D, D \subseteq sync.seen, NEW x \in Node, x \in Grounds
    PROVE  Nearest(x, D) \in Lower(x) /\ Nearest(x, D) \in Grounds
<1> DEFINE par == [b \in Branch |-> IF b \in sync.seen THEN parent[b] ELSE Trunk]
           F == [b \in Branch |-> [y \in Node |-> IF b \notin D THEN b ELSE y]]
           IsUp(u) == u = [y \in Node |-> IF y \notin D THEN y
                                         ELSE u[IF y \in sync.seen THEN parent[y] ELSE Trunk]]
           up == CHOOSE u : IsUp(u)
<1>1. /\ Trunk \notin Branch /\ Node = Branch \cup {Trunk} /\ Trunk \in Node
      /\ Parent \in [Branch -> Node] /\ D \subseteq Branch
      /\ \A b \in sync.seen : b \in Branch /\ parent[b] # None
  BY ConstantsAssumption DEF Node, Inv, Work, Seen, Tracked
<1>2. \A b \in Branch : par[b] \in Node /\ par[b] \in Lower(Parent[b])
  BY <1>1, LowerIs, GroundsAre DEF Inv, Lineage
<1>3. \A b \in Branch : par[b] = IF b \in sync.seen THEN parent[b] ELSE Trunk
  OBVIOUS
<1>4. par \in [Branch -> Node]
  BY <1>2
<1> HIDE DEF par
<1>5. Tree(par, Branch, Trunk)
  BY <1>2, <1>4, LowerIsTree
<1>6. F \in Steps(Branch, Node)
  BY <1>1 DEF Steps
<1>7. \A b \in Branch, y \in Node : F[b][y] = IF b \notin D THEN b ELSE y
  BY <1>1
<1> HIDE DEF F
<1>8. PICK f : Recursion(f, par, Branch, Trunk, Node, Trunk, F)
  BY <1>1, <1>5, <1>6, RootRecursion
<1>9. /\ f \in [Node -> Node] /\ f[Trunk] = Trunk
      /\ \A b \in Branch : f[b] = IF b \notin D THEN b ELSE f[par[b]]
  BY <1>1, <1>2, <1>7, <1>8 DEF Recursion
<1>10. IsUp(f)
  BY <1>1, <1>3, <1>9
<1>11. IsUp(up)
  <2> HIDE DEF IsUp
  <2> QED
    BY <1>10
<1>12. Nearest(x, D) = up[x]
  BY DEF Nearest
<1> HIDE DEF up
<1>13. up[Trunk] = Trunk /\ \A b \in Branch : up[b] = IF b \notin D THEN b ELSE up[par[b]]
  BY <1>1, <1>3, <1>11
<1> DEFINE T == {b \in Branch : up[b] \in Lower(b) /\ (b \in Grounds => up[b] \in Grounds)}
<1>14. ASSUME NEW b \in Branch, par[b] \in T \cup {Trunk} PROVE b \in T
  <2>1. CASE b \notin D
    BY <1>13, <2>1, LowerIs
  <2>2. CASE b \in D
    <3>1. par[b] = parent[b] /\ par[b] \in Grounds /\ up[b] = up[par[b]]
      BY <1>3, <1>13, <2>2, GroundsAre
    <3>2. up[par[b]] \in Lower(par[b]) /\ up[par[b]] \in Grounds
      <4>1. Trunk \in Lower(Trunk) /\ Trunk \in Grounds
        BY <1>1, LowerIs DEF Grounds
      <4> QED
        BY <1>13, <1>14, <3>1, <4>1
    <3>3. Lower(par[b]) \subseteq Lower(Parent[b]) /\ Lower(Parent[b]) \subseteq Lower(b)
      BY <1>1, <1>2, LowerIs
    <3> QED
      BY <3>1, <3>2, <3>3
  <2> QED
    BY <2>1, <2>2
<1>15. T = Branch
  <2>1. T \in SUBSET Branch
    OBVIOUS
  <2> HIDE DEF T
  <2> QED
    BY <1>5, <1>14, <2>1 DEF Tree
<1>16. up[Trunk] \in Lower(Trunk) /\ up[Trunk] \in Grounds
  BY <1>1, <1>13, LowerIs DEF Grounds
<1> QED
  BY <1>1, <1>12, <1>15, <1>16

\* What is not ahead of the remote as it was seen, nor apart from it, was there.
LEMMA NothingUnpushed ==
    ASSUME Inv, sync.pc \in {"pull", "prompt"}, NEW b, ~Unpushed(b), Status(b).remote # None
    PROVE  ToSet(Status(b).local) \subseteq pushed
<1> DEFINE s == Status(b)
<1>1. b \in DOMAIN sync.status
  BY DEF Status, NoStatus
<1>2. Judged(s)
  BY <1>1 DEF Inv, Work, Seen, Status
<1>3. ~Ahead(s) /\ ~Diverged(s) /\ s.remote # None
  BY DEF Unpushed
<1> HIDE DEF s
<1>4. s.local # None
  BY <1>2, ConstantsAssumption DEF Judged
<1>5. s.remote = s.local \/ s.base = s.local
  BY <1>3, <1>4 DEF Ahead, Diverged, Differ
<1> QED
  BY <1>2, <1>3, <1>5 DEF Judged, s

LEMMA DecidingStep ==
    ASSUME Inv, LookStep, sync.pc \in {"pull", "prompt"}, sync.old = None, NEW D, NEW yes,
           D \subseteq sync.seen, \A b \in D : b \in yes \/ ~Unpushed(b),
           sync' = Deciding(sync, D, yes)
    PROVE  Work' /\ sync'.seen = sync.seen /\ sync'.doomed \subseteq Branch /\ sync'.todo = sync.todo
<1> DEFINE status == [b \in D |-> Status(b)]
           moves == MovesPast(D)
<1>1. /\ DOMAIN sync' = DOMAIN sync /\ sync'.pc = "reparent" /\ sync'.seen = sync.seen
      /\ sync'.todo = sync.todo /\ sync'.old = sync.old /\ sync'.got = sync.got
      /\ sync'.doomed = D \cup Ghosts /\ sync'.yes = yes /\ sync'.moves = moves
      /\ sync'.status = status
  BY DEF Deciding, Inv, Work, NoSync
<1>2. \A b \in sync.seen : b \in Branch /\ parent[b] # None
  BY DEF Inv, Work, Seen, Tracked
<1>3. \A x \in Grounds : x \in sync'.doomed \/ Exists(x)'
  BY <1>1, GroundsAre DEF LookStep, Exists
<1>4. \A m \in moves : m.of \in sync.seen /\ m.to \in Lower(Parent[m.of]) /\ m.to \in Grounds
  <2> SUFFICES ASSUME NEW b \in sync.seen, NEW m,
                      m.of = b, m.to = Nearest(parent[b], D)
               PROVE  m.of \in sync.seen /\ m.to \in Lower(Parent[m.of]) /\ m.to \in Grounds
    BY DEF MovesPast
  <2>1. parent[b] \in Node /\ parent[b] \in Grounds /\ parent[b] \in Lower(Parent[b]) /\ Parent[b] \in Node
    BY <1>2, GroundsAre, ConstantsAssumption DEF Inv, Lineage
  <2>2. Nearest(parent[b], D) \in Lower(parent[b]) /\ Nearest(parent[b], D) \in Grounds
    BY <2>1, NearestIs
  <2> QED
    BY <2>1, <2>2, LowerIs
<1> HIDE DEF moves
<1>5. ASSUME NEW b \in D \cup Ghosts
      PROVE  b \in yes \/ Status(b)'.remote = None \/ ToSet(Status(b)'.local) \subseteq pushed
  <2>1. Status(b)' = IF b \in D THEN Status(b) ELSE NoStatus
    BY <1>1 DEF Status, NoStatus
  <2>2. CASE b \in D
    BY <2>1, <2>2, NothingUnpushed
  <2>3. CASE b \notin D
    BY <2>1, <2>3 DEF NoStatus
  <2> QED
    BY <2>2, <2>3
<1>6. Seen'
  <2>1. sync.seen \subseteq Tracked' /\ sync.todo \subseteq Node
    BY LookFrame DEF Inv, Work, Seen
  <2>2. sync'.old = None
    BY <1>1
  <2> QED
    BY <1>1, <2>1, <2>2 DEF Seen
<1>7. Judgement'
  <2>1. sync'.doomed \subseteq Branch
    BY <1>1, <1>2, GroundsAre
  <2>2. \A b \in sync'.doomed : MayGo(b)'
    BY <1>1, <1>5 DEF MayGo, LookStep
  <2>3. \A m \in sync'.moves : m.of \in sync'.seen /\ m.to \in Lower(Parent[m.of]) /\ Standing(m.to)'
    BY <1>1, <1>3, <1>4 DEF Standing
  <2>4. \A b \in sync'.seen : Standing(parent[b])'
    BY <1>1, <1>3, GroundsAre DEF Standing, LookStep
  <2> QED
    BY <1>1, <2>1, <2>2, <2>3, <2>4 DEF Judgement, NoOrphans
<1> QED
  BY <1>1, <1>6, <1>7 DEF Work, Inv, Idle, Judgement

LEMMA PlanDeletionsStep ==
    ASSUME Inv, PlanDeletions
    PROVE  Inv' /\ KeepsWork
<1> DEFINE D == {b \in sync.seen : DeletionKind(b) # "none"}
<1>1. /\ LookStep /\ UNCHANGED <<recorded, prBase, tracking, objects>>
      /\ sync.pc = "pull" /\ sync.old = None
      /\ sync' = IF sync.mode = "prompt" /\ D \cup Ghosts # {}
                 THEN [sync EXCEPT !.pc = "prompt", !.doomed = D]
                 ELSE Deciding(sync, {b \in D : ~Unpushed(b)}, {})
  BY DEF PlanDeletions, LookStep, localVars, remoteVars, counters
<1>2. D \subseteq sync.seen /\ sync.seen \subseteq Branch
  BY DEF Inv, TypeOK
<1> HIDE DEF D
<1>3. /\ Work'
      /\ sync'.seen = sync.seen /\ sync'.doomed \subseteq Branch /\ sync'.todo = sync.todo
  <2>1. CASE sync' = [sync EXCEPT !.pc = "prompt", !.doomed = D]
    <3>1. /\ DOMAIN sync' = DOMAIN sync /\ sync'.pc = "prompt" /\ sync'.seen = sync.seen
          /\ sync'.todo = sync.todo /\ sync'.old = None /\ sync'.got = sync.got
          /\ sync'.doomed = D /\ sync'.status = sync.status
      BY <1>1, <2>1 DEF Inv, Work, NoSync
    <3>2. Seen'
      BY <1>1, <3>1, LookFrame DEF Inv, Work, Seen
    <3>3. Judgement'
      BY <1>2, <3>1 DEF Judgement, NoOrphans
    <3> QED
      BY <1>2, <3>1, <3>2, <3>3 DEF Inv, Work, Idle
  <2>2. CASE sync' = Deciding(sync, {b \in D : ~Unpushed(b)}, {})
    <3> DEFINE E == {b \in D : ~Unpushed(b)}
    <3>1. E \subseteq sync.seen /\ \A b \in E : ~Unpushed(b)
      BY <1>2
    <3>2. sync' = Deciding(sync, E, {})
      BY <2>2
    <3> HIDE DEF E
    <3> QED
      BY <1>1, <3>1, <3>2, DecidingStep
  <2> QED
    BY <1>1, <2>1, <2>2
<1>4. TypeOK'
  BY <1>1, <1>3 DEF Inv, TypeOK, LookStep
<1> QED
  BY <1>1, <1>3, <1>4, LookKeeps, LookRemote DEF Inv

LEMMA AnswerStep ==
    ASSUME Inv, NEW yes, Answer(yes)
    PROVE  Inv' /\ KeepsWork
<1>1. /\ LookStep /\ UNCHANGED <<recorded, prBase, tracking, objects>>
      /\ sync.pc = "prompt" /\ yes \subseteq sync.doomed /\ sync' = Deciding(sync, yes, yes)
  BY DEF Answer, LookStep, localVars, remoteVars, counters
<1>2. yes \subseteq sync.seen /\ sync.old = None
  BY <1>1 DEF Inv, Work, Judgement, Seen
<1>3. /\ Work'
      /\ sync'.seen = sync.seen /\ sync'.doomed \subseteq Branch /\ sync'.todo = sync.todo
  BY <1>1, <1>2, DecidingStep
<1>4. TypeOK'
  BY <1>1, <1>3 DEF Inv, TypeOK, LookStep
<1> QED
  BY <1>1, <1>3, <1>4, LookKeeps, LookRemote DEF Inv

-----------------------------------------------------------------------------
(* A sync that moves, reparents and deletes.                               *)

LEMMA NoSyncIs == ASSUME sync' = NoSync PROVE Work'
BY DEF Work, Seen, Judgement, NoSync, NoOrphans

LEMMA PullWritesStep ==
    ASSUME Inv, PullWrites
    PROVE  Inv' /\ KeepsWork
<1> DEFINE x == sync.old.of
           to == sync.old.to
           rev == sync.old.rev
<1>1. /\ sync.old # None
      /\ tip' = [tip EXCEPT ![x] = to]
      /\ waived' = waived \cup (ToSet(tip[x]) \ ToSet(rev))
      /\ sync' = [sync EXCEPT !.old = None]
      /\ UNCHANGED <<parent, base, recorded, main, tracking, objects, remoteVars, pushed, made>>
  BY DEF PullWrites, counters
<1>2. /\ x \in Node /\ rev \in Revision /\ to \in Revision /\ to # None
      /\ ToSet(rev) \subseteq ToSet(to) /\ ToSet(to) \subseteq pushed
  BY <1>1, AncestorSet, ConstantsAssumption DEF Inv, Work, Seen, Pulling, Revision
<1>3. /\ DOMAIN sync' = DOMAIN sync /\ sync'.pc = sync.pc /\ sync'.got = sync.got
      /\ sync'.prs = sync.prs /\ sync'.status = sync.status /\ sync'.seen = sync.seen
      /\ sync'.doomed = sync.doomed /\ sync'.todo = sync.todo /\ sync'.old = None
      /\ sync'.yes = sync.yes /\ sync'.moves = sync.moves /\ ~Idle
  BY <1>1, ConstantsAssumption DEF Inv, Work, NoSync
<1> HIDE DEF x, to, rev
<1>4. /\ tip' \in [Node -> Revision \cup {None}] /\ tip'[x] = to
      /\ \A y \in Node : y # x => tip'[y] = tip[y]
  BY <1>1, <1>2 DEF Inv, TypeOK
<1>5. Grows
  BY <1>1 DEF Grows
<1>6. Stays
  BY <1>1, <1>2, <1>4 DEF Stays, Spared, Exists
<1>7. Comes
  <2>1. ASSUME NEW y \in Node, tip'[y] # None, NEW p \in ToSet(tip'[y])
        PROVE  p \in Local(tip) \/ p \in pushed
    BY <1>2, <1>4, <2>1 DEF Local
  <2> QED
    BY <1>1, <2>1 DEF Comes, Local, Spared
<1>8. AtHome' /\ KeepsWork
  BY <1>5, <1>6, <1>7, HomeStep DEF Inv
<1>9. Lineage'
  <2>1. \A y \in Node : tip'[y] # None => OfNext(ToSet(tip'[y]), y)
    <3>1. OfNext(ToSet(to), x)
      BY <1>1, <1>2 DEF OfNext, Spared
    <3>2. \A y \in Node : y # x /\ tip[y] # None => OfNext(ToSet(tip[y]), y)
      BY <1>5, SpareGrows DEF Inv, Lineage, Exists
    <3> QED
      BY <1>4, <3>1, <3>2
  <2>2. \A c \in Branch : parent'[c] # None =>
           parent'[c] \in Lower(Parent[c]) /\ OfNext(ToSet(base'[c]), Parent[c])
    BY <1>1, <1>5, SpareGrows DEF Inv, Lineage
  <2> QED
    BY <2>1, <2>2, LineageNext
<1>10. \A y \in Node : Exists(y) => Exists(y)'
  BY <1>2, <1>4 DEF Exists
<1>11. Remote'
  <2>1. Exists(Trunk)'
    BY <1>10 DEF Inv, Remote, Node
  <2> QED
    BY <1>1, <1>5, <2>1, RemoteFrame DEF Inv
<1>12. Work'
  <2>1. \A b \in sync.seen : b \in Tracked /\ b \in Tracked' /\ parent[b] \in Node
    BY <1>1, <1>10 DEF Inv, Work, Seen, Tracked, TypeOK, Node
  <2>2. \A s : Judged(s) => Judged(s)'
    BY <1>1 DEF Judged
  <2>3. Seen'
    BY <1>3, <2>1, <2>2 DEF Inv, Work, Seen
  <2>4. Judgement'
    BY <1>1, <1>3, <1>5, <1>10, <2>1, JudgementFrame DEF Inv, Work
  <2> QED
    BY <1>3, <2>3, <2>4 DEF Inv, Work, Idle
<1>13. TypeOK'
  <2>1. waived' \in SUBSET Patch
    <3>1. tip[x] # None => ToSet(tip[x]) \subseteq Patch
      BY <1>2, LocalPatches DEF Inv
    <3>2. tip[x] # None
      BY <1>1, ConstantsAssumption DEF Inv, Work, Seen, Pulling, Exists, x
    <3> QED
      BY <1>1, <3>1, <3>2 DEF Inv, TypeOK
  <2> QED
    BY <1>1, <1>3, <1>4, <2>1 DEF Inv, TypeOK, remoteVars
<1> QED
  BY <1>1, <1>8, <1>9, <1>11, <1>12, <1>13 DEF Inv, Counts

LEMMA ResetTrunkStep ==
    ASSUME Inv, ResetTrunk
    PROVE  Inv' /\ KeepsWork
<1> DEFINE to == tracking[Trunk]
<1>1. /\ sync.pc = "trunk" /\ tip' = [tip EXCEPT ![Trunk] = to]
      /\ waived' = waived \cup ToSet(tip[Trunk])
      /\ sync' = [sync EXCEPT !.todo = {}]
      /\ UNCHANGED <<parent, base, recorded, main, tracking, objects, remoteVars, pushed, made>>
  BY DEF ResetTrunk, counters
<1>2. /\ Trunk \in Node /\ to \in Revision /\ to # None /\ ToSet(to) \subseteq pushed
  BY DEF Inv, TypeOK, Remote, Local, Node
<1>3. /\ DOMAIN sync' = DOMAIN sync /\ sync'.pc = sync.pc /\ sync'.got = sync.got
      /\ sync'.prs = sync.prs /\ sync'.status = sync.status /\ sync'.seen = sync.seen
      /\ sync'.doomed = sync.doomed /\ sync'.todo = {} /\ sync'.old = sync.old
      /\ sync'.yes = sync.yes /\ sync'.moves = sync.moves
  BY <1>1 DEF Inv, Work, NoSync
<1> HIDE DEF to
<1>4. /\ tip' \in [Node -> Revision \cup {None}] /\ tip'[Trunk] = to
      /\ \A y \in Node : y # Trunk => tip'[y] = tip[y]
  BY <1>1, <1>2 DEF Inv, TypeOK
<1>5. Grows
  BY <1>1 DEF Grows
<1>6. Stays
  BY <1>1, <1>4 DEF Stays, Spared, Exists
<1>7. Comes
  <2>1. ASSUME NEW y \in Node, tip'[y] # None, NEW p \in ToSet(tip'[y])
        PROVE  p \in Local(tip) \/ p \in pushed
    BY <1>2, <1>4, <2>1 DEF Local
  <2> QED
    BY <1>1, <2>1 DEF Comes, Local, Spared
<1>8. AtHome' /\ KeepsWork
  BY <1>5, <1>6, <1>7, HomeStep DEF Inv
<1>9. Lineage'
  <2>1. \A y \in Node : tip'[y] # None => OfNext(ToSet(tip'[y]), y)
    <3>1. OfNext(ToSet(to), Trunk)
      BY <1>1, <1>2 DEF OfNext, Spared
    <3>2. \A y \in Node : y # Trunk /\ tip[y] # None => OfNext(ToSet(tip[y]), y)
      BY <1>5, SpareGrows DEF Inv, Lineage, Exists
    <3> QED
      BY <1>4, <3>1, <3>2
  <2>2. \A c \in Branch : parent'[c] # None =>
           parent'[c] \in Lower(Parent[c]) /\ OfNext(ToSet(base'[c]), Parent[c])
    BY <1>1, <1>5, SpareGrows DEF Inv, Lineage
  <2> QED
    BY <2>1, <2>2, LineageNext
<1>10. \A y \in Node : Exists(y) => Exists(y)'
  BY <1>2, <1>4 DEF Exists
<1>11. Remote'
  <2>1. Exists(Trunk)'
    BY <1>10 DEF Inv, Remote, Node
  <2> QED
    BY <1>1, <1>5, <2>1, RemoteFrame DEF Inv
<1>12. Work'
  <2>1. \A b \in sync.seen : b \in Tracked /\ b \in Tracked'
    BY <1>1, <1>10 DEF Inv, Work, Seen, Tracked, TypeOK, Node
  <2>2. \A s : Judged(s) => Judged(s)'
    BY <1>1 DEF Judged
  <2>3. \A old : Pulling(old) => Pulling(old)'
    BY <1>1, <1>10 DEF Pulling
  <2>4. Seen'
    BY <1>3, <2>1, <2>2, <2>3 DEF Inv, Work, Seen
  <2>5. Judgement'
    BY <1>1, <1>3 DEF Inv, Work, Judgement, NoOrphans
  <2> QED
    BY <1>1, <1>3, <2>4, <2>5 DEF Inv, Work, Idle
<1>13. TypeOK'
  <2>1. waived' \in SUBSET Patch
    BY <1>1, <1>2, LocalPatches DEF Inv, TypeOK, Remote, Exists
  <2> QED
    BY <1>1, <1>3, <1>4, <2>1 DEF Inv, TypeOK, remoteVars
<1> QED
  BY <1>1, <1>8, <1>9, <1>11, <1>12, <1>13 DEF Inv, Counts

\* A new base is on the branch, and on the new parent.
LEMMA NewBaseIs ==
    ASSUME Inv, NEW b \in Branch, NEW to \in Node, NEW keep, keep \/ Exists(to),
           Exists(b), base[b] # None
    PROVE  /\ NewBase(b, to, keep) \in Revision
           /\ \/ NewBase(b, to, keep) = base[b]
              \/ Exists(to) /\ ToSet(NewBase(b, to, keep)) \subseteq ToSet(tip[to])
<1>1. base[b] \in Revision
  BY LocalPatches DEF Inv
<1>2. CASE Exists(to)
  <2>1. tip[b] \in Revision /\ tip[to] \in Revision
    BY <1>2, LocalPatches DEF Inv, Exists, Node
  <2>2. /\ MergeBase(tip[b], tip[to]) \in Revision
        /\ ToSet(MergeBase(tip[b], tip[to])) \subseteq ToSet(tip[to])
    BY <2>1, MeetIs
  <2>3. NewBase(b, to, keep) \in {base[b], MergeBase(tip[b], tip[to])}
    BY DEF NewBase
  <2> QED
    BY <1>1, <1>2, <2>2, <2>3
<1>3. CASE keep
  BY <1>1, <1>3 DEF NewBase
<1> QED
  BY <1>2, <1>3

LEMMA ReparentStep ==
    ASSUME Inv, NEW m \in sync.moves, Reparent(m)
    PROVE  Inv' /\ KeepsWork
<1>1. CASE LookStep /\ UNCHANGED <<recorded, prBase, tracking, objects>> /\ sync' = NoSync
  <2>1. TypeOK'
    BY <1>1 DEF Inv, TypeOK, LookStep, NoSync
  <2> QED
    BY <1>1, <2>1, NoSyncIs, LookKeeps, LookRemote DEF Inv
<1>2. CASE /\ Exists(m.to) \/ m.keep
           /\ parent' = [parent EXCEPT ![m.of] = m.to]
           /\ base' = [base EXCEPT ![m.of] = NewBase(m.of, m.to, m.keep)]
           /\ sync' = [sync EXCEPT !.moves = @ \ {m}]
  <2> DEFINE b == m.of
             to == m.to
             new == NewBase(m.of, m.to, m.keep)
  <2>1. /\ UNCHANGED <<tip, recorded, main, tracking, objects, remoteVars, pushed, waived, made>>
        /\ sync.pc = "reparent"
    BY DEF Reparent, counters
  <2>2. b \in sync.seen /\ to \in Lower(Parent[b]) /\ Standing(to)
    BY <2>1 DEF Inv, Work, Judgement
  <2>3. /\ b \in Branch /\ Exists(b) /\ parent[b] # None /\ base[b] # None
        /\ Parent[b] \in Node /\ to \in Node /\ to # None
    BY <2>2, LowerIs, ConstantsAssumption DEF Inv, Work, Seen, Tracked, TypeOK
  <2>4. /\ new \in Revision /\ new # None
        /\ new = base[b] \/ (Exists(to) /\ ToSet(new) \subseteq ToSet(tip[to]))
    <3>1. m.keep \/ Exists(m.to)
      BY <1>2
    <3> QED
      BY <2>3, <3>1, NewBaseIs, ConstantsAssumption
  <2>5. Of(ToSet(new), Parent[b])
    <3>1. CASE new = base[b]
      BY <2>3, <3>1 DEF Inv, Lineage
    <3>2. CASE Exists(to) /\ ToSet(new) \subseteq ToSet(tip[to])
      <4>1. Of(ToSet(tip[to]), to) /\ Lower(to) \subseteq Lower(Parent[b])
        BY <2>2, <2>3, <3>2, LowerIs DEF Inv, Lineage
      <4> QED
        BY <3>2, <4>1 DEF Of
    <3> QED
      BY <2>4, <3>1, <3>2
  <2>6. /\ DOMAIN sync' = DOMAIN sync /\ sync'.pc = sync.pc /\ sync'.got = sync.got
        /\ sync'.prs = sync.prs /\ sync'.status = sync.status /\ sync'.seen = sync.seen
        /\ sync'.doomed = sync.doomed /\ sync'.todo = sync.todo /\ sync'.old = sync.old
        /\ sync'.yes = sync.yes /\ sync'.moves \subseteq sync.moves
    BY <1>2 DEF Inv, Work, NoSync
  <2>7. parent' = [parent EXCEPT ![b] = to] /\ base' = [base EXCEPT ![b] = new]
    BY <1>2
  <2> HIDE DEF b, to, new
  <2>8. /\ parent \in [Branch -> Node \cup {None}] /\ base \in [Branch -> Revision \cup {None}]
        /\ \A c \in Branch : parent[c] = None <=> base[c] = None
    BY DEF Inv, TypeOK
  <2>9. /\ parent' \in [Branch -> Node \cup {None}] /\ base' \in [Branch -> Revision \cup {None}]
        /\ parent'[b] = to /\ base'[b] = new
        /\ \A c \in Branch : c # b => parent'[c] = parent[c] /\ base'[c] = base[c]
        /\ \A c \in Branch : parent'[c] = None <=> base'[c] = None
    BY <2>3, <2>4, <2>7, <2>8
  <2>10. Grows /\ \A S, x : Of(S, x) => OfNext(S, x)
    BY <2>1, SpareGrows DEF Grows
  <2>11. Stays /\ Comes
    BY <2>1 DEF Stays, Comes, Exists
  <2>12. AtHome' /\ KeepsWork
    BY <2>10, <2>11, HomeStep DEF Inv
  <2>13. Lineage'
    <3>1. \A x \in Node : tip'[x] # None => OfNext(ToSet(tip'[x]), x)
      BY <2>1, <2>10 DEF Inv, Lineage, Exists
    <3>2. ASSUME NEW c \in Branch, parent'[c] # None
          PROVE  parent'[c] \in Lower(Parent[c]) /\ OfNext(ToSet(base'[c]), Parent[c])
      <4>1. CASE c = b
        BY <2>2, <2>5, <2>9, <2>10, <4>1
      <4>2. CASE c # b
        BY <2>9, <2>10, <3>2, <4>2 DEF Inv, Lineage
      <4> QED
        BY <4>1, <4>2
    <3> QED
      BY <3>1, <3>2, LineageNext
  <2>14. Remote'
    BY <2>1, <2>10, RemoteFrame DEF Inv, Remote, Exists
  <2>15. Work'
    <3>1. \A c \in sync.seen : c \in Tracked'
      BY <2>1, <2>3, <2>9 DEF Inv, Work, Seen, Tracked, Exists
    <3>2. \A s : Judged(s) => Judged(s)'
      BY <2>1 DEF Judged
    <3>3. \A old : Pulling(old) => Pulling(old)'
      BY <2>1 DEF Pulling, Exists
    <3>4. Seen'
      BY <2>6, <3>1, <3>2, <3>3 DEF Inv, Work, Seen
    <3>5. /\ \A x : Standing(x) => Standing(x)'
          /\ \A c : MayGo(c) => MayGo(c)'
      BY <2>1, <2>6 DEF Standing, MayGo, Status, Exists
    <3>6. \A c \in sync.seen : c \in Branch /\ Standing(parent[c])
      BY <2>1 DEF Inv, Work, Judgement, Seen, Tracked
    <3>7. \A c \in sync.seen : Standing(parent'[c])
      BY <2>2, <2>9, <3>6
    <3>8. \A c \in sync'.seen : Standing(parent[c])'
      BY <2>1, <2>6, <3>7 DEF Standing, Exists
    <3>9. Judgement'
      BY <2>1, <2>6, <3>5, <3>8 DEF Inv, Work, Judgement, NoOrphans
    <3> QED
      BY <2>1, <2>6, <3>4, <3>9 DEF Inv, Work, Idle
  <2>16. TypeOK'
    BY <2>1, <2>6, <2>9 DEF Inv, TypeOK, remoteVars
  <2> QED
    BY <2>1, <2>12, <2>13, <2>14, <2>15, <2>16 DEF Inv, Counts
<1> QED
  BY <1>1, <1>2 DEF Reparent, LookStep, localVars, remoteVars, counters

\* Only what was to be deleted, and is there, can be declined.
LEMMA DeclinedIs ==
    ASSUME Inv
    PROVE  Declined \subseteq sync.doomed \cap sync.seen
<1> DEFINE S == sync.doomed \cap sync.seen
           par == [b \in Branch |-> IF b \in S THEN parent[b] ELSE Trunk]
           F == [b \in Branch |-> [v \in SUBSET Branch |-> IF b \in S THEN {b} \cup v ELSE {}]]
           IsDown(d) == d = [x \in Node |-> IF x \in S THEN {x} \cup d[parent[x]] ELSE {}]
           down == CHOOSE d : IsDown(d)
<1>1. /\ Trunk \notin Branch /\ Node = Branch \cup {Trunk} /\ Trunk \in Node /\ S \subseteq Branch
      /\ Parent \in [Branch -> Node]
      /\ \A b \in S : b \in sync.seen /\ parent[b] # None
  BY ConstantsAssumption DEF Node, Inv, Work, Seen, Tracked
<1> HIDE DEF S
<1>2. \A b \in Branch : par[b] \in Node /\ par[b] \in Lower(Parent[b])
  BY <1>1, LowerIs, GroundsAre DEF Inv, Lineage
<1>3. \A b \in Branch : par[b] = IF b \in S THEN parent[b] ELSE Trunk
  OBVIOUS
<1>4. par \in [Branch -> Node]
  BY <1>2
<1> HIDE DEF par
<1>5. Tree(par, Branch, Trunk)
  BY <1>2, <1>4, LowerIsTree
<1>6. F \in Steps(Branch, SUBSET Branch)
  BY <1>1 DEF Steps
<1>7. \A b \in Branch, v \in SUBSET Branch : F[b][v] = IF b \in S THEN {b} \cup v ELSE {}
  OBVIOUS
<1> HIDE DEF F
<1>8. PICK f : Recursion(f, par, Branch, Trunk, SUBSET Branch, {}, F)
  BY <1>5, <1>6, RootRecursion
<1>9. /\ f \in [Node -> SUBSET Branch] /\ f[Trunk] = {}
      /\ \A b \in Branch : f[b] = IF b \in S THEN {b} \cup f[par[b]] ELSE {}
  <2>1. /\ f \in [Node -> SUBSET Branch] /\ f[Trunk] = {}
        /\ \A b \in Branch : f[b] = F[b][f[par[b]]]
    BY <1>1, <1>8 DEF Recursion
  <2>2. \A b \in Branch : f[par[b]] \in SUBSET Branch
    BY <1>2, <2>1
  <2> QED
    BY <1>7, <2>1, <2>2
<1>10. IsDown(f)
  BY <1>1, <1>3, <1>9
<1>11. IsDown(down)
  <2> HIDE DEF IsDown
  <2> QED
    BY <1>10
<1>12. Declined = IF main = None THEN {} ELSE down[main]
  BY DEF Declined, S
<1> HIDE DEF down
<1>13. down[Trunk] = {} /\ \A b \in Branch : down[b] = IF b \in S THEN {b} \cup down[par[b]] ELSE {}
  BY <1>1, <1>3, <1>11
<1> DEFINE T == {b \in Branch : down[b] \subseteq S}
<1>14. ASSUME NEW b \in Branch, par[b] \in T \cup {Trunk} PROVE b \in T
  BY <1>13, <1>14
<1>15. T = Branch
  <2>1. T \in SUBSET Branch
    OBVIOUS
  <2> HIDE DEF T
  <2> QED
    BY <1>5, <1>14, <2>1 DEF Tree
<1> QED
  BY <1>12, <1>15 DEF Inv, TypeOK, S

\* What a branch has when it goes was seen to be on the remote, was given up,
\* or is given up now.
LEMMA DeleteBranchesStep ==
    ASSUME Inv, DeleteBranches
    PROVE  Inv' /\ KeepsWork
<1> DEFINE gone == sync.doomed \ Declined
           given(b) == IF b \in sync.yes \/ Status(b).remote = None THEN ToSet(tip[b])
                       ELSE ToSet(tip[b]) \ ToSet(Status(b).local)
<1>1. /\ sync.pc = "reparent"
      /\ tip' = [x \in Node |-> IF x \in gone THEN None ELSE tip[x]]
      /\ parent' = [b \in Branch |-> IF b \in gone THEN None ELSE parent[b]]
      /\ base' = [b \in Branch |-> IF b \in gone THEN None ELSE base[b]]
      /\ recorded' = [b \in Branch |-> IF b \in gone THEN "none" ELSE recorded[b]]
      /\ waived' = waived \cup UNION {given(b) : b \in {c \in gone : Exists(c)}}
      /\ sync' = [sync EXCEPT !.pc = "adopt", !.doomed = gone, !.seen = @ \ gone, !.status = None,
                              !.yes = {}]
      /\ UNCHANGED <<main, tracking, objects, remoteVars, pushed, made>>
  BY DEF DeleteBranches, counters
<1>2. /\ gone \subseteq sync.doomed /\ sync.doomed \subseteq Branch /\ sync.doomed \subseteq gone \cup sync.seen
      /\ sync.seen \subseteq Tracked /\ sync.old = None
      /\ Trunk \notin gone /\ Trunk \in Node /\ Branch \subseteq Node
  BY <1>1, DeclinedIs, ConstantsAssumption DEF Inv, Work, Judgement, Seen, Node
<1>3. \A b \in gone : ToSet(tip[b]) \subseteq given(b) \cup pushed
  BY <1>1, <1>2 DEF Inv, Work, Judgement, MayGo
<1>4. \A b \in gone : given(b) \subseteq ToSet(tip[b])
  OBVIOUS
<1>5. /\ DOMAIN sync' = DOMAIN sync /\ sync'.pc = "adopt" /\ sync'.seen = sync.seen \ gone
      /\ sync'.doomed = gone /\ sync'.old = None /\ sync'.got = sync.got /\ sync'.todo = sync.todo
  BY <1>1, <1>2 DEF Inv, Work, NoSync
<1> HIDE DEF gone, given
<1>6. /\ tip' \in [Node -> Revision \cup {None}]
      /\ \A x \in Node : tip'[x] = None \/ tip'[x] = tip[x]
      /\ \A x \in Node : x \notin gone => tip'[x] = tip[x]
  BY <1>1 DEF Inv, TypeOK
<1>7. Grows
  BY <1>1 DEF Grows
<1>8. Stays
  <2> SUFFICES ASSUME NEW x \in Node, Exists(x), NEW p \in ToSet(tip[x])
               PROVE  p \in Spared' \/ (tip'[x] # None /\ p \in ToSet(tip'[x]))
    BY DEF Stays
  <2>1. CASE x \in gone
    BY <1>1, <1>3, <2>1 DEF Spared
  <2>2. CASE x \notin gone
    BY <1>6, <2>2 DEF Exists
  <2> QED
    BY <2>1, <2>2
<1>9. Comes
  BY <1>6 DEF Comes, Local
<1>10. AtHome' /\ KeepsWork
  BY <1>7, <1>8, <1>9, HomeStep DEF Inv
<1>11. Lineage'
  <2>1. \A x \in Node : tip'[x] # None => OfNext(ToSet(tip'[x]), x)
    BY <1>6, <1>7, SpareGrows DEF Inv, Lineage, Exists
  <2>2. \A c \in Branch : parent'[c] # None =>
           parent'[c] \in Lower(Parent[c]) /\ OfNext(ToSet(base'[c]), Parent[c])
    BY <1>1, <1>7, SpareGrows DEF Inv, Lineage
  <2> QED
    BY <2>1, <2>2, LineageNext
<1>12. Remote'
  <2>1. Exists(Trunk)'
    BY <1>2, <1>6 DEF Inv, Remote, Exists
  <2> QED
    BY <1>1, <1>7, <2>1, RemoteFrame DEF Inv
<1>13. Work'
  <2>1. sync'.seen \subseteq Tracked'
    BY <1>1, <1>2, <1>5, <1>6 DEF Tracked, Exists
  <2>2. Seen'
    BY <1>5, <2>1 DEF Inv, Work, Seen
  <2>3. ASSUME NEW b \in sync'.seen PROVE Standing(parent[b])'
    <3>1. b \in sync.seen /\ b \in Branch /\ parent'[b] = parent[b]
      BY <1>1, <1>2, <1>5 DEF Tracked
    <3>2. parent[b] \in Node /\ Standing(parent[b])
      BY <1>1, <3>1, GroundsAre DEF Inv, Work, Judgement
    <3>3. parent[b] \in gone \/ Exists(parent[b])
      BY <1>2, <3>2 DEF Standing, Tracked
    <3>4. parent[b] \in gone \/ tip'[parent[b]] # None
      BY <1>6, <3>2, <3>3 DEF Exists
    <3> QED
      BY <1>5, <3>1, <3>4 DEF Standing, Exists
  <2>4. Judgement'
    BY <1>2, <1>5, <2>3 DEF Judgement, NoOrphans
  <2> QED
    BY <1>5, <2>2, <2>4 DEF Inv, Work, Idle
<1>14. TypeOK'
  <2>1. waived' \in SUBSET Patch
    <3>1. \A b \in gone : Exists(b) => given(b) \subseteq Patch
      BY <1>2, <1>4, LocalPatches DEF Inv, Exists
    <3> QED
      BY <1>1, <3>1 DEF Inv, TypeOK
  <2>2. /\ parent' \in [Branch -> Node \cup {None}] /\ base' \in [Branch -> Revision \cup {None}]
        /\ \A b \in Branch : parent'[b] = None <=> base'[b] = None
        /\ recorded' \in [Branch -> States]
    BY <1>1 DEF Inv, TypeOK, States
  <2>3. sync'.seen \subseteq Branch /\ sync'.doomed \subseteq Branch /\ sync'.todo \subseteq Node
    BY <1>2, <1>5 DEF Inv, TypeOK
  <2> QED
    BY <1>1, <1>6, <2>1, <2>2, <2>3 DEF Inv, TypeOK, remoteVars, States
<1> QED
  BY <1>1, <1>10, <1>11, <1>12, <1>13, <1>14 DEF Inv, Counts

LEMMA AdoptChildrenStep ==
    ASSUME Inv, AdoptChildren
    PROVE  Inv' /\ KeepsWork
<1>1. /\ sync.pc = "adopt"
      /\ parent' = [b \in Branch |-> IF b \in sync.seen /\ parent[b] \in sync.doomed THEN Trunk
                                     ELSE parent[b]]
      /\ sync' = [sync EXCEPT !.pc = "restack", !.doomed = {}]
      /\ UNCHANGED <<tip, base, recorded, main, tracking, objects, remoteVars, pushed, waived, made>>
  BY DEF AdoptChildren, counters
<1>2. /\ sync.doomed \subseteq Branch /\ sync.old = None /\ sync.seen \subseteq Branch
      /\ \A b \in sync.seen : parent[b] \in Node /\ Standing(parent[b])
      /\ Exists(Trunk) /\ Trunk \in Node /\ None \notin Branch /\ Trunk # None
      /\ parent \in [Branch -> Node \cup {None}]
  BY <1>1, GroundsAre, ConstantsAssumption
     DEF Inv, TypeOK, Work, Judgement, Seen, Tracked, Remote, Node
<1>3. /\ DOMAIN sync' = DOMAIN sync /\ sync'.pc = "restack" /\ sync'.seen = sync.seen
      /\ sync'.doomed = {} /\ sync'.old = None /\ sync'.got = sync.got /\ sync'.todo = sync.todo
  BY <1>1, <1>2 DEF Inv, Work, NoSync
<1>4. /\ parent' \in [Branch -> Node \cup {None}]
      /\ \A b \in Branch : parent'[b] = None <=> parent[b] = None
      /\ \A b \in Branch : parent'[b] \in {Trunk, parent[b]}
      /\ \A b \in sync.seen : Exists(parent'[b])
  BY <1>1, <1>2 DEF Standing
<1>5. Grows /\ Stays /\ Comes
  BY <1>1 DEF Grows, Stays, Comes, Exists
<1>6. AtHome' /\ KeepsWork
  BY <1>5, HomeStep DEF Inv
<1>7. Lineage'
  <2>1. \A x \in Node : tip'[x] # None => OfNext(ToSet(tip'[x]), x)
    BY <1>1, <1>5, SpareGrows DEF Inv, Lineage, Exists
  <2>2. \A c \in Branch : parent'[c] # None =>
           parent'[c] \in Lower(Parent[c]) /\ OfNext(ToSet(base'[c]), Parent[c])
    <3>1. \A c \in Branch : Trunk \in Lower(Parent[c])
      BY LowerIs, ConstantsAssumption
    <3> QED
      BY <1>1, <1>4, <1>5, <3>1, SpareGrows DEF Inv, Lineage
  <2> QED
    BY <2>1, <2>2, LineageNext
<1>8. Remote'
  BY <1>1, <1>2, <1>5, RemoteFrame DEF Inv, Exists
<1>9. Work'
  <2>1. sync'.seen \subseteq Tracked'
    BY <1>1, <1>3, <1>4 DEF Inv, Work, Seen, Tracked, Exists
  <2>2. Seen'
    BY <1>3, <2>1 DEF Inv, Work, Seen
  <2>3. Judgement'
    BY <1>1, <1>3, <1>4 DEF Judgement, NoOrphans, Exists
  <2> QED
    BY <1>3, <2>2, <2>3 DEF Inv, Work, Idle
<1>10. TypeOK'
  BY <1>1, <1>3, <1>4 DEF Inv, TypeOK, remoteVars
<1> QED
  BY <1>1, <1>6, <1>7, <1>8, <1>9, <1>10 DEF Inv, Counts

-----------------------------------------------------------------------------
(* A sync that restacks.                                                   *)

\* Where a branch's own commits begin there are none of them.
LEMMA OldUpstreamIs ==
    ASSUME Inv, NEW b \in Tracked, Exists(parent[b])
    PROVE  /\ OldUpstream(b) \in Revision /\ Of(ToSet(OldUpstream(b)), Parent[b])
           /\ parent[b] \in Node /\ Parent[b] \in Node /\ Lower(parent[b]) \subseteq Lower(Parent[b])
<1>1. b \in Branch /\ b \in Node /\ Exists(b) /\ parent[b] # None /\ parent[b] \in Node /\ base[b] # None
  BY DEF Inv, TypeOK, Tracked, Node
<1>2. /\ tip[b] \in Revision /\ tip[parent[b]] \in Revision /\ base[b] \in Revision
      /\ Of(ToSet(tip[parent[b]]), parent[b]) /\ Of(ToSet(base[b]), Parent[b])
      /\ parent[b] \in Lower(Parent[b])
  BY <1>1, LocalPatches DEF Inv, Lineage, Exists
<1>3. Parent[b] \in Node /\ Lower(parent[b]) \subseteq Lower(Parent[b])
  BY <1>1, <1>2, LowerIs, ConstantsAssumption
<1> DEFINE meet == MergeBase(tip[b], tip[parent[b]])
<1>4. meet \in Revision /\ ToSet(meet) \subseteq ToSet(tip[parent[b]])
  BY <1>2, MeetIs
<1>5. OldUpstream(b) = base[b] \/ OldUpstream(b) = meet
  BY DEF OldUpstream
<1> HIDE DEF meet
<1>6. Of(ToSet(meet), Parent[b])
  BY <1>2, <1>3, <1>4 DEF Of
<1> QED
  BY <1>1, <1>2, <1>3, <1>4, <1>5, <1>6

\* On the rebased parent a branch has its own commits and what is below.
Restacked(x, r) ==
    IF Exists(x) THEN /\ r \in Revision /\ Of(ToSet(r), x) /\ ToSet(r) \subseteq Local(tip)
                      /\ \A p \in ToSet(tip[x]) : p.home = x => p \in Spared \/ p \in ToSet(r)
    ELSE r = None

LEMMA RestackedIs ==
    ASSUME Inv, NEW b \in Tracked, Exists(parent[b]), NEW onto, Restacked(parent[b], onto)
    PROVE  Restacked(b, Rebased(onto, OldUpstream(b), tip[b]))
<1> DEFINE old == OldUpstream(b)
           new == Rebased(onto, old, tip[b])
<1>1. b \in Branch /\ b \in Node /\ Exists(b)
  BY DEF Tracked, Node
<1>2. /\ old \in Revision /\ Of(ToSet(old), Parent[b])
      /\ parent[b] \in Node /\ Parent[b] \in Node /\ Lower(parent[b]) \subseteq Lower(Parent[b])
  BY OldUpstreamIs
<1>3. tip[b] \in Revision /\ Of(ToSet(tip[b]), b) /\ ToSet(tip[b]) \subseteq Local(tip)
  BY <1>1, LocalPatches DEF Inv, Lineage, Exists, Local
<1>4. onto \in Revision /\ Of(ToSet(onto), parent[b]) /\ ToSet(onto) \subseteq Local(tip)
  BY DEF Restacked
<1> HIDE DEF old
<1>5. /\ new \in Revision
      /\ ToSet(new) \subseteq ToSet(onto) \cup ToSet(tip[b])
      /\ ToSet(tip[b]) \subseteq ToSet(new) \cup ToSet(old) \cup pushed
  BY <1>2, <1>3, <1>4, RebasedIs DEF Inv
<1> HIDE DEF new
<1>6. Lower(Parent[b]) \subseteq Lower(b) /\ b \notin Lower(Parent[b])
  BY <1>1, LowerIs
<1>7. Of(ToSet(new), b)
  BY <1>2, <1>3, <1>4, <1>5, <1>6 DEF Of
<1>8. ASSUME NEW p \in ToSet(tip[b]), p.home = b PROVE p \in Spared \/ p \in ToSet(new)
  BY <1>2, <1>5, <1>6, <1>8 DEF Of, Spared
<1>9. ToSet(new) \subseteq Local(tip)
  BY <1>3, <1>4, <1>5
<1>10. Restacked(b, new)
  BY <1>1, <1>5, <1>7, <1>8, <1>9 DEF Restacked
<1> QED
  BY <1>10 DEF new, old

\* The branches on those that a sync has moved are branches that it has seen.
Moving == IF sync.all THEN sync.seen ELSE Upstack(sync.moved)

LEMMA RestackIs ==
    ASSUME Inv, Restack
    PROVE  /\ tip' = [x \in Node |->
                        IF x \in Moving /\ Exists(parent[x])
                        THEN Rebased(tip'[parent[x]], OldUpstream(x), tip[x]) ELSE tip[x]]
           /\ base' = [b \in Branch |->
                        IF b \in Moving /\ Exists(parent[b]) THEN tip'[parent[b]] ELSE base[b]]
           /\ \A b \in Moving : b \in Tracked /\ parent[b] \in Node /\ parent[b] \in Lower(Parent[b])
<1> DEFINE S == Moving
           N == Revision \cup {None}
           Moves(b) == b \in S /\ Exists(parent[b])
           par == [b \in Branch |-> IF Moves(b) THEN parent[b] ELSE Trunk]
           New(b, v) == IF Moves(b) /\ v # None THEN Rebased(v, OldUpstream(b), tip[b]) ELSE tip[b]
           F == [b \in Branch |-> [v \in N |-> New(b, v)]]
           IsNew(f) == f = [x \in Node |-> IF x \in S /\ Exists(parent[x])
                                           THEN Rebased(f[parent[x]], OldUpstream(x), tip[x])
                                           ELSE tip[x]]
           new == CHOOSE f : IsNew(f)
<1>1. \A b \in S : b \in Tracked /\ parent[b] \in Node /\ parent[b] \in Lower(Parent[b])
  <2>1. S \subseteq sync.seen
    BY DEF Moving, Upstack
  <2> QED
    BY <2>1, GroundsAre DEF Inv, Work, Seen, Lineage, Tracked
<1>2. /\ Trunk \notin Branch /\ Node = Branch \cup {Trunk} /\ Trunk \in Node /\ S \subseteq Branch
      /\ tip \in [Node -> N]
      /\ Parent \in [Branch -> Node]
  BY <1>1, ConstantsAssumption DEF Node, Inv, TypeOK, Tracked
<1>3. tip' = new /\ base' = [b \in Branch |-> IF b \in S /\ Exists(parent[b]) THEN new[parent[b]] ELSE base[b]]
  BY DEF Restack, Moving
<1> HIDE DEF S, N
<1>4. \A b \in Branch : par[b] \in Node /\ par[b] \in Lower(Parent[b])
  BY <1>1, <1>2, LowerIs
<1>5. \A b \in Branch : par[b] = IF Moves(b) THEN parent[b] ELSE Trunk
  OBVIOUS
<1>6. par \in [Branch -> Node]
  BY <1>4
<1> HIDE DEF par
<1>7. Tree(par, Branch, Trunk)
  BY <1>4, <1>6, LowerIsTree
<1>8. ASSUME NEW b \in Branch, NEW v \in N
      PROVE  New(b, v) \in N /\ (New(b, v) = None <=> tip[b] = None)
  <2>1. CASE Moves(b) /\ v # None
    <3>1. /\ b \in Tracked /\ tip[b] # None /\ tip[b] \in Revision /\ v \in Revision
          /\ OldUpstream(b) \in Revision
      BY <1>1, <1>2, <2>1, OldUpstreamIs DEF N, Tracked, Exists
    <3>2. Rebased(v, OldUpstream(b), tip[b]) \in Revision
      BY <3>1, RebasedIs DEF Inv
    <3> QED
      BY <2>1, <3>1, <3>2, ConstantsAssumption DEF N
  <2>2. CASE ~(Moves(b) /\ v # None)
    BY <1>2, <2>2
  <2> QED
    BY <2>1, <2>2
<1>9. F \in Steps(Branch, N)
  <2> HIDE DEF New
  <2> QED
    BY <1>8 DEF Steps
<1>10. \A b \in Branch, v \in N : F[b][v] = New(b, v)
  OBVIOUS
<1> HIDE DEF F
<1>11. PICK f : Recursion(f, par, Branch, Trunk, N, tip[Trunk], F)
  BY <1>2, <1>7, <1>9, RootRecursion
<1>12. /\ f \in [Node -> N] /\ f[Trunk] = tip[Trunk]
       /\ \A b \in Branch : f[b] = New(b, f[par[b]]) /\ (f[b] = None <=> tip[b] = None)
  <2>1. /\ f \in [Node -> N] /\ f[Trunk] = tip[Trunk]
        /\ \A b \in Branch : f[b] = F[b][f[par[b]]]
    BY <1>2, <1>11 DEF Recursion
  <2>2. \A b \in Branch : f[par[b]] \in N
    BY <1>4, <2>1
  <2> HIDE DEF New
  <2> QED
    BY <1>8, <1>10, <2>1, <2>2
<1>13. \A x \in Node : f[x] = None <=> tip[x] = None
  BY <1>2, <1>12
<1>14. IsNew(f)
  <2>1. ASSUME NEW x \in Node
        PROVE  f[x] = IF Moves(x) THEN Rebased(f[parent[x]], OldUpstream(x), tip[x]) ELSE tip[x]
    <3>1. CASE Moves(x)
      <4>1. x \in Branch /\ par[x] = parent[x] /\ f[parent[x]] # None
        BY <1>1, <1>2, <1>5, <1>13, <3>1 DEF Exists
      <4> QED
        BY <1>12, <3>1, <4>1
    <3>2. CASE ~Moves(x)
      BY <1>2, <1>12, <3>2
    <3> QED
      BY <3>1, <3>2
  <2>2. f = [x \in Node |-> f[x]]
    BY <1>12
  <2> QED
    BY <2>1, <2>2
<1>15. IsNew(new)
  <2> HIDE DEF IsNew
  <2> QED
    BY <1>14
<1> HIDE DEF new
<1> QED
  BY <1>1, <1>3, <1>15 DEF S

LEMMA RestackStep ==
    ASSUME Inv, Restack
    PROVE  Inv' /\ KeepsWork
<1>1. /\ tip' = [x \in Node |->
                  IF x \in Moving /\ Exists(parent[x])
                  THEN Rebased(tip'[parent[x]], OldUpstream(x), tip[x]) ELSE tip[x]]
      /\ base' = [b \in Branch |->
                  IF b \in Moving /\ Exists(parent[b]) THEN tip'[parent[b]] ELSE base[b]]
      /\ \A b \in Moving : b \in Tracked /\ parent[b] \in Node /\ parent[b] \in Lower(Parent[b])
  BY RestackIs
<1>2. /\ sync' = NoSync
      /\ UNCHANGED <<parent, recorded, main, tracking, objects, remoteVars, pushed, waived, made>>
  BY DEF Restack, counters
<1>3. Trunk \notin Branch /\ Node = Branch \cup {Trunk} /\ Moving \subseteq Branch /\ Parent \in [Branch -> Node]
  BY <1>1, ConstantsAssumption DEF Node, Tracked
<1>4. \A x \in Node : Restacked(x, tip[x])
  BY LocalPatches DEF Inv, Lineage, Restacked, Exists, Local
<1>5. \A x \in Node : Restacked(x, tip'[x])
  <2> DEFINE par == [b \in Branch |-> IF b \in Moving THEN parent[b] ELSE Trunk]
             T == {b \in Branch : Restacked(b, tip'[b])}
  <2>1. \A b \in Branch : par[b] \in Node /\ par[b] \in Lower(Parent[b])
    BY <1>1, <1>3, LowerIs
  <2>2. \A b \in Moving : par[b] = parent[b]
    BY <1>3
  <2>3. par \in [Branch -> Node]
    BY <2>1
  <2> HIDE DEF par
  <2>4. Tree(par, Branch, Trunk)
    BY <2>1, <2>3, LowerIsTree
  <2>5. Restacked(Trunk, tip'[Trunk])
    BY <1>1, <1>3, <1>4
  <2>6. ASSUME NEW b \in Branch, par[b] \in T \cup {Trunk} PROVE Restacked(b, tip'[b])
    <3>1. CASE b \in Moving /\ Exists(parent[b])
      <4>1. Restacked(parent[b], tip'[parent[b]])
        BY <2>2, <2>5, <2>6, <3>1
      <4>2. tip'[b] = Rebased(tip'[parent[b]], OldUpstream(b), tip[b])
        BY <1>1, <1>3, <3>1
      <4> QED
        BY <1>1, <3>1, <4>1, <4>2, RestackedIs
    <3>2. CASE ~(b \in Moving /\ Exists(parent[b]))
      BY <1>1, <1>3, <1>4, <3>2
    <3> QED
      BY <3>1, <3>2
  <2>7. T = Branch
    <3>1. T \in SUBSET Branch /\ \A b \in Branch : Restacked(b, tip'[b]) => b \in T
      OBVIOUS
    <3> HIDE DEF T
    <3> QED
      BY <2>4, <2>6, <3>1 DEF Tree
  <2> QED
    BY <1>3, <2>5, <2>7
<1>6. /\ \A x \in Node : /\ (tip'[x] = None <=> tip[x] = None) /\ (tip'[x] # None => tip'[x] \in Revision)
                         /\ tip'[x] # None => Of(ToSet(tip'[x]), x) /\ ToSet(tip'[x]) \subseteq Local(tip)
      /\ \A x \in Node : tip[x] # None =>
            \A p \in ToSet(tip[x]) : p.home = x => p \in Spared \/ p \in ToSet(tip'[x])
  BY <1>5, ConstantsAssumption DEF Restacked, Exists
<1>7. Grows /\ Spared' = Spared
  BY <1>2 DEF Grows, Spared
<1>8. Stays
  BY <1>6, <1>7 DEF Stays, Exists
<1>9. Comes
  BY <1>6 DEF Comes, Local
<1>10. AtHome' /\ KeepsWork
  BY <1>7, <1>8, <1>9, HomeStep DEF Inv
<1>11. ASSUME NEW b \in Branch
       PROVE  /\ base'[b] \in Revision \cup {None} /\ (parent'[b] = None <=> base'[b] = None)
              /\ parent'[b] # None => Of(ToSet(base'[b]), Parent[b])
  <2>1. CASE b \in Moving /\ Exists(parent[b])
    <3>1. base'[b] = tip'[parent[b]] /\ parent[b] \in Node /\ parent[b] # None /\ Parent[b] \in Node
      BY <1>1, <1>3, <2>1 DEF Tracked
    <3>2. base'[b] # None /\ base'[b] \in Revision /\ Of(ToSet(base'[b]), parent[b])
      BY <1>6, <2>1, <3>1 DEF Exists
    <3>3. Lower(parent[b]) \subseteq Lower(Parent[b])
      BY <1>1, <2>1, <3>1, LowerIs
    <3> QED
      BY <1>2, <3>1, <3>2, <3>3 DEF Of
  <2>2. CASE ~(b \in Moving /\ Exists(parent[b]))
    BY <1>1, <1>2, <2>2 DEF Inv, TypeOK, Lineage
  <2> QED
    BY <2>1, <2>2
<1>12. Lineage'
  <2>1. \A x \in Node : tip'[x] # None => OfNext(ToSet(tip'[x]), x)
    BY <1>6, <1>7, SpareGrows
  <2>2. \A c \in Branch : parent'[c] # None =>
           parent'[c] \in Lower(Parent[c]) /\ OfNext(ToSet(base'[c]), Parent[c])
    BY <1>2, <1>7, <1>11, SpareGrows DEF Inv, Lineage
  <2> QED
    BY <2>1, <2>2, LineageNext
<1>13. Remote'
  <2>1. Exists(Trunk)'
    BY <1>3, <1>6 DEF Inv, Remote, Exists
  <2> QED
    BY <1>2, <1>7, <2>1, RemoteFrame DEF Inv
<1>14. TypeOK'
  <2>1. tip' \in [Node -> Revision \cup {None}]
    <3>1. tip' = [x \in Node |-> tip'[x]]
      BY <1>1
    <3> QED
      BY <1>6, <3>1
  <2>2. base' \in [Branch -> Revision \cup {None}]
    <3>1. base' = [b \in Branch |-> base'[b]]
      BY <1>1
    <3> QED
      BY <1>11, <3>1
  <2> QED
    BY <1>2, <1>11, <2>1, <2>2 DEF Inv, TypeOK, remoteVars, NoSync
<1> QED
  BY <1>2, <1>10, <1>12, <1>13, <1>14, NoSyncIs DEF Inv, Counts

-----------------------------------------------------------------------------
(* The invariant holds.                                                    *)

LEMMA InvInit == Init => Inv
<1> SUFFICES ASSUME Init PROVE Inv
  OBVIOUS
<1> DEFINE own(x) == [home |-> x, n |-> 1]
           IsAt(f) == f = [x \in Node |-> IF x = Trunk THEN <<own(Trunk)>>
                                          ELSE Append(f[Parent[x]], own(x))]
           at == CHOOSE f : IsAt(f)
           first == Branch \ Created
           F == [b \in Branch |-> [r \in Revision |-> Append(r, own(b))]]
<1>1. /\ tip = [x \in Node |-> IF x \in Created THEN None ELSE at[x]]
      /\ parent = [b \in Branch |-> IF b \in first THEN Parent[b] ELSE None]
      /\ base = [b \in Branch |-> IF b \in first THEN at[Parent[b]] ELSE None]
      /\ recorded = [b \in Branch |-> IF b \in first THEN "open" ELSE "none"]
      /\ tracking = tip /\ remote = tip /\ objects = Local(tip) /\ pushed = Local(tip)
      /\ main \in Mains /\ pr = recorded /\ prBase = parent
      /\ landed = [b \in Branch |-> {}] /\ waived = {} /\ sync = NoSync /\ made = 1
  BY DEF Init
<1>2. /\ Trunk \notin Branch /\ Node = Branch \cup {Trunk} /\ Trunk \in Node /\ Created \subseteq Branch
      /\ Parent \in [Branch -> Node] /\ None \notin Node /\ None \notin Revision
      /\ Mains \subseteq Branch \cup {None}
  BY ConstantsAssumption DEF Node
<1>3. \A x \in Node : own(x) \in Patch /\ own(x).home = x
  <2>1. 1 \in 1 .. MaxPatches + 1
    BY ConstantsAssumption
  <2> QED
    BY <2>1 DEF Patch
<1> HIDE DEF own
<1>4. <<own(Trunk)>> \in Revision /\ ToSet(<<own(Trunk)>>) = {own(Trunk)}
  BY <1>2, <1>3 DEF Revision, ToSet
<1>5. \A r \in Revision, x \in Node : /\ Append(r, own(x)) \in Revision
                                      /\ ToSet(Append(r, own(x))) = ToSet(r) \cup {own(x)}
  BY <1>3, AppendIs
<1>6. F \in Steps(Branch, Revision)
  BY <1>2, <1>5 DEF Steps
<1>7. \A b \in Branch, r \in Revision : F[b][r] = Append(r, own(b))
  OBVIOUS
<1> HIDE DEF F
<1>8. PICK f : Recursion(f, Parent, Branch, Trunk, Revision, <<own(Trunk)>>, F)
  BY <1>4, <1>6, ParentIsTree, RootRecursion
<1>9. /\ f \in [Node -> Revision] /\ f[Trunk] = <<own(Trunk)>>
      /\ \A b \in Branch : f[b] = Append(f[Parent[b]], own(b))
  <2>1. /\ f \in [Node -> Revision] /\ f[Trunk] = <<own(Trunk)>>
        /\ \A b \in Branch : f[b] = F[b][f[Parent[b]]]
    BY <1>2, <1>8 DEF Recursion
  <2> QED
    BY <1>2, <1>7, <2>1
<1>10. IsAt(f)
  BY <1>2, <1>9
<1>11. IsAt(at)
  <2> HIDE DEF IsAt
  <2> QED
    BY <1>10
<1> HIDE DEF at
<1>12. at[Trunk] = <<own(Trunk)>> /\ \A b \in Branch : at[b] = Append(at[Parent[b]], own(b))
  BY <1>2, <1>11
<1>13. \A x \in Node : at[x] \in Revision /\ \A p \in ToSet(at[x]) : p.home \in Lower(x)
  <2> DEFINE Good(x) == at[x] \in Revision /\ \A p \in ToSet(at[x]) : p.home \in Lower(x)
             T == {b \in Branch : Good(b)}
  <2>1. Good(Trunk)
    BY <1>2, <1>3, <1>4, <1>12, LowerIs
  <2>2. ASSUME NEW b \in Branch, Good(Parent[b]) PROVE Good(b)
    <3>1. Parent[b] \in Node /\ b \in Node /\ at[b] = Append(at[Parent[b]], own(b))
      BY <1>2, <1>12
    <3>2. at[b] \in Revision /\ ToSet(at[b]) = ToSet(at[Parent[b]]) \cup {own(b)}
      BY <1>5, <2>2, <3>1
    <3>3. own(b).home \in Lower(b) /\ Lower(Parent[b]) \subseteq Lower(b)
      BY <1>3, <3>1, LowerIs
    <3> QED
      BY <2>2, <3>2, <3>3
  <2> HIDE DEF Good
  <2>3. T = Branch
    <3>1. T \in SUBSET Branch /\ \A b \in Branch : Parent[b] \in T \cup {Trunk} => b \in T
      BY <2>1, <2>2
    <3> HIDE DEF T
    <3> QED
      BY <3>1, ConstantsAssumption DEF Rooted
  <2> QED
    BY <1>2, <2>1, <2>3 DEF Good
<1>14. tip \in [Node -> Revision \cup {None}] /\ Exists(Trunk)
  BY <1>1, <1>2, <1>13 DEF Exists
<1>15. \A x \in Node : tip[x] # None => ToSet(tip[x]) \subseteq pushed
  BY <1>1 DEF Local
<1>16. /\ parent \in [Branch -> Node \cup {None}] /\ base \in [Branch -> Revision \cup {None}]
       /\ \A b \in Branch : parent[b] = None <=> base[b] = None
       /\ \A b \in Branch : parent[b] # None => parent[b] = Parent[b] /\ base[b] = at[Parent[b]]
       /\ recorded \in [Branch -> States]
       /\ \A b \in Branch : recorded[b] # "none" => parent[b] \in Node
  BY <1>1, <1>2, <1>13 DEF States
<1>17. TypeOK
  <2>1. Local(tip) \subseteq Patch
    <3>1. \A r \in Revision : ToSet(r) \subseteq Patch
      BY ElementOfSeq, LenProperties DEF Revision, ToSet
    <3> QED
      BY <1>14, <3>1 DEF Local
  <2>2. /\ prBase \in [Branch -> Node \cup {None}] /\ pr \in [Branch -> States]
        /\ landed \in [Branch -> SUBSET Patch] /\ main \in Branch \cup {None}
        /\ tracking \in [Node -> Revision \cup {None}] /\ remote \in [Node -> Revision \cup {None}]
    BY <1>1, <1>2, <1>14, <1>16
  <2>3. {objects, pushed, waived} \subseteq SUBSET Patch
    BY <1>1, <2>1
  <2>4. sync.seen = {} /\ sync.doomed = {} /\ sync.todo = {}
    BY <1>1 DEF NoSync
  <2> QED
    BY <1>14, <1>16, <2>2, <2>3, <2>4 DEF TypeOK, States
<1>18. Lineage
  <2>1. \A x \in Node : Exists(x) => Of(ToSet(tip[x]), x)
    BY <1>15 DEF Exists, Of, Spared
  <2>2. \A b \in Branch : parent[b] # None => parent[b] \in Lower(Parent[b]) /\ Of(ToSet(base[b]), Parent[b])
    BY <1>2, <1>13, <1>16, LowerIs DEF Of
  <2> QED
    BY <2>1, <2>2 DEF Lineage
<1>19. AtHome
  BY <1>1 DEF AtHome, Spared
<1>20. Remote
  BY <1>1, <1>14, <1>16 DEF Remote, Exists
<1>21. Work
  BY <1>1 DEF Work, Seen, Judgement, NoSync, NoOrphans, Idle
<1> QED
  BY <1>1, <1>17, <1>18, <1>19, <1>20, <1>21 DEF Inv, Counts

LEMMA InvNext ==
    ASSUME Inv, [Next]_vars
    PROVE  Inv' /\ KeepsWork
<1>1. ASSUME NEW x \in Node, Commit(x) PROVE Inv' /\ KeepsWork
  BY <1>1, CommitStep
<1>2. ASSUME NEW b \in Branch, Create(b) PROVE Inv' /\ KeepsWork
  BY <1>2, CreateStep
<1>3. ASSUME NEW b \in Branch, Push(b) \/ OthersPush(b) \/ DeleteByHand(b) PROVE Inv' /\ KeepsWork
  BY <1>3, PushStep, OthersPushStep, DeleteByHandStep
<1>4. ASSUME NEW b \in Branch, NEW gone \in BOOLEAN, Merge(b, gone) \/ Close(b, gone)
      PROVE  Inv' /\ KeepsWork
  BY <1>4, MergeStep, CloseStep
<1>5. CASE Prune
  BY <1>5, PruneStep
<1>6. ASSUME NEW call \in Calls, Begin(call[1], call[2]) PROVE Inv' /\ KeepsWork
  BY <1>6, BeginStep
<1>7. CASE Syncing
  <2>1. CASE FetchTrunk \/ QueryGitHub \/ ListRemote
    BY <2>1, FetchTrunkStep, QueryGitHubStep, ListRemoteStep
  <2>2. ASSUME NEW x \in Node, PullReads(x) PROVE Inv' /\ KeepsWork
    BY <2>2, PullReadsStep
  <2>3. CASE PullWrites \/ ResetTrunk \/ ProcessGitHub \/ FetchBehind
    BY <2>3, PullWritesStep, ResetTrunkStep, ProcessGitHubStep, FetchBehindStep
  <2>4. CASE PlanDeletions
    BY <2>4, PlanDeletionsStep
  <2>5. ASSUME NEW S \in SUBSET sync.doomed, Answer(S) PROVE Inv' /\ KeepsWork
    BY <2>5, AnswerStep
  <2>6. ASSUME NEW m \in sync.moves, Reparent(m) PROVE Inv' /\ KeepsWork
    BY <2>6, ReparentStep
  <2>7. CASE DeleteBranches \/ AdoptChildren
    BY <2>7, DeleteBranchesStep, AdoptChildrenStep
  <2>8. CASE Restack
    BY <2>8, RestackStep
  <2> QED
    BY <1>7, <2>1, <2>2, <2>3, <2>4, <2>5, <2>6, <2>7, <2>8 DEF Syncing
<1>8. CASE Crash
  BY <1>8, CrashStep
<1>9. CASE UNCHANGED vars
  <2>1. UNCHANGED <<tip, parent, base, recorded, main, tracking, objects, remote, pr, prBase, landed,
                    pushed, waived, sync, made, events>>
    BY <1>9 DEF vars, localVars, remoteVars, counters
  <2>2. Lineage' /\ AtHome' /\ KeepsWork
    BY <2>1, LocalFrame DEF Inv, Grows
  <2>3. TypeOK'
    BY <2>1 DEF Inv, TypeOK
  <2>4. Remote'
    BY <2>1 DEF Inv, Remote, Local, Exists
  <2>5. Seen'
    BY <2>1, LookFrame DEF Inv, Work, Seen, LookStep
  <2>6. Judgement'
    BY <2>1 DEF Inv, Work, Judgement, MayGo, Status, Standing, Exists, NoOrphans
  <2> QED
    BY <2>1, <2>2, <2>3, <2>4, <2>5, <2>6 DEF Inv, Work, Idle, Counts
<1> QED
  BY <1>1, <1>2, <1>3, <1>4, <1>5, <1>6, <1>7, <1>8, <1>9 DEF Next

THEOREM InvHolds == Spec => []Inv
<1>1. Inv /\ [Next]_vars => Inv'
  BY InvNext
<1> QED
  BY <1>1, InvInit, PTL DEF Spec

\* Whatever people commit, push, merge, close and delete beside any number of
\* syncs, and wherever a sync dies: the last local copy of a commit goes only
\* when the commit has been pushed, or was given up.
THEOREM WorkIsAlwaysKept == Spec => WorkIsKept
<1>1. Inv /\ [Next]_vars => [\A p \in Local(tip) \ Local(tip') : p \in pushed' \cup waived']_vars
  <2> SUFFICES ASSUME Inv, [Next]_vars
               PROVE  \A p \in Local(tip) \ Local(tip') : p \in pushed' \cup waived'
    OBVIOUS
  <2> QED
    BY InvNext DEF KeepsWork, Spared
<1> QED
  BY <1>1, InvHolds, PTL DEF Spec, WorkIsKept

\* When DeleteBranches and the adoption of a ghost's children are through,
\* every branch that sync knows is on one that exists; and a record has a
\* parent and a base or neither.
THEOREM SyncCoherent == Spec => []Coherent
<1>1. Inv => Coherent
  BY DEF Inv, Work, Judgement, Coherent
<1> QED
  BY <1>1, InvHolds, PTL
=============================================================================
