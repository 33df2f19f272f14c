---------------------------- MODULE RestackProofs ----------------------------
(***************************************************************************)
(* What a restack keeps, for any number of branches, worktrees, commits    *)
(* and crashes.                                                            *)
(***************************************************************************)
EXTENDS Restack, StackLemmas, FiniteSetTheorems

\* Worktree anchors are made on trunk.
AnchorsOnTrunk == \A s \in Shapes, k \in Kinds, b \in Branch : k[b] = "anchor" => s[b] = Trunk

\* In Order p comes before b.
Before(p, b) ==
    p = Trunk \/ \A i \in 1 .. Len(Order) :
                    Order[i] = b => \E j \in 1 .. Len(Order) : j < i /\ Order[j] = p

\* The parents par are before their children.
Ordered(par) == par \in [Branch -> Node] /\ \A b \in Branch : Before(par[b], b)

Revs == Revision \cup {None}
Items == [act  : {"skip", "record"} \cup Moving, onto : Node \cup {None},
          old : Revs, to : Revs, pin : Revs, rev : Revs]

-----------------------------------------------------------------------------
(* The invariant.                                                          *)

Types ==
    /\ TypeOK /\ item \in [Branch -> Items] /\ scope \subseteq Branch
    /\ made \in 0 .. MaxPatches /\ crashes \in Nat
    /\ was \in [Node -> SUBSET Revision]
    /\ alive \in [Branch -> SUBSET Patch] /\ \A b \in Branch : \A p \in alive[b] : p.n <= made

\* What the parent p of a branch has been, or stands for.
Real(p) == was[p] \cup (IF IsAnchor(p) THEN was[Trunk] ELSE {})

Stacks ==
    /\ Ordered(parent) /\ Ordered(mem)
    /\ AnchorsOnTrunk => \A b \in Branch : kind[b] = "anchor" => parent[b] = Trunk
    /\ \A x \in Node : tip[x] \in was[x] /\ snap[x] \in was[x]

\* The plan can be carried out: what it rebases goes onto a branch below, what
\* it records is what the parent has been.
PlanSound ==
    \A b \in Branch :
      LET i == item[b]
      IN /\ i.act = "rebase" => /\ kind[b] = "plain" /\ i.old # None
                                /\ i.onto \in Chain(b) \cup {Trunk} /\ Before(i.onto, b)
         /\ i.act = "anchor" => kind[b] = "anchor" /\ i.to # None /\ i.rev \in was[Trunk]
         /\ i.act = "frozen" => kind[b] = "frozen" /\ i.to # None /\ i.rev \in was[parent[b]]
         /\ i.act = "record" => kind[b] = "plain" /\ i.rev \in Real(parent[b])
         /\ newRev[b] # None => i.act = "rebase"

\* Conflicts keep b from being applied.
Excluded(b) == report /\ \E f \in failed : Root(b) = Root(f)

\* Every rebase that succeeded is still to be applied, or has been, or b or a
\* branch below is held back.
Placed ==
    /\ phase \in {"inspect", "apply"} => \A b \in todo : b \in Applicable /\ ~Excluded(b)
    /\ phase = "inspect" => \A b \in Branch : newRev[b] # None => b \in todo \/ Excluded(b)
    /\ phase = "apply"
       => \A b \in Branch : newRev[b] # None => \/ b \in todo \/ Excluded(b)
                                                \/ newRev[b] \in was[b] \/ HeldBack(b)

Worktrees ==
    /\ phase # "apply" => stale = None
    /\ crashes = 0 => \A b \in CheckedOut : b # stale => wt[b] = tip[b]
    /\ stale \in edited => stale \in fresh
    /\ phase = "apply" => todo \cap edited \subseteq fresh \cup held

RealParents == AnchorsOnTrunk => ParentRevisionsAreReal

\* Nothing is left of a pass that is over.
Idle == phase = "idle" => newRev = NoRevs /\ failed = {} /\ todo = {} /\ held = {}

Inv == Types /\ Idle /\ RealParents /\ Stacks /\ PlanSound /\ Placed /\ Worktrees

-----------------------------------------------------------------------------
(* Order, and the branches below a branch.                                 *)

\* Before is an order.
LEMMA BeforeIs ==
    /\ \A b \in Branch : ~Before(b, b)
    /\ \A p \in Node, q, b \in Branch : Before(p, q) /\ Before(q, b) => Before(p, b)
<1>1. Len(Order) \in Nat /\ DOMAIN Order = 1 .. Len(Order) /\ Trunk \notin Branch
  BY ConstantsAssumption, LenProperties
<1>2. ASSUME NEW b \in Branch, Before(b, b) PROVE FALSE
  <2> DEFINE T == {i \in 1 .. Len(Order) : Order[i] = b}
  <2>1. T \subseteq Nat
    BY <1>1
  <2>2. T # {}
    BY <1>1, ConstantsAssumption DEF ToSet
  <2>3. \E i \in T : \A j \in T : i <= j
    <3> HIDE DEF T
    <3> QED
      BY <2>1, <2>2, LeastNumber
  <2>4. PICK i \in T : \A j \in T : i <= j
    BY <2>3
  <2>5. PICK j \in 1 .. Len(Order) : j < i /\ Order[j] = b
    BY <1>1, <1>2, <2>4 DEF Before
  <2>6. j \in T
    BY <2>5
  <2> QED
    BY <1>1, <2>1, <2>4, <2>5, <2>6
<1>3. ASSUME NEW p \in Node, NEW q \in Branch, NEW b \in Branch, Before(p, q), Before(q, b)
      PROVE  Before(p, b)
  <2>1. CASE p = Trunk
    BY <2>1 DEF Before
  <2>2. CASE p # Trunk
    <3>1. ASSUME NEW i \in 1 .. Len(Order), Order[i] = b
          PROVE  \E k \in 1 .. Len(Order) : k < i /\ Order[k] = p
      <4>1. PICK j \in 1 .. Len(Order) : j < i /\ Order[j] = q
        BY <1>1, <1>3, <3>1 DEF Before
      <4>2. PICK k \in 1 .. Len(Order) : k < j /\ Order[k] = p
        BY <1>3, <2>2, <4>1 DEF Before
      <4> QED
        BY <1>1, <4>1, <4>2
    <3> QED
      BY <3>1 DEF Before
  <2> QED
    BY <2>1, <2>2
<1> QED
  BY <1>2, <1>3

\* Ordered parents are a tree, as StackLemmas has it.
LEMMA OrderedIsSorted ==
    ASSUME NEW par, Ordered(par)
    PROVE  Sorted(par, Order, Branch, Trunk)
<1>1. Len(Order) \in Nat /\ DOMAIN Order = 1 .. Len(Order) /\ Order \in Seq(Branch)
      /\ Trunk \notin Branch /\ \A i \in 1 .. Len(Order) : Order[i] \in Branch
  BY ConstantsAssumption, LenProperties, ElementOfSeq
<1>2. \A b \in Branch : \E i \in 1 .. Len(Order) : Order[i] = b
  BY <1>1, ConstantsAssumption DEF ToSet
<1> QED
  BY <1>1, <1>2 DEF Ordered, Before, Sorted, Node

\* Per branch itself and the branches below it.
Path(par) == CHOOSE up : up = [x \in Node |-> IF x = Trunk THEN {} ELSE {x} \cup up[par[x]]]

LEMMA PathIs ==
    ASSUME NEW par, Ordered(par)
    PROVE  /\ Path(par) \in [Node -> SUBSET Branch] /\ Path(par)[Trunk] = {}
           /\ \A b \in Branch : Path(par)[b] = {b} \cup Path(par)[par[b]]
<1> DEFINE V == SUBSET Branch
           F == [b \in Branch |-> [s \in V |-> {b} \cup s]]
           Is(u) == u = [x \in Node |-> IF x = Trunk THEN {} ELSE {x} \cup u[par[x]]]
<1>1. Sorted(par, Order, Branch, Trunk) /\ par \in [Branch -> Node] /\ Trunk \notin Branch
  BY OrderedIsSorted, ConstantsAssumption DEF Ordered
<1>2. F \in Steps(Branch, V) /\ {} \in V
  BY DEF Steps
<1>3. \A b \in Branch, s \in V : F[b][s] = {b} \cup s
  OBVIOUS
<1> HIDE DEF F, V
<1>4. PICK f : Recursion(f, par, Branch, Trunk, V, {}, F)
  BY <1>1, <1>2, TreeRecursion
<1>5. /\ f \in [Node -> V] /\ f[Trunk] = {}
      /\ \A b \in Branch : f[b] = {b} \cup f[par[b]]
  BY <1>1, <1>3, <1>4 DEF Recursion, Node
<1>6. Is(f)
  BY <1>1, <1>5 DEF Node
<1>7. Is(Path(par))
  <2> DEFINE P == Path(par)
  <2>1. P = CHOOSE up : Is(up)
    BY DEF Path
  <2> HIDE DEF Is, P
  <2> QED
    BY <1>6, <2>1 DEF P
<1> DEFINE P == Path(par)
<1>8. P \in [Node -> V] /\ P[Trunk] = {} /\ \A b \in Branch : P[b] = {b} \cup P[par[b]]
  <2> HIDE DEF P
  <2>1. /\ P = [x \in Node |-> P[x]] /\ P[Trunk] = {}
        /\ \A b \in Branch : P[b] = {b} \cup P[par[b]]
    BY <1>1, <1>7 DEF P, Node
  <2>2. \A b \in Branch : par[b] = Trunk \/ P[par[b]] = f[par[b]] => P[b] = f[b]
    BY <1>1, <1>5, <2>1 DEF Node
  <2> DEFINE T == {b \in Branch : P[b] = f[b]}
  <2>3. Branch \subseteq T
    <3>1. \A b \in Branch : par[b] = Trunk \/ par[b] \in T => b \in T
      BY <2>2
    <3> HIDE DEF T
    <3> QED
      BY <1>1, <3>1, TreeInduction
  <2> QED
    BY <1>1, <1>5, <2>1, <2>3 DEF Node
<1> QED
  BY <1>8 DEF V

\* The branches below a branch come before it, and theirs are among them.
LEMMA PathBelow ==
    ASSUME NEW par, Ordered(par)
    PROVE  \A b \in Branch : \A p \in Path(par)[b] :
              /\ Path(par)[p] \subseteq Path(par)[b]
              /\ p = b \/ Before(p, b)
<1> DEFINE P == Path(par)
           Below(b) == \A p \in P[b] : P[p] \subseteq P[b] /\ (p = b \/ Before(p, b))
           T == {b \in Branch : Below(b)}
<1>1. Sorted(par, Order, Branch, Trunk) /\ Ordered(par)
  BY OrderedIsSorted
<1>2. P \in [Node -> SUBSET Branch] /\ P[Trunk] = {} /\ \A b \in Branch : P[b] = {b} \cup P[par[b]]
  BY PathIs
<1> HIDE DEF P
<1>3. ASSUME NEW b \in Branch, par[b] = Trunk PROVE Below(b)
  BY <1>2, <1>3
<1>4. ASSUME NEW b \in Branch, par[b] \in Branch, Below(par[b]) PROVE Below(b)
  <2> SUFFICES ASSUME NEW p \in P[b] PROVE P[p] \subseteq P[b] /\ (p = b \/ Before(p, b))
    OBVIOUS
  <2>1. CASE p = b
    BY <2>1
  <2>2. CASE p \in P[par[b]]
    <3>1. P[p] \subseteq P[par[b]] /\ (p = par[b] \/ Before(p, par[b])) /\ p \in Branch
      BY <1>2, <1>4, <2>2 DEF Node
    <3>2. Before(par[b], b)
      BY <1>1 DEF Ordered
    <3>3. p = par[b] \/ Before(p, b)
      BY <1>4, <3>1, <3>2, BeforeIs DEF Node
    <3> QED
      BY <1>2, <3>1, <3>2, <3>3
  <2> QED
    BY <1>2, <2>1, <2>2
<1>5. \A b \in Branch : par[b] = Trunk \/ par[b] \in T => b \in T
  <2> HIDE DEF Below
  <2> QED
    BY <1>3, <1>4
<1>6. Branch \subseteq T
  <2> HIDE DEF T
  <2> QED
    BY <1>1, <1>5, TreeInduction
<1> QED
  BY <1>6 DEF P

\* The branch on trunk that b is stacked on, when parents are par.
RootOf(par, b) == CHOOSE r \in Path(par)[b] : par[r] = Trunk

\* The branches of a stack have one root.
LEMMA RootIs ==
    ASSUME NEW par, Ordered(par)
    PROVE  \A b \in Branch : \A p \in Path(par)[b] : RootOf(par, p) = RootOf(par, b)
<1> DEFINE P == Path(par)
           IsRoot(r, b) == r \in P[b] /\ par[r] = Trunk
           One(b) == \E r \in Branch : IsRoot(r, b) /\ \A q \in P[b] : par[q] = Trunk => q = r
           T == {b \in Branch : One(b)}
<1>1. Sorted(par, Order, Branch, Trunk) /\ Ordered(par)
  BY OrderedIsSorted
<1>2. P \in [Node -> SUBSET Branch] /\ P[Trunk] = {} /\ \A b \in Branch : P[b] = {b} \cup P[par[b]]
  BY PathIs
<1>3. \A b \in Branch : \A p \in P[b] : P[p] \subseteq P[b]
  BY PathBelow
<1> HIDE DEF P
<1>4. ASSUME NEW b \in Branch, par[b] = Trunk PROVE One(b)
  BY <1>2, <1>4
<1>5. ASSUME NEW b \in Branch, par[b] \in Branch, One(par[b]) PROVE One(b)
  <2>1. PICK r \in Branch : IsRoot(r, par[b]) /\ \A q \in P[par[b]] : par[q] = Trunk => q = r
    BY <1>5
  <2>2. IsRoot(r, b) /\ \A q \in P[b] : par[q] = Trunk => q = r
    BY <1>2, <1>5, <2>1, ConstantsAssumption
  <2> QED
    BY <2>2
<1>6. \A b \in Branch : par[b] = Trunk \/ par[b] \in T => b \in T
  <2> HIDE DEF One
  <2> QED
    BY <1>4, <1>5
<1>7. Branch \subseteq T
  <2> HIDE DEF T
  <2> QED
    BY <1>1, <1>6, TreeInduction
<1>8. ASSUME NEW b \in Branch, NEW p \in P[b] PROVE RootOf(par, p) = RootOf(par, b)
  <2>1. One(b) /\ p \in Branch /\ One(p)
    BY <1>2, <1>7 DEF Node
  <2>2. PICK r \in Branch : IsRoot(r, b) /\ \A q \in P[b] : par[q] = Trunk => q = r
    BY <2>1
  <2>3. PICK s \in Branch : IsRoot(s, p) /\ \A q \in P[p] : par[q] = Trunk => q = s
    BY <2>1
  <2>4. RootOf(par, b) = r
    BY <2>2 DEF RootOf, P
  <2>5. RootOf(par, p) = s
    BY <2>3 DEF RootOf, P
  <2>6. s = r
    BY <1>3, <2>2, <2>3
  <2> QED
    BY <2>4, <2>5, <2>6
<1> QED
  BY <1>8 DEF P

\* In the words of the model.
LEMMA ChainIs ==
    /\ \A b : Chain(b) = Path(mem)[b] /\ Root(b) = RootOf(mem, b)
    /\ \A b : Chain(b)' = Path(mem')[b] /\ Root(b)' = RootOf(mem', b)
BY DEF Chain, Path, Root, RootOf

-----------------------------------------------------------------------------
(* The plan.                                                               *)

\* Where a branch goes is where one gets by going down from abandoned branches.
LEMMA NearestValidIn ==
    ASSUME Ordered(parent), NEW b \in Branch, NEW Z, parent[b] \in Z,
           \A c \in Branch : c \in Z /\ Abandoned(c) => parent[c] \in Z
    PROVE  NearestValid(b) \in Z
<1> DEFINE F == [c \in Branch |-> [p \in Node |-> IF Abandoned(c) THEN p ELSE c]]
           Is(u) == u = [p \in Node |-> IF Abandoned(p) THEN u[parent[p]] ELSE p]
           up == CHOOSE u : Is(u)
<1>1. Sorted(parent, Order, Branch, Trunk) /\ Trunk \notin Branch /\ ~Abandoned(Trunk)
      /\ parent \in [Branch -> Node]
  BY OrderedIsSorted, ConstantsAssumption DEF Abandoned, Ordered
<1>2. F \in Steps(Branch, Node) /\ Trunk \in Node
  BY DEF Steps, Node
<1>3. \A c \in Branch, p \in Node : F[c][p] = IF Abandoned(c) THEN p ELSE c
  OBVIOUS
<1> HIDE DEF F
<1>4. PICK f : Recursion(f, parent, Branch, Trunk, Node, Trunk, F)
  BY <1>1, <1>2, TreeRecursion
<1>5. /\ f \in [Node -> Node] /\ f[Trunk] = Trunk
      /\ \A c \in Branch : f[c] = IF Abandoned(c) THEN f[parent[c]] ELSE c
  BY <1>1, <1>3, <1>4 DEF Recursion, Node
<1>6. Is(f)
  BY <1>1, <1>5 DEF Node
<1>7. Is(up)
  <2> HIDE DEF Is
  <2> QED
    BY <1>6
<1>8. NearestValid(b) = up[parent[b]]
  BY DEF NearestValid
<1> HIDE DEF up
<1>9. up[Trunk] = Trunk /\ \A c \in Branch : up[c] = IF Abandoned(c) THEN up[parent[c]] ELSE c
  BY <1>1, <1>7 DEF Node
<1> HIDE DEF Is
<1> DEFINE T == {c \in Branch : c \in Z => up[c] \in Z}
<1>10. \A c \in Branch : parent[c] = Trunk \/ parent[c] \in T => c \in T
  BY <1>9
<1>11. Branch \subseteq T
  <2> HIDE DEF T
  <2> QED
    BY <1>1, <1>10, TreeInduction
<1> QED
  BY <1>1, <1>8, <1>9, <1>11 DEF Node

\* A branch goes onto one of the branches below it, or onto trunk.
LEMMA NearestValidIs ==
    ASSUME Ordered(parent), NEW b \in Branch
    PROVE  /\ NearestValid(b) \in {Trunk} \cup Path(parent)[b]
           /\ Before(NearestValid(b), b)
<1> DEFINE P == Path(parent)
           Z == {Trunk} \cup P[parent[b]]
<1>1. /\ P \in [Node -> SUBSET Branch] /\ P[Trunk] = {}
      /\ \A c \in Branch : P[c] = {c} \cup P[parent[c]]
  BY PathIs
<1>2. \A c \in Branch : \A p \in P[c] : P[p] \subseteq P[c] /\ (p = c \/ Before(p, c))
  BY PathBelow
<1>3. parent \in [Branch -> Node] /\ Before(parent[b], b) /\ Trunk \notin Branch
  BY ConstantsAssumption DEF Ordered
<1> HIDE DEF P
<1>4. \A c \in Branch : parent[c] \in {Trunk} \cup P[parent[c]]
  BY <1>1, <1>3 DEF Node
<1>5. ASSUME NEW c \in Branch, c \in Z PROVE parent[c] \in Z
  <2>1. c \in P[parent[b]] /\ parent[b] \in Branch
    BY <1>1, <1>3, <1>5 DEF Node
  <2> QED
    BY <1>1, <1>2, <1>4, <2>1
<1>6. NearestValid(b) \in Z
  <2> HIDE DEF Z
  <2>1. parent[b] \in Z
    BY <1>4 DEF Z
  <2> QED
    BY <1>5, <2>1, NearestValidIn
<1>7. ASSUME NEW p \in P[parent[b]] PROVE Before(p, b)
  <2>1. parent[b] \in Branch /\ p \in Branch
    BY <1>1, <1>3 DEF Node
  <2>2. p = parent[b] \/ Before(p, parent[b])
    BY <1>2, <2>1
  <2> QED
    BY <1>3, <2>1, <2>2, BeforeIs DEF Node
<1> QED
  BY <1>1, <1>6, <1>7 DEF Before, P

\* Branches a plan for S leaves alone.
Unplanned(b, S) == \/ b \notin S \/ kind[b] = "locked"
                   \/ kind[b] # "anchor" /\ Landed(b, parent[b])

Shapely == Ordered(parent) /\ TypeOK

LEMMA ItemsAre ==
    ASSUME Shapely, NEW b \in Branch
    PROVE  /\ Skip \in Items /\ AnchorItem(b) \in Items /\ FrozenItem(b) \in Items
           /\ \A p \in Node : BaseOf(p) \in Revision /\ OldUpstream(b, p) \in Revision
           /\ \A p \in Node, i \in Items : PlainItem(b, p, i) \in Items
<1>1. /\ tip \in [Node -> Revision] /\ remote \in [Branch -> Revision]
      /\ parent \in [Branch -> Node] /\ base \in [Branch -> Revision]
      /\ Trunk \in Node /\ b \in Node
  BY DEF Shapely, TypeOK, Node
<1>2. Skip \in Items
  BY DEF Skip, Items, Revs
<1>3. AnchorItem(b) \in Items
  BY <1>1, <1>2 DEF AnchorItem, Items, Revs, Moving, Skip
<1>4. FrozenItem(b) \in Items
  BY <1>1, <1>2 DEF FrozenItem, Items, Revs, Moving, Skip
<1>5. ASSUME NEW p \in Node PROVE BaseOf(p) \in Revision /\ OldUpstream(b, p) \in Revision
  <2>1. BaseOf(p) \in Revision
    BY <1>1 DEF BaseOf
  <2>2. MergeBase(tip[b], BaseOf(p)) \in Revision
    BY <1>1, <2>1, MergeBaseIs DEF Revision
  <2> QED
    BY <1>1, <2>1, <2>2 DEF OldUpstream
<1>6. ASSUME NEW p \in Node, NEW i \in Items PROVE PlainItem(b, p, i) \in Items
  <2>1. BaseOf(p) \in Revision /\ OldUpstream(b, p) \in Revision
    BY <1>5
  <2>2. i.to \in Revs
    BY DEF Items
  <2> QED
    BY <2>1, <2>2 DEF PlainItem, Items, Revs, Moving
<1> QED
  BY <1>2, <1>3, <1>4, <1>5, <1>6

\* The plan is what its recursion says.
LEMMA PlanIs ==
    ASSUME Shapely, NEW S, S \subseteq Branch
    PROVE  /\ PlanOf(S) \in [Branch -> Items]
           /\ \A b \in Branch :
                LET p == NearestValid(b)
                IN PlanOf(S)[b] = IF Unplanned(b, S) THEN Skip
                                  ELSE ItemOf(b, IF p = Trunk THEN Skip ELSE PlanOf(S)[p])
<1> DEFINE par == [b \in Branch |-> NearestValid(b)]
           Step(b, i) == IF Unplanned(b, S) THEN Skip ELSE ItemOf(b, i)
           F == [b \in Branch |-> [i \in Items |-> Step(b, i)]]
           Is(u) == u = [b \in Node |-> Step(b, u[NearestValid(b)])]
           plan == CHOOSE u : Is(u)
<1>1. Ordered(parent) /\ Trunk \notin Branch /\ kind \in Kinds /\ Skip \in Items
  BY ConstantsAssumption DEF Shapely, TypeOK, Skip, Items, Revs
<1>2. \A b \in Branch : NearestValid(b) \in Node /\ Before(NearestValid(b), b)
  BY <1>1, NearestValidIs, PathIs DEF Node
<1>3. Sorted(par, Order, Branch, Trunk)
  BY <1>2, OrderedIsSorted DEF Ordered
<1>4. ASSUME NEW b \in Branch, NEW i \in Items PROVE Step(b, i) \in Items
  <2>1. kind[b] \in {"plain", "locked", "frozen", "anchor"}
    BY <1>1, ConstantsAssumption
  <2>2. PlainItem(b, NearestValid(b), i) \in Items /\ AnchorItem(b) \in Items
        /\ FrozenItem(b) \in Items
    BY <1>2, ItemsAre
  <2>3. kind[b] = "locked" => Unplanned(b, S)
    BY DEF Unplanned
  <2>4. kind[b] # "locked" => ItemOf(b, i) \in Items
    BY <2>1, <2>2 DEF ItemOf
  <2> QED
    BY <1>1, <2>3, <2>4
<1>5. \A i : Step(Trunk, i) = Skip
  BY <1>1 DEF Unplanned
<1>6. F \in Steps(Branch, Items)
  BY <1>4 DEF Steps
<1>7. \A b \in Branch, i \in Items : F[b][i] = Step(b, i)
  BY DEF F
<1>8. \A b \in Branch : par[b] = NearestValid(b)
  OBVIOUS
<1>9. PlanOf(S) = [b \in Branch |-> plan[b]]
  BY DEF PlanOf, Unplanned
<1> HIDE DEF F, par, plan, Step
<1>10. PICK f : Recursion(f, par, Branch, Trunk, Items, Skip, F)
  BY <1>1, <1>3, <1>6, TreeRecursion
<1>11. /\ f \in [Node -> Items] /\ f[Trunk] = Skip
       /\ \A b \in Branch : f[b] = Step(b, f[NearestValid(b)])
  BY <1>1, <1>2, <1>7, <1>8, <1>10 DEF Recursion, Node
<1>12. Is(f)
  BY <1>1, <1>5, <1>11 DEF Node
<1>13. Is(plan)
  <2> HIDE DEF Is
  <2> QED
    BY <1>12 DEF plan
<1>14. /\ plan[Trunk] = Skip
       /\ \A b \in Branch : plan[b] = Step(b, plan[NearestValid(b)])
  BY <1>1, <1>5, <1>13 DEF Node
<1> HIDE DEF Is
<1> DEFINE T == {b \in Branch : plan[b] \in Items}
<1>15. \A b \in Branch : par[b] = Trunk \/ par[b] \in T => b \in T
  BY <1>1, <1>4, <1>8, <1>14
<1>16. Branch \subseteq T
  <2> HIDE DEF T
  <2> QED
    BY <1>3, <1>15, TreeInduction
<1>17. \A b \in Branch : PlanOf(S)[b] = plan[b]
  BY <1>9
<1>18. ASSUME NEW b \in Branch
       PROVE  PlanOf(S)[b] = Step(b, IF NearestValid(b) = Trunk THEN Skip
                                     ELSE PlanOf(S)[NearestValid(b)])
  BY <1>2, <1>14, <1>17 DEF Node
<1> QED
  BY <1>9, <1>16, <1>18 DEF Step

-----------------------------------------------------------------------------
(* The beginning.                                                          *)

\* Parents are before their children at first.
LEMMA FirstOrdered ==
    ASSUME Init
    PROVE  Ordered(parent)
<1>1. parent \in Shapes
  BY DEF Init
<1>2. Len(Order) \in Nat /\ DOMAIN Order = 1 .. Len(Order)
  BY ConstantsAssumption, LenProperties
<1>3. ASSUME NEW b \in Branch PROVE Before(parent[b], b)
  <2>1. ASSUME NEW i \in 1 .. Len(Order), Order[i] = b, parent[b] # Trunk
        PROVE  \E j \in 1 .. Len(Order) : j < i /\ Order[j] = parent[b]
    <3>1. PICK j \in 1 .. i - 1 : parent[b] = Order[j]
      BY <1>1, <1>2, <2>1, ConstantsAssumption
    <3> QED
      BY <1>2, <3>1
  <2> QED
    BY <2>1 DEF Before
<1> QED
  BY <1>1, <1>3, ConstantsAssumption DEF Ordered

\* At first a branch has a commit of its own on top of its parent's.
LEMMA FirstTips ==
    ASSUME Init
    PROVE  /\ tip \in [Node -> Revision] /\ tip[Trunk] = <<[home |-> Trunk, n |-> 0]>>
           /\ \A b \in Branch : tip[b] = IF IsAnchor(b) THEN tip[parent[b]]
                                         ELSE Append(tip[parent[b]], [home |-> b, n |-> 0])
<1> DEFINE F == [b \in Branch |-> [r \in Revision |->
                   IF IsAnchor(b) THEN r ELSE Append(r, [home |-> b, n |-> 0])]]
           Is(u) == u = [b \in Node |-> IF b = Trunk THEN <<[home |-> Trunk, n |-> 0]>>
                                        ELSE IF IsAnchor(b) THEN u[parent[b]]
                                        ELSE Append(u[parent[b]], [home |-> b, n |-> 0])]
           at == CHOOSE u : Is(u)
           first == <<[home |-> Trunk, n |-> 0]>>
<1>1. Ordered(parent) /\ Trunk \notin Branch
  BY FirstOrdered, ConstantsAssumption
<1>2. \A b \in Node : [home |-> b, n |-> 0] \in Patch
  BY ConstantsAssumption DEF Patch
<1>3. first \in Revision
  <2>1. [home |-> Trunk, n |-> 0] \in Patch
    BY <1>2 DEF Node
  <2> QED
    BY <2>1 DEF Revision
<1>4. F \in Steps(Branch, Revision)
  <2>1. \A b \in Branch, r \in Revision : Append(r, [home |-> b, n |-> 0]) \in Revision
    BY <1>2, AppendProperties DEF Revision, Node
  <2> QED
    BY <2>1 DEF Steps
<1>5. \A b \in Branch, r \in Revision :
        F[b][r] = IF IsAnchor(b) THEN r ELSE Append(r, [home |-> b, n |-> 0])
  OBVIOUS
<1>6. tip = at
  BY DEF Init
<1> HIDE DEF F, first
<1>7. PICK f : Recursion(f, parent, Branch, Trunk, Revision, first, F)
  BY <1>1, <1>3, <1>4, OrderedIsSorted, TreeRecursion
<1>8. /\ f \in [Node -> Revision] /\ f[Trunk] = first
      /\ \A b \in Branch : f[b] = IF IsAnchor(b) THEN f[parent[b]]
                                  ELSE Append(f[parent[b]], [home |-> b, n |-> 0])
  BY <1>1, <1>5, <1>7 DEF Recursion, Node, Ordered
<1>9. Is(f)
  BY <1>1, <1>8 DEF Node, first
<1>10. Is(at)
  <2> HIDE DEF Is
  <2> QED
    BY <1>9
<1> HIDE DEF at
<1>11. /\ at = [b \in Node |-> at[b]] /\ at[Trunk] = first
       /\ \A b \in Branch : at[b] = IF IsAnchor(b) THEN at[parent[b]]
                                    ELSE Append(at[parent[b]], [home |-> b, n |-> 0])
  BY <1>1, <1>10 DEF Node, first
<1> HIDE DEF Is
<1> DEFINE T == {b \in Branch : at[b] = f[b]}
<1>12. \A b \in Branch : parent[b] = Trunk \/ parent[b] \in T => b \in T
  <2> SUFFICES ASSUME NEW b \in Branch, parent[b] = Trunk \/ parent[b] \in T
               PROVE  at[b] = f[b]
    OBVIOUS
  <2>1. at[parent[b]] = f[parent[b]]
    BY <1>8, <1>11
  <2> QED
    BY <1>8, <1>11, <2>1
<1>13. Branch \subseteq T
  <2> HIDE DEF T
  <2> QED
    BY <1>1, <1>12, OrderedIsSorted, TreeInduction
<1>14. at \in [Node -> Revision]
  BY <1>8, <1>11, <1>13 DEF Node
<1> QED
  BY <1>6, <1>11, <1>14 DEF first

LEMMA FirstInv ==
    ASSUME Init
    PROVE  Inv
<1>1. /\ tip \in [Node -> Revision] /\ Ordered(parent) /\ Ordered(mem)
      /\ parent \in [Branch -> Node] /\ kind \in Kinds
  BY FirstTips, FirstOrdered DEF Init, Ordered
<1>2. /\ alive = [b \in Branch |-> IF IsAnchor(b) THEN {} ELSE {[home |-> b, n |-> 0]}]
      /\ was = [x \in Node |-> {tip[x]}] /\ made = 0 /\ crashes = 0 /\ scope = {}
      /\ base = [b \in Branch |-> tip[parent[b]]]
  BY DEF Init
<1>3. Types
  <2>1. TypeOK
    BY <1>1, ConstantsAssumption DEF Init, TypeOK, NoRevs, Skip, Node
  <2>2. item \in [Branch -> Items]
    BY DEF Init, Items, Skip, Revs
  <2>3. \A b \in Branch : [home |-> b, n |-> 0] \in Patch
    BY ConstantsAssumption DEF Patch, Node
  <2>4. /\ alive \in [Branch -> SUBSET Patch] /\ was \in [Node -> SUBSET Revision]
        /\ \A b \in Branch : \A p \in alive[b] : p.n <= made
    <3>1. alive \in [Branch -> SUBSET Patch]
      BY <1>2, <2>3
    <3>2. was \in [Node -> SUBSET Revision]
      BY <1>2, <1>1
    <3>3. \A b \in Branch : \A p \in alive[b] : p.n <= made
      BY <1>2
    <3> QED
      BY <3>1, <3>2, <3>3
  <2>5. made \in 0 .. MaxPatches /\ crashes \in Nat /\ scope \subseteq Branch
    BY <1>2, ConstantsAssumption
  <2> QED
    BY <2>1, <2>2, <2>4, <2>5 DEF Types
<1>4. RealParents
  <2>1. \A b \in Branch : base[b] \in was[parent[b]]
    BY <1>2, <1>1
  <2> QED
    BY <2>1 DEF RealParents, ParentRevisionsAreReal
<1>5. Stacks
  BY <1>1 DEF Init, Stacks, AnchorsOnTrunk
<1>6. PlanSound
  BY DEF Init, PlanSound, Skip, NoRevs
<1>7. Placed
  BY DEF Init, Placed
<1>8. Worktrees
  BY <1>1, ConstantsAssumption DEF Init, Worktrees, Node
<1>9. Idle
  BY DEF Init, Idle
<1> QED
  BY <1>3, <1>4, <1>5, <1>6, <1>7, <1>8, <1>9 DEF Inv

-----------------------------------------------------------------------------
(* The pass.                                                               *)

\* What is planned can be carried out.
LEMMA ItemIsSound ==
    ASSUME Types, Stacks, NEW b \in Branch, NEW S, ~Unplanned(b, S), NEW i \in Items
    PROVE  LET j == ItemOf(b, i)
           IN /\ j.act = "rebase" => /\ kind[b] = "plain" /\ j.old # None
                                     /\ j.onto \in Path(parent)[b] \cup {Trunk}
                                     /\ Before(j.onto, b)
              /\ j.act = "anchor" => kind[b] = "anchor" /\ j.to # None /\ j.rev \in was[Trunk]
              /\ j.act = "frozen" => /\ kind[b] = "frozen" /\ j.to # None
                                     /\ j.rev \in was[parent[b]]
              /\ j.act = "record" => kind[b] = "plain" /\ j.rev \in Real(parent[b])
<1> DEFINE p == NearestValid(b)
<1>1. /\ Shapely /\ tip \in [Node -> Revision] /\ remote \in [Branch -> Revision]
      /\ parent \in [Branch -> Node] /\ kind \in Kinds /\ Trunk \in Node
      /\ None \notin Revision /\ \A x \in Node : tip[x] \in was[x]
  BY ConstantsAssumption DEF Types, Stacks, Shapely, TypeOK, Node
<1>2. kind[b] \in {"plain", "frozen", "anchor"}
  BY <1>1, ConstantsAssumption DEF Unplanned
<1>3. CASE kind[b] = "anchor"
  <2>1. ItemOf(b, i) = AnchorItem(b)
    BY <1>3 DEF ItemOf
  <2> QED
    BY <1>1, <1>3, <2>1 DEF AnchorItem, Skip
<1>4. CASE kind[b] = "frozen"
  <2>1. ItemOf(b, i) = FrozenItem(b)
    BY <1>4 DEF ItemOf
  <2> QED
    BY <1>1, <1>4, <2>1 DEF FrozenItem, Skip
<1>5. CASE kind[b] = "plain"
  <2>1. ItemOf(b, i) = PlainItem(b, p, i)
    BY <1>5 DEF ItemOf
  <2>2. /\ p \in Path(parent)[b] \cup {Trunk} /\ p \in Node /\ Before(p, b)
        /\ OldUpstream(b, p) \in Revision
    BY <1>1, NearestValidIs, PathIs, ItemsAre DEF Shapely, Node
  <2> HIDE DEF p
  <2>3. /\ PlainItem(b, p, i).act \in {"rebase", "record", "skip"}
        /\ PlainItem(b, p, i).onto = p /\ PlainItem(b, p, i).old = OldUpstream(b, p)
        /\ PlainItem(b, p, i).rev = BaseOf(p)
        /\ PlainItem(b, p, i).act = "record" => p = parent[b]
    BY DEF PlainItem
  <2>4. BaseOf(p) \in Real(p)
    BY <1>1, <2>2 DEF BaseOf, Real
  <2> QED
    BY <1>1, <1>5, <2>1, <2>2, <2>3, <2>4
<1> QED
  BY <1>2, <1>3, <1>4, <1>5

\* Nothing but the plan changes.
LEMMA PlanStep ==
    ASSUME Inv, NEW S, S \subseteq Branch, Plan(S)
    PROVE  Inv'
<1> USE DEF Inv, gitVars, treeVars, counters
<1>1. Shapely /\ scope' = S /\ item' = PlanOf(S) /\ mem' = parent
  BY DEF Plan, Shapely, Types, Stacks
<1>2. /\ item' \in [Branch -> Items]
      /\ \A b \in Branch :
           LET p == NearestValid(b)
           IN item'[b] = IF Unplanned(b, S) THEN Skip
                         ELSE ItemOf(b, IF p = Trunk THEN Skip ELSE item'[p])
  BY <1>1, PlanIs
<1>3. ASSUME NEW b \in Branch, item'[b].act # "skip"
      PROVE  \E i \in Items : ~Unplanned(b, S) /\ item'[b] = ItemOf(b, i)
  <2>1. item'[b] # Skip
    BY <1>3 DEF Skip
  <2>2. NearestValid(b) \in Node /\ Skip \in Items
    BY <1>1, NearestValidIs, PathIs, ItemsAre DEF Shapely, Node
  <2> QED
    BY <1>2, <2>1, <2>2 DEF Node
<1>4. /\ UNCHANGED <<tip, parent, base, kind, merged, remote, wt, edited, file, newRev, failed,
                      report, snap, held, files, todo, stale, alive, was, fresh, made, crashes>>
      /\ phase = "idle" /\ phase' = "validate"
      /\ newRev = NoRevs /\ failed = {} /\ todo = {} /\ held = {}
  BY DEF Plan, Idle
<1>5. Types'
  <2>1. \A b \in Branch : item'[b].act # "skip" => b \in scope'
    BY <1>1, <1>3 DEF Unplanned
  <2> QED
    BY <1>1, <1>2, <1>4, <2>1 DEF Types, TypeOK
<1>6. Stacks'
  BY <1>1, <1>4 DEF Stacks, Ordered, Before
<1>7. PlanSound'
  <2> DEFINE P == Path(parent)
  <2> SUFFICES ASSUME NEW b \in Branch, item'[b].act # "skip"
               PROVE  LET i == item'[b]
                      IN /\ i.act = "rebase" => /\ kind[b] = "plain" /\ i.old # None
                                                /\ i.onto \in P[b] \cup {Trunk}
                                                /\ Before(i.onto, b)
                         /\ i.act = "anchor" => /\ kind[b] = "anchor" /\ i.to # None
                                                /\ i.rev \in was[Trunk]
                         /\ i.act = "frozen" => /\ kind[b] = "frozen" /\ i.to # None
                                                /\ i.rev \in was[parent[b]]
                         /\ i.act = "record" => /\ kind[b] = "plain"
                                                /\ i.rev \in Real(parent[b])
    BY <1>1, <1>4, ChainIs DEF PlanSound, NoRevs, Real, IsAnchor
  <2>1. PICK i \in Items : ~Unplanned(b, S) /\ item'[b] = ItemOf(b, i)
    BY <1>3
  <2> QED
    BY <2>1, ItemIsSound
<1>8. RealParents' /\ Placed' /\ Worktrees' /\ Idle'
  BY <1>4 DEF RealParents, ParentRevisionsAreReal, Placed, Worktrees, Idle, IsAnchor
<1> QED
  BY <1>5, <1>6, <1>7, <1>8

\* What a trial rebase needs is there.
LEMMA OntoIs ==
    ASSUME Types, Stacks, PlanSound, NEW b \in Branch, item[b].act = "rebase"
    PROVE  /\ item[b].onto \in Node /\ Onto(b) \in Revision /\ item[b].old \in Revision
           /\ Replay(Onto(b), item[b].old, tip[b]) \in Revision
<1>1. /\ tip \in [Node -> Revision] /\ newRev \in [Branch -> Revs] /\ item[b] \in Items
  BY DEF Types, TypeOK, Revs
<1>2. item[b].onto \in Node
  <2>1. item[b].onto \in Path(mem)[b] \cup {Trunk} /\ Ordered(mem)
    BY ChainIs DEF PlanSound, Stacks
  <2> QED
    BY <2>1, PathIs DEF Node
<1>3. item[b].old \in Revision
  BY <1>1 DEF Items, Revs, PlanSound
<1>4. Onto(b) \in Revision
  BY <1>1, <1>2 DEF Onto, Items, Revs, Node
<1>5. tip[b] \in Revision
  BY <1>1 DEF Node
<1> QED
  BY <1>2, <1>3, <1>4, <1>5, ReplayIs DEF Revision

LEMMA ValidateSpecStep ==
    ASSUME Inv, NEW b \in Branch, ValidateSpec(b)
    PROVE  Inv'
<1> USE DEF Inv, gitVars, treeVars, passVars, planVars, pastVars, counters
<1>1. /\ UNCHANGED <<gitVars, treeVars, phase, scope, mem, item, report, snap, held, files, todo,
                     stale, pastVars, made, edits, crashes>>
      /\ phase = "validate" /\ item[b].act = "rebase" /\ b \in scope
      /\ newRev' = newRev \/ newRev' = [newRev EXCEPT ![b] = Replay(Onto(b), item[b].old, tip[b])]
      /\ failed' \subseteq failed \cup {b}
  BY DEF ValidateSpec, Pending, Types, TypeOK
<1>2. newRev' \in [Branch -> Revs]
      /\ \A c \in Branch : c # b => newRev'[c] = newRev[c]
  BY <1>1, OntoIs DEF Types, TypeOK, Revs
<1>3. Types'
  BY <1>1, <1>2 DEF Types, TypeOK, Revs
<1>4. Stacks' /\ RealParents'
  BY <1>1 DEF Stacks, Ordered, Before, RealParents, ParentRevisionsAreReal, IsAnchor
<1>5. PlanSound'
  <2>1. \A c \in Branch : newRev'[c] # None => item[c].act = "rebase"
    BY <1>1, <1>2 DEF PlanSound
  <2> QED
    BY <1>1, <2>1, ChainIs DEF PlanSound, Before, Real, IsAnchor
<1>6. Placed' /\ Worktrees' /\ Idle'
  BY <1>1 DEF Placed, Worktrees, Idle
<1> QED
  BY <1>3, <1>4, <1>5, <1>6

LEMMA CollectStep ==
    ASSUME Inv, Collect
    PROVE  Inv'
<1> USE DEF Inv, gitVars, treeVars, pastVars, counters
<1>1. /\ UNCHANGED <<gitVars, treeVars, scope, mem, item, newRev, failed, held, files, stale,
                     pastVars, counters>>
      /\ phase = "validate" /\ phase' = "inspect" /\ snap' = tip
      /\ todo' \subseteq Applicable
  BY DEF Collect, KeptWhole
<1>2. Types'
  BY <1>1 DEF Types, TypeOK, Applicable
<1>3. Stacks' /\ RealParents'
  BY <1>1 DEF Stacks, Ordered, Before, RealParents, ParentRevisionsAreReal, IsAnchor
<1>4. PlanSound'
  BY <1>1, ChainIs DEF PlanSound, Before, Real, IsAnchor
<1>5. Placed'
  <2>1. \A c : Excluded(c)' <=> report' /\ \E f \in failed : Root(c) = Root(f)
    BY <1>1, ChainIs DEF Excluded
  <2>2. /\ \A c \in Branch : newRev[c] # None => c \in Applicable
        /\ Applicable' = Applicable
    BY <1>1 DEF PlanSound, Types, TypeOK, Applicable
  <2>3. /\ \A c \in todo' : c \in Applicable' /\ ~Excluded(c)'
        /\ \A c \in Branch : newRev'[c] # None => c \in todo' \/ Excluded(c)'
    BY <1>1, <2>1, <2>2 DEF Collect, KeptWhole
  <2> QED
    BY <1>1, <2>3 DEF Placed
<1>6. Worktrees' /\ Idle'
  BY <1>1 DEF Worktrees, Idle
<1> QED
  BY <1>2, <1>3, <1>4, <1>5, <1>6

LEMMA InspectStep ==
    ASSUME Inv, Inspect
    PROVE  Inv'
<1> USE DEF Inv, gitVars, treeVars, planVars, counters
<1>1. /\ UNCHANGED <<gitVars, treeVars, planVars, snap, todo, stale,
                     alive, late, was, moved, calm, counters>>
      /\ phase = "inspect" /\ phase' = "apply" /\ held' = Changed \cap todo /\ fresh' = {}
      /\ files' = [b \in CheckedOut |-> IF b \in Changed THEN None ELSE file[b]]
  BY DEF Inspect
<1>2. Types'
  BY <1>1 DEF Types, TypeOK
<1>3. Stacks' /\ RealParents'
  BY <1>1 DEF Stacks, Ordered, Before, RealParents, ParentRevisionsAreReal, IsAnchor
<1>4. PlanSound'
  BY <1>1, ChainIs DEF PlanSound, Before, Real, IsAnchor
<1>5. Placed'
  <2>1. Applicable' = Applicable /\ \A c : Excluded(c)' <=> Excluded(c)
    BY <1>1, ChainIs DEF Excluded, Applicable
  <2> QED
    BY <1>1, <2>1 DEF Placed
<1>6. Worktrees' /\ Idle'
  BY <1>1, ConstantsAssumption DEF Worktrees, Idle, Types, TypeOK, Changed, Node
<1> QED
  BY <1>2, <1>3, <1>4, <1>5, <1>6

\* A branch is the last of its chain.
LEMMA OwnChain ==
    ASSUME Stacks, NEW b \in Branch
    PROVE  b \in Chain(b) /\ \A p \in Chain(b) : p \in Branch /\ Chain(p) \subseteq Chain(b)
BY PathIs, PathBelow, ChainIs DEF Stacks, Node

LEMMA HoldBackStep ==
    ASSUME Inv, NEW b \in Branch, HoldBack(b)
    PROVE  Inv'
<1> USE DEF Inv, gitVars, treeVars, planVars, pastVars, counters
<1>1. /\ UNCHANGED <<gitVars, treeVars, phase, planVars, snap, files, stale, pastVars, counters>>
      /\ phase = "apply" /\ b \in todo /\ todo' = todo \ {b}
      /\ HeldBack(b) \/ held' = held \cup {b}
      /\ held \subseteq held' /\ held' \subseteq held \cup {b}
  BY DEF HoldBack, Turn
<1>2. Types'
  BY <1>1 DEF Types, TypeOK
<1>3. Stacks' /\ RealParents'
  BY <1>1 DEF Stacks, Ordered, Before, RealParents, ParentRevisionsAreReal, IsAnchor
<1>4. PlanSound'
  BY <1>1, ChainIs DEF PlanSound, Before, Real, IsAnchor
<1>5. Placed'
  <2>1. /\ \A c : (Excluded(c)' <=> Excluded(c)) /\ (HeldBack(c) => HeldBack(c)')
        /\ Applicable' = Applicable
    BY <1>1, ChainIs DEF Excluded, HeldBack, Applicable
  <2>2. HeldBack(b)'
    BY <1>1, <2>1, OwnChain, ChainIs DEF HeldBack
  <2> QED
    BY <1>1, <2>1, <2>2 DEF Placed
<1>6. Worktrees' /\ Idle'
  BY <1>1 DEF Worktrees, Idle
<1> QED
  BY <1>2, <1>3, <1>4, <1>5, <1>6

\* A branch below b, when it is b's turn, has had its own.
LEMMA BelowIsDone ==
    ASSUME Inv, NEW b \in Branch, Free(b), NEW p \in Chain(b), p # b
    PROVE  p \in Branch /\ p \notin todo /\ ~HeldBack(p) /\ ~Excluded(p) /\ phase = "apply"
<1> USE DEF Inv
<1>1. p \in Branch /\ Chain(p) \subseteq Chain(b) /\ Before(p, b) /\ Root(p) = Root(b)
  BY PathIs, PathBelow, RootIs, ChainIs DEF Stacks, Node
<1>2. phase = "apply" /\ b \in todo /\ ~HeldBack(b)
      /\ \E i \in DOMAIN Order : Order[i] = b /\ \A j \in 1 .. i - 1 : Order[j] \notin todo
  BY DEF Free, Turn
<1>3. p \notin todo
  <2>1. Len(Order) \in Nat /\ DOMAIN Order = 1 .. Len(Order) /\ p # Trunk
    BY <1>1, ConstantsAssumption, LenProperties
  <2>2. PICK i \in 1 .. Len(Order) : Order[i] = b /\ \A j \in 1 .. i - 1 : Order[j] \notin todo
    BY <1>2, <2>1
  <2>3. PICK j \in 1 .. Len(Order) : j < i /\ Order[j] = p
    BY <1>1, <2>1, <2>2 DEF Before
  <2> QED
    BY <2>1, <2>2, <2>3
<1>4. ~HeldBack(p)
  BY <1>1, <1>2 DEF HeldBack
<1>5. ~Excluded(p)
  BY <1>1, <1>2 DEF Placed, Excluded
<1> QED
  BY <1>1, <1>2, <1>3, <1>4, <1>5

\* ... and is where its rebase has brought it.
LEMMA BelowIsPlaced ==
    ASSUME Inv, NEW b \in Branch, Free(b), NEW p \in Chain(b), p # b, newRev[p] # None
    PROVE  newRev[p] \in was[p]
BY BelowIsDone DEF Inv, Placed

\* What is recorded with a move is real.
LEMMA RecordedIsReal ==
    ASSUME Inv, NEW b \in Branch, Free(b), item[b].act \in Moving
    PROVE  /\ Target(b) \in Revision /\ Recorded(b) \in Revision
           /\ AnchorsOnTrunk => Recorded(b) \in was[IF item[b].act = "rebase" THEN item[b].onto ELSE parent[b]]
<1> USE DEF Inv
<1>1. /\ item[b] \in Items /\ newRev \in [Branch -> Revs] /\ was \in [Node -> SUBSET Revision]
      /\ parent \in [Branch -> Node] /\ Trunk \in Node
  BY DEF Types, TypeOK, Revs, Node
<1>2. CASE item[b].act = "rebase"
  <2> DEFINE p == item[b].onto
  <2>1. p \in Chain(b) \cup {Trunk} /\ p \in Node /\ Before(p, b)
    BY <1>2, OntoIs DEF PlanSound
  <2>2. p # Trunk /\ newRev[p] # None => newRev[p] \in was[p]
    BY <2>1, BeforeIs, BelowIsPlaced
  <2>3. snap[p] \in was[p]
    BY <2>1 DEF Stacks
  <2>4. Recorded(b) \in was[p]
    BY <1>2, <2>2, <2>3 DEF Recorded
  <2>5. newRev[b] \in Revision
    BY <1>1, <1>2 DEF Revs, Free, Turn, Placed, Applicable
  <2> QED
    BY <1>1, <1>2, <2>1, <2>4, <2>5 DEF Target
<1>3. CASE item[b].act \in {"anchor", "frozen"}
  <2>1. /\ item[b].to # None
        /\ AnchorsOnTrunk => item[b].rev \in was[parent[b]]
        /\ item[b].rev \in Revision
    BY <1>1, <1>3 DEF PlanSound, Stacks
  <2> QED
    BY <1>1, <1>3, <2>1 DEF Target, Recorded, Items, Revs, Node
<1> QED
  BY <1>2, <1>3 DEF Moving

LEMMA UpdateRefsStep ==
    ASSUME Inv, NEW b \in Branch, UpdateRefs(b)
    PROVE  Inv'
<1> USE DEF Inv, treeVars, planVars, counters
<1> DEFINE p == IF item[b].act = "rebase" THEN item[b].onto ELSE parent[b]
<1>1. /\ UNCHANGED <<kind, merged, remote, treeVars, phase, planVars, held, files,
                     alive, late, fresh, calm, counters>>
      /\ phase = "apply" /\ stale = None /\ b \in todo /\ todo' = todo \ {b} /\ Free(b)
      /\ item[b].act \in Moving
      /\ tip' = [tip EXCEPT ![b] = Target(b)] /\ snap' = [snap EXCEPT ![b] = Target(b)]
      /\ was' = [was EXCEPT ![b] = @ \cup {Target(b)}]
      /\ base' = [base EXCEPT ![b] = Recorded(b)] /\ stale' = ToReset(b)
      /\ parent' = IF item[b].act = "rebase" THEN [parent EXCEPT ![b] = p] ELSE parent
  BY DEF UpdateRefs, Free, Turn
<1>2. /\ Target(b) \in Revision /\ Recorded(b) \in Revision
      /\ AnchorsOnTrunk => Recorded(b) \in was[p]
      /\ parent \in [Branch -> Node] /\ p \in Node /\ Before(p, b)
  BY <1>1, RecordedIsReal, OntoIs DEF Types, TypeOK, PlanSound, Stacks, Ordered
<1> HIDE DEF p
<1>3. /\ parent' \in [Branch -> Node]
      /\ \A c \in Branch : parent'[c] = IF c = b THEN p ELSE parent[c]
  BY <1>1, <1>2 DEF p
<1>4. /\ was' \in [Node -> SUBSET Revision] /\ \A x \in Node : was[x] \subseteq was'[x]
      /\ tip' \in [Node -> Revision] /\ snap' \in [Node -> Revision] /\ base' \in [Branch -> Revision]
      /\ Target(b) \in was'[b]
  BY <1>1, <1>2 DEF Types, TypeOK, Node
<1>5. Types'
  BY <1>1, <1>3, <1>4 DEF Types, TypeOK, ToReset
<1>6. Stacks'
  <2>1. Ordered(parent)' /\ Ordered(mem)'
    BY <1>1, <1>2, <1>3 DEF Stacks, Ordered, Before
  <2>2. AnchorsOnTrunk => \A c \in Branch : kind'[c] = "anchor" => parent'[c] = Trunk
    BY <1>1, <1>3 DEF Stacks, p, PlanSound
  <2>3. \A x \in Node : tip'[x] \in was'[x] /\ snap'[x] \in was'[x]
    BY <1>1, <1>4 DEF Stacks, Types, TypeOK
  <2> QED
    BY <2>1, <2>2, <2>3 DEF Stacks
<1>7. RealParents'
  BY <1>1, <1>2, <1>3, <1>4 DEF RealParents, ParentRevisionsAreReal, Types, TypeOK, IsAnchor, Node
<1>8. PlanSound'
  <2>1. \A c \in Branch : item[c].act \in {"frozen", "record"} => parent'[c] = parent[c]
    BY <1>1, <1>3 DEF p
  <2>2. \A x \in Node : Real(x) \subseteq Real(x)'
    BY <1>1, <1>4 DEF Real, IsAnchor, Node
  <2>3. \A c \in Branch : Chain(c)' = Chain(c)
    BY <1>1, ChainIs
  <2> QED
    BY <1>1, <1>2, <1>4, <2>1, <2>2, <2>3 DEF PlanSound, Before, Node
<1>9. Placed'
  <2>1. /\ Applicable' = Applicable
        /\ \A c : (Excluded(c)' <=> Excluded(c)) /\ (HeldBack(c)' <=> HeldBack(c))
    BY <1>1, ChainIs DEF Excluded, HeldBack, Applicable
  <2>2. newRev[b] # None => newRev[b] \in was'[b]
    BY <1>4 DEF Target, PlanSound
  <2> QED
    BY <1>1, <1>4, <2>1, <2>2 DEF Placed, Node
<1>10. Worktrees'
  <2>1. b \in edited => b \in fresh
    BY <1>1, OwnChain DEF Worktrees, Free, HeldBack
  <2>2. \A c \in CheckedOut : c # b => tip'[c] = tip[c]
    BY <1>1, ConstantsAssumption DEF Types, TypeOK, Node
  <2> QED
    BY <1>1, <2>1, <2>2, ConstantsAssumption DEF Worktrees, ToReset, Types, TypeOK, Node
<1>11. Idle'
  BY <1>1 DEF Idle
<1> QED
  BY <1>5, <1>6, <1>7, <1>8, <1>9, <1>10, <1>11

LEMMA MetadataRefreshStep ==
    ASSUME Inv, NEW b \in Branch, MetadataRefresh(b)
    PROVE  Inv'
<1> USE DEF Inv, treeVars, planVars, pastVars, counters
<1>1. /\ UNCHANGED <<tip, parent, kind, merged, remote, treeVars, phase, planVars, snap, held,
                     files, stale, pastVars, counters>>
      /\ phase = "apply" /\ todo' = todo \ {b} /\ item[b].act = "record"
      /\ base' = [base EXCEPT ![b] = item[b].rev]
  BY DEF MetadataRefresh, Free, Turn
<1>2. item[b].rev \in Real(parent[b]) /\ item[b].rev \in Revision
  <2>1. item[b].rev \in Real(parent[b])
    BY <1>1 DEF PlanSound
  <2> QED
    BY <2>1 DEF Real, Types, TypeOK, Node
<1>3. Types'
  BY <1>1, <1>2 DEF Types, TypeOK
<1>4. Stacks'
  BY <1>1 DEF Stacks, Ordered, Before
<1>5. RealParents'
  BY <1>1, <1>2 DEF RealParents, ParentRevisionsAreReal, Types, TypeOK, Real, IsAnchor
<1>6. PlanSound'
  BY <1>1, ChainIs DEF PlanSound, Before, Real, IsAnchor
<1>7. Placed'
  <2>1. /\ Applicable' = Applicable
        /\ \A c : (Excluded(c)' <=> Excluded(c)) /\ (HeldBack(c)' <=> HeldBack(c))
    BY <1>1, ChainIs DEF Excluded, HeldBack, Applicable
  <2>2. newRev[b] = None
    BY <1>1 DEF PlanSound
  <2> QED
    BY <1>1, <2>1, <2>2 DEF Placed
<1>8. Worktrees' /\ Idle'
  BY <1>1 DEF Worktrees, Idle
<1> QED
  BY <1>3, <1>4, <1>5, <1>6, <1>7, <1>8

LEMMA ResetWorktreeStep ==
    ASSUME Inv, ResetWorktree
    PROVE  Inv'
<1> USE DEF Inv, gitVars, planVars, pastVars, counters
<1>1. /\ UNCHANGED <<gitVars, phase, planVars, snap, held, files, todo, pastVars, counters>>
      /\ stale # None /\ stale' = None /\ edited' = edited \ {stale}
      /\ wt' = [wt EXCEPT ![stale] = tip[stale]]
      /\ file' = [file EXCEPT ![stale] = IF @ # None /\ @ \in ToSet(tip[stale]) THEN None ELSE @]
  BY DEF ResetWorktree
<1>2. stale \in CheckedOut /\ tip[stale] \in Revision
  BY <1>1, ConstantsAssumption DEF Types, TypeOK, Node
<1>3. Types'
  <2>1. wt' \in [CheckedOut -> Revision] /\ file' \in [CheckedOut -> Patch \cup {None}]
    BY <1>1, <1>2 DEF Types, TypeOK
  <2> QED
    BY <1>1, <1>2, <2>1 DEF Types, TypeOK
<1>4. Stacks' /\ RealParents'
  BY <1>1 DEF Stacks, Ordered, Before, RealParents, ParentRevisionsAreReal, IsAnchor
<1>5. PlanSound'
  BY <1>1, ChainIs DEF PlanSound, Before, Real, IsAnchor
<1>6. Placed'
  <2>1. /\ Applicable' = Applicable
        /\ \A c : (Excluded(c)' <=> Excluded(c)) /\ (HeldBack(c)' <=> HeldBack(c))
    BY <1>1, ChainIs DEF Excluded, HeldBack, Applicable
  <2> QED
    BY <1>1, <2>1 DEF Placed
<1>7. Worktrees' /\ Idle'
  BY <1>1, <1>2, ConstantsAssumption DEF Worktrees, Idle, Types, TypeOK, Node
<1> QED
  BY <1>3, <1>4, <1>5, <1>6, <1>7

\* A pass that is over leaves the worktrees of the branches as they should be,
\* unless it has been killed.
LEMMA OverStep ==
    ASSUME Inv, Over, UNCHANGED <<gitVars, treeVars, pastVars, made>>,
           crashes' \in Nat, (stale = None /\ crashes' = crashes) \/ crashes' > 0
    PROVE  Inv'
<1> USE DEF Inv, gitVars, treeVars, pastVars
<1>1. /\ UNCHANGED <<gitVars, treeVars, pastVars, made>>
      /\ phase' = "idle" /\ scope' = {} /\ mem' = parent
      /\ item' = [b \in Branch |-> Skip]
      /\ newRev' = NoRevs /\ failed' = {} /\ report' = FALSE
      /\ snap' = tip /\ held' = {} /\ files' = [b \in CheckedOut |-> None]
      /\ todo' = {} /\ stale' = None
  BY DEF Over
<1>2. NoRevs \in [Branch -> Revision \cup {None}]
  BY DEF NoRevs
<1>3. Types'
  <2>1. item' \in [Branch -> Items] /\ \A b \in Branch : item'[b].act = "skip"
    BY <1>1 DEF Skip, Items, Revs
  <2> QED
    BY <1>1, <1>2, <2>1 DEF Types, TypeOK
<1>4. Stacks' /\ RealParents'
  BY <1>1 DEF Stacks, Ordered, Before, RealParents, ParentRevisionsAreReal, IsAnchor
<1>5. PlanSound'
  <2>1. \A b \in Branch : item'[b].act = "skip" /\ newRev'[b] = None
    BY <1>1 DEF Skip, NoRevs
  <2> QED
    BY <2>1 DEF PlanSound
<1>6. Placed' /\ Worktrees' /\ Idle'
  BY <1>1, ConstantsAssumption DEF Placed, Worktrees, Idle, Types, TypeOK, Node
<1> QED
  BY <1>3, <1>4, <1>5, <1>6

LEMMA EndStep ==
    ASSUME Inv, Finish \/ Crash \/ \E b \in Branch : UpdateRefsFails(b)
    PROVE  Inv'
<1>1. CASE Finish
  BY <1>1, OverStep DEF Finish, counters, Inv, Types
<1>2. CASE Crash
  BY <1>2, OverStep DEF Crash, counters, Inv, Types
<1>3. CASE \E b \in Branch : UpdateRefsFails(b)
  BY <1>3, OverStep DEF UpdateRefsFails, Free, Turn, counters, Inv, Types
<1> QED
  BY <1>1, <1>2, <1>3

-----------------------------------------------------------------------------
(* Everybody else.                                                         *)

\* What users may do: they change a tip, or none, and the worktrees that were
\* their branches' stay so.
Harmless ==
    /\ UNCHANGED <<parent, base, kind, passVars>>
    /\ crashes' = crashes /\ made' \in made .. MaxPatches
    /\ tip' \in [Node -> Revision] /\ was' \in [Node -> SUBSET Revision]
    /\ \A x \in Node : was[x] \subseteq was'[x] /\ tip'[x] \in was'[x]
    /\ remote' \in [Branch -> Revision] /\ merged' \subseteq Branch
    /\ wt' \in [CheckedOut -> Revision] /\ edited' \subseteq CheckedOut
    /\ file' \in [CheckedOut -> Patch \cup {None}]
    /\ \A b \in CheckedOut : wt[b] = tip[b] => wt'[b] = tip'[b]
    /\ fresh \subseteq fresh' /\ edited' \subseteq edited \cup fresh'
    /\ alive' \in [Branch -> SUBSET Patch]
    /\ \A b \in Branch : \A p \in alive'[b] : p.n <= made'

LEMMA HarmlessStep ==
    ASSUME Inv, Harmless
    PROVE  Inv'
<1> USE DEF Inv, passVars, planVars
<1>1. /\ UNCHANGED <<parent, base, kind, passVars>>
      /\ \A x \in Node : was[x] \subseteq was'[x] /\ tip'[x] \in was'[x]
  BY DEF Harmless
<1>2. Types'
  <2>1. made' \in 0 .. MaxPatches
    BY ConstantsAssumption DEF Types, Harmless
  <2> QED
    BY <2>1 DEF Types, TypeOK, Harmless
<1>3. Stacks'
  BY <1>1 DEF Stacks, Ordered, Before
<1>4. RealParents'
  BY <1>1 DEF RealParents, ParentRevisionsAreReal, IsAnchor, Types, TypeOK, Node
<1>5. PlanSound'
  <2>1. \A x \in Node : Real(x) \subseteq Real(x)'
    BY <1>1 DEF Real, IsAnchor, Node
  <2>2. \A b \in Branch : Chain(b)' = Chain(b)
    BY <1>1, ChainIs
  <2>3. parent \in [Branch -> Node] /\ Trunk \in Node
    BY DEF Types, TypeOK, Node
  <2> QED
    BY <1>1, <2>1, <2>2, <2>3 DEF PlanSound, Before
<1>6. Placed'
  <2>1. /\ Applicable' = Applicable
        /\ \A c : (Excluded(c)' <=> Excluded(c)) /\ (HeldBack(c)' <=> HeldBack(c))
    BY <1>1, ChainIs DEF Excluded, HeldBack, Applicable
  <2> QED
    BY <1>1, <2>1 DEF Placed, Node
<1>7. Worktrees'
  BY <1>1 DEF Worktrees, Harmless, Types, TypeOK
<1>8. Idle'
  BY <1>1 DEF Idle
<1> QED
  BY <1>2, <1>3, <1>4, <1>5, <1>6, <1>7, <1>8

LEMMA MakeIs ==
    ASSUME Inv, NEW x \in Node, NEW r \in Revision, Make(x, r)
    PROVE  /\ UNCHANGED <<parent, base, kind, passVars, fresh, crashes>>
           /\ made' \in made .. MaxPatches /\ made' = made + 1
           /\ tip' \in [Node -> Revision] /\ was' \in [Node -> SUBSET Revision]
           /\ \A y \in Node : /\ was[y] \subseteq was'[y] /\ tip'[y] \in was'[y]
                              /\ y # x => tip'[y] = tip[y]
           /\ tip'[x] = r
<1>1. /\ tip \in [Node -> Revision] /\ was \in [Node -> SUBSET Revision]
      /\ made \in 0 .. MaxPatches /\ \A y \in Node : tip[y] \in was[y]
  BY DEF Inv, Types, TypeOK, Stacks
<1>2. /\ UNCHANGED <<parent, base, kind, passVars, fresh, crashes>>
      /\ made < MaxPatches /\ made' = made + 1
      /\ tip' = [tip EXCEPT ![x] = r] /\ was' = [was EXCEPT ![x] = @ \cup {r}]
  BY DEF Make
<1> QED
  BY <1>1, <1>2, ConstantsAssumption

LEMMA NewPatchIs ==
    ASSUME Inv, NEW x \in Node, made < MaxPatches
    PROVE  NewPatch(x) \in Patch /\ NewPatch(x).n = made + 1
BY ConstantsAssumption DEF Inv, Types, NewPatch, Patch

\* Without its last commit a revision is one.
LEMMA FrontIs ==
    ASSUME NEW S, NEW r \in Seq(S)
    PROVE  Front(r) \in Seq(S) /\ (r # <<>> => Len(Front(r)) = Len(r) - 1)
<1> DEFINE n == Len(r) - 1
<1>1. Front(r) = SubSeq(r, 1, n)
  BY DEF Front
<1>2. Len(r) \in Nat /\ n \in Int /\ 1 \in Int /\ \A i \in 1 .. n : r[i] \in S
  BY LenProperties, ElementOfSeq
<1>3. r # <<>> => n \in Nat
  BY <1>2, EmptySeq
<1> HIDE DEF n
<1>4. Front(r) \in Seq(S)
  BY <1>1, <1>2, SubSeqProperties
<1>5. Len(Front(r)) = IF 1 <= n THEN n - 1 + 1 ELSE 0
  BY <1>1, <1>2, SubSeqProperties
<1>6. r # <<>> => Len(Front(r)) = n
  BY <1>2, <1>3, <1>5
<1> QED
  BY <1>4, <1>6 DEF n

\* A commit, or an amended one, is a new tip.
LEMMA CommitIs ==
    ASSUME Inv, NEW b \in Branch, Commit(b) \/ Amend(b)
    PROVE  /\ Harmless /\ tip'[b] # tip[b] /\ \A x \in Node \ {b} : tip'[x] = tip[x]
           /\ edited' = edited \ {b} /\ UNCHANGED <<file, phase, stale, todo, held>>
           /\ wt' = [x \in CheckedOut |-> IF x = b THEN tip'[b] ELSE wt[x]]
<1> DEFINE r == IF Commit(b) THEN Append(tip[b], NewPatch(b))
                ELSE Append(Front(tip[b]), NewPatch(b))
<1>1. /\ tip[b] \in Seq(Patch) /\ alive \in [Branch -> SUBSET Patch] /\ b \in Node
      /\ made \in 0 .. MaxPatches /\ \A c \in Branch : \A p \in alive[c] : p.n <= made
      /\ wt \in [CheckedOut -> Revision] /\ edited \subseteq CheckedOut
  BY DEF Inv, Types, TypeOK, Node, Revision
<1>2. /\ UNCHANGED <<merged, remote, file>> /\ edited' = edited \ {b} /\ made < MaxPatches
      /\ wt' = [x \in CheckedOut |-> IF x = b THEN tip'[b] ELSE wt[x]]
  BY DEF Commit, Amend, Make
<1>3. NewPatch(b) \in Patch /\ NewPatch(b).n = made + 1
  BY <1>1, <1>2, NewPatchIs
<1>4. ASSUME Commit(b)
      PROVE  /\ r \in Seq(Patch) /\ r # tip[b] /\ Make(b, r)
             /\ alive' = [alive EXCEPT ![b] = @ \cup {NewPatch(b)}]
  <2>1. Make(b, r) /\ alive' = [alive EXCEPT ![b] = @ \cup {NewPatch(b)}] /\ r = Append(tip[b], NewPatch(b))
    BY <1>4 DEF Commit
  <2> HIDE DEF r
  <2>2. r \in Seq(Patch) /\ Len(r) = Len(tip[b]) + 1 /\ Len(tip[b]) \in Nat
    BY <1>1, <1>3, <2>1, AppendProperties, LenProperties
  <2> QED
    BY <2>1, <2>2
<1>5. ASSUME Amend(b), ~Commit(b)
      PROVE  /\ r \in Seq(Patch) /\ r # tip[b] /\ Make(b, r)
             /\ alive' = [alive EXCEPT ![b] = (@ \ {Last(tip[b])}) \cup {NewPatch(b)}]
  <2>1. /\ Make(b, r) /\ r = Append(Front(tip[b]), NewPatch(b))
        /\ alive' = [alive EXCEPT ![b] = (@ \ {Last(tip[b])}) \cup {NewPatch(b)}]
        /\ tip[b] # <<>> /\ Last(tip[b]) \in alive[b]
    BY <1>5 DEF Amend
  <2>2. Len(tip[b]) \in Nat /\ Len(tip[b]) > 0
    BY <1>1, <2>1, LenProperties, EmptySeq
  <2>3. Front(tip[b]) \in Seq(Patch) /\ Len(Front(tip[b])) = Len(tip[b]) - 1
    BY <1>1, <2>1, FrontIs
  <2> HIDE DEF r
  <2>4. r \in Seq(Patch) /\ Len(r) = Len(tip[b]) /\ r[Len(r)] = NewPatch(b)
    <3>1. r \in Seq(Patch) /\ Len(r) = Len(tip[b]) - 1 + 1 /\ r[Len(tip[b]) - 1 + 1] = NewPatch(b)
      BY <1>3, <2>1, <2>3, AppendProperties
    <3> QED
      BY <2>2, <3>1
  <2>5. Last(tip[b]).n <= made /\ Last(tip[b]) = tip[b][Len(tip[b])]
    BY <1>1, <2>1 DEF Last
  <2>6. r # tip[b]
    BY <1>1, <1>3, <2>4, <2>5
  <2> QED
    BY <2>1, <2>4, <2>6
<1>6. r \in Revision /\ r # tip[b] /\ Make(b, r)
  BY <1>4, <1>5 DEF Revision
<1>7. /\ alive' \in [Branch -> SUBSET Patch]
      /\ \A c \in Branch : alive'[c] \subseteq alive[c] \cup {NewPatch(b)}
  BY <1>1, <1>3, <1>4, <1>5
<1> HIDE DEF r
<1>8. /\ UNCHANGED <<parent, base, kind, passVars, fresh, crashes>>
      /\ made' \in made .. MaxPatches /\ made' = made + 1
      /\ tip' \in [Node -> Revision] /\ was' \in [Node -> SUBSET Revision]
      /\ \A y \in Node : /\ was[y] \subseteq was'[y] /\ tip'[y] \in was'[y]
                         /\ y # b => tip'[y] = tip[y]
      /\ tip'[b] = r
  BY <1>1, <1>6, MakeIs
<1>9. \A c \in Branch : \A p \in alive'[c] : p.n <= made'
  <2>1. made \in Int /\ \A p \in Patch : p.n \in Int
    BY <1>1 DEF Patch
  <2> QED
    BY <1>1, <1>3, <1>7, <1>8, <2>1
<1>10. wt' \in [CheckedOut -> Revision] /\ \A c \in CheckedOut : wt[c] = tip[c] => wt'[c] = tip'[c]
  BY <1>1, <1>2, <1>8, ConstantsAssumption DEF Node
<1>11. Harmless
  BY <1>1, <1>2, <1>7, <1>8, <1>9, <1>10 DEF Harmless, Inv, Types, TypeOK
<1> QED
  BY <1>2, <1>6, <1>8, <1>11 DEF passVars

\* Trunk receives a commit, or a branch.
LEMMA TrunkIs ==
    ASSUME Inv, AdvanceTrunk \/ \E b \in Branch : LandSquashed(b) \/ LandRebased(b)
    PROVE  Harmless /\ UNCHANGED <<treeVars, alive, parent, passVars, fresh>>
           /\ \A b \in Branch : tip'[b] = tip[b]
<1>1. /\ tip \in [Node -> Revision] /\ Trunk \in Node /\ Trunk \notin Branch
  BY ConstantsAssumption DEF Inv, Types, TypeOK, Node
<1>2. \E r \in Revision : Make(Trunk, r)
  <2>1. ASSUME made < MaxPatches PROVE Append(tip[Trunk], NewPatch(Trunk)) \in Revision
    BY <1>1, <2>1, NewPatchIs, AppendProperties DEF Revision
  <2>2. CASE AdvanceTrunk
    BY <2>1, <2>2 DEF AdvanceTrunk, Make
  <2>3. ASSUME NEW b \in Branch, LandSquashed(b) PROVE \E r \in Revision : Make(Trunk, r)
    BY <2>1, <2>3 DEF LandSquashed, Make
  <2>4. ASSUME NEW b \in Branch, LandRebased(b) PROVE \E r \in Revision : Make(Trunk, r)
    <3>1. Replay(tip[Trunk], tip[Trunk], tip[b]) \in Revision
      BY <1>1, ReplayIs DEF Revision, Node
    <3> QED
      BY <2>4, <3>1 DEF LandRebased
  <2> QED
    BY <2>2, <2>3, <2>4
<1>3. /\ UNCHANGED <<remote, treeVars, alive>> /\ merged' \subseteq Branch
  BY DEF AdvanceTrunk, LandSquashed, LandRebased, Inv, Types, TypeOK
<1>4. /\ UNCHANGED <<parent, base, kind, passVars, fresh, crashes>>
      /\ made' \in made .. MaxPatches /\ made' = made + 1
      /\ tip' \in [Node -> Revision] /\ was' \in [Node -> SUBSET Revision]
      /\ \A y \in Node : was[y] \subseteq was'[y] /\ tip'[y] \in was'[y]
      /\ \A y \in Branch : tip'[y] = tip[y]
  BY <1>1, <1>2, MakeIs DEF Node
<1>5. \A c \in Branch : \A p \in alive'[c] : p.n <= made'
  <2>1. made \in Int /\ \A p \in Patch : p.n \in Int
    BY DEF Inv, Types, Patch
  <2> QED
    BY <1>3, <1>4, <2>1 DEF Inv, Types
<1> QED
  BY <1>3, <1>4, <1>5, ConstantsAssumption DEF Harmless, treeVars, Inv, Types, TypeOK

\* A push to a frozen branch, an edit, a new file: no tip changes.
LEMMA LocalIs ==
    ASSUME Inv, NEW b \in Branch, RemoteAdvances(b) \/ Edit(b) \/ NewFile(b)
    PROVE  Harmless /\ UNCHANGED <<tip, wt, passVars>> /\ edited \subseteq edited'
<1> USE DEF Inv, gitVars, passVars, planVars
<1>1. /\ tip \in [Node -> Revision] /\ made \in 0 .. MaxPatches /\ b \in Node
      /\ \A c \in Branch : \A p \in alive[c] : p.n <= made
  BY DEF Types, TypeOK, Node
<1>2. CASE RemoteAdvances(b)
  <2>1. /\ UNCHANGED <<tip, parent, base, kind, merged, treeVars, passVars,
                       alive, was, fresh, crashes>>
        /\ made < MaxPatches /\ made' = made + 1
    BY <1>2 DEF RemoteAdvances
  <2>2. PICK r \in {remote[b], Front(remote[b])} :
               remote' = [remote EXCEPT ![b] = Append(r, NewPatch(b))]
    BY <1>2 DEF RemoteAdvances
  <2>3. r \in Seq(Patch)
    BY <2>2, FrontIs DEF Types, TypeOK, Revision
  <2>4. remote' \in [Branch -> Revision]
    BY <1>1, <2>1, <2>2, <2>3, NewPatchIs, AppendProperties DEF Types, TypeOK, Revision
  <2>5. \A c \in Branch : \A p \in alive[c] : p.n <= made'
    <3>1. \A p \in Patch : p.n \in Int
      BY DEF Patch
    <3> QED
      BY <1>1, <2>1, <3>1 DEF Types
  <2> QED
    BY <1>1, <2>1, <2>4, <2>5, ConstantsAssumption
    DEF Harmless, treeVars, Types, TypeOK, Stacks
<1>3. CASE Edit(b)
  BY <1>1, <1>3, ConstantsAssumption DEF Edit, Touch, Harmless, Types, TypeOK, Stacks
<1>4. CASE NewFile(b)
  <2>1. /\ UNCHANGED <<gitVars, wt, passVars, alive, was, made, crashes, edited>>
        /\ fresh \subseteq fresh' /\ b \in CheckedOut
    BY <1>4 DEF NewFile, Touch
  <2>2. PICK p \in [home : Node \ {b}, n : 0 .. MaxPatches] \ ToSet(tip[b]) :
               file' = [file EXCEPT ![b] = p]
    BY <1>4 DEF NewFile
  <2>3. p \in Patch
    BY <2>2 DEF Patch
  <2>4. file' \in [CheckedOut -> Patch \cup {None}]
    BY <2>2, <2>3 DEF Types, TypeOK
  <2> QED
    BY <1>1, <2>1, <2>4, ConstantsAssumption DEF Harmless, Types, TypeOK, Stacks
<1> QED
  BY <1>2, <1>3, <1>4

-----------------------------------------------------------------------------
(* What holds.                                                             *)

\* Every step keeps the invariant.
LEMMA InvStep ==
    ASSUME Inv, [Next]_vars
    PROVE  Inv'
<1>1. CASE \E S \in Scopes : Plan(S)
  <2>1. PICK S \in Scopes : Plan(S)
    BY <1>1
  <2>2. S \subseteq Branch
    BY DEF Scopes
  <2> QED
    BY <2>1, <2>2, PlanStep
<1>2. CASE Passing
  <2>1. CASE Collect \/ Inspect \/ ResetWorktree \/ Finish
    BY <2>1, CollectStep, InspectStep, ResetWorktreeStep, EndStep
  <2>2. ASSUME NEW b \in Branch,
               \/ ValidateSpec(b) \/ HoldBack(b) \/ UpdateRefs(b)
               \/ UpdateRefsFails(b) \/ MetadataRefresh(b)
        PROVE  Inv'
    BY <2>2, ValidateSpecStep, HoldBackStep, UpdateRefsStep, EndStep, MetadataRefreshStep
  <2> QED
    BY <1>2, <2>1, <2>2 DEF Passing
<1>3. CASE Crash
  BY <1>3, EndStep
<1>4. CASE Users
  BY <1>4, CommitIs, TrunkIs, LocalIs, HarmlessStep DEF Users
<1>5. CASE UNCHANGED vars
  <2>1. Harmless
    BY <1>5, ConstantsAssumption
    DEF vars, gitVars, treeVars, passVars, planVars, pastVars, counters, Harmless,
        Inv, Types, TypeOK, Stacks
  <2> QED
    BY <2>1, HarmlessStep
<1> QED
  BY <1>1, <1>2, <1>3, <1>4, <1>5 DEF Next

LEMMA AlwaysInv == Spec => []Inv
<1>1. Init => Inv
  BY FirstInv
<1>2. Inv /\ [Next]_vars => Inv'
  BY InvStep
<1> QED
  BY <1>1, <1>2, PTL DEF Spec

\* What the model keeps is of its type, whatever users, other passes and
\* crashes do.
THEOREM TypeCorrect == Spec => []TypeOK
<1>1. Inv => TypeOK
  BY DEF Inv, Types
<1> QED
  BY <1>1, AlwaysInv, PTL

\* A restack records no parent revision that was not real: the one it records
\* is one the parent has had.
THEOREM AlwaysCoherent ==
    ASSUME AnchorsOnTrunk
    PROVE  Spec => []Coherent
<1>1. Inv => Coherent
  BY DEF Inv, Types, RealParents, Coherent
<1> QED
  BY <1>1, AlwaysInv, PTL

\* Between commands every worktree shows its branch, unless one was killed.
THEOREM WorktreesAlwaysFollow == Spec => []WorktreesFollow
<1>1. Inv => WorktreesFollow
  BY ConstantsAssumption DEF Inv, Worktrees, WorktreesFollow, Node
<1> QED
  BY <1>1, AlwaysInv, PTL

\* Changes that are there when a pass looks at a worktree are never discarded:
\* only a reset discards changes, and only of a worktree that has been touched
\* since it was looked at.
THEOREM EditsAlwaysSurvive == Spec => EditsSurvive
<1>1. ASSUME Inv, [Next]_vars
      PROVE  [\A b \in edited \ edited' : tip'[b] = tip[b] => b \in fresh]_vars
  <2> SUFFICES ASSUME Next, NEW b \in edited \ edited', tip'[b] = tip[b]
               PROVE  b \in fresh
    BY <1>1
  <2>1. b \in CheckedOut /\ b \in Branch
    BY <1>1, ConstantsAssumption DEF Inv, Types, TypeOK
  <2>2. CASE edited' = edited
    BY <2>2
  <2>3. CASE ResetWorktree
    BY <2>3, <1>1 DEF ResetWorktree, Inv, Worktrees
  <2>4. ASSUME NEW c \in Branch, Commit(c) \/ Amend(c) PROVE FALSE
    <3>1. edited' = edited \ {c} /\ tip'[c] # tip[c]
      BY <1>1, <2>4, CommitIs
    <3> QED
      BY <3>1
  <2>5. CASE \E c \in Branch : Edit(c)
    BY <2>5 DEF Edit
  <2> QED
    BY <2>2, <2>3, <2>4, <2>5
    DEF Next, Passing, Users, Plan, ValidateSpec, Collect, Inspect, HoldBack, UpdateRefs,
        UpdateRefsFails, MetadataRefresh, Finish, Crash, AdvanceTrunk, LandSquashed,
        LandRebased, RemoteAdvances, NewFile, treeVars
<1> QED
  BY <1>1, AlwaysInv, PTL DEF Spec, EditsSurvive

-----------------------------------------------------------------------------
(* What a pass moves: stacks as a whole, and nothing over files it has     *)
(* looked at.  A branch is rebased onto where its parent will be.  That it *)
(* is there when the branch's turn comes follows from the order of the     *)
(* trials and of the updates, as long as nobody else moves branches.       *)

\* Branches on a branch that is to move are to move with it, to the same place.
PlanFollows ==
    \A b \in Branch :
      LET i == item[b] p == item[b].onto
      IN /\ i.act = "rebase" /\ p # Trunk
            => /\ item[p].to # None => i.pin = item[p].to
               /\ i.pin # None => item[p].to # None \/ IsAnchor(p)
         /\ i.act = "rebase" /\ p = Trunk => i.pin = None
         /\ i.act \notin {"anchor", "frozen"} => i.to = None
         /\ i.act = "anchor" => p = Trunk /\ (calm => i.to = tip[Trunk])
         /\ b \in scope /\ kind[b] = "plain" /\ i.act \notin Moving /\ mem[b] # Trunk
            => b \in merged \/ item[mem[b]].act \notin Moving

\* Trials go up the stacks, and leave a branch on top of what it is to be on.
TrialsFollow ==
    \A b \in Branch : newRev[b] # None =>
        /\ item[b].onto # Trunk /\ item[item[b].onto].act = "rebase"
           => newRev[item[b].onto] # None
        /\ calm => IsAncestor(Onto(b), newRev[b])
        /\ calm /\ (phase = "apply" => b \notin moved)
           => ToSet(newRev[b]) \subseteq ToSet(Onto(b)) \cup ToSet(tip[b])

\* Every trial has had an outcome when updates begin.
Tried ==
    phase \in {"inspect", "apply"}
    => \A b \in Branch : item[b].act = "rebase" /\ newRev[b] = None => b \in failed

\* The engine's memory is right but for what the pass itself has moved.
Remembered ==
    \A b \in Branch : \/ parent[b] = mem[b]
                      \/ phase = "apply" /\ b \in moved /\ item[b].act = "rebase"

\* The pass has moved what it says, where it was to go, and of what it was to
\* move it has left out only what is in conflict or held back.
Moves ==
    /\ moved \subseteq Branch
    /\ phase \in {"validate", "inspect"} => moved = {}
    /\ phase = "apply"
       => \A b \in moved : /\ item[b].act \in Moving /\ b \in Applicable /\ b \notin todo
                           /\ ~Excluded(b)
                           /\ item[b].act = "rebase" => parent[b] = item[b].onto
                           /\ calm => tip[b] = Target(b)
    /\ phase \in {"inspect", "apply"}
       => \A b \in Applicable : item[b].act \in Moving
             => b \in todo \/ Excluded(b) \/ (phase = "apply" /\ (b \in moved \/ HeldBack(b)))

\* The names that a reset of b brings in are those of the parent it has had.
Familiar(b) == kind[b] # "frozen" /\ item[b].onto = mem[b] /\ ~IsAnchor(mem[b])

\* Untracked files have names the branch does not use, and the pass knows them.
Files ==
    /\ \A b \in CheckedOut : file[b] # None
          => file[b].home # b /\ (wt[b] = tip[b] => file[b] \notin ToSet(tip[b]))
    /\ stale \notin todo
    /\ phase = "apply"
       => \A b \in (todo \cap CheckedOut) \ held :
             wt[b] = tip[b] /\ (b \notin fresh => files[b] = file[b])
    /\ stale # None /\ calm /\ stale \notin fresh /\ file[stale] # None /\ Familiar(stale)
       => file[stale] \notin ToSet(tip[stale])

PassInv == PlanFollows /\ TrialsFollow /\ Tried /\ Remembered /\ Moves /\ Files

-----------------------------------------------------------------------------
(* Depths.                                                                 *)

\* There are finitely many branches.
LEMMA BranchesAreFinite == IsFiniteSet(Branch)
<1>1. /\ Len(Order) \in Nat /\ DOMAIN Order = 1 .. Len(Order)
      /\ \A i \in 1 .. Len(Order) : Order[i] \in Branch
      /\ \A b \in Branch : \E i \in 1 .. Len(Order) : Order[i] = b
  BY ConstantsAssumption, LenProperties, ElementOfSeq DEF ToSet
<1>2. Order \in [1 .. Len(Order) -> Branch]
  BY <1>1, ConstantsAssumption
<1>3. Order \in Surjection(1 .. Len(Order), Branch)
  BY <1>1, <1>2 DEF Surjection
<1>4. IsFiniteSet(1 .. Len(Order))
  BY <1>1, FS_Interval
<1> QED
  BY <1>3, <1>4, FS_Surjection

\* A branch is higher than those below it.
LEMMA DepthBelow ==
    ASSUME Stacks, NEW b \in Branch, NEW p \in Chain(b), p # b
    PROVE  ~(Depth(b) <= Depth(p))
<1>1. /\ Chain(p) \subseteq Chain(b) /\ b \in Chain(b) /\ p \in Branch /\ Before(p, b)
      /\ \A q \in Chain(p) : q = p \/ Before(q, p)
  BY PathIs, PathBelow, ChainIs DEF Stacks, Node
<1>2. b \notin Chain(p)
  BY <1>1, BeforeIs DEF Node
<1>3. IsFiniteSet(Chain(b))
  <2>1. Chain(b) \subseteq Branch
    BY PathIs, ChainIs DEF Stacks, Node
  <2> QED
    BY <2>1, BranchesAreFinite, FS_Subset
<1>4. /\ Cardinality(Chain(p)) <= Cardinality(Chain(b))
      /\ Cardinality(Chain(p)) # Cardinality(Chain(b))
      /\ IsFiniteSet(Chain(p))
  BY <1>1, <1>2, <1>3, FS_Subset
<1>5. Cardinality(Chain(p)) \in Nat /\ Cardinality(Chain(b)) \in Nat
  BY <1>3, <1>4, FS_CardinalityType
<1> QED
  BY <1>4, <1>5 DEF Depth

-----------------------------------------------------------------------------
(* The steps.                                                              *)

LEMMA FirstPass ==
    ASSUME Init
    PROVE  PassInv
<1> USE DEF Init
<1>1. PlanFollows
  BY DEF PlanFollows, Skip
<1>2. TrialsFollow
  BY DEF TrialsFollow, NoRevs
<1>3. Tried /\ Remembered /\ Moves /\ Files
  BY DEF Tried, Remembered, Moves, Files
<1> QED
  BY <1>1, <1>2, <1>3 DEF PassInv

LEMMA PlanPass ==
    ASSUME Inv, Inv', PassInv, NEW S, S \subseteq Branch, Plan(S)
    PROVE  PassInv'
<1> USE DEF Inv, PassInv
<1>1. Shapely /\ item' = PlanOf(S) /\ scope' = S /\ mem' = parent
  BY DEF Plan, Shapely, Types, Stacks
<1>2. /\ item' \in [Branch -> Items]
      /\ \A b \in Branch :
           LET p == NearestValid(b)
           IN item'[b] = IF Unplanned(b, S) THEN Skip
                         ELSE ItemOf(b, IF p = Trunk THEN Skip ELSE item'[p])
  BY <1>1, PlanIs
<1>3. /\ UNCHANGED <<tip, parent, base, kind, merged, remote, wt, file, newRev, todo, stale, fresh>>
      /\ newRev = NoRevs /\ todo = {} /\ stale = None /\ moved' = {} /\ phase' = "validate"
  BY DEF Plan, Idle, Worktrees, gitVars, treeVars, counters
<1>4. /\ parent \in [Branch -> Node] /\ kind \in Kinds /\ Trunk \notin Branch
      /\ Node = Branch \cup {Trunk}
  BY ConstantsAssumption DEF Types, TypeOK, Stacks, Node
<1>5. ASSUME NEW b \in Branch, ~Unplanned(b, S)
      PROVE  /\ kind[b] = "anchor" => item'[b] = AnchorItem(b)
             /\ kind[b] = "frozen" => item'[b] = FrozenItem(b)
             /\ kind[b] = "plain" =>
                  LET p == NearestValid(b)
                  IN item'[b] = PlainItem(b, p, IF p = Trunk THEN Skip ELSE item'[p])
             /\ kind[b] \in {"anchor", "frozen", "plain"}
  <2>1. kind[b] \in {"plain", "locked", "frozen", "anchor"}
    BY <1>4, ConstantsAssumption
  <2> QED
    BY <1>2, <1>5, <2>1 DEF ItemOf, Unplanned
<1>6. ASSUME NEW b \in Branch
      PROVE  LET i == item'[b] p == item'[b].onto
             IN /\ i.act = "rebase" /\ p # Trunk
                   => /\ item'[p].to # None => i.pin = item'[p].to
                      /\ i.pin # None => item'[p].to # None \/ IsAnchor(p)
                /\ i.act = "rebase" /\ p = Trunk => i.pin = None
                /\ i.act \notin {"anchor", "frozen"} => i.to = None
                /\ i.act = "anchor" => p = Trunk /\ i.to = tip[Trunk]
                /\ b \in S /\ kind[b] = "plain" /\ i.act \notin Moving /\ parent[b] # Trunk
                   => b \in merged \/ item'[parent[b]].act \notin Moving
  <2>1. CASE Unplanned(b, S)
    <3>1. item'[b] = Skip
      BY <1>2, <2>1
    <3>2. b \in S /\ kind[b] = "plain" /\ parent[b] # Trunk => b \in merged
      BY <2>1 DEF Unplanned, Landed
    <3> QED
      BY <3>1, <3>2 DEF Skip
  <2>2. CASE ~Unplanned(b, S) /\ kind[b] = "anchor"
    <3>1. item'[b] = AnchorItem(b)
      BY <1>5, <2>2
    <3>2. /\ item'[b].act # "rebase" /\ (item'[b].act # "anchor" => item'[b].to = None)
          /\ item'[b].act = "anchor" => item'[b].onto = Trunk /\ item'[b].to = tip[Trunk]
      BY <3>1 DEF AnchorItem, Skip
    <3> QED
      BY <2>2, <3>2
  <2>3. CASE ~Unplanned(b, S) /\ kind[b] = "frozen"
    <3>1. item'[b] = FrozenItem(b)
      BY <1>5, <2>3
    <3>2. /\ item'[b].act # "rebase" /\ (item'[b].act # "frozen" => item'[b].to = None)
          /\ item'[b].act # "anchor"
      BY <3>1 DEF FrozenItem, Skip
    <3> QED
      BY <2>3, <3>2
  <2>4. CASE ~Unplanned(b, S) /\ kind[b] = "plain"
    <3> DEFINE p == NearestValid(b)
               above == IF p = Trunk THEN Skip ELSE item'[p]
               i == item'[b]
    <3>1. i = PlainItem(b, p, above)
      BY <1>5, <2>4
    <3>2. above = IF p = Trunk THEN Skip ELSE item'[p]
      OBVIOUS
    <3> HIDE DEF p, above, i
    <3>3. /\ i.onto = p /\ i.to = None /\ i.act \in {"rebase", "record", "skip"}
          /\ i.act # "rebase" => p = parent[b] /\ above.act \notin Moving
          /\ i.pin = IF above.to # None THEN above.to
                     ELSE IF tip[p] # BaseOf(p) THEN BaseOf(p) ELSE None
      BY <3>1 DEF PlainItem
    <3>4. tip[p] # BaseOf(p) => IsAnchor(p) /\ p # Trunk
      BY DEF BaseOf, IsAnchor
    <3>5. i.act \notin {"anchor", "frozen"} /\ (i.act \notin Moving => i.act # "rebase")
      BY <3>3 DEF Moving
    <3>6. p = Trunk => i.pin = None
      BY <3>2, <3>3, <3>4 DEF Skip
    <3>7. p # Trunk => /\ above.to # None => i.pin = above.to
                       /\ i.pin # None => above.to # None \/ IsAnchor(p)
      BY <3>3, <3>4
    <3> QED
      BY <3>2, <3>3, <3>5, <3>6, <3>7 DEF i
  <2> QED
    BY <1>5, <2>1, <2>2, <2>3, <2>4
<1>7. PlanFollows'
  BY <1>1, <1>3, <1>6 DEF PlanFollows, IsAnchor
<1>8. TrialsFollow'
  BY <1>3 DEF TrialsFollow, NoRevs
<1>9. Tried' /\ Remembered' /\ Moves' /\ Files'
  BY <1>1, <1>3 DEF Tried, Remembered, Moves, Files
<1> QED
  BY <1>7, <1>8, <1>9

LEMMA ValidatePass ==
    ASSUME Inv, Inv', PassInv, NEW b \in Branch, ValidateSpec(b)
    PROVE  PassInv'
<1> USE DEF Inv, PassInv
<1>1. /\ UNCHANGED <<tip, parent, kind, merged, wt, file, phase, scope, mem, item, todo, stale,
                     moved, fresh, calm>>
      /\ phase = "validate" /\ item[b].act = "rebase" /\ newRev[b] = None
      /\ \A c \in Pending : Depth(b) <= Depth(c)
      /\ \/ newRev' = newRev
         \/ /\ newRev' = [newRev EXCEPT ![b] = Replay(Onto(b), item[b].old, tip[b])]
            /\ Chain(b) \cap failed = {}
  BY DEF ValidateSpec, Pending, gitVars, treeVars, pastVars
<1>2. PlanFollows'
  BY <1>1 DEF PlanFollows, IsAnchor
<1>3. Tried' /\ Remembered' /\ Moves' /\ Files'
  BY <1>1 DEF Tried, Remembered, Moves, Files, Worktrees
<1>4. CASE newRev' = newRev
  BY <1>1, <1>2, <1>3, <1>4 DEF TrialsFollow, Onto
<1>5. CASE /\ newRev' = [newRev EXCEPT ![b] = Replay(Onto(b), item[b].old, tip[b])]
           /\ Chain(b) \cap failed = {}
  <2>1. /\ newRev \in [Branch -> Revs] /\ tip[b] \in Seq(Patch)
        /\ item[b].onto \in Node /\ Onto(b) \in Seq(Patch) /\ item[b].old \in Seq(Patch)
        /\ item[b].onto \in Chain(b) \cup {Trunk} /\ Before(item[b].onto, b)
        /\ None \notin Revision
    BY <1>1, OntoIs, ConstantsAssumption DEF Types, TypeOK, Revs, Revision, Node, PlanSound
  <2> DEFINE r == Replay(Onto(b), item[b].old, tip[b])
  <2>2. /\ IsAncestor(Onto(b), r) /\ ToSet(r) \subseteq ToSet(Onto(b)) \cup ToSet(tip[b])
        /\ r # None
    BY <2>1, ReplayIs DEF Revision
  <2> HIDE DEF r
  <2>3. newRev'[b] = r /\ \A c \in Branch \ {b} : newRev'[c] = newRev[c]
    BY <1>5, <2>1 DEF r
  <2>4. ASSUME NEW p \in Branch, p = item[b].onto, item[p].act = "rebase" PROVE newRev[p] # None
    <3>1. p \in Chain(b) /\ p # b /\ p \notin failed
      BY <1>5, <2>1, <2>4, BeforeIs, ConstantsAssumption
    <3>2. ~(Depth(b) <= Depth(p))
      BY <3>1, DepthBelow
    <3> QED
      BY <1>1, <2>4, <3>1, <3>2 DEF Pending
  <2>5. ASSUME NEW c \in Branch, newRev'[c] # None PROVE Onto(c)' = Onto(c) /\ item[c].onto # b
    <3>1. item[c].onto # b
      <4>1. CASE c = b
        BY <2>1, <4>1, BeforeIs
      <4>2. CASE c # b
        BY <1>1, <2>3, <2>5, <4>2, ConstantsAssumption DEF TrialsFollow
      <4> QED
        BY <4>1, <4>2
    <3>2. item[c].onto \in Node
      BY <1>1, <2>1, <2>3, <2>5, OntoIs DEF PlanSound
    <3> QED
      BY <1>1, <2>3, <3>1, <3>2 DEF Onto, Node
  <2>6. TrialsFollow'
    <3> SUFFICES ASSUME NEW c \in Branch, newRev'[c] # None
                 PROVE  /\ item[c].onto # Trunk /\ item[item[c].onto].act = "rebase"
                           => newRev'[item[c].onto] # None
                        /\ calm => IsAncestor(Onto(c), newRev'[c])
                        /\ calm => ToSet(newRev'[c]) \subseteq ToSet(Onto(c)) \cup ToSet(tip[c])
      BY <1>1, <2>5 DEF TrialsFollow
    <3>1. item[c].onto \in Node /\ item[c].onto # b
      BY <1>1, <2>1, <2>3, <2>5, OntoIs DEF PlanSound
    <3>2. CASE c = b
      BY <2>2, <2>3, <2>4, <3>1, <3>2 DEF Node
    <3>3. CASE c # b
      BY <1>1, <2>3, <3>1, <3>3 DEF TrialsFollow, Node
    <3> QED
      BY <3>2, <3>3
  <2> QED
    BY <1>2, <1>3, <2>6
<1> QED
  BY <1>1, <1>4, <1>5

LEMMA CollectPass ==
    ASSUME Inv, Inv', PassInv, Collect
    PROVE  PassInv'
<1> USE DEF Inv, PassInv
<1>1. /\ UNCHANGED <<tip, parent, kind, merged, wt, file, scope, mem, item, newRev, failed, stale,
                     moved, fresh, calm>>
      /\ phase = "validate" /\ phase' = "inspect" /\ Pending = {}
      /\ todo' = IF report' THEN KeptWhole ELSE Applicable
      /\ stale = None /\ moved = {}
  BY DEF Collect, gitVars, treeVars, pastVars, Worktrees, Moves
<1>2. PlanFollows' /\ Remembered'
  BY <1>1 DEF PlanFollows, IsAnchor, Remembered
<1>3. TrialsFollow'
  BY <1>1 DEF TrialsFollow, Onto
<1>4. Tried'
  BY <1>1 DEF Tried, Pending
<1>5. Moves'
  <2>1. \A c : Excluded(c)' <=> report' /\ \E f \in failed : Root(c) = Root(f)
    BY <1>1, ChainIs DEF Excluded
  <2>2. Applicable' = Applicable /\ \A c \in Applicable : c \in todo' \/ Excluded(c)'
    BY <1>1, <2>1 DEF KeptWhole, Applicable
  <2> QED
    BY <1>1, <2>2 DEF Moves
<1>6. Files'
  <2>1. None \notin todo'
    BY ConstantsAssumption DEF Types, TypeOK, Node
  <2> QED
    BY <1>1, <2>1 DEF Files
<1> QED
  BY <1>2, <1>3, <1>4, <1>5, <1>6

LEMMA InspectPass ==
    ASSUME Inv, Inv', PassInv, Inspect
    PROVE  PassInv'
<1> USE DEF Inv, PassInv
<1>1. /\ UNCHANGED <<tip, parent, kind, merged, wt, file, scope, mem, item, newRev, failed, report,
                     todo, stale, moved, calm>>
      /\ phase = "inspect" /\ phase' = "apply" /\ held' = Changed \cap todo
      /\ files' = [b \in CheckedOut |-> IF b \in Changed THEN None ELSE file[b]]
      /\ stale = None /\ moved = {}
  BY DEF Inspect, gitVars, treeVars, planVars, Worktrees, Moves
<1>2. PlanFollows' /\ Tried'
  BY <1>1 DEF PlanFollows, IsAnchor, Tried
<1>3. TrialsFollow'
  BY <1>1 DEF TrialsFollow, Onto
<1>4. Remembered'
  BY <1>1 DEF Remembered
<1>5. Moves'
  <2>1. Applicable' = Applicable /\ \A c : Excluded(c)' <=> Excluded(c)
    BY <1>1, ChainIs DEF Excluded, Applicable
  <2> QED
    BY <1>1, <2>1 DEF Moves
<1>6. Files'
  <2>1. \A c \in (todo' \cap CheckedOut) \ held' : wt'[c] = tip'[c] /\ files'[c] = file'[c]
    BY <1>1 DEF Changed
  <2> QED
    BY <1>1, <2>1 DEF Files
<1> QED
  BY <1>2, <1>3, <1>4, <1>5, <1>6

LEMMA HoldBackPass ==
    ASSUME Inv, Inv', PassInv, NEW b \in Branch, HoldBack(b)
    PROVE  PassInv'
<1> USE DEF Inv, PassInv
<1>1. /\ UNCHANGED <<tip, parent, kind, merged, wt, file, phase, scope, mem, item, newRev, failed,
                     report, files, stale, moved, fresh, calm>>
      /\ todo' = todo \ {b} /\ held \subseteq held' /\ (HeldBack(b) \/ b \in held')
      /\ phase = "apply" /\ stale = None
  BY DEF HoldBack, Turn, gitVars, treeVars, planVars, pastVars
<1>2. PlanFollows' /\ Tried' /\ Remembered'
  BY <1>1 DEF PlanFollows, IsAnchor, Tried, Remembered
<1>3. TrialsFollow'
  BY <1>1 DEF TrialsFollow, Onto
<1>4. Moves'
  <2>1. /\ \A c : (Excluded(c)' <=> Excluded(c)) /\ (HeldBack(c) => HeldBack(c)')
        /\ Applicable' = Applicable
    BY <1>1, ChainIs DEF Excluded, HeldBack, Applicable
  <2>2. HeldBack(b)'
    BY <1>1, <2>1, OwnChain, ChainIs DEF HeldBack
  <2>3. \A c : Target(c)' = Target(c)
    BY <1>1 DEF Target
  <2> QED
    BY <1>1, <2>1, <2>2, <2>3 DEF Moves
<1>5. Files'
  BY <1>1 DEF Files
<1> QED
  BY <1>2, <1>3, <1>4, <1>5

LEMMA RefreshPass ==
    ASSUME Inv, Inv', PassInv, NEW b \in Branch, MetadataRefresh(b)
    PROVE  PassInv'
<1> USE DEF Inv, PassInv
<1>1. /\ UNCHANGED <<tip, parent, kind, merged, wt, file, phase, scope, mem, item, newRev, failed,
                     report, held, files, stale, moved, fresh, calm>>
      /\ todo' = todo \ {b} /\ item[b].act = "record" /\ phase = "apply" /\ stale = None
  BY DEF MetadataRefresh, Free, Turn, treeVars, planVars, pastVars
<1>2. PlanFollows' /\ Tried' /\ Remembered'
  BY <1>1 DEF PlanFollows, IsAnchor, Tried, Remembered
<1>3. TrialsFollow'
  BY <1>1 DEF TrialsFollow, Onto
<1>4. Moves'
  <2>1. /\ \A c : (Excluded(c)' <=> Excluded(c)) /\ (HeldBack(c)' <=> HeldBack(c))
        /\ Applicable' = Applicable /\ \A c : Target(c)' = Target(c)
    BY <1>1, ChainIs DEF Excluded, HeldBack, Applicable, Target
  <2>2. item[b].act \notin Moving
    BY <1>1 DEF Moving
  <2> QED
    BY <1>1, <2>1, <2>2 DEF Moves
<1>5. Files'
  BY <1>1 DEF Files
<1> QED
  BY <1>2, <1>3, <1>4, <1>5

LEMMA ResetPass ==
    ASSUME Inv, Inv', PassInv, ResetWorktree
    PROVE  PassInv'
<1> USE DEF Inv, PassInv
<1>1. /\ UNCHANGED <<tip, parent, kind, merged, phase, scope, mem, item, newRev, failed, report,
                     held, files, todo, moved, fresh, calm>>
      /\ stale \in CheckedOut /\ stale' = None
      /\ wt' = [wt EXCEPT ![stale] = tip[stale]]
      /\ file' = [file EXCEPT ![stale] =
                    IF @ # None /\ @ \in ToSet(tip[stale]) THEN None ELSE @]
      /\ file \in [CheckedOut -> Patch \cup {None}] /\ wt \in [CheckedOut -> Revision]
  BY DEF ResetWorktree, gitVars, planVars, pastVars, Types, TypeOK
<1>2. PlanFollows' /\ Tried' /\ Remembered'
  BY <1>1 DEF PlanFollows, IsAnchor, Tried, Remembered
<1>3. TrialsFollow'
  BY <1>1 DEF TrialsFollow, Onto
<1>4. Moves'
  <2>1. /\ \A c : (Excluded(c)' <=> Excluded(c)) /\ (HeldBack(c)' <=> HeldBack(c))
        /\ Applicable' = Applicable /\ \A c : Target(c)' = Target(c)
    BY <1>1, ChainIs DEF Excluded, HeldBack, Applicable, Target
  <2> QED
    BY <1>1, <2>1 DEF Moves
<1>5. Files'
  <2>1. \A c \in CheckedOut : /\ c # stale => file'[c] = file[c] /\ wt'[c] = wt[c]
                              /\ file'[c] # None => file'[c] = file[c]
    BY <1>1
  <2>2. file'[stale] # None => file'[stale] \notin ToSet(tip[stale])
    BY <1>1
  <2>3. \A c \in CheckedOut : file'[c] # None
          => file'[c].home # c /\ (wt'[c] = tip[c] => file'[c] \notin ToSet(tip[c]))
    BY <1>1, <2>1, <2>2 DEF Files
  <2>4. None \notin todo
    BY ConstantsAssumption DEF Types, TypeOK, Node
  <2> QED
    BY <1>1, <2>1, <2>3, <2>4 DEF Files
<1> QED
  BY <1>2, <1>3, <1>4, <1>5

LEMMA EndPass ==
    ASSUME Inv, Inv', PassInv, Finish \/ Crash \/ \E b \in Branch : UpdateRefsFails(b)
    PROVE  PassInv'
<1> USE DEF Inv, PassInv
<1>1. /\ UNCHANGED <<tip, parent, wt, file, moved>>
      /\ phase' = "idle" /\ scope' = {} /\ mem' = parent /\ todo' = {} /\ stale' = None
      /\ item' = [b \in Branch |-> Skip] /\ newRev' = NoRevs
  BY DEF Finish, Crash, UpdateRefsFails, Over, gitVars, treeVars, pastVars
<1>2. PlanFollows'
  BY <1>1 DEF PlanFollows, Skip
<1>3. TrialsFollow'
  BY <1>1 DEF TrialsFollow, NoRevs
<1>4. Tried' /\ Remembered' /\ Moves' /\ Files'
  BY <1>1 DEF Tried, Remembered, Moves, Files
<1> QED
  BY <1>2, <1>3, <1>4

\* When it is a branch's turn, what it has been rebased onto is where its new
\* parent is, unless that is an anchor.
LEMMA OntoIsThere ==
    ASSUME Inv, PassInv, NEW b \in Branch, Free(b), item[b].act = "rebase", newRev[b] # None,
           calm, ~IsAnchor(item[b].onto)
    PROVE  Onto(b) = tip[item[b].onto]
<1> USE DEF Inv, PassInv
<1> DEFINE p == item[b].onto
<1>1. p \in Chain(b) \cup {Trunk} /\ p \in Node /\ p # b
  BY OntoIs, BeforeIs DEF PlanSound
<1>2. CASE p = Trunk
  BY <1>2 DEF Onto, PlanFollows
<1>3. CASE p # Trunk
  <2>1. p \in Branch /\ p \notin todo /\ ~HeldBack(p) /\ ~Excluded(p) /\ phase = "apply"
    BY <1>1, <1>3, BelowIsDone
  <2>2. p \in Applicable /\ item[p].act \in Moving => tip[p] = Target(p)
    BY <2>1 DEF Moves
  <2>3. item[p].act # "skip" => p \in scope
    BY <2>1 DEF Types, TypeOK
  <2>4. /\ item[p].to # None => item[b].pin = item[p].to
        /\ item[b].pin # None => item[p].to # None
        /\ item[p].act \notin {"anchor", "frozen"} => item[p].to = None
    BY <1>3, <2>1 DEF PlanFollows
  <2>5. CASE item[p].act = "rebase"
    <3>1. newRev[p] # None
      BY <1>3, <2>5 DEF TrialsFollow
    <3>2. p \in Applicable /\ item[b].pin = None
      BY <2>1, <2>3, <2>4, <2>5, <3>1 DEF Applicable
    <3> QED
      BY <1>3, <2>2, <2>5, <3>1, <3>2 DEF Onto, Target, Moving
  <2>6. CASE item[p].act \in {"anchor", "frozen"}
    <3>1. p \in Applicable /\ item[p].to # None /\ item[b].pin = item[p].to
      BY <2>1, <2>3, <2>4, <2>6 DEF Applicable, PlanSound
    <3> QED
      BY <2>2, <2>6, <3>1 DEF Onto, Target, Moving
  <2>7. CASE item[p].act \notin Moving
    <3>1. item[b].pin = None /\ newRev[p] = None
      BY <2>1, <2>4, <2>7 DEF Moving, PlanSound
    <3> QED
      BY <3>1 DEF Onto
  <2> QED
    BY <2>5, <2>6, <2>7 DEF Moving
<1> QED
  BY <1>2, <1>3

LEMMA UpdatePass ==
    ASSUME Inv, Inv', PassInv, NEW b \in Branch, UpdateRefs(b)
    PROVE  PassInv'
<1> USE DEF Inv, PassInv
<1>1. /\ UNCHANGED <<kind, merged, wt, file, phase, scope, mem, item, newRev, failed, report, held,
                     files, fresh, calm>>
      /\ phase = "apply" /\ stale = None /\ b \in todo /\ todo' = todo \ {b}
      /\ Free(b) /\ ~HeldBack(b) /\ ~Collides(b) /\ item[b].act \in Moving
      /\ tip' = [tip EXCEPT ![b] = Target(b)] /\ moved' = moved \cup {b}
      /\ stale' = ToReset(b)
      /\ parent' = IF item[b].act = "rebase" THEN [parent EXCEPT ![b] = item[b].onto] ELSE parent
  BY DEF UpdateRefs, Free, Turn, treeVars, planVars
<1>2. /\ tip \in [Node -> Revision] /\ parent \in [Branch -> Node] /\ b \in Node /\ b # Trunk
      /\ CheckedOut \subseteq Branch /\ None \notin Branch
      /\ Node = Branch \cup {Trunk}
  BY ConstantsAssumption DEF Types, TypeOK, Node
<1>3. /\ tip'[b] = Target(b) /\ \A x \in Node \ {b} : tip'[x] = tip[x]
      /\ \A c \in Branch \ {b} : parent'[c] = parent[c]
      /\ item[b].act = "rebase" => parent'[b] = item[b].onto
      /\ item[b].act # "rebase" => parent' = parent
  BY <1>1, <1>2
<1>4. /\ b \in Applicable /\ ~Excluded(b) /\ b \notin moved
      /\ item[b].act = "rebase" => newRev[b] # None
      /\ item[b].act # "rebase" => item[b].to # None
  <2>1. b \in Applicable /\ ~Excluded(b) /\ b \notin moved
    BY <1>1 DEF Placed, Moves
  <2> QED
    BY <1>1, <2>1 DEF Applicable, Moving, PlanSound
<1>5. b \in CheckedOut => b \notin held /\ wt[b] = tip[b] /\ (b \notin fresh => files[b] = file[b])
  <2>1. b \notin held
    BY <1>1, OwnChain DEF HeldBack
  <2> QED
    BY <1>1, <2>1 DEF Files
<1>6. PlanFollows'
  BY <1>1, <1>2, <1>3 DEF PlanFollows, IsAnchor
<1>7. TrialsFollow'
  <2>1. ASSUME NEW c \in Branch, newRev[c] # None PROVE Onto(c)' = Onto(c)
    <3>1. item[c].act = "rebase" /\ item[c].onto \in Node
      BY <2>1, OntoIs DEF PlanSound
    <3>2. CASE item[c].onto = b
      <4>1. item[c].pin # None \/ newRev[b] # None
        BY <1>2, <1>4, <3>1, <3>2 DEF PlanFollows
      <4> QED
        BY <1>1, <1>2, <3>2, <4>1 DEF Onto
    <3>3. CASE item[c].onto # b
      BY <1>1, <1>3, <3>1, <3>3 DEF Onto
    <3> QED
      BY <3>2, <3>3
  <2> QED
    BY <1>1, <1>2, <1>3, <2>1 DEF TrialsFollow
<1>8. Tried' /\ Remembered'
  BY <1>1, <1>3 DEF Tried, Remembered
<1>9. Moves'
  <2>1. /\ \A c : (Excluded(c)' <=> Excluded(c)) /\ (HeldBack(c)' <=> HeldBack(c))
        /\ Applicable' = Applicable /\ \A c : Target(c)' = Target(c)
    BY <1>1, ChainIs DEF Excluded, HeldBack, Applicable, Target
  <2>2. \A c \in moved' : /\ item[c].act \in Moving /\ c \in Applicable /\ c \notin todo'
                          /\ ~Excluded(c)
                          /\ item[c].act = "rebase" => parent'[c] = item[c].onto
                          /\ calm => tip'[c] = Target(c)
    <3> SUFFICES ASSUME NEW c \in moved'
                 PROVE  /\ item[c].act \in Moving /\ c \in Applicable /\ c \notin todo'
                        /\ ~Excluded(c)
                        /\ item[c].act = "rebase" => parent'[c] = item[c].onto
                        /\ calm => tip'[c] = Target(c)
      OBVIOUS
    <3>1. CASE c = b
      BY <1>1, <1>3, <1>4, <3>1
    <3>2. CASE c # b
      BY <1>1, <1>2, <1>3, <3>2 DEF Moves
    <3> QED
      BY <3>1, <3>2
  <2> QED
    BY <1>1, <2>1, <2>2 DEF Moves
<1>10. Files'
  <2>1. \A c \in CheckedOut : file[c] # None
          => file[c].home # c /\ (wt[c] = tip'[c] => file[c] \notin ToSet(tip'[c]))
    BY <1>2, <1>3, <1>5 DEF Files
  <2>2. \A c \in (todo' \cap CheckedOut) \ held :
           wt[c] = tip'[c] /\ (c \notin fresh => files[c] = file[c])
    BY <1>1, <1>2, <1>3 DEF Files
  <2>3. stale' \notin todo'
    BY <1>1, <1>2 DEF ToReset, Types, TypeOK
  <2>4. ASSUME b \in CheckedOut, calm, b \notin fresh, file[b] # None, Familiar(b)
        PROVE  file[b] \notin ToSet(tip'[b])
    <3>1. /\ file[b] \notin ToSet(tip[b]) /\ files[b] # None
          /\ file[b] \notin ToSet(tip[mem[b]])
      BY <1>1, <1>5, <2>4 DEF Files, Collides
    <3>2. item[b].onto = mem[b] /\ ~IsAnchor(item[b].onto) /\ kind[b] # "frozen"
      BY <2>4 DEF Familiar
    <3>3. CASE item[b].act = "rebase"
      <4>1. Onto(b) = tip[mem[b]]
        BY <1>1, <1>4, <2>4, <3>2, <3>3, OntoIsThere
      <4>2. ToSet(newRev[b]) \subseteq ToSet(Onto(b)) \cup ToSet(tip[b])
        BY <1>4, <2>4, <3>3 DEF TrialsFollow
      <4> QED
        BY <1>3, <3>1, <3>3, <4>1, <4>2 DEF Target
    <3>4. CASE item[b].act = "anchor"
      BY <1>3, <2>4, <3>1, <3>2, <3>4 DEF PlanFollows, Target
    <3> QED
      BY <1>1, <3>2, <3>3, <3>4 DEF Moving, PlanSound
  <2>5. stale' # None => stale' = b /\ b \in CheckedOut
    BY <1>1 DEF ToReset
  <2>6. Familiar(b)' <=> Familiar(b)
    BY <1>1 DEF Familiar, IsAnchor
  <2> QED
    BY <1>1, <2>1, <2>2, <2>3, <2>4, <2>5, <2>6 DEF Files
<1> QED
  BY <1>6, <1>7, <1>8, <1>9, <1>10

-----------------------------------------------------------------------------
(* Everybody else.                                                         *)

\* What users may do to a pass: move a branch, after which it is not calm any
\* more, or touch a worktree, which is fresh then.
Aside ==
    /\ UNCHANGED <<parent, kind, passVars, moved>>
    /\ merged \subseteq merged' /\ fresh \subseteq fresh'
    /\ calm' => calm /\ tip' = tip
    /\ \A b \in CheckedOut :
          /\ wt[b] = tip[b] => wt'[b] = tip'[b]
          /\ b \notin fresh' => file'[b] = file[b]
          /\ file'[b] # None
             => file'[b].home # b /\ (wt'[b] = tip'[b] => file'[b] \notin ToSet(tip'[b]))

LEMMA AsideStep ==
    ASSUME Inv, Inv', PassInv, Aside
    PROVE  PassInv'
<1> USE DEF Inv, PassInv
<1>1. /\ UNCHANGED <<parent, kind, moved, phase, scope, mem, item, newRev, failed, report,
                     held, files, todo, stale>>
      /\ merged \subseteq merged' /\ fresh \subseteq fresh' /\ (calm' => calm /\ tip' = tip)
  BY DEF Aside, passVars, planVars
<1>2. PlanFollows'
  BY <1>1 DEF PlanFollows, IsAnchor
<1>3. TrialsFollow'
  BY <1>1 DEF TrialsFollow, Onto
<1>4. Tried' /\ Remembered'
  BY <1>1 DEF Tried, Remembered
<1>5. Moves'
  <2>1. /\ \A c : (Excluded(c)' <=> Excluded(c)) /\ (HeldBack(c)' <=> HeldBack(c))
        /\ Applicable' = Applicable /\ \A c : Target(c)' = Target(c)
    BY <1>1, ChainIs DEF Excluded, HeldBack, Applicable, Target
  <2> QED
    BY <1>1, <2>1 DEF Moves
<1>6. Files'
  <2>1. \A c : Familiar(c)' <=> Familiar(c)
    BY <1>1 DEF Familiar, IsAnchor
  <2>2. stale \in CheckedOut \cup {None}
    BY DEF Types, TypeOK
  <2> QED
    BY <1>1, <2>1, <2>2 DEF Files, Aside
<1> QED
  BY <1>2, <1>3, <1>4, <1>5, <1>6

\* The names of a commit are those the branch had, or the branch's own.
LEMMA CommitIsAside ==
    ASSUME Inv, PassInv, NEW b \in Branch, Commit(b) \/ Amend(b)
    PROVE  Aside
<1> USE DEF Inv, PassInv
<1>1. /\ Harmless /\ \A x \in Node \ {b} : tip'[x] = tip[x]
      /\ wt' = [x \in CheckedOut |-> IF x = b THEN tip'[b] ELSE wt[x]] /\ file' = file
  BY CommitIs
<1>2. /\ UNCHANGED <<parent, kind, passVars, moved, fresh, merged>> /\ calm' = FALSE
      /\ made < MaxPatches /\ (b \in CheckedOut => wt[b] = tip[b])
  BY DEF Commit, Amend, Make, InUse
<1>3. /\ tip \in [Node -> Revision] /\ tip[b] \in Seq(Patch) /\ CheckedOut \subseteq Branch
      /\ Branch \subseteq Node
  BY ConstantsAssumption DEF Types, TypeOK, Node, Revision
<1>4. ToSet(tip'[b]) \subseteq ToSet(tip[b]) \cup {NewPatch(b)}
  <2>1. NewPatch(b) \in Patch
    BY <1>2, <1>3, NewPatchIs
  <2>2. Front(tip[b]) \in Seq(Patch) /\ ToSet(Front(tip[b])) \subseteq ToSet(tip[b])
    BY <1>3, FrontIs, FrontSet
  <2>3. ASSUME NEW r \in Seq(Patch), ToSet(r) \subseteq ToSet(tip[b]),
               tip' = [tip EXCEPT ![b] = Append(r, NewPatch(b))]
        PROVE  ToSet(tip'[b]) \subseteq ToSet(tip[b]) \cup {NewPatch(b)}
    BY <1>3, <2>1, <2>3, AppendSet
  <2> QED
    BY <1>3, <2>2, <2>3 DEF Commit, Amend, Make
<1>5. ASSUME NEW c \in CheckedOut, file[c] # None
      PROVE  file[c].home # c /\ (wt'[c] = tip'[c] => file[c] \notin ToSet(tip'[c]))
  <2>1. CASE c = b
    <3>1. NewPatch(b).home = b
      BY DEF NewPatch
    <3> QED
      BY <1>2, <1>4, <1>5, <2>1, <3>1 DEF Files
  <2>2. CASE c # b
    BY <1>1, <1>3, <1>5, <2>2 DEF Files
  <2> QED
    BY <2>1, <2>2
<1> QED
  BY <1>1, <1>2, <1>5 DEF Aside, Harmless

LEMMA OthersAreAside ==
    ASSUME Inv, PassInv,
           \/ AdvanceTrunk \/ UNCHANGED vars
           \/ \E b \in Branch : \/ LandSquashed(b) \/ LandRebased(b)
                                \/ RemoteAdvances(b) \/ Edit(b) \/ NewFile(b)
    PROVE  Aside
<1> USE DEF Inv, PassInv
<1>1. CASE AdvanceTrunk \/ \E b \in Branch : LandSquashed(b) \/ LandRebased(b)
  <2>1. /\ UNCHANGED <<wt, edited, file, parent, passVars, fresh>>
        /\ \A b \in Branch : tip'[b] = tip[b]
    BY <1>1, TrunkIs DEF treeVars
  <2>2. UNCHANGED <<kind, moved>> /\ merged \subseteq merged' /\ calm' = FALSE
    BY <1>1 DEF AdvanceTrunk, LandSquashed, LandRebased, Make
  <2> QED
    BY <2>1, <2>2, ConstantsAssumption DEF Aside, Files
<1>2. ASSUME NEW b \in Branch, RemoteAdvances(b) PROVE Aside
  BY <1>2 DEF RemoteAdvances, treeVars, Aside, Files
<1>3. ASSUME NEW b \in Branch, Edit(b) PROVE Aside
  BY <1>3 DEF Edit, Touch, gitVars, Aside, Files
<1>4. ASSUME NEW b \in Branch, NewFile(b) PROVE Aside
  <2>1. /\ UNCHANGED <<gitVars, wt, passVars, moved, calm>> /\ fresh' = fresh \cup {b}
        /\ b \in CheckedOut
    BY <1>4 DEF NewFile, Touch
  <2>2. PICK p \in [home : Node \ {b}, n : 0 .. MaxPatches] \ ToSet(tip[b]) :
               file' = [file EXCEPT ![b] = p]
    BY <1>4 DEF NewFile
  <2>3. p.home # b /\ p \notin ToSet(tip[b])
    BY <2>2
  <2>4. \A c \in CheckedOut : file'[c] = IF c = b THEN p ELSE file[c]
    BY <2>2 DEF Types, TypeOK
  <2> QED
    BY <2>1, <2>3, <2>4 DEF gitVars, Aside, Files
<1>5. CASE UNCHANGED vars
  BY <1>5 DEF vars, gitVars, treeVars, pastVars, Aside, Files
<1> QED
  BY <1>1, <1>2, <1>3, <1>4, <1>5

-----------------------------------------------------------------------------
(* What holds.                                                             *)

\* Every step keeps the invariant.
LEMMA PassStep ==
    ASSUME Inv, PassInv, [Next]_vars
    PROVE  PassInv'
<1>1. Inv'
  BY InvStep
<1>2. CASE \E S \in Scopes : Plan(S)
  <2>1. PICK S \in Scopes : Plan(S)
    BY <1>2
  <2>2. S \subseteq Branch
    BY DEF Scopes
  <2> QED
    BY <1>1, <2>1, <2>2, PlanPass
<1>3. CASE Passing
  <2>1. CASE Collect \/ Inspect \/ ResetWorktree \/ Finish
    BY <1>1, <2>1, CollectPass, InspectPass, ResetPass, EndPass
  <2>2. ASSUME NEW b \in Branch,
               \/ ValidateSpec(b) \/ HoldBack(b) \/ UpdateRefs(b)
               \/ UpdateRefsFails(b) \/ MetadataRefresh(b)
        PROVE  PassInv'
    BY <1>1, <2>2, ValidatePass, HoldBackPass, UpdatePass, EndPass, RefreshPass
  <2> QED
    BY <1>3, <2>1, <2>2 DEF Passing
<1>4. CASE Crash
  BY <1>1, <1>4, EndPass
<1>5. CASE Users \/ UNCHANGED vars
  BY <1>1, <1>5, CommitIsAside, OthersAreAside, AsideStep DEF Users
<1> QED
  BY <1>2, <1>3, <1>4, <1>5 DEF Next

LEMMA AlwaysPassInv == Spec => [](Inv /\ PassInv)
<1>1. Init => Inv /\ PassInv
  BY FirstInv, FirstPass
<1>2. Inv /\ PassInv /\ [Next]_vars => (Inv /\ PassInv)'
  BY InvStep, PassStep
<1> QED
  BY <1>1, <1>2, PTL DEF Spec

\* Of a stack that a pass has found in conflict nothing is moved, and what is on
\* a branch that has moved has been moved onto it, or is held back with what is
\* on it: validation tries every branch the plan moves, and the plan moves what
\* is on a branch that moves (holdBackConflictedStacks, restack_plan.go).
THEOREM StacksAlwaysMoveWhole == Spec => []StacksMoveWhole
<1>1. ASSUME Inv, PassInv PROVE StacksMoveWhole
  <2> USE <1>1 DEF Inv, PassInv
  <2> SUFFICES ASSUME phase = "apply", todo = {}, report, calm, NEW b \in scope,
                      kind[b] = "plain", ~Landed(b, parent[b]), ~HeldBack(b), parent[b] \in moved
               PROVE  IsAncestor(tip[parent[b]], tip[b])
    BY DEF StacksMoveWhole
  <2> DEFINE p == parent[b]
  <2>1. /\ b \in Branch /\ p \in Branch /\ p # Trunk /\ b \notin merged
        /\ item[p].act \in Moving /\ ~Excluded(p) /\ tip[p] = Target(p) /\ p \in Applicable
    BY ConstantsAssumption DEF Types, Moves, Landed
  <2> HIDE DEF p
  <2>2. ASSUME b \in moved PROVE IsAncestor(tip[p], tip[b])
    <3>1. /\ item[b].act = "rebase" /\ item[b].onto = p /\ tip[b] = newRev[b] /\ newRev[b] # None
      BY <2>1, <2>2 DEF Moves, Moving, PlanSound, Target, Applicable, p
    <3>2. /\ item[p].to # None => item[b].pin = item[p].to
          /\ item[b].pin # None => item[p].to # None \/ IsAnchor(p)
          /\ item[p].act \notin {"anchor", "frozen"} => item[p].to = None
      BY <2>1, <3>1 DEF PlanFollows
    <3>3. CASE item[p].act = "rebase"
      <4>1. newRev[p] # None /\ item[b].pin = None
        BY <2>1, <3>1, <3>2, <3>3 DEF PlanSound, Applicable, IsAnchor
      <4> QED
        BY <2>1, <3>1, <3>3, <4>1 DEF Onto, Target, TrialsFollow
    <3>4. CASE item[p].act # "rebase"
      <4>1. item[p].to # None
        BY <2>1, <3>4 DEF PlanSound, Moving
      <4> QED
        BY <2>1, <3>1, <3>2, <3>4, <4>1 DEF Onto, Target, TrialsFollow
    <3> QED
      BY <3>3, <3>4
  <2>3. ASSUME b \notin moved PROVE FALSE
    <3>1. mem[b] = p
      BY <2>1, <2>3 DEF Remembered, p
    <3>2. item[b].act = "rebase"
      BY <2>1, <3>1 DEF PlanFollows, PlanSound, Moving
    <3>3. ~Excluded(b)
      <4>1. Root(p) = Root(b)
        BY <2>1, <3>1, PathIs, RootIs, ChainIs DEF Stacks, Node
      <4> QED
        BY <2>1, <4>1 DEF Excluded
    <3>4. newRev[b] # None
      BY <2>1, <3>2, <3>3 DEF Tried, Excluded
    <3> QED
      BY <2>1, <2>3, <3>2, <3>3, <3>4 DEF Moves, Applicable, Moving
  <2> QED
    BY <2>2, <2>3 DEF p
<1> QED
  BY <1>1, AlwaysPassInv, PTL

\* An untracked file that is there when a pass looks at a worktree stays, where
\* the names that come in are those of the parent the engine remembers: the
\* branch is rebased onto what the parent is when its turn comes, and that is
\* what untrackedCollisionHold compares with.
THEOREM FilesAlwaysStay == Spec => FilesStay
<1>1. ASSUME Inv, PassInv, [Next]_vars
      PROVE  [\A b \in CheckedOut : file[b] # None /\ file'[b] = None /\ calm
                => \/ b \in fresh \/ kind[b] = "frozen"
                   \/ item[b].onto # mem[b] \/ IsAnchor(mem[b])]_vars
  <2> SUFFICES ASSUME Next, NEW b \in CheckedOut, file[b] # None, file'[b] = None, calm,
                      b \notin fresh
               PROVE  ~Familiar(b)
    BY <1>1 DEF Familiar
  <2>1. CASE ResetWorktree
    BY <1>1, <2>1 DEF ResetWorktree, PassInv, Files, Inv, Types, TypeOK
  <2>2. CASE ~ResetWorktree
    <3>1. file' = file \/ \E c \in Branch : NewFile(c)
      BY <1>1, <2>2
      DEF Next, Passing, Users, Plan, ValidateSpec, Collect, Inspect, HoldBack, UpdateRefs,
          UpdateRefsFails, MetadataRefresh, Finish, Crash, AdvanceTrunk, Commit, Amend,
          LandSquashed, LandRebased, RemoteAdvances, Edit, treeVars
    <3>2. ASSUME NEW c \in Branch, NewFile(c) PROVE file'[b] = file[b]
      <4>1. c # b /\ \E p : file' = [file EXCEPT ![c] = p]
        BY <1>1, <3>2 DEF NewFile
      <4> QED
        BY <4>1 DEF Inv, Types, TypeOK
    <3> QED
      BY <3>1, <3>2
  <2> QED
    BY <2>1, <2>2
<1> QED
  BY <1>1, AlwaysPassInv, PTL DEF Spec, FilesStay

-----------------------------------------------------------------------------
(* That restacks lose no commits.                                          *)
(*                                                                         *)
(* A rebase leaves out the commits below the old base of the branch.  The  *)
(* branch's own are among those only if they have landed: then they are on *)
(* trunk, on every branch below that has been rebased since, and so they   *)
(* are in what the branch is rebased onto.                                 *)

\* The patch q is one of a branch after x.
Higher(q, x) == q.home \in Branch /\ Before(x, q.home)

\* When n patches have been made and trunk is at t, r has no others, and of the
\* branches after x only landed ones.
NativeAt(r, x, n, t) == \A q \in ToSet(r) : q.n <= n /\ (Higher(q, x) => q \in ToSet(t))

Native(r, x) == NativeAt(r, x, made, tip[Trunk])

\* Of the branches after x, r has no patches.
Pure(r, x) == \A q \in ToSet(r) : ~Higher(q, x)

\* What r has of branches after b, s has.
Passes(r, b, s) == \A q \in ToSet(r) : Higher(q, b) => q \in ToSet(s)

\* ... and what it has of b itself.
PassesAll(r, b, s) == \A q \in ToSet(r) : q.home = b \/ Higher(q, b) => q \in ToSet(s)

-----------------------------------------------------------------------------
(* The invariant.                                                          *)

\* Patches of a branch are below it only when they have landed, and then they
\* are on every branch below, too.
Lineage ==
    /\ \A b \in Branch : \A q \in alive[b] : q.home = b
    /\ \A x \in Node : /\ Native(tip[x], x) /\ Native(snap[x], x)
                       /\ Passes(snap[x], x, BaseOf(x))
    /\ \A b \in Branch :
          /\ Native(remote[b], b) /\ Native(base[b], parent[b])
          /\ kind[b] = "frozen" => Pure(tip[b], b) /\ Pure(remote[b], b)
          /\ kind[b] # "anchor" => /\ Passes(tip[b], b, BaseOf(parent[b]))
                                   /\ PassesAll(base[b], b, BaseOf(parent[b]))

\* The plan respects that.
PlanLineage ==
    \A b \in Branch :
      LET i == item[b] p == item[b].onto
      IN /\ i.act = "rebase"
            => /\ i.pin # None => /\ p # Trunk /\ Native(i.pin, p)
                                  /\ IsAnchor(p) \/ Pure(i.pin, p)
               /\ i.pin = None /\ p # Trunk => item[p].act \notin {"anchor", "frozen"}
               /\ phase = "validate" => /\ PassesAll(i.old, b, Onto(b))
                                        /\ Passes(tip[b], b, Onto(b))
         /\ i.act = "anchor" => Native(i.to, Trunk) /\ Native(i.rev, Trunk)
         /\ i.act = "frozen" => Pure(i.to, b) /\ Native(i.to, b)
         /\ i.act \in {"frozen", "record"} => /\ Native(i.rev, parent[b])
                                              /\ PassesAll(i.rev, b, BaseOf(parent[b]))

\* What a branch was when its trial rebase, or the pass, has read it.
Seen(b) == IF phase = "validate" THEN tip[b] ELSE snap[b]

\* A trial rebase has what the branch had, but for what came too late.
Trials ==
    \A b \in Branch : newRev[b] # None =>
        /\ Native(newRev[b], b)
        /\ Passes(Seen(b), b, newRev[b])
        /\ (alive[b] \cap ToSet(Seen(b))) \ late \subseteq ToSet(newRev[b])
        /\ Passes(newRev[b], b, Onto(b))
        /\ phase = "apply" => \/ b \in todo \/ Excluded(b) \/ HeldBack(b)
                              \/ Passes(newRev[b], b, tip[b])

CommitInv == Lineage /\ PlanLineage /\ Trials

-----------------------------------------------------------------------------
(* Patches.                                                                *)

\* What is after b is after the branches below it.
LEMMA HigherIs ==
    ASSUME NEW p \in Node, NEW b \in Branch, Before(p, b), NEW q
    PROVE  /\ q.home = b \/ Higher(q, b) => Higher(q, p)
           /\ q.home = b => ~Higher(q, b)
BY BeforeIs DEF Higher

LEMMA PassesIs ==
    ASSUME NEW p \in Node, NEW b \in Branch, Before(p, b), NEW r, NEW s, NEW t
    PROVE  /\ Passes(r, p, s) => PassesAll(r, b, s) /\ Passes(r, b, s)
           /\ Pure(r, p) => Pure(r, b)
           /\ PassesAll(r, b, s) /\ Passes(s, p, t) => PassesAll(r, b, t)
           /\ Passes(r, b, s) /\ Passes(s, p, t) => Passes(r, b, t)
BY HigherIs DEF Passes, PassesAll, Pure

LEMMA PatchesOf ==
    ASSUME NEW r \in Revision, NEW q \in ToSet(r)
    PROVE  q \in Patch /\ q.n \in Nat
<1>1. PICK i \in 1 .. Len(r) : q = r[i]
  BY LenProperties DEF ToSet, Revision
<1>2. q \in Patch
  BY <1>1, ElementOfSeq DEF Revision
<1> QED
  BY <1>2 DEF Patch

LEMMA NativeIs ==
    ASSUME NEW r \in Revision, NEW p \in Node, NEW m \in Nat, NEW n \in Nat, m <= n,
           NEW s, NEW t, ToSet(s) \subseteq ToSet(t), NativeAt(r, p, m, s)
    PROVE  /\ NativeAt(r, p, n, t)
           /\ \A b \in Branch : Before(p, b) => NativeAt(r, b, n, t)
<1>1. \A q \in ToSet(r) : q.n \in Nat
  BY PatchesOf
<1>2. NativeAt(r, p, n, t)
  BY <1>1 DEF NativeAt
<1> QED
  BY <1>2, HigherIs DEF NativeAt

-----------------------------------------------------------------------------
(* Everybody else.                                                         *)

\* What a step does to what it does not rebase: trunk grows, branches get
\* patches of their own and lose no others.
Gentle ==
    /\ Harmless /\ ToSet(tip[Trunk]) \subseteq ToSet(tip'[Trunk])
    /\ \A q \in ToSet(tip'[Trunk]) : q.n <= made'
    /\ late \subseteq late'
    /\ \A b \in Branch :
          LET new(q) == q.home = b /\ q.n = made' /\ made < made'
                        /\ (phase = "validate" => q \in late')
          IN /\ \A q \in ToSet(tip[b]) : q.home # b => q \in ToSet(tip'[b])
             /\ \A q \in ToSet(tip'[b]) : q \in ToSet(tip[b]) \/ new(q)
             /\ \A q \in alive'[b] : q \in alive[b] \/ new(q)
             /\ \A q \in ToSet(remote'[b]) : q \in ToSet(remote[b]) \/ (q.home = b /\ q.n <= made')
             /\ kind[b] = "frozen" => tip'[b] = tip[b]

\* Nothing is lost to what is above.
LEMMA GentleKeeps ==
    ASSUME Inv, Gentle, NEW x \in Node
    PROVE  /\ Passes(tip[x], x, tip'[x]) /\ Passes(BaseOf(x), x, BaseOf(x)')
           /\ \A q \in ToSet(tip'[x]) : Higher(q, x) => q \in ToSet(tip[x]) \/ x = Trunk
           /\ NativeAt(tip[x], x, made, tip[Trunk]) => NativeAt(tip'[x], x, made', tip'[Trunk])
<1>1. made \in Nat /\ made' \in Nat /\ made <= made' /\ kind' = kind /\ tip[x] \in Revision
  BY ConstantsAssumption DEF Gentle, Harmless, Inv, Types, TypeOK, Node
<1>2. CASE x = Trunk
  BY <1>2 DEF Gentle, Passes, BaseOf, IsAnchor, NativeAt
<1>3. CASE x \in Branch
  <2>1. \A q : Higher(q, x) => q.home # x
    BY <1>3, BeforeIs DEF Higher
  <2>2. Passes(tip[x], x, tip'[x])
    BY <1>3, <2>1 DEF Passes, Gentle
  <2>3. Passes(tip[Trunk], x, tip'[Trunk])
    BY DEF Passes, Gentle
  <2>4. Passes(BaseOf(x), x, BaseOf(x)')
    BY <1>1, <2>2, <2>3 DEF BaseOf, IsAnchor
  <2>5. \A q \in ToSet(tip'[x]) : Higher(q, x) => q \in ToSet(tip[x])
    BY <1>3, <2>1 DEF Gentle
  <2>6. ASSUME NativeAt(tip[x], x, made, tip[Trunk]), NEW q \in ToSet(tip'[x])
        PROVE  q.n <= made' /\ (Higher(q, x) => q \in ToSet(tip'[Trunk]))
    <3>1. CASE q \in ToSet(tip[x])
      <4>1. q.n \in Nat /\ q.n <= made
        BY <1>1, <2>6, <3>1, PatchesOf DEF NativeAt
      <4> QED
        BY <1>1, <2>6, <3>1, <4>1 DEF NativeAt, Gentle
    <3>2. CASE q.n = made' /\ q.home = x
      BY <1>1, <2>1, <3>2
    <3> QED
      BY <1>3, <3>1, <3>2 DEF Gentle
  <2> QED
    BY <2>2, <2>4, <2>5, <2>6 DEF NativeAt
<1> QED
  BY <1>2, <1>3 DEF Node

LEMMA GentleStep ==
    ASSUME Inv, Inv', CommitInv, Gentle
    PROVE  CommitInv'
<1> USE DEF CommitInv, Inv
<1>1. /\ UNCHANGED <<parent, base, kind, passVars>> /\ made \in Nat /\ made' \in Nat /\ made <= made'
      /\ ToSet(tip[Trunk]) \subseteq ToSet(tip'[Trunk]) /\ Trunk \in Node
      /\ UNCHANGED <<phase, item, newRev, snap, todo, failed, report, mem, held>>
      /\ parent \in [Branch -> Node] /\ base \in [Branch -> Revision] /\ snap \in [Node -> Revision]
      /\ remote \in [Branch -> Revision] /\ newRev \in [Branch -> Revs] /\ Branch \subseteq Node
      /\ item \in [Branch -> Items] /\ \A b \in Branch : Before(parent[b], b)
  BY ConstantsAssumption
  DEF Gentle, Harmless, Types, TypeOK, Stacks, Ordered, Node, Revs, passVars, planVars
<1>2. \A x \in Node : /\ Passes(tip[x], x, tip'[x]) /\ Passes(BaseOf(x), x, BaseOf(x)')
                      /\ \A q \in ToSet(tip'[x]) : Higher(q, x) => q \in ToSet(tip[x]) \/ x = Trunk
                      /\ NativeAt(tip'[x], x, made', tip'[Trunk])
  BY GentleKeeps DEF Lineage, Native
<1>3. \A r \in Revision : \A x \in Node : Native(r, x) => NativeAt(r, x, made', tip'[Trunk])
  BY <1>1, NativeIs DEF Native
<1>4. \A b \in Branch : \A s : Passes(tip[b], b, s) => Passes(tip'[b], b, s)
  BY <1>1, <1>2, ConstantsAssumption DEF Passes
<1>5. \A b \in Branch : \A r :
        /\ PassesAll(r, b, BaseOf(parent[b])) => PassesAll(r, b, BaseOf(parent[b])')
        /\ Passes(r, b, BaseOf(parent[b])) => Passes(r, b, BaseOf(parent[b])')
  BY <1>1, <1>2, PassesIs
<1>6. ASSUME NEW b \in Branch, item[b].act = "rebase", NEW r
      PROVE  /\ PassesAll(r, b, Onto(b)) => PassesAll(r, b, Onto(b)')
             /\ Passes(r, b, Onto(b)) => Passes(r, b, Onto(b)')
  <2>1. item[b].onto \in Node /\ Before(item[b].onto, b)
    BY <1>6, OntoIs DEF PlanSound
  <2>2. Onto(b)' = Onto(b) \/ (Onto(b) = tip[item[b].onto] /\ Onto(b)' = tip'[item[b].onto])
    BY <1>1 DEF Onto
  <2>3. Passes(Onto(b), item[b].onto, Onto(b)')
    BY <1>2, <2>1, <2>2 DEF Passes
  <2> QED
    BY <2>1, <2>3, PassesIs
<1>7. Lineage'
  <2>1. \A b \in Branch : \A q \in alive'[b] : q.home = b
    BY DEF Lineage, Gentle
  <2>2. \A x \in Node : /\ NativeAt(tip'[x], x, made', tip'[Trunk])
                        /\ NativeAt(snap[x], x, made', tip'[Trunk])
                        /\ Passes(snap[x], x, BaseOf(x)')
    <3>1. \A x \in Node : Passes(snap[x], x, BaseOf(x)) => Passes(snap[x], x, BaseOf(x)')
      BY <1>2 DEF Passes
    <3> QED
      BY <1>1, <1>2, <1>3, <3>1 DEF Lineage
  <2>3. ASSUME NEW b \in Branch
        PROVE  /\ NativeAt(remote'[b], b, made', tip'[Trunk])
               /\ NativeAt(base[b], parent[b], made', tip'[Trunk])
               /\ kind'[b] = "frozen" => Pure(tip'[b], b) /\ Pure(remote'[b], b)
    <3>1. \A q : Higher(q, b) => q.home # b
      BY BeforeIs DEF Higher
    <3>2. NativeAt(remote[b], b, made', tip'[Trunk]) /\ NativeAt(base[b], parent[b], made', tip'[Trunk])
      BY <1>1, <1>3 DEF Lineage
    <3>3. NativeAt(remote'[b], b, made', tip'[Trunk])
      BY <3>1, <3>2 DEF NativeAt, Gentle
    <3>4. kind[b] = "frozen" => Pure(tip'[b], b) /\ Pure(remote'[b], b)
      BY <3>1 DEF Lineage, Pure, Gentle
    <3> QED
      BY <1>1, <3>2, <3>3, <3>4
  <2>4. ASSUME NEW b \in Branch, kind[b] # "anchor"
        PROVE  Passes(tip'[b], b, BaseOf(parent[b])') /\ PassesAll(base[b], b, BaseOf(parent[b])')
    BY <1>4, <1>5, <2>4 DEF Lineage
  <2> QED
    BY <1>1, <2>1, <2>2, <2>3, <2>4 DEF Lineage, Native
<1>8. PlanLineage'
  <2> SUFFICES ASSUME NEW b \in Branch
      PROVE LET i == item[b] p == item[b].onto
            IN /\ i.act = "rebase"
                  => /\ i.pin # None => /\ p # Trunk /\ NativeAt(i.pin, p, made', tip'[Trunk])
                                        /\ IsAnchor(p) \/ Pure(i.pin, p)
                     /\ i.pin = None /\ p # Trunk => item[p].act \notin {"anchor", "frozen"}
                     /\ phase = "validate" => /\ PassesAll(i.old, b, Onto(b)')
                                              /\ Passes(tip'[b], b, Onto(b)')
               /\ i.act = "anchor" => /\ NativeAt(i.to, Trunk, made', tip'[Trunk])
                                      /\ NativeAt(i.rev, Trunk, made', tip'[Trunk])
               /\ i.act = "frozen" => Pure(i.to, b) /\ NativeAt(i.to, b, made', tip'[Trunk])
               /\ i.act \in {"frozen", "record"} => /\ NativeAt(i.rev, parent[b], made', tip'[Trunk])
                                                    /\ PassesAll(i.rev, b, BaseOf(parent[b])')
    BY <1>1 DEF PlanLineage, Native, IsAnchor
  <2>1. \A r \in Revs : r # None => r \in Revision
    BY DEF Revs
  <2>2. /\ item[b] \in Items /\ item[b].pin \in Revs /\ item[b].to \in Revs /\ item[b].rev \in Revs
        /\ parent[b] \in Node /\ b \in Node /\ Trunk \in Node
    BY <1>1 DEF Items
  <2>3. CASE item[b].act = "rebase"
    <3>1. item[b].onto \in Node
      BY <2>3, OntoIs
    <3>2. item[b].pin # None => NativeAt(item[b].pin, item[b].onto, made', tip'[Trunk])
      BY <1>3, <2>1, <2>2, <2>3, <3>1 DEF PlanLineage
    <3>3. phase = "validate" => PassesAll(item[b].old, b, Onto(b)') /\ Passes(tip'[b], b, Onto(b)')
      BY <1>4, <1>6, <2>3 DEF PlanLineage
    <3> QED
      BY <2>3, <3>2, <3>3 DEF PlanLineage
  <2>4. CASE item[b].act = "anchor"
    <3>1. item[b].to \in Revision /\ item[b].rev \in Revision
      BY <2>1, <2>2, <2>4 DEF PlanSound, Types
    <3> QED
      BY <1>3, <2>2, <2>4, <3>1 DEF PlanLineage
  <2>5. CASE item[b].act \in {"frozen", "record"}
    <3>1. item[b].rev \in Revision /\ (item[b].act = "frozen" => item[b].to \in Revision)
      BY <2>1, <2>2, <2>5 DEF PlanSound, Types, Real
    <3>2. PassesAll(item[b].rev, b, BaseOf(parent[b])')
      BY <1>5, <2>5 DEF PlanLineage
    <3> QED
      BY <1>3, <2>2, <2>5, <3>1, <3>2 DEF PlanLineage
  <2> QED
    BY <2>3, <2>4, <2>5
<1>9. Trials'
  <2> SUFFICES ASSUME NEW b \in Branch, newRev[b] # None
      PROVE /\ NativeAt(newRev[b], b, made', tip'[Trunk])
            /\ Passes(Seen(b)', b, newRev[b])
            /\ (alive'[b] \cap ToSet(Seen(b)')) \ late' \subseteq ToSet(newRev[b])
            /\ Passes(newRev[b], b, Onto(b)')
            /\ phase = "apply" => \/ b \in todo \/ Excluded(b) \/ HeldBack(b)
                                  \/ Passes(newRev[b], b, tip'[b])
    <3>1. \A b : (Excluded(b)' <=> Excluded(b)) /\ (HeldBack(b)' <=> HeldBack(b))
      BY <1>1, ChainIs DEF Excluded, HeldBack
    <3> QED
      BY <1>1, <3>1 DEF Trials, Native
  <2>1. newRev[b] \in Revision /\ b \in Node /\ item[b].act = "rebase" /\ snap[b] \in Revision
    BY <1>1 DEF Revs, PlanSound
  <2>2. NativeAt(newRev[b], b, made', tip'[Trunk])
    BY <1>3, <2>1 DEF Trials
  <2>3. Passes(Seen(b)', b, newRev[b])
    BY <1>1, <1>4 DEF Trials, Seen
  <2>4. ASSUME NEW q \in (alive'[b] \cap ToSet(Seen(b)')) \ late'
        PROVE  q \in ToSet(newRev[b])
    <3>1. phase # "validate" => q.n # made' \/ made' = made
      <4>1. phase # "validate" => q \in ToSet(snap[b])
        BY <1>1, <2>4 DEF Seen
      <4> QED
        BY <1>1, <2>1, <4>1, PatchesOf DEF Lineage, Native, NativeAt
    <3>2. q \in alive[b] /\ q \in ToSet(Seen(b)) /\ q \notin late
      BY <1>1, <2>4, <3>1 DEF Gentle, Seen
    <3> QED
      BY <3>2 DEF Trials
  <2>5. Passes(newRev[b], b, Onto(b)')
    BY <1>6, <2>1 DEF Trials
  <2>6. Passes(newRev[b], b, tip[b]) => Passes(newRev[b], b, tip'[b])
    BY <1>2, <2>1 DEF Passes
  <2> QED
    BY <2>2, <2>3, <2>4, <2>5, <2>6 DEF Trials
<1> QED
  BY <1>7, <1>8, <1>9

\* A commit, or an amended one.
LEMMA CommitIsGentle ==
    ASSUME Inv, CommitInv, NEW b \in Branch, Commit(b) \/ Amend(b)
    PROVE  Gentle
<1> USE DEF Inv
<1>1. Harmless /\ \A x \in Node \ {b} : tip'[x] = tip[x]
  BY CommitIs
<1>2. /\ tip \in [Node -> Revision] /\ tip[b] \in Seq(Patch) /\ Trunk \notin Branch
      /\ alive \in [Branch -> SUBSET Patch] /\ made \in Nat
  BY ConstantsAssumption DEF Types, TypeOK, Node, Revision
<1>3. /\ made < MaxPatches /\ made' = made + 1 /\ UNCHANGED <<remote, kind>> /\ kind[b] = "plain"
      /\ late' = IF phase = "validate" THEN late \cup {NewPatch(b)} ELSE late
  BY DEF Commit, Amend, InUse, Make
<1>4. NewPatch(b) \in Patch /\ NewPatch(b).home = b /\ NewPatch(b).n = made'
  BY <1>3, NewPatchIs DEF NewPatch, Node
<1>5. /\ \A q \in ToSet(tip[b]) : q.home # b => q \in ToSet(tip'[b])
      /\ \A q \in ToSet(tip'[b]) : q \in ToSet(tip[b]) \/ q = NewPatch(b)
      /\ \A c \in Branch : alive'[c] \subseteq alive[c] \cup (IF c = b THEN {NewPatch(b)} ELSE {})
  <2>1. CASE Commit(b)
    <3>1. /\ tip' = [tip EXCEPT ![b] = Append(tip[b], NewPatch(b))]
          /\ alive' = [alive EXCEPT ![b] = @ \cup {NewPatch(b)}]
      BY <2>1 DEF Commit, Make
    <3>2. tip'[b] = Append(tip[b], NewPatch(b))
      BY <1>2, <3>1 DEF Node
    <3>3. ToSet(tip'[b]) = ToSet(tip[b]) \cup {NewPatch(b)}
      BY <1>2, <1>4, <3>2, AppendSet
    <3> QED
      BY <1>2, <3>1, <3>3
  <2>2. CASE Amend(b)
    <3>1. /\ tip' = [tip EXCEPT ![b] = Append(Front(tip[b]), NewPatch(b))]
          /\ tip[b] # <<>> /\ Last(tip[b]) \in alive[b]
          /\ alive' = [alive EXCEPT ![b] = (@ \ {Last(tip[b])}) \cup {NewPatch(b)}]
      BY <2>2 DEF Amend, Make
    <3>2. tip'[b] = Append(Front(tip[b]), NewPatch(b))
      BY <1>2, <3>1 DEF Node
    <3>3. ToSet(tip'[b]) = ToSet(Front(tip[b])) \cup {NewPatch(b)}
      BY <1>2, <1>4, <3>2, FrontIs, AppendSet
    <3>4. Last(tip[b]).home = b
      BY <3>1 DEF CommitInv, Lineage
    <3>5. /\ ToSet(Front(tip[b])) \subseteq ToSet(tip[b])
          /\ ToSet(tip[b]) \subseteq ToSet(Front(tip[b])) \cup {Last(tip[b])}
      BY <1>2, <3>1, FrontSet
    <3> QED
      BY <1>2, <3>1, <3>3, <3>4, <3>5
  <2> QED
    BY <2>1, <2>2
<1>6. tip'[Trunk] = tip[Trunk] /\ \A q \in ToSet(tip[Trunk]) : q.n <= made /\ q.n \in Nat
  BY <1>1, <1>2, PatchesOf DEF CommitInv, Lineage, Native, NativeAt, Node
<1>7. \A c \in Branch : c # b => tip'[c] = tip[c]
  BY <1>1 DEF Node
<1> QED
  BY <1>1, <1>2, <1>3, <1>4, <1>5, <1>6, <1>7 DEF Gentle

\* What lands on trunk.
LEMMA TrunkIsGentle ==
    ASSUME Inv, CommitInv, AdvanceTrunk \/ \E b \in Branch : LandSquashed(b) \/ LandRebased(b)
    PROVE  Gentle
<1> USE DEF Inv
<1>1. Harmless /\ UNCHANGED <<treeVars, alive, parent, passVars, fresh>>
      /\ \A b \in Branch : tip'[b] = tip[b]
  BY TrunkIs
<1>2. /\ tip \in [Node -> Revision] /\ Trunk \in Node /\ made \in Nat /\ Branch \subseteq Node
  BY ConstantsAssumption DEF Types, TypeOK, Node
<1>3. /\ made < MaxPatches /\ made' = made + 1 /\ UNCHANGED remote /\ late \subseteq late'
  BY DEF AdvanceTrunk, LandSquashed, LandRebased, Make
<1>4. \A x \in Node : \A q \in ToSet(tip[x]) : q.n <= made'
  <2> SUFFICES ASSUME NEW x \in Node, NEW q \in ToSet(tip[x]) PROVE q.n <= made'
    OBVIOUS
  <2>1. q.n \in Nat /\ q.n <= made
    BY <1>2, PatchesOf DEF CommitInv, Lineage, Native, NativeAt
  <2> QED
    BY <1>2, <1>3, <2>1
<1>5. /\ ToSet(tip[Trunk]) \subseteq ToSet(tip'[Trunk])
      /\ \A q \in ToSet(tip'[Trunk]) : q.n <= made'
  <2>1. CASE Make(Trunk, Append(tip[Trunk], NewPatch(Trunk)))
    <3>1. tip'[Trunk] = Append(tip[Trunk], NewPatch(Trunk))
      BY <1>2, <2>1 DEF Make
    <3>2. NewPatch(Trunk) \in Patch /\ NewPatch(Trunk).n = made'
      BY <1>2, <1>3, NewPatchIs
    <3>3. ToSet(tip'[Trunk]) = ToSet(tip[Trunk]) \cup {NewPatch(Trunk)}
      BY <1>2, <3>1, <3>2, AppendSet DEF Revision
    <3> QED
      BY <1>2, <1>3, <1>4, <3>2, <3>3
  <2>2. ASSUME NEW b \in Branch, LandRebased(b)
        PROVE  /\ ToSet(tip[Trunk]) \subseteq ToSet(tip'[Trunk])
               /\ \A q \in ToSet(tip'[Trunk]) : q.n <= made'
    <3>1. tip'[Trunk] = Replay(tip[Trunk], tip[Trunk], tip[b])
      BY <1>2, <2>2 DEF LandRebased, Make
    <3>2. tip[Trunk] \in Seq(Patch) /\ tip[b] \in Seq(Patch) /\ b \in Node
      BY <1>2 DEF Revision
    <3>3. /\ tip'[Trunk] \in Seq(Patch) /\ IsAncestor(tip[Trunk], tip'[Trunk])
          /\ ToSet(tip'[Trunk]) \subseteq ToSet(tip[Trunk]) \cup ToSet(tip[b])
      BY <3>1, <3>2, ReplayIs
    <3> QED
      BY <1>2, <1>4, <3>2, <3>3, AncestorSet
  <2> QED
    BY <2>1, <2>2 DEF AdvanceTrunk, LandSquashed
<1> QED
  BY <1>1, <1>2, <1>3, <1>5 DEF Gentle

\* A push to a frozen branch, an edit, a new file, nothing.
LEMMA LocalIsGentle ==
    ASSUME Inv, CommitInv,
           UNCHANGED vars \/ \E b \in Branch : RemoteAdvances(b) \/ Edit(b) \/ NewFile(b)
    PROVE  Gentle
<1> USE DEF Inv
<1>1. Harmless /\ UNCHANGED <<tip, alive, late>>
  <2>1. CASE UNCHANGED vars
    BY <2>1, ConstantsAssumption
    DEF vars, gitVars, treeVars, passVars, planVars, pastVars, counters, Harmless,
        Types, TypeOK, Stacks
  <2> QED
    BY <2>1, LocalIs DEF RemoteAdvances, Edit, NewFile, Touch, gitVars
<1>2. made \in Nat /\ made' \in Nat /\ made <= made' /\ tip[Trunk] \in Revision
      /\ remote \in [Branch -> Revision] /\ Trunk \in Node
  BY <1>1, ConstantsAssumption DEF Harmless, Types, TypeOK, Node
<1>3. \A q \in ToSet(tip[Trunk]) : q.n <= made'
  <2>1. \A q \in ToSet(tip[Trunk]) : q.n <= made /\ q.n \in Nat
    BY <1>2, PatchesOf DEF CommitInv, Lineage, Native, NativeAt
  <2> QED
    BY <1>2, <2>1
<1>4. \A c \in Branch : \A q \in ToSet(remote'[c]) :
         q \in ToSet(remote[c]) \/ (q.home = c /\ q.n <= made')
  <2>1. CASE remote' = remote
    BY <2>1
  <2>2. ASSUME NEW b \in Branch, RemoteAdvances(b), NEW c \in Branch, NEW q \in ToSet(remote'[c])
        PROVE  q \in ToSet(remote[c]) \/ (q.home = c /\ q.n <= made')
    <3>1. PICK r \in {remote[b], Front(remote[b])} :
                 remote' = [remote EXCEPT ![b] = Append(r, NewPatch(b))]
      BY <2>2 DEF RemoteAdvances
    <3>2. made < MaxPatches /\ made' = made + 1
      BY <2>2 DEF RemoteAdvances
    <3>3. NewPatch(b) \in Patch /\ NewPatch(b).home = b /\ NewPatch(b).n = made'
      BY <3>2, NewPatchIs DEF NewPatch, Node
    <3>4. r \in Seq(Patch) /\ ToSet(r) \subseteq ToSet(remote[b])
      BY <1>2, FrontIs, FrontSet DEF Revision
    <3>5. ToSet(Append(r, NewPatch(b))) = ToSet(r) \cup {NewPatch(b)}
      BY <3>3, <3>4, AppendSet
    <3> QED
      BY <1>2, <2>2, <3>1, <3>3, <3>4, <3>5
  <2>3. CASE UNCHANGED vars
    BY <2>3 DEF vars, gitVars
  <2> QED
    BY <2>1, <2>2, <2>3 DEF Edit, NewFile, Touch, gitVars
<1> QED
  BY <1>1, <1>2, <1>3, <1>4 DEF Gentle

-----------------------------------------------------------------------------
(* The pass.                                                               *)

\* What of a branch's history is on the branches above its abandoned ones is
\* on the one it goes to, too.
LEMMA Descends ==
    ASSUME Inv, Lineage, NEW b \in Branch, kind[b] = "plain"
    PROVE  LET p == NearestValid(b)
           IN Passes(tip[b], b, BaseOf(p)) /\ PassesAll(base[b], b, BaseOf(p))
<1> USE DEF Inv
<1>1. Ordered(parent) /\ parent \in [Branch -> Node]
  BY DEF Stacks, Ordered
<1>2. ASSUME NEW q, Higher(q, parent[b]), q \in ToSet(BaseOf(parent[b]))
      PROVE  q \in ToSet(BaseOf(NearestValid(b)))
  <2> DEFINE Z == {x \in Node : Higher(q, x) /\ q \in ToSet(BaseOf(x))}
  <2>1. parent[b] \in Z
    BY <1>1, <1>2
  <2>2. ASSUME NEW c \in Branch, c \in Z, Abandoned(c) PROVE parent[c] \in Z
    <3>1. /\ parent[c] \in Node /\ Before(parent[c], c) /\ kind[c] # "anchor"
          /\ BaseOf(c) = tip[c]
      BY <1>1, <2>2 DEF Abandoned, IsAnchor, Ordered, BaseOf
    <3>2. q \in ToSet(BaseOf(parent[c]))
      BY <2>2, <3>1 DEF Lineage, Passes
    <3> QED
      BY <2>2, <3>1, <3>2, HigherIs
  <2> HIDE DEF Z
  <2>3. NearestValid(b) \in Z
    BY <1>1, <2>1, <2>2, NearestValidIn
  <2> QED
    BY <2>3 DEF Z
<1>3. \A q : q.home = b \/ Higher(q, b) => Higher(q, parent[b])
  BY <1>1, HigherIs DEF Ordered
<1> QED
  BY <1>2, <1>3 DEF Lineage, Passes, PassesAll

\* What begins below a branch's own commits is below.
LEMMA OldIsBelow ==
    ASSUME Inv, Lineage, NEW b \in Branch, kind[b] = "plain"
    PROVE  PassesAll(OldUpstream(b, NearestValid(b)), b, BaseOf(NearestValid(b)))
<1> DEFINE p == NearestValid(b)
<1>1. p \in Node /\ BaseOf(p) \in Seq(Patch) /\ tip[b] \in Seq(Patch)
  <2>1. Shapely
    BY DEF Inv, Types, Stacks, Shapely
  <2>2. p \in Node
    BY <2>1, NearestValidIs, PathIs DEF Shapely, Node
  <2> QED
    BY <2>1, <2>2, ItemsAre DEF Inv, Types, TypeOK, Node, Revision
<1>2. CASE OldUpstream(b, p) = base[b]
  BY <1>2, Descends
<1>3. CASE OldUpstream(b, p) = MergeBase(tip[b], BaseOf(p))
  <2>1. ToSet(OldUpstream(b, p)) \subseteq ToSet(BaseOf(p))
    BY <1>1, <1>3, MergeBaseIs, AncestorSet
  <2> QED
    BY <2>1 DEF PassesAll
<1> QED
  BY <1>2, <1>3 DEF OldUpstream

LEMMA PlanCommits ==
    ASSUME Inv, Inv', CommitInv, NEW S, S \subseteq Branch, Plan(S)
    PROVE  CommitInv'
<1> USE DEF Inv, CommitInv
<1>1. Shapely /\ item' = PlanOf(S)
  BY DEF Plan, Shapely, Types, Stacks
<1>2. /\ item' \in [Branch -> Items]
      /\ \A b \in Branch :
           LET p == NearestValid(b)
           IN item'[b] = IF Unplanned(b, S) THEN Skip
                         ELSE ItemOf(b, IF p = Trunk THEN Skip ELSE item'[p])
  BY <1>1, PlanIs
<1>3. /\ UNCHANGED <<tip, parent, base, kind, merged, remote, newRev, snap, alive, made>>
      /\ newRev = NoRevs
  BY DEF Plan, Idle, gitVars, counters
<1>4. /\ tip \in [Node -> Revision] /\ parent \in [Branch -> Node] /\ kind \in Kinds
      /\ Trunk \in Node /\ Branch \subseteq Node /\ None \notin Revision
      /\ remote \in [Branch -> Revision] /\ Ordered(parent)
  BY ConstantsAssumption DEF Types, TypeOK, Stacks, Node
<1>5. Lineage'
  BY <1>3 DEF Lineage, Native, BaseOf, IsAnchor
<1>6. Trials'
  BY <1>3 DEF Trials, NoRevs
<1>7. \A x \in Node : Native(BaseOf(x), x) /\ (x = Trunk \/ kind[x] # "anchor" => BaseOf(x) = tip[x])
  BY <1>4 DEF Lineage, BaseOf, IsAnchor, Native, NativeAt
<1>8. ASSUME NEW b \in Branch, item'[b] # Skip
      PROVE  /\ kind[b] = "anchor" => item'[b] = AnchorItem(b)
             /\ kind[b] = "frozen" => item'[b] = FrozenItem(b)
             /\ kind[b] = "plain" =>
                  LET p == NearestValid(b)
                  IN item'[b] = PlainItem(b, p, IF p = Trunk THEN Skip ELSE item'[p])
             /\ kind[b] \in {"anchor", "frozen", "plain"}
  <2>1. kind[b] \in {"plain", "locked", "frozen", "anchor"} /\ ~Unplanned(b, S)
    BY <1>2, <1>4, <1>8, ConstantsAssumption
  <2> QED
    BY <1>2, <2>1 DEF ItemOf, Unplanned
<1>9. ASSUME NEW b \in Branch, item'[b].to # None
      PROVE  \/ kind[b] = "anchor" /\ item'[b].to = tip[Trunk]
             \/ kind[b] = "frozen" /\ item'[b].to = remote[b]
  <2>1. item'[b] # Skip
    BY <1>9 DEF Skip
  <2>2. \A p, above : PlainItem(b, p, above).to = None
    BY DEF PlainItem
  <2>3. kind[b] # "plain"
    BY <1>8, <1>9, <2>1, <2>2
  <2>4. kind[b] = "anchor" => item'[b].to = tip[Trunk]
    BY <1>8, <1>9, <2>1 DEF AnchorItem, Skip
  <2>5. kind[b] = "frozen" => item'[b].to = remote[b]
    BY <1>8, <1>9, <2>1 DEF FrozenItem, Skip
  <2> QED
    BY <1>8, <2>1, <2>3, <2>4, <2>5
<1>10. ASSUME NEW b \in Branch, kind[b] = "plain", item'[b].act = "rebase"
       PROVE  LET i == item'[b] p == item'[b].onto
              IN /\ i.pin # None => /\ p # Trunk /\ Native(i.pin, p)
                                    /\ IsAnchor(p) \/ Pure(i.pin, p)
                 /\ i.pin = None /\ p # Trunk => item'[p].act \notin {"anchor", "frozen"}
                 /\ PassesAll(i.old, b, Onto(b)') /\ Passes(tip[b], b, Onto(b)')
  <2> DEFINE p == NearestValid(b)
             above == IF p = Trunk THEN Skip ELSE item'[p]
             i == item'[b]
  <2>1. p \in Node /\ Before(p, b) /\ BaseOf(p) \in Revision
    BY <1>1, <1>4, NearestValidIs, PathIs, ItemsAre DEF Node
  <2>2. /\ i = PlainItem(b, p, above)
    BY <1>8, <1>10 DEF Skip
  <2> HIDE DEF p, above, i
  <2>3. /\ i.onto = p /\ i.old = OldUpstream(b, p)
        /\ i.pin = IF above.to # None THEN above.to
                   ELSE IF tip[p] # BaseOf(p) THEN BaseOf(p) ELSE None
    BY <2>2 DEF PlainItem
  <2>4. above.to # None => /\ p \in Branch
                           /\ \/ kind[p] = "anchor" /\ above.to = tip[Trunk]
                              \/ kind[p] = "frozen" /\ above.to = remote[p]
    BY <1>4, <1>9, <2>1 DEF above, Skip, Node
  <2>5. CASE above.to # None /\ kind[p] = "anchor"
    <3>1. i.pin = BaseOf(p) /\ i.pin # None /\ p # Trunk /\ IsAnchor(p)
      BY <1>4, <2>1, <2>3, <2>4, <2>5, ConstantsAssumption DEF BaseOf, IsAnchor
    <3>2. Onto(b)' = BaseOf(p)
      BY <3>1 DEF Onto, i
    <3> QED
      BY <1>7, <1>10, <2>1, <2>3, <3>1, <3>2, Descends, OldIsBelow DEF i, p
  <2>6. CASE above.to # None /\ kind[p] = "frozen"
    <3>1. i.pin = remote[p] /\ i.pin # None /\ p \in Branch /\ p # Trunk
      BY <2>3, <2>4, <2>6, ConstantsAssumption
    <3>2. Pure(i.pin, p) /\ Native(i.pin, p) /\ Pure(tip[p], p) /\ BaseOf(p) = tip[p]
      BY <2>6, <3>1 DEF Lineage, BaseOf, IsAnchor
    <3>3. Onto(b)' = i.pin
      BY <3>1 DEF Onto, i
    <3>4. \A r : /\ PassesAll(r, b, BaseOf(p)) => PassesAll(r, b, i.pin)
                 /\ Passes(r, b, BaseOf(p)) => Passes(r, b, i.pin)
      BY <2>1, <3>2, HigherIs DEF Passes, PassesAll, Pure
    <3> QED
      BY <1>10, <2>3, <3>1, <3>2, <3>3, <3>4, Descends, OldIsBelow DEF i, p
  <2>7. CASE above.to = None
    <3>1. i.pin = (IF tip[p] # BaseOf(p) THEN BaseOf(p) ELSE None) /\ BaseOf(p) # None
      BY <1>4, <2>1, <2>3, <2>7
    <3>2. Onto(b)' = BaseOf(p)
      <4>1. CASE i.pin # None
        BY <3>1, <4>1 DEF Onto, i
      <4>2. CASE i.pin = None
        <5>1. \A x \in Branch : newRev'[x] = None
          BY <1>3 DEF NoRevs
        <5>2. Onto(b)' = tip'[p]
          BY <2>1, <2>3, <4>2, <5>1 DEF Onto, i, Node
        <5> QED
          BY <1>3, <3>1, <4>2, <5>2
      <4> QED
        BY <4>1, <4>2
    <3>3. i.pin # None => p # Trunk /\ IsAnchor(p) /\ Native(i.pin, p)
      BY <1>7, <2>1, <3>1 DEF IsAnchor, BaseOf
    <3>4. p # Trunk => item'[p].act \notin {"anchor", "frozen"}
      <4>1. p # Trunk => p \in Branch /\ item'[p].to = None
        BY <2>1, <2>7 DEF above, Node
      <4> QED
        BY <4>1 DEF PlanSound
    <3> QED
      BY <1>10, <2>3, <3>2, <3>3, <3>4, Descends, OldIsBelow DEF i, p
  <2> QED
    BY <2>4, <2>5, <2>6, <2>7
<1>11. PlanLineage'
  <2> SUFFICES ASSUME NEW b \in Branch, item'[b] # Skip
      PROVE LET i == item'[b]
            IN /\ i.act = "rebase" => kind[b] = "plain"
               /\ i.act = "anchor" => Native(i.to, Trunk) /\ Native(i.rev, Trunk)
               /\ i.act = "frozen" => Pure(i.to, b) /\ Native(i.to, b)
               /\ i.act \in {"frozen", "record"} => /\ Native(i.rev, parent[b])
                                                    /\ PassesAll(i.rev, b, BaseOf(parent[b]))
    <3>1. Skip.act = "skip"
      BY DEF Skip
    <3>2. \A b \in Branch : /\ kind'[b] = kind[b] /\ parent'[b] = parent[b] /\ tip'[b] = tip[b]
                            /\ BaseOf(parent[b])' = BaseOf(parent[b])
      BY <1>3 DEF BaseOf, IsAnchor
    <3>3. /\ \A x : IsAnchor(x)' <=> IsAnchor(x)
          /\ made' = made /\ tip'[Trunk] = tip[Trunk]
      BY <1>3 DEF IsAnchor
    <3> QED
      BY <1>10, <3>1, <3>2, <3>3 DEF PlanLineage, Native
  <2>1. CASE kind[b] = "anchor"
    <3>1. item'[b] = AnchorItem(b)
      BY <1>8, <2>1
    <3> QED
      BY <1>4, <3>1 DEF AnchorItem, Skip, Lineage
  <2>2. CASE kind[b] = "frozen"
    <3>1. item'[b] = FrozenItem(b)
      BY <1>8, <2>2
    <3>2. PassesAll(tip[parent[b]], b, BaseOf(parent[b]))
      <4>1. \A q : q.home = b \/ Higher(q, b) => Higher(q, parent[b])
        BY <1>4, HigherIs DEF Ordered
      <4> QED
        BY <1>4, <4>1 DEF PassesAll, BaseOf, Lineage, Native, NativeAt
    <3> QED
      BY <1>4, <2>2, <3>1, <3>2 DEF FrozenItem, Skip, Lineage
  <2>3. CASE kind[b] = "plain"
    <3> DEFINE p == NearestValid(b)
               above == IF p = Trunk THEN Skip ELSE item'[p]
    <3>1. item'[b] = PlainItem(b, p, above)
      BY <1>8, <2>3
    <3> HIDE DEF p, above
    <3>2. /\ item'[b].act \in {"rebase", "record", "skip"} /\ item'[b].rev = BaseOf(p)
          /\ item'[b].act = "record" => p = parent[b]
      BY <3>1 DEF PlainItem
    <3> QED
      BY <1>4, <1>7, <2>3, <3>2 DEF PassesAll
  <2> QED
    BY <1>8, <2>1, <2>2, <2>3
<1> QED
  BY <1>5, <1>6, <1>11

\* What a rebase goes onto is native there.
LEMMA OntoIsNative ==
    ASSUME Inv, CommitInv, NEW b \in Branch, item[b].act = "rebase"
    PROVE  /\ item[b].onto \in Node /\ Before(item[b].onto, b)
           /\ Native(Onto(b), item[b].onto)
<1>1. item[b].onto \in Node /\ Before(item[b].onto, b) /\ Trunk \notin Branch
  BY OntoIs, ConstantsAssumption DEF Inv, PlanSound
<1>2. item[b].pin # None => Native(item[b].pin, item[b].onto)
  BY DEF CommitInv, PlanLineage
<1>3. \A x \in Node : Native(tip[x], x)
  BY DEF CommitInv, Lineage
<1>4. \A x \in Branch : newRev[x] # None => Native(newRev[x], x)
  BY DEF CommitInv, Trials
<1> QED
  BY <1>1, <1>2, <1>3, <1>4 DEF Onto, Node

LEMMA ValidateCommits ==
    ASSUME Inv, Inv', CommitInv, NEW b \in Branch, ValidateSpec(b)
    PROVE  CommitInv'
<1> USE DEF Inv, CommitInv
<1> DEFINE r == Replay(Onto(b), item[b].old, tip[b])
<1>1. /\ UNCHANGED <<tip, parent, base, kind, merged, remote, snap, phase, item, alive, late, made,
                     todo>>
      /\ phase = "validate" /\ item[b].act = "rebase" /\ newRev[b] = None
      /\ newRev' = newRev \/ newRev' = [newRev EXCEPT ![b] = r]
      /\ newRev \in [Branch -> Revs]
  BY DEF ValidateSpec, Pending, Types, TypeOK, Revs, gitVars, pastVars
<1>2. \A c \in Branch : newRev'[c] = newRev[c] \/ (c = b /\ newRev'[b] = r)
  BY <1>1
<1>3. /\ Onto(b) \in Seq(Patch) /\ item[b].old \in Seq(Patch) /\ tip[b] \in Seq(Patch)
      /\ Trunk \notin Branch
  BY <1>1, OntoIs, ConstantsAssumption DEF Types, TypeOK, Revision, Node
<1>4. /\ r \in Seq(Patch) /\ ToSet(Onto(b)) \subseteq ToSet(r)
      /\ ToSet(r) \subseteq ToSet(Onto(b)) \cup ToSet(tip[b])
      /\ ToSet(tip[b]) \subseteq ToSet(r) \cup ToSet(item[b].old)
  BY <1>3, ReplayIs, AncestorSet
<1> HIDE DEF r
<1>5. Passes(tip[b], b, Onto(b)) /\ PassesAll(item[b].old, b, Onto(b))
  BY <1>1 DEF PlanLineage
<1>6. Passes(tip[b], b, r) /\ Passes(r, b, Onto(b))
  BY <1>4, <1>5 DEF Passes
<1>7. (alive[b] \cap ToSet(tip[b])) \ late \subseteq ToSet(r)
  BY <1>4, <1>5 DEF PassesAll, Lineage
<1>8. NativeAt(r, b, made, tip[Trunk])
  <2>1. item[b].onto \in Node /\ Before(item[b].onto, b) /\ NativeAt(Onto(b), item[b].onto, made, tip[Trunk])
    BY <1>1, OntoIsNative DEF Native
  <2>2. made \in Nat /\ made <= made
    BY ConstantsAssumption DEF Types
  <2>3. NativeAt(Onto(b), b, made, tip[Trunk])
    BY <1>3, <2>1, <2>2, NativeIs DEF Revision
  <2>4. NativeAt(tip[b], b, made, tip[Trunk])
    BY DEF Lineage, Native, Node
  <2> QED
    BY <1>4, <2>3, <2>4 DEF NativeAt
<1>9. ASSUME NEW c \in Branch, item[c].act = "rebase", NEW s
      PROVE  /\ PassesAll(s, c, Onto(c)) => PassesAll(s, c, Onto(c)')
             /\ Passes(s, c, Onto(c)) => Passes(s, c, Onto(c)')
             /\ c = b => Onto(c)' = Onto(c)
  <2>1. item[c].onto \in Node /\ Before(item[c].onto, c) /\ (item[c].onto = b => c # b)
    BY <1>9, OntoIsNative, BeforeIs
  <2>2. \/ Onto(c)' = Onto(c)
        \/ item[c].onto = b /\ Onto(c) = tip[b] /\ Onto(c)' = r
    BY <1>1, <1>2, <1>3, <2>1 DEF Onto, Node
  <2>3. Passes(Onto(c), item[c].onto, Onto(c)')
    BY <1>6, <2>2 DEF Passes
  <2> QED
    BY <2>1, <2>2, <2>3, PassesIs
<1>10. Lineage'
  BY <1>1 DEF Lineage, Native, BaseOf, IsAnchor
<1>11. PlanLineage'
  <2> SUFFICES ASSUME NEW c \in Branch, item[c].act = "rebase"
               PROVE  PassesAll(item[c].old, c, Onto(c)') /\ Passes(tip[c], c, Onto(c)')
    BY <1>1 DEF PlanLineage, Native, IsAnchor, BaseOf
  <2> QED
    BY <1>1, <1>9 DEF PlanLineage
<1>12. Trials'
  <2> SUFFICES ASSUME NEW c \in Branch, newRev'[c] # None
      PROVE /\ NativeAt(newRev'[c], c, made, tip[Trunk])
            /\ Passes(tip[c], c, newRev'[c])
            /\ (alive[c] \cap ToSet(tip[c])) \ late \subseteq ToSet(newRev'[c])
            /\ Passes(newRev'[c], c, Onto(c)')
    BY <1>1 DEF Trials, Seen, Native
  <2>1. item[c].act = "rebase"
    BY <1>1 DEF PlanSound
  <2>2. CASE newRev'[c] = newRev[c]
    BY <1>1, <1>9, <2>1, <2>2 DEF Trials, Seen, Native
  <2>3. CASE c = b /\ newRev'[b] = r
    BY <1>1, <1>6, <1>7, <1>8, <1>9, <2>3
  <2> QED
    BY <1>2, <2>2, <2>3
<1> QED
  BY <1>10, <1>11, <1>12

\* What is read is what there is.
LEMMA TipsRead ==
    ASSUME Inv, Lineage, NEW x \in Node
    PROVE  Native(tip[x], x) /\ Passes(tip[x], x, BaseOf(x))
BY DEF Lineage, Native, NativeAt, Passes, BaseOf

LEMMA CollectCommits ==
    ASSUME Inv, Inv', CommitInv, Collect
    PROVE  CommitInv'
<1> USE DEF Inv, CommitInv, gitVars, pastVars, counters
<1>1. /\ UNCHANGED <<gitVars, item, newRev, alive, late, made>>
      /\ phase = "validate" /\ phase' = "inspect" /\ snap' = tip
  BY DEF Collect
<1>2. Lineage'
  BY <1>1, TipsRead DEF Lineage, Native, BaseOf, IsAnchor
<1>3. PlanLineage'
  BY <1>1 DEF PlanLineage, Native, BaseOf, IsAnchor
<1>4. Trials'
  BY <1>1 DEF Trials, Seen, Native, Onto
<1> QED
  BY <1>2, <1>3, <1>4

LEMMA InspectCommits ==
    ASSUME Inv, Inv', CommitInv, Inspect
    PROVE  CommitInv'
<1> USE DEF Inv, CommitInv, gitVars, planVars, counters
<1>1. /\ UNCHANGED <<gitVars, planVars, snap, todo, alive, late, made>>
      /\ phase = "inspect" /\ phase' = "apply"
  BY DEF Inspect
<1>2. Lineage'
  BY <1>1 DEF Lineage, Native, BaseOf, IsAnchor
<1>3. PlanLineage'
  BY <1>1 DEF PlanLineage, Native, BaseOf, IsAnchor
<1>4. Trials'
  <2>1. \A b \in Branch : newRev[b] # None => b \in todo' \/ Excluded(b)'
    BY <1>1, ChainIs DEF Placed, Excluded
  <2> QED
    BY <1>1, <2>1 DEF Trials, Seen, Native, Onto
<1> QED
  BY <1>2, <1>3, <1>4

LEMMA HoldBackCommits ==
    ASSUME Inv, Inv', CommitInv, NEW b \in Branch, HoldBack(b)
    PROVE  CommitInv'
<1> USE DEF Inv, CommitInv, gitVars, planVars, pastVars, counters
<1>1. /\ UNCHANGED <<gitVars, phase, planVars, snap, pastVars, counters>>
      /\ phase = "apply" /\ todo' = todo \ {b}
      /\ HeldBack(b) \/ held' = held \cup {b}
      /\ held \subseteq held'
  BY DEF HoldBack, Turn
<1>2. Lineage'
  BY <1>1 DEF Lineage, Native, BaseOf, IsAnchor
<1>3. PlanLineage'
  BY <1>1 DEF PlanLineage, Native, BaseOf, IsAnchor
<1>4. Trials'
  <2>1. /\ \A c : (Excluded(c)' <=> Excluded(c)) /\ (HeldBack(c) => HeldBack(c)')
        /\ HeldBack(b)'
    <3>1. \A c : (Excluded(c)' <=> Excluded(c)) /\ (HeldBack(c) => HeldBack(c)')
      BY <1>1, ChainIs DEF Excluded, HeldBack
    <3> QED
      BY <1>1, <3>1, OwnChain, ChainIs DEF HeldBack
  <2> QED
    BY <1>1, <2>1 DEF Trials, Seen, Native, Onto
<1> QED
  BY <1>2, <1>3, <1>4

LEMMA RefreshCommits ==
    ASSUME Inv, Inv', CommitInv, NEW b \in Branch, MetadataRefresh(b)
    PROVE  CommitInv'
<1> USE DEF Inv, CommitInv, planVars, pastVars, counters
<1>1. /\ UNCHANGED <<tip, parent, kind, remote, phase, planVars, snap, held, pastVars, counters>>
      /\ phase = "apply" /\ todo' = todo \ {b} /\ item[b].act = "record"
      /\ base' = [base EXCEPT ![b] = item[b].rev] /\ base \in [Branch -> Revision]
  BY DEF MetadataRefresh, Free, Turn, Types, TypeOK
<1>2. Native(item[b].rev, parent[b]) /\ PassesAll(item[b].rev, b, BaseOf(parent[b]))
  BY <1>1 DEF PlanLineage
<1>3. Lineage'
  <2>1. \A c \in Branch : base'[c] = base[c] \/ (c = b /\ base'[c] = item[b].rev)
    BY <1>1
  <2> QED
    BY <1>1, <1>2, <2>1 DEF Lineage, Native, BaseOf, IsAnchor
<1>4. PlanLineage'
  BY <1>1 DEF PlanLineage, Native, BaseOf, IsAnchor
<1>5. Trials'
  <2>1. newRev[b] = None
    BY <1>1 DEF PlanSound
  <2>2. \A c : (Excluded(c)' <=> Excluded(c)) /\ (HeldBack(c)' <=> HeldBack(c))
    BY <1>1, ChainIs DEF Excluded, HeldBack
  <2> QED
    BY <1>1, <2>1, <2>2 DEF Trials, Seen, Native, Onto
<1> QED
  BY <1>3, <1>4, <1>5

LEMMA ResetCommits ==
    ASSUME Inv, Inv', CommitInv, ResetWorktree
    PROVE  CommitInv'
<1> USE DEF Inv, CommitInv, gitVars, planVars, pastVars, counters
<1>1. UNCHANGED <<gitVars, phase, planVars, snap, held, todo, pastVars, counters>>
  BY DEF ResetWorktree
<1>2. Lineage'
  BY <1>1 DEF Lineage, Native, BaseOf, IsAnchor
<1>3. PlanLineage'
  BY <1>1 DEF PlanLineage, Native, BaseOf, IsAnchor, Onto
<1>4. Trials'
  <2>1. \A c : (Excluded(c)' <=> Excluded(c)) /\ (HeldBack(c)' <=> HeldBack(c))
    BY <1>1, ChainIs DEF Excluded, HeldBack
  <2> QED
    BY <1>1, <2>1 DEF Trials, Seen, Native, Onto
<1> QED
  BY <1>2, <1>3, <1>4

LEMMA EndCommits ==
    ASSUME Inv, Inv', CommitInv, Finish \/ Crash \/ \E b \in Branch : UpdateRefsFails(b)
    PROVE  CommitInv'
<1> USE DEF Inv, CommitInv, gitVars, pastVars
<1>1. /\ UNCHANGED <<gitVars, pastVars, made>>
      /\ item' = [b \in Branch |-> Skip] /\ newRev' = NoRevs /\ snap' = tip
  BY DEF Finish, Crash, UpdateRefsFails, Over, counters
<1>2. Lineage'
  BY <1>1, TipsRead DEF Lineage, Native, BaseOf, IsAnchor
<1>3. PlanLineage'
  BY <1>1 DEF PlanLineage, Skip
<1>4. Trials'
  BY <1>1 DEF Trials, NoRevs
<1> QED
  BY <1>2, <1>3, <1>4

\* What a branch's rebase was made of, from branches above the new parent, is
\* there now that it is the branch's turn.
LEMMA OntoIsBelow ==
    ASSUME Inv, CommitInv, NEW b \in Branch, Free(b), item[b].act = "rebase"
    PROVE  LET p == item[b].onto
           IN /\ p \in Node /\ Before(p, b)
              /\ Passes(Onto(b), p, BaseOf(p))
              /\ Passes(Recorded(b), p, BaseOf(p)) /\ Native(Recorded(b), p)
<1> USE DEF Inv, CommitInv
<1> DEFINE p == item[b].onto
<1>1. p \in Chain(b) \cup {Trunk} /\ p \in Node /\ Before(p, b) /\ p # b
  BY OntoIsNative, BeforeIs DEF PlanSound
<1>2. p # Trunk /\ newRev[p] # None
      => /\ Passes(newRev[p], p, tip[p]) /\ BaseOf(p) = tip[p] /\ Native(newRev[p], p)
  <2> SUFFICES ASSUME p # Trunk, newRev[p] # None
               PROVE  /\ Passes(newRev[p], p, tip[p]) /\ BaseOf(p) = tip[p]
                      /\ Native(newRev[p], p)
    OBVIOUS
  <2>1. p \in Branch /\ p \notin todo /\ ~HeldBack(p) /\ ~Excluded(p) /\ phase = "apply"
    BY <1>1, BelowIsDone
  <2>2. kind[p] = "plain"
    BY <2>1 DEF PlanSound
  <2> QED
    BY <2>1, <2>2 DEF Trials, BaseOf, IsAnchor
<1>3. Passes(tip[p], p, BaseOf(p)) /\ Passes(snap[p], p, BaseOf(p)) /\ Native(snap[p], p)
  BY <1>1, TipsRead DEF Lineage
<1>4. item[b].pin # None => Passes(item[b].pin, p, BaseOf(p))
  <2>1. item[b].pin # None => /\ Native(item[b].pin, p)
                              /\ IsAnchor(p) \/ Pure(item[b].pin, p)
    BY DEF PlanLineage
  <2> QED
    BY <2>1 DEF Passes, Pure, Native, NativeAt, BaseOf
<1> HIDE DEF p
<1>5. Passes(Onto(b), p, BaseOf(p))
  BY <1>2, <1>3, <1>4 DEF Onto, p
<1>6. Passes(Recorded(b), p, BaseOf(p)) /\ Native(Recorded(b), p)
  BY <1>2, <1>3 DEF Recorded, p
<1> QED
  BY <1>1, <1>5, <1>6 DEF p

LEMMA UpdateCommits ==
    ASSUME Inv, Inv', CommitInv, NEW b \in Branch, UpdateRefs(b)
    PROVE  CommitInv'
<1> USE DEF Inv, CommitInv
<1> DEFINE to == Target(b)
           p == IF item[b].act = "rebase" THEN item[b].onto ELSE parent[b]
           Now(x) == IF x = b /\ kind[b] # "anchor" THEN Target(b) ELSE BaseOf(x)
<1>1. /\ UNCHANGED <<kind, remote, phase, planVars, held, alive, late, made>>
      /\ phase = "apply" /\ b \in todo /\ todo' = todo \ {b} /\ Free(b)
      /\ item[b].act \in Moving
      /\ tip' = [tip EXCEPT ![b] = to] /\ snap' = [snap EXCEPT ![b] = to]
      /\ base' = [base EXCEPT ![b] = Recorded(b)]
      /\ parent' = IF item[b].act = "rebase" THEN [parent EXCEPT ![b] = p] ELSE parent
      /\ tip[b] = snap[b]
  BY DEF UpdateRefs, Free, Turn, AsRead, counters
<1>2. /\ tip \in [Node -> Revision] /\ snap \in [Node -> Revision] /\ base \in [Branch -> Revision]
      /\ parent \in [Branch -> Node] /\ b \in Node /\ b # Trunk /\ Trunk \in Node
      /\ Branch \subseteq Node /\ made \in Nat
      /\ \A c \in Branch : Before(parent[c], c) /\ parent[c] # c
  BY ConstantsAssumption, BeforeIs DEF Types, TypeOK, Stacks, Ordered, Node
<1>3. /\ p \in Node /\ Before(p, b) /\ p # b
      /\ item[b].act \in {"rebase", "anchor", "frozen"}
      /\ item[b].act = "rebase" => kind[b] = "plain" /\ newRev[b] # None /\ to = newRev[b]
      /\ item[b].act = "anchor" => kind[b] = "anchor" /\ to = item[b].to /\ Recorded(b) = item[b].rev
      /\ item[b].act = "frozen" => kind[b] = "frozen" /\ to = item[b].to /\ Recorded(b) = item[b].rev
  <2>1. item[b].act = "rebase" => newRev[b] # None
    BY <1>1 DEF Placed, Applicable
  <2>2. p \in Node /\ Before(p, b)
    BY <1>2, OntoIsNative
  <2> QED
    BY <1>1, <2>1, <2>2, BeforeIs DEF PlanSound, Target, Recorded, Moving
<1> HIDE DEF to, p
<1>4. /\ tip'[b] = to /\ snap'[b] = to /\ \A x \in Node : x # b => tip'[x] = tip[x] /\ snap'[x] = snap[x]
      /\ tip'[Trunk] = tip[Trunk]
      /\ parent'[b] = p /\ base'[b] = Recorded(b)
      /\ \A c \in Branch : c # b => parent'[c] = parent[c] /\ base'[c] = base[c]
  BY <1>1, <1>2 DEF p
<1>5. Native(to, b)
  <2>1. CASE item[b].act = "anchor"
    <3>1. to \in Revision /\ NativeAt(to, Trunk, made, tip[Trunk]) /\ Before(Trunk, b) /\ made <= made
      BY <1>1, <1>2, <1>3, <2>1, RecordedIsReal DEF PlanLineage, Native, Before, to
    <3> QED
      BY <1>2, <3>1, NativeIs DEF Native
  <2> QED
    BY <1>3, <2>1 DEF Trials, PlanLineage
<1>6. /\ \A x \in Node : BaseOf(x)' = Now(x)
      /\ \A c \in Branch : parent'[c] \in Node /\ BaseOf(parent[c])' = Now(parent'[c])
  <2>1. \A c \in Branch : parent'[c] \in Node
    BY <1>2, <1>3, <1>4
  <2> QED
    BY <1>1, <1>2, <1>4, <2>1 DEF BaseOf, IsAnchor, to
<1>7. kind[b] # "anchor" => Passes(tip[b], b, to)
  BY <1>1, <1>3 DEF Trials, Seen, Lineage, Pure, Passes
<1>8. \A x \in Node : Passes(BaseOf(x), x, Now(x))
  <2>1. kind[b] # "anchor" => BaseOf(b) = tip[b]
    BY DEF BaseOf, IsAnchor
  <2> QED
    BY <1>7, <2>1 DEF Passes, to
<1>9. ASSUME kind[b] # "anchor"
      PROVE  Passes(to, b, BaseOf(p)) /\ PassesAll(Recorded(b), b, BaseOf(p))
  <2>1. CASE item[b].act = "rebase"
    <3>1. /\ Passes(Onto(b), p, BaseOf(p)) /\ Passes(Recorded(b), p, BaseOf(p))
      BY <1>1, <2>1, OntoIsBelow DEF p
    <3>2. Passes(to, b, Onto(b))
      BY <1>3, <2>1 DEF Trials
    <3> QED
      BY <1>3, <3>1, <3>2, PassesIs
  <2>2. CASE item[b].act = "frozen"
    BY <1>3, <2>2 DEF PlanLineage, Passes, Pure, p
  <2> QED
    BY <1>3, <1>9, <2>1, <2>2
<1>10. Native(Recorded(b), p)
  <2>1. CASE item[b].act = "rebase"
    BY <1>1, <2>1, OntoIsBelow DEF p
  <2>2. CASE item[b].act = "anchor"
    <3>1. /\ Recorded(b) \in Revision /\ NativeAt(Recorded(b), Trunk, made, tip[Trunk])
          /\ Before(Trunk, p) /\ made <= made
      BY <1>1, <1>2, <1>3, <2>2, RecordedIsReal DEF PlanLineage, Native, Before
    <3> QED
      BY <1>2, <1>3, <3>1, NativeIs DEF Native, Node
  <2>3. CASE item[b].act = "frozen"
    BY <1>3, <2>3 DEF PlanLineage, p
  <2> QED
    BY <1>3, <2>1, <2>2, <2>3
<1>11. ASSUME NEW c \in Branch, c # b
       PROVE  /\ \A r : PassesAll(r, c, BaseOf(parent[c])) => PassesAll(r, c, Now(parent[c]))
              /\ \A r : Passes(r, c, BaseOf(parent[c])) => Passes(r, c, Now(parent[c]))
  BY <1>2, <1>8, PassesIs
<1>12. Lineage'
  <2>1. \A x \in Node : /\ Native(tip'[x], x) /\ Native(snap'[x], x)
                        /\ Passes(snap'[x], x, Now(x))
    <3>1. ASSUME NEW x \in Node, x # b
          PROVE  Native(tip'[x], x) /\ Native(snap'[x], x) /\ Passes(snap'[x], x, Now(x))
      BY <1>4, <1>8, <3>1 DEF Lineage, Passes
    <3>2. Passes(to, b, Now(b))
      BY <1>2, <1>5 DEF Passes, BaseOf, IsAnchor, Native, NativeAt, to
    <3> QED
      BY <1>4, <1>5, <3>1, <3>2
  <2>2. ASSUME NEW c \in Branch
        PROVE  /\ Native(remote[c], c) /\ Native(base'[c], parent'[c])
               /\ kind[c] = "frozen" => Pure(tip'[c], c) /\ Pure(remote[c], c)
    <3>1. kind[b] = "frozen" => Pure(to, b)
      BY <1>3 DEF PlanLineage
    <3> QED
      BY <1>2, <1>4, <1>10, <3>1 DEF Lineage
  <2>3. ASSUME NEW c \in Branch, kind[c] # "anchor"
        PROVE  /\ Passes(tip'[c], c, Now(parent'[c]))
               /\ PassesAll(base'[c], c, Now(parent'[c]))
    <3>1. CASE c = b
      <4>1. Now(p) = BaseOf(p)
        BY <1>3
      <4> QED
        BY <1>4, <1>9, <2>3, <3>1, <4>1
    <3>2. CASE c # b
      BY <1>2, <1>4, <1>11, <2>3, <3>2 DEF Lineage
    <3> QED
      BY <3>1, <3>2
  <2> HIDE DEF Now
  <2>4. \A c \in Branch : \A q \in alive[c] : q.home = c
    BY DEF Lineage
  <2> QED
    BY <1>1, <1>4, <1>6, <2>1, <2>2, <2>3, <2>4 DEF Lineage, Native
<1>13. PlanLineage'
  <2>1. ASSUME NEW c \in Branch, item[c].act \in {"frozen", "record"}
        PROVE  /\ Native(item[c].rev, parent'[c]) /\ PassesAll(item[c].rev, c, Now(parent'[c]))
    <3>1. parent'[c] = parent[c]
      BY <1>4, <2>1 DEF p
    <3>2. parent[c] \in Node /\ Before(parent[c], c)
      BY <1>2
    <3>3. Passes(BaseOf(parent[c]), parent[c], Now(parent[c]))
      BY <1>8, <3>2
    <3> HIDE DEF Now
    <3>4. PassesAll(item[c].rev, c, BaseOf(parent[c])) /\ Native(item[c].rev, parent[c])
      BY <2>1 DEF PlanLineage
    <3> QED
      BY <3>1, <3>2, <3>3, <3>4, PassesIs
  <2> HIDE DEF Now
  <2>2. /\ item' = item /\ phase' = "apply" /\ tip'[Trunk] = tip[Trunk] /\ made' = made
        /\ \A x : IsAnchor(x)' <=> IsAnchor(x)
    BY <1>1, <1>4 DEF planVars, IsAnchor
  <2>3. \A c \in Branch : item[c].act \in {"frozen", "record"} =>
            /\ NativeAt(item[c].rev, parent'[c], made, tip[Trunk])
            /\ PassesAll(item[c].rev, c, BaseOf(parent[c])')
    BY <1>6, <2>1 DEF Native
  <2> QED
    BY <2>2, <2>3 DEF PlanLineage, Native
<1>14. Trials'
  <2>1. \A c : (Excluded(c)' <=> Excluded(c)) /\ (HeldBack(c)' <=> HeldBack(c))
    BY <1>1, ChainIs DEF Excluded, HeldBack, planVars
  <2>2. /\ item' = item /\ newRev' = newRev /\ phase' = "apply" /\ tip'[Trunk] = tip[Trunk]
        /\ made' = made /\ alive' = alive /\ late' = late
    BY <1>1, <1>4 DEF planVars
  <2>3. ASSUME NEW c \in Branch, newRev[c] # None
        PROVE  Onto(c)' = Onto(c)
    <3>1. item[c].act = "rebase" /\ item[c].onto \in Node
      BY <2>3, OntoIsNative DEF PlanSound
    <3>2. CASE item[c].onto = b /\ item[c].pin = None
      <4>1. newRev[b] # None
        BY <1>2, <1>3, <3>1, <3>2 DEF PlanLineage
      <4> QED
        BY <1>2, <2>2, <3>2, <4>1 DEF Onto
    <3> QED
      BY <1>4, <2>2, <3>1, <3>2 DEF Onto
  <2>4. ASSUME NEW c \in Branch, newRev[c] # None
        PROVE  /\ Passes(snap'[c], c, newRev[c])
               /\ (alive[c] \cap ToSet(snap'[c])) \ late \subseteq ToSet(newRev[c])
               /\ \/ c \in todo' \/ Excluded(c) \/ HeldBack(c)
                  \/ Passes(newRev[c], c, tip'[c])
    <3>1. CASE c = b
      <4>1. item[b].act = "rebase"
        BY <2>4, <3>1 DEF PlanSound
      <4> QED
        BY <1>3, <1>4, <3>1, <4>1 DEF Passes
    <3>2. CASE c # b
      <4>1. snap'[c] = snap[c] /\ tip'[c] = tip[c] /\ (c \in todo => c \in todo')
        BY <1>1, <1>2, <1>4, <3>2
      <4> QED
        BY <1>1, <2>4, <4>1 DEF Trials, Seen
    <3> QED
      BY <3>1, <3>2
  <2> QED
    BY <2>1, <2>2, <2>3, <2>4 DEF Trials, Seen, Native
<1> QED
  BY <1>12, <1>13, <1>14

-----------------------------------------------------------------------------
(* The beginning, and what holds.                                          *)

\* At first a branch has its own commit and those of the branches below.
LEMMA FirstCommits ==
    ASSUME Init
    PROVE  CommitInv
<1>1. Inv
  BY FirstInv
<1>2. /\ parent \in [Branch -> Node] /\ tip \in [Node -> Revision] /\ Trunk \notin Branch
      /\ Ordered(parent) /\ kind \in Kinds /\ Branch \subseteq Node /\ Trunk \in Node
  BY <1>1, ConstantsAssumption DEF Inv, Types, TypeOK, Stacks, Node
<1>3. /\ base = [b \in Branch |-> tip[parent[b]]] /\ remote = [b \in Branch |-> tip[b]]
      /\ item = [b \in Branch |-> Skip] /\ newRev = NoRevs /\ snap = tip /\ made = 0
      /\ alive = [b \in Branch |-> IF IsAnchor(b) THEN {} ELSE {[home |-> b, n |-> 0]}]
  BY DEF Init
<1>4. /\ tip[Trunk] = <<[home |-> Trunk, n |-> 0]>>
      /\ \A b \in Branch : tip[b] = IF IsAnchor(b) THEN tip[parent[b]]
                                    ELSE Append(tip[parent[b]], [home |-> b, n |-> 0])
  BY FirstTips
<1>5. \A x \in Node : [home |-> x, n |-> 0] \in Patch
  BY ConstantsAssumption DEF Patch
<1>6. ToSet(tip[Trunk]) = {[home |-> Trunk, n |-> 0]}
  <2>1. DOMAIN tip[Trunk] = {1} /\ tip[Trunk][1] = [home |-> Trunk, n |-> 0]
    BY <1>4
  <2> QED
    BY <2>1 DEF ToSet
<1>7. ASSUME NEW b \in Branch, ~IsAnchor(b)
      PROVE  ToSet(tip[b]) = ToSet(tip[parent[b]]) \cup {[home |-> b, n |-> 0]}
  <2> DEFINE new == [home |-> b, n |-> 0]
  <2>1. new \in Patch /\ tip[parent[b]] \in Seq(Patch) /\ tip[b] = Append(tip[parent[b]], new)
    BY <1>2, <1>4, <1>5, <1>7 DEF Revision
  <2> HIDE DEF new
  <2>2. ToSet(tip[b]) = ToSet(tip[parent[b]]) \cup {new}
    BY <2>1, AppendSet
  <2> QED
    BY <2>2 DEF new
<1> DEFINE First(x) == \A q \in ToSet(tip[x]) : q.n = 0 /\ ~Higher(q, x)
           T == {b \in Branch : First(b)}
<1>8. ASSUME NEW b \in Branch, First(parent[b]) PROVE First(b)
  <2>1. \A q : /\ Higher(q, b) => Higher(q, parent[b])
               /\ q.home = b => ~Higher(q, b)
    BY <1>2, HigherIs DEF Ordered
  <2>2. CASE IsAnchor(b)
    BY <1>4, <1>8, <2>1, <2>2
  <2>3. CASE ~IsAnchor(b)
    <3>1. ASSUME NEW q \in ToSet(tip[b]) PROVE q \in ToSet(tip[parent[b]]) \/ (q.home = b /\ q.n = 0)
      BY <1>7, <2>3
    <3> QED
      BY <1>8, <2>1, <3>1
  <2> QED
    BY <2>2, <2>3
<1>9. First(Trunk)
  <2>1. \A q : Higher(q, Trunk) => q.home # Trunk
    BY <1>2 DEF Higher
  <2> QED
    BY <1>6, <2>1
<1>10. \A b \in Branch : parent[b] = Trunk \/ parent[b] \in T => b \in T
  <2> HIDE DEF First
  <2> QED
    BY <1>8, <1>9
<1>11. Branch \subseteq T
  <2> HIDE DEF T
  <2> QED
    BY <1>2, <1>10, OrderedIsSorted, TreeInduction
<1>12. \A x \in Node : First(x)
  BY <1>9, <1>11 DEF Node
<1> HIDE DEF T
<1>13. \A x \in Node : Native(tip[x], x) /\ Pure(tip[x], x) /\ Passes(tip[x], x, BaseOf(x))
  BY <1>3, <1>12 DEF Native, NativeAt, Pure, Passes
<1>14. Lineage
  <2>1. \A b \in Branch : \A q \in alive[b] : q.home = b
    BY <1>3
  <2>2. \A b \in Branch : base[b] = tip[parent[b]] /\ remote[b] = tip[b]
    BY <1>3
  <2>3. \A b \in Branch : /\ Passes(tip[b], b, BaseOf(parent[b]))
                          /\ PassesAll(base[b], b, BaseOf(parent[b]))
    <3>1. \A b \in Branch : \A q : q.home = b \/ Higher(q, b) => Higher(q, parent[b])
      BY <1>2, HigherIs DEF Ordered
    <3> QED
      BY <1>2, <1>13, <2>2, <3>1 DEF Passes, PassesAll, Pure
  <2> QED
    BY <1>2, <1>3, <1>13, <2>1, <2>2, <2>3 DEF Lineage
<1>15. PlanLineage
  BY <1>3 DEF PlanLineage, Skip
<1>16. Trials
  BY <1>3 DEF Trials, NoRevs
<1> QED
  BY <1>14, <1>15, <1>16 DEF CommitInv

LEMMA CommitStep ==
    ASSUME Inv, CommitInv, [Next]_vars
    PROVE  CommitInv'
<1>1. Inv'
  BY InvStep
<1>2. CASE \E S \in Scopes : Plan(S)
  <2>1. PICK S \in Scopes : Plan(S)
    BY <1>2
  <2>2. S \subseteq Branch
    BY DEF Scopes
  <2> QED
    BY <1>1, <2>1, <2>2, PlanCommits
<1>3. CASE Passing
  <2>1. CASE Collect \/ Inspect \/ ResetWorktree \/ Finish
    BY <1>1, <2>1, CollectCommits, InspectCommits, ResetCommits, EndCommits
  <2>2. ASSUME NEW b \in Branch,
               \/ ValidateSpec(b) \/ HoldBack(b) \/ UpdateRefs(b)
               \/ UpdateRefsFails(b) \/ MetadataRefresh(b)
        PROVE  CommitInv'
    BY <1>1, <2>2, ValidateCommits, HoldBackCommits, UpdateCommits, EndCommits, RefreshCommits
  <2> QED
    BY <1>3, <2>1, <2>2 DEF Passing
<1>4. CASE Crash
  BY <1>1, <1>4, EndCommits
<1>5. CASE Users \/ UNCHANGED vars
  <2>1. Gentle
    BY <1>5, CommitIsGentle, TrunkIsGentle, LocalIsGentle DEF Users
  <2> QED
    BY <1>1, <2>1, GentleStep
<1> QED
  BY <1>2, <1>3, <1>4, <1>5 DEF Next

LEMMA AlwaysCommitInv == Spec => [](Inv /\ CommitInv)
<1>1. Init => Inv /\ CommitInv
  BY FirstInv, FirstCommits
<1>2. Inv /\ CommitInv /\ [Next]_vars => (Inv /\ CommitInv)'
  BY InvStep, CommitStep
<1> QED
  BY <1>1, <1>2, PTL DEF Spec

\* A commit that is on a branch stays there whatever a restack does, unless it
\* was made after the branch's trial rebase and before the refs were read: what
\* a rebase leaves out has landed below, and the ref is moved only from the
\* revision that was read (applyBranchAndMetadata's expected SHA).
THEOREM CommitsAlwaysStay == Spec => CommitsStay
<1>1. ASSUME Inv, CommitInv, [Next]_vars
      PROVE  [\A b \in Branch : kind[b] = "plain"
                 => ((alive[b] \cap alive'[b]) \ late) \cap ToSet(tip[b]) \subseteq ToSet(tip'[b])]_vars
  <2> SUFFICES ASSUME Next, NEW b \in Branch, kind[b] = "plain",
                      NEW q \in ((alive[b] \cap alive'[b]) \ late) \cap ToSet(tip[b])
               PROVE  q \in ToSet(tip'[b])
    BY <1>1
  <2>1. /\ tip \in [Node -> Revision] /\ alive \in [Branch -> SUBSET Patch] /\ b \in Node
        /\ tip[b] \in Seq(Patch)
    BY <1>1 DEF Inv, Types, TypeOK, Node, Revision
  <2>2. CASE tip'[b] = tip[b]
    BY <2>2
  <2>3. ASSUME NEW c \in Branch, UpdateRefs(c) PROVE q \in ToSet(tip'[b])
    <3>1. tip' = [tip EXCEPT ![c] = Target(c)] /\ tip[c] = snap[c] /\ item[c].act \in Moving
          /\ phase = "apply" /\ c \in todo
      BY <2>3 DEF UpdateRefs, AsRead, Free, Turn
    <3>2. CASE c = b
      <4>1. item[b].act = "rebase" /\ newRev[b] # None
        BY <1>1, <3>1, <3>2 DEF Inv, PlanSound, Moving, Placed, Applicable
      <4>2. tip'[b] = newRev[b]
        BY <2>1, <3>1, <3>2, <4>1 DEF Target
      <4> QED
        BY <1>1, <3>1, <3>2, <4>1, <4>2 DEF CommitInv, Trials, Seen
    <3>3. CASE c # b
      BY <2>1, <3>1, <3>3
    <3> QED
      BY <3>2, <3>3
  <2>4. ASSUME NEW c \in Branch, Commit(c) \/ Amend(c) PROVE q \in ToSet(tip'[b])
    <3>1. \A x \in Node \ {c} : tip'[x] = tip[x]
      BY <1>1, <2>4, CommitIs
    <3>2. CASE c # b
      BY <2>1, <3>1, <3>2
    <3>3. CASE c = b
      <4>1. NewPatch(b) \in Patch
        BY <1>1, <2>1, <2>4, <3>3, NewPatchIs DEF Commit, Amend, Make
      <4>2. CASE Commit(b)
        <5>1. tip'[b] = Append(tip[b], NewPatch(b))
          BY <2>1, <4>2 DEF Commit, Make
        <5> QED
          BY <2>1, <4>1, <5>1, AppendSet
      <4>3. CASE Amend(b)
        <5>1. /\ tip'[b] = Append(Front(tip[b]), NewPatch(b)) /\ tip[b] # <<>>
              /\ alive'[b] = (alive[b] \ {Last(tip[b])}) \cup {NewPatch(b)}
          BY <2>1, <4>3 DEF Amend, Make
        <5>2. Front(tip[b]) \in Seq(Patch) /\ ToSet(tip[b]) \subseteq ToSet(Front(tip[b])) \cup {Last(tip[b])}
          BY <2>1, <5>1, FrontIs, FrontSet
        <5>3. ToSet(tip'[b]) = ToSet(Front(tip[b])) \cup {NewPatch(b)}
          BY <4>1, <5>1, <5>2, AppendSet
        <5> QED
          BY <5>1, <5>2, <5>3
      <4> QED
        BY <2>4, <3>3, <4>2, <4>3
    <3> QED
      BY <3>2, <3>3
  <2>5. CASE AdvanceTrunk \/ \E c \in Branch : LandSquashed(c) \/ LandRebased(c)
    BY <1>1, <2>2, <2>5, TrunkIs
  <2> QED
    BY <2>2, <2>3, <2>4, <2>5
    DEF Next, Passing, Users, Plan, ValidateSpec, Collect, Inspect, HoldBack,
        UpdateRefsFails, MetadataRefresh, ResetWorktree, Finish, Crash, RemoteAdvances, Edit,
        NewFile, Touch, gitVars
<1> QED
  BY <1>1, AlwaysCommitInv, PTL DEF Spec, CommitsStay
=============================================================================
