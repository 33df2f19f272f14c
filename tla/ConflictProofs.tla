---------------------------- MODULE ConflictProofs ----------------------------
(***************************************************************************)
(* That an abort restores everything or stays on record, that a conflict   *)
(* loses no commits, and that continue finishes what has stopped, for any  *)
(* stack, worktrees, commands, crashes and interference.                   *)
(*                                                                         *)
(* The rollback is a sequence of steps that can be cut short anywhere.     *)
(* What holds between them is said per step: what the snapshot's branches, *)
(* metadata and HEAD have in common with the repository by then.           *)
(*                                                                         *)
(* A rebase that stops is of a branch that other worktrees commit to.  It  *)
(* has the commits that the branch had when it began, and continue takes   *)
(* it only for that: a commit makes a tip that no continuation expects.    *)
(*                                                                         *)
(* What is left of the restack is left in order: what is before the branch *)
(* that has stopped is settled, what is behind it is in the continuation.  *)
(***************************************************************************)
EXTENDS ConflictWorkflow, StackLemmas

-----------------------------------------------------------------------------
(* What a state is made of.                                                *)

Rev      == Revision \cup {None}
Place    == (Node \ Elsewhere) \cup {None}
Tips     == [Node -> Rev]
Bases    == [Branch -> Rev]
Changes  == 1 .. MaxPatches \cup {None}

Snaps    == [id : Nat, tip : Tips, base : Bases, cur : Place, work : Changes, made : Nat]

\* Where a command is, and which.
Restoring == {"delete", "refs", "metadata", "head", "work"}
Resuming  == {"cas", "reset", "record", "attach"}
Stopping  == {"rebase", "save", "second"}
Pcs       == {"idle", "plan", "apply", "note", "unwind", "clear"}
               \cup Restoring \cup Resuming \cup Stopping
Kinds     == {"none", "restack", "modify", "continue", "abort", "undo"}

Commands == [pc : Pcs, kind : Kinds, todo : SUBSET Branch, hit : Branch \cup {None},
             rest : SUBSET Branch, from : Place, snap : Id, ret : Node \cup {None},
             expected : Rev, base : Rev, to : Rev]

Types ==
    /\ tip \in Tips /\ base \in Bases
    /\ head \in Place /\ work \in Changes /\ shown \subseteq Elsewhere
    /\ rebase \in Rebase \cup {None} /\ cont \in Continuation \cup {None}
    /\ snaps \in Seq(Snaps) /\ depth \in Nat \ {0}
    /\ cmd \in Commands
    /\ rolling \in Id /\ touched \subseteq Node
    /\ made \in 1 .. MaxPatches /\ commands \in Nat

\* Which command is where, and what it has brought there.
Control ==
    /\ Idle => cmd = NoCommand
    /\ cmd.kind = "none" => Idle
    /\ cmd.kind = "abort" <=> cmd.pc = "unwind" \/ (cmd.pc \in Restoring /\ cmd.kind # "undo")
                              \/ (cmd.pc = "clear" /\ cmd.kind # "continue")
    /\ cmd.kind = "undo" => cmd.pc \in Restoring /\ cmd.from = None
    /\ cmd.kind \in {"abort", "undo"} => cmd.hit = None /\ cmd.todo = {}
    /\ cmd.pc = "unwind" => head = cmd.from
    /\ cmd.pc \in Resuming => /\ cmd.kind = "continue" /\ cmd.hit \in Branch
                              /\ cmd.base \in Revision /\ cmd.to \in Revision
                              /\ cmd.expected \in Revision
    /\ cmd.pc = "reset" => cmd.hit \in Elsewhere
    /\ cmd.pc \in Stopping => cmd.hit \in Branch /\ cmd.expected \in Revision /\ head = None
    /\ cmd.pc \in {"save", "second"} => cmd.base \in Revision
    /\ cmd.pc = "second" => cmd.to \in Revision
    /\ cmd.pc = "note" => cont # None /\ cmd.ret # None
    /\ cmd.kind # "continue" => cmd.ret \in Place
    /\ cmd.ret # None => cmd.kind \in {"modify", "continue"}
    /\ head = None \/ rebase = None
    /\ rebase # None => cmd.pc \notin Restoring \cup Resuming \cup {"second", "clear"}
                        /\ (cmd.kind \in {"modify", "continue"} => cmd.pc \in {"save", "note"})
    /\ cmd.pc = "save" => rebase # None

\* Of the snapshot s, or of now: branches are on branches.
Stacked(t, m, h) ==
    /\ \A x \in Node \ Created : t[x] # None
    /\ \A b \in Branch : t[b] # None => t[Parent[b]] # None /\ m[b] # None
    /\ h # None => t[h] # None

Stacks ==
    /\ Stacked(tip, base, head)
    /\ \A i \in DOMAIN snaps : Stacked(snaps[i].tip, snaps[i].base, snaps[i].cur)
    /\ \A b \in cmd.todo : Exists(b)
    /\ cmd.hit # None /\ cmd.pc # "cas" => Exists(cmd.hit)
    /\ cmd.kind # "abort" /\ cmd.from # None => Exists(cmd.from)
    /\ cmd.kind # "continue" /\ cmd.ret # None => Exists(cmd.ret)

-----------------------------------------------------------------------------
(* Rollback.                                                               *)

\* An abort that began where the command did, or with the rebase it ends, leaves
\* HEAD there until it brings it back: then it is, or changes were in its way.
Led(s)      == cmd.from \in {None, s.cur} => head = cmd.from
HeadBack(s) == s.cur # None => \/ head = s.cur
                               \/ cmd.from \notin {None, s.cur}
                               \/ head = None /\ work # None

\* What has been restored of s when the command is at pc.
Restored(s, pc) ==
    /\ pc \in {"refs", "metadata"} => \A b \in Branch : s.tip[b] = None => tip[b] = None
    /\ pc \in {"metadata", "head", "work"} => \A x \in Node : s.tip[x] # None => tip[x] # None
    /\ pc = "metadata" => \A b \in Branch : s.base[b] # None => base[b] = s.base[b]
    /\ pc \in {"head", "work"} => base = s.base
    /\ cmd.kind = "abort" /\ pc \in {"delete", "refs", "metadata", "head"} => Led(s)
    /\ cmd.kind = "abort" /\ pc = "work" => HeadBack(s)

Rollback ==
    /\ rolling # None => /\ cont # None /\ cont.pending /\ cont.snap = rolling
                         /\ Bound(rolling) /\ cmd.kind \in {"none", "abort"}
    /\ cmd.pc = "unwind" /\ cmd.snap # None
         => cont # None /\ cont.pending /\ cont.snap = cmd.snap
    /\ cmd.pc \in Restoring =>
         /\ Bound(cmd.snap) /\ cmd.snap # None /\ Restored(Snapshot(cmd.snap), cmd.pc)
         /\ cmd.kind = "abort" => rolling = cmd.snap
    /\ cmd.kind = "abort" /\ cmd.pc \in {"metadata", "head", "work"}
         => \A x \in Node \ touched : tip[x] = Snapshot(rolling).tip[x]
    /\ cmd.kind = "abort" /\ cmd.pc = "clear" /\ rolling # None => Whole(Snapshot(rolling))

Inv == Types /\ Control /\ Stacks /\ Rollback

-----------------------------------------------------------------------------
(* Commits.                                                                *)

\* Where a node is in the order of the stacks.
Level(x) == IF x = Trunk THEN 0 ELSE Index(x)

\* Revisions of the first n patches of x and what it may be on; of the latter.
Native(x, n) == {r \in Revision : \A p \in ToSet(r) : p.n <= n /\ Level(p.home) <= Level(x)}
Below(x, n)  == {r \in Revision : \A p \in ToSet(r) : p.n <= n /\ Level(p.home) < Level(x)}

Known(t, m, w, n) ==
    /\ \A x \in Node : t[x] # None => t[x] \in Native(x, n)
    /\ \A b \in Branch : m[b] # None => m[b] \in Below(b, n)
    /\ w # None => w <= n

\* What there is of a branch is of it or of those below: now, in snapshots, in
\* files, and in the command that is running.
Snapped == \A i \in DOMAIN snaps : Known(snaps[i].tip, snaps[i].base, snaps[i].work, made)
Filed   == /\ rebase # None => rebase.to \in Native(rebase.of, made)
           /\ cont # None => /\ cont.base \in Below(cont.branch, made)
                             /\ cont.expected \in Native(cont.branch, made)
Carried == /\ cmd.pc \in Resuming \cup Stopping => cmd.expected \in Native(cmd.hit, made)
           /\ cmd.pc \in Resuming \cup {"save", "second"} => cmd.base \in Below(cmd.hit, made)
           /\ cmd.pc \in Resuming \cup {"second"} => cmd.to \in Native(cmd.hit, made)

Lineage == Known(tip, base, work, made) /\ Snapped /\ Filed /\ Carried

\* The commits that b has in r are in s.
Kept(b, r, s) == Own(b, r) \subseteq Own(b, s)

\* A rebase that has stopped has what its branch had, unless it has more by now.
Faithful ==
    /\ rebase # None => cmd.pc \in {"idle", "save", "note", "unwind"}
    /\ cmd.pc = "rebase" => Kept(cmd.hit, cmd.expected, tip[cmd.hit])
    /\ cmd.pc = "save" => /\ rebase.of = cmd.hit
                          /\ Kept(cmd.hit, cmd.expected, rebase.to)
    /\ rebase # None /\ cont # None /\ cont.branch = rebase.of /\ tip[rebase.of] = cont.expected
         => Kept(rebase.of, cont.expected, rebase.to)
    /\ cmd.pc = "cas" /\ AsExpected => Kept(cmd.hit, cmd.expected, cmd.to)

CommitInv == Lineage /\ Faithful


-----------------------------------------------------------------------------
(* Constants, patches and revisions.                                       *)

LEMMA ConstantFacts ==
    /\ Sorted(Parent, Order, Branch, Trunk)
    /\ Trunk \in Node /\ Branch \subseteq Node /\ Trunk \notin Branch /\ Trunk \notin Created
    /\ Parent \in [Branch -> Node] /\ Created \subseteq Branch /\ Elsewhere \subseteq Branch
    /\ Elsewhere \cap Created = {} /\ MaxPatches \in Nat \ {0} /\ MaxCommands \in Nat
    /\ None \notin Node /\ None \notin Revision /\ None \notin Nat
    /\ None \notin Rebase /\ None \notin Continuation /\ Depths \subseteq Nat \ {0}
<1>1. Order \in Seq(Branch) /\ ToSet(Order) = Branch /\ DOMAIN Order = 1 .. Len(Order)
  BY ConstantsAssumption, LenProperties
<1>2. \A b \in Branch : \E i \in 1 .. Len(Order) : Order[i] = b
  BY <1>1 DEF ToSet
<1>3. ASSUME NEW i \in 1 .. Len(Order), Parent[Order[i]] # Trunk
      PROVE  \E j \in 1 .. Len(Order) : j < i /\ Order[j] = Parent[Order[i]]
  <2>1. Order[i] \in Branch
    BY <1>1, ElementOfSeq
  <2>2. PICK j \in 1 .. Len(Order) : Order[j] = Parent[Order[i]]
    BY <1>2, <1>3, <2>1, ConstantsAssumption DEF Node
  <2>3. j < i
    BY <1>1, <2>2, ConstantsAssumption
  <2> QED
    BY <2>2, <2>3
<1>4. Sorted(Parent, Order, Branch, Trunk)
  BY <1>1, <1>2, <1>3, ConstantsAssumption DEF Sorted, Node
<1> QED
  BY <1>4, ConstantsAssumption DEF Node

LEMMA IndexIs ==
    ASSUME NEW b \in Branch
    PROVE  Index(b) \in 1 .. Len(Order) /\ Order[Index(b)] = b /\ Index(b) \in Nat
<1>1. DOMAIN Order = 1 .. Len(Order) /\ Len(Order) \in Nat
  BY ConstantsAssumption, LenProperties
<1>2. \E i \in DOMAIN Order : Order[i] = b
  BY <1>1, ConstantFacts DEF Sorted
<1>3. Index(b) \in DOMAIN Order /\ Order[Index(b)] = b
  BY <1>2 DEF Index
<1> QED
  BY <1>1, <1>3

\* Parents are before their children.
LEMMA LevelIs ==
    /\ \A x \in Node : Level(x) \in Nat
    /\ \A b \in Branch : Level(Parent[b]) < Level(b)
<1>1. \A x \in Node : Level(x) \in Nat
  BY IndexIs DEF Level, Node
<1>2. ASSUME NEW b \in Branch PROVE Level(Parent[b]) < Level(b)
  <2>1. b # Trunk /\ Parent[b] \in Node
    BY ConstantFacts
  <2>2. CASE Parent[b] = Trunk
    BY <2>1, <2>2, IndexIs DEF Level
  <2>3. CASE Parent[b] # Trunk
    <3>1. Parent[b] \in Branch
      BY <2>1, <2>3 DEF Node
    <3>2. /\ Index(Parent[b]) \in 1 .. Len(Order) /\ Order[Index(Parent[b])] = Parent[b]
          /\ Index(b) \in 1 .. Len(Order) /\ Order[Index(b)] = b
      BY <3>1, IndexIs
    <3>3. DOMAIN Order = 1 .. Len(Order)
      BY ConstantsAssumption, LenProperties
    <3>4. Index(Parent[b]) < Index(b)
      BY <3>2, <3>3, ConstantsAssumption
    <3> QED
      BY <2>1, <2>3, <3>4 DEF Level
  <2> QED
    BY <2>2, <2>3
<1> QED
  BY <1>1, <1>2

\* The first of some branches comes before the others.
LEMMA FirstIs ==
    ASSUME NEW S \in SUBSET Branch, S # {}
    PROVE  First(S) \in S /\ \A c \in S : Index(First(S)) <= Index(c)
<1> DEFINE T == {Index(b) : b \in S}
<1>1. T \subseteq Nat /\ T # {}
  BY IndexIs
<1>2. PICK n \in T : \A m \in T : n <= m
  <2> HIDE DEF T
  <2> QED
    BY <1>1, LeastNumber
<1>3. \E b \in S : \A c \in S : Index(b) <= Index(c)
  BY <1>2
<1> QED
  BY <1>3 DEF First

LEMMA PatchesOf ==
    ASSUME NEW r \in Revision, NEW q \in ToSet(r)
    PROVE  q \in Patch /\ q.n \in Nat /\ q.home \in Node
<1>1. PICK i \in 1 .. Len(r) : q = r[i]
  BY LenProperties DEF ToSet, Revision
<1>2. q \in Patch
  BY <1>1, ElementOfSeq DEF Revision
<1> QED
  BY <1>2 DEF Patch

LEMMA FrontIs ==
    ASSUME NEW r \in Revision
    PROVE  Front(r) \in Revision
<1> DEFINE n == Len(r) - 1
<1>1. Front(r) = SubSeq(r, 1, n)
  BY DEF Front
<1>2. n \in Int /\ 1 \in Int /\ \A i \in 1 .. n : r[i] \in Patch
  BY LenProperties, ElementOfSeq DEF Revision
<1> HIDE DEF n
<1> QED
  BY <1>1, <1>2, SubSeqProperties DEF Revision

LEMMA CommitIs ==
    ASSUME NEW r \in Revision, NEW x \in Node, NEW n \in 0 .. MaxPatches
    PROVE  /\ [home |-> x, n |-> n] \in Patch
           /\ Append(r, [home |-> x, n |-> n]) \in Revision
           /\ ToSet(Append(r, [home |-> x, n |-> n])) = ToSet(r) \cup {[home |-> x, n |-> n]}
<1>1. [home |-> x, n |-> n] \in Patch
  BY DEF Patch
<1> QED
  BY <1>1, AppendSet, AppendProperties DEF Revision

\* The branches below a branch.
LEMMA ChainIs ==
    /\ \A b \in Branch : /\ b \in Chain(b) /\ Chain(b) \subseteq Branch
                         /\ Parent[b] # Trunk => Parent[b] \in Chain(b)
                         /\ Chain(b) \subseteq {b} \cup (IF Parent[b] = Trunk THEN {} ELSE Chain(Parent[b]))
                         /\ \A c \in Chain(b) : Chain(c) \subseteq Chain(b)
    /\ \A b \in Branch : \A c \in Chain(b) : Index(c) <= Index(b)
<1> DEFINE up == Beneath(Parent, Branch, Trunk)
           T == {b \in Branch : \A c \in Chain(b) : Index(c) <= Index(b)}
<1>1. Sorted(Parent, Order, Branch, Trunk) /\ Trunk \notin Branch /\ Parent \in [Branch -> Node]
  BY ConstantFacts
<1>2. Tree(Parent, Branch, Trunk)
  <2>1. ASSUME NEW S \in SUBSET Branch, \A b \in Branch : Parent[b] \in S \cup {Trunk} => b \in S
        PROVE  S = Branch
    <3>1. \A b \in Branch : Parent[b] = Trunk \/ Parent[b] \in S => b \in S
      BY <2>1
    <3>2. Branch \subseteq S
      BY <1>1, <3>1, TreeInduction
    <3> QED
      BY <3>2
  <2> QED
    BY <1>1, <2>1 DEF Tree, Node
<1>3. /\ up[Trunk] = {} /\ \A b \in Branch : up[b] = {b} \cup up[Parent[b]]
      /\ \A x \in Branch \cup {Trunk} : /\ up[x] \subseteq Branch
                                        /\ \A c \in up[x] : up[c] \subseteq up[x]
  BY <1>2, BeneathIs
<1>4. \A b \in Branch : Chain(b) = up[b]
  BY DEF Chain, Beneath, Node
<1> HIDE DEF up
<1>5. \A b \in Branch : /\ b \in Chain(b) /\ Chain(b) \subseteq Branch
                        /\ Parent[b] # Trunk => Parent[b] \in Chain(b)
                        /\ Chain(b) \subseteq {b} \cup (IF Parent[b] = Trunk THEN {} ELSE Chain(Parent[b]))
                        /\ \A c \in Chain(b) : Chain(c) \subseteq Chain(b)
  <2>1. \A b \in Branch : Chain(b) \subseteq Branch
    BY <1>3, <1>4
  <2>2. \A b \in Branch : Parent[b] # Trunk => Parent[b] \in Branch
    BY <1>1 DEF Node
  <2>3. ASSUME NEW b \in Branch
        PROVE  Chain(b) \subseteq {b} \cup (IF Parent[b] = Trunk THEN {} ELSE Chain(Parent[b]))
    BY <1>3, <1>4, <2>2
  <2> QED
    BY <1>3, <1>4, <2>1, <2>2, <2>3
<1>6. ASSUME NEW b \in Branch, Parent[b] = Trunk \/ Parent[b] \in T
      PROVE  b \in T
  <2>1. Chain(b) = {b} \cup up[Parent[b]]
    BY <1>3, <1>4
  <2>2. Index(b) \in Nat
    BY IndexIs
  <2>3. CASE Parent[b] = Trunk
    BY <1>3, <2>1, <2>2, <2>3
  <2>4. CASE Parent[b] # Trunk
    <3>1. Parent[b] \in T /\ Parent[b] \in Branch /\ up[Parent[b]] = Chain(Parent[b])
      BY <1>4, <1>6, <2>4
    <3>2. Index(Parent[b]) < Index(b)
      BY <1>1, <2>4, <3>1, LevelIs DEF Level
    <3>3. ASSUME NEW c \in Chain(Parent[b]) PROVE Index(c) <= Index(b)
      <4>1. c \in Branch /\ Index(c) <= Index(Parent[b])
        BY <1>5, <3>1
      <4>2. Index(c) \in Nat /\ Index(Parent[b]) \in Nat
        BY <3>1, <4>1, IndexIs
      <4> QED
        BY <2>2, <3>2, <4>1, <4>2
    <3> QED
      BY <2>1, <2>2, <3>1, <3>3
  <2> QED
    BY <2>3, <2>4
<1>7. Branch \subseteq T
  <2> HIDE DEF T
  <2> QED
    BY <1>1, <1>6, TreeInduction
<1> QED
  BY <1>5, <1>7

\* The branches below one that exists do, too.
LEMMA BelowExist ==
    ASSUME NEW t, NEW m, NEW h, Stacked(t, m, h), NEW b \in Branch, t[b] # None,
           NEW c \in Chain(b)
    PROVE  c \in Branch /\ t[c] # None
<1> DEFINE T == {x \in Branch : t[x] # None => \A y \in Chain(x) : t[y] # None}
<1>1. Sorted(Parent, Order, Branch, Trunk) /\ Trunk \notin Branch /\ Parent \in [Branch -> Node]
  BY ConstantFacts
<1>2. ASSUME NEW x \in Branch, Parent[x] = Trunk \/ Parent[x] \in T PROVE x \in T
  <2>1. Chain(x) \subseteq {x} \cup (IF Parent[x] = Trunk THEN {} ELSE Chain(Parent[x]))
    BY ChainIs
  <2> QED
    BY <1>1, <1>2, <2>1 DEF Stacked
<1>3. Branch \subseteq T
  <2> HIDE DEF T
  <2> QED
    BY <1>1, <1>2, TreeInduction
<1> QED
  BY <1>3, ChainIs

\* What a rebase of b makes, of what.
LEMMA RebaseIs ==
    ASSUME Types, Stacks, NEW b \in Branch, Exists(b)
    PROVE  LET old == OldUpstream(b) new == Replay(tip[Parent[b]], old, tip[b])
           IN /\ Parent[b] \in Node /\ b \in Node
              /\ tip[b] \in Revision /\ tip[Parent[b]] \in Revision /\ base[b] \in Revision
              /\ old \in Revision /\ (ToSet(old) \subseteq ToSet(base[b])
                                      \/ ToSet(old) \subseteq ToSet(tip[Parent[b]]))
              /\ new \in Revision
              /\ ToSet(new) \subseteq ToSet(tip[Parent[b]]) \cup ToSet(tip[b])
              /\ ToSet(tip[b]) \subseteq ToSet(new) \cup ToSet(old)
<1> DEFINE old == OldUpstream(b)
           new == Replay(tip[Parent[b]], old, tip[b])
<1>1. Parent[b] \in Node /\ b \in Node
  BY ConstantFacts
<1>2. tip[b] \in Revision /\ tip[Parent[b]] \in Revision /\ base[b] \in Revision
  BY <1>1 DEF Types, Tips, Bases, Rev, Stacks, Stacked, Exists
<1>3. old \in Revision /\ (ToSet(old) \subseteq ToSet(base[b])
                           \/ ToSet(old) \subseteq ToSet(tip[Parent[b]]))
  <2>1. CASE IsAncestor(base[b], tip[b])
    BY <1>2, <2>1 DEF OldUpstream
  <2>2. CASE ~IsAncestor(base[b], tip[b])
    <3>1. old = MergeBase(tip[b], tip[Parent[b]])
      BY <2>2 DEF OldUpstream
    <3> HIDE DEF old
    <3>2. old \in Seq(Patch) /\ IsAncestor(old, tip[Parent[b]])
      BY <1>2, <3>1, MergeBaseIs DEF Revision
    <3>3. ToSet(old) \subseteq ToSet(tip[Parent[b]])
      BY <1>2, <3>2, AncestorSet DEF Revision
    <3> QED
      BY <3>2, <3>3 DEF Revision
  <2> QED
    BY <2>1, <2>2
<1> HIDE DEF old
<1>4. /\ new \in Revision
      /\ ToSet(new) \subseteq ToSet(tip[Parent[b]]) \cup ToSet(tip[b])
      /\ ToSet(tip[b]) \subseteq ToSet(new) \cup ToSet(old)
  BY <1>2, <1>3, ReplayIs DEF Revision
<1> QED
  BY <1>1, <1>2, <1>3, <1>4 DEF old

-----------------------------------------------------------------------------
(* Snapshots.                                                              *)

\* The snapshot of an id is one that has been taken.
LEMMA SnapshotIs ==
    ASSUME Types, NEW id, Bound(id)
    PROVE  /\ id \in Nat /\ id # None
           /\ \E i \in DOMAIN snaps : Snapshot(id) = snaps[i]
           /\ Snapshot(id) \in Snaps /\ Snapshot(id).id = id
<1>1. \E i \in DOMAIN snaps : snaps[i].id = id
  BY DEF Bound
<1> DEFINE j == CHOOSE i \in DOMAIN snaps : snaps[i].id = id
<1>2. j \in DOMAIN snaps /\ snaps[j].id = id
  BY <1>1
<1>3. Snapshot(id) = snaps[j]
  BY DEF Snapshot
<1> HIDE DEF j
<1>4. snaps[j] \in Snaps
  BY <1>2, LenProperties, ElementOfSeq DEF Types
<1> QED
  BY <1>2, <1>3, <1>4, ConstantFacts DEF Snaps

\* One that is taken is added, and perhaps the oldest is dropped.
LEMMA SnapshotsIs ==
    ASSUME Types, NEW w \in Changes
    PROVE  LET new == [id |-> commands + 1, tip |-> tip, base |-> base, cur |-> head,
                       work |-> w, made |-> made]
           IN /\ Snapshots(w) \in Seq(Snaps)
              /\ \A i \in DOMAIN Snapshots(w) :
                    Snapshots(w)[i] = new \/ \E j \in DOMAIN snaps : Snapshots(w)[i] = snaps[j]
<1> DEFINE new == [id |-> commands + 1, tip |-> tip, base |-> base, cur |-> head,
                   work |-> w, made |-> made]
           s == Append(snaps, new)
<1>1. new \in Snaps
  BY DEF Types, Snaps
<1>2. snaps \in Seq(Snaps) /\ Len(snaps) \in Nat /\ DOMAIN snaps = 1 .. Len(snaps)
  BY LenProperties DEF Types
<1>3. Snapshots(w) = IF Len(s) > depth THEN Tail(s) ELSE s
  BY DEF Snapshots
<1> HIDE DEF new
<1>4. s \in Seq(Snaps) /\ Len(s) = Len(snaps) + 1 /\ s # <<>> /\ DOMAIN s = 1 .. Len(s)
      /\ (\A i \in 1 .. Len(snaps) : s[i] = snaps[i]) /\ s[Len(snaps) + 1] = new
  BY <1>1, <1>2, AppendProperties, LenProperties
<1> HIDE DEF s
<1>5. Tail(s) \in Seq(Snaps) /\ Len(Tail(s)) = Len(s) - 1 /\ DOMAIN Tail(s) = 1 .. Len(Tail(s))
      /\ \A i \in 1 .. Len(Tail(s)) : Tail(s)[i] = s[i + 1]
  <2>1. Tail(s) \in Seq(Snaps) /\ Len(Tail(s)) = Len(s) - 1
        /\ \A i \in 1 .. Len(Tail(s)) : Tail(s)[i] = s[i + 1]
    BY <1>4, HeadTailProperties
  <2> QED
    BY <2>1, LenProperties
<1>6. \A i \in DOMAIN s : s[i] = new \/ \E j \in DOMAIN snaps : s[i] = snaps[j]
  <2> SUFFICES ASSUME NEW i \in 1 .. Len(snaps) + 1
               PROVE  s[i] = new \/ \E j \in DOMAIN snaps : s[i] = snaps[j]
    BY <1>4
  <2>1. i \in 1 .. Len(snaps) \/ i = Len(snaps) + 1
    BY <1>2
  <2> QED
    BY <1>2, <1>4, <2>1
<1>7. \A i \in DOMAIN Tail(s) : i + 1 \in DOMAIN s /\ Tail(s)[i] = s[i + 1]
  BY <1>2, <1>4, <1>5
<1>8. \A i \in DOMAIN Tail(s) : Tail(s)[i] = new \/ \E j \in DOMAIN snaps : Tail(s)[i] = snaps[j]
  BY <1>6, <1>7
<1> QED
  BY <1>3, <1>4, <1>5, <1>6, <1>8 DEF new

\* Nothing else depends on the snapshots than what is asked of them.
LEMMA SameSnapshots ==
    ASSUME snaps' = snaps
    PROVE  \A id : (Bound(id)' <=> Bound(id)) /\ Snapshot(id)' = Snapshot(id)
BY DEF Bound, Snapshot

-----------------------------------------------------------------------------
(* What keeps the invariant.                                               *)

\* A command that has nothing to do with a rollback.
LEMMA NoRollback ==
    ASSUME Control', rolling' = None, cmd'.kind \notin {"abort", "undo"}
    PROVE  Rollback'
BY ConstantFacts DEF Control, Rollback, Restoring

\* Between commands only the record of the rollback matters.
LEMMA IdleRollback ==
    ASSUME Rollback, cmd' = NoCommand, UNCHANGED snaps,
           rolling' = None
           \/ (rolling' = rolling /\ cont' = cont)
    PROVE  Rollback'
<1>1. \A id : Bound(id)' <=> Bound(id)
  BY SameSnapshots
<1> QED
  BY <1>1 DEF Rollback, NoCommand, Restoring

\* Branches are on branches when one that exists moves, or one is made on its
\* parent with its metadata.
LEMMA StackedMoves ==
    ASSUME NEW t, NEW m, NEW h, t \in Tips, Stacked(t, m, h), NEW x \in Node,
           NEW r \in Revision, t[x] # None
    PROVE  Stacked([t EXCEPT ![x] = r], m, h)
BY ConstantFacts DEF Stacked, Tips

LEMMA NoCommandIs ==
    /\ NoCommand \in Commands
    /\ NoCommand.pc = "idle" /\ NoCommand.kind = "none" /\ NoCommand.todo = {}
    /\ NoCommand.hit = None /\ NoCommand.from = None /\ NoCommand.snap = None
    /\ NoCommand.ret = None
BY DEF NoCommand, Commands, Pcs, Kinds, Place, Id, Rev

\* What a pass is about to do.
LEMMA PassingIs ==
    ASSUME NEW r \in Commands, NEW S \in SUBSET Branch, NEW C \in Conflicting(S)
    PROVE  LET p == Passing(r, S, C)
           IN /\ p \in Commands /\ p.pc = "apply"
              /\ p.kind = r.kind /\ p.from = r.from /\ p.snap = r.snap /\ p.ret = r.ret
              /\ \A b \in p.todo : Exists(b)
              /\ p.hit # None => p.hit \in Branch /\ Exists(p.hit)
<1>1. C \subseteq Moves(S) /\ Moves(S) \subseteq {b \in S : Exists(b)}
  BY DEF Conflicting, Moves
<1>2. C # {} => First(C) \in C
  BY <1>1, FirstIs
<1> DEFINE T == {b \in Moves(S) : Chain(b) \cap C = {}}
           hit == IF C = {} THEN None ELSE First(C)
           rest == IF C = {} THEN {} ELSE After(First(C), S)
<1>3. T \subseteq Branch /\ \A b \in T : Exists(b)
  BY <1>1
<1>4. hit \in Branch \cup {None} /\ (hit # None => Exists(hit))
  BY <1>1, <1>2
<1>5. rest \subseteq Branch
  BY DEF After
<1>6. Passing(r, S, C) = [r EXCEPT !.pc = "apply", !.todo = T, !.hit = hit, !.rest = rest]
  BY DEF Passing
<1> DEFINE p == Passing(r, S, C)
<1> HIDE DEF T, hit, rest, p
<1>7. p = [r EXCEPT !.pc = "apply", !.todo = T, !.hit = hit, !.rest = rest]
  BY <1>6 DEF p
<1>8. p \in Commands /\ p.pc = "apply"
  BY <1>3, <1>4, <1>5, <1>7 DEF Commands, Pcs
<1>9. /\ p.kind = r.kind /\ p.from = r.from /\ p.snap = r.snap /\ p.ret = r.ret
      /\ p.todo = T /\ p.hit = hit
  BY <1>7 DEF Commands
<1>10. p.hit # None => p.hit \in Branch /\ Exists(p.hit)
  BY <1>4, <1>9
<1> QED
  BY <1>3, <1>8, <1>9, <1>10 DEF p

-----------------------------------------------------------------------------
(* Commands that restack.                                                  *)

LEMMA RestackKeeps ==
    ASSUME Inv, NEW S \in SUBSET Branch, Restack(S)
    PROVE  Inv'
<1> USE DEF Inv
<1> DEFINE r == [NoCommand EXCEPT !.kind = "restack", !.from = head, !.snap = commands + 1]
<1>1. /\ UNCHANGED <<refVars, treeVars, rebase, cont, depth, made>>
      /\ snaps' = Snapshots(None) /\ commands' = commands + 1 /\ rolling' = None /\ touched' = {}
      /\ Idle
  BY DEF Restack, Begin
<1>2. PICK C \in Conflicting(S) : cmd' = Passing(r, S, C)
  BY DEF Restack
<1>3. r \in Commands /\ r.kind = "restack" /\ r.from = head /\ r.ret = None
  <2>1. commands + 1 \in Id /\ head \in Place
    BY DEF Types, Id
  <2> QED
    BY <2>1, NoCommandIs DEF Commands, Pcs, Kinds
<1> HIDE DEF r
<1>4. /\ cmd' \in Commands /\ cmd'.pc = "apply" /\ cmd'.kind = "restack" /\ cmd'.from = head
      /\ cmd'.ret = None /\ \A b \in cmd'.todo : Exists(b)
      /\ cmd'.hit # None => Exists(cmd'.hit)
  BY <1>2, <1>3, PassingIs
<1>5. /\ snaps' \in Seq(Snaps)
      /\ \A i \in DOMAIN snaps' : Stacked(snaps'[i].tip, snaps'[i].base, snaps'[i].cur)
  <2>1. None \in Changes
    BY DEF Changes
  <2> QED
    BY <1>1, <2>1, SnapshotsIs DEF Stacks
<1>6. Types'
  BY <1>1, <1>4, <1>5 DEF Types, refVars, treeVars, Id
<1>7. Control'
  BY <1>1, <1>4 DEF Control, Restoring, Resuming, Stopping, Idle, refVars, treeVars, Place
<1>8. Stacks'
  BY <1>1, <1>4, <1>5 DEF Stacks, Stacked, Exists, refVars, treeVars
<1> QED
  BY <1>1, <1>4, <1>6, <1>7, <1>8, NoRollback

LEMMA ModifyKeeps ==
    ASSUME Inv, NEW b \in Branch, Modify(b)
    PROVE  Inv'
<1> USE DEF Inv
<1> DEFINE p == [home |-> b, n |-> work]
           r == Append(IF Last(tip[b]).home = b THEN Front(tip[b]) ELSE tip[b], p)
<1>1. /\ UNCHANGED <<base, shown, rebase, cont, depth, made>>
      /\ snaps' = Snapshots(work) /\ commands' = commands + 1 /\ rolling' = None /\ touched' = {}
      /\ tip' = [tip EXCEPT ![b] = r] /\ work' = None /\ head' = b
      /\ Idle /\ rebase = None /\ work # None /\ head \in Branch /\ b \in Chain(head) \ Elsewhere
      /\ cmd' = [NoCommand EXCEPT !.pc = "plan", !.kind = "modify", !.from = head,
                                !.snap = commands + 1, !.rest = Upstack(b) \ {b},
                                !.ret = IF head = b THEN None ELSE head]
  BY DEF Modify, Begin
<1>2. b \in Node /\ b \in Place /\ work \in 0 .. MaxPatches /\ work \in Changes
  BY <1>1, ConstantFacts DEF Types, Place, Changes
<1>3. Exists(b)
  <2>1. Stacked(tip, base, head) /\ tip[head] # None
    BY <1>1, ConstantFacts DEF Stacks, Stacked
  <2> QED
    BY <1>1, <2>1, BelowExist DEF Exists
<1>4. r \in Revision
  <2>1. tip[b] \in Revision
    BY <1>2, <1>3 DEF Types, Tips, Rev, Exists
  <2> QED
    BY <1>2, <2>1, FrontIs, CommitIs
<1> HIDE DEF r
<1>5. /\ cmd' \in Commands /\ cmd'.pc = "plan" /\ cmd'.kind = "modify" /\ cmd'.from = head
      /\ cmd'.ret \in {None, head} /\ cmd'.todo = {} /\ cmd'.hit = None
  <2>1. commands + 1 \in Id /\ head \in Place /\ Upstack(b) \subseteq Branch
    BY DEF Types, Upstack, Id
  <2>2. (IF head = b THEN None ELSE head) \in Node \cup {None}
    BY <2>1 DEF Place
  <2> QED
    BY <1>1, <2>1, <2>2, NoCommandIs DEF Commands, Pcs, Kinds
<1>6. /\ snaps' \in Seq(Snaps)
      /\ \A i \in DOMAIN snaps' : Stacked(snaps'[i].tip, snaps'[i].base, snaps'[i].cur)
  BY <1>1, <1>2, SnapshotsIs DEF Stacks
<1>7. tip' \in Tips /\ Stacked(tip', base, head) /\ Stacked(tip', base, b)
  BY <1>1, <1>2, <1>3, <1>4, StackedMoves, ConstantFacts DEF Stacks, Stacked, Exists, Types, Tips, Rev
<1>8. Types'
  BY <1>1, <1>2, <1>5, <1>6, <1>7 DEF Types, Id, Changes
<1>9. Control'
  BY <1>1, <1>5 DEF Control, Restoring, Resuming, Stopping, Idle, Types, Place
<1>10. Stacks'
  BY <1>1, <1>5, <1>6, <1>7 DEF Stacks, Exists, Stacked
<1> QED
  BY <1>1, <1>5, <1>8, <1>9, <1>10, NoRollback

\* A command that is no rollback begins none.
LEMMA NotRolling ==
    ASSUME Inv, cmd.pc \in {"plan", "apply", "note"} \cup Resuming \cup Stopping
    PROVE  rolling = None /\ cmd.kind \notin {"none", "abort", "undo"}
BY DEF Inv, Control, Rollback, Idle, NoCommand, Restoring, Resuming, Stopping

LEMMA PlanKeeps ==
    ASSUME Inv, Plan
    PROVE  Inv'
<1> USE DEF Inv
<1>1. /\ UNCHANGED <<refVars, treeVars, diskVars, pastVars, counters>> /\ cmd.pc = "plan"
      /\ cmd \in Commands /\ rolling = None /\ cmd.kind \notin {"none", "abort", "undo"}
  BY NotRolling DEF Plan, Types
<1>2. PICK C \in Conflicting(cmd.rest) : cmd' = Passing(cmd, cmd.rest, C)
  BY DEF Plan
<1>3. cmd.rest \in SUBSET Branch
  BY <1>1 DEF Commands
<1>4. /\ cmd' \in Commands /\ cmd'.pc = "apply" /\ cmd'.kind = cmd.kind /\ cmd'.from = cmd.from
      /\ cmd'.ret = cmd.ret /\ \A b \in cmd'.todo : Exists(b)
      /\ cmd'.hit # None => Exists(cmd'.hit)
  BY <1>1, <1>2, <1>3, PassingIs
<1>5. Types'
  BY <1>1, <1>4 DEF Types, refVars, treeVars, diskVars, pastVars, counters
<1>6. Control'
  BY <1>1, <1>4
  DEF Control, Restoring, Resuming, Stopping, Idle, refVars, treeVars, diskVars
<1>7. Stacks'
  BY <1>1, <1>4 DEF Stacks, Exists, refVars, treeVars, diskVars
<1> QED
  BY <1>1, <1>4, <1>5, <1>6, <1>7, NoRollback DEF pastVars

LEMMA ApplyNextKeeps ==
    ASSUME Inv, ApplyNext
    PROVE  Inv'
<1> USE DEF Inv
<1> DEFINE b == First(cmd.todo)
           r == Replay(tip[Parent[b]], OldUpstream(b), tip[b])
           p == tip[Parent[b]]
<1>1. /\ UNCHANGED <<treeVars, diskVars, pastVars, counters>> /\ cmd.pc = "apply"
      /\ cmd' = [cmd EXCEPT !.todo = @ \ {b}] /\ cmd.todo # {}
      /\ UNCHANGED refVars \/ (tip' = [tip EXCEPT ![b] = r] /\ base' = [base EXCEPT ![b] = p])
      /\ cmd \in Commands /\ rolling = None /\ cmd.kind \notin {"none", "abort", "undo"}
  BY NotRolling DEF ApplyNext, Types
<1>2. cmd.todo \in SUBSET Branch
  BY <1>1 DEF Commands
<1>3. b \in cmd.todo
  BY <1>1, <1>2, FirstIs
<1>4. b \in Branch /\ Exists(b)
  BY <1>2, <1>3 DEF Stacks
<1>5. r \in Revision /\ p \in Revision /\ b \in Node
  BY <1>4, RebaseIs
<1> HIDE DEF b, r, p
<1>6. /\ cmd' \in Commands /\ cmd'.pc = "apply" /\ cmd'.kind = cmd.kind /\ cmd'.from = cmd.from
      /\ cmd'.ret = cmd.ret /\ cmd'.todo \subseteq cmd.todo /\ cmd'.hit = cmd.hit
  BY <1>1 DEF Commands
<1>7. /\ tip' \in Tips /\ base' \in Bases /\ Stacked(tip', base', head)
      /\ \A x \in Node : Exists(x) => Exists(x)'
  <2>1. CASE UNCHANGED refVars
    BY <2>1 DEF refVars, Types, Stacks, Exists
  <2>2. CASE tip' = [tip EXCEPT ![b] = r] /\ base' = [base EXCEPT ![b] = p]
    <3>1. tip \in Tips /\ base \in Bases /\ Stacked(tip, base, head) /\ r # None /\ p # None
      BY <1>5, ConstantFacts DEF Types, Stacks
    <3>2. tip' \in Tips /\ base' \in Bases
      BY <1>4, <1>5, <2>2, <3>1 DEF Tips, Bases, Rev
    <3>3. Stacked(tip', base, head)
      BY <1>4, <1>5, <2>2, <3>1, StackedMoves DEF Exists
    <3>4. Stacked(tip', base', head)
      BY <1>4, <2>2, <3>1, <3>3 DEF Stacked, Bases
    <3>5. \A x \in Node : Exists(x) => Exists(x)'
      BY <1>5, <2>2, <3>1 DEF Exists, Tips
    <3> QED
      BY <3>2, <3>4, <3>5
  <2> QED
    BY <1>1, <2>1, <2>2
<1>8. Types'
  BY <1>1, <1>6, <1>7 DEF Types, treeVars, diskVars, pastVars, counters
<1>9. Control'
  BY <1>1, <1>6 DEF Control, Restoring, Resuming, Stopping, Idle, treeVars, diskVars
<1>10. Stacks'
  <2>1. cmd.todo \subseteq Node /\ cmd.hit \in Node \cup {None} /\ cmd.from \in Node \cup {None}
        /\ cmd.ret \in Node \cup {None}
    BY <1>1, ConstantFacts DEF Commands, Place
  <2>2. /\ \A x \in cmd.todo : Exists(x)
        /\ cmd.hit # None => Exists(cmd.hit)
        /\ cmd.from # None => Exists(cmd.from)
        /\ cmd.kind # "continue" /\ cmd.ret # None => Exists(cmd.ret)
    BY <1>1 DEF Stacks, Control, Restoring
  <2>3. head' = head /\ snaps' = snaps
    BY <1>1 DEF treeVars, diskVars
  <2>4. \A x \in cmd'.todo : Exists(x)'
    BY <1>6, <1>7, <2>1, <2>2
  <2>5. /\ cmd'.hit # None => tip'[cmd'.hit] # None
        /\ cmd'.from # None => tip'[cmd'.from] # None
        /\ cmd'.kind # "continue" /\ cmd'.ret # None => tip'[cmd'.ret] # None
    BY <1>6, <1>7, <2>1, <2>2 DEF Exists
  <2> QED
    BY <1>7, <2>3, <2>4, <2>5 DEF Stacks, Exists
<1> QED
  BY <1>1, <1>6, <1>8, <1>9, <1>10, NoRollback DEF pastVars

LEMMA FinishKeeps ==
    ASSUME Inv, Finish
    PROVE  Inv'
<1> USE DEF Inv
<1>1. /\ UNCHANGED <<refVars, work, shown, diskVars, rolling, touched, counters>>
      /\ cmd.pc = "apply" /\ cmd.kind # "continue" /\ cmd' = NoCommand
      /\ head' = (IF cmd.ret = None THEN head ELSE cmd.ret)
      /\ cmd \in Commands /\ rolling = None /\ cmd.kind \notin {"none", "abort", "undo"}
  BY NotRolling DEF Finish, Types
<1>2. head' \in Place /\ (head' # None => Exists(head'))
  BY <1>1 DEF Types, Control, Stacks, Stacked, Exists
<1>3. cmd.ret # None => rebase = None
  BY <1>1 DEF Control
<1>4. Types'
  BY <1>1, <1>2, NoCommandIs DEF Types, refVars, diskVars, counters
<1>5. Control'
  BY <1>1, <1>3, NoCommandIs DEF Control, Restoring, Resuming, Stopping, Idle, diskVars, Place
<1>6. Stacks'
  BY <1>1, <1>2, NoCommandIs DEF Stacks, Stacked, Exists, refVars, diskVars
<1> QED
  BY <1>1, <1>4, <1>5, <1>6, NoRollback, NoCommandIs

LEMMA DetachKeeps ==
    ASSUME Inv, Detach
    PROVE  Inv'
<1> USE DEF Inv
<1>1. /\ UNCHANGED <<refVars, work, shown, diskVars, pastVars, counters>>
      /\ cmd.pc = "apply" /\ cmd.hit # None /\ cmd.todo = {}
      /\ cmd' = [cmd EXCEPT !.pc = "rebase", !.expected = tip[cmd.hit]] /\ head' = None
      /\ cmd \in Commands /\ rolling = None /\ cmd.kind \notin {"none", "abort", "undo"}
  BY NotRolling DEF Detach, Detached, Types
<1>2. cmd.hit \in Branch /\ tip[cmd.hit] \in Revision
  BY <1>1, ConstantFacts DEF Stacks, Exists, Types, Tips, Rev, Commands
<1>3. /\ cmd' \in Commands /\ cmd'.pc = "rebase" /\ cmd'.kind = cmd.kind /\ cmd'.from = cmd.from
      /\ cmd'.ret = cmd.ret /\ cmd'.todo = cmd.todo /\ cmd'.hit = cmd.hit
      /\ cmd'.expected \in Revision
  <2>1. tip[cmd.hit] \in Rev
    BY <1>2 DEF Rev
  <2> QED
    BY <1>1, <1>2, <2>1 DEF Commands, Pcs, Stopping
<1>4. Types'
  BY <1>1, <1>3 DEF Types, refVars, diskVars, pastVars, counters, Place
<1>5. Control'
  BY <1>1, <1>2, <1>3 DEF Control, Restoring, Resuming, Stopping, Idle, diskVars
<1>6. Stacks'
  BY <1>1, <1>3 DEF Stacks, Stacked, Exists, refVars, diskVars
<1> QED
  BY <1>1, <1>3, <1>4, <1>5, <1>6, NoRollback DEF pastVars

\* The branches that a command is about.
LEMMA CommandPlaces ==
    ASSUME Inv
    PROVE  /\ cmd.todo \subseteq Node /\ cmd.hit \in Node \cup {None}
           /\ cmd.from \in Node \cup {None} /\ cmd.ret \in Node \cup {None}
BY ConstantFacts DEF Inv, Types, Commands, Place

\* The rebase cannot begin, stops, or goes through.
LEMMA StartRebaseIs ==
    ASSUME Inv, StartRebase
    PROVE  LET b == cmd.hit
               onto == tip[Parent[b]]
               to == Replay(onto, OldUpstream(b), tip[b])
           IN /\ cmd.pc = "rebase" /\ b \in Branch /\ b \in Node /\ Exists(b)
              /\ onto \in Revision /\ to \in Revision /\ cmd \in Commands
              /\ UNCHANGED <<base, work, shown, cont, snaps, depth, pastVars,
                             made, commands, hand, crashes>>
              /\ \/ Reattach /\ UNCHANGED <<tip, rebase>>
                 \/ /\ rebase' = IF rebase = None THEN [of |-> b, to |-> to] ELSE rebase
                    /\ cmd' = [cmd EXCEPT !.pc = "save", !.base = onto]
                    /\ UNCHANGED <<tip, head>>
                 \/ /\ rebase = None /\ tip' = [tip EXCEPT ![b] = to]
                    /\ cmd' = [cmd EXCEPT !.pc = "second", !.base = onto, !.to = to]
                    /\ UNCHANGED <<head, rebase>>
<1> USE DEF Inv
<1>1. cmd.pc = "rebase" /\ cmd.hit \in Branch /\ cmd.hit # None
  BY ConstantFacts DEF StartRebase, Control, Stopping, Node
<1>2. Exists(cmd.hit)
  BY <1>1 DEF Stacks
<1> QED
  BY <1>1, <1>2, RebaseIs DEF StartRebase, Types

LEMMA StartRebaseKeeps ==
    ASSUME Inv, StartRebase
    PROVE  Inv'
<1> USE DEF Inv
<1> DEFINE b == cmd.hit
           onto == tip[Parent[b]]
           to == Replay(onto, OldUpstream(b), tip[b])
           Refused == Reattach /\ UNCHANGED <<tip, rebase>>
           Stops == /\ rebase' = IF rebase = None THEN [of |-> b, to |-> to] ELSE rebase
                    /\ cmd' = [cmd EXCEPT !.pc = "save", !.base = onto]
                    /\ UNCHANGED <<tip, head>>
           GoesThrough == /\ rebase = None /\ tip' = [tip EXCEPT ![b] = to]
                          /\ cmd' = [cmd EXCEPT !.pc = "second", !.base = onto, !.to = to]
                          /\ UNCHANGED <<head, rebase>>
<1>1. /\ cmd.pc = "rebase" /\ b \in Branch /\ b \in Node /\ Exists(b)
      /\ onto \in Revision /\ to \in Revision /\ cmd \in Commands
      /\ UNCHANGED <<base, work, shown, cont, snaps, depth, pastVars, made, commands>>
      /\ Refused \/ Stops \/ GoesThrough
  BY StartRebaseIs
<1>2. rolling = None /\ rolling' = None /\ cmd.kind \notin {"none", "abort", "undo"}
  BY <1>1, NotRolling DEF Stopping, pastVars
<1>3. /\ cmd.hit = b /\ cmd.hit \in Branch /\ cmd.hit # None /\ cmd.expected \in Revision
      /\ head = None /\ onto \in Rev /\ to \in Rev
  BY <1>1, ConstantFacts DEF Control, Stopping, Node, Rev
<1> HIDE DEF b, onto, to
<1>4. CASE Refused
  <2>1. cmd' = NoCommand /\ UNCHANGED <<tip, rebase>> /\ head' = (IF rebase = None THEN cmd.from ELSE None)
    BY <1>4 DEF Reattach
  <2>2. head' \in Place /\ (head' # None => Exists(head'))
    BY <1>1, <2>1 DEF Commands, Stacks, Place, Control, Restoring
  <2>3. Types'
    BY <1>1, <2>1, <2>2, NoCommandIs DEF Types, pastVars
  <2>4. Control'
    BY <1>1, <2>1, NoCommandIs DEF Control, Restoring, Resuming, Stopping, Idle, Place
  <2>5. Stacks'
    BY <1>1, <2>1, <2>2, NoCommandIs DEF Stacks, Stacked, Exists
  <2> QED
    BY <1>2, <2>1, <2>3, <2>4, <2>5, NoRollback, NoCommandIs
<1>5. CASE Stops
  <2>1. /\ cmd' \in Commands /\ cmd'.pc = "save" /\ cmd'.kind = cmd.kind /\ cmd'.from = cmd.from
        /\ cmd'.ret = cmd.ret /\ cmd'.todo = cmd.todo /\ cmd'.hit = cmd.hit
        /\ cmd'.expected = cmd.expected /\ cmd'.base = onto
    BY <1>1, <1>3, <1>5 DEF Commands, Pcs, Stopping
  <2>2. rebase' \in Rebase \cup {None} /\ rebase' # None
    <3>1. [of |-> b, to |-> to] \in Rebase /\ [of |-> b, to |-> to] # None
      BY <1>1, ConstantFacts DEF Rebase
    <3> QED
      BY <1>5, <3>1 DEF Types
  <2>3. Types'
    BY <1>1, <1>5, <2>1, <2>2 DEF Types, pastVars
  <2>4. Control'
    BY <1>1, <1>3, <1>5, <2>1, <2>2 DEF Control, Restoring, Resuming, Stopping, Idle
  <2>5. Stacks'
    BY <1>1, <1>5, <2>1 DEF Stacks, Exists
  <2> QED
    BY <1>2, <2>1, <2>3, <2>4, <2>5, NoRollback
<1>6. CASE GoesThrough
  <2>1. /\ cmd' \in Commands /\ cmd'.pc = "second" /\ cmd'.kind = cmd.kind /\ cmd'.from = cmd.from
        /\ cmd'.ret = cmd.ret /\ cmd'.todo = cmd.todo /\ cmd'.hit = cmd.hit
        /\ cmd'.expected = cmd.expected /\ cmd'.base = onto /\ cmd'.to = to
    BY <1>1, <1>3, <1>6 DEF Commands, Pcs, Stopping
  <2>2. tip' \in Tips /\ Stacked(tip', base, head) /\ \A x \in Node : Exists(x) => tip'[x] # None
    BY <1>1, <1>6, StackedMoves, ConstantFacts DEF Stacks, Exists, Types, Tips, Rev
  <2>3. Types'
    BY <1>1, <1>6, <2>1, <2>2 DEF Types, pastVars
  <2>4. Control'
    BY <1>1, <1>3, <1>6, <2>1 DEF Control, Restoring, Resuming, Stopping, Idle
  <2>5. Stacks'
    BY <1>1, <1>6, <2>1, <2>2, CommandPlaces DEF Stacks, Exists
  <2> QED
    BY <1>2, <2>1, <2>3, <2>4, <2>5, NoRollback
<1> QED
  BY <1>1, <1>4, <1>5, <1>6

LEMMA SecondUpdateKeeps ==
    ASSUME Inv, SecondUpdate
    PROVE  Inv'
<1> USE DEF Inv
<1> DEFINE b == cmd.hit
<1>1. /\ UNCHANGED <<work, shown, diskVars, pastVars, counters>> /\ cmd.pc = "second"
      /\ tip' = [tip EXCEPT ![b] = cmd.to] /\ base' = [base EXCEPT ![b] = cmd.base]
      /\ cmd' = NoCommand /\ head' = (IF rebase = None THEN cmd.from ELSE None)
      /\ cmd \in Commands /\ rolling = None
  BY NotRolling DEF SecondUpdate, Reattach, Types, Stopping
<1>2. b \in Branch /\ b \in Node /\ cmd.to \in Revision /\ cmd.base \in Revision
      /\ cmd.to # None /\ cmd.base # None /\ b # None
  BY <1>1, ConstantFacts DEF Control, Stopping, Node
<1>3. Exists(b)
  BY <1>1, <1>2 DEF Stacks
<1>4. head' \in Place /\ (head' # None => Exists(head') /\ head' \in Node)
  BY <1>1 DEF Commands, Stacks, Place, Control, Restoring
<1> HIDE DEF b
<1>5. tip \in Tips /\ base \in Bases /\ Stacked(tip, base, head)
  BY DEF Types, Stacks
<1>6. tip' \in Tips /\ base' \in Bases
  BY <1>1, <1>2, <1>5 DEF Tips, Bases, Rev
<1>7. Stacked(tip', base', head')
  <2>1. Stacked(tip', base, head)
    BY <1>1, <1>2, <1>3, <1>5, StackedMoves DEF Exists
  <2>2. head' # None => tip'[head'] # None
    BY <1>1, <1>2, <1>4, <1>5 DEF Exists, Tips
  <2> QED
    BY <1>1, <1>2, <1>5, <2>1, <2>2 DEF Stacked, Bases
<1>8. Types'
  BY <1>1, <1>4, <1>6, NoCommandIs DEF Types, diskVars, pastVars, counters
<1>9. Control'
  BY <1>1, NoCommandIs DEF Control, Restoring, Resuming, Stopping, Idle, Place, diskVars
<1>10. Stacks'
  BY <1>1, <1>7, NoCommandIs DEF Stacks, diskVars
<1> QED
  BY <1>1, <1>8, <1>9, <1>10, NoRollback, NoCommandIs DEF pastVars

LEMMA SaveKeeps ==
    ASSUME Inv, Save
    PROVE  Inv'
<1> USE DEF Inv
<1> DEFINE ret == IF cmd.kind = "continue" THEN cmd.ret ELSE None
<1>1. /\ UNCHANGED <<refVars, treeVars, rebase, snaps, depth, pastVars, counters>> /\ cmd.pc = "save"
      /\ cont' = [branch |-> cmd.hit, rest |-> cmd.rest, base |-> cmd.base,
                  expected |-> cmd.expected, snap |-> cmd.snap, pending |-> FALSE, ret |-> ret]
      /\ cmd' = IF cmd.kind = "modify" /\ cmd.ret \notin {None, cmd.hit}
                THEN [cmd EXCEPT !.pc = "note"] ELSE NoCommand
      /\ cmd \in Commands /\ rolling = None /\ cmd.kind \notin {"none", "abort", "undo"}
  BY NotRolling DEF Save, Expected, Types, Stopping
<1>2. cmd.hit \in Branch /\ cmd.base \in Revision /\ cmd.expected \in Revision
      /\ cmd.rest \subseteq Branch /\ cmd.snap \in Id /\ ret \in Node \cup {None}
  BY <1>1 DEF Control, Stopping, Commands
<1> HIDE DEF ret
<1>3. cont' \in Continuation /\ cont' # None
  <2>1. cont' \in Continuation
    BY <1>1, <1>2 DEF Continuation
  <2> QED
    BY <2>1, ConstantFacts
<1>4. CASE cmd.kind = "modify" /\ cmd.ret \notin {None, cmd.hit}
  <2>1. /\ cmd' \in Commands /\ cmd'.pc = "note" /\ cmd'.kind = cmd.kind /\ cmd'.from = cmd.from
        /\ cmd'.ret = cmd.ret /\ cmd'.todo = cmd.todo /\ cmd'.hit = cmd.hit
    BY <1>1, <1>4 DEF Commands, Pcs
  <2>2. Types'
    BY <1>1, <1>3, <2>1 DEF Types, refVars, treeVars, pastVars, counters
  <2>3. Control'
    BY <1>1, <1>3, <1>4, <2>1 DEF Control, Restoring, Resuming, Stopping, Idle, treeVars
  <2>4. Stacks'
    BY <1>1, <2>1 DEF Stacks, Exists, refVars, treeVars
  <2> QED
    BY <1>1, <2>1, <2>2, <2>3, <2>4, NoRollback DEF pastVars
<1>5. CASE ~(cmd.kind = "modify" /\ cmd.ret \notin {None, cmd.hit})
  <2>1. cmd' = NoCommand
    BY <1>1, <1>5
  <2>2. Types'
    BY <1>1, <1>3, <2>1, NoCommandIs DEF Types, refVars, treeVars, pastVars, counters
  <2>3. Control'
    BY <1>1, <2>1, NoCommandIs DEF Control, Restoring, Resuming, Stopping, Idle, Place, treeVars
  <2>4. Stacks'
    BY <1>1, <2>1, NoCommandIs DEF Stacks, Exists, refVars, treeVars
  <2> QED
    BY <1>1, <2>1, <2>2, <2>3, <2>4, NoRollback, NoCommandIs DEF pastVars
<1> QED
  BY <1>4, <1>5

LEMMA NoteKeeps ==
    ASSUME Inv, Note
    PROVE  Inv'
<1> USE DEF Inv
<1>1. /\ UNCHANGED <<refVars, treeVars, rebase, snaps, depth, pastVars, counters>>
      /\ cmd.pc = "note" /\ cmd' = NoCommand /\ cont' = [cont EXCEPT !.ret = cmd.ret]
      /\ cmd \in Commands /\ rolling = None
  BY NotRolling DEF Note, Types
<1>2. cont \in Continuation /\ cmd.ret \in Node \cup {None}
  BY <1>1 DEF Control, Types, Commands
<1>3. cont' \in Continuation
  BY <1>1, <1>2 DEF Continuation
<1>4. Types'
  BY <1>1, <1>3, NoCommandIs DEF Types, refVars, treeVars, pastVars, counters
<1>5. Control'
  BY <1>1, NoCommandIs DEF Control, Restoring, Resuming, Stopping, Idle, Place, treeVars
<1>6. Stacks'
  BY <1>1, NoCommandIs DEF Stacks, Exists, refVars, treeVars
<1> QED
  BY <1>1, <1>4, <1>5, <1>6, NoRollback, NoCommandIs DEF pastVars

-----------------------------------------------------------------------------
(* Continue.                                                               *)

LEMMA ContinueNothingKeeps ==
    ASSUME Inv, ContinueNothing
    PROVE  Inv'
<1> USE DEF Inv
<1>1. /\ UNCHANGED <<refVars, treeVars, rebase, snaps, depth, cmd, counters>>
      /\ cmd = NoCommand /\ cont' = None /\ rolling' = None /\ touched' = {}
  BY DEF ContinueNothing, Control
<1>2. Types'
  BY <1>1 DEF Types, refVars, treeVars, counters, Id
<1>3. Control'
  BY <1>1, NoCommandIs DEF Control, Restoring, Resuming, Stopping, Idle, Place, treeVars
<1>4. Stacks'
  BY <1>1 DEF Stacks, Exists, refVars, treeVars
<1> QED
  BY <1>1, <1>2, <1>3, <1>4, IdleRollback

LEMMA ContinueKeeps ==
    ASSUME Inv, Continue
    PROVE  Inv'
<1> USE DEF Inv
<1>1. /\ UNCHANGED <<refVars, treeVars, cont, snaps, depth, counters>>
      /\ rebase # None /\ rebase' = None /\ cont # None /\ rolling' = None /\ touched' = {}
      /\ cont \in Continuation /\ rebase \in Rebase
      /\ cmd' = [NoCommand EXCEPT !.pc = "cas", !.kind = "continue", !.hit = cont.branch,
                  !.rest = cont.rest, !.snap = cont.snap, !.ret = cont.ret, !.base = cont.base,
                  !.expected = cont.expected, !.to = rebase.to]
  BY DEF Continue, Types
<1>2. /\ cont.branch \in Branch /\ cont.rest \subseteq Branch /\ cont.snap \in Id
      /\ cont.ret \in Node \cup {None} /\ cont.base \in Revision /\ cont.expected \in Revision
      /\ rebase.to \in Revision
      /\ cont.base \in Rev /\ cont.expected \in Rev /\ rebase.to \in Rev
  BY <1>1 DEF Continuation, Rebase, Rev
<1>3. /\ cmd' \in Commands /\ cmd'.pc = "cas" /\ cmd'.kind = "continue" /\ cmd'.todo = {}
      /\ cmd'.hit = cont.branch /\ cmd'.from = None
      /\ cmd'.base = cont.base /\ cmd'.expected = cont.expected /\ cmd'.to = rebase.to
  BY <1>1, <1>2, NoCommandIs DEF Commands, Pcs, Kinds, Resuming
<1>4. Types'
  BY <1>1, <1>3 DEF Types, refVars, treeVars, counters, Id
<1>5. Control'
  BY <1>1, <1>2, <1>3 DEF Control, Restoring, Resuming, Stopping, Idle
<1>6. Stacks'
  BY <1>1, <1>3 DEF Stacks, Exists, refVars, treeVars
<1> QED
  BY <1>1, <1>3, <1>4, <1>5, <1>6, NoRollback

LEMMA UpdateBranchRefKeeps ==
    ASSUME Inv, UpdateBranchRef
    PROVE  Inv'
<1> USE DEF Inv
<1> DEFINE b == cmd.hit
<1>1. /\ UNCHANGED <<base, head, work, diskVars, pastVars, counters>> /\ cmd.pc = "cas"
      /\ \/ /\ AsExpected /\ tip' = [tip EXCEPT ![b] = cmd.to] /\ shown' = shown \ {b}
            /\ cmd' = [cmd EXCEPT !.pc = IF b \in shown THEN "reset" ELSE "record"]
         \/ UNCHANGED <<tip, shown>> /\ cmd' = NoCommand
      /\ cmd \in Commands /\ rolling = None
  BY NotRolling DEF UpdateBranchRef, Types, Resuming
<1>2. /\ b \in Branch /\ b \in Node /\ cmd.to \in Revision /\ cmd.to # None /\ cmd.kind = "continue"
      /\ cmd.expected \in Revision /\ cmd.expected # None /\ cmd.base \in Revision
      /\ cmd.from \in Node \cup {None} /\ cmd.todo \subseteq Node
  BY <1>1, ConstantFacts, CommandPlaces DEF Control, Resuming, Node
<1>3. CASE AsExpected /\ tip' = [tip EXCEPT ![b] = cmd.to] /\ shown' = shown \ {b}
           /\ cmd' = [cmd EXCEPT !.pc = IF b \in shown THEN "reset" ELSE "record"]
  <2>1. /\ cmd' \in Commands /\ cmd'.pc \in {"reset", "record"}
        /\ cmd'.pc = "reset" => b \in shown
        /\ cmd'.kind = cmd.kind
        /\ cmd'.ret = cmd.ret /\ cmd'.todo = cmd.todo /\ cmd'.hit = cmd.hit /\ cmd'.from = cmd.from
        /\ cmd'.base = cmd.base /\ cmd'.expected = cmd.expected /\ cmd'.to = cmd.to
    BY <1>1, <1>3 DEF Commands, Pcs, Resuming
  <2> HIDE DEF b
  <2>2. Exists(b)
    BY <1>2, <1>3 DEF AsExpected, Exists, b
  <2>3. tip \in Tips /\ Stacked(tip, base, head)
    BY DEF Types, Stacks
  <2>4. tip' \in Tips /\ Stacked(tip', base, head) /\ tip'[b] # None
        /\ \A x \in Node : Exists(x) => tip'[x] # None
    BY <1>2, <1>3, <2>2, <2>3, StackedMoves DEF Exists, Tips, Rev
  <2>5. Types'
    BY <1>1, <1>3, <2>1, <2>4 DEF Types, diskVars, pastVars, counters
  <2>6. Control'
    BY <1>1, <1>2, <2>1 DEF Control, Restoring, Resuming, Stopping, Idle, diskVars, b, Types
  <2>7. Stacks'
    <3>1. snaps' = snaps /\ base' = base /\ head' = head
      BY <1>1 DEF diskVars
    <3>2. \A x \in cmd'.todo : tip'[x] # None
      BY <1>2, <2>1, <2>4 DEF Stacks
    <3>3. tip'[cmd'.hit] # None
      BY <2>1, <2>4 DEF b
    <3>4. cmd'.from # None => tip'[cmd'.from] # None
      BY <1>2, <2>1, <2>4 DEF Stacks
    <3> QED
      BY <1>2, <2>1, <2>4, <3>1, <3>2, <3>3, <3>4 DEF Stacks, Exists
  <2> QED
    BY <1>1, <1>2, <2>1, <2>5, <2>6, <2>7, NoRollback DEF pastVars
<1>4. CASE UNCHANGED <<tip, shown>> /\ cmd' = NoCommand
  <2>1. Types'
    BY <1>1, <1>4, NoCommandIs DEF Types, diskVars, pastVars, counters
  <2>2. Control'
    BY <1>1, <1>4, NoCommandIs DEF Control, Restoring, Resuming, Stopping, Idle, Place, diskVars
  <2>3. Stacks'
    BY <1>1, <1>4, NoCommandIs DEF Stacks, Exists, diskVars
  <2> QED
    BY <1>1, <1>4, <2>1, <2>2, <2>3, NoRollback, NoCommandIs DEF pastVars
<1> QED
  BY <1>1, <1>3, <1>4

LEMMA ResetWorktreeKeeps ==
    ASSUME Inv, ResetWorktree
    PROVE  Inv'
<1> USE DEF Inv
<1>1. /\ UNCHANGED <<refVars, head, work, diskVars, pastVars, counters>> /\ cmd.pc = "reset"
      /\ shown' = shown \cup {cmd.hit} /\ cmd' = [cmd EXCEPT !.pc = "record"]
      /\ cmd \in Commands /\ rolling = None
  BY NotRolling DEF ResetWorktree, Types, Resuming
<1>2. cmd.hit \in Elsewhere
  BY <1>1 DEF Control
<1>3. /\ cmd' \in Commands /\ cmd'.pc = "record" /\ cmd'.kind = cmd.kind /\ cmd'.ret = cmd.ret
      /\ cmd'.todo = cmd.todo /\ cmd'.hit = cmd.hit /\ cmd'.from = cmd.from
      /\ cmd'.base = cmd.base /\ cmd'.expected = cmd.expected /\ cmd'.to = cmd.to
  BY <1>1 DEF Commands, Pcs, Resuming
<1>4. Types'
  BY <1>1, <1>2, <1>3 DEF Types, refVars, diskVars, pastVars, counters
<1>5. Control'
  BY <1>1, <1>2, <1>3 DEF Control, Restoring, Resuming, Stopping, Idle, diskVars
<1>6. Stacks'
  BY <1>1, <1>3 DEF Stacks, Exists, refVars, diskVars
<1> QED
  BY <1>1, <1>3, <1>4, <1>5, <1>6, NoRollback DEF pastVars, Control, Resuming

LEMMA RecordParentKeeps ==
    ASSUME Inv, RecordParent
    PROVE  Inv'
<1> USE DEF Inv
<1>1. /\ UNCHANGED <<tip, treeVars, diskVars, pastVars, counters>> /\ cmd.pc = "record"
      /\ base' = [base EXCEPT ![cmd.hit] = cmd.base] /\ cmd' = [cmd EXCEPT !.pc = "attach"]
      /\ cmd \in Commands /\ rolling = None
  BY NotRolling DEF RecordParent, Recorded, Types, Resuming
<1>2. cmd.hit \in Branch /\ cmd.base \in Revision /\ cmd.base # None /\ cmd.kind = "continue"
  BY <1>1, ConstantFacts DEF Control, Resuming
<1>3. /\ cmd' \in Commands /\ cmd'.pc = "attach" /\ cmd'.kind = cmd.kind /\ cmd'.ret = cmd.ret
      /\ cmd'.todo = cmd.todo /\ cmd'.hit = cmd.hit /\ cmd'.from = cmd.from
      /\ cmd'.base = cmd.base /\ cmd'.expected = cmd.expected /\ cmd'.to = cmd.to
  BY <1>1 DEF Commands, Pcs, Resuming
<1>4. base' \in Bases /\ Stacked(tip, base', head)
  BY <1>1, <1>2 DEF Types, Bases, Rev, Stacks, Stacked
<1>5. Types'
  BY <1>1, <1>3, <1>4 DEF Types, treeVars, diskVars, pastVars, counters
<1>6. Control'
  BY <1>1, <1>3 DEF Control, Restoring, Resuming, Stopping, Idle, treeVars, diskVars
<1>7. Stacks'
  BY <1>1, <1>3, <1>4 DEF Stacks, Exists, treeVars, diskVars
<1> QED
  BY <1>1, <1>2, <1>3, <1>5, <1>6, <1>7, NoRollback DEF pastVars

LEMMA AttachKeeps ==
    ASSUME Inv, Attach
    PROVE  Inv'
<1> USE DEF Inv
<1>1. /\ UNCHANGED <<refVars, work, shown, diskVars, pastVars, counters>> /\ cmd.pc = "attach"
      /\ head' = (IF cmd.hit \in Elsewhere THEN None ELSE cmd.hit)
      /\ cmd' = [cmd EXCEPT !.pc = "plan", !.from = head', !.hit = None]
      /\ cmd \in Commands /\ rolling = None
  BY NotRolling DEF Attach, Types, Resuming
<1>2. cmd.hit \in Branch /\ cmd.hit \in Node /\ cmd.hit # None /\ cmd.kind = "continue"
  BY <1>1, ConstantFacts DEF Control, Resuming, Node
<1>3. head' \in Place /\ (head' # None => Exists(head'))
  BY <1>1, <1>2 DEF Place, Stacks
<1>4. /\ cmd' \in Commands /\ cmd'.pc = "plan" /\ cmd'.kind = cmd.kind /\ cmd'.ret = cmd.ret
      /\ cmd'.todo = cmd.todo /\ cmd'.hit = None /\ cmd'.from = head'
  BY <1>1, <1>3 DEF Commands, Pcs
<1>5. rebase = None
  BY <1>1 DEF Control, Resuming
<1>6. Types'
  BY <1>1, <1>3, <1>4 DEF Types, refVars, diskVars, pastVars, counters
<1>7. Control'
  BY <1>1, <1>4, <1>5 DEF Control, Restoring, Resuming, Stopping, Idle, diskVars
<1>8. Stacks'
  BY <1>1, <1>3, <1>4 DEF Stacks, Stacked, Exists, refVars, diskVars
<1> QED
  BY <1>1, <1>2, <1>4, <1>6, <1>7, <1>8, NoRollback DEF pastVars

LEMMA ReturnKeeps ==
    ASSUME Inv, Return
    PROVE  Inv'
<1> USE DEF Inv
<1>1. /\ UNCHANGED <<refVars, work, shown, diskVars, pastVars, counters>> /\ cmd.pc = "apply"
      /\ cmd.kind = "continue" /\ cmd' = [cmd EXCEPT !.pc = "clear"]
      /\ head' = IF cmd.ret \notin Elsewhere \cup {None} /\ Exists(cmd.ret) THEN cmd.ret ELSE Landing
      /\ cmd \in Commands /\ rolling = None
  BY NotRolling DEF Return, Types
<1>2. Trunk \in Place /\ Exists(Trunk) /\ Trunk # None
  BY ConstantFacts DEF Stacks, Stacked, Place, Exists
<1>3. head' \in Place /\ head' # None /\ Exists(head')
  <2>1. Landing \in Place /\ Landing # None /\ Exists(Landing)
    BY <1>2 DEF Landing, Types, Stacks, Stacked, Exists
  <2>2. cmd.ret \in Node \cup {None}
    BY <1>1 DEF Commands
  <2> QED
    BY <1>1, <2>1, <2>2 DEF Place
<1>4. /\ cmd' \in Commands /\ cmd'.pc = "clear" /\ cmd'.kind = cmd.kind /\ cmd'.ret = cmd.ret
      /\ cmd'.todo = cmd.todo /\ cmd'.hit = cmd.hit /\ cmd'.from = cmd.from
  BY <1>1 DEF Commands, Pcs
<1>5. rebase = None
  BY <1>1 DEF Control
<1>6. Types'
  BY <1>1, <1>3, <1>4 DEF Types, refVars, diskVars, pastVars, counters
<1>7. Control'
  BY <1>1, <1>4, <1>5 DEF Control, Restoring, Resuming, Stopping, Idle, diskVars
<1>8. Stacks'
  BY <1>1, <1>3, <1>4 DEF Stacks, Stacked, Exists, refVars, diskVars
<1> QED
  BY <1>1, <1>4, <1>6, <1>7, <1>8, NoRollback DEF pastVars

\* Of continue and abort.
LEMMA ClearKeeps ==
    ASSUME Inv, Clear
    PROVE  Inv'
<1> USE DEF Inv
<1>1. /\ UNCHANGED <<refVars, treeVars, rebase, snaps, depth, counters>>
      /\ cont' = None /\ rolling' = None /\ touched' = {} /\ cmd' = NoCommand
  BY DEF Clear
<1>2. Types'
  BY <1>1, NoCommandIs DEF Types, refVars, treeVars, counters, Id
<1>3. Control'
  BY <1>1, NoCommandIs DEF Control, Restoring, Resuming, Stopping, Idle, Place, treeVars
<1>4. Stacks'
  BY <1>1, NoCommandIs DEF Stacks, Exists, refVars, treeVars
<1> QED
  BY <1>1, <1>2, <1>3, <1>4, IdleRollback

-----------------------------------------------------------------------------
(* Abort and undo.                                                         *)

LEMMA AbortStaleKeeps ==
    ASSUME Inv, AbortStale
    PROVE  Inv'
<1> USE DEF Inv
<1>1. /\ UNCHANGED <<refVars, treeVars, rebase, snaps, depth, cmd, pastVars, counters>>
      /\ cmd = NoCommand /\ cont' = None /\ cont # None /\ ~cont.pending
  BY DEF AbortStale, Control, Owns
<1>2. rolling = None /\ rolling' = None
  BY <1>1 DEF Rollback, pastVars
<1>3. Types'
  BY <1>1 DEF Types, refVars, treeVars, pastVars, counters
<1>4. Control'
  BY <1>1, NoCommandIs DEF Control, Restoring, Resuming, Stopping, Idle, Place, treeVars
<1>5. Stacks'
  BY <1>1 DEF Stacks, Exists, refVars, treeVars
<1> QED
  BY <1>1, <1>2, <1>3, <1>4, <1>5, IdleRollback

LEMMA AbortKeeps ==
    ASSUME Inv, Abort
    PROVE  Inv'
<1> USE DEF Inv
<1> DEFINE id == IF cont = None THEN None ELSE cont.snap
<1>1. /\ UNCHANGED <<refVars, treeVars, rebase, snaps, depth, pastVars, counters>>
      /\ cont' = (IF cont = None THEN None ELSE [cont EXCEPT !.pending = TRUE])
      /\ cmd' = [NoCommand EXCEPT !.pc = "unwind", !.kind = "abort", !.from = head, !.snap = id]
      /\ cmd = NoCommand /\ head \in Place /\ head' = head
  BY DEF Abort, Control, Types, treeVars
<1>2. /\ id \in Id /\ cont' \in Continuation \cup {None}
      /\ cont # None => /\ cont' # None /\ cont'.pending /\ cont'.snap = id /\ id = cont.snap
  <2>1. CASE cont = None
    BY <1>1, <2>1, ConstantFacts DEF Id
  <2>2. CASE cont # None
    <3>1. cont \in Continuation
      BY <2>2 DEF Types
    <3>2. cont' = [cont EXCEPT !.pending = TRUE] /\ id = cont.snap
      BY <1>1, <2>2
    <3>3. cont' \in Continuation /\ cont'.pending /\ cont'.snap = cont.snap /\ cont.snap \in Id
      BY <3>1, <3>2 DEF Continuation
    <3> QED
      BY <3>2, <3>3, ConstantFacts
  <2> QED
    BY <2>1, <2>2
<1> HIDE DEF id
<1>3. /\ cmd' \in Commands /\ cmd'.pc = "unwind" /\ cmd'.kind = "abort" /\ cmd'.todo = {}
      /\ cmd'.hit = None /\ cmd'.from = head /\ cmd'.ret = None /\ cmd'.snap = id
  BY <1>1, <1>2, NoCommandIs DEF Commands, Pcs, Kinds
<1>4. Types'
  BY <1>1, <1>2, <1>3 DEF Types, refVars, treeVars, pastVars, counters
<1>5. Control'
  BY <1>1, <1>3 DEF Control, Restoring, Resuming, Stopping, Idle, Place, treeVars
<1>6. Stacks'
  BY <1>1, <1>3 DEF Stacks, Exists, refVars, treeVars
<1>7. Rollback'
  <2>1. \A i : Bound(i)' <=> Bound(i)
    BY <1>1, SameSnapshots
  <2>2. id # None => cont # None
    BY DEF id
  <2> QED
    BY <1>1, <1>2, <1>3, <2>1, <2>2 DEF Rollback, Restoring, pastVars
<1> QED
  BY <1>4, <1>5, <1>6, <1>7

LEMMA UnwindKeeps ==
    ASSUME Inv, Unwind
    PROVE  Inv'
<1> USE DEF Inv
<1>1. /\ UNCHANGED <<refVars, treeVars, cont, snaps, depth, counters>>
      /\ cmd.pc = "unwind" /\ rebase' = None /\ touched' = {}
      /\ cmd' = [cmd EXCEPT !.pc = IF Bound(cmd.snap) THEN "delete" ELSE "clear"]
      /\ rolling' = (IF Bound(cmd.snap) THEN cmd.snap ELSE None)
      /\ cmd \in Commands /\ cmd.kind = "abort" /\ cmd.snap \in Id /\ head = cmd.from
  BY DEF Unwind, Types, Commands, Control
<1>2. /\ cmd' \in Commands /\ cmd'.pc = (IF Bound(cmd.snap) THEN "delete" ELSE "clear")
      /\ cmd'.kind = cmd.kind /\ cmd'.ret = cmd.ret /\ cmd'.snap = cmd.snap
      /\ cmd'.todo = cmd.todo /\ cmd'.hit = cmd.hit /\ cmd'.from = cmd.from
  BY <1>1 DEF Commands, Pcs, Restoring
<1>3. Types'
  <2>1. rolling' \in Id
    BY <1>1 DEF Id
  <2> QED
    BY <1>1, <1>2, <2>1 DEF Types, refVars, treeVars, counters
<1>4. Control'
  BY <1>1, <1>2 DEF Control, Restoring, Resuming, Stopping, Idle, treeVars
<1>5. Stacks'
  BY <1>1, <1>2 DEF Stacks, Exists, refVars, treeVars
<1>6. Rollback'
  <2>1. \A i : Bound(i)' <=> Bound(i)
    BY <1>1, SameSnapshots
  <2>2. Bound(cmd.snap) => cmd.snap # None
    BY SnapshotIs
  <2>3. \A t : Led(t)'
    BY <1>1, <1>2 DEF Led, treeVars
  <2> QED
    BY <1>1, <1>2, <2>1, <2>2, <2>3 DEF Rollback, Restored, Restoring
<1> QED
  BY <1>3, <1>4, <1>5, <1>6

LEMMA UndoKeeps ==
    ASSUME Inv, NEW id \in 1 .. MaxCommands, Undo(id)
    PROVE  Inv'
<1> USE DEF Inv
<1>1. /\ UNCHANGED <<refVars, treeVars, cont, snaps, depth, made>> /\ commands' = commands + 1
      /\ rebase' = None /\ Bound(id) /\ rolling' = None /\ touched' = {}
      /\ cmd' = [NoCommand EXCEPT !.pc = "delete", !.kind = "undo", !.snap = id]
  BY DEF Undo, Begin
<1>2. id \in Id /\ id # None
  BY <1>1, SnapshotIs DEF Id
<1>3. /\ cmd' \in Commands /\ cmd'.pc = "delete" /\ cmd'.kind = "undo" /\ cmd'.todo = {}
      /\ cmd'.hit = None /\ cmd'.from = None /\ cmd'.ret = None /\ cmd'.snap = id
  <2> HIDE DEF Inv
  <2> QED
    BY <1>1, <1>2, NoCommandIs DEF Commands, Pcs, Kinds, Restoring
<1>4. Types'
  BY <1>1, <1>3 DEF Types, refVars, treeVars, Id
<1>5. Control'
  BY <1>1, <1>3 DEF Control, Restoring, Resuming, Stopping, Idle, Place, treeVars
<1>6. Stacks'
  BY <1>1, <1>3 DEF Stacks, Exists, refVars, treeVars
<1>7. Rollback'
  <2>1. \A i : Bound(i)' <=> Bound(i)
    BY <1>1, SameSnapshots
  <2> QED
    BY <1>1, <1>2, <1>3, <2>1 DEF Rollback, Restored, Restoring
<1> QED
  BY <1>4, <1>5, <1>6, <1>7

\* The snapshot that is being restored, and what all its steps have in common.
LEMMA RestoringIs ==
    ASSUME Inv, cmd.pc \in Restoring
    PROVE  LET s == Snapshot(cmd.snap)
           IN /\ s \in Snaps /\ s.tip \in Tips /\ s.base \in Bases /\ s.cur \in Place
              /\ s.work \in Changes /\ Stacked(s.tip, s.base, s.cur)
              /\ cmd.kind \in {"undo", "abort"} /\ (cmd.kind = "abort" => rolling = cmd.snap)
              /\ Bound(cmd.snap) /\ cmd.snap # None /\ Restored(s, cmd.pc) /\ rebase = None
              /\ cmd \in Commands /\ cmd.ret = None
              /\ (cmd.kind = "undo" => cmd.from = None) /\ cmd.hit = None /\ cmd.todo = {}
<1> USE DEF Inv
<1>1. Bound(cmd.snap) /\ cmd.snap # None
  BY DEF Rollback
<1>2. Snapshot(cmd.snap) \in Snaps /\ \E i \in DOMAIN snaps : Snapshot(cmd.snap) = snaps[i]
  BY <1>1, SnapshotIs
<1> QED
  BY <1>1, <1>2 DEF Snaps, Stacks, Rollback, Control, Restoring, Types

\* One step of restoring.
RestoreStep(pc) ==
    /\ cmd.pc \in Restoring /\ pc \in Restoring /\ cmd' = [cmd EXCEPT !.pc = pc]
    /\ UNCHANGED <<diskVars, rolling, commands, made>>

LEMMA RestoreStepIs ==
    ASSUME Inv, NEW pc, RestoreStep(pc)
    PROVE  /\ cmd' \in Commands /\ cmd'.pc = pc /\ cmd'.kind = cmd.kind /\ cmd'.ret = cmd.ret
           /\ cmd'.snap = cmd.snap /\ cmd'.todo = cmd.todo /\ cmd'.hit = cmd.hit
           /\ cmd'.from = cmd.from /\ rebase = None /\ UNCHANGED diskVars
           /\ rolling' = rolling /\ commands' = commands /\ made' = made
           /\ Snapshot(cmd.snap)' = Snapshot(cmd.snap)
<1>1. cmd \in Commands /\ rebase = None
  BY RestoringIs DEF RestoreStep
<1>2. snaps' = snaps
  BY DEF RestoreStep, diskVars
<1>3. /\ cmd' \in Commands /\ cmd'.pc = pc /\ cmd'.kind = cmd.kind /\ cmd'.ret = cmd.ret
      /\ cmd'.snap = cmd.snap /\ cmd'.todo = cmd.todo /\ cmd'.hit = cmd.hit
      /\ cmd'.from = cmd.from
  BY <1>1 DEF Commands, Pcs, RestoreStep
<1>4. Snapshot(cmd.snap)' = Snapshot(cmd.snap)
  BY <1>2, <1>3 DEF Snapshot
<1> QED
  BY <1>1, <1>3, <1>4 DEF RestoreStep

\* What is left to show of a step is what it restores.
LEMMA RestoreStepKeeps ==
    ASSUME Inv, NEW pc, RestoreStep(pc), tip' \in Tips, base' \in Bases, head' \in Place,
           work' \in Changes, shown' \subseteq Elsewhere, touched' \subseteq Node,
           Stacked(tip', base', head'),
           Restored(Snapshot(cmd.snap), pc)',
           cmd.kind = "abort" /\ pc \in {"metadata", "head", "work"}
             => \A x \in Node \ touched' : tip'[x] = Snapshot(rolling).tip[x]
    PROVE  Inv'
<1> USE DEF Inv
<1>1. /\ cmd' \in Commands /\ cmd'.pc = pc /\ cmd'.kind = cmd.kind /\ cmd'.ret = cmd.ret
      /\ cmd'.snap = cmd.snap /\ cmd'.todo = {} /\ cmd'.hit = None
      /\ cmd'.from = cmd.from /\ rebase = None /\ UNCHANGED diskVars
      /\ rolling' = rolling /\ commands' = commands /\ made' = made
      /\ Snapshot(cmd.snap)' = Snapshot(cmd.snap)
  BY RestoreStepIs, RestoringIs DEF RestoreStep
<1>2. /\ cmd.kind \in {"undo", "abort"} /\ (cmd.kind = "abort" => rolling = cmd.snap)
      /\ Bound(cmd.snap) /\ cmd.snap # None /\ cmd.ret = None /\ pc \in Restoring
      /\ (cmd.kind = "undo" => cmd.from = None) /\ cmd.hit = None /\ cmd.todo = {}
      /\ cmd.pc \in Restoring
  BY RestoringIs DEF RestoreStep
<1>3. snaps' = snaps /\ cont' = cont
  BY <1>1 DEF diskVars
<1>4. Types'
  BY <1>1 DEF Types, diskVars
<1>5. Control'
  BY <1>1, <1>2 DEF Control, Restoring, Resuming, Stopping, Idle, diskVars
<1>6. Stacks'
  BY <1>1, <1>2, <1>3 DEF Stacks
<1>7. Rollback'
  <2>1. \A i : (Bound(i)' <=> Bound(i)) /\ Snapshot(i)' = Snapshot(i)
    BY <1>3, SameSnapshots
  <2>2. rolling # None => /\ cont # None /\ cont.pending /\ cont.snap = rolling /\ Bound(rolling)
                          /\ cmd.kind \in {"none", "abort"}
    BY DEF Rollback
  <2>3. pc # "unwind" /\ pc # "clear"
    BY <1>2 DEF Restoring
  <2>4. Restored(Snapshot(cmd.snap), cmd.pc)'
    BY <1>1 DEF Restored, Led, HeadBack
  <2> HIDE DEF Inv
  <2> QED
    BY <1>1, <1>2, <1>3, <2>1, <2>2, <2>3, <2>4 DEF Rollback
<1> QED
  BY <1>4, <1>5, <1>6, <1>7

LEMMA DeleteBranchesKeeps ==
    ASSUME Inv, DeleteBranches
    PROVE  Inv'
<1> DEFINE s == Snapshot(cmd.snap)
           gone == {b \in Branch : Exists(b) /\ s.tip[b] = None}
<1>1. /\ RestoreStep("refs") /\ cmd.pc = "delete"
      /\ UNCHANGED <<base, work, shown, touched>>
      /\ tip' = [x \in Node |-> IF x \in gone THEN None ELSE tip[x]]
      /\ head' = IF head \in gone THEN Trunk ELSE head
  BY DEF DeleteBranches, RestoreStep, Restoring, pastVars, counters
<1>2. /\ s \in Snaps /\ s.tip \in Tips /\ s.base \in Bases /\ s.cur \in Place
      /\ s.work \in Changes /\ Stacked(s.tip, s.base, s.cur)
      /\ cmd.kind = "abort" => Led(s)
  BY <1>1, RestoringIs DEF Restoring, Restored
<1>3. s' = s /\ cmd'.kind = cmd.kind /\ cmd'.from = cmd.from
  BY <1>1, RestoreStepIs
<1> HIDE DEF s
<1>4. /\ tip \in Tips /\ base \in Bases /\ head \in Place /\ work \in Changes
      /\ shown \subseteq Elsewhere /\ touched \subseteq Node /\ Stacked(tip, base, head)
  BY DEF Inv, Types, Stacks
<1>5. tip' \in Tips /\ head' \in Place
  BY <1>1, <1>4, ConstantFacts DEF Tips, Rev, Place
<1>6. \A x \in Node : /\ tip'[x] = IF x \in gone THEN None ELSE tip[x]
                      /\ x \in gone <=> x \in Branch /\ tip[x] # None /\ s.tip[x] = None
  BY <1>1 DEF Exists
<1> HIDE DEF gone
<1>7. Stacked(tip', base', head')
  <2>1. \A x \in Node \ Created : tip'[x] # None
    BY <1>2, <1>4, <1>6 DEF Stacked
  <2>2. ASSUME NEW b \in Branch, tip'[b] # None PROVE tip'[Parent[b]] # None /\ base'[b] # None
    <3>1. b \in Node /\ Parent[b] \in Node
      BY ConstantFacts
    <3>2. tip[b] # None /\ s.tip[b] # None
      BY <1>6, <2>2, <3>1
    <3> QED
      BY <1>1, <1>2, <1>4, <1>6, <3>1, <3>2 DEF Stacked
  <2>3. head' # None => tip'[head'] # None
    BY <1>1, <1>4, <1>6, <2>1, ConstantFacts DEF Stacked, Place
  <2> QED
    BY <2>1, <2>2, <2>3 DEF Stacked
<1>8. Restored(s, "refs")'
  <2>1. \A b \in Branch : s.tip[b] = None => tip'[b] = None
    BY <1>6, ConstantFacts
  <2>2. ASSUME cmd.kind = "abort" PROVE Led(s)'
    <3>1. cmd.from \in {None, s.cur} => head = cmd.from
      BY <1>2, <2>2 DEF Led
    <3>2. head = None \/ head = s.cur => head \notin gone
      <4>1. gone \subseteq Branch /\ None \notin Branch /\ Branch \subseteq Node
        BY ConstantFacts DEF gone
      <4>2. head \in gone => s.tip[head] = None
        BY <1>6, <4>1
      <4> QED
        BY <1>2, <4>1, <4>2 DEF Stacked
    <3> QED
      BY <1>1, <1>3, <3>1, <3>2 DEF Led
  <2> QED
    BY <1>3, <2>1, <2>2 DEF Restored
<1> QED
  BY <1>1, <1>4, <1>5, <1>7, <1>8, RestoreStepKeeps DEF s

LEMMA RestoreRefsKeeps ==
    ASSUME Inv, RestoreRefs
    PROVE  Inv'
<1> DEFINE s == Snapshot(cmd.snap)
<1>1. /\ RestoreStep("metadata") /\ cmd.pc = "refs"
      /\ UNCHANGED <<head, work>> /\ touched' = {} /\ shown' \subseteq shown
      /\ tip' = [x \in Node |-> IF s.tip[x] # None THEN s.tip[x] ELSE tip[x]]
      /\ base' = [b \in Branch |-> IF s.base[b] # None THEN s.base[b] ELSE base[b]]
  BY DEF RestoreRefs, RestoredMetadata, RestoreStep, Restoring, counters
<1>2. /\ s \in Snaps /\ s.tip \in Tips /\ s.base \in Bases /\ s.cur \in Place
      /\ s.work \in Changes /\ Stacked(s.tip, s.base, s.cur) /\ Restored(s, "refs")
      /\ cmd.kind = "abort" => rolling = cmd.snap
  BY <1>1, RestoringIs DEF Restoring
<1>3. s' = s /\ cmd'.kind = cmd.kind /\ cmd'.from = cmd.from
  BY <1>1, RestoreStepIs
<1> HIDE DEF s
<1>4. /\ tip \in Tips /\ base \in Bases /\ head \in Place /\ work \in Changes
      /\ shown \subseteq Elsewhere /\ Stacked(tip, base, head)
  BY DEF Inv, Types, Stacks
<1>5. tip' \in Tips /\ base' \in Bases
  BY <1>1, <1>2, <1>4 DEF Tips, Bases
<1>6. \A x \in Node : tip'[x] = s.tip[x]
  <2>1. \A x \in Node : s.tip[x] = None => x \in Branch
    BY <1>2, ConstantFacts DEF Stacked, Node
  <2> QED
    BY <1>1, <1>2, <2>1 DEF Restored
<1>7. Stacked(tip', base', head')
  <2>1. \A x \in Node \ Created : tip'[x] # None
    BY <1>2, <1>6 DEF Stacked
  <2>2. ASSUME NEW b \in Branch, tip'[b] # None PROVE tip'[Parent[b]] # None /\ base'[b] # None
    BY <1>1, <1>2, <1>6, <2>2, ConstantFacts DEF Stacked
  <2>3. head' # None => tip'[head'] # None
    BY <1>1, <1>4 DEF Stacked, Place
  <2> QED
    BY <2>1, <2>2, <2>3 DEF Stacked
<1>8. Restored(s, "metadata")'
  <2>1. \A b \in Branch : s.tip[b] = None => tip'[b] = None
    BY <1>6, ConstantFacts
  <2>2. \A x \in Node : s.tip[x] # None => tip'[x] # None
    BY <1>6
  <2>3. \A b \in Branch : s.base[b] # None => base'[b] = s.base[b]
    BY <1>1
  <2>4. cmd.kind = "abort" => Led(s)'
    BY <1>1, <1>2, <1>3 DEF Restored, Led
  <2> QED
    BY <1>3, <2>1, <2>2, <2>3, <2>4 DEF Restored
<1>9. cmd.kind = "abort" => \A x \in Node \ touched' : tip'[x] = Snapshot(rolling).tip[x]
  BY <1>2, <1>6 DEF s
<1> QED
  BY <1>1, <1>4, <1>5, <1>7, <1>8, <1>9, RestoreStepKeeps DEF s

LEMMA DeleteMetadataKeeps ==
    ASSUME Inv, DeleteMetadata
    PROVE  Inv'
<1> DEFINE s == Snapshot(cmd.snap)
<1>1. /\ RestoreStep("head") /\ cmd.pc = "metadata"
      /\ UNCHANGED <<tip, head, work, shown, touched>>
      /\ base' = [b \in Branch |-> IF s.base[b] = None THEN None ELSE base[b]]
  BY DEF DeleteMetadata, RestoreStep, Restoring, pastVars, treeVars, counters
<1>2. /\ s \in Snaps /\ s.tip \in Tips /\ s.base \in Bases /\ s.cur \in Place
      /\ s.work \in Changes /\ Stacked(s.tip, s.base, s.cur) /\ Restored(s, "metadata")
  BY <1>1, RestoringIs DEF Restoring
<1>3. s' = s /\ cmd'.kind = cmd.kind /\ cmd'.from = cmd.from
  BY <1>1, RestoreStepIs
<1> HIDE DEF s
<1>4. /\ tip \in Tips /\ base \in Bases /\ head \in Place /\ work \in Changes
      /\ shown \subseteq Elsewhere /\ touched \subseteq Node /\ Stacked(tip, base, head)
  BY DEF Inv, Types, Stacks
<1>5. base' = s.base /\ base' \in Bases
  BY <1>1, <1>2 DEF Restored, Bases
<1>6. Stacked(tip', base', head')
  <2>1. \A b \in Branch : tip[b] # None => base'[b] # None
    BY <1>2, <1>5 DEF Restored, Stacked
  <2> QED
    BY <1>1, <1>4, <2>1 DEF Stacked
<1>7. Restored(s, "head")'
  BY <1>1, <1>2, <1>3, <1>5 DEF Restored, Led
<1>8. cmd.kind = "abort" => \A x \in Node \ touched : tip[x] = Snapshot(rolling).tip[x]
  BY <1>1 DEF Inv, Rollback
<1> QED
  BY <1>1, <1>4, <1>5, <1>6, <1>7, <1>8, RestoreStepKeeps DEF s

LEMMA RestoreHeadKeeps ==
    ASSUME Inv, RestoreHead
    PROVE  Inv'
<1> DEFINE s == Snapshot(cmd.snap)
<1>1. /\ RestoreStep("work") /\ cmd.pc = "head" /\ UNCHANGED <<tip, base, shown, touched>>
      /\ \/ s.cur # None /\ head = s.cur /\ head' = head /\ work' = None
         \/ s.cur \notin {None, head} /\ head' = s.cur /\ work' = work
         \/ /\ s.cur = None \/ (s.cur # head /\ (head # None \/ work # None))
            /\ head' = head /\ work' = work
  BY DEF RestoreHead, RestoreStep, Restoring, pastVars, refVars, counters
<1>2. /\ s \in Snaps /\ s.tip \in Tips /\ s.base \in Bases /\ s.cur \in Place
      /\ s.work \in Changes /\ Stacked(s.tip, s.base, s.cur) /\ Restored(s, "head")
  BY <1>1, RestoringIs DEF Restoring
<1>3. s' = s /\ cmd'.kind = cmd.kind /\ cmd'.from = cmd.from
  BY <1>1, RestoreStepIs
<1> HIDE DEF s
<1>4. /\ tip \in Tips /\ base \in Bases /\ head \in Place /\ work \in Changes
      /\ shown \subseteq Elsewhere /\ touched \subseteq Node /\ Stacked(tip, base, head)
  BY DEF Inv, Types, Stacks
<1>5. head' \in Place /\ work' \in Changes
  BY <1>1, <1>2, <1>4 DEF Changes
<1>6. Stacked(tip', base', head')
  BY <1>1, <1>2, <1>4 DEF Stacked, Restored, Place
<1>7. Restored(s, "work")'
  <2>1. cmd.kind = "abort" => HeadBack(s)'
    BY <1>1, <1>2, <1>3 DEF Restored, Led, HeadBack
  <2> QED
    BY <1>1, <1>2, <1>3, <2>1 DEF Restored
<1>8. cmd.kind = "abort" => \A x \in Node \ touched : tip[x] = Snapshot(rolling).tip[x]
  BY <1>1 DEF Inv, Rollback
<1> QED
  BY <1>1, <1>4, <1>5, <1>6, <1>7, <1>8, RestoreStepKeeps DEF s

\* The last step of restoring: an abort has everything back.
LEMMA RestoreWorkKeeps ==
    ASSUME Inv, RestoreWork
    PROVE  Inv'
<1> USE DEF Inv
<1> DEFINE s == Snapshot(cmd.snap)
<1>1. /\ UNCHANGED <<refVars, head, shown, diskVars, pastVars, counters>> /\ cmd.pc = "work"
      /\ work' \in (IF s.work = None \/ work # None THEN {work}
                    ELSE {s.work} \cup (IF head = s.cur THEN {} ELSE {None}))
      /\ cmd' = IF cmd.kind = "abort" THEN [cmd EXCEPT !.pc = "clear"] ELSE NoCommand
  BY DEF RestoreWork
<1>2. /\ s.work \in Changes /\ Restored(s, "work") /\ cmd.kind \in {"undo", "abort"}
      /\ Bound(cmd.snap) /\ cmd \in Commands /\ cmd.ret = None /\ rebase = None
      /\ cmd.hit = None /\ cmd.todo = {}
      /\ (cmd.kind = "abort" => rolling = cmd.snap) /\ cmd.snap # None
  BY <1>1, RestoringIs DEF Restoring
<1> HIDE DEF s
<1>3. work' \in Changes
  BY <1>1, <1>2 DEF Types
<1>4. CASE cmd.kind = "abort"
  <2>1. /\ cmd' \in Commands /\ cmd'.pc = "clear" /\ cmd'.kind = "abort" /\ cmd'.ret = None
        /\ cmd'.snap = cmd.snap /\ cmd'.todo = {} /\ cmd'.hit = None /\ cmd'.from = cmd.from
    BY <1>1, <1>2, <1>4 DEF Commands, Pcs
  <2>2. Types'
    BY <1>1, <1>3, <2>1 DEF Types, refVars, diskVars, pastVars, counters
  <2>3. Control'
    BY <1>1, <1>2, <2>1 DEF Control, Restoring, Resuming, Stopping, Idle, diskVars
  <2>4. Stacks'
    BY <1>1, <2>1 DEF Stacks, refVars, diskVars
  <2>5. Rollback'
    <3>1. \A i : (Bound(i)' <=> Bound(i)) /\ Snapshot(i)' = Snapshot(i)
      BY <1>1, SameSnapshots DEF diskVars
    <3>2. s = Snapshot(rolling) /\ Snapshot(rolling)' = s
      BY <1>1, <1>2, <1>4, <3>1 DEF s, pastVars
    <3>3. \A x \in Node \ touched : tip[x] = s.tip[x]
      BY <1>1, <1>4, <3>2 DEF Rollback
    <3>4. /\ base = s.base
          /\ s.cur # None => \/ head = s.cur \/ cmd.from \notin {None, s.cur}
                             \/ head = None /\ work # None
      BY <1>1, <1>2, <1>4 DEF Restored, HeadBack
    <3>5. work # None => work' = work
      BY <1>1
    <3>6. s.work # None /\ head = s.cur => work' # None
      BY <1>1
    <3>7. Whole(Snapshot(rolling))'
      BY <1>1, <2>1, <3>2, <3>3, <3>4, <3>5, <3>6 DEF Whole, pastVars, refVars
    <3> QED
      BY <1>1, <1>4, <2>1, <3>1, <3>2, <3>7
      DEF Rollback, Restoring, diskVars, pastVars
  <2> QED
    BY <2>2, <2>3, <2>4, <2>5
<1>5. CASE cmd.kind = "undo"
  <2>1. cmd' = NoCommand
    BY <1>1, <1>5
  <2>2. Types'
    BY <1>1, <1>3, <2>1, NoCommandIs DEF Types, refVars, diskVars, pastVars, counters
  <2>3. Control'
    BY <1>1, <2>1, NoCommandIs DEF Control, Restoring, Resuming, Stopping, Idle, Place, diskVars
  <2>4. Stacks'
    BY <1>1, <2>1, NoCommandIs DEF Stacks, refVars, diskVars
  <2> QED
    BY <1>1, <2>1, <2>2, <2>3, <2>4, IdleRollback DEF diskVars, pastVars
<1> QED
  BY <1>2, <1>4, <1>5

-----------------------------------------------------------------------------
(* Everybody else.                                                         *)

LEMMA CrashKeeps ==
    ASSUME Inv, Crash
    PROVE  Inv'
<1> USE DEF Inv
<1>1. /\ UNCHANGED <<refVars, treeVars, diskVars, rolling, touched, made, commands>>
      /\ cmd' = NoCommand
  BY DEF Crash
<1>2. Types'
  BY <1>1, NoCommandIs DEF Types, refVars, treeVars, diskVars
<1>3. Control'
  BY <1>1, NoCommandIs DEF Control, Restoring, Resuming, Stopping, Idle, Place, treeVars, diskVars
<1>4. Stacks'
  BY <1>1, NoCommandIs DEF Stacks, refVars, treeVars, diskVars
<1> QED
  BY <1>1, <1>2, <1>3, <1>4, IdleRollback DEF diskVars

LEMMA FinishByHandKeeps ==
    ASSUME Inv, FinishByHand
    PROVE  Inv'
<1> USE DEF Inv
<1>1. /\ UNCHANGED <<refVars, treeVars, cont, snaps, depth, cmd, rolling, touched, made, commands>>
      /\ rebase' = None /\ cmd = NoCommand
  BY DEF FinishByHand, Control
<1>2. Types'
  BY <1>1 DEF Types, refVars, treeVars
<1>3. Control'
  BY <1>1, NoCommandIs DEF Control, Restoring, Resuming, Stopping, Idle, Place
<1>4. Stacks'
  BY <1>1 DEF Stacks, Exists, refVars, treeVars
<1> QED
  BY <1>1, <1>2, <1>3, <1>4, IdleRollback

LEMMA EditKeeps ==
    ASSUME Inv, NEW x \in Node \cup {None}, Edit(x)
    PROVE  Inv'
<1> USE DEF Inv
<1>1. /\ UNCHANGED <<refVars, shown, diskVars, cmd, pastVars, commands>> /\ cmd = NoCommand
      /\ rebase = None /\ made < MaxPatches
      /\ x \in Place /\ (x # None => Exists(x))
      /\ head' = x /\ made' = made + 1 /\ work' = made + 1
  BY DEF Edit, Control, Place
<1>2. head' \in Place /\ made' \in 1 .. MaxPatches /\ work' \in 1 .. MaxPatches
  BY <1>1, ConstantFacts DEF Types, Place
<1>3. Types'
  BY <1>1, <1>2 DEF Types, refVars, diskVars, pastVars, Changes
<1>4. Control'
  BY <1>1, NoCommandIs DEF Control, Restoring, Resuming, Stopping, Idle, Place, diskVars
<1>5. Stacks'
  BY <1>1, NoCommandIs DEF Stacks, Stacked, Exists, refVars, diskVars
<1> QED
  BY <1>1, <1>3, <1>4, <1>5, IdleRollback DEF diskVars, pastVars

LEMMA CommitHereKeeps ==
    ASSUME Inv, CommitHere
    PROVE  Inv'
<1> USE DEF Inv
<1> DEFINE r == Append(tip[head], [home |-> head, n |-> work])
<1>1. /\ UNCHANGED <<base, head, shown, diskVars, cmd, rolling, counters>> /\ cmd = NoCommand
      /\ work # None /\ head # None /\ tip' = [tip EXCEPT ![head] = r] /\ work' = None
      /\ touched' = Touched(head)
  BY DEF CommitHere, Here, Control
<1>2. head \in Node /\ tip[head] # None /\ work \in 0 .. MaxPatches /\ tip \in Tips
      /\ Stacked(tip, base, head)
  BY <1>1 DEF Types, Place, Changes, Stacks, Stacked
<1>3. r \in Revision
  BY <1>2, CommitIs DEF Tips, Rev
<1> HIDE DEF r
<1>4. tip' \in Tips /\ Stacked(tip', base, head)
  BY <1>1, <1>2, <1>3, StackedMoves DEF Tips, Rev
<1>5. Types'
  BY <1>1, <1>2, <1>4 DEF Types, Touched, Changes, diskVars, counters
<1>6. Control'
  BY <1>1 DEF Control, Restoring, Resuming, Stopping, Idle, diskVars
<1>7. Stacks'
  BY <1>1, <1>4, NoCommandIs DEF Stacks, diskVars
<1> QED
  BY <1>1, <1>5, <1>6, <1>7, IdleRollback DEF diskVars

LEMMA CommitElsewhereIs ==
    ASSUME Inv, NEW x \in Node, CommitElsewhere(x)
    PROVE  /\ UNCHANGED <<base, treeVars, diskVars, cmd, rolling, commands>>
           /\ x \in Node \ Created /\ tip[x] \in Revision /\ made \in Nat /\ made' \in 1 .. MaxPatches
           /\ made' = made + 1 /\ NewPatch(x) = [home |-> x, n |-> made']
           /\ tip' = [tip EXCEPT ![x] = Append(@, NewPatch(x))]
           /\ Append(tip[x], NewPatch(x)) \in Revision
           /\ ToSet(Append(tip[x], NewPatch(x))) = ToSet(tip[x]) \cup {NewPatch(x)}
           /\ touched' = Touched(x)
<1> USE DEF Inv
<1>1. /\ UNCHANGED <<base, treeVars, diskVars, cmd, rolling, commands>>
      /\ x \in shown \cup {Trunk} /\ made < MaxPatches /\ made' = made + 1
      /\ tip' = [tip EXCEPT ![x] = Append(@, NewPatch(x))] /\ touched' = Touched(x)
  BY DEF CommitElsewhere
<1>2. x \in Node \ Created
  BY <1>1, ConstantFacts DEF Types
<1>3. tip[x] \in Revision
  BY <1>2 DEF Types, Tips, Rev, Stacks, Stacked
<1>4. made \in Nat /\ made' \in 1 .. MaxPatches /\ made' \in 0 .. MaxPatches
  BY <1>1, ConstantFacts DEF Types
<1>5. NewPatch(x) = [home |-> x, n |-> made']
  BY <1>1 DEF NewPatch
<1> QED
  BY <1>1, <1>2, <1>3, <1>4, <1>5, CommitIs

\* At any time, also in the middle of a rollback.
LEMMA CommitElsewhereKeeps ==
    ASSUME Inv, NEW x \in Node, CommitElsewhere(x)
    PROVE  Inv'
<1> USE DEF Inv
<1> DEFINE r == Append(tip[x], NewPatch(x))
<1>1. /\ UNCHANGED <<base, treeVars, diskVars, cmd, rolling, commands>>
      /\ x \in Node \ Created /\ tip[x] \in Revision /\ made' \in 1 .. MaxPatches
      /\ tip' = [tip EXCEPT ![x] = r] /\ r \in Revision /\ touched' = Touched(x)
  BY CommitElsewhereIs
<1> HIDE DEF r
<1>2. tip \in Tips /\ Stacked(tip, base, head) /\ tip[x] # None /\ r # None
  BY <1>1, ConstantFacts DEF Types, Stacks
<1>3. /\ tip' \in Tips /\ Stacked(tip', base, head)
      /\ \A y \in Node : /\ y # x => tip'[y] = tip[y]
                         /\ tip'[y] # None <=> tip[y] # None
  BY <1>1, <1>2, StackedMoves DEF Tips, Rev
<1>4. Types'
  BY <1>1, <1>3 DEF Types, Touched, treeVars, diskVars
<1>5. Control'
  BY <1>1 DEF Control, Restoring, Resuming, Stopping, Idle, treeVars, diskVars
<1>6. Stacks'
  <2>1. snaps' = snaps /\ base' = base /\ head' = head /\ cmd' = cmd
    BY <1>1 DEF treeVars, diskVars
  <2>2. /\ \A y \in cmd.todo : tip'[y] # None
        /\ cmd.hit # None /\ cmd.pc # "cas" => tip'[cmd.hit] # None
        /\ cmd.kind # "abort" /\ cmd.from # None => tip'[cmd.from] # None
        /\ cmd.kind # "continue" /\ cmd.ret # None => tip'[cmd.ret] # None
    BY <1>3, CommandPlaces DEF Stacks, Exists
  <2> QED
    BY <1>3, <2>1, <2>2 DEF Stacks, Exists
<1>7. Rollback'
  <2>1. \A i : (Bound(i)' <=> Bound(i)) /\ Snapshot(i)' = Snapshot(i)
    BY <1>1, SameSnapshots DEF diskVars
  <2>2. rolling # None => touched' = touched \cup {x}
    BY <1>1 DEF Touched
  <2>3. UNCHANGED <<base, head, work, cmd, rolling, cont>>
    BY <1>1 DEF treeVars, diskVars
  <2>4. ASSUME cmd.pc \in Restoring
        PROVE  Restored(Snapshot(cmd.snap), cmd.pc)'
    <3>1. Restored(Snapshot(cmd.snap), cmd.pc)
      BY <2>4 DEF Rollback
    <3>2. Snapshot(cmd.snap)' = Snapshot(cmd.snap)
      BY <2>1, <2>3
    <3>3. \A y \in Node : tip'[y] # None <=> tip[y] # None
      BY <1>3
    <3> QED
      BY <2>3, <3>1, <3>2, <3>3, ConstantFacts DEF Restored, Led, HeadBack
  <2>5. ASSUME rolling # None, NEW s, \A y \in Node \ touched : tip[y] = s.tip[y]
        PROVE  \A y \in Node \ touched' : tip'[y] = s.tip[y]
    BY <1>3, <2>2, <2>5
  <2>6. cmd.kind = "abort" /\ cmd.pc = "clear" /\ rolling # None => Whole(Snapshot(rolling))'
    BY <2>1, <2>3, <2>5 DEF Rollback, Whole
  <2>7. cmd.kind = "abort" /\ cmd.pc \in {"metadata", "head", "work"}
          => rolling # None /\ \A y \in Node \ touched' : tip'[y] = Snapshot(rolling).tip[y]
    BY <2>5 DEF Rollback, Restoring
  <2> QED
    BY <2>1, <2>3, <2>4, <2>6, <2>7 DEF Rollback
<1> QED
  BY <1>4, <1>5, <1>6, <1>7

LEMMA CreateKeeps ==
    ASSUME Inv, NEW b \in Created, Create(b)
    PROVE  Inv'
<1> USE DEF Inv
<1> DEFINE r == Append(tip[head], [home |-> b, n |-> work])
           p == tip[head]
<1>1. /\ UNCHANGED <<shown, rebase, cont, depth, cmd, made>> /\ commands' = commands + 1
      /\ cmd = NoCommand /\ work # None /\ ~Exists(b) /\ head = Parent[b] /\ rebase = None
      /\ snaps' = Snapshots(work) /\ tip' = [tip EXCEPT ![b] = r]
      /\ base' = [base EXCEPT ![b] = p] /\ head' = b /\ work' = None
      /\ rolling' = None /\ touched' = {}
  BY DEF Create, Begin, Here, Control
<1>2. /\ b \in Branch /\ b \in Node /\ b \in Place /\ head \in Node /\ work \in 0 .. MaxPatches
      /\ tip \in Tips /\ base \in Bases /\ Stacked(tip, base, head) /\ work \in Changes
  BY <1>1, ConstantFacts DEF Types, Place, Changes, Stacks
<1>3. p \in Revision
  BY <1>2, ConstantFacts DEF Stacked, Tips, Rev
<1>4. r \in Revision /\ r # None /\ p # None
  <2>1. tip[head] \in Revision
    BY <1>3
  <2>2. r \in Revision
    BY <1>2, <2>1, CommitIs
  <2> QED
    BY <1>3, <2>2, ConstantFacts
<1> HIDE DEF r, p
<1>5. tip' \in Tips /\ base' \in Bases
  BY <1>1, <1>2, <1>3, <1>4 DEF Tips, Bases, Rev
<1>6. Stacked(tip', base', b)
  <2>1. \A x \in Node \ Created : tip'[x] # None
    BY <1>1, <1>2 DEF Stacked, Tips
  <2>2. ASSUME NEW c \in Branch, tip'[c] # None PROVE tip'[Parent[c]] # None /\ base'[c] # None
    <3>1. Parent[c] \in Node /\ c \in Node
      BY ConstantFacts
    <3>2. CASE c = b
      <4>1. tip[Parent[c]] # None
        BY <1>1, <1>3, <3>2, ConstantFacts DEF p
      <4> QED
        BY <1>1, <1>2, <1>4, <3>1, <3>2, <4>1 DEF Tips, Bases
    <3>3. CASE c # b
      BY <1>1, <1>2, <1>4, <2>2, <3>1, <3>3 DEF Stacked, Tips, Bases
    <3> QED
      BY <3>2, <3>3
  <2>3. tip'[b] # None
    BY <1>1, <1>2, <1>4 DEF Tips
  <2> QED
    BY <2>1, <2>2, <2>3 DEF Stacked
<1>7. /\ snaps' \in Seq(Snaps)
      /\ \A i \in DOMAIN snaps' : Stacked(snaps'[i].tip, snaps'[i].base, snaps'[i].cur)
  BY <1>1, <1>2, SnapshotsIs DEF Stacks
<1>8. Types'
  BY <1>1, <1>2, <1>5, <1>7 DEF Types, Id, Changes
<1>9. Control'
  BY <1>1, NoCommandIs DEF Control, Restoring, Resuming, Stopping, Idle
<1>10. Stacks'
  BY <1>1, <1>6, <1>7, NoCommandIs DEF Stacks
<1>11. Rollback'
  BY <1>1, NoCommandIs, <1>9, NoRollback
<1> QED
  BY <1>8, <1>9, <1>10, <1>11

-----------------------------------------------------------------------------
(* The beginning, and what holds.                                          *)

\* At first a branch has its own commit and those of the branches below.
LEMMA FirstTips ==
    ASSUME Init
    PROVE  \E at \in [Node -> Revision] :
             /\ at[Trunk] = <<[home |-> Trunk, n |-> 0]>>
             /\ \A b \in Branch : at[b] = Append(at[Parent[b]], [home |-> b, n |-> 0])
             /\ tip = [b \in Node |-> IF b \in Created THEN None
                                      ELSE IF b = Trunk THEN Append(at[Trunk], [home |-> Trunk, n |-> 1])
                                      ELSE at[b]]
             /\ base = [b \in Branch |-> IF b \in Created THEN None ELSE at[Parent[b]]]
<1> DEFINE F == [b \in Branch |-> [r \in Revision |-> Append(r, [home |-> b, n |-> 0])]]
           first == <<[home |-> Trunk, n |-> 0]>>
           Is(u) == u = [b \in Node |-> IF b = Trunk THEN first
                                        ELSE Append(u[Parent[b]], [home |-> b, n |-> 0])]
           at == CHOOSE u : Is(u)
<1>1. Sorted(Parent, Order, Branch, Trunk) /\ Trunk \notin Branch /\ Parent \in [Branch -> Node]
  BY ConstantFacts
<1>2. \A b \in Node, r \in Revision : Append(r, [home |-> b, n |-> 0]) \in Revision
  BY CommitIs, ConstantFacts
<1>3. first \in Revision
  <2>1. [home |-> Trunk, n |-> 0] \in Patch
    BY ConstantFacts DEF Patch
  <2> QED
    BY <2>1 DEF Revision
<1>4. F \in Steps(Branch, Revision)
  BY <1>2, ConstantFacts DEF Steps
<1>5. \A b \in Branch, r \in Revision : F[b][r] = Append(r, [home |-> b, n |-> 0])
  OBVIOUS
<1>6. /\ tip = [b \in Node |-> IF b \in Created THEN None
                               ELSE IF b = Trunk THEN Append(first, [home |-> Trunk, n |-> 1])
                               ELSE at[b]]
      /\ base = [b \in Branch |-> IF b \in Created THEN None ELSE at[Parent[b]]]
  BY DEF Init
<1> HIDE DEF F, first
<1>7. PICK f : Recursion(f, Parent, Branch, Trunk, Revision, first, F)
  BY <1>1, <1>3, <1>4, TreeRecursion
<1>8. /\ f \in [Node -> Revision] /\ f[Trunk] = first
      /\ \A b \in Branch : f[b] = Append(f[Parent[b]], [home |-> b, n |-> 0])
  BY <1>1, <1>5, <1>7 DEF Recursion, Node
<1>9. Is(f)
  BY <1>1, <1>8 DEF Node
<1>10. Is(at)
  <2> HIDE DEF Is
  <2> QED
    BY <1>9
<1> HIDE DEF at
<1>11. /\ at = [b \in Node |-> at[b]] /\ at[Trunk] = first
       /\ \A b \in Branch : at[b] = Append(at[Parent[b]], [home |-> b, n |-> 0])
  BY <1>1, <1>10 DEF Node
<1> HIDE DEF Is
<1> DEFINE T == {b \in Branch : at[b] \in Revision}
<1>12. \A b \in Branch : Parent[b] = Trunk \/ Parent[b] \in T => b \in T
  <2> SUFFICES ASSUME NEW b \in Branch, Parent[b] = Trunk \/ Parent[b] \in T
               PROVE  at[b] \in Revision
    OBVIOUS
  <2>1. at[Parent[b]] \in Revision
    BY <1>3, <1>11
  <2>2. Append(at[Parent[b]], [home |-> b, n |-> 0]) \in Revision
    BY <2>1, <1>2, ConstantFacts
  <2> QED
    BY <2>2, <1>11
<1>13. Branch \subseteq T
  <2> HIDE DEF T
  <2> QED
    BY <1>1, <1>12, TreeInduction
<1>14. at \in [Node -> Revision]
  BY <1>3, <1>11, <1>13 DEF Node
<1> QED
  BY <1>6, <1>11, <1>14 DEF first

LEMMA FirstInv ==
    ASSUME Init
    PROVE  Inv
<1>1. PICK at \in [Node -> Revision] :
        /\ at[Trunk] = <<[home |-> Trunk, n |-> 0]>>
        /\ tip = [b \in Node |-> IF b \in Created THEN None
                                 ELSE IF b = Trunk THEN Append(at[Trunk], [home |-> Trunk, n |-> 1])
                                 ELSE at[b]]
        /\ base = [b \in Branch |-> IF b \in Created THEN None ELSE at[Parent[b]]]
  BY FirstTips
<1>2. /\ head = Trunk /\ work = None /\ shown = Elsewhere /\ rebase = None /\ cont = None
      /\ snaps = <<>> /\ depth \in Depths /\ cmd = NoCommand /\ rolling = None /\ touched = {}
      /\ made = 1 /\ commands = 0
  BY DEF Init
<1> DEFINE top == Append(at[Trunk], [home |-> Trunk, n |-> 1])
<1>3. top \in Revision
  BY CommitIs, ConstantFacts
<1> HIDE DEF top
<1>4. tip = [b \in Node |-> IF b \in Created THEN None ELSE IF b = Trunk THEN top ELSE at[b]]
  BY <1>1 DEF top
<1>5. tip \in Tips
  BY <1>3, <1>4 DEF Tips, Rev
<1>6. base \in Bases
  BY <1>1, ConstantFacts DEF Bases, Rev
<1>7. Types
  BY <1>2, <1>5, <1>6, NoCommandIs, ConstantFacts DEF Types, Place, Changes, Id
<1>8. Control
  BY <1>2, NoCommandIs DEF Control, Restoring, Resuming, Stopping, Idle, Place
<1>9. Stacks
  <2>1. \A x \in Node : tip[x] # None <=> x \notin Created
    BY <1>3, <1>4, ConstantFacts
  <2>2. \A b \in Branch : b \notin Created => base[b] # None /\ Parent[b] \notin Created
    BY <1>1, ConstantFacts, ConstantsAssumption
  <2> QED
    BY <1>2, <2>1, <2>2, NoCommandIs, ConstantFacts DEF Stacks, Stacked
<1>10. Rollback
  BY <1>2, NoCommandIs DEF Rollback, Restoring
<1> QED
  BY <1>7, <1>8, <1>9, <1>10 DEF Inv

LEMMA InvStep ==
    ASSUME Inv, [Next]_vars
    PROVE  Inv'
<1>1. CASE Running
  BY <1>1, PlanKeeps, ApplyNextKeeps, FinishKeeps, DetachKeeps, StartRebaseKeeps,
     SecondUpdateKeeps, SaveKeeps, NoteKeeps, UpdateBranchRefKeeps, ResetWorktreeKeeps,
     RecordParentKeeps, AttachKeeps, ReturnKeeps, ClearKeeps, UnwindKeeps, DeleteBranchesKeeps,
     RestoreRefsKeeps, DeleteMetadataKeeps, RestoreHeadKeeps, RestoreWorkKeeps DEF Running
<1>2. CASE Aborting \/ Crash \/ ContinueNothing \/ Continue
  BY <1>2, AbortStaleKeeps, AbortKeeps, CrashKeeps, ContinueNothingKeeps, ContinueKeeps DEF Aborting
<1>3. CASE Users
  BY <1>3, CommitHereKeeps, FinishByHandKeeps, EditKeeps, CommitElsewhereKeeps, CreateKeeps DEF Users
<1>4. ASSUME NEW S \in {Branch} \cup {Upstack(b) : b \in Branch}, Restack(S)
      PROVE  Inv'
  <2>1. S \in SUBSET Branch
    BY DEF Upstack
  <2> QED
    BY <1>4, <2>1, RestackKeeps
<1>5. CASE (\E b \in Branch : Modify(b)) \/ (\E id \in 1 .. MaxCommands : Undo(id))
  BY <1>5, ModifyKeeps, UndoKeeps
<1>6. CASE UNCHANGED vars
  <2>1. UNCHANGED <<tip, base, head, work, shown, rebase, cont, snaps, depth, cmd,
                    rolling, touched, made, commands>>
    BY <1>6 DEF vars, refVars, treeVars, diskVars, pastVars, counters
  <2>2. \A i : (Bound(i)' <=> Bound(i)) /\ Snapshot(i)' = Snapshot(i)
    BY <2>1, SameSnapshots
  <2>3. Types' /\ Control'
    BY <2>1 DEF Inv, Types, Control, Idle
  <2>4. Stacks'
    BY <2>1 DEF Inv, Stacks, Exists
  <2>5. Rollback'
    BY <2>1, <2>2 DEF Inv, Rollback, Restored, Whole, Led, HeadBack
  <2> QED
    BY <2>3, <2>4, <2>5 DEF Inv
<1> QED
  BY <1>1, <1>2, <1>3, <1>4, <1>5, <1>6 DEF Next

LEMMA AlwaysInv == Spec => []Inv
<1> QED
  BY FirstInv, InvStep, PTL DEF Spec

\* An abort that has begun to unwind either gets everything back, except for
\* what others have committed since, or stays on record with its snapshot and
\* is begun again: the marker is set first and goes last (abort.go).  HEAD may
\* stay where the user has moved it, or where files have been changed on it
\* while it was detached: the failing checkout is swallowed (undo.go).
THEOREM RollbackIsAlwaysWhole == Spec => []RollbackIsWhole
<1>1. Inv => RollbackIsWhole
  BY DEF Inv, Rollback, RollbackIsWhole
<1> QED
  BY <1>1, AlwaysInv, PTL

\* A snapshot is that of a command that has begun.
Ids == \A i \in DOMAIN snaps : snaps[i].id \in 1 .. commands

LEMMA IdsStep ==
    ASSUME Inv, Ids, [Next]_vars
    PROVE  Ids'
<1>1. ASSUME NEW w \in Changes, commands' = commands + 1, snaps' = Snapshots(w)
      PROVE  Ids'
  <2>1. /\ commands \in Nat
        /\ \A i \in DOMAIN snaps' : \/ snaps'[i].id = commands + 1
                                    \/ \E j \in DOMAIN snaps : snaps'[i] = snaps[j]
    BY <1>1, SnapshotsIs DEF Inv, Types
  <2> QED
    BY <1>1, <2>1 DEF Ids
<1>2. ASSUME snaps' = snaps, commands' \in {commands, commands + 1}
      PROVE  Ids'
  BY <1>2 DEF Ids, Inv, Types
<1>3. work \in Changes /\ None \in Changes
  BY DEF Inv, Types, Changes
<1>4. CASE Running \/ Aborting \/ Crash \/ ContinueNothing \/ Continue \/ UNCHANGED vars
  <2>1. snaps' = snaps /\ commands' = commands
    BY <1>4 DEF Running, Plan, ApplyNext, Finish, Detach, StartRebase, SecondUpdate, Save, Note,
       UpdateBranchRef, ResetWorktree, RecordParent, Attach, Return, Clear, Unwind,
       DeleteBranches, RestoreRefs, DeleteMetadata, RestoreHead, RestoreWork, Aborting,
       AbortStale, Abort, Crash, ContinueNothing, Continue, vars, diskVars, counters
  <2> QED
    BY <1>2, <2>1
<1>5. CASE Users
  <2>1. CASE \/ CommitHere \/ FinishByHand \/ \E x \in Node \cup {None} : Edit(x)
             \/ \E x \in Node : CommitElsewhere(x)
    <3>1. snaps' = snaps /\ commands' = commands
      BY <2>1 DEF CommitHere, FinishByHand, Edit, CommitElsewhere, diskVars, counters
    <3> QED
      BY <1>2, <3>1
  <2>2. CASE \E b \in Created : Create(b)
    BY <1>1, <1>3, <2>2 DEF Create, Begin
  <2> QED
    BY <1>5, <2>1, <2>2 DEF Users
<1>6. ASSUME NEW S, Restack(S)
      PROVE  Ids'
  BY <1>1, <1>3, <1>6 DEF Restack, Begin
<1>7. ASSUME NEW b, Modify(b)
      PROVE  Ids'
  BY <1>1, <1>3, <1>7 DEF Modify, Begin
<1>8. ASSUME NEW id, Undo(id)
      PROVE  Ids'
  BY <1>2, <1>8 DEF Undo, Begin
<1> QED
  BY <1>4, <1>5, <1>6, <1>7, <1>8 DEF Next

\* The state is well formed: HEAD is on a branch that exists and that no other
\* worktree has, and nothing is rebased but with a detached HEAD.
THEOREM TypeCorrect == Spec => []TypeOK
<1>1. ASSUME Inv, Ids PROVE TypeOK
  <2>1. /\ tip \in [Node -> Revision \cup {None}] /\ base \in [Branch -> Revision \cup {None}]
        /\ head \in (Node \ Elsewhere) \cup {None}
        /\ work \in 1 .. MaxPatches \cup {None} /\ shown \subseteq Elsewhere
    BY <1>1 DEF Inv, Types, Tips, Bases, Rev, Place, Changes
  <2>2. head # None => Exists(head)
    BY <1>1 DEF Inv, Stacks, Stacked, Exists
  <2>3. rebase # None => rebase.of \in Branch /\ rebase.to \in Revision /\ head = None
    BY <1>1 DEF Inv, Types, Control, Rebase
  <2>4. cont # None => cont.branch \in Branch /\ cont.rest \subseteq Branch
                       /\ cont.expected \in Revision /\ cont.base \in Revision
    BY <1>1 DEF Inv, Types, Continuation
  <2>5. cmd.todo \subseteq Branch /\ cmd.rest \subseteq Branch /\ cmd.hit \in Branch \cup {None}
    BY <1>1 DEF Inv, Types, Commands
  <2> QED
    BY <1>1, <2>1, <2>2, <2>3, <2>4, <2>5 DEF TypeOK, Ids
<1>2. Init => Ids
  BY LenProperties DEF Init, Ids
<1>3. Spec => []Ids
  BY <1>2, FirstInv, InvStep, IdsStep, PTL DEF Spec
<1> QED
  BY <1>1, <1>3, AlwaysInv, PTL

-----------------------------------------------------------------------------
(* Whose commits there are.                                                *)

LEMMA RevisionsGrow ==
    ASSUME NEW n \in Nat, NEW k \in Nat, n <= k
    PROVE  \A x : Native(x, n) \subseteq Native(x, k) /\ Below(x, n) \subseteq Below(x, k)
<1> SUFFICES ASSUME NEW x
             PROVE  Native(x, n) \subseteq Native(x, k) /\ Below(x, n) \subseteq Below(x, k)
  OBVIOUS
<1>1. \A r \in Revision : \A p \in ToSet(r) : p.n \in Nat
  BY PatchesOf
<1>2. \A i \in Nat : i <= n => i <= k
  OBVIOUS
<1> QED
  BY <1>1, <1>2 DEF Native, Below

\* What is on a parent is below the branch, and nothing below it is its own.
LEMMA BelowIs ==
    ASSUME NEW b \in Branch, NEW n
    PROVE  /\ Native(Parent[b], n) \subseteq Below(b, n)
           /\ Below(b, n) \subseteq Native(b, n)
           /\ \A r \in Below(b, n) : Own(b, r) = {}
<1> DEFINE l == Level(b)
           k == Level(Parent[b])
           h(p) == Level(p.home)
<1>1. l \in Nat /\ k \in Nat /\ k < l
  BY LevelIs, ConstantFacts
<1>2. \A r \in Revision : \A p \in ToSet(r) : h(p) \in Nat
  BY PatchesOf, LevelIs
<1> HIDE DEF l, k, h
<1>3. \A i \in Nat : (i <= k => i < l) /\ (i < l => i <= l /\ i # l)
  BY <1>1
<1>4. \A r \in Revision : \A p \in ToSet(r) : /\ h(p) <= k => h(p) < l
                                              /\ h(p) < l => h(p) <= l /\ h(p) # l
  BY <1>2, <1>3
<1>5. Native(Parent[b], n) \subseteq Below(b, n) /\ Below(b, n) \subseteq Native(b, n)
  <2>1. ASSUME NEW r \in Native(Parent[b], n) PROVE r \in Below(b, n)
    <3>1. r \in Revision /\ \A p \in ToSet(r) : p.n <= n /\ h(p) <= k
      BY DEF Native, h, k
    <3>2. ASSUME NEW p \in ToSet(r) PROVE p.n <= n /\ h(p) < l
      BY <1>4, <3>1
    <3> QED
      BY <3>1, <3>2 DEF Below, h, l
  <2>2. ASSUME NEW r \in Below(b, n) PROVE r \in Native(b, n)
    <3>1. r \in Revision /\ \A p \in ToSet(r) : p.n <= n /\ h(p) < l
      BY DEF Below, h, l
    <3>2. \A p \in ToSet(r) : p.n <= n /\ h(p) <= l
      BY <1>4, <3>1
    <3> QED
      BY <3>1, <3>2 DEF Native, h, l
  <2> QED
    BY <2>1, <2>2
<1>6. ASSUME NEW r \in Below(b, n), NEW p \in ToSet(r) PROVE p.home # b
  BY <1>4 DEF Below, l, h
<1> QED
  BY <1>5, <1>6 DEF Own

\* A commit on x; the last one taken off.
LEMMA CommitNative ==
    ASSUME NEW x \in Node, NEW n \in Nat, NEW r \in Native(x, n), NEW k \in 0 .. MaxPatches, k <= n
    PROVE  /\ Append(r, [home |-> x, n |-> k]) \in Native(x, n)
           /\ \A y : Kept(y, r, Append(r, [home |-> x, n |-> k]))
<1> DEFINE q == [home |-> x, n |-> k]
<1>1. r \in Revision /\ Append(r, q) \in Revision /\ ToSet(Append(r, q)) = ToSet(r) \cup {q}
  BY CommitIs DEF Native
<1>2. q.home = x /\ q.n = k
  OBVIOUS
<1> HIDE DEF q
<1>3. q.n <= n /\ Level(q.home) <= Level(x)
  BY <1>2, LevelIs
<1>4. Append(r, q) \in Native(x, n)
  BY <1>1, <1>3 DEF Native
<1>5. \A y : Kept(y, r, Append(r, q))
  BY <1>1 DEF Kept, Own
<1> QED
  BY <1>4, <1>5 DEF q

LEMMA FrontNative ==
    ASSUME NEW x, NEW n, NEW r \in Native(x, n)
    PROVE  Front(r) \in Native(x, n)
<1>1. r \in Revision
  BY DEF Native
<1>2. Front(r) \in Revision /\ ToSet(Front(r)) \subseteq ToSet(r)
  BY <1>1, FrontIs, FrontSet DEF Revision
<1> QED
  BY <1>2 DEF Native

\* A rebase keeps what a branch has of its own: what it leaves out is below it.
LEMMA RebaseKeeps ==
    ASSUME Types, Stacks, Known(tip, base, work, made), NEW b \in Branch, Exists(b)
    PROVE  LET new == Replay(tip[Parent[b]], OldUpstream(b), tip[b])
           IN /\ tip[b] \in Native(b, made) /\ tip[Parent[b]] \in Below(b, made)
              /\ new \in Native(b, made) /\ Kept(b, tip[b], new)
<1> DEFINE old == OldUpstream(b)
           onto == tip[Parent[b]]
           new == Replay(onto, old, tip[b])
<1>1. /\ Parent[b] \in Node /\ b \in Node /\ tip[b] \in Revision /\ onto \in Revision
      /\ base[b] \in Revision /\ old \in Revision /\ new \in Revision
      /\ ToSet(old) \subseteq ToSet(base[b]) \/ ToSet(old) \subseteq ToSet(onto)
      /\ ToSet(new) \subseteq ToSet(onto) \cup ToSet(tip[b])
      /\ ToSet(tip[b]) \subseteq ToSet(new) \cup ToSet(old)
  BY RebaseIs
<1> HIDE DEF old, onto, new
<1>2. tip[b] \in Native(b, made) /\ onto \in Native(Parent[b], made) /\ base[b] \in Below(b, made)
  BY <1>1, ConstantFacts DEF Known, onto
<1>3. onto \in Below(b, made) /\ onto \in Native(b, made)
  BY <1>2, BelowIs
<1>4. new \in Native(b, made)
  BY <1>1, <1>2, <1>3 DEF Native
<1>5. Own(b, base[b]) = {} /\ Own(b, onto) = {}
  BY <1>2, <1>3, BelowIs
<1>6. Own(b, old) = {}
  BY <1>1, <1>5 DEF Own
<1>7. Kept(b, tip[b], new)
  BY <1>1, <1>6 DEF Kept, Own
<1> QED
  BY <1>2, <1>3, <1>4, <1>7 DEF onto, old, new

LEMMA KnownGrows ==
    ASSUME NEW t, NEW m, NEW w \in Changes, NEW n \in Nat, NEW k \in Nat, n <= k, Known(t, m, w, n)
    PROVE  Known(t, m, w, k)
<1>1. \A x : Native(x, n) \subseteq Native(x, k) /\ Below(x, n) \subseteq Below(x, k)
  BY RevisionsGrow
<1>2. w # None => w <= k
  BY DEF Known, Changes
<1> QED
  BY <1>1, <1>2 DEF Known

\* A branch moves, with its base or without.
LEMMA KnownMoves ==
    ASSUME NEW t \in Tips, NEW m \in Bases, NEW w, NEW n, Known(t, m, w, n),
           NEW x \in Node, NEW r \in Native(x, n)
    PROVE  /\ Known([t EXCEPT ![x] = r], m, w, n)
           /\ \A o : x \in Branch /\ o \in Below(x, n)
                     => Known([t EXCEPT ![x] = r], [m EXCEPT ![x] = o], w, n)
BY DEF Known, Tips, Bases

LEMMA KnownBase ==
    ASSUME NEW t, NEW m \in Bases, NEW w, NEW n, Known(t, m, w, n),
           NEW b \in Branch, NEW o \in Below(b, n)
    PROVE  Known(t, [m EXCEPT ![b] = o], w, n)
BY DEF Known, Bases

-----------------------------------------------------------------------------
(* What of it stays when a step leaves things alone.                       *)

LEMMA SnappedStays ==
    ASSUME Types, Snapped, snaps' = snaps, made' \in Nat, made <= made'
    PROVE  Snapped'
<1> SUFFICES ASSUME NEW i \in DOMAIN snaps
             PROVE  Known(snaps[i].tip, snaps[i].base, snaps[i].work, made')
  BY DEF Snapped
<1>1. snaps[i] \in Snaps
  BY LenProperties, ElementOfSeq DEF Types
<1>2. snaps[i].work \in Changes /\ made \in Nat
  BY <1>1 DEF Snaps, Types
<1>3. Known(snaps[i].tip, snaps[i].base, snaps[i].work, made)
  BY DEF Snapped
<1> QED
  BY <1>2, <1>3, KnownGrows

\* A snapshot is one of what is.
LEMMA SnappedMore ==
    ASSUME Types, Lineage, NEW w \in {None, work}, snaps' = Snapshots(w), made' = made
    PROVE  Snapped'
<1> DEFINE new == [id |-> commands + 1, tip |-> tip, base |-> base, cur |-> head,
                   work |-> w, made |-> made]
<1>1. w \in Changes
  BY DEF Types, Changes
<1>2. \A i \in DOMAIN snaps' : snaps'[i] = new \/ \E j \in DOMAIN snaps : snaps'[i] = snaps[j]
  BY <1>1, SnapshotsIs
<1>3. Known(new.tip, new.base, new.work, made)
  BY DEF Lineage, Known
<1> HIDE DEF new
<1> QED
  BY <1>2, <1>3 DEF Lineage, Snapped

\* The continuation, but for the marker and the branch to return to.
SameConflict == /\ cont # None
                /\ cont'.branch = cont.branch /\ cont'.base = cont.base
                /\ cont'.expected = cont.expected

LEMMA FiledStays ==
    ASSUME Types, Filed, made' \in Nat, made <= made', rebase' \in {rebase, None},
           cont' = None \/ SameConflict
    PROVE  Filed'
<1>1. \A x : Native(x, made) \subseteq Native(x, made') /\ Below(x, made) \subseteq Below(x, made')
  BY RevisionsGrow DEF Types
<1>2. rebase' # None => rebase'.to \in Native(rebase'.of, made')
  BY <1>1 DEF Filed
<1>3. cont' # None => /\ cont'.base \in Below(cont'.branch, made')
                      /\ cont'.expected \in Native(cont'.branch, made')
  BY <1>1 DEF Filed, SameConflict
<1> QED
  BY <1>2, <1>3 DEF Filed

\* A step that moves nothing and ends, or is not in, a rebase.
LEMMA QuietKeeps ==
    ASSUME Types, CommitInv, UNCHANGED <<tip, base, snaps, made>>,
           work' \in {work, None}, rebase' \in {rebase, None}, cont' = None \/ SameConflict,
           cmd'.pc \notin Resuming \cup Stopping,
           rebase' # None => cmd'.pc \in {"idle", "note", "unwind"}
    PROVE  CommitInv'
<1>1. made \in Nat /\ made <= made' /\ made' \in Nat
  BY DEF Types
<1>2. Known(tip', base', work', made')
  BY DEF CommitInv, Lineage, Known
<1>3. Snapped' /\ Filed'
  BY <1>1, SnappedStays, FiledStays DEF CommitInv, Lineage
<1>4. Carried'
  BY DEF Carried, Resuming, Stopping
<1>5. Faithful'
  <2>1. rebase' # None /\ cont' # None /\ cont'.branch = rebase'.of /\ tip'[rebase'.of] = cont'.expected
          => Kept(rebase'.of, cont'.expected, rebase'.to)
    BY DEF CommitInv, Faithful, SameConflict
  <2> QED
    BY <2>1 DEF Faithful, Resuming, Stopping
<1> QED
  BY <1>2, <1>3, <1>4, <1>5 DEF CommitInv, Lineage

\* A step that moves branches, with no rebase in progress.
LEMMA MovesKeep ==
    ASSUME Types, CommitInv, Known(tip', base', work', made'), UNCHANGED <<snaps, cont>>,
           made' \in Nat, made <= made', rebase' = None,
           cmd'.pc \notin Resuming \cup Stopping
    PROVE  CommitInv'
<1>1. Snapped' /\ Filed'
  BY SnappedStays, FiledStays DEF CommitInv, Lineage, SameConflict
<1>2. Carried' /\ Faithful'
  BY DEF Carried, Faithful, Resuming, Stopping
<1> QED
  BY <1>1, <1>2 DEF CommitInv, Lineage

-----------------------------------------------------------------------------
(* What keeps it.                                                          *)

LEMMA QuietSteps ==
    ASSUME Inv, CommitInv,
           \/ Plan \/ Finish \/ Attach \/ Return \/ Clear \/ RestoreHead \/ Note
           \/ ContinueNothing \/ Aborting \/ Unwind \/ Crash \/ FinishByHand
           \/ \E id \in 1 .. MaxCommands : Undo(id)
    PROVE  CommitInv'
<1>1. Types /\ cmd \in Commands /\ Control
  BY DEF Inv, Types
<1>2. cmd.pc \notin {"idle", "save", "note", "unwind"} => rebase = None
  BY DEF CommitInv, Faithful
<1>3. NoCommand.pc = "idle"
  BY NoCommandIs
<1>4. cont' = cont => cont' = None \/ SameConflict
  BY DEF SameConflict
<1>5. CASE Plan
  <2>1. cmd.pc = "plan" /\ UNCHANGED <<refVars, treeVars, diskVars, counters>> /\ cmd.rest \in SUBSET Branch
    BY <1>1, <1>5 DEF Plan, Commands
  <2>2. cmd'.pc = "apply"
    BY <1>1, <1>5, <2>1, PassingIs DEF Plan
  <2> QED
    BY <1>1, <1>2, <1>4, <2>1, <2>2, QuietKeeps
    DEF refVars, treeVars, diskVars, counters, Resuming, Stopping
<1>6. CASE Finish
  BY <1>1, <1>2, <1>3, <1>4, <1>6, QuietKeeps
  DEF Finish, refVars, diskVars, counters, Resuming, Stopping
<1>7. CASE Attach \/ Return
  <2>1. /\ cmd.pc \in {"attach", "apply"} /\ UNCHANGED <<refVars, work, diskVars, counters>>
        /\ cmd'.pc \in {"plan", "clear"}
    <3>1. CASE Attach
      <4> DEFINE h == head'
      <4>1. cmd.pc = "attach" /\ UNCHANGED <<refVars, work, diskVars, counters>>
            /\ cmd' = [cmd EXCEPT !.pc = "plan", !.from = h, !.hit = None]
        BY <3>1 DEF Attach
      <4> HIDE DEF h
      <4> QED
        BY <1>1, <4>1 DEF Commands
    <3>2. CASE Return
      BY <1>1, <3>2 DEF Return, Commands
    <3> QED
      BY <1>7, <3>1, <3>2
  <2> QED
    BY <1>1, <1>2, <1>4, <2>1, QuietKeeps DEF refVars, diskVars, counters, Resuming, Stopping
<1>8. CASE Clear
  BY <1>1, <1>2, <1>3, <1>8, QuietKeeps
  DEF Clear, refVars, treeVars, counters, Resuming, Stopping
<1>9. CASE RestoreHead
  <2>1. cmd.pc = "head" /\ cmd'.pc = "work" /\ UNCHANGED <<refVars, diskVars, counters>>
        /\ work' \in {work, None}
    BY <1>1, <1>9 DEF RestoreHead, Commands
  <2> QED
    BY <1>1, <1>2, <1>4, <2>1, QuietKeeps DEF refVars, diskVars, counters, Resuming, Stopping
<1>10. CASE Note
  <2>1. /\ UNCHANGED <<refVars, treeVars, rebase, snaps, counters>> /\ cmd' = NoCommand
        /\ cont \in Continuation /\ cont' = [cont EXCEPT !.ret = cmd.ret]
    BY <1>1, <1>10 DEF Note, Types, Control
  <2>2. SameConflict
    BY <2>1, ConstantFacts DEF SameConflict, Continuation
  <2> QED
    BY <1>1, <1>3, <2>1, <2>2, QuietKeeps DEF refVars, treeVars, counters, Resuming, Stopping
<1>11. CASE ContinueNothing
  BY <1>1, <1>11, QuietKeeps
  DEF ContinueNothing, Idle, refVars, treeVars, counters, Resuming, Stopping
<1>12. CASE AbortStale
  BY <1>1, <1>12, QuietKeeps
  DEF AbortStale, Idle, refVars, treeVars, counters, Resuming, Stopping
<1>13. CASE Abort
  <2>1. /\ UNCHANGED <<refVars, treeVars, rebase, snaps, counters>>
        /\ cont' = IF cont = None THEN None ELSE [cont EXCEPT !.pending = TRUE]
    BY <1>13 DEF Abort
  <2>2. cmd'.pc = "unwind"
    BY <1>13, NoCommandIs DEF Abort, Commands
  <2>3. cont' = None \/ SameConflict
    BY <1>1, <2>1 DEF SameConflict, Types, Continuation
  <2> QED
    BY <1>1, <2>1, <2>2, <2>3, QuietKeeps DEF refVars, treeVars, counters, Resuming, Stopping
<1>14. CASE Unwind
  <2>1. UNCHANGED <<refVars, treeVars, cont, snaps, counters>> /\ rebase' = None
        /\ cmd'.pc \in {"delete", "clear"}
    BY <1>1, <1>14 DEF Unwind, Commands
  <2> QED
    BY <1>1, <1>4, <2>1, QuietKeeps DEF refVars, treeVars, counters, Resuming, Stopping
<1>15. CASE Crash
  BY <1>1, <1>3, <1>4, <1>15, QuietKeeps
  DEF Crash, refVars, treeVars, diskVars, Resuming, Stopping
<1>16. CASE FinishByHand
  BY <1>1, <1>4, <1>16, QuietKeeps
  DEF FinishByHand, Idle, refVars, treeVars, diskVars, Resuming, Stopping
<1>17. ASSUME NEW id \in 1 .. MaxCommands, Undo(id) PROVE CommitInv'
  <2>1. UNCHANGED <<refVars, treeVars, cont, snaps, made>> /\ rebase' = None
        /\ cmd' = [NoCommand EXCEPT !.pc = "delete", !.kind = "undo", !.snap = id]
    BY <1>17 DEF Undo
  <2>2. cmd'.pc = "delete"
    BY <2>1, NoCommandIs DEF Commands
  <2> QED
    BY <1>1, <1>4, <2>1, <2>2, QuietKeeps DEF refVars, treeVars, Resuming, Stopping
<1> QED
  BY <1>5, <1>6, <1>7, <1>8, <1>9, <1>10, <1>11, <1>12, <1>13, <1>14, <1>15, <1>16, <1>17
  DEF Aborting

\* Users, in this worktree and elsewhere.
LEMMA UsersKeepCommits ==
    ASSUME Inv, CommitInv,
           \/ CommitHere
           \/ \E x \in Node \cup {None} : Edit(x)
           \/ \E x \in Node : CommitElsewhere(x)
           \/ \E b \in Created : Create(b)
    PROVE  CommitInv'
<1> USE DEF Inv
<1>1. /\ Types /\ tip \in Tips /\ base \in Bases /\ work \in Changes /\ made \in 1 .. MaxPatches
      /\ Known(tip, base, work, made) /\ MaxPatches \in Nat
  BY ConstantFacts DEF Types, CommitInv, Lineage
<1>2. NoCommand.pc = "idle"
  BY NoCommandIs
<1>3. CASE CommitHere
  <2> DEFINE r == Append(tip[head], [home |-> head, n |-> work])
  <2>1. /\ UNCHANGED <<base, diskVars, cmd, counters>> /\ cmd.pc = "idle" /\ rebase = None
        /\ work # None /\ head # None /\ tip' = [tip EXCEPT ![head] = r] /\ work' = None
    BY <1>3 DEF CommitHere, Here, Idle
  <2>2. /\ head \in Node /\ tip[head] \in Native(head, made)
        /\ work \in 0 .. MaxPatches /\ work <= made
    BY <1>1, <2>1 DEF Types, Place, Changes, Stacks, Stacked, Known
  <2>3. r \in Native(head, made)
    BY <1>1, <2>2, CommitNative
  <2> HIDE DEF r
  <2>4. Known(tip', base, work, made)
    BY <1>1, <2>1, <2>2, <2>3, KnownMoves
  <2>5. Known(tip', base', work', made')
    BY <2>1, <2>4 DEF Known, counters
  <2> QED
    BY <1>1, <2>1, <2>5, MovesKeep DEF diskVars, counters, Resuming, Stopping
<1>4. ASSUME NEW x \in Node \cup {None}, Edit(x) PROVE CommitInv'
  <2>1. /\ UNCHANGED <<refVars, diskVars, cmd>> /\ cmd.pc = "idle" /\ rebase = None
        /\ made' = made + 1 /\ work' = made + 1
    BY <1>4 DEF Edit, Idle
  <2>2. Known(tip, base, work, made')
    BY <1>1, <2>1, KnownGrows
  <2>3. work' <= made'
    BY <1>1, <2>1
  <2>4. Known(tip', base', work', made')
    BY <2>1, <2>2, <2>3 DEF Known, refVars
  <2> QED
    BY <1>1, <2>1, <2>4, MovesKeep DEF diskVars, Resuming, Stopping
<1>5. ASSUME NEW b \in Created, Create(b) PROVE CommitInv'
  <2> DEFINE r == Append(tip[head], [home |-> b, n |-> work])
             o == tip[head]
  <2>1. /\ UNCHANGED <<rebase, cont, cmd, made>> /\ cmd.pc = "idle" /\ rebase = None
        /\ work # None /\ head # None /\ head = Parent[b] /\ snaps' = Snapshots(work)
        /\ tip' = [tip EXCEPT ![b] = r] /\ base' = [base EXCEPT ![b] = o] /\ work' = None
    BY <1>5 DEF Create, Begin, Here, Idle
  <2>2. /\ b \in Branch /\ b \in Node /\ head \in Node /\ o \in Native(Parent[b], made)
        /\ work \in 0 .. MaxPatches /\ work <= made
    BY <1>1, <2>1, ConstantFacts DEF Types, Place, Changes, Stacks, Stacked, Known
  <2>3. o \in Below(b, made) /\ o \in Native(b, made)
    BY <2>2, BelowIs
  <2>4. r \in Native(b, made)
    BY <1>1, <2>2, <2>3, CommitNative
  <2> HIDE DEF r, o
  <2>5. Known(tip', base', work, made)
    BY <1>1, <2>1, <2>2, <2>3, <2>4, KnownMoves
  <2>6. Known(tip', base', work', made')
    BY <2>1, <2>5 DEF Known
  <2>7. Snapped'
    BY <1>1, <2>1, SnappedMore DEF CommitInv
  <2>8. Filed'
    BY <1>1, <2>1, FiledStays DEF CommitInv, Lineage, SameConflict
  <2>9. Carried' /\ Faithful'
    BY <2>1 DEF Carried, Faithful, Resuming, Stopping
  <2> QED
    BY <2>6, <2>7, <2>8, <2>9 DEF CommitInv, Lineage
<1>6. ASSUME NEW x \in Node, CommitElsewhere(x) PROVE CommitInv'
  <2> DEFINE p == NewPatch(x)
             r == Append(tip[x], p)
  <2>1. /\ UNCHANGED <<base, work, rebase, cont, snaps, cmd>>
        /\ x \in Node \ Created /\ tip[x] \in Revision /\ made \in Nat /\ made' \in 1 .. MaxPatches
        /\ made' = made + 1 /\ p = [home |-> x, n |-> made']
        /\ tip' = [tip EXCEPT ![x] = r] /\ ToSet(r) = ToSet(tip[x]) \cup {p} /\ r \in Revision
    BY <1>6, CommitElsewhereIs DEF treeVars, diskVars
  <2>2. Known(tip, base, work, made') /\ made <= made' /\ made' \in Nat /\ made' \in 0 .. MaxPatches
    BY <1>1, <2>1, KnownGrows
  <2>3. tip[x] \in Native(x, made') /\ tip[x] # None
    BY <2>1, <2>2, ConstantFacts DEF Known
  <2>4. r \in Native(x, made')
    BY <2>1, <2>2, <2>3, CommitNative
  <2>5. /\ \A y \in Node : tip'[y] = IF y = x THEN r ELSE tip[y]
        /\ \A y : Kept(y, tip[x], r) /\ Kept(y, r, r)
    BY <1>1, <2>1 DEF Tips, Kept, Own
  <2>6. p.n = made + 1 /\ p \in ToSet(r)
    BY <2>1
  <2> HIDE DEF r, p
  <2>7. Known(tip', base', work', made')
    BY <1>1, <2>1, <2>2, <2>4, KnownMoves
  <2>8. Snapped' /\ Filed'
    BY <1>1, <2>1, <2>2, SnappedStays, FiledStays DEF CommitInv, Lineage, SameConflict
  <2>9. Carried'
    <3>1. \A y : Native(y, made) \subseteq Native(y, made') /\ Below(y, made) \subseteq Below(y, made')
      BY <2>1, <2>2, RevisionsGrow
    <3> QED
      BY <2>1, <3>1 DEF CommitInv, Lineage, Carried
  \* What is committed now is nowhere yet.
  <2>10. \A y, e : e \in Native(y, made) => e # r
    <3> SUFFICES ASSUME NEW y, r \in Native(y, made) PROVE FALSE
      OBVIOUS
    <3>1. made + 1 <= made
      BY <2>6 DEF Native
    <3> QED
      BY <2>1, <3>1
  <2>11. Faithful'
    <3>1. Faithful /\ Filed /\ Carried /\ Types /\ Control
      BY DEF CommitInv, Lineage
    <3>2. cmd.pc = "rebase" => Kept(cmd.hit, cmd.expected, tip'[cmd.hit])
      <4> SUFFICES ASSUME cmd.pc = "rebase" PROVE Kept(cmd.hit, cmd.expected, tip'[cmd.hit])
        OBVIOUS
      <4>1. cmd.hit \in Node /\ Kept(cmd.hit, cmd.expected, tip[cmd.hit])
        BY <3>1, ConstantFacts DEF Faithful, Control, Stopping
      <4> QED
        BY <2>5, <4>1 DEF Kept
    <3>3. ASSUME rebase # None, cont # None, cont.branch = rebase.of, tip'[rebase.of] = cont.expected
          PROVE  Kept(rebase.of, cont.expected, rebase.to)
      <4>1. rebase.of \in Node /\ cont.expected # r
        BY <2>10, <3>1, <3>3, ConstantFacts DEF Types, Rebase, Filed
      <4>2. tip[rebase.of] = cont.expected
        BY <2>5, <3>3, <4>1
      <4> QED
        BY <3>1, <3>3, <4>2 DEF Faithful
    <3>4. ASSUME cmd.pc = "cas", tip'[cmd.hit] = cmd.expected
          PROVE  Kept(cmd.hit, cmd.expected, cmd.to)
      <4>1. cmd.hit \in Node /\ cmd.expected # r
        BY <2>10, <3>1, <3>4, ConstantFacts DEF Control, Carried, Resuming
      <4>2. tip[cmd.hit] = cmd.expected
        BY <2>5, <3>4, <4>1
      <4> QED
        BY <3>1, <3>4, <4>2 DEF Faithful, AsExpected
    <3> QED
      BY <2>1, <3>1, <3>2, <3>3, <3>4 DEF Faithful, AsExpected
  <2> QED
    BY <2>7, <2>8, <2>9, <2>11 DEF CommitInv, Lineage
<1> QED
  BY <1>3, <1>4, <1>5, <1>6

\* A command begins.
LEMMA BeginningsKeepCommits ==
    ASSUME Inv, CommitInv, ~Mixed,
           \/ \E S \in SUBSET Branch : Restack(S)
           \/ \E b \in Branch : Modify(b)
    PROVE  CommitInv'
<1> USE DEF Inv
<1>1. /\ Types /\ tip \in Tips /\ base \in Bases /\ work \in Changes /\ made \in 1 .. MaxPatches
      /\ Known(tip, base, work, made) /\ MaxPatches \in Nat
  BY ConstantFacts DEF Types, CommitInv, Lineage
<1>2. ASSUME NEW w \in {None, work}, snaps' = Snapshots(w), rebase = None,
             UNCHANGED <<rebase, cont, made>>, Known(tip', base', work', made'),
             cmd'.pc \notin Resuming \cup Stopping
      PROVE  CommitInv'
  <2>1. Snapped' /\ Filed'
    BY <1>1, <1>2, SnappedMore, FiledStays DEF CommitInv, Lineage, SameConflict
  <2>2. Carried' /\ Faithful'
    BY <1>2 DEF Carried, Faithful, Resuming, Stopping
  <2> QED
    BY <1>2, <2>1, <2>2 DEF CommitInv, Lineage
<1>3. ASSUME NEW S \in SUBSET Branch, Restack(S) PROVE CommitInv'
  <2>1. /\ UNCHANGED <<refVars, treeVars, rebase, cont, made>> /\ rebase = None
        /\ snaps' = Snapshots(None)
    BY <1>3 DEF Restack
  <2>2. cmd'.pc = "apply"
    <3>1. PICK C \in Conflicting(S) :
            cmd' = Passing([NoCommand EXCEPT !.kind = "restack", !.from = head,
                                             !.snap = commands + 1], S, C)
      BY <1>3 DEF Restack
    <3>2. commands + 1 \in Id /\ head \in Place
      BY DEF Types, Id
    <3>3. [NoCommand EXCEPT !.kind = "restack", !.from = head, !.snap = commands + 1] \in Commands
      BY <3>2, NoCommandIs DEF Commands, Kinds
    <3> QED
      BY <3>1, <3>3, PassingIs
  <2> QED
    BY <1>1, <1>2, <2>1, <2>2 DEF refVars, treeVars, Resuming, Stopping
<1>4. ASSUME NEW b \in Branch, Modify(b) PROVE CommitInv'
  <2> DEFINE f == IF Last(tip[b]).home = b THEN Front(tip[b]) ELSE tip[b]
             r == Append(f, [home |-> b, n |-> work])
  <2>1. /\ UNCHANGED <<base, rebase, cont, made>> /\ rebase = None
        /\ snaps' = Snapshots(work) /\ tip' = [tip EXCEPT ![b] = r] /\ work' = None
        /\ work # None /\ head \in Branch /\ b \in Chain(head)
        /\ cmd' = [NoCommand EXCEPT !.pc = "plan", !.kind = "modify", !.from = head,
                                !.snap = commands + 1, !.rest = Upstack(b) \ {b},
                                !.ret = IF head = b THEN None ELSE head]
    BY <1>4 DEF Modify
  <2>2. b \in Node /\ work \in 0 .. MaxPatches /\ work <= made
    BY <1>1, <2>1, ConstantFacts DEF Changes, Known
  <2>3. tip[b] \in Native(b, made)
    <3>1. Stacked(tip, base, head) /\ tip[head] # None
      BY <2>1, ConstantFacts DEF Stacks, Stacked
    <3>2. tip[b] # None
      BY <2>1, <3>1, BelowExist
    <3> QED
      BY <1>1, <2>2, <3>2 DEF Known
  <2>4. f \in Native(b, made)
    <3>1. Front(tip[b]) \in Native(b, made)
      BY <2>3, FrontNative
    <3> QED
      BY <2>3, <3>1
  <2> HIDE DEF f
  <2>5. r \in Native(b, made)
    BY <1>1, <2>2, <2>4, CommitNative
  <2> HIDE DEF r
  <2>6. Known(tip', base, work, made)
    BY <1>1, <2>1, <2>2, <2>5, KnownMoves
  <2>7. Known(tip', base', work', made')
    BY <2>1, <2>6 DEF Known
  <2>8. cmd'.pc = "plan"
    BY <2>1, NoCommandIs DEF Commands
  <2> QED
    BY <1>2, <2>1, <2>7, <2>8 DEF Resuming, Stopping
<1> QED
  BY <1>3, <1>4

\* A pass moves branches, or stops at one.
LEMMA PassKeepsCommits ==
    ASSUME Inv, CommitInv, ApplyNext \/ Detach \/ StartRebase \/ SecondUpdate \/ Save
    PROVE  CommitInv'
<1> USE DEF Inv
<1>1. /\ Types /\ Control /\ tip \in Tips /\ base \in Bases /\ made \in Nat /\ cmd \in Commands
      /\ Known(tip, base, work, made) /\ Snapped /\ Filed /\ Carried /\ Faithful
  BY DEF Types, CommitInv, Lineage
<1>2. NoCommand.pc = "idle"
  BY NoCommandIs
<1>3. cmd.pc \in {"apply", "rebase", "second"} => rebase = None
  BY <1>1 DEF Faithful
<1>4. CASE ApplyNext
  <2> DEFINE b == First(cmd.todo)
             p == tip[Parent[b]]
             r == Replay(p, OldUpstream(b), tip[b])
  <2>1. /\ UNCHANGED <<treeVars, diskVars, counters>> /\ cmd.pc = "apply" /\ cmd.todo # {}
        /\ cmd' = [cmd EXCEPT !.todo = @ \ {b}]
        /\ UNCHANGED refVars \/ (tip' = [tip EXCEPT ![b] = r] /\ base' = [base EXCEPT ![b] = p])
    BY <1>4 DEF ApplyNext
  <2>2. b \in Branch /\ Exists(b)
    BY <1>1, <2>1, FirstIs DEF Stacks, Commands
  <2>3. r \in Native(b, made) /\ p \in Below(b, made) /\ b \in Node
    BY <1>1, <2>2, RebaseKeeps, ConstantFacts
  <2> HIDE DEF b, p, r
  <2>4. cmd'.pc = "apply"
    BY <1>1, <2>1 DEF Commands
  <2>5. Known(tip', base', work, made)
    BY <1>1, <2>1, <2>2, <2>3, KnownMoves DEF refVars
  <2>6. Known(tip', base', work', made')
    BY <2>1, <2>5 DEF treeVars, counters
  <2> QED
    BY <1>1, <1>3, <2>1, <2>4, <2>6, MovesKeep DEF diskVars, counters, Resuming, Stopping
<1>5. CASE Detach
  <2>1. /\ UNCHANGED <<refVars, work, diskVars, counters>> /\ cmd.pc = "apply" /\ cmd.hit # None
        /\ cmd' = [cmd EXCEPT !.pc = "rebase", !.expected = tip[cmd.hit]]
    BY <1>5 DEF Detach
  <2>2. cmd.hit \in Branch /\ Exists(cmd.hit) /\ cmd.hit \in Node
    BY <1>1, <2>1, ConstantFacts DEF Stacks, Commands
  <2>3. cmd'.pc = "rebase" /\ cmd'.hit = cmd.hit /\ cmd'.expected = tip[cmd.hit]
    BY <1>1, <2>1 DEF Commands
  <2>4. tip[cmd.hit] \in Native(cmd.hit, made)
    BY <1>1, <2>2 DEF Known, Exists
  <2>5. Snapped' /\ Filed' /\ Known(tip', base', work', made')
    BY <1>1, <2>1, SnappedStays, FiledStays DEF SameConflict, refVars, diskVars, counters
  <2>6. Carried'
    BY <2>1, <2>3, <2>4 DEF Carried, Resuming, counters
  <2>7. Faithful'
    BY <1>3, <2>1, <2>3 DEF Faithful, Kept, refVars, diskVars
  <2> QED
    BY <2>5, <2>6, <2>7 DEF CommitInv, Lineage
<1>6. CASE StartRebase
  <2> DEFINE b == cmd.hit
             onto == tip[Parent[b]]
             to == Replay(onto, OldUpstream(b), tip[b])
  <2>1. /\ UNCHANGED <<base, work, cont, snaps, made>> /\ cmd.pc = "rebase"
        /\ \/ cmd' = NoCommand /\ UNCHANGED <<tip, rebase>>
           \/ /\ rebase' = (IF rebase = None THEN [of |-> b, to |-> to] ELSE rebase)
              /\ cmd' = [cmd EXCEPT !.pc = "save", !.base = onto] /\ tip' = tip
           \/ /\ tip' = [tip EXCEPT ![b] = to] /\ rebase' = rebase
              /\ cmd' = [cmd EXCEPT !.pc = "second", !.base = onto, !.to = to]
    BY <1>6 DEF StartRebase, Reattach
  <2>2. b \in Branch /\ Exists(b) /\ b \in Node /\ cmd.expected \in Native(b, made) /\ rebase = None
        /\ Kept(b, cmd.expected, tip[b])
    BY <1>1, <1>3, <2>1, ConstantFacts DEF Control, Stopping, Stacks, Carried, Faithful
  <2>3. to \in Native(b, made) /\ onto \in Below(b, made) /\ Kept(b, tip[b], to)
    BY <1>1, <2>2, RebaseKeeps
  <2> HIDE DEF b, onto, to
  <2>4. CASE cmd' = NoCommand /\ UNCHANGED <<tip, rebase>>
    <3>1. Known(tip', base', work', made')
      BY <1>1, <2>1, <2>4
    <3> QED
      BY <1>1, <1>2, <2>1, <2>2, <2>4, <3>1, MovesKeep DEF Resuming, Stopping
  <2>5. CASE /\ rebase' = (IF rebase = None THEN [of |-> b, to |-> to] ELSE rebase)
             /\ cmd' = [cmd EXCEPT !.pc = "save", !.base = onto] /\ tip' = tip
    <3>1. rebase' = [of |-> b, to |-> to] /\ rebase'.of = b /\ rebase'.to = to
      BY <2>2, <2>5
    <3>2. cmd'.pc = "save" /\ cmd'.hit = b /\ cmd'.expected = cmd.expected /\ cmd'.base = onto
      BY <1>1, <2>5 DEF Commands, b
    <3>3. Snapped' /\ Known(tip', base', work', made')
      BY <1>1, <2>1, <2>5, SnappedStays
    <3>4. Filed'
      BY <1>1, <2>1, <2>3, <3>1 DEF Filed
    <3>5. Carried'
      BY <2>1, <2>2, <2>3, <3>2 DEF Carried, Resuming
    <3>6. Kept(b, cmd.expected, to)
      BY <2>2, <2>3 DEF Kept
    <3>7. Faithful'
      BY <2>1, <2>3, <2>5, <3>1, <3>2, <3>6 DEF Faithful
    <3> QED
      BY <3>3, <3>4, <3>5, <3>7 DEF CommitInv, Lineage
  <2>6. CASE /\ tip' = [tip EXCEPT ![b] = to] /\ rebase' = rebase
             /\ cmd' = [cmd EXCEPT !.pc = "second", !.base = onto, !.to = to]
    <3>1. /\ cmd'.pc = "second" /\ cmd'.hit = b /\ cmd'.expected = cmd.expected
          /\ cmd'.base = onto /\ cmd'.to = to
      BY <1>1, <2>6 DEF Commands, b
    <3>2. Known(tip', base, work, made)
      BY <1>1, <2>2, <2>3, <2>6, KnownMoves
    <3>3. Snapped' /\ Filed' /\ Known(tip', base', work', made')
      BY <1>1, <2>1, <2>6, <3>2, SnappedStays, FiledStays DEF SameConflict
    <3>4. Carried'
      BY <2>1, <2>2, <2>3, <3>1 DEF Carried, Resuming
    <3>5. Faithful'
      BY <2>2, <2>6, <3>1 DEF Faithful
    <3> QED
      BY <3>3, <3>4, <3>5 DEF CommitInv, Lineage
  <2> QED
    BY <2>1, <2>4, <2>5, <2>6
<1>7. CASE SecondUpdate
  <2>1. /\ UNCHANGED <<work, diskVars, counters>> /\ cmd.pc = "second" /\ cmd' = NoCommand
        /\ tip' = [tip EXCEPT ![cmd.hit] = cmd.to] /\ base' = [base EXCEPT ![cmd.hit] = cmd.base]
    BY <1>7 DEF SecondUpdate, Reattach
  <2>2. cmd.hit \in Branch /\ cmd.hit \in Node /\ cmd.to \in Native(cmd.hit, made)
        /\ cmd.base \in Below(cmd.hit, made)
    BY <1>1, <2>1, ConstantFacts DEF Control, Stopping, Carried
  <2>3. Known(tip', base', work, made)
    BY <1>1, <2>1, <2>2, KnownMoves
  <2>4. Known(tip', base', work', made')
    BY <2>1, <2>3 DEF counters
  <2> QED
    BY <1>1, <1>2, <1>3, <2>1, <2>4, MovesKeep DEF diskVars, counters, Resuming, Stopping
<1>8. CASE Save
  <2> DEFINE ret == IF cmd.kind = "continue" THEN cmd.ret ELSE None
  <2>1. /\ UNCHANGED <<refVars, treeVars, rebase, snaps, counters>> /\ cmd.pc = "save"
        /\ cont' = [branch |-> cmd.hit, rest |-> cmd.rest, base |-> cmd.base,
                    expected |-> cmd.expected, snap |-> cmd.snap, pending |-> FALSE, ret |-> ret]
        /\ cmd' \in {NoCommand, [cmd EXCEPT !.pc = "note"]}
    BY <1>8 DEF Save, Expected
  <2> HIDE DEF ret
  <2>2. cmd'.pc \in {"idle", "note"}
    BY <1>1, <1>2, <2>1 DEF Commands
  <2>3. /\ cont'.branch = cmd.hit /\ cont'.base = cmd.base /\ cont'.expected = cmd.expected
        /\ cmd.base \in Below(cmd.hit, made) /\ cmd.expected \in Native(cmd.hit, made)
    BY <1>1, <2>1 DEF Carried, Stopping
  <2>4. Snapped' /\ Known(tip', base', work', made')
    BY <1>1, <2>1, SnappedStays DEF refVars, treeVars, counters
  <2>5. Filed'
    BY <1>1, <2>1, <2>3 DEF Filed, counters
  <2>6. Carried'
    BY <2>2 DEF Carried, Resuming, Stopping
  <2>7. rebase.of = cmd.hit /\ Kept(cmd.hit, cmd.expected, rebase.to)
    BY <1>1, <2>1 DEF Faithful
  <2>8. Faithful'
    BY <2>1, <2>2, <2>3, <2>7 DEF Faithful
  <2> QED
    BY <2>4, <2>5, <2>6, <2>8 DEF CommitInv, Lineage
<1> QED
  BY <1>4, <1>5, <1>6, <1>7, <1>8

\* continue moves the branch if it is what the continuation says.
LEMMA ContinueKeepsCommits ==
    ASSUME Inv, CommitInv, ~Mixed, Continue \/ UpdateBranchRef \/ ResetWorktree \/ RecordParent
    PROVE  CommitInv'
<1> USE DEF Inv
<1>1. /\ Types /\ Control /\ tip \in Tips /\ base \in Bases /\ made \in Nat /\ cmd \in Commands
      /\ Known(tip, base, work, made) /\ Snapped /\ Filed /\ Carried /\ Faithful
  BY DEF Types, CommitInv, Lineage
<1>2. NoCommand.pc = "idle"
  BY NoCommandIs
<1>3. CASE Continue
  <2>1. /\ UNCHANGED <<refVars, treeVars, cont, snaps, counters>>
        /\ rebase # None /\ cont # None /\ rebase' = None /\ cont.branch = rebase.of
        /\ cmd' = [NoCommand EXCEPT !.pc = "cas", !.kind = "continue", !.hit = cont.branch,
                  !.rest = cont.rest, !.snap = cont.snap, !.ret = cont.ret, !.base = cont.base,
                  !.expected = cont.expected, !.to = rebase.to]
    BY <1>3 DEF Continue
  <2>2. /\ cmd'.pc = "cas" /\ cmd'.hit = cont.branch /\ cmd'.base = cont.base
        /\ cmd'.expected = cont.expected /\ cmd'.to = rebase.to
    BY <2>1, NoCommandIs DEF Commands
  <2>3. Snapped' /\ Filed' /\ Known(tip', base', work', made')
    BY <1>1, <2>1, SnappedStays, FiledStays DEF SameConflict, refVars, treeVars, counters
  <2>4. Carried'
    BY <1>1, <2>1, <2>2 DEF Carried, Filed, counters
  <2>5. AsExpected' => Kept(cont.branch, cont.expected, rebase.to)
    BY <1>1, <2>1, <2>2 DEF AsExpected, Faithful, refVars
  <2>6. Faithful'
    BY <2>1, <2>2, <2>5 DEF Faithful
  <2> QED
    BY <2>3, <2>4, <2>6 DEF CommitInv, Lineage
<1>4. ASSUME cmd.pc \in Resuming, cmd'.pc \in {"reset", "record", "attach"}, cmd'.hit = cmd.hit,
             cmd'.base = cmd.base, cmd'.expected = cmd.expected, cmd'.to = cmd.to,
             UNCHANGED <<work, diskVars, counters>>, Known(tip', base', work, made)
      PROVE  CommitInv'
  <2>1. rebase = None
    BY <1>1, <1>4 DEF Faithful, Resuming
  <2>2. Snapped' /\ Filed' /\ Known(tip', base', work', made')
    BY <1>1, <1>4, SnappedStays, FiledStays DEF SameConflict, diskVars, counters
  <2>3. Carried'
    BY <1>1, <1>4 DEF Carried, Resuming, counters
  <2>4. Faithful'
    BY <1>4, <2>1 DEF Faithful, diskVars
  <2> QED
    BY <2>2, <2>3, <2>4 DEF CommitInv, Lineage
<1>5. cmd.pc \in Resuming => /\ cmd.hit \in Branch /\ cmd.hit \in Node
                             /\ cmd.to \in Native(cmd.hit, made) /\ cmd.base \in Below(cmd.hit, made)
  BY <1>1, ConstantFacts DEF Control, Carried
<1>6. CASE UpdateBranchRef /\ AsExpected
  <2>1. /\ UNCHANGED <<base, work, diskVars, counters>> /\ cmd.pc = "cas"
        /\ tip' = [tip EXCEPT ![cmd.hit] = cmd.to]
        /\ cmd' = [cmd EXCEPT !.pc = IF cmd.hit \in shown THEN "reset" ELSE "record"]
    BY <1>6 DEF UpdateBranchRef
  <2>2. /\ cmd'.pc \in {"reset", "record", "attach"} /\ cmd'.hit = cmd.hit
        /\ cmd'.base = cmd.base /\ cmd'.expected = cmd.expected /\ cmd'.to = cmd.to
    BY <1>1, <2>1 DEF Commands
  <2>3. Known(tip', base', work, made)
    BY <1>1, <1>5, <2>1, KnownMoves DEF Resuming
  <2> QED
    BY <1>4, <2>1, <2>2, <2>3 DEF Resuming
<1>7. CASE UpdateBranchRef /\ ~AsExpected
  <2>1. /\ UNCHANGED <<tip, base, work, diskVars, counters>> /\ cmd.pc = "cas" /\ cmd' = NoCommand
    BY <1>7 DEF UpdateBranchRef
  <2>2. rebase = None
    BY <1>1, <2>1 DEF Faithful
  <2> QED
    BY <1>1, <1>2, <2>1, <2>2, MovesKeep DEF diskVars, counters, Resuming, Stopping
<1>8. CASE ResetWorktree
  <2>1. /\ UNCHANGED <<refVars, work, diskVars, counters>> /\ cmd.pc = "reset"
        /\ cmd' = [cmd EXCEPT !.pc = "record"]
    BY <1>8 DEF ResetWorktree
  <2>2. /\ cmd'.pc = "record" /\ cmd'.hit = cmd.hit
        /\ cmd'.base = cmd.base /\ cmd'.expected = cmd.expected /\ cmd'.to = cmd.to
    BY <1>1, <2>1 DEF Commands
  <2> QED
    BY <1>1, <1>4, <2>1, <2>2 DEF Resuming, refVars
<1>9. CASE RecordParent
  <2>1. /\ UNCHANGED <<tip, treeVars, diskVars, counters>> /\ cmd.pc = "record"
        /\ base' = [base EXCEPT ![cmd.hit] = cmd.base] /\ cmd' = [cmd EXCEPT !.pc = "attach"]
    BY <1>9 DEF RecordParent, Recorded
  <2>2. /\ cmd'.pc = "attach" /\ cmd'.hit = cmd.hit
        /\ cmd'.base = cmd.base /\ cmd'.expected = cmd.expected /\ cmd'.to = cmd.to
    BY <1>1, <2>1 DEF Commands
  <2>3. Known(tip', base', work, made)
    BY <1>1, <1>5, <2>1, KnownBase DEF Resuming
  <2> QED
    BY <1>4, <2>1, <2>2, <2>3 DEF Resuming, treeVars
<1> QED
  BY <1>3, <1>6, <1>7, <1>8, <1>9

\* Restoring brings back what a snapshot has.
LEMMA RestoringKeepsCommits ==
    ASSUME Inv, CommitInv, DeleteBranches \/ RestoreRefs \/ DeleteMetadata \/ RestoreWork
    PROVE  CommitInv'
<1> USE DEF Inv
<1> DEFINE s == Snapshot(cmd.snap)
<1>1. /\ Types /\ tip \in Tips /\ base \in Bases /\ made \in Nat /\ cmd \in Commands
      /\ Known(tip, base, work, made) /\ Snapped /\ Faithful
  BY DEF Types, CommitInv, Lineage
<1>2. cmd.pc \in Restoring
  BY DEF DeleteBranches, RestoreRefs, DeleteMetadata, RestoreWork, Restoring
<1>3. rebase = None /\ Bound(cmd.snap)
  BY <1>2, RestoringIs
<1>4. Known(s.tip, s.base, s.work, made)
  BY <1>1, <1>3, SnapshotIs DEF Snapped
<1> HIDE DEF s
<1>5. ASSUME UNCHANGED <<diskVars, made>>, cmd'.pc \in Restoring \cup {"clear", "idle"},
             Known(tip', base', work', made)
      PROVE  CommitInv'
  BY <1>1, <1>3, <1>5, MovesKeep DEF diskVars, Restoring, Resuming, Stopping
<1>6. CASE DeleteBranches
  <2> DEFINE gone == {b \in Branch : Exists(b) /\ s.tip[b] = None}
  <2>1. /\ UNCHANGED <<base, work, diskVars, made>>
        /\ tip' = [x \in Node |-> IF x \in gone THEN None ELSE tip[x]]
        /\ cmd' = [cmd EXCEPT !.pc = "refs"]
    BY <1>6 DEF DeleteBranches, counters, s
  <2> HIDE DEF gone
  <2>2. Known(tip', base', work', made)
    BY <1>1, <2>1 DEF Known
  <2>3. cmd'.pc = "refs"
    BY <1>1, <2>1 DEF Commands
  <2> QED
    BY <1>5, <2>1, <2>2, <2>3 DEF Restoring
<1>7. CASE RestoreRefs
  <2>1. /\ UNCHANGED <<work, diskVars, made>>
        /\ tip' = [x \in Node |-> IF s.tip[x] # None THEN s.tip[x] ELSE tip[x]]
        /\ base' = [b \in Branch |-> IF s.base[b] # None THEN s.base[b] ELSE base[b]]
        /\ cmd' = [cmd EXCEPT !.pc = "metadata"]
    BY <1>7 DEF RestoreRefs, RestoredMetadata, counters, s
  <2>2. Known(tip', base', work', made)
    BY <1>1, <1>4, <2>1 DEF Known
  <2>3. cmd'.pc = "metadata"
    BY <1>1, <2>1 DEF Commands
  <2> QED
    BY <1>5, <2>1, <2>2, <2>3 DEF Restoring
<1>8. CASE DeleteMetadata
  <2>1. /\ UNCHANGED <<tip, treeVars, diskVars, made>>
        /\ base' = [b \in Branch |-> IF s.base[b] = None THEN None ELSE base[b]]
        /\ cmd' = [cmd EXCEPT !.pc = "head"]
    BY <1>8 DEF DeleteMetadata, counters, s
  <2>2. Known(tip', base', work', made)
    BY <1>1, <2>1 DEF Known, treeVars
  <2>3. cmd'.pc = "head"
    BY <1>1, <2>1 DEF Commands
  <2> QED
    BY <1>5, <2>1, <2>2, <2>3 DEF Restoring
<1>9. CASE RestoreWork
  <2>1. /\ UNCHANGED <<refVars, diskVars, made>>
        /\ work' \in {work, s.work, None}
        /\ cmd' \in {NoCommand, [cmd EXCEPT !.pc = "clear"]}
    BY <1>9 DEF RestoreWork, counters, s
  <2>2. Known(tip', base', work', made)
    BY <1>1, <1>4, <2>1 DEF Known, refVars
  <2>3. cmd'.pc \in {"clear", "idle"}
    BY <1>1, <2>1, NoCommandIs DEF Commands
  <2> QED
    BY <1>5, <2>1, <2>2, <2>3
<1> QED
  BY <1>6, <1>7, <1>8, <1>9

LEMMA CommitInvStep ==
    ASSUME ~Mixed, Inv, CommitInv, [Next]_vars
    PROVE  CommitInv'
<1>1. CASE Running
  BY <1>1, QuietSteps, PassKeepsCommits, ContinueKeepsCommits, RestoringKeepsCommits DEF Running
<1>2. CASE Aborting \/ Crash \/ ContinueNothing \/ Continue
  BY <1>2, QuietSteps, ContinueKeepsCommits
<1>3. CASE Users
  BY <1>3, QuietSteps, UsersKeepCommits DEF Users
<1>4. ASSUME NEW S \in {Branch} \cup {Upstack(b) : b \in Branch}, Restack(S)
      PROVE  CommitInv'
  <2>1. S \in SUBSET Branch
    BY DEF Upstack
  <2> QED
    BY <1>4, <2>1, BeginningsKeepCommits
<1>5. CASE \E b \in Branch : Modify(b)
  BY <1>5, BeginningsKeepCommits
<1>6. CASE \E id \in 1 .. MaxCommands : Undo(id)
  BY <1>6, QuietSteps
<1>7. CASE UNCHANGED vars
  <2>1. UNCHANGED <<tip, base, work, rebase, cont, snaps, cmd, made>>
    BY <1>7 DEF vars, refVars, treeVars, diskVars, counters
  <2> QED
    BY <2>1 DEF CommitInv, Lineage, Snapped, Filed, Carried, Faithful, AsExpected
<1> QED
  BY <1>1, <1>2, <1>3, <1>4, <1>5, <1>6, <1>7 DEF Next

LEMMA FirstCommits ==
    ASSUME Init
    PROVE  CommitInv
<1>1. PICK at \in [Node -> Revision] :
        /\ at[Trunk] = <<[home |-> Trunk, n |-> 0]>>
        /\ \A b \in Branch : at[b] = Append(at[Parent[b]], [home |-> b, n |-> 0])
        /\ tip = [b \in Node |-> IF b \in Created THEN None
                                 ELSE IF b = Trunk THEN Append(at[Trunk], [home |-> Trunk, n |-> 1])
                                 ELSE at[b]]
        /\ base = [b \in Branch |-> IF b \in Created THEN None ELSE at[Parent[b]]]
  BY FirstTips
<1>2. work = None /\ rebase = None /\ cont = None /\ snaps = <<>> /\ cmd = NoCommand /\ made = 1
  BY DEF Init
<1>3. Parent \in [Branch -> Node] /\ Trunk \in Node /\ Branch \subseteq Node /\ MaxPatches \in Nat \ {0}
  BY ConstantFacts
<1>4. at[Trunk] \in Native(Trunk, 1)
  <2> DEFINE q == [home |-> Trunk, n |-> 0]
  <2>1. at[Trunk] = <<q>> /\ q.home = Trunk /\ q.n = 0 /\ Level(Trunk) \in Nat
    BY <1>1, <1>3, LevelIs
  <2>2. \A p \in ToSet(at[Trunk]) : p = q
    BY <2>1 DEF ToSet
  <2> HIDE DEF q
  <2> QED
    BY <1>1, <1>3, <2>1, <2>2 DEF Native
<1> DEFINE T == {b \in Branch : at[b] \in Native(b, 1)}
<1>5. ASSUME NEW b \in Branch, Parent[b] = Trunk \/ Parent[b] \in T PROVE b \in T
  <2>1. at[Parent[b]] \in Native(Parent[b], 1)
    BY <1>4, <1>5
  <2>2. at[Parent[b]] \in Native(b, 1)
    BY <2>1, BelowIs
  <2>3. 0 \in 0 .. MaxPatches /\ 0 <= 1 /\ b \in Node
    BY <1>3
  <2>4. Append(at[Parent[b]], [home |-> b, n |-> 0]) \in Native(b, 1)
    BY <2>2, <2>3, CommitNative
  <2> QED
    BY <1>1, <2>4
<1>6. Branch \subseteq T
  <2> HIDE DEF T
  <2> QED
    BY <1>5, ConstantFacts, TreeInduction
<1>7. \A x \in Node : at[x] \in Native(x, 1)
  BY <1>4, <1>6 DEF Node
<1>8. Append(at[Trunk], [home |-> Trunk, n |-> 1]) \in Native(Trunk, 1)
  BY <1>3, <1>4, CommitNative
<1>9. \A b \in Branch : at[Parent[b]] \in Below(b, 1)
  BY <1>3, <1>7, BelowIs
<1>10. Known(tip, base, work, made)
  <2>1. \A x \in Node : tip[x] # None => tip[x] \in Native(x, 1)
    BY <1>1, <1>7, <1>8
  <2>2. \A b \in Branch : base[b] # None => base[b] \in Below(b, 1)
    BY <1>1, <1>9
  <2> QED
    BY <1>2, <2>1, <2>2 DEF Known
<1>11. Snapped
  BY <1>2 DEF Snapped
<1> QED
  BY <1>2, <1>10, <1>11, NoCommandIs
  DEF CommitInv, Lineage, Filed, Carried, Faithful, Resuming, Stopping

\* But for an amend, a restored snapshot and the second update of a rebase, no
\* step of any command takes a commit off the branch it was made on, however
\* long a conflict has been open and whoever has committed since: continue
\* moves a branch only from the revision that was rebased (ContinueRebase's
\* compare-and-swap), and a rebase leaves out only what is below the branch.
\* Where nobody restacks in the middle of a rebase, that is.
THEOREM CommitsAlwaysStay ==
    ASSUME ~Mixed
    PROVE  Spec => CommitsStay
<1>1. ASSUME Inv, CommitInv, [Next]_vars
      PROVE  [\A b \in Branch :
                \/ ~Exists(b)
                \/ tip'[b] # None /\ Own(b, tip[b]) \subseteq Own(b, tip'[b])
                \/ cmd.pc \in {"delete", "refs", "second"}
                \/ Idle /\ cmd'.kind = "modify"]_vars
  <2> USE DEF Inv
  <2> SUFFICES ASSUME Next, NEW b \in Branch, Exists(b),
                      cmd.pc \notin {"delete", "refs", "second"}, ~(Idle /\ cmd'.kind = "modify")
               PROVE  tip'[b] # None /\ Kept(b, tip[b], tip'[b])
    BY <1>1 DEF Kept
  <2>1. /\ Types /\ Control /\ tip \in Tips /\ b \in Node /\ tip[b] \in Revision /\ cmd \in Commands
        /\ made \in Nat /\ Known(tip, base, work, made) /\ Faithful /\ None \notin Revision
    BY <1>1, ConstantFacts DEF Types, Tips, Rev, Exists, CommitInv, Lineage
  <2>2. CASE tip' = tip
    BY <2>1, <2>2 DEF Kept
  <2>3. ASSUME NEW x \in Node, NEW r \in Revision, tip' = [tip EXCEPT ![x] = r],
               x = b => Kept(b, tip[b], r)
        PROVE  tip'[b] # None /\ Kept(b, tip[b], tip'[b])
    BY <2>1, <2>3 DEF Kept, Tips
  <2>4. CASE ApplyNext
    <3> DEFINE x == First(cmd.todo)
               r == Replay(tip[Parent[x]], OldUpstream(x), tip[x])
    <3>1. cmd.todo # {} /\ (tip' = tip \/ tip' = [tip EXCEPT ![x] = r])
      BY <2>4 DEF ApplyNext, refVars
    <3>2. x \in Branch /\ Exists(x)
      BY <1>1, <2>1, <3>1, FirstIs DEF Stacks, Commands
    <3>3. x \in Node /\ r \in Revision /\ Kept(x, tip[x], r)
      BY <1>1, <2>1, <3>2, RebaseKeeps, ConstantFacts DEF Native
    <3> HIDE DEF x, r
    <3> QED
      BY <2>2, <2>3, <3>1, <3>3
  <2>5. CASE StartRebase
    <3> DEFINE x == cmd.hit
               r == Replay(tip[Parent[x]], OldUpstream(x), tip[x])
    <3>1. cmd.pc = "rebase" /\ (tip' = tip \/ tip' = [tip EXCEPT ![x] = r])
      BY <2>5 DEF StartRebase
    <3>2. x \in Branch /\ Exists(x)
      BY <1>1, <2>1, <3>1, ConstantFacts DEF Stacks, Control, Stopping
    <3>3. x \in Node /\ r \in Revision /\ Kept(x, tip[x], r)
      BY <1>1, <2>1, <3>2, RebaseKeeps, ConstantFacts DEF Native
    <3> HIDE DEF x, r
    <3> QED
      BY <2>2, <2>3, <3>1, <3>3
  <2>6. CASE UpdateBranchRef
    <3>1. /\ cmd.pc = "cas" /\ cmd.hit \in Branch /\ cmd.hit \in Node /\ cmd.to \in Revision
          /\ tip' = tip \/ (AsExpected /\ tip' = [tip EXCEPT ![cmd.hit] = cmd.to])
      BY <2>1, <2>6, ConstantFacts DEF UpdateBranchRef, Control, Resuming
    <3>2. AsExpected => Kept(cmd.hit, tip[cmd.hit], cmd.to)
      BY <2>1, <3>1 DEF Faithful, AsExpected
    <3> QED
      BY <2>2, <2>3, <3>1, <3>2
  <2>7. CASE CommitHere
    <3> DEFINE r == Append(tip[head], [home |-> head, n |-> work])
    <3>1. work # None /\ head # None /\ tip' = [tip EXCEPT ![head] = r]
      BY <2>7 DEF CommitHere, Here
    <3>2. /\ head \in Node /\ tip[head] \in Native(head, made)
          /\ work \in 0 .. MaxPatches /\ work <= made
      BY <1>1, <2>1, <3>1, ConstantFacts DEF Types, Place, Changes, Stacks, Stacked, Known
    <3>3. r \in Revision /\ Kept(b, tip[head], r)
      BY <2>1, <3>2, CommitNative DEF Native
    <3> HIDE DEF r
    <3> QED
      BY <2>3, <3>1, <3>2, <3>3
  <2>8. ASSUME NEW x \in Node, CommitElsewhere(x)
        PROVE  tip'[b] # None /\ Kept(b, tip[b], tip'[b])
    <3>1. /\ tip' = [tip EXCEPT ![x] = Append(tip[x], NewPatch(x))]
          /\ Append(tip[x], NewPatch(x)) \in Revision
          /\ ToSet(Append(tip[x], NewPatch(x))) = ToSet(tip[x]) \cup {NewPatch(x)}
      BY <1>1, <2>8, CommitElsewhereIs
    <3>2. Kept(b, tip[x], Append(tip[x], NewPatch(x)))
      BY <3>1 DEF Kept, Own
    <3> QED
      BY <2>3, <3>1, <3>2
  <2>9. ASSUME NEW x \in Created, Create(x)
        PROVE  tip'[b] # None /\ Kept(b, tip[b], tip'[b])
    <3>1. x # b /\ tip'[b] = tip[b]
      BY <2>1, <2>9 DEF Create, Exists, Tips
    <3> QED
      BY <2>1, <3>1 DEF Kept
  <2>10. ASSUME NEW x, Modify(x) PROVE FALSE
    <3>1. Idle /\ cmd'.kind = "modify"
      BY <2>10, NoCommandIs DEF Modify, Begin, Commands
    <3> QED
      BY <3>1
  <2>11. CASE Running
    <3>1. CASE \/ Plan \/ Finish \/ Detach \/ Save \/ Note \/ ResetWorktree \/ RecordParent
               \/ Attach \/ Return \/ Clear \/ Unwind \/ DeleteMetadata \/ RestoreHead \/ RestoreWork
      BY <2>2, <3>1 DEF Plan, Finish, Detach, Save, Note, ResetWorktree, RecordParent,
         Attach, Return, Clear, Unwind, DeleteMetadata, RestoreHead, RestoreWork, refVars
    <3>2. CASE SecondUpdate \/ DeleteBranches \/ RestoreRefs
      BY <3>2 DEF SecondUpdate, DeleteBranches, RestoreRefs
    <3> QED
      BY <2>4, <2>5, <2>6, <2>11, <3>1, <3>2 DEF Running
  <2>12. CASE Users
    <3>1. CASE FinishByHand \/ \E x \in Node \cup {None} : Edit(x)
      BY <2>2, <3>1 DEF FinishByHand, Edit, refVars
    <3> QED
      BY <2>7, <2>8, <2>9, <2>12, <3>1 DEF Users
  <2>13. CASE \/ Aborting \/ Crash \/ ContinueNothing \/ Continue
              \/ (\E S \in {Branch} \cup {Upstack(x) : x \in Branch} : Restack(S))
              \/ (\E id \in 1 .. MaxCommands : Undo(id))
    BY <2>2, <2>13 DEF Aborting, AbortStale, Abort, Crash, ContinueNothing, Continue, Restack,
       Undo, refVars
  <2> QED
    BY <2>10, <2>11, <2>12, <2>13 DEF Next
<1>2. ASSUME Inv, CommitInv, [Next]_vars PROVE CommitInv'
  BY <1>2, CommitInvStep
<1> QED
  BY <1>1, <1>2, FirstInv, FirstCommits, InvStep, PTL DEF Spec, CommitsStay

-----------------------------------------------------------------------------
(* What a stopped restack still has to do.                                 *)

\* b is where it belongs, or a worktree holds it back.
Settled(b) == Exists(b) /\ ~HeldBack(b) => InPlace(b)

\* Those of the owed that are before x; all of them, if there is no x.
Earlier(x) == {b \in owed : x # None => Index(b) < Index(x)}
Done(x) == \A b \in Earlier(x) : Settled(b)

\* The rest is everything that is owed behind b.
Waits(b, rest) == b \in owed /\ rest = After(b, owed)

\* No changes are where a rebase goes on; and HEAD is on a branch in the end.
Bare   == rebase # None \/ cmd.kind = "continue" => work = None
Landed == cmd.kind = "continue" /\ cmd.pc = "clear" => head # None

Planned ==
    cmd.pc = "plan"
    => /\ cmd.rest \subseteq owed
       /\ \A b \in owed \ cmd.rest : Settled(b) /\ \A c \in cmd.rest : Index(b) < Index(c)

\* What is not settled yet will be moved, and then what is on it.
Applied ==
    cmd.pc = "apply"
    => /\ cmd.hit # None => Waits(cmd.hit, cmd.rest)
       /\ cmd.todo \subseteq owed
       /\ \A b \in Earlier(cmd.hit) \ cmd.todo :
            Exists(b) => Settled(b) /\ Chain(b) \cap cmd.todo = {}

\* From the stop to the resumption: b is made r on onto, its parent as it is.
Stopped(b, rest, onto, r) ==
    /\ Waits(b, rest) /\ Done(b)
    /\ onto = tip[Parent[b]] /\ IsAncestor(onto, r)

Followed ==
    /\ cmd.pc = "rebase" => Waits(cmd.hit, cmd.rest) /\ (work = None => Done(cmd.hit))
    /\ cmd.pc = "save" => Stopped(cmd.hit, cmd.rest, cmd.base, rebase.to)
    /\ cmd.pc \in {"idle", "note"} /\ rebase # None
         => cont # None /\ cont.branch = rebase.of
            /\ Stopped(cont.branch, cont.rest, cont.base, rebase.to)
    /\ cmd.pc = "cas" => Stopped(cmd.hit, cmd.rest, cmd.base, cmd.to)
    /\ cmd.pc \in {"reset", "record", "attach"}
         => Stopped(cmd.hit, cmd.rest, cmd.base, tip[cmd.hit])
    /\ cmd.pc = "attach" => base[cmd.hit] = cmd.base

Closed == cmd.kind = "continue" /\ cmd.pc = "clear" => Done(None)

\* Until somebody interferes.
Follow == owed # {} => Planned /\ Applied /\ Followed /\ Closed

FollowInv == owed \subseteq Branch /\ Bare /\ Landed /\ Follow

\* What is settled stays so while nothing moves, and HEAD only with no changes.
LEMMA SettledStays ==
    ASSUME UNCHANGED <<tip, base, shown>>,
           UNCHANGED <<head, work>> \/ (work = None /\ work' = None)
    PROVE  \A b : Settled(b) => Settled(b)'
<1>1. \A c : Held(c)' <=> Held(c)
  BY DEF Held
<1>2. \A b : HeldBack(b)' <=> HeldBack(b)
  BY <1>1 DEF HeldBack
<1> QED
  BY <1>2 DEF Settled, Exists, InPlace

LEMMA DoneStays ==
    ASSUME UNCHANGED <<tip, base, shown, owed>>,
           UNCHANGED <<head, work>> \/ (work = None /\ work' = None)
    PROVE  \A x : Done(x) => Done(x)'
BY SettledStays DEF Done, Earlier

\* It does while a branch moves that it is not on.
LEMMA SettledBeside ==
    ASSUME tip \in Tips, base \in Bases, NEW b \in Branch, NEW c \in Branch, b \notin Chain(c),
           NEW r, tip' = tip \/ tip' = [tip EXCEPT ![b] = r],
           NEW m, base' = base \/ base' = [base EXCEPT ![b] = m],
           \A x \in Branch \ {b} : x \in shown' <=> x \in shown, UNCHANGED <<head, work>>,
           Settled(c)
    PROVE  Settled(c)'
<1>1. c # b /\ Parent[c] # b /\ c \in Node /\ Parent[c] \in Node /\ Chain(c) \subseteq Branch
  BY ChainIs, ConstantFacts
<1>2. tip'[c] = tip[c] /\ tip'[Parent[c]] = tip[Parent[c]] /\ base'[c] = base[c]
  BY <1>1 DEF Tips, Bases
<1>3. \A x \in Chain(c) : Held(x)' <=> Held(x)
  BY <1>1 DEF Held
<1>4. HeldBack(c)' <=> HeldBack(c)
  BY <1>3 DEF HeldBack
<1> QED
  BY <1>2, <1>4 DEF Settled, Exists, InPlace

\* So what is done stays done while the next one moves.
LEMMA DoneBeside ==
    ASSUME Types, owed \subseteq Branch, NEW b \in Branch, Done(b), UNCHANGED owed,
           NEW r, tip' = tip \/ tip' = [tip EXCEPT ![b] = r],
           NEW m, base' = base \/ base' = [base EXCEPT ![b] = m],
           \A x \in Branch \ {b} : x \in shown' <=> x \in shown, UNCHANGED <<head, work>>
    PROVE  Done(b)'
<1>1. ASSUME NEW c \in Earlier(b) PROVE Settled(c)'
  <2>1. c \in Branch /\ Settled(c) /\ Index(c) < Index(b)
    BY <1>1, ConstantFacts DEF Earlier, Done, Node
  <2>2. b \notin Chain(c)
    <3>1. Index(b) \in Nat /\ Index(c) \in Nat
      BY <2>1, IndexIs
    <3> QED
      BY <2>1, <3>1, ChainIs
  <2> QED
    BY <2>1, <2>2, SettledBeside DEF Types
<1> QED
  BY <1>1 DEF Done, Earlier

\* A pass over what is left, where what is before it is settled.
LEMMA PassFollows ==
    ASSUME Types, NEW cm \in Commands, NEW S \in SUBSET Branch, NEW C \in Conflicting(S),
           UNCHANGED <<refVars, treeVars>>, cmd' = Passing(cm, S, C),
           owed' \subseteq Branch, S \subseteq owed',
           \A b \in owed' \ S : Settled(b) /\ \A c \in S : Index(b) < Index(c)
    PROVE  Applied'
<1>1. C \subseteq Moves(S) /\ Moves(S) \subseteq S /\ C \subseteq Branch
  BY DEF Conflicting, Moves
<1>2. ASSUME C # {} PROVE First(C) \in C /\ \A c \in C : Index(First(C)) <= Index(c)
  BY <1>1, <1>2, FirstIs
<1> DEFINE T == {b \in Moves(S) : Chain(b) \cap C = {}}
           hit == IF C = {} THEN None ELSE First(C)
           rest == IF C = {} THEN {} ELSE After(First(C), S)
<1>3. T \subseteq S /\ hit \in Branch \cup {None} /\ rest \subseteq Branch
  BY <1>1, <1>2 DEF After
<1>4. Passing(cm, S, C) = [cm EXCEPT !.pc = "apply", !.todo = T, !.hit = hit, !.rest = rest]
  BY DEF Passing
<1>5. cmd'.pc = "apply" /\ cmd'.todo = T /\ cmd'.hit = hit /\ cmd'.rest = rest
  <2> HIDE DEF T, hit, rest
  <2> QED
    BY <1>4 DEF Commands
<1>6. \A b \in Branch : Index(b) \in Nat
  BY IndexIs
<1>7. \A b : Settled(b) => Settled(b)'
  BY SettledStays DEF refVars, treeVars
<1>8. hit # None => hit \in owed' /\ rest = After(hit, owed')
  <2>1. ASSUME C # {} PROVE After(First(C), S) = After(First(C), owed')
    <3>1. First(C) \in S
      BY <1>1, <1>2, <2>1
    <3>2. ASSUME NEW b \in owed', Index(b) > Index(First(C)) PROVE b \in S
      BY <1>6, <3>1, <3>2
    <3> QED
      BY <3>2 DEF After
  <2> QED
    BY <1>1, <1>2, <2>1
<1>9. ASSUME NEW b \in owed', hit # None => Index(b) < Index(hit), b \notin T, Exists(b)
      PROVE  Settled(b)' /\ Chain(b) \cap T = {}
  <2>1. b \in Branch /\ b \in Chain(b)
    BY ChainIs
  <2>2. Chain(b) \cap C = {}
    <3>1. ASSUME NEW c \in Chain(b) \cap C PROVE FALSE
      <4>1. hit = First(C) /\ hit \in Branch /\ Index(hit) <= Index(c) /\ Index(c) <= Index(b)
            /\ c \in Branch
        BY <1>1, <1>2, <2>1, <3>1, ChainIs
      <4>2. Index(b) < Index(hit)
        BY <1>9, <4>1, ConstantFacts DEF Node
      <4> QED
        BY <1>6, <2>1, <4>1, <4>2
    <3> QED
      BY <3>1
  <2>3. CASE b \in S
    <3>1. \A c \in Chain(b) \cap S : InPlace(c)
      BY <1>9, <2>2, <2>3 DEF Moves
    <3>2. Settled(b)
      BY <2>1, <2>3, <3>1 DEF Settled
    <3>3. ASSUME NEW c \in Chain(b) \cap T PROVE FALSE
      <4>1. Chain(c) \subseteq Chain(b) /\ c \in Moves(S)
        BY <2>1, <3>3, ChainIs
      <4> QED
        BY <3>1, <4>1 DEF Moves
    <3> QED
      BY <1>7, <3>2, <3>3
  <2>4. CASE b \notin S
    <3>1. Settled(b) /\ \A c \in S : Index(b) < Index(c)
      BY <2>4
    <3>2. ASSUME NEW c \in Chain(b) \cap T PROVE FALSE
      <4>1. c \in S /\ Index(c) <= Index(b) /\ c \in Branch
        BY <1>3, <2>1, <3>2, ChainIs
      <4> QED
        BY <1>6, <2>1, <3>1, <4>1
    <3> QED
      BY <1>7, <3>1, <3>2
  <2> QED
    BY <2>3, <2>4
<1> HIDE DEF T, hit, rest
<1>10. \A b : Exists(b)' <=> Exists(b)
  BY DEF Exists, refVars
<1> QED
  BY <1>3, <1>5, <1>8, <1>9, <1>10 DEF Applied, Earlier, Waits

\* Where a command stops nowhere, nothing waits.
LEMMA NothingWaits ==
    ASSUME \/ owed' = {}
           \/ cmd'.pc \in {"idle", "note"} /\ rebase' = None
           \/ cmd'.pc \in Restoring \cup {"unwind", "second"}
           \/ cmd'.pc = "clear" /\ cmd'.kind # "continue"
    PROVE  Follow'
BY DEF Follow, Planned, Applied, Followed, Closed, Restoring

\* Interference, and steps that end a command or have no part in a restack.
LEMMA OthersFollow ==
    ASSUME Inv, CommitInv, FollowInv,
           \/ CommitHere \/ FinishByHand \/ Crash \/ Finish \/ Clear
           \/ ContinueNothing \/ Aborting \/ Unwind \/ SecondUpdate
           \/ DeleteBranches \/ RestoreRefs \/ DeleteMetadata \/ RestoreHead \/ RestoreWork
           \/ \E x \in Node \cup {None} : Edit(x)
           \/ \E x \in Node : CommitElsewhere(x)
           \/ \E b \in Created : Create(b)
           \/ \E id \in 1 .. MaxCommands : Undo(id)
    PROVE  FollowInv'
<1>1. Types /\ Control /\ cmd \in Commands /\ owed \subseteq Branch /\ Bare /\ Landed
      /\ (rebase # None => cmd.pc \in {"idle", "save", "note", "unwind"})
  BY DEF Inv, Types, FollowInv, CommitInv, Faithful
<1>2. NoCommand.pc = "idle" /\ NoCommand.kind = "none" /\ NoCommand \in Commands
  BY NoCommandIs
<1>3. Idle => cmd = NoCommand /\ cmd.kind = "none"
  BY <1>1, <1>2 DEF Control
<1>4. cmd.pc \in Restoring => cmd.kind \notin {"none", "continue"}
  BY <1>1, <1>2 DEF Control, Restoring
<1>5. CASE \E x \in Node : CommitElsewhere(x)
  <2>1. owed' = {} /\ UNCHANGED <<treeVars, diskVars, cmd>>
    BY <1>5 DEF CommitElsewhere, Disturb
  <2> QED
    BY <1>1, <2>1, NothingWaits DEF FollowInv, Bare, Landed, treeVars, diskVars
<1>6. CASE CommitHere \/ \E b \in Created : Create(b)
  <2>1. owed' = {} /\ work' = None /\ UNCHANGED cmd /\ Idle
    BY <1>6 DEF CommitHere, Create, Disturb, Here, Begin
  <2> QED
    BY <1>3, <2>1, NothingWaits DEF FollowInv, Bare, Landed
<1>7. CASE FinishByHand \/ Crash \/ Finish \/ Clear
  <2>1. owed' = {} /\ UNCHANGED work /\ rebase' \in {rebase, None} /\ cmd' = NoCommand
    BY <1>3, <1>7 DEF FinishByHand, Crash, Finish, Clear, Disturb, treeVars, diskVars
  <2> QED
    BY <1>1, <1>2, <2>1, NothingWaits DEF FollowInv, Bare, Landed
<1>8. CASE ContinueNothing \/ AbortStale \/ \E x \in Node \cup {None} : Edit(x)
  <2>1. UNCHANGED <<owed, cmd, rebase>> /\ Idle /\ rebase = None
    BY <1>8 DEF ContinueNothing, AbortStale, Edit, Owns, diskVars, pastVars
  <2> QED
    BY <1>1, <1>2, <1>3, <2>1, NothingWaits DEF FollowInv, Bare, Landed
<1>9. CASE Abort
  <2>1. UNCHANGED <<owed, work, rebase>> /\ Idle
    BY <1>9 DEF Abort, pastVars, treeVars
  <2>2. cmd'.pc = "unwind" /\ cmd'.kind = "abort"
    BY <1>9, <1>2 DEF Abort, Commands
  <2> QED
    BY <1>1, <2>1, <2>2, NothingWaits DEF FollowInv, Bare, Landed
<1>10. CASE Unwind
  <2>1. UNCHANGED owed /\ rebase' = None /\ cmd'.pc \in {"delete", "clear"} /\ cmd'.kind = cmd.kind
        /\ cmd.pc = "unwind"
    BY <1>1, <1>10 DEF Unwind, Commands
  <2>2. cmd.kind = "abort"
    BY <1>1, <2>1 DEF Control
  <2> QED
    BY <1>1, <2>1, <2>2, NothingWaits DEF FollowInv, Bare, Landed, Restoring
<1>11. CASE DeleteBranches \/ RestoreRefs \/ DeleteMetadata \/ RestoreHead
  <2>1. UNCHANGED <<owed, rebase>> /\ cmd.pc \in {"delete", "refs", "metadata", "head"}
        /\ cmd'.pc \in Restoring /\ cmd'.kind = cmd.kind
    BY <1>1, <1>11
    DEF DeleteBranches, RestoreRefs, DeleteMetadata, RestoreHead, Commands, Restoring, diskVars,
        pastVars
  <2>2. rebase = None /\ cmd.kind # "continue"
    BY <1>1, <1>4, <2>1 DEF Restoring
  <2> QED
    BY <1>1, <2>1, <2>2, NothingWaits DEF FollowInv, Bare, Landed
<1>12. CASE RestoreWork
  <2>1. UNCHANGED <<owed, rebase>> /\ cmd.pc = "work"
        /\ \/ cmd' = NoCommand
           \/ cmd'.pc = "clear" /\ cmd'.kind = cmd.kind
    BY <1>1, <1>12 DEF RestoreWork, Commands, diskVars, pastVars
  <2>2. rebase = None /\ cmd.kind # "continue"
    BY <1>1, <1>4, <2>1 DEF Restoring
  <2> QED
    BY <1>1, <1>2, <2>1, <2>2, NothingWaits DEF FollowInv, Bare, Landed
<1>13. CASE SecondUpdate
  <2>1. UNCHANGED <<owed, rebase>> /\ cmd.pc = "second" /\ cmd' = NoCommand
    BY <1>13 DEF SecondUpdate, Reattach, diskVars, pastVars
  <2> QED
    BY <1>1, <1>2, <2>1, NothingWaits DEF FollowInv, Bare, Landed
<1>14. CASE \E id \in 1 .. MaxCommands : Undo(id)
  <2>1. owed' = {} /\ rebase' = None
        /\ \E id \in 1 .. MaxCommands : cmd' = [NoCommand EXCEPT !.pc = "delete", !.kind = "undo", !.snap = id]
    BY <1>14 DEF Undo, Disturb
  <2>2. cmd'.kind = "undo"
    BY <1>2, <2>1 DEF Commands
  <2> QED
    BY <1>1, <2>1, <2>2, NothingWaits DEF FollowInv, Bare, Landed
<1> QED
  BY <1>5, <1>6, <1>7, <1>8, <1>9, <1>10, <1>11, <1>12, <1>13, <1>14 DEF Aborting

\* Commands begin, and passes are planned.
LEMMA BeginningsFollow ==
    ASSUME ~Mixed, Inv, CommitInv, FollowInv,
           \/ \E S \in SUBSET Branch : Restack(S)
           \/ \E b \in Branch : Modify(b)
           \/ Plan
    PROVE  FollowInv'
<1>1. Types /\ Control /\ cmd \in Commands /\ owed \subseteq Branch /\ Bare /\ Landed /\ Follow
      /\ (rebase # None => cmd.pc \in {"idle", "save", "note", "unwind"})
  BY DEF Inv, Types, FollowInv, CommitInv, Faithful
<1>2. NoCommand.pc = "idle" /\ NoCommand.kind = "none" /\ NoCommand \in Commands
  BY NoCommandIs
<1>3. ASSUME cmd'.pc = "apply", Applied' PROVE Follow'
  BY <1>3 DEF Follow, Planned, Applied, Followed, Closed
<1>4. ASSUME NEW S \in SUBSET Branch, Restack(S) PROVE FollowInv'
  <2> DEFINE r == [NoCommand EXCEPT !.kind = "restack", !.from = head, !.snap = commands + 1]
  <2>1. /\ UNCHANGED <<refVars, treeVars, rebase>> /\ owed' = S /\ rebase = None
    BY <1>4 DEF Restack
  <2>2. PICK C \in Conflicting(S) : cmd' = Passing(r, S, C)
    BY <1>4 DEF Restack
  <2>3. r \in Commands /\ r.kind = "restack"
    <3>1. commands + 1 \in Id /\ head \in Place
      BY <1>1 DEF Types, Id
    <3> QED
      BY <3>1, <1>2 DEF Commands, Pcs, Kinds
  <2> HIDE DEF r
  <2>4. cmd'.pc = "apply" /\ cmd'.kind = "restack"
    BY <2>2, <2>3, PassingIs
  <2>5. Applied'
    BY <1>1, <2>1, <2>2, <2>3, PassFollows
  <2> QED
    BY <1>3, <2>1, <2>4, <2>5 DEF FollowInv, Bare, Landed
<1>5. ASSUME NEW b \in Branch, Modify(b) PROVE FollowInv'
  <2> DEFINE S == Upstack(b) \ {b}
             ret == IF head = b THEN None ELSE head
  <2>1. /\ work' = None /\ owed' = S
        /\ cmd' = [NoCommand EXCEPT !.pc = "plan", !.kind = "modify", !.from = head,
                                    !.snap = commands + 1, !.rest = S, !.ret = ret]
    BY <1>5 DEF Modify
  <2>2. S \in SUBSET Branch
    BY DEF Upstack
  <2> HIDE DEF S, ret
  <2>3. cmd'.pc = "plan" /\ cmd'.kind = "modify" /\ cmd'.rest = S
    BY <1>2, <2>1 DEF Commands
  <2>4. Follow'
    BY <2>1, <2>3 DEF Follow, Planned, Applied, Followed, Closed
  <2> QED
    BY <2>1, <2>2, <2>3, <2>4 DEF FollowInv, Bare, Landed
<1>6. CASE Plan
  <2>1. /\ UNCHANGED <<refVars, treeVars, rebase, owed>> /\ cmd.pc = "plan" /\ cmd.rest \in SUBSET Branch
    BY <1>1, <1>6 DEF Plan, diskVars, pastVars, Commands
  <2>2. PICK C \in Conflicting(cmd.rest) : cmd' = Passing(cmd, cmd.rest, C)
    BY <1>6 DEF Plan
  <2>3. cmd'.pc = "apply" /\ cmd'.kind = cmd.kind
    BY <1>1, <2>1, <2>2, PassingIs
  <2>4. CASE owed = {}
    BY <1>1, <2>1, <2>3, <2>4, NothingWaits DEF FollowInv, Bare, Landed, treeVars
  <2>5. CASE owed # {}
    <3>1. Planned
      BY <1>1, <2>5 DEF Follow
    <3>2. cmd.rest \subseteq owed
          /\ \A b \in owed \ cmd.rest : Settled(b) /\ \A c \in cmd.rest : Index(b) < Index(c)
      BY <2>1, <3>1 DEF Planned
    <3>3. Applied'
      BY <1>1, <2>1, <2>2, <3>2, PassFollows
    <3> QED
      BY <1>1, <1>3, <2>1, <2>3, <3>3 DEF FollowInv, Bare, Landed, treeVars
  <2> QED
    BY <2>4, <2>5
<1> QED
  BY <1>4, <1>5, <1>6

\* A pass goes on.
LEMMA ApplyNextFollows ==
    ASSUME Inv, CommitInv, FollowInv, ApplyNext
    PROVE  FollowInv'
<1> PICK b : b = First(cmd.todo)
  OBVIOUS
<1> DEFINE r == Replay(tip[Parent[b]], OldUpstream(b), tip[b])
           p == tip[Parent[b]]
<1>1. Types /\ Stacks /\ cmd \in Commands /\ owed \subseteq Branch /\ Bare /\ Landed /\ Follow
      /\ tip \in Tips /\ base \in Bases
  BY DEF Inv, Types, FollowInv
<1>2. /\ UNCHANGED <<treeVars, diskVars, pastVars>> /\ cmd.pc = "apply"
      /\ cmd' = [cmd EXCEPT !.todo = @ \ {b}] /\ cmd.todo # {}
      /\ IF HeldBack(b) THEN UNCHANGED refVars
         ELSE tip' = [tip EXCEPT ![b] = r] /\ base' = [base EXCEPT ![b] = p]
  BY DEF ApplyNext
<1>3. cmd.todo \in SUBSET Branch
  BY <1>1 DEF Commands
<1>4. b \in cmd.todo /\ (\A c \in cmd.todo : Index(b) <= Index(c)) /\ b \in Branch
  BY <1>2, <1>3, FirstIs
<1>5. Exists(b)
  BY <1>1, <1>4 DEF Stacks
<1>6. r \in Revision /\ p \in Revision /\ b \in Node /\ Parent[b] \in Node /\ b # Parent[b]
  BY <1>1, <1>4, <1>5, RebaseIs, LevelIs
<1>7. IsAncestor(p, r)
  <2>1. tip[b] \in Revision /\ OldUpstream(b) \in Revision /\ tip[Parent[b]] \in Revision
    BY <1>1, <1>4, <1>5, RebaseIs
  <2> QED
    BY <2>1, ReplayIs DEF Revision
<1> HIDE DEF r
<1>8. /\ cmd'.pc = "apply" /\ cmd'.kind = cmd.kind /\ cmd'.rest = cmd.rest
      /\ cmd'.todo = cmd.todo \ {b} /\ cmd'.hit = cmd.hit
  BY <1>1, <1>2 DEF Commands
<1>9. HeldBack(b)' <=> HeldBack(b)
  BY <1>2 DEF HeldBack, Held, treeVars
<1>10. Settled(b)'
  <2>1. CASE HeldBack(b)
    BY <1>9, <2>1 DEF Settled
  <2>2. CASE ~HeldBack(b)
    <3>1. tip'[b] = r /\ base'[b] = p /\ tip'[Parent[b]] = p
      BY <1>1, <1>2, <1>4, <1>6, <2>2 DEF Tips, Bases
    <3> QED
      BY <1>7, <3>1 DEF Settled, InPlace
  <2> QED
    BY <2>1, <2>2
<1>11. ASSUME NEW c \in Branch, c # b, b \notin Chain(c), Settled(c) PROVE Settled(c)'
  <2>1. tip' = tip \/ tip' = [tip EXCEPT ![b] = r]
    BY <1>2 DEF refVars
  <2>2. base' = base \/ base' = [base EXCEPT ![b] = p]
    BY <1>2 DEF refVars
  <2>3. UNCHANGED <<head, work>> /\ \A x \in Branch \ {b} : x \in shown' <=> x \in shown
    BY <1>2 DEF treeVars
  <2> HIDE DEF p
  <2> QED
    BY <1>1, <1>4, <1>11, <2>1, <2>2, <2>3, SettledBeside
<1>12. ASSUME owed # {} PROVE Applied'
  <2>1. Applied /\ owed' = owed
    BY <1>1, <1>2, <1>12 DEF Follow, pastVars
  <2>2. /\ cmd.hit # None => Waits(cmd.hit, cmd.rest)
        /\ cmd.todo \subseteq owed
        /\ \A c \in Earlier(cmd.hit) \ cmd.todo :
             Exists(c) => Settled(c) /\ Chain(c) \cap cmd.todo = {}
    BY <1>2, <2>1 DEF Applied
  <2>3. ASSUME NEW c \in Earlier(cmd.hit) \ (cmd.todo \ {b}), Exists(c)'
        PROVE  Settled(c)' /\ Chain(c) \cap (cmd.todo \ {b}) = {}
    <3>1. c \in Branch
      BY <1>1 DEF Earlier
    <3>2. CASE c = b
      <4>1. ASSUME NEW d \in Chain(b) \cap (cmd.todo \ {b}) PROVE FALSE
        <5>1. Index(d) <= Index(b) /\ Index(b) <= Index(d) /\ d \in Branch /\ d # b
          BY <1>3, <1>4, <4>1, ChainIs
        <5>2. Index(d) \in Nat /\ Index(b) \in Nat /\ Order[Index(d)] = d /\ Order[Index(b)] = b
          BY <1>4, <5>1, IndexIs
        <5> QED
          BY <5>1, <5>2
      <4> QED
        BY <1>10, <3>2, <4>1
    <3>3. CASE c # b
      <4>1. c \notin cmd.todo /\ c \in Node
        BY <3>1, <3>3, ConstantFacts
      <4>2. Exists(c)
        BY <1>1, <1>2, <1>6, <2>3, <3>3, <4>1 DEF Exists, refVars, Tips
      <4>3. Settled(c) /\ Chain(c) \cap cmd.todo = {}
        BY <2>2, <4>1, <4>2
      <4>4. b \notin Chain(c)
        BY <1>4, <4>3
      <4> QED
        BY <1>11, <3>1, <3>3, <4>3, <4>4
    <3> QED
      BY <3>2, <3>3
  <2> QED
    BY <1>8, <2>1, <2>2, <2>3 DEF Applied, Waits, Earlier
<1>13. Follow'
  BY <1>2, <1>8, <1>12 DEF Follow, Planned, Followed, Closed, pastVars
<1> QED
  BY <1>1, <1>2, <1>8, <1>13 DEF FollowInv, Bare, Landed, treeVars, diskVars, pastVars

\* A rebase stops, and is saved.
LEMMA StopsFollow ==
    ASSUME ~Mixed, Inv, CommitInv, FollowInv, Detach \/ StartRebase \/ Save \/ Note
    PROVE  FollowInv'
<1>1. Types /\ Control /\ cmd \in Commands /\ owed \subseteq Branch /\ Bare /\ Landed /\ Follow
      /\ cont \in Continuation \cup {None} /\ Faithful
      /\ (rebase # None => cmd.pc \in {"idle", "save", "note", "unwind"})
  BY DEF Inv, Types, FollowInv, CommitInv, Faithful
<1>2. NoCommand.pc = "idle" /\ NoCommand.kind = "none"
  BY NoCommandIs
<1>3. CASE Detach
  <2> DEFINE now == tip[cmd.hit]
  <2>1. /\ UNCHANGED <<refVars, work, shown, diskVars, owed>> /\ cmd.pc = "apply" /\ cmd.todo = {}
        /\ cmd.hit # None /\ cmd' = [cmd EXCEPT !.pc = "rebase", !.expected = now]
    BY <1>3 DEF Detach, pastVars
  <2> HIDE DEF now
  <2>2. cmd'.pc = "rebase" /\ cmd'.kind = cmd.kind /\ cmd'.hit = cmd.hit /\ cmd'.rest = cmd.rest
    BY <1>1, <2>1 DEF Commands
  <2>3. ASSUME owed # {} PROVE Waits(cmd.hit, cmd.rest) /\ Done(cmd.hit)
    <3>1. Applied
      BY <1>1, <2>3 DEF Follow
    <3> QED
      BY <2>1, <3>1 DEF Applied, Done, Settled
  <2>4. owed # {} /\ work = None => Done(cmd.hit)'
    <3>1. ASSUME owed # {}, work = None PROVE Done(cmd.hit)'
      <4> PICK h : h = cmd.hit
        OBVIOUS
      <4>1. Done(h)'
        BY <2>1, <2>3, <3>1, DoneStays DEF refVars
      <4> QED
        BY <2>2, <4>1
    <3> QED
      BY <3>1
  <2>5. Follow'
    BY <2>1, <2>2, <2>3, <2>4 DEF Follow, Planned, Applied, Followed, Closed, Waits
  <2> QED
    BY <1>1, <2>1, <2>2, <2>5 DEF FollowInv, Bare, Landed, diskVars
<1>4. CASE StartRebase
  <2> PICK b : b = cmd.hit
    OBVIOUS
  <2> PICK onto : onto = tip[Parent[b]]
    OBVIOUS
  <2> PICK to : to = Replay(onto, OldUpstream(b), tip[b])
    OBVIOUS
  <2> PICK rest : rest = cmd.rest
    OBVIOUS
  <2>1. /\ cmd.pc = "rebase" /\ b \in Branch /\ b \in Node /\ Exists(b)
        /\ UNCHANGED <<base, work, shown, cont, owed>> /\ rebase = None
    BY <1>1, <1>4, StartRebaseIs DEF pastVars
  <2>2. IsAncestor(onto, to)
    <3>1. tip[b] \in Revision /\ OldUpstream(b) \in Revision /\ onto \in Revision
      BY <1>1, <2>1, RebaseIs DEF Inv
    <3> QED
      BY <3>1, ReplayIs DEF Revision
  <2>3. \/ cmd' = NoCommand /\ UNCHANGED rebase
        \/ /\ work = None /\ rebase' = [of |-> b, to |-> to]
           /\ cmd' = [cmd EXCEPT !.pc = "save", !.base = onto] /\ UNCHANGED <<tip, head>>
        \/ /\ cmd' = [cmd EXCEPT !.pc = "second", !.base = onto, !.to = to] /\ UNCHANGED rebase
    BY <1>4, <2>1 DEF StartRebase, Reattach
  <2>4. CASE cmd' = NoCommand /\ UNCHANGED rebase
    BY <1>1, <1>2, <2>1, <2>4, NothingWaits DEF FollowInv, Bare, Landed
  <2>5. CASE cmd' = [cmd EXCEPT !.pc = "second", !.base = onto, !.to = to] /\ UNCHANGED rebase
    <3>1. cmd'.pc = "second" /\ cmd'.kind = cmd.kind
      BY <1>1, <2>5 DEF Commands
    <3> QED
      BY <1>1, <2>1, <2>5, <3>1, NothingWaits DEF FollowInv, Bare, Landed
  <2>6. CASE /\ work = None /\ rebase' = [of |-> b, to |-> to]
             /\ cmd' = [cmd EXCEPT !.pc = "save", !.base = onto] /\ UNCHANGED <<tip, head>>
    <3>1. /\ cmd'.pc = "save" /\ cmd'.kind = cmd.kind /\ cmd'.hit = b /\ cmd'.rest = rest
          /\ cmd'.base = onto /\ rebase'.to = to
      BY <1>1, <2>6 DEF Commands
    <3>2. ASSUME owed # {} PROVE Waits(b, rest) /\ Done(b)
      BY <1>1, <2>1, <2>6, <3>2 DEF Follow, Followed
    <3>3. owed # {} => Done(b)'
      BY <2>1, <2>6, <3>2, DoneStays
    <3>4. owed # {} => Stopped(b, rest, onto, to)'
      BY <2>1, <2>2, <2>6, <3>1, <3>2, <3>3 DEF Stopped, Waits
    <3>5. Follow'
      BY <2>1, <3>1, <3>4 DEF Follow, Planned, Applied, Followed, Closed
    <3> QED
      BY <1>1, <2>1, <2>6, <3>1, <3>5 DEF FollowInv, Bare, Landed
  <2> QED
    BY <2>3, <2>4, <2>5, <2>6
<1>5. ASSUME UNCHANGED <<refVars, treeVars, rebase, owed>>, cmd'.pc \in {"idle", "note"},
             cmd'.kind \in {cmd.kind, "none"}, cont' # None,
             owed # {} => /\ cont'.branch = rebase.of
                          /\ Stopped(cont'.branch, cont'.rest, cont'.base, rebase.to)
      PROVE  FollowInv'
  <2> PICK b, rest, onto, r : /\ b = cont'.branch /\ rest = cont'.rest /\ onto = cont'.base
                              /\ r = rebase.to
    OBVIOUS
  <2>1. owed # {} => Done(b)'
    BY <1>5, DoneStays DEF Stopped, refVars, treeVars
  <2>2. owed # {} => Stopped(b, rest, onto, r)'
    BY <1>5, <2>1 DEF Stopped, Waits, refVars
  <2>3. Follow'
    BY <1>5, <2>2 DEF Follow, Planned, Applied, Followed, Closed
  <2> QED
    BY <1>1, <1>5, <2>3 DEF FollowInv, Bare, Landed, treeVars
<1>6. CASE Save
  <2> DEFINE keep == IF cmd.kind = "continue" THEN cmd.ret ELSE None
             ex == Expected
  <2>1. /\ UNCHANGED <<refVars, treeVars, rebase, owed>> /\ cmd.pc = "save"
        /\ cont' = [branch |-> cmd.hit, rest |-> cmd.rest, base |-> cmd.base,
                    expected |-> ex, snap |-> cmd.snap, pending |-> FALSE, ret |-> keep]
        /\ cmd' \in {[cmd EXCEPT !.pc = "note"], NoCommand}
    BY <1>6 DEF Save, pastVars
  <2> HIDE DEF keep, ex
  <2>2. /\ cmd'.pc \in {"idle", "note"} /\ cmd'.kind \in {cmd.kind, "none"}
        /\ cont'.branch = cmd.hit /\ cont'.rest = cmd.rest /\ cont'.base = cmd.base
    BY <1>1, <1>2, <2>1 DEF Commands
  <2>3. cont' # None
    <3>1. /\ cmd.hit \in Branch /\ cmd.rest \in SUBSET Branch /\ cmd.base \in Revision
          /\ ex \in Revision /\ cmd.snap \in Id /\ keep \in Node \cup {None}
      BY <1>1, <2>1 DEF Control, Stopping, Commands, Place, keep, ex, Expected
    <3>2. cont' \in Continuation
      BY <2>1, <3>1 DEF Continuation
    <3> QED
      BY <3>2, ConstantFacts
  <2>4. owed # {} => rebase.of = cmd.hit /\ Stopped(cmd.hit, cmd.rest, cmd.base, rebase.to)
    BY <1>1, <2>1 DEF Follow, Followed, Faithful
  <2> QED
    BY <1>5, <2>1, <2>2, <2>3, <2>4
<1>7. CASE Note
  <2>1. /\ UNCHANGED <<refVars, treeVars, rebase, owed>> /\ cmd.pc = "note" /\ cmd' = NoCommand
        /\ cont \in Continuation /\ cont' = [cont EXCEPT !.ret = cmd.ret]
    BY <1>1, <1>7 DEF Note, Control, pastVars
  <2>2. cont'.branch = cont.branch /\ cont'.rest = cont.rest /\ cont'.base = cont.base
    BY <2>1 DEF Continuation
  <2>3. cont' # None
    <3>1. cmd.ret \in Node \cup {None}
      BY <1>1 DEF Commands
    <3>2. cont' \in Continuation
      BY <2>1, <3>1 DEF Continuation
    <3> QED
      BY <3>2, ConstantFacts
  <2>4. CASE rebase # None
    <3>1. owed # {} => cont.branch = rebase.of
                       /\ Stopped(cont.branch, cont.rest, cont.base, rebase.to)
      BY <1>1, <2>1, <2>4 DEF Follow, Followed
    <3> QED
      BY <1>2, <1>5, <2>1, <2>2, <2>3, <3>1
  <2>5. CASE rebase = None
    BY <1>1, <1>2, <2>1, <2>5, NothingWaits DEF FollowInv, Bare, Landed
  <2> QED
    BY <2>4, <2>5
<1> QED
  BY <1>3, <1>4, <1>6, <1>7

\* The branch that has stopped is finished.
LEMMA ResumingFollows ==
    ASSUME ~Mixed, Inv, CommitInv, FollowInv,
           Continue \/ UpdateBranchRef \/ ResetWorktree \/ RecordParent
    PROVE  FollowInv'
<1>1. Types /\ Control /\ cmd \in Commands /\ owed \subseteq Branch /\ Bare /\ Landed /\ Follow
      /\ tip \in Tips /\ base \in Bases
      /\ (rebase # None => cmd.pc \in {"idle", "save", "note", "unwind"})
  BY DEF Inv, Types, FollowInv, CommitInv, Faithful
<1>2. NoCommand.pc = "idle" /\ NoCommand.kind = "none" /\ NoCommand \in Commands
  BY NoCommandIs
<1>3. CASE Continue
  <2>1. /\ UNCHANGED <<refVars, treeVars, owed>> /\ Idle /\ rebase # None /\ cont # None
        /\ rebase' = None
        /\ cmd' = [NoCommand EXCEPT !.pc = "cas", !.kind = "continue", !.hit = cont.branch,
                  !.rest = cont.rest, !.snap = cont.snap, !.ret = cont.ret, !.base = cont.base,
                  !.expected = cont.expected, !.to = rebase.to]
    BY <1>3 DEF Continue
  <2>2. /\ cmd'.pc = "cas" /\ cmd'.kind = "continue" /\ cmd'.hit = cont.branch
        /\ cmd'.rest = cont.rest /\ cmd'.base = cont.base /\ cmd'.to = rebase.to
    BY <1>2, <2>1 DEF Commands
  <2> PICK b, rest, onto, r : /\ b = cont.branch /\ rest = cont.rest /\ onto = cont.base
                              /\ r = rebase.to
    OBVIOUS
  <2>3. ASSUME owed # {} PROVE Stopped(b, rest, onto, r)'
    <3>1. Stopped(b, rest, onto, r)
      BY <1>1, <2>1, <2>3 DEF Follow, Followed, Idle
    <3>2. Done(b)'
      BY <2>1, <3>1, DoneStays DEF Stopped, refVars, treeVars
    <3> QED
      BY <2>1, <3>1, <3>2 DEF Stopped, Waits, refVars
  <2>4. Follow'
    BY <2>1, <2>2, <2>3 DEF Follow, Planned, Applied, Followed, Closed
  <2> QED
    BY <1>1, <2>1, <2>2, <2>4 DEF FollowInv, Bare, Landed, treeVars
<1> PICK b, rest, onto : b = cmd.hit /\ rest = cmd.rest /\ onto = cmd.base
  OBVIOUS
<1> DEFINE Same == /\ cmd'.kind = cmd.kind /\ cmd'.hit = b /\ cmd'.rest = rest
                   /\ cmd'.base = onto
<1>4. cmd.pc \in Resuming => b \in Branch /\ b \in Node /\ b # Parent[b] /\ Parent[b] \in Node
                             /\ cmd.kind = "continue" /\ cmd.to \in Revision
  BY <1>1, ConstantFacts, LevelIs DEF Control
<1>5. CASE UpdateBranchRef /\ ~AsExpected
  <2>1. cmd.pc = "cas" /\ cmd' = NoCommand /\ UNCHANGED <<owed, work, rebase>>
    BY <1>5 DEF UpdateBranchRef, diskVars, pastVars
  <2> QED
    BY <1>1, <1>2, <2>1, NothingWaits DEF FollowInv, Bare, Landed
<1>6. CASE UpdateBranchRef /\ AsExpected
  <2> PICK to : to = cmd.to
    OBVIOUS
  <2>1. /\ UNCHANGED <<base, head, work, rebase, owed>> /\ cmd.pc = "cas"
        /\ tip' = [tip EXCEPT ![b] = to] /\ shown' = shown \ {b}
        /\ cmd' = [cmd EXCEPT !.pc = IF cmd.hit \in shown THEN "reset" ELSE "record"]
    BY <1>6 DEF UpdateBranchRef, diskVars, pastVars
  <2>2. cmd'.pc \in {"reset", "record"} /\ Same
    BY <1>1, <2>1 DEF Commands
  <2>3. b \in Branch /\ b \in Node /\ b # Parent[b] /\ Parent[b] \in Node
    BY <1>4, <2>1 DEF Resuming
  <2>4. ASSUME owed # {} PROVE Stopped(b, rest, onto, to)' /\ tip'[b] = to
    <3>1. Stopped(b, rest, onto, to)
      BY <1>1, <2>1, <2>4 DEF Follow, Followed
    <3>2. Done(b)'
      <4>1. \A x \in Branch \ {b} : x \in shown' <=> x \in shown
        BY <2>1
      <4> QED
        BY <1>1, <2>1, <2>3, <3>1, <4>1, DoneBeside DEF Stopped
    <3>3. tip'[b] = to /\ tip'[Parent[b]] = tip[Parent[b]]
      BY <1>1, <2>1, <2>3 DEF Tips
    <3> QED
      BY <2>1, <3>1, <3>2, <3>3 DEF Stopped, Waits
  <2>5. Follow'
    BY <2>1, <2>2, <2>4 DEF Follow, Planned, Applied, Followed, Closed
  <2> QED
    BY <1>1, <2>1, <2>2, <2>5 DEF FollowInv, Bare, Landed
<1>7. CASE ResetWorktree
  <2>1. /\ UNCHANGED <<tip, base, head, work, rebase, owed>> /\ cmd.pc = "reset"
        /\ shown' = shown \cup {b} /\ cmd' = [cmd EXCEPT !.pc = "record"]
    BY <1>7 DEF ResetWorktree, refVars, diskVars, pastVars
  <2>2. cmd'.pc = "record" /\ Same
    BY <1>1, <2>1 DEF Commands
  <2>3. b \in Branch
    BY <1>4, <2>1 DEF Resuming
  <2> PICK t : t = tip[b]
    OBVIOUS
  <2>4. ASSUME owed # {} PROVE Stopped(b, rest, onto, t)'
    <3>1. Stopped(b, rest, onto, t)
      BY <1>1, <2>1, <2>4 DEF Follow, Followed
    <3>2. Done(b)'
      <4>1. \A x \in Branch \ {b} : x \in shown' <=> x \in shown
        BY <2>1
      <4>2. tip' = tip \/ tip' = [tip EXCEPT ![b] = t]
        BY <2>1
      <4>3. base' = base \/ base' = [base EXCEPT ![b] = t]
        BY <2>1
      <4> QED
        BY <1>1, <2>1, <2>3, <3>1, <4>1, <4>2, <4>3, DoneBeside DEF Stopped
    <3> QED
      BY <2>1, <3>1, <3>2 DEF Stopped, Waits
  <2>5. Follow'
    BY <2>1, <2>2, <2>4 DEF Follow, Planned, Applied, Followed, Closed
  <2> QED
    BY <1>1, <2>1, <2>2, <2>5 DEF FollowInv, Bare, Landed
<1>8. CASE RecordParent
  <2>1. /\ UNCHANGED <<tip, head, work, shown, rebase, owed>> /\ cmd.pc = "record"
        /\ base' = [base EXCEPT ![b] = onto] /\ cmd' = [cmd EXCEPT !.pc = "attach"]
    BY <1>8 DEF RecordParent, Recorded, treeVars, diskVars, pastVars
  <2>2. cmd'.pc = "attach" /\ Same
    BY <1>1, <2>1 DEF Commands
  <2>3. b \in Branch /\ base'[b] = onto
    BY <1>1, <1>4, <2>1 DEF Resuming, Bases
  <2> PICK t : t = tip[b]
    OBVIOUS
  <2>4. ASSUME owed # {} PROVE Stopped(b, rest, onto, t)'
    <3>1. Stopped(b, rest, onto, t)
      BY <1>1, <2>1, <2>4 DEF Follow, Followed
    <3>2. Done(b)'
      <4>1. tip' = tip \/ tip' = [tip EXCEPT ![b] = t]
        BY <2>1
      <4>2. \A x \in Branch \ {b} : x \in shown' <=> x \in shown
        BY <2>1
      <4> QED
        BY <1>1, <2>1, <2>3, <3>1, <4>1, <4>2, DoneBeside DEF Stopped
    <3> QED
      BY <2>1, <3>1, <3>2 DEF Stopped, Waits
  <2>5. Follow'
    BY <2>1, <2>2, <2>3, <2>4 DEF Follow, Planned, Applied, Followed, Closed
  <2> QED
    BY <1>1, <2>1, <2>2, <2>5 DEF FollowInv, Bare, Landed
<1> QED
  BY <1>3, <1>5, <1>6, <1>7, <1>8

\* The rest is begun, and done.
LEMMA RestFinishes ==
    ASSUME Inv, CommitInv, FollowInv, Attach \/ Return
    PROVE  FollowInv'
<1>1. Types /\ Control /\ cmd \in Commands /\ owed \subseteq Branch /\ Bare /\ Follow
  BY DEF Inv, Types, FollowInv
<1>2. CASE Attach
  <2> PICK b : b = cmd.hit
    OBVIOUS
  <2> DEFINE h == head'
  <2>1. /\ UNCHANGED <<refVars, work, shown, rebase, owed>> /\ cmd.pc = "attach"
        /\ cmd' = [cmd EXCEPT !.pc = "plan", !.from = h, !.hit = None]
    BY <1>2 DEF Attach, diskVars, pastVars
  <2> HIDE DEF h
  <2>2. cmd'.pc = "plan" /\ cmd'.kind = cmd.kind /\ cmd'.rest = cmd.rest
    BY <1>1, <2>1 DEF Commands
  <2>3. b \in Branch /\ cmd.kind = "continue" /\ work = None
    BY <1>1, <2>1 DEF Control, Resuming, Bare
  <2>4. ASSUME owed # {} PROVE Planned'
    <3>1. Waits(b, cmd.rest) /\ Done(b) /\ cmd.base = tip[Parent[b]] /\ IsAncestor(cmd.base, tip[b])
          /\ base[b] = cmd.base
      BY <1>1, <2>1, <2>4 DEF Follow, Followed, Stopped
    <3>2. \A c : Settled(c) => Settled(c)'
      BY <2>1, <2>3, SettledStays DEF refVars
    <3>3. ASSUME NEW c \in owed \ cmd.rest
          PROVE  Settled(c)' /\ \A d \in cmd.rest : Index(c) < Index(d)
      <4>1. /\ Index(c) \in Nat /\ Index(b) \in Nat /\ Order[Index(c)] = c /\ Order[Index(b)] = b
            /\ \A d \in owed : Index(d) \in Nat
        BY <1>1, <2>3, IndexIs
      <4>2. ~(Index(c) > Index(b)) /\ \A d \in cmd.rest : d \in owed /\ Index(d) > Index(b)
        BY <3>1 DEF Waits, After
      <4>3. \A d \in cmd.rest : Index(c) < Index(d)
        BY <4>1, <4>2
      <4>4. CASE c = b
        BY <3>1, <3>2, <4>3, <4>4 DEF Settled, InPlace
      <4>5. CASE c # b
        <5>1. Index(c) < Index(b)
          BY <4>1, <4>2, <4>5
        <5> QED
          BY <3>1, <3>2, <4>3, <5>1 DEF Done, Earlier
      <4> QED
        BY <4>4, <4>5
    <3>4. cmd.rest \subseteq owed
      BY <3>1 DEF Waits, After
    <3> QED
      BY <2>1, <2>2, <3>3, <3>4 DEF Planned
  <2>5. Follow'
    BY <2>1, <2>2, <2>4 DEF Follow, Planned, Applied, Followed, Closed
  <2> QED
    BY <1>1, <2>1, <2>2, <2>3, <2>5 DEF FollowInv, Bare, Landed
<1>3. CASE Return
  <2>1. /\ UNCHANGED <<refVars, work, shown, rebase, owed>> /\ cmd.pc = "apply" /\ cmd.todo = {}
        /\ cmd.hit = None /\ cmd.kind = "continue" /\ cmd' = [cmd EXCEPT !.pc = "clear"]
    BY <1>3 DEF Return, diskVars, pastVars
  <2>2. cmd'.pc = "clear" /\ cmd'.kind = "continue"
    BY <1>1, <2>1 DEF Commands
  <2>3. head' # None
    BY <1>3, ConstantFacts DEF Return, Landing
  <2>4. ASSUME owed # {} PROVE Done(None)'
    <3>1. Applied
      BY <1>1, <2>4 DEF Follow
    <3>2. Done(None)
      BY <2>1, <3>1 DEF Applied, Done, Earlier, Settled
    <3> QED
      BY <1>1, <2>1, <3>2, DoneStays DEF Bare, refVars
  <2>5. Follow'
    BY <2>1, <2>2, <2>4 DEF Follow, Planned, Applied, Followed, Closed
  <2> QED
    BY <1>1, <2>1, <2>2, <2>3, <2>5 DEF FollowInv, Bare, Landed
<1> QED
  BY <1>2, <1>3

LEMMA FollowInvStep ==
    ASSUME ~Mixed, Inv, CommitInv, FollowInv, [Next]_vars
    PROVE  FollowInv'
<1>1. CASE Running
  BY <1>1, OthersFollow, BeginningsFollow, ApplyNextFollows, StopsFollow, ResumingFollows,
     RestFinishes DEF Running
<1>2. CASE Aborting \/ Crash \/ ContinueNothing \/ Continue
  BY <1>2, OthersFollow, ResumingFollows
<1>3. CASE Users
  BY <1>3, OthersFollow DEF Users
<1>4. ASSUME NEW S \in {Branch} \cup {Upstack(b) : b \in Branch}, Restack(S)
      PROVE  FollowInv'
  <2>1. S \in SUBSET Branch
    BY DEF Upstack
  <2> QED
    BY <1>4, <2>1, BeginningsFollow
<1>5. CASE \E b \in Branch : Modify(b)
  BY <1>5, BeginningsFollow
<1>6. CASE \E id \in 1 .. MaxCommands : Undo(id)
  BY <1>6, OthersFollow
<1>7. CASE UNCHANGED vars
  <2>1. UNCHANGED <<tip, base, head, work, shown, rebase, cont, cmd, owed>>
    BY <1>7 DEF vars, refVars, treeVars, diskVars, pastVars
  <2>2. (\A b : Settled(b) => Settled(b)') /\ (\A x : Done(x) => Done(x)')
    BY <2>1, SettledStays, DoneStays
  <2>3. \A b, rest, onto, r : Stopped(b, rest, onto, r) => Stopped(b, rest, onto, r)'
    BY <2>1, <2>2 DEF Stopped, Waits
  <2>4. Planned => Planned'
    BY <2>1, <2>2 DEF Planned
  <2>5. Applied => Applied'
    BY <2>1, <2>2 DEF Applied, Waits, Earlier, Exists
  <2>6. Followed => Followed'
    BY <2>1, <2>2, <2>3 DEF Followed, Waits
  <2>7. Closed => Closed'
    BY <2>1, <2>2 DEF Closed
  <2> QED
    BY <2>1, <2>4, <2>5, <2>6, <2>7 DEF FollowInv, Bare, Landed, Follow
<1> QED
  BY <1>1, <1>2, <1>3, <1>4, <1>5, <1>6, <1>7 DEF Next

\* When continue is done, every branch the command was asked for is on its
\* parent's tip, and HEAD is on a branch: however many rebases have stopped, and
\* whichever worktrees hold branches back (continue.go).  It is said of people
\* who do not restack while a rebase is stopped: a second restack's conflict
\* would be taken for the first one's.
THEOREM RestAlwaysFollows ==
    ASSUME ~Mixed
    PROVE  Spec => []RestFollows
<1>1. Init => FollowInv
  <2>1. NoCommand.kind = "none"
    BY NoCommandIs
  <2> QED
    BY <2>1 DEF Init, FollowInv, Bare, Landed, Follow
<1>2. ASSUME FollowInv PROVE RestFollows
  BY <1>2 DEF FollowInv, Landed, Follow, Closed, RestFollows, Done, Earlier, Settled
<1>3. ASSUME Inv, CommitInv, [Next]_vars PROVE CommitInv'
  BY <1>3, CommitInvStep
<1>4. ASSUME Inv, CommitInv, FollowInv, [Next]_vars PROVE FollowInv'
  BY <1>4, FollowInvStep
<1> QED
  BY <1>1, <1>2, <1>3, <1>4, FirstInv, FirstCommits, InvStep, PTL DEF Spec

=============================================================================
