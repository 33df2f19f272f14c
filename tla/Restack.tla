------------------------------- MODULE Restack -------------------------------
(***************************************************************************)
(* A restack over commits that users keep adding.                          *)
(*                                                                         *)
(* A pass plans from what the branches look like, rebases them in scratch  *)
(* worktrees, which takes long and touches no ref, then moves the refs one *)
(* by one and resets the worktrees that have them checked out.  Meanwhile  *)
(* people commit, amend, edit and create files in those worktrees, trunk   *)
(* advances, pull requests land, and the process can die.                  *)
(*                                                                         *)
(* Locks on metadata refs are the subject of MetadataStore.                *)
(***************************************************************************)
EXTENDS Naturals, FiniteSets, Revisions

CONSTANTS Branch, Trunk, None,
          Order,         \* the branches, parents before children
          Shapes,        \* the parents branches may have at first
          Kinds,         \* their kinds: plain, locked, frozen or anchor
          CheckedOut,    \* branches that have a worktree
          MaxPatches,    \* bound on the patches users make
          MaxEdits,      \* bound on edits and files they leave uncommitted
          MaxConflicts,  \* bound on rebases that conflict
          MaxTroubles,   \* bound on edits, conflicts and crashes together
          MaxCrashes

Node == Branch \cup {Trunk}
Patch == [home : Node, n : 0 .. MaxPatches]
Revision == Seq(Patch)

ASSUME ConstantsAssumption ==
    /\ Trunk \notin Branch /\ None \notin Node /\ None \notin Revision
    /\ Order \in Seq(Branch) /\ ToSet(Order) = Branch
    /\ Shapes \subseteq [Branch -> Node]
    /\ \A s \in Shapes, i \in DOMAIN Order :
          s[Order[i]] \in {Trunk} \cup {Order[j] : j \in 1 .. i - 1}
    /\ Kinds \subseteq [Branch -> {"plain", "locked", "frozen", "anchor"}]
    /\ CheckedOut \subseteq Branch
    /\ {MaxPatches, MaxEdits, MaxConflicts, MaxTroubles, MaxCrashes} \subseteq Nat

VARIABLES tip,        \* refs/heads: per branch its revision
          parent,     \* metadata: its parent
          base,       \* metadata: its parentBranchRevision
          kind,       \* metadata: what kind of branch it is
          merged,     \* branches whose pull request is merged
          remote,     \* refs/remotes, of frozen branches
          wt,         \* per worktree: the revision its files are those of
          edited,     \* worktrees with uncommitted changes of tracked files
          file,       \* per worktree: an untracked file, as the patch that
                      \* creates a file of its name
          phase,      \* of the pass
          scope,      \* the branches it was asked to restack
          mem,        \* parents in the engine's memory
          item,       \* RestackPlan.Items
          newRev,     \* RebaseValidation.NewSHAs
          failed,     \* branches in conflict, or blocked by one
          report,     \* the pass reports conflicts (ConflictContinue)
          snap,       \* restackSnapshot.revs
          held,       \* restackSnapshot.heldReasons, of branches to apply
          files,      \* restackSnapshot.untrackedByWorktree
          todo,       \* branches left to apply
          stale,      \* the branch whose worktree is to be reset
          alive,      \* per branch: the patches its users want on it
          late,       \* patches made between a validation and its application
          was,        \* per branch: every revision it has had
          moved,      \* branches the pass has moved
          fresh,      \* worktrees touched since the pass has inspected them
          calm,       \* nobody else has moved a branch since the pass began
          made, edits, conflicts, crashes

gitVars  == <<tip, parent, base, kind, merged, remote>>
treeVars == <<wt, edited, file>>
planVars == <<scope, mem, item, newRev, failed, report>>
passVars == <<phase, planVars, snap, held, files, todo, stale>>
pastVars == <<alive, late, was, moved, fresh, calm>>
counters == <<made, edits, conflicts, crashes>>
vars == <<gitVars, treeVars, passVars, pastVars, counters>>

-----------------------------------------------------------------------------
(* Branches.                                                               *)

\* branchLanded: the pull request is merged, or trunk has every commit of it.
Landed(b, target) ==
    b \in merged \/ (target = Trunk /\ ToSet(tip[b]) \subseteq ToSet(tip[Trunk]))

IsAnchor(x) == x # Trunk /\ kind[x] = "anchor"

\* b and the branches below it, as the engine remembers them.
Chain(b) == LET up[x \in Node] == IF x = Trunk THEN {} ELSE {x} \cup up[mem[x]] IN up[b]

Depth(b) == Cardinality(Chain(b))

\* The branch on trunk that b is stacked on.
Root(b) == CHOOSE r \in Chain(b) : mem[r] = Trunk

-----------------------------------------------------------------------------
(* The plan.                                                               *)

Skip == [act |-> "skip", onto |-> None, old |-> None, to |-> None, pin |-> None, rev |-> None]

\* An anchor follows trunk, a frozen branch its remote branch.
AnchorItem(b) ==
    IF tip[b] = tip[Trunk] THEN Skip
    ELSE [Skip EXCEPT !.act = "anchor", !.onto = Trunk, !.to = tip[Trunk], !.rev = tip[Trunk]]

FrozenItem(b) ==
    IF tip[b] = remote[b] THEN Skip
    ELSE [Skip EXCEPT !.act = "frozen", !.onto = parent[b], !.to = remote[b],
                      !.rev = tip[parent[b]]]

\* shouldReparentBranch: children do not stay on a branch that has landed,
\* unless it is an anchor.
Abandoned(p) == p # Trunk /\ ~IsAnchor(p) /\ Landed(p, parent[p])

\* findNearestValidAncestor.
NearestValid(b) ==
    LET up[p \in Node] == IF Abandoned(p) THEN up[parent[p]] ELSE p IN up[parent[b]]

\* Where a branch on p belongs: on trunk's tip, if p is an anchor.
BaseOf(p) == IF IsAnchor(p) THEN tip[Trunk] ELSE tip[p]

\* Where the branch's own commits begin: at the recorded revision of its
\* parent, if the branch still contains that; an anchor's is never used.
OldUpstream(b, p) ==
    IF ~IsAnchor(p) /\ IsAncestor(base[b], tip[b]) THEN base[b]
    ELSE MergeBase(tip[b], BaseOf(p))

\* What moves in this pass, and takes its children along.
Moving == {"anchor", "frozen", "rebase"}

\* A plain branch that is to sit on p, when above is what is planned for p.
PlainItem(b, p, above) ==
    LET old    == OldUpstream(b, p)
        placed == old = BaseOf(p) /\ p = parent[b] /\ above.act \notin Moving
    IN [act  |-> CASE ~placed                    -> "rebase"
                   [] placed /\ base[b] # old    -> "record"
                   [] placed /\ base[b] = old    -> "skip",
        onto |-> p, old |-> old, to |-> None, rev |-> BaseOf(p),
        pin  |-> IF above.to # None THEN above.to
                 ELSE IF tip[p] # BaseOf(p) THEN BaseOf(p) ELSE None]

\* What is planned for b, when above is what is planned for the branch below.
ItemOf(b, above) ==
    CASE kind[b] = "anchor" -> AnchorItem(b)
      [] kind[b] = "frozen" -> FrozenItem(b)
      [] kind[b] = "plain"  -> PlainItem(b, NearestValid(b), above)

\* PlanRestack of the branches S.
PlanOf(S) ==
    LET none(b) == \/ b \notin S \/ kind[b] = "locked"
                   \/ kind[b] # "anchor" /\ Landed(b, parent[b])
        plan[b \in Node] ==
            IF none(b) THEN Skip ELSE ItemOf(b, plan[NearestValid(b)])
    IN [b \in Branch |-> plan[b]]
-----------------------------------------------------------------------------
NoRevs == [b \in Branch |-> None]

Init ==
    /\ parent \in Shapes /\ kind \in Kinds
    /\ tip = LET at[b \in Node] ==
                     IF b = Trunk THEN <<[home |-> Trunk, n |-> 0]>>
                     ELSE IF IsAnchor(b) THEN at[parent[b]]
                     ELSE Append(at[parent[b]], [home |-> b, n |-> 0])
             IN at
    /\ base = [b \in Branch |-> tip[parent[b]]]
    /\ merged = {}
    /\ remote = [b \in Branch |-> tip[b]]
    /\ wt = [b \in CheckedOut |-> tip[b]]
    /\ edited = {}
    /\ file = [b \in CheckedOut |-> None]
    /\ phase = "idle" /\ scope = {} /\ mem = parent
    /\ item = [b \in Branch |-> Skip]
    /\ newRev = NoRevs /\ failed = {} /\ report = FALSE
    /\ snap = tip /\ held = {} /\ files = file /\ todo = {} /\ stale = None
    /\ alive = [b \in Branch |-> IF IsAnchor(b) THEN {} ELSE {[home |-> b, n |-> 0]}]
    /\ late = {}
    /\ was = [x \in Node |-> {tip[x]}]
    /\ moved = {} /\ fresh = {} /\ calm = TRUE
    /\ made = 0 /\ edits = 0 /\ conflicts = 0 /\ crashes = 0

-----------------------------------------------------------------------------
(* The pass.                                                               *)

\* Branches whose rebase is still to be tried.
Pending == {b \in Branch : item[b].act = "rebase" /\ newRev[b] = None /\ b \notin failed}

\* The command is over, one way or the other.
Over ==
    /\ phase' = "idle" /\ scope' = {} /\ mem' = parent'
    /\ item' = [b \in Branch |-> Skip]
    /\ newRev' = NoRevs /\ failed' = {} /\ report' = FALSE
    /\ snap' = tip' /\ held' = {} /\ files' = [b \in CheckedOut |-> None]
    /\ todo' = {} /\ stale' = None

\* PlanRestack, by a process that has just loaded the metadata.
Plan(S) ==
    /\ phase = "idle"
    /\ phase' = "validate"
    /\ scope' = S /\ mem' = parent /\ item' = PlanOf(S)
    /\ late' = {} /\ moved' = {} /\ calm' = TRUE
    /\ UNCHANGED <<gitVars, treeVars, newRev, failed, report, snap, held, files, todo, stale,
                   alive, was, fresh, counters>>

\* What a trial rebase replays onto: the revision the plan gives, the revision
\* an earlier trial has made of the parent, or the parent as it is now.
Onto(b) ==
    LET p == item[b].onto
    IN IF item[b].pin # None THEN item[b].pin
       ELSE IF p # Trunk /\ newRev[p] # None THEN newRev[p] ELSE tip[p]

\* The trial rebase of a branch, level by level.  It can conflict, which
\* blocks the branches above.
ValidateSpec(b) ==
    /\ phase = "validate" /\ b \in Pending
    /\ \A c \in Pending : Depth(b) <= Depth(c)
    /\ \/ /\ Chain(b) \cap failed = {}
          /\ newRev' = [newRev EXCEPT ![b] = Replay(Onto(b), item[b].old, tip[b])]
          /\ UNCHANGED <<failed, conflicts>>
       \/ /\ Chain(b) \cap failed = {}
          /\ conflicts < MaxConflicts /\ edits + conflicts + crashes < MaxTroubles
          /\ failed' = failed \cup {b}
          /\ conflicts' = conflicts + 1
          /\ UNCHANGED newRev
       \/ /\ Chain(b) \cap failed # {}
          /\ failed' = failed \cup {b}
          /\ UNCHANGED <<newRev, conflicts>>
    /\ UNCHANGED <<gitVars, treeVars, phase, scope, mem, item, report, snap, held, files, todo,
                   stale, pastVars, made, edits, crashes>>

\* classifyValidatedBranches.
Applicable ==
    {b \in scope : item[b].act \in {"anchor", "frozen", "record"} \/ newRev[b] # None}

\* Mutant: whatever validated is applied.
KeptWholeAll == Applicable

\* holdBackConflictedStacks: of a stack with a conflict nothing is applied.
KeptWhole == {b \in Applicable : \A f \in failed : Root(b) # Root(f)}

\* Execute, and the beginning of restackBranches: the branches to apply are
\* known, and the revisions they have now are read.
Collect ==
    /\ phase = "validate" /\ Pending = {}
    /\ \E r \in BOOLEAN : /\ report' = r
                          /\ todo' = IF r THEN KeptWhole ELSE Applicable
    /\ phase' = "inspect"
    /\ snap' = tip
    /\ UNCHANGED <<gitVars, treeVars, scope, mem, item, newRev, failed, held, files, stale,
                   pastVars, counters>>

\* Mutant: only what is checked out is compared.
ChangedHead == {b \in CheckedOut : wt[b] # tip[b]}

\* Worktrees that git status reports changes of tracked files in.
Changed == {b \in CheckedOut : b \in edited \/ wt[b] # tip[b]}

\* The worktrees are inspected.  A changed one holds its branch; in a clean one
\* the untracked files are noted.
Inspect ==
    /\ phase = "inspect"
    /\ phase' = "apply"
    /\ held' = Changed \cap todo
    /\ files' = [b \in CheckedOut |-> IF b \in Changed THEN None ELSE file[b]]
    /\ fresh' = {}
    /\ UNCHANGED <<gitVars, treeVars, planVars, snap, todo, stale,
                   alive, late, was, moved, calm, counters>>

\* Mutant: a held branch does not hold what is stacked on it.
HeldBackItself(b) == b \in held

\* branchHeldBack: the branch or one below it is held.
HeldBack(b) == Chain(b) \cap held # {}

\* Mutant: the branch's own tree is looked at.
CollidesOwn(b) ==
    b \in CheckedOut /\ files[b] # None /\ files[b] \in ToSet(tip[b])

\* untrackedCollisionHold: a file in the branch's worktree has the name of one
\* that the branch's parent has now.
Collides(b) ==
    b \in CheckedOut /\ files[b] # None /\ files[b] \in ToSet(tip[mem[b]])

\* b is the next branch to apply.
Turn(b) ==
    /\ phase = "apply" /\ stale = None /\ b \in todo
    /\ \E i \in DOMAIN Order : Order[i] = b /\ \A j \in 1 .. i - 1 : Order[j] \notin todo

HoldBack(b) ==
    /\ Turn(b) /\ (HeldBack(b) \/ Collides(b))
    /\ held' = IF HeldBack(b) THEN held ELSE held \cup {b}
    /\ todo' = todo \ {b}
    /\ UNCHANGED <<gitVars, treeVars, phase, planVars, snap, files, stale, pastVars, counters>>

Free(b) == Turn(b) /\ ~HeldBack(b) /\ ~Collides(b)

\* The parent revision that is recorded with a move: the revision made of the
\* parent, or the one read before the first move.
Recorded(b) ==
    LET p == item[b].onto
    IN IF item[b].act # "rebase" THEN item[b].rev
       ELSE IF p # Trunk /\ newRev[p] # None THEN newRev[p] ELSE snap[p]

\* Mutant: the reference is moved whatever it is.
AsReadAny(b) == TRUE

\* The branch is what it was when the pass collected the revisions.
AsRead(b) == tip[b] = snap[b]

\* Mutant: only a rebase is followed by a reset.
ToResetRebased(b) == IF b \in CheckedOut /\ item[b].act = "rebase" THEN b ELSE None

\* The branch whose worktree is reset next, once b has moved.
ToReset(b) == IF b \in CheckedOut THEN b ELSE None

\* Where the branch moves to.
Target(b) == IF item[b].act = "rebase" THEN newRev[b] ELSE item[b].to

\* applyBranchAndMetadata: the branch and its metadata move together.
UpdateRefs(b) ==
    /\ Free(b) /\ item[b].act \in Moving /\ AsRead(b)
    /\ tip' = [tip EXCEPT ![b] = Target(b)]
    /\ was' = [was EXCEPT ![b] = @ \cup {Target(b)}]
    /\ moved' = moved \cup {b}
    /\ base' = [base EXCEPT ![b] = Recorded(b)]
    /\ parent' = IF item[b].act = "rebase" THEN [parent EXCEPT ![b] = item[b].onto] ELSE parent
    /\ snap' = [snap EXCEPT ![b] = Target(b)]
    /\ stale' = ToReset(b)
    /\ todo' = todo \ {b}
    /\ UNCHANGED <<kind, merged, remote, treeVars, phase, planVars, held, files,
                   alive, late, fresh, calm, counters>>

\* Someone has moved the branch: the command fails.
UpdateRefsFails(b) ==
    /\ Free(b) /\ item[b].act \in Moving /\ ~AsRead(b)
    /\ UNCHANGED <<gitVars, treeVars, pastVars, counters>>
    /\ Over

\* applyMetadataRefresh: only the record is corrected.
MetadataRefresh(b) ==
    /\ Free(b) /\ item[b].act = "record"
    /\ base' = [base EXCEPT ![b] = item[b].rev]
    /\ todo' = todo \ {b}
    /\ UNCHANGED <<tip, parent, kind, merged, remote, treeVars, phase, planVars, snap, held,
                   files, stale, pastVars, counters>>

\* git reset --hard in the worktree of the branch that has moved.  It writes
\* over changes and over files with names of the incoming commit.
ResetWorktree ==
    LET b == stale
    IN /\ stale # None
       /\ wt' = [wt EXCEPT ![b] = tip[b]]
       /\ edited' = edited \ {b}
       /\ file' = [file EXCEPT ![b] = IF @ # None /\ @ \in ToSet(tip[b]) THEN None ELSE @]
       /\ stale' = None
       /\ UNCHANGED <<gitVars, phase, planVars, snap, held, files, todo, pastVars, counters>>

Finish ==
    /\ phase = "apply" /\ todo = {} /\ stale = None
    /\ UNCHANGED <<gitVars, treeVars, pastVars, counters>>
    /\ Over

\* The process dies, or the command is cancelled.
Crash ==
    /\ phase # "idle"
    /\ crashes < MaxCrashes /\ edits + conflicts + crashes < MaxTroubles
    /\ crashes' = crashes + 1
    /\ UNCHANGED <<gitVars, treeVars, pastVars, made, edits, conflicts>>
    /\ Over

-----------------------------------------------------------------------------
(* Everybody else.                                                         *)

NewPatch(x) == [home |-> x, n |-> made + 1]

\* A patch is made on x; x becomes r.
Make(x, r) ==
    /\ made < MaxPatches /\ made' = made + 1
    /\ tip' = [tip EXCEPT ![x] = r]
    /\ was' = [was EXCEPT ![x] = @ \cup {r}]
    /\ late' = IF phase = "validate" THEN late \cup {NewPatch(x)} ELSE late
    /\ calm' = FALSE
    /\ UNCHANGED <<parent, base, kind, passVars, moved, fresh, edits, conflicts, crashes>>

\* Users commit where the files are those of the branch.
InUse(b) == kind[b] = "plain" /\ b \notin merged /\ (b \in CheckedOut => wt[b] = tip[b])

Commit(b) ==
    /\ InUse(b)
    /\ Make(b, Append(tip[b], NewPatch(b)))
    /\ alive' = [alive EXCEPT ![b] = @ \cup {NewPatch(b)}]
    /\ wt' = [x \in CheckedOut |-> IF x = b THEN tip'[b] ELSE wt[x]]
    /\ edited' = edited \ {b}
    /\ UNCHANGED <<merged, remote, file>>

Amend(b) ==
    /\ InUse(b) /\ tip[b] # <<>> /\ Last(tip[b]) \in alive[b]
    /\ Make(b, Append(Front(tip[b]), NewPatch(b)))
    /\ alive' = [alive EXCEPT ![b] = (@ \ {Last(tip[b])}) \cup {NewPatch(b)}]
    /\ wt' = [x \in CheckedOut |-> IF x = b THEN tip'[b] ELSE wt[x]]
    /\ edited' = edited \ {b}
    /\ UNCHANGED <<merged, remote, file>>

AdvanceTrunk ==
    /\ Make(Trunk, Append(tip[Trunk], NewPatch(Trunk)))
    /\ UNCHANGED <<merged, remote, treeVars, alive>>

\* A pull request lands as one commit, and sync learns of it.
LandSquashed(b) ==
    /\ kind[b] = "plain" /\ parent[b] = Trunk /\ ~Landed(b, Trunk)
    /\ Make(Trunk, Append(tip[Trunk], NewPatch(Trunk)))
    /\ merged' = merged \cup {b}
    /\ UNCHANGED <<remote, treeVars, alive>>

\* A branch lands commit by commit, without a pull request on record.
LandRebased(b) ==
    /\ kind[b] = "plain" /\ parent[b] = Trunk /\ ~Landed(b, Trunk)
    /\ Make(Trunk, Replay(tip[Trunk], tip[Trunk], tip[b]))
    /\ UNCHANGED <<merged, remote, treeVars, alive>>

\* Whoever works on a frozen branch pushes, and it is fetched.
RemoteAdvances(b) ==
    /\ kind[b] = "frozen" /\ made < MaxPatches
    /\ \E r \in {remote[b], Front(remote[b])} :
         remote' = [remote EXCEPT ![b] = Append(r, NewPatch(b))]
    /\ made' = made + 1 /\ calm' = FALSE
    /\ UNCHANGED <<tip, parent, base, kind, merged, treeVars, passVars,
                   alive, late, was, moved, fresh, edits, conflicts, crashes>>

Touch(b) ==
    /\ b \in CheckedOut /\ wt[b] = tip[b]
    /\ edits < MaxEdits /\ edits + conflicts + crashes < MaxTroubles
    /\ edits' = edits + 1
    /\ fresh' = fresh \cup {b}
    /\ UNCHANGED <<gitVars, wt, passVars, alive, late, was, moved, calm, made, conflicts, crashes>>

Edit(b) == Touch(b) /\ edited' = edited \cup {b} /\ UNCHANGED file

\* An untracked file, of a name that is used on another branch.  (A name that
\* the branch uses itself is tracked.)
NewFile(b) ==
    /\ Touch(b) /\ file[b] = None
    /\ \E p \in [home : Node \ {b}, n : 0 .. MaxPatches] \ ToSet(tip[b]) :
         file' = [file EXCEPT ![b] = p]
    /\ UNCHANGED edited

-----------------------------------------------------------------------------
\* The branches a command restacks: all, or one and those above it.
Scopes ==
    {Branch} \cup {{b \in Branch : a \in Chain(b)} : a \in Branch}

Passing ==
    \/ \E b \in Branch : \/ ValidateSpec(b) \/ HoldBack(b) \/ UpdateRefs(b)
                         \/ UpdateRefsFails(b) \/ MetadataRefresh(b)
    \/ Collect \/ Inspect \/ ResetWorktree \/ Finish

Users ==
    \/ AdvanceTrunk
    \/ \E b \in Branch : \/ Commit(b) \/ Amend(b) \/ LandSquashed(b) \/ LandRebased(b)
                         \/ RemoteAdvances(b) \/ Edit(b) \/ NewFile(b)

Next == (\E S \in Scopes : Plan(S)) \/ Passing \/ Crash \/ Users

Spec == Init /\ [][Next]_vars

\* A command that has begun goes on, and somebody keeps restacking everything.
FairSpec == Spec /\ WF_vars(Passing) /\ SF_vars(Plan(Branch))

-----------------------------------------------------------------------------
(* Correctness.                                                            *)

TypeOK ==
    /\ tip \in [Node -> Revision] /\ remote \in [Branch -> Revision]
    /\ parent \in [Branch -> Node] /\ mem \in [Branch -> Node]
    /\ base \in [Branch -> Revision] /\ kind \in Kinds /\ merged \subseteq Branch
    /\ wt \in [CheckedOut -> Revision] /\ edited \subseteq CheckedOut
    /\ file \in [CheckedOut -> Patch \cup {None}] /\ files \in [CheckedOut -> Patch \cup {None}]
    /\ phase \in {"idle", "validate", "inspect", "apply"}
    /\ newRev \in [Branch -> Revision \cup {None}] /\ snap \in [Node -> Revision]
    /\ failed \subseteq scope /\ todo \subseteq scope /\ held \subseteq scope
    /\ stale \in CheckedOut \cup {None}
    /\ \A b \in Branch : item[b].act # "skip" => b \in scope

\* A commit that is on a branch stays there whatever a restack does, unless it
\* was made after the branch's trial rebase and before the refs were read.
\* (Those are lost: the update demands the tip that was read.)
CommitsStay ==
    [][\A b \in Branch : kind[b] = "plain"
           => ((alive[b] \cap alive'[b]) \ late) \cap ToSet(tip[b]) \subseteq ToSet(tip'[b])]_vars

\* The recorded base of a branch is a revision its parent has really had (or
\* trunk, where the parent is an anchor): no restack records a parent that was
\* held back, failed to move, or only existed in a scratch worktree.
ParentRevisionsAreReal ==
    \A b \in Branch :
        base[b] \in was[parent[b]] \cup (IF IsAnchor(parent[b]) THEN was[Trunk] ELSE {})

\* The same, with the types.
Coherent == TypeOK /\ ParentRevisionsAreReal

\* Changes that are there when a pass looks at a worktree are never discarded.
EditsSurvive ==
    [][\A b \in edited \ edited' : tip'[b] = tip[b] => b \in fresh]_vars

\* Between commands every worktree shows its branch, unless one was killed.
WorktreesFollow ==
    phase = "idle" /\ crashes = 0 => \A b \in CheckedOut : wt[b] = tip[b]

\* A pass that reports conflicts leaves no stack half moved: when a branch has
\* moved, those on it have followed, unless their worktrees hold them back.
StacksMoveWhole ==
    phase = "apply" /\ todo = {} /\ stale = None /\ report /\ calm
    => \A b \in scope :
         LET p == parent[b]
         IN /\ kind[b] = "plain" /\ ~Landed(b, p) /\ ~HeldBack(b)
            /\ p \in moved
            => IsAncestor(tip[p], tip[b])

\* Restacking again and again brings every branch whose worktrees are clean to
\* its parent's tip, and its record too.
InPlace(b) == LET p == parent[b] IN IsAncestor(BaseOf(p), tip[b]) /\ base[b] = BaseOf(p)

Clean(b) == \A x \in Chain(b) \cap CheckedOut : x \notin edited /\ file[x] = None /\ wt[x] = tip[x]

StacksConverge ==
    \A b \in Branch : <>[](kind[b] = "plain" /\ ~Landed(b, parent[b]) /\ Clean(b))
                      => <>[]InPlace(b)

\* An untracked file that is there when a pass looks at a worktree is not
\* overwritten by what the pass checks out there, where the names that come in
\* are those of the parent the engine remembers.  (A branch that changes its
\* parent, a frozen one and one on an anchor receive other names, which
\* untrackedCollisionHold does not look at.)
FilesStay ==
    [][\A b \in CheckedOut : file[b] # None /\ file'[b] = None /\ calm
          => \/ b \in fresh \/ kind[b] = "frozen"
             \/ item[b].onto # mem[b] \/ IsAnchor(mem[b])]_vars
=============================================================================
