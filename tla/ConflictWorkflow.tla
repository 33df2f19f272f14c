-------------------------- MODULE ConflictWorkflow --------------------------
(***************************************************************************)
(* A command that stops at a conflict, and what follows: continue, abort,  *)
(* undo, git itself, and other work in between.                            *)
(*                                                                         *)
(* A restack moves the branches that rebase cleanly, leaves the repository *)
(* in the middle of the rebase of the first one that does not, and saves   *)
(* a continuation.  stackit continue finishes that rebase and the rest;    *)
(* stackit abort returns to the snapshot the command has taken.  Rebase,   *)
(* continuation and refs are three pieces of state that no lock joins.     *)
(*                                                                         *)
(* How a pass plans and applies is the subject of Restack: here it is a    *)
(* choice of the branches that conflict, and one step per branch.          *)
(***************************************************************************)
EXTENDS Naturals, FiniteSets, Revisions

CONSTANTS Branch, Trunk, None,
          Order,         \* the branches, parents before children
          Parent,        \* per branch its parent
          Created,       \* branches that are created later
          Elsewhere,     \* branches checked out in worktrees of their own
          Mixed,         \* people restack while a rebase is stopped, and
                         \* continue one with the continuation of another
          Depths,        \* undo.depth: how many snapshots may be kept
          MaxCommands,   \* bound on restack, modify, create and undo
          MaxPatches,    \* bound on the patches users make
          MaxConflicts,  \* bound on rebases that conflict
          MaxHand,       \* bound on rebases finished or aborted with git
          MaxCrashes,
          MaxTroubles    \* bound on conflicts, crashes and rebases ended with git

Node == Branch \cup {Trunk}
Patch == [home : Node, n : 0 .. MaxPatches]
Revision == Seq(Patch)

\* git's rebase in progress; the continuation that is saved for it.
Id           == Nat \cup {None}
Rebase       == [of : Branch, to : Revision]
Continuation == [branch : Branch, rest : SUBSET Branch, base : Revision, expected : Revision,
                 snap : Id, pending : BOOLEAN, ret : Node \cup {None}]

ASSUME ConstantsAssumption ==
    /\ Trunk \notin Branch /\ None \notin Node /\ None \notin Revision /\ None \notin Nat
    /\ None \notin Rebase /\ None \notin Continuation
    /\ Order \in Seq(Branch) /\ ToSet(Order) = Branch
    /\ Parent \in [Branch -> Node]
    /\ \A i, j \in DOMAIN Order : Order[i] = Parent[Order[j]] => i < j
    /\ \A b \in Branch \ Created : Parent[b] \notin Created
    /\ Created \subseteq Branch /\ Elsewhere \subseteq Branch \ Created
    /\ Mixed \in BOOLEAN /\ Depths \subseteq Nat \ {0}
    /\ {MaxCommands, MaxPatches, MaxConflicts, MaxHand, MaxCrashes, MaxTroubles} \subseteq Nat
    /\ MaxPatches # 0

VARIABLES tip,        \* refs/heads: per branch its revision, or None
          base,       \* metadata: parentBranchRevision, or None
          head,       \* the branch checked out here, or None: detached
          work,       \* uncommitted changes here: the patch they will be
          shown,      \* worktrees whose files are those of their branch
          rebase,     \* git's rebase in progress: of a branch, to a revision
          cont,       \* the continuation on disk
          snaps,      \* the snapshots on disk, oldest first
          depth,      \* and how many are kept
          cmd,        \* the command that is running
          owed,       \* branches the restack that stopped was asked for,
                      \* while nobody interferes
          rolling,    \* the snapshot an abort has begun to restore
          touched,    \* branches committed to since it has restored the refs
          made, commands, conflicts, hand, crashes

refVars  == <<tip, base>>
treeVars == <<head, work, shown>>
diskVars == <<rebase, cont, snaps, depth>>
pastVars == <<owed, rolling, touched>>
counters == <<made, commands, conflicts, hand, crashes>>
vars == <<refVars, treeVars, diskVars, cmd, pastVars, counters>>

Troubles == conflicts + hand + crashes

Exists(x) == tip[x] # None

\* b and the branches below it; b and those above it.
Chain(b) == LET up[x \in Node] == IF x = Trunk THEN {} ELSE {x} \cup up[Parent[x]] IN up[b]
Upstack(b) == {c \in Branch : b \in Chain(c)}

Index(b) == CHOOSE i \in DOMAIN Order : Order[i] = b
First(S) == CHOOSE b \in S : \A c \in S : Index(b) <= Index(c)

\* Where the branch's own commits begin.
OldUpstream(b) ==
    IF IsAncestor(base[b], tip[b]) THEN base[b] ELSE MergeBase(tip[b], tip[Parent[b]])

InPlace(b) == IsAncestor(tip[Parent[b]], tip[b]) /\ base[b] = tip[Parent[b]]

\* Those of S that a restack changes: out of place, or on one that moves.
Moves(S) == {b \in S : Exists(b) /\ \E c \in Chain(b) \cap S : ~InPlace(c)}

\* A worktree with changes holds its branch, and in a pass what is on it.
Held(b) == (b = head /\ work # None) \/ b \in Elsewhere \ shown
HeldBack(b) == \E c \in Chain(b) : Held(c)

NoCommand ==
    [pc |-> "idle", kind |-> "none", todo |-> {}, hit |-> None, rest |-> {}, from |-> None,
     snap |-> None, ret |-> None, expected |-> None, base |-> None, to |-> None]

Idle == cmd.pc = "idle"

\* Somebody has interfered with the restack.
Disturb == owed' = {}

Touched(x) == IF rolling = None THEN {} ELSE touched \cup {x}

\* A restacked stack, and trunk is one commit ahead.
Init ==
    /\ LET first == <<[home |-> Trunk, n |-> 0]>>
           at[b \in Node] == IF b = Trunk THEN first ELSE Append(at[Parent[b]], [home |-> b, n |-> 0])
       IN /\ tip = [b \in Node |-> IF b \in Created THEN None
                                  ELSE IF b = Trunk THEN Append(first, [home |-> Trunk, n |-> 1])
                                  ELSE at[b]]
          /\ base = [b \in Branch |-> IF b \in Created THEN None ELSE at[Parent[b]]]
    /\ head = Trunk
    /\ work = None /\ shown = Elsewhere
    /\ rebase = None /\ cont = None /\ snaps = <<>> /\ depth \in Depths
    /\ cmd = NoCommand
    /\ owed = {} /\ rolling = None /\ touched = {}
    /\ made = 1 /\ commands = 0 /\ conflicts = 0 /\ hand = 0 /\ crashes = 0

-----------------------------------------------------------------------------
(* Commands that restack.                                                  *)

\* Mutant: off by one.
AfterNext(b, S) == {c \in S : Index(c) > Index(b) + 1}

\* What is left for continue: everything behind the conflicting branch.
After(b, S) == {c \in S : Index(c) > Index(b)}

\* The pass over S, of which the branches C conflict.
Passing(r, S, C) ==
    [r EXCEPT !.pc = "apply",
              !.todo = {b \in Moves(S) : Chain(b) \cap C = {}},
              !.hit = IF C = {} THEN None ELSE First(C),
              !.rest = IF C = {} THEN {} ELSE After(First(C), S)]

\* Branches whose trial rebases may conflict: those on another are blocked.
Conflicting(S) ==
    {C \in SUBSET Moves(S) : /\ Cardinality(C) + conflicts <= MaxConflicts
                             /\ Cardinality(C) + Troubles <= MaxTroubles
                             /\ \A b \in C : Chain(b) \cap C = {b}}

\* TakeSnapshot, and the oldest one goes if there are too many.
Snapshots(captured) ==
    LET s == Append(snaps, [id |-> commands + 1, tip |-> tip, base |-> base, cur |-> head,
                            work |-> captured, made |-> made])
    IN IF Len(s) > depth THEN Tail(s) ELSE s

\* Another command begins.
Begin ==
    /\ Idle /\ commands < MaxCommands
    /\ commands' = commands + 1
    /\ rolling' = None /\ touched' = {}

\* stackit restack.
Restack(S) ==
    /\ Begin /\ (rebase # None => Mixed) /\ Moves(S) # {}
    /\ snaps' = Snapshots(None)
    /\ \E C \in Conflicting(S) :
         cmd' = Passing([NoCommand EXCEPT !.kind = "restack", !.from = head,
                                          !.snap = commands + 1], S, C)
    /\ owed' = S
    /\ UNCHANGED <<refVars, treeVars, rebase, cont, depth, made, conflicts, hand, crashes>>

\* stackit modify, or modify --into the branch b below: the changes here are
\* amended into its last commit.
Modify(b) ==
    /\ Begin /\ rebase = None /\ work # None
    /\ head \in Branch /\ b \in Chain(head) \ Elsewhere
    /\ snaps' = Snapshots(work)
    /\ tip' = [tip EXCEPT ![b] = Append(IF Last(@).home = b THEN Front(@) ELSE @,
                                        [home |-> b, n |-> work])]
    /\ work' = None /\ head' = b
    /\ cmd' = [NoCommand EXCEPT !.pc = "plan", !.kind = "modify", !.from = head,
                                !.snap = commands + 1, !.rest = Upstack(b) \ {b},
                                !.ret = IF head = b THEN None ELSE head]
    /\ owed' = Upstack(b) \ {b}
    /\ UNCHANGED <<base, shown, rebase, cont, depth, made, conflicts, hand, crashes>>

Plan ==
    /\ cmd.pc = "plan"
    /\ \E C \in Conflicting(cmd.rest) : cmd' = Passing(cmd, cmd.rest, C)
    /\ UNCHANGED <<refVars, treeVars, diskVars, pastVars, counters>>

\* RestackBranches moves the next branch, unless a worktree holds it.
ApplyNext ==
    /\ cmd.pc = "apply" /\ cmd.todo # {}
    /\ LET b == First(cmd.todo)
       IN /\ cmd' = [cmd EXCEPT !.todo = @ \ {b}]
          /\ IF HeldBack(b) THEN UNCHANGED refVars
             ELSE /\ tip' = [tip EXCEPT ![b] = Replay(tip[Parent[b]], OldUpstream(b), @)]
                  /\ base' = [base EXCEPT ![b] = tip[Parent[b]]]
    /\ UNCHANGED <<treeVars, diskVars, pastVars, counters>>

\* A restack or modify without a conflict is over.
Finish ==
    /\ cmd.pc = "apply" /\ cmd.todo = {} /\ cmd.hit = None /\ cmd.kind # "continue"
    /\ head' = IF cmd.ret = None THEN head ELSE cmd.ret
    /\ cmd' = NoCommand /\ owed' = {}
    /\ UNCHANGED <<refVars, work, shown, diskVars, rolling, touched, counters>>

-----------------------------------------------------------------------------
(* The conflict workflow is entered.                                       *)

\* Mutant: whatever the branch is when the continuation is saved.
ExpectedLater == tip[cmd.hit]

\* The revision that continue will demand of the branch.
Expected == cmd.expected

\* A later git rebase --abort must not move the branch that was checked out.
Detached == None

\* HEAD is detached, and the branch's revision is read.
Detach ==
    /\ cmd.pc = "apply" /\ cmd.todo = {} /\ cmd.hit # None
    /\ head' = Detached
    /\ cmd' = [cmd EXCEPT !.pc = "rebase", !.expected = tip[cmd.hit]]
    /\ UNCHANGED <<refVars, work, shown, diskVars, pastVars, counters>>

\* Back to where the command began: it fails.
Reattach ==
    /\ head' = IF rebase = None THEN cmd.from ELSE None
    /\ cmd' = NoCommand

\* restackBranch: a rebase that stops leaves a rebase in progress.  While there
\* is one already, git refuses to begin, and it is taken for the one that stopped.
StartRebase ==
    /\ cmd.pc = "rebase"
    /\ LET b == cmd.hit
           onto == tip[Parent[b]]
           to   == Replay(onto, OldUpstream(b), tip[b])
       IN \/ \* there is nothing to do, or changes are in the way
             /\ work # None \/ Held(b) \/ OldUpstream(b) = onto
             /\ Reattach
             /\ UNCHANGED <<tip, rebase, conflicts>>
          \/ /\ work = None /\ ~Held(b) /\ OldUpstream(b) # onto
             /\ rebase # None => UNCHANGED conflicts
             /\ rebase = None => /\ conflicts < MaxConflicts /\ Troubles < MaxTroubles
                                 /\ conflicts' = conflicts + 1
             /\ rebase' = IF rebase = None THEN [of |-> b, to |-> to] ELSE rebase
             /\ cmd' = [cmd EXCEPT !.pc = "save", !.base = onto]
             /\ UNCHANGED <<tip, head>>
          \/ \* recorded resolutions settle it
             /\ work = None /\ ~Held(b) /\ OldUpstream(b) # onto /\ rebase = None
             /\ tip' = [tip EXCEPT ![b] = to]
             /\ cmd' = [cmd EXCEPT !.pc = "second", !.base = onto, !.to = to]
             /\ UNCHANGED <<head, rebase, conflicts>>
    /\ UNCHANGED <<base, work, shown, cont, snaps, depth, pastVars,
                   made, commands, hand, crashes>>

\* After a rebase that has moved the branch already: it is moved again, with
\* its metadata, from whatever it is now.  No conflict: the command fails.
SecondUpdate ==
    /\ cmd.pc = "second"
    /\ tip' = [tip EXCEPT ![cmd.hit] = cmd.to]
    /\ base' = [base EXCEPT ![cmd.hit] = cmd.base]
    /\ Reattach
    /\ UNCHANGED <<work, shown, diskVars, pastVars, counters>>

Save ==
    /\ cmd.pc = "save"
    /\ cont' = [branch |-> cmd.hit, rest |-> cmd.rest, base |-> cmd.base,
                expected |-> Expected, snap |-> cmd.snap, pending |-> FALSE,
                ret |-> IF cmd.kind = "continue" THEN cmd.ret ELSE None]
    /\ cmd' = IF cmd.kind = "modify" /\ cmd.ret \notin {None, cmd.hit}
              THEN [cmd EXCEPT !.pc = "note"] ELSE NoCommand
    /\ UNCHANGED <<refVars, treeVars, rebase, snaps, depth, pastVars, counters>>

\* recordConflictReturnBranch.
Note ==
    /\ cmd.pc = "note"
    /\ cont' = [cont EXCEPT !.ret = cmd.ret]
    /\ cmd' = NoCommand
    /\ UNCHANGED <<refVars, treeVars, rebase, snaps, depth, pastVars, counters>>

-----------------------------------------------------------------------------
(* stackit continue.                                                       *)

ContinueNothing ==
    /\ Idle /\ rebase = None /\ cont # None
    /\ cont' = None /\ rolling' = None /\ touched' = {}
    /\ UNCHANGED <<refVars, treeVars, rebase, snaps, depth, cmd, owed, counters>>

\* The rebase goes through.  (When it stops again, nothing has changed.)
Continue ==
    /\ Idle /\ rebase # None /\ cont # None
    /\ cont.branch # rebase.of => Mixed
    /\ rebase' = None
    /\ cmd' = [NoCommand EXCEPT !.pc = "cas", !.kind = "continue", !.hit = cont.branch,
                  !.rest = cont.rest, !.snap = cont.snap, !.ret = cont.ret, !.base = cont.base,
                  !.expected = cont.expected, !.to = rebase.to]
    /\ rolling' = None /\ touched' = {}
    /\ UNCHANGED <<refVars, treeVars, cont, snaps, depth, owed, counters>>

\* The branch is what it was before the rebase.
AsExpected == tip[cmd.hit] = cmd.expected

UpdateBranchRef ==
    /\ cmd.pc = "cas"
    /\ IF AsExpected
       THEN /\ tip' = [tip EXCEPT ![cmd.hit] = cmd.to]
            /\ shown' = shown \ {cmd.hit}
            /\ cmd' = [cmd EXCEPT !.pc = IF cmd.hit \in shown THEN "reset" ELSE "record"]
       ELSE UNCHANGED <<tip, shown>> /\ cmd' = NoCommand
    /\ UNCHANGED <<base, head, work, diskVars, pastVars, counters>>

ResetWorktree ==
    /\ cmd.pc = "reset"
    /\ shown' = shown \cup {cmd.hit}
    /\ cmd' = [cmd EXCEPT !.pc = "record"]
    /\ UNCHANGED <<refVars, head, work, diskVars, pastVars, counters>>

\* Mutant: the parent as it is now.
RecordedNow == tip[Parent[cmd.hit]]

\* The parent revision the rebase began with.
Recorded == cmd.base

RecordParent ==
    /\ cmd.pc = "record"
    /\ base' = [base EXCEPT ![cmd.hit] = Recorded]
    /\ cmd' = [cmd EXCEPT !.pc = "attach"]
    /\ UNCHANGED <<tip, treeVars, diskVars, pastVars, counters>>

\* The branch is checked out, unless another worktree has it; then the rest.
Attach ==
    /\ cmd.pc = "attach"
    /\ head' = IF cmd.hit \in Elsewhere THEN None ELSE cmd.hit
    /\ cmd' = [cmd EXCEPT !.pc = "plan", !.from = head', !.hit = None]
    /\ UNCHANGED <<refVars, work, shown, diskVars, pastVars, counters>>

\* On a branch, in any case.
Landing == IF head = None THEN Trunk ELSE head

\* Where modify --into was called from, or else where we are.
Return ==
    /\ cmd.pc = "apply" /\ cmd.todo = {} /\ cmd.hit = None /\ cmd.kind = "continue"
    /\ head' = IF cmd.ret \notin Elsewhere \cup {None} /\ Exists(cmd.ret) THEN cmd.ret
               ELSE Landing
    /\ cmd' = [cmd EXCEPT !.pc = "clear"]
    /\ UNCHANGED <<refVars, work, shown, diskVars, pastVars, counters>>

\* ClearContinuationState, of continue and abort.
Clear ==
    /\ cmd.pc = "clear"
    /\ cont' = None /\ rolling' = None /\ touched' = {}
    /\ cmd' = NoCommand /\ owed' = {}
    /\ UNCHANGED <<refVars, treeVars, rebase, snaps, depth, counters>>

-----------------------------------------------------------------------------
(* stackit abort and stackit undo.                                         *)

\* Mutant: only the rebase and the branch are looked at.
OwnsFresh == rebase # None \/ tip[cont.branch] = cont.expected

\* ContinuationOwnsAbort.
Owns == rebase # None \/ cont.pending \/ tip[cont.branch] = cont.expected

Bound(id) == \E i \in DOMAIN snaps : snaps[i].id = id
Snapshot(id) == LET i == CHOOSE i \in DOMAIN snaps : snaps[i].id = id IN snaps[i]

\* The conflict was finished with git: only the continuation goes.
AbortStale ==
    /\ Idle /\ cont # None /\ ~Owns
    /\ cont' = None
    /\ UNCHANGED <<refVars, treeVars, rebase, snaps, depth, cmd, pastVars, counters>>

\* Mutant: without a continuation there is nothing to abort.
AbortableSaved == cont # None /\ Owns

Abortable == rebase # None \/ (cont # None /\ Owns)

\* The rollback is marked as begun.
Abort ==
    /\ Idle /\ Abortable
    /\ cont' = IF cont = None THEN None ELSE [cont EXCEPT !.pending = TRUE]
    /\ cmd' = [NoCommand EXCEPT !.pc = "unwind", !.kind = "abort", !.from = head,
                                !.snap = IF cont = None THEN None ELSE cont.snap]
    /\ UNCHANGED <<refVars, treeVars, rebase, snaps, depth, pastVars, counters>>

\* git rebase --abort; then the snapshot, if the command has one.
Unwind ==
    /\ cmd.pc = "unwind"
    /\ rebase' = None
    /\ cmd' = [cmd EXCEPT !.pc = IF Bound(cmd.snap) THEN "delete" ELSE "clear"]
    /\ rolling' = IF Bound(cmd.snap) THEN cmd.snap ELSE None
    /\ touched' = {}
    /\ UNCHANGED <<refVars, treeVars, cont, snaps, depth, owed, counters>>

\* stackit undo, to any snapshot: it leaves a continuation behind.
Undo(id) ==
    /\ Begin /\ work = None /\ Bound(id)
    /\ rebase' = None
    /\ cmd' = [NoCommand EXCEPT !.pc = "delete", !.kind = "undo", !.snap = id]
    /\ Disturb
    /\ UNCHANGED <<refVars, treeVars, cont, snaps, depth, made, conflicts, hand, crashes>>

\* RestoreSnapshot: branches that it does not know are deleted.
DeleteBranches ==
    /\ cmd.pc = "delete"
    /\ LET gone == {b \in Branch : Exists(b) /\ Snapshot(cmd.snap).tip[b] = None}
       IN /\ tip' = [x \in Node |-> IF x \in gone THEN None ELSE tip[x]]
          /\ head' = IF head \in gone THEN Trunk ELSE head
    /\ cmd' = [cmd EXCEPT !.pc = "refs"]
    /\ UNCHANGED <<base, work, shown, diskVars, pastVars, counters>>

\* The metadata refs that the snapshot has; what is newer stays for now.
RestoredMetadata(s) == [b \in Branch |-> IF s.base[b] # None THEN s.base[b] ELSE base[b]]

\* One transaction for branches and metadata, whatever they are now.
RestoreRefs ==
    /\ cmd.pc = "refs"
    /\ LET s == Snapshot(cmd.snap)
       IN /\ tip' = [x \in Node |-> IF s.tip[x] # None THEN s.tip[x] ELSE tip[x]]
          /\ base' = RestoredMetadata(s)
          /\ shown' = {b \in shown : tip'[b] = tip[b]}
    /\ touched' = {}
    /\ cmd' = [cmd EXCEPT !.pc = "metadata"]
    /\ UNCHANGED <<head, work, diskVars, owed, rolling, counters>>

DeleteMetadata ==
    /\ cmd.pc = "metadata"
    /\ base' = [b \in Branch |-> IF Snapshot(cmd.snap).base[b] = None THEN None ELSE base[b]]
    /\ cmd' = [cmd EXCEPT !.pc = "head"]
    /\ UNCHANGED <<tip, treeVars, diskVars, pastVars, counters>>

\* A hard reset if HEAD is on the snapshot's branch, and else a checkout, whose
\* failure is swallowed: changes may be in its way, or files that have become
\* changes as the ref of the branch under HEAD was restored.
RestoreHead ==
    /\ cmd.pc = "head"
    /\ LET cur == Snapshot(cmd.snap).cur
       IN \/ /\ cur # None /\ head = cur
             /\ work' = None /\ UNCHANGED head
          \/ /\ cur \notin {None, head}
             /\ head' = cur /\ UNCHANGED work
          \/ /\ cur = None \/ (cur # head /\ (head # None \/ work # None))
             /\ UNCHANGED <<head, work>>
    /\ cmd' = [cmd EXCEPT !.pc = "work"]
    /\ UNCHANGED <<refVars, shown, diskVars, pastVars, counters>>

\* RestoreWorktree: the changes that modify has consumed come back, where
\* nothing is in their way, or HEAD is elsewhere and they do not fit there.
RestoreWork ==
    /\ cmd.pc = "work"
    /\ LET s == Snapshot(cmd.snap)
       IN work' \in IF s.work = None \/ work # None THEN {work}
                    ELSE {s.work} \cup (IF head = s.cur THEN {} ELSE {None})
    /\ cmd' = IF cmd.kind = "abort" THEN [cmd EXCEPT !.pc = "clear"] ELSE NoCommand
    /\ UNCHANGED <<refVars, head, shown, diskVars, pastVars, counters>>

-----------------------------------------------------------------------------
(* Everybody else.                                                         *)

\* The process dies, or gives up: over untracked files, say.
Crash ==
    /\ ~Idle /\ crashes < MaxCrashes /\ Troubles < MaxTroubles
    /\ crashes' = crashes + 1
    /\ cmd' = NoCommand
    /\ Disturb
    /\ UNCHANGED <<refVars, treeVars, diskVars, rolling, touched,
                   made, commands, conflicts, hand>>

\* The user of this worktree acts between commands.
Here == Idle /\ rebase = None /\ head # None

NewPatch(x) == [home |-> x, n |-> made + 1]

\* Files are changed, perhaps on another branch that is checked out before.
Edit(x) ==
    /\ Idle /\ rebase = None /\ work = None /\ made < MaxPatches
    /\ \/ x \in Node \ Elsewhere /\ Exists(x)
       \/ x = None /\ head = None
    /\ head' = x
    /\ made' = made + 1 /\ work' = made + 1
    /\ UNCHANGED <<refVars, shown, diskVars, cmd, pastVars, commands, conflicts, hand, crashes>>

CommitHere ==
    /\ Here /\ work # None
    /\ tip' = [tip EXCEPT ![head] = Append(@, [home |-> head, n |-> work])]
    /\ work' = None
    /\ Disturb /\ touched' = Touched(head)
    /\ UNCHANGED <<base, head, shown, diskVars, cmd, rolling, counters>>

\* In another worktree, or on trunk as it is fetched: at any time.
CommitElsewhere(x) ==
    /\ x \in shown \cup ({Trunk} \ {head}) /\ made < MaxPatches
    /\ made' = made + 1
    /\ tip' = [tip EXCEPT ![x] = Append(@, NewPatch(x))]
    /\ Disturb /\ touched' = Touched(x)
    /\ UNCHANGED <<base, treeVars, diskVars, cmd, rolling, commands, conflicts, hand, crashes>>

\* stackit create, on the branch that is checked out.
Create(b) ==
    /\ Begin /\ Here /\ work # None /\ ~Exists(b) /\ head = Parent[b]
    /\ snaps' = Snapshots(work)
    /\ tip' = [tip EXCEPT ![b] = Append(tip[head], [home |-> b, n |-> work])]
    /\ base' = [base EXCEPT ![b] = tip[head]]
    /\ head' = b /\ work' = None
    /\ Disturb
    /\ UNCHANGED <<shown, rebase, cont, depth, cmd, made, conflicts, hand, crashes>>

\* git rebase --abort or --continue: no branch moves, as HEAD is detached.
FinishByHand ==
    /\ Idle /\ rebase # None /\ hand < MaxHand /\ Troubles < MaxTroubles
    /\ hand' = hand + 1
    /\ rebase' = None
    /\ Disturb
    /\ UNCHANGED <<refVars, treeVars, cont, snaps, depth, cmd, rolling, touched,
                   made, commands, conflicts, crashes>>

-----------------------------------------------------------------------------
Running ==
    \/ Plan \/ ApplyNext \/ Finish \/ Detach \/ StartRebase \/ SecondUpdate \/ Save \/ Note
    \/ UpdateBranchRef \/ ResetWorktree \/ RecordParent \/ Attach \/ Return \/ Clear
    \/ Unwind \/ DeleteBranches \/ RestoreRefs \/ DeleteMetadata \/ RestoreHead \/ RestoreWork

Aborting == AbortStale \/ Abort

Users ==
    \/ CommitHere \/ FinishByHand
    \/ \E x \in Node \cup {None} : Edit(x)
    \/ \E x \in Node : CommitElsewhere(x)
    \/ \E b \in Created : Create(b)

Next ==
    \/ Running \/ Aborting \/ Crash \/ Users \/ ContinueNothing \/ Continue
    \/ \E S \in {Branch} \cup {Upstack(b) : b \in Branch} : Restack(S)
    \/ \E b \in Branch : Modify(b)
    \/ \E id \in 1 .. MaxCommands : Undo(id)

Spec == Init /\ [][Next]_vars

\* A command that has begun goes on, and whoever is stuck aborts.
FairSpec == Spec /\ WF_vars(Running) /\ SF_vars(Aborting)

-----------------------------------------------------------------------------
(* Correctness.                                                            *)

TypeOK ==
    /\ tip \in [Node -> Revision \cup {None}] /\ base \in [Branch -> Revision \cup {None}]
    /\ head \in (Node \ Elsewhere) \cup {None} /\ (head # None => Exists(head))
    /\ work \in 1 .. MaxPatches \cup {None} /\ shown \subseteq Elsewhere
    /\ rebase # None => rebase.of \in Branch /\ rebase.to \in Revision /\ head = None
    /\ cont # None => cont.branch \in Branch /\ cont.rest \subseteq Branch
                      /\ cont.expected \in Revision /\ cont.base \in Revision
    /\ \A i \in DOMAIN snaps : snaps[i].id \in 1 .. commands
    /\ cmd.todo \subseteq Branch /\ cmd.rest \subseteq Branch /\ cmd.hit \in Branch \cup {None}

Own(x, r) == {p \in ToSet(r) : p.home = x}

\* Nothing but an amend and a restored snapshot takes a branch's own commits
\* off it: not a conflict that took a day to resolve, while people committed.
\* (Between the two updates of a rebase that unexpectedly goes through, a
\* commit is overwritten.)
CommitsStay ==
    [][\A b \in Branch :
         \/ ~Exists(b)
         \/ tip'[b] # None /\ Own(b, tip[b]) \subseteq Own(b, tip'[b])
         \/ cmd.pc \in {"delete", "refs", "second"}
         \/ Idle /\ cmd'.kind = "modify"]_vars

\* Where an abort has brought the repository, but for what people have committed
\* since it restored the refs.  HEAD is back, unless the user had put it on
\* another branch or had changed files on a detached one, as then git may refuse;
\* and where it is back, so are the changes that modify has consumed, unless there
\* are others.
Whole(s) ==
    /\ \A x \in Node \ touched : tip[x] = s.tip[x]
    /\ base = s.base
    /\ s.cur # None => \/ head = s.cur
                       \/ cmd.from \notin {None, s.cur}
                       \/ head = None /\ work # None
    /\ s.work # None /\ head = s.cur => work # None

\* An abort that has begun to unwind stays on record until everything is as it
\* was, branches, metadata, HEAD and changes, whatever interrupts it: with the
\* rebase it ends, or from where the command began, it brings HEAD back too.
RollbackIsWhole ==
    /\ rolling # None => cont # None /\ cont.pending /\ cont.snap = rolling
    /\ cmd.kind = "abort" /\ cmd.pc = "clear" /\ rolling # None => Whole(Snapshot(rolling))

\* A branch that is recorded to be on its parent's tip is.
RecordedBaseIsReal ==
    \A b \in Branch : Exists(b) /\ base[b] = tip[Parent[b]] => IsAncestor(base[b], tip[b])

\* When continue is done, everything the command was asked for is in place,
\* however many conflicts there were, and HEAD is on a branch: the next commit
\* would be on none otherwise.
RestFollows ==
    cmd.kind = "continue" /\ cmd.pc = "clear"
    => /\ head # None
       /\ \A b \in owed : Exists(b) /\ ~HeldBack(b) => InPlace(b)

\* Whoever aborts gets out of a stopped command, also of one that died before
\* it had saved its continuation.
NothingStuck == []<>(Idle /\ rebase = None /\ cont = None)
=============================================================================
