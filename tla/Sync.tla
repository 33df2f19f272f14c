--------------------------------- MODULE Sync ---------------------------------
(***************************************************************************)
(* stackit sync, beside the people who commit, push, merge and close.      *)
(*                                                                         *)
(* Sync looks at three places at once: it fetches trunk, asks GitHub for   *)
(* the pull requests and lists the remote's branches.  On what it has seen *)
(* it then moves trunk and the branches that are behind, deletes branches  *)
(* that have landed or were closed, reparents their children and restacks  *)
(* those.  Nothing keeps the repository or GitHub still meanwhile.         *)
(***************************************************************************)
EXTENDS Naturals, Landed

CONSTANTS Parent,        \* per branch the branch it is created on
          Created,       \* branches that are created later; no pull request
          Mains,         \* what the main worktree may have checked out, if
                         \* sync runs in another
          Calls,         \* how sync is called: "batch", "prompt" or "force",
                         \* and whether with --restack
          Busy,          \* people go on working while a sync runs
          MaxPatches,    \* bound on commits and pushes by others
          MaxEvents      \* bound on pull requests merged or closed, prunes,
                         \* branches deleted by hand and crashes, together

Node == Branch \cup {Trunk}
Patch == [home : Node, n : 1 .. MaxPatches + 1] \cup {Squash(b) : b \in Branch}
Revision == Seq(Patch)

\* Every branch leads to trunk.
Rooted(par) ==
    \A T \in SUBSET Branch : (\A b \in Branch : par[b] \in T \cup {Trunk} => b \in T) => T = Branch

ASSUME ConstantsAssumption ==
    /\ Trunk \notin Branch /\ None \notin Node /\ None \notin Revision
    /\ Parent \in [Branch -> Node] /\ Rooted(Parent) /\ Created \subseteq Branch
    /\ Mains \subseteq Branch \cup {None} /\ Busy \in BOOLEAN
    /\ Calls \subseteq {"batch", "prompt", "force"} \X BOOLEAN
    /\ {MaxPatches, MaxEvents} \subseteq Nat

VARIABLES tracking,   \* refs/remotes/origin
          objects,    \* patches whose commits are in the object database
          main,       \* the branch in the main worktree
          remote,     \* the branches of the remote
          pr,         \* GitHub: the state of the branch's pull request
          prBase,     \* and the branch it is to be merged into
          pushed,     \* patches that ever were on the remote
          waived,     \* patches given up knowingly, or out of sync's sight
          sync,       \* the sync that is running
          made, events

localVars  == <<tip, parent, base, recorded, main>>
remoteVars == <<remote, pr, prBase, landed>>
counters   == <<made, events>>
vars == <<localVars, tracking, objects, remoteVars, pushed, waived, sync, counters>>

\* Everything that some local branch has.
Local(t) == UNION {ToSet(t[x]) : x \in {y \in Node : t[y] # None}}

Known(r) == ToSet(r) \subseteq objects

\* b and the branches it is stacked on, as they were created.
Chain(b) == LET up[x \in Node] == IF x = Trunk THEN {} ELSE {x} \cup up[Parent[x]] IN up[b]

NoSync ==
    [pc |-> "idle", mode |-> None, all |-> FALSE, calm |-> TRUE, got |-> {}, prs |-> None, status |-> None,
     seen |-> {}, todo |-> {}, old |-> None, doomed |-> {}, yes |-> {}, moves |-> {}, moved |-> {}]

Idle == sync.pc = "idle"
Free == Busy \/ Idle

\* Trunk, and the stack on it, all submitted.
Init ==
    LET at[x \in Node] == IF x = Trunk THEN <<[home |-> Trunk, n |-> 1]>>
                          ELSE Append(at[Parent[x]], [home |-> x, n |-> 1])
        first == Branch \ Created
    IN /\ tip = [x \in Node |-> IF x \in Created THEN None ELSE at[x]]
       /\ parent = [b \in Branch |-> IF b \in first THEN Parent[b] ELSE None]
       /\ base = [b \in Branch |-> IF b \in first THEN at[Parent[b]] ELSE None]
       /\ recorded = [b \in Branch |-> IF b \in first THEN "open" ELSE "none"]
       /\ tracking = tip /\ remote = tip
       /\ objects = Local(tip) /\ pushed = Local(tip)
       /\ main \in Mains
       /\ pr = recorded /\ prBase = parent
       /\ landed = [b \in Branch |-> {}]
       /\ waived = {} /\ sync = NoSync
       /\ made = 1 /\ events = 0

-----------------------------------------------------------------------------
(* People.                                                                 *)

Making == made <= MaxPatches /\ made' = made + 1
Happens == events < MaxEvents /\ events' = events + 1

\* A sync that is running is not alone any more.
Disturbs == sync' = IF Idle THEN sync ELSE [sync EXCEPT !.calm = FALSE]

\* A commit, in whatever worktree the branch is checked out.
Commit(x) ==
    /\ Free /\ Disturbs /\ Making /\ Exists(x)
    /\ tip' = [tip EXCEPT ![x] = Append(@, [home |-> x, n |-> made + 1])]
    /\ objects' = objects \cup {[home |-> x, n |-> made + 1]}
    /\ UNCHANGED <<parent, base, recorded, tracking, main, remoteVars, pushed, waived,
                   events>>

\* stackit create, with changes.
Create(b) ==
    /\ Free /\ Disturbs /\ Making
    /\ b \in Created /\ ~Exists(b) /\ parent[b] = None /\ Exists(Parent[b])
    /\ LET new == [home |-> b, n |-> made + 1]
       IN /\ tip' = [tip EXCEPT ![b] = Append(tip[Parent[b]], new)]
          /\ objects' = objects \cup {new}
    /\ parent' = [parent EXCEPT ![b] = Parent[b]]
    /\ base' = [base EXCEPT ![b] = tip[Parent[b]]]
    /\ UNCHANGED <<recorded, tracking, main, remoteVars, pushed, waived,
                   events>>

\* git push --force-with-lease.
Push(b) ==
    /\ Free /\ Disturbs /\ Exists(b) /\ remote[b] = tracking[b] /\ tip[b] # remote[b]
    /\ remote' = [remote EXCEPT ![b] = tip[b]]
    /\ tracking' = [tracking EXCEPT ![b] = tip[b]]
    /\ pushed' = pushed \cup ToSet(tip[b])
    /\ UNCHANGED <<localVars, objects, pr, prBase, landed, waived, counters>>

\* Somebody else pushes to the branch.
OthersPush(b) ==
    /\ Free /\ Disturbs /\ Making /\ remote[b] # None
    /\ remote' = [remote EXCEPT ![b] = Append(@, [home |-> b, n |-> made + 1])]
    /\ pushed' = pushed \cup {[home |-> b, n |-> made + 1]}
    /\ UNCHANGED <<localVars, tracking, objects, pr, prBase, landed, waived,
                   events>>

\* git fetch --prune.
Prune ==
    /\ Free /\ Disturbs /\ Happens
    /\ tracking' = remote
    /\ objects' = objects \cup Local(remote)
    /\ UNCHANGED <<localVars, remoteVars, pushed, waived, made>>

\* git branch -D: the metadata stays.
DeleteByHand(b) ==
    /\ Idle /\ Disturbs /\ Happens /\ Exists(b) /\ b # main
    /\ tip' = [tip EXCEPT ![b] = None]
    /\ waived' = waived \cup ToSet(tip[b])
    /\ UNCHANGED <<parent, base, recorded, tracking, objects, main, remoteVars, pushed,
                   made>>

-----------------------------------------------------------------------------
(* GitHub.                                                                 *)

\* Squash and merge.  The head branch may go with it, and pull requests into
\* it are then retargeted.
Merge(b, gone) ==
    /\ Free /\ Disturbs /\ Happens
    /\ pr[b] = "open" /\ remote[b] # None /\ remote[prBase[b]] # None
    /\ LET into == prBase[b]
           new == Contents(remote[b]) \ Contents(remote[into])
       IN /\ new # {}
          /\ landed' = [landed EXCEPT ![b] = new]
          /\ remote' = [x \in Node |-> IF gone /\ x = b THEN None
                                       ELSE IF x = into THEN Append(remote[x], Squash(b))
                                       ELSE remote[x]]
          /\ prBase' = [c \in Branch |-> IF gone /\ prBase[c] = b THEN into ELSE prBase[c]]
    /\ pr' = [pr EXCEPT ![b] = "merged"]
    /\ pushed' = pushed \cup {Squash(b)}
    /\ UNCHANGED <<localVars, tracking, objects, waived, made>>

\* The pull request is closed; its branch may be deleted if no other needs it.
Close(b, gone) ==
    /\ Free /\ Disturbs /\ Happens /\ pr[b] = "open"
    /\ gone => \A c \in Branch : prBase[c] = b => pr[c] # "open"
    /\ pr' = [pr EXCEPT ![b] = "closed"]
    /\ remote' = [remote EXCEPT ![b] = IF gone THEN None ELSE @]
    /\ UNCHANGED <<localVars, tracking, objects, prBase, landed, pushed, waived,
                   made>>

-----------------------------------------------------------------------------
(* How sync judges a branch.                                               *)

\* ReadBranchRemoteStatuses: where the remote does not list the branch, the
\* remote-tracking ref stands for it.  git finds no merge base with a commit
\* that has not been fetched.
StatusOf(b) ==
    LET there == IF remote[b] # None THEN remote[b] ELSE tracking[b]
    IN [local |-> tip[b], remote |-> there,
        base |-> IF there = None \/ ~Exists(b) THEN None
                 ELSE IF Known(there) THEN MergeBase(tip[b], there) ELSE None]

NoStatus == [local |-> None, remote |-> None, base |-> None]

Differ(s)   == s.local # None /\ s.remote # None /\ s.local # s.remote
Ahead(s)    == Differ(s) /\ s.base = s.remote
Behind(s)   == Differ(s) /\ s.base = s.local
Diverged(s) == Differ(s) /\ s.base \notin {s.local, s.remote}

Status(b) == IF b \in DOMAIN sync.status THEN sync.status[b] ELSE NoStatus

\* Mutant: a branch with commits of its own on both sides may go.
UnpushedAhead(b) == Ahead(Status(b)) \/ (DeletionKind(b) = "closed" /\ Status(b).remote = None)

\* Sync does not delete these unless told to.
Unpushed(b) ==
    \/ Ahead(Status(b)) \/ Diverged(Status(b))
    \/ DeletionKind(b) = "closed" /\ Status(b).remote = None

-----------------------------------------------------------------------------
(* A sync: looking.                                                        *)

Begin(m, all) ==
    /\ Idle
    /\ IF m = "batch" THEN UNCHANGED events ELSE Happens
    /\ sync' = [NoSync EXCEPT !.pc = "look", !.mode = m, !.all = all, !.seen = Tracked]
    /\ UNCHANGED <<localVars, tracking, objects, remoteVars, pushed, waived, made>>

\* Three round trips at once, in whatever order.
Looked(r, what) ==
    [r EXCEPT !.got = @ \cup {what},
              !.pc = IF r.got \cup {what} = {"trunk", "prs", "status"} THEN "trunk" ELSE @]

Looking(what) == sync.pc = "look" /\ what \notin sync.got

FetchTrunk ==
    /\ Looking("trunk")
    /\ tracking' = [tracking EXCEPT ![Trunk] = remote[Trunk]]
    /\ objects' = objects \cup ToSet(remote[Trunk])
    /\ sync' = Looked([sync EXCEPT !.todo = {Trunk}], "trunk")
    /\ UNCHANGED <<localVars, remoteVars, pushed, waived, counters>>

QueryGitHub ==
    /\ Looking("prs")
    /\ sync' = Looked([sync EXCEPT !.prs = [b \in sync.seen |-> [state |-> pr[b], base |-> prBase[b]]]],
                      "prs")
    /\ UNCHANGED <<localVars, tracking, objects, remoteVars, pushed, waived, counters>>

ListRemote ==
    /\ Looking("status")
    /\ sync' = Looked([sync EXCEPT !.status = [b \in sync.seen |-> StatusOf(b)]], "status")
    /\ UNCHANGED <<localVars, tracking, objects, remoteVars, pushed, waived, counters>>

-----------------------------------------------------------------------------
(* A sync: moving what is behind.                                          *)

\* With --force trunk is reset if it cannot go forward.
MustReset ==
    /\ sync.pc = "trunk" /\ sync.mode = "force" /\ Trunk \in sync.todo
    /\ ~IsAncestor(tip[Trunk], tracking[Trunk]) /\ ~IsAncestor(tracking[Trunk], tip[Trunk])

\* UpdateBranchFromRemote reads the branch, and goes on only forward.
PullReads(x) ==
    /\ sync.pc \in {"trunk", "pull"} /\ sync.old = None /\ x \in sync.todo /\ ~MustReset
    /\ IF /\ Exists(x) /\ tracking[x] \notin {None, tip[x]}
          /\ IsAncestor(tip[x], tracking[x])
       THEN sync' = [sync EXCEPT !.todo = @ \ {x},
                                 !.old = [of |-> x, rev |-> tip[x], to |-> tracking[x]]]
       ELSE sync' = [sync EXCEPT !.todo = @ \ {x}]
    /\ UNCHANGED <<localVars, tracking, objects, remoteVars, pushed, waived, counters>>

\* ... and moves it whatever it is now.
PullWrites ==
    /\ sync.old # None
    /\ LET x == sync.old.of
       IN /\ tip' = [tip EXCEPT ![x] = sync.old.to]
          /\ waived' = waived \cup (ToSet(tip[x]) \ ToSet(sync.old.rev))
    /\ sync' = [sync EXCEPT !.old = None]
    /\ UNCHANGED <<parent, base, recorded, main, tracking, objects, remoteVars, pushed, counters>>

\* ResetTrunkToRemote, with --force.
ResetTrunk ==
    /\ sync.pc = "trunk" /\ MustReset
    /\ tip' = [tip EXCEPT ![Trunk] = tracking[Trunk]]
    /\ waived' = waived \cup ToSet(tip[Trunk])
    /\ sync' = [sync EXCEPT !.todo = {}]
    /\ UNCHANGED <<parent, base, recorded, main, tracking, objects, remoteVars, pushed, counters>>

\* The engine is rebuilt.  GitHub's answers are recorded, and the bases of open
\* pull requests that are not the local parent are pushed.
ProcessGitHub ==
    /\ sync.pc = "trunk" /\ sync.todo = {} /\ sync.old = None
    /\ LET asked == DOMAIN sync.prs
           moves == {b \in asked : sync.prs[b].state # "none" /\ sync.prs[b].base # parent[b]}
       IN /\ recorded' = [b \in Branch |-> IF b \in asked THEN sync.prs[b].state ELSE recorded[b]]
          /\ prBase' = [b \in Branch |-> IF b \in moves /\ pr[b] = "open" /\ remote[parent[b]] # None
                                        THEN parent[b] ELSE prBase[b]]
    /\ sync' = [sync EXCEPT !.pc = "behind", !.seen = Tracked, !.prs = None]
    /\ UNCHANGED <<tip, parent, base, main, tracking, objects, remote, pr, landed, pushed, waived, counters>>

\* One fetch of all that were behind, or each by itself.
FetchBehind ==
    /\ sync.pc = "behind"
    /\ LET behind == {b \in sync.seen : Behind(Status(b)) /\ remote[b] # None}
       IN /\ tracking' = [x \in Node |-> IF x \in behind THEN remote[x] ELSE tracking[x]]
          /\ objects' = objects \cup UNION {ToSet(remote[b]) : b \in behind}
          /\ sync' = [sync EXCEPT !.pc = "pull", !.todo = behind]
    /\ UNCHANGED <<localVars, remoteVars, pushed, waived, counters>>

-----------------------------------------------------------------------------
(* A sync: deleting and reparenting.                                       *)

\* Mutant: nobody looks for them.
GhostsNone == {}

\* Parents that are gone although their metadata may be there.
Ghosts == {parent[b] : b \in sync.seen} \ (sync.seen \cup {Trunk})

\* FindNearestNonExcludedAncestor: up past the branches that go.  The engine
\* knows no parent of a branch that does not exist.
Nearest(x, gone) ==
    LET up[y \in Node] ==
            IF y \notin gone THEN y ELSE up[IF y \in sync.seen THEN parent[y] ELSE Trunk]
    IN up[x]

\* What follows from deleting the branches D: their children move.  A parent
\* that landed or has become empty keeps its commits from them.
MovesPast(D) ==
    {[of |-> b, to |-> Nearest(parent[b], D), keep |-> DeletionKind(parent[b]) \in {"merged", "empty"}]
        : b \in {c \in sync.seen \ D : parent[c] \in D}}

\* The branches D, and all ghosts, are to go.
Deciding(r, D, yes) ==
    LET moves == MovesPast(D)
    IN [r EXCEPT !.pc = "reparent", !.doomed = D \cup Ghosts, !.yes = yes, !.moves = moves,
                 !.moved = {m.of : m \in moves}, !.status = [b \in D |-> Status(b)]]

PlanDeletions ==
    /\ sync.pc = "pull" /\ sync.todo = {} /\ sync.old = None
    /\ LET D == {b \in sync.seen : DeletionKind(b) # "none"}
       IN sync' = IF sync.mode = "prompt" /\ D \cup Ghosts # {}
                  THEN [sync EXCEPT !.pc = "prompt", !.doomed = D]
                  ELSE Deciding(sync, {b \in D : ~Unpushed(b)}, {})
    /\ UNCHANGED <<localVars, tracking, objects, remoteVars, pushed, waived, counters>>

\* The user says which of them may go.
Answer(yes) ==
    /\ sync.pc = "prompt" /\ yes \subseteq sync.doomed
    /\ sync' = Deciding(sync, yes, yes)
    /\ UNCHANGED <<localVars, tracking, objects, remoteVars, pushed, waived, counters>>

\* ApplyParentUpdatesAfterRemovals, one branch.
Reparent(m) ==
    /\ sync.pc = "reparent" /\ m \in sync.moves
    /\ IF Exists(m.to) \/ m.keep
       THEN /\ parent' = [parent EXCEPT ![m.of] = m.to]
            /\ base' = [base EXCEPT ![m.of] = NewBase(m.of, m.to, m.keep)]
            /\ sync' = [sync EXCEPT !.moves = @ \ {m}]
       ELSE /\ UNCHANGED <<parent, base>>       \* no merge base with a ghost
            /\ sync' = NoSync
    /\ UNCHANGED <<tip, recorded, main, tracking, objects, remoteVars, pushed, waived, counters>>

\* What the main worktree has checked out cannot be deleted, nor what is below
\* it; without a main worktree elsewhere, sync leaves the branch first.
Declined ==
    LET down[x \in Node] == IF x \in sync.doomed \cap sync.seen THEN {x} \cup down[parent[x]] ELSE {}
    IN IF main = None THEN {} ELSE down[main]

\* DeleteBranches: the refs as they are now, with their metadata.
DeleteBranches ==
    /\ sync.pc = "reparent" /\ sync.moves = {}
    /\ LET gone == sync.doomed \ Declined
           given(b) == IF b \in sync.yes \/ Status(b).remote = None THEN ToSet(tip[b])
                       ELSE ToSet(tip[b]) \ ToSet(Status(b).local)
       IN /\ tip' = [x \in Node |-> IF x \in gone THEN None ELSE tip[x]]
          /\ parent' = [b \in Branch |-> IF b \in gone THEN None ELSE parent[b]]
          /\ base' = [b \in Branch |-> IF b \in gone THEN None ELSE base[b]]
          /\ recorded' = [b \in Branch |-> IF b \in gone THEN "none" ELSE recorded[b]]
          /\ waived' = waived \cup UNION {given(b) : b \in {c \in gone : Exists(c)}}
          /\ sync' = [sync EXCEPT !.pc = "adopt", !.doomed = gone, !.seen = @ \ gone, !.status = None,
                                  !.yes = {}]
    /\ UNCHANGED <<main, tracking, objects, remoteVars, pushed, counters>>

\* ... and the children that nobody has moved, which are a ghost's, go to trunk.
AdoptChildren ==
    /\ sync.pc = "adopt"
    /\ parent' = [b \in Branch |-> IF b \in sync.seen /\ parent[b] \in sync.doomed THEN Trunk
                                   ELSE parent[b]]
    /\ sync' = [sync EXCEPT !.pc = "restack", !.doomed = {}]
    /\ UNCHANGED <<tip, base, recorded, main, tracking, objects, remoteVars, pushed, waived, counters>>

-----------------------------------------------------------------------------
(* A sync: restacking.                                                     *)

\* Mutant: only what was moved itself.
UpstackSelf(S) == S \cap sync.seen

\* The branches on a moved one, and it.
Upstack(S) ==
    LET down[x \in Node] == IF x \in sync.seen THEN {x} \cup down[parent[x]] ELSE {}
    IN {b \in sync.seen : down[b] \cap S # {}}

Restack ==
    /\ sync.pc = "restack"
    /\ LET S == IF sync.all THEN sync.seen ELSE Upstack(sync.moved)
           new[x \in Node] ==
               IF x \in S /\ Exists(parent[x]) THEN Rebased(new[parent[x]], OldUpstream(x), tip[x])
               ELSE tip[x]
       IN /\ tip' = new
          /\ base' = [b \in Branch |-> IF b \in S /\ Exists(parent[b]) THEN new[parent[b]] ELSE base[b]]
    /\ sync' = NoSync
    /\ UNCHANGED <<parent, recorded, main, tracking, objects, remoteVars, pushed, waived, counters>>

\* The process dies.
Crash ==
    /\ ~Idle /\ Happens
    /\ sync' = NoSync
    /\ UNCHANGED <<localVars, tracking, objects, remoteVars, pushed, waived,
                   made>>

-----------------------------------------------------------------------------
Syncing ==
    \/ FetchTrunk \/ QueryGitHub \/ ListRemote
    \/ (\E x \in Node : PullReads(x)) \/ PullWrites \/ ResetTrunk
    \/ ProcessGitHub \/ FetchBehind
    \/ PlanDeletions \/ (\E S \in SUBSET sync.doomed : Answer(S))
    \/ (\E m \in sync.moves : Reparent(m)) \/ DeleteBranches \/ AdoptChildren
    \/ Restack

Next ==
    \/ \E x \in Node : Commit(x)
    \/ \E b \in Branch : \/ Create(b) \/ Push(b) \/ OthersPush(b) \/ DeleteByHand(b)
                         \/ \E gone \in BOOLEAN : Merge(b, gone) \/ Close(b, gone)
    \/ Prune
    \/ \E call \in Calls : Begin(call[1], call[2])
    \/ Syncing
    \/ Crash

Spec == Init /\ [][Next]_vars

-----------------------------------------------------------------------------
(* What a sync has to get right.                                           *)

TypeOK ==
    /\ tip \in [Node -> Revision \cup {None}]
    /\ tracking \in [Node -> Revision \cup {None}]
    /\ remote \in [Node -> Revision \cup {None}]
    /\ parent \in [Branch -> Node \cup {None}]
    /\ base \in [Branch -> Revision \cup {None}]
    /\ \A b \in Branch : parent[b] = None <=> base[b] = None
    /\ recorded \in [Branch -> {"none", "open", "merged", "closed"}]
    /\ pr \in [Branch -> {"none", "open", "merged", "closed"}]
    /\ prBase \in [Branch -> Node \cup {None}]
    /\ landed \in [Branch -> SUBSET Patch]
    /\ {objects, pushed, waived} \subseteq SUBSET Patch
    /\ main \in Branch \cup {None}
    /\ sync.seen \subseteq Branch /\ sync.doomed \subseteq Branch /\ sync.todo \subseteq Node

\* The last local copy of a commit goes only if the commit has been pushed, or
\* somebody chose so, or sync could not see it.
WorkIsKept ==
    [][\A p \in Local(tip) \ Local(tip') : p \in pushed' \cup waived']_vars

\* What a branch would replay on its parent is its own: commits of branches
\* below that have landed are not in it, those of branches that were closed are.
OwnCommits ==
    \A b \in {c \in Tracked : pr[c] \in {"none", "open"}} :
        LET closed == {d \in Chain(b) : pr[d] = "closed"}
        IN \A p \in ToSet(tip[b]) \ ToSet(base[b]) :
              p.n > 0 => p.home \in {b} \cup UNION {Chain(d) : d \in closed}

\* README: a merged branch that has local commits that were never pushed is
\* skipped, and there is a warning.
UnpushedWorkStays ==
    [][\A b \in Branch :
          Exists(b) /\ tip'[b] = None /\ pr[b] = "merged" /\ sync.mode = "batch" =>
              ToSet(tip[b]) \subseteq pushed]_vars

\* When branches are deleted none that sync knows is left on them.
NoOrphans ==
    sync.pc = "restack" => \A b \in sync.seen : Exists(parent[b])

\* The same, with the types: a record has a parent and a base, or neither.
Coherent == TypeOK /\ NoOrphans

\* A closed branch on one deleted by hand cannot be deleted: sync fails on it.
Stuck == \E b \in Tracked : /\ recorded[b] = "closed" /\ parent[b] # Trunk /\ ~Exists(parent[b])
                            /\ \E c \in Tracked : parent[c] = b

Finished(b) == pr[b] \in {"merged", "closed"}

Kept(b) == main \in Branch /\ b \in Chain(main)

\* A sync that nobody disturbs leaves the branches it knows in order, unless it
\* fails: those above one that it has moved, or all with --restack, are on
\* their parent's tip, and those whose pull request is merged or
\* closed are gone if they are what the remote has.
SyncTidies ==
    [][~Idle /\ Idle' /\ sync.calm /\ UNCHANGED events =>
          Stuck \/ \A b \in sync.seen :
              /\ Chain(b) \cap sync.moved # {} \/ sync.all =>
                    IsAncestor(tip'[parent'[b]], tip'[b]) /\ base'[b] = tip'[parent'[b]]
              /\ Finished(b) /\ sync.mode # "prompt" => tip[b] # remote[b] \/ Kept(b)]_vars
=============================================================================
