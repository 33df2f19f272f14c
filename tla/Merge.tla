--------------------------------- MODULE Merge ---------------------------------
(***************************************************************************)
(* stackit merge: next, drain, the bottom-up wizard and ship, beside the   *)
(* people who commit and merge, and a GitHub that merges when it is ready. *)
(*                                                                         *)
(* The bottom pull request lands as one squashed commit, and with it the   *)
(* branch above it has a parent that is gone, a base that is a merged      *)
(* branch, and a remote branch that still has the merged commits.  What    *)
(* repairs each of these is a step of its own, here and on the remote, and *)
(* a command may die or fail between any two.                              *)
(***************************************************************************)
EXTENDS Naturals, FiniteSets, Landed

CONSTANTS Parent,        \* per branch the branch it is created on
          Ship,          \* the consolidation branch
          Setups,        \* the commands that people use, and whether GitHub
                         \* deletes the heads of merged pull requests and
                         \* stackit's pre-push hook is installed
          MaxCommands,   \* bound on commands
          MaxPatches,    \* bound on commits
          MaxTroubles    \* bound on failures, crashes and merges by hand

Node == Branch \cup {Trunk}
Patch == [home : Node \cup {Ship}, n : 0 .. MaxPatches + 1]
Revision == Seq(Patch)
Kinds == {"sync", "next", "drain", "steps", "ship", "shipLater"}

ASSUME ConstantsAssumption ==
    /\ Trunk \notin Branch /\ {None, Ship} \cap Node = {} /\ None # Ship
    /\ Parent \in [Branch -> Node]
    /\ Setups \subseteq [kinds : SUBSET Kinds, gone : BOOLEAN, hook : BOOLEAN]
    /\ {MaxCommands, MaxPatches, MaxTroubles} \subseteq Nat

VARIABLES lock,       \* metadata: the reason why a branch is locked
          tracking,   \* refs/remotes/origin
          remote,     \* the branches of the remote
          pr,         \* GitHub: the state of the branch's pull request
          prBase,     \* the branch it is to be merged into
          auto,       \* the branches with automerge enabled
          ship,       \* what the consolidation has, when it is open
          cmd,        \* the command that is running
          late,       \* commits that a command has no chance to see, or has
                      \* warned of
          setup, made, troubles, commands

localVars  == <<tip, parent, base, recorded, lock>>
remoteVars == <<remote, pr, prBase, auto, landed, ship>>
history    == <<late, setup>>
counters   == <<made, troubles, commands>>
vars == <<localVars, tracking, remoteVars, cmd, history, counters>>

\* todo is what one step leaves to the next; calm says that nothing stands in
\* the way of what has been planned.
NoCmd == [kind |-> None, pc |-> "idle", target |-> None, plan |-> <<>>, all |-> {}, steps |-> <<>>,
          todo |-> {}, calm |-> FALSE]

Idle == cmd.pc = "idle"

\* Everything that some branch here, or some ref of the remote's, has.
All(t) == UNION {ToSet(t[x]) : x \in {y \in Node : t[y] # None}}

\* b and what it is stacked on, from the bottom up.
Downstack(b) ==
    LET up[x \in Node, i \in 0 .. Cardinality(Branch)] ==
            IF x \notin Tracked \/ i = 0 THEN <<>> ELSE Append(up[parent[x], i - 1], x)
    IN up[b, Cardinality(Branch)]

\* What is stacked on b, and b.
Upstack(b) == {c \in Tracked : b \in ToSet(Downstack(c))}

\* From the bottom up.
Sorted(S) == SetToSortSeq(S, LAMBDA b, c : Len(Downstack(b)) < Len(Downstack(c)))

\* The stack, all submitted.
Init ==
    LET at[x \in Node] == IF x = Trunk THEN <<[home |-> Trunk, n |-> 1]>>
                          ELSE Append(at[Parent[x]], [home |-> x, n |-> 1])
    IN /\ tip = at /\ tracking = at /\ remote = at
       /\ parent = Parent /\ prBase = Parent
       /\ base = [b \in Branch |-> at[Parent[b]]]
       /\ recorded = [b \in Branch |-> "open"] /\ pr = recorded
       /\ lock = [b \in Branch |-> "none"]
       /\ landed = [b \in Branch \cup {Ship} |-> {}]
       /\ auto = {} /\ ship = None /\ cmd = NoCmd /\ late = {}
       /\ setup \in Setups
       /\ made = 1 /\ troubles = 0 /\ commands = 0

-----------------------------------------------------------------------------
(* People and GitHub.                                                      *)

Making == made <= MaxPatches /\ made' = made + 1
Trouble == troubles < MaxTroubles /\ troubles' = troubles + 1

\* The commands that follow a plan of steps do not look at a branch again.
Unseen(x) ==
    \/ cmd.kind \in {"steps", "ship", "shipLater"} /\ x \in cmd.all
    \/ cmd.pc = "clean"

\* A commit, here or, on trunk, by somebody else.
Commit(x) ==
    /\ Making
    /\ LET new == [home |-> x, n |-> made + 1]
       IN /\ IF x = Trunk
             THEN remote' = [remote EXCEPT ![x] = Append(@, new)] /\ UNCHANGED tip
             ELSE Exists(x) /\ tip' = [tip EXCEPT ![x] = Append(@, new)] /\ UNCHANGED remote
          /\ late' = IF Unseen(x) THEN late \cup {new} ELSE late
    /\ cmd' = IF Unseen(x) THEN [cmd EXCEPT !.calm = FALSE] ELSE cmd
    /\ UNCHANGED <<parent, base, recorded, lock, tracking, pr, prBase, auto, landed, ship, setup,
                   troubles, commands>>

\* What a merge of b's pull request adds to its base.
Added(b) == Contents(remote[b]) \ Contents(remote[prBase[b]])

CanLand(b) ==
    /\ pr[b] = "open" /\ remote[b] # None /\ remote[prBase[b]] # None
    /\ Added(b) # {}

\* Squash and merge.  If the head goes with it, what was based on it is
\* retargeted.
Land(b) ==
    /\ landed' = [landed EXCEPT ![b] = Added(b)]
    /\ remote' = [remote EXCEPT ![prBase[b]] = Append(@, Squash(b)),
                                ![b] = IF setup.gone THEN None ELSE @]
    /\ prBase' = [c \in Branch |-> IF setup.gone /\ prBase[c] = b THEN prBase[b] ELSE prBase[c]]
    /\ pr' = [pr EXCEPT ![b] = "merged"]
    /\ auto' = auto \ {b}
    /\ UNCHANGED ship

\* The same for the consolidation's.
LandShip ==
    /\ landed' = [landed EXCEPT ![Ship] = ship]
    /\ remote' = [remote EXCEPT ![Trunk] = Append(@, Squash(Ship))]
    /\ ship' = None
    /\ auto' = auto \ {Ship}
    /\ UNCHANGED <<pr, prBase>>

MergeByHand(b) ==
    /\ Trouble /\ CanLand(b) /\ prBase[b] = Trunk
    /\ Land(b)
    /\ cmd' = IF Idle THEN cmd ELSE [cmd EXCEPT !.calm = FALSE]
    /\ UNCHANGED <<localVars, tracking, history, made, commands>>

\* GitHub merges what was enabled once its checks have passed.
AutoMerge(b) ==
    /\ b \in auto /\ CanLand(b)
    /\ Land(b)
    /\ cmd' = IF Idle \/ cmd.pc = "await" THEN cmd ELSE [cmd EXCEPT !.calm = FALSE]
    /\ UNCHANGED <<localVars, tracking, history, counters>>

AutoMergeShip ==
    /\ Ship \in auto /\ LandShip
    /\ UNCHANGED <<localVars, tracking, cmd, history, counters>>

-----------------------------------------------------------------------------
(* A command.                                                              *)

Running(kinds, pc) == cmd.kind \in kinds /\ cmd.pc = pc

Goto(pc, todo) == cmd' = [cmd EXCEPT !.pc = pc, !.todo = todo] /\ UNCHANGED lock

\* unlockDrainBranches, when a drain returns.
Unlocked ==
    [b \in Branch |-> IF cmd.kind = "drain" /\ b \in cmd.all \cap Tracked /\ lock[b] = "draining"
                      THEN "none" ELSE lock[b]]

Return == cmd' = NoCmd /\ lock' = Unlocked

\* A step that fails ends the command; what it has done stays.
Fails ==
    /\ ~Idle /\ Trouble
    /\ Return
    /\ UNCHANGED <<tip, parent, base, recorded, tracking, remoteVars, history, made, commands>>

\* The process dies.
Crash ==
    /\ ~Idle /\ Trouble
    /\ cmd' = NoCmd
    /\ UNCHANGED <<localVars, tracking, remoteVars, history, made, commands>>

\* CollectMergeBranches: up to the target, without what has been merged.
PlanFor(t) == SelectSeq(Downstack(t), LAMBDA b : pr[b] = "open")

Step(do, b) == [do |-> do, of |-> b]
Each(do, bs) == [i \in DOMAIN bs |-> Step(do, bs[i])]

\* buildBottomUpSteps.
BottomUpSteps(plan, up) ==
    FlattenSeq([i \in DOMAIN plan |->
        <<Step("merge", plan[i]), Step("pull", None)>>
        \o IF i < Len(plan) THEN <<Step("restack", plan[i + 1])>> ELSE <<>>])
    \o Each("delete", plan) \o Each("restack", up)

\* buildShipSteps, and inside consolidation.
ShipSteps(plan, up, wait) ==
    <<Step("pull", None), Step("consolidate", None)>>
    \o IF wait THEN <<Step("land", None), Step("close", None), Step("pull", None)>>
                    \o Each("delete", plan) \o Each("restack", up)
       ELSE <<Step("enable", None)>>

\* The plan is made, shown and confirmed.  The wizard warns of branches that
\* differ from the remote's, a consolidation refuses them.
Begin(k, t) ==
    /\ Idle /\ commands < MaxCommands /\ commands' = commands + 1
    /\ k \in setup.kinds /\ t \in Tracked
    /\ LET plan == PlanFor(t)
           up == Sorted(Upstack(t) \ {t})
           differ == {b \in ToSet(plan) : tip[b] # remote[b]}
       IN /\ k # "sync" => plan # <<>>
          /\ k \in {"drain", "steps", "ship", "shipLater"} =>
                \A b \in ToSet(Downstack(t)) : pr[b] \in {"open", "merged"}
          /\ k \in {"ship", "shipLater"} => ship = None /\ landed[Ship] = {} /\ differ = {}
          /\ cmd' = [NoCmd EXCEPT
                !.kind = k, !.target = t, !.plan = plan, !.all = ToSet(plan),
                !.pc = CASE k = "sync" -> "look" [] k = "drain" -> "plan" [] k = "next" -> "check"
                         [] OTHER -> "step",
                !.steps = CASE k = "steps" -> <<Step("pull", None)>> \o BottomUpSteps(plan, up)
                            [] k \in {"ship", "shipLater"} -> ShipSteps(plan, up, k = "ship")
                            [] OTHER -> <<>>,
                !.calm = (k # "sync" => prBase[Head(plan)] = Trunk) /\ (k = "steps" => differ = {})]
          /\ lock' = IF k = "drain" THEN [b \in Branch |-> IF b \in ToSet(plan) THEN "draining" ELSE lock[b]]
                     ELSE lock
          /\ late' = late \cup {p \in UNION {ToSet(tip[b]) \ ToSet(remote[b]) : b \in differ} : k = "steps"}
    /\ UNCHANGED <<tip, parent, base, recorded, tracking, remoteVars, setup, made, troubles>>

-----------------------------------------------------------------------------
(* next and drain: the lowest pull request.                                *)

Lowest == Head(cmd.plan)

\* A drain plans anew for each, and is done when it finds nothing.
PlanNext ==
    /\ Running({"drain"}, "plan")
    /\ LET plan == IF cmd.target \in Tracked THEN PlanFor(cmd.target) ELSE <<>>
       IN IF plan = <<>> THEN Return
          ELSE cmd' = [cmd EXCEPT !.plan = plan, !.pc = "check"] /\ UNCHANGED lock
    /\ UNCHANGED <<tip, parent, base, recorded, tracking, remoteVars, history, counters>>

\* orchestrateMerge.  Without automerge it waits here until the pull request
\* can be merged, or is.
CheckPR ==
    /\ Running({"next", "drain"}, "check")
    /\ Goto(IF pr[Lowest] = "merged" THEN "look" ELSE "direct", {})
    /\ UNCHANGED <<tip, parent, base, recorded, tracking, remoteVars, history, counters>>

\* It is not ready: GitHub is to merge it.  next may leave it at that.
EnableAutoMerge(wait) ==
    /\ Running({"next", "drain"}, "check") /\ pr[Lowest] = "open"
    /\ cmd.kind = "drain" => wait
    /\ auto' = auto \cup {Lowest}
    /\ IF wait THEN Goto("await", {}) ELSE Return
    /\ UNCHANGED <<tip, parent, base, recorded, tracking, remote, pr, prBase, landed, ship, history, counters>>

MergeDirectly ==
    /\ Running({"next", "drain"}, "direct")
    /\ IF CanLand(Lowest) THEN Land(Lowest) /\ Goto("look", {})
       ELSE Return /\ UNCHANGED remoteVars
    /\ UNCHANGED <<tip, parent, base, recorded, tracking, history, counters>>

AwaitMerge ==
    /\ Running({"next", "drain"}, "await") /\ pr[Lowest] = "merged"
    /\ Goto("look", {})
    /\ UNCHANGED <<tip, parent, base, recorded, tracking, remoteVars, history, counters>>

-----------------------------------------------------------------------------
(* What a restack in a merge does.                                         *)

\* shouldReparentBranch, of the parent.
Leave(p) ==
    /\ p # Trunk
    /\ ~Exists(p) \/ BranchLanded(p, tip[p], IF p \in Tracked THEN parent[p] ELSE Trunk)

\* findNearestValidAncestor.
Above(x) ==
    LET up[y \in Node, i \in 0 .. Cardinality(Branch)] ==
            IF ~Leave(y) \/ i = 0 THEN y ELSE up[IF y \in Tracked THEN parent[y] ELSE Trunk, i - 1]
    IN up[x, Cardinality(Branch)]

\* What has landed stays, and what somebody has locked.
Stays(b) == lock[b] \notin {"none", "draining"} \/ BranchLanded(b, tip[b], parent[b])

\* The branches S, on their parents or on what is left of those.
RestackAll(S) ==
    LET todo == {b \in S \cap Tracked : ~Stays(b)}
        on == [b \in Branch |-> IF b \in todo THEN Above(parent[b]) ELSE parent[b]]
        from(b) == IF on[b] = parent[b] THEN base[b] ELSE NewBase(b, on[b], FALSE)
        old(b) == IF IsAncestor(from(b), tip[b]) THEN from(b) ELSE MergeBase(tip[b], tip[on[b]])
        new[x \in Node] ==
            IF x \notin todo THEN tip[x]
            ELSE IF new[on[x]] = old(x) THEN tip[x] ELSE Rebased(new[on[x]], old(x), tip[x])
    IN /\ tip' = [x \in Node |-> new[x]]
       /\ parent' = on
       /\ base' = [b \in Branch |-> IF b \in todo THEN new[on[b]] ELSE base[b]]

-----------------------------------------------------------------------------
(* PostMergeSync: trunk is checked out and synced, with a restack.         *)

\* Commits of others, and those that landed, are known once trunk has them.
Known(r) == \A p \in ToSet(r) : p.home = Trunk \/ p.n = 0 => p \in ToSet(tracking[Trunk])

\* Mutant: whatever it is, it may go.
UnpushedNever(b) == FALSE

\* The branch differs from the remote's, and not only by being behind.
Unpushed(b) ==
    LET there == IF remote[b] # None THEN remote[b] ELSE tracking[b]
    IN tip[b] # there /\ ~(Known(there) /\ IsAncestor(tip[b], there))

\* Trunk moves, what GitHub says is recorded, and pull requests whose parent has
\* moved are retargeted.
Look ==
    /\ cmd.pc = "look"
    /\ tip' = [tip EXCEPT ![Trunk] = remote[Trunk]]
    /\ tracking' = [tracking EXCEPT ![Trunk] = remote[Trunk]]
    /\ recorded' = [b \in Branch |-> IF b \in Tracked THEN pr[b] ELSE recorded[b]]
    /\ prBase' = [b \in Branch |-> IF b \in Tracked /\ pr[b] = "open" /\ remote[parent[b]] # None
                                  THEN parent[b] ELSE prBase[b]]
    /\ Goto("clean", {b \in Tracked : Unpushed(b)})
    /\ UNCHANGED <<parent, base, remote, pr, auto, landed, ship, history, counters>>

\* What has landed goes, unless it has more than the remote; its children move.
Clean ==
    /\ cmd.pc = "clean"
    /\ LET D == {b \in Tracked \ cmd.todo : DeletionKind(b) # "none"}
           moved == {b \in Tracked \ D : parent[b] \in D}
           on(b) == LET up[y \in Node] == IF y \in D THEN up[parent[y]] ELSE y IN up[parent[b]]
           keep(b) == DeletionKind(parent[b]) \in {"merged", "empty"}
       IN /\ parent' = [b \in Branch |-> IF b \in D THEN None ELSE IF b \in moved THEN on(b) ELSE parent[b]]
          /\ base' = [b \in Branch |-> IF b \in D THEN None
                                       ELSE IF b \in moved THEN NewBase(b, on(b), keep(b)) ELSE base[b]]
          /\ tip' = [x \in Node |-> IF x \in D THEN None ELSE tip[x]]
          /\ recorded' = [b \in Branch |-> IF b \in D THEN "none" ELSE recorded[b]]
          /\ cmd' = [cmd EXCEPT !.pc = "restack", !.todo = moved]
          /\ lock' = [b \in Branch |-> IF b \in D THEN "none" ELSE lock[b]]
    /\ UNCHANGED <<tracking, remoteVars, history, counters>>

\* Mutant: only what the drain goes on with.
ScopeRest(rest) == rest

\* In a drain the rest of it and what the clean-up has moved, otherwise all.
Scope(rest) ==
    IF cmd.kind = "drain" THEN rest \cup UNION {Upstack(b) : b \in cmd.todo} ELSE Tracked

RestackScope ==
    /\ cmd.pc = "restack"
    /\ LET rest == IF cmd.kind = "drain" THEN Tail(cmd.plan) ELSE <<>>
       IN /\ RestackAll(Scope(ToSet(rest)))
          /\ IF cmd.kind # "drain" THEN Return
             ELSE Goto(IF rest = <<>> THEN "plan" ELSE "publish", {})
    /\ UNCHANGED <<recorded, tracking, remoteVars, history, counters>>

-----------------------------------------------------------------------------
(* A drain publishes what it has restacked: a submit of what is above the  *)
(* merged branch, that creates no pull request.                            *)

\* ... of a branch in place on a parent that goes with it, or is there already.
Publishable ==
    LET next == cmd.plan[2]
        S == IF next \in Tracked THEN Upstack(next) ELSE {}
        ok[b \in S, i \in 0 .. Cardinality(Branch)] ==
            \/ parent[b] = Trunk
            \/ IF parent[b] \in S THEN i > 0 /\ ok[parent[b], i - 1] /\ base[b] = tip[parent[b]]
               ELSE tip[parent[b]] = remote[parent[b]]
    IN {b \in S : ok[b, Cardinality(Branch)] /\ pr[b] = "open"}

\* The pre-push hook refuses a push of locked branches, the drain's own too.
Refused(S) == setup.hook /\ \E b \in S : lock[b] # "none"

PublishHeads ==
    /\ Running({"drain"}, "publish")
    /\ LET S == {b \in Publishable : tip[b] # remote[b]}
       IN IF Refused(S) THEN Return /\ UNCHANGED <<tracking, remote>>
          ELSE /\ remote' = [x \in Node |-> IF x \in S THEN tip[x] ELSE remote[x]]
               /\ tracking' = [x \in Node |-> IF x \in S THEN tip[x] ELSE tracking[x]]
               /\ Goto("retarget", Publishable)
    /\ UNCHANGED <<tip, parent, base, recorded, pr, prBase, auto, landed, ship, history, counters>>

\* Mutant: the bases stay what they are.
RetargetedNone(S) == prBase

Retargeted(S) == [b \in Branch |-> IF b \in S /\ pr[b] = "open" THEN parent[b] ELSE prBase[b]]

PublishBases ==
    /\ Running({"drain"}, "retarget")
    /\ prBase' = Retargeted(cmd.todo)
    /\ Goto("plan", {})
    /\ UNCHANGED <<tip, parent, base, recorded, tracking, remote, pr, auto, landed, ship, history, counters>>

-----------------------------------------------------------------------------
(* The wizard and ship: a plan of steps, in a worktree of its own.         *)

Doing(do) == cmd.pc = "step" /\ cmd.steps # <<>> /\ Head(cmd.steps).do = do
Of == Head(cmd.steps).of

Onward(r) == cmd' = [r EXCEPT !.pc = "step", !.steps = Tail(@)] /\ UNCHANGED lock

StepMergePR ==
    /\ Doing("merge")
    /\ IF CanLand(Of) THEN Land(Of) /\ Onward(cmd) ELSE Return /\ UNCHANGED remoteVars
    /\ UNCHANGED <<tip, parent, base, recorded, tracking, history, counters>>

StepPullTrunk ==
    /\ Doing("pull")
    /\ tip' = [tip EXCEPT ![Trunk] = remote[Trunk]]
    /\ tracking' = [tracking EXCEPT ![Trunk] = remote[Trunk]]
    /\ Onward(cmd)
    /\ UNCHANGED <<parent, base, recorded, remoteVars, history, counters>>

StepRestack ==
    /\ Doing("restack")
    /\ IF Of \in Tracked
       THEN /\ RestackAll({Of})
            /\ Goto("push", IF tip'[Of] = tip[Of] THEN {} ELSE {Of})
       ELSE Return /\ UNCHANGED <<tip, parent, base>>
    /\ UNCHANGED <<recorded, tracking, remoteVars, history, counters>>

\* ... pushed without a lease,
StepPush ==
    /\ cmd.pc = "push"
    /\ remote' = [remote EXCEPT ![Of] = tip[Of]]
    /\ tracking' = [tracking EXCEPT ![Of] = tip[Of]]
    /\ Goto("base", cmd.todo)
    /\ UNCHANGED <<tip, parent, base, recorded, pr, prBase, auto, landed, ship, history, counters>>

\* ... and with its pull request retargeted.  That this fails matters only if
\* the branch has been restacked.
StepBase ==
    /\ cmd.pc = "base"
    /\ IF pr[Of] = "open" /\ remote[parent[Of]] = None
       THEN UNCHANGED prBase /\ IF cmd.todo = {} THEN Onward(cmd) ELSE Return
       ELSE /\ prBase' = [prBase EXCEPT ![Of] = IF pr[Of] = "open" THEN parent[Of] ELSE @]
            /\ Onward([cmd EXCEPT !.todo = {}])
    /\ UNCHANGED <<tip, parent, base, recorded, tracking, remote, pr, auto, landed, ship, history, counters>>

\* DeleteBranch: the children go to the branch's parent and keep their bases.
StepDeleteBranch ==
    /\ Doing("delete")
    /\ IF Of \in Tracked
       THEN /\ tip' = [tip EXCEPT ![Of] = None]
            /\ parent' = [b \in Branch |-> IF b = Of THEN None ELSE IF parent[b] = Of THEN parent[Of] ELSE parent[b]]
            /\ base' = [base EXCEPT ![Of] = None]
            /\ recorded' = [recorded EXCEPT ![Of] = "none"]
            /\ lock' = [lock EXCEPT ![Of] = "none"]
            /\ cmd' = [cmd EXCEPT !.steps = Tail(@)]
       ELSE Onward(cmd) /\ UNCHANGED <<tip, parent, base, recorded>>
    /\ UNCHANGED <<tracking, remoteVars, history, counters>>

\* The octopus of the branches as they are now, pushed, with its pull request;
\* the branches are locked.
StepConsolidate ==
    /\ Doing("consolidate")
    /\ LET new == UNION {Contents(tip[b]) : b \in {c \in cmd.all : Exists(c)}} \ Contents(tip[Trunk])
       IN IF new = {} \/ \E b \in cmd.all : ~Exists(b) THEN Return /\ UNCHANGED ship
          ELSE /\ ship' = new
               /\ lock' = [b \in Branch |-> IF b \in cmd.all /\ lock[b] = "none" THEN "consolidating" ELSE lock[b]]
               /\ cmd' = [cmd EXCEPT !.steps = Tail(@)]
    /\ UNCHANGED <<tip, parent, base, recorded, tracking, remote, pr, prBase, auto, landed, history, counters>>

\* WaitAndMerge.
MergeShip ==
    /\ Doing("land") /\ LandShip /\ Onward(cmd)
    /\ UNCHANGED <<tip, parent, base, recorded, tracking, history, counters>>

\* ... or GitHub is to merge it.
EnableShip ==
    /\ Doing("enable")
    /\ auto' = auto \cup {Ship} /\ Onward(cmd)
    /\ UNCHANGED <<tip, parent, base, recorded, tracking, remote, pr, prBase, landed, ship, history, counters>>

\* CleanupBranches: the pull requests that went with it are closed.
ClosePRs ==
    /\ Doing("close")
    /\ pr' = [b \in Branch |-> IF b \in cmd.all /\ pr[b] = "open" THEN "closed" ELSE pr[b]]
    /\ Onward(cmd)
    /\ UNCHANGED <<tip, parent, base, recorded, tracking, remote, prBase, auto, landed, ship, history, counters>>

\* After the last step: a sync, if the wizard's user wants it.
StepsDone(sync) ==
    /\ cmd.pc = "step" /\ cmd.steps = <<>>
    /\ cmd.kind # "steps" => (sync <=> cmd.kind = "ship")
    /\ IF sync THEN Goto("look", {}) ELSE Return
    /\ UNCHANGED <<tip, parent, base, recorded, tracking, remoteVars, history, counters>>

-----------------------------------------------------------------------------
OnePR == PlanNext \/ CheckPR \/ (\E wait \in BOOLEAN : EnableAutoMerge(wait)) \/ MergeDirectly \/ AwaitMerge

PostMergeSync == Look \/ Clean \/ RestackScope

Steps ==
    \/ StepMergePR \/ StepPullTrunk \/ StepRestack \/ StepPush \/ StepBase \/ StepDeleteBranch
    \/ StepConsolidate \/ MergeShip \/ EnableShip \/ ClosePRs
    \/ \E sync \in BOOLEAN : StepsDone(sync)

Next ==
    \/ \E x \in Node : Commit(x)
    \/ \E b \in Branch : MergeByHand(b) \/ AutoMerge(b)
    \/ AutoMergeShip
    \/ \E k \in Kinds, t \in Branch : Begin(k, t)
    \/ OnePR \/ PostMergeSync \/ PublishHeads \/ PublishBases \/ Steps
    \/ Fails \/ Crash

Spec == Init /\ [][Next]_vars

-----------------------------------------------------------------------------
(* What merging a stack has to get right.                                  *)

TypeOK ==
    /\ tip \in [Node -> Revision \cup {None}] /\ tracking \in [Node -> Revision]
    /\ remote \in [Node -> Revision \cup {None}]
    /\ parent \in [Branch -> Node \cup {None}] /\ base \in [Branch -> Revision \cup {None}]
    /\ \A b \in Branch : (parent[b] = None <=> base[b] = None) /\ (parent[b] = None <=> ~Exists(b))
    /\ recorded \in [Branch -> {"none", "open", "merged", "closed"}]
    /\ lock \in [Branch -> {"none", "draining", "consolidating"}]
    /\ pr \in [Branch -> {"open", "merged", "closed"}] /\ prBase \in [Branch -> Node]
    /\ auto \subseteq Branch \cup {Ship} /\ landed \in [Branch \cup {Ship} -> SUBSET Patch]
    /\ ship \in SUBSET Patch \cup {None} /\ late \subseteq Patch
    /\ cmd.todo \subseteq Branch /\ cmd.all \subseteq Branch

\* What a branch would replay on its parent is its own.
OwnCommits ==
    LET below[x \in Node] == IF x = Trunk THEN {} ELSE {x} \cup below[Parent[x]]
        sound == {b \in Tracked : pr[b] = "open" /\ \A c \in below[b] : pr[c] # "closed"}
    IN \A b \in sound : \A p \in ToSet(tip[b]) \ ToSet(base[b]) : p.n > 0 => p.home = b

\* The same, with the types.
Coherent == TypeOK /\ OwnCommits

\* Every pull request that a command merges goes to trunk, with its branch's
\* own commits and no other's.
EveryMergeLands ==
    [][\A b \in Branch :
          pr[b] = "open" /\ pr'[b] = "merged" /\ cmd'.calm =>
              prBase[b] = Trunk /\ \A p \in landed'[b] \ late : p.home = b \/ pr[p.home] # "open"]_vars

\* A branch that goes leaves nothing behind that has not been merged, except what
\* the command could not see or has warned of.
DeletedHasLanded ==
    [][\A p \in All(tip) \ All(tip') : p.n > 0 => p \in late \cup All(remote) \cup UNION Range(landed)]_vars

\* A drain that nobody gets in the way of and that has no trouble merges all that
\* it set out to, and what was stacked on that no longer has its commits.  With
\* the pre-push hook it refuses its own push.
DrainDelivers ==
    [][cmd.kind = "drain" /\ cmd.calm /\ Idle' /\ troubles' = troubles /\ ~setup.hook =>
          /\ \A b \in cmd.all : pr[b] = "merged"
          /\ \A b \in Tracked : pr[b] = "open" =>
                \A p \in ToSet(tip[b]) : p.n > 0 => p.home \notin cmd.all \ Tracked]_vars
=============================================================================
