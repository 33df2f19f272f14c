-------------------------------- MODULE Submit --------------------------------
(***************************************************************************)
(* stackit submit: local branches become remote branches and pull          *)
(* requests.                                                               *)
(*                                                                         *)
(* A submit looks at GitHub, plans, pushes all branches at once, and then  *)
(* writes each pull request by itself.  Every request can fail, and the    *)
(* process can die after each.  What it leaves behind is the next          *)
(* submit's to notice: from the metadata, and from the mark that it set    *)
(* before the push.                                                        *)
(*                                                                         *)
(* GitHub compares a pull request's head with the commit its base branch   *)
(* had when the base was set.  A fast-forward of the base branch takes     *)
(* that commit along, a rewrite does not.                                  *)
(***************************************************************************)
EXTENDS Naturals, Revisions

CONSTANTS Branch, Trunk, None,
          Parent,        \* per branch the branch it is created on
          News,          \* which branches may not have been submitted before
          Busy,          \* people go on working while a submit runs
          MaxPatches,    \* bound on commits, rewritten commits and landings
          MaxEvents      \* bound on moves, failures, crashes and what others do

Node == Branch \cup {Trunk}
Patch == [home : Node, n : 0 .. MaxPatches]
Revision == Seq(Patch)

\* The parents par lead to trunk: a set that a branch is in when its parent is
\* in it, or is trunk, has every branch.
Rooted(par) ==
    \A T \in SUBSET Branch :
        (\A b \in Branch : par[b] \in T \cup {Trunk} => b \in T) => T = Branch

ASSUME ConstantsAssumption ==
    /\ Trunk \notin Branch /\ None \notin Node /\ None \notin Revision
    /\ Parent \in [Branch -> Node] /\ Rooted(Parent)
    /\ \A new \in News : \A b \in Branch : Parent[b] \in new => b \in new
    /\ News \subseteq SUBSET Branch /\ Busy \in BOOLEAN
    /\ {MaxPatches, MaxEvents} \subseteq Nat

VARIABLES tip,        \* refs/heads
          parent,     \* metadata: parentBranchName
          base,       \* metadata: parentBranchRevision
          recorded,   \* metadata: prInfo
          pending,    \* local metadata: submitPending
          remote,     \* the branches of the remote, or None
          tracked,    \* refs/remotes: what was last seen of the remote's branches
          shared,     \* the remote's copy of parent and base
          pr,         \* GitHub's pull requests
          submit,     \* the submit that is running
          owes,       \* branches pushed since their pull request was written
          apart,      \* branches that GitHub has compared with something else
                      \* since it was recorded, or whose remote branch did not
                      \* have what was recorded
          made, events

localVars  == <<tip, parent, base>>
records    == <<recorded, pending>>
remoteVars == <<remote, shared, pr>>
history    == <<owes, apart>>
counters   == <<made, events>>
vars == <<localVars, records, tracked, remoteVars, submit, history, counters>>

NoPr     == [state |-> "none", base |-> None, from |-> None]
NoRecord == [state |-> "none", base |-> None, sha |-> None]

\* scope, status, kept, infos and stage are what the submit has worked out so
\* far; listed says that the remote has answered for it, calm that nothing else
\* has happened meanwhile.
NoSubmit == [pc |-> "idle", calm |-> TRUE, listed |-> TRUE, scope |-> {}, status |-> None,
             kept |-> None, infos |-> <<>>, stage |-> <<>>]

Idle == submit.pc = "idle"
Free == Busy \/ Idle

\* b and what it is stacked on.
Downstack(b) == LET up[x \in Node] == IF x = Trunk THEN {} ELSE {x} \cup up[parent[x]]
                IN up[b]

\* ... and what is stacked on it.
Upstack(b) == {c \in Branch : b \in Downstack(c)}

Init ==
    LET at[x \in Node] == IF x = Trunk THEN <<[home |-> Trunk, n |-> 0]>>
                          ELSE Append(at[Parent[x]], [home |-> x, n |-> 0])
    IN \E new \in News :
        /\ tip = [x \in Node |-> at[x]]
        /\ parent = Parent
        /\ base = [b \in Branch |-> at[Parent[b]]]
        /\ recorded = [b \in Branch |-> IF b \in new THEN NoRecord
                         ELSE [state |-> "open", base |-> Parent[b], sha |-> at[Parent[b]]]]
        /\ pending = {}
        /\ remote = [x \in Node |-> IF x \in new THEN None ELSE at[x]]
        /\ tracked = [b \in Branch |-> remote[b]]
        /\ shared = [b \in Branch |-> IF b \in new THEN None
                         ELSE [parent |-> Parent[b], base |-> at[Parent[b]]]]
        /\ pr = [b \in Branch |-> IF b \in new THEN NoPr
                         ELSE [state |-> "open", base |-> Parent[b], from |-> at[Parent[b]]]]
        /\ submit = NoSubmit /\ owes = {} /\ apart = {}
        /\ made = 0 /\ events = 0

-----------------------------------------------------------------------------
(* GitHub.                                                                 *)

\* The branches in news go to new revisions; what open pull requests into them
\* are compared with follows if it can.
Receive(news, more) ==
    LET at(x) == IF x \in DOMAIN news THEN news[x] ELSE remote[x]
        follow == {b \in Branch : /\ pr[b].state = "open" /\ pr[b].from # at(pr[b].base)
                                  /\ IsAncestor(pr[b].from, at(pr[b].base))}
    IN /\ remote' = [x \in Node |-> at(x)]
       /\ pr' = [b \in Branch |-> IF b \in follow THEN [pr[b] EXCEPT !.from = at(pr[b].base)] ELSE pr[b]]
       /\ apart' = apart \cup follow \cup more

SetBase(b, x) ==
    /\ pr' = [pr EXCEPT ![b] = [state |-> "open", base |-> x, from |-> remote[x]]]
    /\ apart' = apart \cup {b}

\* What GitHub shows as the pull request's commits.
Shown(b) ==
    LET meet == MergeBase(pr[b].from, remote[b])
    IN ToSet(SubSeq(remote[b], Len(meet) + 1, Len(remote[b])))

-----------------------------------------------------------------------------
(* People, and other clones.                                               *)

Making == made < MaxPatches /\ made' = made + 1
Happens == events < MaxEvents /\ events' = events + 1
Disturbs == submit' = IF Idle THEN submit ELSE [submit EXCEPT !.calm = FALSE]

Commit(b) ==
    /\ Free /\ Disturbs /\ Making
    /\ tip' = [tip EXCEPT ![b] = Append(@, [home |-> b, n |-> made + 1])]
    /\ UNCHANGED <<parent, base, records, tracked, remoteVars, history, events>>

Amend(b) ==
    /\ Free /\ Disturbs /\ Making
    /\ tip' = [tip EXCEPT ![b] = Append(SubSeq(@, 1, Len(@) - 1), [home |-> b, n |-> made + 1])]
    /\ UNCHANGED <<parent, base, records, tracked, remoteVars, history, events>>

\* Where the branches S come to lie when they are restacked on their parents.
Stacked(par, S) ==
    LET up[x \in Node] == IF x \in S THEN Replay(up[par[x]], base[x], tip[x]) ELSE tip[x] IN up

RestackOn(par, S) ==
    LET new == Stacked(par, S)
    IN /\ parent' = par /\ tip' = new
       /\ base' = [b \in Branch |-> IF b \in S THEN new[par[b]] ELSE base[b]]

Restack ==
    /\ Free /\ Disturbs
    /\ \E b \in Branch : base[b] # tip[parent[b]]
    /\ RestackOn(parent, Branch)
    /\ UNCHANGED <<records, tracked, remoteVars, history, counters>>

\* stackit move.
Move(b, x) ==
    /\ Free /\ Disturbs /\ Happens
    /\ x # parent[b] /\ x \notin Upstack(b)
    /\ RestackOn([parent EXCEPT ![b] = x], Upstack(b))
    /\ UNCHANGED <<records, tracked, remoteVars, history, made>>

\* Somebody lands something else, and trunk is pulled.
PullTrunk ==
    /\ Free /\ Disturbs /\ Making
    /\ tip' = [tip EXCEPT ![Trunk] = Append(@, [home |-> Trunk, n |-> made + 1])]
    /\ Receive([x \in {Trunk} |-> tip'[x]], {})
    /\ UNCHANGED <<parent, base, records, tracked, shared, owes, events>>

\* Somebody else pushes to the branch.
OthersPush(b) ==
    /\ Free /\ Disturbs /\ Making /\ remote[b] # None
    /\ Receive([x \in {b} |-> Append(remote[x], [home |-> x, n |-> made + 1])], {})
    /\ UNCHANGED <<localVars, records, tracked, shared, owes, events>>

\* git fetch.
Fetch ==
    /\ Free /\ Disturbs
    /\ tracked' = [b \in Branch |-> remote[b]]
    /\ UNCHANGED <<localVars, records, remoteVars, history, counters>>

\* On GitHub's pages.
Close(b) ==
    /\ Free /\ Disturbs /\ Happens /\ pr[b].state = "open"
    /\ pr' = [pr EXCEPT ![b].state = "closed"]
    /\ UNCHANGED <<localVars, records, tracked, remote, shared, history, made>>

Retarget(b, x) ==
    /\ Free /\ Disturbs /\ Happens
    /\ pr[b].state = "open" /\ x \notin {b, pr[b].base} /\ remote[x] # None
    /\ SetBase(b, x)
    /\ UNCHANGED <<localVars, records, tracked, remote, shared, owes, made>>

-----------------------------------------------------------------------------
(* A submit: looking and planning.                                         *)

Begin(S) ==
    /\ Idle
    /\ submit' = [NoSubmit EXCEPT !.pc = "look", !.scope = S]
    /\ UNCHANGED <<localVars, records, tracked, remoteVars, history, counters>>

\* A branch of the remote as git ls-remote lists it; what is not listed, or all
\* when that fails, is taken to be what it was when it was last fetched or pushed.
Seen(lists, b) == IF lists /\ remote[b] # None THEN remote[b] ELSE tracked[b]

\* git ls-remote, while the branches are validated.  Its failure is swallowed.
ListRemote(lists) ==
    /\ submit.pc = "look" /\ submit.status = None
    /\ IF lists THEN UNCHANGED events ELSE Happens
    /\ submit' = [submit EXCEPT
             !.status = [b \in submit.scope |-> [local |-> tip[b], remote |-> Seen(lists, b)]],
             !.listed = lists,
             !.pc = IF submit.kept = None THEN @ ELSE "plan"]
    /\ UNCHANGED <<localVars, records, tracked, remoteVars, history, made>>

\* A branch must be restacked on a parent that is submitted with it, and goes
\* only if its parent does.  Another parent must be what the remote has of it.
Submittable(S, lists) ==
    LET ok[x \in Node] ==
            \/ x = Trunk
            \/ /\ x \in S
               /\ \/ parent[x] = Trunk
                  \/ IF parent[x] \in S
                     THEN ok[parent[x]] /\ base[x] = tip[parent[x]]
                     ELSE tip[parent[x]] = Seen(lists, parent[x])
    IN {b \in S : ok[b]}

\* ValidateBranchesToSubmit: what GitHub knows of the pull requests is
\* recorded, if it answers.
Validate(answers, lists) ==
    /\ submit.pc = "look" /\ submit.kept = None
    /\ IF answers
       THEN /\ recorded' = [b \in Branch |->
                 IF b \in submit.scope /\ pr[b].state # "none"
                 THEN [recorded[b] EXCEPT !.state = pr[b].state, !.base = pr[b].base] ELSE recorded[b]]
            /\ UNCHANGED events
       ELSE Happens /\ UNCHANGED recorded
    /\ LET kept == Submittable(submit.scope, lists)
       IN submit' = IF kept = {} THEN NoSubmit
                    ELSE [submit EXCEPT !.kept = kept, !.calm = @ /\ answers,
                                        !.pc = IF submit.status = None THEN @ ELSE "plan"]
    /\ UNCHANGED <<localVars, pending, tracked, remoteVars, history, made>>

Matches(b) == submit.status[b].local = submit.status[b].remote

\* A closed pull request is followed by a new one.
Creates(b) == recorded[b].state \in {"none", "closed"}

\* Mutant: what an earlier submit has left undone is not looked for.
NeedsUpdateSeen(b) == recorded[b].base # parent[b] \/ ~Matches(b)

NeedsUpdate(b) == recorded[b].base # parent[b] \/ ~Matches(b) \/ b \in pending

Plan ==
    /\ submit.pc = "plan"
    /\ LET I == {b \in submit.kept : Creates(b) \/ NeedsUpdate(b)}
       IN submit' = [submit EXCEPT
             !.infos = [b \in I |-> [create |-> Creates(b), base |-> parent[b], sha |-> tip[parent[b]]]],
             !.pc = IF I = {} THEN "done" ELSE "mark"]
    /\ UNCHANGED <<localVars, records, tracked, remoteVars, history, counters>>

Infos == DOMAIN submit.infos
Info(b) == submit.infos[b]

MarkPending ==
    /\ submit.pc = "mark"
    /\ pending' = pending \cup Infos
    /\ submit' = [submit EXCEPT !.pc = "push"]
    /\ UNCHANGED <<localVars, recorded, tracked, remoteVars, history, counters>>

-----------------------------------------------------------------------------
(* A submit: writing.                                                      *)

\* One git push, each branch with the revision just listed as its lease.  It
\* pushes what the branch is by now.
Push(works) ==
    /\ submit.pc = "push"
    /\ IF works THEN UNCHANGED events ELSE Happens
    /\ LET due == {b \in Infos : ~Matches(b)}
           P == IF works THEN {b \in due : remote[b] = submit.status[b].remote} ELSE {}
       IN /\ Receive([b \in P |-> tip[b]],
                     {b \in P : Info(b).base # Trunk /\ ~IsAncestor(Info(b).sha, tip[b])})
          /\ tracked' = [b \in Branch |-> IF b \in P THEN tip[b] ELSE tracked[b]]
          /\ submit' = [submit EXCEPT !.pc = "write",
                                      !.stage = [b \in Infos |-> IF b \in due \ P THEN "failed" ELSE "call"]]
          /\ owes' = owes \cup P
    /\ UNCHANGED <<localVars, records, shared, made>>

Writing(b, s) == submit.pc = "write" /\ b \in Infos /\ submit.stage[b] = s
Stage(b, s) == submit' = [submit EXCEPT !.stage[b] = s]

CanCreate(b) == pr[b].state # "open" /\ remote[b] # None /\ remote[Info(b).base] # None

Create(b) ==
    /\ Writing(b, "call") /\ Info(b).create /\ CanCreate(b)
    /\ SetBase(b, Info(b).base)
    /\ Stage(b, "written")
    /\ owes' = owes \ {b}
    /\ UNCHANGED <<localVars, records, tracked, remote, shared, counters>>

CreateFails(b) ==
    /\ Writing(b, "call") /\ Info(b).create
    /\ IF CanCreate(b) THEN Happens ELSE UNCHANGED events
    /\ Stage(b, "failed")
    /\ UNCHANGED <<localVars, records, tracked, remoteVars, history, made>>

BaseChanged(b) == recorded[b].base # Info(b).base

\* Mutant: the parent's fast-forward is what is looked for.
BaseSHAIsStaleForward(b) ==
    /\ ~BaseChanged(b) /\ Info(b).base # Trunk /\ recorded[b].sha \notin {None, Info(b).sha}
    /\ IsAncestor(recorded[b].sha, Info(b).sha)

\* The parent has been rewritten since its revision was recorded.
BaseSHAIsStale(b) ==
    /\ ~BaseChanged(b) /\ Info(b).base # Trunk /\ recorded[b].sha # None
    /\ ~IsAncestor(recorded[b].sha, Info(b).sha)

\* The pull request goes to trunk first, so that GitHub compares anew when it
\* comes back.
ToTrunk(b) ==
    /\ Writing(b, "call") /\ ~Info(b).create /\ BaseSHAIsStale(b) /\ pr[b].state = "open"
    /\ SetBase(b, Trunk)
    /\ Stage(b, "back")
    /\ UNCHANGED <<localVars, records, tracked, remote, shared, owes, counters>>

ToTrunkFails(b) ==
    /\ Writing(b, "call") /\ ~Info(b).create /\ BaseSHAIsStale(b)
    /\ IF pr[b].state = "open" THEN Happens ELSE UNCHANGED events
    /\ Stage(b, "stale")
    /\ apart' = apart \cup {b}
    /\ UNCHANGED <<localVars, records, tracked, remoteVars, owes, made>>

\* The call that writes the pull request, and with it the base where needed.
Updating(b) ==
    \/ Writing(b, "call") /\ ~Info(b).create /\ ~BaseSHAIsStale(b)
    \/ Writing(b, "back") \/ Writing(b, "stale")

SetsBase(b) == submit.stage[b] = "back" \/ BaseChanged(b)

CanUpdate(b) == SetsBase(b) => pr[b].state = "open" /\ remote[Info(b).base] # None

Update(b) ==
    /\ Updating(b) /\ CanUpdate(b)
    /\ IF SetsBase(b) THEN SetBase(b, Info(b).base) ELSE UNCHANGED <<pr, apart>>
    /\ Stage(b, IF submit.stage[b] = "stale" THEN "writtenStale" ELSE "written")
    /\ owes' = owes \ {b}
    /\ UNCHANGED <<localVars, records, tracked, remote, shared, counters>>

\* The base is put back, if that works.
UpdateFails(b, restored) ==
    /\ Updating(b)
    /\ IF CanUpdate(b) THEN Happens ELSE UNCHANGED events
    /\ restored => submit.stage[b] = "back" /\ CanUpdate(b)
    /\ IF restored THEN SetBase(b, Info(b).base) ELSE UNCHANGED <<pr, apart>>
    /\ Stage(b, "failed")
    /\ UNCHANGED <<localVars, records, tracked, remote, shared, owes, made>>

\* UpsertPrInfo.
Record(b) ==
    /\ Writing(b, "written") \/ Writing(b, "writtenStale")
    /\ LET sha == IF Writing(b, "writtenStale") THEN recorded[b].sha ELSE Info(b).sha
           same == Writing(b, "written") /\ pr[b].base = Info(b).base /\ pr[b].from = sha
       IN /\ recorded' = [recorded EXCEPT ![b] = [state |-> "open", base |-> Info(b).base, sha |-> sha]]
          /\ apart' = IF ~IsAncestor(sha, remote[b]) THEN apart \cup {b}
                      ELSE IF same THEN apart \ {b} ELSE apart
    /\ Stage(b, "recorded")
    /\ UNCHANGED <<localVars, pending, tracked, remoteVars, owes, counters>>

Finished == {b \in Infos : submit.stage[b] = "recorded"}
Failed == {b \in Infos : submit.stage[b] = "failed"}

\* Mutant: the mark goes with the push.
WrittenAll == Infos

\* The branches whose mark goes.
Written == Finished

ClearPending ==
    /\ submit.pc = "write" /\ Finished \cup Failed = Infos
    /\ pending' = pending \ Written
    /\ submit' = IF Failed # {} THEN NoSubmit ELSE [submit EXCEPT !.pc = "share"]
    /\ UNCHANGED <<localVars, recorded, tracked, remoteVars, history, counters>>

Local(b) == [parent |-> parent[b], base |-> base[b]]

\* pushMetadataRefs.
Share ==
    /\ submit.pc = "share"
    /\ shared' = [b \in Branch |-> IF b \in submit.kept THEN Local(b) ELSE shared[b]]
    /\ submit' = [submit EXCEPT !.pc = "done"]
    /\ UNCHANGED <<localVars, records, tracked, remote, pr, history, counters>>

ShareFails ==
    /\ submit.pc = "share" /\ Happens
    /\ submit' = NoSubmit
    /\ UNCHANGED <<localVars, records, tracked, remoteVars, history, made>>

Done ==
    /\ submit.pc = "done"
    /\ submit' = NoSubmit
    /\ UNCHANGED <<localVars, records, tracked, remoteVars, history, counters>>

Crash ==
    /\ submit.pc \notin {"idle", "done"} /\ Happens
    /\ submit' = NoSubmit
    /\ UNCHANGED <<localVars, records, tracked, remoteVars, history, made>>

-----------------------------------------------------------------------------
Looking ==
    \/ \E lists \in BOOLEAN : ListRemote(lists) \/ \E answers \in BOOLEAN : Validate(answers, lists)
    \/ Plan \/ MarkPending

Writes(b) ==
    \/ Create(b) \/ CreateFails(b)
    \/ ToTrunk(b) \/ ToTrunkFails(b)
    \/ Update(b) \/ \E restored \in BOOLEAN : UpdateFails(b, restored)
    \/ Record(b)

Submitting ==
    \/ Looking
    \/ \E works \in BOOLEAN : Push(works)
    \/ \E b \in Branch : Writes(b)
    \/ ClearPending \/ Share \/ ShareFails \/ Done

Others ==
    \/ PullTrunk \/ Fetch
    \/ \E b \in Branch : OthersPush(b) \/ Close(b) \/ \E x \in Node : Retarget(b, x)

Next ==
    \/ \E b \in Branch : Commit(b) \/ Amend(b) \/ \E x \in Node : Move(b, x)
    \/ Restack
    \/ Others
    \/ \E b \in Branch : Begin(Downstack(b)) \/ Begin(Downstack(b) \cup Upstack(b))
    \/ Submitting
    \/ Crash

Spec == Init /\ [][Next]_vars

-----------------------------------------------------------------------------
(* Correctness.                                                            *)

\* What the variables can be; what is shared always has a base.
TypeOK ==
    /\ tip \in [Node -> Revision]
    /\ parent \in [Branch -> Node] /\ base \in [Branch -> Revision]
    /\ recorded \in [Branch -> [state : {"none", "open", "closed"}, base : Node \cup {None},
                                sha : Revision \cup {None}]]
    /\ pending \subseteq Branch /\ owes \subseteq Branch /\ apart \subseteq Branch
    /\ remote \in [Node -> Revision \cup {None}] /\ tracked \in [Branch -> Revision \cup {None}]
    /\ shared \in [Branch -> [parent : Node, base : Revision] \cup {None}]
    /\ pr \in [Branch -> [state : {"none", "open", "closed"}, base : Node \cup {None},
                          from : Revision \cup {None}]]
    /\ submit.pc \in {"idle", "look", "plan", "mark", "push", "write", "share", "done"}
    /\ \A b \in DOMAIN submit.stage :
          submit.stage[b] \in {"call", "back", "stale", "written", "writtenStale", "recorded", "failed"}
    /\ made \in 0 .. MaxPatches /\ events \in 0 .. MaxEvents

\* On GitHub the branch is what it is here: the same commits in a pull request
\* to its parent, which shows the branch's own.  When the remote could not be
\* listed it may have others' commits besides, which nothing has fetched since.
Delivered(b) ==
    /\ remote[b] = tip[b] \/ (~submit.listed /\ tracked[b] = tip[b] /\ IsAncestor(tip[b], remote[b]))
    /\ pr[b].state = "open" /\ pr[b].base = parent[b]
    /\ b \notin apart => \A p \in Shown(b) : p.home = b

\* Whatever has happened before, to whatever submits: one that succeeds with
\* nothing happening beside it delivers every branch, those included that it
\* found to need nothing.
SubmitDelivers == submit.pc = "done" /\ submit.calm => \A b \in submit.kept : Delivered(b)

\* A branch that has been pushed since its pull request was last written is
\* marked, wherever a submit ends or dies (MarkBranchesSubmitPending).
PushesAreRemembered == owes \subseteq pending
=============================================================================
