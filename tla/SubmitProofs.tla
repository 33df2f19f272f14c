---------------------------- MODULE SubmitProofs ----------------------------
(***************************************************************************)
(* Theorems about Submit, for any stack, any number of submits, failures,  *)
(* crashes, and of things that others do.                                  *)
(*                                                                         *)
(* A branch may be pushed without its pull request being written, and then *)
(* nothing on GitHub or in the refs tells the next submit so: the branch   *)
(* is where its remote is.  The mark in its local metadata does.  That the *)
(* mark is there needs three things together: the mark is set before the   *)
(* push, for every branch that is pushed (MarkedFirst); it goes only when  *)
(* the pull request is recorded; and what is recorded was written after    *)
(* the push (Settled).                                                     *)
(*                                                                         *)
(* A submit that succeeds undisturbed has delivered every branch           *)
(* (Delivers).  It does not write what looks unchanged, so that what       *)
(* earlier submits have recorded has to be true of GitHub still, for every *)
(* branch that GitHub has not compared with something else since.  Nor     *)
(* does it push what matches: the remote-tracking refs, which it goes by   *)
(* when the remote cannot be listed, have to be a part of what the remote  *)
(* has.                                                                    *)
(***************************************************************************)
EXTENDS Submit, StackLemmas

\* The steps of a branch at which its pull request has been written.
After == {"written", "writtenStale", "recorded"}

\* The branches whose push comes next, or has come, are marked.
MarkedFirst == submit.pc \in {"push", "write"} => Infos \subseteq pending

\* What has been written since the push is not owed any more.
Settled ==
    submit.pc = "write" => /\ DOMAIN submit.stage = Infos
                           /\ \A b \in Infos : submit.stage[b] \in After => b \notin owes

\* The inductive invariant.
MarksHold ==
    /\ DOMAIN submit = DOMAIN NoSubmit
    /\ MarkedFirst /\ Settled /\ PushesAreRemembered

-----------------------------------------------------------------------------
\* A command begins with nothing pushed and nothing owed.
LEMMA MarksInit == Init => MarksHold
BY DEF Init, MarksHold, NoSubmit, MarkedFirst, Settled, PushesAreRemembered

\* A submit that ends, in whatever way, leaves the marks: only their being a
\* superset of what is owed is left to claim.
LEMMA Ends ==
    ASSUME MarksHold, submit' = NoSubmit, UNCHANGED <<pending, owes>>
    PROVE  MarksHold'
BY DEF MarksHold, NoSubmit, MarkedFirst, Settled, PushesAreRemembered

\* People and other clones touch neither marks nor what is owed; a submit that
\* runs beside them notes no more than that it is not alone.
LEMMA Beside ==
    ASSUME MarksHold, Disturbs, UNCHANGED <<pending, owes>>
    PROVE  MarksHold'
<1>1. CASE Idle
  BY <1>1 DEF Disturbs, Idle, MarksHold, MarkedFirst, Settled, PushesAreRemembered, Infos
<1>2. CASE ~Idle
  <2>1. /\ DOMAIN submit' = DOMAIN submit
        /\ submit'.pc = submit.pc /\ submit'.infos = submit.infos /\ submit'.stage = submit.stage
    BY <1>2 DEF Disturbs, MarksHold, NoSubmit
  <2> QED
    BY <2>1 DEF MarksHold, MarkedFirst, Settled, PushesAreRemembered, Infos
<1> QED
  BY <1>1, <1>2

\* Before the marks are set there is nothing to claim of the submit.
LEMMA Looks ==
    ASSUME MarksHold, UNCHANGED <<pending, owes>>,
           DOMAIN submit' = DOMAIN NoSubmit, submit'.pc \notin {"push", "write"}
    PROVE  MarksHold'
BY DEF MarksHold, MarkedFirst, Settled, PushesAreRemembered

\* A step of the submit at one branch: it may settle what is owed for it, and
\* must have done so if the branch then counts as written.
LEMMA WritesOne ==
    ASSUME MarksHold, NEW b, NEW s, submit.pc = "write", Stage(b, s),
           UNCHANGED pending, owes' \subseteq owes,
           s \in After => b \notin owes'
    PROVE  MarksHold'
<1>1. /\ DOMAIN submit' = DOMAIN submit
      /\ submit'.pc = "write" /\ submit'.infos = submit.infos
      /\ submit'.stage = [submit.stage EXCEPT ![b] = s]
  BY DEF Stage, MarksHold, NoSubmit
<1> QED
  BY <1>1 DEF MarksHold, MarkedFirst, Settled, PushesAreRemembered, Infos

-----------------------------------------------------------------------------
\* Every step keeps the marks.
LEMMA MarksStep == MarksHold /\ [Next]_vars => MarksHold'
<1> SUFFICES ASSUME MarksHold, [Next]_vars PROVE MarksHold'
  OBVIOUS
<1>1. ASSUME NEW b \in Branch, Commit(b) \/ Amend(b) \/ \E x \in Node : Move(b, x)
      PROVE  MarksHold'
  BY <1>1, Beside DEF Commit, Amend, Move, records, history
<1>2. CASE Restack
  BY <1>2, Beside DEF Restack, records, history
<1>3. CASE Others
  <2>1. CASE PullTrunk \/ Fetch
    BY <2>1, Beside DEF PullTrunk, Fetch, records, history
  <2>2. ASSUME NEW b \in Branch, OthersPush(b) \/ Close(b) \/ \E x \in Node : Retarget(b, x)
        PROVE  MarksHold'
    BY <2>2, Beside DEF OthersPush, Close, Retarget, records, history
  <2> QED
    BY <1>3, <2>1, <2>2 DEF Others
<1>4. ASSUME NEW S, Begin(S) PROVE MarksHold'
  BY <1>4, Looks DEF Begin, NoSubmit, records, history
<1>5. CASE Looking
  <2> USE DEF MarksHold, NoSubmit, records, history
  <2>1. ASSUME NEW lists \in BOOLEAN, ListRemote(lists) PROVE MarksHold'
    BY <2>1, Looks DEF ListRemote
  <2>2. ASSUME NEW answers \in BOOLEAN, NEW lists \in BOOLEAN, Validate(answers, lists) PROVE MarksHold'
    <3>1. UNCHANGED <<pending, owes>>
      BY <2>2 DEF Validate
    <3>2. DOMAIN submit' = DOMAIN NoSubmit /\ submit'.pc \notin {"push", "write"}
      BY <2>2 DEF Validate
    <3> QED
      BY <3>1, <3>2, Looks
  <2>3. CASE Plan
    BY <2>3, Looks DEF Plan
  <2>4. CASE MarkPending
    BY <2>4 DEF MarkPending, MarkedFirst, Settled, PushesAreRemembered, Infos
  <2> QED
    BY <1>5, <2>1, <2>2, <2>3, <2>4 DEF Looking
<1>6. ASSUME NEW works \in BOOLEAN, Push(works) PROVE MarksHold'
  <2> DEFINE due == {b \in Infos : ~Matches(b)}
             P == IF works THEN {b \in due : remote[b] = submit.status[b].remote} ELSE {}
  <2>1. /\ submit.pc = "push" /\ owes' = owes \cup P /\ pending' = pending
        /\ submit' = [submit EXCEPT !.pc = "write",
                         !.stage = [b \in Infos |-> IF b \in due \ P THEN "failed" ELSE "call"]]
    BY <1>6 DEF Push, records
  <2>2. P \subseteq Infos
    OBVIOUS
  <2> HIDE DEF due, P
  <2>3. /\ DOMAIN submit' = DOMAIN submit
        /\ submit'.pc = "write" /\ submit'.infos = submit.infos
        /\ submit'.stage = [b \in Infos |-> IF b \in due \ P THEN "failed" ELSE "call"]
    BY <2>1 DEF MarksHold, NoSubmit
  <2>4. Infos' = Infos /\ Infos \subseteq pending
    BY <2>1, <2>3 DEF Infos, MarksHold, MarkedFirst
  <2>5. \A b \in Infos : submit'.stage[b] \notin After
    BY <2>3 DEF After
  <2> QED
    BY <2>1, <2>2, <2>3, <2>4, <2>5 DEF MarksHold, MarkedFirst, Settled, PushesAreRemembered
<1>7. ASSUME NEW b \in Branch, Writes(b) PROVE MarksHold'
  <2> USE DEF Writing, records, history, After
  <2>1. CASE Create(b)
    BY <2>1, WritesOne DEF Create
  <2>2. CASE CreateFails(b)
    BY <2>2, WritesOne DEF CreateFails
  <2>3. CASE ToTrunk(b) \/ ToTrunkFails(b)
    BY <2>3, WritesOne DEF ToTrunk, ToTrunkFails
  <2>4. CASE Update(b)
    <3>1. /\ submit.pc = "write" /\ UNCHANGED pending /\ owes' = owes \ {b}
          /\ Stage(b, IF submit.stage[b] = "stale" THEN "writtenStale" ELSE "written")
      BY <2>4 DEF Update, Updating
    <3> QED
      BY <3>1, WritesOne
  <2>5. ASSUME NEW restored \in BOOLEAN, UpdateFails(b, restored) PROVE MarksHold'
    <3>1. submit.pc = "write" /\ UNCHANGED <<pending, owes>> /\ Stage(b, "failed")
      BY <2>5 DEF UpdateFails, Updating
    <3> QED
      BY <3>1, WritesOne
  <2>6. CASE Record(b)
    <3>1. /\ submit.pc = "write" /\ UNCHANGED <<pending, owes>> /\ Stage(b, "recorded")
          /\ b \in Infos /\ submit.stage[b] \in After
      BY <2>6 DEF Record
    <3>2. b \notin owes
      BY <3>1 DEF MarksHold, Settled
    <3> QED
      BY <3>1, <3>2, WritesOne
  <2> QED
    BY <1>7, <2>1, <2>2, <2>3, <2>4, <2>5, <2>6 DEF Writes
<1>8. CASE ClearPending
  <2>1. \A b \in Finished : b \notin owes
    BY <1>8 DEF ClearPending, Finished, MarksHold, Settled, After
  <2>2. /\ owes' = owes /\ pending' = pending \ Finished
        /\ submit' = IF Failed # {} THEN NoSubmit ELSE [submit EXCEPT !.pc = "share"]
    BY <1>8 DEF ClearPending, Written, history
  <2>3. owes' \subseteq pending'
    BY <2>1, <2>2 DEF MarksHold, PushesAreRemembered
  <2>4. DOMAIN submit' = DOMAIN NoSubmit /\ submit'.pc \notin {"push", "write"}
    BY <2>2 DEF MarksHold, NoSubmit
  <2> QED
    BY <2>3, <2>4 DEF MarksHold, MarkedFirst, Settled, PushesAreRemembered
<1>9. CASE Share
  BY <1>9, Looks DEF Share, MarksHold, NoSubmit, records, history
<1>10. CASE ShareFails \/ Done \/ Crash
  BY <1>10, Ends DEF ShareFails, Done, Crash, records, history
<1>11. CASE UNCHANGED vars
  BY <1>11 DEF vars, records, history, MarksHold, MarkedFirst, Settled, PushesAreRemembered, Infos
<1> QED
  BY <1>1, <1>2, <1>3, <1>4, <1>5, <1>6, <1>7, <1>8, <1>9, <1>10, <1>11 DEF Next, Submitting

\* A branch that has been pushed since its pull request was last written is
\* marked, wherever submits have ended, failed or died: the next submit does
\* not take it for up to date.
THEOREM PushesRemembered == Spec => []PushesAreRemembered
<1>1. MarksHold => PushesAreRemembered
  BY DEF MarksHold
<1> QED
  BY MarksInit, MarksStep, <1>1, PTL DEF Spec

-----------------------------------------------------------------------------
(* Parents.                                                                *)

\* The branches from a branch down to trunk, for any parents.
Below(par) == LET up[x \in Node] == IF x = Trunk THEN {} ELSE {x} \cup up[par[x]]
              IN up

LEMMA BelowIs ==
    ASSUME NEW par \in [Branch -> Node], Rooted(par)
    PROVE  /\ Below(par)[Trunk] = {}
           /\ \A b \in Branch : Below(par)[b] = {b} \cup Below(par)[par[b]]
           /\ \A x \in Node : Below(par)[x] \subseteq Branch
<1> DEFINE F == [b \in Branch |-> [s \in SUBSET Branch |-> {b} \cup s]]
           IsUp(u) == u = [x \in Node |-> IF x = Trunk THEN {} ELSE {x} \cup u[par[x]]]
           up == CHOOSE u : IsUp(u)
<1>1. Trunk \notin Branch
  BY ConstantsAssumption
<1>2. Tree(par, Branch, Trunk)
  BY <1>1 DEF Tree, Rooted, Node
<1>3. F \in Steps(Branch, SUBSET Branch)
  BY DEF Steps
<1>4. \A b \in Branch, s \in SUBSET Branch : F[b][s] = {b} \cup s
  OBVIOUS
<1> HIDE DEF F
<1>5. PICK f : Recursion(f, par, Branch, Trunk, SUBSET Branch, {}, F)
  <2>1. {} \in SUBSET Branch
    OBVIOUS
  <2> QED
    BY <1>2, <1>3, <2>1, RootRecursion
<1>6. /\ f \in [Node -> SUBSET Branch] /\ f[Trunk] = {}
      /\ \A b \in Branch : f[b] = {b} \cup f[par[b]]
  BY <1>4, <1>5 DEF Recursion, Node
<1>7. IsUp(f)
  BY <1>1, <1>6 DEF Node
<1>8. IsUp(up)
  <2> HIDE DEF IsUp
  <2> QED
    BY <1>7
<1>9. Below(par) = up
  BY DEF Below
<1> HIDE DEF up
<1>10. /\ up[Trunk] = {} /\ \A b \in Branch : up[b] = {b} \cup up[par[b]]
  BY <1>1, <1>8 DEF Node
<1>11. \A x \in Node : up[x] \subseteq Branch
  <2> DEFINE T == {b \in Branch : up[b] \subseteq Branch}
  <2>1. \A b \in Branch : par[b] \in T \cup {Trunk} => b \in T
    BY <1>10
  <2>2. T \in SUBSET Branch
    OBVIOUS
  <2>3. T = Branch
    <3> HIDE DEF T
    <3> QED
      BY <2>1, <2>2 DEF Rooted
  <2> QED
    BY <1>10, <2>3 DEF Node
<1> QED
  BY <1>9, <1>10, <1>11

LEMMA DownstackIs == ASSUME NEW b PROVE Downstack(b) = Below(parent)[b]
BY DEF Downstack, Below

\* What is below a branch that is below another is below that one too; and no
\* branch is below its parent.
LEMMA BelowOrders ==
    ASSUME NEW par \in [Branch -> Node], Rooted(par)
    PROVE  /\ \A x \in Node : \A c \in Below(par)[x] : Below(par)[c] \subseteq Below(par)[x]
           /\ \A b \in Branch : b \notin Below(par)[par[b]]
<1> DEFINE d == Below(par)
           T == {b \in Branch : \A c \in d[b] : d[c] \subseteq d[b]}
           A == {b \in Branch : b \notin d[par[b]]}
<1>1. /\ d[Trunk] = {} /\ \A b \in Branch : d[b] = {b} \cup d[par[b]]
      /\ \A x \in Node : d[x] \subseteq Branch
  BY BelowIs
<1> HIDE DEF d
<1>2. \A b \in Branch : par[b] \in T \cup {Trunk} => b \in T
  BY <1>1
<1>3. T = Branch
  <2>1. T \in SUBSET Branch
    OBVIOUS
  <2> HIDE DEF T
  <2> QED
    BY <1>2, <2>1 DEF Rooted
<1>4. \A x \in Node : \A c \in d[x] : d[c] \subseteq d[x]
  BY <1>1, <1>3 DEF Node
<1>5. ASSUME NEW b \in Branch, par[b] \in A \cup {Trunk} PROVE b \in A
  <2>1. CASE par[b] = Trunk
    BY <1>1, <2>1
  <2>2. CASE par[b] \in A
    <3> SUFFICES ASSUME b \in d[par[b]] PROVE FALSE
      OBVIOUS
    <3>1. par[b] \in Branch /\ par[b] \notin d[par[par[b]]] /\ par[par[b]] \in Node
      BY <2>2
    <3>2. d[par[b]] = {par[b]} \cup d[par[par[b]]]
      BY <1>1, <3>1
    <3>3. par[b] \in d[b]
      BY <1>1, <3>2
    <3>4. b = par[b] \/ b \in d[par[par[b]]]
      BY <3>2
    <3> QED
      BY <1>4, <3>1, <3>3, <3>4
  <2> QED
    BY <1>5, <2>1, <2>2
<1>6. A = Branch
  <2>1. A \in SUBSET Branch
    OBVIOUS
  <2> HIDE DEF A
  <2> QED
    BY <1>5, <2>1 DEF Rooted
<1> QED
  BY <1>4, <1>6 DEF d

\* Of the branches outside of S the parents are the same, and lie outside too.
LEMMA BelowSame ==
    ASSUME NEW par \in [Branch -> Node], Rooted(par), NEW old \in [Branch -> Node], Rooted(old),
           NEW S, Trunk \notin S,
           \A c \in Branch : c \notin S => par[c] = old[c] /\ par[c] \notin S
    PROVE  \A x \in Node : x \notin S => Below(par)[x] = Below(old)[x]
<1> DEFINE T == {c \in Branch : c \notin S => Below(par)[c] = Below(old)[c]}
<1>1. /\ Below(par)[Trunk] = {} /\ \A c \in Branch : Below(par)[c] = {c} \cup Below(par)[par[c]]
      /\ Below(old)[Trunk] = {} /\ \A c \in Branch : Below(old)[c] = {c} \cup Below(old)[old[c]]
  BY BelowIs
<1>2. ASSUME NEW c \in Branch, par[c] \in T \cup {Trunk} PROVE c \in T
  <2>1. SUFFICES ASSUME c \notin S PROVE Below(par)[c] = Below(old)[c]
    OBVIOUS
  <2>2. par[c] = old[c] /\ par[c] \notin S
    BY <2>1
  <2>3. Below(par)[par[c]] = Below(old)[par[c]]
    BY <1>1, <1>2, <2>2
  <2>4. /\ Below(par)[c] = {c} \cup Below(par)[par[c]]
        /\ Below(old)[c] = {c} \cup Below(old)[old[c]]
    BY <1>1
  <2>5. Below(old)[old[c]] = Below(par)[par[c]]
    BY <2>2, <2>3
  <2> QED
    BY <2>4, <2>5
<1>3. T = Branch
  <2>1. T \in SUBSET Branch
    OBVIOUS
  <2> HIDE DEF T
  <2> QED
    BY <1>2, <2>1 DEF Rooted
<1> QED
  BY <1>1, <1>3 DEF Node

\* A branch that goes to a parent that is not stacked on it leaves the stack a
\* tree; what is stacked on it comes along.
Onto(par, b) == {c \in Branch : b \in Below(par)[c]}
Moved(par, b, x) == [par EXCEPT ![b] = x]

LEMMA MoveRoots ==
    ASSUME NEW par \in [Branch -> Node], Rooted(par), NEW b \in Branch, NEW x \in Node,
           x \notin Onto(par, b)
    PROVE  /\ Moved(par, b, x) \in [Branch -> Node] /\ Rooted(Moved(par, b, x))
           /\ \A c \in Branch : c \notin Onto(par, b) =>
                 Moved(par, b, x)[c] = par[c] /\ Moved(par, b, x)[c] \notin Onto(par, b)
<1> DEFINE S == Onto(par, b)
           new == Moved(par, b, x)
<1> USE DEF Onto, Moved
<1>1. Trunk \notin Branch /\ b \in S
  BY ConstantsAssumption, BelowIs
<1>2. \A c \in Branch : par[c] \in S => c \in S
  BY BelowIs
<1>3. ASSUME NEW T \in SUBSET Branch, \A c \in Branch : new[c] \in T \cup {Trunk} => c \in T
      PROVE  T = Branch
  <2>1. \A c \in Branch : par[c] \in (T \cup S) \cup {Trunk} => c \in T \cup S
    BY <1>1, <1>2, <1>3
  <2>2. T \cup S = Branch
    BY <2>1 DEF Rooted
  <2>3. b \in T
    BY <1>3, <2>2 DEF Node
  <2>4. \A c \in Branch : par[c] \in T \cup {Trunk} => c \in T
    BY <1>3, <2>3
  <2> QED
    BY <2>4 DEF Rooted
<1>4. new \in [Branch -> Node] /\ Rooted(new)
  BY <1>3 DEF Rooted
<1> QED
  BY <1>1, <1>2, <1>4

-----------------------------------------------------------------------------
(* A submit delivers.                                                      *)
(*                                                                         *)
(* The invariant has five parts.  The branches are a tree, and each has    *)
(* its own commits above its base and nobody else has them (StackHolds).   *)
(* The remote has what was last seen of it, and beyond that no more than   *)
(* what others have added since (TrackHolds).                              *)
(* GitHub's comparison commits follow their branches (GitHubHolds).  The   *)
(* records know of every branch that is not apart what GitHub compares it  *)
(* with (RecordsHold).  And a submit that nothing happens beside has seen  *)
(* what is still so (CalmHolds).                                           *)

\* Above its base a branch has its own commits, at least one.
OwnAbove(b) ==
    /\ IsAncestor(base[b], tip[b]) /\ Len(base[b]) < Len(tip[b])
    /\ \A p \in Above(tip[b], Len(base[b])) : p.home = b

\* Nowhere but on itself has a branch its own commits.
Homes(x) == \A p \in ToSet(tip[x]) : p.home = Trunk \/ (x \in Branch /\ p.home \in Downstack(x))

\* The stack.
StackHolds ==
    /\ Rooted(parent)
    /\ \A b \in Branch : OwnAbove(b) /\ (parent[b] = Trunk => IsAncestor(base[b], tip[Trunk]))
    /\ \A x \in Node : Homes(x)

\* What was seen of a branch on the remote is still a part of it.
Follows(b) ==
    tracked[b] # None => /\ remote[b] # None /\ IsAncestor(tracked[b], remote[b])
                         /\ \A p \in Above(remote[b], Len(tracked[b])) : p.home = b

\* The remote-tracking refs.
TrackHolds == \A b \in Branch : Follows(b)

Open(b) == pr[b].state = "open"

\* GitHub compares an open pull request with its base branch, or with what that
\* branch once was and is not made on any more.
Compared(b) ==
    /\ pr[b].base \in Node /\ pr[b].from \in Revision /\ remote[pr[b].base] # None
    /\ pr[b].from = remote[pr[b].base] \/ ~IsAncestor(pr[b].from, remote[pr[b].base])
    /\ pr[b].base = Trunk => pr[b].from = remote[Trunk]

\* GitHub.
GitHubHolds ==
    /\ remote[Trunk] = tip[Trunk]
    /\ \A b \in Branch : /\ Open(b) => Compared(b)
                         /\ pr[b].state # "none" => pr[b].base \in Node
                         /\ pr[b].state = "none" => recorded[b].state = "none"

\* What a submit has worked out is of the right kind.
StatusOK ==
    \A b \in submit.scope : /\ submit.status[b].local \in Revision
                            /\ submit.status[b].remote \in Revision \cup {None}
                            /\ submit.status[b].remote # None => remote[b] # None

Underway == {"plan", "mark", "push", "write", "share", "done"}
Planned == {"mark", "push", "write", "share", "done"}

\* A submit.
WorkOK ==
    /\ submit.scope \subseteq Branch
    /\ submit.pc = "look" => /\ submit.status = None \/ StatusOK
                             /\ submit.kept = None \/ submit.kept \subseteq submit.scope
    /\ submit.pc \in Underway => StatusOK /\ submit.kept \subseteq submit.scope
    /\ submit.pc \in Planned =>
          /\ Infos \subseteq submit.kept
          /\ \A b \in Infos : /\ Info(b).base \in Node /\ Info(b).sha \in Revision
                              /\ ~Info(b).create => pr[b].state # "none"
    /\ submit.pc = "write" =>
          \A b \in Infos : /\ submit.stage[b] # "failed" => remote[b] # None
                           /\ submit.stage[b] \notin {"call", "failed"} => pr[b].state # "none"
                           /\ submit.stage[b] \in {"stale", "writtenStale"} => b \in apart

\* What is recorded of a branch that is not apart.
Known(b) ==
    /\ recorded[b].base = pr[b].base
    /\ pr[b].base # Trunk => recorded[b].sha \in Revision /\ IsAncestor(pr[b].from, recorded[b].sha)

\* Its remote branch is made on what GitHub compares it with.
Stands(b) == remote[b] # None /\ IsAncestor(pr[b].from, remote[b])
Settling(b) == submit.pc = "write" /\ b \in Infos /\ submit.stage[b] = "recorded"

\* The records.
RecordHolds(b) ==
    Open(b) /\ b \notin apart =>
        /\ Known(b)
        /\ pr[b].base # Trunk /\ (b \notin pending \/ Settling(b)) => Stands(b)
        /\ Writing(b, "written") => /\ pr[b].base = Info(b).base
                                    /\ pr[b].base # Trunk => IsAncestor(pr[b].from, Info(b).sha)

RecordsHold == \A b \in Branch : RecordHolds(b)

\* While nothing happens beside a submit, what it has seen is what is.
Listed ==
    \A b \in submit.scope :
        submit.status[b] = [local |-> tip[b], remote |-> Seen(submit.listed, b)]

\* As far as the submit can know, the remote has what is here.
Current(b) == remote[b] = tip[b] \/ (~submit.listed /\ tracked[b] = tip[b])

\* Of the branches it goes on with, the parents are among them.
Kept ==
    /\ submit.kept \subseteq submit.scope
    /\ \A b \in submit.kept : \/ parent[b] = Trunk
                              \/ parent[b] \in submit.kept /\ base[b] = tip[parent[b]]
Looked ==
    \A b \in submit.kept : /\ recorded[b].state = pr[b].state
                           /\ pr[b].state # "none" => recorded[b].base = pr[b].base

\* The branch is on GitHub what it is here.
Same(b) == Open(b) /\ pr[b].base = parent[b]
Left == submit.kept \ Infos

WriteHolds(b) ==
    LET s == submit.stage[b]
    IN /\ s # "failed" => Current(b)
       /\ s = "call" /\ ~Info(b).create => Open(b) /\ recorded[b].base = pr[b].base
       /\ s \in {"back", "stale"} => Open(b)
       /\ s = "stale" => pr[b].base = Info(b).base
       /\ s \in After => Open(b) /\ pr[b].base = Info(b).base

\* A submit that nothing happens beside.
CalmHolds ==
    submit.calm /\ submit.pc # "idle" =>
      /\ \A b \in submit.scope : parent[b] = Trunk \/ parent[b] \in submit.scope
      /\ submit.pc = "look" => /\ submit.status = None \/ Listed
                               /\ submit.kept = None \/ (Kept /\ Looked)
      /\ submit.pc \in {"plan", "mark", "push"} => Listed /\ Looked
      /\ submit.pc \in Underway => Kept
      /\ submit.pc \in Planned =>
            /\ \A b \in Infos : Info(b).base = parent[b] /\ Info(b).sha = tip[parent[b]]
            /\ \A b \in Left : Same(b) /\ b \notin pending
      /\ submit.pc \in {"mark", "push"} =>
            /\ \A b \in Infos : ~Info(b).create => recorded[b].state = "open"
            /\ \A b \in Left : Matches(b)
      /\ submit.pc = "write" => /\ \A b \in Left : Current(b)
                                /\ \A b \in Infos : WriteHolds(b)
      /\ submit.pc \in {"share", "done"} =>
            \A b \in submit.kept : Same(b) /\ b \notin pending /\ Current(b)

\* The inductive invariant.
Holds ==
    /\ MarksHold
    /\ TypeOK /\ StackHolds /\ TrackHolds /\ GitHubHolds /\ WorkOK /\ RecordsHold /\ CalmHolds

-----------------------------------------------------------------------------
(* The stack.                                                              *)

LEMMA StackedIs ==
    ASSUME NEW par \in [Branch -> Node], Rooted(par), NEW S, Trunk \notin S,
           tip \in [Node -> Revision], base \in [Branch -> Revision]
    PROVE  /\ Stacked(par, S) \in [Node -> Revision] /\ Stacked(par, S)[Trunk] = tip[Trunk]
           /\ \A c \in Branch :
                 Stacked(par, S)[c] = IF c \in S THEN Replay(Stacked(par, S)[par[c]], base[c], tip[c])
                                      ELSE tip[c]
<1> DEFINE F == [c \in Branch |-> [q \in Revision |-> IF c \in S THEN Replay(q, base[c], tip[c])
                                                      ELSE tip[c]]]
           IsUp(u) == u = [x \in Node |-> IF x \in S THEN Replay(u[par[x]], base[x], tip[x]) ELSE tip[x]]
           up == CHOOSE u : IsUp(u)
<1>1. Trunk \notin Branch /\ Trunk \in Node /\ Branch \subseteq Node
  BY ConstantsAssumption DEF Node
<1>2. Tree(par, Branch, Trunk)
  BY <1>1 DEF Tree, Rooted, Node
<1>3. F \in Steps(Branch, Revision)
  <2>1. ASSUME NEW c \in Branch, NEW q \in Revision
        PROVE  (IF c \in S THEN Replay(q, base[c], tip[c]) ELSE tip[c]) \in Revision
    <3>1. base[c] \in Revision /\ tip[c] \in Revision
      BY <1>1
    <3> QED
      BY <3>1, ReplayIs DEF Revision
  <2> QED
    BY <2>1 DEF Steps
<1>4. \A c \in Branch, q \in Revision : F[c][q] = IF c \in S THEN Replay(q, base[c], tip[c]) ELSE tip[c]
  OBVIOUS
<1> HIDE DEF F
<1>5. PICK f : Recursion(f, par, Branch, Trunk, Revision, tip[Trunk], F)
  <2>1. tip[Trunk] \in Revision
    BY <1>1
  <2> QED
    BY <1>2, <1>3, <2>1, RootRecursion
<1>6. /\ f \in [Node -> Revision] /\ f[Trunk] = tip[Trunk]
      /\ \A c \in Branch : f[c] = F[c][f[par[c]]]
  BY <1>5 DEF Recursion, Node
<1>7. \A c \in Branch : f[c] = IF c \in S THEN Replay(f[par[c]], base[c], tip[c]) ELSE tip[c]
  BY <1>4, <1>6
<1>8. IsUp(f)
  BY <1>1, <1>6, <1>7 DEF Node
<1>9. IsUp(up)
  <2> HIDE DEF IsUp
  <2> QED
    BY <1>8
<1>10. Stacked(par, S) = up
  BY DEF Stacked
<1> HIDE DEF up
<1>11. \A x \in Node : up[x] = IF x \in S THEN Replay(up[par[x]], base[x], tip[x]) ELSE tip[x]
  BY <1>9
<1>12. up[Trunk] = tip[Trunk]
  BY <1>1, <1>11
<1>13. \A x \in Node : up[x] = f[x]
  <2> DEFINE T == {c \in Branch : up[c] = f[c]}
  <2>1. \A c \in Branch : par[c] \in T \cup {Trunk} => c \in T
    BY <1>1, <1>6, <1>7, <1>11, <1>12
  <2>2. T \in SUBSET Branch
    OBVIOUS
  <2>3. T = Branch
    <3> HIDE DEF T
    <3> QED
      BY <2>1, <2>2 DEF Rooted
  <2> QED
    BY <1>6, <1>12, <2>3 DEF Node
<1>14. up \in [Node -> Revision]
  BY <1>6, <1>9, <1>13
<1> QED
  BY <1>1, <1>10, <1>11, <1>12, <1>14

\* A restack leaves every branch its own commits, on top of its parent.
LEMMA RestackKeeps ==
    ASSUME StackHolds, parent \in [Branch -> Node],
           tip \in [Node -> Revision], base \in [Branch -> Revision],
           NEW par \in [Branch -> Node], Rooted(par), NEW S, S \subseteq Branch,
           \A c \in Branch : c \notin S => par[c] = parent[c] /\ par[c] \notin S,
           RestackOn(par, S)
    PROVE  /\ StackHolds' /\ parent' \in [Branch -> Node]
           /\ tip' \in [Node -> Revision] /\ base' \in [Branch -> Revision]
           /\ tip'[Trunk] = tip[Trunk]
<1> DEFINE new == Stacked(par, S)
<1>1. Trunk \notin Branch /\ Trunk \notin S /\ Trunk \in Node /\ Branch \subseteq Node
  BY ConstantsAssumption DEF Node
<1>2. /\ new \in [Node -> Revision] /\ new[Trunk] = tip[Trunk]
      /\ \A c \in Branch : new[c] = IF c \in S THEN Replay(new[par[c]], base[c], tip[c]) ELSE tip[c]
  BY <1>1, StackedIs
<1>3. /\ parent' = par /\ tip' = new
      /\ base' = [c \in Branch |-> IF c \in S THEN new[par[c]] ELSE base[c]]
  BY DEF RestackOn
<1> HIDE DEF new
<1>4. /\ Rooted(parent) /\ \A c \in Branch : OwnAbove(c)
      /\ \A c \in Branch : parent[c] = Trunk => IsAncestor(base[c], tip[Trunk])
      /\ \A x \in Node : Homes(x)
  BY DEF StackHolds
<1>5. ASSUME NEW c \in S
      PROVE  /\ IsAncestor(new[par[c]], new[c])
             /\ ToSet(new[c]) = ToSet(new[par[c]]) \cup Above(tip[c], Len(base[c]))
             /\ Above(new[c], Len(new[par[c]])) \subseteq Above(tip[c], Len(base[c]))
  <2>1. /\ c \in Branch /\ new[par[c]] \in Revision /\ base[c] \in Revision /\ tip[c] \in Revision
        /\ IsAncestor(base[c], tip[c])
    BY <1>1, <1>2, <1>4 DEF OwnAbove
  <2>2. new[c] = Replay(new[par[c]], base[c], tip[c])
    BY <1>2, <2>1
  <2> DEFINE onto == new[par[c]]
             r == Replay(onto, base[c], tip[c])
  <2>3. /\ IsAncestor(onto, r) /\ ToSet(r) = ToSet(onto) \cup Above(tip[c], Len(base[c]))
        /\ Above(r, Len(onto)) \subseteq Above(tip[c], Len(base[c]))
    BY <2>1, ReplayOwn DEF Revision
  <2> QED
    BY <2>2, <2>3
<1>6. \A c \in Branch : \A p \in Above(tip[c], Len(base[c])) : p.home = c
  BY <1>4 DEF OwnAbove
<1>7. \A x \in Node : x \notin S => Below(par)[x] = Below(parent)[x]
  BY <1>1, <1>4, BelowSame
<1>8. /\ Below(par)[Trunk] = {} /\ \A c \in Branch : Below(par)[c] = {c} \cup Below(par)[par[c]]
      /\ \A c \in Branch : c \notin Below(par)[par[c]]
  BY BelowIs, BelowOrders
<1> DEFINE HomesNew(x) == \A p \in ToSet(new[x]) :
                              p.home = Trunk \/ (x \in Branch /\ p.home \in Below(par)[x])
<1>9. HomesNew(Trunk)
  <2>1. \A p \in ToSet(tip[Trunk]) : p.home = Trunk
    BY <1>1, <1>4 DEF Homes
  <2> QED
    BY <1>2, <2>1
<1>10. ASSUME NEW c \in Branch, c \notin S PROVE HomesNew(c)
  <2>1. \A p \in ToSet(tip[c]) : p.home = Trunk \/ p.home \in Below(parent)[c]
    BY <1>1, <1>4, DownstackIs DEF Homes
  <2> QED
    BY <1>1, <1>2, <1>7, <1>10, <2>1
<1>11. ASSUME NEW c \in S, HomesNew(par[c]) PROVE HomesNew(c)
  <2> SUFFICES ASSUME NEW p \in ToSet(new[c]), p.home # Trunk PROVE p.home \in Below(par)[c]
    OBVIOUS
  <2>1. CASE p \in Above(tip[c], Len(base[c]))
    BY <1>6, <1>8, <2>1
  <2>2. CASE p \in ToSet(new[par[c]])
    BY <1>8, <1>11, <2>2
  <2> QED
    BY <1>5, <2>1, <2>2
<1>12. \A x \in Node : HomesNew(x)
  <2> DEFINE T == {c \in Branch : HomesNew(c)}
  <2>1. ASSUME NEW c \in Branch, par[c] \in T \cup {Trunk} PROVE c \in T
    <3> HIDE DEF HomesNew
    <3> QED
      BY <1>9, <1>10, <1>11, <2>1
  <2>2. T \in SUBSET Branch
    OBVIOUS
  <2>3. T = Branch
    <3> HIDE DEF T
    <3> QED
      BY <2>1, <2>2 DEF Rooted
  <2> HIDE DEF HomesNew
  <2> QED
    BY <1>9, <2>3 DEF Node
<1>13. \A x \in Node : Homes(x)'
  BY <1>3, <1>12, DownstackIs DEF Homes, Downstack, Below
<1>14. ASSUME NEW c \in Branch PROVE OwnAbove(c)'
  <2>1. CASE c \in S
    <3>1. base'[c] = new[par[c]] /\ tip'[c] = new[c] /\ new[c] \in Revision /\ new[par[c]] \in Revision
      BY <1>1, <1>2, <1>3, <2>1
    <3>2. Len(new[par[c]]) < Len(new[c])
      <4> SUFFICES ASSUME ~(Len(new[par[c]]) < Len(new[c])) PROVE FALSE
        OBVIOUS
      <4>1. new[par[c]] = new[c]
        <5>1. Len(new[par[c]]) \in Nat /\ Len(new[c]) \in Nat
          BY <3>1, LenProperties DEF Revision
        <5>2. Len(new[c]) <= Len(new[par[c]])
          BY <5>1
        <5> QED
          BY <1>5, <2>1, <3>1, <5>2, AncestorEqual DEF Revision
      <4>2. PICK p \in Above(tip[c], Len(base[c])) : TRUE
        <5>1. Len(base[c]) < Len(tip[c]) /\ Len(base[c]) \in Nat /\ Len(tip[c]) \in Nat
          BY <1>1, <1>4, LenProperties DEF OwnAbove, Revision
        <5>2. Len(tip[c]) \in Len(base[c]) + 1 .. Len(tip[c])
          BY <5>1
        <5> QED
          BY <5>2 DEF Above
      <4>3. p.home = c /\ p \in ToSet(new[par[c]])
        BY <1>5, <1>6, <2>1, <4>1, <4>2
      <4>4. HomesNew(par[c])
        BY <1>12
      <4> QED
        BY <1>1, <1>8, <4>3, <4>4
    <3>3. IsAncestor(new[par[c]], new[c]) /\ \A p \in Above(new[c], Len(new[par[c]])) : p.home = c
      BY <1>5, <1>6, <2>1
    <3> QED
      BY <3>1, <3>2, <3>3 DEF OwnAbove
  <2>2. CASE c \notin S
    BY <1>1, <1>2, <1>3, <1>4, <2>2 DEF OwnAbove
  <2> QED
    BY <2>1, <2>2
<1>15. ASSUME NEW c \in Branch, par[c] = Trunk PROVE IsAncestor(base'[c], tip'[Trunk])
  <2>1. CASE c \in S
    <3>1. base'[c] = tip[Trunk] /\ tip'[Trunk] = tip[Trunk] /\ tip[Trunk] \in Revision
      BY <1>1, <1>2, <1>3, <1>15, <2>1
    <3> QED
      BY <3>1, AncestorSelf DEF Revision
  <2>2. CASE c \notin S
    BY <1>2, <1>3, <1>4, <1>15, <2>2
  <2> QED
    BY <2>1, <2>2
<1>16. StackHolds'
  <2>1. Rooted(parent)'
    BY <1>3 DEF Rooted
  <2> QED
    BY <1>3, <1>13, <1>14, <1>15, <2>1 DEF StackHolds
<1>17. base' \in [Branch -> Revision]
  BY <1>1, <1>2, <1>3
<1> QED
  BY <1>2, <1>3, <1>16, <1>17

\* A commit goes on top of all of the branch, or of all but its last commit.
LEMMA CommitKeeps ==
    ASSUME StackHolds, parent \in [Branch -> Node],
           tip \in [Node -> Revision], base \in [Branch -> Revision],
           NEW b \in Branch, NEW f \in Revision, NEW p \in Patch, p.home = b,
           IsAncestor(base[b], f), ToSet(f) \subseteq ToSet(tip[b]),
           Above(f, Len(base[b])) \subseteq Above(tip[b], Len(base[b])),
           tip' = [tip EXCEPT ![b] = Append(f, p)], UNCHANGED <<parent, base>>
    PROVE  StackHolds' /\ tip' \in [Node -> Revision] /\ tip'[Trunk] = tip[Trunk]
<1>1. Trunk \notin Branch /\ Trunk \in Node /\ Branch \subseteq Node
  BY ConstantsAssumption DEF Node
<1>2. /\ Append(f, p) \in Revision /\ tip' \in [Node -> Revision]
      /\ tip'[b] = Append(f, p) /\ \A x \in Node : x # b => tip'[x] = tip[x]
  BY <1>1 DEF Revision
<1>3. tip'[Trunk] = tip[Trunk]
  BY <1>1, <1>2
<1>4. ASSUME NEW c \in Branch PROVE OwnAbove(c)'
  <2>1. CASE c = b
    <3>1. /\ base[b] \in Seq(Patch) /\ f \in Seq(Patch) /\ Len(base[b]) \in Nat /\ Len(f) \in Nat
          /\ Len(base[b]) <= Len(f) /\ Len(Append(f, p)) = Len(f) + 1
      BY LenProperties, AppendProperties DEF Revision, IsAncestor, IsPrefix
    <3>2. IsAncestor(base[b], Append(f, p)) /\ Len(base[b]) < Len(Append(f, p))
      BY <3>1, AppendExtends
    <3>3. Above(Append(f, p), Len(base[b])) \subseteq Above(tip[b], Len(base[b])) \cup {p}
      BY <3>1, AppendAbove
    <3>4. \A q \in Above(tip[b], Len(base[b])) : q.home = b
      BY DEF StackHolds, OwnAbove
    <3> QED
      BY <1>2, <2>1, <3>2, <3>3, <3>4 DEF OwnAbove
  <2>2. CASE c # b
    BY <1>1, <1>2, <2>2 DEF StackHolds, OwnAbove
  <2> QED
    BY <2>1, <2>2
<1>5. \A x : Downstack(x)' = Downstack(x)
  BY DEF Downstack
<1>6. ASSUME NEW x \in Node PROVE Homes(x)'
  <2>1. CASE x = b
    <3>1. ToSet(tip'[b]) \subseteq ToSet(tip[b]) \cup {p}
      BY <1>2, AppendSet DEF Revision
    <3>2. Homes(b) /\ b \in Downstack(b)
      BY <1>1, DownstackIs, BelowIs DEF StackHolds
    <3> QED
      BY <1>5, <2>1, <3>1, <3>2 DEF Homes
  <2>2. CASE x # b
    BY <1>2, <1>5, <2>2 DEF StackHolds, Homes
  <2> QED
    BY <2>1, <2>2
<1> QED
  BY <1>2, <1>3, <1>4, <1>6 DEF StackHolds, Rooted

\* A revision without its last commit.
LEMMA ShorterIs ==
    ASSUME NEW r \in Revision, NEW q \in Revision, IsAncestor(q, r), Len(q) < Len(r),
           NEW f, f = SubSeq(r, 1, Len(r) - 1)
    PROVE  /\ f \in Revision /\ IsAncestor(q, f) /\ ToSet(f) \subseteq ToSet(r)
           /\ Above(f, Len(q)) \subseteq Above(r, Len(q))
<1>1. /\ Len(r) \in Nat /\ Len(q) \in Nat /\ \A i \in 1 .. Len(r) : r[i] \in Patch
      /\ DOMAIN r = 1 .. Len(r)
  BY LenProperties, ElementOfSeq DEF Revision
<1> DEFINE n == Len(r) - 1
<1>2. n \in Nat /\ 1 .. n \subseteq 1 .. Len(r) /\ Len(q) <= n
  BY <1>1
<1> HIDE DEF n
<1>3. f \in Revision /\ Len(f) = n /\ \A i \in 1 .. n : f[i] = r[i]
  <2>1. f = SubSeq(r, 1, n)
    BY DEF n
  <2> QED
    BY <1>1, <1>2, <2>1, SubSeqProperties DEF Revision
<1>4. DOMAIN f = 1 .. n
  BY <1>3, LenProperties DEF Revision
<1>5. IsAncestor(q, f)
  <2>1. \A i \in 1 .. Len(q) : q[i] = r[i] /\ i \in 1 .. n
    BY <1>1, <1>2, AncestorElements DEF Revision
  <2> QED
    BY <1>2, <1>3, <2>1, AncestorElements DEF Revision
<1>6. ToSet(f) \subseteq ToSet(r)
  BY <1>1, <1>2, <1>3, <1>4 DEF ToSet
<1>7. \A i \in Len(q) + 1 .. n : i \in 1 .. n /\ i \in Len(q) + 1 .. Len(r)
  BY <1>1, <1>2
<1> QED
  BY <1>3, <1>5, <1>6, <1>7 DEF Above

\* The commits that can be made are patches.
LEMMA MadePatch ==
    ASSUME made \in 0 .. MaxPatches, Making, NEW x \in Node
    PROVE  [home |-> x, n |-> made + 1] \in Patch /\ made' \in 0 .. MaxPatches
<1>1. MaxPatches \in Nat
  BY ConstantsAssumption
<1>2. made + 1 \in 0 .. MaxPatches
  BY <1>1 DEF Making
<1> QED
  BY <1>2 DEF Making, Patch

\* People's own steps.
Locally ==
    \/ \E b \in Branch : Commit(b) \/ Amend(b) \/ \E x \in Node : Move(b, x)
    \/ Restack

LEMMA LocallyKeeps ==
    ASSUME TypeOK, StackHolds, Locally
    PROVE  /\ StackHolds' /\ tip' \in [Node -> Revision] /\ parent' \in [Branch -> Node]
           /\ base' \in [Branch -> Revision] /\ tip'[Trunk] = tip[Trunk]
<1>1. /\ tip \in [Node -> Revision] /\ parent \in [Branch -> Node] /\ base \in [Branch -> Revision]
      /\ made \in 0 .. MaxPatches /\ Branch \subseteq Node
  BY DEF TypeOK, Node
<1>2. ASSUME NEW b \in Branch, Commit(b) PROVE StackHolds' /\ tip' \in [Node -> Revision] /\ tip'[Trunk] = tip[Trunk]
  <2> DEFINE p == [home |-> b, n |-> made + 1]
  <2>1. p \in Patch /\ p.home = b
    BY <1>1, <1>2, MadePatch DEF Commit
  <2>2. tip' = [tip EXCEPT ![b] = Append(tip[b], p)] /\ UNCHANGED <<parent, base>>
    BY <1>2 DEF Commit
  <2>3. tip[b] \in Revision /\ IsAncestor(base[b], tip[b])
    BY <1>1 DEF StackHolds, OwnAbove
  <2> HIDE DEF p
  <2> QED
    BY <1>1, <2>1, <2>2, <2>3, CommitKeeps
<1>3. ASSUME NEW b \in Branch, Amend(b) PROVE StackHolds' /\ tip' \in [Node -> Revision] /\ tip'[Trunk] = tip[Trunk]
  <2> DEFINE p == [home |-> b, n |-> made + 1]
             f == SubSeq(tip[b], 1, Len(tip[b]) - 1)
  <2>1. p \in Patch /\ p.home = b
    BY <1>1, <1>3, MadePatch DEF Amend
  <2>2. tip' = [tip EXCEPT ![b] = Append(f, p)] /\ UNCHANGED <<parent, base>>
    BY <1>3 DEF Amend
  <2>3. /\ tip[b] \in Revision /\ base[b] \in Revision
        /\ IsAncestor(base[b], tip[b]) /\ Len(base[b]) < Len(tip[b])
    BY <1>1 DEF StackHolds, OwnAbove
  <2>4. /\ f \in Revision /\ IsAncestor(base[b], f) /\ ToSet(f) \subseteq ToSet(tip[b])
        /\ Above(f, Len(base[b])) \subseteq Above(tip[b], Len(base[b]))
    BY <2>3, ShorterIs
  <2> HIDE DEF p, f
  <2> QED
    BY <1>1, <2>1, <2>2, <2>4, CommitKeeps
<1>4. ASSUME NEW b \in Branch, NEW x \in Node, Move(b, x)
      PROVE  /\ StackHolds' /\ tip' \in [Node -> Revision] /\ parent' \in [Branch -> Node]
             /\ base' \in [Branch -> Revision] /\ tip'[Trunk] = tip[Trunk]
  <2> DEFINE S == Onto(parent, b)
             new == Moved(parent, b, x)
  <2>1. Upstack(b) = S /\ S \subseteq Branch
    BY DownstackIs DEF Upstack, Onto
  <2>2. x \notin S /\ RestackOn(new, S)
    BY <1>4, <2>1 DEF Move, Moved
  <2>3. Rooted(parent)
    BY DEF StackHolds
  <2>4. /\ new \in [Branch -> Node] /\ Rooted(new)
        /\ \A c \in Branch : c \notin S => new[c] = parent[c] /\ new[c] \notin S
    BY <1>1, <2>2, <2>3, MoveRoots
  <2> HIDE DEF S, new
  <2> QED
    BY <1>1, <2>1, <2>2, <2>4, RestackKeeps
<1>5. ASSUME Restack
      PROVE  /\ StackHolds' /\ tip' \in [Node -> Revision] /\ parent' \in [Branch -> Node]
             /\ base' \in [Branch -> Revision] /\ tip'[Trunk] = tip[Trunk]
  <2>1. Rooted(parent) /\ RestackOn(parent, Branch)
    BY <1>5 DEF StackHolds, Restack
  <2> QED
    BY <1>1, <2>1, RestackKeeps
<1>6. ASSUME NEW b \in Branch, Commit(b) \/ Amend(b) PROVE parent' = parent /\ base' = base
  BY <1>6 DEF Commit, Amend
<1> QED
  BY <1>1, <1>2, <1>3, <1>4, <1>5, <1>6 DEF Locally

LEMMA PullKeeps ==
    ASSUME TypeOK, StackHolds, PullTrunk
    PROVE  /\ StackHolds' /\ tip' \in [Node -> Revision] /\ tip'[Trunk] \in Revision
           /\ IsAncestor(tip[Trunk], tip'[Trunk])
<1> DEFINE p == [home |-> Trunk, n |-> made + 1]
<1>1. /\ tip \in [Node -> Revision] /\ base \in [Branch -> Revision] /\ made \in 0 .. MaxPatches
      /\ Trunk \notin Branch /\ Trunk \in Node /\ Branch \subseteq Node
  BY ConstantsAssumption DEF TypeOK, Node
<1>2. p \in Patch /\ p.home = Trunk
  BY <1>1, MadePatch DEF PullTrunk
<1>3. tip' = [tip EXCEPT ![Trunk] = Append(tip[Trunk], p)] /\ parent' = parent /\ base' = base
  BY DEF PullTrunk
<1> HIDE DEF p
<1>4. /\ tip' \in [Node -> Revision] /\ tip'[Trunk] = Append(tip[Trunk], p)
      /\ \A c \in Branch : tip'[c] = tip[c]
  BY <1>1, <1>2, <1>3 DEF Revision
<1>5. IsAncestor(tip[Trunk], tip'[Trunk])
  BY <1>1, <1>2, <1>4, AncestorSelf, AppendExtends DEF Revision
<1>6. \A c \in Branch : OwnAbove(c)'
  BY <1>3, <1>4 DEF StackHolds, OwnAbove
<1>7. ASSUME NEW c \in Branch, parent[c] = Trunk PROVE IsAncestor(base[c], tip'[Trunk])
  <2>1. IsAncestor(base[c], tip[Trunk]) /\ base[c] \in Revision /\ tip[Trunk] \in Revision
    BY <1>1, <1>7 DEF StackHolds
  <2> QED
    BY <1>1, <1>4, <1>5, <2>1, AncestorOfAncestor DEF Revision
<1>8. \A x : Downstack(x)' = Downstack(x)
  BY <1>3 DEF Downstack
<1>9. Homes(Trunk)'
  <2>1. ToSet(tip'[Trunk]) = ToSet(tip[Trunk]) \cup {p}
    BY <1>1, <1>2, <1>4, AppendSet DEF Revision
  <2>2. Homes(Trunk)
    BY <1>1 DEF StackHolds
  <2> QED
    BY <1>1, <1>2, <2>1, <2>2 DEF Homes
<1>10. \A c \in Branch : Homes(c)'
  BY <1>1, <1>4, <1>8 DEF StackHolds, Homes
<1> QED
  BY <1>1, <1>3, <1>4, <1>5, <1>6, <1>7, <1>9, <1>10 DEF StackHolds, Rooted, Node

-----------------------------------------------------------------------------
(* What others do, and what a submit does to GitHub.                       *)

SameWork ==
    /\ submit'.pc = submit.pc /\ submit'.scope = submit.scope /\ submit'.status = submit.status
    /\ submit'.kept = submit.kept /\ submit'.infos = submit.infos /\ submit'.stage = submit.stage

LEMMA DisturbsIs ==
    ASSUME MarksHold, Disturbs
    PROVE  SameWork /\ (submit'.calm => submit'.pc = "idle")
<1>1. CASE Idle
  BY <1>1 DEF Disturbs, Idle, SameWork
<1>2. CASE ~Idle
  <2>1. submit' = [submit EXCEPT !.calm = FALSE] /\ DOMAIN submit = DOMAIN NoSubmit
    BY <1>2 DEF Disturbs, MarksHold
  <2> QED
    BY <2>1 DEF NoSubmit, SameWork
<1> QED
  BY <1>1, <1>2

LEMMA WorkFrame ==
    ASSUME WorkOK, SameWork, apart \subseteq apart',
           \A b \in Branch : /\ remote[b] # None => remote'[b] # None
                             /\ pr[b].state # "none" => pr'[b].state # "none"
    PROVE  WorkOK'
<1>1. submit.scope \subseteq Branch /\ (submit.pc \in Underway => submit.kept \subseteq Branch)
      /\ (submit.pc \in Planned => Infos \subseteq Branch)
  BY DEF WorkOK, Underway, Planned
<1>2. Infos' = Infos /\ \A b : Info(b)' = Info(b)
  BY DEF Infos, Info, SameWork
<1>3. StatusOK => StatusOK'
  BY <1>1 DEF StatusOK, SameWork
<1> QED
  BY <1>1, <1>2, <1>3 DEF WorkOK, SameWork, Underway, Planned

\* The record of a branch that nothing new is compared with.
LEMMA RecordFrame ==
    ASSUME NEW b, RecordHolds(b),
           Open(b)' /\ b \notin apart' =>
              /\ b \notin apart /\ pr'[b] = pr[b] /\ recorded'[b] = recorded[b]
              /\ (b \notin pending' \/ Settling(b)') /\ Stands(b) => Stands(b)'
              /\ b \notin pending' => b \notin pending \/ Settling(b)
              /\ Settling(b)' => Settling(b)
              /\ Writing(b, "written")' => Writing(b, "written") /\ submit'.infos = submit.infos
    PROVE  RecordHolds(b)'
<1> SUFFICES ASSUME Open(b)', b \notin apart'
             PROVE  /\ Known(b)'
                    /\ pr'[b].base # Trunk /\ (b \notin pending' \/ Settling(b)') => Stands(b)'
                    /\ Writing(b, "written")' =>
                          /\ pr'[b].base = Info(b)'.base
                          /\ pr'[b].base # Trunk => IsAncestor(pr'[b].from, Info(b)'.sha)
  BY DEF RecordHolds
<1>1. b \notin apart /\ pr'[b] = pr[b] /\ recorded'[b] = recorded[b] /\ Open(b)
  BY DEF Open
<1>2. /\ Known(b)
      /\ pr[b].base # Trunk /\ (b \notin pending \/ Settling(b)) => Stands(b)
      /\ Writing(b, "written") => /\ pr[b].base = Info(b).base
                                  /\ pr[b].base # Trunk => IsAncestor(pr[b].from, Info(b).sha)
  BY <1>1 DEF RecordHolds
<1>3. Known(b)'
  BY <1>1, <1>2 DEF Known
<1>4. pr'[b].base # Trunk /\ (b \notin pending' \/ Settling(b)') => Stands(b)'
  BY <1>1, <1>2
<1>5. submit'.infos = submit.infos => Info(b)' = Info(b)
  BY DEF Info
<1> QED
  BY <1>1, <1>2, <1>3, <1>4, <1>5

Pr == [state : {"none", "open", "closed"}, base : Node \cup {None}, from : Revision \cup {None}]

\* Branches that go to new revisions take what is compared with them along where
\* that is possible.
LEMMA ReceiveIs ==
    ASSUME pr \in [Branch -> Pr], remote \in [Node -> Revision \cup {None}], apart \subseteq Branch,
           NEW news, DOMAIN news \subseteq Node, \A x \in DOMAIN news : news[x] \in Revision,
           NEW more, more \subseteq Branch, Receive(news, more),
           \A b \in Branch : Open(b) => pr[b].base \in Node
    PROVE  /\ remote' \in [Node -> Revision \cup {None}]
           /\ \A x \in Node : remote'[x] = IF x \in DOMAIN news THEN news[x] ELSE remote[x]
           /\ \A x \in Node : remote[x] # None => remote'[x] # None
           /\ pr' \in [Branch -> Pr] /\ apart' \subseteq Branch
           /\ apart \subseteq apart' /\ more \subseteq apart'
           /\ \A b \in Branch : /\ pr'[b].state = pr[b].state /\ pr'[b].base = pr[b].base
                                /\ pr'[b] = pr[b] \/ b \in apart'
                                /\ Open(b) => \/ pr'[b].from = remote'[pr[b].base]
                                              \/ /\ pr'[b].from = pr[b].from
                                                 /\ ~IsAncestor(pr[b].from, remote'[pr[b].base])
<1> DEFINE at(x) == IF x \in DOMAIN news THEN news[x] ELSE remote[x]
           follow == {b \in Branch : /\ pr[b].state = "open" /\ pr[b].from # at(pr[b].base)
                                     /\ IsAncestor(pr[b].from, at(pr[b].base))}
<1>1. /\ remote' = [x \in Node |-> at(x)]
      /\ pr' = [b \in Branch |-> IF b \in follow THEN [pr[b] EXCEPT !.from = at(pr[b].base)] ELSE pr[b]]
      /\ apart' = apart \cup follow \cup more
  BY DEF Receive
<1>2. \A x \in Node : at(x) \in Revision \cup {None} /\ (remote[x] # None => at(x) # None)
  BY ConstantsAssumption
<1>3. follow \subseteq Branch /\ \A b \in follow : Open(b) /\ pr[b].base \in Node
  BY DEF Open
<1>4. \A x \in Node : remote'[x] = at(x)
  BY <1>1
<1>5. ASSUME NEW b \in Branch
      PROVE  b \notin follow => (Open(b) => pr[b].from = at(pr[b].base) \/ ~IsAncestor(pr[b].from, at(pr[b].base)))
  BY DEF Open
<1>6. remote' \in [Node -> Revision \cup {None}]
  BY <1>1, <1>2
<1> HIDE DEF follow, at
<1>7. ASSUME NEW b \in follow
      PROVE  /\ pr'[b] = [pr[b] EXCEPT !.from = at(pr[b].base)] /\ pr[b] \in Pr /\ b \in Branch
             /\ at(pr[b].base) \in Revision \cup {None}
  BY <1>1, <1>2, <1>3
<1>8. ASSUME NEW b \in follow
      PROVE  /\ pr'[b] \in Pr /\ pr'[b].state = pr[b].state /\ pr'[b].base = pr[b].base
             /\ pr'[b].from = at(pr[b].base)
  BY <1>7 DEF Pr
<1>9. \A b \in Branch : b \notin follow => pr'[b] = pr[b]
  BY <1>1
<1>10. pr' \in [Branch -> Pr]
  BY <1>1, <1>8, <1>9
<1>11. ASSUME NEW b \in Branch
       PROVE  /\ pr'[b].state = pr[b].state /\ pr'[b].base = pr[b].base
              /\ pr'[b] = pr[b] \/ b \in apart'
  BY <1>1, <1>8, <1>9
<1>12. ASSUME NEW b \in Branch, Open(b)
       PROVE  \/ pr'[b].from = remote'[pr[b].base]
              \/ pr'[b].from = pr[b].from /\ ~IsAncestor(pr[b].from, remote'[pr[b].base])
  <2>1. remote'[pr[b].base] = at(pr[b].base)
    BY <1>4, <1>12
  <2> QED
    BY <1>5, <1>8, <1>9, <1>12, <2>1
<1>13. /\ \A x \in Node : remote'[x] = IF x \in DOMAIN news THEN news[x] ELSE remote[x]
       /\ \A x \in Node : remote[x] # None => remote'[x] # None
  BY <1>2, <1>4 DEF at
<1>14. apart' \subseteq Branch /\ apart \subseteq apart' /\ more \subseteq apart'
  BY <1>1, <1>3
<1> QED
  BY <1>6, <1>10, <1>11, <1>12, <1>13, <1>14

LEMMA ReceiveGitHub ==
    ASSUME pr \in [Branch -> Pr], remote \in [Node -> Revision \cup {None}], apart \subseteq Branch,
           tip \in [Node -> Revision], GitHubHolds,
           NEW news, DOMAIN news \subseteq Node, \A x \in DOMAIN news : news[x] \in Revision,
           NEW more, more \subseteq Branch, Receive(news, more), recorded' = recorded,
           remote'[Trunk] = tip'[Trunk], tip'[Trunk] \in Revision, IsAncestor(tip[Trunk], tip'[Trunk])
    PROVE  GitHubHolds'
<1>1. \A b \in Branch : Open(b) => pr[b].base \in Node
  BY DEF GitHubHolds, Compared
<1>2. /\ remote' \in [Node -> Revision \cup {None}]
      /\ \A x \in Node : remote[x] # None => remote'[x] # None
      /\ pr' \in [Branch -> Pr]
  BY <1>1, ReceiveIs
<1>3. \A b \in Branch : /\ pr'[b].state = pr[b].state /\ pr'[b].base = pr[b].base
                        /\ Open(b) => \/ pr'[b].from = remote'[pr[b].base]
                                      \/ /\ pr'[b].from = pr[b].from
                                         /\ ~IsAncestor(pr[b].from, remote'[pr[b].base])
  BY <1>1, ReceiveIs
<1>4. ASSUME NEW b \in Branch, Open(b)' PROVE Compared(b)'
  <2>1. Open(b) /\ Compared(b)
    BY <1>3, <1>4 DEF Open, GitHubHolds
  <2>2. /\ pr[b].base \in Node /\ remote'[pr[b].base] \in Revision
    BY <1>2, <2>1 DEF Compared
  <2>3. pr[b].base = Trunk => IsAncestor(pr[b].from, remote'[Trunk])
    BY <2>1 DEF Compared, GitHubHolds
  <2> QED
    BY <1>2, <1>3, <2>1, <2>2, <2>3, ConstantsAssumption DEF Compared
<1>5. \A b \in Branch : /\ pr'[b].state # "none" => pr'[b].base \in Node
                        /\ pr'[b].state = "none" => recorded'[b].state = "none"
  BY <1>3 DEF GitHubHolds
<1> QED
  BY <1>4, <1>5 DEF GitHubHolds

LEMMA SetBaseIs ==
    ASSUME pr \in [Branch -> Pr], remote \in [Node -> Revision \cup {None}], apart \subseteq Branch,
           NEW b \in Branch, NEW x \in Node, remote[x] # None, SetBase(b, x)
    PROVE  /\ pr' \in [Branch -> Pr] /\ apart' = apart \cup {b} /\ apart' \subseteq Branch
           /\ pr'[b].state = "open" /\ pr'[b].base = x /\ pr'[b].from = remote[x]
           /\ \A c \in Branch : c # b => pr'[c] = pr[c]
<1> DEFINE new == [state |-> "open", base |-> x, from |-> remote[x]]
<1>1. new \in Pr /\ new.state = "open" /\ new.base = x /\ new.from = remote[x]
  BY DEF Pr
<1>2. pr' = [pr EXCEPT ![b] = new] /\ apart' = apart \cup {b}
  BY DEF SetBase
<1> HIDE DEF new
<1> QED
  BY <1>1, <1>2

LEMMA SetBaseGitHub ==
    ASSUME pr \in [Branch -> Pr], remote \in [Node -> Revision \cup {None}], apart \subseteq Branch,
           GitHubHolds, NEW b \in Branch, NEW x \in Node, remote[x] # None, SetBase(b, x),
           UNCHANGED <<recorded, remote>>, tip'[Trunk] = tip[Trunk]
    PROVE  GitHubHolds'
<1>1. /\ pr'[b].state = "open" /\ pr'[b].base = x /\ pr'[b].from = remote[x]
      /\ \A c \in Branch : c # b => pr'[c] = pr[c]
  BY SetBaseIs
<1>2. remote[x] \in Revision
  OBVIOUS
<1>3. Compared(b)'
  BY <1>1, <1>2 DEF Compared
<1>4. \A c \in Branch : c # b => (Open(c)' => Compared(c)')
  BY <1>1 DEF Open, Compared, GitHubHolds
<1> QED
  BY <1>1, <1>3, <1>4 DEF GitHubHolds

-----------------------------------------------------------------------------
(* The steps of people.                                                    *)

Rec == [state : {"none", "open", "closed"}, base : Node \cup {None}, sha : Revision \cup {None}]

LEMMA Types ==
    ASSUME TypeOK
    PROVE  /\ tip \in [Node -> Revision] /\ parent \in [Branch -> Node] /\ base \in [Branch -> Revision]
           /\ remote \in [Node -> Revision \cup {None}] /\ tracked \in [Branch -> Revision \cup {None}]
           /\ pr \in [Branch -> Pr]
           /\ recorded \in [Branch -> Rec] /\ pending \subseteq Branch /\ apart \subseteq Branch
           /\ made \in 0 .. MaxPatches /\ events \in 0 .. MaxEvents
           /\ Trunk \notin Branch /\ Trunk \in Node /\ Branch \subseteq Node /\ None \notin Revision
BY ConstantsAssumption DEF TypeOK, Pr, Rec, Node

LEMMA HappensIs == ASSUME events \in 0 .. MaxEvents, Happens PROVE events' \in 0 .. MaxEvents
<1>1. MaxEvents \in Nat
  BY ConstantsAssumption
<1> QED
  BY <1>1 DEF Happens

\* What is invariant besides the marks and what is known of the remote.
Rest == TypeOK /\ StackHolds /\ GitHubHolds /\ WorkOK /\ RecordsHold /\ CalmHolds

LEMMA LocalStep ==
    ASSUME Holds, Locally
    PROVE  Rest'
<1>1. TypeOK /\ StackHolds /\ MarksHold /\ GitHubHolds /\ WorkOK /\ RecordsHold
  BY DEF Holds
<1>2. /\ StackHolds' /\ tip' \in [Node -> Revision] /\ parent' \in [Branch -> Node]
      /\ base' \in [Branch -> Revision] /\ tip'[Trunk] = tip[Trunk]
  BY <1>1, LocallyKeeps
<1>3. /\ Disturbs /\ UNCHANGED <<recorded, pending, tracked, remote, shared, pr, owes, apart>>
      /\ made' \in 0 .. MaxPatches /\ events' \in 0 .. MaxEvents
  <2>1. /\ made \in 0 .. MaxPatches /\ events \in 0 .. MaxEvents
        /\ (Making => made' \in 0 .. MaxPatches) /\ (Happens => events' \in 0 .. MaxEvents)
    BY <1>1, Types, MadePatch, HappensIs
  <2>2. ASSUME NEW b \in Branch, Commit(b) \/ Amend(b) \/ \E x \in Node : Move(b, x)
        PROVE  /\ Disturbs /\ UNCHANGED <<recorded, pending, tracked, remote, shared, pr, owes, apart>>
               /\ (Making /\ events' = events) \/ (Happens /\ made' = made)
    BY <2>2 DEF Commit, Amend, Move, records, remoteVars, history
  <2>3. CASE Restack
    BY <2>1, <2>3 DEF Restack, records, remoteVars, history, counters
  <2> QED
    BY <2>1, <2>2, <2>3 DEF Locally
<1>4. SameWork /\ (submit'.calm => submit'.pc = "idle")
  BY <1>1, <1>3, DisturbsIs
<1>5. TypeOK'
  BY <1>1, <1>2, <1>3, <1>4 DEF TypeOK, SameWork
<1>6. GitHubHolds'
  BY <1>1, <1>2, <1>3 DEF GitHubHolds, Open, Compared
<1>7. WorkOK'
  BY <1>1, <1>3, <1>4, WorkFrame
<1>8. RecordsHold'
  BY <1>1, <1>3, <1>4, RecordFrame
     DEF RecordsHold, Settling, Writing, SameWork, Infos, Stands, Open
<1>9. CalmHolds'
  BY <1>4 DEF CalmHolds
<1> QED
  BY <1>2, <1>5, <1>6, <1>7, <1>8, <1>9 DEF Rest

\* Steps of others: what is left to show is what GitHub makes of them.
LEMMA OthersFrame ==
    ASSUME Holds, Disturbs, UNCHANGED <<parent, base, recorded, pending, shared, owes>>,
           tip' \in [Node -> Revision], remote' \in [Node -> Revision \cup {None}],
           tracked' \in [Branch -> Revision \cup {None}],
           pr' \in [Branch -> Pr], apart' \subseteq Branch, apart \subseteq apart',
           made' \in 0 .. MaxPatches, events' \in 0 .. MaxEvents,
           \A x \in Node : remote[x] # None => remote'[x] # None,
           \A b \in Branch : /\ pr[b].state # "none" => pr'[b].state # "none"
                             /\ Open(b)' /\ b \notin apart' =>
                                   pr'[b] = pr[b] /\ (Stands(b) => Stands(b)')
    PROVE  TypeOK' /\ WorkOK' /\ RecordsHold' /\ CalmHolds'
<1>1. TypeOK /\ MarksHold /\ WorkOK /\ RecordsHold
  BY DEF Holds
<1>2. SameWork /\ (submit'.calm => submit'.pc = "idle")
  BY <1>1, DisturbsIs
<1>3. TypeOK'
  BY <1>1, <1>2 DEF TypeOK, SameWork, Pr
<1>4. WorkOK'
  BY <1>1, <1>2, WorkFrame DEF Node
<1>5. RecordsHold'
  BY <1>1, <1>2, RecordFrame
     DEF RecordsHold, Settling, Writing, SameWork, Infos
<1>6. CalmHolds'
  BY <1>2 DEF CalmHolds
<1> QED
  BY <1>3, <1>4, <1>5, <1>6

LEMMA PullStep ==
    ASSUME Holds, PullTrunk
    PROVE  Rest'
<1> DEFINE news == [x \in {Trunk} |-> tip'[x]]
<1>1. TypeOK /\ StackHolds /\ GitHubHolds
  BY DEF Holds
<1>2. /\ StackHolds' /\ tip' \in [Node -> Revision] /\ tip'[Trunk] \in Revision
      /\ IsAncestor(tip[Trunk], tip'[Trunk])
  BY <1>1, PullKeeps
<1>3. DOMAIN news = {Trunk} /\ news[Trunk] = tip'[Trunk]
  OBVIOUS
<1>4. /\ Receive(news, {}) /\ Disturbs /\ UNCHANGED <<parent, base, tracked, recorded, pending, shared, owes>>
      /\ Making /\ events' = events
  BY DEF PullTrunk, records
<1>5. made' \in 0 .. MaxPatches /\ events' \in 0 .. MaxEvents
  BY <1>1, <1>4, Types, MadePatch
<1> HIDE DEF news
<1>6. DOMAIN news \subseteq Node /\ \A x \in DOMAIN news : news[x] \in Revision
  BY <1>1, <1>2, <1>3, Types
<1>7. \A b \in Branch : Open(b) => pr[b].base \in Node
  BY <1>1 DEF GitHubHolds, Compared
<1>8. /\ remote' \in [Node -> Revision \cup {None}]
      /\ \A x \in Node : remote'[x] = IF x \in DOMAIN news THEN news[x] ELSE remote[x]
      /\ \A x \in Node : remote[x] # None => remote'[x] # None
      /\ pr' \in [Branch -> Pr] /\ apart' \subseteq Branch /\ apart \subseteq apart'
      /\ \A b \in Branch : pr'[b].state = pr[b].state /\ (pr'[b] = pr[b] \/ b \in apart')
  BY <1>1, <1>4, <1>6, <1>7, Types, ReceiveIs
<1>9. remote'[Trunk] = tip'[Trunk] /\ \A b \in Branch : remote'[b] = remote[b]
  BY <1>1, <1>3, <1>8, Types
<1>10. GitHubHolds'
  BY <1>1, <1>2, <1>4, <1>6, <1>9, Types, ReceiveGitHub
<1>11. \A b \in Branch : pr'[b] = pr[b] => (Stands(b) => Stands(b)')
  BY <1>9 DEF Stands
<1>12. TypeOK' /\ WorkOK' /\ RecordsHold' /\ CalmHolds'
  BY <1>1, <1>2, <1>4, <1>5, <1>8, <1>11, Types, OthersFrame
<1> QED
  BY <1>2, <1>10, <1>12 DEF Rest

\* With the local refs as they were, the stack is.
LEMMA StackFrame == ASSUME StackHolds, UNCHANGED localVars PROVE StackHolds'
<1>1. tip' = tip /\ parent' = parent /\ base' = base
  BY DEF localVars
<1>2. \A x : Downstack(x)' = Downstack(x)
  BY <1>1 DEF Downstack
<1>3. /\ Rooted(parent)' <=> Rooted(parent)
      /\ \A b \in Branch : OwnAbove(b)' <=> OwnAbove(b)
      /\ \A x \in Node : Homes(x)' <=> Homes(x)
  BY <1>1, <1>2 DEF Rooted, OwnAbove, Homes
<1> QED
  BY <1>1, <1>3 DEF StackHolds

\* A fetch is noted nowhere but in the remote-tracking refs.
LEMMA FetchStep ==
    ASSUME Holds, Fetch
    PROVE  Rest'
<1>1. TypeOK /\ StackHolds /\ GitHubHolds /\ remote \in [Node -> Revision \cup {None}]
  BY Types DEF Holds
<1>2. /\ Disturbs /\ tracked' = [b \in Branch |-> remote[b]]
      /\ UNCHANGED <<tip, parent, base, recorded, pending, remote, shared, pr, owes, apart>>
      /\ UNCHANGED <<made, events>>
  BY DEF Fetch, localVars, records, remoteVars, history, counters
<1>3. tracked' \in [Branch -> Revision \cup {None}]
  BY <1>1, <1>2, Types
<1>4. GitHubHolds'
  BY <1>1, <1>2 DEF GitHubHolds, Open, Compared
<1>5. \A b \in Branch : Stands(b) => Stands(b)'
  BY <1>2 DEF Stands
<1>6. TypeOK' /\ WorkOK' /\ RecordsHold' /\ CalmHolds'
  BY <1>1, <1>2, <1>3, <1>5, Types, OthersFrame
<1> QED
  BY <1>1, <1>2, <1>4, <1>6, StackFrame DEF Rest, localVars

LEMMA OthersPushStep ==
    ASSUME Holds, NEW b \in Branch, OthersPush(b)
    PROVE  Rest'
<1> DEFINE p == [home |-> b, n |-> made + 1]
           news == [x \in {b} |-> Append(remote[x], [home |-> x, n |-> made + 1])]
<1>1. TypeOK /\ StackHolds /\ GitHubHolds
  BY DEF Holds
<1>2. /\ Receive(news, {}) /\ Disturbs /\ remote[b] # None
      /\ UNCHANGED <<tip, parent, base, tracked, recorded, pending, shared, owes, events>> /\ Making
  BY DEF OthersPush, records, localVars
<1>3. p \in Patch /\ made' \in 0 .. MaxPatches /\ remote[b] \in Revision
  BY <1>1, <1>2, Types, MadePatch
<1>4. DOMAIN news = {b} /\ news[b] = Append(remote[b], p)
  OBVIOUS
<1> HIDE DEF news, p
<1>5. DOMAIN news \subseteq Node /\ \A x \in DOMAIN news : news[x] \in Revision
  <2>1. Append(remote[b], p) \in Revision
    BY <1>3, AppendProperties DEF Revision
  <2> QED
    BY <1>1, <1>4, <2>1, Types
<1>6. \A c \in Branch : Open(c) => pr[c].base \in Node
  BY <1>1 DEF GitHubHolds, Compared
<1>7. /\ remote' \in [Node -> Revision \cup {None}]
      /\ \A x \in Node : remote'[x] = IF x \in DOMAIN news THEN news[x] ELSE remote[x]
      /\ \A x \in Node : remote[x] # None => remote'[x] # None
      /\ pr' \in [Branch -> Pr] /\ apart' \subseteq Branch /\ apart \subseteq apart'
      /\ \A c \in Branch : pr'[c].state = pr[c].state /\ (pr'[c] = pr[c] \/ c \in apart')
  BY <1>1, <1>2, <1>5, <1>6, Types, ReceiveIs
<1>8. /\ remote'[Trunk] = tip'[Trunk] /\ tip'[Trunk] \in Revision
      /\ IsAncestor(tip[Trunk], tip'[Trunk])
  BY <1>1, <1>2, <1>4, <1>7, Types, AncestorSelf DEF GitHubHolds, Revision
<1>9. GitHubHolds'
  BY <1>1, <1>2, <1>5, <1>8, Types, ReceiveGitHub
<1>10. ASSUME NEW c \in Branch, Open(c)', c \notin apart'
       PROVE  pr'[c] = pr[c] /\ (Stands(c) => Stands(c)')
  <2>1. pr'[c] = pr[c]
    BY <1>7, <1>10
  <2>2. CASE c = b
    <3>1. remote'[b] = Append(remote[b], p) /\ pr[b].from \in Revision
      BY <1>1, <1>4, <1>7, <1>10, <2>1, <2>2, Types DEF GitHubHolds, Open, Compared
    <3>2. Stands(b) => IsAncestor(pr[b].from, remote'[b])
      BY <1>3, <3>1, AppendExtends DEF Stands, Revision
    <3> QED
      BY <1>1, <1>2, <1>7, <2>1, <2>2, <3>2, Types DEF Stands
  <2>3. CASE c # b
    BY <1>1, <1>4, <1>7, <2>1, <2>3, Types DEF Stands
  <2> QED
    BY <2>1, <2>2, <2>3
<1>11. \A c \in Branch : /\ pr[c].state # "none" => pr'[c].state # "none"
                         /\ Open(c)' /\ c \notin apart' => pr'[c] = pr[c] /\ (Stands(c) => Stands(c)')
  BY <1>7, <1>10
<1>12. TypeOK' /\ WorkOK' /\ RecordsHold' /\ CalmHolds'
  BY <1>1, <1>2, <1>3, <1>7, <1>11, Types, OthersFrame
<1> QED
  BY <1>1, <1>2, <1>9, <1>12, StackFrame DEF Rest, localVars

LEMMA CloseStep ==
    ASSUME Holds, NEW b \in Branch, Close(b)
    PROVE  Rest'
<1>1. TypeOK /\ StackHolds /\ GitHubHolds /\ pr \in [Branch -> Pr]
  BY Types DEF Holds
<1>2. /\ Disturbs /\ pr' = [pr EXCEPT ![b].state = "closed"] /\ pr[b].state = "open" /\ Happens
      /\ UNCHANGED <<tip, parent, base, tracked, recorded, pending, remote, shared, owes, apart, made>>
  BY DEF Close, records, localVars, history
<1>3. pr[b] \in Pr
  BY <1>1
<1>4. /\ pr' \in [Branch -> Pr] /\ pr'[b].state = "closed" /\ pr'[b].base = pr[b].base
      /\ \A c \in Branch : c # b => pr'[c] = pr[c]
  BY <1>1, <1>2, <1>3 DEF Pr
<1>5. GitHubHolds'
  BY <1>1, <1>2, <1>4 DEF GitHubHolds, Open, Compared
<1>6. \A c \in Branch : /\ pr[c].state # "none" => pr'[c].state # "none"
                        /\ Open(c)' => pr'[c] = pr[c] /\ (Stands(c) => Stands(c)')
  BY <1>2, <1>4 DEF Open, Stands
<1>7. TypeOK' /\ WorkOK' /\ RecordsHold' /\ CalmHolds'
  BY <1>1, <1>2, <1>4, <1>6, Types, HappensIs, OthersFrame
<1> QED
  BY <1>1, <1>2, <1>5, <1>7, StackFrame DEF Rest, localVars

LEMMA RetargetStep ==
    ASSUME Holds, NEW b \in Branch, NEW x \in Node, Retarget(b, x)
    PROVE  Rest'
<1>1. TypeOK /\ StackHolds /\ GitHubHolds
  BY DEF Holds
<1>2. /\ Disturbs /\ Happens /\ remote[x] # None /\ SetBase(b, x)
      /\ UNCHANGED <<tip, parent, base, tracked, recorded, pending, remote, shared, owes, made>>
  BY DEF Retarget, records, localVars
<1>3. /\ pr' \in [Branch -> Pr] /\ apart' = apart \cup {b} /\ apart' \subseteq Branch
      /\ pr'[b].state = "open" /\ \A c \in Branch : c # b => pr'[c] = pr[c]
  BY <1>1, <1>2, Types, SetBaseIs
<1>4. GitHubHolds'
  BY <1>1, <1>2, Types, SetBaseGitHub
<1>5. \A c \in Branch : /\ pr[c].state # "none" => pr'[c].state # "none"
                        /\ c \notin apart' => pr'[c] = pr[c] /\ (Stands(c) => Stands(c)')
  BY <1>2, <1>3 DEF Stands
<1>6. TypeOK' /\ WorkOK' /\ RecordsHold' /\ CalmHolds'
  BY <1>1, <1>2, <1>3, <1>5, Types, HappensIs, OthersFrame
<1> QED
  BY <1>1, <1>2, <1>4, <1>6, StackFrame DEF Rest, localVars

-----------------------------------------------------------------------------
(* The steps of a submit.                                                  *)

\* A submit that ends leaves nothing to claim of it.
LEMMA EndStep ==
    ASSUME Holds, submit' = NoSubmit, TypeOK',
           UNCHANGED <<tip, parent, base, recorded, pending, remote, pr, apart>>
    PROVE  Rest'
<1>1. submit'.pc = "idle" /\ submit'.scope = {}
  BY DEF NoSubmit
<1>2. StackHolds'
  BY StackFrame DEF Holds, localVars
<1>3. GitHubHolds'
  BY DEF Holds, GitHubHolds, Open, Compared
<1>4. WorkOK'
  BY <1>1 DEF WorkOK, Underway, Planned
<1>5. RecordsHold'
  BY <1>1, RecordFrame DEF Holds, RecordsHold, Stands, Settling, Writing, Open
<1>6. CalmHolds'
  BY <1>1 DEF CalmHolds
<1> QED
  BY <1>2, <1>3, <1>4, <1>5, <1>6 DEF Rest

\* A step that only the submit notes, before it writes or after.
LEMMA NoteStep ==
    ASSUME Holds, TypeOK', WorkOK', CalmHolds', submit'.pc # "write",
           UNCHANGED <<tip, parent, base, remote, recorded, pr, apart>>,
           \A b \in Branch : b \notin pending' => b \notin pending \/ Settling(b)
    PROVE  Rest'
<1>1. StackHolds'
  BY StackFrame DEF Holds, localVars
<1>2. GitHubHolds'
  BY DEF Holds, GitHubHolds, Open, Compared
<1>3. RecordsHold'
  BY RecordFrame DEF Holds, RecordsHold, Stands, Settling, Writing, Open
<1> QED
  BY <1>1, <1>2, <1>3 DEF Rest

LEMMA BeginStep ==
    ASSUME Holds, NEW b \in Branch, NEW S, S \in {Downstack(b), Downstack(b) \cup Upstack(b)}, Begin(S)
    PROVE  Rest'
<1>1. TypeOK /\ Rooted(parent) /\ parent \in [Branch -> Node]
  BY Types DEF Holds, StackHolds
<1>2. /\ submit' = [NoSubmit EXCEPT !.pc = "look", !.scope = S]
      /\ UNCHANGED <<tip, parent, base, tracked, recorded, pending, remote, shared, pr, owes, apart>>
      /\ UNCHANGED <<made, events>>
  BY DEF Begin, localVars, records, remoteVars, history, counters
<1>3. /\ submit'.pc = "look" /\ submit'.scope = S /\ submit'.status = None /\ submit'.kept = None
      /\ submit'.stage = <<>>
  BY <1>2 DEF NoSubmit
<1> DEFINE d == Below(parent)
<1>4. /\ d[Trunk] = {} /\ \A c \in Branch : d[c] = {c} \cup d[parent[c]]
      /\ \A x \in Node : d[x] \subseteq Branch
      /\ \A x \in Node : \A c \in d[x] : d[c] \subseteq d[x]
  BY <1>1, BelowIs, BelowOrders
<1>5. Downstack(b) = d[b] /\ Upstack(b) = {c \in Branch : b \in d[c]}
  BY DownstackIs DEF Upstack
<1> HIDE DEF d
<1>6. S \subseteq Branch
  BY <1>4, <1>5 DEF Node
<1>7. ASSUME NEW c \in S PROVE parent[c] = Trunk \/ parent[c] \in S
  <2>1. SUFFICES ASSUME parent[c] # Trunk PROVE parent[c] \in S
    OBVIOUS
  <2>2. c \in Branch /\ parent[c] \in Branch /\ parent[c] \in d[c]
    BY <1>1, <1>4, <1>6, <2>1 DEF Node
  <2>3. CASE c \in d[b]
    BY <1>4, <1>5, <2>2, <2>3 DEF Node
  <2>4. CASE c \notin d[b] /\ b \in d[c]
    <3>1. c # b
      BY <1>4, <2>4
    <3>2. b \in d[parent[c]]
      BY <1>4, <2>2, <2>4, <3>1
    <3>3. S = d[b] \cup {x \in Branch : b \in d[x]}
      BY <1>5, <2>4
    <3> QED
      BY <2>2, <3>2, <3>3
  <2> QED
    BY <1>5, <2>3, <2>4
<1>8. TypeOK'
  BY <1>1, <1>2, <1>3 DEF TypeOK
<1>9. WorkOK'
  BY <1>3, <1>6 DEF WorkOK, Underway, Planned
<1>10. CalmHolds'
  BY <1>2, <1>3, <1>7 DEF CalmHolds, Underway, Planned
<1> QED
  BY <1>2, <1>3, <1>8, <1>9, <1>10, NoteStep

\* What is seen is what is, or what was when the branch was last seen.
LEMMA ListStep ==
    ASSUME Holds, NEW lists \in BOOLEAN, ListRemote(lists)
    PROVE  Rest'
<1> DEFINE at == [b \in submit.scope |-> [local |-> tip[b], remote |-> Seen(lists, b)]]
<1>1. /\ TypeOK /\ WorkOK /\ CalmHolds /\ TrackHolds /\ DOMAIN submit = DOMAIN NoSubmit
      /\ tip \in [Node -> Revision] /\ remote \in [Node -> Revision \cup {None}] /\ Branch \subseteq Node
      /\ tracked \in [Branch -> Revision \cup {None}] /\ events \in 0 .. MaxEvents
  BY Types DEF Holds, MarksHold
<1>2. /\ submit.pc = "look" /\ submit.status = None
      /\ submit' = [submit EXCEPT !.status = at, !.listed = lists,
                                  !.pc = IF submit.kept = None THEN @ ELSE "plan"]
      /\ UNCHANGED <<tip, parent, base, tracked, recorded, pending, remote, shared, pr, owes, apart, made>>
      /\ Happens \/ events' = events
  BY DEF ListRemote, localVars, records, remoteVars, history
<1> HIDE DEF at
<1>3. /\ submit'.pc = (IF submit.kept = None THEN "look" ELSE "plan") /\ submit'.status = at
      /\ submit'.scope = submit.scope /\ submit'.kept = submit.kept /\ submit'.calm = submit.calm
      /\ submit'.stage = submit.stage /\ submit'.listed = lists
  BY <1>1, <1>2 DEF NoSubmit
<1>4. /\ submit.scope \subseteq Branch
      /\ submit.kept = None \/ submit.kept \subseteq submit.scope
  BY <1>1, <1>2 DEF WorkOK
<1>5. \A b \in submit.scope : at[b] = [local |-> tip[b], remote |-> Seen(lists, b)]
  BY DEF at
<1>6. StatusOK'
  <2>1. ASSUME NEW b \in submit.scope
        PROVE  /\ at[b].local \in Revision /\ at[b].remote \in Revision \cup {None}
               /\ at[b].remote # None => remote[b] # None
    <3>1. at[b] = [local |-> tip[b], remote |-> Seen(lists, b)]
      BY <1>5
    <3>2. at[b].local = tip[b] /\ at[b].remote = Seen(lists, b)
      BY <3>1
    <3>3. b \in Node /\ b \in Branch
      BY <1>1, <1>4
    <3>4. /\ Seen(lists, b) \in Revision \cup {None}
          /\ Seen(lists, b) # None => remote[b] # None
      BY <1>1, <3>3 DEF Seen, TrackHolds, Follows
    <3> QED
      BY <1>1, <3>2, <3>3, <3>4
  <2> QED
    BY <1>2, <1>3, <2>1 DEF StatusOK
<1>7. Listed'
  BY <1>2, <1>3, <1>5 DEF Listed, Seen
<1>8. TypeOK'
  <2>1. events' \in 0 .. MaxEvents
    BY <1>1, <1>2, HappensIs
  <2> QED
    BY <1>1, <1>2, <1>3, <2>1 DEF TypeOK
<1>9. WorkOK'
  BY <1>3, <1>4, <1>6 DEF WorkOK, Underway, Planned
<1>10. ASSUME submit.calm
       PROVE  /\ \A b \in submit.scope : parent[b] = Trunk \/ parent[b] \in submit.scope
              /\ (submit.kept = None \/ (Kept /\ Looked))
  BY <1>1, <1>2, <1>10 DEF CalmHolds
<1>11. (Kept => Kept') /\ (Looked => Looked')
  BY <1>2, <1>3 DEF Kept, Looked
<1>12. CalmHolds'
  BY <1>2, <1>3, <1>7, <1>10, <1>11 DEF CalmHolds, Underway, Planned
<1> QED
  BY <1>2, <1>3, <1>8, <1>9, <1>12, NoteStep

\* The parent of a branch that goes is in the same submit, and the branch stands
\* on it, unless that parent is not of the submit at all.
LEMMA SubmittableIs ==
    ASSUME parent \in [Branch -> Node], Rooted(parent), NEW S, S \subseteq Branch, NEW lists
    PROVE  /\ Submittable(S, lists) \subseteq S
           /\ \A b \in Submittable(S, lists) :
                 parent[b] \in S => parent[b] \in Submittable(S, lists) /\ base[b] = tip[parent[b]]
<1> DEFINE Goes(b, v) == /\ b \in S
                         /\ \/ parent[b] = Trunk
                            \/ IF parent[b] \in S THEN v /\ base[b] = tip[parent[b]]
                               ELSE tip[parent[b]] = Seen(lists, parent[b])
           F == [b \in Branch |-> [v \in BOOLEAN |-> Goes(b, v)]]
           IsOk(u) == u = [x \in Node |->
                             \/ x = Trunk
                             \/ /\ x \in S
                                /\ \/ parent[x] = Trunk
                                   \/ IF parent[x] \in S
                                      THEN u[parent[x]] /\ base[x] = tip[parent[x]]
                                      ELSE tip[parent[x]] = Seen(lists, parent[x])]
           ok == CHOOSE u : IsOk(u)
<1>1. Trunk \notin Branch /\ Trunk \notin S
  BY ConstantsAssumption
<1>2. Tree(parent, Branch, Trunk)
  BY <1>1 DEF Tree, Rooted, Node
<1>3. F \in Steps(Branch, BOOLEAN)
  BY DEF Steps
<1>4. \A b \in Branch, v \in BOOLEAN : F[b][v] = Goes(b, v)
  OBVIOUS
<1> HIDE DEF F
<1>5. PICK f : Recursion(f, parent, Branch, Trunk, BOOLEAN, TRUE, F)
  <2>1. TRUE \in BOOLEAN
    OBVIOUS
  <2> QED
    BY <1>2, <1>3, <2>1, RootRecursion
<1>6. /\ f \in [Node -> BOOLEAN] /\ f[Trunk] = TRUE
      /\ \A b \in Branch : f[b] = F[b][f[parent[b]]]
  BY <1>5 DEF Recursion, Node
<1>7. ASSUME NEW b \in Branch PROVE f[b] = Goes(b, f[parent[b]])
  <2>1. parent[b] \in Node /\ f[parent[b]] \in BOOLEAN
    BY <1>6
  <2>2. F[b][f[parent[b]]] = Goes(b, f[parent[b]])
    BY <1>4, <2>1
  <2>3. f[b] = F[b][f[parent[b]]]
    BY <1>6
  <2> HIDE DEF Goes
  <2> QED
    BY <2>2, <2>3
<1>8. IsOk(f)
  BY <1>1, <1>6, <1>7 DEF Node
<1>9. IsOk(ok)
  <2> HIDE DEF IsOk
  <2> QED
    BY <1>8
<1>10. Submittable(S, lists) = {b \in S : ok[b]}
  BY DEF Submittable
<1> HIDE DEF ok
<1>11. \A b \in S : ok[b] => \/ parent[b] = Trunk
                             \/ IF parent[b] \in S THEN ok[parent[b]] /\ base[b] = tip[parent[b]]
                                ELSE tip[parent[b]] = Seen(lists, parent[b])
  BY <1>1, <1>9 DEF Node
<1> QED
  BY <1>1, <1>10, <1>11

LEMMA ValidateStep ==
    ASSUME Holds, NEW answers \in BOOLEAN, NEW lists \in BOOLEAN, Validate(answers, lists)
    PROVE  Rest'
<1> DEFINE kept == Submittable(submit.scope, lists)
           seen(b) == [recorded[b] EXCEPT !.state = pr[b].state, !.base = pr[b].base]
<1>1. /\ TypeOK /\ WorkOK /\ CalmHolds /\ GitHubHolds /\ RecordsHold /\ StackHolds
      /\ DOMAIN submit = DOMAIN NoSubmit
      /\ parent \in [Branch -> Node] /\ pr \in [Branch -> Pr] /\ recorded \in [Branch -> Rec]
      /\ events \in 0 .. MaxEvents
  BY Types DEF Holds, MarksHold
<1>2. /\ submit.pc = "look" /\ submit.kept = None
      /\ UNCHANGED <<tip, parent, base, tracked, pending, remote, shared, pr, owes, apart, made>>
      /\ submit' = IF kept = {} THEN NoSubmit
                   ELSE [submit EXCEPT !.kept = kept, !.calm = @ /\ answers,
                                       !.pc = IF submit.status = None THEN @ ELSE "plan"]
  BY DEF Validate, localVars, remoteVars, history
<1>3. /\ answers => recorded' = [b \in Branch |-> IF b \in submit.scope /\ pr[b].state # "none"
                                                  THEN seen(b) ELSE recorded[b]]
      /\ ~answers => recorded' = recorded
      /\ answers => events' = events
      /\ ~answers => Happens
  BY DEF Validate
<1>4. ASSUME NEW b \in Branch
      PROVE  /\ seen(b) \in Rec /\ seen(b).state = pr[b].state /\ seen(b).base = pr[b].base
             /\ seen(b).sha = recorded[b].sha
  <2>1. pr[b] \in Pr /\ recorded[b] \in Rec
    BY <1>1
  <2> QED
    BY <2>1 DEF Pr, Rec
<1> HIDE DEF kept, seen
<1>5. /\ recorded' \in [Branch -> Rec]
      /\ \A b \in Branch : /\ recorded'[b] = recorded[b] \/ recorded'[b] = seen(b)
                           /\ pr[b].state = "none" => recorded'[b] = recorded[b]
                           /\ answers /\ b \in submit.scope /\ pr[b].state # "none" => recorded'[b] = seen(b)
  BY <1>1, <1>3, <1>4
<1>6. events' \in 0 .. MaxEvents
  BY <1>1, <1>3, HappensIs
<1>7. kept \subseteq submit.scope /\ submit.scope \subseteq Branch
  <2>1. submit.scope \subseteq Branch /\ Rooted(parent)
    BY <1>1 DEF WorkOK, StackHolds
  <2> QED
    BY <1>1, <2>1, SubmittableIs DEF kept
<1>8. StackHolds'
  BY <1>1, <1>2, StackFrame DEF localVars
<1>9. GitHubHolds'
  BY <1>1, <1>2, <1>5 DEF GitHubHolds, Open, Compared
<1>10. ASSUME submit'.pc # "write" PROVE RecordsHold'
  <2> SUFFICES ASSUME NEW b \in Branch PROVE RecordHolds(b)'
    BY DEF RecordsHold
  <2>1. RecordHolds(b)
    BY <1>1 DEF RecordsHold
  <2>2. recorded'[b] = recorded[b] \/ (recorded'[b].base = pr[b].base /\ recorded'[b].sha = recorded[b].sha)
    BY <1>4, <1>5
  <2>3. Known(b) => Known(b)'
    BY <1>2, <2>2 DEF Known
  <2>4. ~Settling(b)' /\ ~Writing(b, "written")' /\ (Stands(b) => Stands(b)') /\ (Open(b)' => Open(b))
    BY <1>2, <1>10 DEF Settling, Writing, Stands, Open
  <2> QED
    BY <1>2, <2>1, <2>3, <2>4 DEF RecordHolds
<1>11. CASE kept = {}
  <2>1. submit' = NoSubmit /\ submit'.pc = "idle" /\ submit'.scope = {} /\ submit'.stage = <<>>
    BY <1>2, <1>11 DEF NoSubmit
  <2>2. TypeOK'
    BY <1>1, <1>2, <1>5, <1>6, <2>1 DEF TypeOK, Rec
  <2>3. WorkOK' /\ CalmHolds'
    BY <2>1 DEF WorkOK, CalmHolds, Underway, Planned
  <2> QED
    BY <1>8, <1>9, <1>10, <2>1, <2>2, <2>3 DEF Rest
<1>12. CASE kept # {}
  <2>1. /\ submit'.pc = (IF submit.status = None THEN "look" ELSE "plan") /\ submit'.kept = kept
        /\ submit'.scope = submit.scope /\ submit'.status = submit.status
        /\ submit'.calm = (submit.calm /\ answers) /\ submit'.stage = submit.stage
        /\ submit'.listed = submit.listed
    BY <1>1, <1>2, <1>12 DEF NoSubmit
  <2>2. TypeOK'
    BY <1>1, <1>2, <1>5, <1>6, <2>1 DEF TypeOK, Rec
  <2>3. submit.status = None \/ StatusOK
    BY <1>1, <1>2 DEF WorkOK
  <2>4. StatusOK => StatusOK'
    BY <1>2, <2>1 DEF StatusOK
  <2>5. WorkOK'
    BY <1>7, <2>1, <2>3, <2>4 DEF WorkOK, Underway, Planned
  <2>6. ASSUME submit.calm, answers PROVE CalmHolds'
    <3>1. /\ \A b \in submit.scope : parent[b] = Trunk \/ parent[b] \in submit.scope
          /\ submit.status = None \/ Listed
      BY <1>1, <1>2, <2>6 DEF CalmHolds
    <3>2. Listed => Listed'
      BY <1>2, <2>1 DEF Listed, Seen
    <3>3. Looked'
      <4> SUFFICES ASSUME NEW b \in kept
                   PROVE  /\ recorded'[b].state = pr[b].state
                          /\ pr[b].state # "none" => recorded'[b].base = pr[b].base
        BY <1>2, <2>1 DEF Looked
      <4>1. b \in submit.scope /\ b \in Branch
        BY <1>7
      <4>2. CASE pr[b].state = "none"
        BY <1>1, <1>5, <4>1, <4>2 DEF GitHubHolds
      <4>3. CASE pr[b].state # "none"
        BY <1>4, <1>5, <2>6, <4>1, <4>3
      <4> QED
        BY <4>2, <4>3
    <3>4. Kept'
      <4>1. Rooted(parent)
        BY <1>1 DEF StackHolds
      <4>2. \A b \in kept : parent[b] \in submit.scope => parent[b] \in kept /\ base[b] = tip[parent[b]]
        BY <1>1, <1>7, <4>1, SubmittableIs DEF kept
      <4> QED
        BY <1>2, <1>7, <2>1, <3>1, <4>2 DEF Kept
    <3> QED
      BY <1>2, <2>1, <3>1, <3>2, <3>3, <3>4 DEF CalmHolds, Underway, Planned
  <2>7. CalmHolds'
    BY <2>1, <2>6 DEF CalmHolds
  <2> QED
    BY <1>8, <1>9, <1>10, <2>1, <2>2, <2>5, <2>7 DEF Rest
<1> QED
  BY <1>11, <1>12

\* A branch that matches what was seen of it: that is how it is on the remote, or
\* how it was and the remote has not been listed.
LEMMA MatchesIs ==
    ASSUME Holds, Listed, NEW b \in submit.scope, b \in Branch, Matches(b)
    PROVE  Current(b)
<1>1. submit.status[b] = [local |-> tip[b], remote |-> Seen(submit.listed, b)]
  BY DEF Listed
<1>2. submit.status[b].local = tip[b] /\ submit.status[b].remote = Seen(submit.listed, b)
  BY <1>1
<1>3. Seen(submit.listed, b) = tip[b]
  BY <1>2 DEF Matches
<1>4. TrackHolds /\ tip[b] # None
  BY Types DEF Holds
<1>5. CASE submit.listed /\ remote[b] # None
  BY <1>3, <1>5 DEF Seen, Current
<1>6. CASE ~(submit.listed /\ remote[b] # None)
  <2>1. tracked[b] = tip[b]
    BY <1>3, <1>6 DEF Seen
  <2>2. remote[b] # None
    BY <1>4, <2>1 DEF TrackHolds, Follows
  <2> QED
    BY <1>6, <2>1, <2>2 DEF Current
<1> QED
  BY <1>5, <1>6

\* A branch that is left out of the plan is on GitHub what it is here.
LEMMA PlanStep ==
    ASSUME Holds, Plan
    PROVE  Rest'
<1> DEFINE I == {b \in submit.kept : Creates(b) \/ NeedsUpdate(b)}
           info(b) == [create |-> Creates(b), base |-> parent[b], sha |-> tip[parent[b]]]
<1>1. /\ TypeOK /\ WorkOK /\ CalmHolds /\ GitHubHolds
      /\ DOMAIN submit = DOMAIN NoSubmit
      /\ parent \in [Branch -> Node] /\ tip \in [Node -> Revision] /\ recorded \in [Branch -> Rec]
  BY Types DEF Holds, MarksHold
<1>2. /\ submit.pc = "plan"
      /\ UNCHANGED <<tip, parent, base, tracked, recorded, pending, remote, shared, pr, owes, apart>>
      /\ UNCHANGED <<made, events>>
      /\ submit' = [submit EXCEPT !.infos = [b \in I |-> info(b)], !.pc = IF I = {} THEN "done" ELSE "mark"]
  BY DEF Plan, localVars, records, remoteVars, history, counters
<1>3. I \subseteq submit.kept /\ \A b \in submit.kept \ I : ~Creates(b) /\ ~NeedsUpdate(b)
  OBVIOUS
<1>4. \A b : info(b).create = Creates(b) /\ info(b).base = parent[b] /\ info(b).sha = tip[parent[b]]
  OBVIOUS
<1> HIDE DEF I, info
<1>5. /\ submit'.pc = (IF I = {} THEN "done" ELSE "mark")
      /\ submit'.infos = [b \in I |-> info(b)]
      /\ submit'.scope = submit.scope /\ submit'.status = submit.status /\ submit'.kept = submit.kept
      /\ submit'.calm = submit.calm /\ submit'.stage = submit.stage /\ submit'.listed = submit.listed
  BY <1>1, <1>2 DEF NoSubmit
<1>6. Infos' = I /\ \A b \in I : Info(b)' = info(b)
  BY <1>5 DEF Infos, Info
<1>7. StatusOK /\ submit.kept \subseteq submit.scope /\ submit.scope \subseteq Branch
  BY <1>1, <1>2 DEF WorkOK, Underway
<1>8. \A b \in Branch : ~Creates(b) => recorded[b].state = "open"
  BY <1>1 DEF Creates, Rec
<1>9. TypeOK'
  BY <1>1, <1>2, <1>5 DEF TypeOK
<1>10. StatusOK'
  BY <1>2, <1>5, <1>7 DEF StatusOK
<1>11. \A b \in I : /\ b \in Branch /\ parent[b] \in Node /\ tip[parent[b]] \in Revision
                    /\ ~Creates(b) => pr[b].state # "none"
  BY <1>1, <1>3, <1>7, <1>8 DEF GitHubHolds
<1>12. WorkOK'
  BY <1>2, <1>3, <1>4, <1>5, <1>6, <1>7, <1>10, <1>11 DEF WorkOK, Underway, Planned
<1>13. ASSUME submit.calm PROVE CalmHolds'
  <2>1. /\ \A b \in submit.scope : parent[b] = Trunk \/ parent[b] \in submit.scope
        /\ Listed /\ Looked /\ Kept
    BY <1>1, <1>2, <1>13 DEF CalmHolds, Underway
  <2>2. Listed' /\ Looked' /\ Kept'
    BY <1>2, <1>5, <2>1 DEF Listed, Seen, Looked, Kept
  <2>3. ASSUME NEW b \in submit.kept \ I
        PROVE  Same(b) /\ b \notin pending /\ Matches(b) /\ Current(b)
    <3>1. /\ b \in Branch /\ b \in submit.scope /\ recorded[b].state = "open"
          /\ recorded[b].base = parent[b] /\ Matches(b) /\ b \notin pending
      BY <1>3, <1>7, <1>8, <2>3 DEF NeedsUpdate
    <3>2. pr[b].state = "open" /\ pr[b].base = parent[b]
      BY <2>1, <2>3, <3>1 DEF Looked
    <3>3. Current(b)
      BY <2>1, <3>1, MatchesIs
    <3> QED
      BY <3>1, <3>2, <3>3 DEF Same, Open
  <2>4. \A b \in Left' : Same(b)' /\ b \notin pending' /\ Matches(b)' /\ Current(b)'
    BY <1>2, <1>5, <1>6, <2>3 DEF Left, Same, Open, Matches, Current
  <2>5. \A b \in Infos' : /\ Info(b)'.base = parent'[b] /\ Info(b)'.sha = tip'[parent'[b]]
                          /\ ~Info(b)'.create => recorded'[b].state = "open"
    BY <1>2, <1>3, <1>4, <1>6, <1>7, <1>8
  <2>6. I = {} => Left' = submit'.kept
    BY <1>6 DEF Left
  <2> QED
    BY <1>2, <1>5, <2>1, <2>2, <2>4, <2>5, <2>6 DEF CalmHolds, Underway, Planned
<1>14. CalmHolds'
  BY <1>5, <1>13 DEF CalmHolds
<1> QED
  BY <1>2, <1>5, <1>9, <1>12, <1>14, NoteStep

LEMMA MarkStep ==
    ASSUME Holds, MarkPending
    PROVE  Rest'
<1>1. TypeOK /\ WorkOK /\ CalmHolds /\ DOMAIN submit = DOMAIN NoSubmit
  BY DEF Holds, MarksHold
<1>2. /\ submit.pc = "mark" /\ submit' = [submit EXCEPT !.pc = "push"] /\ pending' = pending \cup Infos
      /\ UNCHANGED <<tip, parent, base, tracked, recorded, remote, shared, pr, owes, apart, made, events>>
  BY DEF MarkPending, localVars, remoteVars, history, counters
<1>3. /\ submit'.pc = "push" /\ submit'.infos = submit.infos
      /\ submit'.scope = submit.scope /\ submit'.status = submit.status /\ submit'.kept = submit.kept
      /\ submit'.calm = submit.calm /\ submit'.stage = submit.stage /\ submit'.listed = submit.listed
  BY <1>1, <1>2 DEF NoSubmit
<1>4. Infos' = Infos /\ Left' = Left /\ \A b : Info(b)' = Info(b)
  BY <1>3 DEF Infos, Info, Left
<1>5. Infos \subseteq Branch
  BY <1>1, <1>2 DEF WorkOK, Underway, Planned
<1>6. TypeOK'
  BY <1>1, <1>2, <1>3, <1>5 DEF TypeOK
<1>7. WorkOK'
  <2>1. StatusOK => StatusOK'
    BY <1>2, <1>3 DEF StatusOK
  <2> QED
    BY <1>1, <1>2, <1>3, <1>4, <2>1 DEF WorkOK, Underway, Planned
<1>8. CalmHolds'
  <2>1. (Listed => Listed') /\ (Looked => Looked') /\ (Kept => Kept')
    BY <1>2, <1>3 DEF Listed, Seen, Looked, Kept
  <2>2. \A b \in Left : b \notin Infos /\ (Same(b) => Same(b)') /\ (Matches(b) => Matches(b)')
    BY <1>2, <1>3 DEF Left, Same, Open, Matches
  <2> QED
    BY <1>1, <1>2, <1>3, <1>4, <2>1, <2>2 DEF CalmHolds, Underway, Planned
<1> QED
  BY <1>2, <1>3, <1>6, <1>7, <1>8, NoteStep

-----------------------------------------------------------------------------
(* The push.                                                               *)

LEMMA PushStep ==
    ASSUME Holds, NEW works \in BOOLEAN, Push(works)
    PROVE  Rest'
<1> DEFINE due == {b \in Infos : ~Matches(b)}
           P == IF works THEN {b \in due : remote[b] = submit.status[b].remote} ELSE {}
           news == [b \in P |-> tip[b]]
           more == {b \in P : Info(b).base # Trunk /\ ~IsAncestor(Info(b).sha, tip[b])}
           stage == [b \in Infos |-> IF b \in due \ P THEN "failed" ELSE "call"]
<1>1. /\ TypeOK /\ StackHolds /\ GitHubHolds /\ WorkOK /\ RecordsHold /\ CalmHolds
      /\ DOMAIN submit = DOMAIN NoSubmit /\ MarkedFirst
  BY DEF Holds, MarksHold
<1>2. /\ submit.pc = "push" /\ Receive(news, more)
      /\ works => events' = events
      /\ ~works => Happens
      /\ submit' = [submit EXCEPT !.pc = "write", !.stage = stage]
      /\ owes' = owes \cup P
      /\ tracked' = [b \in Branch |-> IF b \in P THEN tip[b] ELSE tracked[b]]
      /\ UNCHANGED <<tip, parent, base, recorded, pending, shared, made>>
  BY DEF Push, localVars, records
<1>3. P \subseteq due /\ due \subseteq Infos /\ more \subseteq P /\ \A b \in Infos : b \in due <=> ~Matches(b)
  OBVIOUS
<1>4. DOMAIN news = P /\ \A b \in P : news[b] = tip[b]
  OBVIOUS
<1>5. DOMAIN stage = Infos /\ \A b \in Infos : stage[b] = IF b \in due \ P THEN "failed" ELSE "call"
  OBVIOUS
<1> HIDE DEF due, P, news, more, stage
<1>6. /\ StatusOK /\ Infos \subseteq submit.kept /\ submit.kept \subseteq submit.scope
      /\ submit.scope \subseteq Branch /\ Infos \subseteq pending
      /\ \A b \in Infos : /\ Info(b).base \in Node /\ Info(b).sha \in Revision
                          /\ ~Info(b).create => pr[b].state # "none"
  BY <1>1, <1>2 DEF WorkOK, Underway, Planned, MarkedFirst
<1>7. P \subseteq Branch /\ P \subseteq Node /\ Trunk \notin P /\ more \subseteq Branch /\ owes' \subseteq Branch
  BY <1>1, <1>2, <1>3, <1>6, Types DEF TypeOK
<1>8. \A x \in DOMAIN news : news[x] \in Revision
  BY <1>1, <1>4, <1>7, Types
<1>9. \A b \in Branch : Open(b) => pr[b].base \in Node
  BY <1>1 DEF GitHubHolds, Compared
<1>10. /\ remote' \in [Node -> Revision \cup {None}]
       /\ \A x \in Node : remote'[x] = IF x \in P THEN tip[x] ELSE remote[x]
       /\ \A x \in Node : remote[x] # None => remote'[x] # None
       /\ pr' \in [Branch -> Pr] /\ apart' \subseteq Branch /\ apart \subseteq apart'
       /\ \A b \in Branch : /\ pr'[b].state = pr[b].state /\ pr'[b].base = pr[b].base
                            /\ pr'[b] = pr[b] \/ b \in apart'
  <2>1. DOMAIN news \subseteq Node /\ more \subseteq Branch
    BY <1>4, <1>7
  <2>2. /\ remote' \in [Node -> Revision \cup {None}]
        /\ \A x \in Node : remote'[x] = IF x \in DOMAIN news THEN news[x] ELSE remote[x]
        /\ \A x \in Node : remote[x] # None => remote'[x] # None
        /\ pr' \in [Branch -> Pr] /\ apart' \subseteq Branch /\ apart \subseteq apart'
        /\ \A b \in Branch : /\ pr'[b].state = pr[b].state /\ pr'[b].base = pr[b].base
                             /\ pr'[b] = pr[b] \/ b \in apart'
    BY <1>1, <1>2, <1>8, <1>9, <2>1, Types, ReceiveIs
  <2> QED
    BY <1>4, <2>2
<1>11. GitHubHolds'
  <2>1. DOMAIN news \subseteq Node
    BY <1>4, <1>7
  <2>2. /\ remote'[Trunk] = tip'[Trunk] /\ tip'[Trunk] \in Revision /\ IsAncestor(tip[Trunk], tip'[Trunk])
    BY <1>1, <1>2, <1>7, <1>10, Types, AncestorSelf DEF GitHubHolds, Revision
  <2> QED
    BY <1>1, <1>2, <1>7, <1>8, <2>1, <2>2, Types, ReceiveGitHub
<1>12. /\ submit'.pc = "write" /\ submit'.scope = submit.scope /\ submit'.status = submit.status
       /\ submit'.kept = submit.kept /\ submit'.infos = submit.infos /\ submit'.calm = submit.calm
       /\ submit'.stage = stage /\ submit'.listed = submit.listed
  BY <1>1, <1>2 DEF NoSubmit
<1>13. Infos' = Infos /\ Left' = Left /\ \A b : Info(b)' = Info(b)
  BY <1>12 DEF Infos, Info, Left
<1>14. TypeOK'
  <2>1. events' \in 0 .. MaxEvents
    BY <1>1, <1>2, Types, HappensIs
  <2>2. tracked' \in [Branch -> Revision \cup {None}]
    BY <1>1, <1>2, Types
  <2> QED
    BY <1>1, <1>2, <1>5, <1>7, <1>10, <1>12, <2>1, <2>2 DEF TypeOK, Pr
<1>15. StackHolds'
  BY <1>1, <1>2, StackFrame DEF localVars
<1>16. ASSUME NEW b \in Infos, stage[b] # "failed" PROVE b \in P \/ Matches(b)
  BY <1>3, <1>5, <1>16
<1>17. WorkOK'
  <2>1. StatusOK'
    BY <1>6, <1>10, <1>12, Types, <1>1 DEF StatusOK
  <2>2. ASSUME NEW b \in Infos, stage[b] # "failed" PROVE remote'[b] # None
    <3>1. b \in Node /\ b \in submit.scope
      BY <1>1, <1>6, Types
    <3>2. CASE b \in P
      BY <1>1, <1>10, <3>1, <3>2, Types
    <3>3. CASE Matches(b)
      <4>1. submit.status[b].remote # None
        BY <1>6, <3>1, <3>3, ConstantsAssumption DEF StatusOK, Matches
      <4> QED
        BY <1>6, <1>10, <3>1, <4>1 DEF StatusOK
    <3> QED
      BY <1>16, <2>2, <3>2, <3>3
  <2>3. \A b \in Infos : stage[b] \in {"call", "failed"}
    BY <1>5
  <2> QED
    BY <1>6, <1>10, <1>12, <1>13, <2>1, <2>2, <2>3 DEF WorkOK, Underway, Planned
<1>18. RecordsHold'
  <2> SUFFICES ASSUME NEW b \in Branch PROVE RecordHolds(b)'
    BY DEF RecordsHold
  <2>1. ~Settling(b)' /\ ~Writing(b, "written")'
    BY <1>5, <1>12, <1>13 DEF Settling, Writing
  <2>2. b \notin pending' => b \notin pending /\ remote'[b] = remote[b]
    BY <1>1, <1>2, <1>3, <1>6, <1>10, Types
  <2>3. Open(b)' /\ b \notin apart' => b \notin apart /\ pr'[b] = pr[b]
    BY <1>10
  <2> QED
    BY <1>1, <1>2, <2>1, <2>2, <2>3, RecordFrame DEF RecordsHold, Stands
<1>19. ASSUME submit.calm PROVE CalmHolds'
  <2>1. /\ \A b \in submit.scope : parent[b] = Trunk \/ parent[b] \in submit.scope
        /\ Listed /\ Looked /\ Kept
        /\ \A b \in Infos : Info(b).base = parent[b] /\ Info(b).sha = tip[parent[b]]
        /\ \A b \in Left : Same(b) /\ b \notin pending
        /\ \A b \in Infos : ~Info(b).create => recorded[b].state = "open"
        /\ \A b \in Left : Matches(b)
    BY <1>1, <1>2, <1>19 DEF CalmHolds, Underway, Planned
  <2>2. Kept'
    BY <1>2, <1>12, <2>1 DEF Kept
  <2>3. ASSUME NEW b \in submit.scope, Matches(b), b \notin P PROVE Current(b)'
    <3>1. b \in Branch /\ b \in Node
      BY <1>1, <1>6, Types
    <3>2. Current(b)
      BY <2>1, <2>3, <3>1, MatchesIs
    <3>3. remote'[b] = remote[b] /\ tracked'[b] = tracked[b]
      BY <1>2, <1>10, <2>3, <3>1
    <3> QED
      BY <1>2, <1>12, <3>2, <3>3 DEF Current
  <2>4. ASSUME NEW b \in Left
        PROVE  Same(b)' /\ b \notin pending' /\ Current(b)'
    <3>1. b \in submit.scope /\ b \in Branch /\ b \in Node /\ b \notin P
      BY <1>1, <1>3, <1>6, Types DEF Left
    <3>2. Same(b)'
      BY <1>2, <1>10, <2>1, <3>1 DEF Same, Open
    <3>3. Current(b)'
      BY <2>1, <2>3, <3>1
    <3> QED
      BY <1>2, <2>1, <3>2, <3>3
  <2>5. ASSUME NEW b \in Infos PROVE WriteHolds(b)'
    <3>1. b \in submit.scope /\ b \in submit.kept /\ b \in Branch /\ b \in Node
      BY <1>1, <1>6, Types
    <3>2. stage[b] \in {"call", "failed"}
      BY <1>5
    <3>3. stage[b] # "failed" => Current(b)'
      <4>1. b \in P => Current(b)'
        BY <1>2, <1>10, <3>1 DEF Current
      <4> QED
        BY <1>16, <2>3, <3>1, <4>1
    <3>4. ~Info(b).create => Open(b)' /\ recorded'[b].base = pr'[b].base
      BY <1>2, <1>10, <2>1, <3>1 DEF Looked, Open
    <3> QED
      BY <1>12, <1>13, <3>2, <3>3, <3>4 DEF WriteHolds, After
  <2> QED
    BY <1>2, <1>12, <1>13, <2>1, <2>2, <2>4, <2>5 DEF CalmHolds, Underway, Planned
<1>20. CalmHolds'
  BY <1>12, <1>19 DEF CalmHolds
<1> QED
  BY <1>11, <1>14, <1>15, <1>17, <1>18, <1>20 DEF Rest

-----------------------------------------------------------------------------
(* The steps that write a pull request.                                    *)

LEMMA AtWrite ==
    ASSUME Holds, NEW b \in Infos, submit.pc = "write"
    PROVE  /\ b \in Branch /\ b \in Node /\ b \in pending
           /\ Info(b).base \in Node /\ Info(b).sha \in Revision
           /\ ~Info(b).create => pr[b].state # "none"
           /\ submit.stage[b] # "failed" => remote[b] # None /\ remote[b] \in Revision
           /\ submit.stage[b] \notin {"call", "failed"} => pr[b].state # "none"
           /\ submit.stage[b] \in {"stale", "writtenStale"} => b \in apart
           /\ submit.calm => WriteHolds(b)
           /\ RecordHolds(b)
<1>1. /\ TypeOK /\ WorkOK /\ RecordsHold /\ CalmHolds /\ MarkedFirst
  BY DEF Holds, MarksHold
<1>2. /\ Infos \subseteq submit.kept /\ submit.kept \subseteq submit.scope
      /\ submit.scope \subseteq Branch /\ Infos \subseteq pending
  BY <1>1 DEF WorkOK, Underway, Planned, MarkedFirst
<1>3. b \in Branch /\ b \in Node /\ b \in pending
  BY <1>1, <1>2, Types
<1>4. /\ Info(b).base \in Node /\ Info(b).sha \in Revision
      /\ ~Info(b).create => pr[b].state # "none"
      /\ submit.stage[b] # "failed" => remote[b] # None
      /\ submit.stage[b] \notin {"call", "failed"} => pr[b].state # "none"
      /\ submit.stage[b] \in {"stale", "writtenStale"} => b \in apart
  BY <1>1 DEF WorkOK, Planned
<1>5. remote[b] # None => remote[b] \in Revision
  BY <1>1, <1>3, Types
<1>6. submit.calm => WriteHolds(b)
  BY <1>1 DEF CalmHolds
<1>7. RecordHolds(b)
  BY <1>1, <1>3 DEF RecordsHold
<1> QED
  BY <1>3, <1>4, <1>5, <1>6, <1>7

LEMMA StageIs ==
    ASSUME MarksHold, NEW b \in Infos, submit.pc = "write", NEW s, Stage(b, s)
    PROVE  /\ submit'.pc = "write" /\ submit'.scope = submit.scope /\ submit'.status = submit.status
           /\ submit'.kept = submit.kept /\ submit'.infos = submit.infos /\ submit'.calm = submit.calm
           /\ submit'.listed = submit.listed
           /\ DOMAIN submit.stage = Infos /\ DOMAIN submit'.stage = Infos
           /\ submit'.stage[b] = s
           /\ \A c \in Infos : c # b => submit'.stage[c] = submit.stage[c]
           /\ Infos' = Infos /\ Left' = Left /\ \A c : Info(c)' = Info(c)
<1>1. DOMAIN submit = DOMAIN NoSubmit /\ DOMAIN submit.stage = Infos
  BY DEF MarksHold, Settled
<1>2. /\ submit'.pc = "write" /\ submit'.scope = submit.scope /\ submit'.status = submit.status
      /\ submit'.kept = submit.kept /\ submit'.infos = submit.infos /\ submit'.calm = submit.calm
      /\ submit'.listed = submit.listed /\ submit'.stage = [submit.stage EXCEPT ![b] = s]
  BY <1>1 DEF Stage, NoSubmit
<1>3. Infos' = Infos /\ Left' = Left /\ \A c : Info(c)' = Info(c)
  BY <1>2 DEF Infos, Info, Left
<1> QED
  BY <1>1, <1>2, <1>3

Stages == {"call", "back", "stale", "written", "writtenStale", "recorded", "failed"}

\* A step at one branch: what is left to show is about that branch.
LEMMA WriteStep ==
    ASSUME Holds, NEW b \in Infos, submit.pc = "write", NEW s \in Stages, Stage(b, s),
           UNCHANGED <<tip, parent, base, tracked, pending, remote, shared, made>>,
           recorded' \in [Branch -> Rec], pr' \in [Branch -> Pr], apart' \subseteq Branch,
           owes' \subseteq Branch, events' \in 0 .. MaxEvents, GitHubHolds',
           \A c \in Branch : c # b => /\ pr'[c] = pr[c] /\ recorded'[c] = recorded[c]
                                      /\ c \in apart' <=> c \in apart,
           pr[b].state # "none" => pr'[b].state # "none",
           s # "failed" => remote[b] # None,
           s \notin {"call", "failed"} => pr'[b].state # "none",
           s \in {"stale", "writtenStale"} => b \in apart',
           RecordHolds(b)', submit.calm => WriteHolds(b)'
    PROVE  Rest'
<1>1. /\ TypeOK /\ StackHolds /\ WorkOK /\ RecordsHold /\ CalmHolds /\ MarksHold
  BY DEF Holds
<1>2. /\ submit'.pc = "write" /\ submit'.scope = submit.scope /\ submit'.status = submit.status
      /\ submit'.kept = submit.kept /\ submit'.infos = submit.infos /\ submit'.calm = submit.calm
      /\ submit'.listed = submit.listed
      /\ DOMAIN submit.stage = Infos /\ DOMAIN submit'.stage = Infos
      /\ submit'.stage[b] = s
      /\ \A c \in Infos : c # b => submit'.stage[c] = submit.stage[c]
      /\ Infos' = Infos /\ Left' = Left /\ \A c : Info(c)' = Info(c)
  BY <1>1, StageIs
<1>3. /\ StatusOK /\ Infos \subseteq submit.kept /\ submit.kept \subseteq submit.scope
      /\ submit.scope \subseteq Branch
  BY <1>1 DEF WorkOK, Underway, Planned
<1>4. TypeOK'
  BY <1>1, <1>2 DEF TypeOK, Pr, Rec, Stages
<1>5. StackHolds'
  BY <1>1, StackFrame DEF localVars
<1>6. WorkOK'
  <2>1. StatusOK'
    BY <1>2, <1>3 DEF StatusOK
  <2>2. ASSUME NEW c \in Infos
        PROVE  /\ Info(c).base \in Node /\ Info(c).sha \in Revision
               /\ ~Info(c).create => pr'[c].state # "none"
    BY <1>1, <1>3 DEF WorkOK, Planned
  <2>3. ASSUME NEW c \in Infos
        PROVE  /\ submit'.stage[c] # "failed" => remote'[c] # None
               /\ submit'.stage[c] \notin {"call", "failed"} => pr'[c].state # "none"
               /\ submit'.stage[c] \in {"stale", "writtenStale"} => c \in apart'
    BY <1>1, <1>2, <1>3 DEF WorkOK
  <2> QED
    BY <1>2, <1>3, <2>1, <2>2, <2>3 DEF WorkOK, Underway, Planned
<1>7. RecordsHold'
  <2> SUFFICES ASSUME NEW c \in Branch, c # b PROVE RecordHolds(c)'
    BY DEF RecordsHold
  <2>1. RecordHolds(c)
    BY <1>1 DEF RecordsHold
  <2>2. (Settling(c)' => Settling(c)) /\ (Writing(c, "written")' => Writing(c, "written"))
    BY <1>2 DEF Settling, Writing
  <2> QED
    BY <1>2, <2>1, <2>2, RecordFrame DEF Stands
<1>8. ASSUME submit.calm PROVE CalmHolds'
  <2>1. /\ \A c \in submit.scope : parent[c] = Trunk \/ parent[c] \in submit.scope
        /\ Kept
        /\ \A c \in Infos : Info(c).base = parent[c] /\ Info(c).sha = tip[parent[c]]
        /\ \A c \in Left : Same(c) /\ c \notin pending
        /\ \A c \in Left : Current(c)
        /\ \A c \in Infos : WriteHolds(c)
    BY <1>1, <1>8 DEF CalmHolds, Underway, Planned
  <2>2. Kept'
    BY <1>2, <2>1 DEF Kept
  <2>3. \A c \in Left : Same(c)'
    BY <1>3, <2>1 DEF Same, Open, Left
  <2>4. ASSUME NEW c \in Infos, c # b PROVE WriteHolds(c)'
    <3>1. WriteHolds(c) /\ c \in Branch
      BY <1>3, <2>1
    <3> QED
      BY <1>2, <2>4, <3>1 DEF WriteHolds, Open, Current
  <2>5. \A c \in Left : Current(c)'
    BY <1>2, <2>1 DEF Current
  <2> QED
    BY <1>2, <1>8, <2>1, <2>2, <2>3, <2>4, <2>5 DEF CalmHolds, Underway, Planned
<1>9. CalmHolds'
  BY <1>2, <1>8 DEF CalmHolds
<1> QED
  BY <1>4, <1>5, <1>6, <1>7, <1>9 DEF Rest

\* What a step at one branch finds.
LEMMA WriteTypes ==
    ASSUME Holds
    PROVE  /\ TypeOK /\ MarksHold /\ GitHubHolds
           /\ pr \in [Branch -> Pr] /\ recorded \in [Branch -> Rec]
           /\ remote \in [Node -> Revision \cup {None}] /\ apart \subseteq Branch
           /\ owes \subseteq Branch /\ events \in 0 .. MaxEvents /\ remote[Trunk] # None
<1>1. TypeOK /\ MarksHold /\ GitHubHolds
  BY DEF Holds
<1>2. tip[Trunk] \in Revision /\ remote[Trunk] = tip[Trunk] /\ None \notin Revision
  BY <1>1, Types DEF GitHubHolds
<1> QED
  BY <1>1, <1>2, Types DEF TypeOK

\* GitHub compares the pull request anew.
LEMMA SetBaseStep ==
    ASSUME Holds, NEW b \in Infos, submit.pc = "write", submit.stage[b] # "failed",
           NEW s \in {"back", "written", "writtenStale", "failed"}, Stage(b, s),
           NEW x \in Node, remote[x] # None, SetBase(b, x), s # "back" => x = Info(b).base,
           UNCHANGED <<tip, parent, base, tracked, recorded, pending, remote, shared, made>>,
           owes' \subseteq Branch, events' \in 0 .. MaxEvents
    PROVE  Rest'
<1>1. /\ TypeOK /\ MarksHold /\ GitHubHolds
      /\ pr \in [Branch -> Pr] /\ recorded \in [Branch -> Rec]
      /\ remote \in [Node -> Revision \cup {None}] /\ apart \subseteq Branch
  BY WriteTypes
<1>2. /\ b \in Branch /\ remote[b] # None
      /\ submit.calm => WriteHolds(b)
  BY AtWrite
<1>3. /\ pr' \in [Branch -> Pr] /\ apart' = apart \cup {b} /\ apart' \subseteq Branch
      /\ pr'[b].state = "open" /\ pr'[b].base = x
      /\ \A c \in Branch : c # b => pr'[c] = pr[c]
  BY <1>1, <1>2, SetBaseIs
<1>4. GitHubHolds'
  BY <1>1, <1>2, SetBaseGitHub
<1>5. RecordHolds(b)'
  BY <1>3 DEF RecordHolds
<1>6. submit'.stage[b] = s /\ Info(b)' = Info(b) /\ submit'.listed = submit.listed
  BY <1>1, StageIs
<1>7. submit.calm => WriteHolds(b)'
  BY <1>2, <1>3, <1>6 DEF WriteHolds, Open, After, Current
<1> QED
  BY <1>1, <1>2, <1>3, <1>4, <1>5, <1>7, WriteStep DEF Stages

\* The write fails, and nothing on GitHub has changed.
LEMMA FailStep ==
    ASSUME Holds, NEW b \in Infos, submit.pc = "write", Stage(b, "failed"),
           UNCHANGED <<tip, parent, base, tracked, recorded, pending, remote, shared, pr, apart, owes, made>>,
           events' \in 0 .. MaxEvents
    PROVE  Rest'
<1>1. /\ TypeOK /\ MarksHold /\ GitHubHolds
      /\ pr \in [Branch -> Pr] /\ recorded \in [Branch -> Rec] /\ apart \subseteq Branch
      /\ owes \subseteq Branch
  BY WriteTypes
<1>2. b \in Branch /\ RecordHolds(b)
  BY AtWrite
<1>3. GitHubHolds'
  BY <1>1 DEF GitHubHolds, Open, Compared
<1>4. submit'.stage[b] = "failed"
  BY <1>1, StageIs
<1>5. RecordHolds(b)'
  BY <1>2, <1>4, RecordFrame DEF Stands, Settling, Writing
<1>6. WriteHolds(b)'
  BY <1>4 DEF WriteHolds, After
<1> QED
  BY <1>1, <1>2, <1>3, <1>5, <1>6, WriteStep DEF Stages

LEMMA CreateStep ==
    ASSUME Holds, NEW b \in Branch, Create(b) \/ CreateFails(b)
    PROVE  Rest'
<1>1. owes \subseteq Branch /\ events \in 0 .. MaxEvents
  BY WriteTypes
<1>2. CASE Create(b)
  <2>1. /\ b \in Infos /\ submit.pc = "write" /\ submit.stage[b] = "call" /\ Stage(b, "written")
        /\ remote[Info(b).base] # None /\ SetBase(b, Info(b).base)
        /\ UNCHANGED <<tip, parent, base, tracked, recorded, pending, remote, shared, made, events>>
        /\ owes' = owes \ {b}
    BY <1>2 DEF Create, Writing, CanCreate, localVars, records, counters
  <2>2. Info(b).base \in Node
    BY <2>1, AtWrite
  <2> QED
    BY <1>1, <2>1, <2>2, SetBaseStep
<1>3. CASE CreateFails(b)
  <2>1. /\ b \in Infos /\ submit.pc = "write" /\ Stage(b, "failed")
        /\ UNCHANGED <<tip, parent, base, tracked, recorded, pending, remote, shared, pr, apart, owes, made>>
        /\ Happens \/ events' = events
    BY <1>3 DEF CreateFails, Writing, localVars, records, remoteVars, history
  <2> QED
    BY <1>1, <2>1, HappensIs, FailStep
<1> QED
  BY <1>2, <1>3

LEMMA ToTrunkStep ==
    ASSUME Holds, NEW b \in Branch, ToTrunk(b)
    PROVE  Rest'
<1>1. owes \subseteq Branch /\ events \in 0 .. MaxEvents /\ remote[Trunk] # None /\ Trunk \in Node
  BY WriteTypes DEF Node
<1>2. /\ b \in Infos /\ submit.pc = "write" /\ submit.stage[b] = "call" /\ Stage(b, "back")
      /\ SetBase(b, Trunk)
      /\ UNCHANGED <<tip, parent, base, tracked, recorded, pending, remote, shared, made, events, owes>>
  BY DEF ToTrunk, Writing, localVars, records, counters
<1> QED
  BY <1>1, <1>2, SetBaseStep

LEMMA ToTrunkFailsStep ==
    ASSUME Holds, NEW b \in Branch, ToTrunkFails(b)
    PROVE  Rest'
<1>1. /\ TypeOK /\ MarksHold /\ GitHubHolds
      /\ pr \in [Branch -> Pr] /\ recorded \in [Branch -> Rec] /\ apart \subseteq Branch
      /\ owes \subseteq Branch /\ events \in 0 .. MaxEvents
  BY WriteTypes
<1>2. /\ b \in Infos /\ submit.pc = "write" /\ submit.stage[b] = "call" /\ ~Info(b).create
      /\ Stage(b, "stale") /\ apart' = apart \cup {b} /\ recorded[b].base = Info(b).base
      /\ UNCHANGED <<tip, parent, base, tracked, recorded, pending, remote, shared, pr, owes, made>>
      /\ Happens \/ events' = events
  BY DEF ToTrunkFails, Writing, BaseSHAIsStale, BaseChanged, localVars, records, remoteVars
<1>3. /\ remote[b] # None /\ pr[b].state # "none"
      /\ submit.calm => WriteHolds(b)
  BY <1>2, AtWrite
<1>4. GitHubHolds'
  BY <1>1, <1>2 DEF GitHubHolds, Open, Compared
<1>5. RecordHolds(b)'
  BY <1>2 DEF RecordHolds
<1>6. submit'.stage[b] = "stale" /\ Info(b)' = Info(b) /\ submit'.listed = submit.listed
  BY <1>1, <1>2, StageIs
<1>7. submit.calm => WriteHolds(b)'
  BY <1>2, <1>3, <1>6 DEF WriteHolds, Open, After, Current
<1>8. events' \in 0 .. MaxEvents
  BY <1>1, <1>2, HappensIs
<1> QED
  BY <1>1, <1>2, <1>3, <1>4, <1>5, <1>7, <1>8, WriteStep DEF Stages

\* An update that leaves the base alone: the parent is what it was, or was made
\* on it, so that what is recorded now is what is compared.
LEMMA UpdateStep ==
    ASSUME Holds, NEW b \in Branch, Update(b)
    PROVE  Rest'
<1> DEFINE s == IF submit.stage[b] = "stale" THEN "writtenStale" ELSE "written"
<1>1. /\ TypeOK /\ MarksHold /\ GitHubHolds
      /\ pr \in [Branch -> Pr] /\ recorded \in [Branch -> Rec] /\ apart \subseteq Branch
      /\ owes \subseteq Branch /\ events \in 0 .. MaxEvents
  BY WriteTypes
<1>2. /\ b \in Infos /\ submit.pc = "write" /\ submit.stage[b] \in {"call", "back", "stale"}
      /\ submit.stage[b] = "call" => ~Info(b).create /\ ~BaseSHAIsStale(b)
      /\ Stage(b, s) /\ owes' = owes \ {b}
      /\ SetsBase(b) => remote[Info(b).base] # None /\ SetBase(b, Info(b).base)
      /\ ~SetsBase(b) => pr' = pr /\ apart' = apart
      /\ UNCHANGED <<tip, parent, base, tracked, recorded, pending, remote, shared, made, events>>
  BY DEF Update, Updating, CanUpdate, Writing, localVars, records, counters
<1>3. s \in {"written", "writtenStale"} /\ (s = "writtenStale" <=> submit.stage[b] = "stale")
  OBVIOUS
<1> HIDE DEF s
<1>4. /\ remote[b] # None
      /\ pr[b].state # "none" \/ SetsBase(b)
      /\ Info(b).base \in Node /\ Info(b).sha \in Revision
      /\ submit.stage[b] = "stale" => b \in apart
      /\ submit.calm => WriteHolds(b)
      /\ RecordHolds(b) /\ b \in pending
  BY <1>2, AtWrite
<1>5. CASE SetsBase(b)
  <2>1. submit.stage[b] # "failed" /\ s \in {"back", "written", "writtenStale", "failed"} /\ s # "back"
    BY <1>2, <1>3
  <2> QED
    BY <1>1, <1>2, <1>4, <1>5, <2>1, SetBaseStep
<1>6. CASE ~SetsBase(b)
  <2>1. /\ submit.stage[b] \in {"call", "stale"} /\ recorded[b].base = Info(b).base
        /\ pr' = pr /\ apart' = apart
    BY <1>2, <1>6 DEF SetsBase, BaseChanged
  <2>2. GitHubHolds'
    BY <1>1, <1>2, <2>1 DEF GitHubHolds, Open, Compared
  <2>3. submit'.stage[b] = s /\ Info(b)' = Info(b) /\ Infos' = Infos /\ submit'.listed = submit.listed
    BY <1>1, <1>2, <1>3, StageIs
  <2>4. submit.calm => WriteHolds(b)'
    BY <1>2, <1>3, <1>4, <2>1, <2>3 DEF WriteHolds, Open, After, Current
  <2>5. RecordHolds(b)'
    <3> SUFFICES ASSUME Open(b), b \notin apart PROVE RecordHolds(b)'
      BY <2>1 DEF RecordHolds, Open
    <3>1. submit.stage[b] = "call" /\ s = "written" /\ ~BaseSHAIsStale(b)
      BY <1>2, <1>3, <1>4, <2>1
    <3>2. Known(b)
      BY <1>4 DEF RecordHolds
    <3>3. pr[b].base = Info(b).base
      BY <2>1, <3>2 DEF Known
    <3>4. ASSUME pr[b].base # Trunk PROVE IsAncestor(pr[b].from, Info(b).sha)
      <4>1. recorded[b].sha \in Revision /\ IsAncestor(pr[b].from, recorded[b].sha)
        BY <3>2, <3>4 DEF Known
      <4>2. recorded[b].sha # None /\ pr[b].from \in Revision
        BY <1>1, <4>1, ConstantsAssumption DEF GitHubHolds, Compared
      <4>3. IsAncestor(recorded[b].sha, Info(b).sha)
        BY <2>1, <3>1, <3>3, <3>4, <4>2 DEF BaseSHAIsStale, BaseChanged
      <4> QED
        BY <1>4, <4>1, <4>2, <4>3, AncestorOfAncestor DEF Revision
    <3>5. Known(b)'
      BY <1>2, <2>1, <3>2 DEF Known
    <3>6. ~Settling(b)' /\ b \in pending'
      BY <1>2, <1>4, <2>3, <3>1 DEF Settling
    <3> QED
      BY <2>1, <2>3, <3>3, <3>4, <3>5, <3>6 DEF RecordHolds
  <2>6. s \in Stages /\ owes' \subseteq Branch /\ pr[b].state # "none"
    BY <1>1, <1>2, <1>3, <1>4, <1>6 DEF Stages
  <2> QED
    BY <1>1, <1>2, <1>3, <1>4, <2>1, <2>2, <2>4, <2>5, <2>6, WriteStep
<1> QED
  BY <1>5, <1>6

LEMMA UpdateFailsStep ==
    ASSUME Holds, NEW b \in Branch, NEW restored \in BOOLEAN, UpdateFails(b, restored)
    PROVE  Rest'
<1>1. owes \subseteq Branch /\ events \in 0 .. MaxEvents
  BY WriteTypes
<1>2. /\ b \in Infos /\ submit.pc = "write" /\ Stage(b, "failed") /\ submit.stage[b] # "failed"
      /\ restored => /\ submit.stage[b] = "back" /\ CanUpdate(b) /\ SetBase(b, Info(b).base)
      /\ ~restored => pr' = pr /\ apart' = apart
      /\ Happens \/ events' = events
      /\ UNCHANGED <<tip, parent, base, tracked, recorded, pending, remote, shared, owes, made>>
  BY DEF UpdateFails, Updating, Writing, localVars, records
<1>3. Info(b).base \in Node /\ events' \in 0 .. MaxEvents
  BY <1>1, <1>2, AtWrite, HappensIs
<1>4. restored => remote[Info(b).base] # None
  BY <1>2 DEF CanUpdate, SetsBase
<1>5. CASE restored
  BY <1>1, <1>2, <1>3, <1>4, <1>5, SetBaseStep
<1>6. CASE ~restored
  BY <1>2, <1>3, <1>6, FailStep
<1> QED
  BY <1>5, <1>6

\* What is recorded is what GitHub compares with, or the branch is apart.
LEMMA RecordStep ==
    ASSUME Holds, NEW b \in Branch, Record(b)
    PROVE  Rest'
<1> DEFINE sha == IF Writing(b, "writtenStale") THEN recorded[b].sha ELSE Info(b).sha
           same == Writing(b, "written") /\ pr[b].base = Info(b).base /\ pr[b].from = sha
           new == [state |-> "open", base |-> Info(b).base, sha |-> sha]
<1>1. /\ TypeOK /\ MarksHold /\ GitHubHolds
      /\ pr \in [Branch -> Pr] /\ recorded \in [Branch -> Rec] /\ apart \subseteq Branch
      /\ owes \subseteq Branch /\ events \in 0 .. MaxEvents
  BY WriteTypes
<1>2. /\ b \in Infos /\ submit.pc = "write" /\ submit.stage[b] \in {"written", "writtenStale"}
      /\ recorded' = [recorded EXCEPT ![b] = new]
      /\ apart' = IF ~IsAncestor(sha, remote[b]) THEN apart \cup {b}
                  ELSE IF same THEN apart \ {b} ELSE apart
      /\ Stage(b, "recorded")
      /\ UNCHANGED <<tip, parent, base, tracked, pending, remote, shared, pr, owes, made, events>>
  BY DEF Record, Writing, localVars, remoteVars, counters
<1>3. /\ remote[b] # None /\ remote[b] \in Revision /\ pr[b].state # "none"
      /\ Info(b).base \in Node /\ Info(b).sha \in Revision
      /\ submit.stage[b] = "writtenStale" => b \in apart
      /\ submit.calm => WriteHolds(b)
      /\ RecordHolds(b)
  BY <1>2, AtWrite
<1>4. new \in Rec /\ new.base = Info(b).base /\ new.sha = sha
  <2>1. sha \in Revision \cup {None}
    BY <1>1, <1>3 DEF Rec
  <2> HIDE DEF sha
  <2> QED
    BY <1>3, <2>1 DEF Rec
<1>5. submit.stage[b] = "written" => sha = Info(b).sha /\ Writing(b, "written")
  BY <1>2 DEF Writing
<1>6. same => submit.stage[b] = "written" /\ pr[b].base = Info(b).base /\ pr[b].from = sha
  BY DEF Writing
<1> HIDE DEF sha, same, new
<1>7. /\ recorded' \in [Branch -> Rec] /\ recorded'[b].base = Info(b).base /\ recorded'[b].sha = sha
      /\ \A c \in Branch : c # b => recorded'[c] = recorded[c] /\ (c \in apart' <=> c \in apart)
      /\ apart' \subseteq Branch
  BY <1>1, <1>2, <1>4
<1>8. GitHubHolds'
  BY <1>1, <1>2, <1>3, <1>7 DEF GitHubHolds, Open, Compared
<1>9. submit'.stage[b] = "recorded" /\ Info(b)' = Info(b) /\ submit'.listed = submit.listed
  BY <1>1, <1>2, StageIs
<1>10. submit.calm => WriteHolds(b)'
  BY <1>2, <1>3, <1>9 DEF WriteHolds, Open, After, Current
<1>11. RecordHolds(b)'
  <2> SUFFICES ASSUME Open(b), b \notin apart' PROVE RecordHolds(b)'
    BY <1>2 DEF RecordHolds, Open
  <2>1. IsAncestor(sha, remote[b]) /\ (same \/ b \notin apart) /\ submit.stage[b] = "written"
    BY <1>2, <1>3, <1>6
  <2>2. sha = Info(b).sha /\ sha \in Revision
    BY <1>3, <1>5, <2>1
  <2>3. pr[b].from \in Revision
    BY <1>1 DEF GitHubHolds, Compared
  <2>4. pr[b].base = Info(b).base /\ (pr[b].base # Trunk => IsAncestor(pr[b].from, sha))
    <3>1. CASE same
      BY <1>6, <2>2, <3>1, AncestorSelf DEF Revision
    <3>2. CASE b \notin apart
      BY <1>3, <1>5, <2>1, <2>2, <3>2 DEF RecordHolds
    <3> QED
      BY <2>1, <3>1, <3>2
  <2>5. pr[b].base # Trunk => IsAncestor(pr[b].from, remote[b])
    BY <1>3, <2>1, <2>2, <2>3, <2>4, AncestorOfAncestor DEF Revision
  <2>6. Known(b)'
    BY <1>2, <1>7, <2>2, <2>4 DEF Known
  <2>7. pr[b].base # Trunk => Stands(b)'
    BY <1>2, <1>3, <2>5 DEF Stands
  <2>8. ~Writing(b, "written")'
    BY <1>9 DEF Writing
  <2> QED
    BY <1>2, <2>6, <2>7, <2>8 DEF RecordHolds
<1>12. "recorded" \in Stages
  BY DEF Stages
<1> QED
  BY <1>1, <1>2, <1>3, <1>7, <1>8, <1>10, <1>11, <1>12, WriteStep

\* The marks go of the branches whose pull requests have been recorded.
LEMMA ClearStep ==
    ASSUME Holds, ClearPending
    PROVE  Rest'
<1>1. /\ TypeOK /\ WorkOK /\ CalmHolds /\ DOMAIN submit = DOMAIN NoSubmit
  BY DEF Holds, MarksHold
<1>2. /\ submit.pc = "write" /\ Finished \cup Failed = Infos /\ pending' = pending \ Finished
      /\ Failed # {} => submit' = NoSubmit
      /\ Failed = {} => submit' = [submit EXCEPT !.pc = "share"]
      /\ UNCHANGED <<tip, parent, base, tracked, recorded, remote, shared, pr, owes, apart, made, events>>
  BY DEF ClearPending, Written, localVars, remoteVars, history, counters
<1>3. /\ Infos \subseteq submit.kept /\ submit.kept \subseteq submit.scope /\ submit.scope \subseteq Branch
      /\ StatusOK
  BY <1>1, <1>2 DEF WorkOK, Underway, Planned
<1>4. \A b \in Branch : b \notin pending' => b \notin pending \/ Settling(b)
  BY <1>2 DEF Finished, Settling
<1>5. CASE Failed # {}
  <2>1. submit'.pc = "idle" /\ submit'.scope = {} /\ submit'.stage = <<>>
    BY <1>2, <1>5 DEF NoSubmit
  <2>2. TypeOK'
    BY <1>1, <1>2, <2>1 DEF TypeOK
  <2>3. WorkOK' /\ CalmHolds'
    BY <2>1 DEF WorkOK, CalmHolds, Underway, Planned
  <2> QED
    BY <1>2, <1>4, <2>1, <2>2, <2>3, NoteStep
<1>6. CASE Failed = {}
  <2>1. /\ submit'.pc = "share" /\ submit'.scope = submit.scope /\ submit'.status = submit.status
        /\ submit'.kept = submit.kept /\ submit'.infos = submit.infos /\ submit'.calm = submit.calm
        /\ submit'.stage = submit.stage /\ submit'.listed = submit.listed
    BY <1>1, <1>2, <1>6 DEF NoSubmit
  <2>2. Infos' = Infos /\ Left' = Left /\ \A c : Info(c)' = Info(c)
    BY <2>1 DEF Infos, Info, Left
  <2>3. TypeOK'
    BY <1>1, <1>2, <2>1 DEF TypeOK
  <2>4. StatusOK'
    BY <1>2, <1>3, <2>1 DEF StatusOK
  <2>5. WorkOK'
    BY <1>1, <1>2, <1>3, <2>1, <2>2, <2>4 DEF WorkOK, Underway, Planned
  <2>6. ASSUME submit.calm PROVE CalmHolds'
    <3>1. /\ \A b \in submit.scope : parent[b] = Trunk \/ parent[b] \in submit.scope
          /\ Kept
          /\ \A b \in Infos : Info(b).base = parent[b] /\ Info(b).sha = tip[parent[b]]
          /\ \A b \in Left : Same(b) /\ b \notin pending /\ Current(b)
          /\ \A b \in Infos : WriteHolds(b)
      BY <1>1, <1>2, <2>6 DEF CalmHolds, Underway, Planned
    <3>2. Kept'
      BY <1>2, <2>1, <3>1 DEF Kept
    <3>3. ASSUME NEW b \in Left PROVE Same(b)' /\ b \notin pending' /\ Current(b)'
      BY <1>2, <2>1, <3>1 DEF Same, Open, Current
    <3>4. ASSUME NEW b \in Infos PROVE Same(b)' /\ b \notin pending' /\ Current(b)'
      <4>1. b \in Finished /\ submit.stage[b] = "recorded"
        BY <1>2, <1>6 DEF Finished
      <4>2. Open(b) /\ pr[b].base = Info(b).base /\ Current(b)
        BY <3>1, <4>1 DEF WriteHolds, After
      <4> QED
        BY <1>2, <2>1, <3>1, <4>1, <4>2 DEF Same, Open, Current
    <3>5. \A b \in submit.kept : b \in Left \/ b \in Infos
      BY DEF Left
    <3> QED
      BY <1>2, <2>1, <2>2, <3>1, <3>2, <3>3, <3>4, <3>5 DEF CalmHolds, Underway, Planned
  <2>7. CalmHolds'
    BY <2>1, <2>6 DEF CalmHolds
  <2> QED
    BY <1>2, <1>4, <2>1, <2>3, <2>5, <2>7, NoteStep
<1> QED
  BY <1>5, <1>6

LEMMA ShareStep ==
    ASSUME Holds, Share
    PROVE  Rest'
<1>1. /\ TypeOK /\ WorkOK /\ CalmHolds /\ DOMAIN submit = DOMAIN NoSubmit
  BY DEF Holds, MarksHold
<1>2. /\ submit.pc = "share" /\ submit' = [submit EXCEPT !.pc = "done"]
      /\ shared' = [b \in Branch |-> IF b \in submit.kept THEN Local(b) ELSE shared[b]]
      /\ UNCHANGED <<tip, parent, base, tracked, recorded, pending, remote, pr, owes, apart, made, events>>
  BY DEF Share, localVars, records, history, counters
<1>3. /\ submit'.pc = "done" /\ submit'.scope = submit.scope /\ submit'.status = submit.status
      /\ submit'.kept = submit.kept /\ submit'.infos = submit.infos /\ submit'.calm = submit.calm
      /\ submit'.stage = submit.stage /\ submit'.listed = submit.listed
  BY <1>1, <1>2 DEF NoSubmit
<1>4. Infos' = Infos /\ Left' = Left /\ \A c : Info(c)' = Info(c)
  BY <1>3 DEF Infos, Info, Left
<1>5. shared' \in [Branch -> [parent : Node, base : Revision] \cup {None}]
  <2>1. \A b \in Branch : Local(b) \in [parent : Node, base : Revision]
    BY <1>1, Types DEF Local
  <2> HIDE DEF Local
  <2> QED
    BY <1>1, <1>2, <2>1 DEF TypeOK
<1>6. TypeOK'
  BY <1>1, <1>2, <1>3, <1>5 DEF TypeOK
<1>7. WorkOK'
  <2>1. StatusOK => StatusOK'
    BY <1>2, <1>3 DEF StatusOK
  <2> QED
    BY <1>1, <1>2, <1>3, <1>4, <2>1 DEF WorkOK, Underway, Planned
<1>8. CalmHolds'
  <2>1. Kept => Kept'
    BY <1>2, <1>3 DEF Kept
  <2>2. \A b : (Same(b) => Same(b)') /\ (Current(b) => Current(b)')
    BY <1>2, <1>3 DEF Same, Open, Current
  <2> QED
    BY <1>1, <1>2, <1>3, <1>4, <2>1, <2>2 DEF CalmHolds, Underway, Planned
<1> QED
  BY <1>2, <1>3, <1>6, <1>7, <1>8, NoteStep

\* A submit that is over, with success or not.
LEMMA OverStep ==
    ASSUME Holds, ShareFails \/ Done \/ Crash
    PROVE  Rest'
<1>1. TypeOK /\ events \in 0 .. MaxEvents
  BY Types DEF Holds
<1>2. /\ submit' = NoSubmit
      /\ Happens \/ events' = events
      /\ UNCHANGED <<tip, parent, base, tracked, recorded, pending, remote, shared, pr, owes, apart, made>>
  BY DEF ShareFails, Done, Crash, localVars, records, remoteVars, history, counters
<1>3. submit'.pc = "idle" /\ submit'.stage = <<>>
  BY <1>2 DEF NoSubmit
<1>4. events' \in 0 .. MaxEvents
  BY <1>1, <1>2, HappensIs
<1>5. TypeOK'
  BY <1>1, <1>2, <1>3, <1>4 DEF TypeOK
<1> QED
  BY <1>2, <1>5, EndStep

-----------------------------------------------------------------------------
(* The remote-tracking refs.                                               *)

\* Above all of it a revision has nothing.
LEMMA AboveSelf == ASSUME NEW S, NEW r \in Seq(S) PROVE Above(r, Len(r)) = {}
<1>1. Len(r) \in Nat
  BY LenProperties
<1>2. Len(r) + 1 .. Len(r) = {}
  BY <1>1
<1> QED
  BY <1>2 DEF Above

\* What others add is their branch's.
LEMMA OthersTrack ==
    ASSUME Holds, NEW c \in Branch, OthersPush(c)
    PROVE  TrackHolds'
<1> DEFINE p == [home |-> c, n |-> made + 1]
<1>1. /\ TypeOK /\ TrackHolds /\ Making /\ made \in 0 .. MaxPatches /\ tracked' = tracked
      /\ remote \in [Node -> Revision \cup {None}] /\ tracked \in [Branch -> Revision \cup {None}]
      /\ Branch \subseteq Node /\ remote[c] # None
  BY Types DEF Holds, OthersPush
<1>2. p \in Patch /\ p.home = c
  BY <1>1, MadePatch
<1>3. remote' = [x \in Node |-> IF x = c THEN Append(remote[c], p) ELSE remote[x]]
  BY DEF OthersPush, Receive
<1> HIDE DEF p
<1>4. \A b \in Branch : b # c => remote'[b] = remote[b]
  BY <1>1, <1>3
<1>5. remote'[c] = Append(remote[c], p) /\ remote[c] \in Revision
  BY <1>1, <1>3
<1>6. ASSUME tracked[c] # None PROVE Follows(c)'
  <2>1. /\ tracked[c] \in Revision /\ IsAncestor(tracked[c], remote[c])
        /\ \A q \in Above(remote[c], Len(tracked[c])) : q.home = c
    BY <1>1, <1>6 DEF TrackHolds, Follows
  <2>2. Len(tracked[c]) \in Nat
    BY <2>1, LenProperties DEF Revision
  <2>3. IsAncestor(tracked[c], Append(remote[c], p))
    BY <1>2, <1>5, <2>1, AppendExtends DEF Revision
  <2>4. Above(Append(remote[c], p), Len(tracked[c])) \subseteq Above(remote[c], Len(tracked[c])) \cup {p}
    BY <1>2, <1>5, <2>2, AppendAbove DEF Revision
  <2>5. Append(remote[c], p) # None
    <3>1. Append(remote[c], p) \in Revision
      BY <1>2, <1>5, AppendProperties DEF Revision
    <3> QED
      BY <1>1, <3>1, Types
  <2> QED
    BY <1>1, <1>2, <1>5, <2>1, <2>3, <2>4, <2>5 DEF Follows
<1>7. ASSUME NEW b \in Branch, b # c PROVE Follows(b)'
  BY <1>1, <1>4, <1>7 DEF TrackHolds, Follows
<1> QED
  BY <1>1, <1>6, <1>7 DEF TrackHolds, Follows

\* What is fetched or pushed is all that the remote has.
LEMMA SeenAgain ==
    ASSUME TypeOK, NEW b \in Branch, tracked'[b] = remote'[b], remote'[b] \in Revision \cup {None}
    PROVE  Follows(b)'
<1> SUFFICES ASSUME remote'[b] # None PROVE Follows(b)'
  BY DEF Follows
<1>1. remote'[b] \in Seq(Patch)
  BY DEF Revision
<1> QED
  BY <1>1, AboveSelf, AncestorSelf DEF Follows

\* Every step leaves the remote-tracking refs a part of what the remote has.
LEMMA TrackStep == Holds /\ [Next]_vars => TrackHolds'
<1> SUFFICES ASSUME Holds, [Next]_vars PROVE TrackHolds'
  OBVIOUS
<1>1. /\ TypeOK /\ TrackHolds
      /\ tip \in [Node -> Revision] /\ remote \in [Node -> Revision \cup {None}]
      /\ Branch \subseteq Node /\ Trunk \notin Branch
  BY Types DEF Holds
<1>2. ASSUME tracked' = tracked, \A b \in Branch : remote'[b] = remote[b] PROVE TrackHolds'
  BY <1>1, <1>2 DEF TrackHolds, Follows
<1>3. ASSUME NEW b \in Branch, Commit(b) \/ Amend(b) \/ \E x \in Node : Move(b, x) PROVE TrackHolds'
  BY <1>2, <1>3 DEF Commit, Amend, Move, remoteVars
<1>4. CASE Restack
  BY <1>2, <1>4 DEF Restack, remoteVars
<1>5. CASE Others
  <2>1. CASE PullTrunk
    <3>1. /\ tracked' = tracked
          /\ remote' = [x \in Node |-> IF x = Trunk THEN tip'[Trunk] ELSE remote[x]]
      BY <2>1 DEF PullTrunk, Receive
    <3>2. \A b \in Branch : remote'[b] = remote[b]
      BY <1>1, <3>1
    <3> QED
      BY <1>2, <3>1, <3>2
  <2>2. CASE Fetch
    <3>1. remote' = remote /\ \A b \in Branch : tracked'[b] = remote'[b]
      BY <2>2 DEF Fetch, remoteVars
    <3> QED
      BY <1>1, <3>1, SeenAgain DEF TrackHolds
  <2>3. ASSUME NEW b \in Branch, Close(b) \/ \E x \in Node : Retarget(b, x) PROVE TrackHolds'
    BY <1>2, <2>3 DEF Close, Retarget
  <2> QED
    BY <1>5, <2>1, <2>2, <2>3, OthersTrack DEF Others
<1>6. ASSUME NEW S, Begin(S) PROVE TrackHolds'
  BY <1>2, <1>6 DEF Begin, remoteVars
<1>7. CASE Looking
  BY <1>2, <1>7 DEF Looking, ListRemote, Validate, Plan, MarkPending, remoteVars
<1>8. ASSUME NEW works \in BOOLEAN, Push(works) PROVE TrackHolds'
  <2> DEFINE P == IF works THEN {b \in {c \in Infos : ~Matches(c)} : remote[b] = submit.status[b].remote}
                  ELSE {}
  <2>1. /\ remote' = [x \in Node |-> IF x \in P THEN tip[x] ELSE remote[x]]
        /\ tracked' = [b \in Branch |-> IF b \in P THEN tip[b] ELSE tracked[b]]
    BY <1>8 DEF Push, Receive
  <2> HIDE DEF P
  <2>2. ASSUME NEW b \in Branch, b \in P PROVE Follows(b)'
    <3>1. tracked'[b] = tip[b] /\ remote'[b] = tip[b] /\ tip[b] \in Revision
      BY <1>1, <2>1, <2>2
    <3> QED
      BY <1>1, <3>1, SeenAgain
  <2>3. ASSUME NEW b \in Branch, b \notin P PROVE Follows(b)'
    <3>1. tracked'[b] = tracked[b] /\ remote'[b] = remote[b]
      BY <1>1, <2>1, <2>3
    <3> QED
      BY <1>1, <3>1 DEF TrackHolds, Follows
  <2> QED
    BY <2>2, <2>3 DEF TrackHolds
<1>9. ASSUME NEW b \in Branch, Writes(b) PROVE TrackHolds'
  BY <1>2, <1>9 DEF Writes, Create, CreateFails, ToTrunk, ToTrunkFails, Update, UpdateFails, Record, remoteVars
<1>10. CASE ClearPending \/ Share \/ ShareFails \/ Done \/ Crash
  BY <1>2, <1>10 DEF ClearPending, Share, ShareFails, Done, Crash, remoteVars
<1>11. CASE UNCHANGED vars
  BY <1>2, <1>11 DEF vars, remoteVars
<1> QED
  BY <1>3, <1>4, <1>5, <1>6, <1>7, <1>8, <1>9, <1>10, <1>11 DEF Next, Submitting

\* A branch that is current is all there on the remote, and what the remote has
\* besides is the branch's own.
LEMMA CurrentIs ==
    ASSUME Holds, NEW b \in Branch, Current(b)
    PROVE  /\ remote[b] \in Revision /\ IsAncestor(tip[b], remote[b])
           /\ \A p \in Above(remote[b], Len(tip[b])) : p.home = b
<1>1. /\ TypeOK /\ TrackHolds /\ tip[b] \in Revision /\ remote[b] \in Revision \cup {None}
      /\ None \notin Revision
  BY Types DEF Holds
<1>2. CASE remote[b] = tip[b]
  BY <1>1, <1>2, AboveSelf, AncestorSelf DEF Revision
<1>3. CASE tracked[b] = tip[b]
  BY <1>1, <1>3 DEF TrackHolds, Follows
<1> QED
  BY <1>2, <1>3 DEF Current

-----------------------------------------------------------------------------
(* The invariant holds.                                                    *)

LEMMA StartIs ==
    ASSUME Init
    PROVE  /\ parent = Parent /\ tip \in [Node -> Revision]
           /\ tip[Trunk] = <<[home |-> Trunk, n |-> 0]>>
           /\ \A b \in Branch : tip[b] = Append(tip[Parent[b]], [home |-> b, n |-> 0])
           /\ \E new \in News :
                 /\ base = [b \in Branch |-> tip[Parent[b]]]
                 /\ recorded = [b \in Branch |-> IF b \in new THEN NoRecord
                                  ELSE [state |-> "open", base |-> Parent[b], sha |-> tip[Parent[b]]]]
                 /\ remote = [x \in Node |-> IF x \in new THEN None ELSE tip[x]]
                 /\ tracked = [b \in Branch |-> remote[b]]
                 /\ shared = [b \in Branch |-> IF b \in new THEN None
                                  ELSE [parent |-> Parent[b], base |-> tip[Parent[b]]]]
                 /\ pr = [b \in Branch |-> IF b \in new THEN NoPr
                                  ELSE [state |-> "open", base |-> Parent[b], from |-> tip[Parent[b]]]]
           /\ pending = {} /\ submit = NoSubmit /\ owes = {} /\ apart = {} /\ made = 0 /\ events = 0
<1> DEFINE root == <<[home |-> Trunk, n |-> 0]>>
           F == [b \in Branch |-> [r \in Revision |-> Append(r, [home |-> b, n |-> 0])]]
           IsAt(u) == u = [x \in Node |-> IF x = Trunk THEN root
                                          ELSE Append(u[Parent[x]], [home |-> x, n |-> 0])]
           at == CHOOSE u : IsAt(u)
<1>1. /\ Trunk \notin Branch /\ Parent \in [Branch -> Node] /\ Rooted(Parent) /\ 0 \in 0 .. MaxPatches
  BY ConstantsAssumption
<1>2. Tree(Parent, Branch, Trunk)
  BY <1>1 DEF Tree, Rooted, Node
<1>3. \A x \in Node : [home |-> x, n |-> 0] \in Patch
  BY <1>1 DEF Patch
<1>4. root \in Revision
  BY <1>3 DEF Node, Revision
<1>5. \A b \in Branch, r \in Revision : Append(r, [home |-> b, n |-> 0]) \in Revision
  BY <1>3, AppendProperties DEF Node, Revision
<1>6. F \in Steps(Branch, Revision)
  BY <1>5 DEF Steps
<1>7. \A b \in Branch, r \in Revision : F[b][r] = Append(r, [home |-> b, n |-> 0])
  OBVIOUS
<1> HIDE DEF F
<1>8. PICK f : Recursion(f, Parent, Branch, Trunk, Revision, root, F)
  BY <1>2, <1>4, <1>6, RootRecursion
<1>9. /\ f \in [Node -> Revision] /\ f[Trunk] = root
      /\ \A b \in Branch : f[b] = F[b][f[Parent[b]]]
  BY <1>8 DEF Recursion, Node
<1>10. \A b \in Branch : f[b] = Append(f[Parent[b]], [home |-> b, n |-> 0])
  BY <1>1, <1>7, <1>9
<1> HIDE DEF root
<1>11. IsAt(f)
  BY <1>1, <1>9, <1>10 DEF Node
<1>12. IsAt(at)
  <2> HIDE DEF IsAt
  <2> QED
    BY <1>11
<1>13. PICK new \in News :
          /\ tip = [x \in Node |-> at[x]]
          /\ parent = Parent
          /\ base = [b \in Branch |-> at[Parent[b]]]
          /\ recorded = [b \in Branch |-> IF b \in new THEN NoRecord
                           ELSE [state |-> "open", base |-> Parent[b], sha |-> at[Parent[b]]]]
          /\ pending = {}
          /\ remote = [x \in Node |-> IF x \in new THEN None ELSE at[x]]
          /\ tracked = [b \in Branch |-> remote[b]]
          /\ shared = [b \in Branch |-> IF b \in new THEN None
                           ELSE [parent |-> Parent[b], base |-> at[Parent[b]]]]
          /\ pr = [b \in Branch |-> IF b \in new THEN NoPr
                           ELSE [state |-> "open", base |-> Parent[b], from |-> at[Parent[b]]]]
          /\ submit = NoSubmit /\ owes = {} /\ apart = {}
          /\ made = 0 /\ events = 0
  BY DEF Init, root
<1> HIDE DEF at
<1>14. tip = at
  BY <1>12, <1>13
<1>15. /\ at[Trunk] = root
       /\ \A b \in Branch : at[b] = Append(at[Parent[b]], [home |-> b, n |-> 0])
  BY <1>1, <1>12 DEF Node
<1>16. at \in [Node -> Revision]
  <2> DEFINE T == {b \in Branch : at[b] \in Revision}
  <2>1. ASSUME NEW b \in Branch, Parent[b] \in T \cup {Trunk} PROVE b \in T
    <3>1. at[Parent[b]] \in Revision
      BY <1>4, <1>15, <2>1
    <3> QED
      BY <1>5, <1>15, <3>1
  <2>2. T \in SUBSET Branch
    OBVIOUS
  <2>3. T = Branch
    <3> HIDE DEF T
    <3> QED
      BY <1>1, <2>1, <2>2 DEF Rooted
  <2>4. \A x \in Node : at[x] \in Revision
    BY <1>4, <1>15, <2>3 DEF Node
  <2>5. at = [x \in Node |-> at[x]]
    BY <1>13, <1>14
  <2> QED
    BY <2>4, <2>5
<1> QED
  BY <1>13, <1>14, <1>15, <1>16 DEF root

LEMMA HoldsInit == Init => Holds
<1> SUFFICES ASSUME Init PROVE Holds
  OBVIOUS
<1>1. MarksHold
  BY MarksInit
<1>2. /\ parent = Parent /\ tip \in [Node -> Revision]
      /\ tip[Trunk] = <<[home |-> Trunk, n |-> 0]>>
      /\ \A b \in Branch : tip[b] = Append(tip[Parent[b]], [home |-> b, n |-> 0])
      /\ pending = {} /\ submit = NoSubmit /\ owes = {} /\ apart = {} /\ made = 0 /\ events = 0
  BY StartIs
<1>3. PICK new \in News :
         /\ base = [b \in Branch |-> tip[Parent[b]]]
         /\ recorded = [b \in Branch |-> IF b \in new THEN NoRecord
                          ELSE [state |-> "open", base |-> Parent[b], sha |-> tip[Parent[b]]]]
         /\ remote = [x \in Node |-> IF x \in new THEN None ELSE tip[x]]
         /\ tracked = [b \in Branch |-> remote[b]]
         /\ shared = [b \in Branch |-> IF b \in new THEN None
                          ELSE [parent |-> Parent[b], base |-> tip[Parent[b]]]]
         /\ pr = [b \in Branch |-> IF b \in new THEN NoPr
                          ELSE [state |-> "open", base |-> Parent[b], from |-> tip[Parent[b]]]]
  BY StartIs
<1>4. /\ Trunk \notin Branch /\ Trunk \in Node /\ Branch \subseteq Node
      /\ Parent \in [Branch -> Node] /\ Rooted(Parent) /\ new \subseteq Branch /\ Trunk \notin new
      /\ \A b \in Branch : Parent[b] \in new => b \in new
      /\ MaxPatches \in Nat /\ MaxEvents \in Nat /\ None \notin Revision
  BY ConstantsAssumption DEF Node
<1>5. submit.pc = "idle" /\ submit.scope = {} /\ submit.stage = <<>> /\ DOMAIN submit.stage = {}
  BY <1>2 DEF NoSubmit
<1>6. ASSUME NEW b \in Branch
      PROVE  /\ Parent[b] \in Node /\ tip[Parent[b]] \in Revision
             /\ base[b] = tip[Parent[b]] /\ parent[b] = Parent[b]
             /\ b \in new => /\ recorded[b].state = "none" /\ recorded[b].base = None /\ recorded[b].sha = None
                             /\ pr[b].state = "none" /\ pr[b].base = None /\ pr[b].from = None
             /\ b \notin new => /\ recorded[b].state = "open" /\ recorded[b].base = Parent[b]
                                /\ recorded[b].sha = tip[Parent[b]]
                                /\ pr[b].state = "open" /\ pr[b].base = Parent[b]
                                /\ pr[b].from = tip[Parent[b]]
                                /\ remote[b] = tip[b] /\ remote[Parent[b]] = tip[Parent[b]]
  BY <1>2, <1>3, <1>4 DEF NoRecord, NoPr
<1>7. TypeOK
  <2>1. \A b \in Branch : Parent[b] \in Node /\ tip[Parent[b]] \in Revision
    BY <1>6
  <2>2. base \in [Branch -> Revision]
    BY <1>3, <2>1
  <2>3. recorded \in [Branch -> Rec]
    BY <1>3, <2>1 DEF Rec, NoRecord
  <2>4. pr \in [Branch -> Pr]
    BY <1>3, <2>1 DEF Pr, NoPr
  <2>5. remote \in [Node -> Revision \cup {None}] /\ tracked \in [Branch -> Revision \cup {None}]
    BY <1>2, <1>3, <1>4
  <2>6. shared \in [Branch -> [parent : Node, base : Revision] \cup {None}]
    BY <1>3, <2>1
  <2>7. 0 \in 0 .. MaxPatches /\ 0 \in 0 .. MaxEvents
    BY <1>4
  <2> QED
    BY <1>2, <1>4, <1>5, <2>2, <2>3, <2>4, <2>5, <2>6, <2>7 DEF TypeOK, Rec, Pr
<1>8. \A x \in Node : [home |-> x, n |-> 0] \in Patch
  BY <1>4 DEF Patch
<1>9. ASSUME NEW b \in Branch PROVE OwnAbove(b)
  <2> DEFINE p == [home |-> b, n |-> 0]
  <2>1. p \in Patch /\ p.home = b
    BY <1>4, <1>8
  <2>2. tip[b] = Append(base[b], p) /\ base[b] \in Revision
    BY <1>2, <1>6
  <2> HIDE DEF p
  <2>3. IsAncestor(base[b], tip[b])
    BY <2>1, <2>2, AncestorSelf, AppendExtends DEF Revision
  <2>4. Len(base[b]) \in Nat /\ Len(tip[b]) = Len(base[b]) + 1
    BY <2>1, <2>2, LenProperties, AppendProperties DEF Revision
  <2>5. Above(tip[b], Len(base[b])) \subseteq Above(base[b], Len(base[b])) \cup {p}
    BY <2>1, <2>2, <2>4, AppendAbove DEF Revision
  <2>6. Above(base[b], Len(base[b])) = {}
    BY <2>4 DEF Above
  <2> QED
    BY <2>1, <2>3, <2>4, <2>5, <2>6 DEF OwnAbove
<1>10. ASSUME NEW b \in Branch, parent[b] = Trunk PROVE IsAncestor(base[b], tip[Trunk])
  BY <1>6, <1>10, AncestorSelf DEF Revision
<1>11. \A x \in Node : Homes(x)
  <2> DEFINE T == {b \in Branch : Homes(b)}
  <2>1. Homes(Trunk)
    <3>1. ASSUME NEW q \in ToSet(tip[Trunk]) PROVE q.home = Trunk
      BY <1>2 DEF ToSet
    <3> QED
      BY <3>1 DEF Homes
  <2>2. ASSUME NEW b \in Branch, Parent[b] \in T \cup {Trunk} PROVE b \in T
    <3> DEFINE p == [home |-> b, n |-> 0]
    <3>1. p \in Patch /\ p.home = b
      BY <1>4, <1>8
    <3>2. tip[b] = Append(tip[Parent[b]], p) /\ tip[Parent[b]] \in Revision /\ Homes(Parent[b])
      BY <1>2, <1>6, <2>1, <2>2
    <3> HIDE DEF p
    <3>3. ToSet(tip[b]) = ToSet(tip[Parent[b]]) \cup {p}
      BY <3>1, <3>2, AppendSet DEF Revision
    <3>4. /\ Downstack(b) = Below(parent)[b] /\ Downstack(Parent[b]) = Below(parent)[Parent[b]]
      BY DownstackIs
    <3>5. Below(parent)[b] = {b} \cup Below(parent)[Parent[b]]
      BY <1>2, <1>4, BelowIs
    <3> QED
      BY <3>1, <3>2, <3>3, <3>4, <3>5 DEF Homes
  <2>3. T \in SUBSET Branch
    OBVIOUS
  <2>4. T = Branch
    <3> HIDE DEF T
    <3> QED
      BY <1>4, <2>2, <2>3 DEF Rooted
  <2> QED
    BY <2>1, <2>4 DEF Node
<1>12. StackHolds
  BY <1>2, <1>4, <1>9, <1>10, <1>11 DEF StackHolds
<1>13. ASSUME NEW b \in Branch, Open(b) PROVE Compared(b)
  <2>1. b \notin new
    BY <1>6, <1>13 DEF Open
  <2> QED
    BY <1>4, <1>6, <2>1 DEF Compared
<1>14. GitHubHolds
  <2>1. remote[Trunk] = tip[Trunk]
    BY <1>3, <1>4
  <2>2. ASSUME NEW b \in Branch
        PROVE  /\ pr[b].state # "none" => pr[b].base \in Node
               /\ pr[b].state = "none" => recorded[b].state = "none"
    BY <1>6
  <2> QED
    BY <1>13, <2>1, <2>2 DEF GitHubHolds
<1>15. WorkOK /\ CalmHolds
  BY <1>5 DEF WorkOK, CalmHolds, Underway, Planned
<1>16. ASSUME NEW b \in Branch PROVE RecordHolds(b)
  <2> SUFFICES ASSUME Open(b) PROVE RecordHolds(b)
    BY DEF RecordHolds
  <2>1. b \notin new
    BY <1>6 DEF Open
  <2>2. IsAncestor(tip[Parent[b]], tip[Parent[b]])
    BY <1>6, AncestorSelf DEF Revision
  <2>3. Known(b)
    BY <1>6, <2>1, <2>2 DEF Known
  <2>4. Stands(b)
    BY <1>2, <1>4, <1>6, <1>9, <2>1 DEF Stands, OwnAbove
  <2>5. ~Writing(b, "written")
    BY <1>5 DEF Writing
  <2> QED
    BY <2>3, <2>4, <2>5 DEF RecordHolds
<1>17. ASSUME NEW b \in Branch, tracked[b] # None PROVE Follows(b)
  <2>1. b \notin new
    BY <1>3, <1>4, <1>17
  <2>2. tracked[b] = remote[b] /\ remote[b] = tip[b] /\ tip[b] \in Revision
    BY <1>2, <1>3, <1>4, <1>6, <2>1
  <2> QED
    BY <1>4, <2>2, AboveSelf, AncestorSelf DEF Follows, Revision
<1> QED
  BY <1>1, <1>7, <1>12, <1>14, <1>15, <1>16, <1>17 DEF Holds, RecordsHold, TrackHolds, Follows

LEMMA HoldsStep == Holds /\ [Next]_vars => Holds'
<1> SUFFICES ASSUME Holds, [Next]_vars PROVE Holds'
  OBVIOUS
<1>1. MarksHold'
  BY MarksStep DEF Holds
<1>2. SUFFICES Rest'
  BY <1>1, TrackStep DEF Rest, Holds
<1>3. CASE Locally
  BY <1>3, LocalStep
<1>4. CASE Others
  <2>1. ASSUME NEW b \in Branch, OthersPush(b) \/ Close(b) \/ \E x \in Node : Retarget(b, x)
        PROVE  Rest'
    BY <2>1, OthersPushStep, CloseStep, RetargetStep
  <2> QED
    BY <1>4, <2>1, PullStep, FetchStep DEF Others
<1>5. ASSUME NEW b \in Branch, Begin(Downstack(b)) \/ Begin(Downstack(b) \cup Upstack(b)) PROVE Rest'
  BY <1>5, BeginStep
<1>6. CASE Looking
  BY <1>6, ListStep, ValidateStep, PlanStep, MarkStep DEF Looking
<1>7. ASSUME NEW works \in BOOLEAN, Push(works) PROVE Rest'
  BY <1>7, PushStep
<1>8. ASSUME NEW b \in Branch, Writes(b) PROVE Rest'
  BY <1>8, CreateStep, ToTrunkStep, ToTrunkFailsStep, UpdateStep, UpdateFailsStep, RecordStep DEF Writes
<1>9. CASE ClearPending \/ Share \/ ShareFails \/ Done \/ Crash
  BY <1>9, ClearStep, ShareStep, OverStep
<1>10. CASE UNCHANGED vars
  <2>1. /\ UNCHANGED <<tip, parent, base, tracked, recorded, pending, remote, shared, pr, submit, owes, apart>>
        /\ UNCHANGED <<made, events>>
    BY <1>10 DEF vars, localVars, records, remoteVars, history, counters
  <2>2. Infos' = Infos /\ Left' = Left /\ \A c : Info(c)' = Info(c)
    BY <2>1 DEF Infos, Info, Left
  <2>3. TypeOK' /\ StackHolds'
    BY <2>1, StackFrame DEF Holds, TypeOK, localVars
  <2>4. GitHubHolds'
    BY <2>1 DEF Holds, GitHubHolds, Open, Compared
  <2>5. WorkOK'
    BY <2>1, WorkFrame DEF Holds, SameWork
  <2>6. RecordsHold'
    BY <2>1, RecordFrame DEF Holds, RecordsHold, Stands, Settling, Writing, Infos, Open
  <2>7. CalmHolds'
    <3>1. (Listed => Listed') /\ (Looked => Looked') /\ (Kept => Kept')
      BY <2>1 DEF Listed, Seen, Looked, Kept
    <3>2. \A b : /\ Same(b) => Same(b)'
                 /\ Current(b) => Current(b)'
                 /\ Matches(b) => Matches(b)'
                 /\ WriteHolds(b) => WriteHolds(b)'
      BY <2>1, <2>2 DEF Same, Open, Matches, WriteHolds, Current
    <3> QED
      BY <2>1, <2>2, <3>1, <3>2 DEF Holds, CalmHolds, Underway, Planned
  <2> QED
    BY <2>3, <2>4, <2>5, <2>6, <2>7 DEF Rest
<1> QED
  BY <1>3, <1>4, <1>5, <1>6, <1>7, <1>8, <1>9, <1>10 DEF Next, Submitting, Locally

\* What a submit has promised when it is done: for a branch that is not apart
\* the commits that GitHub shows are some of those above the branch's base, for
\* what GitHub compares with reaches up to the base, and no other branch has
\* anything above.
LEMMA DeliversHere ==
    ASSUME Holds, submit.pc = "done", submit.calm, NEW b \in submit.kept
    PROVE  Delivered(b)
<1>1. /\ TypeOK /\ StackHolds /\ GitHubHolds /\ WorkOK /\ RecordsHold /\ CalmHolds
      /\ tip \in [Node -> Revision] /\ base \in [Branch -> Revision] /\ parent \in [Branch -> Node]
  BY Types DEF Holds
<1>2. /\ b \in Branch /\ b \in Node /\ submit.kept \subseteq Branch
      /\ \A c \in submit.kept : Same(c) /\ c \notin pending /\ Current(c)
      /\ parent[b] = Trunk \/ (parent[b] \in submit.kept /\ base[b] = tip[parent[b]])
  <2>1. submit.kept \subseteq submit.scope /\ submit.scope \subseteq Branch
    BY <1>1 DEF WorkOK, Underway
  <2> QED
    BY <1>1, <2>1, Types DEF CalmHolds, Underway, Kept
<1> DEFINE r == remote[b]
<1>3. /\ Open(b) /\ pr[b].base = parent[b]
      /\ r \in Revision /\ IsAncestor(tip[b], r) /\ \A p \in Above(r, Len(tip[b])) : p.home = b
  BY <1>2, CurrentIs DEF Same
<1>4. SUFFICES ASSUME b \notin apart PROVE \A p \in Shown(b) : p.home = b
  BY <1>2, <1>3 DEF Delivered, Open, Current
<1>5. /\ pr[b].from \in Revision /\ tip[b] \in Revision /\ base[b] \in Revision
      /\ IsAncestor(base[b], tip[b]) /\ \A p \in Above(tip[b], Len(base[b])) : p.home = b
      /\ Compared(b)
  BY <1>1, <1>2, <1>3 DEF GitHubHolds, Compared, StackHolds, OwnAbove
<1> HIDE DEF r
<1>6. IsAncestor(base[b], r) /\ \A p \in Above(r, Len(base[b])) : p.home = b
  <2>1. IsAncestor(base[b], r)
    BY <1>3, <1>5, AncestorOfAncestor DEF Revision
  <2>2. /\ Len(base[b]) \in Nat /\ Len(tip[b]) \in Nat /\ Len(r) \in Nat
        /\ \A i \in 1 .. Len(tip[b]) : tip[b][i] = r[i]
    BY <1>3, <1>5, LenProperties, AncestorElements DEF Revision
  <2>3. ASSUME NEW i \in Len(base[b]) + 1 .. Len(r)
        PROVE  r[i] \in Above(tip[b], Len(base[b])) \/ r[i] \in Above(r, Len(tip[b]))
    <3>1. CASE i <= Len(tip[b])
      <4>1. i \in 1 .. Len(tip[b]) /\ i \in Len(base[b]) + 1 .. Len(tip[b])
        BY <2>2, <3>1
      <4> QED
        BY <2>2, <4>1 DEF Above
    <3>2. CASE ~(i <= Len(tip[b]))
      <4>1. i \in Len(tip[b]) + 1 .. Len(r)
        BY <2>2, <3>2
      <4> QED
        BY <4>1 DEF Above
    <3> QED
      BY <3>1, <3>2
  <2>4. \A p \in Above(r, Len(base[b])) : \E i \in Len(base[b]) + 1 .. Len(r) : p = r[i]
    BY DEF Above
  <2> QED
    BY <1>3, <1>5, <2>1, <2>3, <2>4
<1>7. IsAncestor(base[b], pr[b].from)
  <2>1. CASE parent[b] = Trunk
    BY <1>1, <1>2, <1>3, <1>5, <2>1 DEF Compared, GitHubHolds, StackHolds
  <2>2. CASE parent[b] # Trunk
    <3>1. /\ base[b] = tip[parent[b]] /\ remote[parent[b]] \in Revision
          /\ IsAncestor(base[b], remote[parent[b]])
      BY <1>2, <2>2, CurrentIs
    <3>2. IsAncestor(pr[b].from, r)
      BY <1>1, <1>2, <1>3, <1>4, <2>2 DEF RecordsHold, RecordHolds, Stands, r
    <3>3. Len(pr[b].from) \in Nat /\ Len(base[b]) \in Nat
      BY <1>5, LenProperties DEF Revision
    <3>4. CASE Len(base[b]) <= Len(pr[b].from)
      BY <1>3, <1>5, <1>6, <3>2, <3>4, AncestorsCompare DEF Revision
    <3>5. CASE Len(pr[b].from) <= Len(base[b])
      <4>1. IsAncestor(pr[b].from, base[b])
        BY <1>3, <1>5, <1>6, <3>2, <3>5, AncestorsCompare DEF Revision
      <4>2. IsAncestor(pr[b].from, remote[parent[b]])
        BY <1>5, <3>1, <4>1, AncestorOfAncestor DEF Revision
      <4>3. pr[b].from = remote[parent[b]]
        BY <1>3, <1>5, <4>2 DEF Compared
      <4> QED
        BY <3>1, <4>3
    <3> QED
      BY <3>3, <3>4, <3>5
  <2> QED
    BY <2>1, <2>2
<1> DEFINE meet == MergeBase(pr[b].from, r)
           shown == SubSeq(r, Len(meet) + 1, Len(r))
<1>8. meet \in Revision /\ IsAncestor(base[b], meet)
  BY <1>3, <1>5, <1>6, <1>7, MergeBaseIs DEF Revision
<1>9. Shown(b) = ToSet(shown)
  BY DEF Shown, r
<1> HIDE DEF meet
<1>10. Len(base[b]) \in Nat /\ Len(meet) \in Nat /\ Len(base[b]) <= Len(meet) /\ Len(r) \in Nat
  BY <1>3, <1>5, <1>8, LenProperties, AncestorElements DEF Revision
<1>11. /\ shown \in Seq(Patch)
       /\ \A i \in 1 .. Len(shown) : /\ Len(meet) + i \in Len(meet) + 1 .. Len(r)
                                      /\ shown[i] = r[Len(meet) + i]
  <2>1. \A i \in Len(meet) + 1 .. Len(r) : r[i] \in Patch
    BY <1>3, <1>10, ElementOfSeq DEF Revision
  <2>2. /\ shown \in Seq(Patch)
        /\ Len(shown) = IF Len(meet) + 1 <= Len(r) THEN Len(r) - (Len(meet) + 1) + 1 ELSE 0
        /\ \A i \in 1 .. Len(r) - (Len(meet) + 1) + 1 : shown[i] = r[Len(meet) + 1 + i - 1]
    BY <1>10, <2>1, SubSeqProperties
  <2> HIDE DEF shown
  <2>3. \A i \in 1 .. Len(shown) : /\ Len(meet) + i \in Len(meet) + 1 .. Len(r)
                                   /\ i \in 1 .. Len(r) - (Len(meet) + 1) + 1
                                   /\ Len(meet) + 1 + i - 1 = Len(meet) + i
    BY <1>10, <2>2
  <2> QED
    BY <2>2, <2>3
<1> HIDE DEF shown
<1>12. \A i \in 1 .. Len(shown) : shown[i] \in Above(r, Len(base[b]))
  <2>1. \A i \in 1 .. Len(shown) : Len(meet) + i \in Len(base[b]) + 1 .. Len(r)
    BY <1>10, <1>11
  <2> QED
    BY <1>11, <2>1 DEF Above
<1>13. DOMAIN shown = 1 .. Len(shown)
  BY <1>11, LenProperties
<1> QED
  BY <1>6, <1>9, <1>12, <1>13 DEF ToSet

\* A submit that succeeds with nothing happening beside it delivers every branch,
\* for any stack, and whatever has been committed, moved, pushed, closed,
\* retargeted, or has failed, before: the remote has the branch as it is here or,
\* when its listing has failed and the remote-tracking refs were taken for it, has
\* all of the branch and commits of others besides.
THEOREM Delivers == Spec => []SubmitDelivers
<1>1. Holds => SubmitDelivers
  BY DeliversHere DEF SubmitDelivers
<1> QED
  BY HoldsInit, HoldsStep, <1>1, PTL DEF Spec
=============================================================================
