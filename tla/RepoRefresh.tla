---------------------------- MODULE RepoRefresh ----------------------------
(***************************************************************************)
(* How a push reaches the browsers that watch a repository.                *)
(*                                                                         *)
(* A managed repository is a checkout that mirrors its remote.  Three      *)
(* goroutines mirror-fetch it: the webhook's (behind the coalescer, which  *)
(* appears here as SyncOwed), the interval loop's and a manual request's.  *)
(* Nothing keeps their fetches apart, and git writes one ref after the     *)
(* other, so that a slow fetch may put back what a later one has brought.  *)
(* Each then refreshes the entry, as does the ref watcher when it sees     *)
(* refs change: under refreshMu the engine is rebuilt from the checkout    *)
(* and a refresh event is offered to every event stream.  A browser that   *)
(* reads one asks for the view again.                                      *)
(*                                                                         *)
(* The state of the repository is abstracted to a version: the number of   *)
(* pushes it contains.  The checkout's refs are of two kinds, which a      *)
(* fetch writes and a rebuild reads apart, each with a version of its own. *)
(***************************************************************************)
EXTENDS Naturals, FiniteSets

CONSTANTS Client,     \* browsers that show the repository
          Runner,     \* goroutines that refresh it
          Setups,     \* which of them run, which browsers are open, how many
                      \* pushes there are, and how many fetches and rebuilds
                      \* fail by themselves
          MaxPush,    \* bound on pushes
          MaxDrops,   \* bound on event streams that end
          Buffer,     \* capacity of a stream's channel
          MaxRequests \* requests a browser has open at a time

Pushes == 0 .. MaxPush

ASSUME RefreshAssumption ==
    /\ {"webhook", "interval"} \subseteq Runner
    /\ Runner \subseteq {"webhook", "interval", "manual", "watcher"}
    /\ Setups \subseteq [runners : SUBSET Runner, browsers : SUBSET Client,
                         pushes : Pushes, faults : Nat]
    /\ MaxPush \in Nat /\ MaxDrops \in Nat
    /\ Buffer \in Nat \ {0} /\ MaxRequests \in Nat \ {0}

\* The branch heads and stackit's refs.
Ref == {"heads", "metadata"}

VARIABLES remote,     \* the remote repository
          refs,       \* the checkout's refs: what they contain and how often
                      \* they have been changed
          engine,     \* what the entry's engine serves: refs as it read them
          owed, busy, \* the coalescer
          pc,         \* per goroutine: where its sync is
          heard,      \* per goroutine: what the remote has told its fetch
          found,      \* per goroutine: the refs its fetch has found
          todo,       \* per goroutine: refs its fetch has still to write
          lost,       \* per goroutine: a ref of its fetch was refused
          read,       \* per goroutine: what its rebuild has read
          lock,       \* the entry's refreshMu is held
          dirty,      \* the watcher's timer is armed
          conn,       \* browsers whose event stream is subscribed
          inbox,      \* per browser: refresh events in its channel
          asked,      \* per browser: requests the server has not handled
          replies,    \* per browser: views on their way
          view,       \* per browser: what it shows
          drops,      \* event streams that have ended
          failures,   \* fetches and rebuilds that have failed by themselves
          setup       \* the server's options and who watches; never changes

fetchVars  == <<heard, found, todo, lost>>
syncVars   == <<pc, fetchVars, read, failures>>
hookVars   == <<owed, busy>>
clientVars == <<conn, inbox, asked, replies, view, drops>>
vars == <<remote, refs, engine, hookVars, syncVars, lock, dirty, clientVars, setup>>

Hook == INSTANCE SyncOwed

FetchPC == {"fetch", "look", "write"}
PC == {"idle", "lock", "apply", "announce"} \cup FetchPC \cup Ref

\* A ref's nth content.
Content == [version : Pushes, nth : Nat]

Versions(s) == [m \in Ref |-> s[m].version]

ServerTypeOK ==
    /\ remote \in Pushes /\ refs \in [Ref -> Content] /\ engine \in [Ref -> Content]
    /\ owed \in BOOLEAN /\ busy \in BOOLEAN /\ lock \in BOOLEAN /\ dirty \in BOOLEAN
    /\ failures \in Nat /\ setup \in Setups

SyncTypeOK ==
    /\ pc \in [Runner -> PC] /\ heard \in [Runner -> Pushes]
    /\ found \in [Runner -> [Ref -> Pushes]] /\ todo \in [Runner -> SUBSET Ref]
    /\ lost \in [Runner -> BOOLEAN] /\ read \in [Runner -> [Ref -> Content]]

ClientTypeOK ==
    /\ conn \in SUBSET Client /\ inbox \in [Client -> 0 .. Buffer]
    /\ asked \in [Client -> 0 .. MaxRequests] /\ replies \in [Client -> SUBSET [Ref -> Pushes]]
    /\ view \in [Client -> [Ref -> Pushes]] /\ drops \in 0 .. MaxDrops

TypeOK == ServerTypeOK /\ SyncTypeOK /\ ClientTypeOK

Nothing == [m \in Ref |-> 0]
Initial == [m \in Ref |-> [version |-> 0, nth |-> 0]]

\* Those who watch have loaded the page and are connected.
Init ==
    /\ setup \in Setups
    /\ remote = 0 /\ refs = Initial /\ engine = Initial
    /\ Hook!OwedInit
    /\ pc = [r \in Runner |-> "idle"]
    /\ heard = [r \in Runner |-> 0] /\ found = [r \in Runner |-> Nothing]
    /\ todo = [r \in Runner |-> {}] /\ lost = [r \in Runner |-> FALSE]
    /\ read = [r \in Runner |-> Initial]
    /\ lock = FALSE /\ dirty = FALSE
    /\ conn = setup.browsers /\ inbox = [c \in Client |-> 0]
    /\ asked = [c \in Client |-> 0] /\ replies = [c \in Client |-> {}]
    /\ view = [c \in Client |-> Nothing] /\ drops = 0 /\ failures = 0

Goto(r, l) == pc' = [pc EXCEPT ![r] = l]

\* What r has heard and found is of no more use.
FetchOver(r) ==
    /\ heard' = [heard EXCEPT ![r] = 0] /\ found' = [found EXCEPT ![r] = Nothing]
    /\ todo' = [todo EXCEPT ![r] = {}] /\ lost' = [lost EXCEPT ![r] = FALSE]

\* Somebody pushes; the webhook's delivery may be lost.
Push ==
    /\ remote < setup.pushes
    /\ remote' = remote + 1
    /\ Hook!Request \/ UNCHANGED hookVars
    /\ UNCHANGED <<setup, refs, engine, syncVars, lock, dirty, clientVars>>

-----------------------------------------------------------------------------
(* A sync: fetch, then refresh.                                            *)

\* The coalescer calls SyncRepo.
StartWebhook ==
    /\ "webhook" \in setup.runners /\ Hook!Begin
    /\ Goto("webhook", "fetch")
    /\ UNCHANGED <<setup, remote, refs, engine, fetchVars, read, failures, lock, dirty, clientVars>>

\* The interval loop's tick, or POST sync.
Start(r) ==
    /\ r \in {"interval", "manual"} \cap setup.runners /\ pc[r] = "idle"
    /\ Goto(r, "fetch")
    /\ UNCHANGED <<setup, remote, refs, engine, hookVars, fetchVars, read, failures, lock, dirty,
                   clientVars>>

\* The timer that a change of the refs has armed runs out.
WatcherFires(r) ==
    /\ r = "watcher" /\ dirty /\ pc[r] = "idle"
    /\ dirty' = FALSE
    /\ Goto(r, "lock")
    /\ UNCHANGED <<setup, remote, refs, engine, hookVars, fetchVars, read, failures, lock, clientVars>>

\* The sync of r is over; the coalescer's goroutine may go round again.
SyncReturns(r) ==
    /\ IF r = "webhook"
       THEN \/ Hook!Again /\ Goto(r, "fetch")
            \/ Hook!Finish /\ Goto(r, "idle")
       ELSE Goto(r, "idle") /\ UNCHANGED hookVars
    /\ FetchOver(r)
    /\ read' = [read EXCEPT ![r] = Initial]

\* git fetch asks the remote for its refs ...
FetchHears(r) ==
    /\ pc[r] = "fetch"
    /\ heard' = [heard EXCEPT ![r] = remote]
    /\ Goto(r, "look")
    /\ UNCHANGED <<setup, remote, refs, engine, hookVars, found, todo, lost, read, failures, lock,
                   dirty, clientVars>>

\* ... looks which of the checkout's differ, and gets what they are made of ...
FetchLooks(r) ==
    /\ pc[r] = "look"
    /\ found' = [found EXCEPT ![r] = Versions(refs)]
    /\ todo' = [todo EXCEPT ![r] = {m \in Ref : refs[m].version # heard[r]}]
    /\ Goto(r, "write")
    /\ UNCHANGED <<setup, remote, refs, engine, hookVars, heard, lost, read, failures, lock, dirty,
                   clientVars>>

\* ... and writes one after the other, forced: older content replaces newer.  A
\* ref that has moved in the meantime is refused, unless it is a new one.  The
\* watcher may miss the change.
FetchWrites(r, m) ==
    /\ pc[r] = "write" /\ m \in todo[r]
    /\ todo' = [todo EXCEPT ![r] = @ \ {m}]
    /\ \/ /\ IF refs[m].version = heard[r] THEN UNCHANGED <<refs, dirty>>
             ELSE /\ refs' = [refs EXCEPT ![m] = [version |-> heard[r], nth |-> refs[m].nth + 1]]
                  /\ dirty' \in IF "watcher" \in setup.runners THEN {dirty, TRUE} ELSE {dirty}
          /\ lost' = lost
       \/ /\ refs[m].version # found[r][m]
          /\ lost' = [lost EXCEPT ![r] = TRUE]
          /\ UNCHANGED <<refs, dirty>>
    /\ UNCHANGED <<setup, remote, engine, hookVars, pc, heard, found, read, failures, lock, clientVars>>

\* git has tried every ref.
FetchEnds(r) ==
    /\ pc[r] = "write" /\ todo[r] = {} /\ ~lost[r]
    /\ Goto(r, "lock") /\ FetchOver(r)
    /\ UNCHANGED <<setup, remote, refs, engine, hookVars, read, failures, lock, dirty, clientVars>>

Fails == failures < setup.faults /\ failures' = failures + 1

\* The fetch fails: no token, the network, the timeout that kills it between two
\* refs, or a ref was refused.  The sync ends without a refresh and is not
\* repeated; what has been written stays.
FetchFails(r) ==
    /\ \/ pc[r] \in FetchPC /\ Fails
       \/ pc[r] = "write" /\ todo[r] = {} /\ lost[r] /\ UNCHANGED failures
    /\ SyncReturns(r)
    /\ UNCHANGED <<setup, remote, refs, engine, lock, dirty, clientVars>>

\* Mutant: refreshMu is not taken.
MayRefreshAlways == TRUE

MayRefresh == ~lock

LockRefresh(r) ==
    /\ pc[r] = "lock" /\ MayRefresh
    /\ lock' = TRUE
    /\ Goto(r, "heads")
    /\ UNCHANGED <<setup, remote, refs, engine, hookVars, fetchVars, read, failures, dirty, clientVars>>

\* Mutant: the metadata cache is not cleared.
ReadNowCached(m) == IF m = "metadata" THEN engine[m] ELSE refs[m]

ReadNow(m) == refs[m]

\* Rebuild reads the branches, and then the metadata, with the cache cleared ...
RebuildReads(r, m) ==
    /\ pc[r] = m
    /\ read' = [read EXCEPT ![r][m] = ReadNow(m)]
    /\ Goto(r, IF m = "heads" THEN "metadata" ELSE "apply")
    /\ UNCHANGED <<setup, remote, refs, engine, hookVars, fetchVars, failures, lock, dirty, clientVars>>

\* ... and replaces the engine's state.
RebuildApplies(r) ==
    /\ pc[r] = "apply"
    /\ engine' = read[r]
    /\ Goto(r, "announce")
    /\ UNCHANGED <<setup, remote, refs, hookVars, fetchVars, read, failures, lock, dirty, clientVars>>

\* The branches cannot be listed.
RebuildFails(r) ==
    /\ pc[r] = "heads" /\ Fails
    /\ lock' = FALSE
    /\ SyncReturns(r)
    /\ UNCHANGED <<setup, remote, refs, engine, dirty, clientVars>>

\* Mutants: a channel without a buffer and a reader that is not waiting; a
\* buffer without an end.
OfferedUnbuffered(c) == IF c \in conn /\ inbox[c] < Buffer - 1 THEN inbox[c] + 1 ELSE inbox[c]
OfferedAlways(c) == IF c \in conn THEN inbox[c] + 1 ELSE inbox[c]

\* Broadcast to one stream: the event is dropped when the channel is full.
Offered(c) == IF c \in conn /\ inbox[c] < Buffer THEN inbox[c] + 1 ELSE inbox[c]

Announce(r) ==
    /\ pc[r] = "announce"
    /\ inbox' = [c \in Client |-> Offered(c)]
    /\ lock' = FALSE
    /\ SyncReturns(r)
    /\ UNCHANGED <<setup, remote, refs, engine, failures, dirty, conn, asked, replies, view, drops>>

-----------------------------------------------------------------------------
(* A browser.                                                              *)

serverVars == <<remote, refs, engine, hookVars, syncVars, lock, dirty, setup>>

\* The stream ends: its lifetime is over, or the connection breaks.
StreamEnds(c) ==
    /\ c \in conn /\ drops < MaxDrops
    /\ drops' = drops + 1
    /\ conn' = conn \ {c}
    /\ inbox' = [inbox EXCEPT ![c] = 0]
    /\ UNCHANGED <<serverVars, asked, replies, view>>

\* EventSource connects again.
Subscribe(c) ==
    /\ c \in setup.browsers \ conn
    /\ conn' = conn \cup {c}
    /\ UNCHANGED <<serverVars, inbox, asked, replies, view, drops>>

\* A refresh event makes the page fetch the view.
ReadEvent(c) ==
    /\ inbox[c] > 0 /\ asked[c] < MaxRequests
    /\ inbox' = [inbox EXCEPT ![c] = @ - 1]
    /\ asked' = [asked EXCEPT ![c] = @ + 1]
    /\ UNCHANGED <<serverVars, conn, replies, view, drops>>

\* The server assembles a view from its engine.
Answer(c) ==
    /\ asked[c] > 0
    /\ asked' = [asked EXCEPT ![c] = @ - 1]
    /\ replies' = [replies EXCEPT ![c] = @ \cup {Versions(engine)}]
    /\ UNCHANGED <<serverVars, conn, inbox, view, drops>>

\* A view arrives, in whatever order, and is shown.
Show(c) ==
    /\ \E v \in replies[c] :
         /\ view' = [view EXCEPT ![c] = v]
         /\ replies' = [replies EXCEPT ![c] = @ \ {v}]
    /\ UNCHANGED <<serverVars, conn, inbox, asked, drops>>

-----------------------------------------------------------------------------
Fetching(r) ==
    \/ FetchHears(r) \/ FetchLooks(r) \/ FetchEnds(r) \/ FetchFails(r)
    \/ \E m \in Ref : FetchWrites(r, m)
Starting(r) == (r = "webhook" /\ StartWebhook) \/ Start(r) \/ WatcherFires(r)
Refreshing(r) ==
    \/ LockRefresh(r) \/ RebuildApplies(r) \/ RebuildFails(r) \/ Announce(r)
    \/ \E m \in Ref : RebuildReads(r, m)

Next ==
    \/ Push
    \/ \E r \in Runner : Starting(r) \/ Fetching(r) \/ Refreshing(r)
    \/ \E c \in Client : StreamEnds(c) \/ Subscribe(c) \/ ReadEvent(c) \/ Answer(c) \/ Show(c)

Spec == Init /\ [][Next]_vars

\* Goroutines run and obtain a mutex that keeps becoming free; timers run out;
\* browsers run and reconnect.  No fetch has to return, the loop, which waits
\* for its fetches of every repository, does not have to come round, and nobody
\* has to ask for a manual sync.
FairSpec ==
    /\ Spec
    /\ \A r \in Runner : /\ WF_vars(Refreshing(r)) /\ SF_vars(LockRefresh(r))
                         /\ WF_vars(Starting(r) /\ ~Start(r))
    /\ \A c \in Client : /\ WF_vars(Subscribe(c) \/ ReadEvent(c))
                         /\ WF_vars(Answer(c)) /\ WF_vars(Show(c))

-----------------------------------------------------------------------------
(* Correctness.                                                            *)

\* However the webhook's, the loop's, a manual sync and the watcher interleave,
\* no refresh puts back what a later look at the checkout has shown: what is
\* served goes back to older content of a ref only when a fetch has put that ref
\* back (RepoEntry's refreshMu: "the ref watcher and the sync loop can't rebuild
\* the engine concurrently").
ServedFollowsCheckout == [][\A m \in Ref : engine[m].nth <= engine'[m].nth]_vars

\* The interval loop comes round, and each of its fetches of this repository
\* returns, which syncer.go does not see to: they have no deadline.
LoopRuns == WF_vars(Start("interval")) /\ []<>(pc["interval"] \notin FetchPC)

\* While the loop runs, it is the floor under everything: although deliveries get
\* lost, fetches put each other's refs back, collide, fail or hang, and refreshes
\* share a lock, what is served ends up as what the remote is.
ServerConverges ==
    LoopRuns => <>[](\A m \in Ref : engine[m].version = remote)

\* While the loop runs, no browser is left with anything but what is served: a
\* view that came too late, or a stream that had ended, is made up for.
BrowsersFollow ==
    LoopRuns => \A c \in Client : <>[](c \in setup.browsers => view[c] = Versions(engine))
=============================================================================
