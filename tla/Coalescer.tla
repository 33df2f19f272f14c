----------------------------- MODULE Coalescer -----------------------------
(***************************************************************************)
(* The debouncing of webhook deliveries: reposync.Coalescer.               *)
(*                                                                         *)
(* Every delivery calls Trigger, which (re)arms the repository's timer; a  *)
(* timer that expires starts a goroutine, run, that competes for the lock, *)
(* gives up when it is superseded, and otherwise syncs until no delivery   *)
(* has arrived meanwhile.  Repositories share nothing but the mutex, so    *)
(* one is modelled.  A map without an entry for the repository is the zero *)
(* repoSync: an entry always has gen > 0, and a nil timer is 0.  A timer   *)
(* is named by the number of the trigger that armed it.                    *)
(***************************************************************************)
EXTENDS Naturals

CONSTANT MaxTriggers     \* bound on deliveries

ASSUME TriggersAssumption == MaxTriggers \in Nat

TimerId == 1 .. MaxTriggers

VARIABLES running, pending, gen, timer,   \* the repository's repoSync
          genOf,      \* the gen every timer's callback has captured
          armed,      \* timers that are running
          fired,      \* timers whose run has not yet got the lock
          syncing,    \* timers whose run is inside sync
          triggers,   \* deliveries so far
          started,    \* how many of them had arrived when the last sync started
          synced      \* how many of them had arrived when the last finished one started

entryVars  == <<running, pending, gen, timer>>
timerVars  == <<genOf, armed, fired>>
recordVars == <<started, synced>>
vars == <<entryVars, timerVars, syncing, triggers, recordVars>>

NoEntry == ~running /\ ~pending /\ gen = 0 /\ timer = 0

TypeOK ==
    /\ running \in BOOLEAN /\ pending \in BOOLEAN
    /\ gen \in Nat /\ timer \in {0} \cup TimerId
    /\ gen = 0 => NoEntry
    /\ genOf \in [TimerId -> Nat]
    /\ armed \in SUBSET TimerId /\ fired \in SUBSET TimerId
    /\ syncing \in SUBSET TimerId
    /\ triggers \in 0 .. MaxTriggers
    /\ started \in 0 .. MaxTriggers /\ synced \in 0 .. MaxTriggers

Init ==
    /\ running = FALSE /\ pending = FALSE /\ gen = 0 /\ timer = 0
    /\ genOf = [t \in TimerId |-> 0]
    /\ armed = {} /\ fired = {} /\ syncing = {}
    /\ triggers = 0 /\ started = 0 /\ synced = 0

NextGen == gen + 1

\* Mutant: Stop is called once the new timer is in place.
StoppedNew == {triggers + 1}

\* The timer Trigger stops, if it has not expired yet.
Stopped == {timer}

\* Trigger while no sync is running.
Rearm ==
    LET t == triggers + 1
    IN /\ triggers < MaxTriggers /\ ~running
       /\ triggers' = t
       /\ gen' = NextGen
       /\ timer' = t
       /\ genOf' = [genOf EXCEPT ![t] = NextGen]
       /\ armed' = (armed \cup {t}) \ Stopped
       /\ UNCHANGED <<running, pending, fired, syncing, recordVars>>

\* Mutant: a delivery during a sync is taken to be covered by it.
WhilePendingSame == pending

WhilePending == TRUE

\* Trigger while a sync is running.
MarkPending ==
    /\ triggers < MaxTriggers /\ running
    /\ triggers' = triggers + 1
    /\ pending' = WhilePending
    /\ UNCHANGED <<running, gen, timer, timerVars, syncing, recordVars>>

\* The quiet window of timer t ends.
Fire(t) ==
    /\ t \in armed
    /\ armed' = armed \ {t}
    /\ fired' = fired \cup {t}
    /\ UNCHANGED <<entryVars, genOf, syncing, triggers, recordVars>>

\* Mutant: the generation alone is trusted.
SupersededByGen(t) == gen # genOf[t]

\* run finds that it is not the one to sync.
Superseded(t) == gen # genOf[t] \/ running

RunStale(t) ==
    /\ t \in fired /\ Superseded(t)
    /\ fired' = fired \ {t}
    /\ UNCHANGED <<entryVars, genOf, armed, syncing, triggers, recordVars>>

Run(t) ==
    /\ t \in fired /\ ~Superseded(t)
    /\ fired' = fired \ {t}
    /\ running' = TRUE /\ timer' = 0
    /\ syncing' = syncing \cup {t}
    /\ started' = triggers
    /\ UNCHANGED <<pending, gen, genOf, armed, triggers, synced>>

\* Mutant: pending is left set.
ResumedPending == pending

Resumed == FALSE

\* sync has returned and a delivery has arrived in between: once more.
SyncAgain(t) ==
    /\ t \in syncing /\ pending
    /\ pending' = Resumed
    /\ synced' = started /\ started' = triggers
    /\ UNCHANGED <<running, gen, timer, timerVars, syncing, triggers>>

\* sync has returned, whether it succeeded or not, and the entry is deleted.
SyncDone(t) ==
    /\ t \in syncing /\ ~pending
    /\ running' = FALSE /\ pending' = FALSE /\ gen' = 0 /\ timer' = 0
    /\ syncing' = syncing \ {t}
    /\ synced' = started
    /\ UNCHANGED <<timerVars, triggers, started>>

\* Deliveries have stopped and everything has settled.
Settled ==
    /\ triggers = MaxTriggers
    /\ armed = {} /\ fired = {} /\ syncing = {}
    /\ UNCHANGED vars

TimerStep(t) == Fire(t) \/ RunStale(t) \/ Run(t)
SyncStep(t)  == SyncAgain(t) \/ SyncDone(t)

Next ==
    \/ Rearm \/ MarkPending \/ Settled
    \/ \E t \in TimerId : TimerStep(t) \/ SyncStep(t)

Spec == Init /\ [][Next]_vars

\* Timers expire, goroutines get the lock, and the timeout given to sync makes
\* it return.  Deliveries are not owed to anyone.
FairSpec == Spec /\ \A t \in TimerId : WF_vars(TimerStep(t)) /\ WF_vars(SyncStep(t))

-----------------------------------------------------------------------------
(* Correctness.                                                            *)

\* An entry that waits has a live timer that carries its generation: the run
\* that will serve the deliveries is on its way.
WaitingHasTimer ==
    gen # 0 /\ ~running => timer \in armed \cup fired /\ genOf[timer] = gen

\* No two runs are inside sync for one repository, although generations start
\* over whenever the entry is deleted and a late run can meet its own number
\* again (Coalescer: "At most one sync runs per repo at a time").
AtMostOneSync == \A s, t \in syncing : s = t

\* Whatever the races between deliveries, expiring timers and the end of a
\* sync, every delivery is followed by a complete sync that starts after it.
EveryTriggerIsSynced ==
    \A n \in TimerId : (triggers = n) ~> (synced >= n)

\* The coalescer is SyncOwed: a request is owed while its entry exists, until
\* a run takes it, and again when one arrives during the run.
Owed == INSTANCE SyncOwed
            WITH owed <- gen # 0 /\ (running => pending), busy <- running

CoalescesRequests == Owed!Spec
=============================================================================
