-------------------------- MODULE CoalescerProofs --------------------------
(* What Coalescer guarantees for any number of deliveries. *)
EXTENDS Coalescer, TLAPS

\* Timers are numbered in the order they are armed.
TimersInOrder == timer <= triggers

\* The entry says that a run is inside sync exactly when one is, and only then
\* can another sync be pending.
RunningIsSyncing == (running <=> syncing # {}) /\ (pending => running)

\* No callback carries the generation of a missing entry.
CallbacksHaveGen == \A t \in armed \cup fired : genOf[t] # 0

\* The inductive invariant.  AtMostOneSync alone is not inductive: a run that
\* gets in must know from the entry that nobody else is inside, and a run that
\* gives up must not be the one the entry waits for.
Race == /\ TypeOK /\ TimersInOrder /\ CallbacksHaveGen
        /\ RunningIsSyncing /\ AtMostOneSync /\ WaitingHasTimer

USE TriggersAssumption DEF TimerId

\* The invariant holds in the empty coalescer.
LEMMA RaceInit == Init => Race
<1> SUFFICES ASSUME Init PROVE Race
  OBVIOUS
<1> USE DEF Init, NoEntry
<1>1. TypeOK
  <2>1. running \in BOOLEAN /\ pending \in BOOLEAN /\ NoEntry
    OBVIOUS
  <2>2. /\ gen \in Nat /\ timer \in {0} \cup TimerId
        /\ genOf \in [TimerId -> Nat]
        /\ triggers \in 0 .. MaxTriggers
        /\ started \in 0 .. MaxTriggers /\ synced \in 0 .. MaxTriggers
    OBVIOUS
  <2>3. /\ armed \in SUBSET TimerId /\ fired \in SUBSET TimerId /\ syncing \in SUBSET TimerId
    OBVIOUS
  <2> QED BY <2>1, <2>2, <2>3 DEF TypeOK
<1>2. TimersInOrder /\ CallbacksHaveGen /\ RunningIsSyncing /\ AtMostOneSync /\ WaitingHasTimer
  BY DEF TimersInOrder, CallbacksHaveGen, RunningIsSyncing, AtMostOneSync, WaitingHasTimer
<1> QED BY <1>1, <1>2 DEF Race

\* Every step of the coalescer preserves the invariant.
LEMMA RaceStep == Race /\ [Next]_vars => Race'
<1> SUFFICES ASSUME Race, [Next]_vars PROVE Race'
  OBVIOUS
<1> USE DEF Race, TypeOK, NoEntry, TimersInOrder, CallbacksHaveGen, RunningIsSyncing,
            AtMostOneSync, WaitingHasTimer, entryVars, timerVars, recordVars
<1>1. CASE Rearm
  <2> DEFINE t == triggers + 1
  <2>1. t \in TimerId /\ t # timer /\ t \in armed'
    BY <1>1 DEF Rearm, Stopped
  <2>2. TypeOK'
    <3>1. gen' \in Nat /\ gen' # 0 /\ genOf' \in [TimerId -> Nat]
      BY <1>1, <2>1 DEF Rearm, NextGen
    <3>2. triggers' \in 0 .. MaxTriggers /\ timer' \in {0} \cup TimerId
      BY <1>1, <2>1 DEF Rearm
    <3>3. /\ armed' \in SUBSET TimerId /\ fired' \in SUBSET TimerId
          /\ syncing' \in SUBSET TimerId
      BY <1>1, <2>1 DEF Rearm
    <3>4. /\ running' = running /\ pending' = pending
          /\ started' = started /\ synced' = synced
      BY <1>1 DEF Rearm
    <3> QED BY <3>1, <3>2, <3>3, <3>4
  <2>3. TimersInOrder' /\ CallbacksHaveGen' /\ RunningIsSyncing' /\ AtMostOneSync'
    BY <1>1, <2>1 DEF Rearm, NextGen
  <2>4. WaitingHasTimer'
    BY <1>1, <2>1 DEF Rearm, NextGen
  <2> QED BY <2>2, <2>3, <2>4
<1>2. CASE MarkPending
  BY <1>2 DEF MarkPending, WhilePending
<1>3. ASSUME NEW t \in TimerId, Fire(t) PROVE Race'
  BY <1>3 DEF Fire
<1>4. ASSUME NEW t \in TimerId, RunStale(t) PROVE Race'
  BY <1>4 DEF RunStale, Superseded
<1>5. ASSUME NEW t \in TimerId, Run(t) PROVE Race'
  <2>1. ~running /\ gen # 0 /\ syncing = {} /\ syncing' = {t}
    BY <1>5 DEF Run, Superseded
  <2> QED BY <1>5, <2>1 DEF Run
<1>6. ASSUME NEW t \in TimerId, SyncAgain(t) PROVE Race'
  BY <1>6 DEF SyncAgain, Resumed
<1>7. ASSUME NEW t \in TimerId, SyncDone(t) PROVE Race'
  <2>1. syncing' = {} /\ ~running' /\ ~pending' /\ gen' = 0 /\ timer' = 0
    BY <1>7 DEF SyncDone
  <2>2. /\ running' \in BOOLEAN /\ pending' \in BOOLEAN
        /\ UNCHANGED <<genOf, armed, fired, triggers, started>> /\ synced' = started
    BY <1>7 DEF SyncDone
  <2>3. TypeOK'
    BY <2>1, <2>2
  <2>4. TimersInOrder' /\ CallbacksHaveGen' /\ RunningIsSyncing' /\ AtMostOneSync'
    BY <2>1, <2>2
  <2> QED BY <2>1, <2>3, <2>4
<1>8. CASE UNCHANGED vars
  BY <1>8 DEF vars
<1> QED BY <1>1, <1>2, <1>3, <1>4, <1>5, <1>6, <1>7, <1>8
        DEF Next, TimerStep, SyncStep, Settled

\* The coalescer never leaves the states the invariant describes.
THEOREM AlwaysRace == Spec => []Race
BY RaceInit, RaceStep, PTL DEF Spec

\* At most one sync runs for a repository (reposync/coalescer.go, Coalescer),
\* for any number of deliveries.
THEOREM SyncsNeverOverlap == Spec => []AtMostOneSync
BY AlwaysRace, PTL DEF Race

\* While deliveries wait, the run that will serve them is on its way
\* (reposync/coalescer.go, Trigger and run).
THEOREM DeliveriesAreNeverStranded == Spec => []WaitingHasTimer
BY AlwaysRace, PTL DEF Race

-----------------------------------------------------------------------------
(* The refinement of SyncOwed.                                             *)

\* Nothing is owed in the empty coalescer.
LEMMA OwedAtFirst == Init => Owed!OwedInit
BY DEF Init, Owed!OwedInit

\* Every step of the coalescer is one of SyncOwed, or leaves what is owed and
\* what is busy alone.
LEMMA OwedStep == Race /\ [Next]_vars => [Owed!OwedNext]_Owed!owedVars
<1> SUFFICES ASSUME Race, [Next]_vars PROVE [Owed!OwedNext]_Owed!owedVars
  OBVIOUS
<1> USE DEF entryVars, timerVars, recordVars
<1>1. CASE Rearm
  <2>1. gen' # 0 /\ ~running' /\ ~running
    BY <1>1 DEF Rearm, NextGen, Race, TypeOK
  <2> QED BY <1>1, <2>1 DEF Rearm, Owed!OwedNext, Owed!Request
<1>2. CASE MarkPending
  <2>1. gen' # 0 /\ pending'
    BY <1>2 DEF MarkPending, WhilePending, Race, TypeOK, NoEntry
  <2> QED BY <1>2, <2>1 DEF MarkPending, Owed!OwedNext, Owed!Request
<1>3. ASSUME NEW t \in TimerId, Fire(t) \/ RunStale(t) PROVE UNCHANGED Owed!owedVars
  BY <1>3 DEF Fire, RunStale, Owed!owedVars
<1>4. ASSUME NEW t \in TimerId, Run(t) PROVE Owed!Begin
  <2>1. ~running /\ ~pending /\ gen # 0
    BY <1>4 DEF Run, Superseded, Race, CallbacksHaveGen, RunningIsSyncing
  <2> QED BY <1>4, <2>1 DEF Run, Owed!Begin
<1>5. ASSUME NEW t \in TimerId, SyncAgain(t) PROVE Owed!Again
  <2>1. running /\ gen # 0
    BY <1>5 DEF SyncAgain, Race, TypeOK, NoEntry, RunningIsSyncing
  <2> QED BY <1>5, <2>1 DEF SyncAgain, Resumed, Owed!Again
<1>6. ASSUME NEW t \in TimerId, SyncDone(t) PROVE Owed!Finish
  <2>1. running
    BY <1>6 DEF SyncDone, Race, RunningIsSyncing
  <2> QED BY <1>6, <2>1 DEF SyncDone, Owed!Finish
<1>7. CASE UNCHANGED vars
  BY <1>7 DEF vars, Owed!owedVars
<1> QED BY <1>1, <1>2, <1>3, <1>4, <1>5, <1>6, <1>7
        DEF Next, TimerStep, SyncStep, Settled, Owed!OwedNext

\* The coalescer does what SyncOwed allows and nothing else: syncs start only
\* for deliveries no sync has started for, and a delivery during a sync is
\* never taken to be served by it (reposync/coalescer.go, Trigger and run).
THEOREM CoalescerIsSyncOwed == Spec => Owed!SafeSpec
BY OwedAtFirst, OwedStep, AlwaysRace, PTL DEF Spec, Owed!SafeSpec
=============================================================================
