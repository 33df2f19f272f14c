------------------------- MODULE RepoRefreshProofs -------------------------
(* What RepoRefresh guarantees for any number of pushes, browsers and      *)
(* failures.                                                               *)
EXTENDS RepoRefresh, TLAPS

Holds(r) == pc[r] \in {"heads", "metadata", "apply", "announce"}

\* Refreshes of the entry run one at a time, and the one that runs holds the
\* lock (registry.go, RepoEntry.Refresh).
Serial ==
    /\ \A r \in Runner : Holds(r) => lock
    /\ \A r, s \in Runner : Holds(r) /\ Holds(s) => r = s

\* What was in the checkout's ref m, or still is.
Past(c, m) ==
    /\ c.nth <= refs[m].nth
    /\ c.nth = refs[m].nth => c = refs[m]

\* The rebuild of r has read m.
HasRead(r, m) == pc[r] = "apply" \/ (pc[r] = "metadata" /\ m = "heads")

\* What is served was in the checkout, and what has been read was there no
\* earlier than what it will replace.
ReadsInOrder ==
    /\ \A m \in Ref : Past(engine[m], m)
    /\ \A r \in Runner, m \in Ref :
         HasRead(r, m) => engine[m].nth <= read[r][m].nth /\ Past(read[r][m], m)

\* The inductive invariant.  Without Serial a rebuild could apply what it read
\* before another one moved the engine on.
Consistent == TypeOK /\ Serial /\ ReadsInOrder

USE RefreshAssumption DEF Pushes, PC, FetchPC, Ref

\* The types of the state.
LEMMA TypeInit == Init => TypeOK
<1> SUFFICES ASSUME Init PROVE TypeOK
  OBVIOUS
<1>1. owed \in BOOLEAN /\ busy \in BOOLEAN
  BY DEF Init, Hook!OwedInit
<1>2. ServerTypeOK
  <2>1. Initial \in [Ref -> Content]
    BY DEF Initial, Content
  <2>2. lock \in BOOLEAN /\ dirty \in BOOLEAN
    BY DEF Init
  <2>3. remote \in Pushes /\ refs \in [Ref -> Content] /\ engine \in [Ref -> Content]
    BY <2>1 DEF Init
  <2> QED BY <1>1, <2>2, <2>3 DEF Init, ServerTypeOK
<1>3. SyncTypeOK
  BY DEF Init, SyncTypeOK, Initial, Nothing, Content
<1>4. ClientTypeOK
  BY DEF Init, ClientTypeOK, Nothing
<1> QED BY <1>2, <1>3, <1>4 DEF TypeOK

\* The versions of some refs.
LEMMA VersionsType == \A s \in [Ref -> Content] : Versions(s) \in [Ref -> Pushes]
BY DEF Versions, Content

\* A fetch that is over keeps its types.
LEMMA OverStep ==
  ASSUME SyncTypeOK, NEW r \in Runner, FetchOver(r)
  PROVE  /\ heard' \in [Runner -> Pushes] /\ found' \in [Runner -> [Ref -> Pushes]]
         /\ todo' \in [Runner -> SUBSET Ref] /\ lost' \in [Runner -> BOOLEAN]
<1>1. Nothing \in [Ref -> Pushes]
  BY DEF Nothing
<1> QED BY <1>1 DEF SyncTypeOK, FetchOver

\* The end of a sync touches only its goroutine's state and the coalescer's.
LEMMA ReturnStep ==
  ASSUME TypeOK, NEW r \in Runner, SyncReturns(r)
  PROVE  /\ owed' \in BOOLEAN /\ busy' \in BOOLEAN
         /\ SyncTypeOK'
         /\ \E l \in {"fetch", "idle"} : pc' = [pc EXCEPT ![r] = l]
         /\ read' = [read EXCEPT ![r] = Initial]
<1>1. owed' \in BOOLEAN /\ busy' \in BOOLEAN
  BY ZenonT(30) DEF SyncReturns, Hook!Again, Hook!Finish, TypeOK, ServerTypeOK, hookVars
<1>2. \E l \in {"fetch", "idle"} : pc' = [pc EXCEPT ![r] = l]
  BY DEF SyncReturns, Goto
<1>3. read' = [read EXCEPT ![r] = Initial] /\ FetchOver(r)
  BY DEF SyncReturns
<1>4. Initial \in [Ref -> Content]
  BY DEF Initial, Content
<1>5. pc' \in [Runner -> PC] /\ read' \in [Runner -> [Ref -> Content]]
  BY <1>2, <1>3, <1>4 DEF TypeOK, SyncTypeOK
<1>6. SyncTypeOK'
  BY <1>3, <1>5, OverStep DEF TypeOK, SyncTypeOK
<1> QED BY <1>1, <1>2, <1>3, <1>6

\* A fetch's steps preserve the types.
LEMMA FetchTypes ==
  ASSUME TypeOK, NEW r \in Runner, Fetching(r)
  PROVE  TypeOK'
<1> USE DEF TypeOK, hookVars, fetchVars, clientVars, Goto
<1>1. CASE FetchHears(r)
  BY <1>1 DEF FetchHears, ServerTypeOK, SyncTypeOK, ClientTypeOK
<1>2. CASE FetchLooks(r)
  <2>1. Versions(refs) \in [Ref -> Pushes]
    BY VersionsType DEF ServerTypeOK
  <2>2. found' \in [Runner -> [Ref -> Pushes]]
    BY <1>2, <2>1 DEF FetchLooks, SyncTypeOK
  <2>3. todo' \in [Runner -> SUBSET Ref]
    <3>1. PICK T \in SUBSET Ref : todo' = [todo EXCEPT ![r] = T]
      BY <1>2 DEF FetchLooks
    <3> QED BY <3>1 DEF SyncTypeOK
  <2>4. pc' \in [Runner -> PC]
    BY <1>2 DEF FetchLooks, SyncTypeOK
  <2> QED BY <1>2, <2>2, <2>3, <2>4 DEF FetchLooks, ServerTypeOK, SyncTypeOK, ClientTypeOK
<1>3. ASSUME NEW m \in Ref, FetchWrites(r, m) PROVE TypeOK'
  <2>1. todo' \in [Runner -> SUBSET Ref] /\ lost' \in [Runner -> BOOLEAN]
    BY <1>3 DEF FetchWrites, SyncTypeOK
  <2>2. dirty' \in BOOLEAN
    BY <1>3 DEF FetchWrites, ServerTypeOK
  <2>3. refs' \in [Ref -> Content]
    <3>1. [version |-> heard[r], nth |-> refs[m].nth + 1] \in Content
      BY DEF ServerTypeOK, SyncTypeOK, Content
    <3>2. refs' = refs \/ refs' = [refs EXCEPT ![m] = [version |-> heard[r], nth |-> refs[m].nth + 1]]
      BY <1>3 DEF FetchWrites
    <3> QED BY <3>1, <3>2 DEF ServerTypeOK
  <2> QED BY <1>3, <2>1, <2>2, <2>3 DEF FetchWrites, ServerTypeOK, SyncTypeOK, ClientTypeOK
<1>4. CASE FetchEnds(r)
  BY <1>4, OverStep DEF FetchEnds, ServerTypeOK, SyncTypeOK, ClientTypeOK
<1>5. CASE FetchFails(r)
  <2>1. failures' \in Nat
    BY <1>5 DEF FetchFails, Fails, ServerTypeOK
  <2> QED BY <1>5, <2>1, ReturnStep DEF FetchFails, ServerTypeOK, ClientTypeOK
<1> QED BY <1>1, <1>2, <1>3, <1>4, <1>5 DEF Fetching

\* So do the steps of a refresh.
LEMMA RefreshTypes ==
  ASSUME TypeOK, NEW r \in Runner, Starting(r) \/ Refreshing(r)
  PROVE  TypeOK'
<1> USE DEF TypeOK, hookVars, fetchVars, clientVars, Goto
<1>1. CASE Starting(r)
  <2>1. owed' \in BOOLEAN /\ busy' \in BOOLEAN /\ dirty' \in BOOLEAN
    BY <1>1 DEF Starting, StartWebhook, Start, WatcherFires, Hook!Begin, ServerTypeOK
  <2>2. pc' \in [Runner -> PC]
    BY <1>1 DEF Starting, StartWebhook, Start, WatcherFires, SyncTypeOK
  <2> QED BY <1>1, <2>1, <2>2
          DEF Starting, StartWebhook, Start, WatcherFires, ServerTypeOK, SyncTypeOK, ClientTypeOK
<1>2. CASE LockRefresh(r)
  BY <1>2 DEF LockRefresh, ServerTypeOK, SyncTypeOK, ClientTypeOK
<1>3. ASSUME NEW m \in Ref, RebuildReads(r, m) PROVE TypeOK'
  <2>1. read' \in [Runner -> [Ref -> Content]]
    <3>1. refs[m] \in Content
      BY DEF ServerTypeOK
    <3> QED BY <1>3, <3>1 DEF RebuildReads, ReadNow, SyncTypeOK
  <2>2. pc' \in [Runner -> PC]
    BY <1>3 DEF RebuildReads, SyncTypeOK
  <2> QED BY <1>3, <2>1, <2>2 DEF RebuildReads, ServerTypeOK, SyncTypeOK, ClientTypeOK
<1>4. CASE RebuildApplies(r)
  BY <1>4 DEF RebuildApplies, ServerTypeOK, SyncTypeOK, ClientTypeOK
<1>5. CASE RebuildFails(r)
  <2>1. failures' \in Nat
    BY <1>5 DEF RebuildFails, Fails, ServerTypeOK
  <2>2. lock' \in BOOLEAN
    BY <1>5 DEF RebuildFails
  <2> QED BY <1>5, <2>1, <2>2, ReturnStep DEF RebuildFails, ServerTypeOK, ClientTypeOK
<1>6. CASE Announce(r)
  <2>1. lock' \in BOOLEAN
    BY <1>6 DEF Announce
  <2>2. inbox' \in [Client -> 0 .. Buffer]
    BY <1>6 DEF Announce, Offered, ClientTypeOK
  <2> QED BY <1>6, <2>1, <2>2, ReturnStep DEF Announce, ServerTypeOK, ClientTypeOK
<1> QED BY <1>1, <1>2, <1>3, <1>4, <1>5, <1>6 DEF Refreshing

\* Every step preserves the types.
LEMMA TypeStep == TypeOK /\ [Next]_vars => TypeOK'
<1> SUFFICES ASSUME TypeOK, [Next]_vars PROVE TypeOK'
  OBVIOUS
<1> USE DEF TypeOK, hookVars, fetchVars, syncVars, clientVars, serverVars
<1>1. CASE Push
  <2>1. owed' \in BOOLEAN /\ busy' \in BOOLEAN
    BY <1>1 DEF Push, Hook!Request, ServerTypeOK
  <2>2. remote' \in Pushes
    BY <1>1 DEF Push, ServerTypeOK
  <2> QED BY <1>1, <2>1, <2>2 DEF Push, ServerTypeOK, SyncTypeOK, ClientTypeOK
<1>4. ASSUME NEW c \in Client, StreamEnds(c) PROVE TypeOK'
  BY <1>4 DEF StreamEnds, ServerTypeOK, SyncTypeOK, ClientTypeOK
<1>5. ASSUME NEW c \in Client, Subscribe(c) PROVE TypeOK'
  BY <1>5 DEF Subscribe, ServerTypeOK, SyncTypeOK, ClientTypeOK
<1>6. ASSUME NEW c \in Client, ReadEvent(c) PROVE TypeOK'
  BY <1>6 DEF ReadEvent, ServerTypeOK, SyncTypeOK, ClientTypeOK
<1>7. ASSUME NEW c \in Client, Answer(c) PROVE TypeOK'
  <2>1. Versions(engine) \in [Ref -> Pushes]
    BY VersionsType DEF ServerTypeOK
  <2> QED BY <1>7, <2>1 DEF Answer, ServerTypeOK, SyncTypeOK, ClientTypeOK
<1>8. ASSUME NEW c \in Client, Show(c) PROVE TypeOK'
  BY <1>8 DEF Show, ServerTypeOK, SyncTypeOK, ClientTypeOK
<1>9. CASE UNCHANGED vars
  BY <1>9 DEF vars, ServerTypeOK, SyncTypeOK, ClientTypeOK
<1> QED BY <1>1, <1>4, <1>5, <1>6, <1>7, <1>8, <1>9, FetchTypes, RefreshTypes DEF Next

\* RepoRefresh's state stays within its types.
THEOREM TypeCorrect == Spec => []TypeOK
BY TypeInit, TypeStep, PTL DEF Spec

-----------------------------------------------------------------------------
(* Refreshes are serial and reads are in order.                            *)

\* A browser's steps leave the server alone.
LEMMA BrowserStep ==
  ASSUME NEW c \in Client,
         StreamEnds(c) \/ Subscribe(c) \/ ReadEvent(c) \/ Answer(c) \/ Show(c)
  PROVE  UNCHANGED <<remote, refs, engine, pc, read, lock>>
BY DEF StreamEnds, Subscribe, ReadEvent, Answer, Show, serverVars, syncVars

\* The lock is free before the first refresh and nothing has been read.
LEMMA ConsistentInit == Init => Consistent
BY TypeInit DEF Init, Initial, Consistent, Serial, Holds, ReadsInOrder, HasRead, Past

\* A fetch neither takes the lock nor touches what is served and what rebuilds
\* have read.
LEMMA FetchIs ==
  ASSUME TypeOK, NEW r \in Runner, Fetching(r)
  PROVE  /\ lock' = lock /\ engine' = engine
         /\ \E l \in FetchPC \cup {"idle", "lock"} : pc' = [pc EXCEPT ![r] = l]
         /\ read' = read \/ read' = [read EXCEPT ![r] = Initial]
<1>1. CASE FetchHears(r) \/ FetchLooks(r) \/ FetchEnds(r)
  BY <1>1 DEF FetchHears, FetchLooks, FetchEnds, Goto
<1>2. ASSUME NEW m \in Ref, FetchWrites(r, m)
      PROVE  lock' = lock /\ engine' = engine /\ read' = read /\ pc' = [pc EXCEPT ![r] = "write"]
  <2>1. pc[r] = "write" /\ pc' = pc
    BY <1>2 DEF FetchWrites
  <2>2. pc = [pc EXCEPT ![r] = "write"]
    BY <2>1 DEF TypeOK, SyncTypeOK
  <2> QED BY <1>2, <2>1, <2>2 DEF FetchWrites
<1>3. CASE FetchFails(r)
  BY <1>3, ReturnStep DEF FetchFails
<1> QED BY <1>1, <1>2, <1>3 DEF Fetching

\* Every step keeps the refreshes serial.
LEMMA SerialStep == Consistent /\ [Next]_vars => Serial'
<1> SUFFICES ASSUME Consistent, [Next]_vars PROVE Serial'
  OBVIOUS
<1> USE DEF Consistent, Serial, Holds, Goto
<1>0. pc \in [Runner -> PC] /\ lock \in BOOLEAN
  BY DEF TypeOK, ServerTypeOK, SyncTypeOK
<1>1. CASE Push
  BY <1>1 DEF Push, syncVars
<1>2. ASSUME NEW r \in Runner, Fetching(r) PROVE Serial'
  <2>1. lock' = lock /\ \E l \in FetchPC \cup {"idle", "lock"} : pc' = [pc EXCEPT ![r] = l]
    BY <1>2, FetchIs
  <2> QED BY <1>0, <2>1
<1>3. ASSUME NEW r \in Runner, Starting(r) \/ Refreshing(r) PROVE Serial'
  <2>1. CASE Starting(r)
    <3>1. lock' = lock /\ \E s \in Runner, l \in {"fetch", "lock"} : pc' = [pc EXCEPT ![s] = l]
      BY <2>1 DEF Starting, StartWebhook, Start, WatcherFires
    <3> QED BY <1>0, <3>1
  <2>2. CASE LockRefresh(r)
    BY <1>0, <2>2 DEF LockRefresh, MayRefresh
  <2>3. CASE RebuildApplies(r) \/ \E m \in Ref : RebuildReads(r, m)
    <3>1. lock' = lock /\ Holds(r)
          /\ \E l \in {"metadata", "apply", "announce"} : pc' = [pc EXCEPT ![r] = l]
      BY <2>3 DEF RebuildReads, RebuildApplies
    <3> QED BY <1>0, <3>1
  <2>4. CASE RebuildFails(r) \/ Announce(r)
    <3>1. Holds(r) /\ \E l \in {"fetch", "idle"} : pc' = [pc EXCEPT ![r] = l]
      BY <2>4, ReturnStep DEF RebuildFails, Announce
    <3>2. \A s \in Runner : ~(pc'[s] \in {"heads", "metadata", "apply", "announce"})
      BY <1>0, <3>1
    <3> QED BY <3>2
  <2> QED BY <1>3, <2>1, <2>2, <2>3, <2>4 DEF Refreshing
<1>4. CASE UNCHANGED vars
  BY <1>4 DEF vars, syncVars
<1> QED BY <1>1, <1>2, <1>3, <1>4, BrowserStep DEF Next

\* A ref that is written holds something new, and what was there before is past.
LEMMA PastStep ==
  ASSUME TypeOK, NEW r \in Runner, Fetching(r),
         NEW m \in Ref, NEW c \in Content, Past(c, m)
  PROVE  Past(c, m)'
<1> SUFFICES c.nth <= refs'[m].nth /\ (c.nth = refs'[m].nth => c = refs'[m])
  BY DEF Past
<1>1. c.nth \in Nat /\ refs[m].nth \in Nat
  BY DEF TypeOK, ServerTypeOK, Content
<1>2. CASE refs' = refs
  BY <1>2 DEF Past
<1>3. CASE refs' # refs
  <2>1. PICK k \in Ref : FetchWrites(r, k)
    BY <1>3, ReturnStep DEF Fetching, FetchHears, FetchLooks, FetchEnds, FetchFails
  <2>2. refs' = [refs EXCEPT ![k] = [version |-> heard[r], nth |-> refs[k].nth + 1]]
    BY <1>3, <2>1 DEF FetchWrites
  <2>3. refs'[m] = refs[m] \/ refs'[m].nth = refs[m].nth + 1
    BY <2>2 DEF TypeOK, ServerTypeOK
  <2> QED BY <1>1, <2>3 DEF Past
<1> QED BY <1>2, <1>3

\* A sync that returns has nothing more to apply.
LEMMA ReturnReads ==
  ASSUME Consistent, NEW r \in Runner, SyncReturns(r), UNCHANGED <<refs, engine>>
  PROVE  ReadsInOrder'
<1>1. PICK l \in {"fetch", "idle"} : pc' = [pc EXCEPT ![r] = l]
  BY ReturnStep DEF Consistent
<1>2. read' = [read EXCEPT ![r] = Initial]
  BY ReturnStep DEF Consistent
<1>3. pc \in [Runner -> PC] /\ read \in [Runner -> [Ref -> Content]]
  BY DEF Consistent, TypeOK, SyncTypeOK
<1>4. \A s \in Runner : pc'[s] \in {"metadata", "apply"} => s # r
  BY <1>1, <1>3
<1>5. \A s \in Runner \ {r} : pc'[s] = pc[s] /\ read'[s] = read[s]
  BY <1>1, <1>2, <1>3
<1> QED BY <1>4, <1>5 DEF Consistent, ReadsInOrder, HasRead, Past

\* Every step keeps the reads in order.
LEMMA ReadsStep == Consistent /\ [Next]_vars => ReadsInOrder'
<1> SUFFICES ASSUME Consistent, [Next]_vars PROVE ReadsInOrder'
  OBVIOUS
<1>0. /\ refs \in [Ref -> Content] /\ engine \in [Ref -> Content]
      /\ pc \in [Runner -> PC] /\ read \in [Runner -> [Ref -> Content]]
  BY DEF Consistent, TypeOK, ServerTypeOK, SyncTypeOK
<1>1. CASE Push
  BY <1>1 DEF Push, syncVars, Consistent, ReadsInOrder, HasRead, Past
<1>2. ASSUME NEW r \in Runner, Fetching(r) PROVE ReadsInOrder'
  <2>1. /\ engine' = engine
        /\ \E l \in FetchPC \cup {"idle", "lock"} : pc' = [pc EXCEPT ![r] = l]
        /\ read' = read \/ read' = [read EXCEPT ![r] = Initial]
    BY <1>2, FetchIs DEF Consistent
  <2>2. \A m \in Ref : Past(engine[m], m)'
    <3>1. ASSUME NEW m \in Ref PROVE Past(engine[m], m)'
      <4>1. PICK c \in Content : c = engine[m]
        BY <1>0
      <4>2. Past(c, m)'
        BY <1>2, <4>1, PastStep DEF Consistent, ReadsInOrder
      <4> QED BY <2>1, <4>1, <4>2 DEF Past
    <3> QED BY <3>1
  <2>3. ASSUME NEW s \in Runner, NEW m \in Ref, HasRead(s, m)'
        PROVE  engine'[m].nth <= read'[s][m].nth /\ Past(read[s][m], m)'
    <3>1. s # r /\ HasRead(s, m) /\ read'[s] = read[s]
      BY <1>0, <2>1, <2>3 DEF HasRead
    <3>2. PICK c \in Content : c = read[s][m]
      BY <1>0
    <3>3. engine[m].nth <= c.nth /\ Past(c, m)
      BY <3>1, <3>2 DEF Consistent, ReadsInOrder
    <3>4. Past(c, m)'
      BY <1>2, <3>3, PastStep DEF Consistent
    <3> QED BY <2>1, <3>1, <3>2, <3>3, <3>4 DEF Past
  <2> QED BY <2>2, <2>3 DEF ReadsInOrder
<1>3. ASSUME NEW r \in Runner, Starting(r) \/ Refreshing(r) PROVE ReadsInOrder'
  <2>1. CASE Starting(r) \/ LockRefresh(r)
    <3>1. /\ UNCHANGED <<refs, engine, read>>
          /\ \E s \in Runner, l \in {"fetch", "lock", "heads"} : pc' = [pc EXCEPT ![s] = l]
      BY <2>1 DEF Starting, StartWebhook, Start, WatcherFires, LockRefresh, Goto
    <3> QED BY <1>0, <3>1 DEF Consistent, ReadsInOrder, HasRead, Past
  <2>2. ASSUME NEW k \in Ref, RebuildReads(r, k) PROVE ReadsInOrder'
    <3>1. /\ UNCHANGED <<refs, engine>> /\ pc[r] = k
          /\ read' = [read EXCEPT ![r] = [read[r] EXCEPT ![k] = refs[k]]]
          /\ pc' = [pc EXCEPT ![r] = IF k = "heads" THEN "metadata" ELSE "apply"]
      BY <1>0, <2>2 DEF RebuildReads, ReadNow, Goto
    <3>2. ASSUME NEW s \in Runner, NEW m \in Ref, HasRead(s, m)'
          PROVE  engine[m].nth <= read'[s][m].nth /\ Past(read'[s][m], m)
      <4>1. CASE s = r /\ m = k
        <5>1. read'[s][m] = refs[m]
          BY <1>0, <3>1, <4>1
        <5> QED BY <5>1, <1>0 DEF Consistent, ReadsInOrder, Past, Content
      <4>2. CASE ~(s = r /\ m = k)
        <5>1. read'[s][m] = read[s][m]
          BY <1>0, <3>1, <4>2
        <5>2. HasRead(s, m)
          BY <1>0, <3>1, <3>2, <4>2 DEF HasRead
        <5> QED BY <5>1, <5>2 DEF Consistent, ReadsInOrder
      <4> QED BY <4>1, <4>2
    <3> QED BY <3>1, <3>2 DEF Consistent, ReadsInOrder, Past
  <2>3. CASE RebuildApplies(r)
    <3>0. UNCHANGED <<refs, read>> /\ engine' = read[r] /\ pc[r] = "apply"
          /\ pc' = [pc EXCEPT ![r] = "announce"]
      BY <2>3 DEF RebuildApplies, Goto
    <3>1. \A s \in Runner : Holds(s) => s = r
      BY <3>0 DEF Consistent, Serial, Holds
    <3>2. \A s \in Runner, m \in Ref : ~HasRead(s, m)'
      BY <1>0, <3>0, <3>1 DEF HasRead, Holds
    <3>3. \A m \in Ref : Past(read[r][m], m)
      BY <3>0 DEF Consistent, ReadsInOrder, HasRead
    <3> QED BY <3>0, <3>2, <3>3 DEF ReadsInOrder, Past
  <2>4. CASE RebuildFails(r) \/ Announce(r)
    BY <2>4, ReturnReads DEF RebuildFails, Announce
  <2> QED BY <1>3, <2>1, <2>2, <2>3, <2>4 DEF Refreshing
<1>4. CASE UNCHANGED vars
  BY <1>4 DEF vars, syncVars, Consistent, ReadsInOrder, HasRead, Past
<1>5. ASSUME UNCHANGED <<remote, refs, engine, pc, read, lock>> PROVE ReadsInOrder'
  BY <1>5 DEF Consistent, ReadsInOrder, HasRead, Past
<1> QED BY <1>1, <1>2, <1>3, <1>4, <1>5, BrowserStep DEF Next

\* Refreshes are always serial, although fetches are not, and what a rebuild has
\* read of a ref, at whatever moments between the writes of fetches, was there no
\* earlier than what it replaces.
THEOREM AlwaysConsistent == Spec => []Consistent
<1>1. Consistent /\ [Next]_vars => Consistent'
  BY TypeStep, SerialStep, ReadsStep DEF Consistent
<1> QED BY <1>1, ConsistentInit, PTL DEF Spec

\* What is served never goes back to what the checkout held before, unless a
\* fetch has put the checkout back (registry.go, RepoEntry.Refresh).
THEOREM ServedFollows == Spec => ServedFollowsCheckout
<1>1. Consistent /\ [Next]_vars => [\A m \in Ref : engine[m].nth <= engine'[m].nth]_vars
  <2> SUFFICES ASSUME Consistent, Next PROVE \A m \in Ref : engine[m].nth <= engine'[m].nth
    OBVIOUS
  <2>0. \A m \in Ref : engine[m].nth \in Nat
    BY DEF Consistent, TypeOK, ServerTypeOK, Content
  <2>1. ASSUME NEW r \in Runner, RebuildApplies(r)
        PROVE  \A m \in Ref : engine[m].nth <= engine'[m].nth
    <3>1. pc[r] = "apply" /\ engine' = read[r]
      BY <2>1 DEF RebuildApplies
    <3>2. \A m \in Ref : HasRead(r, m)
      BY <3>1 DEF HasRead
    <3> QED BY <3>1, <3>2 DEF Consistent, ReadsInOrder
  <2>2. ASSUME engine' = engine PROVE \A m \in Ref : engine[m].nth <= engine'[m].nth
    BY <2>0, <2>2
  <2>3. ASSUME NEW r \in Runner, Fetching(r) PROVE engine' = engine
    BY <2>3, FetchIs DEF Consistent
  <2>4. CASE Push
    BY <2>4, <2>2 DEF Push
  <2>5. ASSUME NEW r \in Runner, Starting(r) \/ Refreshing(r), ~RebuildApplies(r)
        PROVE  engine' = engine
    BY <2>5 DEF Starting, Refreshing, StartWebhook, Start, WatcherFires, LockRefresh,
                RebuildReads, RebuildFails, Announce
  <2> QED BY <2>1, <2>2, <2>3, <2>4, <2>5, BrowserStep DEF Next
<1> QED BY <1>1, AlwaysConsistent, PTL DEF ServedFollowsCheckout, Spec
=============================================================================
