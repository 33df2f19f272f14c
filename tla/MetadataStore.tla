--------------------------- MODULE MetadataStore ---------------------------
(***************************************************************************)
(* Branch metadata shared by several stackit processes.                    *)
(*                                                                         *)
(* Metadata lives in git refs, a shared and a local one per branch.  Every *)
(* engine owns a MetadataStore: a cache of values paired with the version  *)
(* they were read at, marks for refs this engine deleted, and a generation *)
(* per ref that says whether the engine has moved the ref since.  No lock  *)
(* spans two engines; what keeps their writes apart is the version each    *)
(* write demands of git.  Threads of one engine share its store, whose     *)
(* mutex they hold across git calls; transaction commits, flag writes and  *)
(* restacks write around the store and report to it afterwards.            *)
(*                                                                         *)
(* A metadata value is the set of marks operations have written into it:   *)
(* each operation reads, adds a mark of its own and writes back, so a mark *)
(* that disappears is an update that was lost.  The SHA of a blob is a     *)
(* function of its content and is identified with it.                      *)
(***************************************************************************)
EXTENDS Naturals, FiniteSets, GitRefs

CONSTANTS Engine,      \* running stackit processes (and worktree engines)
          Thread,      \* goroutines that operate on an engine
          EngineOf,    \* the engine each of them works on
          Branch,      \* branch names
          Mark,        \* what an operation writes; one per operation
          Jobs,        \* the operations users may ask for
          MaxRetries,  \* attempts WithRetry makes
          MaxCrashes,  \* bound on restarts of an engine
          Free         \* the store's mutex is not held

Shared == {"shared"} \X Branch          \* refs/stackit/metadata/<branch>
Local  == {"local"} \X Branch           \* refs/stackit/local-metadata/<branch>
Ref    == Shared \cup Local

Content == SUBSET Mark                  \* what a metadata blob says
Version == {Absent} \cup Content        \* what a ref can hold

Demand  == {Anything} \cup Version      \* what a write can require a ref to hold

ContentOf(v) == IF v = Absent THEN {} ELSE v

NoEntry == [val |-> {}, sha |-> Anything]    \* the cache has nothing for the ref
Entry   == [val : Content, sha : Version]

\* op:    "tx" a MetadataTx, "direct" WriteMetadata or WriteLocalMetadata,
\*        "flag" setLocalFlag, "restack" a restack's metadata write,
\*        "untrack" UntrackBranch, "rebuild" a full reload
\* refs:  the metadata refs it writes;  del: those a transaction deletes
\* retry: the operation runs under WithRetry
Job == [op : {"tx", "direct", "flag", "restack", "untrack", "rebuild"},
        refs : SUBSET Ref, del : SUBSET Ref, retry : BOOLEAN]

NoJob == [op |-> "rebuild", refs |-> {}, del |-> {}, retry |-> FALSE]

WellFormed(j) ==
    /\ j.del \subseteq j.refs
    /\ j.op # "tx" => j.del = {} /\ ~j.retry
    /\ j.op \in {"direct", "restack", "untrack"} => \E r \in Ref : j.refs = {r}
    /\ j.op \in {"restack", "untrack"} => j.refs \subseteq Shared
    /\ j.op = "flag" => j.refs \subseteq Local
    /\ j.op = "rebuild" => j.refs = {}

ASSUME ConstantsAssumption ==
    /\ EngineOf \in [Thread -> Engine]
    /\ \A v \in Content : v # Absent /\ v # Anything
    /\ Absent # Anything
    /\ Free \notin Thread
    /\ \A j \in Jobs : j \in Job /\ WellFormed(j)
    /\ MaxRetries \in Nat \ {0} /\ MaxCrashes \in Nat

VARIABLES ref,       \* git: what every metadata ref holds
          refGen,    \* per engine: runner.refGenerations
          entry,     \* per engine: metadataCache.entries and localRefSHAs
          known,     \* per engine: refs marked sharedAbsent / localAbsent
          gens,      \* per engine: store.generations and localGenerations
          mu,        \* per engine: holder of MetadataStore.mu
          pc, job, mark, tries,     \* per thread: the operation it runs
          base,      \* per thread: the contents the operation has read
          ver,       \* per thread: the versions its write will demand
          want,      \* per thread: refs a store call is still needed for
          todo,      \* per thread: cache misses left to read from git
          reload,    \* per thread: the reads are those of a rebuild
          saved,     \* per thread: generation WriteMetadata captured
          used,      \* marks handed out
          landed,    \* per thread: marks git accepted from it
          moved,     \* per thread: refs others moved since its last write
          crashes

gitVars    == <<ref>>
storeVars  == <<refGen, entry, known, gens, mu>>
readVars   == <<base, ver, want, todo, reload>>
jobVars    == <<job, mark, tries, saved>>
recordVars == <<used, landed, moved, crashes>>
vars == <<gitVars, storeVars, pc, readVars, jobVars, recordVars>>

PC == {"idle", "read", "fetch", "list", "begin", "write", "erase", "mark",
       "record", "store", "forget", "rejected", "clear"}

StoreTypeOK ==
    /\ refGen \in [Engine -> [Ref -> Nat]]
    /\ entry \in [Engine -> [Ref -> {NoEntry} \cup Entry]]
    /\ known \in [Engine -> SUBSET Ref]
    /\ gens \in [Engine -> [Ref -> Nat]]
    /\ mu \in [Engine -> Thread \cup {Free}]

OperationTypeOK ==
    /\ pc \in [Thread -> PC]
    /\ job \in [Thread -> Jobs \cup {NoJob}]
    /\ mark \in [Thread -> SUBSET Mark]
    /\ tries \in [Thread -> Nat]
    /\ base \in [Thread -> [Ref -> Content]]
    /\ ver \in [Thread -> [Ref -> Demand]]
    /\ want \in [Thread -> SUBSET Ref]
    /\ todo \in [Thread -> SUBSET Ref]
    /\ reload \in [Thread -> BOOLEAN]
    /\ saved \in [Thread -> Nat]

RecordTypeOK ==
    /\ used \in SUBSET Mark
    /\ landed \in [Thread -> SUBSET Mark]
    /\ moved \in [Thread -> SUBSET Ref]
    /\ crashes \in Nat

TypeOK == ref \in [Ref -> Version] /\ StoreTypeOK /\ OperationTypeOK /\ RecordTypeOK

Init ==
    /\ ref \in [Ref -> {Absent, {}}]
    /\ refGen = [e \in Engine |-> [r \in Ref |-> 0]]
    /\ entry = [e \in Engine |-> [r \in Ref |-> NoEntry]]
    /\ known = [e \in Engine |-> {}]
    /\ gens = [e \in Engine |-> [r \in Ref |-> 0]]
    /\ mu = [e \in Engine |-> Free]
    /\ pc = [t \in Thread |-> "idle"]
    /\ job = [t \in Thread |-> NoJob]
    /\ mark = [t \in Thread |-> {}]
    /\ tries = [t \in Thread |-> 0]
    /\ base = [t \in Thread |-> [r \in Ref |-> {}]]
    /\ ver = [t \in Thread |-> [r \in Ref |-> Anything]]
    /\ want = [t \in Thread |-> {}]
    /\ todo = [t \in Thread |-> {}]
    /\ reload = [t \in Thread |-> FALSE]
    /\ saved = [t \in Thread |-> 0]
    /\ used = {}
    /\ landed = [t \in Thread |-> {}]
    /\ moved = [t \in Thread |-> {}]
    /\ crashes = 0

-----------------------------------------------------------------------------
(* The store's primitives, on one engine's cache.                          *)

\* Both metadata refs of the branches named by a set of refs.
BranchRefs(refs) == {r \in Ref : \E q \in refs : q[2] = r[2]}

\* The recorded version is from before a ref move of this very engine.
Outdated(e, r) == gens[e][r] # refGen[e][r]

Drop(e, refs) ==
    /\ entry' = [entry EXCEPT ![e] = [r \in Ref |-> IF r \in refs THEN NoEntry ELSE @[r]]]
    /\ known' = [known EXCEPT ![e] = @ \ refs]

\* PutWithSHA and PutLocalSHA: the value is kept for shared refs only, and an
\* absent local ref leaves no record.
Recorded(r, val, sha) ==
    IF r \in Shared THEN [val |-> val, sha |-> sha]
    ELSE IF sha = Absent THEN NoEntry ELSE [val |-> {}, sha |-> sha]

\* Mutant: standalone writes are unconditional.
ExpectationNone(e, r) == Anything

\* refExpectation: what a standalone write requires the ref to hold.
Expectation(e, r) ==
    IF Outdated(e, r) THEN Anything
    ELSE IF r \in known[e] THEN Absent
    ELSE IF entry[e][r].sha = Absent THEN Anything ELSE entry[e][r].sha

-----------------------------------------------------------------------------
(* Operations.                                                             *)

NewContent(t, r) == base[t][r] \cup mark[t]

\* The refs the operation names in its ref transaction: a transaction leaves
\* out the deletion of a ref it has found absent.
Written(t) == IF job[t].op = "tx"
              THEN job[t].refs \ {r \in job[t].del : ver[t][r] = Absent}
              ELSE job[t].refs

Batch(t) ==
    [r \in Written(t) |->
        LET new == NewContent(t, r)
        IN CASE job[t].op = "tx"      -> IF r \in job[t].del
                                         THEN DeleteMatching(ver[t][r])
                                         ELSE Swap(new, ver[t][r])
             [] job[t].op = "direct"  -> IF ver[t][r] = Anything THEN Put(new)
                                         ELSE Swap(new, ver[t][r])
             [] job[t].op = "restack" -> Match(new, ver[t][r])
             [] job[t].op = "flag"    -> Put(new)
             [] OTHER                 -> Delete]

Retire(S) ==
    /\ pc' = [t \in Thread |-> IF t \in S THEN "idle" ELSE pc[t]]
    /\ job' = [t \in Thread |-> IF t \in S THEN NoJob ELSE job[t]]
    /\ mark' = [t \in Thread |-> IF t \in S THEN {} ELSE mark[t]]
    /\ tries' = [t \in Thread |-> IF t \in S THEN 0 ELSE tries[t]]
    /\ base' = [t \in Thread |-> IF t \in S THEN [r \in Ref |-> {}] ELSE base[t]]
    /\ ver' = [t \in Thread |-> IF t \in S THEN [r \in Ref |-> Anything] ELSE ver[t]]
    /\ want' = [t \in Thread |-> IF t \in S THEN {} ELSE want[t]]
    /\ todo' = [t \in Thread |-> IF t \in S THEN {} ELSE todo[t]]
    /\ reload' = [t \in Thread |-> IF t \in S THEN FALSE ELSE reload[t]]
    /\ saved' = [t \in Thread |-> IF t \in S THEN 0 ELSE saved[t]]

\* A user asks for an operation.
Start(t) ==
    /\ pc[t] = "idle"
    /\ \E j \in Jobs, m \in Mark \ used :
         /\ job' = [job EXCEPT ![t] = j]
         /\ mark' = [mark EXCEPT ![t] = {m}]
         /\ used' = used \cup {m}
         /\ want' = [want EXCEPT ![t] = IF j.op = "untrack" THEN {} ELSE j.refs]
         /\ pc' = [pc EXCEPT ![t] = CASE j.op = "untrack" -> "erase"
                                      [] j.op = "rebuild" -> "clear"
                                      [] OTHER -> "read"]
    /\ UNCHANGED <<gitVars, storeVars, base, ver, todo, reload, tries, saved,
                   landed, moved, crashes>>

-----------------------------------------------------------------------------
(* Reading.                                                                *)

\* What a read returned, value and version, unless it was a rebuild's.
Learn(t, refs, record) ==
    LET new == IF reload[t] THEN {} ELSE refs
    IN /\ base' = [base EXCEPT ![t] = [r \in Ref |-> IF r \in new THEN record[r].val ELSE @[r]]]
       /\ ver' = [ver EXCEPT ![t] = [r \in Ref |-> IF r \in new THEN record[r].sha ELSE @[r]]]

\* ReadMetadata: records of an older generation are dropped, hits are served
\* from the cache with their version, misses take the generation down before
\* the refs are read.
ReadMetadata(t) ==
    LET e      == EngineOf[t]
        asked  == want[t] \cap Shared
        stale  == {r \in asked : Outdated(e, r)}
        hits   == {r \in asked \ stale : entry[e][r] # NoEntry}
        misses == asked \ hits
    IN /\ pc[t] = "read" /\ asked # {} /\ mu[e] = Free
       /\ Drop(e, stale)
       /\ gens' = [gens EXCEPT ![e] = [r \in Ref |-> IF r \in misses
                                                     THEN refGen[e][r] ELSE @[r]]]
       /\ Learn(t, hits, [r \in hits |-> entry[e][r]])
       /\ want' = [want EXCEPT ![t] = @ \ asked]
       /\ todo' = [todo EXCEPT ![t] = misses]
       /\ pc' = [pc EXCEPT ![t] = IF misses = {} THEN "read" ELSE "fetch"]
       /\ mu' = [mu EXCEPT ![e] = IF misses = {} THEN Free ELSE t]
       /\ UNCHANGED <<gitVars, refGen, reload, jobVars, recordVars>>

\* ReadLocalMetadata: local values are not cached, so every read is a miss.
ReadLocalMetadata(t) ==
    LET e     == EngineOf[t]
        asked == want[t] \cap Local
    IN /\ pc[t] = "read" /\ asked # {} /\ mu[e] = Free
       /\ gens' = [gens EXCEPT ![e] = [r \in Ref |-> IF r \in asked
                                                     THEN refGen[e][r] ELSE @[r]]]
       /\ want' = [want EXCEPT ![t] = @ \ asked]
       /\ todo' = [todo EXCEPT ![t] = asked]
       /\ pc' = [pc EXCEPT ![t] = "fetch"]
       /\ mu' = [mu EXCEPT ![e] = t]
       /\ UNCHANGED <<gitVars, refGen, entry, known, base, ver, reload, jobVars,
                      recordVars>>

\* One object of ReadObjects: content and version come from the same read.
\* Other engines may write between the reads of two refs.
Fetch(t) ==
    LET e == EngineOf[t]
    IN /\ pc[t] = "fetch"
       /\ \E r \in todo[t] :
            LET val == ContentOf(ref[r])
            IN /\ Learn(t, {r}, [q \in {r} |-> [val |-> val, sha |-> ref[r]]])
               /\ entry' = [entry EXCEPT ![e][r] = Recorded(r, val, ref[r])]
               /\ known' = [known EXCEPT ![e] = @ \ {r}]
               /\ todo' = [todo EXCEPT ![t] = @ \ {r}]
               /\ pc' = [pc EXCEPT ![t] = IF todo[t] = {r} THEN "read" ELSE "fetch"]
               /\ mu' = [mu EXCEPT ![e] = IF todo[t] = {r} THEN Free ELSE @]
       /\ UNCHANGED <<gitVars, refGen, gens, want, reload, jobVars, recordVars>>

\* Everything the operation asked for has been read.
Prepared(t) ==
    /\ pc[t] = "read" /\ want[t] = {} /\ ~reload[t]
    /\ pc' = [pc EXCEPT ![t] = CASE job[t].op = "restack" -> "list"
                                 [] job[t].op = "direct"  -> "begin"
                                 [] OTHER                 -> "write"]
    /\ UNCHANGED <<gitVars, storeVars, readVars, jobVars, recordVars>>

-----------------------------------------------------------------------------
(* Writing.                                                                *)

\* restackBranches lists the metadata refs after it has read the metadata:
\* the versions its writes demand are those listed, not those read.
ListRefs(t) ==
    /\ pc[t] = "list"
    /\ ver' = [ver EXCEPT ![t] = ref]
    /\ pc' = [pc EXCEPT ![t] = "write"]
    /\ UNCHANGED <<gitVars, storeVars, base, want, todo, reload, jobVars, recordVars>>

\* WriteMetadata and WriteLocalMetadata up to their ref update.
WriteBegin(t) ==
    LET e == EngineOf[t]
    IN /\ pc[t] = "begin" /\ mu[e] = Free
       /\ \E r \in job[t].refs :
            /\ ver' = [ver EXCEPT ![t][r] = Expectation(e, r)]
            /\ Drop(e, IF Outdated(e, r) THEN {r} ELSE {})
            /\ saved' = [saved EXCEPT ![t] = refGen[e][r]]
       /\ mu' = [mu EXCEPT ![e] = t]
       /\ pc' = [pc EXCEPT ![t] = "write"]
       /\ UNCHANGED <<gitVars, refGen, gens, base, want, todo, reload, job, mark,
                      tries, recordVars>>

\* git has applied t's batch: bookkeeping of who moved what.
Landed(t) ==
    LET changed == {r \in Ref : ref'[r] # ref[r]}
    IN /\ landed' = [landed EXCEPT ![t] = @ \cup mark[t]]
       /\ moved' = [u \in Thread |-> IF u = t THEN moved[t] \ Written(t)
                                     ELSE moved[u] \cup changed]

\* UpdateRefs.
UpdateRefs(t) ==
    /\ pc[t] = "write" /\ Accepts(ref, Batch(t))
    /\ ref' = Applied(ref, Batch(t))
    /\ Landed(t)
    /\ pc' = [pc EXCEPT ![t] = "mark"]
    /\ UNCHANGED <<storeVars, readVars, jobVars, used, crashes>>

UpdateRefsRejected(t) ==
    /\ pc[t] = "write" /\ ~Accepts(ref, Batch(t))
    /\ moved' = [moved EXCEPT ![t] = IF job[t].op = "restack" THEN @
                                     ELSE @ \ job[t].refs]
    /\ pc' = [pc EXCEPT ![t] = "rejected"]
    /\ UNCHANGED <<gitVars, storeVars, readVars, jobVars, used, landed, crashes>>

\* DeleteMetadata takes the store's mutex and deletes the ref unconditionally.
DeleteMetadata(t) ==
    /\ pc[t] = "erase" /\ mu[EngineOf[t]] = Free
    /\ mu' = [mu EXCEPT ![EngineOf[t]] = t]
    /\ ref' = Applied(ref, Batch(t))
    /\ Landed(t)
    /\ pc' = [pc EXCEPT ![t] = "mark"]
    /\ UNCHANGED <<refGen, entry, known, gens, readVars, jobVars, used, crashes>>

\* markRefChanged, after git has returned.
MarkRefChanged(t) ==
    LET e == EngineOf[t]
    IN /\ pc[t] = "mark"
       /\ refGen' = [refGen EXCEPT ![e] = [r \in Ref |-> IF r \in Written(t)
                                                         THEN @[r] + 1 ELSE @[r]]]
       /\ want' = [want EXCEPT ![t] = IF job[t].op \in {"direct", "untrack"} THEN {}
                                      ELSE job[t].refs]
       /\ pc' = [pc EXCEPT ![t] = CASE job[t].op = "direct"  -> "store"
                                    [] job[t].op = "untrack" -> "forget"
                                    [] OTHER                 -> "record"]
       /\ UNCHANGED <<gitVars, entry, known, gens, mu, base, ver, todo, reload,
                      jobVars, recordVars>>

\* Mutant: the new version is paired with the value the operation had read.
CommittedMispaired(t, r) == Recorded(r, base[t][r], NewContent(t, r))

\* Mutant: what was read is recorded once more.
CommittedBefore(t, r) == Recorded(r, base[t][r], ver[t][r])

\* CommittedMetadata: what the operation left in the ref.
Committed(t, r) == IF r \in job[t].del THEN Recorded(r, {}, Absent)
                   ELSE Recorded(r, NewContent(t, r), NewContent(t, r))

\* RecordCommitted, one call per tier, shared first: the store adopts what the
\* engine wrote around it.  A deleted ref becomes known-absent.
RecordCommitted(t) ==
    LET e     == EngineOf[t]
        now   == IF want[t] \cap Shared # {} THEN want[t] \cap Shared ELSE want[t]
        gone  == now \cap job[t].del
    IN /\ pc[t] = "record" /\ mu[e] = Free
       /\ entry' = [entry EXCEPT ![e] = [r \in Ref |-> IF r \in now
                                                       THEN Committed(t, r) ELSE @[r]]]
       /\ known' = [known EXCEPT ![e] = (@ \ now) \cup gone]
       /\ gens' = [gens EXCEPT ![e] = [r \in Ref |-> IF r \in now
                                                     THEN refGen[e][r] ELSE @[r]]]
       /\ IF want[t] = now
          THEN Retire({t})
          ELSE /\ want' = [want EXCEPT ![t] = @ \ now]
               /\ UNCHANGED <<pc, base, ver, todo, reload, jobVars>>
       /\ UNCHANGED <<gitVars, refGen, mu, recordVars>>

\* The end of a standalone write that git accepted.
WriteDone(t) ==
    LET e == EngineOf[t]
    IN /\ pc[t] = "store"
       /\ \E r \in job[t].refs :
            LET new == NewContent(t, r)
            IN /\ entry' = [entry EXCEPT ![e][r] = Recorded(r, new, new)]
               /\ known' = [known EXCEPT ![e] = @ \ {r}]
               /\ gens' = [gens EXCEPT ![e][r] = saved[t] + 1]
       /\ mu' = [mu EXCEPT ![e] = Free]
       /\ Retire({t})
       /\ UNCHANGED <<gitVars, refGen, recordVars>>

\* The end of DeleteMetadata; UntrackBranch goes on to rebuild.
Forget(t) ==
    LET e == EngineOf[t]
    IN /\ pc[t] = "forget"
       /\ Drop(e, BranchRefs(job[t].refs))
       /\ mu' = [mu EXCEPT ![e] = Free]
       /\ pc' = [pc EXCEPT ![t] = "clear"]
       /\ UNCHANGED <<gitVars, refGen, gens, readVars, jobVars, recordVars>>

-----------------------------------------------------------------------------
(* Rejections, retries and rebuilds.                                       *)

\* Mutant: the transaction only returns the error.
StagedRefsKept(t) == {}

\* Both refs of every branch the transaction has staged.
StagedRefs(t) == BranchRefs(job[t].refs)

\* Commit failed: InvalidateMetadata on every branch staged, then WithRetry
\* rebuilds, or the caller gets the error.
TxRejected(t) ==
    LET e      == EngineOf[t]
        staged == StagedRefs(t)
    IN /\ pc[t] = "rejected" /\ job[t].op = "tx" /\ mu[e] = Free
       /\ Drop(e, staged)
       /\ gens' = [gens EXCEPT ![e] = [r \in Ref |-> IF r \in staged THEN 0 ELSE @[r]]]
       /\ IF job[t].retry
          THEN /\ pc' = [pc EXCEPT ![t] = "clear"]
               /\ tries' = [tries EXCEPT ![t] = @ + 1]
               /\ UNCHANGED <<readVars, job, mark, saved>>
          ELSE Retire({t})
       /\ UNCHANGED <<gitVars, refGen, mu, recordVars>>

\* A standalone write was rejected: both records of the branch are dropped and
\* the caller gets the error.
WriteRejected(t) ==
    LET e == EngineOf[t]
    IN /\ pc[t] = "rejected" /\ job[t].op = "direct"
       /\ Drop(e, BranchRefs(job[t].refs))
       /\ mu' = [mu EXCEPT ![e] = Free]
       /\ Retire({t})
       /\ UNCHANGED <<gitVars, refGen, gens, recordVars>>

\* A restack whose ref update failed returns the error and tells no one.
RestackRejected(t) ==
    /\ pc[t] = "rejected" /\ job[t].op = "restack"
    /\ Retire({t})
    /\ UNCHANGED <<gitVars, storeVars, recordVars>>

\* rebuild: ClearMetadataCache, then every branch is read again.
ClearMetadataCache(t) ==
    LET e == EngineOf[t]
    IN /\ pc[t] = "clear" /\ mu[e] = Free
       /\ Drop(e, Ref)
       /\ gens' = [gens EXCEPT ![e] = [r \in Ref |-> 0]]
       /\ want' = [want EXCEPT ![t] = Ref]
       /\ reload' = [reload EXCEPT ![t] = TRUE]
       /\ pc' = [pc EXCEPT ![t] = "read"]
       /\ UNCHANGED <<gitVars, refGen, mu, base, ver, todo, jobVars, recordVars>>

\* Mutant: the transaction is begun and read outside the retried function.
AttemptReadsNothing(t) == {}

\* Mutant: the retried function is handed the branches for the refs.
AttemptReadsBranches(t) == {r[2] : r \in job[t].refs}

\* What an attempt of the retried function reads.
AttemptReads(t) == job[t].refs

\* The rebuild is complete: WithRetry makes its next attempt, unless it has
\* none left.
Rebuilt(t) ==
    /\ pc[t] = "read" /\ want[t] = {} /\ reload[t]
    /\ IF job[t].op = "tx" /\ tries[t] < MaxRetries
       THEN /\ want' = [want EXCEPT ![t] = AttemptReads(t)]
            /\ reload' = [reload EXCEPT ![t] = FALSE]
            /\ UNCHANGED <<pc, base, ver, todo, jobVars>>
       ELSE Retire({t})
    /\ UNCHANGED <<gitVars, storeVars, recordVars>>

\* The process dies and is started again: git keeps its refs, the store
\* starts empty.
Restart(e) ==
    LET mine == {t \in Thread : EngineOf[t] = e}
    IN /\ crashes < MaxCrashes
       /\ crashes' = crashes + 1
       /\ refGen' = [refGen EXCEPT ![e] = [r \in Ref |-> 0]]
       /\ gens' = [gens EXCEPT ![e] = [r \in Ref |-> 0]]
       /\ Drop(e, Ref)
       /\ mu' = [mu EXCEPT ![e] = Free]
       /\ Retire(mine)
       /\ moved' = [t \in Thread |-> IF t \in mine THEN {} ELSE moved[t]]
       /\ UNCHANGED <<gitVars, used, landed>>

-----------------------------------------------------------------------------
Step(t) ==
    \/ ReadMetadata(t) \/ ReadLocalMetadata(t) \/ Fetch(t) \/ Prepared(t)
    \/ ListRefs(t) \/ WriteBegin(t) \/ UpdateRefs(t) \/ UpdateRefsRejected(t)
    \/ DeleteMetadata(t) \/ MarkRefChanged(t) \/ RecordCommitted(t)
    \/ WriteDone(t) \/ Forget(t) \/ TxRejected(t) \/ WriteRejected(t)
    \/ RestackRejected(t) \/ ClearMetadataCache(t) \/ Rebuilt(t)

\* Every operation allowed has been run; nothing more is asked for.
Finished ==
    /\ used = Mark /\ \A t \in Thread : pc[t] = "idle"
    /\ UNCHANGED vars

Next ==
    \/ \E t \in Thread : Start(t) \/ Step(t)
    \/ \E e \in Engine : Restart(e)
    \/ Finished

Spec == Init /\ [][Next]_vars

\* A goroutine that is inside an operation keeps running.  Starting an
\* operation and crashing are not owed to anyone.
FairSpec == Spec /\ \A t \in Thread : WF_vars(Step(t))
-----------------------------------------------------------------------------
(* Correctness.                                                            *)

\* git applies the write of t in this step.
Writes(t) == pc[t] \in {"write", "erase"} /\ pc'[t] = "mark"

\* The write of t finds in r exactly what the operation has read there.
Saw(t, r) == base[t][r] = ContentOf(ref[r])

\* A committed transaction has replaced precisely what it had read, whichever
\* mixture of cache hits, own earlier writes and reads from git that was: the
\* version the cache hands out is never that of another value.
CommitReplacesWhatItRead ==
    [][\A t \in Thread : Writes(t) /\ job[t].op = "tx"
           => \A r \in Written(t) : Saw(t, r)]_vars

\* What one engine records in a ref, another drops only by a write that is
\* unconditional by design (untracking, a flag), by a restack, or by a
\* standalone write whose own read had found no ref.  (One thread per engine.)
UpdatesAreDroppedOnlyBlindly ==
    [][\A r \in Ref, t \in Thread :
           /\ Writes(t) /\ r \in Written(t) /\ ~Saw(t, r)
           /\ ~(ContentOf(ref[r]) \subseteq ContentOf(ref'[r]))
           => \/ job[t].op \in {"untrack", "flag", "restack"}
              \/ job[t].op = "direct" /\ ver[t][r] = Anything /\ base[t][r] = {}]_vars

\* While no other engine has moved a ref since this engine last wrote it or was
\* last rejected on it, what the store would answer from its cache and demand
\* in a write is what the ref holds: its own commits, deletions, flag writes
\* and restacks never leave a record behind that is trusted and out of date.
\* (One thread per engine, outside the steps that report a write.)
CacheFollowsOwnWrites ==
    \A t \in Thread, r \in Ref :
        LET record == entry[EngineOf[t]][r]
        IN /\ pc[t] \notin {"mark", "record", "store", "forget", "rejected"}
           /\ record # NoEntry /\ ~Outdated(EngineOf[t], r) /\ r \notin moved[t]
           => /\ record.sha = ref[r]
              /\ r \in Shared => record.val = ContentOf(ref[r])

\* A rejected write is always owed to somebody else: another engine has moved
\* one of its refs since this engine last wrote it or was last rejected on it.
\* The store never rejects an engine because of the engine's own writes, and
\* never twice for the same foreign change.  (One thread per engine.)
RejectionsAreOwedToOthers ==
    [][\A t \in Thread : pc[t] = "write" /\ pc'[t] = "rejected"
           => job[t].refs \cap moved[t] # {}]_vars

\* Where every operation is a transaction, the refs change as if operations ran
\* one at a time and each exactly once (AtomicMetadata).
Atomic == INSTANCE AtomicMetadata
              WITH content <- ref, applied <- UNION {landed[t] : t \in Thread}
TransactionsAreAtomic == Atomic!Spec

\* An operation under WithRetry is eventually accepted when the others that
\* run beside it are fewer than its attempts.
RetriesGetThrough ==
    \A t \in Thread, m \in Mark :
        (job[t].retry /\ mark[t] = {m}) ~> (m \in landed[t])
=============================================================================
