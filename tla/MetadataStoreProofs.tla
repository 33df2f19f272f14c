------------------------ MODULE MetadataStoreProofs ------------------------
(***************************************************************************)
(* Theorems about MetadataStore, for every set of engines, threads,        *)
(* branches, marks and operations: the types; that a committed transaction *)
(* replaces exactly what it has read; that transactions are atomic; and    *)
(* what an engine knows of its own writes.                                 *)
(***************************************************************************)
EXTENDS MetadataStore, TLAPS

\* The empty record is not a record of any version.
LEMMA NoEntryIsNoEntry == NoEntry \notin Entry
  BY ConstantsAssumption DEF NoEntry, Entry, Version

\* Dropping records keeps the cache's types.
LEMMA DropType ==
    ASSUME StoreTypeOK, NEW e \in Engine, NEW refs, Drop(e, refs)
    PROVE  /\ entry' \in [Engine -> [Ref -> {NoEntry} \cup Entry]]
           /\ known' \in [Engine -> SUBSET Ref]
  BY DEF StoreTypeOK, Drop

\* Ending operations keeps the types of their variables.
LEMMA RetireType ==
    ASSUME OperationTypeOK, NEW S, Retire(S)
    PROVE  OperationTypeOK'
  BY DEF OperationTypeOK, Retire, PC, Content, Demand

\* What the store records of a ref is an entry or the empty record.
LEMMA RecordedType ==
    ASSUME NEW r \in Ref, NEW val \in Content, NEW sha \in Version
    PROVE  Recorded(r, val, sha) \in {NoEntry} \cup Entry
  BY DEF Recorded, Entry, Content

\* What may be asked of the fields of an operation, NoJob included.
LEMMA JobType ==
    ASSUME NEW j \in Jobs \cup {NoJob}
    PROVE  /\ j.refs \subseteq Ref /\ j.del \subseteq j.refs /\ j.retry \in BOOLEAN
           /\ j.op \in {"tx", "direct", "flag", "restack", "untrack", "rebuild"}
  <1>1. CASE j \in Jobs
    <2>1. j \in Job /\ WellFormed(j)
      BY <1>1, ConstantsAssumption
    <2> QED
      BY <2>1 DEF Job, WellFormed
  <1>2. CASE j = NoJob
    BY <1>2 DEF NoJob
  <1> QED
    BY <1>1, <1>2

\* What an operation writes is a content, and what its batch leaves in a ref
\* is a version.
LEMMA WrittenType ==
    ASSUME TypeOK, NEW t \in Thread
    PROVE  /\ \A r \in Ref : NewContent(t, r) \in Content
           /\ Written(t) \subseteq Ref
           /\ Batch(t) = [r \in Written(t) |-> Batch(t)[r]]
           /\ \A r \in Written(t) : Result(Batch(t)[r]) \in Version
           /\ Applied(ref, Batch(t)) \in [Ref -> Version]
  <1>1. ASSUME NEW r \in Ref PROVE NewContent(t, r) \in Content
    BY <1>1 DEF TypeOK, OperationTypeOK, NewContent, Content
  <1>2. Written(t) \subseteq Ref
    BY JobType DEF TypeOK, OperationTypeOK, Written
  <1>3. DOMAIN Batch(t) = Written(t) /\ Batch(t) = [r \in Written(t) |-> Batch(t)[r]]
    BY DEF Batch
  <1>4. ASSUME NEW r \in Written(t) PROVE Result(Batch(t)[r]) \in Version
    <2>1. NewContent(t, r) \in Version
      BY <1>1, <1>2, <1>4 DEF Version
    <2>2. Absent \in Version
      BY DEF Version
    <2> QED
      BY <2>1, <2>2, <1>4 DEF Batch, Result, Swap, Put, Match, Delete, DeleteMatching, Update
  <1>5. Applied(ref, Batch(t)) \in [Ref -> Version]
    BY <1>3, <1>4 DEF Applied, TypeOK
  <1> QED
    BY <1>1, <1>2, <1>3, <1>4, <1>5

\* What a standalone write requires of its ref.
LEMMA ExpectationType ==
    ASSUME StoreTypeOK, NEW e \in Engine, NEW r \in Ref
    PROVE  Expectation(e, r) \in Demand
  <1>1. Anything \in Demand /\ Absent \in Demand
    BY DEF Demand, Version
  <1>2. entry[e][r].sha \in Demand
    <2>1. CASE entry[e][r] = NoEntry
      BY <1>1, <2>1 DEF NoEntry
    <2>2. CASE entry[e][r] \in Entry
      BY <2>2 DEF Entry, Demand
    <2> QED
      BY <2>1, <2>2 DEF StoreTypeOK
  <1> QED
    BY <1>1, <1>2 DEF Expectation

\* What the operation learns from a read has the types of its variables.
LEMMA LearnType ==
    ASSUME OperationTypeOK, NEW t \in Thread, NEW refs, NEW record,
           \A r \in refs : r \in Ref /\ record[r] \in Entry, Learn(t, refs, record)
    PROVE  base' \in [Thread -> [Ref -> Content]] /\ ver' \in [Thread -> [Ref -> Demand]]
  <1> DEFINE new == IF reload[t] THEN {} ELSE refs
  <1>1. \A r \in new : record[r].val \in Content /\ record[r].sha \in Demand
    BY DEF Entry, Demand
  <1> QED
    BY <1>1 DEF Learn, OperationTypeOK

\* What a transaction, flag write or restack reports is an entry or no entry.
LEMMA CommittedType ==
    ASSUME TypeOK, NEW t \in Thread
    PROVE  \A r \in Ref : Committed(t, r) \in {NoEntry} \cup Entry
  <1> SUFFICES ASSUME NEW r \in Ref PROVE Committed(t, r) \in {NoEntry} \cup Entry
    OBVIOUS
  <1>1. NewContent(t, r) \in Content /\ NewContent(t, r) \in Version /\ Absent \in Version
    BY WrittenType DEF Version
  <1>2. {} \in Content
    BY DEF Content
  <1> QED
    BY <1>1, <1>2, RecordedType DEF Committed

\* The bookkeeping of a landed write keeps its types.
LEMMA LandedType ==
    ASSUME TypeOK, NEW t \in Thread, Landed(t)
    PROVE  landed' \in [Thread -> SUBSET Mark] /\ moved' \in [Thread -> SUBSET Ref]
  BY DEF Landed, TypeOK, OperationTypeOK, RecordTypeOK

-----------------------------------------------------------------------------
\* Every step keeps the types.
LEMMA TypeStep == TypeOK /\ [Next]_vars => TypeOK'
  <1> SUFFICES ASSUME TypeOK, [Next]_vars PROVE TypeOK'
    OBVIOUS
  <1> USE DEF gitVars, storeVars, readVars, jobVars, recordVars
  <1>1. ASSUME NEW t \in Thread, Start(t) PROVE TypeOK'
    <2>1. PICK j \in Jobs, m \in Mark \ used :
            /\ job' = [job EXCEPT ![t] = j]
            /\ mark' = [mark EXCEPT ![t] = {m}]
            /\ used' = used \cup {m}
            /\ want' = [want EXCEPT ![t] = IF j.op = "untrack" THEN {} ELSE j.refs]
            /\ pc' = [pc EXCEPT ![t] = CASE j.op = "untrack" -> "erase"
                                         [] j.op = "rebuild" -> "clear"
                                         [] OTHER -> "read"]
      BY <1>1 DEF Start
    <2>2. j.refs \subseteq Ref
      BY JobType
    <2>3. OperationTypeOK'
      BY <1>1, <2>1, <2>2 DEF Start, TypeOK, OperationTypeOK, PC
    <2> QED
      BY <1>1, <2>1, <2>3 DEF Start, TypeOK, StoreTypeOK, RecordTypeOK
  <1>2. ASSUME NEW t \in Thread, ReadMetadata(t) PROVE TypeOK'
    <2> DEFINE e == EngineOf[t]
               asked == want[t] \cap Shared
               stale == {r \in asked : Outdated(e, r)}
               hits == {r \in asked \ stale : entry[e][r] # NoEntry}
    <2>1. e \in Engine
      BY ConstantsAssumption
    <2>2. Drop(e, stale) /\ Learn(t, hits, [r \in hits |-> entry[e][r]])
      BY <1>2 DEF ReadMetadata
    <2>3. entry' \in [Engine -> [Ref -> {NoEntry} \cup Entry]] /\ known' \in [Engine -> SUBSET Ref]
      BY <2>1, <2>2, DropType DEF TypeOK
    <2>4. \A r \in hits : r \in Ref /\ entry[e][r] \in Entry
      BY <2>1 DEF TypeOK, StoreTypeOK, OperationTypeOK
    <2>5. base' \in [Thread -> [Ref -> Content]] /\ ver' \in [Thread -> [Ref -> Demand]]
      BY <2>2, <2>4, LearnType DEF TypeOK
    <2>6. gens' \in [Engine -> [Ref -> Nat]] /\ mu' \in [Engine -> Thread \cup {Free}]
      BY <1>2, <2>1 DEF ReadMetadata, TypeOK, StoreTypeOK
    <2>7. want' \in [Thread -> SUBSET Ref] /\ todo' \in [Thread -> SUBSET Ref] /\ pc' \in [Thread -> PC]
      BY <1>2 DEF ReadMetadata, TypeOK, OperationTypeOK, PC
    <2> QED
      BY <1>2, <2>3, <2>5, <2>6, <2>7 DEF ReadMetadata, TypeOK, StoreTypeOK, OperationTypeOK, RecordTypeOK
  <1>3. ASSUME NEW t \in Thread, ReadLocalMetadata(t) PROVE TypeOK'
    <2>1. EngineOf[t] \in Engine
      BY ConstantsAssumption
    <2>2. gens' \in [Engine -> [Ref -> Nat]] /\ mu' \in [Engine -> Thread \cup {Free}]
      BY <1>3, <2>1 DEF ReadLocalMetadata, TypeOK, StoreTypeOK
    <2>3. want' \in [Thread -> SUBSET Ref] /\ todo' \in [Thread -> SUBSET Ref] /\ pc' \in [Thread -> PC]
      BY <1>3 DEF ReadLocalMetadata, TypeOK, OperationTypeOK, PC
    <2> QED
      BY <1>3, <2>2, <2>3 DEF ReadLocalMetadata, TypeOK, StoreTypeOK, OperationTypeOK, RecordTypeOK
  <1>4. ASSUME NEW t \in Thread, Fetch(t) PROVE TypeOK'
    <2> DEFINE e == EngineOf[t]
    <2>1. e \in Engine
      BY ConstantsAssumption
    <2>2. PICK r \in todo[t] :
            /\ Learn(t, {r}, [q \in {r} |-> [val |-> ContentOf(ref[r]), sha |-> ref[r]]])
            /\ entry' = [entry EXCEPT ![e][r] = Recorded(r, ContentOf(ref[r]), ref[r])]
            /\ known' = [known EXCEPT ![e] = @ \ {r}]
            /\ todo' = [todo EXCEPT ![t] = @ \ {r}]
            /\ pc' = [pc EXCEPT ![t] = IF todo[t] = {r} THEN "read" ELSE "fetch"]
            /\ mu' = [mu EXCEPT ![e] = IF todo[t] = {r} THEN Free ELSE @]
      BY <1>4 DEF Fetch
    <2>3. r \in Ref /\ ref[r] \in Version /\ ContentOf(ref[r]) \in Content
      BY DEF TypeOK, OperationTypeOK, ContentOf, Version, Content
    <2>4. Recorded(r, ContentOf(ref[r]), ref[r]) \in {NoEntry} \cup Entry
      BY <2>3, RecordedType
    <2>5. base' \in [Thread -> [Ref -> Content]] /\ ver' \in [Thread -> [Ref -> Demand]]
      <3> DEFINE record == [q \in {r} |-> [val |-> ContentOf(ref[r]), sha |-> ref[r]]]
      <3>1. \A q \in {r} : q \in Ref /\ record[q] \in Entry
        BY <2>3 DEF Entry
      <3> QED
        BY <2>2, <3>1, LearnType DEF TypeOK
    <2>6. StoreTypeOK'
      BY <1>4, <2>1, <2>2, <2>3, <2>4 DEF Fetch, TypeOK, StoreTypeOK
    <2>7. OperationTypeOK'
      BY <1>4, <2>2, <2>5 DEF Fetch, TypeOK, OperationTypeOK, PC
    <2> QED
      BY <1>4, <2>6, <2>7 DEF Fetch, TypeOK, RecordTypeOK
  <1>5. ASSUME NEW t \in Thread, Prepared(t) PROVE TypeOK'
    BY <1>5 DEF Prepared, TypeOK, StoreTypeOK, OperationTypeOK, RecordTypeOK, PC
  <1>6. ASSUME NEW t \in Thread, ListRefs(t) PROVE TypeOK'
    BY <1>6 DEF ListRefs, TypeOK, StoreTypeOK, OperationTypeOK, RecordTypeOK, PC, Demand
  <1>7. ASSUME NEW t \in Thread, WriteBegin(t) PROVE TypeOK'
    <2> DEFINE e == EngineOf[t]
    <2>1. e \in Engine
      BY ConstantsAssumption
    <2>2. PICK r \in job[t].refs :
            /\ ver' = [ver EXCEPT ![t][r] = Expectation(e, r)]
            /\ Drop(e, IF Outdated(e, r) THEN {r} ELSE {})
            /\ saved' = [saved EXCEPT ![t] = refGen[e][r]]
      BY <1>7 DEF WriteBegin
    <2>3. r \in Ref
      BY JobType DEF TypeOK, OperationTypeOK
    <2>4. Expectation(e, r) \in Demand
      BY <2>1, <2>3, ExpectationType DEF TypeOK
    <2>5. entry' \in [Engine -> [Ref -> {NoEntry} \cup Entry]] /\ known' \in [Engine -> SUBSET Ref]
      BY <2>1, <2>2, DropType DEF TypeOK
    <2>6. saved' \in [Thread -> Nat] /\ ver' \in [Thread -> [Ref -> Demand]]
      BY <2>1, <2>2, <2>3, <2>4 DEF TypeOK, StoreTypeOK, OperationTypeOK
    <2>7. mu' \in [Engine -> Thread \cup {Free}] /\ pc' \in [Thread -> PC]
      BY <1>7, <2>1 DEF WriteBegin, TypeOK, StoreTypeOK, OperationTypeOK, PC
    <2> QED
      BY <1>7, <2>5, <2>6, <2>7 DEF WriteBegin, TypeOK, StoreTypeOK, OperationTypeOK, RecordTypeOK
  <1>8. ASSUME NEW t \in Thread, UpdateRefs(t) PROVE TypeOK'
    <2>1. ref' \in [Ref -> Version]
      BY <1>8, WrittenType DEF UpdateRefs
    <2>2. landed' \in [Thread -> SUBSET Mark] /\ moved' \in [Thread -> SUBSET Ref]
      BY <1>8, LandedType DEF UpdateRefs
    <2> QED
      BY <1>8, <2>1, <2>2 DEF UpdateRefs, TypeOK, StoreTypeOK, OperationTypeOK, RecordTypeOK, PC
  <1>9. ASSUME NEW t \in Thread, UpdateRefsRejected(t) PROVE TypeOK'
    BY <1>9 DEF UpdateRefsRejected, TypeOK, StoreTypeOK, OperationTypeOK, RecordTypeOK, PC
  <1>10. ASSUME NEW t \in Thread, DeleteMetadata(t) PROVE TypeOK'
    <2>1. ref' \in [Ref -> Version]
      BY <1>10, WrittenType DEF DeleteMetadata
    <2>2. landed' \in [Thread -> SUBSET Mark] /\ moved' \in [Thread -> SUBSET Ref]
      BY <1>10, LandedType DEF DeleteMetadata
    <2>3. mu' \in [Engine -> Thread \cup {Free}]
      BY <1>10, ConstantsAssumption DEF DeleteMetadata, TypeOK, StoreTypeOK
    <2> QED
      BY <1>10, <2>1, <2>2, <2>3 DEF DeleteMetadata, TypeOK, StoreTypeOK, OperationTypeOK, RecordTypeOK, PC
  <1>11. ASSUME NEW t \in Thread, MarkRefChanged(t) PROVE TypeOK'
    <2>1. EngineOf[t] \in Engine
      BY ConstantsAssumption
    <2>2. refGen' \in [Engine -> [Ref -> Nat]]
      BY <1>11, <2>1 DEF MarkRefChanged, TypeOK, StoreTypeOK
    <2>3. job[t].refs \subseteq Ref
      BY JobType DEF TypeOK, OperationTypeOK
    <2>4. want' \in [Thread -> SUBSET Ref] /\ pc' \in [Thread -> PC]
      BY <1>11, <2>3 DEF MarkRefChanged, TypeOK, OperationTypeOK, PC
    <2> QED
      BY <1>11, <2>2, <2>4 DEF MarkRefChanged, TypeOK, StoreTypeOK, OperationTypeOK, RecordTypeOK
  <1>12. ASSUME NEW t \in Thread, RecordCommitted(t) PROVE TypeOK'
    <2> DEFINE e == EngineOf[t]
               now == IF want[t] \cap Shared # {} THEN want[t] \cap Shared ELSE want[t]
               gone == now \cap job[t].del
    <2>1. e \in Engine
      BY ConstantsAssumption
    <2>2. now \subseteq Ref
      BY DEF TypeOK, OperationTypeOK
    <2>3. \A r \in Ref : Committed(t, r) \in {NoEntry} \cup Entry
      BY CommittedType
    <2>4. StoreTypeOK'
      <3>1. entry' \in [Engine -> [Ref -> {NoEntry} \cup Entry]]
        BY <1>12, <2>1, <2>2, <2>3 DEF RecordCommitted, TypeOK, StoreTypeOK
      <3>2. known' \in [Engine -> SUBSET Ref]
        BY <1>12, <2>1, <2>2 DEF RecordCommitted, TypeOK, StoreTypeOK
      <3>3. gens' \in [Engine -> [Ref -> Nat]]
        BY <1>12, <2>1, <2>2 DEF RecordCommitted, TypeOK, StoreTypeOK
      <3> QED
        BY <1>12, <3>1, <3>2, <3>3 DEF RecordCommitted, TypeOK, StoreTypeOK
    <2>5. OperationTypeOK'
      <3>1. CASE want[t] = now
        <4>1. Retire({t})
          BY <1>12, <3>1 DEF RecordCommitted
        <4> QED
          BY <4>1, RetireType DEF TypeOK
      <3>2. CASE want[t] # now
        <4>1. /\ want' = [want EXCEPT ![t] = @ \ now]
              /\ UNCHANGED <<pc, base, ver, todo, reload, jobVars>>
          BY <1>12, <3>2 DEF RecordCommitted
        <4> QED
          BY <4>1 DEF TypeOK, OperationTypeOK
      <3> QED
        BY <3>1, <3>2
    <2> QED
      BY <1>12, <2>4, <2>5 DEF RecordCommitted, TypeOK, RecordTypeOK
  <1>13. ASSUME NEW t \in Thread, WriteDone(t) PROVE TypeOK'
    <2> DEFINE e == EngineOf[t]
    <2>1. e \in Engine
      BY ConstantsAssumption
    <2>2. PICK r \in job[t].refs :
            /\ entry' = [entry EXCEPT ![e][r] = Recorded(r, NewContent(t, r), NewContent(t, r))]
            /\ known' = [known EXCEPT ![e] = @ \ {r}]
            /\ gens' = [gens EXCEPT ![e][r] = saved[t] + 1]
      BY <1>13 DEF WriteDone
    <2>3. r \in Ref
      BY JobType DEF TypeOK, OperationTypeOK
    <2>4. Recorded(r, NewContent(t, r), NewContent(t, r)) \in {NoEntry} \cup Entry
      BY <2>3, WrittenType, RecordedType DEF Version
    <2>5. StoreTypeOK'
      <3>1. entry' \in [Engine -> [Ref -> {NoEntry} \cup Entry]]
        BY <2>1, <2>2, <2>3, <2>4 DEF TypeOK, StoreTypeOK
      <3>2. known' \in [Engine -> SUBSET Ref]
        BY <2>1, <2>2 DEF TypeOK, StoreTypeOK
      <3>3. gens' \in [Engine -> [Ref -> Nat]]
        BY <2>1, <2>2, <2>3 DEF TypeOK, StoreTypeOK, OperationTypeOK
      <3>4. mu' \in [Engine -> Thread \cup {Free}] /\ refGen' = refGen
        BY <1>13, <2>1 DEF WriteDone, TypeOK, StoreTypeOK
      <3> QED
        BY <3>1, <3>2, <3>3, <3>4 DEF TypeOK, StoreTypeOK
    <2>6. OperationTypeOK'
      <3>1. Retire({t})
        BY <1>13 DEF WriteDone
      <3> QED
        BY <3>1, RetireType DEF TypeOK
    <2> QED
      BY <1>13, <2>5, <2>6 DEF WriteDone, TypeOK, RecordTypeOK
  <1>14. ASSUME NEW t \in Thread, Forget(t) PROVE TypeOK'
    <2>1. EngineOf[t] \in Engine
      BY ConstantsAssumption
    <2>2. entry' \in [Engine -> [Ref -> {NoEntry} \cup Entry]] /\ known' \in [Engine -> SUBSET Ref]
      BY <1>14, <2>1, DropType DEF Forget, TypeOK
    <2> QED
      BY <1>14, <2>1, <2>2 DEF Forget, TypeOK, StoreTypeOK, OperationTypeOK, RecordTypeOK, PC
  <1>15. ASSUME NEW t \in Thread, TxRejected(t) PROVE TypeOK'
    <2>1. EngineOf[t] \in Engine
      BY ConstantsAssumption
    <2>2. entry' \in [Engine -> [Ref -> {NoEntry} \cup Entry]] /\ known' \in [Engine -> SUBSET Ref]
      BY <1>15, <2>1, DropType DEF TxRejected, TypeOK
    <2>3. gens' \in [Engine -> [Ref -> Nat]]
      BY <1>15, <2>1 DEF TxRejected, TypeOK, StoreTypeOK
    <2>4. OperationTypeOK'
      <3>1. CASE job[t].retry
        <4>1. /\ pc' = [pc EXCEPT ![t] = "clear"]
              /\ tries' = [tries EXCEPT ![t] = @ + 1]
              /\ UNCHANGED <<readVars, job, mark, saved>>
          BY <1>15, <3>1 DEF TxRejected
        <4> QED
          BY <4>1 DEF TypeOK, OperationTypeOK, PC
      <3>2. CASE ~job[t].retry
        <4>1. Retire({t})
          BY <1>15, <3>2 DEF TxRejected
        <4> QED
          BY <4>1, RetireType DEF TypeOK
      <3> QED
        BY <3>1, <3>2
    <2> QED
      BY <1>15, <2>2, <2>3, <2>4 DEF TxRejected, TypeOK, StoreTypeOK, RecordTypeOK
  <1>16. ASSUME NEW t \in Thread, WriteRejected(t) PROVE TypeOK'
    <2>1. EngineOf[t] \in Engine
      BY ConstantsAssumption
    <2>2. entry' \in [Engine -> [Ref -> {NoEntry} \cup Entry]] /\ known' \in [Engine -> SUBSET Ref]
      BY <1>16, <2>1, DropType DEF WriteRejected, TypeOK
    <2>3. OperationTypeOK'
      <3>1. Retire({t})
        BY <1>16 DEF WriteRejected
      <3> QED
        BY <3>1, RetireType DEF TypeOK
    <2> QED
      BY <1>16, <2>1, <2>2, <2>3 DEF WriteRejected, TypeOK, StoreTypeOK, RecordTypeOK
  <1>17. ASSUME NEW t \in Thread, RestackRejected(t) PROVE TypeOK'
    <2>1. OperationTypeOK'
      <3>1. Retire({t})
        BY <1>17 DEF RestackRejected
      <3> QED
        BY <3>1, RetireType DEF TypeOK
    <2> QED
      BY <1>17, <2>1 DEF RestackRejected, TypeOK, StoreTypeOK, RecordTypeOK
  <1>18. ASSUME NEW t \in Thread, ClearMetadataCache(t) PROVE TypeOK'
    <2>1. EngineOf[t] \in Engine
      BY ConstantsAssumption
    <2>2. entry' \in [Engine -> [Ref -> {NoEntry} \cup Entry]] /\ known' \in [Engine -> SUBSET Ref]
      BY <1>18, <2>1, DropType DEF ClearMetadataCache, TypeOK
    <2> QED
      BY <1>18, <2>1, <2>2 DEF ClearMetadataCache, TypeOK, StoreTypeOK, OperationTypeOK, RecordTypeOK, PC
  <1>19. ASSUME NEW t \in Thread, Rebuilt(t) PROVE TypeOK'
    <2>1. AttemptReads(t) \subseteq Ref
      BY JobType DEF AttemptReads, TypeOK, OperationTypeOK
    <2>2. OperationTypeOK'
      <3>1. CASE job[t].op = "tx" /\ tries[t] < MaxRetries
        <4>1. /\ want' = [want EXCEPT ![t] = AttemptReads(t)]
              /\ reload' = [reload EXCEPT ![t] = FALSE]
              /\ UNCHANGED <<pc, base, ver, todo, jobVars>>
          BY <1>19, <3>1 DEF Rebuilt
        <4> QED
          BY <2>1, <4>1 DEF TypeOK, OperationTypeOK
      <3>2. CASE ~(job[t].op = "tx" /\ tries[t] < MaxRetries)
        <4>1. Retire({t})
          BY <1>19, <3>2 DEF Rebuilt
        <4> QED
          BY <4>1, RetireType DEF TypeOK
      <3> QED
        BY <3>1, <3>2
    <2> QED
      BY <1>19, <2>2 DEF Rebuilt, TypeOK, StoreTypeOK, RecordTypeOK
  <1>20. ASSUME NEW e \in Engine, Restart(e) PROVE TypeOK'
    <2>1. entry' \in [Engine -> [Ref -> {NoEntry} \cup Entry]] /\ known' \in [Engine -> SUBSET Ref]
      BY <1>20, DropType DEF Restart, TypeOK
    <2>2. OperationTypeOK'
      <3>1. Retire({t \in Thread : EngineOf[t] = e})
        BY <1>20 DEF Restart
      <3> QED
        BY <3>1, RetireType DEF TypeOK
    <2> QED
      <3>1. /\ refGen' \in [Engine -> [Ref -> Nat]] /\ gens' \in [Engine -> [Ref -> Nat]]
            /\ mu' \in [Engine -> Thread \cup {Free}]
        BY <1>20 DEF Restart, TypeOK, StoreTypeOK
      <3>2. RecordTypeOK' /\ ref' = ref
        BY <1>20 DEF Restart, TypeOK, RecordTypeOK
      <3> QED
        BY <2>1, <2>2, <3>1, <3>2 DEF TypeOK, StoreTypeOK
  <1>21. CASE Finished \/ UNCHANGED vars
    BY <1>21 DEF Finished, vars, TypeOK, StoreTypeOK, OperationTypeOK, RecordTypeOK
  <1> QED
    BY <1>1, <1>2, <1>3, <1>4, <1>5, <1>6, <1>7, <1>8, <1>9, <1>10, <1>11, <1>12,
       <1>13, <1>14, <1>15, <1>16, <1>17, <1>18, <1>19, <1>20, <1>21 DEF Next, Step

\* Every variable keeps its type, the versions and generations of the store
\* and the reads of every operation included.
THEOREM TypeCorrect == Spec => []TypeOK
  <1>1. Init => TypeOK
    BY DEF Init, TypeOK, StoreTypeOK, OperationTypeOK, RecordTypeOK, PC, Content,
           Version, Demand
  <1> QED
    BY <1>1, TypeStep, PTL DEF Spec

-----------------------------------------------------------------------------
(* CommitReplacesWhatItRead is not inductive: that git accepts the versions a *)
(* transaction demands says nothing of the values unless the two were paired  *)
(* all along, in the cache and in what the transaction has read.              *)

\* A cached value is the content of the version it is cached with.
CachePaired ==
    \A e \in Engine, r \in Shared :
        entry[e][r] # NoEntry => /\ entry[e][r].sha \in Version
                                 /\ entry[e][r].val = ContentOf(entry[e][r].sha)

\* A transaction's reads, as far as they have got, are paired likewise.
ReadsPaired ==
    \A t \in Thread :
        job[t].op = "tx" /\ pc[t] \in {"read", "fetch", "write"} /\ ~reload[t]
        => \A r \in job[t].refs \ (want[t] \cup todo[t]) :
               ver[t][r] \in Version /\ base[t][r] = ContentOf(ver[t][r])

\* Misses are outstanding only while they are fetched, a transaction writes
\* only what it has completely read, and the steps of the other operations are
\* theirs alone.
StagesInOrder ==
    \A t \in Thread :
        /\ pc[t] # "fetch" => todo[t] = {}
        /\ pc[t] = "write" /\ job[t].op = "tx" => want[t] = {} /\ ~reload[t]
        /\ pc[t] = "list"  => job[t].op = "restack"
        /\ pc[t] = "begin" => job[t].op = "direct"
        /\ pc[t] = "erase" => job[t].op = "untrack"

Paired == TypeOK /\ CachePaired /\ ReadsPaired /\ StagesInOrder

\* Threads work on engines.
LEMMA EngineOfType == \A t \in Thread : EngineOf[t] \in Engine
  BY ConstantsAssumption

\* Dropping records leaves the others paired.
LEMMA DropPaired ==
    ASSUME StoreTypeOK, CachePaired, NEW e \in Engine, NEW refs, Drop(e, refs)
    PROVE  CachePaired'
  <1> SUFFICES ASSUME NEW f \in Engine, NEW r \in Shared, entry'[f][r] # NoEntry
               PROVE  entry'[f][r] = entry[f][r]
    BY DEF CachePaired
  <1>1. r \in Ref
    BY DEF Ref
  <1> QED
    BY <1>1 DEF Drop, StoreTypeOK

\* Operations that end have nothing left to pair or to order.
LEMMA RetirePaired ==
    ASSUME OperationTypeOK, ReadsPaired, StagesInOrder, NEW S, Retire(S)
    PROVE  ReadsPaired' /\ StagesInOrder'
  <1>1. \A t \in Thread : /\ t \in S => job'[t].op = "rebuild" /\ pc'[t] = "idle" /\ todo'[t] = {}
                          /\ t \notin S => /\ job'[t] = job[t] /\ pc'[t] = pc[t]
                                           /\ todo'[t] = todo[t] /\ want'[t] = want[t]
                                           /\ reload'[t] = reload[t]
                                           /\ base'[t] = base[t] /\ ver'[t] = ver[t]
    BY DEF Retire, NoJob
  <1>2. ReadsPaired'
    BY <1>1 DEF ReadsPaired
  <1>3. StagesInOrder'
    BY <1>1 DEF StagesInOrder
  <1> QED
    BY <1>2, <1>3

\* A recorded value belongs to the version recorded with it.
LEMMA CommittedPaired ==
    ASSUME TypeOK, NEW t \in Thread, NEW r \in Shared
    PROVE  /\ Committed(t, r).sha \in Version
           /\ Committed(t, r).val = ContentOf(Committed(t, r).sha)
  <1>1. r \in Ref
    BY DEF Ref
  <1>2. NewContent(t, r) \in Content
    BY <1>1, WrittenType
  <1>3. NewContent(t, r) # Absent
    BY <1>2, ConstantsAssumption
  <1> QED
    BY <1>2, <1>3 DEF Committed, Recorded, ContentOf, Version

\* The cache stays paired.
LEMMA CachePairedStep == Paired /\ [Next]_vars => CachePaired'
  <1> SUFFICES ASSUME Paired, [Next]_vars PROVE CachePaired'
    OBVIOUS
  <1> USE DEF gitVars, storeVars, readVars, jobVars, recordVars
  <1>1. TypeOK /\ StoreTypeOK /\ CachePaired
    BY DEF Paired, TypeOK
  <1>2. ASSUME entry' = entry PROVE CachePaired'
    BY <1>1, <1>2 DEF CachePaired
  <1>3. ASSUME NEW t \in Thread,
               \/ Start(t) \/ ReadLocalMetadata(t) \/ Prepared(t) \/ ListRefs(t)
               \/ UpdateRefs(t) \/ UpdateRefsRejected(t) \/ DeleteMetadata(t)
               \/ MarkRefChanged(t) \/ RestackRejected(t) \/ Rebuilt(t)
        PROVE  CachePaired'
    <2>1. entry' = entry
      BY <1>3 DEF Start, ReadLocalMetadata, Prepared, ListRefs, UpdateRefs,
                  UpdateRefsRejected, DeleteMetadata, MarkRefChanged, RestackRejected, Rebuilt
    <2> QED
      BY <2>1, <1>2
  <1>4. ASSUME NEW t \in Thread,
               \/ ReadMetadata(t) \/ WriteBegin(t) \/ Forget(t) \/ TxRejected(t)
               \/ WriteRejected(t) \/ ClearMetadataCache(t)
        PROVE  CachePaired'
    <2>1. \E refs : Drop(EngineOf[t], refs)
      BY <1>4 DEF ReadMetadata, WriteBegin, Forget, TxRejected, WriteRejected, ClearMetadataCache
    <2> QED
      BY <2>1, <1>1, DropPaired, EngineOfType
  <1>5. ASSUME NEW t \in Thread, Fetch(t) PROVE CachePaired'
    <2> DEFINE e == EngineOf[t]
    <2>1. PICK q \in todo[t] :
             entry' = [entry EXCEPT ![e][q] = Recorded(q, ContentOf(ref[q]), ref[q])]
      BY <1>5 DEF Fetch
    <2>2. q \in Ref /\ ref[q] \in Version /\ e \in Engine
      BY <1>1, EngineOfType DEF TypeOK, OperationTypeOK
    <2>3. q \in Shared => Recorded(q, ContentOf(ref[q]), ref[q]) = [val |-> ContentOf(ref[q]), sha |-> ref[q]]
      BY DEF Recorded
    <2> SUFFICES ASSUME NEW f \in Engine, NEW r \in Shared, entry'[f][r] # NoEntry
                 PROVE  /\ entry'[f][r].sha \in Version
                        /\ entry'[f][r].val = ContentOf(entry'[f][r].sha)
      BY DEF CachePaired
    <2>4. r \in Ref
      BY DEF Ref
    <2>5. CASE f = e /\ r = q
      <3>1. entry'[f][r] = [val |-> ContentOf(ref[q]), sha |-> ref[q]]
        BY <1>1, <2>1, <2>2, <2>3, <2>5 DEF StoreTypeOK
      <3> QED
        BY <3>1, <2>2
    <2>6. CASE ~(f = e /\ r = q)
      <3>1. entry'[f][r] = entry[f][r]
        BY <1>1, <2>1, <2>2, <2>4, <2>6 DEF StoreTypeOK
      <3> QED
        BY <1>1, <3>1 DEF CachePaired
    <2> QED
      BY <2>5, <2>6
  <1>6. ASSUME NEW t \in Thread, RecordCommitted(t) PROVE CachePaired'
    <2> DEFINE now == IF want[t] \cap Shared # {} THEN want[t] \cap Shared ELSE want[t]
    <2>1. entry' = [entry EXCEPT ![EngineOf[t]] =
                       [r \in Ref |-> IF r \in now THEN Committed(t, r) ELSE @[r]]]
      BY <1>6 DEF RecordCommitted
    <2> SUFFICES ASSUME NEW f \in Engine, NEW r \in Shared, entry'[f][r] # NoEntry
                 PROVE  /\ entry'[f][r].sha \in Version
                        /\ entry'[f][r].val = ContentOf(entry'[f][r].sha)
      BY DEF CachePaired
    <2>2. r \in Ref
      BY DEF Ref
    <2>3. entry'[f][r] \in {entry[f][r], Committed(t, r)}
      BY <1>1, <2>1, <2>2 DEF StoreTypeOK
    <2> QED
      BY <1>1, <2>3, CommittedPaired DEF CachePaired
  <1>7. ASSUME NEW t \in Thread, WriteDone(t) PROVE CachePaired'
    <2> DEFINE e == EngineOf[t]
    <2>1. PICK q \in job[t].refs :
             entry' = [entry EXCEPT ![e][q] = Recorded(q, NewContent(t, q), NewContent(t, q))]
      BY <1>7 DEF WriteDone
    <2>2. q \in Ref /\ e \in Engine
      BY <1>1, JobType, EngineOfType DEF TypeOK, OperationTypeOK
    <2>3. NewContent(t, q) \in Content /\ NewContent(t, q) \in Version /\ NewContent(t, q) # Absent
      BY <1>1, <2>2, WrittenType, ConstantsAssumption DEF Version
    <2>4. q \in Shared => Recorded(q, NewContent(t, q), NewContent(t, q))
                             = [val |-> NewContent(t, q), sha |-> NewContent(t, q)]
      BY DEF Recorded
    <2> SUFFICES ASSUME NEW f \in Engine, NEW r \in Shared, entry'[f][r] # NoEntry
                 PROVE  /\ entry'[f][r].sha \in Version
                        /\ entry'[f][r].val = ContentOf(entry'[f][r].sha)
      BY DEF CachePaired
    <2>5. r \in Ref
      BY DEF Ref
    <2>6. CASE f = e /\ r = q
      <3>1. entry'[f][r] = [val |-> NewContent(t, q), sha |-> NewContent(t, q)]
        BY <1>1, <2>1, <2>2, <2>4, <2>6 DEF StoreTypeOK
      <3> QED
        BY <3>1, <2>3 DEF ContentOf
    <2>7. CASE ~(f = e /\ r = q)
      <3>1. entry'[f][r] = entry[f][r]
        BY <1>1, <2>1, <2>2, <2>5, <2>7 DEF StoreTypeOK
      <3> QED
        BY <1>1, <3>1 DEF CachePaired
    <2> QED
      BY <2>6, <2>7
  <1>8. ASSUME NEW e \in Engine, Restart(e) PROVE CachePaired'
    <2>1. Drop(e, Ref)
      BY <1>8 DEF Restart
    <2> QED
      BY <2>1, <1>1, DropPaired
  <1>9. CASE Finished \/ UNCHANGED vars
    BY <1>2, <1>9 DEF Finished, vars
  <1> QED
    BY <1>3, <1>4, <1>5, <1>6, <1>7, <1>8, <1>9 DEF Next, Step

\* The variables of an operation that the pairing of its reads depends on.
SameOperation(u) ==
    /\ job'[u] = job[u] /\ pc'[u] = pc[u] /\ reload'[u] = reload[u]
    /\ want'[u] = want[u] /\ todo'[u] = todo[u] /\ base'[u] = base[u] /\ ver'[u] = ver[u]

\* A step of one thread leaves the operations of the others alone.
LEMMA OthersUndisturbed ==
    ASSUME TypeOK, NEW t \in Thread, Start(t) \/ Step(t), NEW u \in Thread, u # t
    PROVE  SameOperation(u)
  <1> USE DEF gitVars, storeVars, readVars, jobVars, recordVars
  <1>1. OperationTypeOK
    BY DEF TypeOK
  <1>2. CASE Start(t)
    BY <1>1, <1>2 DEF Start, SameOperation, OperationTypeOK
  <1>3. CASE ReadMetadata(t)
    BY <1>1, <1>3 DEF ReadMetadata, Learn, SameOperation, OperationTypeOK
  <1>4. CASE ReadLocalMetadata(t)
    BY <1>1, <1>4 DEF ReadLocalMetadata, SameOperation, OperationTypeOK
  <1>5. CASE Fetch(t)
    BY <1>1, <1>5 DEF Fetch, Learn, SameOperation, OperationTypeOK
  <1>6. CASE Prepared(t) \/ ListRefs(t) \/ UpdateRefs(t) \/ UpdateRefsRejected(t) \/ DeleteMetadata(t)
    BY <1>1, <1>6 DEF Prepared, ListRefs, UpdateRefs, UpdateRefsRejected, DeleteMetadata,
                      SameOperation, OperationTypeOK
  <1>7. CASE WriteBegin(t)
    BY <1>1, <1>7 DEF WriteBegin, SameOperation, OperationTypeOK
  <1>8. CASE MarkRefChanged(t) \/ Forget(t) \/ ClearMetadataCache(t)
    BY <1>1, <1>8 DEF MarkRefChanged, Forget, ClearMetadataCache, SameOperation, OperationTypeOK
  <1>9. CASE Retire({t})
    BY <1>9 DEF Retire, SameOperation
  <1>10. CASE RecordCommitted(t)
    <2> DEFINE now == IF want[t] \cap Shared # {} THEN want[t] \cap Shared ELSE want[t]
    <2>1. CASE want[t] # now
      <3>1. /\ want' = [want EXCEPT ![t] = @ \ now]
            /\ UNCHANGED <<pc, base, ver, todo, reload, jobVars>>
        BY <1>10, <2>1 DEF RecordCommitted
      <3> QED
        BY <1>1, <3>1 DEF SameOperation, OperationTypeOK
    <2>2. want[t] = now => Retire({t})
      BY <1>10 DEF RecordCommitted
    <2> QED
      BY <1>9, <2>1, <2>2
  <1>11. CASE TxRejected(t)
    <2>1. CASE job[t].retry
      <3>1. pc' = [pc EXCEPT ![t] = "clear"] /\ UNCHANGED <<readVars, job>>
        BY <1>11, <2>1 DEF TxRejected
      <3> QED
        BY <1>1, <3>1 DEF SameOperation, OperationTypeOK
    <2>2. ~job[t].retry => Retire({t})
      BY <1>11 DEF TxRejected
    <2> QED
      BY <1>9, <2>1, <2>2
  <1>12. CASE WriteDone(t) \/ WriteRejected(t) \/ RestackRejected(t)
    <2>1. Retire({t})
      BY <1>12 DEF WriteDone, WriteRejected, RestackRejected
    <2> QED
      BY <1>9, <2>1
  <1>13. CASE Rebuilt(t)
    <2>1. CASE job[t].op = "tx" /\ tries[t] < MaxRetries
      <3>1. /\ want' = [want EXCEPT ![t] = AttemptReads(t)]
            /\ reload' = [reload EXCEPT ![t] = FALSE]
            /\ UNCHANGED <<pc, base, ver, todo, jobVars>>
        BY <1>13, <2>1 DEF Rebuilt
      <3> QED
        BY <1>1, <3>1 DEF SameOperation, OperationTypeOK
    <2>2. ~(job[t].op = "tx" /\ tries[t] < MaxRetries) => Retire({t})
      BY <1>13 DEF Rebuilt
    <2> QED
      BY <1>9, <2>1, <2>2
  <1> QED
    BY <1>2, <1>3, <1>4, <1>5, <1>6, <1>7, <1>8, <1>10, <1>11, <1>12, <1>13 DEF Step

\* What reading learns for a thread that is not rebuilding.
LEMMA LearnAt ==
    ASSUME OperationTypeOK, NEW t \in Thread, NEW refs, NEW record,
           Learn(t, refs, record), ~reload[t], NEW r \in Ref
    PROVE  /\ r \in refs => base'[t][r] = record[r].val /\ ver'[t][r] = record[r].sha
           /\ r \notin refs => base'[t][r] = base[t][r] /\ ver'[t][r] = ver[t][r]
  BY DEF Learn, OperationTypeOK

\* Misses, versions and stages stay in order.
LEMMA StagesStep == Paired /\ [Next]_vars => StagesInOrder'
  <1> SUFFICES ASSUME Paired, [Next]_vars PROVE StagesInOrder'
    OBVIOUS
  <1> USE DEF gitVars, storeVars, readVars, jobVars, recordVars
  <1>1. TypeOK /\ OperationTypeOK /\ ReadsPaired /\ StagesInOrder
    BY DEF Paired, TypeOK
  <1>2. ASSUME NEW t \in Thread, Start(t) \/ Step(t),
               /\ pc'[t] # "fetch" => todo'[t] = {}
               /\ pc'[t] = "write" /\ job'[t].op = "tx" => want'[t] = {} /\ ~reload'[t]
               /\ pc'[t] = "list"  => job'[t].op = "restack"
               /\ pc'[t] = "begin" => job'[t].op = "direct"
               /\ pc'[t] = "erase" => job'[t].op = "untrack"
        PROVE  StagesInOrder'
    <2>1. \A u \in Thread : u # t => SameOperation(u)
      BY <1>1, <1>2, OthersUndisturbed
    <2> QED
      BY <1>1, <1>2, <2>1 DEF StagesInOrder, SameOperation
  <1>3. ASSUME NEW S, Retire(S) PROVE StagesInOrder'
    BY <1>1, <1>3, RetirePaired
  <1>4. ASSUME NEW t \in Thread, Start(t) PROVE StagesInOrder'
    <2>1. PICK j \in Jobs : /\ job' = [job EXCEPT ![t] = j]
                            /\ pc' = [pc EXCEPT ![t] = CASE j.op = "untrack" -> "erase"
                                                         [] j.op = "rebuild" -> "clear"
                                                         [] OTHER -> "read"]
      BY <1>4 DEF Start
    <2>2. job'[t] = j /\ pc'[t] = IF j.op = "untrack" THEN "erase"
                                  ELSE IF j.op = "rebuild" THEN "clear" ELSE "read"
      BY <1>1, <2>1 DEF OperationTypeOK
    <2>3. todo'[t] = {}
      BY <1>1, <1>4 DEF Start, StagesInOrder
    <2> QED
      BY <1>2, <1>4, <2>2, <2>3
  <1>5. ASSUME NEW t \in Thread, Step(t) PROVE StagesInOrder'
    <2>1. CASE ReadMetadata(t)
      <3> DEFINE asked == want[t] \cap Shared
                 misses == asked \ {r \in asked \ {q \in asked : Outdated(EngineOf[t], q)} :
                                       entry[EngineOf[t]][r] # NoEntry}
      <3>1. /\ todo' = [todo EXCEPT ![t] = misses]
            /\ pc' = [pc EXCEPT ![t] = IF misses = {} THEN "read" ELSE "fetch"]
        BY <2>1 DEF ReadMetadata
      <3>2. todo'[t] = misses /\ pc'[t] = IF misses = {} THEN "read" ELSE "fetch"
        BY <1>1, <3>1 DEF OperationTypeOK
      <3> QED
        BY <1>2, <1>5, <3>2
    <2>2. CASE ReadLocalMetadata(t)
      <3>1. pc'[t] = "fetch"
        BY <1>1, <2>2 DEF ReadLocalMetadata, OperationTypeOK
      <3> QED
        BY <1>2, <1>5, <3>1
    <2>3. CASE Fetch(t)
      <3>1. PICK r \in todo[t] :
              /\ todo' = [todo EXCEPT ![t] = @ \ {r}]
              /\ pc' = [pc EXCEPT ![t] = IF todo[t] = {r} THEN "read" ELSE "fetch"]
        BY <2>3 DEF Fetch
      <3>2. todo'[t] = todo[t] \ {r} /\ pc'[t] = IF todo[t] = {r} THEN "read" ELSE "fetch"
        BY <1>1, <3>1 DEF OperationTypeOK
      <3> QED
        BY <1>2, <1>5, <3>2
    <2>4. CASE Prepared(t)
      <3>1. pc'[t] = (CASE job[t].op = "restack" -> "list"
                        [] job[t].op = "direct"  -> "begin"
                        [] OTHER                 -> "write")
        BY <1>1, <2>4 DEF Prepared, OperationTypeOK
      <3>2. /\ want'[t] = {} /\ ~reload'[t] /\ job'[t] = job[t] /\ todo'[t] = {}
        BY <1>1, <2>4 DEF Prepared, StagesInOrder
      <3> QED
        BY <1>2, <1>5, <3>1, <3>2
    <2>5. CASE ListRefs(t) \/ WriteBegin(t)
      <3>1. /\ pc'[t] = "write" /\ job'[t] = job[t] /\ job[t].op \in {"restack", "direct"}
            /\ todo'[t] = {}
        BY <1>1, <2>5 DEF ListRefs, WriteBegin, OperationTypeOK, StagesInOrder
      <3> QED
        BY <1>2, <1>5, <3>1
    <2>6. CASE UpdateRefs(t) \/ UpdateRefsRejected(t) \/ DeleteMetadata(t) \/ Forget(t)
      <3>1. pc'[t] \in {"mark", "rejected", "clear"} /\ todo'[t] = {}
        BY <1>1, <2>6 DEF UpdateRefs, UpdateRefsRejected, DeleteMetadata, Forget,
                          OperationTypeOK, StagesInOrder
      <3> QED
        BY <1>2, <1>5, <3>1
    <2>7. CASE MarkRefChanged(t)
      <3>1. pc'[t] = (CASE job[t].op = "direct"  -> "store"
                        [] job[t].op = "untrack" -> "forget"
                        [] OTHER                 -> "record")
        BY <1>1, <2>7 DEF MarkRefChanged, OperationTypeOK
      <3>2. todo'[t] = {}
        BY <1>1, <2>7 DEF MarkRefChanged, StagesInOrder
      <3> QED
        BY <1>2, <1>5, <3>1, <3>2
    <2>8. CASE RecordCommitted(t)
      <3>1. CASE Retire({t})
        BY <1>3, <3>1
      <3>2. CASE UNCHANGED <<pc, todo, job>>
        <4>1. pc'[t] = "record" /\ todo'[t] = {}
          BY <1>1, <2>8, <3>2 DEF RecordCommitted, StagesInOrder
        <4> QED
          BY <1>2, <1>5, <4>1
      <3> QED
        BY <2>8, <3>1, <3>2 DEF RecordCommitted
    <2>9. CASE WriteDone(t) \/ WriteRejected(t) \/ RestackRejected(t)
      <3>1. Retire({t})
        BY <2>9 DEF WriteDone, WriteRejected, RestackRejected
      <3> QED
        BY <1>3, <3>1
    <2>10. CASE TxRejected(t)
      <3>1. CASE Retire({t})
        BY <1>3, <3>1
      <3>2. CASE pc' = [pc EXCEPT ![t] = "clear"] /\ todo' = todo
        <4>1. pc'[t] = "clear" /\ todo'[t] = {}
          BY <1>1, <2>10, <3>2 DEF TxRejected, OperationTypeOK, StagesInOrder
        <4> QED
          BY <1>2, <1>5, <4>1
      <3> QED
        BY <2>10, <3>1, <3>2 DEF TxRejected
    <2>11. CASE ClearMetadataCache(t)
      <3>1. pc'[t] = "read" /\ todo'[t] = {}
        BY <1>1, <2>11 DEF ClearMetadataCache, OperationTypeOK, StagesInOrder
      <3> QED
        BY <1>2, <1>5, <3>1
    <2>12. CASE Rebuilt(t)
      <3>1. CASE Retire({t})
        BY <1>3, <3>1
      <3>2. CASE UNCHANGED <<pc, todo>>
        <4>1. pc'[t] = "read" /\ todo'[t] = {}
          BY <1>1, <2>12, <3>2 DEF Rebuilt, StagesInOrder
        <4> QED
          BY <1>2, <1>5, <4>1
      <3> QED
        BY <2>12, <3>1, <3>2 DEF Rebuilt
    <2> QED
      BY <1>5, <2>1, <2>2, <2>3, <2>4, <2>5, <2>6, <2>7, <2>8, <2>9, <2>10, <2>11, <2>12 DEF Step
  <1>6. ASSUME NEW e \in Engine, Restart(e) PROVE StagesInOrder'
    <2>1. Retire({t \in Thread : EngineOf[t] = e})
      BY <1>6 DEF Restart
    <2> QED
      BY <1>3, <2>1
  <1>7. CASE Finished \/ UNCHANGED vars
    BY <1>1, <1>7 DEF Finished, vars, StagesInOrder
  <1> QED
    BY <1>4, <1>5, <1>6, <1>7 DEF Next

\* What one transaction has read is paired (ReadsPaired at one thread).
PairedAt(t) ==
    job[t].op = "tx" /\ pc[t] \in {"read", "fetch", "write"} /\ ~reload[t]
    => \A r \in job[t].refs \ (want[t] \cup todo[t]) :
           ver[t][r] \in Version /\ base[t][r] = ContentOf(ver[t][r])

\* The reads stay paired: hits come from a paired cache, misses from the ref.
LEMMA ReadsPairedStep == Paired /\ [Next]_vars => ReadsPaired'
  <1> SUFFICES ASSUME Paired, [Next]_vars PROVE ReadsPaired'
    OBVIOUS
  <1> USE DEF gitVars, storeVars, readVars, jobVars, recordVars
  <1>1. TypeOK /\ StoreTypeOK /\ OperationTypeOK /\ CachePaired /\ ReadsPaired /\ StagesInOrder
    BY DEF Paired, TypeOK
  <1>2. ASSUME NEW t \in Thread, Start(t) \/ Step(t), PairedAt(t)' PROVE ReadsPaired'
    <2>1. \A u \in Thread : u # t => SameOperation(u)
      BY <1>1, <1>2, OthersUndisturbed
    <2>2. ASSUME NEW u \in Thread, u # t PROVE PairedAt(u)'
      BY <1>1, <2>1, <2>2 DEF ReadsPaired, PairedAt, SameOperation
    <2> QED
      BY <1>2, <2>2 DEF ReadsPaired, PairedAt
  <1>3. ASSUME NEW S, Retire(S) PROVE ReadsPaired'
    BY <1>1, <1>3, RetirePaired
  <1>4. ASSUME NEW t \in Thread, Start(t) PROVE ReadsPaired'
    <2>1. PICK j \in Jobs :
             /\ job' = [job EXCEPT ![t] = j]
             /\ want' = [want EXCEPT ![t] = IF j.op = "untrack" THEN {} ELSE j.refs]
      BY <1>4 DEF Start
    <2>2. job'[t] = j /\ (j.op = "tx" => want'[t] = j.refs)
      BY <1>1, <2>1 DEF OperationTypeOK
    <2> QED
      BY <1>2, <1>4, <2>2 DEF PairedAt
  <1>5. ASSUME NEW t \in Thread, Step(t) PROVE ReadsPaired'
    <2> DEFINE e == EngineOf[t]
    <2> e \in Engine
      BY EngineOfType
    <2>0. job[t].refs \subseteq Ref
      BY <1>1, JobType DEF OperationTypeOK
    <2>1. CASE ReadMetadata(t)
      <3> DEFINE asked == want[t] \cap Shared
                 stale == {r \in asked : Outdated(e, r)}
                 hits == {r \in asked \ stale : entry[e][r] # NoEntry}
                 misses == asked \ hits
      <3> SUFFICES ASSUME job[t].op = "tx", ~reload[t],
                          NEW r \in job[t].refs \ (want'[t] \cup todo'[t])
                   PROVE  ver'[t][r] \in Version /\ base'[t][r] = ContentOf(ver'[t][r])
        BY <1>2, <1>5, <2>1 DEF ReadMetadata, PairedAt
      <3>1. /\ Learn(t, hits, [q \in hits |-> entry[e][q]]) /\ pc[t] = "read"
            /\ want' = [want EXCEPT ![t] = @ \ asked]
            /\ todo' = [todo EXCEPT ![t] = misses]
        BY <2>1 DEF ReadMetadata
      <3>2. todo[t] = {}
        BY <1>1, <3>1 DEF StagesInOrder
      <3>3. want'[t] = want[t] \ asked /\ todo'[t] = misses
        BY <1>1, <3>1 DEF OperationTypeOK
      <3>4. r \in Ref
        BY <2>0
      <3>5. CASE r \in hits
        <4>1. base'[t][r] = entry[e][r].val /\ ver'[t][r] = entry[e][r].sha
          BY <1>1, <3>1, <3>4, <3>5, LearnAt
        <4>2. r \in Shared /\ entry[e][r] # NoEntry
          BY <3>5
        <4> QED
          BY <1>1, <4>1, <4>2 DEF CachePaired
      <3>6. CASE r \notin hits
        <4>1. base'[t][r] = base[t][r] /\ ver'[t][r] = ver[t][r]
          BY <1>1, <3>1, <3>4, <3>6, LearnAt
        <4>2. r \notin want[t] \cup todo[t]
          BY <3>2, <3>3, <3>6
        <4> QED
          BY <1>1, <3>1, <4>1, <4>2 DEF ReadsPaired
      <3> QED
        BY <3>5, <3>6
    <2>2. CASE ReadLocalMetadata(t)
      <3>1. /\ pc[t] = "read" /\ UNCHANGED <<base, ver, reload, job>>
            /\ want'[t] = want[t] \ (want[t] \cap Local) /\ todo'[t] = want[t] \cap Local
        BY <1>1, <2>2 DEF ReadLocalMetadata, OperationTypeOK
      <3>2. want'[t] \cup todo'[t] = want[t] \cup todo[t]
        BY <1>1, <3>1 DEF StagesInOrder
      <3>3. PairedAt(t)'
        BY <1>1, <3>1, <3>2 DEF ReadsPaired, PairedAt
      <3> QED
        BY <1>2, <1>5, <3>3
    <2>3. CASE Fetch(t)
      <3>1. PICK q \in todo[t] :
              /\ Learn(t, {q}, [x \in {q} |-> [val |-> ContentOf(ref[q]), sha |-> ref[q]]])
              /\ todo' = [todo EXCEPT ![t] = @ \ {q}]
        BY <2>3 DEF Fetch
      <3> SUFFICES ASSUME job[t].op = "tx", ~reload[t],
                          NEW r \in job[t].refs \ (want'[t] \cup todo'[t])
                   PROVE  ver'[t][r] \in Version /\ base'[t][r] = ContentOf(ver'[t][r])
        BY <1>2, <1>5, <2>3 DEF Fetch, PairedAt
      <3>2. want'[t] = want[t] /\ todo'[t] = todo[t] \ {q} /\ pc[t] = "fetch"
        BY <1>1, <2>3, <3>1 DEF Fetch, OperationTypeOK
      <3>3. r \in Ref
        BY <2>0
      <3>4. CASE r = q
        <4>1. base'[t][r] = ContentOf(ref[q]) /\ ver'[t][r] = ref[q]
          BY <1>1, <3>1, <3>3, <3>4, LearnAt
        <4> QED
          BY <1>1, <3>3, <3>4, <4>1 DEF TypeOK
      <3>5. CASE r # q
        <4>1. base'[t][r] = base[t][r] /\ ver'[t][r] = ver[t][r]
          BY <1>1, <3>1, <3>3, <3>5, LearnAt
        <4>2. r \notin want[t] \cup todo[t]
          BY <3>2, <3>5
        <4> QED
          BY <1>1, <3>2, <4>1, <4>2 DEF ReadsPaired
      <3> QED
        BY <3>4, <3>5
    <2>4. CASE Prepared(t)
      <3>1. PairedAt(t)'
        BY <1>1, <2>4 DEF Prepared, ReadsPaired, PairedAt
      <3> QED
        BY <1>2, <1>5, <3>1
    <2>5. CASE ListRefs(t) \/ WriteBegin(t)
      <3>1. job'[t].op # "tx"
        BY <1>1, <2>5 DEF ListRefs, WriteBegin, StagesInOrder
      <3> QED
        BY <1>2, <1>5, <3>1 DEF PairedAt
    <2>6. CASE UpdateRefs(t) \/ UpdateRefsRejected(t) \/ DeleteMetadata(t) \/ Forget(t)
      <3>1. pc'[t] \in {"mark", "rejected", "clear"}
        BY <1>1, <2>6 DEF UpdateRefs, UpdateRefsRejected, DeleteMetadata, Forget, OperationTypeOK
      <3> QED
        BY <1>2, <1>5, <3>1 DEF PairedAt
    <2>7. CASE MarkRefChanged(t)
      <3>1. pc'[t] = (CASE job[t].op = "direct"  -> "store"
                        [] job[t].op = "untrack" -> "forget"
                        [] OTHER                 -> "record")
        BY <1>1, <2>7 DEF MarkRefChanged, OperationTypeOK
      <3> QED
        BY <1>2, <1>5, <3>1 DEF PairedAt
    <2>8. CASE RecordCommitted(t)
      <3>1. CASE Retire({t})
        BY <1>3, <3>1
      <3>2. CASE UNCHANGED pc
        <4>1. pc'[t] = "record"
          BY <2>8, <3>2 DEF RecordCommitted
        <4> QED
          BY <1>2, <1>5, <4>1 DEF PairedAt
      <3> QED
        BY <2>8, <3>1, <3>2 DEF RecordCommitted
    <2>9. CASE WriteDone(t) \/ WriteRejected(t) \/ RestackRejected(t)
      <3>1. Retire({t})
        BY <2>9 DEF WriteDone, WriteRejected, RestackRejected
      <3> QED
        BY <1>3, <3>1
    <2>10. CASE TxRejected(t)
      <3>1. CASE Retire({t})
        BY <1>3, <3>1
      <3>2. CASE pc' = [pc EXCEPT ![t] = "clear"]
        <4>1. pc'[t] = "clear"
          BY <1>1, <3>2 DEF OperationTypeOK
        <4> QED
          BY <1>2, <1>5, <4>1 DEF PairedAt
      <3> QED
        BY <2>10, <3>1, <3>2 DEF TxRejected
    <2>11. CASE ClearMetadataCache(t)
      <3>1. reload'[t] = TRUE
        BY <1>1, <2>11 DEF ClearMetadataCache, OperationTypeOK
      <3> QED
        BY <1>2, <1>5, <3>1 DEF PairedAt
    <2>12. CASE Rebuilt(t)
      <3>1. CASE Retire({t})
        BY <1>3, <3>1
      <3>2. CASE want' = [want EXCEPT ![t] = AttemptReads(t)] /\ job' = job
        <4>1. want'[t] = job[t].refs /\ job'[t] = job[t]
          BY <1>1, <3>2 DEF AttemptReads, OperationTypeOK
        <4> QED
          BY <1>2, <1>5, <4>1 DEF PairedAt
      <3> QED
        BY <2>12, <3>1, <3>2 DEF Rebuilt
    <2> QED
      BY <1>5, <2>1, <2>2, <2>3, <2>4, <2>5, <2>6, <2>7, <2>8, <2>9, <2>10, <2>11, <2>12 DEF Step
  <1>6. ASSUME NEW e \in Engine, Restart(e) PROVE ReadsPaired'
    <2>1. Retire({t \in Thread : EngineOf[t] = e})
      BY <1>6 DEF Restart
    <2> QED
      BY <1>3, <2>1
  <1>7. CASE Finished \/ UNCHANGED vars
    BY <1>1, <1>7 DEF Finished, vars, ReadsPaired
  <1> QED
    BY <1>4, <1>5, <1>6, <1>7 DEF Next

\* The pairing of values and versions is an invariant, in every cache and in
\* what every transaction has read.
THEOREM AlwaysPaired == Spec => []Paired
  <1>1. Init => Paired
    <2>1. Init => TypeOK
      BY DEF Init, TypeOK, StoreTypeOK, OperationTypeOK, RecordTypeOK, PC, Content,
             Version, Demand
    <2>2. Init => CachePaired
      BY DEF Init, CachePaired, Ref
    <2>3. Init => ReadsPaired /\ StagesInOrder
      BY DEF Init, ReadsPaired, StagesInOrder, NoJob
    <2> QED
      BY <2>1, <2>2, <2>3 DEF Paired
  <1>2. Paired /\ [Next]_vars => Paired'
    BY TypeStep, CachePairedStep, ReadsPairedStep, StagesStep DEF Paired
  <1> QED
    BY <1>1, <1>2, PTL DEF Spec

-----------------------------------------------------------------------------
\* Only UpdateRefs applies a transaction's batch.
LEMMA TransactionsWriteByUpdateRefs ==
    ASSUME Paired, [Next]_vars, NEW t \in Thread, Writes(t), job[t].op = "tx"
    PROVE  UpdateRefs(t)
  <1> USE DEF gitVars, storeVars, readVars, jobVars, recordVars
  <1>1. TypeOK /\ OperationTypeOK /\ StagesInOrder
    BY DEF Paired, TypeOK
  <1>2. pc[t] = "write" /\ pc'[t] = "mark"
    BY <1>1 DEF Writes, StagesInOrder
  <1>3. ASSUME NEW u \in Thread, Start(u) \/ Step(u) PROVE u = t
    <2> SUFFICES ASSUME u # t PROVE FALSE
      OBVIOUS
    <2>1. SameOperation(t)
      BY <1>1, <1>3, OthersUndisturbed
    <2> QED
      BY <1>2, <2>1 DEF SameOperation
  <1>4. ~Start(t)
    BY <1>2 DEF Start
  <1>5. Step(t) => UpdateRefs(t)
    <2>1. Step(t) => UpdateRefs(t) \/ UpdateRefsRejected(t)
      BY <1>2 DEF Step, ReadMetadata, ReadLocalMetadata, Fetch, Prepared, ListRefs, WriteBegin,
                  DeleteMetadata, MarkRefChanged, RecordCommitted, WriteDone, Forget, TxRejected,
                  WriteRejected, RestackRejected, ClearMetadataCache, Rebuilt
    <2>2. UpdateRefsRejected(t) => pc'[t] = "rejected"
      BY <1>1 DEF UpdateRefsRejected, OperationTypeOK
    <2> QED
      BY <1>2, <2>1, <2>2
  <1>6. ASSUME NEW e \in Engine, Restart(e) PROVE FALSE
    <2>1. pc'[t] \in {"idle", pc[t]}
      BY <1>6 DEF Restart, Retire
    <2> QED
      BY <1>2, <2>1
  <1>7. ~Finished /\ ~UNCHANGED vars
    BY <1>2 DEF Finished, vars
  <1> QED
    BY <1>3, <1>4, <1>5, <1>6, <1>7 DEF Next

\* git accepts a transaction's batch only where every ref it names holds the
\* version read there.
LEMMA AcceptedVersions ==
    ASSUME Paired, NEW t \in Thread, job[t].op = "tx", pc[t] = "write",
           Accepts(ref, Batch(t)), NEW r \in Written(t)
    PROVE  Saw(t, r)
  <1>1. r \in job[t].refs /\ (r \in job[t].del => ver[t][r] # Absent)
    BY DEF Written
  <1>2. ver[t][r] \in Version /\ base[t][r] = ContentOf(ver[t][r])
    BY <1>1 DEF Paired, ReadsPaired, StagesInOrder
  <1>3. ver[t][r] # Anything
    BY <1>2, ConstantsAssumption DEF Version
  <1>4. Demands(Batch(t)[r]) \in {Anything, ref[r]}
    BY DEF Accepts, Batch
  <1>5. Batch(t)[r] = IF r \in job[t].del THEN DeleteMatching(ver[t][r])
                      ELSE Swap(NewContent(t, r), ver[t][r])
    BY DEF Batch
  <1>6. Demands(Batch(t)[r]) = ver[t][r]
    <2>1. CASE r \in job[t].del
      BY <1>1, <1>5, <2>1 DEF Demands, DeleteMatching, Update
    <2>2. CASE r \notin job[t].del
      <3>1. CASE ver[t][r] = Absent
        <4>1. Batch(t)[r] = [new |-> NewContent(t, r), old |-> Absent,
                             mustNotExist |-> TRUE, isDelete |-> FALSE]
          BY <1>5, <2>2, <3>1 DEF Swap, Update
        <4> QED
          BY <3>1, <4>1 DEF Demands
      <3>2. CASE ver[t][r] # Absent
        <4>1. Batch(t)[r] = [new |-> NewContent(t, r), old |-> ver[t][r],
                             mustNotExist |-> FALSE, isDelete |-> FALSE]
          BY <1>5, <2>2, <3>2 DEF Swap, Update
        <4> QED
          BY <3>2, <4>1 DEF Demands
      <3> QED
        BY <3>1, <3>2
    <2> QED
      BY <2>1, <2>2
  <1> QED
    BY <1>2, <1>3, <1>4, <1>6 DEF Saw

\* A committed transaction has replaced precisely what it had read
\* (MetadataTx.Commit over the store's cache and git's ref transaction), for
\* any number of engines, goroutines, branches and operations, restarts and
\* writes around the store included.
THEOREM TransactionsReplaceWhatTheyRead == Spec => CommitReplacesWhatItRead
  <1>1. Paired /\ [Next]_vars
        => [\A t \in Thread : Writes(t) /\ job[t].op = "tx"
                => \A r \in Written(t) : Saw(t, r)]_vars
    <2> SUFFICES ASSUME Paired, [Next]_vars, NEW t \in Thread, Writes(t), job[t].op = "tx",
                        NEW r \in Written(t)
                 PROVE  Saw(t, r)
      OBVIOUS
    <2>1. UpdateRefs(t)
      BY TransactionsWriteByUpdateRefs
    <2> QED
      BY <2>1, AcceptedVersions DEF UpdateRefs
  <1> QED
    BY <1>1, AlwaysPaired, PTL DEF Spec, CommitReplacesWhatItRead

-----------------------------------------------------------------------------
(* Where every operation is a transaction (or reads only), the store        *)
(* implements AtomicMetadata.  A batch is applied atomically, and to what   *)
(* was read (Paired); that it is applied once needs the marks: a thread     *)
(* that has still to write holds a mark nobody has landed.                  *)

\* Every operation is a transaction, or only reads.
TransactionsOnly == \A j \in Jobs : j.op \in {"tx", "rebuild"}

\* The thread's operation has not been written.
Unwritten(t) == pc[t] \in {"read", "fetch", "write", "rejected", "clear"}

\* A mark belongs to one operation, and to none that has still to write once it
\* has landed.
MarksOnce ==
    /\ \A t \in Thread : /\ job[t].op \in {"tx", "rebuild"}
                         /\ pc[t] \notin {"erase", "forget", "list", "begin", "store"}
                         /\ mark[t] \subseteq used /\ landed[t] \subseteq used
                         /\ pc[t] # "idle" => \E m \in Mark : mark[t] = {m}
    /\ \A t, u \in Thread : /\ t # u => mark[t] \cap mark[u] = {}
                            /\ Unwritten(t) => mark[t] \cap landed[u] = {}

\* Ending operations gives up their marks.
LEMMA RetireMarks ==
    ASSUME OperationTypeOK, MarksOnce, NEW S, Retire(S), UNCHANGED <<used, landed>>
    PROVE  MarksOnce'
  <1>1. \A t \in Thread : /\ t \in S => job'[t] = NoJob /\ pc'[t] = "idle" /\ mark'[t] = {}
                          /\ t \notin S => job'[t] = job[t] /\ pc'[t] = pc[t] /\ mark'[t] = mark[t]
    BY DEF Retire
  <1>2. NoJob.op = "rebuild"
    BY DEF NoJob
  <1> QED
    BY <1>1, <1>2 DEF MarksOnce, Unwritten

\* A step that keeps the thread's job and mark, lands nothing and does not go
\* back from a write keeps the marks apart.
LEMMA SteadyMarks ==
    ASSUME OperationTypeOK, MarksOnce, NEW t \in Thread,
           UNCHANGED <<job, mark, used, landed>>,
           \A u \in Thread : u # t => pc'[u] = pc[u],
           pc[t] # "idle", pc'[t] \notin {"erase", "forget", "list", "begin", "store"},
           Unwritten(t)' => Unwritten(t)
    PROVE  MarksOnce'
  BY DEF MarksOnce, Unwritten

\* Marks stay apart: every operation has a new one, and a write that landed is
\* never written again.
LEMMA MarksOnceStep ==
    ASSUME TransactionsOnly, Paired, MarksOnce, [Next]_vars
    PROVE  MarksOnce'
  <1> USE DEF gitVars, storeVars, readVars, jobVars, recordVars
  <1>1. TypeOK /\ OperationTypeOK /\ RecordTypeOK
    BY DEF Paired, TypeOK
  <1>2. ASSUME NEW t \in Thread, Start(t) PROVE MarksOnce'
    <2>1. PICK j \in Jobs, m \in Mark \ used :
            /\ job' = [job EXCEPT ![t] = j]
            /\ mark' = [mark EXCEPT ![t] = {m}]
            /\ used' = used \cup {m}
            /\ pc' = [pc EXCEPT ![t] = CASE j.op = "untrack" -> "erase"
                                         [] j.op = "rebuild" -> "clear"
                                         [] OTHER -> "read"]
      BY <1>2 DEF Start
    <2>2. j.op \in {"tx", "rebuild"}
      BY DEF TransactionsOnly
    <2>3. /\ job'[t] = j /\ mark'[t] = {m} /\ pc'[t] \in {"clear", "read"}
          /\ \A u \in Thread : u # t => job'[u] = job[u] /\ mark'[u] = mark[u] /\ pc'[u] = pc[u]
      BY <1>1, <2>1, <2>2 DEF OperationTypeOK
    <2>4. landed' = landed /\ used' = used \cup {m}
      BY <1>2, <2>1 DEF Start
    <2> QED
      BY <2>2, <2>3, <2>4 DEF MarksOnce, Unwritten
  <1>3. ASSUME NEW t \in Thread, UpdateRefs(t) PROVE MarksOnce'
    <2>1. /\ UNCHANGED <<job, mark, used>>
          /\ pc' = [pc EXCEPT ![t] = "mark"] /\ pc[t] = "write"
          /\ landed' = [landed EXCEPT ![t] = @ \cup mark[t]]
      BY <1>3 DEF UpdateRefs, Landed
    <2> QED
      BY <1>1, <2>1 DEF MarksOnce, Unwritten, OperationTypeOK, RecordTypeOK
  <1>4. ASSUME NEW t \in Thread,
               \/ ReadMetadata(t) \/ ReadLocalMetadata(t) \/ Fetch(t) \/ Prepared(t)
               \/ UpdateRefsRejected(t) \/ MarkRefChanged(t) \/ ClearMetadataCache(t)
        PROVE  MarksOnce'
    <2>1. UNCHANGED <<job, mark, used, landed>> /\ pc[t] # "idle"
      BY <1>4 DEF ReadMetadata, ReadLocalMetadata, Fetch, Prepared, UpdateRefsRejected,
                  MarkRefChanged, ClearMetadataCache
    <2>2. \A u \in Thread : u # t => pc'[u] = pc[u]
      BY <1>1, <1>4, OthersUndisturbed DEF Step, SameOperation
    <2>3. job[t].op \in {"tx", "rebuild"}
      BY DEF MarksOnce
    <2>4. /\ pc'[t] \in {"read", "fetch", "write", "rejected", "record"}
          /\ Unwritten(t)' => Unwritten(t)
      BY <1>1, <1>4, <2>3
         DEF ReadMetadata, ReadLocalMetadata, Fetch, Prepared, UpdateRefsRejected,
             MarkRefChanged, ClearMetadataCache, OperationTypeOK, Unwritten
    <2> QED
      BY <1>1, <2>1, <2>2, <2>4, SteadyMarks
  <1>5. ASSUME NEW t \in Thread,
               RecordCommitted(t) \/ TxRejected(t) \/ RestackRejected(t) \/ Rebuilt(t)
        PROVE  MarksOnce'
    <2>1. UNCHANGED <<used, landed>>
      BY <1>5 DEF RecordCommitted, TxRejected, RestackRejected, Rebuilt
    <2>2. CASE Retire({t})
      BY <1>1, <2>1, <2>2, RetireMarks
    <2>3. CASE ~Retire({t})
      <3>1. UNCHANGED <<job, mark>> /\ pc[t] # "idle"
        BY <1>5, <2>3 DEF RecordCommitted, TxRejected, RestackRejected, Rebuilt
      <3>2. \A u \in Thread : u # t => pc'[u] = pc[u]
        BY <1>1, <1>5, OthersUndisturbed DEF Step, SameOperation
      <3>3. pc'[t] \in {"record", "read", "clear"} /\ (Unwritten(t)' => Unwritten(t))
        BY <1>1, <1>5, <2>3
           DEF RecordCommitted, TxRejected, RestackRejected, Rebuilt, OperationTypeOK, Unwritten
      <3> QED
        BY <1>1, <2>1, <3>1, <3>2, <3>3, SteadyMarks
    <2> QED
      BY <2>2, <2>3
  <1>6. ASSUME NEW t \in Thread,
               \/ ListRefs(t) \/ WriteBegin(t) \/ DeleteMetadata(t) \/ WriteDone(t) \/ Forget(t)
               \/ WriteRejected(t)
        PROVE  FALSE
    BY <1>6 DEF ListRefs, WriteBegin, DeleteMetadata, WriteDone, Forget, WriteRejected, MarksOnce
  <1>7. ASSUME NEW e \in Engine, Restart(e) PROVE MarksOnce'
    BY <1>1, <1>7, RetireMarks DEF Restart
  <1>8. CASE Finished \/ UNCHANGED vars
    <2>1. UNCHANGED <<job, pc, mark, used, landed>>
      BY <1>8 DEF Finished, vars
    <2> QED
      BY <2>1 DEF MarksOnce, Unwritten
  <1> QED
    BY <1>2, <1>3, <1>4, <1>5, <1>6, <1>7, <1>8 DEF Next, Step

\* A thread's write is one atomic operation with its mark.
LEMMA WriteIsAtomic ==
    ASSUME Paired, MarksOnce, NEW t \in Thread, UpdateRefs(t)
    PROVE  Atomic!ANext
  <1> DEFINE W == Written(t)
             U == W \ job[t].del
             D == W \cap job[t].del
  <1>1. TypeOK /\ OperationTypeOK /\ RecordTypeOK
    BY DEF Paired, TypeOK
  <1>2. PICK m \in Mark : mark[t] = {m}
    BY DEF MarksOnce, UpdateRefs
  <1>3. pc[t] = "write" /\ Accepts(ref, Batch(t)) /\ ref' = Applied(ref, Batch(t))
    BY DEF UpdateRefs
  <1>4. landed' = [landed EXCEPT ![t] = landed[t] \cup {m}]
    BY <1>2 DEF UpdateRefs, Landed
  <1>5. W \subseteq Ref
    BY <1>1, WrittenType
  <1>6. m \notin UNION {landed[u] : u \in Thread}
    BY <1>2, <1>3 DEF MarksOnce, Unwritten
  <1>7. UNION {landed'[u] : u \in Thread} = (UNION {landed[u] : u \in Thread}) \cup {m}
    <2>1. landed'[t] = landed[t] \cup {m} /\ \A u \in Thread : u # t => landed'[u] = landed[u]
      BY <1>1, <1>4 DEF RecordTypeOK
    <2>2. ASSUME NEW x \in UNION {landed'[u] : u \in Thread}
          PROVE  x \in (UNION {landed[u] : u \in Thread}) \cup {m}
      <3>1. PICK u \in Thread : x \in landed'[u]
        OBVIOUS
      <3> QED
        BY <2>1, <3>1
    <2>3. ASSUME NEW x \in UNION {landed[u] : u \in Thread}
          PROVE  x \in UNION {landed'[u] : u \in Thread}
      <3>1. PICK u \in Thread : x \in landed[u]
        OBVIOUS
      <3>2. x \in landed'[u]
        BY <2>1, <3>1
      <3> QED
        BY <3>2
    <2>4. m \in UNION {landed'[u] : u \in Thread}
      BY <2>1
    <2> QED
      BY <2>2, <2>3, <2>4
  <1>8. ref' = [r \in Ref |-> IF r \in U THEN Atomic!MarksIn(ref[r]) \cup {m}
                              ELSE IF r \in D THEN Absent ELSE ref[r]]
    <2>1. DOMAIN ref = Ref /\ DOMAIN Batch(t) = W
      BY <1>1 DEF TypeOK, Batch
    <2>2. ASSUME NEW r \in U PROVE Result(Batch(t)[r]) = Atomic!MarksIn(ref[r]) \cup {m}
      <3>1. job[t].op = "tx"
        <4>1. W = {} \/ job[t].op = "tx"
          <5>1. job[t].op # "tx" => W = job[t].refs
            BY DEF Written
          <5>2. job[t].op = "rebuild" => job[t].refs = {}
            BY <1>1, ConstantsAssumption DEF OperationTypeOK, WellFormed, NoJob
          <5> QED
            BY <5>1, <5>2 DEF MarksOnce
        <4> QED
          BY <2>2, <4>1
      <3>2. Saw(t, r)
        BY <1>3, <2>2, <3>1, AcceptedVersions
      <3>3. Result(Batch(t)[r]) = NewContent(t, r)
        <4>1. Batch(t)[r] = Swap(NewContent(t, r), ver[t][r])
          BY <2>2, <3>1 DEF Batch
        <4> QED
          BY <4>1 DEF Result, Swap, Update
      <3> QED
        BY <1>2, <3>2, <3>3 DEF Saw, NewContent, ContentOf, Atomic!MarksIn
    <2>3. ASSUME NEW r \in D PROVE Result(Batch(t)[r]) = Absent
      <3>1. job[t].op = "tx"
        <4>1. job[t] \in Jobs /\ job[t].op # "tx" => job[t].del = {}
          BY ConstantsAssumption DEF WellFormed
        <4> QED
          BY <1>1, <2>3, <4>1 DEF OperationTypeOK, NoJob
      <3>2. Batch(t)[r] = DeleteMatching(ver[t][r])
        BY <2>3, <3>1 DEF Batch
      <3> QED
        BY <3>2 DEF Result, DeleteMatching, Update
    <2> QED
      BY <1>3, <1>5, <2>1, <2>2, <2>3 DEF Applied
  <1>9. PICK X, Y \in SUBSET Ref :
           ref' = [r \in Ref |-> IF r \in X THEN Atomic!MarksIn(ref[r]) \cup {m}
                                 ELSE IF r \in Y THEN Absent ELSE ref[r]]
    <2>1. U \in SUBSET Ref /\ D \in SUBSET Ref
      BY <1>5
    <2> QED
      BY <1>8, <2>1
  <1>10. Atomic!Apply(m, X, Y)
    BY <1>6, <1>7, <1>9 DEF Atomic!Apply
  <1> QED
    BY <1>10 DEF Atomic!ANext

\* Where every operation is a transaction or a rebuild, the refs change as if
\* operations ran one at a time and each took effect once, whatever engines
\* cache, retry, or lose in a restart (MetadataTx.Commit, WithRetry).
THEOREM StoreImplementsAtomicMetadata ==
    ASSUME TransactionsOnly
    PROVE  Spec => TransactionsAreAtomic
  <1>1. Init => Atomic!AInit
    <2> SUFFICES ASSUME Init PROVE Atomic!AInit
      OBVIOUS
    <2>1. UNION {landed[t] : t \in Thread} = {}
      BY DEF Init
    <2> QED
      BY <2>1 DEF Init, Atomic!AInit
  <1>2. Init => MarksOnce
    BY DEF Init, MarksOnce, Unwritten, NoJob
  <1>3. Paired /\ MarksOnce /\ [Next]_vars => MarksOnce'
    BY MarksOnceStep
  <1>4. Paired /\ MarksOnce /\ [Next]_vars
        => [Atomic!ANext]_<<ref, UNION {landed[t] : t \in Thread}>>
    <2> SUFFICES ASSUME Paired, MarksOnce, [Next]_vars
                 PROVE  Atomic!ANext \/ UNCHANGED <<ref, landed>>
      OBVIOUS
    <2> USE DEF gitVars, storeVars, readVars, jobVars, recordVars
    <2>1. ASSUME NEW t \in Thread, Start(t) PROVE UNCHANGED <<ref, landed>>
      BY <2>1 DEF Start
    <2>2. ASSUME NEW t \in Thread, Step(t) PROVE Atomic!ANext \/ UNCHANGED <<ref, landed>>
      <3>1. CASE UpdateRefs(t)
        BY <3>1, WriteIsAtomic
      <3>2. ~DeleteMetadata(t)
        BY DEF DeleteMetadata, MarksOnce
      <3> QED
        BY <2>2, <3>1, <3>2
           DEF Step, ReadMetadata, ReadLocalMetadata, Fetch, Prepared, ListRefs, WriteBegin,
               UpdateRefsRejected, MarkRefChanged, RecordCommitted, WriteDone, Forget, TxRejected,
               WriteRejected, RestackRejected, ClearMetadataCache, Rebuilt
    <2>3. ASSUME NEW e \in Engine, Restart(e) PROVE UNCHANGED <<ref, landed>>
      BY <2>3 DEF Restart
    <2>4. CASE Finished \/ UNCHANGED vars
      BY <2>4 DEF Finished, vars
    <2> QED
      BY <2>1, <2>2, <2>3, <2>4 DEF Next
  <1> QED
    BY <1>1, <1>2, <1>3, <1>4, AlwaysPaired, PTL DEF Spec, TransactionsAreAtomic, Atomic!Spec

-----------------------------------------------------------------------------
(* What an engine knows of its own writes, where no two goroutines work on *)
(* one engine, as in a process that runs one command.  (Two goroutines of  *)
(* an engine race between a ref move and its report, and what follows is   *)
(* false of them.)                                                         *)

OneThreadPerEngine == \A t, u \in Thread : EngineOf[t] = EngineOf[u] => t = u

\* The steps at which a ref of the operation is not what the store thinks: git
\* has moved it and the engine has not marked that, or the write was rejected
\* and the records it went by have not been dropped.
Moving(t, r) ==
    \/ pc[t] = "mark" /\ r \in Written(t)
    \/ pc[t] = "rejected" /\ job[t].op # "restack" /\ r \in job[t].refs

\* The move is marked and still to be recorded.
Unreported(t, r) ==
    \/ pc[t] = "record" /\ r \in want[t]
    \/ pc[t] \in {"store", "forget"} /\ r \in job[t].refs

\* What the engine trusts of a ref that others have left alone is so.
Follows(t, r) ==
    LET e == EngineOf[t]
    IN ~Outdated(e, r) /\ r \notin moved[t] /\ ~Moving(t, r)
       => /\ entry[e][r] # NoEntry => entry[e][r].sha = ref[r]
          /\ r \in known[e] => ref[r] = Absent

\* Generations only lag behind, and a record that is out of date is dropped,
\* but for the report that is under way.
Generations(t, r) ==
    LET e == EngineOf[t]
    IN /\ gens[e][r] <= refGen[e][r]
       /\ Outdated(e, r) /\ ~Unreported(t, r) => entry[e][r] = NoEntry /\ r \notin known[e]
       /\ pc[t] = "fetch" /\ r \in todo[t] => ~Outdated(e, r)
       /\ job[t].op = "direct" /\ r \in job[t].refs
          => /\ pc[t] \in {"write", "mark"} => saved[t] = refGen[e][r]
             /\ pc[t] = "store" => saved[t] + 1 = refGen[e][r]
       /\ r \in known[e] /\ entry[e][r] # NoEntry => entry[e][r].sha = Absent

\* What an operation demands of such a ref, and what it has left in it.
ReadsFollow(t, r) ==
    r \in job[t].refs /\ r \notin moved[t]
    => /\ /\ job[t].op = "tx" /\ pc[t] \in {"read", "fetch", "write"} /\ ~reload[t]
          /\ r \notin want[t] /\ r \notin todo[t]
          => ver[t][r] = ref[r]
       /\ job[t].op \in {"direct", "restack"} /\ pc[t] = "write"
          => ver[t][r] \in {Anything, ref[r]}
       /\ job[t].op # "untrack" /\ pc[t] \in {"mark", "record", "store"}
          => ref[r] = IF r \in job[t].del THEN Absent ELSE NewContent(t, r)

\* A standalone write goes by what the cache holds since its read.
StandaloneReads(t, r) ==
    LET e == EngineOf[t]
    IN job[t].op = "direct" /\ r \in job[t].refs
       => /\ pc[t] \in {"read", "fetch", "begin"} /\ r \notin want[t] /\ r \notin todo[t]
             => base[t][r] = IF entry[e][r] = NoEntry THEN {} ELSE ContentOf(entry[e][r].sha)
          /\ pc[t] = "write"
             => base[t][r] = IF ver[t][r] = Anything THEN {} ELSE ContentOf(ver[t][r])

StagesOf(t) ==
    /\ job[t].op = "direct" \/ pc[t] = "idle" => ~reload[t]
    /\ pc[t] = "begin" => want[t] = {}
    /\ pc[t] = "clear" => job[t].op # "direct"
    /\ pc[t] = "forget" => job[t].op = "untrack"
    /\ pc[t] = "store" => job[t].op = "direct"
    /\ pc[t] = "record" => /\ job[t].op \notin {"direct", "untrack"}
                           /\ want[t] \subseteq job[t].refs

OwnAt(t) ==
    /\ StagesOf(t)
    /\ \A r \in Ref : Generations(t, r) /\ Follows(t, r) /\ ReadsFollow(t, r)
                      /\ StandaloneReads(t, r)

\* The inductive invariant.
OwnWrites == \A t \in Thread : OwnAt(t)

\* The store of the thread's engine and the rest of its operation.
SameEngine(t) ==
    LET e == EngineOf[t]
    IN /\ refGen'[e] = refGen[e] /\ gens'[e] = gens[e]
       /\ entry'[e] = entry[e] /\ known'[e] = known[e]
       /\ mark'[t] = mark[t] /\ saved'[t] = saved[t]

\* A ref that moves is noted, for the thread that did not move it.
MovesNoted(t) ==
    /\ moved[t] \subseteq moved'[t]
    /\ \A r \in Ref : r \notin moved'[t] => ref'[r] = ref[r]

\* A thread that does nothing, on an engine that does nothing, keeps its part
\* of the invariant whatever others write.
LEMMA OwnFrame ==
    ASSUME NEW t \in Thread, OwnAt(t), SameOperation(t), SameEngine(t), MovesNoted(t)
    PROVE  OwnAt(t)'
  <1>1. StagesOf(t)'
    BY DEF OwnAt, StagesOf, SameOperation
  <1>2. ASSUME NEW r \in Ref
        PROVE  (Generations(t, r) /\ Follows(t, r) /\ ReadsFollow(t, r) /\ StandaloneReads(t, r))'
    <2>1. Generations(t, r) /\ Follows(t, r) /\ ReadsFollow(t, r) /\ StandaloneReads(t, r)
      BY DEF OwnAt
    <2>2. /\ Written(t)' = Written(t) /\ NewContent(t, r)' = NewContent(t, r)
          /\ Outdated(EngineOf[t], r)' = Outdated(EngineOf[t], r)
      BY DEF SameOperation, SameEngine, Written, NewContent, Outdated
    <2>3. Generations(t, r)'
      BY <2>1, <2>2 DEF Generations, Unreported, SameOperation, SameEngine
    <2>4. Follows(t, r)'
      BY <2>1, <2>2 DEF Follows, Moving, SameOperation, SameEngine, MovesNoted
    <2>5. ReadsFollow(t, r)'
      BY <2>1, <2>2 DEF ReadsFollow, SameOperation, SameEngine, MovesNoted
    <2>6. StandaloneReads(t, r)'
      BY <2>1, <2>2 DEF StandaloneReads, SameOperation, SameEngine
    <2> QED
      BY <2>3, <2>4, <2>5, <2>6
  <1> QED
    BY <1>1, <1>2 DEF OwnAt

\* A step of one thread is such a frame for every other: it has an engine of
\* its own, and what it moves is noted.
LEMMA OthersFrame ==
    ASSUME TypeOK, OneThreadPerEngine, NEW u \in Thread, Start(u) \/ Step(u),
           NEW t \in Thread, t # u
    PROVE  SameOperation(t) /\ SameEngine(t) /\ MovesNoted(t)
  <1> USE DEF gitVars, storeVars, readVars, jobVars, recordVars
  <1>1. StoreTypeOK /\ OperationTypeOK /\ RecordTypeOK /\ ref \in [Ref -> Version]
    BY DEF TypeOK
  <1>2. EngineOf[t] # EngineOf[u] /\ EngineOf[t] \in Engine /\ EngineOf[u] \in Engine
    BY EngineOfType DEF OneThreadPerEngine
  <1>3. SameOperation(t)
    BY OthersUndisturbed
  <1>4. ASSUME UNCHANGED <<ref, moved>> PROVE MovesNoted(t)
    BY <1>4 DEF MovesNoted
  <1>5. ASSUME UNCHANGED <<refGen, gens, entry, known, mark, saved>> PROVE SameEngine(t)
    BY <1>5 DEF SameEngine
  <1>6. ASSUME Retire({u}) PROVE mark'[t] = mark[t] /\ saved'[t] = saved[t]
    BY <1>6 DEF Retire
  <1>7. ASSUME NEW refs, Drop(EngineOf[u], refs)
        PROVE  entry'[EngineOf[t]] = entry[EngineOf[t]] /\ known'[EngineOf[t]] = known[EngineOf[t]]
    BY <1>1, <1>2, <1>7 DEF Drop, StoreTypeOK
  <1>8. ASSUME Landed(u) PROVE MovesNoted(t)
    <2>1. moved'[t] = moved[t] \cup {r \in Ref : ref'[r] # ref[r]}
      BY <1>8 DEF Landed
    <2> QED
      BY <2>1 DEF MovesNoted
  <1>9. CASE Start(u)
    BY <1>1, <1>3, <1>9 DEF Start, SameEngine, MovesNoted, OperationTypeOK
  <1>10. CASE ReadMetadata(u) \/ ReadLocalMetadata(u)
    <2>1. MovesNoted(t)
      BY <1>4, <1>10 DEF ReadMetadata, ReadLocalMetadata
    <2>2. entry'[EngineOf[t]] = entry[EngineOf[t]] /\ known'[EngineOf[t]] = known[EngineOf[t]]
      BY <1>7, <1>10 DEF ReadMetadata, ReadLocalMetadata
    <2>3. UNCHANGED <<refGen, mark, saved>> /\ gens'[EngineOf[t]] = gens[EngineOf[t]]
      BY <1>1, <1>2, <1>10 DEF ReadMetadata, ReadLocalMetadata, StoreTypeOK
    <2> QED
      BY <1>3, <2>1, <2>2, <2>3 DEF SameEngine
  <1>11. CASE Fetch(u)
    BY <1>1, <1>2, <1>3, <1>4, <1>11 DEF Fetch, SameEngine, StoreTypeOK
  <1>12. CASE Prepared(u) \/ ListRefs(u) \/ Rebuilt(u) \/ RestackRejected(u)
    <2>1. UNCHANGED <<ref, moved, refGen, gens, entry, known>>
      BY <1>12 DEF Prepared, ListRefs, Rebuilt, RestackRejected
    <2>2. Retire({u}) \/ UNCHANGED <<mark, saved>>
      BY <1>12 DEF Prepared, ListRefs, Rebuilt, RestackRejected
    <2> QED
      BY <1>3, <1>4, <1>6, <2>1, <2>2 DEF SameEngine
  <1>13. CASE WriteBegin(u)
    <2>1. MovesNoted(t)
      BY <1>4, <1>13 DEF WriteBegin
    <2>2. entry'[EngineOf[t]] = entry[EngineOf[t]] /\ known'[EngineOf[t]] = known[EngineOf[t]]
      BY <1>7, <1>13 DEF WriteBegin
    <2>3. UNCHANGED <<refGen, gens, mark>> /\ saved'[t] = saved[t]
      BY <1>1, <1>13 DEF WriteBegin, OperationTypeOK
    <2> QED
      BY <1>3, <2>1, <2>2, <2>3 DEF SameEngine
  <1>14. CASE UpdateRefs(u) \/ DeleteMetadata(u)
    BY <1>3, <1>5, <1>8, <1>14 DEF UpdateRefs, DeleteMetadata
  <1>15. CASE UpdateRefsRejected(u)
    BY <1>1, <1>3, <1>5, <1>15 DEF UpdateRefsRejected, MovesNoted, RecordTypeOK
  <1>16. CASE MarkRefChanged(u)
    BY <1>1, <1>2, <1>3, <1>4, <1>16 DEF MarkRefChanged, SameEngine, StoreTypeOK
  <1>17. CASE RecordCommitted(u)
    <2>1. MovesNoted(t)
      BY <1>4, <1>17 DEF RecordCommitted
    <2>2. /\ refGen' = refGen /\ gens'[EngineOf[t]] = gens[EngineOf[t]]
          /\ entry'[EngineOf[t]] = entry[EngineOf[t]] /\ known'[EngineOf[t]] = known[EngineOf[t]]
      BY <1>1, <1>2, <1>17 DEF RecordCommitted, StoreTypeOK
    <2>3. Retire({u}) \/ UNCHANGED <<mark, saved>>
      BY <1>17 DEF RecordCommitted
    <2> QED
      BY <1>3, <1>6, <2>1, <2>2, <2>3 DEF SameEngine
  <1>18. CASE WriteDone(u)
    <2>1. MovesNoted(t)
      BY <1>4, <1>18 DEF WriteDone
    <2>2. /\ refGen' = refGen /\ gens'[EngineOf[t]] = gens[EngineOf[t]]
          /\ entry'[EngineOf[t]] = entry[EngineOf[t]] /\ known'[EngineOf[t]] = known[EngineOf[t]]
      BY <1>1, <1>2, <1>18 DEF WriteDone, StoreTypeOK
    <2> QED
      BY <1>3, <1>6, <1>18, <2>1, <2>2 DEF WriteDone, SameEngine
  <1>19. CASE Forget(u) \/ TxRejected(u) \/ WriteRejected(u) \/ ClearMetadataCache(u)
    <2>1. MovesNoted(t)
      BY <1>4, <1>19 DEF Forget, TxRejected, WriteRejected, ClearMetadataCache
    <2>2. entry'[EngineOf[t]] = entry[EngineOf[t]] /\ known'[EngineOf[t]] = known[EngineOf[t]]
      BY <1>7, <1>19 DEF Forget, TxRejected, WriteRejected, ClearMetadataCache
    <2>3. refGen' = refGen /\ gens'[EngineOf[t]] = gens[EngineOf[t]]
      BY <1>1, <1>2, <1>19 DEF Forget, TxRejected, WriteRejected, ClearMetadataCache, StoreTypeOK
    <2>4. Retire({u}) \/ UNCHANGED <<mark, saved>>
      BY <1>19 DEF Forget, TxRejected, WriteRejected, ClearMetadataCache
    <2> QED
      BY <1>3, <1>6, <2>1, <2>2, <2>3, <2>4 DEF SameEngine
  <1> QED
    BY <1>9, <1>10, <1>11, <1>12, <1>13, <1>14, <1>15, <1>16, <1>17, <1>18, <1>19 DEF Step

-----------------------------------------------------------------------------
(* The thread's own steps, one lemma per action.                           *)

\* Dropping records, seen at one ref.
LEMMA DropAt ==
    ASSUME StoreTypeOK, NEW e \in Engine, NEW refs, Drop(e, refs), NEW r \in Ref
    PROVE  /\ entry'[e][r] = IF r \in refs THEN NoEntry ELSE entry[e][r]
           /\ r \in known'[e] <=> r \in known[e] /\ r \notin refs
  BY DEF Drop, StoreTypeOK

\* Both refs of a branch include the one that names it.
LEMMA BranchRefsInclude ==
    ASSUME NEW refs, NEW r \in Ref, r \in refs
    PROVE  r \in BranchRefs(refs)
  BY DEF BranchRefs

\* A thread whose operation has ended owes no more than a coherent store.
LEMMA OwnRetired ==
    ASSUME OperationTypeOK, NEW t \in Thread, NEW S, t \in S, Retire(S),
           \A r \in Ref :
             LET e == EngineOf[t]
             IN /\ gens'[e][r] <= refGen'[e][r]
                /\ gens'[e][r] # refGen'[e][r] => entry'[e][r] = NoEntry /\ r \notin known'[e]
                /\ r \in known'[e] /\ entry'[e][r] # NoEntry => entry'[e][r].sha = Absent
                /\ gens'[e][r] = refGen'[e][r] /\ r \notin moved'[t]
                     => /\ entry'[e][r] # NoEntry => entry'[e][r].sha = ref'[r]
                        /\ r \in known'[e] => ref'[r] = Absent
    PROVE  OwnAt(t)'
  <1>1. pc'[t] = "idle" /\ job'[t] = NoJob /\ reload'[t] = FALSE
    BY DEF Retire
  <1>2. job'[t].op = "rebuild" /\ job'[t].refs = {}
    BY <1>1 DEF NoJob
  <1>3. StagesOf(t)'
    BY <1>1, <1>2 DEF StagesOf
  <1>4. ASSUME NEW r \in Ref
        PROVE  (Generations(t, r) /\ Follows(t, r) /\ ReadsFollow(t, r) /\ StandaloneReads(t, r))'
    BY <1>1, <1>2 DEF Generations, Follows, ReadsFollow, StandaloneReads, Outdated, Moving
  <1> QED
    BY <1>3, <1>4 DEF OwnAt

\* A new operation has read and written nothing.
LEMMA OwnStart ==
    ASSUME Paired, NEW t \in Thread, OwnAt(t), Start(t)
    PROVE  OwnAt(t)'
  <1> USE DEF gitVars, storeVars, readVars, jobVars, recordVars
  <1>1. TypeOK /\ OperationTypeOK /\ StagesInOrder
    BY DEF Paired, TypeOK
  <1>2. PICK j \in Jobs, m \in Mark \ used :
          /\ job' = [job EXCEPT ![t] = j]
          /\ mark' = [mark EXCEPT ![t] = {m}]
          /\ want' = [want EXCEPT ![t] = IF j.op = "untrack" THEN {} ELSE j.refs]
          /\ pc' = [pc EXCEPT ![t] = CASE j.op = "untrack" -> "erase"
                                       [] j.op = "rebuild" -> "clear"
                                       [] OTHER -> "read"]
    BY DEF Start
  <1>3. /\ job'[t] = j /\ want'[t] = IF j.op = "untrack" THEN {} ELSE j.refs
        /\ pc'[t] = IF j.op = "untrack" THEN "erase" ELSE IF j.op = "rebuild" THEN "clear" ELSE "read"
        /\ pc[t] = "idle" /\ UNCHANGED <<ref, refGen, gens, entry, known, moved, reload>>
    BY <1>1, <1>2 DEF Start, OperationTypeOK
  <1>4. StagesOf(t)'
    BY <1>3 DEF StagesOf, OwnAt
  <1>5. ASSUME NEW r \in Ref
        PROVE  (Generations(t, r) /\ Follows(t, r) /\ ReadsFollow(t, r) /\ StandaloneReads(t, r))'
    <2>1. Generations(t, r) /\ Follows(t, r)
      BY DEF OwnAt
    <2>2. Generations(t, r)' /\ Follows(t, r)'
      BY <1>3, <2>1 DEF Generations, Follows, Outdated, Moving, Unreported
    <2>3. ReadsFollow(t, r)' /\ StandaloneReads(t, r)'
      BY <1>3 DEF ReadsFollow, StandaloneReads
    <2> QED
      BY <2>2, <2>3
  <1> QED
    BY <1>4, <1>5 DEF OwnAt

\* Hits are served at a version that follows the ref; what is missed holds no
\* record.
LEMMA OwnReadMetadata ==
    ASSUME Paired, NEW t \in Thread, OwnAt(t), ReadMetadata(t)
    PROVE  OwnAt(t)'
  <1> USE DEF gitVars, storeVars, readVars, jobVars, recordVars
  <1> DEFINE e == EngineOf[t]
             asked == want[t] \cap Shared
             stale == {r \in asked : Outdated(e, r)}
             hits == {r \in asked \ stale : entry[e][r] # NoEntry}
             misses == asked \ hits
  <1>1. TypeOK /\ StoreTypeOK /\ OperationTypeOK /\ StagesInOrder /\ CachePaired /\ e \in Engine
    BY EngineOfType DEF Paired, TypeOK
  <1>2. /\ pc[t] = "read" /\ Drop(e, stale)
        /\ Learn(t, hits, [r \in hits |-> entry[e][r]])
        /\ gens' = [gens EXCEPT ![e] = [r \in Ref |-> IF r \in misses THEN refGen[e][r] ELSE @[r]]]
        /\ want'[t] = want[t] \ asked /\ todo'[t] = misses
        /\ pc'[t] = (IF misses = {} THEN "read" ELSE "fetch")
        /\ UNCHANGED <<ref, refGen, moved, reload, job, mark, saved>>
    BY <1>1 DEF ReadMetadata, OperationTypeOK
  <1>3. todo[t] = {}
    BY <1>1, <1>2 DEF StagesInOrder
  <1>4. StagesOf(t)'
    BY <1>2 DEF StagesOf, OwnAt
  <1>5. ASSUME NEW r \in Ref
        PROVE  (Generations(t, r) /\ Follows(t, r) /\ ReadsFollow(t, r) /\ StandaloneReads(t, r))'
    <2>1. Generations(t, r) /\ Follows(t, r) /\ ReadsFollow(t, r) /\ StandaloneReads(t, r)
      BY DEF OwnAt
    <2>2. Outdated(e, r) => entry[e][r] = NoEntry /\ r \notin known[e]
      BY <1>2, <2>1 DEF Generations, Unreported
    <2>3. entry'[e][r] = entry[e][r] /\ (r \in known'[e] <=> r \in known[e])
      BY <1>1, <1>2, <2>2, DropAt
    <2>4. gens'[e][r] = IF r \in misses THEN refGen[e][r] ELSE gens[e][r]
      BY <1>1, <1>2 DEF StoreTypeOK
    <2>5. r \in misses => entry[e][r] = NoEntry
      BY <2>2
    <2>6. r \in hits => r \in Shared /\ entry[e][r] # NoEntry /\ ~Outdated(e, r)
      OBVIOUS
    <2>7. ~reload[t] => /\ r \in hits => base'[t][r] = entry[e][r].val /\ ver'[t][r] = entry[e][r].sha
                        /\ r \notin hits => base'[t][r] = base[t][r] /\ ver'[t][r] = ver[t][r]
      BY <1>1, <1>2, LearnAt
    <2>8. r \notin want'[t] /\ r \notin todo'[t] /\ r \notin hits => r \notin want[t] /\ r \notin todo[t]
      BY <1>2, <1>3
    <2>9. r \in todo'[t] => r \in misses
      BY <1>2
    <2>10. refGen[e][r] \in Nat
      BY <1>1 DEF StoreTypeOK
    <2> HIDE DEF misses, hits, stale, asked
    <2>11. Generations(t, r)'
      BY <1>2, <2>1, <2>3, <2>4, <2>5, <2>9, <2>2, <2>10 DEF Generations, Outdated, Unreported
    <2>12. Follows(t, r)'
      BY <1>2, <2>1, <2>2, <2>3, <2>4, <2>5 DEF Follows, Outdated, Moving
    <2>13. ReadsFollow(t, r)'
      BY <1>2, <2>1, <2>6, <2>7, <2>8 DEF ReadsFollow, Follows, Moving
    <2>14. StandaloneReads(t, r)'
      <3>1. r \in hits => entry[e][r].val = ContentOf(entry[e][r].sha)
        BY <1>1, <2>6 DEF CachePaired
      <3> QED
        BY <1>2, <2>1, <2>3, <2>6, <2>7, <2>8, <3>1 DEF StandaloneReads, OwnAt, StagesOf
    <2> QED
      BY <2>11, <2>12, <2>13, <2>14
  <1> QED
    BY <1>4, <1>5 DEF OwnAt

\* Local values are read from git.
LEMMA OwnReadLocalMetadata ==
    ASSUME Paired, NEW t \in Thread, OwnAt(t), ReadLocalMetadata(t)
    PROVE  OwnAt(t)'
  <1> USE DEF gitVars, storeVars, readVars, jobVars, recordVars
  <1> DEFINE e == EngineOf[t]
             asked == want[t] \cap Local
  <1>1. TypeOK /\ StoreTypeOK /\ OperationTypeOK /\ StagesInOrder /\ e \in Engine
    BY EngineOfType DEF Paired, TypeOK
  <1>2. /\ pc[t] = "read"
        /\ gens' = [gens EXCEPT ![e] = [r \in Ref |-> IF r \in asked THEN refGen[e][r] ELSE @[r]]]
        /\ want'[t] = want[t] \ asked /\ todo'[t] = asked /\ pc'[t] = "fetch"
        /\ UNCHANGED <<ref, refGen, entry, known, moved, base, ver, reload, job, mark, saved>>
    BY <1>1 DEF ReadLocalMetadata, OperationTypeOK
  <1>3. todo[t] = {}
    BY <1>1, <1>2 DEF StagesInOrder
  <1>4. StagesOf(t)'
    BY <1>2 DEF StagesOf, OwnAt
  <1>5. ASSUME NEW r \in Ref
        PROVE  (Generations(t, r) /\ Follows(t, r) /\ ReadsFollow(t, r) /\ StandaloneReads(t, r))'
    <2>1. Generations(t, r) /\ Follows(t, r) /\ ReadsFollow(t, r) /\ StandaloneReads(t, r)
      BY DEF OwnAt
    <2>2. gens'[e][r] = (IF r \in asked THEN refGen[e][r] ELSE gens[e][r]) /\ refGen[e][r] \in Nat
      BY <1>1, <1>2 DEF StoreTypeOK
    <2>3. Outdated(e, r) => entry[e][r] = NoEntry /\ r \notin known[e]
      BY <1>2, <2>1 DEF Generations, Unreported
    <2>4. r \notin want'[t] /\ r \notin todo'[t] => r \notin want[t] /\ r \notin todo[t]
      BY <1>2, <1>3
    <2>5. r \in todo'[t] => r \in asked
      BY <1>2
    <2> HIDE DEF asked
    <2>6. Generations(t, r)'
      BY <1>2, <2>1, <2>2, <2>3, <2>5 DEF Generations, Outdated, Unreported
    <2>7. Follows(t, r)'
      BY <1>2, <2>1, <2>2, <2>3 DEF Follows, Outdated, Moving
    <2>8. ReadsFollow(t, r)' /\ StandaloneReads(t, r)'
      BY <1>2, <2>1, <2>4 DEF ReadsFollow, StandaloneReads
    <2> QED
      BY <2>6, <2>7, <2>8
  <1> QED
    BY <1>4, <1>5 DEF OwnAt

\* What is fetched is what the ref holds, for the operation and the cache.
LEMMA OwnFetch ==
    ASSUME Paired, NEW t \in Thread, OwnAt(t), Fetch(t)
    PROVE  OwnAt(t)'
  <1> USE DEF gitVars, storeVars, readVars, jobVars, recordVars
  <1> DEFINE e == EngineOf[t]
  <1>1. TypeOK /\ StoreTypeOK /\ OperationTypeOK /\ StagesInOrder /\ e \in Engine
    BY EngineOfType DEF Paired, TypeOK
  <1>2. PICK q \in todo[t] :
          /\ Learn(t, {q}, [x \in {q} |-> [val |-> ContentOf(ref[q]), sha |-> ref[q]]])
          /\ entry' = [entry EXCEPT ![e][q] = Recorded(q, ContentOf(ref[q]), ref[q])]
          /\ known' = [known EXCEPT ![e] = @ \ {q}]
          /\ todo' = [todo EXCEPT ![t] = @ \ {q}]
          /\ pc' = [pc EXCEPT ![t] = IF todo[t] = {q} THEN "read" ELSE "fetch"]
    BY DEF Fetch
  <1>3. /\ pc[t] = "fetch" /\ todo'[t] = todo[t] \ {q} /\ pc'[t] \in {"read", "fetch"}
        /\ UNCHANGED <<ref, refGen, gens, moved, want, reload, job, mark, saved>>
    BY <1>1, <1>2 DEF Fetch, OperationTypeOK
  <1>4. StagesOf(t)'
    BY <1>3 DEF StagesOf, OwnAt
  <1>5. q \in Ref /\ ref[q] \in Version
    BY <1>1, <1>2 DEF TypeOK, OperationTypeOK
  <1>6. ASSUME NEW r \in Ref
        PROVE  (Generations(t, r) /\ Follows(t, r) /\ ReadsFollow(t, r) /\ StandaloneReads(t, r))'
    <2>1. Generations(t, r) /\ Follows(t, r) /\ ReadsFollow(t, r) /\ StandaloneReads(t, r)
      BY DEF OwnAt
    <2>2. /\ entry'[e][r] = IF r = q THEN Recorded(r, ContentOf(ref[r]), ref[r]) ELSE entry[e][r]
          /\ r \in known'[e] <=> r \in known[e] /\ r # q
      BY <1>1, <1>2, <1>5 DEF StoreTypeOK
    <2>3. ~reload[t] => /\ r = q => base'[t][r] = ContentOf(ref[r]) /\ ver'[t][r] = ref[r]
                        /\ r # q => base'[t][r] = base[t][r] /\ ver'[t][r] = ver[t][r]
      BY <1>1, <1>2, LearnAt
    <2>4. LET record == Recorded(r, ContentOf(ref[r]), ref[r])
          IN /\ record # NoEntry => record.sha = ref[r]
             /\ record = NoEntry => ref[r] = Absent
      <3>1. ref[r] \in Version
        BY <1>1 DEF TypeOK
      <3>2. ref[r] # Anything
        BY <3>1, ConstantsAssumption DEF Version
      <3>3. \A val : [val |-> val, sha |-> ref[r]] # NoEntry
        BY <3>2 DEF NoEntry
      <3> QED
        BY <3>3 DEF Recorded
    <2>5. ContentOf(Absent) = {}
      BY DEF ContentOf
    <2>6. r = q => ~Outdated(e, r)
      BY <1>2, <1>3, <2>1 DEF Generations
    <2>7. r \notin want'[t] /\ r \notin todo'[t] /\ r # q => r \notin want[t] /\ r \notin todo[t]
      BY <1>3
    <2>8. Generations(t, r)'
      BY <1>3, <2>1, <2>2, <2>6 DEF Generations, Outdated, Unreported
    <2>9. Follows(t, r)'
      BY <1>3, <2>1, <2>2, <2>4 DEF Follows, Outdated, Moving
    <2>10. ReadsFollow(t, r)'
      BY <1>3, <2>1, <2>3, <2>7 DEF ReadsFollow
    <2>11. StandaloneReads(t, r)'
      <3>1. job[t].op = "direct" => ~reload[t]
        BY DEF OwnAt, StagesOf
      <3> QED
        BY <1>3, <2>1, <2>2, <2>3, <2>4, <2>5, <2>7, <3>1 DEF StandaloneReads
    <2> QED
      BY <2>8, <2>9, <2>10, <2>11
  <1> QED
    BY <1>4, <1>6 DEF OwnAt

\* What is known of the fields of an operation under way.
LEMMA JobForm ==
    ASSUME OperationTypeOK, NEW t \in Thread
    PROVE  /\ job[t].refs \subseteq Ref /\ job[t].del \subseteq job[t].refs
           /\ job[t].op # "tx" => job[t].del = {}
           /\ job[t].op = "rebuild" => job[t].refs = {}
           /\ job[t].op \in {"direct", "restack", "untrack"} => \E r \in Ref : job[t].refs = {r}
           /\ job[t].op \in {"tx", "direct", "flag", "restack", "untrack", "rebuild"}
  <1>1. CASE job[t] \in Jobs
    BY <1>1, JobType, ConstantsAssumption DEF WellFormed
  <1>2. CASE job[t] = NoJob
    BY <1>2 DEF NoJob
  <1> QED
    BY <1>1, <1>2 DEF OperationTypeOK

\* What git leaves in a ref whose batch it applies.
LEMMA BatchLeaves ==
    ASSUME OperationTypeOK, NEW t \in Thread, job[t].op # "untrack", NEW r \in Written(t)
    PROVE  Result(Batch(t)[r]) = IF r \in job[t].del THEN Absent ELSE NewContent(t, r)
  <1>1. r \in job[t].refs
    BY DEF Written
  <1>2. job[t].op \in {"tx", "direct", "flag", "restack"}
    BY <1>1, JobForm
  <1>3. job[t].op # "tx" => r \notin job[t].del
    BY JobForm
  <1>4. CASE job[t].op = "tx"
    BY <1>4 DEF Batch, Result, Swap, DeleteMatching, Update
  <1>5. CASE job[t].op = "direct"
    BY <1>3, <1>5 DEF Batch, Result, Swap, Put, Update
  <1>6. CASE job[t].op = "flag"
    BY <1>3, <1>6 DEF Batch, Result, Put, Update
  <1>7. CASE job[t].op = "restack"
    BY <1>3, <1>7 DEF Batch, Result, Match, Update
  <1> QED
    BY <1>2, <1>4, <1>5, <1>6, <1>7

\* The operation has read all that it writes; what it demands follows, and a
\* standalone write demands the version its cached read belongs to.
LEMMA OwnPrepare ==
    ASSUME Paired, NEW t \in Thread, OwnAt(t), Prepared(t) \/ ListRefs(t)
    PROVE  OwnAt(t)'
  <1> USE DEF gitVars, storeVars, readVars, jobVars, recordVars
  <1>1. TypeOK /\ OperationTypeOK /\ StagesInOrder
    BY DEF Paired, TypeOK
  <1>2. CASE Prepared(t)
    <2>1. /\ pc[t] = "read" /\ want[t] = {} /\ ~reload[t]
          /\ pc'[t] = (IF job[t].op = "restack" THEN "list"
                       ELSE IF job[t].op = "direct" THEN "begin" ELSE "write")
          /\ UNCHANGED <<ref, refGen, gens, entry, known, moved, base, ver, want, todo, reload,
                         job, mark, saved>>
      BY <1>1, <1>2 DEF Prepared, OperationTypeOK
    <2>2. StagesOf(t)'
      BY <2>1 DEF StagesOf, OwnAt
    <2>3. ASSUME NEW r \in Ref
          PROVE  (Generations(t, r) /\ Follows(t, r) /\ ReadsFollow(t, r) /\ StandaloneReads(t, r))'
      <3>1. Generations(t, r) /\ Follows(t, r) /\ ReadsFollow(t, r) /\ StandaloneReads(t, r)
        BY DEF OwnAt
      <3>2. Generations(t, r)' /\ Follows(t, r)'
        BY <2>1, <3>1 DEF Generations, Follows, Outdated, Moving, Unreported
      <3>3. ReadsFollow(t, r)' /\ StandaloneReads(t, r)'
        BY <2>1, <3>1 DEF ReadsFollow, StandaloneReads
      <3> QED
        BY <3>2, <3>3
    <2> QED
      BY <2>2, <2>3 DEF OwnAt
  <1>3. CASE ListRefs(t)
    <2>1. /\ pc[t] = "list" /\ ver'[t] = ref /\ pc'[t] = "write" /\ job[t].op = "restack"
          /\ UNCHANGED <<ref, refGen, gens, entry, known, moved, base, want, todo, reload,
                         job, mark, saved>>
      BY <1>1, <1>3 DEF ListRefs, OperationTypeOK, StagesInOrder
    <2>2. StagesOf(t)'
      BY <2>1 DEF StagesOf, OwnAt
    <2>3. ASSUME NEW r \in Ref
          PROVE  (Generations(t, r) /\ Follows(t, r) /\ ReadsFollow(t, r) /\ StandaloneReads(t, r))'
      <3>1. Generations(t, r) /\ Follows(t, r) /\ ReadsFollow(t, r) /\ StandaloneReads(t, r)
        BY DEF OwnAt
      <3>2. Generations(t, r)' /\ Follows(t, r)'
        BY <2>1, <3>1 DEF Generations, Follows, Outdated, Moving, Unreported
      <3>3. ReadsFollow(t, r)' /\ StandaloneReads(t, r)'
        BY <2>1, <3>1 DEF ReadsFollow, StandaloneReads
      <3> QED
        BY <3>2, <3>3
    <2> QED
      BY <2>2, <2>3 DEF OwnAt
  <1> QED
    BY <1>2, <1>3

LEMMA OwnWriteBegin ==
    ASSUME Paired, NEW t \in Thread, OwnAt(t), WriteBegin(t)
    PROVE  OwnAt(t)'
  <1> USE DEF gitVars, storeVars, readVars, jobVars, recordVars
  <1> DEFINE e == EngineOf[t]
  <1>1. TypeOK /\ StoreTypeOK /\ OperationTypeOK /\ StagesInOrder /\ e \in Engine
    BY EngineOfType DEF Paired, TypeOK
  <1>2. PICK q \in job[t].refs :
          /\ ver' = [ver EXCEPT ![t][q] = Expectation(e, q)]
          /\ Drop(e, IF Outdated(e, q) THEN {q} ELSE {})
          /\ saved' = [saved EXCEPT ![t] = refGen[e][q]]
    BY DEF WriteBegin
  <1>3. /\ pc[t] = "begin" /\ pc'[t] = "write" /\ job[t].op = "direct"
        /\ UNCHANGED <<ref, refGen, gens, moved, base, want, todo, reload, job, mark>>
    BY <1>1 DEF WriteBegin, OperationTypeOK, StagesInOrder
  <1>4. job[t].refs = {q} /\ q \in Ref
    BY <1>1, <1>2, <1>3, JobForm
  <1>5. ver'[t][q] = Expectation(e, q) /\ saved'[t] = refGen[e][q]
    BY <1>1, <1>2, <1>4 DEF OperationTypeOK
  <1>6. want[t] = {} /\ todo[t] = {}
    BY <1>1, <1>3 DEF OwnAt, StagesOf, StagesInOrder
  <1>7. StagesOf(t)'
    BY <1>3 DEF StagesOf, OwnAt
  <1>8. ASSUME NEW r \in Ref
        PROVE  (Generations(t, r) /\ Follows(t, r) /\ ReadsFollow(t, r) /\ StandaloneReads(t, r))'
    <2>1. Generations(t, r) /\ Follows(t, r) /\ ReadsFollow(t, r) /\ StandaloneReads(t, r)
      BY DEF OwnAt
    <2>2. Outdated(e, r) => entry[e][r] = NoEntry /\ r \notin known[e]
      BY <1>3, <2>1 DEF Generations, Unreported
    <2>3. entry'[e][r] = entry[e][r] /\ (r \in known'[e] <=> r \in known[e])
      BY <1>1, <1>2, <2>2, DropAt
    <2>4. Generations(t, r)'
      BY <1>3, <1>4, <1>5, <2>1, <2>3 DEF Generations, Outdated, Unreported
    <2>5. Follows(t, r)'
      BY <1>3, <2>1, <2>3 DEF Follows, Outdated, Moving
    <2>6. NoEntry.sha = Anything
      BY DEF NoEntry
    <2>7. ReadsFollow(t, r)'
      BY <1>3, <1>4, <1>5, <2>1, <2>2, <2>6 DEF ReadsFollow, Follows, Moving, Expectation
    <2>8. entry[e][r] # NoEntry => entry[e][r].sha # Anything
      <3>1. entry[e][r] # NoEntry => entry[e][r].sha \in Version
        BY <1>1 DEF StoreTypeOK, Entry
      <3> QED
        BY <3>1, ConstantsAssumption DEF Version
    <2>9. ContentOf(Absent) = {} /\ Absent # Anything
      BY ConstantsAssumption DEF ContentOf
    <2>10. StandaloneReads(t, r)'
      BY <1>3, <1>4, <1>5, <1>6, <2>1, <2>2, <2>6, <2>8, <2>9
         DEF StandaloneReads, Generations, Expectation
    <2> QED
      BY <2>4, <2>5, <2>7, <2>10
  <1> QED
    BY <1>7, <1>8 DEF OwnAt

\* An accepted write leaves in its refs what the operation says it does; one
\* it has left out, a deletion of what it found absent, is still absent.
LEMMA OwnUpdateRefs ==
    ASSUME Paired, NEW t \in Thread, OwnAt(t), UpdateRefs(t)
    PROVE  OwnAt(t)'
  <1> USE DEF gitVars, storeVars, readVars, jobVars, recordVars
  <1> DEFINE e == EngineOf[t]
  <1>1. TypeOK /\ StoreTypeOK /\ OperationTypeOK /\ RecordTypeOK /\ StagesInOrder /\ e \in Engine
    BY EngineOfType DEF Paired, TypeOK
  <1>2. /\ pc[t] = "write" /\ pc'[t] = "mark" /\ ref' = Applied(ref, Batch(t))
        /\ moved'[t] = moved[t] \ Written(t)
        /\ UNCHANGED <<refGen, gens, entry, known, base, ver, want, todo, reload, job, mark, saved>>
    BY <1>1 DEF UpdateRefs, Landed, OperationTypeOK
  <1>3. StagesOf(t)'
    BY <1>2 DEF StagesOf, OwnAt
  <1>4. ASSUME NEW r \in Ref
        PROVE  (Generations(t, r) /\ Follows(t, r) /\ ReadsFollow(t, r) /\ StandaloneReads(t, r))'
    <2>1. Generations(t, r) /\ Follows(t, r) /\ ReadsFollow(t, r) /\ StandaloneReads(t, r)
      BY DEF OwnAt
    <2>2. ref'[r] = IF r \in Written(t) THEN Result(Batch(t)[r]) ELSE ref[r]
      BY <1>1, <1>2 DEF Applied, Batch, TypeOK
    <2>3. Written(t)' = Written(t) /\ NewContent(t, r)' = NewContent(t, r)
      BY <1>2 DEF Written, NewContent
    <2>4. Generations(t, r)'
      BY <1>2, <2>1 DEF Generations, Outdated, Unreported
    <2>5. Follows(t, r)'
      BY <1>2, <2>1, <2>2, <2>3 DEF Follows, Outdated, Moving
    <2>6. StandaloneReads(t, r)'
      BY <1>2 DEF StandaloneReads
    <2>7. ReadsFollow(t, r)'
      <3> SUFFICES ASSUME r \in job[t].refs, r \notin moved'[t], job[t].op # "untrack"
                   PROVE  ref'[r] = IF r \in job[t].del THEN Absent ELSE NewContent(t, r)
        BY <1>2, <2>3 DEF ReadsFollow
      <3>1. CASE r \in Written(t)
        BY <1>1, <2>2, <3>1, BatchLeaves
      <3>2. CASE r \notin Written(t)
        <4>1. job[t].op = "tx" /\ r \in job[t].del /\ ver[t][r] = Absent /\ r \notin moved[t]
          BY <1>2, <3>2 DEF Written
        <4>2. want[t] = {} /\ todo[t] = {} /\ ~reload[t]
          BY <1>1, <1>2, <4>1 DEF StagesInOrder
        <4>3. ref[r] = Absent
          BY <1>2, <2>1, <4>1, <4>2 DEF ReadsFollow
        <4> QED
          BY <2>2, <3>2, <4>1, <4>3
      <3> QED
        BY <3>1, <3>2
    <2> QED
      BY <2>4, <2>5, <2>6, <2>7
  <1> QED
    BY <1>3, <1>4 DEF OwnAt

\* A rejected write counts what others have moved as noticed, except that a
\* restack does not hear of it.
LEMMA OwnUpdateRefsRejected ==
    ASSUME Paired, NEW t \in Thread, OwnAt(t), UpdateRefsRejected(t)
    PROVE  OwnAt(t)'
  <1> USE DEF gitVars, storeVars, readVars, jobVars, recordVars
  <1>1. OperationTypeOK /\ RecordTypeOK
    BY DEF Paired, TypeOK
  <1>2. /\ pc[t] = "write" /\ pc'[t] = "rejected"
        /\ moved'[t] = (IF job[t].op = "restack" THEN moved[t] ELSE moved[t] \ job[t].refs)
        /\ UNCHANGED <<ref, refGen, gens, entry, known, base, ver, want, todo, reload, job, mark,
                       saved>>
    BY <1>1 DEF UpdateRefsRejected, OperationTypeOK, RecordTypeOK
  <1>3. StagesOf(t)'
    BY <1>2 DEF StagesOf, OwnAt
  <1>4. ASSUME NEW r \in Ref
        PROVE  (Generations(t, r) /\ Follows(t, r) /\ ReadsFollow(t, r) /\ StandaloneReads(t, r))'
    <2>1. Generations(t, r) /\ Follows(t, r)
      BY DEF OwnAt
    <2>2. Generations(t, r)' /\ Follows(t, r)'
      BY <1>2, <2>1 DEF Generations, Follows, Outdated, Moving, Unreported
    <2>3. ReadsFollow(t, r)' /\ StandaloneReads(t, r)'
      BY <1>2 DEF ReadsFollow, StandaloneReads
    <2> QED
      BY <2>2, <2>3
  <1> QED
    BY <1>3, <1>4 DEF OwnAt

LEMMA OwnDeleteMetadata ==
    ASSUME Paired, NEW t \in Thread, OwnAt(t), DeleteMetadata(t)
    PROVE  OwnAt(t)'
  <1> USE DEF gitVars, storeVars, readVars, jobVars, recordVars
  <1>1. TypeOK /\ OperationTypeOK /\ StagesInOrder
    BY DEF Paired, TypeOK
  <1>2. /\ pc[t] = "erase" /\ pc'[t] = "mark" /\ ref' = Applied(ref, Batch(t))
        /\ moved'[t] = moved[t] \ Written(t) /\ job[t].op = "untrack"
        /\ UNCHANGED <<refGen, gens, entry, known, base, ver, want, todo, reload, job, mark, saved>>
    BY <1>1 DEF DeleteMetadata, Landed, OperationTypeOK, StagesInOrder
  <1>3. StagesOf(t)'
    BY <1>2 DEF StagesOf, OwnAt
  <1>4. ASSUME NEW r \in Ref
        PROVE  (Generations(t, r) /\ Follows(t, r) /\ ReadsFollow(t, r) /\ StandaloneReads(t, r))'
    <2>1. Generations(t, r) /\ Follows(t, r)
      BY DEF OwnAt
    <2>2. r \notin Written(t) => ref'[r] = ref[r]
      BY <1>1, <1>2 DEF Applied, Batch, TypeOK
    <2>3. Written(t)' = Written(t)
      BY <1>2 DEF Written
    <2>4. Generations(t, r)'
      BY <1>2, <2>1 DEF Generations, Outdated, Unreported
    <2>5. Follows(t, r)'
      BY <1>2, <2>1, <2>2, <2>3 DEF Follows, Outdated, Moving
    <2>6. ReadsFollow(t, r)' /\ StandaloneReads(t, r)'
      BY <1>2 DEF ReadsFollow, StandaloneReads
    <2> QED
      BY <2>4, <2>5, <2>6
  <1> QED
    BY <1>3, <1>4 DEF OwnAt

\* Marking takes the records of what was written out of date, and nothing else.
LEMMA OwnMarkRefChanged ==
    ASSUME Paired, NEW t \in Thread, OwnAt(t), MarkRefChanged(t)
    PROVE  OwnAt(t)'
  <1> USE DEF gitVars, storeVars, readVars, jobVars, recordVars
  <1> DEFINE e == EngineOf[t]
  <1>1. TypeOK /\ StoreTypeOK /\ OperationTypeOK /\ e \in Engine
    BY EngineOfType DEF Paired, TypeOK
  <1>2. /\ pc[t] = "mark"
        /\ pc'[t] = (IF job[t].op = "direct" THEN "store"
                     ELSE IF job[t].op = "untrack" THEN "forget" ELSE "record")
        /\ want'[t] = (IF job[t].op \in {"direct", "untrack"} THEN {} ELSE job[t].refs)
        /\ refGen' = [refGen EXCEPT ![e] = [r \in Ref |-> IF r \in Written(t) THEN @[r] + 1 ELSE @[r]]]
        /\ UNCHANGED <<ref, gens, entry, known, moved, base, ver, todo, reload, job, mark, saved>>
    BY <1>1 DEF MarkRefChanged, OperationTypeOK
  <1>3. StagesOf(t)'
    BY <1>2 DEF StagesOf, OwnAt
  <1>4. ASSUME NEW r \in Ref
        PROVE  (Generations(t, r) /\ Follows(t, r) /\ ReadsFollow(t, r) /\ StandaloneReads(t, r))'
    <2>1. Generations(t, r) /\ Follows(t, r) /\ ReadsFollow(t, r)
      BY DEF OwnAt
    <2>2. refGen'[e][r] = (IF r \in Written(t) THEN refGen[e][r] + 1 ELSE refGen[e][r])
      BY <1>1, <1>2 DEF StoreTypeOK
    <2>3. refGen[e][r] \in Nat /\ gens[e][r] \in Nat /\ saved[t] \in Nat
      BY <1>1 DEF StoreTypeOK, OperationTypeOK
    <2>4. r \in Written(t) => r \in job[t].refs
      BY DEF Written
    <2>5. job[t].op = "direct" => Written(t) = job[t].refs
      BY DEF Written
    <2>6. NewContent(t, r)' = NewContent(t, r)
      BY <1>2 DEF NewContent
    <2>7. gens[e][r] <= refGen[e][r]
      BY <2>1 DEF Generations
    <2>8. Generations(t, r)'
      <3>1. gens'[e][r] <= refGen'[e][r]
        BY <1>2, <2>2, <2>3, <2>7
      <3>2. (Outdated(e, r) /\ ~Unreported(t, r) => entry[e][r] = NoEntry /\ r \notin known[e])'
        <4>1. r \in Written(t) => Unreported(t, r)'
          BY <1>2, <2>4 DEF Unreported
        <4> QED
          BY <1>2, <2>1, <2>2, <4>1 DEF Generations, Outdated, Unreported
      <3>3. job[t].op = "direct" /\ r \in job[t].refs => saved[t] + 1 = refGen'[e][r]
        BY <1>2, <2>1, <2>2, <2>3, <2>5 DEF Generations
      <3> QED
        BY <1>2, <2>1, <3>1, <3>2, <3>3 DEF Generations
    <2>9. Follows(t, r)'
      <3>1. r \in Written(t) => Outdated(e, r)'
        BY <1>2, <2>2, <2>3, <2>7 DEF Outdated
      <3>2. r \notin Written(t) => (Outdated(e, r)' <=> Outdated(e, r))
        BY <1>2, <2>2 DEF Outdated
      <3> QED
        BY <1>2, <2>1, <3>1, <3>2 DEF Follows, Moving
    <2>10. ReadsFollow(t, r)' /\ StandaloneReads(t, r)'
      BY <1>2, <2>1, <2>6 DEF ReadsFollow, StandaloneReads
    <2> QED
      BY <2>8, <2>9, <2>10
  <1> QED
    BY <1>3, <1>4 DEF OwnAt

\* What is recorded of a committed ref is the version the operation left there.
LEMMA CommittedFollows ==
    ASSUME TypeOK, NEW t \in Thread, NEW r \in Ref
    PROVE  /\ Committed(t, r) # NoEntry
                => Committed(t, r).sha = IF r \in job[t].del THEN Absent ELSE NewContent(t, r)
           /\ r \in job[t].del /\ Committed(t, r) # NoEntry => Committed(t, r).sha = Absent
  BY DEF Committed, Recorded

\* The report brings the records of a tier up to date with the refs.
LEMMA OwnRecordCommitted ==
    ASSUME Paired, NEW t \in Thread, OwnAt(t), RecordCommitted(t)
    PROVE  OwnAt(t)'
  <1> USE DEF gitVars, storeVars, readVars, jobVars, recordVars
  <1> DEFINE e == EngineOf[t]
             now == IF want[t] \cap Shared # {} THEN want[t] \cap Shared ELSE want[t]
             gone == now \cap job[t].del
  <1>1. TypeOK /\ StoreTypeOK /\ OperationTypeOK /\ StagesInOrder /\ e \in Engine
    BY EngineOfType DEF Paired, TypeOK
  <1>2. /\ pc[t] = "record"
        /\ entry' = [entry EXCEPT ![e] = [r \in Ref |-> IF r \in now THEN Committed(t, r) ELSE @[r]]]
        /\ known' = [known EXCEPT ![e] = (@ \ now) \cup gone]
        /\ gens' = [gens EXCEPT ![e] = [r \in Ref |-> IF r \in now THEN refGen[e][r] ELSE @[r]]]
        /\ UNCHANGED <<ref, refGen, moved>>
    BY DEF RecordCommitted
  <1>3. now \subseteq want[t]
    OBVIOUS
  <1>4. ASSUME NEW r \in Ref
        PROVE  /\ gens'[e][r] <= refGen'[e][r]
               /\ gens'[e][r] # refGen'[e][r] /\ r \notin want[t] \ now
                    => entry'[e][r] = NoEntry /\ r \notin known'[e]
               /\ r \in known'[e] /\ entry'[e][r] # NoEntry => entry'[e][r].sha = Absent
               /\ gens'[e][r] = refGen'[e][r] /\ r \notin moved'[t] /\ want[t] \subseteq job[t].refs
                    => /\ entry'[e][r] # NoEntry => entry'[e][r].sha = ref'[r]
                       /\ r \in known'[e] => ref'[r] = Absent
    <2>1. Generations(t, r) /\ Follows(t, r) /\ ReadsFollow(t, r)
      BY DEF OwnAt
    <2>2. /\ entry'[e][r] = IF r \in now THEN Committed(t, r) ELSE entry[e][r]
          /\ r \in known'[e] <=> (r \in known[e] /\ r \notin now) \/ (r \in now /\ r \in job[t].del)
          /\ gens'[e][r] = IF r \in now THEN refGen[e][r] ELSE gens[e][r]
      BY <1>1, <1>2 DEF StoreTypeOK
    <2>3. refGen[e][r] \in Nat /\ gens[e][r] \in Nat
      BY <1>1 DEF StoreTypeOK
    <2>4. job[t].op # "untrack"
      BY <1>2 DEF OwnAt, StagesOf
    <2>5. CASE r \in now
      <3>1. r \notin moved[t] /\ want[t] \subseteq job[t].refs
              => ref[r] = IF r \in job[t].del THEN Absent ELSE NewContent(t, r)
        BY <1>2, <1>3, <2>1, <2>4, <2>5 DEF ReadsFollow
      <3>2. r \in known'[e] <=> r \in job[t].del
        BY <2>2, <2>5
      <3> HIDE DEF now
      <3> QED
        BY <1>1, <1>2, <2>2, <2>3, <2>5, <3>1, <3>2, CommittedFollows
    <2>6. CASE r \notin now
      <3>1. entry'[e][r] = entry[e][r] /\ (r \in known'[e] <=> r \in known[e]) /\ gens'[e][r] = gens[e][r]
        BY <2>2, <2>6
      <3>2. ~Moving(t, r)
        BY <1>2 DEF Moving
      <3>3. r \in want[t] <=> r \in want[t] \ now
        BY <2>6
      <3> HIDE DEF now
      <3> QED
        BY <1>2, <2>1, <3>1, <3>2, <3>3 DEF Generations, Follows, Outdated, Unreported
    <2> QED
      BY <2>5, <2>6
  <1>5. want[t] \subseteq job[t].refs
    BY <1>2 DEF OwnAt, StagesOf
  <1>6. CASE want[t] = now
    <2>1. Retire({t})
      BY <1>6 DEF RecordCommitted
    <2>2. want[t] \ now = {}
      BY <1>6
    <2> HIDE DEF now
    <2> QED
      BY <1>1, <1>4, <1>5, <2>1, <2>2, OwnRetired
  <1>7. CASE want[t] # now
    <2>1. /\ want'[t] = want[t] \ now
          /\ UNCHANGED <<pc, base, ver, todo, reload, job, mark, saved>>
      BY <1>1, <1>7 DEF RecordCommitted, OperationTypeOK
    <2> HIDE DEF now
    <2>2. StagesOf(t)'
      BY <1>2, <1>5, <2>1 DEF StagesOf, OwnAt
    <2>3. ASSUME NEW r \in Ref
          PROVE  (Generations(t, r) /\ Follows(t, r) /\ ReadsFollow(t, r) /\ StandaloneReads(t, r))'
      <3>1. ReadsFollow(t, r)
        BY DEF OwnAt
      <3>2. job[t].op # "direct"
        BY <1>2 DEF OwnAt, StagesOf
      <3>3. NewContent(t, r)' = NewContent(t, r)
        BY <2>1 DEF NewContent
      <3>4. Generations(t, r)'
        BY <1>2, <1>4, <2>1, <3>2 DEF Generations, Outdated, Unreported
      <3>5. Follows(t, r)'
        BY <1>2, <1>4, <1>5, <2>1 DEF Follows, Outdated
      <3>6. ReadsFollow(t, r)' /\ StandaloneReads(t, r)'
        BY <1>2, <2>1, <3>1, <3>2, <3>3 DEF ReadsFollow, StandaloneReads
      <3> QED
        BY <3>4, <3>5, <3>6
    <2> QED
      BY <2>2, <2>3 DEF OwnAt
  <1> QED
    BY <1>6, <1>7

\* A standalone write records what it wrote at the generation it reached.
LEMMA OwnWriteDone ==
    ASSUME Paired, NEW t \in Thread, OwnAt(t), WriteDone(t)
    PROVE  OwnAt(t)'
  <1> DEFINE e == EngineOf[t]
  <1>1. TypeOK /\ StoreTypeOK /\ OperationTypeOK /\ e \in Engine
    BY EngineOfType DEF Paired, TypeOK
  <1>2. PICK q \in job[t].refs :
          /\ entry' = [entry EXCEPT ![e][q] = Recorded(q, NewContent(t, q), NewContent(t, q))]
          /\ known' = [known EXCEPT ![e] = @ \ {q}]
          /\ gens' = [gens EXCEPT ![e][q] = saved[t] + 1]
    BY DEF WriteDone
  <1>3. pc[t] = "store" /\ Retire({t}) /\ UNCHANGED <<ref, refGen, moved>>
    BY DEF WriteDone, gitVars, recordVars
  <1>4. job[t].op = "direct"
    BY <1>3 DEF OwnAt, StagesOf
  <1>5. job[t].refs = {q} /\ q \in Ref /\ job[t].del = {}
    BY <1>1, <1>2, <1>4, JobForm
  <1>6. ASSUME NEW r \in Ref
        PROVE  /\ gens'[e][r] <= refGen'[e][r]
               /\ gens'[e][r] # refGen'[e][r] => entry'[e][r] = NoEntry /\ r \notin known'[e]
               /\ r \in known'[e] /\ entry'[e][r] # NoEntry => entry'[e][r].sha = Absent
               /\ gens'[e][r] = refGen'[e][r] /\ r \notin moved'[t]
                    => /\ entry'[e][r] # NoEntry => entry'[e][r].sha = ref'[r]
                       /\ r \in known'[e] => ref'[r] = Absent
    <2>1. Generations(t, r) /\ Follows(t, r) /\ ReadsFollow(t, r)
      BY DEF OwnAt
    <2>2. /\ entry'[e][r] = IF r = q THEN Recorded(r, NewContent(t, r), NewContent(t, r))
                            ELSE entry[e][r]
          /\ r \in known'[e] <=> r \in known[e] /\ r # q
          /\ gens'[e][r] = IF r = q THEN saved[t] + 1 ELSE gens[e][r]
      BY <1>1, <1>2, <1>5 DEF StoreTypeOK
    <2>3. refGen[e][r] \in Nat
      BY <1>1 DEF StoreTypeOK
    <2>4. CASE r = q
      <3>1. saved[t] + 1 = refGen[e][r]
        BY <1>3, <1>4, <1>5, <2>1, <2>4 DEF Generations
      <3>2. r \notin moved[t] => ref[r] = NewContent(t, r)
        BY <1>3, <1>4, <1>5, <2>1, <2>4 DEF ReadsFollow
      <3>3. LET record == Recorded(r, NewContent(t, r), NewContent(t, r))
            IN record # NoEntry => record.sha = NewContent(t, r)
        BY DEF Recorded
      <3> QED
        BY <1>3, <2>2, <2>3, <2>4, <3>1, <3>2, <3>3
    <2>5. CASE r # q
      BY <1>3, <1>5, <2>1, <2>2, <2>5 DEF Generations, Follows, Outdated, Moving, Unreported
    <2> QED
      BY <2>4, <2>5
  <1> QED
    BY <1>1, <1>3, <1>6, OwnRetired

\* What a step that drops records leaves of the store.
LEMMA DroppedFollows ==
    ASSUME StoreTypeOK, NEW t \in Thread, NEW refs, Drop(EngineOf[t], refs),
           UNCHANGED <<ref, refGen, moved>>, NEW r \in Ref,
           Generations(t, r), Follows(t, r), Moving(t, r) \/ Unreported(t, r) => r \in refs,
           gens'[EngineOf[t]][r] = gens[EngineOf[t]][r]
             \/ (r \in refs /\ gens'[EngineOf[t]][r] = 0)
    PROVE  LET e == EngineOf[t]
           IN /\ gens'[e][r] <= refGen'[e][r]
              /\ gens'[e][r] # refGen'[e][r] => entry'[e][r] = NoEntry /\ r \notin known'[e]
              /\ r \in known'[e] /\ entry'[e][r] # NoEntry => entry'[e][r].sha = Absent
              /\ gens'[e][r] = refGen'[e][r] /\ r \notin moved'[t]
                   => /\ entry'[e][r] # NoEntry => entry'[e][r].sha = ref'[r]
                      /\ r \in known'[e] => ref'[r] = Absent
  <1> DEFINE e == EngineOf[t]
  <1>1. e \in Engine
    BY EngineOfType
  <1>2. /\ entry'[e][r] = IF r \in refs THEN NoEntry ELSE entry[e][r]
        /\ r \in known'[e] <=> r \in known[e] /\ r \notin refs
    BY <1>1, DropAt
  <1>3. refGen[e][r] \in Nat /\ gens[e][r] \in Nat
    BY <1>1 DEF StoreTypeOK
  <1>4. gens'[e][r] <= refGen'[e][r]
    BY <1>3 DEF Generations
  <1>5. CASE r \in refs
    BY <1>2, <1>4, <1>5
  <1>6. CASE r \notin refs
    BY <1>2, <1>4, <1>6 DEF Generations, Follows, Outdated
  <1> QED
    BY <1>5, <1>6

\* The steps that drop records and stay in the operation do so to rebuild.
LEMMA OwnDropped ==
    ASSUME Paired, NEW t \in Thread, OwnAt(t), NEW refs, Drop(EngineOf[t], refs),
           UNCHANGED <<ref, refGen, moved>>, job'[t] = job[t], job[t].op # "direct",
           \/ pc'[t] = "clear"
           \/ pc'[t] = "read" /\ reload'[t],
           \A r \in Ref : /\ Moving(t, r) \/ Unreported(t, r) => r \in refs
                          /\ \/ gens'[EngineOf[t]][r] = gens[EngineOf[t]][r]
                             \/ r \in refs /\ gens'[EngineOf[t]][r] = 0
    PROVE  OwnAt(t)'
  <1>1. StoreTypeOK
    BY DEF Paired, TypeOK
  <1>2. StagesOf(t)'
    BY DEF StagesOf
  <1>3. ASSUME NEW r \in Ref
        PROVE  (Generations(t, r) /\ Follows(t, r) /\ ReadsFollow(t, r) /\ StandaloneReads(t, r))'
    <2> DEFINE e == EngineOf[t]
    <2>1. Generations(t, r) /\ Follows(t, r)
      BY DEF OwnAt
    <2>2. /\ gens'[e][r] <= refGen'[e][r]
          /\ gens'[e][r] # refGen'[e][r] => entry'[e][r] = NoEntry /\ r \notin known'[e]
          /\ r \in known'[e] /\ entry'[e][r] # NoEntry => entry'[e][r].sha = Absent
          /\ gens'[e][r] = refGen'[e][r] /\ r \notin moved'[t]
               => /\ entry'[e][r] # NoEntry => entry'[e][r].sha = ref'[r]
                  /\ r \in known'[e] => ref'[r] = Absent
      BY <1>1, <2>1, DroppedFollows
    <2>3. Generations(t, r)' /\ Follows(t, r)'
      BY <2>2 DEF Generations, Follows, Outdated
    <2>4. ReadsFollow(t, r)' /\ StandaloneReads(t, r)'
      BY DEF ReadsFollow, StandaloneReads
    <2> QED
      BY <2>3, <2>4
  <1> QED
    BY <1>2, <1>3 DEF OwnAt

\* The records of what was deleted, rejected, or all records, are dropped.
LEMMA OwnInvalidate ==
    ASSUME Paired, NEW t \in Thread, OwnAt(t),
           \/ Forget(t) \/ TxRejected(t) \/ WriteRejected(t) \/ RestackRejected(t)
           \/ ClearMetadataCache(t)
    PROVE  OwnAt(t)'
  <1> USE DEF gitVars, storeVars, readVars, jobVars, recordVars
  <1> DEFINE e == EngineOf[t]
  <1>1. TypeOK /\ StoreTypeOK /\ OperationTypeOK /\ StagesInOrder /\ e \in Engine
    BY EngineOfType DEF Paired, TypeOK
  <1>2. CASE Forget(t)
    <2>1. /\ pc[t] = "forget" /\ pc'[t] = "clear" /\ Drop(e, BranchRefs(job[t].refs))
          /\ UNCHANGED <<ref, refGen, gens, moved, job>>
      BY <1>1, <1>2 DEF Forget, OperationTypeOK
    <2>2. job[t].op # "direct"
      BY <2>1 DEF OwnAt, StagesOf
    <2>3. \A r \in Ref : Moving(t, r) \/ Unreported(t, r) => r \in BranchRefs(job[t].refs)
      BY <2>1, BranchRefsInclude DEF Moving, Unreported
    <2> QED
      BY <2>1, <2>2, <2>3, OwnDropped
  <1>3. CASE TxRejected(t)
    <2> DEFINE staged == StagedRefs(t)
    <2>1. /\ pc[t] = "rejected" /\ job[t].op = "tx" /\ Drop(e, staged)
          /\ gens' = [gens EXCEPT ![e] = [r \in Ref |-> IF r \in staged THEN 0 ELSE @[r]]]
          /\ UNCHANGED <<ref, refGen, moved>>
      BY <1>3 DEF TxRejected
    <2>2. \A r \in Ref : Moving(t, r) \/ Unreported(t, r) => r \in staged
      BY <2>1, BranchRefsInclude DEF Moving, Unreported, StagedRefs
    <2>3. \A r \in Ref : gens'[e][r] = gens[e][r] \/ (r \in staged /\ gens'[e][r] = 0)
      BY <1>1, <2>1 DEF StoreTypeOK
    <2> HIDE DEF staged
    <2>4. CASE job[t].retry
      <3>1. pc'[t] = "clear" /\ job' = job
        BY <1>1, <1>3, <2>4 DEF TxRejected, OperationTypeOK
      <3> QED
        BY <2>1, <2>2, <2>3, <3>1, OwnDropped
    <2>5. CASE ~job[t].retry
      <3>1. Retire({t})
        BY <1>3, <2>5 DEF TxRejected
      <3>2. \A r \in Ref : Generations(t, r) /\ Follows(t, r)
        BY DEF OwnAt
      <3> QED
        BY <1>1, <2>1, <2>2, <2>3, <3>1, <3>2, DroppedFollows, OwnRetired
    <2> QED
      BY <2>4, <2>5
  <1>4. CASE WriteRejected(t)
    <2>1. /\ pc[t] = "rejected" /\ Drop(e, BranchRefs(job[t].refs)) /\ Retire({t})
          /\ UNCHANGED <<ref, refGen, gens, moved>>
      BY <1>4 DEF WriteRejected
    <2>2. \A r \in Ref : Moving(t, r) \/ Unreported(t, r) => r \in BranchRefs(job[t].refs)
      BY <2>1, BranchRefsInclude DEF Moving, Unreported
    <2>3. \A r \in Ref : Generations(t, r) /\ Follows(t, r)
      BY DEF OwnAt
    <2> QED
      BY <1>1, <2>1, <2>2, <2>3, DroppedFollows, OwnRetired
  <1>5. CASE RestackRejected(t)
    <2>1. /\ pc[t] = "rejected" /\ job[t].op = "restack" /\ Retire({t})
          /\ UNCHANGED <<ref, refGen, gens, entry, known, moved>>
      BY <1>5 DEF RestackRejected
    <2>2. \A r \in Ref : Generations(t, r) /\ Follows(t, r)
      BY DEF OwnAt
    <2>3. \A r \in Ref : ~Moving(t, r) /\ ~Unreported(t, r)
      BY <2>1 DEF Moving, Unreported
    <2> QED
      BY <1>1, <2>1, <2>2, <2>3, OwnRetired DEF Generations, Follows, Outdated
  <1>6. CASE ClearMetadataCache(t)
    <2>1. /\ pc[t] = "clear" /\ pc'[t] = "read" /\ Drop(e, Ref) /\ reload'[t] = TRUE
          /\ gens' = [gens EXCEPT ![e] = [r \in Ref |-> 0]]
          /\ UNCHANGED <<ref, refGen, moved, job>>
      BY <1>1, <1>6 DEF ClearMetadataCache, OperationTypeOK
    <2>2. job[t].op # "direct"
      BY <2>1 DEF OwnAt, StagesOf
    <2>3. \A r \in Ref : gens'[e][r] = 0
      BY <1>1, <2>1 DEF StoreTypeOK
    <2> QED
      BY <2>1, <2>2, <2>3, OwnDropped
  <1> QED
    BY <1>2, <1>3, <1>4, <1>5, <1>6

\* The next attempt of a retried transaction has read nothing yet.
LEMMA OwnRebuilt ==
    ASSUME Paired, NEW t \in Thread, OwnAt(t), Rebuilt(t)
    PROVE  OwnAt(t)'
  <1> USE DEF gitVars, storeVars, readVars, jobVars, recordVars
  <1>1. OperationTypeOK
    BY DEF Paired, TypeOK
  <1>2. pc[t] = "read" /\ UNCHANGED <<ref, refGen, gens, entry, known, moved>>
    BY DEF Rebuilt
  <1>3. ASSUME NEW r \in Ref
        PROVE  Generations(t, r) /\ Follows(t, r) /\ ~Moving(t, r) /\ ~Unreported(t, r)
    BY <1>2 DEF OwnAt, Moving, Unreported
  <1>4. CASE job[t].op = "tx" /\ tries[t] < MaxRetries
    <2>1. /\ want'[t] = job[t].refs /\ ~reload'[t]
          /\ UNCHANGED <<pc, base, ver, todo, job, mark, saved>>
      BY <1>1, <1>4 DEF Rebuilt, AttemptReads, OperationTypeOK
    <2>2. StagesOf(t)'
      BY <1>2, <1>4, <2>1 DEF StagesOf
    <2>3. ASSUME NEW r \in Ref
          PROVE  (Generations(t, r) /\ Follows(t, r) /\ ReadsFollow(t, r) /\ StandaloneReads(t, r))'
      <3>1. Generations(t, r)' /\ Follows(t, r)'
        BY <1>2, <1>3, <1>4, <2>1 DEF Generations, Follows, Outdated, Moving, Unreported
      <3>2. ReadsFollow(t, r)' /\ StandaloneReads(t, r)'
        BY <1>2, <1>4, <2>1 DEF ReadsFollow, StandaloneReads
      <3> QED
        BY <3>1, <3>2
    <2> QED
      BY <2>2, <2>3 DEF OwnAt
  <1>5. CASE ~(job[t].op = "tx" /\ tries[t] < MaxRetries)
    <2>1. Retire({t})
      BY <1>5 DEF Rebuilt
    <2> QED
      BY <1>1, <1>2, <1>3, <2>1, OwnRetired DEF Generations, Follows, Outdated
  <1> QED
    BY <1>4, <1>5

\* A restarted engine knows nothing; the others know what they knew.
LEMMA OwnRestart ==
    ASSUME Paired, NEW t \in Thread, OwnAt(t), NEW e \in Engine, Restart(e)
    PROVE  OwnAt(t)'
  <1> DEFINE mine == {u \in Thread : EngineOf[u] = e}
  <1>1. StoreTypeOK /\ OperationTypeOK /\ RecordTypeOK
    BY DEF Paired, TypeOK
  <1>2. /\ refGen' = [refGen EXCEPT ![e] = [r \in Ref |-> 0]]
        /\ gens' = [gens EXCEPT ![e] = [r \in Ref |-> 0]]
        /\ Drop(e, Ref) /\ Retire(mine) /\ ref' = ref
        /\ moved' = [u \in Thread |-> IF u \in mine THEN {} ELSE moved[u]]
    BY DEF Restart, gitVars
  <1>3. CASE EngineOf[t] = e
    <2>1. \A r \in Ref : /\ refGen'[e][r] = 0 /\ gens'[e][r] = 0
                         /\ entry'[e][r] = NoEntry /\ r \notin known'[e]
      BY <1>1, <1>2, DropAt DEF StoreTypeOK
    <2>2. t \in mine
      BY <1>3
    <2> HIDE DEF mine
    <2> QED
      BY <1>1, <1>2, <1>3, <2>1, <2>2, OwnRetired
  <1>4. CASE EngineOf[t] # e
    <2>1. SameOperation(t) /\ mark'[t] = mark[t] /\ saved'[t] = saved[t]
      BY <1>2, <1>4 DEF Retire, SameOperation
    <2>2. EngineOf[t] \in Engine
      BY EngineOfType
    <2>3. SameEngine(t)
      BY <1>1, <1>2, <1>4, <2>1, <2>2 DEF SameEngine, Drop, StoreTypeOK
    <2>4. MovesNoted(t)
      BY <1>2, <1>4 DEF MovesNoted
    <2> QED
      BY <2>1, <2>3, <2>4, OwnFrame
  <1> QED
    BY <1>3, <1>4

\* Every step keeps what engines know of their own writes true.
LEMMA OwnWritesStep ==
    ASSUME OneThreadPerEngine, Paired, OwnWrites, [Next]_vars
    PROVE  OwnWrites'
  <1> SUFFICES ASSUME NEW t \in Thread PROVE OwnAt(t)'
    BY DEF OwnWrites
  <1>1. OwnAt(t) /\ TypeOK
    BY DEF OwnWrites, Paired
  <1>2. ASSUME NEW u \in Thread, Start(u) \/ Step(u) PROVE OwnAt(t)'
    <2>1. CASE u # t
      <3>1. SameOperation(t) /\ SameEngine(t) /\ MovesNoted(t)
        BY <1>1, <1>2, <2>1, OthersFrame
      <3> QED
        BY <1>1, <3>1, OwnFrame
    <2>2. CASE u = t
      <3>1. Start(t) \/ Step(t)
        BY <1>2, <2>2
      <3> QED
        BY <1>1, <3>1, OwnStart, OwnReadMetadata, OwnReadLocalMetadata, OwnFetch, OwnPrepare,
           OwnWriteBegin, OwnUpdateRefs, OwnUpdateRefsRejected, OwnDeleteMetadata,
           OwnMarkRefChanged, OwnRecordCommitted, OwnWriteDone, OwnInvalidate, OwnRebuilt
           DEF Step
    <2> QED
      BY <2>1, <2>2
  <1>3. ASSUME NEW e \in Engine, Restart(e) PROVE OwnAt(t)'
    BY <1>1, <1>3, OwnRestart
  <1>4. CASE Finished \/ UNCHANGED vars
    <2>1. SameOperation(t) /\ SameEngine(t) /\ MovesNoted(t)
      BY <1>4 DEF Finished, vars, gitVars, storeVars, readVars, jobVars, recordVars,
                  SameOperation, SameEngine, MovesNoted
    <2> QED
      BY <1>1, <2>1, OwnFrame
  <1> QED
    BY <1>2, <1>3, <1>4 DEF Next

\* OwnWrites is an invariant of engines that have a thread each.
LEMMA OwnWritesHold ==
    ASSUME OneThreadPerEngine
    PROVE  Spec => []OwnWrites
  <1>1. Init => OwnWrites
    <2> SUFFICES ASSUME Init, NEW t \in Thread PROVE OwnAt(t)
      BY DEF OwnWrites
    <2>1. EngineOf[t] \in Engine
      BY EngineOfType
    <2>2. StagesOf(t)
      BY DEF Init, StagesOf, NoJob
    <2>3. ASSUME NEW r \in Ref
          PROVE  Generations(t, r) /\ Follows(t, r) /\ ReadsFollow(t, r) /\ StandaloneReads(t, r)
      BY <2>1 DEF Init, NoJob, Generations, Follows, ReadsFollow, StandaloneReads, Outdated
    <2> QED
      BY <2>2, <2>3 DEF OwnAt
  <1>2. Paired /\ OwnWrites /\ [Next]_vars => OwnWrites'
    BY OwnWritesStep
  <1> QED
    BY <1>1, <1>2, AlwaysPaired, PTL DEF Spec

-----------------------------------------------------------------------------
\* A record that is trusted says what its ref holds, unless another engine has
\* moved the ref: no commit, deletion, flag write or restack of an engine's own
\* leaves a stale record behind it (metadata_store.go's generations and
\* RecordCommitted), restarts included.
THEOREM CacheFollows ==
    ASSUME OneThreadPerEngine
    PROVE  Spec => []CacheFollowsOwnWrites
  <1>1. Paired /\ OwnWrites => CacheFollowsOwnWrites
    <2> SUFFICES ASSUME Paired, OwnWrites, NEW t \in Thread, NEW r \in Ref,
                        pc[t] \notin {"mark", "record", "store", "forget", "rejected"},
                        entry[EngineOf[t]][r] # NoEntry, ~Outdated(EngineOf[t], r),
                        r \notin moved[t]
                 PROVE  /\ entry[EngineOf[t]][r].sha = ref[r]
                        /\ r \in Shared => entry[EngineOf[t]][r].val = ContentOf(ref[r])
      BY DEF CacheFollowsOwnWrites
    <2>1. entry[EngineOf[t]][r].sha = ref[r]
      BY DEF OwnWrites, OwnAt, Follows, Moving
    <2> QED
      BY <2>1, EngineOfType DEF Paired, CachePaired
  <1> QED
    BY <1>1, OwnWritesHold, AlwaysPaired, PTL

\* Only the thread's own steps change where it stands, Restart aside.
LEMMA StepIsOwn ==
    ASSUME Paired, [Next]_vars, NEW t \in Thread, pc'[t] \notin {"idle", pc[t]}
    PROVE  Start(t) \/ Step(t)
  <1>1. TypeOK
    BY DEF Paired
  <1>2. ASSUME NEW u \in Thread, Start(u) \/ Step(u), u # t PROVE FALSE
    <2>1. SameOperation(t)
      BY <1>1, <1>2, OthersUndisturbed
    <2> QED
      BY <2>1 DEF SameOperation
  <1>3. ASSUME NEW e \in Engine, Restart(e) PROVE FALSE
    BY <1>3 DEF Restart, Retire
  <1>4. ~Finished /\ ~UNCHANGED vars
    BY DEF Finished, vars
  <1> QED
    BY <1>2, <1>3, <1>4 DEF Next

\* A swap demands precisely the version it names, absence included.
LEMMA SwapDemands ==
    ASSUME NEW new, NEW old
    PROVE  Demands(Swap(new, old)) = old
  <1>1. CASE old = Absent
    <2>1. Swap(new, old) = [new |-> new, old |-> Absent, mustNotExist |-> TRUE, isDelete |-> FALSE]
      BY <1>1 DEF Swap, Update
    <2> QED
      BY <1>1, <2>1 DEF Demands
  <1>2. CASE old # Absent
    <2>1. Swap(new, old) = [new |-> new, old |-> old, mustNotExist |-> FALSE, isDelete |-> FALSE]
      BY <1>2 DEF Swap, Update
    <2> QED
      BY <1>2, <2>1 DEF Demands
  <1> QED
    BY <1>1, <1>2

\* A deletion demands at most the version it names.
LEMMA DeleteDemands ==
    ASSUME NEW old
    PROVE  Demands(DeleteMatching(old)) \in {Anything, old}
  BY DEF Demands, DeleteMatching, Update

\* git accepts every batch none of whose refs others have moved.
LEMMA UnmovedIsAccepted ==
    ASSUME Paired, NEW t \in Thread, OwnAt(t), pc[t] = "write", job[t].refs \cap moved[t] = {}
    PROVE  Accepts(ref, Batch(t))
  <1> SUFFICES ASSUME NEW r \in Written(t) PROVE Demands(Batch(t)[r]) \in {Anything, ref[r]}
    BY DEF Accepts, Batch
  <1>1. TypeOK /\ OperationTypeOK /\ StagesInOrder
    BY DEF Paired, TypeOK
  <1>2. r \in job[t].refs /\ r \notin moved[t] /\ r \in Ref
    BY <1>1, JobForm DEF Written
  <1>3. ReadsFollow(t, r)
    BY <1>2 DEF OwnAt
  <1>4. ref[r] # Anything
    BY <1>1, <1>2, ConstantsAssumption DEF TypeOK, Version
  <1>5. CASE job[t].op = "tx"
    <2>1. ver[t][r] = ref[r]
      BY <1>1, <1>2, <1>3, <1>5 DEF ReadsFollow, StagesInOrder
    <2>2. Batch(t)[r] = IF r \in job[t].del THEN DeleteMatching(ver[t][r])
                        ELSE Swap(NewContent(t, r), ver[t][r])
      BY <1>5 DEF Batch
    <2> QED
      BY <2>1, <2>2, SwapDemands, DeleteDemands
  <1>6. CASE job[t].op = "direct"
    <2>1. ver[t][r] \in {Anything, ref[r]}
      BY <1>2, <1>3, <1>6 DEF ReadsFollow
    <2>2. Batch(t)[r] = IF ver[t][r] = Anything THEN Put(NewContent(t, r))
                        ELSE Swap(NewContent(t, r), ver[t][r])
      BY <1>6 DEF Batch
    <2>3. Demands(Put(NewContent(t, r))) = Anything
      BY DEF Demands, Put, Update
    <2> QED
      BY <2>1, <2>2, <2>3, SwapDemands
  <1>7. CASE job[t].op = "restack"
    <2>1. ver[t][r] \in {Anything, ref[r]}
      BY <1>2, <1>3, <1>7 DEF ReadsFollow
    <2>2. Batch(t)[r] = Match(NewContent(t, r), ver[t][r])
      BY <1>7 DEF Batch
    <2> QED
      BY <2>1, <2>2 DEF Demands, Match, Update
  <1>8. CASE job[t].op = "flag"
    <2>1. Batch(t)[r] = Put(NewContent(t, r))
      BY <1>8 DEF Batch
    <2> QED
      BY <2>1 DEF Demands, Put, Update
  <1>9. CASE job[t].op \in {"untrack", "rebuild"}
    <2>1. Batch(t)[r] = Delete
      BY <1>9 DEF Batch
    <2> QED
      BY <2>1 DEF Demands, Delete, Update
  <1> QED
    BY <1>1, <1>5, <1>6, <1>7, <1>8, <1>9, JobForm

\* A write is rejected only where another engine has moved one of its refs
\* since this one last wrote it or was last rejected on it (refExpectation,
\* MetadataTx.Commit): never because of the engine's own writes.
THEOREM RejectionsAreForeign ==
    ASSUME OneThreadPerEngine
    PROVE  Spec => RejectionsAreOwedToOthers
  <1>1. Paired /\ OwnWrites /\ [Next]_vars
        => [\A t \in Thread : pc[t] = "write" /\ pc'[t] = "rejected"
                => job[t].refs \cap moved[t] # {}]_vars
    <2> SUFFICES ASSUME Paired, OwnWrites, [Next]_vars, NEW t \in Thread, pc[t] = "write",
                        pc'[t] = "rejected"
                 PROVE  job[t].refs \cap moved[t] # {}
      OBVIOUS
    <2>1. OperationTypeOK /\ OwnAt(t)
      BY DEF Paired, TypeOK, OwnWrites
    <2>2. Start(t) \/ Step(t)
      BY StepIsOwn
    <2>3. ~UpdateRefs(t)
      BY <2>1 DEF UpdateRefs, OperationTypeOK
    <2>4. UpdateRefsRejected(t)
      BY <2>2, <2>3
         DEF Start, Step, ReadMetadata, ReadLocalMetadata, Fetch, Prepared, ListRefs, WriteBegin,
             DeleteMetadata, MarkRefChanged, RecordCommitted, WriteDone, Forget, TxRejected,
             WriteRejected, RestackRejected, ClearMetadataCache, Rebuilt
    <2>5. ~Accepts(ref, Batch(t))
      BY <2>4 DEF UpdateRefsRejected
    <2> QED
      BY <2>1, <2>5, UnmovedIsAccepted
  <1> QED
    BY <1>1, OwnWritesHold, AlwaysPaired, PTL DEF Spec, RejectionsAreOwedToOthers

\* What a ref records is dropped only by a write that is unconditional by
\* design, by a restack, or by a standalone write that had read no record at
\* all: a transaction drops nothing, and neither does a standalone write that
\* has read something (WriteMetadata's expectation is that of its read).
THEOREM DropsAreBlind ==
    ASSUME OneThreadPerEngine
    PROVE  Spec => UpdatesAreDroppedOnlyBlindly
  <1>1. Paired /\ OwnWrites /\ [Next]_vars
        => [\A r \in Ref, t \in Thread :
              /\ Writes(t) /\ r \in Written(t) /\ ~Saw(t, r)
              /\ ~(ContentOf(ref[r]) \subseteq ContentOf(ref'[r]))
              => \/ job[t].op \in {"untrack", "flag", "restack"}
                 \/ job[t].op = "direct" /\ ver[t][r] = Anything /\ base[t][r] = {}]_vars
    <2> SUFFICES ASSUME Paired, OwnWrites, [Next]_vars, NEW r \in Ref, NEW t \in Thread,
                        Writes(t), r \in Written(t), ~Saw(t, r),
                        job[t].op \notin {"untrack", "flag", "restack"}
                 PROVE  job[t].op = "direct" /\ ver[t][r] = Anything /\ base[t][r] = {}
      OBVIOUS
    <2>1. TypeOK /\ OperationTypeOK /\ StagesInOrder /\ OwnAt(t)
      BY DEF Paired, TypeOK, OwnWrites
    <2>2. r \in job[t].refs
      BY DEF Written
    <2>3. job[t].op # "tx"
      <3>1. job[t].op = "tx" => UpdateRefs(t)
        BY TransactionsWriteByUpdateRefs
      <3> QED
        BY <3>1, AcceptedVersions DEF UpdateRefs
    <2>4. job[t].op = "direct"
      BY <2>1, <2>2, <2>3, JobForm
    <2>5. pc[t] = "write" /\ pc'[t] = "mark"
      BY <2>1, <2>4 DEF Writes, StagesInOrder
    <2>6. StandaloneReads(t, r)
      BY <2>1 DEF OwnAt
    <2>7. ver[t][r] = Anything
      <3> SUFFICES ASSUME ver[t][r] # Anything PROVE FALSE
        OBVIOUS
      <3>1. Step(t)
        BY <2>5, StepIsOwn DEF Start
      <3>2. UpdateRefs(t)
        <4>1. UpdateRefs(t) \/ UpdateRefsRejected(t)
          BY <2>5, <3>1
             DEF Step, ReadMetadata, ReadLocalMetadata, Fetch, Prepared, ListRefs, WriteBegin,
                 DeleteMetadata, MarkRefChanged, RecordCommitted, WriteDone, Forget, TxRejected,
                 WriteRejected, RestackRejected, ClearMetadataCache, Rebuilt
        <4>2. ~UpdateRefsRejected(t)
          BY <2>1, <2>5 DEF UpdateRefsRejected, OperationTypeOK
        <4> QED
          BY <4>1, <4>2
      <3>3. Batch(t)[r] = Swap(NewContent(t, r), ver[t][r])
        BY <2>4 DEF Batch
      <3>4. Demands(Batch(t)[r]) = ver[t][r]
        BY <3>3, SwapDemands
      <3>5. Demands(Batch(t)[r]) \in {Anything, ref[r]}
        BY <3>2 DEF UpdateRefs, Accepts, Batch
      <3>6. base[t][r] = ContentOf(ref[r])
        BY <2>2, <2>4, <2>5, <2>6, <3>4, <3>5 DEF StandaloneReads
      <3> QED
        BY <3>6 DEF Saw
    <2> QED
      BY <2>2, <2>4, <2>5, <2>6, <2>7 DEF StandaloneReads
  <1> QED
    BY <1>1, OwnWritesHold, AlwaysPaired, PTL DEF Spec, UpdatesAreDroppedOnlyBlindly
=============================================================================
