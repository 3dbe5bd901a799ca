------------------------ MODULE ContentIndexerProofs -------------------------
(***************************************************************************)
(* Proofs about ContentIndexer, for any number of ids and paths, any size  *)
(* of batches and any number of changes, faults and calls of quit().       *)
(***************************************************************************)
EXTENDS ContentIndexer, Integers, FiniteSets, FiniteSetsExt, FiniteSetTheorems, WellFoundedInduction, TLAPS

-----------------------------------------------------------------------------
\* A non-empty set of natural numbers has a least one, which Min() gives.
LEMMA MinIsLeast ==
  ASSUME NEW S, S \subseteq Nat, S # {}
  PROVE  Min(S) \in S /\ \A n \in S : Min(S) <= n
<1> PICK n \in S : TRUE
  OBVIOUS
<1> DEFINE T == {0..k : k \in {m \in S : m <= n}}
<1>1. IsFiniteSet(0..n)
  BY FS_Interval
<1>2. IsWellFoundedOn(StrictSubsetOrdering(0..n), SUBSET (0..n))
  <2>1. IsWellFoundedOn(StrictSubsetOrdering(0..n), FiniteSubsetsOf(0..n))
    BY FS_StrictSubsetOrderingWellFounded
  <2> QED BY <2>1, <1>1, FS_FiniteSubsetsOfFinite
<1>3. T \subseteq SUBSET (0..n) /\ T # {}
  OBVIOUS
<1>4. PICK x \in T : \A y \in T : ~(<<y, x>> \in StrictSubsetOrdering(0..n))
  BY <1>2, <1>3, WFMin
<1>5. PICK k \in S : k <= n /\ x = 0..k
  OBVIOUS
<1>6. \A m \in S : k <= m
  <2> SUFFICES ASSUME NEW m \in S, m < k PROVE FALSE
    OBVIOUS
  <2>1. 0..m \in T /\ 0..m \subseteq 0..k /\ k \in 0..k /\ k \notin 0..m
    BY <1>5
  <2>2. <<0..m, 0..k>> \in StrictSubsetOrdering(0..n)
    BY <2>1, <1>5 DEF StrictSubsetOrdering
  <2> QED BY <2>1, <2>2, <1>4, <1>5
<1> QED BY <1>6 DEF Min

-----------------------------------------------------------------------------
(* The batch under way. *)

Busy == proc \in {"newBatch", "nextFile", "commit", "finished"}

Reading == proc \in {"nextFile", "commit"}

\* A batch is a part of the marked documents, each once; the extractor works on it
\* only while the thread waits for it.
BatchUnderWay ==
  /\ \A i, j \in DOMAIN idList : idList[i] = idList[j] => i = j
  /\ pc = "wait" => Len(idList) \in 1..BatchSize
  /\ Busy => pc = "wait"
  /\ Reading => DOMAIN m_batch = DOMAIN idList /\ \A i \in DOMAIN idList : m_batch[i].m_id = idList[i]

\* Unless something failed, a dead extractor was killed by a file of its batch.
CrashesAreBlamed ==
  faults = 0 =>
    /\ failed \subseteq Crashing
    /\ pc = "fetch" => proc = "waiting" \/ m_stop
    /\ pc = "wait" /\ proc = "dead" => \E i \in DOMAIN idList : idList[i] \in Crashing

\* While the file system is at rest, a batch holds the paths of its documents, and
\* these are right.
AtRest == fsChanges = 0

EntryIsRight(info) ==
  IF onlyBasicIndexing
  THEN info.m_path = NoPath /\ info.m_state \in {"SkipIndex", "Committed"}
  ELSE /\ info.m_path = url[info.m_id]
       /\ info.m_state \in {"Pending", "Succeeded", "SkipIndex", "Committed"}
       /\ info.m_state = "SkipIndex" => info.m_id \in Unsuitable

PathsAreRight ==
  AtRest =>
    /\ events = <<>>
    /\ \A p \in Excluded : at[p] = NoFile
    /\ \A id \in Ids : url[id] \in AllPaths /\ at[url[id]] = id
    /\ Reading => \A i \in DOMAIN m_batch : EntryIsRight(m_batch[i])
    /\ ContentNotForgotten

\* Progress of a run, as it is counted.
InBatch == {idList[i] : i \in DOMAIN idList}

Processed == DOMAIN m_batch \ Pending

ProgressIsCounted ==
  AtRest =>
    /\ finishedCount <= totalCount
    /\ pc = "fetch" /\ ~m_stop => finishedCount + Cardinality(phaseOne) <= totalCount
    /\ pc = "wait" =>
         /\ batchStartCount + Cardinality(phaseOne \cup InBatch) <= totalCount
         /\ finishedCount <= batchStartCount + Len(idList)
    /\ proc = "newBatch" => finishedCount = batchStartCount
    /\ Reading =>
         /\ finishedCount <= batchStartCount + Cardinality(Processed)
         /\ \A i \in DOMAIN m_batch : m_batch[i].m_state = "Committed" => m_batch[i].m_id \notin phaseOne
    /\ proc = "finished" => phaseOne \cap InBatch = {}

-----------------------------------------------------------------------------
(* The operators that the steps are built from. *)

\* fetchPhaseOneIds() finds an id for each place of its result.
LEMMA IdAtEachPlace ==
  ASSUME phaseOne \subseteq Ids
  PROVE  /\ IsFiniteSet(phaseOne) /\ Cardinality(phaseOne) \in Nat
         /\ \A id \in phaseOne : IsFiniteSet(smaller(id)) /\ Cardinality(smaller(id)) \in Nat
         /\ \A i \in 1..Cardinality(phaseOne) :
              \E id \in phaseOne : Cardinality(smaller(id)) = i - 1
<1>1. IsFiniteSet(phaseOne) /\ Cardinality(phaseOne) \in Nat
  <2>1. IsFiniteSet(1..N)
    BY ConstantsAssumption, FS_Interval
  <2> QED BY <2>1, FS_Subset, FS_CardinalityType DEF Ids
<1>n. \A id \in phaseOne : id \in Nat
  BY ConstantsAssumption DEF Ids
<1>2. \A id \in phaseOne : IsFiniteSet(smaller(id)) /\ Cardinality(smaller(id)) \in Nat
  BY <1>1, FS_Subset, FS_CardinalityType DEF smaller
<1> DEFINE Found(i) == \E id \in phaseOne : Cardinality(smaller(id)) = i - 1
           Missing == {i \in 1..Cardinality(phaseOne) : ~Found(i)}
<1>3. ASSUME Missing # {} PROVE FALSE
  <2>1. PICK i \in Missing : \A k \in Missing : i <= k
    <3>1. Missing \subseteq Nat
      BY <1>1
    <3> QED BY <1>3, <3>1, MinIsLeast
  \* the ids larger than the one found for the place before
  <2> DEFINE Larger(id) == {other \in phaseOne : id < other}
  <2>2. ASSUME NEW S \in SUBSET phaseOne, S # {} PROVE \E id \in S : \A other \in S : id <= other
    BY <1>n, <2>2, MinIsLeast
  <2>3. CASE i = 1
    <3>1. phaseOne # {}
      BY <2>1, <2>3, FS_EmptySet
    <3>2. PICK id \in phaseOne : \A other \in phaseOne : id <= other
      BY <2>2, <3>1
    <3>3. smaller(id) = {}
      BY <1>n, <3>2 DEF smaller
    <3> QED BY <2>1, <2>3, <3>3, FS_EmptySet
  <2>4. CASE i # 1
    <3>1. i \in Nat /\ i - 1 \in 1..Cardinality(phaseOne) /\ i <= Cardinality(phaseOne)
      BY <1>1, <2>1, <2>4
    <3>2. PICK id \in phaseOne : Cardinality(smaller(id)) = i - 2
      BY <1>1, <2>1, <3>1
    <3>3. id \notin smaller(id)
      BY <1>n DEF smaller
    <3>4. IsFiniteSet(smaller(id) \cup {id}) /\ Cardinality(smaller(id) \cup {id}) = i - 1
      BY <1>2, <3>1, <3>2, <3>3, FS_AddElement
    <3>5. Larger(id) # {}
      <4>1. SUFFICES ASSUME Larger(id) = {} PROVE FALSE
        OBVIOUS
      <4>2. phaseOne = smaller(id) \cup {id}
        BY <1>n, <4>1 DEF smaller
      <4> QED BY <3>1, <3>4, <4>2
    <3>6. PICK next \in Larger(id) : \A other \in Larger(id) : next <= other
      BY <2>2, <3>5
    <3>7. smaller(next) = smaller(id) \cup {id}
      BY <1>n, <3>6 DEF smaller
    <3> QED BY <2>1, <3>4, <3>6, <3>7
  <2> QED BY <2>3, <2>4
<1> QED BY <1>1, <1>2, <1>3

\* A batch is not empty, not longer than asked for, and holds marked documents once.
LEMMA Fetched ==
  ASSUME phaseOne \subseteq Ids, phaseOne # {}, NEW size \in Nat \ {0}
  PROVE  /\ fetch(size) \in Seq(Ids) /\ Len(fetch(size)) \in 1..size
         /\ \A i \in DOMAIN fetch(size) : fetch(size)[i] \in phaseOne
         /\ \A i, j \in DOMAIN fetch(size) : fetch(size)[i] = fetch(size)[j] => i = j
<1> DEFINE n == Min({size, Cardinality(phaseOne)})
           At(i) == CHOOSE id \in phaseOne : Cardinality(smaller(id)) = i - 1
<1>1. Cardinality(phaseOne) \in Nat \ {0}
  BY IdAtEachPlace, FS_EmptySet
<1>2. n \in 1..size /\ n <= Cardinality(phaseOne)
  BY <1>1, MinIsLeast
<1>3. \A i \in 1..n : At(i) \in phaseOne /\ Cardinality(smaller(At(i))) = i - 1
  BY <1>1, <1>2, IdAtEachPlace
<1>4. fetch(size) = [i \in 1..n |-> At(i)]
  BY DEF fetch
<1> HIDE DEF n, At
<1>5. \A i, j \in 1..n : At(i) = At(j) => i = j
  BY <1>2, <1>3
<1>6. n \in Nat /\ \A i \in 1..n : At(i) \in Ids
  BY <1>2, <1>3
<1>7. fetch(size) \in Seq(Ids) /\ Len(fetch(size)) = n
  BY <1>4, <1>6
<1> QED BY <1>2, <1>3, <1>4, <1>5, <1>7

-----------------------------------------------------------------------------
(* Type correctness, and the batch under way. *)

\* Exactly one file has each id in the beginning, at the path of its document.
LEMMA InitialDocuments ==
  ASSUME Init
  PROVE  \A id \in Ids : url[id] \in AllPaths /\ at[url[id]] = id
<1> SUFFICES ASSUME NEW id \in Ids PROVE url[id] \in AllPaths /\ at[url[id]] = id
  OBVIOUS
<1>1. Cardinality({p \in AllPaths : at[p] = id}) = 1
  BY DEF Init
<1>2. \E p \in AllPaths : at[p] = id
  BY <1>1, FS_EmptySet
<1>3. url[id] = CHOOSE p \in AllPaths : at[p] = id
  BY DEF Init
<1> QED BY <1>2, <1>3

LEMMA TypeOKInit == Init => TypeOK /\ BatchUnderWay
<1> SUFFICES ASSUME Init PROVE TypeOK /\ BatchUnderWay
  OBVIOUS
<1>1. url \in [Ids -> AllPaths \cup {NoPath}]
  <2>1. url = [id \in Ids |-> url[id]]
    BY DEF Init
  <2> QED BY <2>1, InitialDocuments
<1>2. batchSize \in 1..BatchSize
  BY ConstantsAssumption DEF Init
<1>3. m_consecutiveErrors \in 0..(ErrorLimit + 1) /\ fsChanges \in 0..MaxFsChanges
      /\ faults \in 0..MaxFaults /\ quits \in 0..MaxQuits
  BY ConstantsAssumption DEF Init
<1>4. events \in Seq(Event) /\ idList \in Seq(Ids) /\ m_batch \in Seq(BatchInfo)
  BY DEF Init
<1>5. TypeOK
  BY <1>1, <1>2, <1>3, <1>4 DEF Init, TypeOK
<1>6. BatchUnderWay
  BY DEF Init, BatchUnderWay, Busy, Reading
<1> QED BY <1>5, <1>6

\* What the thread asks of a batch it divides.
LEMMA Halved == \A n \in 1..BatchSize : n # 1 => n \div 2 \in 1..BatchSize
  BY ConstantsAssumption

LEMMA ThreadTypeOK == TypeOK /\ BatchUnderWay /\ Thread => TypeOK' /\ BatchUnderWay'
<1> SUFFICES ASSUME TypeOK, BatchUnderWay, Thread PROVE TypeOK' /\ BatchUnderWay'
  OBVIOUS
<1> USE DEF TypeOK, BatchUnderWay, Busy, Reading, db, main, thread, extractor
<1>1. CASE Start
  BY <1>1 DEF Start
<1>2. CASE RunBegin
  <2>1. batchSize' \in 1..BatchSize
    BY <1>2, ConstantsAssumption DEF RunBegin
  <2>2. totalCount' \in Nat
    BY <1>2, IdAtEachPlace DEF RunBegin
  <2>3. m_batch' \in Seq(BatchInfo) /\ m_consecutiveErrors' \in 0..(ErrorLimit + 1)
    BY <1>2, ConstantsAssumption DEF RunBegin
  <2> QED BY <1>2, <2>1, <2>2, <2>3 DEF RunBegin
<1>3. CASE Leave
  BY <1>3 DEF Leave
<1>4. CASE SendBatch
  <2>1. batchSize \in Nat \ {0} /\ phaseOne # {} /\ phaseOne \subseteq Ids
    BY <1>4 DEF SendBatch
  <2>2. /\ idList' \in Seq(Ids) /\ Len(idList') \in 1..BatchSize
        /\ \A i, j \in DOMAIN idList' : idList'[i] = idList'[j] => i = j
    <3>1. idList' = fetch(batchSize) /\ batchSize <= BatchSize /\ BatchSize \in Nat
      BY <1>4, ConstantsAssumption DEF SendBatch
    <3>2. /\ fetch(batchSize) \in Seq(Ids) /\ Len(fetch(batchSize)) \in 1..batchSize
          /\ \A i, j \in DOMAIN fetch(batchSize) :
               fetch(batchSize)[i] = fetch(batchSize)[j] => i = j
      BY <2>1, Fetched
    <3>3. Len(fetch(batchSize)) \in 1..BatchSize
      BY <2>1, <3>1, <3>2
    <3> QED BY <3>1, <3>2, <3>3
  <2> QED BY <1>4, <2>2 DEF SendBatch
<1>5. CASE BatchFinished
  BY <1>5 DEF BatchFinished
<1>6. CASE BatchFailed
  <2>1. Len(idList) \in 1..BatchSize
    BY <1>6 DEF BatchFailed
  <2>2. idList[1] \in Ids
    BY <2>1
  <2>3. /\ batchSize' \in 1..BatchSize /\ finishedCount' \in Nat
        /\ proc' \in {"waiting", "dead"}
        /\ url' = url /\ indexed' = indexed /\ phaseOne' \subseteq Ids /\ failed' \subseteq Ids
    <3>1. CASE m_stop
      BY <1>6, <2>1, <3>1 DEF BatchFailed
    <3>2. CASE ~m_stop /\ Len(idList) = 1
      BY <1>6, <2>1, <2>2, <3>2, ConstantsAssumption DEF BatchFailed, DivideBatch, markFailed
    <3>3. CASE ~m_stop /\ Len(idList) # 1
      BY <1>6, <2>1, <3>3, Halved DEF BatchFailed, DivideBatch
    <3> QED BY <3>1, <3>2, <3>3
  <2>4. m_batch' = <<>> /\ m_consecutiveErrors' \in 0..(ErrorLimit + 1)
    BY <1>6, ConstantsAssumption DEF BatchFailed
  <2> QED BY <1>6, <2>3, <2>4 DEF BatchFailed
<1> QED BY <1>1, <1>2, <1>3, <1>4, <1>5, <1>6 DEF Thread

\* index() gives a file one of the states that processNextFile() knows.
LEMMA IndexGives ==
  \A info : index(info) \in {"DoesNotExist", "RemoveIndex", "SkipIndex", "Succeeded"}
  BY DEF index

\* The file that is indexed next is pending.
LEMMA NextPendingFile ==
  ASSUME TypeOK, Pending # {}
  PROVE  /\ Min(Pending) \in Pending /\ Min(Pending) \in DOMAIN m_batch
         /\ m_batch[Min(Pending)].m_state = "Pending"
<1>1. Pending \subseteq Nat
  BY DEF Pending, TypeOK
<1>2. Min(Pending) \in Pending
  BY <1>1, MinIsLeast
<1> QED BY <1>2 DEF Pending

LEMMA FunctionIsSequence ==
  ASSUME NEW S, NEW n \in Nat, NEW f \in [1..n -> S]
  PROVE  f \in Seq(S) /\ Len(f) = n /\ DOMAIN f = 1..n
  OBVIOUS

\* A new state of one entry of the batch.
LEMMA StateChanged ==
  ASSUME TypeOK, NEW i \in DOMAIN m_batch, NEW state \in IndexStates,
         m_batch' = [m_batch EXCEPT ![i].m_state = state]
  PROVE  /\ m_batch' \in Seq(BatchInfo) /\ DOMAIN m_batch' = DOMAIN m_batch
         /\ \A j \in DOMAIN m_batch :
              /\ m_batch'[j].m_id = m_batch[j].m_id /\ m_batch'[j].m_path = m_batch[j].m_path
              /\ m_batch'[j].m_state = IF j = i THEN state ELSE m_batch[j].m_state
<1>1. \A j \in DOMAIN m_batch : m_batch[j] \in BatchInfo
  BY DEF TypeOK
<1>2. m_batch' = [j \in DOMAIN m_batch |->
                    IF j = i THEN [m_batch[j] EXCEPT !.m_state = state] ELSE m_batch[j]]
  BY DEF TypeOK
<1>3. DOMAIN m_batch' = DOMAIN m_batch /\ DOMAIN m_batch = 1..Len(m_batch) /\ Len(m_batch) \in Nat
  BY <1>2 DEF TypeOK
<1>4. \A j \in DOMAIN m_batch : m_batch'[j] \in BatchInfo
  BY <1>1, <1>2 DEF BatchInfo
<1>5. m_batch' \in Seq(BatchInfo)
  <2>1. m_batch' = [j \in 1..Len(m_batch) |-> m_batch'[j]]
    BY <1>2, <1>3
  <2>2. m_batch' \in [1..Len(m_batch) -> BatchInfo]
    BY <1>3, <1>4, <2>1
  <2> QED BY <1>3, <2>2, FunctionIsSequence
<1> QED BY <1>1, <1>2, <1>3, <1>5 DEF BatchInfo

\* Only stored results change documents and marks.
LEMMA Stored ==
  ASSUME TypeOK, NEW removed \in SUBSET Ids, NEW skipped \in SUBSET Ids, NEW done \in SUBSET Ids,
         Store(removed, skipped, done)
  PROVE  /\ url' \in [Ids -> AllPaths \cup {NoPath}]
         /\ phaseOne' \subseteq Ids /\ failed' \subseteq Ids /\ indexed' \subseteq Ids
         /\ \A id \in Ids : url'[id] = IF id \in removed THEN NoPath ELSE url[id]
         /\ phaseOne' = phaseOne \ (removed \cup skipped \cup done)
         /\ failed' = failed \ (removed \cup done)
         /\ indexed' = (indexed \ removed) \cup done
  BY DEF TypeOK, Store

LEMMA IdsOfBatch ==
  ASSUME TypeOK
  PROVE  /\ \A states : InState(states) \subseteq Ids
         /\ Applicable \subseteq Ids \cap phaseOne \cap Documents
<1>1. \A i \in DOMAIN m_batch : m_batch[i].m_id \in Ids
  <2>1. \A i \in DOMAIN m_batch : m_batch[i] \in BatchInfo
    BY DEF TypeOK
  <2> QED BY <2>1 DEF BatchInfo
<1>2. \A states : InState(states) \subseteq Ids
  BY <1>1 DEF InState
<1>3. Applicable \subseteq Ids \cap phaseOne \cap Documents
  BY <1>1 DEF Applicable
<1> QED BY <1>2, <1>3

LEMMA ExtractorTypeOK == TypeOK /\ BatchUnderWay /\ Extractor => TypeOK' /\ BatchUnderWay'
<1> SUFFICES ASSUME TypeOK, BatchUnderWay, Extractor PROVE TypeOK' /\ BatchUnderWay'
  OBVIOUS
<1> USE DEF BatchUnderWay, Busy, Reading, ThreadAndMain
<1>1. CASE slotNewBatch
  <2>1. \A i \in 1..Len(idList) : idList[i] \in Ids /\ url[idList[i]] \in AllPaths \cup {NoPath}
    BY DEF TypeOK
  <2>2. m_batch' \in Seq(BatchInfo)
    BY <1>1, <2>1 DEF slotNewBatch, BatchInfo, IndexStates, TypeOK
  <2>3. /\ DOMAIN m_batch' = DOMAIN idList
        /\ \A i \in DOMAIN idList : m_batch'[i].m_id = idList[i]
    BY <1>1 DEF slotNewBatch, TypeOK
  <2>4. m_consecutiveErrors' \in 0..(ErrorLimit + 1) /\ proc' = "nextFile"
    BY <1>1, ConstantsAssumption DEF slotNewBatch, TypeOK
  <2> QED BY <1>1, <2>2, <2>3, <2>4 DEF slotNewBatch, TypeOK, db, main, thread
<1>2. CASE IndexNextFile
  <2>1. PICK state \in IndexStates : m_batch' = [m_batch EXCEPT ![Min(Pending)].m_state = state]
    BY <1>2, IndexGives DEF IndexNextFile, IndexStates
  <2>2. /\ m_batch' \in Seq(BatchInfo) /\ DOMAIN m_batch' = DOMAIN m_batch
        /\ \A j \in DOMAIN m_batch : m_batch'[j].m_id = m_batch[j].m_id
    BY <1>2, <2>1, NextPendingFile, StateChanged DEF IndexNextFile
  <2>3. finishedCount' \in Nat
    BY <1>2 DEF IndexNextFile, TypeOK
  <2> QED BY <1>2, <2>2, <2>3 DEF IndexNextFile, TypeOK, db, main, thread
<1>3. CASE ExtractorCrashes
  BY <1>3 DEF ExtractorCrashes, TypeOK, db, main, thread
<1>4. CASE BatchProcessed
  BY <1>4 DEF BatchProcessed, TypeOK, db, main, thread
<1>5. CASE Commit
  <2>1. /\ url' \in [Ids -> AllPaths \cup {NoPath}]
        /\ phaseOne' \subseteq Ids /\ failed' \subseteq Ids /\ indexed' \subseteq Ids
    BY <1>5, IdsOfBatch, Stored DEF Commit
  <2>2. /\ m_batch' \in Seq(BatchInfo)
        /\ proc' \in {"nextFile", "finished"}
        /\ proc' = "nextFile" => /\ DOMAIN m_batch' = DOMAIN m_batch
                                 /\ \A i \in DOMAIN m_batch : m_batch'[i].m_id = m_batch[i].m_id
    <3>1. CASE Pending = {}
      <4>1. m_batch' = <<>> /\ proc' = "finished"
        BY <1>5, <3>1 DEF Commit
      <4> QED BY <4>1
    <3>2. CASE Pending # {}
      <4>1. /\ m_batch' = [i \in DOMAIN m_batch |->
                 IF i \in Pending THEN m_batch[i] ELSE [m_batch[i] EXCEPT !.m_state = "Committed"]]
            /\ proc' = "nextFile"
        BY <1>5, <3>2 DEF Commit
      <4>2. \A i \in DOMAIN m_batch : m_batch[i] \in BatchInfo
        BY DEF TypeOK
      <4>3. \A i \in DOMAIN m_batch : m_batch'[i] \in BatchInfo /\ m_batch'[i].m_id = m_batch[i].m_id
        BY <4>1, <4>2 DEF BatchInfo, IndexStates
      <4>4. DOMAIN m_batch = 1..Len(m_batch) /\ Len(m_batch) \in Nat
        BY DEF TypeOK
      <4> QED BY <4>1, <4>3, <4>4
    <3> QED BY <3>1, <3>2
  <2>3. m_consecutiveErrors' \in 0..(ErrorLimit + 1)
    BY <1>5, ConstantsAssumption DEF Commit
  <2> QED BY <1>5, <2>1, <2>2, <2>3 DEF Commit, TypeOK, main, thread
<1> QED BY <1>1, <1>2, <1>3, <1>4, <1>5 DEF Extractor

LEMMA FaultsTypeOK == TypeOK /\ BatchUnderWay /\ Faults => TypeOK' /\ BatchUnderWay'
<1> SUFFICES ASSUME TypeOK, BatchUnderWay, Faults PROVE TypeOK' /\ BatchUnderWay'
  OBVIOUS
<1> USE DEF BatchUnderWay, Busy, Reading, ThreadAndMain
<1>1. ASSUME NEW retry \in {"newBatch", "nextFile"}, TransactionFails(retry)
      PROVE  /\ TypeOK' /\ proc' \in {"dead", retry}
             /\ pc' = pc /\ idList' = idList /\ m_batch' = m_batch
  <2>1. faults' \in 0..MaxFaults
    BY <1>1, ConstantsAssumption DEF TransactionFails, TypeOK
  <2>2. m_consecutiveErrors' \in 0..(ErrorLimit + 1)
    BY <1>1, ConstantsAssumption DEF TransactionFails, TypeOK
  <2> QED BY <1>1, <2>1, <2>2 DEF TransactionFails, TypeOK, db, main, thread
<1>2. CASE slotNewBatch_Fails
  BY <1>1, <1>2 DEF slotNewBatch_Fails
<1>3. CASE Commit_Fails
  BY <1>1, <1>3 DEF Commit_Fails
<1>4. CASE Killed
  <2>1. faults' \in 0..MaxFaults
    BY <1>4, ConstantsAssumption DEF Killed, TypeOK
  <2> QED BY <1>4, <2>1 DEF Killed, TypeOK, db, main, thread
<1> QED BY <1>2, <1>3, <1>4 DEF Faults

LEMMA FileSystemTypeOK == TypeOK /\ BatchUnderWay /\ FileSystem => TypeOK' /\ BatchUnderWay'
<1> SUFFICES ASSUME TypeOK, BatchUnderWay, FileSystem PROVE TypeOK' /\ BatchUnderWay'
  OBVIOUS
<1>1. ASSUME NEW type \in {"moved", "deleted", "created"}, NEW p \in AllPaths, NEW q \in AllPaths,
             Notify(type, p, q), at' \in [AllPaths -> Ids \cup {NoFile}]
      PROVE  TypeOK' /\ BatchUnderWay'
  <2>1. [type |-> type, from |-> p, to |-> q] \in Event
    BY DEF Event
  <2>2. events' \in Seq(Event)
    BY <1>1, <2>1 DEF Notify, TypeOK
  <2>3. fsChanges' \in 0..MaxFsChanges
    BY <1>1, ConstantsAssumption DEF Notify, TypeOK
  <2> QED BY <1>1, <2>2, <2>3
      DEF Notify, TypeOK, BatchUnderWay, Busy, Reading, db, RunState, thread, extractor
<1>2. ASSUME NEW p \in AllPaths, NEW q \in AllPaths, Rename(p, q) PROVE TypeOK' /\ BatchUnderWay'
  BY <1>1, <1>2 DEF Rename, TypeOK
<1>3. ASSUME NEW p \in AllPaths, Unlink(p) PROVE TypeOK' /\ BatchUnderWay'
  BY <1>1, <1>3 DEF Unlink, TypeOK
<1>4. ASSUME NEW p \in AllPaths, NEW id \in Ids, Create(p, id) PROVE TypeOK' /\ BatchUnderWay'
  BY <1>1, <1>4 DEF Create, TypeOK
<1> QED BY <1>2, <1>3, <1>4 DEF FileSystem

\* The effect of moveFileMetadata() on the index.
DocumentMoved(p, q) ==
  /\ url' = [id \in Ids |-> IF id \in DocumentAt(q) THEN NoPath
                            ELSE IF id \in DocumentAt(p) THEN q ELSE url[id]]
  /\ phaseOne' = phaseOne \ DocumentAt(q)
  /\ failed' = failed \ DocumentAt(q)
  /\ indexed' = indexed \ DocumentAt(q)

\* What the handling of a notification does to the index: a document is moved, with the
\* removal of those it overwrites, or documents of a path are removed, or none.
LEMMA EventHandled ==
  ASSUME TypeOK, HandleEvent
  PROVE  /\ events' \in Seq(Event) /\ scheduled' \subseteq AllPaths /\ UNCHANGED <<at, fsChanges, RunState>>
         /\ \/ \E p \in AllPaths, q \in Paths : DocumentMoved(p, q)
            \/ \E p \in AllPaths : Store(DocumentAt(p), {}, {})
            \/ UNCHANGED db
<1>1. events \in Seq(Event) /\ events # <<>>
  BY DEF HandleEvent, TypeOK
<1>2. Head(events) \in Event /\ Tail(events) \in Seq(Event)
  BY <1>1
<1> DEFINE e == Head(events)
<1>3. e.from \in AllPaths /\ e.to \in AllPaths
  BY <1>2 DEF Event
<1>4. events' = Tail(events) /\ UNCHANGED <<at, fsChanges, RunState>>
  BY DEF HandleEvent
<1>5. CASE e.to \in Paths /\ moveFileMetadata(e.from, e.to)
  BY <1>2, <1>3, <1>4, <1>5 DEF moveFileMetadata, DocumentMoved, TypeOK
<1>6. CASE removeFileMetadata(e.from)
  BY <1>2, <1>3, <1>4, <1>6 DEF removeFileMetadata, TypeOK
<1>7. CASE scheduled' = scheduled \cup {e.to} /\ UNCHANGED db
  BY <1>2, <1>3, <1>4, <1>7 DEF TypeOK
<1> QED BY <1>5, <1>6, <1>7 DEF HandleEvent

LEMMA MainTypeOK == TypeOK /\ BatchUnderWay /\ (HandleEvent \/ quit) => TypeOK' /\ BatchUnderWay'
<1> SUFFICES ASSUME TypeOK, BatchUnderWay, HandleEvent \/ quit PROVE TypeOK' /\ BatchUnderWay'
  OBVIOUS
<1>1. CASE HandleEvent
  <2>1. /\ url' \in [Ids -> AllPaths \cup {NoPath}]
        /\ phaseOne' \subseteq Ids /\ failed' \subseteq Ids /\ indexed' \subseteq Ids
    <3>1. ASSUME NEW p \in AllPaths, NEW q \in Paths, DocumentMoved(p, q)
          PROVE  /\ url' \in [Ids -> AllPaths \cup {NoPath}]
                 /\ phaseOne' \subseteq Ids /\ failed' \subseteq Ids /\ indexed' \subseteq Ids
      BY <3>1 DEF DocumentMoved, TypeOK, AllPaths
    <3>2. ASSUME NEW p \in AllPaths, Store(DocumentAt(p), {}, {})
          PROVE  /\ url' \in [Ids -> AllPaths \cup {NoPath}]
                 /\ phaseOne' \subseteq Ids /\ failed' \subseteq Ids /\ indexed' \subseteq Ids
      <4>1. DocumentAt(p) \in SUBSET Ids /\ {} \in SUBSET Ids
        BY DEF DocumentAt
      <4> QED BY <3>2, <4>1, Stored
    <3>3. CASE UNCHANGED db
      BY <3>3 DEF db, TypeOK
    <3>4. \/ \E p \in AllPaths, q \in Paths : DocumentMoved(p, q)
          \/ \E p \in AllPaths : Store(DocumentAt(p), {}, {})
          \/ UNCHANGED db
      BY <1>1, EventHandled
    <3> QED BY <3>1, <3>2, <3>3, <3>4
  <2> QED BY <1>1, <2>1, EventHandled
      DEF TypeOK, BatchUnderWay, Busy, Reading, RunState, thread, extractor
<1>2. CASE quit
  <2>1. quits' \in 0..MaxQuits
    BY <1>2, ConstantsAssumption DEF quit, TypeOK
  <2> QED BY <1>2, <2>1 DEF quit, TypeOK, BatchUnderWay, Busy, Reading, db, main, thread, extractor
<1> QED BY <1>1, <1>2

LEMMA TypeOKNext == TypeOK /\ BatchUnderWay /\ [Next]_vars => TypeOK' /\ BatchUnderWay'
<1>1. TypeOK /\ BatchUnderWay /\ UNCHANGED vars => TypeOK' /\ BatchUnderWay'
  BY DEF vars, TypeOK, BatchUnderWay, Busy, Reading, db, main, thread, extractor
<1> QED BY <1>1, ThreadTypeOK, ExtractorTypeOK, FaultsTypeOK, FileSystemTypeOK, MainTypeOK DEF Next

\* The inductive invariant that types need: a batch holds a document once, and at
\* least one, so that it can be divided.
THEOREM BatchInvariant == Spec => [](TypeOK /\ BatchUnderWay)
  BY TypeOKInit, TypeOKNext, PTL DEF Spec

\* The index, the thread, the extractor and the main thread keep their types.
THEOREM TypeCorrect == Spec => []TypeOK
  BY BatchInvariant, PTL

-----------------------------------------------------------------------------
(* Documents, paths and marks. *)

\* The writers of the index: the main thread, the thread that blames a file, and the
\* extractor.
LEMMA IndexWrites ==
  ASSUME TypeOK, [Next]_vars
  PROVE  \/ UNCHANGED db
         \/ HandleEvent /\ \E p \in AllPaths, q \in Paths : DocumentMoved(p, q)
         \/ HandleEvent /\ \E p \in AllPaths : Store(DocumentAt(p), {}, {})
         \/ BatchFailed /\ ~m_stop /\ Len(idList) = 1 /\ markFailed
         \/ Commit
<1>1. CASE Thread
  BY <1>1 DEF Thread, Start, RunBegin, Leave, SendBatch, BatchFinished, BatchFailed, DivideBatch
<1>2. CASE Extractor
  BY <1>2 DEF Extractor, slotNewBatch, IndexNextFile, ExtractorCrashes, BatchProcessed
<1>3. CASE Faults
  BY <1>3 DEF Faults, slotNewBatch_Fails, Commit_Fails, TransactionFails, Killed
<1>4. CASE FileSystem
  BY <1>4 DEF FileSystem, Rename, Unlink, Create, Notify
<1>5. CASE HandleEvent
  BY <1>5, EventHandled
<1>6. CASE quit
  BY <1>6 DEF quit
<1>7. CASE UNCHANGED vars
  BY <1>7 DEF vars
<1> QED BY <1>1, <1>2, <1>3, <1>4, <1>5, <1>6, <1>7 DEF Next

\* What a commit removes and what it stores are different documents.
LEMMA CommitDisjoint ==
  ASSUME TypeOK, BatchUnderWay, proc = "commit"
  PROVE  /\ InState({"DoesNotExist", "RemoveIndex"}) \in SUBSET Ids
         /\ InState({"SkipIndex"}) \in SUBSET Ids
         /\ Applicable \in SUBSET Ids /\ Applicable \subseteq phaseOne /\ Applicable \subseteq Documents
         /\ InState({"DoesNotExist", "RemoveIndex"}) \cap Applicable = {}
<1>1. \A i, j \in DOMAIN m_batch : m_batch[i].m_id = m_batch[j].m_id => i = j
  BY DEF BatchUnderWay, Reading
<1>2. InState({"DoesNotExist", "RemoveIndex"}) \cap Applicable = {}
  BY <1>1 DEF InState, Applicable
<1> QED BY <1>2, IdsOfBatch

LEMMA EachUrlOneDocumentNext ==
  TypeOK /\ BatchUnderWay /\ EachUrlOneDocument /\ [Next]_vars => EachUrlOneDocument'
<1> SUFFICES ASSUME TypeOK, BatchUnderWay, EachUrlOneDocument, [Next]_vars PROVE EachUrlOneDocument'
  OBVIOUS
<1>1. ASSUME NEW removed \in SUBSET Ids, NEW skipped \in SUBSET Ids, NEW done \in SUBSET Ids,
             Store(removed, skipped, done)
      PROVE  EachUrlOneDocument'
  <2>1. \A id \in Ids : url'[id] = IF id \in removed THEN NoPath ELSE url[id]
    BY <1>1, Stored
  <2> QED BY <2>1 DEF EachUrlOneDocument, Documents
<1>2. ASSUME NEW p \in AllPaths, NEW q \in Paths, DocumentMoved(p, q) PROVE EachUrlOneDocument'
  <2>1. \A id \in Ids : url'[id] = IF url[id] = q THEN NoPath ELSE IF url[id] = p THEN q ELSE url[id]
    BY <1>2 DEF DocumentMoved, DocumentAt
  <2>2. p # NoPath /\ q # NoPath
    BY ConstantsAssumption DEF AllPaths
  <2> QED BY <2>1, <2>2 DEF EachUrlOneDocument, Documents
<1>3. ASSUME UNCHANGED url PROVE EachUrlOneDocument'
  BY <1>3 DEF EachUrlOneDocument, Documents
<1>4. ASSUME NEW p \in AllPaths, Store(DocumentAt(p), {}, {}) PROVE EachUrlOneDocument'
  <2>1. DocumentAt(p) \in SUBSET Ids /\ {} \in SUBSET Ids
    BY DEF DocumentAt
  <2> QED BY <1>1, <1>4, <2>1
<1>5. CASE Commit
  <2>1. proc = "commit" /\ Store(InState({"DoesNotExist", "RemoveIndex"}), InState({"SkipIndex"}), Applicable)
    BY <1>5 DEF Commit
  <2> QED BY <1>1, <2>1, CommitDisjoint
<1>6. markFailed \/ UNCHANGED db => UNCHANGED url
  BY DEF markFailed, db
<1> QED BY <1>2, <1>3, <1>4, <1>5, <1>6, IndexWrites

\* No two documents claim the same path: moveFileMetadata() removes what it overwrites,
\* and nothing else gives a path to a document.
THEOREM OneDocumentEach == Spec => []EachUrlOneDocument
<1>1. Init => EachUrlOneDocument
  BY InitialDocuments DEF EachUrlOneDocument, Documents
<1> QED BY <1>1, TypeOKInit, TypeOKNext, EachUrlOneDocumentNext, PTL DEF Spec

LEMMA MarkedHaveDocumentsNext ==
  TypeOK /\ BatchUnderWay /\ MarkedHaveDocuments /\ [Next]_vars => MarkedHaveDocuments'
<1> SUFFICES ASSUME TypeOK, BatchUnderWay, MarkedHaveDocuments, [Next]_vars PROVE MarkedHaveDocuments'
  OBVIOUS
<1>0. phaseOne \subseteq Ids /\ indexed \subseteq Ids
      /\ \A id \in phaseOne \cup indexed : url[id] # NoPath
  BY DEF TypeOK, MarkedHaveDocuments, Documents
<1>1. ASSUME NEW removed \in SUBSET Ids, NEW skipped \in SUBSET Ids, NEW done \in SUBSET Ids,
             done \subseteq Documents, removed \cap done = {}, Store(removed, skipped, done)
      PROVE  MarkedHaveDocuments'
  <2>1. /\ \A id \in Ids : url'[id] = IF id \in removed THEN NoPath ELSE url[id]
        /\ phaseOne' = phaseOne \ (removed \cup skipped \cup done)
        /\ indexed' = (indexed \ removed) \cup done
    BY <1>1, Stored
  <2> QED BY <1>0, <1>1, <2>1 DEF MarkedHaveDocuments, Documents
<1>2. ASSUME NEW p \in AllPaths, NEW q \in Paths, DocumentMoved(p, q) PROVE MarkedHaveDocuments'
  <2>1. /\ \A id \in Ids : url'[id] = IF url[id] = q THEN NoPath ELSE IF url[id] = p THEN q ELSE url[id]
        /\ \A id \in phaseOne' \cup indexed' : id \in phaseOne \cup indexed /\ url[id] # q
    BY <1>0, <1>2 DEF DocumentMoved, DocumentAt
  <2>2. q # NoPath
    BY ConstantsAssumption
  <2> QED BY <1>0, <2>1, <2>2 DEF MarkedHaveDocuments, Documents
<1>3. ASSUME NEW p \in AllPaths, Store(DocumentAt(p), {}, {}) PROVE MarkedHaveDocuments'
  <2>1. DocumentAt(p) \in SUBSET Ids /\ {} \in SUBSET Ids /\ {} \subseteq Documents /\ DocumentAt(p) \cap {} = {}
    BY DEF DocumentAt
  <2> QED BY <1>1, <1>3, <2>1
<1>4. CASE Commit
  <2>1. proc = "commit" /\ Store(InState({"DoesNotExist", "RemoveIndex"}), InState({"SkipIndex"}), Applicable)
    BY <1>4 DEF Commit
  <2> QED BY <1>1, <2>1, CommitDisjoint
<1>5. CASE markFailed
  BY <1>0, <1>5 DEF markFailed, MarkedHaveDocuments, Documents
<1>6. CASE UNCHANGED db
  BY <1>6 DEF db, MarkedHaveDocuments, Documents
<1> QED BY <1>2, <1>3, <1>4, <1>5, <1>6, IndexWrites

\* Whatever removes a document removes its marks, while a batch with it is under way too.
THEOREM MarksHaveDocuments == Spec => []MarkedHaveDocuments
<1>1. Init => MarkedHaveDocuments
  <2> SUFFICES ASSUME Init PROVE MarkedHaveDocuments
    OBVIOUS
  <2>1. \A id \in Ids : url[id] # NoPath
    BY InitialDocuments, ConstantsAssumption DEF AllPaths
  <2>2. phaseOne \subseteq Ids /\ indexed \subseteq Ids
    BY DEF Init
  <2> QED BY <2>1, <2>2 DEF MarkedHaveDocuments, Documents
<1> QED BY <1>1, TypeOKInit, TypeOKNext, MarkedHaveDocumentsNext, PTL DEF Spec

-----------------------------------------------------------------------------
(* Files recorded as failed. *)

\* The entry that is indexed next is one of the batch the thread waits for.
LEMMA NextOfBatch ==
  ASSUME TypeOK, BatchUnderWay, Reading, Pending # {}
  PROVE  Min(Pending) \in DOMAIN idList /\ m_batch[Min(Pending)].m_id = idList[Min(Pending)]
  BY NextPendingFile DEF BatchUnderWay

\* Faults and changes of the file system are what is counted as such.
LEMMA FaultsAndChanges ==
  ASSUME TypeOK, [Next]_vars
  PROVE  /\ (Faults /\ faults' = faults + 1) \/ (~Faults /\ faults' = faults)
         /\ (FileSystem /\ fsChanges' = fsChanges + 1) \/ (~FileSystem /\ fsChanges' = fsChanges)
<1>0. faults \in Nat /\ fsChanges \in Nat
  BY ConstantsAssumption DEF TypeOK
<1>1. Faults => faults' = faults + 1 /\ fsChanges' = fsChanges
  BY DEF Faults, slotNewBatch_Fails, Commit_Fails, TransactionFails, Killed, ThreadAndMain, main
<1>2. FileSystem => fsChanges' = fsChanges + 1 /\ faults' = faults
  BY DEF FileSystem, Rename, Unlink, Create, Notify, RunState
<1>3. Thread => faults' = faults /\ fsChanges' = fsChanges
  BY DEF Thread, Start, RunBegin, Leave, SendBatch, BatchFinished, BatchFailed, main
<1>4. Extractor => faults' = faults /\ fsChanges' = fsChanges
  BY DEF Extractor, slotNewBatch, IndexNextFile, ExtractorCrashes, BatchProcessed, Commit, ThreadAndMain, main
<1>5. HandleEvent \/ quit \/ UNCHANGED vars => faults' = faults /\ fsChanges' = fsChanges
  BY DEF HandleEvent, RunState, quit, vars, main
<1> QED BY <1>0, <1>1, <1>2, <1>3, <1>4, <1>5 DEF Next

LEMMA CrashesAreBlamedNext ==
  TypeOK /\ BatchUnderWay /\ CrashesAreBlamed /\ [Next]_vars => CrashesAreBlamed'
<1> SUFFICES ASSUME TypeOK, BatchUnderWay, CrashesAreBlamed, [Next]_vars, faults' = 0
             PROVE  /\ failed' \subseteq Crashing
                    /\ pc' = "fetch" => proc' = "waiting" \/ m_stop'
                    /\ pc' = "wait" /\ proc' = "dead" => \E i \in DOMAIN idList' : idList'[i] \in Crashing
  BY DEF CrashesAreBlamed
<1>1. faults = 0 /\ ~Faults
  BY FaultsAndChanges DEF TypeOK
<1>2. /\ failed \subseteq Crashing
      /\ pc = "fetch" => proc = "waiting" \/ m_stop
      /\ pc = "wait" /\ proc = "dead" => \E i \in DOMAIN idList : idList[i] \in Crashing
  BY <1>1 DEF CrashesAreBlamed
<1>3. failed' \subseteq Crashing
  <2>1. CASE BatchFailed /\ Len(idList) = 1 /\ markFailed
    <3>1. idList[1] \in Crashing
      <4>1. pc = "wait" /\ proc = "dead" /\ DOMAIN idList = 1..1
        BY <2>1 DEF BatchFailed, TypeOK
      <4> QED BY <1>2, <4>1
    <3> QED BY <1>2, <2>1, <3>1 DEF markFailed
  <2>2. CASE Commit
    BY <1>2, <2>2 DEF Commit, Store
  <2>3. \A p \in AllPaths : Store(DocumentAt(p), {}, {}) => failed' \subseteq failed
    BY DEF Store
  <2>4. \A p \in AllPaths, q \in Paths : DocumentMoved(p, q) => failed' \subseteq failed
    BY DEF DocumentMoved
  <2>5. UNCHANGED db => failed' = failed
    BY DEF db
  <2> QED BY <1>2, <2>1, <2>2, <2>3, <2>4, <2>5, IndexWrites
<1> SUFFICES /\ pc' = "fetch" => proc' = "waiting" \/ m_stop'
             /\ pc' = "wait" /\ proc' = "dead" => \E i \in DOMAIN idList' : idList'[i] \in Crashing
  BY <1>3
<1>4. CASE Thread
  <2>1. CASE Start \/ RunBegin \/ Leave \/ BatchFinished
    BY <2>1 DEF Start, RunBegin, Leave, BatchFinished
  <2>2. CASE SendBatch
    BY <1>2, <2>2 DEF SendBatch
  <2>3. CASE BatchFailed
    BY <2>3 DEF BatchFailed
  <2> QED BY <1>4, <2>1, <2>2, <2>3 DEF Thread
<1>5. CASE Extractor
  <2>1. pc' = pc /\ idList' = idList /\ Busy /\ pc = "wait"
    BY <1>5 DEF Extractor, slotNewBatch, IndexNextFile, ExtractorCrashes, BatchProcessed, Commit,
                ThreadAndMain, thread, Busy, BatchUnderWay
  <2>2. CASE ExtractorCrashes
    <3>1. Reading /\ Pending # {} /\ m_batch[Min(Pending)].m_id \in Crashing
      BY <2>2 DEF ExtractorCrashes, Reading
    <3> QED BY <2>1, <3>1, NextOfBatch
  <2>3. CASE slotNewBatch \/ IndexNextFile \/ BatchProcessed \/ Commit
    <3>1. proc' # "dead"
      BY <2>3 DEF slotNewBatch, IndexNextFile, BatchProcessed, Commit
    <3> QED BY <2>1, <3>1
  <2> QED BY <1>5, <2>2, <2>3 DEF Extractor
<1>6. CASE FileSystem
  BY <1>2, <1>6 DEF FileSystem, Rename, Unlink, Create, Notify, RunState, thread, extractor
<1>7. CASE HandleEvent
  BY <1>2, <1>7 DEF HandleEvent, RunState, thread, extractor
<1>8. CASE quit
  BY <1>2, <1>8 DEF quit, thread, extractor
<1>9. CASE UNCHANGED vars
  BY <1>2, <1>9 DEF vars, thread, extractor
<1> QED BY <1>1, <1>4, <1>5, <1>6, <1>7, <1>8, <1>9 DEF Next

\* The extractor may be killed at any time; only then a file is recorded as failed
\* that does not crash it. Dividing batches finds the culprit and no other.
THEOREM BlameIsRight == Spec => [](faults = 0 => FailedOnlyIfCrashing)
<1>1. Init => CrashesAreBlamed
  BY DEF Init, CrashesAreBlamed
<1>2. CrashesAreBlamed => (faults = 0 => FailedOnlyIfCrashing)
  BY DEF CrashesAreBlamed, FailedOnlyIfCrashing
<1> QED BY <1>1, <1>2, TypeOKInit, TypeOKNext, CrashesAreBlamedNext, PTL DEF Spec

-----------------------------------------------------------------------------
(* While the file system is at rest. *)

\* A file is found at the path of its document, and is indexed or skipped for what it is.
LEMMA FileIsFound ==
  ASSUME TypeOK, PathsAreRight, AtRest, NEW info \in BatchInfo, EntryIsRight(info), ~onlyBasicIndexing
  PROVE  index(info) = IF info.m_id \in Unsuitable THEN "SkipIndex" ELSE "Succeeded"
<1>1. info.m_path = url[info.m_id] /\ info.m_id \in Ids
  BY DEF EntryIsRight, BatchInfo
<1>2. info.m_path \in AllPaths /\ at[info.m_path] = info.m_id
  BY <1>1 DEF PathsAreRight
<1>3. info.m_path # NoPath /\ at[info.m_path] # NoFile
  BY <1>1, <1>2, ConstantsAssumption DEF AllPaths
<1>4. info.m_path \notin Excluded
  BY <1>2, <1>3 DEF PathsAreRight
<1> QED BY <1>2, <1>3, <1>4 DEF index

\* At rest nothing is removed, entries stay right, and no mark is lost.
LEMMA PathsAreRightNext ==
  TypeOK /\ BatchUnderWay /\ PathsAreRight /\ [Next]_vars => PathsAreRight'
<1> SUFFICES ASSUME TypeOK, BatchUnderWay, PathsAreRight, [Next]_vars, AtRest'
             PROVE  /\ events' = <<>>
                    /\ \A p \in Excluded : at'[p] = NoFile
                    /\ \A id \in Ids : url'[id] \in AllPaths /\ at'[url'[id]] = id
                    /\ Reading' => \A i \in DOMAIN m_batch' : EntryIsRight(m_batch[i])'
                    /\ ContentNotForgotten'
  BY DEF PathsAreRight
<1>1. AtRest /\ ~FileSystem
  BY FaultsAndChanges, ConstantsAssumption DEF AtRest, TypeOK
<1>2. /\ events = <<>>
      /\ \A p \in Excluded : at[p] = NoFile
      /\ \A id \in Ids : url[id] \in AllPaths /\ at[url[id]] = id
      /\ Reading => \A i \in DOMAIN m_batch : EntryIsRight(m_batch[i])
      /\ ContentNotForgotten
  BY <1>1 DEF PathsAreRight
<1>3. ~HandleEvent
  BY <1>2 DEF HandleEvent
<1>4. at' = at /\ events' = events /\ onlyBasicIndexing' = onlyBasicIndexing
  <2>1. Thread => at' = at /\ events' = events /\ onlyBasicIndexing' = onlyBasicIndexing
    BY DEF Thread, Start, RunBegin, Leave, SendBatch, BatchFinished, BatchFailed, main
  <2>2. Extractor => at' = at /\ events' = events /\ onlyBasicIndexing' = onlyBasicIndexing
    BY DEF Extractor, slotNewBatch, IndexNextFile, ExtractorCrashes, BatchProcessed, Commit, ThreadAndMain, main
  <2>3. Faults => at' = at /\ events' = events /\ onlyBasicIndexing' = onlyBasicIndexing
    BY DEF Faults, slotNewBatch_Fails, Commit_Fails, TransactionFails, Killed, ThreadAndMain, main
  <2>4. quit \/ UNCHANGED vars => at' = at /\ events' = events /\ onlyBasicIndexing' = onlyBasicIndexing
    BY DEF quit, vars, main
  <2> QED BY <1>1, <1>3, <2>1, <2>2, <2>3, <2>4 DEF Next
\* Nothing is removed by a commit.
<1>5. ASSUME Commit
      PROVE  /\ url' = url
             /\ phaseOne' = phaseOne \ (InState({"SkipIndex"}) \cup Applicable)
             /\ failed' = failed \ Applicable /\ indexed' = indexed \cup Applicable
             /\ onlyBasicIndexing \/ InState({"SkipIndex"}) \subseteq Unsuitable
  <2>1. Reading /\ proc = "commit"
    BY <1>5 DEF Commit, Reading
  <2>2. InState({"DoesNotExist", "RemoveIndex"}) = {}
    BY <1>2, <2>1 DEF InState, EntryIsRight
  <2>3. Store({}, InState({"SkipIndex"}), Applicable)
    BY <1>5, <2>2 DEF Commit
  <2>4. onlyBasicIndexing \/ InState({"SkipIndex"}) \subseteq Unsuitable
    BY <1>2, <2>1 DEF InState, EntryIsRight
  <2>5. url' = [id \in Ids |-> url[id]]
    BY <2>3 DEF Store
  <2> QED BY <2>3, <2>4, <2>5 DEF Store, TypeOK
<1>6. url' = url /\ ContentNotForgotten'
  <2>1. CASE Commit
    BY <1>2, <1>4, <1>5, <2>1 DEF ContentNotForgotten, Documents
  <2>2. CASE markFailed
    BY <1>2, <1>4, <2>2 DEF markFailed, ContentNotForgotten, Documents
  <2>3. CASE UNCHANGED db
    BY <1>2, <1>4, <2>3 DEF db, ContentNotForgotten, Documents
  <2> QED BY <1>3, <2>1, <2>2, <2>3, IndexWrites
<1>7. ASSUME Reading' PROVE \A i \in DOMAIN m_batch' : EntryIsRight(m_batch[i])'
  <2> SUFFICES ASSUME NEW i \in DOMAIN m_batch' PROVE EntryIsRight(m_batch[i])'
    OBVIOUS
  <2>1. CASE slotNewBatch
    BY <1>4, <1>6, <2>1 DEF slotNewBatch, EntryIsRight
  <2>2. CASE IndexNextFile
    <3>1. ~onlyBasicIndexing /\ Reading
      <4>1. Reading /\ Min(Pending) \in DOMAIN m_batch /\ m_batch[Min(Pending)].m_state = "Pending"
        BY <2>2, NextPendingFile DEF IndexNextFile, Reading
      <4> QED BY <1>2, <4>1 DEF EntryIsRight
    <3>2. /\ m_batch' = [m_batch EXCEPT ![Min(Pending)].m_state = index(m_batch[Min(Pending)])]
          /\ index(m_batch[Min(Pending)]) \in IndexStates /\ Min(Pending) \in DOMAIN m_batch
      BY <2>2, IndexGives, NextPendingFile DEF IndexNextFile, IndexStates
    <3>3. /\ DOMAIN m_batch' = DOMAIN m_batch
          /\ m_batch'[i].m_id = m_batch[i].m_id /\ m_batch'[i].m_path = m_batch[i].m_path
          /\ m_batch'[i].m_state = IF i = Min(Pending) THEN index(m_batch[Min(Pending)])
                                                       ELSE m_batch[i].m_state
      BY <3>2, StateChanged
    <3>4. m_batch[i] \in BatchInfo /\ EntryIsRight(m_batch[i])
      BY <1>2, <3>1, <3>3 DEF TypeOK
    <3>5. index(m_batch[i]) = IF m_batch[i].m_id \in Unsuitable THEN "SkipIndex" ELSE "Succeeded"
      BY <1>1, <3>1, <3>4, FileIsFound
    <3> QED BY <1>4, <1>6, <3>1, <3>3, <3>4, <3>5 DEF EntryIsRight
  <2>3. CASE Commit
    <3>1. /\ Reading /\ DOMAIN m_batch' = DOMAIN m_batch
          /\ m_batch'[i] = IF i \in Pending THEN m_batch[i] ELSE [m_batch[i] EXCEPT !.m_state = "Committed"]
      BY <1>7, <2>3 DEF Commit, Reading
    <3>2. m_batch[i] \in BatchInfo /\ EntryIsRight(m_batch[i])
      BY <1>2, <3>1 DEF TypeOK
    <3>3. \/ m_batch'[i] = m_batch[i]
          \/ /\ m_batch'[i].m_id = m_batch[i].m_id /\ m_batch'[i].m_path = m_batch[i].m_path
             /\ m_batch'[i].m_state = "Committed"
      BY <3>1, <3>2 DEF BatchInfo
    <3> QED BY <1>4, <1>6, <3>2, <3>3 DEF EntryIsRight
  <2>4. ASSUME m_batch' = m_batch, Reading PROVE EntryIsRight(m_batch[i])'
    BY <1>2, <1>4, <1>6, <2>4 DEF EntryIsRight
  <2>5. CASE Thread
    BY <1>7, <2>4, <2>5 DEF Thread, Start, RunBegin, Leave, SendBatch, BatchFinished, BatchFailed,
                            extractor, Reading
  <2>6. CASE ExtractorCrashes \/ BatchProcessed
    BY <1>7, <2>4, <2>6 DEF ExtractorCrashes, BatchProcessed, Reading
  <2>7. CASE Faults
    BY <1>7, <2>4, <2>7 DEF Faults, slotNewBatch_Fails, Commit_Fails, TransactionFails, Killed, Reading
  <2>8. CASE quit \/ UNCHANGED vars
    BY <1>7, <2>4, <2>8 DEF quit, vars, extractor, Reading
  <2> QED BY <1>1, <1>3, <2>1, <2>2, <2>3, <2>5, <2>6, <2>7, <2>8 DEF Next, Extractor
<1> QED BY <1>2, <1>4, <1>6, <1>7

LEMMA PathsAreRightInit == Init => PathsAreRight
<1> SUFFICES ASSUME Init PROVE PathsAreRight
  OBVIOUS
<1>1. Documents \subseteq phaseOne \cup indexed
  BY DEF Init, Documents
<1>2. ContentNotForgotten
  BY <1>1 DEF ContentNotForgotten
<1>3. ~Reading /\ events = <<>> /\ \A p \in Excluded : at[p] = NoFile
  BY DEF Init, Reading
<1> QED BY <1>2, <1>3, InitialDocuments DEF PathsAreRight

\* While the file system is at rest, a document loses its mark only by being indexed,
\* skipped or blamed, in whichever order commits, crashes and restarts come.
THEOREM ContentIsKept == Spec => [](AtRest => ContentNotForgotten)
<1>1. PathsAreRight => (AtRest => ContentNotForgotten)
  BY DEF PathsAreRight
<1> QED BY <1>1, TypeOKInit, TypeOKNext, PathsAreRightInit, PathsAreRightNext, PTL DEF Spec

-----------------------------------------------------------------------------
(* The counters given to the time estimator. *)

\* A batch has as many ids as its length says.
LEMMA SizeOfBatch ==
  ASSUME TypeOK, BatchUnderWay
  PROVE  /\ Len(idList) \in Nat /\ IsFiniteSet(InBatch) /\ Cardinality(InBatch) = Len(idList)
         /\ IsFiniteSet(phaseOne \cup InBatch) /\ Cardinality(phaseOne \cup InBatch) \in Nat
         /\ Len(idList) <= Cardinality(phaseOne \cup InBatch)
         /\ Cardinality(phaseOne) <= Cardinality(phaseOne \cup InBatch)
         /\ phaseOne \cap InBatch = {} =>
              Cardinality(phaseOne \cup InBatch) = Cardinality(phaseOne) + Len(idList)
<1>1. Len(idList) \in Nat /\ DOMAIN idList = 1..Len(idList) /\ idList \in [1..Len(idList) -> InBatch]
  BY DEF TypeOK, InBatch
<1>2. idList \in Surjection(1..Len(idList), InBatch)
  BY <1>1 DEF Surjection, InBatch
<1>3. idList \in Injection(1..Len(idList), InBatch)
  BY <1>1 DEF Injection, IsInjective, BatchUnderWay
<1>4. IsFiniteSet(1..Len(idList)) /\ Cardinality(1..Len(idList)) = Len(idList)
  BY <1>1, FS_Interval
<1>5. IsFiniteSet(InBatch) /\ Cardinality(InBatch) = Len(idList)
  BY <1>2, <1>3, <1>4, FS_Surjection
<1>6. IsFiniteSet(phaseOne) /\ Cardinality(phaseOne) \in Nat
  BY IdAtEachPlace DEF TypeOK
<1>7. IsFiniteSet(phaseOne \cup InBatch) /\ Cardinality(phaseOne \cup InBatch) \in Nat
  BY <1>5, <1>6, FS_Union, FS_CardinalityType
<1>8. Len(idList) <= Cardinality(phaseOne \cup InBatch) /\ Cardinality(phaseOne) <= Cardinality(phaseOne \cup InBatch)
  BY <1>5, <1>7, FS_Subset
<1>9. phaseOne \cap InBatch = {} =>
        Cardinality(phaseOne \cup InBatch) = Cardinality(phaseOne) + Len(idList)
  <2>1. Cardinality(phaseOne \cup InBatch) =
          Cardinality(phaseOne) + Cardinality(InBatch) - Cardinality(phaseOne \cap InBatch)
    BY <1>5, <1>6, FS_Union
  <2>2. phaseOne \cap InBatch = {} => Cardinality(phaseOne \cap InBatch) = 0
    BY FS_EmptySet
  <2> QED BY <1>1, <1>5, <1>6, <2>1, <2>2
<1> QED BY <1>1, <1>5, <1>7, <1>8, <1>9

\* Entries processed are entries of the batch.
LEMMA SizeOfPart ==
  ASSUME NEW n \in Nat, NEW S \in SUBSET (1..n)
  PROVE  IsFiniteSet(S) /\ Cardinality(S) \in Nat /\ Cardinality(S) <= n
<1>1. IsFiniteSet(1..n) /\ Cardinality(1..n) = n
  BY FS_Interval
<1> QED BY <1>1, FS_Subset, FS_CardinalityType

LEMMA ProgressIsCountedNext ==
  TypeOK /\ BatchUnderWay /\ PathsAreRight /\ ProgressIsCounted /\ [Next]_vars => ProgressIsCounted'
<1> SUFFICES ASSUME TypeOK, BatchUnderWay, PathsAreRight, ProgressIsCounted, [Next]_vars, AtRest'
             PROVE  ProgressIsCounted'
  BY DEF ProgressIsCounted
<1>1. AtRest /\ ~FileSystem /\ ~HandleEvent
  BY FaultsAndChanges, ConstantsAssumption DEF AtRest, TypeOK, PathsAreRight, HandleEvent
<1>2. /\ finishedCount <= totalCount
      /\ pc = "fetch" /\ ~m_stop => finishedCount + Cardinality(phaseOne) <= totalCount
      /\ pc = "wait" =>
           /\ batchStartCount + Cardinality(phaseOne \cup InBatch) <= totalCount
           /\ finishedCount <= batchStartCount + Len(idList)
      /\ proc = "newBatch" => finishedCount = batchStartCount
      /\ Reading =>
           /\ finishedCount <= batchStartCount + Cardinality(Processed)
           /\ \A i \in DOMAIN m_batch : m_batch[i].m_state = "Committed" => m_batch[i].m_id \notin phaseOne
      /\ proc = "finished" => phaseOne \cap InBatch = {}
  BY <1>1 DEF ProgressIsCounted
<1>t. /\ {finishedCount, totalCount, batchStartCount, Len(idList), Cardinality(phaseOne),
          Cardinality(phaseOne \cup InBatch)} \subseteq Nat
      /\ Len(idList) <= Cardinality(phaseOne \cup InBatch)
  BY SizeOfBatch, IdAtEachPlace DEF TypeOK
\* steps that leave the thread alone
<1>3. ASSUME UNCHANGED <<phaseOne, pc, idList, finishedCount, totalCount, batchStartCount, m_batch>>,
             m_stop => m_stop',
             proc' = "finished" => proc = "finished",
             proc' \in {"nextFile", "commit"} => Reading,
             proc' = "newBatch" => proc = "newBatch"
      PROVE  ProgressIsCounted'
  BY <1>2, <1>3 DEF ProgressIsCounted, Reading, InBatch, Processed, Pending
<1>4. CASE Start \/ Leave
  BY <1>2, <1>4 DEF Start, Leave, Busy, BatchUnderWay, ProgressIsCounted, Reading, InBatch, extractor, db
<1>5. CASE RunBegin
  <2>1. phaseOne' = phaseOne /\ finishedCount' = 0 /\ totalCount' = Cardinality(phaseOne)
        /\ pc' = "fetch" /\ proc' = "waiting"
    BY <1>5 DEF RunBegin, db
  <2>2. finishedCount' <= totalCount' /\ finishedCount' + Cardinality(phaseOne') <= totalCount'
    BY <1>t, <2>1
  <2> QED BY <2>1, <2>2 DEF ProgressIsCounted, Reading
<1>6. CASE SendBatch
  <2>1. phaseOne \subseteq Ids /\ phaseOne # {} /\ batchSize \in Nat \ {0} /\ idList' = fetch(batchSize)
    BY <1>6, ConstantsAssumption DEF SendBatch, TypeOK
  <2>2. \A i \in DOMAIN idList' : idList'[i] \in phaseOne
    BY <2>1, Fetched
  <2>3. phaseOne' \cup InBatch' = phaseOne
    BY <1>6, <2>2 DEF SendBatch, InBatch, db
  <2>4. idList' \in Seq(Ids) /\ Len(idList') \in Nat
    BY <2>1, Fetched
  <2>5. /\ finishedCount' = finishedCount /\ totalCount' = totalCount /\ batchStartCount' = finishedCount
        /\ pc = "fetch" /\ pc' = "wait" /\ ~m_stop /\ ~Busy /\ proc' \in {"newBatch", proc}
    BY <1>6 DEF SendBatch, Busy, BatchUnderWay
  <2>6. proc' \notin {"nextFile", "commit", "finished"}
    BY <2>5 DEF Busy
  <2>7. /\ finishedCount' <= totalCount'
        /\ batchStartCount' + Cardinality(phaseOne' \cup InBatch') <= totalCount'
        /\ finishedCount' <= batchStartCount' + Len(idList')
    <3>1. finishedCount + Cardinality(phaseOne) <= totalCount
      BY <1>2, <2>5
    <3>2. Cardinality(phaseOne' \cup InBatch') = Cardinality(phaseOne)
      BY <2>3
    <3>3. finishedCount <= finishedCount + Len(idList')
      BY <1>t, <2>4
    <3> QED BY <1>2, <2>5, <3>1, <3>2, <3>3
  <2> QED BY <2>5, <2>6, <2>7 DEF ProgressIsCounted, Reading
<1>7. CASE BatchFinished
  <2>1. Cardinality(phaseOne \cup InBatch) = Cardinality(phaseOne) + Len(idList)
    BY <1>2, <1>7, SizeOfBatch DEF BatchFinished
  <2>2. finishedCount + Cardinality(phaseOne) <= totalCount
    BY <1>2, <1>7, <1>t, <2>1 DEF BatchFinished
  <2> QED BY <1>2, <1>7, <2>2 DEF BatchFinished, ProgressIsCounted, Reading, db
<1>8. CASE BatchFailed
  <2>1. pc = "wait" /\ proc = "dead" /\ pc' = "fetch" /\ totalCount' = totalCount /\ m_stop' = m_stop
        /\ proc' \in {"dead", "waiting"}
    BY <1>8 DEF BatchFailed
  <2>2. CASE m_stop
    <3>1. finishedCount' = finishedCount
      BY <1>8, <2>2 DEF BatchFailed
    <3> QED BY <1>2, <2>1, <2>2, <3>1 DEF ProgressIsCounted, Reading
  <2>3. CASE ~m_stop
    <3>1. finishedCount' = batchStartCount /\ phaseOne' \subseteq phaseOne
      BY <1>8, <2>3 DEF BatchFailed, DivideBatch, markFailed, db
    <3>2. Cardinality(phaseOne') <= Cardinality(phaseOne \cup InBatch) /\ Cardinality(phaseOne') \in Nat
      BY <3>1, SizeOfBatch, FS_Subset, FS_CardinalityType
    <3>3. finishedCount' + Cardinality(phaseOne') <= totalCount' /\ finishedCount' <= totalCount'
      BY <1>2, <1>t, <2>1, <3>1, <3>2
    <3> QED BY <2>1, <3>3 DEF ProgressIsCounted, Reading
  <2> QED BY <2>2, <2>3
<1>9. CASE slotNewBatch
  <2>1. /\ UNCHANGED <<phaseOne, pc, idList, finishedCount, totalCount, batchStartCount>>
        /\ proc = "newBatch" /\ proc' = "nextFile"
        /\ \A i \in DOMAIN m_batch' : m_batch'[i].m_state \in {"SkipIndex", "Pending"}
    BY <1>9 DEF slotNewBatch, ThreadAndMain, thread, db
  <2>2. Cardinality(Processed') \in Nat
    <3>1. Processed' \in SUBSET (1..Len(m_batch')) /\ Len(m_batch') \in Nat
      <4>1. m_batch' \in Seq(BatchInfo)
        BY TypeOKNext DEF TypeOK
      <4> QED BY <4>1 DEF Processed
    <3> QED BY <3>1, SizeOfPart
  <2>3. finishedCount' <= batchStartCount' + Cardinality(Processed')
    BY <1>2, <1>t, <2>1, <2>2
  <2>4. phaseOne' \cup InBatch' = phaseOne \cup InBatch
    BY <2>1 DEF InBatch
  <2>5. pc' = "wait" /\ pc = "wait"
    BY <2>1 DEF BatchUnderWay, Busy
  <2> QED BY <1>2, <2>1, <2>3, <2>4, <2>5 DEF ProgressIsCounted, Reading
<1>10. CASE IndexNextFile
  <2>1. /\ UNCHANGED <<phaseOne, pc, idList, totalCount, batchStartCount>>
        /\ Reading /\ Pending # {} /\ proc' \in {"nextFile", "commit"}
        /\ finishedCount' \in {finishedCount, finishedCount + 1}
    <3>1. \E n \in {0, 1} : finishedCount' = finishedCount + n
      BY <1>10 DEF IndexNextFile
    <3>2. finishedCount' \in {finishedCount, finishedCount + 1}
      BY <1>t, <3>1
    <3> QED BY <1>10, <3>2 DEF IndexNextFile, Reading, ThreadAndMain, thread, db
  <2>2. /\ m_batch' = [m_batch EXCEPT ![Min(Pending)].m_state = index(m_batch[Min(Pending)])]
        /\ index(m_batch[Min(Pending)]) \in {"DoesNotExist", "RemoveIndex", "SkipIndex", "Succeeded"}
        /\ Min(Pending) \in DOMAIN m_batch /\ Min(Pending) \in Pending
    BY <1>10, IndexGives, NextPendingFile DEF IndexNextFile
  <2>3. /\ m_batch' \in Seq(BatchInfo) /\ DOMAIN m_batch' = DOMAIN m_batch
        /\ \A j \in DOMAIN m_batch :
             /\ m_batch'[j].m_id = m_batch[j].m_id
             /\ m_batch'[j].m_state = IF j = Min(Pending) THEN index(m_batch[Min(Pending)])
                                                          ELSE m_batch[j].m_state
    <3>1. index(m_batch[Min(Pending)]) \in IndexStates
      BY <2>2 DEF IndexStates
    <3> QED BY <2>2, <3>1, StateChanged
  <2>4. Processed' = Processed \cup {Min(Pending)} /\ Min(Pending) \notin Processed
    BY <2>2, <2>3 DEF Processed, Pending
  <2>5. /\ DOMAIN m_batch = 1..Len(idList)
        /\ Processed \in SUBSET (1..Len(idList)) /\ Processed' \in SUBSET (1..Len(idList))
    <3>1. DOMAIN m_batch = 1..Len(idList)
      BY <2>1 DEF BatchUnderWay, TypeOK
    <3> QED BY <2>3, <3>1 DEF Processed
  <2>6. /\ IsFiniteSet(Processed) /\ Cardinality(Processed) \in Nat
        /\ Cardinality(Processed') \in Nat /\ Cardinality(Processed') <= Len(idList)
    BY <1>t, <2>5, SizeOfPart
  <2>7. Cardinality(Processed') = Cardinality(Processed) + 1
    BY <2>4, <2>6, FS_AddElement
  <2>8. finishedCount' <= batchStartCount' + Cardinality(Processed')
    BY <1>2, <1>t, <2>1, <2>6, <2>7
  <2>9. pc = "wait" /\ pc' = "wait"
    BY <2>1 DEF BatchUnderWay, Busy, Reading
  <2>10. finishedCount' <= batchStartCount' + Len(idList') /\ finishedCount' <= totalCount'
    BY <1>2, <1>t, <2>1, <2>6, <2>8, <2>9
  <2>11. \A i \in DOMAIN m_batch' : m_batch'[i].m_state = "Committed" => m_batch'[i].m_id \notin phaseOne'
    BY <1>2, <2>1, <2>2, <2>3
  <2>12. phaseOne' \cup InBatch' = phaseOne \cup InBatch
    BY <2>1 DEF InBatch
  <2> QED BY <1>2, <2>1, <2>8, <2>9, <2>10, <2>11, <2>12 DEF ProgressIsCounted
<1>11. CASE ExtractorCrashes \/ BatchProcessed
  BY <1>3, <1>11 DEF ExtractorCrashes, BatchProcessed, Reading, ThreadAndMain, thread, db
<1>12. CASE Faults
  BY <1>3, <1>12 DEF Faults, slotNewBatch_Fails, Commit_Fails, TransactionFails, Killed, Reading,
                     ThreadAndMain, thread, db
<1>13. CASE quit \/ UNCHANGED vars
  <2>1. /\ UNCHANGED <<phaseOne, pc, idList, finishedCount, totalCount, batchStartCount, m_batch, proc>>
        /\ m_stop => m_stop'
    BY <1>13 DEF quit, vars, thread, extractor, db
  <2> QED BY <1>3, <2>1 DEF Reading
<1>14. CASE Commit
  <2>1. /\ UNCHANGED <<pc, idList, totalCount, batchStartCount, finishedCount>>
        /\ Reading /\ proc = "commit" /\ pc = "wait"
    BY <1>14 DEF Commit, Reading, Busy, BatchUnderWay, ThreadAndMain, thread
  <2>2. phaseOne' \subseteq phaseOne \ (InState({"SkipIndex"}) \cup Applicable)
    BY <1>14 DEF Commit, Store
  \* Nothing processed stays marked.
  <2>3. \A i \in Processed : m_batch[i].m_id \notin phaseOne'
    <3> SUFFICES ASSUME NEW i \in Processed, m_batch[i].m_id \in phaseOne PROVE m_batch[i].m_id \notin phaseOne'
      BY <2>2
    <3>1. i \in DOMAIN m_batch /\ EntryIsRight(m_batch[i]) /\ m_batch[i].m_state # "Pending"
      BY <1>1, <2>1 DEF Processed, Pending, PathsAreRight
    <3>2. m_batch[i].m_state \in {"Succeeded", "SkipIndex"}
      BY <1>2, <2>1, <3>1 DEF EntryIsRight
    <3>3. CASE m_batch[i].m_state = "SkipIndex"
      BY <2>2, <3>1, <3>3 DEF InState
    <3>4. CASE m_batch[i].m_state = "Succeeded"
      <4>1. m_batch[i].m_path = url[m_batch[i].m_id]
        BY <3>1, <3>4 DEF EntryIsRight
      <4>2. m_batch[i].m_id \in Documents
        <5>1. m_batch[i].m_id \in Ids /\ url[m_batch[i].m_id] \in AllPaths
          BY <1>1 DEF PathsAreRight, TypeOK
        <5> QED BY <5>1, ConstantsAssumption DEF Documents, AllPaths
      <4> QED BY <2>2, <3>1, <3>4, <4>1, <4>2 DEF Applicable
    <3> QED BY <3>2, <3>3, <3>4
  <2>4. batchStartCount' + Cardinality(phaseOne' \cup InBatch') <= totalCount'
    <3>1. phaseOne' \cup InBatch' \in SUBSET (phaseOne \cup InBatch)
      BY <2>1, <2>2 DEF InBatch
    <3>2. Cardinality(phaseOne' \cup InBatch') <= Cardinality(phaseOne \cup InBatch)
          /\ Cardinality(phaseOne' \cup InBatch') \in Nat
      BY <3>1, SizeOfBatch, FS_Subset, FS_CardinalityType
    <3> QED BY <1>2, <1>t, <2>1, <3>2
  <2>5. CASE Pending = {}
    <3>1. proc' = "finished"
      BY <1>14, <2>5 DEF Commit
    <3>2. phaseOne' \cap InBatch' = {}
      <4>1. Processed = DOMAIN idList /\ \A i \in DOMAIN idList : m_batch[i].m_id = idList[i]
        BY <2>1, <2>5 DEF Processed, BatchUnderWay
      <4> QED BY <2>1, <2>3, <4>1 DEF InBatch
    <3> QED BY <1>2, <2>1, <2>4, <3>1, <3>2 DEF ProgressIsCounted, Reading
  <2>6. CASE Pending # {}
    <3>1. /\ m_batch' = [i \in DOMAIN m_batch |->
                IF i \in Pending THEN m_batch[i] ELSE [m_batch[i] EXCEPT !.m_state = "Committed"]]
          /\ proc' = "nextFile"
      BY <1>14, <2>6 DEF Commit
    <3>2. \A i \in DOMAIN m_batch : m_batch[i] \in BatchInfo
      BY DEF TypeOK
    <3>3. /\ DOMAIN m_batch' = DOMAIN m_batch
          /\ \A i \in DOMAIN m_batch :
               /\ m_batch'[i].m_id = m_batch[i].m_id
               /\ m_batch'[i].m_state = IF i \in Pending THEN "Pending" ELSE "Committed"
      BY <3>1, <3>2 DEF BatchInfo, Pending
    <3>4. Processed' = Processed
      BY <3>3 DEF Processed, Pending
    <3>5. \A i \in DOMAIN m_batch' : m_batch'[i].m_state = "Committed" => m_batch'[i].m_id \notin phaseOne'
      BY <2>3, <3>3 DEF Processed
    <3> QED BY <1>2, <2>1, <2>4, <3>1, <3>4, <3>5 DEF ProgressIsCounted
  <2> QED BY <2>5, <2>6
<1> QED BY <1>1, <1>4, <1>5, <1>6, <1>7, <1>8, <1>9, <1>10, <1>11, <1>12, <1>13, <1>14
        DEF Next, Thread, Extractor

\* While the file system is at rest, the files remaining are never fewer than none,
\* although a batch that failed is processed again in parts.
THEOREM RemainingIsNatural == Spec => [](AtRest => RemainingNeverWraps)
<1>1. Init => ProgressIsCounted
  BY DEF Init, ProgressIsCounted, Reading
<1>2. ProgressIsCounted => (AtRest => RemainingNeverWraps)
  BY DEF ProgressIsCounted, RemainingNeverWraps
<1> QED BY <1>1, <1>2, TypeOKInit, TypeOKNext, PathsAreRightInit, PathsAreRightNext,
           ProgressIsCountedNext, PTL DEF Spec
=============================================================================
