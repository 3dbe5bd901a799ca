--------------------------- MODULE ContentIndexer ---------------------------
(***************************************************************************)
(* Content indexing: the thread of FileContentIndexer::run, the process    *)
(* baloo_file_extractor it feeds batches to (extractor/app.cpp), and the   *)
(* main thread of baloo_file, which meanwhile follows changes of the file  *)
(* system (FileWatch, MetadataMover). All three write the index, each in   *)
(* transactions of its own.                                                *)
(*                                                                         *)
(* While the content indexer runs no other runnable of the scheduler does  *)
(* (FileIndexScheduler!OneRunnerWhenBusy), so files handed to it wait in   *)
(* scheduled. Files are told apart by their id, the inode: a path may      *)
(* change hands, an id may be reused.                                      *)
(***************************************************************************)
EXTENDS Naturals, Sequences, FiniteSets, FiniteSetsExt

CONSTANTS
  N,             \* ids are 1..N; fetchPhaseOneIds() returns the smallest first
  Paths,         \* indexable paths
  Excluded,      \* paths the configuration excludes
  NoPath, NoFile,
  BatchSize,     \* FileContentIndexer::m_batchSize
  ErrorLimit,    \* consecutive transactions the extractor may fail to open (10)
  Crashing,      \* ids of files that crash their extractor plugin
  Unsuitable,    \* ids of files skipped for their mimetype or size
  MaxFsChanges,  \* bound: changes of the file system
  MaxFaults,     \* bound: kills of the extractor and failures of its database calls
  MaxQuits       \* bound: calls of quit()

Ids == 1..N

ASSUME ConstantsAssumption ==
  /\ N \in Nat \ {0} /\ BatchSize \in Nat \ {0} /\ ErrorLimit \in Nat
  /\ Paths \cap Excluded = {} /\ NoPath \notin Paths \cup Excluded /\ NoFile \notin Ids
  /\ Crashing \subseteq Ids /\ Unsuitable \subseteq Ids
  /\ {MaxFsChanges, MaxFaults, MaxQuits} \subseteq Nat

VARIABLES
  \* the index
  url,         \* document of an id: its path, NoPath if there is no document
  phaseOne,    \* contentIndexingDB
  failed,      \* failedIdDB
  indexed,     \* documents that hold the terms of their content
  \* the file system and the main thread
  at,          \* file at a path
  events,      \* notifications of the file system not handled yet
  scheduled,   \* paths handed to the scheduler as new files
  \* FileContentIndexer::run
  pc, batchSize, idList, hadErrors, m_stop,
  finishedCount, totalCount, batchStartCount,
  \* the extractor process
  proc,        \* what it does next
  m_batch, m_consecutiveErrors, onlyBasicIndexing,
  \* how much of the bounds is used up
  fsChanges, faults, quits

db        == <<url, phaseOne, failed, indexed>>
main      == <<at, events, scheduled, fsChanges>>
thread    == <<pc, batchSize, idList, totalCount, batchStartCount>>
extractor == <<proc, m_batch, m_consecutiveErrors>>

vars == <<db, main, thread, hadErrors, m_stop, finishedCount, extractor,
          onlyBasicIndexing, faults, quits>>

AllPaths    == Paths \cup Excluded
Documents   == {id \in Ids : url[id] # NoPath}
DocumentAt(p) == {id \in Ids : url[id] = p}   \* documentId(p), empty if unknown

IndexStates == {"Pending", "DoesNotExist", "RemoveIndex", "SkipIndex", "Succeeded", "Committed"}
BatchInfo   == [m_id : Ids, m_path : AllPaths \cup {NoPath}, m_state : IndexStates]
Event       == [type : {"moved", "deleted", "created"}, from : AllPaths, to : AllPaths]

TypeOK ==
  /\ url \in [Ids -> AllPaths \cup {NoPath}]
  /\ phaseOne \subseteq Ids /\ failed \subseteq Ids /\ indexed \subseteq Ids
  /\ at \in [AllPaths -> Ids \cup {NoFile}]
  /\ events \in Seq(Event)
  /\ scheduled \subseteq AllPaths
  /\ pc \in {"idle", "begin", "fetch", "wait"}
  /\ batchSize \in 1..BatchSize
  /\ idList \in Seq(Ids)
  /\ hadErrors \in BOOLEAN /\ m_stop \in BOOLEAN /\ onlyBasicIndexing \in BOOLEAN
  /\ finishedCount \in Nat /\ totalCount \in Nat /\ batchStartCount \in Nat
  /\ proc \in {"none", "waiting", "newBatch", "nextFile", "commit", "finished", "dead"}
  /\ m_batch \in Seq(BatchInfo)
  /\ m_consecutiveErrors \in 0..(ErrorLimit + 1)
  /\ fsChanges \in 0..MaxFsChanges /\ faults \in 0..MaxFaults /\ quits \in 0..MaxQuits

\* The index agrees with the file system and some documents are marked.
Init ==
  /\ at \in {a \in [AllPaths -> Ids \cup {NoFile}] :
               /\ \A p \in Excluded : a[p] = NoFile
               /\ \A id \in Ids : Cardinality({p \in AllPaths : a[p] = id}) = 1}
  /\ url = [id \in Ids |-> CHOOSE p \in AllPaths : at[p] = id]
  /\ phaseOne \in SUBSET Ids
  /\ failed = {}
  /\ indexed = Ids \ phaseOne
  /\ events = <<>> /\ scheduled = {}
  /\ pc = "idle" /\ batchSize = BatchSize /\ idList = <<>>
  /\ hadErrors = FALSE /\ m_stop = FALSE
  /\ finishedCount = 0 /\ totalCount = 0 /\ batchStartCount = 0
  /\ proc = "none" /\ m_batch = <<>> /\ m_consecutiveErrors = 0
  /\ onlyBasicIndexing \in BOOLEAN
  /\ fsChanges = 0 /\ faults = 0 /\ quits = 0

-----------------------------------------------------------------------------
\* Effects of a write transaction.

\* Mutant: a removed document stays marked for content indexing.
Store_KeepsMark(removed, skipped, done) ==
  /\ url' = [id \in Ids |-> IF id \in removed THEN NoPath ELSE url[id]]
  /\ phaseOne' = phaseOne \ (skipped \cup done)
  /\ failed' = failed \ (removed \cup done)
  /\ indexed' = (indexed \ removed) \cup done

\* removeDocument() for the ids of removed, removePhaseOne() for those of skipped;
\* those of done have their terms replaced and are neither marked nor failed.
Store(removed, skipped, done) ==
  /\ url' = [id \in Ids |-> IF id \in removed THEN NoPath ELSE url[id]]
  /\ phaseOne' = phaseOne \ (removed \cup skipped \cup done)
  /\ failed' = failed \ (removed \cup done)
  /\ indexed' = (indexed \ removed) \cup done

-----------------------------------------------------------------------------
\* FileContentIndexer::run, in the thread pool of the scheduler.

\* scheduleIndexing() starts the content indexer while documents are marked.
Start ==
  /\ pc = "idle" /\ phaseOne # {}
  /\ pc' = "begin"
  /\ UNCHANGED <<db, main, batchSize, idList, totalCount, batchStartCount, hadErrors, m_stop,
                 finishedCount, extractor, onlyBasicIndexing, faults, quits>>

\* The scheduler tells it to stop.
quit ==
  /\ quits < MaxQuits
  /\ quits' = quits + 1
  /\ m_stop' = TRUE
  /\ UNCHANGED <<db, main, thread, hadErrors, finishedCount, extractor, onlyBasicIndexing, faults>>

\* run() up to its loop: the extractor is started and m_stop is cleared.
RunBegin ==
  /\ pc = "begin"
  /\ pc' = "fetch"
  /\ proc' = "waiting" /\ m_batch' = <<>> /\ m_consecutiveErrors' = 0
  /\ m_stop' = FALSE
  /\ batchSize' = BatchSize
  /\ finishedCount' = 0
  /\ totalCount' = Cardinality(phaseOne)
  /\ UNCHANGED <<db, main, idList, batchStartCount, hadErrors, onlyBasicIndexing, faults, quits>>

\* fetchPhaseOneIds(size): the smallest ids of the database, in order.
smaller(id) == {other \in phaseOne : other < id}

fetch(size) ==
  [i \in 1..Min({size, Cardinality(phaseOne)}) |->
     CHOOSE id \in phaseOne : Cardinality(smaller(id)) = i - 1]

\* Mutant: m_stop is not looked at once a batch has been fetched.
Leave_IgnoresStop ==
  /\ pc = "fetch"
  /\ phaseOne = {}
  /\ pc' = "idle"
  /\ proc' = "none" /\ m_batch' = <<>>
  /\ UNCHANGED <<db, main, batchSize, idList, totalCount, batchStartCount, hadErrors, m_stop,
                 finishedCount, m_consecutiveErrors, onlyBasicIndexing, faults, quits>>

\* The end of run(): the extractor is shut down and done() is posted.
Leave ==
  /\ pc = "fetch"
  /\ phaseOne = {} \/ m_stop
  /\ pc' = "idle"
  /\ proc' = "none" /\ m_batch' = <<>>
  /\ UNCHANGED <<db, main, batchSize, idList, totalCount, batchStartCount, hadErrors, m_stop,
                 finishedCount, m_consecutiveErrors, onlyBasicIndexing, faults, quits>>

\* A batch is sent down the pipe; a dead extractor does not read it.
SendBatch ==
  /\ pc = "fetch"
  /\ phaseOne # {} /\ ~m_stop
  /\ idList' = fetch(batchSize)
  /\ hadErrors' = FALSE
  /\ batchStartCount' = finishedCount
  /\ pc' = "wait"
  /\ proc' = IF proc = "waiting" THEN "newBatch" ELSE proc
  /\ UNCHANGED <<db, main, batchSize, totalCount, m_stop, finishedCount, m_batch,
                 m_consecutiveErrors, onlyBasicIndexing, faults, quits>>

\* The extractor has reported the end of the batch.
BatchFinished ==
  /\ pc = "wait" /\ proc = "finished"
  /\ batchSize' = Len(idList)
  /\ pc' = "fetch" /\ proc' = "waiting"
  /\ UNCHANGED <<db, main, idList, totalCount, batchStartCount, hadErrors, m_stop, finishedCount,
                 m_batch, m_consecutiveErrors, onlyBasicIndexing, faults, quits>>

\* markFailed(idList.first())
markFailed ==
  /\ failed' = failed \cup {idList[1]}
  /\ phaseOne' = phaseOne \ {idList[1]}
  /\ UNCHANGED <<url, indexed>>

\* Mutants: the batch is not divided; a batch of one is divided, too; a batch is
\* blamed on its first file; the progress made is not taken back.
DivideBatch_Again    == batchSize' = Len(idList) /\ finishedCount' = batchStartCount /\ UNCHANGED db
DivideBatch_Always   == batchSize' = Len(idList) \div 2 /\ finishedCount' = batchStartCount /\ UNCHANGED db
DivideBatch_First    == batchSize' = BatchSize /\ finishedCount' = batchStartCount /\ markFailed
DivideBatch_Progress ==
  /\ IF Len(idList) = 1 THEN batchSize' = BatchSize /\ markFailed
                        ELSE batchSize' = Len(idList) \div 2 /\ UNCHANGED db
  /\ UNCHANGED finishedCount

\* What is done about a failed batch: halve it, or blame its only file.
DivideBatch ==
  /\ IF Len(idList) = 1 THEN batchSize' = BatchSize /\ markFailed
                        ELSE batchSize' = Len(idList) \div 2 /\ UNCHANGED db
  /\ finishedCount' = batchStartCount

\* The extractor has died; unless the indexer is to stop, it is started again.
BatchFailed ==
  /\ pc = "wait" /\ proc = "dead"
  /\ hadErrors' = TRUE
  /\ pc' = "fetch"
  /\ IF m_stop
     THEN batchSize' = Len(idList) /\ UNCHANGED <<db, proc, finishedCount>>
     ELSE DivideBatch /\ proc' = "waiting"
  /\ m_batch' = <<>> /\ m_consecutiveErrors' = 0
  /\ UNCHANGED <<main, idList, totalCount, batchStartCount, m_stop, onlyBasicIndexing, faults, quits>>

-----------------------------------------------------------------------------
\* The extractor process.

ThreadAndMain == <<main, thread, hadErrors, m_stop, onlyBasicIndexing, quits>>

\* A transaction could not be created: try again later, give up after too many.
TransactionFails(retry) ==
  /\ faults < MaxFaults
  /\ faults' = faults + 1
  /\ IF m_consecutiveErrors > ErrorLimit
     THEN proc' = "dead" /\ UNCHANGED m_consecutiveErrors
     ELSE proc' = retry /\ m_consecutiveErrors' = m_consecutiveErrors + 1
  /\ UNCHANGED <<db, ThreadAndMain, m_batch, finishedCount>>

\* The path of every document is read here, once per batch.
slotNewBatch ==
  /\ proc = "newBatch"
  /\ proc' = "nextFile"
  /\ m_batch' = [i \in 1..Len(idList) |->
       [m_id |-> idList[i],
        m_path |-> IF onlyBasicIndexing THEN NoPath ELSE url[idList[i]],
        m_state |-> IF onlyBasicIndexing THEN "SkipIndex" ELSE "Pending"]]
  /\ m_consecutiveErrors' = IF onlyBasicIndexing THEN m_consecutiveErrors ELSE 0
  /\ UNCHANGED <<db, ThreadAndMain, finishedCount, faults>>

slotNewBatch_Fails ==
  proc = "newBatch" /\ ~onlyBasicIndexing /\ TransactionFails("newBatch")

\* App::index(info), as far as it does not crash.
index(info) ==
  IF info.m_path = NoPath \/ at[info.m_path] = NoFile THEN "DoesNotExist"
  ELSE IF info.m_path \in Excluded THEN "RemoveIndex"
  ELSE IF at[info.m_path] \in Unsuitable THEN "SkipIndex"
  ELSE IF at[info.m_path] # info.m_id THEN "RemoveIndex"
  ELSE "Succeeded"

Pending == {i \in DOMAIN m_batch : m_batch[i].m_state = "Pending"}

\* processNextFile() indexes a file; it returns to the event loop, or goes on to
\* commit when the batch has taken two seconds.
IndexNextFile ==
  /\ proc = "nextFile" /\ Pending # {}
  /\ LET i == Min(Pending)
         state == index(m_batch[i])
     IN  /\ ~(state = "Succeeded" /\ m_batch[i].m_id \in Crashing)
         /\ m_batch' = [m_batch EXCEPT ![i].m_state = state]
         /\ finishedCount' = finishedCount + (IF m_batch[i].m_path = NoPath THEN 0 ELSE 1)
  /\ proc' \in {"nextFile", "commit"}
  /\ UNCHANGED <<db, ThreadAndMain, m_consecutiveErrors, faults>>

\* An extractor plugin crashes on the file.
ExtractorCrashes ==
  /\ proc = "nextFile" /\ Pending # {}
  /\ LET info == m_batch[Min(Pending)]
     IN  index(info) = "Succeeded" /\ info.m_id \in Crashing
  /\ proc' = "dead"
  /\ UNCHANGED <<db, ThreadAndMain, m_batch, m_consecutiveErrors, finishedCount, faults>>

\* processNextFile() finds nothing left to index.
BatchProcessed ==
  /\ proc = "nextFile" /\ Pending = {}
  /\ proc' = "commit"
  /\ UNCHANGED <<db, ThreadAndMain, m_batch, m_consecutiveErrors, finishedCount, faults>>

InState(states) == {m_batch[i].m_id : i \in {j \in DOMAIN m_batch : m_batch[j].m_state \in states}}

\* Results that still belong to the document they were extracted for.
Applicable ==
  {m_batch[i].m_id : i \in
     {j \in DOMAIN m_batch : /\ m_batch[j].m_state = "Succeeded"
                             /\ m_batch[j].m_id \in phaseOne
                             /\ m_batch[j].m_id \in Documents
                             /\ url[m_batch[j].m_id] = m_batch[j].m_path}}

\* Mutant: the whole batch is unmarked with the first commit.
Commit_UnmarksAll ==
  /\ proc = "commit"
  /\ Store(InState({"DoesNotExist", "RemoveIndex"}), InState(IndexStates), Applicable)
  /\ m_consecutiveErrors' = 0
  /\ m_batch' = <<>> /\ proc' = "finished"
  /\ UNCHANGED <<ThreadAndMain, finishedCount, faults>>

\* The second half of processNextFile(): one transaction for all results so far.
Commit ==
  /\ proc = "commit"
  /\ Store(InState({"DoesNotExist", "RemoveIndex"}), InState({"SkipIndex"}), Applicable)
  /\ m_consecutiveErrors' = 0
  /\ IF Pending # {}
     THEN /\ m_batch' = [i \in DOMAIN m_batch |->
                           IF i \in Pending THEN m_batch[i]
                           ELSE [m_batch[i] EXCEPT !.m_state = "Committed"]]
          /\ proc' = "nextFile"
     ELSE m_batch' = <<>> /\ proc' = "finished"
  /\ UNCHANGED <<ThreadAndMain, finishedCount, faults>>

Commit_Fails == proc = "commit" /\ TransactionFails("nextFile")

\* The extractor is killed, or exits because the database cannot be opened or a
\* commit fails. One that has reported its batch is noticed with the next one.
Killed ==
  /\ faults < MaxFaults
  /\ proc \in {"waiting", "newBatch", "nextFile", "commit"}
  /\ proc' = "dead"
  /\ faults' = faults + 1
  /\ UNCHANGED <<db, ThreadAndMain, m_batch, m_consecutiveErrors, finishedCount>>

-----------------------------------------------------------------------------
\* The file system and, on the main thread, FileWatch and MetadataMover.

RunState == <<thread, hadErrors, m_stop, finishedCount, extractor, onlyBasicIndexing, faults, quits>>

Notify(type, from, to) ==
  /\ fsChanges < MaxFsChanges
  /\ fsChanges' = fsChanges + 1
  /\ events' = Append(events, [type |-> type, from |-> from, to |-> to])
  /\ UNCHANGED <<db, scheduled, RunState>>

\* rename(2); a file at the new path is overwritten.
Rename(p, q) ==
  /\ p # q /\ at[p] # NoFile
  /\ at' = [at EXCEPT ![q] = at[p], ![p] = NoFile]
  /\ Notify("moved", p, q)

Unlink(p) ==
  /\ at[p] # NoFile
  /\ at' = [at EXCEPT ![p] = NoFile]
  /\ Notify("deleted", p, p)

\* A new file; the inode of a deleted file may be used again.
Create(p, id) ==
  /\ at[p] = NoFile /\ \A q \in AllPaths : at[q] # id
  /\ at' = [at EXCEPT ![p] = id]
  /\ Notify("created", p, p)

\* MetadataMover::removeFileMetadata, by way of the pending file queue.
removeFileMetadata(p) ==
  /\ Store(DocumentAt(p), {}, {})
  /\ scheduled' = scheduled \ {p}

\* Mutant: the document of an overwritten file is kept.
moveFileMetadata_KeepsOverwritten(p, q) ==
  LET moved == DocumentAt(p)
  IN  /\ url' = [id \in Ids |-> IF id \in moved THEN q ELSE url[id]]
      /\ scheduled' = IF moved = {} THEN scheduled \cup {q} ELSE scheduled \ {q}
      /\ UNCHANGED <<phaseOne, failed, indexed>>

\* MetadataMover::moveFileMetadata: remove what was overwritten, then give the
\* document its new path, or have the file indexed if it has no document.
moveFileMetadata(p, q) ==
  LET overwritten == DocumentAt(q)
      moved == DocumentAt(p)
  IN  /\ url' = [id \in Ids |-> IF id \in overwritten THEN NoPath
                                ELSE IF id \in moved THEN q ELSE url[id]]
      /\ phaseOne' = phaseOne \ overwritten
      /\ failed' = failed \ overwritten
      /\ indexed' = indexed \ overwritten
      /\ scheduled' = IF moved = {} THEN scheduled \cup {q} ELSE scheduled \ {q}

\* FileWatch handles the oldest notification.
HandleEvent ==
  /\ events # <<>>
  /\ events' = Tail(events)
  /\ LET e == Head(events)
     IN  \/ /\ e.type = "moved" /\ e.to \in Paths
            /\ moveFileMetadata(e.from, e.to)
         \/ /\ e.type = "deleted" \/ (e.type = "moved" /\ e.to \in Excluded)
            /\ removeFileMetadata(e.from)
         \/ /\ e.type = "created"
            /\ scheduled' = scheduled \cup {e.to}
            /\ UNCHANGED db
  /\ UNCHANGED <<at, fsChanges, RunState>>

-----------------------------------------------------------------------------
Thread == Start \/ RunBegin \/ Leave \/ SendBatch \/ BatchFinished \/ BatchFailed

Extractor == \/ slotNewBatch \/ IndexNextFile \/ ExtractorCrashes \/ BatchProcessed \/ Commit

Faults == slotNewBatch_Fails \/ Commit_Fails \/ Killed

FileSystem ==
  \/ \E p, q \in AllPaths : Rename(p, q)
  \/ \E p \in AllPaths : Unlink(p)
  \/ \E p \in AllPaths, id \in Ids : Create(p, id)

Next == Thread \/ Extractor \/ Faults \/ FileSystem \/ HandleEvent \/ quit

Spec == Init /\ [][Next]_vars

\* The thread, the extractor and the main loop run; faults, changes and calls of
\* quit() need not happen.
FairSpec == Spec /\ WF_vars(Thread) /\ WF_vars(Extractor) /\ WF_vars(HandleEvent)

-----------------------------------------------------------------------------
\* Correctness properties.

\* No two documents claim the same path, although a rename may overwrite a file
\* without any notification of its own (comment in moveFileMetadata).
EachUrlOneDocument ==
  \A id, other \in Documents : url[id] = url[other] => id = other

\* Whatever is removed while a batch is under way is removed from the content
\* indexing database too: the next fetch() meets documents only.
MarkedHaveDocuments == phaseOne \cup indexed \subseteq Documents

\* Dividing batches finds the culprit: with no failure other than a plugin's crash,
\* only files whose extraction crashes are ever recorded as failed.
FailedOnlyIfCrashing == failed \subseteq Crashing

\* A document loses its mark only by being indexed, skipped or found to crash its
\* extractor, in whichever order commits, crashes and restarts come. (Holds while
\* the file system is at rest; see NoFileForgotten.)
ContentNotForgotten ==
  Documents \subseteq phaseOne \cup indexed \cup failed \cup Unsuitable \/ onlyBasicIndexing

\* totalCount - finishedCount, given to the time estimator as a uint, does not wrap,
\* although a divided batch is processed again. (Holds while the file system is at
\* rest: a file renamed under way is counted once per attempt.)
RemainingNeverWraps == pc # "idle" => finishedCount <= totalCount

\* Every marked document is dealt with unless the indexer is told to stop: crashes
\* cost only the file that causes them.
Drained == phaseOne # {} ~> phaseOne = {} \/ m_stop

\* Once run() is in its loop, quit() ends it.
QuitEndsRun == m_stop /\ pc \in {"fetch", "wait"} ~> pc = "idle"

\* A file is never forgotten: it has its document, or it waits to be indexed as a
\* new file, or the main thread has yet to hear of it.
NoFileForgotten ==
  \A p \in Paths : at[p] # NoFile =>
    \/ url[at[p]] = p
    \/ p \in scheduled
    \/ \E i \in DOMAIN events : events[i].type \in {"moved", "created"} /\ events[i].to = p
=============================================================================
