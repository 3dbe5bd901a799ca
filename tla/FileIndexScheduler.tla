------------------------- MODULE FileIndexScheduler -------------------------
(***************************************************************************)
(* The scheduler of baloo_file (src/file/fileindexscheduler.{h,cpp}): the  *)
(* slots that run on the main thread, the runnables it hands to a thread   *)
(* pool of one thread, and the two kinds of posted events that connect     *)
(* them, zero timers for scheduleIndexing() and queued done() signals.     *)
(*                                                                         *)
(* A file list is a set: insertion is guarded by contains() and the whole  *)
(* list is handed over at once, so order and multiplicity never matter.    *)
(***************************************************************************)
EXTENDS Naturals, Sequences

CONSTANTS
  Files,        \* paths the watcher can report
  Folders,      \* the sets of Files that lie below some folder
  MaxTimers,    \* bound: pending zero timers
  MaxPhaseOne   \* bound: documents waiting for content indexing

ASSUME FoldersAssumption == Folders \subseteq SUBSET Files
ASSUME BoundsAssumption  == MaxTimers \in Nat \ {0} /\ MaxPhaseOne \in Nat

VARIABLES
  m_indexerState,
  m_newFiles, m_modifiedFiles, m_xattrFiles,
  m_checkUnindexedFiles, m_checkStaleIndexEntries,
  m_isGoingIdle, m_isSuspended, m_isFirstRun, m_inStartup,
  m_isOnBattery,  \* PowerStateMonitor::m_isOnBattery
  timers,         \* pending QTimer::singleShot(0, ..., scheduleIndexing)
  pool,           \* runnables of m_threadPool that have not finished, oldest first
  doneEvents,     \* done() signals posted to the main thread, not yet delivered
  m_stop,         \* FileContentIndexer::m_stop
  phaseOne,       \* m_provider.size(): documents marked for content indexing
  quitRequested   \* history: the content indexer in the pool has been told to quit

lists    == <<m_newFiles, m_modifiedFiles, m_xattrFiles>>
checks   == <<m_checkUnindexedFiles, m_checkStaleIndexEntries>>
external == <<m_isSuspended, m_inStartup, m_isOnBattery>>
content  == <<m_stop, phaseOne, quitRequested>>

vars == <<m_indexerState, lists, checks, m_isGoingIdle, m_isFirstRun,
          external, timers, pool, doneEvents, content>>

RestingStates == {"Idle", "Suspended", "LowPowerIdle", "Startup"}
SimpleRunners == {"FirstRun", "NewFiles", "ModifiedFiles", "XAttrFiles",
                  "UnindexedFileCheck", "StaleIndexEntriesClean"}
Runners       == SimpleRunners \cup {"ContentIndexing"}

\* Where a runnable is in its run(): not yet picked up by the pool's thread, in
\* the loop of FileContentIndexer::run, or waiting there for the extractor.
Phases   == {"queued", "loop", "batch"}
Runnable == [kind : Runners, phase : Phases]

TypeOK ==
  /\ m_indexerState \in RestingStates \cup Runners
  /\ m_newFiles \subseteq Files /\ m_modifiedFiles \subseteq Files
  /\ m_xattrFiles \subseteq Files
  /\ m_checkUnindexedFiles \in BOOLEAN /\ m_checkStaleIndexEntries \in BOOLEAN
  /\ m_isGoingIdle \in BOOLEAN /\ m_isFirstRun \in BOOLEAN
  /\ m_isSuspended \in BOOLEAN /\ m_inStartup \in BOOLEAN
  /\ m_isOnBattery \in BOOLEAN
  /\ timers \in 0..MaxTimers
  /\ pool \in Seq(Runnable)
  /\ doneEvents \in Nat
  /\ m_stop \in BOOLEAN /\ quitRequested \in BOOLEAN
  /\ phaseOne \in 0..MaxPhaseOne

\* The power monitor assumes battery until its D-Bus call is answered; a previous
\* session may have left documents waiting for content indexing.
Init ==
  /\ m_indexerState = "Startup"
  /\ m_newFiles = {} /\ m_modifiedFiles = {} /\ m_xattrFiles = {}
  /\ m_checkUnindexedFiles = TRUE /\ m_checkStaleIndexEntries = TRUE
  /\ m_isGoingIdle = FALSE /\ m_isSuspended = FALSE
  /\ m_isFirstRun \in BOOLEAN
  /\ m_inStartup = TRUE
  /\ m_isOnBattery = TRUE
  /\ timers = 0 /\ pool = <<>> /\ doneEvents = 0
  /\ m_stop = FALSE /\ quitRequested = FALSE
  /\ phaseOne \in 0..MaxPhaseOne

-----------------------------------------------------------------------------
\* Mutant: the content indexer counts as idle because it can be interrupted.
isIndexerIdle_ContentCounts ==
  m_isGoingIdle \/ m_indexerState \in RestingStates \cup {"ContentIndexing"}

isIndexerIdle == m_isGoingIdle \/ m_indexerState \in RestingStates

\* QTimer::singleShot(0, this, &FileIndexScheduler::scheduleIndexing). Bound: more
\* than MaxTimers are MaxTimers.
PostSchedule == timers' = IF timers < MaxTimers THEN timers + 1 ELSE timers

\* m_contentIndexer->quit(), if stop holds. The indexer may have left the pool
\* already while its done() is still on the way.
QuitIf(stop) ==
  /\ m_stop' = (stop \/ m_stop)
  /\ quitRequested' = (quitRequested \/ (stop /\ pool # <<>>))

\* Mutant: listed files go before the first run.
NextState_FilesFirst(new, modified, xattr, stale, unindexed, suspended, inStartup, onBattery) ==
  IF suspended THEN "Suspended"
  ELSE IF new # {} THEN "NewFiles"
  ELSE IF m_isFirstRun THEN IF inStartup THEN "Stay" ELSE "FirstRun"
  ELSE "Startup"

\* The state scheduleIndexing() settles on, given the lists and flags the slot
\* that calls it has just written. "Stay" is its early return on a first run.
NextState(new, modified, xattr, stale, unindexed, suspended, inStartup, onBattery) ==
  IF suspended THEN "Suspended"
  ELSE IF m_isFirstRun THEN IF inStartup THEN "Stay" ELSE "FirstRun"
  ELSE IF new # {} THEN "NewFiles"
  ELSE IF modified # {} THEN "ModifiedFiles"
  ELSE IF xattr # {} THEN "XAttrFiles"
  ELSE IF inStartup THEN "Startup"
  ELSE IF onBattery THEN "LowPowerIdle"
  ELSE IF stale THEN "StaleIndexEntriesClean"
  ELSE IF phaseOne > 0 THEN "ContentIndexing"
  ELSE IF unindexed THEN "UnindexedFileCheck"
  ELSE "Idle"

\* Mutant: m_isGoingIdle is not reset.
EnterState_KeepsGoingIdle(s, new, modified, xattr, stale, unindexed) ==
  /\ m_indexerState' = IF s = "Stay" THEN m_indexerState ELSE s
  /\ pool' = IF s \in Runners THEN Append(pool, [kind |-> s, phase |-> "queued"])
                              ELSE pool
  /\ m_newFiles' = new /\ m_modifiedFiles' = modified /\ m_xattrFiles' = xattr
  /\ m_checkStaleIndexEntries' = stale /\ m_checkUnindexedFiles' = unindexed
  /\ UNCHANGED <<m_isGoingIdle, m_isFirstRun>>

\* Mutant: the early return on a first run is forgotten.
EnterState_NoEarlyReturn(s, new, modified, xattr, stale, unindexed) ==
  /\ m_indexerState' = s
  /\ m_newFiles' = new /\ m_modifiedFiles' = modified /\ m_xattrFiles' = xattr
  /\ m_checkStaleIndexEntries' = stale /\ m_checkUnindexedFiles' = unindexed
  /\ m_isGoingIdle' = FALSE
  /\ UNCHANGED <<m_isFirstRun, pool>>

\* The body of scheduleIndexing() past its first return: enter state s and, when
\* s is a runner's, start it in the pool with what it takes over.
EnterState(s, new, modified, xattr, stale, unindexed) ==
  /\ m_isGoingIdle' = FALSE
  /\ m_indexerState' = IF s = "Stay" THEN m_indexerState ELSE s
  /\ pool' = IF s \in Runners THEN Append(pool, [kind |-> s, phase |-> "queued"])
                              ELSE pool
  /\ m_isFirstRun' = (m_isFirstRun /\ s # "FirstRun")
  /\ m_newFiles' = IF s = "NewFiles" THEN {} ELSE new
  /\ m_modifiedFiles' = IF s = "ModifiedFiles" THEN {} ELSE modified
  /\ m_xattrFiles' = IF s = "XAttrFiles" THEN {} ELSE xattr
  /\ m_checkStaleIndexEntries' = (stale /\ s \notin {"FirstRun", "StaleIndexEntriesClean"})
  /\ m_checkUnindexedFiles' = (unindexed /\ s \notin {"FirstRun", "UnindexedFileCheck"})

\* scheduleIndexing(), called from a slot that has already decided the primed
\* values of suspended, inStartup and onBattery and passes on the rest.
scheduleIndexing(new, modified, xattr, stale, unindexed) ==
  \/ /\ ~isIndexerIdle
     /\ m_newFiles' = new /\ m_modifiedFiles' = modified /\ m_xattrFiles' = xattr
     /\ m_checkStaleIndexEntries' = stale /\ m_checkUnindexedFiles' = unindexed
     /\ UNCHANGED <<m_indexerState, m_isGoingIdle, m_isFirstRun, pool>>
  \/ /\ isIndexerIdle
     /\ EnterState(NextState(new, modified, xattr, stale, unindexed,
                             m_isSuspended', m_inStartup', m_isOnBattery'),
                   new, modified, xattr, stale, unindexed)

\* scheduleIndexing() with lists and flags as they are.
Reschedule == scheduleIndexing(m_newFiles, m_modifiedFiles, m_xattrFiles,
                               m_checkStaleIndexEntries, m_checkUnindexedFiles)

-----------------------------------------------------------------------------
\* Slots of the main thread.

\* A zero timer fires.
ScheduleTimer ==
  /\ timers > 0
  /\ timers' = timers - 1
  /\ UNCHANGED <<external, doneEvents, content>>
  /\ Reschedule

\* FileWatch::installedWatches is connected to scheduleIndexing directly.
InstalledWatches ==
  /\ UNCHANGED <<external, timers, doneEvents, content>>
  /\ Reschedule

\* Mutant: LowPowerIdle and Suspended are forgotten among the idle states.
WakeUp_IdleOnly ==
  /\ IF m_isGoingIdle \/ m_indexerState \in {"Idle", "Startup"} THEN PostSchedule
                                                              ELSE UNCHANGED timers
  /\ UNCHANGED <<m_indexerState, checks, m_isGoingIdle, m_isFirstRun, external,
                 pool, doneEvents, content>>

\* What indexNewFile and its two siblings do once the file has been appended.
WakeUp ==
  /\ IF isIndexerIdle THEN PostSchedule ELSE UNCHANGED timers
  /\ UNCHANGED <<m_indexerState, checks, m_isGoingIdle, m_isFirstRun, external,
                 pool, doneEvents, content>>

indexNewFile(f) ==
  /\ f \notin m_newFiles
  /\ m_newFiles' = m_newFiles \cup {f}
  /\ UNCHANGED <<m_modifiedFiles, m_xattrFiles>>
  /\ WakeUp

indexModifiedFile(f) ==
  /\ f \notin m_modifiedFiles
  /\ m_modifiedFiles' = m_modifiedFiles \cup {f}
  /\ UNCHANGED <<m_newFiles, m_xattrFiles>>
  /\ WakeUp

indexXAttrFile(f) ==
  /\ f \notin m_xattrFiles
  /\ m_xattrFiles' = m_xattrFiles \cup {f}
  /\ UNCHANGED <<m_newFiles, m_modifiedFiles>>
  /\ WakeUp

\* MetadataMover has removed the documents of a file, or of all files below a
\* folder, and some of them may have been waiting for content indexing.
handleFileRemoved(removed) ==
  /\ m_newFiles' = m_newFiles \ removed
  /\ m_modifiedFiles' = m_modifiedFiles \ removed
  /\ m_xattrFiles' = m_xattrFiles \ removed
  /\ phaseOne' \in 0..phaseOne
  /\ UNCHANGED <<m_indexerState, checks, m_isGoingIdle, m_isFirstRun, external,
                 timers, pool, doneEvents, m_stop, quitRequested>>

\* Mutant: runnerFinished() relies on somebody else to reschedule.
runnerFinished_NoTimer ==
  /\ doneEvents > 0
  /\ doneEvents' = doneEvents - 1
  /\ m_isGoingIdle' = TRUE
  /\ UNCHANGED <<m_indexerState, lists, checks, m_isFirstRun, external, timers, pool, content>>

\* A done() signal of a runnable is delivered.
runnerFinished ==
  /\ doneEvents > 0
  /\ doneEvents' = doneEvents - 1
  /\ m_isGoingIdle' = TRUE
  /\ PostSchedule
  /\ UNCHANGED <<m_indexerState, lists, checks, m_isFirstRun, external, pool, content>>

\* MainHub's single 5 s timer.
startupFinished ==
  /\ m_inStartup
  /\ m_inStartup' = FALSE
  /\ PostSchedule
  /\ UNCHANGED <<m_indexerState, lists, checks, m_isGoingIdle, m_isFirstRun,
                 m_isSuspended, m_isOnBattery, pool, doneEvents, content>>

\* The new configuration keeps the files of keep indexable.
updateConfig(keep) ==
  /\ QuitIf(m_indexerState = "ContentIndexing")
  /\ UNCHANGED <<external, timers, doneEvents, phaseOne>>
  /\ scheduleIndexing(m_newFiles \cap keep, m_modifiedFiles \cap keep,
                      m_xattrFiles \cap keep, TRUE, TRUE)

\* Mutant: the change to mains power is not acted upon.
powerManagementStatusChanged_NoReschedule ==
  /\ m_isOnBattery' = ~m_isOnBattery
  /\ QuitIf(m_isOnBattery' /\ m_indexerState = "ContentIndexing")
  /\ UNCHANGED <<m_isSuspended, m_inStartup, timers, doneEvents, phaseOne, m_indexerState,
                 lists, checks, m_isGoingIdle, m_isFirstRun, pool>>

\* The power monitor forwards changes of its status only.
powerManagementStatusChanged ==
  /\ m_isOnBattery' = ~m_isOnBattery
  /\ UNCHANGED <<m_isSuspended, m_inStartup, timers, doneEvents, phaseOne>>
  /\ IF m_isOnBattery' /\ m_indexerState = "ContentIndexing"
     THEN /\ QuitIf(TRUE)
          /\ UNCHANGED <<m_indexerState, lists, checks, m_isGoingIdle, m_isFirstRun, pool>>
     ELSE QuitIf(FALSE) /\ Reschedule

\* Mutant: suspend() stops the content indexer and does nothing otherwise.
setSuspend_NoReschedule(suspend) ==
  /\ m_isSuspended' = suspend
  /\ UNCHANGED <<m_inStartup, m_isOnBattery, timers, doneEvents, phaseOne>>
  /\ QuitIf(suspend /\ m_indexerState = "ContentIndexing")
  /\ IF suspend
     THEN UNCHANGED <<m_indexerState, lists, checks, m_isGoingIdle, m_isFirstRun, pool>>
     ELSE Reschedule

setSuspend(suspend) ==
  /\ m_isSuspended' = suspend
  /\ UNCHANGED <<m_inStartup, m_isOnBattery, timers, doneEvents, phaseOne>>
  /\ IF suspend /\ m_indexerState = "ContentIndexing"
     THEN /\ QuitIf(TRUE)
          /\ UNCHANGED <<m_indexerState, lists, checks, m_isGoingIdle, m_isFirstRun, pool>>
     ELSE QuitIf(FALSE) /\ Reschedule

checkUnindexedFiles ==
  /\ UNCHANGED <<external, timers, doneEvents, content>>
  /\ scheduleIndexing(m_newFiles, m_modifiedFiles, m_xattrFiles,
                      m_checkStaleIndexEntries, TRUE)

checkStaleIndexEntries ==
  /\ UNCHANGED <<external, timers, doneEvents, content>>
  /\ scheduleIndexing(m_newFiles, m_modifiedFiles, m_xattrFiles,
                      TRUE, m_checkUnindexedFiles)

-----------------------------------------------------------------------------
\* The thread of the pool: it works on the oldest runnable.

Scheduler == <<m_indexerState, lists, checks, m_isGoingIdle, m_isFirstRun, external, timers>>

\* The oldest runnable returns; its done() is posted to the main thread.
Finish ==
  /\ pool' = Tail(pool)
  /\ doneEvents' = doneEvents + 1
  /\ quitRequested' = FALSE

\* run() of every runnable but the content indexer, which only its done() ends.
\* It may mark documents for content indexing, and unmark those it removes.
RunnerDone ==
  /\ pool # <<>> /\ Head(pool).kind \in SimpleRunners
  /\ Finish
  /\ phaseOne' \in 0..MaxPhaseOne
  /\ UNCHANGED <<Scheduler, m_stop>>

ContentIndexerIn(phase) ==
  pool # <<>> /\ Head(pool) = [kind |-> "ContentIndexing", phase |-> phase]

\* FileContentIndexer::run() up to its loop: m_stop is cleared here, not when the
\* scheduler hands the indexer to the pool.
ContentRunBegin ==
  /\ ContentIndexerIn("queued")
  /\ m_stop' = FALSE
  /\ pool' = [pool EXCEPT ![1].phase = "loop"]
  /\ UNCHANGED <<Scheduler, doneEvents, phaseOne, quitRequested>>

\* The head of the loop: leave it when nothing is left to fetch or m_stop is set,
ContentLeave ==
  /\ ContentIndexerIn("loop")
  /\ phaseOne = 0 \/ m_stop
  /\ Finish
  /\ UNCHANGED <<Scheduler, m_stop, phaseOne>>

\* and hand the fetched batch to the extractor otherwise.
ContentFetch ==
  /\ ContentIndexerIn("loop")
  /\ phaseOne > 0 /\ ~m_stop
  /\ pool' = [pool EXCEPT ![1].phase = "batch"]
  /\ UNCHANGED <<Scheduler, doneEvents, content>>

\* The extractor has finished a batch (module ContentIndexer has the details;
\* repeated attempts at a batch that crashes it are part of this step).
ContentBatchDone ==
  /\ ContentIndexerIn("batch")
  /\ phaseOne' \in 0..(IF phaseOne = 0 THEN 0 ELSE phaseOne - 1)
  /\ pool' = [pool EXCEPT ![1].phase = "loop"]
  /\ UNCHANGED <<Scheduler, doneEvents, m_stop, quitRequested>>

-----------------------------------------------------------------------------
Removals == { {f} : f \in Files } \cup Folders

Main ==
  \/ ScheduleTimer
  \/ InstalledWatches
  \/ \E f \in Files : indexNewFile(f)
  \/ \E f \in Files : indexModifiedFile(f)
  \/ \E f \in Files : indexXAttrFile(f)
  \/ \E removed \in Removals : handleFileRemoved(removed)
  \/ runnerFinished
  \/ startupFinished
  \/ \E keep \in SUBSET Files : updateConfig(keep)
  \/ powerManagementStatusChanged
  \/ \E suspend \in BOOLEAN : setSuspend(suspend)
  \/ checkUnindexedFiles
  \/ checkStaleIndexEntries

Worker ==
  RunnerDone \/ ContentRunBegin \/ ContentLeave \/ ContentFetch \/ ContentBatchDone

Next == Main \/ Worker

Spec == Init /\ [][Next]_vars

\* Posted events are delivered, the startup timer fires, the pool's thread runs.
FairSpec ==
  Spec /\ WF_vars(ScheduleTimer) /\ WF_vars(runnerFinished)
       /\ WF_vars(startupFinished) /\ WF_vars(Worker)

-----------------------------------------------------------------------------
\* Correctness properties.

\* isIndexerIdle() is the only thing that keeps two runnables apart: it holds
\* exactly when every runnable ever started has reported done(). Two runnables at
\* once would be two writers of the index with stale copies of each other's input;
\* none while not idle would leave the scheduler waiting for a done() for ever.
OneRunnerWhenBusy ==
  /\ isIndexerIdle => pool = <<>> /\ doneEvents = 0
  /\ ~isIndexerIdle => Len(pool) + doneEvents = 1

\* The state shown on D-Bus is the runnable's that is in the pool.
StateNamesRunner ==
  \A i \in 1..Len(pool) : pool[i].kind = m_indexerState

\* Whenever the scheduler rests and no timer is on its way, scheduleIndexing()
\* would not find anything else to do: no file that was appended, flag that was
\* raised or change of power or suspension has been missed. ("Stay" is the first
\* run waiting for the end of the startup delay.)
NoLostWakeup ==
  isIndexerIdle /\ timers = 0 =>
    NextState(m_newFiles, m_modifiedFiles, m_xattrFiles, m_checkStaleIndexEntries,
              m_checkUnindexedFiles, m_isSuspended, m_inStartup, m_isOnBattery)
      \in {m_indexerState, "Stay"}

\* On a first run nothing is indexed before the FirstRunIndexer has been started:
\* no earlier runnable, and no housekeeping flag dropped without it.
FirstRunComesFirst ==
  m_isFirstRun => /\ m_indexerState \in {"Startup", "Suspended"}
                  /\ m_checkStaleIndexEntries /\ m_checkUnindexedFiles

\* updateConfig(), setSuspend() and powerManagementStatusChanged() interrupt the
\* content indexer: after a quit() it fetches no further batch.
QuitStopsNextBatch ==
  [][quitRequested => ~ContentFetch]_vars

\* A listed file is taken over by a runnable, or removed, unless indexing gets
\* suspended or files of a more urgent list keep arriving.
FilesAreServed ==
  \A f \in Files :
    /\ f \in m_newFiles      ~> f \notin m_newFiles \/ m_isSuspended
    /\ f \in m_modifiedFiles ~> f \notin m_modifiedFiles \/ m_isSuspended \/ m_newFiles # {}
    /\ f \in m_xattrFiles    ~> f \notin m_xattrFiles \/ m_isSuspended
                                  \/ m_newFiles # {} \/ m_modifiedFiles # {}

\* A suspension that is not lifted takes effect: the running job comes to its end
\* and the scheduler reports Suspended.
SuspendTakesEffect ==
  m_isSuspended ~> m_indexerState = "Suspended" \/ ~m_isSuspended

\* What may only be done on mains power gets its turn too: documents waiting for
\* their content to be indexed and requested checks, in the order of priority.
Interrupted == \/ m_isSuspended \/ m_isOnBattery
               \/ m_newFiles # {} \/ m_modifiedFiles # {} \/ m_xattrFiles # {}

HousekeepingIsServed ==
  LET Cleaning == m_indexerState = "StaleIndexEntriesClean"
      Checking == m_indexerState = "UnindexedFileCheck"
  IN  /\ m_checkStaleIndexEntries ~> ~m_checkStaleIndexEntries \/ Cleaning \/ Interrupted
      /\ phaseOne > 0 ~> phaseOne = 0 \/ Cleaning \/ Interrupted
      /\ m_checkUnindexedFiles ~>
           ~m_checkUnindexedFiles \/ Checking \/ Cleaning \/ Interrupted
=============================================================================
