---------------------- MODULE FileIndexSchedulerProofs ----------------------
(***************************************************************************)
(* Proofs about FileIndexScheduler for every set of files and every bound: *)
(* its type invariant, and that isIndexerIdle() keeps runnables apart.     *)
(***************************************************************************)
EXTENDS FileIndexScheduler, TLAPS

\* What scheduleIndexing() decides is a state, or the early return.
LEMMA NextStateType ==
  ASSUME NEW new, NEW modified, NEW xattr, NEW stale, NEW unindexed,
         NEW suspended, NEW inStartup, NEW onBattery
  PROVE  NextState(new, modified, xattr, stale, unindexed, suspended, inStartup, onBattery)
           \in RestingStates \cup Runners \cup {"Stay"}
  BY DEF NextState, RestingStates, Runners, SimpleRunners

\* A call of scheduleIndexing() keeps the types of what it writes.
LEMMA ScheduleType ==
  ASSUME TypeOK,
         NEW new \in SUBSET Files, NEW modified \in SUBSET Files, NEW xattr \in SUBSET Files,
         NEW stale \in BOOLEAN, NEW unindexed \in BOOLEAN,
         scheduleIndexing(new, modified, xattr, stale, unindexed)
  PROVE  /\ m_indexerState' \in RestingStates \cup Runners
         /\ m_newFiles' \subseteq Files /\ m_modifiedFiles' \subseteq Files
         /\ m_xattrFiles' \subseteq Files
         /\ m_checkUnindexedFiles' \in BOOLEAN /\ m_checkStaleIndexEntries' \in BOOLEAN
         /\ m_isGoingIdle' \in BOOLEAN /\ m_isFirstRun' \in BOOLEAN
         /\ pool' \in Seq(Runnable)
<1>1. CASE ~isIndexerIdle
  BY <1>1 DEF scheduleIndexing, TypeOK
<1>2. CASE isIndexerIdle
  <2> DEFINE s == NextState(new, modified, xattr, stale, unindexed,
                            m_isSuspended', m_inStartup', m_isOnBattery')
  <2>1. EnterState(s, new, modified, xattr, stale, unindexed)
    BY <1>2 DEF scheduleIndexing
  <2>2. s \in RestingStates \cup Runners \cup {"Stay"}
    BY NextStateType
  <2> HIDE DEF s
  <2>3. pool' \in Seq(Runnable)
    <3>1. CASE s \in Runners
      <4>1. [kind |-> s, phase |-> "queued"] \in Runnable
        BY <3>1 DEF Runnable, Phases
      <4> QED BY <4>1, <3>1, <2>1 DEF EnterState, TypeOK
    <3>2. CASE s \notin Runners
      BY <3>2, <2>1 DEF EnterState, TypeOK
    <3> QED BY <3>1, <3>2
  <2> QED BY <2>1, <2>2, <2>3 DEF EnterState, TypeOK
<1> QED BY <1>1, <1>2

-----------------------------------------------------------------------------
\* Type correctness: every slot and every step of the pool's thread keeps the
\* fields of the scheduler within their types and the bounded counters in bounds.

LEMMA TypeOKInit == Init => TypeOK
<1> SUFFICES ASSUME Init PROVE TypeOK
  OBVIOUS
<1>1. pool \in Seq(Runnable) /\ doneEvents \in Nat /\ timers \in 0..MaxTimers
  BY BoundsAssumption DEF Init
<1>2. m_indexerState \in RestingStates \cup Runners
  BY DEF Init, RestingStates
<1> QED BY <1>1, <1>2 DEF Init, TypeOK

LEMMA TypeOKMain == TypeOK /\ Main => TypeOK'
<1> SUFFICES ASSUME TypeOK, Main PROVE TypeOK'
  OBVIOUS
<1> USE BoundsAssumption
<1>1. CASE ScheduleTimer
  <2>1. timers' \in 0..MaxTimers
    BY <1>1 DEF ScheduleTimer, TypeOK
  <2> QED BY <1>1, <2>1, ScheduleType DEF ScheduleTimer, Reschedule, TypeOK, external, content
<1>2. CASE InstalledWatches
  BY <1>2, ScheduleType DEF InstalledWatches, Reschedule, TypeOK, external, content
<1>3. CASE \E f \in Files : indexNewFile(f)
  BY <1>3 DEF indexNewFile, WakeUp, PostSchedule, TypeOK, external, content, checks
<1>4. CASE \E f \in Files : indexModifiedFile(f)
  BY <1>4 DEF indexModifiedFile, WakeUp, PostSchedule, TypeOK, external, content, checks
<1>5. CASE \E f \in Files : indexXAttrFile(f)
  BY <1>5 DEF indexXAttrFile, WakeUp, PostSchedule, TypeOK, external, content, checks
<1>6. CASE \E removed \in Removals : handleFileRemoved(removed)
  BY <1>6 DEF handleFileRemoved, TypeOK, external, content, checks
<1>7. CASE runnerFinished
  <2>1. timers' \in 0..MaxTimers /\ doneEvents' \in Nat
    BY <1>7 DEF runnerFinished, PostSchedule, TypeOK
  <2> QED BY <1>7, <2>1 DEF runnerFinished, TypeOK, external, content, checks, lists
<1>8. CASE startupFinished
  <2>1. timers' \in 0..MaxTimers
    BY <1>8 DEF startupFinished, PostSchedule, TypeOK
  <2> QED BY <1>8, <2>1 DEF startupFinished, TypeOK, content, checks, lists
<1>9. CASE \E keep \in SUBSET Files : updateConfig(keep)
  <2> PICK keep \in SUBSET Files : updateConfig(keep)
    BY <1>9
  <2>1. /\ m_newFiles \cap keep \in SUBSET Files
        /\ m_modifiedFiles \cap keep \in SUBSET Files
        /\ m_xattrFiles \cap keep \in SUBSET Files
    BY DEF TypeOK
  <2> QED BY <2>1, ScheduleType DEF updateConfig, QuitIf, TypeOK, external
<1>10. CASE powerManagementStatusChanged
  <2>1. CASE m_isOnBattery' /\ m_indexerState = "ContentIndexing"
    BY <1>10, <2>1 DEF powerManagementStatusChanged, QuitIf, TypeOK, lists, checks
  <2>2. CASE ~(m_isOnBattery' /\ m_indexerState = "ContentIndexing")
    <3>1. Reschedule
      BY <1>10, <2>2 DEF powerManagementStatusChanged
    <3> QED BY <1>10, <2>2, <3>1, ScheduleType
            DEF powerManagementStatusChanged, QuitIf, Reschedule, TypeOK
  <2> QED BY <2>1, <2>2
<1>11. CASE \E suspend \in BOOLEAN : setSuspend(suspend)
  <2> PICK suspend \in BOOLEAN : setSuspend(suspend)
    BY <1>11
  <2>1. CASE suspend /\ m_indexerState = "ContentIndexing"
    BY <2>1 DEF setSuspend, QuitIf, TypeOK, lists, checks
  <2>2. CASE ~(suspend /\ m_indexerState = "ContentIndexing")
    <3>1. Reschedule
      BY <2>2 DEF setSuspend
    <3> QED BY <2>2, <3>1, ScheduleType DEF setSuspend, QuitIf, Reschedule, TypeOK
  <2> QED BY <2>1, <2>2
<1>12. CASE checkUnindexedFiles
  BY <1>12, ScheduleType DEF checkUnindexedFiles, TypeOK, external, content
<1>13. CASE checkStaleIndexEntries
  BY <1>13, ScheduleType DEF checkStaleIndexEntries, TypeOK, external, content
<1> QED BY <1>1, <1>2, <1>3, <1>4, <1>5, <1>6, <1>7, <1>8, <1>9, <1>10, <1>11,
           <1>12, <1>13 DEF Main

\* Advancing the oldest runnable to another phase leaves a queue of runnables.
LEMMA PoolPhase ==
  ASSUME TypeOK, pool # <<>>, NEW phase \in Phases
  PROVE  /\ [pool EXCEPT ![1].phase = phase] \in Seq(Runnable)
         /\ Len([pool EXCEPT ![1].phase = phase]) = Len(pool)
<1> DEFINE r == [pool[1] EXCEPT !.phase = phase]
<1>1. pool \in Seq(Runnable) /\ Len(pool) \in Nat /\ 1 \in 1..Len(pool)
  BY DEF TypeOK
<1>2. pool[1] \in Runnable
  BY <1>1
<1>3. r \in Runnable
  BY <1>2 DEF Runnable
<1> HIDE DEF r
<1>4. [pool EXCEPT ![1] = r] \in Seq(Runnable) /\ Len([pool EXCEPT ![1] = r]) = Len(pool)
  BY <1>1, <1>3
<1> QED BY <1>4 DEF r

LEMMA TypeOKWorker == TypeOK /\ Worker => TypeOK'
<1> SUFFICES ASSUME TypeOK, Worker PROVE TypeOK'
  OBVIOUS
<1> USE BoundsAssumption
<1>1. CASE RunnerDone
  <2>1. pool' \in Seq(Runnable) /\ doneEvents' \in Nat
    BY <1>1 DEF RunnerDone, Finish, TypeOK
  <2> QED BY <1>1, <2>1 DEF RunnerDone, Finish, Scheduler, TypeOK, external, checks, lists
<1>2. CASE ContentRunBegin
  <2>1. pool' \in Seq(Runnable)
    BY <1>2, PoolPhase DEF ContentRunBegin, ContentIndexerIn, Phases
  <2> QED BY <1>2, <2>1 DEF ContentRunBegin, Scheduler, TypeOK, external, checks, lists
<1>3. CASE ContentLeave
  <2>1. pool' \in Seq(Runnable) /\ doneEvents' \in Nat
    BY <1>3 DEF ContentLeave, ContentIndexerIn, Finish, TypeOK
  <2> QED BY <1>3, <2>1 DEF ContentLeave, Finish, Scheduler, TypeOK, external, checks, lists
<1>5. CASE ContentFetch
  <2>1. pool' \in Seq(Runnable)
    BY <1>5, PoolPhase DEF ContentFetch, ContentIndexerIn, Phases
  <2> QED BY <1>5, <2>1 DEF ContentFetch, Scheduler, TypeOK, external, checks, lists, content
<1>4. CASE ContentBatchDone
  <2>1. pool' \in Seq(Runnable)
    BY <1>4, PoolPhase DEF ContentBatchDone, ContentIndexerIn, Phases
  <2>2. phaseOne' \in 0..MaxPhaseOne
    BY <1>4 DEF ContentBatchDone, TypeOK
  <2> QED BY <1>4, <2>1, <2>2 DEF ContentBatchDone, Scheduler, TypeOK, external, checks, lists
<1> QED BY <1>1, <1>2, <1>3, <1>4, <1>5 DEF Worker

\* The scheduler, its pool and its counters are well typed in every reachable state.
THEOREM TypeCorrect == Spec => []TypeOK
<1>1. TypeOK /\ UNCHANGED vars => TypeOK'
  BY DEF TypeOK, vars, lists, checks, external, content
<1>2. TypeOK /\ [Next]_vars => TypeOK'
  BY <1>1, TypeOKMain, TypeOKWorker DEF Next
<1> QED BY TypeOKInit, <1>2, PTL DEF Spec

-----------------------------------------------------------------------------
\* The argument for the safety properties. OneRunnerWhenBusy alone is not
\* inductive: the early return on a first run clears m_isGoingIdle without entering
\* a state, which is harmless only because no runnable has been started before
\* (FirstRunComesFirst). NoLostWakeup needs that the gap between a done() signal and
\* the next scheduleIndexing() is covered by a timer (GoingIdleHasTimer).

GoingIdleHasTimer == m_isGoingIdle => timers > 0

IInv ==
  /\ TypeOK
  /\ OneRunnerWhenBusy
  /\ StateNamesRunner
  /\ FirstRunComesFirst
  /\ GoingIdleHasTimer
  /\ NoLostWakeup

LEMMA StatesDisjoint ==
  /\ \A s \in Runners : s \notin RestingStates /\ s # "Stay"
  /\ "Startup" \in RestingStates /\ "Suspended" \in RestingStates
  /\ "Stay" \notin RestingStates
  /\ "FirstRun" \in Runners
  BY DEF Runners, SimpleRunners, RestingStates

LEMMA IInvInit == Init => IInv
<1> SUFFICES ASSUME Init PROVE IInv
  OBVIOUS
<1>1. TypeOK
  BY TypeOKInit
<1>2. isIndexerIdle /\ pool = <<>> /\ Len(pool) = 0 /\ doneEvents = 0
  BY DEF Init, isIndexerIdle, RestingStates
<1>3. OneRunnerWhenBusy /\ StateNamesRunner
  BY <1>2 DEF OneRunnerWhenBusy, StateNamesRunner
<1>4. FirstRunComesFirst /\ GoingIdleHasTimer /\ NoLostWakeup
  BY DEF Init, FirstRunComesFirst, GoingIdleHasTimer, NoLostWakeup, NextState
<1> QED BY <1>1, <1>3, <1>4 DEF IInv

\* A call of scheduleIndexing() that finds the indexer busy leaves it busy.
LEMMA ScheduleBusy ==
  ASSUME IInv, ~isIndexerIdle, UNCHANGED doneEvents,
         NEW new, NEW modified, NEW xattr, NEW stale, NEW unindexed,
         m_isFirstRun => stale = TRUE /\ unindexed = TRUE,
         scheduleIndexing(new, modified, xattr, stale, unindexed)
  PROVE  /\ OneRunnerWhenBusy' /\ StateNamesRunner' /\ FirstRunComesFirst'
         /\ GoingIdleHasTimer' /\ NoLostWakeup'
<1>1. /\ m_checkStaleIndexEntries' = stale /\ m_checkUnindexedFiles' = unindexed
      /\ UNCHANGED <<m_indexerState, m_isGoingIdle, m_isFirstRun, pool>>
  BY DEF scheduleIndexing
<1>2. ~isIndexerIdle' /\ ~m_isGoingIdle'
  BY <1>1 DEF isIndexerIdle
<1>3. OneRunnerWhenBusy' /\ StateNamesRunner'
  BY <1>1, <1>2 DEF IInv, OneRunnerWhenBusy, StateNamesRunner
<1>4. FirstRunComesFirst'
  BY <1>1 DEF IInv, FirstRunComesFirst
<1>5. GoingIdleHasTimer' /\ NoLostWakeup'
  BY <1>2 DEF GoingIdleHasTimer, NoLostWakeup
<1> QED BY <1>3, <1>4, <1>5

\* One that finds it idle starts a single runnable, or comes to rest in a state
\* where calling it again would change nothing.
LEMMA ScheduleIdle ==
  ASSUME IInv, isIndexerIdle, UNCHANGED <<doneEvents, phaseOne>>,
         NEW new, NEW modified, NEW xattr, NEW stale \in BOOLEAN, NEW unindexed \in BOOLEAN,
         m_isFirstRun => stale = TRUE /\ unindexed = TRUE,
         scheduleIndexing(new, modified, xattr, stale, unindexed)
  PROVE  /\ OneRunnerWhenBusy' /\ StateNamesRunner' /\ FirstRunComesFirst'
         /\ GoingIdleHasTimer' /\ NoLostWakeup'
<1> DEFINE s == NextState(new, modified, xattr, stale, unindexed,
                          m_isSuspended', m_inStartup', m_isOnBattery')
<1>1. EnterState(s, new, modified, xattr, stale, unindexed)
  BY DEF scheduleIndexing
<1>2. pool = <<>> /\ doneEvents = 0 /\ doneEvents' = 0
  BY DEF IInv, OneRunnerWhenBusy
<1>3. ~m_isGoingIdle'
  BY <1>1 DEF EnterState
<1>4. m_isFirstRun => s \in {"Suspended", "Stay", "FirstRun"}
  BY DEF NextState
<1>5. s = "Stay" => m_isFirstRun
  BY DEF NextState
<1>6. FirstRunComesFirst'
  <2> SUFFICES ASSUME m_isFirstRun' PROVE FirstRunComesFirst'
    BY DEF FirstRunComesFirst
  <2>1. m_isFirstRun /\ s # "FirstRun"
    BY <1>1 DEF EnterState, IInv, TypeOK
  <2>2. s \in {"Suspended", "Stay"}
    BY <1>4, <2>1
  <2>3. m_indexerState' \in {"Startup", "Suspended"}
    BY <1>1, <2>1, <2>2 DEF EnterState, IInv, FirstRunComesFirst
  <2>4. m_checkStaleIndexEntries' /\ m_checkUnindexedFiles'
    BY <1>1, <2>1, <2>2 DEF EnterState
  <2> QED BY <2>3, <2>4 DEF FirstRunComesFirst
<1>7. CASE s \in Runners
  <2> HIDE DEF s
  <2>1. m_indexerState' = s /\ pool' = <<[kind |-> s, phase |-> "queued"]>>
    BY <1>1, <1>2, <1>7, StatesDisjoint DEF EnterState
  <2>2. ~isIndexerIdle'
    BY <1>3, <1>7, <2>1, StatesDisjoint DEF isIndexerIdle
  <2>3. Len(pool') = 1 /\ pool'[1].kind = s
    BY <2>1
  <2>4. OneRunnerWhenBusy'
    BY <1>2, <2>2, <2>3 DEF OneRunnerWhenBusy
  <2>5. StateNamesRunner'
    BY <2>1, <2>3 DEF StateNamesRunner
  <2> QED BY <1>3, <1>6, <2>2, <2>4, <2>5 DEF GoingIdleHasTimer, NoLostWakeup
<1>8. CASE s \notin Runners
  <2>1. s \in RestingStates \cup {"Stay"}
    BY <1>8, NextStateType
  <2>2. pool' = <<>> /\ Len(pool') = 0
    BY <1>1, <1>2, <1>8 DEF EnterState
  <2>3. m_indexerState' \in RestingStates
    BY <1>1, <1>5, <2>1, StatesDisjoint DEF EnterState, IInv, FirstRunComesFirst
  <2>4. OneRunnerWhenBusy' /\ StateNamesRunner'
    BY <1>2, <2>2, <2>3 DEF OneRunnerWhenBusy, StateNamesRunner, isIndexerIdle
  <2>5. NoLostWakeup'
    <3>1. /\ m_newFiles' = new /\ m_modifiedFiles' = modified /\ m_xattrFiles' = xattr
          /\ m_checkStaleIndexEntries' = stale /\ m_checkUnindexedFiles' = unindexed
          /\ m_isFirstRun' = m_isFirstRun
          /\ s = m_indexerState' \/ s = "Stay"
      <4> HIDE DEF s
      <4> QED BY <1>1, <1>8 DEF EnterState, Runners, SimpleRunners, IInv, TypeOK
    <3>2. phaseOne' = phaseOne
      OBVIOUS
    <3>3. NextState(m_newFiles, m_modifiedFiles, m_xattrFiles, m_checkStaleIndexEntries,
                    m_checkUnindexedFiles, m_isSuspended, m_inStartup, m_isOnBattery)' = s
      BY <3>1, <3>2 DEF NextState
    <3> QED BY <3>1, <3>3 DEF NoLostWakeup
  <2> QED BY <1>3, <1>6, <2>4, <2>5 DEF GoingIdleHasTimer
<1> QED BY <1>7, <1>8

\* Both together, for the slots that call scheduleIndexing().
LEMMA ScheduleKeeps ==
  ASSUME IInv, UNCHANGED <<doneEvents, phaseOne>>,
         NEW new, NEW modified, NEW xattr, NEW stale \in BOOLEAN, NEW unindexed \in BOOLEAN,
         m_isFirstRun => stale = TRUE /\ unindexed = TRUE,
         scheduleIndexing(new, modified, xattr, stale, unindexed)
  PROVE  /\ OneRunnerWhenBusy' /\ StateNamesRunner' /\ FirstRunComesFirst'
         /\ GoingIdleHasTimer' /\ NoLostWakeup'
<1>1. CASE isIndexerIdle
  BY <1>1, ScheduleIdle
<1>2. CASE ~isIndexerIdle
  BY <1>2, ScheduleBusy
<1> QED BY <1>1, <1>2

\* The flags a slot passes on while the first run is outstanding.
LEMMA FirstRunFlags ==
  ASSUME IInv
  PROVE  /\ m_checkStaleIndexEntries \in BOOLEAN /\ m_checkUnindexedFiles \in BOOLEAN
         /\ m_isFirstRun => m_checkStaleIndexEntries = TRUE /\ m_checkUnindexedFiles = TRUE
  BY DEF IInv, TypeOK, FirstRunComesFirst

LEMMA RescheduleKeeps ==
  ASSUME IInv, UNCHANGED <<doneEvents, phaseOne>>, Reschedule
  PROVE  /\ OneRunnerWhenBusy' /\ StateNamesRunner' /\ FirstRunComesFirst'
         /\ GoingIdleHasTimer' /\ NoLostWakeup'
  BY FirstRunFlags, ScheduleKeeps DEF Reschedule

\* A slot that appends to a list wakes an idle scheduler.
LEMMA WakeUpKeeps ==
  ASSUME IInv, WakeUp
  PROVE  /\ OneRunnerWhenBusy' /\ StateNamesRunner' /\ FirstRunComesFirst'
         /\ GoingIdleHasTimer' /\ NoLostWakeup'
<1>1. /\ UNCHANGED <<m_indexerState, m_isGoingIdle, m_isFirstRun, pool, doneEvents>>
      /\ UNCHANGED <<m_checkUnindexedFiles, m_checkStaleIndexEntries>>
  BY DEF WakeUp, checks
<1>2. isIndexerIdle' = isIndexerIdle
  BY <1>1 DEF isIndexerIdle
<1>3. OneRunnerWhenBusy' /\ StateNamesRunner' /\ FirstRunComesFirst'
  BY <1>1, <1>2 DEF IInv, OneRunnerWhenBusy, StateNamesRunner, FirstRunComesFirst
<1>4. CASE isIndexerIdle
  <2>1. timers' > 0
    BY <1>4, BoundsAssumption DEF WakeUp, PostSchedule, IInv, TypeOK
  <2> QED BY <1>3, <2>1 DEF GoingIdleHasTimer, NoLostWakeup
<1>5. CASE ~isIndexerIdle
  BY <1>1, <1>2, <1>3, <1>5 DEF GoingIdleHasTimer, NoLostWakeup, isIndexerIdle
<1> QED BY <1>4, <1>5

\* A slot that only removes work, or stops the content indexer, leaves a resting
\* scheduler with no more to do than before.
LEMMA RemovalKeeps ==
  ASSUME IInv, NEW removed \in Removals, handleFileRemoved(removed)
  PROVE  IInv'
<1>1. /\ UNCHANGED <<m_indexerState, m_isGoingIdle, m_isFirstRun, pool, doneEvents, timers>>
      /\ UNCHANGED <<m_checkUnindexedFiles, m_checkStaleIndexEntries>>
      /\ UNCHANGED <<m_isSuspended, m_inStartup, m_isOnBattery>>
  BY DEF handleFileRemoved, checks, external
<1>2. isIndexerIdle' = isIndexerIdle
  BY <1>1 DEF isIndexerIdle
<1>3. OneRunnerWhenBusy' /\ StateNamesRunner' /\ FirstRunComesFirst' /\ GoingIdleHasTimer'
  BY <1>1, <1>2 DEF IInv, OneRunnerWhenBusy, StateNamesRunner, FirstRunComesFirst,
                    GoingIdleHasTimer
<1>4. NoLostWakeup'
  <2> SUFFICES ASSUME isIndexerIdle, timers = 0 PROVE NoLostWakeup'
    BY <1>1, <1>2 DEF NoLostWakeup
  <2>1. m_indexerState \in RestingStates
    BY DEF IInv, GoingIdleHasTimer, isIndexerIdle
  <2>2. NextState(m_newFiles, m_modifiedFiles, m_xattrFiles, m_checkStaleIndexEntries,
                  m_checkUnindexedFiles, m_isSuspended, m_inStartup, m_isOnBattery)
          \in {m_indexerState, "Stay"}
    BY DEF IInv, NoLostWakeup
  <2>3. phaseOne \in Nat /\ phaseOne' \in 0..phaseOne
    BY BoundsAssumption DEF IInv, TypeOK, handleFileRemoved
  <2>4. phaseOne > 0 \/ phaseOne' = phaseOne
    BY <2>3
  <2>5. /\ m_newFiles = {} => m_newFiles' = {}
        /\ m_modifiedFiles = {} => m_modifiedFiles' = {}
        /\ m_xattrFiles = {} => m_xattrFiles' = {}
    BY DEF handleFileRemoved
  <2>6. NextState(m_newFiles, m_modifiedFiles, m_xattrFiles, m_checkStaleIndexEntries,
                  m_checkUnindexedFiles, m_isSuspended, m_inStartup, m_isOnBattery)'
          \in {m_indexerState, "Stay"}
    BY <1>1, <2>1, <2>2, <2>4, <2>5 DEF NextState, RestingStates
  <2> QED BY <1>1, <2>6 DEF NoLostWakeup
<1>5. Main
  BY DEF Main
<1> QED BY <1>3, <1>4, <1>5, TypeOKMain DEF IInv

\* The branches of powerManagementStatusChanged() and setSuspend() that only tell
\* the content indexer to quit: it is running, or its timer is on the way.
LEMMA QuitOnlyKeeps ==
  ASSUME IInv, m_indexerState = "ContentIndexing",
         UNCHANGED <<m_indexerState, lists, checks, m_isGoingIdle, m_isFirstRun, pool,
                     timers, doneEvents>>
  PROVE  /\ OneRunnerWhenBusy' /\ StateNamesRunner' /\ FirstRunComesFirst'
         /\ GoingIdleHasTimer' /\ NoLostWakeup'
<1>1. isIndexerIdle' = isIndexerIdle
  BY DEF isIndexerIdle
<1>2. OneRunnerWhenBusy' /\ StateNamesRunner' /\ FirstRunComesFirst' /\ GoingIdleHasTimer'
  BY <1>1 DEF IInv, OneRunnerWhenBusy, StateNamesRunner, FirstRunComesFirst,
              GoingIdleHasTimer, checks
<1>3. isIndexerIdle => timers' > 0
  BY DEF IInv, GoingIdleHasTimer, isIndexerIdle, RestingStates
<1>4. NoLostWakeup'
  BY <1>1, <1>3 DEF NoLostWakeup
<1> QED BY <1>2, <1>4

LEMMA IInvMain == IInv /\ Main => IInv'
<1> SUFFICES ASSUME IInv, Main PROVE IInv'
  OBVIOUS
<1>0. TypeOK'
  BY TypeOKMain DEF IInv
<1> DEFINE Rest == /\ OneRunnerWhenBusy /\ StateNamesRunner /\ FirstRunComesFirst
                   /\ GoingIdleHasTimer /\ NoLostWakeup
<1> SUFFICES Rest'
  BY <1>0 DEF IInv
<1>1. CASE ScheduleTimer
  BY <1>1, RescheduleKeeps DEF ScheduleTimer, content
<1>2. CASE InstalledWatches
  BY <1>2, RescheduleKeeps DEF InstalledWatches, content
<1>3. CASE \E f \in Files : indexNewFile(f)
  BY <1>3, WakeUpKeeps DEF indexNewFile
<1>4. CASE \E f \in Files : indexModifiedFile(f)
  BY <1>4, WakeUpKeeps DEF indexModifiedFile
<1>5. CASE \E f \in Files : indexXAttrFile(f)
  BY <1>5, WakeUpKeeps DEF indexXAttrFile
<1>6. CASE \E removed \in Removals : handleFileRemoved(removed)
  BY <1>6, RemovalKeeps DEF IInv
<1>7. CASE runnerFinished
  <2>1. ~isIndexerIdle /\ Len(pool) + doneEvents = 1
    BY <1>7 DEF runnerFinished, IInv, OneRunnerWhenBusy
  <2>2. pool = <<>> /\ doneEvents' = 0 /\ pool' = pool
    BY <1>7, <2>1 DEF runnerFinished, IInv, TypeOK
  <2>3. isIndexerIdle' /\ timers' > 0
    BY <1>7, BoundsAssumption DEF runnerFinished, PostSchedule, isIndexerIdle, IInv, TypeOK
  <2>4. OneRunnerWhenBusy' /\ StateNamesRunner'
    BY <2>2, <2>3 DEF OneRunnerWhenBusy, StateNamesRunner
  <2>5. FirstRunComesFirst'
    BY <1>7 DEF runnerFinished, IInv, FirstRunComesFirst, checks
  <2> QED BY <2>3, <2>4, <2>5 DEF GoingIdleHasTimer, NoLostWakeup
<1>8. CASE startupFinished
  <2>1. timers' > 0
    BY <1>8, BoundsAssumption DEF startupFinished, PostSchedule, IInv, TypeOK
  <2>2. UNCHANGED <<m_indexerState, m_isGoingIdle, m_isFirstRun, pool, doneEvents, checks>>
    BY <1>8 DEF startupFinished
  <2>3. OneRunnerWhenBusy' /\ StateNamesRunner' /\ FirstRunComesFirst'
    BY <2>2 DEF IInv, OneRunnerWhenBusy, StateNamesRunner, FirstRunComesFirst, checks,
                isIndexerIdle
  <2> QED BY <2>1, <2>3 DEF GoingIdleHasTimer, NoLostWakeup
<1>9. CASE \E keep \in SUBSET Files : updateConfig(keep)
  BY <1>9, ScheduleKeeps DEF updateConfig
<1>10. CASE powerManagementStatusChanged
  <2>1. CASE m_isOnBattery' /\ m_indexerState = "ContentIndexing"
    BY <1>10, <2>1, QuitOnlyKeeps DEF powerManagementStatusChanged
  <2>2. CASE ~(m_isOnBattery' /\ m_indexerState = "ContentIndexing")
    BY <1>10, <2>2, RescheduleKeeps DEF powerManagementStatusChanged
  <2> QED BY <2>1, <2>2
<1>11. CASE \E suspend \in BOOLEAN : setSuspend(suspend)
  <2> PICK suspend \in BOOLEAN : setSuspend(suspend)
    BY <1>11
  <2>1. CASE suspend /\ m_indexerState = "ContentIndexing"
    BY <2>1, QuitOnlyKeeps DEF setSuspend
  <2>2. CASE ~(suspend /\ m_indexerState = "ContentIndexing")
    BY <2>2, RescheduleKeeps DEF setSuspend
  <2> QED BY <2>1, <2>2
<1>12. CASE checkUnindexedFiles
  BY <1>12, FirstRunFlags, ScheduleKeeps DEF checkUnindexedFiles, content
<1>13. CASE checkStaleIndexEntries
  BY <1>13, FirstRunFlags, ScheduleKeeps DEF checkStaleIndexEntries, content
<1> QED BY <1>1, <1>2, <1>3, <1>4, <1>5, <1>6, <1>7, <1>8, <1>9, <1>10, <1>11,
           <1>12, <1>13 DEF Main

LEMMA IInvWorker == IInv /\ Worker => IInv'
<1> SUFFICES ASSUME IInv, Worker PROVE IInv'
  OBVIOUS
<1>0. TypeOK /\ TypeOK'
  BY TypeOKWorker DEF IInv
<1>1. pool # <<>> /\ UNCHANGED Scheduler
  BY DEF Worker, RunnerDone, ContentRunBegin, ContentLeave, ContentFetch, ContentBatchDone,
         ContentIndexerIn
<1>2. UNCHANGED <<m_indexerState, m_isGoingIdle, m_isFirstRun, checks, timers>>
  BY <1>1 DEF Scheduler
<1>3. ~isIndexerIdle /\ Len(pool) + doneEvents = 1
  BY <1>1 DEF IInv, OneRunnerWhenBusy
<1>4. Len(pool) = 1 /\ doneEvents = 0
  <2>1. Len(pool) \in Nat /\ Len(pool) # 0 /\ doneEvents \in Nat
    BY <1>0, <1>1 DEF TypeOK
  <2>2. \A m, n \in Nat : m # 0 /\ m + n = 1 => m = 1 /\ n = 0
    OBVIOUS
  <2> QED BY <1>3, <2>1, <2>2, Zenon
<1>5. ~isIndexerIdle'
  BY <1>2, <1>3 DEF isIndexerIdle
<1>6. FirstRunComesFirst' /\ GoingIdleHasTimer' /\ NoLostWakeup'
  <2>1. FirstRunComesFirst' /\ GoingIdleHasTimer'
    BY <1>2 DEF IInv, FirstRunComesFirst, GoingIdleHasTimer, checks
  <2>2. NoLostWakeup'
    BY <1>5 DEF NoLostWakeup
  <2> QED BY <2>1, <2>2
<1>7. OneRunnerWhenBusy' /\ StateNamesRunner'
  <2>1. CASE Finish
    <3>1. pool' = <<>> /\ Len(pool') = 0 /\ doneEvents' = 1
      BY <1>0, <1>4, <2>1 DEF Finish, TypeOK
    <3> QED BY <1>5, <3>1 DEF OneRunnerWhenBusy, StateNamesRunner
  <2>2. CASE /\ \E phase \in Phases : pool' = [pool EXCEPT ![1].phase = phase]
             /\ UNCHANGED doneEvents
    <3>1. Len(pool') = 1
      BY <1>0, <1>1, <1>4, <2>2, PoolPhase
    <3>2. pool'[1].kind = pool[1].kind
      BY <1>0, <1>4, <2>2 DEF TypeOK, Runnable
    <3>3. OneRunnerWhenBusy'
      BY <1>4, <1>5, <2>2, <3>1 DEF OneRunnerWhenBusy
    <3>4. pool[1].kind = m_indexerState
      BY <1>4 DEF IInv, StateNamesRunner
    <3>5. \A i \in 1..Len(pool') : i = 1
      BY <3>1
    <3>6. StateNamesRunner'
      BY <1>2, <3>2, <3>4, <3>5 DEF StateNamesRunner
    <3> QED BY <3>3, <3>6
  <2>3. Finish \/ (/\ \E phase \in Phases : pool' = [pool EXCEPT ![1].phase = phase]
                   /\ UNCHANGED doneEvents)
    BY DEF Worker, RunnerDone, ContentRunBegin, ContentLeave, ContentFetch,
           ContentBatchDone, Phases
  <2> QED BY <2>1, <2>2, <2>3
<1> QED BY <1>0, <1>6, <1>7 DEF IInv

\* The inductive invariant holds in every reachable state of the scheduler.
THEOREM SchedulerInvariant == Spec => []IInv
<1>1. IInv /\ UNCHANGED vars => IInv'
  <2> SUFFICES ASSUME IInv, UNCHANGED vars PROVE IInv'
    OBVIOUS
  <2> USE DEF vars, lists, checks, external, content
  <2>1. TypeOK'
    BY DEF IInv, TypeOK
  <2>2. OneRunnerWhenBusy' /\ StateNamesRunner'
    BY DEF IInv, OneRunnerWhenBusy, StateNamesRunner, isIndexerIdle
  <2>3. FirstRunComesFirst' /\ GoingIdleHasTimer'
    BY DEF IInv, FirstRunComesFirst, GoingIdleHasTimer
  <2>4. NoLostWakeup'
    BY DEF IInv, NoLostWakeup, NextState, isIndexerIdle
  <2> QED BY <2>1, <2>2, <2>3, <2>4 DEF IInv
<1>2. IInv /\ [Next]_vars => IInv'
  BY <1>1, IInvMain, IInvWorker DEF Next
<1> QED BY IInvInit, <1>2, PTL DEF Spec

\* isIndexerIdle() keeps runnables apart: never two at once, never none while busy.
THEOREM SingleRunner == Spec => []OneRunnerWhenBusy
<1>1. IInv => OneRunnerWhenBusy
  BY DEF IInv
<1> QED BY <1>1, SchedulerInvariant, PTL

\* No appended file, raised flag or change of power or suspension is missed.
THEOREM WakeupsArrive == Spec => []NoLostWakeup
<1>1. IInv => NoLostWakeup
  BY DEF IInv
<1> QED BY <1>1, SchedulerInvariant, PTL

\* Nothing is indexed before the FirstRunIndexer on a first run.
THEOREM FirstRunFirst == Spec => []FirstRunComesFirst
<1>1. IInv => FirstRunComesFirst
  BY DEF IInv
<1> QED BY <1>1, SchedulerInvariant, PTL

\* The published state names the runnable that is in the pool.
THEOREM StateIsRunner == Spec => []StateNamesRunner
<1>1. IInv => StateNamesRunner
  BY DEF IInv
<1> QED BY <1>1, SchedulerInvariant, PTL

=============================================================================
