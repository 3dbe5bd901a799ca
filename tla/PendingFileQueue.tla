-------------------------- MODULE PendingFileQueue ---------------------------
(***************************************************************************)
(* The queue between the events of the file system and the scheduler       *)
(* (pendingfilequeue.cpp). An event waits in a cache until the burst it    *)
(* belongs to is over; a file announced a short while ago then waits       *)
(* longer, the longer the more often it changes, so that a file that is    *)
(* written all the time is not indexed all the time.                       *)
(*                                                                         *)
(* Time passes in steps of one unit. Timers run on it; the code however    *)
(* keeps times of the day (QTime), which start again at midnight. The      *)
(* cache timer is so short (10 ms) that a unit ends while it runs only if   *)
(* events start it again all the time. The others are coarse timers: they   *)
(* may fire early or late by up to Slack.                                   *)
(***************************************************************************)
EXTENDS Integers, FiniteSets, FiniteSetsExt

CONSTANTS
  Files, Folders,  \* paths; a folder's ends in a slash
  Below,           \* paths that start with a folder's, itself included
  MinTimeout,      \* m_minTimeout, 5 s
  MaxTimeout,      \* m_maxTimeout, 60 s
  TrackingTime,    \* m_trackingTime, 120 s
  Day,             \* length of a day
  Slack,           \* inaccuracy of a timer
  Horizon,         \* bound: time when the model stops
  MaxEvents        \* bound on the calls of enqueue(); those of a Stream are one

Paths == Files \cup Folders

ASSUME ConstantsAssumption ==
  /\ Below \in [Folders -> SUBSET Paths] /\ \A d \in Folders : d \in Below[d]
  /\ {MinTimeout, MaxTimeout, TrackingTime, Day} \subseteq Nat \ {0}
  /\ {Slack, Horizon, MaxEvents} \subseteq Nat
  /\ MinTimeout <= MaxTimeout /\ MinTimeout <= TrackingTime /\ MaxTimeout < Day

None == -1

VARIABLES
  m_cache,            \* events of a path since the cache was processed
  m_pendingFiles,     \* time of day a path is due, or None
  m_recentlyEmitted,  \* time of day a path was announced, or None
  cacheTimer,         \* m_cacheTimer is active
  pendingTimer,       \* when m_pendingFilesTimer fires, or None
  clearTimer,         \* when m_clearRecentlyEmittedTimer fires, or None
  now,
  signals,            \* signals of the last step
  events,             \* calls of enqueue()
  changedAt,          \* last change of a path that no signal announced yet, or None
  heldAt,             \* last time a Stream held up a change of a path, or None
  emittedAt           \* last announcement of the contents of a path, or None

queue  == <<m_cache, m_pendingFiles, m_recentlyEmitted>>
timers == <<cacheTimer, pendingTimer, clearTimer>>
record == <<changedAt, heldAt, emittedAt>>
vars   == <<queue, timers, now, signals, events, record>>

AllNone == [p \in Paths |-> None]

Init ==
  /\ m_cache = [p \in Paths |-> {}]
  /\ m_pendingFiles = AllNone /\ m_recentlyEmitted = AllNone
  /\ cacheTimer = FALSE /\ pendingTimer = None /\ clearTimer = None
  /\ now = 0 /\ signals = {} /\ events = 0
  /\ changedAt = AllNone /\ heldAt = AllNone /\ emittedAt = AllNone

-----------------------------------------------------------------------------
currentTime    == now % Day
addMSecs(t, n) == (t + n) % Day     \* QTime::addMSecs goes round the clock,
msecsTo(s, t)  == t - s             \* QTime::msecsTo does not

\* Mutant: the delay of a file grows without limit.
postponed_Unbounded(left) == IF 2 * left < MinTimeout THEN MinTimeout ELSE 2 * left

postponed(left) == IF 2 * left < MinTimeout THEN MinTimeout
                   ELSE IF 2 * left > MaxTimeout THEN MaxTimeout ELSE 2 * left

PathsIn(times) == {p \in DOMAIN times : times[p] # None}

Announce(contents) ==
  /\ changedAt' = [p \in Paths |-> IF p \in contents THEN None ELSE changedAt[p]]
  /\ emittedAt' = [p \in Paths |-> IF p \in contents THEN now ELSE emittedAt[p]]
  /\ UNCHANGED heldAt

MayFire(timer) == timer # None /\ timer <= now + Slack
MayWait(timer) == timer = None \/ now < timer + Slack

\* A timer of recently announced files is started when none is active.
TrackEmitted == clearTimer' = IF PathsIn(m_recentlyEmitted') # {} /\ clearTimer = None
                              THEN now + TrackingTime ELSE clearTimer

-----------------------------------------------------------------------------
(* Slots. *)

Events == {"created", "contents", "attributes"}

Called == events < MaxEvents /\ events' = events + 1

Changed(p, e, time) ==
  /\ Called
  /\ m_cache' = [m_cache EXCEPT ![p] = @ \cup {e}]
  /\ cacheTimer' = TRUE
  /\ signals' = {}
  /\ changedAt' = IF e = "attributes" THEN changedAt ELSE [changedAt EXCEPT ![p] = time]
  /\ UNCHANGED <<m_pendingFiles, m_recentlyEmitted, pendingTimer, clearTimer, emittedAt>>

\* Changes of a path: created; written or closed after writing; attributes.
enqueue(p, e) == Changed(p, e, now) /\ UNCHANGED <<now, heldAt>>

\* Mutant: no return, the event of the removal is cached too.
enqueueRemoved_NoReturn(p) ==
  /\ Called
  /\ m_cache' = [m_cache EXCEPT ![p] = {"deleted"}]
  /\ m_pendingFiles' = [m_pendingFiles EXCEPT ![p] = None]
  /\ cacheTimer' = TRUE
  /\ signals' = {<<"removeFileIndex", p>>}
  /\ UNCHANGED <<m_recentlyEmitted, pendingTimer, clearTimer, now, record>>

\* A removal is announced at once. That of a folder drops what is cached below
\* it, and of the paths it drops what else is kept.
enqueueRemoved(p) ==
  LET dropped == IF p \in Folders THEN {q \in Below[p] : m_cache[q] # {}} ELSE {}
      gone    == {p} \cup IF p \in Folders THEN Below[p] ELSE {}
  IN  /\ Called
      /\ m_cache' = [q \in Paths |-> IF q \in dropped \cup {p} THEN {} ELSE m_cache[q]]
      /\ m_pendingFiles' = [q \in Paths |-> IF q \in dropped \cup {p} THEN None
                                            ELSE m_pendingFiles[q]]
      /\ m_recentlyEmitted' = [q \in Paths |-> IF q \in dropped THEN None
                                               ELSE m_recentlyEmitted[q]]
      /\ signals' = {<<"removeFileIndex", p>>}
      /\ changedAt' = [q \in Paths |-> IF q \in gone THEN None ELSE changedAt[q]]
      /\ emittedAt' = [q \in Paths |-> IF q \in gone THEN None ELSE emittedAt[q]]
      /\ UNCHANGED <<timers, now, heldAt>>

\* Mutant: what changes again soon after it was announced is dropped.
cachedContents_Dropped ==
  {p \in Paths : m_cache[p] \cap {"created", "contents"} # {}
                 /\ (m_recentlyEmitted[p] = None \/ m_pendingFiles[p] # None)}

\* shouldIndexContents()
cachedContents == {p \in Paths : m_cache[p] \cap {"created", "contents"} # {}}

processCache ==
  LET again     == cachedContents \cap PathsIn(m_pendingFiles)
      soon      == (cachedContents \ again) \cap PathsIn(m_recentlyEmitted)
      announced == cachedContents \ (again \cup soon)
  IN  /\ cacheTimer
      /\ m_pendingFiles' = [p \in Paths |->
           IF p \in again
           THEN addMSecs(currentTime, postponed(msecsTo(currentTime, m_pendingFiles[p])))
           ELSE IF p \in soon THEN addMSecs(currentTime, MinTimeout)
           ELSE m_pendingFiles[p]]
      /\ m_recentlyEmitted' = [p \in Paths |-> IF p \in announced THEN currentTime
                                               ELSE m_recentlyEmitted[p]]
      /\ signals' = {<<"indexXAttr", p>> : p \in {q \in Paths : m_cache[q] = {"attributes"}}}
               \cup {<<"indexNewFile", p>> : p \in {q \in announced : "created" \in m_cache[q]}}
               \cup {<<"indexModifiedFile", p>> :
                       p \in {q \in announced : "created" \notin m_cache[q]}}
      /\ Announce(announced)
      /\ m_cache' = [p \in Paths |-> {}]
      /\ cacheTimer' = FALSE
      /\ pendingTimer' = IF PathsIn(m_pendingFiles') # {} /\ pendingTimer = None
                         THEN now + MinTimeout ELSE pendingTimer
      /\ TrackEmitted
      /\ UNCHANGED <<now, events>>

\* Mutant: a timer once fired announces all that is waiting.
isDue_Always(p) == TRUE

isDue(p) == msecsTo(currentTime, m_pendingFiles[p]) <= 0

\* Mutant: the timer is left to the next event.
nextPending_None == None

\* The timer is started again while files are waiting.
nextPending ==
  LET left == {msecsTo(currentTime, m_pendingFiles'[p]) : p \in PathsIn(m_pendingFiles')}
  IN  IF left = {} THEN None ELSE now + Min(left \cup {MaxTimeout})

processPendingFiles ==
  LET due == {p \in PathsIn(m_pendingFiles) : isDue(p)}
  IN  /\ MayFire(pendingTimer)
      /\ m_pendingFiles' = [p \in Paths |-> IF p \in due THEN None ELSE m_pendingFiles[p]]
      /\ m_recentlyEmitted' = [p \in Paths |-> IF p \in due THEN currentTime
                                               ELSE m_recentlyEmitted[p]]
      /\ signals' = {<<"indexModifiedFile", p>> : p \in due}
      /\ Announce(due)
      /\ pendingTimer' = nextPending
      /\ TrackEmitted
      /\ UNCHANGED <<m_cache, cacheTimer, now, events>>

\* Mutant: the timer always runs for the whole tracking time.
nextClear_WholeTime ==
  IF PathsIn(m_recentlyEmitted') = {} THEN None ELSE now + TrackingTime

nextClear ==
  LET left == {TrackingTime - msecsTo(m_recentlyEmitted'[p], currentTime) :
                 p \in PathsIn(m_recentlyEmitted')}
  IN  IF left = {} THEN None ELSE now + Min(left \cup {TrackingTime})

clearRecentlyEmitted ==
  /\ MayFire(clearTimer)
  /\ m_recentlyEmitted' = [p \in Paths |->
       IF m_recentlyEmitted[p] # None /\ msecsTo(m_recentlyEmitted[p], currentTime) >= TrackingTime
       THEN None ELSE m_recentlyEmitted[p]]
  /\ clearTimer' = nextClear
  /\ signals' = {}
  /\ UNCHANGED <<m_cache, m_pendingFiles, cacheTimer, pendingTimer, now, events, record>>

-----------------------------------------------------------------------------
Later == now < Horizon /\ MayWait(pendingTimer) /\ MayWait(clearTimer) /\ now' = now + 1

Tick ==
  /\ Later /\ ~cacheTimer
  /\ signals' = {}
  /\ UNCHANGED <<queue, timers, events, record>>

\* Events of a path, like those of a long write, come less than 10 ms apart: each
\* starts m_cacheTimer again, and all that is cached waits until they end.
Stream(p, e) ==
  /\ Later /\ cacheTimer
  /\ Changed(p, e, now')
  /\ heldAt' = [q \in Paths |-> IF m_cache'[q] \cap {"created", "contents"} # {} THEN now' ELSE heldAt[q]]

Next ==
  \/ \E p \in Files, e \in Events : enqueue(p, e)
  \/ \E p \in Folders, e \in Events \ {"contents"} : enqueue(p, e)
  \/ \E p \in Paths : enqueueRemoved(p)
  \/ processCache \/ processPendingFiles \/ clearRecentlyEmitted
  \/ Tick
  \/ \E p \in Files, e \in Events : Stream(p, e)
  \/ \E p \in Folders, e \in Events \ {"contents"} : Stream(p, e)

Spec == Init /\ [][Next]_vars

-----------------------------------------------------------------------------
(* Properties. *)

TimesOfDay == 0..(Day - 1) \cup {None}

\* Type invariant: nothing but changes is cached, times are times of the day.
TypeOK ==
  /\ m_cache \in [Paths -> SUBSET Events]
  /\ m_pendingFiles \in [Paths -> TimesOfDay] /\ m_recentlyEmitted \in [Paths -> TimesOfDay]
  /\ cacheTimer \in BOOLEAN
  /\ pendingTimer \in Nat \cup {None} /\ clearTimer \in Nat \cup {None}
  /\ now \in 0..Horizon /\ events \in 0..MaxEvents
  /\ signals \subseteq {"indexNewFile", "indexModifiedFile", "indexXAttr", "removeFileIndex"} \X Paths
  /\ changedAt \in [Paths -> 0..Horizon \cup {None}] /\ heldAt \in [Paths -> 0..Horizon \cup {None}]
  /\ emittedAt \in [Paths -> 0..Horizon \cup {None}]

\* Each of the three tables is only looked at when its timer fires: whatever
\* sequence of slots filled it, its timer runs.
TimersRun ==
  /\ (\E p \in Paths : m_cache[p] # {}) => cacheTimer
  /\ PathsIn(m_pendingFiles) # {} => pendingTimer # None
  /\ PathsIn(m_recentlyEmitted) # {} => clearTimer # None

\* A change that was not announced is cached or has a due time, however bursts
\* of changes, announcements and removals interleave.
NoChangeForgotten ==
  \A p \in Paths : changedAt[p] # None =>
    m_pendingFiles[p] # None \/ m_cache[p] \cap {"created", "contents"} # {}

\* When a path was left alone: it changed last, or the Stream that held it up ended.
LeftAlone(p) == IF changedAt[p] < heldAt[p] THEN heldAt[p] ELSE changedAt[p]

\* pendingfilequeue.h:76, "the time when these file events should be processed":
\* a file left alone is announced within the longest timeout (and the inaccuracy
\* of the timer), though the timer may be running for other files. A stream of
\* events, of whatever file, holds it up as long as it lasts, and no longer: then
\* m_cacheTimer, which each event starts again, does not fire.
QuietFileAnnounced ==
  \A p \in Paths : changedAt[p] # None => now <= LeftAlone(p) + MaxTimeout + Slack

\* A file that keeps changing is not announced twice within the shortest
\* timeout, unless it was removed in between.
NotTooOften ==
  [][\A p \in Paths :
       {<<"indexNewFile", p>>, <<"indexModifiedFile", p>>} \cap signals' # {} /\ emittedAt[p] # None
         => now - emittedAt[p] >= MinTimeout]_vars

\* pendingfilequeue.h:45, a file is tracked for the tracking time after it was
\* announced, and no longer.
TrackingEnds ==
  \A p \in Paths : m_recentlyEmitted[p] # None /\ emittedAt[p] # None =>
    now <= emittedAt[p] + TrackingTime + Slack
=============================================================================
