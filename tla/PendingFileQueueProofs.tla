----------------------- MODULE PendingFileQueueProofs ------------------------
(***************************************************************************)
(* Proofs about PendingFileQueue, for all paths, timeouts and bounds: what *)
(* is kept in its tables has a timer, no change is forgotten, and, as long *)
(* as the times of the day do not start again (queue_midnight shows what   *)
(* happens then), a change is announced in time and not too often.         *)
(***************************************************************************)
EXTENDS PendingFileQueue, Integers, FiniteSets, FiniteSetsExt, FiniteSetTheorems, WellFoundedInduction, TLAPS

-----------------------------------------------------------------------------
\* A non-empty set of natural numbers has a least one, which Min() gives.
LEMMA MinIsLeast ==
  ASSUME NEW S, S \subseteq Nat, S # {}
  PROVE  Min(S) \in S /\ \A n \in S : Min(S) <= n
<1> PICK n \in S : TRUE
  OBVIOUS
<1> DEFINE T == {0..k : k \in {m \in S : m <= n}}
<1>1. IsFiniteSet(0..n)
  BY FS_Interval
<1>2. IsWellFoundedOn(StrictSubsetOrdering(0..n), SUBSET (0..n))
  <2>1. IsWellFoundedOn(StrictSubsetOrdering(0..n), FiniteSubsetsOf(0..n))
    BY FS_StrictSubsetOrderingWellFounded
  <2> QED BY <2>1, <1>1, FS_FiniteSubsetsOfFinite
<1>3. T \subseteq SUBSET (0..n) /\ T # {}
  OBVIOUS
<1>4. PICK x \in T : \A y \in T : ~(<<y, x>> \in StrictSubsetOrdering(0..n))
  BY <1>2, <1>3, WFMin
<1>5. PICK k \in S : k <= n /\ x = 0..k
  OBVIOUS
<1>6. \A m \in S : k <= m
  <2> SUFFICES ASSUME NEW m \in S, m < k PROVE FALSE
    OBVIOUS
  <2>1. 0..m \in T /\ 0..m \subseteq 0..k /\ k \in 0..k /\ k \notin 0..m
    BY <1>5
  <2>2. <<0..m, 0..k>> \in StrictSubsetOrdering(0..n)
    BY <2>1, <1>5 DEF StrictSubsetOrdering
  <2> QED BY <2>1, <2>2, <1>4, <1>5
<1> QED BY <1>6 DEF Min

-----------------------------------------------------------------------------
(* The operators that the slots are built from. *)

\* QTime::addMSecs gives a time of the day.
LEMMA TimeOfDay == \A t \in Int : t % Day \in 0..Day - 1
  BY ConstantsAssumption

\* A delay is doubled within the limits.
LEMMA PostponedBounds ==
  \A left \in Int : postponed(left) \in MinTimeout..MaxTimeout
  BY ConstantsAssumption DEF postponed

\* m_pendingFilesTimer runs if and only if files are left, for the time that the
\* first of them has left and no longer than the longest timeout.
LEMMA NextPending ==
  ASSUME TypeOK, m_pendingFiles' \in [Paths -> TimesOfDay],
         \A p \in PathsIn(m_pendingFiles') : m_pendingFiles'[p] > currentTime
  PROVE  /\ nextPending \in Nat \cup {None}
         /\ nextPending # None <=> PathsIn(m_pendingFiles') # {}
         /\ nextPending # None => now <= nextPending /\ nextPending <= now + MaxTimeout
         /\ \A p \in PathsIn(m_pendingFiles') :
              nextPending <= now + (m_pendingFiles'[p] - currentTime)
<1> DEFINE left == {msecsTo(currentTime, m_pendingFiles'[p]) : p \in PathsIn(m_pendingFiles')}
           least == Min(left \cup {MaxTimeout})
<1>1. now \in Nat /\ MaxTimeout \in Nat /\ currentTime \in Nat
  BY ConstantsAssumption, TimeOfDay DEF TypeOK, currentTime
<1>2. \A p \in PathsIn(m_pendingFiles') : m_pendingFiles'[p] \in Nat /\ m_pendingFiles'[p] > currentTime
  BY DEF PathsIn, TimesOfDay, None
<1>3. left \subseteq Nat
  BY <1>1, <1>2 DEF msecsTo
<1>4. left = {} <=> PathsIn(m_pendingFiles') = {}
  OBVIOUS
<1>5. nextPending = IF left = {} THEN None ELSE now + least
  BY DEF nextPending
<1> HIDE DEF left
<1>6. least \in Nat /\ least <= MaxTimeout /\ \A n \in left : least <= n
  BY <1>1, <1>3, MinIsLeast
<1> HIDE DEF least
<1>7. \A p \in PathsIn(m_pendingFiles') : least <= m_pendingFiles'[p] - currentTime
  BY <1>6 DEF left, msecsTo
<1> QED BY <1>1, <1>2, <1>4, <1>5, <1>6, <1>7 DEF None

\* m_clearRecentlyEmittedTimer runs if and only if files are tracked, until the first
\* of them was tracked long enough.
LEMMA NextClear ==
  ASSUME TypeOK, m_recentlyEmitted' \in [Paths -> TimesOfDay],
         \A p \in PathsIn(m_recentlyEmitted') : currentTime - m_recentlyEmitted'[p] < TrackingTime
  PROVE  /\ nextClear \in Nat \cup {None}
         /\ nextClear # None <=> PathsIn(m_recentlyEmitted') # {}
         /\ nextClear # None => now <= nextClear /\ nextClear <= now + TrackingTime
         /\ \A p \in PathsIn(m_recentlyEmitted') :
              nextClear <= now + TrackingTime - (currentTime - m_recentlyEmitted'[p])
<1> DEFINE left == {TrackingTime - msecsTo(m_recentlyEmitted'[p], currentTime) :
                      p \in PathsIn(m_recentlyEmitted')}
           least == Min(left \cup {TrackingTime})
<1>1. now \in Nat /\ TrackingTime \in Nat /\ currentTime \in Nat
  BY ConstantsAssumption, TimeOfDay DEF TypeOK, currentTime
<1>2. \A p \in PathsIn(m_recentlyEmitted') :
        m_recentlyEmitted'[p] \in Nat /\ currentTime - m_recentlyEmitted'[p] < TrackingTime
  BY DEF PathsIn, TimesOfDay, None
<1>3. left \subseteq Nat
  BY <1>1, <1>2 DEF msecsTo
<1>4. left = {} <=> PathsIn(m_recentlyEmitted') = {}
  OBVIOUS
<1>5. nextClear = IF left = {} THEN None ELSE now + least
  BY DEF nextClear
<1> HIDE DEF left
<1>6. least \in Nat /\ least <= TrackingTime /\ \A n \in left : least <= n
  BY <1>1, <1>3, MinIsLeast
<1> HIDE DEF least
<1>7. \A p \in PathsIn(m_recentlyEmitted') :
        least <= TrackingTime - (currentTime - m_recentlyEmitted'[p])
  BY <1>6 DEF left, msecsTo
<1> QED BY <1>1, <1>2, <1>4, <1>5, <1>6, <1>7 DEF None

-----------------------------------------------------------------------------
(* Type correctness, and timers for whatever is kept. *)

LEMMA TypeOKInit == Init => TypeOK
<1> SUFFICES ASSUME Init PROVE TypeOK
  OBVIOUS
<1>1. Horizon \in Nat /\ MaxEvents \in Nat
  BY ConstantsAssumption
<1>2. m_cache \in [Paths -> SUBSET Events]
  BY DEF Init
<1>3. m_pendingFiles \in [Paths -> TimesOfDay] /\ m_recentlyEmitted \in [Paths -> TimesOfDay]
  BY DEF Init, AllNone, TimesOfDay
<1>4. {changedAt, heldAt, emittedAt} \subseteq [Paths -> 0..Horizon \cup {None}]
  BY DEF Init, AllNone
<1>5. now \in 0..Horizon /\ events \in 0..MaxEvents
  BY <1>1 DEF Init
<1>6. pendingTimer \in Nat \cup {None} /\ clearTimer \in Nat \cup {None} /\ cacheTimer \in BOOLEAN
  BY DEF Init
<1>7. signals = {}
  BY DEF Init
<1> QED BY <1>2, <1>3, <1>4, <1>5, <1>6, <1>7 DEF TypeOK

LEMMA AnnounceType ==
  ASSUME TypeOK, NEW contents, Announce(contents)
  PROVE  {changedAt', heldAt', emittedAt'} \subseteq [Paths -> 0..Horizon \cup {None}]
  BY DEF TypeOK, Announce

LEMMA TrackEmittedType ==
  ASSUME TypeOK, TrackEmitted
  PROVE  /\ clearTimer' \in Nat \cup {None}
         /\ PathsIn(m_recentlyEmitted') # {} => clearTimer' # None
         /\ clearTimer' # clearTimer => clearTimer = None /\ clearTimer' = now + TrackingTime
  BY ConstantsAssumption DEF TypeOK, TrackEmitted, None

\* What is due is dropped from the pending files: the others are due later.
LEMMA PendingLeft ==
  ASSUME TypeOK, processPendingFiles
  PROVE  /\ m_pendingFiles' \in [Paths -> TimesOfDay]
         /\ \A p \in PathsIn(m_pendingFiles') :
              m_pendingFiles'[p] = m_pendingFiles[p] /\ m_pendingFiles'[p] > currentTime
<1>1. \A p \in Paths : m_pendingFiles'[p] = IF m_pendingFiles[p] # None /\ isDue(p) THEN None ELSE m_pendingFiles[p]
  BY DEF processPendingFiles, PathsIn, TypeOK
<1>2. m_pendingFiles' \in [Paths -> TimesOfDay]
  <2>1. m_pendingFiles' = [p \in Paths |-> m_pendingFiles'[p]]
    BY DEF processPendingFiles
  <2>2. \A p \in Paths : m_pendingFiles'[p] \in TimesOfDay
    BY <1>1 DEF TypeOK, TimesOfDay
  <2> QED BY <2>1, <2>2
<1>3. currentTime \in Int
  BY TimeOfDay DEF currentTime, TypeOK
<1>4. ASSUME NEW p \in PathsIn(m_pendingFiles')
      PROVE  m_pendingFiles'[p] = m_pendingFiles[p] /\ m_pendingFiles'[p] > currentTime
  <2>1. p \in Paths /\ m_pendingFiles'[p] # None
    BY <1>2 DEF PathsIn
  <2>2. m_pendingFiles'[p] = m_pendingFiles[p] /\ m_pendingFiles[p] \in Nat /\ ~isDue(p)
    BY <1>1, <2>1 DEF TypeOK, TimesOfDay
  <2> QED BY <2>2, <1>3 DEF isDue, msecsTo
<1> QED BY <1>2, <1>4

\* What was tracked long enough is dropped.
LEMMA TrackedLeft ==
  ASSUME TypeOK, clearRecentlyEmitted
  PROVE  /\ m_recentlyEmitted' \in [Paths -> TimesOfDay]
         /\ \A p \in Paths :
              \/ m_recentlyEmitted'[p] = m_recentlyEmitted[p]
                 /\ (m_recentlyEmitted[p] # None => currentTime - m_recentlyEmitted[p] < TrackingTime)
              \/ m_recentlyEmitted'[p] = None /\ m_recentlyEmitted[p] # None
                 /\ currentTime - m_recentlyEmitted[p] >= TrackingTime
<1>1. \A p \in Paths : m_recentlyEmitted'[p] =
        IF m_recentlyEmitted[p] # None /\ currentTime - m_recentlyEmitted[p] >= TrackingTime
        THEN None ELSE m_recentlyEmitted[p]
  BY DEF clearRecentlyEmitted, msecsTo
<1>2. m_recentlyEmitted' = [p \in Paths |-> m_recentlyEmitted'[p]]
  BY DEF clearRecentlyEmitted
<1>3. currentTime \in Int /\ TrackingTime \in Nat
  BY TimeOfDay, ConstantsAssumption DEF currentTime, TypeOK
<1>4. \A p \in Paths : m_recentlyEmitted'[p] \in TimesOfDay
  BY <1>1 DEF TypeOK, TimesOfDay
<1>5. \A p \in Paths : m_recentlyEmitted[p] # None => m_recentlyEmitted[p] \in Nat
  BY DEF TypeOK, TimesOfDay
<1> QED BY <1>1, <1>2, <1>3, <1>4, <1>5

\* Paths that processCache() postpones get a time of the day.
LEMMA CacheProcessed ==
  ASSUME TypeOK, processCache
  PROVE  /\ m_pendingFiles' \in [Paths -> TimesOfDay] /\ m_recentlyEmitted' \in [Paths -> TimesOfDay]
         /\ \A p \in Paths \ cachedContents :
              m_pendingFiles'[p] = m_pendingFiles[p] /\ m_recentlyEmitted'[p] = m_recentlyEmitted[p]
         /\ \A p \in cachedContents :
              \/ \* again
                 /\ m_pendingFiles[p] # None
                 /\ \E n \in MinTimeout..MaxTimeout : m_pendingFiles'[p] = (currentTime + n) % Day
                 /\ m_recentlyEmitted'[p] = m_recentlyEmitted[p]
                 /\ changedAt'[p] = changedAt[p] /\ emittedAt'[p] = emittedAt[p]
              \/ \* soon
                 /\ m_pendingFiles[p] = None /\ m_recentlyEmitted[p] # None
                 /\ m_pendingFiles'[p] = (currentTime + MinTimeout) % Day
                 /\ m_recentlyEmitted'[p] = m_recentlyEmitted[p]
                 /\ changedAt'[p] = changedAt[p] /\ emittedAt'[p] = emittedAt[p]
              \/ \* announced
                 /\ m_pendingFiles[p] = None /\ m_recentlyEmitted[p] = None
                 /\ m_pendingFiles'[p] = None /\ m_recentlyEmitted'[p] = currentTime
                 /\ changedAt'[p] = None /\ emittedAt'[p] = now
         /\ \A p \in Paths \ cachedContents : changedAt'[p] = changedAt[p] /\ emittedAt'[p] = emittedAt[p]
<1> DEFINE again     == cachedContents \cap PathsIn(m_pendingFiles)
           soon      == (cachedContents \ again) \cap PathsIn(m_recentlyEmitted)
           announced == cachedContents \ (again \cup soon)
<1>1. cachedContents \subseteq Paths /\ currentTime \in 0..Day - 1
  BY TimeOfDay DEF cachedContents, currentTime, TypeOK
<1>2. /\ again = {p \in cachedContents : m_pendingFiles[p] # None}
      /\ soon = {p \in cachedContents : m_pendingFiles[p] = None /\ m_recentlyEmitted[p] # None}
      /\ announced = {p \in cachedContents : m_pendingFiles[p] = None /\ m_recentlyEmitted[p] = None}
  BY <1>1 DEF PathsIn, TypeOK
<1>3. /\ m_pendingFiles' = [p \in Paths |->
           IF p \in again
           THEN addMSecs(currentTime, postponed(msecsTo(currentTime, m_pendingFiles[p])))
           ELSE IF p \in soon THEN addMSecs(currentTime, MinTimeout)
           ELSE m_pendingFiles[p]]
      /\ m_recentlyEmitted' = [p \in Paths |-> IF p \in announced THEN currentTime
                                               ELSE m_recentlyEmitted[p]]
      /\ changedAt' = [p \in Paths |-> IF p \in announced THEN None ELSE changedAt[p]]
      /\ emittedAt' = [p \in Paths |-> IF p \in announced THEN now ELSE emittedAt[p]]
  BY DEF processCache, Announce
<1> HIDE DEF again, soon, announced
<1>4. \A p \in again : \E n \in MinTimeout..MaxTimeout : m_pendingFiles'[p] = (currentTime + n) % Day
  <2> SUFFICES ASSUME NEW p \in again
               PROVE  \E n \in MinTimeout..MaxTimeout : m_pendingFiles'[p] = (currentTime + n) % Day
    OBVIOUS
  <2>1. msecsTo(currentTime, m_pendingFiles[p]) \in Int
    BY <1>1, <1>2 DEF msecsTo, TypeOK, TimesOfDay
  <2> QED BY <1>1, <1>2, <1>3, <2>1, PostponedBounds DEF addMSecs
<1>5. \A p \in soon : m_pendingFiles'[p] = (currentTime + MinTimeout) % Day
  BY <1>1, <1>2, <1>3 DEF addMSecs
<1>6. \A p \in Paths : m_pendingFiles'[p] \in TimesOfDay
  <2>1. \A n \in MinTimeout..MaxTimeout : (currentTime + n) % Day \in TimesOfDay
    BY <1>1, TimeOfDay, ConstantsAssumption DEF TimesOfDay
  <2>2. MinTimeout \in MinTimeout..MaxTimeout
    BY ConstantsAssumption
  <2>3. \A p \in again \cup soon : m_pendingFiles'[p] \in TimesOfDay
    BY <1>4, <1>5, <2>1, <2>2
  <2>4. \A p \in Paths \ (again \cup soon) : m_pendingFiles'[p] = m_pendingFiles[p]
    BY <1>3
  <2> QED BY <2>3, <2>4 DEF TypeOK
<1>7. m_pendingFiles' \in [Paths -> TimesOfDay] /\ m_recentlyEmitted' \in [Paths -> TimesOfDay]
  BY <1>1, <1>3, <1>6 DEF TypeOK, TimesOfDay
<1> QED BY <1>1, <1>2, <1>3, <1>4, <1>5, <1>7

\* The changes that processCache() looks at.
Cached(p) == m_cache[p] \cap {"created", "contents"} # {}

\* An event of a path is cached, and no other path is touched.
LEMMA ChangeCached ==
  ASSUME TypeOK, NEW p \in Paths, NEW e \in Events, NEW time \in 0..Horizon, Changed(p, e, time)
  PROVE  /\ m_cache' \in [Paths -> SUBSET Events] /\ events' \in 0..MaxEvents
         /\ changedAt' \in [Paths -> 0..Horizon \cup {None}]
         /\ signals' = {} /\ cacheTimer' = TRUE
         /\ UNCHANGED <<m_pendingFiles, m_recentlyEmitted, pendingTimer, clearTimer, emittedAt>>
         /\ \A q \in Paths :
              \/ /\ q = p /\ e # "attributes" /\ changedAt'[q] = time /\ Cached(q)'
              \/ /\ q = p /\ e = "attributes" /\ changedAt'[q] = changedAt[q] /\ (Cached(q)' <=> Cached(q))
              \/ /\ q # p /\ m_cache'[q] = m_cache[q] /\ changedAt'[q] = changedAt[q] /\ (Cached(q)' <=> Cached(q))
<1>1. m_cache' = [m_cache EXCEPT ![p] = @ \cup {e}]
  BY DEF Changed
<1>2. m_cache' \in [Paths -> SUBSET Events]
  <2>1. m_cache[p] \cup {e} \in SUBSET Events
    BY DEF TypeOK
  <2> QED BY <1>1, <2>1 DEF TypeOK
<1>3. events' \in 0..MaxEvents
  BY ConstantsAssumption DEF Changed, Called, TypeOK
<1>4. changedAt' = IF e = "attributes" THEN changedAt ELSE [changedAt EXCEPT ![p] = time]
  BY DEF Changed
<1>5. changedAt' \in [Paths -> 0..Horizon \cup {None}]
  BY <1>4 DEF TypeOK
<1>6. ASSUME NEW q \in Paths, q # p
      PROVE  m_cache'[q] = m_cache[q] /\ changedAt'[q] = changedAt[q] /\ (Cached(q)' <=> Cached(q))
  BY <1>1, <1>4, <1>6 DEF Cached, TypeOK
<1>7. m_cache'[p] = m_cache[p] \cup {e}
  BY <1>1 DEF TypeOK
<1>8. CASE e = "attributes"
  <2>1. changedAt'[p] = changedAt[p] /\ (Cached(p)' <=> Cached(p))
    BY <1>4, <1>7, <1>8 DEF Cached
  <2> QED BY <1>2, <1>3, <1>5, <1>6, <1>8, <2>1 DEF Changed
<1>9. CASE e # "attributes"
  <2>1. changedAt'[p] = time /\ Cached(p)'
    BY <1>4, <1>7, <1>9 DEF Cached, Events, TypeOK
  <2> QED BY <1>2, <1>3, <1>5, <1>6, <1>9, <2>1 DEF Changed
<1> QED BY <1>8, <1>9

\* enqueue() caches one event of one path, at once.
LEMMA Enqueued ==
  ASSUME TypeOK, NEW p \in Paths, NEW e \in Events, enqueue(p, e)
  PROVE  /\ TypeOK' /\ cacheTimer' = TRUE /\ now' = now /\ heldAt' = heldAt /\ signals' = {}
         /\ UNCHANGED <<m_pendingFiles, m_recentlyEmitted, pendingTimer, clearTimer, emittedAt>>
         /\ \A q \in Paths :
              \/ changedAt'[q] = now /\ Cached(q)'
              \/ changedAt'[q] = changedAt[q] /\ (Cached(q)' <=> Cached(q))
<1>1. now \in 0..Horizon /\ Changed(p, e, now) /\ now' = now /\ heldAt' = heldAt
  BY DEF enqueue, TypeOK
<1>2. TypeOK'
  BY <1>1, ChangeCached DEF TypeOK
<1> QED BY <1>1, <1>2, ChangeCached

\* A stream of events holds up what is cached.
LEMMA Streamed ==
  ASSUME TypeOK, NEW p \in Paths, NEW e \in Events, Stream(p, e)
  PROVE  /\ TypeOK' /\ cacheTimer' = TRUE /\ now' = now + 1 /\ signals' = {}
         /\ UNCHANGED <<m_pendingFiles, m_recentlyEmitted, pendingTimer, clearTimer, emittedAt>>
         /\ \A q \in Paths :
              \/ Cached(q)' /\ heldAt'[q] = now' /\ changedAt'[q] \in {changedAt[q], now'}
              \/ ~Cached(q) /\ ~Cached(q)' /\ heldAt'[q] = heldAt[q] /\ changedAt'[q] = changedAt[q]
<1>1. /\ now' = now + 1 /\ now' \in 0..Horizon /\ Changed(p, e, now')
      /\ heldAt' = [q \in Paths |-> IF Cached(q)' THEN now' ELSE heldAt[q]]
  BY ConstantsAssumption DEF Stream, Later, TypeOK, Cached
<1>2. heldAt' \in [Paths -> 0..Horizon \cup {None}]
  BY <1>1 DEF TypeOK
<1>3. /\ m_cache' \in [Paths -> SUBSET Events] /\ events' \in 0..MaxEvents
      /\ changedAt' \in [Paths -> 0..Horizon \cup {None}]
      /\ signals' = {} /\ cacheTimer' = TRUE
      /\ UNCHANGED <<m_pendingFiles, m_recentlyEmitted, pendingTimer, clearTimer, emittedAt>>
      /\ \A q \in Paths :
           \/ changedAt'[q] = now' /\ Cached(q)'
           \/ changedAt'[q] = changedAt[q] /\ (Cached(q)' <=> Cached(q))
  BY <1>1, ChangeCached
<1>4. TypeOK'
  BY <1>1, <1>2, <1>3 DEF TypeOK
<1> QED BY <1>1, <1>3, <1>4

\* A removal leaves each path as it was or drops what is kept of it.
LEMMA Removed ==
  ASSUME TypeOK, NEW p \in Paths, enqueueRemoved(p)
  PROVE  /\ TypeOK' /\ timers' = timers /\ now' = now
         /\ \A q \in Paths :
              /\ m_cache'[q] \in {{}, m_cache[q]}
              /\ m_pendingFiles'[q] \in {None, m_pendingFiles[q]}
              /\ m_recentlyEmitted'[q] \in {None, m_recentlyEmitted[q]}
              /\ \/ changedAt'[q] = None /\ emittedAt'[q] = None
                 \/ /\ changedAt'[q] = changedAt[q] /\ emittedAt'[q] = emittedAt[q]
                    /\ m_cache'[q] = m_cache[q] /\ m_pendingFiles'[q] = m_pendingFiles[q]
                    /\ m_recentlyEmitted'[q] = m_recentlyEmitted[q]
<1> DEFINE dropped == IF p \in Folders THEN {q \in Below[p] : m_cache[q] # {}} ELSE {}
           gone    == {p} \cup IF p \in Folders THEN Below[p] ELSE {}
<1>1. dropped \subseteq gone
  OBVIOUS
<1>2. /\ m_cache' = [q \in Paths |-> IF q \in dropped \cup {p} THEN {} ELSE m_cache[q]]
      /\ m_pendingFiles' = [q \in Paths |-> IF q \in dropped \cup {p} THEN None ELSE m_pendingFiles[q]]
      /\ m_recentlyEmitted' = [q \in Paths |-> IF q \in dropped THEN None ELSE m_recentlyEmitted[q]]
      /\ changedAt' = [q \in Paths |-> IF q \in gone THEN None ELSE changedAt[q]]
      /\ emittedAt' = [q \in Paths |-> IF q \in gone THEN None ELSE emittedAt[q]]
      /\ signals' = {<<"removeFileIndex", p>>}
      /\ UNCHANGED <<timers, now, heldAt>>
      /\ events < MaxEvents /\ events' = events + 1
  BY DEF enqueueRemoved, Called
<1>3. p \in gone
  OBVIOUS
<1> HIDE DEF dropped, gone
<1>4. m_cache' \in [Paths -> SUBSET Events]
  BY <1>2 DEF TypeOK
<1>5. m_pendingFiles' \in [Paths -> TimesOfDay] /\ m_recentlyEmitted' \in [Paths -> TimesOfDay]
  BY <1>2 DEF TypeOK, TimesOfDay
<1>6. {changedAt', heldAt', emittedAt'} \subseteq [Paths -> 0..Horizon \cup {None}]
  BY <1>2 DEF TypeOK
<1>7. events' \in 0..MaxEvents
  BY <1>2, ConstantsAssumption DEF TypeOK
<1>8. TypeOK'
  BY <1>2, <1>4, <1>5, <1>6, <1>7 DEF TypeOK, timers
<1> QED BY <1>1, <1>2, <1>3, <1>8

LEMMA TypeOKNext == TypeOK /\ [Next]_vars => TypeOK'
<1> SUFFICES ASSUME TypeOK, [Next]_vars PROVE TypeOK'
  OBVIOUS
<1>1. \A p \in Paths, e \in Events : enqueue(p, e) => TypeOK'
  BY Enqueued
<1>2. \A p \in Paths : enqueueRemoved(p) => TypeOK'
  BY Removed
<1>3. ASSUME processCache PROVE TypeOK'
  <2>1. m_pendingFiles' \in [Paths -> TimesOfDay] /\ m_recentlyEmitted' \in [Paths -> TimesOfDay]
    BY <1>3, CacheProcessed
  <2>2. {changedAt', heldAt', emittedAt'} \subseteq [Paths -> 0..Horizon \cup {None}]
    BY <1>3, AnnounceType DEF processCache
  <2>3. clearTimer' \in Nat \cup {None}
    BY <1>3, TrackEmittedType DEF processCache
  <2>4. pendingTimer' \in Nat \cup {None}
    <3>1. now + MinTimeout \in Nat
      BY ConstantsAssumption DEF TypeOK
    <3> QED BY <1>3, <3>1 DEF processCache, TypeOK
  <2>5. m_cache' \in [Paths -> SUBSET Events]
    BY <1>3 DEF processCache
  <2>6. signals' \subseteq {"indexNewFile", "indexModifiedFile", "indexXAttr", "removeFileIndex"} \X Paths
    <3>1. cachedContents \subseteq Paths
      BY DEF cachedContents
    <3> QED BY <1>3, <3>1 DEF processCache
  <2>7. cacheTimer' = FALSE /\ now' = now /\ events' = events
    BY <1>3 DEF processCache
  <2> QED BY <2>1, <2>2, <2>3, <2>4, <2>5, <2>6, <2>7 DEF TypeOK
<1>4. ASSUME processPendingFiles PROVE TypeOK'
  <2>1. m_pendingFiles' \in [Paths -> TimesOfDay] /\ pendingTimer' \in Nat \cup {None}
    BY <1>4, PendingLeft, NextPending DEF processPendingFiles
  <2>2. m_recentlyEmitted' \in [Paths -> TimesOfDay]
    <3>1. currentTime \in 0..Day - 1
      BY TimeOfDay DEF currentTime, TypeOK
    <3> QED BY <1>4, <3>1 DEF processPendingFiles, TypeOK, TimesOfDay
  <2>3. {changedAt', heldAt', emittedAt'} \subseteq [Paths -> 0..Horizon \cup {None}]
    BY <1>4, AnnounceType DEF processPendingFiles
  <2>4. clearTimer' \in Nat \cup {None}
    BY <1>4, TrackEmittedType DEF processPendingFiles
  <2>5. signals' \subseteq {"indexNewFile", "indexModifiedFile", "indexXAttr", "removeFileIndex"} \X Paths
    BY <1>4 DEF processPendingFiles, PathsIn, TypeOK
  <2>6. m_cache' = m_cache /\ cacheTimer' = cacheTimer /\ now' = now /\ events' = events
    BY <1>4 DEF processPendingFiles
  <2> QED BY <2>1, <2>2, <2>3, <2>4, <2>5, <2>6 DEF TypeOK
<1>5. ASSUME clearRecentlyEmitted PROVE TypeOK'
  <2>1. /\ m_recentlyEmitted' \in [Paths -> TimesOfDay]
        /\ \A p \in PathsIn(m_recentlyEmitted') : currentTime - m_recentlyEmitted'[p] < TrackingTime
    BY <1>5, TrackedLeft DEF PathsIn
  <2>2. clearTimer' \in Nat \cup {None}
    BY <1>5, <2>1, NextClear DEF clearRecentlyEmitted
  <2>3. signals' = {}
    BY <1>5 DEF clearRecentlyEmitted
  <2> QED BY <1>5, <2>1, <2>2, <2>3 DEF TypeOK, clearRecentlyEmitted, record
<1>6. ASSUME Tick PROVE TypeOK'
  <2>1. now' \in 0..Horizon /\ signals' = {}
    BY <1>6, ConstantsAssumption DEF Tick, Later, TypeOK
  <2> QED BY <1>6, <2>1 DEF Tick, TypeOK, queue, timers, record
<1>7. \A p \in Paths, e \in Events : Stream(p, e) => TypeOK'
  BY Streamed
<1>8. CASE UNCHANGED vars
  BY <1>8 DEF vars, queue, timers, record, TypeOK
<1> QED BY <1>1, <1>2, <1>3, <1>4, <1>5, <1>6, <1>7, <1>8 DEF Next, Paths

\* Nothing but changes is cached, and times are times of the day.
THEOREM TypeCorrect == Spec => []TypeOK
  BY TypeOKInit, TypeOKNext, PTL DEF Spec

LEMMA TimersRunNext == TypeOK /\ TimersRun /\ [Next]_vars => TimersRun'
<1> SUFFICES ASSUME TypeOK, TimersRun, [Next]_vars PROVE TimersRun'
  OBVIOUS
<1>0. TypeOK'
  BY TypeOKNext
<1>1. ASSUME NEW p \in Paths, NEW e \in Events, enqueue(p, e) PROVE TimersRun'
  BY <1>1, Enqueued DEF TimersRun
<1>2. ASSUME NEW p \in Paths, enqueueRemoved(p) PROVE TimersRun'
  <2>1. /\ PathsIn(m_pendingFiles') \subseteq PathsIn(m_pendingFiles)
        /\ PathsIn(m_recentlyEmitted') \subseteq PathsIn(m_recentlyEmitted)
    BY <1>0, <1>2, Removed DEF PathsIn, TypeOK
  <2> QED BY <1>2, <2>1, Removed DEF TimersRun, timers
<1>3. ASSUME processCache PROVE TimersRun'
  <2>1. \A p \in Paths : m_cache'[p] = {}
    BY <1>3 DEF processCache
  <2>2. PathsIn(m_pendingFiles') # {} => pendingTimer' # None
    <3>1. now + MinTimeout # None
      BY ConstantsAssumption DEF TypeOK, None
    <3> QED BY <1>3, <3>1 DEF processCache
  <2>3. PathsIn(m_recentlyEmitted') # {} => clearTimer' # None
    BY <1>3, TrackEmittedType DEF processCache
  <2> QED BY <2>1, <2>2, <2>3 DEF TimersRun
<1>4. ASSUME processPendingFiles PROVE TimersRun'
  <2>1. PathsIn(m_pendingFiles') # {} => pendingTimer' # None
    BY <1>4, PendingLeft, NextPending DEF processPendingFiles
  <2>2. PathsIn(m_recentlyEmitted') # {} => clearTimer' # None
    BY <1>4, TrackEmittedType DEF processPendingFiles
  <2>3. m_cache' = m_cache /\ cacheTimer' = cacheTimer
    BY <1>4 DEF processPendingFiles
  <2> QED BY <2>1, <2>2, <2>3 DEF TimersRun
<1>5. ASSUME clearRecentlyEmitted PROVE TimersRun'
  <2>1. /\ m_recentlyEmitted' \in [Paths -> TimesOfDay]
        /\ \A p \in PathsIn(m_recentlyEmitted') : currentTime - m_recentlyEmitted'[p] < TrackingTime
    BY <1>5, TrackedLeft DEF PathsIn
  <2>2. PathsIn(m_recentlyEmitted') # {} => clearTimer' # None
    BY <1>5, <2>1, NextClear DEF clearRecentlyEmitted
  <2> QED BY <1>5, <2>2 DEF clearRecentlyEmitted, TimersRun
<1>6. CASE Tick
  BY <1>6 DEF Tick, TimersRun, queue, timers
<1>7. ASSUME NEW p \in Paths, NEW e \in Events, Stream(p, e) PROVE TimersRun'
  BY <1>7, Streamed DEF TimersRun
<1>8. CASE UNCHANGED vars
  BY <1>8 DEF vars, TimersRun, queue, timers
<1> QED BY <1>1, <1>2, <1>3, <1>4, <1>5, <1>6, <1>7, <1>8 DEF Next, Paths

\* Whatever sequence of slots fills a table of the queue, its timer runs.
THEOREM TablesHaveTimers == Spec => []TimersRun
<1>1. Init => TimersRun
  BY DEF Init, TimersRun, AllNone, PathsIn
<1> QED BY <1>1, TypeOKInit, TypeOKNext, TimersRunNext, PTL DEF Spec

-----------------------------------------------------------------------------
(* No change is forgotten. *)

LEMMA CachedContents == \A p \in Paths : p \in cachedContents <=> Cached(p)
  BY DEF cachedContents, Cached

\* What is due is announced, and nothing else is touched.
LEMMA Announced ==
  ASSUME TypeOK, processPendingFiles, NEW p \in Paths
  PROVE  \/ /\ m_pendingFiles[p] # None /\ isDue(p)
            /\ changedAt'[p] = None /\ emittedAt'[p] = now
            /\ m_pendingFiles'[p] = None /\ m_recentlyEmitted'[p] = currentTime
         \/ /\ ~(m_pendingFiles[p] # None /\ isDue(p))
            /\ changedAt'[p] = changedAt[p] /\ emittedAt'[p] = emittedAt[p]
            /\ m_pendingFiles'[p] = m_pendingFiles[p]
            /\ m_recentlyEmitted'[p] = m_recentlyEmitted[p]
  BY DEF processPendingFiles, Announce, PathsIn, TypeOK

LEMMA NoChangeForgottenNext == TypeOK /\ NoChangeForgotten /\ [Next]_vars => NoChangeForgotten'
<1> SUFFICES ASSUME TypeOK, NoChangeForgotten, [Next]_vars,
                    NEW p \in Paths, changedAt'[p] # None
             PROVE  m_pendingFiles'[p] # None \/ Cached(p)'
  BY DEF NoChangeForgotten, Cached
<1>0. changedAt[p] # None => m_pendingFiles[p] # None \/ Cached(p)
  BY DEF NoChangeForgotten, Cached
<1>1. ASSUME NEW q \in Paths, NEW e \in Events, enqueue(q, e)
      PROVE  m_pendingFiles'[p] # None \/ Cached(p)'
  BY <1>0, <1>1, Enqueued
<1>2. ASSUME NEW q \in Paths, enqueueRemoved(q)
      PROVE  m_pendingFiles'[p] # None \/ Cached(p)'
  BY <1>0, <1>2, Removed DEF Cached
<1>3. ASSUME processCache PROVE m_pendingFiles'[p] # None
  <2>1. \A n \in MinTimeout..MaxTimeout : (currentTime + n) % Day # None
    BY TimeOfDay, ConstantsAssumption DEF currentTime, None, TypeOK
  <2>2. MinTimeout \in MinTimeout..MaxTimeout
    BY ConstantsAssumption
  <2>3. CASE p \in cachedContents
    BY <1>3, <2>1, <2>2, <2>3, CacheProcessed
  <2>4. CASE p \notin cachedContents
    BY <1>0, <1>3, <2>4, CacheProcessed, CachedContents
  <2> QED BY <2>3, <2>4
<1>4. ASSUME processPendingFiles PROVE m_pendingFiles'[p] # None \/ Cached(p)'
  <2>1. m_cache' = m_cache
    BY <1>4 DEF processPendingFiles
  <2> QED BY <1>0, <1>4, <2>1, Announced DEF Cached
<1>5. CASE clearRecentlyEmitted
  BY <1>0, <1>5 DEF clearRecentlyEmitted, record, Cached
<1>6. CASE Tick
  BY <1>0, <1>6 DEF Tick, queue, record, Cached
<1>7. ASSUME NEW q \in Paths, NEW e \in Events, Stream(q, e)
      PROVE  m_pendingFiles'[p] # None \/ Cached(p)'
  BY <1>0, <1>7, Streamed
<1>8. CASE UNCHANGED vars
  BY <1>0, <1>8 DEF vars, queue, record, Cached
<1> QED BY <1>1, <1>2, <1>3, <1>4, <1>5, <1>6, <1>7, <1>8 DEF Next, Paths

\* A change is announced, cached or due, however bursts of changes,
\* announcements and removals interleave, at midnight too.
THEOREM ChangesAreKept == Spec => []NoChangeForgotten
<1>1. Init => NoChangeForgotten
  BY DEF Init, NoChangeForgotten, AllNone
<1> QED BY <1>1, TypeOKInit, TypeOKNext, NoChangeForgottenNext, PTL DEF Spec

-----------------------------------------------------------------------------
(* Times, while the times of the day do not start again. *)

\* The hypothesis of the theorems below: no time that the queue computes reaches
\* midnight.
NoMidnight == Horizon + MaxTimeout < Day

\* A running timer was not started for longer than its longest time, and was
\* not missed.
TimersBounded ==
  /\ pendingTimer # None => pendingTimer <= now + MaxTimeout /\ now <= pendingTimer + Slack
  /\ clearTimer # None => clearTimer <= now + TrackingTime /\ now <= clearTimer + Slack

\* A change stays cached only while it is held up, and is then due, and looked at,
\* within the longest timeout.
ChangesAreTimed ==
  \A p \in Paths :
    /\ changedAt[p] <= now /\ heldAt[p] <= now
    /\ Cached(p) => changedAt[p] = None \/ LeftAlone(p) = now
    /\ changedAt[p] # None /\ ~Cached(p) =>
         /\ m_pendingFiles[p] # None /\ m_pendingFiles[p] <= LeftAlone(p) + MaxTimeout
         /\ pendingTimer # None /\ pendingTimer <= LeftAlone(p) + MaxTimeout

\* An announced file is tracked from its announcement on, and is not due
\* again before the shortest timeout.
EmissionsAreTracked ==
  \A p \in Paths : emittedAt[p] # None =>
    /\ emittedAt[p] <= now
    /\ m_recentlyEmitted[p] # None =>
         /\ m_recentlyEmitted[p] = emittedAt[p]
         /\ clearTimer # None /\ clearTimer <= emittedAt[p] + TrackingTime
    /\ m_recentlyEmitted[p] = None => now - emittedAt[p] >= TrackingTime
    /\ m_pendingFiles[p] # None => m_pendingFiles[p] >= emittedAt[p] + MinTimeout

TimedInv == TypeOK /\ TimersRun /\ TimersBounded /\ ChangesAreTimed /\ EmissionsAreTracked

\* The clock of the day shows the time that passed, and a time computed from it is
\* later by what was added.
LEMMA ClockRunsOn ==
  ASSUME NoMidnight, TypeOK
  PROVE  currentTime = now /\ \A n \in 0..MaxTimeout : (currentTime + n) % Day = now + n
<1>1. now \in Nat /\ Day \in Nat \ {0} /\ now < Day /\ MaxTimeout \in Nat
  BY ConstantsAssumption DEF NoMidnight, TypeOK
<1>2. \A k \in 0..Day - 1 : k % Day = k
  BY <1>1
<1>3. currentTime = now
  BY <1>1, <1>2 DEF currentTime
<1>4. \A n \in 0..MaxTimeout : now + n \in 0..Day - 1
  BY <1>1, ConstantsAssumption DEF NoMidnight, TypeOK
<1> QED BY <1>2, <1>3, <1>4

LEMMA TimedInvInit == Init => TimedInv
<1> SUFFICES ASSUME Init PROVE TimedInv
  OBVIOUS
<1>1. TypeOK
  BY TypeOKInit
<1>2. TimersRun /\ TimersBounded
  BY DEF Init, TimersRun, TimersBounded, AllNone, PathsIn
<1>3. ChangesAreTimed /\ EmissionsAreTracked
  BY DEF Init, ChangesAreTimed, EmissionsAreTracked, AllNone, Cached, None
<1> QED BY <1>1, <1>2, <1>3 DEF TimedInv

\* A timer of recently announced files runs no longer than the tracking time from now.
LEMMA TrackedFromNow ==
  ASSUME TypeOK, TimersBounded, TrackEmitted, now' = now
  PROVE  /\ clearTimer' # None => clearTimer' <= now + TrackingTime /\ now <= clearTimer' + Slack
         /\ clearTimer # None => clearTimer' = clearTimer
  BY TrackEmittedType, ConstantsAssumption DEF TypeOK, TimersBounded

LEMMA TimersBoundedNext ==
  ASSUME NoMidnight, TimedInv, [Next]_vars PROVE TimersBounded'
<1> USE DEF TimedInv
<1>0. {now, MinTimeout, MaxTimeout, TrackingTime, Slack} \subseteq Nat /\ MinTimeout <= MaxTimeout
  BY ConstantsAssumption DEF TypeOK
<1>1. ASSUME NEW p \in Paths, NEW e \in Events, enqueue(p, e) PROVE TimersBounded'
  BY <1>1, Enqueued DEF TimersBounded
<1>2. ASSUME NEW p \in Paths, enqueueRemoved(p) PROVE TimersBounded'
  BY <1>2 DEF enqueueRemoved, TimersBounded, timers
<1>3. ASSUME processCache PROVE TimersBounded'
  <2>1. clearTimer' # None => clearTimer' <= now + TrackingTime /\ now <= clearTimer' + Slack
    BY <1>3, TrackedFromNow DEF processCache
  <2>2. pendingTimer' # None => pendingTimer' <= now + MaxTimeout /\ now <= pendingTimer' + Slack
    <3>1. pendingTimer' \in {pendingTimer, now + MinTimeout}
      BY <1>3 DEF processCache
    <3> QED BY <1>0, <3>1 DEF TimersBounded
  <2>3. now' = now
    BY <1>3 DEF processCache
  <2> QED BY <2>1, <2>2, <2>3 DEF TimersBounded
<1>4. ASSUME processPendingFiles PROVE TimersBounded'
  <2>1. clearTimer' # None => clearTimer' <= now + TrackingTime /\ now <= clearTimer' + Slack
    BY <1>4, TrackedFromNow DEF processPendingFiles
  <2>2. pendingTimer' \in Nat \cup {None}
        /\ (pendingTimer' # None => now <= pendingTimer' /\ pendingTimer' <= now + MaxTimeout)
    BY <1>4, PendingLeft, NextPending DEF processPendingFiles
  <2>3. pendingTimer' # None => pendingTimer' <= now + MaxTimeout /\ now <= pendingTimer' + Slack
    BY <1>0, <2>2
  <2>4. now' = now
    BY <1>4 DEF processPendingFiles
  <2> QED BY <2>1, <2>3, <2>4 DEF TimersBounded
<1>5. ASSUME clearRecentlyEmitted PROVE TimersBounded'
  <2>1. /\ m_recentlyEmitted' \in [Paths -> TimesOfDay]
        /\ \A p \in PathsIn(m_recentlyEmitted') : currentTime - m_recentlyEmitted'[p] < TrackingTime
    BY <1>5, TrackedLeft DEF PathsIn
  <2>2. clearTimer' \in Nat \cup {None}
        /\ (clearTimer' # None => now <= clearTimer' /\ clearTimer' <= now + TrackingTime)
    BY <1>5, <2>1, NextClear DEF clearRecentlyEmitted
  <2>3. clearTimer' # None => clearTimer' <= now + TrackingTime /\ now <= clearTimer' + Slack
    BY <1>0, <2>2
  <2>4. now' = now /\ pendingTimer' = pendingTimer
    BY <1>5 DEF clearRecentlyEmitted
  <2> QED BY <2>3, <2>4 DEF TimersBounded
<1>6. ASSUME Tick PROVE TimersBounded'
  <2>1. now' = now + 1 /\ pendingTimer' = pendingTimer /\ clearTimer' = clearTimer
        /\ MayWait(pendingTimer) /\ MayWait(clearTimer)
    BY <1>6 DEF Tick, Later, timers
  <2> QED BY <1>0, <2>1 DEF TypeOK, TimersBounded, MayWait, None
<1>7. ASSUME NEW p \in Paths, NEW e \in Events, Stream(p, e) PROVE TimersBounded'
  <2>1. now' = now + 1 /\ pendingTimer' = pendingTimer /\ clearTimer' = clearTimer
        /\ MayWait(pendingTimer) /\ MayWait(clearTimer)
    BY <1>7, Streamed DEF Stream, Later
  <2> QED BY <1>0, <2>1 DEF TypeOK, TimersBounded, MayWait, None
<1>8. CASE UNCHANGED vars
  BY <1>8 DEF vars, TimersBounded, timers
<1> QED BY <1>1, <1>2, <1>3, <1>4, <1>5, <1>6, <1>7, <1>8 DEF Next, Paths

\* What processCache() does to a change, in times that have passed.
LEMMA PostponedFromNow ==
  ASSUME NoMidnight, TypeOK, processCache, NEW p \in cachedContents
  PROVE  \/ /\ m_pendingFiles'[p] # None
            /\ m_pendingFiles'[p] >= now + MinTimeout /\ m_pendingFiles'[p] <= now + MaxTimeout
            /\ m_recentlyEmitted'[p] = m_recentlyEmitted[p]
            /\ changedAt'[p] = changedAt[p] /\ emittedAt'[p] = emittedAt[p]
         \/ /\ m_pendingFiles[p] = None /\ m_recentlyEmitted[p] = None
            /\ m_pendingFiles'[p] = None /\ m_recentlyEmitted'[p] = now
            /\ changedAt'[p] = None /\ emittedAt'[p] = now
<1>1. MinTimeout \in Nat /\ MaxTimeout \in Nat /\ MinTimeout <= MaxTimeout /\ now \in Nat
  BY ConstantsAssumption DEF TypeOK
<1>2. \A n \in MinTimeout..MaxTimeout : (currentTime + n) % Day = now + n
  BY <1>1, ClockRunsOn
<1>3. \A n \in MinTimeout..MaxTimeout : now + n # None
  BY <1>1 DEF None
<1>4. MinTimeout \in MinTimeout..MaxTimeout
  BY <1>1
<1> DEFINE later == /\ m_recentlyEmitted'[p] = m_recentlyEmitted[p]
                    /\ changedAt'[p] = changedAt[p] /\ emittedAt'[p] = emittedAt[p]
<1>5. \/ (\E n \in MinTimeout..MaxTimeout : m_pendingFiles'[p] = now + n) /\ later
      \/ /\ m_pendingFiles[p] = None /\ m_recentlyEmitted[p] = None
         /\ m_pendingFiles'[p] = None /\ m_recentlyEmitted'[p] = currentTime
         /\ changedAt'[p] = None /\ emittedAt'[p] = now
  BY <1>2, <1>4, CacheProcessed
<1>6. currentTime = now
  BY ClockRunsOn
<1> HIDE DEF later
<1>7. (\E n \in MinTimeout..MaxTimeout : m_pendingFiles'[p] = now + n) =>
        /\ m_pendingFiles'[p] # None
        /\ m_pendingFiles'[p] >= now + MinTimeout /\ m_pendingFiles'[p] <= now + MaxTimeout
  BY <1>1, <1>3
<1> QED BY <1>5, <1>6, <1>7 DEF later

LEMMA ChangesAreTimedNext ==
  ASSUME NoMidnight, TimedInv, [Next]_vars PROVE ChangesAreTimed'
<1> USE DEF TimedInv
<1> DEFINE Timed(p) ==
      /\ changedAt[p] <= now /\ heldAt[p] <= now
      /\ Cached(p) => changedAt[p] = None \/ LeftAlone(p) = now
      /\ changedAt[p] # None /\ ~Cached(p) =>
           /\ m_pendingFiles[p] # None /\ m_pendingFiles[p] <= LeftAlone(p) + MaxTimeout
           /\ pendingTimer # None /\ pendingTimer <= LeftAlone(p) + MaxTimeout
<1> SUFFICES ASSUME NEW p \in Paths PROVE Timed(p)'
  BY DEF ChangesAreTimed
<1>0. Timed(p)
  BY DEF ChangesAreTimed
<1>t. /\ {now, MinTimeout, MaxTimeout} \subseteq Nat /\ MinTimeout <= MaxTimeout
      /\ changedAt[p] \in Nat \cup {None} /\ m_pendingFiles[p] \in Nat \cup {None}
      /\ heldAt[p] \in Nat \cup {None} /\ pendingTimer \in Nat \cup {None}
  BY ConstantsAssumption DEF TypeOK, TimesOfDay
<1>t1. /\ heldAt'[p] \in Nat \cup {None} /\ m_pendingFiles'[p] \in Nat \cup {None}
       /\ pendingTimer' \in Nat \cup {None}
  BY TypeOKNext, ConstantsAssumption DEF TypeOK, TimesOfDay
<1>1. ASSUME NEW q \in Paths, NEW e \in Events, enqueue(q, e) PROVE Timed(p)'
  <2>1. /\ now' = now /\ heldAt' = heldAt
        /\ m_pendingFiles' = m_pendingFiles /\ pendingTimer' = pendingTimer
    BY <1>1, Enqueued
  <2>2. CASE changedAt'[p] = now /\ Cached(p)'
    <3>1. heldAt[p] <= now /\ now \in Nat
      BY <1>0, <1>t
    <3>2. heldAt'[p] = heldAt[p]
      BY <2>1
    <3>3. LeftAlone(p)' = now
      BY <1>t, <2>2, <3>1, <3>2 DEF LeftAlone, None
    <3> QED BY <2>1, <2>2, <3>1, <3>2, <3>3
  <2>3. CASE changedAt'[p] = changedAt[p] /\ (Cached(p)' <=> Cached(p))
    BY <1>0, <2>1, <2>3 DEF LeftAlone
  <2> QED BY <1>1, <2>2, <2>3, Enqueued
<1>2. ASSUME NEW q \in Paths, enqueueRemoved(q) PROVE Timed(p)'
  <2>1. now' = now /\ pendingTimer' = pendingTimer /\ heldAt' = heldAt
    BY <1>2, Removed DEF timers, enqueueRemoved
  <2>2. CASE changedAt'[p] = None
    BY <1>0, <1>t, <2>1, <2>2 DEF None
  <2>3. CASE changedAt'[p] = changedAt[p] /\ m_cache'[p] = m_cache[p] /\ m_pendingFiles'[p] = m_pendingFiles[p]
    BY <1>0, <2>1, <2>3 DEF Cached, LeftAlone
  <2> QED BY <1>2, <2>2, <2>3, Removed
<1>3. ASSUME processCache PROVE Timed(p)'
  <2>1. now' = now /\ ~Cached(p)' /\ heldAt' = heldAt
    BY <1>3 DEF processCache, Announce, Cached
  <2>2. \/ pendingTimer # None /\ pendingTimer' = pendingTimer
        \/ pendingTimer = None /\ PathsIn(m_pendingFiles') # {} /\ pendingTimer' = now + MinTimeout
        \/ pendingTimer = None /\ PathsIn(m_pendingFiles') = {}
    BY <1>3 DEF processCache
  <2>3. m_pendingFiles'[p] # None => p \in PathsIn(m_pendingFiles')
    BY <1>3, CacheProcessed DEF PathsIn
  <2>4. m_pendingFiles'[p] # None => pendingTimer' # None /\ pendingTimer' <= now + MaxTimeout
    BY <1>t, <2>2, <2>3 DEF TimersBounded, None
  <2>5. CASE p \in cachedContents
    <3>1. Cached(p)
      BY <2>5, CachedContents
    <3>2. changedAt[p] = None \/ LeftAlone(p) = now
      BY <1>0, <3>1
    <3>3. \/ /\ m_pendingFiles'[p] # None /\ m_pendingFiles'[p] <= now + MaxTimeout
             /\ changedAt'[p] = changedAt[p]
          \/ changedAt'[p] = None
      BY <1>3, <2>5, PostponedFromNow
    <3>4. CASE changedAt'[p] = None
      BY <1>0, <1>t, <2>1, <3>4 DEF None
    <3>5. CASE changedAt'[p] = changedAt[p] /\ changedAt[p] # None
      <4>1. LeftAlone(p)' = now
        BY <2>1, <3>2, <3>5 DEF LeftAlone
      <4> QED BY <1>0, <1>t, <2>1, <2>4, <3>3, <3>5, <4>1
    <3> QED BY <3>3, <3>4, <3>5
  <2>6. CASE p \notin cachedContents
    <3>1. ~Cached(p) /\ m_pendingFiles'[p] = m_pendingFiles[p] /\ changedAt'[p] = changedAt[p]
      BY <1>3, <2>6, CachedContents, CacheProcessed
    <3>2. changedAt[p] # None => pendingTimer' = pendingTimer
      BY <1>0, <2>2, <3>1
    <3> QED BY <1>0, <2>1, <3>1, <3>2 DEF LeftAlone
  <2> QED BY <2>5, <2>6
<1>4. ASSUME processPendingFiles PROVE Timed(p)'
  <2>1. now' = now /\ m_cache' = m_cache /\ heldAt' = heldAt /\ pendingTimer' = nextPending
    BY <1>4 DEF processPendingFiles, Announce
  <2>2. CASE changedAt'[p] = None
    BY <1>0, <1>t, <2>1, <2>2 DEF None
  <2>3. CASE changedAt'[p] # None
    <3>1. changedAt'[p] = changedAt[p] /\ m_pendingFiles'[p] = m_pendingFiles[p]
      BY <1>4, <2>3, Announced
    <3>2. m_pendingFiles'[p] # None => pendingTimer' # None /\ pendingTimer' <= m_pendingFiles'[p]
      <4>1. ASSUME m_pendingFiles'[p] # None PROVE p \in PathsIn(m_pendingFiles')
        BY <1>4, <4>1, PendingLeft DEF PathsIn
      <4>2. currentTime = now
        BY ClockRunsOn
      <4>3. m_pendingFiles'[p] # None =>
              nextPending # None /\ nextPending <= now + (m_pendingFiles'[p] - now)
        BY <1>4, <4>1, <4>2, PendingLeft, NextPending
      <4> QED BY <1>t, <2>1, <3>1, <4>3
    <3>3. Cached(p)' <=> Cached(p)
      BY <2>1 DEF Cached
    <3>4. CASE Cached(p)
      BY <1>0, <2>1, <3>1, <3>3, <3>4 DEF LeftAlone
    <3>5. CASE ~Cached(p)
      <4>1. LeftAlone(p)' = LeftAlone(p) /\ changedAt[p] # None
        BY <2>1, <2>3, <3>1 DEF LeftAlone
      <4>2. m_pendingFiles[p] # None /\ m_pendingFiles[p] <= LeftAlone(p) + MaxTimeout
        BY <1>0, <3>5, <4>1
      <4>3. LeftAlone(p) \in Nat
        BY <1>t, <4>1 DEF LeftAlone, None
      <4>4. pendingTimer' # None /\ pendingTimer' <= LeftAlone(p) + MaxTimeout
        BY <1>t, <1>t1, <3>1, <3>2, <4>2, <4>3
      <4> QED BY <1>0, <2>1, <3>1, <3>3, <3>5, <4>1, <4>2, <4>4
    <3> QED BY <3>4, <3>5
  <2> QED BY <2>2, <2>3
<1>5. CASE clearRecentlyEmitted
  BY <1>0, <1>5 DEF clearRecentlyEmitted, record, Cached, LeftAlone
<1>6. ASSUME Tick PROVE Timed(p)'
  <2>1. /\ m_cache' = m_cache /\ m_pendingFiles' = m_pendingFiles /\ pendingTimer' = pendingTimer
        /\ changedAt' = changedAt /\ heldAt' = heldAt /\ now' = now + 1 /\ ~cacheTimer
    BY <1>6 DEF Tick, Later, queue, timers, record
  <2>2. ~Cached(p) /\ ~Cached(p)'
    BY <2>1 DEF TimersRun, Cached
  <2> QED BY <1>0, <1>t, <2>1, <2>2 DEF LeftAlone, None
<1>7. ASSUME NEW q \in Paths, NEW e \in Events, Stream(q, e) PROVE Timed(p)'
  <2>1. now' = now + 1 /\ m_pendingFiles' = m_pendingFiles /\ pendingTimer' = pendingTimer
    BY <1>7, Streamed
  <2>2. CASE Cached(p)' /\ heldAt'[p] = now' /\ changedAt'[p] \in {changedAt[p], now'}
    BY <1>0, <1>t, <2>1, <2>2 DEF LeftAlone, None
  <2>3. CASE ~Cached(p) /\ ~Cached(p)' /\ heldAt'[p] = heldAt[p] /\ changedAt'[p] = changedAt[p]
    BY <1>0, <1>t, <2>1, <2>3 DEF LeftAlone, None
  <2> QED BY <1>7, <2>2, <2>3, Streamed
<1>8. CASE UNCHANGED vars
  BY <1>0, <1>8 DEF vars, queue, timers, record, Cached, LeftAlone
<1> QED BY <1>1, <1>2, <1>3, <1>4, <1>5, <1>6, <1>7, <1>8 DEF Next, Paths

LEMMA EmissionsAreTrackedNext ==
  ASSUME NoMidnight, TimedInv, [Next]_vars PROVE EmissionsAreTracked'
<1> USE DEF TimedInv
<1> DEFINE Tracked(p) ==
      emittedAt[p] # None =>
        /\ emittedAt[p] <= now
        /\ m_recentlyEmitted[p] # None =>
             /\ m_recentlyEmitted[p] = emittedAt[p]
             /\ clearTimer # None /\ clearTimer <= emittedAt[p] + TrackingTime
        /\ m_recentlyEmitted[p] = None => now - emittedAt[p] >= TrackingTime
        /\ m_pendingFiles[p] # None => m_pendingFiles[p] >= emittedAt[p] + MinTimeout
<1> SUFFICES ASSUME NEW p \in Paths PROVE Tracked(p)'
  BY DEF EmissionsAreTracked
<1>0. Tracked(p)
  BY DEF EmissionsAreTracked
<1>t. /\ {now, MinTimeout, MaxTimeout, TrackingTime} \subseteq Nat
      /\ emittedAt[p] \in Nat \cup {None} /\ m_pendingFiles[p] \in Nat \cup {None}
      /\ m_recentlyEmitted[p] \in Nat \cup {None} /\ clearTimer \in Nat \cup {None}
  BY ConstantsAssumption DEF TypeOK, TimesOfDay
<1>c. currentTime = now
  BY ClockRunsOn
<1>1. ASSUME NEW q \in Paths, NEW e \in Events, enqueue(q, e) PROVE Tracked(p)'
  BY <1>0, <1>1, Enqueued
<1>2. ASSUME NEW q \in Paths, enqueueRemoved(q) PROVE Tracked(p)'
  <2>1. now' = now /\ clearTimer' = clearTimer
    BY <1>2, Removed DEF timers
  <2>2. CASE emittedAt'[p] = None
    BY <2>2
  <2>3. CASE /\ emittedAt'[p] = emittedAt[p] /\ m_pendingFiles'[p] = m_pendingFiles[p]
             /\ m_recentlyEmitted'[p] = m_recentlyEmitted[p]
    BY <1>0, <2>1, <2>3
  <2> QED BY <1>2, <2>2, <2>3, Removed
<1>3. ASSUME TrackEmitted, now' = now, m_recentlyEmitted'[p] = now, emittedAt'[p] = now,
             m_recentlyEmitted' \in [Paths -> TimesOfDay],
             m_pendingFiles'[p] # None => m_pendingFiles'[p] >= now + MinTimeout
      PROVE  Tracked(p)'
  \* announced
  <2>1. p \in PathsIn(m_recentlyEmitted')
    BY <1>3, <1>t DEF PathsIn, None
  <2>2. clearTimer' # None
    BY <1>3, <2>1, TrackEmittedType
  <2>3. clearTimer' <= now + TrackingTime
    BY <1>3, <2>2, TrackedFromNow
  <2> QED BY <1>3, <1>t, <2>2, <2>3
<1>4. ASSUME TrackEmitted, now' = now, m_recentlyEmitted'[p] = m_recentlyEmitted[p],
             emittedAt'[p] = emittedAt[p],
             m_pendingFiles'[p] \in {None, m_pendingFiles[p]} \/ m_pendingFiles'[p] >= now + MinTimeout
      PROVE  Tracked(p)'
  \* tracked on
  <2>1. clearTimer # None => clearTimer' = clearTimer
    BY <1>4, TrackedFromNow
  <2>2. m_pendingFiles'[p] \in Nat \cup {None}
    BY TypeOKNext DEF TypeOK, TimesOfDay
  <2> SUFFICES ASSUME emittedAt[p] # None PROVE Tracked(p)'
    BY <1>4
  <2>3. m_pendingFiles'[p] # None => m_pendingFiles'[p] >= emittedAt[p] + MinTimeout
    BY <1>0, <1>4, <1>t, <2>2
  <2> QED BY <1>0, <1>4, <1>t, <2>1, <2>3
<1>5. ASSUME processCache PROVE Tracked(p)'
  <2>1. now' = now /\ TrackEmitted /\ m_recentlyEmitted' \in [Paths -> TimesOfDay]
    BY <1>5, CacheProcessed DEF processCache
  <2>2. CASE p \notin cachedContents
    <3>1. /\ m_recentlyEmitted'[p] = m_recentlyEmitted[p] /\ emittedAt'[p] = emittedAt[p]
          /\ m_pendingFiles'[p] = m_pendingFiles[p]
      BY <1>5, <2>2, CacheProcessed
    <3> QED BY <1>4, <2>1, <3>1
  <2>3. CASE p \in cachedContents
    <3>1. CASE /\ m_pendingFiles'[p] >= now + MinTimeout
               /\ m_recentlyEmitted'[p] = m_recentlyEmitted[p] /\ emittedAt'[p] = emittedAt[p]
      BY <1>4, <2>1, <3>1
    <3>2. CASE m_pendingFiles'[p] = None /\ m_recentlyEmitted'[p] = now /\ emittedAt'[p] = now
      BY <1>3, <2>1, <3>2
    <3> QED BY <1>5, <2>3, <3>1, <3>2, PostponedFromNow
  <2> QED BY <2>2, <2>3
<1>6. ASSUME processPendingFiles PROVE Tracked(p)'
  <2>1. now' = now /\ TrackEmitted /\ m_recentlyEmitted' \in [Paths -> TimesOfDay]
    BY <1>6, TypeOKNext DEF processPendingFiles, TypeOK
  <2>2. CASE m_pendingFiles'[p] = None /\ m_recentlyEmitted'[p] = now /\ emittedAt'[p] = now
    BY <1>3, <2>1, <2>2
  <2>3. CASE /\ m_recentlyEmitted'[p] = m_recentlyEmitted[p] /\ emittedAt'[p] = emittedAt[p]
             /\ m_pendingFiles'[p] = m_pendingFiles[p]
    BY <1>4, <2>1, <2>3
  <2> QED BY <1>6, <1>c, <2>2, <2>3, Announced
<1>7. ASSUME clearRecentlyEmitted PROVE Tracked(p)'
  <2>1. /\ now' = now /\ m_pendingFiles' = m_pendingFiles /\ emittedAt' = emittedAt
        /\ clearTimer' = nextClear
    BY <1>7 DEF clearRecentlyEmitted, record
  <2>2. /\ m_recentlyEmitted' \in [Paths -> TimesOfDay]
        /\ \A q \in PathsIn(m_recentlyEmitted') : now - m_recentlyEmitted'[q] < TrackingTime
    BY <1>7, <1>c, TrackedLeft DEF PathsIn
  <2>3. CASE m_recentlyEmitted'[p] = None /\ m_recentlyEmitted[p] # None
             /\ now - m_recentlyEmitted[p] >= TrackingTime
    BY <1>0, <2>1, <2>3
  <2>4. CASE m_recentlyEmitted'[p] = m_recentlyEmitted[p]
    <3>1. CASE m_recentlyEmitted[p] = None
      BY <1>0, <2>1, <2>4, <3>1
    <3>2. CASE m_recentlyEmitted[p] # None
      <4>1. p \in PathsIn(m_recentlyEmitted')
        BY <2>2, <2>4, <3>2 DEF PathsIn
      <4>2. /\ clearTimer' # None
            /\ clearTimer' <= now + TrackingTime - (now - m_recentlyEmitted[p])
        BY <1>c, <2>1, <2>2, <2>4, <4>1, NextClear
      <4>3. clearTimer' \in Nat \cup {None}
        BY TypeOKNext DEF TypeOK
      <4> QED BY <1>0, <1>t, <2>1, <2>4, <3>2, <4>2, <4>3
    <3> QED BY <3>1, <3>2
  <2> QED BY <1>7, <1>c, <2>3, <2>4, TrackedLeft
<1>8. ASSUME Tick PROVE Tracked(p)'
  <2>1. /\ now' = now + 1 /\ m_pendingFiles' = m_pendingFiles /\ emittedAt' = emittedAt
        /\ m_recentlyEmitted' = m_recentlyEmitted /\ clearTimer' = clearTimer
    BY <1>8 DEF Tick, Later, queue, timers, record
  <2> QED BY <1>0, <1>t, <2>1
<1>9. ASSUME NEW q \in Paths, NEW e \in Events, Stream(q, e) PROVE Tracked(p)'
  <2>1. /\ now' = now + 1 /\ m_pendingFiles' = m_pendingFiles /\ emittedAt' = emittedAt
        /\ m_recentlyEmitted' = m_recentlyEmitted /\ clearTimer' = clearTimer
    BY <1>9, Streamed
  <2> QED BY <1>0, <1>t, <2>1
<1>10. CASE UNCHANGED vars
  BY <1>0, <1>10 DEF vars, queue, timers, record
<1> QED BY <1>1, <1>2, <1>5, <1>6, <1>7, <1>8, <1>9, <1>10 DEF Next, Paths

\* The inductive invariant: every time that is kept is bounded by the time since when
\* a changed path was left alone, or of the announcement it was computed from.
THEOREM TimedInvariant ==
  ASSUME NoMidnight PROVE Spec => []TimedInv
<1>1. TimedInv /\ [Next]_vars => TimedInv'
  BY TypeOKNext, TimersRunNext, TimersBoundedNext, ChangesAreTimedNext, EmissionsAreTrackedNext
  DEF TimedInv
<1> QED BY <1>1, TimedInvInit, PTL DEF Spec

\* A file left alone, and no longer held up by a stream of events, is announced within
\* the longest timeout and the inaccuracy of a timer, whatever else the queue is doing.
THEOREM AnnouncedInTime ==
  ASSUME NoMidnight PROVE Spec => []QuietFileAnnounced
<1>1. TimedInv => QuietFileAnnounced
  <2> SUFFICES ASSUME TimedInv, NEW p \in Paths, changedAt[p] # None
               PROVE  now <= LeftAlone(p) + MaxTimeout + Slack
    BY DEF QuietFileAnnounced
  <2>1. /\ {now, MaxTimeout, Slack} \subseteq Nat /\ pendingTimer \in Nat \cup {None}
        /\ changedAt[p] \in Nat /\ heldAt[p] \in Nat \cup {None}
    BY ConstantsAssumption DEF TimedInv, TypeOK
  <2>2. LeftAlone(p) \in Nat
    BY <2>1 DEF LeftAlone, None
  <2>3. CASE Cached(p)
    BY <2>1, <2>3 DEF TimedInv, ChangesAreTimed
  <2>4. CASE ~Cached(p)
    <3>1. pendingTimer # None /\ pendingTimer <= LeftAlone(p) + MaxTimeout
      BY <2>4 DEF TimedInv, ChangesAreTimed
    <3>2. now <= pendingTimer + Slack
      BY <3>1 DEF TimedInv, TimersBounded
    <3> QED BY <2>1, <2>2, <3>1, <3>2
  <2> QED BY <2>3, <2>4
<1> QED BY <1>1, TimedInvariant, PTL

\* A file is tracked no longer than the tracking time after its last announcement.
THEOREM TrackedNoLonger ==
  ASSUME NoMidnight PROVE Spec => []TrackingEnds
<1>1. TimedInv => TrackingEnds
  <2> SUFFICES ASSUME TimedInv, NEW p \in Paths, m_recentlyEmitted[p] # None, emittedAt[p] # None
               PROVE  now <= emittedAt[p] + TrackingTime + Slack
    BY DEF TrackingEnds
  <2>1. /\ {now, TrackingTime, Slack} \subseteq Nat /\ emittedAt[p] \in Nat
        /\ clearTimer \in Nat \cup {None}
    BY ConstantsAssumption DEF TimedInv, TypeOK
  <2>2. clearTimer # None /\ clearTimer <= emittedAt[p] + TrackingTime
    BY DEF TimedInv, EmissionsAreTracked
  <2>3. now <= clearTimer + Slack
    BY <2>2 DEF TimedInv, TimersBounded
  <2> QED BY <2>1, <2>2, <2>3
<1> QED BY <1>1, TimedInvariant, PTL

\* A file that keeps changing is not announced twice within the shortest timeout,
\* unless it was removed in between.
THEOREM AnnouncedSeldom ==
  ASSUME NoMidnight PROVE Spec => NotTooOften
<1> DEFINE Seldom(p) ==
      {<<"indexNewFile", p>>, <<"indexModifiedFile", p>>} \cap signals' # {} /\ emittedAt[p] # None
        => now - emittedAt[p] >= MinTimeout
<1>1. ASSUME TimedInv, [Next]_vars, NEW p \in Paths
      PROVE  Seldom(p) \/ UNCHANGED vars
  <2>1. /\ {now, MinTimeout, TrackingTime} \subseteq Nat /\ MinTimeout <= TrackingTime
        /\ emittedAt[p] \in Nat \cup {None} /\ m_pendingFiles[p] \in Nat \cup {None}
    BY <1>1, ConstantsAssumption DEF TimedInv, TypeOK, TimesOfDay
  <2>2. ASSUME {<<"indexNewFile", p>>, <<"indexModifiedFile", p>>} \cap signals' = {}
        PROVE  Seldom(p)
    BY <2>2
  <2>3. ASSUME NEW q \in Paths, NEW e \in Events, enqueue(q, e) PROVE Seldom(p)
    BY <1>1, <2>2, <2>3, Enqueued DEF TimedInv
  <2>4. ASSUME NEW q \in Paths, enqueueRemoved(q) PROVE Seldom(p)
    BY <2>2, <2>4 DEF enqueueRemoved
  <2>5. ASSUME processCache, {<<"indexNewFile", p>>, <<"indexModifiedFile", p>>} \cap signals' # {}
        PROVE  emittedAt[p] # None => now - emittedAt[p] >= MinTimeout
    <3>1. p \in cachedContents /\ p \notin PathsIn(m_pendingFiles) /\ p \notin PathsIn(m_recentlyEmitted)
      BY <2>5 DEF processCache
    <3>2. m_recentlyEmitted[p] = None
      BY <1>1, <3>1 DEF PathsIn, TimedInv, TypeOK
    <3> QED BY <1>1, <2>1, <3>2 DEF TimedInv, EmissionsAreTracked
  <2>6. ASSUME processPendingFiles, {<<"indexNewFile", p>>, <<"indexModifiedFile", p>>} \cap signals' # {}
        PROVE  emittedAt[p] # None => now - emittedAt[p] >= MinTimeout
    <3>1. m_pendingFiles[p] # None /\ isDue(p)
      BY <2>6 DEF processPendingFiles, PathsIn
    <3>2. m_pendingFiles[p] <= now
      BY <1>1, <2>1, <3>1, ClockRunsOn DEF isDue, msecsTo, TimedInv, None
    <3> QED BY <1>1, <2>1, <3>1, <3>2 DEF TimedInv, EmissionsAreTracked
  <2>7. CASE clearRecentlyEmitted
    BY <2>2, <2>7 DEF clearRecentlyEmitted
  <2>8. CASE Tick
    BY <2>2, <2>8 DEF Tick
  <2>9. ASSUME NEW q \in Paths, NEW e \in Events, Stream(q, e) PROVE Seldom(p)
    BY <1>1, <2>2, <2>9, Streamed DEF TimedInv
  <2> QED BY <1>1, <2>3, <2>4, <2>5, <2>6, <2>7, <2>8, <2>9 DEF Next, Paths
<1>2. TimedInv /\ [Next]_vars => [\A p \in Paths : Seldom(p)]_vars
  BY <1>1
<1> QED BY <1>2, TimedInvariant, PTL DEF Spec, NotTooOften
=============================================================================
