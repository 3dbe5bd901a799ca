------------------------------- MODULE IndexSpeed -------------------------------
(***************************************************************************)
(* How fast contents are extracted: the idle monitor (baloo_idle_          *)
(* monitor.cpp) sees that nobody uses the session, FileContentIndexer      *)
(* hears of it over D-Bus in the main thread, and the extractor is told by *)
(* the thread of the pool, where a change waits for the event loop of a    *)
(* batch (filecontentindexer.cpp, extractorprocess.cpp, extractor/app.cpp).*)
(***************************************************************************)
EXTENDS Naturals, Sequences

CONSTANTS
  MaxMessages,   \* bound: messages on their way to the daemon
  MaxChanges,    \* bound: times that the session gets idle or is used again
  MaxMonitors    \* bound: starts of the monitor

VARIABLES
  monitor, isIdle,      \* is there an idle monitor; its m_isIdle
  bus,                  \* messages to the daemon
  requests,             \* calls of fetchIdleState() that are not answered
  sessionIdle,          \* m_sessionIdle
  emits,                \* indexSpeedChanged() that is about to be sent
  thread,               \* of the pool: "none", "between" batches, in a "batch"
  queued,               \* indexSpeedChanged() that waits for the loop of a batch
  fast,                 \* the extractor does not pause
  untold,               \* ghost: the monitor ended, and the extractor is not told
  unheard,              \* ghost: the session was idle before the daemon started
  changes, monitors

session == <<monitor, isIdle, changes, monitors>>
indexer == <<sessionIdle, emits>>
pool    == <<thread, queued, fast>>
ghosts  == <<untold, unheard>>
vars    == <<session, bus, requests, indexer, pool, ghosts>>

Send(type, idle) == bus' = Append(bus, [type |-> type, idle |-> idle])

-----------------------------------------------------------------------------
(* The idle monitor. *)

start ==
  /\ ~monitor /\ monitors < MaxMonitors /\ Len(bus) < MaxMessages
  /\ monitor' = TRUE /\ isIdle' = FALSE /\ monitors' = monitors + 1 /\ Send("registered", FALSE)
  /\ UNCHANGED <<requests, indexer, pool, ghosts, changes>>

\* timeoutReached, resumingFromIdle
change ==
  /\ monitor /\ changes < MaxChanges /\ Len(bus) < MaxMessages
  /\ changes' = changes + 1 /\ isIdle' = ~isIdle /\ Send("changed", isIdle') /\ unheard' = FALSE
  /\ UNCHANGED <<monitor, monitors, requests, indexer, pool, untold>>

\* To fetchIdleState(), always an error: it asks for an interface of another name than
\* the monitor's, and takes no variant, which the reply of Get is. The daemon ignores it.
answer ==
  /\ requests > 0 /\ requests' = requests - 1
  /\ UNCHANGED <<session, bus, indexer, pool, ghosts>>

end ==
  /\ monitor /\ Len(bus) < MaxMessages
  /\ monitor' = FALSE /\ requests' = 0 /\ Send("unregistered", FALSE) /\ unheard' = FALSE
  /\ UNCHANGED <<isIdle, changes, monitors, indexer, pool, untold>>

-----------------------------------------------------------------------------
(* FileContentIndexer, main thread. *)

Receive(types) == bus # <<>> /\ emits = <<>> /\ Head(bus).type \in types /\ bus' = Tail(bus)

serviceRegistered ==
  /\ Receive({"registered"}) /\ requests' = requests + 1
  /\ UNCHANGED <<session, indexer, pool, ghosts>>

\* Mutant: what the last monitor has said stays.
serviceUnregistered_Stays == Receive({"unregistered"}) /\ UNCHANGED <<session, requests, indexer, pool, ghosts>>

serviceUnregistered ==
  /\ Receive({"unregistered"}) /\ sessionIdle' = FALSE
  /\ untold' = (untold \/ (sessionIdle /\ thread # "none"))
  /\ UNCHANGED <<session, requests, emits, pool, unheard>>

\* sessionIdle() of PropertiesChanged
setSessionIdle ==
  /\ Receive({"changed"})
  /\ sessionIdle' = Head(bus).idle
  /\ emits' = IF sessionIdle' # sessionIdle THEN <<sessionIdle'>> ELSE <<>>
  /\ UNCHANGED <<session, requests, pool, ghosts>>

\* The process object lives in the thread of the pool.
indexSpeedChanged ==
  /\ emits # <<>> /\ emits' = <<>>
  /\ queued' = IF thread = "none" THEN <<>> ELSE queued \o emits
  /\ UNCHANGED <<session, bus, requests, sessionIdle, thread, fast, ghosts>>

-----------------------------------------------------------------------------
(* run(), in the thread of the pool. *)

run ==
  /\ thread = "none" /\ thread' = "between" /\ fast' = FALSE
  /\ UNCHANGED <<session, bus, requests, indexer, queued, ghosts>>

\* Mutant: an extractor is told of changes only.
index_UntilChange ==
  /\ thread = "between" /\ thread' = "batch"
  /\ UNCHANGED <<session, bus, requests, indexer, queued, fast, ghosts>>

index ==
  /\ thread = "between" /\ thread' = "batch" /\ fast' = sessionIdle
  /\ untold' = (untold /\ queued # <<>>)
  /\ UNCHANGED <<session, bus, requests, indexer, queued, unheard>>

deliver ==
  /\ thread = "batch" /\ queued # <<>>
  /\ fast' = Head(queued) /\ queued' = Tail(queued)
  /\ UNCHANGED <<session, bus, requests, indexer, thread, ghosts>>

\* done or failed: a new extractor begins slowly.
batchEnds ==
  /\ thread = "batch" /\ thread' = "between" /\ fast' \in {fast, FALSE}
  /\ UNCHANGED <<session, bus, requests, indexer, queued, ghosts>>

runEnds ==
  /\ thread = "between" /\ thread' = "none" /\ queued' = <<>> /\ fast' = FALSE /\ untold' = FALSE
  /\ UNCHANGED <<session, bus, requests, indexer, unheard>>

\* The daemon may start after the monitor; it asks at once, in vain.
Init ==
  /\ monitor \in BOOLEAN /\ isIdle \in {FALSE, monitor} /\ bus = <<>> /\ requests = 1 /\ sessionIdle = FALSE /\ emits = <<>>
  /\ thread = "none" /\ queued = <<>> /\ fast = FALSE /\ untold = FALSE /\ unheard = isIdle /\ changes = 0 /\ monitors = 0

Next == \/ start \/ change \/ answer \/ end
        \/ serviceRegistered \/ serviceUnregistered \/ setSessionIdle \/ indexSpeedChanged
        \/ run \/ index \/ deliver \/ batchEnds \/ runEnds

Spec == Init /\ [][Next]_vars

-----------------------------------------------------------------------------

\* When nothing is under way, the extractor of a batch is as fast as the session
\* is idle, as the monitor sees it: whatever the order of signals and batches, the
\* last word wins. Without a monitor nobody is taken for idle. Two gaps are named: a
\* daemon that starts in an idle session takes it for used until it is used and idle
\* again (unheard), as no answer to fetchIdleState() reaches it; and the end of a
\* monitor is not told to the extractor of the present batch (untold).
SpeedFollowsSession ==
  bus = <<>> /\ emits = <<>> =>
    /\ sessionIdle = (monitor /\ isIdle /\ ~unheard)
    /\ thread = "batch" /\ queued = <<>> /\ ~untold => fast = sessionIdle
=============================================================================
