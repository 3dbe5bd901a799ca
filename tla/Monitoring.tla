------------------------------- MODULE Monitoring -------------------------------
(***************************************************************************)
(* Who looks on while contents are indexed: the monitor of QML             *)
(* (qml/experimental/monitor.cpp) and "balooctl monitor"                   *)
(* (monitorcommand.cpp) register with FileContentIndexer, ask for what     *)
(* they missed, and follow its signals and those of the scheduler.         *)
(*                                                                         *)
(* Signals go to every client, once anyone is registered. What one process *)
(* sends to another arrives in order; the thread of the pool hands files   *)
(* to the main thread in a queue. Files are numbered as they are indexed.  *)
(***************************************************************************)
EXTENDS Naturals, Sequences, FiniteSets

CONSTANTS
  Clients, QmlMonitors,   \* of which those are of QML; the others are balooctl
  MaxFiles,      \* bound: files
  MaxStates,     \* bound: changes of the scheduler's state
  MaxStarts,     \* bound: starts of the daemon, and of each client
  MaxMessages    \* bound: messages on their way to a client

VARIABLES
  daemon, state,        \* does it run; m_indexerState of the scheduler
  extracting, toMain,   \* in the pool: the file; what is queued for the main thread
  currentFile,          \* m_currentFile of FileContentIndexer
  registered,           \* m_registeredMonitors
  calls, inbox,         \* of each client: calls to the daemon, messages from the bus
  client,               \* m_indexerState, m_currentFile or m_filePath, and what it says of a file
  doubts,               \* why a client may be wrong
  files, states, starts

process == <<daemon, state, extracting, toMain, currentFile, registered>>
bounds  == <<files, states, starts>>
vars    == <<process, calls, inbox, client, doubts, bounds>>

None == 0
ContentIndexing == 1
Unknown == 99
Gone == [running |-> FALSE, state |-> Unknown, file |-> None, said |-> <<>>]

\* What happens to the daemon must leave room in the inbox of every client.
Room == \A c \in Clients : Len(inbox[c]) < MaxMessages
Message(type, value) == [type |-> type, value |-> value]
Broadcast(type, value) ==
  inbox' = [c \in Clients |-> IF client[c].running THEN Append(inbox[c], Message(type, value)) ELSE inbox[c]]

-----------------------------------------------------------------------------
(* The daemon. *)

\* FileIndexScheduler tells its first state as soon as it is there.
startDaemon ==
  /\ ~daemon /\ starts.daemon < MaxStarts.daemon /\ Room
  /\ daemon' = TRUE /\ state' = 0 /\ starts' = [starts EXCEPT !.daemon = @ + 1]
  /\ inbox' = [c \in Clients |-> IF client[c].running
                                 THEN inbox[c] \o <<Message("registered", None), Message("stateChanged", 0)>> ELSE inbox[c]]
  /\ UNCHANGED <<extracting, toMain, currentFile, registered, calls, client, doubts, files, states>>

\* quit, or a crash; calls are answered with an error
stopDaemon ==
  /\ daemon /\ Room
  /\ daemon' = FALSE /\ state' = 0 /\ extracting' = None /\ toMain' = <<>> /\ currentFile' = None
  /\ registered' = {} /\ calls' = [c \in Clients |-> <<>>]
  /\ Broadcast("unregistered", None)
  /\ doubts' = [c \in Clients |-> IF client[c].running THEN doubts[c] \cup {"restarted"} ELSE doubts[c]]
  /\ UNCHANGED <<client, bounds>>

setState ==
  /\ daemon /\ states < MaxStates /\ Room
  /\ states' = states + 1 /\ state' = states' /\ Broadcast("stateChanged", state')
  /\ UNCHANGED <<daemon, extracting, toMain, currentFile, registered, calls, client, doubts, files, starts>>

\* The extractor begins with a file, and is done with it.
beginFile ==
  /\ daemon /\ extracting = None /\ files < MaxFiles /\ files' = files + 1 /\ extracting' = files'
  /\ toMain' = Append(toMain, Message("started", files'))
  /\ UNCHANGED <<daemon, state, currentFile, registered, calls, inbox, client, doubts, states, starts>>

endFile ==
  /\ extracting # None /\ extracting' = None /\ toMain' = Append(toMain, Message("finished", extracting))
  /\ UNCHANGED <<daemon, state, currentFile, registered, calls, inbox, client, doubts, bounds>>

\* It crashes: nobody is told that the file is not being indexed any more.
crashExtractor ==
  /\ extracting # None /\ extracting' = None
  /\ doubts' = [c \in Clients |-> doubts[c] \cup {"crashed"}]
  /\ UNCHANGED <<daemon, state, toMain, currentFile, registered, calls, inbox, client, bounds>>

\* Mutant: a file that is finished stays the one that is indexed.
announce_KeepsFile ==
  /\ toMain # <<>> /\ Room /\ toMain' = Tail(toMain)
  /\ currentFile' = Head(toMain).value
  /\ IF registered # {} THEN Broadcast(Head(toMain).type, Head(toMain).value) ELSE UNCHANGED inbox
  /\ UNCHANGED <<daemon, state, extracting, registered, calls, client, doubts, bounds>>

\* startedIndexingFile and finishedIndexingFile of the process, in the main thread
announce ==
  /\ toMain # <<>> /\ Room /\ toMain' = Tail(toMain)
  /\ currentFile' = IF Head(toMain).type = "started" THEN Head(toMain).value ELSE None
  /\ IF registered # {} THEN Broadcast(Head(toMain).type, Head(toMain).value) ELSE UNCHANGED inbox
  /\ UNCHANGED <<daemon, state, extracting, registered, calls, client, doubts, bounds>>

\* registerMonitor(), and the properties that are asked for
serve(c) ==
  /\ daemon /\ calls[c] # <<>> /\ Len(inbox[c]) < MaxMessages
  /\ calls' = [calls EXCEPT ![c] = Tail(@)]
  /\ registered' = IF Head(calls[c]) = "register" THEN registered \cup {c}
                   ELSE IF Head(calls[c]) = "unregister" THEN registered \ {c} ELSE registered
  /\ inbox' = [inbox EXCEPT ![c] = @ \o (CASE Head(calls[c]) = "state" -> <<Message("state", state)>>
                                           [] Head(calls[c]) = "currentFile" -> <<Message("currentFile", currentFile)>>
                                           [] OTHER -> <<>>)]
  /\ UNCHANGED <<daemon, state, extracting, toMain, currentFile, client, doubts, bounds>>

-----------------------------------------------------------------------------
(* Clients. *)

\* Without a daemon a call fails.
Call(c, names) == calls' = IF daemon THEN [calls EXCEPT ![c] = @ \o names] ELSE calls

\* The state is asked for at once by balooctl, and later by QML.
startClient(c) ==
  /\ ~client[c].running /\ starts[c] < MaxStarts[c]
  /\ starts' = [starts EXCEPT ![c] = @ + 1]
  /\ client' = [client EXCEPT ![c].running = TRUE, ![c].state = IF daemon /\ c \notin QmlMonitors THEN state ELSE Unknown]
  /\ Call(c, <<"register", IF c \in QmlMonitors THEN "state" ELSE "currentFile">>)
  /\ UNCHANGED <<process, inbox, doubts, files, states>>

\* serviceUnregistered of m_monitorWatcher
stopClient(c) ==
  /\ client[c].running /\ client' = [client EXCEPT ![c] = Gone]
  /\ registered' = registered \ {c} /\ calls' = [calls EXCEPT ![c] = <<>>] /\ inbox' = [inbox EXCEPT ![c] = <<>>]
  /\ doubts' = [b \in Clients |-> IF b = c THEN doubts[c] \cap {"crashed"}
                                ELSE IF registered = {c} /\ client[b].running THEN doubts[b] \cup {"alone"}
                                ELSE doubts[b]]
  /\ UNCHANGED <<daemon, state, extracting, toMain, currentFile, bounds>>

\* The QML monitor: a file is shown until the next, or another state. (It counts
\* files by finishedIndexingFile, which nobody sends: finishedIndexingFile1 has
\* taken its place. Its numbers are those of the last change of state.)
qml(c, m) ==
  CASE m.type = "unregistered" -> [client[c] EXCEPT !.state = Unknown]
    [] m.type \in {"state", "stateChanged"} ->
         IF m.value # client[c].state THEN [client[c] EXCEPT !.state = m.value, !.file = IF m.value = ContentIndexing THEN @ ELSE None]
         ELSE client[c]
    [] m.type = "started" -> [client[c] EXCEPT !.file = m.value]
    [] OTHER -> client[c]

\* balooctl: a line begins with the file that is started, or finished if none was.
balooctl(c, m) ==
  CASE m.type = "stateChanged" -> [client[c] EXCEPT !.state = m.value]
    [] m.type = "started" \/ (m.type = "currentFile" /\ m.value # None /\ client[c].file = None) ->
         [client[c] EXCEPT !.file = m.value]
    [] m.type = "finished" ->
         [client[c] EXCEPT !.file = None, !.said = <<IF client[c].file = None THEN m.value ELSE client[c].file, m.value>>]
    [] OTHER -> client[c]

\* Mutant: QML registers when it starts only.
Asked_Once(c, m) == IF m.type = "registered" /\ c \in QmlMonitors THEN <<"state">>
                    ELSE IF m.type = "registered" THEN <<"register">> ELSE <<>>

Asked(c, m) == CASE m.type = "registered"   -> IF c \in QmlMonitors THEN <<"register", "state">> ELSE <<"register">>
                 [] m.type = "unregistered" -> IF c \in QmlMonitors THEN <<>> ELSE <<"unregister">>
                 [] OTHER -> <<>>

receive(c) ==
  /\ inbox[c] # <<>> /\ inbox' = [inbox EXCEPT ![c] = Tail(@)]
  /\ client' = [client EXCEPT ![c] = IF c \in QmlMonitors THEN qml(c, Head(inbox[c])) ELSE balooctl(c, Head(inbox[c]))]
  /\ Call(c, Asked(c, Head(inbox[c])))
  /\ UNCHANGED <<process, doubts, bounds>>

Init ==
  /\ daemon = FALSE /\ state = 0 /\ extracting = None /\ toMain = <<>> /\ currentFile = None /\ registered = {}
  /\ calls = [c \in Clients |-> <<>>] /\ inbox = [c \in Clients |-> <<>>] /\ client = [c \in Clients |-> Gone]
  /\ doubts = [c \in Clients |-> {}] /\ files = 0 /\ states = 0
  /\ starts = [c \in Clients \cup {"daemon"} |-> 0]

Next == \/ startDaemon \/ stopDaemon \/ setState \/ beginFile \/ endFile \/ crashExtractor \/ announce
        \/ \E c \in Clients : serve(c) \/ startClient(c) \/ stopClient(c) \/ receive(c)

Spec == Init /\ [][Next]_vars

-----------------------------------------------------------------------------

Heard(c) == client[c].running /\ calls[c] = <<>> /\ inbox[c] = <<>>

\* Once a client has heard all, it is registered with the daemon that runs and
\* shows the state of the scheduler, QML none without a daemon, in whatever order
\* they started. Who is gone is not registered.
StateIsShown ==
  \A c \in Clients :
    /\ Heard(c) /\ daemon => c \in registered /\ client[c].state = state
    /\ Heard(c) /\ ~daemon /\ c \in QmlMonitors => client[c].state = Unknown
    /\ ~client[c].running => c \notin registered

\* balooctl tells the result of a file in the line of this file, from whatever
\* moment it looks on: the answer of what is indexed now and the signals of what
\* is started come in the order they were sent. After a restart of the daemon the
\* file of the old one may still stand there, and whoever is not registered yet
\* hears only as long as another one is.
LinesAreOfOneFile ==
  \A c \in Clients \ QmlMonitors : client[c].said # <<>> /\ doubts[c] = {} => client[c].said[1] = client[c].said[2]

\* When it has heard all, it shows the file that is indexed, and no other.
FileIsShown ==
  \A c \in Clients \ QmlMonitors :
    Heard(c) /\ daemon /\ toMain = <<>> /\ doubts[c] = {} => client[c].file \in {extracting, None}
=============================================================================
