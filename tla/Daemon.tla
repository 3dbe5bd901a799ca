------------------------------- MODULE Daemon -------------------------------
(***************************************************************************)
(* The life of baloo_file (main.cpp, migrator.cpp, Database::open()) and   *)
(* the commands that start and stop it: balooctl enable, disable and purge.*)
(* balooctl monitor is one of the many that call it by D-Bus.              *)
(*                                                                         *)
(* D-Bus starts the daemon when its name is called and nobody owns it, and *)
(* hands over the call when the name is taken. QtDBus keeps calls until the*)
(* main loop runs. A call to a daemon that is ending gets no answer.       *)
(*                                                                         *)
(* Files of the database are numbered as they are created.                 *)
(***************************************************************************)
EXTENDS Naturals, Sequences

CONSTANTS
  MaxUses     \* bound: commands and crashes

ASSUME BoundIsNat == MaxUses \in Nat

VARIABLES
  enabled,    \* baloofilerc: Indexing-Enabled
  dbVersion,  \* baloofilerc: "none", "old", "current"
  dbIndex,    \* number of the file "index", or 0
  legacy,     \* is there a directory "file", which was used before version 1?
  outdated,   \* database files of an old version
  broken,     \* database files that cannot be opened
  created,    \* number of the last file
  process,    \* where main() is, "off" without a process
  firstRun,
  handle,     \* the file that the daemon has open, or 0
  quitCalled, \* a call of quit() that waits for the main loop
  purge,      \* balooctl purge: where it is, wasRunning, m_stopTimer
  heard,      \* changes of the name's owner that each command has yet to hear of
  watching,   \* balooctl monitor runs
  enabling,   \* balooctl enable runs, and what it has seen
  uses,
  causes      \* what other than the daemon itself leads to a state below

config      == <<enabled, dbVersion>>
database    == <<dbIndex, legacy, outdated, broken, created>>
mainProcess == <<process, firstRun, handle, quitCalled>>
tools       == <<purge, heard, watching, enabling, uses>>
daemonVars  == <<config, database, mainProcess, tools, causes>>

NoPurge == [at |-> "none", wasRunning |-> FALSE, timer |-> FALSE]

\* The name org.kde.baloo
Owned == process \in {"registered", "migrated", "running", "ending"}

-----------------------------------------------------------------------------
(* D-Bus. *)

\* Whoever listens hears of a change of the owner.
Announce(change) ==
  heard' = [purge   |-> IF purge.at = "none" THEN <<>> ELSE Append(heard.purge, change),
            monitor |-> IF watching THEN Append(heard.monitor, change) ELSE <<>>]

\* A call, or startService(): anyone but purge that starts the daemon can do so
\* while purge has its file yet to delete, and so can the call of purge itself.
Activate(by) ==
  /\ process' = IF process = "off" THEN "starting" ELSE process
  /\ causes' = IF process = "off" /\ by # "startService" /\ purge.at # "none" THEN causes \cup {"startedDuringPurge"} ELSE causes

CallQuit ==
  /\ quitCalled' = (quitCalled \/ process # "ending")
  /\ Activate("quit")

-----------------------------------------------------------------------------
(* main() *)

register ==
  /\ process = "starting"
  /\ IF enabled
     THEN process' = "registered" /\ Announce("came") /\ UNCHANGED quitCalled
     ELSE process' = "off" /\ quitCalled' = FALSE /\ UNCHANGED heard
  /\ UNCHANGED <<config, database, firstRun, handle, purge, watching, enabling, uses, causes>>

\* Mutant: only what has no version is removed.
migrate_OnlyUnversioned ==
  /\ process = "registered" /\ process' = "migrated"
  /\ IF dbVersion # "none" THEN UNCHANGED <<dbIndex, legacy>>
     ELSE IF legacy THEN legacy' = FALSE /\ UNCHANGED dbIndex
     ELSE dbIndex' = 0 /\ UNCHANGED legacy
  /\ dbVersion' = "current"
  /\ firstRun' = (dbIndex' = 0)
  /\ UNCHANGED <<enabled, outdated, broken, created, handle, quitCalled, tools, causes>>

\* Migrator::migrate(), and a look whether there is an index
migrate ==
  /\ process = "registered" /\ process' = "migrated"
  /\ IF dbVersion = "current" THEN UNCHANGED <<dbIndex, legacy>>
     ELSE IF dbVersion = "none" /\ legacy THEN legacy' = FALSE /\ UNCHANGED dbIndex
     ELSE dbIndex' = 0 /\ UNCHANGED legacy
  /\ dbVersion' = "current"
  /\ firstRun' = (dbIndex' = 0)
  /\ UNCHANGED <<enabled, outdated, broken, created, handle, quitCalled, tools, causes>>

Opened(file) == handle' = file /\ dbIndex' = file /\ process' = "running"

\* Database::open(), once more when what is there cannot be opened
open ==
  /\ process = "migrated"
  /\ IF dbIndex # 0 /\ dbIndex \notin broken THEN Opened(dbIndex) /\ UNCHANGED <<created, firstRun>>
     ELSE /\ Opened(created + 1) /\ created' = created + 1
          /\ firstRun' = (firstRun \/ dbIndex # 0)
  /\ UNCHANGED <<config, legacy, outdated, broken, quitCalled, tools, causes>>

\* No file can be written, or not even the second attempt succeeds.
openFails ==
  /\ process = "migrated" /\ uses < MaxUses /\ uses' = uses + 1
  /\ process' = "off" /\ quitCalled' = FALSE /\ firstRun' = FALSE
  /\ Announce("gone")
  /\ causes' = causes \cup {"noDatabase"}
  /\ UNCHANGED <<config, database, handle, purge, watching, enabling>>

\* MainHub::quit()
quit ==
  /\ process = "running" /\ quitCalled
  /\ process' = "ending" /\ quitCalled' = FALSE
  /\ UNCHANGED <<config, database, firstRun, handle, tools, causes>>

\* The pool's thread has ended, which may take its time.
exit ==
  /\ process = "ending"
  /\ process' = "off" /\ handle' = 0 /\ firstRun' = FALSE
  /\ Announce("gone")
  /\ UNCHANGED <<config, database, quitCalled, purge, watching, enabling, uses, causes>>

\* KCrash starts the process again.
crash ==
  /\ process \in {"migrated", "running"} /\ uses < MaxUses /\ uses' = uses + 1
  /\ process' = "starting" /\ handle' = 0 /\ firstRun' = FALSE /\ quitCalled' = FALSE
  /\ Announce("gone")
  /\ causes' = IF purge.at # "none" THEN causes \cup {"startedDuringPurge"} ELSE causes
  /\ UNCHANGED <<config, database, purge, watching, enabling>>

-----------------------------------------------------------------------------
(* balooctl *)

Use == uses < MaxUses /\ uses' = uses + 1

\* Mutant: the daemon is told to quit by a call and not by the configuration.
disable_CallOnly ==
  /\ Use /\ enabling = "no" /\ UNCHANGED enabled
  /\ CallQuit
  /\ UNCHANGED <<dbVersion, database, firstRun, handle, purge, heard, watching, enabling>>

\* The configuration is saved before the call. One that comes while enable runs
\* is not an order that anyone could tell.
disable ==
  /\ Use /\ enabling = "no" /\ enabled' = FALSE
  /\ CallQuit
  /\ UNCHANGED <<dbVersion, database, firstRun, handle, purge, heard, watching, enabling>>

\* The owner of the name is looked up before the configuration is saved.
enable ==
  /\ Use /\ enabling = "no"
  /\ enabling' = IF Owned THEN "running" ELSE "notRunning"
  /\ causes' = IF process = "ending" \/ quitCalled THEN causes \cup {"enabledWhileEnding"} ELSE causes
  /\ UNCHANGED <<config, database, mainProcess, purge, heard, watching>>

enableDone ==
  /\ enabling # "no" /\ enabling' = "no" /\ enabled' = TRUE
  /\ IF enabling = "running"
     THEN /\ UNCHANGED process
          /\ causes' = IF Owned /\ process # "ending" /\ ~quitCalled THEN causes ELSE causes \cup {"enabledWhileEnding"}
     ELSE Activate("enable")
  /\ UNCHANGED <<dbVersion, database, firstRun, handle, quitCalled, purge, heard, watching, uses>>

\* PurgeCommand's constructor
purgeBegins ==
  /\ Use /\ purge = NoPurge
  /\ purge' = [at |-> "begun", wasRunning |-> Owned, timer |-> FALSE]
  /\ causes' = IF process = "starting" THEN causes \cup {"startedDuringPurge"} ELSE causes
  /\ UNCHANGED <<config, database, mainProcess, heard, watching, enabling>>

\* Mutant: the file is deleted before the daemon has ended.
purgeStops_DeletesFirst ==
  /\ purge.at = "begun" /\ purge' = [purge EXCEPT !.at = "waiting", !.timer = purge.wasRunning]
  /\ dbIndex' = 0
  /\ IF purge.wasRunning THEN CallQuit /\ UNCHANGED heard
     ELSE heard' = [heard EXCEPT !.purge = Append(@, "gone")] /\ UNCHANGED <<process, quitCalled, causes>>
  /\ UNCHANGED <<config, legacy, outdated, broken, created, firstRun, handle, watching, enabling, uses>>

\* exec(): quit(), or a slot called from the main loop
purgeStops ==
  /\ purge.at = "begun" /\ purge' = [purge EXCEPT !.at = "waiting", !.timer = purge.wasRunning]
  /\ IF purge.wasRunning THEN CallQuit /\ UNCHANGED heard
     ELSE heard' = [heard EXCEPT !.purge = Append(@, "gone")] /\ UNCHANGED <<process, quitCalled, causes>>
  /\ UNCHANGED <<config, database, firstRun, handle, watching, enabling, uses>>

PurgeEnds == purge' = NoPurge

balooIsNotAvailable ==
  /\ purge.at = "waiting" /\ heard.purge # <<>> /\ Head(heard.purge) = "gone"
  /\ dbIndex' = 0
  /\ IF purge.wasRunning
     THEN /\ purge' = [purge EXCEPT !.timer = FALSE]
          /\ heard' = [heard EXCEPT !.purge = Tail(@)]
          /\ Activate("startService")
     ELSE /\ PurgeEnds /\ heard' = [heard EXCEPT !.purge = <<>>]
          /\ UNCHANGED <<process, causes>>
  /\ UNCHANGED <<config, legacy, outdated, broken, created, firstRun, handle, quitCalled, watching, enabling, uses>>

balooIsAvailable ==
  /\ purge.at = "waiting" /\ heard.purge # <<>> /\ Head(heard.purge) = "came"
  /\ PurgeEnds /\ heard' = [heard EXCEPT !.purge = <<>>]
  /\ UNCHANGED <<config, database, mainProcess, watching, enabling, uses, causes>>

\* The daemon needs more than 30 s to end.
failedToStop ==
  /\ purge.at = "waiting" /\ purge.timer
  /\ PurgeEnds /\ heard' = [heard EXCEPT !.purge = <<>>]
  /\ causes' = causes \cup {"failedToStop"}
  /\ UNCHANGED <<config, database, mainProcess, watching, enabling, uses>>

\* MonitorCommand's constructor: without a daemon it calls unregisterMonitor().
monitorBegins ==
  /\ Use /\ ~watching /\ watching' = TRUE
  /\ IF Owned THEN UNCHANGED <<process, causes>> ELSE Activate("monitor")
  /\ UNCHANGED <<config, database, firstRun, handle, quitCalled, purge, heard, enabling>>

\* MonitorCommand::balooIsNotAvailable() and balooIsAvailable() call it as well.
monitorHears ==
  /\ heard.monitor # <<>> /\ heard' = [heard EXCEPT !.monitor = Tail(@)]
  /\ Activate("monitor")
  /\ UNCHANGED <<config, database, firstRun, handle, quitCalled, purge, watching, enabling, uses>>

-----------------------------------------------------------------------------

\* The session starts what is enabled. The files are those of this version,
\* those of an older one, or those of before version 1; the configuration may
\* have been lost.
DaemonInit ==
  /\ enabled \in BOOLEAN
  /\ \E has \in {<<"none", 0, FALSE>>, <<"none", 0, TRUE>>, <<"old", 1, FALSE>>,
                 <<"none", 1, FALSE>>, <<"current", 1, FALSE>>} :
       dbVersion = has[1] /\ dbIndex = has[2] /\ legacy = has[3]
  /\ outdated = (IF dbVersion = "old" THEN {1} ELSE {})
  /\ broken \in {{}, {1}}
  /\ created = 1
  /\ process = (IF enabled THEN "starting" ELSE "off")
  /\ firstRun = FALSE /\ handle = 0 /\ quitCalled = FALSE
  /\ purge = NoPurge /\ heard = [purge |-> <<>>, monitor |-> <<>>]
  /\ watching = FALSE /\ enabling = "no" /\ uses = 0 /\ causes = {}

Main == register \/ migrate \/ open \/ openFails \/ quit \/ exit \/ crash

Purge == purgeBegins \/ purgeStops \/ balooIsNotAvailable \/ balooIsAvailable \/ failedToStop

DaemonNext == Main \/ Purge \/ disable \/ enable \/ enableDone \/ monitorBegins \/ monitorHears

DaemonSpec == DaemonInit /\ [][DaemonNext]_daemonVars

-----------------------------------------------------------------------------

\* What the variables hold; a file is open while the main loop runs or ends.
DaemonTypeOK ==
  /\ process \in {"off", "starting", "registered", "migrated", "running", "ending"}
  /\ dbIndex \in 0..created /\ uses \in 0..MaxUses
  /\ handle # 0 <=> process \in {"running", "ending"}
  /\ purge.timer => purge.wasRunning

\* A daemon that runs has a file of the present version that can be opened; it
\* begins with a first run, which trusts that nothing is indexed, only if no
\* documents can be in that file.
OpensAFitIndex ==
  process = "running" => handle \notin outdated \cup broken /\ (firstRun => handle # 1)

\* Nothing goes on: no command, no call, no start.
Settled == /\ process \in {"off", "running"} /\ ~quitCalled /\ purge = NoPurge
           /\ enabling = "no" /\ heard.monitor = <<>>

\* What is asked for last is what is: a daemon that is enabled runs, and one that
\* is disabled does not, whatever crashes, calls and commands come between.
EnabledRuns ==
  Settled /\ causes = {} => (process = "running" <=> enabled)

\* The daemon writes to the file that searches open. Only if something starts the
\* daemon between its end and the deletion can it be left with a deleted file.
\* (A monitor that calls the daemon as soon as it has ended is such a thing,
\* purgecommand.cpp:53.)
RunsOnTheIndex ==
  process = "running" /\ causes \cap {"startedDuringPurge", "noDatabase"} = {} => handle = dbIndex

\* The daemon runs if and only if it is enabled, on the file that searches open, and
\* never on an index of another version or a broken one.
DaemonRunsAsAsked == DaemonTypeOK /\ EnabledRuns /\ RunsOnTheIndex /\ OpensAFitIndex
=============================================================================
