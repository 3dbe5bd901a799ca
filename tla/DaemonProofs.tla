----------------------------- MODULE DaemonProofs -----------------------------
(***************************************************************************)
(* Whatever commands, calls and crashes come between, the daemon runs if   *)
(* and only if it is enabled, on the file that searches open, and never on *)
(* a file of another version or a broken one.                              *)
(***************************************************************************)
EXTENDS Daemon, TLAPS

Changes == {"came", "gone"}

Hears == heard \in [purge : Seq(Changes), monitor : Seq(Changes)]

\* What each variable can hold.
Types ==
  /\ Hears
  /\ enabled \in BOOLEAN /\ dbVersion \in {"none", "old", "current"}
  /\ legacy \in BOOLEAN /\ created \in Nat \ {0} /\ dbIndex \in 0..created
  /\ process \in {"off", "starting", "registered", "migrated", "running", "ending"}
  /\ firstRun \in BOOLEAN /\ handle \in Nat /\ quitCalled \in BOOLEAN
  /\ purge \in [at : {"none", "begun", "waiting"}, wasRunning : BOOLEAN, timer : BOOLEAN]
  /\ watching \in BOOLEAN /\ enabling \in {"no", "running", "notRunning"} /\ uses \in 0..MaxUses

\* A command that has ended keeps nothing; what TypeOK says beyond types.
Shapes ==
  /\ handle # 0 <=> process \in {"running", "ending"}
  /\ purge.timer => purge.wasRunning
  /\ purge.at = "none" => purge = NoPurge /\ heard.purge = <<>>

\* Files are outdated or broken from the start; what migrate() has let through
\* is neither, and a first run finds no file.
FilesAreFit ==
  /\ outdated \subseteq {1} /\ broken \subseteq {1}
  /\ dbIndex \in outdated => dbVersion = "old"
  /\ process \in {"migrated", "running", "ending"} => dbVersion = "current"
  /\ process = "migrated" /\ firstRun => dbIndex = 0
  /\ OpensAFitIndex

Undisturbed == causes \cap {"startedDuringPurge", "noDatabase"} = {}

\* purge hears that the name is gone only while there is no daemon: it looks
\* whether one runs before it listens, and nobody else has started one.
PurgeIsRight ==
  Undisturbed =>
    /\ purge.at # "none" /\ ~purge.wasRunning => process = "off"
    /\ purge.at = "begun" /\ ~purge.wasRunning => heard.purge = <<>>
    /\ purge.at = "begun" /\ purge.wasRunning => process # "starting" /\ (process # "off" => heard.purge = <<>>)
    /\ heard.purge # <<>> /\ Head(heard.purge) = "gone" => process = "off" /\ heard.purge = <<"gone">>

\* A daemon that is disabled is told to quit.
DisabledEnds ==
  causes = {} /\ ~enabled => process \in {"off", "starting", "ending"} \/ quitCalled

\* An enabled daemon ends for purge only, which hears of it and starts it again.
PurgeRestarts == purge.at = "waiting" /\ purge.wasRunning

EnabledIsKept ==
  causes = {} /\ enabled =>
    /\ quitCalled => process \in {"registered", "migrated", "running"} /\ PurgeRestarts /\ heard.purge = <<>>
    /\ process = "ending" => PurgeRestarts /\ heard.purge = <<>>
    /\ process = "off" => PurgeRestarts /\ heard.purge = <<"gone">>

\* enable has seen that no daemon runs: none does until it starts one.
EnableIsRight ==
  causes = {} /\ enabling = "notRunning" /\ ~enabled => process \in {"off", "starting"} /\ ~quitCalled

DaemonInv ==
  /\ Types /\ Shapes /\ FilesAreFit /\ RunsOnTheIndex
  /\ PurgeIsRight /\ DisabledEnds /\ EnabledIsKept /\ EnableIsRight

-----------------------------------------------------------------------------
(* Types. *)

LEMMA AnnounceKeeps ==
  ASSUME Hears, NEW c \in Changes, Announce(c) PROVE Hears'
<1>1. \A s \in Seq(Changes) : Append(s, c) \in Seq(Changes)
  OBVIOUS
<1>2. <<>> \in Seq(Changes)
  OBVIOUS
<1>3. heard.purge \in Seq(Changes) /\ heard.monitor \in Seq(Changes)
  BY DEF Hears
<1> HIDE DEF Changes
<1> QED BY <1>1, <1>2, <1>3 DEF Announce, Hears

LEMMA LessKeeps ==
  ASSUME Hears, NEW k \in {"purge", "monitor"}, NEW s \in Seq(Changes), heard' = [heard EXCEPT ![k] = s]
  PROVE  Hears'
BY DEF Hears

LEMMA HearsNext ==
  ASSUME Hears, [DaemonNext]_daemonVars PROVE Hears'
<1> USE DEF config, database, mainProcess, tools
<1>1. CASE register
  BY <1>1, AnnounceKeeps DEF register, Hears, Changes
<1>2. CASE openFails \/ exit \/ crash
  BY <1>2, AnnounceKeeps DEF openFails, exit, crash, Changes
<1>3. CASE purgeStops
  <2>1. heard.purge \in Seq(Changes) /\ Append(heard.purge, "gone") \in Seq(Changes)
    BY DEF Hears, Changes
  <2>2. CASE heard' = heard
    BY <2>2 DEF Hears
  <2>3. CASE heard' = [heard EXCEPT !.purge = Append(heard.purge, "gone")]
    BY <2>1, <2>3, LessKeeps
  <2> QED BY <1>3, <2>2, <2>3 DEF purgeStops, CallQuit
<1>4. CASE balooIsNotAvailable \/ balooIsAvailable \/ failedToStop
  <2>1. <<>> \in Seq(Changes) /\ (heard.purge # <<>> => Tail(heard.purge) \in Seq(Changes))
    BY DEF Hears
  <2>2. \/ heard' = [heard EXCEPT !.purge = <<>>]
        \/ heard' = [heard EXCEPT !.purge = Tail(heard.purge)] /\ heard.purge # <<>>
    BY <1>4 DEF balooIsNotAvailable, balooIsAvailable, failedToStop
  <2> QED BY <2>1, <2>2, LessKeeps
<1>5. CASE monitorHears
  <2>1. heard.monitor # <<>> => Tail(heard.monitor) \in Seq(Changes)
    BY DEF Hears
  <2> QED BY <1>5, <2>1, LessKeeps DEF monitorHears
<1>6. CASE heard' = heard
  BY <1>6 DEF Hears
<1> QED BY <1>1, <1>2, <1>3, <1>4, <1>5, <1>6
        DEF DaemonNext, Main, Purge, daemonVars, migrate, open, quit, purgeBegins, disable, enable,
           enableDone, monitorBegins

LEMMA FirstHeard ==
  ASSUME NEW h \in Seq(Changes), NEW c \in Changes
  PROVE  /\ Append(h, c) # <<>>
         /\ Head(Append(h, c)) = IF h = <<>> THEN c ELSE Head(h)
         /\ h = <<>> => Append(h, c) = <<c>>
<1>1. Len(Append(h, c)) = Len(h) + 1 /\ Len(h) \in Nat /\ (Len(h) = 0 <=> h = <<>>)
  OBVIOUS
<1>2. Append(h, c) # <<>>
  BY <1>1
<1>3. CASE h = <<>>
  BY <1>3
<1>4. CASE h # <<>>
  <2>1. Append(h, c)[1] = h[1]
    BY <1>1, <1>4
  <2> QED BY <1>2, <1>4, <2>1
<1> QED BY <1>2, <1>3, <1>4

LEMMA TypesNext ==
  ASSUME MaxUses \in Nat, Types, [DaemonNext]_daemonVars PROVE Types'
<1> DEFINE Settings == enabled \in BOOLEAN /\ dbVersion \in {"none", "old", "current"} /\ legacy \in BOOLEAN
           Numbers  == created \in Nat \ {0} /\ dbIndex \in 0..created /\ handle \in Nat
           Process  == /\ process \in {"off", "starting", "registered", "migrated", "running", "ending"}
                       /\ firstRun \in BOOLEAN /\ quitCalled \in BOOLEAN
           Purges   == purge \in [at : {"none", "begun", "waiting"}, wasRunning : BOOLEAN, timer : BOOLEAN]
           Commands == /\ watching \in BOOLEAN /\ enabling \in {"no", "running", "notRunning"}
                       /\ uses \in 0..MaxUses
<1> USE DEF config, database, mainProcess, tools
<1>1. Hears'
  BY HearsNext DEF Types
<1>2. Settings'
  BY DEF Types, DaemonNext, Main, Purge, daemonVars, register, migrate, open, openFails, quit, exit, crash,
     purgeBegins, purgeStops, balooIsNotAvailable, balooIsAvailable, failedToStop, disable, enable,
     enableDone, monitorBegins, monitorHears
<1>3. Numbers'
  BY DEF Types, DaemonNext, Main, Purge, daemonVars, register, migrate, open, openFails, quit, exit, crash,
     purgeBegins, purgeStops, balooIsNotAvailable, balooIsAvailable, failedToStop, disable, enable,
     enableDone, monitorBegins, monitorHears, Opened
<1>4. Process'
  <2>1. process' \in {"off", "starting", "registered", "migrated", "running", "ending"}
    BY DEF Types, DaemonNext, Main, Purge, daemonVars, register, migrate, open, openFails, quit, exit,
       crash, purgeBegins, purgeStops, balooIsNotAvailable, balooIsAvailable, failedToStop, disable, enable,
       enableDone, monitorBegins, monitorHears, Opened, CallQuit, Activate
  <2>2. firstRun' \in BOOLEAN
    BY DEF Types, DaemonNext, Main, Purge, daemonVars, register, migrate, open, openFails, quit, exit,
       crash, purgeBegins, purgeStops, balooIsNotAvailable, balooIsAvailable, failedToStop, disable, enable,
       enableDone, monitorBegins, monitorHears
  <2>3. quitCalled' \in BOOLEAN
    BY DEF Types, DaemonNext, Main, Purge, daemonVars, register, migrate, open, openFails, quit, exit,
       crash, purgeBegins, purgeStops, balooIsNotAvailable, balooIsAvailable, failedToStop, disable, enable,
       enableDone, monitorBegins, monitorHears, CallQuit
  <2> QED BY <2>1, <2>2, <2>3
<1>5. Purges'
  <2>1. CASE UNCHANGED purge
    BY <2>1 DEF Types
  <2>2. CASE purge' = NoPurge
    BY <2>2 DEF NoPurge
  <2>3. CASE purgeBegins
    BY <2>3 DEF purgeBegins, Owned
  <2>4. CASE purgeStops
    BY <2>4 DEF purgeStops, Types
  <2>5. CASE purge' = [purge EXCEPT !.timer = FALSE]
    BY <2>5 DEF Types
  <2> QED BY <2>1, <2>2, <2>3, <2>4, <2>5
          DEF DaemonNext, Main, Purge, daemonVars, register, migrate, open, openFails, quit, exit, crash,
             purgeBegins, purgeStops, balooIsNotAvailable, balooIsAvailable, failedToStop, disable, enable,
             enableDone, monitorBegins, monitorHears, PurgeEnds
<1>6. Commands'
  <2>1. watching' \in BOOLEAN
    BY DEF Types, DaemonNext, Main, Purge, daemonVars, register, migrate, open, openFails, quit, exit,
       crash, purgeBegins, purgeStops, balooIsNotAvailable, balooIsAvailable, failedToStop, disable, enable,
       enableDone, monitorBegins, monitorHears
  <2>2. enabling' \in {"no", "running", "notRunning"}
    BY DEF Types, DaemonNext, Main, Purge, daemonVars, register, migrate, open, openFails, quit, exit,
       crash, purgeBegins, purgeStops, balooIsNotAvailable, balooIsAvailable, failedToStop, disable, enable,
       enableDone, monitorBegins, monitorHears
  <2>3. uses' \in 0..MaxUses
    BY DEF Types, DaemonNext, Main, Purge, daemonVars, register, migrate, open, openFails, quit, exit,
       crash, purgeBegins, purgeStops, balooIsNotAvailable, balooIsAvailable, failedToStop, disable, enable,
       enableDone, monitorBegins, monitorHears, Use
  <2> QED BY <2>1, <2>2, <2>3
<1> QED BY <1>1, <1>2, <1>3, <1>4, <1>5, <1>6 DEF Types

LEMMA ShapesNext ==
  ASSUME Types, Shapes, [DaemonNext]_daemonVars PROVE Shapes'
<1> USE DEF Types, Shapes, NoPurge, config, database, mainProcess, tools
<1>1. CASE register
  BY <1>1 DEF register, Announce
<1>2. CASE migrate
  BY <1>2 DEF migrate
<1>3. CASE open
  BY <1>3 DEF open, Opened
<1>4. CASE openFails
  BY <1>4 DEF openFails, Announce
<1>5. CASE quit
  BY <1>5 DEF quit
<1>6. CASE exit
  BY <1>6 DEF exit, Announce
<1>7. CASE crash
  BY <1>7 DEF crash, Announce
<1>8. CASE purgeBegins
  BY <1>8 DEF purgeBegins, Use, NoPurge, Owned
<1>9. CASE purgeStops
  BY <1>9 DEF purgeStops, CallQuit, Activate
<1>10. CASE balooIsNotAvailable
  <2>1. CASE purge.wasRunning
    BY <1>10, <2>1 DEF balooIsNotAvailable, Activate
  <2>2. CASE ~purge.wasRunning
    BY <1>10, <2>2 DEF balooIsNotAvailable, PurgeEnds, Hears
  <2> QED BY <2>1, <2>2
<1>11. CASE balooIsAvailable
  BY <1>11 DEF balooIsAvailable, PurgeEnds, NoPurge
<1>12. CASE failedToStop
  BY <1>12 DEF failedToStop, PurgeEnds, NoPurge
<1>13. CASE disable
  BY <1>13 DEF disable, Use, CallQuit, Activate
<1>14. CASE enable
  BY <1>14 DEF enable, Use, Owned
<1>15. CASE enableDone
  BY <1>15 DEF enableDone, Activate, Owned
<1>16. CASE monitorBegins
  BY <1>16 DEF monitorBegins, Use, Activate, Owned
<1>17. CASE monitorHears
  BY <1>17 DEF monitorHears, Activate
<1>18. CASE UNCHANGED daemonVars
  BY <1>18 DEF daemonVars
<1> QED BY <1>1, <1>2, <1>3, <1>4, <1>5, <1>6, <1>7, <1>8, <1>9, <1>10, <1>11, <1>12, <1>13, <1>14, <1>15,
           <1>16, <1>17, <1>18 DEF DaemonNext, Main, Purge

LEMMA FilesAreFitNext ==
  ASSUME Types, Shapes, FilesAreFit, [DaemonNext]_daemonVars PROVE FilesAreFit'
<1> USE DEF Types, Shapes, FilesAreFit, OpensAFitIndex, config, database, mainProcess, tools
<1>1. CASE register
  BY <1>1 DEF register, Announce
<1>2. CASE migrate
  <2>1. firstRun' <=> dbIndex' = 0
    BY <1>2 DEF migrate
  <2>2. dbIndex' \in outdated => dbIndex' = dbIndex /\ dbVersion # "current" /\ dbVersion = "none"
    BY <1>2 DEF migrate
  <2> QED BY <1>2, <2>1, <2>2 DEF migrate
<1>3. CASE open
  BY <1>3 DEF open, Opened
<1>4. CASE openFails
  BY <1>4 DEF openFails, Announce
<1>5. CASE quit
  BY <1>5 DEF quit
<1>6. CASE exit
  BY <1>6 DEF exit, Announce
<1>7. CASE crash
  BY <1>7 DEF crash, Announce
<1>8. CASE purgeBegins
  BY <1>8 DEF purgeBegins, Use, NoPurge, Owned
<1>9. CASE purgeStops
  BY <1>9 DEF purgeStops, CallQuit, Activate
<1>10. CASE balooIsNotAvailable
  BY <1>10 DEF balooIsNotAvailable, PurgeEnds, NoPurge, Activate
<1>11. CASE balooIsAvailable
  BY <1>11 DEF balooIsAvailable, PurgeEnds, NoPurge
<1>12. CASE failedToStop
  BY <1>12 DEF failedToStop, PurgeEnds, NoPurge
<1>13. CASE disable
  BY <1>13 DEF disable, Use, CallQuit, Activate
<1>14. CASE enable
  BY <1>14 DEF enable, Use, Owned
<1>15. CASE enableDone
  BY <1>15 DEF enableDone, Activate, Owned
<1>16. CASE monitorBegins
  BY <1>16 DEF monitorBegins, Use, Activate, Owned
<1>17. CASE monitorHears
  BY <1>17 DEF monitorHears, Activate
<1>18. CASE UNCHANGED daemonVars
  BY <1>18 DEF daemonVars
<1> QED BY <1>1, <1>2, <1>3, <1>4, <1>5, <1>6, <1>7, <1>8, <1>9, <1>10, <1>11, <1>12, <1>13, <1>14, <1>15,
           <1>16, <1>17, <1>18 DEF DaemonNext, Main, Purge

LEMMA PurgeIsRightNext ==
  ASSUME Types, Shapes, PurgeIsRight, [DaemonNext]_daemonVars PROVE PurgeIsRight'
<1> USE DEF Types, Shapes, PurgeIsRight, Undisturbed, NoPurge, Changes, config, database, mainProcess, tools
<1>1. CASE register
  BY <1>1 DEF register, Announce
<1>2. CASE migrate
  BY <1>2 DEF migrate
<1>3. CASE open
  BY <1>3 DEF open, Opened
<1>4. CASE openFails
  BY <1>4 DEF openFails, Announce
<1>5. CASE quit
  BY <1>5 DEF quit
<1>6. CASE exit
  <2>1. purge.at # "none" => heard'.purge = Append(heard.purge, "gone")
    BY <1>6 DEF exit, Announce
  <2>2. purge.at = "none" => heard'.purge = <<>>
    BY <1>6 DEF exit, Announce
  <2>3. /\ Append(heard.purge, "gone") # <<>>
        /\ Head(Append(heard.purge, "gone")) = IF heard.purge = <<>> THEN "gone" ELSE Head(heard.purge)
        /\ heard.purge = <<>> => Append(heard.purge, "gone") = <<"gone">>
    BY FirstHeard DEF Hears
  <2> QED BY <1>6, <2>1, <2>2, <2>3 DEF exit
<1>7. CASE crash
  BY <1>7 DEF crash, Announce
<1>8. CASE purgeBegins
  BY <1>8 DEF purgeBegins, Use, NoPurge, Owned
<1>9. CASE purgeStops
  <2>1. CASE purge.wasRunning
    BY <1>9, <2>1 DEF purgeStops, CallQuit, Activate
  <2>2. CASE ~purge.wasRunning
    <3>1. heard'.purge = Append(heard.purge, "gone")
      BY <1>9, <2>2 DEF purgeStops, Hears
    <3>2. heard.purge = <<>> => Append(heard.purge, "gone") = <<"gone">>
      BY FirstHeard DEF Hears
    <3> QED BY <1>9, <2>2, <3>1, <3>2 DEF purgeStops
  <2> QED BY <2>1, <2>2
<1>10. CASE balooIsNotAvailable
  <2>1. CASE purge.wasRunning
    <3>1. heard'.purge = Tail(heard.purge)
      BY <1>10, <2>1 DEF balooIsNotAvailable, Hears
    <3>2. causes' = causes
      BY <1>10, <2>1 DEF balooIsNotAvailable, Activate
    <3>3. Undisturbed => heard.purge = <<"gone">>
      BY <1>10 DEF balooIsNotAvailable
    <3>4. Tail(<<"gone">>) = <<>>
      OBVIOUS
    <3> QED BY <1>10, <2>1, <3>1, <3>2, <3>3, <3>4 DEF balooIsNotAvailable
  <2>2. CASE ~purge.wasRunning
    BY <1>10, <2>2 DEF balooIsNotAvailable, PurgeEnds, Hears
  <2> QED BY <2>1, <2>2
<1>11. CASE balooIsAvailable
  BY <1>11 DEF balooIsAvailable, PurgeEnds, NoPurge
<1>12. CASE failedToStop
  BY <1>12 DEF failedToStop, PurgeEnds, NoPurge
<1>13. CASE disable
  BY <1>13 DEF disable, Use, CallQuit, Activate
<1>14. CASE enable
  BY <1>14 DEF enable, Use, Owned
<1>15. CASE enableDone
  BY <1>15 DEF enableDone, Activate, Owned
<1>16. CASE monitorBegins
  BY <1>16 DEF monitorBegins, Use, Activate, Owned
<1>17. CASE monitorHears
  BY <1>17 DEF monitorHears, Activate
<1>18. CASE UNCHANGED daemonVars
  BY <1>18 DEF daemonVars
<1> QED BY <1>1, <1>2, <1>3, <1>4, <1>5, <1>6, <1>7, <1>8, <1>9, <1>10, <1>11, <1>12, <1>13, <1>14, <1>15,
           <1>16, <1>17, <1>18 DEF DaemonNext, Main, Purge

LEMMA RunsOnTheIndexNext ==
  ASSUME Types, Shapes, PurgeIsRight, RunsOnTheIndex, [DaemonNext]_daemonVars PROVE RunsOnTheIndex'
<1> USE DEF Types, Shapes, PurgeIsRight, Undisturbed, RunsOnTheIndex, NoPurge, Changes, config, database, mainProcess, tools
<1>1. CASE register
  BY <1>1 DEF register, Announce
<1>2. CASE migrate
  BY <1>2 DEF migrate
<1>3. CASE open
  BY <1>3 DEF open, Opened
<1>4. CASE openFails
  BY <1>4 DEF openFails, Announce
<1>5. CASE quit
  BY <1>5 DEF quit
<1>6. CASE exit
  BY <1>6 DEF exit, Announce
<1>7. CASE crash
  BY <1>7 DEF crash, Announce
<1>8. CASE purgeBegins
  BY <1>8 DEF purgeBegins, Use, NoPurge, Owned
<1>9. CASE purgeStops
  BY <1>9 DEF purgeStops, CallQuit, Activate
<1>10. CASE balooIsNotAvailable
  BY <1>10 DEF balooIsNotAvailable, PurgeEnds, NoPurge, Activate
<1>11. CASE balooIsAvailable
  BY <1>11 DEF balooIsAvailable, PurgeEnds, NoPurge
<1>12. CASE failedToStop
  BY <1>12 DEF failedToStop, PurgeEnds, NoPurge
<1>13. CASE disable
  BY <1>13 DEF disable, Use, CallQuit, Activate
<1>14. CASE enable
  BY <1>14 DEF enable, Use, Owned
<1>15. CASE enableDone
  BY <1>15 DEF enableDone, Activate, Owned
<1>16. CASE monitorBegins
  BY <1>16 DEF monitorBegins, Use, Activate, Owned
<1>17. CASE monitorHears
  BY <1>17 DEF monitorHears, Activate
<1>18. CASE UNCHANGED daemonVars
  BY <1>18 DEF daemonVars
<1> QED BY <1>1, <1>2, <1>3, <1>4, <1>5, <1>6, <1>7, <1>8, <1>9, <1>10, <1>11, <1>12, <1>13, <1>14, <1>15,
           <1>16, <1>17, <1>18 DEF DaemonNext, Main, Purge

LEMMA DisabledEndsNext ==
  ASSUME Types, DisabledEnds, [DaemonNext]_daemonVars PROVE DisabledEnds'
<1> USE DEF Types, DisabledEnds, config, database, mainProcess, tools
<1>1. CASE register
  BY <1>1 DEF register, Announce
<1>2. CASE migrate
  BY <1>2 DEF migrate
<1>3. CASE open
  BY <1>3 DEF open, Opened
<1>4. CASE openFails
  BY <1>4 DEF openFails, Announce
<1>5. CASE quit
  BY <1>5 DEF quit
<1>6. CASE exit
  BY <1>6 DEF exit, Announce
<1>7. CASE crash
  BY <1>7 DEF crash, Announce
<1>8. CASE purgeBegins
  BY <1>8 DEF purgeBegins, Use, NoPurge, Owned
<1>9. CASE purgeStops
  BY <1>9 DEF purgeStops, CallQuit, Activate
<1>10. CASE balooIsNotAvailable
  BY <1>10 DEF balooIsNotAvailable, PurgeEnds, NoPurge, Activate
<1>11. CASE balooIsAvailable
  BY <1>11 DEF balooIsAvailable, PurgeEnds, NoPurge
<1>12. CASE failedToStop
  BY <1>12 DEF failedToStop, PurgeEnds, NoPurge
<1>13. CASE disable
  BY <1>13 DEF disable, Use, CallQuit, Activate
<1>14. CASE enable
  BY <1>14 DEF enable, Use, Owned
<1>15. CASE enableDone
  BY <1>15 DEF enableDone, Activate, Owned
<1>16. CASE monitorBegins
  BY <1>16 DEF monitorBegins, Use, Activate, Owned
<1>17. CASE monitorHears
  BY <1>17 DEF monitorHears, Activate
<1>18. CASE UNCHANGED daemonVars
  BY <1>18 DEF daemonVars
<1> QED BY <1>1, <1>2, <1>3, <1>4, <1>5, <1>6, <1>7, <1>8, <1>9, <1>10, <1>11, <1>12, <1>13, <1>14, <1>15,
           <1>16, <1>17, <1>18 DEF DaemonNext, Main, Purge

LEMMA EnabledIsKeptNext ==
  ASSUME Types, Shapes, PurgeIsRight, EnableIsRight, EnabledIsKept, [DaemonNext]_daemonVars PROVE EnabledIsKept'
<1> USE DEF Types, Shapes, PurgeIsRight, Undisturbed, EnableIsRight, EnabledIsKept, PurgeRestarts, NoPurge, Changes, config, database, mainProcess, tools
<1>1. CASE register
  BY <1>1 DEF register, Announce
<1>2. CASE migrate
  BY <1>2 DEF migrate
<1>3. CASE open
  BY <1>3 DEF open, Opened
<1>4. CASE openFails
  BY <1>4 DEF openFails, Announce
<1>5. CASE quit
  BY <1>5 DEF quit
<1>6. CASE exit
  <2>1. purge.at # "none" => heard'.purge = Append(heard.purge, "gone")
    BY <1>6 DEF exit, Announce
  <2>2. purge.at = "none" => heard'.purge = <<>>
    BY <1>6 DEF exit, Announce
  <2>3. /\ Append(heard.purge, "gone") # <<>>
        /\ Head(Append(heard.purge, "gone")) = IF heard.purge = <<>> THEN "gone" ELSE Head(heard.purge)
        /\ heard.purge = <<>> => Append(heard.purge, "gone") = <<"gone">>
    BY FirstHeard DEF Hears
  <2> QED BY <1>6, <2>1, <2>2, <2>3 DEF exit
<1>7. CASE crash
  BY <1>7 DEF crash, Announce
<1>8. CASE purgeBegins
  BY <1>8 DEF purgeBegins, Use, NoPurge, Owned
<1>9. CASE purgeStops
  BY <1>9 DEF purgeStops, CallQuit, Activate
<1>10. CASE balooIsNotAvailable
  BY <1>10 DEF balooIsNotAvailable, PurgeEnds, NoPurge, Activate
<1>11. CASE balooIsAvailable
  BY <1>11 DEF balooIsAvailable, PurgeEnds, NoPurge
<1>12. CASE failedToStop
  BY <1>12 DEF failedToStop, PurgeEnds, NoPurge
<1>13. CASE disable
  BY <1>13 DEF disable, Use, CallQuit, Activate
<1>14. CASE enable
  BY <1>14 DEF enable, Use, Owned
<1>15. CASE enableDone
  BY <1>15 DEF enableDone, Activate, Owned
<1>16. CASE monitorBegins
  BY <1>16 DEF monitorBegins, Use, Activate, Owned
<1>17. CASE monitorHears
  BY <1>17 DEF monitorHears, Activate
<1>18. CASE UNCHANGED daemonVars
  BY <1>18 DEF daemonVars
<1> QED BY <1>1, <1>2, <1>3, <1>4, <1>5, <1>6, <1>7, <1>8, <1>9, <1>10, <1>11, <1>12, <1>13, <1>14, <1>15,
           <1>16, <1>17, <1>18 DEF DaemonNext, Main, Purge

LEMMA EnableIsRightNext ==
  ASSUME Types, PurgeIsRight, EnableIsRight, [DaemonNext]_daemonVars PROVE EnableIsRight'
<1> USE DEF Types, PurgeIsRight, Undisturbed, EnableIsRight, config, database, mainProcess, tools
<1>1. CASE register
  BY <1>1 DEF register, Announce
<1>2. CASE migrate
  BY <1>2 DEF migrate
<1>3. CASE open
  BY <1>3 DEF open, Opened
<1>4. CASE openFails
  BY <1>4 DEF openFails, Announce
<1>5. CASE quit
  BY <1>5 DEF quit
<1>6. CASE exit
  BY <1>6 DEF exit, Announce
<1>7. CASE crash
  BY <1>7 DEF crash, Announce
<1>8. CASE purgeBegins
  BY <1>8 DEF purgeBegins, Use, NoPurge, Owned
<1>9. CASE purgeStops
  BY <1>9 DEF purgeStops, CallQuit, Activate
<1>10. CASE balooIsNotAvailable
  BY <1>10 DEF balooIsNotAvailable, PurgeEnds, NoPurge, Activate
<1>11. CASE balooIsAvailable
  BY <1>11 DEF balooIsAvailable, PurgeEnds, NoPurge
<1>12. CASE failedToStop
  BY <1>12 DEF failedToStop, PurgeEnds, NoPurge
<1>13. CASE disable
  BY <1>13 DEF disable, Use, CallQuit, Activate
<1>14. CASE enable
  BY <1>14 DEF enable, Use, Owned
<1>15. CASE enableDone
  BY <1>15 DEF enableDone, Activate, Owned
<1>16. CASE monitorBegins
  BY <1>16 DEF monitorBegins, Use, Activate, Owned
<1>17. CASE monitorHears
  BY <1>17 DEF monitorHears, Activate
<1>18. CASE UNCHANGED daemonVars
  BY <1>18 DEF daemonVars
<1> QED BY <1>1, <1>2, <1>3, <1>4, <1>5, <1>6, <1>7, <1>8, <1>9, <1>10, <1>11, <1>12, <1>13, <1>14, <1>15,
           <1>16, <1>17, <1>18 DEF DaemonNext, Main, Purge

-----------------------------------------------------------------------------

LEMMA DaemonInvInit ==
  ASSUME MaxUses \in Nat, DaemonInit PROVE DaemonInv
<1>1. Types
  <2>1. <<>> \in Seq(Changes)
    OBVIOUS
  <2>2. Hears
    BY <2>1 DEF DaemonInit, Hears
  <2>3. dbVersion \in {"none", "old", "current"} /\ legacy \in BOOLEAN /\ dbIndex \in {0, 1}
    <3>1. PICK has \in {<<"none", 0, FALSE>>, <<"none", 0, TRUE>>, <<"old", 1, FALSE>>,
                        <<"none", 1, FALSE>>, <<"current", 1, FALSE>>} :
            dbVersion = has[1] /\ dbIndex = has[2] /\ legacy = has[3]
      BY DEF DaemonInit
    <3>2. CASE has = <<"none", 0, FALSE>>
      BY <3>1, <3>2
    <3>3. CASE has = <<"none", 0, TRUE>>
      BY <3>1, <3>3
    <3>4. CASE has = <<"old", 1, FALSE>>
      BY <3>1, <3>4
    <3>5. CASE has = <<"none", 1, FALSE>>
      BY <3>1, <3>5
    <3>6. CASE has = <<"current", 1, FALSE>>
      BY <3>1, <3>6
    <3> QED BY <3>2, <3>3, <3>4, <3>5, <3>6
  <2>4. purge \in [at : {"none", "begun", "waiting"}, wasRunning : BOOLEAN, timer : BOOLEAN]
    BY DEF DaemonInit, NoPurge
  <2>5. process \in {"off", "starting"} /\ uses = 0 /\ created = 1 /\ handle = 0 /\ enabling = "no"
    BY DEF DaemonInit
  <2>6. firstRun = FALSE /\ quitCalled = FALSE /\ watching = FALSE /\ enabled \in BOOLEAN
    BY DEF DaemonInit
  <2>7. dbIndex \in 0..created /\ created \in Nat \ {0} /\ handle \in Nat /\ uses \in 0..MaxUses
    BY <2>3, <2>5
  <2> QED BY <2>2, <2>3, <2>4, <2>5, <2>6, <2>7 DEF Types
<1>2. Shapes /\ PurgeIsRight
  BY DEF DaemonInit, Shapes, PurgeIsRight, NoPurge
<1>3. FilesAreFit /\ RunsOnTheIndex
  <2>1. outdated \subseteq {1} /\ broken \subseteq {1} /\ (dbIndex \in outdated => dbVersion = "old")
    BY DEF DaemonInit
  <2> QED BY <2>1 DEF DaemonInit, FilesAreFit, OpensAFitIndex, RunsOnTheIndex
<1>4. DisabledEnds /\ EnabledIsKept /\ EnableIsRight
  BY DEF DaemonInit, DisabledEnds, EnabledIsKept, EnableIsRight
<1> QED BY <1>1, <1>2, <1>3, <1>4 DEF DaemonInv

LEMMA DaemonInvNext ==
  ASSUME MaxUses \in Nat, DaemonInv, [DaemonNext]_daemonVars PROVE DaemonInv'
BY TypesNext, ShapesNext, FilesAreFitNext, PurgeIsRightNext, RunsOnTheIndexNext, DisabledEndsNext,
   EnabledIsKeptNext, EnableIsRightNext DEF DaemonInv

\* The inductive invariant of the daemon, its files and the commands.
THEOREM DaemonInvariant == DaemonSpec => []DaemonInv
<1>1. DaemonInit => DaemonInv
  BY DaemonInvInit, BoundIsNat
<1>2. DaemonInv /\ [DaemonNext]_daemonVars => DaemonInv'
  BY DaemonInvNext, BoundIsNat
<1> QED BY <1>1, <1>2, PTL DEF DaemonSpec

\* A file is open exactly while the main loop runs or ends.
THEOREM TypeCorrect == DaemonSpec => []DaemonTypeOK
<1>1. DaemonInv => DaemonTypeOK
  BY DEF DaemonInv, Types, Shapes, DaemonTypeOK
<1> QED BY <1>1, DaemonInvariant, PTL

\* The daemon never works on a file of another version or a broken one, and its
\* first run trusts that nothing is indexed only in a new file.
THEOREM IndexIsFit == DaemonSpec => []OpensAFitIndex
<1>1. DaemonInv => OpensAFitIndex
  BY DEF DaemonInv, FilesAreFit
<1> QED BY <1>1, DaemonInvariant, PTL

\* When nothing is under way, the daemon runs if and only if it is enabled.
THEOREM RunsIfEnabled == DaemonSpec => []EnabledRuns
<1>1. DaemonInv => EnabledRuns
  BY DEF DaemonInv, Types, DisabledEnds, EnabledIsKept, PurgeRestarts, EnabledRuns, Settled, NoPurge
<1> QED BY <1>1, DaemonInvariant, PTL

\* purge deletes the file only while no daemon has it open.
THEOREM WritesToTheIndex == DaemonSpec => []RunsOnTheIndex
<1>1. DaemonInv => RunsOnTheIndex
  BY DEF DaemonInv
<1> QED BY <1>1, DaemonInvariant, PTL

\* All that is asked of the daemon, whatever commands and crashes come in which order.
THEOREM RunsAsAsked == DaemonSpec => []DaemonRunsAsAsked
<1>1. DaemonTypeOK /\ EnabledRuns /\ RunsOnTheIndex /\ OpensAFitIndex => DaemonRunsAsAsked
  BY DEF DaemonRunsAsAsked
<1> QED BY <1>1, TypeCorrect, IndexIsFit, RunsIfEnabled, WritesToTheIndex, PTL
=============================================================================
