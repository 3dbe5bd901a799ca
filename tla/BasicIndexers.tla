---------------------------- MODULE BasicIndexers ----------------------------
(***************************************************************************)
(* The jobs that read the file system: NewFileIndexer, ModifiedFileIndexer,*)
(* XAttrIndexer, FirstRunIndexer and UnindexedFileIndexer with             *)
(* BasicIndexingJob, and what they leave to the content indexer            *)
(* (basicindexingjob.cpp, extractor/app.cpp).                              *)
(*                                                                         *)
(* A job decides by the times of a file, in seconds, which of its terms    *)
(* are to be read again. It looks at a path twice, once to decide and once *)
(* to read, and the file may be another by then. What a document holds is  *)
(* told by the versions of the file it was read from.                      *)
(*                                                                         *)
(* Moves and removals reach the index in order and before the next job     *)
(* (FileWatch has the other cases), and jobs have the write lock.          *)
(***************************************************************************)
EXTENDS Naturals, Sequences, FiniteSets

CONSTANTS
  Files,        \* inodes
  Paths,
  Nowhere,      \* the path of what is not there, or has no document
  MaxSecond,    \* bound: the last second
  MaxVersion    \* bound: changes of files

VARIABLES
  second,
  version,      \* number of changes so far
  disk,         \* path, times and versions of attributes and contents
  doc,          \* what the index has of a file
  marked,       \* ContentIndexingDB
  daemon,       \* "off", "on"
  events,       \* changes the main thread has yet to hear of, in their order
  lists,        \* m_newFiles, m_modifiedFiles and m_xattrFiles
  job,          \* the job that runs, with the paths it has yet to look at
  looked,       \* its first look at a path
  extracted,    \* the document whose contents are read, with what was read
  lookedAt,     \* second of the last look at a file
  missed        \* what happened that no later job makes good (below)

files    == <<second, version, disk>>
index    == <<doc, marked>>
indexers == <<job, looked, extracted, lookedAt>>
vars     == <<files, index, indexers, daemon, events, lists, missed>>

-----------------------------------------------------------------------------

Absent  == [path |-> Nowhere, mtime |-> 0, ctime |-> 0, xattr |-> 0, content |-> 0]
NoJob   == [kind |-> "none", paths |-> {}]
NoLook  == [path |-> Nowhere]
Nothing == [file |-> Nowhere]

at(p)       == {i \in Files : disk[i].path = p}
hasDocument(i) == doc[i].path # Nowhere
documentsAt(p) == {i \in Files : doc[i].path = p}

\* BasicIndexingJob::index(): a document without contents
basic(i, p) == [path |-> p, mtime |-> disk[i].mtime, ctime |-> disk[i].ctime,
                xattr |-> disk[i].xattr, content |-> 0]

\* Only a file that is not empty is marked for its contents.
contentIndexing(i) == disk[i].content # 0

ToBeIndexed(kind, p) == [kind |-> kind, path |-> p]
Moved(from, to)      == [kind |-> "moved", from |-> from, to |-> to]

-----------------------------------------------------------------------------
(* Files change; a daemon that runs is told. *)

Tell(e) == events' = IF daemon = "off" THEN events ELSE Append(events, e)

Changed(i, causes) ==
  /\ version < MaxVersion /\ missed = {}
  /\ version' = version + 1
  /\ missed' = missed \cup causes \cup (IF lookedAt[i] = second THEN {"sameSecond"} ELSE {})
  /\ UNCHANGED <<second, index, indexers, daemon, lists>>

create(i, p) ==
  /\ disk[i] = Absent /\ ~hasDocument(i) /\ at(p) = {}
  /\ disk' = [disk EXCEPT ![i] = [path |-> p, mtime |-> second, ctime |-> second,
                                  xattr |-> 0, content |-> version + 1]]
  /\ Tell(ToBeIndexed("new", p))
  /\ Changed(i, {})

\* A file is written, or emptied.
write(i, content) ==
  /\ disk[i] # Absent
  /\ disk' = [disk EXCEPT ![i].mtime = second, ![i].ctime = second, ![i].content = content]
  /\ Tell(ToBeIndexed("modified", disk[i].path))
  /\ Changed(i, IF content = 0 THEN {"emptied"} ELSE {})

setAttributes(i) ==
  /\ disk[i] # Absent
  /\ disk' = [disk EXCEPT ![i].ctime = second, ![i].xattr = version + 1]
  /\ Tell(ToBeIndexed("xattr", disk[i].path))
  /\ Changed(i, {})

\* What is at the new path is overwritten.
rename(i, p) ==
  /\ disk[i] # Absent /\ disk[i].path # p
  /\ disk' = [j \in Files |-> IF j = i THEN [disk[i] EXCEPT !.path = p, !.ctime = second]
                              ELSE IF disk[j].path = p THEN Absent ELSE disk[j]]
  /\ Tell(Moved(disk[i].path, p))
  /\ Changed(i, IF daemon = "off" /\ at(p) # {} THEN {"lostRemoval"} ELSE {})

remove(i) ==
  /\ disk[i] # Absent
  /\ disk' = [disk EXCEPT ![i] = Absent]
  /\ Tell(Moved(disk[i].path, Nowhere))
  /\ Changed(i, IF daemon = "off" THEN {"lostRemoval"} ELSE {})

tick ==
  /\ second < MaxSecond /\ second' = second + 1
  /\ UNCHANGED <<version, disk, index, indexers, daemon, events, lists, missed>>

-----------------------------------------------------------------------------
(* The main thread. *)

\* Mutant: a mark outlives its document.
Removed_KeepsMark(S) ==
  /\ doc' = [i \in Files |-> IF i \in S THEN Absent ELSE doc[i]]
  /\ UNCHANGED marked

Removed(S) ==
  /\ doc' = [i \in Files |-> IF i \in S THEN Absent ELSE doc[i]]
  /\ marked' = marked \ S

\* indexNewFile(), indexModifiedFile(), indexXAttrFile()
indexFile ==
  /\ events # <<>> /\ Head(events).kind # "moved"
  /\ lists' = lists \cup {Head(events)} /\ events' = Tail(events)
  /\ UNCHANGED <<files, index, indexers, daemon, missed>>

\* MetadataMover has to wait for the lock that a job has.
followMove ==
  LET m     == Head(events)
      moved == documentsAt(m.from)
  IN  /\ events # <<>> /\ m.kind = "moved" /\ job = NoJob
      /\ events' = Tail(events)
      /\ IF m.to = Nowhere
         THEN Removed(moved) /\ lists' = {l \in lists : l.path # m.from}
         ELSE /\ doc' = [i \in Files |-> IF i \in moved THEN [doc[i] EXCEPT !.path = m.to]
                                         ELSE IF doc[i].path = m.to THEN Absent ELSE doc[i]]
              /\ marked' = marked \ (documentsAt(m.to) \ moved)
              /\ lists' = {l \in lists : l.path # m.to}
                            \cup (IF moved = {} THEN {ToBeIndexed("new", m.to)} ELSE {})
      /\ missed' = missed \cup (IF moved # {} /\ \E l \in lists : l.path \in {m.from, m.to}
                                THEN {"listedPathMoved"} ELSE {})
      /\ UNCHANGED <<files, indexers, daemon>>

\* baloo_file starts: the first run, or a check of what changed since it ended.
start ==
  /\ daemon = "off" /\ daemon' = "on"
  /\ job' = [kind  |-> IF \A i \in Files : ~hasDocument(i) THEN "firstRun" ELSE "unindexed",
             paths |-> Paths]
  /\ UNCHANGED <<files, index, looked, extracted, lookedAt, events, lists, missed>>

\* It ends at any time; a transaction that is open is aborted, so the lists go
\* between two jobs.
stop ==
  /\ daemon = "on" /\ job = NoJob /\ version > 0 /\ version < MaxVersion
  /\ daemon' = "off" /\ lists' = {} /\ extracted' = Nothing
  /\ events' = <<>>
  /\ missed' = missed \cup (IF \E n \in DOMAIN events : events[n].kind = "moved" THEN {"lostRemoval"} ELSE {})
  /\ UNCHANGED <<files, index, job, looked, lookedAt>>

\* scheduleIndexing(): new files first, then modified, then attributes
schedule ==
  LET ofKind(k) == {l \in lists : l.kind = k}
      kind == IF ofKind("new") # {} THEN "new" ELSE IF ofKind("modified") # {} THEN "modified" ELSE "xattr"
  IN  /\ job = NoJob /\ extracted = Nothing /\ lists # {}
      /\ \A n \in DOMAIN events : events[n].kind # "moved"
      /\ job' = [kind |-> kind, paths |-> {l.path : l \in ofKind(kind)}]
      /\ lists' = lists \ ofKind(kind)
      /\ UNCHANGED <<files, index, looked, extracted, lookedAt, daemon, events, missed>>

-----------------------------------------------------------------------------
(* The jobs, a path at a time. *)

Running(kinds) == job.kind \in kinds /\ looked = NoLook

Done(p) == job' = [job EXCEPT !.paths = @ \ {p}]

Seen(S) == lookedAt' = [i \in Files |-> IF i \in S THEN second ELSE lookedAt[i]]

\* The disk is looked at before the event that tells of a move.
Missed(p, causes) ==
  missed' = missed \cup causes
    \cup (IF \E n \in DOMAIN events : events[n].kind = "moved" /\ p \in {events[n].from, events[n].to}
          THEN {"aheadOfEvents"} ELSE {})

\* addDocument(), for a file that should not have one
addDocument(i, p) ==
  /\ doc' = [doc EXCEPT ![i] = basic(i, p)]
  /\ marked' = IF contentIndexing(i) THEN marked \cup {i} ELSE marked

JobStep == UNCHANGED <<files, extracted, daemon, events, lists>>

\* NewFileIndexer, FirstRunIndexer: a known file is passed over.
newFile(p) ==
  /\ Running({"new", "firstRun"}) /\ p \in job.paths
  /\ Seen(at(p)) /\ Done(p)
  /\ IF \E i \in at(p) : ~hasDocument(i)
     THEN \E i \in at(p) : addDocument(i, p)
     ELSE UNCHANGED index
  /\ Missed(p, {})
  /\ UNCHANGED looked
  /\ JobStep

\* The first look at a file: is it known, and which of its times changed?
look(p) ==
  \E i \in at(p) :
    LET known == hasDocument(i)
        m     == known => doc[i].mtime # disk[i].mtime
        c     == known => doc[i].ctime # disk[i].ctime
    IN  IF m \/ c
        THEN looked' = [path |-> p, file |-> i, known |-> known, mTimeChanged |-> m, cTimeChanged |-> c]
        ELSE UNCHANGED looked

lookFirst(p) ==
  /\ Running({"modified", "unindexed"}) /\ p \in job.paths
  /\ Seen(at(p)) /\ Done(p)
  /\ IF at(p) = {} THEN UNCHANGED looked ELSE look(p)
  /\ Missed(p, {})
  /\ UNCHANGED index
  /\ JobStep

Reread(i, p, operations) ==
  doc' = [doc EXCEPT ![i].mtime = disk[i].mtime, ![i].ctime = disk[i].ctime,
                     ![i].xattr = IF "xattr" \in operations THEN disk[i].xattr ELSE @,
                     ![i].path  = IF "url" \in operations THEN p ELSE @]

\* ModifiedFileIndexer after its first look. A write changes both times; the
\* branch for a file whose ctime did not change is taken within one second only.
modifiedFile ==
  LET p == looked.path IN
  /\ job.kind = "modified" /\ looked # NoLook
  /\ looked' = NoLook /\ Seen(at(p))
  /\ IF ~looked.cTimeChanged
     THEN /\ doc' = [doc EXCEPT ![looked.file].mtime = disk[looked.file].mtime]
          /\ marked' = marked \cup {looked.file}
     ELSE IF at(p) = {} THEN UNCHANGED index
     ELSE \E i \in at(p) :
       IF looked.known /\ looked.file = i
       THEN /\ Reread(i, p, {"xattr", "url"})
            /\ marked' = IF contentIndexing(i) THEN marked \cup {i} ELSE marked
       ELSE addDocument(i, p)
  /\ Missed(p, IF at(p) # {looked.file} THEN {"replaced"} ELSE {})
  /\ UNCHANGED job
  /\ JobStep

\* Mutant: the walk does not look at the path of a known file.
unindexedFile_KeepsUrl ==
  LET p == looked.path IN
  /\ job.kind = "unindexed" /\ looked # NoLook
  /\ looked' = NoLook /\ Seen(at(p))
  /\ IF at(p) = {} THEN UNCHANGED index
     ELSE \E i \in at(p) :
       IF hasDocument(i)
       THEN /\ Reread(i, p, IF looked.cTimeChanged THEN {"xattr"} ELSE {})
            /\ marked' = IF looked.mTimeChanged \/ contentIndexing(i) THEN marked \cup {i} ELSE marked
       ELSE addDocument(i, p)
  /\ Missed(p, IF at(p) # {looked.file} THEN {"replaced"} ELSE {})
  /\ UNCHANGED job
  /\ JobStep

\* UnindexedFileIndexer after the look of its iterator
unindexedFile ==
  LET p == looked.path IN
  /\ job.kind = "unindexed" /\ looked # NoLook
  /\ looked' = NoLook /\ Seen(at(p))
  /\ IF at(p) = {} THEN UNCHANGED index
     ELSE \E i \in at(p) :
       IF hasDocument(i)
       THEN /\ Reread(i, p, IF looked.cTimeChanged THEN {"xattr", "url"} ELSE {})
            /\ marked' = IF looked.mTimeChanged \/ contentIndexing(i) THEN marked \cup {i} ELSE marked
       ELSE addDocument(i, p)
  /\ Missed(p, IF at(p) # {looked.file} THEN {"replaced"} ELSE {})
  /\ UNCHANGED job
  /\ JobStep

\* XAttrIndexer: the times are read with the attributes, the contents are not
\* looked at.
attributes(p) ==
  /\ Running({"xattr"}) /\ p \in job.paths
  /\ Seen(at(p)) /\ Done(p)
  /\ IF at(p) = {} THEN UNCHANGED index /\ Missed(p, {})
     ELSE \E i \in at(p) :
       IF hasDocument(i)
       THEN /\ Reread(i, p, {"xattr", "url"}) /\ UNCHANGED marked
            /\ Missed(p, IF doc[i].mtime # disk[i].mtime THEN {"attributesFirst"} ELSE {})
       ELSE /\ doc' = [doc EXCEPT ![i] = basic(i, p)] /\ marked' = marked \cup {i}
            /\ Missed(p, {})
  /\ UNCHANGED looked
  /\ JobStep

\* commit() and done()
finish ==
  /\ job # NoJob /\ job.paths = {} /\ looked = NoLook
  /\ job' = NoJob
  /\ UNCHANGED <<index, looked, lookedAt, missed>>
  /\ JobStep

-----------------------------------------------------------------------------
(* The content indexer, when nothing else is to be done. *)

\* App::index(): the file at the document's path has the document's id.
extract(i) ==
  /\ daemon = "on" /\ job = NoJob /\ lists = {} /\ extracted = Nothing /\ i \in marked
  /\ extracted' = [file |-> i, path |-> doc[i].path, same |-> at(doc[i].path) = {i},
                   read |-> FALSE, content |-> 0]
  /\ Missed(doc[i].path, {})
  /\ UNCHANGED <<files, index, job, looked, lookedAt, daemon, events, lists>>

\* The path is opened again to be read.
readContents ==
  LET p == extracted.path IN
  /\ extracted # Nothing /\ extracted.same /\ ~extracted.read
  /\ extracted' = [extracted EXCEPT !.read = TRUE,
                     !.content = IF at(p) = {} THEN 0 ELSE disk[CHOOSE j \in at(p) : TRUE].content]
  /\ Seen(at(p))
  /\ Missed(p, IF at(p) # {extracted.file} THEN {"replaced"} ELSE {})
  /\ UNCHANGED <<files, index, job, looked, daemon, events, lists>>

\* Mutant: the times of the file are stored with the contents that were read before.
storeContents_WithTimes ==
  LET i == extracted.file IN
  /\ extracted # Nothing
  /\ extracted.read \/ ~extracted.same
  /\ IF ~extracted.same THEN Removed({i})
     ELSE IF i \in marked /\ doc[i].path = extracted.path
     THEN doc' = [doc EXCEPT ![i].content = extracted.content, ![i].mtime = disk[i].mtime, ![i].ctime = disk[i].ctime]
          /\ marked' = marked \ {i}
     ELSE UNCHANGED index
  /\ extracted' = Nothing
  /\ UNCHANGED <<files, job, looked, lookedAt, daemon, events, lists, missed>>

\* The commit of App::processNextFile()
storeContents ==
  LET i == extracted.file IN
  /\ extracted # Nothing
  /\ extracted.read \/ ~extracted.same
  /\ IF ~extracted.same THEN Removed({i})
     ELSE IF i \in marked /\ doc[i].path = extracted.path
     THEN doc' = [doc EXCEPT ![i].content = extracted.content] /\ marked' = marked \ {i}
     ELSE UNCHANGED index
  /\ extracted' = Nothing
  /\ UNCHANGED <<files, job, looked, lookedAt, daemon, events, lists, missed>>

-----------------------------------------------------------------------------
(* balooctl index and clear, from a process of its own. Its transaction has the *)
(* write lock from its first look to its commit.                                 *)

Tool == /\ job = NoJob /\ missed = {} /\ UNCHANGED <<files, job, looked, extracted, daemon, events, lists>>

\* IndexEntry::indexFileNow(). What is extracted from a known file is not stored:
\* its document is replaced by the basic one.
indexFileNow(p) ==
  /\ Tool
  /\ \E i \in at(p) :
       /\ i \notin marked /\ doc[i].content = 0
       /\ doc' = [doc EXCEPT ![i] = [basic(i, p) EXCEPT !.content = IF hasDocument(i) THEN 0 ELSE disk[i].content]]
       /\ Missed(p, IF hasDocument(i) /\ disk[i].content # 0 THEN {"indexedNow"} ELSE {})
  /\ Seen(at(p)) /\ UNCHANGED marked

\* ClearEntry::clearEntryNow(): the document of the file that is there, or else
\* that of the path.
clearEntryNow(p) ==
  /\ Tool
  /\ LET S == IF at(p) # {} THEN at(p) ELSE documentsAt(p)
     IN  /\ \E i \in S : hasDocument(i)
         /\ Removed(S)
         /\ missed' = missed \cup (IF at(p) # {} THEN {"cleared"} ELSE {})
  /\ UNCHANGED lookedAt

-----------------------------------------------------------------------------

Init ==
  /\ second = 1 /\ version = 0
  /\ disk = [i \in Files |-> Absent] /\ doc = [i \in Files |-> Absent]
  /\ marked = {} /\ daemon = "off" /\ events = <<>> /\ lists = {}
  /\ job = NoJob /\ looked = NoLook /\ extracted = Nothing
  /\ lookedAt = [i \in Files |-> 0]
  /\ missed = {}

FileSystem == \/ tick
              \/ \E i \in Files : \/ write(i, version + 1) \/ write(i, 0)
                                  \/ setAttributes(i) \/ remove(i)
              \/ \E i \in Files, p \in Paths : create(i, p) \/ rename(i, p)

Jobs == \/ schedule \/ modifiedFile \/ unindexedFile \/ finish
        \/ \E p \in Paths : newFile(p) \/ lookFirst(p) \/ attributes(p)

Contents == (\E i \in Files : extract(i)) \/ readContents \/ storeContents

Tools == \E p \in Paths : indexFileNow(p) \/ clearEntryNow(p)

Next == FileSystem \/ Tools \/ start \/ stop \/ indexFile \/ followMove \/ Jobs \/ Contents

Spec == Init /\ [][Next]_vars

-----------------------------------------------------------------------------

\* What the variables hold; only a document can be marked.
TypeOK ==
  /\ second \in 1..MaxSecond /\ version \in 0..MaxVersion
  /\ \A i \in Files : {disk[i].path, doc[i].path} \subseteq Paths \cup {Nowhere}
  /\ marked \subseteq {i \in Files : hasDocument(i)}
  /\ job.paths \subseteq Paths
  /\ \A l \in lists : l.kind \in {"new", "modified", "xattr"} /\ l.path \in Paths
  /\ daemon = "off" => job = NoJob /\ lists = {} /\ events = <<>>

AtRest == /\ daemon = "on" /\ job = NoJob /\ lists = {} /\ events = <<>> /\ extracted = Nothing

\* When all lists are done with, every file has the document of its path and
\* attributes, with its present contents or a mark that they are to be read.
\* (A file written before XAttrIndexer looks at it for an earlier change is marked
\* by no one, and UnindexedFileIndexer finds nothing to do: "attributesFirst".)
Agrees(i) ==
  IF disk[i] = Absent THEN ~hasDocument(i)
  ELSE /\ doc[i].path = disk[i].path /\ doc[i].xattr = disk[i].xattr
       /\ doc[i].content = disk[i].content \/ i \in marked
DocumentsFollowFiles == AtRest /\ missed = {} => \A i \in Files : Agrees(i)

\* Between two jobs, equal times tell that there is nothing to be read again: a
\* change that a time hides would be found by no later event and no check.
TimesTell ==
  job = NoJob /\ missed = {} =>
    \A i \in Files :
      /\ hasDocument(i) /\ disk[i] # Absent
      /\ doc[i].mtime = disk[i].mtime /\ doc[i].ctime = disk[i].ctime
      => /\ doc[i].xattr = disk[i].xattr
         /\ doc[i].content = disk[i].content \/ i \in marked

\* All that is asked of the jobs: when all lists are done with, the documents are
\* those of the files; before that, equal times mean that there is nothing to read.
IndexFollowsFiles == TypeOK /\ DocumentsFollowFiles /\ TimesTell
=============================================================================
