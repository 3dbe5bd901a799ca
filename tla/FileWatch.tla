------------------------------ MODULE FileWatch -------------------------------
(***************************************************************************)
(* How changes of the file system reach the index: the kernel's queue of   *)
(* inotify events, KInotify (watches, cookies of moves), FileWatch and     *)
(* MetadataMover (kinotify.cpp, filewatch.cpp, metadatamover.cpp), with    *)
(* PendingFileQueue and the scheduler reduced to the two sets of paths     *)
(* that wait in them; PendingFileQueue, FileIndexScheduler and             *)
(* BasicIndexers have modules of their own.                                *)
(*                                                                         *)
(* The user changes a tree of folders and files. The kernel queues an      *)
(* event for every watched folder concerned, named by the watch and the    *)
(* entry; KInotify turns it into a path by the table of the paths its      *)
(* watches had, and everything behind it knows only that path. So a path   *)
(* may be out of date three times: in the queue, in the table, and in the  *)
(* lists of paths that wait for an indexer, which looks at the disk again. *)
(***************************************************************************)
EXTENDS Naturals, Sequences, FiniteSets, SequencesExt

CONSTANTS
  Folders, Files,   \* inodes; a new folder or file has one that is not in use
  Home, Outside,    \* the indexed folder, and one that is not
  Existing,         \* folders and files there from the start
  Names,
  Hidden,           \* names that are not indexed
  NamePrefixes,     \* pairs of names the first of which begins the second
  Unborn, Gone, NoPath,
  QueueLimit,       \* the kernel's limit of queued events
  MaxChanges,       \* bound: changes of the file system
  MaxConfigs        \* bound: changes of the configuration

Inodes  == Folders \cup Files
Parents == Folders \cup {Home, Outside}
Places  == Parents \X Names
Ids     == Inodes \cup {Home, Outside}
Watchable == Folders \cup {Home}
Walks   == [filePath : {NoPath} \cup Seq(Names), toList : SUBSET Seq(Names)]

ASSUME ConstantsAssumption ==
  /\ IsFiniteSet(Inodes) /\ Folders \cap Files = {} /\ {Home, Outside} \cap Inodes = {} /\ Home # Outside
  /\ Existing \in [Inodes -> Places \cup {Unborn}]
  /\ Hidden \subseteq Names /\ NamePrefixes \subseteq Names \X Names
  /\ QueueLimit \in Nat \ {0}
  /\ {MaxChanges, MaxConfigs} \subseteq Nat
  /\ {Unborn, Gone} \cap Places = {} /\ Unborn # Gone
  /\ NoPath \notin Seq(Names) \cup Walks
  \* What exists is in a folder that exists, at a place of its own.
  /\ \A i \in Inodes : Existing[i] \in Places =>
        /\ Existing[i][1] \in Inodes => Existing[Existing[i][1]] \in Places
        /\ \A j \in Inodes \ {i} : Existing[j] # Existing[i]

VARIABLES
  place,        \* folder and name of an inode
  changes,
  queue,        \* the kernel's events
  m_dirWatch,   \* there is a KInotify
  watches,      \* the kernel's watches and the two tables of KInotify
  m_paths,      \* folders to watch with all that is in them
  m_dirIter,    \* the walk through one of them, or NoPath
  cookies,      \* first halves of moves
  pending,      \* paths in PendingFileQueue
  lists,        \* paths in the lists of the scheduler
  housekeeping, \* m_checkUnindexedFiles, m_checkStaleIndexEntries
  doc,          \* folder and name of a document
  touched,      \* times of the inode that are not the document's
  excluded,     \* paths of the folders the configuration excludes
  configs,
  disturbed     \* what happened that the watcher does not keep up with (below)

fileSystem == <<place, changes>>
kinotify   == <<m_dirWatch, watches, m_paths, m_dirIter, cookies>>
index      == <<doc, touched>>
waiting    == <<pending, lists, housekeeping>>
settings   == <<excluded, configs>>
vars       == <<fileSystem, queue, kinotify, index, waiting, settings, disturbed>>

-----------------------------------------------------------------------------
(* Paths are sequences of names below Home; what is elsewhere has none. *)

\* The way up ends at Home, elsewhere, or at an inode that is its own ancestor.
pathsIn(tree) ==
  LET path[n \in 0..Cardinality(Inodes)] == [i \in Ids |->
        IF i = Home THEN <<>>
        ELSE IF i = Outside \/ n = 0 THEN NoPath
        ELSE IF tree[i] \notin Places THEN NoPath
        ELSE LET above == path[n - 1][tree[i][1]]
             IN  IF above = NoPath THEN NoPath ELSE Append(above, tree[i][2])]
  IN  path[Cardinality(Inodes)]

folderOf(path) == SubSeq(path, 1, Len(path) - 1)
At(tree, path)  ==
  LET paths == pathsIn(tree) IN
  IF path = NoPath THEN {} ELSE {i \in Inodes \cup {Home} : paths[i] = path}

foldersAt(path) == At(place, path) \cap (Folders \cup {Home})

\* Ids at or below i.
below(tree, i) ==
  LET within[n \in 0..Cardinality(Inodes)] ==
        IF n = 0 THEN {i}
        ELSE LET nearer == within[n - 1]
             IN  {i} \cup {j \in Inodes : tree[j] \in Places /\ tree[j][1] \in nearer}
  IN  within[Cardinality(Inodes)] \cap Inodes

\* FileIndexerConfig: no name on the way is hidden, no folder on it excluded;
\* what is not a folder now counts as a file.
shouldFileBeIndexed(name) == name \notin Hidden
indexable(path, S) ==
  LET folder == IF foldersAt(path) # {} THEN path ELSE folderOf(path) IN
  /\ \A n \in DOMAIN path : shouldFileBeIndexed(path[n])
  /\ \A p \in S : ~IsPrefix(p, folder)
shouldBeIndexed(path) == path # NoPath /\ indexable(path, excluded)

\* The path begins, as a string, with that of a folder or of a file.
startsWith(path, start, isDir) ==
  \/ IsPrefix(start, path)
  \/ /\ ~isDir /\ start # <<>> /\ Len(path) >= Len(start)
     /\ IsPrefix(folderOf(start), path)
     /\ <<Last(start), path[Len(start)]>> \in NamePrefixes

-----------------------------------------------------------------------------
(* The file system and its events. *)

Event(kind, wd, name, isDir, cookie) ==
  [event |-> kind, wd |-> wd, name |-> name, isDir |-> isDir, cookie |-> cookie]
Overflow == [event |-> "QueueOverflow"]

\* The kernel queues the events of watched folders while there is room.
heard(e) == IF e.wd \in watches.kernel THEN <<e>> ELSE <<>>

queued(events) ==
  LET seen == queue \o events
  IN  IF Len(seen) <= QueueLimit THEN seen
      ELSE Append(SubSeq(seen, 1, QueueLimit), Overflow)

Walking == m_paths # {} \/ m_dirIter # NoPath

\* A first half of a move is not followed by a second.
InQueue(kind, cookie) == \E n \in DOMAIN queue : queue[n].event = kind /\ queue[n].cookie = cookie
HalfMoved ==
  \/ \E c \in cookies : ~InQueue("MoveTo", c.cookie)
  \/ \E n \in 1..changes : InQueue("MoveFrom", n) /\ ~InQueue("MoveTo", n)

Settled == queue = <<>> /\ cookies = {} /\ pending = {} /\ lists = {}

Notify(events, causes) ==
  /\ queue' = queued(events)
  /\ disturbed' = disturbed \cup causes
                          \cup (IF Overflow \in Range(queue') THEN {"overflow"} ELSE {})
                          \cup (IF Walking THEN {"walk"} ELSE {})
                          \cup (IF HalfMoved THEN {"halfMoved"} ELSE {})

\* Bound: at most MaxChanges, and none after one that is not followed.
Change == changes < MaxChanges /\ disturbed = {} /\ changes' = changes + 1

isParent(p) == p \in Inodes => place[p] \in Places
Free(at)    == \A i \in Inodes : place[i] # at

create(i, at) ==
  /\ Change /\ place[i] = Unborn /\ isParent(at[1]) /\ Free(at)
  /\ place' = [place EXCEPT ![i] = at]
  /\ Notify(heard(Event("Create", at[1], at[2], i \in Folders, 0)), {})
  /\ UNCHANGED <<kinotify, index, waiting, settings>>

write(f) ==
  /\ Change /\ place[f] \in Places
  /\ touched' = [touched EXCEPT ![f] = {"mtime", "ctime"}]
  /\ Notify(heard(Event("Modify", place[f][1], place[f][2], FALSE, 0)), {})
  /\ UNCHANGED <<place, kinotify, doc, waiting, settings>>

remove(i) ==
  /\ Change /\ place[i] \in Places /\ \A j \in Inodes : place[j] \notin {i} \X Names
  /\ place' = [place EXCEPT ![i] = Gone]
  /\ Notify(IF i \in Folders THEN heard(Event("DeleteSelf", i, place[i][2], TRUE, 0))
            ELSE heard(Event("Delete", place[i][1], place[i][2], FALSE, 0)),
            IF i \in Folders \ watches.kernel THEN {"notYetWatched"} ELSE {})
  /\ watches' = [watches EXCEPT !.kernel = @ \ {i}]
  /\ UNCHANGED <<m_dirWatch, m_paths, m_dirIter, cookies, index, waiting, settings>>

\* A file may replace a file; no event tells of the one that is overwritten.
\* The watcher keeps up with a move between folders it watches, and with one from
\* elsewhere to where nothing is; with that of a folder, only while nothing waits,
\* when no folder is in it and, where it is watched, its new path is one that is
\* indexed.
keepsUpWithMove(i, at) ==
  LET to == pathsIn(place)[at[1]] IN
  /\ shouldBeIndexed(to) => at[1] \in watches.kernel
  /\ Free(at) \/ place[i][1] \in watches.kernel
  /\ i \in Folders => /\ Settled
                      /\ i \in watches.kernel
                      /\ below(place, i) \cap Folders = {i}
                      /\ at[1] \in watches.kernel => to # NoPath /\ shouldBeIndexed(Append(to, at[2]))

rename(i, at) ==
  LET over == {j \in Inodes : place[j] = at}
  IN  /\ Change /\ place[i] \in Places /\ isParent(at[1]) /\ at # place[i]
      /\ at[1] \notin below(place, i) /\ (over # {} => {i} \cup over \subseteq Files)
      /\ place' = [j \in Inodes |-> IF j = i THEN at ELSE IF j \in over THEN Gone ELSE place[j]]
      /\ touched' = [touched EXCEPT ![i] = @ \cup {"ctime"}]
      /\ Notify(heard(Event("MoveFrom", place[i][1], place[i][2], i \in Folders, changes'))
                   \o heard(Event("MoveTo", at[1], at[2], i \in Folders, changes')),
                 IF keepsUpWithMove(i, at) THEN {} ELSE {"move"})
      /\ UNCHANGED <<kinotify, doc, waiting, settings>>

-----------------------------------------------------------------------------
(* MetadataMover and the documents. *)

Known(i) == doc[i] \in Places
documentId(d, path) == IF At(d, path) = {} THEN {} ELSE {CHOOSE i \in At(d, path) : TRUE}

removeMetadata(d, path, isDir) ==
  [j \in Inodes |-> IF \E i \in documentId(d, path) : j = i \/ (isDir /\ j \in below(d, i))
                    THEN Gone ELSE d[j]]

\* handleFileRemoved(), and enqueue() of a removal, drop what waits at or below
\* the path; that of a watch in no table is "/".
without(S, path, isDir) ==
  IF path = NoPath THEN {}
  ELSE {e \in S : e.path # path /\ ~(isDir /\ IsPrefix(path, e.path))}

removeFileMetadata(path, isDir) ==
  /\ doc' = removeMetadata(doc, path, isDir)
  /\ pending' = without(pending, path, isDir)
  /\ lists' = without(lists, path, isDir)

Job(kind, path) == [job |-> kind, path |-> path]

\* Mutant: a document is moved below a folder that is not known.
updateMetadata_NoParent(d, id, parent, to) ==
  IF id = {} THEN d
  ELSE [d EXCEPT ![CHOOSE i \in id : TRUE] =
                   <<IF parent = {} THEN NoPath ELSE CHOOSE p \in parent : TRUE, Last(to)>>]

updateMetadata(d, id, parent, to) ==
  IF id = {} \/ parent = {} THEN d
  ELSE [d EXCEPT ![CHOOSE i \in id : TRUE] = <<CHOOSE p \in parent : TRUE, Last(to)>>]

movedWithoutData(id, parent, to) ==
  IF id = {} THEN {Job("new", to)}
  ELSE IF parent = {} THEN {Job("new", folderOf(to))}
  ELSE {}

\* Mutant: the document of an overwritten file stays.
moveFileMetadata_KeepsTarget(from, to, isDir) ==
  LET id      == documentId(doc, from)
      parent  == documentId(doc, folderOf(to))
  IN  /\ doc' = updateMetadata(doc, id, parent, to)
      /\ lists' = without(lists, to, isDir) \cup movedWithoutData(id, parent, to)
      /\ disturbed' = disturbed \cup (IF id # {} /\ parent = {} THEN {"parentUnknown"} ELSE {})
      /\ UNCHANGED pending

moveFileMetadata(from, to, isDir) ==
  LET removed == removeMetadata(doc, to, isDir)
      id      == documentId(removed, from)
      parent  == documentId(removed, folderOf(to))
  IN  /\ doc' = updateMetadata(removed, id, parent, to)
      /\ lists' = without(lists, to, isDir) \cup movedWithoutData(id, parent, to)
      /\ disturbed' = disturbed \cup (IF id # {} /\ parent = {} THEN {"parentUnknown"} ELSE {})
      /\ UNCHANGED pending

\* A folder or file moved to a place that is not indexed is removed.
slotFileMoved(from, to, isDir) ==
  IF shouldBeIndexed(to) THEN moveFileMetadata(from, to, isDir)
  ELSE removeFileMetadata(from, isDir) /\ UNCHANGED disturbed

-----------------------------------------------------------------------------
(* KInotify. *)

NoWatches == [kernel |-> {}, path |-> [i \in Watchable |-> NoPath], wd |-> {}]

insertWatch(w, i, path) == [w EXCEPT !.path[i] = path,
                                     !.wd = {e \in @ : e[1] # path} \cup {<<path, i>>}]

\* addWatch() of folders that are there
addWatches(w, S) ==
  LET path == pathsIn(place) IN
  [kernel |-> w.kernel \cup S,
   path   |-> [i \in DOMAIN w.path |-> IF i \in S THEN path[i] ELSE w.path[i]],
   wd     |-> {e \in w.wd : \A i \in S : e[1] # path[i]} \cup {<<path[i], i>> : i \in S}]

removeWatches(w, S) ==
  [kernel |-> w.kernel \ S,
   path   |-> [i \in DOMAIN w.path |-> IF i \in S THEN NoPath ELSE w.path[i]],
   wd     |-> {e \in w.wd : \A i \in S : e[1] # w.path[i]}]

watchesAt(path, isDir) ==
  {i \in DOMAIN watches.path : watches.path[i] # NoPath /\ startsWith(watches.path[i], path, isDir)}

\* The walk under way is given up as a whole.
removeWatch(path, isDir) ==
  /\ watches' = removeWatches(watches, watchesAt(path, isDir))
  /\ m_paths' = {p \in m_paths : ~startsWith(p, path, isDir)}
  /\ m_dirIter' = IF m_dirIter # NoPath /\ m_dirIter.filePath # NoPath
                     /\ startsWith(m_dirIter.filePath, path, isDir)
                     /\ ~(isDir /\ m_dirIter.filePath = path)
                  THEN NoPath ELSE m_dirIter

\* What goes with it: folders elsewhere that the walk had still to read, and the
\* watches of folders whose names begin with that of a file.
lostWith(path, isDir) ==
  (IF m_dirIter # m_dirIter' /\ \E p \in m_dirIter.toList : ~IsPrefix(path, p) THEN {"walkGivenUp"} ELSE {})
    \cup (IF ~isDir /\ watchesAt(path, isDir) # {} THEN {"namePrefix"} ELSE {})

subfolders(path) ==
  LET paths == pathsIn(place) IN
  {i \in Folders : /\ paths[i] # NoPath /\ folderOf(paths[i]) = path
                   /\ shouldBeIndexed(paths[i])}

\* _k_addWatches(): a walk of each folder of m_paths in turn, which is watched
\* at once; installedWatches() after the last.
nextWalk ==
  /\ m_dirWatch
  /\ IF m_dirIter = NoPath THEN m_paths # {} ELSE m_dirIter.toList = {}
  /\ IF m_paths = {}
     THEN m_dirIter' = NoPath /\ UNCHANGED <<m_paths, watches>>
     ELSE \E p \in m_paths :
            /\ m_paths' = m_paths \ {p}
            /\ IF shouldBeIndexed(p)
               THEN /\ m_dirIter' = [filePath |-> p, toList |-> {p}]
                    /\ watches' = addWatches(watches, foldersAt(p))
               ELSE /\ m_dirIter' = [filePath |-> NoPath, toList |-> {}]
                    /\ UNCHANGED watches
  /\ UNCHANGED <<fileSystem, queue, m_dirWatch, disturbed, cookies, index, waiting, settings>>

\* A folder is read after it is watched: its subfolders are watched, and read
\* later.
addNextWatches ==
  /\ m_dirWatch /\ m_dirIter # NoPath
  /\ \E p \in m_dirIter.toList :
       LET found == subfolders(p)
           paths == {pathsIn(place)[i] : i \in found}
       IN  /\ \E last \in paths \cup {IF paths = {} THEN m_dirIter.filePath ELSE CHOOSE q \in paths : TRUE} :
                m_dirIter' = [filePath |-> last, toList |-> (m_dirIter.toList \ {p}) \cup paths]
           /\ watches' = addWatches(watches, found)
  /\ UNCHANGED <<fileSystem, queue, m_dirWatch, disturbed, m_paths, cookies, index, waiting, settings>>

\* handleDirCreated(): everything in a folder that is there when it is looked at
foundIn(path) ==
  LET paths == pathsIn(place) IN
  IF ~shouldBeIndexed(path) THEN {}
  ELSE {i \in Inodes : /\ paths[i] # NoPath /\ IsPrefix(path, paths[i])
                       /\ shouldBeIndexed(paths[i])}

found(path, isDir) == IF isDir THEN foundIn(path) ELSE {}

announceNew(path, isDir) ==
  pending' = pending \cup {Job("new", path)} \cup {Job("new", pathsIn(place)[i]) : i \in found(path, isDir)}

\* created(), with a look into a folder
created(path, isDir) ==
  /\ announceNew(path, isDir)
  /\ watches' = addWatches(watches, found(path, isDir) \cap Folders)
  /\ queue' = Tail(queue)
  /\ UNCHANGED <<lists, doc, m_dirWatch, disturbed>>

\* An event of a watch that is in no table anymore names no path of the index.
pathOf(e) ==
  IF e = Overflow THEN NoPath
  ELSE IF e.event = "DeleteSelf" THEN watches.path[e.wd]
  ELSE IF watches.path[e.wd] = NoPath THEN NoPath
  ELSE Append(watches.path[e.wd], e.name)

NextEvent(kinds) == m_dirWatch /\ queue # <<>> /\ Head(queue).event \in kinds

Handled == UNCHANGED <<fileSystem, m_paths, m_dirIter, touched, housekeeping, settings>>

ignore ==
  /\ NextEvent({"Create", "Modify", "Delete", "MoveFrom", "MoveTo", "QueueOverflow"})
  /\ pathOf(Head(queue)) = NoPath
  /\ queue' = Tail(queue)
  /\ UNCHANGED <<watches, m_dirWatch, doc, pending, lists, cookies, disturbed>>
  /\ Handled

eventCreate ==
  LET e == Head(queue) IN
  /\ NextEvent({"Create"}) /\ pathOf(e) # NoPath
  /\ created(pathOf(e), e.isDir)
  /\ UNCHANGED cookies
  /\ Handled

eventModify ==
  LET e == Head(queue) IN
  /\ NextEvent({"Modify"}) /\ pathOf(e) # NoPath
  /\ pending' = pending \cup {Job("modified", pathOf(e))}
  /\ queue' = Tail(queue)
  /\ UNCHANGED <<watches, m_dirWatch, lists, doc, cookies, disturbed>>
  /\ Handled

\* Folders are known to be gone by the event of their own watch.
eventDelete ==
  LET e == Head(queue) IN
  /\ NextEvent({"Delete", "DeleteSelf"})
  /\ e.event = "Delete" => pathOf(e) # NoPath
  /\ removeFileMetadata(pathOf(e), e.isDir)
  /\ watches' = IF e.event = "DeleteSelf" THEN removeWatches(watches, {e.wd}) ELSE watches
  /\ queue' = Tail(queue)
  /\ UNCHANGED <<m_dirWatch, cookies, disturbed>>
  /\ Handled

eventMoveFrom ==
  LET e == Head(queue) IN
  /\ NextEvent({"MoveFrom"}) /\ pathOf(e) # NoPath
  /\ cookies' = cookies \cup {[cookie |-> e.cookie, path |-> pathOf(e), isDir |-> e.isDir]}
  /\ queue' = Tail(queue)
  /\ UNCHANGED <<watches, m_dirWatch, pending, lists, doc, disturbed>>
  /\ Handled

firstHalf(e) == {c \in cookies : c.cookie = e.cookie}

\* Mutant: the old path of a folder that moved stays among those watched.
movedWatch_KeepsOld(w, from, i, to) == insertWatch(w, i, to)

\* The table gets the new path of the folder itself.
movedWatch(w, from, i, to) == insertWatch([w EXCEPT !.wd = @ \ {<<from, i>>}], i, to)

watchedAs(path) == {i \in DOMAIN watches.path : <<path, i>> \in watches.wd}

\* The second half of a move
eventMoved ==
  LET e == Head(queue) IN
  /\ NextEvent({"MoveTo"}) /\ pathOf(e) # NoPath /\ firstHalf(e) # {}
  /\ \E c \in firstHalf(e) :
       /\ slotFileMoved(c.path, pathOf(e), e.isDir)
       /\ watches' = IF e.isDir /\ watchedAs(c.path) # {}
                     THEN movedWatch(watches, c.path, CHOOSE i \in watchedAs(c.path) : TRUE, pathOf(e))
                     ELSE watches
  /\ cookies' = cookies \ firstHalf(e)
  /\ queue' = Tail(queue)
  /\ UNCHANGED m_dirWatch
  /\ Handled

\* The second half of a move from where nothing is watched
eventMovedIn ==
  LET e == Head(queue) IN
  /\ NextEvent({"MoveTo"}) /\ pathOf(e) # NoPath /\ firstHalf(e) = {}
  /\ created(pathOf(e), e.isDir)
  /\ UNCHANGED cookies
  /\ Handled

\* The limit of watches is that of all programs of the user and may be reached
\* by any addWatch(); FileWatch deletes KInotify.
reachLimit ==
  /\ m_dirWatch
  /\ \/ Walking /\ UNCHANGED pending
     \/ LET e == Head(queue) IN
        /\ NextEvent({"Create", "MoveTo"}) /\ e.isDir /\ pathOf(e) # NoPath /\ firstHalf(e) = {}
        /\ announceNew(pathOf(e), TRUE)
  /\ m_dirWatch' = FALSE /\ watches' = NoWatches /\ queue' = <<>>
  /\ m_paths' = {} /\ m_dirIter' = NoPath /\ cookies' = {}
  /\ disturbed' = disturbed \cup {"limit"}
  /\ UNCHANGED <<fileSystem, index, lists, housekeeping, settings>>

\* slotClearCookies(): a move to where nothing is watched. A
\* second is time enough for the second half to be read.
expireCookie ==
  /\ m_dirWatch
  /\ \E c \in cookies :
       /\ ~InQueue("MoveTo", c.cookie)
       /\ removeWatch(c.path, c.isDir)
       /\ removeFileMetadata(c.path, c.isDir)
       /\ cookies' = cookies \ {c}
       /\ disturbed' = disturbed \cup lostWith(c.path, c.isDir)
  /\ UNCHANGED <<fileSystem, queue, m_dirWatch, touched, housekeeping, settings>>

-----------------------------------------------------------------------------
(* What waits becomes known to the scheduler and is looked at on the disk.   *)

announce ==
  /\ \E e \in pending : pending' = pending \ {e} /\ lists' = lists \cup {e}
  /\ UNCHANGED <<fileSystem, queue, kinotify, index, housekeeping, settings, disturbed>>

\* addPath(): the folders above a new file are entered up to one that is known.
entered(d, S) ==
  [j \in Inodes |->
     IF d[j] \notin Places
        /\ \E i \in S : /\ i \in below(place, j)
                       /\ \A k \in Inodes : i \in below(place, k) /\ k \in below(place, j)
                                           => d[k] \notin Places
     THEN place[j] ELSE d[j]]

\* They have no times yet.
enteredTimes(d, S) ==
  [j \in Inodes |-> IF j \in S THEN {}
                    ELSE IF entered(d, S)[j] # d[j] THEN {"mtime", "ctime"} ELSE touched[j]]

addDocuments(d, S) == doc' = entered(d, S) /\ touched' = enteredTimes(d, S)

\* The disk is looked at before the events that tell what became of the path.
Ahead(path) ==
  \/ \E n \in DOMAIN queue : LET p == pathOf(queue[n]) IN p # NoPath /\ IsPrefix(p, path)
  \/ \E c \in cookies : IsPrefix(c.path, path)

\* Jobs that begin with the lists of the scheduler
Takes(kind, path) ==
  /\ Job(kind, path) \in lists
  /\ lists' = lists \ {Job(kind, path)}
  /\ disturbed' = disturbed \cup (IF Ahead(path) THEN {"aheadOfEvents"} ELSE {})
  /\ UNCHANGED <<fileSystem, queue, kinotify, pending, housekeeping, settings>>

\* NewFileIndexer: of a file only its own name is looked at.
\* Mutant: the name is not looked at.
mayBeNew_AnyName(i, path) == i \in Folders => shouldBeIndexed(path)

mayBeNew(i, path) == IF i \in Folders THEN shouldBeIndexed(path) ELSE shouldFileBeIndexed(Last(path))

newFile(path) ==
  LET new == {i \in At(place, path) \cap Inodes : mayBeNew(i, path) /\ ~Known(i)} IN
  /\ Takes("new", path)
  /\ addDocuments(doc, new)

\* ModifiedFileIndexer: the name is written again only when the ctime changed.
modifiedFile(path) ==
  LET here    == {i \in At(place, path) \cap Inodes : shouldFileBeIndexed(Last(path))}
      known   == {i \in here : Known(i)}
      renamed == {i \in known : "ctime" \in touched[i]}
      content == {i \in known \cap Files : touched[i] # {}}
  IN  /\ Takes("modified", path)
      /\ doc' = [j \in Inodes |-> IF j \in renamed THEN place[j] ELSE entered(doc, here \ known)[j]]
      /\ touched' = [j \in Inodes |-> IF j \in renamed \cup content THEN {}
                                      ELSE enteredTimes(doc, here \ known)[j]]

shouldDelete(j) == LET path == pathsIn(doc)[j] IN At(place, path) = {} \/ ~shouldBeIndexed(path)

\* A document goes when it and all that is above and below it should.
removedRecursively(i, j) ==
  /\ j \in below(doc, i)
  /\ \A k \in below(doc, i) : k \in below(doc, j) \/ j \in below(doc, k) => shouldDelete(k)

\* IndexCleaner looks at what the index has below excluded folders.
clean ==
  /\ "stale" \in housekeeping /\ lists = {}
  /\ housekeeping' = housekeeping \ {"stale"}
  /\ doc' = [j \in Inodes |->
       IF \E p \in excluded : \E i \in At(place, p) \cap Inodes : Known(i) /\ removedRecursively(i, j)
       THEN Gone ELSE doc[j]]
  /\ UNCHANGED <<fileSystem, queue, kinotify, touched, pending, lists, settings, disturbed>>

\* UnindexedFileIndexer walks the disk.
check ==
  LET paths   == pathsIn(place)
      walked  == {i \in Inodes : shouldBeIndexed(paths[i])}
      changed == {i \in walked : Known(i) /\ touched[i] # {} /\ (i \in Folders => "ctime" \in touched[i])}
      new     == {i \in walked : ~Known(i)}
  IN  /\ housekeeping = {"unindexed"} /\ lists = {}
      /\ housekeeping' = {}
      /\ doc' = [j \in Inodes |-> IF j \in changed /\ "ctime" \in touched[j] THEN place[j]
                                  ELSE entered(doc, new)[j]]
      /\ touched' = [j \in Inodes |-> IF j \in changed \cup new THEN {} ELSE touched[j]]
      /\ disturbed' = disturbed \cup (IF queue # <<>> \/ cookies # {} THEN {"aheadOfEvents"} ELSE {})
      /\ UNCHANGED <<fileSystem, queue, kinotify, pending, lists, settings>>

-----------------------------------------------------------------------------
(* MainHub::updateConfig(): a folder is excluded, or no longer.             *)

configure(path) ==
  LET listed(S) == {e \in S : indexable(e.path, excluded')} IN
  /\ configs < MaxConfigs /\ disturbed = {} /\ configs' = configs + 1
  /\ foldersAt(path) # {}
  /\ IF path \in excluded
     THEN /\ excluded' = excluded \ {path}
          /\ m_paths' = IF ~m_dirWatch \/ watchedAs(path) # {}
                        THEN m_paths ELSE m_paths \cup {path}
          /\ UNCHANGED <<watches, m_dirIter>>
     ELSE /\ excluded' = excluded \cup {path}
          /\ removeWatch(path, TRUE)
  /\ lists' = listed(lists)
  /\ housekeeping' = {"stale", "unindexed"}
  /\ disturbed' = disturbed \cup (IF Settled /\ (path \in excluded => "stale" \notin housekeeping)
                               THEN {} ELSE {"excluded"})
                          \cup (IF path \in excluded THEN {} ELSE lostWith(path, TRUE))
  /\ UNCHANGED <<fileSystem, queue, m_dirWatch, cookies, index, pending>>

-----------------------------------------------------------------------------

Init ==
  /\ place = Existing /\ changes = 0
  /\ queue = <<>> /\ m_dirWatch = TRUE /\ watches = NoWatches
  /\ m_paths = {<<>>} /\ m_dirIter = NoPath
  /\ cookies = {}
  /\ pending = {} /\ lists = {} /\ housekeeping = {"stale", "unindexed"}
  /\ doc = [i \in Inodes |-> Gone] /\ touched = [i \in Inodes |-> {}]
  /\ excluded = {} /\ configs = 0
  /\ disturbed = {}

User == \/ \E i \in Inodes, at \in Places : create(i, at) \/ rename(i, at)
        \/ \E f \in Files : write(f)
        \/ \E i \in Inodes : remove(i)
        \/ \E n \in Names : configure(<<n>>)

Watcher == nextWalk \/ addNextWatches \/ ignore \/ eventCreate \/ eventModify \/ eventDelete
           \/ eventMoveFrom \/ eventMoved \/ eventMovedIn \/ expireCookie
           \/ reachLimit

Indexers == \/ announce \/ clean \/ check
            \/ \E e \in lists : newFile(e.path) \/ modifiedFile(e.path)

Quiet == Settled /\ ~Walking /\ housekeeping = {}

\* All is done when the user has stopped; TLC finds a deadlock where something
\* waits that nothing will bring on.
Done == Quiet /\ UNCHANGED vars

Next == User \/ Watcher \/ Indexers \/ Done

Spec == Init /\ [][Next]_vars

-----------------------------------------------------------------------------

Kinds     == {"Create", "Modify", "Delete", "DeleteSelf", "MoveFrom", "MoveTo"}
Events    == [event : Kinds, wd : Watchable, name : Names, isDir : BOOLEAN, cookie : Nat]
Jobs      == [job : {"new", "modified"}, path : Seq(Names)]
Cookies   == [cookie : Nat, path : Seq(Names), isDir : BOOLEAN]

\* What the variables hold; a document may be below any other.
TypeOK ==
  /\ place \in [Inodes -> Places \cup {Unborn, Gone}] /\ changes \in 0..MaxChanges
  /\ queue \in Seq(Events \cup {Overflow})
  /\ m_dirWatch \in BOOLEAN
  /\ watches \in [kernel : SUBSET Watchable,
                  path   : [Watchable -> {NoPath} \cup Seq(Names)],
                  wd     : SUBSET (({NoPath} \cup Seq(Names)) \X Watchable)]
  /\ m_paths \subseteq Seq(Names) /\ m_dirIter \in {NoPath} \cup Walks
  /\ cookies \subseteq Cookies
  /\ pending \subseteq Jobs /\ lists \subseteq Jobs
  /\ housekeeping \subseteq {"stale", "unindexed"}
  /\ doc \in [Inodes -> (Ids \X Names) \cup {Gone}]
  /\ touched \in [Inodes -> SUBSET {"mtime", "ctime"}]
  /\ excluded \subseteq Seq(Names) /\ configs \in 0..MaxConfigs

Belongs(i) == shouldBeIndexed(pathsIn(place)[i])

\* When nothing waits and nothing happened that the watcher does not keep up
\* with, the index has the folders and files that are to be indexed, each where
\* it is, and no other (kinotify.cpp, filewatch.cpp, metadatamover.cpp and the
\* jobs together). No document is ever below a file.
AsOnDisk == \A i \in Inodes : IF Belongs(i) THEN doc[i] = place[i] ELSE ~Known(i)
QuietIndexAgrees ==
  /\ \A i \in Inodes : doc[i] # Gone => Known(i)
  /\ Quiet /\ disturbed = {} => AsOnDisk

\* Then, too, the kernel watches exactly those folders, and both tables of
\* KInotify have their paths (watchPathHash and pathWatchHash).
WatchesFollowFolders ==
  Quiet /\ disturbed = {} =>
    /\ watches.kernel = {i \in Folders \cup {Home} : i = Home \/ Belongs(i)}
    /\ \A i \in watches.kernel : watches.path[i] = pathsIn(place)[i]
    /\ watches.wd = {<<watches.path[i], i>> : i \in watches.kernel}

\* Nothing with a hidden name, or in a folder of such a name, is in the index at
\* any time, whichever of the events, lists and walks brought it there.
NothingHiddenIsIndexed ==
  disturbed = {} => \A i \in Inodes : Known(i) => doc[i][2] \notin Hidden

\* A file moved into a folder that is not indexed yet is indexed there. The code
\* says "Parent directory not (yet) known, signaling newFile" of the file and
\* signals the folder (metadatamover.cpp:102), so its document stays where it was.
MovedFileIsSignalled == Quiet /\ disturbed \subseteq {"parentUnknown"} => AsOnDisk

=============================================================================
