---------------------------- MODULE FolderConfig ----------------------------
(***************************************************************************)
(* FileIndexerConfig: which folders are indexed, and what the parts that   *)
(* ask it make of the answer: the walks of FilteredDirIterator, the watches*)
(* of FileWatch::updateIndexedFoldersWatches(), the check for unindexed    *)
(* files and IndexCleaner. `balooctl config` edits the settings from a     *)
(* process of its own.                                                     *)
(*                                                                         *)
(* A path is the sequence of its names. Strings of paths end with a slash, *)
(* so that startsWith() is IsPrefix; the list, sorted by length, is searched*)
(* from its longest entry, so that the first match is the nearest folder.  *)
(***************************************************************************)
EXTENDS Naturals, SequencesExt

CONSTANTS
  Tree,         \* files and folders, without the root
  Leaves,       \* the files among them
  HiddenNames,  \* begin with a dot
  FilterNames,  \* names that a filter can exclude
  Medium,       \* where a removable medium can be mounted
  Included,     \* the folders that are included at first
  MaxEdits      \* bound: changes of the settings and mounts

VARIABLES
  settings,     \* baloofilerc: include, exclude, filters, hidden
  mounted,      \* is the medium mounted?
  config,       \* m_folderCache, filters and hidden of the daemon
  watched,      \* folders that inotify watches
  unwatched,    \* KInotify::m_paths, folders to be walked and watched
  documents,    \* paths in the index
  stale,        \* m_checkStaleIndexEntries
  unindexed,    \* m_checkUnindexedFiles
  job,          \* IndexCleaner or UnindexedFileIndexer, and the folders left to it
  edits,        \* number of edits so far
  gaps          \* what leaves documents or watches behind

vars == <<settings, mounted, config, watched, unwatched, documents, stale, unindexed,
          job, edits, gaps>>

Folders == Tree \ Leaves

NoJob == [kind |-> "none", folders |-> {}]

-----------------------------------------------------------------------------
(* The folder cache. *)

Configured(c) == c.include \cup c.exclude

\* folderInFolderList(): the longest entry that p lies in
Around(list, p) == {e \in list : IsPrefix(e, p)}
Nearest(list, p) == CHOOSE e \in Around(list, p) : \A f \in Around(list, p) : IsPrefix(f, e)

\* FolderCache::cleanup(): excluding a folder is redundant outside of every
\* configured folder and directly within an excluded one.
cleanup(c) ==
  [c EXCEPT !.exclude = {e \in @ : LET around == Configured(c) \ {e} IN
                           Around(around, e) # {} /\ Nearest(around, e) \in c.include}]

\* addFolderConfig() refuses a second entry for a path: inclusion comes first.
buildFolderCache(s, medium) ==
  cleanup([s EXCEPT !.exclude = (@ \cup (IF medium THEN {Medium} ELSE {})) \ s.include])

shouldFileBeIndexed(c, name) == (c.hidden \/ name \notin HiddenNames) /\ name \notin c.filters

\* Mutant: the filters are applied to the last name only.
shouldFolderBeIndexed_LastName(c, p) ==
  /\ Around(Configured(c), p) # {}
  /\ LET folder == Nearest(Configured(c), p) IN
       /\ folder \in c.include
       /\ folder # p => shouldFileBeIndexed(c, Last(p))

shouldFolderBeIndexed(c, p) ==
  /\ Around(Configured(c), p) # {}
  /\ LET folder == Nearest(Configured(c), p) IN
       /\ folder \in c.include
       /\ \A n \in Len(folder) + 1..Len(p) : shouldFileBeIndexed(c, p[n])

shouldBeIndexed(c, p) ==
  IF p \in Folders THEN shouldFolderBeIndexed(c, p)
  ELSE shouldFolderBeIndexed(c, Front(p)) /\ shouldFileBeIndexed(c, Last(p))

-----------------------------------------------------------------------------
(* FilteredDirIterator, which decides about a name when it meets it. *)

\* May the walk that has come to the folder around p go on to p?
Enters(c, p) ==
  IF p \in Leaves THEN shouldFileBeIndexed(c, Last(p))
  ELSE /\ Nearest(Configured(c), p) \in c.include
       /\ Nearest(Configured(c), p) = p \/ shouldFileBeIndexed(c, Last(p))

Walk(c, root) ==
  IF ~shouldFolderBeIndexed(c, root) THEN {}
  ELSE {p \in Tree : IsPrefix(root, p) /\ \A n \in Len(root) + 1..Len(p) : Enters(c, SubSeq(p, 1, n))}

-----------------------------------------------------------------------------
(* balooctl config. It reads the effective lists, with what is mounted, and *)
(* writes them as the user's.                                               *)

Effective == buildFolderCache(settings, mounted)

Edit == /\ edits < MaxEdits /\ edits' = edits + 1
        /\ UNCHANGED <<config, watched, unwatched, documents, stale, unindexed, job, gaps>>

\* Mutant: the list is the daemon's, which does not know of the last edits.
addIncludeFolder_FromDaemon(p) ==
  /\ p \notin Configured(config)
  /\ settings' = [settings EXCEPT !.include = config.include \cup {p}]
  /\ Edit /\ UNCHANGED mounted

addIncludeFolder(p) ==
  /\ p \notin Configured(Effective)
  /\ settings' = [settings EXCEPT !.include = Effective.include \cup {p}]
  /\ Edit /\ UNCHANGED mounted

removeIncludeFolder(p) ==
  /\ p \in Effective.include
  /\ settings' = [settings EXCEPT !.include = Effective.include \ {p}]
  /\ Edit /\ UNCHANGED mounted

addExcludeFolder(p) ==
  /\ p \notin Configured(Effective)
  /\ settings' = [settings EXCEPT !.exclude = Effective.exclude \cup {p}]
  /\ Edit /\ UNCHANGED mounted

removeExcludeFolder(p) ==
  /\ p \in Effective.exclude
  /\ settings' = [settings EXCEPT !.exclude = Effective.exclude \ {p}]
  /\ Edit /\ UNCHANGED mounted

\* excludeFilters are read and written as they are.
toggleFilter(name) ==
  /\ settings' = [settings EXCEPT !.filters = IF name \in @ THEN @ \ {name} ELSE @ \cup {name}]
  /\ Edit /\ UNCHANGED mounted

setIndexHidden ==
  /\ settings' = [settings EXCEPT !.hidden = ~@]
  /\ Edit /\ UNCHANGED mounted

\* StorageDevices: a mounted removable medium is not usable, and one that is
\* not mounted has no path. Nothing is connected to its signals.
mount ==
  /\ mounted' = ~mounted
  /\ Edit /\ UNCHANGED settings

-----------------------------------------------------------------------------
(* The daemon. *)

\* What a change from c to d makes the daemon miss.
Gaps(c, d) ==
  {cause \in {"includeRemoved", "filters", "aroundIncluded"} :
     CASE cause = "includeRemoved" -> ~ c.include \subseteq d.include
       [] cause = "filters"        -> c.filters # d.filters \/ c.hidden # d.hidden
       [] cause = "aroundIncluded" -> \E e \in d.exclude \ c.exclude, i \in d.include : IsPrefix(e, i)}

\* Mutant: folders that are excluded no longer are not watched again.
updateIndexedFoldersWatches_OnlyIncluded(c, d) ==
  LET ended == (d.exclude \ c.exclude) \cup (c.include \ d.include)
      begun == (d.include \ c.include)
      rest  == {w \in watched : \A e \in ended : ~IsPrefix(e, w)}
  IN  /\ watched' = rest
      /\ unwatched' = {u \in unwatched : \A e \in ended : ~IsPrefix(e, u)} \cup (begun \ rest)

\* updateIndexedFoldersWatches() with KInotify::removeWatch() and addWatch():
\* folders that were excluded or included until now are given up or followed.
updateIndexedFoldersWatches(c, d) ==
  LET ended == (d.exclude \ c.exclude) \cup (c.include \ d.include)
      begun == (c.exclude \ d.exclude) \cup (d.include \ c.include)
      rest  == {w \in watched : \A e \in ended : ~IsPrefix(e, w)}
  IN  /\ watched' = rest
      /\ unwatched' = {u \in unwatched : \A e \in ended : ~IsPrefix(e, u)} \cup (begun \ rest)

\* MainHub::updateConfig() with forceConfigUpdate()
updateConfig ==
  LET new == buildFolderCache(settings, mounted) IN
  /\ config # new
  /\ config' = new
  /\ updateIndexedFoldersWatches(config, new)
  /\ stale' = TRUE /\ unindexed' = TRUE
  /\ gaps' = gaps \cup Gaps(config, new)
  /\ UNCHANGED <<settings, mounted, documents, job, edits>>

\* _k_addWatches(), a folder of m_paths at a time
addWatches(root) ==
  /\ root \in unwatched /\ unwatched' = unwatched \ {root}
  /\ watched' = watched \cup (Walk(config, root) \cap Folders)
  /\ UNCHANGED <<settings, mounted, config, documents, stale, unindexed, job, edits, gaps>>

\* Mutant: the cleaner takes both flags.
schedule_BothFlags ==
  /\ job = NoJob /\ (stale \/ unindexed)
  /\ job' = IF stale THEN [kind |-> "clean", folders |-> config.exclude]
            ELSE [kind |-> "check", folders |-> config.include]
  /\ stale' = FALSE /\ unindexed' = FALSE
  /\ UNCHANGED <<settings, mounted, config, watched, unwatched, documents, edits, gaps>>

schedule ==
  /\ job = NoJob /\ (stale \/ unindexed)
  /\ job' = IF stale THEN [kind |-> "clean", folders |-> config.exclude]
            ELSE [kind |-> "check", folders |-> config.include]
  /\ stale' = FALSE /\ unindexed' = (stale /\ unindexed)
  /\ UNCHANGED <<settings, mounted, config, watched, unwatched, documents, edits, gaps>>

\* The documents and, above them, what the tree of ids holds
Known == {p \in Tree : \E d \in documents : IsPrefix(p, d)}

\* removeRecursively(): what is kept keeps all below it, and the folders around it.
removeRecursively(root) ==
  LET below   == {q \in Known : IsPrefix(root, q)}
      keepers == {q \in below : shouldBeIndexed(config, q)}
  IN  {p \in below : \A q \in keepers : ~IsPrefix(q, p) /\ ~IsPrefix(p, q)}

JobStep == UNCHANGED <<settings, mounted, config, watched, unwatched, stale, unindexed, edits>>

\* IndexCleaner passes over a folder that has no document of its own: that one
\* is there for the documents of included folders below it.
clean(folder) ==
  /\ job.kind = "clean" /\ folder \in job.folders
  /\ job' = [job EXCEPT !.folders = @ \ {folder}]
  /\ documents' = IF folder \in documents THEN documents \ removeRecursively(folder) ELSE documents
  /\ UNCHANGED gaps /\ JobStep

\* UnindexedFileIndexer with UnindexedFileIterator
check(folder) ==
  /\ job.kind = "check" /\ folder \in job.folders
  /\ job' = [job EXCEPT !.folders = @ \ {folder}]
  /\ documents' = documents \cup Walk(config, folder)
  /\ UNCHANGED gaps /\ JobStep

finish ==
  /\ job # NoJob /\ job.folders = {}
  /\ job' = NoJob
  /\ UNCHANGED <<documents, gaps>> /\ JobStep

Init ==
  /\ settings = [include |-> Included, exclude |-> {}, filters |-> {}, hidden |-> FALSE]
  /\ mounted = FALSE
  /\ config = buildFolderCache(settings, mounted)
  /\ watched = {} /\ unwatched = Included
  /\ documents = {} /\ stale = FALSE /\ unindexed = TRUE
  /\ job = NoJob /\ edits = 0 /\ gaps = {}

Balooctl == \/ \E p \in Folders : \/ addIncludeFolder(p) \/ removeIncludeFolder(p)
                                  \/ addExcludeFolder(p) \/ removeExcludeFolder(p)
            \/ \E name \in FilterNames : toggleFilter(name)
            \/ setIndexHidden

Daemon == \/ updateConfig \/ schedule \/ finish
          \/ \E f \in Folders : addWatches(f) \/ clean(f) \/ check(f)

Next == Balooctl \/ mount \/ Daemon

Spec == Init /\ [][Next]_vars

-----------------------------------------------------------------------------

\* What the variables hold; no path is both included and excluded.
TypeOK ==
  /\ Configured(settings) \cup Configured(config) \cup watched \cup unwatched \cup job.folders \subseteq Folders
  /\ documents \subseteq Tree
  /\ config.include \cap config.exclude = {}
  /\ {stale, unindexed, mounted} \subseteq BOOLEAN /\ edits \in 0..MaxEdits

\* shouldFolderBeIndexed() and FilteredDirIterator decide apart from each other,
\* one by all names of a path and one name by name: the walks from the included
\* folders reach exactly what should be indexed.
WalksReachWhatIsIndexed ==
  UNION {Walk(config, root) : root \in config.include} = {p \in Tree : shouldBeIndexed(config, p)}

\* Dropping redundant entries, and writing back the list that is left, changes
\* what is indexed only at and below the folder that was edited.
StaysLocal ==
  \A e \in Folders :
    addIncludeFolder(e) \/ removeIncludeFolder(e) \/ addExcludeFolder(e) \/ removeExcludeFolder(e) =>
      \A p \in Folders : ~IsPrefix(e, p) =>
        shouldFolderBeIndexed(Effective, p) = shouldFolderBeIndexed(Effective', p)
EditsStayLocal == [][StaysLocal]_vars

UpToDate == /\ config = Effective
            /\ job = NoJob /\ ~stale /\ ~unindexed

\* Once the jobs that updateConfig() asks for are done, the index has what should
\* be indexed, and nothing else but folders around it.
DocumentsFollowConfig ==
  UpToDate /\ gaps \cap {"includeRemoved", "filters"} = {} =>
    LET indexed == {p \in Tree : shouldBeIndexed(config, p)}
    IN  /\ indexed \subseteq documents
        /\ \A p \in documents \ indexed : \E q \in indexed : IsPrefix(p, q)

\* The folders that are indexed are watched, and no others.
WatchesFollowConfig ==
  UpToDate /\ unwatched = {} /\ gaps \cap {"includeRemoved", "filters", "aroundIncluded"} = {} =>
    watched = {p \in Folders : shouldFolderBeIndexed(config, p)}
=============================================================================
