# A TLA+ model of Baloo's file indexer

Baloo is KDE's desktop search. The daemon `baloo_file` follows the file system
with inotify, keeps an LMDB database of the terms, times and paths of files, and
has the process `baloo_file_extractor` extract the contents of files. Command
line tools, KIO workers and QML components read that database and talk to the
daemon. This directory holds TLA+ modules of all of them, the TLC runs that check
them and the proofs that TLAPS checks. Source lines are given in `PROJECT.json`
for every definition; paths below are relative to `src/src/`.

## The system

```
 kernel --inotify--> KInotify --> FileWatch --moved/removed--> MetadataMover --+
                                     |                                         |
                                     +--changed--> PendingFileQueue            | write
                                                        | indexNewFile, ...    v
 power, D-Bus, timers --------------> FileIndexScheduler            Transaction (LMDB)
                                        | thread pool, one thread       ^   ^     |
                                        +--> basic indexers ------------+   |     | read
                                        +--> FileContentIndexer --pipe--> App     v
                                                  | signals     (extractor)   searches, tools,
                                                  v                           KIO workers
                                  monitors, search folders, FileMonitor
```

| component | state | what makes it correct | modules |
|---|---|---|---|
| `FileIndexScheduler` | state, lists of new / modified / xattr files, flags, suspension, power | one runnable at a time; no wake-up is lost; every list is served; suspension takes effect | FileIndexScheduler |
| `FileContentIndexer`, `ExtractorProcess`, extractor `App` | batch, counters, `m_stop`; batch with a state per file | every marked document is dealt with; a crash costs one file; results never go to a document they do not belong to | ContentIndexer |
| `Transaction`, tables of `engine/` | twelve LMDB tables, queued operations of terms | tables that hold the same fact agree; searches see whole transactions | DocumentStore, DocumentIndex, Tables, Records |
| `PendingFileQueue` | cache, postponed files, recently announced files, three timers | no change is forgotten, none is announced too late or too often | PendingFileQueue |
| `KInotify`, `FileWatch`, `MetadataMover` | watches and their paths, cookies of moves | every change below a watched folder reaches the index at its present path | FileWatch |
| basic indexers, `balooctl index`, `clear` | a list of paths | documents agree with the files; equal times mean that nothing changed | BasicIndexers |
| `FileIndexerConfig`, `balooctl config`, `IndexCleaner` | folders, filters, their regular expressions | the nearest configured folder decides; index and watches follow the configuration | FolderConfig, Filters |
| life of the daemon, migration, `balooctl` enable, disable, purge | process, file, name on the bus | it runs if and only if it is asked to, on the file that is searched | Daemon |
| codecs, pipe, terms | bytes, words | what is put is what is got | Codecs, CommandPipe, Terms |
| queries | tokens, terms, iterators, results | what is typed is what is searched, what is found is what matches | QueryParser, Search, PropertyQueries, Timeline |
| tags, search folders, `FileMonitor` | attributes of files, folders that are open | no tag is lost; what is shown is what is found | TagsWorker, SearchFolders |
| idle monitor, monitors, `status`, `balooshow` | what each has heard | all hear what is so | IndexSpeed, Monitoring, Inspection |

Main thread, pool thread, extractor process and readers of the database are
concurrent. They meet in posted events (`done()`, `singleShot`), in `m_stop`,
in a pipe, on D-Bus, in the write lock of LMDB and in the file system, which all
of them look at on their own and which changes between two looks. `PROJECT.json`
lists the hazards that follow, each at its line, with the properties about it.

## Modules

Core of the daemon, each with an `MC` module and a configuration of its own:

* **FileIndexScheduler** is the state machine of `file/fileindexscheduler.cpp`.
  The variables are the fields of the class (`m_indexerState`, the three lists,
  `m_isGoingIdle`, ...) and what the main loop and the pool hold for it: `pool`,
  posted `doneEvents`, `timers` for `singleShot(0, scheduleIndexing)`, `m_stop`.
  Each slot is an action. `NextState` is the cascade of `scheduleIndexing()` and
  `EnterState` what a branch of it does. The runnables are reduced to what the
  scheduler sees: they end, and content indexing looks at `m_stop` in its loop.
* **ContentIndexer** takes that runnable apart: the loop of
  `FileContentIndexer::run`, the extractor's state machine, and the main thread,
  which in the meantime lets `MetadataMover` write the same index. A step is
  what happens between two points at which another process can intervene: a
  transaction, the indexing of a file, a message. The file system changes
  between any two of them, its notifications arrive later and in order. Files
  are ids (inodes), which a rename keeps and a deletion frees for reuse.
* **DocumentStore** is the database: `WriteTransaction` with the tables it
  writes at once (`db`), the term operations it queues (`pending`) and replays
  at commit on the posting and position lists, and what was last committed
  (`disk`). An action is a call of the open transaction, or commit, abort, or a
  reader's fetch of marked ids. **DocumentIndex** is what a search may rely on:
  documents are found by the terms and times of the last commit. `DocumentStore`
  implements it under the mapping `found` <- posting lists and time index,
  `draft` <- term and time tables of the open transaction.
* **PendingFileQueue** is `file/pendingfilequeue.cpp` with time: the cache, the
  postponed files, the recently announced files and their timers, which may fire
  early or late. `QTime` is modelled as the time of the day it is. Every event
  starts the cache's timer of 10 ms again, so a `Stream` of events that are closer
  together than that lets time pass with the cache unprocessed.
* **FileWatch** is `kinotify.cpp`, `filewatch.cpp` and `metadatamover.cpp` with
  the kernel's queue: folders are created, renamed, moved in and out and removed
  while watches are installed, and the two halves of a move may be read apart.
  The queue and the scheduler are two sets of paths that wait.

Parts that share no state are checked by one run (**MCParts**, where `part` says
which of them runs; BasicIndexers and Daemon have variables of their own, the
others run on variables that all of them share):

* **BasicIndexers**: the jobs that read the file system, a path at a time with
  both looks each takes, with files that change in between; times in seconds.
* **FolderConfig** and **Filters**: folders, media and edits of the configuration;
  filters, their defaults in two releases, and `balooctl config` in two processes.
* **Daemon**: enabling, disabling, crashes, migration, purge and the watchers of
  the name on the bus.
* **QueryParser**, **Search**, **PropertyQueries**, **Timeline**: from what is
  typed to the documents that are found, by words and phrases, by properties and
  types, by day.
* **Terms**, **Codecs**, **CommandPipe**: texts to words and back through phrases,
  lists to bytes, messages to bytes and pieces.
* **Tables**, **Records**: LMDB tables through the classes around them, refused
  keys and full files; the same file opened by several processes.
* **TagsWorker**, **SearchFolders**: folders of tags that rewrite files while the
  index is behind; folders of searches in several processes and what refreshes them.
* **IndexSpeed**, **Monitoring**, **Inspection**: the idle monitor and the speed of
  the extractor; monitors that come and go with the daemon; what status, failed,
  balooshow and the checks say.

Modules whose name ends in **Proofs** hold the theorems.

### Interfaces between modules

ContentIndexer assumes that no other runnable runs beside it and that `quit()`
may come at any time: the first is `FileIndexScheduler!OneRunnerWhenBusy`, the
second what the scheduler's slots do. Its `Store` operator is the effect of
`removeDocument`, `removePhaseOne` and `replaceDocument` on the marks of a
document, of which `DocumentStore!removed` and `replaced` are the full account.
The scheduler in turn takes a batch as one step (`ContentBatchDone`). FileWatch
ends at the lists of the scheduler, and BasicIndexers begins there; FolderConfig
says which paths are listed at all. Search reads the tables of DocumentStore,
and its queries are those QueryParser makes.

### What properties leave out by name

The program has known gaps: a second change within the second of the first, say,
is found by nobody. Where a gap is, the module has a variable that only grows
(`missed`, `disturbed`, `gaps`, `causes`, `doubts`, `untold`, `overlapped`,
`unsure`) and names what happened when it happens; the property then says what
holds as long as it did not. Three more name a gap that closes again, and follow
it: `heldAt` (when a stream of events last held up a path), `unheard` and `unkept`.
Nothing but the property reads such a variable,
with the exception that BasicIndexers stops changing files after one, as nothing
is promised then. The names:

| module | causes |
|---|---|
| FileWatch | `walk`, `notYetWatched` (changes before a watch is there), `halfMoved`, `move`, `aheadOfEvents`, `parentUnknown`, `excluded`, `overflow`, `limit`, `walkGivenUp`, `namePrefix` |
| BasicIndexers | `sameSecond`, `emptied`, `attributesFirst`, `replaced`, `aheadOfEvents`, `lostRemoval`, `listedPathMoved`, `indexedNow`, `cleared` |
| PendingFileQueue | `heldAt`: events less than 10 ms apart, of whatever file, hold up all that is cached; the time limits count from their end |
| FolderConfig, Filters | `includeRemoved`, `filters`, `aroundIncluded`; edits that overlap or were not read yet; `unkept`: new default filters of a release, for a list the user edited |
| Daemon | `startedDuringPurge`, `enabledWhileEnding`, `failedToStop`, `noDatabase` |
| TagsWorker | `stale`, `ambiguous`, `repeated`, `sameName`, `hasTag` |
| SearchFolders | `crashAfterCommit`, `quitAfterCommit`, `notTold`, `leftElsewhere` |
| Monitoring, IndexSpeed, Timeline | `restarted`, `crashed`, `alone`; `unheard`: a session that was idle when the daemon started, until it is used; `untold`: the end of a monitor during a batch; a day that ends while it is listed |

`told` and `kept` of Records and `meant` of TagsWorker and Tables are histories:
what was put, to compare with what is got.

## Runs

| run | question | result |
|---|---|---|
| `scheduler` | Do slots, timers, `done()` and the worker in any order keep one runnable and all wake-ups? Are files and housekeeping served, does suspension take effect? | holds |
| `scheduler_quit_lost` | Does `quit()` end content indexing before the next batch? | no: `run()` clears `m_stop` after `quit()` has set it |
| `content_races` | Do renames, removals and creations during a batch keep documents, marks and failures consistent? | holds |
| `content_crashes` | Do crashes, kills and failed transactions cost more than the file that causes them? | no, all marked files are dealt with |
| `content_forgotten` | Does every file keep a document or a pending notification? | no: a file renamed during its batch loses its document |
| `store_tables` | Do the tables agree after any combination of calls, commits and aborts? | holds |
| `store_skipped` | Has a file that `NewFileIndexer` skips been indexed? | no: a folder may only have been entered for its child |
| `queue_timers` | Is each change announced, in time, and not too often? | holds |
| `queue_midnight` | The same across midnight? | no: the file waits for a day |
| `watch` | When all is quiet, are the index and the watches as the disk is? | holds but for the named disturbances |
| `watch_moved_in` | Does a file that is moved keep its document at its path? | no: with an unknown parent it keeps the old one |
| `parts` | Do the eighteen parts keep what each promises? | holds |

The runs with a negative answer have `expect: violation`; the source line, the
quoted comment and the consequence are under `findings`.

### Bounds

* Scheduler: two pending timers (a third finds the same state and changes
  nothing); up to two marked documents, so that the indexer goes through its loop
  more than once; a file alone and one in a folder that goes.
* ContentIndexer: a batch of three with one crashing file in the middle is
  divided unevenly and again; three faults kill the extractor, fail its
  transactions and exhaust its retries (`ErrorLimit` 0 instead of 10: it only
  counts). The races run has two files in two indexed paths and one excluded
  path, with three changes: a rename onto another file, a removal and the reuse of
  its inode, a move out of and back into the indexed paths.
* DocumentStore: three ids form every tree of three levels; three calls, in any
  distribution over transactions. Two bodies differ in every field. Ids are
  symmetric: no definition orders them.
* PendingFileQueue: times keep the order 5 s < 60 s < 120 s as 1 < 3 < 4, so that
  a delay is set, doubled and then limited; five events, nine units of time and
  timers that are off by one unit; of a stream of events one call in every unit of
  time counts. One file below one folder, which shares the
  timers.
* FileWatch: two folders, two files, three names of which one is hidden and one
  begins another, two changes of the disk and two of the configuration, a queue of
  three events: a folder is moved while a file in it is written, or is created with
  a file in it.
* MCParts: two files, two paths, two seconds and two changes for BasicIndexers; a
  tree of five paths with a nested exclusion; three documents; queries of up to
  seven pieces; bytes of three bits, so that a number takes one, two or three; the
  calendar has years of two months of two days. `Parts.cfg` names the others. The
  proofs remove these bounds from Daemon, IndexSpeed and BasicIndexers.

Deadlock is checked in the scheduler, store and watch runs. The content indexer
comes to rest when nothing is marked, time ends in the queue's model at `Horizon`,
and the parts end with their bounds: those runs switch the check off.

### Fairness

Weak fairness only. Scheduler: `ScheduleTimer`, `runnerFinished` and
`startupFinished` are deliveries by the main loop of events posted or timers
started; `Worker` is the thread of the pool. Nothing is fair that a user, the
power supply or the file system does. ContentIndexer: the thread, the extractor
and the handling of notifications proceed; faults, file system changes and
`quit()` need not happen. All other promises are about states at rest, so they
need no fairness.

## Proofs

All theorems hold for every value of the constants that satisfies the named
`ASSUME` of the module, or the hypothesis of the theorem.

* **FileIndexSchedulerProofs**: `IInv` is the type invariant with
  `OneRunnerWhenBusy`, `StateNamesRunner`, `FirstRunComesFirst`, `NoLostWakeup`
  and `GoingIdleHasTimer` (while `m_isGoingIdle` holds a timer is on its way).
  The last is the strengthening: without it the early return of
  `scheduleIndexing()` in a scheduler that is going idle would lose a wake-up.
  `ScheduleKeeps` says that `scheduleIndexing()` itself preserves `IInv` from any
  idle or busy state; every slot is then a change of the lists and flags followed
  by it.
* **DocumentStoreProofs**: `IInv` says of both the tables of the open transaction
  and those of the last commit that they are sound (trees agree, times agree,
  an unknown id has nothing, terms stay in their groups), that the queued
  operations lead from the posting lists to the tables, and that posting lists
  match the committed tables. The last two are needed together: abort falls back
  to the second. `QueueEffect` computes what queued operations will do,
  `AddedSound`, `RemovedSound` and `ReplacedSound` treat the tables, one lemma
  per call. `ImplementsIndex` is the refinement of `DocumentIndex`: every call is
  a `Write` or a stutter, commit is `Commit`, abort is `Discard`.
  It rests on the assumption that a term belongs to one of the three groups,
  which the prefixes of the term generator give (`F`, `TA`, `TAG-`, `C`, `R`,
  `T`, `M`, `X`): a term in two groups would be taken out of its posting list when
  only one group loses it.
* **PendingFileQueueProofs**: `TablesHaveTimers` and `ChangesAreKept` hold at all
  times, midnight included. The other three are about times and hold while the
  day does not end (`NoMidnight`: the horizon and the longest timeout lie before
  the end of `Day`; `queue_midnight` shows that they fail otherwise). `TimedInv`
  bounds every kept time by what it was computed from: a timer by the first file
  it is for, the due time of a file by when it was left alone, that is by its last
  change or the end of the stream of events that held it up (`LeftAlone`,
  `ChangesAreTimed`), the next announcement by the last (`EmissionsAreTracked`).
  While events keep the cache waiting time passes, and what is cached counts from
  then on (`Streamed`); what is postponed already is not held up. That the least of
  the times that are left is what the timer is set to needs `MinIsLeast`, which
  is proved from the well-ordering of numbers.
* **ContentIndexerProofs**: `OneDocumentEach` and `MarksHaveDocuments` hold for
  all races and faults. `BatchUnderWay` says that what is divided or blamed has
  the files for it. `BlameIsRight` is about runs in which nobody kills the
  extractor from outside (`faults = 0`), and needs `CrashesAreBlamed`: a batch
  that failed still holds its crashing file. `ContentIsKept` and
  `RemainingIsNatural` are about runs in which files do not change
  (`AtRest`, `fsChanges = 0`), with any faults and restarts: `content_forgotten`
  shows what a rename does. The first needs that paths read for a batch stay
  right (`PathsAreRight`), the second that the count of finished files is that of
  files which left the list (`ProgressIsCounted`).
* **DaemonProofs**: `RunsAsAsked` states everything the run asks of the daemon, for
  any number of commands. `DaemonInv` adds what each process has still to hear
  (`Shapes`: the changes of a name on the bus alternate), which files a purge may
  delete (`PurgeIsRight`), and how enabling, disabling and the end of a purge lead
  to a daemon that runs or not.
* **IndexSpeedProofs**: `LastWordWins`. `MessagesAreRight` says that the last
  message under way to each receiver tells the truth, as far as there was one:
  the requests of `fetchIdleState()` fail, so of a session that was idle before the
  daemon started (`unheard`) the daemon knows nothing. `ExtractorIsTold` says that
  what waits for the event loop of a batch is the truth, or that a batch to come
  will ask.
* **BasicIndexersProofs**: `JobsFollowFiles` states everything the run asks of the
  jobs. `Bounds` says that `Nowhere` is no path and no file, and that the bounds
  are numbers.
  * `EqualTimesTell` rests on `TimesInv`: a document's times are no later than the
    last look at its file, and every change is later than that (or is the cause
    `sameSecond`), so that a change shows in a time: contents in the mtime,
    attributes in the ctime, and a change of the mtime in the ctime, too. That is
    what the second look of UnindexedFileIndexer and ModifiedFileIndexer relies on
    (`looked.cTimeChanged`), and what the contents that were read and not yet
    stored have to keep (`ExtractedInTime`).
  * `FilesAreFollowed` rests on `FollowsInv` as well. `Replay(f)` says where the
    events after the first n take what is at a path, so that `f[0]` of a
    document's path is where its file is now (`PathIsRight`), and an event or an
    item of a list is about the file to whose path `f` takes it. What a document
    lacks is `Due`: an event, an item or the job that runs will come to the file and
    read it (`WillBeAdded`, `WillBeRead`). Three lemmas are about the events alone
    (`Appended`, `Popped`, `Emptied`), two about a path that no move touches
    (`Untouched`, and `WillMissStays`: a job that is going to look at a path
    ahead of a move will), then one lemma per step.
* **FileWatchProofs**, for any folders, files, names, length of the kernel's queue
  and number of changes: `HiddenStaysOut`. That no document has a hidden name
  needs to know what leads to one (`HiddenInv`): no folder in a hidden one is
  watched (`WatchesAreShown`) or is moved to a hidden name by an event that waits
  (`MovesAreShown`), and no path that waits is below one (`WaitingIsShown`); the
  jobs look at the last name again. `addPath()` also enters the folders on the way
  to a file: that their names are names of the path (`EnteredIs`, `NamesAbove`) is
  shown by the least length of a chain of parents. The invariant speaks of runs
  without a known race only (`disturbed = {}`), as a watched folder that moves to
  a hidden name keeps its watch.
  * `WatchesFollow` is `WatchesFollowFolders`. It rests on `WatchInv`, which says of
    every state, not only a quiet one, how far the kernel's watches and the tables
    are from the tree and which event or walk will make that good. Most of the time
    (`Calm`) a watched folder has its path in the table (`WatchedRightly`); a folder
    that is not watched is still in a table only if the event of its removal is in
    the queue (`RemovalsAreTold`), and is one to be indexed only if an event of its
    creation, or of a folder above it, is in the queue, or a walk has to come there
    (`CreationsAreTold`). For that the events have to be true of the tree
    (`RemovalsAreTrue`, `CreationsAreTrue`) and in an order in which a look into a
    new folder finds nothing that an earlier event is about (`EventsInOrder`: the
    table may still have the path of a folder that is gone, and the same path may
    be watched again). While a folder is under way the same holds of the tables as
    they will be: `MovingSoon` and `MovingNext` before the table gets its new path,
    `LeavingSoon` and `LeavingNext` before the watch of one that went elsewhere is
    removed by the timer of its cookie. Steps that change the tree rest on which
    paths they leave alone (`PathsStay`, `OtherPathsStay`, `PathsMoved`), and those
    on the fact that a path is that of the folder above with one name more
    (`PathEquation`: the longest way up has at most as many folders as there are).
    The tree needs two things to be right at first, which `ConstantsAssumption`
    says: no two are at one place, and what exists is in a folder that exists.
    Runs in which an event is lost, or a folder moves while others wait, are those
    of `disturbed`, of which it says nothing.
  * `TypeCorrect` is `TypeOK`. That no document is below a file, which depends on
    whether a document of a file can stand where the watcher or a job looks for a
    folder, is a matter of the history of a path and part of `QuietIndexAgrees`.

Only model-checked:

* liveness (`FilesAreServed`, `SuspendTakesEffect`, `HousekeepingIsServed`,
  `Drained`, `QuitEndsRun`), which the provers cannot do;
* `QuietIndexAgrees` of `watch`: that documents are where files are when all is
  quiet rests on the lists of the jobs, on files that are moved over others and on
  documents whose folders were entered unseen, besides what is proved of watches;
  an inductive invariant would restate the history of each path;
* modules with recursive operators (Codecs, CommandPipe, QueryParser, Search,
  TagsWorker, Terms), and the other parts of `parts`, whose recursion over
  sequences and texts the provers have no induction for.

## What is abstracted

* Terms, names and contents are small sets; a batch's files are told apart by
  whether they crash their plugin and whether they are skipped.
* LMDB is external: one writer, snapshots for readers, a commit that happens or
  does not. Qt and KDE libraries are modelled by what the code relies on:
  `QTime`, `QDataStream` transactions, order of D-Bus messages of one sender.
* File times are not 0 (a document that was only entered for its child, and then
  gets a file with mtime 0, has no entry in the index by time).
* Order within a burst of PendingFileQueue: the queue hands its files on in any
  order.

Not modelled: printing, progress estimates, priorities of processes, the model of
query results of QML, the experimental database tool (which does not compile at
this commit), the tests.

## Observations

What reading and modelling showed besides the findings, each in the module named:

* Filters: a comment says "make sure we always keep the latest default exclude
  filters" (fileindexerconfig.cpp:39). `updateExcludeFilters()` adds them in memory,
  and `forceConfigUpdate()` right after it loads the file again, so they never
  reach a list that was edited (`unkept`). One filter `*.x` with a special character disables all of
  that form. `balooctl config` does not tell a running daemon.
* IndexSpeed: `fetchIdleState()` asks for the interface `org.kde.baloo_idle_monitor`
  (filecontentindexer.cpp:114), while the monitor exports
  `org.kde.baloo.idle_monitor`, and reads the variant that `Get` returns as a `bool`
  (filecontentindexer.cpp:123): the answer is always an error. A daemon that starts
  in an idle session extracts slowly until the
  session is used and idle again (`unheard`).
* PendingFileQueue: `enqueue()` starts `m_cacheTimer` again at every event
  (pendingfilequeue.cpp:79). A file that is written without a pause of 10 ms holds up
  the changes of all files in the cache, for as long as it is written (`heldAt`).
* Search: a query in a folder finds ids that were only entered by `addPath()`;
  times from 2106 on wrap.
* PropertyQueries: `=` on negative integers finds positive ones; negative doubles
  are stored without sign; `DateTime` is only found by a year.
* QueryParser: a quoted `AND` is an operator; two parentheses left open make
  `a (b OR (c` read as `a OR b OR c`.
* Terms: a phrase never finds a property with more than one value.
* Timeline: the first day of 1970 is empty east of Greenwich.
* TagsWorker: renaming a tag replaces every occurrence of its name in the new one;
  a tag that was made by `mkdir` can be neither renamed nor deleted.
* SearchFolders: one process that leaves a folder ends the refreshes of others;
  removals, renames and basic indexing are not announced.
* Monitoring: `finishedIndexingFile`, which the QML monitor counts files by, is
  never emitted.
* CommandPipe: input that ends within a message is read again and again.
* Daemon: purge deletes `index` but not `index-lock`; an internal error on opening
  deletes the index.
* BasicIndexers: `balooctl index` throws the contents it extracted from a known
  file away; a file written before XAttrIndexer looks at it keeps old contents.
* FileWatch: three renames, one of which is missed, can make a document its own
  ancestor; `eventQueueOverflowed()` is connected to nothing. A folder that is
  excluded while the walk that installs watches is in it ends that walk as a whole
  (kinotify.cpp:256), and what the walk had not read yet, elsewhere, is never
  watched. A file that leaves the indexed folders takes the watches of folders with
  it whose paths begin with the file's (`a` and `ab`).
