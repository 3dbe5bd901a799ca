----------------------------- MODULE SearchFolders -----------------------------
(***************************************************************************)
(* Folders that show what a search finds, in several processes: how a      *)
(* query becomes their url (query.cpp), what is listed (kio_search.cpp),   *)
(* and how they hear of what FileContentIndexer changed: it tells the bus, *)
(* the kded module tells each process to list the folders that are open    *)
(* somewhere (baloosearchmodule.cpp), and FileMonitor tells whoever looks  *)
(* at a file (filemonitor.cpp).                                            *)
(*                                                                         *)
(* What a folder shows is the version of each document when it was listed. *)
(***************************************************************************)
EXTENDS Naturals, Sequences, SequencesExt

CONSTANTS
  Processes, Urls,
  Documents,
  Monitored,     \* documents that a FileMonitor looks at
  MaxChanges,    \* bound: changes of each document
  MaxSignals     \* bound: signals on their way

VARIABLES
  version,       \* of each document in the index
  batch,         \* what FileContentIndexer and the extractor do
  bus,           \* signals to the kded module and FileMonitor, in their order
  searchUrls,    \* m_searchUrls
  refreshes,     \* urls that each process is told to list again
  shown,         \* by each process for each url that it has open
  listing,       \* what is being listed
  heard,         \* version of the documents when FileMonitor spoke of them
  causes         \* why a folder may not be up to date

None == <<>>

indexed == <<version, batch>>
session == <<searchUrls, refreshes, shown, listing, heard>>
vars    == <<indexed, bus, session, causes>>

-----------------------------------------------------------------------------
(* query.cpp: what is not as in a new query is kept in the url. *)

Query == [types |-> {}, limit |-> 9, offset |-> 0, searchString |-> "", searchScopes |-> {}, yearFilter |-> 0,
          monthFilter |-> 0, dayFilter |-> 0, sortingOption |-> "auto", includeFolder |-> ""]

\* Mutant: any sorting is kept as a number, of which 0 is taken for the default.
toJSON_SortIsNone(q) ==
  [field \in {k \in DOMAIN q : q[k] # Query[k] /\ ~(k = "sortingOption" /\ q[k] = "none")} |-> q[field]]

toJSON(q) == [field \in {k \in DOMAIN q : q[k] # Query[k]} |-> q[field]]

fromJSON(map) == [field \in DOMAIN Query |-> IF field \in DOMAIN map THEN map[field] ELSE Query[field]]

\* A new query can be asked for by its text alone.
toSearchUrl(q) == [json |-> toJSON(q)]
fromSearchUrl(url) ==
  IF "json" \in DOMAIN url THEN fromJSON(url.json)
  ELSE IF "query" \in DOMAIN url THEN [Query EXCEPT !.searchString = url.query]
  ELSE [Query EXCEPT !.types = url.types]

Settable == [types : {{}, {"Image"}}, limit : {9, 1}, offset : {0, 2}, searchString : {"", "a"},
             searchScopes : {{}, {"content"}}, yearFilter : {0, 2}, monthFilter : {0, 2}, dayFilter : {0, 2},
             sortingOption : {"auto", "none"}, includeFolder : {"", "f"}]

-----------------------------------------------------------------------------
(* The content indexer. *)

NoBatch == [state |-> "none", left |-> {}, done |-> {}, updatedFiles |-> {}]

\* Documents that changed are marked, and fetched as a batch.
fetch(S) ==
  /\ batch = NoBatch
  /\ batch' = [NoBatch EXCEPT !.state = "runs", !.left = S]
  /\ UNCHANGED <<version, bus, session, causes>>

\* finishedIndexingFile(): the extractor has its contents.
finish(d) ==
  /\ batch.state = "runs" /\ d \in batch.left
  /\ batch' = [batch EXCEPT !.left = @ \ {d}, !.done = @ \cup {d}, !.updatedFiles = @ \cup {d}]
  /\ UNCHANGED <<version, bus, session, causes>>

\* The extractor commits at the end of a batch, and when it takes long.
Committed(S) == [d \in Documents |-> IF d \in S THEN version[d] + 1 ELSE version[d]]

\* Mutant: what is committed is taken off the list of what is told.
commit_Forgets ==
  /\ batch.state = "runs" /\ batch.done # {}
  /\ \A d \in batch.done : version[d] < MaxChanges
  /\ version' = Committed(batch.done)
  /\ batch' = [batch EXCEPT !.done = {}, !.updatedFiles = {}, !.state = IF batch.left = {} THEN "committed" ELSE "runs"]
  /\ UNCHANGED <<bus, session, causes>>

commit ==
  /\ batch.state = "runs" /\ batch.done # {}
  /\ \A d \in batch.done : version[d] < MaxChanges
  /\ version' = Committed(batch.done)
  /\ batch' = [batch EXCEPT !.done = {}, !.state = IF batch.left = {} THEN "committed" ELSE "runs"]
  /\ UNCHANGED <<bus, session, causes>>

\* sendChangedSignal(), once the batch is committed
sendChangedSignal ==
  /\ batch.state = "committed"
  /\ bus' = Append(bus, [type |-> "changed", files |-> batch.updatedFiles])
  /\ batch' = NoBatch
  /\ UNCHANGED <<version, session, causes>>

\* The extractor crashes: the batch is forgotten, with what was committed of it.
crash ==
  /\ batch.state = "runs" /\ batch' = NoBatch
  /\ causes' = causes \cup (IF batch.updatedFiles # batch.done THEN {"crashAfterCommit"} ELSE {})
  /\ UNCHANGED <<version, bus, session>>

\* baloo_file ends before it has told anyone.
quit ==
  /\ batch.state = "committed" /\ batch' = NoBatch /\ causes' = causes \cup {"quitAfterCommit"}
  /\ UNCHANGED <<version, bus, session>>

\* Basic indexing, renames and removals are not told.
change(d) ==
  /\ version[d] < MaxChanges /\ version' = [version EXCEPT ![d] = @ + 1]
  /\ causes' = causes \cup {"notTold"}
  /\ UNCHANGED <<batch, bus, session>>

-----------------------------------------------------------------------------
(* The module of kded. *)

Told(urls) == [p \in Processes |-> refreshes[p] \o urls]

registerSearchUrl ==
  /\ bus # <<>> /\ Head(bus).type = "entered"
  /\ bus' = Tail(bus) /\ searchUrls' = Append(searchUrls, Head(bus).url)
  /\ UNCHANGED <<indexed, refreshes, shown, listing, heard, causes>>

\* Does another process that has the folder open lose its refreshes?
Forgets(u) == \/ \E p \in Processes : shown[p][u] # None \/ <<p, u>> \in listing
              \/ \E n \in 2..Len(bus) : bus[n].type = "entered" /\ bus[n].url = u

unregisterSearchUrl ==
  /\ bus # <<>> /\ Head(bus).type = "left"
  /\ LET u == Head(bus).url
     IN  /\ bus' = Tail(bus) /\ searchUrls' = SelectSeq(searchUrls, LAMBDA v : v # u)
         /\ causes' = causes \cup (IF Forgets(u) THEN {"leftElsewhere"} ELSE {})
  /\ UNCHANGED <<indexed, refreshes, shown, listing, heard>>

\* Mutant: only what shows files hears of them.
slotFileMetaDataChanged_OnlyFiles ==
  /\ bus # <<>> /\ Head(bus).type = "changed"
  /\ bus' = Tail(bus) /\ refreshes' = refreshes
  /\ heard' = [d \in Documents |-> IF d \in Head(bus).files \cap Monitored THEN version[d] ELSE heard[d]]
  /\ UNCHANGED <<indexed, searchUrls, shown, listing, causes>>

\* slotFileMetaDataChanged() of both
slotFileMetaDataChanged ==
  /\ bus # <<>> /\ Head(bus).type = "changed"
  /\ bus' = Tail(bus) /\ refreshes' = Told(searchUrls)
  /\ heard' = [d \in Documents |-> IF d \in Head(bus).files \cap Monitored THEN version[d] ELSE heard[d]]
  /\ UNCHANGED <<indexed, searchUrls, shown, listing, causes>>

-----------------------------------------------------------------------------
(* Processes: KIO tells the bus of a folder before it lists it. *)

enter(p, u) ==
  /\ shown[p][u] = None /\ <<p, u>> \notin listing /\ Len(bus) < MaxSignals
  /\ listing' = listing \cup {<<p, u>>} /\ bus' = Append(bus, [type |-> "entered", url |-> u])
  /\ UNCHANGED <<indexed, searchUrls, refreshes, shown, heard, causes>>

\* listDir()
listDir(p, u) ==
  /\ <<p, u>> \in listing
  /\ listing' = listing \ {<<p, u>>} /\ shown' = [shown EXCEPT ![p][u] = version]
  /\ UNCHANGED <<indexed, bus, searchUrls, refreshes, heard, causes>>

leave(p, u) ==
  /\ shown[p][u] # None /\ <<p, u>> \notin listing /\ Len(bus) < MaxSignals
  /\ shown' = [shown EXCEPT ![p][u] = None] /\ bus' = Append(bus, [type |-> "left", url |-> u])
  /\ UNCHANGED <<indexed, searchUrls, refreshes, listing, heard, causes>>

filesAdded(p) ==
  /\ refreshes[p] # <<>> /\ refreshes' = [refreshes EXCEPT ![p] = Tail(@)]
  /\ listing' = IF shown[p][Head(refreshes[p])] = None THEN listing ELSE listing \cup {<<p, Head(refreshes[p])>>}
  /\ UNCHANGED <<indexed, bus, searchUrls, shown, heard, causes>>

Init ==
  /\ version = [d \in Documents |-> 0] /\ batch = NoBatch /\ bus = <<>> /\ searchUrls = <<>>
  /\ refreshes = [p \in Processes |-> <<>>] /\ shown = [p \in Processes |-> [u \in Urls |-> None]]
  /\ listing = {} /\ heard = [d \in Documents |-> 0] /\ causes = {}

Indexer == \/ \E S \in SUBSET Documents \ {{}} : fetch(S)
           \/ \E d \in Documents : finish(d) \/ change(d)
           \/ commit \/ sendChangedSignal \/ crash \/ quit
Module  == registerSearchUrl \/ unregisterSearchUrl \/ slotFileMetaDataChanged
Folders == \E p \in Processes : filesAdded(p) \/ \E u \in Urls : enter(p, u) \/ listDir(p, u) \/ leave(p, u)

Next == Indexer \/ Module \/ Folders

Spec == Init /\ [][Next]_vars

-----------------------------------------------------------------------------

Quiet == bus = <<>> /\ listing = {} /\ batch = NoBatch /\ \A p \in Processes : refreshes[p] = <<>>

\* When no signal is under way, every folder shows the documents as they are in
\* the index: a folder that is opened while a batch is committed sees either the
\* commit or the signal. The kded module forgets a folder in all processes when
\* one leaves it, and only batches that end well are told.
FoldersAreUpToDate ==
  Quiet /\ causes = {} => \A p \in Processes, u \in Urls : shown[p][u] \in {None, version}

\* Whoever looks at a file hears of its last version.
MonitorsHear == Quiet /\ causes \subseteq {"leftElsewhere"} => \A d \in Monitored : heard[d] = version[d]

\* A query that is saved as a url is the same when it is opened.
QueriesAreKept == \A q \in Settable : fromSearchUrl(toSearchUrl(q)) = q
=============================================================================
