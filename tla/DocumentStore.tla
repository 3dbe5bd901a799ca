---------------------------- MODULE DocumentStore ----------------------------
(***************************************************************************)
(* The database of baloo (engine/): the tables of an LMDB environment and  *)
(* the write transaction that changes them (Transaction, WriteTransaction, *)
(* DocumentUrlDB, DocumentTimeDB, MTimeDB, DocumentIdDB, PostingDB,        *)
(* PositionDB).                                                            *)
(*                                                                         *)
(* The same facts are kept in several tables: a term of a document in the  *)
(* tables of its terms and in the posting list of the term, a modification *)
(* time by document and by time, a path as the parent of an id and as the  *)
(* children of the parent. Tables of documents are written at once;        *)
(* posting and position lists are changed at commit, by the operations a   *)
(* transaction queued per term. LMDB admits one writer at a time, and a    *)
(* transaction that does not commit leaves no trace.                       *)
(*                                                                         *)
(* The callers are those of src/file and balooctl: they ask hasDocument    *)
(* before they add or replace a document.                                  *)
(***************************************************************************)
EXTENDS Naturals, Sequences, FiniteSets, SequencesExt

CONSTANTS
  Ids,         \* ids of files and folders
  Root, NoEntry,
  GroupTerms,  \* terms an indexer may put in each of the three groups
  Times,       \* modification times, in seconds; 0 stands for no record
  Bodies,      \* what indexing a file may find: terms, times, data, marks
  MaxDepth,    \* bound: length of a path
  MaxCalls     \* bound: calls that change a transaction

Groups  == {"terms", "xattr", "filename"}
Terms   == UNION {GroupTerms[g] : g \in Groups}
Body    == [terms : [Groups -> SUBSET Terms], positioned : SUBSET Terms,
            mTime : Times, contentIndexing : BOOLEAN, data : BOOLEAN]

\* Words of a file name carry the prefix F, tags, comments and ratings TA,
\* TAG-, C and R, types and properties T<n>, M and X<n>-; words of the content
\* start with no capital. So no term belongs to two groups.
ASSUME ConstantsAssumption ==
  /\ Root \notin Ids /\ NoEntry \notin Ids \cup {Root}
  /\ GroupTerms \in [Groups -> SUBSET Terms]
  /\ \A g, h \in Groups : g # h => GroupTerms[g] \cap GroupTerms[h] = {}
  /\ Times \subseteq Nat \ {0}
  /\ Bodies \subseteq Body
  /\ \A b \in Bodies : /\ \A g \in Groups : b.terms[g] \subseteq GroupTerms[g]
                       /\ b.terms["terms"] # {}
  /\ MaxDepth \in Nat /\ MaxCalls \in Nat

VARIABLES
  db,         \* tables of documents as the open transaction sees them
  disk,       \* the same tables as the last commit left them
  postings,   \* PostingDB: documents of a term
  positions,  \* PositionDB: documents of a term with positions in the text
  pending,    \* m_pendingOperations of a term; those on one document in order
  fetched,    \* ids the content indexer has read from phase one
  calls       \* calls so far

vars == <<db, disk, postings, positions, pending, fetched, calls>>

Tables == [parent  : [Ids -> Ids \cup {Root, NoEntry}],   \* IdFilenameDB
           tree    : [Ids \cup {Root} -> SUBSET Ids],     \* IdTreeDB
           terms   : [Groups -> [Ids -> SUBSET Terms]],   \* three DocumentDBs
           time    : [Ids -> Times \cup {0}],             \* DocumentTimeDB
           mtimes  : SUBSET (Times \X Ids),               \* MTimeDB
           contentIndexing : SUBSET Ids,                  \* DocumentIdDB, phase one
           failed  : SUBSET Ids,                          \* DocumentIdDB, failed
           data    : SUBSET Ids]                          \* DocumentDataDB

Empty == [parent  |-> [i \in Ids |-> NoEntry],
          tree    |-> [i \in Ids \cup {Root} |-> {}],
          terms   |-> [g \in Groups |-> [i \in Ids |-> {}]],
          time    |-> [i \in Ids |-> 0],
          mtimes  |-> {}, contentIndexing |-> {}, failed |-> {}, data |-> {}]

NoOperations == [t \in Terms |-> [i \in Ids |-> <<>>]]

Init == /\ db = Empty /\ disk = Empty
        /\ postings = [t \in Terms |-> {}] /\ positions = postings
        /\ pending = NoOperations
        /\ fetched = {} /\ calls = 0

-----------------------------------------------------------------------------
(* Operations of terms, queued until commit(). Each is one of "Add", "Add  *)
(* with positions" and "Remove"; operations on different documents commute. *)

OperationTypes == {"AddId", "AddPositions", "RemoveId"}

AllTerms(d, i) == UNION {d.terms[g][i] : g \in Groups}

Queue(remove, add, positioned) ==
  [t \in Terms |-> [i \in Ids |->
     pending[t][i] \o (IF t \in remove[i] THEN <<"RemoveId">> ELSE <<>>)
                   \o (IF t \notin add[i] THEN <<>>
                       ELSE IF t \in positioned THEN <<"AddPositions">>
                       ELSE <<"AddId">>)]]

NoTerms    == [i \in Ids |-> {}]
Only(i, S) == [NoTerms EXCEPT ![i] = S]

-----------------------------------------------------------------------------
(* The tree of ids. *)

hasDocument(d, i) == d.parent[i] # NoEntry

\* IdFilenameDB::get of an unknown id gives the parent 0.
parentOf(d, i) == IF hasDocument(d, i) THEN d.parent[i] ELSE Root

\* Ids at or below i, along IdTreeDB.
Subtree(d, i) ==
  {j \in Ids : \A S \in SUBSET Ids :
     (i \in S /\ \A k \in S : d.tree[k] \subseteq S) => j \in S}

\* addPath() goes up from the folder of the file to the first known id.
EntersAt(d, path) ==
  {n \in 1..Len(path) : \A m \in n..(Len(path) - 1) : ~hasDocument(d, path[m])}

Folder(path, n) == IF n = 1 THEN Root ELSE path[n - 1]

addedParent(d, path) ==
  [i \in Ids |-> IF \E n \in EntersAt(d, path) : path[n] = i
                 THEN Folder(path, CHOOSE n \in EntersAt(d, path) : path[n] = i)
                 ELSE d.parent[i]]

addedTree(d, path) ==
  [p \in Ids \cup {Root} |->
     d.tree[p] \cup {path[n] : n \in {m \in EntersAt(d, path) : Folder(path, m) = p}}]

\* del() of every id of S
leftParent(d, S) == [i \in Ids |-> IF i \in S THEN NoEntry ELSE d.parent[i]]
leftTree(d, S)   == [p \in Ids \cup {Root} |-> d.tree[p] \ {i \in S : parentOf(d, i) = p}]

\* Mutant: the id stays among the children of its old parent.
updatedTree_KeepsOld(d, i, p) == [d.tree EXCEPT ![p] = @ \cup {i}]

updatedParent(d, i, p) == [d.parent EXCEPT ![i] = p]
updatedTree(d, i, p) ==
  [q \in Ids \cup {Root} |-> IF parentOf(d, i) = p THEN d.tree[q]
                             ELSE IF q = p THEN d.tree[q] \cup {i}
                             ELSE IF q = parentOf(d, i) THEN d.tree[q] \ {i}
                             ELSE d.tree[q]]

-----------------------------------------------------------------------------
(* Tables after a call. *)

\* Mutant: the new time is entered without removing the old one.
newTimes_KeepsOld(d, i, m) == d.mtimes \cup {<<m, i>>}

\* Mutant: key and value of the time index are swapped.
newTimes_KeyIsId(d, i, m) == (d.mtimes \ {<<d.time[i], i>>}) \cup {<<i, m>>}

newTimes(d, i, m) == IF d.time[i] = m THEN d.mtimes
                     ELSE (d.mtimes \ {<<d.time[i], i>>}) \cup {<<m, i>>}

added(d, path, b) ==
  LET i == path[Len(path)] IN
  [parent  |-> addedParent(d, path),
   tree    |-> addedTree(d, path),
   terms   |-> [g \in Groups |-> [d.terms[g] EXCEPT ![i] = b.terms[g]]],
   time    |-> [d.time EXCEPT ![i] = b.mTime],
   mtimes  |-> d.mtimes \cup {<<b.mTime, i>>},
   contentIndexing |-> IF b.contentIndexing THEN d.contentIndexing \cup {i} ELSE d.contentIndexing,
   failed  |-> d.failed,
   data    |-> IF b.data THEN d.data \cup {i} ELSE d.data]

\* Mutant: the mark for content indexing stays.
removed_KeepsMark(d, S) ==
  [d EXCEPT !.parent = leftParent(d, S), !.tree = leftTree(d, S),
            !.terms  = [g \in Groups |-> [i \in Ids |-> IF i \in S THEN {} ELSE @[g][i]]],
            !.time   = [i \in Ids |-> IF i \in S THEN 0 ELSE @[i]],
            !.mtimes = @ \ {<<d.time[i], i>> : i \in S},
            !.failed = @ \ S, !.data = @ \ S]

removed(d, S) ==
  [parent  |-> leftParent(d, S),
   tree    |-> leftTree(d, S),
   terms   |-> [g \in Groups |-> [i \in Ids |-> IF i \in S THEN {} ELSE d.terms[g][i]]],
   time    |-> [i \in Ids |-> IF i \in S THEN 0 ELSE d.time[i]],
   mtimes  |-> d.mtimes \ {<<d.time[i], i>> : i \in S},
   contentIndexing |-> d.contentIndexing \ S,
   failed  |-> d.failed \ S,
   data    |-> d.data \ S]

replaced(d, i, b, p, ops) ==
  [parent  |-> IF "url" \in ops THEN updatedParent(d, i, p) ELSE d.parent,
   tree    |-> IF "url" \in ops THEN updatedTree(d, i, p) ELSE d.tree,
   terms   |-> [g \in Groups |-> IF g \in ops THEN [d.terms[g] EXCEPT ![i] = b.terms[g]]
                                 ELSE d.terms[g]],
   time    |-> IF "time" \in ops THEN [d.time EXCEPT ![i] = b.mTime] ELSE d.time,
   mtimes  |-> IF "time" \in ops THEN newTimes(d, i, b.mTime) ELSE d.mtimes,
   contentIndexing |-> IF b.contentIndexing THEN d.contentIndexing \cup {i} ELSE d.contentIndexing,
   failed  |-> d.failed,
   data    |-> IF "data" \in ops /\ b.data THEN d.data \cup {i} ELSE d.data]

-----------------------------------------------------------------------------
(* Calls of the open transaction. *)

Call == /\ calls < MaxCalls /\ calls' = calls + 1
        /\ UNCHANGED <<disk, postings, positions, fetched>>

\* The file system is a tree, and renames are followed in order: nothing is
\* added or moved below itself.

TermsIn(b, ops) == UNION {b.terms[g] : g \in Groups \cap ops}

addDocument(path, b) ==
  LET i == path[Len(path)] IN
  /\ ~hasDocument(db, i)
  /\ \A n \in DOMAIN path : \A m \in 1..(n - 1) : path[m] \notin Subtree(db, path[n])
  /\ Call
  /\ db' = added(db, path, b)
  /\ pending' = Queue(NoTerms, Only(i, TermsIn(b, Groups)), b.positioned)

\* NewFileIndexer and FirstRunIndexer pass over a file that is known.
skipKnown(i) == hasDocument(db, i) /\ Call /\ UNCHANGED <<db, pending>>

removeDocuments(S) ==
  /\ Call
  /\ db' = removed(db, S)
  /\ pending' = Queue([i \in Ids |-> IF i \in S THEN AllTerms(db, i) ELSE {}],
                      NoTerms, {})

\* The extractor removes what it fetched without a look at hasDocument.
removeDocument(i) == /\ hasDocument(db, i) \/ i \in fetched
                     /\ removeDocuments({i})

removeRecursively(i) == hasDocument(db, i) /\ removeDocuments(Subtree(db, i))

\* shouldDelete() holds of the ids of Del. A folder goes after everything below
\* it, and nothing is looked at below a folder that stays.
removeRecursivelyIf(root, Del) ==
  LET Within  == Subtree(db, root)
      Reached(i) == \A j \in Within : i \in Subtree(db, j) => j \in Del
  IN  /\ hasDocument(db, root)
      /\ removeDocuments({i \in Within : Reached(i) /\ Subtree(db, i) \subseteq Del})

\* Mutant: the old terms are not taken out of the posting lists.
replaceDocument_AddsOnly(i, b, p, ops) ==
  /\ hasDocument(db, i)
  /\ IF "url" \in ops THEN p \notin Subtree(db, i) ELSE p = Root
  /\ Call
  /\ db' = replaced(db, i, b, p, ops)
  /\ pending' = Queue(NoTerms, Only(i, TermsIn(b, ops)), b.positioned)

replaceDocument(i, b, p, ops) ==
  /\ hasDocument(db, i)
  /\ IF "url" \in ops THEN p \notin Subtree(db, i) ELSE p = Root
  /\ Call
  /\ db' = replaced(db, i, b, p, ops)
  /\ pending' = Queue(Only(i, UNION {db.terms[g][i] : g \in Groups \cap ops}),
                      Only(i, TermsIn(b, ops)), b.positioned)

\* The flags callers pass: modified and unindexed files (deferred, attributes,
\* moved, or all at once when contents are not indexed), the extractor, a
\* rename, balooctl index.
CallerOperations ==
  LET moved == {"filename", "url"}
      terms == {"terms", "data"}
  IN  {{"time"}, {"time", "xattr"}, {"time", "xattr"} \cup moved,
       {"time"} \cup terms, {"time", "xattr"} \cup terms,
       {"time", "xattr"} \cup moved \cup terms, terms, moved}

removePhaseOne(i) ==
  /\ Call
  /\ db' = [db EXCEPT !.contentIndexing = @ \ {i}]
  /\ UNCHANGED pending

markFailed(i) ==
  /\ Call
  /\ db' = [db EXCEPT !.contentIndexing = @ \ {i}, !.failed = @ \cup {i}]
  /\ UNCHANGED pending

-----------------------------------------------------------------------------
(* The last operation decides whether a document is in the list of a term; *)
(* an Add without positions leaves the position list as it is.             *)

Posted(t, i) ==
  LET ops == pending[t][i] IN
  IF ops = <<>> THEN i \in postings[t] ELSE ops[Len(ops)] # "RemoveId"

\* Mutant: a Remove leaves the positions.
Positioned_Stays(t, i) ==
  i \in positions[t] \/ \E n \in DOMAIN pending[t][i] : pending[t][i][n] = "AddPositions"

Positioned(t, i) ==
  LET ops == pending[t][i]
      KeptFrom(n) == \A m \in n..Len(ops) : ops[m] # "RemoveId"
  IN  \/ i \in positions[t] /\ KeptFrom(1)
      \/ \E n \in DOMAIN ops : ops[n] = "AddPositions" /\ KeptFrom(n)

commit ==
  /\ postings' = [t \in Terms |-> {i \in Ids : Posted(t, i)}]
  /\ positions' = [t \in Terms |-> {i \in Ids : Positioned(t, i)}]
  /\ pending' = NoOperations
  /\ disk' = db
  /\ UNCHANGED <<db, fetched, calls>>

\* Mutant: the queued operations survive.
abort_KeepsOperations ==
  /\ db' = disk
  /\ UNCHANGED <<disk, postings, positions, pending, fetched, calls>>

\* abort(), the destructor, a commit LMDB refuses, and a process that dies
abort ==
  /\ db' = disk
  /\ pending' = NoOperations
  /\ UNCHANGED <<disk, postings, positions, fetched, calls>>

\* A transaction of a reader, at any time.
fetchPhaseOneIds ==
  /\ fetched' = disk.contentIndexing
  /\ UNCHANGED <<db, disk, postings, positions, pending, calls>>

PathsOfFiles == {path \in SeqOf(Ids, MaxDepth) : path # <<>> /\ IsInjective(path)}

Next ==
  \/ \E path \in PathsOfFiles, b \in Bodies : addDocument(path, b)
  \/ \E i \in Ids, b \in Bodies, p \in Ids \cup {Root}, ops \in CallerOperations :
       replaceDocument(i, b, p, ops)
  \/ \E i \in Ids : skipKnown(i) \/ removeDocument(i) \/ removeRecursively(i)
  \/ \E i \in Ids, Del \in SUBSET Ids : removeRecursivelyIf(i, Del)
  \/ \E i \in fetched : removePhaseOne(i) \/ markFailed(i)
  \/ commit \/ abort \/ fetchPhaseOneIds

Spec == Init /\ [][Next]_vars

-----------------------------------------------------------------------------
(* Properties. *)

\* Type invariant of the tables and of the queued operations.
TypeOK ==
  /\ db \in Tables /\ disk \in Tables
  /\ postings \in [Terms -> SUBSET Ids] /\ positions \in [Terms -> SUBSET Ids]
  /\ pending \in [Terms -> [Ids -> Seq(OperationTypes)]]
  /\ fetched \subseteq Ids /\ calls \in 0..MaxCalls

\* Transaction::checkTermsDbinPostingDb and checkPostingDbinTermsDb: what the
\* queued operations will leave in the posting lists at commit() is exactly
\* what the term tables say, whatever calls the transaction combined.
PostingsMatchTerms ==
  \A t \in Terms, i \in Ids : Posted(t, i) <=> t \in AllTerms(db, i)

\* A phrase search walks the position lists: they never name a document that
\* the posting list of the term does not.
PositionsHavePostings ==
  \A t \in Terms, i \in Ids : Positioned(t, i) => Posted(t, i)

\* A search by time and the time of a document agree: MTimeDB holds the entry
\* that DocumentTimeDB names and no older one.
TimesAgree ==
  \A m \in Times, i \in Ids : <<m, i>> \in db.mtimes <=> db.time[i] = m

\* IdTreeDB lists an id under a parent exactly when IdFilenameDB names that
\* parent, through additions, renames and removals.
TreeMatchesParents ==
  \A p \in Ids \cup {Root}, i \in Ids : i \in db.tree[p] <=> db.parent[i] = p

\* removeDocument leaves nothing behind: an id hasDocument denies has no terms,
\* no time, no data and is not marked for content indexing, so that the asserts
\* of addDocument hold when the id is used again.
UnknownLeavesNoTrace ==
  \A i \in Ids : ~hasDocument(db, i) =>
    /\ AllTerms(db, i) = {} /\ db.time[i] = 0
    /\ i \notin db.contentIndexing /\ i \notin db.data

\* A search finds the documents of the last commit by the terms and times they
\* had then, and a transaction that fails or is abandoned changes nothing.
Index == INSTANCE DocumentIndex WITH
  found <- [i \in Ids |-> [terms  |-> {t \in Terms : i \in postings[t]},
                           mtimes |-> {m \in Times : <<m, i>> \in disk.mtimes}]],
  draft <- [i \in Ids |-> [terms  |-> AllTerms(db, i),
                           mtimes |-> {db.time[i]} \cap Times]]

SearchFindsCommitted == Index!Spec

\* newfileindexer.cpp:69 takes a known file for one that was sent twice: what
\* NewFileIndexer passes over has been indexed already.
SkippedWasIndexed ==
  [][\A i \in Ids : skipKnown(i) => db.terms["terms"][i] # {}]_vars
=============================================================================
