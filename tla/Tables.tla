-------------------------------- MODULE Tables --------------------------------
(***************************************************************************)
(* The classes that stand between the engine and LMDB (documentdb.cpp,     *)
(* documentiddb.cpp, documenttimedb.cpp, documentdatadb.cpp, mtimedb.cpp,  *)
(* idfilenamedb.cpp, idtreedb.cpp, postingdb.cpp, positiondb.cpp): what    *)
(* they keep of what is put, also when LMDB refuses a key or has no room,  *)
(* and what their cursors find.                                            *)
(*                                                                         *)
(* They do not return errors: a refused call is a line in the log. A table *)
(* is a function of its keys. Terms are sequences of bytes, of which 0..9  *)
(* are digits and -1 is the minus; tables of documents that differ only in *)
(* the type of their values are one.                                       *)
(***************************************************************************)
EXTENDS Integers, Sequences, FiniteSets, SequencesExt

CONSTANTS
  Ids, Times, TermBytes,
  Stored,        \* tables to begin with
  Starts,        \* what a term that is asked for may begin with
  MaxKey,        \* bytes of a key that LMDB admits
  MaxEntries,    \* bound: entries that there is room for
  MaxCalls       \* bound: calls that change something

VARIABLES
  disk,          \* tables as the last commit left them
  txn,           \* tables of the writer, and whether LMDB gave it up
  snapshot,      \* what a reader sees
  meant,         \* tables as the writer was told to leave them
  kept,          \* as it was told, for all transactions that it could commit
  calls

vars == <<disk, txn, snapshot, meant, kept, calls>>

-----------------------------------------------------------------------------
(* LMDB *)

Minus == -1
Nothing == <<>>
Empty == [documents |-> Nothing, ids |-> Nothing, tree |-> Nothing, postings |-> Nothing, mtimes |-> {}]

With(table, k, v) == [j \in DOMAIN table \cup {k} |-> IF j = k THEN v ELSE table[j]]
Without(table, k) == [j \in DOMAIN table \ {k} |-> table[j]]

Room(t) == Cardinality(DOMAIN t.documents) + Cardinality(DOMAIN t.ids) + Cardinality(DOMAIN t.tree)
             + Cardinality(DOMAIN t.postings) + Cardinality(t.mtimes) < MaxEntries

\* A transaction without room is given up: all that follows is refused, and
\* commit() as well. A key that is too long is refused by itself.
mdb_put(name, k, v) ==
  IF txn.lost \/ (name = "postings" /\ Len(k) > MaxKey) THEN txn
  ELSE IF k \notin DOMAIN txn.tables[name] /\ ~Room(txn.tables) THEN [txn EXCEPT !.lost = TRUE]
  ELSE [txn EXCEPT !.tables[name] = With(@, k, v)]

mdb_del(name, k) == IF txn.lost THEN txn ELSE [txn EXCEPT !.tables[name] = Without(@, k)]

mdb_get(tables, name, k, none) == IF k \in DOMAIN tables[name] THEN tables[name][k] ELSE none

\* Keys are in the order of their bytes; what begins like a term follows it.
Before(a, b) == \/ IsStrictPrefix(a, b)
                \/ \E n \in DOMAIN a \cap DOMAIN b : a[n] < b[n] /\ \A m \in 1..(n - 1) : a[m] = b[m]
ByRank(rank) == [n \in 1..Cardinality(DOMAIN rank) |-> CHOOSE e \in DOMAIN rank : rank[e] = n - 1]
Keys(table) == ByRank([t \in DOMAIN table |-> Cardinality({u \in DOMAIN table : Before(u, t)})])
IdsOf(table) == ByRank([i \in DOMAIN table |-> Cardinality({j \in DOMAIN table : j < i})])
Entries(mtimes) == ByRank([e \in mtimes |-> Cardinality({f \in mtimes : f[1] < e[1] \/ (f[1] = e[1] /\ f[2] < e[2])})])

\* MDB_SET_RANGE and MDB_NEXT: what a loop reads that starts at the first entry
\* that is not below its range, and ends at the first that it stops at
FirstOf(places, otherwise) == IF places = {} THEN otherwise ELSE CHOOSE n \in places : \A m \in places : n <= m
Read(list, below, stops) ==
  LET from == FirstOf({n \in DOMAIN list : list[n] \notin below}, Len(list) + 1)
      end  == FirstOf({n \in from..Len(list) : list[n] \in stops}, Len(list) + 1)
  IN  SubSeq(list, from, end - 1)

-----------------------------------------------------------------------------
(* What is read, by id, by term and by time. *)

documentGet(tables, id) == mdb_get(tables, "documents", id, Nothing)
treeGet(tables, id)     == mdb_get(tables, "tree", id, {})
postingGet(tables, t)   == mdb_get(tables, "postings", t, {})
contains(tables, id)    == id \in DOMAIN tables.ids
size(tables)            == Cardinality(DOMAIN tables.ids)

fetchItems(tables, n) ==
  LET list == IdsOf(tables.ids) IN SubSeq(list, 1, IF n < Len(list) THEN n ELSE Len(list))

TermsBefore(tables, prefix)  == {t \in DOMAIN tables.postings : Before(t, prefix)}
TermsWithout(tables, prefix) == {t \in DOMAIN tables.postings : ~IsPrefix(prefix, t)}

fetchTermsStartingWith(tables, prefix) ==
  Read(Keys(tables.postings), TermsBefore(tables, prefix), TermsWithout(tables, prefix))

\* Mutant: the loop over the terms of a prefix ends at the first that is not asked for.
iter_StopsEarly(tables, prefix, valid) ==
  UNION {tables.postings[t] : t \in ToSet(Read(Keys(tables.postings), TermsBefore(tables, prefix),
                                               TermsWithout(tables, prefix) \cup (DOMAIN tables.postings \ valid)))}

iter(tables, prefix, valid) ==
  UNION {tables.postings[t] : t \in ToSet(fetchTermsStartingWith(tables, prefix)) \cap valid}

prefixIter(tables, prefix) == iter(tables, prefix, DOMAIN tables.postings)

\* toLongLong(): a term may hold text where others have a number.
Digits(s) == s # <<>> /\ \A n \in DOMAIN s : s[n] \in 0..9
IsNumber(s) == Digits(s) \/ (s # <<>> /\ s[1] = Minus /\ Digits(Tail(s)))
Number(s) ==
  LET Value(d) == FoldLeft(LAMBDA v, digit : 10 * v + digit, 0, d)
  IN  IF s[1] = Minus THEN -Value(Tail(s)) ELSE Value(s)

NumberTerms(tables, prefix) ==
  {t \in DOMAIN tables.postings : IsNumber(SubSeq(t, Len(prefix) + 1, Len(t)))}

compIter(tables, prefix, n, comparator) ==
  iter(tables, prefix,
       {t \in NumberTerms(tables, prefix) :
          LET v == Number(SubSeq(t, Len(prefix) + 1, Len(t))) IN IF comparator = "<=" THEN v <= n ELSE v >= n})

mtimeGet(tables, time) == {e[2] : e \in {f \in tables.mtimes : f[1] = time}}

iterRange(tables, begin, end) ==
  IF end < begin THEN {}
  ELSE {e[2] : e \in ToSet(Read(Entries(tables.mtimes), {e \in tables.mtimes : e[1] < begin}, {e \in tables.mtimes : e[1] > end}))}

\* Maps that are filled from the first entry to the last: of a time, the last one stays.
idTestVector(tables) == IdsOf(tables.ids)
treeTestMap(tables)  == [id \in ToSet(IdsOf(tables.tree)) |-> treeGet(tables, id)]
postingTestMap(tables) == [t \in ToSet(Keys(tables.postings)) |-> postingGet(tables, t)]
mtimeTestMap(tables) == FoldLeft(LAMBDA map, entry : With(map, entry[1], entry[2]), <<>>, Entries(tables.mtimes))

-----------------------------------------------------------------------------
(* What is written. A transaction that is given up reads nothing. *)

Visible == IF txn.lost THEN Empty ELSE txn.tables

Change(now, told) ==
  /\ calls < MaxCalls /\ calls' = calls + 1
  /\ txn' = now /\ meant' = told
  /\ UNCHANGED <<disk, snapshot, kept>>

Told(name, k, v) == [meant EXCEPT ![name] = With(@, k, v)]
Forgotten(name, k) == [meant EXCEPT ![name] = Without(@, k)]

documentPut(id, v) == Change(mdb_put("documents", id, v), Told("documents", id, v))
documentDel(id)    == Change(mdb_del("documents", id), Forgotten("documents", id))
idPut(id)          == Change(mdb_put("ids", id, Nothing), Told("ids", id, Nothing))
idDel(id)          == Change(mdb_del("ids", id), Forgotten("ids", id))

treeSet(id, S) ==
  Change(IF S = {} THEN mdb_del("tree", id) ELSE mdb_put("tree", id, S), Told("tree", id, S))

postingPut(t, S) == mdb_put("postings", t, S)
postingDel(t)    == mdb_del("postings", t)

\* WriteTransaction::commit() reads the list of a term, and writes it again.
addPosting(t, id) ==
  Change(postingPut(t, postingGet(Visible, t) \cup {id}), Told("postings", t, postingGet(meant, t) \cup {id}))

removePosting(t, id) ==
  LET left == postingGet(Visible, t) \ {id}
  IN  Change(IF left = {} THEN postingDel(t) ELSE postingPut(t, left),
             Told("postings", t, postingGet(meant, t) \ {id}))

mtimePut(time, id) ==
  LET entry == <<time, id>>
  IN  IF id = 0 THEN Change(txn, meant)
      ELSE Change(IF txn.lost THEN txn
                  ELSE IF entry \notin txn.tables.mtimes /\ ~Room(txn.tables) THEN [txn EXCEPT !.lost = TRUE]
                  ELSE [txn EXCEPT !.tables.mtimes = @ \cup {entry}],
                  [meant EXCEPT !.mtimes = @ \cup {entry}])

\* Mutant: all documents of the time are deleted.
mtimeDel_Key(time, id) ==
  Change(IF txn.lost THEN txn ELSE [txn EXCEPT !.tables.mtimes = {e \in @ : e[1] # time}],
         [meant EXCEPT !.mtimes = @ \ {<<time, id>>}])

mtimeDel(time, id) ==
  Change(IF txn.lost THEN txn ELSE [txn EXCEPT !.tables.mtimes = @ \ {<<time, id>>}],
         [meant EXCEPT !.mtimes = @ \ {<<time, id>>}])

Open(tables) == [tables |-> tables, lost |-> FALSE]

\* Transaction::commit() says whether LMDB kept what it was told.
commit ==
  /\ disk' = (IF txn.lost THEN disk ELSE txn.tables) /\ txn' = Open(disk')
  /\ kept' = (IF txn.lost THEN kept ELSE meant) /\ meant' = kept'
  /\ UNCHANGED <<snapshot, calls>>

abort == txn' = Open(disk) /\ meant' = kept /\ UNCHANGED <<disk, snapshot, kept, calls>>

\* A reader begins; it never sees what is committed later.
read == snapshot' = disk /\ UNCHANGED <<disk, txn, meant, kept, calls>>

Init == /\ disk \in Stored /\ snapshot = disk /\ txn = Open(disk) /\ meant = disk /\ kept = disk
        /\ calls = 0

Next ==
  \/ \E id \in Ids : \/ \E v \in 1..2 : documentPut(id, <<v>>)
                     \/ documentDel(id) \/ idPut(id) \/ idDel(id)
                     \/ \E S \in SUBSET Ids : treeSet(id, S)
                     \/ \E t \in TermBytes : addPosting(t, id) \/ removePosting(t, id)
                     \/ \E time \in Times : mtimeDel(time, id)
  \/ \E id \in Ids \cup {0}, time \in Times : mtimePut(time, id)
  \/ commit \/ abort \/ read

Spec == Init /\ [][Next]_vars

-----------------------------------------------------------------------------

\* What reads the same for every call
Same(a, b) ==
  /\ \A id \in Ids : /\ documentGet(a, id) = documentGet(b, id) /\ treeGet(a, id) = treeGet(b, id)
                     /\ contains(a, id) = contains(b, id)
  /\ \A t \in TermBytes : Len(t) <= MaxKey => postingGet(a, t) = postingGet(b, t)
  /\ a.mtimes = b.mtimes

\* What is on the disk is what all transactions that could be committed were told
\* to write, of which a term that is too long is all that may be missing, and the
\* writer sees what it has written, unless LMDB has given its transaction up.
KeepsWhatIsPut == Same(disk, kept) /\ (txn.lost \/ Same(txn.tables, meant))

\* A cursor that walks through the keys from the first of a range finds all that
\* are in the range and nothing else, also when others have a part of the prefix.
\* Maps of a whole table have all of its keys, but of a time only one document.
CursorsFindTheRange ==
  /\ \A prefix \in Starts :
       LET terms == {t \in DOMAIN snapshot.postings : IsPrefix(prefix, t)}
       IN  /\ ToSet(fetchTermsStartingWith(snapshot, prefix)) = terms
           /\ prefixIter(snapshot, prefix) = UNION {snapshot.postings[t] : t \in terms}
           /\ \A n \in {-5, 4} :
                compIter(snapshot, prefix, n, "<=") \cup compIter(snapshot, prefix, n + 1, ">=")
                  = UNION {snapshot.postings[t] : t \in terms \cap NumberTerms(snapshot, prefix)}
  /\ \A begin, end \in Times :
       iterRange(snapshot, begin, end) = UNION {mtimeGet(snapshot, time) : time \in begin..end}
  /\ \A n \in 1..(Cardinality(Ids) + 1) :
       LET list == fetchItems(snapshot, n)
       IN  /\ Len(list) = (IF n < size(snapshot) THEN n ELSE size(snapshot))
           /\ \A id \in ToSet(list), other \in DOMAIN snapshot.ids : other < id => other \in ToSet(list)
  /\ idTestVector(snapshot) = fetchItems(snapshot, Cardinality(Ids) + 1)
  /\ treeTestMap(snapshot) = snapshot.tree /\ postingTestMap(snapshot) = snapshot.postings
  /\ DOMAIN mtimeTestMap(snapshot) = {e[1] : e \in snapshot.mtimes}
  /\ \A time \in DOMAIN mtimeTestMap(snapshot) : mtimeTestMap(snapshot)[time] \in mtimeGet(snapshot, time)
=============================================================================
