-------------------------------- MODULE Records --------------------------------
(***************************************************************************)
(* The file "index" as several processes open it (Database::open()), and   *)
(* what its tables hold of a document: terms (documentdb.cpp), times       *)
(* (documenttimedb.cpp), data (documentdatadb.cpp), name and folder        *)
(* (idfilenamedb.cpp), and of a term: positions (positiondb.cpp).          *)
(*                                                                         *)
(* A process opens the file once and keeps it; its later calls of open()   *)
(* only tell how it has it. Tables of LMDB go by their names, and dbis are *)
(* those names. The codecs of the values are in Codecs; what LMDB refuses, *)
(* and cursors, are in Tables.                                             *)
(***************************************************************************)
EXTENDS Naturals, Sequences, FiniteSets

CONSTANTS
  Processes,
  Documents,     \* ids
  PositionTerms, \* keys of PositionDB
  TermLists, TimeInfos, DataValues, FilePaths, PositionLists,
  MaxOpens,      \* bound: processes that begin or end
  MaxWrites      \* bound: records written

VARIABLES
  file,          \* tables of the file, or NoFile
  db,            \* Database of each process: m_mode, and what open() said last
  txn,           \* the writer, and the tables as it has them
  told,          \* what it wrote last, by member of DatabaseDbis
  kept,          \* the same, as committed
  opens, writes

vars == <<file, db, txn, told, kept, opens, writes>>

NoFile == [exists |-> FALSE]
Closed == [mode |-> "closed", result |-> "none", asked |-> "none"]
NoWriter == [by |-> "nobody"]

-----------------------------------------------------------------------------
(* LMDB *)

mdb_put(tables, table, k, v) == [tables EXCEPT ![table] = [j \in DOMAIN @ \cup {k} |-> IF j = k THEN v ELSE @[j]]]
mdb_del(tables, table, k)    == [tables EXCEPT ![table] = [j \in DOMAIN @ \ {k} |-> @[j]]]
mdb_get(tables, table, k, none) == IF k \in DOMAIN tables[table] THEN tables[table][k] ELSE none

-----------------------------------------------------------------------------
(* Database::open() *)

\* What create() of each class makes, and its open() finds
PostingDB == "postingdb"
PositionDB == "positiondb"
DocumentDB(name) == name
IdTreeDB == "idtree"
IdFilenameDB == "idfilename"
DocumentTimeDB == "documenttimedb"
DocumentDataDB == "documentdatadb"
DocumentIdDB(name) == name
MTimeDB == "mtimedb"

\* Mutant: terms of names and of attributes are in one table.
dbis_OneOfTwo ==
  [postingDbi |-> PostingDB, positionDBi |-> PositionDB, docTermsDbi |-> DocumentDB("docterms"),
   docFilenameTermsDbi |-> DocumentDB("docfilenameterms"), docXattrTermsDbi |-> DocumentDB("docfilenameterms"),
   idTreeDbi |-> IdTreeDB, idFilenameDbi |-> IdFilenameDB, docTimeDbi |-> DocumentTimeDB, docDataDbi |-> DocumentDataDB,
   contentIndexingDbi |-> DocumentIdDB("indexingleveldb"), failedIdDbi |-> DocumentIdDB("failediddb"), mtimeDbi |-> MTimeDB]

dbis ==
  [postingDbi |-> PostingDB, positionDBi |-> PositionDB, docTermsDbi |-> DocumentDB("docterms"),
   docFilenameTermsDbi |-> DocumentDB("docfilenameterms"), docXattrTermsDbi |-> DocumentDB("docxatrrterms"),
   idTreeDbi |-> IdTreeDB, idFilenameDbi |-> IdFilenameDB, docTimeDbi |-> DocumentTimeDB, docDataDbi |-> DocumentDataDB,
   contentIndexingDbi |-> DocumentIdDB("indexingleveldb"), failedIdDbi |-> DocumentIdDB("failediddb"), mtimeDbi |-> MTimeDB]

TableNames == {dbis[d] : d \in DOMAIN dbis}

\* create() leaves a table as it is that is there already; open() gives 0 for one that is not.
Created(tables) == [t \in TableNames |-> IF t \in DOMAIN tables THEN tables[t] ELSE <<>>]
isValid(tables) == TableNames \subseteq DOMAIN tables

Said(p, mode, asked, result) == db' = [db EXCEPT ![p] = [mode |-> mode, asked |-> asked, result |-> result]]

\* Mutant: a database that is open will do for anyone.
openAgain_AnyMode(p, mode) ==
  /\ db[p].mode \in {"ReadOnly", "ReadWrite"}
  /\ Said(p, db[p].mode, mode, "Success")
  /\ UNCHANGED <<file, txn, told, kept, opens, writes>>

openAgain(p, mode) ==
  /\ db[p].mode \in {"ReadOnly", "ReadWrite"}
  /\ Said(p, db[p].mode, mode,
          IF mode = "ReadOnly" \/ db[p].mode = "ReadWrite" THEN "Success" ELSE "OpenedReadOnly")
  /\ UNCHANGED <<file, txn, told, kept, opens, writes>>

\* ReadOnlyDatabase and ReadWriteDatabase: all tables must be there.
open(p, mode) ==
  /\ db[p].mode = "closed" /\ mode \in {"ReadOnly", "ReadWrite"} /\ opens < MaxOpens /\ opens' = opens + 1
  /\ IF file = NoFile THEN Said(p, "closed", mode, "InvalidPath")
     ELSE IF isValid(file.tables) THEN Said(p, mode, mode, "Success")
     ELSE Said(p, "closed", mode, "InvalidDatabase")
  /\ UNCHANGED <<file, txn, told, kept, writes>>

\* CreateDatabase: the file is there as soon as its environment is open, ...
createFile(p) ==
  /\ db[p].mode = "closed" /\ opens < MaxOpens /\ opens' = opens + 1
  /\ file' = IF file = NoFile THEN [exists |-> TRUE, tables |-> <<>>] ELSE file
  /\ Said(p, "creating", "Create", "none")
  /\ UNCHANGED <<txn, told, kept, writes>>

\* ... and the tables when the transaction is committed that creates them, which
\* waits for other writers.
createTables(p) ==
  /\ db[p].mode = "creating" /\ txn = NoWriter
  /\ file' = [file EXCEPT !.tables = Created(@)]
  /\ Said(p, "ReadWrite", "Create", "Success")
  /\ UNCHANGED <<txn, told, kept, opens, writes>>

\* What a process has not committed is gone with it.
end(p) ==
  /\ db[p].mode # "closed" /\ opens < MaxOpens /\ opens' = opens + 1
  /\ db' = [db EXCEPT ![p] = Closed]
  /\ IF txn.by = p THEN txn' = NoWriter /\ told' = kept ELSE UNCHANGED <<txn, told>>
  /\ UNCHANGED <<file, kept, writes>>

-----------------------------------------------------------------------------
(* Transactions that write *)

begin(p) ==
  /\ db[p].mode = "ReadWrite" /\ txn = NoWriter /\ writes < MaxWrites
  /\ txn' = [by |-> p, tables |-> file.tables]
  /\ UNCHANGED <<file, db, told, kept, opens, writes>>

commit ==
  /\ txn # NoWriter /\ file' = [file EXCEPT !.tables = txn.tables] /\ kept' = told /\ txn' = NoWriter
  /\ UNCHANGED <<db, told, opens, writes>>

abort ==
  /\ txn # NoWriter /\ txn' = NoWriter /\ told' = kept
  /\ UNCHANGED <<file, db, kept, opens, writes>>

Write(tables, member, k, v) ==
  /\ txn # NoWriter /\ writes < MaxWrites /\ writes' = writes + 1
  /\ txn' = [txn EXCEPT !.tables = tables]
  /\ told' = [told EXCEPT ![member] = [j \in DOMAIN @ \cup {k} |-> IF j = k THEN v ELSE @[j]]]
  /\ UNCHANGED <<file, db, kept, opens>>

Remove(tables, member, k) ==
  /\ txn # NoWriter /\ writes < MaxWrites /\ writes' = writes + 1
  /\ txn' = [txn EXCEPT !.tables = tables]
  /\ told' = [told EXCEPT ![member] = [j \in DOMAIN @ \ {k} |-> @[j]]]
  /\ UNCHANGED <<file, db, kept, opens>>

-----------------------------------------------------------------------------
(* The records. None of get() tells a record of defaults from one that is not there. *)

TermMembers == {"docTermsDbi", "docFilenameTermsDbi", "docXattrTermsDbi"}
documentPut(member, id, list) == Write(mdb_put(txn.tables, dbis[member], id, list), member, id, list)
documentDel(member, id)       == Remove(mdb_del(txn.tables, dbis[member], id), member, id)
documentGet(tables, member, id) == mdb_get(tables, dbis[member], id, <<>>)
documentContains(tables, member, id) == id \in DOMAIN tables[dbis[member]]
documentSize(tables, member) == Cardinality(DOMAIN tables[dbis[member]])
documentTestMap(tables, member) == [id \in DOMAIN tables[dbis[member]] |-> documentGet(tables, member, id)]

timePut(id, info) == Write(mdb_put(txn.tables, dbis.docTimeDbi, id, info), "docTimeDbi", id, info)
timeDel(id)       == Remove(mdb_del(txn.tables, dbis.docTimeDbi, id), "docTimeDbi", id)
timeGet(tables, id) == mdb_get(tables, dbis.docTimeDbi, id, [mTime |-> 0, cTime |-> 0])
timeContains(tables, id) == id \in DOMAIN tables[dbis.docTimeDbi]
timeTestMap(tables) == [id \in DOMAIN tables[dbis.docTimeDbi] |-> timeGet(tables, id)]

dataPut(id, data) == Write(mdb_put(txn.tables, dbis.docDataDbi, id, data), "docDataDbi", id, data)
dataDel(id)       == Remove(mdb_del(txn.tables, dbis.docDataDbi, id), "docDataDbi", id)
dataGet(tables, id) == mdb_get(tables, dbis.docDataDbi, id, <<>>)
dataContains(tables, id) == id \in DOMAIN tables[dbis.docDataDbi]
dataTestMap(tables) == [id \in DOMAIN tables[dbis.docDataDbi] |-> dataGet(tables, id)]

\* The folder's id is in front of the name, and what is shorter than an id is no record.
namePut(id, path) ==
  Write(mdb_put(txn.tables, dbis.idFilenameDbi, id, <<path.parentId>> \o path.name), "idFilenameDbi", id, path)
nameDel(id) == Remove(mdb_del(txn.tables, dbis.idFilenameDbi, id), "idFilenameDbi", id)
NoPath == [parentId |-> 0, name |-> <<>>]
nameGet(tables, id) ==
  LET bytes == mdb_get(tables, dbis.idFilenameDbi, id, <<>>)
  IN  IF bytes = <<>> THEN NoPath ELSE [parentId |-> Head(bytes), name |-> Tail(bytes)]
nameContains(tables, id) == id \in DOMAIN tables[dbis.idFilenameDbi]
nameTestMap(tables) == [id \in DOMAIN tables[dbis.idFilenameDbi] |-> nameGet(tables, id)]

positionPut(word, list) == Write(mdb_put(txn.tables, dbis.positionDBi, word, list), "positionDBi", word, list)
positionDel(word)       == Remove(mdb_del(txn.tables, dbis.positionDBi, word), "positionDBi", word)
positionGet(tables, word) == mdb_get(tables, dbis.positionDBi, word, <<>>)
\* Without positions there is no iterator.
positionIter(tables, word) ==
  IF word \in DOMAIN tables[dbis.positionDBi] THEN <<positionGet(tables, word)>> ELSE <<>>
positionTestMap(tables) == [word \in DOMAIN tables[dbis.positionDBi] |-> positionGet(tables, word)]

-----------------------------------------------------------------------------

Init ==
  /\ file = NoFile /\ db = [p \in Processes |-> Closed] /\ txn = NoWriter
  /\ told = [d \in DOMAIN dbis |-> <<>>] /\ kept = told /\ opens = 0 /\ writes = 0

Next ==
  \/ \E p \in Processes :
       \/ \E mode \in {"ReadOnly", "ReadWrite", "Create"} : openAgain(p, mode) \/ open(p, mode)
       \/ createFile(p) \/ createTables(p) \/ end(p) \/ begin(p)
  \/ commit \/ abort
  \/ \E id \in Documents :
       \/ \E m \in TermMembers : documentDel(m, id) \/ \E list \in TermLists : documentPut(m, id, list)
       \/ timeDel(id) \/ \E info \in TimeInfos : timePut(id, info)
       \/ dataDel(id) \/ \E data \in DataValues : dataPut(id, data)
       \/ nameDel(id) \/ \E path \in FilePaths : namePut(id, path)
  \/ \E word \in PositionTerms : positionDel(word) \/ \E list \in PositionLists : positionPut(word, list)

Spec == Init /\ [][Next]_vars

-----------------------------------------------------------------------------

Get(f, k, none) == IF k \in DOMAIN f THEN f[k] ELSE none

\* Each record reads as it was written last, whatever was written of other records
\* and tables in between, and the maps and sizes show those and no others.
Reads(tables, as) ==
  /\ \A m \in TermMembers :
       /\ \A id \in Documents : /\ documentGet(tables, m, id) = Get(as[m], id, <<>>)
                                /\ documentContains(tables, m, id) <=> id \in DOMAIN as[m]
       /\ documentTestMap(tables, m) = as[m] /\ documentSize(tables, m) = Cardinality(DOMAIN as[m])
  /\ \A id \in Documents :
       /\ timeGet(tables, id) = Get(as.docTimeDbi, id, [mTime |-> 0, cTime |-> 0])
       /\ timeContains(tables, id) <=> id \in DOMAIN as.docTimeDbi
       /\ dataGet(tables, id) = Get(as.docDataDbi, id, <<>>)
       /\ dataContains(tables, id) <=> id \in DOMAIN as.docDataDbi
       /\ nameGet(tables, id) = Get(as.idFilenameDbi, id, NoPath)
       /\ nameContains(tables, id) <=> id \in DOMAIN as.idFilenameDbi
  /\ timeTestMap(tables) = as.docTimeDbi /\ dataTestMap(tables) = as.docDataDbi
  /\ nameTestMap(tables) = as.idFilenameDbi /\ positionTestMap(tables) = as.positionDBi
  /\ \A word \in PositionTerms : positionIter(tables, word) = IF word \in DOMAIN as.positionDBi THEN <<as.positionDBi[word]>> ELSE <<>>

RecordsAreKept ==
  /\ \A p \in Processes : db[p].mode \in {"ReadOnly", "ReadWrite"} => Reads(file.tables, kept)
  /\ txn # NoWriter => Reads(txn.tables, told)

\* A process that was told Success can do what it asked for, on a file with all
\* tables, whoever else creates the file meanwhile or ends while doing so; and a
\* file with all tables is opened by all who ask.
OpenedIsUsable ==
  /\ \A p \in Processes :
       /\ db[p].result = "Success" =>
            isValid(file.tables) /\ (db[p].asked # "ReadOnly" => db[p].mode = "ReadWrite")
       /\ db[p].mode = "closed" /\ db[p].result = "InvalidPath" => db[p].asked # "Create"
       /\ db[p].mode \in {"ReadOnly", "ReadWrite"} => db[p].result \in {"Success", "OpenedReadOnly"}
  /\ txn # NoWriter => db[txn.by].mode = "ReadWrite"
  /\ file # NoFile => DOMAIN file.tables \in {{}, TableNames}
=============================================================================
