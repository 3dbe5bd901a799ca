------------------------------ MODULE Inspection ------------------------------
(***************************************************************************)
(* What is shown of the index: balooctl status and balooctl failed         *)
(* (statuscommand.cpp, balooctl/main.cpp), balooshow (balooshow/main.cpp)  *)
(* and the checks of Transaction (transaction.cpp), on an index that       *)
(* baloo_file keeps while files come and go.                               *)
(*                                                                         *)
(* A command opens its transaction, and looks at the files afterwards. The *)
(* id of a file is made of the low halves of its device and its inode; Low *)
(* is their number. The writers of the index are those of BasicIndexers    *)
(* and ContentIndexer, with one file at a time; a term is short or too     *)
(* long for a key of PostingDB, and a property term the sequence of its    *)
(* characters.                                                             *)
(***************************************************************************)
EXTENDS Integers, Sequences, FiniteSets, SequencesExt, TLC

CONSTANTS
  Paths,
  Parent,         \* the folder of a path, the topmost one is its own
  Configs,        \* [onlyBasicIndexing, excluded: the paths that should not be indexed]
  Files,          \* [kind, device, inode, empty, terms]
  Low,            \* 2^32
  StatusLimit,    \* 100, the most failed files that balooctl status counts
  FailedLimit,    \* 128, the most that balooctl failed lists
  MaxKey,         \* 511, the longest key that PostingDB takes
  MaxSteps        \* bound: changes of files and of the index

VARIABLES
  disk,           \* the file at a path, or Nothing, with the number of its making
  index,          \* of each known id: url, terms, phaseOne, the file it is of and what came of that
  failed,         \* FailedIdsDB
  postings,       \* terms of ids that PostingDB took
  config,
  opened,         \* the transaction of a command
  steps

vars == <<disk, index, failed, postings, config, opened, steps>>

Nothing == [kind |-> "NonExisting"]
Closed == <<>>

-----------------------------------------------------------------------------
(* Ids (idutils.h) *)

devIdAndInodeToId(device, inode) == (inode % Low) * Low + (device % Low)
idToDeviceId(id) == id % Low
idToInode(id)    == id \div Low

statBufToId(f) == devIdAndInodeToId(f.device, f.inode)
filePathToId(p) == IF disk[p] = Nothing THEN 0 ELSE statBufToId(disk[p])

\* Numbers as they are printed and read
Digits(n, base) ==
  LET length == CHOOSE l \in 1..20 : n < base^l /\ (l = 1 \/ n >= base^(l - 1))
  IN  [k \in 1..length |-> (n \div base^(length - k)) % base]
Valid(text, base) == text # <<>> /\ \A k \in DOMAIN text : text[k] < base
Value(text, base) == FoldLeft(LAMBDA n, digit : n * base + digit, 0, text)

\* toULongLong(&ok, 10), and if that is not ok with base 16
toNumber(text) == IF Valid(text, 10) THEN Value(text, 10) ELSE Value(text, 16)

-----------------------------------------------------------------------------
(* Files and the writers of the index *)

Change == steps < MaxSteps /\ steps' = steps + 1 /\ UNCHANGED opened
\* What is written after a command has opened its transaction is not seen by it.
Write == Change /\ opened = Closed /\ UNCHANGED <<disk, config>>
Index == UNCHANGED <<index, failed, postings>>

known == DOMAIN index

\* What is at a path is in a folder, and has no other path.
Sound(d) ==
  /\ \A p \in Paths : d[p] # Nothing /\ Parent[p] # p => d[Parent[p]].kind = "Directory"
  /\ \A p, q \in Paths :
       p # q /\ Nothing \notin {d[p], d[q]} => <<d[p].device, d[p].inode>> # <<d[q].device, d[q].inode>>

put(p, f) ==
  /\ Change /\ Index /\ UNCHANGED config
  /\ disk' = [disk EXCEPT ![p] = f @@ [made |-> steps + 1]] /\ Sound(disk')

remove(p) ==
  /\ Change /\ Index /\ UNCHANGED config /\ disk[p] # Nothing
  /\ disk' = [disk EXCEPT ![p] = Nothing] /\ Sound(disk')

configure(c) == Change /\ Index /\ UNCHANGED disk /\ config' = c

shouldBeIndexed(p) == p \notin config.excluded

\* A folder that is entered with what is in it has a path and no terms.
EnteredByPath(p) == [url |-> p, terms |-> {}, phaseOne |-> FALSE, of |-> Nothing, outcome |-> "none", marked |-> FALSE]

ToBeRead(f) == f.kind = "RegularFile" /\ ~f.empty /\ ~config.onlyBasicIndexing

newFile(p) ==
  LET f == disk[p]  id == filePathToId(p)  parent == filePathToId(Parent[p])
      doc == [url |-> p, terms |-> f.terms, phaseOne |-> ToBeRead(f), of |-> f, outcome |-> "none", marked |-> ToBeRead(f)]
  IN  /\ Write /\ shouldBeIndexed(p)
      /\ f.kind \in {"RegularFile", "Directory"} /\ id \notin known
      /\ index' = (id :> doc) @@ index @@ (parent :> EnteredByPath(Parent[p]))
      /\ postings' = postings \cup {<<t, id>> : t \in {u \in f.terms : Len(u) <= MaxKey}}
      /\ UNCHANGED failed

\* A file with the id of its document was written again.
modifiedFile(p) ==
  LET f == disk[p]  id == filePathToId(p) IN
  /\ Write /\ f.kind = "RegularFile" /\ id \in known /\ index[id].of \notin {f, Nothing}
  /\ index[id].url = p /\ index[id].terms = f.terms
  /\ index' = [index EXCEPT ![id].of = f, ![id].phaseOne = @ \/ ToBeRead(f), ![id].outcome = "none",
                            ![id].marked = index[id].phaseOne \/ ToBeRead(f)]
  /\ UNCHANGED <<failed, postings>>

contents(id, ok) ==
  /\ Write /\ id \in known /\ index[id].phaseOne
  /\ index' = [index EXCEPT ![id].phaseOne = FALSE, ![id].outcome = IF ok THEN "read" ELSE "failed"]
  /\ failed' = IF ok THEN failed \ {id} ELSE failed \cup {id}
  /\ UNCHANGED postings

removeDocument(id) ==
  /\ Write /\ id \in known
  /\ index' = [k \in known \ {id} |-> index[k]]
  /\ failed' = failed \ {id}
  /\ postings' = {p \in postings : p[2] # id}

-----------------------------------------------------------------------------
(* Transaction, opened by a command *)

open ==
  /\ opened = Closed
  /\ opened' = <<[index |-> index, failed |-> failed, postings |-> postings, config |-> config]>>
  /\ UNCHANGED <<disk, index, failed, postings, config, steps>>

tr == opened[1]
hasDocument(id) == id \in DOMAIN tr.index
inPhaseOne(id) == hasDocument(id) /\ tr.index[id].phaseOne
hasFailed(id) == id \in tr.failed
documentUrl(id) == IF hasDocument(id) THEN <<tr.index[id].url>> ELSE <<>>
failedIds(limit) == {id \in tr.failed : Cardinality({k \in tr.failed : k < id}) < limit}

-----------------------------------------------------------------------------
(* balooctl status <file> *)

\* Mutant: a file that failed once has failed, although it waits to be read again.
collectFileStatus_FailedFirst(p) ==
  LET f == disk[p]  id == filePathToId(p) IN
  CASE f.kind \notin {"RegularFile", "Directory"} -> "NoFileOrDirectory"
    [] f.kind \in {"RegularFile", "Directory"} /\ p \in tr.config.excluded -> "ExcludedByPath"
    [] OTHER ->
         IF tr.config.onlyBasicIndexing \/ f.kind = "Directory"
         THEN IF hasDocument(id) THEN "BasicIndexingDone" ELSE "WaitingForBasicIndexing"
         ELSE IF ~hasDocument(id) THEN "WaitingForIndexingBoth"
         ELSE IF hasFailed(id) THEN "FailedToIndex"
         ELSE IF inPhaseOne(id) THEN "WaitingForContentIndexing"
         ELSE "Done"

collectFileStatus(p) ==
  LET f == disk[p]  id == filePathToId(p) IN
  CASE f.kind \notin {"RegularFile", "Directory"} -> "NoFileOrDirectory"
    [] f.kind \in {"RegularFile", "Directory"} /\ p \in tr.config.excluded -> "ExcludedByPath"
    [] OTHER ->
         IF tr.config.onlyBasicIndexing \/ f.kind = "Directory"
         THEN IF hasDocument(id) THEN "BasicIndexingDone" ELSE "WaitingForBasicIndexing"
         ELSE IF ~hasDocument(id) THEN "WaitingForIndexingBoth"
         ELSE IF inPhaseOne(id) THEN "WaitingForContentIndexing"
         ELSE IF hasFailed(id) THEN "FailedToIndex"
         ELSE "Done"

\* Lines of printMultiLine(), empty ones are left out
basicIndexStateValue ==
  [ExcludedByPath |-> "disabled", WaitingForIndexingBoth |-> "scheduled", WaitingForBasicIndexing |-> "scheduled",
   BasicIndexingDone |-> "done", WaitingForContentIndexing |-> "done", FailedToIndex |-> "done", Done |-> "done"]
contentIndexStateValue ==
  [ExcludedByPath |-> "", WaitingForIndexingBoth |-> "scheduled", WaitingForBasicIndexing |-> "",
   BasicIndexingDone |-> "", WaitingForContentIndexing |-> "scheduled", FailedToIndex |-> "failed", Done |-> "done"]
printMultiLine(state) == [Basic |-> basicIndexStateValue[state], Content |-> contentIndexStateValue[state]]

\* printSimpleFormat(): what it speaks of, and how far that is
simpleIndexStateValue ==
  [ExcludedByPath |-> <<{}, "disabled">>,
   WaitingForIndexingBoth |-> <<{"Basic", "Content"}, "scheduled">>, WaitingForBasicIndexing |-> <<{"Basic"}, "scheduled">>,
   BasicIndexingDone |-> <<{"Basic"}, "done">>, WaitingForContentIndexing |-> <<{"Content"}, "scheduled">>,
   FailedToIndex |-> <<{"Content"}, "failed">>, Done |-> <<{"Content"}, "done">>]

\* printJSON()
jsonIndexStateValue ==
  [ExcludedByPath |-> "disabled", WaitingForIndexingBoth |-> "scheduled", WaitingForBasicIndexing |-> "scheduled",
   BasicIndexingDone |-> "done", WaitingForContentIndexing |-> "scheduled", FailedToIndex |-> "failed", Done |-> "done"]
jsonIndexLevelValue ==
  [ExcludedByPath |-> "none", WaitingForIndexingBoth |-> "content", WaitingForBasicIndexing |-> "basic",
   BasicIndexingDone |-> "basic", WaitingForContentIndexing |-> "content", FailedToIndex |-> "content", Done |-> "content"]

\* balooctl status and balooctl failed without a file
filesFailed == Cardinality(failedIds(StatusLimit))
listOfFailed == [urls |-> {documentUrl(id) : id \in failedIds(FailedLimit)},
                 truncated |-> Cardinality(failedIds(FailedLimit)) = FailedLimit]

-----------------------------------------------------------------------------
(* balooshow *)

\* Device 0 is taken for none.
showInode(inode, device) ==
  IF toNumber(device) = 0 THEN <<>> ELSE <<devIdAndInodeToId(toNumber(device), toNumber(inode))>>

\* Where a property term has its second hyphen or its only one
isNumber(text) == text # <<>> /\ ToSet(text) \subseteq {"0", "1", "2", "3", "4", "5", "6", "7", "8", "9"}
Hyphen(word) == SelectInSubSeq(word, 3, Len(word), LAMBDA c : c = "-")

\* What is said of a property term: its number and value, or nothing of a malformed one.
propertyWord(word) ==
  IF Len(word) < 4 THEN <<>>
  ELSE LET pos == Hyphen(word) IN
       IF pos = 0 \/ pos = Len(word) \/ ~isNumber(SubSeq(word, 2, pos - 1)) THEN <<>>
       ELSE <<SubSeq(word, 2, pos - 1), SubSeq(word, pos + 1, Len(word))>>

-----------------------------------------------------------------------------
(* The checks of Transaction *)

allIds == {p[2] : p \in tr.postings}
checkFsTree == {id \in allIds : ~hasDocument(id) \/ disk[tr.index[id].url] = Nothing}
checkTermsDbinPostingDb ==
  UNION {{<<id, t>> : t \in {u \in tr.index[id].terms : <<u, id>> \notin tr.postings}} : id \in allIds \cap DOMAIN tr.index}
checkPostingDbinTermsDb ==
  {p \in tr.postings : ~hasDocument(p[2]) \/ p[1] \notin tr.index[p[2]].terms}

-----------------------------------------------------------------------------

Init ==
  /\ disk \in [Paths -> {f @@ [made |-> 0] : f \in Files} \cup {Nothing}]
  /\ Sound(disk)
  /\ index = <<>> /\ failed = {} /\ postings = {}
  /\ config = [onlyBasicIndexing |-> FALSE, excluded |-> {}] /\ opened = Closed /\ steps = 0

Next == \/ \E p \in Paths : (\E f \in Files : put(p, f)) \/ remove(p) \/ newFile(p) \/ modifiedFile(p)
        \/ \E id \in known : (\E ok \in BOOLEAN : contents(id, ok)) \/ removeDocument(id)
        \/ (\E c \in Configs : configure(c)) \/ open

Spec == Init /\ [][Next]_vars

-----------------------------------------------------------------------------

Open == opened # Closed

\* A file that the index has as it is, with nothing else by its id
Fresh(p) == p \notin tr.config.excluded /\ hasDocument(filePathToId(p)) /\ tr.index[filePathToId(p)].of = disk[p]

\* Of such a file balooctl status says that its contents wait to be read, that this
\* failed, or that they were read, unless they were not to be when it was last
\* indexed. Of
\* another it says so only if the index has an id like its own, or has a folder
\* because of what is in it (documenturldb.cpp:38).
StatusIsSo ==
  Open => \A p \in Paths :
    LET state == collectFileStatus(p)  doc == tr.index[filePathToId(p)] IN
    /\ Fresh(p) /\ disk[p].kind = "RegularFile" /\ ~tr.config.onlyBasicIndexing =>
         \/ state = "WaitingForContentIndexing" /\ doc.marked /\ doc.outcome = "none"
         \/ state = "FailedToIndex" /\ (doc.outcome = "failed" \/ ~doc.marked)
         \/ state = "Done" /\ (doc.outcome = "read" \/ ~doc.marked)
    /\ state \in {"Done", "BasicIndexingDone"} /\ ~Fresh(p) =>
         doc.of = Nothing \/ doc.of.made # disk[p].made \/ statBufToId(doc.of) = filePathToId(p)

\* All three formats say the same of a file.
FormatsAgree ==
  Open => \A p \in Paths :
    LET state == collectFileStatus(p)  lines == printMultiLine(state)
        simple == simpleIndexStateValue[state]  json == jsonIndexStateValue[state]
        level == jsonIndexLevelValue[state]
    IN  state # "NoFileOrDirectory" =>
          /\ simple[2] = json
          /\ json = IF lines.Content = "" THEN lines.Basic ELSE lines.Content
          /\ level = IF lines.Basic = "disabled" THEN "none" ELSE IF lines.Content = "" THEN "basic" ELSE "content"
          /\ simple[1] = {l \in {"Basic", "Content"} : lines[l] = json /\ json # "disabled" /\ (l = "Basic" /\ json = "done" => lines.Content = "")}

\* A file that failed is listed, unless the list says that it is not complete, and
\* is counted as long as there are not too many.
FailedAreListed ==
  Open => /\ ~listOfFailed.truncated => listOfFailed.urls = {documentUrl(id) : id \in tr.failed}
          /\ <<>> \notin listOfFailed.urls
          /\ filesFailed < StatusLimit => filesFailed = Cardinality(tr.failed)

\* balooshow takes what it shows of a file for the same file again: its inode and
\* device, unless that is 0, and its id, unless that looks like a decimal number.
LookupsAgree ==
  Open => \A p \in {q \in Paths : disk[q] # Nothing} :
    LET id == filePathToId(p)  text == Digits(id, 16) IN
    /\ showInode(Digits(idToInode(id), 10), Digits(idToDeviceId(id), 10)) =
         IF idToDeviceId(id) = 0 THEN <<>> ELSE <<id>>
    /\ toNumber(text) = id <=> ~Valid(text, 10) \/ id < 10

\* Each property term of a value is read as its number and value. (balooshow calls
\* one without a value malformed, which is how a Bool is stored, result.cpp:63.)
PropertyTermsAreRead ==
  Open => \A id \in DOMAIN tr.index : \A t \in {u \in tr.index[id].terms : u[1] = "X"} :
    LET pos == SelectInSeq(t, LAMBDA c : c = "-")
    IN  propertyWord(t) = IF pos = Len(t) THEN <<>> ELSE <<SubSeq(t, 2, pos - 1), SubSeq(t, pos + 1, Len(t))>>

\* The checks report each term that PostingDB did not take and each document whose
\* path is gone, but a folder that was only entered with what is in it.
ChecksReport ==
  Open => /\ checkPostingDbinTermsDb = {}
          /\ checkTermsDbinPostingDb =
               {<<id, t>> \in (DOMAIN tr.index) \X UNION {f.terms : f \in Files} :
                  t \in tr.index[id].terms /\ Len(t) > MaxKey}
          /\ checkFsTree = {id \in DOMAIN tr.index : tr.index[id].of # Nothing /\ disk[tr.index[id].url] = Nothing}
===============================================================================
