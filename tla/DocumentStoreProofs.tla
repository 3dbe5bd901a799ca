------------------------- MODULE DocumentStoreProofs -------------------------
(***************************************************************************)
(* Proofs about DocumentStore, for any ids, terms, bodies and bounds.      *)
(***************************************************************************)
EXTENDS DocumentStore, SequenceTheorems, TLAPS

USE DEF Groups

\* Facts of one version of the tables, open or committed.
TermsInGroups(d) == \A g \in Groups, i \in Ids : d.terms[g][i] \subseteq GroupTerms[g]
TimesOf(d) == \A m \in Times, i \in Ids : <<m, i>> \in d.mtimes <=> d.time[i] = m
TreeOf(d)  == \A p \in Ids \cup {Root}, i \in Ids : i \in d.tree[p] <=> d.parent[i] = p
NoTrace(d) == \A i \in Ids : ~hasDocument(d, i) =>
                /\ AllTerms(d, i) = {} /\ d.time[i] = 0
                /\ i \notin d.contentIndexing /\ i \notin d.data

Sound(d) == d \in Tables /\ TermsInGroups(d) /\ TimesOf(d) /\ TreeOf(d) /\ NoTrace(d)

\* The committed lists agree with the committed tables; the queued operations
\* lead from there to what the open transaction has made of them.
CommittedMatch == /\ \A t \in Terms, i \in Ids : i \in postings[t] <=> t \in AllTerms(disk, i)
                  /\ \A t \in Terms : positions[t] \subseteq postings[t]

IInv == /\ TypeOK
        /\ Sound(db) /\ Sound(disk)
        /\ PostingsMatchTerms /\ PositionsHavePostings
        /\ CommittedMatch

-----------------------------------------------------------------------------
(* Operators on the tables. *)

\* A term is in the group an indexer put it in and in no other.
LEMMA OneGroup ==
  ASSUME NEW g \in Groups, NEW h \in Groups, g # h, NEW t,
         t \in GroupTerms[g], t \in GroupTerms[h]
  PROVE  FALSE
  BY ConstantsAssumption

\* Adding a file, and the folders above it that are unknown, keeps the tables
\* sound.
LEMMA AddedSound ==
  ASSUME NEW d, Sound(d), NEW path \in PathsOfFiles, NEW b \in Bodies,
         ~hasDocument(d, path[Len(path)])
  PROVE  Sound(added(d, path, b))
<1> DEFINE i == path[Len(path)]
           a == added(d, path, b)
<1>1. /\ path \in Seq(Ids) /\ Len(path) \in Nat \ {0} /\ DOMAIN path = 1..Len(path)
      /\ \A n \in 1..Len(path) : path[n] \in Ids
      /\ \A m, n \in 1..Len(path) : path[m] = path[n] => m = n
  <2>1. PICK n \in 0..MaxDepth : path \in [1..n -> Ids]
    BY DEF PathsOfFiles, SeqOf
  <2>2. Len(path) = n /\ n # 0 /\ DOMAIN path = 1..n /\ path \in Seq(Ids)
    BY <2>1 DEF PathsOfFiles
  <2> QED BY <2>1, <2>2 DEF PathsOfFiles, IsInjective
<1>2. /\ EntersAt(d, path) \subseteq 1..Len(path) /\ Len(path) \in EntersAt(d, path)
      /\ \A n \in EntersAt(d, path) : ~hasDocument(d, path[n])
  BY <1>1 DEF EntersAt
<1>3. \A n \in 1..Len(path) : Folder(path, n) \in Ids \cup {Root}
  BY <1>1 DEF Folder
<1>4. \A n \in EntersAt(d, path) : addedParent(d, path)[path[n]] = Folder(path, n)
  <2> SUFFICES ASSUME NEW n \in EntersAt(d, path)
               PROVE  addedParent(d, path)[path[n]] = Folder(path, n)
    OBVIOUS
  <2>1. \A m \in EntersAt(d, path) : path[m] = path[n] => m = n
    BY <1>1, <1>2
  <2>2. (CHOOSE m \in EntersAt(d, path) : path[m] = path[n]) = n
    BY <2>1
  <2> QED BY <1>1, <1>2, <2>2 DEF addedParent
<1>5. \A j \in Ids : (\A n \in EntersAt(d, path) : path[n] # j)
                       => addedParent(d, path)[j] = d.parent[j]
  BY DEF addedParent
<1>6. /\ a.parent = addedParent(d, path) /\ a.tree = addedTree(d, path)
      /\ a.terms = [g \in Groups |-> [d.terms[g] EXCEPT ![i] = b.terms[g]]]
      /\ a.time = [d.time EXCEPT ![i] = b.mTime]
      /\ a.mtimes = d.mtimes \cup {<<b.mTime, i>>}
      /\ \A j \in Ids : j # i => /\ j \in a.contentIndexing <=> j \in d.contentIndexing
                                 /\ j \in a.data <=> j \in d.data
  BY DEF added
<1>7. i \in Ids /\ b.mTime \in Times /\ b \in Body
  BY <1>1, ConstantsAssumption DEF Body
<1>8. a \in Tables
  <2>1. addedParent(d, path) \in [Ids -> Ids \cup {Root, NoEntry}]
    <3> SUFFICES ASSUME NEW j \in Ids PROVE addedParent(d, path)[j] \in Ids \cup {Root, NoEntry}
      BY DEF addedParent
    <3>1. CASE \E n \in EntersAt(d, path) : path[n] = j
      BY <3>1, <1>2, <1>3, <1>4
    <3>2. CASE \A n \in EntersAt(d, path) : path[n] # j
      BY <3>2, <1>5 DEF Sound, Tables
    <3> QED BY <3>1, <3>2
  <2>2. addedTree(d, path) \in [Ids \cup {Root} -> SUBSET Ids]
    BY <1>1, <1>2 DEF addedTree, Sound, Tables
  <2>3. a.terms \in [Groups -> [Ids -> SUBSET Terms]]
    BY <1>6, <1>7 DEF Sound, Tables, Body
  <2>4. a.time \in [Ids -> Times \cup {0}] /\ a.mtimes \subseteq Times \X Ids
    BY <1>6, <1>7 DEF Sound, Tables
  <2>5. a.contentIndexing \subseteq Ids /\ a.failed \subseteq Ids /\ a.data \subseteq Ids
    BY <1>7 DEF added, Sound, Tables
  <2> QED BY <2>1, <2>2, <2>3, <2>4, <2>5 DEF added, Tables
<1>9. TermsInGroups(a)
  BY <1>6, <1>7, ConstantsAssumption DEF TermsInGroups, Sound, Tables
<1>10. d.time[i] = 0 /\ TimesOf(a)
  BY <1>6, <1>7, ConstantsAssumption DEF TimesOf, NoTrace, Sound, Tables
<1>11. TreeOf(a)
  <2> SUFFICES ASSUME NEW p \in Ids \cup {Root}, NEW j \in Ids
               PROVE  j \in a.tree[p] <=> a.parent[j] = p
    BY DEF TreeOf
  <2>1. j \in a.tree[p] <=> \/ j \in d.tree[p]
                            \/ \E n \in EntersAt(d, path) : Folder(path, n) = p /\ path[n] = j
    BY <1>6 DEF addedTree
  <2>2. CASE \E n \in EntersAt(d, path) : path[n] = j
    <3>1. PICK n \in EntersAt(d, path) : path[n] = j
      BY <2>2
    <3>2. a.parent[j] = Folder(path, n)
      BY <3>1, <1>4, <1>6
    <3>3. j \notin d.tree[p]
      BY <3>1, <1>2, ConstantsAssumption DEF Sound, TreeOf, hasDocument
    <3>4. \A m \in EntersAt(d, path) : path[m] = j => m = n
      BY <3>1, <1>1, <1>2
    <3> QED BY <2>1, <3>1, <3>2, <3>3, <3>4
  <2>3. CASE \A n \in EntersAt(d, path) : path[n] # j
    BY <2>1, <2>3, <1>5, <1>6 DEF Sound, TreeOf
  <2> QED BY <2>2, <2>3
<1>12. NoTrace(a)
  <2> SUFFICES ASSUME NEW j \in Ids, ~hasDocument(a, j)
               PROVE  /\ AllTerms(a, j) = {} /\ a.time[j] = 0
                      /\ j \notin a.contentIndexing /\ j \notin a.data
    BY DEF NoTrace
  <2>1. \A n \in EntersAt(d, path) : path[n] # j
    BY <1>2, <1>3, <1>4, <1>6, ConstantsAssumption DEF hasDocument
  <2>2. j # i /\ ~hasDocument(d, j)
    BY <2>1, <1>2, <1>5, <1>6 DEF hasDocument
  <2>3. AllTerms(d, j) = {} /\ d.time[j] = 0 /\ j \notin d.contentIndexing /\ j \notin d.data
    BY <2>2 DEF Sound, NoTrace
  <2>4. \A g \in Groups : a.terms[g][j] = d.terms[g][j]
    BY <1>6, <2>2 DEF Sound, Tables
  <2>5. AllTerms(a, j) = {} /\ a.time[j] = 0
    BY <1>6, <2>2, <2>3, <2>4 DEF AllTerms, Sound, Tables
  <2> QED BY <2>2, <2>3, <2>5, <1>6
<1> QED BY <1>8, <1>9, <1>10, <1>11, <1>12 DEF Sound

\* Removing documents leaves the tables sound and nothing of the documents.
LEMMA RemovedSound ==
  ASSUME NEW d, Sound(d), NEW S \in SUBSET Ids
  PROVE  Sound(removed(d, S))
<1> DEFINE r == removed(d, S)
<1>1. /\ r.parent = leftParent(d, S) /\ r.tree = leftTree(d, S)
      /\ r.terms = [g \in Groups |-> [i \in Ids |-> IF i \in S THEN {} ELSE d.terms[g][i]]]
      /\ r.time = [i \in Ids |-> IF i \in S THEN 0 ELSE d.time[i]]
      /\ r.mtimes = d.mtimes \ {<<d.time[i], i>> : i \in S}
      /\ r.contentIndexing = d.contentIndexing \ S /\ r.data = d.data \ S
      /\ r.failed = d.failed \ S
  BY DEF removed
<1>2. r \in Tables
  BY <1>1 DEF removed, leftParent, leftTree, Sound, Tables
<1>3. TermsInGroups(r)
  BY <1>1 DEF TermsInGroups, Sound, Tables
<1>4. TimesOf(r)
  <2> SUFFICES ASSUME NEW m \in Times, NEW i \in Ids
               PROVE  <<m, i>> \in r.mtimes <=> r.time[i] = m
    BY DEF TimesOf
  <2>1. m # 0
    BY ConstantsAssumption
  <2>2. <<m, i>> \in d.mtimes <=> d.time[i] = m
    BY DEF Sound, TimesOf
  <2> QED BY <1>1, <2>1, <2>2
<1>5. TreeOf(r)
  <2> SUFFICES ASSUME NEW p \in Ids \cup {Root}, NEW i \in Ids
               PROVE  i \in r.tree[p] <=> r.parent[i] = p
    BY DEF TreeOf
  <2>1. i \in d.tree[p] <=> d.parent[i] = p
    BY DEF Sound, TreeOf
  <2>2. p # NoEntry
    BY ConstantsAssumption
  <2> QED BY <1>1, <2>1, <2>2 DEF leftParent, leftTree, parentOf, hasDocument
<1>6. NoTrace(r)
  <2> SUFFICES ASSUME NEW i \in Ids, ~hasDocument(r, i)
               PROVE  /\ AllTerms(r, i) = {} /\ r.time[i] = 0
                      /\ i \notin r.contentIndexing /\ i \notin r.data
    BY DEF NoTrace
  <2>1. CASE i \in S
    BY <2>1, <1>1 DEF AllTerms
  <2>2. CASE i \notin S
    <3>1. ~hasDocument(d, i)
      BY <2>2, <1>1 DEF hasDocument, leftParent
    <3>2. \A g \in Groups : r.terms[g][i] = d.terms[g][i]
      BY <2>2, <1>1
    <3> QED BY <2>2, <3>1, <3>2, <1>1 DEF Sound, NoTrace, AllTerms
  <2> QED BY <2>1, <2>2
<1> QED BY <1>2, <1>3, <1>4, <1>5, <1>6 DEF Sound

\* Replacing any part of a known document keeps the tables sound.
LEMMA ReplacedSound ==
  ASSUME NEW d, Sound(d), NEW i \in Ids, NEW b \in Bodies, NEW p \in Ids \cup {Root},
         NEW ops, hasDocument(d, i)
  PROVE  Sound(replaced(d, i, b, p, ops))
<1> DEFINE r == replaced(d, i, b, p, ops)
<1>1. /\ r.parent = IF "url" \in ops THEN updatedParent(d, i, p) ELSE d.parent
      /\ r.tree = IF "url" \in ops THEN updatedTree(d, i, p) ELSE d.tree
      /\ r.terms = [g \in Groups |-> IF g \in ops THEN [d.terms[g] EXCEPT ![i] = b.terms[g]]
                                     ELSE d.terms[g]]
      /\ r.time = IF "time" \in ops THEN [d.time EXCEPT ![i] = b.mTime] ELSE d.time
      /\ r.mtimes = IF "time" \in ops THEN newTimes(d, i, b.mTime) ELSE d.mtimes
      /\ \A j \in Ids : j # i => /\ j \in r.contentIndexing <=> j \in d.contentIndexing
                                 /\ j \in r.data <=> j \in d.data
  BY DEF replaced
<1>2. b.mTime \in Times /\ b \in Body
  BY ConstantsAssumption DEF Body
<1>3. r \in Tables
  <2>1. r.parent \in [Ids -> Ids \cup {Root, NoEntry}] /\ r.tree \in [Ids \cup {Root} -> SUBSET Ids]
    BY <1>1 DEF updatedParent, updatedTree, Sound, Tables
  <2>2. r.terms \in [Groups -> [Ids -> SUBSET Terms]]
    BY <1>1, <1>2 DEF Body, Sound, Tables
  <2>3. r.time \in [Ids -> Times \cup {0}] /\ r.mtimes \subseteq Times \X Ids
    BY <1>1, <1>2 DEF newTimes, Sound, Tables
  <2>4. r.contentIndexing \subseteq Ids /\ r.failed \subseteq Ids /\ r.data \subseteq Ids
    BY DEF replaced, Sound, Tables
  <2> QED BY <2>1, <2>2, <2>3, <2>4 DEF replaced, Tables
<1>4. TermsInGroups(r)
  BY <1>1, ConstantsAssumption DEF TermsInGroups, Sound, Tables
<1>5. TimesOf(r)
  <2> SUFFICES ASSUME NEW m \in Times, NEW j \in Ids
               PROVE  <<m, j>> \in r.mtimes <=> r.time[j] = m
    BY DEF TimesOf
  <2>1. <<m, j>> \in d.mtimes <=> d.time[j] = m
    BY DEF Sound, TimesOf
  <2> QED BY <1>1, <1>2, <2>1 DEF newTimes, Sound, Tables
<1>6. TreeOf(r)
  <2> SUFFICES ASSUME NEW q \in Ids \cup {Root}, NEW j \in Ids
               PROVE  j \in r.tree[q] <=> r.parent[j] = q
    BY DEF TreeOf
  <2>1. j \in d.tree[q] <=> d.parent[j] = q
    BY DEF Sound, TreeOf
  <2>2. parentOf(d, i) = d.parent[i]
    BY DEF parentOf
  <2>3. CASE "url" \in ops
    BY <1>1, <2>1, <2>2, <2>3 DEF updatedParent, updatedTree, Sound, Tables
  <2>4. CASE "url" \notin ops
    BY <1>1, <2>1, <2>4
  <2> QED BY <2>3, <2>4
<1>7. NoTrace(r)
  <2> SUFFICES ASSUME NEW j \in Ids, ~hasDocument(r, j)
               PROVE  /\ AllTerms(r, j) = {} /\ r.time[j] = 0
                      /\ j \notin r.contentIndexing /\ j \notin r.data
    BY DEF NoTrace
  <2>1. j # i /\ ~hasDocument(d, j)
    BY <1>1, ConstantsAssumption DEF hasDocument, updatedParent, Sound, Tables
  <2>2. \A g \in Groups : r.terms[g][j] = d.terms[g][j]
    BY <1>1, <2>1 DEF Sound, Tables
  <2> QED BY <1>1, <2>1, <2>2 DEF Sound, NoTrace, AllTerms, Tables
<1> QED BY <1>3, <1>4, <1>5, <1>6, <1>7 DEF Sound

\* Marks of the content indexer may go, and of failures come, at any time.
LEMMA MarksSound ==
  ASSUME NEW d, Sound(d), NEW e \in Tables,
         e.parent = d.parent, e.tree = d.tree, e.terms = d.terms, e.time = d.time,
         e.mtimes = d.mtimes, e.data = d.data, e.contentIndexing \subseteq d.contentIndexing
  PROVE  Sound(e) /\ \A i \in Ids : AllTerms(e, i) = AllTerms(d, i)
<1>1. TermsInGroups(e) /\ TimesOf(e) /\ TreeOf(e)
  BY DEF Sound, TermsInGroups, TimesOf, TreeOf
<1>2. NoTrace(e)
  BY DEF Sound, NoTrace, hasDocument, AllTerms
<1> QED BY <1>1, <1>2 DEF Sound, AllTerms

-----------------------------------------------------------------------------
(* Queued operations. *)

Operations == [Terms -> [Ids -> Seq(OperationTypes)]]

\* What a document ends up with in the lists of a term when the operations of
\* one more call are queued.
LEMMA QueueEffect ==
  ASSUME pending \in Operations, NEW remove, NEW add, NEW positioned,
         pending' = Queue(remove, add, positioned), UNCHANGED <<postings, positions>>,
         NEW t \in Terms, NEW i \in Ids
  PROVE  /\ pending'[t][i] \in Seq(OperationTypes)
         /\ Posted(t, i)' <=> t \in add[i] \/ (t \notin remove[i] /\ Posted(t, i))
         /\ Positioned(t, i)' => t \in add[i] \/ (t \notin remove[i] /\ Positioned(t, i))
<1> DEFINE old == pending[t][i]
           rem == IF t \in remove[i] THEN <<"RemoveId">> ELSE <<>>
           new == IF t \notin add[i] THEN <<>>
                  ELSE IF t \in positioned THEN <<"AddPositions">> ELSE <<"AddId">>
<1>1. pending'[t][i] = old \o rem \o new
  BY DEF Queue
<1>2. /\ old \in Seq(OperationTypes) /\ rem \in Seq(OperationTypes) /\ new \in Seq(OperationTypes)
  <2>1. old \in Seq(OperationTypes)
    BY DEF Operations
  <2>2. <<>> \in Seq(OperationTypes) /\ \A op \in OperationTypes : <<op>> \in Seq(OperationTypes)
    OBVIOUS
  <2>3. \A op \in {"AddId", "AddPositions", "RemoveId"} : op \in OperationTypes
    BY DEF OperationTypes
  <2> QED BY <2>1, <2>2, <2>3
<1>3. pending'[t][i] \in Seq(OperationTypes)
  BY <1>1, <1>2
<1>4. CASE t \in add[i]
  <2> DEFINE op == IF t \in positioned THEN "AddPositions" ELSE "AddId"
  <2>1. old \o rem \in Seq(OperationTypes)
    BY <1>2
  <2>2. pending'[t][i] = (old \o rem) \o <<op>>
    BY <1>1, <1>4
  <2>3. op \in OperationTypes /\ op # "RemoveId"
    BY DEF OperationTypes
  <2> HIDE DEF old, rem, op
  <2>4. pending'[t][i] = Append(old \o rem, op)
    BY <2>1, <2>2, <2>3, AppendProperties
  <2>5. Posted(t, i)'
    BY <2>1, <2>3, <2>4, AppendProperties DEF Posted
  <2> QED BY <1>3, <1>4, <2>5
<1>5. CASE t \notin add[i] /\ t \in remove[i]
  <2>1. pending'[t][i] = Append(old, "RemoveId")
    BY <1>1, <1>2, <1>5
  <2>2. pending'[t][i] # <<>> /\ pending'[t][i][Len(pending'[t][i])] = "RemoveId"
        /\ Len(pending'[t][i]) \in Nat \ {0}
    BY <2>1, <1>2
  <2>3. ~Posted(t, i)'
    BY <2>2 DEF Posted
  <2>4. ~Positioned(t, i)'
    <3>1. DOMAIN pending'[t][i] = 1..Len(pending'[t][i])
      BY <1>3
    <3> QED BY <2>2, <3>1 DEF Positioned
  <2> QED BY <1>3, <1>5, <2>3, <2>4
<1>6. CASE t \notin add[i] /\ t \notin remove[i]
  <2>1. pending'[t][i] = old
    BY <1>1, <1>2, <1>6
  <2>2. Posted(t, i)' <=> Posted(t, i)
    BY <2>1 DEF Posted
  <2>3. Positioned(t, i)' <=> Positioned(t, i)
    BY <2>1 DEF Positioned
  <2> QED BY <1>3, <1>6, <2>2, <2>3
<1> QED BY <1>4, <1>5, <1>6

\* Nothing queued: the lists are what they are.
LEMMA NothingQueued ==
  ASSUME pending = NoOperations, NEW t \in Terms, NEW i \in Ids
  PROVE  /\ Posted(t, i) <=> i \in postings[t]
         /\ Positioned(t, i) <=> i \in positions[t]
<1>1. pending[t][i] = <<>>
  BY DEF NoOperations
<1> QED BY <1>1 DEF Posted, Positioned

-----------------------------------------------------------------------------
(* The inductive invariant. *)

LEMMA InitInvariant == Init => IInv
<1> SUFFICES ASSUME Init PROVE IInv
  OBVIOUS
<1>1. db = Empty /\ disk = Empty /\ pending = NoOperations
      /\ postings = [t \in Terms |-> {}] /\ positions = postings
  BY DEF Init
<1>2. Empty \in Tables
  BY DEF Empty, Tables
<1>3. Sound(Empty) /\ \A i \in Ids : AllTerms(Empty, i) = {}
  <2>1. \A i \in Ids : AllTerms(Empty, i) = {}
    BY DEF Empty, AllTerms
  <2>2. TermsInGroups(Empty) /\ TimesOf(Empty) /\ TreeOf(Empty)
    BY ConstantsAssumption DEF Empty, TermsInGroups, TimesOf, TreeOf
  <2>3. NoTrace(Empty)
    BY <2>1 DEF Empty, NoTrace
  <2> QED BY <1>2, <2>1, <2>2, <2>3 DEF Sound
<1>4. pending \in Operations
  BY <1>1 DEF NoOperations, Operations
<1>5. TypeOK
  BY <1>1, <1>2, <1>4, ConstantsAssumption DEF Init, TypeOK, Operations
<1>6. PostingsMatchTerms /\ PositionsHavePostings
  BY <1>1, <1>3, NothingQueued DEF PostingsMatchTerms, PositionsHavePostings
<1>7. CommittedMatch
  BY <1>1, <1>3 DEF CommittedMatch
<1> QED BY <1>1, <1>3, <1>5, <1>6, <1>7 DEF IInv

\* A call that queues operations keeps the invariant if they tell the change of
\* the term tables.
LEMMA QueuedCall ==
  ASSUME IInv, Call, NEW remove, NEW add, NEW positioned,
         pending' = Queue(remove, add, positioned), Sound(db'),
         \A i \in Ids : AllTerms(db, i)' = add[i] \cup (AllTerms(db, i) \ remove[i])
  PROVE  IInv'
<1>1. pending \in Operations /\ UNCHANGED <<disk, postings, positions, fetched>>
  BY DEF IInv, TypeOK, Operations, Call
<1>2. \A t \in Terms, i \in Ids :
        /\ pending'[t][i] \in Seq(OperationTypes)
        /\ Posted(t, i)' <=> t \in add[i] \/ (t \notin remove[i] /\ Posted(t, i))
        /\ Positioned(t, i)' => t \in add[i] \/ (t \notin remove[i] /\ Positioned(t, i))
  BY <1>1, QueueEffect
<1>3. PostingsMatchTerms' /\ PositionsHavePostings'
  BY <1>2 DEF IInv, PostingsMatchTerms, PositionsHavePostings
<1>4. pending' \in Operations
  BY <1>2 DEF Queue, Operations
<1>5. TypeOK'
  BY <1>1, <1>4, ConstantsAssumption DEF IInv, TypeOK, Operations, Call, Sound
<1>6. CommittedMatch' /\ Sound(disk')
  BY <1>1 DEF IInv, CommittedMatch
<1> QED BY <1>3, <1>5, <1>6 DEF IInv

\* A call that queues nothing keeps it if it leaves the terms alone.
LEMMA PlainCall ==
  ASSUME IInv, Call, UNCHANGED pending, Sound(db'),
         \A i \in Ids : AllTerms(db, i)' = AllTerms(db, i)
  PROVE  IInv'
<1>1. UNCHANGED <<disk, postings, positions, fetched, pending>>
  BY DEF Call
<1>2. \A t \in Terms, i \in Ids : (Posted(t, i)' <=> Posted(t, i))
                                  /\ (Positioned(t, i)' <=> Positioned(t, i))
  BY <1>1 DEF Posted, Positioned
<1>3. PostingsMatchTerms' /\ PositionsHavePostings'
  BY <1>2 DEF IInv, PostingsMatchTerms, PositionsHavePostings
<1>4. TypeOK'
  BY <1>1, ConstantsAssumption DEF IInv, TypeOK, Call, Sound
<1>5. CommittedMatch' /\ Sound(disk')
  BY <1>1 DEF IInv, CommittedMatch
<1> QED BY <1>3, <1>4, <1>5 DEF IInv

LEMMA AddKeeps ==
  ASSUME IInv, NEW path \in PathsOfFiles, NEW b \in Bodies, addDocument(path, b)
  PROVE  IInv'
<1> DEFINE i == path[Len(path)]
<1>1. /\ ~hasDocument(db, i) /\ Call /\ db' = added(db, path, b)
      /\ pending' = Queue(NoTerms, Only(i, TermsIn(b, Groups)), b.positioned)
  BY DEF addDocument
<1>2. Sound(db) /\ Sound(db')
  BY <1>1, AddedSound DEF IInv
<1>3. i \in Ids
  BY DEF PathsOfFiles, SeqOf
<1>4. AllTerms(db, i) = {}
  BY <1>1, <1>2, <1>3 DEF Sound, NoTrace
<1>5. \A g \in Groups, j \in Ids :
        db'.terms[g][j] = IF j = i THEN b.terms[g] ELSE db.terms[g][j]
  BY <1>1, <1>2 DEF added, Sound, Tables
<1>6. \A j \in Ids : AllTerms(db, j)'
        = Only(i, TermsIn(b, Groups))[j] \cup (AllTerms(db, j) \ NoTerms[j])
  <2> SUFFICES ASSUME NEW j \in Ids
               PROVE  AllTerms(db, j)'
                        = Only(i, TermsIn(b, Groups))[j] \cup (AllTerms(db, j) \ NoTerms[j])
    OBVIOUS
  <2>1. CASE j = i
    BY <2>1, <1>3, <1>4, <1>5 DEF Only, NoTerms, AllTerms, TermsIn
  <2>2. CASE j # i
    BY <2>2, <1>3, <1>5 DEF Only, NoTerms, AllTerms
  <2> QED BY <2>1, <2>2
<1> QED BY <1>1, <1>2, <1>6, QueuedCall

LEMMA RemoveKeeps ==
  ASSUME IInv, NEW S \in SUBSET Ids, removeDocuments(S)
  PROVE  IInv'
<1> DEFINE remove == [i \in Ids |-> IF i \in S THEN AllTerms(db, i) ELSE {}]
<1>1. Call /\ db' = removed(db, S) /\ pending' = Queue(remove, NoTerms, {})
  BY DEF removeDocuments
<1>2. Sound(db')
  BY <1>1, RemovedSound DEF IInv
<1>3. \A i \in Ids : AllTerms(db, i)' = NoTerms[i] \cup (AllTerms(db, i) \ remove[i])
  <2> SUFFICES ASSUME NEW i \in Ids
               PROVE  AllTerms(db, i)' = NoTerms[i] \cup (AllTerms(db, i) \ remove[i])
    OBVIOUS
  <2>1. \A g \in Groups : db'.terms[g][i] = IF i \in S THEN {} ELSE db.terms[g][i]
    BY <1>1 DEF removed
  <2>2. CASE i \in S
    BY <2>1, <2>2 DEF NoTerms, AllTerms
  <2>3. CASE i \notin S
    BY <2>1, <2>3 DEF NoTerms, AllTerms
  <2> QED BY <2>2, <2>3
<1> QED BY <1>1, <1>2, <1>3, QueuedCall

LEMMA ReplaceKeeps ==
  ASSUME IInv, NEW i \in Ids, NEW b \in Bodies, NEW p \in Ids \cup {Root}, NEW ops,
         replaceDocument(i, b, p, ops)
  PROVE  IInv'
<1> DEFINE old == UNION {db.terms[g][i] : g \in Groups \cap ops}
<1>1. /\ hasDocument(db, i) /\ Call /\ db' = replaced(db, i, b, p, ops)
      /\ pending' = Queue(Only(i, old), Only(i, TermsIn(b, ops)), b.positioned)
  BY DEF replaceDocument
<1>2. Sound(db) /\ Sound(db')
  BY <1>1, ReplacedSound DEF IInv
<1>3. \A g \in Groups, j \in Ids :
        db'.terms[g][j] = IF j = i /\ g \in ops THEN b.terms[g] ELSE db.terms[g][j]
  BY <1>1, <1>2 DEF replaced, Sound, Tables
<1>4. \A j \in Ids : AllTerms(db, j)'
        = Only(i, TermsIn(b, ops))[j] \cup (AllTerms(db, j) \ Only(i, old)[j])
  <2> SUFFICES ASSUME NEW j \in Ids
               PROVE  AllTerms(db, j)'
                        = Only(i, TermsIn(b, ops))[j] \cup (AllTerms(db, j) \ Only(i, old)[j])
    OBVIOUS
  <2>1. CASE j = i
    <3>1. \A t : t \in AllTerms(db, i) \ old <=> \E g \in Groups \ ops : t \in db.terms[g][i]
      <4>1. \A g, h \in Groups : \A t : t \in db.terms[g][i] /\ t \in db.terms[h][i] => g = h
        BY <1>2, OneGroup DEF Sound, TermsInGroups
      <4> QED BY <4>1 DEF AllTerms
    <3>2. \A t : t \in AllTerms(db, i)' <=> \/ \E g \in Groups \cap ops : t \in b.terms[g]
                                            \/ \E g \in Groups \ ops : t \in db.terms[g][i]
      BY <1>3 DEF AllTerms
    <3> QED BY <2>1, <3>1, <3>2 DEF Only, NoTerms, TermsIn
  <2>2. CASE j # i
    BY <2>2, <1>3 DEF Only, NoTerms, AllTerms
  <2> QED BY <2>1, <2>2
<1> QED BY <1>1, <1>2, <1>4, QueuedCall

LEMMA SubtreeIds == ASSUME NEW d, NEW i \in Ids PROVE Subtree(d, i) \subseteq Ids
  BY DEF Subtree

\* Every step: the calls by the lemmas above, commit and abort by what the
\* queued operations lead to.
LEMMA StepInvariant == IInv /\ [Next]_vars => IInv'
<1> SUFFICES ASSUME IInv, [Next]_vars PROVE IInv'
  OBVIOUS
<1>1. ASSUME NEW path \in PathsOfFiles, NEW b \in Bodies, addDocument(path, b)
      PROVE  IInv'
  BY <1>1, AddKeeps
<1>2. ASSUME NEW i \in Ids, NEW b \in Bodies, NEW p \in Ids \cup {Root},
             NEW ops \in CallerOperations, replaceDocument(i, b, p, ops)
      PROVE  IInv'
  BY <1>2, ReplaceKeeps
<1>3. ASSUME NEW i \in Ids, skipKnown(i)
      PROVE  IInv'
  BY <1>3, PlainCall DEF skipKnown, AllTerms, IInv
<1>4. ASSUME NEW i \in Ids, removeDocument(i) \/ removeRecursively(i)
      PROVE  IInv'
  BY <1>4, SubtreeIds, RemoveKeeps DEF removeDocument, removeRecursively
<1>5. ASSUME NEW i \in Ids, NEW Del \in SUBSET Ids, removeRecursivelyIf(i, Del)
      PROVE  IInv'
  <2>1. \E S \in SUBSET Ids : removeDocuments(S)
    BY <1>5, SubtreeIds DEF removeRecursivelyIf
  <2> QED BY <2>1, RemoveKeeps
<1>6. ASSUME NEW i \in fetched, removePhaseOne(i) \/ markFailed(i)
      PROVE  IInv'
  <2>1. /\ i \in Ids /\ Sound(db) /\ Call /\ UNCHANGED pending
        /\ \/ db' = [db EXCEPT !.contentIndexing = @ \ {i}]
           \/ db' = [db EXCEPT !.contentIndexing = @ \ {i}, !.failed = @ \cup {i}]
    BY <1>6 DEF IInv, TypeOK, removePhaseOne, markFailed
  <2>2. db' \in Tables
    <3>1. db \in Tables /\ db.contentIndexing \ {i} \subseteq Ids /\ db.failed \cup {i} \subseteq Ids
      BY <2>1 DEF Sound, Tables
    <3>2. CASE db' = [db EXCEPT !.contentIndexing = @ \ {i}]
      BY <3>1, <3>2 DEF Tables
    <3>3. CASE db' = [db EXCEPT !.contentIndexing = @ \ {i}, !.failed = @ \cup {i}]
      BY <3>1, <3>3 DEF Tables
    <3> QED BY <2>1, <3>2, <3>3
  <2>3. /\ db'.parent = db.parent /\ db'.tree = db.tree /\ db'.terms = db.terms
        /\ db'.time = db.time /\ db'.mtimes = db.mtimes /\ db'.data = db.data
        /\ db'.contentIndexing \subseteq db.contentIndexing
    BY <2>1 DEF Sound, Tables
  <2>4. Sound(db') /\ \A j \in Ids : AllTerms(db', j) = AllTerms(db, j)
    BY <2>1, <2>2, <2>3, MarksSound
  <2> QED BY <2>1, <2>4, PlainCall DEF AllTerms
<1>7. NoOperations \in Operations
  BY DEF NoOperations, Operations
<1>8. CASE commit
  <2>1. /\ \A t \in Terms, i \in Ids : /\ i \in postings'[t] <=> Posted(t, i)
                                       /\ i \in positions'[t] <=> Positioned(t, i)
        /\ postings' \in [Terms -> SUBSET Ids] /\ positions' \in [Terms -> SUBSET Ids]
        /\ pending' = NoOperations /\ disk' = db /\ db' = db /\ UNCHANGED <<fetched, calls>>
    BY <1>8 DEF commit
  <2>2. \A t \in Terms, i \in Ids : /\ Posted(t, i)' <=> i \in postings'[t]
                                    /\ Positioned(t, i)' <=> i \in positions'[t]
    BY <2>1 DEF NoOperations, Posted, Positioned
  <2>3. \A i \in Ids : AllTerms(db, i)' = AllTerms(db, i) /\ AllTerms(disk, i)' = AllTerms(db, i)
    BY <2>1 DEF AllTerms
  <2>4. PostingsMatchTerms' /\ PositionsHavePostings' /\ CommittedMatch'
    BY <2>1, <2>2, <2>3 DEF IInv, PostingsMatchTerms, PositionsHavePostings, CommittedMatch
  <2>5. TypeOK'
    BY <1>7, <2>1 DEF IInv, TypeOK, Operations
  <2>6. Sound(db') /\ Sound(disk')
    BY <2>1 DEF IInv
  <2> QED BY <2>4, <2>5, <2>6 DEF IInv
<1>9. CASE abort
  <2>1. db' = disk /\ pending' = NoOperations
        /\ UNCHANGED <<disk, postings, positions, fetched, calls>>
    BY <1>9 DEF abort
  <2>2. \A t \in Terms, i \in Ids : /\ Posted(t, i)' <=> i \in postings[t]
                                    /\ Positioned(t, i)' <=> i \in positions[t]
    BY <2>1 DEF NoOperations, Posted, Positioned
  <2>3. \A i \in Ids : AllTerms(db, i)' = AllTerms(disk, i) /\ AllTerms(disk, i)' = AllTerms(disk, i)
    BY <2>1 DEF AllTerms
  <2>4. PostingsMatchTerms' /\ PositionsHavePostings' /\ CommittedMatch'
    BY <2>1, <2>2, <2>3 DEF IInv, PostingsMatchTerms, PositionsHavePostings, CommittedMatch
  <2>5. TypeOK'
    BY <1>7, <2>1 DEF IInv, TypeOK, Operations
  <2>6. Sound(db') /\ Sound(disk')
    BY <2>1 DEF IInv
  <2> QED BY <2>4, <2>5, <2>6 DEF IInv
<1>10. CASE fetchPhaseOneIds \/ UNCHANGED vars
  <2>1. UNCHANGED <<db, disk, postings, positions, pending, calls>> /\ fetched' \subseteq Ids
    BY <1>10 DEF fetchPhaseOneIds, vars, IInv, TypeOK, Tables
  <2>2. \A t \in Terms, i \in Ids : /\ Posted(t, i)' <=> Posted(t, i)
                                    /\ Positioned(t, i)' <=> Positioned(t, i)
    BY <2>1 DEF Posted, Positioned
  <2>3. \A i \in Ids : AllTerms(db, i)' = AllTerms(db, i) /\ AllTerms(disk, i)' = AllTerms(disk, i)
    BY <2>1 DEF AllTerms
  <2>4. /\ PostingsMatchTerms' /\ PositionsHavePostings' /\ CommittedMatch'
        /\ TypeOK'
    <3>1. PostingsMatchTerms' /\ PositionsHavePostings'
      BY <2>2, <2>3 DEF IInv, PostingsMatchTerms, PositionsHavePostings
    <3>2. CommittedMatch'
      BY <2>1, <2>3 DEF IInv, CommittedMatch
    <3>3. TypeOK'
      BY <2>1 DEF IInv, TypeOK
    <3> QED BY <3>1, <3>2, <3>3
  <2>5. Sound(db') /\ Sound(disk')
    BY <2>1 DEF IInv
  <2> QED BY <2>4, <2>5 DEF IInv
<1> QED BY <1>1, <1>2, <1>3, <1>4, <1>5, <1>6, <1>8, <1>9, <1>10 DEF Next

-----------------------------------------------------------------------------
(* Theorems. *)

\* The strengthened invariant holds of every behaviour.
THEOREM StoreInvariant == Spec => []IInv
  BY InitInvariant, StepInvariant, PTL DEF Spec

\* Every call keeps the tables and the queued operations well typed.
THEOREM TypeCorrect == Spec => []TypeOK
<1>1. IInv => TypeOK
  BY DEF IInv
<1> QED BY <1>1, StoreInvariant, PTL

\* Whatever calls a transaction combines, its queued operations leave a
\* document in the list of a term exactly when a term table of it has the term.
THEOREM PostingsAgree == Spec => []PostingsMatchTerms
<1>1. IInv => PostingsMatchTerms
  BY DEF IInv
<1> QED BY <1>1, StoreInvariant, PTL

\* A position list never names a document the posting list does not.
THEOREM PositionsPosted == Spec => []PositionsHavePostings
<1>1. IInv => PositionsHavePostings
  BY DEF IInv
<1> QED BY <1>1, StoreInvariant, PTL

\* The time of a document and the documents of a time agree.
THEOREM TimesConsistent == Spec => []TimesAgree
<1>1. IInv => TimesAgree
  BY DEF IInv, Sound, TimesOf, TimesAgree
<1> QED BY <1>1, StoreInvariant, PTL

\* The children of an id are those that name it as their parent.
THEOREM TreeConsistent == Spec => []TreeMatchesParents
<1>1. IInv => TreeMatchesParents
  BY DEF IInv, Sound, TreeOf, TreeMatchesParents
<1> QED BY <1>1, StoreInvariant, PTL

\* An id that hasDocument denies has left nothing in the tables of documents.
THEOREM NothingLeftBehind == Spec => []UnknownLeavesNoTrace
<1>1. IInv => UnknownLeavesNoTrace
  BY DEF IInv, Sound, NoTrace, UnknownLeavesNoTrace
<1> QED BY <1>1, StoreInvariant, PTL

\* What searches find of an open or committed version of the tables.
LEMMA DraftOfSound ==
  ASSUME NEW d, Sound(d), NEW i \in Ids
  PROVE  {m \in Times : <<m, i>> \in d.mtimes} = {d.time[i]} \cap Times
  BY DEF Sound, TimesOf

\* The database implements the index of DocumentIndex: a search finds what the
\* last commit left, all of it at once, and an abandoned transaction nothing.
THEOREM ImplementsIndex == Spec => SearchFindsCommitted
<1>1. Init => Index!Init
  <2> SUFFICES ASSUME Init PROVE Index!Init
    OBVIOUS
  <2>1. \A i \in Ids : {t \in Terms : i \in postings[t]} = {}
    BY DEF Init
  <2>2. \A i \in Ids : {m \in Times : <<m, i>> \in disk.mtimes} = {}
    BY DEF Init, Empty
  <2>3. \A i \in Ids : AllTerms(db, i) = {}
    BY DEF Init, Empty, AllTerms
  <2>4. \A i \in Ids : {db.time[i]} \cap Times = {}
    BY ConstantsAssumption DEF Init, Empty
  <2> QED BY <2>1, <2>2, <2>3, <2>4 DEF Index!Init, Index!Nothing
<1>2. IInv /\ IInv' /\ [Next]_vars => [Index!Next]_(Index!vars)
  <2> SUFFICES ASSUME IInv, IInv', [Next]_vars
               PROVE  Index!Next \/ UNCHANGED Index!vars
    OBVIOUS
  <2> DEFINE found == [i \in Ids |-> [terms  |-> {t \in Terms : i \in postings[t]},
                                      mtimes |-> {m \in Times : <<m, i>> \in disk.mtimes}]]
             draft == [i \in Ids |-> [terms  |-> AllTerms(db, i),
                                      mtimes |-> {db.time[i]} \cap Times]]
  <2>1. \A i \in Ids : AllTerms(db, i) \subseteq Terms /\ AllTerms(db, i)' \subseteq Terms
    BY DEF IInv, TypeOK, Tables, AllTerms
  <2>2. draft' \in [Ids -> Index!Facets]
    BY <2>1 DEF Index!Facets
  <2>3. CASE UNCHANGED <<disk, postings>>
    BY <2>2, <2>3 DEF Index!Next, Index!Write
  <2>4. CASE commit
    <3>1. \A i \in Ids : {t \in Terms : i \in postings'[t]} = AllTerms(db, i)
      BY <2>1, <2>4 DEF commit, IInv, PostingsMatchTerms
    <3>2. \A i \in Ids : {m \in Times : <<m, i>> \in disk'.mtimes} = {db.time[i]} \cap Times
      BY <2>4, DraftOfSound DEF commit, IInv
    <3>3. found' = draft
      BY <3>1, <3>2
    <3>4. draft' = draft
      BY <2>4 DEF commit, AllTerms
    <3> QED BY <3>3, <3>4 DEF Index!Next, Index!Commit
  <2>5. CASE abort
    <3>1. \A i \in Ids : {t \in Terms : i \in postings[t]} = AllTerms(db, i)'
      BY <2>1, <2>5 DEF abort, IInv, CommittedMatch, AllTerms
    <3>2. \A i \in Ids : {m \in Times : <<m, i>> \in disk.mtimes} = {db'.time[i]} \cap Times
      BY <2>5, DraftOfSound DEF abort, IInv
    <3>3. draft' = found
      BY <3>1, <3>2
    <3>4. found' = found
      BY <2>5 DEF abort
    <3> QED BY <3>3, <3>4 DEF Index!Next, Index!Discard
  <2> QED BY <2>3, <2>4, <2>5
          DEF Next, vars, Call, addDocument, skipKnown, removeDocument, removeRecursively,
              removeRecursivelyIf, removeDocuments, replaceDocument, removePhaseOne, markFailed,
              fetchPhaseOneIds
<1> QED BY <1>1, <1>2, StoreInvariant, PTL DEF Spec, SearchFindsCommitted, Index!Spec
=============================================================================
