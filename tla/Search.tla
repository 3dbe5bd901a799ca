------------------------------- MODULE Search -------------------------------
(***************************************************************************)
(* A search: SearchStore builds a tree of iterators from a query           *)
(* (searchstore.cpp, transaction.cpp), the iterators go through the posting*)
(* lists (orpostingiterator.cpp, andpostingiterator.cpp,                   *)
(* phraseanditerator.cpp, vectorpostingiterator.cpp, idtreedb.cpp), and    *)
(* exec() sorts and cuts what they find.                                   *)
(*                                                                         *)
(* An iterator is a record; next() and skipTo() return the moved iterator, *)
(* and docId is where it stands, 0 before the first and after the last     *)
(* document. A null pointer stands for an empty list.                      *)
(***************************************************************************)
EXTENDS Naturals, SequencesExt

CONSTANTS
  Docs,         \* ids of documents, from 1
  Begins,       \* for each word, the words that begin with it
  LongWords,    \* words of three letters and more
  MaxTime,      \* the last second that the database can tell
  Databases,    \* texts, names, times and folders of the documents
  Queries

VARIABLES
  db,           \* the database, which a reading transaction sees unchanged
  query,
  iter,         \* the iterator of the query
  found,        \* documents found so far
  results,
  state         \* "open", "fetching", "sorting", "done"

vars == <<db, query, iter, found, results, state>>

-----------------------------------------------------------------------------
(* The tables. *)

Sorted(S) == SetToSortSeq(S, LAMBDA a, b : a < b)

Field(d, scope) == IF scope = "filename" THEN db.name[d] ELSE db.text[d]

Posting(scope, word) == {d \in Docs : \E n \in DOMAIN Field(d, scope) : Field(d, scope)[n] = word}

Positions(d, word) == Sorted({n \in DOMAIN db.text[d] : db.text[d][n] = word})

\* IdTreePostingIterator: the folder and, taking up the children of each, all below it
Below(folder) ==
  LET Reached[n \in 0..Cardinality(Docs)] ==
        IF n = 0 THEN {folder}
        ELSE Reached[n - 1] \cup {d \in Docs : db.parent[d] \in Reached[n - 1]}
  IN  Reached[Cardinality(Docs)]

-----------------------------------------------------------------------------
(* The iterators. *)

Null == [kind |-> "null", docId |-> 0]

Vector(ids) == [kind |-> "vector", ids |-> ids, pos |-> 0, docId |-> 0]

\* PostingDB::iter() finds no key for a word that no document has.
PostingIter(ids) == IF ids = {} THEN Null ELSE Vector(Sorted(ids))

VectorNext(it) ==
  IF it.pos >= Len(it.ids) THEN [it EXCEPT !.ids = <<>>, !.pos = Len(it.ids), !.docId = 0]
  ELSE [it EXCEPT !.pos = @ + 1, !.docId = it.ids[it.pos + 1]]

\* PhraseAndIterator::checkIfPositionsMatch(). A round moves every offset to the
\* first position that the phrase, begun at bound or later, can have there.
RECURSIVE Round(_, _, _, _)
Round(lists, offsets, n, bound) ==
  IF n > Len(lists) THEN [offsets |-> offsets, bound |-> bound, ended |-> FALSE]
  ELSE LET fitting == {o \in offsets[n]..Len(lists[n]) : lists[n][o] >= bound + n - 1}
       IN  IF fitting = {} THEN [offsets |-> offsets, bound |-> bound, ended |-> TRUE]
           ELSE LET o == CHOOSE o \in fitting : \A u \in fitting : o <= u
                IN  Round(lists, [offsets EXCEPT ![n] = o], n + 1, lists[n][o] - (n - 1))

RECURSIVE PositionsMatch(_, _, _)
PositionsMatch(lists, offsets, bound) ==
  /\ offsets[1] <= Len(lists[1])
  /\ LET round == Round(lists, offsets, 1, bound)
     IN  /\ ~round.ended
         /\ \/ round.bound = lists[1][round.offsets[1]]
            \/ PositionsMatch(lists, [round.offsets EXCEPT ![1] = @ + 1], round.bound)

checkIfPositionsMatch(words, d) ==
  LET lists == [n \in DOMAIN words |-> Positions(d, words[n])]
  IN  PositionsMatch(lists, [n \in DOMAIN words |-> 1], 0)

NonNull(its) == SelectSeq(its, LAMBDA it : it.kind # "null")

LowestDocId(its) ==
  LET ids == {its[n].docId : n \in DOMAIN its} \ {0}
  IN  IF ids = {} THEN 0 ELSE CHOOSE i \in ids : \A j \in ids : i <= j

Or(its) == [kind |-> "or", subs |-> its, docId |-> 0, nextId |-> 0]

And(its) == [kind |-> "and", subs |-> its, docId |-> 0]

Phrase(words) ==
  [kind |-> "phrase", words |-> words, docId |-> 0,
   subs |-> [n \in DOMAIN words |-> Vector(Sorted(Posting("content", words[n])))]]

RECURSIVE next(_), skipTo(_, _), SkipAll(_, _, _), SkipTogether(_, _)

\* What an OrPostingIterator does when it has found its next document: iterators
\* that stand there go on, and those at their end are dropped.
Advance(subs, id) ==
  LET moved == [n \in DOMAIN subs |-> IF subs[n].docId = id THEN next(subs[n]) ELSE subs[n]]
  IN  SelectSeq(moved, LAMBDA it : it.docId # 0)

Stand(it, subs, id) == [it EXCEPT !.subs = subs, !.docId = id, !.nextId = LowestDocId(subs)]

OrStopAt(it, subs, id) == Stand(it, IF id = 0 THEN subs ELSE Advance(subs, id), id)

OrSkipTo(it, id) ==
  IF it.docId >= id THEN it
  ELSE LET forward == it.nextId # 0 /\ id > it.nextId
           subs    == [n \in DOMAIN it.subs |-> IF forward THEN skipTo(it.subs[n], id) ELSE it.subs[n]]
       IN  OrStopAt(it, subs, IF forward THEN LowestDocId(subs) ELSE it.nextId)

\* One pass of the loop of AndPostingIterator and PhraseAndIterator: each iterator
\* is moved to where the one before it stands.
SkipOn(subs, n) ==
  IF subs[n].docId = 0 THEN [subs |-> subs, id |-> 0] ELSE SkipAll(subs, n + 1, subs[n].docId)

SkipAll(subs, n, id) ==
  IF n > Len(subs) THEN [subs |-> subs, id |-> id]
  ELSE SkipOn([subs EXCEPT ![n] = skipTo(@, id)], n)

\* The first iterator leads.
Follow(it) == SkipTogether(it, it.subs[1].docId)

AfterPass(it, id, passId) ==
  IF passId = 0 THEN [it EXCEPT !.docId = 0]
  ELSE IF passId # id THEN SkipTogether(it, passId)
  ELSE IF it.kind = "and" \/ checkIfPositionsMatch(it.words, id) THEN [it EXCEPT !.docId = id]
  ELSE Follow([it EXCEPT !.subs[1] = next(@)])

SkipTogether(it, id) ==
  LET pass == SkipAll(it.subs, 1, id) IN AfterPass([it EXCEPT !.subs = pass.subs], id, pass.id)

\* Mutant: an iterator is always moved.
skipTo_Moves(it, id) ==
  CASE it.kind = "vector" -> LET n == VectorNext(it) IN IF n.docId = 0 \/ n.docId >= id THEN n ELSE skipTo(n, id)
    [] it.kind = "or"     -> OrSkipTo(it, id)
    [] OTHER              -> IF it.subs = <<>> THEN it ELSE SkipTogether(it, id)

\* PostingIterator::skipTo() and the two that override it
skipTo(it, id) ==
  CASE it.kind = "vector" -> IF it.docId >= id THEN it
                             ELSE LET n == VectorNext(it) IN IF n.docId = 0 THEN n ELSE skipTo(n, id)
    [] it.kind = "or"     -> OrSkipTo(it, id)
    [] OTHER              -> IF it.subs = <<>> THEN it ELSE SkipTogether(it, id)

next(it) ==
  CASE it.kind = "vector" -> VectorNext(it)
    [] it.kind = "or"     -> IF it.nextId = 0 THEN [it EXCEPT !.docId = 0] ELSE OrSkipTo(it, it.nextId)
    [] OTHER              -> IF it.subs = <<>> THEN it ELSE Follow([it EXCEPT !.subs[1] = next(@)])

\* The constructor of OrPostingIterator moves every iterator to its first document.
\* All iterators of a query are built before one of them is used.
RECURSIVE Begin(_)
Begin(it) ==
  IF it.kind \notin {"or", "and"} THEN it
  ELSE IF it.kind = "and" THEN [it EXCEPT !.subs = [n \in DOMAIN @ |-> Begin(@[n])]]
  ELSE Stand(it, [n \in DOMAIN it.subs |-> next(Begin(it.subs[n]))], 0)

-----------------------------------------------------------------------------
(* From a query to an iterator. *)

\* A document contains words one after the other.
HasPhrase(words, t) ==
  \E n \in 0..Len(t) - Len(words) : \A k \in DOMAIN words : t[n + k] = words[k]

\* One word: its posting list, or those of all words that begin with it.
WordIter(scope, word, comparator) ==
  IF comparator = ":" /\ word \in LongWords
  THEN LET its == [n \in 1..Cardinality(Begins[word]) |-> PostingIter(Posting(scope, SetToSeq(Begins[word])[n]))]
       IN  IF NonNull(its) = <<>> THEN Null ELSE Or(NonNull(its))
  ELSE PostingIter(Posting(scope, word))

\* FilenameQuery: documents that have all words, filtered by the name
FilenameIter(words) ==
  LET all == {d \in Docs : \A n \in DOMAIN words : d \in Posting("filename", words[n])}
  IN  IF all = {} THEN Null ELSE Vector(Sorted({d \in all : HasPhrase(words, db.name[d])}))

\* constructEqualsQuery(): a word without positions has no phrase.
PhraseIter(words) ==
  IF \E n \in DOMAIN words : Posting("content", words[n]) = {} THEN Null ELSE Phrase(words)

TextIter(scope, words, comparator) ==
  IF Len(words) = 1 THEN WordIter(scope, words[1], comparator)
  ELSE IF scope = "filename" THEN FilenameIter(words)
  ELSE PhraseIter(words)

Clamp(t) == IF t > MaxTime THEN MaxTime ELSE t

\* Days have two seconds.
Day(t) == t \div 2

\* calculateTimeRange(), in unsigned integers
calculateTimeRange(t, comparator) ==
  CASE comparator \in {"=", ":"} -> [first |-> Clamp(2 * Day(t)), last |-> Clamp(2 * Day(t) + 1)]
    [] comparator = "<="         -> [first |-> 0, last |-> Clamp(t)]
    [] comparator = "<"          -> [first |-> 0, last |-> IF Clamp(t) > 0 THEN Clamp(t) - 1 ELSE 0]
    [] comparator = ">="         -> [first |-> Clamp(t), last |-> MaxTime]
    [] comparator = ">"          -> [first |-> (Clamp(t) + 1) % (MaxTime + 1), last |-> MaxTime]

mTimeRangeIter(range) == PostingIter({d \in Docs : range.first <= db.mtime[d] /\ db.mtime[d] <= range.last})

Combine(op, its) ==
  LET lists == NonNull(its)
  IN  IF lists = <<>> \/ (op = "and" /\ lists # its) THEN Null
      ELSE IF Len(lists) = 1 THEN lists[1]
      ELSE IF op = "and" THEN And(lists) ELSE Or(lists)

RECURSIVE constructQuery(_)
constructQuery(t) ==
  CASE t.op \in {"and", "or"} -> Combine(t.op, [n \in DOMAIN t.terms |-> constructQuery(t.terms[n])])
    [] t.op = "text"          -> TextIter(t.scope, t.words, t.comparator)
    [] t.op = "mtime"         -> mTimeRangeIter(calculateTimeRange(t.time, t.comparator))
    [] t.op = "folder"        -> IF t.folder \in Docs THEN Vector(Sorted(Below(t.folder))) ELSE Null

\* A term of no property is looked for in every scope.
RECURSIVE expandScopes(_, _)
expandScopes(scopes, t) ==
  CASE t.op \in {"and", "or"}         -> [t EXCEPT !.terms = [n \in DOMAIN @ |-> expandScopes(scopes, @[n])]]
    [] t.op = "text" /\ t.scope = "any" ->
         [op |-> "or", terms |-> [n \in DOMAIN scopes |-> [t EXCEPT !.scope = scopes[n]]]]
    [] OTHER                          -> t

\* The parts of a query that are set; one that finds nothing ends the search.
constructFromQuery(q) ==
  LET parts == [n \in DOMAIN q.parts |-> constructQuery(expandScopes(q.scopes, q.parts[n]))]
  IN  IF NonNull(parts) # parts THEN Null ELSE Begin(And(parts))

-----------------------------------------------------------------------------
(* SearchStore::exec() *)

Init ==
  /\ db \in Databases /\ query \in Queries
  /\ iter = Null /\ found = <<>> /\ results = <<>> /\ state = "open"

open ==
  /\ state = "open"
  /\ LET it == constructFromQuery(query)
     IN  iter' = it /\ state' = IF it.kind = "null" THEN "done" ELSE "fetching"
  /\ UNCHANGED <<db, query, found, results>>

fetch ==
  /\ state = "fetching"
  /\ LET it == next(iter) IN
     /\ iter' = it
     /\ found' = IF it.docId = 0 THEN found ELSE Append(found, it.docId)
     /\ state' = IF it.docId = 0 THEN "sorting" ELSE state
  /\ UNCHANGED <<db, query, results>>

MinOf(a, b) == IF a < b THEN a ELSE b

\* Mutant: the offset is counted twice.
Slice_Twice(s) == SubSeq(s, query.offset + 1, MinOf(query.limit, Len(s)))

Slice(s) == SubSeq(s, query.offset + 1, MinOf(query.offset + query.limit, Len(s)))

\* SortAuto: by time, the latest first; std::sort leaves the order of equal times
\* open. Otherwise the documents come as they are found.
order(s) ==
  /\ ToSet(s) = ToSet(found)
  /\ query.sorted => \A n \in 1..Len(s) - 1 : db.mtime[s[n]] >= db.mtime[s[n + 1]]
  /\ ~query.sorted => s = found

sort ==
  /\ state = "sorting"
  /\ \E s \in [DOMAIN found -> ToSet(found)] : order(s) /\ results' = Slice(s)
  /\ state' = "done"
  /\ UNCHANGED <<db, query, iter, found>>

Next == open \/ fetch \/ sort

Spec == Init /\ [][Next]_vars

-----------------------------------------------------------------------------

\* What the variables hold; a document is found once.
TypeOK ==
  /\ state \in {"open", "fetching", "sorting", "done"}
  /\ \A n \in DOMAIN found : found[n] \in Docs
  /\ \A n \in 1..Len(found) - 1 : found[n] < found[n + 1]
  /\ Len(results) <= query.limit

\* The reference: what a query asks of a document.
InRange(d, t) ==
  CASE t.comparator \in {"=", ":"} -> Day(db.mtime[d]) = Day(t.time)
    [] t.comparator = "<="         -> db.mtime[d] <= t.time
    [] t.comparator = "<"          -> db.mtime[d] < t.time
    [] t.comparator = ">="         -> db.mtime[d] >= t.time
    [] t.comparator = ">"          -> db.mtime[d] > t.time

HasText(d, scope, t) ==
  IF Len(t.words) = 1 /\ t.comparator = ":" /\ t.words[1] \in LongWords
  THEN \E w \in Begins[t.words[1]] : HasPhrase(<<w>>, Field(d, scope))
  ELSE HasPhrase(t.words, Field(d, scope))

RECURSIVE Matches(_, _, _)
Matches(d, t, scopes) ==
  CASE t.op = "and"    -> \A n \in DOMAIN t.terms : Matches(d, t.terms[n], scopes)
    [] t.op = "or"     -> \E n \in DOMAIN t.terms : Matches(d, t.terms[n], scopes)
    [] t.op = "text"   -> \E scope \in (IF t.scope = "any" THEN ToSet(scopes) ELSE {t.scope}) : HasText(d, scope, t)
    [] t.op = "mtime"  -> InRange(d, t)
    [] t.op = "folder" -> t.folder \in Docs /\ d \in Below(t.folder)

Matching == {d \in Docs : \A n \in DOMAIN query.parts : Matches(d, query.parts[n], query.scopes)}

\* Times that the database cannot tell apart from those at its ends: a time after
\* 2106 is clamped, and one second more than the last one is 0 (searchstore.cpp:43).
RECURSIVE AtTheEnds(_)
AtTheEnds(t) ==
  CASE t.op \in {"and", "or"} -> \E n \in DOMAIN t.terms : AtTheEnds(t.terms[n])
    [] t.op = "mtime"         -> t.time >= MaxTime \/ t.time = 0
    [] OTHER                  -> FALSE
InTime == \A n \in DOMAIN query.parts : ~AtTheEnds(query.parts[n])

\* However iterators are combined, they find the documents that match, each
\* once: moving all lists forward together neither jumps over a document nor
\* stays at one.
FindsWhatMatches == state = "done" /\ InTime => ToSet(found) = Matching

\* With an offset and a limit, what is left out is older than what is returned,
\* or comes before the offset.
PageIsCut ==
  state = "done" =>
    /\ Len(results) = IF query.offset >= Len(found) THEN 0 ELSE MinOf(query.limit, Len(found) - query.offset)
    /\ query.sorted /\ Len(results) > 0 =>
         Cardinality({d \in ToSet(found) : db.mtime[d] > db.mtime[results[1]]}) <= query.offset
=============================================================================
