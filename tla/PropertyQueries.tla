---------------------------- MODULE PropertyQueries ----------------------------
(***************************************************************************)
(* What is known of one file, as terms of its document, and the searches   *)
(* that find it by a property, by its type or by its mimetype. The terms   *)
(* are written by BasicIndexingJob (basicindexingjob.cpp) and Result       *)
(* (extractor/result.cpp), and read by SearchStore (searchstore.cpp) and   *)
(* Transaction (transaction.cpp): "has to be kept in sync" says            *)
(* searchstore.cpp:530.                                                    *)
(*                                                                         *)
(* The texts of values are tagged: a number, a time (year, day, second, as *)
(* far as it goes) and a word. A mimetype is the sequence of its words,    *)
(* and a word the sequence of its parts. Extractors give values of the     *)
(* type of their property, times are of one time zone, and phrases of      *)
(* words are in Terms.                                                     *)
(***************************************************************************)
EXTENDS Integers, Sequences, SequencesExt

CONSTANTS
  Files,          \* [kind, mimetype, rating, values: a set of values for each property]
  PropertyType,   \* of each property: Int, Double, DateTime, Bool or String
  IndexedNames,   \* properties that KFileMetaData says should be indexed
  Kinds,          \* of each mimetype the types that it is of
  Typed           \* values that are searched for

VARIABLES
  file,
  doc             \* terms, data (its mimetype) and contentIndexing

vars == <<file, doc>>

Abs(n) == IF n < 0 THEN -n ELSE n
Word(w) == <<"word", w>>
Number(n) == <<"number", <<n>>>>
Time(t) == <<"time", t>>
None == <<"none">>

-----------------------------------------------------------------------------
(* The basic indexer *)

Part(mimetype, p) == \E n \in DOMAIN mimetype : p \in ToSet(mimetype[n])

Entry(mimetype, type) == [mimetype |-> mimetype, type |-> type]
Application(word) == <<<<"application">>, word>>
typeMapper ==
  LET xlsx == <<<<"application">>, <<"vnd.openxmlformats">>, <<"office", "document", ".spreadsheetml.sheet">>>>
      odp  == <<<<"application">>, <<"vnd.oasis.open", "document", ".presentation">>>>
      xls  == <<<<"application">>, <<"wps">>, <<"office", ".xls">>>>
  IN  {Entry(Application(<<"pdf">>), "Document"), Entry(<<<<"text">>, <<"plain">>>>, "Document"),
       Entry(Application(<<"zip">>), "Archive"), Entry(xlsx, "Spreadsheet"), Entry(odp, "Presentation"),
       Entry(xls, "Document"), Entry(xls, "Spreadsheet")}

\* Mutant: what is named for Excel is taken for a spreadsheet only.
OfficeTypes_NotDocument(mimetype) ==
       {t \in {"Document", "Presentation"} : Part(mimetype, "powerpoint")}
  \cup {t \in {"Spreadsheet"} : Part(mimetype, "excel")}

\* The old formats of MS Office
OfficeTypes(mimetype) ==
       {t \in {"Document", "Presentation"} : Part(mimetype, "powerpoint")}
  \cup {t \in {"Document", "Spreadsheet"} : Part(mimetype, "excel")}

typesForMimeType(mimetype) ==
  LET first == mimetype[1][1] IN
       {t \in {"Audio", "Video", "Image", "Text"} :
          <<t, first>> \in {<<"Audio", "audio">>, <<"Video", "video">>, <<"Image", "image">>, <<"Text", "text">>}}
  \cup {t \in {"Document"} : Part(mimetype, "document")}
  \cup OfficeTypes(mimetype)
  \cup {t \in {"Archive"} : /\ IsPrefix(<<<<"application">>, <<"x">>>>, mimetype)
                            /\ IsSuffix(<<<<"compressed">>, <<"tar">>>>, mimetype)}
  \cup {e.type : e \in {f \in typeMapper : f.mimetype = mimetype}}

MimetypeOf(f) == IF f.kind = "empty" THEN <<<<"application">>, <<"x">>, <<"zerosize">>>> ELSE f.mimetype

Types(f) == IF f.kind = "folder" THEN {"Folder"}
            ELSE IF f.kind = "file" THEN typesForMimeType(f.mimetype) ELSE {}

BasicTerms(f) ==
       {<<"M", w>> : w \in ToSet(MimetypeOf(f))}
  \cup {<<"T", t>> : t \in Types(f)}
  \cup {<<"R", Number(n)>> : n \in {f.rating} \ {0}}

\* Document::data() has the mimetype that TermGenerator set.
index(f) == [terms |-> BasicTerms(f), data |-> MimetypeOf(f), contentIndexing |-> f.kind = "file"]

-----------------------------------------------------------------------------
(* The extractor *)

\* The words of what is typed, or of the text of a value: a minus is punctuation
\* before its number, and the parts of a time are words of their own.
termList(v) ==
  CASE v[1] \in {"int", "double"} -> <<Number(Abs(v[2]))>>
    [] v[1] = "time" -> [n \in DOMAIN v[2] |-> Number(v[2][n])]
    [] v[1] = "text" -> [n \in DOMAIN v[2] |-> Word(v[2][n])]
    [] OTHER -> <<Word("true")>>

\* Mutant: a number goes the way of all other text.
ValueTerms_AsText(v) ==
  CASE v[1] = "bool" -> {None}
    [] v[1] = "time" -> {Time(v[2])}
    [] OTHER -> ToSet(termList(v))

ValueTerms(v) ==
  CASE v[1] = "bool" -> {None}
    [] v[1] = "int"  -> {Number(v[2])}
    [] v[1] = "time" -> {Time(v[2])}
    [] OTHER -> ToSet(termList(v))

indexProperties(values) == UNION {{<<"X", p, t>> : t \in UNION {ValueTerms(v) : v \in values[p]}} : p \in DOMAIN values}

finish(f, d) ==
  [terms |-> BasicTerms(f) \cup indexProperties(f.values), data |-> f.mimetype, contentIndexing |-> FALSE]

-----------------------------------------------------------------------------
(* The search *)

Of(prefix) == {t[Len(t)] : t \in {u \in doc.terms : SubSeq(u, 1, Len(u) - 1) = prefix}}

\* A text of three bytes or more stands for all that begin with it.
IsLong(text) == text[1] = "number" => text[2][1] > 99
BeginsWith(text, longer) ==
  \/ text = longer
  \/ /\ text[1] = "number" /\ longer[1] \in {"number", "time"}
     /\ \/ longer[1] = "time" /\ longer[2][1] = text[2][1]
        \/ longer[1] = "number" /\ \E k \in 1..3 : longer[2][1] \div 10^k = text[2][1]

constructEqualsQuery(prefix, typed, expandLast) ==
  LET terms == termList(typed)
  IN  /\ Len(terms) = 1
      /\ IF expandLast /\ IsLong(terms[1]) THEN \E t \in Of(prefix) : BeginsWith(terms[1], t) ELSE terms[1] \in Of(prefix)

\* The order of the bytes of ISO dates
NotAfter(a, b) ==
  \/ IsPrefix(a, b)
  \/ \E n \in DOMAIN a \cap DOMAIN b : a[n] < b[n] /\ \A m \in 1..(n - 1) : a[m] = b[m]

\* A day that is typed is its midnight.
ToDateTime(t) == IF Len(t) = 2 THEN Append(t, 0) ELSE t

ValueOf(type, t) == IF type = "DateTime" THEN t[2] ELSE t[2][1]
InOrder(type, a, b) == IF type = "DateTime" THEN NotAfter(a, b) ELSE a <= b

\* "<" and ">" are rounded to the comparators that PostingDB knows.
compIter(prefix, type, comparator, bound) ==
  \E v \in {ValueOf(type, t) : t \in Of(prefix)} :
    IF comparator \in {"<", "<="} THEN InOrder(type, v, bound) ELSE InOrder(type, bound, v)

\* Mutant: what is greater is what is greater or equal.
IntBound_NotStrict(comparator, n) == IF comparator = "<" THEN n - 1 ELSE n

IntBound(comparator, n) == IF comparator = ">" THEN n + 1 ELSE IF comparator = "<" THEN n - 1 ELSE n

Compare(prefix, type, comparator, typed) ==
  CASE type = "Int"      -> typed[1] = "int" /\ compIter(prefix, type, comparator, IntBound(comparator, typed[2]))
    [] type = "Double"   -> typed[1] \in {"int", "double"} /\ compIter(prefix, type, comparator, typed[2])
    [] type = "DateTime" -> typed[1] = "time" /\ compIter(prefix, type, comparator, ToDateTime(typed[2]))
    [] OTHER             -> FALSE

propertyInfo(p) == IF p = "rating" THEN [prefix |-> <<"R">>, type |-> "Int"]
                   ELSE [prefix |-> <<"X", p>>, type |-> PropertyType[p]]

\* Of a text, one word
constructQuery(p, comparator, typed) ==
  LET info == propertyInfo(p) IN
  IF info.type = "String" \/ comparator = "=" \/ (comparator = ":" /\ info.type = "Int")
  THEN constructEqualsQuery(info.prefix, typed, info.type = "String" /\ comparator = ":")
  ELSE IF comparator = ":" THEN constructEqualsQuery(info.prefix, typed, TRUE)
  ELSE Compare(info.prefix, info.type, comparator, typed)

\* "metadata" stands for all properties of text that should be indexed.
defaultIndexedProperties == {p \in IndexedNames : PropertyType[p] = "String"}
metadataQuery(comparator, typed) == \E p \in defaultIndexedProperties : constructQuery(p, comparator, typed)

constructTypeQuery(type) == <<"T", type>> \in doc.terms

match(words) == \E n \in 0..Len(doc.data) : IsPrefix(words, SubSeq(doc.data, n + 1, Len(doc.data)))

\* Words in a row are looked up in the data. (What has none of it, of a database of
\* an earlier version, is left to the positions of its terms.)
MimetypeQuery(words, contains) ==
  IF Len(words) = 1
  THEN \E w \in Of(<<"M">>) : w = words[1] \/ (contains /\ IsPrefix(words[1], w))
  ELSE ToSet(words) \subseteq Of(<<"M">>) /\ match(words)

-----------------------------------------------------------------------------

Nothing == [terms |-> {}, data |-> <<>>, contentIndexing |-> FALSE]
Init == file \in Files /\ doc = Nothing

basicIndexing == doc = Nothing /\ doc' = index(file) /\ UNCHANGED file
extraction == doc.contentIndexing /\ doc' = finish(file, doc) /\ UNCHANGED file

Next == basicIndexing \/ extraction

Spec == Init /\ [][Next]_vars

-----------------------------------------------------------------------------

Extracted == file.kind = "file" /\ doc # Nothing /\ ~doc.contentIndexing

\* What a value and a comparator mean. Numbers and times compare as such; a time
\* equals a day or a year that it is in.
Below(p, v, w) ==
  IF PropertyType[p] # "DateTime" THEN v < w
  ELSE ToDateTime(v) # ToDateTime(w) /\ NotAfter(ToDateTime(v), ToDateTime(w))
Comparable(p, typed) == CASE PropertyType[p] = "Int" -> typed[1] = "int"
                          [] PropertyType[p] = "Double" -> typed[1] \in {"int", "double"}
                          [] OTHER -> typed[1] = "time"
Meant(p, comparator, v, typed) ==
  /\ Comparable(p, typed)
  /\ CASE comparator \in {":", "="} -> IF typed[1] = "time" THEN IsPrefix(typed[2], v[2]) ELSE v[2] = typed[2]
       [] comparator = "<"  -> Below(p, v[2], typed[2])
       [] comparator = "<=" -> ~Below(p, typed[2], v[2])
       [] comparator = ">"  -> Below(p, typed[2], v[2])
       [] comparator = ">=" -> ~Below(p, v[2], typed[2])

\* Where the terms do not tell: a minus is lost with ":" and "=", and wherever the
\* value is not an integer; "<" and ">" are "<=" and ">=" for all but integers; a
\* time is nothing but the year it begins with to ":" and "="; a day without a time
\* is before its midnight; and a number is also what begins with it.
Unclear(p, comparator, v, typed) ==
  LET type == PropertyType[p]  is == comparator \in {":", "="} IN
  \/ type = "Int" /\ is /\ (v[2] < 0 \/ typed[2] < 0)
  \/ type = "Double" /\ \/ v[2] < 0 \/ typed[2] < 0
                        \/ comparator \in {"<", ">"} /\ v[2] = typed[2]
                        \/ comparator = ":" /\ typed[2] > 99
  \/ type = "DateTime" /\ \/ is
                          \/ ToDateTime(v[2]) = ToDateTime(typed[2])

\* Once a file is extracted it is found by a number or a time if that is what one
\* of its values is compared to, unless that is unclear (searchstore.cpp:530).
FindsByValue ==
  Extracted => \A p \in {q \in DOMAIN PropertyType : PropertyType[q] \in {"Int", "Double", "DateTime"}},
                  comparator \in {":", "=", "<", "<=", ">", ">="}, typed \in Typed :
    LET certain == {v \in file.values[p] : ~(Comparable(p, typed) /\ Unclear(p, comparator, v, typed))}
        means == \E v \in certain : Meant(p, comparator, v, typed)
    IN  Comparable(p, typed) => /\ means => constructQuery(p, comparator, typed)
                                /\ certain = file.values[p] => (constructQuery(p, comparator, typed) => means)

\* From its first indexing on a file is found by its rating, and by each type that
\* it is of and no other, whether or not its contents are read.
FindsByType ==
  doc # Nothing =>
    /\ \A n \in 1..3 : constructQuery("rating", ":", <<"int", n>>) <=> file.rating = n
    /\ \A n \in 1..3 : constructQuery("rating", ">", <<"int", n>>) <=> file.rating > n
    /\ file.kind = "file" => \A type \in UNION {Kinds[m] : m \in DOMAIN Kinds} :
                               constructTypeQuery(type) <=> type \in Kinds[file.mimetype]

\* What is indexed is found by each part of its mimetype and by no other words in a
\* row; an empty file by that of its being empty.
FindsByMimetype ==
  doc # Nothing => \A m \in DOMAIN Kinds \cup {MimetypeOf(file)} : \A a, b \in DOMAIN m : a <= b =>
    LET words == SubSeq(m, a, b)  type == MimetypeOf(file)
    IN  MimetypeQuery(words, FALSE) <=> \E n \in DOMAIN type : IsPrefix(words, SubSeq(type, n, Len(type)))

\* "metadata" finds a word of a text, in those properties that should be indexed.
FindsMetadata ==
  Extracted => \A typed \in {t \in Typed : t[1] = "text" /\ Len(t[2]) = 1} :
    metadataQuery(":", typed) <=>
      \E p \in IndexedNames : PropertyType[p] = "String" /\ \E v \in file.values[p] : typed[2][1] \in ToSet(v[2])
=============================================================================
