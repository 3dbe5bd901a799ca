-------------------------------- MODULE Terms --------------------------------
(***************************************************************************)
(* How a text becomes terms (TermGenerator, termgenerator.cpp), how the    *)
(* attributes and properties of a file become terms of a document          *)
(* (basicindexingjob.cpp, extractor/result.cpp, propertydata.cpp), and how *)
(* a phrase finds them again (searchstore.cpp, transaction.cpp).           *)
(*                                                                         *)
(* A character is a letter, an ideograph, "'", "_" or a space, which also  *)
(* stands for other punctuation. Where words end is what Qt says           *)
(* (QTextBoundaryFinder). Normalization and lengths are left out.          *)
(***************************************************************************)
EXTENDS Naturals, Sequences, SequencesExt, Functions, FiniteSets

CONSTANTS
  Letters, Ideographs,
  Documents,   \* tags, comment and property: each a sequence of values, which are
               \* sequences of words
  Phrases,     \* words that are searched for
  MaxLength    \* bound: of a text

VARIABLES
  text,
  document

Space == " "  Underscore == "_"  Apostrophe == "'"
Characters == Letters \cup Ideographs \cup {Space, Underscore, Apostrophe}
isSkipChar(c) == c \in {Space, Underscore, Apostrophe}

LeastOf(S) == CHOOSE n \in S : \A m \in S : n <= m

-----------------------------------------------------------------------------
(* QTextBoundaryFinder. A position is the number of characters before it.  *)

IsLetter(i) == i \in DOMAIN text /\ text[i] \in Letters

Inside(p) ==
  LET a == text[p]  b == text[p + 1]
  IN  \/ {a, b} \subseteq Letters \cup {Underscore}
      \/ IsLetter(p) /\ b = Apostrophe /\ IsLetter(p + 2)
      \/ IsLetter(p - 1) /\ a = Apostrophe /\ IsLetter(p + 1)

Boundaries == {p \in 1..Len(text) : p < Len(text) => ~Inside(p)}

nextBoundary(p) == {b \in Boundaries : b > p}

\* An item begins with a letter, and ends with what began with one.
StartOfItem(p) == IsLetter(p + 1)
EndOfItem(p) == LET begins == {b \in Boundaries \cup {0} : b < p}
                IN  IsLetter((CHOOSE b \in begins : \A c \in begins : c <= b) + 1)

-----------------------------------------------------------------------------
(* TermGenerator::termList() *)

\* Mutant: one of two that follow each other is passed over.
NextUnderscore_Second(p) == LeastOf({q \in p..Len(text) : q = Len(text) \/ (q > p /\ text[q + 1] = Underscore)})

NextUnderscore(p) == LeastOf({q \in p..Len(text) : q = Len(text) \/ text[q + 1] = Underscore})

SkipFrom(start, end) == LeastOf({p \in start..end : p = end \/ ~isSkipChar(text[p + 1])})

\* Where the word is cut, if underscores before start were passed over
AtUnderscore(start, underscore) == IF underscore < start THEN start ELSE underscore

RECURSIVE TermsFrom(_, _, _)
TermsFrom(from, start, underscore) ==
  IF nextBoundary(from) = {} THEN <<>>
  ELSE LET boundary == LeastOf(nextBoundary(from))
           begin    == SkipFrom(start, boundary)
           split    == underscore < boundary
           end      == IF split THEN AtUnderscore(begin, underscore) ELSE boundary
           commit   == \/ split \/ EndOfItem(boundary) \/ StartOfItem(boundary)
                       \/ end = Len(text) \/ isSkipChar(text[end + 1])
       IN  IF begin = boundary THEN TermsFrom(boundary, begin, underscore)
           ELSE (IF commit /\ end > begin THEN <<SubSeq(text, begin + 1, end)>> ELSE <<>>)
                \o TermsFrom(end, IF commit THEN end ELSE begin,
                             IF split THEN NextUnderscore(IF end + 1 < Len(text) THEN end + 1 ELSE Len(text)) ELSE underscore)

termList == TermsFrom(0, 0, NextUnderscore(0))

-----------------------------------------------------------------------------
(* The terms of a document. *)

\* Mutant: values follow each other without a gap.
indexXattrText_NoGap(indexed, value) ==
  IF Len(value) = 1 THEN [indexed EXCEPT !.terms = @ \cup {value[1]}]
  ELSE [terms     |-> indexed.terms \cup Range(value),
        positions |-> [p \in DOMAIN indexed.positions \cup {indexed.next + n - 1 : n \in DOMAIN value} |->
                         IF p \in DOMAIN indexed.positions THEN indexed.positions[p] ELSE value[p - indexed.next + 1]],
        next      |-> indexed.next + Len(value)]

\* indexXattrText(): a word by itself gets no position, and a gap follows others.
indexXattrText(indexed, value) ==
  IF Len(value) = 1 THEN [indexed EXCEPT !.terms = @ \cup {value[1]}]
  ELSE [terms     |-> indexed.terms \cup Range(value),
        positions |-> [p \in DOMAIN indexed.positions \cup {indexed.next + n - 1 : n \in DOMAIN value} |->
                         IF p \in DOMAIN indexed.positions THEN indexed.positions[p] ELSE value[p - indexed.next + 1]],
        next      |-> indexed.next + Len(value) + 1]

\* indexXAttr(): the tags, then the comment with another prefix
Tags    == FoldLeft(indexXattrText, [terms |-> {}, positions |-> <<>>, next |-> 1], document.tags)
Comment == FoldLeft(indexXattrText, [terms |-> {}, positions |-> <<>>, next |-> Tags.next], document.comment)

\* indexProperties(): terms have no positions.
PropertyTerms == UNION {Range(v) : v \in Range(document.property)}

\* propertyMapToJson() keeps one value as a string and more as an array.
JsonString == IF Len(document.property) = 1 THEN document.property[1] ELSE <<>>

-----------------------------------------------------------------------------
(* Searches: is the document found? *)

HasPhrase(words, value) == \E k \in 0..(Len(value) - Len(words)) : SubSeq(value, k + 1, k + Len(words)) = words

\* constructEqualsQuery()
FindsAttribute(indexed, words) ==
  IF Len(words) = 1 THEN words[1] \in indexed.terms
  ELSE \E p \in DOMAIN indexed.positions : \A n \in DOMAIN words :
         p + n - 1 \in DOMAIN indexed.positions /\ indexed.positions[p + n - 1] = words[n]

\* postingIterator(PropertyPhraseQuery): toString() of an array is empty.
FindsProperty(words) ==
  /\ Range(words) \subseteq PropertyTerms
  /\ Len(words) > 1 => HasPhrase(words, JsonString)

-----------------------------------------------------------------------------

Empty == [tags |-> <<>>, comment |-> <<>>, property |-> <<>>]

type(c) == document = Empty /\ Len(text) < MaxLength /\ text' = Append(text, c) /\ UNCHANGED document

\* A file is indexed.
save == text = <<>> /\ document = Empty /\ document' \in Documents /\ UNCHANGED text

Init == text = <<>> /\ document = Empty

Next == (\E c \in Characters : type(c)) \/ save

Spec == Init /\ [][Next]_<<text, document>>

-----------------------------------------------------------------------------

\* What belongs to words: an apostrophe only between letters.
Kept == {i \in DOMAIN text : ~isSkipChar(text[i]) \/ (text[i] = Apostrophe /\ IsLetter(i - 1) /\ IsLetter(i + 1))}

\* The number of characters up to the end of the n-th term
EndOfTerm(n) == Len(FlattenSeq(SubSeq(termList, 1, n)))
Before(i) == Cardinality({j \in Kept : j < i})

\* Every character of a word comes into one term, in its order; words end where
\* something between them is skipped, and otherwise only between a letter and an
\* ideograph, whatever underscores and apostrophes are around.
WordsAreKept ==
  LET ends == {EndOfTerm(n) : n \in DOMAIN termList}
      cuts == {Before(i) : i \in {j \in Kept : j - 1 \notin Kept}} \ {0}
      may  == {Before(i) : i \in {j \in Kept : j - 1 \in Kept /\ {text[j - 1], text[j]} \cap Ideographs # {}}}
  IN  /\ FlattenSeq(termList) = [n \in 1..Cardinality(Kept) |-> text[CHOOSE i \in Kept : Before(i) = n - 1]]
      /\ cuts \subseteq ends /\ ends \subseteq cuts \cup may \cup {Cardinality(Kept)}

\* A phrase finds a file by its tags, its comment or a property if and only if
\* one value of it has the phrase: not one that runs on from a value to the next.
\* (A property with more than one value is not found by more than one word.)
PhrasesFindValues ==
  \A words \in Phrases :
    LET In(values) == \E v \in Range(values) : HasPhrase(words, v)
    IN  /\ FindsAttribute(Tags, words) <=> In(document.tags)
        /\ FindsAttribute(Comment, words) <=> In(document.comment)
        /\ Len(words) = 1 \/ Len(document.property) <= 1 => (FindsProperty(words) <=> In(document.property))
=============================================================================
