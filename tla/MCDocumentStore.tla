-------------------------- MODULE MCDocumentStore ---------------------------
(***************************************************************************)
(* DocumentStore with values for TLC: a text file before and after an      *)
(* edit, the first of which is marked for content indexing.                *)
(***************************************************************************)
EXTENDS DocumentStore

CONSTANTS i1, i2, i3, plain, word, tag, name

TwoIds   == {i1, i2}
ThreeIds == {i1, i2, i3}
AnyId    == Permutations(ThreeIds)

SomeGroupTerms == [g \in {"terms", "xattr", "filename"} |->
                     CASE g = "terms" -> {plain, word} [] g = "xattr" -> {tag}
                       [] g = "filename" -> {name}]

TermsOf(t, x, f) == [g \in {"terms", "xattr", "filename"} |->
                       CASE g = "terms" -> t [] g = "xattr" -> x [] g = "filename" -> f]

TwoTimes == {1, 2}
Created == [terms |-> TermsOf({plain}, {tag}, {name}), positioned |-> {},
            mTime |-> 1, contentIndexing |-> TRUE, data |-> FALSE]
Edited  == [terms |-> TermsOf({plain, word}, {}, {}), positioned |-> {word},
            mTime |-> 2, contentIndexing |-> FALSE, data |-> TRUE]
TwoBodies == {Created, Edited}
=============================================================================
