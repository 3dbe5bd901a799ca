------------------------------ MODULE TagsWorker ------------------------------
(***************************************************************************)
(* The KIO worker that shows tags as folders (kio_tags.cpp): copying,      *)
(* renaming and deleting there change the tags in the attributes of files. *)
(*                                                                         *)
(* A tag is the sequence of its sections. What the worker shows and finds  *)
(* comes from the index, which follows the attributes later. A file is     *)
(* found by its name as a phrase: it may have more words than the url. The *)
(* files that a request is about are found at once and then rewritten one  *)
(* after the other, one attribute a tag.                                   *)
(***************************************************************************)
EXTENDS Naturals, Sequences, SequencesExt, FiniteSets

CONSTANTS
  Files,         \* ids, in whose order searches find files
  Name,          \* the words of a file's name
  Tags,          \* bound: tags that can be asked for
  InitialTags,   \* tags that the files have at first
  MaxRequests    \* bound: requests and changes by others

VARIABLES
  tags,          \* in the attributes of each file
  indexed,       \* in the index
  unassigned,    \* m_unassignedTags
  request,       \* what is being done, with the files and tags left to it
  meant,         \* what the user meant the attributes to be
  before,        \* the attributes when the request came
  doubts,        \* why what is done may be something else
  requests       \* number of them so far

vars == <<tags, indexed, unassigned, request, meant, before, doubts, requests>>

None == [op |-> [kind |-> "none"], left |-> <<>>, rewrite |-> {}]

-----------------------------------------------------------------------------
(* Searches. *)

HasPhrase(words, text) == \E k \in 0..(Len(text) - Len(words)) : SubSeq(text, k + 1, k + Len(words)) = words

\* tag="T"; tag="T" AND filename="name"; tag:s AND tag:t ... for T = s/t/...
InTag(T) == {f \in Files : T \in indexed[f]}
Named(T, words) == {f \in InTag(T) : HasPhrase(words, Name[f])}
Scope(T) == {f \in Files : \A n \in DOMAIN T : \E t \in indexed[f] : T[n] \in ToSet(t)}

Ordered(S) == SetToSortSeq(S, LAMBDA f, g : f < g)

\* TagListJob
KnownTags == UNION {indexed[f] : f \in Files} \cup unassigned

-----------------------------------------------------------------------------
(* parseUrl() of tags:/T/last, where last are the words of a name and pos the *)
(* number in parentheses after it.                                            *)

Parsed(T, last, pos, chop, lazy) ==
  LET found == Ordered(Named(T, last))
      file  == IF found = <<>> THEN <<>> ELSE <<found[IF pos < Len(found) THEN pos + 1 ELSE Len(found)]>>
      tag   == IF file # <<>> \/ chop THEN T ELSE T \o last
      valid == lazy \/ tag = <<>> \/ \E t \in KnownTags : IsPrefix(tag, t)
  IN  [tag |-> tag, file |-> file,
       type |-> IF ~valid THEN "invalid" ELSE IF file = <<>> THEN "tag" ELSE "file"]

\* A tag by itself
ParsedTag(T, lazy) == Parsed(Front(T), <<Last(T)>>, 0, FALSE, lazy)

\* listDir(): the number after the name of a file that shares it
Number(T, f) == Cardinality({g \in InTag(T) : g < f /\ Name[g] = Name[f]})

-----------------------------------------------------------------------------
(* Requests. *)

Under(T, t) == IsPrefix(T, t)

\* newTag.replace(srcTag, dstTag): every occurrence, from left to right
RECURSIVE Replaced(_, _, _)
Replaced(t, src, dst) ==
  IF Len(t) < Len(src) THEN t
  ELSE IF IsPrefix(src, t) THEN dst \o Replaced(SubSeq(t, Len(src) + 1, Len(t)), src, dst)
  ELSE <<t[1]>> \o Replaced(Tail(t), src, dst)

Moved(t, src, dst) == dst \o SubSeq(t, Len(src) + 1, Len(t))

\* Does a tag have the sections of T more than once?
Repeated(T, U) == \E f \in Files : \E t \in tags[f] : Under(T, t) /\ Replaced(t, T, U) # Moved(t, T, U)

\* Does the name of another file, or of a folder, come into it?
Ambiguous(T, words) == \E f \in Named(T, words) : Name[f] # words
Stale == \E f \in Files : indexed[f] # tags[f]

\* A request: what it does to the files left and what it is meant to do
Begin(does, left, meaning, reasons) ==
  /\ request = None /\ requests < MaxRequests /\ requests' = requests + 1
  /\ request' = [op |-> does, left |-> left, rewrite |-> {}]
  /\ before' = tags /\ meant' = meaning
  /\ doubts' = {r \in reasons : r # ""} \cup (IF Stale THEN {"stale"} ELSE {})
  /\ UNCHANGED <<tags, indexed, unassigned>>

Doubt(reason, condition) == IF condition THEN reason ELSE ""

\* copy() of a file into a tag: there must be nothing of its name there.
copy(f, T) ==
  LET dst  == Parsed(T, Name[f], 0, TRUE, TRUE)
      does == T \notin tags[f] /\ dst.type = "tag"
  IN  Begin([kind |-> "add", file |-> <<f>>, src |-> <<>>, dst |-> dst.tag], IF does THEN <<f>> ELSE <<>>,
            [tags EXCEPT ![f] = @ \cup {T}],
            {Doubt("sameName", \E g \in InTag(T) \ {f} : HasPhrase(Name[f], Name[g]))})

\* rename() of a file in a tag, to another tag
renameFile(f, T, U) ==
  LET src  == Parsed(T, Name[f], Number(T, f), FALSE, FALSE)
      dst  == Parsed(U, Name[f], 0, TRUE, FALSE)
      does == dst.type # "invalid" /\ dst.tag \notin tags[src.file[1]]
  IN  /\ f \in InTag(T) /\ U # T
      /\ Begin([kind |-> "replace", file |-> src.file, src |-> src.tag, dst |-> dst.tag],
               IF does THEN src.file ELSE <<>>,
               [tags EXCEPT ![f] = (@ \ {T}) \cup {U}],
               {Doubt("ambiguous", Ambiguous(T, Name[f])), Doubt("hasTag", dst.type = "invalid" \/ U \in tags[f])})

\* rename() of a tag
renameTag(T, U) ==
  LET src  == ParsedTag(T, FALSE)
      dst  == IF src.type = "file" THEN Parsed(Front(U), <<Last(U)>>, 0, TRUE, FALSE) ELSE ParsedTag(U, TRUE)
      does == /\ src.type # "invalid" /\ dst.type # "invalid"
              /\ src.file # <<>> => dst.tag \notin tags[src.file[1]]
  IN  /\ T # U /\ ~Under(T, U) /\ \E t \in KnownTags : Under(T, t)
      /\ Begin([kind |-> IF src.type = "file" THEN "replace" ELSE "replaceAll", file |-> src.file,
                src |-> src.tag, dst |-> dst.tag],
               IF does THEN (IF src.file = <<>> THEN Ordered(Scope(src.tag)) ELSE src.file) ELSE <<>>,
               [f \in Files |-> {IF Under(T, t) THEN Moved(t, T, U) ELSE t : t \in tags[f]}],
               {Doubt("ambiguous", Named(Front(T), <<Last(T)>>) # {} \/ Named(Front(U), <<Last(U)>>) # {}),
                Doubt("repeated", Repeated(T, U))})

\* del() of a file in a tag, and of a tag
delFile(f, T) ==
  LET url == Parsed(T, Name[f], Number(T, f), FALSE, FALSE)
  IN  /\ f \in InTag(T)
      /\ Begin([kind |-> "remove", file |-> url.file, src |-> url.tag, dst |-> <<>>],
               Ordered(Scope(url.tag) \cap ToSet(url.file)),
               [tags EXCEPT ![f] = @ \ {T}], {Doubt("ambiguous", Ambiguous(T, Name[f]))})

delTag(T) ==
  LET url == ParsedTag(T, FALSE)
  IN  /\ \E t \in KnownTags : Under(T, t)
      /\ Begin([kind |-> IF url.file = <<>> THEN "removeAll" ELSE "remove", file |-> url.file, src |-> url.tag, dst |-> <<>>],
               Ordered(Scope(url.tag) \cap (IF url.file = <<>> THEN Files ELSE ToSet(url.file))),
               [f \in Files |-> {t \in tags[f] : ~Under(T, t)}],
               {Doubt("ambiguous", Named(Front(T), <<Last(T)>>) # {})})

\* mkdir(): a name that a file has there is no tag.
mkdir(T) ==
  /\ request = None /\ requests < MaxRequests /\ requests' = requests + 1
  /\ T \notin KnownTags /\ ParsedTag(T, TRUE).type = "tag"
  /\ unassigned' = unassigned \cup {T}
  /\ UNCHANGED <<tags, indexed, request, meant, before, doubts>>

-----------------------------------------------------------------------------

\* Mutant: all tags of a file that was found are rewritten.
nextFile_AllTags ==
  /\ request.left # <<>> /\ request.rewrite = {}
  /\ LET f == Head(request.left)
         op == request.op
     IN request' = [request EXCEPT !.rewrite =
          CASE op.kind = "add" -> {<<>>}
            [] op.kind \in {"replace", "remove"} -> {op.src}
            [] OTHER -> tags[f],
          !.left = IF op.kind \in {"replaceAll", "removeAll"} /\ tags[f] = {} THEN Tail(@) ELSE @]
  /\ UNCHANGED <<tags, indexed, unassigned, meant, before, doubts, requests>>

\* The next file: its tags are read once.
nextFile ==
  /\ request.left # <<>> /\ request.rewrite = {}
  /\ LET f == Head(request.left)
         op == request.op
     IN request' = [request EXCEPT !.rewrite =
          CASE op.kind = "add" -> {<<>>}
            [] op.kind \in {"replace", "remove"} -> {op.src}
            [] OTHER -> {t \in tags[f] : Under(op.src, t)},
          !.left = IF op.kind \in {"replaceAll", "removeAll"} /\ ~\E t \in tags[f] : Under(op.src, t) THEN Tail(@) ELSE @]
  /\ UNCHANGED <<tags, indexed, unassigned, meant, before, doubts, requests>>

\* setTags(): an empty tag is not kept.
Kept(S) == S \ {<<>>}

\* rewriteTags(): one attribute is read and written.
rewriteTags(t) ==
  LET f  == Head(request.left)
      op == request.op
      to == CASE op.kind \in {"add", "replace"} -> {op.dst}
              [] op.kind = "replaceAll" -> {Replaced(t, op.src, op.dst)}
              [] OTHER -> {}
  IN  /\ t \in request.rewrite
      /\ tags' = [tags EXCEPT ![f] = Kept((@ \ {t}) \cup to)]
      /\ request' = [request EXCEPT !.rewrite = @ \ {t}, !.left = IF request.rewrite = {t} THEN Tail(@) ELSE @]
      /\ UNCHANGED <<indexed, unassigned, meant, before, doubts, requests>>

Answered == request # None /\ request.left = <<>>

answer ==
  /\ Answered /\ request' = None
  /\ UNCHANGED <<tags, indexed, unassigned, meant, before, doubts, requests>>

\* The user stops it: the worker is killed.
kill ==
  /\ request # None /\ ~Answered /\ request' = None /\ unassigned' = {}
  /\ UNCHANGED <<tags, indexed, meant, before, doubts, requests>>

\* XAttrIndexer looks at the file.
index(f) ==
  /\ indexed[f] # tags[f] /\ indexed' = [indexed EXCEPT ![f] = tags[f]]
  /\ UNCHANGED <<tags, unassigned, request, meant, before, doubts, requests>>

Init ==
  /\ tags \in InitialTags /\ indexed = tags /\ unassigned = {}
  /\ request = None /\ meant = tags /\ before = tags /\ doubts = {} /\ requests = 0

Requests ==
  \/ \E f \in Files, T \in Tags : copy(f, T) \/ delFile(f, T)
  \/ \E f \in Files, T \in Tags, U \in Tags : renameFile(f, T, U)
  \/ \E T \in Tags, U \in Tags : renameTag(T, U)
  \/ \E T \in Tags : delTag(T) \/ mkdir(T)

Rewrites == \E t \in request.rewrite : rewriteTags(t)

Next == Requests \/ nextFile \/ Rewrites \/ answer \/ kill \/ \E f \in Files : index(f)

Spec == Init /\ [][Next]_vars

-----------------------------------------------------------------------------

\* What is done is what was meant, for every file and tag, if the index is up to
\* date and no name stands for something else as well.
DoneAsMeant == Answered /\ doubts = {} => tags = meant

\* An index behind the attributes leaves files out, but does nothing else to them.
LeftOutAtMost == Answered /\ doubts = {"stale"} => \A f \in Files : tags[f] \in {before[f], meant[f]}

\* No tag gets lost on the way, even if the worker is killed: a file has each of
\* its tags under the old name or under the new one. (A folder that is named like
\* a file of the tag above is taken for the file, which then loses that tag.)
NothingIsLost ==
  request.op.kind \in {"replace", "replaceAll"} /\ "ambiguous" \notin doubts =>
    \A f \in Files : \A t \in before[f] :
      t \in tags[f] \/ (Under(request.op.src, t) /\ Replaced(t, request.op.src, request.op.dst) \in tags[f])
=============================================================================
