-------------------------------- MODULE Codecs --------------------------------
(***************************************************************************)
(* How lists become values of the database (src/codecs): positions with    *)
(* their documents, the terms of a document, and postings.                 *)
(*                                                                         *)
(* Sizes are scaled: a byte has three bits, of which the highest says that *)
(* more bytes of a number follow, quint32 has five bits, and quint64 is    *)
(* two bytes. A value may be truncated (postingcodec.cpp:25).              *)
(***************************************************************************)
EXTENDS Naturals, Sequences, SequencesExt, Folds

CONSTANTS
  PositionLists,   \* sequences of [docId, positions]
  TermLists,       \* not empty; terms are sequences of bytes that are neither 0 nor 1
  Postings         \* sequences of ids

VARIABLES
  codec,     \* "none", "positions", "terms", "postings"
  list,      \* what was put
  stored,    \* the bytes of it
  cut        \* some are missing

vars == <<codec, list, stored, cut>>

More      == 4     \* 128
Word      == 32    \* 2^32
MaxBytes  == 3     \* of a number: 5
FixedSize == 2     \* sizeof(quint64)

-----------------------------------------------------------------------------
(* coding.h, coding.cpp; a position is the index of the next byte, 0 for nullptr. *)

putFixed64(id) == <<id % (2 * More), id \div (2 * More)>>
decodeFixed64(bytes, p) == bytes[p] + 2 * More * bytes[p + 1]

\* Mutant: the limit of what fits in one byte is one too high.
putVarint32_OffByOne(v) ==
  LET low(k) == (v \div More^k) % More
  IN  CASE v <= More  -> <<v>>
        [] v < More^2 -> <<low(0) + More, low(1)>>
        [] OTHER      -> <<low(0) + More, low(1) + More, low(2)>>

putVarint32(v) ==
  LET low(k) == (v \div More^k) % More
  IN  CASE v < More   -> <<v>>
        [] v < More^2 -> <<low(0) + More, low(1)>>
        [] OTHER      -> <<low(0) + More, low(1) + More, low(2)>>

\* The number at p: it ends at the first byte without the bit, or is none.
getVarint32(bytes, p) ==
  LET ends == {q \in p..Len(bytes) : bytes[q] < More /\ q < p + MaxBytes /\ \A r \in p..(q - 1) : bytes[r] >= More}
  IN  IF p = 0 \/ ends = {} THEN [value |-> 0, next |-> 0]
      ELSE LET q == CHOOSE e \in ends : TRUE
           IN  [value |-> FoldLeft(LAMBDA sum, k : sum + (bytes[p + k] % More) * More^k, 0, [k \in 1..(q - p + 1) |-> k - 1]) % Word,
                next  |-> q + 1]

\* The difference to the one before is kept, in 32 bits.
putDifferentialVarInt32(values) ==
  putVarint32(Len(values)) \o
  FlattenSeq([n \in DOMAIN values |-> putVarint32((values[n] + Word - (IF n = 1 THEN 0 ELSE values[n - 1])) % Word)])

getDifferentialVarInt32(bytes, p) ==
  LET size == getVarint32(bytes, p)
      Get(got, k) == LET n == getVarint32(bytes, got.next)
                         v == IF got.values = <<>> THEN 0 ELSE Last(got.values)
                     IN  IF got.next = 0 THEN got
                         ELSE [values |-> Append(got.values, (n.value + v) % Word), next |-> n.next]
  IN  FoldLeft(Get, [values |-> <<>>, next |-> size.next], [k \in 1..size.value |-> k])

-----------------------------------------------------------------------------
(* positioncodec.cpp *)

encodePositions(infos) ==
  FlattenSeq([n \in DOMAIN infos |-> putFixed64(infos[n].docId) \o putDifferentialVarInt32(infos[n].positions)])

\* An id that is cut is read all the same, but nothing comes after it.
RECURSIVE decodePositions(_, _, _)
decodePositions(bytes, p, infos) ==
  LET got == getDifferentialVarInt32(bytes, p + FixedSize)
  IN  IF p > Len(bytes) THEN infos
      ELSE IF got.next = 0 THEN <<>>
      ELSE decodePositions(bytes, got.next, Append(infos, [docId |-> decodeFixed64(bytes, p), positions |-> got.values]))

-----------------------------------------------------------------------------
(* doctermscodec.cpp *)

\* The byte after a term says whether it goes on from the one before.
encodeTerms(terms) ==
  FlattenSeq([n \in DOMAIN terms |->
    IF n > 1 /\ IsPrefix(terms[n - 1], terms[n])
    THEN Append(SubSeq(terms[n], Len(terms[n - 1]) + 1, Len(terms[n])), 1)
    ELSE Append(terms[n], 0)])

decodeTerms(bytes) ==
  LET Read(got, byte) ==
        CASE got.corrupt -> got
          [] byte = 0    -> [got EXCEPT !.terms = Append(@, got.token), !.token = <<>>]
          [] byte = 1    -> IF got.terms = <<>> THEN [got EXCEPT !.corrupt = TRUE]
                            ELSE [got EXCEPT !.terms = Append(@, Last(@) \o got.token), !.token = <<>>]
          [] OTHER       -> [got EXCEPT !.token = Append(@, byte)]
  IN  FoldLeft(Read, [terms |-> <<>>, token |-> <<>>, corrupt |-> FALSE], bytes).terms

-----------------------------------------------------------------------------
(* postingcodec.cpp *)

encodePostings(ids) == FlattenSeq([n \in DOMAIN ids |-> putFixed64(ids[n])])

decodePostings(bytes) ==
  IF Len(bytes) % FixedSize # 0 THEN <<>>
  ELSE [n \in 1..(Len(bytes) \div FixedSize) |-> decodeFixed64(bytes, FixedSize * (n - 1) + 1)]

-----------------------------------------------------------------------------

Decoded == CASE codec = "positions" -> decodePositions(stored, 1, <<>>)
             [] codec = "terms"     -> decodeTerms(stored)
             [] codec = "postings"  -> decodePostings(stored)
             [] OTHER               -> list

put(name, value, bytes) ==
  /\ codec = "none" /\ codec' = name /\ list' = value /\ stored' = bytes /\ UNCHANGED cut

\* The value ends somewhere else.
lose ==
  /\ codec # "none" /\ ~cut /\ cut' = TRUE
  /\ \E n \in 0..(Len(stored) - 1) : stored' = SubSeq(stored, 1, n)
  /\ UNCHANGED <<codec, list>>

Init == codec = "none" /\ list = <<>> /\ stored = <<>> /\ cut = FALSE

Next ==
  \/ \E infos \in PositionLists : put("positions", infos, encodePositions(infos))
  \/ \E terms \in TermLists : put("terms", terms, encodeTerms(terms))
  \/ \E ids \in Postings : put("postings", ids, encodePostings(ids))
  \/ lose

Spec == Init /\ [][Next]_vars

-----------------------------------------------------------------------------

\* What is got is what was put, in whatever order positions and terms are and
\* whichever of them are equal or go on from each other; of a value that is cut
\* it is a part from the start, never a document, position or term that was not
\* put.
GetsWhatWasPut == /\ ~cut => Decoded = list
                  /\ IsPrefix(Decoded, list)
=============================================================================
