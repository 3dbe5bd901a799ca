----------------------------- MODULE QueryParser -----------------------------
(***************************************************************************)
(* What a user types is a query: lex() and parse() (queryparser.cpp), the  *)
(* constructor of Term that joins two terms (term.cpp) and the scopes that *)
(* words without a property are looked up in (searchstore.cpp).            *)
(*                                                                         *)
(* A text is a sequence of characters, of which "AND", "OR" and each word  *)
(* are one, and a token is a sequence of characters. The user types one    *)
(* piece after the other, no operand twice, and may stop at any time.      *)
(***************************************************************************)
EXTENDS Naturals, Sequences, SequencesExt

CONSTANTS
  Operand,    \* text, property, comparator and value of the pieces that ask for
              \* something, and the scope that a value without property is found in
  Scopes,     \* the scopes of the query, in their order
  MaxPieces   \* bound: pieces of a text

VARIABLES
  typed       \* the pieces so far

-----------------------------------------------------------------------------
(* lex() *)

Space == " "
Quote == "quote"
IsComparator(c) == c \in {">", "<", ":", "="}

\* The tokens of text from i on, when token is what was read of one
RECURSIVE lexFrom(_, _, _, _)
lexFrom(text, i, token, inQuotes) ==
  LET ended == IF token = <<>> THEN <<>> ELSE <<token>>
      c     == text[i]
  IN  IF i > Len(text) THEN ended
      ELSE IF c = Quote THEN (IF inQuotes THEN <<token>> ELSE <<>>)
                               \o lexFrom(text, i + 1, IF inQuotes THEN <<>> ELSE token, ~inQuotes)
      ELSE IF inQuotes THEN lexFrom(text, i + 1, Append(token, c), TRUE)
      ELSE IF c = Space THEN ended \o lexFrom(text, i + 1, <<>>, FALSE)
      ELSE IF c \in {"(", ")"} THEN ended \o <<<<c>>>> \o lexFrom(text, i + 1, <<>>, FALSE)
      ELSE IF IsComparator(c)
           THEN IF i < Len(text) /\ text[i + 1] = "="
                THEN ended \o <<<<c, "=">>>> \o lexFrom(text, i + 2, <<>>, FALSE)
                ELSE ended \o <<<<c>>>> \o lexFrom(text, i + 1, <<>>, FALSE)
      ELSE lexFrom(text, i + 1, Append(token, c), FALSE)

lex(text) == lexFrom(text, 1, <<>>, FALSE)

-----------------------------------------------------------------------------
(* Term *)

Leaf(property, comparator, value) ==
  [op |-> "none", comparator |-> comparator, property |-> property, value |-> value, subTerms |-> <<>>]
EmptyTerm == Leaf(<<>>, <<>>, <<>>)   \* Auto is no comparator
IsEmpty(t) == t.property = <<>> /\ t.value = <<>> /\ t.subTerms = <<>> /\ t.comparator = <<>>

\* Term(lhs, op, rhs): terms of the same operation become one.
Term(lhs, op, rhs) ==
  LET SubTerms(t) == IF t.op = op THEN t.subTerms ELSE <<t>>
  IN  IF IsEmpty(lhs) THEN rhs ELSE IF IsEmpty(rhs) THEN lhs
      ELSE [EmptyTerm EXCEPT !.op = op, !.subTerms = SubTerms(lhs) \o SubTerms(rhs)]

-----------------------------------------------------------------------------
(* parse(): p holds stack, ops, termInConstruction (term) and valueExpected. *)

Start == [stack |-> <<EmptyTerm>>, ops |-> <<"and">>, term |-> EmptyTerm, valueExpected |-> FALSE, failed |-> FALSE]

SetTop(s, e) == [s EXCEPT ![Len(s)] = e]
addTermToStack(stack, term, op) == SetTop(stack, Term(Last(stack), op, term))

\* The term in construction, if there is one, goes to the top of the stack.
Added(p) == [p EXCEPT !.stack = IF IsEmpty(p.term) THEN @ ELSE addTermToStack(@, p.term, Last(p.ops)),
                      !.term = EmptyTerm]
Then(p, op) == [p EXCEPT !.ops = SetTop(@, op)]

Value(p, token) ==
  IF p.term.value = <<>> THEN [p EXCEPT !.failed = TRUE]
  ELSE [p EXCEPT !.term.property = p.term.value, !.term.value = token, !.valueExpected = FALSE]

Open(p) ==
  LET q == IF IsEmpty(p.term) THEN p ELSE Then(Added(p), "and")
  IN  [q EXCEPT !.stack = Append(@, EmptyTerm), !.ops = Append(@, "and"), !.term = EmptyTerm]

\* Mutant: what comes after the parenthesis is joined like what is in it.
Close_KeepsOp(p) ==
  IF Len(p.stack) = 1 THEN p
  ELSE LET q == Added(p)
       IN  [q EXCEPT !.stack = addTermToStack(Front(@), Last(@), Last(Front(q.ops))), !.ops = Front(@)]

Close(p) ==
  IF Len(p.stack) = 1 THEN p
  ELSE LET q == Added(p)
       IN  Then([q EXCEPT !.stack = addTermToStack(Front(@), Last(@), Last(Front(q.ops))), !.ops = Front(@)], "and")

\* The first character of a token tells what it is, quoted or not.
Comparator(token) ==
  IF token = <<>> \/ ~IsComparator(token[1]) THEN <<>>
  ELSE IF token[1] \in {":", "="} \/ Len(token) = 1 THEN <<token[1]>>
  ELSE IF token[2] = "=" THEN <<token[1], "=">> ELSE <<>>

Handle(p, token) ==
  IF p.failed THEN p
  ELSE IF p.valueExpected THEN Value(p, token)
  ELSE IF token = <<"AND">> THEN Then(Added(p), "and")
  ELSE IF token = <<"OR">> THEN Then(Added(p), "or")
  ELSE IF token # <<>> /\ token[1] = "(" THEN Open(p)
  ELSE IF token # <<>> /\ token[1] = ")" THEN Close(p)
  ELSE IF Comparator(token) # <<>>
       THEN [p EXCEPT !.term.comparator = Comparator(token), !.valueExpected = TRUE]
  ELSE [(IF IsEmpty(p.term) THEN p ELSE Then(Added(p), "and")) EXCEPT !.term = Leaf(<<>>, <<":">>, token)]

\* Process unclosed parentheses: ops loses one entry only.
RECURSIVE Unwind(_, _)
Unwind(stack, op) ==
  IF Len(stack) = 1 THEN stack[1] ELSE Unwind(addTermToStack(Front(stack), Last(stack), op), op)

parse(text) ==
  LET p == FoldLeft(Handle, Start, lex(text))
      t == IF p.valueExpected THEN Leaf(p.term.value, <<":">>, <<>>) ELSE p.term
      q == Added([p EXCEPT !.term = t])
  IN  IF p.failed THEN EmptyTerm
      ELSE Unwind(q.stack, IF Len(q.ops) = 1 THEN "none" ELSE q.ops[Len(q.ops) - 1])

-----------------------------------------------------------------------------
(* searchstore.cpp *)

RECURSIVE expandScopes(_)
expandScopes(t) ==
  IF t.subTerms # <<>> THEN [EmptyTerm EXCEPT !.op = t.op, !.subTerms = [n \in DOMAIN t.subTerms |-> expandScopes(t.subTerms[n])]]
  ELSE IF t.property # <<>> THEN t
  ELSE FoldLeft(LAMBDA expanded, scope : Term(expanded, "or", Leaf(<<scope>>, t.comparator, t.value)), EmptyTerm, Scopes)

-----------------------------------------------------------------------------
(* The user. *)

IsOperand(piece) == piece \in DOMAIN Operand
Text(piece) == IF IsOperand(piece) THEN Operand[piece].text ELSE <<piece>>

\* Words need a space between them, which does no harm elsewhere.
TypedText == FlattenSeq([n \in DOMAIN typed |-> Text(typed[n]) \o <<Space>>])

Opened == Len(SelectSeq(typed, LAMBDA piece : piece = "(")) - Len(SelectSeq(typed, LAMBDA piece : piece = ")"))
AfterOperand == typed # <<>> /\ (IsOperand(Last(typed)) \/ Last(typed) = ")")

Type(piece) ==
  /\ Len(typed) < MaxPieces
  /\ IsOperand(piece) => \A n \in DOMAIN typed : typed[n] # piece
  /\ piece \in {"AND", "OR"} => AfterOperand
  /\ piece = ")" => AfterOperand /\ Opened > 0
  /\ typed' = Append(typed, piece)

Init == typed = <<>>

Next == \E piece \in DOMAIN Operand \cup {"AND", "OR", "(", ")"} : Type(piece)

Spec == Init /\ [][Next]_typed

-----------------------------------------------------------------------------
(* The reference: what a text asks for, as the sets of operands that hold. *)

Worlds == SUBSET ToSet(SelectSeq(typed, IsOperand))

Join(op, V, W) == IF op = "or" THEN V \cup W ELSE V \cap W

\* What the pieces from i on up to the closing parenthesis ask for, joined to
\* what the pieces before ask for, if there are any; and where they end.
RECURSIVE Asked(_, _, _)
Asked(i, before, op) ==
  IF i > Len(typed) \/ typed[i] = ")" THEN [worlds |-> before, next |-> i + 1]
  ELSE IF typed[i] \in {"AND", "OR"} THEN Asked(i + 1, before, IF typed[i] = "OR" THEN "or" ELSE "and")
  ELSE LET inner == IF typed[i] = "(" THEN Asked(i + 1, <<>>, "and")
                    ELSE [worlds |-> <<{w \in Worlds : typed[i] \in w}>>, next |-> i + 1]
       IN  Asked(inner.next,
                 IF before = <<>> THEN inner.worlds ELSE IF inner.worlds = <<>> THEN before
                 ELSE <<Join(op, before[1], inner.worlds[1])>>,
                 IF inner.worlds = <<>> THEN op ELSE "and")

\* Does a term hold for a document for which the operands w hold?
RECURSIVE Holds(_, _)
Holds(t, w) ==
  CASE t.op = "and" -> \A n \in DOMAIN t.subTerms : Holds(t.subTerms[n], w)
    [] t.op = "or"  -> \E n \in DOMAIN t.subTerms : Holds(t.subTerms[n], w)
    [] OTHER -> \E piece \in w :
                          LET o == Operand[piece]
                          IN  /\ o.value = t.value /\ o.comparator = t.comparator
                              /\ t.property = IF o.property = <<>> THEN <<o.scope>> ELSE o.property

\* A query is read as it was typed, from left to right and parentheses first:
\* whatever is joined, flattened and expanded, it holds for the same documents.
ReadsAs(t) == LET asked == Asked(1, <<>>, "and").worlds
              IN  IF asked = <<>> THEN IsEmpty(t)
                  ELSE {w \in Worlds : Holds(expandScopes(t), w)} = asked[1]

\* With two parentheses unclosed it may not: what is left at the end is appended to
\* the term just above it (queryparser.cpp:212), with the operation of the
\* innermost only, and "a (b OR (c" is read as "a OR b OR c".
ReadsWhatIsTyped == Opened <= 1 => ReadsAs(parse(TypedText))
=============================================================================
