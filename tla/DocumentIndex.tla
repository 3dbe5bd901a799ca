---------------------------- MODULE DocumentIndex ----------------------------
(***************************************************************************)
(* What the database of baloo promises to a search: the terms and the      *)
(* modification times under which it finds a document are those of the     *)
(* last committed transaction, all of them and no others. A transaction    *)
(* works on a draft that nobody sees before it is committed.               *)
(***************************************************************************)
CONSTANTS Ids, Terms, Times

VARIABLES
  found,   \* what a search finds a document by
  draft    \* what the open transaction made of it

vars == <<found, draft>>

Facets == [terms : SUBSET Terms, mtimes : SUBSET Times]
Nothing == [terms |-> {}, mtimes |-> {}]

Init == /\ found = [i \in Ids |-> Nothing]
        /\ draft = found

Write   == draft' \in [Ids -> Facets] /\ UNCHANGED found
Commit  == found' = draft /\ UNCHANGED draft
Discard == draft' = found /\ UNCHANGED found

Next == Write \/ Commit \/ Discard

Spec == Init /\ [][Next]_vars
=============================================================================
