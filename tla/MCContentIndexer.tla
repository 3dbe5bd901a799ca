-------------------------- MODULE MCContentIndexer --------------------------
(***************************************************************************)
(* ContentIndexer with values for TLC.                                     *)
(***************************************************************************)
EXTENDS ContentIndexer

CONSTANTS p1, p2, p3, x1

TwoPaths    == {p1, p2}
ThreePaths  == {p1, p2, p3}
OneExcluded == {x1}
NoExcluded  == {}
NoIds       == {}
Second      == {2}
Third       == {3}
=============================================================================
