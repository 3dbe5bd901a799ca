----------------------------- MODULE MCFileWatch -----------------------------
(***************************************************************************)
(* FileWatch with values for TLC: a folder with a file, a file beside it,  *)
(* and a folder not yet born.                                              *)
(***************************************************************************)
EXTENDS FileWatch

CONSTANTS dir1, dir2, file1, file2, home, outside

ThereAtFirst == [i \in {dir1, dir2, file1, file2} |->
                   CASE i = dir1  -> <<home, "a">>
                     [] i = file1 -> <<dir1, "a">>
                     [] i = file2 -> <<home, "ab">>
                     [] OTHER     -> Unborn]

\* The string of the one begins with that of the other.
PrefixNames == {<<"a", "ab">>}
=============================================================================
