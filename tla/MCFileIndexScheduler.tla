------------------------ MODULE MCFileIndexScheduler ------------------------
(***************************************************************************)
(* FileIndexScheduler with values for TLC: a file in a folder, two pending *)
(* timers, two documents for content indexing.                             *)
(***************************************************************************)
EXTENDS FileIndexScheduler

CONSTANTS f1

MCFiles   == {f1}
MCFolders == {{f1}}
=============================================================================
