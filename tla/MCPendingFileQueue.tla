------------------------- MODULE MCPendingFileQueue --------------------------
(***************************************************************************)
(* PendingFileQueue with values for TLC: one folder and a file in it. The  *)
(* timeouts keep the order of the program's (5 s, 60 s, 120 s) on a        *)
(* smaller scale, so that a delay is doubled and then limited.             *)
(***************************************************************************)
EXTENDS PendingFileQueue

CONSTANTS folder, file

OneFile   == {file}
OneFolder == {folder}
BelowIt   == [d \in OneFolder |-> {folder, file}]
=============================================================================
