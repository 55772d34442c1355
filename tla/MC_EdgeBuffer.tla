---------------------------- MODULE MC_EdgeBuffer ----------------------------
(***************************************************************************)
(* EdgeBuffer for TLC.  More messages than rows, so that the table fills   *)
(* and evicts; a batch smaller than the table, so that a replay sleeps     *)
(* between batches; two replays, so that a connection flaps during one.    *)
(***************************************************************************)
EXTENDS EdgeBuffer

Messages    == 5
Table       == 3
TwoRows     == 2
OneRow      == 1
TwoReplays  == 2
\* CPython, and either outcome at each connection.
NoLoop      == {FALSE}
Either      == BOOLEAN
==============================================================================
