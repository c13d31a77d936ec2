---------------------------- MODULE MCToolCalls ----------------------------
(* Every front end, over a note and two declared tools. *)
EXTENDS ToolCalls, TLC

CONSTANTS j1, j2

Declared == [restart |-> "change", status |-> "read"]
ThreadsAlike == Permutations({j1, j2})
=============================================================================
