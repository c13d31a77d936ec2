------------------------------ MODULE MCLeases ------------------------------
(* Two tasks over two backends, one of which codes and reviews. *)
EXTENDS Leases, TLC

CONSTANTS t1, t2, b1, b2

OneSlot == [b \in Backends |-> 1]
=============================================================================
