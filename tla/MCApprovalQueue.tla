-------------------------- MODULE MCApprovalQueue --------------------------
(* Two tasks in flight: one is at a code gate, the other at its push gate. *)
EXTENDS ApprovalQueue, TLC

CONSTANTS w1, w2

MCKeys == {"code1", "push2"}
MCKindOf == ("code1" :> "code") @@ ("push2" :> "push")
MCKeysOf == (w1 :> {"code1"}) @@ (w2 :> {"push2"})
=============================================================================
