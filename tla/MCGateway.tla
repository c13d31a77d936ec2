----------------------------- MODULE MCGateway -----------------------------
(* Two models, of which only the small one fits beside the game. *)
EXTENDS Gateway, TLC

CONSTANTS big, small, r1

BigFirst == <<big, small>>
Sizes == big :> 6 @@ small :> 3
=============================================================================
