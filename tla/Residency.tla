----------------------------- MODULE Residency -----------------------------
(***************************************************************************)
(* The residency loop of the gateway (residency.py): while a game runs the *)
(* model that fits is loaded and pinned, and afterwards it is let go.      *)
(*                                                                         *)
(* A tick reads the server, decides, and calls it; each call is an action, *)
(* for requests, the memory watch and reservations act in between.  Which  *)
(* model this process has pinned is known to it alone: `ours`.  The state  *)
(* it publishes (idle, pinned, deferred, backend_down) is left out: each   *)
(* end of a tick sets it, and nothing reads it but the owner.              *)
(***************************************************************************)
EXTENDS ModelServer

CONSTANTS
  Preload \* preload: load the model for the game, not only pin it

VARIABLES
  game,  \* a watched process runs
  res    \* the state machine: at inside a tick, and what it remembers

resVars == <<game, res>>

NewRes == [at |-> "sleep", model |-> Last(Models), next |-> Last(Models), ours |-> FALSE]
ResInit ==
  /\ game = FALSE
  /\ res = NewRes

Goes(at) == res' = [res EXCEPT !.at = at]
Sleeps(ours) == res' = [res EXCEPT !.at = "sleep", !.next = res.model, !.ours = ours]

-----------------------------------------------------------------------------
\* tick: which processes run.
Look ==
  /\ res.at = "sleep"
  /\ IF game THEN Goes("hold") ELSE IF res.ours THEN Goes("release") ELSE Sleeps(FALSE)
  /\ UNCHANGED <<serverVars, game>>

\* _follow_auto: the model that fits now; the one pinned before is let go first.  A
\* residency of one fixed model does not follow, and is not modelled.
Follow ==
  /\ res.at = "hold"
  /\ \E seen \in Seen : \E m \in ChoicesNow(seen) :
       IF m # res.model /\ res.ours /\ res.model \in Loaded
       THEN res' = [res EXCEPT !.at = "let_go", !.next = m]
       ELSE res' = [res EXCEPT !.at = "look", !.model = m, !.next = m, !.ours = @ /\ m = res.model]
  /\ UNCHANGED <<serverVars, game>>

LetGo ==
  /\ res.at = "let_go"
  /\ KeepAlive(res.model, "timed")
  /\ res' = [res EXCEPT !.at = "look", !.model = res.next, !.ours = FALSE]
  /\ UNCHANGED <<lowMem, used, reserved, game>>

\* _hold.  A pin that is found there is taken for its own.
FoundPinned ==
  /\ res.at = "look" /\ Pinned(res.model)
  /\ KeepAlive(res.model, "pinned")
  /\ Sleeps(TRUE)
  /\ UNCHANGED <<lowMem, used, reserved, game>>
NotPreloaded ==
  /\ res.at = "look" /\ ka[res.model] = "absent" /\ ~Preload
  /\ Sleeps(res.ours)
  /\ UNCHANGED <<serverVars, game>>
Deferred ==
  /\ res.at = "look" /\ ka[res.model] = "absent" /\ Preload /\ ~MayLoad(FALSE)
  /\ Sleeps(res.ours)
  /\ UNCHANGED <<serverVars, game>>
\* Mutant: a model that is loaded is not pinned.
WillPinAbsent ==
  /\ res.at = "look" /\ ka[res.model] = "absent" /\ Preload /\ MayLoad(FALSE)
  /\ Goes("pin")
  /\ UNCHANGED <<serverVars, game>>
WillPin ==
  /\ res.at = "look"
  /\ \/ ka[res.model] \in {"timed", "zero"}
     \/ ka[res.model] = "absent" /\ Preload /\ MayLoad(FALSE)
  /\ Goes("pin")
  /\ UNCHANGED <<serverVars, game>>
Pin ==
  /\ res.at = "pin"
  /\ KeepAlive(res.model, "pinned")
  /\ Sleeps(TRUE)
  /\ UNCHANGED <<lowMem, used, reserved, game>>

\* _release.
WillRelease ==
  /\ res.at = "release"
  /\ IF res.model \in Loaded THEN Goes("unpin") ELSE Sleeps(FALSE)
  /\ UNCHANGED <<serverVars, game>>
Unpin ==
  /\ res.at = "unpin"
  /\ KeepAlive(res.model, "timed")
  /\ Sleeps(FALSE)
  /\ UNCHANGED <<lowMem, used, reserved, game>>

\* A call that raises ends the tick; the server may have acted on it.  (A read that
\* raises is a tick that comes later.)
Calling == res.at \in {"let_go", "pin", "unpin"}
CallFails == Calling /\ Sleeps(res.ours) /\ UNCHANGED <<serverVars, game>>
AnswerLost ==
  /\ Calling
  /\ KeepAlive(res.model, IF res.at = "pin" THEN "left" ELSE "timed")
  /\ Sleeps(res.ours)
  /\ UNCHANGED <<lowMem, used, reserved, game>>
TickFails == CallFails \/ AnswerLost

Tick ==
  \/ Look \/ Follow \/ LetGo \/ FoundPinned \/ NotPreloaded \/ Deferred \/ WillPin \/ Pin
  \/ WillRelease \/ Unpin
=============================================================================
