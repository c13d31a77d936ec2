------------------------------ MODULE Gateway ------------------------------
(***************************************************************************)
(* The model gateway (gateway.py): requests for the model "auto", the      *)
(* reservations by which a game makes it step down, the memory watch, and  *)
(* the residency loop, over one model server.                              *)
(*                                                                         *)
(* All of it is one asyncio loop: every await is a point where another     *)
(* coroutine may go on.  A request chooses a model, makes room for it,     *)
(* asks the guard and only then is sent; it counts as in flight until its  *)
(* stream is done.  The reads of the server and the choice made from them  *)
(* are one action here, and so are the unloads of the memory watch.  A     *)
(* read that gets no answer shows nothing loaded, and an unload that fails *)
(* is passed over.                                                         *)
(***************************************************************************)
EXTENDS Residency

CONSTANTS
  Reqs \* clients, each with one request at a time

ASSUME GatewayAssumption == Preload \in BOOLEAN /\ IsFiniteSet(Reqs)

VARIABLES
  req,       \* req[r]: the request of r
  inflight,  \* Gateway.inflight
  put,       \* a reservation's handler, in step_down, one at a time
  late       \* too big models that are, or may yet be, loaded beside a reservation for a cause
             \* other than a choice made since; nothing in the program reads this

vars == <<serverVars, resVars, req, inflight, put, late>>

\* "room" while other models are unloaded, "sending" until the server answers, then
\* "open" until both the relay and the background task of the response are over;
\* open is the flag that makes done run once.
NoReq == [at |-> "none", target |-> Last(Models), resident |-> FALSE, todo |-> {}, open |-> FALSE, relay |-> "new"]
PutLeft(todo) == [at |-> IF todo = {} THEN "none" ELSE "unload", todo |-> todo]

Streams(m) == {r \in Reqs : req[r].at \in {"sending", "open"} /\ req[r].target = m /\ (req[r].at = "open" => req[r].open)}

Init ==
  /\ ka = [m \in AutoModels |-> "absent"] /\ lowMem = FALSE /\ used = 0 /\ reserved = 0
  /\ ResInit
  /\ req = [r \in Reqs |-> NoReq] /\ inflight = 0
  /\ put = [at |-> "none", todo |-> {}] /\ late = {}

TooBig == {m \in AutoModels : Need[m] > Total - Reserve - Headroom}
Late(S) == late' = IF reserved = 0 THEN {} ELSE late \cup (S \cap TooBig)
\* What requests and the residency loop have chosen, and not loaded so far.
Pending ==
  {req[r].target : r \in {s \in Reqs : req[s].at \in {"room", "sending"}}}
  \cup (IF res.at \in {"look", "let_go", "pin"} THEN {res.next} ELSE {})

-----------------------------------------------------------------------------
(* proxy *)

\* choose, and the other models that go first.
Ask(r) ==
  /\ req[r].at = "none"
  /\ \E seen \in Seen : \E m \in ChoicesNow(seen) :
       req' = [req EXCEPT ![r] = [NoReq EXCEPT !.at = "room", !.target = m, !.resident = m \in seen, !.todo = seen \ {m}]]
  /\ UNCHANGED <<serverVars, resVars, inflight, put, late>>

MakeRoom(r, m) ==
  /\ req[r].at = "room" /\ m \in req[r].todo
  /\ Unloads(m) \/ UNCHANGED ka
  /\ req' = [req EXCEPT ![r].todo = @ \ {m}]
  /\ UNCHANGED <<lowMem, used, reserved, resVars, inflight, put, late>>

Refused(r) ==
  /\ req[r].at = "room" /\ req[r].todo = {} /\ ~MayLoad(req[r].resident)
  /\ req' = [req EXCEPT ![r] = NoReq]
  /\ UNCHANGED <<serverVars, resVars, inflight, put, late>>

Send(r) ==
  /\ req[r].at = "room" /\ req[r].todo = {} /\ MayLoad(req[r].resident)
  /\ req' = [req EXCEPT ![r].at = "sending", ![r].resident = FALSE]
  /\ inflight' = inflight + 1
  /\ UNCHANGED <<serverVars, resVars, put, late>>

\* The server has loaded the model and answers.
Answered(r) ==
  /\ req[r].at = "sending"
  /\ Serves(req[r].target)
  /\ req' = [req EXCEPT ![r].at = "open", ![r].open = TRUE]
  /\ UNCHANGED <<lowMem, used, reserved, resVars, inflight, put, late>>

\* The server cannot be reached, or the client's disconnect cancels the handler, when the
\* server may have loaded the model already.
SendFails(r) ==
  /\ req[r].at = "sending"
  /\ Serves(req[r].target) \/ UNCHANGED ka
  /\ req' = [req EXCEPT ![r] = NoReq]
  /\ inflight' = inflight - 1
  /\ UNCHANGED <<lowMem, used, reserved, resVars, put, late>>

RelayStarts(r) ==
  /\ req[r].at = "open" /\ req[r].relay = "new"
  /\ req' = [req EXCEPT ![r].relay = "running"]
  /\ UNCHANGED <<serverVars, resVars, inflight, put, late>>

\* The client leaves first: a generator that never started runs no finally.
RelayNever(r) ==
  /\ req[r].at = "open" /\ req[r].relay = "new"
  /\ req' = [req EXCEPT ![r].relay = "never"]
  /\ UNCHANGED <<serverVars, resVars, inflight, put, late>>

\* Mutant: each caller takes the request off the count.
DoneTwice(r) == inflight' = inflight - 1
\* done: the first of its two callers takes the request off the count.
Done(r) == inflight' = IF req[r].open THEN inflight - 1 ELSE inflight

\* The relay's finally, at the stream's end, its error or the client's disconnect.
RelayEnds(r) ==
  /\ req[r].at = "open" /\ req[r].relay = "running"
  /\ Done(r)
  /\ req' = [req EXCEPT ![r] = [NoReq EXCEPT !.at = "open", !.relay = "over"]]
  /\ UNCHANGED <<serverVars, resVars, put, late>>

\* Mutant: only the relay takes a request off the count.
BackgroundSkipped(r) ==
  /\ req[r].at = "open" /\ req[r].relay = "over"
  /\ Done(r)
  /\ req' = [req EXCEPT ![r] = NoReq]
  /\ UNCHANGED <<serverVars, resVars, put, late>>
\* The response's background task, also while the relay of a client that is gone has its
\* finally still to run, which then finds the request done.
Background(r) ==
  /\ req[r].at = "open" /\ req[r].relay # "new"
  /\ Done(r)
  /\ req' = [req EXCEPT ![r] = NoReq]
  /\ UNCHANGED <<serverVars, resVars, put, late>>

-----------------------------------------------------------------------------
(* reservation, and the memory watch *)

\* PUT: the entry of that holder is set, also when it is there already.
Reservation ==
  /\ put.at = "none"
  /\ reserved' = Reserve
  /\ put' = [put EXCEPT !.at = "step"] /\ late' = Pending \cap TooBig
  /\ UNCHANGED <<ka, lowMem, used, resVars, req, inflight>>

\* step_down: the loaded models that are not the one that fits now.
StepDown ==
  /\ put.at = "step"
  /\ \E seen \in Seen :
       /\ Late(Loaded \ seen)
       /\ \E m \in ChoicesNow(seen) : put' = PutLeft(seen \ {m})
  /\ UNCHANGED <<serverVars, resVars, req, inflight>>

StepUnload(m) ==
  /\ put.at = "unload" /\ m \in put.todo
  /\ \/ Unloads(m) /\ UNCHANGED late
     \/ Late({m}) /\ UNCHANGED ka
  /\ put' = PutLeft(put.todo \ {m})
  /\ UNCHANGED <<lowMem, used, reserved, resVars, req, inflight>>

\* DELETE, or the reservation's time is up.
ReservationEnds ==
  /\ reserved # 0 /\ reserved' = 0 /\ late' = {}
  /\ UNCHANGED <<ka, lowMem, used, resVars, req, inflight, put>>

Watch ==
  /\ lowMem
  /\ \E done \in SUBSET Loaded : ka' = [m \in AutoModels |-> IF m \in done THEN "zero" ELSE ka[m]]
  /\ UNCHANGED <<lowMem, used, reserved, resVars, req, inflight, put, late>>

-----------------------------------------------------------------------------
(* The surroundings *)

gatewayVars == <<req, inflight, put>>

\* The server drops a model nothing runs on: at once after keep_alive 0, in time otherwise.
ServerDrops(m) ==
  /\ ka[m] \in {"timed", "zero"} /\ Streams(m) = {}
  /\ KeepAlive(m, "absent") /\ late' = late \ ({m} \ Pending)
  /\ UNCHANGED <<lowMem, used, reserved, resVars, gatewayVars>>

ServerRestarts ==
  /\ Loaded # {} /\ \A m \in AutoModels : Streams(m) = {}
  /\ ka' = [m \in AutoModels |-> "absent"] /\ late' = late \cap Pending
  /\ UNCHANGED <<lowMem, used, reserved, resVars, gatewayVars>>

MemoryChanges ==
  /\ lowMem' = ~lowMem
  /\ UNCHANGED <<ka, used, reserved, resVars, gatewayVars, late>>

\* The game starts or ends; it is the watched process and takes VRAM.
GameChanges ==
  /\ game' = ~game /\ used' = IF game THEN 0 ELSE GameUse
  /\ UNCHANGED <<ka, lowMem, reserved, res, gatewayVars, late>>

\* Reservations are kept in a file; everything else is gone, a step_down under way, too.
GatewayRestarts ==
  /\ res' = NewRes
  /\ ka' = [m \in AutoModels |-> IF ka[m] = "pinned" THEN "left" ELSE ka[m]]
  /\ req' = [r \in Reqs |-> NoReq] /\ inflight' = 0
  /\ put' = [at |-> "none", todo |-> {}] /\ Late(IF put.at = "none" THEN {} ELSE Loaded)
  /\ UNCHANGED <<lowMem, used, reserved, game>>

\* Letting go of a model, on what an earlier read showed, loads it again if it is out by now.
Residence(step) ==
  /\ step /\ UNCHANGED gatewayVars
  /\ Late(IF res.at \in {"let_go", "unpin"} /\ ka' # ka THEN {res.model} ELSE {})
Serve(r) ==
  \/ (\E m \in AutoModels : MakeRoom(r, m)) \/ Refused(r) \/ Send(r) \/ Answered(r) \/ SendFails(r)
  \/ RelayStarts(r) \/ RelayNever(r) \/ RelayEnds(r) \/ Background(r)
Stepping == StepDown \/ \E m \in AutoModels : StepUnload(m)
Environment ==
  \/ (\E m \in AutoModels : ServerDrops(m)) \/ ServerRestarts \/ MemoryChanges \/ GameChanges \/ GatewayRestarts
  \/ ReservationEnds

Next ==
  \/ \E r \in Reqs : Ask(r) \/ Serve(r)
  \/ Residence(Tick \/ TickFails) \/ Reservation \/ Stepping \/ Watch \/ Environment
Spec == Init /\ [][Next]_vars

\* Coroutines go on, streams end (a read of one has a timeout, the answer a length), the
\* residency loop polls, not every call of it fails, and the gateway's process is not
\* restarted for ever.
Fairness ==
  /\ \A r \in Reqs : WF_vars(Serve(r))
  /\ WF_vars(~Calling /\ Residence(Tick)) /\ SF_vars(Calling /\ Residence(Tick))
  /\ <>[][~GatewayRestarts]_vars
FairSpec == Spec /\ Fairness

-----------------------------------------------------------------------------
(* Correctness *)

\* inflight, by which clients tell a busy server from a free one, counts each request
\* once from its sending until the first of the relay and the background task is done
\* with it, whichever comes first or never starts (proxy, done).
InflightExact == inflight = Cardinality({r \in Reqs : req[r].at = "sending" \/ req[r].open})

\* No stream stays counted.
StreamsEnd == \A r \in Reqs : req[r].open ~> ~req[r].open

\* A model is pinned while a game runs and memory lasts, again whatever unpinned or
\* unloaded it, and none stays pinned when the game has ended, through switches of the
\* model that fits, unloads by others, a restarted server and failed calls, but for a pin
\* made in another life of the gateway or by a call whose answer was lost.
PinFollowsGame ==
  /\ game ~> (~game \/ lowMem \/ \E m \in AutoModels : Pinned(m))
  /\ ~game ~> (game \/ \A m \in AutoModels : ka[m] # "pinned")

\* When the handler of a reservation is done, no model that does not fit beside it is left
\* in VRAM, nor put there by what is chosen from then on: but for a last resort, a model on
\* its way out, and those of `late`, which a choice made before the reservation loads, an
\* unpinning that crosses the unload brings back, or a failed call or a restart leaves.
ReservationHonoured ==
  reserved # 0 /\ put.at = "none" =>
    \A m \in Loaded \cap TooBig : m \in LastResort \cup late \/ ka[m] = "zero"
=============================================================================
