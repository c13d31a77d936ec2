--------------------------- MODULE GatewayProofs ---------------------------
(***************************************************************************)
(* The gateway's count of requests in flight and what a reservation gets,  *)
(* for every finite set of clients, any models and sizes, and whatever the *)
(* server and the loops do.                                                *)
(***************************************************************************)
EXTENDS Gateway, FiniteSetTheorems, WellFoundedInduction, TLAPS

Counts(q) == q.at = "sending" \/ q.open
Counted == {r \in Reqs : Counts(req[r])}

\* A request's fields, as far as the count depends on them: the flag is set while the
\* response is open and not before, so that a request never counts for both.
Shape(q) ==
  /\ {"at", "open"} \subseteq DOMAIN q
  /\ q.open \in BOOLEAN /\ (q.open => q.at = "open")

IInv ==
  /\ DOMAIN req = Reqs /\ req = [r \in Reqs |-> req[r]]
  /\ \A r \in Reqs : Shape(req[r])
  /\ inflight = Cardinality(Counted)

Ind(p) == IF p THEN 1 ELSE 0

\* Two finite sets that agree but on r differ in size by r.
LEMMA CountOne ==
  ASSUME NEW r, NEW S \in SUBSET Reqs, NEW R \in SUBSET Reqs, \A q \in Reqs \ {r} : q \in S <=> q \in R
  PROVE  /\ Cardinality(S) \in Nat /\ Cardinality(R) \in Nat
         /\ Cardinality(R) + Ind(r \in S) = Cardinality(S) + Ind(r \in R)
PROOF
  <1>1. IsFiniteSet(S) /\ IsFiniteSet(R)
    BY GatewayAssumption, FS_Subset
  <1>2. S \ {r} = R \ {r}
    OBVIOUS
  <1>3. Cardinality(S \ {r}) = Cardinality(S) - Ind(r \in S)
    BY <1>1, FS_RemoveElement, FS_CardinalityType DEF Ind
  <1>4. Cardinality(R \ {r}) = Cardinality(R) - Ind(r \in R)
    BY <1>1, FS_RemoveElement, FS_CardinalityType DEF Ind
  <1>5. Cardinality(S) \in Nat /\ Cardinality(R) \in Nat
    BY <1>1, FS_CardinalityType
  <1>6. Ind(r \in S) \in {0, 1} /\ Ind(r \in R) \in {0, 1}
    BY DEF Ind
  <1>7. Cardinality(S) - Ind(r \in S) = Cardinality(R) - Ind(r \in R)
    BY <1>2, <1>3, <1>4
  <1> QED BY <1>5, <1>6, <1>7

LEMMA NoReqShape == Shape(NoReq) /\ ~Counts(NoReq)
PROOF
  BY DEF Shape, NoReq, Counts

LEMMA InitCounts == Init => IInv
PROOF
  <1> SUFFICES ASSUME Init PROVE IInv
    OBVIOUS
  <1>1. req = [r \in Reqs |-> NoReq] /\ inflight = 0
    BY DEF Init
  <1>2. Counted = {}
    BY <1>1, NoReqShape DEF Counted
  <1> QED BY <1>1, <1>2, NoReqShape, FS_EmptySet DEF IInv

\* A step that writes one request keeps the invariant, if the count goes up by what the
\* request counts for after the step, and down by what it counted for before.
LEMMA OneWritten ==
  ASSUME IInv, NEW r \in Reqs, NEW q, Shape(q), req' = [req EXCEPT ![r] = q],
         inflight' + Ind(Counts(req[r])) = inflight + Ind(Counts(q)),
         inflight' \in Int
  PROVE  IInv'
PROOF
  <1>1. /\ DOMAIN req' = Reqs /\ req' = [u \in Reqs |-> req'[u]]
        /\ req'[r] = q /\ \A u \in Reqs \ {r} : req'[u] = req[u]
    BY DEF IInv
  <1>2. \A u \in Reqs : Shape(req'[u])
    BY <1>1 DEF IInv
  <1>3. /\ Counted \in SUBSET Reqs /\ Counted' \in SUBSET Reqs
        /\ \A u \in Reqs \ {r} : u \in Counted <=> u \in Counted'
    BY <1>1 DEF Counted, Counts
  <1>4. /\ Cardinality(Counted) \in Nat /\ Cardinality(Counted') \in Nat
        /\ Cardinality(Counted') + Ind(r \in Counted) = Cardinality(Counted) + Ind(r \in Counted')
    BY <1>3, CountOne
  <1>5. /\ Ind(r \in Counted) = Ind(Counts(req[r]))
        /\ Ind(r \in Counted') = Ind(Counts(q))
    BY <1>1 DEF Counted, Ind, Counts
  <1>6. inflight' = Cardinality(Counted')
    <2>1. inflight = Cardinality(Counted)
      BY DEF IInv
    <2>2. Ind(Counts(req[r])) \in {0, 1} /\ Ind(Counts(q)) \in {0, 1}
      BY DEF Ind
    <2> QED BY <1>4, <1>5, <2>1, <2>2
  <1> QED BY <1>1, <1>2, <1>6 DEF IInv

\* The three ways in which a step changes the count.
LEMMA Same ==
  ASSUME IInv, NEW r \in Reqs, NEW q, Shape(q), req' = [req EXCEPT ![r] = q],
         inflight' = inflight, inflight \in Nat, Counts(q) <=> Counts(req[r])
  PROVE  IInv'
PROOF
  <1>1. inflight' + Ind(Counts(req[r])) = inflight + Ind(Counts(q))
    <2>1. Ind(Counts(req[r])) = Ind(Counts(q))
      BY DEF Ind
    <2>2. Ind(Counts(q)) \in {0, 1}
      BY DEF Ind
    <2> QED BY <2>1, <2>2
  <1>2. inflight' \in Int
    OBVIOUS
  <1> QED BY <1>1, <1>2, OneWritten
LEMMA Up ==
  ASSUME IInv, NEW r \in Reqs, NEW q, Shape(q), req' = [req EXCEPT ![r] = q],
         inflight' = inflight + 1, inflight \in Nat, Counts(q), ~Counts(req[r])
  PROVE  IInv'
PROOF
  <1>1. inflight' + Ind(Counts(req[r])) = inflight + Ind(Counts(q)) /\ inflight' \in Int
    BY DEF Ind
  <1> QED BY <1>1, OneWritten
LEMMA Down ==
  ASSUME IInv, NEW r \in Reqs, NEW q, Shape(q), req' = [req EXCEPT ![r] = q],
         inflight' = inflight - 1, inflight \in Nat, ~Counts(q), Counts(req[r])
  PROVE  IInv'
PROOF
  <1>1. inflight' + Ind(Counts(req[r])) = inflight + Ind(Counts(q)) /\ inflight' \in Int
    BY DEF Ind
  <1> QED BY <1>1, OneWritten

LEMMA Unwritten == IInv /\ UNCHANGED <<req, inflight>> => IInv'
PROOF
  BY DEF IInv, Counted, Counts

\* inflight is a number.
LEMMA CountType == IInv => inflight \in Nat
PROOF
  BY GatewayAssumption, FS_Subset, FS_CardinalityType DEF IInv, Counted

\* Every step of a request keeps the invariant.
LEMMA RequestKeeps ==
  ASSUME IInv, NEW r \in Reqs, Ask(r) \/ Serve(r)
  PROVE  IInv'
PROOF
  <1> DEFINE q == req[r]
  <1>1. inflight \in Nat /\ Shape(q)
    BY CountType DEF IInv
  <1>2. q.open \in BOOLEAN /\ (q.open => q.at = "open")
    BY <1>1 DEF Shape
  <1>3. CASE Ask(r)
    <2>1. PICK seen \in Seen, m \in UNION {ChoicesNow(s) : s \in Seen} :
            req' = [req EXCEPT ![r] = [NoReq EXCEPT !.at = "room", !.target = m, !.resident = m \in seen, !.todo = seen \ {m}]]
      BY <1>3 DEF Ask
    <2> DEFINE n == [NoReq EXCEPT !.at = "room", !.target = m, !.resident = m \in seen, !.todo = seen \ {m}]
    <2>2. Shape(n) /\ ~Counts(n)
      BY NoReqShape DEF Shape, Counts
    <2>3. ~Counts(q) /\ inflight' = inflight
      BY <1>2, <1>3 DEF Ask, Counts
    <2>4. req' = [req EXCEPT ![r] = n]
      BY <2>1
    <2> QED BY <1>1, <2>2, <2>3, <2>4, Same
  <1>4. ASSUME NEW m \in AutoModels, MakeRoom(r, m) PROVE IInv'
    <2> DEFINE n == [q EXCEPT !.todo = @ \ {m}]
    <2>1. req' = [req EXCEPT ![r] = n] /\ inflight' = inflight
      BY <1>4 DEF MakeRoom
    <2>2. Shape(n) /\ (Counts(n) <=> Counts(q))
      BY <1>1 DEF Shape, Counts
    <2> QED BY <1>1, <2>1, <2>2, Same
  <1>5. CASE Refused(r)
    <2>1. req' = [req EXCEPT ![r] = NoReq] /\ inflight' = inflight
      BY <1>5 DEF Refused
    <2>2. ~Counts(q)
      BY <1>2, <1>5 DEF Refused, Counts
    <2> QED BY <1>1, <2>1, <2>2, NoReqShape, Same
  <1>6. CASE Send(r)
    <2> DEFINE n == [q EXCEPT !.at = "sending", !.resident = FALSE]
    <2>1. req' = [req EXCEPT ![r] = n] /\ inflight' = inflight + 1
      BY <1>6 DEF Send
    <2>2. ~Counts(q)
      BY <1>2, <1>6 DEF Send, Counts
    <2>3. ~q.open
      BY <1>2, <1>6 DEF Send
    <2>4. Shape(n) /\ Counts(n)
      BY <1>1, <2>3 DEF Shape, Counts
    <2> QED BY <1>1, <2>1, <2>2, <2>4, Up
  <1>7. CASE Answered(r)
    <2> DEFINE n == [q EXCEPT !.at = "open", !.open = TRUE]
    <2>1. req' = [req EXCEPT ![r] = n] /\ inflight' = inflight
      BY <1>7 DEF Answered
    <2>2. Counts(q)
      BY <1>7 DEF Answered, Counts
    <2>3. Shape(n) /\ Counts(n)
      BY <1>1 DEF Shape, Counts
    <2> QED BY <1>1, <2>1, <2>2, <2>3, Same
  <1>8. CASE SendFails(r)
    <2>1. req' = [req EXCEPT ![r] = NoReq] /\ inflight' = inflight - 1
      BY <1>8 DEF SendFails
    <2>2. Counts(q)
      BY <1>8 DEF SendFails, Counts
    <2> QED BY <1>1, <2>1, <2>2, NoReqShape, Down
  <1>9. CASE RelayStarts(r) \/ RelayNever(r)
    <2>1. PICK relay \in {"running", "never"} : req' = [req EXCEPT ![r].relay = relay] /\ inflight' = inflight
      BY <1>9 DEF RelayStarts, RelayNever
    <2> DEFINE n == [q EXCEPT !.relay = relay]
    <2>2. req' = [req EXCEPT ![r] = n]
      BY <2>1
    <2>3. Shape(n) /\ (Counts(n) <=> Counts(q))
      BY <1>1 DEF Shape, Counts
    <2> QED BY <1>1, <2>1, <2>2, <2>3, Same
  <1>10. CASE RelayEnds(r)
    <2> DEFINE n == [NoReq EXCEPT !.at = "open", !.relay = "over"]
    <2>1. req' = [req EXCEPT ![r] = n] /\ inflight' = IF q.open THEN inflight - 1 ELSE inflight
      BY <1>10 DEF RelayEnds, Done
    <2>2. Counts(q) <=> q.open
      BY <1>10 DEF RelayEnds, Counts
    <2>3. Shape(n) /\ ~Counts(n)
      BY NoReqShape DEF Shape, Counts
    <2>4. CASE q.open
      BY <1>1, <2>1, <2>2, <2>3, <2>4, Down
    <2>5. CASE ~q.open
      BY <1>1, <2>1, <2>2, <2>3, <2>5, Same
    <2> QED BY <2>4, <2>5
  <1>11. CASE Background(r)
    <2>1. req' = [req EXCEPT ![r] = NoReq] /\ inflight' = IF q.open THEN inflight - 1 ELSE inflight
      BY <1>11 DEF Background, Done
    <2>2. Counts(q) <=> q.open
      BY <1>11 DEF Background, Counts
    <2>3. CASE q.open
      BY <1>1, <2>1, <2>2, <2>3, NoReqShape, Down
    <2>4. CASE ~q.open
      BY <1>1, <2>1, <2>2, <2>4, NoReqShape, Same
    <2> QED BY <2>3, <2>4
  <1> QED BY <1>3, <1>4, <1>5, <1>6, <1>7, <1>8, <1>9, <1>10, <1>11 DEF Serve

\* So does every other step: only a restart of the gateway writes requests.
LEMMA StepCounts == IInv /\ [Next]_vars => IInv'
PROOF
  <1> SUFFICES ASSUME IInv, [Next]_vars PROVE IInv'
    OBVIOUS
  <1>1. CASE \E r \in Reqs : Ask(r) \/ Serve(r)
    BY <1>1, RequestKeeps
  <1>2. CASE Residence(Tick \/ TickFails) \/ Reservation \/ Stepping \/ Watch
    <2>1. UNCHANGED <<req, inflight>>
      BY <1>2 DEF Residence, Reservation, Stepping, StepDown, StepUnload, Watch, gatewayVars
    <2> QED BY <2>1, Unwritten
  <1>3. CASE Environment
    <2>1. CASE GatewayRestarts
      <3>1. req' = [r \in Reqs |-> NoReq] /\ inflight' = 0
        BY <2>1 DEF GatewayRestarts
      <3>2. Counted' = {}
        BY <3>1, NoReqShape DEF Counted
      <3> QED BY <3>1, <3>2, NoReqShape, FS_EmptySet DEF IInv
    <2>2. CASE ~GatewayRestarts
      <3>1. UNCHANGED <<req, inflight>>
        BY <1>3, <2>2 DEF Environment, ServerDrops, ServerRestarts, MemoryChanges, GameChanges,
             ReservationEnds, gatewayVars
      <3> QED BY <3>1, Unwritten
    <2> QED BY <2>1, <2>2
  <1>4. CASE UNCHANGED vars
    BY <1>4, Unwritten DEF vars
  <1> QED BY <1>1, <1>2, <1>3, <1>4 DEF Next

\* The count of requests in flight is exact, for any number of clients, whichever of the
\* relay and the background task ends first or never starts (proxy, done).
THEOREM CountIsExact == Spec => []InflightExact
PROOF
  <1>1. IInv => InflightExact
    BY DEF IInv, InflightExact, Counted, Counts
  <1> QED BY <1>1, InitCounts, StepCounts, PTL DEF Spec
-----------------------------------------------------------------------------
(* Reservations *)

ReqHas(q) == {"at", "target"} \subseteq DOMAIN q
Shapes ==
  /\ ka = [m \in AutoModels |-> ka[m]] /\ reserved \in {0, Reserve}
  /\ req = [r \in Reqs |-> req[r]] /\ \A r \in Reqs : ReqHas(req[r])
  /\ {"at", "model", "next", "ours"} \subseteq DOMAIN res
  /\ res.at \in {"look", "pin"} => res.model = res.next
  /\ {"at", "todo"} \subseteq DOMAIN put

\* A model that is too big has gone or is going, or is excused, or step_down is still to
\* unload it; and none that is about to be loaded is not excused.
Gone(m) == ka[m] \in {"absent", "zero"}
Excused(m) == m \in LastResort \cup late
Handled(m) == put.at = "step" \/ (put.at = "unload" /\ m \in put.todo)
HInv ==
  /\ Shapes
  /\ reserved # 0 => \A m \in TooBig : /\ m \in Pending => Excused(m)
                                       /\ Gone(m) \/ Excused(m) \/ Handled(m)

\* A set of numbers has a least one.
LEMMA LeastNumber ==
  ASSUME NEW S \in SUBSET Nat, S # {}
  PROVE  \E n \in S : \A m \in S : n <= m
PROOF
  <1> DEFINE less == OpToRel(<, Nat)
  <1>1. PICK n \in S : \A m \in S : ~(<<m, n>> \in less)
    BY NatLessThanWellFounded, WFMin
  <1>2. less = {p \in Nat \X Nat : p[1] < p[2]}
    BY Zenon DEF OpToRel
  <1> HIDE DEF less
  <1>3. ASSUME NEW m \in S PROVE n <= m
    <2>1. <<m, n>> \in Nat \X Nat /\ <<m, n>>[1] = m /\ <<m, n>>[2] = n
      OBVIOUS
    <2> QED BY <1>1, <1>2, <2>1
  <1> QED BY <1>3

\* While something is reserved, what is chosen fits beside it or is a last resort.
LEMMA ChosenFits ==
  ASSUME reserved # 0, reserved \in {0, Reserve}, NEW seen, NEW m \in ChoicesNow(seen), m \in TooBig
  PROVE  m \in LastResort
PROOF
  <1> DEFINE candidates == Candidates(Installed)
             fitting == {c \in candidates : Fits(c, seen)}
             places == Places(fitting)
  <1>1. \A c \in AutoModels : Need[c] \in Int
    BY ServerAssumption DEF AutoModels
  <1>2. Total - Reserve - Headroom \in Int /\ reserved = Reserve
    BY ServerAssumption
  <1>3. m \in AutoModels /\ Need[m] > Total - Reserve - Headroom
    BY DEF TooBig
  <1>4. ~Fits(m, seen)
    <2> SUFFICES ASSUME Need[m] <= Total - Reserve - Headroom PROVE FALSE
      BY <1>2 DEF Fits
    <2> QED BY <1>1, <1>2, <1>3
  <1>5. ASSUME m = Choice(seen, candidates) PROVE m = Smallest(candidates)
    <2>1. CASE fitting = {}
      BY <1>5, <2>1 DEF Choice
    <2>2. CASE fitting # {}
      <3>1. m = Models[Min(places)]
        BY <1>5, <2>2 DEF Choice
      <3>2. candidates \subseteq AutoModels
        BY ServerAssumption DEF Candidates, AutoModels
      <3>3. places \in SUBSET Nat /\ places # {}
        <4>1. PICK c \in fitting : c \in AutoModels
          BY <2>2, <3>2
        <4>2. DOMAIN Models \subseteq Nat
          BY ServerAssumption
        <4>3. PICK i \in DOMAIN Models : Models[i] = c
          BY <4>1 DEF AutoModels, ToSet
        <4> HIDE DEF fitting
        <4> QED BY <4>1, <4>2, <4>3 DEF Places
      <3>4. Min(places) \in places
        <4> HIDE DEF places
        <4>1. \E x \in places : \A y \in places : x <= y
          BY <3>3, LeastNumber
        <4> QED BY <4>1 DEF Min
      <3>5. m \in fitting
        <4> HIDE DEF fitting
        <4> QED BY <3>1, <3>4 DEF Places
      <3> QED BY <1>4, <3>5
    <2> QED BY <2>1, <2>2
  <1> QED BY <1>4, <1>5 DEF ChoicesNow, LastResort

LEMMA ChosenExcused ==
  ASSUME Shapes, NEW m \in UNION {ChoicesNow(seen) : seen \in Seen}, reserved # 0, m \in TooBig
  PROVE  m \in LastResort
PROOF
  <1>1. PICK seen \in Seen : m \in ChoicesNow(seen)
    OBVIOUS
  <1> QED BY <1>1, ChosenFits DEF Shapes

\* A step that keeps what is reserved keeps the invariant when it chooses so, loads what it
\* has chosen, and excuses what it leaves in VRAM.
LEMMA Keeps ==
  ASSUME HInv, Shapes', UNCHANGED reserved,
         reserved # 0 =>
           \A m \in TooBig :
             /\ m \in Pending' => m \in Pending \cup LastResort
             /\ m \in late => m \in late' \/ (Gone(m)' /\ m \notin Pending')
             /\ Gone(m) => Gone(m)' \/ Excused(m)'
             /\ Handled(m) => Handled(m)' \/ Gone(m)' \/ Excused(m)'
  PROVE  HInv'
PROOF
  <1> SUFFICES ASSUME reserved # 0, NEW m \in TooBig
               PROVE  /\ m \in Pending' => Excused(m)'
                      /\ Gone(m)' \/ Excused(m)' \/ Handled(m)'
    BY DEF HInv, TooBig
  <1>1. /\ m \in Pending => Excused(m)
        /\ Gone(m) \/ Excused(m) \/ Handled(m)
    BY DEF HInv
  <1> QED BY <1>1 DEF Excused

LEMMA Written ==
  ASSUME Shapes, NEW m
  PROVE  /\ \A v : KeepAlive(m, v) => /\ ka' = [x \in AutoModels |-> ka'[x]]
                                      /\ \A x \in AutoModels : ka'[x] = IF x = m THEN v ELSE ka[x]
         /\ Unloads(m) => /\ ka' = [x \in AutoModels |-> ka'[x]]
                          /\ \A x \in AutoModels : ka'[x] = IF x = m /\ ka[x] # "absent" THEN "zero" ELSE ka[x]
PROOF
  BY DEF Shapes, KeepAlive, Unloads

\* The steps of a request.
LEMMA ReqHonours ==
  ASSUME HInv, NEW r \in Reqs, Ask(r) \/ Serve(r)
  PROVE  HInv'
PROOF
  <1> DEFINE q == req[r]
  <1>1. Shapes /\ ReqHas(q) /\ ReqHas(NoReq) /\ NoReq.at = "none"
    BY DEF HInv, Shapes, ReqHas, NoReq
  \* One that writes nothing but the request, and chooses nothing new.
  <1>2. ASSUME NEW n, ReqHas(n), req' = [req EXCEPT ![r] = n], UNCHANGED <<reserved, res, put, late>>,
               n.at \in {"room", "sending"} =>
                 (q.at \in {"room", "sending"} /\ n.target = q.target) \/ (n.target \in TooBig /\ reserved # 0 => n.target \in LastResort),
               ka' = [x \in AutoModels |-> ka'[x]],
               reserved # 0 => \A x \in TooBig : Gone(x) => Gone(x)' \/ Excused(x)
        PROVE  HInv'
    <2>1. /\ req' = [u \in Reqs |-> req'[u]] /\ req'[r] = n /\ \A u \in Reqs \ {r} : req'[u] = req[u]
      BY <1>1, <1>2 DEF Shapes
    <2>2. Shapes'
      BY <1>1, <1>2, <2>1 DEF Shapes
    <2>3. ASSUME reserved # 0, NEW m \in TooBig
          PROVE  /\ m \in Pending' => m \in Pending \cup LastResort
                 /\ m \in late => m \in late' \/ (Gone(m)' /\ m \notin Pending')
                 /\ Gone(m) => Gone(m)' \/ Excused(m)'
                 /\ Handled(m) => Handled(m)' \/ Gone(m)' \/ Excused(m)'
      <3>1. m \in Pending' => m \in Pending \cup LastResort
        BY <1>2, <2>1, <2>3 DEF Pending
      <3>2. (Handled(m)' <=> Handled(m)) /\ late' = late /\ (Excused(m)' <=> Excused(m))
        BY <1>2 DEF Handled, Excused
      <3> QED BY <1>2, <2>3, <3>1, <3>2
    <2> QED BY <1>2, <2>2, <2>3, Keeps
  <1>3. \A n : UNCHANGED ka => ka' = [x \in AutoModels |-> ka'[x]] /\ \A x \in TooBig : Gone(x) => Gone(x)' \/ Excused(x)
    BY <1>1 DEF Shapes, Gone
  <1>4. ASSUME Serves(q.target), q.at = "sending"
        PROVE  ka' = [x \in AutoModels |-> ka'[x]] /\ (reserved # 0 => \A x \in TooBig : Gone(x) => Gone(x)' \/ Excused(x))
    <2>1. KeepAlive(q.target, "timed")
      BY <1>4 DEF Serves, KeepAlive
    <2>2. /\ ka' = [x \in AutoModels |-> ka'[x]]
          /\ \A x \in AutoModels : ka'[x] = IF x = q.target THEN "timed" ELSE ka[x]
      BY <1>1, <2>1, Written
    <2>3. q.target \in Pending
      BY <1>4 DEF Pending
    <2> QED BY <2>2, <2>3 DEF HInv, Gone, TooBig
  <1>5. CASE Ask(r)
    <2>1. PICK seen \in Seen, m \in UNION {ChoicesNow(s) : s \in Seen} :
            req' = [req EXCEPT ![r] = [NoReq EXCEPT !.at = "room", !.target = m, !.resident = m \in seen, !.todo = seen \ {m}]]
      BY <1>5 DEF Ask
    <2> DEFINE n == [NoReq EXCEPT !.at = "room", !.target = m, !.resident = m \in seen, !.todo = seen \ {m}]
    <2>2. ReqHas(n) /\ n.target = m
      BY <1>1 DEF ReqHas
    <2>3. UNCHANGED <<ka, reserved, res, put, late>>
      BY <1>5 DEF Ask, serverVars, resVars
    <2>4. m \in TooBig /\ reserved # 0 => m \in LastResort
      BY <1>1, ChosenExcused
    <2> HIDE DEF n
    <2> QED BY <1>2, <1>3, <2>1, <2>2, <2>3, <2>4 DEF n
  <1>6. ASSUME NEW m \in AutoModels, MakeRoom(r, m) PROVE HInv'
    <2> DEFINE n == [q EXCEPT !.todo = @ \ {m}]
    <2>1. req' = [req EXCEPT ![r] = n] /\ UNCHANGED <<reserved, res, put, late>> /\ (Unloads(m) \/ UNCHANGED ka)
      BY <1>6 DEF MakeRoom, resVars
    <2>2. ReqHas(n) /\ n.at = q.at /\ n.target = q.target
      BY <1>1 DEF ReqHas
    <2>3. ka' = [x \in AutoModels |-> ka'[x]] /\ \A x \in TooBig : Gone(x) => Gone(x)' \/ Excused(x)
      <3>1. CASE Unloads(m)
        BY <1>1, <3>1, Written DEF Gone, TooBig
      <3> QED BY <1>3, <2>1, <3>1
    <2> HIDE DEF n
    <2> QED BY <1>2, <2>1, <2>2, <2>3
  <1>7. CASE Refused(r) \/ Background(r)
    <2>1. req' = [req EXCEPT ![r] = NoReq] /\ UNCHANGED <<ka, reserved, res, put, late>>
      BY <1>7 DEF Refused, Background, serverVars, resVars
    <2> QED BY <1>1, <1>2, <1>3, <2>1
  <1>8. CASE Send(r)
    <2> DEFINE n == [q EXCEPT !.at = "sending", !.resident = FALSE]
    <2>1. req' = [req EXCEPT ![r] = n] /\ UNCHANGED <<ka, reserved, res, put, late>> /\ q.at = "room"
      BY <1>8 DEF Send, serverVars, resVars
    <2>2. ReqHas(n) /\ n.target = q.target
      BY <1>1 DEF ReqHas
    <2> HIDE DEF n
    <2> QED BY <1>2, <1>3, <2>1, <2>2
  <1>9. CASE Answered(r)
    <2> DEFINE n == [q EXCEPT !.at = "open", !.open = TRUE]
    <2>1. req' = [req EXCEPT ![r] = n] /\ UNCHANGED <<reserved, res, put, late>> /\ q.at = "sending" /\ Serves(q.target)
      BY <1>9 DEF Answered, resVars
    <2>2. ReqHas(n) /\ n.at = "open"
      BY <1>1 DEF ReqHas
    <2> HIDE DEF n
    <2> QED BY <1>2, <1>4, <2>1, <2>2
  <1>10. CASE SendFails(r)
    <2>1. req' = [req EXCEPT ![r] = NoReq] /\ UNCHANGED <<reserved, res, put, late>> /\ q.at = "sending"
          /\ (Serves(q.target) \/ UNCHANGED ka)
      BY <1>10 DEF SendFails, resVars
    <2>2. ka' = [x \in AutoModels |-> ka'[x]] /\ (reserved # 0 => \A x \in TooBig : Gone(x) => Gone(x)' \/ Excused(x))
      BY <1>3, <1>4, <2>1
    <2> QED BY <1>1, <1>2, <2>1, <2>2
  <1>11. CASE RelayStarts(r) \/ RelayNever(r)
    <2>1. PICK relay \in {"running", "never"} : req' = [req EXCEPT ![r].relay = relay]
      BY <1>11 DEF RelayStarts, RelayNever
    <2> DEFINE n == [q EXCEPT !.relay = relay]
    <2>2. req' = [req EXCEPT ![r] = n] /\ UNCHANGED <<ka, reserved, res, put, late>> /\ q.at = "open"
      BY <1>11, <2>1 DEF RelayStarts, RelayNever, serverVars, resVars
    <2>3. ReqHas(n) /\ n.at = q.at
      BY <1>1 DEF ReqHas
    <2> HIDE DEF n
    <2> QED BY <1>2, <1>3, <2>2, <2>3
  <1>12. CASE RelayEnds(r)
    <2> DEFINE n == [NoReq EXCEPT !.at = "open", !.relay = "over"]
    <2>1. req' = [req EXCEPT ![r] = n] /\ UNCHANGED <<ka, reserved, res, put, late>>
      BY <1>12 DEF RelayEnds, serverVars, resVars
    <2>2. ReqHas(n) /\ n.at = "open"
      BY <1>1 DEF ReqHas
    <2> HIDE DEF n
    <2> QED BY <1>2, <1>3, <2>1, <2>2
  <1> QED BY <1>5, <1>6, <1>7, <1>8, <1>9, <1>10, <1>11, <1>12 DEF Serve

\* The steps of the residency loop.
LEMMA ResHonours ==
  ASSUME HInv, Residence(Tick \/ TickFails)
  PROVE  HInv'
PROOF
  <1> DEFINE calls == res.at \in {"let_go", "unpin"} /\ ka' # ka
  <1>1. Shapes /\ UNCHANGED <<req, put>> /\ Late(IF calls THEN {res.model} ELSE {})
    BY DEF HInv, Residence, gatewayVars
  <1>2. UNCHANGED reserved
    BY DEF Residence, Tick, TickFails, CallFails, AnswerLost, Look, Follow, LetGo, FoundPinned, NotPreloaded, Deferred,
       WillPin, Pin, WillRelease, Unpin, serverVars
  <1>3. reserved # 0 => late' = late \cup ((IF calls THEN {res.model} ELSE {}) \cap TooBig)
    BY <1>1 DEF Late
  \* What it goes on with is what it had chosen, or is chosen now.
  <1>4. ASSUME {"at", "model", "next", "ours"} \subseteq DOMAIN res', res'.at \in {"look", "pin"} => res'.model = res'.next,
               ka' = [x \in AutoModels |-> ka'[x]],
               res'.at \in {"look", "let_go", "pin"} =>
                 \/ res.at \in {"look", "let_go", "pin"} /\ res'.next = res.next
                 \/ reserved # 0 /\ res'.next \in TooBig => res'.next \in LastResort,
               reserved # 0 => \A x \in TooBig : Gone(x) => Gone(x)' \/ Excused(x)'
        PROVE  HInv'
    <2>1. Shapes'
      BY <1>1, <1>2, <1>4 DEF Shapes
    <2>2. ASSUME reserved # 0, NEW m \in TooBig
          PROVE  /\ m \in Pending' => m \in Pending \cup LastResort
                 /\ m \in late => m \in late' \/ (Gone(m)' /\ m \notin Pending')
                 /\ Gone(m) => Gone(m)' \/ Excused(m)'
                 /\ Handled(m) => Handled(m)' \/ Gone(m)' \/ Excused(m)'
      <3>1. m \in Pending' => m \in Pending \cup LastResort
        BY <1>1, <1>4, <2>2 DEF Pending
      <3>2. (Handled(m)' <=> Handled(m)) /\ (m \in late => m \in late')
        BY <1>1, <1>3, <2>2 DEF Handled
      <3> QED BY <1>4, <2>2, <3>1, <3>2
    <2> QED BY <1>2, <2>1, <2>2, Keeps
  <1>5. UNCHANGED ka => ka' = [x \in AutoModels |-> ka'[x]] /\ \A x \in TooBig : Gone(x) => Gone(x)' \/ Excused(x)'
    BY <1>1 DEF Shapes, Gone
  <1>6. ASSUME NEW v, KeepAlive(res.model, v), res.at \in {"look", "pin", "let_go", "unpin"}
        PROVE  ka' = [x \in AutoModels |-> ka'[x]] /\ (reserved # 0 => \A x \in TooBig : Gone(x) => Gone(x)' \/ Excused(x)')
    <2>1. /\ ka' = [x \in AutoModels |-> ka'[x]]
          /\ \A x \in AutoModels : ka'[x] = IF x = res.model THEN v ELSE ka[x]
      BY <1>1, <1>6, Written
    <2>2. ASSUME reserved # 0, NEW x \in TooBig, Gone(x), ~Gone(x)' PROVE Excused(x)'
      <3>1. x = res.model /\ ka' # ka
        BY <2>1, <2>2 DEF Gone, TooBig
      <3>2. CASE res.at \in {"look", "pin"}
        <4>1. x \in Pending
          BY <1>1, <3>1, <3>2 DEF Pending, Shapes
        <4>2. Excused(x)
          BY <2>2, <4>1 DEF HInv
        <4> QED BY <1>3, <2>2, <4>2 DEF Excused
      <3>3. CASE res.at \in {"let_go", "unpin"}
        BY <1>3, <2>2, <3>1, <3>3 DEF Excused
      <3> QED BY <1>6, <3>2, <3>3
    <2> QED BY <2>1, <2>2
  <1>7. {"at", "model", "next", "ours"} \subseteq DOMAIN res /\ (res.at \in {"look", "pin"} => res.model = res.next)
    BY <1>1 DEF Shapes
  \* A tick that ends, or goes on without a choice.
  <1>8. ASSUME NEW ours, Sleeps(ours),
               UNCHANGED ka \/ \E v : KeepAlive(res.model, v) /\ res.at \in {"look", "pin", "let_go", "unpin"}
        PROVE  HInv'
    <2>1. {"at", "model", "next", "ours"} \subseteq DOMAIN res' /\ res'.at = "sleep"
      BY <1>7, <1>8 DEF Sleeps
    <2>2. ka' = [x \in AutoModels |-> ka'[x]] /\ (reserved # 0 => \A x \in TooBig : Gone(x) => Gone(x)' \/ Excused(x)')
      BY <1>5, <1>6, <1>8
    <2> QED BY <1>4, <2>1, <2>2
  <1>9. ASSUME NEW at \in {"hold", "release", "unpin", "pin"}, Goes(at), UNCHANGED ka, at = "pin" => res.at = "look"
        PROVE  HInv'
    <2>1. /\ {"at", "model", "next", "ours"} \subseteq DOMAIN res' /\ res'.at = at /\ res'.model = res.model /\ res'.next = res.next
      BY <1>7, <1>9 DEF Goes
    <2> QED BY <1>4, <1>5, <1>7, <1>9, <2>1
  <1>10. CASE Look
    <2>1. UNCHANGED ka
      BY <1>10 DEF Look, serverVars
    <2> QED BY <1>8, <1>9, <1>10, <2>1 DEF Look
  <1>11. CASE Follow
    <2>1. PICK m \in UNION {ChoicesNow(s) : s \in Seen} :
            \/ res' = [res EXCEPT !.at = "let_go", !.next = m]
            \/ res' = [res EXCEPT !.at = "look", !.model = m, !.next = m, !.ours = @ /\ m = res.model]
      BY <1>11 DEF Follow
    <2>2. UNCHANGED ka
      BY <1>11 DEF Follow, serverVars
    <2>3. /\ {"at", "model", "next", "ours"} \subseteq DOMAIN res' /\ res'.next = m
          /\ res'.at = "let_go" \/ (res'.at = "look" /\ res'.model = m)
      BY <1>7, <2>1
    <2>4. reserved # 0 /\ m \in TooBig => m \in LastResort
      BY <1>1, ChosenExcused
    <2> QED BY <1>4, <1>5, <2>2, <2>3, <2>4
  <1>12. CASE LetGo
    <2>1. res.at = "let_go" /\ KeepAlive(res.model, "timed") /\ res' = [res EXCEPT !.at = "look", !.model = res.next, !.ours = FALSE]
      BY <1>12 DEF LetGo
    <2>2. {"at", "model", "next", "ours"} \subseteq DOMAIN res' /\ res'.at = "look" /\ res'.model = res.next /\ res'.next = res.next
      BY <1>7, <2>1
    <2> QED BY <1>4, <1>6, <2>1, <2>2
  <1>13. CASE FoundPinned
    BY <1>8, <1>13 DEF FoundPinned
  <1>14. CASE NotPreloaded \/ Deferred
    BY <1>8, <1>14 DEF NotPreloaded, Deferred, serverVars
  <1>15. CASE WillPin
    BY <1>9, <1>15 DEF WillPin, serverVars
  <1>16. CASE Pin
    BY <1>8, <1>16 DEF Pin
  <1>17. CASE WillRelease
    <2>1. UNCHANGED ka
      BY <1>17 DEF WillRelease, serverVars
    <2> QED BY <1>8, <1>9, <1>17, <2>1 DEF WillRelease
  <1>18. CASE Unpin
    BY <1>8, <1>18 DEF Unpin
  <1>19. CASE CallFails
    BY <1>8, <1>19 DEF CallFails, serverVars
  <1>20. CASE AnswerLost
    BY <1>8, <1>20 DEF AnswerLost, Calling
  <1> QED BY <1>10, <1>11, <1>12, <1>13, <1>14, <1>15, <1>16, <1>17, <1>18, <1>19, <1>20 DEF Residence, Tick, TickFails

\* The steps of a reservation's handler: a new one counts on step_down for all that is loaded.
LEMMA ReservationHonours ==
  ASSUME HInv, Reservation
  PROVE  HInv'
PROOF
  <1>1. Shapes /\ reserved' = Reserve /\ put' = [put EXCEPT !.at = "step"] /\ late' = Pending \cap TooBig
        /\ UNCHANGED <<ka, req, res>>
    BY DEF HInv, Reservation, resVars
  <1>2. put'.at = "step" /\ {"at", "todo"} \subseteq DOMAIN put'
    BY <1>1 DEF Shapes
  <1>3. Shapes'
    BY <1>1, <1>2 DEF Shapes
  <1>4. Pending' = Pending
    BY <1>1 DEF Pending
  <1>5. ASSUME NEW m \in TooBig PROVE (m \in Pending' => Excused(m)') /\ Handled(m)'
    BY <1>1, <1>2, <1>4 DEF Excused, Handled
  <1> QED BY <1>3, <1>5 DEF HInv, TooBig

LEMMA PutLeftIs ==
  ASSUME NEW todo
  PROVE  /\ {"at", "todo"} \subseteq DOMAIN PutLeft(todo) /\ PutLeft(todo).todo = todo
         /\ todo # {} => PutLeft(todo).at = "unload"
PROOF
  BY DEF PutLeft

LEMMA SteppingHonours ==
  ASSUME HInv, Stepping
  PROVE  HInv'
PROOF
  <1>1. Shapes /\ UNCHANGED <<reserved, req, res>>
    BY DEF HInv, Stepping, StepDown, StepUnload, serverVars, resVars
  <1>2. Pending' = Pending
    BY <1>1 DEF Pending
  <1>3. CASE StepDown
    <2>1. PICK seen \in Seen, m \in UNION {ChoicesNow(s) : s \in Seen} :
            Late(Loaded \ seen) /\ put' = PutLeft(seen \ {m})
      BY <1>3 DEF StepDown
    <2>2. UNCHANGED ka
      BY <1>3 DEF StepDown, serverVars
    <2>3. Shapes'
      BY <1>1, <2>1, <2>2, PutLeftIs DEF Shapes
    <2>4. ASSUME reserved # 0, NEW x \in TooBig
          PROVE  /\ x \in late => x \in late'
                 /\ Gone(x) => Gone(x)'
                 /\ Handled(x)' \/ Gone(x)' \/ Excused(x)'
      <3>1. late' = late \cup ((Loaded \ seen) \cap TooBig)
        BY <2>1, <2>4 DEF Late
      <3>2. m \in TooBig => m \in LastResort
        BY <1>1, <2>4, ChosenExcused
      <3>3. x \in Loaded \/ Gone(x)'
        BY <2>2 DEF Loaded, Gone, TooBig
      <3>4. CASE x \in seen /\ x # m
        <4>1. x \in seen \ {m} /\ seen \ {m} # {}
          BY <3>4
        <4> QED BY <2>1, <2>2, <3>1, <4>1, PutLeftIs DEF Handled, Gone
      <3>5. CASE ~(x \in seen /\ x # m)
        BY <2>2, <3>1, <3>2, <3>3, <3>5 DEF Excused, Gone
      <3> QED BY <3>4, <3>5
    <2>5. \A x : Gone(x) => Gone(x)'
      BY <2>2 DEF Gone
    <2> QED BY <1>1, <1>2, <2>3, <2>4, <2>5, Keeps
  <1>4. ASSUME NEW m \in AutoModels, StepUnload(m) PROVE HInv'
    <2>1. /\ put.at = "unload" /\ m \in put.todo /\ put' = PutLeft(put.todo \ {m})
          /\ (Unloads(m) /\ UNCHANGED late) \/ (Late({m}) /\ UNCHANGED ka)
      BY <1>4 DEF StepUnload
    <2>2. ka' = [x \in AutoModels |-> ka'[x]] /\ \A x \in AutoModels : ka'[x] = ka[x] \/ (x = m /\ ka'[x] = "zero")
      BY <1>1, <2>1, Written DEF Shapes
    <2>3. Shapes'
      BY <1>1, <2>1, <2>2, PutLeftIs DEF Shapes
    <2>4. ASSUME reserved # 0, NEW x \in TooBig
          PROVE  /\ x \in late => x \in late'
                 /\ Gone(x) => Gone(x)'
                 /\ Handled(x) => Handled(x)' \/ Gone(x)' \/ Excused(x)'
      <3>1. late' = late \/ late' = late \cup ({m} \cap TooBig)
        BY <2>1, <2>4 DEF Late
      <3>2. x \in AutoModels
        BY DEF TooBig
      <3>3. Gone(x) => Gone(x)'
        BY <2>2, <3>2 DEF Gone
      <3>4. ASSUME Handled(x), x # m PROVE Handled(x)'
        <4>1. x \in put.todo \ {m} /\ put.todo \ {m} # {}
          BY <2>1, <3>4 DEF Handled
        <4> QED BY <2>1, <4>1, PutLeftIs DEF Handled
      <3>5. ASSUME x = m PROVE Gone(x)' \/ Excused(x)'
        <4>1. CASE Unloads(m)
          <5>1. ka'[x] = IF ka[x] # "absent" THEN "zero" ELSE ka[x]
            BY <1>1, <3>2, <3>5, <4>1, Written
          <5> QED BY <5>1 DEF Gone
        <4>2. CASE Late({m})
          <5>1. x \in late'
            BY <2>4, <3>5, <4>2 DEF Late
          <5> QED BY <5>1 DEF Excused
        <4> QED BY <2>1, <4>1, <4>2
      <3> QED BY <3>1, <3>3, <3>4, <3>5
    <2> QED BY <1>1, <1>2, <2>3, <2>4, Keeps
  <1> QED BY <1>3, <1>4 DEF Stepping

\* The surroundings.
LEMMA OthersHonour ==
  ASSUME HInv, Watch \/ Environment
  PROVE  HInv'
PROOF
  <1>1. Shapes
    BY DEF HInv
  \* One that changes what is loaded, and what is excused of it, and nothing else.
  <1>2. ASSUME UNCHANGED <<reserved, req, res, put>>, ka' = [x \in AutoModels |-> ka'[x]],
               \A x \in AutoModels : ka'[x] \in {"absent", "zero", ka[x]},
               \A x \in late : x \in late' \/ (x \in TooBig => ka'[x] = "absent" /\ x \notin Pending)
        PROVE  HInv'
    <2>1. Shapes'
      BY <1>1, <1>2 DEF Shapes
    <2>2. Pending' = Pending
      BY <1>2 DEF Pending
    <2>3. ASSUME NEW x \in TooBig
          PROVE  /\ x \in late => x \in late' \/ (Gone(x)' /\ x \notin Pending')
                 /\ Gone(x) => Gone(x)'
                 /\ Handled(x) => Handled(x)'
      BY <1>2, <2>2 DEF Gone, Handled, TooBig
    <2> QED BY <1>2, <2>1, <2>2, <2>3, Keeps
  <1>3. CASE Watch
    <2>1. PICK done \in SUBSET Loaded : ka' = [m \in AutoModels |-> IF m \in done THEN "zero" ELSE ka[m]]
      BY <1>3 DEF Watch
    <2>2. UNCHANGED <<reserved, req, res, put, late>>
      BY <1>3 DEF Watch, resVars
    <2> QED BY <1>2, <2>1, <2>2
  <1>4. ASSUME NEW m \in AutoModels, ServerDrops(m) PROVE HInv'
    <2>1. KeepAlive(m, "absent") /\ late' = late \ ({m} \ Pending) /\ UNCHANGED <<reserved, req, res, put>>
      BY <1>4 DEF ServerDrops, resVars, gatewayVars
    <2>2. ka' = [x \in AutoModels |-> ka'[x]] /\ \A x \in AutoModels : ka'[x] = IF x = m THEN "absent" ELSE ka[x]
      BY <1>1, <2>1, Written
    <2>3. \A x \in late : x \in late' \/ (x \in TooBig => ka'[x] = "absent" /\ x \notin Pending)
      BY <1>4, <2>1, <2>2
    <2> QED BY <1>2, <2>1, <2>2, <2>3
  <1>5. CASE ServerRestarts
    <2>1. ka' = [m \in AutoModels |-> "absent"] /\ late' = late \cap Pending /\ UNCHANGED <<reserved, req, res, put>>
      BY <1>5 DEF ServerRestarts, resVars, gatewayVars
    <2>2. \A x \in TooBig : x \in AutoModels
      BY DEF TooBig
    <2> QED BY <1>2, <2>1, <2>2
  <1>6. CASE MemoryChanges \/ GameChanges
    <2>1. UNCHANGED <<ka, reserved, req, res, put, late>>
      BY <1>6 DEF MemoryChanges, GameChanges, resVars, gatewayVars
    <2> QED BY <1>1, <1>2, <2>1 DEF Shapes
  <1>7. CASE ReservationEnds
    <2>1. reserved' = 0 /\ UNCHANGED <<ka, req, res, put>>
      BY <1>7 DEF ReservationEnds, resVars
    <2> QED BY <1>1, <2>1 DEF HInv, Shapes
  <1>8. CASE GatewayRestarts
    <2>1. /\ res' = NewRes /\ req' = [r \in Reqs |-> NoReq] /\ put' = [at |-> "none", todo |-> {}] /\ UNCHANGED reserved
          /\ ka' = [m \in AutoModels |-> IF ka[m] = "pinned" THEN "left" ELSE ka[m]]
          /\ Late(IF put.at = "none" THEN {} ELSE Loaded)
      BY <1>8 DEF GatewayRestarts
    <2>2. Shapes'
      BY <1>1, <2>1 DEF Shapes, NewRes, ReqHas, NoReq
    <2>3. Pending' = {}
      BY <2>1 DEF Pending, NewRes, NoReq
    <2>4. ASSUME reserved # 0, NEW x \in TooBig
          PROVE  /\ x \in late => x \in late'
                 /\ Gone(x) => Gone(x)'
                 /\ Handled(x) => Gone(x)' \/ Excused(x)'
      <3>1. x \in AutoModels /\ (x \in Loaded \/ Gone(x))
        BY DEF TooBig, Loaded, Gone
      <3>2. Gone(x) => Gone(x)'
        BY <2>1, <3>1 DEF Gone
      <3>3. late' = late \cup ((IF put.at = "none" THEN {} ELSE Loaded) \cap TooBig)
        BY <2>1, <2>4 DEF Late
      <3> QED BY <3>1, <3>2, <3>3 DEF Handled, Excused
    <2> QED BY <2>1, <2>2, <2>3, <2>4, Keeps
  <1> QED BY <1>3, <1>4, <1>5, <1>6, <1>7, <1>8 DEF Environment

LEMMA StepHonours == HInv /\ [Next]_vars => HInv'
PROOF
  <1> SUFFICES ASSUME HInv, [Next]_vars PROVE HInv'
    OBVIOUS
  <1>1. CASE UNCHANGED vars
    BY <1>1 DEF vars, serverVars, resVars, HInv, Shapes, Pending, Gone, Excused, Handled
  <1> QED BY <1>1, ReqHonours, ResHonours, ReservationHonours, SteppingHonours, OthersHonour DEF Next

LEMMA InitHonours == Init => HInv
PROOF
  <1> SUFFICES ASSUME Init PROVE HInv
    OBVIOUS
  <1>1. reserved = 0 /\ ka = [m \in AutoModels |-> "absent"] /\ req = [r \in Reqs |-> NoReq] /\ res = NewRes
        /\ put = [at |-> "none", todo |-> {}]
    BY DEF Init, ResInit
  <1>2. {"at", "model", "next", "ours"} \subseteq DOMAIN NewRes /\ NewRes.at = "sleep" /\ ReqHas(NoReq)
    BY DEF NewRes, ReqHas, NoReq
  <1> QED BY <1>1, <1>2 DEF HInv, Shapes

\* Beside a reservation whose handler is done no model that does not fit stays in VRAM or
\* is brought there by a choice made since (reservation, step_down, autoselect), but for a
\* last resort and the excuses that `late` keeps, for any models, sizes, clients and failures.
THEOREM ReservationsHonoured == Spec => []ReservationHonoured
PROOF
  <1>1. HInv => ReservationHonoured
    <2> SUFFICES ASSUME HInv, reserved # 0, put.at = "none", NEW m \in Loaded \cap TooBig
                 PROVE  m \in LastResort \cup late \/ ka[m] = "zero"
      BY DEF ReservationHonoured
    <2>1. ka[m] # "absent"
      BY DEF Loaded
    <2> QED BY <2>1 DEF HInv, Gone, Excused, Handled
  <1> QED BY <1>1, InitHonours, StepHonours, PTL DEF Spec
=============================================================================
