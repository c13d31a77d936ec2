------------------------ MODULE ApprovalQueueProofs ------------------------
(***************************************************************************)
(* Proofs about ApprovalQueue for every set of workers, owners and keys,   *)
(* every number of requests and any processes killed at any statement.     *)
(***************************************************************************)
EXTENDS ApprovalQueue, FiniteSetTheorems, TLAPS

-----------------------------------------------------------------------------
(* The inductive invariant *)

\* Where a worker holds a row of the table.
Holds == {"stamp", "reread", "flagAll", "flagKind", "settle", "fetch", "asked", "parked", "cleared"}
IsLive(i) == rows[i].state \in {"pending", "approved"}

\* What worker w knows: it asks for its own keys; the "none" that
\* approval_by_scope answered is still true when the INSERT runs; the row it
\* holds is the newest of its key; it acts only on an approved row.
WorkerOK(w) ==
  /\ ask[w].at = "insert" =>
       /\ ask[w].key \in KeysOf[w]
       /\ \A i \in DOMAIN rows : rows[i].key = ask[w].key => ~IsLive(i)
  /\ ask[w].at \in Holds =>
       /\ ask[w].key \in KeysOf[w]
       /\ ask[w].row \in DOMAIN rows
       /\ rows[ask[w].row].key = ask[w].key
       /\ \A i \in DOMAIN rows : rows[i].key = ask[w].key => i <= ask[w].row
  /\ ask[w].at = "cleared" => rows[ask[w].row].state = "approved"

\* Tickets are unique: the row's number, or '' in one row at most.
TicketsOK ==
  /\ \A i \in DOMAIN rows : rows[i].ticket \in {0, i}
  /\ \A i, j \in DOMAIN rows : rows[i].ticket = 0 /\ rows[j].ticket = 0 => i = j

\* A live row is the newest of its key: nothing is filed behind it.
LiveIsNewest ==
  \A i, j \in DOMAIN rows : rows[i].key = rows[j].key /\ IsLive(i) => j <= i

IInv == TypeOK /\ TicketsOK /\ LiveIsNewest /\ \A w \in Workers : WorkerOK(w)

-----------------------------------------------------------------------------
\* settle_approval keeps every row's ticket and key, and changes a state only
\* from pending to the verdict given.
LEMMA SettleRows ==
  ASSUME rows \in Seq(Row), NEW t \in Nat, NEW v \in Verdicts
  PROVE  /\ SettleApproval(t, v) \in Seq(Row)
         /\ DOMAIN SettleApproval(t, v) = DOMAIN rows
         /\ \A i \in DOMAIN rows :
              /\ SettleApproval(t, v)[i].ticket = rows[i].ticket
              /\ SettleApproval(t, v)[i].key = rows[i].key
              /\ \/ SettleApproval(t, v)[i].state = rows[i].state
                 \/ /\ rows[i].ticket = t /\ rows[i].state = "pending"
                    /\ SettleApproval(t, v)[i].state = v
PROOF
  <1> DEFINE S == SettleApproval(t, v)
  <1>1. DOMAIN S = DOMAIN rows /\ DOMAIN rows = 1..Len(rows) /\ Len(rows) \in Nat
    BY DEF SettleApproval
  <1>2. \A i \in DOMAIN rows : rows[i] \in Row
    OBVIOUS
  <1>3. ASSUME NEW i \in DOMAIN rows
        PROVE  /\ S[i] \in Row /\ S[i].ticket = rows[i].ticket /\ S[i].key = rows[i].key
               /\ \/ S[i].state = rows[i].state
                  \/ rows[i].ticket = t /\ rows[i].state = "pending" /\ S[i].state = v
    BY <1>2, <1>3 DEF SettleApproval, Row, Verdicts
  <1>4. S \in Seq(Row)
    <2>1. S = [i \in 1..Len(rows) |-> S[i]]
      BY <1>1 DEF SettleApproval
    <2>2. \A i \in 1..Len(rows) : S[i] \in Row
      BY <1>1, <1>3
    <2>3. QED
      BY <1>1, <2>1, <2>2
  <1>5. QED
    BY <1>1, <1>3, <1>4

LEMMA RowShape ==
  ASSUME rows \in Seq(Row)
  PROVE  /\ DOMAIN rows = 1..Len(rows) /\ Len(rows) \in Nat
         /\ \A i \in DOMAIN rows :
              /\ rows[i] \in Row /\ rows[i].ticket \in Nat /\ rows[i].key \in Keys
              /\ rows[i].state \in {"pending", "approved", "denied"}
PROOF
  <1>1. DOMAIN rows = 1..Len(rows) /\ Len(rows) \in Nat
    OBVIOUS
  <1>2. \A i \in DOMAIN rows : rows[i] \in Row
    OBVIOUS
  <1>3. QED
    BY <1>1, <1>2 DEF Row, Verdicts

LEMMA ReplyPoint ==
  ASSUME NEW s \in {"pending", "approved", "denied"}
  PROVE  Reply(s) \in {"cleared", "asked", "refused"} /\ (Reply(s) = "cleared" <=> s = "approved")
PROOF
  BY DEF Reply

-----------------------------------------------------------------------------
(* The initial states *)

LEMMA InitInv == Init => IInv
PROOF
  <1> SUFFICES ASSUME Init PROVE IInv
    OBVIOUS
  <1>1. NoAsk \in Ask /\ NoCmd \in Cmd
    BY DEF NoAsk, Ask, AskPoint, NoCmd, Cmd, CmdPoint, AllowScopes, Verdicts
  <1>2. TypeOK
    BY <1>1 DEF Init, TypeOK, AllowScopes
  <1>3. TicketsOK /\ LiveIsNewest
    BY DEF Init, TicketsOK, LiveIsNewest
  <1>4. \A w \in Workers : WorkerOK(w)
    BY DEF Init, WorkerOK, NoAsk, Holds
  <1>5. QED
    BY <1>2, <1>3, <1>4 DEF IInv

-----------------------------------------------------------------------------
(* Steps that leave the table alone *)

\* One worker moves on to a.
LEMMA AskStep ==
  ASSUME IInv, NEW w \in Workers, NEW a \in Ask,
         ask' = [ask EXCEPT ![w] = a],
         UNCHANGED <<rows, open, cmd, killed>>, told' \cup retaken' \subseteq Nat,
         WorkerOK(w)'
  PROVE  IInv'
PROOF
  <1>1. TypeOK'
    BY DEF IInv, TypeOK
  <1>2. TicketsOK' /\ LiveIsNewest'
    BY DEF IInv, TicketsOK, LiveIsNewest, IsLive
  <1>3. ASSUME NEW v \in Workers PROVE WorkerOK(v)'
    <2>1. CASE v = w
      BY <2>1
    <2>2. CASE v # w
      <3>1. ask'[v] = ask[v] /\ WorkerOK(v)
        BY <2>2 DEF IInv, TypeOK
      <3>2. QED
        BY <3>1 DEF WorkerOK, IsLive
    <2>3. QED
      BY <2>1, <2>2
  <1>4. QED
    BY <1>1, <1>2, <1>3 DEF IInv

\* An owner's process moves on.
LEMMA CmdStep ==
  ASSUME IInv, UNCHANGED <<rows, ask, told, retaken>>,
         open' \subseteq AllowScopes, killed' \subseteq MayKill, cmd' \in [Owners -> Cmd]
  PROVE  IInv'
PROOF
  BY DEF IInv, TypeOK, TicketsOK, LiveIsNewest, IsLive, WorkerOK

\* The kernel of every answer: what settling one ticket does to the table.
LEMMA SettleKeeps ==
  ASSUME IInv, NEW t \in Nat, NEW v \in Verdicts, rows' = SettleApproval(t, v)
  PROVE  /\ rows' \in Seq(Row) /\ DOMAIN rows' = DOMAIN rows
         /\ TicketsOK' /\ LiveIsNewest'
         /\ \A i \in DOMAIN rows :
              /\ rows'[i].key = rows[i].key /\ rows'[i].ticket = rows[i].ticket
              /\ rows[i].state \in Verdicts => rows'[i].state = rows[i].state
              /\ IsLive(i)' => IsLive(i)
PROOF
  <1>1. rows \in Seq(Row)
    BY DEF IInv, TypeOK
  <1>2. /\ rows' \in Seq(Row) /\ DOMAIN rows' = DOMAIN rows
        /\ \A i \in DOMAIN rows :
             /\ rows'[i].ticket = rows[i].ticket /\ rows'[i].key = rows[i].key
             /\ rows'[i].state = rows[i].state \/ (rows[i].state = "pending" /\ rows'[i].state = v)
    BY <1>1, SettleRows
  <1>3. \A i \in DOMAIN rows :
          /\ rows[i].state \in Verdicts => rows'[i].state = rows[i].state
          /\ IsLive(i)' => IsLive(i)
    BY <1>2 DEF Verdicts, IsLive
  <1>4. TicketsOK'
    BY <1>2 DEF IInv, TicketsOK
  <1>5. LiveIsNewest'
    BY <1>2, <1>3 DEF IInv, LiveIsNewest
  <1>6. QED
    BY <1>2, <1>3, <1>4, <1>5

\* What WorkerOK says of a worker survives any answer.
LEMMA SettleWorkers ==
  ASSUME IInv, NEW t \in Nat, NEW v \in Verdicts, rows' = SettleApproval(t, v),
         NEW w \in Workers, ask'[w] = ask[w]
  PROVE  WorkerOK(w)'
PROOF
  <1>1. /\ DOMAIN rows' = DOMAIN rows
        /\ \A i \in DOMAIN rows :
             /\ rows'[i].key = rows[i].key
             /\ rows[i].state \in Verdicts => rows'[i].state = rows[i].state
             /\ IsLive(i)' => IsLive(i)
    BY SettleKeeps
  <1>2. WorkerOK(w)
    BY DEF IInv
  <1>3. ask[w].at = "cleared" => ask[w].row \in DOMAIN rows /\ rows[ask[w].row].state = "approved"
    BY <1>2 DEF WorkerOK, Holds
  <1>4. QED
    BY <1>1, <1>2, <1>3 DEF WorkerOK, Verdicts

-----------------------------------------------------------------------------
(* The statements of a request *)

LEMMA AskFields ==
  ASSUME TypeOK, NEW w \in Workers
  PROVE  /\ ask[w] = [at |-> ask[w].at, key |-> ask[w].key, row |-> ask[w].row, best |-> ask[w].best]
         /\ ask[w].at \in AskPoint /\ ask[w].key \in Keys \cup {NoKey}
         /\ ask[w].row \in Nat /\ ask[w].best \in BOOLEAN
PROOF
  BY DEF TypeOK, Ask

\* The updates of a worker's record, written out.
LEMMA AtOnly ==
  ASSUME NEW a \in Ask, NEW p
  PROVE  [a EXCEPT !.at = p] = [at |-> p, key |-> a.key, row |-> a.row, best |-> a.best]
PROOF
  BY DEF Ask

LEMMA AtAndBest ==
  ASSUME NEW a \in Ask, NEW p \in AskPoint, NEW b
  PROVE  [a EXCEPT !.at = p, !.best = b] = [at |-> p, key |-> a.key, row |-> a.row, best |-> b]
PROOF
  <1> DEFINE c == [at |-> p, key |-> a.key, row |-> a.row, best |-> a.best]
  <1>1. [a EXCEPT !.at = p] = c /\ c \in Ask
    BY DEF Ask
  <1>2. c.at = p /\ c.key = a.key /\ c.row = a.row
    OBVIOUS
  <1> HIDE DEF c
  <1>3. [c EXCEPT !.best = b] = [at |-> p, key |-> a.key, row |-> a.row, best |-> b]
    BY <1>1, <1>2 DEF Ask
  <1>4. QED
    BY <1>1, <1>3

LEMMA AtAndRow ==
  ASSUME NEW a \in Ask, NEW p \in AskPoint, NEW n
  PROVE  [a EXCEPT !.at = p, !.row = n] = [at |-> p, key |-> a.key, row |-> n, best |-> a.best]
PROOF
  <1> DEFINE c == [at |-> p, key |-> a.key, row |-> a.row, best |-> a.best]
  <1>1. [a EXCEPT !.at = p] = c /\ c \in Ask
    BY DEF Ask
  <1>2. c.at = p /\ c.key = a.key /\ c.best = a.best
    OBVIOUS
  <1> HIDE DEF c
  <1>3. [c EXCEPT !.row = n] = [at |-> p, key |-> a.key, row |-> n, best |-> a.best]
    BY <1>1, <1>2 DEF Ask
  <1>4. QED
    BY <1>1, <1>3

LEMMA NoAskAt ==
  ASSUME NEW p \in AskPoint, NEW k
  PROVE  [NoAsk EXCEPT !.at = p, !.key = k] = [at |-> p, key |-> k, row |-> 0, best |-> FALSE]
PROOF
  <1> DEFINE c == [at |-> p, key |-> NoKey, row |-> 0, best |-> FALSE]
  <1>1. NoAsk \in Ask /\ NoAsk.key = NoKey /\ NoAsk.row = 0 /\ NoAsk.best = FALSE
    BY DEF NoAsk, Ask, AskPoint
  <1>2. [NoAsk EXCEPT !.at = p] = c /\ c \in Ask
    BY <1>1, AtOnly DEF Ask
  <1>3. c.at = p /\ c.row = 0 /\ c.best = FALSE
    OBVIOUS
  <1> HIDE DEF c
  <1>4. [c EXCEPT !.key = k] = [at |-> p, key |-> k, row |-> 0, best |-> FALSE]
    <2>1. [c EXCEPT !.key = k] = [at |-> c.at, key |-> k, row |-> c.row, best |-> c.best]
      BY <1>2 DEF Ask
    <2>2. QED
      BY <1>3, <2>1
  <1>5. QED
    BY <1>2, <1>4

LEMMA NoAskIdle == NoAsk \in Ask /\ [NoAsk EXCEPT !.at = "idle"] = NoAsk
PROOF
  <1>1. NoAsk \in Ask
    BY DEF NoAsk, Ask, AskPoint
  <1>2. NoAsk = [at |-> "idle", key |-> NoAsk.key, row |-> NoAsk.row, best |-> NoAsk.best]
    BY DEF NoAsk
  <1>3. QED
    BY <1>1, <1>2, AtOnly

LEMMA NoAskStep ==
  ASSUME IInv, NEW w \in Workers, NEW p \in {"idle", "refused", "failed"},
         ask' = [ask EXCEPT ![w] = [NoAsk EXCEPT !.at = p]],
         UNCHANGED <<rows, open, cmd, killed>>, told' \cup retaken' \subseteq Nat
  PROVE  IInv'
PROOF
  <1> DEFINE a == [NoAsk EXCEPT !.at = p]
  <1>1. a \in Ask /\ a.at = p
    BY DEF NoAsk, Ask, AskPoint
  <1>2. ask'[w] = a
    BY DEF IInv, TypeOK
  <1>3. WorkerOK(w)'
    BY <1>1, <1>2 DEF WorkerOK, Holds
  <1>4. QED
    BY <1>1, <1>3, AskStep

\* A worker that holds a row moves to another point where it holds the row.
LEMMA HoldStep ==
  ASSUME IInv, NEW w \in Workers, ask[w].at \in Holds,
         NEW p \in (Holds \cup {"refused"}), NEW b \in BOOLEAN,
         ask' = [ask EXCEPT ![w] = [at |-> p, key |-> ask[w].key, row |-> ask[w].row, best |-> b]],
         UNCHANGED <<rows, open, cmd, killed>>, told' \cup retaken' \subseteq Nat,
         p = "cleared" => rows[ask[w].row].state = "approved"
  PROVE  IInv'
PROOF
  <1> DEFINE a == [at |-> p, key |-> ask[w].key, row |-> ask[w].row, best |-> b]
  <1>0. TypeOK /\ WorkerOK(w)
    BY DEF IInv
  <1>1. a \in Ask
    BY <1>0, AskFields DEF Ask, AskPoint, Holds
  <1>2. ask'[w] = a
    BY <1>0 DEF TypeOK
  <1>3. WorkerOK(w)'
    BY <1>0, <1>2 DEF WorkerOK, Holds, IsLive
  <1> HIDE DEF a
  <1>4. QED
    BY <1>1, <1>3, AskStep DEF a

LEMMA ReuseInv ==
  ASSUME IInv, NEW w \in Workers, NEW k \in Keys, Reuse(w, k)
  PROVE  IInv'
PROOF
  <1>0. TypeOK /\ rows \in Seq(Row)
    BY DEF IInv, TypeOK
  <1>1. PICK i \in LiveRows(k) :
          ask' = [ask EXCEPT ![w] = [at |-> Reply(rows[i].state), key |-> k, row |-> i, best |-> FALSE]]
    BY DEF Reuse
  <1> DEFINE p == Reply(rows[i].state)
             a == [at |-> p, key |-> k, row |-> i, best |-> FALSE]
  <1>2. i \in DOMAIN rows /\ rows[i].key = k /\ IsLive(i) /\ i \in Nat
    BY <1>0, RowShape DEF LiveRows, IsLive
  <1>3. p \in {"cleared", "asked"} /\ (p = "cleared" => rows[i].state = "approved")
    BY <1>2, ReplyPoint DEF IsLive, Reply
  <1> HIDE DEF p
  <1>4. a \in Ask
    BY <1>2, <1>3 DEF Ask, AskPoint
  <1>5. ask'[w] = a
    BY <1>0, <1>1 DEF TypeOK, p
  <1>6. \A j \in DOMAIN rows : rows[j].key = k => j <= i
    BY <1>2 DEF IInv, LiveIsNewest
  <1>7. k \in KeysOf[w] /\ UNCHANGED <<rows, open, cmd, killed, told>> /\ retaken' \subseteq retaken
    BY DEF Reuse
  <1>8. WorkerOK(w)'
    BY <1>2, <1>3, <1>5, <1>6, <1>7 DEF WorkerOK, IsLive
  <1>9. told' \cup retaken' \subseteq Nat
    BY <1>0, <1>7 DEF TypeOK
  <1> HIDE DEF a
  <1>10. QED
    BY <1>1, <1>4, <1>7, <1>8, <1>9, AskStep DEF a, p

LEMMA AskNewInv ==
  ASSUME IInv, NEW w \in Workers, NEW k \in Keys, AskNew(w, k)
  PROVE  IInv'
PROOF
  <1> DEFINE a == [at |-> "insert", key |-> k, row |-> 0, best |-> FALSE]
  <1>0. [NoAsk EXCEPT !.at = "insert", !.key = k] = a
    BY NoAskAt DEF AskPoint
  <1>1. ask' = [ask EXCEPT ![w] = a]
    BY <1>0 DEF AskNew
  <1>2. a \in Ask
    BY DEF Ask, AskPoint
  <1>3. ask'[w] = a
    BY <1>1 DEF IInv, TypeOK
  <1>4. \A i \in DOMAIN rows : rows[i].key = k => ~IsLive(i)
    BY DEF AskNew, LiveRows, IsLive
  <1>5. k \in KeysOf[w] /\ UNCHANGED <<rows, open, cmd, killed, told, retaken>>
    BY DEF AskNew
  <1>6. WorkerOK(w)'
    BY <1>3, <1>4, <1>5 DEF WorkerOK, IsLive, Holds
  <1>7. told' \cup retaken' \subseteq Nat
    BY <1>5 DEF IInv, TypeOK
  <1>8. QED
    BY <1>1, <1>2, <1>5, <1>6, <1>7, AskStep

LEMMA InsertInv ==
  ASSUME IInv, NEW w \in Workers, Insert(w)
  PROVE  IInv'
PROOF
  <1>0. TypeOK /\ rows \in Seq(Row) /\ WorkerOK(w) /\ told \cup retaken \subseteq Nat
    BY DEF IInv, TypeOK
  <1>1. CASE \E i \in DOMAIN rows : rows[i].ticket = 0
    BY <1>0, <1>1, NoAskStep DEF Insert
  <1>2. CASE ~\E i \in DOMAIN rows : rows[i].ticket = 0
    <2> DEFINE n == Len(rows) + 1
               r == [ticket |-> 0, key |-> ask[w].key, state |-> "pending"]
               a == [at |-> "stamp", key |-> ask[w].key, row |-> n, best |-> ask[w].best]
    <2>1. /\ DOMAIN rows = 1..Len(rows) /\ Len(rows) \in Nat
          /\ \A i \in DOMAIN rows : rows[i] \in Row
      BY <1>0, RowShape
    <2>2. /\ ask[w].key \in KeysOf[w] /\ ask[w].key \in Keys /\ ask[w].at = "insert"
          /\ \A i \in DOMAIN rows : rows[i].key = ask[w].key => ~IsLive(i)
      BY <1>0, KeysAssumption DEF Insert, WorkerOK
    <2>3. rows' = Append(rows, r) /\ UNCHANGED <<open, cmd, killed, told, retaken>>
      BY <1>2 DEF Insert
    <2>4. r \in Row
      BY <2>2 DEF Row
    <2>5. rows' \in Seq(Row) /\ DOMAIN rows' = 1..n /\ rows'[n] = r
          /\ \A i \in 1..Len(rows) : rows'[i] = rows[i]
      BY <1>0, <2>1, <2>3, <2>4
    <2>6. ask' = [ask EXCEPT ![w] = a]
      <3>1. [ask[w] EXCEPT !.at = "stamp", !.row = n] = a
        BY <1>0, AtAndRow DEF TypeOK, AskPoint
      <3>2. QED
        BY <1>2, <3>1 DEF Insert
    <2>7. a \in Ask
      <3>1. ask[w].best \in BOOLEAN
        BY <1>0, AskFields
      <3>2. n \in Nat /\ "stamp" \in AskPoint
        BY <2>1 DEF AskPoint
      <3>3. QED
        BY <2>2, <3>1, <3>2 DEF Ask
    <2>8. TypeOK'
      BY <1>0, <2>3, <2>5, <2>6, <2>7 DEF TypeOK
    <2>9. TicketsOK'
      BY <1>2, <2>1, <2>5 DEF IInv, TicketsOK
    <2>10. LiveIsNewest'
      <3>1. ASSUME NEW i \in 1..n, NEW j \in 1..n, rows'[i].key = rows'[j].key, IsLive(i)'
            PROVE j <= i
        <4>1. CASE i = n
          BY <2>1, <4>1
        <4>2. CASE i # n /\ j = n
          <5>1. i \in DOMAIN rows /\ rows[i].key = ask[w].key /\ IsLive(i)
            BY <2>1, <2>5, <3>1, <4>2 DEF IsLive
          <5>2. QED
            BY <2>2, <5>1
        <4>3. CASE i # n /\ j # n
          <5>1. i \in DOMAIN rows /\ j \in DOMAIN rows /\ rows[i].key = rows[j].key /\ IsLive(i)
            BY <2>1, <2>5, <3>1, <4>3 DEF IsLive
          <5>2. QED
            BY <5>1 DEF IInv, LiveIsNewest
        <4>4. QED
          BY <4>1, <4>2, <4>3
      <3>2. QED
        BY <2>5, <3>1 DEF LiveIsNewest
    <2>11. ASSUME NEW v \in Workers PROVE WorkerOK(v)'
      <3>1. CASE v = w
        <4>1. ask'[v] = a
          BY <1>0, <2>6, <3>1 DEF TypeOK
        <4>2. QED
          BY <2>1, <2>2, <2>5, <3>1, <4>1 DEF WorkerOK
      <3>2. CASE v # w
        <4>1. ask'[v] = ask[v] /\ WorkerOK(v)
          BY <1>0, <2>6, <3>2 DEF IInv, TypeOK
        <4>2. \A k \in KeysOf[v] : k # ask[w].key
          BY <2>2, <3>2, KeysAssumption
        <4>3. ask[v].at = "insert" => /\ ask[v].key \in KeysOf[v]
                                      /\ \A i \in 1..n : rows'[i].key = ask[v].key => ~IsLive(i)'
          BY <2>1, <2>5, <4>1, <4>2 DEF WorkerOK, IsLive
        <4>4. ask[v].at \in Holds =>
                /\ ask[v].key \in KeysOf[v]
                /\ ask[v].row \in 1..n
                /\ rows'[ask[v].row].key = ask[v].key
                /\ \A i \in 1..n : rows'[i].key = ask[v].key => i <= ask[v].row
          BY <2>1, <2>5, <4>1, <4>2 DEF WorkerOK
        <4>5. ask[v].at = "cleared" => rows'[ask[v].row].state = "approved"
          BY <2>1, <2>5, <4>1 DEF WorkerOK, Holds
        <4>6. QED
          BY <2>5, <4>1, <4>3, <4>4, <4>5 DEF WorkerOK
      <3>3. QED
        BY <3>1, <3>2
    <2>12. QED
      BY <2>8, <2>9, <2>10, <2>11 DEF IInv
  <1>3. QED
    BY <1>1, <1>2

LEMMA StampInv ==
  ASSUME IInv, NEW w \in Workers, Stamp(w)
  PROVE  IInv'
PROOF
  <1> DEFINE r == ask[w].row
  <1>0. TypeOK /\ rows \in Seq(Row) /\ WorkerOK(w) /\ told \cup retaken \subseteq Nat
    BY DEF IInv, TypeOK
  <1>1. r \in DOMAIN rows /\ r \in Nat /\ ask[w].at = "stamp"
    BY <1>0, AskFields DEF Stamp, WorkerOK, Holds
  <1>2. rows' = [rows EXCEPT ![r].ticket = r] /\ UNCHANGED <<open, cmd, killed, told, retaken>>
    BY DEF Stamp
  <1>3. rows[r] \in Row /\ [rows[r] EXCEPT !.ticket = r] \in Row
    BY <1>0, <1>1, RowShape DEF Row
  <1>4. /\ rows' \in Seq(Row) /\ DOMAIN rows' = DOMAIN rows
        /\ rows'[r].ticket = r
        /\ \A i \in DOMAIN rows : i # r => rows'[i].ticket = rows[i].ticket
        /\ \A i \in DOMAIN rows : rows'[i].key = rows[i].key /\ rows'[i].state = rows[i].state
    <2>1. rows' \in Seq(Row) /\ DOMAIN rows' = DOMAIN rows
      BY <1>0, <1>1, <1>2, <1>3
    <2>2. rows'[r] = [rows[r] EXCEPT !.ticket = r] /\ \A i \in DOMAIN rows : i # r => rows'[i] = rows[i]
      BY <1>1, <1>2
    <2>3. QED
      BY <1>1, <1>3, <2>1, <2>2 DEF Row
  <1>5. ask' = [ask EXCEPT ![w] = [at |-> "reread", key |-> ask[w].key, row |-> r, best |-> ask[w].best]]
    BY <1>0, AtOnly DEF Stamp, TypeOK
  <1>6. [at |-> "reread", key |-> ask[w].key, row |-> r, best |-> ask[w].best] \in Ask
    BY <1>0, AskFields DEF Ask, AskPoint
  <1>7. TypeOK'
    BY <1>0, <1>2, <1>4, <1>5, <1>6 DEF TypeOK
  <1>8. TicketsOK'
    BY <1>1, <1>4 DEF IInv, TicketsOK
  <1>9. LiveIsNewest' /\ \A i \in DOMAIN rows : IsLive(i)' <=> IsLive(i)
    BY <1>4 DEF IInv, LiveIsNewest, IsLive
  <1>10. ASSUME NEW v \in Workers PROVE WorkerOK(v)'
    <2>1. CASE v = w
      <3>1. /\ ask'[v].at = "reread" /\ ask'[v].key = ask[v].key /\ ask'[v].row = ask[v].row
        BY <1>0, <1>5, <2>1 DEF TypeOK
      <3>2. QED
        BY <1>0, <1>1, <1>4, <2>1, <3>1 DEF WorkerOK, Holds
    <2>2. CASE v # w
      <3>1. ask'[v] = ask[v] /\ WorkerOK(v)
        BY <1>0, <1>5, <2>2 DEF IInv, TypeOK
      <3>2. ask[v].at \in Holds => ask[v].row \in DOMAIN rows
        BY <3>1 DEF WorkerOK
      <3>3. QED
        BY <1>4, <1>9, <3>1, <3>2 DEF WorkerOK, Holds
    <2>3. QED
      BY <2>1, <2>2
  <1>11. QED
    BY <1>7, <1>8, <1>9, <1>10 DEF IInv

LEMMA ReadAllInv ==
  ASSUME IInv, NEW w \in Workers, ReadAll(w)
  PROVE  IInv'
PROOF
  <1>0. TypeOK /\ told \cup retaken \subseteq Nat
    BY DEF IInv, TypeOK
  <1> DEFINE b == "all" \in open
  <1>1. b \in BOOLEAN
    OBVIOUS
  <1> HIDE DEF b
  <1>2. ask' = [ask EXCEPT ![w] = [at |-> "flagKind", key |-> ask[w].key, row |-> ask[w].row, best |-> b]]
    <2>1. [ask[w] EXCEPT !.at = "flagKind", !.best = b]
            = [at |-> "flagKind", key |-> ask[w].key, row |-> ask[w].row, best |-> b]
      BY <1>0, AtAndBest DEF TypeOK, AskPoint
    <2>2. QED
      BY <2>1 DEF ReadAll, b
  <1>3. ask[w].at \in Holds /\ UNCHANGED <<rows, open, cmd, killed, told, retaken>>
    BY DEF ReadAll, Holds
  <1>4. "flagKind" \in Holds \cup {"refused"} /\ "flagKind" # "cleared"
    BY DEF Holds
  <1>5. told' \cup retaken' \subseteq Nat /\ UNCHANGED <<rows, open, cmd, killed>>
    BY <1>0, <1>3
  <1>6. QED
    BY <1>1, <1>2, <1>3, <1>4, <1>5, HoldStep, Zenon

LEMMA ReadKindInv ==
  ASSUME IInv, NEW w \in Workers, ReadKind(w)
  PROVE  IInv'
PROOF
  <1>0. TypeOK /\ told \cup retaken \subseteq Nat
    BY DEF IInv, TypeOK
  <1> DEFINE p == IF ask[w].best \/ KindOf[ask[w].key] \in open THEN "settle" ELSE "asked"
  <1>1. p \in {"settle", "asked"}
    OBVIOUS
  <1> HIDE DEF p
  <1>2. ask' = [ask EXCEPT ![w] = [at |-> p, key |-> ask[w].key, row |-> ask[w].row, best |-> FALSE]]
    <2>0. ask[w] \in Ask /\ p \in AskPoint
      BY <1>0, <1>1 DEF TypeOK, AskPoint
    <2>1. [ask[w] EXCEPT !.at = p, !.best = FALSE]
            = [at |-> p, key |-> ask[w].key, row |-> ask[w].row, best |-> FALSE]
      BY <2>0, AtAndBest, Zenon
    <2>2. QED
      BY <2>1 DEF ReadKind, p
  <1>3. ask[w].at \in Holds /\ UNCHANGED <<rows, open, cmd, killed, told, retaken>>
    BY DEF ReadKind, Holds
  <1>4. QED
    BY <1>0, <1>1, <1>2, <1>3, HoldStep DEF Holds

LEMMA SettleOwnInv ==
  ASSUME IInv, NEW w \in Workers, SettleOwn(w)
  PROVE  IInv'
PROOF
  <1>0. TypeOK /\ rows \in Seq(Row) /\ WorkerOK(w) /\ told \cup retaken \subseteq Nat
    BY DEF IInv, TypeOK
  <1> DEFINE t == rows[ask[w].row].ticket
             a == [at |-> "fetch", key |-> ask[w].key, row |-> ask[w].row, best |-> ask[w].best]
  <1>1. ask[w].at = "settle" /\ ask[w].row \in DOMAIN rows /\ t \in Nat /\ "approved" \in Verdicts
    BY <1>0, RowShape DEF SettleOwn, WorkerOK, Holds, Verdicts
  <1>2. rows' = SettleApproval(t, "approved") /\ UNCHANGED <<open, cmd, killed, told, retaken>>
    BY DEF SettleOwn
  <1> HIDE DEF t
  <1>3. /\ rows' \in Seq(Row) /\ DOMAIN rows' = DOMAIN rows /\ TicketsOK' /\ LiveIsNewest'
        /\ \A i \in DOMAIN rows : rows'[i].key = rows[i].key
    BY <1>1, <1>2, SettleKeeps
  <1>4. ask' = [ask EXCEPT ![w] = a]
    BY <1>0, AtOnly DEF SettleOwn, TypeOK
  <1>5. a \in Ask
    BY <1>0, AskFields DEF Ask, AskPoint
  <1>6. TypeOK'
    BY <1>0, <1>2, <1>3, <1>4, <1>5 DEF TypeOK
  <1>7. ASSUME NEW v \in Workers PROVE WorkerOK(v)'
    <2>1. CASE v = w
      <3>1. ask'[v] = a
        BY <1>0, <1>4, <2>1 DEF TypeOK
      <3>2. QED
        BY <1>0, <1>1, <1>3, <2>1, <3>1 DEF WorkerOK, Holds
    <2>2. CASE v # w
      <3>1. ask'[v] = ask[v]
        BY <1>0, <1>4, <2>2 DEF TypeOK
      <3>2. QED
        BY <1>1, <1>2, <3>1, SettleWorkers
    <2>3. QED
      BY <2>1, <2>2
  <1>8. QED
    BY <1>3, <1>6, <1>7 DEF IInv

LEMMA DeniedOfNat ==
  ASSUME TypeOK, NEW w \in Workers, told' = told \cup DeniedOf(ask[w].row), UNCHANGED retaken
  PROVE  told' \cup retaken' \subseteq Nat
PROOF
  BY AskFields DEF DeniedOf, TypeOK

LEMMA FetchInv ==
  ASSUME IInv, NEW w \in Workers, Fetch(w)
  PROVE  IInv'
PROOF
  <1>0. TypeOK /\ rows \in Seq(Row) /\ WorkerOK(w)
    BY DEF IInv, TypeOK
  <1> DEFINE s == rows[ask[w].row].state
             p == Reply(s)
  <1>1. ask[w].at = "fetch" /\ ask[w].row \in DOMAIN rows /\ s \in {"pending", "approved", "denied"}
    BY <1>0, RowShape DEF Fetch, WorkerOK, Holds
  <1>2. p \in {"cleared", "asked", "refused"} /\ (p = "cleared" => s = "approved")
    BY <1>1, ReplyPoint
  <1> HIDE DEF p
  <1>3. ask' = [ask EXCEPT ![w] = [at |-> p, key |-> ask[w].key, row |-> ask[w].row, best |-> ask[w].best]]
    BY <1>0, AtOnly DEF Fetch, TypeOK, p
  <1>4. told' \cup retaken' \subseteq Nat /\ UNCHANGED <<rows, open, cmd, killed>>
    BY <1>0, DeniedOfNat DEF Fetch
  <1>5. ask[w].best \in BOOLEAN
    BY <1>0, AskFields
  <1>6. QED
    BY <1>1, <1>2, <1>3, <1>4, <1>5, HoldStep DEF Holds

LEMMA RereadInv ==
  ASSUME IInv, NEW w \in Workers, Reread(w)
  PROVE  IInv'
PROOF
  <1>0. TypeOK /\ rows \in Seq(Row) /\ WorkerOK(w)
    BY DEF IInv, TypeOK
  <1> DEFINE s == rows[ask[w].row].state
             p == IF s = "pending" THEN "flagAll" ELSE Reply(s)
  <1>1. ask[w].at = "reread" /\ ask[w].row \in DOMAIN rows /\ s \in {"pending", "approved", "denied"}
    BY <1>0, RowShape DEF Reread, WorkerOK, Holds
  <1>2. p \in {"flagAll", "cleared", "asked", "refused"} /\ (p = "cleared" => s = "approved")
    BY <1>1, ReplyPoint
  <1> HIDE DEF p
  <1>3. ask' = [ask EXCEPT ![w] = [at |-> p, key |-> ask[w].key, row |-> ask[w].row, best |-> ask[w].best]]
    BY <1>0, AtOnly DEF Reread, TypeOK, p
  <1>4. told' \cup retaken' \subseteq Nat /\ UNCHANGED <<rows, open, cmd, killed>>
    BY <1>0, DeniedOfNat DEF Reread
  <1>5. ask[w].best \in BOOLEAN
    BY <1>0, AskFields
  <1>6. QED
    BY <1>1, <1>2, <1>3, <1>4, <1>5, HoldStep DEF Holds

-----------------------------------------------------------------------------
(* The loop's main thread *)

LEMMA LoopInv ==
  ASSUME IInv, NEW w \in Workers, Loop(w)
  PROVE  IInv'
PROOF
  <1>0. TypeOK /\ told \cup retaken \subseteq Nat
    BY DEF IInv, TypeOK
  <1>1. ASSUME Park(w) PROVE IInv'
    <2>1. ask' = [ask EXCEPT ![w] = [at |-> "parked", key |-> ask[w].key, row |-> ask[w].row, best |-> ask[w].best]]
      BY <1>0, <1>1, AtOnly DEF Park, TypeOK
    <2>2. ask[w].at \in Holds /\ ask[w].best \in BOOLEAN /\ UNCHANGED <<rows, open, cmd, killed, told, retaken>>
      BY <1>0, <1>1, AskFields DEF Park, Holds
    <2>3. "parked" \in Holds /\ "parked" # "cleared"
      BY DEF Holds
    <2>4. QED
      BY <1>0, <2>1, <2>2, <2>3, HoldStep
  <1>2. ASSUME PollGate(w) PROVE IInv'
    <2>1. told' \cup retaken' \subseteq Nat /\ UNCHANGED <<rows, open, cmd, killed>>
      BY <1>0, <1>2, DeniedOfNat DEF PollGate
    <2>2. CASE rows[ask[w].row].state = "approved"
      <3>1. [NoAsk EXCEPT !.at = "idle"] = NoAsk
        BY NoAskIdle
      <3>2. ask' = [ask EXCEPT ![w] = [NoAsk EXCEPT !.at = "idle"]]
        BY <1>2, <2>2, <3>1 DEF PollGate
      <3>3. QED
        BY <2>1, <3>2, NoAskStep
    <2>3. CASE rows[ask[w].row].state # "approved"
      <3>1. ask' = [ask EXCEPT ![w] = [NoAsk EXCEPT !.at = "refused"]]
        BY <1>2, <2>3 DEF PollGate
      <3>2. QED
        BY <2>1, <3>1, NoAskStep
    <2>4. QED
      BY <2>2, <2>3
  <1>3. ASSUME StepOver(w) PROVE IInv'
    <2>1. [NoAsk EXCEPT !.at = "idle"] = NoAsk
      BY NoAskIdle
    <2>2. ask' = [ask EXCEPT ![w] = [NoAsk EXCEPT !.at = "idle"]] /\ UNCHANGED <<rows, open, cmd, killed, told, retaken>>
      BY <1>3, <2>1 DEF StepOver
    <2>3. QED
      BY <1>0, <2>2, NoAskStep
  <1>4. ASSUME Retake(w) PROVE IInv'
    <2>1. [NoAsk EXCEPT !.at = "idle"] = NoAsk
      BY NoAskIdle
    <2>2. ask' = [ask EXCEPT ![w] = [NoAsk EXCEPT !.at = "idle"]] /\ UNCHANGED <<rows, open, cmd, killed>>
      BY <1>4, <2>1 DEF Retake
    <2>3. told' \cup retaken' \subseteq Nat
      BY <1>0, <1>4, AskFields DEF Retake
    <2>4. QED
      BY <2>2, <2>3, NoAskStep
  <1>5. QED
    BY <1>1, <1>2, <1>3, <1>4 DEF Loop

LEMMA CrashInv ==
  ASSUME IInv, CrashLoop
  PROVE  IInv'
PROOF
  <1>0. TypeOK
    BY DEF IInv
  <1>1. ask' = [v \in Workers |-> IF ask[v].at = "parked" THEN ask[v] ELSE NoAsk]
        /\ UNCHANGED <<rows, open, cmd, told, retaken>> /\ killed' \subseteq MayKill
    BY <1>0 DEF CrashLoop, TypeOK
  <1>2. NoAsk \in Ask /\ NoAsk.at = "idle"
    BY DEF NoAsk, Ask, AskPoint
  <1>3. TypeOK'
    BY <1>0, <1>1, <1>2 DEF TypeOK
  <1>4. TicketsOK' /\ LiveIsNewest'
    BY <1>1 DEF IInv, TicketsOK, LiveIsNewest, IsLive
  <1>5. ASSUME NEW v \in Workers PROVE WorkerOK(v)'
    <2>1. CASE ask[v].at = "parked"
      <3>1. ask'[v] = ask[v] /\ WorkerOK(v)
        BY <1>1, <2>1 DEF IInv
      <3>2. QED
        BY <1>1, <3>1 DEF WorkerOK, IsLive
    <2>2. CASE ask[v].at # "parked"
      <3>1. ask'[v] = NoAsk
        BY <1>1, <2>2
      <3>2. QED
        BY <1>2, <3>1 DEF WorkerOK, Holds
    <2>3. QED
      BY <2>1, <2>2
  <1>6. QED
    BY <1>3, <1>4, <1>5 DEF IInv

-----------------------------------------------------------------------------
(* The owner's commands *)

LEMMA CmdFields ==
  ASSUME TypeOK, NEW o \in Owners
  PROVE  /\ cmd[o] \in Cmd /\ cmd[o].at \in CmdPoint /\ cmd[o].scope \in AllowScopes
         /\ cmd[o].verdict \in Verdicts /\ cmd[o].todo \subseteq Listed
PROOF
  BY DEF TypeOK, Cmd

\* What a command lists are rows of the table with their tickets.
LEMMA ListedRows ==
  ASSUME TypeOK, NEW H \in SUBSET DOMAIN rows
  PROVE  {[id |-> i, ticket |-> rows[i].ticket] : i \in H} \subseteq Listed
PROOF
  <1>1. rows \in Seq(Row)
    BY DEF TypeOK
  <1>2. \A i \in H : i \in Nat /\ rows[i].ticket \in Nat
    BY <1>1, RowShape
  <1>3. QED
    BY <1>2 DEF Listed

LEMMA CommandTable ==
  ASSUME IInv, NEW o \in Owners, SettleNext(o)
  PROVE  /\ IInv'
         /\ DOMAIN rows' = DOMAIN rows
         /\ \A i \in DOMAIN rows :
              /\ rows'[i].key = rows[i].key
              /\ rows[i].state \in Verdicts => rows'[i].state = rows[i].state
PROOF
  <1>0. TypeOK
    BY DEF IInv
  <1>1. PICK e \in cmd[o].todo : rows' = SettleApproval(e.ticket, cmd[o].verdict)
    BY DEF SettleNext
  <1>2. e.ticket \in Nat /\ cmd[o].verdict \in Verdicts
    BY <1>0, CmdFields DEF Listed
  <1>3. /\ rows' \in Seq(Row) /\ DOMAIN rows' = DOMAIN rows
        /\ TicketsOK' /\ LiveIsNewest'
        /\ \A i \in DOMAIN rows :
             /\ rows'[i].key = rows[i].key
             /\ rows[i].state \in Verdicts => rows'[i].state = rows[i].state
    BY <1>1, <1>2, SettleKeeps
  <1>4. UNCHANGED <<open, ask, killed, told, retaken>>
    BY DEF SettleNext
  <1>5. \A w \in Workers : WorkerOK(w)'
    BY <1>1, <1>2, <1>4, SettleWorkers
  <1>6. cmd' \in [Owners -> Cmd]
    <2>1. [cmd[o] EXCEPT !.at = "check"] \in Cmd
      BY <1>0, CmdFields DEF Cmd, CmdPoint
    <2>2. QED
      BY <1>0, <2>1 DEF SettleNext, TypeOK
  <1>7. TypeOK'
    BY <1>0, <1>3, <1>4, <1>6 DEF TypeOK
  <1>8. QED
    BY <1>3, <1>5, <1>7 DEF IInv

\* Every step of an owner's command that does not settle leaves rows alone and
\* keeps the command well typed.
LEMMA CommandInv ==
  ASSUME IInv, NEW o \in Owners,
         \/ ListPending(o) \/ CheckNext(o) \/ KillCommand(o)
         \/ \E i \in DOMAIN rows, v \in Verdicts : AnswerOne(o, i, v)
         \/ \E v \in Verdicts : AnswerAll(o, v)
         \/ \E s \in AllowScopes : OpenAllow(o, s)
  PROVE  IInv'
PROOF
  <1>0. TypeOK /\ NoCmd \in Cmd /\ "all" \in AllowScopes
    BY DEF IInv, NoCmd, Cmd, CmdPoint, AllowScopes, Verdicts
  <1>1. ASSUME ListPending(o) PROVE IInv'
    <2> DEFINE hit == {i \in DOMAIN rows : rows[i].state = "pending" /\ Covers(cmd[o].scope, rows[i].key)}
               T == {[id |-> i, ticket |-> rows[i].ticket] : i \in hit}
               c == [at |-> "settle", scope |-> "all", verdict |-> cmd[o].verdict, todo |-> T]
    <2>1. T \subseteq Listed
      BY <1>0, ListedRows
    <2> HIDE DEF T
    <2>2. c \in Cmd
      BY <1>0, <2>1, CmdFields DEF Cmd, CmdPoint
    <2> HIDE DEF hit, c
    <2>3. cmd' = [cmd EXCEPT ![o] = NoCmd] \/ cmd' = [cmd EXCEPT ![o] = c]
      BY <1>1 DEF ListPending, hit, c, T
    <2>4. cmd' \in [Owners -> Cmd]
      BY <1>0, <2>2, <2>3 DEF TypeOK
    <2>5. QED
      BY <1>0, <1>1, <2>4, CmdStep DEF ListPending, TypeOK
  <1>2. ASSUME CheckNext(o) PROVE IInv'
    <2>1. PICK e \in cmd[o].todo :
            \/ cmd' = [cmd EXCEPT ![o] = NoCmd]
            \/ cmd' = [cmd EXCEPT ![o] = [at |-> "settle", scope |-> "all", verdict |-> cmd[o].verdict,
                                          todo |-> cmd[o].todo \ {e}]]
      BY <1>2 DEF CheckNext
    <2> DEFINE c == [at |-> "settle", scope |-> "all", verdict |-> cmd[o].verdict, todo |-> cmd[o].todo \ {e}]
    <2>2. c \in Cmd
      BY <1>0, CmdFields DEF Cmd, CmdPoint
    <2>3. cmd' \in [Owners -> Cmd]
      BY <1>0, <2>1, <2>2 DEF TypeOK
    <2>4. QED
      BY <1>0, <1>2, <2>3, CmdStep DEF CheckNext, TypeOK
  <1>3. ASSUME KillCommand(o) PROVE IInv'
    <2>1. cmd' \in [Owners -> Cmd] /\ killed' \subseteq MayKill
      BY <1>0, <1>3 DEF KillCommand, TypeOK
    <2>2. QED
      BY <1>0, <1>3, <2>1, CmdStep DEF KillCommand, TypeOK
  <1>4. ASSUME NEW i \in DOMAIN rows, NEW v \in Verdicts, AnswerOne(o, i, v) PROVE IInv'
    <2> DEFINE T == {[id |-> i, ticket |-> rows[i].ticket]}
    <2>1. T \subseteq Listed
      <3>1. T = {[id |-> j, ticket |-> rows[j].ticket] : j \in {i}}
        OBVIOUS
      <3>2. QED
        BY <1>0, <3>1, ListedRows
    <2> HIDE DEF T
    <2>2. [at |-> "settle", scope |-> "all", verdict |-> v, todo |-> T] \in Cmd
      BY <1>0, <2>1 DEF Cmd, CmdPoint
    <2>3. cmd' \in [Owners -> Cmd]
      BY <1>0, <1>4, <2>2 DEF AnswerOne, TypeOK, T
    <2>4. QED
      BY <1>0, <1>4, <2>3, CmdStep DEF AnswerOne, TypeOK
  <1>5. ASSUME NEW v \in Verdicts, AnswerAll(o, v) PROVE IInv'
    <2>1. [at |-> "list", scope |-> "all", verdict |-> v, todo |-> {}] \in Cmd
      BY <1>0 DEF Cmd, CmdPoint
    <2>2. cmd' \in [Owners -> Cmd]
      BY <1>0, <1>5, <2>1 DEF AnswerAll, TypeOK
    <2>3. QED
      BY <1>0, <1>5, <2>2, CmdStep DEF AnswerAll, TypeOK
  <1>6. ASSUME NEW s \in AllowScopes, OpenAllow(o, s) PROVE IInv'
    <2>1. [at |-> "list", scope |-> s, verdict |-> "approved", todo |-> {}] \in Cmd
      BY DEF Cmd, CmdPoint, Verdicts
    <2>2. cmd' \in [Owners -> Cmd] /\ open' \subseteq AllowScopes
      BY <1>0, <1>6, <2>1 DEF OpenAllow, TypeOK
    <2>3. QED
      BY <1>0, <1>6, <2>2, CmdStep DEF OpenAllow, TypeOK
  <1>7. QED
    BY <1>1, <1>2, <1>3, <1>4, <1>5, <1>6

-----------------------------------------------------------------------------
(* Every step *)

LEMMA NextInv == IInv /\ [Next]_vars => IInv'
PROOF
  <1> SUFFICES ASSUME IInv, [Next]_vars PROVE IInv'
    OBVIOUS
  <1>1. ASSUME NEW w \in Workers, Request(w) PROVE IInv'
    BY <1>1, InsertInv, StampInv, RereadInv, ReadAllInv, ReadKindInv, SettleOwnInv, FetchInv DEF Request
  <1>2. ASSUME NEW w \in Workers, Loop(w) PROVE IInv'
    BY <1>2, LoopInv
  <1>3. ASSUME NEW w \in Workers, NEW k \in Keys, Reuse(w, k) \/ AskNew(w, k) PROVE IInv'
    BY <1>3, ReuseInv, AskNewInv
  <1>4. CASE CrashLoop
    BY <1>4, CrashInv
  <1>5. ASSUME NEW o \in Owners, Command(o) \/ KillCommand(o) PROVE IInv'
    BY <1>5, CommandTable, CommandInv DEF Command
  <1>6. ASSUME NEW o \in Owners, NEW i \in DOMAIN rows, NEW v \in Verdicts, AnswerOne(o, i, v) PROVE IInv'
    BY <1>6, CommandInv
  <1>7. ASSUME NEW o \in Owners, NEW v \in Verdicts, AnswerAll(o, v) PROVE IInv'
    BY <1>7, CommandInv
  <1>8. ASSUME NEW o \in Owners, NEW s \in AllowScopes, OpenAllow(o, s) PROVE IInv'
    BY <1>8, CommandInv
  <1>9. ASSUME NEW s \in AllowScopes, CloseAllow(s) PROVE IInv'
    <2>1. open' \subseteq AllowScopes /\ cmd' \in [Owners -> Cmd] /\ killed' \subseteq MayKill
          /\ UNCHANGED <<rows, ask, told, retaken>>
      BY <1>9 DEF CloseAllow, IInv, TypeOK
    <2>2. QED
      BY <2>1, CmdStep
  <1>10. CASE UNCHANGED vars
    <2>1. open' \subseteq AllowScopes /\ cmd' \in [Owners -> Cmd] /\ killed' \subseteq MayKill
          /\ UNCHANGED <<rows, ask, told, retaken>>
      BY <1>10 DEF vars, IInv, TypeOK
    <2>2. QED
      BY <2>1, CmdStep
  <1>11. QED
    BY <1>1, <1>2, <1>3, <1>4, <1>5, <1>6, <1>7, <1>8, <1>9, <1>10 DEF Next

\* The inductive invariant holds in every reachable state, whatever is killed.
THEOREM Invariance == Spec => []IInv
PROOF
  <1>1. QED
    BY InitInv, NextInv, PTL DEF Spec

\* Every variable keeps its type: rows are well formed and told apart by their
\* number, a worker's state names a row of the table and a key it may ask for.
THEOREM TypeCorrect == Spec => []TypeOK
PROOF
  <1>1. IInv => TypeOK
    BY DEF IInv
  <1>2. QED
    BY <1>1, Invariance, PTL

LEMMA AtMostOneLive == IInv => OneLiveRequest
PROOF
  <1> SUFFICES ASSUME IInv, NEW k \in Keys PROVE Cardinality(LiveRows(k)) <= 1
    BY DEF OneLiveRequest
  <1>1. rows \in Seq(Row)
    BY DEF IInv, TypeOK
  <1>2. ASSUME NEW i \in LiveRows(k), NEW j \in LiveRows(k) PROVE i = j
    <2>1. i \in Nat /\ j \in Nat /\ i <= j /\ j <= i
      BY <1>1, RowShape DEF LiveRows, IInv, LiveIsNewest, IsLive
    <2>2. QED
      BY <2>1
  <1>3. CASE LiveRows(k) = {}
    BY <1>3, FS_EmptySet
  <1>4. CASE LiveRows(k) # {}
    <2>1. PICK i \in LiveRows(k) : TRUE
      BY <1>4
    <2>2. LiveRows(k) = {i}
      BY <1>2, <2>1
    <2>3. Cardinality(LiveRows(k)) = 1
      <3>1. Cardinality({i}) = 1
        BY FS_Singleton
      <3>2. QED
        BY <2>2, <3>1
    <2>4. QED
      BY <2>3
  <1>5. QED
    BY <1>3, <1>4

\* approvals.request never leaves two live requests for one scope key: the look-up
\* and the INSERT are two statements with no UNIQUE column behind them, and the
\* key's own worker is the only one that files under it.
THEOREM OneLive == Spec => []OneLiveRequest
PROOF
  <1>1. QED
    BY Invariance, AtMostOneLive, PTL

\* A worker past its gate acts under an approved row, and no later request of
\* that key exists, so no later denial is overridden.
THEOREM ConsentHeld == Spec => []Consented
PROOF
  <1>1. IInv => Consented
    BY DEF IInv, WorkerOK, Consented, Holds
  <1>2. QED
    BY <1>1, Invariance, PTL

-----------------------------------------------------------------------------
(* Answers are final *)

KeepsAnswers ==
  \A i \in DOMAIN rows :
    /\ i \in DOMAIN rows' /\ rows'[i].key = rows[i].key
    /\ rows[i].state \in Verdicts => rows'[i].state = rows[i].state

LEMMA RequestKeeps ==
  ASSUME IInv, NEW w \in Workers, Request(w)
  PROVE  KeepsAnswers
PROOF
  <1>0. TypeOK /\ rows \in Seq(Row) /\ WorkerOK(w)
    BY DEF IInv, TypeOK
  <1>1. ASSUME Insert(w) PROVE KeepsAnswers
    <2>1. CASE UNCHANGED rows
      BY <2>1 DEF KeepsAnswers
    <2>2. CASE rows' # rows
      <3>1. rows' = Append(rows, [ticket |-> 0, key |-> ask[w].key, state |-> "pending"])
        BY <1>1, <2>2 DEF Insert
      <3>2. \A i \in DOMAIN rows : i \in DOMAIN rows' /\ rows'[i] = rows[i]
        BY <1>0, <3>1
      <3>3. QED
        BY <3>2 DEF KeepsAnswers
    <2>3. QED
      BY <2>1, <2>2
  <1>2. ASSUME Stamp(w) PROVE KeepsAnswers
    <2> DEFINE r == ask[w].row
    <2>1. r \in DOMAIN rows /\ rows[r] \in Row
      BY <1>0, <1>2, RowShape DEF Stamp, WorkerOK, Holds
    <2>2. DOMAIN rows' = DOMAIN rows /\ rows'[r] = [rows[r] EXCEPT !.ticket = r]
          /\ \A i \in DOMAIN rows : i # r => rows'[i] = rows[i]
      BY <1>2, <2>1 DEF Stamp
    <2>3. rows'[r].key = rows[r].key /\ rows'[r].state = rows[r].state
      BY <2>1, <2>2 DEF Row
    <2>4. QED
      BY <2>2, <2>3 DEF KeepsAnswers
  <1>3. ASSUME SettleOwn(w) PROVE KeepsAnswers
    <2> DEFINE t == rows[ask[w].row].ticket
    <2>1. ask[w].row \in DOMAIN rows /\ t \in Nat /\ "approved" \in Verdicts
      BY <1>0, <1>3, RowShape DEF SettleOwn, WorkerOK, Holds, Verdicts
    <2>2. rows' = SettleApproval(t, "approved")
      BY <1>3 DEF SettleOwn
    <2> HIDE DEF t
    <2>3. QED
      BY <2>1, <2>2, SettleKeeps DEF KeepsAnswers
  <1>4. CASE Reread(w) \/ ReadAll(w) \/ ReadKind(w) \/ Fetch(w)
    BY <1>4 DEF Reread, ReadAll, ReadKind, Fetch, KeepsAnswers
  <1>5. QED
    BY <1>1, <1>2, <1>3, <1>4 DEF Request

LEMMA TableFrame ==
  ASSUME Next
  PROVE  \/ \E w \in Workers : Request(w)
         \/ \E o \in Owners : SettleNext(o)
         \/ UNCHANGED rows
PROOF
  BY DEF Next, Loop, Park, PollGate, Retake, StepOver, Reuse, AskNew, CrashLoop, Command, KillCommand,
         ListPending, CheckNext, AnswerOne, AnswerAll, OpenAllow, CloseAllow

\* settle_approval's "WHERE state='pending'" makes the first answer the only one,
\* whichever process or session gives it and wherever any of them is killed.
THEOREM AnswersAreFinal == Spec => AnswersFinal
PROOF
  <1>1. IInv /\ [Next]_vars => [KeepsAnswers]_vars
    <2> SUFFICES ASSUME IInv, Next PROVE KeepsAnswers
      OBVIOUS
    <2>1. ASSUME NEW w \in Workers, Request(w) PROVE KeepsAnswers
      BY <2>1, RequestKeeps
    <2>2. ASSUME NEW o \in Owners, SettleNext(o) PROVE KeepsAnswers
      BY <2>2, CommandTable DEF KeepsAnswers
    <2>3. CASE UNCHANGED rows
      BY <2>3 DEF KeepsAnswers
    <2>4. QED
      BY <2>1, <2>2, <2>3, TableFrame
  <1>2. QED
    BY <1>1, Invariance, PTL DEF Spec, AnswersFinal, KeepsAnswers

-----------------------------------------------------------------------------
(* The placeholder ticket *)

\* As long as the loop lives, a row without its ticket is the one that some
\* worker is about to stamp.
PlaceholderOwned ==
  "loop" \notin killed => \A i \in DOMAIN rows : rows[i].ticket = 0 =>
    \E w \in Workers : ask[w].at = "stamp" /\ ask[w].row = i

FiledInv == PlaceholderOwned /\ RequestsAreFiled

\* A step that leaves the tickets alone, takes no worker from its stamp and
\* makes none fail.
LEMMA QuietStep ==
  ASSUME FiledInv, killed \subseteq killed', DOMAIN rows' = DOMAIN rows,
         \A i \in DOMAIN rows : rows'[i].ticket = rows[i].ticket,
         \A w \in Workers : /\ ask[w].at = "stamp" => ask'[w].at = "stamp" /\ ask'[w].row = ask[w].row
                            /\ ask'[w].at = "failed" => ask[w].at = "failed"
  PROVE  FiledInv'
PROOF
  <1>1. RequestsAreFiled'
    BY DEF FiledInv, RequestsAreFiled
  <1>2. PlaceholderOwned'
    BY DEF FiledInv, PlaceholderOwned
  <1>3. QED
    BY <1>1, <1>2 DEF FiledInv

\* The same for a step of one worker that is not at its stamp.
LEMMA QuietWorker ==
  ASSUME FiledInv, TypeOK, NEW w \in Workers, NEW a,
         ask' = [ask EXCEPT ![w] = a], ask[w].at # "stamp", a.at # "failed" \/ ask[w].at = "failed",
         UNCHANGED <<rows, killed>>
  PROVE  FiledInv'
PROOF
  <1>1. ask'[w] = a /\ \A v \in Workers \ {w} : ask'[v] = ask[v]
    BY DEF TypeOK
  <1>2. QED
    BY <1>1, QuietStep

LEMMA FiledRequest ==
  ASSUME IInv, FiledInv, NEW w \in Workers, Request(w)
  PROVE  FiledInv'
PROOF
  <1>0. TypeOK /\ rows \in Seq(Row) /\ WorkerOK(w) /\ ask[w] \in Ask
    BY DEF IInv, TypeOK
  <1>1. ASSUME Insert(w) PROVE FiledInv'
    <2>1. ask[w].at = "insert" /\ UNCHANGED killed /\ \A v \in Workers \ {w} : ask[v].at # "stamp"
      BY <1>1 DEF Insert, LockFree
    <2>2. CASE \E i \in DOMAIN rows : rows[i].ticket = 0
      <3>1. "loop" \in killed'
        BY <2>1, <2>2 DEF FiledInv, PlaceholderOwned
      <3>2. QED
        BY <3>1 DEF FiledInv, PlaceholderOwned, RequestsAreFiled
    <2>3. CASE ~\E i \in DOMAIN rows : rows[i].ticket = 0
      <3>1. rows' = Append(rows, [ticket |-> 0, key |-> ask[w].key, state |-> "pending"])
            /\ ask' = [ask EXCEPT ![w].at = "stamp", ![w].row = Len(rows) + 1]
        BY <1>1, <2>3 DEF Insert
      <3>2. \A i \in DOMAIN rows' : i # Len(rows) + 1 => i \in DOMAIN rows /\ rows'[i] = rows[i]
        BY <1>0, <3>1
      <3>3. ask'[w] = [[ask[w] EXCEPT !.at = "stamp"] EXCEPT !.row = Len(rows) + 1]
            /\ \A v \in Workers \ {w} : ask'[v] = ask[v]
        BY <1>0, <3>1 DEF TypeOK
      <3>4. ask'[w].at = "stamp" /\ ask'[w].row = Len(rows) + 1
        BY <1>0, <3>3 DEF Ask
      <3>5. PlaceholderOwned'
        BY <2>3, <3>2, <3>4 DEF PlaceholderOwned
      <3>6. RequestsAreFiled'
        BY <2>1, <3>3, <3>4 DEF FiledInv, RequestsAreFiled
      <3>7. QED
        BY <3>5, <3>6 DEF FiledInv
    <2>4. QED
      BY <2>2, <2>3
  <1>2. ASSUME Stamp(w) PROVE FiledInv'
    <2> DEFINE r == ask[w].row
    <2>1. r \in DOMAIN rows /\ rows[r] \in Row /\ r \in Nat \ {0}
      BY <1>0, <1>2, RowShape DEF Stamp, WorkerOK, Holds
    <2>2. DOMAIN rows' = DOMAIN rows /\ rows'[r] = [rows[r] EXCEPT !.ticket = r]
          /\ \A i \in DOMAIN rows : i # r => rows'[i] = rows[i]
      BY <1>2, <2>1 DEF Stamp
    <2>3. rows'[r].ticket # 0
      BY <2>1, <2>2 DEF Row
    <2>4. ask'[w].at = "reread" /\ UNCHANGED killed /\ \A v \in Workers \ {w} : ask'[v] = ask[v]
      BY <1>0, <1>2 DEF Stamp, TypeOK, Ask
    <2>5. ASSUME "loop" \notin killed', NEW i \in DOMAIN rows', rows'[i].ticket = 0
          PROVE  \E v \in Workers : ask'[v].at = "stamp" /\ ask'[v].row = i
      <3>1. i \in DOMAIN rows /\ i # r /\ rows[i].ticket = 0
        BY <2>2, <2>3, <2>5
      <3>2. PICK v \in Workers : ask[v].at = "stamp" /\ ask[v].row = i
        BY <2>4, <2>5, <3>1 DEF FiledInv, PlaceholderOwned
      <3>3. v # w
        BY <3>1, <3>2
      <3>4. QED
        BY <2>4, <3>2, <3>3
    <2>6. RequestsAreFiled'
      BY <2>4 DEF FiledInv, RequestsAreFiled
    <2>7. QED
      BY <2>5, <2>6 DEF FiledInv, PlaceholderOwned
  <1>3. ASSUME ReadAll(w) PROVE FiledInv'
    BY <1>0, <1>3, QuietStep DEF ReadAll, TypeOK, Ask
  <1>4. ASSUME ReadKind(w) PROVE FiledInv'
    BY <1>0, <1>4, QuietStep DEF ReadKind, TypeOK, Ask
  <1>5. ASSUME SettleOwn(w) PROVE FiledInv'
    <2>1. ask[w].row \in DOMAIN rows /\ rows[ask[w].row].ticket \in Nat /\ "approved" \in Verdicts
      BY <1>0, <1>5, RowShape DEF SettleOwn, WorkerOK, Holds, Verdicts
    <2>2. DOMAIN rows' = DOMAIN rows /\ \A i \in DOMAIN rows : rows'[i].ticket = rows[i].ticket
      BY <1>0, <1>5, <2>1, SettleRows DEF SettleOwn
    <2>3. UNCHANGED killed /\ ask[w].at = "settle" /\ ask'[w].at = "fetch" /\ \A v \in Workers \ {w} : ask'[v] = ask[v]
      BY <1>0, <1>5 DEF SettleOwn, TypeOK, Ask
    <2>4. QED
      BY <2>2, <2>3, QuietStep
  <1>6. ASSUME Fetch(w) PROVE FiledInv'
    <2>1. UNCHANGED <<rows, killed>> /\ ask[w].at = "fetch"
          /\ ask'[w].at = Reply(rows[ask[w].row].state) /\ \A v \in Workers \ {w} : ask'[v] = ask[v]
      BY <1>0, <1>6 DEF Fetch, TypeOK, Ask
    <2>2. ask[w].row \in DOMAIN rows /\ rows[ask[w].row].state \in {"pending", "approved", "denied"}
      BY <1>0, <2>1, RowShape DEF WorkerOK, Holds, Row, Verdicts
    <2>3. ask'[w].at # "failed"
      BY <2>1, <2>2 DEF Reply
    <2>4. QED
      BY <2>1, <2>3, QuietStep
  <1>7. ASSUME Reread(w) PROVE FiledInv'
    <2> DEFINE s == rows[ask[w].row].state
               p == IF s = "pending" THEN "flagAll" ELSE Reply(s)
    <2>1. UNCHANGED <<rows, killed>> /\ ask[w].at = "reread"
          /\ ask'[w].at = p /\ \A v \in Workers \ {w} : ask'[v] = ask[v]
      BY <1>0, <1>7 DEF Reread, TypeOK, Ask
    <2>2. ask[w].row \in DOMAIN rows /\ s \in {"pending", "approved", "denied"}
      BY <1>0, <2>1, RowShape DEF WorkerOK, Holds, Row, Verdicts
    <2>3. ask'[w].at # "failed"
      BY <2>1, <2>2 DEF Reply
    <2>4. QED
      BY <2>1, <2>3, QuietStep
  <1>8. QED
    BY <1>1, <1>2, <1>3, <1>4, <1>5, <1>6, <1>7 DEF Request

LEMMA FiledNext == IInv /\ FiledInv /\ [Next]_vars => FiledInv'
PROOF
  <1> SUFFICES ASSUME IInv, FiledInv, [Next]_vars PROVE FiledInv'
    OBVIOUS
  <1>0. TypeOK /\ rows \in Seq(Row)
    BY DEF IInv, TypeOK
  <1>1. ASSUME NEW w \in Workers, Request(w) PROVE FiledInv'
    BY <1>1, FiledRequest
  <1>2. ASSUME NEW w \in Workers, Loop(w) PROVE FiledInv'
    <2>1. UNCHANGED <<rows, killed>> /\ ask[w].at # "stamp" /\ ask'[w].at \in {"idle", "parked", "refused"}
          /\ \A v \in Workers \ {w} : ask'[v] = ask[v]
      BY <1>0, <1>2 DEF Loop, Park, PollGate, Retake, StepOver, NoAsk, TypeOK, Ask
    <2>2. QED
      BY <2>1, QuietStep
  <1>3. ASSUME NEW w \in Workers, NEW k \in Keys, Reuse(w, k) \/ AskNew(w, k) PROVE FiledInv'
    <2>1. UNCHANGED <<rows, killed>> /\ ask[w].at = "idle" /\ \A v \in Workers \ {w} : ask'[v] = ask[v]
      BY <1>0, <1>3 DEF Reuse, AskNew, TypeOK
    <2>2. ask'[w].at # "failed"
      <3>1. CASE AskNew(w, k)
        BY <1>0, <3>1 DEF AskNew, NoAsk, TypeOK
      <3>2. CASE Reuse(w, k)
        <4>1. PICK i \in LiveRows(k) : ask' = [ask EXCEPT ![w] = [at |-> Reply(rows[i].state), key |-> k, row |-> i, best |-> FALSE]]
          BY <3>2 DEF Reuse
        <4>2. rows[i].state \in {"pending", "approved"} /\ ask'[w].at = Reply(rows[i].state)
          BY <1>0, <4>1 DEF LiveRows, TypeOK
        <4>3. QED
          BY <4>2 DEF Reply
      <3>3. QED
        BY <1>3, <3>1, <3>2
    <2>3. QED
      BY <2>1, <2>2, QuietStep
  <1>4. CASE CrashLoop
    BY <1>4 DEF CrashLoop, FiledInv, PlaceholderOwned, RequestsAreFiled
  <1>5. ASSUME NEW o \in Owners, Command(o) PROVE FiledInv'
    <2>1. UNCHANGED <<ask, killed>>
      BY <1>5 DEF Command, ListPending, SettleNext, CheckNext
    <2>2. DOMAIN rows' = DOMAIN rows /\ \A i \in DOMAIN rows : rows'[i].ticket = rows[i].ticket
      <3>1. CASE SettleNext(o)
        <4>1. PICK e \in cmd[o].todo : rows' = SettleApproval(e.ticket, cmd[o].verdict)
          BY <3>1 DEF SettleNext
        <4>2. e.ticket \in Nat /\ cmd[o].verdict \in Verdicts
          BY <1>0, <4>1 DEF TypeOK, Cmd, Listed
        <4>3. QED
          BY <1>0, <4>1, <4>2, SettleRows
      <3>2. CASE ~SettleNext(o)
        BY <1>5, <3>2 DEF Command, ListPending, CheckNext
      <3>3. QED
        BY <3>1, <3>2
    <2>3. QED
      BY <2>1, <2>2, QuietStep
  <1>6. CASE UNCHANGED <<rows, ask>> /\ killed \subseteq killed'
    BY <1>6, QuietStep
  <1>7. QED
    BY <1>1, <1>2, <1>3, <1>4, <1>5, <1>6
    DEF Next, KillCommand, AnswerOne, AnswerAll, OpenAllow, CloseAllow, vars

\* Two workers' requests never fail on each other's placeholder ticket: the
\* store's lock is held from the INSERT to the UPDATE, so a request fails only
\* after the loop was killed between the two.
THEOREM NoRequestFails == Spec => []RequestsAreFiled
PROOF
  <1>1. Init => FiledInv
    BY DEF Init, FiledInv, PlaceholderOwned, RequestsAreFiled, NoAsk
  <1>2. FiledInv => RequestsAreFiled
    BY DEF FiledInv
  <1>3. QED
    BY <1>1, <1>2, Invariance, FiledNext, PTL DEF Spec

-----------------------------------------------------------------------------
(* A denial reaches the task *)

\* A worker asks under its own keys only.  As long as the loop lives, some worker
\* holds every request that is not approved, until its denial has been told or the
\* owner took its step back.
OwnKeys == \A w \in Workers : ask[w].key \in KeysOf[w] \cup {NoKey}
Awaited(i) == \E w \in Workers : ask[w].at \in Holds /\ ask[w].row = i
AwaitedUntilTold ==
  "loop" \notin killed =>
    \A i \in DOMAIN rows : rows[i].state # "approved" => i \in told \cup retaken \/ Awaited(i)

DenialInv == OwnKeys /\ AwaitedUntilTold

\* A step that files nothing, and in which a worker lets go of a row only when
\* the row is approved, its denial is told or the owner takes its step back.
LEMMA AwaitStep ==
  ASSUME DenialInv, \A i \in told \cup retaken : i \in told' \cup retaken' \/ Awaited(i)', killed \subseteq killed', DOMAIN rows' = DOMAIN rows,
         \A i \in DOMAIN rows : rows'[i].state # "approved" => rows[i].state # "approved",
         \A w \in Workers :
           /\ ask'[w].key \in KeysOf[w] \cup {NoKey}
           /\ ask[w].at \in Holds =>
                \/ ask'[w].at \in Holds /\ ask'[w].row = ask[w].row
                \/ rows'[ask[w].row].state = "approved" \/ ask[w].row \in told' \cup retaken'
  PROVE  DenialInv'
PROOF
  <1>1. ASSUME "loop" \notin killed', NEW i \in DOMAIN rows', rows'[i].state # "approved", i \notin told' \cup retaken'
        PROVE  Awaited(i)'
    <2>1. CASE i \in told \cup retaken
      BY <1>1, <2>1
    <2>2. CASE i \notin told \cup retaken
      <3>1. i \in DOMAIN rows /\ rows[i].state # "approved" /\ "loop" \notin killed
        BY <1>1
      <3>2. PICK w \in Workers : ask[w].at \in Holds /\ ask[w].row = i
        BY <2>2, <3>1 DEF DenialInv, AwaitedUntilTold, Awaited
      <3>3. ask'[w].at \in Holds /\ ask'[w].row = i
        BY <1>1, <3>2
      <3>4. QED
        BY <3>3 DEF Awaited
    <2>3. QED
      BY <2>1, <2>2
  <1>2. QED
    BY <1>1 DEF DenialInv, OwnKeys, AwaitedUntilTold

\* The same for the step of one worker that leaves the table alone.
LEMMA AwaitWorker ==
  ASSUME DenialInv, TypeOK, NEW w \in Workers, NEW a,
         ask' = [ask EXCEPT ![w] = a], UNCHANGED <<rows, killed>>, told \cup retaken \subseteq told' \cup retaken',
         a.key \in KeysOf[w] \cup {NoKey},
         ask[w].at \in Holds =>
           \/ a.at \in Holds /\ a.row = ask[w].row
           \/ rows[ask[w].row].state = "approved" \/ ask[w].row \in told' \cup retaken'
  PROVE  DenialInv'
PROOF
  <1>1. ask'[w] = a /\ \A v \in Workers \ {w} : ask'[v] = ask[v]
    BY DEF TypeOK
  <1>2. ASSUME NEW v \in Workers
        PROVE  /\ ask'[v].key \in KeysOf[v] \cup {NoKey}
               /\ ask[v].at \in Holds =>
                    \/ ask'[v].at \in Holds /\ ask'[v].row = ask[v].row
                    \/ rows'[ask[v].row].state = "approved" \/ ask[v].row \in told' \cup retaken'
    BY <1>1 DEF DenialInv, OwnKeys
  <1>3. QED
    BY <1>2, AwaitStep

LEMMA AwaitInsert ==
  ASSUME IInv, DenialInv, NEW w \in Workers, Insert(w)
  PROVE  DenialInv'
PROOF
  <1>0. TypeOK /\ rows \in Seq(Row) /\ WorkerOK(w) /\ ask[w] \in Ask
    BY DEF IInv, TypeOK
  <1>1. CASE \E i \in DOMAIN rows : rows[i].ticket = 0
    <2>1. /\ ask' = [ask EXCEPT ![w] = [NoAsk EXCEPT !.at = "failed"]]
          /\ UNCHANGED <<rows, killed, told, retaken>> /\ ask[w].at = "insert"
      BY <1>1 DEF Insert
    <2>2. [NoAsk EXCEPT !.at = "failed"].key = NoKey
      BY DEF NoAsk
    <2>3. QED
      BY <1>0, <2>1, <2>2, AwaitWorker DEF Holds
  <1>2. CASE ~\E i \in DOMAIN rows : rows[i].ticket = 0
    <2> DEFINE n == Len(rows) + 1
               a == [at |-> "stamp", key |-> ask[w].key, row |-> n, best |-> ask[w].best]
    <2>1. /\ rows' = Append(rows, [ticket |-> 0, key |-> ask[w].key, state |-> "pending"])
          /\ UNCHANGED <<killed, told, retaken>> /\ ask[w].at = "insert"
      BY <1>2 DEF Insert
    <2>2. \A i \in DOMAIN rows' : i # n => i \in DOMAIN rows /\ rows'[i] = rows[i]
      BY <1>0, <2>1
    <2>3. ask' = [ask EXCEPT ![w] = a]
      <3>1. [ask[w] EXCEPT !.at = "stamp", !.row = n] = a
        BY <1>0, AtAndRow DEF AskPoint
      <3>2. QED
        BY <1>2, <3>1 DEF Insert
    <2>4. ask'[w] = a /\ \A v \in Workers \ {w} : ask'[v] = ask[v]
      BY <1>0, <2>3 DEF TypeOK
    <2>5. OwnKeys'
      BY <2>4 DEF DenialInv, OwnKeys
    <2>6. ASSUME "loop" \notin killed', NEW i \in DOMAIN rows', rows'[i].state # "approved", i \notin told' \cup retaken'
          PROVE  Awaited(i)'
      <3>1. CASE i = n
        BY <2>4, <3>1 DEF Awaited, Holds
      <3>2. CASE i # n
        <4>1. i \in DOMAIN rows /\ rows[i].state # "approved" /\ i \notin told \cup retaken /\ "loop" \notin killed
          BY <2>1, <2>2, <2>6, <3>2
        <4>2. PICK v \in Workers : ask[v].at \in Holds /\ ask[v].row = i
          BY <4>1 DEF DenialInv, AwaitedUntilTold, Awaited
        <4>3. v # w
          BY <2>1, <4>2 DEF Holds
        <4>4. QED
          BY <2>4, <4>2, <4>3 DEF Awaited
      <3>3. QED
        BY <3>1, <3>2
    <2>7. QED
      BY <2>5, <2>6 DEF DenialInv, AwaitedUntilTold
  <1>3. QED
    BY <1>1, <1>2

\* The other statements of a request: the row stays in hand until the task is
\* told of its denial (Fetch reads it back).
LEMMA AwaitRequest ==
  ASSUME IInv, DenialInv, NEW w \in Workers, Request(w)
  PROVE  DenialInv'
PROOF
  <1>0. TypeOK /\ rows \in Seq(Row) /\ WorkerOK(w) /\ ask[w] \in Ask
    BY DEF IInv, TypeOK
  <1>1. ask[w].key \in KeysOf[w] \cup {NoKey}
    BY DEF DenialInv, OwnKeys
  <1>2. ASSUME Insert(w) PROVE DenialInv'
    BY <1>2, AwaitInsert
  <1>3. ASSUME Stamp(w) \/ SettleOwn(w) PROVE DenialInv'
    <2>1. ask[w].at \in Holds /\ ask[w].row \in DOMAIN rows
      BY <1>0, <1>3 DEF Stamp, SettleOwn, WorkerOK, Holds
    <2>2. DOMAIN rows' = DOMAIN rows
          /\ \A i \in DOMAIN rows : rows'[i].state # "approved" => rows[i].state # "approved"
      <3>1. CASE Stamp(w)
        <4>1. rows' = [rows EXCEPT ![ask[w].row] = [rows[ask[w].row] EXCEPT !.ticket = ask[w].row]]
          BY <3>1 DEF Stamp
        <4>2. rows[ask[w].row] \in Row
          BY <1>0, <2>1, RowShape
        <4>3. [rows[ask[w].row] EXCEPT !.ticket = ask[w].row].state = rows[ask[w].row].state
          BY <4>2 DEF Row
        <4>4. QED
          BY <1>0, <2>1, <4>1, <4>3
      <3>2. CASE SettleOwn(w)
        <4>1. rows[ask[w].row].ticket \in Nat /\ "approved" \in Verdicts
          BY <1>0, <2>1, RowShape DEF Verdicts
        <4>2. rows' = SettleApproval(rows[ask[w].row].ticket, "approved")
          BY <3>2 DEF SettleOwn
        <4>3. DOMAIN rows' = DOMAIN rows
              /\ \A i \in DOMAIN rows : rows[i].state \in Verdicts => rows'[i].state = rows[i].state
          BY <4>1, <4>2, SettleKeeps
        <4>4. QED
          BY <4>3 DEF Verdicts
      <3>3. QED
        BY <1>3, <3>1, <3>2
    <2>3. PICK p \in {"reread", "fetch"} : ask' = [ask EXCEPT ![w] = [ask[w] EXCEPT !.at = p]]
      BY <1>3 DEF Stamp, SettleOwn
    <2>4. /\ ask'[w] = [at |-> p, key |-> ask[w].key, row |-> ask[w].row, best |-> ask[w].best]
          /\ \A v \in Workers \ {w} : ask'[v] = ask[v]
      BY <1>0, <2>3, AtOnly DEF TypeOK
    <2>5. UNCHANGED <<killed, told, retaken>>
      BY <1>3 DEF Stamp, SettleOwn
    <2>6. ASSUME NEW v \in Workers
          PROVE  /\ ask'[v].key \in KeysOf[v] \cup {NoKey}
                 /\ ask[v].at \in Holds => ask'[v].at \in Holds /\ ask'[v].row = ask[v].row
      BY <1>1, <2>3, <2>4 DEF DenialInv, OwnKeys, Holds
    <2>7. QED
      BY <2>2, <2>5, <2>6, AwaitStep
  <1>4. ASSUME ReadAll(w) PROVE DenialInv'
    <2> DEFINE a == [ask[w] EXCEPT !.at = "flagKind", !.best = "all" \in open]
    <2>1. a.key = ask[w].key /\ a.row = ask[w].row /\ a.at = "flagKind"
      BY <1>0 DEF Ask
    <2> HIDE DEF a
    <2>2. ask' = [ask EXCEPT ![w] = a] /\ UNCHANGED <<rows, killed, told, retaken>>
      BY <1>4 DEF ReadAll, a
    <2>3. QED
      BY <1>0, <1>1, <2>1, <2>2, AwaitWorker DEF Holds
  <1>5. ASSUME ReadKind(w) PROVE DenialInv'
    <2> DEFINE p == IF ask[w].best \/ KindOf[ask[w].key] \in open THEN "settle" ELSE "asked"
    <2>0. p \in {"settle", "asked"}
      OBVIOUS
    <2> HIDE DEF p
    <2> DEFINE a == [ask[w] EXCEPT !.at = p, !.best = FALSE]
    <2>1. a.key = ask[w].key /\ a.row = ask[w].row /\ a.at = p
      BY <1>0 DEF Ask
    <2> HIDE DEF a
    <2>2. ask' = [ask EXCEPT ![w] = a] /\ UNCHANGED <<rows, killed, told, retaken>>
      BY <1>5 DEF ReadKind, a, p
    <2>3. QED
      BY <1>0, <1>1, <2>0, <2>1, <2>2, AwaitWorker DEF Holds
  <1>6. ASSUME Fetch(w) PROVE DenialInv'
    <2> DEFINE s == rows[ask[w].row].state
               a == [ask[w] EXCEPT !.at = Reply(s)]
    <2>1. ask[w].row \in DOMAIN rows /\ s \in {"pending", "approved", "denied"}
      BY <1>0, <1>6, RowShape DEF Fetch, WorkerOK, Holds
    <2>2. a.key = ask[w].key /\ a.row = ask[w].row /\ a.at = Reply(s)
      BY <1>0 DEF Ask
    <2>3. s = "denied" => ask[w].row \in told'
      BY <1>6 DEF Fetch, DeniedOf
    <2>4. s = "pending" => Reply(s) = "asked"
      BY DEF Reply
    <2> HIDE DEF a
    <2>5. ask' = [ask EXCEPT ![w] = a] /\ UNCHANGED <<rows, killed>> /\ told \cup retaken \subseteq told' \cup retaken'
      BY <1>6 DEF Fetch, a
    <2>6. QED
      BY <1>0, <1>1, <2>1, <2>2, <2>3, <2>4, <2>5, AwaitWorker DEF Holds
  <1>7. ASSUME Reread(w) PROVE DenialInv'
    <2> DEFINE s == rows[ask[w].row].state
               p == IF s = "pending" THEN "flagAll" ELSE Reply(s)
               a == [ask[w] EXCEPT !.at = p]
    <2>1. ask[w].row \in DOMAIN rows /\ s \in {"pending", "approved", "denied"}
      BY <1>0, <1>7, RowShape DEF Reread, WorkerOK, Holds
    <2>2. a.key = ask[w].key /\ a.row = ask[w].row /\ a.at = p
      BY <1>0 DEF Ask
    <2>3. s = "denied" => ask[w].row \in told'
      BY <1>7 DEF Reread, DeniedOf
    <2>4. s = "pending" => p \in Holds
      BY DEF Holds
    <2> HIDE DEF a, p
    <2>5. ask' = [ask EXCEPT ![w] = a] /\ UNCHANGED <<rows, killed>> /\ told \cup retaken \subseteq told' \cup retaken'
      BY <1>7 DEF Reread, a, p
    <2>6. QED
      BY <1>0, <1>1, <2>1, <2>2, <2>3, <2>4, <2>5, AwaitWorker
  <1>8. QED
    BY <1>2, <1>3, <1>4, <1>5, <1>6, <1>7 DEF Request

\* A parked step is woken by its answer, and told of it when it is no.
LEMMA AwaitLoop ==
  ASSUME IInv, DenialInv, NEW w \in Workers, Loop(w)
  PROVE  DenialInv'
PROOF
  <1>0. TypeOK /\ rows \in Seq(Row) /\ WorkerOK(w) /\ ask[w] \in Ask
    BY DEF IInv, TypeOK
  <1>1. ask[w].key \in KeysOf[w] \cup {NoKey}
    BY DEF DenialInv, OwnKeys
  <1>2. NoAsk.key = NoKey /\ [NoAsk EXCEPT !.at = "refused"].key = NoKey
    BY DEF NoAsk
  <1>3. ASSUME Park(w) PROVE DenialInv'
    <2> DEFINE a == [ask[w] EXCEPT !.at = "parked"]
    <2>1. a.key = ask[w].key /\ a.row = ask[w].row /\ a.at = "parked"
      BY <1>0 DEF Ask
    <2> HIDE DEF a
    <2>2. ask' = [ask EXCEPT ![w] = a] /\ UNCHANGED <<rows, killed, told, retaken>>
      BY <1>3 DEF Park, a
    <2>3. QED
      BY <1>0, <1>1, <2>1, <2>2, AwaitWorker DEF Holds
  <1>4. ASSUME PollGate(w) PROVE DenialInv'
    <2> DEFINE a == IF rows[ask[w].row].state = "approved" THEN NoAsk ELSE [NoAsk EXCEPT !.at = "refused"]
    <2>1. a.key = NoKey
      BY <1>2
    <2>2. ask' = [ask EXCEPT ![w] = a] /\ UNCHANGED <<rows, killed>> /\ told \cup retaken \subseteq told' \cup retaken'
      BY <1>4 DEF PollGate
    <2>3. rows[ask[w].row].state = "approved" \/ ask[w].row \in told'
      BY <1>4 DEF PollGate, DeniedOf, Verdicts
    <2> HIDE DEF a
    <2>4. QED
      BY <1>0, <2>1, <2>2, <2>3, AwaitWorker
  <1>5. ASSUME StepOver(w) PROVE DenialInv'
    <2>1. ask' = [ask EXCEPT ![w] = NoAsk] /\ UNCHANGED <<rows, killed, told, retaken>>
      BY <1>5 DEF StepOver
    <2>2. ask[w].at \in Holds => rows[ask[w].row].state = "approved"
      BY <1>0, <1>5 DEF StepOver, WorkerOK, Holds
    <2>3. QED
      BY <1>0, <1>2, <2>1, <2>2, AwaitWorker
  <1>6. ASSUME Retake(w) PROVE DenialInv'
    <2>1. ask' = [ask EXCEPT ![w] = NoAsk] /\ UNCHANGED <<rows, killed>>
          /\ told \cup retaken \subseteq told' \cup retaken' /\ ask[w].row \in told' \cup retaken'
      BY <1>6 DEF Retake
    <2>2. QED
      BY <1>0, <1>2, <2>1, AwaitWorker
  <1>7. QED
    BY <1>3, <1>4, <1>5, <1>6 DEF Loop

LEMMA DenialNext == IInv /\ DenialInv /\ [Next]_vars => DenialInv'
PROOF
  <1> SUFFICES ASSUME IInv, DenialInv, [Next]_vars PROVE DenialInv'
    OBVIOUS
  <1>0. TypeOK /\ rows \in Seq(Row)
    BY DEF IInv, TypeOK
  <1>1. ASSUME NEW w \in Workers, Request(w) PROVE DenialInv'
    BY <1>1, AwaitRequest
  <1>2. ASSUME NEW w \in Workers, Loop(w) PROVE DenialInv'
    BY <1>2, AwaitLoop
  <1>3. ASSUME NEW w \in Workers, NEW k \in Keys, Reuse(w, k) \/ AskNew(w, k) PROVE DenialInv'
    <2>1. ask[w].at \notin Holds /\ k \in KeysOf[w] /\ UNCHANGED <<rows, killed, told>>
      BY <1>3 DEF Reuse, AskNew, Holds
    <2>2. \E a : /\ ask' = [ask EXCEPT ![w] = a] /\ a.key = k
                 /\ \A i \in retaken : i \in retaken' \/ (a.row = i /\ a.at \in Holds)
      <3>1. CASE AskNew(w, k)
        <4>1. [NoAsk EXCEPT !.at = "insert", !.key = k] = [at |-> "insert", key |-> k, row |-> 0, best |-> FALSE]
          BY NoAskAt DEF AskPoint
        <4>2. \A i \in retaken : i \in retaken'
          BY <3>1 DEF AskNew
        <4> DEFINE a == [at |-> "insert", key |-> k, row |-> 0, best |-> FALSE]
        <4>3. a.key = k
          OBVIOUS
        <4> HIDE DEF a
        <4>4. ask' = [ask EXCEPT ![w] = a]
          BY <3>1, <4>1 DEF AskNew, a
        <4>5. \A i \in retaken : i \in retaken' \/ (a.row = i /\ a.at \in Holds)
          BY <4>2
        <4>6. QED
          BY <4>3, <4>4, <4>5, Zenon
      <3>2. CASE Reuse(w, k)
        <4>1. PICK i \in LiveRows(k) :
                /\ ask' = [ask EXCEPT ![w] = [at |-> Reply(rows[i].state), key |-> k, row |-> i, best |-> FALSE]]
                /\ retaken' = retaken \ {i}
          BY <3>2 DEF Reuse
        <4> DEFINE a == [at |-> Reply(rows[i].state), key |-> k, row |-> i, best |-> FALSE]
        <4>2. a.key = k /\ a.row = i /\ a.at \in Holds
          BY <4>1 DEF LiveRows, Reply, Holds
        <4> HIDE DEF a
        <4>3. ask' = [ask EXCEPT ![w] = a]
          BY <4>1 DEF a
        <4>4. QED
          BY <4>1, <4>2, <4>3
      <3>3. QED
        BY <1>3, <3>1, <3>2
    <2>3. PICK a : /\ ask' = [ask EXCEPT ![w] = a] /\ a.key = k
                   /\ \A i \in retaken : i \in retaken' \/ (a.row = i /\ a.at \in Holds)
      BY <2>2
    <2>4. ask'[w] = a /\ \A v \in Workers \ {w} : ask'[v] = ask[v]
      BY <1>0, <2>3 DEF TypeOK
    <2>5. \A i \in told \cup retaken : i \in told' \cup retaken' \/ Awaited(i)'
      BY <2>1, <2>3, <2>4 DEF Awaited
    <2>6. ASSUME NEW v \in Workers
          PROVE  /\ ask'[v].key \in KeysOf[v] \cup {NoKey}
                 /\ ask[v].at \in Holds => ask'[v].at \in Holds /\ ask'[v].row = ask[v].row
      BY <2>1, <2>3, <2>4 DEF DenialInv, OwnKeys
    <2>7. QED
      BY <2>1, <2>5, <2>6, AwaitStep
  <1>4. CASE CrashLoop
    <2>1. "loop" \in killed' /\ ask' = [v \in Workers |-> IF ask[v].at = "parked" THEN ask[v] ELSE NoAsk]
      BY <1>4 DEF CrashLoop
    <2>2. NoAsk.key = NoKey
      BY DEF NoAsk
    <2>3. QED
      BY <2>1, <2>2 DEF DenialInv, OwnKeys, AwaitedUntilTold
  <1>5. ASSUME NEW o \in Owners, SettleNext(o) PROVE DenialInv'
    <2>1. UNCHANGED <<ask, killed, told, retaken>>
      BY <1>5 DEF SettleNext
    <2>2. DOMAIN rows' = DOMAIN rows
          /\ \A i \in DOMAIN rows : rows[i].state \in Verdicts => rows'[i].state = rows[i].state
      BY <1>5, CommandTable
    <2>3. \A i \in DOMAIN rows : rows'[i].state # "approved" => rows[i].state # "approved"
      BY <2>2 DEF Verdicts
    <2>4. QED
      BY <2>1, <2>2, <2>3, AwaitStep DEF DenialInv, OwnKeys
  <1>6. CASE UNCHANGED <<rows, ask, told, retaken>> /\ killed \subseteq killed'
    BY <1>6, AwaitStep DEF DenialInv, OwnKeys
  <1>7. QED
    BY <1>1, <1>2, <1>3, <1>4, <1>5, <1>6
    DEF Next, Command, ListPending, CheckNext, KillCommand, AnswerOne, AnswerAll, OpenAllow, CloseAllow, vars

\* "Denial is never overridden and never retried automatically", as long as the
\* loop is not killed: a request is in some worker's hands until the task has
\* been told of its denial or the owner has taken its step back, so nothing is
\* filed under the key before.
THEOREM DenialTold == Spec => []DenialReachesTask
PROOF
  <1>1. Init => DenialInv
    BY DEF Init, DenialInv, OwnKeys, AwaitedUntilTold, NoAsk
  <1>2. IInv /\ DenialInv => DenialReachesTask
    <2> SUFFICES ASSUME IInv, DenialInv, "loop" \notin killed, NEW w \in Workers, NEW i \in DOMAIN rows,
                        rows[i].key = ask[w].key, i < ask[w].row, rows[i].state = "denied", i \notin told \cup retaken
                 PROVE  FALSE
      BY DEF DenialReachesTask, NoDenialRetried
    <2>1. rows[i].key \in Keys /\ rows[i].key # NoKey
      BY RowShape, KeysAssumption DEF IInv, TypeOK
    <2>2. ask[w].key \in KeysOf[w]
      BY <2>1 DEF DenialInv, OwnKeys
    <2>3. PICK v \in Workers : ask[v].at \in Holds /\ ask[v].row = i
      BY DEF DenialInv, AwaitedUntilTold, Awaited
    <2>4. ask[v].key \in KeysOf[v] /\ rows[i].key = ask[v].key
      BY <2>3 DEF IInv, WorkerOK
    <2>5. v = w
      BY <2>2, <2>4, KeysAssumption
    <2>6. i \in Nat /\ ask[w].row = i
      BY <2>3, <2>5, RowShape DEF IInv, TypeOK
    <2>7. QED
      BY <2>6
  <1>3. QED
    BY <1>1, <1>2, Invariance, DenialNext, PTL DEF Spec

-----------------------------------------------------------------------------
(* An open session forgets no request *)

\* The row that lacks its ticket is the last one: the INSERT behind it raises.
UnstampedIsLast == \A i \in DOMAIN rows : rows[i].ticket = 0 => i = Len(rows)

\* What a command listed is in the table under that ticket; only the last entry
\* of the list can have been listed before its ticket was put in.
TodoOK(o) ==
  \A e \in cmd[o].todo :
    /\ e.id \in DOMAIN rows
    /\ e.ticket # 0 => e.ticket = e.id /\ rows[e.id].ticket = e.id
    /\ e.ticket = 0 => \A f \in cmd[o].todo : f.id <= e.id
    /\ \A f \in cmd[o].todo : f.id = e.id => f = e

ListsOK == UnstampedIsLast /\ \A o \in Owners : TodoOK(o)

SessionInv == ListsOK /\ SessionForgetsNothing

\* No statement takes a row or a ticket away.
LEMMA TicketsStay ==
  ASSUME IInv, UnstampedIsLast, [Next]_vars
  PROVE  /\ UnstampedIsLast' /\ DOMAIN rows \subseteq DOMAIN rows'
         /\ \A i \in DOMAIN rows : rows[i].ticket # 0 => rows'[i].ticket = rows[i].ticket
PROOF
  <1> DEFINE Goal == /\ UnstampedIsLast' /\ DOMAIN rows \subseteq DOMAIN rows'
                     /\ \A i \in DOMAIN rows : rows[i].ticket # 0 => rows'[i].ticket = rows[i].ticket
  <1>0. TypeOK /\ rows \in Seq(Row)
    BY DEF IInv, TypeOK
  <1>1. ASSUME UNCHANGED rows PROVE Goal
    BY <1>1 DEF UnstampedIsLast
  <1>2. ASSUME NEW t \in Nat, NEW v \in Verdicts, rows' = SettleApproval(t, v) PROVE Goal
    <2>1. /\ rows' \in Seq(Row) /\ DOMAIN rows' = DOMAIN rows
          /\ \A i \in DOMAIN rows : rows'[i].ticket = rows[i].ticket
      BY <1>2, SettleKeeps
    <2>2. Len(rows') = Len(rows)
      BY <1>0, <2>1
    <2>3. QED
      BY <2>1, <2>2 DEF UnstampedIsLast
  <1>3. ASSUME NEW w \in Workers, Insert(w) PROVE Goal
    <2>1. CASE UNCHANGED rows
      BY <1>1, <2>1
    <2>2. CASE rows' # rows
      <3>1. /\ rows' = Append(rows, [ticket |-> 0, key |-> ask[w].key, state |-> "pending"])
            /\ \A i \in DOMAIN rows : rows[i].ticket # 0
        BY <1>3, <2>2 DEF Insert
      <3>2. /\ Len(rows') = Len(rows) + 1 /\ DOMAIN rows' = 1..(Len(rows) + 1)
            /\ \A i \in DOMAIN rows : i \in DOMAIN rows' /\ rows'[i] = rows[i]
            /\ \A i \in DOMAIN rows' : i \notin DOMAIN rows => i = Len(rows')
        BY <1>0, <3>1
      <3>3. QED
        BY <3>1, <3>2 DEF UnstampedIsLast
    <2>3. QED
      BY <2>1, <2>2
  <1>4. ASSUME NEW w \in Workers, Stamp(w) PROVE Goal
    <2> DEFINE r == ask[w].row
    <2>0. WorkerOK(w)
      BY DEF IInv
    <2>1. r \in DOMAIN rows /\ rows[r] \in Row /\ rows[r].ticket \in {0, r} /\ r \in Nat \ {0}
      BY <1>0, <1>4, <2>0, RowShape DEF Stamp, WorkerOK, Holds, IInv, TicketsOK
    <2>2. rows' = [rows EXCEPT ![r] = [rows[r] EXCEPT !.ticket = r]]
      BY <1>4 DEF Stamp
    <2>3. [rows[r] EXCEPT !.ticket = r].ticket = r /\ [rows[r] EXCEPT !.ticket = r] \in Row
      BY <2>1 DEF Row
    <2>4. /\ DOMAIN rows' = DOMAIN rows /\ rows'[r].ticket = r /\ Len(rows') = Len(rows)
          /\ \A i \in DOMAIN rows : i # r => rows'[i] = rows[i]
      <3>1. rows' \in Seq(Row) /\ DOMAIN rows' = DOMAIN rows
        BY <1>0, <2>1, <2>2, <2>3
      <3>2. Len(rows') = Len(rows)
        BY <1>0, <3>1
      <3>3. rows'[r] = [rows[r] EXCEPT !.ticket = r] /\ \A i \in DOMAIN rows : i # r => rows'[i] = rows[i]
        BY <2>1, <2>2
      <3>4. QED
        BY <2>3, <3>1, <3>2, <3>3
    <2>5. QED
      BY <2>1, <2>4 DEF UnstampedIsLast
  <1>5. ASSUME NEW w \in Workers, SettleOwn(w) PROVE Goal
    <2>0. WorkerOK(w)
      BY DEF IInv
    <2>1. rows[ask[w].row].ticket \in Nat /\ "approved" \in Verdicts
      BY <1>0, <1>5, <2>0, RowShape DEF SettleOwn, WorkerOK, Holds, Verdicts
    <2>2. QED
      BY <1>2, <1>5, <2>1 DEF SettleOwn
  <1>6. ASSUME NEW o \in Owners, SettleNext(o) PROVE Goal
    <2>1. PICK e \in cmd[o].todo : rows' = SettleApproval(e.ticket, cmd[o].verdict)
      BY <1>6 DEF SettleNext
    <2>2. e.ticket \in Nat /\ cmd[o].verdict \in Verdicts
      BY <1>0, CmdFields DEF Listed
    <2>3. QED
      BY <1>2, <2>1, <2>2
  <1>7. ASSUME NEW w \in Workers, Reread(w) \/ ReadAll(w) \/ ReadKind(w) \/ Fetch(w) PROVE Goal
    BY <1>1, <1>7 DEF Reread, ReadAll, ReadKind, Fetch
  <1>8. ASSUME UNCHANGED vars PROVE Goal
    BY <1>1, <1>8 DEF vars
  <1> HIDE DEF Goal
  <1>9. ASSUME Next PROVE Goal
    BY <1>1, <1>3, <1>4, <1>5, <1>6, <1>7, <1>9, TableFrame DEF Request
  <1>10. Goal
    BY <1>8, <1>9
  <1>11. QED
    BY <1>10 DEF Goal

\* A command only drops what it listed, or lists the table as it stands.
LEMMA ListsNext == IInv /\ ListsOK /\ [Next]_vars => ListsOK'
PROOF
  <1> SUFFICES ASSUME IInv, ListsOK, [Next]_vars PROVE ListsOK'
    OBVIOUS
  <1>0. TypeOK /\ rows \in Seq(Row)
    BY DEF IInv, TypeOK
  <1>1. /\ UnstampedIsLast' /\ DOMAIN rows \subseteq DOMAIN rows'
        /\ \A i \in DOMAIN rows : rows[i].ticket # 0 => rows'[i].ticket = rows[i].ticket
    BY TicketsStay DEF ListsOK
  <1>2. ASSUME NEW o \in Owners, cmd'[o].todo \subseteq cmd[o].todo PROVE TodoOK(o)'
    <2>1. TodoOK(o)
      BY DEF ListsOK
    <2>2. \A e \in cmd[o].todo : e \in Listed
      BY <1>0, CmdFields
    <2>3. QED
      BY <1>1, <1>2, <2>1, <2>2 DEF TodoOK, Listed
  <1>3. ASSUME NEW o \in Owners, NEW H \in SUBSET DOMAIN rows, UNCHANGED rows,
               cmd'[o].todo = {[id |-> i, ticket |-> rows[i].ticket] : i \in H}
        PROVE  TodoOK(o)'
    <2>1. \A e \in cmd'[o].todo : e.id \in H /\ e.ticket = rows[e.id].ticket
                                  /\ e = [id |-> e.id, ticket |-> rows[e.id].ticket]
      BY <1>3
    <2>2. \A i \in DOMAIN rows : i <= Len(rows) /\ rows[i].ticket \in {0, i}
      BY <1>0, RowShape DEF IInv, TicketsOK
    <2>3. \A i \in DOMAIN rows : rows[i].ticket = 0 => i = Len(rows)
      BY DEF ListsOK, UnstampedIsLast
    <2>4. ASSUME NEW e \in cmd'[o].todo
          PROVE  /\ e.id \in DOMAIN rows
                 /\ e.ticket # 0 => e.ticket = e.id /\ rows[e.id].ticket = e.id
                 /\ e.ticket = 0 => \A f \in cmd'[o].todo : f.id <= e.id
                 /\ \A f \in cmd'[o].todo : f.id = e.id => f = e
      BY <2>1, <2>2, <2>3
    <2>5. QED
      BY <1>3, <2>4 DEF TodoOK
  <1>4. ASSUME UNCHANGED cmd PROVE \A o \in Owners : TodoOK(o)'
    BY <1>2, <1>4
  <1>5. ASSUME NEW o \in Owners, NEW c, cmd' = [cmd EXCEPT ![o] = c],
               \/ c.todo \subseteq cmd[o].todo
               \/ /\ UNCHANGED rows
                  /\ \E H \in SUBSET DOMAIN rows : c.todo = {[id |-> i, ticket |-> rows[i].ticket] : i \in H}
        PROVE  \A p \in Owners : TodoOK(p)'
    <2>1. cmd'[o] = c /\ \A p \in Owners \ {o} : cmd'[p] = cmd[p]
      BY <1>0, <1>5 DEF TypeOK
    <2>2. TodoOK(o)'
      BY <1>2, <1>3, <1>5, <2>1
    <2>3. ASSUME NEW p \in Owners, p # o PROVE TodoOK(p)'
      BY <1>2, <2>1, <2>3
    <2>4. QED
      BY <2>2, <2>3
  <1>6. NoCmd.todo = {}
    BY DEF NoCmd
  <1>7. ASSUME NEW o \in Owners, SettleNext(o) PROVE \A p \in Owners : TodoOK(p)'
    <2> DEFINE c == [cmd[o] EXCEPT !.at = "check"]
    <2>1. c.todo = cmd[o].todo
      BY <1>0, CmdFields DEF Cmd
    <2> HIDE DEF c
    <2>2. cmd' = [cmd EXCEPT ![o] = c]
      BY <1>7 DEF SettleNext, c
    <2>3. QED
      BY <1>5, <2>1, <2>2
  <1>8. ASSUME NEW o \in Owners, ListPending(o) PROVE \A p \in Owners : TodoOK(p)'
    <2> DEFINE hit == {i \in DOMAIN rows : rows[i].state = "pending" /\ Covers(cmd[o].scope, rows[i].key)}
               T == {[id |-> i, ticket |-> rows[i].ticket] : i \in hit}
               c == [at |-> "settle", scope |-> "all", verdict |-> cmd[o].verdict, todo |-> T]
    <2>1. hit \in SUBSET DOMAIN rows /\ c.todo = {[id |-> i, ticket |-> rows[i].ticket] : i \in hit}
      OBVIOUS
    <2> HIDE DEF hit, c
    <2>2. UNCHANGED rows /\ (cmd' = [cmd EXCEPT ![o] = NoCmd] \/ cmd' = [cmd EXCEPT ![o] = c])
      BY <1>8 DEF ListPending, hit, c
    <2>3. CASE cmd' = [cmd EXCEPT ![o] = NoCmd]
      BY <1>5, <1>6, <2>3
    <2>4. CASE cmd' = [cmd EXCEPT ![o] = c]
      BY <1>5, <2>1, <2>2, <2>4
    <2>5. QED
      BY <2>2, <2>3, <2>4
  <1>9. ASSUME NEW o \in Owners, CheckNext(o) PROVE \A p \in Owners : TodoOK(p)'
    <2>1. PICK e \in cmd[o].todo :
            \/ cmd' = [cmd EXCEPT ![o] = NoCmd]
            \/ cmd' = [cmd EXCEPT ![o] = [at |-> "settle", scope |-> "all", verdict |-> cmd[o].verdict,
                                          todo |-> cmd[o].todo \ {e}]]
      BY <1>9 DEF CheckNext
    <2> DEFINE c == [at |-> "settle", scope |-> "all", verdict |-> cmd[o].verdict, todo |-> cmd[o].todo \ {e}]
    <2>2. c.todo \subseteq cmd[o].todo
      OBVIOUS
    <2> HIDE DEF c
    <2>3. cmd' = [cmd EXCEPT ![o] = NoCmd] \/ cmd' = [cmd EXCEPT ![o] = c]
      BY <2>1 DEF c
    <2>4. QED
      BY <1>5, <1>6, <2>2, <2>3
  <1>10. ASSUME NEW o \in Owners, KillCommand(o) PROVE \A p \in Owners : TodoOK(p)'
    BY <1>5, <1>6, <1>10 DEF KillCommand
  <1>11. ASSUME NEW o \in Owners, NEW i \in DOMAIN rows, NEW v \in Verdicts, AnswerOne(o, i, v)
         PROVE  \A p \in Owners : TodoOK(p)'
    <2> DEFINE c == [at |-> "settle", scope |-> "all", verdict |-> v, todo |-> {[id |-> i, ticket |-> rows[i].ticket]}]
    <2>1. {i} \in SUBSET DOMAIN rows /\ c.todo = {[id |-> j, ticket |-> rows[j].ticket] : j \in {i}}
      OBVIOUS
    <2> HIDE DEF c
    <2>2. cmd' = [cmd EXCEPT ![o] = c] /\ UNCHANGED rows
      BY <1>11 DEF AnswerOne, c
    <2>3. QED
      BY <1>5, <2>1, <2>2
  <1>12. ASSUME NEW o \in Owners, NEW s \in AllowScopes, NEW v \in Verdicts,
                cmd' = [cmd EXCEPT ![o] = [at |-> "list", scope |-> s, verdict |-> v, todo |-> {}]]
         PROVE  \A p \in Owners : TodoOK(p)'
    <2> DEFINE c == [at |-> "list", scope |-> s, verdict |-> v, todo |-> {}]
    <2>1. c.todo \subseteq cmd[o].todo
      OBVIOUS
    <2> HIDE DEF c
    <2>2. cmd' = [cmd EXCEPT ![o] = c]
      BY <1>12 DEF c
    <2>3. QED
      BY <1>5, <2>1, <2>2
  <1>13. ASSUME NEW o \in Owners, NEW v \in Verdicts, AnswerAll(o, v) PROVE \A p \in Owners : TodoOK(p)'
    BY <1>12, <1>13 DEF AnswerAll, AllowScopes
  <1>14. ASSUME NEW o \in Owners, NEW s \in AllowScopes, OpenAllow(o, s) PROVE \A p \in Owners : TodoOK(p)'
    BY <1>12, <1>14 DEF OpenAllow, Verdicts
  <1>15. ASSUME NEW w \in Workers, Request(w) \/ Loop(w) PROVE UNCHANGED cmd
    BY <1>15 DEF Request, Loop, Insert, Stamp, Reread, ReadAll, ReadKind, SettleOwn, Fetch, Park, PollGate, Retake, StepOver
  <1>16. ASSUME UNCHANGED vars PROVE UNCHANGED cmd
    BY <1>16 DEF vars
  <1>17. \A p \in Owners : TodoOK(p)'
    BY <1>4, <1>7, <1>8, <1>9, <1>10, <1>11, <1>13, <1>14, <1>15, <1>16
    DEF Next, Command, Reuse, AskNew, CrashLoop, CloseAllow
  <1>18. QED
    BY <1>1, <1>17 DEF ListsOK

\* Who is on the way to answer: a worker over its own row, or a command.
WorkerAnswers(w, i, s) ==
  /\ ask[w].row = i
  /\ \/ ask[w].at \in {"stamp", "reread", "flagAll", "settle"}
     \/ ask[w].at = "flagKind" /\ (ask[w].best \/ s # "all")
OwnerAnswers(o, i) ==
  /\ cmd[o].verdict = "approved"
  /\ \/ cmd[o].at = "list" /\ Covers(cmd[o].scope, rows[i].key)
     \/ cmd[o].at = "settle" /\ rows[i].ticket \in {e.ticket : e \in cmd[o].todo}
     \/ cmd[o].at = "check" /\ \E e, f \in cmd[o].todo : e.id < f.id /\ f.ticket = rows[i].ticket

LEMMA WhoAnswers ==
  ASSUME NEW i, NEW s
  PROVE  BeingAnswered(i, s) <=> \/ \E w \in Workers : WorkerAnswers(w, i, s)
                                 \/ \E o \in Owners : OwnerAnswers(o, i)
PROOF
  BY DEF BeingAnswered, WorkerAnswers, OwnerAnswers

\* A step of worker w that files nothing: every request in an open scope is in
\* somebody's hands behind it if it is in w's, or w had no part in it before.
LEMMA WorkerForgetsNothing ==
  ASSUME SessionForgetsNothing, NEW w \in Workers, UNCHANGED <<open, cmd, killed>>,
         \A v \in Workers \ {w} : ask'[v] = ask[v],
         DOMAIN rows' = DOMAIN rows,
         \A i \in DOMAIN rows : /\ rows'[i].key = rows[i].key
                                /\ rows'[i].state = "pending" => rows[i].state = "pending",
         \A i \in DOMAIN rows, s \in open :
           killed = {} /\ rows'[i].state = "pending" /\ Covers(s, rows[i].key) =>
             \/ WorkerAnswers(w, i, s)'
             \/ ~WorkerAnswers(w, i, s) /\ rows'[i].ticket = rows[i].ticket
  PROVE  SessionForgetsNothing'
PROOF
  <1> SUFFICES ASSUME killed = {}, NEW i \in DOMAIN rows, NEW s \in open,
                      rows'[i].state = "pending", Covers(s, rows[i].key)
               PROVE  BeingAnswered(i, s)'
    BY DEF SessionForgetsNothing, Covers
  <1>1. CASE WorkerAnswers(w, i, s)'
    BY <1>1 DEF WorkerAnswers, BeingAnswered
  <1>2. CASE ~WorkerAnswers(w, i, s) /\ rows'[i].ticket = rows[i].ticket
    <2>1. BeingAnswered(i, s)
      BY DEF SessionForgetsNothing
    <2>2. ASSUME NEW v \in Workers, WorkerAnswers(v, i, s) PROVE BeingAnswered(i, s)'
      <3>1. v # w
        BY <1>2, <2>2
      <3>2. WorkerAnswers(v, i, s)'
        BY <2>2, <3>1 DEF WorkerAnswers
      <3>3. QED
        BY <3>2 DEF WorkerAnswers, BeingAnswered
    <2>3. ASSUME NEW o \in Owners, OwnerAnswers(o, i) PROVE BeingAnswered(i, s)'
      <3>1. OwnerAnswers(o, i)'
        BY <1>2, <2>3 DEF OwnerAnswers, Covers
      <3>2. QED
        BY <3>1 DEF OwnerAnswers, BeingAnswered
    <2>4. QED
      BY <2>1, <2>2, <2>3, WhoAnswers
  <1>3. QED
    BY <1>1, <1>2

\* A step of the command in process o, which may open one more session.
LEMMA OwnerForgetsNothing ==
  ASSUME SessionForgetsNothing, NEW o \in Owners, UNCHANGED <<ask, killed>>,
         \A p \in Owners \ {o} : cmd'[p] = cmd[p],
         DOMAIN rows' = DOMAIN rows,
         \A i \in DOMAIN rows : /\ rows'[i].key = rows[i].key /\ rows'[i].ticket = rows[i].ticket
                                /\ rows'[i].state = "pending" => rows[i].state = "pending",
         \A i \in DOMAIN rows, s \in open' :
           rows'[i].state = "pending" /\ Covers(s, rows[i].key) =>
             OwnerAnswers(o, i)' \/ (s \in open /\ ~OwnerAnswers(o, i))
  PROVE  SessionForgetsNothing'
PROOF
  <1> SUFFICES ASSUME killed = {}, NEW i \in DOMAIN rows, NEW s \in open',
                      rows'[i].state = "pending", Covers(s, rows[i].key)
               PROVE  BeingAnswered(i, s)'
    BY DEF SessionForgetsNothing, Covers
  <1>1. CASE OwnerAnswers(o, i)'
    BY <1>1 DEF OwnerAnswers, BeingAnswered
  <1>2. CASE s \in open /\ ~OwnerAnswers(o, i)
    <2>1. BeingAnswered(i, s)
      BY <1>2 DEF SessionForgetsNothing
    <2>2. ASSUME NEW v \in Workers, WorkerAnswers(v, i, s) PROVE BeingAnswered(i, s)'
      BY <2>2 DEF WorkerAnswers, BeingAnswered
    <2>3. ASSUME NEW p \in Owners, OwnerAnswers(p, i) PROVE BeingAnswered(i, s)'
      <3>1. p # o
        BY <1>2, <2>3
      <3>2. OwnerAnswers(p, i)'
        BY <2>3, <3>1 DEF OwnerAnswers, Covers
      <3>3. QED
        BY <3>2 DEF OwnerAnswers, BeingAnswered
    <2>4. QED
      BY <2>1, <2>2, <2>3, WhoAnswers
  <1>3. QED
    BY <1>1, <1>2

\* The request that Insert files is its worker's from the first moment on.
LEMMA InsertForgetsNothing ==
  ASSUME IInv, SessionForgetsNothing, NEW w \in Workers, Insert(w)
  PROVE  SessionForgetsNothing'
PROOF
  <1>0. TypeOK /\ rows \in Seq(Row) /\ ask[w] \in Ask
    BY DEF IInv, TypeOK
  <1>1. ask[w].at = "insert" /\ UNCHANGED <<open, cmd, killed>> /\ \A v \in Workers \ {w} : ask'[v] = ask[v]
    BY <1>0 DEF Insert, TypeOK
  <1>2. CASE UNCHANGED rows
    <2>1. \A i \in DOMAIN rows, s \in open : ~WorkerAnswers(w, i, s)
      BY <1>1 DEF WorkerAnswers
    <2>2. QED
      BY <1>1, <1>2, <2>1, WorkerForgetsNothing
  <1>3. CASE rows' # rows
    <2> DEFINE n == Len(rows) + 1
               a == [at |-> "stamp", key |-> ask[w].key, row |-> n, best |-> ask[w].best]
    <2>1. rows' = Append(rows, [ticket |-> 0, key |-> ask[w].key, state |-> "pending"])
      BY <1>3 DEF Insert
    <2>2. \A i \in DOMAIN rows' : i # n => i \in DOMAIN rows /\ rows'[i] = rows[i]
      BY <1>0, <2>1
    <2>3. ask' = [ask EXCEPT ![w] = a]
      <3>1. [ask[w] EXCEPT !.at = "stamp", !.row = n] = a
        BY <1>0, AtAndRow DEF AskPoint
      <3>2. QED
        BY <1>3, <3>1 DEF Insert
    <2>4. ask'[w] = a
      BY <1>0, <2>3 DEF TypeOK
    <2>5. ASSUME killed' = {}, NEW i \in DOMAIN rows', NEW s \in open', rows'[i].state = "pending",
                 Covers(s, rows'[i].key)
          PROVE  BeingAnswered(i, s)'
      <3>1. CASE i = n
        BY <2>4, <3>1 DEF BeingAnswered
      <3>2. CASE i # n
        <4>1. i \in DOMAIN rows /\ rows'[i] = rows[i] /\ BeingAnswered(i, s)
          BY <1>1, <2>2, <2>5, <3>2 DEF SessionForgetsNothing
        <4>2. ASSUME NEW v \in Workers, WorkerAnswers(v, i, s) PROVE BeingAnswered(i, s)'
          <5>1. v # w
            BY <1>1, <4>2 DEF WorkerAnswers
          <5>2. WorkerAnswers(v, i, s)'
            BY <1>1, <4>2, <5>1 DEF WorkerAnswers
          <5>3. QED
            BY <5>2 DEF WorkerAnswers, BeingAnswered
        <4>3. ASSUME NEW o \in Owners, OwnerAnswers(o, i) PROVE BeingAnswered(i, s)'
          <5>1. OwnerAnswers(o, i)'
            BY <1>1, <4>1, <4>3 DEF OwnerAnswers, Covers
          <5>2. QED
            BY <5>1 DEF OwnerAnswers, BeingAnswered
        <4>4. QED
          BY <4>1, <4>2, <4>3, WhoAnswers
      <3>3. QED
        BY <3>1, <3>2
    <2>6. QED
      BY <2>5 DEF SessionForgetsNothing, Covers
  <1>4. QED
    BY <1>2, <1>3

\* request reads the flags behind its INSERT, so a session it does not see is
\* opened later, and the command that opens it lists the request.
LEMMA RequestForgetsNothing ==
  ASSUME IInv, SessionForgetsNothing, NEW w \in Workers, Request(w)
  PROVE  SessionForgetsNothing'
PROOF
  <1>0. TypeOK /\ rows \in Seq(Row) /\ WorkerOK(w) /\ ask[w] \in Ask
    BY DEF IInv, TypeOK
  <1>1. ASSUME Insert(w) PROVE SessionForgetsNothing'
    BY <1>1, InsertForgetsNothing
  <1>2. ASSUME Stamp(w) PROVE SessionForgetsNothing'
    <2> DEFINE r == ask[w].row
    <2>1. r \in DOMAIN rows /\ rows[r] \in Row
      BY <1>0, <1>2, RowShape DEF Stamp, WorkerOK, Holds
    <2>2. rows' = [rows EXCEPT ![r] = [rows[r] EXCEPT !.ticket = r]] /\ UNCHANGED <<open, cmd, killed>>
      BY <1>2 DEF Stamp
    <2>3. /\ [rows[r] EXCEPT !.ticket = r].key = rows[r].key
          /\ [rows[r] EXCEPT !.ticket = r].state = rows[r].state
      BY <2>1 DEF Row
    <2>4. /\ DOMAIN rows' = DOMAIN rows
          /\ \A i \in DOMAIN rows : rows'[i].key = rows[i].key /\ rows'[i].state = rows[i].state
          /\ \A i \in DOMAIN rows : i # r => rows'[i] = rows[i]
      BY <2>1, <2>2, <2>3
    <2>5. ask'[w] = [ask[w] EXCEPT !.at = "reread"] /\ \A v \in Workers \ {w} : ask'[v] = ask[v]
      BY <1>0, <1>2 DEF Stamp, TypeOK
    <2>6. ask'[w].at = "reread" /\ ask'[w].row = r
      BY <1>0, <2>5 DEF Ask
    <2>7. \A i \in DOMAIN rows, s \in open : WorkerAnswers(w, i, s)' \/ (~WorkerAnswers(w, i, s) /\ i # r)
      BY <2>6 DEF WorkerAnswers
    <2>8. QED
      BY <2>2, <2>4, <2>5, <2>7, WorkerForgetsNothing
  <1>3. ASSUME ReadAll(w) PROVE SessionForgetsNothing'
    <2> DEFINE a == [ask[w] EXCEPT !.at = "flagKind", !.best = "all" \in open]
    <2>1. a.at = "flagKind" /\ a.row = ask[w].row /\ (a.best <=> "all" \in open)
      BY <1>0 DEF Ask
    <2> HIDE DEF a
    <2>2. ask' = [ask EXCEPT ![w] = a] /\ UNCHANGED <<rows, open, cmd, killed>>
      BY <1>3 DEF ReadAll, a
    <2>3. ask'[w] = a /\ \A v \in Workers \ {w} : ask'[v] = ask[v]
      BY <1>0, <2>2 DEF TypeOK
    <2>4. \A i \in DOMAIN rows, s \in open : WorkerAnswers(w, i, s)' \/ ~WorkerAnswers(w, i, s)
      BY <2>1, <2>3 DEF WorkerAnswers
    <2>5. QED
      BY <2>2, <2>3, <2>4, WorkerForgetsNothing
  <1>4. ASSUME ReadKind(w) PROVE SessionForgetsNothing'
    <2> DEFINE p == IF ask[w].best \/ KindOf[ask[w].key] \in open THEN "settle" ELSE "asked"
               a == [ask[w] EXCEPT !.at = p, !.best = FALSE]
    <2>1. a.at = p /\ a.row = ask[w].row
      BY <1>0 DEF Ask
    <2> HIDE DEF a
    <2>2. ask' = [ask EXCEPT ![w] = a] /\ UNCHANGED <<rows, open, cmd, killed>>
      BY <1>4 DEF ReadKind, a
    <2>3. ask'[w] = a /\ \A v \in Workers \ {w} : ask'[v] = ask[v]
      BY <1>0, <2>2 DEF TypeOK
    <2>4. ask[w].at = "flagKind" /\ ask[w].row \in DOMAIN rows /\ rows[ask[w].row].key = ask[w].key
      BY <1>0, <1>4 DEF ReadKind, WorkerOK, Holds
    <2>5. ASSUME NEW i \in DOMAIN rows, NEW s \in open, Covers(s, rows[i].key), WorkerAnswers(w, i, s)
          PROVE  WorkerAnswers(w, i, s)'
      <3>1. ask[w].row = i /\ (ask[w].best \/ s # "all")
        BY <2>4, <2>5 DEF WorkerAnswers
      <3>2. p = "settle"
        BY <2>4, <2>5, <3>1 DEF Covers
      <3>3. QED
        BY <2>1, <2>3, <3>1, <3>2 DEF WorkerAnswers
    <2>6. QED
      BY <2>2, <2>3, <2>5, WorkerForgetsNothing
  <1>5. ASSUME SettleOwn(w) PROVE SessionForgetsNothing'
    <2> DEFINE t == rows[ask[w].row].ticket
    <2>1. ask[w].at = "settle" /\ ask[w].row \in DOMAIN rows /\ t \in Nat /\ "approved" \in Verdicts
      BY <1>0, <1>5, RowShape DEF SettleOwn, WorkerOK, Holds, Verdicts
    <2>2. rows' = SettleApproval(t, "approved") /\ UNCHANGED <<open, cmd, killed>>
      BY <1>5 DEF SettleOwn
    <2>3. \A i \in DOMAIN rows : rows[i].ticket = t => rows'[i].state # "pending"
      BY <1>0, <2>2, RowShape DEF SettleApproval, Row
    <2> HIDE DEF t
    <2>4. /\ DOMAIN rows' = DOMAIN rows
          /\ \A i \in DOMAIN rows :
               /\ rows'[i].key = rows[i].key /\ rows'[i].ticket = rows[i].ticket
               /\ rows[i].state \in Verdicts => rows'[i].state = rows[i].state
      BY <2>1, <2>2, SettleKeeps
    <2>5. \A i \in DOMAIN rows : rows'[i].state = "pending" => rows[i].state = "pending" /\ i # ask[w].row
      <3>1. \A i \in DOMAIN rows : rows[i].state \in {"pending", "approved", "denied"}
        BY <1>0, RowShape
      <3>2. QED
        BY <2>3, <2>4, <3>1 DEF Verdicts, t
    <2>6. \A v \in Workers \ {w} : ask'[v] = ask[v]
      BY <1>0, <1>5 DEF SettleOwn, TypeOK
    <2>7. \A i \in DOMAIN rows, s \in open : i # ask[w].row => ~WorkerAnswers(w, i, s)
      BY DEF WorkerAnswers
    <2>8. QED
      BY <2>2, <2>4, <2>5, <2>6, <2>7, WorkerForgetsNothing
  <1>6. ASSUME Fetch(w) PROVE SessionForgetsNothing'
    <2>1. \A v \in Workers \ {w} : ask'[v] = ask[v]
      BY <1>0, <1>6 DEF Fetch, TypeOK
    <2>2. ask[w].at = "fetch" /\ UNCHANGED <<rows, open, cmd, killed>>
      BY <1>6 DEF Fetch
    <2>3. \A i \in DOMAIN rows, s \in open : ~WorkerAnswers(w, i, s)
      BY <2>2 DEF WorkerAnswers
    <2>4. QED
      BY <2>1, <2>2, <2>3, WorkerForgetsNothing
  <1>7. ASSUME Reread(w) PROVE SessionForgetsNothing'
    <2> DEFINE s == rows[ask[w].row].state
               p == IF s = "pending" THEN "flagAll" ELSE Reply(s)
               a == [ask[w] EXCEPT !.at = p]
    <2>1. a.at = p /\ a.row = ask[w].row
      BY <1>0 DEF Ask
    <2>2. s = "pending" => p = "flagAll"
      OBVIOUS
    <2> HIDE DEF a, p
    <2>3. ask' = [ask EXCEPT ![w] = a] /\ UNCHANGED <<rows, open, cmd, killed>>
      BY <1>7 DEF Reread, a, p
    <2>4. ask'[w] = a /\ \A v \in Workers \ {w} : ask'[v] = ask[v]
      BY <1>0, <2>3 DEF TypeOK
    <2>5. \A i \in DOMAIN rows, t \in open : rows[i].state = "pending" =>
            WorkerAnswers(w, i, t)' \/ ~WorkerAnswers(w, i, t)
      BY <2>1, <2>2, <2>4 DEF WorkerAnswers
    <2>6. QED
      BY <2>3, <2>4, <2>5, WorkerForgetsNothing
  <1>8. QED
    BY <1>1, <1>2, <1>3, <1>4, <1>5, <1>6, <1>7 DEF Request

\* SettleNext answers the first entry, and the others keep their command.
LEMMA SettleForgetsNothing ==
  ASSUME IInv, ListsOK, SessionForgetsNothing, NEW o \in Owners, SettleNext(o)
  PROVE  SessionForgetsNothing'
PROOF
  <1>0. TypeOK /\ rows \in Seq(Row) /\ TodoOK(o)
    BY DEF IInv, TypeOK, ListsOK
  <1>1. PICK e \in cmd[o].todo : IsFirst(e, cmd[o].todo) /\ rows' = SettleApproval(e.ticket, cmd[o].verdict)
    BY DEF SettleNext
  <1>2. e.ticket \in Nat /\ cmd[o].verdict \in Verdicts /\ cmd[o] \in Cmd /\ cmd[o].todo \subseteq Listed
    BY <1>0, CmdFields DEF Listed
  <1>3. /\ DOMAIN rows' = DOMAIN rows
        /\ \A i \in DOMAIN rows :
             /\ rows'[i].key = rows[i].key /\ rows'[i].ticket = rows[i].ticket
             /\ rows[i].state \in Verdicts => rows'[i].state = rows[i].state
    BY <1>1, <1>2, SettleKeeps
  <1>4. \A i \in DOMAIN rows : rows[i].ticket = e.ticket => rows'[i].state # "pending"
    BY <1>0, <1>1, <1>2, RowShape DEF SettleApproval, Row, Verdicts
  <1>5. \A i \in DOMAIN rows : rows'[i].state = "pending" => rows[i].state = "pending"
    <2>1. \A i \in DOMAIN rows : rows[i].state \in {"pending", "approved", "denied"}
      BY <1>0, RowShape
    <2>2. QED
      BY <1>3, <2>1 DEF Verdicts
  <1>6. UNCHANGED <<open, ask, killed>> /\ cmd[o].at = "settle" /\ cmd'[o] = [cmd[o] EXCEPT !.at = "check"]
        /\ \A p \in Owners \ {o} : cmd'[p] = cmd[p]
    BY <1>0 DEF SettleNext, TypeOK
  <1>7. cmd'[o].at = "check" /\ cmd'[o].verdict = cmd[o].verdict /\ cmd'[o].todo = cmd[o].todo
    BY <1>2, <1>6 DEF Cmd
  <1>8. ASSUME NEW i \in DOMAIN rows, rows'[i].state = "pending", OwnerAnswers(o, i)
        PROVE  OwnerAnswers(o, i)'
    <2>1. cmd[o].verdict = "approved" /\ rows[i].ticket \in {f.ticket : f \in cmd[o].todo}
      BY <1>6, <1>8 DEF OwnerAnswers
    <2>2. PICK f \in cmd[o].todo : f.ticket = rows[i].ticket
      BY <2>1
    <2>3. f # e /\ e.id <= f.id /\ e.id # f.id
      BY <1>0, <1>1, <1>4, <1>8, <2>2 DEF IsFirst, TodoOK
    <2>4. e.id < f.id
      BY <1>2, <2>3 DEF Listed
    <2>5. QED
      BY <1>3, <1>7, <2>1, <2>2, <2>4 DEF OwnerAnswers
  <1>9. QED
    BY <1>3, <1>5, <1>6, <1>8, OwnerForgetsNothing

\* The row settled is read back by its ticket. It is missing only when the
\* ticket was not in yet, and that entry is the last of the list.
LEMMA CheckForgetsNothing ==
  ASSUME IInv, ListsOK, SessionForgetsNothing, NEW o \in Owners, CheckNext(o)
  PROVE  SessionForgetsNothing'
PROOF
  <1>0. TypeOK /\ TodoOK(o) /\ cmd[o].todo \subseteq Listed
    BY CmdFields DEF IInv, TypeOK, ListsOK
  <1> DEFINE found(e) == \E i \in DOMAIN rows : rows[i].ticket = e.ticket
             c(e) == [at |-> "settle", scope |-> "all", verdict |-> cmd[o].verdict, todo |-> cmd[o].todo \ {e}]
  <1>1. PICK e \in cmd[o].todo :
          /\ IsFirst(e, cmd[o].todo)
          /\ cmd' = [cmd EXCEPT ![o] = IF ~found(e) \/ cmd[o].todo = {e} THEN NoCmd ELSE c(e)]
    BY DEF CheckNext
  <1>2. cmd[o].at = "check" /\ UNCHANGED <<rows, open, ask, killed>> /\ \A p \in Owners \ {o} : cmd'[p] = cmd[p]
    BY <1>0 DEF CheckNext, TypeOK
  <1>3. ASSUME NEW i \in DOMAIN rows, OwnerAnswers(o, i) PROVE OwnerAnswers(o, i)'
    <2>1. PICK g \in cmd[o].todo, f \in cmd[o].todo : g.id < f.id /\ f.ticket = rows[i].ticket
      BY <1>2, <1>3 DEF OwnerAnswers
    <2>2. e.id \in Nat /\ f.id \in Nat /\ g.id \in Nat /\ e.id <= g.id
      BY <1>0, <1>1 DEF IsFirst, Listed
    <2>3. e.id < f.id
      BY <2>1, <2>2
    <2>4. f # e /\ cmd[o].todo # {e}
      BY <2>1, <2>2, <2>3
    <2>5. found(e)
      <3>1. e.ticket # 0
        BY <1>0, <2>2, <2>3 DEF TodoOK
      <3>2. QED
        BY <1>0, <3>1 DEF TodoOK
    <2>6. cmd'[o] = c(e)
      BY <1>0, <1>1, <2>4, <2>5 DEF TypeOK
    <2>7. cmd'[o].at = "settle" /\ cmd'[o].verdict = "approved" /\ f \in cmd'[o].todo
      BY <1>3, <2>4, <2>6 DEF OwnerAnswers
    <2>8. QED
      BY <1>2, <2>1, <2>7 DEF OwnerAnswers
  <1> HIDE DEF found, c
  <1>4. QED
    BY <1>2, <1>3, OwnerForgetsNothing

\* The commands that leave the table alone: open_allow sets its flag before it
\* lists, so what it lists next is what the new session covers.
LEMMA CommandForgetsNothing ==
  ASSUME IInv, SessionForgetsNothing, NEW o \in Owners,
         \/ ListPending(o)
         \/ \E i \in DOMAIN rows, v \in Verdicts : AnswerOne(o, i, v)
         \/ \E v \in Verdicts : AnswerAll(o, v)
         \/ \E s \in AllowScopes : OpenAllow(o, s)
  PROVE  SessionForgetsNothing'
PROOF
  <1>0. TypeOK /\ \A c : cmd' = [cmd EXCEPT ![o] = c] => cmd'[o] = c /\ \A p \in Owners \ {o} : cmd'[p] = cmd[p]
    BY DEF IInv, TypeOK
  <1>1. ASSUME ListPending(o) PROVE SessionForgetsNothing'
    <2> DEFINE hit == {i \in DOMAIN rows : rows[i].state = "pending" /\ Covers(cmd[o].scope, rows[i].key)}
               T == {[id |-> i, ticket |-> rows[i].ticket] : i \in hit}
               c == [at |-> "settle", scope |-> "all", verdict |-> cmd[o].verdict, todo |-> T]
    <2>1. /\ cmd' = [cmd EXCEPT ![o] = IF hit = {} THEN NoCmd ELSE c]
          /\ cmd[o].at = "list" /\ UNCHANGED <<rows, open, ask, killed>>
      BY <1>1 DEF ListPending
    <2>2. ASSUME NEW i \in DOMAIN rows, rows[i].state = "pending", OwnerAnswers(o, i)
          PROVE  OwnerAnswers(o, i)'
      <3>1. cmd[o].verdict = "approved" /\ i \in hit
        BY <2>1, <2>2 DEF OwnerAnswers
      <3>2. rows[i].ticket \in {e.ticket : e \in T}
        <4>1. [id |-> i, ticket |-> rows[i].ticket] \in T
          BY <3>1
        <4>2. PICK g \in T : g.ticket = rows[i].ticket
          BY <4>1
        <4> HIDE DEF T
        <4>3. QED
          BY <4>2
      <3> HIDE DEF hit, T
      <3>3. cmd'[o] = c
        BY <1>0, <2>1, <3>1
      <3>4. QED
        BY <2>1, <3>1, <3>2, <3>3 DEF OwnerAnswers
    <2> HIDE DEF hit, c
    <2>3. QED
      BY <1>0, <2>1, <2>2, OwnerForgetsNothing
  <1>2. ASSUME cmd[o].at = "idle", UNCHANGED <<rows, open, ask, killed>>,
               \A p \in Owners \ {o} : cmd'[p] = cmd[p]
        PROVE  SessionForgetsNothing'
    <2>1. \A i \in DOMAIN rows : ~OwnerAnswers(o, i)
      BY <1>2 DEF OwnerAnswers
    <2>2. QED
      BY <1>2, <2>1, OwnerForgetsNothing
  <1>3. ASSUME NEW i \in DOMAIN rows, NEW v \in Verdicts, AnswerOne(o, i, v) PROVE SessionForgetsNothing'
    BY <1>0, <1>2, <1>3 DEF AnswerOne
  <1>4. ASSUME NEW v \in Verdicts, AnswerAll(o, v) PROVE SessionForgetsNothing'
    BY <1>0, <1>2, <1>4 DEF AnswerAll
  <1>5. ASSUME NEW s \in AllowScopes, OpenAllow(o, s) PROVE SessionForgetsNothing'
    <2>1. cmd[o].at = "idle" /\ open' = open \cup {s} /\ UNCHANGED <<rows, ask, killed>>
      BY <1>5 DEF OpenAllow
    <2> DEFINE c == [at |-> "list", scope |-> s, verdict |-> "approved", todo |-> {}]
    <2>2. cmd' = [cmd EXCEPT ![o] = c]
      BY <1>5 DEF OpenAllow
    <2>3. cmd'[o] = c /\ \A p \in Owners \ {o} : cmd'[p] = cmd[p]
      BY <1>0, <2>2
    <2>4. \A i \in DOMAIN rows : ~OwnerAnswers(o, i)
      BY <2>1 DEF OwnerAnswers
    <2>5. \A i \in DOMAIN rows : Covers(s, rows[i].key) => OwnerAnswers(o, i)'
      BY <2>1, <2>3 DEF OwnerAnswers, Covers
    <2>6. QED
      BY <2>1, <2>3, <2>4, <2>5, OwnerForgetsNothing
  <1>6. QED
    BY <1>1, <1>3, <1>4, <1>5

LEMMA SessionNext == IInv /\ SessionInv /\ [Next]_vars => SessionInv'
PROOF
  <1> SUFFICES ASSUME IInv, SessionInv, [Next]_vars PROVE SessionForgetsNothing'
    BY ListsNext DEF SessionInv
  <1>0. TypeOK /\ ListsOK /\ SessionForgetsNothing
    BY DEF IInv, SessionInv
  <1>1. ASSUME NEW w \in Workers, Request(w) PROVE SessionForgetsNothing'
    BY <1>0, <1>1, RequestForgetsNothing
  <1>2. ASSUME NEW w \in Workers, \A v \in Workers \ {w} : ask'[v] = ask[v],
               UNCHANGED <<rows, open, cmd, killed>>,
               ask[w].at \in {"asked", "parked", "cleared", "refused", "failed", "idle"}
        PROVE  SessionForgetsNothing'
    <2>1. \A i \in DOMAIN rows, s \in open : ~WorkerAnswers(w, i, s)
      BY <1>2 DEF WorkerAnswers
    <2>2. QED
      BY <1>0, <1>2, <2>1, WorkerForgetsNothing
  <1>3. ASSUME NEW w \in Workers, Loop(w) PROVE SessionForgetsNothing'
    BY <1>0, <1>2, <1>3 DEF Loop, Park, PollGate, Retake, StepOver, TypeOK
  <1>4. ASSUME NEW w \in Workers, NEW k \in Keys, Reuse(w, k) \/ AskNew(w, k) PROVE SessionForgetsNothing'
    <2>1. \A v \in Workers \ {w} : ask'[v] = ask[v]
      BY <1>0, <1>4 DEF Reuse, AskNew, TypeOK
    <2>2. UNCHANGED <<rows, open, cmd, killed>> /\ ask[w].at = "idle"
      BY <1>4 DEF Reuse, AskNew
    <2>3. QED
      BY <1>2, <2>1, <2>2
  <1>5. ASSUME CrashLoop \/ \E o \in Owners : KillCommand(o) PROVE SessionForgetsNothing'
    <2>1. killed' # {}
      BY <1>5 DEF CrashLoop, KillCommand
    <2>2. QED
      BY <2>1 DEF SessionForgetsNothing
  <1>6. ASSUME NEW o \in Owners, Command(o) PROVE SessionForgetsNothing'
    BY <1>0, <1>6, CommandForgetsNothing, SettleForgetsNothing, CheckForgetsNothing DEF Command
  <1>7. ASSUME NEW o \in Owners, NEW i \in DOMAIN rows, NEW v \in Verdicts, AnswerOne(o, i, v)
        PROVE  SessionForgetsNothing'
    BY <1>0, <1>7, CommandForgetsNothing
  <1>8. ASSUME NEW o \in Owners, NEW v \in Verdicts, AnswerAll(o, v) PROVE SessionForgetsNothing'
    BY <1>0, <1>8, CommandForgetsNothing
  <1>9. ASSUME NEW o \in Owners, NEW s \in AllowScopes, OpenAllow(o, s) PROVE SessionForgetsNothing'
    BY <1>0, <1>9, CommandForgetsNothing
  <1>10. ASSUME UNCHANGED <<rows, ask, cmd, killed>>, open' \subseteq open PROVE SessionForgetsNothing'
    BY <1>0, <1>10 DEF SessionForgetsNothing, BeingAnswered, Covers
  <1>11. ASSUME NEW s \in AllowScopes, CloseAllow(s) PROVE SessionForgetsNothing'
    BY <1>10, <1>11 DEF CloseAllow
  <1>12. ASSUME UNCHANGED vars PROVE SessionForgetsNothing'
    BY <1>10, <1>12 DEF vars
  <1>13. QED
    BY <1>1, <1>3, <1>4, <1>5, <1>6, <1>7, <1>8, <1>9, <1>11, <1>12 DEF Next

\* open_allow against a request in flight: the command sets the flag and lists,
\* the worker inserts and reads the flag, and in every order one of the two sees
\* the other; only a process killed in between leaves a request forgotten.
THEOREM NothingForgotten == Spec => []SessionForgetsNothing
PROOF
  <1>1. Init => SessionInv
    BY DEF Init, SessionInv, ListsOK, UnstampedIsLast, TodoOK, NoCmd, SessionForgetsNothing
  <1>2. SessionInv => SessionForgetsNothing
    BY DEF SessionInv
  <1>3. QED
    BY <1>1, <1>2, Invariance, SessionNext, PTL DEF Spec

-----------------------------------------------------------------------------
(* The queue implements Consent *)

LEMMA BookShape ==
  ASSUME rows \in Seq(Row)
  PROVE  /\ DOMAIN bookBar = DOMAIN rows /\ bookBar \in Seq(C!Entry)
         /\ \A i \in DOMAIN rows : bookBar[i] = [key |-> rows[i].key, state |-> rows[i].state]
PROOF
  <1>1. DOMAIN bookBar = 1..Len(rows) /\ DOMAIN bookBar = DOMAIN rows /\ Len(rows) \in Nat
    BY DEF bookBar
  <1>2. \A i \in DOMAIN rows : bookBar[i] = [key |-> rows[i].key, state |-> rows[i].state]
    BY DEF bookBar
  <1>3. ASSUME NEW i \in DOMAIN rows PROVE bookBar[i] \in C!Entry
    <2>1. rows[i].key \in Keys /\ rows[i].state \in {"pending"} \cup C!Verdicts
      BY RowShape DEF C!Verdicts
    <2>2. [key |-> rows[i].key, state |-> rows[i].state] \in C!Entry
      BY <2>1 DEF C!Entry
    <2>3. QED
      BY <1>2, <2>2
  <1>4. bookBar = [i \in 1..Len(rows) |-> bookBar[i]]
    <2>1. bookBar = [i \in DOMAIN bookBar |-> bookBar[i]]
      BY DEF bookBar
    <2>2. QED
      BY <1>1, <2>1
  <1>5. bookBar \in Seq(C!Entry)
    <2> DEFINE b == bookBar
    <2>1. b = [i \in 1..Len(rows) |-> b[i]] /\ \A i \in 1..Len(rows) : b[i] \in C!Entry
      BY <1>1, <1>3, <1>4
    <2> HIDE DEF b
    <2>2. b \in Seq(C!Entry)
      BY <1>1, <2>1
    <2>3. QED
      BY <2>2 DEF b
  <1>6. QED
    BY <1>1, <1>2, <1>5

\* The rows' keys and states are all the abstract book sees.
LEMMA BookSame ==
  ASSUME rows \in Seq(Row), rows' \in Seq(Row), DOMAIN rows' = DOMAIN rows,
         \A i \in DOMAIN rows : rows'[i].key = rows[i].key /\ rows'[i].state = rows[i].state
  PROVE  bookBar' = bookBar
PROOF
  BY DEF bookBar

LEMMA GrantsSame ==
  ASSUME \A w \in Workers : \/ ask'[w] = ask[w]
                            \/ ask[w].at # "cleared" /\ ask'[w].at # "cleared"
  PROVE  grantedBar' = grantedBar
PROOF
  BY DEF grantedBar

\* One worker moves; neither where it was nor where it goes is past the gate.
LEMMA OneAskSame ==
  ASSUME TypeOK, NEW w \in Workers, NEW a, ask' = [ask EXCEPT ![w] = a],
         ask[w].at # "cleared", a.at # "cleared"
  PROVE  grantedBar' = grantedBar
PROOF
  <1>1. \A v \in Workers : v # w => ask'[v] = ask[v]
    BY DEF TypeOK
  <1>2. ask'[w] = a
    BY DEF TypeOK
  <1>3. QED
    BY <1>1, <1>2, GrantsSame

\* Settling one ticket answers one pending request, or changes nothing.
LEMMA SettleIsAnswer ==
  ASSUME IInv, NEW t \in Nat, NEW v \in Verdicts, rows' = SettleApproval(t, v),
         grantedBar' = grantedBar
  PROVE  C!Next \/ UNCHANGED C!vars
PROOF
  <1>1. rows \in Seq(Row) /\ TicketsOK
    BY DEF IInv, TypeOK
  <1>2. /\ rows' \in Seq(Row) /\ DOMAIN rows' = DOMAIN rows
        /\ \A i \in DOMAIN rows :
             /\ rows'[i].key = rows[i].key
             /\ \/ rows'[i].state = rows[i].state
                \/ /\ rows[i].ticket = t /\ rows[i].state = "pending"
                   /\ rows'[i].state = v
    BY <1>1, SettleRows
  <1>3. CASE \A i \in DOMAIN rows : rows'[i].state = rows[i].state
    <2>1. bookBar' = bookBar
      BY <1>1, <1>2, <1>3, BookSame
    <2>2. QED
      BY <2>1 DEF C!vars
  <1>4. CASE \E i \in DOMAIN rows : rows'[i].state # rows[i].state
    <2>1. PICK i \in DOMAIN rows : rows'[i].state # rows[i].state
      BY <1>4
    <2>2. rows[i].ticket = t /\ rows[i].state = "pending" /\ rows'[i].state = v
      BY <1>2, <2>1
    <2>3. \A j \in DOMAIN rows : j # i => rows[j].ticket # t
      BY <1>1, <2>2, RowShape DEF TicketsOK
    <2>4. \A j \in DOMAIN rows : j # i => rows'[j].state = rows[j].state
      BY <1>2, <2>3
    <2>5. /\ DOMAIN bookBar' = DOMAIN rows /\ DOMAIN bookBar = DOMAIN rows
          /\ \A j \in DOMAIN rows : bookBar'[j] = [key |-> rows'[j].key, state |-> rows'[j].state]
          /\ \A j \in DOMAIN rows : bookBar[j] = [key |-> rows[j].key, state |-> rows[j].state]
      BY <1>1, <1>2 DEF bookBar
    <2>6. bookBar'[i] = [bookBar[i] EXCEPT !.state = v] /\ bookBar[i].state = "pending"
      BY <1>2, <2>2, <2>5
    <2>7. \A j \in DOMAIN rows : j # i => bookBar'[j] = bookBar[j]
      BY <1>2, <2>4, <2>5
    <2>8. bookBar' = [bookBar EXCEPT ![i].state = v]
      BY <2>5, <2>6, <2>7 DEF bookBar
    <2>9. C!Answer(i, v) /\ v \in C!Verdicts /\ i \in DOMAIN bookBar
      BY <2>5, <2>6, <2>8 DEF C!Answer, C!Verdicts, Verdicts
    <2>10. QED
      BY <2>9 DEF C!Next
  <1>5. QED
    BY <1>3, <1>4

\* A worker that gate lets through holds an approved row of its key.
LEMMA GrantStep ==
  ASSUME IInv, NEW w \in Workers, NEW k \in Keys, NEW i \in DOMAIN rows,
         rows[i].key = k, rows[i].state = "approved", UNCHANGED rows,
         NEW a, ask' = [ask EXCEPT ![w] = a], a.at = "cleared", a.key = k
  PROVE  C!Next
PROOF
  <1>1. TypeOK /\ rows \in Seq(Row)
    BY DEF IInv, TypeOK
  <1>2. bookBar' = bookBar
    BY DEF bookBar
  <1>3. i \in DOMAIN bookBar /\ bookBar[i].key = k /\ bookBar[i].state = "approved"
    BY <1>1, BookShape
  <1>4. grantedBar' = [grantedBar EXCEPT ![w] = k]
    BY <1>1 DEF grantedBar, TypeOK
  <1>5. C!Grant(w, k)
    BY <1>2, <1>3, <1>4 DEF C!Grant
  <1>6. QED
    BY <1>5 DEF C!Next

LEMMA InsertFiles ==
  ASSUME IInv, NEW w \in Workers, Insert(w)
  PROVE  C!Next \/ UNCHANGED C!vars
PROOF
  <1>0. TypeOK /\ rows \in Seq(Row) /\ WorkerOK(w)
    BY DEF IInv, TypeOK
  <1>1. CASE \E i \in DOMAIN rows : rows[i].ticket = 0
    <2>1. ask' = [ask EXCEPT ![w] = [NoAsk EXCEPT !.at = "failed"]] /\ UNCHANGED rows /\ ask[w].at = "insert"
      BY <1>1 DEF Insert
    <2>2. [NoAsk EXCEPT !.at = "failed"].at = "failed"
      BY NoAskIdle, AtOnly
    <2>3. grantedBar' = grantedBar
      BY <1>0, <2>1, <2>2, OneAskSame
    <2>4. QED
      BY <2>1, <2>3 DEF C!vars, bookBar
  <1>2. CASE ~\E i \in DOMAIN rows : rows[i].ticket = 0
    <2> DEFINE k == ask[w].key
               n == Len(rows) + 1
               r == [ticket |-> 0, key |-> k, state |-> "pending"]
    <2>1. k \in Keys /\ \A i \in DOMAIN rows : rows[i].key = k => ~IsLive(i)
      BY <1>0, KeysAssumption DEF Insert, WorkerOK
    <2>2. rows' = Append(rows, r) /\ ask[w].at = "insert"
      BY <1>2 DEF Insert
    <2>3. [ask[w] EXCEPT !.at = "stamp", !.row = n] = [at |-> "stamp", key |-> k, row |-> n, best |-> ask[w].best]
      BY <1>0, AtAndRow DEF TypeOK, AskPoint
    <2>4. grantedBar' = grantedBar
      <3>1. ask' = [ask EXCEPT ![w] = [at |-> "stamp", key |-> k, row |-> n, best |-> ask[w].best]]
        BY <1>2, <2>3 DEF Insert
      <3>2. [at |-> "stamp", key |-> k, row |-> n, best |-> ask[w].best].at # "cleared"
        OBVIOUS
      <3>3. QED
        BY <1>0, <2>2, <3>1, <3>2, OneAskSame
    <2>5. r \in Row
      BY <2>1 DEF Row
    <2>6. /\ DOMAIN rows = 1..Len(rows) /\ Len(rows) \in Nat
          /\ rows' \in Seq(Row) /\ DOMAIN rows' = 1..n /\ rows'[n] = r
          /\ \A i \in 1..Len(rows) : rows'[i] = rows[i]
      BY <1>0, <2>2, <2>5, RowShape
    <2>7. bookBar' = Append(bookBar, [key |-> k, state |-> "pending"])
      <3> DEFINE e == [key |-> k, state |-> "pending"]
                 b == bookBar
                 c == bookBar'
      <3>1. b \in Seq(C!Entry) /\ DOMAIN b = 1..Len(rows)
            /\ \A i \in 1..Len(rows) : b[i] = [key |-> rows[i].key, state |-> rows[i].state]
        BY <1>0, <2>6, BookShape
      <3>2. DOMAIN c = 1..n /\ c = [i \in 1..n |-> c[i]]
            /\ \A i \in 1..n : c[i] = [key |-> rows'[i].key, state |-> rows'[i].state]
        <4>1. c = [i \in 1..n |-> [key |-> rows'[i].key, state |-> rows'[i].state]]
          BY <2>6 DEF bookBar
        <4> HIDE DEF c
        <4>2. QED
          BY <4>1
      <3>3. e \in C!Entry
        BY <2>1 DEF C!Entry
      <3>4. c[n] = e /\ \A i \in 1..Len(rows) : c[i] = b[i]
        BY <2>6, <3>1, <3>2
      <3> HIDE DEF b, c, e
      <3>5. Len(b) = Len(rows)
        BY <2>6, <3>1
      <3> DEFINE d == Append(b, e)
      <3>6. DOMAIN d = 1..n /\ d[n] = e /\ \A i \in 1..Len(rows) : d[i] = b[i]
        BY <2>6, <3>1, <3>3, <3>5
      <3>7. d = [i \in 1..n |-> d[i]]
        <4>1. d \in Seq(C!Entry)
          BY <3>1, <3>3
        <4> HIDE DEF d
        <4>2. QED
          BY <3>6, <4>1
      <3>8. \A i \in 1..n : c[i] = d[i]
        <4>1. \A i \in 1..n : i = n \/ i \in 1..Len(rows)
          BY <2>6
        <4>2. QED
          BY <3>4, <3>6, <4>1
      <3> HIDE DEF d
      <3>9. c = d
        BY <3>2, <3>7, <3>8
      <3>10. QED
        BY <3>9 DEF b, c, d, e
    <2>8. \A i \in DOMAIN bookBar : bookBar[i].key = k => bookBar[i].state = "denied"
      <3>1. \A i \in DOMAIN rows : bookBar[i].key = rows[i].key /\ bookBar[i].state = rows[i].state
        BY <1>0, BookShape
      <3>2. QED
        BY <1>0, <2>1, <3>1, BookShape, RowShape DEF IsLive
    <2>9. C!File(k)
      BY <2>4, <2>7, <2>8 DEF C!File
    <2>10. QED
      BY <2>1, <2>9 DEF C!Next
  <1>3. QED
    BY <1>1, <1>2

LEMMA RequestMaps ==
  ASSUME IInv, NEW w \in Workers, Request(w)
  PROVE  C!Next \/ UNCHANGED C!vars
PROOF
  <1>0. TypeOK /\ rows \in Seq(Row) /\ WorkerOK(w) /\ ask[w] \in Ask
    BY DEF IInv, TypeOK
  <1>1. CASE Insert(w)
    BY <1>1, InsertFiles
  <1>2. CASE Stamp(w)
    <2>1. ask[w].row \in DOMAIN rows /\ rows[ask[w].row] \in Row
      BY <1>0, <1>2, RowShape DEF Stamp, WorkerOK, Holds
    <2>2. DOMAIN rows' = DOMAIN rows
          /\ \A i \in DOMAIN rows : rows'[i].key = rows[i].key /\ rows'[i].state = rows[i].state
      BY <1>2, <2>1 DEF Stamp, Row
    <2>3. rows' \in Seq(Row)
      BY <1>2, NextInv DEF Next, Request, IInv, TypeOK
    <2>4. bookBar' = bookBar
      BY <1>0, <2>2, <2>3, BookSame
    <2>5. grantedBar' = grantedBar
      <3>1. [ask[w] EXCEPT !.at = "reread"].at = "reread"
        BY <1>0, AtOnly
      <3>2. ask' = [ask EXCEPT ![w] = [ask[w] EXCEPT !.at = "reread"]] /\ ask[w].at = "stamp"
        BY <1>2 DEF Stamp
      <3>3. QED
        BY <1>0, <3>1, <3>2, OneAskSame
    <2>6. QED
      BY <2>4, <2>5 DEF C!vars
  <1>3. CASE ReadAll(w)
    <2> DEFINE b == "all" \in open
    <2>1. [ask[w] EXCEPT !.at = "flagKind", !.best = b].at = "flagKind"
      BY <1>0, AtAndBest DEF AskPoint
    <2>2. grantedBar' = grantedBar
      BY <1>0, <1>3, <2>1, OneAskSame DEF ReadAll
    <2>3. QED
      BY <1>3, <2>2 DEF ReadAll, C!vars, bookBar
  <1>4. CASE ReadKind(w)
    <2> DEFINE p == IF ask[w].best \/ KindOf[ask[w].key] \in open THEN "settle" ELSE "asked"
    <2>1. p \in AskPoint /\ p # "cleared"
      BY DEF AskPoint
    <2> HIDE DEF p
    <2>2. [ask[w] EXCEPT !.at = p, !.best = FALSE].at = p
      <3>1. [ask[w] EXCEPT !.at = p, !.best = FALSE]
              = [at |-> p, key |-> ask[w].key, row |-> ask[w].row, best |-> FALSE]
        BY <1>0, <2>1, AtAndBest, Zenon
      <3>2. QED
        BY <3>1
    <2>3. ask' = [ask EXCEPT ![w] = [ask[w] EXCEPT !.at = p, !.best = FALSE]] /\ ask[w].at = "flagKind"
      BY <1>4 DEF ReadKind, p
    <2>4. grantedBar' = grantedBar
      BY <1>0, <2>1, <2>2, <2>3, OneAskSame
    <2>5. QED
      BY <1>4, <2>4 DEF ReadKind, C!vars, bookBar
  <1>5. CASE SettleOwn(w)
    <2> DEFINE t == rows[ask[w].row].ticket
    <2>1. t \in Nat /\ "approved" \in Verdicts
      BY <1>0, <1>5, RowShape DEF SettleOwn, WorkerOK, Holds, Verdicts
    <2>2. rows' = SettleApproval(t, "approved")
      BY <1>5 DEF SettleOwn
    <2>3. grantedBar' = grantedBar
      <3>1. [ask[w] EXCEPT !.at = "fetch"].at = "fetch"
        BY <1>0, AtOnly
      <3>2. ask' = [ask EXCEPT ![w] = [ask[w] EXCEPT !.at = "fetch"]] /\ ask[w].at = "settle"
        BY <1>5 DEF SettleOwn
      <3>3. QED
        BY <1>0, <3>1, <3>2, OneAskSame
    <2> HIDE DEF t
    <2>4. QED
      BY <2>1, <2>2, <2>3, SettleIsAnswer
  <1>6. CASE Fetch(w)
    <2> DEFINE i == ask[w].row
               p == Reply(rows[i].state)
               a == [ask[w] EXCEPT !.at = p]
    <2>1. i \in DOMAIN rows /\ rows[i].key = ask[w].key /\ ask[w].key \in Keys
          /\ rows[i].state \in {"pending", "approved", "denied"} /\ ask[w].at = "fetch"
      BY <1>0, <1>6, RowShape DEF Fetch, WorkerOK, Holds
    <2>2. p = "cleared" <=> rows[i].state = "approved"
      BY <2>1, ReplyPoint
    <2> HIDE DEF p
    <2>3. a.at = p /\ a.key = ask[w].key
      BY <1>0, AtOnly
    <2>4. ask' = [ask EXCEPT ![w] = a] /\ UNCHANGED rows
      BY <1>6 DEF Fetch, p
    <2> HIDE DEF a
    <2>5. CASE p = "cleared"
      BY <2>1, <2>2, <2>3, <2>4, <2>5, GrantStep
    <2>6. CASE p # "cleared"
      <3>1. grantedBar' = grantedBar
        BY <1>0, <2>1, <2>3, <2>4, <2>6, OneAskSame
      <3>2. QED
        BY <2>4, <3>1 DEF C!vars, bookBar
    <2>7. QED
      BY <2>5, <2>6
  <1>7. CASE Reread(w)
    <2> DEFINE i == ask[w].row
               p == IF rows[i].state = "pending" THEN "flagAll" ELSE Reply(rows[i].state)
               a == [ask[w] EXCEPT !.at = p]
    <2>1. i \in DOMAIN rows /\ rows[i].key = ask[w].key /\ ask[w].key \in Keys
          /\ rows[i].state \in {"pending", "approved", "denied"} /\ ask[w].at = "reread"
      BY <1>0, <1>7, RowShape DEF Reread, WorkerOK, Holds
    <2>2. p = "cleared" <=> rows[i].state = "approved"
      BY <2>1, ReplyPoint
    <2> HIDE DEF p
    <2>3. a.at = p /\ a.key = ask[w].key
      BY <1>0, AtOnly
    <2>4. ask' = [ask EXCEPT ![w] = a] /\ UNCHANGED rows
      BY <1>7 DEF Reread, p
    <2> HIDE DEF a
    <2>5. CASE p = "cleared"
      BY <2>1, <2>2, <2>3, <2>4, <2>5, GrantStep
    <2>6. CASE p # "cleared"
      <3>1. grantedBar' = grantedBar
        BY <1>0, <2>1, <2>3, <2>4, <2>6, OneAskSame
      <3>2. QED
        BY <2>4, <3>1 DEF C!vars, bookBar
    <2>7. QED
      BY <2>5, <2>6
  <1>8. QED
    BY <1>1, <1>2, <1>3, <1>4, <1>5, <1>6, <1>7 DEF Request

LEMMA ReuseMaps ==
  ASSUME IInv, NEW w \in Workers, NEW k \in Keys, Reuse(w, k)
  PROVE  C!Next \/ UNCHANGED C!vars
PROOF
  <1>0. TypeOK /\ rows \in Seq(Row)
    BY DEF IInv, TypeOK
  <1>1. PICK i \in LiveRows(k) :
          ask' = [ask EXCEPT ![w] = [at |-> Reply(rows[i].state), key |-> k, row |-> i, best |-> FALSE]]
    BY DEF Reuse
  <1> DEFINE p == Reply(rows[i].state)
             a == [at |-> p, key |-> k, row |-> i, best |-> FALSE]
  <1>2. i \in DOMAIN rows /\ rows[i].key = k /\ rows[i].state \in {"pending", "approved"}
    BY DEF LiveRows
  <1>3. p = "cleared" <=> rows[i].state = "approved"
    BY <1>2, ReplyPoint
  <1> HIDE DEF p
  <1>4. a.at = p /\ a.key = k
    OBVIOUS
  <1>5. ask' = [ask EXCEPT ![w] = a] /\ UNCHANGED rows /\ ask[w].at = "idle"
    BY <1>1 DEF Reuse, p
  <1> HIDE DEF a
  <1>6. CASE p = "cleared"
    BY <1>2, <1>3, <1>4, <1>5, <1>6, GrantStep
  <1>7. CASE p # "cleared"
    <2>1. grantedBar' = grantedBar
      BY <1>0, <1>4, <1>5, <1>7, OneAskSame
    <2>2. QED
      BY <1>5, <2>1 DEF C!vars, bookBar
  <1>8. QED
    BY <1>6, <1>7

LEMMA AskNewMaps ==
  ASSUME IInv, NEW w \in Workers, NEW k \in Keys, AskNew(w, k)
  PROVE  UNCHANGED C!vars
PROOF
  <1>1. TypeOK
    BY DEF IInv
  <1>2. [NoAsk EXCEPT !.at = "insert", !.key = k].at = "insert"
    BY NoAskAt DEF AskPoint
  <1>3. grantedBar' = grantedBar
    BY <1>1, <1>2, OneAskSame DEF AskNew
  <1>4. QED
    BY <1>3 DEF AskNew, C!vars, bookBar

LEMMA LoopMaps ==
  ASSUME IInv, NEW w \in Workers, Loop(w)
  PROVE  C!Next \/ UNCHANGED C!vars
PROOF
  <1>0. TypeOK /\ ask[w] \in Ask
    BY DEF IInv, TypeOK
  <1>1. CASE Park(w)
    <2>1. [ask[w] EXCEPT !.at = "parked"].at = "parked"
      BY <1>0, AtOnly
    <2>2. ask' = [ask EXCEPT ![w] = [ask[w] EXCEPT !.at = "parked"]] /\ ask[w].at = "asked"
      BY <1>1 DEF Park
    <2>3. grantedBar' = grantedBar
      BY <1>0, <2>1, <2>2, OneAskSame
    <2>4. QED
      BY <1>1, <2>3 DEF Park, C!vars, bookBar
  <1>2. CASE PollGate(w)
    <2> DEFINE a == IF rows[ask[w].row].state = "approved" THEN NoAsk ELSE [NoAsk EXCEPT !.at = "refused"]
    <2>1. [NoAsk EXCEPT !.at = "refused"].at = "refused" /\ NoAsk.at = "idle"
      BY NoAskIdle, AtOnly DEF NoAsk
    <2>2. a.at # "cleared"
      BY <2>1
    <2>3. ask' = [ask EXCEPT ![w] = a] /\ ask[w].at = "parked"
      BY <1>2 DEF PollGate
    <2> HIDE DEF a
    <2>4. grantedBar' = grantedBar
      BY <1>0, <2>2, <2>3, OneAskSame
    <2>5. QED
      BY <1>2, <2>4 DEF PollGate, C!vars, bookBar
  <1>3. CASE StepOver(w)
    <2>1. ask' = [ask EXCEPT ![w] = NoAsk] /\ UNCHANGED rows /\ NoAsk.at = "idle"
      BY <1>3 DEF StepOver, NoAsk
    <2>2. grantedBar' = [v \in Workers |-> IF v \in {w} THEN NoKey ELSE grantedBar[v]]
      BY <1>0, <2>1 DEF grantedBar, TypeOK
    <2>3. C!Withdraw({w})
      BY <2>1, <2>2 DEF C!Withdraw, bookBar
    <2>4. QED
      BY <2>3 DEF C!Next
  <1>4. CASE Retake(w)
    <2>1. ask' = [ask EXCEPT ![w] = NoAsk] /\ UNCHANGED rows /\ ask[w].at = "parked" /\ NoAsk.at = "idle"
      BY <1>4 DEF Retake, NoAsk
    <2>2. grantedBar' = grantedBar
      BY <1>0, <2>1, OneAskSame
    <2>3. QED
      BY <2>1, <2>2 DEF C!vars, bookBar
  <1>5. QED
    BY <1>1, <1>2, <1>3, <1>4 DEF Loop

LEMMA CrashMaps ==
  ASSUME IInv, CrashLoop
  PROVE  C!Next
PROOF
  <1> DEFINE W == {v \in Workers : ask[v].at # "parked"}
  <1>1. UNCHANGED rows /\ NoAsk.at = "idle"
        /\ ask' = [v \in Workers |-> IF ask[v].at = "parked" THEN ask[v] ELSE NoAsk]
    BY DEF CrashLoop, NoAsk
  <1>2. grantedBar' = [v \in Workers |-> IF v \in W THEN NoKey ELSE grantedBar[v]]
    BY <1>1 DEF grantedBar
  <1>3. C!Withdraw(W)
    BY <1>1, <1>2 DEF C!Withdraw, bookBar
  <1>4. QED
    BY <1>3 DEF C!Next

LEMMA CommandMaps ==
  ASSUME IInv, NEW o \in Owners, SettleNext(o)
  PROVE  C!Next \/ UNCHANGED C!vars
PROOF
  <1>0. TypeOK
    BY DEF IInv
  <1>1. PICK e \in cmd[o].todo : rows' = SettleApproval(e.ticket, cmd[o].verdict)
    BY DEF SettleNext
  <1>2. e.ticket \in Nat /\ cmd[o].verdict \in Verdicts
    BY <1>0, CmdFields DEF Listed
  <1>3. grantedBar' = grantedBar
    BY DEF SettleNext, grantedBar
  <1>4. QED
    BY <1>1, <1>2, <1>3, SettleIsAnswer

LEMMA OtherSteps ==
  ASSUME Next
  PROVE  \/ \E w \in Workers : Request(w) \/ Loop(w)
         \/ \E w \in Workers, k \in Keys : Reuse(w, k) \/ AskNew(w, k)
         \/ CrashLoop
         \/ \E o \in Owners : SettleNext(o)
         \/ UNCHANGED <<rows, ask>>
PROOF
  BY DEF Next, Command, KillCommand, ListPending, CheckNext, AnswerOne, AnswerAll, OpenAllow, CloseAllow

\* The queue with its two database processes, sessions and crashes implements
\* the abstract consent protocol: requests are filed only for keys with no live
\* request, answered once, and acted on only when approved.
THEOREM ImplementsConsent == Spec => ConsentSpec
PROOF
  <1>1. Init => C!Init
    <2> SUFFICES ASSUME Init PROVE C!Init
      OBVIOUS
    <2>1. bookBar = <<>>
      BY DEF Init, bookBar
    <2>2. grantedBar = [w \in Workers |-> NoKey]
      BY DEF Init, grantedBar, NoAsk
    <2>3. QED
      BY <2>1, <2>2 DEF C!Init
  <1>2. IInv /\ [Next]_vars => [C!Next]_(C!vars)
    <2> SUFFICES ASSUME IInv, [Next]_vars PROVE C!Next \/ UNCHANGED C!vars
      OBVIOUS
    <2>1. ASSUME NEW w \in Workers, Request(w) \/ Loop(w) PROVE C!Next \/ UNCHANGED C!vars
      BY <2>1, RequestMaps, LoopMaps
    <2>2. ASSUME NEW w \in Workers, NEW k \in Keys, Reuse(w, k) \/ AskNew(w, k)
          PROVE C!Next \/ UNCHANGED C!vars
      BY <2>2, ReuseMaps, AskNewMaps
    <2>3. CASE CrashLoop
      BY <2>3, CrashMaps
    <2>4. ASSUME NEW o \in Owners, SettleNext(o) PROVE C!Next \/ UNCHANGED C!vars
      BY <2>4, CommandMaps
    <2>5. CASE UNCHANGED <<rows, ask>>
      BY <2>5 DEF C!vars, bookBar, grantedBar
    <2>6. CASE UNCHANGED vars
      BY <2>6 DEF vars, C!vars, bookBar, grantedBar
    <2>7. QED
      BY <2>1, <2>2, <2>3, <2>4, <2>5, <2>6, OtherSteps
  <1>3. QED
    BY <1>1, <1>2, Invariance, PTL DEF Spec, ConsentSpec, C!Spec
=============================================================================
