------------------------------ MODULE Consent ------------------------------
(***************************************************************************)
(* What the owner-approval queue of autopilot promises, without the        *)
(* database, the command line or the allow sessions that answer requests.  *)
(* A key stands for a scope_key of the approvals table ("code:<task>" or   *)
(* "push:<task>:<step>"), a worker for the thread that runs a task's step. *)
(*                                                                         *)
(*   - a request is filed only for a key that has no live (pending or      *)
(*     approved) request: one yes covers the key;                          *)
(*   - a pending request is answered once and the answer stands;           *)
(*   - a worker may act under a key only when that key has been approved.  *)
(***************************************************************************)
EXTENDS Naturals, Sequences

CONSTANTS
  Workers,  \* threads that ask
  Keys,     \* what is asked for
  NoKey     \* not in Keys: a worker that may not act now

VARIABLES
  book,     \* the requests, in the order they were filed
  granted   \* granted[w]: the key worker w acts under, or NoKey

vars == <<book, granted>>

Verdicts == {"approved", "denied"}
Entry == [key : Keys, state : {"pending"} \cup Verdicts]

TypeOK ==
  /\ book \in Seq(Entry)
  /\ granted \in [Workers -> Keys \cup {NoKey}]

Init ==
  /\ book = <<>>
  /\ granted = [w \in Workers |-> NoKey]

File(k) ==
  /\ \A i \in DOMAIN book : book[i].key = k => book[i].state = "denied"
  /\ book' = Append(book, [key |-> k, state |-> "pending"])
  /\ UNCHANGED granted

Answer(i, v) ==
  /\ book[i].state = "pending"
  /\ book' = [book EXCEPT ![i].state = v]
  /\ UNCHANGED granted

Grant(w, k) ==
  /\ \E i \in DOMAIN book : book[i].key = k /\ book[i].state = "approved"
  /\ granted' = [granted EXCEPT ![w] = k]
  /\ UNCHANGED book

\* The step ended, or the process that ran these workers did.
Withdraw(W) ==
  /\ granted' = [w \in Workers |-> IF w \in W THEN NoKey ELSE granted[w]]
  /\ UNCHANGED book

Next ==
  \/ \E k \in Keys : File(k)
  \/ \E i \in DOMAIN book, v \in Verdicts : Answer(i, v)
  \/ \E w \in Workers, k \in Keys : Grant(w, k)
  \/ \E W \in SUBSET Workers : Withdraw(W)

Spec == Init /\ [][Next]_vars
=============================================================================
