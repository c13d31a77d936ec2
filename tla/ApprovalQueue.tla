--------------------------- MODULE ApprovalQueue ---------------------------
(***************************************************************************)
(* The owner-approval queue of autopilot: approvals.py over the approvals  *)
(* and flags tables of store.py, and the part of the runner that asks      *)
(* (gate) and wakes a parked step (poll_gate).                             *)
(*                                                                         *)
(* Three kinds of actors share the tables.  Worker threads of the loop     *)
(* run approvals.request.  The owner's commands (CLI or MCP, processes of  *)
(* their own) answer requests and open allow sessions.  The loop's main    *)
(* thread parks steps and wakes them.  The connection is in autocommit     *)
(* mode, so an action here is one SQL statement; between two of them every *)
(* other actor may run and the process may be killed.                      *)
(*                                                                         *)
(* Simplifications: an allow session is open or not (its expiry and        *)
(* close_allow are one action that may happen at any time); a ticket       *)
(* "ap-<id>" is the row's number and '' is 0; policies that do not ask for *)
(* a kind at all (gate's first return) are left out.                       *)
(***************************************************************************)
EXTENDS Naturals, Sequences, FiniteSets

CONSTANTS
  Workers,    \* worker threads; a task has at most one step in flight
  Owners,     \* processes in which the owner's commands run
  Keys,       \* scope keys
  NoKey,
  KindOf,     \* KindOf[k] \in {"code", "push"}: which gate a key belongs to
  KeysOf,     \* KeysOf[w]: the keys a worker asks for; a key names its task
  MaxRows,    \* bound on the requests filed
  MayKill     \* which processes are killed now and then: "loop", "command"

ASSUME KeysAssumption ==
  /\ NoKey \notin Keys
  /\ KindOf \in [Keys -> {"code", "push"}]
  /\ KeysOf \in [Workers -> SUBSET Keys]
  /\ \A v, w \in Workers : v # w => KeysOf[v] \cap KeysOf[w] = {}

ASSUME BoundsAssumption == MaxRows \in Nat /\ MayKill \subseteq {"loop", "command"}

VARIABLES
  rows,     \* the approvals table in id order: [ticket, key, state]
  open,     \* the scopes whose allow session has not expired
  ask,      \* ask[w]: what worker w, or the step it ran, is doing
  cmd,      \* cmd[o]: the owner's command running in process o
  killed,   \* observed: which kinds of process have been killed so far
  told,     \* observed, not in the program: the rows whose denial reached the task
  retaken   \* observed: the rows whose waiting step the owner took back himself

vars == <<rows, open, ask, cmd, killed, told, retaken>>

AllowScopes == {"all", "code", "push"}
Verdicts == {"approved", "denied"}
Row == [ticket : Nat, key : Keys, state : {"pending"} \cup Verdicts]

\* Where a request stands.  "asked": gate returned park and the loop has not
\* recorded it yet.  "parked": recorded, the step waits on its ticket.
\* "cleared": gate returned None, the step acts.  "refused": with the owner.
\* "failed": the INSERT raised.
AskPoint == {"idle", "insert", "stamp", "reread", "flagAll", "flagKind", "settle", "fetch",
             "asked", "parked", "cleared", "refused", "failed"}
Ask == [at : AskPoint, key : Keys \cup {NoKey}, row : Nat, best : BOOLEAN]
NoAsk == [at |-> "idle", key |-> NoKey, row |-> 0, best |-> FALSE]

CmdPoint == {"idle", "list", "settle", "check"}
Listed == [id : Nat, ticket : Nat]
Cmd == [at : CmdPoint, scope : AllowScopes, verdict : Verdicts, todo : SUBSET Listed]
NoCmd == [at |-> "idle", scope |-> "all", verdict |-> "denied", todo |-> {}]

\* SCOPES: a session for "all" or for the kind itself covers a request.
Covers(s, k) == s = "all" \/ s = KindOf[k]

-----------------------------------------------------------------------------
(* The statements of the store *)

LiveRowsPendingOnly(k) == {i \in DOMAIN rows : rows[i].key = k /\ rows[i].state = "pending"}
\* approval_by_scope looks at pending and approved rows only.
LiveRows(k) == {i \in DOMAIN rows : rows[i].key = k /\ rows[i].state \in {"pending", "approved"}}

SettleAnyState(t, v) ==
  [i \in DOMAIN rows |-> IF rows[i].ticket = t THEN [rows[i] EXCEPT !.state = v] ELSE rows[i]]
\* settle_approval: only a row that is still pending takes the answer.
SettleApproval(t, v) ==
  [i \in DOMAIN rows |->
     IF rows[i].ticket = t /\ rows[i].state = "pending"
     THEN [rows[i] EXCEPT !.state = v] ELSE rows[i]]

NoLock(w) == TRUE
\* add_approval holds the store's lock over its INSERT, UPDATE and SELECT, so the
\* other threads of the process wait; another process does not.
LockFree(w) == \A v \in Workers \ {w} : ask[v].at \notin {"stamp", "reread"}

\* gate's three outcomes for the approval that request returned.
ReplySettledClears(s) == IF s = "pending" THEN "asked" ELSE "cleared"
Reply(s) == CASE s = "approved" -> "cleared" [] s = "pending" -> "asked" [] s = "denied" -> "refused"

\* Row i, if its answer is no.
DeniedOf(i) == {j \in {i} : rows[j].state = "denied"}

-----------------------------------------------------------------------------
(* approvals.request, in a worker thread *)

Reuse(w, k) ==
  /\ ask[w].at = "idle" /\ k \in KeysOf[w] /\ LockFree(w)
  /\ \E i \in LiveRows(k) :
       /\ \A j \in LiveRows(k) : j <= i
       /\ ask' = [ask EXCEPT ![w] = [at |-> Reply(rows[i].state), key |-> k, row |-> i, best |-> FALSE]]
       /\ retaken' = retaken \ {i}
  /\ UNCHANGED <<rows, open, cmd, killed, told>>

AskNewUnseen(w, k) ==
  /\ ask[w].at = "idle" /\ k \in KeysOf[w] /\ LockFree(w)
  /\ ask' = [ask EXCEPT ![w] = [NoAsk EXCEPT !.at = "insert", !.key = k]]
  /\ UNCHANGED <<rows, open, cmd, killed, told, retaken>>
AskNew(w, k) ==
  /\ ask[w].at = "idle" /\ k \in KeysOf[w] /\ LockFree(w)
  /\ LiveRows(k) = {}
  /\ ask' = [ask EXCEPT ![w] = [NoAsk EXCEPT !.at = "insert", !.key = k]]
  /\ UNCHANGED <<rows, open, cmd, killed, told, retaken>>

InsertKeyless(w) ==
  /\ ask[w].at = "insert" /\ LockFree(w) /\ Len(rows) < MaxRows
  /\ rows' = Append(rows, [ticket |-> 0, key |-> NoKey, state |-> "pending"])
  /\ ask' = [ask EXCEPT ![w].at = "stamp", ![w].row = Len(rows) + 1]
  /\ UNCHANGED <<open, cmd, killed, told, retaken>>
\* INSERT with ticket '': the column is UNIQUE, so a row that was left without
\* its ticket makes the statement raise.
Insert(w) ==
  /\ ask[w].at = "insert" /\ LockFree(w)
  /\ IF \E i \in DOMAIN rows : rows[i].ticket = 0
     THEN /\ ask' = [ask EXCEPT ![w] = [NoAsk EXCEPT !.at = "failed"]]
          /\ UNCHANGED rows
     ELSE /\ Len(rows) < MaxRows
          /\ rows' = Append(rows, [ticket |-> 0, key |-> ask[w].key, state |-> "pending"])
          /\ ask' = [ask EXCEPT ![w].at = "stamp", ![w].row = Len(rows) + 1]
  /\ UNCHANGED <<open, cmd, killed, told, retaken>>

Stamp(w) ==
  /\ ask[w].at = "stamp"
  /\ rows' = [rows EXCEPT ![ask[w].row].ticket = ask[w].row]
  /\ ask' = [ask EXCEPT ![w].at = "reread"]
  /\ UNCHANGED <<open, cmd, killed, told, retaken>>

\* add_approval returns the row as it is now.  Once the row is answered, the
\* flags read next change nothing: settle leaves it alone and its answer is
\* gate's.
Reread(w) ==
  /\ ask[w].at = "reread"
  /\ ask' = [ask EXCEPT ![w].at = IF rows[ask[w].row].state = "pending" THEN "flagAll"
                                 ELSE Reply(rows[ask[w].row].state)]
  /\ told' = told \cup DeniedOf(ask[w].row)
  /\ UNCHANGED <<rows, open, cmd, killed, retaken>>

\* allow_until reads one flag per scope of the kind.
ReadAll(w) ==
  /\ ask[w].at = "flagAll" /\ LockFree(w)
  /\ ask' = [ask EXCEPT ![w].at = "flagKind", ![w].best = "all" \in open]
  /\ UNCHANGED <<rows, open, cmd, killed, told, retaken>>

ReadKindForgotten(w) ==
  /\ ask[w].at = "flagKind" /\ LockFree(w)
  /\ ask' = [ask EXCEPT ![w].at = IF ask[w].best THEN "settle" ELSE "asked", ![w].best = FALSE]
  /\ UNCHANGED <<rows, open, cmd, killed, told, retaken>>
\* With no session the row as it was inserted is returned: still pending.
ReadKind(w) ==
  /\ ask[w].at = "flagKind" /\ LockFree(w)
  /\ ask' = [ask EXCEPT
                 ![w].at = IF ask[w].best \/ KindOf[ask[w].key] \in open THEN "settle" ELSE "asked",
                 ![w].best = FALSE]
  /\ UNCHANGED <<rows, open, cmd, killed, told, retaken>>

SettleOwn(w) ==
  /\ ask[w].at = "settle" /\ LockFree(w)
  /\ rows' = SettleApproval(rows[ask[w].row].ticket, "approved")
  /\ ask' = [ask EXCEPT ![w].at = "fetch"]
  /\ UNCHANGED <<open, cmd, killed, told, retaken>>

\* settle reads the row back: the owner may have answered first.
Fetch(w) ==
  /\ ask[w].at = "fetch" /\ LockFree(w)
  /\ ask' = [ask EXCEPT ![w].at = Reply(rows[ask[w].row].state)]
  /\ told' = told \cup DeniedOf(ask[w].row)
  /\ UNCHANGED <<rows, open, cmd, killed, retaken>>

-----------------------------------------------------------------------------
(* The loop's main thread *)

Park(w) ==
  /\ ask[w].at = "asked" /\ LockFree(w)
  /\ ask' = [ask EXCEPT ![w].at = "parked"]
  /\ UNCHANGED <<rows, open, cmd, killed, told, retaken>>

PollGateRunsAgain(w) ==
  /\ ask[w].at = "parked" /\ LockFree(w)
  /\ rows[ask[w].row].ticket # 0
  /\ rows[ask[w].row].state \in Verdicts
  /\ ask' = [ask EXCEPT ![w] = NoAsk]
  /\ UNCHANGED <<rows, open, cmd, killed, told, retaken>>
\* waiting_steps leaves out a step whose ticket is ''.
PollGate(w) ==
  /\ ask[w].at = "parked" /\ LockFree(w)
  /\ rows[ask[w].row].ticket # 0
  /\ rows[ask[w].row].state \in Verdicts
  /\ ask' = [ask EXCEPT ![w] =
               IF rows[ask[w].row].state = "approved" THEN NoAsk ELSE [NoAsk EXCEPT !.at = "refused"]]
  /\ told' = told \cup DeniedOf(ask[w].row)
  /\ UNCHANGED <<rows, open, cmd, killed, retaken>>

\* The owner takes a waiting step off its request: retry makes the task ready
\* and the loop starts the step again (next_step returns waiting ones too);
\* cancel, in a process of its own, skips it, and a retry runs the next step.
\* The request stays in the table, whatever becomes of it.
Retake(w) ==
  /\ ask[w].at = "parked"
  /\ ask' = [ask EXCEPT ![w] = NoAsk]
  /\ retaken' = retaken \cup {ask[w].row}
  /\ UNCHANGED <<rows, open, cmd, killed, told>>

\* The session or the push ended; the owner retried the task; the backoff of
\* the failed step passed.
StepOver(w) ==
  /\ ask[w].at \in {"cleared", "refused", "failed"}
  /\ ask' = [ask EXCEPT ![w] = NoAsk]
  /\ UNCHANGED <<rows, open, cmd, killed, told, retaken>>

\* The process is killed: what was parked is in the database, the rest is lost
\* and recover() makes those steps pending again.
CrashLoop ==
  /\ "loop" \in MayKill
  /\ killed' = killed \cup {"loop"}
  /\ ask' = [w \in Workers |-> IF ask[w].at = "parked" THEN ask[w] ELSE NoAsk]
  /\ UNCHANGED <<rows, open, cmd, told, retaken>>

-----------------------------------------------------------------------------
(* The owner's commands *)

\* answer: one ticket.
AnswerOne(o, i, v) ==
  /\ cmd[o].at = "idle" /\ rows[i].ticket # 0
  /\ cmd' = [cmd EXCEPT ![o] = [at |-> "settle", scope |-> "all", verdict |-> v,
                                todo |-> {[id |-> i, ticket |-> rows[i].ticket]}]]
  /\ UNCHANGED <<rows, open, ask, killed, told, retaken>>

\* answer_all: every pending request, whatever its kind.
AnswerAll(o, v) ==
  /\ cmd[o].at = "idle"
  /\ cmd' = [cmd EXCEPT ![o] = [at |-> "list", scope |-> "all", verdict |-> v, todo |-> {}]]
  /\ UNCHANGED <<rows, open, ask, killed, told, retaken>>

OpenAllowFlagOnly(o, s) ==
  /\ cmd[o].at = "idle"
  /\ open' = open \cup {s}
  /\ UNCHANGED <<rows, ask, cmd, killed, told, retaken>>
\* open_allow: the flag first, then what is pending already.
OpenAllow(o, s) ==
  /\ cmd[o].at = "idle"
  /\ open' = open \cup {s}
  /\ cmd' = [cmd EXCEPT ![o] = [at |-> "list", scope |-> s, verdict |-> "approved", todo |-> {}]]
  /\ UNCHANGED <<rows, ask, killed, told, retaken>>

ListPending(o) ==
  /\ cmd[o].at = "list"
  /\ LET hit == {i \in DOMAIN rows : rows[i].state = "pending" /\ Covers(cmd[o].scope, rows[i].key)} IN
     cmd' = [cmd EXCEPT ![o] =
               IF hit = {} THEN NoCmd
               ELSE [at |-> "settle", scope |-> "all", verdict |-> cmd[o].verdict,
                     todo |-> {[id |-> i, ticket |-> rows[i].ticket] : i \in hit}]]
  /\ UNCHANGED <<rows, open, ask, killed, told, retaken>>

\* approvals() is ordered by id.
IsFirst(e, todo) == e \in todo /\ \A f \in todo : e.id <= f.id

SettleNext(o) ==
  /\ cmd[o].at = "settle"
  /\ \E e \in cmd[o].todo : IsFirst(e, cmd[o].todo) /\ rows' = SettleApproval(e.ticket, cmd[o].verdict)
  /\ cmd' = [cmd EXCEPT ![o].at = "check"]
  /\ UNCHANGED <<open, ask, killed, told, retaken>>

\* settle reads the row back by its ticket; KeyError ends the command.
CheckNext(o) ==
  /\ cmd[o].at = "check"
  /\ \E e \in cmd[o].todo :
       /\ IsFirst(e, cmd[o].todo)
       /\ LET found == \E i \in DOMAIN rows : rows[i].ticket = e.ticket IN
          cmd' = [cmd EXCEPT ![o] =
                    IF ~found \/ cmd[o].todo = {e} THEN NoCmd
                    ELSE [at |-> "settle", scope |-> "all", verdict |-> cmd[o].verdict,
                          todo |-> cmd[o].todo \ {e}]]
  /\ UNCHANGED <<rows, open, ask, killed, told, retaken>>

\* close_allow, or the session's time is over.
CloseAllow(s) ==
  /\ s \in open
  /\ open' = open \ {s}
  /\ UNCHANGED <<rows, ask, cmd, killed, told, retaken>>

KillCommand(o) ==
  /\ "command" \in MayKill /\ cmd[o].at # "idle"
  /\ killed' = killed \cup {"command"}
  /\ cmd' = [cmd EXCEPT ![o] = NoCmd]
  /\ UNCHANGED <<rows, open, ask, told, retaken>>

-----------------------------------------------------------------------------
Init ==
  /\ rows = <<>>
  /\ open = {}
  /\ ask = [w \in Workers |-> NoAsk]
  /\ cmd = [o \in Owners |-> NoCmd]
  /\ killed = {}
  /\ told = {}
  /\ retaken = {}

\* What a worker does once it has asked, up to gate's answer.
Request(w) == Insert(w) \/ Stamp(w) \/ Reread(w) \/ ReadAll(w) \/ ReadKind(w) \/ SettleOwn(w) \/ Fetch(w)
Loop(w) == Park(w) \/ PollGate(w) \/ Retake(w) \/ StepOver(w)
Command(o) == ListPending(o) \/ SettleNext(o) \/ CheckNext(o)

Next ==
  \/ \E w \in Workers : Request(w) \/ Loop(w)
  \/ \E w \in Workers, k \in Keys : Reuse(w, k) \/ AskNew(w, k)
  \/ CrashLoop
  \/ \E o \in Owners : Command(o) \/ KillCommand(o)
  \/ \E o \in Owners, i \in DOMAIN rows, v \in Verdicts : AnswerOne(o, i, v)
  \/ \E o \in Owners, v \in Verdicts : AnswerAll(o, v)
  \/ \E o \in Owners, s \in AllowScopes : OpenAllow(o, s)
  \/ \E s \in AllowScopes : CloseAllow(s)

Spec == Init /\ [][Next]_vars

-----------------------------------------------------------------------------
TypeOK ==
  /\ rows \in Seq(Row)
  /\ open \subseteq AllowScopes
  /\ ask \in [Workers -> Ask]
  /\ cmd \in [Owners -> Cmd]
  /\ killed \subseteq MayKill
  /\ told \subseteq Nat
  /\ retaken \subseteq Nat

\* "One approval per task (default) or per coding step": a key has at most one
\* request that is pending or approved, so one answer is all the owner gives.
\* approval_by_scope and add_approval are separate statements with no UNIQUE
\* column behind them: it rests on who asks for a key.
OneLiveRequest == \A k \in Keys : Cardinality(LiveRows(k)) <= 1

\* The INSERT puts '' in a UNIQUE column until the UPDATE behind it: it is the
\* store's lock that keeps two workers' requests from failing on each other, and
\* only a loop killed in between leaves a row that makes every later one fail.
RequestsAreFiled == "loop" \notin killed => \A w \in Workers : ask[w].at # "failed"

\* A request a worker acts under is approved, and no later one of its key was
\* filed after it: a denial that came first is not overridden.
Consented ==
  \A w \in Workers : ask[w].at = "cleared" =>
    /\ rows[ask[w].row].key = ask[w].key
    /\ rows[ask[w].row].state = "approved"
    /\ \A i \in DOMAIN rows : rows[i].key = ask[w].key => i <= ask[w].row

\* The answer in the table is the first one given, by whichever of the owner's
\* processes or the allow session came first; the others change nothing.
AnswersFinal ==
  [][\A i \in DOMAIN rows :
       /\ i \in DOMAIN rows' /\ rows'[i].key = rows[i].key
       /\ rows[i].state \in Verdicts => rows'[i].state = rows[i].state]_vars

\* Somebody is still on the way to answer the pending row i under session s.
BeingAnswered(i, s) ==
  \/ \E w \in Workers : /\ ask[w].row = i
                        /\ \/ ask[w].at \in {"stamp", "reread", "flagAll", "settle"}
                           \/ ask[w].at = "flagKind" /\ (ask[w].best \/ s # "all")
  \/ \E o \in Owners : /\ cmd[o].verdict = "approved"
                       /\ \/ cmd[o].at = "list" /\ Covers(cmd[o].scope, rows[i].key)
                          \/ cmd[o].at = "settle" /\ rows[i].ticket \in {e.ticket : e \in cmd[o].todo}
                          \/ cmd[o].at = "check" /\ \E e, f \in cmd[o].todo : e.id < f.id /\ f.ticket = rows[i].ticket

\* open_allow sets the flag and then lists what is pending; request inserts its
\* row and then reads the flags.  Whatever the interleaving, while a session is
\* open no request in its scope is left pending and forgotten by both.
SessionForgetsNothing ==
  killed = {} =>
    \A i \in DOMAIN rows, s \in open :
      rows[i].state = "pending" /\ Covers(s, rows[i].key) => BeingAnswered(i, s)

\* "Denial is never overridden and never retried automatically": while row i is
\* a denial the task has not been told of, nothing new is asked for its key,
\* unless it was the owner himself who took the step off that request (retry or
\* cancel) before the loop read his answer.
NoDenialRetried ==
  \A w \in Workers, i \in DOMAIN rows :
    rows[i].key = ask[w].key /\ i < ask[w].row /\ rows[i].state = "denied" => i \in told \cup retaken

\* It holds as long as the loop itself is not killed: a denial reaches the task
\* before its gate is asked again.
DenialReachesTask == "loop" \notin killed => NoDenialRetried

-----------------------------------------------------------------------------
(* The abstract specification this one implements *)
bookBar == [i \in DOMAIN rows |-> [key |-> rows[i].key, state |-> rows[i].state]]
grantedBar == [w \in Workers |-> IF ask[w].at = "cleared" THEN ask[w].key ELSE NoKey]

C == INSTANCE Consent WITH book <- bookBar, granted <- grantedBar
ConsentSpec == C!Spec
=============================================================================
