----------------------------- MODULE ToolCalls -----------------------------
(***************************************************************************)
(* Almanac.call (service.py), the one place that decides whether a tool    *)
(* runs, and its front ends: the MCP server (mcp_server.py) with the three *)
(* ways of asking a human, and the local agent (agent.py).                 *)
(*                                                                         *)
(* A call that changes something is answered with a plan first.  It runs   *)
(* when a human says yes, in a form the call waits for ("ask", and the     *)
(* agent's y/N prompt) or in one the client brings back with a nonce       *)
(* ("form"); when a runbook approves the tool ("runbook"); or when the     *)
(* call is repeated with the token its plan came with ("plain").  The      *)
(* token is an HMAC of the call under a key of the process: nothing is     *)
(* kept of it, it can be sent again, and whether the model has shown the   *)
(* plan to anybody is not known here.  Calls run in threads.  The tools    *)
(* are those of tools.py, a list of commands each, and kb_note of kb.py,   *)
(* whose plan is the diff against the note as it is.                       *)
(*                                                                         *)
(* A note is the number of its text, 0 when there is none; a kb_note call  *)
(* names the text it updates (base_sha256).  Left out: what commands print,*)
(* the index of the notes, which is brought up to date by every search,    *)
(* and the autopilot's own tools (autopilot/mcp_tools.py), which pass the  *)
(* same gate and then act on the autopilot's store.                        *)
(***************************************************************************)
EXTENDS Naturals, FiniteSets, Sequences

KbNote == "kb_note"

CONSTANTS
  Ways,              \* the front ends in use, of "plain", "ask", "form", "agent" and "runbook"
  Tools, Safety,     \* declared tools; Safety[t]: "read", "change" or "destructive"
  Approve,           \* the tools, or kb_note, the runbook's front matter approves
  Threads, Commands, \* calls at a time; commands of a declared tool
  Bases, MaxNote,    \* texts a call may name, 0 for none; texts a note ever has
  MaxForms, Limit    \* forms ever sent; PendingApprovals.limit

ASSUME CallsAssumption ==
  /\ Ways \subseteq {"plain", "ask", "form", "agent", "runbook"}
  /\ Safety \in [Tools -> {"read", "change", "destructive"}] /\ Approve \subseteq Tools \cup {KbNote}
  /\ {Commands, MaxNote, MaxForms, Limit} \subseteq Nat \ {0}
  /\ Bases \subseteq Nat /\ Bases # {}

VARIABLES
  job,     \* job[j]: a call in a thread
  held,    \* the plans this process returned with a token: those are valid until it ends
  form,    \* form[n]: a form that was sent, by its nonce
  note, texts, \* the note, and how many texts it has had
  agreed   \* observed: the calls a human has said yes to since the process started

vars == <<job, held, form, note, texts, agreed>>

Call == [tool : {KbNote}, base : Bases] \cup [tool : Tools, base : {0}]
IsRead(call) == call.tool # KbNote /\ Safety[call.tool] = "read"
Text == 0..MaxNote
Forms == 1..MaxForms

\* "asked" while a human is asked inside the call; "approved" until the audit line is
\* written; "run" inside the tool; "write" between kb_note's check and its write; "ran"
\* until the result is returned.
\* `by`: what the call goes by.  `codes`: whether each exit code so far is 0.
\* `well`, observed: the commands that were run and ended well.
Approvals == {"", "human", "runbook", "token"}
Job == [at : {"free", "asked", "approved", "run", "write", "ran"}, way : {"", "ask", "agent"}, call : Call,
        by : Approvals, shown : Text, read : Text, codes : Seq(BOOLEAN), well : SUBSET (1..Commands)]
AnyCall == CHOOSE call \in Call : TRUE
NoJob == [at |-> "free", way |-> "", call |-> AnyCall, by |-> "", shown |-> 0, read |-> 0,
          codes |-> <<>>, well |-> {}]
Plans == [call : Call, shown : Text]
\* `sent`, and `open` until its nonce is taken, expires or is pushed out.
Form == [sent : BOOLEAN, open : BOOLEAN, plan : Plans, answered : BOOLEAN, yes : BOOLEAN, runs : 0..2]
NoForm == [sent |-> FALSE, open |-> FALSE, plan |-> [call |-> AnyCall, shown |-> 0],
           answered |-> FALSE, yes |-> FALSE, runs |-> 0]
Closed(f) == [NoForm EXCEPT !.sent = f.sent, !.runs = f.runs]

Sent == {n \in Forms : form[n].sent}
Pending == {n \in Forms : form[n].open}

Init ==
  /\ job = [j \in Threads |-> NoJob]
  /\ held = {}
  /\ form = [n \in Forms |-> NoForm]
  /\ note = 0 /\ texts = 0
  /\ agreed = {}

Called(call, plan, by) == [NoJob EXCEPT !.call = call, !.by = by, !.shown = plan.shown]
Begin(j, call, at, plan, by) == job' = [job EXCEPT ![j] = [Called(call, plan, by) EXCEPT !.at = at]]
PlanOf(j) == [call |-> job[j].call, shown |-> job[j].shown]
PlanNow(call) == [call |-> call, shown |-> IF call.tool = KbNote THEN note ELSE 0]

-----------------------------------------------------------------------------
(* Almanac.call without an approval *)

\* Mutant: the text named is not compared.
BaseIgnored(call) == TRUE
\* KnowledgeBase.note refuses to update another text than the one named.
BaseFits(call) == call.tool = KbNote /\ note # 0 => call.base = note

\* A read tool runs at once.
Read(j, call) ==
  /\ IsRead(call)
  /\ Begin(j, call, "run", PlanNow(call), "")
  /\ UNCHANGED <<held, form, note, texts, agreed>>

\* The plan and its token are returned to the model.
Told(way, call) ==
  /\ way = "plain"
  /\ held' = held \cup {PlanNow(call)}
  /\ UNCHANGED <<job, form, note, texts, agreed>>

\* elicit_form, or the prompt in the terminal; a runbook approves by the tool's name, and
\* has nobody at a prompt.
Asks(j, way, call) ==
  /\ \/ /\ way \in {"ask", "agent"}
        /\ job' = [job EXCEPT ![j] = [Called(call, PlanNow(call), "human") EXCEPT !.at = "asked", !.way = way]]
     \/ way = "runbook" /\ call.tool \in Approve /\ Begin(j, call, "approved", PlanNow(call), "runbook")
  /\ UNCHANGED <<held, form, note, texts, agreed>>

\* PendingApprovals.mint: expired nonces go, and the oldest beyond the limit.
Oldest(S) == CHOOSE n \in S : \A m \in S : n <= m
Kept(left) == IF Cardinality(left) >= Limit THEN left \ {Oldest(left)} ELSE left
Mint(way, call) ==
  /\ way = "form" /\ Sent # Forms
  /\ \E expired \in SUBSET Pending :
       LET left == Pending \ expired
           new == Oldest(Forms \ Sent)
       IN form' = [n \in Forms |->
            IF n = new THEN [NoForm EXCEPT !.sent = TRUE, !.open = TRUE, !.plan = PlanNow(call)]
            ELSE IF n \in Kept(left) THEN form[n] ELSE Closed(form[n])]
  /\ UNCHANGED <<job, held, note, texts, agreed>>

Plan(j, way, call) ==
  /\ ~IsRead(call) /\ BaseFits(call)
  /\ Told(way, call) \/ Asks(j, way, call) \/ Mint(way, call)

-----------------------------------------------------------------------------
(* The human's answers *)

\* The form or prompt the call waits for: yes; no; or a client that failed or let the
\* time pass, which is left with the token.
Answers(j) ==
  /\ job[j].at = "asked"
  /\ \/ /\ job' = [job EXCEPT ![j].at = "approved", ![j].way = ""]
        /\ agreed' = agreed \cup {job[j].call}
        /\ UNCHANGED held
     \/ job' = [job EXCEPT ![j] = NoJob] /\ UNCHANGED <<held, agreed>>
     \/ /\ job[j].way = "ask"
        /\ job' = [job EXCEPT ![j] = NoJob]
        /\ held' = held \cup {PlanOf(j)}
        /\ UNCHANGED agreed
  /\ UNCHANGED <<form, note, texts>>

FormAnswered(n, yes) ==
  /\ form[n].open /\ ~form[n].answered
  /\ form' = [form EXCEPT ![n].answered = TRUE, ![n].yes = yes]
  /\ agreed' = IF yes THEN agreed \cup {form[n].plan.call} ELSE agreed
  /\ UNCHANGED <<job, held, note, texts>>

-----------------------------------------------------------------------------
(* Calls with an approval *)

\* The call is repeated with the token of a plan, whoever has seen that: an HMAC of the
\* tool's name and all its arguments.  With other arguments it is a first call (Told).
Confirm(j, call) ==
  /\ ~IsRead(call)
  /\ \E p \in held : p.call = call /\ Begin(j, call, "approved", p, "token")
  /\ UNCHANGED <<held, form, note, texts, agreed>>

\* Mutant: the nonce is not used up.
TakeLeaves(n) == form
\* PendingApprovals.take: the entry goes in any case, and counts only for that very
\* call, and in time.
Take(n) == [form EXCEPT ![n] = Closed(@)]
\* Mutant: a form that came back is taken for a yes.
AnyAnswer(n, call) == form[n].plan.call = call
\* _approved: only a form accepted with "approve" ticked; any other answer declines.
Accepted(n, call) == form[n].yes /\ form[n].plan.call = call
Retry(j, n, call) ==
  /\ form[n].open /\ form[n].answered /\ form[n].runs < 2
  /\ \/ /\ Accepted(n, call)
        /\ form' = [Take(n) EXCEPT ![n].runs = @ + 1]
        /\ Begin(j, call, "approved", form[n].plan, "human")
     \/ form' = Take(n) /\ UNCHANGED job
  /\ UNCHANGED <<held, note, texts, agreed>>

\* The plan is made once more, refused if the note has changed, and the approval audited.
Start(j) ==
  /\ job[j].at = "approved"
  /\ job' = [job EXCEPT ![j] = IF BaseFits(@.call) THEN [@ EXCEPT !.at = "run"] ELSE NoJob]
  /\ UNCHANGED <<held, form, note, texts, agreed>>

\* The note has a text that is new, or one it has had before.
NoteBecomes ==
  \E text \in 1..MaxNote :
    /\ text <= texts + 1 /\ note' = text
    /\ texts' = IF text > texts THEN text ELSE texts

\* note(write=True) reads and checks the file...
Check(j) ==
  /\ job[j].at = "run" /\ job[j].call.tool = KbNote
  /\ job' = [job EXCEPT ![j] = IF BaseFits(@.call) THEN [@ EXCEPT !.at = "write", !.read = note] ELSE NoJob]
  /\ UNCHANGED <<held, form, note, texts, agreed>>

\* ...and replaces it.
Write(j) ==
  /\ job[j].at = "write" /\ NoteBecomes
  /\ job' = [job EXCEPT ![j].at = "ran", ![j].read = 0]
  /\ UNCHANGED <<held, form, agreed>>

\* Mutant: what the last command said goes for all.
LastSucceeded(codes) == codes # <<>> => codes[Len(codes)]
\* RunResult.ok
Succeeded(codes) == \A i \in DOMAIN codes : codes[i]

NextCommand(j) == Len(job[j].codes) + 1
\* execute: a command ends, well or with an exit code, or is not found, or is killed at
\* the tool's timeout; one whose time is up before it starts is skipped (124) and ends
\* the list.
Command(j) ==
  /\ job[j].at = "run" /\ job[j].call.tool # KbNote /\ NextCommand(j) <= Commands
  /\ \/ job' = [job EXCEPT ![j].codes = Append(@, TRUE), ![j].well = @ \cup {NextCommand(j)}]
     \/ job' = [job EXCEPT ![j].codes = Append(@, FALSE)]
     \/ NextCommand(j) > 1 /\ job' = [job EXCEPT ![j].codes = Append(@, FALSE), ![j].at = "ran"]
  /\ UNCHANGED <<held, form, note, texts, agreed>>
AllRan(j) ==
  /\ job[j].at = "run" /\ job[j].call.tool # KbNote /\ NextCommand(j) > Commands
  /\ job' = [job EXCEPT ![j].at = "ran"]
  /\ UNCHANGED <<held, form, note, texts, agreed>>

\* The run is audited and its result returned.
Replies(j) ==
  /\ job[j].at = "ran"
  /\ job' = [job EXCEPT ![j] = NoJob]
  /\ UNCHANGED <<held, form, note, texts, agreed>>

-----------------------------------------------------------------------------
(* The surroundings *)

\* The owner, or another process, edits, restores or deletes the note.
NoteEdited ==
  /\ NoteBecomes
  /\ UNCHANGED <<job, held, form, agreed>>
NoteDeleted ==
  /\ note # 0 /\ note' = 0
  /\ UNCHANGED <<job, held, form, texts, agreed>>

\* The process ends: its calls, its nonces and the key of its tokens are gone.
Restart ==
  /\ job' = [j \in Threads |-> NoJob]
  /\ held' = {}
  /\ form' = [n \in Forms |-> Closed(form[n])]
  /\ agreed' = {}
  /\ UNCHANGED <<note, texts>>

Runs(j) == Start(j) \/ Check(j) \/ Write(j) \/ Command(j) \/ AllRan(j) \/ Replies(j)
Calls(j) ==
  /\ job[j].at = "free"
  /\ \E call \in {known \in Call : known.base <= texts} :
       \/ Read(j, call) \/ \E way \in Ways : Plan(j, way, call)
       \/ Confirm(j, call) \/ \E n \in Forms : Retry(j, n, call)
Human ==
  \/ \E n \in Forms, yes \in BOOLEAN : FormAnswered(n, yes)
  \/ \E j \in Threads : Answers(j)

Next == (\E j \in Threads : Calls(j) \/ Runs(j)) \/ Human \/ NoteEdited \/ NoteDeleted \/ Restart
Spec == Init /\ [][Next]_vars

-----------------------------------------------------------------------------
(* Correctness *)

\* The type invariant; nonces are unique and the pending ones limited.
TypeOK ==
  /\ job \in [Threads -> Job] /\ held \subseteq Plans
  /\ form \in [Forms -> Form] /\ Cardinality(Pending) <= Limit
  /\ {note, texts} \subseteq Text /\ agreed \subseteq Call

\* "change and destructive tools, and kb_note, never run on the first call": whatever
\* runs and is not a read tool, this process has planned with exactly these arguments,
\* and either a human said yes to them, or a runbook approves the tool, or the
\* plan went to the model and came back as its token: never a form that was refused, is
\* of another call or is from before a restart (service.py, call).
Running(j) == job[j].at \in {"run", "write", "ran"}
RunsAsPlanned ==
  \A j \in Threads : Running(j) /\ ~IsRead(job[j].call) =>
    \/ job[j].by = "human" /\ job[j].call \in agreed
    \/ job[j].by = "runbook" /\ job[j].call.tool \in Approve
    \/ job[j].by = "token" /\ PlanOf(j) \in held

\* An answer to a form runs its call at most once, though clients repeat requests in
\* parallel and forms expire or are pushed out (mcp_server.py, PendingApprovals).
OncePerAnswer == \A n \in Forms : form[n].runs <= 1

\* A note that is there is only written over when it is still the text the approved
\* diff was made against, when the write checks it; or, when the diff was made while the
\* note was away, when the text the call names has come back (kb.py, note).
OverwritesAsShown ==
  \A j \in Threads : job[j].at = "write" /\ job[j].read # 0 =>
    job[j].read = IF job[j].shown # 0 THEN job[j].shown ELSE job[j].call.base

\* A tool that reports success (no error in call's result) has run each of its commands,
\* and each ended well, whatever failed, was killed or was skipped on the way.
SuccessIsWhole ==
  \A j \in Threads : job[j].at = "ran" /\ job[j].call.tool # KbNote /\ Succeeded(job[j].codes) =>
    job[j].well = 1..Commands
=============================================================================
