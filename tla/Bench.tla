-------------------------------- MODULE Bench --------------------------------
(***************************************************************************)
(* almanac bench (cmd_bench in cli.py, bench.py): a run of the suite, its  *)
(* result in the store, and the submission to the leaderboard with the     *)
(* token of a player who signed in with a device code.                     *)
(*                                                                         *)
(* Commands run side by side on one state directory: a run, a submission   *)
(* of a stored run, a sign-out.  Any of them may be killed, and any        *)
(* request may fail before or after the server has seen it.                *)
(*                                                                         *)
(* Time is what is left of a device code, in units of SLOW_DOWN (5 s).     *)
(* Left out: timings, what the machine is, and the means over the tasks.   *)
(***************************************************************************)
EXTENDS BenchScore

CONSTANTS
  Procs, Suite,      \* commands at a time; the tasks
  Values,            \* what tools return
  Fixture,           \* what they return in mock mode
  Bad, Replies,      \* the calls that are not valid; the calls of a model's reply
  Answers, MaxSteps, \* final answers; max_steps
  Intervals, Expires, \* what the sign-in server asks of a poll, and gives a code
  MaxRuns, MaxTokens \* runs and tokens in the model

ASSUME BenchAssumption ==
  /\ Fixture \in Values /\ <<>> \notin Replies /\ NoAnswer \in Answers
  /\ \A reply \in Replies : reply \in Seq(Range(reply))
  /\ Suite # <<>> /\ Suite \in Seq(Range(Suite))
  /\ \A task \in Range(Suite) :
       /\ task.expect \in Seq(Range(task.expect))
       /\ IsFiniteSet(task.texts) /\ IsFiniteSet(task.from)
  /\ {MaxSteps, MaxRuns, MaxTokens} \cup Intervals \cup Expires \subseteq Nat \ {0}

VARIABLES
  cmd,    \* cmd[p]: a command
  bench,  \* bench[p]: its Runner
  stored, \* the store: for every run whether it was submitted
  file,   \* leaderboard-token
  server  \* the tokens it accepts, how many it has issued, and the runs it has taken

vars == <<cmd, bench, stored, file, server>>

\* The file is empty, of token 0, until the command that made it has written the token.
NoFile == [by |-> "nobody", token |-> 0]

Idle == [at |-> "idle", id |-> 0, token |-> 0, relinked |-> FALSE, links |-> 0, interval |-> 0, left |-> 0]
NoBench == [auto |-> FALSE, live |-> FALSE, prompted |-> FALSE, task |-> 0, step |-> 0, calls |-> <<>>,
            ran |-> <<>>, answer |-> NoAnswer, score |-> <<>>]

Init ==
  /\ cmd = [p \in Procs |-> Idle] /\ bench = [p \in Procs |-> NoBench]
  /\ stored = <<>> /\ file = NoFile
  /\ server = [accepts |-> {}, issued |-> 0, taken |-> {}]

Becomes(p, c) == cmd' = [cmd EXCEPT ![p] = c]
At(p, at) == Becomes(p, [cmd[p] EXCEPT !.at = at])
Runs(p, b) == bench' = [bench EXCEPT ![p] = b] /\ UNCHANGED <<stored, file, server>>
Submits == UNCHANGED <<bench, stored>>

-----------------------------------------------------------------------------
(* Runner *)

\* The suite starts when the warm-up request was answered.
Begins(p) ==
  /\ cmd[p].at = "idle" /\ Len(stored) + Cardinality({q \in Procs : bench[q].task > 0}) < MaxRuns
  /\ \E auto, live, prompted \in BOOLEAN :
       /\ ~(auto /\ prompted)
       /\ Runs(p, [NoBench EXCEPT !.auto = auto, !.live = live, !.prompted = prompted, !.task = 1])
  /\ At(p, "asking")

Task(p) == Suite[bench[p].task]

\* The task is over: with an answer, without one, or because the backend failed.
Scored(p, b, failure) ==
  /\ Runs(p, [b EXCEPT !.score = ScoreTask(Task(p), b.live, b.calls, b.answer, failure)])
  /\ At(p, "scored")

\* check_call and the executor: what becomes of a call.
Executed(b, task, c) ==
  [call : {c}, valid : {c \notin Bad /\ Tool(c) \in task.tools},
   value : IF b.live THEN Values ELSE {Fixture}]

\* The model calls tools: the valid ones are run; the last step's calls end the task.
\* A prompted reply is one call.
Calls(p, reply) ==
  /\ cmd[p].at = "asking" /\ (bench[p].prompted => Len(reply) = 1)
  /\ \E calls \in [DOMAIN reply -> UNION {Executed(bench[p], Task(p), c) : c \in Range(reply)}] :
       /\ \A i \in DOMAIN reply : calls[i] \in Executed(bench[p], Task(p), reply[i])
       /\ LET b == [bench[p] EXCEPT !.calls = @ \o calls, !.ran = @ \o ValidCalls(calls), !.step = @ + 1]
          IN IF b.step = MaxSteps THEN Scored(p, b, "none") ELSE Runs(p, b) /\ UNCHANGED cmd

Answered(p, answer) ==
  /\ cmd[p].at = "asking"
  /\ Scored(p, [bench[p] EXCEPT !.answer = answer], "none")

\* The backend rejects `tools`: the run goes on with prompted calls and the task begins again.
Falls(p) ==
  /\ Runs(p, [bench[p] EXCEPT !.prompted = TRUE, !.step = 0, !.calls = <<>>])
  /\ UNCHANGED cmd
\* Mutant: at any step.
RejectedAnywhere(p) ==
  /\ cmd[p].at = "asking" /\ ~bench[p].prompted /\ Task(p).tools # {}
  /\ IF bench[p].auto THEN Falls(p) ELSE Scored(p, bench[p], "http")
Rejected(p) ==
  /\ cmd[p].at = "asking" /\ ~bench[p].prompted /\ Task(p).tools # {}
  /\ IF bench[p].auto /\ bench[p].step = 0 THEN Falls(p) ELSE Scored(p, bench[p], "http")

BackendFails(p) ==
  /\ cmd[p].at = "asking"
  /\ \E failure \in {"timeout", "http"} : Scored(p, bench[p], failure)

NextTask(p) ==
  /\ cmd[p].at = "scored" /\ bench[p].task < Len(Suite)
  /\ Runs(p, [bench[p] EXCEPT !.task = @ + 1, !.step = 0, !.calls = <<>>, !.ran = <<>>, !.answer = NoAnswer, !.score = <<>>])
  /\ At(p, "asking")

\* build_result and Store.add.
Stores(p) ==
  /\ cmd[p].at = "scored" /\ bench[p].task = Len(Suite)
  /\ stored' = Append(stored, FALSE) /\ bench' = [bench EXCEPT ![p] = NoBench]
  /\ Becomes(p, Idle)
  /\ UNCHANGED <<file, server>>

-----------------------------------------------------------------------------
(* Signing in: device_link *)

\* The code is shown; or the server does not give one.
AskCode(p) ==
  /\ cmd[p].at = "link"
  /\ \/ \E interval \in Intervals, expires \in Expires :
          Becomes(p, [cmd[p] EXCEPT !.at = "waiting", !.interval = interval, !.left = expires])
     \/ Becomes(p, Idle)
  /\ Submits /\ UNCHANGED <<file, server>>

\* Mutant: the deadline is counted from every poll.
SleepRenews(p) ==
  /\ cmd[p].at = "waiting"
  /\ IF cmd[p].interval >= cmd[p].left THEN Becomes(p, Idle) ELSE At(p, "poll")
  /\ Submits /\ UNCHANGED <<file, server>>
\* It sleeps if the code is good for longer than the interval; else it has expired.
Sleep(p) ==
  /\ cmd[p].at = "waiting"
  /\ IF cmd[p].interval >= cmd[p].left THEN Becomes(p, Idle)
     ELSE Becomes(p, [cmd[p] EXCEPT !.at = "poll", !.left = @ - cmd[p].interval])
  /\ Submits /\ UNCHANGED <<file, server>>

\* Pending, or the request failed; slow_down; or the sign-in was refused.
Poll(p) ==
  /\ cmd[p].at = "poll"
  /\ \/ At(p, "waiting")
     \/ Becomes(p, [cmd[p] EXCEPT !.at = "waiting", !.interval = @ + 1])
     \/ Becomes(p, Idle)
  /\ Submits /\ UNCHANGED <<file, server>>

Granted(p) ==
  /\ cmd[p].at = "poll" /\ server.issued < MaxTokens
  /\ LET token == server.issued + 1
     IN /\ server' = [server EXCEPT !.issued = token, !.accepts = @ \cup {token}]
        /\ Becomes(p, [cmd[p] EXCEPT !.at = "unlinks", !.token = token, !.links = @ + 1])
  /\ Submits /\ UNCHANGED file

\* write_link_token, a call to the system at a time; a file another command has just
\* made ends the command.
Unlinks(p) ==
  /\ cmd[p].at = "unlinks"
  /\ file' = NoFile /\ At(p, "creates")
  /\ Submits /\ UNCHANGED server
Creates(p) ==
  /\ cmd[p].at = "creates"
  /\ IF file = NoFile THEN file' = [by |-> p, token |-> 0] /\ At(p, "writes") ELSE Becomes(p, Idle) /\ UNCHANGED file
  /\ Submits /\ UNCHANGED server
\* What is written goes to the file that was made, which another command may have removed.
Writes(p) ==
  /\ cmd[p].at = "writes"
  /\ file' = IF file.by = p THEN [file EXCEPT !.token = cmd[p].token] ELSE file
  /\ At(p, "post")
  /\ Submits /\ UNCHANGED server

-----------------------------------------------------------------------------
(* Submitting: _bench_submit and submit_linked *)

SubmitStored(p, id) ==
  /\ cmd[p].at = "idle"
  /\ LET none == file.token = 0
     IN Becomes(p, [Idle EXCEPT !.at = IF none THEN "link" ELSE "post", !.id = id, !.token = file.token, !.relinked = none])
  /\ Submits /\ UNCHANGED <<file, server>>

Refused(p) == cmd[p].token \notin server.accepts

\* The leaderboard takes the result; its answer may be lost.
Taken(p) ==
  /\ cmd[p].at = "post" /\ ~Refused(p)
  /\ server' = [server EXCEPT !.taken = @ \cup {cmd[p].id}]
  /\ \/ At(p, "taken")
     \/ Becomes(p, Idle)
  /\ Submits /\ UNCHANGED file

\* It does not take it for another reason, or cannot be reached.
NotTaken(p) ==
  /\ cmd[p].at = "post"
  /\ Becomes(p, Idle)
  /\ Submits /\ UNCHANGED <<file, server>>

\* Mutant: a token it has just got is not told from one it had.
RefusedAgain(p) ==
  /\ cmd[p].at = "post" /\ Refused(p)
  /\ file' = NoFile /\ Becomes(p, [cmd[p] EXCEPT !.at = "link"])
  /\ Submits /\ UNCHANGED server
\* 401: the token is dropped, and the player signs in again, once.
TokenRefused(p) ==
  /\ cmd[p].at = "post" /\ Refused(p)
  /\ file' = NoFile
  /\ \/ ~cmd[p].relinked /\ Becomes(p, [cmd[p] EXCEPT !.at = "link", !.relinked = TRUE])
     \/ At(p, "refused")
  /\ Submits /\ UNCHANGED server

\* mark_submitted, and the end of the command.
Marks(p) ==
  /\ cmd[p].at = "taken"
  /\ stored' = [stored EXCEPT ![cmd[p].id] = TRUE] /\ Becomes(p, Idle)
  /\ UNCHANGED <<bench, file, server>>

Ends(p) ==
  /\ cmd[p].at = "refused"
  /\ Becomes(p, Idle)
  /\ Submits /\ UNCHANGED <<file, server>>

-----------------------------------------------------------------------------
(* Signing out, and what happens to commands and tokens *)

\* unlink: the token is revoked, if the server can be reached, and the file removed.
SignOut(p) ==
  /\ cmd[p].at = "idle" /\ file.token # 0
  /\ Becomes(p, [Idle EXCEPT !.at = "revokes", !.token = file.token])
  /\ Submits /\ UNCHANGED <<file, server>>
Revokes(p) ==
  /\ cmd[p].at = "revokes" /\ At(p, "removes")
  /\ \E reached \in BOOLEAN : server' = IF reached THEN [server EXCEPT !.accepts = @ \ {cmd[p].token}] ELSE server
  /\ Submits /\ UNCHANGED file
Removes(p) ==
  /\ cmd[p].at = "removes" /\ Becomes(p, Idle) /\ file' = NoFile
  /\ Submits /\ UNCHANGED server

\* Ctrl-C, or a kill.
Dies(p) ==
  /\ cmd[p].at # "idle" /\ Becomes(p, Idle)
  /\ bench' = [bench EXCEPT ![p] = NoBench]
  /\ UNCHANGED <<stored, file, server>>

TokenEnds(t) ==
  /\ server' = [server EXCEPT !.accepts = @ \ {t}]
  /\ UNCHANGED <<cmd, bench, stored, file>>

Runner(p) ==
  \/ Begins(p) \/ Rejected(p) \/ BackendFails(p) \/ NextTask(p) \/ Stores(p)
  \/ (\E reply \in Replies : Calls(p, reply)) \/ (\E answer \in Answers : Answered(p, answer))
DeviceLink(p) == AskCode(p) \/ Sleep(p) \/ Poll(p) \/ Granted(p)
SubmitLinked(p) ==
  \/ (\E id \in DOMAIN stored : SubmitStored(p, id))
  \/ Unlinks(p) \/ Creates(p) \/ Writes(p) \/ Taken(p) \/ NotTaken(p) \/ TokenRefused(p) \/ Marks(p) \/ Ends(p)

Next ==
  \/ \E p \in Procs : Runner(p) \/ DeviceLink(p) \/ SubmitLinked(p) \/ SignOut(p) \/ Revokes(p) \/ Removes(p) \/ Dies(p)
  \/ \E t \in server.accepts : TokenEnds(t)
Spec == Init /\ [][Next]_vars

\* A poll is answered or times out after 30 s, and the command sleeps between polls.
FairSpec == Spec /\ \A p \in Procs : WF_vars(DeviceLink(p))

-----------------------------------------------------------------------------
(* Correctness *)

\* The call whose result stands for a tool, as benchmark/README.md says: the first.
Shows(calls, t, answer) ==
  \E i \in DOMAIN calls : /\ Tool(calls[i].call) = t /\ calls[i].value \in answer
                         /\ \A j \in 1..(i - 1) : Tool(calls[j].call) # t

\* A result counts every call that was run, once, although the run may have gone from
\* native to prompted calls.  A task succeeds only if every expected call was met by a
\* call of its own, no call was invalid, and the answer passes every check.
ResultsEarned ==
  \A p \in Procs : cmd[p].at = "scored" =>
    LET b == bench[p]  expect == Task(p).expect
    IN /\ b.ran = ValidCalls(b.calls)
       /\ b.score.success =>
            /\ \E f \in Injection(DOMAIN expect, DOMAIN b.ran) : \A j \in DOMAIN expect : b.ran[f[j]].call \in expect[j]
            /\ b.ran = b.calls /\ (Task(p).forbid /\ expect = <<>> => b.calls = <<>>)
            /\ ~(b.live /\ Task(p).skip) =>
                 b.answer # NoAnswer /\ Task(p).texts \subseteq b.answer /\ \A t \in Task(p).from : Shows(b.ran, t, b.answer)

\* A command signs in once at most; a run is marked as submitted only if the leaderboard
\* took it; and a token it refused in the end is not left in the file.
SubmitsOnce ==
  /\ \A p \in Procs : cmd[p].links <= 1 /\ (cmd[p].at = "refused" => file.token # cmd[p].token)
  /\ \A id \in DOMAIN stored : stored[id] => id \in server.taken

\* Signing in comes to an end, however long the server says that it is pending.
LinkEnds == \A p \in Procs : cmd[p].at \in {"waiting", "poll"} ~> cmd[p].at \notin {"waiting", "poll"}
=============================================================================
