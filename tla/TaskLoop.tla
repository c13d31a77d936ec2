------------------------------ MODULE TaskLoop ------------------------------
(***************************************************************************)
(* The autopilot loop: runner.py over the tasks and steps tables of        *)
(* store.py, with the owner's commands of app.py.                          *)
(*                                                                         *)
(* The main thread dispatches steps to worker threads, collects their      *)
(* outcomes, records them and wakes steps that wait on a ticket.  Most of  *)
(* what it does is two database writes, first the step and then the task,  *)
(* each committed on its own: here the first is an action that leaves the  *)
(* rest in `main`, and Continue is the second.  Between the two the owner  *)
(* may run a command in another process, or the loop may be killed.        *)
(*                                                                         *)
(* A step is named by its position in the plan: steps are inserted behind  *)
(* the one that runs only, so a step that has asked for anything keeps its *)
(* place.  The approval queue is one atomic request here (its statements   *)
(* are the subject of ApprovalQueue), and its tickets and the game's are   *)
(* one table told apart by their gate.  What is left out: the order of     *)
(* candidates by value, leases and caps (a step may find no backend at any *)
(* dispatch), and dry runs.  Settings are the defaults where they matter:  *)
(* the policy asks for code and push, and a task's repository stays        *)
(* configured.                                                             *)
(*                                                                         *)
(* One process runs the loop: nothing in runner.py keeps `autopilot run`   *)
(* from being started beside the service, and then recover() of the second *)
(* takes the steps of the first for its own.  The owner runs one cancel of *)
(* a task at a time.  Two short windows are closed: app.retry's read of    *)
(* the steps and its write are one action here, and so are a candidate's   *)
(* row and its dispatch, between which prepare may probe backends.         *)
(***************************************************************************)
EXTENDS Naturals, Sequences, FiniteSets, SequencesExt, PlanRules

CONSTANTS
  Tasks,
  NoTask,
  RepoTasks,    \* the tasks that have a repository
  Answers,      \* what the planning model may answer: sequences of kinds
  PlanSteps,    \* local_steps_per_task
  MaxAttempts,  \* max_attempts
  MaxParallel,  \* max_parallel
  ReviewRounds, \* review_rounds
  CodeScope,    \* code_scope: "task" or "step"
  OwnerMay,     \* which of "retry", "cancel", "pause", "stop" the owner does
  MaxRetries,   \* bound: retries of the owner
  MaxStarts,    \* bound: starts of the loop after a stop or a crash
  MayCrash,     \* BOOLEAN: the loop is killed now and then
  MaxLen,       \* bound: steps of a task
  MaxTickets    \* bound: tickets filed

ASSUME LoopAssumption ==
  /\ RepoTasks \subseteq Tasks /\ NoTask \notin Tasks
  /\ Answers \subseteq Seq({"local", "code", "game_action"})
  /\ PlanSteps \in Nat /\ PlanSteps > Len(PRTail)
  /\ {MaxAttempts, MaxParallel} \subseteq Nat \ {0}
  /\ {ReviewRounds, MaxRetries, MaxStarts, MaxLen, MaxTickets} \subseteq Nat
  /\ CodeScope \in {"task", "step"} /\ MayCrash \in BOOLEAN
  /\ OwnerMay \subseteq {"retry", "cancel", "pause", "stop"}

VARIABLES
  task,      \* task[t]: its row
  steps,     \* steps[t]: its plan, in order
  tickets,   \* the approvals table and the game's tickets, in order of filing
  jobs,      \* jobs[t]: the worker that runs a step of t
  main,      \* what the main thread has still to write
  flags,     \* the owner's flag the loop has found in its tick: "stop", else "paused"
  alive,     \* the loop's process runs
  cancel,    \* cancel[t]: what a cancel of t has still to write, a step each and 0 for the task's row
  starts, retries,  \* bounded counters
  tested     \* observed: the worktree of t has passed its tests since it was last edited

vars == <<task, steps, tickets, jobs, main, flags, alive, cancel, starts, retries, tested>>
loopVars == <<task, steps, tickets, main, flags, alive, cancel, starts, retries>>

-----------------------------------------------------------------------------
States == {"absent", "queued", "ready", "waiting", "review", "needs_owner", "done", "cancelled"}
TaskRow == [state : States, attempts : 0..MaxAttempts, due : BOOLEAN]

\* "part" is a code step that a local coder gets and does not split again;
\* round counts a review's rounds.  ticket is 0 or a place in tickets.
Kinds == {"local", "code", "part", "test", "pr", "review", "ci", "game_action"}
StepStates == {"pending", "running", "done", "failed", "waiting", "skipped"}
Step == [kind : Kinds, state : StepStates, ticket : 0..MaxTickets, round : 0..(ReviewRounds + 1)]
New(kind) == [kind |-> kind, state |-> "pending", ticket |-> 0, round |-> IF kind = "review" THEN 1 ELSE 0]
News(kinds) == [i \in DOMAIN kinds |-> New(kinds[i])]

\* step is 0 for "one approval per task".  Two fields are observed: stale, the
\* worktree was edited after the request to push it; heard, the loop got the
\* answer that says it was filed.
Ticket == [gate : {"code", "push", "game"}, task : Tasks, step : 0..MaxLen,
           state : {"pending", "approved", "denied"}, stale : BOOLEAN, heard : BOOLEAN]

\* A worker: "plan" and "planned" around set_plan, "run" before a step's gate,
\* "cleared" past it, "end" with the outcome the main thread has to collect.
Statuses == {"none", "done", "split", "skip", "owner", "park", "defer", "wait", "fail", "supersede"}
Outcome == [status : Statuses, ticket : 0..MaxTickets]
Job == [at : {"none", "plan", "planned", "run", "cleared", "end"}, step : 0..MaxLen, out : Outcome]
NoOut == [status |-> "none", ticket |-> 0]
NoJob == [at |-> "none", step |-> 0, out |-> NoOut]

\* The main thread between two writes: at says which is next, seen is the task's
\* row as it read it before the first.
Absent == [state |-> "absent", attempts |-> 0, due |-> FALSE]
MainPoint == (Statuses \ {"none"}) \cup {"free", "polled", "opened", "refused", "replan", "resume"}
Main == [at : MainPoint, task : Tasks \cup {NoTask}, step : 0..MaxLen, ticket : 0..MaxTickets, seen : TaskRow]
Free == [at |-> "free", task |-> NoTask, step |-> 0, ticket |-> 0, seen |-> Absent]

Active(t) == jobs[t].at # "none"
Idle == alive /\ main.at = "free"
Kind(t) == steps[t][jobs[t].step].kind

\* Task.next_step: the first step that is neither done nor skipped.
Unfinished(t) == {i \in DOMAIN steps[t] : steps[t][i].state \in {"pending", "running", "waiting", "failed"}}
IsNext(t, i) == i \in Unfinished(t) /\ \A j \in Unfinished(t) : i <= j

SetStep(t, i, s) == steps' = [steps EXCEPT ![t][i].state = s]
SetTask(t, s) == task' = [task EXCEPT ![t].state = s]

\* append_steps: right after step i, the rest shifts.
Inserted(t, i, new) == SubSeq(steps[t], 1, i) \o new \o SubSeq(steps[t], i + 1, Len(steps[t]))
InsertAfter(t, i, new) == Len(steps[t]) + Len(new) <= MaxLen /\ steps' = [steps EXCEPT ![t] = Inserted(t, i, new)]

\* set_plan: the finished steps are kept, the rest of the plan is replaced.
Kept(t) == Pick(steps[t], {i \in DOMAIN steps[t] : steps[t][i].state \in {"done", "skipped"}})
SetPlan(t, kinds) ==
  Len(Kept(t)) + Len(kinds) <= MaxLen /\ steps' = [steps EXCEPT ![t] = Kept(t) \o News(kinds)]

-----------------------------------------------------------------------------
(* Dispatching, in the main thread *)

CandidateWaiting(t) ==
  /\ Idle /\ flags = {}
  /\ task[t].state \in {"queued", "ready", "review", "waiting"} /\ task[t].due
  /\ ~Active(t) /\ Cardinality({u \in Tasks : Active(u)}) < MaxParallel
\* store.candidates, and a worker that is free.
Candidate(t) ==
  /\ Idle /\ flags = {}
  /\ task[t].state \in {"queued", "ready", "review"} /\ task[t].due
  /\ ~Active(t) /\ Cardinality({u \in Tasks : Active(u)}) < MaxParallel

DispatchPlan(t) ==
  /\ Candidate(t) /\ task[t].state = "queued"
  /\ jobs' = [jobs EXCEPT ![t] = [NoJob EXCEPT !.at = "plan"]]
  /\ UNCHANGED <<loopVars, tested>>

\* prepare finds nothing left to do.
FinishNow(t) ==
  /\ Candidate(t) /\ task[t].state # "queued" /\ Unfinished(t) = {}
  /\ SetTask(t, "done")
  /\ UNCHANGED <<steps, tickets, jobs, main, flags, alive, cancel, starts, retries, tested>>

\* No coder, reviewer or memory is free: prepare defers the step itself.
DeferNow(t, i) ==
  /\ Candidate(t) /\ task[t].state # "queued" /\ IsNext(t, i)
  /\ steps[t][i].kind \in {"code", "part", "test", "review"}
  /\ SetStep(t, i, "pending")
  /\ main' = [at |-> "defer", task |-> t, step |-> i, ticket |-> 0, seen |-> task[t]]
  /\ UNCHANGED <<task, tickets, jobs, flags, alive, cancel, starts, retries, tested>>

DispatchStep(t, i) ==
  /\ Candidate(t) /\ task[t].state # "queued" /\ IsNext(t, i)
  /\ SetStep(t, i, "running")
  /\ jobs' = [jobs EXCEPT ![t] = [NoJob EXCEPT !.at = "run", !.step = i]]
  /\ UNCHANGED <<task, tickets, main, flags, alive, cancel, starts, retries, tested>>

-----------------------------------------------------------------------------
(* Worker threads *)

\* plan: set_plan, then the task's row.
MakePlan(t) ==
  /\ jobs[t].at = "plan"
  /\ \E a \in Answers : SetPlan(t, PlanFor(a, t \in RepoTasks, PlanSteps))
  /\ jobs' = [jobs EXCEPT ![t].at = "planned"]
  /\ UNCHANGED <<task, tickets, main, flags, alive, cancel, starts, retries, tested>>

Planned(t) ==
  /\ jobs[t].at = "planned"
  /\ SetTask(t, "ready")
  /\ jobs' = [jobs EXCEPT ![t].at = "end"]
  /\ UNCHANGED <<steps, tickets, main, flags, alive, cancel, starts, retries, tested>>

\* An exception leaves the task as it was: queued, and due at once.
PlanRaises(t) ==
  /\ jobs[t].at = "plan"
  /\ jobs' = [jobs EXCEPT ![t].at = "end"]
  /\ UNCHANGED <<loopVars, tested>>

Ends(t, status, k) == jobs' = [jobs EXCEPT ![t].at = "end", ![t].out = [status |-> status, ticket |-> k]]

\* What a step of each kind may come back with when it changes nothing itself.
\* Any step may raise, which execute or reap turns into a failure.
Returns(kind) ==
  CASE kind = "local"       -> {"done", "defer", "fail"}
    [] kind = "game_action" -> {"defer", "fail"}
    [] kind \in {"code", "part"} -> {"fail"}
    [] kind = "test"        -> {"owner", "fail"}
    [] kind = "pr"          -> {"owner", "fail"}
    [] kind = "review"      -> {"done", "skip", "defer", "fail"}
    [] kind = "ci"          -> {"done", "wait", "owner", "fail"}

Return(t, status) ==
  /\ jobs[t].at = "run" /\ status \in Returns(Kind(t))
  /\ Ends(t, status, 0)
  /\ UNCHANGED <<loopVars, tested>>

\* step_game_action files a ticket with the game; an allow session or a rule of
\* the game's may settle it on the spot.  The answer may not come back, in time or
\* with the ticket's id: the step has failed, and the ticket is in the game.
Filing(gate, t, i, s, heard) ==
  [gate |-> gate, task |-> t, step |-> i, state |-> s, stale |-> FALSE, heard |-> heard]
FileAction(t, s, heard) ==
  /\ jobs[t].at = "run" /\ Kind(t) = "game_action" /\ Len(tickets) < MaxTickets
  /\ tickets' = Append(tickets, Filing("game", t, jobs[t].step, s, heard))
  /\ IF heard
     THEN Ends(t, CASE s = "pending" -> "park" [] s = "approved" -> "done" [] s = "denied" -> "fail", Len(tickets) + 1)
     ELSE Ends(t, "fail", 0)
  /\ UNCHANGED <<task, steps, main, flags, alive, cancel, starts, retries, tested>>

\* The last test step before the running pr step that was not skipped passed.
LastTestPassed(t) ==
  LET run == {i \in 1..(jobs[t].step - 1) : steps[t][i].kind = "test" /\ steps[t][i].state # "skipped"} IN
  \E i \in run : steps[t][i].state = "done" /\ \A j \in run : j <= i

\* The gate of the running step and the scope it asks under.
Gate(t) == CASE Kind(t) \in {"code", "part"} -> "code" [] Kind(t) = "pr" -> "push" [] OTHER -> "none"
ScopeTask(t) == 0
Scope(t) == IF Gate(t) = "code" /\ CodeScope = "task" THEN 0 ELSE jobs[t].step
Asked(t) == {k \in DOMAIN tickets : /\ tickets[k].gate = Gate(t) /\ tickets[k].task = t /\ tickets[k].step = Scope(t)
                                    /\ tickets[k].state # "denied"}
AtGate(t) == jobs[t].at = "run" /\ Gate(t) # "none" /\ (Kind(t) = "pr" => LastTestPassed(t))

\* A request that waits, or a yes that covers this step, is used again.
GateAgain(t) ==
  /\ AtGate(t)
  /\ \E k \in Asked(t) :
       /\ \A j \in Asked(t) : j <= k
       /\ IF tickets[k].state = "approved" THEN jobs' = [jobs EXCEPT ![t].at = "cleared"] ELSE Ends(t, "park", k)
  /\ UNCHANGED <<loopVars, tested>>

\* A new request; an open allow session lets the step pass at once, and so early
\* a no is the owner's.
GateNew(t, s) ==
  /\ AtGate(t) /\ Asked(t) = {} /\ Len(tickets) < MaxTickets
  /\ tickets' = Append(tickets, Filing(Gate(t), t, Scope(t), s, TRUE))
  /\ CASE s = "approved" -> jobs' = [jobs EXCEPT ![t].at = "cleared"]
       [] s = "pending"  -> Ends(t, "park", Len(tickets) + 1)
       [] s = "denied"   -> Ends(t, "owner", 0)
  /\ UNCHANGED <<task, steps, main, flags, alive, cancel, starts, retries, tested>>

\* Two parts of a split code step, each followed by the tests.
Parts == News(<<"part", "test", "part", "test">>)

\* A coding session.  Whatever it comes to, what it left in the worktree is kept
\* and committed.  A local coder may get the step in parts instead, also after a
\* cloud session that stopped at a usage limit.
CodeSession(t, status) ==
  /\ jobs[t].at = "cleared" /\ Gate(t) = "code"
  /\ \/ status \in {"done", "fail", "defer"}
     \/ status = "split" /\ Kind(t) = "code" /\ Len(steps[t]) + Len(Parts) <= MaxLen
  /\ tested' = [tested EXCEPT ![t] = FALSE]
  /\ tickets' = [k \in DOMAIN tickets |->
       IF tickets[k].gate = "push" /\ tickets[k].task = t THEN [tickets[k] EXCEPT !.stale = TRUE] ELSE tickets[k]]
  /\ Ends(t, status, 0)
  /\ UNCHANGED <<task, steps, main, flags, alive, cancel, starts, retries>>

Push(t, status) ==
  /\ jobs[t].at = "cleared" /\ Gate(t) = "push" /\ status \in {"done", "fail"}
  /\ Ends(t, status, 0)
  /\ UNCHANGED <<loopVars, tested>>

TestsPass(t) ==
  /\ jobs[t].at = "run" /\ Kind(t) = "test"
  /\ tested' = [tested EXCEPT ![t] = TRUE]
  /\ Ends(t, "done", 0)
  /\ UNCHANGED loopVars

FixPlanUntested(t) ==
  CASE Kind(t) = "test" -> News(<<"code", "test">>)
    [] Kind(t) = "ci"   -> News(<<"code", "pr", "ci">>)
    [] Kind(t) = "review" -> News(<<"code", "test", "pr", "review">>)
\* A step that calls for more work puts it right behind itself and then ends.
FixPlan(t) ==
  CASE Kind(t) = "test" -> News(<<"code", "test">>)
    [] Kind(t) = "ci"   -> News(<<"code", "test", "pr", "ci">>)
    [] Kind(t) = "review" -> [i \in 1..4 |-> IF i = 4 THEN [New("review") EXCEPT !.round = steps[t][jobs[t].step].round + 1]
                                             ELSE New((<<"code", "test", "pr">>)[i])]
AskForWork(t) ==
  /\ jobs[t].at = "run" /\ Kind(t) \in {"test", "ci", "review"}
  /\ Kind(t) = "review" => steps[t][jobs[t].step].round <= ReviewRounds
  /\ InsertAfter(t, jobs[t].step, FixPlan(t))
  /\ Ends(t, IF Kind(t) = "review" THEN "done" ELSE "supersede", 0)
  /\ UNCHANGED <<task, tickets, main, flags, alive, cancel, starts, retries, tested>>

-----------------------------------------------------------------------------
(* Collecting outcomes, in the main thread *)

\* The step's state that apply writes first.
FirstWrite(status) ==
  CASE status = "done" -> "done"
    [] status \in {"split", "skip", "supersede"} -> "skipped"
    [] status \in {"owner", "defer", "wait"} -> "pending"
    [] status = "park" -> "waiting"
    [] status = "fail" -> "failed"

ReapStepsOnly(t) ==
  /\ Idle /\ jobs[t].at = "end" /\ jobs[t].step # 0
  /\ jobs' = [jobs EXCEPT ![t] = NoJob]
  /\ LET i == jobs[t].step
         out == jobs[t].out IN
     /\ steps' = [steps EXCEPT ![t][i].state = FirstWrite(out.status),
                               ![t][i].ticket = IF out.status = "park" THEN out.ticket ELSE @]
     /\ main' = [at |-> out.status, task |-> t, step |-> i, ticket |-> 0, seen |-> task[t]]
  /\ UNCHANGED <<task, tickets, flags, alive, cancel, starts, retries, tested>>
\* reap and the first write of apply.  A planning job has nothing to apply.
Reap(t) ==
  /\ Idle /\ jobs[t].at = "end"
  /\ jobs' = [jobs EXCEPT ![t] = NoJob]
  /\ IF jobs[t].step = 0 THEN UNCHANGED <<steps, main>>
     ELSE LET i == jobs[t].step
              out == jobs[t].out IN
          /\ steps' = [steps EXCEPT ![t][i].state = FirstWrite(out.status),
                                    ![t][i].ticket = IF out.status = "park" THEN out.ticket ELSE @]
          /\ main' = [at |-> out.status, task |-> t, step |-> i, ticket |-> 0, seen |-> task[t]]
  /\ UNCHANGED <<task, tickets, flags, alive, cancel, starts, retries, tested>>

LeftBeforeReview(t) == \E i \in Unfinished(t) : steps[t][i].kind \notin {"review", "ci"}
\* apply's second write for an outcome that leaves the plan as it is.
Left(t) == Unfinished(t) # {}
FailedRowNoLimit(t, row) == [row EXCEPT !.attempts = main.seen.attempts + 1, !.due = FALSE]
FailedRowOneMore(t, row) ==
  LET n == main.seen.attempts + 1 IN
  IF n > MaxAttempts THEN [row EXCEPT !.state = "needs_owner", !.attempts = n]
  ELSE [row EXCEPT !.attempts = n, !.due = FALSE]
FailedRow(t, row) ==
  LET n == main.seen.attempts + 1 IN
  IF n >= MaxAttempts THEN [row EXCEPT !.state = "needs_owner", !.attempts = n]
  ELSE [row EXCEPT !.attempts = n, !.due = FALSE]
SecondWrite(t, row) ==
  CASE main.at = "done" /\ Left(t)  -> [row EXCEPT !.state = "ready", !.due = @ \/ row.state \in {"ready", "review"}]
    [] main.at \in {"done", "skip"} /\ ~Left(t) -> [row EXCEPT !.state = "done"]
    [] main.at = "skip" /\ Left(t)  -> row
    [] main.at = "owner"            -> [row EXCEPT !.state = "needs_owner"]
    [] main.at = "park"             -> [row EXCEPT !.state = "waiting"]
    [] main.at = "wait"             -> [row EXCEPT !.state = "review", !.due = FALSE]
    [] main.at = "defer"            -> [row EXCEPT !.state = IF main.seen.state = "queued" THEN "queued" ELSE "ready",
                                                   !.due = FALSE]
    [] main.at \in {"fail", "supersede"} -> FailedRow(t, row)
    [] main.at = "opened"           -> [row EXCEPT !.state = "ready", !.due = TRUE]
    [] main.at = "refused"          -> [row EXCEPT !.state = "needs_owner"]

WriteTask ==
  /\ alive /\ main.at \in Statuses \cup {"opened", "refused"} /\ main.at # "split"
  /\ task' = [task EXCEPT ![main.task] = SecondWrite(main.task, @)]
  /\ main' = Free
  /\ UNCHANGED <<steps, tickets, jobs, flags, alive, cancel, starts, retries, tested>>

\* append_steps for the parts of a step that was skipped in their favour.
WriteParts ==
  /\ alive /\ main.at = "split"
  /\ InsertAfter(main.task, main.step, Parts)
  /\ main' = Free
  /\ UNCHANGED <<task, tickets, jobs, flags, alive, cancel, starts, retries, tested>>

-----------------------------------------------------------------------------
(* poll_tickets and poll_gate, in the main thread *)

PollSeesGates(t, i) ==
  /\ Idle /\ "stop" \notin flags /\ steps[t][i].state = "waiting" /\ steps[t][i].ticket # 0
  /\ tickets[steps[t][i].ticket].state # "pending" /\ tickets[steps[t][i].ticket].gate # "game"
  /\ main' = [at |-> "polled", task |-> t, step |-> i, ticket |-> steps[t][i].ticket, seen |-> Absent]
  /\ UNCHANGED <<task, steps, tickets, jobs, flags, alive, cancel, starts, retries, tested>>
\* waiting_steps: a step with its ticket, read before anything is written.
PollSees(t, i) ==
  /\ Idle /\ "stop" \notin flags /\ steps[t][i].state = "waiting" /\ steps[t][i].ticket # 0
  /\ tickets[steps[t][i].ticket].state # "pending"
  /\ main' = [at |-> "polled", task |-> t, step |-> i, ticket |-> steps[t][i].ticket, seen |-> Absent]
  /\ UNCHANGED <<task, steps, tickets, jobs, flags, alive, cancel, starts, retries, tested>>

\* The answer and the step's write.  An approved gate lets its step run; an
\* approved game action has run.
PollGate ==
  /\ alive /\ main.at = "polled" /\ tickets[main.ticket].gate # "game"
  /\ LET yes == tickets[main.ticket].state = "approved" IN
     /\ steps' = [steps EXCEPT ![main.task][main.step].state = IF yes THEN "pending" ELSE "skipped",
                               ![main.task][main.step].ticket = 0]
     /\ main' = [main EXCEPT !.at = IF yes THEN "opened" ELSE "refused", !.seen = task[main.task]]
  /\ UNCHANGED <<task, tickets, jobs, flags, alive, cancel, starts, retries, tested>>

PollGame ==
  /\ alive /\ main.at = "polled" /\ tickets[main.ticket].gate = "game"
  /\ LET yes == tickets[main.ticket].state = "approved" IN
     /\ SetStep(main.task, main.step, IF yes THEN "done" ELSE "skipped")
     /\ main' = [main EXCEPT !.at = IF yes THEN "resume" ELSE "replan", !.seen = task[main.task]]
  /\ UNCHANGED <<task, tickets, jobs, flags, alive, cancel, starts, retries, tested>>

\* replan_after_denial asks the model, which takes its time.
Replan ==
  /\ alive /\ main.at = "replan"
  /\ \E a \in Answers : \E plan \in ReplansFor(a, main.task \in RepoTasks, PlanSteps) : SetPlan(main.task, plan)
  /\ main' = [main EXCEPT !.at = "resume"]
  /\ UNCHANGED <<task, tickets, jobs, flags, alive, cancel, starts, retries, tested>>

BlockedByAnyTicket(t) == \E i \in DOMAIN steps[t] : steps[t][i].ticket # 0
Blocked(t) == \E i \in DOMAIN steps[t] : steps[t][i].state = "waiting" /\ steps[t][i].ticket # 0
Resume ==
  /\ alive /\ main.at = "resume"
  /\ IF ~Blocked(main.task) /\ main.seen.state = "waiting" THEN SetTask(main.task, "ready") ELSE UNCHANGED task
  /\ main' = Free
  /\ UNCHANGED <<steps, tickets, jobs, flags, alive, cancel, starts, retries, tested>>

-----------------------------------------------------------------------------
(* The owner, the game's player and the clock *)

AddTask(t) ==
  /\ task[t].state = "absent"
  /\ task' = [task EXCEPT ![t] = [state |-> "queued", attempts |-> 0, due |-> TRUE]]
  /\ UNCHANGED <<steps, tickets, jobs, main, flags, alive, cancel, starts, retries, tested>>

Answer(k, v) ==
  /\ tickets[k].state = "pending"
  /\ tickets' = [tickets EXCEPT ![k].state = v]
  /\ UNCHANGED <<task, steps, jobs, main, flags, alive, cancel, starts, retries, tested>>

\* app.retry, whatever the task's state.
Retry(t) ==
  /\ "retry" \in OwnerMay /\ retries < MaxRetries /\ task[t].state # "absent"
  /\ task' = [task EXCEPT ![t] = [state |-> IF steps[t] = <<>> THEN "queued" ELSE "ready", attempts |-> 0, due |-> TRUE]]
  /\ retries' = retries + 1
  /\ UNCHANGED <<steps, tickets, jobs, main, flags, alive, cancel, starts, tested>>

\* app.cancel reads which steps wait.  It skips each of them, in whatever state it
\* is by then, and writes the task's row last.  (A task that is cancelled is not
\* cancelled again.)
ToSkip(t) == cancel[t] \ {0}
CancelReads(t) ==
  /\ "cancel" \in OwnerMay /\ cancel[t] = {} /\ task[t].state \notin {"absent", "cancelled"}
  /\ cancel' = [cancel EXCEPT ![t] = {0} \cup {i \in DOMAIN steps[t] : steps[t][i].state = "waiting"}]
  /\ UNCHANGED <<task, steps, tickets, jobs, main, flags, alive, starts, retries, tested>>
CancelSkips(t, i) ==
  /\ i \in ToSkip(t)
  /\ SetStep(t, i, "skipped")
  /\ cancel' = [cancel EXCEPT ![t] = @ \ {i}]
  /\ UNCHANGED <<task, tickets, jobs, main, flags, alive, starts, retries, tested>>
CancelTask(t) ==
  /\ cancel[t] = {0}
  /\ SetTask(t, "cancelled")
  /\ cancel' = [cancel EXCEPT ![t] = {}]
  /\ UNCHANGED <<steps, tickets, jobs, main, flags, alive, starts, retries, tested>>

\* The owner sets the flags at any time; the loop knows of one when its tick reads it, and
\* a new process reads them anew.  A stop that no start may follow is left out.
SetFlags(f) ==
  /\ flags' = f
  /\ UNCHANGED <<task, steps, tickets, jobs, main, alive, cancel, starts, retries, tested>>
Pause == "pause" \in OwnerMay /\ Idle /\ flags = {} /\ SetFlags({"paused"})
Unpause == Idle /\ "paused" \in flags /\ SetFlags({})
Stop == "stop" \in OwnerMay /\ Idle /\ "stop" \notin flags /\ starts < MaxStarts /\ SetFlags({"stop"})

\* next_at is reached.
TimePasses(t) ==
  /\ task[t].state # "absent" /\ ~task[t].due
  /\ task' = [task EXCEPT ![t].due = TRUE]
  /\ UNCHANGED <<steps, tickets, jobs, main, flags, alive, cancel, starts, retries, tested>>

-----------------------------------------------------------------------------
(* The process *)

\* run_forever after "stop": nothing is polled or dispatched any more, the workers
\* are waited for and their outcomes recorded, then the process ends.
Halt ==
  /\ Idle /\ "stop" \in flags /\ starts < MaxStarts /\ \A t \in Tasks : ~Active(t)
  /\ alive' = FALSE /\ flags' = {}
  /\ UNCHANGED <<task, steps, tickets, jobs, main, cancel, starts, retries, tested>>

\* Killed: what is not in the database is lost.
Crash ==
  /\ MayCrash /\ alive /\ starts < MaxStarts
  /\ alive' = FALSE
  /\ jobs' = [t \in Tasks |-> NoJob]
  /\ main' = Free /\ flags' = {}
  /\ UNCHANGED <<task, steps, tickets, cancel, starts, retries, tested>>

StartAsItWas ==
  /\ ~alive
  /\ alive' = TRUE /\ starts' = starts + 1
  /\ UNCHANGED <<task, steps, tickets, jobs, main, flags, cancel, retries, tested>>
\* run_forever: the stop flag is cleared and recover() runs.
Start ==
  /\ ~alive
  /\ alive' = TRUE /\ starts' = starts + 1
  /\ steps' = [t \in Tasks |-> [i \in DOMAIN steps[t] |->
                 IF steps[t][i].state = "running" THEN [steps[t][i] EXCEPT !.state = "pending"] ELSE steps[t][i]]]
  /\ UNCHANGED <<task, tickets, jobs, main, flags, cancel, retries, tested>>

-----------------------------------------------------------------------------
Init ==
  /\ task = [t \in Tasks |-> Absent]
  /\ steps = [t \in Tasks |-> <<>>]
  /\ tickets = <<>>
  /\ jobs = [t \in Tasks |-> NoJob]
  /\ main = Free
  /\ flags = {}
  /\ alive = TRUE
  /\ cancel = [t \in Tasks |-> {}]
  /\ starts = 0 /\ retries = 0
  /\ tested = [t \in Tasks |-> TRUE]

Dispatch(t) == DispatchPlan(t) \/ FinishNow(t) \/ \E i \in DOMAIN steps[t] : DeferNow(t, i) \/ DispatchStep(t, i)

Poll(t) == \E i \in DOMAIN steps[t] : PollSees(t, i)

Work(t) ==
  \/ MakePlan(t) \/ PlanRaises(t) \/ Planned(t) \/ GateAgain(t) \/ TestsPass(t) \/ AskForWork(t)
  \/ \E status \in Statuses : Return(t, status) \/ CodeSession(t, status) \/ Push(t, status)
  \/ \E s \in {"pending", "approved", "denied"} : GateNew(t, s) \/ \E heard \in BOOLEAN : FileAction(t, s, heard)

Continue == WriteTask \/ WriteParts \/ PollGate \/ PollGame \/ Replan \/ Resume

Owner ==
  \/ \E t \in Tasks : AddTask(t) \/ Retry(t) \/ CancelReads(t) \/ CancelTask(t) \/ \E i \in ToSkip(t) : CancelSkips(t, i)
  \/ \E k \in DOMAIN tickets, v \in {"approved", "denied"} : Answer(k, v)
  \/ Pause \/ Unpause \/ Stop

Next ==
  \/ \E t \in Tasks : Dispatch(t) \/ Work(t) \/ Reap(t) \/ Poll(t) \/ TimePasses(t)
  \/ Continue \/ Owner \/ Halt \/ Crash \/ Start

Spec == Init /\ [][Next]_vars

\* A tick polls every waiting step and collects every finished job, so neither
\* is passed over for ever; a session ends (it has a time limit).  Nothing is
\* assumed of the owner or of dispatching.
Fairness ==
  /\ WF_vars(Continue)
  /\ \A t \in Tasks : WF_vars(Work(t)) /\ SF_vars(Reap(t)) /\ SF_vars(Poll(t))

FairSpec == Spec /\ Fairness

-----------------------------------------------------------------------------
TypeOK ==
  /\ task \in [Tasks -> TaskRow]
  /\ steps \in [Tasks -> Seq(Step)] /\ \A t \in Tasks : Len(steps[t]) <= MaxLen
  /\ tickets \in Seq(Ticket) /\ Len(tickets) <= MaxTickets
  /\ jobs \in [Tasks -> Job]
  /\ main \in Main
  /\ flags \subseteq {"paused", "stop"} /\ alive \in BOOLEAN /\ cancel \in [Tasks -> SUBSET (0..MaxLen)]
  /\ starts \in 0..MaxStarts /\ retries \in 0..MaxRetries
  /\ tested \in [Tasks -> BOOLEAN]

\* A step is marked running while its worker has it and no longer, so recover() is
\* right to put every running step of a new process back, and no step runs twice.
\* The step of a worker is another than running only when a cancel came late, and
\* then it is skipped.
RunningHasWorker ==
  alive => \A t \in Tasks : \A i \in DOMAIN steps[t] :
    LET has == jobs[t].step = i /\ Active(t) IN
    /\ steps[t][i].state = "running" => has
    /\ has => steps[t][i].state = "running" \/ ("cancel" \in OwnerMay /\ steps[t][i].state = "skipped")

\* "Never push [...] without an approval and a passing test step": what is pushed
\* has passed the repository's tests since it was last edited.
TestedPush == \A t \in Tasks : jobs[t].at = "cleared" /\ Gate(t) = "push" => tested[t]

\* The owner approved pushing this branch as it is now: no session edited the
\* worktree after the request was filed.
PushedAsApproved ==
  \A t \in Tasks : jobs[t].at = "cleared" /\ Gate(t) = "push" =>
    \E k \in Asked(t) : tickets[k].state = "approved" /\ ~tickets[k].stale

\* A task that failed max_attempts times stays with the owner: no outcome that
\* comes in late, no answer and no restart runs it again without a retry.
GivesUp == \A t \in Tasks : Active(t) => task[t].attempts < MaxAttempts

\* A task the owner cancelled stays cancelled until the owner retries it.
CancelledStays == [][\A t \in Tasks : task[t].state = "cancelled" /\ retries' = retries => task'[t].state = "cancelled"]_vars

\* A task is done only when nothing in its plan is left.
DoneIsFinished == \A t \in Tasks : task[t].state = "done" => Unfinished(t) = {}

\* "a step is parked on a ticket": a waiting task has a waiting step with a
\* ticket of its own, or the main thread is about to move it on.
WaitingCanWake ==
  \A t \in Tasks : task[t].state = "waiting" =>
    \/ \E i \in DOMAIN steps[t] : /\ steps[t][i].state = "waiting" /\ steps[t][i].ticket # 0
                                  /\ tickets[steps[t][i].ticket].task = t
                                  /\ tickets[steps[t][i].ticket].step \in {0, i}
    \/ main.task = t

\* Once the loop has heard that a game action was filed, the player is not asked
\* for it again, unless the answer was no.
ActionOnce ==
  \A j, k \in DOMAIN tickets :
    /\ tickets[j].gate = "game" /\ tickets[k].gate = "game" /\ j < k
    /\ tickets[j].task = tickets[k].task /\ tickets[j].step = tickets[k].step
    /\ tickets[j].heard
    => tickets[j].state = "denied"

\* An answer reaches the task that waits for it.
AnswerReachesTask ==
  \A t \in Tasks :
    (task[t].state = "waiting" /\ \E i \in DOMAIN steps[t] :
       /\ steps[t][i].state = "waiting" /\ steps[t][i].ticket # 0
       /\ tickets[steps[t][i].ticket].state # "pending")
    ~> task[t].state # "waiting"

\* A worker's outcome is recorded, whatever else the loop does.
OutcomeRecorded == \A t \in Tasks : Active(t) ~> ~Active(t)
=============================================================================
