# Almanac in TLA+

Specifications of [Almanac](../src/README.md): a local-model companion with a
gateway, a knowledge base, an MCP server, an autonomous task runner
("autopilot") and a Dalamud plugin. Autopilot is modelled most closely, because
it is where several threads, several processes, a database and an owner meet, and
where a mistake pushes code nobody approved. Beside it are the model gateway with
its residency loop, the service that runs tools for a model, the local agent's
conversations, the plugin's chat, and the benchmark.

Contents: [the system](#the-system), [the plan](#the-plan), [what is
modelled](#what-is-modelled), [the runs](#the-runs), [bounds](#bounds),
[fairness](#fairness), [what is proved](#what-is-proved), [findings](#findings),
[what is not modelled](#what-is-not-modelled).

To check: `tlc -workers 2 -config MCTaskLoop.cfg MCTaskLoop.tla`, the other `.cfg`
files in the same way (each takes half a minute to four minutes on two cores); to prove: `tlapm
TaskLoopProofs.tla` (the longest, some minutes from nothing), and in the same way `ApprovalQueueProofs`, `LeasesProofs`, `ToolCallsProofs`,
`GatewayProofs`, `BenchProofs`, `ChatSessionProofs` and `ConversationProofs` (half a minute to a few minutes each).

## The system

Paths are under `src/almanac/` unless said otherwise.

**Autopilot** (`autopilot/`). One SQLite file in autocommit mode (`store.py`:
tasks, steps, approvals, usage, flags, events) is shared by

- the *loop's main thread* (`runner.py`: `tick`), which polls tickets, collects
  finished jobs (`reap`, `apply`) and dispatches the next step of each task;
- *worker threads*, one per task in flight: planning (`planner.py`), local
  queries, coding sessions (`coder.py`, `sandbox.py`), tests, push and draft
  pull request (`git.py`), review, CI, game actions (`game.py`);
- the *owner's commands* (`app.py` from `cli.py` or `mcp_tools.py`), processes of
  their own: add, retry, cancel, pause, stop, approve, deny, allow.

`approvals.py` is the queue in which a worker files a request and the owner
answers; `pool.py` leases local backends, `budget.py` keeps the daily caps.

| component | state | operations | hard | correct when |
|---|---|---|---|---|
| approval queue | `approvals` and `flags` rows | request, settle, answer_all, open_allow, poll_gate | statement interleavings of threads and processes, kills | one live request per scope; answers final; no action without consent; denials heard |
| store and loop | `tasks` and `steps` rows, `jobs` in memory | dispatch, execute, reap, apply, poll, stop, recover | two writes per change, kills, cancel and retry from outside, late outcomes | no step runs twice or is lost; a waiting task can be woken; gives up; done means done |
| planning rules | none | normalize_plan, fallback, replan | rules against any model's answer | every code step is tested, every push too |
| pool and budget | leases, health, usage rows | acquire, release, abort, may_code, record | check before, charge after; two threads lease from lists made before the lock | capacity kept, no lease lost; overshoot of a cap bounded |
| coding sessions | a child process | start, limit, timeout, kill, abort | a second session in the same job | a session leaves a GPU a game wants, and ends at the kill switch |
| residency, guard, autoselect | what is loaded, pins, reservations | tick, pin, release, choose | what others load and unload between a look and a call; pins known in memory only | pinned while a game runs, let go after |
| gateway | requests in flight | proxy, reservation, watch | async interleavings, streams that never start | counts return to zero; a reservation is honoured |
| MCP server and service | nonces, key of the tokens, calls in threads | call, plan, confirm, retry, execute | five ways of approving, replay, expiry, parallel calls | what runs was planned with these arguments, a form runs once, a note changes as shown |
| knowledge base | notes (files) | note, search | the note changes after the plan | no approved diff overwrites another text |
| chat agent, threads | message lists, thread files | turn, trim_history, save | turns that end anywhere, cuts, two processes on one thread | what is sent is a whole conversation that fits |
| benchmark | store, token file, run | run, score, device_link, submit, unlink | a fallback in the middle of a run; two commands on one token file | scores are earned; signing in ends; runs are marked when taken |
| plugin chat: `ChatSession`, `AgentLoop`, the threads of `AlmanacStore`, `ChatWindow` (`dalamud/src`) | threads in SQLite, the turn's history, one token source | send, agent's events, stop, open, branch, delete, dispose | UI thread against thread pool, stops and kills between two stored messages | a thread holds what happened, results have their calls, a stop reaches the turn |
| plugin `DeviceLink`, `BenchRunner`, setup, other windows; config, release tools | files, UI | - | I/O, twins of the benchmark above | - |

Components interact through the database (loop, workers, commands), through
flags (stop, pause, allow sessions), through outcomes handed from worker to main
thread (futures), and through HTTP to backends, to the game and to GitHub. The
gateway, the residency loop and Ollama meet in what is loaded; the MCP server, the
agent and the command line in `Almanac.call`; the bench's commands in the token
file.

`PROJECT.json` lists the hazards one by one with the line where each bites and
the property that watches it, or why there is none yet.

## The plan

1. `Consent`, `ApprovalQueue` with proofs: the promise that matters most is that
   nothing is edited or pushed without the owner. Done.
2. `PlanRules`, `TaskLoop`: the life of a task. Done.
3. `Leases`: pool, budget and sessions. Done.
4. `ModelServer`, `Residency`, `Gateway`: residency loop, requests in flight and
   reservations over one model server. Done.
5. `ToolCalls`: the service's calls with their approvals, and the write of a note. Done.
6. `Conversation`: the agent's turns and the threads. Done.
7. `BenchScore`, `Bench`: scoring as operators, the runner, the device link. Done.
8. Proofs about `Leases`, `ToolCalls` and `Gateway`: the counters against who holds what, and what
   an approval lets run, for any size. Done.
9. `ChatSession`: the plugin's chat and agent loop. Done.
10. Proofs about `TaskLoop`, `Conversation`, `ChatSession` and `Bench`, and what was left of
    `ApprovalQueue`: every invariant of every passing run. Done.
11. Next: what two calls of `SendAsync` at once leave true of a thread, and what `IInv` of `TaskLoop` says
    after a kill between two writes, as theorems without the hypotheses below.
12. After that: `McpHttpClient`'s session with XivMcp (initialise once, start over after a 404) under
    the plugin's chat and benchmark.

`Gateway` EXTENDS `Residency`, which EXTENDS `ModelServer`; `Bench` EXTENDS `BenchScore`;
`TaskLoop` EXTENDS `PlanRules`; `ApprovalQueue` implements `Consent`; `MCChats` EXTENDS
both chats, which share nothing.

## What is modelled

**`Consent`** is the abstract specification: a book of requests (`File`, `Answer`)
and who acts under which key (`Grant`, `Withdraw`). A request is filed only when
no live one exists for its key, answered once, and only an approved key grants.

**`ApprovalQueue`** has one action per SQL statement of `request`
(`Reuse`/`AskNew` is the look-up, then `Insert`, `Stamp`, `Reread`, `ReadAll`, `ReadKind`,
`SettleOwn`, `Fetch`), of the owner's commands (`AnswerOne`, `AnswerAll`,
`OpenAllow`, then `ListPending`, `SettleNext`, `CheckNext`), and of the loop
(`Park`, `PollGate`). `rows` is the approvals table, `open` the allow sessions'
flags, `ask[w]` the program counter of a worker's request and of the step behind
it, `cmd[o]` that of a command. The store's lock is `LockFree`: it excludes the
threads of the loop's process from each other between the two statements of
`add_approval`, and nobody else. `CrashLoop` and `KillCommand` may come between any
two statements. `Retake` is the owner's retry or cancel of a parked step: the loop may then ask
for its key again although the request was never read. `killed`, `told` and `retaken` only observe. The step's write in `poll_gate`
and the write of the task behind it are one action here; `TaskLoop` tells them
apart.

**`PlanRules`** translates `normalize_plan`, `fallback_plan` and
`replan_after_denial` over the kinds of steps. The tool of an action is left out, so a
plan after a denial loses any of its game actions (`ReplansFor`).

**`TaskLoop`** is the loop. `task[t]` and `steps[t]` are the rows of a task, `jobs[t]`
its worker, `main` what the main thread has still to write. Nearly every handler
of the main thread writes the step, then the task, each committed on its own:
`Reap`, `PollGate`, `PollGame` and `DeferNow` are the first write, `WriteTask`,
`WriteParts` and `Resume` the second, and between them a command of the owner runs or
the loop is killed. `main.seen` is the task as the handler had read it before,
which is what the code's `attempts` and `state` are computed from. Workers go
through the gate (`GateAgain`, `GateNew`), a session or a push; any step may fail,
and test, review and CI steps may insert steps behind themselves (`AskForWork`).
`Start` is the new process with `recover()`. The approval queue appears as one
atomic request, which is what `ImplementsConsent` allows: `ApprovalQueue` shows
its statements behave like `Consent`'s single steps.

| code | definition |
|---|---|
| `Store.candidates`, `dispatch`, `prepare` | `Candidate`, `DispatchPlan`, `DispatchStep`, `DeferNow`, `FinishNow` |
| `Autopilot.plan`, an exception in it | `MakePlan`, `Planned`, `PlanRaises` |
| `step_code`, `run_cloud`, `run_local` | `GateAgain`, `GateNew`, `CodeSession` |
| `step_pr` | `LastTestPassed`, `GateAgain`, `GateNew`, `Push` |
| `step_test`, `step_review`, `step_ci` | `TestsPass`, `AskForWork`, `Return` |
| `step_game_action` | `FileAction` |
| `reap`, `apply` | `Reap` (first write), `WriteTask`, `WriteParts` (second) |
| `poll_gate`, `poll_tickets` | `PollSees`, `PollGate`, `PollGame`, `Replan`, `Resume` |
| `app.retry`, `cancel`, `pause`, `stop` | `Retry`, `CancelReads`, `CancelSkips`, `CancelTask`, `Pause`, `Unpause`, `Stop` |
| `run_forever`, `recover`, a kill | `Start`, `Halt`, `Crash` |

`cancel` is three actions, for it runs in another process: it reads which steps wait, writes
"skipped" over each of them whatever its state is by then, and the task's row last; `cancel[t]` is what
it has still to write. A step that was answered and dispatched in between is skipped under its
worker. `FileAction` files a game's ticket, or files it and its answer is lost (a timeout, or no id
in it: `upstream.py:146`, `game.py:140-144`, `211`), which `runner.py:411` records as a failure.

Three observers are never read by an action's guard: `tested` (the
worktree passed its tests since it was last edited), `stale` of a ticket (the
worktree was edited after the request was filed) and `heard` of a ticket (the loop got the
answer to its filing). A session counts as an edit
even when it changed nothing.

Assumed or left out: one process runs the loop (`almanac autopilot run` beside the service would be a
second one, which `recover()` of the first does not reckon with); one `cancel` of a task at a time; `retry` is one
write (`app.py:249-250` reads the steps first); a task that is cancelled or paused between the list of candidates and
its dispatch (`runner.py:346-349`) is dispatched by a tick that comes before.

**`Leases`** is what a job takes and gives back. `main` is the main thread inside
`prepare`, `job[t]` a worker inside `step_code` (`run_cloud`, `run_local`) or
`step_review`. `acquire` is two actions, for its list of healthy backends is made with
probes that take seconds and may be 30 seconds old, and the slot is taken from it
under the lock: `PrepareLocal` and `MainTakes` in the main thread, `FallbackLists` and
`FallbackTakes` in a worker whose cloud session hit a usage limit. `busy`, `inflight`, `runs` and
`localRuns` are the counters of the code; `job[t].lease` and `.second` say who holds
what, and `SlotsHeld` compares the two.

| code | definition |
|---|---|
| `Pool.healthy`, `acquire`, `release` | `Listed`, `FreeOnes`, `Taken`, `Released` |
| `prepare` | `PrepareCloud`, `PrepareLocal`, `PrepareReview`, `MainTakes`, `MainFindsNone` |
| `step_code`, `run_cloud`, `run_local` | `Cleared`, `StartSession`, `Record`, `BlockCloud`, `FallbackLists`, `FallbackTakes`, `NoFallback`, `GiveBack` |
| `SubprocessRunner`, `abort_reason` | `SessionExits`, `SessionTimesOut`, `SessionKilled`, `SessionAborted` |
| `Budget.may_code`, `may_code_local`, `record` | `CloudOK`, the guards on `localRuns`, `Record` |
| `reap` | `Reap` |

**`ModelServer`** is Ollama as the gateway uses it (external), with the guard and the
choice of `autoselect.py` as operators: `Fits`, `Choice` among the models `Installed`, with `Fallback` when the card
cannot be read, `MayLoad`. `Seen` is what `/api/ps` says is loaded: nothing, when the read fails
(`gateway.py:134-143`). `ka[m]` is a model's
keep_alive. **`Residency`** is a tick of the residency loop, one action per call to the
server; `res.ours` is `_pinned_by_us`. **`Gateway`** adds the requests (`Ask` to `Background`:
every await of `proxy` is a point between two actions), reservations with `step_down`, the
memory watch and the surroundings; an unload that fails is passed over (`gateway.py:131`). One PUT of a
reservation is handled at a time. The observer value "left" of `ka` marks a pin whose maker is
gone or never heard that it was made; the server treats it like "pinned". The observer `late` is the
set of too big models that may be loaded beside a reservation for a cause other than a choice made since
it was put. Residency of one fixed model (`_resolve` is None) follows nothing and is not modelled.

**`ToolCalls`** is `Almanac.call` and its front ends. `job[j]` is a call in a thread, `held` the plans
this process has returned with a token, `form[n]` a form sent with a nonce. The token is an HMAC of the tool
and its arguments (`service.py:175-177`): nothing is kept of it, it may be sent again while the process
lives, and whether a human has seen the plan in between is not known to the service. `Confirm` asks no more
than that. A call reaches "approved"
through `Answers` (a form or prompt it waits for), `Confirm` (a token), `Retry` (a form brought
back with its nonce) or a runbook's `Asks`; then `Start` makes the plan once more, and
`Check`/`Write` (a note) or `Command`/`AllRan` (a declared tool) run it. `codes` are the exit codes
from which `Succeeded` (`RunResult.ok`) is computed. Observers: `job[j].by` (what the call goes by), `job[j].well` (the
commands that were run and ended well) and `agreed` (the calls a human said yes to). The autopilot's own tools
(`mcp_tools.py`) pass the same gate; what they do then are the owner's commands of `TaskLoop` and `ApprovalQueue`.

**`Conversation`**: `proc[p]` is a process of `almanac chat`, `almanac ask` or `ai chat`, `file[t]` a
thread's file. A turn is `Line`, then `Said` or `Calls` with its `Result`s, then `Saves`; it may
end at any of them (`TurnFails`, `SaveFails`, `Leaves`). `TrimHistory` is the loop of `trim_history`, a
`Round` for each turn from the newest, with what it has kept and used so far; `DropOldest` is the cut of `ai chat`.

**`BenchScore`** translates `score_task` over abstract calls and answers; **`Bench`** is the runner with
its fallback to prompted calls (`Rejected`, `Falls`), the sign-in (`AskCode`, `Sleep`, `Poll`,
`Granted`), the token file one system call at a time (`Unlinks`, `Creates`, `Writes`), submission
and sign-out, by two commands that may be killed. `bench[p].ran`, the calls whose tool was
really run in this attempt at a task, is an observer.

**`ChatSession`**: `turn[s]` is a call of `SendAsync` on the thread pool, statement by statement up to the
agent (`Enter`, `Begins`, `TakesSource` to `Starts`) and in `finally` (`Frees`, `DisposesSource`, `Clears`); `busy`, `running` and `open`
are the session's fields, which no lock guards. While the agent runs, an action is what happens
between two awaits: `CallsTools` and `CallEnds` add to the history and run the events, of which
`Persist` is the store's side. The buttons of `ChatWindow` are actions of the UI thread; `Delete` is
two, for a turn may begin between `DeleteThread` and `New`.

## The runs

`approval_queue` (956,808 states): two workers, one at a code gate and one at a
push gate, and a command of the owner, with allow sessions and kills everywhere.

- `OneLiveRequest`: a scope has at most one request pending or approved.
- `RequestsAreFiled`: concurrent requests do not fail on each other's placeholder ticket.
- `Consented`: who acts has an approved request, the newest of its key.
- `SessionForgetsNothing`: flag-then-list against insert-then-read leaves no request
  in an open session's scope pending without somebody on the way to answer it.
- `DenialReachesTask`: nothing new is asked for a key while its denial was not heard, as long as
  the loop is not killed and the owner has not taken the step off the request himself: a retry
  or cancel of a parked step (`app.py:248-261`) may come between his denial and the loop's poll.
- `AnswersFinal`, `ConsentSpec`: the first answer stands; every behaviour is one of `Consent`.

`task_loop` (2.5 million states): one task with a repository, planned as code or as a
game action and a local query; retry, cancel, pause, stop, one kill or restart.

- `RunningHasWorker`: a step is marked running only while a worker has it, which
  is what makes `recover()` right, and a worker's step is running or was skipped by a late cancel.
- `TestedPush`, `PushedAsApproved`: what is pushed passed its tests and was approved as
  it is, through fix steps, splits, retries and restarts.
- `GivesUp`: a task that failed `max_attempts` times is not run again without a retry.
- `DoneIsFinished`: done means nothing in the plan is left.

`task_loop_wake` (63,768 states): two tasks at once, one code approval per step,
nobody killed, no command but answers.

- `WaitingCanWake`: a waiting task has a waiting step whose ticket is its own.
- `ActionOnce`: once the loop has heard of a game action's ticket it files no other while that one may
  run. A filing whose answer was lost is filed again, in the code and here (see [findings](#findings)).
- `AnswerReachesTask`, `OutcomeRecorded` (liveness): an answered task stops waiting; a
  worker's end is collected.

`leases` (86,848 states): two tasks, a coder backend and a reviewer, caps of one run a day.

- `SlotsHeld`, `CloudHeld`: the counters are the leases and cloud slots out, within
  capacity, through fallbacks, aborts and early returns in two threads.
- `WithinCaps`: the daily caps are exceeded by less than what may run at once.
- `GameGetsBackend`, `KillStops` (liveness): a game gets its GPU from coding sessions, the
  second one of a job too; the kill switch ends every session and what led to one.

`gateway` (175,456 states): a large model and one that fits beside the game, one client, one
game with a reservation.

- `InflightExact`, `StreamsEnd`: a request counts once, and not for ever.
- `PinFollowsGame` (liveness): a model is pinned while a game runs and memory lasts, and let
  go after it, through switches, failed calls, lost answers and restarts of gateway and server.
- `ReservationHonoured`: when the handler of a reservation is done, no model that does not fit beside it is
  loaded, nor loaded by what is chosen from then on. Excepted are a last resort, a model on its way out, and
  those in `late`: chosen before the reservation, by a request or the residency loop; brought back by an unpinning whose POST
  crosses the unload; or left by a failed unload, a failed `/api/ps` or a restart in the middle. After each of
  these nothing but another PUT steps down again; the API does not require the holder to send one, and the
  property does not assume it.

`tool_calls` (2.9 million states): every front end, two calls at a time, a note, a tool that
changes something and one that reads.

- `RunsAsPlanned`: what runs and is not a read tool was planned by this process with these very arguments, and
  a human said yes to them, or the runbook approves the tool, or the token of that plan came back. A form that was refused, is of
  another call, was pushed out or is from before a restart runs nothing. It does not say that a human approved
  what runs by a token: that is up to the model that shows the plan.
- `OncePerAnswer`: an answered form runs its call at most once, with repeated requests,
  expiry and nonces that are pushed out.
- `OverwritesAsShown`: a note is overwritten only when it was, at the write's check, the text
  the approved diff was made against, or, when there was no note then, the text the call names.
- `SuccessIsWhole`: a result without an error means that every command ran and ended well (`well`), whatever was
  killed at the deadline, skipped or not found.

`chats` (724,489 states): either the command line's chat, two processes on one thread and replies with
two calls, or the plugin's, one message at a time, two threads, both ways of tool calling, with stops,
branches, disposal and kills everywhere. The two share neither state nor code, and one question is
asked of both: is what they keep and send whole, whatever ended a turn, and does a turn end.
In `Conversation`:

- `SentWhole`: what is sent, and every file, begins with the user and pairs calls and results.
- `FitsContext`: of a thread's earlier turns the newest that fit are sent, whole but for results that are
  cut: one in any case, and never fewer than would fit.
- `TurnEnds` (liveness): `max_steps` ends a turn, whatever the model calls.

In `ChatSession`:

- `StoredAsItHappens`: while a tool runs the thread holds all of the turn, while the model is asked
  all but its last message, once and in order.
- `ResultsHaveCalls`: a native result is never sent or stored without the call it answers.
- `StopEnds` (liveness): a Stop that finds a turn's token source ends the turn, at whatever statement it is, also
  before the agent has started, although neither model nor tool answers.

`bench` (697,155 states): two commands, a task that expects two calls and one that forbids any.

- `ResultsEarned`: a score counts the calls that ran, once, across a fallback; success means
  that expected calls were met by calls of their own (an injection, against the greedy
  matching of the code) and the answer passes every check.
- `SubmitsOnce`: one sign-in per command; marked means taken; a token refused in the end is gone.
- `LinkEnds` (liveness): polling ends.

`approval_denial`, `task_loop_stuck`, `task_loop_cancel` and `task_loop_untested` are the [findings](#findings).

`CHECK_DEADLOCK FALSE` stands in the configurations of `TaskLoop`: when all tasks are
done the loop idles, and after its last start it may stay stopped. All other runs
are checked for deadlock.

## Bounds

- `MaxRows = 2` requests per behaviour: a request and the one that follows it after a
  denial, or one of each worker. With two workers, two kinds and one command every
  pair of actors on the same row and every pair of rows occurs; the proofs lift the
  bound.
- `MaxAttempts = 2`: a failure that is retried and one that is not (the default is 3).
- `ReviewRounds = 1`, `PlanSteps = 12`: the defaults. `task_loop_untested` has
  `PlanSteps = 6`, so that two code steps are too many (with 12 it takes five).
- `MaxLen` (9, 5, 8): steps of a task. 9 holds a code plan (`code, test, pr, review,
  ci`) and the four steps of a review round, a CI fix or a split behind it, so a
  second edit and a second push occur; a guard stops what would not fit. In `task_loop_wake` it is 5, a whole code
  plan, so no fix steps are inserted there: they matter to no property of that run.
- `MaxTickets = 3`: the two requests of a code plan and one more, after a denial or
  for an inserted push; 2 in `task_loop_wake`, one for
  each task or two for one. `MaxRetries = 1`, `MaxStarts = 1`: one of each in a behaviour.
- `leases`: one slot, one cloud slot, `RunCap = LocalCap = 1`, `MaxParallel = 2`: two tasks are
  enough for two threads to want the last slot, and for a fallback to run into a cap that
  another job is using up. Crashes and new days are not bounded.
- `gateway`: one request at a time; a request in flight meets the residency loop, the watch
  and `step_down`, which is where models are unloaded. Two requests that race are not in this
  instance (that each counts for itself is proved for any number). The card (10) holds both models, or the game and the
  small one. An instance with three models, of which the middle one is the fallback, was checked for
  `ReservationHonoured` by hand; the theorem holds for any.
- `tool_calls`: `MaxForms = 2`, `Limit = 1` (a second nonce pushes the first out), `MaxNote = 2`
  texts, which may come back, two commands per tool. The threads are symmetric.
- `chats`, command line: `MaxTurns` 3 and 1 turns to add, replies with two calls whose results have sizes 1 and 2 and are cut
  to `OldTool = 1`, `Budget = 4`: two plain turns fit, one with tools is over the budget alone, and a plain one fits
  or does not by what is behind it.
- `bench`: `MaxRuns = 1` stored run that both commands may submit, `MaxTokens = 3`, `MaxSteps = 2`,
  codes that are good for 1 or 4 units of 5 seconds, intervals of 1 or 2.
- `chats`, plugin: `HistoryWindow = 2` of 40, so that a reply with two calls and two results is cut in
  every place; `MaxLen = 4`: a message may follow the rest of a turn that ended anywhere. One call of
  `SendAsync` at a time: what two in a race do is told under [findings](#findings). Mode "none" is left
  to the model: it is "native" without the fallback.
- Time is one bit of a task's row, `due`; `TimePasses` sets it at any moment.

## Fairness

In `task_loop_wake` and `task_loop_cancel`: `WF(Continue)`: the main
thread does not stop between two writes. `WF(Work(t))`: a worker goes on; sessions,
tests and model calls have time limits, and a request for a game ticket either
answers or raises. `SF(Reap(t))` and `SF(Poll(t))`: every tick goes through all
finished jobs and, at its interval, all waiting steps, so neither is passed over
for ever although other tasks keep the main thread busy in between; a game
server that never answers again is excluded. Nothing is assumed of the owner, of
the clock, or of dispatching, which orders tasks by value and may leave one behind.

In `leases`: a worker goes on unless its session runs or a reviewer thinks (`Moves`), the
main thread takes or gives up (`Picks`) and collects (`Reap`: every tick goes through all
jobs), and `SubprocessRunner` looks at kill switch and rule once a second (`Looks`). That
sessions end by themselves is not assumed: they may take hours.

In `gateway`: coroutines go on and streams end: the timeout of httpx is per read, so it ends a stream that
stalls, and the number of tokens one that does not. The residency loop polls. `SF` of a call to the server: not every call of the residency
loop fails. `<>[][~GatewayRestarts]`: the gateway is not restarted for ever. Nothing is assumed of
clients, games, memory or who holds a reservation.

In `chats`, command line: a backend answers or the request times out, tools have timeouts, and the user
answers the prompt for a tool's approval (`agent.py:75`), which waits for ever. In `bench`:
a poll is answered or times out after 30 s, and the command sleeps between polls; nothing is
assumed of the user.

In `chats`, plugin: the thread pool runs what is ready, and a wait whose token is cancelled ends
(`Proceeds`). That the model or a tool answers is not assumed, for the HTTP timeout covers the
headers only and a stream may stall.

## What is proved

`ApprovalQueueProofs`, for every set of workers, commands and keys, every number of
requests and any kills, from `KeysAssumption` (a key has one kind and one worker,
because it names its task and a task has one step in flight) and
`BoundsAssumption`.

The inductive invariant `IInv` is needed because none of the properties is
inductive alone. Its parts:

- `TypeOK`;
- `TicketsOK`: a row's ticket is its number or the placeholder, and at most one row
  has the placeholder (the UNIQUE column);
- `LiveIsNewest`: a pending or approved row is the last of its key;
- `WorkerOK`: the "none" of the look-up is still true when the INSERT runs, which
  holds because only this worker asks for the key; a worker holds the newest row
  of its key; past the gate that row is approved.

From it: `TypeCorrect`, `OneLive` (two live rows of one key would each be the newest),
`ConsentHeld`, `AnswersAreFinal` (`settle_approval` touches pending rows only),
`ImplementsConsent` (Insert maps to File, a settle to Answer, clearing a gate to
Grant, the end of a step or a kill to Withdraw, the rest stutters).
`NoRequestFails` adds `PlaceholderOwned`: while the loop was not killed, a row with
the placeholder is the one some worker is about to stamp, so a worker that finds
the lock free finds no placeholder.

`LeasesProofs`, for every finite set of tasks, any backends, slots, caps and parallelism,
from `LeasesAssumption`. `SlotsHeld` and `CloudHeld` compare a counter with the
cardinality of the set of its holders, so each action needs the lemma that the set
gains a task, loses one or stays. `WithinCaps` is not inductive alone: a run is charged
when its session starts, and it may only be started by a job that was counted in
`MaxParallel` when it was prepared. `MainHeld` says so for the one that is being
prepared (its task has no job yet, and there is room for it); with it `IInv == TypeOK /\
SlotsHeld /\ CloudHeld /\ WithinCaps /\ MainHeld` is inductive, and gives `Typing`,
`SlotsAreHeld`, `CloudIsHeld` and `CapsKept`.

`ToolCallsProofs`, for every set of tools, threads and texts and any bounds, from
`CallsAssumption`. The parts of its `IInv`: `JobsOK` (a call that may run and is not a
read tool goes by a human's yes, a runbook or a plan that is held; its exit codes are the commands that ended well; a call about to write over a note has read the text it names), `HeldOK` and `FormsOK` (a plan that waits for a token or a nonce was made
against the text its call names, and a form that is open has not run), `NoteOK`. That
the pending nonces stay within their limit is a fact about removing the least number
of a finite set, for which the least-number principle is proved first. It gives `Typing`,
`OnlyPlannedRuns`, `OneRunPerAnswer`, `NoteAsShown` and `WholeSuccess`.

`GatewayProofs`, for every finite set of clients, any models and sizes, from `GatewayAssumption`.
`InflightExact` is not inductive: `SendFails` and the first caller of `done` take one off the count,
which is right only if the request counted once. `Shape` says that the flag is set while the response
is open and never while the request is being sent; `IInv` is that and the count, and three lemmas
(`Same`, `Up`, `Down`) carry the count over a step that writes one request. It gives `CountIsExact`.
`ReservationsHonoured`, for any models, installed or not, and any fallback, rests on `HInv`: while a reservation is held, a too big
model that is chosen is a last resort or in `late`, and one that is loaded is that, on its way out, or still to be unloaded by
the handler. `ChosenFits` is the reason: whatever was read, what is chosen fits beside the reservation or is a last resort.

`TaskLoopProofs`, for any tasks, owner's answers, plans of the model, limits and kills. `IInv` is the
longest: `PlanOK` (the plan is worked off from the front: behind an unfinished step nothing was touched,
and a ticket belongs to its step), `RowOK` (what the task's state says of its steps), `JobOK` (what a
worker has is running, or skipped by a late cancel, and its result fits the kind of its step), `TicketOK` (a request belongs to a step
all steps before which are over; a stale approval is of a finished one), `MainOK` (between its two writes
the main thread's step has the state it wrote, and nobody else is at the task) and `PushOK`. It gives `TypeCorrect`,
`OneWorkerPerStep`, `ApprovedAsPushed`, `LastAttempt` and `NothingLeft` with no hypothesis. Three more
say under what they hold:

- `PushedIsTested` assumes `PlansFit`: no answer of the model makes a plan that is cut. That is exactly
  what `task_loop_untested` shows to be needed. `TestInv` says where the tests are: behind every code step and
  before every push that is still to come, unless the worktree has passed them. That a plan begins so is
  `CodeIsTested`, about the planning rules alone.
- `ActionsOnce` assumes that the loop is not killed and the owner never retries: the runner forgets the ticket
  of a step it takes up again (`runner.py:541`). `ActionInv`: a
  ticket that was heard of and may still run is held by its step, which waits, is over, or is about to be by
  its worker's outcome; so a step whose worker still runs has none.
- `WaitingWakes` assumes that the loop is not killed and the owner only pauses and stops: a kill
  between two writes (`task_loop_stuck`), a cancel or a retry leaves a waiting task on nothing.

The rules are written by places (`Pick`, `Place`, `WithTests`), without folds, so that a plan's step
can be traced to the step of the answer it came from; `RulesAsFolded` compares them with the folds.

`ApprovalQueueProofs` also has `DenialTold`: `DenialInv` says that every request that is not approved
is awaited by a worker until its denial was told or the owner took the step off it. And `NothingForgotten`: what a command listed is in
the table under that ticket, but for a last row whose ticket was not yet put in (`ListsOK`), so the
command or the worker that filed the row still comes across it.

`ConversationProofs`, for any processes, threads, replies, sizes and budgets, from `ConversationAssumption`.
`SentWhole` counts the results of each call; `TurnsInv` says place by place that behind a call its results
follow and that a result lies behind a call (`Whole`), with `left` results of the last call still to come while
tools run. It holds of what is kept between turns, so that a cut between two turns leaves it whole.
For `FitsContext` the loop of `TrimHistory` is followed round by round: what it has kept is a suffix of whole turns, what it has used
is its size, and once it breaks off no longer suffix fits. `Size` is the number of a conversation's units, so a part of one is never
larger. It gives `WholeTurns` and `ContextFits`.

`ChatSessionProofs`, for any threads, windows, lengths, stops, branches, deletes and kills. `ChatInv`: every
thread is `Paired`; a turn has the thread to itself (`Busied`); the thread ends in what the turn's history has
stored, at most the last message missing (`Known`); and results still come for the last call (`Owed`). `Stored`
and `CallsKept` assume `OneAtATime`: two calls past the check of `Busy` write into one thread, and both
properties are false then, which is the hazard listed at `ChatSession.cs:149`.

`BenchProofs`, for any commands on one state directory, any suite, replies and tools, from `BenchAssumption`.
`SubmittedOnce`: `SubmitInv` says that nobody but the command that got it knows a token before it is in the file, so
what a command refused is not what another is writing. `Earned`: `ScoreInv` says that what was run is what is valid of
the calls, that a task that may begin again has run nothing, and that a score is `ScoreTask` of what the run holds.
Then lemmas about the score's operators: `ValidJoins` (the valid calls of two replies), `AllValid`, `MatchedByOwn`
(as many matches as expected calls give each one its own), `PassedAll`, `FirstShows`. `ValidCalls` and
`Matched` are recursive functions whose equations are proved first (`KeptByStep`, `TakenByStep`);
`ScoresAsFolded` in `MCBench` compares them with the folds over sequences.

Only model-checked: the liveness properties (`AnswerReachesTask`, `OutcomeRecorded`, `GameGetsBackend`, `KillStops`,
`StreamsEnd`, `PinFollowsGame`, `TurnEnds`, `StopEnds`, `LinkEnds`), for fairness and
ENABLED are outside the prover's reach. What the violation runs refute is, of course, not proved.

## Findings

- **A denial asked again** (`approval_denial`, `NoDenialRetried`). Request filed; the loop
  is killed before it parks the step; the owner denies; the new process makes the
  step pending and the look-up by scope ignores denied rows, so it asks again.
  `approvals.py:24` promises that a denial is never retried automatically.
- **A task that waits for ever** (`task_loop_stuck`, `WaitingCanWake`). `poll_gate` makes the
  step pending, the loop is killed before the task is made ready: a waiting task
  without a waiting step is not polled, not dispatched and not recovered.
  `store.py:19` promises that a kill loses nothing.
- **A cancelled task that goes on** (`task_loop_cancel`, `CancelledStays`). A planning
  worker sets the task ready after it was cancelled; `apply` and `poll_gate` may too.
- **An untested push** (`task_loop_untested`, `TestedPush`). A plan over its maximum
  length loses the test of its last code step and `step_pr` is content with the
  one before. `GUIDE.md:682` promises a test behind every code step.

Read in the code while modelling, and not stated as a property:

- Plugin: with prompted tool calling results are stored as the user's messages (`AgentLoop.cs:132-133`),
  and `Window` stops at the first message of the user, so a history may begin with a result although
  `ChatSession.cs:261` says "never starting with a tool result".
- Plugin: a call's result is stored by the next event (`AgentLoop.cs:128`, `132`). If the next reply fails, is
  stopped or the game ends, the thread keeps the call without it, although `ChatSession.cs:23` promises
  to lose at most the reply being streamed.
- Plugin: `Busy` is tested and set without a lock, and given up before `running` is disposed
  (`ChatSession.cs:112`, `149-151`). Of two messages close together, one may run with a source that is no
  longer in the field, so that neither Stop nor `Dispose`, which "cancels an in-flight turn" (98), reaches it. The
  window is a few instructions wide.

- Plugin: `Busy` is true before there is a token source (`ChatSession.cs:114`, `116`): a Stop in between cancels
  nothing and is lost.

- A game action may be filed twice: a request whose answer times out or has no id is recorded as a
  failure although the game may have filed it, and the step's retry files a second ticket (`runner.py:411`, `541`);
  so do a kill before the step is parked and the owner's retry of a waiting one. Whether the game joins the two by the resume token is not in
  this repository.
- A reservation may stay beside a model that does not fit: one chosen before it, an unpinning that crosses the
  unload, or an unload or `/api/ps` that failed silently. Nothing but the next PUT looks again.
- `cancel` writes over steps it has read before (`app.py:256-259`), so a step that was just dispatched is marked
  skipped while its worker is at it.
- A review is not stopped when a game takes its GPU: `step_review` passes no `abort_reason`, and
  its request may take 600 s, while `pool.py:10-12` speaks of running jobs.
- `res.ours` is in memory: a pin made before the gateway restarted, or by a call whose answer was
  lost, stays after the game until a request or the next game.
- Two racing requests for `auto` that choose differently may load both models, although
  `gateway.py:251` says that a switch never needs both.
- Two approved writes of one note in two threads may both pass the check (`kb.py:270-275`)
  before either replaces the file, so the second overwrites the first, which
  `kb.py:262-264` excludes; a note deleted after the plan is written without a check, and one
  that was away when the diff was made and came back is overwritten by a diff that showed a new file.
- A stop between two calls of a reply leaves the second without a result in the plugin's thread, and it
  is sent like that with the next message; a tool's HTTP timeout ends the turn as "Stopped.".
- Two processes on one thread: the last save wins and the other's turn is lost.
- A second `bench --submit` may remove the token file the first has just written: its 401 is
  for the old token, the unlink for whatever is there (`bench.py:1136`, `1141`). Two sign-ins at
  once may meet in `O_EXCL`, and the second ends with an exception.

After a kill between the two statements of `add_approval`
the row with the empty ticket stays and every later request raises, until
somebody removes it; `RequestsAreFiled` has the exception this makes.

## What is not modelled

In `TaskLoop`: the order of candidates, dry runs, a repository that leaves the settings, an
approval row deleted by hand; leases, caps and the kill switch are in `Leases`, where a
deferred step is one that is dispatched again. In `ApprovalQueue`: the clock of allow sessions
(`CloseAllow` may happen at any time) and a policy that does not ask for a kind. In `Leases`: tokens
and cost, which are compared like runs, the preference among free backends, the free-memory
floor, and `PoolModel`'s short calls, which lease nothing. In `Gateway`: requests by a model's name
and the floor of free VRAM they observe, the read-only endpoints, the rewriting of Codex
bodies. In `ToolCalls`: what commands print, the HTTP front end's bearer check, the parsing of declarations. In `Bench`:
timings, VRAM samples and what the machine is.

Prompts, texts, logs, events, the status board and the digest change no control. Search,
frontmatter, settings, probing of local backends, user interface, setup, settings of the plugin and
release tooling keep no protocol worth a model. The plugin's device link, bench runner and scorer
are C# twins of what `Bench` and `BenchScore` model (both are held to
`benchmark/testdata/scoring-vectors.json`).

Smaller steps that are taken together, or left out: in `ChatSession`, each message of `Persist` is a transaction of its own
(`ChatSession.cs:196-197`), and `ForkThread` copies message by message (`AlmanacStore.cs:225-230`); a kill in between leaves a
prefix, of which both invariants hold, too. In `Leases` the kill switch is tested with each dispatch, in the code once a tick
(`runner.py:240`), so that the dispatches of one tick may follow it; the sessions they start end by it. In `Bench` the server answers 401 only for a token it does not accept, while
the code drops the file on any 401 (`bench.py:1140`).

In `ChatSession`, texts, ids of calls (unique in a reply, `ChatClient.cs:274`), a plugin loaded again while
the old session's turn still ends, and a second tool list are left out.
