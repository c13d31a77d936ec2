------------------------------- MODULE Leases -------------------------------
(***************************************************************************)
(* What autopilot's coding sessions and reviews take and give back: slots  *)
(* of the model pool (pool.py), the cloud slots and daily caps (runner.py, *)
(* budget.py), and the child process a session runs in (sandbox.py).       *)
(*                                                                         *)
(* The main thread picks a coder for a task and collects jobs that ended;  *)
(* each job runs in a worker thread.  Both threads lease backends: the     *)
(* list of healthy ones is computed first, with probes that take seconds,  *)
(* and the slot is taken from it under the pool's lock, so listing and     *)
(* taking are two actions.  A cloud session that hits a usage limit leases *)
(* a second time, in its worker, while it still holds its cloud slot.      *)
(*                                                                         *)
(* Left out: tokens and cost (two more counters compared like the runs),   *)
(* which of the free backends is preferred, and short model calls, which   *)
(* lease nothing.  A session dies with the loop: systemd stops the whole   *)
(* control group.                                                          *)
(***************************************************************************)
EXTENDS Naturals, FiniteSets

CONSTANTS
  Tasks, Backends, NoBackend,
  Slots,        \* Slots[b]: jobs b takes at once
  Coders, Reviewers, \* the backends with each role
  CloudSlots,   \* cloud_slots
  MaxParallel,  \* max_parallel
  RunCap,       \* coding_runs_per_day
  LocalCap,     \* local_runs_per_day
  MayCrash      \* BOOLEAN: the loop dies now and then

ASSUME LeasesAssumption ==
  /\ IsFiniteSet(Tasks) /\ Tasks # {} /\ NoBackend \notin Backends
  /\ Slots \in [Backends -> Nat \ {0}]
  /\ Coders \subseteq Backends /\ Reviewers \subseteq Backends
  /\ {CloudSlots, MaxParallel} \subseteq Nat \ {0}
  /\ {RunCap, LocalCap} \subseteq Nat
  /\ MayCrash \in BOOLEAN

VARIABLES
  job,       \* job[t]: the worker that runs a step of t
  main,      \* the main thread inside prepare
  busy,      \* busy[b]: slots the pool believes are taken
  inflight,  \* cloud_inflight
  game,      \* game[b]: a rule forbids b, as its GPU's owner plays
  blocked,   \* cloud_blocked_until lies ahead
  runs, localRuns,  \* today's rows of the usage table
  kill       \* the kill switch file exists

vars == <<job, main, busy, inflight, game, blocked, runs, localRuns, kill>>

-----------------------------------------------------------------------------
\* A job: "start" before the gate; "ready" with a local backend about to be used;
\* "session" while the child process runs and "stopped" when it has; "limited" and
\* "fallback" between a usage limit and the second lease, "take" with its candidates;
\* "review" in a reviewer's answer; "finally" to give the second lease back.
Points == {"none", "start", "ready", "session", "stopped", "limited", "fallback", "take", "review", "finally", "end"}
Maybe(S) == S \cup {NoBackend}
Job == [at : Points, mode : {"", "cloud", "local"}, lease : Maybe(Backends), second : Maybe(Backends),
        how : {"", "ok", "error", "limit", "stopped", "aborted"}, seen : SUBSET Backends]
NoJob == [at |-> "none", mode |-> "", lease |-> NoBackend, second |-> NoBackend, how |-> "", seen |-> {}]
Main == [at : {"free", "code", "review"}, task : Tasks, seen : SUBSET Backends]

Active(t) == job[t].at # "none"
Jobs == {t \in Tasks : Active(t)}
\* The backend t's session talks to, NoBackend in the cloud.
Uses(t) == IF job[t].mode = "cloud" THEN job[t].second ELSE job[t].lease
Running(t) == job[t].at = "session"
Local(t) == Uses(t) # NoBackend

Init ==
  /\ job = [t \in Tasks |-> NoJob]
  /\ main = [at |-> "free", task |-> CHOOSE t \in Tasks : TRUE, seen |-> {}]
  /\ busy = [b \in Backends |-> 0] /\ inflight = 0
  /\ game = [b \in Backends |-> FALSE]
  /\ blocked = FALSE /\ runs = 0 /\ localRuns = 0
  /\ kill = FALSE

-----------------------------------------------------------------------------
(* The pool *)

\* healthy: each backend's verdict is probed now or up to 30 seconds old, so any
\* of the role's may be listed, one that a game has taken since included.
Listed(role) == SUBSET role

\* acquire under the lock.
FreeOnes(seen) == {b \in seen : busy[b] < Slots[b]}
Taken(b) == [busy EXCEPT ![b] = @ + 1]
Released(b) == IF b = NoBackend THEN busy ELSE [busy EXCEPT ![b] = IF @ = 0 THEN 0 ELSE @ - 1]

-----------------------------------------------------------------------------
(* The main thread: prepare and reap *)

MayDispatch(t) == ~kill /\ main.at = "free" /\ ~Active(t) /\ Cardinality(Jobs) < MaxParallel
CloudOK == ~blocked /\ runs < RunCap
CloudFree == CloudOK /\ inflight < CloudSlots

PrepareCloud(t) ==
  /\ MayDispatch(t) /\ CloudFree
  /\ inflight' = inflight + 1
  /\ job' = [job EXCEPT ![t] = [NoJob EXCEPT !.at = "start", !.mode = "cloud"]]
  /\ UNCHANGED <<main, busy, game, blocked, runs, localRuns, kill>>

\* No cloud slot, or a step that is for a local coder only.
PrepareLocal(t) ==
  /\ MayDispatch(t) /\ localRuns < LocalCap
  /\ \E seen \in Listed(Coders) : main' = [at |-> "code", task |-> t, seen |-> seen]
  /\ UNCHANGED <<job, busy, inflight, game, blocked, runs, localRuns, kill>>

PrepareReview(t) ==
  /\ MayDispatch(t)
  /\ \E seen \in Listed(Reviewers) : main' = [at |-> "review", task |-> t, seen |-> seen]
  /\ UNCHANGED <<job, busy, inflight, game, blocked, runs, localRuns, kill>>

MainTakes(b) ==
  /\ main.at # "free" /\ b \in FreeOnes(main.seen)
  /\ busy' = Taken(b)
  /\ job' = [job EXCEPT ![main.task] = [NoJob EXCEPT !.at = IF main.at = "review" THEN "review" ELSE "start",
                                                     !.mode = "local", !.lease = b]]
  /\ main' = [main EXCEPT !.at = "free", !.seen = {}]
  /\ UNCHANGED <<inflight, game, blocked, runs, localRuns, kill>>

\* Nothing is free: the step is deferred.
MainFindsNone ==
  /\ main.at # "free" /\ FreeOnes(main.seen) = {}
  /\ main' = [main EXCEPT !.at = "free", !.seen = {}]
  /\ UNCHANGED <<job, busy, inflight, game, blocked, runs, localRuns, kill>>

\* Mutant: the cloud slot is kept after a limit.
ReapKeepsCloudSlot(t) ==
  /\ main.at = "free" /\ job[t].at = "end"
  /\ busy' = Released(job[t].lease)
  /\ inflight' = IF job[t].second = NoBackend /\ job[t].mode = "cloud" /\ job[t].how # "limit" THEN inflight - 1 ELSE inflight
  /\ job' = [job EXCEPT ![t] = NoJob]
  /\ UNCHANGED <<main, game, blocked, runs, localRuns, kill>>
Reap(t) ==
  /\ main.at = "free" /\ job[t].at = "end"
  /\ busy' = Released(job[t].lease)
  /\ inflight' = IF job[t].mode = "cloud" /\ inflight > 0 THEN inflight - 1 ELSE inflight
  /\ job' = [job EXCEPT ![t] = NoJob]
  /\ UNCHANGED <<main, game, blocked, runs, localRuns, kill>>

-----------------------------------------------------------------------------
(* A worker: step_code with run_cloud and run_local, step_review *)

Goes(t, at) == job' = [job EXCEPT ![t].at = at]
mainVars == <<main, inflight, game, kill>>

\* The gate parks the step, a git or secret error fails it, or it is a dry run.
NoSession(t) ==
  /\ job[t].at = "start"
  /\ Goes(t, "end")
  /\ UNCHANGED <<mainVars, busy, blocked, runs, localRuns>>

\* The same in run_local, which may also split the step instead.
NoLocalSession(t) ==
  /\ job[t].at = "ready"
  /\ Goes(t, IF job[t].second = NoBackend THEN "end" ELSE "finally")
  /\ UNCHANGED <<mainVars, busy, blocked, runs, localRuns>>

Cleared(t) ==
  /\ job[t].at = "start" /\ job[t].mode = "local"
  /\ Goes(t, "ready")
  /\ UNCHANGED <<mainVars, busy, blocked, runs, localRuns>>

\* The child process starts.
StartSession(t) ==
  /\ job[t].at = (IF Local(t) THEN "ready" ELSE "start")
  /\ Goes(t, "session")
  /\ UNCHANGED <<mainVars, busy, blocked, runs, localRuns>>

Ended(t, how) ==
  /\ job' = [job EXCEPT ![t].at = "stopped", ![t].how = how]
  /\ UNCHANGED <<mainVars, busy, blocked, runs, localRuns>>

\* The session ends by itself.  Only a failed cloud run counts as a limit.
SessionExits(t, how) ==
  /\ Running(t) /\ how \in (IF Local(t) THEN {"ok", "error"} ELSE {"ok", "error", "limit"})
  /\ Ended(t, how)

\* Mutant: the switch reaches cloud sessions only.
SessionKilledInCloud(t) == Running(t) /\ ~Local(t) /\ kill /\ Ended(t, "stopped")
\* Mutant: only the lease of a local job is watched.
LeaseAborted(t) == Running(t) /\ job[t].mode = "local" /\ game[job[t].lease] /\ Ended(t, "aborted")
\* SubprocessRunner looks once a second: wall time, kill switch, and for a local
\* session whether a rule has taken its backend.
SessionTimesOut(t) == Running(t) /\ Ended(t, "stopped")
SessionKilled(t) == Running(t) /\ kill /\ Ended(t, "stopped")
SessionAborted(t) == Running(t) /\ Local(t) /\ game[Uses(t)] /\ Ended(t, "aborted")

\* budget.record.
AfterRecord(t) ==
  CASE ~Local(t) /\ job[t].how = "limit" -> "limited"
    [] job[t].second # NoBackend         -> "finally"
    [] OTHER                             -> "end"
Record(t) ==
  /\ job[t].at = "stopped"
  /\ runs' = IF Local(t) THEN runs ELSE runs + 1
  /\ localRuns' = IF Local(t) THEN localRuns + 1 ELSE localRuns
  /\ Goes(t, AfterRecord(t))
  /\ UNCHANGED <<mainVars, busy, blocked>>

\* The limit switches the cloud off for everyone.
BlockCloud(t) ==
  /\ job[t].at = "limited"
  /\ blocked' = TRUE
  /\ Goes(t, "fallback")
  /\ UNCHANGED <<mainVars, busy, runs, localRuns>>

\* Mutant: the fallback does not ask the budget.
FallbackListsUncapped(t) ==
  /\ job[t].at = "fallback"
  /\ \E seen \in Listed(Coders) : job' = [job EXCEPT ![t].at = "take", ![t].seen = seen]
  /\ UNCHANGED <<main, inflight, game, kill, busy, blocked, runs, localRuns>>
FallbackLists(t) ==
  /\ job[t].at = "fallback" /\ localRuns < LocalCap
  /\ \E seen \in Listed(Coders) : job' = [job EXCEPT ![t].at = "take", ![t].seen = seen]
  /\ UNCHANGED <<main, inflight, game, kill, busy, blocked, runs, localRuns>>

FallbackTakes(t, b) ==
  /\ job[t].at = "take" /\ b \in FreeOnes(job[t].seen)
  /\ busy' = Taken(b)
  /\ job' = [job EXCEPT ![t].at = "ready", ![t].second = b, ![t].seen = {}]
  /\ UNCHANGED <<mainVars, blocked, runs, localRuns>>

\* The daily cap of local runs is reached, or no backend is free: the step is deferred.
NoFallback(t) ==
  /\ \/ job[t].at = "fallback" /\ localRuns >= LocalCap
     \/ job[t].at = "take" /\ FreeOnes(job[t].seen) = {}
  /\ job' = [job EXCEPT ![t].at = "end", ![t].seen = {}]
  /\ UNCHANGED <<mainVars, busy, blocked, runs, localRuns>>

\* Mutant: an aborted session keeps the second slot.
GiveBackNothing(t) ==
  /\ job[t].at = "finally"
  /\ busy' = IF job[t].how = "aborted" THEN busy ELSE Released(job[t].second)
  /\ job' = [job EXCEPT ![t].at = "end", ![t].second = NoBackend]
  /\ UNCHANGED <<mainVars, blocked, runs, localRuns>>
GiveBack(t) ==
  /\ job[t].at = "finally"
  /\ busy' = Released(job[t].second)
  /\ job' = [job EXCEPT ![t].at = "end", ![t].second = NoBackend]
  /\ UNCHANGED <<mainVars, blocked, runs, localRuns>>

\* The reviewer answers, or its call times out.
ReviewEnds(t) ==
  /\ job[t].at = "review"
  /\ Goes(t, "end")
  /\ UNCHANGED <<mainVars, busy, blocked, runs, localRuns>>

-----------------------------------------------------------------------------
(* The surroundings *)

loopVars == <<job, main, busy, inflight>>

\* The owner of a backend's GPU starts a game on it, or ends it.
Game(b) ==
  /\ game' = [game EXCEPT ![b] = ~@]
  /\ UNCHANGED <<loopVars, blocked, runs, localRuns, kill>>

BlockEnds ==
  /\ blocked /\ blocked' = FALSE
  /\ UNCHANGED <<loopVars, game, runs, localRuns, kill>>

\* Midnight.  A session under way counts for the day it ends in.
NewDay ==
  /\ runs + localRuns > 0 /\ runs' = 0 /\ localRuns' = 0
  /\ UNCHANGED <<loopVars, game, blocked, kill>>

KillSwitch ==
  /\ kill' = ~kill
  /\ UNCHANGED <<loopVars, game, blocked, runs, localRuns>>

\* The loop dies and starts again: what it kept in memory is gone.
Crash ==
  /\ MayCrash
  /\ job' = [t \in Tasks |-> NoJob] /\ main' = [main EXCEPT !.at = "free", !.seen = {}]
  /\ busy' = [b \in Backends |-> 0] /\ inflight' = 0
  /\ UNCHANGED <<game, blocked, runs, localRuns, kill>>

Worker(t) ==
  \/ NoSession(t) \/ NoLocalSession(t) \/ Cleared(t) \/ StartSession(t)
  \/ \E how \in {"ok", "error", "limit"} : SessionExits(t, how)
  \/ SessionTimesOut(t) \/ SessionKilled(t) \/ SessionAborted(t)
  \/ Record(t) \/ BlockCloud(t) \/ FallbackLists(t) \/ NoFallback(t)
  \/ \E b \in Backends : FallbackTakes(t, b)
  \/ GiveBack(t) \/ ReviewEnds(t)
Prepare == \E t \in Tasks : PrepareCloud(t) \/ PrepareLocal(t) \/ PrepareReview(t)
Picks == MainFindsNone \/ \E b \in Backends : MainTakes(b)
Environment ==
  \/ \E b \in Backends : Game(b)
  \/ BlockEnds \/ NewDay \/ KillSwitch \/ Crash

Next == Prepare \/ Picks \/ (\E t \in Tasks : Reap(t) \/ Worker(t)) \/ Environment
Spec == Init /\ [][Next]_vars

\* What happens within seconds: threads run, and SubprocessRunner looks at the kill
\* switch and at the rule of its backend.  A session that goes on, or a reviewer that
\* thinks, may do so until a limit minutes away: they are not counted on to end.
Looks(t) == SessionKilled(t) \/ SessionAborted(t)
Moves(t) == ~Running(t) /\ job[t].at # "review" /\ Worker(t)
Fairness ==
  /\ WF_vars(Picks)
  /\ \A t \in Tasks : WF_vars(Reap(t)) /\ WF_vars(Moves(t)) /\ WF_vars(Looks(t))
FairSpec == Spec /\ Fairness

-----------------------------------------------------------------------------
(* Correctness *)

\* The type invariant.  A job has a lease of its own or a cloud slot, and the second
\* lease only in a cloud job, from the fallback to the finally that gives it back.
SecondAt == {"ready", "session", "stopped", "finally"}
LeaseOK(t) ==
  /\ job[t].mode = "local" <=> job[t].lease # NoBackend
  /\ job[t].second # NoBackend => job[t].mode = "cloud" /\ job[t].at \in SecondAt
  /\ job[t].at \in {"ready", "finally"} /\ job[t].mode = "cloud" => job[t].second # NoBackend
  /\ job[t].at \in {"limited", "fallback", "take"} => job[t].mode = "cloud"
  /\ job[t].at \in {"review"} => job[t].mode = "local"
  /\ Active(t) <=> job[t].mode # ""
TypeOK ==
  /\ job \in [Tasks -> Job] /\ main \in Main /\ \A t \in Tasks : LeaseOK(t)
  /\ busy \in [Backends -> Nat] /\ inflight \in Nat
  /\ game \in [Backends -> BOOLEAN]
  /\ blocked \in BOOLEAN /\ {runs, localRuns} \subseteq Nat
  /\ kill \in BOOLEAN

\* The pool's counters are the leases out: each slot taken by prepare or by a worker's
\* fallback is given back once, however the job ends, and no backend is overbooked
\* though both threads pick from lists made before they take (acquire, release, reap).
Holders(b) == {t \in Tasks : job[t].lease = b} \cup {t \in Tasks : job[t].second = b}
SlotsHeld == \A b \in Backends : busy[b] = Cardinality(Holders(b)) /\ busy[b] <= Slots[b]

\* cloud_inflight is the number of jobs that were given a cloud slot, up to
\* cloud_slots, also while such a job has moved on to a local backend.
InCloud == {t \in Tasks : job[t].mode = "cloud"}
CloudHeld == inflight = Cardinality(InCloud) /\ inflight <= CloudSlots

\* The daily caps are checked before a session and its run is written after it: what
\* is written and what is under way exceeds a cap by less than what may run at once.
CloudUnwritten == {t \in Tasks : job[t].mode = "cloud" /\ ~Local(t) /\ job[t].at \in {"start", "session", "stopped"}}
LocalUnwritten == {t \in Tasks : \/ Local(t) /\ job[t].at \in {"start", "ready", "session", "stopped"}
                                 \/ job[t].at = "take"}
PickingCoder == IF main.at = "code" THEN 1 ELSE 0
WithinCaps ==
  /\ RunCap > 0 => runs + Cardinality(CloudUnwritten) < RunCap + CloudSlots
  /\ LocalCap > 0 => localRuns + Cardinality(LocalUnwritten) + PickingCoder < LocalCap + MaxParallel

\* A coding session leaves the GPU of a backend that a game wants.
GameGetsBackend ==
  \A b \in Backends : game[b] ~> (~game[b] \/ \A t \in Tasks : ~(Running(t) /\ Uses(t) = b))

\* The kill switch ends every session within seconds, and no job is left that was on
\* its way to one, or to a second one after a usage limit.
KillStops ==
  kill ~> (~kill \/ (main.at = "free" /\ \A t \in Tasks : job[t].at \in {"none", "review", "end"}))
=============================================================================
