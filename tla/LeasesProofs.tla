---------------------------- MODULE LeasesProofs ----------------------------
(***************************************************************************)
(* Proofs about Leases for every set of tasks and backends, any slots and  *)
(* caps, and a loop that dies at any moment.                               *)
(***************************************************************************)
EXTENDS Leases, FiniteSetTheorems, TLAPS

-----------------------------------------------------------------------------
(* Types *)

\* What a step of one task leaves of the types: the other jobs are as they were.
LEMMA OneJob ==
  ASSUME TypeOK, NEW t \in Tasks, NEW j \in Job, job' = [job EXCEPT ![t] = j]
  PROVE  /\ job' \in [Tasks -> Job] /\ job'[t] = j
         /\ \A u \in Tasks \ {t} : job'[u] = job[u] /\ LeaseOK(u)'
PROOF
  <1>1. job \in [Tasks -> Job] /\ \A u \in Tasks : LeaseOK(u)
    BY DEF TypeOK
  <1>2. job' \in [Tasks -> Job] /\ job'[t] = j /\ \A u \in Tasks \ {t} : job'[u] = job[u]
    BY <1>1
  <1>3. ASSUME NEW u \in Tasks, job'[u] = job[u]  PROVE LeaseOK(u)'
    BY <1>1, <1>3 DEF LeaseOK, Active
  <1> QED BY <1>2, <1>3

\* The lock's counters stay numbers.
LEMMA Slot ==
  ASSUME busy \in [Backends -> Nat]
  PROVE  /\ \A b \in Backends :
              /\ Taken(b) \in [Backends -> Nat] /\ Taken(b)[b] = busy[b] + 1
              /\ \A c \in Backends \ {b} : Taken(b)[c] = busy[c]
         /\ \A b \in Maybe(Backends) :
              /\ Released(b) \in [Backends -> Nat]
              /\ b # NoBackend => Released(b)[b] = IF busy[b] = 0 THEN 0 ELSE busy[b] - 1
              /\ \A c \in Backends \ {b} : Released(b)[c] = busy[c]
PROOF
  BY LeasesAssumption DEF Taken, Released, Maybe

LEMMA InitTypes == Init => TypeOK
PROOF
  <1> SUFFICES ASSUME Init PROVE TypeOK
    OBVIOUS
  <1>1. NoJob \in Job
    BY DEF NoJob, Job, Points, Maybe
  <1>2. (CHOOSE t \in Tasks : TRUE) \in Tasks
    BY LeasesAssumption
  <1>3. main \in Main
    BY <1>2 DEF Init, Main
  <1>4. ASSUME NEW t \in Tasks  PROVE LeaseOK(t)
    <2>1. /\ NoJob.at = "none" /\ NoJob.mode = ""
          /\ NoJob.lease = NoBackend /\ NoJob.second = NoBackend
      BY DEF NoJob
    <2>2. /\ job[t].at = "none" /\ job[t].mode = ""
          /\ job[t].lease = NoBackend /\ job[t].second = NoBackend
      BY <2>1 DEF Init
    <2> QED BY <2>2 DEF LeaseOK, Active
  <1>5. job \in [Tasks -> Job]
    BY <1>1 DEF Init
  <1>6. /\ busy \in [Backends -> Nat] /\ inflight \in Nat /\ game \in [Backends -> BOOLEAN]
        /\ blocked \in BOOLEAN /\ runs \in Nat /\ localRuns \in Nat /\ kill \in BOOLEAN
    BY DEF Init
  <1> QED BY <1>3, <1>4, <1>5, <1>6 DEF TypeOK

\* A new job has the type, and is what a cloud or a local step starts with.
LEMMA NewJob ==
  /\ NoJob \in Job
  /\ [NoJob EXCEPT !.at = "start", !.mode = "cloud"] \in Job
  /\ \A b \in Backends, at \in {"start", "review"} :
       [NoJob EXCEPT !.at = at, !.mode = "local", !.lease = b] \in Job
PROOF
  BY DEF NoJob, Job, Points, Maybe

\* A worker's step keeps a job a job, with its mode and its own lease.
LEMMA WorkerKeeps ==
  ASSUME TypeOK, NEW t \in Tasks, Worker(t)
  PROVE  /\ job' \in [Tasks -> Job] /\ \A u \in Tasks \ {t} : job'[u] = job[u]
         /\ job'[t].mode = job[t].mode /\ job'[t].lease = job[t].lease
         /\ job[t].at # "none" /\ job'[t].at # "none"
         /\ UNCHANGED <<main, inflight, game, kill>>
         /\ busy' \in [Backends -> Nat]
PROOF
  <1>1. job \in [Tasks -> Job] /\ busy \in [Backends -> Nat]
    BY DEF TypeOK
  <1>2. job[t] \in Job
    BY <1>1
  <1> USE <1>1, <1>2
  <1>3. CASE NoSession(t)
    BY <1>3 DEF NoSession, Goes, mainVars, Job, Points
  <1>4. CASE NoLocalSession(t)
    BY <1>4 DEF NoLocalSession, Goes, mainVars, Job, Points
  <1>5. CASE Cleared(t)
    BY <1>5 DEF Cleared, Goes, mainVars, Job, Points
  <1>6. CASE StartSession(t)
    BY <1>6 DEF StartSession, Goes, mainVars, Job, Points
  <1>7. ASSUME NEW how \in {"ok", "error", "limit", "stopped", "aborted"}, Running(t), Ended(t, how)
        PROVE  /\ job' \in [Tasks -> Job] /\ \A u \in Tasks \ {t} : job'[u] = job[u]
               /\ job'[t].mode = job[t].mode /\ job'[t].lease = job[t].lease
               /\ job[t].at # "none" /\ job'[t].at # "none"
               /\ UNCHANGED <<main, inflight, game, kill>>
               /\ busy' \in [Backends -> Nat]
    BY <1>7 DEF Running, Ended, mainVars, Job, Points
  <1>8. CASE \/ \E how \in {"ok", "error", "limit"} : SessionExits(t, how)
             \/ SessionTimesOut(t) \/ SessionKilled(t) \/ SessionAborted(t)
    BY <1>7, <1>8 DEF SessionExits, SessionTimesOut, SessionKilled, SessionAborted
  <1>9. CASE Record(t)
    BY <1>9 DEF Record, Goes, AfterRecord, mainVars, Job, Points
  <1>10. CASE BlockCloud(t)
    BY <1>10 DEF BlockCloud, Goes, mainVars, Job, Points
  <1>11. CASE FallbackLists(t)
    <2>1. PICK seen \in Listed(Coders) : job' = [job EXCEPT ![t].at = "take", ![t].seen = seen]
      BY <1>11 DEF FallbackLists
    <2>2. seen \in SUBSET Backends
      BY LeasesAssumption DEF Listed
    <2> QED BY <1>11, <2>1, <2>2 DEF FallbackLists, Job, Points
  <1>12. CASE NoFallback(t)
    BY <1>12 DEF NoFallback, mainVars, Job, Points
  <1>13. CASE \E b \in Backends : FallbackTakes(t, b)
    <2>1. PICK b \in Backends : FallbackTakes(t, b)
      BY <1>13
    <2>2. busy' \in [Backends -> Nat]
      BY <2>1, Slot DEF FallbackTakes
    <2>3. job' = [job EXCEPT ![t].at = "ready", ![t].second = b, ![t].seen = {}]
      BY <2>1 DEF FallbackTakes
    <2>4. job' \in [Tasks -> Job]
      BY <2>3 DEF Job, Points, Maybe
    <2> QED BY <2>1, <2>2, <2>3, <2>4 DEF FallbackTakes, mainVars
  <1>14. CASE GiveBack(t)
    BY <1>14, Slot DEF GiveBack, mainVars, Job, Points, Maybe
  <1>15. CASE ReviewEnds(t)
    BY <1>15 DEF ReviewEnds, Goes, mainVars, Job, Points
  <1> QED
    BY <1>3, <1>4, <1>5, <1>6, <1>8, <1>9, <1>10, <1>11, <1>12, <1>13, <1>14, <1>15 DEF Worker

\* Nor does it lose hold of a lease or a cloud slot, or hold one too many.
LEMMA WorkerLease ==
  ASSUME TypeOK, NEW t \in Tasks, Worker(t)
  PROVE  LeaseOK(t)'
PROOF
  <1>1. /\ job \in [Tasks -> Job] /\ job[t] \in Job /\ LeaseOK(t)
        /\ job' \in [Tasks -> Job] /\ job'[t].mode = job[t].mode /\ job'[t].lease = job[t].lease
        /\ job[t].at # "none" /\ job'[t].at # "none"
    BY WorkerKeeps DEF TypeOK
  <1>2. job[t].mode \in {"cloud", "local"}
    BY <1>1 DEF Job, LeaseOK, Active
  <1> DEFINE at == job[t].at
             second == job[t].second
             Fits(a, s) ==
               /\ s # NoBackend => job[t].mode = "cloud" /\ a \in SecondAt
               /\ a \in {"ready", "finally"} /\ job[t].mode = "cloud" => s # NoBackend
               /\ a \in {"limited", "fallback", "take"} => job[t].mode = "cloud"
               /\ a # "review"
  <1>3. ASSUME Fits(job'[t].at, job'[t].second)  PROVE LeaseOK(t)'
    BY <1>1, <1>3 DEF LeaseOK, Active
  <1>4. /\ second # NoBackend => job[t].mode = "cloud" /\ at \in SecondAt
        /\ at \in {"ready", "finally"} /\ job[t].mode = "cloud" => second # NoBackend
        /\ at \in {"limited", "fallback", "take"} => job[t].mode = "cloud"
    BY <1>1 DEF LeaseOK
  <1> HIDE DEF at, second
  <1>5. CASE NoSession(t)
    <2>1. at = "start" /\ job'[t].at = "end" /\ job'[t].second = second
      BY <1>1, <1>5 DEF NoSession, Goes, at, second
    <2> QED BY <1>3, <1>4, <2>1 DEF SecondAt
  <1>6. CASE NoLocalSession(t)
    <2>1. /\ at = "ready" /\ job'[t].second = second
          /\ job'[t].at = IF second = NoBackend THEN "end" ELSE "finally"
      BY <1>1, <1>6 DEF NoLocalSession, Goes, at, second
    <2> QED BY <1>3, <1>4, <2>1 DEF SecondAt
  <1>7. CASE Cleared(t)
    <2>1. at = "start" /\ job'[t].at = "ready" /\ job'[t].second = second /\ job[t].mode = "local"
      BY <1>1, <1>7 DEF Cleared, Goes, at, second
    <2> QED BY <1>3, <1>4, <2>1 DEF SecondAt
  <1>8. CASE StartSession(t)
    <2>1. at \in {"ready", "start"} /\ job'[t].at = "session" /\ job'[t].second = second
      BY <1>1, <1>8 DEF StartSession, Goes, at, second
    <2> QED BY <1>3, <1>4, <2>1 DEF SecondAt
  <1>9. ASSUME NEW how, Running(t), Ended(t, how)  PROVE LeaseOK(t)'
    <2>1. at = "session" /\ job'[t].at = "stopped" /\ job'[t].second = second
      BY <1>1, <1>9 DEF Running, Ended, at, second
    <2> QED BY <1>3, <1>4, <2>1 DEF SecondAt
  <1>10. CASE \/ \E how \in {"ok", "error", "limit"} : SessionExits(t, how)
              \/ SessionTimesOut(t) \/ SessionKilled(t) \/ SessionAborted(t)
    BY <1>9, <1>10 DEF SessionExits, SessionTimesOut, SessionKilled, SessionAborted
  <1>11. CASE Record(t)
    <2>1. at = "stopped" /\ job'[t].at = AfterRecord(t) /\ job'[t].second = second
      BY <1>1, <1>11 DEF Record, Goes, at, second
    <2>2. Uses(t) = NoBackend => job[t].mode = "cloud" /\ second = NoBackend
      BY <1>1, <1>2 DEF Uses, LeaseOK, second
    <2>3. \/ AfterRecord(t) = "limited" /\ Uses(t) = NoBackend
          \/ AfterRecord(t) = "finally" /\ second # NoBackend
          \/ AfterRecord(t) = "end" /\ second = NoBackend
      BY DEF AfterRecord, Local, second
    <2> QED BY <1>3, <1>4, <2>1, <2>2, <2>3 DEF SecondAt
  <1>12. CASE BlockCloud(t)
    <2>1. at = "limited" /\ job'[t].at = "fallback" /\ job'[t].second = second
      BY <1>1, <1>12 DEF BlockCloud, Goes, at, second
    <2> QED BY <1>3, <1>4, <2>1 DEF SecondAt
  <1>13. CASE FallbackLists(t)
    <2>1. at = "fallback" /\ job'[t].at = "take" /\ job'[t].second = second
      BY <1>1, <1>13 DEF FallbackLists, at, second
    <2> QED BY <1>3, <1>4, <2>1 DEF SecondAt
  <1>14. CASE NoFallback(t)
    <2>1. at \in {"fallback", "take"} /\ job'[t].at = "end" /\ job'[t].second = second
      BY <1>1, <1>14 DEF NoFallback, at, second
    <2> QED BY <1>3, <1>4, <2>1 DEF SecondAt
  <1>15. ASSUME NEW b \in Backends, FallbackTakes(t, b)  PROVE LeaseOK(t)'
    <2>1. at = "take" /\ job'[t].at = "ready" /\ job'[t].second = b
      BY <1>1, <1>15 DEF FallbackTakes, at
    <2> QED BY <1>3, <1>4, <2>1, LeasesAssumption DEF SecondAt
  <1>16. CASE GiveBack(t)
    <2>1. job'[t].at = "end" /\ job'[t].second = NoBackend
      BY <1>1, <1>16 DEF GiveBack
    <2> QED BY <1>3, <2>1
  <1>17. CASE ReviewEnds(t)
    <2>1. at = "review" /\ job'[t].at = "end" /\ job'[t].second = second
      BY <1>1, <1>17 DEF ReviewEnds, Goes, at, second
    <2> QED BY <1>3, <1>4, <2>1 DEF SecondAt
  <1> QED
    BY <1>5, <1>6, <1>7, <1>8, <1>10, <1>11, <1>12, <1>13, <1>14, <1>15, <1>16, <1>17 DEF Worker

LEMMA WorkerTypes ==
  ASSUME TypeOK, NEW t \in Tasks, Worker(t)
  PROVE  TypeOK'
PROOF
  <1>1. ASSUME NEW u \in Tasks \ {t} PROVE LeaseOK(u)'
    <2>1. LeaseOK(u) /\ u \in Tasks /\ job \in [Tasks -> Job]
      BY DEF TypeOK
    <2>2. job'[u] = job[u] /\ job' \in [Tasks -> Job]
      BY <2>1, WorkerKeeps
    <2>3. job[u] \in Job
      BY <2>1
    <2> QED BY ONLY <2>1, <2>2, <2>3 DEF LeaseOK, Active, Job
  <1>2. \A u \in Tasks : LeaseOK(u)'
    BY <1>1, WorkerLease
  <1>3. blocked' \in BOOLEAN /\ runs' \in Nat /\ localRuns' \in Nat
    <2>1. blocked \in BOOLEAN /\ runs \in Nat /\ localRuns \in Nat
      BY DEF TypeOK
    <2>2. CASE Record(t)
      BY <2>1, <2>2 DEF Record
    <2>3. CASE BlockCloud(t)
      BY <2>1, <2>3 DEF BlockCloud
    <2>4. CASE ~Record(t) /\ ~BlockCloud(t)
      <3>1. UNCHANGED <<blocked, runs, localRuns>>
        BY <2>4 DEF Worker, NoSession, NoLocalSession, Cleared, StartSession, SessionExits,
             SessionTimesOut, SessionKilled, SessionAborted, Ended, FallbackLists, NoFallback,
             FallbackTakes, GiveBack, ReviewEnds
      <3> QED BY <2>1, <3>1
    <2> QED BY <2>2, <2>3, <2>4
  <1>4. job' \in [Tasks -> Job] /\ busy' \in [Backends -> Nat] /\ UNCHANGED <<main, inflight, game, kill>>
    BY WorkerKeeps
  <1>5. main' \in Main
    BY <1>4 DEF TypeOK, Main
  <1> QED BY <1>2, <1>3, <1>4, <1>5 DEF TypeOK

\* prepare, reap and the surroundings keep the types too.
LEMMA MainTypes ==
  ASSUME TypeOK, Prepare \/ Picks \/ (\E t \in Tasks : Reap(t)) \/ Environment
  PROVE  TypeOK'
PROOF
  <1> USE DEF TypeOK
  <1>0. /\ main \in Main /\ main.task \in Tasks /\ main.seen \in SUBSET Backends
        /\ Coders \subseteq Backends /\ Reviewers \subseteq Backends
    BY LeasesAssumption DEF Main
  <1>1. ASSUME UNCHANGED job  PROVE \A u \in Tasks : LeaseOK(u)'
    BY <1>1 DEF LeaseOK, Active
  <1>2. ASSUME NEW t \in Tasks, PrepareCloud(t)  PROVE TypeOK'
    <2>1. LeaseOK(t)' /\ \A u \in Tasks \ {t} : LeaseOK(u)'
      BY <1>2, OneJob, NewJob DEF PrepareCloud, LeaseOK, Active, NoJob
    <2>2. job' \in [Tasks -> Job]
      BY <1>2, OneJob, NewJob DEF PrepareCloud
    <2>3. inflight' \in Nat /\ UNCHANGED <<main, busy, game, blocked, runs, localRuns, kill>>
      BY <1>2 DEF PrepareCloud
    <2> QED BY <2>1, <2>2, <2>3
  <1>3. ASSUME NEW t \in Tasks, PrepareLocal(t)  PROVE TypeOK'
    <2>1. main' \in Main
      BY <1>0, <1>3 DEF PrepareLocal, Main, Listed
    <2> QED BY <1>1, <1>3, <2>1 DEF PrepareLocal
  <1>4. ASSUME NEW t \in Tasks, PrepareReview(t)  PROVE TypeOK'
    <2>1. main' \in Main
      BY <1>0, <1>4 DEF PrepareReview, Main, Listed
    <2> QED BY <1>1, <1>4, <2>1 DEF PrepareReview
  <1>5. ASSUME main' = [main EXCEPT !.at = "free", !.seen = {}]  PROVE main' \in Main
    BY <1>0, <1>5 DEF Main
  <1>6. CASE MainFindsNone
    BY <1>1, <1>5, <1>6 DEF MainFindsNone
  <1>7. ASSUME NEW b \in Backends, MainTakes(b)  PROVE TypeOK'
    <2> DEFINE at == IF main.at = "review" THEN "review" ELSE "start"
               j == [NoJob EXCEPT !.at = at, !.mode = "local", !.lease = b]
    <2>1. j \in Job /\ job' = [job EXCEPT ![main.task] = j]
      BY <1>7, NewJob DEF MainTakes
    <2>2. /\ job' \in [Tasks -> Job] /\ job'[main.task] = j
          /\ \A u \in Tasks \ {main.task} : LeaseOK(u)'
      BY <1>0, <2>1, OneJob
    <2>3. j.mode = "local" /\ j.lease = b /\ j.second = NoBackend /\ j.at \in {"review", "start"}
      BY DEF NoJob
    <2> HIDE DEF j
    <2>4. LeaseOK(main.task)'
      <3>1. main.task' = main.task /\ job'[main.task'] = j
        BY <1>0, <1>7, <2>2 DEF MainTakes, Main
      <3> QED BY <2>3, <3>1, LeasesAssumption DEF LeaseOK, Active, SecondAt
    <2>5. \A u \in Tasks : LeaseOK(u)'
      <3>1. main.task' = main.task
        BY <1>0, <1>7 DEF MainTakes, Main
      <3> QED BY <2>2, <2>4, <3>1
    <2>6. busy' \in [Backends -> Nat]
      BY <1>7, Slot DEF MainTakes
    <2>7. UNCHANGED <<inflight, game, blocked, runs, localRuns, kill>> /\ main' \in Main
      BY <1>5, <1>7 DEF MainTakes
    <2> QED BY <2>2, <2>5, <2>6, <2>7
  <1>8. ASSUME NEW t \in Tasks, Reap(t)  PROVE TypeOK'
    <2>1. LeaseOK(t)' /\ \A u \in Tasks \ {t} : LeaseOK(u)'
      BY <1>8, OneJob, NewJob DEF Reap, LeaseOK, Active, NoJob
    <2>2. job' \in [Tasks -> Job]
      BY <1>8, OneJob, NewJob DEF Reap
    <2>3. job[t].lease \in Maybe(Backends)
      BY DEF Job
    <2>4. busy' \in [Backends -> Nat] /\ inflight' \in Nat
      BY <1>8, <2>3, Slot DEF Reap
    <2> QED BY <1>8, <2>1, <2>2, <2>4 DEF Reap
  <1>9. ASSUME NEW b \in Backends, Game(b)  PROVE TypeOK'
    BY <1>1, <1>9 DEF Game, loopVars
  <1>10. CASE BlockEnds
    BY <1>1, <1>10 DEF BlockEnds, loopVars
  <1>11. CASE NewDay
    BY <1>1, <1>11 DEF NewDay, loopVars
  <1>12. CASE KillSwitch
    BY <1>1, <1>12 DEF KillSwitch, loopVars
  <1>13. CASE Crash
    <2>1. \A u \in Tasks : LeaseOK(u)'
      BY <1>13 DEF Crash, LeaseOK, Active, NoJob
    <2> QED BY <1>5, <1>13, <2>1, NewJob DEF Crash
  <1> QED
    BY <1>2, <1>3, <1>4, <1>6, <1>7, <1>8, <1>9, <1>10, <1>11, <1>12, <1>13
       DEF Prepare, Picks, Environment

LEMMA StepTypes == TypeOK /\ [Next]_vars => TypeOK'
PROOF
  <1> SUFFICES ASSUME TypeOK, [Next]_vars PROVE TypeOK'
    OBVIOUS
  <1>1. CASE UNCHANGED vars
    BY <1>1 DEF TypeOK, vars, LeaseOK, Active
  <1> QED BY <1>1, WorkerTypes, MainTypes DEF Next

\* Every reachable state has its types: a job has a lease of its own or a cloud slot,
\* and a second lease only from the fallback of a cloud job to its finally.
THEOREM Typing == Spec => []TypeOK
PROOF
  <1> QED BY InitTypes, StepTypes, PTL DEF Spec

-----------------------------------------------------------------------------
(* Counting *)

Ind(p) == IF p THEN 1 ELSE 0

\* Two sets of tasks that agree but on t differ in size by t.
LEMMA CountOne ==
  ASSUME NEW t, NEW S \in SUBSET Tasks, NEW R \in SUBSET Tasks,
         \A u \in Tasks \ {t} : u \in S <=> u \in R
  PROVE  /\ Cardinality(S) \in Nat /\ Cardinality(R) \in Nat
         /\ Cardinality(R) + Ind(t \in S) = Cardinality(S) + Ind(t \in R)
PROOF
  <1>1. IsFiniteSet(S) /\ IsFiniteSet(R)
    BY LeasesAssumption, FS_Subset
  <1>2. S \ {t} = R \ {t}
    OBVIOUS
  <1>3. Cardinality(S \ {t}) = Cardinality(S) - Ind(t \in S)
    BY <1>1, FS_RemoveElement, FS_CardinalityType DEF Ind
  <1>4. Cardinality(R \ {t}) = Cardinality(R) - Ind(t \in R)
    BY <1>1, FS_RemoveElement, FS_CardinalityType DEF Ind
  <1>5. Cardinality(S) \in Nat /\ Cardinality(R) \in Nat
    BY <1>1, FS_CardinalityType
  <1> QED BY <1>2, <1>3, <1>4, <1>5 DEF Ind

\* What leaves one count and enters another, of runs written and of runs under way,
\* leaves their sum no higher.
LEMMA Balance ==
  \A r, r2, c, c2, x, y \in Nat :
    r2 + y <= r + x /\ c2 + x = c + y => r2 + c2 <= r + c
PROOF
  OBVIOUS

\* What a step that writes the job of one task does to each count.
LEMMA Counts ==
  ASSUME NEW t \in Tasks, \A u \in Tasks \ {t} : job'[u] = job[u]
  PROVE  /\ Cardinality(Jobs) \in Nat /\ Cardinality(Jobs)' \in Nat
         /\ Cardinality(Jobs)' + Ind(t \in Jobs) = Cardinality(Jobs) + Ind(t \in Jobs')
         /\ Cardinality(InCloud) \in Nat /\ Cardinality(InCloud)' \in Nat
         /\ Cardinality(InCloud)' + Ind(t \in InCloud) = Cardinality(InCloud) + Ind(t \in InCloud')
         /\ Cardinality(CloudUnwritten) \in Nat /\ Cardinality(CloudUnwritten)' \in Nat
         /\ Cardinality(CloudUnwritten)' + Ind(t \in CloudUnwritten)
              = Cardinality(CloudUnwritten) + Ind(t \in CloudUnwritten')
         /\ Cardinality(LocalUnwritten) \in Nat /\ Cardinality(LocalUnwritten)' \in Nat
         /\ Cardinality(LocalUnwritten)' + Ind(t \in LocalUnwritten)
              = Cardinality(LocalUnwritten) + Ind(t \in LocalUnwritten')
         /\ \A b \in Backends :
              /\ Cardinality(Holders(b)) \in Nat /\ Cardinality(Holders(b)') \in Nat
              /\ Cardinality(Holders(b)') + Ind(t \in Holders(b))
                   = Cardinality(Holders(b)) + Ind(t \in Holders(b)')
PROOF
  <1>1. /\ Jobs \in SUBSET Tasks /\ Jobs' \in SUBSET Tasks
        /\ \A u \in Tasks \ {t} : u \in Jobs <=> u \in Jobs'
    BY DEF Jobs, Active
  <1>2. /\ InCloud \in SUBSET Tasks /\ InCloud' \in SUBSET Tasks
        /\ \A u \in Tasks \ {t} : u \in InCloud <=> u \in InCloud'
    BY DEF InCloud
  <1>3. /\ CloudUnwritten \in SUBSET Tasks /\ CloudUnwritten' \in SUBSET Tasks
        /\ \A u \in Tasks \ {t} : u \in CloudUnwritten <=> u \in CloudUnwritten'
    BY DEF CloudUnwritten, Local, Uses
  <1>4. /\ LocalUnwritten \in SUBSET Tasks /\ LocalUnwritten' \in SUBSET Tasks
        /\ \A u \in Tasks \ {t} : u \in LocalUnwritten <=> u \in LocalUnwritten'
    BY DEF LocalUnwritten, Local, Uses
  <1>5. ASSUME NEW b \in Backends
        PROVE  /\ Holders(b) \in SUBSET Tasks /\ Holders(b)' \in SUBSET Tasks
               /\ \A u \in Tasks \ {t} : u \in Holders(b) <=> u \in Holders(b)'
    BY DEF Holders
  <1>6. /\ Cardinality(Jobs) \in Nat /\ Cardinality(Jobs') \in Nat
        /\ Cardinality(Jobs') + Ind(t \in Jobs) = Cardinality(Jobs) + Ind(t \in Jobs')
    BY <1>1, CountOne
  <1>7. /\ Cardinality(InCloud) \in Nat /\ Cardinality(InCloud') \in Nat
        /\ Cardinality(InCloud') + Ind(t \in InCloud) = Cardinality(InCloud) + Ind(t \in InCloud')
    BY <1>2, CountOne
  <1>8. /\ Cardinality(CloudUnwritten) \in Nat /\ Cardinality(CloudUnwritten') \in Nat
        /\ Cardinality(CloudUnwritten') + Ind(t \in CloudUnwritten)
             = Cardinality(CloudUnwritten) + Ind(t \in CloudUnwritten')
    BY <1>3, CountOne
  <1>9. /\ Cardinality(LocalUnwritten) \in Nat /\ Cardinality(LocalUnwritten') \in Nat
        /\ Cardinality(LocalUnwritten') + Ind(t \in LocalUnwritten)
             = Cardinality(LocalUnwritten) + Ind(t \in LocalUnwritten')
    BY <1>4, CountOne
  <1>10. ASSUME NEW b \in Backends
         PROVE  /\ Cardinality(Holders(b)) \in Nat /\ Cardinality(Holders(b)') \in Nat
                /\ Cardinality(Holders(b)') + Ind(t \in Holders(b))
                     = Cardinality(Holders(b)) + Ind(t \in Holders(b)')
    BY <1>5, CountOne
  <1> QED BY <1>6, <1>7, <1>8, <1>9, <1>10

-----------------------------------------------------------------------------
(* The inductive invariant *)

\* While the main thread is inside prepare, the task it picks for has no job and no
\* other job starts: the one it is about to start has its place in max_parallel.
MainHeld ==
  /\ main.at # "free" => ~Active(main.task)
  /\ Cardinality(Jobs) + Ind(main.at # "free") <= MaxParallel

IInv == TypeOK /\ SlotsHeld /\ CloudHeld /\ WithinCaps /\ MainHeld

LEMMA Sizes ==
  /\ CloudSlots \in Nat /\ CloudSlots > 0 /\ MaxParallel \in Nat /\ MaxParallel > 0
  /\ RunCap \in Nat /\ LocalCap \in Nat
  /\ \A b \in Backends : Slots[b] \in Nat /\ Slots[b] > 0
  /\ PickingCoder \in Nat /\ PickingCoder <= Ind(main.at # "free")
PROOF
  BY LeasesAssumption DEF PickingCoder, Ind

\* Sets of jobs counted by the caps are jobs, or jobs in the cloud.
LEMMA Parts ==
  ASSUME TypeOK
  PROVE  /\ Cardinality(CloudUnwritten) <= Cardinality(InCloud)
         /\ Cardinality(LocalUnwritten) <= Cardinality(Jobs)
         /\ Cardinality(InCloud) \in Nat /\ Cardinality(Jobs) \in Nat
         /\ Cardinality(CloudUnwritten) \in Nat /\ Cardinality(LocalUnwritten) \in Nat
PROOF
  <1>1. IsFiniteSet(InCloud) /\ IsFiniteSet(Jobs)
    BY LeasesAssumption, FS_Subset DEF InCloud, Jobs
  <1>2. CloudUnwritten \in SUBSET InCloud
    BY DEF CloudUnwritten, InCloud
  <1>3. LocalUnwritten \in SUBSET Jobs
    BY DEF LocalUnwritten, Jobs, Active
  <1> QED BY <1>1, <1>2, <1>3, FS_Subset, FS_CardinalityType

LEMMA InitInv == Init => IInv
PROOF
  <1> SUFFICES ASSUME Init PROVE IInv
    OBVIOUS
  <1>1. TypeOK
    BY InitTypes
  <1>2. /\ NoJob.at = "none" /\ NoJob.mode = ""
        /\ NoJob.lease = NoBackend /\ NoJob.second = NoBackend
    BY DEF NoJob
  <1>3. \A t \in Tasks : job[t].at = "none" /\ job[t].mode = "" /\ job[t].lease = NoBackend /\ job[t].second = NoBackend
    BY <1>2 DEF Init
  <1>4. Jobs = {} /\ InCloud = {} /\ \A b \in Backends : Holders(b) = {}
    BY <1>3, LeasesAssumption DEF Jobs, Active, InCloud, Holders
  <1>5. CloudUnwritten = {} /\ LocalUnwritten = {}
    BY <1>3 DEF CloudUnwritten, LocalUnwritten
  <1>6. main.at = "free" /\ inflight = 0 /\ runs = 0 /\ localRuns = 0 /\ \A b \in Backends : busy[b] = 0
    BY DEF Init
  <1>7. SlotsHeld /\ CloudHeld
    BY <1>4, <1>6, FS_EmptySet, Sizes DEF SlotsHeld, CloudHeld
  <1>8. WithinCaps /\ MainHeld
    BY <1>4, <1>5, <1>6, FS_EmptySet, Sizes DEF WithinCaps, MainHeld, PickingCoder, Ind
  <1> QED BY <1>1, <1>7, <1>8 DEF IInv

\* A worker's step that takes and writes nothing: no run it was to write is new.
LEMMA QuietWorker ==
  ASSUME TypeOK, NEW t \in Tasks, Worker(t), ~Record(t), ~GiveBack(t), ~FallbackLists(t),
         ~ \E b \in Backends : FallbackTakes(t, b)
  PROVE  /\ UNCHANGED <<busy, runs, localRuns>> /\ job'[t].second = job[t].second
         /\ t \in CloudUnwritten' => t \in CloudUnwritten
         /\ t \in LocalUnwritten' => t \in LocalUnwritten
PROOF
  <1>1. /\ job \in [Tasks -> Job] /\ job' \in [Tasks -> Job] /\ job'[t].mode = job[t].mode /\ job'[t].lease = job[t].lease
    BY WorkerKeeps DEF TypeOK
  <1> DEFINE Still == UNCHANGED <<busy, runs, localRuns>> /\ job'[t].second = job[t].second
  <1>2. ASSUME job'[t].second = job[t].second, job'[t].at \in {"end", "fallback", "finally"}
        PROVE  t \notin CloudUnwritten' /\ t \notin LocalUnwritten'
    BY <1>2 DEF CloudUnwritten, LocalUnwritten
  <1>3. ASSUME job'[t].second = job[t].second  PROVE Local(t)' <=> Local(t)
    BY <1>1, <1>3 DEF Local, Uses
  <1>4. Local(t) <=> (job[t].mode = "local" \/ job[t].second # NoBackend)
    BY DEF TypeOK, LeaseOK, Local, Uses
  <1>5. CASE NoSession(t)
    <2>1. Still /\ job'[t].at = "end"
      BY <1>1, <1>5 DEF NoSession, Goes
    <2> QED BY <1>2, <2>1
  <1>6. CASE NoLocalSession(t)
    <2>1. Still /\ job'[t].at \in {"end", "finally"}
      BY <1>1, <1>6 DEF NoLocalSession, Goes
    <2> QED BY <1>2, <2>1
  <1>7. CASE Cleared(t)
    <2>1. Still /\ job[t].at = "start" /\ job'[t].at = "ready" /\ job[t].mode = "local"
      BY <1>1, <1>7 DEF Cleared, Goes
    <2> QED BY <1>1, <1>3, <1>4, <2>1 DEF CloudUnwritten, LocalUnwritten
  <1>8. CASE StartSession(t)
    <2>1. Still /\ job[t].at = (IF Local(t) THEN "ready" ELSE "start") /\ job'[t].at = "session"
      BY <1>1, <1>8 DEF StartSession, Goes
    <2> QED BY <1>1, <1>3, <2>1 DEF CloudUnwritten, LocalUnwritten
  <1>9. CASE \/ \E how \in {"ok", "error", "limit"} : SessionExits(t, how)
             \/ SessionTimesOut(t) \/ SessionKilled(t) \/ SessionAborted(t)
    <2>1. Running(t) /\ \E how \in {"ok", "error", "limit", "stopped", "aborted"} : Ended(t, how)
      BY <1>9 DEF SessionExits, SessionTimesOut, SessionKilled, SessionAborted
    <2>2. Still /\ job[t].at = "session" /\ job'[t].at = "stopped"
      BY <1>1, <2>1 DEF Ended, Running
    <2> QED BY <1>1, <1>3, <2>2 DEF CloudUnwritten, LocalUnwritten
  <1>10. CASE BlockCloud(t)
    <2>1. Still /\ job'[t].at = "fallback"
      BY <1>1, <1>10 DEF BlockCloud, Goes
    <2> QED BY <1>2, <2>1
  <1>11. CASE NoFallback(t)
    <2>1. Still /\ job'[t].at = "end"
      BY <1>1, <1>11 DEF NoFallback
    <2> QED BY <1>2, <2>1
  <1>12. CASE ReviewEnds(t)
    <2>1. Still /\ job'[t].at = "end"
      BY <1>1, <1>12 DEF ReviewEnds, Goes
    <2> QED BY <1>2, <2>1
  <1> QED
    BY <1>5, <1>6, <1>7, <1>8, <1>9, <1>10, <1>11, <1>12 DEF Worker

\* The slots after a worker's step.
LEMMA WorkerSlots ==
  ASSUME IInv, NEW t \in Tasks, Worker(t)
  PROVE  SlotsHeld'
PROOF
  <1>1. /\ job \in [Tasks -> Job] /\ busy \in [Backends -> Nat] /\ LeaseOK(t)
        /\ \A b \in Backends : busy[b] = Cardinality(Holders(b)) /\ busy[b] <= Slots[b]
    BY DEF IInv, TypeOK, SlotsHeld
  <1>2. TypeOK
    BY DEF IInv
  <1>3. /\ job'[t].lease = job[t].lease
        /\ \A u \in Tasks \ {t} : job'[u] = job[u]
    BY <1>2, WorkerKeeps
  <1>4. \A b \in Backends :
          /\ Cardinality(Holders(b)) \in Nat /\ Cardinality(Holders(b)') \in Nat
          /\ Cardinality(Holders(b)') + Ind(t \in Holders(b)) = Cardinality(Holders(b)) + Ind(t \in Holders(b)')
    BY <1>3, Counts
  <1>5. \A b \in Backends : /\ t \in Holders(b) <=> job[t].lease = b \/ job[t].second = b
                            /\ t \in Holders(b)' <=> job[t].lease = b \/ job'[t].second = b
    BY <1>3 DEF Holders
  <1>6. CASE UNCHANGED busy /\ job'[t].second = job[t].second
    BY <1>1, <1>4, <1>5, <1>6 DEF SlotsHeld, Ind
  <1>7. ASSUME NEW c \in Backends, FallbackTakes(t, c)  PROVE SlotsHeld'
    <2>1. job[t].at = "take" /\ job'[t].second = c /\ busy[c] < Slots[c] /\ busy' = Taken(c)
      BY <1>1, <1>7 DEF FallbackTakes, FreeOnes
    <2>2. job[t].second = NoBackend /\ job[t].lease = NoBackend
      BY <1>1, <2>1 DEF LeaseOK, SecondAt
    <2>3. \A b \in Backends : busy'[b] = busy[b] + Ind(b = c)
      BY <1>1, <2>1, Slot DEF Ind
    <2>4. \A b \in Backends : t \notin Holders(b) /\ (t \in Holders(b)' <=> b = c)
      BY <1>5, <2>1, <2>2, LeasesAssumption
    <2>5. ASSUME NEW b \in Backends  PROVE busy'[b] = Cardinality(Holders(b)') /\ busy'[b] <= Slots[b]
      BY <1>1, <1>4, <2>1, <2>3, <2>4, Sizes DEF Ind
    <2> QED BY <2>5 DEF SlotsHeld
  <1>8. CASE GiveBack(t)
    <2>1. job[t].at = "finally" /\ job'[t].second = NoBackend /\ busy' = Released(job[t].second)
      BY <1>1, <1>8 DEF GiveBack
    <2>2. job[t].second # NoBackend => job[t].lease = NoBackend
      BY <1>1 DEF LeaseOK
    <2>3. job[t].second \in Maybe(Backends)
      BY <1>1 DEF Job
    <2>4. ASSUME NEW b \in Backends  PROVE busy'[b] = Cardinality(Holders(b)') /\ busy'[b] <= Slots[b]
      <3>1. CASE job[t].second = b
        <4>1. t \in Holders(b) /\ t \notin Holders(b)'
          BY <1>5, <2>1, <2>2, <3>1, LeasesAssumption
        <4>2. busy'[b] = IF busy[b] = 0 THEN 0 ELSE busy[b] - 1
          BY <1>1, <2>1, <2>3, <3>1, Slot, LeasesAssumption
        <4> QED BY <1>1, <1>4, <4>1, <4>2, Sizes DEF Ind
      <3>2. CASE job[t].second # b
        <4>1. t \in Holders(b) <=> t \in Holders(b)'
          BY <1>5, <2>1, <3>2, LeasesAssumption
        <4>2. busy'[b] = busy[b]
          <5>1. CASE job[t].second = NoBackend
            BY <2>1, <5>1 DEF Released
          <5>2. CASE job[t].second # NoBackend
            BY <1>1, <2>1, <2>3, <3>2, <5>2 DEF Released, Maybe
          <5> QED BY <5>1, <5>2
        <4> QED BY <1>1, <1>4, <4>1, <4>2 DEF Ind
      <3> QED BY <3>1, <3>2
    <2> QED BY <2>4 DEF SlotsHeld
  <1>9. CASE Record(t)
    <2>1. UNCHANGED busy /\ job'[t].second = job[t].second
      BY <1>1, <1>9 DEF Record, Goes
    <2> QED BY <1>6, <2>1
  <1>10. CASE FallbackLists(t)
    <2>1. UNCHANGED busy /\ job'[t].second = job[t].second
      BY <1>1, <1>10 DEF FallbackLists
    <2> QED BY <1>6, <2>1
  <1> QED BY <1>2, <1>6, <1>7, <1>8, <1>9, <1>10, QuietWorker

\* The caps after a worker's step: a run is written where one was under way, and a
\* fallback is under way only if it is below the cap.
LEMMA WorkerCaps ==
  ASSUME IInv, NEW t \in Tasks, Worker(t)
  PROVE  WithinCaps'
PROOF
  <1>1. TypeOK /\ WithinCaps /\ MainHeld
    BY DEF IInv
  <1>2. /\ job \in [Tasks -> Job] /\ LeaseOK(t) /\ runs \in Nat /\ localRuns \in Nat
    BY <1>1 DEF TypeOK
  <1>3. /\ \A u \in Tasks \ {t} : job'[u] = job[u]
        /\ job'[t].mode = job[t].mode /\ job'[t].lease = job[t].lease
        /\ job[t].at # "none" /\ job'[t].at # "none" /\ main' = main
    BY <1>1, WorkerKeeps
  <1>4. TypeOK'
    BY <1>1, WorkerTypes
  <1>5. PickingCoder' = PickingCoder
    BY <1>3 DEF PickingCoder
  <1> DEFINE cloud == Cardinality(CloudUnwritten)
             local == Cardinality(LocalUnwritten)
  <1>6. /\ cloud \in Nat /\ cloud' \in Nat /\ local \in Nat /\ local' \in Nat
        /\ cloud' + Ind(t \in CloudUnwritten) = cloud + Ind(t \in CloudUnwritten')
        /\ local' + Ind(t \in LocalUnwritten) = local + Ind(t \in LocalUnwritten')
    BY <1>3, Counts
  <1>7. ASSUME runs' + Ind(t \in CloudUnwritten') <= runs + Ind(t \in CloudUnwritten),
               localRuns' + Ind(t \in LocalUnwritten') <= localRuns + Ind(t \in LocalUnwritten),
               runs' \in Nat, localRuns' \in Nat
        PROVE  WithinCaps'
    <2> DEFINE x == Ind(t \in CloudUnwritten)
               y == Ind(t \in CloudUnwritten')
               v == Ind(t \in LocalUnwritten)
               w == Ind(t \in LocalUnwritten')
    <2>0. x \in Nat /\ y \in Nat /\ v \in Nat /\ w \in Nat
      BY DEF Ind
    <2>a. runs' + y <= runs + x /\ cloud' + x = cloud + y
      BY <1>6, <1>7
    <2>b. localRuns' + w <= localRuns + v /\ local' + v = local + w
      BY <1>6, <1>7
    <2> HIDE DEF x, y, v, w
    <2>1. runs' + cloud' <= runs + cloud
      BY <1>2, <1>6, <1>7, <2>0, <2>a, Balance
    <2>2. localRuns' + local' <= localRuns + local
      BY <1>2, <1>6, <1>7, <2>0, <2>b, Balance
    <2>3. RunCap > 0 => runs' + cloud' < RunCap + CloudSlots
      BY <1>1, <1>2, <1>6, <1>7, <2>1, Sizes DEF WithinCaps
    <2>4. LocalCap > 0 => localRuns' + local' + PickingCoder' < LocalCap + MaxParallel
      BY <1>1, <1>2, <1>5, <1>6, <1>7, <2>2, Sizes DEF WithinCaps
    <2> QED BY <2>3, <2>4 DEF WithinCaps
  <1>8. Local(t) <=> (job[t].mode = "local" \/ job[t].second # NoBackend)
    BY <1>2 DEF LeaseOK, Local, Uses
  <1>9. job[t].mode \in {"cloud", "local"}
    BY <1>2, <1>3 DEF Job, LeaseOK, Active
  <1>10. CASE Record(t)
    <2>1. /\ job[t].at = "stopped" /\ job'[t].at \in {"limited", "finally", "end"}
          /\ runs' = runs + Ind(~Local(t)) /\ localRuns' = localRuns + Ind(Local(t))
      BY <1>2, <1>10 DEF Record, Goes, AfterRecord, Ind
    <2>2. t \notin CloudUnwritten' /\ t \notin LocalUnwritten'
      BY <2>1 DEF CloudUnwritten, LocalUnwritten
    <2>3. /\ ~Local(t) => t \in CloudUnwritten
          /\ Local(t) => t \in LocalUnwritten
      BY <1>8, <1>9, <2>1 DEF CloudUnwritten, LocalUnwritten
    <2> QED BY <1>2, <1>7, <2>1, <2>2, <2>3 DEF Ind
  <1>11. CASE GiveBack(t)
    <2>1. job'[t].at = "end" /\ runs' = runs /\ localRuns' = localRuns
      BY <1>2, <1>11 DEF GiveBack
    <2>2. t \notin CloudUnwritten' /\ t \notin LocalUnwritten'
      BY <2>1 DEF CloudUnwritten, LocalUnwritten
    <2> QED BY <1>2, <1>7, <2>1, <2>2 DEF Ind
  <1>12. ASSUME NEW b \in Backends, FallbackTakes(t, b)  PROVE WithinCaps'
    <2>1. job[t].at = "take" /\ job'[t].at = "ready" /\ runs' = runs /\ localRuns' = localRuns
      BY <1>2, <1>12 DEF FallbackTakes
    <2>2. t \notin CloudUnwritten' /\ t \in LocalUnwritten
      BY <2>1 DEF CloudUnwritten, LocalUnwritten
    <2> QED BY <1>2, <1>7, <2>1, <2>2 DEF Ind
  <1>13. CASE FallbackLists(t)
    <2>1. /\ job[t].at = "fallback" /\ job'[t].at = "take" /\ localRuns < LocalCap
          /\ runs' = runs /\ localRuns' = localRuns
      BY <1>2, <1>13 DEF FallbackLists
    <2>2. t \notin CloudUnwritten'
      BY <2>1 DEF CloudUnwritten
    <2>3. cloud' <= cloud
      BY <1>6, <2>2 DEF Ind
    <2>4. RunCap > 0 => runs' + cloud' < RunCap + CloudSlots
      BY <1>1, <1>2, <1>6, <2>1, <2>3, Sizes DEF WithinCaps
    <2>5. Cardinality(Jobs)' = Cardinality(Jobs)
      BY <1>3, Counts DEF Jobs, Active, Ind
    <2>6. local' <= Cardinality(Jobs)' /\ Cardinality(Jobs) \in Nat
      <3>1. IsFiniteSet(Jobs')
        BY LeasesAssumption, FS_Subset DEF Jobs
      <3>2. LocalUnwritten' \in SUBSET Jobs'
        BY DEF LocalUnwritten, Jobs, Active
      <3> QED BY <1>1, <3>1, <3>2, FS_Subset, Parts
    <2>7. Cardinality(Jobs) + PickingCoder <= MaxParallel
      BY <1>1, <2>6, Sizes DEF MainHeld, Ind
    <2>8. localRuns' + local' + PickingCoder' < LocalCap + MaxParallel
      BY <1>2, <1>5, <1>6, <2>1, <2>5, <2>6, <2>7, Sizes
    <2> QED BY <2>4, <2>8 DEF WithinCaps
  <1>14. CASE /\ ~Record(t) /\ ~GiveBack(t) /\ ~FallbackLists(t)
              /\ ~ \E b \in Backends : FallbackTakes(t, b)
    BY <1>1, <1>2, <1>7, <1>14, QuietWorker DEF Ind
  <1> QED BY <1>10, <1>11, <1>12, <1>13, <1>14

LEMMA WorkerInv ==
  ASSUME IInv, NEW t \in Tasks, Worker(t)
  PROVE  IInv'
PROOF
  <1>1. TypeOK /\ CloudHeld /\ MainHeld /\ main.task \in Tasks
    BY DEF IInv, TypeOK, Main
  <1>2. /\ \A u \in Tasks \ {t} : job'[u] = job[u]
        /\ job'[t].mode = job[t].mode /\ job[t].at # "none" /\ job'[t].at # "none"
        /\ main' = main /\ inflight' = inflight
    BY <1>1, WorkerKeeps
  <1>3. Cardinality(Jobs)' = Cardinality(Jobs) /\ Cardinality(InCloud)' = Cardinality(InCloud)
    BY <1>2, Counts DEF Jobs, Active, InCloud, Ind
  <1>4. CloudHeld'
    BY <1>1, <1>2, <1>3 DEF CloudHeld
  <1>5. MainHeld'
    BY <1>1, <1>2, <1>3 DEF MainHeld, Active
  <1> QED BY <1>1, <1>4, <1>5, WorkerTypes, WorkerSlots, WorkerCaps DEF IInv

-----------------------------------------------------------------------------
(* The main thread and the surroundings *)

LEMMA SameJobs ==
  ASSUME UNCHANGED job
  PROVE  /\ Jobs' = Jobs /\ InCloud' = InCloud
         /\ CloudUnwritten' = CloudUnwritten /\ LocalUnwritten' = LocalUnwritten
         /\ \A b \in Backends : Holders(b)' = Holders(b)
PROOF
  BY DEF Jobs, Active, InCloud, CloudUnwritten, LocalUnwritten, Local, Uses, Holders

\* A task without a job holds nothing.
LEMMA Idle ==
  ASSUME TypeOK, NEW t \in Tasks, ~Active(t)
  PROVE  /\ job[t].mode = "" /\ job[t].lease = NoBackend /\ job[t].second = NoBackend
         /\ t \notin Jobs /\ t \notin InCloud /\ t \notin CloudUnwritten /\ t \notin LocalUnwritten
         /\ \A b \in Backends : t \notin Holders(b)
PROOF
  <1>1. LeaseOK(t) /\ job[t].at = "none" /\ job \in [Tasks -> Job]
    BY DEF TypeOK, Active
  <1>2. job[t].mode = "" /\ job[t].lease = NoBackend /\ job[t].second = NoBackend
    BY <1>1 DEF LeaseOK, Active, Job
  <1>3. t \notin Jobs /\ t \notin InCloud /\ t \notin CloudUnwritten
    BY <1>1, <1>2 DEF Jobs, Active, InCloud, CloudUnwritten
  <1>4. t \notin LocalUnwritten
    BY <1>1 DEF LocalUnwritten
  <1>5. \A b \in Backends : t \notin Holders(b)
    BY <1>2, LeasesAssumption DEF Holders
  <1> QED BY <1>2, <1>3, <1>4, <1>5

\* A cloud slot is given below cloud_slots and below the daily cap.
LEMMA PrepareCloudInv ==
  ASSUME IInv, NEW t \in Tasks, PrepareCloud(t)
  PROVE  SlotsHeld' /\ CloudHeld' /\ WithinCaps' /\ MainHeld'
PROOF
  <1>1. /\ TypeOK /\ SlotsHeld /\ CloudHeld /\ WithinCaps /\ MainHeld
        /\ runs \in Nat /\ localRuns \in Nat /\ inflight \in Nat
    BY DEF IInv, TypeOK
  <1>2. /\ ~Active(t) /\ main.at = "free" /\ Cardinality(Jobs) < MaxParallel
        /\ runs < RunCap /\ inflight < CloudSlots /\ inflight' = inflight + 1
        /\ UNCHANGED <<main, busy, runs, localRuns>>
    BY DEF PrepareCloud, MayDispatch, CloudFree, CloudOK
  <1>3. /\ job' \in [Tasks -> Job] /\ job'[t] = [NoJob EXCEPT !.at = "start", !.mode = "cloud"]
        /\ \A u \in Tasks \ {t} : job'[u] = job[u]
    BY <1>1, OneJob, NewJob DEF PrepareCloud
  <1>4. /\ job'[t].at = "start" /\ job'[t].mode = "cloud"
        /\ job'[t].lease = NoBackend /\ job'[t].second = NoBackend
    BY <1>3 DEF NoJob
  <1>5. /\ t \notin Jobs /\ t \notin InCloud /\ t \notin CloudUnwritten /\ t \notin LocalUnwritten
        /\ \A b \in Backends : t \notin Holders(b)
    BY <1>1, <1>2, Idle
  <1>6. t \in Jobs' /\ t \in InCloud' /\ t \in CloudUnwritten' /\ t \notin LocalUnwritten'
    BY <1>4 DEF Jobs, Active, InCloud, CloudUnwritten, LocalUnwritten, Local, Uses
  <1>7. \A b \in Backends : t \notin Holders(b)'
    BY <1>4, LeasesAssumption DEF Holders
  <1>8. /\ Cardinality(Jobs)' = Cardinality(Jobs) + 1
        /\ Cardinality(InCloud)' = Cardinality(InCloud) + 1
        /\ Cardinality(CloudUnwritten)' = Cardinality(CloudUnwritten) + 1
        /\ Cardinality(LocalUnwritten)' = Cardinality(LocalUnwritten)
        /\ \A b \in Backends : Cardinality(Holders(b))' = Cardinality(Holders(b))
    BY <1>3, <1>5, <1>6, <1>7, Counts DEF Ind
  <1>9. SlotsHeld'
    BY <1>1, <1>2, <1>8 DEF SlotsHeld
  <1>10. CloudHeld'
    BY <1>1, <1>2, <1>8, Sizes DEF CloudHeld
  <1>11. WithinCaps'
    <2>1. Cardinality(CloudUnwritten) + 1 <= CloudSlots
      BY <1>1, <1>2, Parts, Sizes DEF CloudHeld
    <2>2. RunCap > 0 => runs' + Cardinality(CloudUnwritten)' < RunCap + CloudSlots
      BY <1>1, <1>2, <1>8, <2>1, Parts, Sizes
    <2>3. PickingCoder' = PickingCoder
      BY <1>2 DEF PickingCoder
    <2> QED BY <1>1, <1>2, <1>8, <2>2, <2>3 DEF WithinCaps
  <1>12. MainHeld'
    BY <1>1, <1>2, <1>8, Parts, Sizes DEF MainHeld, Ind
  <1> QED BY <1>9, <1>10, <1>11, <1>12

\* The main thread takes its place before it lists backends.
LEMMA PrepareInv ==
  ASSUME IInv, NEW t \in Tasks, PrepareLocal(t) \/ PrepareReview(t)
  PROVE  SlotsHeld' /\ CloudHeld' /\ WithinCaps' /\ MainHeld'
PROOF
  <1>1. /\ TypeOK /\ SlotsHeld /\ CloudHeld /\ WithinCaps /\ MainHeld
        /\ localRuns \in Nat
    BY DEF IInv, TypeOK
  <1>2. /\ ~Active(t) /\ main.at = "free" /\ Cardinality(Jobs) < MaxParallel
        /\ main'.at \in {"code", "review"} /\ main'.task = t
        /\ main'.at = "code" => localRuns < LocalCap
        /\ UNCHANGED <<job, busy, inflight, runs, localRuns>>
    BY DEF PrepareLocal, PrepareReview, MayDispatch
  <1>3. /\ Jobs' = Jobs /\ InCloud' = InCloud
        /\ CloudUnwritten' = CloudUnwritten /\ LocalUnwritten' = LocalUnwritten
        /\ \A b \in Backends : Holders(b)' = Holders(b)
    BY <1>2, SameJobs
  <1>4. SlotsHeld' /\ CloudHeld'
    BY <1>1, <1>2, <1>3 DEF SlotsHeld, CloudHeld
  <1>5. MainHeld'
    BY <1>1, <1>2, <1>3, Parts, Sizes DEF MainHeld, Active, Ind
  <1>6. WithinCaps'
    <2>1. PickingCoder = 0 /\ PickingCoder' = Ind(main'.at = "code")
      BY <1>2 DEF PickingCoder, Ind
    <2>2. LocalCap > 0 => localRuns' + Cardinality(LocalUnwritten)' + PickingCoder' < LocalCap + MaxParallel
      <3>1. CASE main'.at = "code"
        BY <1>1, <1>2, <1>3, <2>1, <3>1, Parts, Sizes DEF Ind
      <3>2. CASE main'.at # "code"
        BY <1>1, <1>2, <1>3, <2>1, <3>2 DEF WithinCaps, Ind
      <3> QED BY <3>1, <3>2
    <2> QED BY <1>1, <1>2, <1>3, <2>2 DEF WithinCaps
  <1> QED BY <1>4, <1>5, <1>6

\* It takes a slot under the lock.
LEMMA MainTakesInv ==
  ASSUME IInv, NEW b \in Backends, NEW t \in Tasks, main.task = t, MainTakes(b)
  PROVE  SlotsHeld' /\ CloudHeld' /\ WithinCaps' /\ MainHeld'
PROOF
  <1> DEFINE at == IF main.at = "review" THEN "review" ELSE "start"
             j == [NoJob EXCEPT !.at = at, !.mode = "local", !.lease = b]
  <1>1. /\ TypeOK /\ SlotsHeld /\ CloudHeld /\ WithinCaps /\ MainHeld
        /\ localRuns \in Nat /\ busy \in [Backends -> Nat] /\ main \in Main
    BY DEF IInv, TypeOK
  <1>2. /\ main.at # "free" /\ busy[b] < Slots[b] /\ busy' = Taken(b)
        /\ job' = [job EXCEPT ![t] = j] /\ main'.at = "free"
        /\ UNCHANGED <<inflight, runs, localRuns>>
    BY <1>1 DEF MainTakes, FreeOnes, Main
  <1>3. j \in Job /\ j.at = at /\ j.mode = "local" /\ j.lease = b /\ j.second = NoBackend
    BY NewJob DEF NoJob
  <1> HIDE DEF j
  <1>4. job'[t] = j /\ \A u \in Tasks \ {t} : job'[u] = job[u]
    BY <1>1, <1>2, <1>3, OneJob
  <1>5. /\ t \notin Jobs /\ t \notin InCloud /\ t \notin CloudUnwritten /\ t \notin LocalUnwritten
        /\ \A c \in Backends : t \notin Holders(c)
    BY <1>1, <1>2, Idle DEF MainHeld
  <1>6. /\ t \in Jobs' /\ t \notin InCloud' /\ t \notin CloudUnwritten'
        /\ t \in LocalUnwritten' => main.at # "review"
    BY <1>1, <1>3, <1>4 DEF Jobs, Active, InCloud, CloudUnwritten, LocalUnwritten, Local, Uses
  <1>7. \A c \in Backends : t \in Holders(c)' <=> c = b
    BY <1>1, <1>3, <1>4, LeasesAssumption DEF Holders
  <1>8. /\ Cardinality(Jobs)' = Cardinality(Jobs) + 1
        /\ Cardinality(InCloud)' = Cardinality(InCloud)
        /\ Cardinality(CloudUnwritten)' = Cardinality(CloudUnwritten)
        /\ Cardinality(LocalUnwritten)' = Cardinality(LocalUnwritten) + Ind(t \in LocalUnwritten')
        /\ \A c \in Backends : Cardinality(Holders(c))' = Cardinality(Holders(c)) + Ind(c = b)
    BY <1>4, <1>5, <1>6, <1>7, Counts DEF Ind
  <1>9. SlotsHeld'
    <2>1. \A c \in Backends : busy'[c] = busy[c] + Ind(c = b)
      BY <1>1, <1>2, Slot DEF Ind
    <2>2. ASSUME NEW c \in Backends  PROVE busy'[c] = Cardinality(Holders(c))' /\ busy'[c] <= Slots[c]
      BY <1>1, <1>2, <1>8, <2>1, Sizes DEF SlotsHeld, Ind
    <2> QED BY <2>2 DEF SlotsHeld
  <1>10. CloudHeld'
    BY <1>1, <1>2, <1>8 DEF CloudHeld
  <1>11. MainHeld'
    BY <1>1, <1>2, <1>8, Parts, Sizes DEF MainHeld, Ind
  <1>12. WithinCaps'
    <2>1. PickingCoder = Ind(main.at # "review") /\ PickingCoder' = 0
      BY <1>1, <1>2 DEF PickingCoder, Ind, Main
    <2>2. Cardinality(LocalUnwritten)' + PickingCoder' <= Cardinality(LocalUnwritten) + PickingCoder
      BY <1>1, <1>6, <1>8, <2>1, Parts DEF Ind
    <2>3. Cardinality(LocalUnwritten)' \in Nat
      BY <1>4, Counts
    <2>4. LocalCap > 0 => localRuns' + Cardinality(LocalUnwritten)' + PickingCoder' < LocalCap + MaxParallel
      BY <1>1, <1>2, <2>1, <2>2, <2>3, Parts, Sizes DEF WithinCaps
    <2> QED BY <1>1, <1>2, <1>8, <2>4 DEF WithinCaps
  <1> QED BY <1>9, <1>10, <1>11, <1>12

\* reap gives back what the job holds.
LEMMA ReapInv ==
  ASSUME IInv, NEW t \in Tasks, Reap(t)
  PROVE  SlotsHeld' /\ CloudHeld' /\ WithinCaps' /\ MainHeld'
PROOF
  <1>1. /\ TypeOK /\ SlotsHeld /\ CloudHeld /\ WithinCaps /\ MainHeld
        /\ runs \in Nat /\ localRuns \in Nat /\ inflight \in Nat /\ busy \in [Backends -> Nat]
        /\ job \in [Tasks -> Job] /\ LeaseOK(t)
    BY DEF IInv, TypeOK
  <1>2. /\ main.at = "free" /\ job[t].at = "end" /\ busy' = Released(job[t].lease)
        /\ inflight' = IF job[t].mode = "cloud" /\ inflight > 0 THEN inflight - 1 ELSE inflight
        /\ job' = [job EXCEPT ![t] = NoJob]
        /\ UNCHANGED <<main, runs, localRuns>>
    BY DEF Reap
  <1>3. job'[t] = NoJob /\ \A u \in Tasks \ {t} : job'[u] = job[u]
    BY <1>1, <1>2, OneJob, NewJob
  <1>4. /\ job'[t].at = "none" /\ job'[t].mode = ""
        /\ job'[t].lease = NoBackend /\ job'[t].second = NoBackend
    <2>1. /\ NoJob.at = "none" /\ NoJob.mode = ""
          /\ NoJob.lease = NoBackend /\ NoJob.second = NoBackend
      BY DEF NoJob
    <2> QED BY <1>3, <2>1
  <1>5. job[t].second = NoBackend /\ job[t].lease \in Maybe(Backends)
    BY <1>1, <1>2 DEF LeaseOK, SecondAt, Job
  <1>6. /\ t \in Jobs /\ t \notin CloudUnwritten /\ t \notin LocalUnwritten
        /\ t \in InCloud <=> job[t].mode = "cloud"
        /\ \A b \in Backends : t \in Holders(b) <=> job[t].lease = b
    BY <1>2, <1>5, LeasesAssumption DEF Jobs, Active, InCloud, CloudUnwritten, LocalUnwritten, Holders
  <1>7. /\ t \notin Jobs' /\ t \notin InCloud' /\ t \notin CloudUnwritten' /\ t \notin LocalUnwritten'
        /\ \A b \in Backends : t \notin Holders(b)'
    BY <1>4, LeasesAssumption DEF Jobs, Active, InCloud, CloudUnwritten, LocalUnwritten, Holders
  <1>8. /\ Cardinality(Jobs)' + 1 = Cardinality(Jobs) /\ Cardinality(Jobs)' \in Nat
        /\ Cardinality(InCloud)' + Ind(job[t].mode = "cloud") = Cardinality(InCloud)
        /\ Cardinality(InCloud)' \in Nat
        /\ Cardinality(CloudUnwritten)' = Cardinality(CloudUnwritten)
        /\ Cardinality(LocalUnwritten)' = Cardinality(LocalUnwritten)
        /\ \A b \in Backends : /\ Cardinality(Holders(b))' + Ind(job[t].lease = b) = Cardinality(Holders(b))
                               /\ Cardinality(Holders(b))' \in Nat
    BY <1>3, <1>6, <1>7, Counts DEF Ind
  <1>9. SlotsHeld'
    <2>1. ASSUME NEW b \in Backends  PROVE busy'[b] = Cardinality(Holders(b))' /\ busy'[b] <= Slots[b]
      <3>1. CASE job[t].lease = b
        <4>1. busy'[b] = IF busy[b] = 0 THEN 0 ELSE busy[b] - 1
          BY <1>1, <1>2, <1>5, <3>1, Slot, LeasesAssumption
        <4> QED BY <1>1, <1>8, <3>1, <4>1, Sizes DEF SlotsHeld, Ind
      <3>2. CASE job[t].lease # b
        <4>1. busy'[b] = busy[b]
          <5>1. CASE job[t].lease = NoBackend
            BY <1>2, <5>1 DEF Released
          <5>2. CASE job[t].lease # NoBackend
            BY <1>1, <1>2, <1>5, <3>2, <5>2 DEF Released, Maybe
          <5> QED BY <5>1, <5>2
        <4> QED BY <1>1, <1>8, <3>2, <4>1 DEF SlotsHeld, Ind
      <3> QED BY <3>1, <3>2
    <2> QED BY <2>1 DEF SlotsHeld
  <1>10. CloudHeld'
    BY <1>1, <1>2, <1>8, Sizes DEF CloudHeld, Ind
  <1>11. MainHeld'
    BY <1>1, <1>2, <1>8, Sizes DEF MainHeld, Ind
  <1>12. WithinCaps'
    BY <1>1, <1>2, <1>8 DEF WithinCaps, PickingCoder
  <1> QED BY <1>9, <1>10, <1>11, <1>12

\* At midnight the caps start again, with what is under way counted for the new day.
LEMMA NewDayInv ==
  ASSUME IInv, NewDay
  PROVE  SlotsHeld' /\ CloudHeld' /\ WithinCaps' /\ MainHeld'
PROOF
  <1>1. TypeOK /\ SlotsHeld /\ CloudHeld /\ MainHeld
    BY DEF IInv
  <1>2. UNCHANGED <<job, main, busy, inflight>> /\ runs' = 0 /\ localRuns' = 0
    BY DEF NewDay, loopVars
  <1>3. /\ Jobs' = Jobs /\ InCloud' = InCloud
        /\ CloudUnwritten' = CloudUnwritten /\ LocalUnwritten' = LocalUnwritten
        /\ \A b \in Backends : Holders(b)' = Holders(b)
    BY <1>2, SameJobs
  <1>4. SlotsHeld' /\ CloudHeld' /\ MainHeld'
    BY <1>1, <1>2, <1>3 DEF SlotsHeld, CloudHeld, MainHeld, Active
  <1>5. RunCap > 0 => runs' + Cardinality(CloudUnwritten)' < RunCap + CloudSlots
    BY <1>1, <1>2, <1>3, Parts, Sizes DEF CloudHeld
  <1>6. Cardinality(LocalUnwritten) + PickingCoder <= MaxParallel
    BY <1>1, Parts, Sizes DEF MainHeld, Ind
  <1>7. PickingCoder' = PickingCoder
    BY <1>2 DEF PickingCoder
  <1>8. LocalCap > 0 => localRuns' + Cardinality(LocalUnwritten)' + PickingCoder' < LocalCap + MaxParallel
    BY <1>1, <1>2, <1>3, <1>6, <1>7, Parts, Sizes
  <1> QED BY <1>4, <1>5, <1>8 DEF WithinCaps

\* When the loop dies nothing is held: the sessions died with it.
LEMMA CrashInv ==
  ASSUME IInv, Crash
  PROVE  SlotsHeld' /\ CloudHeld' /\ WithinCaps' /\ MainHeld'
PROOF
  <1>1. TypeOK /\ WithinCaps /\ runs \in Nat /\ localRuns \in Nat /\ main \in Main
    BY DEF IInv, TypeOK
  <1>2. /\ NoJob.at = "none" /\ NoJob.mode = ""
        /\ NoJob.lease = NoBackend /\ NoJob.second = NoBackend
    BY DEF NoJob
  <1>3. \A t \in Tasks : job'[t].at = "none" /\ job'[t].mode = "" /\ job'[t].lease = NoBackend /\ job'[t].second = NoBackend
    BY <1>2 DEF Crash
  <1>4. Jobs' = {} /\ InCloud' = {} /\ \A b \in Backends : Holders(b)' = {}
    BY <1>3, LeasesAssumption DEF Jobs, Active, InCloud, Holders
  <1>5. CloudUnwritten' = {} /\ LocalUnwritten' = {}
    BY <1>3 DEF CloudUnwritten, LocalUnwritten
  <1>6. /\ main'.at = "free" /\ inflight' = 0 /\ runs' = runs /\ localRuns' = localRuns
        /\ \A b \in Backends : busy'[b] = 0
    BY <1>1 DEF Crash, Main
  <1>7. SlotsHeld' /\ CloudHeld'
    BY <1>4, <1>6, FS_EmptySet, Sizes DEF SlotsHeld, CloudHeld
  <1>8. PickingCoder' = 0
    BY <1>6 DEF PickingCoder
  <1>9. WithinCaps'
    BY <1>1, <1>5, <1>6, <1>8, FS_EmptySet, Parts, Sizes DEF WithinCaps
  <1>10. MainHeld'
    BY <1>4, <1>6, FS_EmptySet, Sizes DEF MainHeld, Ind
  <1> QED BY <1>7, <1>9, <1>10

\* What changes no job and no counter.
LEMMA StillInv ==
  ASSUME IInv, UNCHANGED <<job, busy, inflight, runs, localRuns>>,
         UNCHANGED main \/ (main'.at = "free" /\ main'.task = main.task)
  PROVE  SlotsHeld' /\ CloudHeld' /\ WithinCaps' /\ MainHeld'
PROOF
  <1>1. /\ TypeOK /\ SlotsHeld /\ CloudHeld /\ WithinCaps /\ MainHeld
        /\ runs \in Nat /\ localRuns \in Nat
    BY DEF IInv, TypeOK
  <1>2. /\ Jobs' = Jobs /\ InCloud' = InCloud
        /\ CloudUnwritten' = CloudUnwritten /\ LocalUnwritten' = LocalUnwritten
        /\ \A b \in Backends : Holders(b)' = Holders(b)
    BY SameJobs
  <1>3. SlotsHeld' /\ CloudHeld'
    BY <1>1, <1>2 DEF SlotsHeld, CloudHeld
  <1>4. MainHeld'
    BY <1>1, <1>2, Parts, Sizes DEF MainHeld, Active, Ind
  <1>5. PickingCoder' \in Nat /\ PickingCoder' <= PickingCoder
    BY DEF PickingCoder
  <1>6. WithinCaps'
    BY <1>1, <1>2, <1>5, Parts, Sizes DEF WithinCaps
  <1> QED BY <1>3, <1>4, <1>6

LEMMA StepInv == IInv /\ [Next]_vars => IInv'
PROOF
  <1> SUFFICES ASSUME IInv, [Next]_vars PROVE IInv'
    OBVIOUS
  <1>1. TypeOK /\ TypeOK' /\ main \in Main /\ main.task \in Tasks
    BY StepTypes DEF IInv, TypeOK, Main
  <1> DEFINE Kept == SlotsHeld' /\ CloudHeld' /\ WithinCaps' /\ MainHeld'
  <1>2. Kept => IInv'
    BY <1>1 DEF IInv
  <1>3. CASE UNCHANGED vars
    <2>1. UNCHANGED <<job, main, busy, inflight, runs, localRuns>>
      BY <1>3 DEF vars
    <2> QED BY <1>2, <2>1, StillInv
  <1>4. CASE \E t \in Tasks : Worker(t)
    BY <1>4, WorkerInv
  <1>5. CASE Prepare
    BY <1>2, <1>5, PrepareCloudInv, PrepareInv DEF Prepare
  <1>6. CASE \E b \in Backends : MainTakes(b)
    BY <1>1, <1>2, <1>6, MainTakesInv
  <1>7. CASE MainFindsNone
    <2>1. UNCHANGED <<job, busy, inflight, runs, localRuns>> /\ main'.at = "free" /\ main'.task = main.task
      BY <1>1, <1>7 DEF MainFindsNone, Main
    <2> QED BY <1>2, <2>1, StillInv
  <1>8. CASE \E t \in Tasks : Reap(t)
    BY <1>2, <1>8, ReapInv
  <1>9. CASE NewDay
    BY <1>2, <1>9, NewDayInv
  <1>10. CASE Crash
    BY <1>2, <1>10, CrashInv
  <1>11. CASE (\E b \in Backends : Game(b)) \/ BlockEnds \/ KillSwitch
    <2>1. UNCHANGED <<job, main, busy, inflight, runs, localRuns>>
      BY <1>11 DEF Game, BlockEnds, KillSwitch, loopVars
    <2> QED BY <1>2, <2>1, StillInv
  <1> QED
    BY <1>3, <1>4, <1>5, <1>6, <1>7, <1>8, <1>9, <1>10, <1>11 DEF Next, Picks, Environment

LEMMA Invariant == Spec => []IInv
PROOF
  <1> QED BY InitInv, StepInv, PTL DEF Spec

-----------------------------------------------------------------------------
(* Theorems *)

\* The pool's counters are the leases out, and no backend is overbooked, for any
\* number of workers, backends and slots and with a loop that dies at any moment
\* (Pool.acquire and release, reap, the finally of run_cloud).
THEOREM SlotsAreHeld == Spec => []SlotsHeld
PROOF
  <1>1. IInv => SlotsHeld
    BY DEF IInv
  <1> QED BY <1>1, Invariant, PTL

\* cloud_inflight is the number of jobs given a cloud slot, up to cloud_slots
\* (prepare and reap).
THEOREM CloudIsHeld == Spec => []CloudHeld
PROOF
  <1>1. IInv => CloudHeld
    BY DEF IInv
  <1> QED BY <1>1, Invariant, PTL

\* The daily caps, checked before a session and written after it, are exceeded by
\* less than cloud_slots or max_parallel runs (Budget.check and record).
THEOREM CapsKept == Spec => []WithinCaps
PROOF
  <1>1. IInv => WithinCaps
    BY DEF IInv
  <1> QED BY <1>1, Invariant, PTL
=============================================================================
