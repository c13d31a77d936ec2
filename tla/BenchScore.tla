----------------------------- MODULE BenchScore -----------------------------
(***************************************************************************)
(* How a task of the benchmark is scored (score_task in bench.py).         *)
(*                                                                         *)
(* A call is [call, valid, value]: what was called, whether the task       *)
(* offers it with such arguments, and what the tool returned.  A task is   *)
(* [expect, forbid, texts, from, skip, tools]: an expected call is the set *)
(* of the calls that match it, `texts` what the answer must contain and    *)
(* `from` the tools whose first result it must contain.  An answer is the  *)
(* set of what it contains.  Scores are kept as the counts they are the    *)
(* quotients of.                                                           *)
(***************************************************************************)
EXTENDS Integers, Sequences, FiniteSets, FiniteSetsExt, SequencesExt

CONSTANT Tool(_) \* the tool of a call

NoAnswer == {"no answer"}

\* The weights of a suite are positive and their sum is 1.
Whole(s) == s.matched = s.expected /\ s.valid = s.total /\ (s.skipped \/ s.passed = s.checks)

\* The valid ones of the calls, in order.
ValidCalls(calls) ==
  LET kept[k \in 0..Len(calls)] ==
        IF k = 0 THEN <<>>
        ELSE IF calls[k].valid THEN Append(kept[k - 1], calls[k]) ELSE kept[k - 1]
  IN kept[Len(calls)]

\* args_match: of a valid call, what it must be called with.
Matches(exp, c) == c.call \in exp

\* Each expected call, in order, takes the first valid call that it matches and that is left.
Matched(expect, valid) ==
  LET used[k \in 0..Len(expect)] ==
        IF k = 0 THEN {}
        ELSE LET free == {i \in DOMAIN valid \ used[k - 1] : Matches(expect[k], valid[i])}
             IN IF free = {} THEN used[k - 1] ELSE used[k - 1] \cup {Min(free)}
  IN Cardinality(used[Len(expect)])

\* What a tool returned first in this task; none if it was never called.
FirstResult(calls, t) ==
  LET of == {i \in DOMAIN calls : calls[i].valid /\ Tool(calls[i].call) = t}
  IN IF of = {} THEN {} ELSE {calls[Min(of)].value}

\* answer_checks: how many the answer passes.
Passed(task, calls, answer) ==
  Cardinality(task.texts \cap answer)
    + Cardinality({t \in task.from : FirstResult(calls, t) # {} /\ FirstResult(calls, t) \subseteq answer})

\* The first reason that applies.
Reason(score, failure, answered) ==
  IF failure # "none" THEN failure
  ELSE IF ~answered THEN "no_answer"
  ELSE IF score.valid < score.total THEN "bad_tool_call"
  ELSE IF ~score.skipped /\ score.passed < score.checks THEN "wrong_answer"
  ELSE "none"

ScoreTask(task, live, calls, answer, failure) ==
  LET valid == ValidCalls(calls)
      barred == task.expect = <<>> /\ task.forbid /\ calls # <<>>
      checks == Cardinality(task.texts) + Cardinality(task.from)
      counts == [matched |-> IF barred THEN 0 ELSE Matched(task.expect, valid),
                 expected |-> IF barred THEN 1 ELSE Len(task.expect),
                 valid |-> Len(valid), total |-> Len(calls), skipped |-> live /\ task.skip,
                 passed |-> IF answer = NoAnswer THEN 0 ELSE Passed(task, calls, answer),
                 checks |-> IF answer = NoAnswer THEN 1 ELSE checks]
  IN [counts |-> counts, success |-> Whole(counts), error |-> Reason(counts, failure, answer # NoAnswer)]
=============================================================================
