------------------------------ MODULE PlanRules ------------------------------
(***************************************************************************)
(* The rules of planner.py that no model can override: which steps a plan  *)
(* has and in which order, whatever steps the planning model answered.  A  *)
(* step is its kind here; its title, prompt and tool are left out, and so  *)
(* are the model's entries that are dropped for their form.  "local" also  *)
(* stands for game_read: both run a query that changes nothing.            *)
(*                                                                         *)
(* A selection from a sequence is written with the set of the positions it *)
(* keeps, and the tests woven into a plan with the place each step gets:   *)
(* what a fold computes the provers could not reason about.                *)
(***************************************************************************)
EXTENDS Naturals, Sequences, FiniteSets, SequencesExt

\* The elements of s at the positions in at, in their order.
Nth(at, n) == CHOOSE i \in at : Cardinality({j \in at : j <= i}) = n
Pick(s, at) == [n \in 1..Cardinality(at) |-> s[Nth(at, n)]]

PRTail == <<"pr", "review", "ci">>
TailKinds == {"pr", "review", "ci"}

FallbackPlan(hasRepo) == IF hasRepo THEN <<"code", "test">> \o PRTail ELSE <<"local">>

\* What a model may place: never a test, a pull request, a review or a CI wait,
\* and code only where there is a repository.
Placeable(kind, hasRepo) == kind \in {"local", "game_action"} \cup (IF hasRepo THEN {"code"} ELSE {})

\* Every code step is followed by the repository's tests: a step moves back by
\* the code steps before it, and what no step takes is a test.
Codes(kinds) == {i \in DOMAIN kinds : kinds[i] = "code"}
Place(kinds, i) == i + Cardinality({j \in Codes(kinds) : j < i})
WithTests(kinds) ==
  [p \in 1..(Len(kinds) + Cardinality(Codes(kinds))) |->
     IF \E i \in DOMAIN kinds : Place(kinds, i) = p
     THEN kinds[CHOOSE i \in DOMAIN kinds : Place(kinds, i) = p]
     ELSE "test"]

\* Too long a plan keeps its tail and loses the end of its body.
Shorten(plan, maxSteps) ==
  LET ends == {i \in DOMAIN plan : plan[i] \in TailKinds}
      body == Pick(plan, DOMAIN plan \ ends) IN
  IF Len(plan) <= maxSteps THEN plan
  ELSE SubSeq(body, 1, maxSteps - Cardinality(ends)) \o Pick(plan, ends)

NormalizePlan(answer, hasRepo, maxSteps) ==
  LET clean == Pick(answer, {i \in DOMAIN answer : Placeable(answer[i], hasRepo)})
      body  == WithTests(clean)
      plan  == IF Contains(body, "code") THEN body \o PRTail ELSE body IN
  IF plan = <<>> THEN FallbackPlan(hasRepo) ELSE Shorten(plan, maxSteps)

\* planner.plan: the fallback when no model answers (here the answer <<>>).
PlanFor(answer, hasRepo, maxSteps) == NormalizePlan(answer, hasRepo, maxSteps)

\* replan_after_denial: a new plan without the steps that ask for the denied tool,
\* which may be any of its game actions.
ReplansFor(answer, hasRepo, maxSteps) ==
  LET plan == PlanFor(answer, hasRepo, maxSteps) IN
  {Pick(plan, DOMAIN plan \ denied) : denied \in SUBSET {i \in DOMAIN plan : plan[i] = "game_action"}}
=============================================================================
