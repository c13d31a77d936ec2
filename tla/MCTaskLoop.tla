----------------------------- MODULE MCTaskLoop -----------------------------
(* One task with a repository, or two; small plans. *)
EXTENDS TaskLoop, TLC

CONSTANTS t1, t2

CodeOnly == {<<"code">>}
Mixed == {<<"code">>, <<"game_action", "local">>}
ActionOrCode == {<<"game_action">>, <<"code">>}
TwoCodes == {<<"code", "code">>}

\* planner.py's rules once more, written with the folds and filters of the code.
FoldedBody(answer, hasRepo) ==
  FlattenSeq([i \in DOMAIN answer |-> IF ~Placeable(answer[i], hasRepo) THEN <<>>
                                      ELSE IF answer[i] = "code" THEN <<"code", "test">> ELSE <<answer[i]>>])
FoldedPlan(answer, hasRepo, maxSteps) ==
  LET body == FoldedBody(answer, hasRepo)
      tail == IF Contains(body, "code") THEN PRTail ELSE <<>> IN
  IF body = <<>> THEN FallbackPlan(hasRepo)
  ELSE IF Len(body \o tail) <= maxSteps THEN body \o tail
  ELSE SubSeq(SelectSeq(body, LAMBDA k : k \notin TailKinds), 1, maxSteps - Len(tail)) \o tail

\* PlanRules gives every short answer the plan that the folds give it.
ASSUME RulesAsFolded ==
  \A answer \in UNION {[1..n -> {"local", "code", "game_action", "pr"}] : n \in 0..4} :
    \A hasRepo \in BOOLEAN, maxSteps \in 4..9 :
      LET plan == FoldedPlan(answer, hasRepo, maxSteps) IN
      /\ PlanFor(answer, hasRepo, maxSteps) = plan
      /\ {plan, SelectSeq(plan, LAMBDA k : k # "game_action")} \subseteq ReplansFor(answer, hasRepo, maxSteps)
=============================================================================
