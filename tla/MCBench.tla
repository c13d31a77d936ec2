------------------------------- MODULE MCBench -------------------------------
(* Two commands; a task that expects two calls, of which the second may be  *)
(* met by either, and one in which no tool may be called.                   *)
EXTENDS Bench, TLC

CONSTANTS p1, p2

ToolOf(c) == IF c = "near" THEN "map" ELSE "prices"
Pair == [expect |-> <<{"near", "far"}, {"near"}>>, forbid |-> FALSE, texts |-> {"yes"}, from |-> {"map"},
         skip |-> TRUE, tools |-> {"map", "prices"}]
Talk == [expect |-> <<>>, forbid |-> TRUE, texts |-> {"yes"}, from |-> {}, skip |-> FALSE, tools |-> {"prices"}]
TwoTasks == <<Pair, Talk>>
SomeReplies == {<<"near">>, <<"far">>, <<"wrong">>, <<"far", "near">>}
SomeAnswers == {NoAnswer, {"yes"}, {"yes", "v1"}, {"yes", "v2"}}

\* What a score counts, by the folds over sequences, for all that the two tasks may see.
FoldedValid(calls) == SelectSeq(calls, LAMBDA c : c.valid)
FoldedMatched(expect, valid) ==
  LET take(used, exp) == LET free == {i \in DOMAIN valid \ used : Matches(exp, valid[i])}
                         IN IF free = {} THEN used ELSE used \cup {Min(free)}
  IN Cardinality(FoldLeft(take, {}, expect))
SomeCalls == UNION {[1..n -> [call : {"near", "far", "wrong"}, valid : BOOLEAN, value : {"v1"}]] : n \in 0..3}
SomeExpected == UNION {[1..n -> {{"near"}, {"far"}, {"near", "far"}}] : n \in 0..3}
ASSUME ScoresAsFolded ==
  \A calls \in SomeCalls :
    /\ ValidCalls(calls) = FoldedValid(calls)
    /\ \A expect \in SomeExpected : Matched(expect, ValidCalls(calls)) = FoldedMatched(expect, FoldedValid(calls))
=============================================================================
