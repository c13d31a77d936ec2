---------------------------- MODULE Conversation ----------------------------
(***************************************************************************)
(* Conversations with the local model: turns of the agent (agent.py) in    *)
(* threads kept as files (threads.py), by almanac chat and almanac ask     *)
(* (chat.py), and the chat without tools, ai chat (local.py).              *)
(*                                                                         *)
(* Each process holds the conversation in memory, sends the model as much  *)
(* of it as the context takes, and adds a turn when it is over.  A turn    *)
(* may end anywhere: the guard refuses, the backend fails, the user        *)
(* interrupts, the process is killed.                                      *)
(*                                                                         *)
(* A message is its role and a number: of an assistant's message how many  *)
(* tools it calls, of a tool's result its size.  Sizes are in units of a   *)
(* line of the user or the assistant.                                      *)
(***************************************************************************)
EXTENDS Integers, Sequences, FiniteSets, FiniteSetsExt, SequencesExt

CONSTANTS
  Procs, Ids,  \* processes; thread ids
  Replies,     \* the model's replies with calls: the sizes of their results
  OldTool,     \* OLD_TOOL_CHARS
  Budget,      \* history_budget of the agent; three quarters of the context of ai chat
  MaxSteps,    \* max_steps
  MaxTurns     \* MaxTurns[p]: in a conversation that process p adds a turn to, in the model

ASSUME ConversationAssumption ==
  /\ Replies \subseteq Seq(Nat) \ {<<>>}
  /\ MaxTurns \in [Procs -> Nat]
  /\ {OldTool, Budget, MaxSteps} \subseteq Nat \ {0}

VARIABLES
  file, \* file[t]: the messages in a thread's file
  proc  \* proc[p]: a process

vars == <<file, proc>>

Absent == <<[role |-> "absent", n |-> 0]>>
NoThread == "none"

\* `at`: out of a conversation, at the prompt, "asking" the model, "calling" tools, or the
\* turn is "over".  `kept` is Thread.messages, or the history of ai chat; `sent` is
\* Agent.messages without the system prompt, `base` its length before the turn.
OutProc == [at |-> "out", plain |-> FALSE, id |-> NoThread, kept |-> <<>>, sent |-> <<>>, base |-> 0, step |-> 0, todo |-> <<>>]

Init == file = [t \in Ids |-> Absent] /\ proc = [p \in Procs |-> OutProc]

InTurn(p) == proc[p].at \in {"asking", "calling", "over"}
AtPrompt(pr, kept) == [OutProc EXCEPT !.at = "prompt", !.plain = pr.plain, !.id = pr.id, !.kept = kept]
Step(p, pr) == proc' = [proc EXCEPT ![p] = pr] /\ UNCHANGED file

User == [role |-> "user", n |-> 1]
Assistant(calls) == [role |-> "assistant", n |-> calls]
Tool(size) == [role |-> "tool", n |-> size]

\* The units of the messages, one by one, and how many they are.
Units(ms) == UNION {{i} \X (1..(IF ms[i].role = "tool" THEN ms[i].n ELSE 1)) : i \in DOMAIN ms}
Size(ms) == Cardinality(Units(ms))
Turns(ms) == {i \in DOMAIN ms : ms[i].role = "user"}

-----------------------------------------------------------------------------
(* What is sent *)

Shortened(ms) == [i \in DOMAIN ms |-> IF ms[i].role = "tool" /\ ms[i].n > OldTool THEN Tool(OldTool) ELSE ms[i]]
From(ms, i) == SubSeq(ms, i, Len(ms))

\* Mutant: cut at any message.
TrimAnywhere(ms) ==
  IF Turns(ms) = {} THEN <<>>
  ELSE LET fitting == {i \in DOMAIN ms : i = Len(ms) \/ Size(Shortened(From(ms, i))) <= Budget}
       IN Shortened(From(ms, CHOOSE i \in fitting : \A j \in fitting : i <= j))
\* Mutant: a turn counts without the turns after it.
RoundUncounted(ms, i, l) ==
  LET turn == Shortened(SubSeq(ms, i, l.end - 1))
  IN IF i \notin Turns(ms) \/ ~l.more THEN l
     ELSE IF l.kept # <<>> /\ Size(turn) > Budget THEN [l EXCEPT !.more = FALSE]
     ELSE [kept |-> turn \o l.kept, used |-> Size(turn), end |-> i, more |-> TRUE]
\* A round of trim_history's loop, over the turns from the newest: the one that starts at
\* i is put before those kept; the first that does not fit with them breaks off the loop.
Round(ms, i, l) ==
  LET turn == Shortened(SubSeq(ms, i, l.end - 1))
  IN IF i \notin Turns(ms) \/ ~l.more THEN l
     ELSE IF l.kept # <<>> /\ l.used + Size(turn) > Budget THEN [l EXCEPT !.more = FALSE]
     ELSE [kept |-> turn \o l.kept, used |-> l.used + Size(turn), end |-> i, more |-> TRUE]
TrimHistory(ms) ==
  LET loop[i \in 1..(Len(ms) + 1)] ==
        IF i > Len(ms) THEN [kept |-> <<>>, used |-> 0, end |-> Len(ms) + 1, more |-> TRUE]
        ELSE Round(ms, i, loop[i + 1])
  IN loop[1].kept

\* ai chat: the oldest exchanges are dropped, while there is more than the new line.
DropOldest(ms) ==
  LET fitting == {k \in 0..((Len(ms) - 1) \div 2) : 2 * k + 1 = Len(ms) \/ Size(From(ms, 2 * k + 1)) <= Budget}
  IN From(ms, 2 * (CHOOSE k \in fitting : \A l \in fitting : k <= l) + 1)

-----------------------------------------------------------------------------
(* Opening a thread *)

\* A thread that was asked for by its id is new when there is no file, as is one that was
\* not asked for (new_id), which has an id of its own.
Opens(p, t) ==
  /\ proc[p].at = "out"
  /\ Step(p, [OutProc EXCEPT !.at = "prompt", !.id = t, !.kept = IF file[t] = Absent THEN <<>> ELSE file[t]])

Unsaved(p, plain) ==
  /\ proc[p].at = "out"
  /\ Step(p, [OutProc EXCEPT !.at = "prompt", !.plain = plain])

\* /clear of almanac chat, with an id that is not in use (the old one, too, where nothing
\* was saved under it), and /new of ai chat.
Clear(p) ==
  /\ proc[p].at = "prompt"
  /\ IF proc[p].id = NoThread THEN Step(p, AtPrompt(proc[p], <<>>))
     ELSE \E t \in Ids : /\ file[t] = Absent /\ \A q \in Procs \ {p} : proc[q].id # t
                         /\ Step(p, AtPrompt([proc[p] EXCEPT !.id = t], <<>>))

-----------------------------------------------------------------------------
(* A turn *)

\* thread_turn: resume and the user's line; or a line of ai chat.
Line(p) ==
  /\ proc[p].at = "prompt" /\ Cardinality(Turns(proc[p].kept)) < MaxTurns[p]
  /\ LET pr == proc[p]
         kept == IF pr.plain THEN DropOldest(Append(pr.kept, User)) ELSE pr.kept
         sent == IF pr.plain THEN kept ELSE Append(TrimHistory(kept), User)
     IN Step(p, [pr EXCEPT !.at = "asking", !.kept = kept, !.sent = sent, !.base = Len(sent) - 1])

\* The model answers, or calls tools; the last step's calls end the turn.
Said(p) ==
  /\ proc[p].at = "asking" /\ proc[p].step < MaxSteps
  /\ Step(p, [proc[p] EXCEPT !.at = "over", !.sent = Append(@, Assistant(0))])
Calls(p, results) ==
  /\ proc[p].at = "asking" /\ ~proc[p].plain /\ proc[p].step < MaxSteps
  /\ Step(p, [proc[p] EXCEPT !.at = "calling", !.sent = Append(@, Assistant(Len(results))), !.todo = results])

\* Mutant: the results do not fit, and the turn begins again without counting its step.
ResultRetries(p) ==
  /\ proc[p].at = "calling"
  /\ LET last == Len(proc[p].todo) = 1
     IN Step(p, [proc[p] EXCEPT !.sent = IF last THEN SubSeq(@, 1, proc[p].base + 1) ELSE Append(@, Tool(Head(proc[p].todo))),
                   !.todo = Tail(@), !.at = IF last THEN "asking" ELSE "calling"])

\* Every call is answered, also one that is unknown, refused or has failed.
Result(p) ==
  /\ proc[p].at = "calling"
  /\ LET last == Len(proc[p].todo) = 1
     IN Step(p, [proc[p] EXCEPT !.sent = Append(@, Tool(Head(proc[p].todo))), !.todo = Tail(@),
                   !.step = IF last THEN @ + 1 ELSE @,
                   !.at = IF ~last THEN "calling" ELSE IF proc[p].step + 1 = MaxSteps THEN "over" ELSE "asking"])

\* add_turn and ThreadStore.save, which puts a whole new file in the old one's place.
AddTurn(pr) == IF pr.plain THEN Append(pr.kept, Assistant(0)) ELSE pr.kept \o From(pr.sent, pr.base + 1)
Saves(p) ==
  /\ proc[p].at = "over"
  /\ proc' = [proc EXCEPT ![p] = AtPrompt(@, AddTurn(@))]
  /\ file' = IF proc[p].id = NoThread THEN file ELSE [file EXCEPT ![proc[p].id] = AddTurn(proc[p])]

\* The file cannot be written, or the user interrupts just then: the turn is in memory.
SaveFails(p) ==
  /\ proc[p].at = "over" /\ proc[p].id # NoThread
  /\ Step(p, AtPrompt(proc[p], AddTurn(proc[p])))

\* The guard refuses, the backend fails or the user interrupts: the turn is left out of
\* the thread.  ai chat takes the line back, or keeps what was said so far.
TurnFails(p) ==
  /\ proc[p].at \in {"asking", "calling"}
  /\ \/ Step(p, AtPrompt(proc[p], IF proc[p].plain THEN Front(proc[p].kept) ELSE proc[p].kept))
     \/ proc[p].plain /\ Step(p, AtPrompt(proc[p], AddTurn(proc[p])))

\* /quit, the end of almanac ask, or a kill.
Leaves(p) == proc[p].at # "out" /\ Step(p, OutProc)

\* almanac threads rm.
Removed(t) ==
  /\ file[t] # Absent /\ file' = [file EXCEPT ![t] = Absent]
  /\ UNCHANGED proc

Turn(p) == Said(p) \/ (\E results \in Replies : Calls(p, results)) \/ Result(p) \/ Saves(p) \/ SaveFails(p) \/ TurnFails(p)
Next ==
  \/ \E p \in Procs :
       \/ (\E t \in Ids : Opens(p, t)) \/ (\E plain \in BOOLEAN : Unsaved(p, plain))
       \/ Clear(p) \/ Line(p) \/ Turn(p) \/ Leaves(p)
  \/ \E t \in Ids : Removed(t)
Spec == Init /\ [][Next]_vars

\* The backend answers or the request times out, and tools have timeouts.
FairSpec == Spec /\ \A p \in Procs : WF_vars(Turn(p))

-----------------------------------------------------------------------------
(* Correctness *)

\* A conversation the model can be asked to go on with: it begins with the user, and
\* every message with n calls is followed by exactly its n results.
Answers(ms, i) == {j \in (i + 1)..(i + ms[i].n) : j <= Len(ms) /\ ms[j].role = "tool"}
WellFormed(ms) ==
  LET spoken == {i \in DOMAIN ms : ms[i].role = "assistant"}
      results == {i \in DOMAIN ms : ms[i].role = "tool"}
  IN /\ ms # <<>> => ms[1].role = "user"
     /\ \A i \in spoken : Cardinality(Answers(ms, i)) = ms[i].n
     /\ results = UNION {Answers(ms, i) : i \in spoken}

\* Whatever is sent to the model is such a conversation, as is every thread's file, after
\* turns that failed half way, cuts of old turns, and saves by two processes.
SentWhole ==
  /\ \A p \in Procs : proc[p].at = "asking" => WellFormed(proc[p].sent)
  /\ \A t \in Ids : file[t] # Absent => WellFormed(file[t])

\* Of a thread's earlier turns the model is sent the newest that fit in the budget, whole
\* but for the old results that are cut: one turn in any case, and never fewer than would
\* have fitted (threads.py, trim_history).
NewestThatFit(ms, sent) ==
  IF Turns(ms) = {} THEN sent = <<>>
  ELSE \E i \in Turns(ms) :
         /\ sent = Shortened(From(ms, i))
         /\ Size(sent) <= Budget \/ \A j \in Turns(ms) : j <= i
         /\ \A j \in Turns(ms) : j < i => Size(Shortened(From(ms, j))) > Budget
FitsContext ==
  \A p \in Procs : proc[p].at = "asking" /\ ~proc[p].plain =>
    NewestThatFit(proc[p].kept, SubSeq(proc[p].sent, 1, proc[p].base))

\* A turn comes to an end, whatever the model calls.
TurnEnds == \A p \in Procs : InTurn(p) ~> ~InTurn(p)
=============================================================================
