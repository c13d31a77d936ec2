---------------------------- MODULE ChatSession ----------------------------
(***************************************************************************)
(* The plugin's chat: ChatSession and AgentLoop (dalamud/src/Almanac.Core/ *)
(* Agent), the threads in AlmanacStore, and the chat window's buttons.     *)
(*                                                                         *)
(* The window runs on the game's UI thread; SendAsync runs on the thread   *)
(* pool and holds no lock between its statements.  A turn appends to a     *)
(* history in memory and writes it to the store as the agent's events come *)
(* in.  It may be stopped, fail or be killed at any time.                  *)
(*                                                                         *)
(* A message is its role and, of an assistant's message, the number of     *)
(* native calls it holds; "result" is a tool's result sent as a user's     *)
(* message, which prompted tool calling does.  The system prompt, which is *)
(* never stored, is left out, as are the transcript the window shows and   *)
(* thread titles.                                                          *)
(***************************************************************************)
EXTENDS Naturals, Sequences, SequencesExt

CONSTANTS
  Sends,         \* calls of SendAsync at a time
  Threads,           \* threads ever made
  Modes,         \* ways of tool calling a turn may begin with: "native", "prompted", "none"
  CallCounts,    \* numbers of calls a reply may hold
  HistoryWindow, MaxAgentSteps,
  MaxLen         \* nothing more is sent once a thread is that long, nor branched further on

ASSUME ChatAssumption ==
  /\ Modes \subseteq {"native", "prompted", "none"}
  /\ CallCounts \subseteq Nat \ {0}
  /\ {HistoryWindow, MaxAgentSteps, MaxLen} \subseteq Nat \ {0}

None == "none"

VARIABLES
  store,   \* store[t]: the rows of a thread
  open,    \* ChatSession.Thread
  busy, running, \* Busy; whose token source is in `running`
  turn,    \* turn[s]: a call of SendAsync
  ui,      \* what the UI thread has still to do
  gone     \* the session has been disposed

chatVars == <<store, open, busy, running, turn, ui, gone>>

UserMessage == [role |-> "user", n |-> 0]
AssistantMessage(calls) == [role |-> "assistant", n |-> calls]
ToolMessage(mode) == [role |-> IF mode = "prompted" THEN "result" ELSE "tool", n |-> 0]

\* `at`: "queued" by Task.Run, past the check of Busy, Busy, begun, user's line stored, history
\* loaded, waiting for the model ("asking") or for a tool ("calling"), then through the
\* statements of `finally`.  `cancelled` and `disposed` are the token source of this call,
\* `token` whose token it was given; history[next..] is not stored yet.
Idle == [at |-> "idle", thread |-> None, mode |-> None, history |-> <<>>, next |-> 1, step |-> 0, left |-> 0,
         token |-> None, cancelled |-> FALSE, disposed |-> FALSE]
Underway(s) == turn[s].at \in {"asking", "calling"}
Stopped(s) == turn[s].token # None /\ turn[turn[s].token].cancelled

NewThread == [is |-> "unused", msgs |-> <<>>]
Unused == {t \in Threads : store[t].is = "unused"}
Kept(t) == t \in Threads /\ store[t].is = "kept"

ChatInit ==
  /\ store = [t \in Threads |-> NewThread]
  /\ open = None /\ busy = FALSE /\ running = None
  /\ turn = [s \in Sends |-> Idle]
  /\ ui = "free" /\ gone = FALSE

-----------------------------------------------------------------------------
(* The window *)

UiFree == ui = "free" /\ ~gone

\* ChatWindow.Send, or /almanac <question>; a name is used again when nobody has its token.
Send(s) ==
  /\ UiFree /\ ~busy /\ turn[s].at = "idle" /\ \A r \in Sends : turn[r].token # s
  /\ open # None \/ Unused # {}
  /\ \A t \in Threads : Len(store[t].msgs) < MaxLen
  /\ turn' = [turn EXCEPT ![s].at = "queued"]
  /\ UNCHANGED <<store, open, busy, running, ui, gone>>

\* New and Open.
Shows(t) ==
  /\ UiFree /\ ~busy
  /\ Kept(t) \/ (t = None /\ Unused # {})
  /\ open' = t
  /\ UNCHANGED <<store, busy, running, turn, ui, gone>>

\* "Branch a new thread from here", at a line of the user or the assistant.
Fork(k) ==
  /\ UiFree /\ ~busy /\ Kept(open) /\ k <= Len(store[open].msgs)
  /\ store[open].msgs[k].role \in {"user", "assistant"}
  /\ \E t \in Unused : /\ store' = [store EXCEPT ![t] = [is |-> "kept", msgs |-> SubSeq(store[open].msgs, 1, k)]]
                       /\ open' = t
  /\ UNCHANGED <<busy, running, turn, ui, gone>>

\* "Delete": DeleteThread, and then New, if it was the open thread; New does nothing when
\* a turn has begun in between.
Delete(t) ==
  /\ UiFree /\ ~busy /\ Kept(t)
  /\ open = t => Unused # {}
  /\ store' = [store EXCEPT ![t] = [is |-> "deleted", msgs |-> <<>>]]
  /\ ui' = IF open = t THEN "new" ELSE "free"
  /\ UNCHANGED <<open, busy, running, turn, gone>>
ThenNew ==
  /\ ui = "new" /\ ui' = "free"
  /\ open' = IF busy THEN open ELSE None
  /\ UNCHANGED <<store, busy, running, turn, gone>>

\* The source in `running` is cancelled, unless it is disposed already.
CancelSource == [s \in Sends |-> IF s = running /\ ~turn[s].disposed THEN [turn[s] EXCEPT !.cancelled = TRUE] ELSE turn[s]]
Stop ==
  /\ UiFree /\ busy /\ turn' = CancelSource
  /\ UNCHANGED <<store, open, busy, running, ui, gone>>

\* The plugin is unloaded.
Dispose ==
  /\ UiFree /\ gone' = TRUE /\ running' = None
  /\ turn' = [s \in Sends |-> [CancelSource[s] EXCEPT !.disposed = @ \/ s = running]]
  /\ UNCHANGED <<store, open, busy, ui>>

\* The game ends or crashes, or the plugin is loaded again.
Restart ==
  /\ open' = None /\ busy' = FALSE /\ running' = None
  /\ turn' = [s \in Sends |-> Idle]
  /\ ui' = "free" /\ gone' = FALSE
  /\ UNCHANGED store

-----------------------------------------------------------------------------
(* SendAsync, up to the agent *)

Becomes(s, tr) == turn' = [turn EXCEPT ![s] = tr]
Ends(s) == Becomes(s, [turn[s] EXCEPT !.at = "ending"])

\* A message that comes while a reply is running is dropped.
Enter(s) ==
  /\ turn[s].at = "queued"
  /\ Becomes(s, IF busy THEN Idle ELSE [turn[s] EXCEPT !.at = "checked"])
  /\ UNCHANGED <<store, open, busy, running, ui, gone>>

\* Busy first, and then the token source: a Stop in between cancels nothing.
Begins(s) ==
  /\ turn[s].at = "checked" /\ busy' = TRUE
  /\ Becomes(s, [turn[s] EXCEPT !.at = "busy"])
  /\ UNCHANGED <<store, open, running, ui, gone>>
TakesSource(s) ==
  /\ turn[s].at = "busy" /\ running' = s
  /\ Becomes(s, [Idle EXCEPT !.at = "began"])
  /\ UNCHANGED <<store, open, busy, ui, gone>>

\* The user's line is stored, in a new thread if none is open.  A thread that was deleted
\* refuses it, as does a store that is closed.
StoresLine(s) ==
  /\ turn[s].at = "began"
  /\ \/ \E t \in IF open = None THEN Unused ELSE {open} :
          /\ open = None \/ Kept(t)
          /\ store' = [store EXCEPT ![t] = [is |-> "kept", msgs |-> Append(@.msgs, UserMessage)]]
          /\ open' = t
          /\ Becomes(s, [turn[s] EXCEPT !.at = "stored", !.thread = t])
     \/ /\ gone \/ (open # None /\ ~Kept(open))
        /\ Ends(s) /\ UNCHANGED <<store, open>>
  /\ UNCHANGED <<busy, running, ui, gone>>

\* Mutant: cut at any message.
CutAnywhere(ms) == IF Len(ms) <= HistoryWindow THEN ms ELSE SubSeq(ms, Len(ms) - HistoryWindow + 1, Len(ms))
\* The newest messages that fit the window, from one whose role is "user".
Window(ms) ==
  LET first == IF Len(ms) <= HistoryWindow THEN 1 ELSE Len(ms) - HistoryWindow + 1
      spoken == {i \in first..Len(ms) : ms[i].role \in {"user", "result"}}
  IN IF spoken = {} THEN <<>> ELSE SubSeq(ms, CHOOSE i \in spoken : \A j \in spoken : i <= j, Len(ms))

Loads(s) ==
  /\ turn[s].at = "stored"
  /\ LET history == Window(store[turn[s].thread].msgs)
     IN Becomes(s, [turn[s] EXCEPT !.at = "loaded", !.history = history, !.next = Len(history) + 1])
  /\ UNCHANGED <<store, open, busy, running, ui, gone>>

\* Mutant: the agent is run without the token.
StartsUntokened(s) ==
  /\ turn[s].at = "loaded"
  /\ \/ /\ running # None /\ ~turn[running].disposed
        /\ \E mode \in Modes : Becomes(s, [turn[s] EXCEPT !.at = "asking", !.mode = mode])
     \/ Ends(s)
  /\ UNCHANGED <<store, open, busy, running, ui, gone>>
\* A new agent with the token of `running`, which may be cancelled by now.  No model may
\* be chosen, and the source may have been taken away.
Starts(s) ==
  /\ turn[s].at = "loaded"
  /\ \/ /\ running # None /\ ~turn[running].disposed
        /\ \E mode \in Modes : Becomes(s, [turn[s] EXCEPT !.at = "asking", !.mode = mode, !.token = running])
     \/ Ends(s)
  /\ UNCHANGED <<store, open, busy, running, ui, gone>>

-----------------------------------------------------------------------------
(* AgentLoop.RunAsync and OnEvent *)

\* Persist: what is new in the history is stored, and the turn goes on as `tr`.
Persist(s, tr) ==
  /\ \/ /\ Kept(tr.thread)
        /\ store' = [store EXCEPT ![tr.thread].msgs = @ \o SubSeq(tr.history, tr.next, Len(tr.history))]
        /\ Becomes(s, [tr EXCEPT !.next = Len(tr.history) + 1])
     \/ /\ gone \/ ~Kept(tr.thread)
        /\ Ends(s) /\ UNCHANGED store
  /\ UNCHANGED <<open, busy, running, ui, gone>>

\* The server takes no native tools; the step is not counted.
Unsupported(s) ==
  /\ turn[s].at = "asking" /\ turn[s].mode = "native"
  /\ Becomes(s, [turn[s] EXCEPT !.mode = "prompted"])
  /\ UNCHANGED <<store, open, busy, running, ui, gone>>

AnswersUser(s) ==
  /\ turn[s].at = "asking"
  /\ Persist(s, [turn[s] EXCEPT !.at = "ending", !.history = Append(@, AssistantMessage(0))])

\* Mutant: what the model said is not stored before its calls run.
CallsUnsaved(s, n) ==
  /\ turn[s].at = "asking"
  /\ Becomes(s, [turn[s] EXCEPT !.at = "calling", !.left = n,
                   !.history = Append(@, AssistantMessage(IF turn[s].mode = "prompted" THEN 0 ELSE n))])
  /\ UNCHANGED <<store, open, busy, running, ui, gone>>
\* The reply holds calls; the event of the first one stores it before that call runs.
CallsTools(s, n) ==
  /\ turn[s].at = "asking"
  /\ Persist(s, [turn[s] EXCEPT !.at = "calling", !.left = n,
                   !.history = Append(@, AssistantMessage(IF turn[s].mode = "prompted" THEN 0 ELSE n))])

\* A call ends, in an error too.  Its event comes before its result is in the history: the
\* next call's event, or the end of the turn, stores it.
CallEnds(s) ==
  /\ turn[s].at = "calling"
  /\ LET tr == [turn[s] EXCEPT !.history = Append(@, ToolMessage(turn[s].mode)), !.left = @ - 1]
     IN \/ tr.left > 0 /\ Persist(s, tr)
        \/ /\ tr.left = 0 /\ tr.step + 1 = MaxAgentSteps
           /\ Persist(s, [tr EXCEPT !.step = @ + 1, !.at = "ending"])
        \/ /\ tr.left = 0 /\ tr.step + 1 < MaxAgentSteps
           /\ Becomes(s, [tr EXCEPT !.step = @ + 1, !.at = "asking"])
           /\ UNCHANGED <<store, open, busy, running, ui, gone>>

\* The model server fails, or a request times out, also a tool's.
Fails(s) ==
  /\ Underway(s) /\ Ends(s)
  /\ UNCHANGED <<store, open, busy, running, ui, gone>>

\* The token ends whatever is waited for.
Cancels(s) ==
  /\ Underway(s) /\ Stopped(s) /\ Ends(s)
  /\ UNCHANGED <<store, open, busy, running, ui, gone>>

-----------------------------------------------------------------------------
(* finally *)

Frees(s) ==
  /\ turn[s].at = "ending" /\ busy' = FALSE
  /\ Becomes(s, [turn[s] EXCEPT !.at = "freed"])
  /\ UNCHANGED <<store, open, running, ui, gone>>

\* running?.Dispose(), whatever is there by now.
DisposesSource(s) ==
  /\ turn[s].at = "freed"
  /\ turn' = [r \in Sends |-> [turn[r] EXCEPT !.at = IF r = s THEN "disposed" ELSE @, !.disposed = @ \/ r = running]]
  /\ UNCHANGED <<store, open, busy, running, ui, gone>>

Clears(s) ==
  /\ turn[s].at = "disposed" /\ running' = None
  /\ Becomes(s, [Idle EXCEPT !.cancelled = turn[s].cancelled])
  /\ UNCHANGED <<store, open, busy, ui, gone>>

-----------------------------------------------------------------------------

ChatWindow == Stop \/ Dispose \/ ThenNew \/ (\E t \in Threads : Delete(t) \/ Shows(t)) \/ Shows(None)
AgentLoop(s) == Unsupported(s) \/ AnswersUser(s) \/ (\E n \in CallCounts : CallsTools(s, n)) \/ CallEnds(s) \/ Fails(s)
Proceeds(s) ==
  \/ Enter(s) \/ Begins(s) \/ TakesSource(s) \/ StoresLine(s) \/ Loads(s) \/ Starts(s)
  \/ Cancels(s) \/ Frees(s) \/ DisposesSource(s) \/ Clears(s)

ChatNext ==
  \/ \E s \in Sends : Send(s) \/ Proceeds(s) \/ AgentLoop(s)
  \/ ChatWindow \/ (\E k \in 1..MaxLen : Fork(k)) \/ Restart
ChatSpec == ChatInit /\ [][ChatNext]_chatVars

\* The thread pool runs what is ready, and a cancelled wait ends; nothing is assumed of the
\* model server or the tools.
FairChatSpec == ChatSpec /\ \A s \in Sends : WF_chatVars(Proceeds(s))

-----------------------------------------------------------------------------
(* Correctness *)

\* A message is stored as it happens: while a tool runs, all of the turn is in the
\* thread, and while the model is asked all but the last message, each once and in order
\* (ChatSession.cs, OnEvent and Persist).
StoredAsItHappens ==
  \A s \in Sends : Underway(s) =>
    LET tr == turn[s]
        missing == Len(tr.history) + 1 - tr.next
    IN /\ missing <= IF tr.at = "calling" THEN 0 ELSE 1
       /\ IsSuffix(SubSeq(tr.history, 1, tr.next - 1), store[tr.thread].msgs)

\* A native result that is sent to the model, or stored, is one of the results of the
\* call before it, after windows, branches, stops and crashes (Window, ForkThread).
HasItsCall(ms, i) ==
  \E j \in 1..(i - 1) :
    ms[j].role = "assistant" /\ i - j <= ms[j].n /\ \A k \in (j + 1)..i : ms[k].role = "tool"
ResultsHaveCalls ==
  /\ \A s \in Sends : turn[s].at = "asking" =>
       LET ms == turn[s].history IN \A i \in DOMAIN ms : ms[i].role = "tool" => HasItsCall(ms, i)
  /\ \A t \in Threads : \A i \in DOMAIN store[t].msgs :
       store[t].msgs[i].role = "tool" => HasItsCall(store[t].msgs, i)

\* A Stop that finds a turn's source, from the statement after Busy on, reaches the turn:
\* SendAsync comes to its end, from whatever statement it is at, though neither model nor
\* tool ever answers, and also when the agent starts only after it (ChatSession.cs, Cancel).
InSend(s) == turn[s].at \notin {"idle", "queued", "checked", "busy"}
StopEnds == \A s \in Sends : InSend(s) /\ turn[s].cancelled ~> ~InSend(s)
=============================================================================
