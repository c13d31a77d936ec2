----------------------------- MODULE BenchProofs -----------------------------
(***************************************************************************)
(* Proofs about Bench for any commands side by side on one state           *)
(* directory, every suite, every model's replies and any number of runs    *)
(* and tokens.                                                             *)
(***************************************************************************)
EXTENDS Bench, SequenceTheorems, FiniteSetTheorems, WellFoundedInduction, TLAPS

-----------------------------------------------------------------------------
(* Submitting: the inductive invariant *)

Writing == {"unlinks", "creates", "writes"}
Points == {"idle", "asking", "scored", "link", "waiting", "poll", "post", "taken", "refused", "revokes", "removes"}
            \cup Writing
Command == [at : Points, id : Nat, token : Nat, relinked : BOOLEAN, links : Nat, interval : Nat, left : Nat]
TokenFile == [by : Procs \cup {"nobody"}, token : Nat]
Server == [accepts : SUBSET Nat, issued : Nat, taken : SUBSET Nat]

SubmitTypes ==
  /\ cmd \in [Procs -> Command] /\ stored \in Seq(BOOLEAN)
  /\ file \in TokenFile /\ server \in Server

\* What a command knows of itself: it asks for a code only when it has not signed in
\* yet and will not again, the token it sends is one that was issued, the run that was
\* taken is on the leaderboard, and the token it gave up is not in the file.
OwnOK(p) ==
  /\ cmd[p].links <= 1 /\ (cmd[p].links = 1 => cmd[p].relinked)
  /\ cmd[p].at \in {"link", "waiting", "poll"} => cmd[p].links = 0 /\ cmd[p].relinked
  /\ cmd[p].token <= server.issued
  /\ cmd[p].at \in Writing \cup {"post", "taken", "refused"} => cmd[p].token # 0
  /\ cmd[p].at = "taken" => cmd[p].id \in server.taken
  /\ cmd[p].at = "refused" => file.token # cmd[p].token

\* Nobody else knows a token before it has been written to the file.
FreshOK(p) ==
  cmd[p].at \in Writing => file.token # cmd[p].token /\ \A q \in Procs \ {p} : cmd[q].token # cmd[p].token

MarkedTaken == \A id \in DOMAIN stored : stored[id] => id \in server.taken

SubmitInv ==
  /\ SubmitTypes /\ file.token <= server.issued /\ MarkedTaken
  /\ \A p \in Procs : OwnOK(p) /\ FreshOK(p)

\* The fields of a command, and of a command of which only `at` changes.
LEMMA CommandFields ==
  ASSUME SubmitTypes, NEW p \in Procs
  PROVE  /\ cmd[p] \in Command
         /\ cmd[p].at \in Points /\ cmd[p].id \in Nat /\ cmd[p].token \in Nat /\ cmd[p].relinked \in BOOLEAN
         /\ cmd[p].links \in Nat /\ cmd[p].interval \in Nat /\ cmd[p].left \in Nat
PROOF
  BY DEF SubmitTypes, Command

LEMMA IdleCommand ==
  /\ Idle \in Command /\ Idle.at = "idle" /\ Idle.token = 0 /\ Idle.links = 0 /\ Idle.relinked = FALSE
  /\ Idle.id = 0 /\ Idle.interval = 0 /\ Idle.left = 0
  /\ NoFile \in TokenFile /\ NoFile.token = 0
PROOF
  BY DEF Idle, Command, Points, NoFile, TokenFile

LEMMA AtCommand ==
  ASSUME NEW k \in Command, NEW at \in Points
  PROVE  /\ [k EXCEPT !.at = at] \in Command /\ [k EXCEPT !.at = at].at = at
         /\ [k EXCEPT !.at = at].token = k.token /\ [k EXCEPT !.at = at].links = k.links
         /\ [k EXCEPT !.at = at].relinked = k.relinked /\ [k EXCEPT !.at = at].id = k.id
PROOF
  BY DEF Command

\* The updates of a command's record, written out, one field at a time.
LEMMA OneField ==
  ASSUME NEW k \in Command, NEW v
  PROVE  /\ [k EXCEPT !.at = v] = [at |-> v, id |-> k.id, token |-> k.token, relinked |-> k.relinked,
             links |-> k.links, interval |-> k.interval, left |-> k.left]
         /\ [k EXCEPT !.interval = v] = [at |-> k.at, id |-> k.id, token |-> k.token, relinked |-> k.relinked,
             links |-> k.links, interval |-> v, left |-> k.left]
         /\ [k EXCEPT !.left = v] = [at |-> k.at, id |-> k.id, token |-> k.token, relinked |-> k.relinked,
             links |-> k.links, interval |-> k.interval, left |-> v]
         /\ [k EXCEPT !.token = v] = [at |-> k.at, id |-> k.id, token |-> v, relinked |-> k.relinked,
             links |-> k.links, interval |-> k.interval, left |-> k.left]
         /\ [k EXCEPT !.links = v] = [at |-> k.at, id |-> k.id, token |-> k.token, relinked |-> k.relinked,
             links |-> v, interval |-> k.interval, left |-> k.left]
PROOF
  BY DEF Command

\* The other two fields.
LEMMA OtherField ==
  ASSUME NEW k \in Command, NEW v
  PROVE  /\ [k EXCEPT !.id = v] = [at |-> k.at, id |-> v, token |-> k.token, relinked |-> k.relinked,
             links |-> k.links, interval |-> k.interval, left |-> k.left]
         /\ [k EXCEPT !.relinked = v] = [at |-> k.at, id |-> k.id, token |-> k.token, relinked |-> v,
             links |-> k.links, interval |-> k.interval, left |-> k.left]
PROOF
  BY DEF Command

\* A poll that was answered slow_down.
LEMMA PollFields ==
  ASSUME NEW k \in Command, NEW at \in Points, NEW i \in Nat
  PROVE  [k EXCEPT !.at = at, !.interval = i] = [at |-> at, id |-> k.id, token |-> k.token, relinked |-> k.relinked,
             links |-> k.links, interval |-> i, left |-> k.left]
PROOF
  <1> DEFINE a == [k EXCEPT !.at = at]
  <1>1. a \in Command /\ a = [at |-> at, id |-> k.id, token |-> k.token, relinked |-> k.relinked,
             links |-> k.links, interval |-> k.interval, left |-> k.left]
    BY OneField DEF Command
  <1>2. a.id = k.id /\ a.token = k.token /\ a.relinked = k.relinked /\ a.links = k.links
        /\ a.interval = k.interval /\ a.left = k.left /\ a.at = at
    BY <1>1
  <1> HIDE DEF a
  <1>3. [a EXCEPT !.interval = i] = [at |-> a.at, id |-> a.id, token |-> a.token, relinked |-> a.relinked,
             links |-> a.links, interval |-> i, left |-> a.left]
    BY <1>1, OneField, ZenonT(60)
  <1>4. QED
    BY <1>2, <1>3 DEF a

\* A sleep.
LEMMA SleepFields ==
  ASSUME NEW k \in Command, NEW at \in Points, NEW l \in Nat
  PROVE  [k EXCEPT !.at = at, !.left = l] = [at |-> at, id |-> k.id, token |-> k.token, relinked |-> k.relinked,
             links |-> k.links, interval |-> k.interval, left |-> l]
PROOF
  <1> DEFINE a == [k EXCEPT !.at = at]
  <1>1. a \in Command /\ a = [at |-> at, id |-> k.id, token |-> k.token, relinked |-> k.relinked,
             links |-> k.links, interval |-> k.interval, left |-> k.left]
    BY OneField DEF Command
  <1>2. a.id = k.id /\ a.token = k.token /\ a.relinked = k.relinked /\ a.links = k.links
        /\ a.interval = k.interval /\ a.left = k.left /\ a.at = at
    BY <1>1
  <1> HIDE DEF a
  <1>3. [a EXCEPT !.left = l] = [at |-> a.at, id |-> a.id, token |-> a.token, relinked |-> a.relinked,
             links |-> a.links, interval |-> a.interval, left |-> l]
    BY <1>1, OneField, ZenonT(60)
  <1>4. QED
    BY <1>2, <1>3 DEF a

\* A device code.
LEMMA CodeFields ==
  ASSUME NEW k \in Command, NEW at \in Points, NEW i \in Nat, NEW l \in Nat
  PROVE  [k EXCEPT !.at = at, !.interval = i, !.left = l] = [at |-> at, id |-> k.id, token |-> k.token, relinked |-> k.relinked,
             links |-> k.links, interval |-> i, left |-> l]
PROOF
  <1> DEFINE a == [k EXCEPT !.at = at]
             b == [a EXCEPT !.interval = i]
  <1>1. a \in Command /\ a = [at |-> at, id |-> k.id, token |-> k.token, relinked |-> k.relinked,
             links |-> k.links, interval |-> k.interval, left |-> k.left]
    BY OneField DEF Command
  <1>2. a.id = k.id /\ a.token = k.token /\ a.relinked = k.relinked /\ a.links = k.links
        /\ a.interval = k.interval /\ a.left = k.left /\ a.at = at
    BY <1>1
  <1> HIDE DEF a
  <1>3. b \in Command /\ b = [at |-> at, id |-> k.id, token |-> k.token, relinked |-> k.relinked,
             links |-> k.links, interval |-> i, left |-> k.left]
    <2>1. b = [at |-> a.at, id |-> a.id, token |-> a.token, relinked |-> a.relinked,
             links |-> a.links, interval |-> i, left |-> a.left]
      BY <1>1, OneField, ZenonT(60)
    <2>2. QED
      BY <1>1, <1>2, <2>1 DEF Command
  <1>4. /\ b.id = k.id /\ b.token = k.token /\ b.relinked = k.relinked /\ b.links = k.links
        /\ b.interval = i /\ b.left = k.left /\ b.at = at
    BY <1>3
  <1> HIDE DEF b
  <1>5. [b EXCEPT !.left = l] = [at |-> at, id |-> k.id, token |-> k.token, relinked |-> k.relinked,
             links |-> k.links, interval |-> i, left |-> l]
    <2>1. [b EXCEPT !.left = l] = [at |-> b.at, id |-> b.id, token |-> b.token, relinked |-> b.relinked,
             links |-> b.links, interval |-> b.interval, left |-> l]
      BY <1>3, OneField, ZenonT(60)
    <2>2. QED
      BY <1>4, <2>1
  <1>6. QED
    BY <1>5 DEF a, b

\* A token.
LEMMA TokenFields ==
  ASSUME NEW k \in Command, NEW at \in Points, NEW t \in Nat, NEW n \in Nat
  PROVE  [k EXCEPT !.at = at, !.token = t, !.links = n] = [at |-> at, id |-> k.id, token |-> t, relinked |-> k.relinked,
             links |-> n, interval |-> k.interval, left |-> k.left]
PROOF
  <1> DEFINE a == [k EXCEPT !.at = at]
             b == [a EXCEPT !.token = t]
  <1>1. a \in Command /\ a = [at |-> at, id |-> k.id, token |-> k.token, relinked |-> k.relinked,
             links |-> k.links, interval |-> k.interval, left |-> k.left]
    BY OneField DEF Command
  <1>2. a.id = k.id /\ a.token = k.token /\ a.relinked = k.relinked /\ a.links = k.links
        /\ a.interval = k.interval /\ a.left = k.left /\ a.at = at
    BY <1>1
  <1> HIDE DEF a
  <1>3. b \in Command /\ b = [at |-> at, id |-> k.id, token |-> t, relinked |-> k.relinked,
             links |-> k.links, interval |-> k.interval, left |-> k.left]
    <2>1. b = [at |-> a.at, id |-> a.id, token |-> t, relinked |-> a.relinked,
             links |-> a.links, interval |-> a.interval, left |-> a.left]
      BY <1>1, OneField, ZenonT(60)
    <2>2. QED
      BY <1>1, <1>2, <2>1 DEF Command
  <1>4. /\ b.id = k.id /\ b.token = t /\ b.relinked = k.relinked /\ b.links = k.links
        /\ b.interval = k.interval /\ b.left = k.left /\ b.at = at
    BY <1>3
  <1> HIDE DEF b
  <1>5. [b EXCEPT !.links = n] = [at |-> at, id |-> k.id, token |-> t, relinked |-> k.relinked,
             links |-> n, interval |-> k.interval, left |-> k.left]
    <2>1. [b EXCEPT !.links = n] = [at |-> b.at, id |-> b.id, token |-> b.token, relinked |-> b.relinked,
             links |-> n, interval |-> b.interval, left |-> b.left]
      BY <1>3, OneField, ZenonT(60)
    <2>2. QED
      BY <1>4, <2>1
  <1>6. QED
    BY <1>5 DEF a, b

\* Command p becomes c: the invariant holds behind the step if it holds of p, and p
\* takes no token that another command is about to write.
LEMMA CommandMoves ==
  ASSUME SubmitInv, NEW p \in Procs, NEW c \in Command, cmd' = [cmd EXCEPT ![p] = c],
         stored' \in Seq(BOOLEAN), file' \in TokenFile, server' \in Server,
         server.issued <= server'.issued, server.taken \subseteq server'.taken,
         file'.token <= server'.issued, MarkedTaken', OwnOK(p)', FreshOK(p)',
         c.token \in {0, cmd[p].token, file.token} \/ c.token > server.issued,
         file'.token \in {0, file.token} \/ (cmd[p].at \in Writing /\ file'.token = cmd[p].token)
  PROVE  SubmitInv'
PROOF
  <1>0. /\ SubmitTypes /\ file.token \in Nat /\ server.issued \in Nat /\ server'.issued \in Nat
        /\ file'.token \in Nat /\ c.token \in Nat
    BY DEF SubmitInv, SubmitTypes, TokenFile, Server, Command
  <1>1. SubmitTypes'
    BY <1>0 DEF SubmitTypes
  <1>2. cmd'[p] = c /\ \A q \in Procs \ {p} : cmd'[q] = cmd[q]
    BY <1>0 DEF SubmitTypes
  <1>3. ASSUME NEW q \in Procs, q # p PROVE OwnOK(q)' /\ FreshOK(q)'
    <2>1. cmd'[q] = cmd[q] /\ OwnOK(q) /\ FreshOK(q) /\ OwnOK(p) /\ FreshOK(p)
      BY <1>2, <1>3 DEF SubmitInv
    <2>2. cmd[q].token \in Nat /\ cmd[p].token \in Nat
      BY <1>0, CommandFields
    <2>3. cmd[p].at \in Writing => cmd[q].token # cmd[p].token
      BY <1>3, <2>1 DEF FreshOK
    <2>4. cmd[q].token <= server.issued /\ cmd[q].token <= server'.issued
      BY <1>0, <2>1, <2>2 DEF OwnOK
    <2>5. cmd[q].at \in Writing \cup {"refused"} => cmd[q].token # 0 /\ file.token # cmd[q].token
      BY <2>1 DEF OwnOK, FreshOK
    <2>6. cmd[q].at \in Writing \cup {"refused"} => file'.token # cmd[q].token
      BY <2>3, <2>5
    <2>7. cmd[q].at \in Writing => c.token # cmd[q].token
      <3>1. cmd[q].at \in Writing => cmd[p].token # cmd[q].token
        BY <1>3, <2>1 DEF FreshOK
      <3>2. QED
        BY <1>0, <2>2, <2>4, <2>5, <3>1
    <2>8. FreshOK(q)'
      <3>1. ASSUME cmd[q].at \in Writing, NEW r \in Procs, r # q PROVE cmd'[r].token # cmd[q].token
        <4>1. CASE r = p
          BY <1>2, <2>7, <3>1, <4>1
        <4>2. CASE r # p
          BY <1>2, <2>1, <3>1, <4>2 DEF FreshOK
        <4>3. QED
          BY <4>1, <4>2
      <3>2. QED
        BY <2>1, <2>6, <3>1 DEF FreshOK
    <2>9. OwnOK(q)'
      BY <2>1, <2>4, <2>6 DEF OwnOK
    <2>10. QED
      BY <2>8, <2>9
  <1>4. \A q \in Procs : OwnOK(q)' /\ FreshOK(q)'
    BY <1>3
  <1>5. QED
    BY <1>1, <1>4 DEF SubmitInv

\* The same where nothing but the command changes.
LEMMA CommandAlone ==
  ASSUME SubmitInv, NEW p \in Procs, NEW c \in Command, cmd' = [cmd EXCEPT ![p] = c],
         UNCHANGED <<stored, file, server>>,
         c.token \in {0, cmd[p].token, file.token},
         c.links <= 1 /\ (c.links = 1 => c.relinked),
         c.at \in {"link", "waiting", "poll"} => c.links = 0 /\ c.relinked,
         c.at \in Writing => cmd[p].at \in Writing /\ c.token = cmd[p].token,
         c.at = "post" => c.token # 0,
         c.at \notin {"taken", "refused"}
  PROVE  SubmitInv'
PROOF
  <1>0. /\ SubmitTypes /\ file.token \in Nat /\ server.issued \in Nat /\ file.token <= server.issued
        /\ stored \in Seq(BOOLEAN) /\ file \in TokenFile /\ server \in Server /\ MarkedTaken
        /\ OwnOK(p) /\ FreshOK(p)
    BY DEF SubmitInv, SubmitTypes, TokenFile, Server
  <1>1. cmd'[p] = c /\ \A q \in Procs \ {p} : cmd'[q] = cmd[q]
    BY <1>0 DEF SubmitTypes
  <1>2. cmd[p].token <= server.issued
    BY <1>0 DEF OwnOK
  <1>3. OwnOK(p)'
    <2>1. c.token <= server.issued
      BY <1>0, <1>2
    <2>2. c.at \in Writing => c.token # 0
      BY <1>0 DEF OwnOK
    <2>3. QED
      BY <1>1, <2>1, <2>2 DEF OwnOK
  <1>4. FreshOK(p)'
    BY <1>0, <1>1 DEF FreshOK
  <1>5. MarkedTaken'
    BY <1>0 DEF MarkedTaken
  <1>6. /\ stored' \in Seq(BOOLEAN) /\ file' \in TokenFile /\ server' \in Server
        /\ server.issued <= server'.issued /\ server.taken \subseteq server'.taken
        /\ file'.token <= server'.issued
        /\ file'.token \in {0, file.token}
    BY <1>0
  <1>7. c.token \in {0, cmd[p].token, file.token} \/ c.token > server.issued
    OBVIOUS
  <1>8. file'.token \in {0, file.token} \/ (cmd[p].at \in Writing /\ file'.token = cmd[p].token)
    BY <1>6
  <1>9. QED
    BY <1>3, <1>4, <1>5, <1>6, <1>7, <1>8, CommandMoves

\* A command ends, or becomes something that has no token of its own.
LEMMA CommandEnds ==
  ASSUME SubmitInv, NEW p \in Procs, Becomes(p, Idle), UNCHANGED <<stored, server>>,
         file' \in TokenFile, file'.token \in {0, file.token}
  PROVE  SubmitInv'
PROOF
  <1>0. /\ SubmitTypes /\ file.token \in Nat /\ server.issued \in Nat /\ file.token <= server.issued
        /\ stored \in Seq(BOOLEAN) /\ server \in Server /\ MarkedTaken
    BY DEF SubmitInv, SubmitTypes, TokenFile, Server
  <1>1. cmd' = [cmd EXCEPT ![p] = Idle]
    BY DEF Becomes
  <1>2. cmd'[p] = Idle
    BY <1>0, <1>1 DEF SubmitTypes
  <1>3. OwnOK(p)' /\ FreshOK(p)'
    BY <1>0, <1>2, IdleCommand DEF OwnOK, FreshOK, Writing
  <1>4. MarkedTaken' /\ file'.token <= server'.issued
    BY <1>0 DEF MarkedTaken
  <1>5. /\ stored' \in Seq(BOOLEAN) /\ server' \in Server
        /\ server.issued <= server'.issued /\ server.taken \subseteq server'.taken
    BY <1>0
  <1>6. Idle \in Command /\ (Idle.token \in {0, cmd[p].token, file.token} \/ Idle.token > server.issued)
    BY IdleCommand
  <1>7. QED
    BY <1>1, <1>3, <1>4, <1>5, <1>6, CommandMoves

-----------------------------------------------------------------------------
(* Submitting: the steps *)

LEMMA RunnerSubmits ==
  ASSUME SubmitInv, NEW p \in Procs, Runner(p)
  PROVE  SubmitInv'
PROOF
  <1>0. SubmitTypes /\ cmd[p] \in Command /\ OwnOK(p)
    BY CommandFields DEF SubmitInv
  <1>1. ASSUME NEW at \in {"asking", "scored"}, At(p, at), UNCHANGED <<stored, file, server>>
        PROVE  SubmitInv'
    <2> DEFINE c == [cmd[p] EXCEPT !.at = at]
    <2>1. at \in Points
      BY DEF Points
    <2>2. c \in Command /\ c.at = at /\ c.token = cmd[p].token /\ c.links = cmd[p].links /\ c.relinked = cmd[p].relinked
      BY <1>0, <2>1, AtCommand
    <2>3. cmd' = [cmd EXCEPT ![p] = c]
      BY <1>1 DEF At, Becomes
    <2> HIDE DEF c
    <2>4. QED
      BY <1>0, <1>1, <2>2, <2>3, CommandAlone DEF OwnOK, Writing
  <1>2. ASSUME UNCHANGED <<cmd, stored, file, server>> PROVE SubmitInv'
    BY <1>2 DEF SubmitInv, SubmitTypes, MarkedTaken, OwnOK, FreshOK
  <1>3. ASSUME Begins(p) PROVE SubmitInv'
    BY <1>1, <1>3 DEF Begins, Runs
  <1>4. ASSUME NEW b, NEW failure, Scored(p, b, failure) PROVE SubmitInv'
    BY <1>1, <1>4 DEF Scored, Runs
  <1>5. ASSUME Falls(p) PROVE SubmitInv'
    BY <1>2, <1>5 DEF Falls, Runs
  <1>6. ASSUME NEW reply \in Replies, Calls(p, reply) PROVE SubmitInv'
    BY <1>2, <1>4, <1>6 DEF Calls, Runs
  <1>7. ASSUME NextTask(p) PROVE SubmitInv'
    BY <1>1, <1>7 DEF NextTask, Runs
  <1>8. ASSUME Stores(p) PROVE SubmitInv'
    <2>1. /\ stored' = Append(stored, FALSE) /\ cmd' = [cmd EXCEPT ![p] = Idle] /\ UNCHANGED <<file, server>>
      BY <1>8 DEF Stores, Becomes
    <2>2. stored' \in Seq(BOOLEAN) /\ file \in TokenFile /\ server \in Server /\ server.issued \in Nat
          /\ file.token \in Nat /\ file.token <= server.issued
      BY <1>0, <2>1 DEF SubmitInv, SubmitTypes, TokenFile, Server
    <2>3. MarkedTaken'
      <3>1. \A id \in DOMAIN stored' : stored'[id] => id \in DOMAIN stored /\ stored[id]
        BY <1>0, <2>1 DEF SubmitTypes
      <3>2. QED
        BY <2>1, <3>1 DEF SubmitInv, MarkedTaken
    <2>4. cmd'[p] = Idle
      BY <1>0, <2>1 DEF SubmitTypes
    <2>5. OwnOK(p)' /\ FreshOK(p)'
      BY <2>1, <2>2, <2>4, IdleCommand DEF OwnOK, FreshOK, Writing
    <2>6. /\ server' \in Server /\ file' \in TokenFile /\ file'.token <= server'.issued
          /\ server.issued <= server'.issued /\ server.taken \subseteq server'.taken
          /\ file'.token \in {0, file.token}
      BY <2>1, <2>2
    <2>7. Idle \in Command /\ (Idle.token \in {0, cmd[p].token, file.token} \/ Idle.token > server.issued)
      BY IdleCommand
    <2>8. QED
      BY <2>1, <2>2, <2>3, <2>5, <2>6, <2>7, CommandMoves
  <1>9. ASSUME Rejected(p) PROVE SubmitInv'
    BY <1>4, <1>5, <1>9 DEF Rejected
  <1>10. ASSUME BackendFails(p) PROVE SubmitInv'
    BY <1>4, <1>10 DEF BackendFails
  <1>11. ASSUME NEW answer \in Answers, Answered(p, answer) PROVE SubmitInv'
    BY <1>4, <1>11 DEF Answered
  <1>12. QED
    BY <1>3, <1>6, <1>7, <1>8, <1>9, <1>10, <1>11 DEF Runner

\* Signing in: only Granted gives a token, one that nobody has seen.
LEMMA LinkSubmits ==
  ASSUME SubmitInv, NEW p \in Procs, DeviceLink(p)
  PROVE  SubmitInv'
PROOF
  <1>0. /\ SubmitTypes /\ cmd[p] \in Command /\ OwnOK(p)
        /\ cmd[p].at \in Points /\ cmd[p].token \in Nat /\ cmd[p].relinked \in BOOLEAN
        /\ cmd[p].links \in Nat /\ cmd[p].interval \in Nat /\ cmd[p].left \in Nat
    BY CommandFields DEF SubmitInv
  <1>1. ASSUME Becomes(p, Idle), UNCHANGED <<stored, file, server>> PROVE SubmitInv'
    BY <1>0, <1>1, CommandEnds DEF SubmitTypes
  <1>2. ASSUME cmd[p].at \in {"link", "waiting", "poll"}, UNCHANGED <<stored, file, server>>,
               NEW at \in {"waiting", "poll"}, NEW i \in Nat, NEW l \in Nat,
               NEW c, c = [at |-> at, id |-> cmd[p].id, token |-> cmd[p].token, relinked |-> cmd[p].relinked,
                           links |-> cmd[p].links, interval |-> i, left |-> l],
               Becomes(p, c)
        PROVE  SubmitInv'
    <2>1. c \in Command /\ c.at = at /\ c.token = cmd[p].token /\ c.links = cmd[p].links /\ c.relinked = cmd[p].relinked
      BY <1>0, <1>2, CommandFields DEF Command, Points
    <2>2. c.links = 0 /\ c.relinked /\ c.at \notin Writing \cup {"post", "taken", "refused"}
      BY <1>0, <1>2, <2>1 DEF OwnOK, Writing
    <2>3. cmd' = [cmd EXCEPT ![p] = c]
      BY <1>2 DEF Becomes
    <2>4. c.token \in {0, cmd[p].token, file.token} /\ c.links <= 1
      BY <2>1, <2>2
    <2>5. QED
      BY <1>2, <2>1, <2>2, <2>3, <2>4, CommandAlone
  <1> DEFINE At3(at, i, l) == [at |-> at, id |-> cmd[p].id, token |-> cmd[p].token, relinked |-> cmd[p].relinked,
                               links |-> cmd[p].links, interval |-> i, left |-> l]
  <1>3. ASSUME AskCode(p) PROVE SubmitInv'
    <2>1. CASE Becomes(p, Idle)
      BY <1>1, <1>3, <2>1 DEF AskCode, Submits
    <2>2. CASE ~Becomes(p, Idle)
      <3>1. PICK i \in Intervals, l \in Expires :
              Becomes(p, [cmd[p] EXCEPT !.at = "waiting", !.interval = i, !.left = l])
        BY <1>3, <2>2 DEF AskCode
      <3>2. i \in Nat /\ l \in Nat
        BY BenchAssumption
      <3>3. [cmd[p] EXCEPT !.at = "waiting", !.interval = i, !.left = l] = At3("waiting", i, l)
        BY <1>0, <3>2, CodeFields DEF Points
      <3>4. Becomes(p, At3("waiting", i, l))
        BY <3>1, <3>3
      <3> HIDE DEF At3
      <3>5. cmd[p].at = "link" /\ UNCHANGED <<stored, file, server>>
        BY <1>3 DEF AskCode, Submits
      <3>6. QED
        BY <1>2, <3>2, <3>4, <3>5 DEF At3
    <2>3. QED
      BY <2>1, <2>2
  <1>4. ASSUME Sleep(p) PROVE SubmitInv'
    <2>1. CASE cmd[p].interval >= cmd[p].left
      BY <1>1, <1>4, <2>1 DEF Sleep, Submits
    <2>2. CASE ~(cmd[p].interval >= cmd[p].left)
      <3> DEFINE l == cmd[p].left - cmd[p].interval
      <3>1. Becomes(p, [cmd[p] EXCEPT !.at = "poll", !.left = @ - cmd[p].interval]) /\ l \in Nat
        BY <1>0, <1>4, <2>2 DEF Sleep
      <3>2. [cmd[p] EXCEPT !.at = "poll", !.left = @ - cmd[p].interval] = At3("poll", cmd[p].interval, l)
        <4>1. [cmd[p] EXCEPT !.at = "poll", !.left = l] = At3("poll", cmd[p].interval, l)
          BY <1>0, <3>1, SleepFields DEF Points
        <4>2. QED
          BY <1>0, <4>1
      <3>3. Becomes(p, At3("poll", cmd[p].interval, l))
        BY <3>1, <3>2
      <3> HIDE DEF At3, l
      <3>4. cmd[p].at = "waiting" /\ UNCHANGED <<stored, file, server>>
        BY <1>4 DEF Sleep, Submits
      <3>5. QED
        BY <1>0, <1>2, <3>1, <3>3, <3>4 DEF At3
    <2>3. QED
      BY <2>1, <2>2
  <1>5. ASSUME Poll(p) PROVE SubmitInv'
    <2>1. CASE Becomes(p, Idle)
      BY <1>1, <1>5, <2>1 DEF Poll, Submits
    <2>2. CASE ~Becomes(p, Idle)
      <3>1. PICK i \in {cmd[p].interval, cmd[p].interval + 1} : Becomes(p, At3("waiting", i, cmd[p].left))
        <4>1. [cmd[p] EXCEPT !.at = "waiting"] = At3("waiting", cmd[p].interval, cmd[p].left)
          BY <1>0, OneField
        <4>2. [cmd[p] EXCEPT !.at = "waiting", !.interval = @ + 1] = At3("waiting", cmd[p].interval + 1, cmd[p].left)
          <5>1. [cmd[p] EXCEPT !.at = "waiting", !.interval = cmd[p].interval + 1]
                  = At3("waiting", cmd[p].interval + 1, cmd[p].left)
            <6>1. cmd[p].interval + 1 \in Nat /\ "waiting" \in Points
              BY <1>0 DEF Points
            <6> HIDE DEF At3
            <6>2. QED
              BY <1>0, <6>1, PollFields DEF At3
          <5>2. QED
            BY <1>0, <5>1
        <4> HIDE DEF At3
        <4>3. QED
          BY <1>5, <2>2, <4>1, <4>2 DEF Poll, At
      <3> HIDE DEF At3
      <3>2. cmd[p].at = "poll" /\ UNCHANGED <<stored, file, server>> /\ i \in Nat
        BY <1>0, <1>5 DEF Poll, Submits
      <3>3. QED
        BY <1>0, <1>2, <3>1, <3>2 DEF At3
    <2>3. QED
      BY <2>1, <2>2
  <1>6. ASSUME Granted(p) PROVE SubmitInv'
    <2> DEFINE t == server.issued + 1
               c == [at |-> "unlinks", id |-> cmd[p].id, token |-> t, relinked |-> cmd[p].relinked,
                     links |-> cmd[p].links + 1, interval |-> cmd[p].interval, left |-> cmd[p].left]
               s == [accepts |-> server.accepts \cup {t}, issued |-> t, taken |-> server.taken]
    <2>1. server \in Server /\ server.issued \in Nat /\ file \in TokenFile /\ file.token \in Nat
          /\ file.token <= server.issued /\ stored \in Seq(BOOLEAN)
      BY DEF SubmitInv, SubmitTypes, TokenFile, Server
    <2>2. [cmd[p] EXCEPT !.at = "unlinks", !.token = t, !.links = @ + 1] = c
      <3>1. [cmd[p] EXCEPT !.at = "unlinks", !.token = t, !.links = cmd[p].links + 1] = c
        <4>1. ASSUME NEW m \in Nat, NEW n \in Nat
              PROVE  [cmd[p] EXCEPT !.at = "unlinks", !.token = m, !.links = n]
                       = [at |-> "unlinks", id |-> cmd[p].id, token |-> m, relinked |-> cmd[p].relinked,
                          links |-> n, interval |-> cmd[p].interval, left |-> cmd[p].left]
          <5>1. "unlinks" \in Points /\ cmd[p] \in Command
            BY <1>0 DEF Points, Writing
          <5>2. QED
            BY <5>1, TokenFields, Zenon
        <4>2. t \in Nat /\ cmd[p].links + 1 \in Nat
          BY <1>0, <2>1
        <4> HIDE DEF t
        <4>3. QED
          BY <4>1, <4>2
      <3>2. QED
        BY <1>0, <3>1
    <2>3. [server EXCEPT !.issued = t, !.accepts = @ \cup {t}] = s
      <3> DEFINE a == [server EXCEPT !.issued = t]
      <3>1. a = [accepts |-> server.accepts, issued |-> t, taken |-> server.taken]
        BY <2>1 DEF Server
      <3>2. a.accepts = server.accepts /\ a.taken = server.taken /\ a.issued = t /\ a \in [accepts : SUBSET Nat, issued : {t}, taken : SUBSET Nat]
        BY <2>1, <3>1 DEF Server
      <3> HIDE DEF a
      <3>3. [a EXCEPT !.accepts = @ \cup {t}] = s
        BY <3>2
      <3>4. QED
        BY <3>3 DEF a
    <2>4. cmd' = [cmd EXCEPT ![p] = c] /\ server' = s /\ cmd[p].at = "poll" /\ UNCHANGED <<stored, file>>
      BY <1>6, <2>2, <2>3 DEF Granted, Becomes, Submits
    <2>5. t \in Nat /\ t > server.issued
      BY <2>1
    <2>6. c \in Command /\ s \in Server /\ s.issued = t /\ s.taken = server.taken
      BY <1>0, <2>1, <2>5, CommandFields DEF Command, Points, Writing, Server
    <2>7. c.at = "unlinks" /\ c.token = t /\ c.links = 1 /\ c.relinked
      BY <1>0, <2>4 DEF OwnOK
    <2> HIDE DEF c, s
    <2>8. cmd'[p] = c /\ \A q \in Procs \ {p} : cmd'[q] = cmd[q]
      BY <1>0, <2>4 DEF SubmitTypes
    <2>9. OwnOK(p)'
      BY <2>1, <2>4, <2>5, <2>6, <2>7, <2>8 DEF OwnOK, Writing
    <2>10. \A q \in Procs \ {p} : cmd[q].token \in Nat /\ cmd[q].token <= server.issued
      BY <1>0, CommandFields DEF SubmitInv, OwnOK
    <2>11. FreshOK(p)'
      <3>1. \A q \in Procs \ {p} : cmd'[q].token # t
        BY <2>1, <2>5, <2>8, <2>10
      <3>2. file'.token # t
        BY <2>1, <2>4, <2>5
      <3>3. QED
        BY <2>7, <2>8, <3>1, <3>2 DEF FreshOK
    <2>12. MarkedTaken'
      BY <2>4, <2>6 DEF SubmitInv, MarkedTaken
    <2>13. server.issued <= server'.issued /\ file'.token <= server'.issued
      BY <2>1, <2>4, <2>5, <2>6
    <2>14. QED
      BY <2>1, <2>4, <2>5, <2>6, <2>7, <2>9, <2>11, <2>12, <2>13, CommandMoves
  <1>7. QED
    BY <1>3, <1>4, <1>5, <1>6 DEF DeviceLink

\* write_link_token: the file is emptied and made, and what is written to it is the
\* writer's own token, if it is the writer's file still.
LEMMA WriteStep ==
  ASSUME SubmitInv, NEW p \in Procs, cmd[p].at \in Writing, NEW at \in Writing \cup {"post"}, At(p, at),
         UNCHANGED <<stored, server>>, file' \in TokenFile,
         \/ file'.token = 0
         \/ at = "post" /\ file'.token \in {file.token, cmd[p].token}
  PROVE  SubmitInv'
PROOF
  <1> DEFINE c == [cmd[p] EXCEPT !.at = at]
  <1>0. /\ SubmitTypes /\ file.token \in Nat /\ server.issued \in Nat /\ file.token <= server.issued
        /\ stored \in Seq(BOOLEAN) /\ server \in Server /\ MarkedTaken
        /\ cmd[p] \in Command /\ cmd[p].token \in Nat /\ OwnOK(p) /\ FreshOK(p)
    BY CommandFields DEF SubmitInv, SubmitTypes, TokenFile, Server
  <1>1. /\ c \in Command /\ c.at = at /\ c.token = cmd[p].token /\ c.links = cmd[p].links /\ c.relinked = cmd[p].relinked
    BY <1>0, AtCommand DEF Points
  <1>2. cmd' = [cmd EXCEPT ![p] = c]
    BY DEF At, Becomes
  <1> HIDE DEF c
  <1>3. cmd'[p] = c /\ \A q \in Procs \ {p} : cmd'[q] = cmd[q]
    BY <1>0, <1>2 DEF SubmitTypes
  <1>4. cmd[p].token # 0 /\ cmd[p].token <= server.issued
    BY <1>0 DEF OwnOK
  <1>5. OwnOK(p)'
    BY <1>0, <1>1, <1>3, <1>4 DEF OwnOK, Writing
  <1>6. FreshOK(p)'
    <2>1. ASSUME at \in Writing PROVE file'.token # cmd[p].token
      BY <1>4, <2>1 DEF Writing
    <2>2. QED
      BY <1>0, <1>1, <1>3, <2>1 DEF FreshOK
  <1>7. MarkedTaken' /\ file'.token <= server'.issued
    BY <1>0, <1>4 DEF MarkedTaken
  <1>8. /\ stored' \in Seq(BOOLEAN) /\ server' \in Server
        /\ server.issued <= server'.issued /\ server.taken \subseteq server'.taken
    BY <1>0
  <1>9. c.token \in {0, cmd[p].token, file.token} \/ c.token > server.issued
    BY <1>1
  <1>10. file'.token \in {0, file.token} \/ (cmd[p].at \in Writing /\ file'.token = cmd[p].token)
    OBVIOUS
  <1>11. QED
    BY <1>1, <1>2, <1>5, <1>6, <1>7, <1>8, <1>9, <1>10, CommandMoves

\* A command that has no token to write: it goes on with the token it has, and the
\* leaderboard may take the run.
LEMMA PostStep ==
  ASSUME SubmitInv, NEW p \in Procs, cmd[p].at = "post", NEW c \in Command, Becomes(p, c), UNCHANGED stored,
         c.token = cmd[p].token, c.links <= 1 /\ (c.links = 1 => c.relinked),
         c.at \in {"link", "taken", "refused"}, c.at = "link" => c.links = 0 /\ c.relinked,
         c.at = "taken" => c.id \in server'.taken,
         c.at = "refused" => file'.token # c.token,
         file' \in TokenFile, file'.token \in {0, file.token},
         server' \in Server, server'.issued = server.issued, server.taken \subseteq server'.taken
  PROVE  SubmitInv'
PROOF
  <1>0. /\ SubmitTypes /\ file.token \in Nat /\ server.issued \in Nat /\ file.token <= server.issued
        /\ stored \in Seq(BOOLEAN) /\ MarkedTaken
        /\ cmd[p] \in Command /\ cmd[p].token \in Nat /\ OwnOK(p)
    BY CommandFields DEF SubmitInv, SubmitTypes, TokenFile, Server
  <1>1. cmd' = [cmd EXCEPT ![p] = c]
    BY DEF Becomes
  <1>2. cmd'[p] = c
    BY <1>0, <1>1 DEF SubmitTypes
  <1>3. cmd[p].token # 0 /\ cmd[p].token <= server.issued
    BY <1>0 DEF OwnOK
  <1>4. OwnOK(p)' /\ FreshOK(p)'
    BY <1>2, <1>3 DEF OwnOK, FreshOK, Writing
  <1>5. MarkedTaken' /\ file'.token <= server'.issued /\ server.issued <= server'.issued
    BY <1>0 DEF MarkedTaken
  <1>6. stored' \in Seq(BOOLEAN)
    BY <1>0
  <1>7. QED
    BY <1>1, <1>4, <1>5, <1>6, CommandMoves

LEMMA SubmitStoredKeeps ==
  ASSUME SubmitInv, NEW p \in Procs, NEW id \in DOMAIN stored, SubmitStored(p, id)
  PROVE  SubmitInv'
PROOF
  <1> DEFINE none == file.token = 0
             at == IF none THEN "link" ELSE "post"
             c == [at |-> at, id |-> id, token |-> file.token, relinked |-> none, links |-> 0, interval |-> 0, left |-> 0]
  <1>0. id \in Nat /\ file.token \in Nat /\ at \in {"link", "post"} /\ none \in BOOLEAN
    BY DEF SubmitInv, SubmitTypes, TokenFile
  <1>1. [Idle EXCEPT !.at = at, !.id = id, !.token = file.token, !.relinked = none] = c
    <2> HIDE DEF at, none
    <2> DEFINE a == [Idle EXCEPT !.at = at]
               b == [a EXCEPT !.id = id]
               d == [b EXCEPT !.token = file.token]
               e == [d EXCEPT !.relinked = none]
    <2>1. a \in Command /\ a = [Idle EXCEPT !.at = at]
      BY <1>0, IdleCommand, AtCommand DEF Points
    <2>2. /\ a.at = at /\ a.token = 0 /\ a.relinked = FALSE /\ a.links = 0 /\ a.interval = 0 /\ a.left = 0
      <3>1. a = [at |-> at, id |-> Idle.id, token |-> Idle.token, relinked |-> Idle.relinked,
                 links |-> Idle.links, interval |-> Idle.interval, left |-> Idle.left]
        BY IdleCommand, OneField
      <3>2. QED
        BY <3>1, IdleCommand
    <2> HIDE DEF a
    <2>3. /\ b = [at |-> a.at, id |-> id, token |-> a.token, relinked |-> a.relinked,
                  links |-> a.links, interval |-> a.interval, left |-> a.left]
      BY <2>1, OtherField
    <2>4. /\ b \in Command /\ b.id = id
          /\ b.at = at /\ b.token = 0 /\ b.relinked = FALSE /\ b.links = 0 /\ b.interval = 0 /\ b.left = 0
      <3>1. b.id = id /\ b.at = a.at /\ b.token = a.token /\ b.relinked = a.relinked
            /\ b.links = a.links /\ b.interval = a.interval /\ b.left = a.left
        BY <2>3
      <3>2. b \in Command
        BY <1>0, <2>1, <2>3 DEF Command
      <3>3. QED
        BY <2>2, <3>1, <3>2
    <2> HIDE DEF b
    <2>5. /\ d = [at |-> b.at, id |-> b.id, token |-> file.token, relinked |-> b.relinked,
                  links |-> b.links, interval |-> b.interval, left |-> b.left]
      BY <2>4, OneField
    <2>6. /\ d \in Command /\ d.id = id /\ d.token = file.token
          /\ d.at = at /\ d.relinked = FALSE /\ d.links = 0 /\ d.interval = 0 /\ d.left = 0
      BY <1>0, <2>4, <2>5 DEF Command, Points
    <2> HIDE DEF d
    <2>7. e = [at |-> d.at, id |-> d.id, token |-> d.token, relinked |-> none,
               links |-> d.links, interval |-> d.interval, left |-> d.left]
      BY <2>6, OtherField
    <2>8. e = c
      BY <2>6, <2>7
    <2> HIDE DEF c
    <2>9. QED
      BY <2>8 DEF a, b, d, e
  <1>2. cmd' = [cmd EXCEPT ![p] = c] /\ UNCHANGED <<stored, file, server>>
    <2> HIDE DEF c
    <2>1. QED
      BY <1>1 DEF SubmitStored, Becomes, Submits
  <1>3. c \in Command
    BY <1>0 DEF Command, Points
  <1>4. c.at = at /\ c.token = file.token /\ c.links = 0 /\ (c.relinked <=> none)
    OBVIOUS
  <1>5. c.at \notin Writing \cup {"waiting", "poll", "taken", "refused"} /\ (c.at = "link" => none) /\ (c.at = "post" => ~none)
    BY <1>4 DEF Writing
  <1> HIDE DEF c, at
  <1>6. c.token \in {0, cmd[p].token, file.token} /\ c.links <= 1
    BY <1>4
  <1>7. c.links <= 1 /\ (c.links = 1 => c.relinked)
        /\ (c.at \in {"link", "waiting", "poll"} => c.links = 0 /\ c.relinked)
        /\ (c.at \in Writing => cmd[p].at \in Writing /\ c.token = cmd[p].token)
        /\ (c.at = "post" => c.token # 0) /\ c.at \notin {"taken", "refused"}
    BY <1>4, <1>5
  <1> HIDE DEF none
  <1>8. QED
    BY <1>2, <1>3, <1>6, <1>7, CommandAlone

LEMMA SubmitLinkedKeeps ==
  ASSUME SubmitInv, NEW p \in Procs, SubmitLinked(p)
  PROVE  SubmitInv'
PROOF
  <1>0. /\ SubmitTypes /\ cmd[p] \in Command /\ OwnOK(p)
        /\ file \in TokenFile /\ file.token \in Nat /\ server \in Server /\ stored \in Seq(BOOLEAN)
        /\ server.issued \in Nat /\ server.taken \subseteq Nat /\ file.token <= server.issued
        /\ cmd[p].id \in Nat /\ cmd[p].token \in Nat
    BY CommandFields DEF SubmitInv, SubmitTypes, TokenFile, Server
  <1>1. ASSUME NEW id \in DOMAIN stored, SubmitStored(p, id) PROVE SubmitInv'
    BY <1>1, SubmitStoredKeeps
  <1>2. ASSUME Unlinks(p) PROVE SubmitInv'
    BY <1>2, WriteStep, IdleCommand DEF Unlinks, Submits, Writing
  <1>3. ASSUME Creates(p) PROVE SubmitInv'
    <2>1. CASE file = NoFile
      <3> DEFINE f == [by |-> p, token |-> 0]
      <3>1. f \in TokenFile /\ f.token = 0
        BY DEF TokenFile
      <3>2. file' = f /\ At(p, "writes") /\ cmd[p].at = "creates" /\ UNCHANGED <<stored, server>>
        BY <1>3, <2>1 DEF Creates, Submits
      <3> HIDE DEF f
      <3>3. QED
        BY <3>1, <3>2, WriteStep DEF Writing
    <2>2. CASE file # NoFile
      BY <1>0, <1>3, <2>2, CommandEnds DEF Creates, Submits
    <2>3. QED
      BY <2>1, <2>2
  <1>4. ASSUME Writes(p) PROVE SubmitInv'
    <2>1. cmd[p].at = "writes" /\ At(p, "post") /\ UNCHANGED <<stored, server>>
      BY <1>4 DEF Writes, Submits
    <2>2. file' \in TokenFile /\ file'.token \in {file.token, cmd[p].token}
      BY <1>0, <1>4 DEF Writes, TokenFile
    <2>3. QED
      BY <2>1, <2>2, WriteStep DEF Writing
  <1>5. ASSUME Taken(p) PROVE SubmitInv'
    <2> DEFINE s == [accepts |-> server.accepts, issued |-> server.issued, taken |-> server.taken \cup {cmd[p].id}]
    <2>1. s \in Server /\ s.issued = server.issued /\ s.taken = server.taken \cup {cmd[p].id}
      BY <1>0 DEF Server
    <2>2. server' = s
      BY <1>0, <1>5 DEF Taken, Server
    <2> HIDE DEF s
    <2>3. cmd[p].at = "post" /\ UNCHANGED <<stored, file>> /\ (At(p, "taken") \/ Becomes(p, Idle))
      BY <1>5 DEF Taken, Submits
    <2>4. CASE At(p, "taken")
      <3> DEFINE c == [cmd[p] EXCEPT !.at = "taken"]
      <3>1. /\ c \in Command /\ c.at = "taken" /\ c.id = cmd[p].id
            /\ c.token = cmd[p].token /\ c.links = cmd[p].links /\ c.relinked = cmd[p].relinked
        BY <1>0, AtCommand DEF Points
      <3>2. Becomes(p, c)
        BY <2>4 DEF At
      <3> HIDE DEF c
      <3>3. c.id \in server'.taken /\ server'.issued = server.issued /\ server.taken \subseteq server'.taken
        BY <2>1, <2>2, <3>1
      <3>4. c.links <= 1 /\ (c.links = 1 => c.relinked)
        BY <1>0, <3>1 DEF OwnOK
      <3>5. QED
        BY <1>0, <2>1, <2>2, <2>3, <3>1, <3>2, <3>3, <3>4, PostStep
    <2>5. CASE Becomes(p, Idle)
      <3>1. cmd' = [cmd EXCEPT ![p] = Idle] /\ cmd'[p] = Idle
        BY <1>0, <2>5 DEF Becomes, SubmitTypes
      <3>2. OwnOK(p)' /\ FreshOK(p)'
        BY <1>0, <2>1, <2>2, <3>1, IdleCommand DEF OwnOK, FreshOK, Writing
      <3>3. MarkedTaken'
        BY <2>1, <2>2, <2>3 DEF SubmitInv, MarkedTaken
      <3>4. /\ stored' \in Seq(BOOLEAN) /\ server' \in Server /\ file' \in TokenFile
            /\ server.issued <= server'.issued /\ server.taken \subseteq server'.taken
            /\ file'.token <= server'.issued /\ file'.token \in {0, file.token}
        BY <1>0, <2>1, <2>2, <2>3
      <3>5. Idle \in Command /\ (Idle.token \in {0, cmd[p].token, file.token} \/ Idle.token > server.issued)
        BY IdleCommand
      <3>6. QED
        BY <3>1, <3>2, <3>3, <3>4, <3>5, CommandMoves
    <2>6. QED
      BY <2>3, <2>4, <2>5
  <1>6. ASSUME NotTaken(p) \/ Ends(p) PROVE SubmitInv'
    BY <1>0, <1>6, CommandEnds DEF NotTaken, Ends, Submits
  <1>7. ASSUME TokenRefused(p) PROVE SubmitInv'
    <2>1. cmd[p].at = "post" /\ file' = NoFile /\ UNCHANGED <<stored, server>>
      BY <1>7 DEF TokenRefused, Submits
    <2>2. cmd[p].token # 0 /\ cmd[p].links <= 1 /\ (cmd[p].links = 1 => cmd[p].relinked)
      BY <1>0, <2>1 DEF OwnOK
    <2>3. server' \in Server /\ server'.issued = server.issued /\ server.taken \subseteq server'.taken
      BY <1>0, <2>1
    <2>4. CASE At(p, "refused")
      <3> DEFINE c == [cmd[p] EXCEPT !.at = "refused"]
      <3>1. /\ c \in Command /\ c.at = "refused"
            /\ c.token = cmd[p].token /\ c.links = cmd[p].links /\ c.relinked = cmd[p].relinked
        BY <1>0, AtCommand DEF Points
      <3>2. Becomes(p, c)
        BY <2>4 DEF At
      <3> HIDE DEF c
      <3>3. file'.token # c.token
        BY <2>1, <2>2, <3>1, IdleCommand
      <3>4. QED
        BY <2>1, <2>2, <2>3, <3>1, <3>2, <3>3, PostStep, IdleCommand
    <2>5. CASE ~cmd[p].relinked /\ Becomes(p, [cmd[p] EXCEPT !.at = "link", !.relinked = TRUE])
      <3> DEFINE a == [cmd[p] EXCEPT !.at = "link"]
                 c == [a EXCEPT !.relinked = TRUE]
      <3>1. a \in Command /\ a.at = "link" /\ a.token = cmd[p].token /\ a.links = cmd[p].links
        BY <1>0, AtCommand DEF Points
      <3> HIDE DEF a
      <3>2. c \in Command /\ c.at = "link" /\ c.token = cmd[p].token /\ c.links = cmd[p].links /\ c.relinked
        BY <3>1 DEF Command
      <3>3. Becomes(p, c)
        BY <2>5 DEF a
      <3> HIDE DEF c
      <3>4. c.links = 0
        BY <1>0, <2>2, <2>5, <3>2, CommandFields
      <3>5. QED
        BY <2>1, <2>2, <2>3, <3>2, <3>3, <3>4, PostStep, IdleCommand
    <2>6. QED
      BY <1>7, <2>4, <2>5 DEF TokenRefused
  <1>8. ASSUME Marks(p) PROVE SubmitInv'
    <2>1. /\ stored' = [stored EXCEPT ![cmd[p].id] = TRUE] /\ cmd' = [cmd EXCEPT ![p] = Idle]
          /\ UNCHANGED <<file, server>> /\ cmd[p].id \in server.taken
      BY <1>0, <1>8 DEF Marks, Becomes, OwnOK
    <2>2. stored' \in Seq(BOOLEAN) /\ MarkedTaken'
      <3>1. stored' \in Seq(BOOLEAN) /\ DOMAIN stored' = DOMAIN stored
        <4>1. DOMAIN stored = 1..Len(stored) /\ Len(stored) \in Nat /\ \A id \in DOMAIN stored : stored[id] \in BOOLEAN
          BY <1>0
        <4>2. DOMAIN stored' = DOMAIN stored /\ \A id \in DOMAIN stored : stored'[id] \in BOOLEAN
          BY <2>1, <4>1
        <4>3. stored' = [id \in 1..Len(stored) |-> stored'[id]]
          BY <2>1, <4>1
        <4>4. QED
          BY <4>1, <4>2, <4>3
      <3>2. \A id \in DOMAIN stored : id # cmd[p].id => stored'[id] = stored[id]
        BY <2>1
      <3>3. QED
        BY <2>1, <3>1, <3>2 DEF SubmitInv, MarkedTaken
    <2>3. cmd'[p] = Idle
      BY <1>0, <2>1 DEF SubmitTypes
    <2>4. OwnOK(p)' /\ FreshOK(p)'
      BY <1>0, <2>1, <2>3, IdleCommand DEF OwnOK, FreshOK, Writing
    <2>5. /\ server' \in Server /\ file' \in TokenFile /\ file'.token <= server'.issued
          /\ server.issued <= server'.issued /\ server.taken \subseteq server'.taken
          /\ file'.token \in {0, file.token}
      BY <1>0, <2>1
    <2>6. Idle \in Command /\ (Idle.token \in {0, cmd[p].token, file.token} \/ Idle.token > server.issued)
      BY IdleCommand
    <2>7. QED
      BY <2>1, <2>2, <2>4, <2>5, <2>6, CommandMoves
  <1>9. QED
    BY <1>1, <1>2, <1>3, <1>4, <1>5, <1>6, <1>7, <1>8 DEF SubmitLinked

\* The server no longer accepts some tokens.
LEMMA TokensEnd ==
  ASSUME SubmitInv, NEW T, server' = [server EXCEPT !.accepts = server.accepts \ T]
  PROVE  server' \in Server /\ server'.issued = server.issued /\ server'.taken = server.taken
PROOF
  <1>1. server \in Server
    BY DEF SubmitInv, SubmitTypes
  <1>2. QED
    BY <1>1 DEF Server

LEMMA SignOutKeeps ==
  ASSUME SubmitInv, NEW p \in Procs, SignOut(p) \/ Revokes(p) \/ Removes(p) \/ Dies(p)
  PROVE  SubmitInv'
PROOF
  <1>0. /\ SubmitTypes /\ cmd[p] \in Command /\ OwnOK(p)
        /\ file \in TokenFile /\ file.token \in Nat /\ server \in Server /\ stored \in Seq(BOOLEAN)
        /\ server.issued \in Nat /\ file.token <= server.issued
    BY CommandFields DEF SubmitInv, SubmitTypes, TokenFile, Server
  <1>1. ASSUME SignOut(p) PROVE SubmitInv'
    <2> DEFINE c == [at |-> "revokes", id |-> 0, token |-> file.token, relinked |-> FALSE, links |-> 0,
                     interval |-> 0, left |-> 0]
    <2>1. [Idle EXCEPT !.at = "revokes", !.token = file.token] = c
      <3> DEFINE a == [Idle EXCEPT !.at = "revokes"]
      <3>1. a \in Command /\ a = [at |-> "revokes", id |-> Idle.id, token |-> Idle.token, relinked |-> Idle.relinked,
                 links |-> Idle.links, interval |-> Idle.interval, left |-> Idle.left]
        BY IdleCommand, OneField, AtCommand DEF Points
      <3>2. /\ a.at = "revokes" /\ a.id = 0 /\ a.relinked = FALSE /\ a.links = 0 /\ a.interval = 0 /\ a.left = 0
        BY <3>1, IdleCommand
      <3>3. a \in Command
        BY <3>1
      <3> HIDE DEF a
      <3>4. [a EXCEPT !.token = file.token]
              = [at |-> a.at, id |-> a.id, token |-> file.token, relinked |-> a.relinked,
                 links |-> a.links, interval |-> a.interval, left |-> a.left]
        BY <3>3, OneField
      <3>5. QED
        BY <3>2, <3>4 DEF a
    <2>2. c \in Command
      BY <1>0 DEF Command, Points
    <2>3. c.at = "revokes" /\ c.token = file.token /\ c.links = 0
      OBVIOUS
    <2> HIDE DEF c
    <2>4. cmd' = [cmd EXCEPT ![p] = c] /\ UNCHANGED <<stored, file, server>>
      BY <1>1, <2>1 DEF SignOut, Becomes, Submits
    <2>5. c.token \in {0, cmd[p].token, file.token} /\ c.links <= 1
      BY <2>3
    <2>6. QED
      <3>1. c.links <= 1 /\ (c.links = 1 => c.relinked)
            /\ (c.at \in {"link", "waiting", "poll"} => c.links = 0 /\ c.relinked)
            /\ (c.at \in Writing => cmd[p].at \in Writing /\ c.token = cmd[p].token)
            /\ (c.at = "post" => c.token # 0) /\ c.at \notin {"taken", "refused"}
        BY <2>3 DEF Writing
      <3>2. QED
        BY <2>2, <2>4, <2>5, <3>1, CommandAlone
  <1>2. ASSUME Revokes(p) PROVE SubmitInv'
    <2> DEFINE c == [cmd[p] EXCEPT !.at = "removes"]
    <2>1. /\ c \in Command /\ c.at = "removes" /\ c.token = cmd[p].token /\ c.links = cmd[p].links
          /\ c.relinked = cmd[p].relinked
      BY <1>0, AtCommand DEF Points
    <2>2. cmd' = [cmd EXCEPT ![p] = c] /\ UNCHANGED <<stored, file>>
      BY <1>2 DEF Revokes, At, Becomes, Submits
    <2> HIDE DEF c
    <2>3. server' \in Server /\ server'.issued = server.issued /\ server'.taken = server.taken
      BY <1>0, <1>2, TokensEnd DEF Revokes
    <2>4. cmd'[p] = c
      BY <1>0, <2>2 DEF SubmitTypes
    <2>5. OwnOK(p)' /\ FreshOK(p)'
      BY <1>0, <2>1, <2>3, <2>4 DEF OwnOK, FreshOK, Writing
    <2>6. MarkedTaken'
      BY <2>2, <2>3 DEF SubmitInv, MarkedTaken
    <2>7. /\ stored' \in Seq(BOOLEAN) /\ file' \in TokenFile /\ file'.token <= server'.issued
          /\ server.issued <= server'.issued /\ server.taken \subseteq server'.taken
          /\ file'.token \in {0, file.token}
      BY <1>0, <2>2, <2>3
    <2>8. c.token \in {0, cmd[p].token, file.token} \/ c.token > server.issued
      BY <2>1
    <2>9. QED
      BY <2>1, <2>2, <2>3, <2>5, <2>6, <2>7, <2>8, CommandMoves
  <1>3. ASSUME Removes(p) PROVE SubmitInv'
    BY <1>3, CommandEnds, IdleCommand DEF Removes, Submits
  <1>4. ASSUME Dies(p) PROVE SubmitInv'
    BY <1>0, <1>4, CommandEnds DEF Dies
  <1>5. QED
    BY <1>1, <1>2, <1>3, <1>4

LEMMA SubmitNext == SubmitInv /\ [Next]_vars => SubmitInv'
PROOF
  <1> SUFFICES ASSUME SubmitInv, [Next]_vars PROVE SubmitInv'
    OBVIOUS
  <1>1. ASSUME NEW p \in Procs,
               \/ Runner(p) \/ DeviceLink(p) \/ SubmitLinked(p)
               \/ SignOut(p) \/ Revokes(p) \/ Removes(p) \/ Dies(p)
        PROVE  SubmitInv'
    BY <1>1, RunnerSubmits, LinkSubmits, SubmitLinkedKeeps, SignOutKeeps
  <1>2. ASSUME UNCHANGED <<cmd, stored, file>>, server' \in Server, server'.issued = server.issued,
               server'.taken = server.taken
        PROVE  SubmitInv'
    BY <1>2 DEF SubmitInv, SubmitTypes, MarkedTaken, OwnOK, FreshOK
  <1>3. ASSUME NEW t \in server.accepts, TokenEnds(t) PROVE SubmitInv'
    BY <1>2, <1>3, TokensEnd DEF TokenEnds
  <1>4. CASE UNCHANGED vars
    BY <1>2, <1>4 DEF vars, SubmitInv, SubmitTypes
  <1>5. QED
    BY <1>1, <1>3, <1>4 DEF Next

LEMMA SubmitInit == Init => SubmitInv
PROOF
  <1> SUFFICES ASSUME Init PROVE SubmitInv
    OBVIOUS
  <1>1. /\ cmd = [p \in Procs |-> Idle] /\ stored = <<>> /\ file = NoFile
        /\ server = [accepts |-> {}, issued |-> 0, taken |-> {}]
    BY DEF Init
  <1>2. server \in Server /\ server.issued = 0 /\ stored \in Seq(BOOLEAN) /\ DOMAIN stored = {}
    BY <1>1 DEF Server
  <1>3. SubmitTypes /\ file.token = 0
    BY <1>1, <1>2, IdleCommand DEF SubmitTypes
  <1>4. \A p \in Procs : OwnOK(p) /\ FreshOK(p)
    BY <1>1, <1>2, IdleCommand DEF OwnOK, FreshOK, Writing
  <1>5. QED
    BY <1>2, <1>3, <1>4 DEF SubmitInv, MarkedTaken

\* A submission signs in once at most, however often its token is refused; a run is
\* marked as submitted only when the leaderboard has it; a token given up is not in
\* the file, whatever other commands write, remove or lose there in between.
THEOREM SubmittedOnce == Spec => []SubmitsOnce
PROOF
  <1>1. SubmitInv => SubmitsOnce
    BY DEF SubmitInv, MarkedTaken, OwnOK, SubmitsOnce
  <1>2. QED
    BY <1>1, SubmitInit, SubmitNext, PTL DEF Spec

-----------------------------------------------------------------------------
(* What the scores are counted from *)

LEMMA LeastNumber ==
  ASSUME NEW S \in SUBSET Nat, S # {}
  PROVE  \E n \in S : \A m \in S : n <= m
PROOF
  <1> DEFINE less == OpToRel(<, Nat)
  <1>1. PICK n \in S : \A m \in S : ~(<<m, n>> \in less)
    BY NatLessThanWellFounded, WFMin
  <1>2. less = {p \in Nat \X Nat : p[1] < p[2]}
    BY Zenon DEF OpToRel
  <1> HIDE DEF less
  <1>3. ASSUME NEW m \in S PROVE n <= m
    <2>1. <<m, n>> \in Nat \X Nat /\ <<m, n>>[1] = m /\ <<m, n>>[2] = n
      OBVIOUS
    <2> QED BY <1>1, <1>2, <2>1
  <1> QED BY <1>3

\* A set that begins at 0 and goes on up to n holds all of it.
LEMMA Climbs ==
  ASSUME NEW n \in Nat, NEW S, 0 \in S, \A k \in 1..n : k - 1 \in S => k \in S
  PROVE  0..n \subseteq S
PROOF
  <1> DEFINE left == {k \in 0..n : k \notin S}
  <1>1. SUFFICES ASSUME left # {} PROVE FALSE
    OBVIOUS
  <1>2. left \in SUBSET Nat
    OBVIOUS
  <1>3. PICK k \in left : \A m \in left : k <= m
    BY <1>1, <1>2, LeastNumber
  <1>4. k # 0 /\ k \in 1..n /\ k - 1 \in 0..n /\ k - 1 \notin left
    BY <1>3
  <1> QED BY <1>3, <1>4

\* A value for every number up to n, each made from the one before it.
Upto(m, first, step, g) == g[0] = first /\ \A k \in 1..m : g[k] = step[k][g[k - 1]]

LEMMA Stepwise ==
  ASSUME NEW V, NEW first \in V, NEW n \in Nat, NEW step \in [1..n -> [V -> V]]
  PROVE  \E g \in [0..n -> V] : Upto(n, first, step, g)
PROOF
  <1> DEFINE some == {m \in 0..n : \E g \in [0..m -> V] : Upto(m, first, step, g)}
  <1>1. 0 \in some
    <2> DEFINE g == [i \in 0..0 |-> first]
    <2>1. g \in [0..0 -> V]
      OBVIOUS
    <2>2. g[0] = first
      OBVIOUS
    <2>3. Upto(0, first, step, g)
      BY <2>2 DEF Upto
    <2> QED BY <2>1, <2>3
  <1>2. ASSUME NEW m \in 1..n, m - 1 \in some PROVE m \in some
    <2>1. PICK g \in [0..(m - 1) -> V] : Upto(m - 1, first, step, g)
      BY <1>2
    <2>2. m - 1 \in 0..(m - 1) /\ g[m - 1] \in V /\ step[m] \in [V -> V]
      BY <2>1
    <2> DEFINE last == step[m][g[m - 1]]
               h == [k \in 0..m |-> IF k = m THEN last ELSE g[k]]
    <2>3. last \in V
      BY <2>2
    <2> HIDE DEF last
    <2>4. \A k \in 0..(m - 1) : h[k] = g[k] /\ k \in 0..m
      OBVIOUS
    <2>5. h[m] = last
      OBVIOUS
    <2>6. ASSUME NEW k \in 0..m PROVE h[k] \in V
      BY <2>3, <2>4, <2>1, <2>5
    <2>7. h \in [0..m -> V]
      BY <2>6
    <2> HIDE DEF h
    <2>8. h[0] = first
      BY <2>1, <2>4 DEF Upto
    <2>9. h[m] = step[m][h[m - 1]]
      BY <2>2, <2>4, <2>5 DEF last
    <2>10. ASSUME NEW k \in 1..m, k # m PROVE h[k] = step[k][h[k - 1]]
      <3>1. k \in 1..(m - 1) /\ k \in 0..(m - 1) /\ k - 1 \in 0..(m - 1)
        BY <2>10
      <3>2. g[k] = step[k][g[k - 1]]
        BY <2>1, <3>1 DEF Upto
      <3> QED BY <2>4, <3>1, <3>2
    <2>11. Upto(m, first, step, h)
      BY <2>8, <2>9, <2>10 DEF Upto
    <2> QED BY <2>7, <2>11
  <1> HIDE DEF some
  <1>3. 0..n \subseteq some
    BY <1>1, <1>2, Climbs
  <1>4. n \in some
    BY <1>3
  <1> QED BY <1>4 DEF some

\* kept[k] is what ValidCalls keeps of the first k calls.
Keep(call, kept) == IF call.valid THEN Append(kept, call) ELSE kept
Keeps(calls, kept) == kept[0] = <<>> /\ \A k \in 1..Len(calls) : kept[k] = Keep(calls[k], kept[k - 1])
KeepsAll(calls, kept) == kept = [k \in 0..Len(calls) |-> IF k = 0 THEN <<>> ELSE Keep(calls[k], kept[k - 1])]

LEMMA KeptOnes ==
  ASSUME NEW V, NEW calls \in Seq(V)
  PROVE  \E kept : KeepsAll(calls, kept)
PROOF
  <1> DEFINE step == [k \in 1..Len(calls) |-> [s \in Seq(V) |-> Keep(calls[k], s)]]
  <1>1. Len(calls) \in Nat /\ <<>> \in Seq(V) /\ \A k \in 1..Len(calls) : calls[k] \in V
    OBVIOUS
  <1>2. \A k \in 1..Len(calls), s \in Seq(V) : Keep(calls[k], s) \in Seq(V)
    BY <1>1 DEF Keep
  <1>3. step \in [1..Len(calls) -> [Seq(V) -> Seq(V)]]
    BY <1>2
  <1>4. \A k \in 1..Len(calls), s \in Seq(V) : step[k][s] = Keep(calls[k], s)
    OBVIOUS
  <1> HIDE DEF step
  <1>5. PICK g \in [0..Len(calls) -> Seq(V)] : Upto(Len(calls), <<>>, step, g)
    BY <1>1, <1>3, Stepwise
  <1>6. ASSUME NEW k \in 1..Len(calls) PROVE g[k] = Keep(calls[k], g[k - 1])
    <2>1. k - 1 \in 0..Len(calls)
      BY <1>1
    <2> QED BY <1>4, <1>5, <2>1 DEF Upto
  <1>7. g[0] = <<>>
    BY <1>5 DEF Upto
  <1>8. \A k \in 0..Len(calls) : g[k] = IF k = 0 THEN <<>> ELSE Keep(calls[k], g[k - 1])
    BY <1>1, <1>6, <1>7
  <1> QED BY <1>5, <1>8 DEF KeepsAll

LEMMA KeptByStep ==
  ASSUME NEW V, NEW calls \in Seq(V)
  PROVE  \E kept \in [0..Len(calls) -> Seq(V)] : Keeps(calls, kept) /\ ValidCalls(calls) = kept[Len(calls)]
PROOF
  <1> DEFINE h == CHOOSE g : KeepsAll(calls, g)
             typed == {k \in 0..Len(calls) : h[k] \in Seq(V)}
  <1>1. Len(calls) \in Nat /\ <<>> \in Seq(V) /\ \A k \in 1..Len(calls) : calls[k] \in V
    OBVIOUS
  <1>2. KeepsAll(calls, h)
    BY KeptOnes
  <1>3. ValidCalls(calls) = h[Len(calls)]
    BY DEF ValidCalls, KeepsAll, Keep
  <1> HIDE DEF h
  <1>4. h[0] = <<>> /\ \A k \in 1..Len(calls) : h[k] = Keep(calls[k], h[k - 1])
    BY <1>1, <1>2 DEF KeepsAll
  <1>5. 0 \in typed
    <2>1. 0 \in 0..Len(calls) /\ h[0] \in Seq(V)
      BY <1>1, <1>4
    <2> QED BY <2>1
  <1>6. ASSUME NEW k \in 1..Len(calls), k - 1 \in typed PROVE k \in typed
    <2>1. k \in 0..Len(calls) /\ h[k - 1] \in Seq(V) /\ h[k] = Keep(calls[k], h[k - 1])
      BY <1>1, <1>4, <1>6
    <2>2. h[k] \in Seq(V)
      BY <1>1, <2>1 DEF Keep
    <2> QED BY <2>1, <2>2
  <1> HIDE DEF typed
  <1>7. 0..Len(calls) \subseteq typed
    BY <1>1, <1>5, <1>6, Climbs
  <1>8. \A k \in 0..Len(calls) : h[k] \in Seq(V)
    BY <1>7 DEF typed
  <1>9. h \in [0..Len(calls) -> Seq(V)]
    BY <1>2, <1>8 DEF KeepsAll
  <1> QED BY <1>3, <1>4, <1>9 DEF Keeps

LEMMA ValidType ==
  ASSUME NEW V, NEW calls \in Seq(V)
  PROVE  ValidCalls(calls) \in Seq(V)
PROOF
  <1>1. Len(calls) \in 0..Len(calls)
    OBVIOUS
  <1> QED BY <1>1, KeptByStep

LEMMA ValidOfNone == ValidCalls(<<>>) = <<>>
PROOF
  <1>1. ASSUME NEW V, NEW calls \in Seq(V), Len(calls) = 0 PROVE ValidCalls(calls) = <<>>
    <2>1. PICK kept \in [0..Len(calls) -> Seq(V)] : Keeps(calls, kept) /\ ValidCalls(calls) = kept[Len(calls)]
      BY KeptByStep
    <2>2. kept[0] = <<>>
      BY <2>1 DEF Keeps
    <2> QED BY <1>1, <2>1, <2>2
  <1>2. <<>> \in Seq(Values) /\ Len(<<>>) = 0
    OBVIOUS
  <1> QED BY <1>1, <1>2

\* The valid calls of two replies in a row.
LEMMA ValidJoins ==
  ASSUME NEW V, NEW calls \in Seq(V), NEW more \in Seq(V)
  PROVE  ValidCalls(calls \o more) = ValidCalls(calls) \o ValidCalls(more)
PROOF
  <1> DEFINE m == Len(calls)
             n == Len(more)
             both == calls \o more
  <1>1. both \in Seq(V) /\ Len(both) = m + n /\ m \in Nat /\ n \in Nat
        /\ (\A k \in 1..m : both[k] = calls[k]) /\ (\A k \in 1..n : both[m + k] = more[k] /\ more[k] \in V)
    BY ConcatProperties
  <1> HIDE DEF m, n, both
  <1>2. PICK a \in [0..m -> Seq(V)] : Keeps(calls, a) /\ ValidCalls(calls) = a[m]
    BY KeptByStep DEF m
  <1>3. PICK b \in [0..n -> Seq(V)] : Keeps(more, b) /\ ValidCalls(more) = b[n]
    BY KeptByStep DEF n
  <1>4. PICK c \in [0..(m + n) -> Seq(V)] : Keeps(both, c) /\ ValidCalls(both) = c[m + n]
    <2>1. PICK c \in [0..Len(both) -> Seq(V)] : Keeps(both, c) /\ ValidCalls(both) = c[Len(both)]
      BY <1>1, KeptByStep
    <2>2. c \in [0..(m + n) -> Seq(V)] /\ ValidCalls(both) = c[m + n]
      BY <1>1, <2>1
    <2> QED BY <2>1, <2>2
  <1> DEFINE alike == {k \in 0..m : c[k] = a[k]}
             joined == {k \in 0..n : c[m + k] = a[m] \o b[k]}
  <1>5. 0..m \subseteq alike
    <2>1. 0 \in alike
      <3>1. 0 \in 0..m /\ c[0] = a[0]
        BY <1>1, <1>2, <1>4 DEF Keeps
      <3> QED BY <3>1
    <2>2. ASSUME NEW k \in 1..m, k - 1 \in alike PROVE k \in alike
      <3>1. k \in 0..m /\ k \in 1..Len(both) /\ k \in 1..Len(calls) /\ c[k - 1] = a[k - 1]
        BY <1>1, <2>2 DEF m
      <3>2. c[k] = Keep(both[k], c[k - 1])
        BY <1>4, <3>1 DEF Keeps
      <3>3. a[k] = Keep(calls[k], a[k - 1])
        BY <1>2, <3>1 DEF Keeps
      <3>4. c[k] = a[k]
        BY <3>1, <3>2, <3>3, <1>1
      <3> QED BY <3>1, <3>4
    <2> HIDE DEF alike
    <2> QED BY <1>1, <2>1, <2>2, Climbs
  <1>6. c[m] = a[m] /\ a[m] \in Seq(V)
    BY <1>1, <1>5
  <1>7. 0..n \subseteq joined
    <2>1. 0 \in joined
      <3>1. b[0] = <<>> /\ c[m + 0] = a[m]
        BY <1>1, <1>3, <1>6 DEF Keeps
      <3>2. a[m] \o <<>> = a[m]
        BY <1>6, ConcatEmptySeq
      <3>3. 0 \in 0..n
        BY <1>1
      <3> QED BY <3>1, <3>2, <3>3
    <2>2. ASSUME NEW k \in 1..n, k - 1 \in joined PROVE k \in joined
      <3>1. k \in 0..n /\ k \in 1..Len(more) /\ m + k \in 1..Len(both) /\ (m + k) - 1 = m + (k - 1) /\ k - 1 \in 0..n
        BY <1>1, <2>2 DEF n
      <3>2. c[m + (k - 1)] = a[m] \o b[k - 1]
        BY <2>2
      <3>3. c[m + k] = Keep(both[m + k], c[(m + k) - 1])
        BY <1>4, <3>1 DEF Keeps
      <3>4. b[k] = Keep(more[k], b[k - 1])
        BY <1>3, <3>1 DEF Keeps
      <3>5. more[k] \in V /\ both[m + k] = more[k] /\ b[k - 1] \in Seq(V)
        BY <1>1, <1>3, <3>1
      <3>6. Append(a[m] \o b[k - 1], more[k]) = a[m] \o Append(b[k - 1], more[k])
        <4> DEFINE one == <<more[k]>>
        <4>1. a[m] \in Seq(V) /\ b[k - 1] \in Seq(V) /\ a[m] \o b[k - 1] \in Seq(V) /\ one \in Seq(V)
          BY <1>6, <3>5
        <4>2. Append(a[m] \o b[k - 1], more[k]) = (a[m] \o b[k - 1]) \o one
          BY <4>1, <3>5, AppendIsConcat
        <4>3. Append(b[k - 1], more[k]) = b[k - 1] \o one
          BY <3>5, AppendIsConcat
        <4> HIDE DEF one
        <4>4. (a[m] \o b[k - 1]) \o one = a[m] \o (b[k - 1] \o one)
          <5>1. \A s, t, u \in Seq(V) : (s \o t) \o u = s \o (t \o u)
            BY ConcatAssociative, SMTT(30)
          <5> QED BY <4>1, <5>1, ZenonT(60)
        <4> QED BY <4>2, <4>3, <4>4
      <3>7. c[m + k] = Keep(more[k], a[m] \o b[k - 1])
        BY <3>1, <3>2, <3>3, <3>5
      <3>8. c[m + k] = a[m] \o b[k]
        BY <3>4, <3>6, <3>7 DEF Keep
      <3> QED BY <3>1, <3>8
    <2> HIDE DEF joined
    <2> QED BY <1>1, <2>1, <2>2, Climbs
  <1>8. c[m + n] = a[m] \o b[n]
    <2>1. n \in 0..n
      BY <1>1
    <2> QED BY <2>1, <1>7
  <1> QED BY <1>2, <1>3, <1>4, <1>8 DEF both

\* Where as many are valid as there are calls, all are.
LEMMA AllValid ==
  ASSUME NEW V, NEW calls \in Seq(V), Len(ValidCalls(calls)) = Len(calls)
  PROVE  ValidCalls(calls) = calls /\ \A i \in DOMAIN calls : calls[i].valid
PROOF
  <1> DEFINE n == Len(calls)
  <1>1. PICK a \in [0..n -> Seq(V)] : Keeps(calls, a) /\ ValidCalls(calls) = a[n]
    BY KeptByStep
  <1>2. n \in Nat /\ (\A k \in 1..n : calls[k] \in V) /\ DOMAIN calls = 1..n /\ n = Len(calls)
    OBVIOUS
  <1> HIDE DEF n
  <1> DEFINE Full(k) == Len(a[k]) = k => \A i \in 1..k : a[k][i] = calls[i] /\ calls[i].valid
             good == {k \in 0..n : Len(a[k]) <= k /\ Full(k)}
  <1>3. 0..n \subseteq good
    <2>1. 0 \in good
      <3>1. 0 \in 0..n /\ a[0] = <<>> /\ Len(a[0]) = 0
        BY <1>1, <1>2 DEF Keeps
      <3>2. Full(0)
        OBVIOUS
      <3> QED BY <3>1, <3>2
    <2>2. ASSUME NEW k \in 1..n, k - 1 \in good PROVE k \in good
      <3>1. k \in 0..n /\ k - 1 \in 0..n /\ k \in 1..Len(calls) /\ calls[k] \in V /\ k \in Nat
        BY <1>2, <2>2
      <3>2. a[k] = Keep(calls[k], a[k - 1]) /\ a[k - 1] \in Seq(V)
        BY <1>1, <3>1 DEF Keeps
      <3>3. Len(a[k - 1]) <= k - 1 /\ Full(k - 1) /\ Len(a[k - 1]) \in Nat
        BY <2>2, <3>2
      <3>4. CASE calls[k].valid
        <4>1. a[k] = Append(a[k - 1], calls[k])
          BY <3>2, <3>4 DEF Keep
        <4>2. Len(a[k]) = Len(a[k - 1]) + 1 /\ (\A i \in 1..Len(a[k - 1]) : a[k][i] = a[k - 1][i])
              /\ a[k][Len(a[k - 1]) + 1] = calls[k]
          <5>1. ASSUME NEW s \in Seq(V), NEW e \in V, NEW t, t = Append(s, e)
                PROVE  Len(t) = Len(s) + 1 /\ (\A i \in 1..Len(s) : t[i] = s[i]) /\ t[Len(s) + 1] = e
            BY <5>1, AppendProperties
          <5>2. calls[k] \in V /\ a[k - 1] \in Seq(V)
            BY <3>1, <3>2
          <5> QED BY <4>1, <5>1, <5>2
        <4>3. Len(a[k]) <= k
          BY <3>1, <3>3, <4>2
        <4>4. ASSUME Len(a[k]) = k, NEW i \in 1..k PROVE a[k][i] = calls[i] /\ calls[i].valid
          <5>1. Len(a[k - 1]) = k - 1
            BY <4>2, <4>4, <3>1, <3>3
          <5>2. CASE i = k
            BY <5>1, <5>2, <4>2, <3>4, <3>1
          <5>3. CASE i # k
            <6>1. i \in 1..(k - 1)
              BY <5>3, <3>1
            <6> QED BY <6>1, <5>1, <4>2, <3>3
          <5> QED BY <5>2, <5>3
        <4>5. Full(k)
          BY <4>4
        <4> HIDE DEF Full
        <4> QED BY <3>1, <4>3, <4>5
      <3>5. CASE ~calls[k].valid
        <4>1. Len(a[k]) <= k - 1
          BY <3>2, <3>3, <3>5 DEF Keep
        <4>2. Len(a[k]) \in Nat
          BY <3>2, <3>3, <3>5 DEF Keep
        <4>3. Len(a[k]) <= k /\ Len(a[k]) # k
          BY <4>1, <4>2, <3>1
        <4> QED BY <4>3, <3>1
      <3> QED BY <3>4, <3>5
    <2> HIDE DEF good
    <2> QED BY <1>2, <2>1, <2>2, Climbs
  <1>4. n \in good
    <2>1. n \in 0..n
      BY <1>2
    <2> QED BY <2>1, <1>3
  <1>5. Len(a[n]) = n
    BY <1>1, <1>2
  <1>6. \A i \in 1..n : a[n][i] = calls[i] /\ calls[i].valid
    BY <1>4, <1>5
  <1>7. a[n] \in Seq(V)
    BY <1>1, <1>2
  <1>8. a[n] = calls
    BY <1>2, <1>5, <1>6, <1>7
  <1>9. DOMAIN calls = 1..n
    BY <1>2
  <1> QED BY <1>1, <1>6, <1>8, <1>9

-----------------------------------------------------------------------------
(* The matches *)

LEMMA MinIsIn ==
  ASSUME NEW S \in SUBSET Nat, S # {}
  PROVE  Min(S) \in S /\ \A m \in S : Min(S) <= m
PROOF
  BY LeastNumber DEF Min

\* used[k] holds the valid calls that were taken for the first k expected ones.
Left(exp, valid, used) == {i \in DOMAIN valid \ used : Matches(exp, valid[i])}
Take(exp, valid, used) == IF Left(exp, valid, used) = {} THEN used ELSE used \cup {Min(Left(exp, valid, used))}
TakesAll(expect, valid, used) ==
  used = [k \in 0..Len(expect) |-> IF k = 0 THEN {} ELSE Take(expect[k], valid, used[k - 1])]

\* A call that is taken is a valid one, not taken before, that matches.
LEMMA TakesMatch ==
  ASSUME NEW V, NEW valid \in Seq(V), NEW used \in SUBSET DOMAIN valid, NEW exp
  PROVE  /\ Take(exp, valid, used) \in SUBSET DOMAIN valid
         /\ \/ Take(exp, valid, used) = used
            \/ \E i \in DOMAIN valid \ used : Matches(exp, valid[i]) /\ Take(exp, valid, used) = used \cup {i}
PROOF
  <1>1. Left(exp, valid, used) \in SUBSET Nat /\ Left(exp, valid, used) \subseteq DOMAIN valid \ used
    BY DEF Left
  <1>2. CASE Left(exp, valid, used) = {}
    BY <1>2 DEF Take
  <1>3. CASE Left(exp, valid, used) # {}
    <2>1. Min(Left(exp, valid, used)) \in Left(exp, valid, used)
      BY <1>1, <1>3, MinIsIn
    <2>2. PICK i \in Left(exp, valid, used) : i = Min(Left(exp, valid, used))
      BY <2>1
    <2>3. Take(exp, valid, used) = used \cup {i}
      BY <1>3, <2>2 DEF Take
    <2>4. i \in DOMAIN valid \ used /\ Matches(exp, valid[i])
      BY <2>2 DEF Left
    <2> QED BY <2>3, <2>4
  <1> QED BY <1>2, <1>3

LEMMA TakenOnes ==
  ASSUME NEW E, NEW expect \in Seq(E), NEW V, NEW valid \in Seq(V)
  PROVE  \E used : TakesAll(expect, valid, used)
PROOF
  <1> DEFINE step == [k \in 1..Len(expect) |-> [s \in SUBSET DOMAIN valid |-> Take(expect[k], valid, s)]]
  <1>1. Len(expect) \in Nat /\ {} \in SUBSET DOMAIN valid
    OBVIOUS
  <1>2. \A k \in 1..Len(expect), s \in SUBSET DOMAIN valid : Take(expect[k], valid, s) \in SUBSET DOMAIN valid
    BY TakesMatch
  <1>3. step \in [1..Len(expect) -> [SUBSET DOMAIN valid -> SUBSET DOMAIN valid]]
    BY <1>2
  <1>4. \A k \in 1..Len(expect), s \in SUBSET DOMAIN valid : step[k][s] = Take(expect[k], valid, s)
    OBVIOUS
  <1> HIDE DEF step
  <1>5. PICK g \in [0..Len(expect) -> SUBSET DOMAIN valid] : Upto(Len(expect), {}, step, g)
    BY <1>1, <1>3, Stepwise
  <1>6. ASSUME NEW k \in 1..Len(expect) PROVE g[k] = Take(expect[k], valid, g[k - 1])
    <2>1. k - 1 \in 0..Len(expect)
      BY <1>1
    <2> QED BY <1>4, <1>5, <2>1 DEF Upto
  <1>7. g[0] = {}
    BY <1>5 DEF Upto
  <1>8. \A k \in 0..Len(expect) : g[k] = IF k = 0 THEN {} ELSE Take(expect[k], valid, g[k - 1])
    BY <1>1, <1>6, <1>7
  <1> QED BY <1>5, <1>8 DEF TakesAll

LEMMA TakenByStep ==
  ASSUME NEW E, NEW expect \in Seq(E), NEW V, NEW valid \in Seq(V)
  PROVE  \E used : /\ used[0] = {} /\ \A k \in 1..Len(expect) : used[k] = Take(expect[k], valid, used[k - 1])
                   /\ \A k \in 0..Len(expect) : used[k] \in SUBSET DOMAIN valid
                   /\ Matched(expect, valid) = Cardinality(used[Len(expect)])
PROOF
  <1> DEFINE h == CHOOSE g : TakesAll(expect, valid, g)
             typed == {k \in 0..Len(expect) : h[k] \in SUBSET DOMAIN valid}
  <1>1. Len(expect) \in Nat
    OBVIOUS
  <1>2. TakesAll(expect, valid, h)
    BY TakenOnes
  <1>3. Matched(expect, valid) = Cardinality(h[Len(expect)])
    BY DEF Matched, TakesAll, Take, Left
  <1> HIDE DEF h
  <1>4. h[0] = {} /\ \A k \in 1..Len(expect) : h[k] = Take(expect[k], valid, h[k - 1])
    <2>1. \A k \in 0..Len(expect) : h[k] = IF k = 0 THEN {} ELSE Take(expect[k], valid, h[k - 1])
      BY <1>2, Zenon DEF TakesAll
    <2>2. 0 \in 0..Len(expect) /\ \A k \in 1..Len(expect) : k \in 0..Len(expect) /\ k # 0
      BY <1>1
    <2> QED BY <2>1, <2>2
  <1>5. 0 \in typed
    BY <1>1, <1>4
  <1>6. ASSUME NEW k \in 1..Len(expect), k - 1 \in typed PROVE k \in typed
    <2>1. k \in 0..Len(expect) /\ h[k - 1] \in SUBSET DOMAIN valid /\ h[k] = Take(expect[k], valid, h[k - 1])
      BY <1>1, <1>4, <1>6
    <2>2. h[k] \in SUBSET DOMAIN valid
      BY <2>1, TakesMatch
    <2> QED BY <2>1, <2>2
  <1> HIDE DEF typed
  <1>7. 0..Len(expect) \subseteq typed
    BY <1>1, <1>5, <1>6, Climbs
  <1> QED BY <1>3, <1>4, <1>7 DEF typed

\* Where every expected call took one, each took one of its own.
LEMMA MatchedByOwn ==
  ASSUME NEW E, NEW expect \in Seq(E), NEW V, NEW valid \in Seq(V), Matched(expect, valid) = Len(expect)
  PROVE  \E f \in Injection(DOMAIN expect, DOMAIN valid) : \A j \in DOMAIN expect : Matches(expect[j], valid[f[j]])
PROOF
  <1> DEFINE n == Len(expect)
             Own(f, k) == /\ \A i, j \in 1..k : f[i] = f[j] => i = j
                          /\ \A j \in 1..k : Matches(expect[j], valid[f[j]])
  <1>1. PICK used : /\ used[0] = {} /\ \A k \in 1..n : used[k] = Take(expect[k], valid, used[k - 1])
                    /\ \A k \in 0..n : used[k] \in SUBSET DOMAIN valid
                    /\ Matched(expect, valid) = Cardinality(used[n])
    BY TakenByStep
  <1>2. n \in Nat /\ DOMAIN expect = 1..n
    OBVIOUS
  <1>3. Cardinality(used[n]) = n
    BY <1>1
  <1> HIDE DEF n
  <1> DEFINE Few(k) == IsFiniteSet(used[k]) /\ Cardinality(used[k]) <= k
             Each(k) == Cardinality(used[k]) = k => \E f \in [1..k -> used[k]] : Own(f, k)
             good == {k \in 0..n : Few(k) /\ Each(k)}
  <1>4. 0 \in good
    <2>1. 0 \in 0..n /\ IsFiniteSet(used[0]) /\ Cardinality(used[0]) = 0
      BY <1>1, <1>2, FS_EmptySet
    <2>2. [j \in 1..0 |-> 0] \in [1..0 -> used[0]] /\ Own([j \in 1..0 |-> 0], 0)
      OBVIOUS
    <2> HIDE DEF Own
    <2>3. Few(0)
      BY <2>1
    <2>4. Each(0)
      BY <2>2
    <2> HIDE DEF Few, Each
    <2> QED BY <2>1, <2>3, <2>4
  <1>5. ASSUME NEW k \in 1..n, k - 1 \in good PROVE k \in good
    <2>1. k \in 0..n /\ k - 1 \in 0..n /\ k \in Nat /\ k - 1 \in Nat /\ k >= 1
      BY <1>2
    <2>2. Few(k - 1) /\ Each(k - 1)
      BY <1>5
    <2>3. used[k - 1] \in SUBSET DOMAIN valid /\ used[k] = Take(expect[k], valid, used[k - 1])
      BY <1>1, <2>1
    <2>4. Cardinality(used[k - 1]) \in Nat
      BY <2>2, FS_CardinalityType
    <2> HIDE DEF Own
    <2>5. CASE used[k] = used[k - 1]
      <3>1. IsFiniteSet(used[k]) /\ Cardinality(used[k]) <= k - 1 /\ Cardinality(used[k]) \in Nat
        BY <2>2, <2>4, <2>5
      <3>2. Cardinality(used[k]) <= k /\ Cardinality(used[k]) # k
        BY <3>1, <2>1
      <3> QED BY <2>1, <3>1, <3>2
    <2>6. CASE used[k] # used[k - 1]
      <3>1. PICK m \in DOMAIN valid \ used[k - 1] : Matches(expect[k], valid[m]) /\ used[k] = used[k - 1] \cup {m}
        <4>1. ASSUME NEW s \in SUBSET DOMAIN valid, NEW e, Take(e, valid, s) # s
              PROVE  \E i \in DOMAIN valid \ s : Matches(e, valid[i]) /\ Take(e, valid, s) = s \cup {i}
          BY <4>1, TakesMatch, ZenonT(60)
        <4> QED BY <2>3, <2>6, <4>1
      <3>2. IsFiniteSet(used[k]) /\ Cardinality(used[k]) = Cardinality(used[k - 1]) + 1
        BY <2>2, <3>1, FS_AddElement
      <3>3. Few(k)
        BY <2>1, <2>2, <2>4, <3>2
      <3>4. ASSUME Cardinality(used[k]) = k PROVE \E f \in [1..k -> used[k]] : Own(f, k)
        <4>1. Cardinality(used[k - 1]) = k - 1
          BY <2>1, <2>4, <3>2, <3>4
        <4>2. PICK f \in [1..(k - 1) -> used[k - 1]] : Own(f, k - 1)
          BY <2>2, <4>1
        <4> DEFINE g == [j \in 1..k |-> IF j = k THEN m ELSE f[j]]
        <4>3. \A j \in 1..(k - 1) : j \in 1..k /\ g[j] = f[j] /\ g[j] \in used[k - 1] /\ g[j] # m
          BY <2>1, <3>1
        <4>4. g[k] = m
          BY <2>1
        <4>5. \A j \in 1..k : j = k \/ j \in 1..(k - 1)
          BY <2>1
        <4>6. g \in [1..k -> used[k]]
          BY <3>1, <4>3, <4>4, <4>5
        <4> HIDE DEF g
        <4>7. \A i, j \in 1..k : g[i] = g[j] => i = j
          BY <4>2, <4>3, <4>4, <4>5 DEF Own
        <4>8. \A j \in 1..k : Matches(expect[j], valid[g[j]])
          BY <4>2, <4>3, <4>4, <4>5, <3>1 DEF Own
        <4> QED BY <4>6, <4>7, <4>8 DEF Own
      <3> QED BY <2>1, <3>3, <3>4
    <2> QED BY <2>5, <2>6
  <1> HIDE DEF good
  <1>6. 0..n \subseteq good
    BY <1>2, <1>4, <1>5, Climbs
  <1>7. n \in good
    BY <1>2, <1>6
  <1>8. PICK f \in [1..n -> used[n]] : Own(f, n)
    BY <1>3, <1>7 DEF good
  <1>9. f \in [1..n -> DOMAIN valid]
    BY <1>1, <1>2, <1>8
  <1> QED BY <1>2, <1>8, <1>9 DEF Injection, IsInjective

-----------------------------------------------------------------------------
(* The answer, and the score *)

LEMMA PassedAll ==
  ASSUME NEW task, IsFiniteSet(task.texts), IsFiniteSet(task.from), NEW calls, NEW answer,
         Passed(task, calls, answer) = Cardinality(task.texts) + Cardinality(task.from)
  PROVE  /\ task.texts \subseteq answer
         /\ \A t \in task.from : FirstResult(calls, t) # {} /\ FirstResult(calls, t) \subseteq answer
PROOF
  <1> DEFINE said == task.texts \cap answer
             shown == {t \in task.from : FirstResult(calls, t) # {} /\ FirstResult(calls, t) \subseteq answer}
  <1>1. said \in SUBSET task.texts /\ shown \in SUBSET task.from
    OBVIOUS
  <1>2. Passed(task, calls, answer) = Cardinality(said) + Cardinality(shown)
    BY DEF Passed
  <1>3. (said = task.texts => task.texts \subseteq answer)
        /\ (shown = task.from =>
              \A t \in task.from : FirstResult(calls, t) # {} /\ FirstResult(calls, t) \subseteq answer)
    OBVIOUS
  <1> HIDE DEF said, shown
  <1>4. IsFiniteSet(said) /\ Cardinality(said) <= Cardinality(task.texts)
        /\ (Cardinality(task.texts) = Cardinality(said) => task.texts = said)
    BY <1>1, FS_Subset
  <1>5. IsFiniteSet(shown) /\ Cardinality(shown) <= Cardinality(task.from)
        /\ (Cardinality(task.from) = Cardinality(shown) => task.from = shown)
    BY <1>1, FS_Subset
  <1>6. Cardinality(said) \in Nat /\ Cardinality(shown) \in Nat
        /\ Cardinality(task.texts) \in Nat /\ Cardinality(task.from) \in Nat
    BY <1>4, <1>5, FS_CardinalityType
  <1>7. Cardinality(task.texts) = Cardinality(said) /\ Cardinality(task.from) = Cardinality(shown)
    BY <1>2, <1>4, <1>5, <1>6
  <1> QED BY <1>3, <1>4, <1>5, <1>7

LEMMA FirstShows ==
  ASSUME NEW V, NEW calls \in Seq(V), \A i \in DOMAIN calls : calls[i].valid, NEW answer, NEW t,
         FirstResult(calls, t) # {}, FirstResult(calls, t) \subseteq answer
  PROVE  Shows(calls, t, answer)
PROOF
  <1> DEFINE of == {i \in DOMAIN calls : calls[i].valid /\ Tool(calls[i].call) = t}
  <1>1. FirstResult(calls, t) = IF of = {} THEN {} ELSE {calls[Min(of)].value}
    BY DEF FirstResult
  <1>2. of \in SUBSET Nat /\ \A i \in of : i \in DOMAIN calls /\ Tool(calls[i].call) = t
    OBVIOUS
  <1>3. ASSUME NEW j \in DOMAIN calls, Tool(calls[j].call) = t PROVE j \in of
    BY <1>3
  <1> HIDE DEF of
  <1>4. of # {} /\ calls[Min(of)].value \in answer
    BY <1>1
  <1>5. PICK i \in of : i = Min(of) /\ \A m \in of : i <= m
    BY <1>2, <1>4, MinIsIn
  <1>6. i \in DOMAIN calls /\ Tool(calls[i].call) = t /\ calls[i].value \in answer
    BY <1>2, <1>4, <1>5
  <1>7. ASSUME NEW j \in 1..(i - 1) PROVE Tool(calls[j].call) # t
    <2>1. j \in DOMAIN calls /\ j \in Nat /\ i \in Nat /\ ~(i <= j)
      BY <1>6, <1>7
    <2> QED BY <1>3, <1>5, <2>1
  <1> QED BY <1>6, <1>7 DEF Shows

\* A score of success is earned: by the calls that match, by their validity, and by the answer.
LEMMA ScoreEarned ==
  ASSUME NEW E, NEW V, NEW task, NEW calls \in Seq(V), NEW live, NEW answer, NEW failure,
         task.expect \in Seq(E), IsFiniteSet(task.texts), IsFiniteSet(task.from),
         ScoreTask(task, live, calls, answer, failure).success
  PROVE  /\ \E f \in Injection(DOMAIN task.expect, DOMAIN ValidCalls(calls)) :
              \A j \in DOMAIN task.expect : ValidCalls(calls)[f[j]].call \in task.expect[j]
         /\ ValidCalls(calls) = calls
         /\ task.forbid /\ task.expect = <<>> => calls = <<>>
         /\ ~(live /\ task.skip) =>
              answer # NoAnswer /\ task.texts \subseteq answer /\ \A t \in task.from : Shows(ValidCalls(calls), t, answer)
PROOF
  <1> DEFINE valid == ValidCalls(calls)
             barred == task.expect = <<>> /\ task.forbid /\ calls # <<>>
             checks == Cardinality(task.texts) + Cardinality(task.from)
  <1>1. /\ (IF barred THEN 0 ELSE Matched(task.expect, valid)) = (IF barred THEN 1 ELSE Len(task.expect))
        /\ Len(valid) = Len(calls)
        /\ \/ live /\ task.skip
           \/ (IF answer = NoAnswer THEN 0 ELSE Passed(task, calls, answer)) = (IF answer = NoAnswer THEN 1 ELSE checks)
    BY DEF ScoreTask, Whole
  <1> HIDE DEF barred, checks
  <1>2. ~barred /\ Matched(task.expect, valid) = Len(task.expect)
    BY <1>1
  <1>3. valid = calls /\ \A i \in DOMAIN calls : calls[i].valid
    BY <1>1, AllValid
  <1>4. valid \in Seq(V)
    BY ValidType
  <1> HIDE DEF valid
  <1>5. \E f \in Injection(DOMAIN task.expect, DOMAIN valid) : \A j \in DOMAIN task.expect : valid[f[j]].call \in task.expect[j]
    BY <1>2, <1>4, MatchedByOwn DEF Matches
  <1>6. ASSUME ~(live /\ task.skip)
        PROVE  answer # NoAnswer /\ task.texts \subseteq answer /\ \A t \in task.from : Shows(valid, t, answer)
    <2>1. answer # NoAnswer /\ Passed(task, calls, answer) = checks
      BY <1>1, <1>6
    <2>2. /\ task.texts \subseteq answer
          /\ \A t \in task.from : FirstResult(calls, t) # {} /\ FirstResult(calls, t) \subseteq answer
      BY <2>1, PassedAll DEF checks
    <2> QED BY <1>3, <2>1, <2>2, FirstShows
  <1>7. task.forbid /\ task.expect = <<>> => calls = <<>>
    BY <1>2 DEF barred
  <1> QED BY <1>3, <1>5, <1>6, <1>7 DEF valid

-----------------------------------------------------------------------------
(* The runner: the inductive invariant *)

Call == [call : UNION {Range(reply) : reply \in Replies}, valid : BOOLEAN, value : Values]
Scores == {<<>>} \cup {ScoreTask(task, live, calls, answer, failure) :
             task \in Range(Suite), live \in BOOLEAN, calls \in Seq(Call), answer \in Answers,
             failure \in {"none", "timeout", "http"}}
Run == [auto : BOOLEAN, live : BOOLEAN, prompted : BOOLEAN, task : Nat, step : Nat, calls : Seq(Call), ran : Seq(Call),
        answer : Answers, score : Scores]

\* Every call of the task was asked for in this way of calling; what was run of them is
\* what is valid of them.  Before its first reply a task has no calls, so that one may
\* begin again with prompted calls.
RunOK(b) == b \in Run /\ b.ran = ValidCalls(b.calls) /\ (b.step = 0 => b.calls = <<>>)

OfTask(b, task) ==
  \E failure \in {"none", "timeout", "http"} : b.score = ScoreTask(task, b.live, b.calls, b.answer, failure)
TaskOK(at, b) ==
  /\ at \in {"asking", "scored"} => b.task \in DOMAIN Suite
  /\ at = "scored" => OfTask(b, Suite[b.task])

ScoreInv ==
  /\ DOMAIN bench = Procs
  /\ \A p \in Procs : RunOK(bench[p]) /\ TaskOK(cmd[p].at, bench[p])

LEMMA NoBenchOK == RunOK(NoBench) /\ NoBench.calls = <<>> /\ NoBench.ran = <<>>
PROOF
  <1>1. <<>> \in Seq(Call) /\ NoAnswer \in Answers /\ <<>> \in Scores
    BY BenchAssumption DEF Scores
  <1>2. NoBench \in Run
    BY <1>1 DEF NoBench, Run
  <1> QED BY <1>2, ValidOfNone DEF RunOK, NoBench

\* A step of the runner, which is of the command too.
LEMMA RunMoves ==
  ASSUME SubmitTypes, ScoreInv, NEW p \in Procs, NEW b, NEW c, RunOK(b), TaskOK(c.at, b), Becomes(p, c),
         bench' = [bench EXCEPT ![p] = b]
  PROVE  ScoreInv'
PROOF
  <1>1. DOMAIN bench' = Procs /\ bench'[p] = b /\ cmd'[p] = c
    BY DEF SubmitTypes, ScoreInv, Becomes
  <1>2. ASSUME NEW q \in Procs, q # p PROVE bench'[q] = bench[q] /\ cmd'[q] = cmd[q]
    BY <1>2 DEF SubmitTypes, ScoreInv, Becomes
  <1>3. ASSUME NEW q \in Procs PROVE RunOK(bench'[q]) /\ TaskOK(cmd'[q].at, bench'[q])
    BY <1>1, <1>2 DEF ScoreInv
  <1> QED BY <1>1, <1>3 DEF ScoreInv

\* A step of a command that is not in a run afterwards.
LEMMA RunKeeps ==
  ASSUME ScoreInv, bench' = bench,
         \A q \in Procs : cmd'[q].at \in {"asking", "scored"} => cmd'[q].at = cmd[q].at
  PROVE  ScoreInv'
PROOF
  <1>1. ASSUME NEW q \in Procs PROVE RunOK(bench'[q]) /\ TaskOK(cmd'[q].at, bench'[q])
    BY DEF ScoreInv, TaskOK
  <1> QED BY <1>1 DEF ScoreInv

LEMMA RunFields ==
  ASSUME NEW b \in Run
  PROVE  /\ b.auto \in BOOLEAN /\ b.live \in BOOLEAN /\ b.prompted \in BOOLEAN /\ b.task \in Nat /\ b.step \in Nat
         /\ b.calls \in Seq(Call) /\ b.ran \in Seq(Call) /\ b.answer \in Answers /\ b.score \in Scores
PROOF
  BY DEF Run

\* The updates of several fields, written out.
LEMMA RepliedFields ==
  ASSUME NEW r \in Run, NEW calls, NEW ran, NEW step
  PROVE  [r EXCEPT !.calls = calls, !.ran = ran, !.step = step] =
           [auto |-> r.auto, live |-> r.live, prompted |-> r.prompted, task |-> r.task, step |-> step,
            calls |-> calls, ran |-> ran, answer |-> r.answer, score |-> r.score]
PROOF
  <1> DEFINE one == [r EXCEPT !.calls = calls]
             two == [one EXCEPT !.ran = ran]
             three == [two EXCEPT !.step = step]
  <1>1. one = [auto |-> r.auto, live |-> r.live, prompted |-> r.prompted, task |-> r.task, step |-> r.step,
                 calls |-> calls, ran |-> r.ran, answer |-> r.answer, score |-> r.score]
    BY DEF Run
  <1> HIDE DEF one
  <1>2. two = [auto |-> r.auto, live |-> r.live, prompted |-> r.prompted, task |-> r.task, step |-> r.step,
                 calls |-> calls, ran |-> ran, answer |-> r.answer, score |-> r.score]
    BY <1>1
  <1> HIDE DEF two
  <1>3. three = [auto |-> r.auto, live |-> r.live, prompted |-> r.prompted, task |-> r.task, step |-> step,
                 calls |-> calls, ran |-> ran, answer |-> r.answer, score |-> r.score]
    BY <1>2
  <1> HIDE DEF three
  <1> QED BY <1>3 DEF one, two, three

LEMMA RenewedFields ==
  ASSUME NEW r \in Run, NEW task
  PROVE  [r EXCEPT !.task = task, !.step = 0, !.calls = <<>>, !.ran = <<>>, !.answer = NoAnswer, !.score = <<>>] =
           [auto |-> r.auto, live |-> r.live, prompted |-> r.prompted, task |-> task, step |-> 0,
            calls |-> <<>>, ran |-> <<>>, answer |-> NoAnswer, score |-> <<>>]
PROOF
  <1> DEFINE one == [r EXCEPT !.task = task]
             two == [one EXCEPT !.step = 0]
             three == [two EXCEPT !.calls = <<>>]
             four == [three EXCEPT !.ran = <<>>]
             five == [four EXCEPT !.answer = NoAnswer]
             six == [five EXCEPT !.score = <<>>]
  <1>1. one = [auto |-> r.auto, live |-> r.live, prompted |-> r.prompted, task |-> task, step |-> r.step,
                 calls |-> r.calls, ran |-> r.ran, answer |-> r.answer, score |-> r.score]
    BY DEF Run
  <1> HIDE DEF one
  <1>2. two = [auto |-> r.auto, live |-> r.live, prompted |-> r.prompted, task |-> task, step |-> 0,
                 calls |-> r.calls, ran |-> r.ran, answer |-> r.answer, score |-> r.score]
    BY <1>1
  <1> HIDE DEF two
  <1>3. three = [auto |-> r.auto, live |-> r.live, prompted |-> r.prompted, task |-> task, step |-> 0,
                 calls |-> <<>>, ran |-> r.ran, answer |-> r.answer, score |-> r.score]
    BY <1>2
  <1> HIDE DEF three
  <1>4. four = [auto |-> r.auto, live |-> r.live, prompted |-> r.prompted, task |-> task, step |-> 0,
                 calls |-> <<>>, ran |-> <<>>, answer |-> r.answer, score |-> r.score]
    BY <1>3
  <1> HIDE DEF four
  <1>5. five = [auto |-> r.auto, live |-> r.live, prompted |-> r.prompted, task |-> task, step |-> 0,
                 calls |-> <<>>, ran |-> <<>>, answer |-> NoAnswer, score |-> r.score]
    BY <1>4
  <1> HIDE DEF five
  <1>6. six = [auto |-> r.auto, live |-> r.live, prompted |-> r.prompted, task |-> task, step |-> 0,
                 calls |-> <<>>, ran |-> <<>>, answer |-> NoAnswer, score |-> <<>>]
    BY <1>5
  <1> HIDE DEF six
  <1> QED BY <1>6 DEF one, two, three, four, five, six

\* The task is over.
LEMMA ScoredKeeps ==
  ASSUME SubmitTypes, ScoreInv, NEW p \in Procs, cmd[p].at = "asking", NEW b, RunOK(b), b.task = bench[p].task,
         NEW failure \in {"none", "timeout", "http"}, Scored(p, b, failure)
  PROVE  ScoreInv'
PROOF
  <1> DEFINE task == Suite[bench[p].task]
             score == ScoreTask(task, b.live, b.calls, b.answer, failure)
             sb == [b EXCEPT !.score = score]
  <1>1. bench[p].task \in DOMAIN Suite /\ task \in Range(Suite)
    BY DEF ScoreInv, TaskOK, Range
  <1>2. b \in Run /\ b.live \in BOOLEAN /\ b.calls \in Seq(Call) /\ b.answer \in Answers
    BY RunFields DEF RunOK
  <1>3. bench' = [bench EXCEPT ![p] = sb] /\ Becomes(p, [cmd[p] EXCEPT !.at = "scored"])
    BY DEF Scored, Runs, At, Task
  <1> HIDE DEF task
  <1>4. score \in Scores
    BY <1>1, <1>2 DEF Scores
  <1> HIDE DEF score
  <1>5. sb \in Run
    BY <1>2, <1>4 DEF Run
  <1>6. sb.score = score /\ sb.ran = b.ran /\ sb.calls = b.calls /\ sb.step = b.step /\ sb.task = b.task
        /\ sb.live = b.live /\ sb.answer = b.answer
    BY <1>2 DEF Run
  <1> HIDE DEF sb
  <1>7. RunOK(sb)
    BY <1>5, <1>6 DEF RunOK
  <1>8. OfTask(sb, Suite[sb.task])
    BY <1>6 DEF OfTask, score, task
  <1>9. [cmd[p] EXCEPT !.at = "scored"].at = "scored"
    BY DEF SubmitTypes, Command
  <1>10. TaskOK([cmd[p] EXCEPT !.at = "scored"].at, sb)
    BY <1>1, <1>6, <1>8, <1>9 DEF TaskOK
  <1> QED BY <1>3, <1>7, <1>10, RunMoves

\* The calls of a reply.
LEMMA CallsType ==
  ASSUME NEW b, NEW task, NEW reply \in Replies,
         NEW calls \in [DOMAIN reply -> UNION {Executed(b, task, c) : c \in Range(reply)}],
         \A i \in DOMAIN reply : calls[i] \in Executed(b, task, reply[i])
  PROVE  calls \in Seq(Call)
PROOF
  <1>1. reply \in Seq(Range(reply)) /\ Fixture \in Values
    BY BenchAssumption
  <1>2. DOMAIN reply = 1..Len(reply) /\ Len(reply) \in Nat
    BY <1>1
  <1>3. ASSUME NEW i \in DOMAIN reply PROVE calls[i] \in Call
    <2>1. reply[i] \in UNION {Range(r) : r \in Replies}
      BY DEF Range
    <2>2. calls[i] \in [call : {reply[i]}, valid : {reply[i] \notin Bad /\ Tool(reply[i]) \in task.tools},
                        value : IF b.live THEN Values ELSE {Fixture}]
      BY DEF Executed
    <2>3. calls[i] \in [call : UNION {Range(r) : r \in Replies}, valid : BOOLEAN, value : Values]
      BY <2>1, <2>2, <1>1
    <2> QED BY <2>3 DEF Call
  <1>4. calls \in [1..Len(reply) -> Call]
    BY <1>2, <1>3
  <1> QED BY <1>2, <1>4

LEMMA BeginsKeeps ==
  ASSUME SubmitTypes, ScoreInv, NEW p \in Procs, Begins(p)
  PROVE  ScoreInv'
PROOF
  <1>1. PICK auto, live, prompted \in BOOLEAN :
          Runs(p, [NoBench EXCEPT !.auto = auto, !.live = live, !.prompted = prompted, !.task = 1])
    BY DEF Begins
  <1> DEFINE b == [NoBench EXCEPT !.auto = auto, !.live = live, !.prompted = prompted, !.task = 1]
  <1>2. NoBench \in Run
    BY NoBenchOK DEF RunOK
  <1>3. b \in Run /\ b.calls = NoBench.calls /\ b.ran = NoBench.ran /\ b.task = 1
    BY <1>2 DEF Run
  <1>4. bench' = [bench EXCEPT ![p] = b] /\ Becomes(p, [cmd[p] EXCEPT !.at = "asking"])
    BY <1>1 DEF Runs, Begins, At
  <1> HIDE DEF b
  <1>5. RunOK(b)
    BY <1>3, NoBenchOK, ValidOfNone DEF RunOK
  <1>6. 1 \in DOMAIN Suite
    BY BenchAssumption
  <1>7. [cmd[p] EXCEPT !.at = "asking"].at = "asking"
    BY DEF SubmitTypes, Command
  <1>8. TaskOK([cmd[p] EXCEPT !.at = "asking"].at, b)
    BY <1>3, <1>6, <1>7 DEF TaskOK
  <1> QED BY <1>4, <1>5, <1>8, RunMoves

\* A reply's calls are counted as asked for and, if valid, as run.
LEMMA CallsKeep ==
  ASSUME SubmitTypes, ScoreInv, NEW p \in Procs, NEW reply \in Replies, Calls(p, reply)
  PROVE  ScoreInv'
PROOF
  <1>1. PICK calls \in [DOMAIN reply -> UNION {Executed(bench[p], Task(p), c) : c \in Range(reply)}] :
          /\ \A i \in DOMAIN reply : calls[i] \in Executed(bench[p], Task(p), reply[i])
          /\ LET b == [bench[p] EXCEPT !.calls = @ \o calls, !.ran = @ \o ValidCalls(calls), !.step = @ + 1]
             IN IF b.step = MaxSteps THEN Scored(p, b, "none") ELSE Runs(p, b) /\ UNCHANGED cmd
    BY DEF Calls
  <1> DEFINE r == bench[p]
             all == r.calls \o calls
             ran == r.ran \o ValidCalls(calls)
             b == [r EXCEPT !.calls = all, !.ran = ran, !.step = r.step + 1]
  <1>2. IF b.step = MaxSteps THEN Scored(p, b, "none") ELSE Runs(p, b) /\ UNCHANGED cmd
    BY <1>1
  <1>3. calls \in Seq(Call)
    BY <1>1, CallsType
  <1>4. r \in Run /\ r.ran = ValidCalls(r.calls)
    BY DEF ScoreInv, RunOK
  <1>5. r.calls \in Seq(Call) /\ r.ran \in Seq(Call) /\ r.step \in Nat
    BY <1>4, RunFields
  <1>6. cmd[p].at = "asking" /\ r.task \in DOMAIN Suite
    BY DEF Calls, ScoreInv, TaskOK
  <1> HIDE DEF r
  <1>7. all \in Seq(Call) /\ ran \in Seq(Call) /\ ran = ValidCalls(all)
    BY <1>3, <1>4, <1>5, ValidType, ValidJoins, ConcatProperties
  <1> HIDE DEF all, ran
  <1>8. b \in Run /\ b.calls = all /\ b.ran = ran /\ b.step = r.step + 1 /\ b.task = r.task
    <2>1. b = [auto |-> r.auto, live |-> r.live, prompted |-> r.prompted, task |-> r.task, step |-> r.step + 1,
               calls |-> all, ran |-> ran, answer |-> r.answer, score |-> r.score]
      BY <1>4, RepliedFields DEF b
    <2>2. r.auto \in BOOLEAN /\ r.live \in BOOLEAN /\ r.prompted \in BOOLEAN /\ r.task \in Nat /\ r.step + 1 \in Nat
          /\ r.answer \in Answers /\ r.score \in Scores
      BY <1>4, RunFields
    <2> QED BY <2>1, <2>2, <1>7 DEF Run
  <1> HIDE DEF b
  <1>9. RunOK(b)
    BY <1>5, <1>7, <1>8 DEF RunOK
  <1>10. CASE b.step = MaxSteps
    BY <1>2, <1>6, <1>8, <1>9, <1>10, ScoredKeeps DEF r
  <1>11. CASE b.step # MaxSteps
    <2>1. bench' = [bench EXCEPT ![p] = b] /\ UNCHANGED cmd
      BY <1>2, <1>11 DEF Runs
    <2>2. Becomes(p, cmd[p])
      BY <2>1 DEF Becomes, SubmitTypes
    <2>3. TaskOK(cmd[p].at, b)
      BY <1>6, <1>8 DEF TaskOK
    <2> QED BY <1>9, <2>1, <2>2, <2>3, RunMoves
  <1> QED BY <1>10, <1>11

LEMMA AnsweredKeeps ==
  ASSUME SubmitTypes, ScoreInv, NEW p \in Procs, NEW answer \in Answers, Answered(p, answer)
  PROVE  ScoreInv'
PROOF
  <1> DEFINE b == [bench[p] EXCEPT !.answer = answer]
  <1>1. cmd[p].at = "asking" /\ Scored(p, b, "none") /\ RunOK(bench[p])
    BY DEF Answered, ScoreInv
  <1>2. b \in Run /\ b.task = bench[p].task /\ b.calls = bench[p].calls /\ b.ran = bench[p].ran /\ b.step = bench[p].step
    BY <1>1 DEF RunOK, Run
  <1> HIDE DEF b
  <1>3. RunOK(b)
    BY <1>1, <1>2 DEF RunOK
  <1> QED BY <1>1, <1>2, <1>3, ScoredKeeps

\* Nothing was run yet in a task that begins again.
LEMMA RejectedKeeps ==
  ASSUME SubmitTypes, ScoreInv, NEW p \in Procs, Rejected(p)
  PROVE  ScoreInv'
PROOF
  <1>1. cmd[p].at = "asking" /\ RunOK(bench[p]) /\ bench[p].task \in DOMAIN Suite
    BY DEF Rejected, ScoreInv, TaskOK
  <1>2. CASE bench[p].auto /\ bench[p].step = 0
    <2> DEFINE b == [bench[p] EXCEPT !.prompted = TRUE, !.step = 0, !.calls = <<>>]
    <2>1. bench' = [bench EXCEPT ![p] = b] /\ UNCHANGED cmd
      BY <1>2 DEF Rejected, Falls, Runs
    <2>2. <<>> \in Seq(Call) /\ bench[p].calls = <<>> /\ bench[p].ran = <<>>
      BY <1>1, <1>2, ValidOfNone DEF RunOK
    <2>3. b \in Run /\ b.calls = <<>> /\ b.ran = bench[p].ran /\ b.step = 0 /\ b.task = bench[p].task
      BY <1>1, <2>2 DEF RunOK, Run
    <2> HIDE DEF b
    <2>4. RunOK(b)
      BY <2>2, <2>3, ValidOfNone DEF RunOK
    <2>5. TaskOK(cmd[p].at, b)
      BY <1>1, <2>3 DEF TaskOK
    <2>6. Becomes(p, cmd[p])
      BY <2>1 DEF Becomes, SubmitTypes
    <2> QED BY <2>1, <2>4, <2>5, <2>6, RunMoves
  <1>3. CASE ~(bench[p].auto /\ bench[p].step = 0)
    <2>1. Scored(p, bench[p], "http")
      BY <1>3 DEF Rejected
    <2> QED BY <1>1, <2>1, ScoredKeeps
  <1> QED BY <1>2, <1>3

LEMMA NextTaskKeeps ==
  ASSUME SubmitTypes, ScoreInv, NEW p \in Procs, NextTask(p)
  PROVE  ScoreInv'
PROOF
  <1> DEFINE r == bench[p]
             b == [r EXCEPT !.task = r.task + 1, !.step = 0, !.calls = <<>>, !.ran = <<>>, !.answer = NoAnswer,
                            !.score = <<>>]
  <1>1. bench' = [bench EXCEPT ![p] = b] /\ Becomes(p, [cmd[p] EXCEPT !.at = "asking"])
    BY DEF NextTask, Runs, At
  <1>2. r \in Run /\ r.task \in DOMAIN Suite /\ r.task < Len(Suite) /\ r.task \in Nat
    BY RunFields DEF NextTask, ScoreInv, RunOK, TaskOK
  <1>3. NoAnswer \in Answers /\ <<>> \in Seq(Call) /\ <<>> \in Scores
    BY BenchAssumption DEF Scores
  <1> HIDE DEF r
  <1>4. b = [auto |-> r.auto, live |-> r.live, prompted |-> r.prompted, task |-> r.task + 1, step |-> 0,
             calls |-> <<>>, ran |-> <<>>, answer |-> NoAnswer, score |-> <<>>]
    BY <1>2, RenewedFields
  <1> HIDE DEF b
  <1>5. b \in Run /\ b.calls = <<>> /\ b.ran = <<>> /\ b.task = r.task + 1
    <2>1. r.auto \in BOOLEAN /\ r.live \in BOOLEAN /\ r.prompted \in BOOLEAN /\ r.task + 1 \in Nat
      BY <1>2, RunFields
    <2> QED BY <2>1, <1>3, <1>4 DEF Run
  <1> HIDE DEF b
  <1>6. RunOK(b)
    BY <1>5, ValidOfNone DEF RunOK
  <1>7. r.task + 1 \in DOMAIN Suite
    BY <1>2, BenchAssumption
  <1>8. [cmd[p] EXCEPT !.at = "asking"].at = "asking"
    BY DEF SubmitTypes, Command
  <1>9. TaskOK([cmd[p] EXCEPT !.at = "asking"].at, b)
    BY <1>5, <1>7, <1>8 DEF TaskOK
  <1> QED BY <1>1, <1>6, <1>9, RunMoves

LEMMA RunnerKeeps ==
  ASSUME SubmitTypes, ScoreInv, NEW p \in Procs, Runner(p)
  PROVE  ScoreInv'
PROOF
  <1>1. ASSUME BackendFails(p) PROVE ScoreInv'
    <2>1. PICK failure \in {"timeout", "http"} : Scored(p, bench[p], failure)
      BY <1>1 DEF BackendFails
    <2>2. cmd[p].at = "asking" /\ RunOK(bench[p])
      BY <1>1 DEF BackendFails, ScoreInv
    <2> QED BY <2>1, <2>2, ScoredKeeps
  <1>2. ASSUME Stores(p) PROVE ScoreInv'
    <2>1. bench' = [bench EXCEPT ![p] = NoBench] /\ Becomes(p, Idle)
      BY <1>2 DEF Stores
    <2>2. TaskOK(Idle.at, NoBench)
      BY DEF TaskOK, Idle
    <2> QED BY <2>1, <2>2, NoBenchOK, RunMoves
  <1> QED BY <1>1, <1>2, BeginsKeeps, CallsKeep, AnsweredKeeps, RejectedKeeps, NextTaskKeeps DEF Runner

\* The other commands, and the end of any.
LEMMA AtElsewhere ==
  ASSUME SubmitTypes, ScoreInv, NEW p \in Procs, NEW c, Becomes(p, c), bench' = bench, c.at \notin {"asking", "scored"}
  PROVE  ScoreInv'
PROOF
  <1>1. cmd'[p] = c /\ \A q \in Procs : q # p => cmd'[q] = cmd[q]
    BY DEF SubmitTypes, Becomes
  <1>2. \A q \in Procs : cmd'[q].at \in {"asking", "scored"} => cmd'[q].at = cmd[q].at
    BY <1>1
  <1> QED BY <1>2, RunKeeps

LEMMA OtherRunKeeps ==
  ASSUME SubmitTypes, ScoreInv, NEW p \in Procs,
         DeviceLink(p) \/ SubmitLinked(p) \/ SignOut(p) \/ Revokes(p) \/ Removes(p)
  PROVE  ScoreInv'
PROOF
  <1> DEFINE Goes == \E c : Becomes(p, c) /\ c.at \notin {"asking", "scored"}
  <1>1. cmd[p] \in Command /\ DOMAIN cmd[p] = {"at", "id", "token", "relinked", "links", "interval", "left"}
    BY DEF SubmitTypes, Command
  <1>2. Idle.at = "idle" /\ DOMAIN Idle = {"at", "id", "token", "relinked", "links", "interval", "left"}
    BY DEF Idle
  <1>3. ASSUME NEW at, at \notin {"asking", "scored"}, At(p, at) PROVE Goes
    <2>1. [cmd[p] EXCEPT !.at = at].at = at
      BY <1>1
    <2> QED BY <1>3, <2>1 DEF At
  <1>4. ASSUME Becomes(p, Idle) PROVE Goes
    BY <1>2, <1>4
  <1>5. ASSUME DeviceLink(p) PROVE Goes /\ bench' = bench
    <2>1. ASSUME AskCode(p) PROVE Goes
      <3>1. ASSUME NEW interval, NEW expires,
                   Becomes(p, [cmd[p] EXCEPT !.at = "waiting", !.interval = interval, !.left = expires])
            PROVE  Goes
        <4>1. [cmd[p] EXCEPT !.at = "waiting", !.interval = interval, !.left = expires].at = "waiting"
          BY <1>1
        <4> QED BY <3>1, <4>1
      <3> HIDE DEF Goes
      <3> QED BY <2>1, <3>1, <1>4 DEF AskCode
    <2>2. ASSUME Sleep(p) PROVE Goes
      <3>1. [cmd[p] EXCEPT !.at = "poll", !.left = cmd[p].left - cmd[p].interval].at = "poll"
        BY <1>1
      <3>2. Becomes(p, Idle) \/ Becomes(p, [cmd[p] EXCEPT !.at = "poll", !.left = cmd[p].left - cmd[p].interval])
        BY <2>2 DEF Sleep
      <3> QED BY <3>1, <3>2, <1>4
    <2>3. ASSUME Poll(p) PROVE Goes
      <3>1. [cmd[p] EXCEPT !.at = "waiting", !.interval = cmd[p].interval + 1].at = "waiting"
        BY <1>1
      <3>2. \/ Becomes(p, Idle) \/ At(p, "waiting")
            \/ Becomes(p, [cmd[p] EXCEPT !.at = "waiting", !.interval = cmd[p].interval + 1])
        BY <2>3 DEF Poll
      <3> QED BY <3>1, <3>2, <1>3, <1>4
    <2>4. ASSUME Granted(p) PROVE Goes
      <3> DEFINE c == [cmd[p] EXCEPT !.at = "unlinks", !.token = server.issued + 1, !.links = cmd[p].links + 1]
      <3>1. c.at = "unlinks"
        BY <1>1
      <3>2. Becomes(p, c)
        BY <2>4 DEF Granted
      <3> QED BY <3>1, <3>2
    <2>5. bench' = bench
      BY <1>5 DEF DeviceLink, AskCode, Sleep, Poll, Granted, Submits
    <2> HIDE DEF Goes
    <2> QED BY <1>5, <2>1, <2>2, <2>3, <2>4, <2>5 DEF DeviceLink
  <1>6. ASSUME SubmitLinked(p) PROVE Goes /\ bench' = bench
    <2>1. ASSUME NEW id \in DOMAIN stored, SubmitStored(p, id) PROVE Goes
      <3> DEFINE none == file.token = 0
                 at == IF none THEN "link" ELSE "post"
                 c == [Idle EXCEPT !.at = at, !.id = id, !.token = file.token, !.relinked = none]
      <3>1. c.at = at /\ at \notin {"asking", "scored"}
        BY <1>2
      <3>2. Becomes(p, c)
        BY <2>1 DEF SubmitStored
      <3> HIDE DEF c, at
      <3> QED BY <3>1, <3>2
    <2>2. ASSUME Creates(p) PROVE Goes
      <3> HIDE DEF Goes
      <3> QED BY <2>2, <1>3, <1>4 DEF Creates
    <2>3. ASSUME Taken(p) PROVE Goes
      <3> HIDE DEF Goes
      <3> QED BY <2>3, <1>3, <1>4 DEF Taken
    <2>4. ASSUME TokenRefused(p) PROVE Goes
      <3>1. [cmd[p] EXCEPT !.at = "link", !.relinked = TRUE].at = "link"
        BY <1>1
      <3>2. At(p, "refused") \/ Becomes(p, [cmd[p] EXCEPT !.at = "link", !.relinked = TRUE])
        BY <2>4 DEF TokenRefused
      <3>3. CASE At(p, "refused")
        <4> HIDE DEF Goes
        <4> QED BY <1>3, <3>3
      <3> QED BY <3>1, <3>2, <3>3
    <2> HIDE DEF Goes
    <2>5. ASSUME Unlinks(p) \/ Writes(p) PROVE Goes
      BY <2>5, <1>3 DEF Unlinks, Writes
    <2>6. ASSUME NotTaken(p) \/ Marks(p) \/ Ends(p) PROVE Goes
      BY <2>6, <1>4 DEF NotTaken, Marks, Ends
    <2>7. bench' = bench
      BY <1>6 DEF SubmitLinked, SubmitStored, Unlinks, Creates, Writes, Taken, NotTaken, TokenRefused, Marks, Ends, Submits
    <2> QED BY <1>6, <2>1, <2>2, <2>3, <2>4, <2>5, <2>6, <2>7 DEF SubmitLinked
  <1>7. ASSUME SignOut(p) \/ Revokes(p) \/ Removes(p) PROVE Goes /\ bench' = bench
    <2>1. ASSUME SignOut(p) PROVE Goes
      <3>1. [Idle EXCEPT !.at = "revokes", !.token = file.token].at = "revokes"
        BY <1>2
      <3> QED BY <2>1, <3>1 DEF SignOut
    <2> HIDE DEF Goes
    <2>2. ASSUME Revokes(p) \/ Removes(p) PROVE Goes
      BY <2>2, <1>3, <1>4 DEF Revokes, Removes
    <2>3. bench' = bench
      BY <1>7 DEF SignOut, Revokes, Removes, Submits
    <2> QED BY <1>7, <2>1, <2>2, <2>3
  <1>8. Goes /\ bench' = bench
    <2> HIDE DEF Goes
    <2> QED BY <1>5, <1>6, <1>7
  <1> QED BY <1>8, AtElsewhere

LEMMA ScoreNext == SubmitInv /\ ScoreInv /\ [Next]_vars => ScoreInv'
PROOF
  <1> SUFFICES ASSUME SubmitInv, ScoreInv, [Next]_vars PROVE ScoreInv'
    OBVIOUS
  <1>1. SubmitTypes
    BY DEF SubmitInv
  <1>2. ASSUME NEW p \in Procs, Dies(p) PROVE ScoreInv'
    <2>1. bench' = [bench EXCEPT ![p] = NoBench] /\ Becomes(p, Idle)
      BY <1>2 DEF Dies
    <2>2. TaskOK(Idle.at, NoBench)
      BY DEF TaskOK, Idle
    <2> QED BY <1>1, <2>1, <2>2, NoBenchOK, RunMoves
  <1>3. ASSUME NEW p \in Procs,
               \/ Runner(p) \/ DeviceLink(p) \/ SubmitLinked(p)
               \/ SignOut(p) \/ Revokes(p) \/ Removes(p) \/ Dies(p)
        PROVE  ScoreInv'
    BY <1>1, <1>2, <1>3, RunnerKeeps, OtherRunKeeps
  <1>4. ASSUME cmd' = cmd, bench' = bench PROVE ScoreInv'
    BY <1>4, RunKeeps
  <1>5. ASSUME NEW t \in server.accepts, TokenEnds(t) PROVE ScoreInv'
    BY <1>4, <1>5 DEF TokenEnds
  <1>6. CASE UNCHANGED vars
    BY <1>4, <1>6 DEF vars
  <1> QED BY <1>3, <1>5, <1>6 DEF Next

LEMMA ScoreInit == Init => ScoreInv
PROOF
  <1> SUFFICES ASSUME Init PROVE ScoreInv
    OBVIOUS
  <1>1. cmd = [p \in Procs |-> Idle] /\ bench = [p \in Procs |-> NoBench]
    BY DEF Init
  <1>2. TaskOK(Idle.at, NoBench)
    BY DEF TaskOK, Idle
  <1> QED BY <1>1, <1>2, NoBenchOK DEF ScoreInv

LEMMA InvEarned == ScoreInv => ResultsEarned
PROOF
  <1> SUFFICES ASSUME ScoreInv, NEW p \in Procs, cmd[p].at = "scored"
               PROVE  LET b == bench[p]  expect == Task(p).expect
                      IN /\ b.ran = ValidCalls(b.calls)
                         /\ b.score.success =>
                              /\ \E f \in Injection(DOMAIN expect, DOMAIN b.ran) :
                                   \A j \in DOMAIN expect : b.ran[f[j]].call \in expect[j]
                              /\ b.ran = b.calls /\ (Task(p).forbid /\ expect = <<>> => b.calls = <<>>)
                              /\ ~(b.live /\ Task(p).skip) =>
                                   /\ b.answer # NoAnswer /\ Task(p).texts \subseteq b.answer
                                   /\ \A t \in Task(p).from : Shows(b.ran, t, b.answer)
    BY DEF ResultsEarned
  <1> DEFINE b == bench[p]
             task == Task(p)
  <1>1. RunOK(b) /\ b.task \in DOMAIN Suite /\ OfTask(b, Suite[b.task])
    BY DEF ScoreInv, TaskOK
  <1>2. task = Suite[b.task] /\ task \in Range(Suite)
    BY <1>1 DEF Task, Range
  <1>3. task.expect \in Seq(Range(task.expect)) /\ IsFiniteSet(task.texts) /\ IsFiniteSet(task.from)
    BY <1>2, BenchAssumption
  <1>4. PICK failure \in {"none", "timeout", "http"} : b.score = ScoreTask(task, b.live, b.calls, b.answer, failure)
    BY <1>1, <1>2 DEF OfTask
  <1>5. b.calls \in Seq(Call) /\ b.ran = ValidCalls(b.calls)
    BY <1>1, RunFields DEF RunOK
  <1> HIDE DEF b, task
  <1>6. ASSUME b.score.success
        PROVE  /\ \E f \in Injection(DOMAIN task.expect, DOMAIN b.ran) :
                    \A j \in DOMAIN task.expect : b.ran[f[j]].call \in task.expect[j]
               /\ b.ran = b.calls /\ (task.forbid /\ task.expect = <<>> => b.calls = <<>>)
               /\ ~(b.live /\ task.skip) =>
                    /\ b.answer # NoAnswer /\ task.texts \subseteq b.answer
                    /\ \A t \in task.from : Shows(b.ran, t, b.answer)
    <2>1. ScoreTask(task, b.live, b.calls, b.answer, failure).success
      BY <1>4, <1>6
    <2> DEFINE calls == b.calls
               valid == ValidCalls(calls)
               live == b.live
               answer == b.answer
    <2>2. calls \in Seq(Call) /\ b.ran = valid /\ ScoreTask(task, live, calls, answer, failure).success
      BY <1>5, <2>1
    <2> HIDE DEF calls, live, answer
    <2>3. /\ \E f \in Injection(DOMAIN task.expect, DOMAIN valid) :
                \A j \in DOMAIN task.expect : valid[f[j]].call \in task.expect[j]
          /\ valid = calls /\ (task.forbid /\ task.expect = <<>> => calls = <<>>)
          /\ ~(live /\ task.skip) =>
                /\ answer # NoAnswer /\ task.texts \subseteq answer
                /\ \A t \in task.from : Shows(valid, t, answer)
      BY <1>3, <2>2, ScoreEarned, ZenonT(90)
    <2> HIDE DEF valid
    <2> QED BY <2>2, <2>3 DEF calls, live, answer
  <1> QED BY <1>5, <1>6 DEF b, task

\* A stored success is earned: whatever calling a run began with and fell back to, for any
\* suite, replies and tools, the calls that are counted are those that were run, every
\* expected call was met by one of its own, and the answer passes every check (score_task,
\* Runner).
THEOREM Earned == Spec => []ResultsEarned
PROOF
  <1>1. Init => SubmitInv /\ ScoreInv
    BY SubmitInit, ScoreInit
  <1>2. SubmitInv /\ ScoreInv /\ [Next]_vars => (SubmitInv /\ ScoreInv)'
    BY SubmitNext, ScoreNext
  <1>3. SubmitInv /\ ScoreInv => ResultsEarned
    BY InvEarned
  <1> QED BY <1>1, <1>2, <1>3, PTL DEF Spec
=============================================================================
