-------------------------- MODULE ConversationProofs --------------------------
(***************************************************************************)
(* Proofs about Conversation for any processes, threads, replies, budgets  *)
(* and numbers of steps and turns.                                         *)
(***************************************************************************)
EXTENDS Conversation, SequenceTheorems, FiniteSetTheorems, WellFoundedInduction, TLAPS

-----------------------------------------------------------------------------
(* The inductive invariant *)

Message == [role : {"user", "assistant", "tool"}, n : Nat]
Messages == Seq(Message)
Points == {"out", "prompt", "asking", "calling", "over"}
Process == [at : Points, plain : BOOLEAN, id : Ids \cup {NoThread}, kept : Messages, sent : Messages, base : Nat,
            step : Nat, todo : Seq(Nat)]

\* A conversation of which the last `left` results are still to come, place by place.
CallsMet(ms, left) ==
  \A i \in DOMAIN ms : ms[i].role = "assistant" =>
    /\ i + ms[i].n <= Len(ms) + left
    /\ \A j \in DOMAIN ms : i < j /\ j <= i + ms[i].n => ms[j].role = "tool"
ResultsMeant(ms) ==
  \A j \in DOMAIN ms : ms[j].role = "tool" =>
    \E i \in DOMAIN ms : ms[i].role = "assistant" /\ i < j /\ j <= i + ms[i].n
Whole(ms, left) ==
  /\ ms # <<>> => ms[1].role = "user"
  /\ CallsMet(ms, left) /\ ResultsMeant(ms)
  /\ left > 0 => \E i \in DOMAIN ms : ms[i].role = "assistant" /\ i + ms[i].n = Len(ms) + left

\* The chat without tools alternates.
Alternates(ms) == \A i \in DOMAIN ms : ms[i] = IF i % 2 = 1 THEN User ELSE Assistant(0)

Before(pr) == SubSeq(pr.sent, 1, pr.base)
Fits(pr) == ~pr.plain => NewestThatFit(pr.kept, Before(pr))

\* What a process holds: whole turns between turns, its own line and what came of it in one.
ToolsOK(pr) ==
  /\ Whole(pr.kept, 0)
  /\ pr.at \in {"asking", "calling", "over"} =>
       /\ pr.base < Len(pr.sent) /\ pr.sent[pr.base + 1].role = "user"
       /\ Whole(pr.sent, Len(pr.todo))
  /\ pr.at \in {"prompt", "asking", "over"} => pr.todo = <<>>
  /\ pr.at = "calling" => pr.todo # <<>>
PlainOK(pr) ==
  /\ Alternates(pr.kept) /\ pr.at # "calling"
  /\ pr.at = "prompt" => Len(pr.kept) % 2 = 0
  /\ pr.at \in {"asking", "over"} => Len(pr.kept) % 2 = 1
  /\ pr.at = "asking" => pr.sent = pr.kept /\ pr.base = Len(pr.kept) - 1
ProcOK(pr) ==
  /\ IF pr.plain THEN PlainOK(pr) ELSE ToolsOK(pr)
  /\ pr.at \in {"asking", "calling"} => Fits(pr)

FileOK(t) == file[t] # Absent => file[t] \in Messages /\ Whole(file[t], 0)

TurnsInv ==
  /\ proc \in [Procs -> Process] /\ DOMAIN file = Ids
  /\ \A t \in Ids : FileOK(t)
  /\ \A p \in Procs : ProcOK(proc[p])

-----------------------------------------------------------------------------
(* Conversations *)

LEMMA Kinds ==
  /\ User \in Message /\ User.role = "user"
  /\ \A n \in Nat : /\ Assistant(n) \in Message /\ Assistant(n).role = "assistant" /\ Assistant(n).n = n
                    /\ Tool(n) \in Message /\ Tool(n).role = "tool" /\ Tool(n).n = n
PROOF
  BY DEF Message, User, Assistant, Tool

LEMMA Of ==
  ASSUME NEW ms \in Messages
  PROVE  /\ Len(ms) \in Nat /\ DOMAIN ms = 1..Len(ms)
         /\ \A i \in DOMAIN ms : i \in Nat /\ ms[i] \in Message /\ ms[i].n \in Nat
PROOF
  <1>1. Len(ms) \in Nat /\ DOMAIN ms = 1..Len(ms) /\ \A i \in DOMAIN ms : i \in Nat /\ ms[i] \in Message
    BY DEF Messages
  <1>2. \A i \in DOMAIN ms : ms[i].n \in Nat
    BY <1>1 DEF Message
  <1> QED BY <1>1, <1>2

\* A sequence and one more message.
LEMMA Appended ==
  ASSUME NEW ms \in Messages, NEW m \in Message
  PROVE  /\ Append(ms, m) \in Messages /\ Len(Append(ms, m)) = Len(ms) + 1
         /\ \A i \in 1..Len(ms) : Append(ms, m)[i] = ms[i]
         /\ Append(ms, m)[Len(ms) + 1] = m
         /\ DOMAIN Append(ms, m) = 1..(Len(ms) + 1) /\ Append(ms, m) # <<>>
PROOF
  <1>1. ms \in Seq(Message)
    BY DEF Messages
  <1>2. Append(ms, m) \in Seq(Message) /\ Len(Append(ms, m)) = Len(ms) + 1 /\ Append(ms, m)[Len(ms) + 1] = m
    BY <1>1
  <1>3. \A i \in 1..Len(ms) : Append(ms, m)[i] = ms[i]
    BY <1>1
  <1>4. Append(ms, m) # <<>> /\ DOMAIN Append(ms, m) = 1..(Len(ms) + 1)
    BY <1>1, <1>2
  <1> QED BY <1>2, <1>3, <1>4 DEF Messages

\* The messages from b on.
LEMMA FromIs ==
  ASSUME NEW ms \in Messages, NEW b \in DOMAIN ms
  PROVE  /\ From(ms, b) \in Messages /\ Len(From(ms, b)) = Len(ms) - b + 1 /\ From(ms, b) # <<>>
         /\ \A i \in 1..Len(From(ms, b)) : From(ms, b)[i] = ms[b + i - 1]
         /\ b \in Nat /\ b >= 1 /\ b <= Len(ms) /\ Len(ms) \in Nat
PROOF
  <1>1. ms \in Seq(Message) /\ b \in 1..Len(ms) /\ Len(ms) \in Nat
    BY DEF Messages
  <1>2. From(ms, b) \in Seq(Message) /\ Len(From(ms, b)) = Len(ms) - b + 1
    BY <1>1 DEF From
  <1>3. \A i \in 1..Len(From(ms, b)) : From(ms, b)[i] = ms[b + i - 1]
    BY <1>1 DEF From
  <1>4. From(ms, b) # <<>>
    BY <1>1, <1>2
  <1> QED BY <1>1, <1>2, <1>3, <1>4 DEF Messages

\* The property of the run, from what is said place by place.
LEMMA WholeMeans ==
  ASSUME NEW ms \in Messages, Whole(ms, 0)
  PROVE  WellFormed(ms)
PROOF
  <1> DEFINE spoken == {i \in DOMAIN ms : ms[i].role = "assistant"}
             results == {i \in DOMAIN ms : ms[i].role = "tool"}
  <1>1. Len(ms) \in Nat /\ DOMAIN ms = 1..Len(ms) /\ \A i \in DOMAIN ms : i \in Nat /\ ms[i].n \in Nat
    BY Of
  <1>2. ASSUME NEW i \in spoken
        PROVE  Answers(ms, i) = (i + 1)..(i + ms[i].n)
    <2>1. i \in Nat /\ i >= 1 /\ ms[i].n \in Nat /\ i + ms[i].n <= Len(ms)
      BY <1>1 DEF Whole, CallsMet
    <2>2. ASSUME NEW j \in (i + 1)..(i + ms[i].n) PROVE j <= Len(ms) /\ ms[j].role = "tool"
      <3>1. j \in DOMAIN ms /\ i < j /\ j <= i + ms[i].n /\ j <= Len(ms)
        BY <1>1, <2>1
      <3> QED BY <3>1 DEF Whole, CallsMet
    <2> QED BY <2>2 DEF Answers
  <1>3. ASSUME NEW i \in spoken
        PROVE  Cardinality(Answers(ms, i)) = ms[i].n
    <2>1. i + 1 \in Int /\ i + ms[i].n \in Int /\ ms[i].n \in Nat /\ i \in Nat
      BY <1>1
    <2>2. Cardinality((i + 1)..(i + ms[i].n)) = IF i + 1 > i + ms[i].n THEN 0 ELSE (i + ms[i].n) - (i + 1) + 1
      BY <2>1, FS_Interval
    <2> QED BY <1>2, <2>1, <2>2
  <1>4. results = UNION {Answers(ms, i) : i \in spoken}
    <2>1. ASSUME NEW j \in results PROVE j \in UNION {Answers(ms, i) : i \in spoken}
      <3>1. PICK i \in DOMAIN ms : ms[i].role = "assistant" /\ i < j /\ j <= i + ms[i].n
        BY DEF Whole, ResultsMeant
      <3>2. i \in spoken /\ j \in (i + 1)..(i + ms[i].n)
        BY <1>1, <3>1
      <3>3. j \in Answers(ms, i)
        BY <1>2, <3>2
      <3> HIDE DEF spoken
      <3> QED BY <3>2, <3>3
    <2>2. ASSUME NEW i \in spoken, NEW j \in Answers(ms, i) PROVE j \in results
      <3>1. j \in (i + 1)..(i + ms[i].n) /\ j <= Len(ms) /\ ms[j].role = "tool"
        BY DEF Answers
      <3>2. i \in Nat /\ i >= 1
        BY <1>1
      <3> QED BY <1>1, <3>1, <3>2
    <2> HIDE DEF results, spoken
    <2> QED BY <2>1, <2>2
  <1>5. ms # <<>> => ms[1].role = "user"
    BY DEF Whole
  <1> QED BY <1>3, <1>4, <1>5 DEF WellFormed

\* The model's message, with as many results to come as it has calls.
LEMMA WholeSaid ==
  ASSUME NEW ms \in Messages, Whole(ms, 0), ms # <<>>, NEW n \in Nat
  PROVE  Append(ms, Assistant(n)) \in Messages /\ Whole(Append(ms, Assistant(n)), n)
PROOF
  <1> DEFINE m == Assistant(n)
             ns == Append(ms, m)
             l == Len(ms)
  <1>1. m \in Message /\ m.role = "assistant" /\ m.n = n
    BY Kinds
  <1> HIDE DEF m
  <1>2. /\ ns \in Messages /\ Len(ns) = l + 1 /\ (\A i \in 1..l : ns[i] = ms[i]) /\ ns[l + 1] = m
        /\ DOMAIN ns = 1..(l + 1)
    BY <1>1, Appended
  <1>3. l \in Nat /\ DOMAIN ms = 1..l /\ l >= 1 /\ \A i \in DOMAIN ms : i \in Nat /\ ms[i].n \in Nat
    <2>1. l # 0
      BY DEF Messages
    <2> QED BY <2>1, Of
  <1> HIDE DEF ns, l
  <1>4. ns[1].role = "user"
    BY <1>2, <1>3 DEF Whole
  <1>5. CallsMet(ns, n)
    <2> SUFFICES ASSUME NEW i \in 1..(l + 1), ns[i].role = "assistant"
                 PROVE  /\ i + ns[i].n <= Len(ns) + n
                        /\ \A j \in 1..(l + 1) : i < j /\ j <= i + ns[i].n => ns[j].role = "tool"
      BY <1>2 DEF CallsMet
    <2>1. CASE i = l + 1
      BY <1>1, <1>2, <1>3, <2>1
    <2>2. CASE i # l + 1
      <3>1. i \in 1..l /\ ns[i] = ms[i] /\ ms[i].n \in Nat
        BY <1>2, <1>3, <2>2
      <3>2. i + ms[i].n <= l /\ \A j \in 1..l : i < j /\ j <= i + ms[i].n => ms[j].role = "tool"
        <4>1. l = Len(ms)
          BY DEF l
        <4> QED BY <1>3, <3>1, <4>1 DEF Whole, CallsMet
      <3>3. i + ns[i].n <= Len(ns) + n
        BY <1>2, <1>3, <3>1, <3>2
      <3>4. ASSUME NEW j \in 1..(l + 1), i < j, j <= i + ns[i].n PROVE ns[j].role = "tool"
        <4>1. j \in 1..l
          BY <1>3, <3>1, <3>2, <3>4
        <4> QED BY <1>2, <3>1, <3>2, <3>4, <4>1
      <3> QED BY <3>3, <3>4
    <2> QED BY <2>1, <2>2
  <1>6. ResultsMeant(ns)
    <2> SUFFICES ASSUME NEW j \in 1..(l + 1), ns[j].role = "tool"
                 PROVE  \E i \in 1..(l + 1) : ns[i].role = "assistant" /\ i < j /\ j <= i + ns[i].n
      BY <1>2 DEF ResultsMeant
    <2>1. j # l + 1
      BY <1>1, <1>2
    <2>2. j \in 1..l /\ ms[j].role = "tool"
      BY <1>2, <1>3, <2>1
    <2>3. PICK i \in 1..l : ms[i].role = "assistant" /\ i < j /\ j <= i + ms[i].n
      BY <1>3, <2>2 DEF Whole, ResultsMeant
    <2>4. i \in 1..(l + 1) /\ ns[i] = ms[i]
      BY <1>2, <1>3
    <2> QED BY <2>3, <2>4
  <1>7. \E i \in DOMAIN ns : ns[i].role = "assistant" /\ i + ns[i].n = Len(ns) + n
    <2>1. l + 1 \in DOMAIN ns
      BY <1>2, <1>3
    <2>2. ns[l + 1].role = "assistant" /\ (l + 1) + ns[l + 1].n = Len(ns) + n
      BY <1>1, <1>2, <1>3
    <2> QED BY <2>1, <2>2
  <1> QED BY <1>2, <1>4, <1>5, <1>6, <1>7 DEF Whole, ns, m

\* The user's line.
LEMMA WholeLine ==
  ASSUME NEW ms \in Messages, Whole(ms, 0)
  PROVE  Append(ms, User) \in Messages /\ Whole(Append(ms, User), 0)
PROOF
  <1> DEFINE ns == Append(ms, User)
             l == Len(ms)
  <1>1. User \in Message /\ User.role = "user"
    BY Kinds
  <1>2. /\ ns \in Messages /\ Len(ns) = l + 1 /\ (\A i \in 1..l : ns[i] = ms[i]) /\ ns[l + 1] = User
        /\ DOMAIN ns = 1..(l + 1)
    BY <1>1, Appended
  <1>3. l \in Nat /\ DOMAIN ms = 1..l /\ (l >= 1 => ms # <<>>) /\ \A i \in DOMAIN ms : i \in Nat /\ ms[i].n \in Nat
    BY Of
  <1> HIDE DEF ns, l
  <1>4. ns[1].role = "user"
    <2>1. CASE l = 0
      BY <1>1, <1>2, <2>1
    <2>2. CASE l >= 1
      <3>1. 1 \in 1..l /\ ns[1] = ms[1]
        BY <1>2, <1>3, <2>2
      <3> QED BY <1>3, <2>2, <3>1 DEF Whole
    <2> QED BY <1>3, <2>1, <2>2
  <1>5. CallsMet(ns, 0)
    <2> SUFFICES ASSUME NEW i \in 1..(l + 1), ns[i].role = "assistant"
                 PROVE  /\ i + ns[i].n <= Len(ns) + 0
                        /\ \A j \in 1..(l + 1) : i < j /\ j <= i + ns[i].n => ns[j].role = "tool"
      BY <1>2 DEF CallsMet
    <2>1. i # l + 1
      BY <1>1, <1>2
    <2>2. i \in 1..l /\ ns[i] = ms[i] /\ ms[i].n \in Nat
      BY <1>2, <1>3, <2>1
    <2>3. i + ms[i].n <= l /\ \A j \in 1..l : i < j /\ j <= i + ms[i].n => ms[j].role = "tool"
      <3>1. l = Len(ms)
        BY DEF l
      <3> QED BY <1>3, <2>2, <3>1 DEF Whole, CallsMet
    <2>4. i + ns[i].n <= Len(ns) + 0
      BY <1>2, <1>3, <2>2, <2>3
    <2>5. ASSUME NEW j \in 1..(l + 1), i < j, j <= i + ns[i].n PROVE ns[j].role = "tool"
      <3>1. j \in 1..l
        BY <1>3, <2>2, <2>3, <2>5
      <3> QED BY <1>2, <2>2, <2>3, <2>5, <3>1
    <2> QED BY <2>4, <2>5
  <1>6. ResultsMeant(ns)
    <2> SUFFICES ASSUME NEW j \in 1..(l + 1), ns[j].role = "tool"
                 PROVE  \E i \in 1..(l + 1) : ns[i].role = "assistant" /\ i < j /\ j <= i + ns[i].n
      BY <1>2 DEF ResultsMeant
    <2>1. j # l + 1
      BY <1>1, <1>2
    <2>2. j \in 1..l /\ ms[j].role = "tool"
      BY <1>2, <1>3, <2>1
    <2>3. PICK i \in 1..l : ms[i].role = "assistant" /\ i < j /\ j <= i + ms[i].n
      BY <1>3, <2>2 DEF Whole, ResultsMeant
    <2>4. i \in 1..(l + 1) /\ ns[i] = ms[i]
      BY <1>2, <1>3
    <2> QED BY <2>3, <2>4
  <1> QED BY <1>2, <1>4, <1>5, <1>6 DEF Whole, ns

\* The next result.
LEMMA WholeResult ==
  ASSUME NEW ms \in Messages, NEW left \in Nat, left >= 1, Whole(ms, left), NEW size \in Nat
  PROVE  Append(ms, Tool(size)) \in Messages /\ Whole(Append(ms, Tool(size)), left - 1)
PROOF
  <1> DEFINE m == Tool(size)
             ns == Append(ms, m)
             l == Len(ms)
  <1>1. m \in Message /\ m.role = "tool"
    BY Kinds
  <1> HIDE DEF m
  <1>2. /\ ns \in Messages /\ Len(ns) = l + 1 /\ (\A i \in 1..l : ns[i] = ms[i]) /\ ns[l + 1] = m
        /\ DOMAIN ns = 1..(l + 1)
    BY <1>1, Appended
  <1>3. l \in Nat /\ DOMAIN ms = 1..l /\ \A i \in DOMAIN ms : i \in Nat /\ ms[i].n \in Nat
    BY Of
  <1>4. PICK c \in 1..l : ms[c].role = "assistant" /\ c + ms[c].n = l + left
    BY <1>3 DEF Whole
  <1>5. ns[1].role = "user" /\ ns[c] = ms[c] /\ c \in 1..(l + 1)
    <2>1. 1 \in 1..l /\ ms # <<>>
      BY <1>3, <1>4
    <2> HIDE DEF ns, l
    <2> QED BY <1>2, <1>3, <1>4, <2>1 DEF Whole
  <1> HIDE DEF ns, l
  <1>6. CallsMet(ns, left - 1)
    <2> SUFFICES ASSUME NEW i \in 1..(l + 1), ns[i].role = "assistant"
                 PROVE  /\ i + ns[i].n <= Len(ns) + (left - 1)
                        /\ \A j \in 1..(l + 1) : i < j /\ j <= i + ns[i].n => ns[j].role = "tool"
      BY <1>2 DEF CallsMet
    <2>1. i # l + 1
      BY <1>1, <1>2
    <2>2. i \in 1..l /\ ns[i] = ms[i] /\ ms[i].n \in Nat
      BY <1>2, <1>3, <2>1
    <2>3. i + ms[i].n <= l + left /\ \A j \in 1..l : i < j /\ j <= i + ms[i].n => ms[j].role = "tool"
      <3>1. l = Len(ms)
        BY DEF l
      <3> QED BY <1>3, <2>2, <3>1 DEF Whole, CallsMet
    <2>4. i + ns[i].n <= Len(ns) + (left - 1)
      BY <1>2, <1>3, <2>2, <2>3
    <2>5. ASSUME NEW j \in 1..(l + 1), i < j, j <= i + ns[i].n PROVE ns[j].role = "tool"
      <3>1. CASE j = l + 1
        BY <1>1, <1>2, <3>1
      <3>2. CASE j # l + 1
        <4>1. j \in 1..l
          BY <1>3, <3>2
        <4> QED BY <1>2, <2>2, <2>3, <2>5, <4>1
      <3> QED BY <3>1, <3>2
    <2> QED BY <2>4, <2>5
  <1>7. ResultsMeant(ns)
    <2> SUFFICES ASSUME NEW j \in 1..(l + 1), ns[j].role = "tool"
                 PROVE  \E i \in 1..(l + 1) : ns[i].role = "assistant" /\ i < j /\ j <= i + ns[i].n
      BY <1>2 DEF ResultsMeant
    <2>1. CASE j = l + 1
      <3>1. c < j /\ j <= c + ns[c].n
        BY <1>3, <1>4, <1>5, <2>1
      <3> QED BY <1>4, <1>5, <3>1
    <2>2. CASE j # l + 1
      <3>1. j \in 1..l /\ ms[j].role = "tool"
        BY <1>2, <1>3, <2>2
      <3>2. PICK i \in 1..l : ms[i].role = "assistant" /\ i < j /\ j <= i + ms[i].n
        BY <1>3, <3>1 DEF Whole, ResultsMeant
      <3>3. i \in 1..(l + 1) /\ ns[i] = ms[i]
        BY <1>2, <1>3
      <3> QED BY <3>2, <3>3
    <2> QED BY <2>1, <2>2
  <1>8. ns[c].role = "assistant" /\ c + ns[c].n = Len(ns) + (left - 1) /\ c \in DOMAIN ns
    BY <1>2, <1>3, <1>4, <1>5
  <1> QED BY <1>2, <1>5, <1>6, <1>7, <1>8 DEF Whole, ns, m

\* The turns from a line of the user's on: no call is cut off its results.
LEMMA WholeFrom ==
  ASSUME NEW ms \in Messages, Whole(ms, 0), NEW b \in DOMAIN ms, ms[b].role = "user"
  PROVE  From(ms, b) \in Messages /\ Whole(From(ms, b), 0)
PROOF
  <1> DEFINE ns == From(ms, b)
             l == Len(ns)
             d == b - 1
  <1>1. /\ ns \in Messages /\ l = Len(ms) - b + 1 /\ (\A i \in 1..l : ns[i] = ms[b + i - 1])
        /\ b \in Nat /\ b >= 1 /\ b <= Len(ms) /\ Len(ms) \in Nat /\ l \in Nat
    BY FromIs, Of
  <1>2. DOMAIN ms = 1..Len(ms) /\ \A i \in DOMAIN ms : i \in Nat /\ ms[i].n \in Nat
    BY Of
  <1> HIDE DEF ns
  <1>3. DOMAIN ns = 1..l
    BY <1>1, Of
  <1> HIDE DEF l
  <1>4. d \in Nat /\ Len(ms) = d + l /\ b = d + 1 /\ l >= 1
    <2>1. l = Len(ms) - b + 1 /\ b \in Nat /\ b >= 1 /\ b <= Len(ms) /\ Len(ms) \in Nat
      BY <1>1 DEF l
    <2>2. d \in Nat /\ b = d + 1
      BY <2>1
    <2>3. l >= 1
      BY <2>1
    <2>4. Len(ms) = d + l
      BY <2>1
    <2> QED BY <2>2, <2>3, <2>4
  <1> HIDE DEF d
  <1>5. \A i \in 1..l : d + i \in 1..Len(ms) /\ ns[i] = ms[d + i]
    <2> TAKE i \in 1..l
    <2>1. b + i - 1 = d + i /\ d + i \in 1..Len(ms)
      BY <1>1, <1>4
    <2> QED BY <1>1, <2>1
  <1>6. ns[1].role = "user"
    <2>1. 1 \in 1..l /\ d + 1 = b
      BY <1>1, <1>4
    <2> QED BY <1>5, <2>1
  <1>7. CallsMet(ns, 0)
    <2> SUFFICES ASSUME NEW i \in 1..l, ns[i].role = "assistant"
                 PROVE  i + ns[i].n <= l + 0 /\ \A j \in 1..l : i < j /\ j <= i + ns[i].n => ns[j].role = "tool"
      BY <1>3 DEF CallsMet, l
    <2>1. d + i \in DOMAIN ms /\ ms[d + i].role = "assistant" /\ ms[d + i].n = ns[i].n /\ ns[i].n \in Nat
      BY <1>2, <1>5
    <2>2. /\ (d + i) + ns[i].n <= Len(ms)
          /\ \A j \in DOMAIN ms : d + i < j /\ j <= (d + i) + ns[i].n => ms[j].role = "tool"
      BY <1>1, <2>1 DEF Whole, CallsMet
    <2>3. i + ns[i].n <= l + 0
      <3>1. (d + i) + ns[i].n <= d + l /\ l \in Nat /\ i \in Nat
        BY <1>1, <1>4, <2>2 DEF l
      <3> QED BY <1>4, <2>1, <3>1
    <2>4. ASSUME NEW j \in 1..l, i < j, j <= i + ns[i].n PROVE ns[j].role = "tool"
      <3>1. d + j \in DOMAIN ms /\ d + i < d + j /\ d + j <= (d + i) + ns[i].n
        BY <1>2, <1>4, <1>5, <2>1, <2>4
      <3> QED BY <1>5, <2>2, <3>1
    <2> QED BY <2>3, <2>4
  <1>8. ResultsMeant(ns)
    <2> SUFFICES ASSUME NEW j \in 1..l, ns[j].role = "tool"
                 PROVE  \E i \in 1..l : ns[i].role = "assistant" /\ i < j /\ j <= i + ns[i].n
      BY <1>3 DEF ResultsMeant
    <2>1. d + j \in DOMAIN ms /\ ms[d + j].role = "tool"
      BY <1>2, <1>5
    <2>2. PICK c \in DOMAIN ms : ms[c].role = "assistant" /\ c < d + j /\ d + j <= c + ms[c].n
      BY <2>1 DEF Whole, ResultsMeant
    <2>3. c >= b
      <3> SUFFICES ASSUME c < b PROVE FALSE
        BY <1>1, <1>2, <2>2
      <3>1. b <= c + ms[c].n
        BY <1>1, <1>2, <1>4, <2>2
      <3>2. ms[b].role = "tool"
        BY <2>2, <3>1 DEF Whole, CallsMet
      <3> QED BY <3>2
    <2>4. c - d \in 1..l /\ d + (c - d) = c
      BY <1>1, <1>2, <1>4, <2>2, <2>3
    <2>5. ns[c - d] = ms[c]
      BY <1>5, <2>4
    <2>6. c - d < j /\ j <= (c - d) + ns[c - d].n
      BY <1>1, <1>2, <1>4, <2>2, <2>4, <2>5
    <2> QED BY <2>2, <2>4, <2>5, <2>6
  <1> QED BY <1>1, <1>6, <1>7, <1>8 DEF Whole, ns

\* A thread and a turn that is added to it.
LEMMA WholeAdded ==
  ASSUME NEW ms \in Messages, NEW hs \in Messages, Whole(ms, 0), Whole(hs, 0)
  PROVE  ms \o hs \in Messages /\ Whole(ms \o hs, 0)
PROOF
  <1> DEFINE ns == ms \o hs
             d == Len(ms)
             l == Len(hs)
  <1>1. /\ ns \in Messages /\ Len(ns) = d + l /\ (\A i \in 1..d : ns[i] = ms[i]) /\ (\A i \in 1..l : ns[d + i] = hs[i])
        /\ (d = 0 => ms = <<>>) /\ (l = 0 => hs = <<>>)
    BY DEF Messages
  <1>2. /\ d \in Nat /\ DOMAIN ms = 1..d /\ \A i \in DOMAIN ms : i \in Nat /\ ms[i].n \in Nat
    BY Of
  <1>3. l \in Nat /\ DOMAIN hs = 1..l /\ \A i \in DOMAIN hs : i \in Nat /\ hs[i].n \in Nat
    BY Of
  <1>4. (d >= 1 => ms # <<>>) /\ (l >= 1 => hs # <<>>)
    BY <1>2, <1>3
  <1> HIDE DEF ns
  <1>5. DOMAIN ns = 1..(d + l)
    BY <1>1, Of
  <1>6. /\ \A i \in 1..d : ms[i].role = "assistant" =>
             i + ms[i].n <= d /\ \A j \in 1..d : i < j /\ j <= i + ms[i].n => ms[j].role = "tool"
        /\ \A j \in 1..d : ms[j].role = "tool" => \E i \in 1..d : ms[i].role = "assistant" /\ i < j /\ j <= i + ms[i].n
    BY <1>2 DEF Whole, CallsMet, ResultsMeant
  <1>7. /\ \A i \in 1..l : hs[i].role = "assistant" =>
             i + hs[i].n <= l /\ \A j \in 1..l : i < j /\ j <= i + hs[i].n => hs[j].role = "tool"
        /\ \A j \in 1..l : hs[j].role = "tool" => \E i \in 1..l : hs[i].role = "assistant" /\ i < j /\ j <= i + hs[i].n
    <2>1. /\ \A i \in 1..l : hs[i].role = "assistant" => i + hs[i].n <= l + 0
          /\ \A i \in 1..l : hs[i].role = "assistant" => \A j \in 1..l : i < j /\ j <= i + hs[i].n => hs[j].role = "tool"
      BY <1>3 DEF Whole, CallsMet
    <2>2. \A j \in 1..l : hs[j].role = "tool" => \E i \in 1..l : hs[i].role = "assistant" /\ i < j /\ j <= i + hs[i].n
      BY <1>3 DEF Whole, ResultsMeant
    <2> QED BY <1>3, <2>1, <2>2
  <1>8. ns # <<>> => ns[1].role = "user"
    <2>1. CASE d >= 1
      <3>1. 1 \in 1..d
        BY <1>2, <2>1
      <3>2. ns[1] = ms[1] /\ ms # <<>>
        BY <1>1, <1>4, <2>1, <3>1
      <3> QED BY <3>2 DEF Whole
    <2>2. CASE d = 0 /\ l >= 1
      <3>1. 1 \in 1..l /\ d + 1 = 1
        BY <1>3, <2>2
      <3>2. ns[1] = hs[1] /\ hs # <<>>
        BY <1>1, <1>4, <2>2, <3>1
      <3> QED BY <3>2 DEF Whole
    <2>3. CASE d = 0 /\ l = 0
      <3>1. ns = <<>>
        BY <1>1, <2>3 DEF ns
      <3> QED BY <3>1
    <2> QED BY <1>2, <1>3, <2>1, <2>2, <2>3
  <1> HIDE DEF d, l
  <1>9. CallsMet(ns, 0)
    <2> SUFFICES ASSUME NEW i \in 1..(d + l), ns[i].role = "assistant"
                 PROVE  /\ i + ns[i].n <= (d + l) + 0
                        /\ \A j \in 1..(d + l) : i < j /\ j <= i + ns[i].n => ns[j].role = "tool"
      BY <1>1, <1>5 DEF CallsMet
    <2>1. CASE i <= d
      <3>1. i \in 1..d /\ ns[i] = ms[i] /\ ms[i].n \in Nat
        BY <1>1, <1>2, <2>1
      <3>2. i + ms[i].n <= d
        BY <1>6, <3>1
      <3>3. i + ns[i].n <= (d + l) + 0
        BY <1>2, <1>3, <3>1, <3>2
      <3>4. ASSUME NEW j \in 1..(d + l), i < j, j <= i + ns[i].n PROVE ns[j].role = "tool"
        <4>1. j \in 1..d
          BY <1>2, <3>1, <3>2, <3>4
        <4> QED BY <1>1, <1>6, <3>1, <3>4, <4>1
      <3> QED BY <3>3, <3>4
    <2>2. CASE i > d
      <3> DEFINE k == i - d
      <3>1. k \in 1..l /\ i = d + k
        BY <1>2, <1>3, <2>2
      <3> HIDE DEF k
      <3>2. ns[i] = hs[k] /\ hs[k].n \in Nat
        BY <1>1, <1>3, <3>1
      <3>3. k + hs[k].n <= l
        BY <1>7, <3>1, <3>2
      <3>4. i + ns[i].n <= (d + l) + 0
        BY <1>2, <1>3, <3>1, <3>2, <3>3
      <3>5. ASSUME NEW j \in 1..(d + l), i < j, j <= i + ns[i].n PROVE ns[j].role = "tool"
        <4>1. j - d \in 1..l /\ d + (j - d) = j /\ k < j - d /\ j - d <= k + hs[k].n
          BY <1>2, <1>3, <3>1, <3>2, <3>5
        <4>2. hs[j - d].role = "tool"
          BY <1>7, <3>1, <3>2, <4>1
        <4> QED BY <1>1, <4>1, <4>2
      <3> QED BY <3>4, <3>5
    <2> QED BY <1>2, <2>1, <2>2
  <1>10. ResultsMeant(ns)
    <2> SUFFICES ASSUME NEW j \in 1..(d + l), ns[j].role = "tool"
                 PROVE  \E i \in 1..(d + l) : ns[i].role = "assistant" /\ i < j /\ j <= i + ns[i].n
      BY <1>5 DEF ResultsMeant
    <2>1. CASE j <= d
      <3>1. j \in 1..d /\ ms[j].role = "tool"
        BY <1>1, <1>2, <2>1
      <3>2. PICK i \in 1..d : ms[i].role = "assistant" /\ i < j /\ j <= i + ms[i].n
        BY <1>6, <3>1
      <3>3. i \in 1..(d + l) /\ ns[i] = ms[i]
        BY <1>1, <1>2, <1>3
      <3> QED BY <3>2, <3>3
    <2>2. CASE j > d
      <3> DEFINE k == j - d
      <3>1. k \in 1..l /\ j = d + k
        BY <1>2, <1>3, <2>2
      <3> HIDE DEF k
      <3>2. hs[k].role = "tool"
        BY <1>1, <3>1
      <3>3. PICK i \in 1..l : hs[i].role = "assistant" /\ i < k /\ k <= i + hs[i].n
        BY <1>7, <3>1, <3>2
      <3>4. d + i \in 1..(d + l) /\ ns[d + i] = hs[i] /\ d + i < j
        BY <1>1, <1>2, <1>3, <3>1, <3>3
      <3>5. j <= (d + i) + ns[d + i].n
        <4>1. hs[i].n \in Nat
          BY <1>3
        <4> QED BY <1>2, <3>1, <3>3, <3>4, <4>1
      <3> QED BY <3>3, <3>4, <3>5
    <2> QED BY <1>2, <2>1, <2>2
  <1> QED BY <1>1, <1>8, <1>9, <1>10 DEF Whole, ns

\* Long results are shortened.
LEMMA WholeShort ==
  ASSUME NEW ms \in Messages, Whole(ms, 0)
  PROVE  /\ Shortened(ms) \in Messages /\ Whole(Shortened(ms), 0) /\ Len(Shortened(ms)) = Len(ms)
         /\ Turns(Shortened(ms)) = Turns(ms)
PROOF
  <1> DEFINE ns == Shortened(ms)
             l == Len(ms)
  <1>1. l \in Nat /\ DOMAIN ms = 1..l /\ (\A i \in DOMAIN ms : i \in Nat /\ ms[i] \in Message /\ ms[i].n \in Nat)
        /\ (ms = <<>> => l = 0)
    BY Of
  <1>2. OldTool \in Nat
    BY ConversationAssumption
  <1>3. ASSUME NEW i \in 1..l
        PROVE  /\ ns[i] \in Message /\ ns[i].role = ms[i].role
               /\ ms[i].role # "tool" => ns[i] = ms[i]
    <2>1. ns[i] = IF ms[i].role = "tool" /\ ms[i].n > OldTool THEN Tool(OldTool) ELSE ms[i]
      BY <1>1 DEF Shortened
    <2>2. Tool(OldTool) \in Message /\ Tool(OldTool).role = "tool"
      BY <1>2, Kinds
    <2> QED BY <1>1, <2>1, <2>2
  <1>4. ns = [i \in 1..l |-> ns[i]]
    BY <1>1 DEF Shortened
  <1> HIDE DEF ns, l
  <1>5. ns \in Messages /\ Len(ns) = l /\ DOMAIN ns = 1..l
    BY <1>1, <1>3, <1>4 DEF Messages
  <1>6. ns # <<>> => ns[1].role = "user"
    <2>1. ASSUME ns # <<>> PROVE ns[1].role = "user"
      <3>1. l # 0
        <4> SUFFICES ASSUME l = 0 PROVE ns = <<>>
          BY <2>1
        <4> QED BY <1>5 DEF Messages
      <3>2. 1 \in 1..l /\ ms # <<>>
        BY <1>1, <3>1 DEF l
      <3> QED BY <1>3, <3>2 DEF Whole
    <2> QED BY <2>1
  <1>7. CallsMet(ns, 0)
    <2>1. l = Len(ms)
      BY DEF l
    <2> QED BY <1>1, <1>3, <1>5, <2>1 DEF Whole, CallsMet
  <1>8. ResultsMeant(ns)
    <2> SUFFICES ASSUME NEW j \in 1..l, ns[j].role = "tool"
                 PROVE  \E i \in 1..l : ns[i].role = "assistant" /\ i < j /\ j <= i + ns[i].n
      BY <1>5 DEF ResultsMeant
    <2>1. PICK i \in 1..l : ms[i].role = "assistant" /\ i < j /\ j <= i + ms[i].n
      BY <1>1, <1>3 DEF Whole, ResultsMeant
    <2> QED BY <1>3, <2>1
  <1>9. Turns(ns) = Turns(ms)
    BY <1>1, <1>3, <1>5 DEF Turns
  <1> QED BY <1>5, <1>6, <1>7, <1>8, <1>9 DEF Whole, ns, l

-----------------------------------------------------------------------------
(* What is sent *)

\* A set of numbers has a least one.
LEMMA LeastNumber ==
  ASSUME NEW S \in SUBSET Nat, S # {}
  PROVE  \E n \in S : \A m \in S : n <= m
PROOF
  <1> DEFINE less == OpToRel(<, Nat)
  <1>1. PICK n \in S : \A m \in S : ~(<<m, n>> \in less)
    BY NatLessThanWellFounded, WFMin
  <1>2. less = {p \in Nat \X Nat : p[1] < p[2]}
    BY Zenon DEF OpToRel
  <1> HIDE DEF less
  <1>3. ASSUME NEW m \in S PROVE n <= m
    <2>1. <<m, n>> \in Nat \X Nat /\ <<m, n>>[1] = m /\ <<m, n>>[2] = n
      OBVIOUS
    <2> QED BY <1>1, <1>2, <2>1
  <1> QED BY <1>3

\* The size of a conversation counts its messages' units: less of it is not larger.
LEMMA UnitsFinite ==
  ASSUME NEW ms \in Messages
  PROVE  IsFiniteSet(Units(ms))
PROOF
  <1> DEFINE Cost(i) == IF ms[i].role = "tool" THEN ms[i].n ELSE 1
             f == [i \in DOMAIN ms |-> {i} \X (1..Cost(i))]
             T == {f[i] : i \in DOMAIN ms}
  <1>1. Len(ms) \in Nat /\ DOMAIN ms = 1..Len(ms) /\ \A i \in DOMAIN ms : ms[i].n \in Nat
    BY Of
  <1>2. IsFiniteSet(DOMAIN ms)
    <2>1. 1 \in Int /\ Len(ms) \in Int
      BY <1>1
    <2>2. IsFiniteSet(1..Len(ms))
      BY <2>1, FS_Interval
    <2> QED BY <1>1, <2>2
  <1>3. IsFiniteSet(T)
    <2> HIDE DEF f
    <2>1. f \in Surjection(DOMAIN ms, T)
      <3>1. f = [i \in DOMAIN ms |-> f[i]]
        BY DEF f
      <3>2. f \in [DOMAIN ms -> T]
        BY <3>1
      <3> QED BY <3>2 DEF Surjection
    <2> HIDE DEF T
    <2> QED BY <1>2, <2>1, FS_Surjection
  <1>4. ASSUME NEW i \in DOMAIN ms PROVE IsFiniteSet(f[i])
    <2>1. Cost(i) \in Int /\ 1 \in Int
      BY <1>1
    <2> HIDE DEF Cost
    <2>2. IsFiniteSet(1..Cost(i)) /\ IsFiniteSet({i})
      BY <2>1, FS_Interval, FS_Singleton
    <2>3. IsFiniteSet({i} \X (1..Cost(i)))
      BY <2>2, FS_Product
    <2> QED BY <2>3
  <1>5. \A U \in T : IsFiniteSet(U)
    <2> HIDE DEF f
    <2> QED BY <1>4
  <1>6. Units(ms) = UNION T
    <2>1. T = {{i} \X (1..Cost(i)) : i \in DOMAIN ms}
      OBVIOUS
    <2> QED BY <2>1 DEF Units
  <1> HIDE DEF T
  <1>7. IsFiniteSet(UNION T)
    BY <1>3, <1>5, FS_UNION
  <1> QED BY <1>6, <1>7

\* The sizes of two parts add up.
LEMMA SizeIs ==
  ASSUME NEW ms \in Messages
  PROVE  Size(ms) \in Nat
PROOF
  BY UnitsFinite, FS_CardinalityType DEF Size

LEMMA Joined ==
  ASSUME NEW a \in Messages, NEW b \in Messages
  PROVE  /\ a \o b \in Messages /\ Len(a \o b) = Len(a) + Len(b)
         /\ \A i \in 1..Len(a) : (a \o b)[i] = a[i]
         /\ \A i \in 1..Len(b) : (a \o b)[Len(a) + i] = b[i]
         /\ DOMAIN (a \o b) = 1..(Len(a) + Len(b))
PROOF
  <1>1. a \in Seq(Message) /\ b \in Seq(Message) /\ Len(a) \in Nat /\ Len(b) \in Nat
    BY DEF Messages
  <1>2. a \o b \in Seq(Message) /\ Len(a \o b) = Len(a) + Len(b)
    BY <1>1
  <1>3. \A i \in 1..Len(a) : (a \o b)[i] = a[i]
    BY <1>1
  <1>4. \A i \in 1..Len(b) : (a \o b)[Len(a) + i] = b[i]
    BY <1>1
  <1>5. DOMAIN (a \o b) = 1..(Len(a) + Len(b))
    BY <1>1, <1>2
  <1> QED BY <1>2, <1>3, <1>4, <1>5 DEF Messages

LEMMA SizesAdd ==
  ASSUME NEW a \in Messages, NEW b \in Messages
  PROVE  Size(a \o b) = Size(a) + Size(b)
PROOF
  <1> DEFINE c == a \o b
             la == Len(a)
             lb == Len(b)
             CostOf(m) == IF m.role = "tool" THEN m.n ELSE 1
             moved == {<<la + u[1], u[2]>> : u \in Units(b)}
             f == [u \in Units(b) |-> <<la + u[1], u[2]>>]
  <1>1. /\ la \in Nat /\ lb \in Nat /\ DOMAIN a = 1..la /\ DOMAIN b = 1..lb /\ DOMAIN c = 1..(la + lb)
        /\ (\A i \in 1..la : c[i] = a[i]) /\ (\A i \in 1..lb : c[la + i] = b[i]) /\ c \in Messages
    BY Of, Joined
  <1> HIDE DEF c, la, lb
  <1>2. \A ms : Units(ms) = UNION {{i} \X (1..CostOf(ms[i])) : i \in DOMAIN ms}
    BY DEF Units
  <1> HIDE DEF CostOf
  <1>3. \A ms, u : u \in Units(ms) <=> \E i \in DOMAIN ms : \E k \in 1..CostOf(ms[i]) : u = <<i, k>>
    BY <1>2
  <1>4. \A ms : Units(ms) = Units(ms) /\ \A i \in DOMAIN ms : \A k \in 1..CostOf(ms[i]) : <<i, k>> \in Units(ms)
    BY <1>3
  <1>5. \A u \in Units(b) : u[1] \in 1..lb /\ u[2] \in 1..CostOf(b[u[1]]) /\ u = <<u[1], u[2]>>
    <2> TAKE u \in Units(b)
    <2>1. PICK i \in DOMAIN b : \E k \in 1..CostOf(b[i]) : u = <<i, k>>
      BY <1>3
    <2> QED BY <1>1, <2>1
  <1>6. f \in Bijection(Units(b), moved)
    <2>1. f \in [Units(b) -> moved]
      OBVIOUS
    <2>2. ASSUME NEW u \in Units(b), NEW v \in Units(b), f[u] = f[v] PROVE u = v
      <3>1. f[u] = <<la + u[1], u[2]>> /\ f[v] = <<la + v[1], v[2]>>
        OBVIOUS
      <3>2. la + u[1] = la + v[1] /\ u[2] = v[2]
        BY <2>2, <3>1
      <3>3. u[1] \in Nat /\ v[1] \in Nat
        BY <1>1, <1>5
      <3>4. u[1] = v[1]
        BY <1>1, <3>2, <3>3
      <3> QED BY <1>5, <3>2, <3>4
    <2>3. \A m \in moved : \E u \in Units(b) : f[u] = m
      OBVIOUS
    <2> HIDE DEF f, moved
    <2>4. f \in Injection(Units(b), moved)
      BY <2>1, <2>2 DEF Injection, IsInjective
    <2> QED BY <2>1, <2>3, <2>4 DEF Bijection, Surjection
  <1>7. IsFiniteSet(moved) /\ Cardinality(moved) = Cardinality(Units(b))
    <2> HIDE DEF f, moved
    <2>1. ExistsBijection(Units(b), moved)
      BY <1>6 DEF ExistsBijection
    <2> QED BY <2>1, UnitsFinite, FS_Bijection
  <1>8. \A u \in moved : \E i \in 1..lb : \E k \in 1..CostOf(b[i]) : u = <<la + i, k>>
    <2> TAKE u \in moved
    <2>1. PICK v \in Units(b) : u = <<la + v[1], v[2]>>
      OBVIOUS
    <2> QED BY <1>5, <2>1
  <1>9. \A i \in 1..lb : \A k \in 1..CostOf(b[i]) : <<la + i, k>> \in moved
    <2> TAKE i \in 1..lb
    <2> TAKE k \in 1..CostOf(b[i])
    <2>1. <<i, k>> \in Units(b) /\ <<i, k>>[1] = i /\ <<i, k>>[2] = k
      BY <1>1, <1>4
    <2> QED BY <2>1
  <1> HIDE DEF moved, f
  <1>10. Units(c) = Units(a) \cup moved
    <2>1. ASSUME NEW u \in Units(c) PROVE u \in Units(a) \cup moved
      <3>1. PICK i \in 1..(la + lb) : \E k \in 1..CostOf(c[i]) : u = <<i, k>>
        BY <1>1, <1>3, <2>1
      <3>2. CASE i <= la
        <4>1. i \in 1..la
          BY <1>1, <3>1, <3>2
        <4> QED BY <1>1, <1>4, <3>1, <4>1
      <3>3. CASE ~(i <= la)
        <4>1. PICK j : j = i - la
          OBVIOUS
        <4>2. j \in 1..lb /\ i = la + j
          BY <1>1, <3>1, <3>3, <4>1
        <4>3. c[i] = b[j]
          BY <1>1, <4>2
        <4> QED BY <1>9, <3>1, <4>2, <4>3
      <3> QED BY <3>2, <3>3
    <2>2. ASSUME NEW u \in Units(a) PROVE u \in Units(c)
      <3>1. PICK i \in 1..la : \E k \in 1..CostOf(a[i]) : u = <<i, k>>
        BY <1>1, <1>3
      <3>2. i \in DOMAIN c /\ c[i] = a[i]
        BY <1>1, <3>1
      <3> QED BY <1>4, <3>1, <3>2
    <2>3. ASSUME NEW u \in moved PROVE u \in Units(c)
      <3>1. PICK i \in 1..lb : \E k \in 1..CostOf(b[i]) : u = <<la + i, k>>
        BY <1>8
      <3>2. la + i \in DOMAIN c /\ c[la + i] = b[i]
        BY <1>1, <3>1
      <3> QED BY <1>4, <3>1, <3>2
    <2> QED BY <2>1, <2>2, <2>3
  <1>11. Units(a) \cap moved = {}
    <2> SUFFICES ASSUME NEW u \in Units(a), u \in moved PROVE FALSE
      OBVIOUS
    <2>1. PICK i \in 1..la : \E k \in 1..CostOf(a[i]) : u = <<i, k>>
      BY <1>1, <1>3
    <2>2. PICK j \in 1..lb : \E m \in 1..CostOf(b[j]) : u = <<la + j, m>>
      BY <1>8
    <2>3. i = la + j
      BY <2>1, <2>2
    <2> QED BY <1>1, <2>1, <2>3
  <1>12. /\ Cardinality(Units(a) \cup moved) = Cardinality(Units(a)) + Cardinality(moved) - Cardinality(Units(a) \cap moved)
         /\ Cardinality(Units(a) \cap moved) = 0
    BY <1>7, <1>11, UnitsFinite, FS_Union, FS_EmptySet
  <1>13. Cardinality(Units(a)) \in Nat /\ Cardinality(Units(b)) \in Nat
    BY UnitsFinite, FS_CardinalityType
  <1> QED BY <1>7, <1>10, <1>12, <1>13 DEF Size, c

\* Two parts of a conversation, shortened, are the whole, shortened.
LEMMA JoinFrom ==
  ASSUME NEW ms \in Messages, NEW i \in DOMAIN ms, NEW e \in (i + 1)..(Len(ms) + 1)
  PROVE  /\ Shortened(SubSeq(ms, i, e - 1)) \in Messages /\ Shortened(SubSeq(ms, i, e - 1)) # <<>>
         /\ Shortened(From(ms, e)) \in Messages /\ Shortened(From(ms, i)) \in Messages
         /\ (e <= Len(ms) => Shortened(From(ms, e)) # <<>>)
         /\ Shortened(SubSeq(ms, i, e - 1)) \o Shortened(From(ms, e)) = Shortened(From(ms, i))
PROOF
  <1> DEFINE n == Len(ms)
             Short(m) == IF m.role = "tool" /\ m.n > OldTool THEN Tool(OldTool) ELSE m
             w == [k \in 1..n |-> Short(ms[k])]
  <1>1. n \in Nat /\ DOMAIN ms = 1..n /\ i \in 1..n /\ \A k \in DOMAIN ms : ms[k] \in Message
    BY Of
  <1>2. \A m \in Message : Short(m) \in Message
    BY ConversationAssumption, Kinds
  <1> HIDE DEF n, Short
  <1>3. w \in Seq(Message) /\ Len(w) = n /\ \A k \in 1..n : w[k] = Short(ms[k])
    <2>1. w \in [1..n -> Message]
      BY <1>1, <1>2
    <2>2. w \in Seq(Message)
      BY <1>1, <2>1
    <2>3. Len(w) = n
      BY <1>1, <2>1, LenProperties
    <2> QED BY <2>2, <2>3
  <1> HIDE DEF w
  <1>4. ASSUME NEW b \in 1..(n + 1), NEW c \in 0..n, b <= c + 1
        PROVE  /\ Shortened(SubSeq(ms, b, c)) = SubSeq(w, b, c)
               /\ SubSeq(w, b, c) \in Messages /\ Len(SubSeq(w, b, c)) = c - b + 1
               /\ \A k \in 1..(c - b + 1) : SubSeq(w, b, c)[k] = w[b + k - 1]
    <2> DEFINE s == SubSeq(ms, b, c)
               v == SubSeq(w, b, c)
    <2>1. s \in Seq(Message) /\ Len(s) = c - b + 1 /\ \A k \in 1..(c - b + 1) : s[k] = ms[b + k - 1]
      BY <1>1, <1>4 DEF n, Messages
    <2>2. v \in Seq(Message) /\ Len(v) = c - b + 1 /\ \A k \in 1..(c - b + 1) : v[k] = w[b + k - 1]
      BY <1>1, <1>3, <1>4
    <2>3. Shortened(s) = [k \in DOMAIN s |-> Short(s[k])]
      BY Zenon DEF Shortened, Short
    <2> HIDE DEF s, v
    <2>4. c - b + 1 \in Nat /\ \A k \in 1..(c - b + 1) : b + k - 1 \in 1..n
      BY <1>1, <1>4
    <2>5. DOMAIN s = 1..(c - b + 1) /\ DOMAIN v = 1..(c - b + 1) /\ v = [k \in 1..(c - b + 1) |-> v[k]]
      BY <2>1, <2>2, <2>4
    <2>6. \A k \in 1..(c - b + 1) : Short(s[k]) = v[k]
      BY <1>3, <2>1, <2>2, <2>4
    <2>7. Shortened(s) = v
      BY <2>3, <2>5, <2>6
    <2> QED BY <2>2, <2>7 DEF s, v, Messages
  <1>5. e \in 1..(n + 1) /\ i \in 1..(n + 1) /\ e - 1 \in 0..n /\ n \in 0..n /\ i <= (e - 1) + 1 /\ e <= n + 1 /\ i <= n + 1
        /\ e - i >= 1
    BY <1>1 DEF n
  <1> DEFINE a == SubSeq(w, i, e - 1)
             b == SubSeq(w, e, n)
             c == SubSeq(w, i, n)
  <1>6. /\ Shortened(SubSeq(ms, i, e - 1)) = a /\ a \in Messages /\ Len(a) = e - i
        /\ \A k \in 1..(e - i) : a[k] = w[i + k - 1]
    <2>1. (e - 1) - i + 1 = e - i
      BY <1>1, <1>5
    <2> QED BY <1>4, <1>5, <2>1
  <1>7. /\ Shortened(From(ms, e)) = b /\ b \in Messages /\ Len(b) = n - e + 1
        /\ \A k \in 1..(n - e + 1) : b[k] = w[e + k - 1]
    BY <1>4, <1>5 DEF From, n
  <1>8. /\ Shortened(From(ms, i)) = c /\ c \in Messages /\ Len(c) = n - i + 1
        /\ \A k \in 1..(n - i + 1) : c[k] = w[i + k - 1]
    BY <1>4, <1>5 DEF From, n
  <1> HIDE DEF a, b, c
  <1>9. /\ a \o b \in Messages /\ Len(a \o b) = Len(a) + Len(b)
        /\ (\A k \in 1..Len(a) : (a \o b)[k] = a[k])
        /\ (\A k \in 1..Len(b) : (a \o b)[Len(a) + k] = b[k])
    BY <1>6, <1>7, Joined
  <1>10. Len(a \o b) = Len(c)
    BY <1>1, <1>5, <1>6, <1>7, <1>8, <1>9
  <1>11. ASSUME NEW k \in 1..Len(c) PROVE (a \o b)[k] = c[k]
    <2>1. CASE k <= e - i
      <3>1. k \in 1..(e - i)
        BY <1>1, <1>5, <1>8, <2>1
      <3> QED BY <1>6, <1>8, <1>9, <3>1
    <2>2. CASE ~(k <= e - i)
      <3>1. PICK j : j = k - (e - i)
        OBVIOUS
      <3>2. j \in 1..(n - e + 1) /\ k = (e - i) + j /\ e + j - 1 = i + k - 1 /\ k \in 1..(n - i + 1)
        BY <1>1, <1>5, <1>8, <2>2, <3>1
      <3>3. (a \o b)[k] = b[j]
        BY <1>6, <1>7, <1>9, <3>2
      <3> QED BY <1>7, <1>8, <3>2, <3>3
    <2> QED BY <2>1, <2>2
  <1>12. a \o b = c
    <2>1. a \o b \in Seq(Message) /\ c \in Seq(Message)
      BY <1>8, <1>9 DEF Messages
    <2> QED BY <1>10, <1>11, <2>1, SeqEqual
  <1>13. a # <<>> /\ (e <= n => b # <<>>)
    <2>1. a \in Seq(Message) /\ b \in Seq(Message)
      BY <1>6, <1>7 DEF Messages
    <2>2. Len(a) # 0 /\ (e <= n => Len(b) # 0)
      BY <1>1, <1>5, <1>6, <1>7
    <2> QED BY <2>1, <2>2
  <1> QED BY <1>6, <1>7, <1>8, <1>12, <1>13 DEF n

\* More turns are not smaller.
LEMMA MoreIsLarger ==
  ASSUME NEW ms \in Messages, NEW j \in DOMAIN ms, NEW i \in DOMAIN ms, j <= i
  PROVE  Size(Shortened(From(ms, i))) <= Size(Shortened(From(ms, j)))
PROOF
  <1>1. Len(ms) \in Nat /\ DOMAIN ms = 1..Len(ms)
    BY Of
  <1>2. CASE j = i
    <2>1. Shortened(From(ms, i)) \in Messages
      <3>1. Len(ms) + 1 \in (i + 1)..(Len(ms) + 1)
        BY <1>1
      <3> QED BY <3>1, JoinFrom
    <2>2. Size(Shortened(From(ms, i))) \in Nat
      BY <2>1, SizeIs
    <2> QED BY <1>2, <2>2
  <1>3. CASE j # i
    <2> DEFINE a == Shortened(SubSeq(ms, j, i - 1))
               b == Shortened(From(ms, i))
    <2>1. i \in (j + 1)..(Len(ms) + 1)
      BY <1>1, <1>3
    <2>2. a \in Messages /\ b \in Messages /\ a \o b = Shortened(From(ms, j))
      BY <2>1, JoinFrom
    <2> HIDE DEF a, b
    <2>3. Size(a \o b) = Size(a) + Size(b) /\ Size(a) \in Nat /\ Size(b) \in Nat
      BY <2>2, SizesAdd, SizeIs
    <2> QED BY <2>2, <2>3 DEF b
  <1> QED BY <1>2, <1>3

-----------------------------------------------------------------------------
(* trim_history, round by round *)

LoopStart(ms) == [kept |-> <<>>, used |-> 0, end |-> Len(ms) + 1, more |-> TRUE]

\* A function on n..(Len(ms) + 1) that is what the loop says.
IsLoop(ms, g, n) ==
  /\ g = [i \in n..(Len(ms) + 1) |-> g[i]]
  /\ \A i \in n..(Len(ms) + 1) : g[i] = IF i > Len(ms) THEN LoopStart(ms) ELSE Round(ms, i, g[i + 1])

LEMMA LoopExists ==
  ASSUME NEW ms \in Messages
  PROVE  \E g : IsLoop(ms, g, 1)
PROOF
  <1> DEFINE N == Len(ms)
             S == {n \in 1..(N + 1) : \E g : IsLoop(ms, g, n)}
  <1>1. N \in Nat
    BY Of
  <1>2. N + 1 \in S
    <2> DEFINE g == [i \in (N + 1)..(N + 1) |-> LoopStart(ms)]
    <2>1. g = [i \in (N + 1)..(N + 1) |-> g[i]]
      OBVIOUS
    <2>2. \A i \in (N + 1)..(N + 1) : g[i] = LoopStart(ms) /\ i > N
      BY <1>1
    <2> HIDE DEF g
    <2>3. IsLoop(ms, g, N + 1)
      BY <2>1, <2>2 DEF IsLoop
    <2> QED BY <1>1, <2>3
  <1>3. PICK n \in S : \A m \in S : n <= m
    <2>1. S \in SUBSET Nat /\ S # {}
      BY <1>1, <1>2
    <2> HIDE DEF S
    <2> QED BY <2>1, LeastNumber
  <1>4. n \in 1..(N + 1) /\ \E g : IsLoop(ms, g, n)
    OBVIOUS
  <1>5. CASE n = 1
    BY <1>4, <1>5
  <1>6. CASE n # 1
    <2> DEFINE p == n - 1
    <2>1. PICK g : IsLoop(ms, g, n)
      BY <1>4
    <2>2. p \in 1..N /\ n = p + 1 /\ ~(p > N) /\ p < n /\ p \in 1..(N + 1)
      BY <1>1, <1>4, <1>6
    <2> HIDE DEF N, S, p
    <2> DEFINE h == [i \in p..(N + 1) |-> IF i = p THEN Round(ms, p, g[n]) ELSE g[i]]
    <2>3. h = [i \in p..(N + 1) |-> h[i]]
      OBVIOUS
    <2>4. h[p] = Round(ms, p, g[n])
      BY <2>2
    <2>5. \A i \in n..(N + 1) : h[i] = g[i]
      BY <1>1, <2>2
    <2> HIDE DEF h
    <2>6. ASSUME NEW i \in p..(N + 1)
          PROVE  h[i] = IF i > N THEN LoopStart(ms) ELSE Round(ms, i, h[i + 1])
      <3>1. CASE i = p
        <4>1. n \in n..(N + 1)
          BY <1>1, <2>2
        <4>2. h[i + 1] = g[n]
          BY <2>2, <2>5, <3>1, <4>1
        <4> QED BY <2>2, <2>4, <3>1, <4>2
      <3>2. CASE i # p
        <4>1. i \in n..(N + 1)
          BY <1>1, <2>2, <3>2
        <4>2. h[i] = g[i] /\ g[i] = IF i > N THEN LoopStart(ms) ELSE Round(ms, i, g[i + 1])
          BY <2>1, <2>5, <4>1 DEF IsLoop, N
        <4>3. ~(i > N) => i + 1 \in n..(N + 1)
          BY <1>1, <2>2, <4>1
        <4>4. ~(i > N) => h[i + 1] = g[i + 1]
          BY <2>5, <4>3
        <4> QED BY <4>2, <4>4
      <3> QED BY <3>1, <3>2
    <2>7. IsLoop(ms, h, p)
      BY <2>3, <2>6 DEF IsLoop, N
    <2>8. p \in S
      BY <2>2, <2>7 DEF S
    <2> QED BY <1>1, <1>3, <2>2, <2>8
  <1> QED BY <1>5, <1>6

LEMMA TrimIsLoop ==
  ASSUME NEW ms \in Messages
  PROVE  \E g : IsLoop(ms, g, 1) /\ TrimHistory(ms) = g[1].kept
PROOF
  <1> DEFINE N == Len(ms)
             Meant(g) == [i \in 1..(N + 1) |->
                            IF i > N THEN [kept |-> <<>>, used |-> 0, end |-> N + 1, more |-> TRUE] ELSE Round(ms, i, g[i + 1])]
             loop == CHOOSE g : g = Meant(g)
  <1>1. TrimHistory(ms) = loop[1].kept
    BY DEF TrimHistory
  <1>2. PICK g : IsLoop(ms, g, 1)
    BY LoopExists
  <1>3. g = Meant(g)
    <2>1. \A i \in 1..(N + 1) : g[i] = Meant(g)[i]
      BY <1>2 DEF IsLoop, LoopStart
    <2>2. g = [i \in 1..(N + 1) |-> g[i]]
      BY <1>2 DEF IsLoop
    <2>3. Meant(g) = [i \in 1..(N + 1) |-> Meant(g)[i]]
      OBVIOUS
    <2> HIDE DEF Meant
    <2> QED BY <2>1, <2>2, <2>3
  <1>4. loop = Meant(loop)
    <2> HIDE DEF Meant
    <2> QED BY <1>3
  <1> HIDE DEF loop
  <1>5. IsLoop(ms, loop, 1)
    <2>1. \A i \in 1..(N + 1) : Meant(loop)[i] = IF i > N THEN LoopStart(ms) ELSE Round(ms, i, loop[i + 1])
      BY DEF LoopStart
    <2>2. Meant(loop) = [i \in 1..(N + 1) |-> Meant(loop)[i]]
      OBVIOUS
    <2> HIDE DEF Meant
    <2>3. \A i \in 1..(N + 1) : loop[i] = IF i > N THEN LoopStart(ms) ELSE Round(ms, i, loop[i + 1])
      BY <1>4, <2>1
    <2>4. loop = [i \in 1..(N + 1) |-> loop[i]]
      BY <1>4, <2>2
    <2> QED BY <2>3, <2>4 DEF IsLoop
  <1> QED BY <1>1, <1>5

\* What the loop has after the turns from i on: the turns from `end` on, which fit or are
\* one; it goes on when these are all, and breaks off when any more would not fit.
RoundOK(ms, i, l) ==
  /\ l.end \in i..(Len(ms) + 1) /\ (l.end <= Len(ms) => l.end \in Turns(ms))
  /\ l.kept = Shortened(From(ms, l.end)) /\ l.kept \in Messages /\ l.used = Size(l.kept)
  /\ l.more \in BOOLEAN
  /\ l.more => \A j \in Turns(ms) : j >= i => j >= l.end
  /\ ~l.more => /\ l.end <= Len(ms)
                /\ \A j \in Turns(ms) : j < l.end => Size(Shortened(From(ms, j))) > Budget
  /\ l.end <= Len(ms) => Size(l.kept) <= Budget \/ \A j \in Turns(ms) : j <= l.end

LEMMA StartOK ==
  ASSUME NEW ms \in Messages
  PROVE  RoundOK(ms, Len(ms) + 1, LoopStart(ms))
PROOF
  <1> DEFINE N == Len(ms)
             l == LoopStart(ms)
  <1>1. N \in Nat /\ Turns(ms) \subseteq 1..N
    BY Of DEF Turns
  <1>2. l.kept = <<>> /\ l.used = 0 /\ l.end = N + 1 /\ l.more = TRUE
    BY DEF LoopStart
  <1> HIDE DEF l
  <1>3. From(ms, N + 1) = <<>>
    BY <1>1 DEF From, Messages
  <1>4. Shortened(<<>>) = <<>> /\ <<>> \in Messages
    BY DEF Shortened, Messages
  <1>5. Size(<<>>) = 0
    <2>1. Units(<<>>) = {}
      BY DEF Units
    <2> QED BY <2>1, FS_EmptySet DEF Size
  <1>6. l.end \in (N + 1)..(N + 1) /\ ~(l.end <= N)
    BY <1>1, <1>2
  <1>7. \A j \in Turns(ms) : ~(j >= N + 1)
    BY <1>1
  <1> HIDE DEF N
  <1>8. /\ l.end \in (N + 1)..(N + 1)
        /\ l.end <= N => l.end \in Turns(ms)
        /\ l.kept = Shortened(From(ms, l.end))
        /\ l.kept \in Messages
        /\ l.used = Size(l.kept)
        /\ l.more \in BOOLEAN
    BY <1>2, <1>3, <1>4, <1>5, <1>6
  <1> QED BY <1>2, <1>6, <1>7, <1>8 DEF RoundOK, N, l

\* A round keeps that.
LEMMA RoundKeeps ==
  ASSUME NEW ms \in Messages, NEW i \in 1..Len(ms), NEW l, RoundOK(ms, i + 1, l)
  PROVE  RoundOK(ms, i, Round(ms, i, l))
PROOF
  <1> DEFINE N == Len(ms)
             e == l.end
             turn == Shortened(SubSeq(ms, i, e - 1))
             all == Shortened(From(ms, i))
             SizeFrom(j) == Size(Shortened(From(ms, j)))
  <1>1. N \in Nat /\ DOMAIN ms = 1..N /\ Turns(ms) \subseteq 1..N /\ i \in 1..N
    BY Of DEF Turns
  <1>2. /\ e \in (i + 1)..(N + 1) /\ (e <= N => e \in Turns(ms))
        /\ l.kept = Shortened(From(ms, e)) /\ l.kept \in Messages /\ l.used = Size(l.kept)
        /\ l.more \in BOOLEAN
    BY DEF RoundOK
  <1>3. /\ l.more => \A j \in Turns(ms) : j >= i + 1 => j >= e
        /\ ~l.more => e <= N /\ \A j \in Turns(ms) : j < e => SizeFrom(j) > Budget
        /\ e <= N => Size(l.kept) <= Budget \/ \A j \in Turns(ms) : j <= e
    BY DEF RoundOK
  <1>4. CASE i \notin Turns(ms) \/ ~l.more
    <2>1. Round(ms, i, l) = l
      BY <1>4 DEF Round
    <2> HIDE DEF N, SizeFrom
    <2>2. e \in i..(N + 1)
      BY <1>1, <1>2
    <2>3. l.more => \A j \in Turns(ms) : j >= i => j >= e
      <3> SUFFICES ASSUME l.more, NEW j \in Turns(ms), j >= i PROVE j >= e
        OBVIOUS
      <3>1. j # i /\ j \in Nat /\ i \in Nat
        BY <1>1, <1>2, <1>4
      <3>2. j >= i + 1
        BY <3>1
      <3> QED BY <1>3, <3>2
    <2> HIDE DEF e
    <2>4. RoundOK(ms, i, l)
      <3> USE DEF N, SizeFrom, e
      <3> QED BY <1>2, <1>3, <2>2, <2>3 DEF RoundOK
    <2> QED BY <2>1, <2>4
  <1>5. CASE i \in Turns(ms) /\ l.more
    <2>1. /\ turn \in Messages /\ turn # <<>> /\ all \in Messages /\ turn \o l.kept = all
          /\ (e <= N => l.kept # <<>>)
      <3>1. i \in DOMAIN ms /\ e \in (i + 1)..(Len(ms) + 1)
        BY <1>1, <1>2
      <3> QED BY <1>2, <3>1, JoinFrom
    <2>2. Size(all) = Size(turn) + l.used /\ Size(turn) \in Nat /\ l.used \in Nat /\ Budget \in Nat
      <3> HIDE DEF turn, all, e, N
      <3>1. Size(turn \o l.kept) = Size(turn) + Size(l.kept) /\ Size(turn) \in Nat /\ Size(l.kept) \in Nat
        BY <1>2, <2>1, SizesAdd, SizeIs
      <3> QED BY <1>2, <2>1, <3>1, ConversationAssumption
    <2>3. l.kept = <<>> => e = N + 1
      BY <1>1, <1>2, <2>1
    <2>4. e = N + 1 => l.kept = <<>>
      <3>1. From(ms, N + 1) = <<>>
        BY <1>1 DEF From, Messages
      <3>2. Shortened(<<>>) = <<>>
        BY DEF Shortened
      <3> QED BY <1>2, <3>1, <3>2
    <2>5. CASE l.kept # <<>> /\ l.used + Size(turn) > Budget
      <3> DEFINE m == [l EXCEPT !.more = FALSE]
      <3>1. Round(ms, i, l) = m
        BY <1>5, <2>5 DEF Round
      <3>2. SizeFrom(i) > Budget
        BY <2>2, <2>5
      <3>3. ASSUME NEW j \in Turns(ms), j < e PROVE SizeFrom(j) > Budget
        <4>1. j <= i /\ j \in DOMAIN ms /\ i \in DOMAIN ms
          <5>1. ~(j >= i + 1) /\ j \in Nat /\ i \in Nat
            BY <1>1, <1>2, <1>3, <1>5, <3>3
          <5> QED BY <1>1, <5>1
        <4>2. SizeFrom(i) <= SizeFrom(j)
          BY <4>1, MoreIsLarger
        <4>3. SizeFrom(j) \in Nat /\ SizeFrom(i) \in Nat
          <5>1. N + 1 \in (j + 1)..(Len(ms) + 1) /\ N + 1 \in (i + 1)..(Len(ms) + 1)
            BY <1>1, <4>1
          <5>2. Shortened(From(ms, j)) \in Messages /\ Shortened(From(ms, i)) \in Messages
            BY <4>1, <5>1, JoinFrom
          <5> QED BY <5>2, SizeIs
        <4> HIDE DEF SizeFrom
        <4> QED BY <2>2, <3>2, <4>2, <4>3
      <3>4. e <= N /\ e \in i..(N + 1)
        BY <1>1, <1>2, <2>4, <2>5
      <3> DEFINE Good(r) == r.end = e /\ r.kept = l.kept /\ r.used = l.used /\ r.more = FALSE
      <3> HIDE DEF SizeFrom, N, e, turn, all
      <3>5. \A r : Good(r) => RoundOK(ms, i, r)
        <4> USE DEF SizeFrom, N, e
        <4> QED BY <1>2, <1>3, <3>3, <3>4 DEF RoundOK
      <3>6. Good(m)
        <4>1. Round(ms, i, l) = [l EXCEPT !.more = FALSE]
          BY <3>1
        <4> QED BY DEF e
      <3> QED BY <3>1, <3>5, <3>6
    <2>6. CASE ~(l.kept # <<>> /\ l.used + Size(turn) > Budget)
      <3> DEFINE m == [kept |-> turn \o l.kept, used |-> l.used + Size(turn), end |-> i, more |-> TRUE]
      <3>1. Round(ms, i, l) = m
        BY <1>5, <2>6 DEF Round
      <3>2. m.kept = all /\ m.used = Size(all) /\ m.end = i /\ m.more = TRUE
        <4>1. m.kept = turn \o l.kept /\ m.used = l.used + Size(turn) /\ m.end = i /\ m.more = TRUE
          OBVIOUS
        <4>2. l.used + Size(turn) = Size(all)
          BY <2>2
        <4> HIDE DEF m, turn, all
        <4> QED BY <2>1, <4>1, <4>2
      <3>3. i \in i..(N + 1) /\ i <= N
        BY <1>1
      <3>4. Size(all) <= Budget \/ \A j \in Turns(ms) : j <= i
        <4>1. CASE l.kept = <<>>
          <5>1. \A j \in Turns(ms) : ~(j >= i + 1)
            BY <1>1, <1>3, <1>5, <2>3, <4>1
          <5> QED BY <1>1, <5>1
        <4>2. CASE l.kept # <<>>
          BY <2>2, <2>6, <4>2
        <4> QED BY <4>1, <4>2
      <3> HIDE DEF m
      <3>5. RoundOK(ms, i, m)
        BY <1>5, <2>1, <3>2, <3>3, <3>4 DEF RoundOK
      <3> QED BY <3>1, <3>5
    <2> QED BY <2>5, <2>6
  <1> QED BY <1>2, <1>4, <1>5

\* trim_history keeps whole turns: the newest that fit, one in any case, and no fewer.
LEMMA Trimmed ==
  ASSUME NEW ms \in Messages, Whole(ms, 0)
  PROVE  LET h == TrimHistory(ms) IN h \in Messages /\ Whole(h, 0) /\ NewestThatFit(ms, h)
PROOF
  <1> DEFINE N == Len(ms)
  <1>1. N \in Nat /\ DOMAIN ms = 1..N /\ Turns(ms) \subseteq 1..N
    BY Of DEF Turns
  <1>2. PICK g : IsLoop(ms, g, 1) /\ TrimHistory(ms) = g[1].kept
    BY TrimIsLoop
  <1> DEFINE S == {n \in 1..(N + 1) : RoundOK(ms, n, g[n])}
  <1>3. N + 1 \in S
    <2>1. N + 1 \in 1..(N + 1) /\ N + 1 > N
      BY <1>1
    <2>2. g[N + 1] = LoopStart(ms)
      BY <1>2, <2>1 DEF IsLoop
    <2> QED BY <2>1, <2>2, StartOK
  <1>4. PICK n \in S : \A m \in S : n <= m
    <2>1. S \in SUBSET Nat /\ S # {}
      BY <1>1, <1>3
    <2> HIDE DEF S
    <2> QED BY <2>1, LeastNumber
  <1>5. n = 1
    <2> SUFFICES ASSUME n # 1 PROVE FALSE
      OBVIOUS
    <2> DEFINE p == n - 1
    <2>1. n \in 1..(N + 1) /\ RoundOK(ms, n, g[n])
      OBVIOUS
    <2>2. p \in 1..N /\ n = p + 1 /\ ~(p > N) /\ p \in 1..(N + 1) /\ ~(n <= p)
      BY <1>1, <2>1
    <2> HIDE DEF p
    <2>3. g[p] = Round(ms, p, g[n])
      BY <1>2, <2>2 DEF IsLoop
    <2>4. RoundOK(ms, p, g[p])
      BY <2>1, <2>2, <2>3, RoundKeeps
    <2>5. p \in S
      BY <2>2, <2>4
    <2> HIDE DEF S
    <2> QED BY <1>4, <2>2, <2>5
  <1> DEFINE l == g[1]
             h == l.kept
  <1>6. RoundOK(ms, 1, l)
    BY <1>5
  <1> HIDE DEF S, l
  <1>7. CASE Turns(ms) = {}
    <2>1. l.end = N + 1
      BY <1>1, <1>6, <1>7 DEF RoundOK
    <2>2. From(ms, N + 1) = <<>> /\ Shortened(<<>>) = <<>>
      BY <1>1 DEF From, Messages, Shortened
    <2>3. h = <<>>
      BY <1>6, <2>1, <2>2 DEF RoundOK
    <2>4. h \in Messages /\ Whole(h, 0)
      BY <2>3 DEF Messages, Whole, CallsMet, ResultsMeant
    <2> QED BY <1>2, <1>7, <2>3, <2>4 DEF NewestThatFit, l
  <1>8. CASE Turns(ms) # {}
    <2> DEFINE b == l.end
               w == From(ms, b)
    <2>1. b <= N /\ b \in Turns(ms) /\ b \in 1..N
      <3>1. b \in 1..(N + 1) /\ (b <= N => b \in Turns(ms)) /\ l.more \in BOOLEAN
        BY <1>6 DEF RoundOK
      <3>2. b <= N
        <4> SUFFICES ASSUME b = N + 1 PROVE FALSE
          BY <1>1, <3>1
        <4>1. l.more
          BY <1>1, <1>6, <3>1 DEF RoundOK
        <4>2. \A j \in Turns(ms) : j >= 1 => j >= N + 1
          BY <1>6, <4>1 DEF RoundOK
        <4> QED BY <1>1, <1>8, <4>2
      <3> QED BY <1>1, <3>1, <3>2
    <2>2. b \in DOMAIN ms /\ ms[b].role = "user"
      BY <2>1 DEF Turns
    <2>3. w \in Messages /\ Whole(w, 0)
      BY <2>2, WholeFrom
    <2>4. h = Shortened(w) /\ h \in Messages
      BY <1>6 DEF RoundOK
    <2>5. Whole(h, 0)
      <3> HIDE DEF w, h
      <3> QED BY <2>3, <2>4, WholeShort
    <2>6. Size(h) <= Budget \/ \A j \in Turns(ms) : j <= b
      BY <1>6, <2>1 DEF RoundOK
    <2>7. ASSUME NEW j \in Turns(ms), j < b PROVE Size(Shortened(From(ms, j))) > Budget
      <3>1. CASE l.more
        <4>1. j >= 1 /\ j >= b
          BY <1>1, <1>6, <3>1 DEF RoundOK
        <4> QED BY <1>1, <2>1, <2>7, <4>1
      <3>2. CASE ~l.more
        BY <1>6, <2>7, <3>2 DEF RoundOK
      <3> QED BY <3>1, <3>2
    <2>8. NewestThatFit(ms, h)
      BY <1>8, <2>1, <2>4, <2>6, <2>7 DEF NewestThatFit
    <2> QED BY <1>2, <2>4, <2>5, <2>8 DEF l
  <1> QED BY <1>7, <1>8

\* The chat without tools holds questions and answers.
LEMMA AlternateWhole ==
  ASSUME NEW ms \in Messages, Alternates(ms)
  PROVE  Whole(ms, 0)
PROOF
  <1>1. Len(ms) \in Nat /\ DOMAIN ms = 1..Len(ms) /\ (\A i \in DOMAIN ms : i \in Nat) /\ (ms # <<>> => Len(ms) # 0)
    BY Of DEF Messages
  <1>2. 0 \in Nat
    OBVIOUS
  <1>3. User.role = "user" /\ Assistant(0).role = "assistant" /\ Assistant(0).n = 0
    BY <1>2, Kinds
  <1>4. \A i \in DOMAIN ms : ms[i].role # "tool" /\ (ms[i].role = "assistant" => ms[i].n = 0)
    BY <1>3 DEF Alternates
  <1>5. CallsMet(ms, 0)
    <2> SUFFICES ASSUME NEW i \in DOMAIN ms, ms[i].role = "assistant"
                 PROVE  /\ i + ms[i].n <= Len(ms) + 0
                        /\ \A j \in DOMAIN ms : i < j /\ j <= i + ms[i].n => ms[j].role = "tool"
      BY DEF CallsMet
    <2>1. ms[i].n = 0
      BY <1>4
    <2> QED BY <1>1, <2>1
  <1>6. ResultsMeant(ms)
    BY <1>4 DEF ResultsMeant
  <1>7. ms # <<>> => ms[1].role = "user"
    <2>1. ASSUME ms # <<>> PROVE 1 \in DOMAIN ms
      BY <1>1, <2>1
    <2>2. 1 % 2 = 1
      OBVIOUS
    <2> QED BY <1>3, <2>1, <2>2 DEF Alternates
  <1> QED BY <1>5, <1>6, <1>7 DEF Whole

LEMMA AlternateNext ==
  ASSUME NEW ms \in Messages, Alternates(ms)
  PROVE  /\ Len(ms) % 2 = 0 => /\ Append(ms, User) \in Messages /\ Alternates(Append(ms, User))
                               /\ Len(Append(ms, User)) % 2 = 1
         /\ Len(ms) % 2 = 1 => /\ Append(ms, Assistant(0)) \in Messages /\ Alternates(Append(ms, Assistant(0)))
                               /\ Len(Append(ms, Assistant(0))) % 2 = 0
PROOF
  <1>1. ASSUME NEW m \in Message, m = IF (Len(ms) + 1) % 2 = 1 THEN User ELSE Assistant(0)
        PROVE  Append(ms, m) \in Messages /\ Alternates(Append(ms, m)) /\ Len(Append(ms, m)) = Len(ms) + 1
    <2> DEFINE ns == Append(ms, m)
    <2>1. /\ ns \in Messages /\ Len(ns) = Len(ms) + 1 /\ (\A i \in 1..Len(ms) : ns[i] = ms[i]) /\ ns[Len(ms) + 1] = m
          /\ DOMAIN ns = 1..(Len(ms) + 1)
      BY Appended
    <2> HIDE DEF ns
    <2>2. Len(ms) \in Nat /\ DOMAIN ms = 1..Len(ms)
      BY Of
    <2>3. ASSUME NEW i \in DOMAIN ns PROVE ns[i] = IF i % 2 = 1 THEN User ELSE Assistant(0)
      <3>1. CASE i = Len(ms) + 1
        BY <1>1, <2>1, <3>1
      <3>2. CASE i # Len(ms) + 1
        <4>1. i \in 1..Len(ms)
          BY <2>1, <2>2, <3>2
        <4> QED BY <2>1, <2>2, <4>1 DEF Alternates
      <3> QED BY <3>1, <3>2
    <2> QED BY <2>1, <2>3 DEF Alternates, ns
  <1>2. User \in Message /\ Assistant(0) \in Message /\ Len(ms) \in Nat
    <2>1. 0 \in Nat
      OBVIOUS
    <2> QED BY <2>1, Kinds, Of
  <1>3. CASE Len(ms) % 2 = 0
    <2>1. (Len(ms) + 1) % 2 = 1
      BY <1>2, <1>3
    <2> QED BY <1>1, <1>2, <1>3, <2>1
  <1>4. CASE Len(ms) % 2 = 1
    <2>1. (Len(ms) + 1) % 2 = 0
      BY <1>2, <1>4
    <2> QED BY <1>1, <1>2, <1>4, <2>1
  <1> QED BY <1>3, <1>4

\* The user's line taken back.
LEMMA AlternateFront ==
  ASSUME NEW ms \in Messages, Alternates(ms), Len(ms) % 2 = 1
  PROVE  Front(ms) \in Messages /\ Alternates(Front(ms)) /\ Len(Front(ms)) % 2 = 0
PROOF
  <1>1. Len(ms) \in Nat /\ DOMAIN ms = 1..Len(ms) /\ ms \in Seq(Message)
    BY Of DEF Messages
  <1>2. Len(ms) # 0
    <2>1. 0 % 2 = 0
      OBVIOUS
    <2> QED BY <2>1
  <1>3. Len(ms) - 1 \in Nat /\ (Len(ms) - 1) % 2 = 0
    BY <1>1, <1>2
  <1> DEFINE k == Len(ms) - 1
             ns == SubSeq(ms, 1, k)
  <1>4. k \in 0..Len(ms)
    BY <1>1, <1>3
  <1> HIDE DEF k
  <1>5. ns \in Seq(Message) /\ Len(ns) = k /\ (\A i \in 1..k : ns[i] = ms[i]) /\ DOMAIN ns = 1..k
    BY <1>1, <1>4
  <1> HIDE DEF ns
  <1>6. \A i \in DOMAIN ns : i \in DOMAIN ms /\ ns[i] = ms[i]
    BY <1>1, <1>4, <1>5
  <1>7. Alternates(ns)
    BY <1>6 DEF Alternates
  <1> QED BY <1>3, <1>5, <1>7 DEF Front, ns, k, Messages

\* The oldest exchanges are dropped, a question with its answer, until the rest fits.
LEMMA Dropped ==
  ASSUME NEW ms \in Messages, Alternates(ms), Len(ms) % 2 = 1
  PROVE  LET h == DropOldest(ms)
         IN h \in Messages /\ Alternates(h) /\ Len(h) % 2 = 1
PROOF
  <1> DEFINE n == Len(ms)
             last == (n - 1) \div 2
             Fitting(k) == 2 * k + 1 = n \/ Size(From(ms, 2 * k + 1)) <= Budget
             fitting == {k \in 0..last : Fitting(k)}
             b == CHOOSE k \in fitting : \A l \in fitting : k <= l
             h == From(ms, 2 * b + 1)
  <1>1. n \in Nat /\ DOMAIN ms = 1..n /\ n % 2 = 1
    BY Of
  <1>2. last \in Nat /\ 2 * last + 1 = n
    <2> HIDE DEF n
    <2> QED BY <1>1
  <1> HIDE DEF n, last
  <1>3. last \in fitting /\ fitting \in SUBSET Nat
    BY <1>2
  <1>4. b \in fitting
    <2>1. \E k \in fitting : \A l \in fitting : k <= l
      <3> HIDE DEF fitting
      <3>1. fitting # {}
        BY <1>3
      <3> QED BY <1>3, <3>1, LeastNumber
    <2> HIDE DEF fitting
    <2> QED BY <2>1
  <1>5. DropOldest(ms) = h
    BY DEF DropOldest, n, last
  <1>6. b \in 0..last /\ Fitting(b)
    BY <1>4
  <1> HIDE DEF b
  <1>7. b \in Nat /\ 2 * b + 1 \in 1..n /\ 2 * b + 1 \in DOMAIN ms
    BY <1>1, <1>2, <1>6
  <1>8. /\ h \in Messages /\ Len(h) = n - (2 * b + 1) + 1 /\ \A i \in 1..Len(h) : h[i] = ms[(2 * b + 1) + i - 1]
    BY <1>7, FromIs DEF n
  <1> HIDE DEF h
  <1>9. Len(h) = n - 2 * b /\ Len(h) \in Nat /\ DOMAIN h = 1..Len(h)
    <2>1. Len(h) \in Nat /\ DOMAIN h = 1..Len(h)
      BY <1>8, Of
    <2>2. Len(h) = n - (2 * b + 1) + 1 /\ b \in Nat /\ n \in Nat
      BY <1>1, <1>7, <1>8
    <2>3. n - (2 * b + 1) + 1 = n - 2 * b
      BY <2>2
    <2> QED BY <2>1, <2>2, <2>3
  <1>10. Len(h) % 2 = 1
    <2>1. Len(h) = 2 * (last - b) + 1
      BY <1>1, <1>2, <1>7, <1>9
    <2>2. last - b \in Nat
      BY <1>2, <1>6
    <2> QED BY <2>1, <2>2
  <1>11. ASSUME NEW i \in DOMAIN h PROVE h[i] = IF i % 2 = 1 THEN User ELSE Assistant(0)
    <2>1. i \in 1..Len(h) /\ 2 * b + i \in 1..n /\ (2 * b + 1) + i - 1 = 2 * b + i
      BY <1>1, <1>7, <1>9
    <2>2. h[i] = ms[2 * b + i]
      BY <1>8, <2>1
    <2>3. (2 * b + i) % 2 = i % 2
      BY <1>7, <2>1
    <2> QED BY <1>1, <2>1, <2>2, <2>3 DEF Alternates
  <1> QED BY <1>5, <1>8, <1>10, <1>11 DEF Alternates

-----------------------------------------------------------------------------
(* Each action *)

LEMMA Fields ==
  ASSUME NEW pr \in Process
  PROVE  /\ pr.at \in Points /\ pr.plain \in BOOLEAN /\ pr.id \in Ids \cup {NoThread} /\ pr.kept \in Messages
         /\ pr.sent \in Messages /\ pr.base \in Nat /\ pr.step \in Nat /\ pr.todo \in Seq(Nat)
PROOF
  BY DEF Process

LEMMA NoMessages == <<>> \in Messages /\ Len(<<>>) = 0 /\ Alternates(<<>>) /\ Whole(<<>>, 0)
PROOF
  BY DEF Messages, Alternates, Whole, CallsMet, ResultsMeant

LEMMA PromptIs ==
  ASSUME NEW pr \in Process, NEW kept \in Messages,
         IF pr.plain THEN Alternates(kept) /\ Len(kept) % 2 = 0 ELSE Whole(kept, 0)
  PROVE  AtPrompt(pr, kept) \in Process /\ ProcOK(AtPrompt(pr, kept))
PROOF
  <1> DEFINE np == AtPrompt(pr, kept)
  <1>1. pr.plain \in BOOLEAN /\ pr.id \in Ids \cup {NoThread} /\ "prompt" \in Points /\ <<>> \in Messages
    BY Fields, NoMessages DEF Points
  <1>2. OutProc \in Process /\ OutProc.todo = <<>>
    BY NoMessages DEF OutProc, Process, Points
  <1> USE DEF AtPrompt
  <1>3. np \in Process
    BY <1>1, <1>2 DEF Process
  <1>4. np.at = "prompt" /\ np.plain = pr.plain
    BY <1>2 DEF Process
  <1>5. np.kept = kept /\ np.todo = <<>>
    BY <1>2 DEF Process
  <1> HIDE DEF np, AtPrompt
  <1>6. ProcOK(np)
    BY <1>4, <1>5 DEF ProcOK, PlainOK, ToolsOK
  <1> QED BY <1>3, <1>6 DEF np

LEMMA OutIs == OutProc \in Process /\ ProcOK(OutProc)
PROOF
  <1>1. OutProc.at = "out" /\ OutProc.plain = FALSE /\ OutProc.kept = <<>> /\ OutProc.todo = <<>>
    BY DEF OutProc
  <1>2. OutProc \in Process
    BY NoMessages DEF OutProc, Process, Points
  <1> QED BY <1>1, <1>2, NoMessages DEF ProcOK, ToolsOK

LEMMA StepInv ==
  ASSUME TurnsInv, NEW p \in Procs, NEW pr \in Process, ProcOK(pr), Step(p, pr)
  PROVE  TurnsInv'
PROOF
  <1>1. proc' \in [Procs -> Process] /\ proc'[p] = pr /\ \A q \in Procs \ {p} : proc'[q] = proc[q]
    BY DEF TurnsInv, Step
  <1>2. \A q \in Procs : ProcOK(proc'[q])
    <2> TAKE q \in Procs
    <2> QED BY <1>1 DEF TurnsInv
  <1>3. UNCHANGED file
    BY DEF Step
  <1> QED BY <1>1, <1>2, <1>3 DEF TurnsInv, FileOK

LEMMA InitInv == Init => TurnsInv
PROOF
  BY OutIs DEF Init, TurnsInv, FileOK

LEMMA OpensInv ==
  ASSUME TurnsInv, NEW p \in Procs, NEW t \in Ids, Opens(p, t)
  PROVE  TurnsInv'
PROOF
  <1> DEFINE kept == IF file[t] = Absent THEN <<>> ELSE file[t]
             np == [OutProc EXCEPT !.at = "prompt", !.id = t, !.kept = kept]
  <1>1. kept \in Messages /\ Whole(kept, 0)
    BY NoMessages DEF TurnsInv, FileOK
  <1>2. Step(p, np)
    BY DEF Opens
  <1> HIDE DEF kept
  <1>3. OutProc \in Process /\ OutProc.plain = FALSE /\ OutProc.todo = <<>> /\ "prompt" \in Points
    BY OutIs DEF OutProc, Points
  <1>4. np \in Process
    BY <1>1, <1>3 DEF Process
  <1>5. np.at = "prompt" /\ np.plain = FALSE /\ np.kept = kept /\ np.todo = <<>>
    BY <1>3 DEF Process
  <1> HIDE DEF np
  <1>6. ProcOK(np)
    BY <1>1, <1>5 DEF ProcOK, ToolsOK
  <1> QED BY <1>2, <1>4, <1>6, StepInv

LEMMA UnsavedInv ==
  ASSUME TurnsInv, NEW p \in Procs, NEW plain \in BOOLEAN, Unsaved(p, plain)
  PROVE  TurnsInv'
PROOF
  <1> DEFINE np == [OutProc EXCEPT !.at = "prompt", !.plain = plain]
  <1>1. Step(p, np)
    BY DEF Unsaved
  <1>2. OutProc \in Process /\ OutProc.kept = <<>> /\ OutProc.todo = <<>> /\ "prompt" \in Points
    BY OutIs DEF OutProc, Points
  <1>3. np \in Process
    BY <1>2 DEF Process
  <1>4. np.at = "prompt" /\ np.kept = <<>> /\ np.todo = <<>>
    BY <1>2 DEF Process
  <1> HIDE DEF np
  <1>5. 0 % 2 = 0
    OBVIOUS
  <1>6. ProcOK(np)
    BY <1>4, <1>5, NoMessages DEF ProcOK, ToolsOK, PlainOK
  <1> QED BY <1>1, <1>3, <1>6, StepInv

LEMMA ClearInv ==
  ASSUME TurnsInv, NEW p \in Procs, Clear(p)
  PROVE  TurnsInv'
PROOF
  <1>1. proc[p] \in Process /\ 0 % 2 = 0
    BY DEF TurnsInv
  <1>2. ASSUME NEW pr \in Process, Step(p, AtPrompt(pr, <<>>))
        PROVE  TurnsInv'
    <2>1. IF pr.plain THEN Alternates(<<>>) /\ Len(<<>>) % 2 = 0 ELSE Whole(<<>>, 0)
      BY <1>1, NoMessages
    <2>2. AtPrompt(pr, <<>>) \in Process /\ ProcOK(AtPrompt(pr, <<>>))
      BY <2>1, NoMessages, PromptIs
    <2> QED BY <1>2, <2>2, StepInv
  <1>3. \A t \in Ids : [proc[p] EXCEPT !.id = t] \in Process
    BY <1>1 DEF Process
  <1> QED BY <1>1, <1>2, <1>3 DEF Clear

\* A turn begins: what was sent before it fits.
LEMMA LineInv ==
  ASSUME TurnsInv, NEW p \in Procs, Line(p)
  PROVE  TurnsInv'
PROOF
  <1> DEFINE pr == proc[p]
             kept == IF pr.plain THEN DropOldest(Append(pr.kept, User)) ELSE pr.kept
             sent == IF pr.plain THEN kept ELSE Append(TrimHistory(kept), User)
             np == [pr EXCEPT !.at = "asking", !.kept = kept, !.sent = sent, !.base = Len(sent) - 1]
  <1>1. pr.at = "prompt" /\ Step(p, np)
    BY DEF Line
  <1>2. pr \in Process /\ ProcOK(pr)
    BY DEF TurnsInv
  <1> DEFINE Goes == \A r \in Process : r.at = "asking" /\ r.plain = pr.plain /\ r.kept = kept /\ r.sent = sent
                                         /\ r.base = Len(sent) - 1 /\ r.todo = pr.todo => ProcOK(r)
  <1>3. ASSUME kept \in Messages, sent \in Messages, Len(sent) - 1 \in Nat, Goes
        PROVE  TurnsInv'
    <2> HIDE DEF pr, kept, sent
    <2>1. "asking" \in Points
      BY DEF Points
    <2>2. np \in Process
      BY <1>2, <1>3, <2>1 DEF Process
    <2>3. np.at = "asking" /\ np.kept = kept /\ np.sent = sent /\ np.base = Len(sent) - 1
      BY <1>2 DEF Process
    <2>4. np.plain = pr.plain /\ np.todo = pr.todo
      BY <1>2 DEF Process
    <2>5. ProcOK(np)
      BY <1>3, <2>2, <2>3, <2>4
    <2> HIDE DEF np
    <2> QED BY <1>1, <2>2, <2>5, StepInv
  <1>4. CASE pr.plain
    <2> DEFINE line == Append(pr.kept, User)
    <2>1. pr.kept \in Messages /\ Alternates(pr.kept) /\ Len(pr.kept) % 2 = 0
      BY <1>1, <1>2, <1>4, Fields DEF ProcOK, PlainOK
    <2>2. line \in Messages /\ Alternates(line) /\ Len(line) % 2 = 1
      BY <2>1, AlternateNext
    <2>3. kept = DropOldest(line) /\ sent = kept
      BY <1>4
    <2> HIDE DEF line, kept, sent
    <2>4. kept \in Messages /\ Alternates(kept) /\ Len(kept) % 2 = 1
      BY <2>2, <2>3, Dropped
    <2>5. Len(kept) \in Nat /\ Len(kept) >= 1
      <3>1. Len(kept) \in Nat
        BY <2>4, Of
      <3>2. 0 % 2 = 0
        OBVIOUS
      <3>3. Len(kept) # 0
        BY <2>4, <3>2
      <3> QED BY <3>1, <3>3
    <2>6. ASSUME NEW r \in Process, r.at = "asking" /\ r.plain = pr.plain /\ r.kept = kept /\ r.sent = sent
                                  /\ r.base = Len(sent) - 1
          PROVE  ProcOK(r)
      <3>1. PlainOK(r)
        BY <2>3, <2>4, <2>6 DEF PlainOK
      <3>2. Fits(r)
        BY <1>4, <2>6 DEF Fits
      <3> QED BY <1>4, <2>6, <3>1, <3>2 DEF ProcOK
    <2>7. Goes
      BY <2>6
    <2>8. sent \in Messages /\ Len(sent) - 1 \in Nat
      BY <2>3, <2>4, <2>5
    <2> HIDE DEF Goes, pr
    <2> QED BY <1>3, <2>4, <2>7, <2>8
  <1>5. CASE ~pr.plain
    <2> DEFINE h == TrimHistory(pr.kept)
    <2>1. pr.kept \in Messages /\ Whole(pr.kept, 0)
      BY <1>2, <1>5, Fields DEF ProcOK, ToolsOK
    <2>2. h \in Messages /\ Whole(h, 0) /\ NewestThatFit(pr.kept, h)
      BY <2>1, Trimmed
    <2>3. kept = pr.kept /\ sent = Append(h, User)
      BY <1>5
    <2> HIDE DEF h, kept, sent
    <2>4. sent \in Messages /\ Whole(sent, 0)
      BY <2>2, <2>3, WholeLine
    <2>5. User \in Message /\ User.role = "user"
      BY Kinds
    <2>6. Len(sent) = Len(h) + 1 /\ Len(h) \in Nat /\ sent[Len(h) + 1] = User /\ \A i \in 1..Len(h) : sent[i] = h[i]
      BY <2>2, <2>3, <2>5, Appended, Of
    <2>7. Len(sent) - 1 = Len(h)
      BY <2>6
    <2>8. SubSeq(sent, 1, Len(h)) = h
      BY <2>2, <2>3, <2>5, <2>6 DEF Messages
    <2>9. ASSUME NEW r \in Process, r.at = "asking" /\ r.plain = pr.plain /\ r.kept = kept /\ r.sent = sent
                                  /\ r.base = Len(sent) - 1 /\ r.todo = <<>>
          PROVE  ProcOK(r)
      <3>1. Before(r) = h
        BY <2>7, <2>8, <2>9 DEF Before
      <3>2. Fits(r)
        BY <2>2, <2>3, <2>9, <3>1 DEF Fits
      <3>3. r.base < Len(r.sent) /\ r.sent[r.base + 1].role = "user"
        BY <2>5, <2>6, <2>7, <2>9
      <3>4. Len(r.todo) = 0
        BY <2>9
      <3>5. ToolsOK(r)
        BY <2>1, <2>3, <2>4, <2>9, <3>3, <3>4 DEF ToolsOK
      <3> QED BY <1>5, <2>9, <3>2, <3>5 DEF ProcOK
    <2>10. pr.todo = <<>>
      BY <1>1, <1>2, <1>5 DEF ProcOK, ToolsOK
    <2>11. Goes
      BY <2>9, <2>10
    <2>12. kept \in Messages /\ Len(sent) - 1 \in Nat
      BY <2>1, <2>3, <2>6, <2>7
    <2> HIDE DEF Goes, pr
    <2> QED BY <1>3, <2>4, <2>11, <2>12
  <1> QED BY <1>4, <1>5

\* What was sent before the line does not change as the turn goes on.
LEMMA SameBefore ==
  ASSUME NEW ms \in Messages, NEW m \in Message, NEW k \in Nat, k <= Len(ms)
  PROVE  SubSeq(Append(ms, m), 1, k) = SubSeq(ms, 1, k)
PROOF
  <1>1. /\ Append(ms, m) \in Messages /\ Len(Append(ms, m)) = Len(ms) + 1 /\ Len(ms) \in Nat
        /\ \A i \in 1..Len(ms) : Append(ms, m)[i] = ms[i]
    BY Appended, Of
  <1> DEFINE ns == Append(ms, m)
             a == SubSeq(ns, 1, k)
             b == SubSeq(ms, 1, k)
  <1>2. b \in Seq(Message) /\ Len(b) = k /\ \A i \in 1..k : b[i] = ms[i]
    BY <1>1 DEF Messages
  <1>3. ns \in Messages /\ Len(ns) = Len(ms) + 1 /\ \A i \in 1..Len(ms) : ns[i] = ms[i]
    BY <1>1
  <1> HIDE DEF ns
  <1>4. a \in Seq(Message) /\ Len(a) = k /\ \A i \in 1..k : a[i] = ns[i]
    BY <1>1, <1>3 DEF Messages
  <1> HIDE DEF a, b
  <1>5. Len(a) = Len(b) /\ \A i \in 1..Len(a) : a[i] = b[i]
    BY <1>1, <1>2, <1>3, <1>4
  <1>6. a = b
    BY <1>2, <1>4, <1>5, SeqEqual
  <1> QED BY <1>6 DEF a, b, ns

\* What a turn with tools has sent.
LEMMA InTurnIs ==
  ASSUME NEW pr \in Process, ProcOK(pr), ~pr.plain, pr.at \in {"asking", "calling", "over"}
  PROVE  /\ pr.sent \in Messages /\ Whole(pr.sent, Len(pr.todo)) /\ Whole(pr.kept, 0) /\ pr.sent # <<>>
         /\ pr.base \in Nat /\ pr.base < Len(pr.sent) /\ Len(pr.sent) \in Nat /\ pr.sent[pr.base + 1].role = "user"
PROOF
  <1>1. pr.sent \in Messages /\ pr.base \in Nat
    BY Fields
  <1>2. ToolsOK(pr)
    BY DEF ProcOK
  <1>3. Len(pr.sent) \in Nat /\ pr.base < Len(pr.sent)
    BY <1>1, <1>2, Of DEF ToolsOK
  <1>4. pr.sent # <<>>
    BY <1>1, <1>3 DEF Messages
  <1> QED BY <1>1, <1>2, <1>3, <1>4 DEF ToolsOK

\* A turn with tools goes on with one more message.
LEMMA GoesOn ==
  ASSUME NEW pr \in Process, ProcOK(pr), ~pr.plain, pr.at \in {"asking", "calling"}, NEW m \in Message,
         NEW np \in Process, ~np.plain, np.kept = pr.kept, np.base = pr.base, np.sent = Append(pr.sent, m),
         Whole(np.sent, Len(np.todo)), np.at \in {"asking", "calling", "over"},
         np.at = "calling" <=> np.todo # <<>>
  PROVE  ProcOK(np)
PROOF
  <1>1. /\ pr.sent \in Messages /\ Whole(pr.kept, 0) /\ pr.base \in Nat /\ pr.base < Len(pr.sent) /\ Len(pr.sent) \in Nat
        /\ pr.sent[pr.base + 1].role = "user"
    BY InTurnIs
  <1>2. /\ Len(np.sent) = Len(pr.sent) + 1 /\ \A i \in 1..Len(pr.sent) : np.sent[i] = pr.sent[i]
    BY <1>1, Appended
  <1>3. np.base < Len(np.sent) /\ np.sent[np.base + 1].role = "user"
    <2>1. pr.base + 1 \in 1..Len(pr.sent)
      BY <1>1
    <2> QED BY <1>1, <1>2, <2>1
  <1>4. ToolsOK(np)
    BY <1>1, <1>3 DEF ToolsOK
  <1>5. Before(np) = Before(pr)
    BY <1>1, SameBefore DEF Before
  <1>7. pr.plain \in BOOLEAN /\ np.plain \in BOOLEAN
    BY Fields
  <1>6. Fits(np)
    BY <1>5, <1>7 DEF ProcOK, Fits
  <1> QED BY <1>4, <1>6 DEF ProcOK

LEMMA SaidInv ==
  ASSUME TurnsInv, NEW p \in Procs, Said(p)
  PROVE  TurnsInv'
PROOF
  <1> DEFINE m == Assistant(0)
             sent == Append(proc[p].sent, m)
             np == [proc[p] EXCEPT !.at = "over", !.sent = Append(@, Assistant(0))]
  <1>1. proc[p] \in Process /\ ProcOK(proc[p]) /\ proc[p].at = "asking" /\ Step(p, np) /\ proc[p].sent \in Messages
    BY Fields DEF Said, TurnsInv
  <1>2. 0 \in Nat /\ m \in Message
    BY Kinds
  <1>3. sent \in Messages
    <2> HIDE DEF m
    <2> QED BY <1>1, <1>2, Appended
  <1>4. np = [proc[p] EXCEPT !.at = "over", !.sent = sent]
    OBVIOUS
  <1> HIDE DEF m, sent
  <1>5. np \in Process
    <2>1. "over" \in Points
      BY DEF Points
    <2> HIDE DEF np
    <2> QED BY <1>1, <1>3, <1>4, <2>1 DEF Process
  <1>6. np.at = "over" /\ np.sent = sent
    BY <1>1, <1>4 DEF Process
  <1>7. np.plain = proc[p].plain /\ np.kept = proc[p].kept /\ np.base = proc[p].base /\ np.todo = proc[p].todo
    BY <1>1 DEF Process
  <1> HIDE DEF np
  <1>8. CASE proc[p].plain
    <2>1. ProcOK(np)
      BY <1>1, <1>6, <1>7, <1>8 DEF ProcOK, PlainOK
    <2> QED BY <1>1, <1>5, <2>1, StepInv
  <1>9. CASE ~proc[p].plain
    <2>1. proc[p].todo = <<>>
      BY <1>1, <1>9 DEF ProcOK, ToolsOK
    <2>2. Len(proc[p].todo) = 0
      BY <2>1
    <2>3. Whole(proc[p].sent, 0) /\ proc[p].sent # <<>>
      BY <1>1, <1>9, <2>2, InTurnIs
    <2>4. Whole(sent, 0)
      BY <1>1, <1>2, <2>3, WholeSaid DEF sent, m
    <2>5. Whole(np.sent, Len(np.todo))
      BY <1>6, <1>7, <2>2, <2>4
    <2>6. np.at \in {"asking", "calling", "over"} /\ (np.at = "calling" <=> np.todo # <<>>) /\ ~np.plain
      BY <1>6, <1>7, <1>9, <2>1
    <2>7. np.sent = Append(proc[p].sent, m)
      BY <1>6 DEF sent
    <2>8. ProcOK(np)
      BY <1>1, <1>2, <1>5, <1>7, <1>9, <2>5, <2>6, <2>7, GoesOn
    <2> QED BY <1>1, <1>5, <2>8, StepInv
  <1> QED BY <1>8, <1>9

LEMMA CallsInv ==
  ASSUME TurnsInv, NEW p \in Procs, NEW results \in Replies, Calls(p, results)
  PROVE  TurnsInv'
PROOF
  <1> DEFINE m == Assistant(Len(results))
             sent == Append(proc[p].sent, m)
             np == [proc[p] EXCEPT !.at = "calling", !.sent = Append(@, Assistant(Len(results))), !.todo = results]
  <1>1. /\ proc[p] \in Process /\ ProcOK(proc[p]) /\ proc[p].at = "asking" /\ ~proc[p].plain /\ Step(p, np)
        /\ proc[p].sent \in Messages
    BY Fields DEF Calls, TurnsInv
  <1>2. results \in Seq(Nat) /\ results # <<>> /\ Len(results) \in Nat
    BY ConversationAssumption
  <1>3. m \in Message
    BY <1>2, Kinds
  <1>4. sent \in Messages
    <2> HIDE DEF m
    <2> QED BY <1>1, <1>3, Appended
  <1>5. np = [proc[p] EXCEPT !.at = "calling", !.sent = sent, !.todo = results]
    OBVIOUS
  <1> HIDE DEF m, sent
  <1>6. np \in Process
    <2>1. "calling" \in Points
      BY DEF Points
    <2> HIDE DEF np
    <2> QED BY <1>1, <1>2, <1>4, <1>5, <2>1 DEF Process
  <1>7. np.at = "calling" /\ np.sent = sent /\ np.todo = results
    BY <1>1, <1>5 DEF Process
  <1>8. np.plain = proc[p].plain /\ np.kept = proc[p].kept /\ np.base = proc[p].base
    BY <1>1 DEF Process
  <1> HIDE DEF np
  <1>9. Len(proc[p].todo) = 0
    <2>1. proc[p].todo = <<>>
      BY <1>1 DEF ProcOK, ToolsOK
    <2> QED BY <2>1
  <1>10. Whole(proc[p].sent, 0) /\ proc[p].sent # <<>>
    BY <1>1, <1>9, InTurnIs
  <1>11. Whole(sent, Len(results))
    BY <1>1, <1>2, <1>10, WholeSaid DEF sent, m
  <1>12. Whole(np.sent, Len(np.todo))
    BY <1>7, <1>11
  <1>13. np.at \in {"asking", "calling", "over"} /\ (np.at = "calling" <=> np.todo # <<>>) /\ ~np.plain
    BY <1>1, <1>2, <1>7, <1>8
  <1>14. np.sent = Append(proc[p].sent, m)
    BY <1>7 DEF sent
  <1>15. proc[p].at \in {"asking", "calling"}
    BY <1>1
  <1>16. ProcOK(np)
    BY <1>1, <1>3, <1>6, <1>8, <1>12, <1>13, <1>14, <1>15, GoesOn
  <1> QED BY <1>1, <1>6, <1>16, StepInv

LEMMA ResultInv ==
  ASSUME TurnsInv, NEW p \in Procs, Result(p)
  PROVE  TurnsInv'
PROOF
  <1> DEFINE todo == proc[p].todo
             m == Tool(Head(todo))
             sent == Append(proc[p].sent, m)
             last == Len(todo) = 1
             step == IF last THEN proc[p].step + 1 ELSE proc[p].step
             at == IF ~last THEN "calling" ELSE IF proc[p].step + 1 = MaxSteps THEN "over" ELSE "asking"
             np == [proc[p] EXCEPT !.sent = sent, !.todo = Tail(todo), !.step = step, !.at = at]
  <1>1. /\ proc[p] \in Process /\ ProcOK(proc[p]) /\ proc[p].at = "calling" /\ Step(p, np)
        /\ proc[p].sent \in Messages /\ todo \in Seq(Nat) /\ proc[p].step \in Nat
    BY Fields DEF Result, TurnsInv
  <1>2. ~proc[p].plain /\ todo # <<>>
    BY <1>1 DEF ProcOK, PlainOK, ToolsOK
  <1> HIDE DEF todo
  <1>3. Head(todo) \in Nat /\ Tail(todo) \in Seq(Nat) /\ Len(Tail(todo)) = Len(todo) - 1 /\ Len(todo) \in Nat /\ Len(todo) >= 1
    BY <1>1, <1>2
  <1>4. m \in Message
    BY <1>3, Kinds
  <1>5. sent \in Messages
    <2> HIDE DEF m
    <2> QED BY <1>1, <1>4, Appended
  <1>6. step \in Nat /\ at \in Points /\ at \in {"asking", "calling", "over"}
    BY <1>1 DEF Points
  <1>7. at = "calling" <=> Tail(todo) # <<>>
    <2>1. Tail(todo) = <<>> <=> Len(Tail(todo)) = 0
      BY <1>3, EmptySeq
    <2> QED BY <1>3, <2>1
  <1> HIDE DEF m, sent, step, at
  <1>8. np \in Process
    BY <1>1, <1>3, <1>5, <1>6 DEF Process
  <1>9. np.sent = sent /\ np.todo = Tail(todo)
    BY <1>1 DEF Process
  <1>10. np.at = at /\ np.plain = proc[p].plain
    BY <1>1 DEF Process
  <1>11. np.kept = proc[p].kept /\ np.base = proc[p].base
    BY <1>1 DEF Process
  <1> HIDE DEF np
  <1>12. Whole(proc[p].sent, Len(todo))
    BY <1>1, <1>2, InTurnIs DEF todo
  <1>13. Whole(sent, Len(todo) - 1)
    BY <1>1, <1>3, <1>12, WholeResult DEF sent, m
  <1>14. Whole(np.sent, Len(np.todo))
    BY <1>3, <1>9, <1>13
  <1>15. np.at \in {"asking", "calling", "over"} /\ (np.at = "calling" <=> np.todo # <<>>) /\ ~np.plain
    BY <1>2, <1>6, <1>7, <1>9, <1>10
  <1>16. np.sent = Append(proc[p].sent, m) /\ proc[p].at \in {"asking", "calling"}
    BY <1>1, <1>9 DEF sent
  <1>17. ProcOK(np)
    BY <1>1, <1>2, <1>4, <1>8, <1>11, <1>14, <1>15, <1>16, GoesOn
  <1> QED BY <1>1, <1>8, <1>17, StepInv

\* The turn that is added is whole.
LEMMA AddTurnIs ==
  ASSUME NEW pr \in Process, ProcOK(pr), pr.at = "over" \/ (pr.plain /\ pr.at = "asking")
  PROVE  /\ AddTurn(pr) \in Messages /\ Whole(AddTurn(pr), 0)
         /\ pr.plain => Alternates(AddTurn(pr)) /\ Len(AddTurn(pr)) % 2 = 0
PROOF
  <1>1. pr.kept \in Messages /\ pr.plain \in BOOLEAN
    BY Fields
  <1>2. CASE pr.plain
    <2>1. Alternates(pr.kept) /\ Len(pr.kept) % 2 = 1
      BY <1>2 DEF ProcOK, PlainOK
    <2>2. AddTurn(pr) = Append(pr.kept, Assistant(0))
      BY <1>2 DEF AddTurn
    <2>3. AddTurn(pr) \in Messages /\ Alternates(AddTurn(pr)) /\ Len(AddTurn(pr)) % 2 = 0
      BY <1>1, <2>1, <2>2, AlternateNext
    <2> QED BY <2>3, AlternateWhole
  <1>3. CASE ~pr.plain
    <2>1. pr.at = "over" /\ Len(pr.todo) = 0
      BY <1>3 DEF ProcOK, ToolsOK
    <2>2. /\ pr.sent \in Messages /\ Whole(pr.sent, 0) /\ Whole(pr.kept, 0)
          /\ pr.base \in Nat /\ pr.base < Len(pr.sent) /\ Len(pr.sent) \in Nat /\ pr.sent[pr.base + 1].role = "user"
      BY <1>3, <2>1, InTurnIs
    <2>3. pr.base + 1 \in DOMAIN pr.sent
      BY <2>2, Of
    <2>4. From(pr.sent, pr.base + 1) \in Messages /\ Whole(From(pr.sent, pr.base + 1), 0)
      BY <2>2, <2>3, WholeFrom
    <2>5. AddTurn(pr) = pr.kept \o From(pr.sent, pr.base + 1)
      BY <1>3 DEF AddTurn
    <2>6. AddTurn(pr) \in Messages /\ Whole(AddTurn(pr), 0)
      BY <1>1, <2>2, <2>4, <2>5, WholeAdded
    <2> QED BY <1>3, <2>6
  <1> QED BY <1>1, <1>2, <1>3

LEMMA AddedPrompt ==
  ASSUME NEW pr \in Process, ProcOK(pr), pr.at = "over" \/ (pr.plain /\ pr.at = "asking")
  PROVE  AtPrompt(pr, AddTurn(pr)) \in Process /\ ProcOK(AtPrompt(pr, AddTurn(pr)))
PROOF
  <1>1. AddTurn(pr) \in Messages
        /\ IF pr.plain THEN Alternates(AddTurn(pr)) /\ Len(AddTurn(pr)) % 2 = 0 ELSE Whole(AddTurn(pr), 0)
    BY AddTurnIs
  <1> QED BY <1>1, PromptIs

LEMMA SavesInv ==
  ASSUME TurnsInv, NEW p \in Procs, Saves(p)
  PROVE  TurnsInv'
PROOF
  <1> DEFINE pr == proc[p]
             np == AtPrompt(pr, AddTurn(pr))
  <1>1. pr \in Process /\ ProcOK(pr) /\ pr.at = "over" /\ pr.id \in Ids \cup {NoThread}
    BY Fields DEF Saves, TurnsInv
  <1>2. /\ proc' = [proc EXCEPT ![p] = np]
        /\ file' = IF pr.id = NoThread THEN file ELSE [file EXCEPT ![pr.id] = AddTurn(pr)]
    BY DEF Saves
  <1>3. AddTurn(pr) \in Messages /\ Whole(AddTurn(pr), 0) /\ np \in Process /\ ProcOK(np)
    <2> HIDE DEF pr
    <2> QED BY <1>1, AddTurnIs, AddedPrompt
  <1> HIDE DEF np, pr
  <1>4. proc' \in [Procs -> Process] /\ \A q \in Procs : ProcOK(proc'[q])
    <2>1. proc' \in [Procs -> Process] /\ proc'[p] = np /\ \A q \in Procs \ {p} : proc'[q] = proc[q]
      BY <1>2, <1>3 DEF TurnsInv
    <2>2. ASSUME NEW q \in Procs PROVE ProcOK(proc'[q])
      BY <1>3, <2>1 DEF TurnsInv
    <2> QED BY <2>1, <2>2
  <1>5. DOMAIN file' = Ids /\ \A t \in Ids : file'[t] \in {file[t], AddTurn(pr)}
    <2>1. CASE pr.id = NoThread
      BY <1>2, <2>1 DEF TurnsInv
    <2>2. CASE pr.id # NoThread
      BY <1>1, <1>2, <2>2 DEF TurnsInv
    <2> QED BY <2>1, <2>2
  <1>6. ASSUME NEW t \in Ids PROVE FileOK(t)'
    BY <1>3, <1>5 DEF TurnsInv, FileOK
  <1> QED BY <1>4, <1>5, <1>6 DEF TurnsInv

LEMMA SaveFailsInv ==
  ASSUME TurnsInv, NEW p \in Procs, SaveFails(p)
  PROVE  TurnsInv'
PROOF
  <1>1. proc[p] \in Process /\ ProcOK(proc[p]) /\ proc[p].at = "over" /\ Step(p, AtPrompt(proc[p], AddTurn(proc[p])))
    BY DEF SaveFails, TurnsInv
  <1> QED BY <1>1, AddedPrompt, StepInv

LEMMA TurnFailsInv ==
  ASSUME TurnsInv, NEW p \in Procs, TurnFails(p)
  PROVE  TurnsInv'
PROOF
  <1> DEFINE pr == proc[p]
             kept == IF pr.plain THEN Front(pr.kept) ELSE pr.kept
  <1>1. pr \in Process /\ ProcOK(pr) /\ pr.at \in {"asking", "calling"} /\ pr.kept \in Messages
    BY Fields DEF TurnFails, TurnsInv
  <1>2. CASE Step(p, AtPrompt(pr, kept))
    <2>1. kept \in Messages /\ IF pr.plain THEN Alternates(kept) /\ Len(kept) % 2 = 0 ELSE Whole(kept, 0)
      <3>1. CASE pr.plain
        <4>1. Alternates(pr.kept) /\ Len(pr.kept) % 2 = 1
          BY <1>1, <3>1 DEF ProcOK, PlainOK
        <4> HIDE DEF pr
        <4>2. Front(pr.kept) \in Messages /\ Alternates(Front(pr.kept)) /\ Len(Front(pr.kept)) % 2 = 0
          BY <1>1, <4>1, AlternateFront
        <4> QED BY <3>1, <4>2
      <3>2. CASE ~pr.plain
        BY <1>1, <3>2 DEF ProcOK, ToolsOK
      <3> QED BY <3>1, <3>2
    <2> HIDE DEF pr, kept
    <2>2. AtPrompt(pr, kept) \in Process /\ ProcOK(AtPrompt(pr, kept))
      BY <1>1, <2>1, PromptIs
    <2> QED BY <1>2, <2>2, StepInv
  <1>3. CASE pr.plain /\ Step(p, AtPrompt(pr, AddTurn(pr)))
    <2>1. pr.at = "asking"
      BY <1>1, <1>3 DEF ProcOK, PlainOK
    <2> HIDE DEF pr
    <2> QED BY <1>1, <1>3, <2>1, AddedPrompt, StepInv
  <1> QED BY <1>2, <1>3 DEF TurnFails

LEMMA LeavesInv ==
  ASSUME TurnsInv, NEW p \in Procs, Leaves(p)
  PROVE  TurnsInv'
PROOF
  BY OutIs, StepInv DEF Leaves

LEMMA RemovedInv ==
  ASSUME TurnsInv, NEW t \in Ids, Removed(t)
  PROVE  TurnsInv'
PROOF
  <1>1. UNCHANGED proc /\ DOMAIN file' = Ids /\ \A u \in Ids : file'[u] \in {file[u], Absent}
    BY DEF Removed, TurnsInv
  <1> QED BY <1>1 DEF TurnsInv, FileOK

LEMMA NextInv == TurnsInv /\ [Next]_vars => TurnsInv'
PROOF
  <1> SUFFICES ASSUME TurnsInv, [Next]_vars PROVE TurnsInv'
    OBVIOUS
  <1>1. ASSUME NEW p \in Procs,
               \/ (\E t \in Ids : Opens(p, t)) \/ (\E plain \in BOOLEAN : Unsaved(p, plain))
               \/ Clear(p) \/ Line(p) \/ Turn(p) \/ Leaves(p)
        PROVE  TurnsInv'
    BY <1>1, OpensInv, UnsavedInv, ClearInv, LineInv, LeavesInv, SaidInv, CallsInv, ResultInv, SavesInv, SaveFailsInv,
       TurnFailsInv DEF Turn
  <1>2. CASE \E t \in Ids : Removed(t)
    BY <1>2, RemovedInv
  <1>3. CASE UNCHANGED vars
    BY <1>3 DEF vars, TurnsInv, FileOK
  <1> QED BY <1>1, <1>2, <1>3 DEF Next

-----------------------------------------------------------------------------
(* What follows *)

LEMMA InvWhole == TurnsInv => SentWhole
PROOF
  <1> SUFFICES ASSUME TurnsInv PROVE SentWhole
    OBVIOUS
  <1>1. ASSUME NEW p \in Procs, proc[p].at = "asking" PROVE WellFormed(proc[p].sent)
    <2>1. proc[p] \in Process /\ ProcOK(proc[p]) /\ proc[p].sent \in Messages /\ proc[p].kept \in Messages
          /\ proc[p].plain \in BOOLEAN
      BY Fields DEF TurnsInv
    <2>2. CASE proc[p].plain
      <3>1. proc[p].sent = proc[p].kept /\ Alternates(proc[p].kept)
        BY <1>1, <2>1, <2>2 DEF ProcOK, PlainOK
      <3> QED BY <2>1, <3>1, AlternateWhole, WholeMeans
    <2>3. CASE ~proc[p].plain
      <3>1. Len(proc[p].todo) = 0
        BY <1>1, <2>1, <2>3 DEF ProcOK, ToolsOK
      <3>2. Whole(proc[p].sent, 0)
        BY <1>1, <2>1, <2>3, <3>1, InTurnIs
      <3> QED BY <2>1, <3>2, WholeMeans
    <2> QED BY <2>1, <2>2, <2>3
  <1>2. ASSUME NEW t \in Ids, file[t] # Absent PROVE WellFormed(file[t])
    BY <1>2, WholeMeans DEF TurnsInv, FileOK
  <1> QED BY <1>1, <1>2 DEF SentWhole

LEMMA InvFits == TurnsInv => FitsContext
PROOF
  BY DEF TurnsInv, FitsContext, ProcOK, Fits, Before

\* Whatever is sent to the model, and every thread's file, is whole turns: it begins with the
\* user and every call has exactly its results (agent.py, threads.py, local.py), for any
\* replies, failures, cuts and saves by any number of processes.
THEOREM WholeTurns == Spec => []SentWhole
PROOF
  BY InitInv, NextInv, InvWhole, PTL DEF Spec

\* Of a thread's earlier turns the model is sent the newest that fit in the budget, whole,
\* one in any case and never fewer than would have fitted (the loop of trim_history).
THEOREM ContextFits == Spec => []FitsContext
PROOF
  BY InitInv, NextInv, InvFits, PTL DEF Spec
=============================================================================
