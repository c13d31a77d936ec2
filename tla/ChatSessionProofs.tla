-------------------------- MODULE ChatSessionProofs --------------------------
(***************************************************************************)
(* Proofs about ChatSession for one call of SendAsync at a time, and any   *)
(* threads, ways of tool calling, replies, windows and lengths.            *)
(***************************************************************************)
EXTENDS ChatSession, SequenceTheorems, WellFoundedInduction, TLAPS

-----------------------------------------------------------------------------
(* The inductive invariant *)

Message == [role : {"user", "assistant", "tool", "result"}, n : Nat]
Thread == [is : {"unused", "kept", "deleted"}, msgs : Seq(Message)]
Points == {"idle", "queued", "checked", "busy", "began", "stored", "loaded", "asking", "calling", "ending", "freed", "disposed"}
Turn == [at : Points, thread : Threads \cup {None}, mode : {"native", "prompted", "none"}, history : Seq(Message), next : Nat,
         step : Nat, left : Int, token : Sends \cup {None}, cancelled : BOOLEAN, disposed : BOOLEAN]

Types ==
  /\ store \in [Threads -> Thread] /\ turn \in [Sends -> Turn]
  /\ open \in Threads \cup {None} /\ busy \in BOOLEAN /\ running \in Sends \cup {None}

\* Every native result is one of the results of the call before it.
Paired(ms) == \A i \in DOMAIN ms : ms[i].role = "tool" => HasItsCall(ms, i)

\* The thread ends in the first k messages of a history.
EndsIn(ms, h, k) == k <= Len(ms) /\ \A i \in 1..k : ms[Len(ms) - k + i] = h[i]

\* The last message with calls still waits for `left` results, when they are native.
Waits(h, left) ==
  \E j \in DOMAIN h : /\ h[j].role = "assistant" /\ h[j].n = left + Len(h) - j
                      /\ \A k \in (j + 1)..Len(h) : h[k].role = "tool"

\* From the check of Busy to `finally` nobody else deletes, branches or opens a thread.
Busied == {"busy", "began", "stored", "loaded", "asking", "calling", "ending"}
InThread == {"stored", "loaded", "asking", "calling"}
Knowing == {"loaded", "asking", "calling"}

\* What is in the thread of what the turn knows.
Known(tr, st) ==
  tr.at \in Knowing =>
    /\ Paired(tr.history) /\ tr.next \in 1..(Len(tr.history) + 1)
    /\ EndsIn(st[tr.thread].msgs, tr.history, tr.next - 1)
    /\ tr.at # "asking" => tr.next = Len(tr.history) + 1
    /\ tr.next >= Len(tr.history)
Owed(tr) ==
  tr.at = "calling" =>
    /\ tr.left >= 1
    /\ tr.mode # "prompted" => Waits(tr.history, tr.left)
TurnOK(tr, st, b) ==
  /\ tr.at \in Busied => b
  /\ tr.at \in InThread => tr.thread \in Threads
  /\ Known(tr, st) /\ Owed(tr)

ChatInv ==
  /\ Types
  /\ \A t \in Threads : Paired(store[t].msgs)
  /\ \A s \in Sends : TurnOK(turn[s], store, busy)

OneAtATime == \A r, s \in Sends : r = s

-----------------------------------------------------------------------------
(* Histories and threads *)

LEMMA Kinds ==
  /\ UserMessage \in Message /\ UserMessage.role = "user"
  /\ \A n \in Nat : AssistantMessage(n) \in Message /\ AssistantMessage(n).role = "assistant" /\ AssistantMessage(n).n = n
  /\ \A mode : /\ ToolMessage(mode) \in Message
               /\ mode = "prompted" => ToolMessage(mode).role = "result"
               /\ mode # "prompted" => ToolMessage(mode).role = "tool"
PROOF
  BY DEF Message, UserMessage, AssistantMessage, ToolMessage

\* A sequence and one more message.
LEMMA Appended ==
  ASSUME NEW S, NEW ms \in Seq(S), NEW m \in S
  PROVE  /\ Append(ms, m) \in Seq(S) /\ Len(Append(ms, m)) = Len(ms) + 1
         /\ \A i \in 1..Len(ms) : Append(ms, m)[i] = ms[i]
         /\ Append(ms, m)[Len(ms) + 1] = m
         /\ DOMAIN Append(ms, m) = 1..(Len(ms) + 1) /\ DOMAIN ms = 1..Len(ms)
PROOF
  OBVIOUS

\* What is kept of the first messages is paired as they are.
LEMMA PairedUpTo ==
  ASSUME NEW ms \in Seq(Message), NEW ns \in Seq(Message), Paired(ms), NEW k \in Nat,
         k <= Len(ms), k <= Len(ns), \A i \in 1..k : ns[i] = ms[i],
         \A i \in (k + 1)..Len(ns) : ns[i].role = "tool" => HasItsCall(ns, i)
  PROVE  Paired(ns)
PROOF
  <1> SUFFICES ASSUME NEW i \in 1..Len(ns), ns[i].role = "tool" PROVE HasItsCall(ns, i)
    BY DEF Paired
  <1>1. CASE i > k
    BY <1>1
  <1>2. CASE i <= k
    <2>1. HasItsCall(ms, i)
      BY <1>2 DEF Paired
    <2>2. PICK j \in 1..(i - 1) : ms[j].role = "assistant" /\ i - j <= ms[j].n /\ \A l \in (j + 1)..i : ms[l].role = "tool"
      BY <2>1 DEF HasItsCall
    <2>3. ns[j] = ms[j] /\ \A l \in (j + 1)..i : ns[l] = ms[l]
      BY <1>2
    <2> QED BY <2>2, <2>3 DEF HasItsCall
  <1> QED BY <1>1, <1>2

LEMMA PairedLine ==
  ASSUME NEW ms \in Seq(Message), Paired(ms), NEW m \in Message, m.role # "tool"
  PROVE  Append(ms, m) \in Seq(Message) /\ Paired(Append(ms, m))
PROOF
  <1> DEFINE ns == Append(ms, m)
  <1>1. /\ ns \in Seq(Message) /\ Len(ns) = Len(ms) + 1 /\ Len(ms) \in Nat
        /\ \A i \in 1..Len(ms) : ns[i] = ms[i]
        /\ ns[Len(ms) + 1] = m
    BY Appended
  <1>2. \A i \in (Len(ms) + 1)..Len(ns) : ns[i].role = "tool" => HasItsCall(ns, i)
    BY <1>1
  <1> HIDE DEF ns
  <1>3. Paired(ns)
    BY <1>1, <1>2, PairedUpTo
  <1> QED BY <1>1, <1>3 DEF ns

\* A result of the call that still waits for some.
LEMMA PairedResult ==
  ASSUME NEW h \in Seq(Message), Paired(h), NEW left \in Nat, left >= 1, Waits(h, left),
         NEW m \in Message, m.role = "tool"
  PROVE  /\ Append(h, m) \in Seq(Message) /\ Paired(Append(h, m))
         /\ Waits(Append(h, m), left - 1)
PROOF
  <1> DEFINE ns == Append(h, m)
             n == Len(h)
  <1>1. /\ ns \in Seq(Message) /\ Len(ns) = n + 1 /\ n \in Nat
        /\ \A i \in 1..n : ns[i] = h[i]
        /\ ns[n + 1] = m
    BY Appended
  <1>2. PICK j \in 1..n : /\ h[j].role = "assistant" /\ h[j].n = left + n - j
                          /\ \A k \in (j + 1)..n : h[k].role = "tool"
    BY DEF Waits
  <1> HIDE DEF ns, n
  <1>3. ns[j] = h[j] /\ j \in 1..n
    BY <1>1
  <1>4. \A k \in (j + 1)..(n + 1) : ns[k].role = "tool"
    <2> TAKE k \in (j + 1)..(n + 1)
    <2>1. CASE k = n + 1
      BY <2>1, <1>1
    <2>2. CASE k # n + 1
      <3>1. k \in (j + 1)..n /\ k \in 1..n
        BY <2>2, <1>1
      <3> QED BY <3>1, <1>1, <1>2
    <2> QED BY <2>1, <2>2
  <1>5. HasItsCall(ns, n + 1)
    <2>1. j \in 1..((n + 1) - 1)
      BY <1>1, <1>2, <1>3
    <2>2. (n + 1) - j <= ns[j].n
      <3>1. ns[j].n = left + n - j
        BY <1>2, <1>3
      <3> QED BY <3>1, <1>1, <1>2
    <2>3. ns[j].role = "assistant"
      BY <1>2, <1>3
    <2> QED BY <2>1, <2>2, <2>3, <1>4 DEF HasItsCall
  <1>6. \A i \in (n + 1)..Len(ns) : ns[i].role = "tool" => HasItsCall(ns, i)
    BY <1>1, <1>5
  <1>7. Paired(ns)
    <2>1. n = Len(h)
      BY DEF n
    <2> QED BY <1>1, <1>6, <2>1, PairedUpTo
  <1>8. Waits(ns, left - 1)
    <2>1. ns[j].n = (left - 1) + Len(ns) - j
      <3>1. ns[j].n = left + n - j
        BY <1>2, <1>3
      <3> QED BY <3>1, <1>1, <1>2
    <2>2. DOMAIN ns = 1..(n + 1) /\ j \in 1..(n + 1)
      BY <1>1, <1>2
    <2>3. ns[j].role = "assistant" /\ \A k \in (j + 1)..Len(ns) : ns[k].role = "tool"
      BY <1>1, <1>2, <1>3, <1>4
    <2> QED BY <2>1, <2>2, <2>3 DEF Waits
  <1> QED BY <1>1, <1>7, <1>8 DEF ns

\* What is new in a history joins the thread that ends in the rest of it.
LEMMA Joined ==
  ASSUME NEW ms \in Seq(Message), NEW h \in Seq(Message), Paired(ms), Paired(h),
         NEW next \in 1..(Len(h) + 1), EndsIn(ms, h, next - 1)
  PROVE  LET new == ms \o SubSeq(h, next, Len(h))
         IN new \in Seq(Message) /\ Paired(new) /\ EndsIn(new, h, Len(h))
PROOF
  <1> DEFINE tail == SubSeq(h, next, Len(h))
             new == ms \o tail
             n == Len(h)
             m == Len(ms)
  <1>1. n \in Nat /\ m \in Nat /\ next \in Nat /\ next - 1 \in Nat /\ next - 1 <= m
    BY DEF EndsIn
  <1>2. tail \in Seq(Message) /\ Len(tail) = n - (next - 1) /\ \A i \in 1..Len(tail) : tail[i] = h[next + i - 1]
    BY <1>1
  <1>3. new \in Seq(Message) /\ Len(new) = m + Len(tail)
        /\ (\A i \in 1..m : new[i] = ms[i]) /\ \A i \in 1..Len(tail) : new[m + i] = tail[i]
    BY <1>2
  <1> HIDE DEF tail, new
  <1>4. n <= Len(new) /\ Len(new) - n = m - (next - 1) /\ Len(new) \in Nat
    BY <1>1, <1>2, <1>3
  <1>5. ASSUME NEW i \in 1..n PROVE new[Len(new) - n + i] = h[i]
    <2>1. CASE i <= next - 1
      <3>1. m - (next - 1) + i \in 1..m /\ i \in 1..(next - 1)
        BY <2>1, <1>1
      <3>2. ms[m - (next - 1) + i] = h[i]
        BY <3>1 DEF EndsIn
      <3> QED BY <3>1, <3>2, <1>3, <1>4
    <2>2. CASE i > next - 1
      <3>1. i - (next - 1) \in 1..Len(tail) /\ next + (i - (next - 1)) - 1 = i
        BY <2>2, <1>1, <1>2
      <3>2. new[m + (i - (next - 1))] = h[i]
        BY <3>1, <1>2, <1>3
      <3>3. m + (i - (next - 1)) = Len(new) - n + i
        BY <1>1, <1>4
      <3> QED BY <3>2, <3>3
    <2> QED BY <2>1, <2>2, <1>1
  <1>6. EndsIn(new, h, n)
    BY <1>4, <1>5 DEF EndsIn
  <1>7. ASSUME NEW i \in (m + 1)..Len(new), new[i].role = "tool" PROVE HasItsCall(new, i)
    <2> DEFINE d == Len(new) - n
    <2>1. d \in Nat /\ i - d \in 1..n /\ d + (i - d) = i
      BY <1>1, <1>2, <1>3, <1>4
    <2> HIDE DEF d
    <2>2. new[d + (i - d)] = h[i - d]
      BY <2>1, <1>5 DEF d
    <2>3. h[i - d] = new[i]
      BY <2>1, <2>2
    <2>4. HasItsCall(h, i - d)
      BY <2>1, <2>3, <1>7 DEF Paired
    <2>5. PICK j \in 1..(i - d - 1) : h[j].role = "assistant" /\ (i - d) - j <= h[j].n /\ \A k \in (j + 1)..(i - d) : h[k].role = "tool"
      BY <2>4 DEF HasItsCall
    <2>6. j \in 1..n /\ d + j \in 1..(i - 1) /\ i - (d + j) = (i - d) - j
      <3>1. i \in Nat /\ n \in Nat /\ j \in Nat /\ 1 <= j /\ j <= i - d - 1 /\ i - d <= n
        BY <2>1, <2>5, <1>1
      <3>2. j \in 1..n
        BY <2>1, <3>1
      <3>3. d + j \in 1..(i - 1)
        BY <2>1, <3>1
      <3>4. i - (d + j) = (i - d) - j
        BY <2>1, <3>1
      <3> QED BY <3>2, <3>3, <3>4
    <2>7. new[d + j] = h[j]
      BY <2>6, <1>5 DEF d
    <2>8. ASSUME NEW k \in (d + j + 1)..i PROVE new[k].role = "tool"
      <3>1. k - d \in (j + 1)..(i - d) /\ k - d \in 1..n /\ d + (k - d) = k
        BY <2>1, <2>6, <1>1
      <3>2. new[d + (k - d)] = h[k - d]
        BY <3>1, <1>5 DEF d
      <3> QED BY <3>1, <3>2, <2>5
    <2> QED BY <2>5, <2>6, <2>7, <2>8 DEF HasItsCall
  <1>8. Paired(new)
    <2>1. m <= Len(ms) /\ m <= Len(new) /\ m \in Nat
      BY <1>1, <1>2, <1>3
    <2>2. \A i \in 1..m : new[i] = ms[i]
      BY <1>3
    <2>3. \A i \in (m + 1)..Len(new) : new[i].role = "tool" => HasItsCall(new, i)
      BY <1>7
    <2> HIDE DEF m
    <2> QED BY <2>1, <2>2, <2>3, <1>3, PairedUpTo
  <1> QED BY <1>3, <1>6, <1>8 DEF new, tail

\* A branch keeps the first messages.
LEMMA Branched ==
  ASSUME NEW ms \in Seq(Message), Paired(ms), NEW k \in 1..Len(ms)
  PROVE  SubSeq(ms, 1, k) \in Seq(Message) /\ Paired(SubSeq(ms, 1, k))
PROOF
  <1> DEFINE ns == SubSeq(ms, 1, k)
  <1>1. ns \in Seq(Message) /\ Len(ns) = k /\ k \in Nat /\ k <= Len(ms) /\ \A i \in 1..k : ns[i] = ms[i]
    OBVIOUS
  <1> HIDE DEF ns
  <1>2. \A i \in (k + 1)..Len(ns) : ns[i].role = "tool" => HasItsCall(ns, i)
    BY <1>1
  <1>3. Paired(ns)
    BY <1>1, <1>2, PairedUpTo
  <1> QED BY <1>1, <1>3 DEF ns

\* A set of numbers has a least one.
LEMMA LeastNumber ==
  ASSUME NEW S \in SUBSET Nat, S # {}
  PROVE  \E n \in S : \A m \in S : n <= m
PROOF
  <1> DEFINE less == OpToRel(<, Nat)
  <1>1. PICK n \in S : \A m \in S : ~(<<m, n>> \in less)
    BY NatLessThanWellFounded, WFMin
  <1>2. less = {p \in Nat \X Nat : p[1] < p[2]}
    BY Zenon DEF OpToRel
  <1> HIDE DEF less
  <1>3. ASSUME NEW m \in S PROVE n <= m
    <2>1. <<m, n>> \in Nat \X Nat /\ <<m, n>>[1] = m /\ <<m, n>>[2] = n
      OBVIOUS
    <2> QED BY <1>1, <1>2, <2>1
  <1> QED BY <1>3

\* The window begins with a message of the user's, which is no native result: no call is
\* cut off its results.
LEMMA Windowed ==
  ASSUME NEW ms \in Seq(Message), Paired(ms), HistoryWindow \in Nat
  PROVE  Window(ms) \in Seq(Message) /\ Paired(Window(ms)) /\ EndsIn(ms, Window(ms), Len(Window(ms)))
PROOF
  <1> DEFINE n == Len(ms)
             first == IF n <= HistoryWindow THEN 1 ELSE n - HistoryWindow + 1
             spoken == {i \in first..n : ms[i].role \in {"user", "result"}}
  <1>1. CASE spoken = {}
    <2>1. Window(ms) = <<>>
      BY <1>1 DEF Window
    <2> QED BY <2>1 DEF Paired, EndsIn
  <1>2. CASE spoken # {}
    <2> DEFINE b == CHOOSE i \in spoken : \A j \in spoken : i <= j
    <2>1. n \in Nat /\ first \in Nat /\ first >= 1
      OBVIOUS
    <2>2. PICK o \in spoken : TRUE
      BY <1>2
    <2>3. b \in spoken
      <3>1. spoken \subseteq Nat
        BY <2>1
      <3>2. \E i \in spoken : \A j \in spoken : i <= j
        <4> HIDE DEF spoken
        <4> QED BY <1>2, <3>1, LeastNumber
      <3> QED BY <3>2
    <2>4. Window(ms) = SubSeq(ms, b, n)
      BY <1>2 DEF Window
    <2>5. b \in 1..n /\ ms[b].role # "tool"
      BY <2>1, <2>3
    <2> HIDE DEF b, spoken, first
    <2> DEFINE w == SubSeq(ms, b, n)
    <2>6. w \in Seq(Message) /\ Len(w) = n - b + 1 /\ \A i \in 1..Len(w) : w[i] = ms[b + i - 1]
      BY <2>1, <2>5
    <2> HIDE DEF w
    <2>7. Len(w) \in Nat /\ Len(w) <= n /\ n - Len(w) = b - 1
      BY <2>1, <2>5, <2>6
    <2>8. ASSUME NEW i \in 1..Len(w) PROVE ms[n - Len(w) + i] = w[i]
      <3>1. n - Len(w) + i = b + i - 1
        BY <2>1, <2>5, <2>7
      <3> QED BY <3>1, <2>6
    <2>9. ASSUME NEW i \in 1..Len(w), w[i].role = "tool" PROVE HasItsCall(w, i)
      <3>1. b + i - 1 \in 1..n /\ ms[b + i - 1] = w[i]
        BY <2>1, <2>5, <2>6
      <3>2. HasItsCall(ms, b + i - 1)
        BY <3>1, <2>9 DEF Paired
      <3>3. PICK j \in 1..((b + i - 1) - 1) : /\ ms[j].role = "assistant" /\ (b + i - 1) - j <= ms[j].n
                                          /\ \A k \in (j + 1)..(b + i - 1) : ms[k].role = "tool"
        BY <3>2, Zenon DEF HasItsCall
      <3>4. j >= b
        <4> SUFFICES ASSUME j < b PROVE FALSE
          BY <2>5
        <4>1. b \in (j + 1)..(b + i - 1)
          BY <2>5
        <4> QED BY <4>1, <3>3, <2>5
      <3>5. j - b + 1 \in 1..(i - 1) /\ j - b + 1 \in 1..Len(w) /\ b + (j - b + 1) - 1 = j
        BY <3>4, <2>5, <2>7
      <3>6. w[j - b + 1] = ms[j]
        BY <3>5, <2>6
      <3>7. i - (j - b + 1) <= w[j - b + 1].n
        <4>1. i - (j - b + 1) = (b + i - 1) - j
          BY <2>5
        <4> QED BY <4>1, <3>3, <3>6
      <3>8. ASSUME NEW k \in (j - b + 1 + 1)..i PROVE w[k].role = "tool"
        <4>1. k \in 1..Len(w) /\ b + k - 1 \in (j + 1)..(b + i - 1)
          BY <3>4, <3>5, <2>5, <2>7
        <4> QED BY <4>1, <3>3, <2>6
      <3> QED BY <3>3, <3>5, <3>6, <3>7, <3>8 DEF HasItsCall
    <2>10. Paired(w)
      <3>1. DOMAIN w = 1..Len(w)
        BY <2>6
      <3> QED BY <3>1, <2>9 DEF Paired
    <2>11. EndsIn(ms, w, Len(w))
      BY <2>7, <2>8 DEF EndsIn
    <2> QED BY <2>4, <2>6, <2>10, <2>11 DEF w
  <1> QED BY <1>1, <1>2

\* As IsSuffix says it, by reversing both.
LEMMA SuffixByEnd ==
  ASSUME NEW ms \in Seq(Message), NEW h \in Seq(Message), NEW k \in 0..Len(h), EndsIn(ms, h, k)
  PROVE  IsSuffix(SubSeq(h, 1, k), ms)
PROOF
  <1> DEFINE w == SubSeq(h, 1, k)
             rw == Reverse(w)
             rm == Reverse(ms)
             m == Len(ms)
  <1>1. w \in Seq(Message) /\ Len(w) = k /\ (\A i \in 1..k : w[i] = h[i]) /\ m \in Nat /\ k \in Nat /\ k <= m
    BY DEF EndsIn
  <1> HIDE DEF w
  <1>2. rw = [i \in 1..k |-> w[(k - i) + 1]] /\ rm = [i \in 1..m |-> ms[(m - i) + 1]]
    BY <1>1 DEF Reverse
  <1>3. rw \in Seq(Message) /\ rm \in Seq(Message) /\ Len(rw) = k /\ Len(rm) = m
    <2>1. \A i \in 1..k : w[(k - i) + 1] \in Message
      BY <1>1
    <2>2. \A i \in 1..m : ms[(m - i) + 1] \in Message
      BY <1>1
    <2> QED BY <1>1, <1>2, <2>1, <2>2
  <1>4. ASSUME NEW i \in 1..k PROVE rw[i] = rm[i]
    <2>1. k - i + 1 \in 1..k /\ m - k + (k - i + 1) = m - i + 1 /\ i \in 1..m
      <3>1. i \in Nat /\ 1 <= i /\ i <= k /\ i <= m /\ k \in Nat /\ m \in Nat
        BY <1>1
      <3>2. k - i + 1 \in 1..k
        BY <3>1
      <3>3. m - k + (k - i + 1) = m - i + 1
        BY <3>1
      <3>4. i \in 1..m
        BY <3>1
      <3> QED BY <3>2, <3>3, <3>4
    <2>2. ms[m - k + (k - i + 1)] = h[k - i + 1]
      BY <2>1 DEF EndsIn
    <2>3. rw[i] = h[k - i + 1] /\ rm[i] = ms[m - i + 1]
      BY <1>1, <1>2, <2>1
    <2> QED BY <2>1, <2>2, <2>3
  <1> HIDE DEF rw, rm, m
  <1>5. SubSeq(rm, 1, k) = rw
    <2> DEFINE s == SubSeq(rm, 1, k)
    <2>1. s \in Seq(Message) /\ Len(s) = k /\ \A i \in 1..k : s[i] = rm[i]
      BY <1>1, <1>3
    <2> HIDE DEF s
    <2>2. Len(s) = Len(rw) /\ \A i \in 1..Len(s) : s[i] = rw[i]
      BY <2>1, <1>3, <1>4
    <2>3. s = rw
      BY <2>1, <2>2, <1>3, SeqEqual
    <2> QED BY <2>3 DEF s
  <1>6. IsPrefix(rw, rm)
    <2>1. Len(rw) <= Len(rm) /\ SubSeq(rw, 1, Len(rw)) = rw
      BY <1>1, <1>3
    <2> QED BY <1>3, <1>5, <2>1 DEF IsPrefix
  <1> QED BY <1>6 DEF IsSuffix, rw, rm, w

-----------------------------------------------------------------------------
(* Turns *)

LEMMA TurnFields ==
  ASSUME NEW tr \in Turn
  PROVE  /\ tr.at \in Points /\ tr.thread \in Threads \cup {None} /\ tr.mode \in {"native", "prompted", "none"}
         /\ tr.history \in Seq(Message) /\ tr.next \in Nat /\ tr.step \in Nat /\ tr.left \in Int
         /\ tr.token \in Sends \cup {None} /\ tr.cancelled \in BOOLEAN /\ tr.disposed \in BOOLEAN
PROOF
  BY DEF Turn

LEMMA IdleTurn == Idle \in Turn /\ Idle.at = "idle"
PROOF
  BY DEF Idle, Turn, Points, None

\* A turn that has given up Busy, or not taken it yet, owes nothing.
LEMMA OutOfTurn ==
  ASSUME NEW tr, NEW st, NEW b, tr.at \notin Busied
  PROVE  TurnOK(tr, st, b)
PROOF
  BY DEF TurnOK, Known, Owed, Busied, InThread, Knowing

LEMMA Ending ==
  ASSUME NEW tr, NEW st, tr.at = "ending"
  PROVE  TurnOK(tr, st, TRUE)
PROOF
  BY DEF TurnOK, Known, Owed, Busied, InThread, Knowing

\* The flags of the token source are no part of it.
LEMMA SameTurn ==
  ASSUME NEW tr, NEW sr, NEW st, NEW b, TurnOK(tr, st, b), sr.at = tr.at, sr.thread = tr.thread, sr.mode = tr.mode,
         sr.history = tr.history, sr.next = tr.next, sr.left = tr.left
  PROVE  TurnOK(sr, st, b)
PROOF
  BY DEF TurnOK, Known, Owed

\* A step of the one turn.
LEMMA OneTurn ==
  ASSUME ChatInv, OneAtATime, NEW s \in Sends, NEW tr \in Turn, Becomes(s, tr)
  PROVE  turn' \in [Sends -> Turn] /\ turn'[s] = tr /\ \A r \in Sends : turn'[r] = tr
PROOF
  <1>1. turn' \in [Sends -> Turn] /\ turn'[s] = tr
    BY DEF ChatInv, Types, Becomes
  <1> QED BY <1>1 DEF OneAtATime

LEMMA NextTurn ==
  ASSUME ChatInv, OneAtATime, NEW s \in Sends, NEW tr \in Turn, Becomes(s, tr), UNCHANGED store,
         open' \in Threads \cup {None}, busy' \in BOOLEAN, running' \in Sends \cup {None},
         TurnOK(tr, store, busy')
  PROVE  ChatInv'
PROOF
  <1>1. turn' \in [Sends -> Turn] /\ \A r \in Sends : turn'[r] = tr
    BY OneTurn
  <1>2. Types'
    BY <1>1 DEF ChatInv, Types
  <1>3. \A r \in Sends : TurnOK(turn'[r], store', busy')
    BY <1>1
  <1> QED BY <1>2, <1>3 DEF ChatInv

\* The thread of the turn, and nothing else, gets new messages.
LEMMA NextRows ==
  ASSUME ChatInv, OneAtATime, NEW s \in Sends, NEW tr \in Turn, Becomes(s, tr), NEW t \in Threads, NEW row \in Thread,
         store' = [store EXCEPT ![t] = row], Paired(row.msgs),
         open' \in Threads \cup {None}, UNCHANGED <<busy, running>>,
         TurnOK(tr, store', busy)
  PROVE  ChatInv'
PROOF
  <1>1. turn' \in [Sends -> Turn] /\ \A r \in Sends : turn'[r] = tr
    BY OneTurn
  <1>2. store' \in [Threads -> Thread] /\ store'[t] = row /\ \A u \in Threads \ {t} : store'[u] = store[u]
    BY DEF ChatInv, Types
  <1>3. Types'
    BY <1>1, <1>2 DEF ChatInv, Types
  <1>4. \A r \in Sends : TurnOK(turn'[r], store', busy')
    BY <1>1
  <1>5. \A u \in Threads : Paired(store'[u].msgs)
    <2> TAKE u \in Threads
    <2> QED BY <1>2 DEF ChatInv
  <1> QED BY <1>3, <1>4, <1>5 DEF ChatInv

\* The turn ends in an error or is cancelled.
LEMMA EndsTurn ==
  ASSUME ChatInv, OneAtATime, NEW s \in Sends, turn[s].at \in Busied, Ends(s), UNCHANGED <<store, open, busy, running>>
  PROVE  ChatInv'
PROOF
  <1> DEFINE tr == [turn[s] EXCEPT !.at = "ending"]
  <1>1. turn[s] \in Turn /\ busy = TRUE /\ open \in Threads \cup {None} /\ running \in Sends \cup {None}
    BY DEF ChatInv, Types, TurnOK
  <1>2. tr \in Turn /\ tr.at = "ending"
    BY <1>1 DEF Turn, Points
  <1>3. Becomes(s, tr)
    BY DEF Ends
  <1> HIDE DEF tr
  <1>4. TurnOK(tr, store, TRUE)
    BY <1>2, Ending
  <1> QED BY <1>1, <1>2, <1>3, <1>4, NextTurn

\* Persist appends what is new to the thread, or the store refuses.
LEMMA Persists ==
  ASSUME ChatInv, OneAtATime, NEW s \in Sends, turn[s].at \in Knowing,
         NEW tr \in Turn, Persist(s, tr), tr.thread = turn[s].thread, tr.next = turn[s].next,
         tr.next \in 1..(Len(tr.history) + 1), Paired(tr.history),
         \A i \in 1..(tr.next - 1) : tr.history[i] = turn[s].history[i],
         Owed(tr)
  PROVE  ChatInv'
PROOF
  <1> DEFINE t == tr.thread
             new == SubSeq(tr.history, tr.next, Len(tr.history))
             row == [store[t] EXCEPT !.msgs = @ \o new]
             sr == [tr EXCEPT !.next = Len(tr.history) + 1]
  <1>1. TurnOK(turn[s], store, busy) /\ busy \in BOOLEAN
    BY DEF ChatInv, Types
  <1>2. t \in Threads /\ busy = TRUE
    BY <1>1 DEF TurnOK, Knowing, InThread, Busied
  <1>3. store[t] \in Thread /\ store[t].msgs \in Seq(Message) /\ Paired(store[t].msgs)
    BY <1>2 DEF ChatInv, Types, Thread
  <1>4. EndsIn(store[t].msgs, tr.history, tr.next - 1)
    <2>1. EndsIn(store[t].msgs, turn[s].history, tr.next - 1)
      BY <1>1 DEF TurnOK, Known
    <2> QED BY <2>1 DEF EndsIn
  <1>5. tr.history \in Seq(Message) /\ Len(tr.history) \in Nat
    BY DEF Turn
  <1>6. /\ store[t].msgs \o new \in Seq(Message) /\ Paired(store[t].msgs \o new)
        /\ EndsIn(store[t].msgs \o new, tr.history, Len(tr.history))
    BY <1>3, <1>4, <1>5, Joined
  <1>7. row \in Thread /\ row.msgs = store[t].msgs \o new
    BY <1>3, <1>6 DEF Thread
  <1>8. /\ sr \in Turn /\ sr.next = Len(tr.history) + 1 /\ sr.history = tr.history /\ sr.at = tr.at
        /\ sr.thread = t /\ sr.mode = tr.mode /\ sr.left = tr.left
    <2> QED BY <1>5 DEF Turn
  <1>9. open \in Threads \cup {None}
    BY DEF ChatInv, Types
  <1>10. CASE Kept(t) /\ store' = [store EXCEPT ![t].msgs = @ \o new] /\ Becomes(s, sr) /\ UNCHANGED <<open, busy, running>>
    <2>1. store' = [store EXCEPT ![t] = row]
      BY <1>10
    <2>2. store'[t] = row
      BY <1>2, <2>1 DEF ChatInv, Types
    <2>3. Known(sr, store')
      <3>1. EndsIn(store'[sr.thread].msgs, sr.history, sr.next - 1)
        <4>1. sr.next - 1 = Len(tr.history)
          BY <1>5, <1>8
        <4> QED BY <4>1, <1>6, <1>7, <1>8, <2>2
      <3>2. sr.next \in 1..(Len(sr.history) + 1) /\ sr.next >= Len(sr.history)
        BY <1>5, <1>8
      <3> QED BY <3>1, <3>2, <1>8 DEF Known
    <2>4. Owed(sr)
      BY <1>8 DEF Owed
    <2>5. TurnOK(sr, store', busy)
      BY <1>2, <1>8, <2>3, <2>4 DEF TurnOK
    <2> HIDE DEF sr, row
    <2> QED BY <1>2, <1>6, <1>7, <1>8, <1>9, <1>10, <2>1, <2>5, NextRows, ZenonT(60)
  <1>11. CASE Ends(s) /\ UNCHANGED <<store, open, busy, running>>
    <2>1. turn[s].at \in Busied
      BY DEF Knowing, Busied
    <2> QED BY <1>11, <2>1, EndsTurn
  <1> QED BY <1>10, <1>11 DEF Persist

-----------------------------------------------------------------------------
(* Each action *)

LEMMA InitInv == ChatInit => ChatInv
PROOF
  <1> SUFFICES ASSUME ChatInit PROVE ChatInv
    OBVIOUS
  <1>1. NewThread \in Thread /\ NewThread.msgs = <<>>
    BY DEF NewThread, Thread
  <1>2. Types
    BY <1>1, IdleTurn DEF ChatInit, Types
  <1>3. \A t \in Threads : Paired(store[t].msgs)
    BY <1>1 DEF ChatInit, Paired
  <1>4. \A s \in Sends : turn[s].at \notin Busied
    BY IdleTurn DEF ChatInit, Busied
  <1> QED BY <1>2, <1>3, <1>4, OutOfTurn DEF ChatInv

\* Steps of the window that leave the turn as it is.
LEMMA SameRows ==
  ASSUME ChatInv, UNCHANGED <<store, busy>>, open' \in Threads \cup {None}, running' \in Sends \cup {None},
         turn' \in [Sends -> Turn],
         \A s \in Sends : TurnOK(turn'[s], store, busy)
  PROVE  ChatInv'
PROOF
  BY DEF ChatInv, Types

LEMMA SendInv ==
  ASSUME ChatInv, OneAtATime, NEW s \in Sends, Send(s)
  PROVE  ChatInv'
PROOF
  <1> DEFINE tr == [turn[s] EXCEPT !.at = "queued"]
  <1>1. turn[s] \in Turn /\ busy \in BOOLEAN /\ open \in Threads \cup {None} /\ running \in Sends \cup {None}
    BY DEF ChatInv, Types
  <1>2. tr \in Turn /\ tr.at \notin Busied
    BY <1>1 DEF Turn, Points, Busied
  <1>3. Becomes(s, tr) /\ UNCHANGED <<store, open, busy, running>>
    BY DEF Send, Becomes
  <1> HIDE DEF tr
  <1>4. TurnOK(tr, store, busy)
    BY <1>2, OutOfTurn
  <1> QED BY <1>1, <1>2, <1>3, <1>4, NextTurn

LEMMA ShowsInv ==
  ASSUME ChatInv, NEW t \in Threads \cup {None}, Shows(t)
  PROVE  ChatInv'
PROOF
  BY DEF Shows, ChatInv, Types

LEMMA ThenNewInv ==
  ASSUME ChatInv, ThenNew
  PROVE  ChatInv'
PROOF
  BY DEF ThenNew, ChatInv, Types

\* A change of rows while nobody is busy.
LEMMA FreeRows ==
  ASSUME ChatInv, ~busy, UNCHANGED <<busy, running, turn>>, open' \in Threads \cup {None},
         NEW t \in Threads, NEW row \in Thread, store' = [store EXCEPT ![t] = row], Paired(row.msgs)
  PROVE  ChatInv'
PROOF
  <1>1. store' \in [Threads -> Thread] /\ store'[t] = row /\ \A u \in Threads \ {t} : store'[u] = store[u]
    BY DEF ChatInv, Types
  <1>2. Types'
    BY <1>1 DEF ChatInv, Types
  <1>3. \A u \in Threads : Paired(store'[u].msgs)
    <2> TAKE u \in Threads
    <2> QED BY <1>1 DEF ChatInv
  <1>4. \A s \in Sends : turn'[s].at \notin Busied
    BY DEF ChatInv, TurnOK
  <1>5. \A s \in Sends : TurnOK(turn'[s], store', busy')
    BY <1>4, OutOfTurn
  <1> QED BY <1>2, <1>3, <1>5 DEF ChatInv

LEMMA ForkInv ==
  ASSUME ChatInv, NEW k \in 1..MaxLen, Fork(k)
  PROVE  ChatInv'
PROOF
  <1> DEFINE ms == SubSeq(store[open].msgs, 1, k)
             row == [is |-> "kept", msgs |-> ms]
  <1>1. ~busy /\ open \in Threads /\ k <= Len(store[open].msgs) /\ UNCHANGED <<busy, running, turn>>
    BY DEF Fork, Kept
  <1>2. PICK t \in Unused : store' = [store EXCEPT ![t] = row] /\ open' = t
    BY DEF Fork
  <1>3. store[open].msgs \in Seq(Message) /\ Paired(store[open].msgs)
    BY <1>1 DEF ChatInv, Types, Thread
  <1>4. k \in 1..Len(store[open].msgs)
    BY <1>1, <1>3
  <1>5. ms \in Seq(Message) /\ Paired(ms)
    BY <1>3, <1>4, Branched
  <1> HIDE DEF ms
  <1>6. row \in Thread /\ row.msgs = ms /\ t \in Threads
    BY <1>5 DEF Thread, Unused
  <1> HIDE DEF row
  <1> QED BY <1>1, <1>2, <1>5, <1>6, FreeRows

LEMMA DeleteInv ==
  ASSUME ChatInv, NEW t \in Threads, Delete(t)
  PROVE  ChatInv'
PROOF
  <1> DEFINE row == [is |-> "deleted", msgs |-> <<>>]
  <1>1. ~busy /\ UNCHANGED <<open, busy, running, turn>> /\ store' = [store EXCEPT ![t] = row]
    BY DEF Delete
  <1>2. row \in Thread /\ Paired(row.msgs)
    BY DEF Thread, Paired
  <1>3. open' \in Threads \cup {None}
    BY <1>1 DEF ChatInv, Types
  <1> HIDE DEF row
  <1> QED BY <1>1, <1>2, <1>3, FreeRows

\* Stop and disposal set flags of token sources.
LEMMA CancelIs ==
  ASSUME ChatInv, NEW s \in Sends
  PROVE  /\ CancelSource[s] \in Turn /\ TurnOK(CancelSource[s], store, busy)
         /\ CancelSource \in [Sends -> Turn]
PROOF
  <1>1. \A r \in Sends : turn[r] \in Turn /\ [turn[r] EXCEPT !.cancelled = TRUE] \in Turn
    BY DEF ChatInv, Types, Turn
  <1>2. CancelSource \in [Sends -> Turn]
    BY <1>1 DEF CancelSource
  <1>3. TurnOK(turn[s], store, busy) /\ turn[s] \in Turn
    BY DEF ChatInv, Types
  <1>4. TurnOK([turn[s] EXCEPT !.cancelled = TRUE], store, busy)
    <2> DEFINE sr == [turn[s] EXCEPT !.cancelled = TRUE]
    <2>1. sr.at = turn[s].at /\ sr.thread = turn[s].thread /\ sr.mode = turn[s].mode
          /\ sr.history = turn[s].history /\ sr.next = turn[s].next /\ sr.left = turn[s].left
      BY <1>3 DEF Turn
    <2> HIDE DEF sr
    <2>2. TurnOK(sr, store, busy)
      BY <1>3, <2>1, SameTurn
    <2> QED BY <2>2 DEF sr
  <1>5. CancelSource[s] \in {turn[s], [turn[s] EXCEPT !.cancelled = TRUE]}
    BY DEF CancelSource
  <1> QED BY <1>2, <1>3, <1>4, <1>5

LEMMA StopInv ==
  ASSUME ChatInv, Stop
  PROVE  ChatInv'
PROOF
  <1>1. turn' = CancelSource /\ UNCHANGED <<store, open, busy, running>>
    BY DEF Stop
  <1>2. \A s \in Sends : CancelSource[s] \in Turn /\ TurnOK(CancelSource[s], store, busy)
    BY CancelIs
  <1>3. CancelSource \in [Sends -> Turn]
    BY <1>2 DEF CancelSource
  <1>4. open \in Threads \cup {None} /\ running \in Sends \cup {None}
    BY DEF ChatInv, Types
  <1> QED BY <1>1, <1>2, <1>3, <1>4, SameRows

LEMMA DisposedTurn ==
  ASSUME NEW tr \in Turn, NEW b \in BOOLEAN, NEW st, NEW c, TurnOK(tr, st, c)
  PROVE  LET sr == [tr EXCEPT !.disposed = b] IN sr \in Turn /\ TurnOK(sr, st, c)
PROOF
  <1> DEFINE sr == [tr EXCEPT !.disposed = b]
  <1>1. /\ sr \in Turn /\ sr.at = tr.at /\ sr.thread = tr.thread /\ sr.mode = tr.mode
        /\ sr.history = tr.history /\ sr.next = tr.next /\ sr.left = tr.left
    BY DEF Turn
  <1> HIDE DEF sr
  <1>2. TurnOK(sr, st, c)
    BY <1>1, SameTurn
  <1> QED BY <1>1, <1>2 DEF sr

LEMMA DisposeInv ==
  ASSUME ChatInv, Dispose
  PROVE  ChatInv'
PROOF
  <1>1. /\ turn' = [s \in Sends |-> [CancelSource[s] EXCEPT !.disposed = @ \/ s = running]]
        /\ UNCHANGED <<store, open, busy>> /\ running' = None
    BY DEF Dispose
  <1>2. ASSUME NEW s \in Sends
        PROVE  turn'[s] \in Turn /\ TurnOK(turn'[s], store, busy)
    <2>1. CancelSource[s] \in Turn /\ TurnOK(CancelSource[s], store, busy)
      BY CancelIs
    <2> DEFINE tr == CancelSource[s]
               b == tr.disposed \/ s = running
    <2>2. turn'[s] = [tr EXCEPT !.disposed = b]
      BY <1>1
    <2>3. b \in BOOLEAN
      OBVIOUS
    <2> HIDE DEF b
    <2>4. tr \in Turn /\ TurnOK(tr, store, busy)
      BY <2>1
    <2> HIDE DEF tr
    <2> QED BY <2>2, <2>3, <2>4, DisposedTurn
  <1>3. turn' \in [Sends -> Turn]
    <2>1. turn' = [s \in Sends |-> turn'[s]]
      BY <1>1
    <2> QED BY <2>1, <1>2
  <1>4. open' \in Threads \cup {None} /\ running' \in Sends \cup {None}
    BY <1>1 DEF ChatInv, Types
  <1> QED BY <1>1, <1>2, <1>3, <1>4, SameRows

LEMMA RestartInv ==
  ASSUME ChatInv, Restart
  PROVE  ChatInv'
PROOF
  <1>1. UNCHANGED store /\ turn' = [s \in Sends |-> Idle] /\ open' = None /\ busy' = FALSE /\ running' = None
    BY DEF Restart
  <1>2. Types'
    BY <1>1, IdleTurn DEF ChatInv, Types
  <1>3. \A s \in Sends : turn'[s].at \notin Busied
    BY <1>1, IdleTurn DEF Busied
  <1>4. \A s \in Sends : TurnOK(turn'[s], store', busy')
    BY <1>3, OutOfTurn
  <1> QED BY <1>1, <1>2, <1>4 DEF ChatInv

LEMMA EnterInv ==
  ASSUME ChatInv, OneAtATime, NEW s \in Sends, Enter(s)
  PROVE  ChatInv'
PROOF
  <1> DEFINE cr == [turn[s] EXCEPT !.at = "checked"]
             tr == IF busy THEN Idle ELSE cr
  <1>1. turn[s] \in Turn /\ busy \in BOOLEAN /\ open \in Threads \cup {None} /\ running \in Sends \cup {None}
    BY DEF ChatInv, Types
  <1>2. cr \in Turn /\ cr.at \notin Busied
    BY <1>1 DEF Turn, Points, Busied
  <1>3. Becomes(s, tr) /\ UNCHANGED <<store, open, busy, running>>
    BY DEF Enter
  <1> HIDE DEF cr
  <1>4. tr \in Turn /\ tr.at \notin Busied
    BY <1>2, IdleTurn DEF Busied
  <1> HIDE DEF tr
  <1>5. TurnOK(tr, store, busy)
    BY <1>4, OutOfTurn
  <1> QED BY <1>1, <1>3, <1>4, <1>5, NextTurn

LEMMA BeginsInv ==
  ASSUME ChatInv, OneAtATime, NEW s \in Sends, Begins(s)
  PROVE  ChatInv'
PROOF
  <1> DEFINE tr == [turn[s] EXCEPT !.at = "busy"]
  <1>1. turn[s] \in Turn /\ open \in Threads \cup {None} /\ running \in Sends \cup {None}
    BY DEF ChatInv, Types
  <1>2. tr \in Turn /\ tr.at = "busy"
    BY <1>1 DEF Turn, Points
  <1>3. Becomes(s, tr) /\ UNCHANGED <<store, open, running>> /\ busy' = TRUE
    BY DEF Begins
  <1> HIDE DEF tr
  <1>4. TurnOK(tr, store, TRUE)
    BY <1>2 DEF TurnOK, Known, Owed, InThread, Knowing
  <1> QED BY <1>1, <1>2, <1>3, <1>4, NextTurn

LEMMA TakesSourceInv ==
  ASSUME ChatInv, OneAtATime, NEW s \in Sends, TakesSource(s)
  PROVE  ChatInv'
PROOF
  <1> DEFINE tr == [Idle EXCEPT !.at = "began"]
  <1>1. tr \in Turn /\ tr.at = "began"
    BY IdleTurn DEF Turn, Points
  <1>2. Becomes(s, tr) /\ UNCHANGED <<store, open, busy>> /\ running' = s /\ open \in Threads \cup {None}
    BY DEF TakesSource, ChatInv, Types
  <1>3. busy = TRUE
    BY DEF TakesSource, ChatInv, Types, TurnOK, Busied
  <1> HIDE DEF tr
  <1>4. TurnOK(tr, store, TRUE)
    BY <1>1 DEF TurnOK, Known, Owed, InThread, Knowing
  <1> QED BY <1>1, <1>2, <1>3, <1>4, NextTurn

LEMMA StoresLineInv ==
  ASSUME ChatInv, OneAtATime, NEW s \in Sends, StoresLine(s)
  PROVE  ChatInv'
PROOF
  <1>1. turn[s].at = "began" /\ UNCHANGED <<busy, running>> /\ turn[s] \in Turn
    BY DEF StoresLine, ChatInv, Types
  <1>2. busy = TRUE
    BY <1>1 DEF ChatInv, Types, TurnOK, Busied
  <1>3. ASSUME NEW t \in Threads, store' = [store EXCEPT ![t] = [is |-> "kept", msgs |-> Append(@.msgs, UserMessage)]], open' = t,
               Becomes(s, [turn[s] EXCEPT !.at = "stored", !.thread = t])
        PROVE  ChatInv'
    <2> DEFINE ms == Append(store[t].msgs, UserMessage)
               row == [is |-> "kept", msgs |-> ms]
               tr == [turn[s] EXCEPT !.at = "stored", !.thread = t]
    <2>1. store[t].msgs \in Seq(Message) /\ Paired(store[t].msgs)
      BY DEF ChatInv, Types, Thread
    <2>2. ms \in Seq(Message) /\ Paired(ms)
      BY <2>1, Kinds, PairedLine
    <2>3. store' = [store EXCEPT ![t] = row]
      BY <1>3
    <2> HIDE DEF ms
    <2>4. row \in Thread /\ row.msgs = ms
      BY <2>2 DEF Thread
    <2>5. tr \in Turn /\ tr.at = "stored" /\ tr.thread = t
      BY <1>1 DEF Turn, Points
    <2>6. Becomes(s, tr)
      BY <1>3
    <2> HIDE DEF row, tr
    <2>7. TurnOK(tr, store', busy)
      BY <1>2, <2>5 DEF TurnOK, Known, Owed, Knowing
    <2>8. open' \in Threads \cup {None}
      BY <1>3
    <2> QED BY <1>1, <2>2, <2>3, <2>4, <2>5, <2>6, <2>7, <2>8, NextRows
  <1>4. CASE Ends(s) /\ UNCHANGED <<store, open>>
    BY <1>1, <1>4, EndsTurn DEF Busied
  <1>5. \/ \E t \in IF open = None THEN Unused ELSE {open} :
             /\ open = None \/ Kept(t)
             /\ store' = [store EXCEPT ![t] = [is |-> "kept", msgs |-> Append(@.msgs, UserMessage)]]
             /\ open' = t
             /\ Becomes(s, [turn[s] EXCEPT !.at = "stored", !.thread = t])
        \/ Ends(s) /\ UNCHANGED <<store, open>>
    BY DEF StoresLine
  <1>6. ASSUME NEW t \in IF open = None THEN Unused ELSE {open}, open = None \/ Kept(t)
        PROVE  t \in Threads
    BY <1>6 DEF Unused, Kept
  <1> QED BY <1>3, <1>4, <1>5, <1>6

LEMMA LoadsInv ==
  ASSUME ChatInv, OneAtATime, NEW s \in Sends, Loads(s)
  PROVE  ChatInv'
PROOF
  <1> DEFINE ms == store[turn[s].thread].msgs
             history == Window(ms)
             tr == [turn[s] EXCEPT !.at = "loaded", !.history = history, !.next = Len(history) + 1]
  <1>1. /\ turn[s].at = "stored" /\ UNCHANGED <<store, open, busy, running>> /\ turn[s] \in Turn /\ Becomes(s, tr)
        /\ TurnOK(turn[s], store, busy) /\ busy \in BOOLEAN /\ open \in Threads \cup {None} /\ running \in Sends \cup {None}
    BY DEF Loads, ChatInv, Types
  <1>2. busy = TRUE /\ turn[s].thread \in Threads
    BY <1>1 DEF TurnOK, Busied, InThread
  <1>3. ms \in Seq(Message) /\ Paired(ms)
    BY <1>2 DEF ChatInv, Types, Thread
  <1>4. history \in Seq(Message) /\ Paired(history) /\ EndsIn(ms, history, Len(history))
    <2>1. HistoryWindow \in Nat
      BY ChatAssumption
    <2> HIDE DEF ms
    <2> QED BY <1>3, <2>1, Windowed
  <1>5. Len(history) \in Nat
    BY <1>4
  <1> HIDE DEF history
  <1>6. /\ tr \in Turn /\ tr.at = "loaded" /\ tr.history = history /\ tr.next = Len(history) + 1
        /\ tr.thread = turn[s].thread
    <2>1. "loaded" \in Points /\ Len(history) + 1 \in Nat
      BY <1>5 DEF Points
    <2> HIDE DEF ms
    <2>2. tr \in Turn
      BY <1>1, <1>4, <2>1 DEF Turn
    <2>3. tr.at = "loaded" /\ tr.history = history /\ tr.next = Len(history) + 1
      BY <1>1 DEF Turn
    <2>4. tr.thread = turn[s].thread
      BY <1>1 DEF Turn
    <2> QED BY <2>2, <2>3, <2>4
  <1> HIDE DEF tr
  <1>7. Known(tr, store)
    <2>1. tr.next - 1 = Len(history) /\ tr.next \in 1..(Len(history) + 1) /\ tr.next >= Len(history)
      BY <1>5, <1>6
    <2>2. EndsIn(store[tr.thread].msgs, tr.history, tr.next - 1)
      BY <1>4, <1>6, <2>1
    <2> QED BY <1>4, <1>6, <2>1, <2>2 DEF Known
  <1>8. TurnOK(tr, store, TRUE)
    BY <1>2, <1>6, <1>7 DEF TurnOK, Owed
  <1> QED BY <1>1, <1>2, <1>6, <1>8, NextTurn

LEMMA StartsInv ==
  ASSUME ChatInv, OneAtATime, NEW s \in Sends, Starts(s)
  PROVE  ChatInv'
PROOF
  <1>1. /\ turn[s].at = "loaded" /\ UNCHANGED <<store, open, busy, running>> /\ turn[s] \in Turn
        /\ TurnOK(turn[s], store, busy) /\ busy \in BOOLEAN /\ open \in Threads \cup {None} /\ running \in Sends \cup {None}
    BY DEF Starts, ChatInv, Types
  <1>2. ASSUME NEW mode \in Modes, running # None,
               Becomes(s, [turn[s] EXCEPT !.at = "asking", !.mode = mode, !.token = running])
        PROVE  ChatInv'
    <2> DEFINE tr == [turn[s] EXCEPT !.at = "asking", !.mode = mode, !.token = running]
    <2>1. mode \in {"native", "prompted", "none"}
      BY ChatAssumption
    <2>2. /\ tr \in Turn /\ tr.at = "asking" /\ tr.history = turn[s].history /\ tr.next = turn[s].next
          /\ tr.thread = turn[s].thread
      BY <1>1, <2>1 DEF Turn, Points
    <2>3. Becomes(s, tr)
      BY <1>2
    <2> HIDE DEF tr
    <2>4. TurnOK(tr, store, busy)
      BY <1>1, <2>2 DEF TurnOK, Known, Owed, Busied, InThread, Knowing
    <2> QED BY <1>1, <2>2, <2>3, <2>4, NextTurn
  <1>3. CASE Ends(s)
    BY <1>1, <1>3, EndsTurn DEF Busied
  <1> QED BY <1>2, <1>3 DEF Starts

LEMMA UnsupportedInv ==
  ASSUME ChatInv, OneAtATime, NEW s \in Sends, Unsupported(s)
  PROVE  ChatInv'
PROOF
  <1> DEFINE tr == [turn[s] EXCEPT !.mode = "prompted"]
  <1>1. /\ turn[s].at = "asking" /\ UNCHANGED <<store, open, busy, running>> /\ turn[s] \in Turn /\ Becomes(s, tr)
        /\ TurnOK(turn[s], store, busy) /\ busy \in BOOLEAN /\ open \in Threads \cup {None} /\ running \in Sends \cup {None}
    BY DEF Unsupported, ChatInv, Types
  <1>2. /\ tr \in Turn /\ tr.at = "asking" /\ tr.history = turn[s].history /\ tr.next = turn[s].next
        /\ tr.thread = turn[s].thread
    BY <1>1 DEF Turn
  <1> HIDE DEF tr
  <1>3. TurnOK(tr, store, busy)
    BY <1>1, <1>2 DEF TurnOK, Known, Owed
  <1> QED BY <1>1, <1>2, <1>3, NextTurn

\* The history of a turn that goes on, with one more message.
LEMMA Longer ==
  ASSUME ChatInv, NEW s \in Sends, turn[s].at \in Knowing, NEW m \in Message
  PROVE  /\ turn[s] \in Turn /\ turn[s].history \in Seq(Message) /\ Paired(turn[s].history)
         /\ Len(turn[s].history) \in Nat /\ turn[s].next \in 1..(Len(turn[s].history) + 1)
         /\ Append(turn[s].history, m) \in Seq(Message) /\ Len(Append(turn[s].history, m)) = Len(turn[s].history) + 1
         /\ turn[s].next \in 1..(Len(Append(turn[s].history, m)) + 1)
         /\ \A i \in 1..(turn[s].next - 1) : Append(turn[s].history, m)[i] = turn[s].history[i]
PROOF
  <1>1. turn[s] \in Turn /\ TurnOK(turn[s], store, busy)
    BY DEF ChatInv, Types
  <1>2. turn[s].history \in Seq(Message) /\ Paired(turn[s].history) /\ turn[s].next \in 1..(Len(turn[s].history) + 1)
    BY <1>1, TurnFields DEF TurnOK, Known
  <1> DEFINE h == turn[s].history
             ns == Append(h, m)
  <1>3. ns \in Seq(Message) /\ Len(ns) = Len(h) + 1 /\ Len(h) \in Nat /\ \A i \in 1..Len(h) : ns[i] = h[i]
    <2>1. h \in Seq(Message)
      BY <1>2
    <2> HIDE DEF h
    <2> QED BY <2>1, Appended
  <1> HIDE DEF ns
  <1>4. h = turn[s].history
    OBVIOUS
  <1> HIDE DEF h
  <1>5. turn[s].next \in 1..(Len(ns) + 1)
    BY <1>2, <1>3, <1>4
  <1>6. \A i \in 1..(turn[s].next - 1) : ns[i] = h[i]
    BY <1>2, <1>3, <1>4
  <1> QED BY <1>1, <1>2, <1>3, <1>4, <1>5, <1>6 DEF ns

LEMMA AnswersInv ==
  ASSUME ChatInv, OneAtATime, NEW s \in Sends, AnswersUser(s)
  PROVE  ChatInv'
PROOF
  <1> DEFINE h == Append(turn[s].history, AssistantMessage(0))
             tr == [turn[s] EXCEPT !.at = "ending", !.history = Append(@, AssistantMessage(0))]
  <1>1. turn[s].at = "asking" /\ turn[s].at \in Knowing /\ Persist(s, tr)
    BY DEF AnswersUser, Knowing
  <1>2. AssistantMessage(0) \in Message /\ AssistantMessage(0).role # "tool"
    BY Kinds
  <1>3. /\ turn[s] \in Turn /\ turn[s].history \in Seq(Message) /\ Paired(turn[s].history)
        /\ h \in Seq(Message) /\ turn[s].next \in 1..(Len(h) + 1)
        /\ \A i \in 1..(turn[s].next - 1) : h[i] = turn[s].history[i]
    BY <1>1, <1>2, Longer
  <1>4. Paired(h)
    BY <1>2, <1>3, PairedLine
  <1>5. tr = [turn[s] EXCEPT !.at = "ending", !.history = h]
    OBVIOUS
  <1> HIDE DEF h
  <1>6. tr \in Turn /\ tr.at = "ending" /\ tr.history = h /\ tr.next = turn[s].next /\ tr.thread = turn[s].thread
    BY <1>3, <1>5 DEF Turn, Points
  <1> HIDE DEF tr
  <1>7. Owed(tr)
    BY <1>6 DEF Owed
  <1>8. /\ tr.next \in 1..(Len(tr.history) + 1) /\ Paired(tr.history)
        /\ \A i \in 1..(tr.next - 1) : tr.history[i] = turn[s].history[i]
    BY <1>3, <1>4, <1>6
  <1> QED BY <1>1, <1>6, <1>7, <1>8, Persists

LEMMA CallsToolsInv ==
  ASSUME ChatInv, OneAtATime, NEW s \in Sends, NEW n \in CallCounts, CallsTools(s, n)
  PROVE  ChatInv'
PROOF
  <1> DEFINE calls == IF turn[s].mode = "prompted" THEN 0 ELSE n
             m == AssistantMessage(calls)
             h == Append(turn[s].history, m)
             tr == [turn[s] EXCEPT !.at = "calling", !.left = n,
                      !.history = Append(@, AssistantMessage(IF turn[s].mode = "prompted" THEN 0 ELSE n))]
  <1>1. turn[s].at = "asking" /\ turn[s].at \in Knowing /\ Persist(s, tr) /\ n \in Nat \ {0}
    BY ChatAssumption DEF CallsTools, Knowing
  <1>2. m \in Message /\ m.role = "assistant" /\ m.n = calls
    <2>1. calls \in Nat
      BY <1>1
    <2> HIDE DEF calls
    <2> QED BY <2>1, Kinds
  <1>3. /\ turn[s] \in Turn /\ turn[s].history \in Seq(Message) /\ Paired(turn[s].history) /\ Len(turn[s].history) \in Nat
        /\ h \in Seq(Message) /\ turn[s].next \in 1..(Len(h) + 1) /\ Len(h) = Len(turn[s].history) + 1
        /\ \A i \in 1..(turn[s].next - 1) : h[i] = turn[s].history[i]
    <2> HIDE DEF m
    <2> QED BY <1>1, <1>2, Longer
  <1>4. Paired(h)
    <2> HIDE DEF m
    <2> QED BY <1>2, <1>3, PairedLine
  <1>5. tr = [turn[s] EXCEPT !.at = "calling", !.left = n, !.history = h]
    OBVIOUS
  <1>6. h[Len(h)] = m
    <2> HIDE DEF m
    <2> QED BY <1>2, <1>3, Appended
  <1> HIDE DEF h, m
  <1>7. /\ tr \in Turn /\ tr.at = "calling" /\ tr.history = h /\ tr.next = turn[s].next /\ tr.thread = turn[s].thread
        /\ tr.left = n /\ tr.mode = turn[s].mode
    <2>1. "calling" \in Points /\ n \in Int /\ turn[s] \in Turn
      BY <1>1, <1>3 DEF Points
    <2> DEFINE sr == [turn[s] EXCEPT !.at = "calling", !.left = n, !.history = h]
    <2>2. sr \in Turn
      BY <1>3, <2>1 DEF Turn
    <2>3. sr.at = "calling" /\ sr.history = h /\ sr.left = n
      BY <2>1 DEF Turn
    <2>4. sr.next = turn[s].next /\ sr.thread = turn[s].thread /\ sr.mode = turn[s].mode
      BY <2>1 DEF Turn
    <2>5. tr = sr
      BY <1>5
    <2> HIDE DEF tr, sr
    <2> QED BY <2>2, <2>3, <2>4, <2>5
  <1> HIDE DEF tr
  <1>8. Owed(tr)
    <2>1. ASSUME tr.mode # "prompted" PROVE Waits(h, n)
      <3>1. m.n = n
        BY <1>2, <1>7, <2>1
      <3>2. Len(h) \in DOMAIN h /\ h[Len(h)].role = "assistant" /\ h[Len(h)].n = n + Len(h) - Len(h)
        BY <1>1, <1>2, <1>3, <1>6, <3>1
      <3>3. \A k \in (Len(h) + 1)..Len(h) : h[k].role = "tool"
        BY <1>3
      <3> QED BY <3>2, <3>3 DEF Waits
    <2> QED BY <1>1, <1>7, <2>1 DEF Owed
  <1>9. /\ tr.next \in 1..(Len(tr.history) + 1) /\ Paired(tr.history)
        /\ \A i \in 1..(tr.next - 1) : tr.history[i] = turn[s].history[i]
    BY <1>3, <1>4, <1>7
  <1> QED BY <1>1, <1>7, <1>8, <1>9, Persists

LEMMA CallEndsInv ==
  ASSUME ChatInv, OneAtATime, NEW s \in Sends, CallEnds(s)
  PROVE  ChatInv'
PROOF
  <1> DEFINE m == ToolMessage(turn[s].mode)
             h == Append(turn[s].history, m)
             left == turn[s].left - 1
             tr == [turn[s] EXCEPT !.history = Append(@, ToolMessage(turn[s].mode)), !.left = @ - 1]
  <1>1. turn[s].at = "calling" /\ turn[s].at \in Knowing
    BY DEF CallEnds, Knowing
  <1>2. m \in Message /\ (turn[s].mode # "prompted" => m.role = "tool") /\ (turn[s].mode = "prompted" => m.role # "tool")
    BY Kinds
  <1>3. /\ turn[s] \in Turn /\ turn[s].history \in Seq(Message) /\ Paired(turn[s].history) /\ Len(turn[s].history) \in Nat
        /\ h \in Seq(Message) /\ Len(h) = Len(turn[s].history) + 1 /\ turn[s].next \in 1..(Len(h) + 1)
        /\ turn[s].next \in 1..(Len(turn[s].history) + 1)
        /\ \A i \in 1..(turn[s].next - 1) : h[i] = turn[s].history[i]
    <2> HIDE DEF m
    <2> QED BY <1>1, <1>2, Longer
  <1>4. /\ TurnOK(turn[s], store, busy) /\ busy \in BOOLEAN /\ open \in Threads \cup {None} /\ running \in Sends \cup {None}
        /\ turn[s].left \in Int
    BY <1>3, TurnFields DEF ChatInv, Types
  <1>5. turn[s].left \in Nat /\ turn[s].left >= 1 /\ left \in Nat
    BY <1>1, <1>4 DEF TurnOK, Owed
  <1>6. Paired(h) /\ (turn[s].mode # "prompted" => Waits(h, left))
    <2>1. CASE turn[s].mode = "prompted"
      <3> HIDE DEF m
      <3> QED BY <1>2, <1>3, <2>1, PairedLine
    <2>2. CASE turn[s].mode # "prompted"
      <3>1. Waits(turn[s].history, turn[s].left)
        BY <1>1, <1>4, <2>2 DEF TurnOK, Owed
      <3> HIDE DEF m
      <3> QED BY <1>2, <1>3, <1>5, <2>2, <3>1, PairedResult
    <2> QED BY <2>1, <2>2
  <1>7. tr = [turn[s] EXCEPT !.history = h, !.left = left]
    OBVIOUS
  <1> HIDE DEF h, m
  <1>8. tr \in Turn /\ tr.at = "calling" /\ tr.history = h /\ tr.left = left
    <2>1. left \in Int
      BY <1>5
    <2> HIDE DEF left, tr
    <2> QED BY <1>1, <1>3, <1>7, <2>1 DEF Turn
  <1>9. tr.next = turn[s].next /\ tr.thread = turn[s].thread /\ tr.mode = turn[s].mode /\ tr.step = turn[s].step
    <2> HIDE DEF left, tr
    <2> QED BY <1>3, <1>7 DEF Turn
  <1>10. /\ tr.left > 0 /\ Persist(s, tr)
         \/ /\ tr.left = 0 /\ tr.step + 1 = MaxAgentSteps
            /\ Persist(s, [tr EXCEPT !.step = @ + 1, !.at = "ending"])
         \/ /\ tr.left = 0 /\ tr.step + 1 < MaxAgentSteps
            /\ Becomes(s, [tr EXCEPT !.step = @ + 1, !.at = "asking"])
            /\ UNCHANGED <<store, open, busy, running, ui, gone>>
    BY DEF CallEnds
  <1> HIDE DEF tr, left
  <1>11. CASE tr.left > 0 /\ Persist(s, tr)
    <2>1. Owed(tr)
      <3>1. tr.left >= 1
        BY <1>5, <1>8, <1>11
      <3> QED BY <1>6, <1>8, <1>9, <3>1 DEF Owed
    <2>2. /\ tr.next \in 1..(Len(tr.history) + 1) /\ Paired(tr.history)
          /\ \A i \in 1..(tr.next - 1) : tr.history[i] = turn[s].history[i]
      BY <1>3, <1>6, <1>8, <1>9
    <2> QED BY <1>1, <1>8, <1>9, <1>11, <2>1, <2>2, Persists
  <1>12. CASE Persist(s, [tr EXCEPT !.step = @ + 1, !.at = "ending"])
    <2> DEFINE sr == [tr EXCEPT !.step = @ + 1, !.at = "ending"]
    <2>1. sr \in Turn /\ sr.at = "ending"
      <3>1. tr \in Turn /\ tr.step + 1 \in Nat /\ "ending" \in Points
        BY <1>8, TurnFields DEF Points
      <3>2. sr.at = "ending"
        BY <3>1 DEF Turn
      <3>3. sr \in Turn
        BY <3>1 DEF Turn
      <3> QED BY <3>2, <3>3
    <2>2. sr.history = h /\ sr.next = turn[s].next /\ sr.thread = turn[s].thread
      BY <1>8, <1>9 DEF Turn
    <2>3. Persist(s, sr)
      BY <1>12
    <2> HIDE DEF sr
    <2>4. Owed(sr)
      BY <2>1 DEF Owed
    <2>5. /\ sr.next \in 1..(Len(sr.history) + 1) /\ Paired(sr.history)
          /\ \A i \in 1..(sr.next - 1) : sr.history[i] = turn[s].history[i]
      BY <1>3, <1>6, <2>2
    <2> QED BY <1>1, <2>1, <2>2, <2>3, <2>4, <2>5, Persists
  <1>13. CASE Becomes(s, [tr EXCEPT !.step = @ + 1, !.at = "asking"]) /\ UNCHANGED <<store, open, busy, running, ui, gone>>
    <2> DEFINE sr == [tr EXCEPT !.step = @ + 1, !.at = "asking"]
    <2>1. sr \in Turn /\ sr.at = "asking"
      <3>1. tr \in Turn /\ tr.step + 1 \in Nat /\ "asking" \in Points
        BY <1>8, TurnFields DEF Points
      <3>2. sr.at = "asking"
        BY <3>1 DEF Turn
      <3>3. sr \in Turn
        BY <3>1 DEF Turn
      <3> QED BY <3>2, <3>3
    <2>2. sr.history = h /\ sr.next = turn[s].next /\ sr.thread = turn[s].thread
      BY <1>8, <1>9 DEF Turn
    <2>3. Becomes(s, sr)
      BY <1>13
    <2> HIDE DEF sr
    <2>4. sr.next >= Len(sr.history) /\ sr.next \in 1..(Len(sr.history) + 1)
      <3>1. turn[s].next = Len(turn[s].history) + 1
        BY <1>1, <1>4 DEF TurnOK, Known, Knowing
      <3> QED BY <1>3, <2>2, <3>1
    <2>5. EndsIn(store[sr.thread].msgs, sr.history, sr.next - 1)
      <3>1. EndsIn(store[turn[s].thread].msgs, turn[s].history, turn[s].next - 1)
        BY <1>1, <1>4 DEF TurnOK, Known
      <3> QED BY <1>3, <2>2, <3>1 DEF EndsIn
    <2>6. Known(sr, store)
      BY <1>6, <2>1, <2>2, <2>4, <2>5 DEF Known
    <2>7. TurnOK(sr, store, busy)
      <3>1. busy = TRUE /\ turn[s].thread \in Threads
        BY <1>1, <1>4 DEF TurnOK, Busied, InThread
      <3> QED BY <2>1, <2>2, <2>6, <3>1 DEF TurnOK, Owed
    <2> QED BY <1>4, <1>13, <2>1, <2>3, <2>7, NextTurn
  <1> QED BY <1>10, <1>11, <1>12, <1>13

LEMMA StopsInv ==
  ASSUME ChatInv, OneAtATime, NEW s \in Sends, Fails(s) \/ Cancels(s)
  PROVE  ChatInv'
PROOF
  <1>1. turn[s].at \in Busied /\ Ends(s) /\ UNCHANGED <<store, open, busy, running>>
    BY DEF Fails, Cancels, Underway, Busied
  <1> QED BY <1>1, EndsTurn

LEMMA FreesInv ==
  ASSUME ChatInv, OneAtATime, NEW s \in Sends, Frees(s)
  PROVE  ChatInv'
PROOF
  <1> DEFINE tr == [turn[s] EXCEPT !.at = "freed"]
  <1>1. turn[s] \in Turn /\ open \in Threads \cup {None} /\ running \in Sends \cup {None}
    BY DEF ChatInv, Types
  <1>2. tr \in Turn /\ tr.at \notin Busied
    BY <1>1 DEF Turn, Points, Busied
  <1>3. Becomes(s, tr) /\ UNCHANGED <<store, open, running>> /\ busy' = FALSE
    BY DEF Frees
  <1> HIDE DEF tr
  <1>4. TurnOK(tr, store, FALSE)
    BY <1>2, OutOfTurn
  <1> QED BY <1>1, <1>2, <1>3, <1>4, NextTurn

LEMMA DisposesSourceInv ==
  ASSUME ChatInv, OneAtATime, NEW s \in Sends, DisposesSource(s)
  PROVE  ChatInv'
PROOF
  <1> DEFINE b == turn[s].disposed \/ s = running
             dr == [turn[s] EXCEPT !.disposed = b]
             tr == [turn[s] EXCEPT !.at = "disposed", !.disposed = b]
  <1>1. turn[s] \in Turn /\ open \in Threads \cup {None} /\ running \in Sends \cup {None} /\ busy \in BOOLEAN
    BY DEF ChatInv, Types
  <1>2. UNCHANGED <<store, open, busy, running>>
        /\ turn' = [r \in Sends |-> [turn[r] EXCEPT !.at = IF r = s THEN "disposed" ELSE @, !.disposed = @ \/ r = running]]
    BY DEF DisposesSource
  <1>3. turn'[s] = tr
    BY <1>2
  <1>4. b \in BOOLEAN
    OBVIOUS
  <1> HIDE DEF b
  <1>5. tr \in Turn /\ tr.at \notin Busied
    BY <1>1, <1>4 DEF Turn, Points, Busied
  <1> HIDE DEF tr
  <1>6. turn' = [r \in Sends |-> turn'[r]]
    BY <1>2
  <1>7. \A r \in Sends : turn'[r] = tr
    BY <1>3 DEF OneAtATime
  <1>8. turn' \in [Sends -> Turn]
    BY <1>5, <1>6, <1>7
  <1>9. \A r \in Sends : TurnOK(turn'[r], store, busy)
    BY <1>5, <1>7, OutOfTurn
  <1>10. open' \in Threads \cup {None} /\ running' \in Sends \cup {None} /\ UNCHANGED <<store, busy>>
    BY <1>1, <1>2
  <1> QED BY <1>8, <1>9, <1>10, SameRows

LEMMA ClearsInv ==
  ASSUME ChatInv, OneAtATime, NEW s \in Sends, Clears(s)
  PROVE  ChatInv'
PROOF
  <1> DEFINE tr == [Idle EXCEPT !.cancelled = turn[s].cancelled]
  <1>1. open \in Threads \cup {None} /\ busy \in BOOLEAN /\ turn[s].cancelled \in BOOLEAN
    BY TurnFields DEF ChatInv, Types
  <1>2. tr \in Turn /\ tr.at \notin Busied
    BY <1>1, IdleTurn DEF Turn, Busied
  <1>3. Becomes(s, tr) /\ UNCHANGED <<store, open, busy>> /\ running' = None
    BY DEF Clears
  <1> HIDE DEF tr
  <1>4. TurnOK(tr, store, busy)
    BY <1>2, OutOfTurn
  <1> QED BY <1>1, <1>2, <1>3, <1>4, NextTurn

LEMMA NextInv ==
  ASSUME ChatInv, OneAtATime, [ChatNext]_chatVars
  PROVE  ChatInv'
PROOF
  <1>1. ASSUME NEW s \in Sends, Send(s) \/ Proceeds(s) \/ AgentLoop(s)
        PROVE  ChatInv'
    BY <1>1, SendInv, EnterInv, BeginsInv, TakesSourceInv, StoresLineInv, LoadsInv, StartsInv, UnsupportedInv, AnswersInv,
       CallsToolsInv, CallEndsInv, StopsInv, FreesInv, DisposesSourceInv, ClearsInv
       DEF Proceeds, AgentLoop
  <1>2. CASE ChatWindow
    <2>1. None \in Threads \cup {None} /\ \A t \in Threads : t \in Threads \cup {None}
      OBVIOUS
    <2> QED BY <1>2, <2>1, StopInv, DisposeInv, ThenNewInv, DeleteInv, ShowsInv DEF ChatWindow
  <1>3. CASE \E k \in 1..MaxLen : Fork(k)
    BY <1>3, ForkInv
  <1>4. CASE Restart
    BY <1>4, RestartInv
  <1>5. CASE UNCHANGED chatVars
    BY <1>5 DEF chatVars, ChatInv, Types
  <1> QED BY <1>1, <1>2, <1>3, <1>4, <1>5 DEF ChatNext

-----------------------------------------------------------------------------
(* What follows *)

LEMMA InvStored == ChatInv => StoredAsItHappens
PROOF
  <1> SUFFICES ASSUME ChatInv, NEW s \in Sends, Underway(s)
               PROVE  /\ Len(turn[s].history) + 1 - turn[s].next <= IF turn[s].at = "calling" THEN 0 ELSE 1
                      /\ IsSuffix(SubSeq(turn[s].history, 1, turn[s].next - 1), store[turn[s].thread].msgs)
    BY DEF StoredAsItHappens
  <1>1. turn[s] \in Turn /\ TurnOK(turn[s], store, busy) /\ turn[s].at \in {"asking", "calling"}
    BY DEF ChatInv, Types, Underway
  <1>2. turn[s].thread \in Threads /\ Known(turn[s], store) /\ turn[s].at \in Knowing
    BY <1>1 DEF TurnOK, InThread, Knowing
  <1>3. /\ turn[s].history \in Seq(Message) /\ turn[s].next \in 1..(Len(turn[s].history) + 1)
        /\ EndsIn(store[turn[s].thread].msgs, turn[s].history, turn[s].next - 1)
        /\ Len(turn[s].history) \in Nat
        /\ turn[s].at # "asking" => turn[s].next = Len(turn[s].history) + 1
        /\ turn[s].next >= Len(turn[s].history)
    BY <1>1, <1>2, TurnFields DEF Known
  <1>4. store[turn[s].thread].msgs \in Seq(Message) /\ turn[s].next - 1 \in 0..Len(turn[s].history)
    BY <1>2, <1>3 DEF ChatInv, Types, Thread
  <1>5. Len(turn[s].history) + 1 - turn[s].next <= IF turn[s].at = "calling" THEN 0 ELSE 1
    BY <1>1, <1>3
  <1>6. IsSuffix(SubSeq(turn[s].history, 1, turn[s].next - 1), store[turn[s].thread].msgs)
    BY <1>3, <1>4, SuffixByEnd
  <1> QED BY <1>5, <1>6

LEMMA InvPaired == ChatInv => ResultsHaveCalls
PROOF
  BY DEF ChatInv, ResultsHaveCalls, Paired, TurnOK, Known, Knowing

\* While a turn runs, its thread ends in all of it but the last message, and in all of it
\* while a tool runs (OnEvent, Persist, Window), whatever is stopped, refused, deleted,
\* branched or killed, as long as no message is sent past the check of Busy meanwhile.
THEOREM Stored ==
  ASSUME OneAtATime
  PROVE  ChatSpec => []StoredAsItHappens
PROOF
  <1>1. ChatInv /\ [ChatNext]_chatVars => ChatInv'
    BY NextInv
  <1> QED BY InitInv, InvStored, <1>1, PTL DEF ChatSpec

\* No thread, and nothing sent to the model, has a native result without its call, under
\* the same assumption.
THEOREM CallsKept ==
  ASSUME OneAtATime
  PROVE  ChatSpec => []ResultsHaveCalls
PROOF
  <1>1. ChatInv /\ [ChatNext]_chatVars => ChatInv'
    BY NextInv
  <1> QED BY InitInv, InvPaired, <1>1, PTL DEF ChatSpec
=============================================================================
