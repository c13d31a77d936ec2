--------------------------- MODULE ToolCallsProofs ---------------------------
(***************************************************************************)
(* Proofs about ToolCalls for every set of tools, front ends and threads,  *)
(* and any number of commands, texts and forms.                            *)
(***************************************************************************)
EXTENDS ToolCalls, FiniteSetTheorems, WellFoundedInduction, TLAPS

-----------------------------------------------------------------------------
(* Nonces *)

LEMMA Numbers ==
  /\ Commands \in Nat /\ Commands > 0 /\ MaxNote \in Nat /\ MaxNote > 0
  /\ MaxForms \in Nat /\ MaxForms > 0 /\ Limit \in Nat /\ Limit > 0
PROOF
  BY CallsAssumption

\* The oldest of some nonces is one of them.
LEMMA OldestIsOne ==
  ASSUME NEW S \in SUBSET Nat, S # {}
  PROVE  Oldest(S) \in S
PROOF
  <1>1. PICK n \in S : \A m \in S : ~(<<m, n>> \in OpToRel(<, Nat))
    BY NatLessThanWellFounded, WFMin
  <1> DEFINE Less == {p \in Nat \X Nat : p[1] < p[2]}
  <1>a. OpToRel(<, Nat) = Less
    BY Zenon DEF OpToRel
  <1>2. ASSUME NEW m \in S  PROVE n <= m
    <2>1. <<m, n>> \notin Less
      BY <1>1, <1>a
    <2>2. <<m, n>> \in Nat \X Nat /\ <<m, n>>[1] = m /\ <<m, n>>[2] = n
      OBVIOUS
    <2> QED BY <2>1, <2>2
  <1> QED BY <1>2 DEF Oldest

\* Nonces are pushed out so that one more has its place.
LEMMA KeptHasRoom ==
  ASSUME NEW S \in SUBSET Forms, NEW left \in SUBSET S, Cardinality(S) <= Limit
  PROVE  Kept(left) \in SUBSET left /\ IsFiniteSet(Kept(left)) /\ Cardinality(Kept(left)) < Limit
PROOF
  <1>1. IsFiniteSet(Forms)
    BY Numbers, FS_Interval DEF Forms
  <1>2. IsFiniteSet(S) /\ IsFiniteSet(left) /\ Cardinality(left) <= Cardinality(S)
    BY <1>1, FS_Subset
  <1>3. Cardinality(left) \in Nat /\ Cardinality(S) \in Nat
    BY <1>2, FS_CardinalityType
  <1>4. CASE Cardinality(left) >= Limit
    <2>1. left # {} /\ left \in SUBSET Nat
      BY <1>3, <1>4, FS_EmptySet, Numbers DEF Forms
    <2>2. Oldest(left) \in left
      BY <2>1, OldestIsOne
    <2>3. /\ IsFiniteSet(left \ {Oldest(left)})
          /\ Cardinality(left \ {Oldest(left)}) = Cardinality(left) - 1
      BY <1>2, <2>2, FS_RemoveElement
    <2> QED BY <1>2, <1>3, <1>4, <2>3, Numbers DEF Kept
  <1>5. CASE ~(Cardinality(left) >= Limit)
    BY <1>2, <1>3, <1>5, Numbers DEF Kept
  <1> QED BY <1>4, <1>5

-----------------------------------------------------------------------------
(* The inductive invariant *)

\* A plan for a note that was there names the text it was made against.
NamesText(call, shown) == call.tool = KbNote /\ shown # 0 => call.base = shown

\* What a call carries: a diff against the text it names, and which of the commands it
\* has run have ended well.
JobOK(c) ==
  c.at # "free" =>
    /\ NamesText(c.call, c.shown) /\ (c.at = "asked" => c.by = "human")
    /\ c.at = "write" => c.call.tool = KbNote /\ (c.read # 0 => c.read = c.call.base)
    /\ Len(c.codes) <= Commands /\ \A i \in 1..Len(c.codes) : c.codes[i] => i \in c.well
    /\ c.at = "ran" /\ c.call.tool # KbNote /\ Succeeded(c.codes) => Len(c.codes) = Commands

\* What lets a call run from its approval on, of the plans returned and the calls agreed
\* to in this process.
Going == {"approved", "run", "write", "ran"}
Given(c, plans, calls) ==
  c.at \in Going /\ ~IsRead(c.call) =>
    \/ c.by = "human" /\ c.call \in calls
    \/ c.by = "runbook" /\ c.call.tool \in Approve
    \/ c.by = "token" /\ [call |-> c.call, shown |-> c.shown] \in plans

\* A form that may still be answered or used has run nothing.
FormOK(f) ==
  /\ f.open => f.sent /\ f.runs = 0 /\ NamesText(f.plan.call, f.plan.shown)
  /\ f.runs <= 1

\* The parts of the invariant, each about one variable or two.
JobsOK == job \in [Threads -> Job] /\ \A j \in Threads : JobOK(job[j])
HeldOK == held \subseteq Plans /\ \A p \in held : NamesText(p.call, p.shown)
FormsOK ==
  /\ form \in [Forms -> Form] /\ Cardinality(Pending) <= Limit
  /\ \A n \in Forms : FormOK(form[n])
NoteOK == note \in Text /\ texts \in Text
\* Nothing goes without what it goes by, and a yes is remembered with its form.
ConsentOK ==
  /\ \A j \in Threads : Given(job[j], held, agreed)
  /\ agreed \subseteq Call
  /\ \A n \in Forms : form[n].open /\ form[n].yes => form[n].plan.call \in agreed

IInv == JobsOK /\ HeldOK /\ FormsOK /\ NoteOK /\ ConsentOK

LEMMA Constants ==
  /\ AnyCall \in Call /\ NoJob \in Job /\ NoForm \in Form
  /\ 0 \in Text /\ Text \in SUBSET Nat
PROOF
  <1>1. PICK b \in Bases : TRUE
    BY CallsAssumption
  <1>2. [tool |-> KbNote, base |-> b] \in Call
    BY DEF Call
  <1>3. AnyCall \in Call
    BY <1>2 DEF AnyCall
  <1>4. 0 \in Text /\ Text \in SUBSET Nat
    BY Numbers DEF Text
  <1>5. NoJob \in Job
    BY <1>3, <1>4 DEF NoJob, Job, Approvals
  <1>6. NoForm \in Form
    BY <1>3, <1>4 DEF NoForm, Form, Plans
  <1> QED BY <1>3, <1>4, <1>5, <1>6

LEMMA InitInv == Init => IInv
PROOF
  <1> SUFFICES ASSUME Init PROVE IInv
    OBVIOUS
  <1>1. NoJob.at = "free" /\ ~NoForm.open /\ NoForm.runs = 0
    BY DEF NoJob, NoForm
  <1>2. Pending = {}
    BY <1>1 DEF Init, Pending
  <1>3. Cardinality(Pending) <= Limit
    BY <1>2, FS_EmptySet, Numbers
  <1>4. job \in [Threads -> Job] /\ form \in [Forms -> Form] /\ NoteOK
    BY Constants DEF Init, NoteOK
  <1>5. \A j \in Threads : JobOK(job[j])
    BY <1>1 DEF Init, JobOK
  <1>6. \A n \in Forms : FormOK(form[n])
    BY <1>1 DEF Init, FormOK
  <1>7. HeldOK
    BY DEF Init, HeldOK
  <1>8. \A j \in Threads : Given(job[j], held, agreed)
    BY <1>1 DEF Init, Given, Going
  <1>9. ConsentOK
    BY <1>1, <1>8 DEF Init, ConsentOK
  <1> QED BY <1>3, <1>4, <1>5, <1>6, <1>7, <1>9 DEF IInv, JobsOK, FormsOK

-----------------------------------------------------------------------------
(* One thread, one form *)

LEMMA Same ==
  /\ JobsOK /\ UNCHANGED job => JobsOK'
  /\ HeldOK /\ UNCHANGED held => HeldOK'
  /\ FormsOK /\ UNCHANGED form => FormsOK'
  /\ NoteOK /\ UNCHANGED <<note, texts>> => NoteOK'
  /\ ConsentOK /\ UNCHANGED <<job, held, form, agreed>> => ConsentOK'
PROOF
  BY DEF JobsOK, HeldOK, FormsOK, NoteOK, ConsentOK, Pending

LEMMA OneJob ==
  ASSUME JobsOK, NEW j \in Threads, NEW c \in Job, JobOK(c), job' = [job EXCEPT ![j] = c]
  PROVE  JobsOK'
PROOF
  <1>1. job' \in [Threads -> Job]
    BY DEF JobsOK
  <1>2. \A i \in Threads : job'[i] = c \/ job'[i] = job[i]
    BY DEF JobsOK
  <1> QED BY <1>1, <1>2 DEF JobsOK

\* What was given stays given while the process lives.
LEMMA StaysGiven ==
  ASSUME NEW c, NEW H, NEW A, NEW H2, NEW A2, Given(c, H, A), H \subseteq H2, A \subseteq A2
  PROVE  Given(c, H2, A2)
PROOF
  BY DEF Given

LEMMA OneGiven ==
  ASSUME JobsOK, ConsentOK, NEW j \in Threads, NEW c, job' = [job EXCEPT ![j] = c],
         Given(c, held', agreed'), held \subseteq held', agreed \subseteq agreed', agreed' \subseteq Call,
         \A n \in Forms : form'[n].open /\ form'[n].yes => form'[n].plan.call \in agreed'
  PROVE  ConsentOK'
PROOF
  <1>1. \A i \in Threads : job'[i] = c \/ job'[i] = job[i]
    BY DEF JobsOK
  <1>2. \A i \in Threads : Given(job[i], held', agreed')
    BY StaysGiven DEF ConsentOK
  <1>3. \A i \in Threads : Given(job'[i], held', agreed')
    BY <1>1, <1>2
  <1> QED BY <1>3 DEF ConsentOK

\* A step of one call that touches no plan, form or answer, and ends the call or leaves
\* what it goes by.
LEMMA GoesOn ==
  ASSUME IInv, NEW j \in Threads, NEW c, UNCHANGED <<held, form, agreed>>,
         job' = [job EXCEPT ![j] = c],
         c.at \in Going => job[j].at \in Going /\ c.call = job[j].call /\ c.by = job[j].by /\ c.shown = job[j].shown
  PROVE  ConsentOK'
PROOF
  <1>1. Given(job[j], held, agreed) /\ agreed \subseteq Call /\ JobsOK /\ ConsentOK
    BY DEF IInv, ConsentOK
  <1>2. Given(c, held, agreed)
    BY <1>1 DEF Given
  <1>3. \A n \in Forms : form'[n].open /\ form'[n].yes => form'[n].plan.call \in agreed'
    BY DEF IInv, ConsentOK
  <1> QED BY <1>1, <1>2, <1>3, OneGiven

LEMMA FreeJob == JobOK(NoJob) /\ NoJob.at = "free" /\ NoJob.at \notin Going
PROOF
  BY DEF JobOK, NoJob, Going

\* A call begins with what the plan it goes by has shown, and has run nothing.
LEMMA CalledOK ==
  ASSUME NEW call \in Call, NEW plan \in Plans, NEW by \in Approvals
  PROVE  LET c == Called(call, plan, by)
         IN /\ c \in Job /\ c.call = call /\ c.by = by /\ c.shown = plan.shown
            /\ c.codes = <<>> /\ c.well = {}
PROOF
  <1>1. NoJob \in Job /\ plan.shown \in Text
    BY Constants DEF Plans
  <1>2. NoJob.codes = <<>> /\ NoJob.well = {}
    BY DEF NoJob
  <1> QED BY <1>1, <1>2 DEF Called, Job

\* Where a call may begin.
BeginsAs(c, call, plan, by) ==
  \/ by = "human" /\ \E way \in {"ask", "agent"} :
       c = [Called(call, plan, by) EXCEPT !.at = "asked", !.way = way]
  \/ \E at \in {"approved", "run"} : c = [Called(call, plan, by) EXCEPT !.at = at]

LEMMA Begun ==
  ASSUME NEW call \in Call, NEW plan \in Plans, NEW by \in Approvals,
         NEW c, BeginsAs(c, call, plan, by)
  PROVE  /\ c \in Job /\ c.call = call /\ c.by = by /\ c.shown = plan.shown
         /\ c.codes = <<>> /\ c.well = {} /\ c.at \in {"asked", "approved", "run"}
         /\ (c.at = "asked" => by = "human")
PROOF
  <1> DEFINE d == Called(call, plan, by)
  <1>0. d \in Job /\ d.call = call /\ d.by = by /\ d.shown = plan.shown
        /\ d.codes = <<>> /\ d.well = {}
    BY CalledOK
  <1>1. \/ by = "human" /\ \E way \in {"ask", "agent"} : c = [d EXCEPT !.at = "asked", !.way = way]
        \/ \E at \in {"approved", "run"} : c = [d EXCEPT !.at = at]
    BY DEF BeginsAs
  <1> HIDE DEF d
  <1>b. ASSUME NEW at \in {"asked", "approved", "run"}, NEW e, e = [d EXCEPT !.at = at]
        PROVE  /\ e \in Job /\ e.call = call /\ e.by = by /\ e.shown = plan.shown
               /\ e.codes = d.codes /\ e.well = d.well /\ e.at = at
    BY <1>0, <1>b DEF Job
  <1>c. ASSUME NEW e \in Job, NEW way \in {"ask", "agent"}, NEW f, f = [e EXCEPT !.way = way]
        PROVE  /\ f \in Job /\ f.call = e.call /\ f.by = e.by /\ f.shown = e.shown
               /\ f.codes = e.codes /\ f.well = e.well /\ f.at = e.at
    BY <1>c DEF Job
  <1>2. /\ c \in Job /\ c.call = call /\ c.by = by /\ c.shown = plan.shown
        /\ c.codes = <<>> /\ c.well = {} /\ c.at \in {"asked", "approved", "run"}
        /\ (c.at = "asked" => by = "human")
    <2>1. PICK e : e = [d EXCEPT !.at = "asked"]
      OBVIOUS
    <2>2. /\ e \in Job /\ e.call = call /\ e.by = by /\ e.shown = plan.shown
          /\ e.codes = d.codes /\ e.well = d.well /\ e.at = "asked"
      BY <1>b, <2>1
    <2>3. ASSUME NEW way \in {"ask", "agent"}, c = [d EXCEPT !.at = "asked", !.way = way], by = "human"
          PROVE  /\ c \in Job /\ c.call = call /\ c.by = by /\ c.shown = plan.shown
                 /\ c.codes = <<>> /\ c.well = {} /\ c.at = "asked"
      <3>1. c = [e EXCEPT !.way = way]
        BY <1>0, <2>1, <2>3
      <3>2. /\ c \in Job /\ c.call = e.call /\ c.by = e.by /\ c.shown = e.shown
            /\ c.codes = e.codes /\ c.well = e.well /\ c.at = e.at
        BY <1>c, <2>2, <3>1
      <3> QED BY <1>0, <2>2, <3>2
    <2>4. ASSUME NEW at \in {"approved", "run"}, c = [d EXCEPT !.at = at]
          PROVE  /\ c \in Job /\ c.call = call /\ c.by = by /\ c.shown = plan.shown
                 /\ c.codes = <<>> /\ c.well = {} /\ c.at = at
      BY <1>0, <1>b, <2>4
    <2> QED BY <1>1, <2>3, <2>4
  <1> QED BY <1>2

\* It keeps the invariant when its plan names its text.
LEMMA Begins ==
  ASSUME JobsOK, NEW j \in Threads, NEW call \in Call, NEW plan \in Plans, NEW by \in Approvals,
         NEW c, BeginsAs(c, call, plan, by),
         call.tool = KbNote => NamesText(call, plan.shown),
         job' = [job EXCEPT ![j] = c]
  PROVE  JobsOK'
PROOF
  <1>2. /\ c \in Job /\ c.call = call /\ c.by = by /\ c.shown = plan.shown
        /\ c.codes = <<>> /\ c.well = {} /\ c.at \in {"asked", "approved", "run"}
        /\ (c.at = "asked" => by = "human")
    BY Begun
  <1>3. Len(c.codes) = 0 /\ Commands >= 0
    BY <1>2, Numbers
  <1>4. NamesText(c.call, c.shown)
    BY <1>2 DEF NamesText
  <1>5. JobOK(c)
    BY <1>2, <1>3, <1>4 DEF JobOK
  <1> QED BY <1>2, <1>5, OneJob

\* A call that begins running goes by what it was given.
LEMMA BeginsAt ==
  ASSUME IInv, NEW j \in Threads, NEW call \in Call, NEW plan \in Plans, NEW by \in Approvals,
         NEW at \in {"approved", "run"}, Begin(j, call, at, plan, by),
         call.tool = KbNote => NamesText(call, plan.shown),
         \/ IsRead(call)
         \/ by = "human" /\ call \in agreed
         \/ by = "runbook" /\ call.tool \in Approve
         \/ by = "token" /\ plan.call = call /\ plan \in held,
         UNCHANGED <<held, agreed>>,
         \A n \in Forms : form'[n].open /\ form'[n].yes => form'[n].plan.call \in agreed'
  PROVE  JobsOK' /\ ConsentOK'
PROOF
  <1>1. PICK c : c = [Called(call, plan, by) EXCEPT !.at = at]
    OBVIOUS
  <1>2. job' = [job EXCEPT ![j] = c] /\ JobsOK /\ ConsentOK
    BY <1>1 DEF Begin, IInv
  <1>3. JobsOK' /\ c.call = call /\ c.by = by /\ c.shown = plan.shown
    <2>1. BeginsAs(c, call, plan, by)
      BY <1>1 DEF BeginsAs
    <2>2. call.tool = KbNote => NamesText(call, plan.shown)
      OBVIOUS
    <2>3. j \in Threads /\ call \in Call /\ plan \in Plans /\ by \in Approvals
      OBVIOUS
    <2>4. JobsOK'
      BY <1>2, <2>1, <2>2, <2>3, Begins
    <2>5. c.call = call /\ c.by = by /\ c.shown = plan.shown
      BY <2>1, <2>3, Begun
    <2> QED BY <2>4, <2>5
  <1>4. plan.call = call => plan = [call |-> c.call, shown |-> c.shown]
    BY <1>3 DEF Plans
  <1>5. Given(c, held', agreed')
    BY <1>3, <1>4 DEF Given
  <1>6. agreed' \subseteq Call
    BY DEF IInv, ConsentOK
  <1> QED BY <1>2, <1>3, <1>5, <1>6, OneGiven

\* A plan made now is against the note as it is, and refused unless the call names it.
LEMMA PlansNow ==
  ASSUME NoteOK, NEW call \in Call
  PROVE  /\ PlanNow(call) \in Plans /\ PlanNow(call).call = call
         /\ BaseFits(call) => NamesText(call, PlanNow(call).shown)
PROOF
  BY Constants DEF NoteOK, PlanNow, Plans, BaseFits, NamesText

\* A nonce that is used, or goes without having been used, is not pending any more.
LEMMA Closes ==
  ASSUME NEW f \in Form
  PROVE  /\ Closed(f) \in Form /\ ~Closed(f).open
         /\ Closed(f).runs = f.runs /\ Closed(f).sent = f.sent
         /\ f.runs <= 1 => FormOK(Closed(f))
PROOF
  <1>1. NoForm \in Form /\ ~NoForm.open
    BY Constants DEF NoForm
  <1>2. Closed(f) \in Form /\ ~Closed(f).open /\ Closed(f).runs = f.runs /\ Closed(f).sent = f.sent
    BY <1>1 DEF Closed, Form
  <1> QED BY <1>2 DEF FormOK

\* Fewer forms are pending than before.
LEMMA FewerPending ==
  ASSUME Cardinality(Pending) <= Limit, Pending' \in SUBSET Pending
  PROVE  Cardinality(Pending') <= Limit
PROOF
  <1>1. IsFiniteSet(Forms)
    BY Numbers, FS_Interval DEF Forms
  <1>2. IsFiniteSet(Pending)
    BY <1>1, FS_Subset DEF Pending
  <1>3. IsFiniteSet(Pending') /\ Cardinality(Pending') <= Cardinality(Pending)
    BY <1>2, FS_Subset
  <1> QED BY <1>2, <1>3, FS_CardinalityType, Numbers

-----------------------------------------------------------------------------
(* Steps *)

\* A form is sent, and the oldest may be pushed out for it.
LEMMA MintInv ==
  ASSUME IInv, NEW call \in Call, NEW way, BaseFits(call), Mint(way, call)
  PROVE  FormsOK' /\ ConsentOK'
PROOF
  <1> DEFINE new == Oldest(Forms \ Sent)
             sent == [NoForm EXCEPT !.sent = TRUE, !.open = TRUE, !.plan = PlanNow(call)]
  <1>1. FormsOK /\ NoteOK
    BY DEF IInv
  <1>2. PICK expired \in SUBSET Pending :
          form' = [n \in Forms |-> IF n = new THEN sent
                                   ELSE IF n \in Kept(Pending \ expired) THEN form[n] ELSE Closed(form[n])]
    BY DEF Mint
  <1> DEFINE kept == Kept(Pending \ expired)
  <1>3. kept \in SUBSET Pending /\ IsFiniteSet(kept) /\ Cardinality(kept) < Limit
    BY <1>1, KeptHasRoom DEF Pending, FormsOK
  <1>4. /\ sent \in Form /\ sent.open /\ sent.sent /\ sent.runs = 0 /\ ~sent.yes
        /\ sent.plan = PlanNow(call)
    BY <1>1, Constants, PlansNow DEF Form, NoForm
  <1>5. FormOK(sent)
    BY <1>1, <1>4, PlansNow DEF FormOK
  <1> HIDE DEF new, sent, kept
  <1>6. form' = [n \in Forms |-> IF n = new THEN sent ELSE IF n \in kept THEN form[n] ELSE Closed(form[n])]
    BY <1>2 DEF kept
  <1>7. ASSUME NEW n \in Forms
        PROVE  form'[n] \in Form /\ FormOK(form'[n]) /\ (form'[n].open => n = new \/ n \in kept)
    <2>1. form[n] \in Form /\ FormOK(form[n])
      BY <1>1 DEF FormsOK
    <2>2. Closed(form[n]) \in Form /\ FormOK(Closed(form[n])) /\ ~Closed(form[n]).open
      BY <2>1, Closes DEF FormOK
    <2>3. \/ form'[n] = sent /\ n = new
          \/ form'[n] = form[n] /\ n \in kept
          \/ form'[n] = Closed(form[n])
      BY <1>6
    <2> QED BY <1>4, <1>5, <2>1, <2>2, <2>3
  <1>8. Pending' \in SUBSET (kept \cup {new})
    BY <1>7 DEF Pending
  <1>9. IsFiniteSet(kept \cup {new}) /\ Cardinality(kept \cup {new}) <= Limit
    <2>1. Cardinality(kept) \in Nat
      BY <1>3, FS_CardinalityType
    <2>2. /\ IsFiniteSet(kept \cup {new})
          /\ Cardinality(kept \cup {new}) = IF new \in kept THEN Cardinality(kept) ELSE Cardinality(kept) + 1
      BY <1>3, FS_AddElement
    <2> QED BY <1>3, <2>1, <2>2, Numbers
  <1>10. Cardinality(Pending') <= Limit
    BY <1>8, <1>9, FS_Subset, FS_CardinalityType, Numbers
  <1>11. form' \in [Forms -> Form]
    BY <1>6, <1>7
  <1>12. FormsOK'
    BY <1>7, <1>10, <1>11 DEF FormsOK
  <1>13. ASSUME NEW n \in Forms, form'[n].open, form'[n].yes  PROVE form'[n].plan.call \in agreed
    <2>1. form[n] \in Form
      BY <1>1 DEF FormsOK
    <2>2. ~Closed(form[n]).open
      BY <2>1, Closes
    <2>3. form'[n] = form[n]
      BY <1>4, <1>6, <1>13, <2>2
    <2> QED BY <1>13, <2>3 DEF IInv, ConsentOK
  <1>14. ConsentOK'
    BY <1>13 DEF Mint, IInv, ConsentOK
  <1> QED BY <1>12, <1>14

\* A request comes back with a form: its nonce goes, and runs its call once.
LEMMA RetryInv ==
  ASSUME IInv, NEW j \in Threads, NEW n \in Forms, NEW call \in Call, Retry(j, n, call)
  PROVE  JobsOK' /\ FormsOK' /\ ConsentOK'
PROOF
  <1>1. JobsOK /\ FormsOK
    BY DEF IInv
  <1>2. form[n] \in Form /\ FormOK(form[n]) /\ form[n].open /\ form \in [Forms -> Form]
    BY <1>1 DEF FormsOK, Retry
  <1>3. form[n].runs = 0 /\ NamesText(form[n].plan.call, form[n].plan.shown) /\ form[n].plan \in Plans
    BY <1>2 DEF FormOK, Form
  <1> DEFINE gone == Closed(form[n])
             used == [gone EXCEPT !.runs = @ + 1]
  <1>4. gone \in Form /\ ~gone.open /\ gone.runs = 0
    BY <1>2, <1>3, Closes
  <1>5. used \in Form /\ ~used.open /\ used.runs = 1
    BY <1>4 DEF Form
  <1>6. Take(n) = [form EXCEPT ![n] = gone] /\ Take(n)[n] = gone
    BY <1>2 DEF Take
  <1>7. [Take(n) EXCEPT ![n].runs = @ + 1] = [form EXCEPT ![n] = used]
    BY <1>2, <1>6
  <1>8. FormOK(gone) /\ FormOK(used)
    BY <1>4, <1>5 DEF FormOK
  <1> HIDE DEF gone, used
  <1>9. form' = [form EXCEPT ![n] = gone] \/ form' = [form EXCEPT ![n] = used]
    BY <1>6, <1>7 DEF Retry
  <1>10. /\ form' \in [Forms -> Form] /\ form'[n] \in {gone, used}
         /\ \A m \in Forms \ {n} : form'[m] = form[m]
    BY <1>2, <1>4, <1>5, <1>9
  <1>11. \A m \in Forms : FormOK(form'[m])
    BY <1>1, <1>8, <1>10 DEF FormsOK
  <1>12. Pending' \in SUBSET Pending
    BY <1>4, <1>5, <1>10 DEF Pending
  <1>13. FormsOK'
    BY <1>1, <1>10, <1>11, <1>12, FewerPending DEF FormsOK
  <1>14. \A m \in Forms : form'[m].open /\ form'[m].yes => form'[m].plan.call \in agreed'
    <2>1. \A m \in Forms : form[m].open /\ form[m].yes => form[m].plan.call \in agreed
      BY DEF IInv, ConsentOK
    <2>2. UNCHANGED agreed
      BY DEF Retry
    <2> QED BY <1>4, <1>5, <1>10, <2>1, <2>2
  <1>15. UNCHANGED <<held, agreed>>
    BY DEF Retry
  <1>16. CASE UNCHANGED job
    <2>1. ConsentOK'
      BY <1>14, <1>15, <1>16 DEF IInv, ConsentOK
    <2> QED BY <1>1, <1>13, <1>16, <2>1, Same
  <1>17. CASE Accepted(n, call) /\ Begin(j, call, "approved", form[n].plan, "human")
    <2>1. form[n].plan.call = call /\ call \in agreed
      BY <1>2, <1>17 DEF Accepted, IInv, ConsentOK
    <2>2. NamesText(call, form[n].plan.shown) /\ "human" \in Approvals
      BY <1>3, <2>1 DEF Approvals
    <2>3. JobsOK' /\ ConsentOK'
      BY <1>3, <1>14, <1>15, <1>17, <2>1, <2>2, BeginsAt
    <2> QED BY <1>13, <2>3
  <1> QED BY <1>16, <1>17 DEF Retry

\* What a call begins with, whatever the model sends.
LEMMA CallsInv ==
  ASSUME IInv, NEW j \in Threads, Calls(j)
  PROVE  IInv'
PROOF
  <1>1. JobsOK /\ HeldOK /\ FormsOK /\ NoteOK
    BY DEF IInv
  <1>2. PICK call \in Call :
          \/ Read(j, call) \/ (\E way \in Ways : Plan(j, way, call))
          \/ Confirm(j, call) \/ \E n \in Forms : Retry(j, n, call)
    BY DEF Calls
  <1>3. /\ PlanNow(call) \in Plans /\ PlanNow(call).call = call
        /\ BaseFits(call) => NamesText(call, PlanNow(call).shown)
    BY <1>1, PlansNow
  <1>f. /\ \A n \in Forms : form[n].open /\ form[n].yes => form[n].plan.call \in agreed
        /\ agreed \subseteq Call /\ ConsentOK
    BY DEF IInv, ConsentOK
  <1>4. CASE Read(j, call)
    <2>1. call.tool # KbNote /\ IsRead(call) /\ "" \in Approvals
      BY <1>4 DEF Read, IsRead, Approvals
    <2>2. JobsOK' /\ ConsentOK'
      BY <1>3, <1>4, <1>f, <2>1, BeginsAt DEF Read
    <2> QED BY <1>1, <1>4, <2>2, Same DEF Read, IInv
  <1>5. ASSUME NEW way \in Ways, Plan(j, way, call)  PROVE IInv'
    <2>1. BaseFits(call) /\ NamesText(call, PlanNow(call).shown)
      BY <1>3, <1>5 DEF Plan
    <2>2. CASE Told(way, call)
      <3>1. HeldOK'
        BY <1>1, <1>3, <2>1, <2>2 DEF Told, HeldOK
      <3>2. held \subseteq held' /\ UNCHANGED <<job, form, agreed>>
        BY <2>2 DEF Told
      <3>3. \A i \in Threads : Given(job[i], held', agreed)
        BY <1>f, <3>2, StaysGiven DEF ConsentOK
      <3>4. ConsentOK'
        BY <1>f, <3>2, <3>3 DEF ConsentOK
      <3> QED BY <1>1, <2>2, <3>1, <3>4, Same DEF Told, IInv
    <2>3. CASE Asks(j, way, call)
      <3>0. "human" \in Approvals /\ "runbook" \in Approvals
        BY DEF Approvals
      <3>1. CASE way \in {"ask", "agent"}
        <4>1. PICK c : c = [Called(call, PlanNow(call), "human") EXCEPT !.at = "asked", !.way = way]
          OBVIOUS
        <4>2. job' = [job EXCEPT ![j] = c]
          BY <2>3, <3>1, <4>1 DEF Asks
        <4>3. JobsOK'
          <5>1. BeginsAs(c, call, PlanNow(call), "human")
            BY <3>1, <4>1 DEF BeginsAs
          <5> QED BY <1>1, <1>3, <2>1, <3>0, <4>2, <5>1, Begins
        <4>4. Called(call, PlanNow(call), "human") \in Job
          BY <1>3, <3>0, CalledOK
        <4>5. c.at = "asked"
          BY <4>1, <4>4 DEF Job
        <4>6. c.at \notin Going
          BY <4>5 DEF Going
        <4>7. ConsentOK'
          BY <2>3, <4>2, <4>6, GoesOn DEF Asks
        <4> QED BY <1>1, <2>3, <4>3, <4>7, Same DEF Asks, IInv
      <3>2. CASE way \notin {"ask", "agent"}
        <4>1. Begin(j, call, "approved", PlanNow(call), "runbook") /\ call.tool \in Approve
          BY <2>3, <3>2 DEF Asks
        <4>2. UNCHANGED <<held, form, agreed>>
          BY <2>3 DEF Asks
        <4>3. JobsOK' /\ ConsentOK'
          BY <1>3, <1>f, <2>1, <3>0, <4>1, <4>2, BeginsAt
        <4> QED BY <1>1, <2>3, <4>3, Same DEF Asks, IInv
      <3> QED BY <3>1, <3>2
    <2>4. CASE Mint(way, call)
      <3>1. FormsOK' /\ ConsentOK'
        BY <2>1, <2>4, MintInv
      <3> QED BY <1>1, <2>4, <3>1, Same DEF Mint, IInv
    <2> QED BY <1>5, <2>2, <2>3, <2>4 DEF Plan
  <1>6. CASE Confirm(j, call)
    <2>1. PICK p \in held : p.call = call /\ Begin(j, call, "approved", p, "token")
      BY <1>6 DEF Confirm
    <2>2. p \in Plans /\ NamesText(p.call, p.shown) /\ "token" \in Approvals
      BY <1>1 DEF HeldOK, Approvals
    <2>3. JobsOK' /\ ConsentOK'
      BY <1>6, <1>f, <2>1, <2>2, BeginsAt DEF Confirm
    <2> QED BY <1>1, <1>6, <2>3, Same DEF Confirm, IInv
  <1>7. ASSUME NEW n \in Forms, Retry(j, n, call)  PROVE IInv'
    BY <1>1, <1>7, RetryInv, Same DEF Retry, IInv
  <1> QED BY <1>2, <1>4, <1>5, <1>6, <1>7

LEMMA NoteBecomesOK ==
  ASSUME NoteOK, NoteBecomes
  PROVE  NoteOK'
PROOF
  BY Numbers DEF NoteOK, NoteBecomes, Text

\* A job of its thread, as the steps below find it.
LEMMA Found ==
  ASSUME IInv, NEW j \in Threads
  PROVE  job[j] \in Job /\ JobOK(job[j]) /\ job \in [Threads -> Job] /\ note \in Text
PROOF
  BY DEF IInv, JobsOK, NoteOK

\* The call is started, and what it was approved for is checked again.
LEMMA StartInv ==
  ASSUME IInv, NEW j \in Threads, Start(j)
  PROVE  IInv'
PROOF
  <1>1. job[j] \in Job /\ JobOK(job[j]) /\ job \in [Threads -> Job] /\ job[j].at = "approved"
    BY Found DEF Start
  <1>2. PICK c : c = [job[j] EXCEPT !.at = "run"]
    OBVIOUS
  <1>3. /\ c \in Job /\ c.at = "run" /\ c.call = job[j].call /\ c.by = job[j].by /\ c.shown = job[j].shown
        /\ c.codes = job[j].codes /\ c.well = job[j].well
    BY <1>1, <1>2 DEF Job
  <1>4. JobOK(c)
    BY <1>1, <1>3 DEF JobOK
  <1>5. job' = [job EXCEPT ![j] = c] \/ job' = [job EXCEPT ![j] = NoJob]
    BY <1>1, <1>2 DEF Start
  <1>6. JobsOK'
    BY <1>3, <1>4, <1>5, OneJob, FreeJob, Constants DEF IInv
  <1>7. UNCHANGED <<held, form, agreed>> /\ job[j].at \in Going
    BY <1>1 DEF Start, Going
  <1>8. ConsentOK'
    BY <1>3, <1>5, <1>7, GoesOn, FreeJob
  <1> QED BY <1>6, <1>8, Same DEF Start, IInv

\* The write's own check compares the text the call names.
LEMMA CheckInv ==
  ASSUME IInv, NEW j \in Threads, Check(j)
  PROVE  IInv'
PROOF
  <1>1. /\ job[j] \in Job /\ JobOK(job[j]) /\ job \in [Threads -> Job] /\ note \in Text
        /\ job[j].at = "run" /\ job[j].call.tool = KbNote
    BY Found DEF Check
  <1>2. PICK c : c = [job[j] EXCEPT !.at = "write", !.read = note]
    OBVIOUS
  <1>3. /\ c \in Job /\ c.at = "write" /\ c.call = job[j].call /\ c.by = job[j].by
        /\ c.shown = job[j].shown /\ c.read = note
        /\ c.codes = job[j].codes /\ c.well = job[j].well
    BY <1>1, <1>2 DEF Job
  <1>4. BaseFits(job[j].call) => JobOK(c)
    BY <1>1, <1>3 DEF JobOK, BaseFits
  <1>5. \/ BaseFits(job[j].call) /\ job' = [job EXCEPT ![j] = c]
        \/ job' = [job EXCEPT ![j] = NoJob]
    BY <1>1, <1>2 DEF Check
  <1>6. JobsOK'
    BY <1>3, <1>4, <1>5, OneJob, FreeJob, Constants DEF IInv
  <1>7. UNCHANGED <<held, form, agreed>> /\ job[j].at \in Going
    BY <1>1 DEF Check, Going
  <1>8. ConsentOK'
    BY <1>3, <1>5, <1>7, GoesOn, FreeJob
  <1> QED BY <1>6, <1>8, Same DEF Check, IInv

LEMMA WriteInv ==
  ASSUME IInv, NEW j \in Threads, Write(j)
  PROVE  IInv'
PROOF
  <1>1. /\ job[j] \in Job /\ JobOK(job[j]) /\ job \in [Threads -> Job] /\ 0 \in Text
        /\ job[j].at = "write" /\ job[j].call.tool = KbNote
    BY Found, Constants DEF Write, JobOK
  <1>2. PICK c : c = [job[j] EXCEPT !.at = "ran", !.read = 0]
    OBVIOUS
  <1>3. /\ c \in Job /\ c.at = "ran" /\ c.call = job[j].call /\ c.by = job[j].by /\ c.shown = job[j].shown
        /\ c.codes = job[j].codes /\ c.well = job[j].well
    BY <1>1, <1>2 DEF Job
  <1>4. JobOK(c)
    BY <1>1, <1>3 DEF JobOK
  <1>5. job' = [job EXCEPT ![j] = c]
    BY <1>1, <1>2 DEF Write
  <1>6. JobsOK'
    BY <1>3, <1>4, <1>5, OneJob DEF IInv
  <1>7. UNCHANGED <<held, form, agreed>> /\ job[j].at \in Going
    BY <1>1 DEF Write, Going
  <1>8. ConsentOK'
    BY <1>3, <1>5, <1>7, GoesOn
  <1>9. NoteOK'
    BY NoteBecomesOK DEF Write, IInv
  <1> QED BY <1>6, <1>8, <1>9, Same DEF Write, IInv

\* A command that ends well is counted as such, and one that does not is not.
LEMMA CommandEnds ==
  ASSUME NEW d \in Job, JobOK(d), d.at = "run", Len(d.codes) + 1 <= Commands, NEW ok \in BOOLEAN,
         NEW at \in {"run", "ran"}, at = "ran" => ~ok,
         NEW c, c = [d EXCEPT !.codes = Append(@, ok), !.at = at,
                              !.well = IF ok THEN @ \cup {Len(d.codes) + 1} ELSE @]
  PROVE  c \in Job /\ JobOK(c) /\ c.call = d.call /\ c.by = d.by /\ c.shown = d.shown
PROOF
  <1> DEFINE n == Len(d.codes) + 1
  <1>0. d.codes \in Seq(BOOLEAN) /\ d.well \in SUBSET (1..Commands)
    BY DEF Job
  <1>1. /\ d.codes \in Seq(BOOLEAN) /\ d.well \in SUBSET (1..Commands)
        /\ Len(d.codes) \in Nat /\ n \in 1..Commands
    BY <1>0, Numbers
  <1>2. PICK codes : codes = Append(d.codes, ok)
    OBVIOUS
  <1>3. /\ codes \in Seq(BOOLEAN) /\ Len(codes) = n /\ codes[n] = ok
        /\ \A i \in 1..Len(d.codes) : codes[i] = d.codes[i]
    BY <1>1, <1>2
  <1>4. PICK well : well = IF ok THEN d.well \cup {n} ELSE d.well
    OBVIOUS
  <1>5. well \in SUBSET (1..Commands) /\ d.well \subseteq well /\ (ok => n \in well)
    BY <1>1, <1>4
  <1>6. c = [d EXCEPT !.codes = codes, !.at = at, !.well = well]
    BY <1>2, <1>4
  <1>7. /\ c \in Job /\ c.at = at /\ c.codes = codes /\ c.well = well
        /\ c.call = d.call /\ c.by = d.by /\ c.shown = d.shown
    BY <1>3, <1>5, <1>6 DEF Job
  <1>8. \A i \in 1..Len(c.codes) : c.codes[i] => i \in c.well
    <2>1. \A i \in 1..Len(d.codes) : d.codes[i] => i \in d.well
      BY DEF JobOK
    <2>2. \A i \in 1..n : i = n \/ i \in 1..Len(d.codes)
      BY <1>1
    <2> QED BY <1>3, <1>5, <1>7, <2>1, <2>2
  <1>9. at = "ran" => ~Succeeded(codes)
    BY <1>1, <1>3 DEF Succeeded
  <1>10. NamesText(c.call, c.shown) /\ Len(c.codes) <= Commands
    BY <1>1, <1>3, <1>7 DEF JobOK
  <1>11. JobOK(c)
    BY <1>7, <1>8, <1>9, <1>10 DEF JobOK
  <1> QED BY <1>7, <1>11

\* A command ends, or the time is up; the list has been run when all have.
LEMMA CommandInv ==
  ASSUME IInv, NEW j \in Threads, Command(j) \/ AllRan(j)
  PROVE  IInv'
PROOF
  <1>1. /\ job[j] \in Job /\ JobOK(job[j]) /\ job \in [Threads -> Job]
        /\ job[j].at = "run" /\ job[j].call.tool # KbNote
    BY Found DEF Command, AllRan
  <1>a. job[j].codes \in Seq(BOOLEAN)
    BY <1>1 DEF Job
  <1>2. job[j].codes \in Seq(BOOLEAN) /\ Len(job[j].codes) \in Nat
    BY <1>a
  <1>3. PICK c : /\ job' = [job EXCEPT ![j] = c] /\ c \in Job /\ JobOK(c)
                 /\ c.call = job[j].call /\ c.by = job[j].by /\ c.shown = job[j].shown
    <2> DEFINE next == Len(job[j].codes) + 1
               well == [job[j] EXCEPT !.codes = Append(@, TRUE), !.at = "run",
                                      !.well = IF TRUE THEN @ \cup {Len(job[j].codes) + 1} ELSE @]
               ill == [job[j] EXCEPT !.codes = Append(@, FALSE), !.at = "run",
                                     !.well = IF FALSE THEN @ \cup {Len(job[j].codes) + 1} ELSE @]
               cut == [job[j] EXCEPT !.codes = Append(@, FALSE), !.at = "ran",
                                     !.well = IF FALSE THEN @ \cup {Len(job[j].codes) + 1} ELSE @]
    <2>1. CASE Command(j)
      <3>1. next <= Commands
        BY <2>1 DEF Command, NextCommand
      <3>2. /\ well \in Job /\ JobOK(well)
            /\ well.call = job[j].call /\ well.by = job[j].by /\ well.shown = job[j].shown
        BY <1>1, <3>1, CommandEnds
      <3>3. /\ ill \in Job /\ JobOK(ill)
            /\ ill.call = job[j].call /\ ill.by = job[j].by /\ ill.shown = job[j].shown
        BY <1>1, <3>1, CommandEnds
      <3>4. /\ cut \in Job /\ JobOK(cut)
            /\ cut.call = job[j].call /\ cut.by = job[j].by /\ cut.shown = job[j].shown
        BY <1>1, <3>1, CommandEnds
      <3>5. \/ job' = [job EXCEPT ![j].codes = Append(@, TRUE), ![j].well = @ \cup {next}]
            \/ job' = [job EXCEPT ![j].codes = Append(@, FALSE)]
            \/ job' = [job EXCEPT ![j].codes = Append(@, FALSE), ![j].at = "ran"]
        BY <2>1 DEF Command, NextCommand
      <3>6. /\ well = [job[j] EXCEPT !.codes = Append(@, TRUE), !.well = @ \cup {next}]
            /\ ill = [job[j] EXCEPT !.codes = Append(@, FALSE)]
            /\ cut = [job[j] EXCEPT !.codes = Append(@, FALSE), !.at = "ran"]
        BY <1>1 DEF Job
      <3>7. job' = [job EXCEPT ![j] = well] \/ job' = [job EXCEPT ![j] = ill] \/ job' = [job EXCEPT ![j] = cut]
        BY <1>1, <3>5, <3>6
      <3> HIDE DEF well, ill, cut
      <3> QED BY <3>2, <3>3, <3>4, <3>7
    <2>2. CASE AllRan(j)
      <3>1. PICK d : d = [job[j] EXCEPT !.at = "ran"]
        OBVIOUS
      <3>2. /\ d \in Job /\ d.at = "ran" /\ d.codes = job[j].codes /\ d.well = job[j].well
            /\ d.call = job[j].call /\ d.by = job[j].by /\ d.shown = job[j].shown
        BY <1>1, <3>1 DEF Job
      <3>3. Len(job[j].codes) + 1 > Commands
        BY <2>2 DEF AllRan, NextCommand
      <3>4. /\ NamesText(d.call, d.shown) /\ Len(d.codes) <= Commands
            /\ \A i \in 1..Len(d.codes) : d.codes[i] => i \in d.well
        BY <1>1, <3>2 DEF JobOK
      <3>5. Len(d.codes) = Commands
        BY <1>2, <3>2, <3>3, <3>4, Numbers
      <3>6. JobOK(d)
        BY <3>2, <3>4, <3>5 DEF JobOK
      <3>7. job' = [job EXCEPT ![j] = d]
        BY <1>1, <2>2, <3>1 DEF AllRan
      <3> QED BY <3>2, <3>6, <3>7
    <2> QED BY <2>1, <2>2
  <1>4. JobsOK'
    BY <1>3, OneJob DEF IInv
  <1>5. UNCHANGED <<held, form, agreed>> /\ job[j].at \in Going
    BY <1>1 DEF Command, AllRan, Going
  <1>6. ConsentOK'
    BY <1>3, <1>5, GoesOn
  <1> QED BY <1>4, <1>6, Same DEF Command, AllRan, IInv

LEMMA RepliesInv ==
  ASSUME IInv, NEW j \in Threads, Replies(j)
  PROVE  IInv'
PROOF
  <1>1. JobsOK'
    BY OneJob, FreeJob, Constants DEF Replies, IInv
  <1>2. ConsentOK'
    BY GoesOn, FreeJob DEF Replies
  <1> QED BY <1>1, <1>2, Same DEF Replies, IInv

\* A human at a prompt approves what the prompt showed.
LEMMA AnswersInv ==
  ASSUME IInv, NEW j \in Threads, Answers(j)
  PROVE  IInv'
PROOF
  <1>1. job[j] \in Job /\ JobOK(job[j]) /\ job \in [Threads -> Job] /\ job[j].at = "asked"
    BY Found DEF Answers
  <1>2. PICK c : c = [job[j] EXCEPT !.at = "approved", !.way = ""]
    OBVIOUS
  <1>3. c \in Job /\ c.at = "approved" /\ c.call = job[j].call /\ c.by = job[j].by /\ c.shown = job[j].shown
        /\ c.codes = job[j].codes /\ c.well = job[j].well
    BY <1>1, <1>2 DEF Job
  <1>4. PlanOf(j) \in Plans /\ NamesText(PlanOf(j).call, PlanOf(j).shown)
    BY <1>1 DEF Plans, Job, JobOK, PlanOf
  <1>5. JobOK(c)
    BY <1>1, <1>3 DEF JobOK
  <1>6. /\ \/ job' = [job EXCEPT ![j] = c] /\ agreed' = agreed \cup {job[j].call}
           \/ job' = [job EXCEPT ![j] = NoJob] /\ agreed' = agreed
        /\ held' = held \/ held' = held \cup {PlanOf(j)}
        /\ UNCHANGED <<form, note, texts>>
    BY <1>1, <1>2 DEF Answers
  <1>7. JobsOK'
    BY <1>3, <1>5, <1>6, OneJob, FreeJob, Constants DEF IInv
  <1>8. HeldOK'
    BY <1>4, <1>6 DEF HeldOK, IInv
  <1>9. c.by = "human" /\ c.call \in Call
    BY <1>1, <1>3 DEF JobOK, Job
  <1>10. held \subseteq held' /\ agreed \subseteq agreed' /\ agreed' \subseteq Call
    BY <1>3, <1>6, <1>9 DEF IInv, ConsentOK
  <1>11. \A n \in Forms : form'[n].open /\ form'[n].yes => form'[n].plan.call \in agreed'
    BY <1>6, <1>10 DEF IInv, ConsentOK
  <1>12. ConsentOK'
    <2>1. CASE job' = [job EXCEPT ![j] = c] /\ agreed' = agreed \cup {job[j].call}
      <3>1. Given(c, held', agreed')
        BY <1>3, <1>9, <2>1 DEF Given
      <3> QED BY <1>10, <1>11, <2>1, <3>1, OneGiven DEF IInv
    <2>2. CASE job' = [job EXCEPT ![j] = NoJob] /\ agreed' = agreed
      <3>1. Given(NoJob, held', agreed')
        BY FreeJob DEF Given
      <3> QED BY <1>10, <1>11, <2>2, <3>1, OneGiven DEF IInv
    <2> QED BY <1>6, <2>1, <2>2
  <1> QED BY <1>6, <1>7, <1>8, <1>12, Same DEF IInv

LEMMA FormAnsweredInv ==
  ASSUME IInv, NEW n \in Forms, NEW yes \in BOOLEAN, FormAnswered(n, yes)
  PROVE  IInv'
PROOF
  <1>1. form \in [Forms -> Form] /\ form[n] \in Form /\ FormOK(form[n]) /\ \A m \in Forms : FormOK(form[m])
    BY DEF IInv, FormsOK
  <1>2. PICK g : g = [form[n] EXCEPT !.answered = TRUE, !.yes = yes]
    OBVIOUS
  <1>3. form' = [form EXCEPT ![n] = g]
    BY <1>1, <1>2 DEF FormAnswered
  <1>4. /\ g \in Form /\ g.open = form[n].open /\ g.sent = form[n].sent /\ g.runs = form[n].runs
        /\ g.plan = form[n].plan /\ g.yes = yes /\ g.plan \in Plans
    BY <1>1, <1>2 DEF Form
  <1>5. FormOK(g)
    BY <1>1, <1>4 DEF FormOK
  <1>6. form' \in [Forms -> Form] /\ form'[n] = g /\ \A m \in Forms \ {n} : form'[m] = form[m]
    BY <1>1, <1>3, <1>4
  <1>7. \A m \in Forms : FormOK(form'[m])
    BY <1>1, <1>5, <1>6
  <1>8. Pending' = Pending
    BY <1>4, <1>6 DEF Pending
  <1>9. FormsOK'
    BY <1>6, <1>7, <1>8 DEF FormsOK, IInv
  <1>10. /\ agreed' = IF yes THEN agreed \cup {g.plan.call} ELSE agreed
         /\ UNCHANGED <<job, held, note, texts>>
    BY <1>4 DEF FormAnswered
  <1>11. agreed \subseteq agreed' /\ agreed' \subseteq Call /\ (yes => g.plan.call \in agreed')
    BY <1>4, <1>10 DEF Plans, IInv, ConsentOK
  <1>12. \A i \in Threads : Given(job[i], held, agreed')
    BY <1>11, StaysGiven DEF IInv, ConsentOK
  <1>13. \A m \in Forms : form'[m].open /\ form'[m].yes => form'[m].plan.call \in agreed'
    BY <1>4, <1>6, <1>11 DEF IInv, ConsentOK
  <1>14. ConsentOK'
    BY <1>10, <1>11, <1>12, <1>13 DEF ConsentOK
  <1> QED BY <1>9, <1>10, <1>14, Same DEF IInv

\* A restart forgets every plan and nonce.
LEMMA RestartInv ==
  ASSUME IInv, Restart
  PROVE  IInv'
PROOF
  <1>1. JobsOK'
    BY FreeJob, Constants DEF Restart, JobsOK
  <1>2. HeldOK'
    BY DEF Restart, HeldOK
  <1>3. ASSUME NEW n \in Forms
        PROVE  form'[n] = Closed(form[n]) /\ form'[n] \in Form /\ FormOK(form'[n]) /\ ~form'[n].open
    <2>1. form[n] \in Form /\ FormOK(form[n])
      BY DEF IInv, FormsOK
    <2> QED BY <2>1, Closes DEF Restart, FormOK
  <1>4. form' \in [Forms -> Form]
    BY <1>3 DEF Restart
  <1>5. Pending' = {}
    BY <1>3 DEF Pending
  <1>6. FormsOK'
    BY <1>3, <1>4, <1>5, FS_EmptySet, Numbers DEF FormsOK
  <1>7. ConsentOK'
    BY <1>3, FreeJob DEF Restart, ConsentOK, Given
  <1> QED BY <1>1, <1>2, <1>6, <1>7, Same DEF Restart, IInv

LEMMA NoteInv ==
  ASSUME IInv, NoteEdited \/ NoteDeleted
  PROVE  IInv'
PROOF
  <1>1. NoteOK'
    BY NoteBecomesOK, Constants DEF NoteEdited, NoteDeleted, NoteOK, IInv
  <1> QED BY <1>1, Same DEF NoteEdited, NoteDeleted, IInv

LEMMA StepInv == IInv /\ [Next]_vars => IInv'
PROOF
  <1> SUFFICES ASSUME IInv, [Next]_vars PROVE IInv'
    OBVIOUS
  <1>1. CASE UNCHANGED vars
    BY <1>1, Same DEF vars, IInv
  <1>2. CASE \E j \in Threads : Calls(j)
    BY <1>2, CallsInv
  <1>3. CASE \E j \in Threads : Runs(j)
    BY <1>3, StartInv, CheckInv, WriteInv, CommandInv, RepliesInv DEF Runs
  <1>4. CASE Human
    BY <1>4, FormAnsweredInv, AnswersInv DEF Human
  <1>5. CASE NoteEdited \/ NoteDeleted \/ Restart
    BY <1>5, NoteInv, RestartInv
  <1> QED BY <1>1, <1>2, <1>3, <1>4, <1>5 DEF Next

LEMMA Invariant == Spec => []IInv
PROOF
  <1> QED BY InitInv, StepInv, PTL DEF Spec

-----------------------------------------------------------------------------
(* Theorems *)

\* The state keeps its types, and no more nonces are pending than the limit, for any
\* number of forms and of clients that never come back (PendingApprovals.mint).
THEOREM Typing == Spec => []TypeOK
PROOF
  <1>1. IInv => TypeOK
    BY DEF IInv, JobsOK, HeldOK, FormsOK, NoteOK, ConsentOK, TypeOK
  <1> QED BY <1>1, Invariant, PTL

\* Whatever runs and is not a read tool goes by a human's yes to exactly that call, by the
\* runbook's front matter, or by the token of a plan this process returned for it, for any
\* tools and mixture of front ends, and over restarts (Almanac.call).
THEOREM OnlyPlannedRuns == Spec => []RunsAsPlanned
PROOF
  <1>1. IInv => RunsAsPlanned
    BY DEF IInv, ConsentOK, Given, Going, RunsAsPlanned, Running, PlanOf
  <1> QED BY <1>1, Invariant, PTL

\* An answered form runs its call once at most, whatever is repeated, expires or is
\* pushed out (PendingApprovals.take).
THEOREM OneRunPerAnswer == Spec => []OncePerAnswer
PROOF
  <1>1. IInv => OncePerAnswer
    BY DEF IInv, FormsOK, FormOK, OncePerAnswer
  <1> QED BY <1>1, Invariant, PTL

\* What a write finds at its own check is the text its approved diff was made against; what
\* is put there between that check and the replacement is outside it (KnowledgeBase.note).
THEOREM NoteAsShown == Spec => []OverwritesAsShown
PROOF
  <1>1. IInv => OverwritesAsShown
    BY DEF IInv, JobsOK, JobOK, NamesText, OverwritesAsShown
  <1> QED BY <1>1, Invariant, PTL

\* When a result reports success, each of the tool's commands was run and ended well,
\* however long the list and wherever it was cut (tools.execute, RunResult.ok).
THEOREM WholeSuccess == Spec => []SuccessIsWhole
PROOF
  <1>1. ASSUME IInv, NEW j \in Threads,
               job[j].at = "ran", job[j].call.tool # KbNote, Succeeded(job[j].codes)
        PROVE  job[j].well = 1..Commands
    <2>1. job[j] \in Job /\ JobOK(job[j])
      BY <1>1, Found
    <2>2. job[j].codes \in Seq(BOOLEAN) /\ job[j].well \subseteq 1..Commands
      BY <2>1 DEF Job
    <2>3. /\ Len(job[j].codes) = Commands
          /\ \A i \in 1..Len(job[j].codes) : job[j].codes[i] => i \in job[j].well
      BY <1>1, <2>1 DEF JobOK
    <2>4. \A i \in 1..Len(job[j].codes) : job[j].codes[i]
      BY <1>1, <2>2 DEF Succeeded
    <2> QED BY <2>2, <2>3, <2>4
  <1>2. IInv => SuccessIsWhole
    BY <1>1 DEF SuccessIsWhole
  <1> QED BY <1>2, Invariant, PTL
=============================================================================
