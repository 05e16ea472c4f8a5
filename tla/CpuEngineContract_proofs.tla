---------------------- MODULE CpuEngineContract_proofs ----------------------
(***************************************************************************)
(* What a step of CpuEngine may do to a request that exists: its end is     *)
(* final, and the tokens already handed out are never touched; what it may  *)
(* take from the prefix store: never a snapshot somebody refers to; and     *)
(* what it adds there: nothing that is not counted against the budget.  So  *)
(* CpuEngine implements EngineContract, and no two requests build the same  *)
(* snapshot at once.  And turns go round: nobody is overtaken twice by the  *)
(* same request.                                                            *)
(***************************************************************************)
EXTENDS CpuEngineTurns, CpuEngine_proofs, FunctionTheorems

\* How a step may change the table entry r into q, a submission apart.
Evolves(r, q) ==
    /\ r = Absent => q = Absent
    /\ q # Absent =>
         /\ Terminal(r) => q.status = r.status
         /\ r.consumed <= Len(q.output)
         /\ SubSeq(q.output, 1, r.consumed) = SubSeq(r.output, 1, r.consumed)

\* IDs are handed out in order.
Unused == \A i \in Ids : i >= nextId => requests[i] = Absent

(* An entry that does not change.                                           *)
LEMMA EvolvesSame ==
    ASSUME NEW r, Good(r)
    PROVE  Evolves(r, r)
<1>1. CASE r = Absent
  BY <1>1 DEF Evolves
<1>2. CASE Present(r)
  BY <1>2 DEF Present, Sound, Evolves
<1> QED
  BY <1>1, <1>2 DEF Good

(* A failure and its retirement leave the output alone.                     *)
LEMMA EndedOutput ==
    ASSUME NEW r \in Request
    PROVE  Retire(Fail(r)).output = r.output
<1>1. Fail(r) \in Request /\ Fail(r).output = r.output
  BY FailFields
<1>2. Retire(Fail(r)).output = Fail(r).output
  BY <1>1, RetireFields
<1> QED
  BY <1>1, <1>2

(* A step that leaves the output alone.                                     *)
LEMMA EvolvesOutput ==
    ASSUME NEW r, Present(r), NEW q, q.output = r.output,
           Terminal(r) => q.status = r.status
    PROVE  Evolves(r, q)
BY AbsentTyped DEF Present, Sound, Evolves

(* Before the first token there is nothing to take back.                    *)
LEMMA EvolvesFresh ==
    ASSUME NEW r, Present(r), r.status \in {"queued", "prefill"}, NEW q, Good(q)
    PROVE  Evolves(r, q)
<1>1. r.consumed = 0 /\ ~Terminal(r) /\ r # Absent
  BY AbsentTyped DEF Present, Queued, Prefilling, Fresh, Terminal
<1>2. q.output \in Seq(Vocab)
  BY GoodTyped DEF Request
<1>3. Len(q.output) \in Nat
  BY <1>2, LenProperties
<1>4. SubSeq(q.output, 1, 0) = <<>> /\ SubSeq(r.output, 1, 0) = <<>>
  BY SubSeqEmpty
<1> QED
  BY <1>1, <1>3, <1>4 DEF Evolves

(* A selection appends, and cuts no token that was confirmed.               *)
LEMMA SelectionDelivers ==
    ASSUME NEW r, Selecting(r), NEW outcome \in Outcomes
    PROVE  LET q == Select(r, outcome) IN
           /\ r.consumed <= Len(q.output)
           /\ SubSeq(q.output, 1, r.consumed) = SubSeq(r.output, 1, r.consumed)
<1>1. /\ r \in Request /\ r.consumed \in Nat /\ r.output \in Seq(Vocab)
      /\ Len(r.output) \in Nat /\ r.spec.stops \in SUBSET Seq(Vocab)
  BY PromptTyped, LenProperties DEF Selecting, Sound, Request
<1>2. /\ r.consumed <= Confirmed(r.output, r.spec.stops)
      /\ Confirmed(r.output, r.spec.stops) \in 0..Len(r.output)
  BY <1>1, ConfirmedIs DEF Selecting
<1>3. CASE outcome = <<>>
  <2>1. Select(r, outcome).output = r.output
    BY <1>1, <1>3, FailFields DEF Select
  <2> QED BY <1>1, <1>2, <2>1
<1>4. CASE outcome # <<>>
  <2>1. PICK t \in Vocab : outcome = <<t>>
    BY <1>4 DEF Outcomes
  <2> DEFINE out == r.output \o <<t>>
             kept == Kept(out, r.spec.stopIds, r.spec.stops)
             cut == SubSeq(out, 1, kept)
             n == r.consumed
  <2>2. Select(r, outcome).output = cut
    BY <1>1, <1>4, <2>1 DEF Select, Request
  <2>3. out \in Seq(Vocab) /\ out # <<>> /\ Len(out) = Len(r.output) + 1
    BY <1>1, LongerOutput, 0 \in 0..Len(r.output)
  <2>4. kept \in 0..Len(out)
    <3> HIDE DEF out
    <3> QED BY <1>1, <2>3, KeptIs
  <2>5. n <= kept /\ n <= Len(r.output)
    <3>1. Confirmed(r.output, r.spec.stops) <= kept
      BY <1>1, ConfirmedSurvivesCut
    <3> HIDE DEF kept
    <3> QED BY <1>1, <1>2, <2>3, <2>4, <3>1
  <2>6. n >= 1 => SubSeq(out, 1, n) = SubSeq(r.output, 1, n)
    <3>1. <<t>> \in Seq(Vocab)
      BY <2>1
    <3>2. ASSUME n >= 1 PROVE n \in 1..Len(r.output) /\ 1 \in 1..Len(r.output)
      BY <1>1, <2>5, <3>2
    <3> QED BY <1>1, <3>1, <3>2, SubSeqOfConcat1
  <2> HIDE DEF out, kept
  <2>7. Len(cut) = kept /\ cut \in Seq(Vocab)
    <3>1. \A m \in 1..kept : out[m] \in Vocab
      BY <2>3, <2>4, ElementOfSeq
    <3>2. /\ SubSeq(out, 1, kept) \in Seq(Vocab)
          /\ Len(SubSeq(out, 1, kept)) = (IF 1 <= kept THEN kept - 1 + 1 ELSE 0)
      BY <2>3, <2>4, <3>1, SubSeqProperties
    <3> QED BY <2>3, <2>4, <3>2
  <2>8. n >= 1 => SubSeq(cut, 1, n) = SubSeq(out, 1, n)
    <3>1. SUFFICES ASSUME n >= 1 PROVE SubSeq(cut, 1, n) = SubSeq(out, 1, n)
      OBVIOUS
    <3>2. kept \in 1..Len(out) /\ 1 \in 1..Len(out) /\ n \in 1..(kept - 1 + 1)
          /\ 1 \in 1..(kept - 1 + 1) /\ 1 + 1 - 1 = 1 /\ 1 + n - 1 = n
      BY <1>1, <2>3, <2>4, <2>5, <3>1
    <3> HIDE DEF n
    <3>3. SubSeq(SubSeq(out, 1, kept), 1, n) = SubSeq(out, 1 + 1 - 1, 1 + n - 1)
      BY <2>3, <3>2, SubSeqOfSubSeq
    <3> QED BY <3>2, <3>3
  <2>9. n = 0 => SubSeq(cut, 1, n) = <<>> /\ SubSeq(r.output, 1, n) = <<>>
    BY SubSeqEmpty
  <2> HIDE DEF cut
  <2>10. SubSeq(cut, 1, n) = SubSeq(r.output, 1, n)
    BY <1>1, <2>6, <2>8, <2>9
  <2> QED BY <2>2, <2>5, <2>7, <2>10
<1> QED
  BY <1>3, <1>4

(* A queued or prefilling request has nothing to take back, whatever        *)
(* happens.                                                                 *)
LEMMA EarlyEvolves ==
    ASSUME Inv, Inv', NEW i \in Ids, requests[i].status \in {"queued", "prefill"}
    PROVE  Evolves(requests[i], requests'[i])
<1>1. Present(requests[i]) /\ Good(requests'[i])
  BY GoodTyped DEF Inv, GoodTable
<1> QED
  BY <1>1, EvolvesFresh

(* A step that changes one entry.                                           *)
LEMMA OneEvolves ==
    ASSUME Inv, NEW i \in Ids, NEW q, Evolves(requests[i], q),
           requests' = [requests EXCEPT ![i] = q]
    PROVE  \A j \in Ids : Evolves(requests[j], requests'[j])
<1>1. ASSUME NEW j \in Ids PROVE requests'[j] = IF j = i THEN q ELSE requests[j]
  BY DEF Inv, GoodTable
<1> QED
  BY <1>1, EvolvesSame DEF Inv, GoodTable

(* A step that changes none.                                                *)
LEMMA NoneEvolves ==
    ASSUME Inv, UNCHANGED requests
    PROVE  \A j \in Ids : Evolves(requests[j], requests'[j])
BY EvolvesSame DEF Inv, GoodTable

(* What a caller operation does to each entry; only submit fills one.       *)
LEMMA CallerEvolves ==
    ASSUME Inv, Caller
    PROVE  \A j \in Ids : Evolves(requests[j], requests'[j]) \/ (j = nextId /\ nextId' = nextId + 1)
<1>1. ASSUME NEW s \in Specs, NEW p \in handles \cup {NoPrefix},
             SubmitQueued(s, p) \/ SubmitActive(s, p), NEW j \in Ids
      PROVE  Evolves(requests[j], requests'[j]) \/ (j = nextId /\ nextId' = nextId + 1)
  <2>1. PICK r : requests' = [requests EXCEPT ![nextId] = r] /\ nextId' = nextId + 1
    BY <1>1 DEF SubmitQueued, SubmitActive, Enter
  <2>2. CASE j # nextId
    <3>1. requests'[j] = requests[j]
      BY <2>1, <2>2 DEF Inv, GoodTable
    <3> QED BY <3>1, EvolvesSame DEF Inv, GoodTable
  <2> QED BY <2>1, <2>2
<1>2. ASSUME NEW s \in Specs, NEW p \in handles \cup {NoPrefix}, SubmitRefused(s, p)
      PROVE  \A j \in Ids : Evolves(requests[j], requests'[j])
  BY <1>2, NoneEvolves DEF SubmitRefused
<1>3. ASSUME NEW i \in Ids, NEW max \in 1..MaxBuffered, ReadOutput(i, max)
      PROVE  \A j \in Ids : Evolves(requests[j], requests'[j])
  <2> DEFINE r == requests[i]
             n == r.consumed + Smaller(max,
                    (IF Terminal(r) THEN Len(r.output)
                                    ELSE Confirmed(r.output, r.spec.stops)) - r.consumed)
             q == [r EXCEPT !.consumed = n]
  <2>1. Present(r) /\ r \in Request
    BY <1>3, GoodTyped DEF ReadOutput, Live, Inv, GoodTable
  <2>2. requests' = [requests EXCEPT ![i] = q]
    BY <1>3, <2>1 DEF ReadOutput, Inv, GoodTable
  <2>3. q.output = r.output /\ q.status = r.status
    <3>1. q = [r EXCEPT !.consumed = n]
      OBVIOUS
    <3> HIDE DEF n, q, r
    <3> QED BY <2>1, <3>1 DEF Request
  <2> HIDE DEF q
  <2>4. Evolves(requests[i], q)
    BY <2>1, <2>3, EvolvesOutput
  <2> QED BY <2>2, <2>4, OneEvolves
<1>4. ASSUME NEW i \in Ids, Cancel(i)
      PROVE  \A j \in Ids : Evolves(requests[j], requests'[j])
  <2> DEFINE r == requests[i]
             c == [r EXCEPT !.status = "cancelled"]
             q == Retire(c)
  <2>1. Present(r) /\ r \in Request /\ ~Terminal(r)
    BY <1>4, GoodTyped DEF Cancel, Unfinished, Inv, GoodTable, Terminal
  <2>2. requests' = [requests EXCEPT ![i] = q]
    BY <1>4 DEF Cancel, Inv, GoodTable
  <2>3. c \in Request /\ c.output = r.output
    <3> HIDE DEF r
    <3> QED BY <2>1 DEF Request, Statuses
  <2>4. q.output = r.output
    <3> HIDE DEF c
    <3> QED BY <2>3, RetireFields
  <2> HIDE DEF q
  <2>5. Evolves(requests[i], q)
    BY <2>1, <2>4, EvolvesOutput
  <2> QED BY <2>2, <2>5, OneEvolves
<1>5. ASSUME NEW i \in Ids, Release(i)
      PROVE  \A j \in Ids : Evolves(requests[j], requests'[j])
  <2>1. Evolves(requests[i], Absent)
    BY DEF Evolves
  <2> QED BY <1>5, <2>1, OneEvolves DEF Release
<1>6. ASSUME NEW e \in Registrations,
             \/ FindPrefix(e.ns, e.tokens) \/ RegisterKnown(e.ns, e.tokens)
             \/ \E built \in BOOLEAN : Register(e.ns, e.tokens, built)
      PROVE  \A j \in Ids : Evolves(requests[j], requests'[j])
  BY <1>6, NoneEvolves DEF FindPrefix, RegisterKnown, Register
<1>7. ASSUME NEW p \in handles, DropHandle(p)
      PROVE  \A j \in Ids : Evolves(requests[j], requests'[j])
  BY <1>7, NoneEvolves DEF DropHandle
<1> QED
  BY <1>1, <1>2, <1>3, <1>4, <1>5, <1>6, <1>7 DEF Caller

(* What an admission does to each entry.                                    *)
LEMMA AdmissionEvolves ==
    ASSUME Inv, Inv', StepAdmission
    PROVE  \A j \in Ids : Evolves(requests[j], requests'[j])
<1>1. ASSUME NEW j \in Ids
      PROVE  /\ Swept[j].status = requests[j].status
             /\ Evolves(requests[j], Swept[j])
  <2>1. Swept[j] = AttachExact(Retire(requests[j]))
    BY SweptGood
  <2>2. CASE requests[j] = Absent
    <3>1. Swept[j] = Absent
      BY <2>1, <2>2, AbsentTyped DEF Retire, Terminal, AttachExact
    <3> QED BY <2>2, <3>1 DEF Evolves
  <2>3. CASE Present(requests[j])
    <3>1. /\ requests[j] \in Request /\ Present(Retire(requests[j]))
      BY <2>3, RetireSound DEF Present, Sound
    <3>2. /\ Retire(requests[j]).status = requests[j].status
          /\ Retire(requests[j]).output = requests[j].output
      BY <3>1, RetireFields
    <3>3. /\ Swept[j].status = Retire(requests[j]).status
          /\ Swept[j].output = Retire(requests[j]).output
      BY <2>1, <3>1, AttachPresent DEF Inv
    <3> QED BY <2>3, <3>2, <3>3, EvolvesOutput
  <2> QED BY <2>2, <2>3 DEF Inv, GoodTable, Good
<1>2. \/ requests' = Swept
      \/ /\ Candidates # {}
         /\ \E q : requests' = [Swept EXCEPT ![Least(Candidates)] = q]
  BY DEF StepAdmission, StepWithoutAdmission, Admit, AdmitWithoutRoom, AdmitFails, CanAdmit
<1>3. ASSUME NEW j \in Ids PROVE Evolves(requests[j], requests'[j])
  <2>1. CASE requests'[j] = Swept[j]
    BY <1>1, <2>1
  <2>2. CASE requests'[j] # Swept[j]
    <3>1. Candidates # {} /\ j = Least(Candidates)
      BY <1>2, <2>2, SweptGood DEF GoodTable
    <3>2. Swept[j].status = "queued"
      BY <3>1, CandidateQueued
    <3> QED BY <1>1, <3>2, EarlyEvolves
  <2> QED BY <2>1, <2>2
<1> QED
  BY <1>3

(* What the work of a step does to each entry.                              *)
LEMMA WorkEvolves ==
    ASSUME Inv, Inv', Work
    PROVE  \A j \in Ids : Evolves(requests[j], requests'[j])
<1>1. CASE StepIdle
  BY <1>1, NoneEvolves DEF StepIdle
<1>2. ASSUME NEW i \in Ids, MayPrefill(i), NEW j \in Ids,
             j # i => \/ requests'[j] = requests[j]
                      \/ /\ requests[j].reg # 0
                         /\ requests'[j] = [requests[j] EXCEPT !.reg = 0]
      PROVE  Evolves(requests[j], requests'[j])
  <2>1. requests[i].status = "prefill"
    BY <1>2 DEF MayPrefill, NextPrefill, Ready, WithStatus
  <2>2. CASE j = i
    BY <2>1, <2>2, EarlyEvolves
  <2>3. CASE requests'[j] = requests[j]
    BY <2>3, EvolvesSame DEF Inv, GoodTable
  <2>4. CASE requests[j].reg # 0 /\ requests'[j] = [requests[j] EXCEPT !.reg = 0]
    <3>1. Present(requests[j]) /\ requests[j] \in Request
      BY <2>4, AbsentTyped DEF Inv, GoodTable, Good
    <3>2. requests'[j].output = requests[j].output /\ requests'[j].status = requests[j].status
      BY <2>4, <3>1 DEF Request
    <3> QED BY <3>1, <3>2, EvolvesOutput
  <2> QED BY <1>2, <2>2, <2>3, <2>4
<1>3. ASSUME NEW i \in Ids, NEW j \in Ids, PrefillFails(i)
      PROVE  Evolves(requests[j], requests'[j])
  <2>1. j # i => requests'[j] = requests[j]
    BY <1>3 DEF PrefillFails, Inv, GoodTable
  <2> QED BY <1>2, <1>3, <2>1 DEF PrefillFails
<1>4. ASSUME NEW i \in Ids, NEW j \in Ids, NEW outcome \in Outcomes,
             PrefillForward(i, outcome) \/ PrefillPublish(i, outcome)
      PROVE  Evolves(requests[j], requests'[j])
  <2>1. PICK q : MayPrefill(i) /\ requests' = [requests EXCEPT ![i] = q]
    <3>1. CASE PrefillForward(i, outcome)
      BY <3>1 DEF PrefillForward
    <3>2. CASE PrefillPublish(i, outcome)
      BY <3>2 DEF PrefillPublish
    <3> QED BY <1>4, <3>1, <3>2
  <2>2. j # i => requests'[j] = requests[j]
    BY <2>1 DEF Inv, GoodTable
  <2> QED BY <1>2, <2>1, <2>2
<1>5. ASSUME NEW i \in Ids, NEW j \in Ids, NEW outcome \in Outcomes,
             PrefillFallback(i, outcome)
      PROVE  Evolves(requests[j], requests'[j])
  <2> DEFINE cold == [k \in Ids |-> IF SameBuild(requests[i], requests[k])
                                    THEN [requests[k] EXCEPT !.reg = 0]
                                    ELSE requests[k]]
  <2>1. PICK q : MayPrefill(i) /\ requests' = [cold EXCEPT ![i] = q]
    BY <1>5 DEF PrefillFallback
  <2>2. j # i => requests'[j] = cold[j]
    BY <2>1
  <2>3. \/ cold[j] = requests[j]
        \/ requests[j].reg # 0 /\ cold[j] = [requests[j] EXCEPT !.reg = 0]
    <3>1. SameBuild(requests[i], requests[j]) => requests[j].reg # 0
      BY DEF SameBuild
    <3> QED BY <3>1
  <2> HIDE DEF cold
  <2> QED BY <1>2, <2>1, <2>2, <2>3
<1>6. ASSUME NEW B \in SUBSET Ids, MayDecode(B), NEW i \in B
      PROVE  /\ requests[i].status = "decode" /\ Present(requests[i]) /\ i \in Ids
             /\ requests[i] \in Request /\ ~Terminal(requests[i]) /\ requests[i] # Absent
             /\ Selecting(DecodeForward(requests[i]))
             /\ DecodeForward(requests[i]) \in Request
             /\ DecodeForward(requests[i]).output = requests[i].output
             /\ DecodeForward(requests[i]).consumed = requests[i].consumed
  <2>1. requests[i].status = "decode" /\ i \in Ids
    BY <1>6 DEF MayDecode, NextBatch, Ready, WithStatus
  <2>2. Present(requests[i]) /\ requests[i] \in Request
    BY <2>1, GoodTyped DEF Inv, GoodTable
  <2>3. Selecting(DecodeForward(requests[i])) /\ DecodeForward(requests[i]) \in Request
    BY <2>1, <2>2, ForwardSelecting DEF Selecting, Sound
  <2>4. /\ DecodeForward(requests[i]).output = requests[i].output
        /\ DecodeForward(requests[i]).consumed = requests[i].consumed
    BY <2>2 DEF DecodeForward, Request
  <2> QED BY <2>1, <2>2, <2>3, <2>4, AbsentTyped DEF Terminal
<1>7. ASSUME NEW B \in SUBSET Ids, MayDecode(B), NEW i \in B, NEW outcome \in Outcomes
      PROVE  LET q == Select(DecodeForward(requests[i]), outcome) IN
             /\ q \in Request
             /\ requests[i].consumed <= Len(q.output)
             /\ SubSeq(q.output, 1, requests[i].consumed)
                  = SubSeq(requests[i].output, 1, requests[i].consumed)
  <2> DEFINE f == DecodeForward(requests[i])
  <2>1. Selecting(f) /\ f.output = requests[i].output /\ f.consumed = requests[i].consumed
    BY <1>6, <1>7
  <2> HIDE DEF f
  <2>2. Sound(Select(f, outcome))
    BY <2>1, SelectSound
  <2> QED BY <2>1, <2>2, SelectionDelivers DEF Sound, f
<1>8. ASSUME NEW B \in SUBSET Ids, MayDecode(B), NEW next, NEW j \in Ids,
             requests' = [i \in Ids |-> IF i \in B THEN next[i] ELSE requests[i]],
             j \in B =>
               /\ requests[j].consumed <= Len(next[j].output)
               /\ SubSeq(next[j].output, 1, requests[j].consumed)
                    = SubSeq(requests[j].output, 1, requests[j].consumed)
      PROVE  Evolves(requests[j], requests'[j])
  <2>1. CASE j \in B
    BY <1>6, <1>8, <2>1 DEF Evolves
  <2>2. CASE j \notin B
    BY <1>8, <2>2, EvolvesSame DEF Inv, GoodTable
  <2> QED BY <2>1, <2>2
<1>9. ASSUME NEW B \in SUBSET Ids, NEW outcomes \in [B -> Outcomes], NEW j \in Ids,
             DecodeRows(B, outcomes)
      PROVE  Evolves(requests[j], requests'[j])
  <2> DEFINE next == [i \in Ids |-> Retire(Select(DecodeForward(requests[i]), outcomes[i]))]
  <2>1. MayDecode(B) /\ requests' = [i \in Ids |-> IF i \in B THEN next[i] ELSE requests[i]]
    BY <1>9 DEF DecodeRows
  <2>2. ASSUME j \in B
        PROVE  /\ requests[j].consumed <= Len(next[j].output)
               /\ SubSeq(next[j].output, 1, requests[j].consumed)
                    = SubSeq(requests[j].output, 1, requests[j].consumed)
    <3> DEFINE q == Select(DecodeForward(requests[j]), outcomes[j])
    <3>1. /\ q \in Request
          /\ requests[j].consumed <= Len(q.output)
          /\ SubSeq(q.output, 1, requests[j].consumed)
               = SubSeq(requests[j].output, 1, requests[j].consumed)
      BY <1>7, <2>1, <2>2
    <3>2. next[j] = Retire(q)
      OBVIOUS
    <3> HIDE DEF q, next
    <3>3. next[j].output = q.output
      BY <3>1, <3>2, RetireFields
    <3> QED BY <3>1, <3>3
  <2> HIDE DEF next
  <2> QED BY <1>8, <2>1, <2>2
<1>10. ASSUME NEW B \in SUBSET Ids, NEW j \in Ids, DecodeFails(B)
       PROVE  Evolves(requests[j], requests'[j])
  <2> DEFINE next == [i \in Ids |-> Retire(Fail(requests[i]))]
  <2>1. MayDecode(B) /\ requests' = [i \in Ids |-> IF i \in B THEN next[i] ELSE requests[i]]
    BY <1>10 DEF DecodeFails
  <2>2. ASSUME j \in B
        PROVE  /\ requests[j].consumed <= Len(next[j].output)
               /\ SubSeq(next[j].output, 1, requests[j].consumed)
                    = SubSeq(requests[j].output, 1, requests[j].consumed)
    <3>1. requests[j] \in Request /\ Sound(requests[j])
      BY <1>6, <2>1, <2>2 DEF Present
    <3>2. next[j].output = requests[j].output
      BY <2>2, <3>1, EndedOutput
    <3> QED BY <3>1, <3>2 DEF Sound
  <2> HIDE DEF next
  <2> QED BY <1>8, <2>1, <2>2
<1>11. ASSUME NEW B \in SUBSET Ids, NEW outcomes \in [B -> Outcomes], NEW at \in B,
              NEW j \in Ids, DecodeThrows(B, at, outcomes)
       PROVE  Evolves(requests[j], requests'[j])
  <2> DEFINE row(i) == IF Before(i, at, lastDecode) /\ i # at
                       THEN Select(DecodeForward(requests[i]), outcomes[i])
                       ELSE IF i = at THEN DecodeForward(requests[i]) ELSE requests[i]
             next == [i \in Ids |-> Retire(Fail(row(i)))]
  <2>1. MayDecode(B) /\ requests' = [i \in Ids |-> IF i \in B THEN next[i] ELSE requests[i]]
    BY <1>11 DEF DecodeThrows
  <2>2. ASSUME j \in B
        PROVE  /\ requests[j].consumed <= Len(next[j].output)
               /\ SubSeq(next[j].output, 1, requests[j].consumed)
                    = SubSeq(requests[j].output, 1, requests[j].consumed)
    <3>1. /\ requests[j] \in Request /\ Sound(requests[j])
          /\ DecodeForward(requests[j]) \in Request
          /\ DecodeForward(requests[j]).output = requests[j].output
      BY <1>6, <2>1, <2>2 DEF Present
    <3>2. /\ row(j) \in Request
          /\ requests[j].consumed <= Len(row(j).output)
          /\ SubSeq(row(j).output, 1, requests[j].consumed)
               = SubSeq(requests[j].output, 1, requests[j].consumed)
      <4>1. CASE Before(j, at, lastDecode) /\ j # at
        BY <1>7, <2>1, <2>2, <4>1
      <4>2. CASE ~(Before(j, at, lastDecode) /\ j # at)
        BY <3>1, <4>2 DEF Sound
      <4> QED BY <4>1, <4>2
    <3>3. next[j] = Retire(Fail(row(j)))
      OBVIOUS
    <3> HIDE DEF row, next
    <3>4. next[j].output = row(j).output
      BY <3>2, <3>3, EndedOutput
    <3> QED BY <3>2, <3>4
  <2> HIDE DEF next
  <2> QED BY <1>8, <2>1, <2>2
<1> QED
  BY <1>1, <1>3, <1>4, <1>5, <1>9, <1>10, <1>11 DEF Work

(* What any step does to each entry.                                        *)
LEMMA StepEvolves ==
    ASSUME Inv, Inv', [Next]_vars
    PROVE  \A j \in Ids : Evolves(requests[j], requests'[j]) \/ (j = nextId /\ nextId' = nextId + 1)
<1>1. CASE UNCHANGED vars
  BY <1>1, NoneEvolves DEF vars
<1> QED
  BY <1>1, CallerEvolves, AdmissionEvolves, WorkEvolves DEF Next

(* IDs are handed out one by one.                                           *)
LEMMA IdsInOrder ==
    ASSUME Turns, [Next]_vars
    PROVE  nextId' \in {nextId, nextId + 1}
<1>1. CASE UNCHANGED vars
  BY <1>1 DEF vars
<1>2. CASE Caller
  BY <1>2 DEF Caller, SubmitQueued, SubmitActive, SubmitRefused, Enter, ReadOutput,
              Cancel, Release, FindPrefix, RegisterKnown, Register, DropHandle
<1>3. CASE StepAdmission
  BY <1>3 DEF StepAdmission, StepWithoutAdmission, Admit, AdmitWithoutRoom, AdmitFails
<1>4. CASE Work
  BY <1>4 DEF Work, StepIdle, PrefillFails, PrefillForward, PrefillPublish,
              PrefillFallback, PrefillDone, DecodeFails, DecodeRows, DecodeThrows, DecodeDone
<1> QED
  BY <1>1, <1>2, <1>3, <1>4 DEF Next

(* An ID is unused until it is handed out.                                  *)
THEOREM IdsUnused == Spec => []Unused
<1>1. Init => Unused
  BY DEF Init, Unused
<1>2. Unused /\ Inv /\ Inv' /\ Turns /\ [Next]_vars => Unused'
  <2> SUFFICES ASSUME Unused, Inv, Inv', Turns, [Next]_vars, NEW i \in Ids, i >= nextId'
               PROVE  requests'[i] = Absent
    BY DEF Unused
  <2>1. nextId \in Nat /\ nextId' \in {nextId, nextId + 1} /\ i \in Nat
    BY IdsInOrder DEF Turns, Ids
  <2>2. i >= nextId /\ ~(i = nextId /\ nextId' = nextId + 1)
    BY <2>1
  <2>3. requests[i] = Absent /\ Evolves(requests[i], requests'[i])
    BY <2>2, StepEvolves DEF Unused
  <2> QED BY <2>3 DEF Evolves
<1> QED
  BY <1>1, <1>2, Invariance, PTL DEF Spec

(* A token that a reader was given is never changed or taken back, although *)
(* a stop sequence that completes later cuts the output.                    *)
THEOREM DeliveredForGood == Spec => DeliveredStable
<1>1. Unused /\ Inv /\ Inv' /\ [Next]_vars =>
      [\A i \in Ids :
         requests'[i].status # "absent" =>
            /\ requests[i].consumed <= Len(requests'[i].output)
            /\ SubSeq(requests'[i].output, 1, requests[i].consumed)
                 = SubSeq(requests[i].output, 1, requests[i].consumed)]_vars
  <2> SUFFICES ASSUME Unused, Inv, Inv', [Next]_vars, NEW i \in Ids,
                      requests'[i].status # "absent"
               PROVE  /\ requests[i].consumed <= Len(requests'[i].output)
                      /\ SubSeq(requests'[i].output, 1, requests[i].consumed)
                           = SubSeq(requests[i].output, 1, requests[i].consumed)
    OBVIOUS
  <2>1. CASE Evolves(requests[i], requests'[i])
    BY <2>1, AbsentTyped DEF Evolves
  <2>2. CASE i = nextId
    <3>1. nextId >= nextId => requests[i] = Absent
      BY <2>2 DEF Unused
    <3>2. i >= i
      BY DEF Ids
    <3>3. requests[i].consumed = 0 /\ requests'[i].output \in Seq(Vocab)
      BY <2>2, <3>1, <3>2, AbsentTyped, GoodTyped DEF Inv, GoodTable, Request
    <3>4. /\ SubSeq(requests'[i].output, 1, 0) = <<>> /\ SubSeq(requests[i].output, 1, 0) = <<>>
          /\ Len(requests'[i].output) \in Nat
      BY <3>3, SubSeqEmpty, LenProperties
    <3> QED BY <3>3, <3>4
  <2> QED BY <2>1, <2>2, StepEvolves
<1> QED
  BY <1>1, IdsUnused, Invariance, PTL DEF Spec, DeliveredStable

(* A request ends once, and the ID of a released one never comes back.      *)
THEOREM EndIsFinal == Spec => TerminalIsFinal
<1>1. Unused /\ Inv /\ Inv' /\ Turns /\ [Next]_vars =>
      [\A i \in Ids :
        /\ Terminal(requests[i]) => requests'[i].status \in {requests[i].status, "absent"}
        /\ i < nextId /\ requests[i].status = "absent" => requests'[i].status = "absent"]_vars
  <2> SUFFICES ASSUME Unused, Inv, Inv', Turns, [Next]_vars, NEW i \in Ids
               PROVE  /\ Terminal(requests[i]) =>
                           requests'[i].status \in {requests[i].status, "absent"}
                      /\ i < nextId /\ requests[i].status = "absent" =>
                           requests'[i].status = "absent"
    OBVIOUS
  <2>1. nextId \in Nat /\ i \in Nat
    BY DEF Turns, Ids
  <2>2. requests[i].status = "absent" => requests[i] = Absent
    BY GoodTyped DEF Inv, GoodTable
  <2>3. CASE Evolves(requests[i], requests'[i])
    BY <2>2, <2>3, AbsentTyped DEF Evolves
  <2>4. CASE i = nextId
    <3>1. requests[i] = Absent
      BY <2>1, <2>4 DEF Unused
    <3> QED BY <2>1, <2>4, <3>1, AbsentTyped DEF Terminal
  <2> QED BY <2>3, <2>4, StepEvolves
<1> QED
  BY <1>1, IdsUnused, Invariance, PTL DEF Spec, TerminalIsFinal

-----------------------------------------------------------------------------
(* What the store loses in a step: only what nobody refers to.              *)

\* The snapshots in a list of the store.
EntriesOf(list) == {list[k] : k \in DOMAIN list}

(* Different entries are at different ranks.                                *)
LEMMA RanksDiffer ==
    ASSUME NEW m \in Nat, NEW K \in SUBSET (1..m), NEW x \in K, NEW y \in K,
           Cardinality(K \cap (1..x)) = Cardinality(K \cap (1..y))
    PROVE  x = y
<1> DEFINE Upto(k) == K \cap (1..k)
<1>1. \A k \in K : IsFiniteSet(Upto(k))
  <2>1. IsFiniteSet(1..m)
    BY FS_Interval
  <2>2. IsFiniteSet(K)
    BY <2>1, FS_Subset
  <2> QED BY <2>2, FS_Subset
<1>2. ASSUME NEW j \in K, NEW k \in K, j < k, Cardinality(Upto(j)) = Cardinality(Upto(k))
      PROVE  FALSE
  <2>1. Upto(j) \in SUBSET Upto(k) /\ k \in Upto(k) /\ k \notin Upto(j)
    BY <1>2
  <2>2. Upto(k) = Upto(j)
    <3> HIDE DEF Upto
    <3> QED BY <1>1, <1>2, <2>1, FS_Subset
  <2> QED BY <2>1, <2>2
<1>3. x \in Nat /\ y \in Nat
  OBVIOUS
<1>4. Cardinality(Upto(x)) = Cardinality(Upto(y))
  OBVIOUS
<1> HIDE DEF Upto
<1> QED
  BY <1>2, <1>3, <1>4

(* Keeping some positions keeps their entries.                              *)
LEMMA KeepHolds ==
    ASSUME NEW S, NEW list \in Seq(S), NEW K \in SUBSET DOMAIN list, NEW k \in K
    PROVE  list[k] \in EntriesOf(Keep(list, K))
<1> DEFINE m == Len(list)
           Upto(x) == K \cap (1..x)
           n == Cardinality(Upto(k))
           Places == {x \in K : Cardinality(Upto(x)) = n}
           j == CHOOSE x \in K : Cardinality(Upto(x)) = n
<1>1. m \in Nat /\ DOMAIN list = 1..m /\ K \subseteq 1..m
  BY LenProperties
<1>2. IsFiniteSet(K) /\ Cardinality(K) \in Nat
  <2>1. IsFiniteSet(1..m)
    BY <1>1, FS_Interval
  <2> QED BY <1>1, <2>1, FS_Subset, FS_CardinalityType
<1>3. \A x \in K : /\ IsFiniteSet(Upto(x)) /\ Cardinality(Upto(x)) \in Nat
                   /\ Cardinality(Upto(x)) <= Cardinality(K)
  BY <1>2, FS_Subset, FS_CardinalityType
<1>5. j \in K /\ Cardinality(Upto(j)) = n
  <2> HIDE DEF Upto
  <2> QED BY DEF n
<1>6. j = k
  BY <1>1, <1>5, RanksDiffer
<1>7. n \in 1..Cardinality(K)
  <2>1. Upto(k) # {}
    BY <1>1
  <2>2. n # 0
    <3> HIDE DEF Upto
    <3> QED BY <1>3, <2>1, FS_EmptySet
  <2> HIDE DEF Upto
  <2> QED BY <1>2, <1>3, <2>2
<1>8. Keep(list, K)[n] = list[k] /\ n \in DOMAIN Keep(list, K)
  <2>1. Keep(list, K) = [x \in 1..Cardinality(K) |->
                          list[CHOOSE y \in K : Cardinality(K \cap (1..y)) = x]]
    BY DEF Keep
  <2>2. Keep(list, K)[n] = list[j]
    <3> HIDE DEF n
    <3>1. Keep(list, K)[n] = list[CHOOSE y \in K : Cardinality(K \cap (1..y)) = n]
      BY <1>7, <2>1
    <3> QED BY <3>1
  <2> HIDE DEF n, j
  <2> QED BY <1>6, <1>7, <2>1, <2>2
<1> HIDE DEF n
<1> QED
  BY <1>8 DEF EntriesOf

(* An eviction keeps every pinned entry.                                    *)
LEMMA EvictHolds ==
    ASSUME NEW S, NEW st, st.list \in Seq(S), NEW need, NEW pinned,
           NEW p \in pinned, p \in EntriesOf(st.list)
    PROVE  p \in EntriesOf(Evict(st, need, pinned).list)
<1> DEFINE gone == Evicted(st, need, pinned)
           K == DOMAIN st.list \ gone
<1>1. PICK k \in DOMAIN st.list : st.list[k] = p
  BY DEF EntriesOf
<1>2. k \in K
  BY <1>1 DEF Evicted
<1>3. Evict(st, need, pinned).list = Keep(st.list, K)
  BY DEF Evict
<1>4. K \in SUBSET DOMAIN st.list
  OBVIOUS
<1> HIDE DEF K
<1> QED
  BY <1>1, <1>2, <1>3, <1>4, KeepHolds

(* A new entry displaces none.                                              *)
LEMMA PushHolds ==
    ASSUME NEW S, NEW st, st.list \in Seq(S), NEW q \in S, NEW p \in EntriesOf(st.list)
    PROVE  p \in EntriesOf(Push(st, q).list)
<1> DEFINE list == st.list
           longer == Append(list, q)
<1>1. PICK k \in DOMAIN list : list[k] = p
  BY DEF EntriesOf
<1>2. /\ Len(list) \in Nat /\ DOMAIN list = 1..Len(list)
      /\ Len(longer) = Len(list) + 1 /\ longer \in Seq(S)
      /\ \A n \in 1..Len(list) : longer[n] = list[n]
  BY LenProperties, AppendProperties
<1>3. Push(st, q).list = longer
  BY DEF Push
<1> HIDE DEF list, longer
<1>4. DOMAIN longer = 1..(Len(list) + 1)
  BY <1>2, LenProperties
<1>5. k \in DOMAIN longer /\ longer[k] = p
  BY <1>1, <1>2, <1>4
<1> QED
  BY <1>3, <1>5 DEF EntriesOf

(* What is where after a touch.                                             *)
LEMMA TouchMoves ==
    ASSUME NEW S, prefixes \in Seq(S), NEW k \in DOMAIN prefixes
    PROVE  LET after == Touch(TheStore, k).list
               n == Len(prefixes)
           IN  /\ after \in Seq(S) /\ Len(after) = n
               /\ \A j \in 1..(k - 1) : after[j] = prefixes[j]
               /\ \A j \in k..(n - 1) : after[j] = prefixes[j + 1]
               /\ after[n] = prefixes[k]
<1> DEFINE n == Len(prefixes)
           front == SubSeq(prefixes, 1, k - 1)
           back == SubSeq(prefixes, k + 1, n)
           last == <<prefixes[k]>>
           after == Touch(TheStore, k).list
<1>1. n \in Nat /\ k \in 1..n /\ DOMAIN prefixes = 1..n
  BY LenProperties
<1>2. \A j \in 1..n : prefixes[j] \in S
  BY ElementOfSeq
<1> HIDE DEF n
<1>3. /\ front \in Seq(S) /\ Len(front) = k - 1
      /\ \A i \in 1..(k - 1) : front[i] = prefixes[i]
  <2>1. /\ front \in Seq(S) /\ Len(front) = (IF 1 <= k - 1 THEN k - 1 - 1 + 1 ELSE 0)
        /\ \A i \in 1..(k - 1 - 1 + 1) : front[i] = prefixes[1 + i - 1]
    BY <1>1, <1>2, SubSeqProperties
  <2>2. k - 1 - 1 + 1 = k - 1 /\ \A i \in 1..(k - 1) : 1 + i - 1 = i
    BY <1>1
  <2> HIDE DEF front
  <2> QED BY <1>1, <2>1, <2>2
<1>4. /\ back \in Seq(S) /\ Len(back) = n - k
      /\ \A i \in 1..(n - k) : back[i] = prefixes[k + i]
  <2>1. /\ back \in Seq(S)
        /\ Len(back) = (IF k + 1 <= n THEN n - (k + 1) + 1 ELSE 0)
        /\ \A i \in 1..(n - (k + 1) + 1) : back[i] = prefixes[(k + 1) + i - 1]
    BY <1>1, <1>2, SubSeqProperties
  <2>2. /\ n - (k + 1) + 1 = n - k
        /\ \A i \in 1..(n - k) : (k + 1) + i - 1 = k + i
    BY <1>1
  <2> HIDE DEF back
  <2> QED BY <1>1, <2>1, <2>2
<1>5. last \in Seq(S) /\ Len(last) = 1 /\ last[1] = prefixes[k]
  BY <1>1, <1>2
<1>6. after = front \o back \o last
  BY DEF Touch, TheStore, n
<1> HIDE DEF front, back, last, after
<1> DEFINE most == front \o back
<1>7. /\ most \in Seq(S) /\ Len(most) = n - 1
      /\ \A i \in 1..(n - 1) : most[i] = IF i <= k - 1 THEN front[i] ELSE back[i - (k - 1)]
  <2>1. /\ most \in Seq(S) /\ Len(most) = Len(front) + Len(back)
        /\ \A i \in 1..(Len(front) + Len(back)) :
              most[i] = IF i <= Len(front) THEN front[i] ELSE back[i - Len(front)]
    BY <1>3, <1>4, ConcatProperties
  <2>2. Len(front) + Len(back) = n - 1
    BY <1>1, <1>3, <1>4
  <2> HIDE DEF most
  <2> QED BY <1>3, <2>1, <2>2
<1>8. after = most \o last
  BY <1>6
<1> HIDE DEF most
<1>9. /\ after \in Seq(S) /\ Len(after) = n
      /\ \A i \in 1..n : after[i] = IF i <= n - 1 THEN most[i] ELSE last[i - (n - 1)]
  <2>1. /\ after \in Seq(S) /\ Len(after) = Len(most) + Len(last)
        /\ \A i \in 1..(Len(most) + Len(last)) :
              after[i] = IF i <= Len(most) THEN most[i] ELSE last[i - Len(most)]
    BY <1>5, <1>7, <1>8, ConcatProperties
  <2>2. Len(most) + Len(last) = n /\ Len(most) = n - 1
    BY <1>1, <1>5, <1>7
  <2> QED BY <2>1, <2>2
<1>10. ASSUME NEW j \in 1..(k - 1) PROVE after[j] = prefixes[j]
  <2>1. j \in 1..n /\ j <= n - 1 /\ j \in 1..(n - 1) /\ j <= k - 1
    BY <1>1
  <2> QED BY <1>3, <1>7, <1>9, <2>1
<1>11. ASSUME NEW j \in k..(n - 1) PROVE after[j] = prefixes[j + 1]
  <2>1. j \in 1..n /\ j <= n - 1 /\ j \in 1..(n - 1) /\ ~(j <= k - 1)
    BY <1>1
  <2>2. j - (k - 1) \in 1..(n - k) /\ k + (j - (k - 1)) = j + 1
    BY <1>1
  <2>3. after[j] = back[j - (k - 1)]
    BY <1>7, <1>9, <2>1
  <2>4. back[j - (k - 1)] = prefixes[k + (j - (k - 1))]
    BY <1>4, <2>2
  <2> QED BY <2>2, <2>3, <2>4
<1>12. after[n] = prefixes[k]
  <2>1. n \in 1..n /\ ~(n <= n - 1) /\ n - (n - 1) = 1
    BY <1>1
  <2> QED BY <1>5, <1>9, <2>1
<1> QED
  BY <1>9, <1>10, <1>11, <1>12 DEF n, after

(* Touching an entry loses none.                                            *)
LEMMA TouchHolds ==
    ASSUME NEW S, prefixes \in Seq(S), NEW k \in DOMAIN prefixes, NEW p \in Stored
    PROVE  p \in EntriesOf(Touch(TheStore, k).list)
<1> DEFINE n == Len(prefixes)
           after == Touch(TheStore, k).list
<1>1. n \in Nat /\ DOMAIN prefixes = 1..n /\ k \in 1..n
  BY LenProperties
<1>2. /\ after \in Seq(S) /\ Len(after) = n
      /\ \A j \in 1..(k - 1) : after[j] = prefixes[j]
      /\ \A j \in k..(n - 1) : after[j] = prefixes[j + 1]
      /\ after[n] = prefixes[k]
  BY TouchMoves
<1>3. PICK j \in 1..n : prefixes[j] = p
  BY <1>1 DEF Stored
<1> HIDE DEF n, after
<1>4. DOMAIN after = 1..n
  BY <1>2, LenProperties
<1>5. \E i \in 1..n : after[i] = p
  <2>1. CASE j < k
    BY <1>1, <1>2, <1>3, <2>1, j \in 1..(k - 1)
  <2>2. CASE j = k
    BY <1>1, <1>2, <1>3, <2>2, n \in 1..n
  <2>3. CASE j > k
    <3>1. j - 1 \in k..(n - 1) /\ (j - 1) + 1 = j /\ j - 1 \in 1..n
      BY <1>1, <1>3, <2>3
    <3>2. after[j - 1] = prefixes[j]
      BY <1>2, <3>1
    <3> QED BY <1>3, <3>1, <3>2
  <2> QED BY <1>1, <1>3, <2>1, <2>2, <2>3
<1> QED
  BY <1>4, <1>5 DEF EntriesOf, after

(* Nor does an adoption lose a pinned entry.                                *)
LEMMA AdoptHolds ==
    ASSUME prefixes \in Seq(Entry), NEW q \in Entry, NEW pinned, NEW p \in pinned, p \in Stored
    PROVE  /\ p \in EntriesOf(Adopt(q, pinned).list)
           /\ p \in EntriesOf(AdoptRoom(q, pinned).list)
<1>1. TheStore.list = prefixes /\ p \in EntriesOf(TheStore.list)
  BY DEF TheStore, EntriesOf, Stored
<1>2. p \in EntriesOf(AdoptRoom(q, pinned).list)
  BY <1>1, EvictHolds DEF AdoptRoom
<1>3. CASE q \in Stored
  <2> DEFINE Ks == {k \in DOMAIN prefixes : prefixes[k] = q}
  <2>1. Ks \in SUBSET Nat /\ Ks # {}
    BY <1>3, LenProperties DEF Stored
  <2>2. PositionOf(q) \in Ks
    <3> HIDE DEF Ks
    <3>1. Least(Ks) \in Ks
      BY <2>1, LeastOf
    <3> QED BY <3>1 DEF PositionOf, Ks
  <2>3. PositionOf(q) \in DOMAIN prefixes
    BY <2>2
  <2>4. p \in EntriesOf(Touch(TheStore, PositionOf(q)).list)
    BY <2>3, TouchHolds
  <2> QED BY <1>2, <1>3, <2>4 DEF Adopt
<1>4. CASE q \notin Stored
  <2>1. AdoptRoom(q, pinned).list \in Seq(Entry)
    BY AdoptTyped
  <2>2. p \in EntriesOf(Push(AdoptRoom(q, pinned), q).list)
    BY <1>2, <2>1, PushHolds
  <2> QED BY <1>2, <1>4, <2>2 DEF Adopt
<1> QED
  BY <1>3, <1>4

(* Of the snapshots that match there is a longest one.                      *)
LEMMA LongestExists ==
    ASSUME Inv, NEW e \in Registrations
    PROVE  LET found == {k \in DOMAIN prefixes :
                            prefixes[k].ns = e.ns /\ Matches(prefixes[k], e.tokens)}
           IN  found # {} => {k \in found : \A j \in found :
                                Len(prefixes[j].tokens) <= Len(prefixes[k].tokens)} # {}
<1> DEFINE found == {k \in DOMAIN prefixes :
                        prefixes[k].ns = e.ns /\ Matches(prefixes[k], e.tokens)}
           lengths == {Len(prefixes[k].tokens) : k \in found}
<1>1. DOMAIN prefixes = 1..Len(prefixes) /\ Len(prefixes) \in Nat
  BY LenProperties DEF Inv
<1>2. Len(e.tokens) \in Nat
  BY CallerAssumption, LenProperties
<1>3. \A k \in found : Len(prefixes[k].tokens) \in 0..Len(e.tokens)
  <2>1. ASSUME NEW k \in found PROVE Len(prefixes[k].tokens) \in 0..Len(e.tokens)
    <3>1. prefixes[k] \in Entry /\ Len(prefixes[k].tokens) <= Len(e.tokens)
      BY <1>1, ElementOfSeq DEF Inv, Matches
    <3>2. prefixes[k].tokens \in Seq(Int)
      BY <3>1 DEF Entry, Usable, Snapshot
    <3> QED BY <1>2, <3>1, <3>2, LenProperties
  <2> QED BY <2>1
<1>4. lengths \in SUBSET (0..Len(e.tokens))
  BY <1>3
<1> SUFFICES ASSUME found # {}
             PROVE  \E k \in found : \A j \in found :
                       Len(prefixes[j].tokens) <= Len(prefixes[k].tokens)
  OBVIOUS
<1>5. lengths # {}
  OBVIOUS
<1> HIDE DEF lengths
<1>6. PICK n \in lengths : \A m \in lengths : m <= n
  BY <1>2, <1>4, <1>5, GreatestIn
<1> QED
  BY <1>6 DEF lengths

(* What a call keeps in the store.                                          *)
LEMMA CallerRetains ==
    ASSUME Inv, Caller, NEW p \in Stored \cap Pinned(requests)
    PROVE  p \in Stored'
<1> USE DEF store
<1>1. /\ prefixes \in Seq(Entry) /\ TheStore.list = prefixes /\ TheStore.list \in Seq(Entry)
      /\ p \in EntriesOf(TheStore.list)
  BY DEF Inv, TheStore, EntriesOf, Stored
<1>2. ASSUME NEW st, SetStore(st), p \in EntriesOf(st.list)
      PROVE  p \in Stored'
  BY <1>2 DEF SetStore, EntriesOf, Stored
<1>3. ASSUME UNCHANGED prefixes PROVE p \in Stored'
  BY <1>3 DEF Stored
<1>4. ASSUME NEW s \in Specs, NEW q \in handles \cup {NoPrefix},
             SubmitQueued(s, q) \/ SubmitActive(s, q) \/ SubmitRefused(s, q)
      PROVE  p \in Stored'
  <2>1. Acceptable(s, q)
    BY <1>4 DEF SubmitQueued, SubmitActive, SubmitRefused
  <2>2. \/ UNCHANGED prefixes
        \/ q # NoPrefix /\ SetStore(Adopt(q, Pinned(requests)))
        \/ q # NoPrefix /\ SetStore(AdoptRoom(q, Pinned(requests)))
    BY <1>4 DEF SubmitQueued, SubmitActive, SubmitRefused
  <2> QED BY <1>1, <1>2, <1>3, <2>1, <2>2, SubmittedPresent, AdoptHolds
<1>5. ASSUME NEW i \in Ids,
             \/ \E max \in 1..MaxBuffered : ReadOutput(i, max)
             \/ Cancel(i) \/ Release(i)
      PROVE  p \in Stored'
  BY <1>3, <1>5 DEF ReadOutput, Cancel, Release
<1>6. ASSUME NEW e \in Registrations, FindPrefix(e.ns, e.tokens)
      PROVE  p \in Stored'
  <2> DEFINE found == {k \in DOMAIN prefixes :
                          prefixes[k].ns = e.ns /\ Matches(prefixes[k], e.tokens)}
             longest == {k \in found : \A j \in found :
                          Len(prefixes[j].tokens) <= Len(prefixes[k].tokens)}
             best == Least(longest)
  <2>1. found # {} /\ SetStore(Touch(TheStore, best))
    BY <1>6 DEF FindPrefix
  <2>2. best \in DOMAIN prefixes
    <3>1. longest # {}
      BY <2>1, LongestExists
    <3>2. longest \in SUBSET Nat
      BY <1>1, LenProperties
    <3>3. best \in longest
      <4> HIDE DEF longest
      <4> QED BY <3>1, <3>2, LeastOf
    <3> QED BY <3>3
  <2> HIDE DEF best
  <2> QED BY <1>1, <1>2, <2>1, <2>2, TouchHolds
<1>7. ASSUME NEW e \in Registrations, RegisterKnown(e.ns, e.tokens)
      PROVE  p \in Stored'
  BY <1>3, <1>7 DEF RegisterKnown
<1>8. ASSUME NEW e \in Registrations, NEW built \in BOOLEAN, Register(e.ns, e.tokens, built)
      PROVE  p \in Stored'
  <2> DEFINE room == Evict(TheStore, Charge[Len(e.tokens)], Pinned(requests))
             q == NewPrefix(e.ns, e.tokens)
  <2>1. SetStore(Push(room, q)) \/ SetStore(room)
    BY <1>8 DEF Register
  <2>2. room.list \in Seq(Entry) /\ p \in EntriesOf(room.list)
    BY <1>1, EvictTyped, EvictHolds
  <2>3. q \in Entry
    <3>1. e.ns \in Namespaces /\ e.tokens \in Seq(Int)
      BY CallerAssumption
    <3>2. e.tokens # <<>> /\ Len(e.tokens) <= MaxContext
      <4>1. Len(e.tokens) \in 1..MaxContext
        BY <1>8 DEF Register, ValidRegistration
      <4>2. Len(e.tokens) # 0 /\ Len(e.tokens) <= MaxContext
        BY <4>1, EngineAssumption
      <4> QED BY <4>2, EmptySeq
    <3> QED BY <3>1, <3>2, NewPrefixTyped DEF Inv, GoodTable, Usable
  <2> HIDE DEF room, q
  <2> QED BY <1>2, <2>1, <2>2, <2>3, PushHolds
<1>9. ASSUME NEW q \in handles, DropHandle(q)
      PROVE  p \in Stored'
  BY <1>3, <1>9 DEF DropHandle
<1> QED
  BY <1>4, <1>5, <1>6, <1>7, <1>8, <1>9 DEF Caller

(* What an admission keeps.                                                 *)
LEMMA AdmissionRetains ==
    ASSUME Inv, StepAdmission, NEW p \in Stored, p \in Pinned(requests)'
    PROVE  p \in Stored'
<1> USE DEF store
<1> DEFINE i == Least(Candidates)
           r == Swept[i]
<1>1. prefixes \in Seq(Entry)
  BY DEF Inv
<1>2. ASSUME NEW st, SetStore(st), p \in EntriesOf(st.list)
      PROVE  p \in Stored'
  BY <1>2 DEF SetStore, EntriesOf, Stored
<1>3. ASSUME UNCHANGED prefixes PROVE p \in Stored'
  BY <1>3 DEF Stored
<1>4. ASSUME CanAdmit, NEW q \in Request, q.prefix \in {r.prefix, NoPrefix},
             requests' = [Swept EXCEPT ![i] = q], UNCHANGED handles
      PROVE  p \in Pinned(Swept)
  <2>1. Swept \in [Ids -> Request]
    BY SweptGood DEF GoodTable
  <2>2. \A j \in Ids : requests'[j].prefix \in {Swept[j].prefix, NoPrefix}
    <3> SUFFICES ASSUME NEW j \in Ids PROVE requests'[j].prefix \in {Swept[j].prefix, NoPrefix}
      OBVIOUS
    <3>1. requests'[j] = IF j = i THEN q ELSE Swept[j]
      <4> HIDE DEF i
      <4> QED BY <1>4, <2>1
    <3> HIDE DEF i
    <3> QED BY <1>4, <3>1
  <2>3. p \in handles \cup ({requests'[j].prefix : j \in Ids} \ {NoPrefix})
    BY <1>4 DEF Pinned, Attached
  <2> QED BY <2>2, <2>3 DEF Pinned, Attached
<1>5. ASSUME CanAdmit
      PROVE  /\ r \in Request /\ Present(r)
             /\ Activate(r) \in Request /\ Activate(r).prefix = r.prefix
             /\ NeedsAdoption(r) => r.prefix \in Entry
  <2>1. Present(r) /\ r.status = "queued"
    BY <1>5, CandidateQueued DEF CanAdmit
  <2> DEFINE start == Len(r.prefix.tokens)
  <2> HIDE DEF r
  <2>2. r \in Request /\ Present(Activate(r)) /\ Activate(r) \in Request
    BY <2>1, ActivatePresent DEF Present, Sound
  <2>3. Activate(r) = [r EXCEPT !.status = "prefill", !.resident = TRUE,
                                !.cached = start, !.committed = start]
    BY DEF Activate
  <2> HIDE DEF start
  <2>4. Activate(r).prefix = r.prefix
    BY <2>2, <2>3 DEF Request
  <2>5. NeedsAdoption(r) => r.prefix \in Entry
    BY <2>1 DEF Present, Sound, NeedsAdoption
  <2> QED BY <2>1, <2>2, <2>4, <2>5
<1>6. CASE StepWithoutAdmission
  BY <1>3, <1>6 DEF StepWithoutAdmission
<1>7. CASE AdmitFails
  BY <1>3, <1>7 DEF AdmitFails
<1>8. CASE Admit
  <2>1. /\ CanAdmit /\ requests' = [Swept EXCEPT ![i] = Activate(r)] /\ UNCHANGED handles
        /\ IF NeedsAdoption(r) THEN SetStore(Adopt(r.prefix, Pinned(Swept)))
                               ELSE UNCHANGED store
    BY <1>8 DEF Admit
  <2>2. p \in Pinned(Swept)
    <3> DEFINE q == Activate(r)
    <3>1. q \in Request /\ q.prefix \in {r.prefix, NoPrefix} /\ requests' = [Swept EXCEPT ![i] = q]
      BY <1>5, <2>1
    <3> HIDE DEF q, i
    <3> QED BY <1>4, <2>1, <3>1 DEF i
  <2> HIDE DEF r, i
  <2>3. CASE NeedsAdoption(r)
    BY <1>1, <1>2, <1>5, <2>1, <2>2, <2>3, AdoptHolds
  <2>4. CASE ~NeedsAdoption(r)
    BY <1>3, <2>1, <2>4
  <2> QED BY <2>3, <2>4
<1>9. CASE AdmitWithoutRoom
  <2> DEFINE a == Activate(r)
             q == Retire(Fail(a))
  <2>1. /\ CanAdmit /\ NeedsAdoption(r) /\ requests' = [Swept EXCEPT ![i] = q]
        /\ SetStore(AdoptRoom(r.prefix, Pinned(Swept))) /\ UNCHANGED handles
    BY <1>9 DEF AdmitWithoutRoom
  <2>2. a \in Request /\ a.prefix = r.prefix
    BY <1>5, <2>1
  <2>3. q \in Request /\ q.prefix \in {r.prefix, NoPrefix}
    <3> HIDE DEF a, r
    <3>1. Fail(a) \in Request /\ Fail(a).prefix = r.prefix
      BY <2>2, FailFields
    <3> QED BY <3>1, RetireFields
  <2>4. p \in Pinned(Swept)
    <3> HIDE DEF q, i
    <3> QED BY <1>4, <2>1, <2>3 DEF i
  <2> HIDE DEF r, i
  <2> QED BY <1>1, <1>2, <1>5, <2>1, <2>4, AdoptHolds
<1> QED
  BY <1>6, <1>7, <1>8, <1>9 DEF StepAdmission

(* What the work of a step keeps.                                           *)
LEMMA WorkRetains ==
    ASSUME Inv, Work, NEW p \in Stored \cap Pinned(requests)
    PROVE  p \in Stored'
<1> USE DEF store
<1>1. /\ prefixes \in Seq(Entry) /\ TheStore.list \in Seq(Entry)
      /\ p \in EntriesOf(TheStore.list)
  BY DEF Inv, TheStore, EntriesOf, Stored
<1>2. ASSUME NEW st, SetStore(st), p \in EntriesOf(st.list)
      PROVE  p \in Stored'
  BY <1>2 DEF SetStore, EntriesOf, Stored
<1>3. ASSUME UNCHANGED prefixes PROVE p \in Stored'
  BY <1>3 DEF Stored
<1>4. ASSUME NEW i \in Ids, NEW outcome \in Outcomes, PrefillPublish(i, outcome)
      PROVE  p \in Stored'
  <2> DEFINE r == requests[i]
             room == Evict(TheStore, Charge[r.reg], Pinned(requests))
             q == NewPrefix(r.spec.ns, SubSeq(r.spec.prompt, 1, r.reg))
  <2>1. SetStore(Push(room, q)) /\ Publishes(r) /\ MayPrefill(i)
    BY <1>4 DEF PrefillPublish
  <2>2. Present(r)
    <3>1. r.status = "prefill"
      BY <2>1 DEF MayPrefill, NextPrefill, Ready, WithStatus
    <3> QED BY <3>1, GoodTyped DEF Inv, GoodTable
  <2>3. room.list \in Seq(Entry) /\ p \in EntriesOf(room.list)
    BY <1>1, EvictTyped, EvictHolds
  <2>4. q \in Entry
    <3> HIDE DEF r
    <3> QED BY <2>1, <2>2, PublicationTyped
  <2> HIDE DEF room, q
  <2> QED BY <1>2, <2>1, <2>3, <2>4, PushHolds
<1>5. ASSUME NEW i \in Ids, NEW outcome \in Outcomes, PrefillFallback(i, outcome)
      PROVE  p \in Stored'
  <2>1. SetStore(Evict(TheStore, Charge[requests[i].reg], Pinned(requests)))
    BY <1>5 DEF PrefillFallback
  <2> QED BY <1>1, <1>2, <2>1, EvictHolds
<1>6. CASE StepIdle
  BY <1>3, <1>6 DEF StepIdle
<1>7. ASSUME NEW i \in Ids,
             PrefillFails(i) \/ \E outcome \in Outcomes : PrefillForward(i, outcome)
      PROVE  p \in Stored'
  BY <1>3, <1>7 DEF PrefillFails, PrefillForward
<1>8. ASSUME NEW B \in SUBSET Ids,
             \/ DecodeFails(B)
             \/ \E outcomes \in [B -> Outcomes] :
                  DecodeRows(B, outcomes) \/ \E at \in B : DecodeThrows(B, at, outcomes)
      PROVE  p \in Stored'
  BY <1>3, <1>8 DEF DecodeFails, DecodeRows, DecodeThrows, DecodeDone
<1> QED
  BY <1>4, <1>5, <1>6, <1>7, <1>8 DEF Work

(* A snapshot that somebody refers to before and after a step is not        *)
(* evicted by that step, whatever has to make room.                         *)
THEOREM PinnedIsKept == Spec => PinnedRetained
<1>1. Inv /\ [Next]_vars =>
        [\A p \in Stored \cap Pinned(requests) : p \in Pinned(requests)' => p \in Stored']_vars
  <2> SUFFICES ASSUME Inv, Next, NEW p \in Stored \cap Pinned(requests), p \in Pinned(requests)'
               PROVE  p \in Stored'
    OBVIOUS
  <2> QED BY CallerRetains, AdmissionRetains, WorkRetains DEF Next
<1> QED
  BY <1>1, Invariance, PTL DEF Spec, PinnedRetained

-----------------------------------------------------------------------------
(* The byte counter of the store.                                           *)

\* The bytes of the entry at position k, and those of all entries in K.
Size(list, k) == Bytes[Len(list[k].tokens)]
Units(list, K) == UNION {{k} \X (1..Size(list, k)) : k \in K}

(* An entry has a number of bytes.                                          *)
LEMMA SizeTyped ==
    ASSUME NEW list \in Seq(Entry), NEW k \in DOMAIN list
    PROVE  Size(list, k) \in Nat
<1>1. list[k] \in Entry
  BY LenProperties, ElementOfSeq
<1>2. list[k].tokens \in Seq(Int) /\ Len(list[k].tokens) <= MaxContext
  BY <1>1 DEF Entry, Usable, Snapshot
<1>3. Len(list[k].tokens) \in 0..MaxContext
  BY <1>2, LenProperties, EngineAssumption
<1> QED
  BY <1>3, EngineAssumption DEF Size

(* The bytes of one entry.                                                  *)
LEMMA UnitsOfOne ==
    ASSUME NEW list, NEW k, Size(list, k) \in Nat
    PROVE  /\ IsFiniteSet({k} \X (1..Size(list, k)))
           /\ Cardinality({k} \X (1..Size(list, k))) = Size(list, k)
<1> DEFINE n == Size(list, k)
<1>1. IsFiniteSet({k}) /\ Cardinality({k}) = 1
  BY FS_Singleton
<1>2. IsFiniteSet(1..n) /\ Cardinality(1..n) = n
  BY FS_Interval
<1> HIDE DEF n
<1>3. IsFiniteSet(1..n) /\ Cardinality(1..n) = n
  BY <1>2
<1> DEFINE T == 1..n
<1>4. IsFiniteSet(T) /\ Cardinality(T) = n
  BY <1>3
<1> HIDE DEF T
<1>5. /\ IsFiniteSet({k} \X T)
      /\ Cardinality({k} \X T) = Cardinality({k}) * Cardinality(T)
  BY <1>1, <1>4, FS_Product
<1>6. Cardinality({k} \X T) = n
  BY <1>1, <1>4, <1>5 DEF n
<1> QED
  BY <1>5, <1>6 DEF n, T

(* A weight is a number.                                                    *)
LEMMA WeightTyped ==
    ASSUME NEW list \in Seq(Entry), NEW K \in SUBSET DOMAIN list
    PROVE  /\ IsFiniteSet(Units(list, K)) /\ Weight(list, K) = Cardinality(Units(list, K))
           /\ Weight(list, K) \in Nat
<1> DEFINE Parts == {{k} \X (1..Size(list, k)) : k \in K}
<1>1. IsFiniteSet(K)
  <2>1. DOMAIN list = 1..Len(list) /\ Len(list) \in Nat
    BY LenProperties
  <2>2. IsFiniteSet(DOMAIN list)
    BY <2>1, FS_Interval
  <2> QED BY <2>2, FS_Subset
<1>2. IsFiniteSet(Parts)
  <2> DEFINE f == [k \in K |-> {k} \X (1..Size(list, k))]
  <2>1. IsFiniteSet({f[k] : k \in K})
    <3>1. K \subseteq DOMAIN f
      OBVIOUS
    <3> HIDE DEF f
    <3> QED BY <1>1, <3>1, FiniteImage
  <2> QED BY <2>1
<1>3. \A part \in Parts : IsFiniteSet(part)
  <2> SUFFICES ASSUME NEW k \in K PROVE IsFiniteSet({k} \X (1..Size(list, k)))
    OBVIOUS
  <2> QED BY SizeTyped, UnitsOfOne
<1> HIDE DEF Parts
<1>4. IsFiniteSet(UNION Parts)
  BY <1>2, <1>3, FS_UNION
<1>5. Units(list, K) = UNION Parts /\ Weight(list, K) = Cardinality(UNION Parts)
  BY DEF Parts, Units, Weight, Size
<1> QED
  BY <1>4, <1>5, FS_CardinalityType

(* The weight of disjoint sets of positions is the sum.                     *)
LEMMA WeightSplits ==
    ASSUME NEW list \in Seq(Entry), NEW K \in SUBSET DOMAIN list, NEW L \in SUBSET DOMAIN list,
           K \cap L = {}
    PROVE  Weight(list, K \cup L) = Weight(list, K) + Weight(list, L)
<1>1. Units(list, K \cup L) = Units(list, K) \cup Units(list, L)
  BY DEF Units
<1>2. Units(list, K) \cap Units(list, L) = {}
  BY DEF Units
<1>3. Cardinality(Units(list, K) \cap Units(list, L)) = 0
  BY <1>2, FS_EmptySet
<1>4. K \cup L \in SUBSET DOMAIN list
  OBVIOUS
<1>5. /\ IsFiniteSet(Units(list, K)) /\ Weight(list, K) = Cardinality(Units(list, K))
      /\ IsFiniteSet(Units(list, L)) /\ Weight(list, L) = Cardinality(Units(list, L))
      /\ Weight(list, K \cup L) = Cardinality(Units(list, K \cup L))
      /\ Weight(list, K) \in Nat /\ Weight(list, L) \in Nat
  BY <1>4, WeightTyped
<1>6. Cardinality(Units(list, K \cup L)) =
        Cardinality(Units(list, K)) + Cardinality(Units(list, L)) - 0
  BY <1>1, <1>3, <1>5, FS_Union
<1> QED
  BY <1>5, <1>6

(* Entries that move to other positions weigh what they weighed.            *)
LEMMA WeightMoves ==
    ASSUME NEW list \in Seq(Entry), NEW K \in SUBSET DOMAIN list,
           NEW after \in Seq(Entry), NEW L \in SUBSET DOMAIN after,
           NEW f \in Bijection(K, L), \A k \in K : after[f[k]] = list[k]
    PROVE  Weight(after, L) = Weight(list, K)
<1> DEFINE S == Units(list, K)
           T == Units(after, L)
           g == [u \in S |-> <<f[u[1]], u[2]>>]
<1>1. /\ \A k \in K : f[k] \in L
      /\ \A j, k \in K : f[j] = f[k] => j = k
      /\ \A l \in L : \E k \in K : f[k] = l
  BY DEF Bijection, Injection, Surjection, IsInjective
<1>2. \A k \in K : Size(after, f[k]) = Size(list, k)
  BY DEF Size
<1>3. \A u \in S : u[1] \in K /\ u[2] \in 1..Size(list, u[1]) /\ u = <<u[1], u[2]>>
  BY DEF Units
<1>4. \A k \in K : \A b \in 1..Size(list, k) : <<k, b>> \in S
  BY DEF Units
<1>5. \A l \in L : \A b \in 1..Size(after, l) : <<l, b>> \in T
  BY DEF Units
<1>6. \A t \in T : t[1] \in L /\ t[2] \in 1..Size(after, t[1]) /\ t = <<t[1], t[2]>>
  BY DEF Units
<1> HIDE DEF S, T
<1>7. g \in [S -> T]
  BY <1>1, <1>2, <1>3, <1>5
<1>8. \A u, v \in S : g[u] = g[v] => u = v
  BY <1>1, <1>3
<1>9. \A t \in T : \E u \in S : g[u] = t
  <2> SUFFICES ASSUME NEW t \in T PROVE \E u \in S : g[u] = t
    OBVIOUS
  <2>1. PICK k \in K : f[k] = t[1]
    BY <1>1, <1>6
  <2>2. t[2] \in 1..Size(list, k) /\ t = <<f[k], t[2]>>
    BY <1>2, <1>6, <2>1
  <2> DEFINE u == <<k, t[2]>>
  <2>3. u \in S
    BY <1>4, <2>2
  <2>4. g[u] = t
    BY <2>2, <2>3
  <2> QED BY <2>3, <2>4
<1>10. g \in Bijection(S, T)
  <2> HIDE DEF g
  <2> QED BY <1>7, <1>8, <1>9, Fun_IsBij
<1>11. IsFiniteSet(S) /\ Cardinality(S) = Weight(list, K)
       /\ Cardinality(T) = Weight(after, L)
  BY WeightTyped DEF S, T
<1> HIDE DEF g
<1>12. ExistsBijection(S, T)
  BY <1>10 DEF ExistsBijection
<1> QED
  BY <1>11, <1>12, FS_Bijection
(* What is kept weighs what it weighed.                                     *)
LEMMA KeepWeighs ==
    ASSUME NEW list \in Seq(Entry), NEW K \in SUBSET DOMAIN list
    PROVE  Weight(Keep(list, K), DOMAIN Keep(list, K)) = Weight(list, K)
<1> DEFINE kept == Keep(list, K)
           c == Cardinality(K)
           rank(k) == Cardinality(K \cap (1..k))
           f == [n \in 1..c |-> CHOOSE k \in K : rank(k) = n]
<1>1. Len(list) \in Nat /\ DOMAIN list = 1..Len(list) /\ K \in SUBSET (1..Len(list))
  BY LenProperties
<1>2. IsFiniteSet(K) /\ c \in Nat
  <2>1. IsFiniteSet(1..Len(list))
    BY <1>1, FS_Interval
  <2>2. IsFiniteSet(K)
    BY <1>1, <2>1, FS_Subset
  <2> QED BY <2>2, FS_CardinalityType
<1>3. kept \in Seq(Entry) /\ DOMAIN kept = 1..c
  <2>1. kept \in Seq(Entry)
    BY KeepTyped
  <2> QED BY <2>1 DEF Keep
<1>4. \A n \in 1..c : f[n] \in K /\ rank(f[n]) = n /\ kept[n] = list[f[n]]
  <2> SUFFICES ASSUME NEW n \in 1..c
               PROVE  f[n] \in K /\ rank(f[n]) = n /\ kept[n] = list[f[n]]
    OBVIOUS
  <2>1. \E k \in K : rank(k) = n
    BY <1>1, NthPosition
  <2>2. f[n] = CHOOSE k \in K : rank(k) = n
    OBVIOUS
  <2>3. f[n] \in K /\ rank(f[n]) = n
    <3> HIDE DEF f, rank
    <3> QED BY <2>1, <2>2
  <2>4. kept[n] = list[f[n]]
    BY DEF Keep
  <2> QED BY <2>3, <2>4
<1>5. \A k \in K : rank(k) \in 1..c
  <2> SUFFICES ASSUME NEW k \in K PROVE rank(k) \in 1..c
    OBVIOUS
  <2> DEFINE U == K \cap (1..k)
  <2>1. k \in U /\ U \in SUBSET K
    BY <1>1
  <2> HIDE DEF U
  <2>2. IsFiniteSet(U) /\ Cardinality(U) <= c /\ Cardinality(U) \in Nat
    BY <1>2, <2>1, FS_Subset, FS_CardinalityType
  <2>3. Cardinality(U) # 0
    BY <2>1, <2>2, FS_EmptySet
  <2>4. Cardinality(U) \in 1..c
    <3> HIDE DEF c
    <3> QED BY <1>2, <2>2, <2>3
  <2> QED BY <2>4 DEF U
<1>6. \A x, y \in K : rank(x) = rank(y) => x = y
  BY <1>1, RanksDiffer
<1> HIDE DEF rank, f
<1>7. f \in [1..c -> K]
  BY <1>4 DEF f
<1>8. \A m, n \in 1..c : f[m] = f[n] => m = n
  BY <1>4
<1>9. \A k \in K : \E n \in 1..c : f[n] = k
  BY <1>4, <1>5, <1>6
<1> HIDE DEF c, kept
<1>10. f \in Bijection(1..c, K)
  BY <1>7, <1>8, <1>9, Fun_IsBij
<1>11. (1..c) \in SUBSET DOMAIN kept
  BY <1>3
<1> DEFINE A == 1..c
<1>12. /\ A \in SUBSET DOMAIN kept /\ f \in Bijection(A, K)
       /\ \A n \in A : list[f[n]] = kept[n]
  BY <1>4, <1>10, <1>11
<1> HIDE DEF A
<1>13. Weight(list, K) = Weight(kept, A)
  BY <1>3, <1>12, WeightMoves
<1> QED
  BY <1>3, <1>13 DEF kept, A

(* One entry weighs its bytes.                                              *)
LEMMA WeightOfOne ==
    ASSUME NEW list \in Seq(Entry), NEW k \in DOMAIN list
    PROVE  Weight(list, {k}) = Bytes[Len(list[k].tokens)]
<1>1. Size(list, k) \in Nat
  BY SizeTyped
<1>2. Units(list, {k}) = {k} \X (1..Size(list, k))
  BY DEF Units
<1>3. Weight(list, {k}) = Cardinality(Units(list, {k}))
  BY WeightTyped
<1> QED
  BY <1>1, <1>2, <1>3, UnitsOfOne DEF Size

(* A store whose counter is right.                                          *)
Booked(st) ==
    /\ st.list \in Seq(Entry)
    /\ st.bytes = Weight(st.list, DOMAIN st.list)

(* An eviction books what it takes.                                         *)
LEMMA EvictBooked ==
    ASSUME NEW st, Booked(st), NEW need, NEW pinned
    PROVE  LET room == Evict(st, need, pinned) IN
           Booked(room) /\ room.bytes \in Nat /\ st.bytes \in Nat /\ room.bytes <= st.bytes
<1> DEFINE list == st.list
           gone == Evicted(st, need, pinned)
           K == DOMAIN list \ gone
           room == Evict(st, need, pinned)
<1>1. gone \in SUBSET DOMAIN list
  BY DEF Evicted
<1>2. list \in Seq(Entry) /\ st.bytes = Weight(list, DOMAIN list)
  BY DEF Booked
<1>3. room.list = Keep(list, K) /\ room.bytes = st.bytes - Weight(list, gone)
  BY DEF Evict
<1> HIDE DEF list, gone, room
<1>4. /\ K \in SUBSET DOMAIN list /\ K \cap gone = {} /\ K \cup gone = DOMAIN list
      /\ DOMAIN list \in SUBSET DOMAIN list
  BY <1>1
<1> HIDE DEF K
<1>5. Weight(list, DOMAIN list) = Weight(list, K) + Weight(list, gone)
  BY <1>1, <1>2, <1>4, WeightSplits
<1>6. Weight(list, DOMAIN list) \in Nat /\ Weight(list, K) \in Nat /\ Weight(list, gone) \in Nat
  BY <1>1, <1>2, <1>4, WeightTyped
<1>7. room.list \in Seq(Entry)
  BY <1>2, <1>3, <1>4, KeepTyped
<1>8. Weight(room.list, DOMAIN room.list) = Weight(list, K)
  BY <1>2, <1>3, <1>4, KeepWeighs
<1>9. room.bytes = Weight(list, K)
  BY <1>2, <1>3, <1>5, <1>6
<1>10. Booked(room) /\ room.bytes \in Nat /\ st.bytes \in Nat /\ room.bytes <= st.bytes
  BY <1>2, <1>5, <1>6, <1>7, <1>8, <1>9 DEF Booked
<1> QED
  BY <1>10 DEF room

(* A new entry is booked with the bytes it turned out to have.              *)
LEMMA PushBooked ==
    ASSUME NEW st, Booked(st), NEW p \in Entry
    PROVE  /\ Booked(Push(st, p)) /\ Push(st, p).bytes = st.bytes + Bytes[Len(p.tokens)]
           /\ Bytes[Len(p.tokens)] \in Nat
<1> DEFINE list == st.list
           n == Len(list)
           longer == Append(list, p)
           f == [k \in 1..n |-> k]
<1>1. list \in Seq(Entry) /\ st.bytes = Weight(list, DOMAIN list)
  BY DEF Booked
<1>2. Push(st, p).list = longer /\ Push(st, p).bytes = st.bytes + Bytes[Len(p.tokens)]
  BY DEF Push
<1> HIDE DEF list
<1>3. n \in Nat /\ DOMAIN list = 1..n
  BY <1>1, LenProperties
<1>4. /\ longer \in Seq(Entry) /\ Len(longer) = n + 1
      /\ \A k \in 1..n : longer[k] = list[k]
      /\ longer[n + 1] = p
  BY <1>1, AppendProperties
<1>5. DOMAIN longer = 1..(n + 1)
  BY <1>4, LenProperties
<1> HIDE DEF n, longer
<1>6. f \in Bijection(1..n, 1..n)
  <2>1. f \in [1..n -> 1..n] /\ (\A a, b \in 1..n : f[a] = f[b] => a = b)
        /\ \A b \in 1..n : \E a \in 1..n : f[a] = b
    OBVIOUS
  <2> HIDE DEF f
  <2> QED BY <2>1, Fun_IsBij
<1>7. \A k \in 1..n : longer[f[k]] = list[k]
  BY <1>4
<1> HIDE DEF f
<1>8. (1..n) \in SUBSET DOMAIN list /\ (1..n) \in SUBSET DOMAIN longer
  BY <1>3, <1>5
<1> DEFINE A == 1..n
           B == {n + 1}
<1>9. Weight(longer, A) = Weight(list, A)
  <2>1. /\ A \in SUBSET DOMAIN list /\ A \in SUBSET DOMAIN longer
        /\ f \in Bijection(A, A) /\ \A k \in A : longer[f[k]] = list[k]
    BY <1>6, <1>7, <1>8
  <2> HIDE DEF A
  <2> QED BY <1>1, <1>4, <2>1, WeightMoves
<1>10. n + 1 \in DOMAIN longer /\ B \in SUBSET DOMAIN longer /\ A \in SUBSET DOMAIN longer
       /\ A \cap B = {} /\ A \cup B = DOMAIN longer /\ A = DOMAIN list
  BY <1>3, <1>5
<1>11. Weight(longer, {n + 1}) = Bytes[Len(p.tokens)]
  BY <1>4, <1>10, WeightOfOne
<1>12. Weight(longer, B) = Bytes[Len(p.tokens)]
  BY <1>11
<1> HIDE DEF A, B
<1>13. Weight(longer, B) \in Nat
  BY <1>4, <1>10, WeightTyped
<1>14. Weight(longer, DOMAIN longer) = Weight(longer, A) + Weight(longer, B)
  BY <1>4, <1>10, WeightSplits
<1>15. Push(st, p).bytes = Weight(longer, DOMAIN longer)
  BY <1>1, <1>2, <1>9, <1>10, <1>12, <1>14
<1> QED
  BY <1>2, <1>4, <1>12, <1>13, <1>15 DEF Booked

(* A touched store holds the same entries in another order.                 *)
LEMMA TouchBooked ==
    ASSUME Booked(TheStore), NEW k \in DOMAIN prefixes
    PROVE  Booked(Touch(TheStore, k)) /\ Touch(TheStore, k).bytes = prefixBytes
<1> DEFINE n == Len(prefixes)
           after == Touch(TheStore, k).list
           f == [j \in 1..n |-> IF j < k THEN j ELSE IF j = k THEN n ELSE j - 1]
<1>1. prefixes \in Seq(Entry) /\ prefixBytes = Weight(prefixes, DOMAIN prefixes)
  BY DEF Booked, TheStore
<1>2. n \in Nat /\ DOMAIN prefixes = 1..n /\ k \in 1..n
  BY <1>1, LenProperties
<1>3. /\ after \in Seq(Entry) /\ Len(after) = n
      /\ \A j \in 1..(k - 1) : after[j] = prefixes[j]
      /\ \A j \in k..(n - 1) : after[j] = prefixes[j + 1]
      /\ after[n] = prefixes[k]
  BY <1>1, TouchMoves
<1>4. Touch(TheStore, k).list = after /\ Touch(TheStore, k).bytes = prefixBytes
  BY DEF Touch, TheStore
<1> HIDE DEF after
<1>5. DOMAIN after = 1..n
  BY <1>3, LenProperties
<1> HIDE DEF n
<1>6. f \in Bijection(1..n, 1..n)
  <2>1. f \in [1..n -> 1..n]
    BY <1>2
  <2>2. \A a, b \in 1..n : f[a] = f[b] => a = b
    BY <1>2
  <2>3. \A b \in 1..n : \E a \in 1..n : f[a] = b
    <3> SUFFICES ASSUME NEW b \in 1..n PROVE \E a \in 1..n : f[a] = b
      OBVIOUS
    <3>1. CASE b < k
      <4>1. f[b] = b
        BY <3>1
      <4> QED BY <4>1
    <3>2. CASE b = n
      <4>1. f[k] = b
        BY <1>2, <3>2
      <4> QED BY <1>2, <4>1
    <3>3. CASE b >= k /\ b < n
      <4>1. b + 1 \in 1..n /\ f[b + 1] = b
        BY <1>2, <3>3
      <4> QED BY <4>1
    <3> QED BY <1>2, <3>1, <3>2, <3>3
  <2> HIDE DEF f
  <2> QED BY <2>1, <2>2, <2>3, Fun_IsBij
<1>7. \A j \in 1..n : after[f[j]] = prefixes[j]
  <2> SUFFICES ASSUME NEW j \in 1..n PROVE after[f[j]] = prefixes[j]
    OBVIOUS
  <2>1. CASE j < k
    <3>1. f[j] = j /\ j \in 1..(k - 1)
      BY <1>2, <2>1
    <3> HIDE DEF f
    <3> QED BY <1>3, <3>1
  <2>2. CASE j = k
    <3>1. f[j] = n
      BY <2>2
    <3> HIDE DEF f
    <3> QED BY <1>3, <2>2, <3>1
  <2>3. CASE j > k
    <3>1. f[j] = j - 1 /\ j - 1 \in k..(n - 1) /\ (j - 1) + 1 = j
      BY <1>2, <2>3
    <3> HIDE DEF f
    <3> QED BY <1>3, <3>1
  <2> QED BY <1>2, <2>1, <2>2, <2>3
<1> HIDE DEF f
<1> DEFINE A == 1..n
<1>8. /\ A \in SUBSET DOMAIN prefixes /\ A \in SUBSET DOMAIN after
      /\ f \in Bijection(A, A) /\ \A j \in A : after[f[j]] = prefixes[j]
      /\ A = DOMAIN prefixes /\ A = DOMAIN after
  BY <1>2, <1>5, <1>6, <1>7
<1> DEFINE list == prefixes
<1>9. Weight(after, A) = Weight(list, A)
  <2>1. /\ A \in SUBSET DOMAIN list /\ A \in SUBSET DOMAIN after /\ list \in Seq(Entry)
        /\ f \in Bijection(A, A) /\ \A j \in A : after[f[j]] = list[j]
    BY <1>1, <1>8
  <2> HIDE DEF A, list
  <2> QED BY <1>3, <2>1, WeightMoves
<1> HIDE DEF A
<1> QED
  BY <1>1, <1>3, <1>4, <1>8, <1>9 DEF Booked

(* How a step may change the store: it touches an entry, evicts, or evicts  *)
(* and adds a snapshot for which it found room by its bytes or by the       *)
(* estimate.                                                                *)
StoreMoves ==
    \/ UNCHANGED store
    \/ \E k \in DOMAIN prefixes : SetStore(Touch(TheStore, k))
    \/ \E need, pinned :
          LET room == Evict(TheStore, need, pinned) IN
          \/ SetStore(room)
          \/ \E p \in Entry :
               /\ HasRoom(room, need)
               /\ need \in {Bytes[Len(p.tokens)], Charge[Len(p.tokens)]}
               /\ SetStore(Push(room, p))

(* What an adoption does to the store.                                      *)
LEMMA AdoptMoves ==
    ASSUME prefixes \in Seq(Entry), NEW q \in Entry, NEW pinned,
           \/ SetStore(AdoptRoom(q, pinned))
           \/ CanAdopt(q, pinned) /\ SetStore(Adopt(q, pinned))
    PROVE  StoreMoves
<1> USE DEF store
<1>1. CASE q \in Stored
  <2>1. SetStore(TheStore) \/ SetStore(Touch(TheStore, PositionOf(q)))
    BY <1>1 DEF AdoptRoom, Adopt
  <2>2. SetStore(TheStore) => UNCHANGED store
    BY DEF SetStore, TheStore
  <2>3. PositionOf(q) \in DOMAIN prefixes
    <3> DEFINE Ks == {k \in DOMAIN prefixes : prefixes[k] = q}
    <3>1. Ks \in SUBSET Nat /\ Ks # {}
      BY <1>1, LenProperties DEF Stored
    <3>2. Least(Ks) \in Ks
      <4> HIDE DEF Ks
      <4> QED BY <3>1, LeastOf
    <3> QED BY <3>2 DEF PositionOf
  <2> QED BY <2>1, <2>2, <2>3 DEF StoreMoves
<1>2. CASE q \notin Stored
  <2> DEFINE need == Bytes[Len(q.tokens)]
             room == Evict(TheStore, need, pinned)
  <2>1. AdoptRoom(q, pinned) = room
    BY <1>2 DEF AdoptRoom
  <2>2. SetStore(room) \/ (HasRoom(room, need) /\ SetStore(Push(room, q)))
    BY <1>2, <2>1 DEF CanAdopt, Adopt
  <2>3. need \in {Bytes[Len(q.tokens)], Charge[Len(q.tokens)]}
    OBVIOUS
  <2> QED BY <2>2, <2>3 DEF StoreMoves
<1> QED
  BY <1>1, <1>2

(* What a call does to the store.                                           *)
LEMMA CallerMoves ==
    ASSUME Inv, Caller
    PROVE  StoreMoves
<1> USE DEF store
<1>1. prefixes \in Seq(Entry)
  BY DEF Inv
<1>2. ASSUME UNCHANGED store PROVE StoreMoves
  BY <1>2 DEF StoreMoves
<1>3. ASSUME NEW s \in Specs, NEW q \in handles \cup {NoPrefix},
             SubmitQueued(s, q) \/ SubmitActive(s, q) \/ SubmitRefused(s, q)
      PROVE  StoreMoves
  <2>1. Acceptable(s, q)
    BY <1>3 DEF SubmitQueued, SubmitActive, SubmitRefused
  <2>2. \/ UNCHANGED store
        \/ /\ q # NoPrefix /\ CanAdopt(q, Pinned(requests))
           /\ SetStore(Adopt(q, Pinned(requests)))
        \/ q # NoPrefix /\ SetStore(AdoptRoom(q, Pinned(requests)))
    BY <1>3 DEF SubmitQueued, SubmitActive, SubmitRefused
  <2>3. q # NoPrefix => q \in Entry
    BY <2>1, SubmittedPresent
  <2> QED BY <1>1, <1>2, <2>2, <2>3, AdoptMoves
<1>4. ASSUME NEW i \in Ids,
             \/ \E max \in 1..MaxBuffered : ReadOutput(i, max)
             \/ Cancel(i) \/ Release(i)
      PROVE  StoreMoves
  BY <1>2, <1>4 DEF ReadOutput, Cancel, Release
<1>5. ASSUME NEW e \in Registrations, FindPrefix(e.ns, e.tokens)
      PROVE  StoreMoves
  <2> DEFINE found == {k \in DOMAIN prefixes :
                          prefixes[k].ns = e.ns /\ Matches(prefixes[k], e.tokens)}
             longest == {k \in found : \A j \in found :
                          Len(prefixes[j].tokens) <= Len(prefixes[k].tokens)}
             best == Least(longest)
  <2>1. found # {} /\ SetStore(Touch(TheStore, best))
    BY <1>5 DEF FindPrefix
  <2>2. best \in DOMAIN prefixes
    <3>1. longest # {}
      BY <2>1, LongestExists
    <3>2. longest \in SUBSET Nat
      BY <1>1, LenProperties
    <3>3. best \in longest
      <4> HIDE DEF longest
      <4> QED BY <3>1, <3>2, LeastOf
    <3> QED BY <3>3
  <2> HIDE DEF best
  <2> QED BY <2>1, <2>2 DEF StoreMoves
<1>6. ASSUME NEW e \in Registrations, RegisterKnown(e.ns, e.tokens)
      PROVE  StoreMoves
  BY <1>2, <1>6 DEF RegisterKnown
<1>7. ASSUME NEW e \in Registrations, NEW built \in BOOLEAN, Register(e.ns, e.tokens, built)
      PROVE  StoreMoves
  <2> DEFINE need == Charge[Len(e.tokens)]
             room == Evict(TheStore, need, Pinned(requests))
             q == NewPrefix(e.ns, e.tokens)
  <2>1. (HasRoom(room, need) /\ SetStore(Push(room, q))) \/ SetStore(room)
    BY <1>7 DEF Register
  <2>2. q \in Entry /\ q.tokens = e.tokens
    <3>1. e.ns \in Namespaces /\ e.tokens \in Seq(Int)
      BY CallerAssumption
    <3>2. e.tokens # <<>> /\ Len(e.tokens) <= MaxContext
      <4>1. Len(e.tokens) \in 1..MaxContext
        BY <1>7 DEF Register, ValidRegistration
      <4>2. Len(e.tokens) # 0 /\ Len(e.tokens) <= MaxContext
        BY <4>1, EngineAssumption
      <4> QED BY <4>2, EmptySeq
    <3> QED BY <3>1, <3>2, NewPrefixTyped DEF Inv, GoodTable, Usable
  <2> HIDE DEF q
  <2>3. need \in {Bytes[Len(q.tokens)], Charge[Len(q.tokens)]}
    BY <2>2
  <2> HIDE DEF need
  <2> QED BY <2>1, <2>2, <2>3 DEF StoreMoves
<1>8. ASSUME NEW q \in handles, DropHandle(q)
      PROVE  StoreMoves
  BY <1>2, <1>8 DEF DropHandle
<1> QED
  BY <1>3, <1>4, <1>5, <1>6, <1>7, <1>8 DEF Caller

(* What an admission does to the store.                                     *)
LEMMA AdmissionMoves ==
    ASSUME Inv, StepAdmission
    PROVE  StoreMoves
<1> USE DEF store
<1> DEFINE r == Swept[Least(Candidates)]
<1>1. prefixes \in Seq(Entry)
  BY DEF Inv
<1>2. ASSUME UNCHANGED store PROVE StoreMoves
  BY <1>2 DEF StoreMoves
<1>3. ASSUME CanAdmit, NeedsAdoption(r) PROVE r.prefix \in Entry
  <2>1. Present(r)
    BY <1>3, CandidateQueued DEF CanAdmit
  <2> QED BY <1>3, <2>1 DEF Present, Sound, NeedsAdoption
<1>4. \/ UNCHANGED store
      \/ /\ CanAdmit /\ NeedsAdoption(r)
         /\ \/ SetStore(AdoptRoom(r.prefix, Pinned(Swept)))
            \/ /\ CanAdopt(r.prefix, Pinned(Swept))
               /\ SetStore(Adopt(r.prefix, Pinned(Swept)))
  BY DEF StepAdmission, StepWithoutAdmission, Admit, AdmitWithoutRoom, AdmitFails
<1> HIDE DEF r
<1> QED
  BY <1>1, <1>2, <1>3, <1>4, AdoptMoves

(* What the work of a step does to the store.                               *)
LEMMA WorkMoves ==
    ASSUME Inv, Work
    PROVE  StoreMoves
<1> USE DEF store
<1>1. ASSUME UNCHANGED store PROVE StoreMoves
  BY <1>1 DEF StoreMoves
<1>2. ASSUME NEW i \in Ids, NEW outcome \in Outcomes, PrefillPublish(i, outcome)
      PROVE  StoreMoves
  <2> DEFINE r == requests[i]
             need == Charge[r.reg]
             room == Evict(TheStore, need, Pinned(requests))
             q == NewPrefix(r.spec.ns, SubSeq(r.spec.prompt, 1, r.reg))
  <2>1. /\ SetStore(Push(room, q)) /\ HasRoom(room, need) /\ Publishes(r) /\ MayPrefill(i)
    BY <1>2 DEF PrefillPublish
  <2>2. Present(r)
    <3>1. r.status = "prefill"
      BY <2>1 DEF MayPrefill, NextPrefill, Ready, WithStatus
    <3> QED BY <3>1, GoodTyped DEF Inv, GoodTable
  <2>3. q \in Entry /\ Len(q.tokens) = r.reg
    <3> HIDE DEF r
    <3> QED BY <2>1, <2>2, PublicationTyped
  <2>4. need \in {Bytes[Len(q.tokens)], Charge[Len(q.tokens)]}
    BY <2>3
  <2> HIDE DEF q, need
  <2> QED BY <2>1, <2>3, <2>4 DEF StoreMoves
<1>3. ASSUME NEW i \in Ids, NEW outcome \in Outcomes, PrefillFallback(i, outcome)
      PROVE  StoreMoves
  BY <1>3 DEF PrefillFallback, StoreMoves
<1>4. CASE StepIdle
  BY <1>1, <1>4 DEF StepIdle
<1>5. ASSUME NEW i \in Ids,
             PrefillFails(i) \/ \E outcome \in Outcomes : PrefillForward(i, outcome)
      PROVE  StoreMoves
  BY <1>1, <1>5 DEF PrefillFails, PrefillForward
<1>6. ASSUME NEW B \in SUBSET Ids,
             \/ DecodeFails(B)
             \/ \E outcomes \in [B -> Outcomes] :
                  DecodeRows(B, outcomes) \/ \E at \in B : DecodeThrows(B, at, outcomes)
      PROVE  StoreMoves
  BY <1>1, <1>6 DEF DecodeFails, DecodeRows, DecodeThrows, DecodeDone
<1> QED
  BY <1>2, <1>3, <1>4, <1>5, <1>6 DEF Work

(* The counter stays right, and above the budget by no more than an         *)
(* estimate was too low.                                                    *)
LEMMA MovesBooked ==
    ASSUME NEW Excess \in Nat, \A n \in 1..MaxContext : Bytes[n] <= Charge[n] + Excess,
           Booked(TheStore), prefixBytes <= MaxPrefixBytes + Excess, StoreMoves
    PROVE  Booked(TheStore)' /\ prefixBytes' <= MaxPrefixBytes + Excess
<1> DEFINE Fine(st) == Booked(st) /\ st.bytes <= MaxPrefixBytes + Excess
<1>1. ASSUME NEW st, SetStore(st), Fine(st)
      PROVE  Booked(TheStore)' /\ prefixBytes' <= MaxPrefixBytes + Excess
  BY <1>1 DEF SetStore, Booked, TheStore, Weight
<1>2. CASE UNCHANGED store
  BY <1>2 DEF store, Booked, TheStore, Weight
<1>3. ASSUME NEW k \in DOMAIN prefixes, SetStore(Touch(TheStore, k))
      PROVE  Booked(TheStore)' /\ prefixBytes' <= MaxPrefixBytes + Excess
  <2>1. Fine(Touch(TheStore, k))
    BY TouchBooked
  <2> HIDE DEF Fine
  <2> QED BY <1>1, <1>3, <2>1
<1>4. ASSUME NEW need, NEW pinned
      PROVE  LET room == Evict(TheStore, need, pinned) IN Fine(room) /\ room.bytes \in Nat
  <2> DEFINE room == Evict(TheStore, need, pinned)
  <2>1. /\ Booked(room) /\ room.bytes \in Nat /\ prefixBytes \in Nat
        /\ room.bytes <= prefixBytes
    <3>1. TheStore.bytes = prefixBytes
      BY DEF TheStore
    <3> QED BY <3>1, EvictBooked
  <2> HIDE DEF room
  <2>2. room.bytes <= MaxPrefixBytes + Excess
    BY <2>1, EngineAssumption
  <2> QED BY <2>1, <2>2 DEF room
<1>5. ASSUME NEW need, NEW pinned, SetStore(Evict(TheStore, need, pinned))
      PROVE  Booked(TheStore)' /\ prefixBytes' <= MaxPrefixBytes + Excess
  <2>1. Fine(Evict(TheStore, need, pinned))
    BY <1>4
  <2> HIDE DEF Fine
  <2> QED BY <1>1, <1>5, <2>1
<1>6. ASSUME NEW need, NEW pinned, NEW p \in Entry,
             HasRoom(Evict(TheStore, need, pinned), need),
             need \in {Bytes[Len(p.tokens)], Charge[Len(p.tokens)]},
             SetStore(Push(Evict(TheStore, need, pinned), p))
      PROVE  Booked(TheStore)' /\ prefixBytes' <= MaxPrefixBytes + Excess
  <2> DEFINE room == Evict(TheStore, need, pinned)
             actual == Bytes[Len(p.tokens)]
  <2>1. Booked(room) /\ room.bytes \in Nat
    BY <1>4
  <2>2. room.bytes <= MaxPrefixBytes - need
    BY <1>6 DEF HasRoom
  <2> HIDE DEF room
  <2>3. Booked(Push(room, p)) /\ Push(room, p).bytes = room.bytes + actual /\ actual \in Nat
    BY <2>1, PushBooked
  <2>4. Len(p.tokens) \in 1..MaxContext
    <3>1. p.tokens \in Seq(Int) /\ p.tokens # <<>> /\ Len(p.tokens) <= MaxContext
      BY DEF Entry, Usable, Snapshot
    <3>2. Len(p.tokens) \in Nat /\ Len(p.tokens) # 0
      BY <3>1, LenProperties, EmptySeq
    <3> QED BY <3>1, <3>2, EngineAssumption
  <2>5. need \in Nat /\ actual <= need + Excess
    <3>1. /\ Bytes[Len(p.tokens)] \in Nat /\ Charge[Len(p.tokens)] \in Nat
          /\ Bytes[Len(p.tokens)] <= Charge[Len(p.tokens)] + Excess
      BY <2>4, EngineAssumption
    <3> QED BY <1>6, <3>1
  <2> HIDE DEF actual
  <2>6. Fine(Push(room, p))
    BY <2>1, <2>2, <2>3, <2>5, EngineAssumption
  <2> HIDE DEF Fine
  <2> QED BY <1>1, <1>6, <2>6 DEF room
<1> QED
  BY <1>2, <1>3, <1>5, <1>6 DEF StoreMoves

\* The books of a store whose estimates are too low by at most Excess bytes.
Books(Excess) == Booked(TheStore) /\ prefixBytes <= MaxPrefixBytes + Excess

(* They are right to begin with.                                            *)
LEMMA InitBooks ==
    ASSUME NEW Excess \in Nat, Init
    PROVE  Books(Excess)
<1>1. prefixes = <<>> /\ prefixBytes = 0 /\ <<>> \in Seq(Entry) /\ DOMAIN <<>> = {}
  BY EmptySeq DEF Init
<1>2. Weight(<<>>, {}) = 0
  <2>1. UNION {{k} \X (1..Bytes[Len(<<>>[k].tokens)]) : k \in {}} = {}
    OBVIOUS
  <2> QED BY <2>1, FS_EmptySet DEF Weight
<1>3. Booked(TheStore)
  BY <1>1, <1>2 DEF Booked, TheStore
<1> QED
  BY <1>1, <1>3, EngineAssumption DEF Books

(* And every step keeps them right.                                         *)
LEMMA BooksKept ==
    ASSUME NEW Excess \in Nat, \A n \in 1..MaxContext : Bytes[n] <= Charge[n] + Excess,
           Books(Excess), Inv, [Next]_vars
    PROVE  Books(Excess)'
<1>1. StoreMoves
  BY CallerMoves, AdmissionMoves, WorkMoves DEF Next, vars, StoreMoves
<1> QED
  BY <1>1, MovesBooked DEF Books

(* The byte counter of the store is always the sum over its entries, and    *)
(* the store outgrows max_prefix_bytes by at most what a snapshot's bytes   *)
(* can exceed its estimate: however many were built, only the last one can  *)
(* be too big.                                                              *)
THEOREM OverrunIsBounded ==
    ASSUME NEW Excess \in Nat, \A n \in 1..MaxContext : Bytes[n] <= Charge[n] + Excess
    PROVE  Spec => [](/\ prefixBytes = Weight(prefixes, DOMAIN prefixes)
                      /\ prefixBytes <= MaxPrefixBytes + Excess)
<1>1. Init => Books(Excess)
  BY InitBooks
<1>2. Books(Excess) /\ Inv /\ [Next]_vars => Books(Excess)'
  BY BooksKept
<1>3. Books(Excess) => /\ prefixBytes = Weight(prefixes, DOMAIN prefixes)
                       /\ prefixBytes <= MaxPrefixBytes + Excess
  BY DEF Books, Booked, TheStore
<1> QED
  BY <1>1, <1>2, <1>3, Invariance, PTL DEF Spec

(* The store keeps its budget wherever no estimate is too low.  The code    *)
(* does not see to that (see the run budget): this says that nothing else    *)
(* can break the budget.                                                     *)
THEOREM BudgetKept ==
    ASSUME \A n \in 1..MaxContext : Bytes[n] <= Charge[n]
    PROVE  Spec => []WithinBudget
<1>1. 0 \in Nat /\ \A n \in 1..MaxContext : Bytes[n] <= Charge[n] + 0
  <2>1. \A n \in 1..MaxContext : n \in 0..MaxContext
    BY EngineAssumption
  <2>2. \A n \in 1..MaxContext : Charge[n] \in Nat
    BY <2>1, EngineAssumption
  <2> QED BY <2>2
<1>2. Init => Books(0)
  BY <1>1, InitBooks
<1>3. Books(0) /\ Inv /\ [Next]_vars => Books(0)'
  BY <1>1, BooksKept
<1>4. Books(0) => WithinBudget
  BY EngineAssumption DEF Books, Booked, TheStore, WithinBudget
<1> QED
  BY <1>2, <1>3, <1>4, Invariance, PTL DEF Spec

-----------------------------------------------------------------------------
(* What a step does to an entry.                                            *)

\* How the work of a step takes an unfinished request r to q.
Worked(r, q) ==
    /\ q \in Request /\ q.status \notin {"absent", "cancelled"}
    /\ q.consumed = r.consumed /\ q.spec = r.spec
    /\ q.reg \in {0, r.reg} /\ q.committed >= r.committed /\ (q.resident => r.resident)

\* What the owner cannot see of a step that changes entry r into q: it reads
\* nothing, and a request begins, is cancelled or is released by its calls only.
Proceeds(r, q) ==
    /\ r = Absent <=> q = Absent
    /\ q.consumed = r.consumed
    /\ Terminal(r) => q.status = r.status /\ q.output = r.output
    /\ q.status = "cancelled" => r.status = "cancelled"

\* A request that evaluates the leading tokens it registers.
Building(r) == r.resident /\ ~Terminal(r) /\ r.committed < r.reg

\* Whoever builds after a step did so before it.
Lags(r, q) == Building(q) => Building(r) /\ q.reg = r.reg /\ q.spec = r.spec

(* Steps of the work compose.                                               *)
LEMMA WorkedOn ==
    ASSUME NEW r \in Request, NEW q \in Request, NEW p, Worked(r, q), Worked(q, p)
    PROVE  Worked(r, p)
<1>1. r.committed \in Nat /\ q.committed \in Nat /\ p.committed \in Nat
  BY DEF Request, Worked
<1> QED
  BY <1>1 DEF Worked

(* What the work does to an unfinished request is progress.                 *)
LEMMA WorkedProceeds ==
    ASSUME NEW r, Present(r), ~Terminal(r), NEW q, Worked(r, q)
    PROVE  Proceeds(r, q) /\ Lags(r, q)
<1>1. r \in Request /\ r.status # "absent" /\ q \in Request /\ q.status # "absent"
  BY DEF Present, Sound, Worked
<1>2. r # Absent /\ q # Absent
  BY <1>1, AbsentTyped
<1>3. r.committed \in Nat /\ q.committed \in Nat /\ r.reg \in Nat /\ q.reg \in Nat
  BY <1>1 DEF Request
<1>4. Proceeds(r, q)
  BY <1>2 DEF Proceeds, Worked
<1>5. Lags(r, q)
  BY <1>3 DEF Lags, Building, Worked
<1> QED
  BY <1>4, <1>5

(* Failing and retiring.                                                    *)
LEMMA WorkedEnds ==
    ASSUME NEW r \in Request, r.status \notin {"absent", "cancelled"}
    PROVE  Worked(r, Fail(r)) /\ Worked(r, Retire(r)) /\ Worked(r, Retire(Fail(r)))
<1>1. r.committed \in Nat /\ r.committed >= r.committed
  BY DEF Request
<1>2. Worked(r, Fail(r)) /\ Fail(r) \in Request
  BY <1>1, FailFields DEF Worked
<1>3. ASSUME NEW q \in Request, q.status \notin {"absent", "cancelled"}
      PROVE  Worked(q, Retire(q))
  <2>1. q.committed \in Nat /\ q.committed >= q.committed
    BY DEF Request
  <2>2. Retire(q).resident => q.resident
    BY DEF Retire
  <2> QED BY <1>3, <2>1, <2>2, RetireFields DEF Worked
<1>4. Worked(Fail(r), Retire(Fail(r)))
  BY <1>2, <1>3 DEF Worked
<1> QED
  BY <1>2, <1>3, <1>4, WorkedOn

(* Selecting a token.                                                       *)
LEMMA WorkedSelects ==
    ASSUME NEW r, Selecting(r), NEW outcome \in Outcomes
    PROVE  /\ Worked(r, Select(r, outcome)) /\ Worked(r, Retire(Select(r, outcome)))
           /\ Select(r, outcome) \in Request
<1> DEFINE q == Select(r, outcome)
<1>1. r \in Request /\ r.status \in {"prefill", "decode"} /\ r.committed \in Nat
  BY DEF Selecting, Sound, Request
<1>2. q \in Request
  BY SelectSound DEF Sound
<1>3. CASE outcome = <<>>
  <2>1. q = Fail(r)
    BY <1>3 DEF Select
  <2> QED BY <1>1, <2>1, WorkedEnds, WorkedOn, FailFields DEF Worked
<1>4. CASE outcome # <<>>
  <2>1. PICK out, generated, status : q = [r EXCEPT !.output = out, !.generated = generated, !.status = status]
                                      /\ status \in {"complete", "decode"}
    BY <1>4 DEF Select
  <2> HIDE DEF q
  <2>2. /\ q.status \in {"complete", "decode"} /\ q.consumed = r.consumed /\ q.spec = r.spec
        /\ q.reg = r.reg /\ q.committed = r.committed /\ q.resident = r.resident
    BY <1>1, <2>1 DEF Request
  <2>3. Worked(r, q)
    BY <1>1, <1>2, <2>2 DEF Worked
  <2>4. Worked(q, Retire(q))
    BY <1>2, <2>2, WorkedEnds
  <2>5. Worked(r, Retire(q))
    BY <1>1, <1>2, <2>3, <2>4, WorkedOn
  <2> QED BY <1>2, <2>3, <2>5 DEF q
<1> QED
  BY <1>3, <1>4

(* The end of a chunk.                                                      *)
LEMMA WorkedPrefills ==
    ASSUME NEW r, Sound(r), Fresh(r), Holding(r), r.status = "prefill",
           r.committed <= PromptLength(r), NEW outcome \in Outcomes
    PROVE  Worked(r, AfterPrefill(r, outcome))
<1>1. CASE r.committed = PromptLength(r)
  <2>1. r \in Request /\ r.spec.stops \in SUBSET Seq(Vocab) /\ PromptLength(r) \in Nat
    BY PromptTyped DEF Sound
  <2>2. r.output \in Seq(Vocab) /\ Len(r.output) = 0
    BY <2>1, EmptySeq DEF Request, Fresh
  <2>3. Confirmed(r.output, r.spec.stops) \in 0..0
    BY <2>1, <2>2, ConfirmedIs
  <2>4. Selecting(r)
    BY <1>1, <2>1, <2>2, <2>3 DEF Selecting, Fresh, Sound
  <2>5. AfterPrefill(r, outcome) = Retire(Select(r, outcome))
    BY <1>1 DEF AfterPrefill
  <2> QED BY <2>4, <2>5, WorkedSelects
<1>2. CASE r.committed # PromptLength(r)
  <2>1. AfterPrefill(r, outcome) = r
    BY <1>2 DEF AfterPrefill
  <2>2. r \in Request /\ r.committed >= r.committed
    BY DEF Sound, Request
  <2> QED BY <2>1, <2>2 DEF Worked
<1> QED
  BY <1>1, <1>2

(* A chunk of a prefill, with its snapshot published or given up.           *)
LEMMA WorkedChunk ==
    ASSUME Inv, NEW r, Present(r), r.status = "prefill"
    PROVE  /\ Worked(r, Prefilled(r)) /\ Worked(r, [Prefilled(r) EXCEPT !.reg = 0])
           /\ \A p, written : [Prefilled(r) EXCEPT !.prefix = p, !.written = written] \in Request
                => Worked(r, [Prefilled(r) EXCEPT !.prefix = p, !.written = written])
<1> DEFINE q == Prefilled(r)
           k == ChunkTokens(r)
<1>1. r \in Request /\ q \in Request /\ r.committed \in Nat /\ r.prefilled \in Nat
      /\ k \in Nat
  <2>1. r \in Request /\ q \in Request /\ r.committed <= PromptLength(r)
    BY PrefilledSound DEF Present, Prefilling, Sound
  <2>2. k \in Nat /\ r.committed \in Nat
    <3>1. k \in 0..(PromptLength(r) - r.committed)
      BY <2>1, ChunkTokensFit
    <3>2. PromptLength(r) \in Nat
      BY <2>1, PromptTyped
    <3>3. r.committed \in Nat
      BY <2>1 DEF Request
    <3> HIDE DEF k
    <3> QED BY <3>1, <3>2, <3>3
  <2> QED BY <2>1, <2>2 DEF Request
<1>2. /\ q.status = "prefill" /\ q.consumed = r.consumed /\ q.spec = r.spec /\ q.reg = r.reg
      /\ q.committed = r.committed + k /\ q.resident = r.resident
  <2>1. q = [r EXCEPT !.committed = r.committed + k, !.prefilled = r.prefilled + k]
    BY DEF Prefilled
  <2> HIDE DEF q, k
  <2> QED BY <1>1, <2>1 DEF Request
<1> HIDE DEF q, k
<1>3. q.committed >= r.committed
  BY <1>1, <1>2
<1>4. Worked(r, q)
  BY <1>1, <1>2, <1>3 DEF Worked
<1>5. Worked(r, [q EXCEPT !.reg = 0])
  BY <1>1, <1>2, <1>3 DEF Worked, Request
<1>6. ASSUME NEW p, NEW written, [q EXCEPT !.prefix = p, !.written = written] \in Request
      PROVE  Worked(r, [q EXCEPT !.prefix = p, !.written = written])
  BY <1>1, <1>2, <1>3, <1>6 DEF Worked, Request
<1> QED
  BY <1>4, <1>5, <1>6 DEF q

(* A decode forward.                                                        *)
LEMMA WorkedForward ==
    ASSUME NEW r, Present(r), r.status = "decode"
    PROVE  Worked(r, DecodeForward(r)) /\ DecodeForward(r) \in Request
<1> DEFINE q == DecodeForward(r)
<1>1. r \in Request /\ q \in Request /\ r.committed \in Nat /\ r.forwards \in Nat
  BY ForwardSelecting DEF Present, Sound, Selecting, Request
<1>2. q = [r EXCEPT !.committed = r.committed + 1, !.forwards = r.forwards + 1]
  BY DEF DecodeForward
<1> HIDE DEF q
<1>3. /\ q.status = "decode" /\ q.consumed = r.consumed /\ q.spec = r.spec /\ q.reg = r.reg
      /\ q.committed = r.committed + 1 /\ q.resident = r.resident
  BY <1>1, <1>2 DEF Request
<1> QED
  BY <1>1, <1>3 DEF Worked, q

(* An entry that does not change.                                           *)
LEMMA SameProceeds ==
    ASSUME NEW r
    PROVE  Proceeds(r, r) /\ Lags(r, r)
  BY DEF Proceeds, Lags

(* An entry whose registration is given up.                                 *)
LEMMA ColdProceeds ==
    ASSUME NEW r \in Request, r # Absent, r.status # "absent"
    PROVE  Proceeds(r, [r EXCEPT !.reg = 0]) /\ Lags(r, [r EXCEPT !.reg = 0])
<1> DEFINE q == [r EXCEPT !.reg = 0]
<1>1. /\ q.status = r.status /\ q.consumed = r.consumed /\ q.output = r.output
      /\ q.reg = 0 /\ q.committed \in Nat
  BY DEF Request
<1> HIDE DEF q
<1>2. q # Absent
  BY <1>1, AbsentTyped
<1>3. ~Building(q)
  BY <1>1 DEF Building
<1> QED
  BY <1>1, <1>2, <1>3 DEF Proceeds, Lags, q

\* What the work of a step does to an entry of the table.
Touched(r, q) ==
    \/ q = r
    \/ r.reg # 0 /\ q = [r EXCEPT !.reg = 0]
    \/ Present(r) /\ ~Terminal(r) /\ Worked(r, q)

(* The rows of a batch are unfinished requests.                             *)
LEMMA RowsDecode ==
    ASSUME Inv, NEW B \in SUBSET Ids, MayDecode(B), NEW i \in B
    PROVE  /\ i \in Ids /\ Present(requests[i]) /\ requests[i].status = "decode"
           /\ ~Terminal(requests[i]) /\ requests[i] \in Request
<1>1. requests[i].status = "decode" /\ i \in Ids
  BY DEF MayDecode, NextBatch, Ready, WithStatus
<1>2. Present(requests[i]) /\ requests[i] \in Request
  BY <1>1, GoodTyped DEF Inv, GoodTable
<1> QED
  BY <1>1, <1>2 DEF Terminal

(* A row that is forwarded and selects a token.                             *)
LEMMA WorkedRow ==
    ASSUME NEW r, Present(r), r.status = "decode", NEW outcome \in Outcomes
    PROVE  /\ Worked(r, Select(DecodeForward(r), outcome))
           /\ Worked(r, Retire(Select(DecodeForward(r), outcome)))
           /\ Select(DecodeForward(r), outcome) \in Request
<1> DEFINE f == DecodeForward(r)
<1>1. /\ r \in Request /\ f \in Request /\ Worked(r, f) /\ Selecting(f)
  BY WorkedForward, ForwardSelecting DEF Present, Sound
<1> HIDE DEF f
<1>2. /\ Worked(f, Select(f, outcome)) /\ Worked(f, Retire(Select(f, outcome)))
      /\ Select(f, outcome) \in Request
  BY <1>1, WorkedSelects
<1>3. Worked(r, Select(f, outcome)) /\ Worked(r, Retire(Select(f, outcome)))
  BY <1>1, <1>2, WorkedOn
<1> QED
  BY <1>2, <1>3 DEF f

(* A chunk with what follows it.                                            *)
LEMMA WorkedAfterChunk ==
    ASSUME NEW r \in Request, NEW q, Worked(r, q),
           Sound(q), Fresh(q), Holding(q), q.status = "prefill",
           q.committed <= PromptLength(q), NEW outcome \in Outcomes
    PROVE  Worked(r, AfterPrefill(q, outcome))
<1>1. Worked(q, AfterPrefill(q, outcome)) /\ q \in Request
  BY WorkedPrefills DEF Sound
<1> QED
  BY <1>1, WorkedOn

(* The prefill half of the work.                                            *)
LEMMA PrefillTouches ==
    ASSUME Inv, NEW i \in Ids, NEW outcome \in Outcomes,
           \/ PrefillFails(i) \/ PrefillForward(i, outcome)
           \/ PrefillPublish(i, outcome) \/ PrefillFallback(i, outcome)
    PROVE  \A j \in Ids : Touched(requests[j], requests'[j])
<1> DEFINE r == requests[i]
<1>1. /\ MayPrefill(i) /\ r.status = "prefill" /\ Present(r) /\ ~Terminal(r)
      /\ requests \in [Ids -> Request] /\ r \in Request
  <2>1. MayPrefill(i)
    BY DEF PrefillFails, PrefillForward, PrefillPublish, PrefillFallback
  <2>2. r.status = "prefill"
    BY <2>1 DEF MayPrefill, NextPrefill, Ready, WithStatus
  <2> QED BY <2>1, <2>2, GoodTyped DEF Inv, GoodTable, Terminal
<1>2. ASSUME NEW q, Worked(r, q), NEW table,
             \A j \in Ids : table[j] = requests[j]
                \/ (requests[j].reg # 0 /\ table[j] = [requests[j] EXCEPT !.reg = 0]),
             \A j \in Ids : requests'[j] = IF j = i THEN q ELSE table[j]
      PROVE  \A j \in Ids : Touched(requests[j], requests'[j])
  <2> SUFFICES ASSUME NEW j \in Ids PROVE Touched(requests[j], requests'[j])
    OBVIOUS
  <2>1. CASE j = i
    BY <1>1, <1>2, <2>1 DEF Touched
  <2>2. CASE j # i
    BY <1>2, <2>2 DEF Touched
  <2> QED BY <2>1, <2>2
<1>3. ASSUME NEW q, Worked(r, q), requests' = [requests EXCEPT ![i] = q]
      PROVE  \A j \in Ids : Touched(requests[j], requests'[j])
  <2>1. \A j \in Ids : requests'[j] = IF j = i THEN q ELSE requests[j]
    BY <1>1, <1>3
  <2> QED BY <1>2, <1>3, <2>1
<1>4. CASE PrefillFails(i)
  <2> DEFINE q == Retire(Fail(r))
  <2>1. requests' = [requests EXCEPT ![i] = q]
    BY <1>1, <1>4 DEF PrefillFails
  <2>2. Worked(r, q)
    BY <1>1, WorkedEnds
  <2> HIDE DEF q, r
  <2> QED BY <1>3, <2>1, <2>2
<1>5. CASE PrefillForward(i, outcome)
  <2> DEFINE q == AfterPrefill(Prefilled(r), outcome)
  <2>1. requests' = [requests EXCEPT ![i] = q]
    BY <1>1, <1>5 DEF PrefillForward
  <2> HIDE DEF r
  <2>2. Worked(r, q)
    <3>1. Worked(r, Prefilled(r))
      BY <1>1, WorkedChunk
    <3> QED BY <1>1, <3>1, PrefilledSound, WorkedAfterChunk
  <2> HIDE DEF q
  <2> QED BY <1>3, <2>1, <2>2
<1>6. CASE PrefillPublish(i, outcome)
  <2> DEFINE p == NewPrefix(r.spec.ns, SubSeq(r.spec.prompt, 1, r.reg))
             written == r.reg - r.cached
             built == [Prefilled(r) EXCEPT !.prefix = p, !.written = written]
             q == AfterPrefill(built, outcome)
  <2>1. requests' = [requests EXCEPT ![i] = q] /\ Publishes(r)
    BY <1>1, <1>6 DEF PrefillPublish
  <2> HIDE DEF r
  <2>2. p \in Entry /\ p.ns = r.spec.ns /\ Matches(p, r.spec.prompt)
    BY <1>1, <2>1, PublicationTyped
  <2> HIDE DEF p
  <2>3. built = [Prefilled(r) EXCEPT !.prefix = p, !.written = r.reg - r.cached]
    OBVIOUS
  <2>4. built = [Prefilled(r) EXCEPT !.prefix = p, !.written = written]
    OBVIOUS
  <2> HIDE DEF built, written
  <2>5. /\ Sound(built) /\ Fresh(built) /\ Holding(built) /\ built.status = "prefill"
        /\ built.committed <= PromptLength(built)
    BY <1>1, <2>1, <2>2, <2>3, PublishedSound
  <2>6. Worked(r, built)
    <3>1. [Prefilled(r) EXCEPT !.prefix = p, !.written = written] \in Request
      BY <2>4, <2>5 DEF Sound
    <3>2. \A p_1, written_1 : [Prefilled(r) EXCEPT !.prefix = p_1, !.written = written_1] \in Request
                => Worked(r, [Prefilled(r) EXCEPT !.prefix = p_1, !.written = written_1])
      BY <1>1, WorkedChunk
    <3> QED BY <2>4, <3>1, <3>2
  <2>7. Worked(r, q)
    BY <1>1, <2>5, <2>6, WorkedAfterChunk
  <2> HIDE DEF q
  <2> QED BY <1>3, <2>1, <2>7
<1>7. CASE PrefillFallback(i, outcome)
  <2> DEFINE cold == [j \in Ids |-> IF SameBuild(r, requests[j])
                                    THEN [requests[j] EXCEPT !.reg = 0]
                                    ELSE requests[j]]
             back == [Prefilled(r) EXCEPT !.reg = 0]
             q == AfterPrefill(back, outcome)
  <2>1. requests' = [cold EXCEPT ![i] = q]
    BY <1>1, <1>7 DEF PrefillFallback
  <2>2. \A j \in Ids : requests'[j] = IF j = i THEN q ELSE cold[j]
    BY <2>1
  <2>3. \A j \in Ids : \/ cold[j] = requests[j]
                       \/ requests[j].reg # 0 /\ cold[j] = [requests[j] EXCEPT !.reg = 0]
    <3>1. \A j \in Ids : SameBuild(r, requests[j]) => requests[j].reg # 0
      BY DEF SameBuild
    <3> QED BY <3>1
  <2> HIDE DEF r, cold
  <2>4. /\ Sound(back) /\ Fresh(back) /\ Holding(back)
        /\ back.status = "prefill" /\ back.committed <= PromptLength(back)
    BY <1>1, PrefilledSound, UnregisteredPresent
  <2>5. Worked(r, back)
    BY <1>1, WorkedChunk
  <2> HIDE DEF back
  <2>6. Worked(r, q)
    BY <1>1, <2>4, <2>5, WorkedAfterChunk
  <2> HIDE DEF q
  <2> QED BY <1>2, <2>2, <2>3, <2>6
<1> QED
  BY <1>4, <1>5, <1>6, <1>7

(* The decode half.                                                         *)
LEMMA DecodeTouches ==
    ASSUME Inv, NEW B \in SUBSET Ids, NEW outcomes \in [B -> Outcomes],
           \/ DecodeFails(B) \/ DecodeRows(B, outcomes)
           \/ \E at \in B : DecodeThrows(B, at, outcomes)
    PROVE  \A j \in Ids : Touched(requests[j], requests'[j])
<1>1. MayDecode(B)
  BY DEF DecodeFails, DecodeRows, DecodeThrows
<1>2. ASSUME NEW next, requests' = [j \in Ids |-> IF j \in B THEN next[j] ELSE requests[j]],
             \A j \in B : Worked(requests[j], next[j])
      PROVE  \A j \in Ids : Touched(requests[j], requests'[j])
  <2> SUFFICES ASSUME NEW j \in Ids PROVE Touched(requests[j], requests'[j])
    OBVIOUS
  <2>1. CASE j \in B
    BY <1>1, <1>2, <2>1, RowsDecode DEF Touched
  <2>2. CASE j \notin B
    BY <1>2, <2>2 DEF Touched
  <2> QED BY <2>1, <2>2
<1>3. CASE DecodeFails(B)
  <2> DEFINE next == [j \in Ids |-> Retire(Fail(requests[j]))]
  <2>1. requests' = [j \in Ids |-> IF j \in B THEN next[j] ELSE requests[j]]
    BY <1>3 DEF DecodeFails
  <2>2. \A j \in B : Worked(requests[j], next[j])
    <3> SUFFICES ASSUME NEW j \in B PROVE Worked(requests[j], Retire(Fail(requests[j])))
      OBVIOUS
    <3> QED BY <1>1, RowsDecode, WorkedEnds
  <2> HIDE DEF next
  <2> QED BY <1>2, <2>1, <2>2
<1>4. CASE DecodeRows(B, outcomes)
  <2> DEFINE next == [j \in Ids |-> Retire(Select(DecodeForward(requests[j]), outcomes[j]))]
  <2>1. requests' = [j \in Ids |-> IF j \in B THEN next[j] ELSE requests[j]]
    BY <1>4 DEF DecodeRows
  <2>2. \A j \in B : Worked(requests[j], next[j])
    <3> SUFFICES ASSUME NEW j \in B
                 PROVE  Worked(requests[j], Retire(Select(DecodeForward(requests[j]), outcomes[j])))
      OBVIOUS
    <3> QED BY <1>1, RowsDecode, WorkedRow
  <2> HIDE DEF next
  <2> QED BY <1>2, <2>1, <2>2
<1>5. ASSUME NEW at \in B, DecodeThrows(B, at, outcomes)
      PROVE  \A j \in Ids : Touched(requests[j], requests'[j])
  <2> DEFINE row(j) == IF Before(j, at, lastDecode) /\ j # at
                       THEN Select(DecodeForward(requests[j]), outcomes[j])
                       ELSE IF j = at THEN DecodeForward(requests[j]) ELSE requests[j]
             next == [j \in Ids |-> Retire(Fail(row(j)))]
  <2>1. requests' = [j \in Ids |-> IF j \in B THEN next[j] ELSE requests[j]]
    BY <1>5 DEF DecodeThrows
  <2>2. ASSUME NEW j \in B PROVE Worked(requests[j], Retire(Fail(row(j))))
    <3>1. /\ Present(requests[j]) /\ requests[j].status = "decode" /\ requests[j] \in Request
      BY <1>1, RowsDecode
    <3>2. Worked(requests[j], row(j)) /\ row(j) \in Request
      <4>1. CASE Before(j, at, lastDecode) /\ j # at
        BY <3>1, <4>1, WorkedRow
      <4>2. CASE j = at
        BY <3>1, <4>2, WorkedForward
      <4>3. CASE ~Before(j, at, lastDecode) /\ j # at
        <5>1. row(j) = requests[j]
          BY <4>3
        <5>2. requests[j].committed >= requests[j].committed
          BY <3>1 DEF Request
        <5> HIDE DEF row
        <5> QED BY <3>1, <5>1, <5>2 DEF Worked
      <4> QED BY <4>1, <4>2, <4>3
    <3> HIDE DEF row
    <3>3. Worked(row(j), Retire(Fail(row(j)))) /\ Retire(Fail(row(j))) \in Request
      BY <3>2, WorkedEnds DEF Worked
    <3> QED BY <3>1, <3>2, <3>3, WorkedOn
  <2>3. \A j \in B : Worked(requests[j], next[j])
    BY <2>2
  <2> HIDE DEF next
  <2> QED BY <1>2, <2>1, <2>3
<1> QED
  BY <1>3, <1>4, <1>5

(* What the work of a step does to every entry.                             *)
LEMMA WorkProceeds ==
    ASSUME Inv, Work
    PROVE  \A j \in Ids : Proceeds(requests[j], requests'[j]) /\ Lags(requests[j], requests'[j])
<1>1. \A j \in Ids : Touched(requests[j], requests'[j])
  <2>1. CASE StepIdle
    BY <2>1 DEF StepIdle, Touched
  <2>2. ASSUME NEW i \in Ids, PrefillFails(i)
        PROVE  \A j \in Ids : Touched(requests[j], requests'[j])
    <3>1. <<>> \in Outcomes
      BY DEF Outcomes
    <3> QED BY <2>2, <3>1, PrefillTouches
  <2>3. ASSUME NEW B \in SUBSET Ids, DecodeFails(B)
        PROVE  \A j \in Ids : Touched(requests[j], requests'[j])
    <3>1. [i \in B |-> <<>>] \in [B -> Outcomes]
      BY DEF Outcomes
    <3> QED BY <2>3, <3>1, DecodeTouches
  <2> QED BY <2>1, <2>2, <2>3, PrefillTouches, DecodeTouches DEF Work
<1> SUFFICES ASSUME NEW j \in Ids
             PROVE  Proceeds(requests[j], requests'[j]) /\ Lags(requests[j], requests'[j])
  OBVIOUS
<1>2. CASE requests'[j] = requests[j]
  BY <1>2, SameProceeds
<1>3. CASE requests[j].reg # 0 /\ requests'[j] = [requests[j] EXCEPT !.reg = 0]
  <2>1. requests[j] # Absent /\ requests[j] \in Request
    BY <1>3, AbsentTyped DEF Inv, GoodTable
  <2>2. requests[j].status # "absent"
    BY <2>1, GoodTyped DEF Inv, GoodTable
  <2> QED BY <1>3, <2>1, <2>2, ColdProceeds
<1>4. CASE Present(requests[j]) /\ ~Terminal(requests[j]) /\ Worked(requests[j], requests'[j])
  BY <1>4, WorkedProceeds
<1> QED
  BY <1>1, <1>2, <1>3, <1>4 DEF Touched

(* The clean-up in front of an admission changes a snapshot at most.        *)
LEMMA SweptFields ==
    ASSUME Inv, NEW j \in Ids
    PROVE  LET r == requests[j]
               q == Swept[j] IN
           /\ q \in Request /\ r \in Request /\ (q = Absent <=> r = Absent)
           /\ q.status = r.status /\ q.output = r.output /\ q.consumed = r.consumed
           /\ q.spec = r.spec /\ q.reg = r.reg /\ q.committed = r.committed
           /\ q.resident => r.resident
           /\ q.status = "queued" /\ q.reg # 0 /\ Exact(q) # {} =>
                q.prefix = prefixes[Least(Exact(q))]
<1> DEFINE r == requests[j]
           q == Swept[j]
           t == Retire(r)
<1>1. q = AttachExact(t)
  BY SweptGood
<1>2. CASE r = Absent
  <2>1. t = Absent
    BY <1>2, AbsentTyped DEF Retire
  <2>2. q = Absent
    BY <1>1, <2>1, AbsentTyped DEF AttachExact
  <2> QED BY <1>2, <2>2, AbsentTyped
<1>3. CASE Present(r)
  <2>1. r \in Request /\ r.status # "absent" /\ Present(t) /\ prefixes \in Seq(Entry)
    BY <1>3, RetireSound DEF Present, Sound, Inv
  <2> HIDE DEF r, t, q
  <2>2. /\ t \in Request
        /\ t.status = r.status /\ t.output = r.output /\ t.consumed = r.consumed
        /\ t.spec = r.spec /\ t.reg = r.reg /\ t.committed = r.committed
    BY <2>1, RetireFields DEF t
  <2>3. t.resident => r.resident
    BY <2>1 DEF Retire, t
  <2>4. /\ Present(q) /\ q.status = t.status /\ q.output = t.output /\ q.consumed = t.consumed
        /\ q.spec = t.spec /\ q.reg = t.reg /\ q.committed = t.committed
        /\ q.resident = t.resident
    BY <1>1, <2>1, AttachPresent
  <2>5. Exact(q) = Exact(t)
    BY <2>4 DEF Exact
  <2>6. q.status = "queued" /\ q.reg # 0 /\ Exact(q) # {} => q.prefix = prefixes[Least(Exact(q))]
    <3>1. SUFFICES ASSUME q.status = "queued", q.reg # 0, Exact(q) # {}
                   PROVE  q.prefix = prefixes[Least(Exact(q))]
      OBVIOUS
    <3> DEFINE p == prefixes[Least(Exact(t))]
    <3>2. q = [t EXCEPT !.prefix = p]
      BY <1>1, <2>4, <2>5, <3>1 DEF AttachExact
    <3>3. p = prefixes[Least(Exact(q))]
      BY <2>5
    <3> HIDE DEF p
    <3>4. q.prefix = p
      BY <2>2, <3>2 DEF Request
    <3> QED BY <3>3, <3>4
  <2>7. q \in Request /\ q # Absent /\ r # Absent
    BY <2>1, <2>2, <2>4, AbsentTyped DEF Present, Sound
  <2> QED BY <2>1, <2>2, <2>3, <2>4, <2>6, <2>7 DEF r, q
<1> QED
  BY <1>2, <1>3 DEF Inv, GoodTable, Good

(* What an admission does to every entry: only the admitted request may     *)
(* begin to build.                                                          *)
LEMMA AdmissionProceeds ==
    ASSUME Inv, StepAdmission, NEW j \in Ids
    PROVE  /\ Proceeds(requests[j], requests'[j])
           /\ \/ Lags(requests[j], requests'[j])
              \/ Admit /\ j = Least(Candidates)
<1> DEFINE r == requests[j]
           q == Swept[j]
           k == Least(Candidates)
<1>1. /\ q \in Request /\ r \in Request /\ (q = Absent <=> r = Absent)
      /\ q.status = r.status /\ q.output = r.output /\ q.consumed = r.consumed
      /\ q.spec = r.spec /\ q.reg = r.reg /\ q.committed = r.committed
      /\ q.resident => r.resident
  BY SweptFields
<1>2. CASE requests'[j] = q
  <2> HIDE DEF r, q
  <2>1. Proceeds(r, q)
    BY <1>1 DEF Proceeds
  <2>2. Lags(r, q)
    BY <1>1 DEF Lags, Building, Terminal
  <2> QED BY <1>2, <2>1, <2>2 DEF r, q
<1>3. ASSUME NEW x, x \in Request, x.status \in {"prefill", "failed"}, x.consumed = q.consumed,
             q.status = "queued", requests'[j] = x,
             x.status = "failed" \/ (Admit /\ j = k)
      PROVE  /\ Proceeds(r, requests'[j])
             /\ Lags(r, requests'[j]) \/ (Admit /\ j = k)
  <2> HIDE DEF r, q, k
  <2>1. x # Absent /\ r # Absent
    BY <1>1, <1>3, AbsentTyped
  <2>2. Proceeds(r, x)
    BY <1>1, <1>3, <2>1 DEF Proceeds, Terminal
  <2>3. x.status = "failed" => Lags(r, x)
    BY DEF Lags, Building, Terminal
  <2> QED BY <1>3, <2>2, <2>3
<1>4. CASE StepWithoutAdmission
  BY <1>2, <1>4 DEF StepWithoutAdmission
<1>5. ASSUME NEW x, CanAdmit, requests' = [Swept EXCEPT ![k] = x],
             x \in Request, x.status \in {"prefill", "failed"}, x.consumed = Swept[k].consumed,
             x.status = "failed" \/ Admit
      PROVE  /\ Proceeds(r, requests'[j])
             /\ Lags(r, requests'[j]) \/ (Admit /\ j = k)
  <2>1. Swept[k].status = "queued" /\ Swept \in [Ids -> Request]
    BY <1>5, CandidateQueued, SweptGood DEF CanAdmit, GoodTable
  <2>2. requests'[j] = IF j = k THEN x ELSE q
    BY <1>5, <2>1
  <2>3. CASE j = k
    <3>1. q.status = "queued" /\ x.consumed = q.consumed /\ requests'[j] = x
      BY <1>5, <2>1, <2>2, <2>3
    <3> QED BY <1>3, <1>5, <2>3, <3>1
  <2>4. CASE j # k
    BY <1>2, <2>2, <2>4
  <2> QED BY <2>3, <2>4
<1>6. ASSUME CanAdmit
      PROVE  /\ Present(Swept[k]) /\ Swept[k].status = "queued" /\ Swept[k] \in Request
             /\ Swept \in [Ids -> Request]
             /\ Activate(Swept[k]) \in Request /\ Activate(Swept[k]).status = "prefill"
             /\ Activate(Swept[k]).consumed = Swept[k].consumed
  <2>1. /\ Present(Swept[k]) /\ Swept[k].status = "queued" /\ Swept \in [Ids -> Request]
    BY <1>6, CandidateQueued, SweptGood DEF CanAdmit, GoodTable
  <2> DEFINE s == Swept[k]
             a == Activate(s)
             start == Len(s.prefix.tokens)
  <2>2. Present(s) /\ s.status = "queued" /\ s \in Request
    BY <2>1 DEF Present, Sound
  <2> HIDE DEF s
  <2>3. a \in Request /\ a.status = "prefill"
    BY <2>2, ActivatePresent DEF Present, Sound
  <2>4. a = [s EXCEPT !.status = "prefill", !.resident = TRUE, !.cached = start, !.committed = start]
    BY DEF Activate
  <2> HIDE DEF a, start
  <2>5. a.consumed = s.consumed
    BY <2>2, <2>4 DEF Request
  <2> QED BY <2>1, <2>2, <2>3, <2>5 DEF s, a
<1>7. CASE Admit
  <2>1. CanAdmit /\ requests' = [Swept EXCEPT ![k] = Activate(Swept[k])]
    BY <1>7 DEF Admit
  <2> HIDE DEF k, q, r
  <2> QED BY <1>5, <1>6, <1>7, <2>1 DEF k, r
<1>8. CASE AdmitWithoutRoom
  <2> DEFINE a == Activate(Swept[k])
             x == Retire(Fail(a))
  <2>1. CanAdmit /\ requests' = [Swept EXCEPT ![k] = x]
    BY <1>8 DEF AdmitWithoutRoom
  <2>2. a \in Request /\ a.consumed = Swept[k].consumed
    BY <1>6, <2>1
  <2> HIDE DEF k, q, r, a
  <2>3. x \in Request /\ x.status = "failed" /\ x.consumed = a.consumed
    <3>1. Fail(a) \in Request /\ Fail(a).status = "failed" /\ Fail(a).consumed = a.consumed
      BY <2>2, FailFields
    <3> QED BY <3>1, RetireFields
  <2> HIDE DEF x
  <2> QED BY <1>5, <2>1, <2>2, <2>3 DEF k, r
<1>9. CASE AdmitFails
  <2> DEFINE s == Swept[k]
             a == [s EXCEPT !.resident = TRUE]
             x == Retire(Fail(a))
  <2>1. CanAdmit
    BY <1>9 DEF AdmitFails
  <2>2. requests' = [Swept EXCEPT ![k] = x]
    BY <1>6, <1>9, <2>1 DEF AdmitFails
  <2>3. s \in Request /\ a = [s EXCEPT !.resident = TRUE]
    BY <1>6, <2>1
  <2> HIDE DEF k, q, r, a, s
  <2>4. a \in Request /\ a.consumed = s.consumed
    BY <2>3 DEF Request
  <2>5. x \in Request /\ x.status = "failed" /\ x.consumed = a.consumed
    <3>1. Fail(a) \in Request /\ Fail(a).status = "failed" /\ Fail(a).consumed = a.consumed
      BY <2>4, FailFields
    <3> QED BY <3>1, RetireFields
  <2> HIDE DEF x
  <2> QED BY <1>5, <2>1, <2>2, <2>4, <2>5 DEF s, k, r
<1> QED
  BY <1>4, <1>7, <1>8, <1>9 DEF StepAdmission

(* No call begins to build: a request activated by its submission registers *)
(* nothing.                                                                 *)
LEMMA CallerLags ==
    ASSUME Inv, Caller, NEW j \in Ids
    PROVE  Lags(requests[j], requests'[j])
<1>1. requests \in [Ids -> Request]
  BY DEF Inv, GoodTable
<1>2. ASSUME NEW i \in Ids, NEW q, requests' = [requests EXCEPT ![i] = q], Lags(requests[i], q)
      PROVE  Lags(requests[j], requests'[j])
  <2>1. requests'[j] = IF j = i THEN q ELSE requests[j]
    BY <1>1, <1>2
  <2> QED BY <1>2, <2>1, SameProceeds
<1>3. ASSUME UNCHANGED requests
      PROVE  Lags(requests[j], requests'[j])
  BY <1>3, SameProceeds
<1>4. ASSUME NEW s \in Specs, NEW p \in handles \cup {NoPrefix}, SubmitQueued(s, p)
      PROVE  Lags(requests[j], requests'[j])
  <2> DEFINE q == Submitted(s, p)
  <2>1. nextId \in Ids /\ requests' = [requests EXCEPT ![nextId] = q] /\ Serving
    BY <1>4 DEF SubmitQueued, Enter
  <2>2. Present(q) /\ q.status = "queued"
    BY <1>4, SubmittedPresent DEF SubmitQueued
  <2> HIDE DEF q
  <2>3. Lags(requests[nextId], q)
    BY <2>1, <2>2 DEF Present, Holding, Lags, Building
  <2> QED BY <1>2, <2>1, <2>3
<1>5. ASSUME NEW s \in Specs, NEW p \in handles \cup {NoPrefix}, SubmitActive(s, p)
      PROVE  Lags(requests[j], requests'[j])
  <2> DEFINE b == Submitted(s, p)
             q == Activate(b)
             start == Len(b.prefix.tokens)
  <2>1. /\ nextId \in Ids /\ requests' = [requests EXCEPT ![nextId] = q] /\ ~Serving
        /\ Acceptable(s, p)
    BY <1>5 DEF SubmitActive, Enter
  <2>2. b \in Request /\ Present(b) /\ b.status = "queued"
    BY <2>1, SubmittedPresent DEF Present, Sound
  <2>3. b.reg = 0
    <3>1. s.reg \in Nat /\ ~(s.reg > 0)
      BY <2>1, CallerAssumption DEF Acceptable, RequestSpec
    <3> DEFINE reg == s.reg
               a == Absent
    <3>2. b = [a EXCEPT !.status = "queued", !.spec = s, !.prefix = p, !.reg = reg] /\ reg = 0
      BY <3>1 DEF Submitted
    <3>3. a \in Request
      BY AbsentTyped
    <3> HIDE DEF reg, a, b
    <3> QED BY <3>2, <3>3 DEF Request
  <2>4. q = [b EXCEPT !.status = "prefill", !.resident = TRUE, !.cached = start, !.committed = start]
    BY DEF Activate
  <2>5. q \in Request
    <3> HIDE DEF b
    <3> QED BY <2>2, ActivatePresent DEF Present, Sound
  <2> HIDE DEF b, q, start
  <2>6. q.reg = 0
    BY <2>2, <2>3, <2>4 DEF Request
  <2>7. q.committed \in Nat
    BY <2>5 DEF Request
  <2>8. Lags(requests[nextId], q)
    BY <2>6, <2>7 DEF Lags, Building
  <2> QED BY <1>2, <2>1, <2>8
<1>6. ASSUME NEW i \in Ids, NEW max \in 1..MaxBuffered, ReadOutput(i, max)
      PROVE  Lags(requests[j], requests'[j])
  <2> DEFINE r == requests[i]
             n == r.consumed + Smaller(max,
                    (IF Terminal(r) THEN Len(r.output)
                                    ELSE Confirmed(r.output, r.spec.stops)) - r.consumed)
             q == [r EXCEPT !.consumed = n]
  <2>1. requests' = [requests EXCEPT ![i] = q]
    BY <1>1, <1>6 DEF ReadOutput
  <2>2. r \in Request /\ q = [r EXCEPT !.consumed = n]
    BY <1>1
  <2> HIDE DEF r, n, q
  <2>3. q.status = r.status /\ q.resident = r.resident /\ q.committed = r.committed
        /\ q.reg = r.reg /\ q.spec = r.spec
    BY <2>2 DEF Request
  <2>4. Lags(r, q)
    BY <2>3 DEF Lags, Building, Terminal
  <2> QED BY <1>2, <2>1, <2>4 DEF r
<1>7. ASSUME NEW i \in Ids, Cancel(i)
      PROVE  Lags(requests[j], requests'[j])
  <2> DEFINE r == requests[i]
             c == [r EXCEPT !.status = "cancelled"]
             q == Retire(c)
  <2>1. requests' = [requests EXCEPT ![i] = q]
    BY <1>1, <1>7 DEF Cancel
  <2>2. c \in Request /\ c.status = "cancelled"
    <3>1. r \in Request
      BY <1>1
    <3> HIDE DEF r
    <3> QED BY <3>1 DEF Request, Statuses
  <2> HIDE DEF c, r
  <2>3. q.status = "cancelled"
    BY <2>2, RetireFields
  <2> HIDE DEF q
  <2>4. Lags(r, q)
    BY <2>3 DEF Lags, Building, Terminal
  <2> QED BY <1>2, <2>1, <2>4 DEF r
<1>8. ASSUME NEW i \in Ids, Release(i)
      PROVE  Lags(requests[j], requests'[j])
  <2>1. Lags(requests[i], Absent)
    BY AbsentTyped DEF Lags, Building
  <2> QED BY <1>2, <1>8, <2>1 DEF Release
<1> QED
  BY <1>3, <1>4, <1>5, <1>6, <1>7, <1>8
  DEF Caller, SubmitRefused, FindPrefix, RegisterKnown, Register, DropHandle

-----------------------------------------------------------------------------
(* One builder at a time.                                                   *)

\* Two requests that evaluate the same registered leading tokens.
Clash(a, b) == Building(a) /\ Building(b) /\ SameBuild(a, b)

Alone == \A i, j \in Ids : i # j => ~Clash(requests[i], requests[j])

(* Admission waits for whoever builds the same, or attaches what is stored. *)
LEMMA AdmittedAlone ==
    ASSUME Inv, Admit, NEW j \in Ids, j # Least(Candidates)
    PROVE  ~Clash(requests'[Least(Candidates)], requests'[j])
<1> DEFINE k == Least(Candidates)
           r == Swept[k]
           q == Activate(r)
           b == Swept[j]
           start == Len(r.prefix.tokens)
<1>1. /\ k \in Ids /\ Present(r) /\ r.status = "queued" /\ Admissible(Swept, k)
      /\ Swept \in [Ids -> Request]
  BY CandidateQueued, SweptGood DEF Admit, CanAdmit, GoodTable
<1>2. r \in Request /\ b \in Request /\ (r.reg # 0 /\ Exact(r) # {} => r.prefix = prefixes[Least(Exact(r))])
  BY <1>1, SweptFields
<1>3. requests'[k] = q /\ requests'[j] = b
  <2>1. requests' = [Swept EXCEPT ![k] = q]
    BY DEF Admit
  <2> HIDE DEF q, k
  <2> QED BY <1>1, <2>1 DEF k
<1>4. Admissible(Swept, k) =>
        \/ r.reg = 0 \/ Exact(r) # {} \/ ~Builds(b, r)
  BY DEF Admissible
<1>5. q = [r EXCEPT !.status = "prefill", !.resident = TRUE, !.cached = start, !.committed = start]
  BY DEF Activate
<1>6. q \in Request
  <2> HIDE DEF r
  <2> QED BY <1>1, ActivatePresent DEF Present, Sound
<1> HIDE DEF r, q, b, k
<1>7. q.reg = r.reg /\ q.spec = r.spec /\ q.committed = start
  <2> HIDE DEF start
  <2>1. start \in Nat
    <3>1. r.prefix.tokens \in Seq(Int)
      BY <1>2 DEF Request, Snapshot
    <3> QED BY <3>1, LenProperties DEF start
  <2> QED BY <1>2, <1>5, <2>1 DEF Request
<1>8. CASE r.reg = 0
  BY <1>3, <1>7, <1>8 DEF Clash, SameBuild, k
<1>9. CASE r.reg # 0 /\ Exact(r) # {}
  <2>1. start = r.reg
    BY <1>2, <1>9, ExactAttached DEF Inv
  <2>2. ~Building(q)
    <3>1. r.reg \in Nat
      BY <1>2 DEF Request
    <3> QED BY <1>7, <2>1, <3>1 DEF Building
  <2> QED BY <1>3, <2>2 DEF Clash, k
<1>10. CASE ~Builds(b, r)
  <2>1. SameBuild(q, b) => SameBuild(r, b) /\ b.reg = r.reg
    BY <1>7 DEF SameBuild
  <2>2. ~Clash(q, b)
    BY <1>10, <2>1 DEF Clash, Building, Builds
  <2> QED BY <1>3, <2>2 DEF k
<1> QED
  BY <1>1, <1>4, <1>8, <1>9, <1>10

(* A clash is one seen from either side.                                    *)
LEMMA ClashBoth ==
    ASSUME NEW a, NEW b, Clash(a, b)
    PROVE  Clash(b, a)
BY DEF Clash, SameBuild

(* No two requests ever evaluate the same registered leading tokens at      *)
(* once, however leaders are cancelled, fail or find no room.               *)
THEOREM OneBuilder == Spec => []SingleFlight
<1>1. Init => Alone
  BY AbsentTyped DEF Init, Alone, Clash, Building
<1>2. ASSUME Inv, Alone, [Next]_vars
      PROVE  Alone'
  <2>1. SUFFICES ASSUME NEW i \in Ids, NEW j \in Ids, i # j
                 PROVE  ~Clash(requests'[i], requests'[j])
    BY DEF Alone
  <2>2. ~Clash(requests[i], requests[j])
    BY <1>2, <2>1 DEF Alone
  <2>3. CASE Lags(requests[i], requests'[i]) /\ Lags(requests[j], requests'[j])
    <3> DEFINE a == requests[i]
               b == requests[j]
               c == requests'[i]
               d == requests'[j]
    <3>1. Lags(a, c) /\ Lags(b, d) /\ ~Clash(a, b)
      BY <2>2, <2>3
    <3> HIDE DEF a, b, c, d
    <3>2. ~Clash(c, d)
      BY <3>1 DEF Lags, Clash, SameBuild
    <3> QED BY <3>2 DEF c, d
  <2>4. CASE Admit /\ i = Least(Candidates)
    BY <1>2, <2>1, <2>4, AdmittedAlone
  <2>5. CASE Admit /\ j = Least(Candidates)
    BY <1>2, <2>1, <2>5, AdmittedAlone, ClashBoth
  <2>6. CASE UNCHANGED vars
    BY <2>2, <2>6 DEF vars
  <2>7. CASE Caller
    BY <1>2, <2>3, <2>7, CallerLags
  <2>8. CASE StepAdmission
    BY <1>2, <2>3, <2>4, <2>5, <2>8, AdmissionProceeds
  <2>9. CASE Work
    BY <1>2, <2>3, <2>9, WorkProceeds
  <2> QED BY <1>2, <2>6, <2>7, <2>8, <2>9 DEF Next
<1>3. ASSUME Alone
      PROVE  SingleFlight
  <2> SUFFICES ASSUME NEW i \in Ids, NEW j \in Ids, i # j,
                      requests[i].resident /\ ~Terminal(requests[i]),
                      requests[i].committed < requests[i].reg,
                      Builds(requests[j], requests[i])
               PROVE  FALSE
    BY DEF SingleFlight
  <2>1. Building(requests[i])
    BY DEF Building
  <2>2. SameBuild(requests[i], requests[j]) /\ Building(requests[j])
    BY DEF Builds, Building, SameBuild
  <2> QED BY <1>3, <2>1, <2>2 DEF Alone, Clash
<1>4. Alone => SingleFlight
  BY <1>3
<1>5. Inv /\ Alone /\ [Next]_vars => Alone'
  BY <1>2
<1> QED
  BY <1>1, <1>4, <1>5, Invariance, PTL DEF Spec

-----------------------------------------------------------------------------
(* What the owner sees.                                                     *)

\* What an entry shows; used says whether its ID was handed out.
View(r, used) ==
    [status |-> CASE r.status # "absent" /\ Unfinished(r) -> "working"
                  [] r.status # "absent" /\ ~Unfinished(r) -> r.status
                  [] r.status = "absent" /\ used -> "released"
                  [] OTHER -> "unused",
     delivered |-> SubSeq(r.output, 1, r.consumed),
     rest |-> After(r.output, r.consumed)]

(* An absent entry is an unused or a released ID.                           *)
LEMMA AbsentView ==
    /\ View(Absent, FALSE) = Contract!Unused
    /\ View(Absent, TRUE) = Contract!Released
<1> DEFINE a == Absent
<1>1. a.status = "absent" /\ a.output = <<>> /\ a.consumed = 0
  BY AbsentTyped
<1>2. SubSeq(<<>>, 1, 0) = <<>> /\ Len(<<>>) = 0 /\ After(<<>>, 0) = <<>>
  <2>1. SubSeq(<<>>, 1, 0) = <<>> /\ Len(<<>>) = 0
    BY SubSeqEmpty, EmptySeq
  <2> QED BY <2>1 DEF After
<1> HIDE DEF a
<1>3. View(a, FALSE) = [status |-> "unused", delivered |-> <<>>, rest |-> <<>>]
  BY <1>1, <1>2 DEF View
<1>4. View(a, TRUE) = [status |-> "released", delivered |-> <<>>, rest |-> <<>>]
  BY <1>1, <1>2 DEF View
<1>5. Contract!Unused = [status |-> "unused", delivered |-> <<>>, rest |-> <<>>]
  BY DEF Contract!Unused
<1>6. Contract!Released = [status |-> "released", delivered |-> <<>>, rest |-> <<>>]
  BY DEF Contract!Unused, Contract!Released
<1> QED
  BY <1>3, <1>4, <1>5, <1>6 DEF a

(* What a present entry shows, whatever its ID.                             *)
LEMMA PresentView ==
    ASSUME NEW r, Present(r), NEW used \in BOOLEAN
    PROVE  LET v == View(r, used) IN
           /\ v.status = IF Unfinished(r) THEN "working" ELSE r.status
           /\ ~Unfinished(r) => Terminal(r)
           /\ v.delivered = SubSeq(r.output, 1, r.consumed)
           /\ v.rest = After(r.output, r.consumed)
           /\ v \in Contract!Request /\ Contract!Exists(v)
<1> DEFINE v == View(r, used)
<1>1. /\ r \in Request /\ r.status # "absent" /\ r.status \in Statuses
      /\ r.output \in Seq(Vocab) /\ r.consumed \in Nat /\ Len(r.output) \in Nat
      /\ r.consumed <= Len(r.output)
  BY LenProperties DEF Present, Sound, Request
<1>2. SubSeq(r.output, 1, r.consumed) \in Seq(Vocab)
  <2>1. \A n \in 1..r.consumed : r.output[n] \in Vocab
    BY <1>1, ElementOfSeq
  <2> QED BY <1>1, <2>1, SubSeqProperties
<1>3. After(r.output, r.consumed) \in Seq(Vocab)
  <2>1. r.consumed \in 0..Len(r.output)
    BY <1>1
  <2> QED BY <1>1, <2>1, AfterShape
<1>4. ~Unfinished(r) => Terminal(r)
  BY <1>1 DEF Unfinished, Terminal, Statuses
<1>5. /\ v.status = IF Unfinished(r) THEN "working" ELSE r.status
      /\ v.delivered = SubSeq(r.output, 1, r.consumed)
      /\ v.rest = After(r.output, r.consumed)
  <2>1. CASE Unfinished(r)
    BY <1>1, <2>1 DEF View
  <2>2. CASE ~Unfinished(r)
    BY <1>1, <2>2 DEF View
  <2> QED BY <2>1, <2>2
<1>6. v = [status |-> v.status, delivered |-> v.delivered, rest |-> v.rest]
  BY DEF View
<1> HIDE DEF v
<1>7. v.status \in {"working"} \cup Contract!Ends
  BY <1>4, <1>5 DEF Terminal, Contract!Ends
<1>8. v \in Contract!Request /\ Contract!Exists(v)
  BY <1>2, <1>3, <1>5, <1>6, <1>7 DEF Contract!Request, Contract!Exists
<1> QED
  BY <1>4, <1>5, <1>8 DEF v

(* What any entry shows is what the contract speaks of.                     *)
LEMMA GoodView ==
    ASSUME NEW r, Good(r), NEW used \in BOOLEAN
    PROVE  View(r, used) \in Contract!Request
<1>1. CASE r = Absent
  <2>1. <<>> \in Seq(Vocab)
    BY EmptySeq
  <2>2. Contract!Unused \in Contract!Request /\ Contract!Released \in Contract!Request
    BY <2>1 DEF Contract!Unused, Contract!Released, Contract!Request
  <2> QED BY <1>1, <2>2, AbsentView
<1>2. CASE Present(r)
  BY <1>2, PresentView
<1> QED
  BY <1>1, <1>2 DEF Good

(* A step inside the engine shows as progress of the requests it works on.  *)
LEMMA StepView ==
    ASSUME NEW r, Good(r), NEW q, Good(q), Proceeds(r, q), Evolves(r, q), NEW used \in BOOLEAN
    PROVE  \/ View(q, used) = View(r, used)
           \/ Contract!Advances(View(r, used), View(q, used))
<1>1. CASE r = Absent
  BY <1>1 DEF Proceeds
<1>2. CASE Present(r) /\ q # Absent
  <2>1. Present(q)
    BY <1>2 DEF Good
  <2> DEFINE v == View(r, used)
             w == View(q, used)
  <2>2. /\ v.status = (IF Unfinished(r) THEN "working" ELSE r.status)
        /\ w.status = (IF Unfinished(q) THEN "working" ELSE q.status)
        /\ (~Unfinished(r) => Terminal(r)) /\ (~Unfinished(q) => Terminal(q))
        /\ v.delivered = SubSeq(r.output, 1, r.consumed)
        /\ w.delivered = SubSeq(q.output, 1, q.consumed)
    BY <1>2, <2>1, PresentView
  <2>3. CASE Terminal(r)
    <3>1. q.status = r.status /\ q.output = r.output /\ q.consumed = r.consumed
      BY <2>3 DEF Proceeds
    <3>2. View(q, used) = View(r, used)
      BY <3>1 DEF View, Unfinished
    <3> QED BY <3>2
  <2>4. CASE ~Terminal(r)
    <3>1. /\ q.consumed = r.consumed /\ q.status # "cancelled"
          /\ SubSeq(q.output, 1, r.consumed) = SubSeq(r.output, 1, r.consumed)
      BY <1>2, <2>4 DEF Proceeds, Evolves, Terminal
    <3> HIDE DEF v, w
    <3>2. v.status = "working" /\ w.status \in {"working", "complete", "failed"}
      BY <2>2, <2>4, <3>1 DEF Terminal
    <3>3. w.delivered = v.delivered
      BY <2>2, <3>1
    <3>4. Contract!Advances(v, w)
      BY <3>2, <3>3 DEF Contract!Advances
    <3> QED BY <3>4 DEF v, w
  <2> QED BY <2>3, <2>4
<1> QED
  BY <1>1, <1>2 DEF Good, Proceeds

(* A cancellation.                                                          *)
LEMMA CancelView ==
    ASSUME NEW r, Present(r), Unfinished(r), NEW used \in BOOLEAN
    PROVE  View(Retire([r EXCEPT !.status = "cancelled"]), used)
             = Contract!Cancelled(View(r, used))
<1> DEFINE c == [r EXCEPT !.status = "cancelled"]
           q == Retire(c)
           v == View(r, used)
<1>1. r \in Request
  BY DEF Present, Sound
<1>2. c = [r EXCEPT !.status = "cancelled"] /\ "cancelled" \in Statuses
  BY DEF Statuses
<1> HIDE DEF c
<1>3. /\ c \in Request /\ c.status = "cancelled" /\ c.output = r.output
      /\ c.consumed = r.consumed
  BY <1>1, <1>2 DEF Request
<1>4. q.status = "cancelled" /\ q.output = r.output /\ q.consumed = r.consumed
  BY <1>3, RetireFields
<1> HIDE DEF q
<1>5. /\ v.status = "working" /\ v.delivered = SubSeq(r.output, 1, r.consumed)
      /\ v.rest = After(r.output, r.consumed)
  BY PresentView
<1>6. v = [status |-> v.status, delivered |-> v.delivered, rest |-> v.rest]
  BY DEF View
<1> HIDE DEF v
<1>7. [v EXCEPT !.status = "cancelled"]
        = [status |-> "cancelled", delivered |-> v.delivered, rest |-> v.rest]
  BY <1>6
<1>8. View(q, used) = [status |-> "cancelled", delivered |-> v.delivered, rest |-> v.rest]
  BY <1>4, <1>5 DEF View, Unfinished
<1> QED
  BY <1>5, <1>7, <1>8 DEF Contract!Cancelled, v, q, c

(* The first k tokens of an output.                                         *)
LEMMA PrefixShape ==
    ASSUME NEW V, NEW out \in Seq(V), NEW k \in 0..Len(out)
    PROVE  /\ SubSeq(out, 1, k) \in Seq(V) /\ Len(SubSeq(out, 1, k)) = k
           /\ \A n \in 1..k : SubSeq(out, 1, k)[n] = out[n]
<1>1. Len(out) \in Nat /\ k \in Nat
  BY LenProperties
<1>2. \A n \in 1..k : out[n] \in V
  BY <1>1, ElementOfSeq
<1>3. /\ SubSeq(out, 1, k) \in Seq(V)
      /\ Len(SubSeq(out, 1, k)) = (IF 1 <= k THEN k - 1 + 1 ELSE 0)
      /\ \A n \in 1..(k - 1 + 1) : SubSeq(out, 1, k)[n] = out[1 + n - 1]
  BY <1>1, <1>2, SubSeqProperties
<1>4. k - 1 + 1 = k /\ \A n \in 1..k : 1 + n - 1 = n
  BY <1>1
<1> QED
  BY <1>1, <1>3, <1>4

(* A read hands out the next tokens of what was not read.                   *)
LEMMA ReadSplits ==
    ASSUME NEW out \in Seq(Vocab), NEW c \in 0..Len(out), NEW n \in 1..(Len(out) - c)
    PROVE  /\ n \in 1..Len(After(out, c))
           /\ SubSeq(out, 1, c + n) = SubSeq(out, 1, c) \o SubSeq(After(out, c), 1, n)
           /\ After(out, c + n) = SubSeq(After(out, c), n + 1, Len(After(out, c)))
<1> DEFINE rest == After(out, c)
           next == SubSeq(rest, 1, n)
           left == SubSeq(rest, n + 1, Len(rest))
<1>1. Len(out) \in Nat /\ c \in Nat /\ n \in Nat /\ n >= 1 /\ c + n <= Len(out)
      /\ c + n \in 0..Len(out)
  BY LenProperties
<1>2. /\ rest \in Seq(Vocab) /\ Len(rest) = Len(out) - c
      /\ \A m \in 1..(Len(out) - c) : rest[m] = out[c + m]
  BY AfterShape
<1> HIDE DEF rest
<1>3. /\ next \in Seq(Vocab) /\ Len(next) = n
      /\ \A m \in 1..n : next[m] = rest[m]
  <2>1. \A m \in 1..n : rest[m] \in Vocab
    BY <1>1, <1>2, ElementOfSeq
  <2>2. /\ next \in Seq(Vocab) /\ Len(next) = (IF 1 <= n THEN n - 1 + 1 ELSE 0)
        /\ \A m \in 1..(n - 1 + 1) : next[m] = rest[1 + m - 1]
    BY <1>1, <1>2, <2>1, SubSeqProperties
  <2> HIDE DEF next
  <2>3. n - 1 + 1 = n /\ \A m \in 1..n : 1 + m - 1 = m
    BY <1>1
  <2> QED BY <1>1, <2>2, <2>3
<1>4. /\ SubSeq(out, 1, c) \in Seq(Vocab) /\ Len(SubSeq(out, 1, c)) = c
      /\ \A m \in 1..c : SubSeq(out, 1, c)[m] = out[m]
  BY <1>1, PrefixShape
<1>5. /\ SubSeq(out, 1, c + n) \in Seq(Vocab) /\ Len(SubSeq(out, 1, c + n)) = c + n
      /\ \A m \in 1..(c + n) : SubSeq(out, 1, c + n)[m] = out[m]
  BY <1>1, PrefixShape
<1> DEFINE given == SubSeq(out, 1, c)
           longer == SubSeq(out, 1, c + n)
           joined == given \o next
<1> HIDE DEF given, longer, next
<1>6. joined = longer
  <2>1. /\ joined \in Seq(Vocab) /\ Len(joined) = c + n
        /\ \A m \in 1..(c + n) : joined[m] = IF m <= c THEN given[m] ELSE next[m - c]
    <3>1. given \in Seq(Vocab) /\ next \in Seq(Vocab) /\ Len(given) = c /\ Len(next) = n
      BY <1>3, <1>4 DEF given
    <3> QED BY <1>1, <3>1, ConcatProperties
  <2> HIDE DEF joined
  <2>2. ASSUME NEW m \in 1..(c + n) PROVE joined[m] = longer[m]
    <3>1. longer[m] = out[m] /\ m \in Nat
      BY <1>1, <1>5 DEF longer
    <3>2. CASE m <= c
      BY <1>1, <1>4, <2>1, <3>1, <3>2 DEF given
    <3>3. CASE m > c
      <4>1. m - c \in 1..n /\ m - c \in 1..(Len(out) - c) /\ c + (m - c) = m /\ ~(m <= c)
        BY <1>1, <3>1, <3>3
      <4>2. joined[m] = next[m - c] /\ next[m - c] = rest[m - c] /\ rest[m - c] = out[c + (m - c)]
        BY <1>2, <1>3, <2>1, <4>1
      <4> QED BY <3>1, <4>1, <4>2
    <3> QED BY <1>1, <3>1, <3>2, <3>3
  <2>3. longer \in Seq(Vocab) /\ Len(longer) = c + n
    BY <1>5 DEF longer
  <2> QED BY <2>1, <2>2, <2>3, SeqEqual
<1>7. left = After(out, c + n)
  <2>1. /\ After(out, c + n) \in Seq(Vocab)
        /\ Len(After(out, c + n)) = Len(out) - (c + n)
        /\ \A m \in 1..(Len(out) - (c + n)) : After(out, c + n)[m] = out[(c + n) + m]
    BY <1>1, AfterShape
  <2> DEFINE after == After(out, c + n)
  <2>2. /\ left \in Seq(Vocab) /\ Len(left) = Len(out) - (c + n)
        /\ \A m \in 1..(Len(out) - (c + n)) : left[m] = rest[n + m]
    <3>1. Len(rest) \in Nat /\ n <= Len(rest)
      BY <1>1, <1>2
    <3>2. n \in 0..Len(rest) /\ left = After(rest, n)
      BY <1>1, <3>1 DEF After
    <3>3. /\ After(rest, n) \in Seq(Vocab) /\ Len(After(rest, n)) = Len(rest) - n
          /\ \A m \in 1..(Len(rest) - n) : After(rest, n)[m] = rest[n + m]
      BY <1>2, <3>2, AfterShape
    <3>4. Len(rest) - n = Len(out) - (c + n)
      BY <1>1, <1>2
    <3> QED BY <3>2, <3>3, <3>4
  <2> HIDE DEF left, after
  <2>3. ASSUME NEW m \in 1..(Len(out) - (c + n)) PROVE left[m] = after[m]
    <3>1. n + m \in 1..(Len(out) - c) /\ c + (n + m) = (c + n) + m
      BY <1>1
    <3> QED BY <1>2, <2>1, <2>2, <3>1 DEF after
  <2>4. after \in Seq(Vocab) /\ Len(after) = Len(left)
    BY <2>1, <2>2 DEF after
  <2> QED BY <2>2, <2>3, <2>4, SeqEqual DEF after
<1>8. n \in 1..Len(rest)
  BY <1>1, <1>2
<1> QED
  BY <1>6, <1>7, <1>8 DEF rest, next, left, given, longer

(* A read.                                                                  *)
LEMMA ReadView ==
    ASSUME NEW r, Present(r), NEW used \in BOOLEAN, NEW n \in Nat, n >= 1,
           r.consumed + n <= Len(r.output)
    PROVE  /\ n \in 1..Len(View(r, used).rest)
           /\ View([r EXCEPT !.consumed = r.consumed + n], used)
                = Contract!Read(View(r, used), n)
<1> DEFINE c == r.consumed
           m == c + n
           q == [r EXCEPT !.consumed = m]
           v == View(r, used)
<1>1. /\ r \in Request /\ r.output \in Seq(Vocab) /\ c \in Nat
      /\ Len(r.output) \in Nat
  BY LenProperties DEF Present, Sound, Request
<1>2. /\ m \in Nat /\ c \in 0..Len(r.output) /\ n \in 1..(Len(r.output) - c)
  BY <1>1
<1>3. /\ n \in 1..Len(After(r.output, c))
      /\ SubSeq(r.output, 1, m) = SubSeq(r.output, 1, c) \o SubSeq(After(r.output, c), 1, n)
      /\ After(r.output, m) = SubSeq(After(r.output, c), n + 1, Len(After(r.output, c)))
  BY <1>1, <1>2, ReadSplits
<1>4. q = [r EXCEPT !.consumed = m]
  OBVIOUS
<1>5. v.delivered = SubSeq(r.output, 1, c) /\ v.rest = After(r.output, c)
  BY PresentView
<1>6. v = [status |-> v.status, delivered |-> v.delivered, rest |-> v.rest]
  BY DEF View
<1> HIDE DEF m, q
<1>7. q.status = r.status /\ q.output = r.output /\ q.consumed = m
  BY <1>1, <1>2, <1>4 DEF Request
<1>8. View(q, used) = [status |-> v.status, delivered |-> SubSeq(r.output, 1, m),
                       rest |-> After(r.output, m)]
  BY <1>7 DEF View, Unfinished
<1> HIDE DEF v, c
<1> DEFINE given == v.delivered \o SubSeq(v.rest, 1, n)
           left == SubSeq(v.rest, n + 1, Len(v.rest))
<1>9. Contract!Read(v, n) = [v EXCEPT !.delivered = given, !.rest = left]
  BY <1>6 DEF Contract!Read
<1>10. given = SubSeq(r.output, 1, m) /\ left = After(r.output, m)
  BY <1>3, <1>5
<1> HIDE DEF given, left
<1>11. [v EXCEPT !.delivered = given, !.rest = left]
         = [status |-> v.status, delivered |-> given, rest |-> left]
  <2>1. given \in Seq(Vocab) /\ left \in Seq(Vocab)
    <3>1. m \in 0..Len(r.output)
      BY <1>1, <1>2 DEF m, c
    <3> QED BY <1>1, <1>10, <3>1, PrefixShape, AfterShape
  <2>2. v \in Contract!Request
    BY PresentView DEF v
  <2> DEFINE w == [v EXCEPT !.delivered = given, !.rest = left]
  <2>3. w \in Contract!Request /\ w.status = v.status /\ w.delivered = given /\ w.rest = left
    BY <2>1, <2>2 DEF Contract!Request
  <2> HIDE DEF w
  <2>4. w = [status |-> v.status, delivered |-> given, rest |-> left]
    BY <2>3 DEF Contract!Request
  <2> QED BY <2>4 DEF w
<1>12. View(q, used) = Contract!Read(v, n)
  BY <1>8, <1>9, <1>10, <1>11
<1> QED
  BY <1>3, <1>5, <1>12 DEF v, q, m, c

-----------------------------------------------------------------------------
(* The refinement.                                                          *)

(* The work and the admission of a step are invisible but for progress.     *)
LEMMA InnerStep ==
    ASSUME Inv, Inv', StepAdmission \/ Work, NEW i \in Ids
    PROVE  \/ View(requests'[i], i < nextId') = View(requests[i], i < nextId)
           \/ Contract!Advances(View(requests[i], i < nextId), View(requests'[i], i < nextId'))
<1>1. nextId' = nextId
  <2>1. CASE StepAdmission
    BY <2>1 DEF StepAdmission, StepWithoutAdmission, Admit, AdmitWithoutRoom, AdmitFails
  <2>2. CASE Work
    BY <2>2 DEF Work, StepIdle, PrefillFails, PrefillForward, PrefillPublish,
                PrefillFallback, PrefillDone, DecodeFails, DecodeRows, DecodeThrows, DecodeDone
  <2> QED BY <2>1, <2>2
<1>2. Good(requests[i]) /\ Good(requests'[i])
  BY DEF Inv, GoodTable
<1>3. Proceeds(requests[i], requests'[i]) /\ Evolves(requests[i], requests'[i])
  BY AdmissionProceeds, WorkProceeds, AdmissionEvolves, WorkEvolves
<1> DEFINE r == requests[i]
           q == requests'[i]
           used == i < nextId
<1>4. used \in BOOLEAN
  OBVIOUS
<1>5. \/ View(q, used) = View(r, used)
      \/ Contract!Advances(View(r, used), View(q, used))
  <2>1. Good(r) /\ Good(q) /\ Proceeds(r, q) /\ Evolves(r, q)
    BY <1>2, <1>3
  <2> HIDE DEF r, q, used
  <2> QED BY <1>4, <2>1, StepView
<1> QED
  BY <1>1, <1>5

(* A call changes what is seen of one request, or of none.                  *)
LEMMA CallShows ==
    ASSUME Inv, Turns, Unused, Caller
    PROVE  \/ \A j \in Ids : View(requests'[j], j < nextId') = View(requests[j], j < nextId)
           \/ \E i \in Ids :
                /\ Contract!Becomes(View(requests[i], i < nextId), View(requests'[i], i < nextId'))
                /\ \A j \in Ids \ {i} :
                     View(requests'[j], j < nextId') = View(requests[j], j < nextId)
<1>1. requests \in [Ids -> Request] /\ nextId \in Nat
  BY DEF Inv, GoodTable, Turns
<1>2. ASSUME UNCHANGED <<requests, nextId>>
      PROVE  \A j \in Ids : View(requests'[j], j < nextId') = View(requests[j], j < nextId)
  BY <1>2
<1>3. ASSUME NEW i \in Ids, NEW q, requests' = [requests EXCEPT ![i] = q], nextId' = nextId,
             Contract!Becomes(View(requests[i], i < nextId), View(q, i < nextId))
      PROVE  \E k \in Ids :
                /\ Contract!Becomes(View(requests[k], k < nextId), View(requests'[k], k < nextId'))
                /\ \A j \in Ids \ {k} :
                     View(requests'[j], j < nextId') = View(requests[j], j < nextId)
  <2>1. requests'[i] = q /\ \A j \in Ids \ {i} : requests'[j] = requests[j]
    BY <1>1, <1>3
  <2> QED BY <1>3, <2>1
<1>4. ASSUME NEW s \in Specs, NEW p \in handles \cup {NoPrefix},
             SubmitQueued(s, p) \/ SubmitActive(s, p)
      PROVE  \E i \in Ids :
                /\ Contract!Becomes(View(requests[i], i < nextId), View(requests'[i], i < nextId'))
                /\ \A j \in Ids \ {i} :
                     View(requests'[j], j < nextId') = View(requests[j], j < nextId)
  <2>1. Acceptable(s, p) /\ nextId \in Ids
    BY <1>4 DEF SubmitQueued, SubmitActive
  <2> DEFINE b == Submitted(s, p)
  <2>2. Present(b) /\ b.status = "queued"
    BY <2>1, SubmittedPresent
  <2> HIDE DEF b
  <2>3. PICK q \in {b, Activate(b)} :
          requests' = [requests EXCEPT ![nextId] = q] /\ nextId' = nextId + 1
    BY <1>4 DEF SubmitQueued, SubmitActive, Enter, b
  <2>4. /\ Present(q) /\ q.status \in {"queued", "prefill"}
    BY <2>2, <2>3, ActivatePresent
  <2>5. requests'[nextId] = q /\ \A j \in Ids \ {nextId} : requests'[j] = requests[j]
    BY <1>1, <2>1, <2>3
  <2>6. \A j \in Ids \ {nextId} : (j < nextId') = (j < nextId)
    <3>1. \A j \in Ids : j \in Nat
      BY DEF Ids
    <3> QED BY <1>1, <2>3, <3>1
  <2>7. (nextId < nextId') = TRUE /\ (nextId < nextId) = FALSE
    BY <1>1, <2>3
  <2>8. View(requests[nextId], nextId < nextId) = Contract!Unused
    <3>1. requests[nextId] = Absent
      <4>1. nextId >= nextId
        BY <1>1
      <4> QED BY <2>1, <4>1 DEF Unused
    <3>2. View(requests[nextId], nextId < nextId) = View(Absent, FALSE)
      BY <2>7, <3>1
    <3> QED BY <3>2, AbsentView
  <2>9. View(q, TRUE) = Contract!Begun
    <3>1. q.output = <<>> /\ q.consumed = 0 /\ Unfinished(q) /\ q.status # "absent"
      BY <2>4 DEF Present, Queued, Prefilling, Fresh, Unfinished
    <3>2. SubSeq(<<>>, 1, 0) = <<>> /\ Len(<<>>) = 0 /\ After(<<>>, 0) = <<>>
      <4>1. SubSeq(<<>>, 1, 0) = <<>> /\ Len(<<>>) = 0
        BY SubSeqEmpty, EmptySeq
      <4> QED BY <4>1 DEF After
    <3>3. View(q, TRUE) = [status |-> "working", delivered |-> <<>>, rest |-> <<>>]
      BY <3>1, <3>2 DEF View
    <3>4. Contract!Begun = [status |-> "working", delivered |-> <<>>, rest |-> <<>>]
      BY DEF Contract!Begun, Contract!Unused
    <3> QED BY <3>3, <3>4
  <2>10. View(requests'[nextId], nextId < nextId') = Contract!Begun
    BY <2>5, <2>7, <2>9
  <2>11. Contract!Becomes(View(requests[nextId], nextId < nextId),
                          View(requests'[nextId], nextId < nextId'))
    BY <2>8, <2>10 DEF Contract!Becomes
  <2>12. \A j \in Ids \ {nextId} :
           View(requests'[j], j < nextId') = View(requests[j], j < nextId)
    BY <2>5, <2>6
  <2> QED BY <2>1, <2>11, <2>12
<1>5. ASSUME NEW i \in Ids, NEW max \in 1..MaxBuffered, ReadOutput(i, max)
      PROVE  \E k \in Ids :
                /\ Contract!Becomes(View(requests[k], k < nextId), View(requests'[k], k < nextId'))
                /\ \A j \in Ids \ {k} :
                     View(requests'[j], j < nextId') = View(requests[j], j < nextId)
  <2> DEFINE r == requests[i]
             confirmed == IF Terminal(r) THEN Len(r.output)
                                         ELSE Confirmed(r.output, r.spec.stops)
             n == Smaller(max, confirmed - r.consumed)
             m == r.consumed + n
             q == [r EXCEPT !.consumed = m]
             used == i < nextId
  <2>1. Present(r) /\ r \in Request
    BY <1>5, GoodTyped DEF ReadOutput, Live, Inv, GoodTable
  <2>2. requests' = [requests EXCEPT ![i] = q] /\ nextId' = nextId /\ confirmed # r.consumed
    BY <1>1, <1>5 DEF ReadOutput
  <2>3. n \in Nat /\ n >= 1 /\ r.consumed + n <= Len(r.output)
    <3>1. /\ r.output \in Seq(Vocab) /\ Len(r.output) \in Nat /\ r.consumed \in Nat
      BY <2>1, LenProperties DEF Request
    <3>2. Confirmed(r.output, r.spec.stops) \in 0..Len(r.output)
      BY <3>1, ConfirmedIs
    <3>3. confirmed \in 0..Len(r.output)
      BY <3>1, <3>2
    <3>4. r.consumed <= confirmed
      <4>1. Terminal(r) => r.consumed <= Len(r.output)
        BY <2>1 DEF Present, Sound
      <4>2. ~Terminal(r) => r.consumed <= Confirmed(r.output, r.spec.stops)
        <5>1. r.status \in {"queued", "prefill"} => r.consumed = 0
          BY <2>1 DEF Present, Queued, Prefilling, Fresh
        <5>2. r.status = "decode" => r.consumed <= Confirmed(r.output, r.spec.stops)
          BY <2>1 DEF Present, Decoding
        <5>3. r.status \in Statuses /\ r.status # "absent"
          BY <2>1 DEF Present, Sound, Request
        <5> QED BY <3>2, <5>1, <5>2, <5>3 DEF Statuses, Terminal
      <4> QED BY <4>1, <4>2
    <3>5. max \in Nat \ {0}
      BY EngineAssumption
    <3> HIDE DEF confirmed, r
    <3> QED BY <2>2, <3>1, <3>3, <3>4, <3>5 DEF Smaller
  <2>4. used \in BOOLEAN
    OBVIOUS
  <2>5. /\ n \in 1..Len(View(r, used).rest)
        /\ View(q, used) = Contract!Read(View(r, used), n)
        /\ Contract!Exists(View(r, used))
    <3>1. q = [r EXCEPT !.consumed = r.consumed + n]
      OBVIOUS
    <3> HIDE DEF r, n, q, used
    <3> QED BY <2>1, <2>3, <2>4, <3>1, ReadView, PresentView
  <2>6. Contract!Becomes(View(r, used), View(q, used))
    <3> HIDE DEF r, n, q, used
    <3> QED BY <2>5 DEF Contract!Becomes
  <2> HIDE DEF q
  <2> QED BY <1>3, <2>2, <2>6
<1>6. ASSUME NEW i \in Ids, Cancel(i)
      PROVE  \E k \in Ids :
                /\ Contract!Becomes(View(requests[k], k < nextId), View(requests'[k], k < nextId'))
                /\ \A j \in Ids \ {k} :
                     View(requests'[j], j < nextId') = View(requests[j], j < nextId)
  <2> DEFINE r == requests[i]
             q == Retire([r EXCEPT !.status = "cancelled"])
             used == i < nextId
  <2>1. Present(r) /\ Unfinished(r)
    BY <1>6, GoodTyped DEF Cancel, Unfinished, Inv, GoodTable
  <2>2. requests' = [requests EXCEPT ![i] = q] /\ nextId' = nextId
    BY <1>1, <1>6 DEF Cancel
  <2>3. used \in BOOLEAN
    OBVIOUS
  <2>4. Contract!Becomes(View(r, used), View(q, used))
    <3> HIDE DEF r, used
    <3> QED BY <2>1, <2>3, CancelView DEF Contract!Becomes
  <2> HIDE DEF q
  <2> QED BY <1>3, <2>2, <2>4
<1>7. ASSUME NEW i \in Ids, Release(i)
      PROVE  \E k \in Ids :
                /\ Contract!Becomes(View(requests[k], k < nextId), View(requests'[k], k < nextId'))
                /\ \A j \in Ids \ {k} :
                     View(requests'[j], j < nextId') = View(requests[j], j < nextId)
  <2>1. Present(requests[i]) /\ requests[i] # Absent
    BY <1>7, GoodTyped, AbsentTyped DEF Release, Live, Inv, GoodTable, Present, Sound
  <2>2. (i < nextId) = TRUE
    BY <1>1, <2>1 DEF Unused, Ids
  <2>3. Contract!Exists(View(requests[i], TRUE))
    BY <2>1, PresentView
  <2>4. Contract!Becomes(View(requests[i], i < nextId), View(Absent, i < nextId))
    BY <2>2, <2>3, AbsentView DEF Contract!Becomes
  <2>5. requests' = [requests EXCEPT ![i] = Absent] /\ nextId' = nextId
    BY <1>7 DEF Release
  <2> QED BY <1>3, <2>4, <2>5
<1>8. ASSUME NEW s \in Specs, NEW p \in handles \cup {NoPrefix}, SubmitRefused(s, p)
      PROVE  UNCHANGED <<requests, nextId>>
  BY <1>8 DEF SubmitRefused
<1>9. ASSUME NEW e \in Registrations,
             \/ FindPrefix(e.ns, e.tokens) \/ RegisterKnown(e.ns, e.tokens)
             \/ \E built \in BOOLEAN : Register(e.ns, e.tokens, built)
      PROVE  UNCHANGED <<requests, nextId>>
  BY <1>9 DEF FindPrefix, RegisterKnown, Register
<1>10. ASSUME NEW p \in handles, DropHandle(p)
       PROVE  UNCHANGED <<requests, nextId>>
  BY <1>10 DEF DropHandle
<1> QED
  BY <1>2, <1>4, <1>5, <1>6, <1>7, <1>8, <1>9, <1>10 DEF Caller

(* CpuEngine keeps its contract: whatever it admits, pauses, shares or      *)
(* evicts, its owner sees requests that only grow what they delivered, end  *)
(* once and stay gone.                                                      *)
THEOREM KeepsContract == Spec => ImplementsContract
<1> DEFINE engine == [i \in Ids |-> Visible(i)]
<1>1. Init => Contract!Init
  <2> SUFFICES ASSUME Init PROVE engine = [i \in Ids |-> Contract!Unused]
    BY DEF Contract!Init
  <2>1. ASSUME NEW i \in Ids PROVE Visible(i) = Contract!Unused
    <3>1. requests[i] = Absent /\ (i < nextId) = FALSE
      BY DEF Init, Ids
    <3>2. Visible(i) = View(requests[i], i < nextId)
      BY DEF Visible, View
    <3>3. Visible(i) = View(Absent, FALSE)
      BY <3>1, <3>2
    <3> QED BY <3>3, AbsentView
  <2> QED BY <2>1
<1>2. ASSUME Inv, Inv', Turns, Unused, [Next]_vars
      PROVE  Contract!Next \/ UNCHANGED engine
  <2>1. \A i \in Ids : /\ engine[i] = View(requests[i], i < nextId)
                       /\ engine'[i] = View(requests'[i], i < nextId')
    BY DEF Visible, View
  <2>2. engine' \in [Ids -> Contract!Request]
    <3>1. ASSUME NEW i \in Ids PROVE engine'[i] \in Contract!Request
      <4> DEFINE q == requests'[i]
                 used == i < nextId'
      <4>1. Good(q) /\ used \in BOOLEAN /\ engine'[i] = View(q, used)
        BY <1>2, <2>1 DEF Inv, GoodTable
      <4> HIDE DEF q, used, engine
      <4> QED BY <4>1, GoodView
    <3>2. engine' = [i \in Ids |-> engine'[i]]
      OBVIOUS
    <3> HIDE DEF engine
    <3> QED BY <3>1, <3>2
  <2>3. CASE UNCHANGED vars
    <3>1. UNCHANGED <<requests, nextId>>
      BY <2>3 DEF vars
    <3> QED BY <3>1 DEF Visible
  <2>4. CASE StepAdmission \/ Work
    <3>1. \A i \in Ids : engine'[i] = engine[i] \/ Contract!Advances(engine[i], engine'[i])
      <4> SUFFICES ASSUME NEW i \in Ids
                   PROVE  engine'[i] = engine[i] \/ Contract!Advances(engine[i], engine'[i])
        OBVIOUS
      <4>1. \/ View(requests'[i], i < nextId') = View(requests[i], i < nextId)
            \/ Contract!Advances(View(requests[i], i < nextId), View(requests'[i], i < nextId'))
        BY <1>2, <2>4, InnerStep
      <4> HIDE DEF engine
      <4> QED BY <2>1, <4>1
    <3>2. Contract!Step
      BY <3>1 DEF Contract!Step
    <3> QED BY <2>2, <3>2 DEF Contract!Next
  <2>5. CASE Caller
    <3>1. CASE \A j \in Ids : View(requests'[j], j < nextId') = View(requests[j], j < nextId)
      <4>1. \A j \in Ids : engine'[j] = engine[j]
        <5> HIDE DEF engine
        <5> QED BY <2>1, <3>1
      <4>2. Contract!Step
        BY <4>1 DEF Contract!Step
      <4> QED BY <2>2, <4>2 DEF Contract!Next
    <3>2. ASSUME NEW i \in Ids,
                 Contract!Becomes(View(requests[i], i < nextId), View(requests'[i], i < nextId')),
                 \A j \in Ids \ {i} : View(requests'[j], j < nextId') = View(requests[j], j < nextId)
          PROVE  Contract!Next
      <4>1. Contract!Becomes(engine[i], engine'[i]) /\ \A j \in Ids \ {i} : engine'[j] = engine[j]
        <5> HIDE DEF engine
        <5> QED BY <2>1, <3>2
      <4>2. Contract!Call(i)
        BY <4>1 DEF Contract!Call
      <4> QED BY <2>2, <4>2 DEF Contract!Next
    <3> QED BY <1>2, <2>5, <3>1, <3>2, CallShows
  <2> QED BY <1>2, <2>3, <2>4, <2>5 DEF Next
<1>3. Inv /\ Inv' /\ Turns /\ Unused /\ [Next]_vars => [Contract!Next]_engine
  BY <1>2
<1> QED
  BY <1>1, <1>3, IdsUnused, Invariance, PTL DEF Spec, Contract!Spec, ImplementsContract

-----------------------------------------------------------------------------
(* Round robin.  Whoever got a turn of a kind while a request waited for    *)
(* the same kind stands behind it in the order from now on, and a step      *)
(* serves the front of that order.                                          *)

\* Those that overtook a waiting request are behind it.
Queue ==
    /\ scheduling => Serving
    /\ overtakers \in [Ids -> SUBSET Ids]
    /\ \A i \in Ids : \A j \in overtakers[i] :
         /\ requests[i].status = "prefill" => Before(i, j, lastPrefill)
         /\ requests[i].status = "decode" => Before(i, j, lastDecode)

-----------------------------------------------------------------------------
(* The order behind `last`.                                                 *)

(* It is a strict order.                                                    *)
LEMMA BeforeOrders ==
    ASSUME NEW i \in Ids, NEW j \in Ids, NEW k \in Ids, NEW last \in Nat
    PROVE  /\ ~(Before(i, j, last) /\ Before(j, i, last))
           /\ Before(i, j, last) /\ Before(j, k, last) => Before(i, k, last)
           /\ ~Before(i, i, last)
           /\ i # j => Before(i, j, last) \/ Before(j, i, last)
<1>1. i \in Nat /\ j \in Nat /\ k \in Nat
  BY DEF Ids
<1> QED
  BY <1>1 DEF Before

(* Behind the position of one that was before i, i is before all that were  *)
(* behind it and before all that were not behind that one.                  *)
LEMMA OrderTurns ==
    ASSUME NEW i \in Ids, NEW j \in Ids, NEW k \in Ids, NEW last \in Nat,
           Before(k, i, last)
    PROVE  /\ Before(i, j, last) => Before(i, j, k)
           /\ ~Before(k, j, last) => Before(i, j, k)
<1>1. i \in Nat /\ j \in Nat /\ k \in Nat
  BY DEF Ids
<1>2. Before(i, j, last) => Before(i, j, k)
  BY <1>1 DEF Before
<1>3. ~Before(k, j, last) => Before(i, j, k)
  BY <1>1 DEF Before
<1> QED
  BY <1>2, <1>3

-----------------------------------------------------------------------------
(* Who is served.                                                           *)

(* A batch holds the front of its order: whoever is ready to decode and not *)
(* in it stands behind all of it.                                           *)
LEMMA BatchInFront ==
    ASSUME NEW b \in NextBatch, NEW i \in Ready("decode") \ NextBatch, lastDecode \in Nat
    PROVE  Before(b, i, lastDecode)
<1> DEFINE Ahead(x) == {j \in Ready("decode") : Before(j, x, lastDecode)}
<1>1. b \in Ids /\ i \in Ids /\ b # i /\ Ready("decode") \subseteq Ids /\ b \in Ready("decode")
  BY DEF NextBatch, Ready, WithStatus
<1>2. SUFFICES ASSUME Before(i, b, lastDecode)
               PROVE  FALSE
  BY <1>1, BeforeOrders
<1>3. Ahead(i) \subseteq Ahead(b)
  BY <1>1, <1>2, BeforeOrders
<1>4. IsFiniteSet(Ahead(b))
  <2>1. IsFiniteSet(Ids)
    BY EngineAssumption, FS_Interval DEF Ids
  <2>2. Ahead(b) \subseteq Ids
    BY <1>1
  <2> HIDE DEF Ahead
  <2> QED BY <2>1, <2>2, FS_Subset
<1>5. Cardinality(Ahead(i)) <= Cardinality(Ahead(b))
  <2> HIDE DEF Ahead
  <2> QED BY <1>3, <1>4, FS_Subset
<1>6. /\ Cardinality(Ahead(b)) < MaxBatch /\ ~(Cardinality(Ahead(i)) < MaxBatch)
      /\ Cardinality(Ahead(i)) \in Nat /\ Cardinality(Ahead(b)) \in Nat
  <2>1. Cardinality(Ahead(b)) < MaxBatch /\ ~(Cardinality(Ahead(i)) < MaxBatch)
    BY DEF NextBatch
  <2> HIDE DEF Ahead
  <2>2. IsFiniteSet(Ahead(i))
    BY <1>3, <1>4, FS_Subset
  <2> QED BY <1>4, <2>1, <2>2, FS_CardinalityType
<1> HIDE DEF Ahead
<1> QED
  BY <1>5, <1>6, EngineAssumption

(* So does whoever is ready to prefill and not chosen.                      *)
LEMMA PrefillInFront ==
    ASSUME NEW k \in NextPrefill, NEW i \in Ready("prefill") \ NextPrefill
    PROVE  Before(k, i, lastPrefill)
BY DEF NextPrefill

(* Everyone served when a request waits for that kind is before it.         *)
LEMMA ServedInFront ==
    ASSUME Turns, NEW i \in Ids, KeepsWaiting(i), requests[i].status = ServedKind,
           NEW k \in Served
    PROVE  /\ k \in Ids
           /\ ServedKind = "prefill" => Before(k, i, lastPrefill)
           /\ ServedKind = "decode" => Before(k, i, lastDecode)
<1>1. lastDecode \in Nat
  BY EngineAssumption DEF Turns
<1>2. CASE DecodeTurn
  <2>1. k \in NextBatch /\ i \in Ready("decode") \ NextBatch /\ ServedKind = "decode"
    BY <1>2 DEF Served, KeepsWaiting, ServedKind, Ready, WithStatus
  <2> QED BY <1>1, <2>1, BatchInFront DEF NextBatch, Ready, WithStatus
<1>3. CASE ~DecodeTurn
  <2>1. k \in NextPrefill /\ i \in Ready("prefill") \ NextPrefill /\ ServedKind = "prefill"
    BY <1>3 DEF Served, KeepsWaiting, ServedKind, Ready, WithStatus
  <2> QED BY <2>1, PrefillInFront DEF NextPrefill, Ready, WithStatus
<1> QED
  BY <1>2, <1>3

-----------------------------------------------------------------------------
(* What a step does to the turns.                                           *)

\* How a step that serves a request of this kind moves its position of the
\* round: to the last one it serves.
Recorded(last, next, kind) ==
    /\ Served = {} \/ ServedKind # kind => next = last
    /\ Served # {} /\ ServedKind = kind =>
         next \in Served /\ \A j \in Served \ {next} : Before(j, next, last)

(* A step that serves nobody leaves both positions as they are; one that    *)
(* serves somebody moves the position of the kind it serves.                *)
LEMMA StepTurns ==
    ASSUME Turns, scheduling => Serving, Next
    PROVE  /\ scheduling' => Serving
           /\ Recorded(lastPrefill, lastPrefill', "prefill")
           /\ Recorded(lastDecode, lastDecode', "decode")
<1> DEFINE Result ==
      /\ scheduling' => Serving
      /\ Recorded(lastPrefill, lastPrefill', "prefill")
      /\ Recorded(lastDecode, lastDecode', "decode")
<1> SUFFICES Result
  OBVIOUS
<1> USE DEF Recorded
<1>1. ASSUME UNCHANGED turns, scheduling' => Serving, ~(scheduling /\ ~scheduling')
      PROVE  Result
  <2>1. Served = {}
    BY <1>1 DEF Served
  <2> QED BY <1>1, <2>1 DEF turns
<1>2. CASE Caller
  <2>1. UNCHANGED turns /\ UNCHANGED scheduling
    <3>1. ASSUME NEW s \in Specs, NEW p \in handles \cup {NoPrefix},
                 SubmitQueued(s, p) \/ SubmitActive(s, p) \/ SubmitRefused(s, p)
          PROVE  UNCHANGED turns /\ UNCHANGED scheduling
      BY <3>1 DEF SubmitQueued, SubmitActive, SubmitRefused
    <3>2. ASSUME NEW i \in Ids,
                 \/ \E max \in 1..MaxBuffered : ReadOutput(i, max)
                 \/ Cancel(i) \/ Release(i)
          PROVE  UNCHANGED turns /\ UNCHANGED scheduling
      BY <3>2 DEF ReadOutput, Cancel, Release
    <3>3. ASSUME NEW e \in Registrations,
                 \/ FindPrefix(e.ns, e.tokens) \/ RegisterKnown(e.ns, e.tokens)
                 \/ \E built \in BOOLEAN : Register(e.ns, e.tokens, built)
          PROVE  UNCHANGED turns /\ UNCHANGED scheduling
      BY <3>3 DEF FindPrefix, RegisterKnown, Register
    <3>4. ASSUME NEW p \in handles, DropHandle(p)
          PROVE  UNCHANGED turns /\ UNCHANGED scheduling
      BY <3>4 DEF DropHandle
    <3> QED BY <1>2, <3>1, <3>2, <3>3, <3>4 DEF Caller
  <2> QED BY <1>1, <2>1
<1>3. CASE StepAdmission
  <2>1. UNCHANGED turns /\ scheduling' \in {TRUE, scheduling} /\ Serving /\ ~scheduling
    BY <1>3 DEF StepAdmission, StepWithoutAdmission, Admit, AdmitWithoutRoom, AdmitFails
  <2> QED BY <1>1, <2>1
<1>4. CASE StepIdle
  <2>1. /\ UNCHANGED turns /\ scheduling /\ ~scheduling' /\ ~DecodeTurn
        /\ Ready("prefill") = {}
    BY <1>4 DEF StepIdle, DecodeTurn
  <2>2. Served = {}
    BY <2>1 DEF Served, NextPrefill
  <2> QED BY <2>1, <2>2 DEF turns
<1>5. ASSUME NEW i \in Ids, MayPrefill(i), PrefillDone(i)
      PROVE  Result
  <2>1. CASE Serving
    <3>1. /\ scheduling /\ ~scheduling' /\ ~DecodeTurn /\ i \in NextPrefill
          /\ lastPrefill' = i /\ lastDecode' = lastDecode
      BY <1>5, <2>1 DEF MayPrefill, PrefillDone
    <3>2. Served = NextPrefill /\ ServedKind = "prefill"
      BY <3>1 DEF Served, ServedKind
    <3>3. \A j \in NextPrefill \ {i} : Before(j, i, lastPrefill)
      BY <3>1 DEF NextPrefill
    <3> QED BY <3>1, <3>2, <3>3
  <2>2. CASE ~Serving
    <3>1. ~scheduling /\ ~scheduling' /\ lastPrefill' = lastPrefill /\ lastDecode' = lastDecode
      BY <1>5, <2>2 DEF PrefillDone
    <3>2. Served = {}
      BY <3>1 DEF Served
    <3> QED BY <3>1, <3>2
  <2> QED BY <2>1, <2>2
<1>6. ASSUME NEW B \in SUBSET Ids, MayDecode(B), DecodeDone(B)
      PROVE  Result
  <2>1. CASE Serving
    <3>1. /\ scheduling /\ ~scheduling' /\ DecodeTurn /\ B = NextBatch
          /\ lastPrefill' = lastPrefill
          /\ lastDecode' = CHOOSE i \in B : \A j \in B \ {i} : Before(j, i, lastDecode)
      BY <1>6, <2>1 DEF MayDecode, DecodeDone
    <3>2. Served = B /\ ServedKind = "decode"
      BY <3>1 DEF Served, ServedKind
    <3>3. lastDecode \in Nat
      BY EngineAssumption DEF Turns
    <3>4. B # {} => \E i \in B : \A j \in B \ {i} : Before(j, i, lastDecode)
      BY <3>3, LastServed
    <3>5. B # {} => /\ lastDecode' \in B
                    /\ \A j \in B \ {lastDecode'} : Before(j, lastDecode', lastDecode)
      BY <3>1, <3>4
    <3>6. B # {}
      <4>1. Ready("decode") # {} /\ Ready("decode") \in SUBSET Ids
        BY <3>1 DEF DecodeTurn, Ready, WithStatus
      <4>2. PICK i \in Ready("decode") : \A j \in Ready("decode") : ~Before(j, i, lastDecode)
        BY <3>3, <4>1, FirstServed
      <4>3. {j \in Ready("decode") : Before(j, i, lastDecode)} = {}
        BY <4>2
      <4>4. Cardinality({j \in Ready("decode") : Before(j, i, lastDecode)}) = 0
        BY <4>3, FS_EmptySet
      <4> QED BY <3>1, <4>4, EngineAssumption DEF NextBatch
    <3> QED BY <3>1, <3>2, <3>5, <3>6
  <2>2. CASE ~Serving
    <3>1. ~scheduling /\ ~scheduling' /\ lastPrefill' = lastPrefill /\ lastDecode' = lastDecode
      BY <1>6, <2>2 DEF DecodeDone
    <3>2. Served = {}
      BY <3>1 DEF Served
    <3> QED BY <3>1, <3>2
  <2> QED BY <2>1, <2>2
<1>7. CASE Work
  <2> HIDE DEF Result
  <2> QED
    BY <1>4, <1>5, <1>6, <1>7
    DEF Work, PrefillFails, PrefillForward, PrefillPublish, PrefillFallback,
        DecodeFails, DecodeRows, DecodeThrows
<1>8. Result
  <2> HIDE DEF Result
  <2> QED BY <1>2, <1>3, <1>7 DEF Next
<1> QED
  BY <1>8

-----------------------------------------------------------------------------
(* The theorem.                                                             *)

(* Whoever was behind a waiting request is still behind it after a step,    *)
(* and whoever the step served is behind it from then on.                   *)
LEMMA StaysBehind ==
    ASSUME NEW i \in Ids, NEW j \in Ids, NEW last \in Nat, NEW next, NEW kind,
           Recorded(last, next, kind), Served \subseteq Ids,
           ServedKind = kind => \A k \in Served : Before(k, i, last),
           Before(i, j, last) \/ (ServedKind = kind /\ j \in Served)
    PROVE  Before(i, j, next)
<1>1. CASE Served = {} \/ ServedKind # kind
  BY <1>1 DEF Recorded
<1>2. CASE Served # {} /\ ServedKind = kind
  <2>1. next \in Served /\ next \in Ids /\ Before(next, i, last)
    BY <1>2 DEF Recorded
  <2>2. j \in Served => ~Before(next, j, last)
    <3>1. CASE j = next
      BY <2>1, <3>1, BeforeOrders
    <3>2. CASE j # next
      BY <1>2, <2>1, <3>2, BeforeOrders DEF Recorded
    <3> QED BY <3>1, <3>2
  <2> QED BY <2>1, <2>2, OrderTurns
<1> QED
  BY <1>1, <1>2

(* Those that overtook a request stay behind it as long as it waits.        *)
LEMMA QueueKept ==
    ASSUME Turns, Queue, Next, Record
    PROVE  Queue'
<1>1. lastPrefill \in Nat /\ lastDecode \in Nat
  BY EngineAssumption DEF Turns
<1>2. Served \subseteq Ids
  BY DEF Served, NextBatch, NextPrefill, Ready, WithStatus
<1>3. overtakers' \in [Ids -> SUBSET Ids]
  BY <1>2 DEF Record, Queue
<1>4. /\ scheduling' => Serving
      /\ Recorded(lastPrefill, lastPrefill', "prefill")
      /\ Recorded(lastDecode, lastDecode', "decode")
  BY StepTurns DEF Queue
<1>5. ASSUME NEW i \in Ids, NEW j \in overtakers'[i]
      PROVE  /\ requests'[i].status = "prefill" => Before(i, j, lastPrefill')
             /\ requests'[i].status = "decode" => Before(i, j, lastDecode')
  <2>1. /\ KeepsWaiting(i) /\ requests'[i].status = requests[i].status
        /\ j \in overtakers[i] \/ (requests[i].status = ServedKind /\ j \in Served)
    BY <1>5 DEF Record, KeepsWaiting
  <2>2. j \in Ids
    BY <1>2, <2>1 DEF Queue
  <2>3. j \in overtakers[i] =>
          /\ requests[i].status = "prefill" => Before(i, j, lastPrefill)
          /\ requests[i].status = "decode" => Before(i, j, lastDecode)
    BY DEF Queue
  <2>4. CASE requests[i].status = "prefill"
    <3>1. ServedKind = "prefill" => \A k \in Served : Before(k, i, lastPrefill)
      BY <2>1, <2>4, ServedInFront
    <3>2. Before(i, j, lastPrefill')
      BY <1>1, <1>2, <1>4, <2>1, <2>2, <2>3, <2>4, <3>1, StaysBehind
    <3> QED BY <2>1, <2>4, <3>2
  <2>5. CASE requests[i].status = "decode"
    <3>1. ServedKind = "decode" => \A k \in Served : Before(k, i, lastDecode)
      BY <2>1, <2>5, ServedInFront
    <3>2. Before(i, j, lastDecode')
      BY <1>1, <1>2, <1>4, <2>1, <2>2, <2>3, <2>5, <3>1, StaysBehind
    <3> QED BY <2>1, <2>5, <3>2
  <2> QED BY <2>1, <2>4, <2>5 DEF KeepsWaiting
<1> QED
  BY <1>3, <1>4, <1>5 DEF Queue

(* Round robin: while a request is ready for a prefill chunk or a place in  *)
(* a decode batch and waits, nobody gets a second turn of that kind, for    *)
(* every number of requests and every batch size, however requests come,    *)
(* pause, go on and end (schedule_decode, schedule_prefill).                *)
THEOREM NobodyOvertakesTwice == TurnsSpec => OvertakenOnce
<1>1. TurnsInit => Init /\ Queue
  BY DEF TurnsInit, Init, Queue
<1>2. [Next /\ Record]_turnVars => [Next]_vars
  BY DEF turnVars
<1>3. Turns /\ Queue /\ [Next /\ Record]_turnVars => Queue'
  <2>1. ASSUME Queue, UNCHANGED turnVars
        PROVE  Queue'
    BY <2>1 DEF turnVars, vars, turns, Queue
  <2> QED BY <2>1, QueueKept
<1>4. ASSUME Turns, Queue, [Next /\ Record]_turnVars
      PROVE  [\A i \in Ids :
                KeepsWaiting(i) /\ requests[i].status = ServedKind
                   => Served \cap overtakers[i] = {}]_turnVars
  <2>1. ASSUME NEW i \in Ids, KeepsWaiting(i), requests[i].status = ServedKind,
               NEW k \in Served \cap overtakers[i]
        PROVE  FALSE
    <3>1. lastPrefill \in Nat /\ lastDecode \in Nat /\ k \in Ids
      BY <1>4, <2>1, EngineAssumption DEF Turns, Queue
    <3>2. /\ ServedKind = "prefill" => Before(k, i, lastPrefill) /\ Before(i, k, lastPrefill)
          /\ ServedKind = "decode" => Before(k, i, lastDecode) /\ Before(i, k, lastDecode)
      BY <1>4, <2>1, ServedInFront DEF Queue
    <3> QED BY <3>1, <3>2, BeforeOrders DEF ServedKind
  <2> QED BY <2>1
<1>5. Spec => []Turns
  BY Invariance, PTL
<1> QED
  BY <1>1, <1>2, <1>3, <1>4, <1>5, PTL DEF TurnsSpec, Spec, OvertakenOnce
=============================================================================
