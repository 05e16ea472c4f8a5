-------------------------- MODULE CpuEngine_proofs --------------------------
(***************************************************************************)
(* The inductive invariant of CpuEngine, and what follows from it for every *)
(* reachable state.  The first part says what the operations of CpuEngine   *)
(* do to one request: each takes an entry of the table that satisfies       *)
(* Present to one that does; before them come the two computations they     *)
(* are built from, the output with its stop conditions and the length of a  *)
(* prefill chunk.  Inv says that every entry of the table satisfies         *)
(* Present, that the store holds snapshots of this engine only, and that    *)
(* there are finitely many handles.                                         *)
(***************************************************************************)
EXTENDS CpuEngine, TLAPS, SequenceTheorems, FiniteSetTheorems, WellFoundedInduction

-----------------------------------------------------------------------------
(* What a stop condition can take back, for every output and every set of   *)
(* stop tokens and stop sequences: never a token that was confirmed before  *)
(* (OutputTokens).                                                          *)

Below == {pair \in Nat \X Nat : pair[1] < pair[2]}

(* Below is the order of the naturals, as a relation.                       *)
LEMMA InBelow == ASSUME NEW x \in Nat, NEW y \in Nat, y < x PROVE <<y, x>> \in Below
<1> DEFINE p == <<y, x>>
<1>1. p \in Nat \X Nat /\ p[1] < p[2]
  OBVIOUS
<1>2. p \in Below
  <2> HIDE DEF p
  <2> QED BY <1>1 DEF Below
<1> QED BY <1>2

(* A non-empty set of naturals has a least element.                         *)
LEMMA LeastOf ==
    ASSUME NEW S \in SUBSET Nat, S # {}
    PROVE  Least(S) \in S /\ \A y \in S : Least(S) <= y
<1>1. IsWellFoundedOn(Below, Nat)
  BY NatLessThanWellFounded, Zenon DEF OpToRel, Below
<1>2. PICK x \in S : \A y \in S : ~(<<y, x>> \in Below)
  BY <1>1, WFMin
<1>3. ASSUME NEW y \in S PROVE x <= y
  <2>1. x \in Nat /\ y \in Nat OBVIOUS
  <2>2. ~(y < x) BY <2>1, <1>2, InBelow
  <2> QED BY <2>1, <2>2
<1> QED
  BY <1>3 DEF Least

(* confirmed is a position of the output, and what follows it is either     *)
(* nothing or may still become a stop sequence.                             *)
LEMMA ConfirmedIs ==
    ASSUME NEW V, NEW out \in Seq(V), NEW stops
    PROVE  /\ Confirmed(out, stops) \in 0..Len(out)
           /\ \/ Confirmed(out, stops) = Len(out)
              \/ Pending(out, Confirmed(out, stops), stops)
           /\ \A k \in 0..Len(out) : Pending(out, k, stops) => Confirmed(out, stops) <= k
<1> DEFINE Ks == {k \in 0..Len(out) : k = Len(out) \/ Pending(out, k, stops)}
<1>1. Len(out) \in Nat
  BY LenProperties
<1>2. Ks \in SUBSET Nat /\ Len(out) \in Ks
  BY <1>1
<1>3. Confirmed(out, stops) = Least(Ks)
  BY DEF Confirmed
<1>4. Least(Ks) \in Ks /\ \A k \in Ks : Least(Ks) <= k
  <2> HIDE DEF Ks
  <2> QED BY <1>2, LeastOf
<1> QED
  BY <1>1, <1>3, <1>4

(* A cut leaves a prefix of the output.                                     *)
LEMMA KeptIs ==
    ASSUME NEW V, NEW out \in Seq(V), out # <<>>, NEW stopIds, NEW stops \in SUBSET Seq(V)
    PROVE  /\ Kept(out, stopIds, stops) \in 0..Len(out)
           /\ \/ Kept(out, stopIds, stops) = Len(out)
              \/ Kept(out, stopIds, stops) = Len(out) - 1
              \/ \E s \in stops : /\ EndsWith(out, s)
                                  /\ Kept(out, stopIds, stops) = Len(out) - Len(s)
<1> DEFINE Ks == {Len(out)} \cup Cuts(out, stopIds, stops)
<1>1. Len(out) \in Nat \ {0}
  BY EmptySeq
<1>2. \A k \in Ks : /\ k \in 0..Len(out)
                    /\ \/ k = Len(out) \/ k = Len(out) - 1
                       \/ \E s \in stops : EndsWith(out, s) /\ k = Len(out) - Len(s)
  BY <1>1 DEF Cuts, EndsWith
<1>3. Kept(out, stopIds, stops) = Least(Ks)
  BY DEF Kept
<1>4. Least(Ks) \in Ks
  <2>1. Ks \in SUBSET Nat /\ Len(out) \in Ks
    BY <1>1, <1>2
  <2> HIDE DEF Ks
  <2> QED BY <2>1, LeastOf
<1> QED
  BY <1>2, <1>3, <1>4

(* The output with one more token keeps the tokens it had.                  *)
LEMMA LongerOutput ==
    ASSUME NEW V, NEW out \in Seq(V), NEW t \in V, NEW k \in 0..Len(out)
    PROVE  /\ out \o <<t>> \in Seq(V)
           /\ out \o <<t>> # <<>>
           /\ Len(out \o <<t>>) = Len(out) + 1
           /\ SubSeq(out \o <<t>>, 1, k) = SubSeq(out, 1, k)
<1> DEFINE longer == out \o <<t>>
<1>1. Len(out) \in Nat /\ <<t>> \in Seq(V) /\ Len(<<t>>) = 1
  BY LenProperties
<1>2. longer \in Seq(V) /\ Len(longer) = Len(out) + 1
      /\ \A n \in 1..Len(out) : longer[n] = out[n]
  BY <1>1, ConcatProperties
<1>3. longer # <<>>
  BY <1>1, <1>2, EmptySeq
<1>4. \A n \in 1..Len(out) : out[n] \in V
  BY ElementOfSeq
<1>5. SubSeq(longer, 1, k) = SubSeq(out, 1, k)
  <2>1. /\ \A n \in 1..k : out[n] \in V /\ longer[n] = out[n] /\ longer[n] \in V
    BY <1>1, <1>2, <1>4
  <2>2. /\ SubSeq(out, 1, k) \in Seq(V) /\ SubSeq(longer, 1, k) \in Seq(V)
        /\ Len(SubSeq(out, 1, k)) = k /\ Len(SubSeq(longer, 1, k)) = k
        /\ \A n \in 1..k : SubSeq(out, 1, k)[n] = out[n] /\ SubSeq(longer, 1, k)[n] = longer[n]
    <3>1. /\ SubSeq(out, 1, k) \in Seq(V)
          /\ Len(SubSeq(out, 1, k)) = (IF 1 <= k THEN k - 1 + 1 ELSE 0)
          /\ \A n \in 1..(k - 1 + 1) : SubSeq(out, 1, k)[n] = out[1 + n - 1]
      BY <1>1, <2>1, SubSeqProperties
    <3>2. /\ SubSeq(longer, 1, k) \in Seq(V)
          /\ Len(SubSeq(longer, 1, k)) = (IF 1 <= k THEN k - 1 + 1 ELSE 0)
          /\ \A n \in 1..(k - 1 + 1) : SubSeq(longer, 1, k)[n] = longer[1 + n - 1]
      <4> HIDE DEF longer
      <4> QED BY <1>1, <2>1, SubSeqProperties
    <3> HIDE DEF longer
    <3>3. k - 1 + 1 = k /\ \A n \in 1..k : 1 + n - 1 = n
      BY <1>1
    <3> QED BY <1>1, <3>1, <3>2, <3>3
  <2> HIDE DEF longer
  <2> QED BY <1>1, <2>1, <2>2, SeqEqual
<1> HIDE DEF longer
<1> QED
  BY <1>2, <1>3, <1>5 DEF longer

(* The shape of what follows the first k tokens.                            *)
LEMMA AfterShape ==
    ASSUME NEW V, NEW out \in Seq(V), NEW k \in 0..Len(out)
    PROVE  /\ After(out, k) \in Seq(V)
           /\ Len(After(out, k)) = Len(out) - k
           /\ \A n \in 1..(Len(out) - k) : After(out, k)[n] = out[k + n]
<1>1. Len(out) \in Nat
  BY LenProperties
<1>2. \A n \in (k + 1)..Len(out) : out[n] \in V
  BY <1>1, ElementOfSeq
<1>3. /\ SubSeq(out, k + 1, Len(out)) \in Seq(V)
      /\ Len(SubSeq(out, k + 1, Len(out))) = IF k + 1 <= Len(out) THEN Len(out) - (k + 1) + 1 ELSE 0
      /\ \A n \in 1..(Len(out) - (k + 1) + 1) : SubSeq(out, k + 1, Len(out))[n] = out[(k + 1) + n - 1]
  BY <1>1, <1>2, SubSeqProperties
<1>4. Len(After(out, k)) = Len(out) - k
  BY <1>1, <1>3 DEF After
<1>5. ASSUME NEW n \in 1..(Len(out) - k) PROVE After(out, k)[n] = out[k + n]
  <2>1. n \in 1..(Len(out) - (k + 1) + 1) /\ (k + 1) + n - 1 = k + n
    BY <1>1
  <2> QED BY <2>1, <1>3 DEF After
<1> QED BY <1>3, <1>4, <1>5 DEF After

(* They are the tokens of the longer output at the same places.             *)
LEMMA AfterElement ==
    ASSUME NEW V, NEW out \in Seq(V), NEW t \in V, NEW k \in 0..Len(out),
           NEW n \in 1..(Len(out) - k)
    PROVE  After(out, k)[n] = (out \o <<t>>)[k + n]
<1>1. Len(out) \in Nat /\ <<t>> \in Seq(V)
  BY LenProperties
<1>2. \A i \in 1..Len(out) : (out \o <<t>>)[i] = out[i]
  BY <1>1, ConcatProperties
<1>3. k + n \in 1..Len(out)
  BY <1>1
<1>4. After(out, k)[n] = out[k + n]
  BY AfterShape
<1> QED BY <1>2, <1>3, <1>4

(* A tail of the longer output that a stop sequence covers up to its last   *)
(* token, was pending before.                                               *)
LEMMA PendingBefore ==
    ASSUME NEW V, NEW out \in Seq(V), NEW t \in V, NEW stops \in SUBSET Seq(V),
           NEW k \in 0..Len(out), k < Len(out),
           NEW s \in stops, Len(out) - k < Len(s),
           \A n \in 1..(Len(out) - k) : (out \o <<t>>)[k + n] = s[n]
    PROVE  Pending(out, k, stops)
<1>1. Len(out) \in Nat /\ s \in Seq(V) /\ Len(s) \in Nat
  BY LenProperties
<1>2. Len(out) - k \in 1..(Len(s) - 1)
  BY <1>1
<1> DEFINE head == SubSeq(s, 1, Len(out) - k)
<1>3. /\ head \in Seq(V) /\ Len(head) = Len(out) - k
      /\ \A n \in 1..(Len(out) - k) : head[n] = s[n]
  <2>1. \A n \in 1..(Len(out) - k) : s[n] \in V
    BY <1>1, <1>2, ElementOfSeq
  <2>2. /\ head \in Seq(V)
        /\ Len(head) = (IF 1 <= Len(out) - k THEN Len(out) - k - 1 + 1 ELSE 0)
        /\ \A n \in 1..(Len(out) - k - 1 + 1) : head[n] = s[1 + n - 1]
    BY <1>1, <2>1, SubSeqProperties
  <2>3. Len(out) - k - 1 + 1 = Len(out) - k /\ \A n \in 1..(Len(out) - k) : 1 + n - 1 = n
    BY <1>1
  <2> HIDE DEF head
  <2> QED BY <1>2, <2>2, <2>3
<1>4. After(out, k) = head
  <2> HIDE DEF head
  <2>1. /\ After(out, k) \in Seq(V) /\ Len(After(out, k)) = Len(out) - k
        /\ \A n \in 1..(Len(out) - k) : After(out, k)[n] = (out \o <<t>>)[k + n]
    <3>1. After(out, k) \in Seq(V) /\ Len(After(out, k)) = Len(out) - k
      BY AfterShape
    <3>2. ASSUME NEW n \in 1..(Len(out) - k)
          PROVE  After(out, k)[n] = (out \o <<t>>)[k + n]
      BY AfterElement
    <3> QED BY <3>1, <3>2
  <2>2. \A n \in 1..(Len(out) - k) : After(out, k)[n] = head[n]
    BY <2>1, <1>3
  <2> QED BY <1>1, <1>3, <2>1, <2>2, SeqEqual
<1> QED
  BY <1>2, <1>4 DEF Pending

(* What is confirmed survives the cut behind the next token.                *)
LEMMA ConfirmedSurvivesCut ==
    ASSUME NEW V, NEW out \in Seq(V), NEW t \in V, NEW stopIds,
           NEW stops \in SUBSET Seq(V)
    PROVE  Confirmed(out, stops) <= Kept(out \o <<t>>, stopIds, stops)
<1> DEFINE longer == out \o <<t>>
<1>1. longer \in Seq(V) /\ longer # <<>> /\ Len(longer) = Len(out) + 1 /\ Len(out) \in Nat
  BY LongerOutput, LenProperties, 0 \in 0..Len(out)
<1>2. Confirmed(out, stops) \in 0..Len(out)
  BY ConfirmedIs
<1>3. SUFFICES ASSUME NEW s \in stops, EndsWith(longer, s),
                      Kept(longer, stopIds, stops) = Len(longer) - Len(s)
               PROVE  Confirmed(out, stops) <= Len(longer) - Len(s)
  <2> HIDE DEF longer
  <2>1. \/ Kept(longer, stopIds, stops) = Len(longer)
        \/ Kept(longer, stopIds, stops) = Len(longer) - 1
        \/ \E s \in stops : EndsWith(longer, s) /\ Kept(longer, stopIds, stops) = Len(longer) - Len(s)
    BY <1>1, KeptIs
  <2>2. CASE \/ Kept(longer, stopIds, stops) = Len(longer)
             \/ Kept(longer, stopIds, stops) = Len(longer) - 1
    <3>1. Confirmed(out, stops) <= Kept(longer, stopIds, stops)
      BY <1>1, <1>2, <2>2
    <3> QED BY <3>1 DEF longer
  <2>3. CASE \E s \in stops : EndsWith(longer, s) /\ Kept(longer, stopIds, stops) = Len(longer) - Len(s)
    <3>1. PICK s \in stops : EndsWith(longer, s) /\ Kept(longer, stopIds, stops) = Len(longer) - Len(s)
      BY <2>3
    <3>2. Confirmed(out, stops) <= Len(longer) - Len(s)
      BY <3>1
    <3> QED BY <3>1, <3>2 DEF longer
  <2> QED BY <2>1, <2>2, <2>3
<1> DEFINE k == Len(longer) - Len(s)
<1>4. Len(s) \in 1..Len(longer) /\ s \in Seq(V) /\ k \in 0..Len(out)
  BY <1>1, <1>3 DEF EndsWith
<1>5. CASE k = Len(out)
  BY <1>1, <1>2, <1>5
<1>6. CASE k < Len(out)
  <2>1. \A n \in 1..(Len(out) - k) : longer[k + n] = s[n]
    <3>1. \A n \in (Len(longer) - Len(s) + 1)..Len(longer) : longer[n] \in V
      BY <1>1, <1>4, ElementOfSeq
    <3>2. \A n \in 1..(Len(longer) - (Len(longer) - Len(s) + 1) + 1) :
             SubSeq(longer, Len(longer) - Len(s) + 1, Len(longer))[n]
                = longer[(Len(longer) - Len(s) + 1) + n - 1]
      <4> HIDE DEF longer
      <4> QED BY <1>1, <1>4, <3>1, SubSeqProperties
    <3>3. SubSeq(longer, Len(longer) - Len(s) + 1, Len(longer)) = s
      BY <1>3 DEF EndsWith
    <3>4. ASSUME NEW n \in 1..(Len(out) - k)
          PROVE  /\ n \in 1..(Len(longer) - (Len(longer) - Len(s) + 1) + 1)
                 /\ (Len(longer) - Len(s) + 1) + n - 1 = k + n
      <4> HIDE DEF longer
      <4> QED BY <1>1, <1>4
    <3> HIDE DEF longer, k
    <3> QED BY <3>2, <3>3, <3>4
  <2>2. Len(out) - k < Len(s)
    BY <1>1, <1>4
  <2>3. Pending(out, k, stops)
    <3> HIDE DEF k
    <3> QED BY <1>4, <1>6, <2>1, <2>2, PendingBefore
  <2> QED BY <1>4, <2>3, ConfirmedIs
<1> QED
  BY <1>1, <1>4, <1>5, <1>6

(* What is confirmed stays confirmed.                                       *)
LEMMA ConfirmedGrows ==
    ASSUME NEW V, NEW out \in Seq(V), NEW t \in V, NEW stops \in SUBSET Seq(V)
    PROVE  Confirmed(out, stops) <= Confirmed(out \o <<t>>, stops)
<1> DEFINE longer == out \o <<t>>
           k == Confirmed(longer, stops)
<1>1. longer \in Seq(V) /\ Len(longer) = Len(out) + 1 /\ Len(out) \in Nat
  BY LongerOutput, LenProperties, 0 \in 0..Len(out)
<1>2. k \in 0..Len(longer) /\ (k = Len(longer) \/ Pending(longer, k, stops))
  <2> HIDE DEF longer
  <2> QED BY <1>1, ConfirmedIs DEF k
<1>3. Confirmed(out, stops) \in 0..Len(out)
  BY ConfirmedIs
<1>4. CASE k >= Len(out)
  <2> HIDE DEF longer, k
  <2>1. Confirmed(out, stops) <= k BY <1>1, <1>2, <1>3, <1>4
  <2> QED BY <2>1 DEF k, longer
<1>5. CASE k < Len(out)
  <2>1. PICK s \in stops : /\ Len(longer) - k \in 1..(Len(s) - 1)
                           /\ After(longer, k) = SubSeq(s, 1, Len(longer) - k)
    <3> HIDE DEF longer, k
    <3> QED BY <1>1, <1>2, <1>5 DEF Pending
  <2>2. Len(s) \in Nat /\ s \in Seq(V)
    BY LenProperties
  <2>3. k \in 0..Len(out) /\ Len(out) - k < Len(s)
    <3> HIDE DEF longer, k
    <3> QED BY <1>1, <1>2, <1>5, <2>1, <2>2
  <2>4. ASSUME NEW n \in 1..(Len(out) - k) PROVE longer[k + n] = s[n]
    <3>1. n \in 1..(Len(longer) - k) /\ n \in 1..Len(s) /\ k + n \in 1..Len(longer)
      <4> HIDE DEF longer, k
      <4> QED BY <1>1, <1>2, <2>1, <2>2
    <3>2. /\ \A j \in (k + 1)..Len(longer) : longer[j] \in V
          /\ \A j \in 1..(Len(longer) - k) : s[j] \in V
      <4> HIDE DEF longer, k
      <4> QED BY <1>1, <1>2, <2>1, <2>2, ElementOfSeq
    <3>3. After(longer, k)[n] = longer[k + n]
      <4> HIDE DEF longer, k
      <4>1. \A j \in 1..(Len(longer) - (k + 1) + 1) :
               SubSeq(longer, k + 1, Len(longer))[j] = longer[(k + 1) + j - 1]
        BY <1>1, <1>2, <3>2, SubSeqProperties
      <4>2. n \in 1..(Len(longer) - (k + 1) + 1) /\ (k + 1) + n - 1 = k + n
        BY <1>1, <1>2, <3>1
      <4> QED BY <4>1, <4>2 DEF After
    <3>4. SubSeq(s, 1, Len(longer) - k)[n] = s[n]
      <4> HIDE DEF longer, k
      <4>1. \A j \in 1..((Len(longer) - k) - 1 + 1) : SubSeq(s, 1, Len(longer) - k)[j] = s[1 + j - 1]
        BY <1>1, <1>2, <2>2, <3>2, SubSeqProperties
      <4>2. n \in 1..((Len(longer) - k) - 1 + 1) /\ 1 + n - 1 = n
        BY <1>1, <1>2, <3>1
      <4> QED BY <4>1, <4>2
    <3> QED BY <2>1, <3>3, <3>4
  <2>5. Pending(out, k, stops)
    <3> HIDE DEF k
    <3> QED BY <1>5, <2>3, <2>4, PendingBefore
  <2> QED BY <2>3, <2>5, ConfirmedIs
<1> QED
  BY <1>1, <1>2, <1>4, <1>5

(* Fewer tokens are withheld than the longest stop sequence has.            *)
LEMMA FewWithheld ==
    ASSUME NEW V, NEW out \in Seq(V), NEW stops \in SUBSET Seq(V),
           NEW bound \in Nat \ {0}, \A s \in stops : Len(s) <= bound
    PROVE  Len(out) - Confirmed(out, stops) < bound
<1>1. /\ Confirmed(out, stops) \in 0..Len(out) /\ Len(out) \in Nat
      /\ \A s \in stops : Len(s) \in Nat
  BY ConfirmedIs, LenProperties
<1>2. CASE Pending(out, Confirmed(out, stops), stops)
  BY <1>1, <1>2 DEF Pending
<1>3. CASE Confirmed(out, stops) = Len(out)
  BY <1>1, <1>3
<1> QED
  BY <1>2, <1>3, ConfirmedIs

-----------------------------------------------------------------------------
(* The arithmetic of prefill chunks, for every position, prompt length and  *)
(* chunk size (PrefillChunk).                                               *)

(* Prefill advances, never past the end of the prompt.                      *)
THEOREM ChunkAdvances ==
    ASSUME NEW position \in Nat, NEW remaining \in Nat, NEW chunk \in Nat
    PROVE  /\ PrefillCount(position, remaining, chunk) \in 0..remaining
           /\ remaining # 0 /\ chunk # 0 => PrefillCount(position, remaining, chunk) > 0
<1>1. CASE remaining = 0 \/ chunk = 0
  BY <1>1 DEF PrefillCount
<1>2. CASE remaining # 0 /\ chunk # 0
  <2>1. position % chunk \in 0..(chunk - 1)
    BY <1>2
  <2> DEFINE left == chunk - (position % chunk)
             aligned == Smaller(left, remaining)
  <2>2. left \in 1..chunk
    BY <1>2, <2>1
  <2> HIDE DEF left
  <2>3. aligned \in 1..remaining
    BY <1>2, <2>2 DEF Smaller
  <2>4. PrefillCount(position, remaining, chunk) =
          IF position < RowLimit THEN Smaller(aligned, RowLimit - position) ELSE aligned
    BY <1>2 DEF PrefillCount, left
  <2> HIDE DEF aligned
  <2> QED BY <2>3, <2>4 DEF Smaller, RowLimit
<1> QED
  BY <1>1, <1>2

(* A chunk crosses neither a multiple of the chunk size nor the position    *)
(* where row attention hands over to tiled attention, wherever a restored   *)
(* prefix makes it start.                                                   *)
THEOREM ChunkCrossesNoBoundary ==
    ASSUME NEW position \in Nat, NEW remaining \in Nat, NEW chunk \in Nat \ {0},
           NEW count, count = PrefillCount(position, remaining, chunk)
    PROVE  /\ (position % chunk) + count <= chunk
           /\ position < RowLimit => position + count <= RowLimit
<1>1. position % chunk \in 0..(chunk - 1)
  OBVIOUS
<1> DEFINE left == chunk - (position % chunk)
           aligned == Smaller(left, remaining)
<1>2. left \in 1..chunk /\ (position % chunk) + left = chunk
  BY <1>1
<1>3. count = IF remaining = 0 THEN 0
              ELSE IF position < RowLimit THEN Smaller(aligned, RowLimit - position)
              ELSE aligned
  BY DEF PrefillCount
<1> DEFINE offset == position % chunk
<1>4. offset \in Nat
  BY <1>1
<1> HIDE DEF left, offset
<1>5. aligned \in Int /\ aligned <= left
  BY <1>2 DEF Smaller
<1> HIDE DEF aligned
<1>6. count <= left /\ count \in Int
  BY <1>2, <1>3, <1>5 DEF Smaller, RowLimit
<1>7. offset + count <= chunk
  BY <1>2, <1>4, <1>6 DEF offset
<1>8. position < RowLimit => position + count <= RowLimit
  BY <1>3, <1>5 DEF Smaller, RowLimit
<1> QED
  BY <1>7, <1>8 DEF offset

-----------------------------------------------------------------------------
(* The inductive invariant, request by request.                             *)

\* A snapshot is never empty; one of this engine's store is its own and within
\* its context.
Usable == {p \in Snapshot : p.tokens # <<>>}
Entry == {p \in Usable : p.config = Config /\ Len(p.tokens) <= MaxContext}

\* What holds of every request in the table, whatever its status.
Sound(r) ==
    /\ r \in Request /\ r.status # "absent"
    /\ r.spec \in Specs /\ r.spec.prompt # <<>> /\ r.spec.maxNew > 0
    /\ r.reg <= PromptLength(r) /\ PromptLength(r) <= MaxContext
    /\ Serving => \A s \in r.spec.stops : Len(s) <= MaxBuffered
    /\ r.prefix # NoPrefix =>
         /\ r.prefix \in Entry /\ r.prefix.ns = r.spec.ns
         /\ Matches(r.prefix, r.spec.prompt)
    /\ r.committed = r.cached + r.prefilled + r.forwards
    /\ r.written <= r.prefilled
    /\ r.committed <= KvCapacity(r)
    /\ r.consumed <= Len(r.output)

Fresh(r) ==
    /\ r.output = <<>> /\ r.generated = 0 /\ r.consumed = 0 /\ r.forwards = 0

Queued(r) ==
    Fresh(r) /\ r.committed = 0 /\ r.cached = 0 /\ r.prefilled = 0 /\ r.written = 0

Prefilling(r) ==
    /\ Fresh(r) /\ r.committed <= PromptLength(r)
    /\ r.committed = PromptLength(r) =>
         r.prefix # NoPrefix /\ Len(r.prefix.tokens) = PromptLength(r)

Decoding(r) ==
    /\ r.committed = PromptLength(r) + r.generated - 1
    /\ r.generated = Len(r.output) /\ r.generated \in 1..(r.spec.maxNew - 1)
    /\ r.consumed <= Confirmed(r.output, r.spec.stops)

Holding(r) == Serving => (r.resident <=> r.status \in {"prefill", "decode"})

Present(r) ==
    /\ Sound(r) /\ Holding(r)
    /\ r.status = "queued" => Queued(r)
    /\ r.status = "prefill" => Prefilling(r)
    /\ r.status = "decode" => Decoding(r)

\* A request whose next token is about to be selected.
Selecting(r) ==
    /\ Sound(r) /\ r.status \in {"prefill", "decode"}
    /\ r.committed = PromptLength(r) + r.generated
    /\ r.generated = Len(r.output) /\ r.generated < r.spec.maxNew
    /\ r.consumed <= Confirmed(r.output, r.spec.stops)

-----------------------------------------------------------------------------
(* The fields of the specification of any table entry have their types.     *)
LEMMA PromptTyped ==
    ASSUME NEW r \in Request
    PROVE  /\ r.spec.prompt \in Seq(Int) /\ PromptLength(r) \in Nat
           /\ r.spec.stops \in SUBSET Seq(Vocab) /\ r.spec.maxNew \in Nat
           /\ r.spec.ns \in Namespaces
<1>1. r.spec \in Specs \/ r.spec = NoSpec
  BY DEF Request
<1>2. /\ NoSpec.prompt = <<>> /\ NoSpec.stops = {} /\ NoSpec.maxNew = 0
      /\ NoSpec.ns = ""
  BY DEF NoSpec
<1>3. CASE r.spec = NoSpec
  <2>1. <<>> \in Seq(Int) /\ Len(<<>>) = 0
    BY EmptySeq
  <2>2. {} \in SUBSET Seq(Vocab) /\ "" \in Namespaces
    BY CallerAssumption
  <2>3. /\ r.spec.prompt = <<>> /\ r.spec.stops = {}
        /\ r.spec.maxNew = 0 /\ r.spec.ns = ""
    BY <1>2, <1>3
  <2>4. PromptLength(r) = 0
    BY <2>1, <2>3 DEF PromptLength
  <2>5. r.spec.prompt \in Seq(Int) /\ r.spec.stops \in SUBSET Seq(Vocab)
    BY <2>1, <2>3
  <2>6. r.spec.ns \in Namespaces
    BY <2>2, <2>3
  <2>7. r.spec.maxNew \in Nat /\ PromptLength(r) \in Nat
    BY <2>3, <2>4, 0 \in Nat, Zenon
  <2> QED BY <2>5, <2>6, <2>7
<1>4. CASE r.spec \in Specs
  <2>1. r.spec \in RequestSpec
    BY <1>4, CallerAssumption
  <2>2. r.spec.prompt \in Seq(Int) /\ r.spec.stops \in SUBSET Seq(Vocab)
        /\ r.spec.maxNew \in Nat /\ r.spec.ns \in Namespaces
    BY <2>1 DEF RequestSpec
  <2> QED BY <2>2, LenProperties DEF PromptLength
<1> QED
  BY <1>1, <1>3, <1>4

(* The absence of a snapshot has the type of one.                           *)
LEMMA PrefixTyped == NoPrefix \in Snapshot
<1>1. <<>> \in Seq(Int)
  BY EmptySeq
<1> QED
  BY <1>1, CallerAssumption DEF NoPrefix, Snapshot

(* A failure changes the status and nothing else.                           *)
LEMMA FailFields ==
    ASSUME NEW r \in Request
    PROVE  /\ Fail(r) \in Request
           /\ Fail(r).status = "failed" /\ Fail(r).spec = r.spec
           /\ Fail(r).prefix = r.prefix /\ Fail(r).reg = r.reg
           /\ Fail(r).resident = r.resident /\ Fail(r).committed = r.committed
           /\ Fail(r).cached = r.cached /\ Fail(r).prefilled = r.prefilled
           /\ Fail(r).forwards = r.forwards /\ Fail(r).written = r.written
           /\ Fail(r).output = r.output /\ Fail(r).generated = r.generated
           /\ Fail(r).consumed = r.consumed
BY DEF Fail, Request, Statuses

(* A failed request is sound.                                               *)
LEMMA FailSound ==
    ASSUME NEW r, Sound(r)
    PROVE  Sound(Fail(r)) /\ Terminal(Fail(r)) /\ Fail(r).resident = r.resident
<1>1. r \in Request
  BY DEF Sound
<1> QED
  BY <1>1, FailFields DEF Sound, Terminal, PromptLength, KvCapacity

(* Giving up the state and the snapshot of an ended request keeps it sound. *)
LEMMA RetireFields ==
    ASSUME NEW r \in Request
    PROVE  /\ Retire(r) \in Request
           /\ Retire(r).status = r.status /\ Retire(r).spec = r.spec
           /\ Retire(r).prefix \in {r.prefix, NoPrefix} /\ Retire(r).reg = r.reg
           /\ Serving /\ Terminal(r) => Retire(r).resident = FALSE
           /\ Retire(r).committed = r.committed
           /\ Retire(r).cached = r.cached /\ Retire(r).prefilled = r.prefilled
           /\ Retire(r).forwards = r.forwards /\ Retire(r).written = r.written
           /\ Retire(r).output = r.output /\ Retire(r).generated = r.generated
           /\ Retire(r).consumed = r.consumed
           /\ ~Terminal(r) => Retire(r) = r
<1>1. CASE Serving /\ r.resident /\ Terminal(r)
  BY <1>1, PrefixTyped DEF Retire, Request
<1>2. CASE ~(Serving /\ r.resident /\ Terminal(r))
  <2>1. Retire(r) = r
    BY <1>2 DEF Retire
  <2> QED BY <1>2, <2>1 DEF Request
<1> QED
  BY <1>1, <1>2

(* A request that ends and is retired is a well-formed ended request.       *)
LEMMA RetireSound ==
    ASSUME NEW r, Sound(r)
    PROVE  /\ Sound(Retire(r)) /\ Retire(r).status = r.status
           /\ Terminal(r) => Present(Retire(r))
           /\ ~Terminal(r) => Retire(r) = r
<1>1. r \in Request
  BY DEF Sound
<1>2. Sound(Retire(r))
  BY <1>1, RetireFields DEF Sound, PromptLength, KvCapacity
<1>3. Terminal(r) => Holding(Retire(r))
  BY <1>1, RetireFields DEF Holding, Terminal
<1> QED
  BY <1>1, <1>2, <1>3, RetireFields DEF Present, Terminal

(* A failure at any point of the work leaves a well-formed request.         *)
LEMMA EndSound ==
    ASSUME NEW r, Sound(r)
    PROVE  Present(Retire(Fail(r)))
BY FailSound, RetireSound

(* Selection.                                                               *)
LEMMA SelectSound ==
    ASSUME NEW r, Selecting(r), NEW outcome \in Outcomes
    PROVE  /\ Sound(Select(r, outcome))
           /\ Select(r, outcome).resident = r.resident
           /\ \/ Terminal(Select(r, outcome))
              \/ /\ Select(r, outcome).status = "decode"
                 /\ Decoding(Select(r, outcome))
<1>1. r \in Request /\ Sound(r)
  BY DEF Selecting, Sound
<1>2. CASE outcome = <<>>
  BY <1>1, <1>2, FailSound DEF Select
<1>3. CASE outcome # <<>>
  <2>1. PICK t \in Vocab : outcome = <<t>>
    BY <1>3 DEF Outcomes
  <2> DEFINE out == r.output \o <<t>>
             kept == Kept(out, r.spec.stopIds, r.spec.stops)
             cut == SubSeq(out, 1, kept)
             status == IF kept < Len(out) \/ Len(out) = r.spec.maxNew
                       THEN "complete" ELSE "decode"
             after == [r EXCEPT !.output = cut, !.generated = @ + 1, !.status = status]
  <2>2. Select(r, outcome) = after
    BY <1>3, <2>1 DEF Select
  <2>3. /\ r.output \in Seq(Vocab) /\ Len(r.output) \in Nat
        /\ r.spec.stops \in SUBSET Seq(Vocab) /\ PromptLength(r) \in Nat
        /\ r.spec.maxNew \in Nat
    <3>1. r.output \in Seq(Vocab)
      BY <1>1 DEF Request
    <3> QED BY <1>1, <3>1, PromptTyped, LenProperties
  <2>4. out \in Seq(Vocab) /\ out # <<>> /\ Len(out) = Len(r.output) + 1
    BY <2>3, LongerOutput, 0 \in 0..Len(r.output)
  <2>5. kept \in 0..Len(out)
    <3> HIDE DEF out
    <3> QED BY <2>3, <2>4, KeptIs
  <2>6. /\ Confirmed(r.output, r.spec.stops) <= kept
        /\ Confirmed(r.output, r.spec.stops) <= Confirmed(out, r.spec.stops)
    BY <2>3, ConfirmedSurvivesCut, ConfirmedGrows
  <2>7. /\ SubSeq(out, 1, kept) \in Seq(Vocab) /\ Len(SubSeq(out, 1, kept)) = kept
        /\ kept = Len(out) => SubSeq(out, 1, kept) = out
    <3> HIDE DEF out, kept
    <3>1. \A n \in 1..kept : out[n] \in Vocab
      BY <2>4, <2>5, ElementOfSeq
    <3>2. /\ SubSeq(out, 1, kept) \in Seq(Vocab)
          /\ Len(SubSeq(out, 1, kept)) = (IF 1 <= kept THEN kept - 1 + 1 ELSE 0)
      BY <2>4, <2>5, <3>1, SubSeqProperties
    <3>3. kept = Len(out) => SubSeq(out, 1, kept) = out
      BY <2>4, SubSeqFull
    <3> QED BY <2>4, <2>5, <3>2, <3>3
  <2> HIDE DEF out, kept
  <2>8. /\ after \in Request /\ after.spec = r.spec /\ after.prefix = r.prefix
        /\ after.reg = r.reg /\ after.resident = r.resident
        /\ after.committed = r.committed /\ after.cached = r.cached
        /\ after.prefilled = r.prefilled /\ after.forwards = r.forwards
        /\ after.written = r.written /\ after.consumed = r.consumed
        /\ after.output = cut /\ after.generated = r.generated + 1
        /\ after.status = status
    <3> DEFINE n == r.generated + 1
    <3>1. status \in Statuses
      BY DEF Statuses
    <3>2. cut \in Seq(Vocab) /\ n \in Nat
      BY <1>1, <2>7 DEF Request
    <3>3. after = [r EXCEPT !.output = cut, !.generated = n, !.status = status]
      OBVIOUS
    <3>4. n = r.generated + 1
      OBVIOUS
    <3> HIDE DEF cut, status, n, after
    <3>5. r \in Request
      BY <1>1
    <3>6. /\ after \in Request /\ after.spec = r.spec /\ after.prefix = r.prefix
          /\ after.reg = r.reg /\ after.resident = r.resident
          /\ after.committed = r.committed /\ after.cached = r.cached
          /\ after.prefilled = r.prefilled /\ after.forwards = r.forwards
          /\ after.written = r.written /\ after.consumed = r.consumed
          /\ after.output = cut /\ after.generated = n /\ after.status = status
      BY <3>1, <3>2, <3>3, <3>5 DEF Request
    <3> QED BY <3>4, <3>6
  <2> HIDE DEF after
  <2>9. /\ r.consumed \in Nat /\ r.generated \in Nat /\ r.committed \in Nat
    BY <1>1 DEF Request
  <2>10. Confirmed(r.output, r.spec.stops) \in 0..Len(r.output)
    BY <2>3, ConfirmedIs
  <2>11. /\ r.committed = PromptLength(r) + r.generated
         /\ r.generated = Len(r.output) /\ r.generated < r.spec.maxNew
         /\ r.consumed <= Confirmed(r.output, r.spec.stops)
    BY DEF Selecting
  <2>12. after.consumed <= Len(after.output)
    BY <2>5, <2>6, <2>7, <2>8, <2>9, <2>10, <2>11
  <2>13. Sound(after)
    <3>1. PromptLength(after) = PromptLength(r) /\ KvCapacity(after) = KvCapacity(r)
      BY <2>8 DEF PromptLength, KvCapacity
    <3> QED BY <1>1, <2>8, <2>12, <3>1 DEF Sound
  <2>14. CASE kept < Len(out) \/ Len(out) = r.spec.maxNew
    BY <2>2, <2>8, <2>13, <2>14 DEF Terminal
  <2>15. CASE ~(kept < Len(out) \/ Len(out) = r.spec.maxNew)
    <3>1. kept = Len(out) /\ after.output = out /\ after.status = "decode"
      BY <2>4, <2>5, <2>7, <2>8, <2>15
    <3>2. Confirmed(out, r.spec.stops) \in 0..Len(out)
      BY <2>3, <2>4, ConfirmedIs
    <3>3. r.consumed <= Confirmed(out, r.spec.stops)
      BY <2>3, <2>4, <2>6, <2>9, <2>10, <2>11, <3>2
    <3>4. after.consumed <= Confirmed(after.output, after.spec.stops)
      BY <2>8, <3>1, <3>3
    <3>5. after.generated = Len(out) /\ after.generated \in 1..(r.spec.maxNew - 1)
      BY <2>3, <2>4, <2>8, <2>9, <2>11, <2>15
    <3>6. after.committed = PromptLength(after) + after.generated - 1
      BY <2>3, <2>8, <2>9, <2>11 DEF PromptLength
    <3>7. Decoding(after)
      BY <2>8, <3>1, <3>4, <3>5, <3>6 DEF Decoding
    <3> QED BY <2>2, <2>8, <2>13, <3>1, <3>7
  <2> QED BY <2>14, <2>15
<1> QED
  BY <1>2, <1>3
(* A caller's read and cancellation.                                        *)
LEMMA CancelPresent ==
    ASSUME NEW r, Present(r)
    PROVE  Present(Retire([r EXCEPT !.status = "cancelled"]))
<1> DEFINE after == [r EXCEPT !.status = "cancelled"]
<1>1. r \in Request /\ Sound(r)
  BY DEF Present, Sound
<1>2. after = [r EXCEPT !.status = "cancelled"]
  OBVIOUS
<1> HIDE DEF after
<1>3. /\ after \in Request /\ after.spec = r.spec /\ after.prefix = r.prefix
      /\ after.reg = r.reg /\ after.status = "cancelled"
      /\ after.committed = r.committed /\ after.cached = r.cached
      /\ after.prefilled = r.prefilled /\ after.forwards = r.forwards
      /\ after.written = r.written /\ after.consumed = r.consumed
      /\ after.output = r.output
  BY <1>1, <1>2 DEF Request, Statuses
<1>4. Sound(after)
  BY <1>1, <1>3 DEF Sound, PromptLength, KvCapacity
<1>5. Present(Retire(after))
  BY <1>3, <1>4, RetireSound DEF Terminal
<1> QED
  BY <1>5 DEF after

(* A read of confirmed tokens leaves a well-formed request.                 *)
LEMMA ReadPresent ==
    ASSUME NEW r, Present(r), NEW n \in Nat,
           n <= IF Terminal(r) THEN Len(r.output) ELSE Confirmed(r.output, r.spec.stops),
           r.status \in {"queued", "prefill"} => n = 0
    PROVE  Present([r EXCEPT !.consumed = n])
<1> DEFINE after == [r EXCEPT !.consumed = n]
<1>1. r \in Request /\ Sound(r)
  BY DEF Present, Sound
<1>2. after = [r EXCEPT !.consumed = n]
  OBVIOUS
<1> HIDE DEF after
<1>3. /\ after \in Request /\ after.spec = r.spec /\ after.prefix = r.prefix
      /\ after.reg = r.reg /\ after.status = r.status /\ after.resident = r.resident
      /\ after.committed = r.committed /\ after.cached = r.cached
      /\ after.prefilled = r.prefilled /\ after.forwards = r.forwards
      /\ after.written = r.written /\ after.consumed = n
      /\ after.output = r.output /\ after.generated = r.generated
  BY <1>1, <1>2 DEF Request
<1>4. n <= Len(r.output)
  <2>1. r.output \in Seq(Vocab)
    BY <1>1 DEF Request
  <2>2. Confirmed(r.output, r.spec.stops) \in 0..Len(r.output) /\ Len(r.output) \in Nat
    BY <2>1, ConfirmedIs, LenProperties
  <2> QED BY <2>2
<1>5. PromptLength(after) = PromptLength(r) /\ KvCapacity(after) = KvCapacity(r)
  BY <1>3 DEF PromptLength, KvCapacity
<1>6. Sound(after)
  BY <1>1, <1>3, <1>4, <1>5 DEF Sound
<1>7. Holding(after)
  BY <1>3 DEF Present, Holding
<1>8. after.status = "queued" => Queued(after)
  BY <1>3 DEF Present, Queued, Fresh
<1>9. after.status = "prefill" => Prefilling(after)
  BY <1>3, <1>5 DEF Present, Prefilling, Fresh
<1>10. after.status = "decode" => Decoding(after)
  BY <1>3, <1>5 DEF Present, Decoding, Terminal
<1> QED
  BY <1>6, <1>7, <1>8, <1>9, <1>10 DEF Present, after

(* Admission.                                                               *)
LEMMA ActivatePresent ==
    ASSUME NEW r, Present(r), r.status = "queued"
    PROVE  Present(Activate(r)) /\ Activate(r).status = "prefill"
<1> DEFINE after == Activate(r)
           start == Len(r.prefix.tokens)
<1>1. r \in Request /\ Sound(r) /\ Queued(r)
  BY DEF Present, Sound
<1>2. /\ r.prefix \in Snapshot /\ start \in Nat /\ PromptLength(r) \in Nat
      /\ r.spec.maxNew \in Nat
  <2>1. r.prefix \in Snapshot
    BY <1>1 DEF Request
  <2>2. r.prefix.tokens \in Seq(Int)
    BY <2>1 DEF Snapshot
  <2> QED BY <1>1, <2>1, <2>2, LenProperties, PromptTyped
<1>3. start <= PromptLength(r)
  <2>1. CASE r.prefix = NoPrefix
    <3>1. NoPrefix.tokens = <<>> /\ Len(<<>>) = 0
      BY EmptySeq DEF NoPrefix
    <3> QED BY <1>2, <2>1, <3>1
  <2>2. CASE r.prefix # NoPrefix
    BY <1>1, <2>2 DEF Sound, Matches, PromptLength
  <2> QED BY <2>1, <2>2
<1>4. start = PromptLength(r) => r.prefix # NoPrefix
  <2>1. PromptLength(r) # 0
    <3>1. r.spec.prompt # <<>> /\ r.spec.prompt \in Seq(Int)
      BY <1>1, PromptTyped DEF Sound
    <3> QED BY <3>1, EmptySeq DEF PromptLength
  <2>2. NoPrefix.tokens = <<>> /\ Len(<<>>) = 0
    BY EmptySeq DEF NoPrefix
  <2> QED BY <2>1, <2>2
<1>5. after = [r EXCEPT !.status = "prefill", !.resident = TRUE,
                        !.cached = start, !.committed = start]
  BY DEF Activate
<1> HIDE DEF after
<1>6. /\ after \in Request /\ after.spec = r.spec /\ after.prefix = r.prefix
      /\ after.reg = r.reg /\ after.status = "prefill" /\ after.resident = TRUE
      /\ after.committed = start /\ after.cached = start
      /\ after.prefilled = r.prefilled /\ after.forwards = r.forwards
      /\ after.written = r.written /\ after.consumed = r.consumed
      /\ after.output = r.output /\ after.generated = r.generated
  <2>1. "prefill" \in Statuses
    BY DEF Statuses
  <2> HIDE DEF start
  <2> QED BY <1>1, <1>2, <1>5, <2>1 DEF Request
<1>7. PromptLength(after) = PromptLength(r) /\ KvCapacity(after) = KvCapacity(r)
  BY <1>6 DEF PromptLength, KvCapacity
<1>8. r.spec.maxNew > 0 /\ r.prefilled = 0 /\ r.forwards = 0 /\ r.written = 0
  BY <1>1 DEF Sound, Queued, Fresh
<1>9. start = start + 0 + 0 /\ start <= KvCapacity(r)
  BY <1>2, <1>3, <1>8 DEF KvCapacity
<1> HIDE DEF start
<1>10. Sound(after)
  BY <1>1, <1>6, <1>7, <1>8, <1>9 DEF Sound
<1>11. Prefilling(after)
  BY <1>1, <1>2, <1>3, <1>4, <1>6, <1>7 DEF Prefilling, Queued, Fresh, start
<1>12. Holding(after)
  BY <1>6 DEF Holding
<1> QED
  BY <1>6, <1>10, <1>11, <1>12 DEF Present, after
(* Prefill.                                                                 *)

(* A chunk is never longer than what is left of the prompt, boundary or     *)
(* not.                                                                     *)
LEMMA ChunkTokensFit ==
    ASSUME NEW r \in Request, r.committed <= PromptLength(r)
    PROVE  ChunkTokens(r) \in 0..(PromptLength(r) - r.committed)
<1> DEFINE left == PromptLength(r) - r.committed
           chunk == ChunkSize(PrefillChunkSize, PromptLength(r))
           count == PrefillCount(r.committed, left, chunk)
<1>1. r.committed \in Nat /\ r.reg \in Nat /\ PromptLength(r) \in Nat
  BY PromptTyped DEF Request
<1>2. left \in Nat
  BY <1>1
<1>3. chunk \in Nat
  BY <1>1, EngineAssumption DEF ChunkSize
<1>4. ChunkTokens(r) = IF r.committed < r.reg THEN Smaller(count, r.reg - r.committed) ELSE count
  BY DEF ChunkTokens
<1> HIDE DEF left, chunk
<1>5. count \in 0..left
  BY <1>1, <1>2, <1>3, ChunkAdvances
<1> HIDE DEF count
<1> QED
  BY <1>1, <1>2, <1>4, <1>5 DEF Smaller, left

(* A prefill chunk keeps the accounts and stays within the prompt.          *)
LEMMA PrefilledSound ==
    ASSUME NEW r, Present(r), r.status = "prefill"
    PROVE  /\ Sound(Prefilled(r)) /\ Fresh(Prefilled(r)) /\ Holding(Prefilled(r))
           /\ Prefilled(r).status = "prefill"
           /\ Prefilled(r).committed = r.committed + ChunkTokens(r)
           /\ Prefilled(r).committed <= PromptLength(Prefilled(r))
           /\ Prefilled(r).spec = r.spec /\ Prefilled(r).cached = r.cached
           /\ Prefilled(r).reg = r.reg
<1> DEFINE after == Prefilled(r)
           k == ChunkTokens(r)
           committed == r.committed + k
           prefilled == r.prefilled + k
<1>1. r \in Request /\ Sound(r) /\ Prefilling(r)
  BY DEF Present, Sound
<1>2. /\ r.committed \in Nat /\ r.prefilled \in Nat /\ r.cached \in Nat
      /\ r.forwards \in Nat /\ r.written \in Nat
      /\ PromptLength(r) \in Nat /\ r.spec.maxNew \in Nat
  BY <1>1, PromptTyped DEF Request
<1>3. k \in 0..(PromptLength(r) - r.committed)
  BY <1>1, ChunkTokensFit DEF Prefilling
<1>4. after = [r EXCEPT !.committed = committed, !.prefilled = prefilled]
  BY DEF Prefilled
<1> HIDE DEF after, k
<1>5. committed \in Nat /\ prefilled \in Nat /\ committed <= PromptLength(r)
  BY <1>2, <1>3
<1>6. /\ after \in Request /\ after.spec = r.spec /\ after.prefix = r.prefix
      /\ after.reg = r.reg /\ after.status = r.status /\ after.resident = r.resident
      /\ after.committed = committed /\ after.cached = r.cached
      /\ after.prefilled = prefilled /\ after.forwards = r.forwards
      /\ after.written = r.written /\ after.consumed = r.consumed
      /\ after.output = r.output /\ after.generated = r.generated
  <2> HIDE DEF committed, prefilled
  <2> QED BY <1>1, <1>4, <1>5 DEF Request
<1>7. PromptLength(after) = PromptLength(r) /\ KvCapacity(after) = KvCapacity(r)
  BY <1>6 DEF PromptLength, KvCapacity
<1>8. /\ committed = r.cached + prefilled + r.forwards
      /\ r.written <= prefilled /\ committed <= KvCapacity(r)
  <2>1. /\ r.committed = r.cached + r.prefilled + r.forwards
        /\ r.written <= r.prefilled /\ r.spec.maxNew > 0
    BY <1>1 DEF Sound
  <2>2. committed <= KvCapacity(r)
    <3> HIDE DEF committed
    <3> QED BY <1>2, <1>5, <2>1 DEF KvCapacity
  <2> QED BY <1>2, <1>3, <2>1, <2>2
<1>9. Sound(after)
  <2> HIDE DEF committed, prefilled
  <2> QED BY <1>1, <1>6, <1>7, <1>8 DEF Sound
<1>10. Fresh(after) /\ Holding(after)
  BY <1>1, <1>6 DEF Prefilling, Fresh, Holding, Present
<1> QED
  BY <1>5, <1>6, <1>7, <1>9, <1>10 DEF after, k

(* Whatever became of the chunk's snapshot, the request goes on: to its     *)
(* first token if the whole prompt is committed, else to the next chunk.    *)
LEMMA AfterPrefillPresent ==
    ASSUME NEW r, Sound(r), Fresh(r), Holding(r), r.status = "prefill",
           r.committed <= PromptLength(r), NEW outcome \in Outcomes
    PROVE  Present(AfterPrefill(r, outcome))
<1>1. CASE r.committed = PromptLength(r)
  <2>1. r \in Request /\ r.spec.stops \in SUBSET Seq(Vocab) /\ PromptLength(r) \in Nat
    BY PromptTyped DEF Sound
  <2>2. r.output \in Seq(Vocab) /\ Len(r.output) = 0
    BY <2>1, EmptySeq DEF Request, Fresh
  <2>3. Confirmed(r.output, r.spec.stops) \in 0..0
    BY <2>1, <2>2, ConfirmedIs
  <2>4. Selecting(r)
    BY <1>1, <2>1, <2>2, <2>3 DEF Selecting, Fresh, Sound
  <2> DEFINE next == Select(r, outcome)
  <2>5. /\ Sound(next) /\ next.resident = r.resident
        /\ Terminal(next) \/ (next.status = "decode" /\ Decoding(next))
    BY <2>4, SelectSound
  <2>6. AfterPrefill(r, outcome) = Retire(next)
    BY <1>1 DEF AfterPrefill
  <2> HIDE DEF next
  <2>7. CASE Terminal(next)
    BY <2>5, <2>6, <2>7, RetireSound
  <2>8. CASE ~Terminal(next)
    <3>1. Retire(next) = next /\ next.status = "decode" /\ Decoding(next)
      BY <2>5, <2>8, RetireSound
    <3>2. Holding(next)
      BY <2>5, <3>1 DEF Holding
    <3> QED BY <2>5, <2>6, <3>1, <3>2 DEF Present
  <2> QED BY <2>7, <2>8
<1>2. CASE r.committed # PromptLength(r)
  BY <1>2 DEF AfterPrefill, Present, Prefilling
<1> QED
  BY <1>1, <1>2

(* A request that gives up its registration is as well-formed as before.    *)
LEMMA UnregisteredPresent ==
    ASSUME NEW r
    PROVE  LET after == [r EXCEPT !.reg = 0] IN
           /\ Present(r) => Present(after)
           /\ Sound(r) /\ Fresh(r) /\ Holding(r) /\ r.status = "prefill"
                 /\ r.committed <= PromptLength(r) =>
               /\ Sound(after) /\ Fresh(after) /\ Holding(after)
               /\ after.status = "prefill" /\ after.committed <= PromptLength(after)
<1> DEFINE after == [r EXCEPT !.reg = 0]
<1>1. after = [r EXCEPT !.reg = 0]
  OBVIOUS
<1> HIDE DEF after
<1>2. SUFFICES ASSUME Sound(r)
               PROVE  /\ Present(r) => Present(after)
                      /\ Sound(r) /\ Fresh(r) /\ Holding(r) /\ r.status = "prefill"
                            /\ r.committed <= PromptLength(r) =>
                          /\ Sound(after) /\ Fresh(after) /\ Holding(after)
                          /\ after.status = "prefill" /\ after.committed <= PromptLength(after)
  BY DEF Present, after
<1>3. r \in Request
  BY <1>2 DEF Sound
<1>4. /\ after \in Request /\ after.spec = r.spec /\ after.prefix = r.prefix
      /\ after.reg = 0 /\ after.status = r.status /\ after.resident = r.resident
      /\ after.committed = r.committed /\ after.cached = r.cached
      /\ after.prefilled = r.prefilled /\ after.forwards = r.forwards
      /\ after.written = r.written /\ after.consumed = r.consumed
      /\ after.output = r.output /\ after.generated = r.generated
  BY <1>1, <1>3 DEF Request
<1>5. /\ PromptLength(after) = PromptLength(r) /\ KvCapacity(after) = KvCapacity(r)
      /\ 0 <= PromptLength(r)
  <2>1. PromptLength(r) \in Nat
    BY <1>3, PromptTyped
  <2> QED BY <1>4, <2>1 DEF PromptLength, KvCapacity
<1>6. Sound(after)
  BY <1>2, <1>4, <1>5 DEF Sound
<1>7. (Fresh(r) => Fresh(after)) /\ (Holding(r) => Holding(after))
  BY <1>4 DEF Fresh, Holding
<1>8. Present(r) => Present(after)
  <2>1. Queued(r) => Queued(after)
    BY <1>4, <1>7 DEF Queued
  <2>2. Prefilling(r) => Prefilling(after)
    BY <1>4, <1>5, <1>7 DEF Prefilling
  <2>3. Decoding(r) => Decoding(after)
    BY <1>4, <1>5 DEF Decoding
  <2> QED BY <1>4, <1>6, <1>7, <2>1, <2>2, <2>3 DEF Present
<1> QED
  BY <1>4, <1>5, <1>6, <1>7, <1>8

(* A publication: the builder is attached to the snapshot it stored.        *)
LEMMA PublishedSound ==
    ASSUME NEW r, Present(r), r.status = "prefill", Publishes(r),
           NEW p \in Entry, p.ns = r.spec.ns, Matches(p, r.spec.prompt),
           NEW after,
           after = [Prefilled(r) EXCEPT !.prefix = p, !.written = r.reg - r.cached]
    PROVE  /\ Sound(after) /\ Fresh(after) /\ Holding(after) /\ after.status = "prefill"
           /\ after.committed <= PromptLength(after)
<1> DEFINE q == Prefilled(r)
           written == r.reg - r.cached
<1>1. /\ Sound(q) /\ Fresh(q) /\ Holding(q) /\ q.status = "prefill"
      /\ q.committed = r.committed + ChunkTokens(r)
      /\ q.committed <= PromptLength(q) /\ q.cached = r.cached /\ q.reg = r.reg
      /\ q.spec = r.spec
  BY PrefilledSound
<1>2. q \in Request /\ q.committed = r.reg
  BY <1>1 DEF Sound, Publishes
<1> HIDE DEF q
<1>3. q.cached \in Nat /\ q.prefilled \in Nat /\ q.forwards = 0 /\ r.reg \in Nat
  BY <1>1, <1>2 DEF Request, Fresh
<1>4. written = q.prefilled
  BY <1>1, <1>2, <1>3 DEF Sound
<1>5. written \in Nat
  BY <1>3, <1>4
<1>6. after = [q EXCEPT !.prefix = p, !.written = written]
  BY DEF q
<1>7. p \in Snapshot
  BY DEF Entry, Usable
<1> HIDE DEF written
<1>8. /\ after \in Request /\ after.spec = q.spec /\ after.prefix = p
      /\ after.reg = q.reg /\ after.status = q.status /\ after.resident = q.resident
      /\ after.committed = q.committed /\ after.cached = q.cached
      /\ after.prefilled = q.prefilled /\ after.forwards = q.forwards
      /\ after.written = written /\ after.consumed = q.consumed
      /\ after.output = q.output /\ after.generated = q.generated
  BY <1>2, <1>5, <1>6, <1>7 DEF Request
<1>9. PromptLength(after) = PromptLength(q) /\ KvCapacity(after) = KvCapacity(q)
  BY <1>8 DEF PromptLength, KvCapacity
<1>10. Sound(after)
  BY <1>1, <1>3, <1>4, <1>8, <1>9 DEF Sound
<1> QED
  BY <1>1, <1>8, <1>9, <1>10 DEF Fresh, Holding

(* Decode.                                                                  *)
LEMMA ForwardSelecting ==
    ASSUME NEW r, Present(r), r.status = "decode"
    PROVE  Selecting(DecodeForward(r)) /\ DecodeForward(r).resident = r.resident
<1> DEFINE after == DecodeForward(r)
           committed == r.committed + 1
           forwards == r.forwards + 1
<1>1. r \in Request /\ Sound(r) /\ Decoding(r)
  BY DEF Present, Sound
<1>2. /\ r.committed \in Nat /\ r.prefilled \in Nat /\ r.cached \in Nat
      /\ r.forwards \in Nat /\ r.generated \in Nat
      /\ PromptLength(r) \in Nat /\ r.spec.maxNew \in Nat
  BY <1>1, PromptTyped DEF Request
<1>3. /\ r.committed = PromptLength(r) + r.generated - 1
      /\ r.generated = Len(r.output) /\ r.generated \in 1..(r.spec.maxNew - 1)
      /\ r.committed = r.cached + r.prefilled + r.forwards
  BY <1>1 DEF Decoding, Sound
<1>4. after = [r EXCEPT !.committed = committed, !.forwards = forwards]
  BY DEF DecodeForward
<1>5. /\ committed \in Nat /\ forwards \in Nat
      /\ committed = PromptLength(r) + r.generated
      /\ committed = r.cached + r.prefilled + forwards
      /\ committed <= KvCapacity(r)
  <2>1. committed \in Nat /\ forwards \in Nat
    BY <1>2
  <2>2. committed = PromptLength(r) + r.generated
    BY <1>2, <1>3
  <2>3. committed = r.cached + r.prefilled + forwards
    <3>1. r.committed = r.cached + r.prefilled + r.forwards
      BY <1>3
    <3> QED BY <1>2, <3>1
  <2>4. committed <= KvCapacity(r)
    <3> HIDE DEF committed
    <3> QED BY <1>2, <1>3, <2>2 DEF KvCapacity
  <2> QED BY <2>1, <2>2, <2>3, <2>4
<1> HIDE DEF after, committed, forwards
<1>6. /\ after \in Request /\ after.spec = r.spec /\ after.prefix = r.prefix
      /\ after.reg = r.reg /\ after.status = r.status /\ after.resident = r.resident
      /\ after.committed = committed /\ after.cached = r.cached
      /\ after.prefilled = r.prefilled /\ after.forwards = forwards
      /\ after.written = r.written /\ after.consumed = r.consumed
      /\ after.output = r.output /\ after.generated = r.generated
  BY <1>1, <1>4, <1>5 DEF Request
<1>7. PromptLength(after) = PromptLength(r) /\ KvCapacity(after) = KvCapacity(r)
  BY <1>6 DEF PromptLength, KvCapacity
<1>8. Sound(after)
  BY <1>1, <1>5, <1>6, <1>7 DEF Sound
<1>9. r.generated < r.spec.maxNew
  BY <1>2, <1>3
<1>10. Selecting(after)
  BY <1>1, <1>3, <1>5, <1>6, <1>7, <1>8, <1>9 DEF Selecting, Decoding
<1> QED
  BY <1>6, <1>10 DEF after

(* A decode forward and a selection leave a well-formed request.            *)
LEMMA SelectPresent ==
    ASSUME NEW r, Present(r), r.status = "decode", NEW outcome \in Outcomes
    PROVE  Present(Retire(Select(DecodeForward(r), outcome)))
<1> DEFINE next == Select(DecodeForward(r), outcome)
<1>1. /\ Sound(next) /\ next.resident = r.resident
      /\ Terminal(next) \/ (next.status = "decode" /\ Decoding(next))
  BY ForwardSelecting, SelectSound
<1> HIDE DEF next
<1>2. CASE Terminal(next)
  BY <1>1, <1>2, RetireSound DEF next
<1>3. CASE ~Terminal(next)
  <2>1. Retire(next) = next /\ next.status = "decode" /\ Decoding(next)
    BY <1>1, <1>3, RetireSound
  <2>2. Holding(next)
    BY <1>1, <2>1 DEF Holding, Present
  <2> QED BY <1>1, <2>1, <2>2 DEF Present, next
<1> QED
  BY <1>2, <1>3

-----------------------------------------------------------------------------
(* The store.                                                               *)

(* A finite set of positions has an n-th one.                               *)
LEMMA NthPosition ==
    ASSUME NEW m \in Nat, NEW K \in SUBSET (1..m), NEW n \in 1..Cardinality(K)
    PROVE  \E k \in K : Cardinality(K \cap (1..k)) = n
<1> DEFINE Upto(k) == K \cap (1..k)
           Reached == {k \in 0..m : Cardinality(Upto(k)) >= n}
<1>1. \A k \in 0..m : IsFiniteSet(Upto(k)) /\ Cardinality(Upto(k)) \in Nat
  <2>1. IsFiniteSet(1..m)
    BY FS_Interval
  <2>2. IsFiniteSet(K)
    BY <2>1, FS_Subset
  <2> QED BY <2>2, FS_Subset, FS_CardinalityType
<1>2. Cardinality(K) \in Nat /\ n \in Nat /\ n > 0
  <2>1. IsFiniteSet(1..m)
    BY FS_Interval
  <2>2. IsFiniteSet(K)
    BY <2>1, FS_Subset
  <2> QED BY <2>2, FS_CardinalityType
<1>3. m \in Reached
  <2>1. Upto(m) = K
    OBVIOUS
  <2> HIDE DEF Upto
  <2> QED BY <1>2, <2>1
<1> DEFINE k == Least(Reached)
<1>4. k \in Reached /\ \A j \in Reached : k <= j
  <2>1. Reached \in SUBSET Nat /\ Reached # {}
    <3> HIDE DEF Upto
    <3> QED BY <1>3
  <2> HIDE DEF Reached
  <2> QED BY <2>1, LeastOf
<1> HIDE DEF k
<1>5. k # 0
  <2>1. Upto(0) = {}
    OBVIOUS
  <2>2. Cardinality(Upto(0)) = 0
    BY <2>1, FS_EmptySet
  <2> QED BY <1>2, <1>4, <2>2
<1>6. k - 1 \in 0..m /\ k \in 1..m
  BY <1>4, <1>5
<1>7. Cardinality(Upto(k - 1)) < n
  <2>1. k - 1 \notin Reached
    BY <1>4, <1>6
  <2>2. Cardinality(Upto(k - 1)) \in Nat
    BY <1>1, <1>6
  <2> HIDE DEF Upto
  <2> QED BY <1>2, <1>6, <2>1, <2>2
<1>8. k \in K
  <2>1. k \notin K => Upto(k) = Upto(k - 1)
    BY <1>6
  <2> HIDE DEF Upto
  <2> QED BY <1>1, <1>2, <1>4, <1>6, <1>7, <2>1
<1>9. Cardinality(Upto(k)) = n
  <2>1. Upto(k) = Upto(k - 1) \cup {k} /\ k \notin Upto(k - 1)
    BY <1>6, <1>8
  <2>2. IsFiniteSet(Upto(k - 1)) /\ Cardinality(Upto(k - 1)) \in Nat
    BY <1>1, <1>6
  <2> HIDE DEF Upto
  <2>3. Cardinality(Upto(k)) = Cardinality(Upto(k - 1)) + 1
    BY <2>1, <2>2, FS_AddElement
  <2> QED BY <1>2, <1>4, <1>7, <2>2, <2>3
<1> QED
  BY <1>8, <1>9

(* The entries kept by an eviction are entries of the store.                *)
LEMMA KeepTyped ==
    ASSUME NEW S, NEW list \in Seq(S), NEW K \in SUBSET DOMAIN list
    PROVE  Keep(list, K) \in Seq(S)
<1>1. Len(list) \in Nat /\ DOMAIN list = 1..Len(list)
  BY LenProperties
<1>2. Cardinality(K) \in Nat
  <2>1. IsFiniteSet(1..Len(list))
    BY <1>1, FS_Interval
  <2>2. IsFiniteSet(K)
    BY <1>1, <2>1, FS_Subset
  <2> QED BY <2>2, FS_CardinalityType
<1>3. ASSUME NEW n \in 1..Cardinality(K)
      PROVE  list[CHOOSE k \in K : Cardinality(K \cap (1..k)) = n] \in S
  <2>1. \E k \in K : Cardinality(K \cap (1..k)) = n
    BY <1>1, NthPosition
  <2>2. (CHOOSE k \in K : Cardinality(K \cap (1..k)) = n) \in K
    BY <2>1
  <2> QED BY <1>1, <2>2, ElementOfSeq
<1>4. Keep(list, K) \in [1..Cardinality(K) -> S]
  BY <1>3 DEF Keep
<1> QED
  BY <1>2, <1>4, SeqDef

(* An eviction leaves a sequence of the same entries.                       *)
LEMMA EvictTyped ==
    ASSUME NEW S, NEW st, st.list \in Seq(S), NEW need, NEW pinned
    PROVE  Evict(st, need, pinned).list \in Seq(S)
<1>1. (DOMAIN st.list \ Evicted(st, need, pinned)) \in SUBSET DOMAIN st.list
  OBVIOUS
<1>2. Evict(st, need, pinned).list = Keep(st.list, DOMAIN st.list \ Evicted(st, need, pinned))
  BY DEF Evict
<1> QED
  BY <1>1, <1>2, KeepTyped

(* A new snapshot joins the store as its last entry.                        *)
LEMMA PushTyped ==
    ASSUME NEW S, NEW st, st.list \in Seq(S), NEW p \in S
    PROVE  Push(st, p).list \in Seq(S)
BY AppendProperties DEF Push

(* Touching an entry permutes the store.                                    *)
LEMMA TouchTyped ==
    ASSUME NEW S, prefixes \in Seq(S), NEW k \in DOMAIN prefixes
    PROVE  Touch(TheStore, k).list \in Seq(S)
<1>1. Len(prefixes) \in Nat /\ k \in 1..Len(prefixes)
  BY LenProperties
<1>2. \A j \in 1..Len(prefixes) : prefixes[j] \in S
  BY ElementOfSeq
<1>3. SubSeq(prefixes, 1, k - 1) \in Seq(S)
  BY <1>1, <1>2, SubSeqProperties
<1>4. SubSeq(prefixes, k + 1, Len(prefixes)) \in Seq(S)
  BY <1>1, <1>2, SubSeqProperties
<1>5. <<prefixes[k]>> \in Seq(S)
  BY <1>1, <1>2
<1>6. Touch(TheStore, k).list =
        SubSeq(prefixes, 1, k - 1) \o SubSeq(prefixes, k + 1, Len(prefixes)) \o <<prefixes[k]>>
  BY DEF Touch, TheStore
<1>7. SubSeq(prefixes, 1, k - 1) \o SubSeq(prefixes, k + 1, Len(prefixes)) \in Seq(S)
  BY <1>3, <1>4, ConcatProperties
<1> QED
  BY <1>5, <1>6, <1>7, ConcatProperties

(* Adoption leaves a store of entries, with or without room.                *)
LEMMA AdoptTyped ==
    ASSUME prefixes \in Seq(Entry), NEW p \in Entry, NEW pinned
    PROVE  /\ Adopt(p, pinned).list \in Seq(Entry)
           /\ AdoptRoom(p, pinned).list \in Seq(Entry)
<1>1. TheStore.list = prefixes
  BY DEF TheStore
<1>2. AdoptRoom(p, pinned).list \in Seq(Entry)
  BY <1>1, EvictTyped DEF AdoptRoom
<1>3. CASE p \in Stored
  <2> DEFINE Ks == {k \in DOMAIN prefixes : prefixes[k] = p}
  <2>1. Ks \in SUBSET Nat /\ Ks # {}
    BY <1>3, LenProperties DEF Stored
  <2>2. PositionOf(p) \in Ks
    <3> HIDE DEF Ks
    <3>1. Least(Ks) \in Ks
      BY <2>1, LeastOf
    <3> QED BY <3>1 DEF PositionOf, Ks
  <2>3. PositionOf(p) \in DOMAIN prefixes
    BY <2>2
  <2>4. Touch(TheStore, PositionOf(p)).list \in Seq(Entry)
    BY <2>3, TouchTyped
  <2> QED BY <1>2, <1>3, <2>4 DEF Adopt
<1>4. CASE p \notin Stored
  BY <1>2, <1>4, PushTyped DEF Adopt
<1> QED
  BY <1>3, <1>4

(* The image of a finite set is finite.                                     *)
LEMMA FiniteImage ==
    ASSUME NEW S, IsFiniteSet(S), NEW f, S \subseteq DOMAIN f
    PROVE  IsFiniteSet({f[x] : x \in S})
<1> DEFINE T == {f[x] : x \in S}
           g == [x \in S |-> f[x]]
<1>1. g \in Surjection(S, T)
  BY DEF Surjection
<1> QED
  BY <1>1, FS_Surjection

(* The table, the store and the handles are finite.                         *)
LEMMA SnapshotsFinite ==
    ASSUME prefixes \in Seq(Entry), IsFiniteSet(handles), requests \in [Ids -> Request]
    PROVE  IsFiniteSet(Stored \cup Pinned(requests))
<1>1. IsFiniteSet(Stored)
  <2>1. Len(prefixes) \in Nat /\ DOMAIN prefixes = 1..Len(prefixes)
    BY LenProperties
  <2>2. IsFiniteSet(DOMAIN prefixes)
    BY <2>1, FS_Interval
  <2> QED BY <2>2, FiniteImage DEF Stored
<1>2. IsFiniteSet({requests[i].prefix : i \in Ids})
  <2> DEFINE f == [i \in Ids |-> requests[i].prefix]
  <2>1. IsFiniteSet(Ids)
    BY FS_Interval, EngineAssumption DEF Ids
  <2>2. IsFiniteSet({f[i] : i \in Ids})
    <3>1. Ids \subseteq DOMAIN f
      OBVIOUS
    <3> HIDE DEF f
    <3> QED BY <2>1, <3>1, FiniteImage
  <2> QED BY <2>2
<1>3. IsFiniteSet(Pinned(requests))
  <2>1. IsFiniteSet(Attached(requests))
    BY <1>2, FS_Subset DEF Attached
  <2> QED BY <2>1, FS_Union DEF Pinned
<1> QED
  BY <1>1, <1>3, FS_Union

(* There is always a snapshot object not in use, and it is what is asked    *)
(* for.                                                                     *)
LEMMA NewPrefixTyped ==
    ASSUME prefixes \in Seq(Entry), IsFiniteSet(handles), handles \subseteq Snapshot,
           requests \in [Ids -> Request],
           NEW ns \in Namespaces, NEW tokens \in Seq(Int), tokens # <<>>,
           Len(tokens) <= MaxContext
    PROVE  /\ NewPrefix(ns, tokens) \in Entry
           /\ NewPrefix(ns, tokens).ns = ns /\ NewPrefix(ns, tokens).tokens = tokens
<1> DEFINE all == Stored \cup Pinned(requests)
           used == {p.obj : p \in all}
           free == (1..(Cardinality(used) + 1)) \ used
<1>1. IsFiniteSet(used)
  <2> DEFINE f == [p \in all |-> p.obj]
  <2>1. IsFiniteSet({f[p] : p \in all})
    <3>1. IsFiniteSet(all) /\ all \subseteq DOMAIN f
      BY SnapshotsFinite
    <3> HIDE DEF all, f
    <3> QED BY <3>1, FiniteImage
  <2> QED BY <2>1
<1> HIDE DEF used
<1>2. Cardinality(used) \in Nat
  BY <1>1, FS_CardinalityType
<1>3. free # {}
  <2>1. SUFFICES ASSUME (1..(Cardinality(used) + 1)) \subseteq used PROVE FALSE
    OBVIOUS
  <2>2. Cardinality(1..(Cardinality(used) + 1)) <= Cardinality(used)
    BY <1>1, <2>1, FS_Subset
  <2>3. Cardinality(1..(Cardinality(used) + 1)) = Cardinality(used) + 1
    BY <1>2, FS_Interval
  <2> QED BY <1>2, <2>2, <2>3
<1>4. Least(free) \in Nat
  <2>1. free \in SUBSET Nat
    BY <1>2
  <2> HIDE DEF free
  <2> QED BY <1>3, <2>1, LeastOf
<1>5. NewPrefix(ns, tokens) = [obj |-> Least(free), ns |-> ns, tokens |-> tokens, config |-> Config]
  BY DEF NewPrefix, used
<1> DEFINE obj == Least(free)
           p == [obj |-> obj, ns |-> ns, tokens |-> tokens, config |-> Config]
<1> HIDE DEF all, free, obj
<1>6. obj \in Nat /\ Config \in Configs
  BY <1>4, CallerAssumption DEF obj
<1>7. p \in Snapshot /\ p.ns = ns /\ p.tokens = tokens /\ p.config = Config
  BY <1>6 DEF Snapshot
<1>8. NewPrefix(ns, tokens) = p
  BY <1>5 DEF obj
<1> HIDE DEF p
<1> QED
  BY <1>7, <1>8 DEF Entry, Usable

(* What admission finds in the store for a registering request.             *)
LEMMA ExactAttached ==
    ASSUME prefixes \in Seq(Entry), NEW r, Exact(r) # {}
    PROVE  LET p == prefixes[Least(Exact(r))] IN
           /\ p \in Entry /\ p.ns = r.spec.ns /\ Len(p.tokens) = r.reg
           /\ Matches(p, r.spec.prompt)
<1>1. Exact(r) \in SUBSET Nat /\ Exact(r) \subseteq DOMAIN prefixes
      /\ DOMAIN prefixes = 1..Len(prefixes)
  BY LenProperties DEF Exact
<1>2. Least(Exact(r)) \in Exact(r)
  BY <1>1, LeastOf
<1>3. prefixes[Least(Exact(r))] \in Entry
  BY <1>1, <1>2, ElementOfSeq
<1> QED
  BY <1>2, <1>3 DEF Exact

(* Attaching a stored snapshot changes only the snapshot of a queued        *)
(* request.                                                                 *)
LEMMA AttachPresent ==
    ASSUME prefixes \in Seq(Entry), NEW r, Present(r)
    PROVE  /\ Present(AttachExact(r)) /\ AttachExact(r).status = r.status
           /\ AttachExact(r).resident = r.resident
           /\ AttachExact(r).committed = r.committed /\ AttachExact(r).reg = r.reg
           /\ AttachExact(r).spec = r.spec
           /\ AttachExact(r).output = r.output /\ AttachExact(r).consumed = r.consumed
<1>1. CASE AttachExact(r) = r
  BY <1>1
<1>2. CASE AttachExact(r) # r
  <2> DEFINE p == prefixes[Least(Exact(r))]
             after == [r EXCEPT !.prefix = p]
  <2>1. r.status = "queued" /\ Exact(r) # {} /\ AttachExact(r) = after
    BY <1>2 DEF AttachExact
  <2>2. p \in Entry /\ p.ns = r.spec.ns /\ Matches(p, r.spec.prompt)
    BY <2>1, ExactAttached
  <2>3. p \in Snapshot /\ r \in Request /\ after = [r EXCEPT !.prefix = p]
    BY <2>2 DEF Entry, Usable, Present, Sound
  <2> HIDE DEF p, after
  <2>4. /\ after \in Request /\ after.spec = r.spec /\ after.prefix = p
        /\ after.reg = r.reg /\ after.status = r.status /\ after.resident = r.resident
        /\ after.committed = r.committed /\ after.cached = r.cached
        /\ after.prefilled = r.prefilled /\ after.forwards = r.forwards
        /\ after.written = r.written /\ after.consumed = r.consumed
        /\ after.output = r.output /\ after.generated = r.generated
    BY <2>3 DEF Request
  <2>5. PromptLength(after) = PromptLength(r) /\ KvCapacity(after) = KvCapacity(r)
    BY <2>4 DEF PromptLength, KvCapacity
  <2>6. Sound(after)
    BY <2>2, <2>4, <2>5 DEF Sound, Present
  <2>7. Queued(after) /\ Holding(after)
    BY <2>1, <2>4 DEF Present, Queued, Fresh, Holding
  <2> QED BY <2>1, <2>4, <2>6, <2>7 DEF Present
<1> QED
  BY <1>1, <1>2
-----------------------------------------------------------------------------
(* Round robin.                                                             *)

(* A non-empty set of naturals up to m has a greatest element.              *)
LEMMA GreatestIn ==
    ASSUME NEW m \in Nat, NEW S \in SUBSET (0..m), S # {}
    PROVE  \E x \in S : \A y \in S : y <= x
<1> DEFINE below == {m - x : x \in S}
<1>1. below \in SUBSET Nat /\ below # {}
  <2>1. \A x \in S : x \in 0..m
    OBVIOUS
  <2>2. \A x \in S : m - x \in Nat
    BY <2>1
  <2> QED BY <2>2
<1> HIDE DEF below
<1>2. Least(below) \in below /\ \A z \in below : Least(below) <= z
  BY <1>1, LeastOf
<1>3. PICK x \in S : Least(below) = m - x
  BY <1>2 DEF below
<1>4. ASSUME NEW y \in S PROVE y <= x
  <2>1. m - x <= m - y
    BY <1>2, <1>3 DEF below
  <2> QED BY <2>1
<1> QED
  BY <1>4

(* The first and the last of a batch in the order behind the last row served.*)
LEMMA FirstServed ==
    ASSUME NEW B \in SUBSET Ids, B # {}, NEW last \in Nat
    PROVE  \E i \in B : \A j \in B : ~Before(j, i, last)
<1> DEFINE behind == {j \in B : j > last}
<1>1. B \in SUBSET Nat /\ behind \in SUBSET Nat
  <2>1. Ids \subseteq Nat
    BY DEF Ids
  <2> QED BY <2>1
<1>2. CASE behind # {}
  <2>1. Least(behind) \in behind /\ \A j \in behind : Least(behind) <= j
    BY <1>1, <1>2, LeastOf
  <2>2. \A j \in B : ~Before(j, Least(behind), last)
    BY <1>1, <2>1 DEF Before
  <2> QED BY <2>1, <2>2
<1>3. CASE behind = {}
  <2>1. Least(B) \in B /\ \A j \in B : Least(B) <= j
    BY <1>1, LeastOf
  <2> DEFINE i == Least(B)
  <2> HIDE DEF i
  <2>2. /\ i \in B /\ i \in Nat /\ \A j \in B : j \in Nat /\ i <= j /\ ~(j > last)
    BY <1>1, <1>3, <2>1 DEF i
  <2>3. \A j \in B : ~Before(j, i, last)
    BY <2>2 DEF Before
  <2> QED BY <2>2, <2>3
<1> QED
  BY <1>2, <1>3

(* A batch has a row that all others come before.                           *)
LEMMA LastServed ==
    ASSUME NEW B \in SUBSET Ids, B # {}, NEW last \in Nat
    PROVE  \E i \in B : \A j \in B \ {i} : Before(j, i, last)
<1> DEFINE front == {j \in B : j <= last}
<1>1. MaxId \in Nat /\ B \in SUBSET (0..MaxId) /\ front \in SUBSET (0..MaxId)
  <2>1. Ids \subseteq 0..MaxId /\ MaxId \in Nat
    BY EngineAssumption DEF Ids
  <2> QED BY <2>1
<1>2. CASE front # {}
  <2>1. PICK i \in front : \A j \in front : j <= i
    BY <1>1, <1>2, GreatestIn
  <2>2. \A j \in B \ {i} : Before(j, i, last)
    BY <1>1, <2>1 DEF Before
  <2> QED BY <2>1, <2>2
<1>3. CASE front = {}
  <2>1. PICK i \in B : \A j \in B : j <= i
    BY <1>1, GreatestIn
  <2>2. \A j \in B \ {i} : Before(j, i, last)
    BY <1>1, <1>3, <2>1 DEF Before
  <2> QED BY <2>1, <2>2
<1> QED
  BY <1>2, <1>3

-----------------------------------------------------------------------------
(* The whole state.                                                         *)

Good(r) == r = Absent \/ Present(r)
GoodTable(table) == table \in [Ids -> Request] /\ \A i \in Ids : Good(table[i])

Inv ==
    /\ GoodTable(requests)
    /\ prefixes \in Seq(Entry)
    /\ handles \subseteq Usable /\ IsFiniteSet(handles)

(* The fields of an absent request.                                         *)
LEMMA AbsentTyped ==
    /\ Absent \in Request /\ Absent.status = "absent" /\ Absent.reg = 0
    /\ Absent.prefix = NoPrefix /\ Absent.resident = FALSE /\ Absent.committed = 0
    /\ Absent.cached = 0 /\ Absent.prefilled = 0 /\ Absent.forwards = 0
    /\ Absent.written = 0 /\ Absent.output = <<>> /\ Absent.generated = 0
    /\ Absent.consumed = 0 /\ Absent.spec = NoSpec
<1>1. NoPrefix \in Snapshot /\ <<>> \in Seq(Vocab)
  BY PrefixTyped, EmptySeq
<1> QED
  BY <1>1 DEF Absent, Request, Statuses

(* What Good says of an entry, by its status.                               *)
LEMMA GoodTyped ==
    ASSUME NEW r, Good(r)
    PROVE  /\ r \in Request
           /\ r.status # "absent" => Present(r)
           /\ r.status = "absent" => r = Absent
BY AbsentTyped DEF Good, Present, Sound

(* Replacing one good entry by another keeps the table good.                *)
LEMMA GoodUpdate ==
    ASSUME NEW table, GoodTable(table), NEW i \in Ids, NEW r, Good(r)
    PROVE  GoodTable([table EXCEPT ![i] = r])
<1>1. r \in Request /\ table \in [Ids -> Request]
  BY GoodTyped DEF GoodTable
<1>2. [table EXCEPT ![i] = r] \in [Ids -> Request]
  BY <1>1
<1>3. ASSUME NEW j \in Ids PROVE Good([table EXCEPT ![i] = r][j])
  <2>1. [table EXCEPT ![i] = r][j] = IF j = i THEN r ELSE table[j]
    BY <1>1
  <2> QED BY <2>1 DEF GoodTable
<1> QED
  BY <1>2, <1>3 DEF GoodTable

(* The clean-up in front of an admission.                                   *)
LEMMA SweptGood ==
    ASSUME Inv
    PROVE  /\ GoodTable(Swept)
           /\ \A i \in Ids : Swept[i] = AttachExact(Retire(requests[i]))
<1>1. ASSUME NEW i \in Ids PROVE Good(AttachExact(Retire(requests[i])))
  <2>1. CASE requests[i] = Absent
    BY <2>1, AbsentTyped DEF Retire, Terminal, AttachExact, Good
  <2>2. CASE Present(requests[i])
    <3>1. Present(Retire(requests[i]))
      BY <2>2, RetireSound DEF Present
    <3> QED BY <3>1, AttachPresent DEF Good, Inv
  <2> QED BY <2>1, <2>2 DEF Inv, GoodTable, Good
<1>2. \A i \in Ids : Swept[i] = AttachExact(Retire(requests[i]))
  BY DEF Swept
<1>3. Swept \in [Ids -> Request]
  <2>1. ASSUME NEW i \in Ids PROVE AttachExact(Retire(requests[i])) \in Request
    BY <1>1, GoodTyped
  <2> QED BY <2>1 DEF Swept
<1> QED
  BY <1>1, <1>2, <1>3 DEF GoodTable

(* The request to admit is a well-formed queued one.                        *)
LEMMA CandidateQueued ==
    ASSUME Inv, Candidates # {}
    PROVE  /\ Least(Candidates) \in Ids
           /\ Present(Swept[Least(Candidates)])
           /\ Swept[Least(Candidates)].status = "queued"
           /\ Admissible(Swept, Least(Candidates))
<1>1. Candidates \in SUBSET Nat
  BY DEF Candidates, Ids
<1>2. Least(Candidates) \in Candidates
  BY <1>1, LeastOf
<1> QED
  BY <1>2, SweptGood, GoodTyped DEF Candidates, GoodTable

(* What submit accepts enters the queue well-formed.                        *)
LEMMA SubmittedPresent ==
    ASSUME Inv, NEW s \in Specs, NEW p \in handles \cup {NoPrefix}, Acceptable(s, p)
    PROVE  /\ Present(Submitted(s, p)) /\ Submitted(s, p).status = "queued"
           /\ Submitted(s, p).prefix = p
           /\ p # NoPrefix => p \in Entry
<1> DEFINE after == Submitted(s, p)
           reg == s.reg
<1>1. s \in RequestSpec
  BY CallerAssumption
<1>2. /\ reg \in Nat /\ s.maxNew \in Nat /\ s.prompt \in Seq(Int)
      /\ Len(s.prompt) \in Nat /\ s.prompt # <<>>
  BY <1>1, LenProperties DEF RequestSpec, Acceptable
<1>3. p \in Snapshot /\ (p # NoPrefix => p \in Entry)
  <2>1. p \in Snapshot /\ (p # NoPrefix => p \in Usable /\ p.config = Config)
    BY PrefixTyped DEF Inv, Usable, Acceptable
  <2>2. p # NoPrefix => Len(p.tokens) <= Len(s.prompt) /\ Len(s.prompt) <= MaxContext
    BY DEF Acceptable, Matches
  <2>3. Len(p.tokens) \in Nat
    <3>1. p.tokens \in Seq(Int)
      BY <2>1 DEF Snapshot
    <3> QED BY <3>1, LenProperties
  <2>4. MaxContext \in Nat
    BY EngineAssumption
  <2>5. p # NoPrefix => Len(p.tokens) <= MaxContext
    BY <1>2, <2>2, <2>3, <2>4
  <2> QED BY <2>1, <2>5 DEF Entry
<1>4. after = [Absent EXCEPT !.status = "queued", !.spec = s, !.prefix = p, !.reg = reg]
  BY DEF Submitted
<1> HIDE DEF after, reg
<1>5. /\ after \in Request /\ after.spec = s /\ after.prefix = p
      /\ after.reg = reg /\ after.status = "queued" /\ after.resident = FALSE
      /\ after.committed = 0 /\ after.cached = 0
      /\ after.prefilled = 0 /\ after.forwards = 0
      /\ after.written = 0 /\ after.consumed = 0
      /\ after.output = <<>> /\ after.generated = 0
  <2>1. "queued" \in Statuses
    BY DEF Statuses
  <2> DEFINE a == Absent
  <2>2. /\ a \in Request /\ a.resident = FALSE /\ a.committed = 0 /\ a.cached = 0
        /\ a.prefilled = 0 /\ a.forwards = 0 /\ a.written = 0 /\ a.consumed = 0
        /\ a.output = <<>> /\ a.generated = 0
        /\ after = [a EXCEPT !.status = "queued", !.spec = s, !.prefix = p, !.reg = reg]
    BY <1>4, AbsentTyped
  <2> HIDE DEF a
  <2> QED BY <1>2, <1>3, <2>1, <2>2 DEF Request
<1>6. /\ PromptLength(after) = Len(s.prompt) /\ reg <= PromptLength(after)
      /\ PromptLength(after) <= MaxContext
  <2>1. PromptLength(after) = Len(s.prompt)
    BY <1>5 DEF PromptLength
  <2>2. (reg > 0 => reg <= Len(s.prompt)) /\ Len(s.prompt) <= MaxContext
    BY DEF Acceptable, reg
  <2> QED BY <1>2, <2>1, <2>2
<1>7. s.maxNew > 0 /\ 0 <= KvCapacity(after)
  <2>1. s.maxNew > 0
    BY DEF Acceptable
  <2>2. KvCapacity(after) = Len(s.prompt) + s.maxNew - 1
    BY <1>5, <1>6 DEF KvCapacity
  <2> QED BY <1>2, <2>1, <2>2
<1>8. Len(<<>>) = 0
  BY EmptySeq
<1>9. /\ Serving => \A t \in s.stops : Len(t) <= MaxBuffered
      /\ p # NoPrefix => p.ns = s.ns /\ Matches(p, s.prompt)
  BY DEF Acceptable
<1>10. Sound(after)
  BY <1>2, <1>3, <1>5, <1>6, <1>7, <1>8, <1>9 DEF Sound
<1>11. Queued(after) /\ Holding(after)
  BY <1>5 DEF Queued, Fresh, Holding
<1> QED
  BY <1>3, <1>5, <1>10, <1>11 DEF Present, after
-----------------------------------------------------------------------------
(* Every step preserves the invariant.                                      *)

(* The engine starts in a good state.                                       *)
LEMMA InitGood == Init => Inv
<1>1. <<>> \in Seq(Entry)
  BY EmptySeq
<1>2. Lent \subseteq Usable /\ IsFiniteSet(Lent)
  BY CallerAssumption DEF Usable
<1> QED
  BY <1>1, <1>2, AbsentTyped DEF Init, Inv, GoodTable, Good

(* Setting the store to a sequence of entries.                              *)
LEMMA StoreSet ==
    ASSUME NEW st, st.list \in Seq(Entry), SetStore(st)
    PROVE  prefixes' \in Seq(Entry)
BY DEF SetStore

(* No caller operation breaks the invariant.                                *)
LEMMA CallerKeeps ==
    ASSUME Inv, Caller
    PROVE  Inv'
<1> USE DEF store
<1>1. ASSUME NEW s \in Specs, NEW p \in handles \cup {NoPrefix}, SubmitQueued(s, p)
      PROVE  Inv'
  <2>1. Good(Submitted(s, p))
    BY <1>1, SubmittedPresent DEF SubmitQueued, Good
  <2>2. requests' = [requests EXCEPT ![nextId] = Submitted(s, p)] /\ nextId \in Ids
    BY <1>1 DEF SubmitQueued, Enter
  <2>3. GoodTable(requests')
    BY <2>1, <2>2, GoodUpdate DEF Inv
  <2> QED BY <1>1, <2>3 DEF Inv, SubmitQueued
<1>2. ASSUME NEW s \in Specs, NEW p \in handles \cup {NoPrefix}, SubmitActive(s, p)
      PROVE  Inv'
  <2>1. Acceptable(s, p)
    BY <1>2 DEF SubmitActive
  <2>2. Good(Activate(Submitted(s, p))) /\ (p # NoPrefix => p \in Entry)
    BY <2>1, SubmittedPresent, ActivatePresent DEF Good
  <2>3. requests' = [requests EXCEPT ![nextId] = Activate(Submitted(s, p))] /\ nextId \in Ids
    BY <1>2 DEF SubmitActive, Enter
  <2>4. GoodTable(requests')
    BY <2>2, <2>3, GoodUpdate DEF Inv
  <2>5. prefixes' \in Seq(Entry)
    <3>1. CASE p = NoPrefix
      BY <1>2, <3>1 DEF SubmitActive, Inv
    <3>2. CASE p # NoPrefix
      <4>1. SetStore(Adopt(p, Pinned(requests)))
        BY <1>2, <3>2 DEF SubmitActive
      <4> QED BY <2>2, <3>2, <4>1, AdoptTyped, StoreSet DEF Inv
    <3> QED BY <3>1, <3>2
  <2> QED BY <1>2, <2>4, <2>5 DEF Inv, SubmitActive
<1>3. ASSUME NEW s \in Specs, NEW p \in handles \cup {NoPrefix}, SubmitRefused(s, p)
      PROVE  Inv'
  <2>1. Acceptable(s, p) /\ p # NoPrefix /\ SetStore(AdoptRoom(p, Pinned(requests)))
    BY <1>3 DEF SubmitRefused
  <2>2. prefixes' \in Seq(Entry)
    BY <2>1, SubmittedPresent, AdoptTyped, StoreSet DEF Inv
  <2> QED BY <1>3, <2>2 DEF Inv, SubmitRefused
<1>4. ASSUME NEW i \in Ids, NEW max \in 1..MaxBuffered, ReadOutput(i, max)
      PROVE  Inv'
  <2> DEFINE r == requests[i]
             confirmed == IF Terminal(r) THEN Len(r.output)
                                         ELSE Confirmed(r.output, r.spec.stops)
             n == r.consumed + Smaller(max, confirmed - r.consumed)
  <2>1. Present(r) /\ r \in Request
    BY <1>4, GoodTyped DEF ReadOutput, Live, Inv, GoodTable
  <2>2. requests' = [requests EXCEPT ![i] = [r EXCEPT !.consumed = n]]
    BY <1>4, <2>1 DEF ReadOutput, Inv, GoodTable
  <2>3. n \in Nat /\ n <= confirmed /\ (r.status \in {"queued", "prefill"} => n = 0)
    <3>1. /\ r.output \in Seq(Vocab) /\ Len(r.output) \in Nat /\ r.consumed \in Nat
      BY <2>1, LenProperties DEF Request
    <3>2. /\ Confirmed(r.output, r.spec.stops) \in 0..Len(r.output)
      BY <3>1, ConfirmedIs
    <3>3. r.consumed <= confirmed
      <4>1. CASE Terminal(r)
        BY <2>1, <4>1 DEF Present, Sound
      <4>2. CASE ~Terminal(r)
        <5>1. r.status = "decode" => r.consumed <= Confirmed(r.output, r.spec.stops)
          BY <2>1 DEF Present, Decoding
        <5>2. r.status \in {"queued", "prefill"} => r.consumed = 0
          BY <2>1 DEF Present, Queued, Prefilling, Fresh
        <5>3. r.status \in {"queued", "prefill", "decode"}
          BY <2>1, <4>2 DEF Request, Statuses, Terminal, Present, Sound
        <5> QED BY <3>2, <4>2, <5>1, <5>2, <5>3
      <4> QED BY <4>1, <4>2
    <3>4. r.status \in {"queued", "prefill"} => r.consumed = 0 /\ confirmed = 0
      <4>1. ASSUME r.status \in {"queued", "prefill"} PROVE r.consumed = 0 /\ r.output = <<>>
        BY <2>1, <4>1 DEF Present, Queued, Prefilling, Fresh
      <4> QED BY <3>2, <4>1, EmptySeq
    <3>5. confirmed \in Nat
      BY <3>1, <3>2
    <3>6. max \in Nat \ {0}
      BY EngineAssumption
    <3> HIDE DEF confirmed
    <3>7. n \in Nat /\ n <= confirmed
      BY <3>1, <3>3, <3>5, <3>6 DEF Smaller
    <3> QED BY <3>4, <3>6, <3>7
  <2>4. Good([r EXCEPT !.consumed = n])
    <3> HIDE DEF n
    <3>1. Present([r EXCEPT !.consumed = n])
      BY <2>1, <2>3, ReadPresent
    <3> QED BY <3>1 DEF Good
  <2>5. GoodTable(requests')
    <3> DEFINE q == [r EXCEPT !.consumed = n]
    <3> HIDE DEF q
    <3>1. requests' = [requests EXCEPT ![i] = q] /\ Good(q)
      BY <2>2, <2>4 DEF q
    <3> QED BY <3>1, GoodUpdate DEF Inv
  <2> QED BY <1>4, <2>5 DEF Inv, ReadOutput
<1>5. ASSUME NEW i \in Ids, Cancel(i)
      PROVE  Inv'
  <2> DEFINE q == Retire([requests[i] EXCEPT !.status = "cancelled"])
  <2>1. Present(requests[i])
    BY <1>5, GoodTyped DEF Cancel, Unfinished, Inv, GoodTable
  <2>2. Good(q)
    BY <2>1, CancelPresent DEF Good
  <2>3. requests' = [requests EXCEPT ![i] = q]
    BY <1>5 DEF Cancel, Inv, GoodTable
  <2> HIDE DEF q
  <2>4. GoodTable(requests')
    BY <2>2, <2>3, GoodUpdate DEF Inv
  <2> QED BY <1>5, <2>4 DEF Inv, Cancel
<1>6. ASSUME NEW i \in Ids, Release(i)
      PROVE  Inv'
  <2>1. GoodTable(requests')
    BY <1>6, GoodUpdate DEF Inv, Release, Good
  <2> QED BY <1>6, <2>1 DEF Inv, Release
<1>7. ASSUME NEW e \in Registrations, FindPrefix(e.ns, e.tokens)
      PROVE  Inv'
  <2> DEFINE found == {k \in DOMAIN prefixes :
                          prefixes[k].ns = e.ns /\ Matches(prefixes[k], e.tokens)}
             longest == {k \in found : \A j \in found :
                          Len(prefixes[j].tokens) <= Len(prefixes[k].tokens)}
             best == Least(longest)
  <2>1. /\ found # {} /\ SetStore(Touch(TheStore, best))
        /\ handles' = handles \cup {prefixes[best]} /\ UNCHANGED requests
    BY <1>7 DEF FindPrefix
  <2>2. best \in DOMAIN prefixes /\ DOMAIN prefixes = 1..Len(prefixes)
    <3>1. DOMAIN prefixes = 1..Len(prefixes) /\ Len(prefixes) \in Nat
      BY LenProperties DEF Inv
    <3>2. longest # {}
      <4>1. Len(e.tokens) \in Nat
        BY <1>7, CallerAssumption, LenProperties
      <4>2. \A k \in found : Len(prefixes[k].tokens) \in 0..Len(e.tokens)
        <5>1. ASSUME NEW k \in found PROVE Len(prefixes[k].tokens) \in 0..Len(e.tokens)
          <6>1. prefixes[k] \in Entry /\ Len(prefixes[k].tokens) <= Len(e.tokens)
            BY <3>1, ElementOfSeq DEF Inv, Matches
          <6>2. prefixes[k].tokens \in Seq(Int)
            BY <6>1 DEF Entry, Usable, Snapshot
          <6> QED BY <4>1, <6>1, <6>2, LenProperties
        <5> QED BY <5>1
      <4> DEFINE lengths == {Len(prefixes[k].tokens) : k \in found}
      <4>3. lengths \in SUBSET (0..Len(e.tokens)) /\ lengths # {}
        BY <2>1, <4>2
      <4> HIDE DEF lengths
      <4>4. PICK n \in lengths : \A m \in lengths : m <= n
        BY <4>1, <4>3, GreatestIn
      <4> QED BY <4>4 DEF lengths
    <3>3. longest \in SUBSET Nat
      BY <3>1
    <3>4. best \in longest
      <4> HIDE DEF longest
      <4> QED BY <3>2, <3>3, LeastOf
    <3> QED BY <3>1, <3>4
  <2> HIDE DEF best
  <2>3. prefixes' \in Seq(Entry)
    BY <2>1, <2>2, TouchTyped, StoreSet DEF Inv
  <2>4. prefixes[best] \in Entry
    BY <2>2, ElementOfSeq DEF Inv
  <2>5. handles' \subseteq Usable /\ IsFiniteSet(handles')
    BY <2>1, <2>4, FS_AddElement DEF Inv, Entry
  <2> QED BY <2>1, <2>3, <2>5 DEF Inv
<1>8. ASSUME NEW e \in Registrations, RegisterKnown(e.ns, e.tokens)
      PROVE  Inv'
  <2> DEFINE known == Registered(e.ns, e.tokens)
  <2>1. /\ known # {} /\ handles' = handles \cup {prefixes[Least(known)]}
        /\ UNCHANGED <<requests, prefixes>>
    BY <1>8 DEF RegisterKnown
  <2>2. DOMAIN prefixes = 1..Len(prefixes) /\ known \in SUBSET Nat
        /\ known \subseteq DOMAIN prefixes
    BY LenProperties DEF Inv, Registered
  <2> HIDE DEF known
  <2>3. Least(known) \in known
    BY <2>1, <2>2, LeastOf
  <2>4. prefixes[Least(known)] \in Entry
    BY <2>2, <2>3, ElementOfSeq DEF Inv
  <2>5. handles' \subseteq Usable /\ IsFiniteSet(handles')
    BY <2>1, <2>4, FS_AddElement DEF Inv, Entry
  <2> QED BY <2>1, <2>5 DEF Inv
<1>9. ASSUME NEW e \in Registrations, NEW built \in BOOLEAN,
             Register(e.ns, e.tokens, built)
      PROVE  Inv'
  <2> DEFINE room == Evict(TheStore, Charge[Len(e.tokens)], Pinned(requests))
             p == NewPrefix(e.ns, e.tokens)
  <2>1. room.list \in Seq(Entry)
    <3>1. TheStore.list \in Seq(Entry)
      BY DEF TheStore, Inv
    <3> QED BY <3>1, EvictTyped
  <2>2. p \in Entry
    <3>1. e.ns \in Namespaces /\ e.tokens \in Seq(Int)
      BY CallerAssumption
    <3>2. e.tokens # <<>> /\ Len(e.tokens) <= MaxContext
      <4>1. Len(e.tokens) \in 1..MaxContext
        BY <1>9 DEF Register, ValidRegistration
      <4>2. Len(e.tokens) # 0 /\ Len(e.tokens) <= MaxContext
        BY <4>1, EngineAssumption
      <4> QED BY <4>2, EmptySeq
    <3> QED BY <3>1, <3>2, NewPrefixTyped DEF Inv, GoodTable, Usable
  <2>3. \/ SetStore(Push(room, p)) /\ handles' = handles \cup {p}
        \/ SetStore(room) /\ handles' = handles
    BY <1>9 DEF Register
  <2>4. UNCHANGED requests
    BY <1>9 DEF Register
  <2> HIDE DEF room, p
  <2>5. prefixes' \in Seq(Entry)
    BY <2>1, <2>2, <2>3, PushTyped, StoreSet
  <2>6. handles' \subseteq Usable /\ IsFiniteSet(handles')
    BY <2>2, <2>3, FS_AddElement DEF Inv, Entry
  <2> QED BY <2>4, <2>5, <2>6 DEF Inv
<1>10. ASSUME NEW p \in handles, DropHandle(p)
       PROVE  Inv'
  <2>1. handles' \subseteq Usable /\ IsFiniteSet(handles')
    BY <1>10, FS_Subset DEF DropHandle, Inv
  <2> QED BY <1>10, <2>1 DEF DropHandle, Inv
<1> QED
  BY <1>1, <1>2, <1>3, <1>4, <1>5, <1>6, <1>7, <1>8, <1>9, <1>10 DEF Caller

(* Nor does the admission of a step, when it fails half way included.       *)
LEMMA StepAdmissionKeeps ==
    ASSUME Inv, StepAdmission
    PROVE  Inv'
<1> USE DEF store
<1> DEFINE i == Least(Candidates)
           r == Swept[i]
<1>1. CASE StepWithoutAdmission
  <2>1. GoodTable(requests')
    BY <1>1, SweptGood DEF StepWithoutAdmission
  <2> QED BY <1>1, <2>1 DEF StepWithoutAdmission, Inv
<1>2. ASSUME CanAdmit
      PROVE  /\ i \in Ids /\ Present(r) /\ r.status = "queued" /\ GoodTable(Swept)
             /\ r \in Request /\ Present(Activate(r))
             /\ NeedsAdoption(r) => r.prefix \in Entry
  <2>1. i \in Ids /\ Present(r) /\ r.status = "queued" /\ GoodTable(Swept)
    BY <1>2, SweptGood, CandidateQueued DEF CanAdmit
  <2> HIDE DEF i, r
  <2>2. Present(Activate(r)) /\ r \in Request
    BY <2>1, ActivatePresent DEF Present, Sound
  <2>3. NeedsAdoption(r) => r.prefix \in Entry
    BY <2>1 DEF Present, Sound, NeedsAdoption
  <2> QED BY <2>1, <2>2, <2>3
<1> HIDE DEF i, r
<1>3. CASE Admit
  <2>1. /\ CanAdmit /\ requests' = [Swept EXCEPT ![i] = Activate(r)]
        /\ IF NeedsAdoption(r) THEN SetStore(Adopt(r.prefix, Pinned(Swept)))
                               ELSE UNCHANGED store
        /\ UNCHANGED handles
    BY <1>3 DEF Admit, i, r
  <2>2. GoodTable(requests')
    BY <1>2, <2>1, GoodUpdate DEF Good
  <2>3. prefixes' \in Seq(Entry)
    <3>1. CASE NeedsAdoption(r)
      BY <1>2, <2>1, <3>1, AdoptTyped, StoreSet DEF Inv
    <3>2. CASE ~NeedsAdoption(r)
      BY <2>1, <3>2 DEF Inv
    <3> QED BY <3>1, <3>2
  <2> QED BY <2>1, <2>2, <2>3 DEF Inv
<1>4. CASE AdmitWithoutRoom
  <2> DEFINE q == Retire(Fail(Activate(r)))
  <2>1. /\ CanAdmit /\ NeedsAdoption(r)
        /\ requests' = [Swept EXCEPT ![i] = q]
        /\ SetStore(AdoptRoom(r.prefix, Pinned(Swept)))
        /\ UNCHANGED handles
    BY <1>4 DEF AdmitWithoutRoom, i, r
  <2>2. Good(q)
    BY <1>2, <2>1, EndSound DEF Present, Good
  <2> HIDE DEF q
  <2>3. GoodTable(requests')
    BY <1>2, <2>1, <2>2, GoodUpdate
  <2>4. prefixes' \in Seq(Entry)
    BY <1>2, <2>1, AdoptTyped, StoreSet DEF Inv
  <2> QED BY <2>1, <2>3, <2>4 DEF Inv
<1>5. CASE AdmitFails
  <2> DEFINE half == [r EXCEPT !.resident = TRUE]
             q == Retire(Fail(half))
  <2>1. CanAdmit /\ UNCHANGED <<handles, prefixes>>
    BY <1>5 DEF AdmitFails
  <2>2. requests' = [Swept EXCEPT ![i] = q]
    BY <1>2, <1>5, <2>1 DEF AdmitFails, GoodTable, i, r
  <2>3. Sound(half)
    <3>1. half = [r EXCEPT !.resident = TRUE] /\ r \in Request
      BY <1>2, <2>1
    <3> HIDE DEF half
    <3>2. /\ half \in Request /\ half.spec = r.spec /\ half.prefix = r.prefix
          /\ half.reg = r.reg /\ half.status = r.status
          /\ half.committed = r.committed /\ half.cached = r.cached
          /\ half.prefilled = r.prefilled /\ half.forwards = r.forwards
          /\ half.written = r.written /\ half.consumed = r.consumed
          /\ half.output = r.output
      BY <3>1 DEF Request
    <3> QED BY <1>2, <2>1, <3>2 DEF Sound, Present, PromptLength, KvCapacity
  <2>4. Good(q)
    <3> HIDE DEF half
    <3> QED BY <2>3, EndSound DEF Good
  <2> HIDE DEF q
  <2>5. GoodTable(requests')
    BY <1>2, <2>1, <2>2, <2>4, GoodUpdate
  <2> QED BY <2>1, <2>5 DEF Inv
<1> QED
  BY <1>1, <1>3, <1>4, <1>5 DEF StepAdmission

(* The snapshot that a builder publishes is what it registered.             *)
LEMMA PublicationTyped ==
    ASSUME Inv, NEW r, Present(r), Publishes(r)
    PROVE  LET p == NewPrefix(r.spec.ns, SubSeq(r.spec.prompt, 1, r.reg)) IN
           /\ p \in Entry /\ p.ns = r.spec.ns /\ Len(p.tokens) = r.reg
           /\ Matches(p, r.spec.prompt)
<1> DEFINE tokens == SubSeq(r.spec.prompt, 1, r.reg)
<1>1. /\ r \in Request /\ r.spec.prompt \in Seq(Int) /\ r.spec.ns \in Namespaces
      /\ Len(r.spec.prompt) \in Nat /\ r.reg <= Len(r.spec.prompt)
  BY PromptTyped, LenProperties DEF Present, Sound, PromptLength
<1>2. r.reg \in Nat /\ r.committed \in Nat /\ r.committed < r.reg
  BY <1>1 DEF Request, Publishes
<1>3. tokens \in Seq(Int) /\ Len(tokens) = r.reg
  <2>1. \A n \in 1..r.reg : r.spec.prompt[n] \in Int
    BY <1>1, <1>2, ElementOfSeq
  <2>2. /\ tokens \in Seq(Int)
        /\ Len(tokens) = (IF 1 <= r.reg THEN r.reg - 1 + 1 ELSE 0)
    BY <1>1, <1>2, <2>1, SubSeqProperties
  <2> QED BY <1>2, <2>2
<1> HIDE DEF tokens
<1>4. tokens # <<>> /\ Len(tokens) <= MaxContext
  <2>1. Len(tokens) # 0 /\ Len(tokens) <= MaxContext
    <3>1. MaxContext \in Nat /\ r.reg <= PromptLength(r) /\ PromptLength(r) <= MaxContext
          /\ PromptLength(r) \in Nat
      BY <1>1, EngineAssumption DEF Present, Sound, PromptLength
    <3> QED BY <1>2, <1>3, <3>1
  <2> QED BY <2>1, EmptySeq
<1>5. /\ NewPrefix(r.spec.ns, tokens) \in Entry
      /\ NewPrefix(r.spec.ns, tokens).ns = r.spec.ns
      /\ NewPrefix(r.spec.ns, tokens).tokens = tokens
  BY <1>1, <1>3, <1>4, NewPrefixTyped DEF Inv, GoodTable, Usable
<1> QED
  BY <1>1, <1>3, <1>5 DEF Matches, tokens

(* Nor does its work: a chunk, a publication, a fallback, a batch or an     *)
(* exception.                                                               *)
LEMMA WorkKeeps ==
    ASSUME Inv, Work
    PROVE  Inv'
<1> USE DEF store
<1>1. CASE StepIdle
  BY <1>1 DEF StepIdle, Inv
<1>2. ASSUME NEW i \in Ids, MayPrefill(i)
      PROVE  /\ requests[i].status = "prefill" /\ Present(requests[i])
             /\ requests \in [Ids -> Request]
  <2>1. requests[i].status = "prefill"
    BY <1>2 DEF MayPrefill, NextPrefill, Ready, WithStatus
  <2> QED BY <2>1, GoodTyped DEF Inv, GoodTable
<1>3. ASSUME NEW B, MayDecode(B)
      PROVE  \A i \in B : requests[i].status = "decode" /\ Present(requests[i])
  <2>1. \A i \in B : i \in Ids /\ requests[i].status = "decode"
    BY <1>3 DEF MayDecode, NextBatch, Ready, WithStatus
  <2> QED BY <2>1, GoodTyped DEF Inv, GoodTable
<1>4. ASSUME NEW i \in Ids, PrefillFails(i)
      PROVE  Inv'
  <2> DEFINE q == Retire(Fail(requests[i]))
  <2>1. requests' = [requests EXCEPT ![i] = q]
    BY <1>2, <1>4 DEF PrefillFails
  <2>2. Good(q)
    BY <1>2, <1>4, EndSound DEF PrefillFails, Present, Good
  <2> HIDE DEF q
  <2>3. GoodTable(requests')
    BY <2>1, <2>2, GoodUpdate DEF Inv
  <2> QED BY <1>4, <2>3 DEF Inv, PrefillFails, PrefillDone
<1>5. ASSUME NEW i \in Ids, NEW outcome \in Outcomes, PrefillForward(i, outcome)
      PROVE  Inv'
  <2> DEFINE q == AfterPrefill(Prefilled(requests[i]), outcome)
  <2>1. requests' = [requests EXCEPT ![i] = q]
    BY <1>2, <1>5 DEF PrefillForward
  <2>2. Present(requests[i]) /\ requests[i].status = "prefill"
    BY <1>2, <1>5 DEF PrefillForward
  <2>3. Good(q)
    BY <2>2, PrefilledSound, AfterPrefillPresent DEF Good
  <2> HIDE DEF q
  <2>4. GoodTable(requests')
    BY <2>1, <2>3, GoodUpdate DEF Inv
  <2> QED BY <1>5, <2>4 DEF Inv, PrefillForward, PrefillDone
<1>6. ASSUME NEW i \in Ids, NEW outcome \in Outcomes, PrefillPublish(i, outcome)
      PROVE  Inv'
  <2> DEFINE r == requests[i]
             room == Evict(TheStore, Charge[r.reg], Pinned(requests))
             p == NewPrefix(r.spec.ns, SubSeq(r.spec.prompt, 1, r.reg))
             built == [Prefilled(r) EXCEPT !.prefix = p, !.written = r.reg - r.cached]
             q == AfterPrefill(built, outcome)
  <2>1. /\ SetStore(Push(room, p)) /\ requests' = [requests EXCEPT ![i] = q]
        /\ UNCHANGED handles /\ MayPrefill(i) /\ Publishes(r)
    BY <1>6 DEF PrefillPublish, PrefillDone
  <2>2. Present(r) /\ r.status = "prefill"
    BY <1>2, <2>1
  <2>3. p \in Entry /\ p.ns = r.spec.ns /\ Matches(p, r.spec.prompt)
    <3> HIDE DEF r
    <3> QED BY <2>1, <2>2, PublicationTyped
  <2>4. Good(q)
    <3>1. built = [Prefilled(r) EXCEPT !.prefix = p, !.written = r.reg - r.cached]
      OBVIOUS
    <3> HIDE DEF r, p, built
    <3>2. /\ Sound(built) /\ Fresh(built) /\ Holding(built) /\ built.status = "prefill"
          /\ built.committed <= PromptLength(built)
      BY <2>1, <2>2, <2>3, <3>1, PublishedSound
    <3> QED BY <3>2, AfterPrefillPresent DEF Good
  <2>5. room.list \in Seq(Entry)
    BY EvictTyped DEF TheStore, Inv
  <2> HIDE DEF r, room, p, q
  <2>6. prefixes' \in Seq(Entry)
    BY <2>1, <2>3, <2>5, PushTyped, StoreSet
  <2>7. GoodTable(requests')
    BY <2>1, <2>4, GoodUpdate DEF Inv
  <2> QED BY <2>1, <2>6, <2>7 DEF Inv
<1>7. ASSUME NEW i \in Ids, NEW outcome \in Outcomes, PrefillFallback(i, outcome)
      PROVE  Inv'
  <2> DEFINE r == requests[i]
             cold == [j \in Ids |-> IF SameBuild(r, requests[j])
                                    THEN [requests[j] EXCEPT !.reg = 0]
                                    ELSE requests[j]]
             q == AfterPrefill([Prefilled(r) EXCEPT !.reg = 0], outcome)
             room == Evict(TheStore, Charge[r.reg], Pinned(requests))
  <2>1. /\ SetStore(room) /\ requests' = [cold EXCEPT ![i] = q]
        /\ UNCHANGED handles /\ MayPrefill(i) /\ Publishes(r)
    BY <1>7 DEF PrefillFallback, PrefillDone
  <2>2. Present(r) /\ r.status = "prefill"
    BY <1>2, <2>1
  <2>3. Good(q)
    <3> DEFINE back == [Prefilled(r) EXCEPT !.reg = 0]
    <3> HIDE DEF r
    <3>1. /\ Sound(back) /\ Fresh(back) /\ Holding(back)
          /\ back.status = "prefill" /\ back.committed <= PromptLength(back)
      BY <2>2, PrefilledSound, UnregisteredPresent
    <3> HIDE DEF back
    <3>2. Present(AfterPrefill(back, outcome))
      BY <3>1, AfterPrefillPresent
    <3> QED BY <3>2 DEF back, Good
  <2>4. GoodTable(cold)
    <3>1. ASSUME NEW j \in Ids PROVE Good(cold[j])
      <4>1. CASE SameBuild(r, requests[j])
        <5>1. requests[j] # Absent
          <6>1. r.reg = requests[j].reg /\ r.reg # 0
            BY <4>1 DEF SameBuild
          <6> QED BY <6>1, AbsentTyped
        <5>2. Present(requests[j])
          BY <5>1 DEF Inv, GoodTable, Good
        <5>3. Present([requests[j] EXCEPT !.reg = 0])
          BY <5>2, UnregisteredPresent
        <5> QED BY <4>1, <5>3 DEF Good
      <4>2. CASE ~SameBuild(r, requests[j])
        BY <4>2 DEF Inv, GoodTable
      <4> QED BY <4>1, <4>2
    <3>2. \A j \in Ids : cold[j] \in Request
      BY <3>1, GoodTyped
    <3>3. cold = [j \in Ids |-> cold[j]]
      OBVIOUS
    <3> HIDE DEF cold
    <3> QED BY <3>1, <3>2, <3>3 DEF GoodTable
  <2>5. room.list \in Seq(Entry)
    BY EvictTyped DEF TheStore, Inv
  <2> HIDE DEF r, room, cold, q
  <2>6. prefixes' \in Seq(Entry)
    BY <2>1, <2>5, StoreSet
  <2>7. GoodTable(requests')
    BY <2>1, <2>3, <2>4, GoodUpdate
  <2> QED BY <2>1, <2>6, <2>7 DEF Inv
<1>8. ASSUME NEW B \in SUBSET Ids, NEW next, MayDecode(B),
             requests' = [i \in Ids |-> IF i \in B THEN next[i] ELSE requests[i]],
             \A i \in B : Present(next[i]), DecodeDone(B)
      PROVE  Inv'
  <2>1. ASSUME NEW i \in Ids PROVE Good(requests'[i])
    <3>1. CASE i \in B
      BY <1>8, <3>1 DEF Good
    <3>2. CASE i \notin B
      BY <1>8, <3>2 DEF Inv, GoodTable
    <3> QED BY <3>1, <3>2
  <2>2. \A i \in Ids : requests'[i] \in Request
    BY <2>1, GoodTyped
  <2>3. requests' = [i \in Ids |-> requests'[i]]
    BY <1>8
  <2>4. GoodTable(requests')
    BY <2>1, <2>2, <2>3 DEF GoodTable
  <2> QED BY <1>8, <2>4 DEF Inv, DecodeDone
<1>9. ASSUME NEW B \in SUBSET Ids, NEW outcomes \in [B -> Outcomes],
             DecodeRows(B, outcomes)
      PROVE  Inv'
  <2> DEFINE next == [i \in Ids |-> Retire(Select(DecodeForward(requests[i]), outcomes[i]))]
  <2>1. MayDecode(B) /\ DecodeDone(B)
    BY <1>9 DEF DecodeRows
  <2>2. \A i \in B : Present(next[i])
    <3>1. ASSUME NEW i \in B PROVE Present(next[i])
      <4>1. Present(requests[i]) /\ requests[i].status = "decode"
        BY <1>3, <2>1
      <4> QED BY <4>1, SelectPresent
    <3> QED BY <3>1
  <2>3. requests' = [i \in Ids |-> IF i \in B THEN next[i] ELSE requests[i]]
    BY <1>9 DEF DecodeRows
  <2> HIDE DEF next
  <2> QED BY <1>8, <2>1, <2>2, <2>3
<1>10. ASSUME NEW B \in SUBSET Ids, DecodeFails(B)
       PROVE  Inv'
  <2> DEFINE next == [i \in Ids |-> Retire(Fail(requests[i]))]
  <2>1. MayDecode(B) /\ DecodeDone(B)
    BY <1>10 DEF DecodeFails
  <2>2. \A i \in B : Present(next[i])
    BY <1>3, <2>1, EndSound DEF Present
  <2>3. requests' = [i \in Ids |-> IF i \in B THEN next[i] ELSE requests[i]]
    BY <1>10 DEF DecodeFails
  <2> HIDE DEF next
  <2> QED BY <1>8, <2>1, <2>2, <2>3
<1>11. ASSUME NEW B \in SUBSET Ids, NEW outcomes \in [B -> Outcomes], NEW at \in B,
              DecodeThrows(B, at, outcomes)
       PROVE  Inv'
  <2> DEFINE row(i) == IF Before(i, at, lastDecode) /\ i # at
                       THEN Select(DecodeForward(requests[i]), outcomes[i])
                       ELSE IF i = at THEN DecodeForward(requests[i]) ELSE requests[i]
             next == [i \in Ids |-> Retire(Fail(row(i)))]
  <2>1. MayDecode(B) /\ DecodeDone(B)
    BY <1>11 DEF DecodeThrows
  <2>2. \A i \in B : Present(next[i])
    <3>1. ASSUME NEW i \in B PROVE Sound(row(i))
      <4>1. Present(requests[i]) /\ requests[i].status = "decode"
        BY <1>3, <2>1
      <4>2. Selecting(DecodeForward(requests[i])) /\ Sound(DecodeForward(requests[i]))
        BY <4>1, ForwardSelecting DEF Selecting
      <4>3. Sound(Select(DecodeForward(requests[i]), outcomes[i]))
        BY <4>2, SelectSound
      <4> QED BY <4>1, <4>2, <4>3 DEF Present
    <3> HIDE DEF row
    <3>2. \A i \in B : Present(Retire(Fail(row(i))))
      BY <3>1, EndSound
    <3> QED BY <3>2
  <2>3. requests' = [i \in Ids |-> IF i \in B THEN next[i] ELSE requests[i]]
    BY <1>11 DEF DecodeThrows
  <2> HIDE DEF next
  <2> QED BY <1>8, <2>1, <2>2, <2>3
<1> QED
  BY <1>1, <1>4, <1>5, <1>6, <1>7, <1>9, <1>10, <1>11 DEF Work

(* What is known of the whole state: the requests, the store, the turns.    *)
Turns ==
    /\ nextId \in 1..(MaxId + 1) /\ lastPrefill \in 0..MaxId /\ lastDecode \in 0..MaxId
    /\ preferDecode \in BOOLEAN /\ scheduling \in BOOLEAN

(* Inv is inductive.                                                        *)
LEMMA InvKept ==
    ASSUME Inv, [Next]_vars
    PROVE  Inv'
<1>1. CASE UNCHANGED vars
  BY <1>1 DEF Inv, vars, store
<1> QED
  BY <1>1, CallerKeeps, StepAdmissionKeeps, WorkKeeps DEF Next

(* The last row of a batch is a request.                                    *)
LEMMA BatchServed ==
    ASSUME Turns, NEW B \in SUBSET Ids, Serving, MayDecode(B)
    PROVE  (CHOOSE i \in B : \A j \in B \ {i} : Before(j, i, lastDecode)) \in Ids
<1>1. lastDecode \in Nat
  BY EngineAssumption DEF Turns
<1>2. B = NextBatch /\ Ready("decode") # {} /\ Ready("decode") \in SUBSET Ids
  BY DEF MayDecode, DecodeTurn, Ready, WithStatus
<1>3. PICK i \in Ready("decode") : \A j \in Ready("decode") : ~Before(j, i, lastDecode)
  BY <1>1, <1>2, FirstServed
<1>4. i \in NextBatch
  <2>1. {j \in Ready("decode") : Before(j, i, lastDecode)} = {}
    BY <1>3
  <2>2. Cardinality({j \in Ready("decode") : Before(j, i, lastDecode)}) = 0
    BY <2>1, FS_EmptySet
  <2> QED BY <2>2, EngineAssumption DEF NextBatch
<1>5. \E k \in B : \A j \in B \ {k} : Before(j, k, lastDecode)
  BY <1>1, <1>2, <1>4, LastServed
<1> QED
  BY <1>5

(* The turns and the next ID stay in range.                                 *)
LEMMA TurnsKept ==
    ASSUME Turns, [Next]_vars
    PROVE  Turns'
<1> USE DEF Turns, turns
<1>1. MaxId \in Nat
  BY EngineAssumption
<1>2. CASE UNCHANGED vars
  BY <1>2 DEF vars
<1>3. CASE Caller
  <2>1. ASSUME NEW s \in Specs, NEW p \in handles \cup {NoPrefix},
               SubmitQueued(s, p) \/ SubmitActive(s, p) \/ SubmitRefused(s, p)
        PROVE  Turns'
    BY <1>1, <2>1 DEF SubmitQueued, SubmitActive, SubmitRefused, Enter, Ids
  <2>2. ASSUME NEW i \in Ids,
               \/ \E max \in 1..MaxBuffered : ReadOutput(i, max)
               \/ Cancel(i) \/ Release(i)
        PROVE  Turns'
    BY <2>2 DEF ReadOutput, Cancel, Release
  <2>3. ASSUME NEW e \in Registrations,
               \/ FindPrefix(e.ns, e.tokens) \/ RegisterKnown(e.ns, e.tokens)
               \/ \E built \in BOOLEAN : Register(e.ns, e.tokens, built)
        PROVE  Turns'
    BY <2>3 DEF FindPrefix, RegisterKnown, Register
  <2>4. ASSUME NEW p \in handles, DropHandle(p)
        PROVE  Turns'
    BY <2>4 DEF DropHandle
  <2> QED BY <1>3, <2>1, <2>2, <2>3, <2>4 DEF Caller
<1>4. CASE StepAdmission
  BY <1>4 DEF StepAdmission, StepWithoutAdmission, Admit, AdmitWithoutRoom, AdmitFails
<1>5. CASE Work
  <2>1. CASE StepIdle
    BY <2>1 DEF StepIdle
  <2>2. ASSUME NEW i \in Ids, PrefillDone(i)
        PROVE  Turns'
    <3>1. i \in 0..MaxId
      BY <1>1, <2>2 DEF Ids
    <3>2. lastPrefill' \in 0..MaxId
      BY <2>2, <3>1 DEF PrefillDone
    <3> QED BY <2>2, <3>2 DEF PrefillDone
  <2>3. ASSUME NEW B \in SUBSET Ids, MayDecode(B), DecodeDone(B)
        PROVE  Turns'
    <3>1. lastDecode' \in 0..MaxId
      <4>1. CASE Serving
        <5>1. lastDecode' \in Ids
          BY <2>3, <4>1, BatchServed DEF DecodeDone
        <5> QED BY <1>1, <5>1 DEF Ids
      <4>2. CASE ~Serving
        BY <2>3, <4>2 DEF DecodeDone
      <4> QED BY <4>1, <4>2
    <3> QED BY <2>3, <3>1 DEF DecodeDone
  <2> QED
    BY <1>5, <2>1, <2>2, <2>3
    DEF Work, PrefillFails, PrefillForward, PrefillPublish, PrefillFallback,
        DecodeFails, DecodeRows, DecodeThrows
<1> QED
  BY <1>2, <1>3, <1>4, <1>5 DEF Next

(* Every reachable state satisfies the inductive invariant.                 *)
THEOREM Invariance == Spec => [](Inv /\ Turns)
<1>1. Init => Inv /\ Turns
  <2>1. Init => Turns
    <3>1. 1 \in 1..(MaxId + 1) /\ 0 \in 0..MaxId
      <4>1. MaxId \in Nat
        BY EngineAssumption
      <4> QED BY <4>1
    <3> QED BY <3>1, Zenon DEF Init, Turns
  <2> QED BY <2>1, InitGood
<1>2. Inv /\ Turns /\ [Next]_vars => Inv' /\ Turns'
  BY InvKept, TurnsKept
<1> QED
  BY <1>1, <1>2, PTL DEF Spec

-----------------------------------------------------------------------------
(* The slots of the serving mode.                                           *)

(* What happens to a request leaves its slot alone, or frees it.            *)
LEMMA SlotOf ==
    ASSUME NEW r, "resident" \in DOMAIN r, NEW outcome
    PROVE  /\ "resident" \in DOMAIN Fail(r) /\ Fail(r).resident = r.resident
           /\ "resident" \in DOMAIN Prefilled(r) /\ Prefilled(r).resident = r.resident
           /\ "resident" \in DOMAIN DecodeForward(r) /\ DecodeForward(r).resident = r.resident
           /\ "resident" \in DOMAIN Select(r, outcome)
           /\ Select(r, outcome).resident = r.resident
           /\ "resident" \in DOMAIN Retire(r) /\ (Retire(r).resident => r.resident)
           /\ "resident" \in DOMAIN AttachExact(r) /\ AttachExact(r).resident = r.resident
           /\ AfterPrefill(r, outcome).resident => r.resident
<1>1. "resident" \in DOMAIN Select(r, outcome) /\ Select(r, outcome).resident = r.resident
  BY DEF Select, Fail
<1>2. /\ "resident" \in DOMAIN Retire(r) /\ (Retire(r).resident => r.resident)
      /\ Retire(Select(r, outcome)).resident => Select(r, outcome).resident
  BY <1>1 DEF Retire
<1> QED
  BY <1>1, <1>2 DEF Fail, Prefilled, DecodeForward, AttachExact, AfterPrefill

\* A step that gives no request a slot.
NoneLetIn == \A i \in Ids : requests'[i].resident => requests[i].resident

SlotsKept == Serving => Cardinality(Resident(requests)) <= MaxResident

(* Such a step keeps within the slots.                                      *)
LEMMA NoneLetInKeeps ==
    ASSUME SlotsKept, NoneLetIn
    PROVE  SlotsKept'
<1>1. Resident(requests') \subseteq Resident(requests) /\ Resident(requests) \subseteq Ids
  BY DEF NoneLetIn, Resident
<1>2. IsFiniteSet(Ids)
  BY EngineAssumption, FS_Interval DEF Ids
<1>3. /\ Cardinality(Resident(requests')) \in Nat /\ Cardinality(Resident(requests)) \in Nat
      /\ Cardinality(Resident(requests')) <= Cardinality(Resident(requests))
  BY <1>1, <1>2, FS_Subset, FS_CardinalityType
<1> QED
  BY <1>3, EngineAssumption DEF SlotsKept

(* The caller lets nobody in: what it submits is queued.                    *)
LEMMA CallerLetsNoneIn ==
    ASSUME Inv, Serving, Caller
    PROVE  NoneLetIn
<1>1. /\ requests \in [Ids -> Request]
      /\ \A i \in Ids : "resident" \in DOMAIN requests[i]
  BY DEF Inv, GoodTable, Request
<1>2. ASSUME NEW s, NEW p, SubmitQueued(s, p) PROVE NoneLetIn
  <2>1. /\ requests' = [requests EXCEPT ![nextId] = Submitted(s, p)]
        /\ ~Submitted(s, p).resident
    BY <1>2 DEF SubmitQueued, Enter, Submitted, Absent
  <2> QED BY <1>1, <2>1 DEF NoneLetIn
<1>3. ASSUME NEW k \in Ids, NEW max, ReadOutput(k, max) PROVE NoneLetIn
  <2>1. \E n : requests' = [requests EXCEPT ![k].consumed = n]
    BY <1>3 DEF ReadOutput
  <2> QED BY <1>1, <2>1 DEF NoneLetIn
<1>4. ASSUME NEW k \in Ids, Cancel(k) PROVE NoneLetIn
  <2> DEFINE r == [requests[k] EXCEPT !.status = "cancelled"]
  <2>1. requests' = [requests EXCEPT ![k] = Retire(r)]
    BY <1>4 DEF Cancel
  <2>2. "resident" \in DOMAIN r /\ r.resident = requests[k].resident
    BY <1>1
  <2> HIDE DEF r
  <2> QED BY <1>1, <2>1, <2>2, SlotOf DEF NoneLetIn
<1>5. ASSUME NEW k \in Ids, Release(k) PROVE NoneLetIn
  <2>1. requests' = [requests EXCEPT ![k] = Absent] /\ ~Absent.resident
    BY <1>5 DEF Release, Absent
  <2> QED BY <1>1, <2>1 DEF NoneLetIn
<1>6. CASE UNCHANGED requests
  BY <1>6 DEF NoneLetIn
<1> QED
  BY <1>2, <1>3, <1>4, <1>5, <1>6
  DEF Caller, SubmitActive, SubmitRefused, FindPrefix, RegisterKnown, Register, DropHandle

(* Nor does the work of a step.                                             *)
LEMMA WorkLetsNoneIn ==
    ASSUME Inv, Work
    PROVE  NoneLetIn
<1>1. /\ requests \in [Ids -> Request]
      /\ \A i \in Ids : "resident" \in DOMAIN requests[i]
  BY DEF Inv, GoodTable, Request
<1>2. ASSUME NEW k \in Ids, PrefillFails(k) PROVE NoneLetIn
  <2>1. requests' = [requests EXCEPT ![k] = Retire(Fail(requests[k]))]
    BY <1>2 DEF PrefillFails
  <2>2. Retire(Fail(requests[k])).resident => requests[k].resident
    BY <1>1, SlotOf
  <2> QED BY <1>1, <2>1, <2>2 DEF NoneLetIn
<1>3. ASSUME NEW k \in Ids, NEW r, NEW outcome, NEW table, "resident" \in DOMAIN r,
             r.resident = requests[k].resident, table \in [Ids -> Request],
             \A j \in Ids : table[j].resident = requests[j].resident,
             requests' = [table EXCEPT ![k] = AfterPrefill(r, outcome)]
      PROVE  NoneLetIn
  <2>1. AfterPrefill(r, outcome).resident => requests[k].resident
    BY <1>3, SlotOf
  <2> QED BY <1>3, <2>1 DEF NoneLetIn
<1>4. ASSUME NEW k \in Ids
      PROVE  /\ "resident" \in DOMAIN Prefilled(requests[k])
             /\ Prefilled(requests[k]).resident = requests[k].resident
  BY <1>1, SlotOf
<1>5. ASSUME NEW k \in Ids, NEW outcome, PrefillForward(k, outcome) PROVE NoneLetIn
  <2>1. requests' = [requests EXCEPT ![k] = AfterPrefill(Prefilled(requests[k]), outcome)]
    BY <1>5 DEF PrefillForward
  <2> QED BY <1>1, <1>3, <1>4, <2>1
<1>6. ASSUME NEW k \in Ids, NEW outcome, PrefillPublish(k, outcome) PROVE NoneLetIn
  <2> DEFINE q == Prefilled(requests[k])
  <2>1. \E p, n : requests' = [requests EXCEPT ![k] =
                                 AfterPrefill([q EXCEPT !.prefix = p, !.written = n], outcome)]
    BY <1>6 DEF PrefillPublish
  <2> HIDE DEF q
  <2>2. PICK p, n : requests' = [requests EXCEPT ![k] =
                                  AfterPrefill([q EXCEPT !.prefix = p, !.written = n], outcome)]
    BY <2>1
  <2> DEFINE r == [q EXCEPT !.prefix = p, !.written = n]
  <2>3. "resident" \in DOMAIN r /\ r.resident = requests[k].resident
    BY <1>4 DEF q
  <2> HIDE DEF r
  <2>4. requests' = [requests EXCEPT ![k] = AfterPrefill(r, outcome)]
    BY <2>2 DEF r
  <2> QED BY <1>1, <1>3, <2>3, <2>4
<1>7. ASSUME NEW k \in Ids, NEW outcome, PrefillFallback(k, outcome) PROVE NoneLetIn
  <2> DEFINE cold == [j \in Ids |-> IF SameBuild(requests[k], requests[j])
                                    THEN [requests[j] EXCEPT !.reg = 0]
                                    ELSE requests[j]]
             r == [Prefilled(requests[k]) EXCEPT !.reg = 0]
  <2>1. requests' = [cold EXCEPT ![k] = AfterPrefill(r, outcome)]
    BY <1>7 DEF PrefillFallback
  <2>2. "resident" \in DOMAIN r /\ r.resident = requests[k].resident
    BY <1>4
  <2>3. \A j \in Ids : cold[j].resident = requests[j].resident
    BY <1>1
  <2>4. cold \in [Ids -> Request]
    BY <1>1 DEF Request
  <2> HIDE DEF cold, r
  <2> QED BY <1>3, <2>1, <2>2, <2>3, <2>4
<1>8. ASSUME NEW B \in SUBSET Ids, NEW row,
             \A i \in B : "resident" \in DOMAIN row[i] /\ row[i].resident = requests[i].resident,
             requests' = [i \in Ids |-> IF i \in B THEN Retire(row[i]) ELSE requests[i]]
      PROVE  NoneLetIn
  <2>1. \A i \in B : Retire(row[i]).resident => requests[i].resident
    BY <1>8, SlotOf
  <2> QED BY <1>8, <2>1 DEF NoneLetIn
<1>9. ASSUME NEW B \in SUBSET Ids, NEW outcomes, DecodeRows(B, outcomes) PROVE NoneLetIn
  <2> DEFINE row == [i \in B |-> Select(DecodeForward(requests[i]), outcomes[i])]
  <2>1. requests' = [i \in Ids |-> IF i \in B THEN Retire(row[i]) ELSE requests[i]]
    BY <1>9 DEF DecodeRows
  <2>2. \A i \in B : "resident" \in DOMAIN row[i] /\ row[i].resident = requests[i].resident
    BY <1>1, SlotOf
  <2> HIDE DEF row
  <2> QED BY <1>8, <2>1, <2>2
<1>10. ASSUME NEW B \in SUBSET Ids, DecodeFails(B) PROVE NoneLetIn
  <2> DEFINE row == [i \in B |-> Fail(requests[i])]
  <2>1. requests' = [i \in Ids |-> IF i \in B THEN Retire(row[i]) ELSE requests[i]]
    BY <1>10 DEF DecodeFails
  <2>2. \A i \in B : "resident" \in DOMAIN row[i] /\ row[i].resident = requests[i].resident
    BY <1>1, SlotOf
  <2> HIDE DEF row
  <2> QED BY <1>8, <2>1, <2>2
<1>11. ASSUME NEW B \in SUBSET Ids, NEW at, NEW outcomes, DecodeThrows(B, at, outcomes)
       PROVE  NoneLetIn
  <2> DEFINE served == [i \in B |-> IF Before(i, at, lastDecode) /\ i # at
                         THEN Select(DecodeForward(requests[i]), outcomes[i])
                         ELSE IF i = at THEN DecodeForward(requests[i]) ELSE requests[i]]
             row == [i \in B |-> Fail(served[i])]
  <2>1. requests' = [i \in Ids |-> IF i \in B THEN Retire(row[i]) ELSE requests[i]]
    BY <1>11 DEF DecodeThrows
  <2>2. \A i \in B : /\ "resident" \in DOMAIN served[i]
                     /\ served[i].resident = requests[i].resident
    <3> SUFFICES ASSUME NEW i \in B
                 PROVE  /\ "resident" \in DOMAIN served[i]
                        /\ served[i].resident = requests[i].resident
      OBVIOUS
    <3> DEFINE q == DecodeForward(requests[i])
    <3>1. "resident" \in DOMAIN q /\ q.resident = requests[i].resident
      BY <1>1, SlotOf
    <3>2. served[i] \in {Select(q, outcomes[i]), q, requests[i]}
      OBVIOUS
    <3> HIDE DEF q, served
    <3>3. /\ "resident" \in DOMAIN Select(q, outcomes[i])
          /\ Select(q, outcomes[i]).resident = q.resident
      BY <3>1, SlotOf
    <3>4. "resident" \in DOMAIN requests[i]
      BY <1>1
    <3> QED BY <3>1, <3>2, <3>3, <3>4
  <2> HIDE DEF served
  <2>3. \A i \in B : "resident" \in DOMAIN row[i] /\ row[i].resident = requests[i].resident
    BY <2>2, SlotOf
  <2> HIDE DEF row
  <2> QED BY <1>8, <2>1, <2>3
<1>12. CASE StepIdle
  BY <1>12 DEF StepIdle, NoneLetIn
<1> QED
  BY <1>2, <1>5, <1>6, <1>7, <1>9, <1>10, <1>11, <1>12 DEF Work

(* An admission takes a free slot, or fails and gives it back.              *)
LEMMA AdmissionKeepsSlots ==
    ASSUME Inv, SlotsKept, StepAdmission
    PROVE  SlotsKept'
<1> DEFINE k == Least(Candidates)
<1>1. /\ \A i \in Ids : "resident" \in DOMAIN requests[i]
      /\ DOMAIN Swept = Ids
  BY DEF Inv, GoodTable, Request, Swept
<1>2. \A i \in Ids : "resident" \in DOMAIN Swept[i] /\ (Swept[i].resident => requests[i].resident)
  BY <1>1, SlotOf DEF Swept
<1>3. Serving
  BY DEF StepAdmission, StepWithoutAdmission, Admit, AdmitWithoutRoom, AdmitFails
<1>4. ASSUME NEW i \in Ids, NEW q, "resident" \in DOMAIN q, "status" \in DOMAIN q,
             requests' = [Swept EXCEPT ![i] = Retire(Fail(q))]
      PROVE  NoneLetIn
  <2> DEFINE f == Fail(q)
  <2>1. "resident" \in DOMAIN f /\ Terminal(f)
    BY <1>4 DEF Fail, Terminal
  <2> HIDE DEF f
  <2>2. ~Retire(f).resident
    BY <1>3, <2>1 DEF Retire
  <2> QED BY <1>1, <1>2, <1>4, <2>2 DEF NoneLetIn, f
<1>5. CanAdmit => k \in Ids /\ Swept[k] \in Request
  BY SweptGood, CandidateQueued DEF CanAdmit, GoodTable
<1> HIDE DEF k
<1>6. CASE StepWithoutAdmission
  <2>1. NoneLetIn
    BY <1>2, <1>6 DEF StepWithoutAdmission, NoneLetIn
  <2> QED BY <2>1, NoneLetInKeeps
<1>7. CASE AdmitWithoutRoom
  <2> DEFINE q == Activate(Swept[k])
  <2>1. k \in Ids /\ Swept[k] \in Request /\ requests' = [Swept EXCEPT ![k] = Retire(Fail(q))]
    BY <1>5, <1>7 DEF AdmitWithoutRoom, k
  <2>2. "resident" \in DOMAIN q /\ "status" \in DOMAIN q
    BY <2>1 DEF Activate, Request
  <2> HIDE DEF q
  <2> QED BY <1>4, <2>1, <2>2, NoneLetInKeeps
<1>8. CASE AdmitFails
  <2> DEFINE q == [Swept[k] EXCEPT !.resident = TRUE]
  <2>1. k \in Ids /\ Swept[k] \in Request
    BY <1>5, <1>8 DEF AdmitFails
  <2>2. requests' = [Swept EXCEPT ![k] = Retire(Fail(q))]
    BY <1>1, <1>8, <2>1 DEF AdmitFails, k
  <2>3. "resident" \in DOMAIN q /\ "status" \in DOMAIN q
    BY <2>1 DEF Request
  <2> HIDE DEF q
  <2> QED BY <1>4, <2>1, <2>2, <2>3, NoneLetInKeeps
<1>9. CASE Admit
  <2>1. /\ k \in Ids /\ requests' = [Swept EXCEPT ![k] = Activate(Swept[k])]
        /\ Cardinality(Resident(Swept)) < MaxResident
    BY <1>5, <1>9 DEF Admit, CanAdmit, k
  <2>2. Resident(requests') \subseteq Resident(Swept) \cup {k} /\ Resident(Swept) \subseteq Ids
    BY <1>1, <2>1 DEF Resident
  <2>3. IsFiniteSet(Ids)
    BY EngineAssumption, FS_Interval DEF Ids
  <2>4. IsFiniteSet(Resident(Swept)) /\ Cardinality(Resident(Swept)) \in Nat
    BY <2>2, <2>3, FS_Subset, FS_CardinalityType
  <2>5. /\ IsFiniteSet(Resident(Swept) \cup {k})
        /\ Cardinality(Resident(Swept) \cup {k}) \in Nat
        /\ Cardinality(Resident(Swept) \cup {k}) <= Cardinality(Resident(Swept)) + 1
    BY <2>4, FS_AddElement, FS_CardinalityType
  <2>6. /\ Cardinality(Resident(requests')) <= Cardinality(Resident(Swept) \cup {k})
        /\ Cardinality(Resident(requests')) \in Nat
    BY <2>2, <2>5, FS_Subset, FS_CardinalityType
  <2> QED BY <2>1, <2>4, <2>5, <2>6, EngineAssumption DEF SlotsKept
<1> QED
  BY <1>6, <1>7, <1>8, <1>9 DEF StepAdmission

-----------------------------------------------------------------------------
(* What a reader should know.                                               *)

(* The engine's state keeps its shape, whatever callers and readers do.     *)
THEOREM TypeCorrect == Spec => []TypeOK
<1>1. Inv /\ Turns => TypeOK
  <2> SUFFICES ASSUME Inv, Turns PROVE TypeOK
    OBVIOUS
  <2>1. ASSUME NEW i \in Ids PROVE requests[i].reg <= PromptLength(requests[i])
    <3>1. CASE requests[i] = Absent
      <4>1. PromptLength(Absent) \in Nat
        BY AbsentTyped, PromptTyped
      <4> QED BY <3>1, <4>1, AbsentTyped
    <3>2. CASE Present(requests[i])
      BY <3>2 DEF Present, Sound
    <3> QED BY <3>1, <3>2 DEF Inv, GoodTable, Good
  <2>2. requests \in [Ids -> Request] /\ handles \subseteq Snapshot
    BY DEF Inv, GoodTable, Usable
  <2>3. prefixes \in Seq(Snapshot)
    <3>1. Entry \subseteq Snapshot
      BY DEF Entry, Usable
    <3> QED BY <3>1 DEF Inv
  <2> QED BY <2>1, <2>2, <2>3 DEF TypeOK, Turns
<1> QED
  BY <1>1, Invariance, PTL

(* In serving mode exactly the requests being worked on hold model state:   *)
(* an end of any kind, also in the middle of a batch, frees it at once, and *)
(* there are never more of them than slots.                                 *)
THEOREM StateFreedAtOnce == Spec => []StateIffWorkedOn
<1>1. Inv /\ SlotsKept => StateIffWorkedOn
  <2> SUFFICES ASSUME Inv, SlotsKept, Serving, NEW i \in Ids
               PROVE  requests[i].resident <=> requests[i].status \in {"prefill", "decode"}
    BY DEF StateIffWorkedOn, SlotsKept
  <2>1. CASE requests[i] = Absent
    BY <2>1, AbsentTyped
  <2>2. CASE Present(requests[i])
    BY <2>2 DEF Present, Holding
  <2> QED BY <2>1, <2>2 DEF Inv, GoodTable, Good
<1>2. Init => SlotsKept
  <2> SUFFICES ASSUME Init PROVE SlotsKept
    OBVIOUS
  <2>1. Resident(requests) = {}
    BY DEF Init, Resident, Absent
  <2>2. Cardinality(Resident(requests)) = 0
    BY <2>1, FS_EmptySet
  <2>3. MaxResident \in Nat
    BY EngineAssumption
  <2> QED BY <2>2, <2>3 DEF SlotsKept
<1>3. Inv /\ SlotsKept /\ [Next]_vars => SlotsKept'
  <2> SUFFICES ASSUME Inv, SlotsKept, [Next]_vars, Serving PROVE SlotsKept'
    BY DEF SlotsKept
  <2>1. CASE UNCHANGED vars
    BY <2>1 DEF vars, SlotsKept, Resident
  <2> QED
    BY <2>1, CallerLetsNoneIn, WorkLetsNoneIn, AdmissionKeepsSlots, NoneLetInKeeps DEF Next
<1> QED
  BY <1>1, <1>2, <1>3, Invariance, PTL DEF Spec

(* No request outgrows the KV cache it was given, and a decode forward has  *)
(* a slot to write.                                                         *)
THEOREM NeverOutgrown == Spec => []KvWithinCapacity
<1>1. Inv => KvWithinCapacity
  <2> SUFFICES ASSUME Inv, NEW i \in Live
               PROVE  LET r == requests[i] IN
                      /\ r.status = "prefill" => r.committed <= PromptLength(r)
                      /\ r.status = "decode" => r.committed < KvCapacity(r)
                      /\ Terminal(r) => r.committed <= KvCapacity(r)
    BY DEF KvWithinCapacity
  <2> DEFINE r == requests[i]
  <2>1. Present(r) /\ r \in Request
    BY GoodTyped DEF Inv, GoodTable, Live
  <2> HIDE DEF r
  <2>2. PromptLength(r) \in Nat /\ r.spec.maxNew \in Nat /\ r.committed \in Nat
        /\ r.generated \in Nat
    BY <2>1, PromptTyped DEF Request
  <2>3. r.status = "prefill" => r.committed <= PromptLength(r)
    BY <2>1 DEF Present, Prefilling
  <2>4. r.status = "decode" => r.committed < KvCapacity(r)
    BY <2>1, <2>2 DEF Present, Decoding, KvCapacity
  <2>5. r.committed <= KvCapacity(r)
    BY <2>1 DEF Present, Sound
  <2> QED BY <2>3, <2>4, <2>5 DEF r
<1> QED
  BY <1>1, Invariance, PTL

(* The reported counters account for every committed position exactly once. *)
THEOREM TokensAccountedFor == Spec => []TokenAccounting
<1>1. Inv => TokenAccounting
  <2> SUFFICES ASSUME Inv, NEW i \in Ids
               PROVE  LET r == requests[i] IN
                      /\ r.committed = r.cached + r.prefilled + r.forwards
                      /\ r.written <= r.prefilled
                      /\ r.status = "decode" => r.committed = PromptLength(r) + r.generated - 1
    BY DEF TokenAccounting
  <2>1. CASE requests[i] = Absent
    BY <2>1, AbsentTyped
  <2>2. CASE Present(requests[i])
    BY <2>2 DEF Present, Sound, Decoding
  <2> QED BY <2>1, <2>2 DEF Inv, GoodTable, Good
<1> QED
  BY <1>1, Invariance, PTL

(* A request continues only from a snapshot of its own namespace, model     *)
(* configuration and leading tokens.                                        *)
THEOREM PrefixIsOwn == Spec => []PrefixIdentity
<1>1. Inv => PrefixIdentity
  BY GoodTyped DEF Inv, GoodTable, Live, PrefixIdentity, Present, Sound, Entry
<1> QED
  BY <1>1, Invariance, PTL

(* The hidden state that advance reads for a fully cached prompt exists.    *)
THEOREM HiddenStateExists == Spec => []FullHitHasHidden
<1>1. Inv => FullHitHasHidden
  BY GoodTyped DEF Inv, GoodTable, WithStatus, FullHitHasHidden, Present, Prefilling
<1> QED
  BY <1>1, Invariance, PTL

(* What was handed out never exceeds what is confirmed, so that the length  *)
(* of the next read cannot wrap.                                            *)
THEOREM ReadsNeverWrap == Spec => []ReadNeverWraps
<1>1. Inv => ReadNeverWraps
  <2> SUFFICES ASSUME Inv, NEW i \in Live
               PROVE  LET r == requests[i] IN
                      r.consumed <= IF Terminal(r) THEN Len(r.output)
                                                   ELSE Confirmed(r.output, r.spec.stops)
    BY DEF ReadNeverWraps
  <2> DEFINE r == requests[i]
  <2>1. Present(r) /\ r \in Request
    BY GoodTyped DEF Inv, GoodTable, Live
  <2> HIDE DEF r
  <2>2. r.consumed \in Nat /\ Confirmed(r.output, r.spec.stops) \in Nat
    <3>1. r.output \in Seq(Vocab) /\ r.spec.stops \in SUBSET Seq(Vocab)
      BY <2>1, PromptTyped DEF Request
    <3>2. Confirmed(r.output, r.spec.stops) \in 0..Len(r.output)
      BY <3>1, ConfirmedIs
    <3> QED BY <2>1, <3>2 DEF Request
  <2>3. Terminal(r) => r.consumed <= Len(r.output)
    BY <2>1 DEF Present, Sound
  <2>4. ~Terminal(r) => r.consumed <= Confirmed(r.output, r.spec.stops)
    <3>1. r.status \in {"queued", "prefill"} => r.consumed = 0
      BY <2>1 DEF Present, Queued, Prefilling, Fresh
    <3>2. r.status = "decode" => r.consumed <= Confirmed(r.output, r.spec.stops)
      BY <2>1 DEF Present, Decoding
    <3>3. r.status \in Statuses /\ r.status # "absent"
      BY <2>1 DEF Present, Sound, Request
    <3> QED BY <2>2, <3>1, <3>2, <3>3 DEF Statuses, Terminal
  <2> QED BY <2>3, <2>4 DEF r
<1> QED
  BY <1>1, Invariance, PTL

(* A request paused by a full output buffer can always be read, so that no  *)
(* set of stop sequences wedges it.                                         *)
THEOREM PausedCanBeRead == Spec => []PausedIsReadable
<1>1. Inv => PausedIsReadable
  <2> SUFFICES ASSUME Inv, Serving, NEW i \in WithStatus("decode"),
                      ~OutputReady(requests[i])
               PROVE  requests[i].consumed
                        < Confirmed(requests[i].output, requests[i].spec.stops)
    BY DEF PausedIsReadable
  <2> DEFINE r == requests[i]
  <2>1. Present(r) /\ r \in Request /\ ~OutputReady(r)
    BY GoodTyped DEF Inv, GoodTable, WithStatus
  <2> HIDE DEF r
  <2>2. r.output \in Seq(Vocab) /\ r.spec.stops \in SUBSET Seq(Vocab) /\ r.consumed \in Nat
    BY <2>1, PromptTyped DEF Request
  <2>3. MaxBuffered \in Nat \ {0} /\ \A s \in r.spec.stops : Len(s) <= MaxBuffered
    BY <2>1, EngineAssumption DEF Present, Sound
  <2>4. Len(r.output) - Confirmed(r.output, r.spec.stops) < MaxBuffered
    BY <2>2, <2>3, FewWithheld
  <2>5. Confirmed(r.output, r.spec.stops) \in 0..Len(r.output) /\ Len(r.output) \in Nat
    BY <2>2, ConfirmedIs, LenProperties
  <2>6. r.consumed < Confirmed(r.output, r.spec.stops)
    BY <2>1, <2>2, <2>3, <2>4, <2>5 DEF OutputReady
  <2> QED BY <2>6 DEF r
<1> QED
  BY <1>1, Invariance, PTL
=============================================================================
