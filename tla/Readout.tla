-------------------------------- MODULE Readout --------------------------------
(***************************************************************************)
(* From the logits of the head to a token: the fused greedy selections whose *)
(* partitions run in any order, the sampler, and the readout of a few        *)
(* chosen tokens.  Logits and the repetition penalty are doubled integers;    *)
(* the exponential is a number, zero where it underflows.                  *)
(***************************************************************************)
EXTENDS Work, RowRanges, FiniteSets, Sequences, SequencesExt

CONSTANTS
    Logits,         \* bounds: the doubled values a logit can have,
    Infinity,       \* a number that, negated, is below all of them,
    Exp,            \* what stands for their exponentials,
    Heads,          \* the heads: records [tile, tiles],
    Participants,   \* the threads of the executor, 0 where all logits are read,
    Counted,        \* how many tokens were generated before,
    TopKs,          \* top_k, 0 for all,
    TopPs,          \* top_p as pairs <<numerator, denominator>>
    Picks           \* and the token lists of selected readouts

\* (Fault) A penalised negative logit is divided too, and rises.
Penalised_Divides(v, counted) == IF counted THEN v \div 2 ELSE v

\* The penalty 2 on a token that was generated: towards the less likely.
Penalised(v, counted) == IF ~counted THEN v ELSE IF v > 0 THEN v \div 2 ELSE v * 2

ASSUME ReadoutAssumption ==
    /\ Logits \subseteq Int /\ Infinity \in Nat \ {0}
    /\ \A v \in Logits : v * 2 > 0 - Infinity
    /\ \A v \in Logits, counted \in BOOLEAN : Exp[Penalised(v, counted)] \in Nat
    /\ \A head \in Heads : head.tile \in Nat \ {0} /\ head.tiles \in Nat \ {0}
    /\ Participants \subseteq Nat /\ TopKs \subseteq Nat
    /\ \A top_p \in TopPs : top_p[1] \in Nat \ {0} /\ top_p[2] \in Nat /\ top_p[1] <= top_p[2]
    /\ \A tokens \in Picks : tokens \in Seq(Nat)

VocabRows(head) == 0..(head.tile * head.tiles - 1)
Below == [value |-> 0 - Infinity, index |-> 0]      \* minus infinity, token 0

Value(row) == Penalised(work.logits[row], work.penalty /\ row \in work.counted)
Candidate(row) == [value |-> Value(row), index |-> row]
CandidatesFrom(row, count) == [i \in 1..count |-> Candidate(row + i - 1)]

\* Replaces the best so far: a better one, and in batches a lower one of the same value.
Beats(candidate, best, batch) ==
    candidate.value > best.value \/ (batch /\ candidate.value = best.value /\ candidate.index < best.index)

\* One candidate after another.
BestOf(start, s, batch) ==
    LET best[i \in 0..Len(s)] ==
            IF i = 0 THEN start ELSE IF Beats(s[i], best[i - 1], batch) THEN s[i] ELSE best[i - 1]
    IN  best[Len(s)]

-----------------------------------------------------------------------------
(* Fused greedy selection.                                                  *)

\* The slot of a range, found from where it begins among those of all threads.
SlotOf(first, tiles, threads) ==
    CHOOSE p \in 0..(threads - 1) :
        /\ p = threads - 1 \/ Begin(tiles, threads, p) = first
        /\ \A q \in 0..(p - 1) : Begin(tiles, threads, q) # first

Active(tiles, threads) == IF threads < tiles THEN threads ELSE tiles

ReadoutInit ==
    \E head \in Heads, threads \in Participants, penalty, batch \in BOOLEAN :
    \E logits \in [VocabRows(head) -> Logits], counted \in SUBSET VocabRows(head) :
        /\ Cardinality(counted) \in Counted
        /\ batch => threads > 0
        /\ work = [part |-> "readout", head |-> head, threads |-> threads, batch |-> batch, logits |-> logits,
                   counted |-> counted, penalty |-> penalty, ran |-> {},
                   slots |-> [p \in 0..(threads - 1) |-> Below], by |-> "none", answer |-> <<>>]

Reading == Is("readout") /\ work.by = "none"
Filled(p, slot, best) == work' = [work EXCEPT !.ran = @ \cup {p}, !.slots[slot] = best]
Answered(by, answer) == work' = [work EXCEPT !.by = by, !.answer = answer]

\* The results of the slots, the first of them aside.
Others == [i \in 1..(work.threads - 1) |-> work.slots[i]]

\* run_packed_q4_argmax_tiles: the executor cuts the tiles among the active threads.
PartitionRead(p) ==
    /\ ~work.batch /\ p < Active(work.head.tiles, work.threads) /\ p \notin work.ran
    /\ LET active == Active(work.head.tiles, work.threads)
           first == Begin(work.head.tiles, active, p)
           behind == Begin(work.head.tiles, active, p + 1)
           row == first * work.head.tile
       IN  Filled(p, SlotOf(first, work.head.tiles, work.threads),
                  BestOf([value |-> 0 - Infinity, index |-> row],
                         CandidatesFrom(row, (behind - first) * work.head.tile), FALSE))

\* greedy_q4_token, when the job is over.
GreedyRead ==
    /\ Reading /\ ~work.batch /\ work.threads > 0 /\ work.ran = 0..(Active(work.head.tiles, work.threads) - 1)
    /\ Answered("greedy",
                <<BestOf(Below, [i \in 1..work.threads |-> work.slots[i - 1]], FALSE).index>>)

\* greedy_batch: a result for every worker, which may have no tile, and ties by token.
WorkerBegin(p) == (work.head.tiles * p) \div work.threads

WorkerRead(p) ==
    /\ work.batch /\ p \notin work.ran
    /\ LET first == WorkerBegin(p)
           behind == WorkerBegin(p + 1)
       IN  Filled(p, p, BestOf(Below, CandidatesFrom(first * work.head.tile, (behind - first) * work.head.tile), TRUE))

BatchRead ==
    /\ Reading /\ work.batch /\ work.ran = 0..(work.threads - 1)
    /\ Answered("greedy", <<BestOf(work.slots[0], Others, TRUE).index>>)

\* The heads without a fused kernel, and the greedy sampler: over all the logits.
LogitsRead ==
    /\ Reading /\ work.threads = 0
    /\ Answered("greedy", <<BestOf(Below, CandidatesFrom(0, work.head.tile * work.head.tiles), FALSE).index>>)

-----------------------------------------------------------------------------
(* The sampler above temperature 0.                                         *)

\* The sum of a number for each row of S, as the size of a set with that many members for it.
Summed(S, number) == Cardinality(UNION {{row} \X (1..number[row]) : row \in S})

MassOf(S) == Summed(S, [row \in VocabRows(work.head) |-> Exp[Value(row)]])

\* nth_element keeps k of the best; equal values at the border are its own choice.
BestKept(k) ==
    {S \in SUBSET VocabRows(work.head) :
        /\ Cardinality(S) = k
        /\ \A inside \in S, outside \in VocabRows(work.head) \ S : Value(inside) >= Value(outside)}

\* top_k 0 keeps all, and so does one that is not below the vocabulary.
KeptCount(k) ==
    LET all == Cardinality(VocabRows(work.head)) IN IF k = 0 \/ k > all THEN all ELSE k

\* Sorted, equal values in any order.
Ordered(S) ==
    {s \in SetToSeqs(S) : \A i, j \in DOMAIN s : i < j => Value(s[i]) >= Value(s[j])}

\* How many of s the nucleus keeps: the shortest prefix that holds top_p of the mass.
Holding(s, top_p) ==
    {n \in 1..Len(s) : MassOf({s[i] : i \in 1..n}) * top_p[2] >= MassOf(ToSet(s)) * top_p[1]}
NucleusSize(s, top_p) ==
    CHOOSE n \in Holding(s, top_p) : \A m \in Holding(s, top_p) : n <= m

\* sample_token_from_logits; the draw itself can hit any of the nucleus.
TokenDrawn ==
    /\ Reading /\ work.threads = 0
    /\ \E k \in TopKs, top_p \in TopPs :
       \E S \in BestKept(KeptCount(k)) :
       \E s \in Ordered(S) :
       \E i \in 1..NucleusSize(s, top_p) : Answered("drawn", <<s[i], k, top_p>>)

-----------------------------------------------------------------------------
(* The logits of a few tokens.                                              *)

\* The entries in the order of their tiles, each with where it was asked for.
TileOrder(tokens, tile) ==
    {s \in SetToSeqs({<<tokens[i] \div tile, i>> : i \in DOMAIN tokens}) :
        \A i, j \in DOMAIN s : i < j => s[i][1] < s[j][1] \/ (s[i][1] = s[j][1] /\ s[i][2] < s[j][2])}

\* Each entry takes its lane of its tile's product, and goes back to its place.
Scatter(order, tokens, tile) ==
    [i \in DOMAIN tokens |->
        LET entry == CHOOSE e \in ToSet(order) : e[2] = i
        IN  work.logits[entry[1] * tile + (tokens[entry[2]] % tile)]]

\* compute_selected_logits_from_embedding: one product for each tile, in order.
TokensPicked ==
    /\ Reading /\ work.threads = 0 /\ ~work.penalty
    /\ \E tokens \in Picks :
        /\ ToSet(tokens) \subseteq VocabRows(work.head)
        /\ \E order \in TileOrder(tokens, work.head.tile) :
              Answered("picked", <<tokens, Scatter(order, tokens, work.head.tile)>>)

ReadoutNext ==
    \/ Reading /\ \E p \in DOMAIN work.slots : PartitionRead(p) \/ WorkerRead(p)
    \/ GreedyRead \/ BatchRead \/ LogitsRead \/ TokenDrawn \/ TokensPicked

ReadoutSpec == ReadoutInit /\ [][ReadoutNext]_work

-----------------------------------------------------------------------------
(* Property.                                                                *)

\* What the rule of each readout promises, said without its algorithm.
Truly(row) ==
    LET v == work.logits[row] IN
    IF ~(work.penalty /\ row \in work.counted) THEN v ELSE IF v > 0 THEN v \div 2 ELSE v * 2
Above(row) == {r \in VocabRows(work.head) : Truly(r) > Truly(row)}

GreedyIsFirst(token) ==
    token \in VocabRows(work.head) /\ Above(token) = {} /\ \A r \in 0..(token - 1) : Truly(r) < Truly(token)

DrawnIsLikely(token, k, top_p) ==
    LET rows == VocabRows(work.head)
        Share(S) == Summed(S, [row \in rows |-> Exp[Truly(row)]])
    IN  /\ Cardinality(Above(token)) < k
        /\ \E S \in SUBSET rows :
              /\ Cardinality(S) = k /\ token \in S
              /\ \A r \in S, q \in rows \ S : Truly(r) >= Truly(q)
              /\ Above(token) = {} \/ Share(Above(token) \cap S) * top_p[2] < Share(S) * top_p[1]

\* However the head was cut among the threads, and fused or not, greedy gives the
\* first of the best penalised logits.  A drawn token is among the k best, and
\* the tokens strictly better than it hold less than top_p of their mass.  The
\* values of picked tokens stand where they were asked for.
ReadoutsAgree ==
    Is("readout") =>
        /\ work.by = "greedy" => GreedyIsFirst(work.answer[1])
        /\ work.by = "drawn" => DrawnIsLikely(work.answer[1], KeptCount(work.answer[2]), work.answer[3])
        /\ work.by = "picked" =>
               \A i \in DOMAIN work.answer[1] : work.answer[2][i] = work.logits[work.answer[1][i]]
=============================================================================
