-------------------------------- MODULE Forward --------------------------------
(***************************************************************************)
(* The state a sequence carries through the forward pass, and the ways it is *)
(* advanced: a batch of prompt tokens, one decoded token, one token each of    *)
(* several sequences, a restored snapshot.  Arithmetic is symbolic: a value    *)
(* is the expression that made it, and equal expressions are equal values.   *)
(***************************************************************************)
EXTENDS Work, Integers, Sequences

CONSTANTS
    Prompts,        \* bounds: the tokens of each sequence,
    Layers,         \* the kinds of the layers,
    ConvKernels,    \* and the sizes of the convolution
    LinearHeads     \* the heads of a linear layer, each with one channel

ASSUME ForwardAssumption ==
    /\ \A s \in DOMAIN Prompts : Len(Prompts[s]) \in Nat /\ DOMAIN Prompts[s] = 1..Len(Prompts[s])
    /\ Layers \in Seq({"linear", "full"})
    /\ ConvKernels \subseteq Nat \ {0} /\ LinearHeads \in Nat

Heads0 == 0..(LinearHeads - 1)
Zero == <<>>

\* s itself, which TLC keeps when it was concatenated.
Tabled(s) == s \o <<>>
FirstTokens(s, n) == [p \in 1..n |-> Prompts[s][p]]

\* initialize: zero states, the ring at its first slot, room for the whole request.
Capacity(s) == Len(Prompts[s])
EmptyLayer(l, s, kernel, paged) ==
    IF Layers[l] = "linear"
    THEN [ring |-> 0, slots |-> [h \in Heads0 |-> [i \in 0..(kernel - 2) |-> Zero]],
          recurrent |-> [h \in Heads0 |-> Zero]]
    ELSE [rows |-> [p \in 1..(IF paged THEN 0 ELSE Capacity(s)) |-> Zero]]
EmptyState(s, kernel, paged) == [l \in DOMAIN Layers |-> EmptyLayer(l, s, kernel, paged)]

ForwardInit ==
    \E kernel \in ConvKernels, paged \in BOOLEAN :
        work = [part |-> "forward", kernel |-> kernel, paged |-> paged, snapshot |-> <<>>,
                seqs |-> [s \in DOMAIN Prompts |->
                    [at |-> 0, state |-> EmptyState(s, kernel, paged), hidden |-> Zero, failed |-> FALSE]]]

History == work.kernel - 1
Projected(l, x) == [h \in Heads0 |-> <<l, h, x>>]

-----------------------------------------------------------------------------
(* The kernels.                                                             *)

\* causal_conv1d_silu_f32 for one token of a channel: its ring from the oldest slot, then the input.
Window(slots, ring, input) ==
    [k \in 1..(History + 1) |-> IF k > History THEN input ELSE slots[(ring + k - 1) % History]]

Slotted(slots, ring, input) == IF History = 0 THEN slots ELSE [slots EXCEPT ![ring] = input]
NextSlot(ring) == IF History = 0 THEN ring ELSE (ring + 1) % History

\* The same over a batch of inputs: the outputs, and the channel's slots behind them.
ConvBatch(slots, ring, inputs, count) ==
    LET after[t \in 0..count] ==
            IF t = 0 THEN [slots |-> slots, ring |-> ring]
            ELSE LET c == after[t - 1] IN
                 [slots |-> Slotted(c.slots, c.ring, inputs[t]), ring |-> NextSlot(c.ring)]
    IN  [slots |-> after[count].slots,
         out |-> [t \in 1..count |-> LET c == after[t - 1] IN Window(c.slots, c.ring, inputs[t])]]

\* gated_delta_net_update_batch_rows for one head: the inputs stand head by head.
ScanHead(recurrent, h, inputs, count) ==
    LET after[t \in 0..count] == IF t = 0 THEN recurrent ELSE <<after[t - 1], inputs[h * count + t - 1]>>
    IN  [state |-> after[count], out |-> [t \in 1..count |-> after[t]]]

\* (Fault) The ring moves one slot for a whole batch.
RingAfter_One(ring, count) == IF History = 0 THEN ring ELSE (ring + 1) % History

RingAfter(ring, count) == IF History = 0 THEN ring ELSE (ring + (count % History)) % History

-----------------------------------------------------------------------------
(* The layers: a batch of one sequence, and a row of one token.             *)

\* run_linear_attention_batch_cpu_q8, its preparation per head before the scan.
LinearBatch(l, layer, xs, count) ==
    LET conv == [h \in Heads0 |->
                    ConvBatch(layer.slots[h], layer.ring, [t \in 1..count |-> Projected(l, xs[t])[h]], count)]
        prepared == [i \in 0..(LinearHeads * count - 1) |-> conv[i \div count].out[(i % count) + 1]]
        scan == [h \in Heads0 |-> ScanHead(layer.recurrent[h], h, prepared, count)]
    IN  [layer |-> [ring |-> RingAfter(layer.ring, count),
                    slots |-> [h \in Heads0 |-> conv[h].slots],
                    recurrent |-> [h \in Heads0 |-> scan[h].state]],
         out |-> [t \in 1..count |-> [h \in Heads0 |-> scan[h].out[t]]]]

\* run_linear_attention_step.
LinearRow(l, layer, x) ==
    LET input == Projected(l, x)
        core == [h \in Heads0 |-> <<layer.recurrent[h], Window(layer.slots[h], layer.ring, input[h])>>]
    IN  [layer |-> [ring |-> NextSlot(layer.ring),
                    slots |-> [h \in Heads0 |-> Slotted(layer.slots[h], layer.ring, input[h])],
                    recurrent |-> core],
         out |-> core]

\* The key and value rows behind a position: appended to the pages, or written in their places.
Stored(layer, position, rows, count) ==
    [rows |-> [p \in IF work.paged THEN 1..(position + count) ELSE DOMAIN layer.rows |->
                IF p > position /\ p <= position + count THEN rows[p - position] ELSE layer.rows[p]]]
StoreFits(layer, position) == work.paged => Len(layer.rows) = position

Attends(layer, position, x) == <<"attention", position, x, [p \in 1..(position + 1) |-> layer.rows[p]]>>

\* run_full_attention_batch_cpu_q8: first all the rows of the batch, then all its queries.
FullBatch(layer, position, xs, count) ==
    LET after == Stored(layer, position, [t \in 1..count |-> <<position + t - 1, xs[t]>>], count)
    IN  [layer |-> after, out |-> [t \in 1..count |-> Attends(after, position + t - 1, xs[t])]]

\* run_full_attention_step.
FullRow(layer, position, x) ==
    LET after == Stored(layer, position, <<<<position, x>>>>, 1)
    IN  [layer |-> after, out |-> Attends(after, position, x)]

\* Residual and MLP: a function of the row.
Residual(x, out) == <<x, out>>

LayerBatch(l, layer, position, xs, count) ==
    IF Layers[l] = "linear" THEN LinearBatch(l, layer, xs, count) ELSE FullBatch(layer, position, xs, count)

\* run_forward_cpu_q8_batch: layer after layer, each for the whole batch.
BatchForward(seq, tokens, count) ==
    LET xs[l \in 0..Len(Layers)] ==
            IF l = 0 THEN tokens
            ELSE LET x == xs[l - 1]
                     out == LayerBatch(l, seq.state[l], seq.at, x, count).out
                 IN  Tabled([t \in 1..count |-> Residual(x[t], out[t])])
    IN  [state |-> [l \in DOMAIN Layers |-> LayerBatch(l, seq.state[l], seq.at, xs[l - 1], count).layer],
         hidden |-> xs[Len(Layers)][count]]

LayerRow(l, layer, position, x) ==
    IF Layers[l] = "linear" THEN LinearRow(l, layer, x) ELSE FullRow(layer, position, x)

\* forward_batch: one token of each row; every layer reads a row's own state and position.
RowsForward(rows) ==
    LET seq == work.seqs
        xs[l \in 0..Len(Layers)] ==
            [s \in rows |->
                IF l = 0 THEN Prompts[s][seq[s].at + 1]
                ELSE LET x == xs[l - 1][s] IN Residual(x, LayerRow(l, seq[s].state[l], seq[s].at, x).out)]
    IN  [s \in rows |->
            [state |-> [l \in DOMAIN Layers |-> LayerRow(l, seq[s].state[l], seq[s].at, xs[l - 1][s]).layer],
             hidden |-> xs[Len(Layers)][s]]]

\* run_forward_single_token: the same layers for one row.
TokenForward(s) == RowsForward({s})[s]

-----------------------------------------------------------------------------
(* The steps.                                                               *)

Runs(s) == ~work.seqs[s].failed
Left(s) == Len(Prompts[s]) - work.seqs[s].at
Appends(s) == \A l \in DOMAIN Layers :
    Layers[l] = "full" => StoreFits(work.seqs[s].state[l], work.seqs[s].at)

Advanced(seq, count, f) == [seq EXCEPT !.at = @ + count, !.state = f.state, !.hidden = f.hidden]
Failed(seq, state) == [seq EXCEPT !.failed = TRUE, !.state = state]

\* A prefill chunk.
BatchForwarded(s) ==
    /\ Is("forward") /\ Runs(s) /\ Appends(s)
    /\ \E count \in 1..Left(s) :
        LET tokens == [t \in 1..count |-> Prompts[s][work.seqs[s].at + t]]
        IN  work' = [work EXCEPT !.seqs[s] = Advanced(@, count, BatchForward(@, tokens, count))]

\* One decoded token.
TokenForwarded(s) ==
    /\ Is("forward") /\ Runs(s) /\ Appends(s) /\ Left(s) > 0
    /\ work' = [work EXCEPT !.seqs[s] = Advanced(@, 1, TokenForward(s))]

\* One token of every row, on the pool's threads or one row after the other.
RowsForwarded ==
    /\ Is("forward") /\ \A s \in DOMAIN Prompts : Runs(s) /\ Appends(s) /\ Left(s) > 0
    /\ LET f == RowsForward(DOMAIN Prompts)
       IN  work' = [work EXCEPT !.seqs = [s \in DOMAIN Prompts |-> Advanced(@[s], 1, f[s])]]

\* state_batch: the row of one worker throws in some layer, the others went on in it.
\* The whole batch is failed; what its states hold is not used again.
RowsFail(s) ==
    /\ Is("forward") /\ \A r \in DOMAIN Prompts : Runs(r) /\ Left(r) > 0
    /\ LET seq == work.seqs
           passed(r) == LayerRow(1, seq[r].state[1], seq[r].at, Prompts[r][seq[r].at + 1]).layer
           state(r) == IF r = s THEN seq[r].state ELSE [seq[r].state EXCEPT ![1] = passed(r)]
       IN  work' = [work EXCEPT !.seqs = [r \in DOMAIN Prompts |-> Failed(seq[r], state(r))]]

\* capture_cpu_prefix_state: the rows of the prefix, the ring with its position.
Captured(s) ==
    /\ Is("forward") /\ Runs(s) /\ work.seqs[s].at > 0 /\ work.snapshot = <<>>
    /\ LET seq == work.seqs[s] IN
        work' = [work EXCEPT !.snapshot =
            <<[count |-> seq.at, tokens |-> FirstTokens(s, seq.at), hidden |-> seq.hidden,
               state |-> [l \in DOMAIN Layers |->
                    IF Layers[l] = "linear" THEN seq.state[l]
                    ELSE [rows |-> [p \in 1..seq.at |-> seq.state[l].rows[p]]]]]>>]

\* restore_cpu_prefix_state for a layer.
Restored(kind, source, destination) ==
    CASE kind = "linear" -> source
      [] kind = "full" /\ work.paged -> source
      [] OTHER -> [rows |-> [p \in DOMAIN destination.rows |->
                        IF p \in DOMAIN source.rows THEN source.rows[p] ELSE destination.rows[p]]]

\* A sequence that begins with the tokens of the snapshot takes it before its first step.
SnapshotRestored(s) ==
    /\ Is("forward") /\ Runs(s) /\ work.seqs[s].at = 0 /\ work.snapshot # <<>>
    /\ LET snapshot == work.snapshot[1]
           layers == [l \in DOMAIN Layers |-> Restored(Layers[l], snapshot.state[l], work.seqs[s].state[l])]
       IN  /\ snapshot.count <= Len(Prompts[s]) /\ snapshot.tokens = FirstTokens(s, snapshot.count)
           /\ work' = [work EXCEPT !.seqs[s] =
                    Advanced(@, snapshot.count, [state |-> layers, hidden |-> snapshot.hidden])]

ForwardNext ==
    \/ \E s \in DOMAIN Prompts :
        BatchForwarded(s) \/ TokenForwarded(s) \/ RowsFail(s) \/ Captured(s) \/ SnapshotRestored(s)
    \/ RowsForwarded

ForwardSpec == ForwardInit /\ [][ForwardNext]_work

-----------------------------------------------------------------------------
(* Property.                                                                *)

\* The inputs a channel has seen up to position p, the last kernel of them.
TrueWindow(kernel, l, h, xs, p) ==
    [k \in 1..kernel |-> IF p - kernel + k < 1 THEN Zero ELSE <<l, h, xs[p - kernel + k]>>]
TrueState(kernel, l, h, xs, p) ==
    LET after[q \in 0..p] == IF q = 0 THEN Zero ELSE <<after[q - 1], TrueWindow(kernel, l, h, xs, q)>>
    IN  after[p]
TrueRows(xs, p) == [q \in 1..p |-> <<q - 1, xs[q]>>]

TrueOut(kernel, l, xs, p) ==
    IF Layers[l] = "linear" THEN [h \in Heads0 |-> TrueState(kernel, l, h, xs, p)]
    ELSE <<"attention", p - 1, xs[p], TrueRows(xs, p)>>

\* What each layer leaves at every position, from the n tokens alone.
TrueInputs(kernel, tokens, n) ==
    LET xs[l \in 0..Len(Layers)] ==
            IF l = 0 THEN tokens
            ELSE LET x == xs[l - 1] IN Tabled([p \in 1..n |-> Residual(x[p], TrueOut(kernel, l, x, p))])
    IN  xs

\* However prompt tokens were cut into batches, mixed with single and joint steps and
\* cut short by a restored snapshot, every state is that of its tokens one after the
\* other: the ring holds the last inputs in their order, the recurrent state the whole
\* history, the cache a row for each position, and the last hidden row is theirs.
PrefillIsDecode ==
    Is("forward") =>
        \A s \in DOMAIN Prompts :
            LET seq == work.seqs[s]
                xs == TrueInputs(work.kernel, FirstTokens(s, seq.at), seq.at)
            IN  Runs(s) /\ seq.at > 0 =>
                /\ seq.hidden = xs[Len(Layers)][seq.at]
                /\ \A l \in DOMAIN Layers :
                    LET layer == seq.state[l] IN
                    IF Layers[l] = "linear"
                    THEN \A h \in Heads0 :
                            /\ layer.recurrent[h] = TrueState(work.kernel, l, h, xs[l - 1], seq.at)
                            /\ \A k \in 1..History :
                                layer.slots[h][(layer.ring + k - 1) % History]
                                    = TrueWindow(work.kernel, l, h, xs[l - 1], seq.at)[k + 1]
                    ELSE [p \in 1..seq.at |-> layer.rows[p]] = TrueRows(xs[l - 1], seq.at)
=============================================================================
