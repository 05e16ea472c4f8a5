------------------------------- MODULE Attention -------------------------------
(***************************************************************************)
(* One call of a full attention layer: its rows, one per token and head, are *)
(* cut into partitions that run in any order, by one of four kernels.  A row *)
(* is what its softmax makes of it: the exponent, relative to the greatest    *)
(* score, with which each cached position counts.                           *)
(***************************************************************************)
EXTENDS Work, RowRanges, FiniteSetsExt, SequencesExt

CONSTANTS
    HeadPlans,          \* bounds: records [heads, kv_heads],
    MaxTokens,          \* tokens of a batch,
    Positions,          \* positions of its first token,
    MaxThreads,         \* threads
    Slopes,             \* and courses of the scores
    QueryTiles, LeastQueryTile, KvTile, RowLimit,   \* the code's 4, 8, 16; 4; 64; 128,
    FullDim, OddDim, Lanes      \* its head width of 256, another one, and its 8 or 16 lanes

Share(c) == c.heads \div c.kv_heads
Score(c, token, head, context, kv) == (context * c.slope + token + head + 2 * kv) % 5

-----------------------------------------------------------------------------
(* The cuts.                                                                *)

\* attention_row_work: the products of the first n rows; 64 bits have room for them.
RowWork(n, heads, position) ==
    LET tokens == n \div heads IN
    heads * (tokens * (position + 1) + (tokens * (tokens - 1)) \div 2)
        + (n % heads) * (position + tokens + 1)

\* The binary search: from low and high to where they meet.
Search(low, high, target, c) ==
    LET Meet[l \in low..high, h \in low..high] ==
            LET middle == l + (h - l) \div 2 IN
            IF l >= h THEN l
            ELSE IF RowWork(middle, c.heads, c.position) < target
                 THEN Meet[middle + 1, h] ELSE Meet[l, middle]
    IN  Meet[low, high]

Clamp(x, low, high) == IF x < low THEN low ELSE IF x > high THEN high ELSE x

AttentionRows(c) == c.tokens * c.heads

\* attention_partition_boundary: every partition keeps one row at least.
Boundary(p, c) ==
    IF p = 0 THEN 0 ELSE IF p >= c.parts THEN AttentionRows(c)
    ELSE Clamp(Search(0, AttentionRows(c), (RowWork(AttentionRows(c), c.heads, c.position) * p) \div c.parts, c),
               p, AttentionRows(c) - (c.parts - p))

BalancedRows(p, c) == Boundary(p, c) .. (Boundary(p + 1, c) - 1)

\* tiled_attention_tasks, and the rows of a task: a tile of tokens of a head or of a group.
HeadGroup(c) == IF c.share_gqa THEN Share(c) ELSE 1
TokenTiles(c) == (c.tokens + c.query_tile - 1) \div c.query_tile
TileTasks(c) == (IF c.share_gqa THEN c.kv_heads ELSE c.heads) * TokenTiles(c)
TileFirst(c, task) == (task % TokenTiles(c)) * c.query_tile
TileTokens(c, task) == Clamp(c.query_tile, 0, c.tokens - TileFirst(c, task))
TileHead(c, task) == (task \div TokenTiles(c)) * HeadGroup(c)

-----------------------------------------------------------------------------
(* The rows.                                                                *)

\* What one loop after another touches, each while a whole width is left.
Loops(n, widths) ==
    FoldLeft(LAMBDA touched, width :
                touched \o [i \in 1..(((n - Len(touched)) \div width) * width) |-> Len(touched) + i - 1],
             <<>>, widths)

Attended(token, head, weights, columns) ==
    [row |-> <<token, head>>, gate |-> <<token, head>>, weights |-> weights, columns |-> columns]

\* A kernel that keeps all the scores of a row: one maximum, then the exponents, by
\* the loops over its positions and its columns.
KeptRow(c, token, head, positions, columns) ==
    LET kv == head \div Share(c)
        Of(context) == Score(c, token, head, context, kv)
        maximum == Max({Of(context) : context \in Range(positions)})
    IN  Attended(token, head, [context \in Range(positions) |-> <<kv, Of(context) - maximum>>], columns)

\* causal_attention_batch_rows: in scalar code, and with vectors and what they leave over.
ScalarRow(c, token, head) ==
    KeptRow(c, token, head, Loops(c.position + token + 1, <<1>>), Loops(c.dim, <<1>>))
VectorRow(c, token, head) ==
    KeptRow(c, token, head, Loops(c.position + token + 1, <<Lanes, 1>>), Loops(c.dim, <<4 * Lanes, Lanes, 1>>))

\* Two heads of one key head at a decode position.
PairRow(c, head) ==
    KeptRow(c, 0, head, Loops(c.position + 1, <<Lanes, 1>>), Loops(c.dim, <<2 * Lanes, 1>>))

\* Four heads of one key head in the lanes of a vector.
Gqa4Row(c, token, kv, lane) ==
    KeptRow(c, token, kv * 4 + lane, Loops(c.position + token + 1, <<1>>), Loops(c.dim, <<4>>))

\* (Fault) The mask is that of the last token of the tile.
Valid_OfTile(c, task, token, base, count) ==
    Clamp(c.position + TileFirst(c, task) + TileTokens(c, task) - base, 0, count)

\* How many positions of the panel at base the row of a token may see.
Valid(c, task, token, base, count) == Clamp(c.position + token + 1 - base, 0, count)

\* tile_impl for one row: a panel of keys at a time, what was summed rescaled to a new maximum.
TiledRow(c, task, r) ==
    LET token == TileFirst(c, task) + (r \div HeadGroup(c))
        head == TileHead(c, task) + (r % HeadGroup(c))
        kv == TileHead(c, task) \div Share(c)
        end == c.position + TileFirst(c, task) + TileTokens(c, task)
        Panel(sum, base) ==
            LET count == Clamp(KvTile, 0, end - base)
                seen == base..(base + Valid(c, task, token, base, count) - 1)
                maximum == Max({sum.maximum} \cup {Score(c, token, head, k, kv) : k \in seen})
            IN  IF seen = {} THEN sum
                ELSE [maximum |-> maximum,
                      weights |-> [k \in DOMAIN sum.weights \cup seen |->
                        IF k \in seen THEN <<kv, Score(c, token, head, k, kv) - maximum>>
                        ELSE <<kv, sum.weights[k][2] + sum.maximum - maximum>>]]
        bases == [i \in 1..((end + KvTile - 1) \div KvTile) |-> (i - 1) * KvTile]
    IN  Attended(token, head, FoldLeft(Panel, [maximum |-> 0 - 100, weights |-> [k \in {} |-> <<0, 0>>]], bases).weights,
                 Loops(c.dim, <<2 * Lanes>>))

\* The rows of the units from low to below high, of each so many.
UnitRows(low, high, per_unit) ==
    [i \in 1..((high - low) * per_unit) |-> [unit |-> low + (i - 1) \div per_unit, row |-> (i - 1) % per_unit]]

\* What partition p of a kernel computes, in its order.
RowsOf(c, p) ==
    LET BatchRow(row) ==
            IF c.simd THEN VectorRow(c, row \div c.heads, row % c.heads)
                      ELSE ScalarRow(c, row \div c.heads, row % c.heads)
        Even(units, per_unit) == UnitRows(Begin(units, c.parts, p), Begin(units, c.parts, p + 1), per_unit)
        rows == IF c.balanced THEN UnitRows(Boundary(p, c), Boundary(p + 1, c), 1) ELSE Even(AttentionRows(c), 1)
        groups == c.tokens * c.kv_heads
        fours == UnitRows((groups * p) \div c.parts, (groups * (p + 1)) \div c.parts, 4)
        pairs == Even(c.heads \div 2, 2)
    IN
    CASE c.kernel = "rows" -> [i \in DOMAIN rows |-> BatchRow(rows[i].unit)]
      [] c.kernel = "gqa4" ->
            [i \in DOMAIN fours |->
                Gqa4Row(c, fours[i].unit \div c.kv_heads, fours[i].unit % c.kv_heads, fours[i].row)]
      [] c.kernel = "pairs" ->
            [i \in DOMAIN pairs |->
                LET head == 2 * pairs[i].unit + pairs[i].row IN IF c.simd THEN PairRow(c, head) ELSE BatchRow(head)]
      [] c.kernel = "tiled" ->
            FlattenSeq([i \in 1..((TileTasks(c) - p + c.parts - 1) \div c.parts) |->
                LET task == p + (i - 1) * c.parts IN
                [r \in 1..(TileTokens(c, task) * HeadGroup(c)) |-> TiledRow(c, task, r - 1)]])

-----------------------------------------------------------------------------
(* The call.                                                                *)

AtMost(n, threads) == IF n < threads THEN n ELSE threads

\* Shrunk until there is a task for every thread; then the heads go their own ways.
RECURSIVE Shrunk(_, _)
Shrunk(c, threads) ==
    CASE ~c.automatic \/ ~c.share_gqa \/ TileTasks(c) >= threads -> c
      [] c.query_tile > LeastQueryTile -> Shrunk([c EXCEPT !.query_tile = @ \div 2], threads)
      [] OTHER -> [c EXCEPT !.share_gqa = FALSE]

\* run_full_attention_batch_cpu_q8 and run_full_attention_step choose a kernel and its cut.
Planned(c, threads) ==
    LET tiled == c.tiled /\ (~c.automatic \/ c.position + c.tokens > RowLimit)
        gqa4 == c.gqa4 /\ c.tokens >= 4 /\ c.dim = FullDim /\ c.heads = 4 * c.kv_heads
        shrunk == Shrunk(c, threads)
    IN  CASE c.decode -> [c EXCEPT !.kernel = "pairs", !.parts = AtMost(c.heads \div 2, threads)]
          [] ~c.decode /\ gqa4 -> [c EXCEPT !.kernel = "gqa4", !.parts = AtMost(c.tokens * c.kv_heads, threads)]
          [] ~c.decode /\ ~gqa4 /\ tiled ->
                [shrunk EXCEPT !.kernel = "tiled", !.parts = AtMost(TileTasks(shrunk), threads)]
          [] OTHER -> [c EXCEPT !.kernel = "rows", !.parts = AtMost(AttentionRows(c), threads)]

\* The decode kernel reads two heads of one key head; a batch knows no decode.
AttentionInit ==
    \E heads \in HeadPlans, tokens \in 1..MaxTokens, position \in Positions, threads \in 1..MaxThreads,
       slope \in Slopes, tile \in QueryTiles, dim \in {FullDim, OddDim},
       simd, gqa4, tiled, automatic, share_gqa, balanced, decode \in BOOLEAN :
        /\ decode => tokens = 1 /\ (heads.heads \div heads.kv_heads) % 2 = 0
        /\ decode \/ gqa4 \/ ~tiled => ~automatic /\ ~share_gqa /\ tile = Min(QueryTiles)
        /\ decode \/ gqa4 \/ tiled => ~balanced
        /\ decode \/ gqa4 => ~tiled
        /\ decode => ~gqa4
        /\ gqa4 \/ tiled => dim = FullDim /\ ~simd
        /\ work = [part |-> "attention", done |-> {}, rows |-> {}, written |-> 0,
                   call |-> Planned([heads |-> heads.heads, kv_heads |-> heads.kv_heads, tokens |-> tokens,
                        position |-> position, slope |-> slope, dim |-> dim, simd |-> simd, query_tile |-> tile, share_gqa |-> share_gqa,
                        automatic |-> automatic, tiled |-> tiled, gqa4 |-> gqa4, balanced |-> balanced,
                        decode |-> decode, kernel |-> "rows", parts |-> 1], threads)]

\* A partition, with scratch of its own.
PartitionAttends(p) ==
    /\ Is("attention") /\ p \in 0..(work.call.parts - 1) /\ p \notin work.done
    /\ work' = [work EXCEPT !.done = @ \cup {p}, !.rows = @ \cup Range(RowsOf(work.call, p)),
                               !.written = @ + Len(RowsOf(work.call, p))]

AttentionNext == \E p \in 0..(MaxThreads - 1) : PartitionAttends(p)

-----------------------------------------------------------------------------
(* Property.                                                                *)

\* Whatever the kernel, the cut and the order of the partitions: no row is written
\* twice, and in the end every row is written; a row counts every position up to
\* its own and none behind it, each of its own key head, with its exponent against
\* the greatest score, and fills every column once; no woken thread is without a row; and the balanced cut
\* exceeds an equal share of the work by the heaviest row at most.
AttentionIsCausal ==
    Is("attention") =>
        LET c == work.call
            Cost(S) == MapThenSumSet(LAMBDA row : c.position + row \div c.heads + 1, S)
            all == 0..(AttentionRows(c) - 1)
        IN
        /\ Cardinality(work.rows) = work.written
        /\ work.done = 0..(c.parts - 1) =>
                {r.row : r \in work.rows} = (0..(c.tokens - 1)) \X (0..(c.heads - 1))
        /\ \A r \in work.rows :
              LET token == r.row[1]  head == r.row[2]
                  kv == head \div (c.heads \div c.kv_heads)
                  seen == 0..(c.position + token)
                  greatest == Max({Score(c, token, head, k, kv) : k \in seen})
              IN  /\ r.gate = <<token, head>>
                  /\ Len(r.columns) = c.dim /\ Range(r.columns) = 0..(c.dim - 1)
                  /\ r.weights = [k \in seen |-> <<kv, Score(c, token, head, k, kv) - greatest>>]
        /\ \A p \in 0..(c.parts - 1) : c.kernel = "rows" =>
              LET mine == IF c.balanced THEN BalancedRows(p, c) ELSE RowRange(AttentionRows(c), c.parts, p) IN
              /\ mine # {}
              /\ c.balanced => Cost(mine) <= (Cost(all) + c.parts - 1) \div c.parts + c.position + c.tokens
=============================================================================
