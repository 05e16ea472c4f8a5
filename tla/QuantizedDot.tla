------------------------------ MODULE QuantizedDot ------------------------------
(***************************************************************************)
(* The products of quantized weights and activations.  Each layout of the    *)
(* weights has a kernel per instruction set; all of them are to make, for     *)
(* every row and token, the sum the layout's definition says.  One block of    *)
(* 32 values is computed lane by lane with the widths the instructions have;  *)
(* a whole product is the tiles its loops visit and the operands they read.    *)
(***************************************************************************)
EXTENDS KernelDispatch, VectorLanes, SequencesExt

CONSTANTS
    WeightCourses,      \* bounds: the courses of the weights,
    ActivationCourses,  \* and of the activations,
    RowCounts,          \* rows
    TokenCounts,        \* and tokens of a product
    WideBatch           \* the code's 64 tokens from which its widest tile pays

RECURSIVE Sum(_, _)
Sum(v, n) == IF n = 0 THEN 0 ELSE v[n - 1] + Sum(v, n - 1)
Total(v, from, n) == Sum([i \in Upto(n) |-> v[from + i]], n)

\* The courses: 0 is the extreme; a weight of 4 bits is its code, of 8 bits its value.
Code(course, row, k) == IF course = 0 THEN 15 ELSE ((course * row) + (k * k) + (row * k)) % 16
SignedCode(course, row, k) ==
    CASE course = 0 -> 127 [] course = 1 -> 0 - 127
      [] OTHER -> (((course * 31 * row) + (k * k * 5) + (row * k)) % 255) - 127
Activations(course) == [k \in Upto(32) |-> SignedCode(course, 1, k)]

-----------------------------------------------------------------------------
(* The layouts: one block of each of eight rows. *)

Canonical(course, row) == [i \in Upto(16) |-> Code(course, row, i) + (16 * Code(course, row, i + 16))]

\* Eight rows side by side, eight bytes of a row at a time.
PackedX8(course) ==
    [i \in Upto(128) |-> Canonical(course, (i % 64) \div 8)[(8 * (i \div 64)) + (i % 8)]]

\* Four values of each row at a time; a byte holds the values k and k + 4.
PackedDot4(course, first) ==
    [i \in Upto(128) |->
        LET row == first + ((i % 32) \div 4)  k == (8 * (i \div 32)) + (i % 4)
        IN  Code(course, row, k) + (16 * Code(course, row, k + 4))]

\* q4_dot4_unpack_rows_8, and how the scalar kernels and the row of an embedding read it.
Dot4Code(packed, row, k) == (packed[(32 * (k \div 8)) + (4 * row) + (k % 4)] \div 16^((k % 8) \div 4)) % 16
X8Code(packed, row, k) == (packed[(64 * ((k % 16) \div 8)) + (8 * row) + (k % 8)] \div 16^(k \div 16)) % 16

-----------------------------------------------------------------------------
(* One block in the lanes of each kernel: for each row the dot, or the two of  *)
(* the halves, and the row whose scale it meets.                              *)

Natural(dots) == [row \in DOMAIN dots |-> [scale |-> row, dots |-> <<dots[row]>>]]

ScalarRows(codes, a) ==
    Natural([row \in Upto(8) |-> Sum([k \in Upto(32) |-> (codes[row, k] - 8) * a[k]], 32)])

\* The lanes of an x8 accumulator: 0 4 1 5 2 6 3 7 until the last permutation.
RowOrder == <<0, 4, 1, 5, 2, 6, 3, 7>>
FinalOrder == <<0, 2, 4, 6, 1, 3, 5, 7>>
InRowOrder(dots, a) ==
    Permuted([lane \in Upto(8) |-> [scale |-> RowOrder[lane + 1], dots |-> <<dots[lane] - (8 * Total(a, 0, 32))>>]],
             FinalOrder)

\* accumulate_packed_block_x8
X8Avx2(w, a) ==
    LET Pairs(rows) ==
            LET Of(v, at) == PairProducts(v, Broadcast(a, at, 8, 32))
                raw(chunk) == Load(w, (64 * chunk) + rows, 32)
            IN  AddWords(AddWords(Of(LowNibbles(raw(0)), 0), Of(LowNibbles(raw(1)), 8)),
                         AddWords(Of(HighNibbles(raw(0)), 16), Of(HighNibbles(raw(1)), 24)))
    IN  InRowOrder(Shuffled(HorizontalAdd(AddPairs(Pairs(0)), AddPairs(Pairs(32))), <<0, 2, 1, 3>>), a)

\* accumulate_packed_block_x8_vnni and accumulate_token
X8Vnni(w, a) ==
    LET Decoded(step, rows) ==
            LET raw == Load(w, (64 * (step % 2)) + rows, 32)
            IN  IF step < 2 THEN LowNibbles(raw) ELSE HighNibbles(raw)
        swapped == <<1, 0, 3, 2>>
        Combined(step, first) ==
            IF first THEN OddWordsOf(ShuffledBytes(Decoded(step, 0), swapped), Decoded(step, 32))
                     ELSE OddWordsOf(Decoded(step, 0), ShuffledBytes(Decoded(step, 32), swapped))
        Half(step) == Broadcast(a, 16 * (step \div 2), 16, 32)
        Step(step, first) ==
            LET j == (2 * (step % 2)) + (IF first THEN 1 ELSE 0)
            IN  FourProducts(Combined(step, first), ShuffledBytes(Half(step), <<j, j, j, j>>))
        Both(step) == Added(Step(step, FALSE), Step(step, TRUE))
    IN  InRowOrder(Added(Added(Both(0), Both(1)), Added(Both(2), Both(3))), a)

\* The chunks first..last of a DOT4 block in the lanes of eight rows, or sixteen.
Dot4Pairs(raw, a, first, last) ==
    LET n == IF 63 \in DOMAIN raw[first] THEN 64 ELSE 32
        Add(pairs, chunk) ==
            AddWords(AddWords(pairs, PairProducts(LowNibbles(raw[chunk]), Broadcast(a, 8 * chunk, 4, n))),
                     PairProducts(HighNibbles(raw[chunk]), Broadcast(a, (8 * chunk) + 4, 4, n)))
    IN  AddPairs(FoldLeft(Add, [i \in Upto(n \div 2) |-> 0], [i \in 1..(last - first + 1) |-> first + i - 1]))
Dot4Fours(raw, a, first, last) ==
    LET n == IF 63 \in DOMAIN raw[first] THEN 64 ELSE 32
        Add(dots, chunk) ==
            Added(Added(dots, FourProducts(LowNibbles(raw[chunk]), Broadcast(a, 8 * chunk, 4, n))),
                  FourProducts(HighNibbles(raw[chunk]), Broadcast(a, (8 * chunk) + 4, 4, n)))
    IN  FoldLeft(Add, [i \in Upto(n \div 4) |-> 0], [i \in 1..(last - first + 1) |-> first + i - 1])
Chunks4(w) == [chunk \in 0..3 |-> Load(w, 32 * chunk, 32)]
Chunks4Wide(w, next) == [chunk \in 0..3 |-> Paired(Load(w, 32 * chunk, 32), Load(next, 32 * chunk, 32))]

Dot4Of(dots, a) == Natural([row \in DOMAIN dots |-> dots[row] - (8 * Total(a, 0, 32))])

\* half_tile, half_dot_block and tile: four rows at a time.  The relaxed dot is bounded and exact.
Dot4Wasm(w, a, relaxed) ==
    LET Rows(half) ==
            LET Group(group) ==
                    LET raw == Load(w, (32 * group) + (16 * half), 16)
                        fit(v) == IF relaxed THEN v ELSE Minus(v, 8)
                        low == fit(LowNibbles(raw))  high == fit(HighNibbles(raw))
                        b(at) == Broadcast(a, (8 * group) + at, 4, 16)
                        Relaxed(v, at) == AddPairs(PairProducts(v, b(at)))
                        Extended(v, at) == AddPairs([i \in Upto(8) |-> (v[2 * i] * b(at)[2 * i]) + (v[(2 * i) + 1] * b(at)[(2 * i) + 1])])
                    IN  IF relaxed THEN Added(Relaxed(low, 0), Relaxed(high, 4))
                                   ELSE Added(Extended(low, 0), Extended(high, 4))
                dots == Added(Added(Group(0), Group(1)), Added(Group(2), Group(3)))
            IN  IF relaxed THEN Minus(dots, 8 * Total(a, 0, 32)) ELSE dots
    IN  Natural(Paired(Rows(0), Rows(1)))

\* (Fault) The correction of a half is the one of the block.
HalfSum_Block(a, half) == Total(a, 0, 32)

\* What q4_g16_pack_activations sums: the values a half corrects for.
HalfSum(a, half) == Total(a, 16 * half, 16)

\* The halves of a G16 block have scales of their own: two chunks, and a correction, for each.
G16Of(first, second, a) ==
    [row \in DOMAIN first |->
        [scale |-> row, dots |-> <<first[row] - (8 * HalfSum(a, 0)), second[row] - (8 * HalfSum(a, 1))>>]]

\* unpack_q4_0, and the signed products of AVX2: the sign of one operand moves to the other.
Unpacked(block) == Paired(Minus(LowNibbles(block), 8), Minus(HighNibbles(block), 8))
SignedPairs(magnitude, other) == AddPairs(PairProducts(Abs(magnitude), Signed(other, magnitude)))
SignedFours(magnitude, other) == FourProducts(Abs(magnitude), Signed(other, magnitude))
Q4Avx2(course, a) ==
    Natural([row \in Upto(8) |-> Sum(SignedPairs(a, Unpacked(Canonical(course, row))), 8)])

Q8Row(course, row) == [k \in Upto(32) |-> SignedCode(course, row, k)]
Q8Scalar(course, a) == Natural([row \in Upto(8) |-> Sum([k \in Upto(32) |-> Q8Row(course, row)[k] * a[k]], 32)])
\* A vector's products keep its magnitude, those of a batch the weights'.
SignedProducts(vnni, magnitude, other) ==
    IF vnni THEN SignedFours(magnitude, other) ELSE SignedPairs(magnitude, other)
Q8Vector(vnni, course, a) == Natural([row \in Upto(8) |-> Sum(SignedProducts(vnni, a, Q8Row(course, row)), 8)])
Q8Batch(vnni, course, a) == Natural([row \in Upto(8) |-> Sum(SignedProducts(vnni, Q8Row(course, row), a), 8)])

Blocks == {<<"q4_0", "scalar">>, <<"q4_0", "avx2">>, <<"x8", "scalar">>, <<"x8", "avx2">>, <<"x8", "avx_vnni">>,
           <<"dot4", "scalar">>, <<"dot4", "avx2">>, <<"dot4", "avx_vnni">>, <<"dot4", "avx512_vnni">>,
           <<"dot4", "wasm_simd">>, <<"dot4", "wasm_relaxed">>, <<"g16", "scalar">>, <<"g16", "avx2">>,
           <<"g16", "avx512_vnni">>, <<"q8_0", "scalar">>, <<"q8_0", "vector">>, <<"q8_0", "batch">>,
           <<"q8_0", "vnni vector">>, <<"q8_0", "vnni batch">>}

BlockDots(layout, kernel, course, a) ==
    LET dot4 == PackedDot4(course, 0)  x8 == PackedX8(course)
        wide == Chunks4Wide(dot4, PackedDot4(course, 8))
    IN  CASE kernel = "scalar" /\ layout = "q4_0" ->
                 ScalarRows([row \in Upto(8), k \in Upto(32) |-> (Canonical(course, row)[k % 16] \div 16^(k \div 16)) % 16], a)
          [] kernel = "scalar" /\ layout = "x8" -> ScalarRows([row \in Upto(8), k \in Upto(32) |-> X8Code(x8, row, k)], a)
          [] kernel = "scalar" /\ layout = "dot4" -> ScalarRows([row \in Upto(8), k \in Upto(32) |-> Dot4Code(dot4, row, k)], a)
          [] layout = "q4_0" /\ kernel = "avx2" -> Q4Avx2(course, a)
          [] layout = "x8" /\ kernel = "avx2" -> X8Avx2(x8, a)
          [] layout = "x8" /\ kernel = "avx_vnni" -> X8Vnni(x8, a)
          [] layout = "dot4" /\ kernel = "avx2" -> Dot4Of(Dot4Pairs(Chunks4(dot4), a, 0, 3), a)
          [] layout = "dot4" /\ kernel = "avx_vnni" -> Dot4Of(Dot4Fours(Chunks4(dot4), a, 0, 3), a)
          [] layout = "dot4" /\ kernel = "avx512_vnni" -> Dot4Of(Dot4Fours(wide, a, 0, 3), a)
          [] layout = "dot4" -> Dot4Wasm(dot4, a, kernel = "wasm_relaxed")
          [] layout = "g16" /\ kernel = "scalar" ->
                 [row \in Upto(8) |-> [scale |-> row, dots |->
                     [half \in 1..2 |-> Sum([i \in Upto(16) |->
                         LET k == (16 * (half - 1)) + i IN (Dot4Code(dot4, row, k) - 8) * a[k]], 16)]]]
          [] layout = "g16" /\ kernel = "avx2" -> G16Of(Dot4Pairs(Chunks4(dot4), a, 0, 1), Dot4Pairs(Chunks4(dot4), a, 2, 3), a)
          [] layout = "g16" -> G16Of(Dot4Fours(wide, a, 0, 1), Dot4Fours(wide, a, 2, 3), a)
          [] kernel = "scalar" -> Q8Scalar(course, a)
          [] kernel = "vector" -> Q8Vector(FALSE, course, a)
          [] kernel = "batch" -> Q8Batch(FALSE, course, a)
          [] kernel = "vnni vector" -> Q8Vector(TRUE, course, a)
          [] OTHER -> Q8Batch(TRUE, course, a)

-----------------------------------------------------------------------------
(* K-quants: the codes of the 32 values of a group, out of a block's bytes. *)

KTypes == {"q8_0", "q4_k", "q5_k", "q6_k"}
KBytes(course) == [i \in Upto(272) |-> ((course * 37 * i) + (i * i) + (course * 255)) % 256]
SignedByte(b) == Wrap(b, 128)
Bits(b, at, n) == (b \div 2^at) % 2^n

\* k_scale_min
ScaleMin(w, g) ==
    LET s(i) == w[4 + i]
    IN  IF g < 4 THEN <<s(g) % 64, s(g + 4) % 64>>
        ELSE <<(s(g + 4) % 16) + (16 * Bits(s(g - 4), 6, 2)), (s(g + 4) \div 16) + (16 * Bits(s(g), 6, 2))>>
LowAt(type, g) ==
    CASE type = "q8_0" -> (g * 34) + 2 [] type = "q6_k" -> ((g \div 4) * 64) + ((g % 2) * 32)
      [] type = "q5_k" -> 48 + ((g \div 2) * 32) [] OTHER -> 16 + ((g \div 2) * 32)
LowShift(type, g) == IF type = "q6_k" THEN (IF g % 4 >= 2 THEN 4 ELSE 0) ELSE 4 * (g % 2)
HighAt(g) == 128 + ((g \div 4) * 32)

\* k_group, value by value, and dot_rows, in lanes.
KCode(w, type, g, i) ==
    LET low == Bits(w[LowAt(type, g) + i], LowShift(type, g), 4)
    IN  CASE type = "q8_0" -> SignedByte(w[LowAt(type, g) + i])
          [] type = "q4_k" -> low
          [] type = "q5_k" -> low + (16 * Bits(w[16 + i], g, 1))
          [] OTHER -> low + (16 * Bits(w[HighAt(g) + i], 2 * (g % 4), 2)) - 32
KLanes(w, type, g) ==
    LET raw == Load(w, LowAt(type, g), 32)
        low == Masked(ShiftedWords(raw, LowShift(type, g)), 4)
        \* an addition stands for the OR of bits that do not overlap
        Above(at, shift, bits) == [i \in Upto(32) |-> 16 * Masked(ShiftedWords(Load(w, at, 32), shift), bits)[i]]
    IN  CASE type = "q8_0" -> [i \in Upto(32) |-> SignedByte(raw[i])]
          [] type = "q4_k" -> low
          [] type = "q5_k" -> Added(low, Above(16, g, 1))
          [] OTHER -> Minus(Added(low, Above(HighAt(g), 2 * (g % 4), 2)), 32)

\* The scales: of the group, of its two halves, and what the sum of the activations is taken by.
KScales(w, type, g) ==
    CASE type = "q8_0" -> <<1, 1, 0>>
      [] type = "q6_k" -> <<SignedByte(w[192 + (2 * g)]), SignedByte(w[193 + (2 * g)]), 0>>
      [] OTHER -> LET s == ScaleMin(w, g) IN <<s[1], s[1], 0 - s[2]>>

\* The values of a group as they reach the accumulators: in halves scalar, in lanes under AVX2.
KScalarDot(w, type, g, a) ==
    LET s == KScales(w, type, g)
        Dot(half) == Sum([i \in Upto(16) |-> KCode(w, type, g, i + (16 * half)) * a[i + (16 * half)]], 16)
    IN  (s[1] * Dot(0)) + (s[2] * Dot(1)) + (s[3] * (Total(a, 0, 16) + Total(a, 16, 16)))
KAvx2Dot(w, type, g, a) ==
    LET s == KScales(w, type, g)  codes == KLanes(w, type, g)
        dots == IF type \in {"q6_k", "q8_0"} THEN SignedPairs(codes, a) ELSE AddPairs(PairProducts(codes, a))
    IN  Sum([lane \in Upto(8) |-> s[(lane \div 4) + 1] * dots[lane]], 8) + (s[3] * Total(a, 0, 32))

-----------------------------------------------------------------------------
(* The quantizers of activations, on values that are scaled already, in        *)
(* quarters: rounding half away from zero, the bound of 127, and the order     *)
(* in which packed registers leave their lanes.                               *)

Quarters(course) == [k \in Upto(32) |-> IF course = 0 THEN 4 * 127 ELSE (((k * k * 7 * course) + (k * 61)) % 1025) - 512]
Clamped(x) == IF x > 127 THEN 127 ELSE IF x < 0 - 127 THEN 0 - 127 ELSE x
Toward0(n, d) == IF n < 0 THEN 0 - ((0 - n) \div d) ELSE n \div d
RoundedScalar(q) == Clamped(IF q < 0 THEN 0 - ((2 - q) \div 4) ELSE (q + 2) \div 4)
RoundedAvx2(q) == Clamped(Toward0(IF q < 0 THEN q - 2 ELSE q + 2, 4))
RoundedWasm(q) ==
    LET t == Toward0(q, 4)  residual == q - (4 * t)
    IN  Clamped(IF residual >= 2 THEN t + 1 ELSE IF residual <= 0 - 2 THEN t - 1 ELSE t)

QuantizedBy(kernel, quarters) ==
    CASE kernel = "scalar" -> [k \in Upto(32) |-> RoundedScalar(quarters[k])]
      [] kernel = "wasm_simd" -> [k \in Upto(32) |-> RoundedWasm(quarters[k])]
      [] OTHER ->
             LET I(j) == [i \in Upto(8) |-> RoundedAvx2(quarters[(8 * j) + i])]
                 bytes == Packed(Packed(I(0), I(1), 32768), Packed(I(2), I(3), 32768), 128)
             IN  [k \in Upto(32) |-> bytes[(4 * RowOrder[(k \div 4) + 1]) + (k % 4)]]

-----------------------------------------------------------------------------
(* The tiles of a product: [row, rows, token, tokens], and where a tile looks  *)
(* for its activations.                                                       *)

RECURSIVE Steps(_, _, _)
\* The loops `for (; at + n <= end; at += n)` for each n of sizes in turn.
Steps(at, end, sizes) ==
    IF sizes = <<>> THEN <<>>
    ELSE IF at + sizes[1] <= end THEN <<[at |-> at, n |-> sizes[1]]>> \o Steps(at + sizes[1], end, sizes)
    ELSE Steps(at, end, Tail(sizes))

TilesOf(rows, tokens) ==
    FlattenSeq([i \in DOMAIN rows |->
        [j \in DOMAIN tokens |-> [row |-> rows[i].at, rows |-> rows[i].n, token |-> tokens[j].at, tokens |-> tokens[j].n]]])
Grid(rowCount, count, rowSizes, tokenSizes) == TilesOf(Steps(0, rowCount, rowSizes), Steps(0, count, tokenSizes))

\* Sixteen tokens at a time, the last group as long as it is.
Grouped(count, sizes) ==
    FlattenSeq([g \in 1..((count + 15) \div 16) |->
        Steps(16 * (g - 1), IF 16 * g < count THEN 16 * g ELSE count, sizes)])
\* Pairs of row tiles in wide registers, a last single one in narrow ones.
WideThen(rowCount, wide, narrow) ==
    LET paired == SelectSeq(Steps(0, rowCount, <<16, 8>>), LAMBDA s : s.n = 16)
        single == SelectSeq(Steps(0, rowCount, <<16, 8>>), LAMBDA s : s.n = 8)
    IN  TilesOf(paired, wide) \o TilesOf(single, narrow)

Vectors4 == {"x8 scalar", "x8 avx2", "x8 avx512_vnni", "dot4 avx2", "dot4 evex", "dot4 avx512_vnni"}
Singles == {"q8 vector", "q8 vnni vector", "q4 vector"}
Products == Vectors4 \cup Singles \cup
    {"dot4 wasm", "dot4 relaxed", "g16 avx2", "g16 evex", "g16 avx512_vnni", "q8 batch", "q8 vnni batch", "q4 batch"}
Ragged == {"q8 vector", "q8 vnni vector", "q4 vector", "q8 batch", "q8 vnni batch", "q4 batch"}

Tiles(product, rows, count) ==
    CASE product = "x8 scalar" -> Grid(rows, count, <<8>>, <<4>>)
      [] product = "x8 avx2" -> Grid(rows, count, <<8>>, <<8, 4>>)
      [] product = "x8 avx512_vnni" -> Grid(rows, count, <<8>>, <<16, 8, 4>>)
      [] product = "dot4 avx2" -> Grid(rows, count, <<8>>, <<4>>)
      [] product = "dot4 evex" -> Grid(rows, count, <<8>>, <<16, 4>>)
      [] product = "dot4 avx512_vnni" ->
             IF count < 8 THEN Grid(rows, count, <<8>>, <<16, 4>>)
             ELSE WideThen(rows, Steps(0, count, IF count >= WideBatch THEN <<16, 8, 4>> ELSE <<8, 4>>),
                           Steps(0, count, <<16, 4>>))
      [] product = "dot4 wasm" -> Grid(rows, count, <<8>>, <<4, 1>>)
      [] product = "dot4 relaxed" -> Grid(rows, count, <<8>>, <<8, 4, 1>>)
      [] product = "g16 avx2" -> TilesOf(Steps(0, rows, <<8>>), Grouped(count, <<4, 2, 1>>))
      [] product = "g16 evex" -> TilesOf(Steps(0, rows, <<8>>), Grouped(count, <<8, 4, 2, 1>>))
      [] product = "g16 avx512_vnni" ->
             WideThen(rows, Grouped(count, <<8, 4, 2, 1>>), Grouped(count, <<8, 4, 2, 1>>))
      [] product = "q8 vector" -> Grid(rows, count, <<8, 4, 1>>, <<1>>)
      [] product \in {"q8 vnni vector", "q4 vector"} -> Grid(rows, count, <<8, 1>>, <<1>>)
      [] product = "q8 vnni batch" -> Grid(rows, count, <<1>>, <<4, 1>>)
      [] product = "q4 batch" -> Grid(rows, count, <<1>>, <<8, 1>>)
      [] OTHER ->
             FlattenSeq([i \in DOMAIN Steps(0, rows, <<2, 1>>) |->
                 LET s == Steps(0, rows, <<2, 1>>)[i]
                 IN  TilesOf(<<s>>, Steps(0, count, IF s.n = 2 THEN <<3, 1>> ELSE <<8, 1>>))])

\* The vector a tile reads for its token i: whole tiles of four, a lane of one, a lane of sixteen.
Reads(product, tile, i) ==
    CASE product \in Vectors4 -> (4 * (tile.token \div 4)) + i
      [] product \in {"dot4 wasm", "dot4 relaxed"} ->
             LET first == IF tile.tokens = 1 THEN tile.token % 4 ELSE 0
             IN  (4 * (tile.token \div 4)) + (4 * ((first + i) \div 4)) + ((first + i) % 4)
      [] product \in {"g16 avx2", "g16 evex", "g16 avx512_vnni"} ->
             (16 * (tile.token \div 16)) + ((tile.token % 16) + i)
      [] OTHER -> tile.token + i

-----------------------------------------------------------------------------
DotInit ==
    \/ DispatchInit
    \/ work = [part |-> "dot", done |-> "nothing"]

BlockComputed ==
    /\ Is("dot") /\ work.done = "nothing"
    /\ \E block \in Blocks, course \in WeightCourses, other \in ActivationCourses :
           work' = [part |-> "dot", done |-> "block", layout |-> block[1], course |-> course, other |-> other,
                    rows |-> BlockDots(block[1], block[2], course, Activations(other))]

GroupComputed ==
    /\ Is("dot") /\ work.done = "nothing"
    /\ \E type \in KTypes, g \in 0..7, course \in WeightCourses, other \in ActivationCourses :
           LET w == KBytes(course)  a == Activations(other)
           IN  /\ type = "q8_0" => \A i \in Upto(32) : KCode(w, type, g, i) # 0 - 128
               /\ work' = [part |-> "dot", done |-> "group",
                           scalar |-> KScalarDot(w, type, g, a), avx2 |-> KAvx2Dot(w, type, g, a)]

BlockQuantized ==
    /\ Is("dot") /\ work.done = "nothing"
    /\ \E kernel \in {"scalar", "avx2", "wasm_simd"}, course \in WeightCourses :
           work' = [part |-> "dot", done |-> "quantized", course |-> course,
                    values |-> QuantizedBy(kernel, Quarters(course))]

ProductComputed ==
    /\ Is("dot") /\ work.done = "nothing"
    /\ \E product \in Products, rows \in RowCounts, count \in TokenCounts :
           /\ product \notin Ragged => rows % 8 = 0
           /\ product \in Vectors4 => count % 4 = 0
           /\ product \in Singles => count = 1
           /\ work' = [part |-> "dot", done |-> "product", product |-> product, rows |-> rows, count |-> count,
                       tiles |-> Tiles(product, rows, count)]

DotNext == KernelsChosen \/ BlockComputed \/ GroupComputed \/ BlockQuantized \/ ProductComputed

-----------------------------------------------------------------------------
\* The dots of a layout by its definition.
DotsByDefinition(layout, course, row, a) ==
    LET Term(k) == IF layout = "q8_0" THEN SignedCode(course, row, k) * a[k] ELSE (Code(course, row, k) - 8) * a[k]
        From(first, n) == Sum([i \in Upto(n) |-> Term(first + i)], n)
    IN  IF layout = "g16" THEN <<From(0, 16), From(16, 16)>> ELSE <<From(0, 32)>>

\* Every kernel of every layout computes the dots of the definition, with the scale of the row
\* they belong to, whatever it does with lanes, signs and 16-bit sums; the quantizers agree; the
\* tiles of a product write each output once and read the vector of its token; and no kernel is
\* chosen that the processor does not support.
PackedDotIsDot ==
    /\ DispatchIsSupported
    /\ Is("dot") /\ work.done = "block" =>
           \A row \in DOMAIN work.rows :
               work.rows[row] = [scale |-> row,
                                 dots |-> DotsByDefinition(work.layout, work.course, row, Activations(work.other))]
    /\ Is("dot") /\ work.done = "group" => work.scalar = work.avx2
    /\ Is("dot") /\ work.done = "quantized" =>
           /\ work.values = QuantizedBy("scalar", Quarters(work.course))
           /\ \A k \in Upto(32) : work.values[k] \in -127..127
    /\ Is("dot") /\ work.done = "product" =>
           /\ \A row \in 0..(work.rows - 1), token \in 0..(work.count - 1) :
                  Cardinality({i \in DOMAIN work.tiles :
                      LET t == work.tiles[i]
                      IN  row - t.row \in 0..(t.rows - 1) /\ token - t.token \in 0..(t.tokens - 1)}) = 1
           /\ \A i \in DOMAIN work.tiles :
                  LET t == work.tiles[i]
                  IN  /\ t.row + t.rows <= work.rows /\ t.token + t.tokens <= work.count
                      /\ \A j \in 0..(t.tokens - 1) : Reads(work.product, t, j) = t.token + j
=============================================================================
