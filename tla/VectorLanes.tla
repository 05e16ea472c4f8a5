------------------------------- MODULE VectorLanes -------------------------------
(***************************************************************************)
(* The vector instructions the kernels are written with, on lanes of the     *)
(* width they have: a register is a function from 0 to its integers.  Widths  *)
(* matter in two places, the saturating products and the wrapping negation.   *)
(***************************************************************************)
EXTENDS Integers

Wrap(x, half) == ((x + half) % (2 * half)) - half
Saturated(x, half) == IF x >= half THEN half - 1 ELSE IF x < 0 - half THEN 0 - half ELSE x
Upto(n) == 0..(n - 1)

Load(bytes, at, n) == [i \in Upto(n) |-> bytes[at + i]]
Paired(low, high) ==
    LET n == CHOOSE k \in 0..64 : DOMAIN low = 0..(k - 1)
    IN  [i \in Upto(2 * n) |-> IF i < n THEN low[i] ELSE high[i - n]]

\* Four or eight bytes repeated over a register of n.
Broadcast(bytes, at, width, n) == [i \in Upto(n) |-> bytes[at + (i % width)]]

\* A shift of 16-bit words moves bits of the upper byte into the lower one; masks remove them.
ShiftedWords(v, by) ==
    [i \in DOMAIN v |->
        IF i % 2 = 0 THEN ((v[i] + 256 * v[i + 1]) \div 2^by) % 256 ELSE v[i] \div 2^by]
Masked(v, bits) == [i \in DOMAIN v |-> v[i] % 2^bits]
LowNibbles(v) == Masked(v, 4)
HighNibbles(v) == Masked(ShiftedWords(v, 4), 4)
Minus(v, n) == [i \in DOMAIN v |-> v[i] - n]

Abs(v) == [i \in DOMAIN v |-> IF v[i] < 0 THEN 0 - v[i] ELSE v[i]]
Signed(v, by) ==
    [i \in DOMAIN v |-> IF by[i] < 0 THEN Wrap(0 - v[i], 128) ELSE IF by[i] = 0 THEN 0 ELSE v[i]]

\* maddubs, add_epi16, and madd with ones; dpbusd.
PairProducts(u, s) ==
    [i \in {j \div 2 : j \in DOMAIN u} |->
        Saturated((u[2 * i] * s[2 * i]) + (u[(2 * i) + 1] * s[(2 * i) + 1]), 32768)]
AddWords(x, y) == [i \in DOMAIN x |-> Wrap(x[i] + y[i], 32768)]
AddPairs(x) == [i \in {j \div 2 : j \in DOMAIN x} |-> x[2 * i] + x[(2 * i) + 1]]
Added(x, y) == [i \in DOMAIN x |-> x[i] + y[i]]
FourProducts(u, s) ==
    [i \in {j \div 4 : j \in DOMAIN u} |->
        LET At(k) == u[(4 * i) + k] * s[(4 * i) + k] IN At(0) + At(1) + At(2) + At(3)]

\* hadd_epi32; shuffles of the double words within each 128 bits; a blend; a full permutation.
HorizontalAdd(x, y) ==
    [i \in DOMAIN x |->
        LET k == (i - (i % 4)) + (2 * (i % 2)) IN IF i % 4 < 2 THEN x[k] + x[k + 1] ELSE y[k] + y[k + 1]]
Shuffled(v, order) == [i \in DOMAIN v |-> v[(i - (i % 4)) + order[(i % 4) + 1]]]
ShuffledBytes(v, order) ==
    [i \in DOMAIN v |-> v[(i - (i % 16)) + (4 * order[((i % 16) \div 4) + 1]) + (i % 4)]]
OddWordsOf(x, y) == [i \in DOMAIN x |-> IF (i \div 4) % 2 = 1 THEN y[i] ELSE x[i]]
Permuted(v, order) == [i \in DOMAIN v |-> v[order[i + 1]]]

\* packs: both registers, 128 bits at a time.
Packed(x, y, half) ==
    LET n == CHOOSE k \in 0..64 : DOMAIN x = 0..(k - 1)  m == n \div 2
    IN  [i \in Upto(2 * n) |->
            LET k == (m * (i \div n)) + (i % m) IN Saturated(IF i % n < m THEN x[k] ELSE y[k], half)]
=============================================================================
