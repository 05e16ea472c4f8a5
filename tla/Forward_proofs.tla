----------------------------- MODULE Forward_proofs -----------------------------
(***************************************************************************)
(* However the tokens of a sequence went through the layers, its state is  *)
(* that of one token after the other; and however the logits of the last   *)
(* are read, the token is the one their rule says.                          *)
(***************************************************************************)
EXTENDS Forward, Readout, ModelFiles_proofs

-----------------------------------------------------------------------------
(* Remainders.                                                              *)

(* Division with remainder.                                                 *)
LEMMA DividedIs ==
    ASSUME NEW x \in Nat, NEW c \in Nat \ {0}
    PROVE  /\ x \div c \in Nat /\ x % c \in Nat /\ x % c < c
           /\ x = c * (x \div c) + (x % c)
OBVIOUS

(* Quotient and remainder are determined.                                   *)
LEMMA DividedUnique ==
    ASSUME NEW x \in Nat, NEW c \in Nat \ {0}, NEW q \in Nat, NEW r \in Nat, r < c, x = c * q + r
    PROVE  x \div c = q /\ x % c = r
OBVIOUS

(* Below twice the divisor.                                                 *)
LEMMA RemainderBelow ==
    ASSUME NEW c \in Nat \ {0}, NEW x \in Nat, x < 2 * c
    PROVE  x % c = IF x < c THEN x ELSE x - c
<1>1. CASE x < c
  <2>1. x = c * 0 + x /\ 0 \in Nat
    OBVIOUS
  <2> QED BY <1>1, <2>1, DividedUnique
<1>2. CASE ~(x < c)
  <2>1. x = c * 1 + (x - c) /\ 1 \in Nat /\ x - c \in Nat /\ x - c < c
    BY <1>2
  <2> DEFINE r == x - c
  <2> HIDE DEF r
  <2>2. x % c = r
    BY <2>1, DividedUnique DEF r
  <2> QED BY <1>2, <2>2 DEF r
<1> QED
  BY <1>1, <1>2

(* The remainder of the successor.                                          *)
LEMMA RemainderNext ==
    ASSUME NEW c \in Nat \ {0}, NEW x \in Nat
    PROVE  (x + 1) % c = IF x % c = c - 1 THEN 0 ELSE (x % c) + 1
<1> DEFINE q == x \div c
           r == x % c
<1>1. q \in Nat /\ r \in Nat /\ r < c /\ x = c * q + r
  BY DividedIs
<1> HIDE DEF q, r
<1>2. CASE r = c - 1
  <2>1. x + 1 = c * (q + 1) + 0 /\ q + 1 \in Nat /\ 0 \in Nat /\ x + 1 \in Nat
    BY <1>1, <1>2
  <2>2. (x + 1) % c = 0
    BY <2>1, DividedUnique
  <2> QED BY <1>2, <2>2 DEF r
<1>3. CASE r # c - 1
  <2>1. x + 1 = c * q + (r + 1) /\ r + 1 \in Nat /\ r + 1 < c /\ x + 1 \in Nat
    BY <1>1, <1>3
  <2>2. (x + 1) % c = r + 1
    BY <1>1, <2>1, DividedUnique
  <2> QED BY <1>3, <2>2 DEF r
<1> QED
  BY <1>2, <1>3

(* The place of a head's token where the inputs stand head by head.         *)
LEMMA HeadByHead ==
    ASSUME NEW c \in Nat \ {0}, NEW m \in Nat, NEW h \in 0..(m - 1), NEW t \in 1..c
    PROVE  /\ h * c + t - 1 \in 0..(m * c - 1)
           /\ (h * c + t - 1) \div c = h /\ (h * c + t - 1) % c = t - 1
<1> DEFINE a == c * h
           b == c * m
<1>1. h \in Nat /\ t - 1 \in Nat /\ t - 1 < c /\ h + 1 <= m /\ h * c = a /\ m * c = b
  OBVIOUS
<1>2. a \in Nat /\ b \in Nat /\ a + c <= b
  <2>1. c * (h + 1) <= c * m
    BY <1>1
  <2>2. c * (h + 1) = c * h + c
    BY <1>1
  <2> QED BY <1>1, <2>1, <2>2
<1> HIDE DEF b
<1>3. a + (t - 1) \in Nat /\ h * c + t - 1 = a + (t - 1) /\ a + (t - 1) < b
  <2> HIDE DEF a
  <2> QED BY <1>1, <1>2
<1>4. (a + (t - 1)) \div c = h /\ (a + (t - 1)) % c = t - 1
  <2> DEFINE r == t - 1
             x == a + r
  <2>1. r \in Nat /\ r < c /\ x \in Nat /\ x = c * h + r
    BY <1>1, <1>3
  <2> HIDE DEF r, x
  <2>2. x \div c = h /\ x % c = r
    BY <1>1, <2>1, DividedUnique
  <2> QED BY <2>2 DEF r, x
<1> QED
  <2> HIDE DEF a
  <2> QED BY <1>1, <1>2, <1>3, <1>4

-----------------------------------------------------------------------------
(* Chains: b, then at each place the one before it and what is fed there.   *)

Chain(f, n, b, w) == f = [q \in 0..n |-> IF q = 0 THEN b ELSE <<f[q - 1], w[q]>>]

LEMMA ChainIs ==
    ASSUME NEW n \in Nat, NEW b, NEW w, NEW f, Chain(f, n, b, w)
    PROVE  f[0] = b /\ \A q \in 1..n : f[q] = <<f[q - 1], w[q]>>
<1>1. 0 \in 0..n /\ \A q \in 1..n : q \in 0..n /\ q # 0
  OBVIOUS
<1> QED
  BY <1>1 DEF Chain

LEMMA ChainExists ==
    ASSUME NEW n \in Nat, NEW b, NEW w
    PROVE  \E f : Chain(f, n, b, w)
<1> DEFINE P == {m \in 0..n : \E f : Chain(f, m, b, w)}
<1>1. 0 \in P
  <2> DEFINE f == [q \in 0..0 |-> b]
  <2>1. Chain(f, 0, b, w) /\ 0 \in 0..n
    BY DEF Chain
  <2> QED BY <2>1
<1>2. ASSUME NEW m \in 1..n, m - 1 \in P PROVE m \in P
  <2>1. PICK f : Chain(f, m - 1, b, w)
    BY <1>2
  <2> DEFINE g == [q \in 0..m |-> IF q = m THEN <<f[m - 1], w[m]>> ELSE f[q]]
  <2>2. m \in 0..n /\ m \in Nat /\ m # 0 /\ m - 1 \in Nat /\ m - 1 # m
    OBVIOUS
  <2>3. f[0] = b /\ \A q \in 1..(m - 1) : f[q] = <<f[q - 1], w[q]>>
    BY <2>1, <2>2, ChainIs
  <2>4. ASSUME NEW q \in 0..m PROVE g[q] = IF q = 0 THEN b ELSE <<g[q - 1], w[q]>>
    <3>1. CASE q = 0
      BY <2>2, <2>3, <3>1
    <3>2. CASE q = m
      <4>1. m - 1 \in 0..m /\ g[m - 1] = f[m - 1] /\ g[q] = <<f[m - 1], w[m]>>
        BY <2>2, <3>2
      <4> QED BY ONLY <2>2, <3>2, <4>1
    <3>3. CASE q # 0 /\ q # m
      <4>1. q \in 1..(m - 1) /\ q - 1 \in 0..m /\ q - 1 # m
        BY <2>2, <3>3
      <4>2. g[q] = f[q] /\ g[q - 1] = f[q - 1] /\ f[q] = <<f[q - 1], w[q]>>
        BY <2>3, <3>3, <4>1
      <4> QED BY ONLY <3>3, <4>2
    <3> QED BY <3>1, <3>2, <3>3
  <2>5. g = [q \in 0..m |-> g[q]]
    OBVIOUS
  <2> HIDE DEF g
  <2>6. Chain(g, m, b, w)
    BY <2>4, <2>5 DEF Chain
  <2> QED BY <2>2, <2>6
<1>3. \A m \in 0..n : m \in P
  <2> HIDE DEF P
  <2> QED BY <1>1, <1>2, Upto
<1> QED
  BY <1>3

(* Chains that begin alike and are fed alike are alike.                     *)
LEMMA ChainsAgree ==
    ASSUME NEW n \in Nat, NEW m \in Nat, NEW k \in Nat, k <= n, k <= m, NEW b, NEW v, NEW w, NEW f, NEW g,
           Chain(f, n, b, v), Chain(g, m, b, w), \A q \in 1..k : v[q] = w[q]
    PROVE  \A q \in 0..k : f[q] = g[q]
<1> DEFINE P == {q \in 0..k : f[q] = g[q]}
<1>1. f[0] = b /\ g[0] = b /\ \A q \in 1..k : f[q] = <<f[q - 1], v[q]>> /\ g[q] = <<g[q - 1], w[q]>>
  <2>1. \A q \in 1..k : q \in 1..n /\ q \in 1..m
    OBVIOUS
  <2> QED BY <2>1, ChainIs
<1>2. 0 \in P
  BY <1>1
<1>3. ASSUME NEW q \in 1..k, q - 1 \in P PROVE q \in P
  <2>1. f[q - 1] = g[q - 1] /\ q \in 0..k
    BY <1>3
  <2> QED BY <1>1, <2>1
<1>4. \A q \in 0..k : q \in P
  <2> HIDE DEF P
  <2> QED BY <1>2, <1>3, Upto
<1> QED
  BY <1>4

-----------------------------------------------------------------------------
(* The true state of a head, and what it depends on.                        *)

Feed(kernel, l, h, xs, n) == [q \in 1..n |-> TrueWindow(kernel, l, h, xs, q)]

LEMMA TrueStateIsChain ==
    ASSUME NEW kernel, NEW l, NEW h, NEW xs, NEW p \in Nat
    PROVE  \E f : Chain(f, p, Zero, Feed(kernel, l, h, xs, p)) /\ TrueState(kernel, l, h, xs, p) = f[p]
<1> DEFINE D == CHOOSE f : f = [q \in 0..p |-> IF q = 0 THEN Zero ELSE <<f[q - 1], TrueWindow(kernel, l, h, xs, q)>>]
           w == Feed(kernel, l, h, xs, p)
<1>1. \A q \in 0..p : q # 0 => w[q] = TrueWindow(kernel, l, h, xs, q)
  <2>1. \A q \in 0..p : q # 0 => q \in 1..p
    OBVIOUS
  <2> QED BY <2>1 DEF Feed
<1>2. PICK f : Chain(f, p, Zero, w)
  <2> HIDE DEF w
  <2> QED BY ChainExists
<1>3. ASSUME NEW g
      PROVE  Chain(g, p, Zero, w)
                <=> g = [q \in 0..p |-> IF q = 0 THEN Zero ELSE <<g[q - 1], TrueWindow(kernel, l, h, xs, q)>>]
  <2>1. [q \in 0..p |-> IF q = 0 THEN Zero ELSE <<g[q - 1], w[q]>>]
            = [q \in 0..p |-> IF q = 0 THEN Zero ELSE <<g[q - 1], TrueWindow(kernel, l, h, xs, q)>>]
    <3> HIDE DEF w
    <3> QED BY <1>1
  <2> QED BY <2>1 DEF Chain
<1> HIDE DEF w
<1>4. D = [q \in 0..p |-> IF q = 0 THEN Zero ELSE <<D[q - 1], TrueWindow(kernel, l, h, xs, q)>>]
  BY <1>2, <1>3
<1>5. Chain(D, p, Zero, w)
  <2> HIDE DEF D
  <2> QED BY <1>3, <1>4
<1>6. TrueState(kernel, l, h, xs, p) = D[p]
  BY DEF TrueState
<1> HIDE DEF D
<1> QED
  BY <1>5, <1>6 DEF w

(* It grows by the window of the new position.                              *)
LEMMA TrueStateIs ==
    ASSUME NEW kernel, NEW l, NEW h, NEW xs, NEW p \in Nat
    PROVE  /\ TrueState(kernel, l, h, xs, 0) = Zero
           /\ TrueState(kernel, l, h, xs, p + 1)
                = <<TrueState(kernel, l, h, xs, p), TrueWindow(kernel, l, h, xs, p + 1)>>
<1> DEFINE W(n) == Feed(kernel, l, h, xs, n)
<1>1. PICK z : Chain(z, 0, Zero, W(0)) /\ TrueState(kernel, l, h, xs, 0) = z[0]
  BY TrueStateIsChain
<1>2. PICK f : Chain(f, p, Zero, W(p)) /\ TrueState(kernel, l, h, xs, p) = f[p]
  BY TrueStateIsChain
<1>3. p + 1 \in Nat /\ p + 1 \in 1..(p + 1) /\ p <= p + 1 /\ p \in 0..p /\ (p + 1) - 1 = p
  OBVIOUS
<1>4. PICK g : Chain(g, p + 1, Zero, W(p + 1)) /\ TrueState(kernel, l, h, xs, p + 1) = g[p + 1]
  BY <1>3, TrueStateIsChain
<1>5. W(p + 1)[p + 1] = TrueWindow(kernel, l, h, xs, p + 1) /\ \A q \in 1..p : W(p)[q] = W(p + 1)[q]
  BY <1>3 DEF Feed
<1> HIDE DEF W
<1>6. z[0] = Zero
  BY <1>1, ChainIs
<1>7. g[p + 1] = <<g[p], W(p + 1)[p + 1]>>
  <2>1. g[p + 1] = <<g[(p + 1) - 1], W(p + 1)[p + 1]>>
    BY <1>3, <1>4, ChainIs
  <2> QED BY <1>3, <2>1
<1>8. f[p] = g[p]
  BY <1>2, <1>3, <1>4, <1>5, ChainsAgree
<1> QED
  BY <1>1, <1>2, <1>4, <1>5, <1>6, <1>7, <1>8

(* It depends on the inputs up to its position.                             *)
LEMMA TrueStateSame ==
    ASSUME NEW kernel \in Nat, NEW l, NEW h, NEW xs, NEW ys, NEW p \in Nat, \A i \in 1..p : xs[i] = ys[i]
    PROVE  /\ \A q \in 1..p : TrueWindow(kernel, l, h, xs, q) = TrueWindow(kernel, l, h, ys, q)
           /\ TrueState(kernel, l, h, xs, p) = TrueState(kernel, l, h, ys, p)
<1>1. ASSUME NEW q \in 1..p
      PROVE  TrueWindow(kernel, l, h, xs, q) = TrueWindow(kernel, l, h, ys, q)
  <2>1. \A k \in 1..kernel : ~(q - kernel + k < 1) => q - kernel + k \in 1..p
    OBVIOUS
  <2> QED BY <2>1 DEF TrueWindow
<1>2. PICK f : Chain(f, p, Zero, Feed(kernel, l, h, xs, p)) /\ TrueState(kernel, l, h, xs, p) = f[p]
  BY TrueStateIsChain
<1>3. Feed(kernel, l, h, xs, p) = Feed(kernel, l, h, ys, p)
  BY <1>1 DEF Feed
<1>4. PICK g : Chain(g, p, Zero, Feed(kernel, l, h, ys, p)) /\ TrueState(kernel, l, h, ys, p) = g[p]
  BY TrueStateIsChain
<1>5. f[p] = g[p]
  <2>1. p \in 0..p /\ p <= p
    OBVIOUS
  <2> QED BY <1>2, <1>3, <1>4, <2>1, ChainsAgree
<1> QED
  BY <1>1, <1>2, <1>4, <1>5

-----------------------------------------------------------------------------
(* A channel's ring, by the kernel for one token and for a batch.            *)

Input(l, h, xs, i) == IF i < 1 THEN Zero ELSE <<l, h, xs[i]>>

\* From its oldest slot it holds the n inputs up to position p.
Ringed(n, slots, ring, l, h, xs, p) ==
    /\ slots = [i \in 0..(n - 1) |-> slots[i]]
    /\ ring \in Nat /\ (n = 0 \/ ring < n)
    /\ \A k \in 1..n : slots[(ring + k - 1) % n] = Input(l, h, xs, p - n + k)

LEMMA WindowIs ==
    ASSUME work.kernel \in Nat \ {0}, NEW slots, NEW ring, NEW l, NEW h, NEW xs, NEW p \in Nat,
           Ringed(History, slots, ring, l, h, xs, p)
    PROVE  Window(slots, ring, <<l, h, xs[p + 1]>>) = TrueWindow(work.kernel, l, h, xs, p + 1)
<1> DEFINE n == History
<1>1. n \in Nat /\ work.kernel = n + 1
  BY DEF History
<1>2. Window(slots, ring, <<l, h, xs[p + 1]>>)
        = [k \in 1..(n + 1) |-> IF k > n THEN <<l, h, xs[p + 1]>> ELSE slots[(ring + k - 1) % n]]
  BY DEF Window
<1>3. \A k \in 1..n : slots[(ring + k - 1) % n] = Input(l, h, xs, p - n + k)
  BY DEF Ringed
<1>4. TrueWindow(work.kernel, l, h, xs, p + 1)
        = [k \in 1..(n + 1) |-> IF (p + 1) - (n + 1) + k < 1 THEN Zero ELSE <<l, h, xs[(p + 1) - (n + 1) + k]>>]
  BY <1>1 DEF TrueWindow
<1> HIDE DEF n
<1>5. ASSUME NEW k \in 1..(n + 1)
      PROVE  (IF k > n THEN <<l, h, xs[p + 1]>> ELSE slots[(ring + k - 1) % n])
                = (IF (p + 1) - (n + 1) + k < 1 THEN Zero ELSE <<l, h, xs[(p + 1) - (n + 1) + k]>>)
  <2>1. CASE k > n
    <3>1. (p + 1) - (n + 1) + k = p + 1 /\ ~(p + 1 < 1)
      BY <1>1, <2>1
    <3> QED BY <2>1, <3>1
  <2>2. CASE ~(k > n)
    <3>1. k \in 1..n /\ (p + 1) - (n + 1) + k = p - n + k
      BY <1>1, <2>2
    <3> QED BY <1>3, <2>2, <3>1 DEF Input
  <2> QED BY <2>1, <2>2
<1> QED
  BY <1>2, <1>4, <1>5

LEMMA RingStep ==
    ASSUME work.kernel \in Nat \ {0}, NEW slots, NEW ring, NEW l, NEW h, NEW xs, NEW p \in Nat,
           Ringed(History, slots, ring, l, h, xs, p)
    PROVE  Ringed(History, Slotted(slots, ring, <<l, h, xs[p + 1]>>), NextSlot(ring), l, h, xs, p + 1)
<1> DEFINE n == History
           new == Slotted(slots, ring, <<l, h, xs[p + 1]>>)
           next == NextSlot(ring)
<1>1. n \in Nat
  BY DEF History
<1>2. /\ slots = [i \in 0..(n - 1) |-> slots[i]] /\ ring \in Nat /\ (n = 0 \/ ring < n)
      /\ \A k \in 1..n : slots[(ring + k - 1) % n] = Input(l, h, xs, p - n + k)
  BY DEF Ringed
<1>3. CASE n = 0
  <2>1. new = slots /\ next = ring /\ 1..n = {}
    BY <1>3 DEF Slotted, NextSlot
  <2> HIDE DEF new, next, n
  <2>2. Ringed(n, new, next, l, h, xs, p + 1)
    BY <1>2, <1>3, <2>1 DEF Ringed
  <2> QED BY <2>2 DEF new, next, n
<1>4. CASE n # 0
  <2>1. new = [slots EXCEPT ![ring] = <<l, h, xs[p + 1]>>] /\ next = (ring + 1) % n
    BY <1>4 DEF Slotted, NextSlot
  <2> HIDE DEF new, next, n
  <2>2. n \in Nat \ {0} /\ ring \in 0..(n - 1) /\ DOMAIN slots = 0..(n - 1)
    BY <1>1, <1>2, <1>4
  <2>3. next = IF ring = n - 1 THEN 0 ELSE ring + 1
    <3>1. ring + 1 \in Nat /\ ring + 1 < 2 * n
      BY <2>2
    <3>2. (ring + 1) % n = IF ring + 1 < n THEN ring + 1 ELSE (ring + 1) - n
      BY <2>2, <3>1, RemainderBelow
    <3> QED BY <2>1, <2>2, <3>2
  <2>4. /\ new = [i \in 0..(n - 1) |-> new[i]]
        /\ \A i \in 0..(n - 1) : new[i] = IF i = ring THEN <<l, h, xs[p + 1]>> ELSE slots[i]
    BY <2>1, <2>2
  <2>5. ASSUME NEW k \in 1..n
        PROVE  new[(next + k - 1) % n] = Input(l, h, xs, (p + 1) - n + k)
    <3>1. next + k - 1 \in Nat /\ next + k - 1 < 2 * n /\ ring + k \in Nat /\ ring + k < 2 * n
      BY <2>2, <2>3
    <3>2. /\ (next + k - 1) % n = IF next + k - 1 < n THEN next + k - 1 ELSE (next + k - 1) - n
          /\ (ring + k) % n = IF ring + k < n THEN ring + k ELSE (ring + k) - n
      BY <2>2, <3>1, RemainderBelow
    <3>3. CASE k = n
      <4>1. (next + k - 1) % n = ring
        BY <2>2, <2>3, <3>2, <3>3
      <4>2. (p + 1) - n + k = p + 1 /\ ~(p + 1 < 1)
        BY <2>2, <3>3
      <4> QED BY <2>2, <2>4, <4>1, <4>2 DEF Input
    <3>4. CASE k # n
      <4>1. /\ (next + k - 1) % n = (ring + k) % n /\ (ring + k) % n # ring
            /\ (ring + k) % n \in 0..(n - 1)
        BY <2>2, <2>3, <3>2, <3>4
      <4>2. k + 1 \in 1..n /\ ring + (k + 1) - 1 = ring + k /\ p - n + (k + 1) = (p + 1) - n + k
        BY <2>2, <3>4
      <4>3. slots[(ring + k) % n] = Input(l, h, xs, (p + 1) - n + k)
        <5>1. slots[(ring + (k + 1) - 1) % n] = Input(l, h, xs, p - n + (k + 1))
          BY <1>2, <4>2
        <5> QED BY <4>2, <5>1
      <4> QED BY <2>4, <4>1, <4>3
    <3> QED BY <3>3, <3>4
  <2>6. next \in Nat /\ next < n
    BY <2>2, <2>3
  <2>7. Ringed(n, new, next, l, h, xs, p + 1)
    BY <2>4, <2>5, <2>6 DEF Ringed
  <2> QED BY <2>7 DEF new, next, n
<1> QED
  BY <1>3, <1>4

(* After t tokens the ring has moved t slots.                               *)
LEMMA RingAfterIs ==
    ASSUME work.kernel \in Nat \ {0}, NEW ring \in Nat, History = 0 \/ ring < History, NEW t \in Nat
    PROVE  RingAfter(ring, 0) = ring /\ RingAfter(ring, t + 1) = NextSlot(RingAfter(ring, t))
<1> DEFINE n == History
<1>1. n \in Nat
  BY DEF History
<1>2. CASE n = 0
  BY <1>2 DEF RingAfter, NextSlot
<1>3. CASE n # 0
  <2>1. \A a : RingAfter(ring, a) = (ring + (a % n)) % n
    BY <1>3 DEF RingAfter
  <2>2. \A a : NextSlot(a) = (a + 1) % n
    BY <1>3 DEF NextSlot
  <2>3. ring < n
    BY <1>3
  <2> HIDE DEF n
  <2>4. n \in Nat \ {0} /\ 0 \in Nat /\ t + 1 \in Nat
    BY <1>1, <1>3
  <2>5. 0 % n = 0
    <3>1. 0 < 2 * n /\ 0 < n
      BY <2>4
    <3> QED BY <2>4, <3>1, RemainderBelow
  <2>6. (ring + 0) % n = ring
    <3>1. ring + 0 \in Nat /\ ring + 0 < 2 * n /\ ring + 0 < n /\ ring + 0 = ring
      BY <2>3, <2>4
    <3> QED BY <2>4, <3>1, RemainderBelow
  <2> DEFINE u == t % n
             v == (t + 1) % n
  <2>7. u \in Nat /\ u < n
    BY <2>4, DividedIs
  <2>8. v = IF u = n - 1 THEN 0 ELSE u + 1
    BY <2>4, RemainderNext
  <2> HIDE DEF u, v
  <2>9. /\ (ring + u) % n = IF ring + u < n THEN ring + u ELSE (ring + u) - n
        /\ (ring + v) % n = IF ring + v < n THEN ring + v ELSE (ring + v) - n
    <3>1. ring + u \in Nat /\ ring + u < 2 * n /\ ring + v \in Nat /\ ring + v < 2 * n
      BY <2>3, <2>4, <2>7, <2>8
    <3> QED BY <2>4, <3>1, RemainderBelow
  <2> DEFINE x == (ring + u) % n
  <2>10. x \in Nat /\ x < n
    BY <2>3, <2>4, <2>7, <2>9
  <2>11. (x + 1) % n = IF x = n - 1 THEN 0 ELSE x + 1
    <3> HIDE DEF x
    <3>1. x + 1 \in Nat /\ x + 1 < 2 * n
      BY <2>4, <2>10
    <3>2. (x + 1) % n = IF x + 1 < n THEN x + 1 ELSE (x + 1) - n
      BY <2>4, <3>1, RemainderBelow
    <3> QED BY <2>4, <2>10, <3>2
  <2>12. (x + 1) % n = (ring + v) % n
    BY <2>3, <2>4, <2>7, <2>8, <2>9, <2>11
  <2>13. RingAfter(ring, t) = x /\ RingAfter(ring, t + 1) = (ring + v) % n
    BY <2>1 DEF u, v
  <2>14. NextSlot(x) = (x + 1) % n
    BY <2>2
  <2>15. RingAfter(ring, 0) = ring
    BY <2>1, <2>5, <2>6
  <2> QED BY <2>12, <2>13, <2>14, <2>15
<1> QED
  BY <1>2, <1>3

\* The ring and the slots after each token of a batch.
Conved(f, n, slots, ring, inputs) ==
    f = [t \in 0..n |-> IF t = 0 THEN [slots |-> slots, ring |-> ring]
                        ELSE [slots |-> Slotted(f[t - 1].slots, f[t - 1].ring, inputs[t]),
                              ring |-> NextSlot(f[t - 1].ring)]]

LEMMA ConvedIs ==
    ASSUME NEW n \in Nat, NEW slots, NEW ring, NEW inputs, NEW f, Conved(f, n, slots, ring, inputs)
    PROVE  /\ f[0] = [slots |-> slots, ring |-> ring]
           /\ \A t \in 1..n : f[t] = [slots |-> Slotted(f[t - 1].slots, f[t - 1].ring, inputs[t]),
                                      ring |-> NextSlot(f[t - 1].ring)]
<1>1. 0 \in 0..n /\ \A t \in 1..n : t \in 0..n /\ t # 0
  OBVIOUS
<1> QED
  BY <1>1 DEF Conved

LEMMA ConvedExists ==
    ASSUME NEW n \in Nat, NEW slots, NEW ring, NEW inputs
    PROVE  \E f : Conved(f, n, slots, ring, inputs)
<1> DEFINE P == {m \in 0..n : \E f : Conved(f, m, slots, ring, inputs)}
           b == [slots |-> slots, ring |-> ring]
           Next(c, t) == [slots |-> Slotted(c.slots, c.ring, inputs[t]), ring |-> NextSlot(c.ring)]
<1>1. 0 \in P
  <2> DEFINE f == [t \in 0..0 |-> b]
  <2>1. Conved(f, 0, slots, ring, inputs) /\ 0 \in 0..n
    BY DEF Conved
  <2> QED BY <2>1
<1>2. ASSUME NEW m \in 1..n, m - 1 \in P PROVE m \in P
  <2>1. PICK f : Conved(f, m - 1, slots, ring, inputs)
    BY <1>2
  <2> DEFINE g == [t \in 0..m |-> IF t = m THEN Next(f[m - 1], m) ELSE f[t]]
  <2>2. m \in 0..n /\ m \in Nat /\ m # 0 /\ m - 1 \in Nat /\ m - 1 # m
    OBVIOUS
  <2>3. f[0] = b /\ \A t \in 1..(m - 1) : f[t] = Next(f[t - 1], t)
    BY <2>1, <2>2, ConvedIs
  <2>4. ASSUME NEW t \in 0..m PROVE g[t] = IF t = 0 THEN b ELSE Next(g[t - 1], t)
    <3> HIDE DEF b, Next
    <3>1. CASE t = 0
      BY <2>2, <2>3, <3>1
    <3>2. CASE t = m
      <4>1. m - 1 \in 0..m /\ g[m - 1] = f[m - 1] /\ g[t] = Next(f[m - 1], m)
        BY <2>2, <3>2
      <4> QED BY ONLY <2>2, <3>2, <4>1
    <3>3. CASE t # 0 /\ t # m
      <4>1. t \in 1..(m - 1) /\ t - 1 \in 0..m /\ t - 1 # m
        BY <2>2, <3>3
      <4>2. g[t] = f[t] /\ g[t - 1] = f[t - 1] /\ f[t] = Next(f[t - 1], t)
        BY <2>3, <3>3, <4>1
      <4> QED BY ONLY <3>3, <4>2
    <3> QED BY <3>1, <3>2, <3>3
  <2>5. g = [t \in 0..m |-> g[t]]
    OBVIOUS
  <2> HIDE DEF g
  <2>6. Conved(g, m, slots, ring, inputs)
    BY <2>4, <2>5 DEF Conved
  <2> QED BY <2>2, <2>6
<1>3. \A m \in 0..n : m \in P
  <2> HIDE DEF P
  <2> QED BY <1>1, <1>2, Upto
<1> QED
  BY <1>3

LEMMA ConvBatchIs ==
    ASSUME NEW slots, NEW ring, NEW inputs, NEW count \in Nat
    PROVE  \E f : /\ Conved(f, count, slots, ring, inputs)
                  /\ ConvBatch(slots, ring, inputs, count).slots = f[count].slots
                  /\ \A t \in 1..count : ConvBatch(slots, ring, inputs, count).out[t]
                                            = Window(f[t - 1].slots, f[t - 1].ring, inputs[t])
<1> DEFINE D == CHOOSE f : Conved(f, count, slots, ring, inputs)
<1>1. Conved(D, count, slots, ring, inputs)
  BY ConvedExists
<1>2. ConvBatch(slots, ring, inputs, count)
        = [slots |-> D[count].slots,
           out |-> [t \in 1..count |-> Window(D[t - 1].slots, D[t - 1].ring, inputs[t])]]
  BY DEF ConvBatch, Conved
<1> HIDE DEF D
<1> QED
  BY <1>1, <1>2

(* A batch through the kernel: every output is the true window, and the     *)
(* ring holds the last inputs.                                              *)
LEMMA ConvIs ==
    ASSUME work.kernel \in Nat \ {0}, NEW slots, NEW ring, NEW l, NEW h, NEW xs, NEW p \in Nat, NEW count \in Nat,
           NEW inputs, \A t \in 1..count : inputs[t] = <<l, h, xs[p + t]>>,
           Ringed(History, slots, ring, l, h, xs, p)
    PROVE  /\ Ringed(History, ConvBatch(slots, ring, inputs, count).slots, RingAfter(ring, count), l, h, xs, p + count)
           /\ \A t \in 1..count :
                ConvBatch(slots, ring, inputs, count).out[t] = TrueWindow(work.kernel, l, h, xs, p + t)
<1>1. PICK f : /\ Conved(f, count, slots, ring, inputs)
               /\ ConvBatch(slots, ring, inputs, count).slots = f[count].slots
               /\ \A t \in 1..count : ConvBatch(slots, ring, inputs, count).out[t]
                                         = Window(f[t - 1].slots, f[t - 1].ring, inputs[t])
  BY ConvBatchIs
<1>2. /\ f[0] = [slots |-> slots, ring |-> ring]
      /\ \A t \in 1..count : f[t] = [slots |-> Slotted(f[t - 1].slots, f[t - 1].ring, inputs[t]),
                                     ring |-> NextSlot(f[t - 1].ring)]
  BY <1>1, ConvedIs
<1> DEFINE P == {t \in 0..count : /\ f[t].ring = RingAfter(ring, t)
                                  /\ Ringed(History, f[t].slots, f[t].ring, l, h, xs, p + t)}
<1>3. ring \in Nat /\ (History = 0 \/ ring < History)
  BY DEF Ringed
<1>4. 0 \in P
  <2>1. f[0].ring = ring /\ f[0].slots = slots /\ p + 0 = p /\ 0 \in 0..count /\ 0 \in Nat
    BY <1>2
  <2>2. RingAfter(ring, 0) = ring
    BY <1>3, <2>1, RingAfterIs
  <2> QED BY <2>1, <2>2
<1>5. ASSUME NEW t \in 1..count, t - 1 \in P PROVE t \in P
  <2>1. t \in 0..count /\ t - 1 \in Nat /\ (t - 1) + 1 = t /\ p + (t - 1) \in Nat /\ (p + (t - 1)) + 1 = p + t
    OBVIOUS
  <2>2. /\ f[t - 1].ring = RingAfter(ring, t - 1)
        /\ Ringed(History, f[t - 1].slots, f[t - 1].ring, l, h, xs, p + (t - 1))
    BY <1>5
  <2>3. /\ f[t].slots = Slotted(f[t - 1].slots, f[t - 1].ring, <<l, h, xs[p + t]>>)
        /\ f[t].ring = NextSlot(f[t - 1].ring)
    <3>1. inputs[t] = <<l, h, xs[p + t]>>
      OBVIOUS
    <3>2. f[t] = [slots |-> Slotted(f[t - 1].slots, f[t - 1].ring, inputs[t]), ring |-> NextSlot(f[t - 1].ring)]
      BY <1>2
    <3> QED BY ONLY <3>1, <3>2
  <2>4. Ringed(History, f[t].slots, f[t].ring, l, h, xs, p + t)
    <3> DEFINE a == f[t - 1].slots
               r == f[t - 1].ring
               j == p + (t - 1)
    <3> HIDE DEF a, r, j
    <3>1. Ringed(History, Slotted(a, r, <<l, h, xs[j + 1]>>), NextSlot(r), l, h, xs, j + 1)
      BY <2>1, <2>2, RingStep DEF a, r, j
    <3> QED BY <2>1, <2>3, <3>1 DEF a, r, j
  <2>5. f[t].ring = RingAfter(ring, t)
    <3>1. RingAfter(ring, (t - 1) + 1) = NextSlot(RingAfter(ring, t - 1))
      BY <1>3, <2>1, RingAfterIs
    <3> QED BY <2>1, <2>2, <2>3, <3>1
  <2> QED BY <2>1, <2>4, <2>5
<1>6. \A t \in 0..count : t \in P
  <2> HIDE DEF P
  <2> QED BY <1>4, <1>5, Upto
<1>7. Ringed(History, f[count].slots, RingAfter(ring, count), l, h, xs, p + count)
  <2>1. count \in 0..count
    OBVIOUS
  <2> QED BY <1>6, <2>1
<1>8. ASSUME NEW t \in 1..count
      PROVE  Window(f[t - 1].slots, f[t - 1].ring, inputs[t]) = TrueWindow(work.kernel, l, h, xs, p + t)
  <2> DEFINE a == f[t - 1].slots
             r == f[t - 1].ring
             j == p + (t - 1)
  <2>1. j \in Nat /\ j + 1 = p + t /\ t - 1 \in 0..count
    OBVIOUS
  <2>2. Ringed(History, a, r, l, h, xs, j)
    BY <1>6, <2>1
  <2> HIDE DEF a, r, j
  <2>3. Window(a, r, <<l, h, xs[j + 1]>>) = TrueWindow(work.kernel, l, h, xs, j + 1)
    BY <2>1, <2>2, WindowIs
  <2> QED BY <2>1, <2>3 DEF a, r
<1> QED
  BY <1>1, <1>7, <1>8

(* A batch through the recurrence of a head.                                *)
LEMMA ScanIs ==
    ASSUME NEW kernel, NEW l, NEW h, NEW xs, NEW p \in Nat, NEW count \in Nat, NEW inputs,
           \A t \in 1..count : inputs[h * count + t - 1] = TrueWindow(kernel, l, h, xs, p + t)
    PROVE  LET scan == ScanHead(TrueState(kernel, l, h, xs, p), h, inputs, count) IN
           /\ scan.state = TrueState(kernel, l, h, xs, p + count)
           /\ \A t \in 1..count : scan.out[t] = TrueState(kernel, l, h, xs, p + t)
<1> DEFINE S(q) == TrueState(kernel, l, h, xs, q)
           w == [t \in 1..count |-> inputs[h * count + t - 1]]
           Scanned(f) == f = [t \in 0..count |-> IF t = 0 THEN S(p) ELSE <<f[t - 1], inputs[h * count + t - 1]>>]
           D == CHOOSE f : Scanned(f)
<1>1. ASSUME NEW g PROVE Chain(g, count, S(p), w) <=> Scanned(g)
  <2>1. \A t \in 0..count : t # 0 => t \in 1..count /\ w[t] = inputs[h * count + t - 1]
    OBVIOUS
  <2>2. [t \in 0..count |-> IF t = 0 THEN S(p) ELSE <<g[t - 1], w[t]>>]
            = [t \in 0..count |-> IF t = 0 THEN S(p) ELSE <<g[t - 1], inputs[h * count + t - 1]>>]
    <3> HIDE DEF w, S
    <3> QED BY <2>1
  <2> QED BY <2>2 DEF Chain
<1>2. Scanned(D)
  <2>1. PICK g : Chain(g, count, S(p), w)
    <3> HIDE DEF w, S
    <3> QED BY ChainExists
  <2>2. Scanned(g)
    <3> HIDE DEF Scanned
    <3> QED BY <1>1, <2>1
  <2> HIDE DEF Scanned
  <2> QED BY <2>2
<1>3. ScanHead(S(p), h, inputs, count) = [state |-> D[count], out |-> [t \in 1..count |-> D[t]]]
  BY DEF ScanHead
<1>4. Chain(D, count, S(p), w)
  <2> HIDE DEF Scanned, D
  <2> QED BY <1>1, <1>2
<1>5. \A t \in 1..count : w[t] = TrueWindow(kernel, l, h, xs, p + t)
  OBVIOUS
<1> HIDE DEF D, w
<1>6. D[0] = S(p) /\ \A t \in 1..count : D[t] = <<D[t - 1], TrueWindow(kernel, l, h, xs, p + t)>>
  <2> HIDE DEF S
  <2> QED BY <1>4, <1>5, ChainIs
<1> DEFINE P == {t \in 0..count : D[t] = S(p + t)}
<1>7. 0 \in P
  <2>1. p + 0 = p /\ 0 \in 0..count
    OBVIOUS
  <2> QED BY <1>6, <2>1
<1>8. ASSUME NEW t \in 1..count, t - 1 \in P PROVE t \in P
  <2>1. t \in 0..count /\ p + (t - 1) \in Nat /\ (p + (t - 1)) + 1 = p + t
    OBVIOUS
  <2>2. S((p + (t - 1)) + 1) = <<S(p + (t - 1)), TrueWindow(kernel, l, h, xs, (p + (t - 1)) + 1)>>
    BY <2>1, TrueStateIs
  <2>3. D[t - 1] = S(p + (t - 1))
    BY <1>8
  <2> HIDE DEF S
  <2> QED BY <1>6, <2>1, <2>2, <2>3
<1>9. \A t \in 0..count : D[t] = S(p + t)
  <2> HIDE DEF P
  <2>1. \A t \in 0..count : t \in P
    BY <1>7, <1>8, Upto
  <2> QED BY <2>1 DEF P
<1>10. count \in 0..count /\ \A t \in 1..count : t \in 0..count
  OBVIOUS
<1> QED
  BY <1>3, <1>9, <1>10

-----------------------------------------------------------------------------
(* What a layer holds after p positions of inputs, and how it goes on.      *)

LinearKept(kernel, l, layer, xs, p) ==
    \A h \in Heads0 :
        /\ Ringed(kernel - 1, layer.slots[h], layer.ring, l, h, xs, p)
        /\ layer.recurrent[h] = TrueState(kernel, l, h, xs, p)

FullKept(layer, xs, p, room) ==
    /\ DOMAIN layer.rows = 1..room /\ p <= room
    /\ \A q \in 1..p : layer.rows[q] = <<q - 1, xs[q]>>

Kept(kernel, l, layer, xs, p, room) ==
    IF Layers[l] = "linear" THEN LinearKept(kernel, l, layer, xs, p) ELSE FullKept(layer, xs, p, room)

\* A layer's step r, from position p: its state behind count tokens, and its outputs.
LinearDone(kernel, l, r, xs, p, count) ==
    /\ LinearKept(kernel, l, r.layer, xs, p + count)
    /\ \A t \in 1..count : r.out[t] = [h \in Heads0 |-> TrueState(kernel, l, h, xs, p + t)]
FullDone(r, xs, p, count, room) ==
    /\ FullKept(r.layer, xs, p + count, room)
    /\ \A t \in 1..count : r.out[t] = <<"attention", (p + t) - 1, xs[p + t], TrueRows(xs, p + t)>>
LayerDone(kernel, l, r, xs, p, count, room) ==
    /\ Kept(kernel, l, r.layer, xs, p + count, room)
    /\ \A t \in 1..count : r.out[t] = TrueOut(kernel, l, xs, p + t)
LinearRowDone(kernel, l, r, xs, p) ==
    LinearKept(kernel, l, r.layer, xs, p) /\ r.out = [h \in Heads0 |-> TrueState(kernel, l, h, xs, p)]
FullRowDone(r, xs, p, room) ==
    FullKept(r.layer, xs, p, room) /\ r.out = <<"attention", p - 1, xs[p], TrueRows(xs, p)>>
LayerRowDone(kernel, l, r, xs, p, room) ==
    Kept(kernel, l, r.layer, xs, p, room) /\ r.out = TrueOut(kernel, l, xs, p)
\* The room of a cache behind count more tokens.
RoomAfter(p, count, room) == IF work.paged THEN p + count ELSE room
HasRoom(p, count, room) == IF work.paged THEN room = p ELSE p + count <= room

LEMMA LinearBatchIs ==
    ASSUME work.kernel \in Nat \ {0}, NEW l, NEW layer, NEW xs, NEW p \in Nat, NEW count \in Nat \ {0},
           NEW ys, \A t \in 1..count : ys[t] = xs[p + t], LinearKept(work.kernel, l, layer, xs, p)
    PROVE  LinearDone(work.kernel, l, LinearBatch(l, layer, ys, count), xs, p, count)
<1> DEFINE input(h) == [t \in 1..count |-> Projected(l, ys[t])[h]]
           conv == [h \in Heads0 |-> ConvBatch(layer.slots[h], layer.ring, input(h), count)]
           prepared == [i \in 0..(LinearHeads * count - 1) |-> conv[i \div count].out[(i % count) + 1]]
           scan == [h \in Heads0 |-> ScanHead(layer.recurrent[h], h, prepared, count)]
           r == LinearBatch(l, layer, ys, count)
<1>1. r = [layer |-> [ring |-> RingAfter(layer.ring, count),
                      slots |-> [h \in Heads0 |-> conv[h].slots],
                      recurrent |-> [h \in Heads0 |-> scan[h].state]],
           out |-> [t \in 1..count |-> [h \in Heads0 |-> scan[h].out[t]]]]
  BY DEF LinearBatch
<1> HIDE DEF r
<1>2. History = work.kernel - 1 /\ count \in Nat
  BY DEF History
<1>3. ASSUME NEW h \in Heads0
      PROVE  /\ Ringed(History, conv[h].slots, RingAfter(layer.ring, count), l, h, xs, p + count)
             /\ \A t \in 1..count : conv[h].out[t] = TrueWindow(work.kernel, l, h, xs, p + t)
  <2>1. \A t \in 1..count : input(h)[t] = <<l, h, xs[p + t]>>
    BY DEF Projected
  <2>2. Ringed(History, layer.slots[h], layer.ring, l, h, xs, p)
    BY <1>2 DEF LinearKept
  <2>3. conv[h] = ConvBatch(layer.slots[h], layer.ring, input(h), count)
    OBVIOUS
  <2> DEFINE v == input(h)
  <2> HIDE DEF input, conv, v
  <2>4. \A t \in 1..count : v[t] = <<l, h, xs[p + t]>>
    BY <2>1 DEF v
  <2>5. /\ Ringed(History, ConvBatch(layer.slots[h], layer.ring, v, count).slots,
                  RingAfter(layer.ring, count), l, h, xs, p + count)
        /\ \A t \in 1..count :
             ConvBatch(layer.slots[h], layer.ring, v, count).out[t] = TrueWindow(work.kernel, l, h, xs, p + t)
    BY <1>2, <2>2, <2>4, ConvIs
  <2> QED BY <2>3, <2>5 DEF v
<1> HIDE DEF input, conv
<1>4. ASSUME NEW h \in Heads0, NEW t \in 1..count
      PROVE  prepared[h * count + t - 1] = TrueWindow(work.kernel, l, h, xs, p + t)
  <2> DEFINE i == h * count + t - 1
  <2>1. LinearHeads \in Nat /\ h \in 0..(LinearHeads - 1)
    BY ForwardAssumption DEF Heads0
  <2>2. i \in 0..(LinearHeads * count - 1) /\ i \div count = h /\ i % count = t - 1
    BY <2>1, HeadByHead
  <2> HIDE DEF i
  <2>3. prepared[i] = conv[h].out[(t - 1) + 1]
    BY <2>2
  <2>4. (t - 1) + 1 = t
    OBVIOUS
  <2> HIDE DEF prepared
  <2> QED BY <1>3, <2>3, <2>4 DEF i
<1> HIDE DEF prepared
<1>5. ASSUME NEW h \in Heads0
      PROVE  /\ scan[h].state = TrueState(work.kernel, l, h, xs, p + count)
             /\ \A t \in 1..count : scan[h].out[t] = TrueState(work.kernel, l, h, xs, p + t)
  <2>1. scan[h] = ScanHead(TrueState(work.kernel, l, h, xs, p), h, prepared, count)
    BY DEF LinearKept
  <2>2. \A t \in 1..count : prepared[h * count + t - 1] = TrueWindow(work.kernel, l, h, xs, p + t)
    BY <1>4
  <2> HIDE DEF scan
  <2> QED BY <1>2, <2>1, <2>2, ScanIs
<1> HIDE DEF scan
<1>6. LinearKept(work.kernel, l, r.layer, xs, p + count)
  <2>1. ASSUME NEW h \in Heads0
        PROVE  r.layer.slots[h] = conv[h].slots /\ r.layer.recurrent[h] = scan[h].state
    BY <1>1
  <2>2. r.layer.ring = RingAfter(layer.ring, count)
    BY <1>1
  <2> QED BY <1>2, <1>3, <1>5, <2>1, <2>2 DEF LinearKept
<1>7. ASSUME NEW t \in 1..count
      PROVE  r.out[t] = [h \in Heads0 |-> TrueState(work.kernel, l, h, xs, p + t)]
  <2>1. r.out[t] = [h \in Heads0 |-> scan[h].out[t]]
    BY <1>1
  <2>2. \A h \in Heads0 : scan[h].out[t] = TrueState(work.kernel, l, h, xs, p + t)
    BY <1>5
  <2> QED BY <2>1, <2>2
<1>8. LinearDone(work.kernel, l, r, xs, p, count)
  BY <1>6, <1>7 DEF LinearDone
<1> QED
  BY <1>8 DEF r

LEMMA LinearRowIs ==
    ASSUME work.kernel \in Nat \ {0}, NEW l, NEW layer, NEW xs, NEW p \in Nat,
           LinearKept(work.kernel, l, layer, xs, p)
    PROVE  LinearRowDone(work.kernel, l, LinearRow(l, layer, xs[p + 1]), xs, p + 1)
<1> DEFINE input == Projected(l, xs[p + 1])
           core == [h \in Heads0 |-> <<layer.recurrent[h], Window(layer.slots[h], layer.ring, input[h])>>]
           r == LinearRow(l, layer, xs[p + 1])
<1>1. r = [layer |-> [ring |-> NextSlot(layer.ring),
                      slots |-> [h \in Heads0 |-> Slotted(layer.slots[h], layer.ring, input[h])],
                      recurrent |-> core],
           out |-> core]
  BY DEF LinearRow
<1>2. \A h \in Heads0 : input[h] = <<l, h, xs[p + 1]>>
  BY DEF Projected
<1> HIDE DEF r, input
<1>3. History = work.kernel - 1
  BY DEF History
<1>4. ASSUME NEW h \in Heads0
      PROVE  /\ Ringed(History, Slotted(layer.slots[h], layer.ring, input[h]), NextSlot(layer.ring), l, h, xs, p + 1)
             /\ core[h] = TrueState(work.kernel, l, h, xs, p + 1)
  <2>1. /\ Ringed(History, layer.slots[h], layer.ring, l, h, xs, p)
        /\ layer.recurrent[h] = TrueState(work.kernel, l, h, xs, p)
    BY <1>3 DEF LinearKept
  <2> DEFINE a == layer.slots[h]
             g == layer.ring
  <2> HIDE DEF a, g
  <2>2. Ringed(History, Slotted(a, g, <<l, h, xs[p + 1]>>), NextSlot(g), l, h, xs, p + 1)
    BY <2>1, RingStep DEF a, g
  <2>3. Window(a, g, <<l, h, xs[p + 1]>>) = TrueWindow(work.kernel, l, h, xs, p + 1)
    BY <2>1, WindowIs DEF a, g
  <2>4. core[h] = <<TrueState(work.kernel, l, h, xs, p), TrueWindow(work.kernel, l, h, xs, p + 1)>>
    BY <1>2, <2>1, <2>3 DEF a, g
  <2>5. core[h] = TrueState(work.kernel, l, h, xs, p + 1)
    <3> HIDE DEF core
    <3> QED BY <2>4, TrueStateIs
  <2> HIDE DEF core
  <2> QED BY <1>2, <2>2, <2>5 DEF a, g
<1>5. core = [h \in Heads0 |-> TrueState(work.kernel, l, h, xs, p + 1)]
  <2>1. core = [h \in Heads0 |-> core[h]]
    OBVIOUS
  <2> HIDE DEF core
  <2> QED BY <1>4, <2>1
<1> HIDE DEF core
<1>6. LinearKept(work.kernel, l, r.layer, xs, p + 1)
  <2>1. ASSUME NEW h \in Heads0
        PROVE  /\ r.layer.slots[h] = Slotted(layer.slots[h], layer.ring, input[h])
               /\ r.layer.recurrent[h] = core[h] /\ r.layer.ring = NextSlot(layer.ring)
    BY <1>1
  <2> QED BY <1>3, <1>4, <2>1 DEF LinearKept
<1>7. LinearRowDone(work.kernel, l, r, xs, p + 1)
  BY <1>1, <1>5, <1>6 DEF LinearRowDone
<1> QED
  BY <1>7 DEF r

(* The rows of a batch are stored before it attends.                        *)
LEMMA StoredIs ==
    ASSUME NEW layer, NEW xs, NEW p \in Nat, NEW count \in Nat, NEW room \in Nat, NEW rows,
           FullKept(layer, xs, p, room), HasRoom(p, count, room),
           \A t \in 1..count : rows[t] = <<p + t - 1, xs[p + t]>>
    PROVE  FullKept(Stored(layer, p, rows, count), xs, p + count, RoomAfter(p, count, room))
<1> DEFINE new == Stored(layer, p, rows, count).rows
           room2 == RoomAfter(p, count, room)
<1>1. new = [q \in 1..room2 |-> IF q > p /\ q <= p + count THEN rows[q - p] ELSE layer.rows[q]]
  BY DEF Stored, FullKept, RoomAfter, HasRoom
<1>2. room2 \in Nat /\ p + count <= room2
  BY DEF RoomAfter, HasRoom
<1> HIDE DEF new, room2
<1>3. ASSUME NEW q \in 1..(p + count) PROVE new[q] = <<q - 1, xs[q]>>
  <2>1. q \in 1..room2
    BY <1>2
  <2>2. CASE q > p
    <3>1. q - p \in 1..count /\ p + (q - p) = q /\ p + (q - p) - 1 = q - 1 /\ q <= p + count
      BY <2>2
    <3>2. new[q] = rows[q - p]
      BY <1>1, <2>1, <2>2, <3>1
    <3>3. rows[q - p] = <<p + (q - p) - 1, xs[p + (q - p)]>>
      BY <3>1
    <3> QED BY <3>1, <3>2, <3>3
  <2>3. CASE ~(q > p)
    <3>1. q \in 1..p
      BY <2>3
    <3>2. new[q] = layer.rows[q]
      BY <1>1, <2>1, <2>3
    <3> QED BY <3>1, <3>2 DEF FullKept
  <2> QED BY <2>2, <2>3
<1>4. DOMAIN new = 1..room2
  BY <1>1
<1> QED
  BY <1>2, <1>3, <1>4 DEF FullKept, new, room2

LEMMA AttendsIs ==
    ASSUME NEW layer, NEW xs, NEW p \in Nat, NEW room, FullKept(layer, xs, p, room), NEW q \in 0..(p - 1)
    PROVE  Attends(layer, q, xs[q + 1]) = <<"attention", (q + 1) - 1, xs[q + 1], TrueRows(xs, q + 1)>>
<1>1. (q + 1) - 1 = q /\ \A i \in 1..(q + 1) : i \in 1..p
  OBVIOUS
<1>2. \A i \in 1..(q + 1) : layer.rows[i] = <<i - 1, xs[i]>>
  BY <1>1 DEF FullKept
<1>3. [i \in 1..(q + 1) |-> layer.rows[i]] = TrueRows(xs, q + 1)
  BY <1>2 DEF TrueRows
<1> QED
  BY <1>1, <1>3 DEF Attends

LEMMA FullBatchIs ==
    ASSUME NEW layer, NEW xs, NEW p \in Nat, NEW count \in Nat, NEW room \in Nat, NEW ys,
           \A t \in 1..count : ys[t] = xs[p + t],
           FullKept(layer, xs, p, room), HasRoom(p, count, room)
    PROVE  FullDone(FullBatch(layer, p, ys, count), xs, p, count, RoomAfter(p, count, room))
<1> DEFINE rows == [t \in 1..count |-> <<p + t - 1, ys[t]>>]
           after == Stored(layer, p, rows, count)
           room2 == RoomAfter(p, count, room)
           r == FullBatch(layer, p, ys, count)
<1>1. r = [layer |-> after, out |-> [t \in 1..count |-> Attends(after, p + t - 1, ys[t])]]
  BY DEF FullBatch
<1>2. \A t \in 1..count : rows[t] = <<p + t - 1, xs[p + t]>>
  OBVIOUS
<1> HIDE DEF rows, r
<1>3. FullKept(after, xs, p + count, room2)
  BY <1>2, StoredIs
<1> HIDE DEF after, room2
<1>4. ASSUME NEW t \in 1..count
      PROVE  Attends(after, p + t - 1, ys[t]) = <<"attention", (p + t) - 1, xs[p + t], TrueRows(xs, p + t)>>
  <2> DEFINE q == p + t - 1
  <2>1. q \in 0..((p + count) - 1) /\ q + 1 = p + t /\ p + count \in Nat /\ ys[t] = xs[p + t]
    OBVIOUS
  <2>2. p + t - 1 = q
    OBVIOUS
  <2> HIDE DEF q
  <2>3. Attends(after, q, xs[q + 1]) = <<"attention", (q + 1) - 1, xs[q + 1], TrueRows(xs, q + 1)>>
    BY <1>3, <2>1, AttendsIs
  <2> QED BY ONLY <2>1, <2>2, <2>3
<1>5. FullDone(r, xs, p, count, room2)
  BY <1>1, <1>3, <1>4 DEF FullDone, r
<1> QED
  BY <1>5 DEF r, room2

LEMMA FullRowIs ==
    ASSUME NEW layer, NEW xs, NEW p \in Nat, NEW room \in Nat,
           FullKept(layer, xs, p, room), HasRoom(p, 1, room)
    PROVE  FullRowDone(FullRow(layer, p, xs[p + 1]), xs, p + 1, RoomAfter(p, 1, room))
<1> DEFINE rows == <<<<p, xs[p + 1]>>>>
           after == Stored(layer, p, rows, 1)
           room2 == RoomAfter(p, 1, room)
           r == FullRow(layer, p, xs[p + 1])
<1>1. r = [layer |-> after, out |-> Attends(after, p, xs[p + 1])]
  BY DEF FullRow
<1>2. \A t \in 1..1 : rows[t] = <<p + t - 1, xs[p + t]>>
  <2>1. \A t \in 1..1 : t = 1 /\ p + t - 1 = p
    OBVIOUS
  <2>2. rows[1] = <<p, xs[p + 1]>>
    OBVIOUS
  <2> HIDE DEF rows
  <2> QED BY <2>1, <2>2
<1> HIDE DEF rows, r
<1>3. FullKept(after, xs, p + 1, room2)
  <2>1. 1 \in Nat
    OBVIOUS
  <2> QED BY <1>2, <2>1, StoredIs
<1> HIDE DEF after, room2
<1>4. Attends(after, p, xs[p + 1]) = <<"attention", (p + 1) - 1, xs[p + 1], TrueRows(xs, p + 1)>>
  <2>1. p \in 0..((p + 1) - 1) /\ p + 1 \in Nat
    OBVIOUS
  <2> QED BY <1>3, <2>1, AttendsIs
<1>5. FullRowDone(r, xs, p + 1, room2)
  BY <1>1, <1>3, <1>4 DEF FullRowDone, r
<1> QED
  BY <1>5 DEF r, room2

-----------------------------------------------------------------------------
(* The true inputs of the layers.                                           *)

LEMMA TabledIs ==
    ASSUME NEW n \in Nat, NEW s, s = [p \in 1..n |-> s[p]]
    PROVE  Tabled(s) = s
<1> DEFINE S == {s[p] : p \in 1..n}
<1>1. s \in [1..n -> S]
  OBVIOUS
<1>2. s \in Seq(S)
  <2> HIDE DEF S
  <2> QED BY <1>1, IsSequence
<1> HIDE DEF S
<1> QED
  BY <1>2, ConcatEmptySeq DEF Tabled

LEMMA LayersAre == Len(Layers) \in Nat /\ DOMAIN Layers = 1..Len(Layers)
BY ForwardAssumption, LenProperties

\* What layer l leaves of its inputs x at n positions.
Behind(kernel, l, x, n) == [p \in 1..n |-> Residual(x[p], TrueOut(kernel, l, x, p))]
Inputs(f, m, kernel, tokens, n) ==
    f = [l \in 0..m |-> IF l = 0 THEN tokens ELSE Behind(kernel, l, f[l - 1], n)]

LEMMA InputsExist ==
    ASSUME NEW m \in Nat, NEW kernel, NEW tokens, NEW n
    PROVE  \E f : Inputs(f, m, kernel, tokens, n)
<1> DEFINE P == {k \in 0..m : \E f : Inputs(f, k, kernel, tokens, n)}
           Next(x, l) == Behind(kernel, l, x, n)
<1>1. 0 \in P
  <2> DEFINE f == [l \in 0..0 |-> tokens]
  <2>1. Inputs(f, 0, kernel, tokens, n) /\ 0 \in 0..m
    BY DEF Inputs
  <2> QED BY <2>1
<1>2. ASSUME NEW k \in 1..m, k - 1 \in P PROVE k \in P
  <2>1. PICK f : Inputs(f, k - 1, kernel, tokens, n)
    BY <1>2
  <2> DEFINE g == [l \in 0..k |-> IF l = k THEN Next(f[k - 1], k) ELSE f[l]]
  <2>2. k \in 0..m /\ k \in Nat /\ k # 0 /\ k - 1 \in Nat /\ k - 1 # k
    OBVIOUS
  <2>3. f[0] = tokens /\ \A l \in 1..(k - 1) : f[l] = Next(f[l - 1], l)
    <3>1. 0 \in 0..(k - 1) /\ \A l \in 1..(k - 1) : l \in 0..(k - 1) /\ l # 0
      BY <2>2
    <3> QED BY <2>1, <3>1 DEF Inputs
  <2>4. ASSUME NEW l \in 0..k PROVE g[l] = IF l = 0 THEN tokens ELSE Next(g[l - 1], l)
    <3> HIDE DEF Next
    <3>1. CASE l = 0
      BY <2>2, <2>3, <3>1
    <3>2. CASE l = k
      <4>1. k - 1 \in 0..k /\ g[k - 1] = f[k - 1] /\ g[l] = Next(f[k - 1], k)
        BY <2>2, <3>2
      <4> QED BY ONLY <2>2, <3>2, <4>1
    <3>3. CASE l # 0 /\ l # k
      <4>1. l \in 1..(k - 1) /\ l - 1 \in 0..k /\ l - 1 # k
        BY <2>2, <3>3
      <4>2. g[l] = f[l] /\ g[l - 1] = f[l - 1] /\ f[l] = Next(f[l - 1], l)
        BY <2>3, <3>3, <4>1
      <4> QED BY ONLY <3>3, <4>2
    <3> QED BY <3>1, <3>2, <3>3
  <2>5. g = [l \in 0..k |-> g[l]]
    OBVIOUS
  <2> HIDE DEF g
  <2>6. Inputs(g, k, kernel, tokens, n)
    BY <2>4, <2>5 DEF Inputs
  <2> QED BY <2>2, <2>6
<1>3. \A k \in 0..m : k \in P
  <2> HIDE DEF P
  <2> QED BY <1>1, <1>2, Upto
<1> QED
  BY <1>3

LEMMA TrueInputsAre ==
    ASSUME NEW kernel, NEW tokens, NEW n \in Nat
    PROVE  Inputs(TrueInputs(kernel, tokens, n), Len(Layers), kernel, tokens, n)
<1> DEFINE m == Len(Layers)
           True(f) == f = [l \in 0..m |->
                IF l = 0 THEN tokens
                ELSE Tabled([p \in 1..n |-> Residual(f[l - 1][p], TrueOut(kernel, l, f[l - 1], p))])]
           D == CHOOSE f : True(f)
<1>1. ASSUME NEW f PROVE Inputs(f, m, kernel, tokens, n) <=> True(f)
  <2>1. ASSUME NEW l
        PROVE  Tabled([p \in 1..n |-> Residual(f[l - 1][p], TrueOut(kernel, l, f[l - 1], p))])
                    = Behind(kernel, l, f[l - 1], n)
    <3> DEFINE x == f[l - 1]
               y == [p \in 1..n |-> Residual(x[p], TrueOut(kernel, l, x, p))]
    <3>1. y = [p \in 1..n |-> y[p]]
      OBVIOUS
    <3>2. y = Behind(kernel, l, x, n)
      BY DEF Behind
    <3> HIDE DEF x, y
    <3>3. Tabled(y) = y
      BY <3>1, TabledIs
    <3> QED BY <3>2, <3>3 DEF x, y
  <2>2. [l \in 0..m |-> IF l = 0 THEN tokens ELSE Behind(kernel, l, f[l - 1], n)]
            = [l \in 0..m |->
                IF l = 0 THEN tokens
                ELSE Tabled([p \in 1..n |-> Residual(f[l - 1][p], TrueOut(kernel, l, f[l - 1], p))])]
    BY <2>1
  <2> QED BY <2>2 DEF Inputs
<1>2. True(D)
  <2>1. PICK f : Inputs(f, m, kernel, tokens, n)
    <3>1. m \in Nat
      BY LayersAre
    <3> HIDE DEF m
    <3> QED BY <3>1, InputsExist
  <2>2. True(f)
    <3> HIDE DEF True
    <3> QED BY <1>1, <2>1
  <2> HIDE DEF True
  <2> QED BY <2>2
<1>3. TrueInputs(kernel, tokens, n) = D
  BY DEF TrueInputs
<1> QED
  <2> HIDE DEF True, D
  <2> QED BY <1>1, <1>2, <1>3

LEMMA TrueInputsIs ==
    ASSUME NEW kernel, NEW tokens, NEW n \in Nat
    PROVE  LET xs == TrueInputs(kernel, tokens, n) IN
           /\ xs[0] = tokens
           /\ \A l \in DOMAIN Layers, p \in 1..n :
                xs[l][p] = Residual(xs[l - 1][p], TrueOut(kernel, l, xs[l - 1], p))
<1> DEFINE xs == TrueInputs(kernel, tokens, n)
           m == Len(Layers)
<1>1. Inputs(xs, m, kernel, tokens, n)
  BY TrueInputsAre
<1>2. m \in Nat /\ DOMAIN Layers = 1..m /\ 0 \in 0..m /\ \A l \in 1..m : l \in 0..m /\ l # 0
  BY LayersAre
<1> HIDE DEF xs, m
<1>3. xs[0] = tokens /\ \A l \in 1..m : xs[l] = Behind(kernel, l, xs[l - 1], n)
  BY <1>1, <1>2 DEF Inputs
<1>4. ASSUME NEW l \in 1..m, NEW p \in 1..n
      PROVE  xs[l][p] = Residual(xs[l - 1][p], TrueOut(kernel, l, xs[l - 1], p))
  BY <1>3 DEF Behind
<1> QED
  BY <1>2, <1>3, <1>4 DEF xs

LEMMA TrueOutSame ==
    ASSUME NEW kernel \in Nat, NEW l, NEW xs, NEW ys, NEW p \in Nat \ {0}, \A i \in 1..p : xs[i] = ys[i]
    PROVE  TrueOut(kernel, l, xs, p) = TrueOut(kernel, l, ys, p)
<1>1. \A h \in Heads0 : TrueState(kernel, l, h, xs, p) = TrueState(kernel, l, h, ys, p)
  BY TrueStateSame
<1>2. [h \in Heads0 |-> TrueState(kernel, l, h, xs, p)] = [h \in Heads0 |-> TrueState(kernel, l, h, ys, p)]
  BY <1>1
<1>3. TrueRows(xs, p) = TrueRows(ys, p) /\ xs[p] = ys[p]
  BY DEF TrueRows
<1> QED
  BY <1>2, <1>3 DEF TrueOut

(* No layer looks ahead: what stands at a position depends on the tokens up  *)
(* to it.                                                                   *)
LEMMA TrueInputsSame ==
    ASSUME NEW kernel \in Nat, NEW a, NEW b, NEW n \in Nat, NEW m \in Nat, n <= m, \A p \in 1..n : a[p] = b[p]
    PROVE  \A l \in 0..Len(Layers), p \in 1..n :
                TrueInputs(kernel, a, n)[l][p] = TrueInputs(kernel, b, m)[l][p]
<1> DEFINE xs == TrueInputs(kernel, a, n)
           ys == TrueInputs(kernel, b, m)
           P == {l \in 0..Len(Layers) : \A p \in 1..n : xs[l][p] = ys[l][p]}
<1>1. /\ xs[0] = a /\ ys[0] = b
      /\ \A l \in 1..Len(Layers), p \in 1..n :
            /\ xs[l][p] = Residual(xs[l - 1][p], TrueOut(kernel, l, xs[l - 1], p))
            /\ ys[l][p] = Residual(ys[l - 1][p], TrueOut(kernel, l, ys[l - 1], p))
  <2>1. \A p \in 1..n : p \in 1..m
    OBVIOUS
  <2> QED BY <2>1, LayersAre, TrueInputsIs
<1> HIDE DEF xs, ys
<1>2. 0 \in P
  BY <1>1, LayersAre
<1>3. ASSUME NEW l \in 1..Len(Layers), l - 1 \in P PROVE l \in P
  <2> DEFINE x == xs[l - 1]
             y == ys[l - 1]
  <2>1. \A p \in 1..n : x[p] = y[p]
    BY <1>3
  <2>2. l \in 0..Len(Layers)
    BY LayersAre
  <2>3. ASSUME NEW p \in 1..n PROVE xs[l][p] = ys[l][p]
    <3>1. xs[l][p] = Residual(x[p], TrueOut(kernel, l, x, p)) /\ ys[l][p] = Residual(y[p], TrueOut(kernel, l, y, p))
      BY <1>1
    <3> HIDE DEF x, y
    <3>2. TrueOut(kernel, l, x, p) = TrueOut(kernel, l, y, p)
      <4>1. p \in Nat \ {0} /\ \A i \in 1..p : x[i] = y[i]
        BY <2>1
      <4> QED BY <4>1, TrueOutSame
    <3> QED BY <2>1, <3>1, <3>2
  <2> QED BY <2>2, <2>3
<1>4. \A l \in 0..Len(Layers) : l \in P
  <2> HIDE DEF P
  <2> QED BY <1>2, <1>3, LayersAre, Upto
<1> QED
  BY <1>4 DEF xs, ys

LEMMA KeptSame ==
    ASSUME NEW kernel \in Nat \ {0}, NEW l, NEW layer, NEW xs, NEW ys, NEW p \in Nat, NEW room,
           \A i \in 1..p : xs[i] = ys[i], Kept(kernel, l, layer, xs, p, room)
    PROVE  Kept(kernel, l, layer, ys, p, room)
<1>1. CASE Layers[l] = "linear"
  <2>1. LinearKept(kernel, l, layer, xs, p)
    BY <1>1 DEF Kept
  <2>2. ASSUME NEW h \in Heads0 PROVE Ringed(kernel - 1, layer.slots[h], layer.ring, l, h, ys, p)
    <3> DEFINE n == kernel - 1
    <3>1. Ringed(n, layer.slots[h], layer.ring, l, h, xs, p)
      BY <2>1 DEF LinearKept
    <3>2. \A k \in 1..n : Input(l, h, xs, p - n + k) = Input(l, h, ys, p - n + k)
      <4>1. \A k \in 1..n : ~(p - n + k < 1) => p - n + k \in 1..p
        OBVIOUS
      <4> QED BY <4>1 DEF Input
    <3> HIDE DEF n
    <3>3. Ringed(n, layer.slots[h], layer.ring, l, h, ys, p)
      BY <3>1, <3>2 DEF Ringed
    <3> QED BY <3>3 DEF n
  <2>3. \A h \in Heads0 : layer.recurrent[h] = TrueState(kernel, l, h, ys, p)
    <3>1. \A h \in Heads0 : TrueState(kernel, l, h, xs, p) = TrueState(kernel, l, h, ys, p)
      BY TrueStateSame
    <3> QED BY <2>1, <3>1 DEF LinearKept
  <2>4. LinearKept(kernel, l, layer, ys, p)
    BY <2>2, <2>3 DEF LinearKept
  <2> QED BY <1>1, <2>4 DEF Kept
<1>2. CASE Layers[l] # "linear"
  BY <1>2 DEF Kept, FullKept
<1> QED
  BY <1>1, <1>2

-----------------------------------------------------------------------------
(* Whole forward passes.                                                    *)

LEMMA LayerBatchIs ==
    ASSUME work.kernel \in Nat \ {0}, NEW l, NEW layer, NEW xs, NEW p \in Nat, NEW count \in Nat \ {0},
           NEW room \in Nat, HasRoom(p, count, room),
           NEW ys, \A t \in 1..count : ys[t] = xs[p + t], Kept(work.kernel, l, layer, xs, p, room)
    PROVE  LayerDone(work.kernel, l, LayerBatch(l, layer, p, ys, count), xs, p, count, RoomAfter(p, count, room))
<1> DEFINE room2 == RoomAfter(p, count, room)
           r == LayerBatch(l, layer, p, ys, count)
<1>1. CASE Layers[l] = "linear"
  <2>1. LinearKept(work.kernel, l, layer, xs, p) /\ r = LinearBatch(l, layer, ys, count)
    BY <1>1 DEF Kept, LayerBatch
  <2>2. LinearDone(work.kernel, l, LinearBatch(l, layer, ys, count), xs, p, count)
    BY <2>1, LinearBatchIs
  <2> HIDE DEF r, room2
  <2>3. LinearDone(work.kernel, l, r, xs, p, count)
    BY <2>1, <2>2
  <2>4. LayerDone(work.kernel, l, r, xs, p, count, room2)
    BY <1>1, <2>3 DEF LinearDone, LayerDone, Kept, TrueOut
  <2> QED BY <2>4 DEF r, room2
<1>2. CASE Layers[l] # "linear"
  <2>1. FullKept(layer, xs, p, room) /\ r = FullBatch(layer, p, ys, count) /\ count \in Nat
    BY <1>2 DEF Kept, LayerBatch
  <2>2. FullDone(FullBatch(layer, p, ys, count), xs, p, count, room2)
    BY <2>1, FullBatchIs
  <2> HIDE DEF r, room2
  <2>3. FullDone(r, xs, p, count, room2)
    BY <2>1, <2>2
  <2>4. LayerDone(work.kernel, l, r, xs, p, count, room2)
    BY <1>2, <2>3 DEF FullDone, LayerDone, Kept, TrueOut
  <2> QED BY <2>4 DEF r, room2
<1> QED
  BY <1>1, <1>2

LEMMA LayerRowIs ==
    ASSUME work.kernel \in Nat \ {0}, NEW l, NEW layer, NEW xs, NEW p \in Nat,
           NEW room \in Nat, HasRoom(p, 1, room), Kept(work.kernel, l, layer, xs, p, room)
    PROVE  LayerRowDone(work.kernel, l, LayerRow(l, layer, p, xs[p + 1]), xs, p + 1, RoomAfter(p, 1, room))
<1> DEFINE room2 == RoomAfter(p, 1, room)
           r == LayerRow(l, layer, p, xs[p + 1])
<1>1. CASE Layers[l] = "linear"
  <2>1. LinearKept(work.kernel, l, layer, xs, p) /\ r = LinearRow(l, layer, xs[p + 1])
    BY <1>1 DEF Kept, LayerRow
  <2>2. LinearRowDone(work.kernel, l, LinearRow(l, layer, xs[p + 1]), xs, p + 1)
    BY <2>1, LinearRowIs
  <2> HIDE DEF r, room2
  <2>3. LinearRowDone(work.kernel, l, r, xs, p + 1)
    BY <2>1, <2>2
  <2>4. LayerRowDone(work.kernel, l, r, xs, p + 1, room2)
    BY <1>1, <2>3 DEF LinearRowDone, LayerRowDone, Kept, TrueOut
  <2> QED BY <2>4 DEF r, room2
<1>2. CASE Layers[l] # "linear"
  <2>1. FullKept(layer, xs, p, room) /\ r = FullRow(layer, p, xs[p + 1])
    BY <1>2 DEF Kept, LayerRow
  <2>2. FullRowDone(FullRow(layer, p, xs[p + 1]), xs, p + 1, room2)
    BY <2>1, FullRowIs
  <2> HIDE DEF r, room2
  <2>3. FullRowDone(r, xs, p + 1, room2)
    BY <2>1, <2>2
  <2>4. LayerRowDone(work.kernel, l, r, xs, p + 1, room2)
    BY <1>2, <2>3 DEF FullRowDone, LayerRowDone, Kept, TrueOut
  <2> QED BY <2>4 DEF r, room2
<1> QED
  BY <1>1, <1>2

\* The batch behind layer l, from the batch before it.
Passed(seq, l, x, count) ==
    [t \in 1..count |-> Residual(x[t], LayerBatch(l, seq.state[l], seq.at, x, count).out[t])]
Batched(f, m, seq, tokens, count) ==
    f = [l \in 0..m |-> IF l = 0 THEN tokens ELSE Passed(seq, l, f[l - 1], count)]

LEMMA BatchedExists ==
    ASSUME NEW m \in Nat, NEW seq, NEW tokens, NEW count
    PROVE  \E f : Batched(f, m, seq, tokens, count)
<1> DEFINE P == {k \in 0..m : \E f : Batched(f, k, seq, tokens, count)}
           Next(x, l) == Passed(seq, l, x, count)
<1>1. 0 \in P
  <2> DEFINE f == [l \in 0..0 |-> tokens]
  <2>1. Batched(f, 0, seq, tokens, count) /\ 0 \in 0..m
    BY DEF Batched
  <2> QED BY <2>1
<1>2. ASSUME NEW k \in 1..m, k - 1 \in P PROVE k \in P
  <2>1. PICK f : Batched(f, k - 1, seq, tokens, count)
    BY <1>2
  <2> DEFINE g == [l \in 0..k |-> IF l = k THEN Next(f[k - 1], k) ELSE f[l]]
  <2>2. k \in 0..m /\ k \in Nat /\ k # 0 /\ k - 1 \in Nat /\ k - 1 # k
    OBVIOUS
  <2>3. f[0] = tokens /\ \A l \in 1..(k - 1) : f[l] = Next(f[l - 1], l)
    <3>1. 0 \in 0..(k - 1) /\ \A l \in 1..(k - 1) : l \in 0..(k - 1) /\ l # 0
      BY <2>2
    <3> QED BY <2>1, <3>1 DEF Batched
  <2>4. ASSUME NEW l \in 0..k PROVE g[l] = IF l = 0 THEN tokens ELSE Next(g[l - 1], l)
    <3> HIDE DEF Next
    <3>1. CASE l = 0
      BY <2>2, <2>3, <3>1
    <3>2. CASE l = k
      <4>1. k - 1 \in 0..k /\ g[k - 1] = f[k - 1] /\ g[l] = Next(f[k - 1], k)
        BY <2>2, <3>2
      <4> QED BY ONLY <2>2, <3>2, <4>1
    <3>3. CASE l # 0 /\ l # k
      <4>1. l \in 1..(k - 1) /\ l - 1 \in 0..k /\ l - 1 # k
        BY <2>2, <3>3
      <4>2. g[l] = f[l] /\ g[l - 1] = f[l - 1] /\ f[l] = Next(f[l - 1], l)
        BY <2>3, <3>3, <4>1
      <4> QED BY ONLY <3>3, <4>2
    <3> QED BY <3>1, <3>2, <3>3
  <2>5. g = [l \in 0..k |-> g[l]]
    OBVIOUS
  <2> HIDE DEF g
  <2>6. Batched(g, k, seq, tokens, count)
    BY <2>4, <2>5 DEF Batched
  <2> QED BY <2>2, <2>6
<1>3. \A k \in 0..m : k \in P
  <2> HIDE DEF P
  <2> QED BY <1>1, <1>2, Upto
<1> QED
  BY <1>3

LEMMA BatchForwardPasses ==
    ASSUME NEW seq, NEW tokens, NEW count \in Nat
    PROVE  \E f : /\ Batched(f, Len(Layers), seq, tokens, count)
                  /\ BatchForward(seq, tokens, count).hidden = f[Len(Layers)][count]
                  /\ \A l \in DOMAIN Layers :
                        BatchForward(seq, tokens, count).state[l]
                            = LayerBatch(l, seq.state[l], seq.at, f[l - 1], count).layer
<1> DEFINE m == Len(Layers)
           Out(f, l) == LayerBatch(l, seq.state[l], seq.at, f[l - 1], count).out
           Forwarded(f) == f = [l \in 0..m |->
                IF l = 0 THEN tokens ELSE Tabled([t \in 1..count |-> Residual(f[l - 1][t], Out(f, l)[t])])]
           D == CHOOSE f : Forwarded(f)
<1>1. ASSUME NEW f PROVE Batched(f, m, seq, tokens, count) <=> Forwarded(f)
  <2>1. ASSUME NEW l
        PROVE  Tabled([t \in 1..count |-> Residual(f[l - 1][t], Out(f, l)[t])]) = Passed(seq, l, f[l - 1], count)
    <3> DEFINE y == [t \in 1..count |-> Residual(f[l - 1][t], Out(f, l)[t])]
    <3>1. y = [t \in 1..count |-> y[t]]
      OBVIOUS
    <3>2. y = Passed(seq, l, f[l - 1], count)
      BY DEF Passed
    <3> HIDE DEF y
    <3>3. Tabled(y) = y
      BY <3>1, TabledIs
    <3> QED BY <3>2, <3>3 DEF y
  <2> HIDE DEF Out
  <2>2. [l \in 0..m |-> IF l = 0 THEN tokens ELSE Passed(seq, l, f[l - 1], count)]
            = [l \in 0..m |->
                IF l = 0 THEN tokens ELSE Tabled([t \in 1..count |-> Residual(f[l - 1][t], Out(f, l)[t])])]
    BY <2>1
  <2> QED BY <2>2 DEF Batched
<1>2. Forwarded(D)
  <2>1. PICK f : Batched(f, m, seq, tokens, count)
    <3>1. m \in Nat
      BY LayersAre
    <3> HIDE DEF m
    <3> QED BY <3>1, BatchedExists
  <2>2. Forwarded(f)
    <3> HIDE DEF Forwarded
    <3> QED BY <1>1, <2>1
  <2> HIDE DEF Forwarded
  <2> QED BY <2>2
<1>3. BatchForward(seq, tokens, count)
        = [state |-> [l \in DOMAIN Layers |-> LayerBatch(l, seq.state[l], seq.at, D[l - 1], count).layer],
           hidden |-> D[m][count]]
  BY DEF BatchForward
<1>4. Batched(D, m, seq, tokens, count)
  <2> HIDE DEF Forwarded, D
  <2> QED BY <1>1, <1>2
<1> HIDE DEF D
<1> QED
  BY <1>3, <1>4

\* What xs says of the layers' outputs at position q.
TrueAt(kernel, xs, q) ==
    \A l \in DOMAIN Layers : xs[l][q] = Residual(xs[l - 1][q], TrueOut(kernel, l, xs[l - 1], q))
\* The states of a sequence behind the inputs xs of its p tokens.
StateKept(kernel, state, xs, p, room) ==
    \A l \in DOMAIN Layers : Kept(kernel, l, state[l], xs[l - 1], p, room)
ForwardDone(kernel, f, xs, p, room) ==
    f.hidden = xs[Len(Layers)][p] /\ StateKept(kernel, f.state, xs, p, room)

LEMMA BatchForwardIs ==
    ASSUME work.kernel \in Nat \ {0}, NEW seq, NEW p \in Nat, seq.at = p, NEW count \in Nat \ {0}, NEW xs, NEW tokens,
           NEW room \in Nat, HasRoom(p, count, room),
           \A t \in 1..count : tokens[t] = xs[0][p + t] /\ TrueAt(work.kernel, xs, p + t),
           StateKept(work.kernel, seq.state, xs, p, room)
    PROVE  ForwardDone(work.kernel, BatchForward(seq, tokens, count), xs, p + count, RoomAfter(p, count, room))
<1> DEFINE m == Len(Layers)
           g == BatchForward(seq, tokens, count)
           room2 == RoomAfter(p, count, room)
<1>1. PICK f : /\ Batched(f, m, seq, tokens, count)
               /\ g.hidden = f[m][count]
               /\ \A l \in DOMAIN Layers : g.state[l] = LayerBatch(l, seq.state[l], seq.at, f[l - 1], count).layer
  BY BatchForwardPasses
<1>2. m \in Nat /\ DOMAIN Layers = 1..m /\ 0 \in 0..m /\ \A l \in 1..m : l \in 0..m /\ l # 0
  BY LayersAre
<1> HIDE DEF m, g, room2
<1>3. f[0] = tokens /\ \A l \in 1..m : f[l] = Passed(seq, l, f[l - 1], count)
  BY <1>1, <1>2 DEF Batched
<1> DEFINE P == {l \in 0..m : \A t \in 1..count : f[l][t] = xs[l][p + t]}
<1>4. 0 \in P
  BY <1>2, <1>3
<1>5. ASSUME NEW l \in 1..m, l - 1 \in P
      PROVE  l \in P /\ Kept(work.kernel, l, g.state[l], xs[l - 1], p + count, room2)
  <2> DEFINE x == f[l - 1]
             ts == xs[l - 1]
             layer == seq.state[l]
             r == LayerBatch(l, layer, p, x, count)
  <2>1. \A t \in 1..count : x[t] = ts[p + t]
    BY <1>5
  <2>2. Kept(work.kernel, l, layer, ts, p, room)
    BY <1>2 DEF StateKept
  <2>3. \A t \in 1..count : f[l][t] = Residual(x[t], r.out[t])
    BY <1>3 DEF Passed
  <2>4. \A t \in 1..count : xs[l][p + t] = Residual(ts[p + t], TrueOut(work.kernel, l, ts, p + t))
    BY <1>2 DEF TrueAt
  <2>5. g.state[l] = r.layer
    BY <1>1, <1>2
  <2> HIDE DEF x, ts, layer
  <2>6. LayerDone(work.kernel, l, r, ts, p, count, room2)
    BY <2>1, <2>2, LayerBatchIs DEF room2
  <2> HIDE DEF r
  <2>7. \A t \in 1..count : f[l][t] = xs[l][p + t]
    BY <2>1, <2>3, <2>4, <2>6 DEF LayerDone
  <2>8. l \in P
    BY <1>2, <2>7
  <2>9. Kept(work.kernel, l, r.layer, ts, p + count, room2)
    BY <2>6 DEF LayerDone
  <2> HIDE DEF P
  <2> QED BY <2>5, <2>8, <2>9 DEF ts
<1>6. \A l \in 0..m : l \in P
  <2> HIDE DEF P
  <2> QED BY <1>2, <1>4, <1>5, Upto
<1>7. StateKept(work.kernel, g.state, xs, p + count, room2)
  <2>1. \A l \in 1..m : l - 1 \in 0..m
    BY <1>2
  <2> HIDE DEF P
  <2> QED BY <1>2, <1>5, <1>6, <2>1 DEF StateKept
<1>8. f[m][count] = xs[m][p + count]
  <2>1. m \in P /\ count \in 1..count
    BY <1>2, <1>6
  <2> QED BY <2>1
<1>9. ForwardDone(work.kernel, g, xs, p + count, room2)
  BY <1>1, <1>7, <1>8 DEF ForwardDone, m
<1> QED
  BY <1>9 DEF g, room2

\* One token of each row behind layer l.
Starts(rows) == [s \in rows |-> Prompts[s][work.seqs[s].at + 1]]
RowPassed(rows, l, x) ==
    [s \in rows |-> Residual(x[s], LayerRow(l, work.seqs[s].state[l], work.seqs[s].at, x[s]).out)]
Rowed(f, m, rows) == f = [l \in 0..m |-> IF l = 0 THEN Starts(rows) ELSE RowPassed(rows, l, f[l - 1])]

LEMMA RowedExists ==
    ASSUME NEW m \in Nat, NEW rows
    PROVE  \E f : Rowed(f, m, rows)
<1> DEFINE P == {k \in 0..m : \E f : Rowed(f, k, rows)}
           Next(x, l) == RowPassed(rows, l, x)
           start == Starts(rows)
<1>1. 0 \in P
  <2> DEFINE f == [l \in 0..0 |-> start]
  <2>1. Rowed(f, 0, rows) /\ 0 \in 0..m
    BY DEF Rowed
  <2> QED BY <2>1
<1>2. ASSUME NEW k \in 1..m, k - 1 \in P PROVE k \in P
  <2>1. PICK f : Rowed(f, k - 1, rows)
    BY <1>2
  <2> DEFINE g == [l \in 0..k |-> IF l = k THEN Next(f[k - 1], k) ELSE f[l]]
  <2>2. k \in 0..m /\ k \in Nat /\ k # 0 /\ k - 1 \in Nat /\ k - 1 # k
    OBVIOUS
  <2>3. f[0] = start /\ \A l \in 1..(k - 1) : f[l] = Next(f[l - 1], l)
    <3>1. 0 \in 0..(k - 1) /\ \A l \in 1..(k - 1) : l \in 0..(k - 1) /\ l # 0
      BY <2>2
    <3> QED BY <2>1, <3>1 DEF Rowed
  <2> HIDE DEF start
  <2>4. ASSUME NEW l \in 0..k PROVE g[l] = IF l = 0 THEN start ELSE Next(g[l - 1], l)
    <3> HIDE DEF Next
    <3>1. CASE l = 0
      BY <2>2, <2>3, <3>1
    <3>2. CASE l = k
      <4>1. k - 1 \in 0..k /\ g[k - 1] = f[k - 1] /\ g[l] = Next(f[k - 1], k)
        BY <2>2, <3>2
      <4> QED BY ONLY <2>2, <3>2, <4>1
    <3>3. CASE l # 0 /\ l # k
      <4>1. l \in 1..(k - 1) /\ l - 1 \in 0..k /\ l - 1 # k
        BY <2>2, <3>3
      <4>2. g[l] = f[l] /\ g[l - 1] = f[l - 1] /\ f[l] = Next(f[l - 1], l)
        BY <2>3, <3>3, <4>1
      <4> QED BY ONLY <3>3, <4>2
    <3> QED BY <3>1, <3>2, <3>3
  <2>5. g = [l \in 0..k |-> g[l]]
    OBVIOUS
  <2> HIDE DEF g
  <2>6. Rowed(g, k, rows)
    BY <2>4, <2>5 DEF Rowed, start
  <2> QED BY <2>2, <2>6
<1>3. \A k \in 0..m : k \in P
  <2> HIDE DEF P
  <2> QED BY <1>1, <1>2, Upto
<1> QED
  BY <1>3

LEMMA RowsForwardPasses ==
    ASSUME NEW rows
    PROVE  \E f : /\ Rowed(f, Len(Layers), rows)
                  /\ \A s \in rows :
                        /\ RowsForward(rows)[s].hidden = f[Len(Layers)][s]
                        /\ \A l \in DOMAIN Layers :
                             RowsForward(rows)[s].state[l]
                                = LayerRow(l, work.seqs[s].state[l], work.seqs[s].at, f[l - 1][s]).layer
<1> DEFINE m == Len(Layers)
           Out(f, l, s) == LayerRow(l, work.seqs[s].state[l], work.seqs[s].at, f[l - 1][s]).out
           Forwarded(f) == f = [l \in 0..m |->
                [s \in rows |->
                    IF l = 0 THEN Prompts[s][work.seqs[s].at + 1] ELSE Residual(f[l - 1][s], Out(f, l, s))]]
           D == CHOOSE f : Forwarded(f)
<1>1. ASSUME NEW f PROVE Rowed(f, m, rows) <=> Forwarded(f)
  <2>1. ASSUME NEW l
        PROVE  (IF l = 0 THEN Starts(rows) ELSE RowPassed(rows, l, f[l - 1]))
                 = [s \in rows |->
                    IF l = 0 THEN Prompts[s][work.seqs[s].at + 1] ELSE Residual(f[l - 1][s], Out(f, l, s))]
    BY DEF Starts, RowPassed
  <2> HIDE DEF Out
  <2>2. [l \in 0..m |-> IF l = 0 THEN Starts(rows) ELSE RowPassed(rows, l, f[l - 1])]
            = [l \in 0..m |->
                [s \in rows |->
                    IF l = 0 THEN Prompts[s][work.seqs[s].at + 1] ELSE Residual(f[l - 1][s], Out(f, l, s))]]
    BY <2>1
  <2> QED BY <2>2 DEF Rowed
<1>2. Forwarded(D)
  <2>1. PICK f : Rowed(f, m, rows)
    <3>1. m \in Nat
      BY LayersAre
    <3> HIDE DEF m
    <3> QED BY <3>1, RowedExists
  <2>2. Forwarded(f)
    <3> HIDE DEF Forwarded
    <3> QED BY <1>1, <2>1
  <2> HIDE DEF Forwarded
  <2> QED BY <2>2
<1>3. RowsForward(rows)
        = [s \in rows |->
            [state |-> [l \in DOMAIN Layers |->
                            LayerRow(l, work.seqs[s].state[l], work.seqs[s].at, D[l - 1][s]).layer],
             hidden |-> D[m][s]]]
  BY DEF RowsForward
<1>4. Rowed(D, m, rows)
  <2> HIDE DEF Forwarded, D
  <2> QED BY <1>1, <1>2
<1> HIDE DEF D
<1>5. ASSUME NEW s \in rows
      PROVE  /\ RowsForward(rows)[s].hidden = D[m][s]
             /\ \A l \in DOMAIN Layers :
                  RowsForward(rows)[s].state[l]
                    = LayerRow(l, work.seqs[s].state[l], work.seqs[s].at, D[l - 1][s]).layer
  <2> DEFINE at(l) == LayerRow(l, work.seqs[s].state[l], work.seqs[s].at, D[l - 1][s]).layer
  <2>1. RowsForward(rows)[s] = [state |-> [l \in DOMAIN Layers |-> at(l)], hidden |-> D[m][s]]
    BY <1>3
  <2> HIDE DEF at
  <2>2. RowsForward(rows)[s].hidden = D[m][s] /\ \A l \in DOMAIN Layers : RowsForward(rows)[s].state[l] = at(l)
    BY <2>1
  <2> QED BY <2>2 DEF at
<1> QED
  BY <1>4, <1>5

LEMMA RowsForwardIs ==
    ASSUME work.kernel \in Nat \ {0}, NEW rows, NEW s \in rows, NEW p \in Nat, work.seqs[s].at = p, NEW xs,
           NEW room \in Nat, HasRoom(p, 1, room), Prompts[s][p + 1] = xs[0][p + 1], TrueAt(work.kernel, xs, p + 1),
           StateKept(work.kernel, work.seqs[s].state, xs, p, room)
    PROVE  ForwardDone(work.kernel, RowsForward(rows)[s], xs, p + 1, RoomAfter(p, 1, room))
<1> DEFINE m == Len(Layers)
           g == RowsForward(rows)[s]
           room2 == RoomAfter(p, 1, room)
<1>1. PICK f : /\ Rowed(f, m, rows)
               /\ g.hidden = f[m][s]
               /\ \A l \in DOMAIN Layers : g.state[l] = LayerRow(l, work.seqs[s].state[l], p, f[l - 1][s]).layer
  BY RowsForwardPasses
<1>2. m \in Nat /\ DOMAIN Layers = 1..m /\ 0 \in 0..m /\ \A l \in 1..m : l \in 0..m /\ l # 0
  BY LayersAre
<1> HIDE DEF m, g, room2
<1>3. f[0] = Starts(rows) /\ \A l \in 1..m : f[l] = RowPassed(rows, l, f[l - 1])
  BY <1>1, <1>2 DEF Rowed
<1> DEFINE P == {l \in 0..m : f[l][s] = xs[l][p + 1]}
<1>4. 0 \in P
  BY <1>2, <1>3 DEF Starts
<1>5. ASSUME NEW l \in 1..m, l - 1 \in P
      PROVE  l \in P /\ Kept(work.kernel, l, g.state[l], xs[l - 1], p + 1, room2)
  <2> DEFINE ts == xs[l - 1]
             layer == work.seqs[s].state[l]
             r == LayerRow(l, layer, p, ts[p + 1])
  <2>1. f[l - 1][s] = ts[p + 1]
    BY <1>5
  <2>2. Kept(work.kernel, l, layer, ts, p, room)
    BY <1>2 DEF StateKept
  <2>3. f[l][s] = Residual(ts[p + 1], r.out)
    <3>1. f[l] = RowPassed(rows, l, f[l - 1])
      BY <1>3
    <3>2. RowPassed(rows, l, f[l - 1])[s] = Residual(f[l - 1][s], LayerRow(l, layer, p, f[l - 1][s]).out)
      BY DEF RowPassed
    <3> HIDE DEF ts, layer
    <3> QED BY ONLY <2>1, <3>1, <3>2
  <2>4. xs[l][p + 1] = Residual(ts[p + 1], TrueOut(work.kernel, l, ts, p + 1))
    BY <1>2 DEF TrueAt
  <2>5. g.state[l] = r.layer
    BY <1>1, <1>2, <2>1
  <2> HIDE DEF ts, layer
  <2>6. LayerRowDone(work.kernel, l, r, ts, p + 1, room2)
    BY <2>2, LayerRowIs DEF room2
  <2> HIDE DEF r
  <2>7. f[l][s] = xs[l][p + 1]
    BY <2>3, <2>4, <2>6 DEF LayerRowDone
  <2>8. l \in P
    BY <1>2, <2>7
  <2>9. Kept(work.kernel, l, r.layer, ts, p + 1, room2)
    BY <2>6 DEF LayerRowDone
  <2> HIDE DEF P
  <2> QED BY <2>5, <2>8, <2>9 DEF ts
<1>6. \A l \in 0..m : l \in P
  <2> HIDE DEF P
  <2> QED BY <1>2, <1>4, <1>5, Upto
<1>7. StateKept(work.kernel, g.state, xs, p + 1, room2)
  <2>1. \A l \in 1..m : l - 1 \in 0..m
    BY <1>2
  <2> HIDE DEF P
  <2> QED BY <1>2, <1>5, <1>6, <2>1 DEF StateKept
<1>8. f[m][s] = xs[m][p + 1]
  BY <1>2, <1>6
<1>9. ForwardDone(work.kernel, g, xs, p + 1, room2)
  BY <1>1, <1>7, <1>8 DEF ForwardDone, m
<1> QED
  BY <1>9 DEF g, room2

-----------------------------------------------------------------------------
(* The invariant: every sequence that has not failed holds, in every layer,  *)
(* what its prompt makes of the positions it has taken, and the snapshot what *)
(* its own tokens make.                                                      *)

Whole(kernel, s) == TrueInputs(kernel, Prompts[s], Capacity(s))
Room(paged, s, p) == IF paged THEN p ELSE Capacity(s)

SeqShape(seq) == seq = [at |-> seq.at, state |-> seq.state, hidden |-> seq.hidden, failed |-> seq.failed]

Holds(kernel, xs, p, seq, room) ==
    /\ p > 0 => seq.hidden = xs[Len(Layers)][p]
    /\ StateKept(kernel, seq.state, xs, p, room)

SeqKept(kernel, paged, s, seq) ==
    /\ seq.at \in 0..Capacity(s)
    /\ ~seq.failed => Holds(kernel, Whole(kernel, s), seq.at, seq, Room(paged, s, seq.at))

SnapshotKept(kernel, snapshot) ==
    /\ snapshot.count \in Nat \ {0}
    /\ Holds(kernel, TrueInputs(kernel, snapshot.tokens, snapshot.count), snapshot.count, snapshot, snapshot.count)

ForwardShape ==
    /\ work = [part |-> "forward", kernel |-> work.kernel, paged |-> work.paged, snapshot |-> work.snapshot,
               seqs |-> work.seqs]
    /\ work.kernel \in ConvKernels
    /\ work.seqs = [s \in DOMAIN Prompts |-> work.seqs[s]]
    /\ \A s \in DOMAIN Prompts : SeqShape(work.seqs[s])

ForwardInv ==
    /\ ForwardShape
    /\ \A s \in DOMAIN Prompts : SeqKept(work.kernel, work.paged, s, work.seqs[s])
    /\ work.snapshot # <<>> => SnapshotKept(work.kernel, work.snapshot[1])

LEMMA Sizes ==
    ASSUME ForwardInv
    PROVE  /\ work.kernel \in Nat \ {0}
           /\ \A s \in DOMAIN Prompts : Capacity(s) \in Nat /\ work.seqs[s].at \in 0..Capacity(s)
BY ForwardAssumption DEF ForwardInv, ForwardShape, SeqKept, Capacity

\* What the same prefix of tokens makes is the same.
LEMMA HoldsSame ==
    ASSUME NEW kernel \in Nat \ {0}, NEW a, NEW b, NEW n \in Nat, NEW m \in Nat, NEW p \in Nat,
           p <= n, p <= m, \A q \in 1..p : a[q] = b[q], NEW seq, NEW room,
           Holds(kernel, TrueInputs(kernel, a, n), p, seq, room)
    PROVE  Holds(kernel, TrueInputs(kernel, b, m), p, seq, room)
<1> DEFINE xs == TrueInputs(kernel, a, n)
           ys == TrueInputs(kernel, b, m)
           zs == TrueInputs(kernel, a, p)
<1>1. \A l \in 0..Len(Layers), q \in 1..p : xs[l][q] = ys[l][q]
  <2>1. \A l \in 0..Len(Layers), q \in 1..p : zs[l][q] = xs[l][q]
    BY TrueInputsSame
  <2>2. \A l \in 0..Len(Layers), q \in 1..p : zs[l][q] = ys[l][q]
    BY TrueInputsSame
  <2> HIDE DEF xs, ys, zs
  <2> QED BY <2>1, <2>2
<1> HIDE DEF xs, ys, zs
<1>2. Holds(kernel, xs, p, seq, room)
  BY DEF xs
<1>3. p > 0 => seq.hidden = ys[Len(Layers)][p]
  <2>1. Len(Layers) \in 0..Len(Layers) /\ (p > 0 => p \in 1..p)
    BY LayersAre
  <2> QED BY <1>1, <1>2, <2>1 DEF Holds
<1>4. StateKept(kernel, seq.state, ys, p, room)
  <2>1. ASSUME NEW l \in DOMAIN Layers PROVE Kept(kernel, l, seq.state[l], ys[l - 1], p, room)
    <3> DEFINE x == xs[l - 1]
               y == ys[l - 1]
               layer == seq.state[l]
    <3>1. l - 1 \in 0..Len(Layers)
      BY LayersAre
    <3>2. \A q \in 1..p : x[q] = y[q]
      BY <1>1, <3>1
    <3>3. Kept(kernel, l, layer, x, p, room)
      BY <1>2 DEF Holds, StateKept
    <3> HIDE DEF x, y, layer
    <3>4. Kept(kernel, l, layer, y, p, room)
      BY <3>2, <3>3, KeptSame
    <3> QED BY <3>4 DEF y, layer
  <2> QED BY <2>1 DEF StateKept
<1>5. Holds(kernel, ys, p, seq, room)
  BY <1>3, <1>4 DEF Holds
<1> QED
  BY <1>5 DEF ys

LEMMA WholeIs ==
    ASSUME NEW kernel \in Nat \ {0}, NEW s \in DOMAIN Prompts, NEW q \in 1..Capacity(s)
    PROVE  Whole(kernel, s)[0][q] = Prompts[s][q] /\ TrueAt(kernel, Whole(kernel, s), q)
<1> DEFINE a == Prompts[s]
           n == Capacity(s)
           xs == TrueInputs(kernel, a, n)
<1>1. n \in Nat
  BY ForwardAssumption DEF Capacity
<1> HIDE DEF a, n
<1>2. xs[0] = a /\ \A l \in DOMAIN Layers, i \in 1..n :
            xs[l][i] = Residual(xs[l - 1][i], TrueOut(kernel, l, xs[l - 1], i))
  BY <1>1, TrueInputsIs
<1>3. q \in 1..n
  BY DEF n
<1> HIDE DEF xs
<1>4. xs[0][q] = a[q] /\ TrueAt(kernel, xs, q)
  BY <1>2, <1>3 DEF TrueAt
<1> QED
  BY <1>4 DEF xs, a, n, Whole

(* A step that only advances sequences.                                     *)
LEMMA SeqsReplaced ==
    ASSUME ForwardInv, NEW new, work' = [work EXCEPT !.seqs = new], new = [s \in DOMAIN Prompts |-> new[s]],
           \A s \in DOMAIN Prompts : SeqShape(new[s]) /\ SeqKept(work.kernel, work.paged, s, new[s])
    PROVE  ForwardInv'
<1>1. work' = [part |-> "forward", kernel |-> work.kernel, paged |-> work.paged, snapshot |-> work.snapshot,
               seqs |-> new]
  BY DEF ForwardInv, ForwardShape
<1>2. ForwardShape'
  BY <1>1 DEF ForwardInv, ForwardShape
<1>3. (\A s \in DOMAIN Prompts : SeqKept(work.kernel, work.paged, s, work.seqs[s]))'
  BY <1>1
<1>4. (work.snapshot # <<>> => SnapshotKept(work.kernel, work.snapshot[1]))'
  BY <1>1 DEF ForwardInv
<1> QED
  BY <1>2, <1>3, <1>4 DEF ForwardInv

LEMMA SeqReplaced ==
    ASSUME ForwardInv, NEW s \in DOMAIN Prompts, NEW seq, work' = [work EXCEPT !.seqs[s] = seq],
           SeqShape(seq), SeqKept(work.kernel, work.paged, s, seq)
    PROVE  ForwardInv'
<1> DEFINE new == [work.seqs EXCEPT ![s] = seq]
<1>1. work' = [work EXCEPT !.seqs = new]
  BY DEF ForwardInv, ForwardShape
<1>2. \A r \in DOMAIN Prompts : new[r] = IF r = s THEN seq ELSE work.seqs[r]
  BY DEF ForwardInv, ForwardShape
<1>3. new = [r \in DOMAIN Prompts |-> new[r]]
  BY DEF ForwardInv, ForwardShape
<1> HIDE DEF new
<1>4. \A r \in DOMAIN Prompts : SeqShape(new[r]) /\ SeqKept(work.kernel, work.paged, r, new[r])
  BY <1>2 DEF ForwardInv, ForwardShape
<1> QED
  BY <1>1, <1>3, <1>4, SeqsReplaced

Seq4(at, state, hidden, failed) == [at |-> at, state |-> state, hidden |-> hidden, failed |-> failed]

LEMMA Seq4Shape ==
    ASSUME NEW at, NEW state, NEW hidden, NEW failed
    PROVE  /\ SeqShape(Seq4(at, state, hidden, failed))
           /\ Seq4(at, state, hidden, failed).at = at /\ Seq4(at, state, hidden, failed).failed = failed
<1> DEFINE seq == Seq4(at, state, hidden, failed)
<1>1. seq.at = at /\ seq.state = state /\ seq.hidden = hidden /\ seq.failed = failed
  BY DEF Seq4
<1>2. seq = [at |-> at, state |-> state, hidden |-> hidden, failed |-> failed]
  BY DEF Seq4
<1> HIDE DEF seq
<1>3. SeqShape(seq)
  BY <1>1, <1>2 DEF SeqShape
<1> QED
  BY <1>1, <1>3 DEF seq

LEMMA Seq4Advanced ==
    ASSUME NEW at, NEW state, NEW hidden, NEW failed, NEW count, NEW f
    PROVE  Advanced(Seq4(at, state, hidden, failed), count, f) = Seq4(at + count, f.state, f.hidden, failed)
<1> DEFINE b == at + count
           x == f.state
           y == f.hidden
           seq == Seq4(at, state, hidden, failed)
<1>1. seq.at + count = b
  BY DEF Seq4
<1>2. Advanced(seq, count, f) = [[[seq EXCEPT !.at = b] EXCEPT !.state = x] EXCEPT !.hidden = y]
  BY <1>1 DEF Advanced
<1> HIDE DEF b, x, y
<1>3. [seq EXCEPT !.at = b] = Seq4(b, state, hidden, failed)
  BY DEF Seq4
<1>4. [Seq4(b, state, hidden, failed) EXCEPT !.state = x] = Seq4(b, x, hidden, failed)
  BY DEF Seq4
<1>5. [Seq4(b, x, hidden, failed) EXCEPT !.hidden = y] = Seq4(b, x, y, failed)
  BY DEF Seq4
<1> HIDE DEF seq
<1>6. Advanced(seq, count, f) = Seq4(b, x, y, failed)
  BY ONLY <1>2, <1>3, <1>4, <1>5
<1> QED BY <1>6 DEF b, x, y, seq

LEMMA Seq4Failed ==
    ASSUME NEW seq, SeqShape(seq), NEW other
    PROVE  SeqShape(Failed(seq, other)) /\ Failed(seq, other).at = seq.at /\ Failed(seq, other).failed
<1> DEFINE yes == TRUE
           new == Failed(seq, other)
<1>1. PICK a, b, c, d : seq = Seq4(a, b, c, d)
  BY DEF SeqShape, Seq4
<1>2. new = [[seq EXCEPT !.failed = yes] EXCEPT !.state = other]
  BY DEF Failed
<1> HIDE DEF yes
<1>3. [Seq4(a, b, c, d) EXCEPT !.failed = yes] = Seq4(a, b, c, yes)
  BY ONLY TRUE DEF Seq4
<1>4. [Seq4(a, b, c, yes) EXCEPT !.state = other] = Seq4(a, other, c, yes)
  BY ONLY TRUE DEF Seq4
<1> HIDE DEF new
<1>5. new = Seq4(a, other, c, yes)
  BY ONLY <1>1, <1>2, <1>3, <1>4
<1>6. SeqShape(new) /\ new.at = a /\ new.failed = yes
  BY ONLY <1>5, Seq4Shape
<1>7. seq.at = a
  BY ONLY <1>1, Seq4Shape
<1> QED BY <1>6, <1>7 DEF new, yes

LEMMA AdvancedKept ==
    ASSUME NEW kernel, NEW paged, NEW s, NEW seq, SeqShape(seq), seq.at \in Nat, NEW count \in Nat \ {0},
           Capacity(s) \in Nat, seq.at + count <= Capacity(s), NEW f,
           ForwardDone(kernel, f, Whole(kernel, s), seq.at + count, Room(paged, s, seq.at + count))
    PROVE  SeqShape(Advanced(seq, count, f)) /\ SeqKept(kernel, paged, s, Advanced(seq, count, f))
<1> DEFINE new == Advanced(seq, count, f)
           p == seq.at + count
<1>1. new = [at |-> p, state |-> f.state, hidden |-> f.hidden, failed |-> seq.failed]
  <2>1. PICK a, b, c, d : seq = Seq4(a, b, c, d)
    BY DEF SeqShape, Seq4
  <2>2. new = Seq4(a + count, f.state, f.hidden, d) /\ seq.at = a /\ seq.failed = d
    BY <2>1, Seq4Shape, Seq4Advanced DEF new
  <2> QED BY <2>2 DEF p, Seq4
<1>2. p \in 0..Capacity(s)
  OBVIOUS
<1> HIDE DEF new, p
<1>3. SeqShape(new) /\ new.at = p /\ new.state = f.state /\ new.hidden = f.hidden
  BY <1>1 DEF SeqShape
<1>4. Holds(kernel, Whole(kernel, s), p, new, Room(paged, s, p))
  BY <1>3 DEF ForwardDone, Holds, p
<1>5. SeqKept(kernel, paged, s, new)
  BY <1>2, <1>3, <1>4 DEF SeqKept
<1> QED
  BY <1>3, <1>5 DEF new

\* What a step may assume of a sequence that runs.
LEMMA Running ==
    ASSUME ForwardInv, NEW s \in DOMAIN Prompts, Runs(s)
    PROVE  /\ SeqShape(work.seqs[s]) /\ work.seqs[s].at \in Nat /\ Capacity(s) \in Nat
           /\ Left(s) = Capacity(s) - work.seqs[s].at
           /\ Holds(work.kernel, Whole(work.kernel, s), work.seqs[s].at, work.seqs[s],
                    Room(work.paged, s, work.seqs[s].at))
BY Sizes DEF ForwardInv, ForwardShape, SeqKept, Runs, Left, Capacity

\* The room of a running sequence's caches.
LEMMA Rooms ==
    ASSUME NEW s, NEW p \in Nat, NEW count \in Nat, Capacity(s) \in Nat, p + count <= Capacity(s)
    PROVE  LET room == Room(work.paged, s, p) IN
           /\ room \in Nat /\ HasRoom(p, count, room)
           /\ RoomAfter(p, count, room) = Room(work.paged, s, p + count)
BY DEF Room, HasRoom, RoomAfter

LEMMA BatchForwardedKeeps ==
    ASSUME ForwardInv, NEW s \in DOMAIN Prompts, BatchForwarded(s)
    PROVE  ForwardInv'
<1>1. Runs(s)
  BY DEF BatchForwarded
<1> DEFINE seq == work.seqs[s]
           p == seq.at
           xs == Whole(work.kernel, s)
           tokens(count) == [t \in 1..count |-> Prompts[s][p + t]]
<1>2. PICK count \in 1..Left(s) :
        work' = [work EXCEPT !.seqs[s] = Advanced(seq, count, BatchForward(seq, tokens(count), count))]
  <2>1. PICK count \in 1..Left(s) :
            work' = [work EXCEPT !.seqs[s] = Advanced(@, count, BatchForward(@, tokens(count), count))]
    BY DEF BatchForwarded
  <2>2. [work EXCEPT !.seqs[s] = Advanced(@, count, BatchForward(@, tokens(count), count))]
            = [work EXCEPT !.seqs[s] = Advanced(seq, count, BatchForward(seq, tokens(count), count))]
    OBVIOUS
  <2> QED BY <2>1, <2>2
<1>3. /\ SeqShape(seq) /\ p \in Nat /\ Capacity(s) \in Nat
      /\ Left(s) = Capacity(s) - p
      /\ Holds(work.kernel, xs, p, seq, Room(work.paged, s, p))
  BY <1>1, Running
<1>4. work.kernel \in Nat \ {0}
  BY Sizes
<1> DEFINE ts == tokens(count)
           room == Room(work.paged, s, p)
<1>5. \A t \in 1..count : ts[t] = Prompts[s][p + t]
  OBVIOUS
<1> HIDE DEF ts, seq, xs
<1>6. count \in Nat \ {0} /\ p + count <= Capacity(s) /\ \A t \in 1..count : p + t \in 1..Capacity(s)
  BY <1>2, <1>3
<1>7. room \in Nat /\ HasRoom(p, count, room) /\ RoomAfter(p, count, room) = Room(work.paged, s, p + count)
  BY <1>3, <1>6, Rooms
<1>8. \A t \in 1..count : ts[t] = xs[0][p + t] /\ TrueAt(work.kernel, xs, p + t)
  BY <1>4, <1>5, <1>6, WholeIs DEF xs
<1>9. StateKept(work.kernel, seq.state, xs, p, room)
  BY <1>3 DEF Holds
<1> DEFINE f == BatchForward(seq, ts, count)
<1>10. ForwardDone(work.kernel, f, xs, p + count, Room(work.paged, s, p + count))
  <2> HIDE DEF room
  <2>1. ForwardDone(work.kernel, f, xs, p + count, RoomAfter(p, count, room))
    BY <1>3, <1>4, <1>6, <1>7, <1>8, <1>9, BatchForwardIs
  <2> QED BY <1>7, <2>1
<1> HIDE DEF f
<1>11. SeqShape(Advanced(seq, count, f)) /\ SeqKept(work.kernel, work.paged, s, Advanced(seq, count, f))
  BY <1>3, <1>6, <1>10, AdvancedKept DEF xs
<1>12. work' = [work EXCEPT !.seqs[s] = Advanced(seq, count, f)]
  BY <1>2 DEF f, ts, seq
<1> QED
  BY <1>11, <1>12, SeqReplaced

\* One token of a row, alone or with the others.
LEMMA RowAdvanced ==
    ASSUME ForwardInv, NEW rows, NEW s \in rows, s \in DOMAIN Prompts, Runs(s), Left(s) > 0
    PROVE  LET new == Advanced(work.seqs[s], 1, RowsForward(rows)[s]) IN
           SeqShape(new) /\ SeqKept(work.kernel, work.paged, s, new)
<1> DEFINE seq == work.seqs[s]
           p == seq.at
           xs == Whole(work.kernel, s)
           room == Room(work.paged, s, p)
           f == RowsForward(rows)[s]
<1>1. /\ SeqShape(seq) /\ p \in Nat /\ Capacity(s) \in Nat
      /\ Left(s) = Capacity(s) - p
      /\ Holds(work.kernel, xs, p, seq, room)
  BY Running
<1>2. work.kernel \in Nat \ {0}
  BY Sizes
<1>3. 1 \in Nat \ {0} /\ 1 \in Nat /\ p + 1 <= Capacity(s) /\ p + 1 \in 1..Capacity(s)
  BY <1>1
<1>4. room \in Nat /\ HasRoom(p, 1, room) /\ RoomAfter(p, 1, room) = Room(work.paged, s, p + 1)
  BY <1>1, <1>3, Rooms
<1>5. Prompts[s][p + 1] = xs[0][p + 1] /\ TrueAt(work.kernel, xs, p + 1)
  BY <1>2, <1>3, WholeIs
<1>6. StateKept(work.kernel, work.seqs[s].state, xs, p, room)
  BY <1>1 DEF Holds
<1>7. ForwardDone(work.kernel, f, xs, p + 1, Room(work.paged, s, p + 1))
  <2> HIDE DEF room, xs
  <2>1. ForwardDone(work.kernel, f, xs, p + 1, RoomAfter(p, 1, room))
    BY <1>1, <1>2, <1>4, <1>5, <1>6, RowsForwardIs
  <2> QED BY <1>4, <2>1
<1> HIDE DEF f
<1>8. SeqShape(Advanced(seq, 1, f)) /\ SeqKept(work.kernel, work.paged, s, Advanced(seq, 1, f))
  BY <1>1, <1>3, <1>7, AdvancedKept
<1> QED
  BY <1>8 DEF f

LEMMA TokenForwardedKeeps ==
    ASSUME ForwardInv, NEW s \in DOMAIN Prompts, TokenForwarded(s)
    PROVE  ForwardInv'
<1> DEFINE new == Advanced(work.seqs[s], 1, RowsForward({s})[s])
<1>1. SeqShape(new) /\ SeqKept(work.kernel, work.paged, s, new)
  <2>1. s \in {s} /\ Runs(s) /\ Left(s) > 0
    BY DEF TokenForwarded
  <2> HIDE DEF new
  <2> QED BY <2>1, RowAdvanced DEF new
<1>2. work' = [work EXCEPT !.seqs[s] = new]
  BY DEF TokenForwarded, TokenForward
<1> HIDE DEF new
<1> QED
  BY <1>1, <1>2, SeqReplaced

LEMMA RowsForwardedKeeps ==
    ASSUME ForwardInv, RowsForwarded
    PROVE  ForwardInv'
<1> DEFINE step(s) == Advanced(work.seqs[s], 1, RowsForward(DOMAIN Prompts)[s])
           new == [s \in DOMAIN Prompts |-> step(s)]
<1>1. ASSUME NEW s \in DOMAIN Prompts
      PROVE  SeqShape(step(s)) /\ SeqKept(work.kernel, work.paged, s, step(s))
  <2>1. Runs(s) /\ Left(s) > 0
    BY DEF RowsForwarded
  <2> HIDE DEF step
  <2> QED BY <2>1, RowAdvanced DEF step
<1>2. work' = [work EXCEPT !.seqs = new]
  BY DEF RowsForwarded
<1> HIDE DEF step
<1>3. \A s \in DOMAIN Prompts : new[s] = step(s)
  OBVIOUS
<1>4. new = [s \in DOMAIN Prompts |-> new[s]]
  OBVIOUS
<1> HIDE DEF new
<1>5. \A s \in DOMAIN Prompts : SeqShape(new[s]) /\ SeqKept(work.kernel, work.paged, s, new[s])
  BY <1>1, <1>3
<1> QED
  BY <1>2, <1>4, <1>5, SeqsReplaced

\* The states of a failed batch are not used again.
LEMMA RowsFailKeeps ==
    ASSUME ForwardInv, NEW s \in DOMAIN Prompts, RowsFail(s)
    PROVE  ForwardInv'
<1> DEFINE passed(r) == LayerRow(1, work.seqs[r].state[1], work.seqs[r].at, Prompts[r][work.seqs[r].at + 1]).layer
           state(r) == IF r = s THEN work.seqs[r].state ELSE [work.seqs[r].state EXCEPT ![1] = passed(r)]
           left(r) == Failed(work.seqs[r], state(r))
           new == [r \in DOMAIN Prompts |-> left(r)]
<1>1. work' = [work EXCEPT !.seqs = new]
  BY DEF RowsFail
<1> HIDE DEF state
<1>2. ASSUME NEW r \in DOMAIN Prompts
      PROVE  SeqShape(left(r)) /\ SeqKept(work.kernel, work.paged, r, left(r))
  <2> DEFINE seq == work.seqs[r]
  <2>1. SeqShape(seq) /\ SeqKept(work.kernel, work.paged, r, seq)
    BY DEF ForwardInv, ForwardShape
  <2> DEFINE other == state(r)
  <2> HIDE DEF seq, other
  <2>2. SeqShape(Failed(seq, other)) /\ Failed(seq, other).at = seq.at /\ Failed(seq, other).failed
    BY ONLY <2>1, Seq4Failed
  <2>3. left(r) = Failed(seq, other)
    BY DEF left, seq, other
  <2> HIDE DEF left
  <2>4. SeqShape(left(r)) /\ SeqKept(work.kernel, work.paged, r, left(r))
    BY <2>1, <2>2, <2>3 DEF SeqKept
  <2> QED BY <2>4
<1> HIDE DEF left
<1>3. new = [r \in DOMAIN Prompts |-> new[r]] /\ \A r \in DOMAIN Prompts : new[r] = left(r)
  OBVIOUS
<1> HIDE DEF new
<1>4. \A r \in DOMAIN Prompts : SeqShape(new[r]) /\ SeqKept(work.kernel, work.paged, r, new[r])
  BY <1>2, <1>3
<1> QED
  BY <1>1, <1>3, <1>4, SeqsReplaced

LEMMA CutKept ==
    ASSUME NEW layer, NEW cut, NEW xs, NEW p \in Nat, NEW room, FullKept(layer, xs, p, room),
           DOMAIN cut.rows = 1..p, \A q \in 1..p : cut.rows[q] = layer.rows[q]
    PROVE  FullKept(cut, xs, p, p)
<1>1. \A q \in 1..p : cut.rows[q] = <<q - 1, xs[q]>>
  BY DEF FullKept
<1>2. p <= p
  OBVIOUS
<1> QED
  BY ONLY <1>1, <1>2, DOMAIN cut.rows = 1..p DEF FullKept

LEMMA CapturedKeeps ==
    ASSUME ForwardInv, NEW s \in DOMAIN Prompts, Captured(s)
    PROVE  ForwardInv'
<1> DEFINE seq == work.seqs[s]
           p == seq.at
           kept(l) == IF Layers[l] = "linear" THEN seq.state[l] ELSE [rows |-> [q \in 1..p |-> seq.state[l].rows[q]]]
           state == [l \in DOMAIN Layers |-> kept(l)]
           tokens == FirstTokens(s, p)
           snapshot == [count |-> p, tokens |-> tokens, hidden |-> seq.hidden, state |-> state]
           room == Room(work.paged, s, p)
<1>1. Runs(s) /\ p > 0 /\ work' = [work EXCEPT !.snapshot = <<snapshot>>]
  BY DEF Captured
<1>2. p \in Nat \ {0} /\ p <= Capacity(s) /\ Capacity(s) \in Nat
      /\ Holds(work.kernel, Whole(work.kernel, s), p, seq, room)
  BY <1>1, Running, Sizes
<1>3. work.kernel \in Nat \ {0}
  BY Sizes
<1>4. \A q \in 1..p : Prompts[s][q] = tokens[q]
  BY DEF FirstTokens
<1>5. Holds(work.kernel, TrueInputs(work.kernel, tokens, p), p, seq, room)
  <2>1. p <= p /\ p \in Nat
    BY <1>2
  <2>2. Holds(work.kernel, TrueInputs(work.kernel, Prompts[s], Capacity(s)), p, seq, room)
    BY <1>2 DEF Whole
  <2> HIDE DEF p, tokens, seq, room
  <2> QED BY <1>2, <1>3, <1>4, <2>1, <2>2, HoldsSame
<1> DEFINE xs == TrueInputs(work.kernel, tokens, p)
<1>6. StateKept(work.kernel, state, xs, p, p)
  <2> HIDE DEF xs, p
  <2>1. ASSUME NEW l \in DOMAIN Layers PROVE Kept(work.kernel, l, kept(l), xs[l - 1], p, p)
    <3>1. Kept(work.kernel, l, seq.state[l], xs[l - 1], p, room)
      BY <1>5 DEF Holds, StateKept, xs
    <3> HIDE DEF room
    <3>2. CASE Layers[l] = "linear"
      BY <3>1, <3>2 DEF Kept
    <3>3. CASE Layers[l] # "linear"
      <4>1. FullKept(seq.state[l], xs[l - 1], p, room)
        BY <3>1, <3>3 DEF Kept
      <4>2. kept(l).rows = [q \in 1..p |-> seq.state[l].rows[q]]
        BY <3>3
      <4> HIDE DEF kept, seq
      <4>3. DOMAIN kept(l).rows = 1..p /\ \A q \in 1..p : kept(l).rows[q] = seq.state[l].rows[q]
        BY ONLY <4>2
      <4>4. FullKept(kept(l), xs[l - 1], p, p)
        BY ONLY <1>2, <4>1, <4>3, CutKept
      <4> QED BY <3>3, <4>4 DEF Kept
    <3> QED BY <3>2, <3>3
  <2>2. \A l \in DOMAIN Layers : state[l] = kept(l)
    OBVIOUS
  <2> HIDE DEF state, kept
  <2> QED BY <2>1, <2>2 DEF StateKept
<1> HIDE DEF xs, state
<1>7. seq.hidden = xs[Len(Layers)][p]
  BY <1>2, <1>5 DEF Holds, xs
<1> HIDE DEF tokens, p
<1>8. SnapshotKept(work.kernel, snapshot)
  <2>1. Holds(work.kernel, xs, p, snapshot, p)
    BY <1>6, <1>7 DEF Holds
  <2>2. snapshot.count = p /\ snapshot.tokens = tokens
    OBVIOUS
  <2> HIDE DEF snapshot
  <2> QED BY <1>2, <2>1, <2>2 DEF SnapshotKept, xs
<1> HIDE DEF snapshot
<1>9. work' = [part |-> "forward", kernel |-> work.kernel, paged |-> work.paged, snapshot |-> <<snapshot>>,
               seqs |-> work.seqs]
  BY <1>1 DEF ForwardInv, ForwardShape
<1>10. ForwardShape'
  BY <1>9 DEF ForwardInv, ForwardShape
<1>11. (\A r \in DOMAIN Prompts : SeqKept(work.kernel, work.paged, r, work.seqs[r]))'
  BY <1>9 DEF ForwardInv
<1>12. (work.snapshot # <<>> => SnapshotKept(work.kernel, work.snapshot[1]))'
  BY <1>8, <1>9
<1> QED
  BY <1>10, <1>11, <1>12 DEF ForwardInv

LEMMA SnapshotRestoredKeeps ==
    ASSUME ForwardInv, NEW s \in DOMAIN Prompts, SnapshotRestored(s)
    PROVE  ForwardInv'
<1> DEFINE seq == work.seqs[s]
           snapshot == work.snapshot[1]
           p == snapshot.count
           layer(l) == Restored(Layers[l], snapshot.state[l], seq.state[l])
           state == [l \in DOMAIN Layers |-> layer(l)]
           f == [state |-> state, hidden |-> snapshot.hidden]
           xs == Whole(work.kernel, s)
           room == Room(work.paged, s, p)
           new == Advanced(seq, p, f)
<1>1. /\ Runs(s) /\ seq.at = 0 /\ work.snapshot # <<>>
      /\ p <= Len(Prompts[s]) /\ snapshot.tokens = FirstTokens(s, p)
      /\ work' = [work EXCEPT !.seqs[s] = new]
  BY DEF SnapshotRestored
<1>2. /\ SeqShape(seq) /\ Capacity(s) \in Nat
      /\ Holds(work.kernel, xs, 0, seq, Room(work.paged, s, 0))
  BY <1>1, Running
<1>3. /\ p \in Nat \ {0} /\ p <= Capacity(s)
      /\ Holds(work.kernel, TrueInputs(work.kernel, snapshot.tokens, p), p, snapshot, p)
  BY <1>1 DEF ForwardInv, SnapshotKept, Capacity
<1>4. work.kernel \in Nat \ {0}
  BY Sizes
<1>5. Holds(work.kernel, xs, p, snapshot, p)
  <2>1. \A q \in 1..p : snapshot.tokens[q] = Prompts[s][q]
    BY <1>1 DEF FirstTokens
  <2>2. p <= p /\ p \in Nat
    BY <1>3
  <2> HIDE DEF p, snapshot
  <2>3. Holds(work.kernel, TrueInputs(work.kernel, Prompts[s], Capacity(s)), p, snapshot, p)
    BY <1>2, <1>3, <1>4, <2>1, <2>2, HoldsSame
  <2> QED BY <2>3 DEF Whole
<1> HIDE DEF xs, p, snapshot
<1>6. StateKept(work.kernel, state, xs, p, room)
  <2>1. ASSUME NEW l \in DOMAIN Layers PROVE Kept(work.kernel, l, layer(l), xs[l - 1], p, room)
    <3> DEFINE source == snapshot.state[l]
               destination == seq.state[l]
    <3>1. /\ Kept(work.kernel, l, source, xs[l - 1], p, p)
          /\ Kept(work.kernel, l, destination, xs[l - 1], 0, Room(work.paged, s, 0))
      BY <1>2, <1>5 DEF Holds, StateKept
    <3>2. layer(l) = Restored(Layers[l], source, destination)
      OBVIOUS
    <3> HIDE DEF source, destination, layer, seq, room
    <3>3. CASE Layers[l] = "linear"
      BY <3>1, <3>2, <3>3 DEF Kept, Restored
    <3>4. CASE Layers[l] # "linear"
      <4>1. Layers[l] = "full"
        BY <3>4, ForwardAssumption, LayersAre, ElementOfSeq
      <4>2. /\ FullKept(source, xs[l - 1], p, p)
            /\ FullKept(destination, xs[l - 1], 0, Room(work.paged, s, 0))
        BY <3>1, <3>4 DEF Kept
      <4>3. CASE work.paged
        <5>1. layer(l) = source /\ room = p
          BY <3>2, <4>1, <4>3 DEF Restored, room, Room
        <5> QED BY <3>4, <4>2, <5>1 DEF Kept
      <4>4. CASE ~work.paged
        <5>1. /\ layer(l) = [rows |-> [q \in DOMAIN destination.rows |->
                                IF q \in DOMAIN source.rows THEN source.rows[q] ELSE destination.rows[q]]]
              /\ room = Capacity(s) /\ DOMAIN destination.rows = 1..Capacity(s)
          BY <3>2, <4>1, <4>2, <4>4 DEF Restored, room, Room, FullKept
        <5>2. /\ DOMAIN layer(l).rows = 1..Capacity(s)
              /\ \A q \in 1..p : layer(l).rows[q] = source.rows[q]
          <6>1. layer(l).rows = [q \in 1..Capacity(s) |->
                                  IF q \in DOMAIN source.rows THEN source.rows[q] ELSE destination.rows[q]]
            BY <5>1
          <6>2. DOMAIN source.rows = 1..p /\ \A q \in 1..p : q \in 1..Capacity(s)
            BY <1>2, <1>3, <4>2 DEF FullKept
          <6> QED BY ONLY <6>1, <6>2
        <5>3. FullKept(layer(l), xs[l - 1], p, Capacity(s))
          BY <1>3, <4>2, <5>2 DEF FullKept
        <5> QED BY <3>4, <5>1, <5>3 DEF Kept
      <4> QED BY <4>3, <4>4
    <3> QED BY <3>3, <3>4
  <2>2. \A l \in DOMAIN Layers : state[l] = layer(l)
    OBVIOUS
  <2> HIDE DEF state, layer
  <2> QED BY <2>1, <2>2 DEF StateKept
<1> HIDE DEF state, seq
<1>7. f.state = state /\ f.hidden = snapshot.hidden
  OBVIOUS
<1> HIDE DEF f, room
<1>8. seq.at \in Nat /\ seq.at + p = p /\ seq.at + p <= Capacity(s)
  BY <1>1, <1>3 DEF seq
<1>9. ForwardDone(work.kernel, f, xs, p, room)
  BY <1>3, <1>5, <1>6, <1>7 DEF ForwardDone, Holds
<1>10. SeqShape(new) /\ SeqKept(work.kernel, work.paged, s, new)
  <2>1. ForwardDone(work.kernel, f, Whole(work.kernel, s), seq.at + p, Room(work.paged, s, seq.at + p))
    BY <1>8, <1>9 DEF xs, room
  <2> QED BY <1>2, <1>3, <1>8, <2>1, AdvancedKept
<1> HIDE DEF new
<1> QED
  BY <1>1, <1>10, SeqReplaced

-----------------------------------------------------------------------------
(* The first states, and what the invariant says.                           *)

LEMMA EmptyKept ==
    ASSUME NEW kernel \in Nat \ {0}, NEW s \in DOMAIN Prompts, NEW paged, NEW xs
    PROVE  StateKept(kernel, EmptyState(s, kernel, paged), xs, 0, Room(paged, s, 0))
<1> DEFINE n == kernel - 1
           room == Room(paged, s, 0)
           state == EmptyState(s, kernel, paged)
<1>1. n \in Nat /\ kernel - 2 = n - 1 /\ Capacity(s) \in Nat
  BY ForwardAssumption DEF Capacity
<1>2. \A l \in DOMAIN Layers : state[l] = EmptyLayer(l, s, kernel, paged)
  BY DEF EmptyState
<1> HIDE DEF state
<1>3. ASSUME NEW l \in DOMAIN Layers PROVE Kept(kernel, l, state[l], xs[l - 1], 0, room)
  <2> DEFINE x == xs[l - 1]
             slots == [i \in 0..(n - 1) |-> Zero]
  <2>1. CASE Layers[l] = "linear"
    <3>1. state[l] = [ring |-> 0, slots |-> [h \in Heads0 |-> slots], recurrent |-> [h \in Heads0 |-> Zero]]
      BY <1>1, <1>2, <2>1 DEF EmptyLayer
    <3>2. ASSUME NEW h \in Heads0 PROVE Ringed(n, slots, 0, l, h, x, 0)
      <4>1. ASSUME NEW k \in 1..n PROVE slots[(0 + k - 1) % n] = Input(l, h, x, 0 - n + k)
        <5>1. n \in Nat \ {0} /\ k - 1 \in Nat /\ k - 1 < n /\ k - 1 < 2 * n /\ 0 + k - 1 = k - 1 /\ 0 - n + k < 1
          BY <1>1
        <5>2. (k - 1) % n = k - 1
          BY <5>1, RemainderBelow
        <5>3. k - 1 \in 0..(n - 1)
          BY <5>1
        <5> HIDE DEF n
        <5>4. slots[(0 + k - 1) % n] = Zero
          BY <5>1, <5>2, <5>3
        <5> QED BY <5>1, <5>4 DEF Input
      <4>2. slots = [i \in 0..(n - 1) |-> slots[i]] /\ 0 \in Nat /\ (n = 0 \/ 0 < n)
        BY <1>1
      <4> HIDE DEF slots, n, x
      <4> QED BY <4>1, <4>2 DEF Ringed
    <3>3. \A h \in Heads0 : TrueState(kernel, l, h, x, 0) = Zero
      <4>1. 0 \in Nat
        OBVIOUS
      <4> QED BY <4>1, TrueStateIs
    <3> HIDE DEF slots, x
    <3>4. LinearKept(kernel, l, state[l], x, 0)
      BY <3>1, <3>2, <3>3 DEF LinearKept
    <3> QED BY <2>1, <3>4 DEF Kept, x
  <2>2. CASE Layers[l] # "linear"
    <3>1. state[l] = [rows |-> [p \in 1..room |-> Zero]]
      BY <1>2, <2>2 DEF EmptyLayer, Room
    <3>2. room \in Nat
      BY <1>1 DEF Room
    <3> HIDE DEF room, x
    <3>3. FullKept(state[l], x, 0, room)
      BY <3>1, <3>2 DEF FullKept
    <3> QED BY <2>2, <3>3 DEF Kept, x
  <2> QED BY <2>1, <2>2
<1> QED
  BY <1>3 DEF StateKept, state

LEMMA ForwardInvInit == ForwardInit => ForwardInv
<1> SUFFICES ASSUME ForwardInit PROVE ForwardInv
  OBVIOUS
<1> DEFINE first(s, kernel, paged) ==
             [at |-> 0, state |-> EmptyState(s, kernel, paged), hidden |-> Zero, failed |-> FALSE]
<1>1. PICK kernel \in ConvKernels, paged \in BOOLEAN :
        work = [part |-> "forward", kernel |-> kernel, paged |-> paged, snapshot |-> <<>>,
                seqs |-> [s \in DOMAIN Prompts |-> first(s, kernel, paged)]]
  BY DEF ForwardInit
<1>2. kernel \in Nat \ {0}
  BY ForwardAssumption
<1>3. ASSUME NEW s \in DOMAIN Prompts
      PROVE  SeqShape(first(s, kernel, paged)) /\ SeqKept(kernel, paged, s, first(s, kernel, paged))
  <2> DEFINE seq == first(s, kernel, paged)
             state == EmptyState(s, kernel, paged)
             xs == Whole(kernel, s)
  <2>1. seq.at = 0 /\ seq.state = state
    OBVIOUS
  <2>2. SeqShape(seq)
    <3> HIDE DEF state
    <3> QED BY DEF SeqShape
  <2>3. 0 \in 0..Capacity(s)
    BY ForwardAssumption DEF Capacity
  <2> HIDE DEF xs
  <2>4. StateKept(kernel, state, xs, 0, Room(paged, s, 0))
    BY <1>2, EmptyKept
  <2> HIDE DEF seq, state
  <2>5. Holds(kernel, xs, 0, seq, Room(paged, s, 0))
    BY <2>1, <2>4 DEF Holds
  <2>6. SeqKept(kernel, paged, s, seq)
    BY <2>1, <2>3, <2>5 DEF SeqKept, xs
  <2> QED BY <2>2, <2>6 DEF seq
<1> HIDE DEF first
<1>4. /\ work.kernel = kernel /\ work.paged = paged /\ work.snapshot = <<>>
      /\ work.seqs = [s \in DOMAIN Prompts |-> first(s, kernel, paged)]
  BY <1>1
<1>5. \A s \in DOMAIN Prompts : work.seqs[s] = first(s, kernel, paged)
  BY <1>4
<1>6. ForwardShape
  <2>1. work = [part |-> "forward", kernel |-> work.kernel, paged |-> work.paged, snapshot |-> work.snapshot,
                seqs |-> work.seqs]
    BY <1>1
  <2>2. work.seqs = [s \in DOMAIN Prompts |-> work.seqs[s]]
    BY <1>4
  <2> QED BY <1>3, <1>4, <1>5, <2>1, <2>2 DEF ForwardShape
<1> QED
  BY <1>3, <1>4, <1>5, <1>6 DEF ForwardInv

LEMMA ForwardInvNext == ForwardInv /\ [ForwardNext]_work => ForwardInv'
<1> SUFFICES ASSUME ForwardInv, [ForwardNext]_work PROVE ForwardInv'
  OBVIOUS
<1>1. CASE \E s \in DOMAIN Prompts :
             BatchForwarded(s) \/ TokenForwarded(s) \/ RowsFail(s) \/ Captured(s) \/ SnapshotRestored(s)
  BY <1>1, BatchForwardedKeeps, TokenForwardedKeeps, RowsFailKeeps, CapturedKeeps, SnapshotRestoredKeeps
<1>2. CASE RowsForwarded
  BY <1>2, RowsForwardedKeeps
<1>3. CASE UNCHANGED work
  BY <1>3 DEF ForwardInv, ForwardShape
<1> QED
  BY <1>1, <1>2, <1>3 DEF ForwardNext

LEMMA ForwardInvIsDecode == ForwardInv => PrefillIsDecode
<1> SUFFICES ASSUME ForwardInv, NEW s \in DOMAIN Prompts, Runs(s), work.seqs[s].at > 0
             PROVE  LET seq == work.seqs[s]
                        xs == TrueInputs(work.kernel, FirstTokens(s, seq.at), seq.at)
                    IN  /\ seq.hidden = xs[Len(Layers)][seq.at]
                        /\ \A l \in DOMAIN Layers :
                            LET layer == seq.state[l] IN
                            IF Layers[l] = "linear"
                            THEN \A h \in Heads0 :
                                    /\ layer.recurrent[h] = TrueState(work.kernel, l, h, xs[l - 1], seq.at)
                                    /\ \A k \in 1..History :
                                        layer.slots[h][(layer.ring + k - 1) % History]
                                            = TrueWindow(work.kernel, l, h, xs[l - 1], seq.at)[k + 1]
                            ELSE [p \in 1..seq.at |-> layer.rows[p]] = TrueRows(xs[l - 1], seq.at)
  BY DEF PrefillIsDecode
<1> DEFINE seq == work.seqs[s]
           p == seq.at
           tokens == FirstTokens(s, p)
           xs == TrueInputs(work.kernel, tokens, p)
           room == Room(work.paged, s, p)
           n == History
<1>1. /\ p \in Nat \ {0} /\ p <= Capacity(s) /\ Capacity(s) \in Nat /\ work.kernel \in Nat \ {0}
      /\ Holds(work.kernel, Whole(work.kernel, s), p, seq, room)
  BY Running, Sizes
<1>2. Holds(work.kernel, xs, p, seq, room)
  <2>1. \A q \in 1..p : Prompts[s][q] = tokens[q]
    BY DEF FirstTokens
  <2>2. p <= p /\ p \in Nat
    BY <1>1
  <2>3. Holds(work.kernel, TrueInputs(work.kernel, Prompts[s], Capacity(s)), p, seq, room)
    BY <1>1 DEF Whole
  <2> HIDE DEF p, tokens, seq, room
  <2> QED BY <1>1, <2>1, <2>2, <2>3, HoldsSame
<1>3. n \in Nat /\ work.kernel = n + 1 /\ work.kernel - 1 = n
  BY <1>1 DEF History
<1> HIDE DEF xs, tokens, room
<1>4. ASSUME NEW l \in DOMAIN Layers, Layers[l] = "linear", NEW h \in Heads0
      PROVE  /\ seq.state[l].recurrent[h] = TrueState(work.kernel, l, h, xs[l - 1], p)
             /\ \A k \in 1..n :
                  seq.state[l].slots[h][(seq.state[l].ring + k - 1) % n]
                    = TrueWindow(work.kernel, l, h, xs[l - 1], p)[k + 1]
  <2> DEFINE x == xs[l - 1]
             layer == seq.state[l]
  <2>1. LinearKept(work.kernel, l, layer, x, p)
    BY <1>2, <1>4 DEF Holds, StateKept, Kept
  <2> HIDE DEF x, layer, p
  <2>2. Ringed(n, layer.slots[h], layer.ring, l, h, x, p)
    BY <1>3, <2>1 DEF LinearKept
  <2> HIDE DEF n
  <2>3. ASSUME NEW k \in 1..n PROVE TrueWindow(work.kernel, l, h, x, p)[k + 1] = Input(l, h, x, p - n + k)
    <3>1. k + 1 \in 1..work.kernel /\ p - work.kernel + (k + 1) = p - n + k
      BY <1>1, <1>3
    <3> QED BY <3>1 DEF TrueWindow, Input
  <2>4. layer.recurrent[h] = TrueState(work.kernel, l, h, x, p)
    BY <2>1 DEF LinearKept
  <2>5. \A k \in 1..n : layer.slots[h][(layer.ring + k - 1) % n] = TrueWindow(work.kernel, l, h, x, p)[k + 1]
    BY <2>2, <2>3 DEF Ringed
  <2> QED BY <2>4, <2>5 DEF x, layer
<1>5. ASSUME NEW l \in DOMAIN Layers, Layers[l] # "linear"
      PROVE  [q \in 1..p |-> seq.state[l].rows[q]] = TrueRows(xs[l - 1], p)
  <2>1. FullKept(seq.state[l], xs[l - 1], p, room)
    BY <1>2, <1>5 DEF Holds, StateKept, Kept
  <2> HIDE DEF p, seq
  <2> QED BY <2>1 DEF FullKept, TrueRows
<1>6. seq.hidden = xs[Len(Layers)][p]
  BY <1>1, <1>2 DEF Holds
<1> QED
  BY <1>4, <1>5, <1>6 DEF xs, tokens

(* However the prompt tokens of the sequences are cut into batches, mixed    *)
(* with single and joint steps, with steps that fail and with snapshots taken *)
(* and restored, the forward pass leaves in every layer's ring, recurrent    *)
(* state and cache, and in the last hidden row, what the tokens leave when    *)
(* they are taken one after the other: for prompts of any length, any stack   *)
(* of linear and full layers, any number of heads and any convolution kernel. *)
THEOREM PrefillStaysDecode == ForwardSpec => []PrefillIsDecode
<1>1. ForwardInit => ForwardInv
  BY ForwardInvInit
<1>2. ForwardInv /\ [ForwardNext]_work => ForwardInv'
  BY ForwardInvNext
<1>3. ForwardInv => PrefillIsDecode
  BY ForwardInvIsDecode
<1> QED
  BY <1>1, <1>2, <1>3, PTL DEF ForwardSpec

-----------------------------------------------------------------------------
(* The best of a sequence of candidates.                                    *)

Result == [value : Int, index : Nat]

\* a is no worse than b: of a higher value, or of the same and a lower row.
Ranks(a, b) == a.value > b.value \/ (a.value = b.value /\ a.index <= b.index)

\* Candidates of the same value come with their rows in order.
Rising(start, s, n) ==
    /\ \A i \in 1..n : s[i].value = start.value => start.index <= s[i].index
    /\ \A i, j \in 1..n : i < j /\ s[i].value = s[j].value => s[i].index <= s[j].index

\* b is the best of the start and the first n candidates.
Chosen(b, start, s, n) ==
    /\ b = start \/ \E i \in 1..n : b = s[i]
    /\ Ranks(b, start) /\ \A i \in 1..n : Ranks(b, s[i])

\* The best after each candidate.
Bettered(f, n, start, s, batch) ==
    f = [i \in 0..n |-> IF i = 0 THEN start ELSE IF Beats(s[i], f[i - 1], batch) THEN s[i] ELSE f[i - 1]]

LEMMA BetteredExists ==
    ASSUME NEW n \in Nat, NEW start \in Result, NEW s \in [1..n -> Result], NEW batch \in BOOLEAN
    PROVE  \E f : Bettered(f, n, start, s, batch)
<1> DEFINE step == [k \in 1..n |-> [b \in Result |-> IF Beats(s[k], b, batch) THEN s[k] ELSE b]]
<1>1. step \in [1..n -> [Result -> Result]]
  OBVIOUS
<1>2. \A k \in 1..n, b \in Result : step[k][b] = IF Beats(s[k], b, batch) THEN s[k] ELSE b
  OBVIOUS
<1> HIDE DEF step
<1>3. PICK f \in [0..n -> Result] : Follows(f, n, start, step)
  BY <1>1, Recursion
<1>4. f[0] = start /\ \A k \in 1..n : f[k] = IF Beats(s[k], f[k - 1], batch) THEN s[k] ELSE f[k - 1]
  <2>1. ASSUME NEW k \in 1..n PROVE k - 1 \in 0..n /\ f[k - 1] \in Result
    OBVIOUS
  <2> QED BY <1>2, <1>3, <2>1 DEF Follows
<1>5. \A k \in 0..n : k = 0 \/ k \in 1..n
  OBVIOUS
<1>6. f = [i \in 0..n |-> IF i = 0 THEN start ELSE IF Beats(s[i], f[i - 1], batch) THEN s[i] ELSE f[i - 1]]
  <2>1. f = [i \in 0..n |-> f[i]]
    OBVIOUS
  <2>2. \A i \in 0..n : f[i] = IF i = 0 THEN start ELSE IF Beats(s[i], f[i - 1], batch) THEN s[i] ELSE f[i - 1]
    BY <1>4, <1>5
  <2> QED BY <2>1, <2>2, Zenon
<1> QED
  BY <1>6 DEF Bettered

LEMMA BestOfIsLast ==
    ASSUME NEW n \in Nat, NEW start \in Result, NEW s \in [1..n -> Result], NEW batch \in BOOLEAN
    PROVE  \E f : /\ BestOf(start, s, batch) = f[n] /\ f[0] = start
                  /\ \A k \in 1..n : f[k] = IF Beats(s[k], f[k - 1], batch) THEN s[k] ELSE f[k - 1]
<1> DEFINE D == CHOOSE f : Bettered(f, n, start, s, batch)
<1>1. Bettered(D, n, start, s, batch)
  BY BetteredExists
<1>2. Len(s) = n
  OBVIOUS
<1>3. BestOf(start, s, batch) = D[n]
  BY <1>2 DEF BestOf, Bettered
<1> HIDE DEF D
<1>4. 0 \in 0..n /\ \A k \in 1..n : k \in 0..n /\ k # 0
  OBVIOUS
<1>5. D[0] = start /\ \A k \in 1..n : D[k] = IF Beats(s[k], D[k - 1], batch) THEN s[k] ELSE D[k - 1]
  BY <1>1, <1>4 DEF Bettered
<1> QED
  BY <1>3, <1>5

\* One more candidate.
LEMMA BetteredStep ==
    ASSUME NEW n \in Nat, NEW k \in 1..n, NEW start \in Result, NEW s \in [1..n -> Result], NEW batch \in BOOLEAN,
           batch \/ Rising(start, s, n), NEW b \in Result, Chosen(b, start, s, k - 1),
           NEW c, c = IF Beats(s[k], b, batch) THEN s[k] ELSE b
    PROVE  c \in Result /\ Chosen(c, start, s, k)
<1>1. s[k] \in Result /\ c \in Result /\ s[k].index \in Nat /\ s[k].value \in Int
      /\ b.index \in Nat /\ b.value \in Int /\ start.index \in Nat /\ start.value \in Int
  BY DEF Result
<1>2. ASSUME NEW i \in 1..n PROVE s[i].value \in Int /\ s[i].index \in Nat
  BY DEF Result
<1>3. CASE Beats(s[k], b, batch)
  <2>1. Ranks(s[k], b) /\ c = s[k]
    BY <1>1, <1>3 DEF Beats, Ranks
  <2>2. Ranks(c, start)
    BY <1>1, <2>1 DEF Ranks, Chosen
  <2>3. ASSUME NEW i \in 1..k PROVE Ranks(c, s[i])
    <3>1. CASE i = k
      BY <1>1, <2>1, <3>1 DEF Ranks
    <3>2. CASE i \in 1..(k - 1)
      <4>1. Ranks(b, s[i]) /\ i \in 1..n
        BY <3>2 DEF Chosen
      <4>2. s[i].value \in Int /\ s[i].index \in Nat
        BY <1>2, <4>1
      <4> QED BY <1>1, <2>1, <4>1, <4>2 DEF Ranks
    <3> QED BY <3>1, <3>2
  <2> QED BY <1>1, <2>1, <2>2, <2>3 DEF Chosen
<1>4. CASE ~Beats(s[k], b, batch)
  <2>1. c = b
    BY <1>4
  <2>2. Ranks(b, s[k])
    <3>1. CASE batch
      BY <1>1, <1>4, <3>1 DEF Beats, Ranks
    <3>2. CASE ~batch
      <4>1. Rising(start, s, n) /\ ~(s[k].value > b.value)
        BY <1>4, <3>2 DEF Beats
      <4>2. b = start \/ \E i \in 1..(k - 1) : b = s[i]
        BY DEF Chosen
      <4>3. s[k].value = b.value => b.index <= s[k].index
        <5>1. CASE b = start
          BY <4>1, <5>1 DEF Rising
        <5>2. ASSUME NEW i \in 1..(k - 1), b = s[i] PROVE s[k].value = b.value => b.index <= s[k].index
          <6>1. i \in 1..n /\ i < k
            OBVIOUS
          <6> QED BY <4>1, <5>2, <6>1 DEF Rising
        <5> QED BY <4>2, <5>1, <5>2
      <4> QED BY <1>1, <4>1, <4>3 DEF Ranks
    <3> QED BY <3>1, <3>2
  <2>3. \A i \in 1..k : i = k \/ i \in 1..(k - 1)
    OBVIOUS
  <2>4. \A i \in 1..(k - 1) : i \in 1..k
    OBVIOUS
  <2> QED BY <1>1, <2>1, <2>2, <2>3, <2>4 DEF Chosen
<1> QED
  BY <1>3, <1>4

LEMMA BestOfIs ==
    ASSUME NEW n \in Nat, NEW start \in Result, NEW s \in [1..n -> Result], NEW batch \in BOOLEAN,
           batch \/ Rising(start, s, n)
    PROVE  Chosen(BestOf(start, s, batch), start, s, n)
<1>1. PICK f : /\ BestOf(start, s, batch) = f[n] /\ f[0] = start
               /\ \A k \in 1..n : f[k] = IF Beats(s[k], f[k - 1], batch) THEN s[k] ELSE f[k - 1]
  BY BestOfIsLast
<1> DEFINE P == {k \in 0..n : f[k] \in Result /\ Chosen(f[k], start, s, k)}
<1>2. 0 \in P
  BY <1>1 DEF Chosen, Ranks, Result
<1>3. ASSUME NEW k \in 1..n, k - 1 \in P PROVE k \in P
  <2>1. f[k - 1] \in Result /\ Chosen(f[k - 1], start, s, k - 1)
    BY <1>3
  <2>2. f[k] = IF Beats(s[k], f[k - 1], batch) THEN s[k] ELSE f[k - 1]
    BY <1>1
  <2>3. f[k] \in Result /\ Chosen(f[k], start, s, k)
    BY ONLY <2>1, <2>2, BetteredStep, n \in Nat, k \in 1..n, start \in Result, s \in [1..n -> Result], batch \in BOOLEAN,
       batch \/ Rising(start, s, n)
  <2>4. k \in 0..n
    OBVIOUS
  <2> QED BY <2>3, <2>4
<1>4. \A k \in 0..n : k \in P
  <2> HIDE DEF P
  <2> QED BY <1>2, <1>3, Upto
<1> QED
  BY <1>1, <1>4

-----------------------------------------------------------------------------
(* The rows of the head and their candidates.                               *)

RowCount == work.head.tile * work.head.tiles

ReadoutTyped ==
    work \in [part : {"readout"}, head : Heads, threads : Participants, batch : BOOLEAN,
              logits : UNION {[VocabRows(head) -> Logits] : head \in Heads}, counted : SUBSET Nat,
              penalty : BOOLEAN, ran : SUBSET Nat, slots : UNION {[0..(n - 1) -> Result] : n \in Nat},
              by : {"none"}, answer : {<<>>}]

\* The head, the threads and the logits of a readout belong together.
Fitting ==
    /\ ReadoutTyped
    /\ work.logits \in [VocabRows(work.head) -> Logits] /\ work.slots \in [0..(work.threads - 1) -> Result]
    /\ work.batch => work.threads > 0

LEMMA Fits4 ==
    ASSUME Fitting
    PROVE  /\ work.head \in Heads /\ work.head.tile \in Nat \ {0} /\ work.head.tiles \in Nat \ {0}
           /\ work.threads \in Nat /\ work.batch \in BOOLEAN /\ RowCount \in Nat \ {0}
           /\ VocabRows(work.head) = 0..(RowCount - 1)
<1>1. work.head \in Heads /\ work.threads \in Participants /\ work.batch \in BOOLEAN
  BY DEF Fitting, ReadoutTyped
<1>2. work.head.tile \in Nat \ {0} /\ work.head.tiles \in Nat \ {0} /\ work.threads \in Nat
  BY <1>1, ReadoutAssumption
<1> DEFINE t == work.head.tile
           m == work.head.tiles
<1>3. t * m \in Nat \ {0}
  <2>1. t \in Nat \ {0} /\ m \in Nat \ {0}
    BY <1>2
  <2> HIDE DEF t, m
  <2> QED BY <2>1
<1> QED
  BY <1>1, <1>2, <1>3 DEF RowCount, VocabRows

(* A candidate has a value above minus infinity, which is the penalised logit. *)
LEMMA CandidateIs ==
    ASSUME Fitting, NEW row \in VocabRows(work.head)
    PROVE  /\ Value(row) \in Int /\ Value(row) > 0 - Infinity /\ Value(row) = Truly(row)
           /\ Candidate(row) \in Result /\ Candidate(row).value = Value(row) /\ Candidate(row).index = row
           /\ Exp[Value(row)] \in Nat
<1>1. work.logits[row] \in Logits /\ row \in Nat /\ Infinity \in Nat \ {0}
  BY Fits4, ReadoutAssumption DEF Fitting
<1> DEFINE v == work.logits[row]
           c == work.penalty /\ row \in work.counted
<1>2. c \in BOOLEAN /\ Value(row) = Penalised(v, c)
  <2>1. Value(row) = Penalised(v, c)
    BY DEF Value
  <2>2. work.penalty \in BOOLEAN
    BY DEF Fitting, ReadoutTyped
  <2> QED BY <2>1, <2>2
<1>3. Value(row) = Truly(row)
  BY DEF Value, Truly, Penalised
<1>4. v \in Int /\ v * 2 > 0 - Infinity
  BY <1>1, ReadoutAssumption
<1>5. Exp[Penalised(v, c)] \in Nat
  BY <1>1, <1>2, ReadoutAssumption
<1> HIDE DEF v, c
<1>6. Penalised(v, c) \in Int /\ Penalised(v, c) > 0 - Infinity
  BY <1>1, <1>4 DEF Penalised
<1> QED
  BY <1>1, <1>2, <1>3, <1>5, <1>6 DEF Candidate, Result

\* c is the best of the rows from a to below b.
BestRow(c, a, b) ==
    c.index \in a..(b - 1) /\ c = Candidate(c.index) /\ \A row \in a..(b - 1) : Ranks(c, Candidate(row))

\* What a slot has for these rows.
SlotIs(c, a, b) == IF a < b THEN BestRow(c, a, b) ELSE c = Below

(* One thread's rows.                                                       *)
LEMMA RangeBest ==
    ASSUME Fitting, NEW a \in Nat, NEW b \in Nat, a <= b, b <= RowCount, NEW batch \in BOOLEAN,
           NEW start \in Result, start.value = 0 - Infinity, a < b \/ start = Below
    PROVE  SlotIs(BestOf(start, CandidatesFrom(a, b - a), batch), a, b)
<1> DEFINE n == b - a
           s == CandidatesFrom(a, n)
           c == BestOf(start, s, batch)
<1>1. n \in Nat
  OBVIOUS
<1>2. ASSUME NEW i \in 1..n
      PROVE  /\ a + i - 1 \in a..(b - 1) /\ a + i - 1 \in VocabRows(work.head) /\ s[i] = Candidate(a + i - 1)
             /\ s[i] \in Result /\ s[i].value > 0 - Infinity /\ s[i].index = a + i - 1
  <2>1. a + i - 1 \in a..(b - 1) /\ a + i - 1 \in 0..(RowCount - 1)
    BY Fits4
  <2>2. s[i] = Candidate(a + i - 1)
    BY DEF CandidatesFrom
  <2>3. a + i - 1 \in VocabRows(work.head)
    BY <2>1, Fits4
  <2> DEFINE row == a + i - 1
  <2>4. /\ Value(row) > 0 - Infinity
        /\ Candidate(row) \in Result /\ Candidate(row).value = Value(row) /\ Candidate(row).index = row
    <3> HIDE DEF row
    <3> QED BY <2>3, CandidateIs DEF row
  <2> QED BY <2>1, <2>2, <2>3, <2>4
<1>3. s \in [1..n -> Result]
  <2>1. s = [i \in 1..n |-> s[i]]
    BY DEF CandidatesFrom
  <2> HIDE DEF s
  <2> QED BY <1>2, <2>1
<1>4. Rising(start, s, n)
  <2>1. \A i \in 1..n : s[i].value # start.value
    <3> TAKE i \in 1..n
    <3>1. s[i].value > 0 - Infinity /\ s[i] \in Result
      BY <1>2
    <3> HIDE DEF s
    <3>2. s[i].value \in Int /\ Infinity \in Nat
      BY <3>1, ReadoutAssumption DEF Result
    <3> QED BY <3>1, <3>2
  <2>2. \A i, j \in 1..n : i < j => s[i].index <= s[j].index
    <3> TAKE i, j \in 1..n
    <3>1. s[i].index = a + i - 1 /\ s[j].index = a + j - 1
      BY <1>2
    <3> HIDE DEF s
    <3> QED BY <3>1
  <2> HIDE DEF s
  <2> QED BY <2>1, <2>2 DEF Rising
<1> HIDE DEF s
<1>5. Chosen(c, start, s, n)
  <2> HIDE DEF n
  <2> QED BY <1>1, <1>3, <1>4, BestOfIs
<1> HIDE DEF c
<1>6. CASE a < b
  <2>1. 1 \in 1..n
    BY <1>6
  <2>2. c # start
    <3>1. Ranks(c, s[1]) /\ s[1].value > 0 - Infinity /\ s[1] \in Result
      BY <1>2, <1>5, <2>1 DEF Chosen
    <3>2. s[1].value \in Int /\ Infinity \in Nat
      BY <3>1, ReadoutAssumption DEF Result
    <3> QED BY <3>1, <3>2 DEF Ranks
  <2>3. PICK i \in 1..n : c = s[i]
    BY <1>5, <2>2 DEF Chosen
  <2>4. c.index \in a..(b - 1) /\ c = Candidate(c.index)
    BY <1>2, <2>3
  <2>5. ASSUME NEW row \in a..(b - 1) PROVE Ranks(c, Candidate(row))
    <3> DEFINE j == row - a + 1
    <3>1. j \in 1..n /\ a + j - 1 = row
      OBVIOUS
    <3> HIDE DEF j
    <3>2. s[j] = Candidate(row)
      BY <1>2, <3>1
    <3> QED BY <1>5, <3>1, <3>2 DEF Chosen
  <2> QED BY <1>6, <2>4, <2>5 DEF SlotIs, BestRow, c, s, n
<1>7. CASE ~(a < b)
  <2>1. n = 0 /\ 1..0 = {}
    BY <1>7
  <2>2. c = start /\ start = Below
    BY <1>5, <1>7, <2>1 DEF Chosen
  <2> QED BY <1>7, <2>2 DEF SlotIs, c, s, n
<1> QED
  BY <1>6, <1>7

-----------------------------------------------------------------------------
(* The cuts of the rows among threads.                                      *)

\* f cuts the numbers below total into n ranges, which may be empty.
Cutting(f, n, total) ==
    /\ n \in Nat \ {0} /\ f[0] = 0 /\ f[n] = total
    /\ \A p \in 0..n : f[p] \in Nat
    /\ \A p \in 0..(n - 1) : f[p] <= f[p + 1]

(* A range ends before the later ones begin.                                *)
LEMMA CutRises ==
    ASSUME NEW f, NEW n, NEW total, Cutting(f, n, total), NEW q \in 0..n
    PROVE  \A p \in 0..q : f[p] <= f[q]
<1> DEFINE P == {k \in 0..n : \A p \in 0..k : f[p] <= f[k]}
<1>1. n \in Nat /\ \A p \in 0..n : f[p] \in Nat
  BY DEF Cutting
<1>2. 0 \in P
  <2>1. \A p \in 0..0 : p = 0
    OBVIOUS
  <2> QED BY <1>1, <2>1
<1>3. ASSUME NEW k \in 1..n, k - 1 \in P PROVE k \in P
  <2>1. k \in 0..n /\ k - 1 \in 0..(n - 1) /\ k - 1 \in 0..n /\ (k - 1) + 1 = k
    BY <1>1
  <2>2. f[k - 1] <= f[k]
    BY <2>1 DEF Cutting
  <2>3. ASSUME NEW p \in 0..k PROVE f[p] <= f[k]
    <3>1. CASE p = k
      BY <1>1, <2>1, <3>1
    <3>2. CASE p # k
      <4>1. p \in 0..(k - 1) /\ p \in 0..n
        BY <1>1, <3>2
      <4>2. f[p] <= f[k - 1]
        BY <1>3, <4>1
      <4> QED BY <1>1, <2>1, <2>2, <4>1, <4>2
    <3> QED BY <3>1, <3>2
  <2> QED BY <2>1, <2>3
<1>4. \A k \in 0..n : k \in P
  <2> HIDE DEF P
  <2> QED BY <1>1, <1>2, <1>3, Upto
<1> QED
  BY <1>4

(* Each number is in some range.                                            *)
LEMMA CutCovers ==
    ASSUME NEW f, NEW n, NEW total, Cutting(f, n, total), NEW row \in Nat, row < total
    PROVE  \E p \in 0..(n - 1) : row \in f[p]..(f[p + 1] - 1)
<1> DEFINE Over == {p \in 0..n : row < f[p]}
<1>1. n \in Nat /\ n \in Over /\ Over \in SUBSET Nat
  BY DEF Cutting
<1>2. PICK q \in Over : \A p \in Over : q <= p
  <2> HIDE DEF Over
  <2> QED BY <1>1, LeastExists
<1>3. q # 0
  BY DEF Cutting
<1>4. q - 1 \in 0..(n - 1) /\ q - 1 \in 0..n /\ (q - 1) + 1 = q /\ q \in 0..n /\ row < f[q] /\ ~(q <= q - 1)
  BY <1>1, <1>3
<1>5. f[q - 1] <= row
  <2>1. ~(row < f[q - 1])
    BY <1>2, <1>4
  <2> QED BY <1>4, <2>1 DEF Cutting
<1>6. f[q - 1] \in Nat /\ f[q] \in Nat
  BY <1>4 DEF Cutting
<1> QED
  BY <1>4, <1>5, <1>6

\* Each slot has the best of its range.
SlotsAre(slot, f, n) == \A p \in 0..(n - 1) : SlotIs(slot[p], f[p], f[p + 1])

(* Two slots of the same value have their rows in the order of their ranges. *)
LEMMA SlotsRise ==
    ASSUME Fitting, NEW f, NEW n, Cutting(f, n, RowCount), NEW slot \in [0..(n - 1) -> Result],
           SlotsAre(slot, f, n), NEW p \in 0..(n - 1)
    PROVE  /\ slot[p].value = Below.value => Below.index <= slot[p].index
           /\ \A q \in 0..(n - 1) : p < q /\ slot[p].value = slot[q].value => slot[p].index <= slot[q].index
<1>1. ASSUME NEW q \in 0..(n - 1)
      PROVE  /\ q \in 0..n /\ q + 1 \in 0..n /\ f[q] \in Nat /\ f[q + 1] \in Nat /\ f[q + 1] <= RowCount
             /\ slot[q] = Below \/ /\ slot[q].index \in f[q]..(f[q + 1] - 1) /\ slot[q].value > 0 - Infinity
             /\ slot[q].index \in Nat /\ slot[q].value \in Int
  <2>1. q \in 0..n /\ q + 1 \in 0..n /\ n \in 0..n /\ f[n] = RowCount
    BY DEF Cutting
  <2>2. f[q] \in Nat /\ f[q + 1] \in Nat /\ f[q + 1] <= RowCount
    BY <2>1, CutRises DEF Cutting
  <2>3. SlotIs(slot[q], f[q], f[q + 1])
    BY DEF SlotsAre
  <2>4. slot[q] # Below => slot[q].index \in f[q]..(f[q + 1] - 1) /\ slot[q] = Candidate(slot[q].index)
    BY <2>3 DEF SlotIs, BestRow
  <2>5. slot[q] # Below => slot[q].value > 0 - Infinity
    <3>1. SUFFICES ASSUME slot[q] # Below PROVE slot[q].value > 0 - Infinity
      OBVIOUS
    <3>2. slot[q].index \in 0..(RowCount - 1)
      BY <2>2, <2>4, <3>1, Fits4
    <3>3. slot[q].index \in VocabRows(work.head)
      BY <3>2, Fits4
    <3> QED BY <2>4, <3>1, <3>3, CandidateIs
  <2> QED BY <2>1, <2>2, <2>4, <2>5 DEF Result
<1>2. Below.value = 0 - Infinity /\ Below.index = 0 /\ Infinity \in Nat
  BY ReadoutAssumption DEF Below
<1>3. ASSUME NEW q \in 0..(n - 1), p < q, slot[p].value = slot[q].value
      PROVE  slot[p].index <= slot[q].index
  <2>1. CASE slot[p] = Below
    BY <1>1, <1>2, <2>1
  <2>2. CASE slot[p] # Below
    <3>1. slot[q] # Below
      BY <1>1, <1>2, <1>3, <2>2
    <3>2. slot[p].index \in f[p]..(f[p + 1] - 1) /\ slot[q].index \in f[q]..(f[q + 1] - 1)
      BY <1>1, <2>2, <3>1
    <3>3. f[p + 1] <= f[q]
      <4>1. p + 1 \in 0..q /\ q \in 0..n
        BY <1>1, <1>3
      <4> QED BY <4>1, CutRises
    <3> QED BY <1>1, <3>2, <3>3
  <2> QED BY <2>1, <2>2
<1> QED
  BY <1>1, <1>2, <1>3

(* The best of all slots is the first of the best rows.                     *)
LEMMA SlotsCombine ==
    ASSUME Fitting, NEW f, NEW n, Cutting(f, n, RowCount), NEW slot \in [0..(n - 1) -> Result],
           SlotsAre(slot, f, n), NEW c,
           c = Below \/ \E p \in 0..(n - 1) : c = slot[p],
           \A p \in 0..(n - 1) : Ranks(c, slot[p])
    PROVE  BestRow(c, 0, RowCount)
<1>1. RowCount \in Nat \ {0} /\ VocabRows(work.head) = 0..(RowCount - 1) /\ Infinity \in Nat
  BY Fits4, ReadoutAssumption
<1>2. ASSUME NEW row \in 0..(RowCount - 1) PROVE Ranks(c, Candidate(row))
  <2>0. row \in Nat /\ row < RowCount /\ Cutting(f, n, RowCount)
    <3> DEFINE r == RowCount
    <3>1. r \in Nat /\ row \in 0..(r - 1)
      BY <1>1
    <3> HIDE DEF r
    <3>2. row \in Nat /\ row < r
      BY ONLY <3>1
    <3> QED BY <3>2 DEF r
  <2>1. PICK p \in 0..(n - 1) : row \in f[p]..(f[p + 1] - 1)
    BY <2>0, CutCovers
  <2>2. f[p] < f[p + 1]
    <3>1. p \in 0..n /\ p + 1 \in 0..n
      BY DEF Cutting
    <3> QED BY <2>1, <3>1 DEF Cutting
  <2>3. Ranks(slot[p], Candidate(row))
    BY <2>1, <2>2 DEF SlotsAre, SlotIs, BestRow
  <2>4. Candidate(row) \in Result /\ slot[p] \in Result /\ c \in Result
    <3>1. Below \in Result
      BY <1>1 DEF Below, Result
    <3> QED BY <1>1, <3>1, CandidateIs
  <2>5. Ranks(c, slot[p])
    OBVIOUS
  <2> QED BY <2>3, <2>4, <2>5 DEF Ranks, Result
<1>3. c # Below
  <2>1. 0 \in VocabRows(work.head) /\ Ranks(c, Candidate(0))
    BY <1>1, <1>2
  <2>2. Candidate(0).value > 0 - Infinity /\ Candidate(0).value \in Int
    BY <2>1, CandidateIs
  <2> QED BY <1>1, <2>1, <2>2 DEF Ranks, Below
<1>4. PICK p \in 0..(n - 1) : c = slot[p]
  BY <1>3
<1>5. c.index \in f[p]..(f[p + 1] - 1) /\ c = Candidate(c.index)
  BY <1>3, <1>4 DEF SlotsAre, SlotIs, BestRow
<1>6. c.index \in 0..(RowCount - 1)
  <2>1. p \in 0..n /\ p + 1 \in 0..n /\ n \in 0..n /\ f[n] = RowCount
    BY DEF Cutting
  <2>2. f[p] \in Nat /\ f[p + 1] \in Nat /\ f[p + 1] <= RowCount
    BY <2>1, CutRises DEF Cutting
  <2> QED BY <1>1, <1>5, <2>2
<1> QED
  BY <1>2, <1>5, <1>6 DEF BestRow

(* The best of all rows is what greedy selection promises.                  *)
LEMMA BestIsFirst ==
    ASSUME Fitting, NEW c, BestRow(c, 0, RowCount)
    PROVE  GreedyIsFirst(c.index)
<1>1. VocabRows(work.head) = 0..(RowCount - 1) /\ RowCount \in Nat
  BY Fits4
<1>2. c.index \in VocabRows(work.head) /\ c = Candidate(c.index)
  BY <1>1 DEF BestRow
<1>3. c.value = Truly(c.index) /\ c.value \in Int
  BY <1>2, CandidateIs
<1>4. ASSUME NEW row \in VocabRows(work.head)
      PROVE  /\ Truly(row) \in Int
             /\ c.value > Truly(row) \/ (c.value = Truly(row) /\ c.index <= row)
  <2>1. Ranks(c, Candidate(row))
    BY <1>1 DEF BestRow
  <2>2. Candidate(row).value = Truly(row) /\ Candidate(row).index = row /\ Truly(row) \in Int
    BY CandidateIs
  <2> QED BY <2>1, <2>2 DEF Ranks
<1>5. Above(c.index) = {}
  <2>1. ASSUME NEW row \in VocabRows(work.head) PROVE ~(Truly(row) > Truly(c.index))
    BY <1>3, <1>4
  <2> QED BY <2>1 DEF Above
<1>6. \A row \in 0..(c.index - 1) : Truly(row) < Truly(c.index)
  <2> TAKE row \in 0..(c.index - 1)
  <2>1. row \in VocabRows(work.head) /\ ~(c.index <= row)
    BY <1>1, <1>2
  <2> QED BY <1>3, <1>4, <2>1
<1> QED
  BY <1>2, <1>5, <1>6 DEF GreedyIsFirst

-----------------------------------------------------------------------------
(* The two ways the head is cut.                                            *)

\* A quotient grows with what is divided, and multiples divide evenly.
LEMMA DivGrows ==
    ASSUME NEW c \in Nat \ {0}, NEW x \in Nat, NEW y \in Nat, x <= y
    PROVE  x \div c <= y \div c
<1> DEFINE q == x \div c
           r == y \div c
<1>1. /\ q \in Nat /\ x % c \in Nat /\ x % c < c /\ x = c * q + (x % c)
      /\ r \in Nat /\ y % c \in Nat /\ y % c < c /\ y = c * r + (y % c)
  BY DividedIs
<1> HIDE DEF q, r
<1>2. ASSUME r < q PROVE FALSE
  <2>1. PICK d \in Nat : q = r + 1 + d
    <3>1. q - (r + 1) \in Nat /\ q = r + 1 + (q - (r + 1))
      BY <1>1, <1>2
    <3> QED BY <3>1
  <2>2. c * q = c * r + c + c * d /\ c * d \in Nat /\ c * r \in Nat
    BY <1>1, <2>1, Z3
  <2> DEFINE cq == c * q
             cr == c * r
             cd == c * d
             s == x % c
             t == y % c
  <2>3. cq = cr + c + cd /\ cd \in Nat /\ cr \in Nat /\ s \in Nat /\ t \in Nat /\ t < c /\ x = cq + s /\ y = cr + t
    BY <1>1, <2>2
  <2> HIDE DEF cq, cr, cd, s, t
  <2> QED BY <2>3
<1> QED
  BY <1>1, <1>2 DEF q, r

\* The tile at which a thread's share begins.
TileCut(p) == IF work.batch THEN WorkerBegin(p) ELSE Begin(work.head.tiles, work.threads, p)
TileCuts == [p \in 0..work.threads |-> TileCut(p)]
RowCuts == [p \in 0..work.threads |-> TileCut(p) * work.head.tile]

\* What the executor's ranges begin with.
LEMMA BeginIs ==
    ASSUME NEW rows \in Nat, NEW parts \in Nat \ {0}
    PROVE  /\ Begin(rows, parts, 0) = 0 /\ Begin(rows, parts, parts) = rows
           /\ \A p \in Nat :
                 /\ Begin(rows, parts, p) \in Nat
                 /\ Begin(rows, parts, p) <= Begin(rows, parts, p + 1)
                 /\ (parts <= rows \/ p < rows) => Begin(rows, parts, p) < Begin(rows, parts, p + 1)
                 /\ rows < parts => Begin(rows, parts, p) = IF p <= rows THEN p ELSE rows
<1> DEFINE q == rows \div parts
           m == rows % parts
<1>1. q \in Nat /\ m \in Nat /\ m < parts /\ rows = parts * q + m
  BY DividedIs
<1>2. \A p : Begin(rows, parts, p) = p * q + (IF p <= m THEN p ELSE m)
  BY DEF Begin
<1> HIDE DEF q, m
<1>3. Begin(rows, parts, 0) = 0
  <2>1. 0 * q = 0
    BY <1>1
  <2> QED BY <1>1, <1>2, <2>1
<1>4. Begin(rows, parts, parts) = rows
  BY <1>1, <1>2
<1>5. rows < parts => q = 0 /\ m = rows
  <2>1. q # 0 => parts * q >= parts
    <3>1. SUFFICES ASSUME q # 0 PROVE parts * q >= parts
      OBVIOUS
    <3>2. q - 1 \in Nat /\ parts * q = parts + parts * (q - 1) /\ parts * (q - 1) \in Nat
      BY <1>1, <3>1, Z3
    <3> QED BY <3>2
  <2>2. parts * q \in Nat
    BY <1>1
  <2>3. q = 0 => parts * q = 0
    BY <1>1
  <2> QED BY <1>1, <2>1, <2>2, <2>3
<1>6. parts <= rows => q # 0
  <2>1. q = 0 => parts * q = 0
    BY <1>1
  <2> QED BY <1>1, <2>1
<1>7. ASSUME NEW p \in Nat
      PROVE  /\ Begin(rows, parts, p) \in Nat
             /\ Begin(rows, parts, p) <= Begin(rows, parts, p + 1)
             /\ (parts <= rows \/ p < rows) => Begin(rows, parts, p) < Begin(rows, parts, p + 1)
             /\ rows < parts => Begin(rows, parts, p) = IF p <= rows THEN p ELSE rows
  <2> DEFINE pq == p * q
  <2>1. pq \in Nat /\ (p + 1) * q = pq + q /\ p + 1 \in Nat
    BY <1>1, Z3
  <2>2. /\ Begin(rows, parts, p) = pq + (IF p <= m THEN p ELSE m)
        /\ Begin(rows, parts, p + 1) = pq + q + (IF p + 1 <= m THEN p + 1 ELSE m)
    BY <1>2, <2>1
  <2>3. rows < parts => pq = 0
    BY <1>1, <1>5
  <2> HIDE DEF pq
  <2> QED BY <1>1, <1>5, <1>6, <2>1, <2>2, <2>3
<1> QED
  BY <1>3, <1>4, <1>7

LEMMA TilesCut ==
    ASSUME Fitting, work.threads > 0
    PROVE  Cutting(TileCuts, work.threads, work.head.tiles)
<1> DEFINE n == work.threads
           m == work.head.tiles
<1>1. n \in Nat \ {0} /\ m \in Nat \ {0} /\ work.batch \in BOOLEAN
  BY Fits4
<1>2. CASE work.batch
  <2> DEFINE g(p) == (m * p) \div n
  <2>1. ASSUME NEW p \in Nat PROVE g(p) \in Nat /\ g(p) <= g(p + 1)
    <3>1. m * p \in Nat /\ m * (p + 1) \in Nat /\ m * p <= m * (p + 1)
      <4>1. m * (p + 1) = m * p + m /\ m * p \in Nat
        BY <1>1, Z3
      <4> DEFINE mp == m * p
      <4> HIDE DEF mp
      <4> QED BY <1>1, <4>1 DEF mp
    <3> DEFINE x == m * p
               y == m * (p + 1)
    <3> HIDE DEF x, y
    <3>2. x \div n \in Nat /\ x \div n <= y \div n
      BY <1>1, <3>1, DivGrows, DividedIs DEF x, y
    <3> QED BY <3>2 DEF x, y
  <2>2. g(0) = 0 /\ g(n) = m
    <3> HIDE DEF n, m
    <3>1. m * 0 = n * 0 + 0 /\ m * n = n * m + 0 /\ m * n \in Nat /\ m * 0 \in Nat
      <4>1. m * 0 = 0 /\ n * 0 = 0
        BY <1>1
      <4>2. m * n = n * m /\ m * n \in Nat
        BY <1>1
      <4>3. n * m + 0 = n * m
        BY <4>2
      <4> QED BY ONLY <4>1, <4>2, <4>3
    <3>2. (m * 0) \div n = 0
      BY <1>1, <3>1, DividedUnique
    <3>3. (m * n) \div n = m
      BY <1>1, <3>1, DividedUnique
    <3> QED BY <3>2, <3>3
  <2>3. \A p \in 0..n : TileCuts[p] = g(p)
    BY <1>2 DEF TileCuts, TileCut, WorkerBegin
  <2> HIDE DEF g, n, m
  <2>4. \A p \in 0..(n - 1) : p \in 0..n /\ p + 1 \in 0..n /\ p \in Nat
    BY <1>1
  <2>5. 0 \in 0..n /\ n \in 0..n /\ \A p \in 0..n : p \in Nat
    BY <1>1
  <2>6. Cutting(TileCuts, n, m)
    BY <1>1, <2>1, <2>2, <2>3, <2>4, <2>5 DEF Cutting
  <2> QED BY <2>6 DEF n, m
<1>3. CASE ~work.batch
  <2> DEFINE g(p) == Begin(m, n, p)
  <2>1. \A p \in 0..n : TileCuts[p] = g(p)
    BY <1>3 DEF TileCuts, TileCut
  <2> HIDE DEF n, m
  <2>2. g(0) = 0 /\ g(n) = m /\ \A p \in Nat : g(p) \in Nat /\ g(p) <= g(p + 1)
    BY <1>1, BeginIs
  <2> HIDE DEF g
  <2>4. \A p \in 0..(n - 1) : p \in 0..n /\ p + 1 \in 0..n /\ p \in Nat
    BY <1>1
  <2>5. 0 \in 0..n /\ n \in 0..n /\ \A p \in 0..n : p \in Nat
    BY <1>1
  <2>6. Cutting(TileCuts, n, m)
    BY <1>1, <2>1, <2>2, <2>4, <2>5 DEF Cutting
  <2> QED BY <2>6 DEF n, m
<1> QED
  BY <1>1, <1>2, <1>3

\* Multiplying both sides.
LEMMA TimesGrows ==
    ASSUME NEW x \in Nat, NEW y \in Nat, NEW t \in Nat, x <= y
    PROVE  x * t \in Nat /\ y * t \in Nat /\ x * t <= y * t /\ (y - x) * t = y * t - x * t
<1>1. PICK d \in Nat : y = x + d
  <2>1. y - x \in Nat /\ y = x + (y - x)
    OBVIOUS
  <2> QED BY <2>1
<1>2. y * t = x * t + d * t /\ x * t \in Nat /\ d * t \in Nat /\ (y - x) = d
  BY <1>1, Z3
<1> DEFINE xt == x * t
           yt == y * t
           dt == d * t
<1>3. yt = xt + dt /\ xt \in Nat /\ dt \in Nat /\ (y - x) * t = dt
  BY <1>2
<1> HIDE DEF xt, yt, dt
<1>4. xt \in Nat /\ yt \in Nat /\ xt <= yt /\ (y - x) * t = yt - xt
  BY <1>3
<1> QED
  BY <1>4 DEF xt, yt

LEMMA RowsCut ==
    ASSUME Fitting, work.threads > 0
    PROVE  Cutting(RowCuts, work.threads, RowCount)
<1> DEFINE n == work.threads
           t == work.head.tile
<1>1. n \in Nat \ {0} /\ t \in Nat \ {0} /\ work.head.tiles \in Nat
  BY Fits4
<1>2. Cutting(TileCuts, n, work.head.tiles)
  BY TilesCut
<1>3. \A p \in 0..n : RowCuts[p] = TileCuts[p] * t
  BY DEF RowCuts, TileCuts
<1> HIDE DEF n, t
<1>4. RowCuts[0] = 0
  <2>1. 0 \in 0..n /\ 0 * t = 0
    BY <1>1
  <2> QED BY <1>2, <1>3, <2>1 DEF Cutting
<1>5. RowCuts[n] = RowCount
  <2>1. n \in 0..n /\ work.head.tiles * t = t * work.head.tiles
    BY <1>1
  <2>2. RowCount = t * work.head.tiles
    BY DEF RowCount, t
  <2> QED BY <1>2, <1>3, <2>1, <2>2 DEF Cutting
<1>6. ASSUME NEW p \in 0..n PROVE RowCuts[p] \in Nat
  <2>1. TileCuts[p] \in Nat
    BY <1>2 DEF Cutting
  <2> QED BY <1>1, <1>3, <2>1, TimesGrows
<1>7. ASSUME NEW p \in 0..(n - 1) PROVE RowCuts[p] <= RowCuts[p + 1]
  <2>1. p \in 0..n /\ p + 1 \in 0..n
    BY <1>1
  <2>2. TileCuts[p] \in Nat /\ TileCuts[p + 1] \in Nat /\ TileCuts[p] <= TileCuts[p + 1]
    BY <1>2, <2>1 DEF Cutting
  <2>3. TileCuts[p] * t <= TileCuts[p + 1] * t
    BY <1>1, <2>2, TimesGrows
  <2> QED BY <1>3, <2>1, <2>3
<1> QED
  BY <1>1, <1>4, <1>5, <1>6, <1>7 DEF Cutting, n

-----------------------------------------------------------------------------
(* The invariant: a slot has the best of the rows of its thread once that    *)
(* has run, and what was answered is right.                                 *)

SlotsFilled ==
    \A p \in 0..(work.threads - 1) :
        IF p \in work.ran THEN SlotIs(work.slots[p], RowCuts[p], RowCuts[p + 1]) ELSE work.slots[p] = Below

ReadoutInv ==
    /\ Is("readout") /\ ReadoutsAgree
    /\ work.by = "none" => Fitting /\ SlotsFilled

\* A step that leaves the logits, and how they are read, alone.
SameInput ==
    /\ work'.part = work.part /\ work'.head = work.head /\ work'.threads = work.threads /\ work'.batch = work.batch
    /\ work'.logits = work.logits /\ work'.counted = work.counted /\ work'.penalty = work.penalty

LEMMA InputKept ==
    ASSUME SameInput
    PROVE  /\ RowCuts' = RowCuts
           /\ \A c, a, b : SlotIs(c, a, b)' <=> SlotIs(c, a, b)
           /\ \A c : GreedyIsFirst(c)' <=> GreedyIsFirst(c)
           /\ \A c, k, q : DrawnIsLikely(c, k, q)' <=> DrawnIsLikely(c, k, q)
           /\ \A k : KeptCount(k)' = KeptCount(k)
<1>1. /\ work'.head = work.head /\ work'.threads = work.threads /\ work'.batch = work.batch
      /\ work'.logits = work.logits /\ work'.counted = work.counted /\ work'.penalty = work.penalty
  BY DEF SameInput
<1>2. RowCuts' = RowCuts
  BY <1>1 DEF RowCuts, TileCut, WorkerBegin
<1>3. \A row : Candidate(row)' = Candidate(row)
  BY <1>1 DEF Candidate, Value
<1>4. \A c, a, b : SlotIs(c, a, b)' <=> SlotIs(c, a, b)
  BY <1>3 DEF SlotIs, BestRow
<1>5. \A row : Truly(row)' = Truly(row)
  BY <1>1 DEF Truly
<1>6. \A row : Above(row)' = Above(row)
  BY <1>1, <1>5 DEF Above
<1>7. \A c : GreedyIsFirst(c)' <=> GreedyIsFirst(c)
  BY <1>1, <1>5, <1>6 DEF GreedyIsFirst
<1>8. \A c, k, q : DrawnIsLikely(c, k, q)' <=> DrawnIsLikely(c, k, q)
  <2>1. work'.head = work.head
    BY <1>1
  <2>2. [row \in VocabRows(work'.head) |-> Exp[Truly(row)']] = [row \in VocabRows(work.head) |-> Exp[Truly(row)]]
    BY <1>5, <2>1
  <2> DEFINE Share(S) == Summed(S, [row \in VocabRows(work.head) |-> Exp[Truly(row)]])
             Within(S, c, k, q) ==
                /\ Cardinality(S) = k /\ c \in S
                /\ \A r \in S, o \in VocabRows(work.head) \ S : Truly(r) >= Truly(o)
                /\ Above(c) = {} \/ Share(Above(c) \cap S) * q[2] < Share(S) * q[1]
             Drawn(c, k, q) ==
                Cardinality(Above(c)) < k /\ \E S \in SUBSET VocabRows(work.head) : Within(S, c, k, q)
  <2>3. \A c, k, q : DrawnIsLikely(c, k, q) <=> Drawn(c, k, q)
    BY DEF DrawnIsLikely
  <2>4. \A c, k, q : DrawnIsLikely(c, k, q)' <=> Drawn(c, k, q)'
    BY DEF DrawnIsLikely
  <2>5. \A S : Share(S)' = Share(S)
    BY <2>1, <2>2 DEF Summed
  <2>6. \A S, c, k, q : Within(S, c, k, q)' <=> Within(S, c, k, q)
    <3> HIDE DEF Share
    <3> QED BY <1>5, <1>6, <2>1, <2>5
  <2> HIDE DEF Within
  <2> QED BY <1>6, <2>1, <2>3, <2>4, <2>6
<1>9. \A k : KeptCount(k)' = KeptCount(k)
  BY <1>1 DEF KeptCount
<1> QED
  BY <1>2, <1>4, <1>7, <1>8, <1>9

\* The fields of the record behind an answer.
LEMMA AnswerIs ==
    ASSUME Fitting, NEW by, NEW answer, Answered(by, answer)
    PROVE  SameInput /\ work'.by = by /\ work'.answer = answer
BY DEF Fitting, ReadoutTyped, Answered, SameInput

LEMMA AnsweredKeeps ==
    ASSUME ReadoutInv, Reading, NEW by, NEW answer, Answered(by, answer), by # "none",
           by = "greedy" => GreedyIsFirst(answer[1]),
           by = "drawn" => DrawnIsLikely(answer[1], KeptCount(answer[2]), answer[3]),
           by = "picked" => \A i \in DOMAIN answer[1] : answer[2][i] = work.logits[answer[1][i]]
    PROVE  ReadoutInv'
<1>1. SameInput /\ work'.by = by /\ work'.answer = answer
  BY AnswerIs DEF ReadoutInv, Reading
<1>2. work'.part = "readout" /\ work'.logits = work.logits
  BY <1>1 DEF Reading, Is, SameInput
<1>3. by = "greedy" => GreedyIsFirst(answer[1])'
  BY <1>1, InputKept
<1>4. by = "drawn" => DrawnIsLikely(answer[1], KeptCount(answer[2]), answer[3])'
  BY <1>1, InputKept
<1> QED
  BY <1>1, <1>2, <1>3, <1>4 DEF ReadoutInv, ReadoutsAgree, Is

(* A thread's result goes into its slot.                                    *)
LEMMA FilledKeeps ==
    ASSUME ReadoutInv, Reading, NEW p \in 0..(work.threads - 1), NEW best \in Result, Filled(p, p, best),
           SlotIs(best, RowCuts[p], RowCuts[p + 1])
    PROVE  ReadoutInv'
<1> DEFINE slots == [work.slots EXCEPT ![p] = best]
<1>1. Fitting /\ SlotsFilled /\ work.threads \in Nat /\ work.by = "none"
  BY Fits4 DEF ReadoutInv, Reading
<1>2. /\ slots \in [0..(work.threads - 1) -> Result] /\ slots[p] = best
      /\ \A q \in 0..(work.threads - 1) : q # p => slots[q] = work.slots[q]
  BY <1>1 DEF Fitting
<1>3. /\ SameInput /\ work'.by = "none" /\ work'.answer = work.answer /\ work'.ran = work.ran \cup {p}
      /\ work'.slots = slots
  BY <1>1 DEF Fitting, ReadoutTyped, Filled, SameInput
<1>4. work' = [work EXCEPT !.ran = work.ran \cup {p}, !.slots = slots]
  BY <1>1 DEF Filled, Fitting, ReadoutTyped
<1> HIDE DEF slots
<1>5. Fitting'
  <2>1. /\ work.ran \cup {p} \in SUBSET Nat /\ slots \in UNION {[0..(n - 1) -> Result] : n \in Nat}
    <3>1. work.ran \in SUBSET Nat /\ p \in Nat
      BY <1>1 DEF Fitting, ReadoutTyped
    <3>2. slots \in UNION {[0..(n - 1) -> Result] : n \in Nat}
      BY ONLY <1>1, <1>2
    <3> QED BY <3>1, <3>2
  <2>2. ReadoutTyped'
    BY <1>1, <1>4, <2>1 DEF Fitting, ReadoutTyped
  <2> QED BY <1>1, <1>2, <1>3, <2>2 DEF Fitting, SameInput
<1>6. SlotsFilled'
  <2>1. ASSUME NEW q \in 0..(work.threads - 1)
        PROVE  IF q \in work'.ran THEN SlotIs(work'.slots[q], RowCuts[q], RowCuts[q + 1]) ELSE work'.slots[q] = Below
    <3>1. CASE q = p
      BY <1>2, <1>3, <3>1
    <3>2. CASE q # p
      BY <1>1, <1>2, <1>3, <3>2 DEF SlotsFilled
    <3> QED BY <3>1, <3>2
  <2>2. RowCuts' = RowCuts /\ \A c, a, b : SlotIs(c, a, b)' <=> SlotIs(c, a, b)
    BY <1>3, InputKept
  <2>3. ASSUME NEW q \in 0..(work.threads - 1), q \in work'.ran
        PROVE  SlotIs(work.slots[q], RowCuts[q], RowCuts[q + 1])'
    <3> DEFINE c == work'.slots[q]
               a == RowCuts[q]
               b == RowCuts[q + 1]
    <3>1. SlotIs(c, a, b)
      BY <2>1, <2>3
    <3>2. RowCuts'[q] = a /\ RowCuts'[q + 1] = b
      BY <2>2
    <3>3. (IF a < b THEN /\ c.index \in a..(b - 1) /\ c = [value |-> Value(c.index), index |-> c.index]
                         /\ \A row \in a..(b - 1) : Ranks(c, [value |-> Value(row), index |-> row])
           ELSE c = Below)
      BY <3>1 DEF SlotIs, BestRow, Candidate
    <3>4. \A row : Value(row)' = Value(row)
      BY <1>3 DEF SameInput, Value
    <3> QED BY <3>2, <3>3, <3>4 DEF SlotIs, BestRow, Candidate
  <2> QED BY <1>3, <2>1, <2>3 DEF SlotsFilled, SameInput
<1>7. ReadoutsAgree'
  BY <1>3 DEF ReadoutsAgree
<1>8. Is("readout")'
  BY <1>3 DEF Reading, Is, SameInput
<1> QED
  BY <1>5, <1>6, <1>7, <1>8 DEF ReadoutInv

-----------------------------------------------------------------------------
(* The greedy steps.                                                        *)

\* Where the executor's range lies among those of all threads.
LEMMA ActiveIs ==
    ASSUME NEW tiles \in Nat \ {0}, NEW threads \in Nat \ {0}
    PROVE  /\ Active(tiles, threads) \in 1..threads
           /\ \A p \in 0..Active(tiles, threads) :
                Begin(tiles, Active(tiles, threads), p) = Begin(tiles, threads, p)
           /\ \A p \in Active(tiles, threads)..threads : Begin(tiles, threads, p) = tiles
           /\ \A p \in 0..(Active(tiles, threads) - 1) :
                Begin(tiles, threads, p) < Begin(tiles, threads, p + 1)
<1>1. CASE threads < tiles
  <2>1. Active(tiles, threads) = threads /\ threads \in 1..threads
    BY <1>1 DEF Active
  <2>2. \A p \in threads..threads : p = threads
    OBVIOUS
  <2>3. ASSUME NEW p \in 0..(threads - 1) PROVE Begin(tiles, threads, p) < Begin(tiles, threads, p + 1)
    BY <1>1, BeginIs
  <2> QED BY <2>1, <2>2, <2>3, BeginIs
<1>2. CASE ~(threads < tiles)
  <2>1. Active(tiles, threads) = tiles /\ tiles \in 1..threads
    BY <1>2 DEF Active
  <2>2. ASSUME NEW p \in 0..tiles PROVE Begin(tiles, tiles, p) = p
    <3>1. tiles \div tiles = 1 /\ tiles % tiles = 0
      <4>1. tiles = tiles * 1 + 0 /\ 1 \in Nat /\ 0 \in Nat /\ 0 < tiles
        OBVIOUS
      <4> QED BY <4>1, DividedUnique
    <3> QED BY <3>1 DEF Begin
  <2>3. ASSUME NEW p \in 0..threads PROVE Begin(tiles, threads, p) = IF p <= tiles THEN p ELSE tiles
    <3>1. CASE tiles < threads
      BY <3>1, BeginIs
    <3>2. CASE tiles = threads
      <4>1. tiles \div tiles = 1 /\ tiles % tiles = 0
        <5>1. tiles = tiles * 1 + 0 /\ 1 \in Nat /\ 0 \in Nat /\ 0 < tiles
          OBVIOUS
        <5> QED BY <5>1, DividedUnique
      <4> QED BY <3>2, <4>1 DEF Begin
    <3> QED BY <1>2, <3>1, <3>2
  <2> QED BY <2>1, <2>2, <2>3
<1> QED
  BY <1>1, <1>2

\* The slot found is the thread's own.
LEMMA SlotIsOwn ==
    ASSUME NEW tiles \in Nat \ {0}, NEW threads \in Nat \ {0}, NEW p \in 0..(Active(tiles, threads) - 1)
    PROVE  SlotOf(Begin(tiles, threads, p), tiles, threads) = p
<1> DEFINE B(q) == Begin(tiles, threads, q)
           f == [q \in 0..threads |-> B(q)]
           active == Active(tiles, threads)
           Is4(x) == /\ x = threads - 1 \/ B(x) = B(p)
                     /\ \A q \in 0..(x - 1) : B(q) # B(p)
<1>1. active \in 1..threads /\ p \in 0..(threads - 1) /\ p \in 0..threads
  <2>1. active \in 1..threads
    BY ActiveIs
  <2> HIDE DEF active
  <2>2. p \in 0..(active - 1)
    BY DEF active
  <2> QED BY <2>1, <2>2
<1>2. Cutting(f, threads, tiles)
  <2>1. B(0) = 0 /\ B(threads) = tiles /\ \A q \in Nat : B(q) \in Nat /\ B(q) <= B(q + 1)
    BY BeginIs
  <2> HIDE DEF B
  <2>2. 0 \in 0..threads /\ threads \in 0..threads /\ \A q \in 0..threads : q \in Nat /\ f[q] = B(q)
    OBVIOUS
  <2>3. \A q \in 0..(threads - 1) : q \in 0..threads /\ q + 1 \in 0..threads
    OBVIOUS
  <2> HIDE DEF f
  <2> QED BY <2>1, <2>2, <2>3 DEF Cutting
<1>3. ASSUME NEW q \in 0..(p - 1) PROVE B(q) # B(p)
  <2>1. q \in 0..(active - 1) /\ q + 1 \in 0..p /\ q \in 0..threads /\ q + 1 \in 0..threads
    BY <1>1
  <2>2. B(q) < B(q + 1)
    BY <2>1, ActiveIs
  <2>3. f[q + 1] <= f[p]
    BY <1>1, <1>2, <2>1, CutRises
  <2>4. f[q] \in Nat /\ f[q + 1] \in Nat /\ f[p] \in Nat
    BY <1>1, <1>2, <2>1 DEF Cutting
  <2>5. f[q] = B(q) /\ f[q + 1] = B(q + 1) /\ f[p] = B(p)
    BY <1>1, <2>1
  <2> HIDE DEF B, f
  <2> QED BY <2>2, <2>3, <2>4, <2>5
<1>4. Is4(p)
  BY <1>3
<1>5. ASSUME NEW x \in 0..(threads - 1), Is4(x) PROVE x = p
  <2>1. CASE x < p
    <3>1. x \in 0..(p - 1) /\ x # threads - 1
      BY <1>1, <2>1
    <3> QED BY <1>3, <1>5, <3>1
  <2>2. CASE p < x
    <3>1. p \in 0..(x - 1)
      BY <1>1, <2>2
    <3> QED BY <1>5, <3>1
  <2> QED BY <1>1, <2>1, <2>2
<1>6. SlotOf(B(p), tiles, threads) = CHOOSE x \in 0..(threads - 1) : Is4(x)
  BY DEF SlotOf
<1> HIDE DEF Is4
<1> QED
  BY <1>1, <1>4, <1>5, <1>6

LEMMA BelowIs == Below \in Result /\ Below.value = 0 - Infinity
BY ReadoutAssumption DEF Below, Result

(* The tiles of a thread are the rows between its cuts.                     *)
LEMMA RowsBetween ==
    ASSUME Fitting, NEW p \in 0..(work.threads - 1), NEW first, NEW behind,
           first = TileCut(p), behind = TileCut(p + 1)
    PROVE  /\ RowCuts[p] = first * work.head.tile /\ RowCuts[p + 1] = behind * work.head.tile
           /\ RowCuts[p] \in Nat /\ RowCuts[p + 1] \in Nat /\ RowCuts[p] <= RowCuts[p + 1] /\ RowCuts[p + 1] <= RowCount
           /\ (behind - first) * work.head.tile = RowCuts[p + 1] - RowCuts[p]
           /\ first < behind => RowCuts[p] < RowCuts[p + 1]
<1>1. /\ work.threads \in Nat \ {0} /\ work.head.tile \in Nat \ {0}
      /\ p \in 0..work.threads /\ p + 1 \in 0..work.threads /\ work.threads \in 0..work.threads
  BY Fits4
<1>2. Cutting(TileCuts, work.threads, work.head.tiles) /\ Cutting(RowCuts, work.threads, RowCount)
  BY <1>1, TilesCut, RowsCut
<1>3. TileCuts[p] = first /\ TileCuts[p + 1] = behind
  BY <1>1 DEF TileCuts
<1>4. first \in Nat /\ behind \in Nat /\ first <= behind
  BY <1>1, <1>2, <1>3 DEF Cutting
<1>5. /\ RowCuts[p] \in Nat /\ RowCuts[p + 1] \in Nat /\ RowCuts[p] <= RowCuts[p + 1] /\ RowCuts[p + 1] <= RowCount
  <2>1. RowCuts[p + 1] <= RowCuts[work.threads]
    BY <1>1, <1>2, CutRises
  <2> QED BY <1>1, <1>2, <2>1 DEF Cutting
<1>6. RowCuts[p] = first * work.head.tile /\ RowCuts[p + 1] = behind * work.head.tile
  BY <1>1 DEF RowCuts
<1>7. (behind - first) * work.head.tile = behind * work.head.tile - first * work.head.tile
  BY <1>1, <1>4, TimesGrows
<1>8. first < behind => RowCuts[p] < RowCuts[p + 1]
  <2>1. SUFFICES ASSUME first < behind PROVE RowCuts[p] < RowCuts[p + 1]
    OBVIOUS
  <2> DEFINE d == behind - first
             t == work.head.tile
  <2>2. d \in Nat \ {0} /\ t \in Nat \ {0}
    BY <1>1, <1>4, <2>1
  <2>3. d * t > 0
    <3> HIDE DEF d, t
    <3> QED BY <2>2
  <2> QED BY <1>5, <1>6, <1>7, <2>3
<1> QED
  BY <1>5, <1>6, <1>7, <1>8

(* One partition of the fused selection.                                    *)
LEMMA PartitionReadKeeps ==
    ASSUME ReadoutInv, Reading, NEW p \in DOMAIN work.slots, PartitionRead(p)
    PROVE  ReadoutInv'
<1> DEFINE tiles == work.head.tiles
           active == Active(tiles, work.threads)
           first == Begin(tiles, active, p)
           behind == Begin(tiles, active, p + 1)
           row == first * work.head.tile
           start == [value |-> 0 - Infinity, index |-> row]
           best == BestOf(start, CandidatesFrom(row, (behind - first) * work.head.tile), FALSE)
<1>1. Fitting /\ ~work.batch /\ p \in 0..(work.threads - 1) /\ work.threads \in Nat \ {0} /\ tiles \in Nat \ {0}
  <2>1. Fitting /\ ~work.batch
    BY DEF ReadoutInv, Reading, PartitionRead
  <2>2. p \in 0..(work.threads - 1) /\ work.threads \in Nat
    BY <2>1, Fits4 DEF Fitting
  <2> QED BY <2>1, <2>2, Fits4
<1>2. p < active
  BY DEF PartitionRead
<1>3. p \in 0..active /\ p + 1 \in 0..active /\ p \in 0..(active - 1)
  <2>1. active \in 1..work.threads
    BY <1>1, ActiveIs
  <2> HIDE DEF active
  <2> QED BY <1>1, <1>2, <2>1
<1>4. first = TileCut(p) /\ behind = TileCut(p + 1)
  <2>1. first = Begin(tiles, work.threads, p) /\ behind = Begin(tiles, work.threads, p + 1)
    BY <1>1, <1>3, ActiveIs
  <2> QED BY <1>1, <2>1 DEF TileCut
<1>5. first < behind /\ SlotOf(first, tiles, work.threads) = p
  <2>1. first = Begin(tiles, work.threads, p) /\ behind = Begin(tiles, work.threads, p + 1)
    BY <1>1, <1>3, ActiveIs
  <2>2. Begin(tiles, work.threads, p) < Begin(tiles, work.threads, p + 1)
    BY <1>1, <1>3, ActiveIs
  <2>3. SlotOf(Begin(tiles, work.threads, p), tiles, work.threads) = p
    BY <1>1, <1>3, SlotIsOwn
  <2> HIDE DEF first, behind
  <2> QED BY <2>1, <2>2, <2>3
<1>6. Filled(p, p, best)
  <2>1. Filled(p, SlotOf(first, tiles, work.threads), best)
    BY DEF PartitionRead
  <2> HIDE DEF first, best
  <2> QED BY <1>5, <2>1
<1> HIDE DEF first, behind
<1>7. /\ RowCuts[p] = row /\ (behind - first) * work.head.tile = RowCuts[p + 1] - RowCuts[p]
      /\ RowCuts[p] \in Nat /\ RowCuts[p + 1] \in Nat /\ RowCuts[p] < RowCuts[p + 1] /\ RowCuts[p + 1] <= RowCount
  BY <1>1, <1>4, <1>5, RowsBetween
<1> HIDE DEF row
<1>8. start \in Result /\ start.value = 0 - Infinity
  BY <1>7, ReadoutAssumption DEF Result
<1> HIDE DEF start
<1>9. SlotIs(best, RowCuts[p], RowCuts[p + 1])
  <2>1. best = BestOf(start, CandidatesFrom(RowCuts[p], RowCuts[p + 1] - RowCuts[p]), FALSE)
    BY <1>7
  <2> HIDE DEF best
  <2> DEFINE a == RowCuts[p]
             b == RowCuts[p + 1]
             batch == FALSE
  <2>2. a \in Nat /\ b \in Nat /\ a <= b /\ a < b /\ b <= RowCount /\ batch \in BOOLEAN
    BY <1>7
  <2>3. best = BestOf(start, CandidatesFrom(a, b - a), batch)
    BY <2>1
  <2> HIDE DEF a, b, batch
  <2>4. SlotIs(best, a, b)
    BY <1>1, <1>8, <2>2, <2>3, RangeBest
  <2> QED BY <2>4 DEF a, b
<1>10. best \in Result
  <2> HIDE DEF best
  <2>1. best = Candidate(best.index) /\ best.index \in RowCuts[p]..(RowCuts[p + 1] - 1)
    BY <1>7, <1>9 DEF SlotIs, BestRow
  <2>2. best.index \in VocabRows(work.head)
    BY <1>1, <1>7, <2>1, Fits4
  <2>3. Candidate(best.index) \in Result
    BY <1>1, <2>2, CandidateIs
  <2> QED BY <2>1, <2>3
<1> HIDE DEF best
<1> QED
  BY <1>1, <1>6, <1>9, <1>10, FilledKeeps

(* One worker of a batch.                                                   *)
LEMMA WorkerReadKeeps ==
    ASSUME ReadoutInv, Reading, NEW p \in DOMAIN work.slots, WorkerRead(p)
    PROVE  ReadoutInv'
<1> DEFINE first == WorkerBegin(p)
           behind == WorkerBegin(p + 1)
           best == BestOf(Below, CandidatesFrom(first * work.head.tile, (behind - first) * work.head.tile), TRUE)
<1>1. Fitting /\ work.batch /\ p \in 0..(work.threads - 1)
  <2>1. Fitting /\ work.batch
    BY DEF ReadoutInv, Reading, WorkerRead
  <2> QED BY <2>1 DEF Fitting
<1>2. first = TileCut(p) /\ behind = TileCut(p + 1)
  BY <1>1 DEF TileCut
<1>3. Filled(p, p, best)
  BY DEF WorkerRead
<1> HIDE DEF first, behind
<1>4. /\ RowCuts[p] = first * work.head.tile /\ (behind - first) * work.head.tile = RowCuts[p + 1] - RowCuts[p]
      /\ RowCuts[p] \in Nat /\ RowCuts[p + 1] \in Nat /\ RowCuts[p] <= RowCuts[p + 1] /\ RowCuts[p + 1] <= RowCount
  BY <1>1, <1>2, RowsBetween
<1>5. SlotIs(best, RowCuts[p], RowCuts[p + 1])
  <2>1. best = BestOf(Below, CandidatesFrom(RowCuts[p], RowCuts[p + 1] - RowCuts[p]), TRUE)
    BY <1>4
  <2> HIDE DEF best
  <2> DEFINE a == RowCuts[p]
             b == RowCuts[p + 1]
             batch == TRUE
  <2>2. a \in Nat /\ b \in Nat /\ a <= b /\ b <= RowCount /\ batch \in BOOLEAN
    BY <1>4
  <2>3. best = BestOf(Below, CandidatesFrom(a, b - a), batch)
    BY <2>1
  <2> HIDE DEF a, b, batch
  <2>4. SlotIs(best, a, b)
    BY <1>1, <2>2, <2>3, BelowIs, RangeBest
  <2> QED BY <2>4 DEF a, b
<1>6. best \in Result
  <2> HIDE DEF best
  <2>1. CASE RowCuts[p] < RowCuts[p + 1]
    <3>1. best = Candidate(best.index) /\ best.index \in RowCuts[p]..(RowCuts[p + 1] - 1)
      BY <1>5, <2>1 DEF SlotIs, BestRow
    <3>2. best.index \in VocabRows(work.head)
      <4> DEFINE a == RowCuts[p]
                 b == RowCuts[p + 1]
                 r == RowCount
                 i == best.index
      <4>1. VocabRows(work.head) = 0..(r - 1) /\ r \in Nat
        BY <1>1, Fits4
      <4>2. a \in Nat /\ b \in Nat /\ b <= r /\ i \in a..(b - 1)
        BY <1>4, <3>1
      <4> HIDE DEF a, b, r, i
      <4>3. i \in 0..(r - 1)
        BY ONLY <4>1, <4>2
      <4> QED BY <4>1, <4>3 DEF i
    <3>3. Candidate(best.index) \in Result
      BY <1>1, <3>2, CandidateIs
    <3> QED BY <3>1, <3>3
  <2>2. CASE ~(RowCuts[p] < RowCuts[p + 1])
    BY <1>5, <2>2, BelowIs DEF SlotIs
  <2> QED BY <2>1, <2>2
<1> HIDE DEF best
<1> QED
  BY <1>1, <1>3, <1>5, <1>6, FilledKeeps

(* When every thread has run, the slots cover the head.                     *)
LEMMA SlotsCover ==
    ASSUME Fitting, SlotsFilled, work.threads > 0,
           work.ran = 0..((IF work.batch THEN work.threads ELSE Active(work.head.tiles, work.threads)) - 1)
    PROVE  SlotsAre(work.slots, RowCuts, work.threads)
<1>1. /\ work.threads \in Nat \ {0} /\ work.head.tiles \in Nat \ {0} /\ work.batch \in BOOLEAN
      /\ work.head.tile \in Nat
  BY Fits4
<1> SUFFICES ASSUME NEW p \in 0..(work.threads - 1) PROVE SlotIs(work.slots[p], RowCuts[p], RowCuts[p + 1])
  BY DEF SlotsAre
<1>2. CASE p \in work.ran
  BY <1>2 DEF SlotsFilled
<1>3. CASE p \notin work.ran
  <2>1. ~work.batch
    BY <1>3
  <2> DEFINE active == Active(work.head.tiles, work.threads)
  <2>2. active \in 1..work.threads /\ p \notin 0..(active - 1)
    <3>1. active \in 1..work.threads
      BY <1>1, ActiveIs
    <3>2. work.ran = 0..(active - 1)
      BY <2>1
    <3> QED BY <1>3, <3>1, <3>2
  <2>3. p \in active..work.threads /\ p + 1 \in active..work.threads /\ p \in 0..work.threads /\ p + 1 \in 0..work.threads
    <3> HIDE DEF active
    <3> QED BY <1>1, <2>2
  <2>4. Begin(work.head.tiles, work.threads, p) = work.head.tiles /\ Begin(work.head.tiles, work.threads, p + 1) = work.head.tiles
    <3>1. \A x \in active..work.threads : Begin(work.head.tiles, work.threads, x) = work.head.tiles
      BY <1>1, ActiveIs
    <3> HIDE DEF active
    <3> QED BY <2>3, <3>1
  <2>5. RowCuts[p] = RowCuts[p + 1]
    BY <2>1, <2>3, <2>4 DEF RowCuts, TileCut
  <2>6. RowCuts[p] \in Nat
    <3>1. Cutting(RowCuts, work.threads, RowCount)
      BY RowsCut
    <3> QED BY <2>3, <3>1 DEF Cutting
  <2>7. work.slots[p] = Below
    BY <1>3 DEF SlotsFilled
  <2> QED BY <2>5, <2>6, <2>7 DEF SlotIs
<1> QED
  BY <1>2, <1>3

(* The reduction over the slots of the fused selection.                     *)
LEMMA GreedyReadKeeps == ReadoutInv /\ GreedyRead => ReadoutInv'
<1> SUFFICES ASSUME ReadoutInv, GreedyRead PROVE ReadoutInv'
  OBVIOUS
<1> DEFINE n == work.threads
           s == [i \in 1..n |-> work.slots[i - 1]]
           batch == FALSE
           c == BestOf(Below, s, batch)
<1>1. /\ Reading /\ ~work.batch /\ n > 0 /\ Fitting /\ SlotsFilled
      /\ work.ran = 0..(Active(work.head.tiles, work.threads) - 1) /\ Answered("greedy", <<c.index>>)
  BY DEF GreedyRead, ReadoutInv, Reading
<1>2. n \in Nat \ {0} /\ work.slots \in [0..(n - 1) -> Result]
  BY <1>1, Fits4 DEF Fitting
<1>3. Cutting(RowCuts, n, RowCount) /\ SlotsAre(work.slots, RowCuts, n)
  BY <1>1, RowsCut, SlotsCover
<1> HIDE DEF n
<1>4. \A i \in 1..n : s[i] = work.slots[i - 1] /\ i - 1 \in 0..(n - 1) /\ s[i] \in Result
  BY <1>2
<1>5. s \in [1..n -> Result]
  BY <1>4
<1> HIDE DEF s
<1>6. Rising(Below, s, n)
  <2>1. ASSUME NEW i \in 1..n PROVE s[i].value = Below.value => Below.index <= s[i].index
    <3> DEFINE p == i - 1
    <3>1. s[i] = work.slots[p] /\ p \in 0..(n - 1)
      BY <1>4
    <3> HIDE DEF p
    <3>2. work.slots[p].value = Below.value => Below.index <= work.slots[p].index
      BY <1>1, <1>2, <1>3, <3>1, SlotsRise
    <3> QED BY <3>1, <3>2
  <2>2. ASSUME NEW i \in 1..n, NEW j \in 1..n, i < j, s[i].value = s[j].value PROVE s[i].index <= s[j].index
    <3> DEFINE p == i - 1
               q == j - 1
    <3>1. p \in 0..(n - 1) /\ q \in 0..(n - 1) /\ p < q /\ s[i] = work.slots[p] /\ s[j] = work.slots[q]
      BY <1>2, <1>4, <2>2
    <3> HIDE DEF p, q
    <3> QED BY <1>1, <1>2, <1>3, <2>2, <3>1, SlotsRise
  <2> QED BY <2>1, <2>2 DEF Rising
<1>7. Chosen(c, Below, s, n)
  <2>1. batch \in BOOLEAN /\ n \in Nat
    BY <1>2
  <2> HIDE DEF batch
  <2> QED BY <1>5, <1>6, <2>1, BelowIs, BestOfIs
<1> HIDE DEF c
<1>8. c = Below \/ \E p \in 0..(n - 1) : c = work.slots[p]
  BY <1>4, <1>7 DEF Chosen
<1>9. ASSUME NEW p \in 0..(n - 1) PROVE Ranks(c, work.slots[p])
  <2> DEFINE i == p + 1
  <2>1. i \in 1..n /\ i - 1 = p
    BY <1>2
  <2> HIDE DEF i
  <2> QED BY <1>4, <1>7, <2>1 DEF Chosen
<1>10. GreedyIsFirst(c.index)
  <2>1. BestRow(c, 0, RowCount)
    BY <1>1, <1>2, <1>3, <1>8, <1>9, SlotsCombine
  <2> QED BY <1>1, <2>1, BestIsFirst
<1>11. <<c.index>>[1] = c.index
  OBVIOUS
<1> QED
  BY <1>1, <1>10, <1>11, AnsweredKeeps

(* The reduction over the workers of a batch.                               *)
LEMMA BatchReadKeeps == ReadoutInv /\ BatchRead => ReadoutInv'
<1> SUFFICES ASSUME ReadoutInv, BatchRead PROVE ReadoutInv'
  OBVIOUS
<1> DEFINE n == work.threads
           m == n - 1
           start == work.slots[0]
           batch == TRUE
           c == BestOf(start, Others, batch)
<1>1. /\ Reading /\ work.batch /\ n > 0 /\ Fitting /\ SlotsFilled
      /\ work.ran = 0..(work.threads - 1) /\ Answered("greedy", <<c.index>>)
  <2>1. Reading /\ work.batch /\ work.ran = 0..(work.threads - 1) /\ Answered("greedy", <<c.index>>)
    BY DEF BatchRead
  <2> HIDE DEF c
  <2> QED BY <2>1 DEF ReadoutInv, Reading, Fitting
<1>2. n \in Nat \ {0} /\ work.slots \in [0..(n - 1) -> Result]
  BY <1>1, Fits4 DEF Fitting
<1>3. Cutting(RowCuts, n, RowCount) /\ SlotsAre(work.slots, RowCuts, n)
  BY <1>1, RowsCut, SlotsCover
<1>4. Others = [i \in 1..m |-> work.slots[i]]
  BY DEF Others
<1> HIDE DEF n
<1>5. m \in Nat /\ start \in Result /\ \A i \in 1..m : i \in 0..(n - 1) /\ work.slots[i] \in Result
  BY <1>2
<1> HIDE DEF m
<1>6. Others \in [1..m -> Result] /\ \A i \in 1..m : Others[i] = work.slots[i]
  BY <1>4, <1>5
<1>7. Chosen(c, start, Others, m)
  <2>1. batch \in BOOLEAN /\ batch
    OBVIOUS
  <2> HIDE DEF batch, start
  <2> QED BY <1>5, <1>6, <2>1, BestOfIs
<1> HIDE DEF c
<1>8. \E p \in 0..(n - 1) : c = work.slots[p]
  <2>1. 0 \in 0..(n - 1)
    BY <1>2
  <2> QED BY <1>5, <1>6, <1>7, <2>1 DEF Chosen
<1>9. ASSUME NEW p \in 0..(n - 1) PROVE Ranks(c, work.slots[p])
  <2>1. p = 0 \/ p \in 1..m
    BY <1>2 DEF m
  <2> QED BY <1>6, <1>7, <2>1 DEF Chosen
<1>10. GreedyIsFirst(c.index)
  <2>1. BestRow(c, 0, RowCount)
    BY <1>1, <1>2, <1>3, <1>8, <1>9, SlotsCombine
  <2> QED BY <1>1, <2>1, BestIsFirst
<1>11. <<c.index>>[1] = c.index
  OBVIOUS
<1> QED
  BY <1>1, <1>10, <1>11, AnsweredKeeps

(* All the logits one after the other.                                      *)
LEMMA LogitsReadKeeps == ReadoutInv /\ LogitsRead => ReadoutInv'
<1> SUFFICES ASSUME ReadoutInv, LogitsRead PROVE ReadoutInv'
  OBVIOUS
<1> DEFINE n == RowCount
           batch == FALSE
           c == BestOf(Below, CandidatesFrom(0, n), batch)
<1>1. Reading /\ Fitting /\ Answered("greedy", <<c.index>>)
  BY DEF LogitsRead, ReadoutInv, Reading, RowCount
<1>2. n \in Nat \ {0} /\ batch \in BOOLEAN /\ n - 0 = n /\ 0 < n /\ 0 <= n /\ n <= n
  BY <1>1, Fits4
<1> HIDE DEF batch
<1>3. SlotIs(c, 0, n)
  <2>1. SlotIs(BestOf(Below, CandidatesFrom(0, RowCount - 0), batch), 0, RowCount)
    BY <1>1, <1>2, BelowIs, RangeBest
  <2> QED BY <1>2, <2>1
<1> HIDE DEF c
<1>4. GreedyIsFirst(c.index)
  BY <1>1, <1>2, <1>3, BestIsFirst DEF SlotIs
<1>5. <<c.index>>[1] = c.index
  OBVIOUS
<1> QED
  BY <1>1, <1>4, <1>5, AnsweredKeeps

-----------------------------------------------------------------------------
(* The sampler and the selected readout.                                    *)

(* A sequence that has the elements of a finite set once has all of them.   *)
LEMMA SeqsAreOnto ==
    ASSUME NEW S, IsFiniteSet(S), NEW s \in SetToSeqs(S)
    PROVE  /\ Cardinality(S) \in Nat /\ s \in [1..Cardinality(S) -> S] /\ Len(s) = Cardinality(S)
           /\ ToSet(s) = S /\ \A x \in S : \E i \in 1..Cardinality(S) : s[i] = x
<1> DEFINE n == Cardinality(S)
<1>1. n \in Nat
  BY FS_CardinalityType
<1>2. s \in [1..n -> S] /\ \A i, j \in 1..n : i # j => s[i] # s[j]
  BY DEF SetToSeqs
<1>3. IsFiniteSet(1..n) /\ Cardinality(1..n) = n
  <2>1. 1 \in Int /\ n \in Int /\ (1 > n => n = 0) /\ n - 1 + 1 = n
    BY <1>1
  <2> HIDE DEF n
  <2> QED BY <2>1, FS_Interval
<1> HIDE DEF n
<1>4. s \in Injection(1..n, S)
  BY <1>2 DEF Injection, IsInjective
<1>5. s \in Surjection(1..n, S)
  <2>1. Cardinality(1..n) = Cardinality(S) <=> s \in Surjection(1..n, S)
    BY <1>4, FS_Injection
  <2> QED BY <1>3, <2>1 DEF n
<1>6. \A x \in S : \E i \in 1..n : s[i] = x
  BY <1>5 DEF Surjection
<1>7. ToSet(s) = S
  <2>1. DOMAIN s = 1..n
    BY <1>2
  <2> QED BY <1>2, <1>6, <2>1 DEF ToSet
<1>8. Len(s) = n
  BY <1>1, <1>2
<1> QED
  BY <1>1, <1>2, <1>6, <1>7, <1>8 DEF n

(* A larger set has a larger sum.                                           *)
LEMMA SummedGrows ==
    ASSUME NEW T, IsFiniteSet(T), NEW S \in SUBSET T, NEW number, \A row \in T : number[row] \in Nat
    PROVE  Summed(S, number) \in Nat /\ Summed(T, number) \in Nat /\ Summed(S, number) <= Summed(T, number)
<1> DEFINE Of(row) == {row} \X (1..number[row])
           f == [row \in T |-> Of(row)]
           parts == {Of(row) : row \in T}
           U == UNION parts
           V == UNION {Of(row) : row \in S}
<1>1. IsFiniteSet(parts)
  <2>1. f \in [T -> parts] /\ \A x \in parts : \E row \in T : f[row] = x
    OBVIOUS
  <2>2. f \in Surjection(T, parts)
    BY <2>1 DEF Surjection
  <2> HIDE DEF f, parts
  <2> QED BY <2>2, FS_Surjection
<1>2. \A x \in parts : IsFiniteSet(x)
  <2>1. ASSUME NEW row \in T PROVE IsFiniteSet(Of(row))
    <3>1. IsFiniteSet({row})
      BY FS_Singleton
    <3>2. IsFiniteSet(1..number[row])
      <4>1. 1 \in Int /\ number[row] \in Int
        OBVIOUS
      <4> QED BY <4>1, FS_Interval
    <3> QED BY <3>1, <3>2, FS_Product
  <2> HIDE DEF Of
  <2> QED BY <2>1
<1>3. IsFiniteSet(U)
  <2> HIDE DEF parts
  <2> QED BY <1>1, <1>2, FS_UNION
<1>4. V \in SUBSET U
  <2> HIDE DEF Of
  <2> QED OBVIOUS
<1>5. Summed(S, number) = Cardinality(V) /\ Summed(T, number) = Cardinality(U)
  BY DEF Summed
<1> HIDE DEF U, V
<1>6. IsFiniteSet(V) /\ Cardinality(V) <= Cardinality(U)
  BY <1>3, <1>4, FS_Subset
<1> QED
  BY <1>3, <1>5, <1>6, FS_CardinalityType

LEMMA RowsFinite ==
    ASSUME Fitting
    PROVE  IsFiniteSet(VocabRows(work.head)) /\ Cardinality(VocabRows(work.head)) = RowCount
<1>1. RowCount \in Nat \ {0} /\ VocabRows(work.head) = 0..(RowCount - 1)
  BY Fits4
<1>2. 0 \in Int /\ RowCount - 1 \in Int /\ ~(0 > RowCount - 1) /\ (RowCount - 1) - 0 + 1 = RowCount
  BY <1>1
<1> QED
  BY <1>1, <1>2, FS_Interval

(* The k best rows, and the order they were sorted into.                    *)
LEMMA SortedIs ==
    ASSUME Fitting, NEW k \in TopKs, NEW S \in BestKept(KeptCount(k)), NEW s \in Ordered(S)
    PROVE  /\ KeptCount(k) \in Nat \ {0} /\ Cardinality(S) = KeptCount(k) /\ IsFiniteSet(S)
           /\ S \in SUBSET VocabRows(work.head)
           /\ \A inside \in S, outside \in VocabRows(work.head) \ S : Value(inside) >= Value(outside)
           /\ s \in [1..KeptCount(k) -> S] /\ Len(s) = KeptCount(k) /\ ToSet(s) = S
           /\ \A row \in S : \E i \in 1..KeptCount(k) : s[i] = row
           /\ \A i, j \in 1..KeptCount(k) : i < j => Value(s[i]) >= Value(s[j])
<1>1. KeptCount(k) \in Nat \ {0}
  <2>1. k \in Nat /\ Cardinality(VocabRows(work.head)) \in Nat \ {0}
    BY Fits4, RowsFinite, ReadoutAssumption
  <2> QED BY <2>1 DEF KeptCount
<1>2. /\ S \in SUBSET VocabRows(work.head) /\ Cardinality(S) = KeptCount(k)
      /\ \A inside \in S, outside \in VocabRows(work.head) \ S : Value(inside) >= Value(outside)
  BY DEF BestKept
<1>3. IsFiniteSet(S)
  BY <1>2, RowsFinite, FS_Subset
<1>4. s \in SetToSeqs(S) /\ \A i, j \in DOMAIN s : i < j => Value(s[i]) >= Value(s[j])
  BY DEF Ordered
<1>5. /\ s \in [1..KeptCount(k) -> S] /\ Len(s) = KeptCount(k) /\ ToSet(s) = S
      /\ \A row \in S : \E i \in 1..KeptCount(k) : s[i] = row
  BY <1>2, <1>3, <1>4, SeqsAreOnto
<1>6. DOMAIN s = 1..KeptCount(k)
  BY <1>5
<1> QED
  BY <1>1, <1>2, <1>3, <1>4, <1>5, <1>6

(* The nucleus is the shortest prefix that holds enough: there is one.      *)
LEMMA NucleusIs ==
    ASSUME Fitting, NEW top_p \in TopPs, NEW n \in Nat \ {0}, NEW s, Len(s) = n, DOMAIN s = 1..n,
           ToSet(s) \in SUBSET VocabRows(work.head)
    PROVE  /\ NucleusSize(s, top_p) \in 1..n
           /\ \A m \in 1..(NucleusSize(s, top_p) - 1) :
                MassOf({s[i] : i \in 1..m}) * top_p[2] < MassOf(ToSet(s)) * top_p[1]
<1> DEFINE H == Holding(s, top_p)
           total == MassOf(ToSet(s))
           N == NucleusSize(s, top_p)
           number == [row \in VocabRows(work.head) |-> Exp[Value(row)]]
<1>1. top_p[1] \in Nat /\ top_p[2] \in Nat /\ top_p[1] <= top_p[2]
  BY ReadoutAssumption
<1>2. IsFiniteSet(ToSet(s)) /\ \A row \in ToSet(s) : number[row] \in Nat
  <2>1. ASSUME NEW row \in VocabRows(work.head) PROVE number[row] \in Nat
    BY CandidateIs
  <2>2. IsFiniteSet(ToSet(s))
    BY RowsFinite, FS_Subset
  <2> HIDE DEF number
  <2> QED BY <2>1, <2>2
<1>3. \A R \in SUBSET ToSet(s) : MassOf(R) \in Nat
  <2> TAKE R \in SUBSET ToSet(s)
  <2>1. MassOf(R) = Summed(R, number)
    BY DEF MassOf
  <2> HIDE DEF number
  <2> QED BY <1>2, <2>1, SummedGrows
<1>4. \A m \in 1..n : {s[i] : i \in 1..m} \in SUBSET ToSet(s)
  BY DEF ToSet
<1>5. total \in Nat /\ \A m \in 1..n : MassOf({s[i] : i \in 1..m}) \in Nat
  <2>1. ToSet(s) \in SUBSET ToSet(s)
    OBVIOUS
  <2> QED BY <1>3, <1>4, <2>1
<1> DEFINE Enough(m) == MassOf({s[i] : i \in 1..m}) * top_p[2] >= total * top_p[1]
<1>6. H = {m \in 1..n : Enough(m)}
  BY DEF Holding
<1>7. n \in H
  <2>1. {s[i] : i \in 1..n} = ToSet(s) /\ n \in 1..n
    BY DEF ToSet
  <2>2. total * top_p[2] >= total * top_p[1]
    <3> DEFINE a == top_p[1]
               b == top_p[2]
               t == total
    <3>1. a \in Nat /\ b \in Nat /\ a <= b /\ t \in Nat
      BY <1>1, <1>5
    <3> HIDE DEF a, b, t
    <3>2. a * t <= b * t /\ a * t = t * a /\ b * t = t * b /\ t * a \in Nat /\ t * b \in Nat
      BY <3>1, TimesGrows
    <3>3. t * b >= t * a
      BY <3>2
    <3> QED BY <3>3 DEF a, b, t
  <2>3. Enough(n)
    BY <2>1, <2>2
  <2> HIDE DEF Enough, H
  <2> QED BY <1>6, <2>1, <2>3
<1> HIDE DEF Enough
<1>8. \E m \in H : \A q \in H : m <= q
  <2>1. H \in SUBSET Nat /\ H # {}
    <3> HIDE DEF H
    <3>1. H \in SUBSET (1..n) /\ 1..n \in SUBSET Nat
      BY <1>6
    <3> QED BY <1>7, <3>1
  <2> HIDE DEF H
  <2> QED BY <2>1, LeastExists
<1>9. N \in H /\ \A q \in H : N <= q
  <2>1. N = CHOOSE m \in H : \A q \in H : m <= q
    BY DEF NucleusSize
  <2> HIDE DEF H
  <2> QED BY <1>8, <2>1
<1> HIDE DEF N, H
<1>10. N \in 1..n
  BY <1>6, <1>9
<1>11. ASSUME NEW m \in 1..(N - 1)
       PROVE  MassOf({s[i] : i \in 1..m}) * top_p[2] < total * top_p[1]
  <2>1. m \in 1..n /\ ~(N <= m)
    BY <1>10
  <2>2. ~Enough(m)
    BY <1>6, <1>9, <2>1
  <2> DEFINE mass == MassOf({s[i] : i \in 1..m})
             a == mass * top_p[2]
             b == total * top_p[1]
  <2>3. a \in Int /\ b \in Int
    <3>1. mass \in Nat /\ total \in Nat
      BY <1>5, <2>1
    <3> HIDE DEF mass, total
    <3> QED BY <1>1, <3>1
  <2>4. ~(a >= b)
    BY <2>2 DEF Enough
  <2> HIDE DEF a, b
  <2>5. a < b
    BY <2>3, <2>4
  <2> QED BY <2>5 DEF a, b
<1> QED
  BY <1>10, <1>11 DEF N, total

(* What is drawn from it is likely enough.                                  *)
LEMMA DrawnFits ==
    ASSUME Fitting, NEW k \in TopKs, NEW top_p \in TopPs, NEW S \in BestKept(KeptCount(k)), NEW s \in Ordered(S),
           NEW i \in 1..NucleusSize(s, top_p)
    PROVE  DrawnIsLikely(s[i], KeptCount(k), top_p)
<1> DEFINE n == KeptCount(k)
           rows == VocabRows(work.head)
           token == s[i]
           before == {s[j] : j \in 1..(i - 1)}
<1>1. /\ n \in Nat \ {0} /\ Cardinality(S) = n /\ IsFiniteSet(S) /\ S \in SUBSET rows
      /\ \A inside \in S, outside \in rows \ S : Value(inside) >= Value(outside)
      /\ s \in [1..n -> S] /\ Len(s) = n /\ ToSet(s) = S
      /\ \A row \in S : \E j \in 1..n : s[j] = row
      /\ \A a, b \in 1..n : a < b => Value(s[a]) >= Value(s[b])
  BY SortedIs
<1>2. DOMAIN s = 1..n
  BY <1>1
<1>3. /\ NucleusSize(s, top_p) \in 1..n
      /\ \A m \in 1..(NucleusSize(s, top_p) - 1) :
                MassOf({s[j] : j \in 1..m}) * top_p[2] < MassOf(ToSet(s)) * top_p[1]
  <2> HIDE DEF n
  <2> QED BY <1>1, <1>2, NucleusIs
<1> HIDE DEF n
<1>4. i \in 1..n /\ token \in S /\ token \in rows
  BY <1>1, <1>3
<1>5. \A row \in rows : Truly(row) = Value(row) /\ Value(row) \in Int
  BY CandidateIs
<1>6. ASSUME NEW row \in Above(token) PROVE row \in S /\ row \in before /\ row # token
  <2>1. row \in rows /\ Value(row) > Value(token) /\ Value(row) \in Int /\ Value(token) \in Int
    BY <1>4, <1>5 DEF Above
  <2>2. row \in S
    <3>1. row \notin S => Value(token) >= Value(row)
      BY <1>1, <1>4, <2>1
    <3> QED BY <2>1, <3>1
  <2>3. PICK j \in 1..n : s[j] = row
    BY <1>1, <2>2
  <2>4. ~(i < j) /\ i # j
    <3>1. i < j => Value(token) >= Value(row)
      BY <1>1, <1>4, <2>3
    <3> QED BY <2>1, <2>3, <3>1
  <2>5. j \in 1..(i - 1)
    <3>1. n \in Int /\ i \in 1..n /\ j \in 1..n /\ ~(i < j) /\ i # j
      BY <1>1, <1>4, <2>4
    <3> QED BY ONLY <3>1
  <2>6. row \in before
    <3> QED BY ONLY <2>3, <2>5
  <2>7. row # token
    <3> DEFINE a == Value(row)
               b == Value(token)
    <3>1. a \in Int /\ b \in Int /\ a > b
      BY <2>1
    <3> HIDE DEF a, b
    <3>2. a # b
      BY ONLY <3>1
    <3> QED BY <3>2 DEF a, b
  <2> HIDE DEF before, token
  <2> QED BY ONLY <2>2, <2>6, <2>7
<1>7. Cardinality(Above(token)) < n
  <2>1. Above(token) \in SUBSET (S \ {token})
    BY <1>6
  <2>2. IsFiniteSet(S \ {token}) /\ Cardinality(S \ {token}) = n - 1
    <3>1. IsFiniteSet(S) /\ Cardinality(S) = n /\ token \in S
      BY <1>1, <1>4
    <3> HIDE DEF token
    <3> QED BY ONLY <3>1, FS_RemoveElement
  <2>3. IsFiniteSet(Above(token)) /\ Cardinality(Above(token)) <= n - 1
    <3> HIDE DEF token
    <3> QED BY <2>1, <2>2, FS_Subset
  <2>4. Cardinality(Above(token)) \in Nat
    BY <2>3, FS_CardinalityType
  <2> DEFINE c == Cardinality(Above(token))
  <2>5. c \in Nat /\ c <= n - 1
    BY <2>3, <2>4
  <2> HIDE DEF c
  <2>6. c < n
    BY <1>1, <2>5
  <2> QED BY <2>6 DEF c
<1> DEFINE number == [row \in rows |-> Exp[Truly(row)]]
<1>8. \A R : MassOf(R) = Summed(R, number)
  <2>1. number = [row \in rows |-> Exp[Value(row)]]
    BY <1>5
  <2> HIDE DEF number
  <2> QED BY <2>1 DEF MassOf
<1>9. Above(token) = {} \/ Summed(Above(token) \cap S, number) * top_p[2] < Summed(S, number) * top_p[1]
  <2>1. SUFFICES ASSUME Above(token) # {}
                 PROVE  Summed(Above(token) \cap S, number) * top_p[2] < Summed(S, number) * top_p[1]
    OBVIOUS
  <2>2. i - 1 \in 1..(NucleusSize(s, top_p) - 1)
    <3>1. before # {}
      BY <1>6, <2>1
    <3> QED BY <1>3, <1>4, <3>1
  <2>3. MassOf(before) * top_p[2] < MassOf(S) * top_p[1]
    BY <1>1, <1>3, <2>2
  <2>4. before \in SUBSET S /\ Above(token) \cap S \in SUBSET before
    <3>1. \A j \in 1..(i - 1) : j \in 1..n
      <4>1. n \in Int /\ i \in 1..n
        BY <1>1, <1>4
      <4> QED BY <4>1
    <3> QED BY <1>1, <1>6, <3>1
  <2>5. IsFiniteSet(before) /\ \A row \in before : number[row] \in Nat
    <3>1. IsFiniteSet(before)
      BY <1>1, <2>4, FS_Subset
    <3>2. ASSUME NEW row \in rows PROVE number[row] \in Nat
      BY <1>5, CandidateIs
    <3> HIDE DEF number, before
    <3> QED BY <1>1, <2>4, <3>1, <3>2
  <2> HIDE DEF number, before, token
  <2>6. /\ Summed(Above(token) \cap S, number) \in Nat /\ Summed(before, number) \in Nat
        /\ Summed(Above(token) \cap S, number) <= Summed(before, number)
    BY <2>4, <2>5, SummedGrows
  <2> DEFINE a == Summed(Above(token) \cap S, number)
             b == Summed(before, number)
             q == top_p[2]
             t == MassOf(S) * top_p[1]
  <2>7. a \in Nat /\ b \in Nat /\ a <= b /\ q \in Nat /\ b * q < t
    <3>1. b = MassOf(before) /\ q \in Nat
      BY <1>8, ReadoutAssumption
    <3> QED BY <2>3, <2>6, <3>1
  <2>8. t \in Int
    <3>1. Summed(S, number) \in Nat
      <4>1. S \in SUBSET S /\ \A row \in S : number[row] \in Nat
        BY <1>1, <1>5, CandidateIs DEF number
      <4> QED BY <1>1, <4>1, SummedGrows
    <3> QED BY <1>8, <3>1, ReadoutAssumption
  <2> HIDE DEF a, b, q, t
  <2>9. a * q < t
    <3>1. a * q \in Nat /\ b * q \in Nat /\ a * q <= b * q
      BY <2>7, TimesGrows
    <3> DEFINE aq == a * q
               bq == b * q
    <3>2. aq \in Nat /\ bq \in Nat /\ aq <= bq /\ bq < t
      BY <2>7, <3>1
    <3> HIDE DEF aq, bq
    <3>3. aq < t
      BY <2>8, <3>2
    <3> QED BY <3>3 DEF aq
  <2> QED BY <1>8, <2>9 DEF a, q, t
<1>10. \A r \in S, q \in rows \ S : Truly(r) >= Truly(q)
  BY <1>1, <1>5
<1> HIDE DEF token, before
<1> QED
  <2>1. /\ S \in SUBSET rows /\ Cardinality(S) = n /\ token \in S
        /\ Above(token) = {} \/ Summed(Above(token) \cap S, number) * top_p[2] < Summed(S, number) * top_p[1]
    BY <1>1, <1>4, <1>9
  <2>2. DrawnIsLikely(token, n, top_p)
    BY <1>7, <1>10, <2>1 DEF DrawnIsLikely
  <2> QED BY <2>2 DEF token, n

LEMMA TokenDrawnKeeps == ReadoutInv /\ TokenDrawn => ReadoutInv'
<1> SUFFICES ASSUME ReadoutInv, TokenDrawn PROVE ReadoutInv'
  OBVIOUS
<1>1. PICK k \in TopKs, top_p \in TopPs :
        \E S \in BestKept(KeptCount(k)) : \E s \in Ordered(S) : \E i \in 1..NucleusSize(s, top_p) :
            Answered("drawn", <<s[i], k, top_p>>)
  BY DEF TokenDrawn
<1>a. PICK S \in BestKept(KeptCount(k)) :
        \E s \in Ordered(S) : \E i \in 1..NucleusSize(s, top_p) : Answered("drawn", <<s[i], k, top_p>>)
  BY <1>1
<1>b. PICK s \in Ordered(S) : \E i \in 1..NucleusSize(s, top_p) : Answered("drawn", <<s[i], k, top_p>>)
  BY <1>a
<1>2. PICK i \in 1..NucleusSize(s, top_p) : Answered("drawn", <<s[i], k, top_p>>)
  BY <1>b
<1>3. Reading /\ Fitting
  BY DEF TokenDrawn, ReadoutInv, Reading
<1> DEFINE answer == <<s[i], k, top_p>>
<1>4. DrawnIsLikely(s[i], KeptCount(k), top_p)
  BY <1>3, DrawnFits
<1>5. answer[1] = s[i] /\ answer[2] = k /\ answer[3] = top_p
  OBVIOUS
<1>6. Answered("drawn", answer)
  BY <1>2
<1> HIDE DEF answer
<1> QED
  BY <1>3, <1>4, <1>5, <1>6, AnsweredKeeps

(* The values of picked tokens.                                             *)
LEMMA TokensPickedKeeps == ReadoutInv /\ TokensPicked => ReadoutInv'
<1> SUFFICES ASSUME ReadoutInv, TokensPicked PROVE ReadoutInv'
  OBVIOUS
<1> DEFINE tile == work.head.tile
<1>1. PICK tokens \in Picks : \E order \in TileOrder(tokens, tile) :
        Answered("picked", <<tokens, Scatter(order, tokens, tile)>>)
  BY DEF TokensPicked
<1>2. PICK order \in TileOrder(tokens, tile) : Answered("picked", <<tokens, Scatter(order, tokens, tile)>>)
  BY <1>1
<1>3. Reading /\ Fitting /\ tile \in Nat \ {0}
  BY Fits4 DEF TokensPicked, ReadoutInv, Reading
<1>4. tokens \in Seq(Nat) /\ Len(tokens) \in Nat /\ DOMAIN tokens = 1..Len(tokens)
  BY ReadoutAssumption
<1> HIDE DEF tile
<1> DEFINE Entry4(i) == <<tokens[i] \div tile, i>>
           entries == {Entry4(i) : i \in DOMAIN tokens}
<1>5. ToSet(order) = entries
  <2>1. IsFiniteSet(entries)
    <3> DEFINE f == [i \in DOMAIN tokens |-> Entry4(i)]
    <3>1. f \in [DOMAIN tokens -> entries] /\ \A e \in entries : \E i \in DOMAIN tokens : f[i] = e
      OBVIOUS
    <3>2. f \in Surjection(DOMAIN tokens, entries)
      BY <3>1 DEF Surjection
    <3>3. IsFiniteSet(DOMAIN tokens)
      <4>1. 1 \in Int /\ Len(tokens) \in Int
        BY <1>4
      <4> QED BY <1>4, <4>1, FS_Interval
    <3> HIDE DEF f, entries
    <3> QED BY <3>2, <3>3, FS_Surjection
  <2>2. order \in SetToSeqs(entries)
    BY DEF TileOrder
  <2> HIDE DEF entries
  <2> QED BY <2>1, <2>2, SeqsAreOnto
<1>6. ASSUME NEW i \in DOMAIN tokens
      PROVE  Scatter(order, tokens, tile)[i] = work.logits[tokens[i]]
  <2> DEFINE e == CHOOSE x \in ToSet(order) : x[2] = i
  <2>1. Entry4(i) \in entries /\ Entry4(i)[2] = i
    OBVIOUS
  <2>2. \A x \in entries : x[2] = i => x = Entry4(i)
    OBVIOUS
  <2>3. e = Entry4(i)
    <3> HIDE DEF entries, Entry4
    <3> QED BY <1>5, <2>1, <2>2
  <2>4. e[1] = tokens[i] \div tile /\ e[2] = i
    <3> HIDE DEF e
    <3> QED BY <2>3
  <2>5. Scatter(order, tokens, tile)[i] = work.logits[e[1] * tile + (tokens[e[2]] % tile)]
    BY DEF Scatter
  <2> HIDE DEF e
  <2>6. tokens[i] \in Nat
    BY <1>4
  <2> DEFINE t == tokens[i]
  <2>7. (t \div tile) * tile + (t % tile) = t
    <3> HIDE DEF t
    <3>1. t \in Nat
      BY <2>6 DEF t
    <3> DEFINE q == t \div tile
               m == t % tile
    <3>2. q \in Nat /\ m \in Nat /\ t = tile * q + m
      BY <1>3, <3>1, DividedIs
    <3> HIDE DEF q, m
    <3>3. q * tile + m = t
      BY <1>3, <3>1, <3>2
    <3> QED BY <3>3 DEF q, m
  <2> QED BY <2>4, <2>5, <2>7
<1> DEFINE values == Scatter(order, tokens, tile)
           answer == <<tokens, values>>
<1>7. answer[1] = tokens /\ answer[2] = values /\ Answered("picked", answer)
  BY <1>2
<1>8. \A i \in DOMAIN tokens : values[i] = work.logits[tokens[i]]
  BY <1>6
<1> HIDE DEF answer, values, entries
<1> QED
  BY <1>3, <1>7, <1>8, AnsweredKeeps

-----------------------------------------------------------------------------
(* The theorem.                                                             *)

LEMMA ReadoutInvInit == ReadoutInit => ReadoutInv
<1> SUFFICES ASSUME NEW head \in Heads, NEW threads \in Participants, NEW penalty \in BOOLEAN, NEW batch \in BOOLEAN,
                    NEW logits \in [VocabRows(head) -> Logits], NEW counted \in SUBSET VocabRows(head),
                    batch => threads > 0,
                    work = [part |-> "readout", head |-> head, threads |-> threads, batch |-> batch, logits |-> logits,
                            counted |-> counted, penalty |-> penalty, ran |-> {},
                            slots |-> [p \in 0..(threads - 1) |-> Below], by |-> "none", answer |-> <<>>]
             PROVE  ReadoutInv
  BY DEF ReadoutInit
<1>1. threads \in Nat
  BY ReadoutAssumption
<1> DEFINE slots == [p \in 0..(threads - 1) |-> Below]
<1>2. slots \in [0..(threads - 1) -> Result] /\ \A p \in 0..(threads - 1) : slots[p] = Below
  BY BelowIs
<1>3. counted \in SUBSET Nat
  <2>1. head.tile \in Nat /\ head.tiles \in Nat
    BY ReadoutAssumption
  <2>2. VocabRows(head) \subseteq Nat
    BY <2>1 DEF VocabRows
  <2> QED BY <2>2
<1>4. work.slots = slots /\ work.threads = threads /\ work.ran = {} /\ work.head = head /\ work.logits = logits
      /\ work.batch = batch /\ work.part = "readout" /\ work.by = "none"
  OBVIOUS
<1> HIDE DEF slots
<1>5. slots \in UNION {[0..(n - 1) -> Result] : n \in Nat} /\ logits \in UNION {[VocabRows(h) -> Logits] : h \in Heads}
  BY <1>1, <1>2
<1>6. ReadoutTyped
  BY <1>3, <1>5 DEF ReadoutTyped, slots
<1>7. Fitting
  BY <1>2, <1>4, <1>6 DEF Fitting
<1>8. SlotsFilled
  BY <1>2, <1>4 DEF SlotsFilled
<1> QED
  BY <1>4, <1>7, <1>8 DEF ReadoutInv, ReadoutsAgree, Is

LEMMA ReadoutInvNext == ReadoutInv /\ [ReadoutNext]_work => ReadoutInv'
<1> SUFFICES ASSUME ReadoutInv, [ReadoutNext]_work PROVE ReadoutInv'
  OBVIOUS
<1>1. ASSUME Reading, NEW p \in DOMAIN work.slots, PartitionRead(p) PROVE ReadoutInv'
  BY <1>1, PartitionReadKeeps
<1>2. ASSUME Reading, NEW p \in DOMAIN work.slots, WorkerRead(p) PROVE ReadoutInv'
  BY <1>2, WorkerReadKeeps
<1>3. CASE GreedyRead
  BY <1>3, GreedyReadKeeps
<1>4. CASE BatchRead
  BY <1>4, BatchReadKeeps
<1>5. CASE LogitsRead
  BY <1>5, LogitsReadKeeps
<1>6. CASE TokenDrawn
  BY <1>6, TokenDrawnKeeps
<1>7. CASE TokensPicked
  BY <1>7, TokensPickedKeeps
<1>8. CASE UNCHANGED work
  <2>1. SameInput /\ work' = work
    BY <1>8 DEF SameInput
  <2>2. SlotsFilled' <=> SlotsFilled
    BY <2>1 DEF SlotsFilled, SlotIs, BestRow, Candidate, Value, RowCuts, TileCut, WorkerBegin
  <2>3. Fitting' <=> Fitting
    BY <2>1 DEF Fitting, ReadoutTyped
  <2>4. ReadoutsAgree' <=> ReadoutsAgree
    BY <2>1 DEF ReadoutsAgree, Is, GreedyIsFirst, DrawnIsLikely, Truly, Above, KeptCount
  <2> QED BY <2>1, <2>2, <2>3, <2>4 DEF ReadoutInv, Is
<1> QED
  BY <1>1, <1>2, <1>3, <1>4, <1>5, <1>6, <1>7, <1>8 DEF ReadoutNext

(* However the head was cut among the threads, and fused or not, greedy      *)
(* selection gives the first of the best penalised logits; a drawn token is  *)
(* among the k best and within top_p; picked values stand where they were    *)
(* asked for.                                                               *)
THEOREM ReadoutsAlwaysAgree == ReadoutSpec => []ReadoutsAgree
<1>1. ReadoutInv => ReadoutsAgree
  BY DEF ReadoutInv
<1> QED
  BY <1>1, ReadoutInvInit, ReadoutInvNext, PTL DEF ReadoutSpec
=============================================================================
