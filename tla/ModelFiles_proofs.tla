--------------------------- MODULE ModelFiles_proofs ---------------------------
(***************************************************************************)
(* What the readers of model files let through, for every file: the index   *)
(* of a GGUF file that opens is safe to read by (GgufFile), and what is     *)
(* read from an artifact is what the converter wrote (ArtifactFile).        *)
(***************************************************************************)
EXTENDS GgufFile, ArtifactFile, TLAPS, FiniteSetTheorems, FunctionTheorems, SequenceTheorems,
        WellFoundedInduction

-----------------------------------------------------------------------------
(* Induction and recursion over the numbers up to n, for sets of numbers    *)
(* and for functions.                                                       *)

(* A non-empty set of numbers has a least one.                              *)
LEMMA LeastExists ==
    ASSUME NEW S \in SUBSET Nat, S # {}
    PROVE  \E x \in S : \A y \in S : x <= y
<1> DEFINE below == {pair \in Nat \X Nat : pair[1] < pair[2]}
<1>1. IsWellFoundedOn(below, Nat)
  BY NatLessThanWellFounded, Zenon DEF OpToRel
<1>2. PICK x \in S : \A y \in S : ~(<<y, x>> \in below)
  <2> HIDE DEF below
  <2> QED BY <1>1, WFMin
<1>3. ASSUME NEW y \in S PROVE x <= y
  <2>1. x \in Nat /\ y \in Nat
    OBVIOUS
  <2>2. <<y, x>> \in Nat \X Nat /\ <<y, x>>[1] = y /\ <<y, x>>[2] = x
    BY <2>1
  <2>3. ~(y < x)
    BY <1>2, <2>2
  <2> QED BY <2>1, <2>3
<1> QED
  BY <1>3

(* What holds of 0, and of k when it holds of k - 1, holds up to n: else    *)
(* the least number it fails for has a predecessor it holds for.            *)
LEMMA Upto ==
    ASSUME NEW n \in Nat, NEW P, 0 \in P, \A k \in 1..n : k - 1 \in P => k \in P
    PROVE  \A k \in 0..n : k \in P
<1> DEFINE Bad == {k \in 0..n : k \notin P}
<1>1. SUFFICES ASSUME Bad # {} PROVE FALSE
  OBVIOUS
<1>2. PICK k \in Bad : \A j \in Bad : k <= j
  <2>1. Bad \in SUBSET Nat
    OBVIOUS
  <2> HIDE DEF Bad
  <2> QED BY <1>1, <2>1, LeastExists
<1>3. k \in 1..n /\ k - 1 \in 0..n /\ ~(k <= k - 1)
  OBVIOUS
<1> QED
  BY <1>2, <1>3

(* f begins with b, and its k-th value comes from the one before it by step *)
(* k.                                                                       *)
Follows(f, n, b, step) == f[0] = b /\ \A k \in 1..n : f[k] = step[k][f[k - 1]]

(* A function defined by recursion exists.                                  *)
LEMMA Recursion ==
    ASSUME NEW n \in Nat, NEW S, NEW b \in S, NEW step \in [1..n -> [S -> S]]
    PROVE  \E f \in [0..n -> S] : Follows(f, n, b, step)
<1> DEFINE P == {m \in 0..n : \E f \in [0..n -> S] : Follows(f, m, b, step)}
<1>1. 0 \in P
  <2> DEFINE f == [k \in 0..n |-> b]
  <2>1. f \in [0..n -> S] /\ Follows(f, 0, b, step) /\ 0 \in 0..n
    BY DEF Follows
  <2> QED BY <2>1
<1>2. ASSUME NEW m \in 1..n, m - 1 \in P PROVE m \in P
  <2>1. PICK f \in [0..n -> S] : Follows(f, m - 1, b, step)
    BY <1>2
  <2> DEFINE g == [f EXCEPT ![m] = step[m][f[m - 1]]]
  <2>2. m \in 0..n /\ m - 1 \in 0..n /\ m # 0 /\ 0 \in 0..n
    OBVIOUS
  <2>3. step[m][f[m - 1]] \in S
    BY <2>2
  <2>4. g \in [0..n -> S] /\ g[m] = step[m][f[m - 1]] /\ \A k \in 0..n : k # m => g[k] = f[k]
    BY <2>2, <2>3
  <2> HIDE DEF g
  <2>5. g[0] = b
    BY <2>1, <2>2, <2>4 DEF Follows
  <2>6. ASSUME NEW k \in 1..m PROVE g[k] = step[k][g[k - 1]]
    <3>1. k \in 0..n /\ k - 1 \in 0..n /\ k - 1 # m
      BY <2>2
    <3>2. g[k - 1] = f[k - 1]
      BY <2>4, <3>1
    <3>3. CASE k = m
      BY <2>4, <3>2, <3>3
    <3>4. CASE k # m
      <4>1. k \in 1..(m - 1)
        BY <2>2, <3>4
      <4> QED BY <2>1, <2>4, <3>1, <3>2, <3>4, <4>1 DEF Follows
    <3> QED BY <3>3, <3>4
  <2> QED BY <2>2, <2>4, <2>5, <2>6 DEF Follows
<1>3. n \in P
  <2>1. \A k \in 0..n : k \in P
    <3> HIDE DEF P
    <3> QED BY <1>1, <1>2, Upto
  <2> QED BY <2>1
<1> QED
  BY <1>3

-----------------------------------------------------------------------------
(* Checked arithmetic: what fits is the result, what does not is None.      *)

Number == Nat \cup {None}

LEMMA CheckedAddIs ==
    ASSUME NEW a \in Int, NEW b \in Int
    PROVE  /\ CheckedAdd(a, b) \in Int
           /\ a \in Number /\ b \in Number => CheckedAdd(a, b) \in Number
           /\ CheckedAdd(a, b) # None => a # None /\ b # None /\ CheckedAdd(a, b) = a + b
BY WordAssumption DEF CheckedAdd, None, Number

LEMMA AddsUp ==
    ASSUME NEW a \in Number, NEW b \in Nat
    PROVE  CheckedAdd(a, b) \in Number
BY CheckedAddIs DEF Number, None

LEMMA CheckedMulIs ==
    ASSUME NEW a \in Number, NEW b \in Number
    PROVE  /\ CheckedMul(a, b) \in Number
           /\ CheckedMul(a, b) # None => a # None /\ b # None /\ CheckedMul(a, b) = a * b
<1>1. CASE a = None \/ b = None
  BY <1>1 DEF CheckedMul, Number, None
<1>2. CASE a # None /\ b # None
  <2>1. a \in Nat /\ b \in Nat /\ a * b \in Nat
    BY <1>2 DEF Number
  <2> DEFINE p == a * b
  <2> HIDE DEF p
  <2>2. CheckedMul(a, b) \in {p, None}
    BY DEF CheckedMul, p
  <2> QED BY <1>2, <2>1, <2>2 DEF p, Number
<1> QED
  BY <1>1, <1>2

LEMMA MultipliesUp ==
    ASSUME NEW a \in Number, NEW b \in Nat
    PROVE  CheckedMul(a, b) \in Number
BY CheckedMulIs DEF Number

(* What the sums and products of a sequence are.                            *)
LEMMA CheckedSumIs ==
    ASSUME NEW s \in Seq(Nat)
    PROVE  \E f \in [0..Len(s) -> Number] :
               /\ f[0] = 0 /\ \A k \in 1..Len(s) : f[k] = CheckedAdd(f[k - 1], s[k])
               /\ CheckedSum(s) = f[Len(s)]
<1> DEFINE n == Len(s)
           D == CHOOSE u : u = [k \in 0..n |-> IF k = 0 THEN 0 ELSE CheckedAdd(u[k - 1], s[k])]
           step == [k \in 1..n |-> [x \in Number |-> CheckedAdd(x, s[k])]]
<1>1. n \in Nat /\ \A k \in 1..n : s[k] \in Nat
  BY LenProperties, ElementOfSeq
<1>2. step \in [1..n -> [Number -> Number]]
  BY <1>1, AddsUp
<1>3. \A k \in 1..n, x \in Number : step[k][x] = CheckedAdd(x, s[k])
  OBVIOUS
<1> HIDE DEF step
<1>4. PICK f \in [0..n -> Number] : f[0] = 0 /\ \A k \in 1..n : f[k] = step[k][f[k - 1]]
  <2>1. 0 \in Number
    BY DEF Number
  <2> HIDE DEF n, D
  <2>2. \E f \in [0..n -> Number] : Follows(f, n, 0, step)
    BY <1>1, <1>2, <2>1, Recursion
  <2> QED BY <2>2 DEF Follows
<1>5. f = [k \in 0..n |-> IF k = 0 THEN 0 ELSE CheckedAdd(f[k - 1], s[k])]
  <2> HIDE DEF n, D
  <2>1. ASSUME NEW k \in 0..n PROVE f[k] = IF k = 0 THEN 0 ELSE CheckedAdd(f[k - 1], s[k])
    <3>1. CASE k = 0
      BY <1>4, <3>1
    <3>2. CASE k # 0
      <4>1. k \in 1..n /\ k - 1 \in 0..n
        BY <1>1, <3>2
      <4> QED BY <1>3, <1>4, <3>2, <4>1
    <3> QED BY <3>1, <3>2
  <2> QED BY <1>4, <2>1
<1>6. D = [k \in 0..n |-> IF k = 0 THEN 0 ELSE CheckedAdd(D[k - 1], s[k])]
  BY <1>5
<1>7. CheckedSum(s) = D[n]
  BY DEF CheckedSum
<1> HIDE DEF D, n
<1>8. D[0] = 0 /\ \A k \in 1..n : D[k] = CheckedAdd(D[k - 1], s[k])
  <2>1. 0 \in 0..n /\ \A k \in 1..n : k \in 0..n /\ k # 0
    BY <1>1
  <2> QED BY <1>6, <2>1
<1> DEFINE P == {k \in 0..n : D[k] \in Number}
<1>9. 0 \in P
  BY <1>1, <1>8 DEF Number
<1>10. ASSUME NEW k \in 1..n, k - 1 \in P PROVE k \in P
  <2>1. k \in 0..n /\ k # 0 /\ D[k - 1] \in Number
    BY <1>1, <1>10
  <2>2. D[k] = CheckedAdd(D[k - 1], s[k])
    BY <1>8
  <2> QED BY <1>1, <2>1, <2>2, AddsUp
<1>11. \A k \in 0..n : D[k] \in Number
  <2> HIDE DEF P
  <2>1. \A k \in 0..n : k \in P
    BY <1>1, <1>9, <1>10, Upto
  <2> QED BY <2>1 DEF P
<1>12. D \in [0..n -> Number]
  BY <1>6, <1>11
<1> QED
  BY <1>7, <1>8, <1>12 DEF n

LEMMA CheckedProductIs ==
    ASSUME NEW s \in Seq(Nat)
    PROVE  \E f \in [0..Len(s) -> Number] :
               /\ f[0] = 1 /\ \A k \in 1..Len(s) : f[k] = CheckedMul(f[k - 1], s[k])
               /\ CheckedProduct(s) = f[Len(s)]
<1> DEFINE n == Len(s)
           D == CHOOSE u : u = [k \in 0..n |-> IF k = 0 THEN 1 ELSE CheckedMul(u[k - 1], s[k])]
           step == [k \in 1..n |-> [x \in Number |-> CheckedMul(x, s[k])]]
<1>1. n \in Nat /\ \A k \in 1..n : s[k] \in Nat
  BY LenProperties, ElementOfSeq
<1>2. step \in [1..n -> [Number -> Number]]
  BY <1>1, MultipliesUp
<1>3. \A k \in 1..n, x \in Number : step[k][x] = CheckedMul(x, s[k])
  OBVIOUS
<1> HIDE DEF step
<1>4. PICK f \in [0..n -> Number] : f[0] = 1 /\ \A k \in 1..n : f[k] = step[k][f[k - 1]]
  <2>1. 1 \in Number
    BY DEF Number
  <2> HIDE DEF n, D
  <2>2. \E f \in [0..n -> Number] : Follows(f, n, 1, step)
    BY <1>1, <1>2, <2>1, Recursion
  <2> QED BY <2>2 DEF Follows
<1>5. f = [k \in 0..n |-> IF k = 0 THEN 1 ELSE CheckedMul(f[k - 1], s[k])]
  <2> HIDE DEF n, D
  <2>1. ASSUME NEW k \in 0..n PROVE f[k] = IF k = 0 THEN 1 ELSE CheckedMul(f[k - 1], s[k])
    <3>1. CASE k = 0
      BY <1>4, <3>1
    <3>2. CASE k # 0
      <4>1. k \in 1..n /\ k - 1 \in 0..n
        BY <1>1, <3>2
      <4> QED BY <1>3, <1>4, <3>2, <4>1
    <3> QED BY <3>1, <3>2
  <2> QED BY <1>4, <2>1
<1>6. D = [k \in 0..n |-> IF k = 0 THEN 1 ELSE CheckedMul(D[k - 1], s[k])]
  BY <1>5
<1>7. CheckedProduct(s) = D[n]
  BY DEF CheckedProduct
<1> HIDE DEF D, n
<1>8. D[0] = 1 /\ \A k \in 1..n : D[k] = CheckedMul(D[k - 1], s[k])
  <2>1. 0 \in 0..n /\ \A k \in 1..n : k \in 0..n /\ k # 0
    BY <1>1
  <2> QED BY <1>6, <2>1
<1> DEFINE P == {k \in 0..n : D[k] \in Number}
<1>9. 0 \in P
  BY <1>1, <1>8 DEF Number
<1>10. ASSUME NEW k \in 1..n, k - 1 \in P PROVE k \in P
  <2>1. k \in 0..n /\ k # 0 /\ D[k - 1] \in Number
    BY <1>1, <1>10
  <2>2. D[k] = CheckedMul(D[k - 1], s[k])
    BY <1>8
  <2> QED BY <1>1, <2>1, <2>2, MultipliesUp
<1>11. \A k \in 0..n : D[k] \in Number
  <2> HIDE DEF P
  <2>1. \A k \in 0..n : k \in P
    BY <1>1, <1>9, <1>10, Upto
  <2> QED BY <2>1 DEF P
<1>12. D \in [0..n -> Number]
  BY <1>6, <1>11
<1> QED
  BY <1>7, <1>8, <1>12 DEF n

LEMMA ValuesOfIs ==
    ASSUME NEW s \in Seq(Nat)
    PROVE  \E f \in [0..Len(s) -> Nat] :
               /\ f[0] = 1 /\ \A k \in 1..Len(s) : f[k] = f[k - 1] * s[k]
               /\ ValuesOf(s) = f[Len(s)]
<1> DEFINE n == Len(s)
           D == CHOOSE u : u = [k \in 0..n |-> IF k = 0 THEN 1 ELSE u[k - 1] * s[k]]
           step == [k \in 1..n |-> [x \in Nat |-> x * s[k]]]
<1>1. n \in Nat /\ \A k \in 1..n : s[k] \in Nat
  BY LenProperties, ElementOfSeq
<1>2. step \in [1..n -> [Nat -> Nat]]
  BY <1>1
<1>3. \A k \in 1..n, x \in Nat : step[k][x] = x * s[k]
  OBVIOUS
<1> HIDE DEF step
<1>4. PICK f \in [0..n -> Nat] : f[0] = 1 /\ \A k \in 1..n : f[k] = step[k][f[k - 1]]
  <2>1. 1 \in Nat
    OBVIOUS
  <2> HIDE DEF n, D
  <2>2. \E f \in [0..n -> Nat] : Follows(f, n, 1, step)
    BY <1>1, <1>2, <2>1, Recursion
  <2> QED BY <2>2 DEF Follows
<1>5. f = [k \in 0..n |-> IF k = 0 THEN 1 ELSE f[k - 1] * s[k]]
  <2> HIDE DEF n, D
  <2>1. ASSUME NEW k \in 0..n PROVE f[k] = IF k = 0 THEN 1 ELSE f[k - 1] * s[k]
    <3>1. CASE k = 0
      BY <1>4, <3>1
    <3>2. CASE k # 0
      <4>1. k \in 1..n /\ k - 1 \in 0..n
        BY <1>1, <3>2
      <4> QED BY <1>3, <1>4, <3>2, <4>1
    <3> QED BY <3>1, <3>2
  <2> QED BY <1>4, <2>1
<1>6. D = [k \in 0..n |-> IF k = 0 THEN 1 ELSE D[k - 1] * s[k]]
  BY <1>5
<1>7. ValuesOf(s) = D[n]
  BY DEF ValuesOf
<1> HIDE DEF D, n
<1>8. D[0] = 1 /\ \A k \in 1..n : D[k] = D[k - 1] * s[k]
  <2>1. 0 \in 0..n /\ \A k \in 1..n : k \in 0..n /\ k # 0
    BY <1>1
  <2> QED BY <1>6, <2>1
<1> DEFINE P == {k \in 0..n : D[k] \in Nat}
<1>9. 0 \in P
  BY <1>1, <1>8
<1>10. ASSUME NEW k \in 1..n, k - 1 \in P PROVE k \in P
  <2>1. k \in 0..n /\ k # 0 /\ D[k - 1] \in Nat
    BY <1>1, <1>10
  <2>2. D[k] = D[k - 1] * s[k]
    BY <1>8
  <2> QED BY <1>1, <2>1, <2>2
<1>11. \A k \in 0..n : D[k] \in Nat
  <2> HIDE DEF P
  <2>1. \A k \in 0..n : k \in P
    BY <1>1, <1>9, <1>10, Upto
  <2> QED BY <2>1 DEF P
<1>12. D \in [0..n -> Nat]
  BY <1>6, <1>11
<1> QED
  BY <1>7, <1>8, <1>12 DEF n

(* A product that is not refused is the product.                            *)
LEMMA ProductIsPlain ==
    ASSUME NEW s \in Seq(Nat)
    PROVE  /\ CheckedProduct(s) \in Number /\ ValuesOf(s) \in Nat
           /\ CheckedProduct(s) # None => CheckedProduct(s) = ValuesOf(s)
<1> DEFINE n == Len(s)
<1>1. PICK f \in [0..n -> Number] :
          /\ f[0] = 1 /\ \A k \in 1..n : f[k] = CheckedMul(f[k - 1], s[k])
          /\ CheckedProduct(s) = f[n]
  BY CheckedProductIs
<1>2. PICK g \in [0..n -> Nat] :
          g[0] = 1 /\ (\A k \in 1..n : g[k] = g[k - 1] * s[k]) /\ ValuesOf(s) = g[n]
  BY ValuesOfIs
<1>3. n \in Nat /\ \A k \in 1..n : s[k] \in Nat
  BY LenProperties, ElementOfSeq
<1> HIDE DEF n
<1> DEFINE P == {k \in 0..n : f[k] # None => f[k] = g[k]}
<1>4. 0 \in P
  BY <1>1, <1>2, <1>3
<1>5. ASSUME NEW k \in 1..n, k - 1 \in P PROVE k \in P
  <2>1. k \in 0..n /\ k - 1 \in 0..n /\ f[k - 1] \in Number /\ s[k] \in Number
    BY <1>3 DEF Number
  <2>2. f[k] # None => f[k - 1] # None /\ f[k] = f[k - 1] * s[k]
    BY <1>1, <2>1, CheckedMulIs
  <2>3. f[k - 1] # None => f[k - 1] = g[k - 1]
    BY <1>5
  <2>4. f[k] # None => f[k] = g[k]
    BY <1>2, <2>2, <2>3
  <2> QED BY <2>1, <2>4
<1>6. n \in P
  <2> HIDE DEF P
  <2>1. \A k \in 0..n : k \in P
    BY <1>3, <1>4, <1>5, Upto
  <2> QED BY <1>3, <2>1
<1> QED
  BY <1>1, <1>2, <1>3, <1>6

-----------------------------------------------------------------------------
(* GgufFile: a cursor that is not refused has moved forward, within the     *)
(* file.                                                                    *)

LEMMA SkipIs ==
    ASSUME work.size \in Nat, NEW at \in Number, NEW n \in Number
    PROVE  /\ Skip(at, n) \in Number
           /\ Skip(at, n) # None => /\ at \in Nat /\ n \in Nat /\ Skip(at, n) = at + n
                                    /\ Skip(at, n) <= work.size
<1>1. CASE at = None \/ n = None
  BY <1>1 DEF Skip, Number
<1>2. CASE at # None /\ n # None
  <2>1. at \in Nat /\ n \in Nat
    BY <1>2 DEF Number
  <2> DEFINE room == n < Word \div 2
  <2>2. Skip(at, n) = IF n <= work.size - at /\ room THEN at + n ELSE None
    BY <1>2 DEF Skip
  <2> HIDE DEF room
  <2> QED BY <2>1, <2>2 DEF Number, None
<1> QED
  BY <1>1, <1>2

LEMMA TextIs ==
    ASSUME work.size \in Nat, NEW at \in Number, NEW length \in Nat
    PROVE  /\ Text(at, length) \in Number
           /\ Text(at, length) # None => /\ at \in Nat /\ Text(at, length) = at + 8 + length
                                         /\ Text(at, length) <= work.size
<1> DEFINE behind == Skip(at, 8)
<1>1. 8 \in Number /\ length \in Number
  BY DEF Number
<1>2. behind \in Number /\ (behind # None => at \in Nat /\ behind = at + 8)
  BY <1>1, SkipIs
<1> HIDE DEF behind
<1>3. /\ Skip(behind, length) \in Number
      /\ Skip(behind, length) # None => /\ behind \in Nat /\ Skip(behind, length) = behind + length
                                        /\ Skip(behind, length) <= work.size
  BY <1>1, <1>2, SkipIs
<1>4. Text(at, length) \in {Skip(behind, length), None}
  BY DEF Text, behind
<1> QED
  BY <1>2, <1>3, <1>4 DEF Number, None

(* The values of the metadata.                                              *)
Claims(v) == v \in Values /\ v.type \in ValueTypes /\ v.count \in Nat /\ v.length \in Nat /\ v.number \in Nat

LEMMA WidthsAre == \A x \in DOMAIN Widths : Widths[x] \in Nat
BY DEF Widths

LEMMA ArrayEndIs ==
    ASSUME work.size \in Nat, NEW at \in Number, NEW v, Claims(v)
    PROVE  /\ ArrayEnd(at, v) \in Number
           /\ ArrayEnd(at, v) # None => at \in Nat /\ at <= ArrayEnd(at, v) /\ ArrayEnd(at, v) <= work.size
<1>1. \A n \in Number :
          /\ Skip(at, n) \in Number
          /\ Skip(at, n) # None => at \in Nat /\ at <= Skip(at, n) /\ Skip(at, n) <= work.size
  BY SkipIs DEF Number
<1>2. CASE v.element \in DOMAIN Widths
  <2> DEFINE n == CheckedMul(v.count, Widths[v.element])
  <2>1. n \in Number
    BY <1>2, WidthsAre, MultipliesUp DEF Claims, Number
  <2>2. ArrayEnd(at, v) \in {None, Skip(at, n)}
    BY <1>2 DEF ArrayEnd
  <2> HIDE DEF n
  <2> QED BY <1>1, <2>1, <2>2 DEF Number
<1>3. CASE v.element \notin DOMAIN Widths
  <2> DEFINE n == v.count * (8 + v.length)
  <2>1. n \in Number
    BY DEF Claims, Number
  <2>2. ArrayEnd(at, v) \in {None, Skip(at, n)}
    BY <1>3 DEF ArrayEnd
  <2> HIDE DEF n
  <2> QED BY <1>1, <2>1, <2>2 DEF Number
<1> QED
  BY <1>2, <1>3

LEMMA ValueEndIs ==
    ASSUME work.size \in Nat, NEW at \in Number, NEW v, Claims(v)
    PROVE  /\ ValueEnd(at, v) \in Number
           /\ ValueEnd(at, v) # None => at \in Nat /\ at <= ValueEnd(at, v) /\ ValueEnd(at, v) <= work.size
<1>1. CASE v.type \in DOMAIN Widths
  <2> DEFINE n == Widths[v.type]
  <2>1. n \in Number /\ n \in Nat
    BY <1>1, WidthsAre DEF Number
  <2>2. ValueEnd(at, v) = Skip(at, n)
    BY <1>1 DEF ValueEnd, Widths
  <2> HIDE DEF n
  <2>3. at \in Nat /\ Skip(at, n) = at + n => at <= Skip(at, n)
    BY <2>1
  <2> QED BY <2>1, <2>2, <2>3, SkipIs
<1>2. CASE v.type = "string"
  <2>1. ValueEnd(at, v) = Text(at, v.length)
    BY <1>2 DEF ValueEnd, Widths
  <2>2. v.length \in Nat
    BY DEF Claims
  <2>3. at \in Nat /\ Text(at, v.length) = at + 8 + v.length => at <= Text(at, v.length)
    BY <2>2
  <2> QED BY <2>1, <2>2, <2>3, TextIs
<1>3. CASE v.type = "array"
  <2> DEFINE a == Skip(at, 12)
  <2>1. ValueEnd(at, v) = ArrayEnd(a, v)
    BY <1>3 DEF ValueEnd, Widths
  <2>2. a \in Number /\ (a # None => at \in Nat /\ a = at + 12)
    BY SkipIs DEF Number
  <2> HIDE DEF a
  <2>3. /\ ArrayEnd(a, v) \in Number
        /\ ArrayEnd(a, v) # None => a \in Nat /\ a <= ArrayEnd(a, v) /\ ArrayEnd(a, v) <= work.size
    BY <2>2, ArrayEndIs
  <2> QED BY <2>1, <2>2, <2>3 DEF Number, None
<1>4. CASE v.type = "invalid"
  <2>1. ValueEnd(at, v) = None
    BY <1>4 DEF ValueEnd, Widths
  <2> QED BY <2>1 DEF Number
<1> QED
  BY <1>1, <1>2, <1>3, <1>4 DEF Claims, ValueTypes

(* The bytes of a tensor whose layout is not refused.                       *)
LEMMA PayloadsAre == \A x \in DOMAIN Payloads : Payloads[x].values \in Nat \ {0} /\ Payloads[x].bytes \in Nat
BY DEF Payloads

LEMMA LayoutIs ==
    ASSUME NEW shape \in Seq(Nat), NEW type
    PROVE  /\ Layout(shape, type) \in Number
           /\ Layout(shape, type) # None =>
                /\ type \in DOMAIN Payloads
                /\ Layout(shape, type) = (ValuesOf(shape) \div Payloads[type].values) * Payloads[type].bytes
<1> DEFINE n == CheckedProduct(shape)
           m == n \div Payloads[type].values
<1>1. n \in Number /\ (n # None => n \in Nat /\ n = ValuesOf(shape))
  BY ProductIsPlain DEF Number
<1>2. CASE type \notin DOMAIN Payloads \/ n = None
  BY <1>2 DEF Layout, Number
<1>3. CASE type \in DOMAIN Payloads /\ n # None
  <2>1. Layout(shape, type) \in {None, CheckedMul(m, Payloads[type].bytes)}
    BY <1>3 DEF Layout
  <2>2. m \in Nat /\ Payloads[type].bytes \in Nat
    <3>1. n \in Nat /\ Payloads[type].values \in Nat \ {0} /\ Payloads[type].bytes \in Nat
      BY <1>1, <1>3, PayloadsAre
    <3> HIDE DEF n
    <3> DEFINE d == Payloads[type].values
    <3>2. d \in Nat \ {0}
      BY <3>1
    <3> HIDE DEF d
    <3>3. n \div d \in Nat
      BY <3>1, <3>2
    <3> QED BY <3>1, <3>3 DEF d
  <2>3. m = ValuesOf(shape) \div Payloads[type].values
    BY <1>1, <1>3
  <2> HIDE DEF m, n
  <2>4. /\ CheckedMul(m, Payloads[type].bytes) \in Number
        /\ CheckedMul(m, Payloads[type].bytes) # None =>
               CheckedMul(m, Payloads[type].bytes) = m * Payloads[type].bytes
    BY <2>2, CheckedMulIs DEF Number
  <2> QED BY <1>3, <2>1, <2>3, <2>4 DEF Number
<1> QED
  BY <1>2, <1>3

(* A number is rounded up to a multiple, or refused.                        *)
LEMMA AlignUpIs ==
    ASSUME NEW value \in Number, NEW n \in Nat \ {0}
    PROVE  /\ AlignUp(value, n) \in Number
           /\ AlignUp(value, n) # None => value \in Nat /\ value <= AlignUp(value, n)
<1>1. CASE value = None
  BY <1>1 DEF AlignUp, Number
<1>2. CASE value # None
  <2> DEFINE r == value % n
  <2>1. value \in Nat /\ r \in Nat /\ r < n
    BY <1>2 DEF Number
  <2>2. AlignUp(value, n) \in {value, CheckedAdd(value, n - r)}
    BY <1>2 DEF AlignUp
  <2> HIDE DEF r
  <2>3. n - r \in Nat
    BY <2>1
  <2>4. /\ CheckedAdd(value, n - r) \in Number
        /\ CheckedAdd(value, n - r) # None => CheckedAdd(value, n - r) = value + (n - r)
    BY <2>1, <2>3, CheckedAddIs, AddsUp DEF Number
  <2> QED BY <2>1, <2>2, <2>3, <2>4 DEF Number
<1> QED
  BY <1>1, <1>2

-----------------------------------------------------------------------------
(* The inductive invariant of GgufFile.  Behind the record under way: how   *)
(* much of the file each record took; in the index: where the next tensor   *)
(* must begin, and that the tensors so far lie in front of that in order.   *)

Tensor ==
    [name : {name.name : name \in Names}, type : DOMAIN Payloads, shape : Seq(Nat), relative : Nat, size : Nat]

GgufTyped ==
    work \in [part : {"gguf"}, size : Nat, phase : {"header", "metadata", "tensors", "open", "rejected"},
              at : Nat, left : Int, wanted : Nat, keys : SUBSET {key.name : key \in Keys}, alignment : Nat,
              next : Nat, index : [tensors : Seq(Tensor), data : Nat],
              got : [tensor : Nat, room : Nat, from : Nat, bytes : Nat]]

\* The tensors ts lie one behind the other in front of next.
InOrder(ts, next, alignment) ==
    /\ \A i \in DOMAIN ts :
          /\ ts[i].size = Layout(ts[i].shape, ts[i].type) /\ ts[i].relative % alignment = 0
          /\ ts[i].relative + ts[i].size <= next
    /\ \A i, j \in DOMAIN ts :
          i < j => ts[i].name # ts[j].name /\ ts[i].relative + ts[i].size <= ts[j].relative

\* Each record took its share of the file in front of the cursor.
Consumed ==
    /\ work.at <= work.size
    /\ work.phase \notin {"header", "rejected"} =>
          24 + 13 * Cardinality(work.keys) + 24 * Len(work.index.tensors) <= work.at

Indexed ==
    /\ work.phase \in {"header", "metadata", "rejected"} => work.index.tensors = <<>>
    /\ work.phase = "header" => work.keys = {}
    /\ work.phase \in {"tensors", "open"} =>
          work.alignment > 0 /\ InOrder(work.index.tensors, work.next, work.alignment)

Opened ==
    LET ts == work.index.tensors IN
    /\ work.phase = "open" =>
          /\ work.at <= work.index.data
          /\ \A i \in DOMAIN ts : work.index.data + ts[i].relative + ts[i].size <= work.size
    /\ work.got # Nothing =>
          /\ work.phase = "open" /\ work.got.tensor \in DOMAIN ts /\ work.got.room = work.got.bytes
          /\ work.got.from = work.index.data + ts[work.got.tensor].relative

GgufInv == GgufTyped /\ IsFiniteSet(work.keys) /\ Consumed /\ Indexed /\ Opened

LEMMA GgufInvInit == GgufInit => GgufInv
<1> SUFFICES ASSUME NEW size \in FileSizes,
                    work = [part |-> "gguf", size |-> size, phase |-> "header", at |-> 0, left |-> 0,
                            wanted |-> 0, keys |-> {}, alignment |-> 32, next |-> 0, index |-> Closed,
                            got |-> Nothing]
             PROVE  GgufInv
  BY DEF GgufInit
<1>1. size \in Nat
  BY GgufAssumption
<1>2. Closed \in [tensors : Seq(Tensor), data : Nat] /\ Closed.tensors = <<>>
  <2>1. <<>> \in Seq(Tensor)
    BY EmptySeq
  <2> QED BY <2>1 DEF Closed
<1>3. Nothing \in [tensor : Nat, room : Nat, from : Nat, bytes : Nat]
  BY DEF Nothing
<1>4. GgufTyped
  BY <1>1, <1>2, <1>3 DEF GgufTyped
<1>5. IsFiniteSet(work.keys)
  BY FS_EmptySet
<1>6. Consumed
  BY <1>1 DEF Consumed
<1>7. Indexed
  BY <1>2 DEF Indexed
<1>8. Opened
  BY DEF Opened
<1> QED
  BY <1>4, <1>5, <1>6, <1>7, <1>8 DEF GgufInv

(* A file that is rejected.                                                 *)
LEMMA RejectedKeeps == GgufInv /\ work.phase \in {"header", "metadata", "tensors"} /\ Rejected => GgufInv'
<1> SUFFICES ASSUME GgufInv, work.phase \in {"header", "metadata", "tensors"}, Rejected PROVE GgufInv'
  OBVIOUS
<1>1. work' = [work EXCEPT !.phase = "rejected", !.index = Closed]
  BY DEF Rejected
<1>2. Closed \in [tensors : Seq(Tensor), data : Nat] /\ Closed.tensors = <<>>
  <2>1. <<>> \in Seq(Tensor)
    BY EmptySeq
  <2> QED BY <2>1 DEF Closed
<1>3. GgufTyped'
  BY <1>1, <1>2 DEF GgufInv, GgufTyped
<1>4. /\ work'.phase = "rejected" /\ work'.index = Closed /\ work'.keys = work.keys
      /\ work'.at = work.at /\ work'.size = work.size /\ work'.got = work.got
  BY <1>1 DEF GgufInv, GgufTyped
<1>5. work.got = Nothing
  BY DEF GgufInv, Opened
<1>6. IsFiniteSet(work'.keys)
  BY <1>4 DEF GgufInv
<1>7. Consumed' /\ Indexed' /\ Opened'
  BY <1>2, <1>4, <1>5 DEF GgufInv, Consumed, Indexed, Opened
<1> QED
  BY <1>3, <1>6, <1>7 DEF GgufInv

LEMMA HeaderReadKeeps == GgufInv /\ HeaderRead => GgufInv'
<1> SUFFICES ASSUME GgufInv, HeaderRead PROVE GgufInv'
  OBVIOUS
<1>1. work.phase = "header" /\ work.size \in Nat
  BY DEF HeaderRead, GgufInv, GgufTyped
<1>2. PICK version \in {2, 3}, tensors \in Counts, metadata \in Counts :
          IF Skip(0, 24) = None \/ version # 3 \/ tensors > work.size \div 24 \/ metadata > work.size \div 13
          THEN Rejected
          ELSE work' = [work EXCEPT !.phase = "metadata", !.at = 24, !.left = metadata, !.wanted = tensors]
  BY DEF HeaderRead
<1>3. CASE Rejected
  BY <1>1, <1>3, RejectedKeeps
<1>4. CASE /\ Skip(0, 24) # None
           /\ work' = [work EXCEPT !.phase = "metadata", !.at = 24, !.left = metadata, !.wanted = tensors]
  <2>1. 24 <= work.size
    <3>1. 0 \in Number /\ 24 \in Number
      BY DEF Number
    <3> QED BY <1>1, <1>4, <3>1, SkipIs
  <2>2. metadata \in Int /\ tensors \in Nat
    BY GgufAssumption
  <2>3. GgufTyped'
    BY <1>4, <2>2 DEF GgufInv, GgufTyped
  <2>4. /\ work'.phase = "metadata" /\ work'.index = work.index /\ work'.keys = work.keys
        /\ work'.at = 24 /\ work'.size = work.size /\ work'.got = work.got
    BY <1>4 DEF GgufInv, GgufTyped
  <2>5. work.got = Nothing /\ work.keys = {} /\ work.index.tensors = <<>>
    BY <1>1 DEF GgufInv, Opened, Indexed
  <2>6. IsFiniteSet(work'.keys)
    BY <2>4 DEF GgufInv
  <2>7. Cardinality(work'.keys) = 0 /\ Len(work'.index.tensors) = 0
    BY <2>4, <2>5, FS_EmptySet
  <2>8. Consumed' /\ Indexed' /\ Opened'
    BY <1>1, <2>1, <2>4, <2>5, <2>7 DEF Consumed, Indexed, Opened
  <2> QED BY <2>3, <2>6, <2>8 DEF GgufInv
<1> QED
  BY <1>2, <1>3, <1>4

LEMMA MetadataReadKeeps == GgufInv /\ MetadataRead => GgufInv'
<1> SUFFICES ASSUME GgufInv, MetadataRead PROVE GgufInv'
  OBVIOUS
<1>1. work.phase = "metadata" /\ work.size \in Nat /\ work.at \in Nat
  BY DEF MetadataRead, GgufInv, GgufTyped
<1>2. PICK key \in Keys, v \in Values :
          LET end == ValueEnd(Skip(Text(work.at, key.length), 4), v)
          IN  IF \/ key.length = 0 \/ key.name \in work.keys \/ end = None
                 \/ ~Expected(key.name, v)
              THEN Rejected
              ELSE work' = [work EXCEPT !.at = end, !.left = @ - 1, !.keys = @ \cup {key.name},
                               !.alignment = IF key.name = "general.alignment" THEN v.number ELSE @]
  BY DEF MetadataRead
<1> DEFINE named == Text(work.at, key.length)
           typed == Skip(named, 4)
           end == ValueEnd(typed, v)
           alignment == IF key.name = "general.alignment" THEN v.number ELSE work.alignment
<1>3. CASE Rejected
  BY <1>1, <1>3, RejectedKeeps
<1>4. CASE /\ key.length # 0 /\ key.name \notin work.keys /\ end # None
           /\ work' = [work EXCEPT !.at = end, !.left = @ - 1, !.keys = @ \cup {key.name}, !.alignment = alignment]
  <2>1. key.length \in Nat /\ Claims(v)
    BY GgufAssumption DEF Claims
  <2>2. named \in Number /\ (named # None => named = work.at + 8 + key.length)
    <3>1. work.at \in Number
      BY <1>1 DEF Number
    <3> QED BY <1>1, <2>1, <3>1, TextIs
  <2> HIDE DEF named
  <2>3. typed \in Number /\ (typed # None => named \in Nat /\ typed = named + 4)
    <3>1. 4 \in Number
      BY DEF Number
    <3> QED BY <1>1, <2>2, <3>1, SkipIs
  <2> HIDE DEF typed
  <2>4. end \in Nat /\ typed \in Nat /\ typed <= end /\ end <= work.size
    <3>1. end \in Number
      BY <1>1, <2>1, <2>3, ValueEndIs
    <3> QED BY <1>1, <1>4, <2>1, <2>3, <3>1, ValueEndIs DEF Number
  <2> HIDE DEF end
  <2>5. work.at + 13 <= end
    BY <1>1, <1>4, <2>1, <2>2, <2>3, <2>4 DEF None
  <2>6. alignment \in Nat
    BY GgufAssumption DEF GgufInv, GgufTyped
  <2> HIDE DEF alignment
  <2>7. work.keys \cup {key.name} \in SUBSET {k.name : k \in Keys} /\ work.left - 1 \in Int
    BY DEF GgufInv, GgufTyped
  <2>8. GgufTyped'
    <3> DEFINE keys == work.keys \cup {key.name}
               left == work.left - 1
    <3>1. work' = [work EXCEPT !.at = end, !.left = left, !.keys = keys, !.alignment = alignment]
      BY <1>4
    <3>2. keys \in SUBSET {k.name : k \in Keys} /\ left \in Int
      BY <2>7
    <3> HIDE DEF keys, left
    <3> QED BY <2>4, <2>6, <3>1, <3>2 DEF GgufInv, GgufTyped
  <2>9. /\ work'.phase = "metadata" /\ work'.index = work.index /\ work'.keys = work.keys \cup {key.name}
        /\ work'.at = end /\ work'.size = work.size /\ work'.got = work.got
    BY <1>1, <1>4 DEF GgufInv, GgufTyped
  <2>10. work.got = Nothing /\ work.index.tensors = <<>>
    BY <1>1 DEF GgufInv, Opened, Indexed
  <2>11. IsFiniteSet(work'.keys) /\ Cardinality(work'.keys) = Cardinality(work.keys) + 1
    BY <1>4, <2>9, FS_AddElement DEF GgufInv
  <2>12. Consumed'
    <3>1. 24 + 13 * Cardinality(work.keys) + 24 * Len(work.index.tensors) <= work.at
      BY <1>1 DEF GgufInv, Consumed
    <3>2. Cardinality(work.keys) \in Nat /\ Len(work.index.tensors) = 0 /\ Len(work'.index.tensors) = 0
      BY <2>9, <2>10, FS_CardinalityType DEF GgufInv
    <3> QED BY ONLY <1>1, <2>4, <2>5, <2>9, <2>11, <3>1, <3>2 DEF Consumed
  <2>13. Indexed' /\ Opened'
    BY <2>9, <2>10 DEF Indexed, Opened
  <2> QED BY <2>8, <2>11, <2>12, <2>13 DEF GgufInv
<1> QED
  BY <1>2, <1>3, <1>4

LEMMA MetadataEndsKeeps == GgufInv /\ MetadataEnds => GgufInv'
<1> SUFFICES ASSUME GgufInv, MetadataEnds PROVE GgufInv'
  OBVIOUS
<1>1. work.phase = "metadata"
  BY DEF MetadataEnds
<1>2. CASE Rejected
  BY <1>1, <1>2, RejectedKeeps
<1>3. CASE IsPowerOfTwo(work.alignment) /\ work' = [work EXCEPT !.phase = "tensors"]
  <2>1. GgufTyped'
    BY <1>3 DEF GgufInv, GgufTyped
  <2>2. /\ work'.phase = "tensors" /\ work'.index = work.index /\ work'.keys = work.keys
        /\ work'.at = work.at /\ work'.size = work.size /\ work'.got = work.got
        /\ work'.alignment = work.alignment
    BY <1>3 DEF GgufInv, GgufTyped
  <2>3. work.got = Nothing /\ work.index.tensors = <<>> /\ work.alignment > 0
    BY <1>1, <1>3 DEF GgufInv, Opened, Indexed, IsPowerOfTwo
  <2>4. IsFiniteSet(work'.keys)
    BY <2>2 DEF GgufInv
  <2>5. Consumed'
    BY <1>1, <2>2 DEF GgufInv, Consumed
  <2>6. Indexed'
    BY <2>2, <2>3 DEF Indexed, InOrder
  <2>7. Opened'
    BY <2>2, <2>3 DEF Opened
  <2> QED BY <2>1, <2>4, <2>5, <2>6, <2>7 DEF GgufInv
<1> QED
  BY <1>2, <1>3 DEF MetadataEnds

(* One more tensor behind the others.                                       *)
LEMMA InOrderAppend ==
    ASSUME NEW ts \in Seq(Tensor), NEW next \in Nat, NEW alignment \in Nat, InOrder(ts, next, alignment),
           NEW t \in Tensor, NEW end \in Nat, t.relative = next, t.relative + t.size <= end,
           t.size = Layout(t.shape, t.type), t.relative % alignment = 0,
           \A i \in DOMAIN ts : ts[i].name # t.name
    PROVE  InOrder(Append(ts, t), end, alignment)
<1> DEFINE us == Append(ts, t)
           n == Len(ts)
<1>1. n \in Nat /\ DOMAIN ts = 1..n /\ \A i \in 1..n : ts[i] \in Tensor
  BY LenProperties, ElementOfSeq
<1>2. DOMAIN us = 1..(n + 1) /\ us[n + 1] = t /\ \A i \in 1..n : us[i] = ts[i]
  BY <1>1, AppendProperties
<1> HIDE DEF us, n
<1>3. \A i \in 1..n : ts[i].relative \in Nat /\ ts[i].size \in Nat
  BY <1>1 DEF Tensor
<1>4. t.relative \in Nat /\ t.size \in Nat /\ next <= end
  BY DEF Tensor
<1>5. ASSUME NEW i \in 1..(n + 1)
      PROVE  /\ us[i].size = Layout(us[i].shape, us[i].type) /\ us[i].relative % alignment = 0
             /\ us[i].relative + us[i].size <= end
  <2>1. CASE i = n + 1
    BY <1>2, <2>1
  <2>2. CASE i # n + 1
    <3>1. i \in 1..n
      BY <1>1, <2>2
    <3>2. ts[i].relative + ts[i].size <= next
      BY <1>1, <3>1 DEF InOrder
    <3>3. ts[i].relative + ts[i].size <= end
      BY <1>3, <1>4, <3>1, <3>2
    <3> QED BY <1>1, <1>2, <3>1, <3>3 DEF InOrder
  <2> QED BY <2>1, <2>2
<1>6. ASSUME NEW i \in 1..(n + 1), NEW j \in 1..(n + 1), i < j
      PROVE  us[i].name # us[j].name /\ us[i].relative + us[i].size <= us[j].relative
  <2>1. i \in 1..n /\ us[i] = ts[i]
    BY <1>1, <1>2, <1>6
  <2>2. CASE j = n + 1
    BY <1>1, <1>2, <2>1, <2>2 DEF InOrder
  <2>3. CASE j # n + 1
    <3>1. j \in 1..n
      BY <1>1, <2>3
    <3> QED BY <1>1, <1>2, <1>6, <2>1, <3>1 DEF InOrder
  <2> QED BY <2>2, <2>3
<1> QED
  BY <1>2, <1>5, <1>6 DEF InOrder, us

LEMMA TensorReadKeeps == GgufInv /\ TensorRead => GgufInv'
<1> SUFFICES ASSUME GgufInv, TensorRead PROVE GgufInv'
  OBVIOUS
<1>1. /\ work.phase = "tensors" /\ work.size \in Nat /\ work.at \in Nat /\ work.next \in Nat
      /\ work.alignment \in Nat /\ work.index.tensors \in Seq(Tensor)
  BY DEF TensorRead, GgufInv, GgufTyped
<1>2. PICK name \in Names, shape \in Shapes, type \in DOMAIN Payloads \cup {"other"},
           offset \in Offsets \cup {work.next} :
          LET end == Skip(Text(work.at, name.length), 4 + 8 * Len(shape) + 12)
              size == Layout(shape, type)
              next == AlignUp(CheckedAdd(offset, size), work.alignment)
          IN  IF \/ end = None \/ name.length = 0 \/ Len(shape) > 4 \/ size = None
                 \/ offset % work.alignment # 0 \/ offset # work.next \/ next = None
                 \/ \E i \in DOMAIN work.index.tensors : work.index.tensors[i].name = name.name
              THEN Rejected
              ELSE work' = [work EXCEPT !.at = end, !.next = next,
                               !.index.tensors = Append(@, [name |-> name.name, type |-> type, shape |-> shape,
                                                           relative |-> offset, size |-> size])]
  BY DEF TensorRead
<1> DEFINE named == Text(work.at, name.length)
           rest == 4 + 8 * Len(shape) + 12
           end == Skip(named, rest)
           size == Layout(shape, type)
           sum == CheckedAdd(offset, size)
           next == AlignUp(sum, work.alignment)
           t == [name |-> name.name, type |-> type, shape |-> shape, relative |-> offset, size |-> size]
           ts == work.index.tensors
<1>3. CASE Rejected
  BY <1>1, <1>3, RejectedKeeps
<1>4. CASE /\ end # None /\ size # None /\ offset % work.alignment = 0 /\ offset = work.next /\ next # None
           /\ \A i \in DOMAIN ts : ts[i].name # name.name
           /\ work' = [work EXCEPT !.at = end, !.next = next, !.index.tensors = Append(@, t)]
  <2>1. name.length \in Nat /\ shape \in Seq(Nat) /\ Len(shape) \in Nat
    BY GgufAssumption, LenProperties
  <2>2. named \in Number /\ (named # None => named = work.at + 8 + name.length)
    <3>1. work.at \in Number
      BY <1>1 DEF Number
    <3> QED BY <1>1, <2>1, <3>1, TextIs
  <2>3. rest \in Nat /\ rest >= 16
    BY <2>1
  <2> HIDE DEF named, rest
  <2>4. end \in Nat /\ work.at + 24 <= end /\ end <= work.size
    <3>1. rest \in Number
      BY <2>3 DEF Number
    <3>2. named \in Nat /\ end = named + rest /\ end <= work.size
      BY <1>1, <1>4, <2>2, <3>1, SkipIs
    <3>3. named # None
      BY <3>2 DEF None
    <3>4. named = work.at + 8 + name.length
      BY <2>2, <3>3
    <3> DEFINE at == work.at
               length == name.length
    <3>5. at \in Nat /\ length \in Nat /\ rest \in Nat /\ rest >= 16 /\ named = at + 8 + length
      BY <1>1, <2>1, <2>3, <3>4
    <3>6. named \in Nat /\ end = named + rest /\ end <= work.size
      BY <3>2
    <3> HIDE DEF at, length, end
    <3>7. end \in Nat /\ at + 24 <= end
      BY ONLY <3>5, <3>6
    <3> QED BY <3>6, <3>7 DEF at
  <2>5. size \in Nat /\ type \in DOMAIN Payloads
    BY <1>4, <2>1, LayoutIs DEF Number
  <2>6. InOrder(ts, work.next, work.alignment) /\ work.alignment \in Nat \ {0}
    BY <1>1 DEF GgufInv, Indexed
  <2>7. next \in Nat /\ offset + size <= next
    <3>1. sum \in Number /\ (sum # None => sum = offset + size)
      BY <1>1, <1>4, <2>5, CheckedAddIs, AddsUp DEF Number
    <3> HIDE DEF sum
    <3>2. next \in Number /\ (next # None => sum \in Nat /\ sum <= next)
      BY <2>6, <3>1, AlignUpIs
    <3> HIDE DEF next
    <3> QED BY <1>4, <3>1, <3>2 DEF Number, None
  <2>8. t \in Tensor /\ t.relative = work.next /\ t.relative + t.size <= next /\ t.name = name.name
        /\ t.size = Layout(t.shape, t.type) /\ t.relative % work.alignment = 0
    BY <1>1, <1>4, <2>1, <2>5, <2>7 DEF Tensor
  <2> HIDE DEF end, size, next, t
  <2>9. Append(ts, t) \in Seq(Tensor) /\ Len(Append(ts, t)) = Len(ts) + 1 /\ Len(ts) \in Nat
    BY <1>1, <2>8, AppendProperties, LenProperties
  <2>10. /\ work'.phase = "tensors" /\ work'.index = [work.index EXCEPT !.tensors = Append(ts, t)]
         /\ work'.keys = work.keys /\ work'.at = end /\ work'.size = work.size /\ work'.got = work.got
         /\ work'.next = next /\ work'.alignment = work.alignment
    BY <1>1, <1>4 DEF GgufInv, GgufTyped
  <2>11. work'.index.tensors = Append(ts, t) /\ work'.index \in [tensors : Seq(Tensor), data : Nat]
    BY <2>9, <2>10 DEF GgufInv, GgufTyped
  <2>12. GgufTyped'
    <3> DEFINE index == [work.index EXCEPT !.tensors = Append(ts, t)]
    <3>1. work' = [work EXCEPT !.at = end, !.next = next, !.index = index]
      BY <1>4
    <3>2. index \in [tensors : Seq(Tensor), data : Nat]
      BY <2>10, <2>11
    <3> HIDE DEF index
    <3> QED BY <2>4, <2>7, <3>1, <3>2 DEF GgufInv, GgufTyped
  <2>13. IsFiniteSet(work'.keys)
    BY <2>10 DEF GgufInv
  <2>14. Consumed'
    <3>1. 24 + 13 * Cardinality(work.keys) + 24 * Len(ts) <= work.at /\ Cardinality(work.keys) \in Nat
      BY <1>1, FS_CardinalityType DEF GgufInv, Consumed
    <3>2. work.at + 24 <= end /\ end \in Nat /\ work.at \in Nat /\ end <= work.size
      BY <1>1, <2>4 DEF Consumed
    <3>3. 24 + 13 * Cardinality(work.keys) + 24 * (Len(ts) + 1) <= end
      <4> DEFINE keys == Cardinality(work.keys)
                 tensors == Len(ts)
      <4>1. 24 + 13 * keys + 24 * tensors <= work.at /\ keys \in Nat /\ tensors \in Nat
        BY <2>9, <3>1
      <4> HIDE DEF keys, tensors
      <4>2. 24 + 13 * keys + 24 * (tensors + 1) <= end
        BY ONLY <3>2, <4>1
      <4> QED BY <4>2 DEF keys, tensors
    <3>4. Len(work'.index.tensors) = Len(ts) + 1 /\ work'.keys = work.keys /\ work'.at = end /\ work'.size = work.size
      BY <2>9, <2>10, <2>11
    <3> QED BY ONLY <3>2, <3>3, <3>4 DEF Consumed
  <2>15. InOrder(Append(ts, t), next, work.alignment)
    <3> HIDE DEF ts
    <3> QED BY <1>1, <1>4, <2>6, <2>7, <2>8, InOrderAppend DEF ts
  <2>16. Indexed'
    BY <2>6, <2>10, <2>11, <2>15 DEF Indexed
  <2>17. Opened'
    BY <1>1, <2>10 DEF GgufInv, Opened
  <2> QED BY <2>12, <2>13, <2>14, <2>16, <2>17 DEF GgufInv
<1> QED
  BY <1>2, <1>3, <1>4

LEMMA IndexEndsKeeps == GgufInv /\ IndexEnds => GgufInv'
<1> SUFFICES ASSUME GgufInv, IndexEnds PROVE GgufInv'
  OBVIOUS
<1>1. /\ work.phase = "tensors" /\ work.size \in Nat /\ work.at \in Nat
      /\ work.alignment \in Nat \ {0} /\ work.index.tensors \in Seq(Tensor)
  BY DEF IndexEnds, GgufInv, GgufTyped, Indexed
<1> DEFINE data == IF work.wanted = 0 THEN work.at ELSE AlignUp(work.at, work.alignment)
           end(x) == CheckedAdd(CheckedAdd(data, x.relative), x.size)
           ts == work.index.tensors
<1>2. CASE Rejected
  BY <1>1, <1>2, RejectedKeeps
<1>3. CASE /\ data # None /\ \A i \in DOMAIN ts : end(ts[i]) # None /\ end(ts[i]) <= work.size
           /\ work' = [work EXCEPT !.phase = "open", !.index.data = data]
  <2>1. data \in Nat /\ work.at <= data
    <3>1. work.at \in Number
      BY <1>1 DEF Number
    <3> QED BY <1>1, <1>3, <3>1, AlignUpIs DEF Number
  <2> HIDE DEF data
  <2>2. ASSUME NEW i \in DOMAIN ts PROVE data + ts[i].relative + ts[i].size <= work.size
    <3>1. ts[i].relative \in Nat /\ ts[i].size \in Nat
      <4>1. ts[i] \in Tensor
        BY <1>1, ElementOfSeq
      <4> QED BY <4>1 DEF Tensor
    <3> DEFINE r == ts[i].relative
               z == ts[i].size
               a == CheckedAdd(data, r)
               b == CheckedAdd(a, z)
    <3>2. r \in Int /\ z \in Int /\ data \in Int
      BY <2>1, <3>1
    <3>3. b # None /\ b <= work.size
      BY <1>3
    <3> HIDE DEF r, z
    <3>4. a \in Int /\ (a # None => a = data + r)
      BY <3>2, CheckedAddIs
    <3> HIDE DEF a
    <3>5. b # None => a # None /\ b = a + z
      BY <3>2, <3>4, CheckedAddIs
    <3> HIDE DEF b
    <3>6. data + r + z <= work.size
      BY <3>3, <3>4, <3>5
    <3> QED BY <3>6 DEF r, z
  <2>3. /\ work'.phase = "open" /\ work'.index = [work.index EXCEPT !.data = data]
        /\ work'.keys = work.keys /\ work'.at = work.at /\ work'.size = work.size /\ work'.got = work.got
        /\ work'.next = work.next /\ work'.alignment = work.alignment
    BY <1>1, <1>3 DEF GgufInv, GgufTyped
  <2>4. work'.index.tensors = ts /\ work'.index.data = data /\ work'.index \in [tensors : Seq(Tensor), data : Nat]
    BY <2>1, <2>3 DEF GgufInv, GgufTyped
  <2>5. GgufTyped'
    <3> DEFINE index == [work.index EXCEPT !.data = data]
    <3>1. work' = [work EXCEPT !.phase = "open", !.index = index]
      BY <1>3
    <3>2. index \in [tensors : Seq(Tensor), data : Nat]
      BY <2>3, <2>4
    <3> HIDE DEF index
    <3> QED BY <3>1, <3>2 DEF GgufInv, GgufTyped
  <2>6. IsFiniteSet(work'.keys)
    BY <2>3 DEF GgufInv
  <2>7. Consumed'
    BY <1>1, <2>3, <2>4 DEF GgufInv, Consumed
  <2>8. Indexed'
    BY <1>1, <2>3, <2>4 DEF GgufInv, Indexed
  <2>9. Opened'
    <3>1. work.got = Nothing
      BY <1>1 DEF GgufInv, Opened
    <3> HIDE DEF ts
    <3> QED BY <2>1, <2>2, <2>3, <2>4, <3>1 DEF Opened
  <2> QED BY <2>5, <2>6, <2>7, <2>8, <2>9 DEF GgufInv
<1> QED
  BY <1>2, <1>3 DEF IndexEnds

(* What is allocated for a payload of type `as`, or for its bytes.          *)
LEMMA RoomIs ==
    ASSUME NEW t \in Tensor, NEW as \in {"bytes", t.type}, as \in {"bytes", "f32", "q8_0", "q4_0"},
           t.size = Layout(t.shape, t.type)
    PROVE  LET width == IF as = "bytes" THEN 1 ELSE Payloads[as].bytes
               items == IF as = "f32" THEN Layout(t.shape, "f32") \div 4 ELSE t.size \div width
           IN  items * width = t.size /\ items * width \in Nat
<1> DEFINE n == ValuesOf(t.shape)
<1>1. t.size \in Nat /\ t.shape \in Seq(Nat)
  BY DEF Tensor
<1>2. n \in Nat
  BY <1>1, ProductIsPlain
<1>3. t.type \in DOMAIN Payloads /\ t.size = (n \div Payloads[t.type].values) * Payloads[t.type].bytes
  <2>1. t.size # None
    BY <1>1 DEF None
  <2> QED BY <1>1, <2>1, LayoutIs
<1> HIDE DEF n
<1>4. CASE as = "bytes"
  BY <1>1, <1>4
<1>5. CASE as = "f32" /\ as = t.type
  <2>1. t.size = (n \div 1) * 4
    BY <1>3, <1>5 DEF Payloads
  <2>2. Layout(t.shape, "f32") = t.size /\ Payloads[as].bytes = 4
    BY <1>5 DEF Payloads
  <2>3. (t.size \div 4) * 4 = t.size
    BY <1>2, <2>1
  <2> QED BY <1>1, <1>5, <2>2, <2>3
<1>6. CASE as = "q8_0" /\ as = t.type
  <2>1. t.size = (n \div 32) * 34
    BY <1>3, <1>6 DEF Payloads
  <2>2. Payloads[as].bytes = 34
    BY <1>6 DEF Payloads
  <2>3. (t.size \div 34) * 34 = t.size
    BY <1>2, <2>1
  <2> QED BY <1>1, <1>6, <2>2, <2>3
<1>7. CASE as = "q4_0" /\ as = t.type
  <2>1. t.size = (n \div 32) * 18
    BY <1>3, <1>7 DEF Payloads
  <2>2. Payloads[as].bytes = 18
    BY <1>7 DEF Payloads
  <2>3. (t.size \div 18) * 18 = t.size
    BY <1>2, <2>1
  <2> QED BY <1>1, <1>7, <2>2, <2>3
<1> QED
  BY <1>4, <1>5, <1>6, <1>7

LEMMA PayloadReadKeeps == GgufInv /\ PayloadRead => GgufInv'
<1> SUFFICES ASSUME GgufInv, PayloadRead PROVE GgufInv'
  OBVIOUS
<1>1. /\ work.phase = "open" /\ work.index.data \in Nat /\ work.index.tensors \in Seq(Tensor)
      /\ InOrder(work.index.tensors, work.next, work.alignment)
  BY DEF PayloadRead, GgufInv, GgufTyped, Indexed
<1>2. PICK i \in DOMAIN work.index.tensors, as \in {"bytes", "f32", "q8_0", "q4_0"}, now \in FileSizes :
          LET t == work.index.tensors[i]
              width == IF as = "bytes" THEN 1 ELSE Payloads[as].bytes
              items == IF as = "f32" THEN Layout(t.shape, "f32") \div 4 ELSE t.size \div width
              from == work.index.data + t.relative
          IN  /\ as \in {"bytes", t.type} /\ (t.size = 0 \/ from + t.size <= now)
              /\ work' = [work EXCEPT !.got =
                             [tensor |-> i, room |-> items * width, from |-> from, bytes |-> t.size]]
  BY DEF PayloadRead
<1> DEFINE t == work.index.tensors[i]
           width == IF as = "bytes" THEN 1 ELSE Payloads[as].bytes
           items == IF as = "f32" THEN Layout(t.shape, "f32") \div 4 ELSE t.size \div width
           room == items * width
           from == work.index.data + t.relative
           got == [tensor |-> i, room |-> room, from |-> from, bytes |-> t.size]
<1>3. work' = [work EXCEPT !.got = got] /\ as \in {"bytes", t.type}
  BY <1>2
<1>4. t \in Tensor /\ t.size = Layout(t.shape, t.type) /\ t.relative \in Nat /\ t.size \in Nat /\ i \in Nat
  <2>1. t \in Tensor /\ i \in Nat
    BY <1>1, ElementOfSeq, LenProperties
  <2> QED BY <1>1, <2>1 DEF Tensor, InOrder
<1>5. room = t.size /\ room \in Nat
  <2> HIDE DEF t
  <2> QED BY <1>3, <1>4, RoomIs
<1>6. from \in Nat
  <2>1. work.index.data \in Nat /\ t.relative \in Nat
    BY <1>1, <1>4
  <2> HIDE DEF t
  <2> QED BY <2>1
<1> HIDE DEF room, from
<1>7. got \in [tensor : Nat, room : Nat, from : Nat, bytes : Nat]
  BY <1>4, <1>5, <1>6
<1>8. got.tensor = i /\ got.room = got.bytes /\ got.from = from
  BY <1>5
<1> HIDE DEF got
<1>9. GgufTyped'
  BY <1>3, <1>7 DEF GgufInv, GgufTyped
<1>10. /\ work'.phase = "open" /\ work'.index = work.index /\ work'.keys = work.keys
       /\ work'.at = work.at /\ work'.size = work.size /\ work'.got = got
       /\ work'.next = work.next /\ work'.alignment = work.alignment
  BY <1>1, <1>3 DEF GgufInv, GgufTyped
<1>11. IsFiniteSet(work'.keys)
  BY <1>10 DEF GgufInv
<1>12. Consumed'
  BY <1>1, <1>10 DEF GgufInv, Consumed
<1>13. Indexed'
  BY <1>1, <1>10 DEF GgufInv, Indexed
<1>14. Opened'
  BY <1>1, <1>8, <1>10 DEF GgufInv, Opened, from
<1> QED
  BY <1>9, <1>11, <1>12, <1>13, <1>14 DEF GgufInv

LEMMA GgufInvNext == GgufInv /\ [GgufNext]_work => GgufInv'
<1> SUFFICES ASSUME GgufInv, [GgufNext]_work PROVE GgufInv'
  OBVIOUS
<1>1. CASE HeaderRead
  BY <1>1, HeaderReadKeeps
<1>2. CASE MetadataRead
  BY <1>2, MetadataReadKeeps
<1>3. CASE MetadataEnds
  BY <1>3, MetadataEndsKeeps
<1>4. CASE TensorRead
  BY <1>4, TensorReadKeeps
<1>5. CASE IndexEnds
  BY <1>5, IndexEndsKeeps
<1>6. CASE PayloadRead
  BY <1>6, PayloadReadKeeps
<1>7. CASE UNCHANGED work
  BY <1>7 DEF GgufInv, GgufTyped, Consumed, Indexed, Opened
<1> QED
  BY <1>1, <1>2, <1>3, <1>4, <1>5, <1>6, <1>7 DEF GgufNext

(* Safe to read by.                                                         *)
LEMMA GgufInvIsSafe == GgufInv => GgufIsSafe
<1> SUFFICES ASSUME GgufInv PROVE GgufIsSafe
  OBVIOUS
<1> DEFINE ts == work.index.tensors
           start(i) == work.index.data + ts[i].relative
<1>1. /\ work.index.data \in Nat /\ ts \in Seq(Tensor) /\ work.at \in Nat /\ work.size \in Nat
      /\ \A i \in DOMAIN ts : ts[i] \in Tensor /\ ts[i].relative \in Nat /\ ts[i].size \in Nat
  <2>1. work.index.data \in Nat /\ ts \in Seq(Tensor) /\ work.at \in Nat /\ work.size \in Nat
    BY DEF GgufInv, GgufTyped
  <2>2. \A i \in DOMAIN ts : ts[i] \in Tensor
    BY <2>1, ElementOfSeq
  <2> QED BY <2>1, <2>2 DEF Tensor
<1>2. /\ work.at <= work.size
      /\ work.phase \notin {"header", "rejected"} => 24 + 13 * Cardinality(work.keys) + 24 * Len(ts) <= work.at
  BY DEF GgufInv, Consumed
<1>3. ASSUME work.phase = "open", NEW i \in DOMAIN ts
      PROVE  /\ ts[i].size = Bytes(ts[i]) /\ ts[i].relative % work.alignment = 0
             /\ start(i) >= work.at /\ start(i) + ts[i].size <= work.size
  <2>1. ts[i].size = Layout(ts[i].shape, ts[i].type) /\ ts[i].relative % work.alignment = 0
    BY <1>3 DEF GgufInv, Indexed, InOrder
  <2>2. ts[i].size # None /\ ts[i].shape \in Seq(Nat)
    <3>1. \A x \in Tensor : x.size # None /\ x.shape \in Seq(Nat)
      BY DEF Tensor, None
    <3> HIDE DEF ts
    <3> QED BY <1>1, <1>3, <3>1
  <2>3. ts[i].size = Bytes(ts[i])
    BY <2>1, <2>2, LayoutIs DEF Bytes
  <2>4. work.at <= work.index.data /\ start(i) + ts[i].size <= work.size
    BY <1>3 DEF GgufInv, Opened
  <2> QED BY <1>1, <2>1, <2>3, <2>4
<1>4. ASSUME work.phase = "open", NEW i \in DOMAIN ts, NEW j \in DOMAIN ts, i < j
      PROVE  ts[i].name # ts[j].name /\ start(i) + ts[i].size <= start(j)
  <2>1. ts[i].name # ts[j].name /\ ts[i].relative + ts[i].size <= ts[j].relative
    BY <1>4 DEF GgufInv, Indexed, InOrder
  <2>2. /\ work.index.data \in Nat /\ ts[i].relative \in Nat /\ ts[i].size \in Nat
        /\ ts[j].relative \in Nat
    BY <1>1, <1>4
  <2> HIDE DEF ts
  <2> QED BY ONLY <2>1, <2>2
<1>5. work.got # Nothing => work.got.room = work.got.bytes /\ work.got.from = start(work.got.tensor)
  BY DEF GgufInv, Opened
<1> HIDE DEF ts
<1> QED
  BY <1>2, <1>3, <1>4, <1>5 DEF GgufIsSafe, ts

(* Whatever the file claims, the reader of a GGUF file stays inside it, and *)
(* the index it accepts places every tensor, whole, aligned and apart from   *)
(* the others, inside the file; a payload fills what was allocated for it    *)
(* (GgufReader::open and its read functions).                               *)
THEOREM GgufIndexIsSafe == GgufSpec => []GgufIsSafe
<1>1. GgufInit => GgufInv
  BY GgufInvInit
<1>2. GgufInv /\ [GgufNext]_work => GgufInv'
  BY GgufInvNext
<1>3. GgufInv => GgufIsSafe
  BY GgufInvIsSafe
<1> QED
  BY <1>1, <1>2, <1>3, PTL DEF GgufSpec

-----------------------------------------------------------------------------
(* ArtifactFile: the sizes of payloads, and where they lie.                 *)

LEMMA ElementsAre == ASSUME NEW shape \in Seq(Nat) PROVE Elements(shape) \in Number
BY ProductIsPlain DEF Elements

LEMMA PayloadSizeIs ==
    ASSUME NEW encoding \in Encodings, NEW shape \in Seq(Nat)
    PROVE  PayloadSize(encoding, shape) \in Number
<1> DEFINE n == Elements(shape)
           Sized(ok, bytes) == IF ok THEN CheckedMul(n \div 32, bytes) ELSE None
           tiled(rows, columns) == Len(shape) = 2 /\ shape[1] % rows = 0 /\ shape[2] % columns = 0
<1>1. n \in Number
  BY ElementsAre
<1>2. CASE n = None \/ Len(shape) \notin 1..8 \/ 0 \in {shape[d] : d \in DOMAIN shape}
  BY <1>2 DEF PayloadSize, Number
<1>3. CASE ~(n = None \/ Len(shape) \notin 1..8 \/ 0 \in {shape[d] : d \in DOMAIN shape})
  <2>1. n \in Nat /\ n \div 32 \in Nat
    BY <1>1, <1>3 DEF Number
  <2>2. PayloadSize(encoding, shape) =
            CASE encoding \in G16 -> Sized(tiled(8, 128), 20)
              [] encoding \in CpuPacked -> Sized(tiled(8, IF encoding \in Transformed THEN 128 ELSE 32), 18)
              [] encoding = "q8_0" -> Sized(tiled(1, 32), 34)
              [] encoding = "q4_0" -> Sized(n % 32 = 0, 18)
              [] encoding = "q4_h128" -> Sized(Last(shape) % 128 = 0, 18)
              [] encoding = "f32" -> CheckedMul(n, 4)
    BY <1>3 DEF PayloadSize
  <2>3. \A ok, bytes : bytes \in Nat => Sized(ok, bytes) \in Number
    <3> SUFFICES ASSUME NEW ok, NEW bytes \in Nat PROVE Sized(ok, bytes) \in Number
      OBVIOUS
    <3>1. CheckedMul(n \div 32, bytes) \in Number
      BY <2>1, MultipliesUp DEF Number
    <3> QED BY <3>1 DEF Number
  <2>4. CheckedMul(n, 4) \in Number
    BY <1>1, MultipliesUp
  <2>5. encoding \in G16 \cup CpuPacked \cup {"q8_0", "q4_0", "q4_h128", "f32"}
    BY DEF Encodings, Transformed, G16, CpuPacked
  <2>6. /\ Sized(tiled(8, 128), 20) \in Number /\ Sized(tiled(1, 32), 34) \in Number
        /\ Sized(tiled(8, IF encoding \in Transformed THEN 128 ELSE 32), 18) \in Number
        /\ Sized(n % 32 = 0, 18) \in Number /\ Sized(Last(shape) % 128 = 0, 18) \in Number
    BY <2>3
  <2> HIDE DEF Sized, tiled, n
  <2> QED BY <2>2, <2>4, <2>5, <2>6
<1> QED
  BY <1>2, <1>3

LEMMA EndsAre ==
    ASSUME NEW sizes \in Seq(Number), NEW data \in Number
    PROVE  LET ends == Ends(sizes, data)
               n == Len(sizes)
           IN  /\ ends \in [0..n -> Number] /\ ends[0] = data
               /\ \A k \in 1..n : ends[k] = CheckedAdd(AlignUp(ends[k - 1], Alignment), sizes[k])
<1> DEFINE n == Len(sizes)
           D == CHOOSE u : u = [k \in 0..n |-> IF k = 0 THEN data ELSE CheckedAdd(AlignUp(u[k - 1], Alignment), sizes[k])]
           step == [k \in 1..n |-> [x \in Number |-> CheckedAdd(AlignUp(x, Alignment), sizes[k])]]
<1>1. n \in Nat /\ \A k \in 1..n : sizes[k] \in Number
  BY LenProperties, ElementOfSeq
<1>0. \A x \in Number, k \in 1..n : CheckedAdd(AlignUp(x, Alignment), sizes[k]) \in Number
  <2> SUFFICES ASSUME NEW x \in Number, NEW k \in 1..n
               PROVE  CheckedAdd(AlignUp(x, Alignment), sizes[k]) \in Number
    OBVIOUS
  <2>1. AlignUp(x, Alignment) \in Number
    BY AlignUpIs DEF Alignment
  <2>2. AlignUp(x, Alignment) \in Int /\ sizes[k] \in Int /\ sizes[k] \in Number
    BY <1>1, <2>1 DEF Number, None
  <2> QED BY <2>1, <2>2, CheckedAddIs
<1>2. step \in [1..n -> [Number -> Number]]
  BY <1>1, <1>0
<1>3. \A k \in 1..n, x \in Number : step[k][x] = CheckedAdd(AlignUp(x, Alignment), sizes[k])
  OBVIOUS
<1> HIDE DEF step
<1>4. PICK f \in [0..n -> Number] : f[0] = data /\ \A k \in 1..n : f[k] = step[k][f[k - 1]]
  <2>1. data \in Number
    OBVIOUS
  <2> HIDE DEF n, D
  <2>2. \E f \in [0..n -> Number] : Follows(f, n, data, step)
    BY <1>1, <1>2, <2>1, Recursion
  <2> QED BY <2>2 DEF Follows
<1>5. f = [k \in 0..n |-> IF k = 0 THEN data ELSE CheckedAdd(AlignUp(f[k - 1], Alignment), sizes[k])]
  <2> HIDE DEF n, D
  <2>1. ASSUME NEW k \in 0..n PROVE f[k] = IF k = 0 THEN data ELSE CheckedAdd(AlignUp(f[k - 1], Alignment), sizes[k])
    <3>1. CASE k = 0
      BY <1>4, <3>1
    <3>2. CASE k # 0
      <4>1. k \in 1..n /\ k - 1 \in 0..n
        BY <1>1, <3>2
      <4> QED BY <1>3, <1>4, <3>2, <4>1
    <3> QED BY <3>1, <3>2
  <2> QED BY <1>4, <2>1
<1>6. D = [k \in 0..n |-> IF k = 0 THEN data ELSE CheckedAdd(AlignUp(D[k - 1], Alignment), sizes[k])]
  BY <1>5
<1>7. Ends(sizes, data) = D
  BY DEF Ends
<1> HIDE DEF D, n
<1>8. D[0] = data /\ \A k \in 1..n : D[k] = CheckedAdd(AlignUp(D[k - 1], Alignment), sizes[k])
  <2>1. 0 \in 0..n /\ \A k \in 1..n : k \in 0..n /\ k # 0
    BY <1>1
  <2> QED BY <1>6, <2>1
<1> DEFINE P == {k \in 0..n : D[k] \in Number}
<1>9. 0 \in P
  BY <1>1, <1>8 DEF Number
<1>10. ASSUME NEW k \in 1..n, k - 1 \in P PROVE k \in P
  <2>1. k \in 0..n /\ k # 0 /\ D[k - 1] \in Number
    BY <1>1, <1>10
  <2>2. D[k] = CheckedAdd(AlignUp(D[k - 1], Alignment), sizes[k])
    BY <1>8
  <2> QED BY <1>1, <2>1, <2>2, <1>0
<1>11. \A k \in 0..n : D[k] \in Number
  <2> HIDE DEF P
  <2>1. \A k \in 0..n : k \in P
    BY <1>1, <1>9, <1>10, Upto
  <2> QED BY <2>1 DEF P
<1>12. D \in [0..n -> Number]
  BY <1>6, <1>11
<1> QED
  BY <1>7, <1>8, <1>12 DEF n

(* Payloads laid out one behind the other, when the last one ends at a      *)
(* place: each begins at a multiple of the alignment, behind the directory  *)
(* and behind those before it, and ends inside the file.                    *)
LEMMA AlignedAt ==
    ASSUME NEW value \in Number, AlignUp(value, Alignment) # None
    PROVE  /\ value \in Nat /\ AlignUp(value, Alignment) \in Nat /\ value <= AlignUp(value, Alignment)
           /\ AlignUp(value, Alignment) % Alignment = 0
<1>1. AlignUp(value, Alignment) \in Number /\ value \in Nat /\ value <= AlignUp(value, Alignment)
  BY AlignUpIs DEF Alignment
<1>2. AlignUp(value, Alignment) \in Nat
  BY <1>1 DEF Number
<1> DEFINE r == value % 64
<1>3. AlignUp(value, Alignment) = IF r = 0 THEN value ELSE CheckedAdd(value, 64 - r)
  BY <1>1 DEF AlignUp, Alignment, None
<1>4. CASE r = 0
  BY <1>1, <1>2, <1>3, <1>4 DEF Alignment
<1>5. CASE r # 0
  <2>1. AlignUp(value, Alignment) = value + (64 - r)
    <3>1. 64 - r \in Int /\ value \in Int
      BY <1>1
    <3>2. CheckedAdd(value, 64 - r) # None
      BY <1>3, <1>5
    <3> HIDE DEF r
    <3> QED BY <1>3, <1>5, <3>1, <3>2, CheckedAddIs
  <2>2. (value + (64 - r)) % 64 = 0
    BY <1>1
  <2> QED BY <1>1, <1>2, <2>1, <2>2 DEF Alignment
<1> QED
  BY <1>4, <1>5

LEMMA Placed ==
    ASSUME NEW sizes \in Seq(Number), NEW data \in Number, Ends(sizes, data)[Len(sizes)] # None
    PROVE  LET ends == Ends(sizes, data)
               n == Len(sizes)
               at(k) == AlignUp(ends[k - 1], Alignment)
           IN  /\ data \in Nat /\ ends[n] \in Nat /\ data <= ends[n]
               /\ \A k \in 1..n : /\ at(k) \in Nat /\ sizes[k] \in Nat /\ data <= at(k) /\ at(k) % Alignment = 0
                                  /\ CheckedAdd(at(k), sizes[k]) = at(k) + sizes[k]
                                  /\ at(k) + sizes[k] <= ends[n]
               /\ \A i, k \in 1..n : i < k => at(i) + sizes[i] <= at(k)
<1> DEFINE ends == Ends(sizes, data)
           n == Len(sizes)
           at(k) == AlignUp(ends[k - 1], Alignment)
<1>1. n \in Nat /\ \A k \in 1..n : sizes[k] \in Number
  BY LenProperties, ElementOfSeq
<1>2. /\ ends \in [0..n -> Number] /\ ends[0] = data
      /\ \A k \in 1..n : ends[k] = CheckedAdd(at(k), sizes[k])
  BY EndsAre
<1>3. ends[n] # None
  OBVIOUS
<1> HIDE DEF ends, n
<1>4. ASSUME NEW k \in 1..n, ends[k] # None
      PROVE  /\ ends[k - 1] \in Nat /\ at(k) \in Nat /\ ends[k - 1] <= at(k) /\ at(k) % Alignment = 0
             /\ sizes[k] \in Nat /\ ends[k] = at(k) + sizes[k]
  <2>1. ends[k - 1] \in Number /\ sizes[k] \in Number /\ ends[k] = CheckedAdd(at(k), sizes[k])
    BY <1>1, <1>2
  <2>2. at(k) \in Number
    BY <2>1, AlignUpIs DEF Alignment
  <2>3. at(k) # None /\ sizes[k] # None /\ ends[k] = at(k) + sizes[k]
    <3>1. at(k) \in Int /\ sizes[k] \in Int
      BY <2>1, <2>2 DEF Number, None
    <3> HIDE DEF at
    <3> QED BY <1>4, <2>1, <3>1, CheckedAddIs
  <2> QED BY <2>1, <2>3, AlignedAt DEF Number
<1> DEFINE Fits == {j \in 0..n : ends[n - j] # None}
<1>5. \A k \in 0..n : ends[k] \in Nat
  <2>1. 0 \in Fits
    BY <1>1, <1>3
  <2>2. ASSUME NEW j \in 1..n, j - 1 \in Fits PROVE j \in Fits
    <3> DEFINE k == n - (j - 1)
    <3>1. k \in 1..n /\ k - 1 = n - j /\ j \in 0..n /\ ends[k] # None
      BY <1>1, <2>2
    <3>2. ends[k - 1] \in Nat
      <4> HIDE DEF k
      <4> QED BY <1>4, <3>1
    <3> QED BY <3>1, <3>2 DEF None
  <2>3. \A j \in 0..n : j \in Fits
    <3> HIDE DEF Fits
    <3> QED BY <1>1, <2>1, <2>2, Upto
  <2>4. ASSUME NEW k \in 0..n PROVE ends[k] \in Nat
    <3>1. n - k \in 0..n /\ n - (n - k) = k
      BY <1>1
    <3>2. n - k \in Fits
      <4> HIDE DEF Fits
      <4> QED BY <2>3, <3>1
    <3>3. ends[k] # None
      BY <3>1, <3>2
    <3> QED BY <1>2, <3>3 DEF Number
  <2> QED BY <2>4
<1>6. \A k \in 1..n : /\ at(k) \in Nat /\ sizes[k] \in Nat /\ at(k) % Alignment = 0
                      /\ ends[k - 1] <= at(k) /\ ends[k] = at(k) + sizes[k]
                      /\ ends[k] = CheckedAdd(at(k), sizes[k])
  <2> SUFFICES ASSUME NEW k \in 1..n
               PROVE  /\ at(k) \in Nat /\ sizes[k] \in Nat /\ at(k) % Alignment = 0
                      /\ ends[k - 1] <= at(k) /\ ends[k] = at(k) + sizes[k]
                      /\ ends[k] = CheckedAdd(at(k), sizes[k])
    OBVIOUS
  <2>1. ends[k] # None
    BY <1>1, <1>5 DEF None
  <2> HIDE DEF at
  <2> QED BY <1>2, <1>4, <2>1
<1> HIDE DEF at
<1> DEFINE Grown == {k \in 0..n : \A i \in 0..k : ends[i] <= ends[k]}
<1>7. \A k \in 0..n : \A i \in 0..k : ends[i] <= ends[k]
  <2>1. 0 \in Grown
    <3>1. 0 \in 0..n /\ ends[0] \in Nat
      BY <1>1, <1>5
    <3>2. \A i \in 0..0 : i = 0
      OBVIOUS
    <3> QED BY <3>1, <3>2
  <2>2. ASSUME NEW k \in 1..n, k - 1 \in Grown PROVE k \in Grown
    <3>1. k \in 0..n /\ k - 1 \in 0..n
      BY <1>1
    <3>2. ends[k - 1] <= ends[k]
      BY <1>5, <1>6, <3>1
    <3>3. ASSUME NEW i \in 0..k PROVE ends[i] <= ends[k]
      <4>1. CASE i = k
        BY <1>5, <3>1, <4>1
      <4>2. CASE i # k
        <5>1. i \in 0..(k - 1) /\ i \in 0..n
          BY <1>1, <4>2
        <5>2. ends[i] <= ends[k - 1]
          BY <2>2, <5>1
        <5>3. ends[i] \in Nat /\ ends[k - 1] \in Nat /\ ends[k] \in Nat
          BY <1>5, <3>1, <5>1
        <5> QED BY <3>2, <5>2, <5>3
      <4> QED BY <4>1, <4>2
    <3> QED BY <3>1, <3>3
  <2>3. \A k \in 0..n : k \in Grown
    <3> HIDE DEF Grown
    <3> QED BY <1>1, <2>1, <2>2, Upto
  <2> QED BY <2>3
<1>8. data \in Nat /\ ends[n] \in Nat /\ data <= ends[n]
  <2>1. 0 \in 0..n /\ n \in 0..n
    BY <1>1
  <2> QED BY <1>2, <1>5, <1>7, <2>1
<1>9. ASSUME NEW k \in 1..n
      PROVE  /\ at(k) \in Nat /\ sizes[k] \in Nat /\ data <= at(k) /\ at(k) % Alignment = 0
             /\ CheckedAdd(at(k), sizes[k]) = at(k) + sizes[k] /\ at(k) + sizes[k] <= ends[n]
  <2>1. k - 1 \in 0..n /\ k \in 0..n /\ 0 \in 0..(k - 1) /\ n \in 0..n
    BY <1>1
  <2>2. ends[0] <= ends[k - 1] /\ ends[k] <= ends[n]
    BY <1>7, <2>1
  <2>3. ends[0] \in Nat /\ ends[k - 1] \in Nat
    BY <1>2, <1>5, <1>8, <2>1
  <2> QED BY <1>2, <1>6, <2>2, <2>3
<1>10. ASSUME NEW i \in 1..n, NEW k \in 1..n, i < k PROVE at(i) + sizes[i] <= at(k)
  <2>1. k - 1 \in 0..n /\ i \in 0..(k - 1) /\ i \in 0..n
    BY <1>1, <1>10
  <2>2. ends[i] <= ends[k - 1] /\ ends[i] \in Nat /\ ends[k - 1] \in Nat
    BY <1>5, <1>7, <2>1
  <2> QED BY <1>6, <2>2
<1> QED
  BY <1>8, <1>9, <1>10 DEF ends, n, at

-----------------------------------------------------------------------------
(* The files of ArtifactFile.                                               *)

Entry ==
    [name : Nat, encoding : Encodings, shape : Seq(Nat), group : Nat, transform : Nat, seed : Nat,
     checksum : Int, elements : Int, size : Int, offset : Int]

File ==
    [header : BOOLEAN, size : Int, directory : Int, data : Int, entries : Seq(Entry), payload : Seq(Int),
     extent : Seq(Int \X Int)]

\* The payloads have places, and no other file can be taken for NoFile.
Shaped(f) ==
    /\ f \in File /\ f.entries # <<>>
    /\ Len(f.payload) = Len(f.entries) /\ Len(f.extent) = Len(f.entries)
    /\ \A i \in DOMAIN f.entries : f.extent[i] = <<f.entries[i].offset, f.entries[i].size>>

\* Everything the reader asks of an entry but the checksum: of what it says
\* of its tensor, and of its place.
Described(e) ==
    /\ e.name \in NameLengths /\ Consistent(e)
    /\ e.size = PayloadSize(e.encoding, e.shape) /\ e.elements = Elements(e.shape)
Aligned(offset) == offset % Alignment = 0
Fits(f, e) ==
    /\ e.offset \in Nat /\ e.size \in Nat \ {0} /\ e.offset >= f.data
    /\ CheckedAdd(e.offset, e.size) = e.offset + e.size /\ e.offset + e.size <= f.size
SoundEntry(f, e) == Described(e) /\ Aligned(e.offset) /\ Fits(f, e)

\* A file as the writer lays it out, whatever has become of payloads and checksums.
Sound(f) ==
    /\ Shaped(f) /\ f.header /\ Distinct(f.entries) /\ DirectorySize(f.entries) = f.directory
    /\ CheckedAdd(HeaderSize, f.directory) # None /\ CheckedAdd(HeaderSize, f.directory) <= f.data
    /\ f.data \in Nat /\ HeaderSize <= f.size /\ f.data <= f.size
    /\ \A i \in DOMAIN f.entries : SoundEntry(f, f.entries[i])
    /\ \A i, j \in DOMAIN f.entries :
          i < j => f.entries[i].offset + f.entries[i].size <= f.entries[j].offset

(* The shape of a file gives every entry and every payload its type.        *)
LEMMA ShapedIs ==
    ASSUME NEW f, Shaped(f)
    PROVE  /\ Len(f.entries) \in Nat /\ DOMAIN f.entries = 1..Len(f.entries)
           /\ DOMAIN f.payload = DOMAIN f.entries /\ DOMAIN f.extent = DOMAIN f.entries
           /\ \A i \in DOMAIN f.entries : i \in Nat \ {0} /\ f.entries[i] \in Entry /\ f.payload[i] \in Int
           /\ f # NoFile
<1>1. f.entries \in Seq(Entry) /\ f.payload \in Seq(Int) /\ f.extent \in Seq(Int \X Int)
  BY DEF Shaped, File
<1>2. /\ Len(f.entries) \in Nat /\ DOMAIN f.entries = 1..Len(f.entries)
      /\ DOMAIN f.payload = 1..Len(f.payload) /\ DOMAIN f.extent = 1..Len(f.extent)
  BY <1>1, LenProperties
<1>3. DOMAIN f.payload = DOMAIN f.entries /\ DOMAIN f.extent = DOMAIN f.entries
  BY <1>2 DEF Shaped
<1>4. ASSUME NEW i \in DOMAIN f.entries
      PROVE  i \in Nat \ {0} /\ f.entries[i] \in Entry /\ f.payload[i] \in Int
  <2>1. i \in 1..Len(f.entries) /\ i \in DOMAIN f.payload
    BY <1>2, <1>3
  <2>2. f.entries[i] \in Entry /\ f.payload[i] \in Int
    BY <1>1, <1>2, <1>3, <2>1, ElementOfSeq
  <2> QED BY <1>2, <2>1, <2>2
<1>5. f # NoFile
  <2>1. NoFile.entries = <<>>
    BY DEF NoFile
  <2> QED BY <2>1 DEF Shaped
<1> QED
  BY <1>2, <1>3, <1>4, <1>5

(* A function over 1..n is a sequence of its values.                        *)
LEMMA IsSequence ==
    ASSUME NEW S, NEW n \in Nat, NEW s \in [1..n -> S]
    PROVE  s \in Seq(S) /\ Len(s) = n /\ DOMAIN s = 1..n
BY SeqDef, LenProperties

(* What the writer has found out about a plan it does not refuse.            *)
LEMMA NotRefused ==
    ASSUME NEW plan, ~Refused(plan)
    PROVE  /\ plan # <<>> /\ Distinct(Laid(plan).entries) /\ Laid(plan).size # None
           /\ \A i \in DOMAIN plan :
                 /\ plan[i].name \in NameLengths /\ Laid(plan).entries[i].size \notin {None, 0}
                 /\ Consistent(Laid(plan).entries[i])
<1> DEFINE f == Laid(plan)
<1>1. ~ \/ plan = <<>> \/ ~Distinct(f.entries) \/ f.size = None
        \/ \E i \in DOMAIN plan :
              plan[i].name \notin NameLengths \/ f.entries[i].size \in {None, 0} \/ ~Consistent(f.entries[i])
  BY Zenon DEF Refused
<1> HIDE DEF f
<1>2. plan # <<>> /\ Distinct(f.entries) /\ f.size # None
  BY <1>1, Zenon
<1>3. ASSUME NEW i \in DOMAIN plan
      PROVE  plan[i].name \in NameLengths /\ f.entries[i].size \notin {None, 0} /\ Consistent(f.entries[i])
  BY <1>1
<1> QED
  BY <1>2, <1>3, Zenon DEF f

(* The writer's layout is sound unless it is refused.                       *)
LEMMA LaidIsSound ==
    ASSUME NEW plan \in Plans, ~Refused(plan)
    PROVE  /\ Sound(Laid(plan))
           /\ \A i \in DOMAIN Laid(plan).entries :
                 Laid(plan).entries[i].checksum = 0 /\ Laid(plan).payload[i] = Zeros
<1> DEFINE f == Laid(plan)
           n == Len(plan)
           entry(x) ==
               [name |-> x.name, encoding |-> x.encoding, shape |-> x.shape, group |-> Group(x.encoding),
                transform |-> IF x.encoding \in Transformed THEN 128 ELSE 0,
                seed |-> IF x.encoding \in Transformed THEN Seed ELSE 0, checksum |-> 0,
                elements |-> Elements(x.shape), size |-> PayloadSize(x.encoding, x.shape), offset |-> 0]
           directory == DirectorySize(plan)
           front == CheckedAdd(HeaderSize, directory)
           data == AlignUp(front, Alignment)
           sizes == [i \in DOMAIN plan |-> entry(plan[i]).size]
           ends == Ends(sizes, data)
           at(i) == AlignUp(ends[i - 1], Alignment)
           entries == [i \in DOMAIN plan |-> [entry(plan[i]) EXCEPT !.offset = at(i)]]
<1>1. n \in Nat /\ DOMAIN plan = 1..n
      /\ \A i \in 1..n : plan[i].name \in Nat /\ plan[i].encoding \in Encodings /\ plan[i].shape \in Seq(Nat)
  <2>1. plan \in Seq([name : Nat, encoding : Encodings, shape : Seq(Nat)])
    BY ArtifactAssumption
  <2>2. n \in Nat /\ DOMAIN plan = 1..n
    BY <2>1, LenProperties
  <2>3. \A i \in 1..n : plan[i] \in [name : Nat, encoding : Encodings, shape : Seq(Nat)]
    BY <2>1, ElementOfSeq
  <2> QED BY <2>2, <2>3
<1>2. f = [header |-> TRUE, size |-> ends[n], directory |-> directory, data |-> data,
           entries |-> entries, payload |-> [i \in DOMAIN plan |-> Zeros],
           extent |-> [i \in DOMAIN plan |-> <<entries[i].offset, entries[i].size>>]]
  BY DEF Laid
<1> HIDE DEF f
<1>3. /\ f.header = TRUE /\ f.size = ends[n] /\ f.directory = directory /\ f.data = data
      /\ f.entries = entries /\ f.payload = [i \in DOMAIN plan |-> Zeros]
      /\ f.extent = [i \in DOMAIN plan |-> <<entries[i].offset, entries[i].size>>]
  BY <1>2
<1>4. /\ plan # <<>> /\ Distinct(f.entries) /\ f.size # None
      /\ \A i \in DOMAIN plan :
            plan[i].name \in NameLengths /\ f.entries[i].size \notin {None, 0} /\ Consistent(f.entries[i])
  BY NotRefused DEF f
<1> HIDE DEF n
<1>5. \A i \in 1..n : PayloadSize(plan[i].encoding, plan[i].shape) \in Number /\ Elements(plan[i].shape) \in Int
  <2>1. \A x \in Number : x \in Int
    BY DEF Number, None
  <2> QED BY <1>1, <2>1, PayloadSizeIs, ElementsAre
<1>6. \A i \in 1..n : sizes[i] = PayloadSize(plan[i].encoding, plan[i].shape)
  BY <1>1
<1>7. sizes \in Seq(Number) /\ Len(sizes) = n
  <2>1. sizes \in [1..n -> Number]
    BY <1>1, <1>5
  <2> HIDE DEF sizes
  <2> QED BY <1>1, <2>1, IsSequence
<1>8. directory \in Number
  <2> DEFINE s == [i \in DOMAIN plan |-> EntrySize(plan[i])]
  <2>1. ASSUME NEW i \in 1..n PROVE EntrySize(plan[i]) \in Nat
    <3>1. plan[i].name \in Nat /\ Len(plan[i].shape) \in Nat
      BY <1>1, LenProperties
    <3> QED BY <3>1 DEF EntrySize
  <2>2. s \in [1..n -> Nat]
    BY <1>1, <2>1
  <2> HIDE DEF s
  <2>3. s \in Seq(Nat)
    BY <1>1, <2>2, IsSequence
  <2> QED BY <2>3, CheckedSumIs DEF DirectorySize, s
<1>9. front \in Number /\ (front # None => directory \in Nat /\ front = HeaderSize + directory)
  <2>1. HeaderSize \in Number /\ HeaderSize \in Int /\ directory \in Int
    BY <1>8 DEF HeaderSize, Number, None
  <2> HIDE DEF directory
  <2> QED BY <1>8, <2>1, CheckedAddIs DEF Number
<1> HIDE DEF directory, front
<1>10. data \in Number
  BY <1>9, AlignUpIs DEF Alignment
<1>11. ends[Len(sizes)] # None
  <2> HIDE DEF sizes, data, ends, entries
  <2>1. f.size = ends[n] /\ f.size # None /\ Len(sizes) = n
    BY <1>3, <1>4, <1>7, Zenon
  <2> QED BY ONLY <2>1, Zenon
<1>12. /\ data \in Nat /\ ends[n] \in Nat /\ data <= ends[n]
       /\ \A k \in 1..n : /\ at(k) \in Nat /\ sizes[k] \in Nat /\ data <= at(k) /\ at(k) % Alignment = 0
                          /\ CheckedAdd(at(k), sizes[k]) = at(k) + sizes[k]
                          /\ at(k) + sizes[k] <= ends[n]
       /\ \A i, k \in 1..n : i < k => at(i) + sizes[i] <= at(k)
  <2> HIDE DEF sizes, data
  <2> QED BY <1>7, <1>10, <1>11, Placed
<1>13. front \in Nat /\ front = HeaderSize + directory /\ directory \in Nat /\ front <= data
  <2>1. data # None
    BY <1>12 DEF None
  <2>2. front \in Nat /\ front <= data
    BY <1>9, <2>1, AlignedAt
  <2>3. front # None
    BY <2>2 DEF None
  <2> QED BY <1>9, <2>2, <2>3
<1> HIDE DEF sizes, data, ends
<1>14. ASSUME NEW i \in 1..n
       PROVE  /\ entries[i] \in Entry /\ entries[i].name = plan[i].name /\ entries[i].checksum = 0
              /\ entries[i].encoding = plan[i].encoding /\ entries[i].shape = plan[i].shape
              /\ entries[i].size = sizes[i] /\ entries[i].offset = at(i)
              /\ entries[i].elements = Elements(plan[i].shape)
  <2>1. at(i) \in Int /\ sizes[i] \in Int
    BY <1>12
  <2>2. Group(plan[i].encoding) \in Nat
    BY DEF Group
  <2>3. entries[i] =
            [name |-> plan[i].name, encoding |-> plan[i].encoding, shape |-> plan[i].shape,
             group |-> Group(plan[i].encoding),
             transform |-> IF plan[i].encoding \in Transformed THEN 128 ELSE 0,
             seed |-> IF plan[i].encoding \in Transformed THEN Seed ELSE 0, checksum |-> 0,
             elements |-> Elements(plan[i].shape), size |-> PayloadSize(plan[i].encoding, plan[i].shape),
             offset |-> at(i)]
    BY <1>1
  <2> HIDE DEF entries, at
  <2> DEFINE transform == IF plan[i].encoding \in Transformed THEN 128 ELSE 0
             seed == IF plan[i].encoding \in Transformed THEN Seed ELSE 0
  <2>4. transform \in Nat /\ seed \in Nat
    BY DEF Seed
  <2> HIDE DEF transform, seed
  <2>5. /\ plan[i].name \in Nat /\ plan[i].encoding \in Encodings /\ plan[i].shape \in Seq(Nat)
        /\ Elements(plan[i].shape) \in Int /\ PayloadSize(plan[i].encoding, plan[i].shape) = sizes[i]
    BY <1>1, <1>5, <1>6
  <2> QED BY ONLY <2>1, <2>2, <2>3, <2>4, <2>5 DEF Entry, transform, seed
<1>15. entries \in [1..n -> Entry]
  <2>1. entries = [i \in 1..n |-> entries[i]]
    BY <1>1
  <2> HIDE DEF entries, at
  <2> QED BY <1>14, <2>1
<1> HIDE DEF entries
<1>16. entries \in Seq(Entry) /\ Len(entries) = n /\ DOMAIN entries = 1..n
  BY <1>1, <1>15, IsSequence
<1>17. f.payload \in Seq(Int) /\ Len(f.payload) = n /\ \A i \in 1..n : f.payload[i] = Zeros
  <2>1. f.payload \in [1..n -> Int] /\ \A i \in 1..n : f.payload[i] = Zeros
    BY <1>1, <1>3 DEF Zeros
  <2> QED BY <1>1, <2>1, IsSequence
<1>18. /\ f.extent \in Seq(Int \X Int) /\ Len(f.extent) = n
       /\ \A i \in 1..n : f.extent[i] = <<entries[i].offset, entries[i].size>>
  <2>1. \A i \in 1..n : entries[i].offset \in Int /\ entries[i].size \in Int
    BY <1>14 DEF Entry
  <2>2. f.extent \in [1..n -> Int \X Int]
    BY <1>1, <1>3, <2>1
  <2> QED BY <1>1, <1>3, <2>2, IsSequence
<1>19. n # 0
  <2>1. plan \in Seq([name : Nat, encoding : Encodings, shape : Seq(Nat)])
    BY ArtifactAssumption
  <2>2. plan # <<>>
    BY <1>4
  <2>3. n = Len(plan)
    BY DEF n
  <2> QED BY ONLY <2>1, <2>2, <2>3, EmptySeq
<1>20. Shaped(f)
  <2>1. f \in File
    <3>1. ends[n] \in Int /\ directory \in Int /\ data \in Int
      BY <1>12, <1>13
    <3>2. \A x, y : x \in Seq(Int) /\ y \in Seq(Int \X Int) =>
              [header |-> TRUE, size |-> ends[n], directory |-> directory, data |-> data,
               entries |-> entries, payload |-> x, extent |-> y] \in File
      BY <1>16, <3>1 DEF File
    <3> QED BY <1>2, <1>3, <1>17, <1>18, <3>2
  <2>2. f.entries # <<>>
    BY <1>3, <1>16, <1>19, EmptySeq
  <2> QED BY <1>3, <1>16, <1>17, <1>18, <2>1, <2>2 DEF Shaped
<1>21. ASSUME NEW i \in 1..n PROVE SoundEntry(f, entries[i])
  <2> DEFINE e == entries[i]
  <2>1. /\ e.name = plan[i].name /\ e.size = sizes[i] /\ e.offset = at(i)
        /\ e.encoding = plan[i].encoding /\ e.shape = plan[i].shape /\ e.elements = Elements(plan[i].shape)
    BY <1>14
  <2>2. plan[i].name \in NameLengths /\ e.size # 0 /\ Consistent(e)
    <3> HIDE DEF at
    <3>1. i \in DOMAIN plan /\ f.entries = entries
      BY <1>1, <1>3
    <3>2. plan[i].name \in NameLengths /\ f.entries[i].size # 0 /\ Consistent(f.entries[i])
      BY ONLY <1>4, <3>1
    <3> QED BY ONLY <3>1, <3>2
  <2>3. sizes[i] = PayloadSize(plan[i].encoding, plan[i].shape)
    BY <1>6
  <2>4. /\ at(i) \in Nat /\ sizes[i] \in Nat /\ data <= at(i) /\ CheckedAdd(at(i), sizes[i]) = at(i) + sizes[i]
        /\ at(i) + sizes[i] <= ends[n]
    BY <1>12
  <2>5. Aligned(at(i))
    BY <1>12 DEF Aligned
  <2>6. f.data = data /\ f.size = ends[n] /\ data \in Nat
    BY <1>3, <1>12
  <2> HIDE DEF at, e
  <2>7. Described(e)
    BY ONLY <2>1, <2>2, <2>3 DEF Described
  <2>8. Fits(f, e)
    BY ONLY <2>1, <2>2, <2>4, <2>6 DEF Fits
  <2>9. SoundEntry(f, e)
    BY ONLY <2>1, <2>5, <2>7, <2>8 DEF SoundEntry
  <2> QED BY <2>9 DEF e
<1>22. DirectorySize(entries) = directory
  <2>1. \A i \in 1..n : EntrySize(entries[i]) = EntrySize(plan[i])
    BY <1>14 DEF EntrySize
  <2>2. [i \in DOMAIN entries |-> EntrySize(entries[i])] = [i \in DOMAIN plan |-> EntrySize(plan[i])]
    BY <1>1, <1>16, <2>1
  <2> QED BY <2>2 DEF DirectorySize, directory
<1>23. ASSUME NEW i \in 1..n, NEW j \in 1..n, i < j
       PROVE  entries[i].offset + entries[i].size <= entries[j].offset
  BY <1>12, <1>14, <1>23
<1>24. HeaderSize <= ends[n] /\ front # None
  BY <1>12, <1>13 DEF HeaderSize, None
<1>25. Sound(f)
  <2> HIDE DEF at
  <2>1. f.header /\ f.entries = entries /\ f.directory = directory /\ f.data = data /\ f.size = ends[n]
    BY <1>3
  <2>2. CheckedAdd(HeaderSize, f.directory) # None /\ CheckedAdd(HeaderSize, f.directory) <= f.data
    BY <1>13, <1>24, <2>1 DEF front
  <2>3. f.data \in Nat /\ HeaderSize <= f.size /\ f.data <= f.size
    BY <1>12, <1>24, <2>1
  <2>4. DOMAIN f.entries = 1..n
    BY <1>16, <2>1
  <2>5. /\ \A i \in DOMAIN f.entries : SoundEntry(f, f.entries[i])
        /\ \A i, j \in DOMAIN f.entries :
              i < j => f.entries[i].offset + f.entries[i].size <= f.entries[j].offset
    BY <1>21, <1>23, <2>1, <2>4, Zenon
  <2> QED BY ONLY <1>4, <1>20, <1>22, <2>1, <2>2, <2>3, <2>5 DEF Sound
<1> QED
  BY <1>3, <1>14, <1>16, <1>17, <1>25 DEF f

(* Payloads and checksums may change in a sound file.                       *)
LEMMA SoundSame ==
    ASSUME NEW f, Sound(f), NEW g, Shaped(g), g.header = f.header, g.size = f.size, g.data = f.data,
           g.directory = f.directory, DOMAIN g.entries = DOMAIN f.entries,
           \A i \in DOMAIN f.entries : \E c : g.entries[i] = [f.entries[i] EXCEPT !.checksum = c]
    PROVE  Sound(g)
<1>1. ASSUME NEW i \in DOMAIN f.entries
      PROVE  LET d == f.entries[i]  e == g.entries[i] IN
             /\ e.name = d.name /\ e.encoding = d.encoding /\ e.shape = d.shape /\ e.group = d.group
             /\ e.transform = d.transform /\ e.seed = d.seed /\ e.elements = d.elements
             /\ e.size = d.size /\ e.offset = d.offset
  <2>1. f.entries[i] \in Entry
    BY ShapedIs DEF Sound
  <2>2. PICK c : g.entries[i] = [f.entries[i] EXCEPT !.checksum = c]
    OBVIOUS
  <2> DEFINE d == f.entries[i]
             e == g.entries[i]
  <2>3. d \in Entry /\ e = [d EXCEPT !.checksum = c]
    BY <2>1, <2>2
  <2> HIDE DEF d, e
  <2> SUFFICES /\ e.name = d.name /\ e.encoding = d.encoding /\ e.shape = d.shape /\ e.group = d.group
               /\ e.transform = d.transform /\ e.seed = d.seed /\ e.elements = d.elements
               /\ e.size = d.size /\ e.offset = d.offset
    BY DEF d, e
  <2> QED BY ONLY <2>3 DEF Entry
<1>2. ASSUME NEW i \in DOMAIN f.entries PROVE SoundEntry(g, g.entries[i])
  <2>1. SoundEntry(f, f.entries[i])
    BY DEF Sound
  <2> DEFINE d == f.entries[i]
             e == g.entries[i]
  <2>2. /\ e.name = d.name /\ e.encoding = d.encoding /\ e.shape = d.shape /\ e.group = d.group
        /\ e.transform = d.transform /\ e.seed = d.seed /\ e.elements = d.elements
        /\ e.size = d.size /\ e.offset = d.offset
    BY <1>1
  <2> HIDE DEF d, e
  <2>3. Consistent(d) => Consistent(e)
    BY ONLY <2>2 DEF Consistent
  <2>4. SoundEntry(f, d)
    BY <2>1 DEF d
  <2>5. SoundEntry(g, e)
    <3>1. Described(d) /\ Aligned(d.offset) /\ Fits(f, d)
      BY ONLY <2>4 DEF SoundEntry
    <3>2. Described(e)
      BY ONLY <2>2, <2>3, <3>1 DEF Described
    <3>3. Fits(g, e)
      BY ONLY <2>2, <3>1, g.size = f.size, g.data = f.data DEF Fits
    <3> QED BY ONLY <2>2, <3>1, <3>2, <3>3 DEF SoundEntry
  <2> QED BY <2>5 DEF e
<1>3. Distinct(g.entries)
  <2>1. f.entries \in Seq(Entry) /\ g.entries \in Seq(Entry)
    BY DEF Sound, Shaped, File
  <2>2. Len(g.entries) = Len(f.entries)
    BY <2>1, LenProperties
  <2>3. {g.entries[i].name : i \in DOMAIN g.entries} = {f.entries[i].name : i \in DOMAIN f.entries}
    BY <1>1
  <2> QED BY <2>2, <2>3 DEF Sound, Distinct
<1>4. DirectorySize(g.entries) = DirectorySize(f.entries)
  <2>1. \A i \in DOMAIN f.entries : EntrySize(g.entries[i]) = EntrySize(f.entries[i])
    BY <1>1 DEF EntrySize
  <2>2. [i \in DOMAIN g.entries |-> EntrySize(g.entries[i])] = [i \in DOMAIN f.entries |-> EntrySize(f.entries[i])]
    BY <2>1
  <2> QED BY <2>2 DEF DirectorySize
<1>5. ASSUME NEW i \in DOMAIN f.entries, NEW j \in DOMAIN f.entries, i < j
      PROVE  g.entries[i].offset + g.entries[i].size <= g.entries[j].offset
  <2>1. f.entries[i].offset + f.entries[i].size <= f.entries[j].offset
    BY <1>5 DEF Sound
  <2> QED BY <1>1, <2>1
<1>6. /\ f.header /\ DirectorySize(f.entries) = f.directory
      /\ CheckedAdd(HeaderSize, f.directory) # None /\ CheckedAdd(HeaderSize, f.directory) <= f.data
      /\ f.data \in Nat /\ HeaderSize <= f.size /\ f.data <= f.size
  BY DEF Sound
<1> QED
  BY <1>2, <1>3, <1>4, <1>5, <1>6 DEF Sound

(* With its checksums, a sound file is accepted.                            *)
LEMMA SoundIsAccepted ==
    ASSUME NEW f, Sound(f), \A i \in DOMAIN f.entries : f.entries[i].checksum # 0
    PROVE  Accepted(f)
<1>1. /\ Len(f.entries) \in Nat /\ DOMAIN f.entries = 1..Len(f.entries)
      /\ \A i \in DOMAIN f.entries : SoundEntry(f, f.entries[i])
  BY ShapedIs DEF Sound
<1>2. ASSUME NEW i \in DOMAIN f.entries PROVE EntryAccepted(f, f.entries[i])
  <2> DEFINE e == f.entries[i]
  <2>1. SoundEntry(f, e) /\ e.checksum # 0
    BY <1>1
  <2> HIDE DEF e
  <2>2. EntryAccepted(f, e)
    <3>1. Described(e) /\ Aligned(e.offset) /\ Fits(f, e)
      BY <2>1 DEF SoundEntry
    <3>2. e.offset >= f.data /\ CheckedAdd(e.offset, e.size) # None /\ CheckedAdd(e.offset, e.size) <= f.size
      BY ONLY <3>1 DEF Fits, None
    <3>3. /\ e.name \in NameLengths /\ Consistent(e)
          /\ e.size = PayloadSize(e.encoding, e.shape) /\ e.elements = Elements(e.shape)
      BY ONLY <3>1 DEF Described
    <3>4. e.offset % Alignment = 0
      BY ONLY <3>1, Zenon DEF Aligned
    <3> QED BY <2>1, <3>2, <3>3, <3>4 DEF EntryAccepted
  <2> QED BY <2>2 DEF e
<1>3. ASSUME NEW i \in DOMAIN f.entries, NEW j \in DOMAIN f.entries, Neighbours(f.entries, i, j)
      PROVE  f.entries[j].offset >= f.entries[i].offset + f.entries[i].size
  <2>1. \A k \in DOMAIN f.entries : k \in Nat /\ f.entries[k].offset \in Nat /\ f.entries[k].size \in Nat \ {0}
    <3>1. \A k \in DOMAIN f.entries : k \in Nat
      BY <1>1
    <3>2. \A k \in DOMAIN f.entries : f.entries[k].offset \in Nat /\ f.entries[k].size \in Nat \ {0}
      BY <1>1 DEF SoundEntry, Fits
    <3> QED BY <3>1, <3>2
  <2>2. \A k, m \in DOMAIN f.entries : k < m => f.entries[k].offset + f.entries[k].size <= f.entries[m].offset
    BY DEF Sound
  <2>3. f.entries[i].offset < f.entries[j].offset \/ (f.entries[i].offset = f.entries[j].offset /\ i < j)
    BY <1>3 DEF Neighbours, Before
  <2>4. CASE i < j
    BY <2>1, <2>2, <2>4
  <2>5. CASE ~(i < j)
    <3>1. f.entries[i].offset < f.entries[j].offset
      BY <2>3, <2>5
    <3>2. i # j
      BY <2>1, <3>1
    <3>3. j < i
      BY <2>1, <2>5, <3>2
    <3>4. f.entries[j].offset + f.entries[j].size <= f.entries[i].offset
      BY <2>2, <3>3
    <3> QED BY <2>1, <3>1, <3>4
  <2> QED BY <2>4, <2>5
<1>4. /\ f.entries # <<>> /\ f.header /\ Distinct(f.entries) /\ DirectorySize(f.entries) = f.directory
      /\ CheckedAdd(HeaderSize, f.directory) # None /\ CheckedAdd(HeaderSize, f.directory) <= f.data
      /\ f.data <= f.size /\ f.size >= HeaderSize
  <2>1. HeaderSize <= f.size /\ f.size \in Int
    BY DEF Sound, Shaped, File
  <2> QED BY <2>1 DEF Sound, Shaped, HeaderSize
<1> QED
  BY <1>2, <1>3, <1>4 DEF Accepted

(* What an accepted entry says of its place.                                *)
LEMMA EntryInside ==
    ASSUME NEW f, f.size \in Int, NEW e \in Entry, EntryAccepted(f, e)
    PROVE  e.size \in Nat /\ e.offset >= f.data /\ e.offset + e.size <= f.size
<1>1. e.offset \in Int /\ e.size \in Int /\ e.encoding \in Encodings /\ e.shape \in Seq(Nat)
  BY DEF Entry
<1>2. e.size = PayloadSize(e.encoding, e.shape)
  BY Zenon DEF EntryAccepted
<1>3. e.size \in Number
  BY ONLY <1>1, <1>2, PayloadSizeIs, ArtifactAssumption, WordAssumption
<1>4. CheckedAdd(e.offset, e.size) # None /\ CheckedAdd(e.offset, e.size) <= f.size /\ e.offset >= f.data
  BY Zenon DEF EntryAccepted
<1>5. e.size # None /\ CheckedAdd(e.offset, e.size) = e.offset + e.size
  BY <1>1, <1>4, CheckedAddIs
<1> QED
  BY ONLY <1>1, <1>3, <1>4, <1>5, f.size \in Int DEF Number

(* In an accepted file every tensor has a place of its own: between it and   *)
(* any later one is its neighbour, the first of those behind it.            *)
LEMMA AcceptedApart ==
    ASSUME NEW f \in File, Accepted(f)
    PROVE  \A i, j \in DOMAIN f.entries :
              /\ HeaderSize + DirectorySize(f.entries) <= f.entries[i].offset
              /\ f.entries[i].offset + f.entries[i].size <= f.size
              /\ i # j => \/ f.entries[i].offset + f.entries[i].size <= f.entries[j].offset
                          \/ f.entries[j].offset + f.entries[j].size <= f.entries[i].offset
<1> DEFINE es == f.entries
           off(i) == es[i].offset
<1>1. /\ f.size \in Int /\ f.data \in Int /\ f.directory \in Int /\ es \in Seq(Entry)
      /\ DOMAIN es = 1..Len(es) /\ Len(es) \in Nat /\ \A i \in DOMAIN es : es[i] \in Entry
  <2>1. f.size \in Int /\ f.data \in Int /\ f.directory \in Int /\ es \in Seq(Entry)
    BY DEF File
  <2>2. DOMAIN es = 1..Len(es) /\ Len(es) \in Nat
    BY <2>1, LenProperties
  <2> HIDE DEF es
  <2>3. \A i \in DOMAIN es : es[i] \in Entry
    BY <2>1, <2>2, ElementOfSeq
  <2> QED BY <2>1, <2>2, <2>3
<1>2. /\ CheckedAdd(HeaderSize, f.directory) # None /\ CheckedAdd(HeaderSize, f.directory) <= f.data
      /\ DirectorySize(es) = f.directory /\ \A i \in DOMAIN es : EntryAccepted(f, es[i])
      /\ \A i, j \in DOMAIN es : Neighbours(es, i, j) => es[j].offset >= es[i].offset + es[i].size
  BY DEF Accepted
<1> HIDE DEF es
<1>3. HeaderSize + DirectorySize(es) <= f.data /\ f.data \in Nat
  <2>1. HeaderSize \in Int
    BY DEF HeaderSize
  <2>2. CheckedAdd(HeaderSize, f.directory) = HeaderSize + f.directory /\ f.directory # None
    BY <1>1, <1>2, <2>1, CheckedAddIs
  <2> DEFINE s == [i \in DOMAIN es |-> EntrySize(es[i])]
  <2>3. ASSUME NEW i \in DOMAIN es PROVE EntrySize(es[i]) \in Nat
    <3>1. es[i].name \in Nat /\ es[i].shape \in Seq(Nat)
      BY <1>1 DEF Entry
    <3>2. Len(es[i].shape) \in Nat
      BY <3>1, LenProperties
    <3> QED BY <3>1, <3>2 DEF EntrySize
  <2>4. s \in [1..Len(es) -> Nat]
    BY <1>1, <2>3
  <2> HIDE DEF s
  <2>5. s \in Seq(Nat)
    BY <1>1, <2>4, IsSequence
  <2>6. DirectorySize(es) \in Number
    BY <2>5, CheckedSumIs DEF DirectorySize, s
  <2>7. f.directory \in Nat
    BY <1>2, <2>2, <2>6 DEF Number
  <2> QED BY <1>1, <1>2, <2>2, <2>7 DEF HeaderSize
<1>4. \A i \in DOMAIN es : off(i) \in Nat /\ es[i].size \in Nat /\ off(i) >= f.data /\ off(i) + es[i].size <= f.size
  <2> SUFFICES ASSUME NEW i \in DOMAIN es
               PROVE  off(i) \in Nat /\ es[i].size \in Nat /\ off(i) >= f.data /\ off(i) + es[i].size <= f.size
    OBVIOUS
  <2>1. es[i] \in Entry /\ EntryAccepted(f, es[i]) /\ es[i].offset \in Int
    BY <1>1, <1>2 DEF Entry
  <2>2. es[i].size \in Nat /\ es[i].offset >= f.data /\ es[i].offset + es[i].size <= f.size
    BY <1>1, <2>1, EntryInside
  <2> QED BY <1>3, <2>1, <2>2
<1>5. ASSUME NEW i \in DOMAIN es, NEW j \in DOMAIN es, Before(es, i, j)
      PROVE  off(i) + es[i].size <= off(j)
  <2> DEFINE S == {k \in DOMAIN es : Before(es, i, k)}
             O == {off(k) : k \in S}
  <2>1. PICK o \in O : \A x \in O : o <= x
    <3>1. O \in SUBSET Nat
      BY <1>4
    <3>2. off(j) \in O
      BY <1>5
    <3> HIDE DEF O
    <3> QED BY <3>1, <3>2, LeastExists
  <2> DEFINE K == {k \in S : off(k) = o}
  <2>2. PICK k \in K : \A m \in K : k <= m
    <3>1. K \in SUBSET Nat
      BY <1>1
    <3>2. K # {}
      OBVIOUS
    <3> HIDE DEF K
    <3> QED BY <3>1, <3>2, LeastExists
  <2>3. k \in DOMAIN es /\ Before(es, i, k) /\ off(k) = o /\ k \in Nat
    BY <1>1
  <2>4. ASSUME NEW m \in DOMAIN es, Before(es, i, m), Before(es, m, k) PROVE FALSE
    <3>1. m \in S /\ o <= off(m) /\ m \in Nat /\ off(m) \in Nat /\ off(k) \in Nat
      BY <1>1, <1>4, <2>1, <2>3, <2>4
    <3>2. off(m) = o /\ m < k
      BY <2>3, <2>4, <3>1 DEF Before
    <3>3. m \in K
      BY <3>1, <3>2
    <3>4. k <= m
      <4> HIDE DEF K
      <4> QED BY <2>2, <3>3
    <3> QED BY <2>3, <3>1, <3>2, <3>4
  <2>5. Neighbours(es, i, k)
    BY <2>3, <2>4 DEF Neighbours
  <2>6. off(k) >= off(i) + es[i].size
    BY <1>2, <2>3, <2>5
  <2>7. o <= off(j) /\ off(j) \in Nat
    BY <1>4, <1>5, <2>1
  <2>8. off(i) \in Nat /\ es[i].size \in Nat /\ off(k) \in Nat
    BY <1>4, <2>3
  <2> HIDE DEF off, O, K, S
  <2> QED BY <2>3, <2>6, <2>7, <2>8
<1>6. ASSUME NEW i \in DOMAIN es, NEW j \in DOMAIN es, i # j PROVE Before(es, i, j) \/ Before(es, j, i)
  <2>1. off(i) \in Nat /\ off(j) \in Nat /\ i \in Nat /\ j \in Nat
    BY <1>1, <1>4
  <2> QED BY <1>6, <2>1 DEF Before
<1>7. ASSUME NEW i \in DOMAIN es, NEW j \in DOMAIN es
      PROVE  /\ HeaderSize + DirectorySize(es) <= off(i) /\ off(i) + es[i].size <= f.size
             /\ i # j => off(i) + es[i].size <= off(j) \/ off(j) + es[j].size <= off(i)
  <2>1. HeaderSize + DirectorySize(es) <= off(i)
    <3>1. DirectorySize(es) \in Int
      BY <1>1, <1>2
    <3> QED BY <1>3, <1>4, <3>1 DEF HeaderSize
  <2> QED BY <1>4, <1>5, <1>6, <2>1
<1> QED
  BY <1>7 DEF es

-----------------------------------------------------------------------------
(* What a reader gets.                                                      *)

(* A read gets the data of some tensor that lay there, or something else.   *)
LEMMA ContentIs ==
    ASSUME NEW f, NEW e
    PROVE  \/ Content(f, e) = Damaged /\
                 (e.offset + e.size > f.size \/ ~\E j \in DOMAIN f.payload : f.extent[j] = <<e.offset, e.size>>)
           \/ \E j \in DOMAIN f.payload : f.extent[j] = <<e.offset, e.size>> /\ Content(f, e) = f.payload[j]
<1> DEFINE there == {j \in DOMAIN f.payload : f.extent[j] = <<e.offset, e.size>>}
           c == CHOOSE j \in there : TRUE
<1>1. Content(f, e) = IF there = {} \/ e.offset + e.size > f.size THEN Damaged ELSE f.payload[c]
  BY DEF Content
<1>2. there # {} => c \in there
  OBVIOUS
<1> HIDE DEF c
<1> QED
  BY <1>1, <1>2

\* The checksums of a file are of its payloads, and there are none before every
\* payload is there.
WellKept(f) ==
    /\ Shaped(f)
    /\ \A i \in DOMAIN f.entries : f.entries[i].checksum \in {0, i, Torn} /\ f.payload[i] \in {Zeros, Torn, i}
    /\ (\E i \in DOMAIN f.entries : f.entries[i].checksum # 0) => \A j \in DOMAIN f.entries : f.payload[j] = j

\* A file that was finished.
Finished(f) ==
    Sound(f) /\ \A i \in DOMAIN f.entries : f.entries[i].checksum = i /\ f.payload[i] = i

LEMMA FinishedIsKept == ASSUME NEW f, Finished(f) PROVE WellKept(f)
BY DEF Finished, WellKept, Sound

(* What is finished can be opened and read completely.                      *)
LEMMA FinishedIsWhole ==
    ASSUME NEW f, Finished(f)
    PROVE  Accepted(f) /\ \A i \in DOMAIN f.entries : Delivers(f, i) /\ Content(f, f.entries[i]) = i
<1>1. /\ Sound(f) /\ Shaped(f) /\ DOMAIN f.payload = DOMAIN f.entries
      /\ \A i \in DOMAIN f.entries : i \in Nat \ {0} /\ f.entries[i] \in Entry
  BY ShapedIs DEF Finished, Sound
<1>2. Accepted(f)
  BY <1>1, SoundIsAccepted DEF Finished
<1>3. ASSUME NEW i \in DOMAIN f.entries PROVE Content(f, f.entries[i]) = i
  <2> DEFINE e == f.entries[i]
  <2>1. e.offset \in Nat /\ e.size \in Nat \ {0} /\ e.offset + e.size <= f.size /\ f.size \in Int
    <3>1. f.size \in Int
      BY <1>1 DEF Shaped, File
    <3>2. SoundEntry(f, e)
      BY <1>1 DEF Sound
    <3> HIDE DEF e
    <3>3. e.offset \in Nat /\ e.size \in Nat \ {0} /\ e.offset + e.size <= f.size
      BY ONLY <3>2 DEF SoundEntry, Fits
    <3> QED BY <3>1, <3>3
  <2>2. i \in DOMAIN f.payload /\ f.extent[i] = <<e.offset, e.size>>
    BY <1>1 DEF Shaped
  <2>3. ~(e.offset + e.size > f.size)
    BY <2>1
  <2>4. PICK j \in DOMAIN f.payload : f.extent[j] = <<e.offset, e.size>> /\ Content(f, e) = f.payload[j]
    <3> HIDE DEF e
    <3> QED BY <2>2, <2>3, ContentIs
  <2>5. j \in DOMAIN f.entries /\ f.extent[j] = <<f.entries[j].offset, f.entries[j].size>>
    BY <1>1 DEF Shaped
  <2>6. f.entries[j].offset = e.offset
    BY <2>4, <2>5
  <2>7. j = i
    <3>1. i \in Nat /\ j \in Nat /\ f.entries[j].offset \in Nat /\ f.entries[j].size \in Nat \ {0}
      <4>1. SoundEntry(f, f.entries[j])
        BY <1>1, <2>5, Zenon DEF Sound
      <4>2. f.entries[j].offset \in Nat /\ f.entries[j].size \in Nat \ {0}
        BY ONLY <4>1 DEF SoundEntry, Fits
      <4> QED BY <1>1, <2>5, <4>2
    <3>2. i < j => e.offset + e.size <= f.entries[j].offset
      BY <1>1, <2>5 DEF Sound
    <3>3. j < i => f.entries[j].offset + f.entries[j].size <= e.offset
      BY <1>1, <2>5 DEF Sound
    <3> HIDE DEF e
    <3> QED BY <2>1, <2>6, <3>1, <3>2, <3>3
  <2> QED BY <2>4, <2>7 DEF Finished
<1>4. \A i \in DOMAIN f.entries : Delivers(f, i)
  BY <1>3 DEF Delivers, Finished
<1> QED
  BY <1>2, <1>3, <1>4

\* How an altered file f differs from g, as far as the delivery of payloads goes: its
\* checksums are those of g, or its payloads are and one entry's checksum is gone or
\* is not a payload's.
PayloadsAltered(f, g) ==
    /\ \A i \in DOMAIN g.entries : f.entries[i].checksum = g.entries[i].checksum
    /\ \A j \in DOMAIN g.payload : f.payload[j] \in {g.payload[j], Damaged}
ChecksumAltered(f, g) ==
    /\ f.payload = g.payload
    /\ \A i \in DOMAIN g.entries :
          \/ f.entries[i].checksum = g.entries[i].checksum
          \/ /\ f.entries[i].checksum \in {0, Damaged}
             /\ f.entries[i].offset = g.entries[i].offset /\ f.entries[i].size = g.entries[i].size

(* An entry with one thing changed.                                         *)
LEMMA EntryAlteredIs ==
    ASSUME NEW g, Shaped(g), NEW d \in Entry, NEW e \in EntryAltered(g, d)
    PROVE  /\ e \in Entry
           /\ \/ e.checksum = d.checksum
              \/ e.checksum \in {0, Damaged} /\ e.offset = d.offset /\ e.size = d.size
<1>1. /\ d.name \in Nat /\ d.encoding \in Encodings /\ d.shape \in Seq(Nat) /\ d.group \in Nat
      /\ d.transform \in Nat /\ d.seed \in Nat /\ d.checksum \in Int /\ d.elements \in Int
      /\ d.size \in Int /\ d.offset \in Int
  BY DEF Entry
<1>2. CASE e \in {[d EXCEPT !.checksum = c] : c \in {0, Damaged}}
  <2>1. PICK c \in {0, Damaged} : e = [d EXCEPT !.checksum = c]
    BY <1>2
  <2>2. c \in Int
    BY DEF Damaged
  <2> HIDE DEF Damaged
  <2>3. e \in Entry
    BY <2>1, <2>2 DEF Entry
  <2>4. e.checksum = c /\ e.offset = d.offset /\ e.size = d.size
    BY <2>1 DEF Entry
  <2> QED BY <2>3, <2>4
<1>3. CASE e \in {[d EXCEPT !.encoding = c] : c \in Encodings}
  BY <1>3 DEF Entry
<1>4. CASE e \in {[d EXCEPT !.size = @ + n] : n \in {-64, 64, Word - 1 - d.size}}
  <2>1. PICK n \in {-64, 64, Word - 1 - d.size} : e = [d EXCEPT !.size = d.size + n]
    BY <1>4
  <2>2. d.size + n \in Int
    BY <1>1, WordAssumption
  <2> QED BY <2>1, <2>2 DEF Entry
<1>5. CASE e \in {[d EXCEPT !.offset = @ + n] : n \in {-64, -1, 64, Word - 64 - d.offset}}
  <2>1. PICK n \in {-64, -1, 64, Word - 64 - d.offset} : e = [d EXCEPT !.offset = d.offset + n]
    BY <1>5
  <2>2. d.offset + n \in Int
    BY <1>1, WordAssumption
  <2> QED BY <2>1, <2>2 DEF Entry
<1>6. CASE e \in {[d EXCEPT !.shape = s] : s \in {<<0, 32>>, <<Word - 1, 32>>, d.shape \o <<1>>}}
  <2>1. PICK s \in {<<0, 32>>, <<Word - 1, 32>>, d.shape \o <<1>>} : e = [d EXCEPT !.shape = s]
    BY <1>6
  <2>2. s \in Seq(Nat)
    <3>1. <<0, 32>> \in Seq(Nat) /\ <<1>> \in Seq(Nat)
      OBVIOUS
    <3>2. <<Word - 1, 32>> \in Seq(Nat)
      <4>1. Word - 1 \in Nat
        BY WordAssumption
      <4> QED BY <4>1
    <3>3. d.shape \o <<1>> \in Seq(Nat)
      BY <1>1, <3>1, ConcatProperties
    <3> QED BY <3>1, <3>2, <3>3
  <2> QED BY <2>1, <2>2 DEF Entry
<1>7. CASE e \in {[d EXCEPT !.elements = 0], [d EXCEPT !.seed = 1], [d EXCEPT !.transform = 64], [d EXCEPT !.group = 8]}
  <2>1. CASE e = [d EXCEPT !.elements = 0]
    <3> DEFINE n == 0
    <3>1. e = [d EXCEPT !.elements = n] /\ n \in Int
      BY <2>1
    <3> HIDE DEF n
    <3>2. e \in Entry
      BY <3>1 DEF Entry
    <3>3. e.checksum = d.checksum
      BY <3>1 DEF Entry
    <3> QED BY <3>2, <3>3
  <2>2. CASE e = [d EXCEPT !.seed = 1]
    <3>1. e \in Entry
      BY <2>2 DEF Entry
    <3>2. e.checksum = d.checksum
      BY <2>2 DEF Entry
    <3> QED BY <3>1, <3>2
  <2>3. CASE e = [d EXCEPT !.transform = 64]
    <3>1. e \in Entry
      BY <2>3 DEF Entry
    <3>2. e.checksum = d.checksum
      BY <2>3 DEF Entry
    <3> QED BY <3>1, <3>2
  <2>4. CASE e = [d EXCEPT !.group = 8]
    <3>1. e \in Entry
      BY <2>4 DEF Entry
    <3>2. e.checksum = d.checksum
      BY <2>4 DEF Entry
    <3> QED BY <3>1, <3>2
  <2> QED BY <1>7, <2>1, <2>2, <2>3, <2>4
<1>8. CASE e \in {[d EXCEPT !.name = n] : n \in {0} \cup {g.entries[i].name : i \in DOMAIN g.entries}}
  <2>1. PICK n \in {0} \cup {g.entries[i].name : i \in DOMAIN g.entries} : e = [d EXCEPT !.name = n]
    BY <1>8
  <2>2. ASSUME NEW i \in DOMAIN g.entries PROVE g.entries[i].name \in Nat
    <3>1. g.entries[i] \in Entry
      BY ShapedIs
    <3> QED BY <3>1 DEF Entry
  <2>3. n \in Nat
    BY <2>2
  <2> QED BY <2>1, <2>3 DEF Entry
<1> QED
  BY <1>2, <1>3, <1>4, <1>5, <1>6, <1>7, <1>8 DEF EntryAltered

LEMMA AlteredIs ==
    ASSUME NEW g, Shaped(g), NEW f \in Altered(g)
    PROVE  /\ f \in File /\ DOMAIN f.entries = DOMAIN g.entries /\ f.extent = g.extent
           /\ DOMAIN f.payload = DOMAIN g.payload
           /\ PayloadsAltered(f, g) \/ ChecksumAltered(f, g)
<1>1. /\ g \in File /\ g.header \in BOOLEAN /\ g.size \in Int /\ g.directory \in Int /\ g.data \in Int
      /\ g.entries \in Seq(Entry) /\ g.payload \in Seq(Int) /\ g.extent \in Seq(Int \X Int)
      /\ DOMAIN g.entries = 1..Len(g.entries) /\ DOMAIN g.payload = 1..Len(g.payload)
      /\ \A i \in DOMAIN g.entries : g.entries[i] \in Entry
  <2>1. /\ g \in File /\ g.header \in BOOLEAN /\ g.size \in Int /\ g.directory \in Int /\ g.data \in Int
        /\ g.entries \in Seq(Entry) /\ g.payload \in Seq(Int) /\ g.extent \in Seq(Int \X Int)
    BY DEF Shaped, File
  <2> QED BY <2>1, LenProperties, ShapedIs
<1>2. CASE f = g
  BY <1>1, <1>2 DEF PayloadsAltered
<1>3. CASE /\ f \in File /\ f.entries = g.entries /\ f.payload = g.payload /\ f.extent = g.extent
  BY <1>3 DEF PayloadsAltered
<1>4. CASE f = [g EXCEPT !.header = FALSE]
  BY <1>1, <1>3, <1>4 DEF File
<1>5. CASE f \in {[g EXCEPT !.size = n] : n \in {g.data, g.size - 1}}
  <2>1. PICK n \in {g.data, g.size - 1} : f = [g EXCEPT !.size = n]
    BY <1>5
  <2>2. n \in Int
    BY <1>1
  <2> QED BY <1>1, <1>3, <2>1, <2>2 DEF File
<1>6. CASE f \in {[g EXCEPT !.directory = @ + n] : n \in {-8, 8, Word - 1 - g.directory}}
  <2>1. PICK n \in {-8, 8, Word - 1 - g.directory} : f = [g EXCEPT !.directory = g.directory + n]
    BY <1>6
  <2>2. g.directory + n \in Int
    BY <1>1, WordAssumption
  <2> QED BY <1>1, <1>3, <2>1, <2>2 DEF File
<1>7. CASE f = [g EXCEPT !.data = @ + 64]
  <2>1. g.data + 64 \in Int
    BY <1>1
  <2> QED BY <1>1, <1>3, <1>7, <2>1 DEF File
<1>8. CASE f \in {[g EXCEPT !.payload[i] = Damaged] : i \in DOMAIN g.payload}
  <2>1. PICK i \in DOMAIN g.payload : f = [g EXCEPT !.payload = [g.payload EXCEPT ![i] = Damaged]]
    BY <1>1, <1>8 DEF File
  <2> DEFINE p == [g.payload EXCEPT ![i] = Damaged]
  <2>2. p \in Seq(Int) /\ Len(p) = Len(g.payload)
    BY <1>1, ExceptSeq DEF Damaged
  <2>3. DOMAIN p = DOMAIN g.payload /\ \A j \in DOMAIN g.payload : p[j] \in {g.payload[j], Damaged}
    BY <1>1
  <2> HIDE DEF p
  <2>4. f \in File /\ f.entries = g.entries /\ f.payload = p /\ f.extent = g.extent
    BY <1>1, <2>1, <2>2 DEF File, p
  <2> QED BY <2>3, <2>4 DEF PayloadsAltered
<1>9. CASE f \in UNION {{[g EXCEPT !.entries[i] = e] : e \in EntryAltered(g, g.entries[i])} : i \in DOMAIN g.entries}
  <2>1. PICK i \in DOMAIN g.entries :
            f \in {[g EXCEPT !.entries[i] = e] : e \in EntryAltered(g, g.entries[i])}
    BY <1>9
  <2>2. PICK e \in EntryAltered(g, g.entries[i]) : f = [g EXCEPT !.entries = [g.entries EXCEPT ![i] = e]]
    BY <1>1, <2>1 DEF File
  <2>3. /\ e \in Entry
        /\ \/ e.checksum = g.entries[i].checksum
           \/ e.checksum \in {0, Damaged} /\ e.offset = g.entries[i].offset /\ e.size = g.entries[i].size
    BY <1>1, EntryAlteredIs
  <2> DEFINE es == [g.entries EXCEPT ![i] = e]
  <2>4. es \in Seq(Entry) /\ Len(es) = Len(g.entries)
    BY <1>1, <2>3, ExceptSeq
  <2>5. DOMAIN es = DOMAIN g.entries /\ es[i] = e /\ \A j \in DOMAIN g.entries : j # i => es[j] = g.entries[j]
    BY <1>1
  <2> HIDE DEF es
  <2>6. f \in File /\ f.entries = es /\ f.payload = g.payload /\ f.extent = g.extent
    BY <1>1, <2>2, <2>4 DEF File, es
  <2>7. ChecksumAltered(f, g)
    BY <2>3, <2>5, <2>6 DEF ChecksumAltered
  <2> QED BY <2>5, <2>6, <2>7
<1> QED
  BY <1>2, <1>4, <1>5, <1>6, <1>7, <1>8, <1>9 DEF Altered

(* Whatever became of a well-kept file: when it opens, a payload that is     *)
(* delivered is the tensor's own.                                           *)
LEMMA DeliveredIsOwn ==
    ASSUME NEW g, WellKept(g), NEW f \in Altered(g), Accepted(f), NEW i \in DOMAIN f.entries, Delivers(f, i)
    PROVE  Content(f, f.entries[i]) = i
<1>1. /\ f \in File /\ DOMAIN f.entries = DOMAIN g.entries /\ f.extent = g.extent
      /\ DOMAIN f.payload = DOMAIN g.payload /\ (PayloadsAltered(f, g) \/ ChecksumAltered(f, g))
      /\ Shaped(g)
  BY AlteredIs DEF WellKept
<1>2. DOMAIN g.payload = DOMAIN g.entries /\ \A j \in DOMAIN g.entries : j \in Nat \ {0}
  BY <1>1, ShapedIs
<1> DEFINE e == f.entries[i]
           c == Content(f, e)
<1>3. e \in Entry /\ EntryAccepted(f, e) /\ e.checksum # 0 /\ c = e.checksum /\ f.size \in Int
  <2>1. f.entries \in Seq(Entry) /\ f.size \in Int
    BY <1>1 DEF File
  <2>2. e \in Entry
    BY <2>1, LenProperties, ElementOfSeq
  <2>3. EntryAccepted(f, e)
    BY DEF Accepted
  <2>4. c = e.checksum
    BY DEF Delivers
  <2> HIDE DEF e, c
  <2>5. e.checksum # 0
    BY <2>3, Zenon DEF EntryAccepted
  <2> QED BY <2>1, <2>2, <2>3, <2>4, <2>5
<1>4. e.size \in Nat /\ e.offset \in Int /\ e.offset + e.size <= f.size
  BY <1>3, EntryInside DEF Entry
<1>5. i \in DOMAIN g.entries /\ i \in Nat \ {0} /\ g.entries[i].checksum \in {0, i, Torn}
  BY <1>1, <1>2 DEF WellKept
<1>6. c = Damaged \/ \E j \in DOMAIN g.entries : c = f.payload[j]
  <2> HIDE DEF e
  <2> QED BY <1>1, <1>2, ContentIs DEF c
<1>7. CASE e.checksum = g.entries[i].checksum
  <2>1. e.checksum \in {i, Torn} /\ \A j \in DOMAIN g.entries : g.payload[j] = j
    BY <1>3, <1>5, <1>7 DEF WellKept
  <2>2. \A j \in DOMAIN g.entries : f.payload[j] \in {j, Damaged}
    BY <1>1, <1>2, <2>1 DEF PayloadsAltered, ChecksumAltered
  <2>3. c \in DOMAIN g.entries \cup {Damaged}
    BY <1>6, <2>2
  <2>4. c # Torn
    BY <1>2, <2>3 DEF Torn, Damaged
  <2> QED BY <1>3, <2>1, <2>4
<1>8. CASE e.checksum # g.entries[i].checksum
  <2>1. /\ f.payload = g.payload /\ e.checksum \in {0, Damaged}
        /\ e.offset = g.entries[i].offset /\ e.size = g.entries[i].size
    BY <1>1, <1>5, <1>8 DEF PayloadsAltered, ChecksumAltered
  <2>2. c = Damaged
    BY <1>3, <2>1
  <2>3. f.extent[i] = <<e.offset, e.size>> /\ i \in DOMAIN f.payload
    BY <1>1, <1>2, <1>5, <2>1 DEF Shaped
  <2>4. ~(e.offset + e.size > f.size)
    BY <1>3, <1>4
  <2>5. PICK j \in DOMAIN f.payload : c = f.payload[j]
    <3> HIDE DEF e
    <3> QED BY <2>3, <2>4, ContentIs DEF c
  <2>6. j \in DOMAIN g.entries /\ c \in {Zeros, Torn, j} /\ j \in Nat
    BY <1>1, <1>2, <2>1, <2>5 DEF WellKept
  <2> QED BY <2>2, <2>6 DEF Zeros, Torn, Damaged
<1> QED
  BY <1>7, <1>8

-----------------------------------------------------------------------------
(* The inductive invariant of ArtifactFile.  A file that is being written   *)
(* is sound, with the payloads so far and no checksum; one that is finished  *)
(* has all of both; one that was cut off is still well kept.                *)

ArtifactTyped ==
    work \in [part : {"artifact"},
              phase : {"ready", "writing", "finalized", "published", "failed", "killed", "opened", "read"},
              file : File \cup {NoFile}, final : File \cup {NoFile}, written : Nat,
              read : File \cup {NoFile}, got : Int, from : Int]

\* A file of which n payloads are written.
Written(f, n) ==
    /\ Sound(f) /\ n <= Len(f.entries)
    /\ \A i \in DOMAIN f.entries : f.entries[i].checksum = 0 /\ f.payload[i] = IF i <= n THEN i ELSE Zeros

ReadBack(f) == Accepted(f) /\ \A i \in DOMAIN f.entries : Delivers(f, i) => Content(f, f.entries[i]) = i

ArtifactInv ==
    /\ ArtifactTyped
    /\ work.phase = "ready" => work.written = 0
    /\ work.phase = "writing" => Written(work.file, work.written) /\ work.final = NoFile
    /\ work.phase = "finalized" => Finished(work.file)
    /\ work.phase = "killed" => WellKept(work.file)
    /\ work.phase = "published" => work.file = NoFile
    /\ work.final # NoFile => Finished(work.final)
    /\ work.read # NoFile => ReadBack(work.read)
    /\ work.phase = "read" => work.got = work.from

LEMMA ArtifactInvInit == ArtifactInit => ArtifactInv
<1> SUFFICES ASSUME work = Idle PROVE ArtifactInv
  BY DEF ArtifactInit
<1> DEFINE Files == File \cup {NoFile}
<1>1. NoFile \in Files
  OBVIOUS
<1> HIDE DEF Files
<1>2. ArtifactTyped
  BY <1>1 DEF ArtifactTyped, Idle, Files
<1>3. work.phase = "ready" /\ work.written = 0 /\ work.final = NoFile /\ work.read = NoFile
  BY DEF Idle
<1> QED
  BY <1>2, <1>3 DEF ArtifactInv

(* The parts of the record that is the state.                               *)
LEMMA ArtifactParts ==
    ASSUME ArtifactTyped
    PROVE  /\ work.phase \in {"ready", "writing", "finalized", "published", "failed", "killed", "opened", "read"}
           /\ work.file \in File \cup {NoFile} /\ work.final \in File \cup {NoFile} /\ work.written \in Nat
           /\ work.read \in File \cup {NoFile} /\ work.got \in Int /\ work.from \in Int
<1> DEFINE Files == File \cup {NoFile}
<1>1. work \in [part : {"artifact"},
                phase : {"ready", "writing", "finalized", "published", "failed", "killed", "opened", "read"},
                file : Files, final : Files, written : Nat, read : Files, got : Int, from : Int]
  BY DEF ArtifactTyped
<1> HIDE DEF Files
<1>2. /\ work.phase \in {"ready", "writing", "finalized", "published", "failed", "killed", "opened", "read"}
      /\ work.file \in Files /\ work.final \in Files /\ work.written \in Nat
      /\ work.read \in Files /\ work.got \in Int /\ work.from \in Int
  BY <1>1
<1> QED
  BY <1>2 DEF Files

(* A step that changes the phase, the file and the number of payloads.      *)
LEMMA FileStep ==
    ASSUME ArtifactTyped, NEW f \in File \cup {NoFile}, NEW n \in Nat,
           NEW p \in {"ready", "writing", "finalized", "published", "failed", "killed", "opened", "read"},
           work' = [work EXCEPT !.phase = p, !.file = f, !.written = n]
    PROVE  /\ ArtifactTyped' /\ work'.phase = p /\ work'.file = f /\ work'.written = n
           /\ work'.final = work.final /\ work'.read = work.read /\ work'.got = work.got /\ work'.from = work.from
<1> DEFINE Files == File \cup {NoFile}
<1>1. work \in [part : {"artifact"},
                phase : {"ready", "writing", "finalized", "published", "failed", "killed", "opened", "read"},
                file : Files, final : Files, written : Nat, read : Files, got : Int, from : Int]
  BY DEF ArtifactTyped
<1>2. f \in Files
  OBVIOUS
<1> HIDE DEF Files
<1>3. work' \in [part : {"artifact"},
                 phase : {"ready", "writing", "finalized", "published", "failed", "killed", "opened", "read"},
                 file : Files, final : Files, written : Nat, read : Files, got : Int, from : Int]
  BY <1>1, <1>2
<1>4. /\ work'.phase = p /\ work'.file = f /\ work'.written = n
      /\ work'.final = work.final /\ work'.read = work.read /\ work'.got = work.got /\ work'.from = work.from
  BY <1>1
<1> QED
  BY <1>3, <1>4 DEF ArtifactTyped, Files

LEMMA ArtifactCreatedKeeps == ArtifactInv /\ ArtifactCreated => ArtifactInv'
<1> SUFFICES ASSUME ArtifactInv, ArtifactCreated PROVE ArtifactInv'
  OBVIOUS
<1>1. /\ work.phase = "ready" /\ work.final = NoFile /\ ArtifactTyped
      /\ work.read # NoFile => ReadBack(work.read)
  BY DEF ArtifactCreated, ArtifactInv
<1>2. PICK plan \in Plans :
          IF Refused(plan) THEN work' = [work EXCEPT !.phase = "failed"]
                           ELSE work' = [work EXCEPT !.phase = "writing", !.file = Laid(plan)]
  BY DEF ArtifactCreated
<1>3. work.file \in File \cup {NoFile} /\ work.written \in Nat
  BY <1>1, ArtifactParts
<1>4. CASE Refused(plan)
  <2>1. work' = [work EXCEPT !.phase = "failed", !.file = work.file, !.written = work.written]
    BY <1>1, <1>2, <1>4 DEF ArtifactTyped
  <2>2. ArtifactTyped' /\ work'.phase = "failed" /\ work'.final = work.final /\ work'.read = work.read
    BY <1>1, <1>3, <2>1, FileStep
  <2> QED BY <1>1, <2>2 DEF ArtifactInv
<1>5. CASE ~Refused(plan)
  <2> DEFINE f == Laid(plan)
             n == work.written
  <2>1. Sound(f) /\ \A i \in DOMAIN f.entries : f.entries[i].checksum = 0 /\ f.payload[i] = Zeros
    BY <1>5, LaidIsSound
  <2>2. work' = [work EXCEPT !.phase = "writing", !.file = f]
    BY <1>2, <1>5
  <2> HIDE DEF f
  <2>3. f \in File \cup {NoFile} /\ Shaped(f)
    BY <2>1 DEF Sound, Shaped
  <2>4. work' = [work EXCEPT !.phase = "writing", !.file = f, !.written = n]
    BY <1>1, <2>2 DEF ArtifactTyped
  <2>5. /\ ArtifactTyped' /\ work'.phase = "writing" /\ work'.file = f /\ work'.written = n
        /\ work'.final = work.final /\ work'.read = work.read
    <3> HIDE DEF n
    <3> QED BY <1>1, <1>3, <2>3, <2>4, FileStep DEF n
  <2>6. Written(f, n)
    <3>1. n = 0 /\ Len(f.entries) \in Nat /\ \A i \in DOMAIN f.entries : i \in Nat \ {0}
      BY <1>1, <2>3, ShapedIs DEF ArtifactInv
    <3> HIDE DEF n
    <3> QED BY <2>1, <3>1 DEF Written
  <2> QED BY <1>1, <2>5, <2>6 DEF ArtifactInv
<1> QED
  BY <1>4, <1>5

LEMMA TensorWrittenKeeps == ArtifactInv /\ TensorWritten => ArtifactInv'
<1> SUFFICES ASSUME ArtifactInv, TensorWritten PROVE ArtifactInv'
  OBVIOUS
<1> DEFINE f == work.file
           n == work.written
           p == [f.payload EXCEPT ![n + 1] = n + 1]
           g == [f EXCEPT !.payload = p]
<1>1. /\ work.phase = "writing" /\ ArtifactTyped /\ Written(f, n) /\ work.final = NoFile /\ n < Len(f.entries)
      /\ work.read # NoFile => ReadBack(work.read)
  BY DEF TensorWritten, ArtifactInv
<1>2. n \in Nat /\ Shaped(f) /\ f \in File /\ Sound(f)
  BY <1>1, ArtifactParts DEF Written, Sound, Shaped
<1>3. work' = [work EXCEPT !.phase = "writing", !.file = g, !.written = n + 1]
  <2>1. work' = [work EXCEPT !.written = n + 1, !.file.payload[n + 1] = n + 1]
    BY DEF TensorWritten
  <2>2. work' = [work EXCEPT !.written = n + 1, !.file = g]
    BY <2>1
  <2> HIDE DEF g, n
  <2> QED BY <1>1, <2>2 DEF ArtifactTyped
<1>4. /\ f.payload \in Seq(Int) /\ n + 1 \in Nat
      /\ Len(f.entries) \in Nat /\ DOMAIN f.entries = 1..Len(f.entries) /\ DOMAIN f.payload = DOMAIN f.entries
  BY <1>2, ShapedIs DEF File
<1>5. p \in Seq(Int) /\ Len(p) = Len(f.payload)
  <2>1. n + 1 \in 1..Len(f.payload)
    BY <1>1, <1>2, <1>4 DEF Shaped
  <2> HIDE DEF f, n
  <2> QED BY <1>4, <2>1, ExceptSeq
<1>6. \A i \in DOMAIN f.entries : p[i] = IF i = n + 1 THEN n + 1 ELSE f.payload[i]
  BY <1>4
<1> HIDE DEF p
<1>7. /\ g \in File /\ g.payload = p /\ g.header = f.header /\ g.size = f.size /\ g.directory = f.directory
      /\ g.data = f.data /\ g.entries = f.entries /\ g.extent = f.extent
  <2> HIDE DEF f
  <2> QED BY <1>2, <1>5 DEF File
<1> HIDE DEF f, n, g
<1>8. Shaped(g)
  BY <1>2, <1>5, <1>7 DEF Shaped
<1>9. Sound(g)
  <2>1. ASSUME NEW i \in DOMAIN f.entries PROVE g.entries[i] = [f.entries[i] EXCEPT !.checksum = f.entries[i].checksum]
    <3>1. f.entries[i] \in Entry
      BY <1>2, ShapedIs
    <3> QED BY <1>7, <3>1 DEF Entry
  <2>2. \A i \in DOMAIN f.entries : \E c : g.entries[i] = [f.entries[i] EXCEPT !.checksum = c]
    BY ONLY <2>1
  <2>3. DOMAIN g.entries = DOMAIN f.entries
    BY <1>7
  <2> QED BY ONLY <1>2, <1>7, <1>8, <2>2, <2>3, SoundSame, Zenon
<1>10. Written(g, n + 1)
  <2>1. ASSUME NEW i \in DOMAIN g.entries
        PROVE  g.entries[i].checksum = 0 /\ g.payload[i] = IF i <= n + 1 THEN i ELSE Zeros
    <3>1. i \in Nat /\ g.entries[i].checksum = 0 /\ f.payload[i] = IF i <= n THEN i ELSE Zeros
      BY <1>1, <1>4, <1>7 DEF Written
    <3> QED BY <1>2, <1>6, <1>7, <3>1
  <2> QED BY <1>1, <1>2, <1>4, <1>7, <1>9, <2>1 DEF Written
<1>11. /\ ArtifactTyped' /\ work'.phase = "writing" /\ work'.file = g /\ work'.written = n + 1
       /\ work'.final = work.final /\ work'.read = work.read
  BY <1>1, <1>3, <1>4, <1>7, FileStep
<1> QED
  BY <1>1, <1>10, <1>11 DEF ArtifactInv

LEMMA ConversionFailsKeeps == ArtifactInv /\ ConversionFails => ArtifactInv'
<1> SUFFICES ASSUME ArtifactInv, ConversionFails PROVE ArtifactInv'
  OBVIOUS
<1>1. /\ ArtifactTyped /\ (work.final # NoFile => Finished(work.final))
      /\ work.read # NoFile => ReadBack(work.read)
  BY DEF ArtifactInv
<1>2. work.written \in Nat /\ work' = [work EXCEPT !.phase = "failed", !.file = NoFile]
  BY <1>1, ArtifactParts DEF ConversionFails
<1>3. work' = [work EXCEPT !.phase = "failed", !.file = NoFile, !.written = work.written]
  BY <1>1, <1>2 DEF ArtifactTyped
<1>4. NoFile \in File \cup {NoFile}
  OBVIOUS
<1> DEFINE f == NoFile
           n == work.written
<1>5. /\ f \in File \cup {NoFile} /\ n \in Nat
      /\ work' = [work EXCEPT !.phase = "failed", !.file = f, !.written = n]
  BY <1>2, <1>3, <1>4
<1> HIDE DEF f, n
<1>6. ArtifactTyped' /\ work'.phase = "failed" /\ work'.final = work.final /\ work'.read = work.read
  BY ONLY <1>1, <1>5, FileStep
<1> QED
  BY <1>1, <1>6 DEF ArtifactInv

(* The checksums of the first n payloads in a file of which all are written. *)
LEMMA ChecksumsAre ==
    ASSUME NEW f, Written(f, Len(f.entries)), NEW n \in 0..Len(f.entries), NEW next \in {0, Torn}
    PROVE  /\ Checksums(f, n, next) \in File /\ WellKept(Checksums(f, n, next))
           /\ n = Len(f.entries) => Finished(Checksums(f, n, next))
<1> DEFINE c(i) == IF i <= n THEN i ELSE IF i = n + 1 THEN next ELSE 0
           es == [i \in DOMAIN f.entries |-> [f.entries[i] EXCEPT !.checksum = c(i)]]
           g == Checksums(f, n, next)
<1>1. /\ Sound(f) /\ Shaped(f) /\ f \in File
      /\ Len(f.entries) \in Nat /\ DOMAIN f.entries = 1..Len(f.entries)
      /\ \A i \in DOMAIN f.entries : i \in Nat \ {0} /\ f.entries[i] \in Entry
  BY ShapedIs DEF Written, Sound, Shaped
<1>2. \A i \in DOMAIN f.entries : c(i) \in Int /\ c(i) \in {0, i, Torn}
  BY <1>1 DEF Torn
<1> HIDE DEF c
<1>3. g = [f EXCEPT !.entries = es]
  BY DEF Checksums, c
<1>4. ASSUME NEW i \in DOMAIN f.entries
      PROVE  es[i] \in Entry /\ es[i].checksum = c(i) /\ es[i].offset = f.entries[i].offset /\ es[i].size = f.entries[i].size
  <2> DEFINE d == f.entries[i]
  <2>1. d \in Entry /\ c(i) \in Int /\ es[i] = [d EXCEPT !.checksum = c(i)]
    BY <1>1, <1>2
  <2> HIDE DEF d, es
  <2>2. es[i] \in Entry /\ es[i].checksum = c(i) /\ es[i].offset = d.offset /\ es[i].size = d.size
    BY <2>1 DEF Entry
  <2> QED BY <2>2 DEF d
<1>5. es \in Seq(Entry) /\ Len(es) = Len(f.entries) /\ DOMAIN es = DOMAIN f.entries
  <2>1. es \in [1..Len(f.entries) -> Entry]
    BY <1>1, <1>4
  <2> HIDE DEF es
  <2> QED BY <1>1, <2>1, IsSequence
<1>6. \A i \in DOMAIN f.entries : \E x : es[i] = [f.entries[i] EXCEPT !.checksum = x]
  OBVIOUS
<1> HIDE DEF es
<1>7. /\ g \in File /\ g.entries = es /\ g.header = f.header /\ g.size = f.size /\ g.directory = f.directory
      /\ g.data = f.data /\ g.payload = f.payload /\ g.extent = f.extent
  BY <1>1, <1>3, <1>5 DEF File
<1> HIDE DEF g
<1>8. Shaped(g)
  <2>1. es # <<>>
    <3>1. Len(f.entries) # 0
      BY <1>1, EmptySeq DEF Shaped, File
    <3> QED BY <1>5, <3>1
  <2>2. Len(f.payload) = Len(f.entries) /\ Len(f.extent) = Len(f.entries)
    BY <1>1 DEF Shaped
  <2>3. \A i \in DOMAIN es : f.extent[i] = <<es[i].offset, es[i].size>>
    BY <1>1, <1>4, <1>5 DEF Shaped
  <2> QED BY <1>5, <1>7, <2>1, <2>2, <2>3 DEF Shaped
<1>9. \A i \in DOMAIN f.entries : f.payload[i] = i
  BY <1>1 DEF Written
<1>10. WellKept(g)
  BY <1>2, <1>4, <1>5, <1>7, <1>8, <1>9 DEF WellKept
<1>11. ASSUME n = Len(f.entries) PROVE Finished(g)
  <2>1. Sound(g)
    <3>1. \A i \in DOMAIN f.entries : \E x : g.entries[i] = [f.entries[i] EXCEPT !.checksum = x]
      BY <1>6, <1>7, Zenon
    <3>2. DOMAIN g.entries = DOMAIN f.entries
      BY <1>5, <1>7
    <3> QED BY ONLY <1>1, <1>7, <1>8, <3>1, <3>2, SoundSame, Zenon
  <2>2. \A i \in DOMAIN f.entries : c(i) = i
    BY <1>1, <1>11 DEF c
  <2> QED BY <1>4, <1>5, <1>7, <1>9, <2>1, <2>2 DEF Finished
<1> QED
  BY <1>7, <1>10, <1>11 DEF g

LEMMA ArtifactFinalizedKeeps == ArtifactInv /\ ArtifactFinalized => ArtifactInv'
<1> SUFFICES ASSUME ArtifactInv, ArtifactFinalized PROVE ArtifactInv'
  OBVIOUS
<1> DEFINE f == work.file
           g == Checksums(f, Len(f.entries), 0)
           n == work.written
<1>1. /\ ArtifactTyped /\ work.phase = "writing" /\ Written(f, n) /\ n = Len(f.entries) /\ work.final = NoFile
      /\ work.read # NoFile => ReadBack(work.read)
  BY DEF ArtifactFinalized, ArtifactInv
<1>2. n \in Nat /\ Len(f.entries) \in 0..Len(f.entries)
  BY <1>1, ArtifactParts
<1>3. work' = [work EXCEPT !.phase = "finalized", !.file = g]
  BY <1>1 DEF ArtifactFinalized, ArtifactTyped
<1> HIDE DEF g, f, n
<1>4. g \in File /\ Finished(g)
  BY <1>1, <1>2, ChecksumsAre DEF g
<1>5. work' = [work EXCEPT !.phase = "finalized", !.file = g, !.written = n]
  BY <1>1, <1>3 DEF n, ArtifactTyped
<1>6. /\ ArtifactTyped' /\ work'.phase = "finalized" /\ work'.file = g
      /\ work'.final = work.final /\ work'.read = work.read
  BY <1>1, <1>2, <1>4, <1>5, FileStep
<1> QED
  BY <1>1, <1>4, <1>6 DEF ArtifactInv

LEMMA ArtifactPublishedKeeps == ArtifactInv /\ ArtifactPublished => ArtifactInv'
<1> SUFFICES ASSUME ArtifactInv, ArtifactPublished PROVE ArtifactInv'
  OBVIOUS
<1> DEFINE Files == File \cup {NoFile}
<1>1. /\ work.phase = "finalized" /\ Finished(work.file) /\ (work.read # NoFile => ReadBack(work.read))
      /\ work' = [work EXCEPT !.phase = "published", !.final = work.file, !.file = NoFile]
  BY DEF ArtifactPublished, ArtifactInv
<1>2. work \in [part : {"artifact"},
                phase : {"ready", "writing", "finalized", "published", "failed", "killed", "opened", "read"},
                file : Files, final : Files, written : Nat, read : Files, got : Int, from : Int]
  BY DEF ArtifactTyped, ArtifactInv
<1>3. NoFile \in Files
  OBVIOUS
<1> HIDE DEF Files
<1>4. work' \in [part : {"artifact"},
                 phase : {"ready", "writing", "finalized", "published", "failed", "killed", "opened", "read"},
                 file : Files, final : Files, written : Nat, read : Files, got : Int, from : Int]
  BY <1>1, <1>2, <1>3
<1>5. work'.phase = "published" /\ work'.final = work.file /\ work'.file = NoFile /\ work'.read = work.read
  BY <1>1, <1>2
<1> QED
  BY <1>1, <1>4, <1>5 DEF ArtifactInv, ArtifactTyped, Files

(* The file is as it was, but for the size or one payload.                  *)
LEMMA CutOffIsKept ==
    ASSUME NEW f, NEW n \in Nat, Written(f, n), NEW g \in File,
           g.entries = f.entries, g.extent = f.extent, Len(g.payload) = Len(f.payload),
           \A i \in DOMAIN f.entries : g.payload[i] \in {Zeros, Torn, i}
    PROVE  WellKept(g)
<1>1. /\ f.entries # <<>> /\ Len(f.payload) = Len(f.entries) /\ Len(f.extent) = Len(f.entries)
      /\ \A i \in DOMAIN f.entries : f.extent[i] = <<f.entries[i].offset, f.entries[i].size>>
      /\ \A i \in DOMAIN f.entries : f.entries[i].checksum = 0
  BY DEF Written, Sound, Shaped
<1>2. Shaped(g)
  BY <1>1 DEF Shaped
<1> QED
  BY <1>1, <1>2 DEF WellKept

LEMMA ConverterKilledKeeps == ArtifactInv /\ ConverterKilled => ArtifactInv'
<1> SUFFICES ASSUME ArtifactInv, ConverterKilled PROVE ArtifactInv'
  OBVIOUS
<1> DEFINE f == work.file
           n == work.written
<1>1. /\ work.phase = "writing" /\ ArtifactTyped /\ Written(f, n) /\ work.final = NoFile
      /\ work.read # NoFile => ReadBack(work.read)
  BY DEF ConverterKilled, ArtifactInv
<1>2. n \in Nat /\ Shaped(f) /\ f \in File /\ Sound(f)
  BY <1>1, ArtifactParts DEF Written, Sound, Shaped
<1>3. /\ f.payload \in Seq(Int) /\ f.size \in Int /\ f.data \in Int
      /\ Len(f.entries) \in Nat /\ DOMAIN f.entries = 1..Len(f.entries) /\ DOMAIN f.payload = DOMAIN f.entries
      /\ Len(f.payload) = Len(f.entries) /\ \A i \in DOMAIN f.entries : i \in Nat
  BY <1>2, ShapedIs DEF File, Shaped
<1>4. ASSUME NEW g \in File, WellKept(g), work' = [work EXCEPT !.phase = "killed", !.file = g] PROVE ArtifactInv'
  <2> HIDE DEF n
  <2>1. work' = [work EXCEPT !.phase = "killed", !.file = g, !.written = n]
    BY <1>1, <1>4 DEF n, ArtifactTyped
  <2>2. /\ ArtifactTyped' /\ work'.phase = "killed" /\ work'.file = g
        /\ work'.final = work.final /\ work'.read = work.read
    BY <1>1, <1>2, <2>1, FileStep
  <2> QED BY <1>1, <1>4, <2>2 DEF ArtifactInv
<1>5. ASSUME NEW size \in {0, work.file.data - 1, work.file.data}, n = 0,
             work' = [work EXCEPT !.phase = "killed", !.file.size = size]
      PROVE  ArtifactInv'
  <2> DEFINE g == [f EXCEPT !.size = size]
  <2>1. size \in Int
    BY <1>3
  <2>2. work' = [work EXCEPT !.phase = "killed", !.file = g]
    <3>1. work' = [work EXCEPT !.phase = "killed", !.file = [work.file EXCEPT !.size = size]]
      BY <1>1, <1>5 DEF ArtifactTyped
    <3> QED BY <3>1
  <2>3. g \in File /\ g.entries = f.entries /\ g.extent = f.extent /\ g.payload = f.payload
    <3> HIDE DEF f
    <3> QED BY <1>2, <2>1 DEF File
  <2> HIDE DEF g, f, n
  <2>4. \A i \in DOMAIN f.entries : f.payload[i] \in {Zeros, Torn, i}
    BY <1>1, <1>3 DEF Written
  <2>5. WellKept(g)
    BY <1>1, <1>2, <2>3, <2>4, CutOffIsKept
  <2> QED BY <1>4, <2>2, <2>3, <2>5
<1>6. ASSUME NEW payload \in {Zeros, Torn, work.written + 1}, n < Len(f.entries),
             work' = [work EXCEPT !.phase = "killed", !.file.payload[work.written + 1] = payload]
      PROVE  ArtifactInv'
  <2> DEFINE p == [f.payload EXCEPT ![n + 1] = payload]
             g == [f EXCEPT !.payload = p]
  <2>1. payload \in Int /\ payload \in {Zeros, Torn, n + 1}
    BY <1>2 DEF Zeros, Torn
  <2>2. work' = [work EXCEPT !.phase = "killed", !.file = g]
    BY <1>6
  <2>3. n + 1 \in 1..Len(f.payload)
    BY <1>2, <1>3, <1>6
  <2>4. p \in Seq(Int) /\ Len(p) = Len(f.payload)
    <3> HIDE DEF f, n
    <3> QED BY <1>3, <2>1, <2>3, ExceptSeq
  <2>5. \A i \in DOMAIN f.entries : p[i] = IF i = n + 1 THEN payload ELSE f.payload[i]
    BY <1>3
  <2> HIDE DEF p
  <2>6. g \in File /\ g.entries = f.entries /\ g.extent = f.extent /\ g.payload = p
    <3> HIDE DEF f
    <3> QED BY <1>2, <2>4 DEF File
  <2> HIDE DEF g, f, n
  <2>7. ASSUME NEW i \in DOMAIN f.entries PROVE g.payload[i] \in {Zeros, Torn, i}
    <3>1. f.payload[i] \in {Zeros, i}
      BY <1>1 DEF Written
    <3> QED BY <2>1, <2>5, <2>6, <3>1
  <2>8. WellKept(g)
    BY <1>1, <1>2, <2>4, <2>6, <2>7, CutOffIsKept
  <2> QED BY <1>4, <2>2, <2>6, <2>8
<1>7. ASSUME NEW k \in 0..Len(f.entries), NEW next \in {0, Torn}, n = Len(f.entries),
             work' = [work EXCEPT !.phase = "killed", !.file = Checksums(work.file, k, next)]
      PROVE  ArtifactInv'
  <2> DEFINE g == Checksums(f, k, next)
  <2>1. work' = [work EXCEPT !.phase = "killed", !.file = g]
    BY <1>7
  <2> HIDE DEF f, n, g
  <2>2. g \in File /\ WellKept(g)
    BY <1>1, <1>7, ChecksumsAre DEF g
  <2> QED BY <1>4, <2>1, <2>2
<1>8. \/ n = 0 /\ \E size \in {0, work.file.data - 1, work.file.data} :
                      work' = [work EXCEPT !.phase = "killed", !.file.size = size]
      \/ n < Len(f.entries) /\ \E payload \in {Zeros, Torn, work.written + 1} :
                      work' = [work EXCEPT !.phase = "killed", !.file.payload[work.written + 1] = payload]
      \/ n = Len(f.entries) /\ \E k \in 0..Len(f.entries), next \in {0, Torn} :
                      work' = [work EXCEPT !.phase = "killed", !.file = Checksums(work.file, k, next)]
  BY <1>1 DEF ConverterKilled, ArtifactTyped
<1> QED
  BY <1>5, <1>6, <1>7, <1>8

LEMMA ArtifactOpenedKeeps == ArtifactInv /\ ArtifactOpened => ArtifactInv'
<1> SUFFICES ASSUME ArtifactInv, ArtifactOpened PROVE ArtifactInv'
  OBVIOUS
<1> DEFINE Files == File \cup {NoFile}
<1>1. /\ ArtifactTyped /\ work.phase \in {"killed", "published"}
      /\ work.phase = "killed" => WellKept(work.file)
      /\ work.phase = "published" => work.file = NoFile
      /\ work.final # NoFile => Finished(work.final)
  BY DEF ArtifactOpened, ArtifactInv
<1>2. PICK f \in UNION {Altered(g) : g \in {work.file, work.final} \ {NoFile}} :
          Accepted(f) /\ work' = [work EXCEPT !.phase = "opened", !.read = f]
  BY DEF ArtifactOpened
<1>3. PICK g \in {work.file, work.final} \ {NoFile} : f \in Altered(g)
  BY <1>2
<1>4. WellKept(g) /\ Shaped(g)
  <2>1. g = work.file => WellKept(g)
    BY <1>1, <1>3
  <2>2. g = work.final => WellKept(g)
    BY <1>1, <1>3, FinishedIsKept
  <2> QED BY <1>3, <2>1, <2>2 DEF WellKept
<1>5. f \in File
  BY <1>3, <1>4, AlteredIs
<1>6. ReadBack(f)
  BY <1>2, <1>3, <1>4, DeliveredIsOwn DEF ReadBack
<1>7. f \in Files
  BY <1>5
<1>8. work \in [part : {"artifact"},
                phase : {"ready", "writing", "finalized", "published", "failed", "killed", "opened", "read"},
                file : Files, final : Files, written : Nat, read : Files, got : Int, from : Int]
  BY <1>1 DEF ArtifactTyped
<1> HIDE DEF Files
<1>9. work' \in [part : {"artifact"},
                 phase : {"ready", "writing", "finalized", "published", "failed", "killed", "opened", "read"},
                 file : Files, final : Files, written : Nat, read : Files, got : Int, from : Int]
  BY <1>2, <1>7, <1>8
<1>10. work'.phase = "opened" /\ work'.final = work.final /\ work'.read = f
  BY <1>2, <1>8
<1> QED
  BY <1>1, <1>6, <1>9, <1>10 DEF ArtifactInv, ArtifactTyped, Files

LEMMA PayloadDeliveredKeeps == ArtifactInv /\ PayloadDelivered => ArtifactInv'
<1> SUFFICES ASSUME ArtifactInv, PayloadDelivered PROVE ArtifactInv'
  OBVIOUS
<1> DEFINE Files == File \cup {NoFile}
<1>1. /\ ArtifactTyped /\ work.phase = "opened"
      /\ work.final # NoFile => Finished(work.final)
      /\ work.read # NoFile => ReadBack(work.read)
  BY DEF PayloadDelivered, ArtifactInv
<1>2. PICK i \in DOMAIN work.read.entries :
          /\ Delivers(work.read, i)
          /\ work' = [work EXCEPT !.phase = "read", !.from = i, !.got = Content(work.read, work.read.entries[i])]
  BY DEF PayloadDelivered
<1>3. work.read # NoFile
  BY <1>2, EmptySeq DEF NoFile
<1>4. Content(work.read, work.read.entries[i]) = i
  BY <1>1, <1>2, <1>3 DEF ReadBack
<1>5. i \in Int
  <2>1. work.read \in File
    BY <1>1, <1>3, ArtifactParts
  <2> QED BY <2>1, LenProperties DEF File
<1>6. work' = [work EXCEPT !.phase = "read", !.from = i, !.got = i]
  BY <1>2, <1>4
<1>7. work \in [part : {"artifact"},
                phase : {"ready", "writing", "finalized", "published", "failed", "killed", "opened", "read"},
                file : Files, final : Files, written : Nat, read : Files, got : Int, from : Int]
  BY <1>1 DEF ArtifactTyped
<1> HIDE DEF Files
<1>8. work' \in [part : {"artifact"},
                 phase : {"ready", "writing", "finalized", "published", "failed", "killed", "opened", "read"},
                 file : Files, final : Files, written : Nat, read : Files, got : Int, from : Int]
  BY <1>5, <1>6, <1>7
<1>9. /\ work'.phase = "read" /\ work'.final = work.final /\ work'.read = work.read
      /\ work'.got = i /\ work'.from = i
  BY <1>6, <1>7
<1> QED
  BY <1>1, <1>8, <1>9 DEF ArtifactInv, ArtifactTyped, Files

LEMMA ArtifactInvNext == ArtifactInv /\ [ArtifactNext]_work => ArtifactInv'
<1> SUFFICES ASSUME ArtifactInv, [ArtifactNext]_work PROVE ArtifactInv'
  OBVIOUS
<1>1. CASE ArtifactCreated
  BY <1>1, ArtifactCreatedKeeps
<1>2. CASE TensorWritten
  BY <1>2, TensorWrittenKeeps
<1>3. CASE ConversionFails
  BY <1>3, ConversionFailsKeeps
<1>4. CASE ArtifactFinalized
  BY <1>4, ArtifactFinalizedKeeps
<1>5. CASE ArtifactPublished
  BY <1>5, ArtifactPublishedKeeps
<1>6. CASE ConverterKilled
  BY <1>6, ConverterKilledKeeps
<1>7. CASE ArtifactOpened
  BY <1>7, ArtifactOpenedKeeps
<1>8. CASE PayloadDelivered
  BY <1>8, PayloadDeliveredKeeps
<1>9. CASE UNCHANGED work
  BY <1>9 DEF ArtifactInv, ArtifactTyped
<1> QED
  BY <1>1, <1>2, <1>3, <1>4, <1>5, <1>6, <1>7, <1>8, <1>9 DEF ArtifactNext

LEMMA ArtifactInvIsWhole == ArtifactInv => ArtifactIsWhole
<1> SUFFICES ASSUME ArtifactInv PROVE ArtifactIsWhole
  OBVIOUS
<1>1. ASSUME work.final # NoFile
      PROVE  Accepted(work.final) /\ \A i \in DOMAIN work.final.entries :
                 Delivers(work.final, i) /\ Content(work.final, work.final.entries[i]) = i
  BY <1>1, FinishedIsWhole DEF ArtifactInv
<1>2. ASSUME work.read # NoFile
      PROVE  \A i, j \in DOMAIN work.read.entries :
                /\ HeaderSize + DirectorySize(work.read.entries) <= work.read.entries[i].offset
                /\ work.read.entries[i].offset + work.read.entries[i].size <= work.read.size
                /\ i # j => \/ work.read.entries[i].offset + work.read.entries[i].size <= work.read.entries[j].offset
                            \/ work.read.entries[j].offset + work.read.entries[j].size <= work.read.entries[i].offset
  <2>1. work.read \in File /\ Accepted(work.read)
    BY <1>2, ArtifactParts DEF ArtifactInv, ReadBack
  <2> QED BY <2>1, AcceptedApart
<1>3. work.phase = "read" => work.got = work.from
  BY DEF ArtifactInv
<1> QED
  BY <1>1, <1>2, <1>3 DEF ArtifactIsWhole

(* Whatever the plan of an artifact and however a conversion ends, what      *)
(* Q4H128ArtifactWriter has published under the artifact's name opens and    *)
(* reads back completely; what Q4H128ArtifactReader opens, cut off or        *)
(* changed since or not, has its tensors apart from one another, behind the  *)
(* directory and inside the file; and read_tensor_into lets through only     *)
(* the tensor that was asked for.                                           *)
THEOREM ArtifactStaysWhole == ArtifactSpec => []ArtifactIsWhole
<1>1. ArtifactInit => ArtifactInv
  BY ArtifactInvInit
<1>2. ArtifactInv /\ [ArtifactNext]_work => ArtifactInv'
  BY ArtifactInvNext
<1>3. ArtifactInv => ArtifactIsWhole
  BY ArtifactInvIsWhole
<1> QED
  BY <1>1, <1>2, <1>3, PTL DEF ArtifactSpec
=============================================================================
