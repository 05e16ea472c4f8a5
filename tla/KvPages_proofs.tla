--------------------------- MODULE KvPages_proofs ---------------------------
(***************************************************************************)
(* KV caches that share pages behave as caches with rows of their own, for  *)
(* any number of caches, rows and page size: KvPages implements PrivateRows.*)
(*                                                                         *)
(* The invariant behind it: a page has the same place in every cache that   *)
(* holds it, each row is where the arithmetic of the page table puts it,    *)
(* and a cache in the middle of append is alone with its last page.         *)
(***************************************************************************)
EXTENDS KvPages, TLAPS, FiniteSetTheorems, FunctionTheorems, SequenceTheorems,
        WellFoundedInduction

-----------------------------------------------------------------------------
(* The arithmetic of pages.                                                 *)

\* The page (one-based) and the row (zero-based) of token i.
PageOf(i) == (i - 1) \div PageTokens + 1
RowOf(i) == (i - 1) % PageTokens

(* Division with remainder.                                                 *)
LEMMA Division ==
    ASSUME NEW x \in Nat
    PROVE  /\ x \div PageTokens \in Nat /\ x % PageTokens \in Offsets
           /\ x = PageTokens * (x \div PageTokens) + (x % PageTokens)
BY PagesAssumption DEF Offsets

(* Quotient and remainder are determined.                                   *)
LEMMA DivisionUnique ==
    ASSUME NEW x \in Nat, NEW q \in Nat, NEW r \in Offsets, x = PageTokens * q + r
    PROVE  x \div PageTokens = q /\ x % PageTokens = r
BY PagesAssumption DEF Offsets

(* A smaller number is in no later page.                                    *)
LEMMA DivisionMonotone ==
    ASSUME NEW x \in Nat, NEW y \in Nat, x <= y
    PROVE  x \div PageTokens <= y \div PageTokens
<1> DEFINE a == x \div PageTokens
           b == y \div PageTokens
<1>1. /\ a \in Nat /\ x = PageTokens * a + (x % PageTokens) /\ x % PageTokens \in Offsets
      /\ b \in Nat /\ y = PageTokens * b + (y % PageTokens) /\ y % PageTokens \in Offsets
  BY Division
<1> HIDE DEF a, b
<1>2. ASSUME b < a PROVE FALSE
  <2>1. PageTokens * (b + 1) <= PageTokens * a
    BY <1>1, <1>2, PagesAssumption
  <2>2. PageTokens * (b + 1) = PageTokens * b + PageTokens
    BY <1>1, PagesAssumption
  <2> DEFINE pa == PageTokens * a
             pb == PageTokens * b
  <2>3. pa \in Nat /\ pb \in Nat
    BY <1>1, PagesAssumption
  <2> HIDE DEF pa, pb
  <2>4. pb + PageTokens <= pa /\ x = pa + (x % PageTokens) /\ y = pb + (y % PageTokens)
    BY <1>1, <2>1, <2>2 DEF pa, pb
  <2> QED BY <1>1, <2>3, <2>4, PagesAssumption DEF Offsets
<1> QED
  BY <1>1, <1>2 DEF a, b

(* The first token of a cache needs the first page, and the pages of n      *)
(* tokens go up to that of the last one.                                    *)
LEMMA PagesForIs ==
    /\ PagesFor(0) = 0
    /\ \A n \in Nat \ {0} : PagesFor(n) = PageOf(n) /\ PageOf(n) \in Nat \ {0}
<1>1. PagesFor(0) = 0
  <2>1. PageTokens - 1 \in Nat /\ 0 \in Nat /\ PageTokens - 1 \in Offsets
        /\ PageTokens - 1 = PageTokens * 0 + (PageTokens - 1)
    BY PagesAssumption DEF Offsets
  <2>2. (PageTokens - 1) \div PageTokens = 0
    BY <2>1, DivisionUnique
  <2>3. 0 + PageTokens - 1 = PageTokens - 1
    BY PagesAssumption
  <2> QED BY <2>2, <2>3 DEF PagesFor
<1>2. ASSUME NEW n \in Nat \ {0}
      PROVE  PagesFor(n) = PageOf(n) /\ PageOf(n) \in Nat \ {0}
  <2> DEFINE x == n - 1
             q == x \div PageTokens
             r == x % PageTokens
             y == n + PageTokens - 1
  <2>1. x \in Nat /\ y \in Nat /\ y = x + PageTokens
    BY PagesAssumption
  <2>2. q \in Nat /\ r \in Offsets /\ x = PageTokens * q + r
    <3> HIDE DEF x
    <3> QED BY <2>1, Division
  <2> HIDE DEF x, q, r, y
  <2>3. y = PageTokens * (q + 1) + r
    <3>1. PageTokens * (q + 1) = PageTokens * q + PageTokens
      BY <2>2, PagesAssumption
    <3> DEFINE pq == PageTokens * q
    <3>2. pq \in Nat /\ x = pq + r
      BY <2>2, PagesAssumption
    <3> HIDE DEF pq
    <3>3. y = (pq + PageTokens) + r
      BY <2>1, <2>2, <3>2, PagesAssumption DEF Offsets
    <3> QED BY <3>1, <3>3 DEF pq
  <2>4. y \div PageTokens = q + 1
    BY <2>1, <2>2, <2>3, DivisionUnique
  <2> QED BY <2>2, <2>4 DEF PagesFor, PageOf, x, q, y
<1> QED
  BY <1>1, <1>2

(* Tokens fill pages in order.                                              *)
LEMMA PagesInOrder ==
    ASSUME NEW i \in Nat \ {0}, NEW j \in Nat \ {0}, i <= j
    PROVE  PageOf(i) <= PageOf(j)
<1> DEFINE x == i - 1
           y == j - 1
<1>1. x \in Nat /\ y \in Nat /\ x <= y
  OBVIOUS
<1> HIDE DEF x, y
<1>2. /\ x \div PageTokens <= y \div PageTokens
      /\ x \div PageTokens \in Nat /\ y \div PageTokens \in Nat
  BY <1>1, Division, DivisionMonotone
<1> QED
  BY <1>2 DEF PageOf, x, y

(* Two tokens of one page are in different rows.                            *)
LEMMA RowsDiffer ==
    ASSUME NEW i \in Nat \ {0}, NEW j \in Nat \ {0}, PageOf(i) = PageOf(j), RowOf(i) = RowOf(j)
    PROVE  i = j
<1> DEFINE x == i - 1
           y == j - 1
<1>1. x \in Nat /\ y \in Nat
  OBVIOUS
<1> HIDE DEF x, y
<1>2. /\ x = PageTokens * (x \div PageTokens) + (x % PageTokens)
      /\ y = PageTokens * (y \div PageTokens) + (y % PageTokens)
      /\ x \div PageTokens \in Nat /\ y \div PageTokens \in Nat
  BY <1>1, Division
<1>3. x \div PageTokens = y \div PageTokens /\ x % PageTokens = y % PageTokens
  BY <1>2 DEF PageOf, RowOf, x, y
<1>4. x = y
  BY <1>2, <1>3
<1> QED
  BY <1>4 DEF x, y

(* Where the next token goes: to the page behind the last one if the last   *)
(* one is full, and else to the last one.                                   *)
LEMMA NextToken ==
    ASSUME NEW s \in Nat
    PROVE  /\ PageOf(s + 1) = s \div PageTokens + 1 /\ RowOf(s + 1) = s % PageTokens
           /\ s \div PageTokens \in Nat /\ s % PageTokens \in Offsets
           /\ PagesFor(s + 1) = s \div PageTokens + 1
           /\ PagesFor(s) \in {s \div PageTokens, s \div PageTokens + 1}
<1>1. (s + 1) - 1 = s /\ s + 1 \in Nat \ {0}
  OBVIOUS
<1>2. PageOf(s + 1) = s \div PageTokens + 1 /\ RowOf(s + 1) = s % PageTokens
  BY <1>1 DEF PageOf, RowOf
<1>3. s \div PageTokens \in Nat /\ s % PageTokens \in Offsets
  BY Division
<1>4. PagesFor(s + 1) = s \div PageTokens + 1
  BY <1>1, <1>2, PagesForIs
<1>5. CASE s = 0
  <2>1. 0 \div PageTokens = 0
    <3>1. 0 \in Offsets /\ 0 = PageTokens * 0 + 0
      BY PagesAssumption DEF Offsets
    <3> QED BY <3>1, DivisionUnique
  <2> QED BY <1>2, <1>3, <1>4, <1>5, <2>1, PagesForIs
<1>6. CASE s # 0
  <2> DEFINE x == s - 1
             q == x \div PageTokens
             r == x % PageTokens
  <2>1. x \in Nat /\ s = x + 1 /\ s \in Nat \ {0}
    BY <1>6
  <2>2. PagesFor(s) = q + 1
    BY <2>1, PagesForIs DEF PageOf
  <2> HIDE DEF x
  <2>3. q \in Nat /\ r \in Offsets /\ x = PageTokens * q + r
    BY <2>1, Division
  <2> HIDE DEF q, r
  <2>4. CASE r + 1 \in Offsets
    <3>1. s = PageTokens * q + (r + 1)
      <4> DEFINE pq == PageTokens * q
      <4>1. pq \in Nat /\ x = pq + r
        BY <2>3, PagesAssumption
      <4> HIDE DEF pq
      <4>2. s = pq + (r + 1)
        BY <2>1, <2>3, <4>1 DEF Offsets
      <4> QED BY <4>2 DEF pq
    <3>2. s \div PageTokens = q
      BY <2>3, <2>4, <3>1, DivisionUnique
    <3> QED BY <1>2, <1>3, <1>4, <2>2, <3>2
  <2>5. CASE r + 1 \notin Offsets
    <3>1. r + 1 = PageTokens /\ 0 \in Offsets
      BY <2>3, <2>5, PagesAssumption DEF Offsets
    <3>2. s = PageTokens * (q + 1) + 0
      <4>1. PageTokens * (q + 1) = PageTokens * q + PageTokens
        BY <2>3, PagesAssumption
      <4> DEFINE pq == PageTokens * q
      <4>2. pq \in Nat /\ x = pq + r
        BY <2>3, PagesAssumption
      <4> HIDE DEF pq
      <4>3. s = (pq + PageTokens) + 0
        BY <2>1, <2>3, <3>1, <4>2, PagesAssumption DEF Offsets
      <4> QED BY <4>1, <4>3 DEF pq
    <3>3. s \div PageTokens = q + 1
      BY <2>3, <3>1, <3>2, DivisionUnique
    <3> QED BY <1>2, <1>3, <1>4, <2>2, <3>3
  <2> QED BY <2>4, <2>5
<1> QED
  BY <1>5, <1>6

(* The tokens behind the full pages are those of the partial one.           *)
LEMMA PartialPage ==
    ASSUME NEW s \in Nat, NEW i \in 1..s
    PROVE  IF i > (s \div PageTokens) * PageTokens
           THEN PageOf(i) = s \div PageTokens + 1
           ELSE PageOf(i) <= s \div PageTokens
<1> DEFINE q == s \div PageTokens
           r == s % PageTokens
           x == i - 1
           pq == PageTokens * q
<1>1. q \in Nat /\ r \in Offsets /\ s = PageTokens * q + r
  BY Division
<1>2. x \in Nat /\ x < s /\ i = x + 1
  OBVIOUS
<1> HIDE DEF q, r, x
<1>3. pq \in Nat /\ s = pq + r /\ q * PageTokens = pq
  BY <1>1, PagesAssumption
<1>4. CASE i > pq
  <2>1. x - pq \in Offsets /\ x = pq + (x - pq)
    <3> HIDE DEF pq
    <3> QED BY <1>1, <1>2, <1>3, <1>4, PagesAssumption DEF Offsets
  <2>2. x \div PageTokens = q
    BY <1>1, <1>2, <2>1, DivisionUnique
  <2> HIDE DEF pq
  <2> QED BY <1>3, <1>4, <2>2 DEF PageOf, x, q
<1>5. CASE ~(i > pq)
  <2> DEFINE a == x \div PageTokens
             b == x % PageTokens
             pa == PageTokens * a
  <2>1. a \in Nat /\ b \in Offsets /\ x = pa + b
    BY <1>2, Division
  <2> HIDE DEF a, b
  <2>2. ASSUME a >= q PROVE FALSE
    <3>1. pa >= pq /\ pa \in Nat
      BY <1>1, <2>1, <2>2, PagesAssumption
    <3> HIDE DEF pa, pq
    <3> QED BY <1>2, <1>3, <1>5, <2>1, <3>1 DEF Offsets
  <2>3. a + 1 <= q
    BY <1>1, <2>1, <2>2
  <2> HIDE DEF pq
  <2> QED BY <1>3, <1>5, <2>3 DEF PageOf, x, q, a
<1> QED
  BY <1>4, <1>5

(* A non-empty set of numbers has a least one.                              *)
LEMMA LeastExists ==
    ASSUME NEW S \in SUBSET Nat, S # {}
    PROVE  \E x \in S : \A y \in S : x <= y
<1> DEFINE below == {pair \in Nat \X Nat : pair[1] < pair[2]}
<1>1. IsWellFoundedOn(below, Nat)
  BY NatLessThanWellFounded, Zenon DEF OpToRel
<1>2. PICK x \in S : \A y \in S : ~(<<y, x>> \in below)
  <2> HIDE DEF below
  <2> QED BY <1>1, WFMin
<1>3. ASSUME NEW y \in S PROVE x <= y
  <2>1. x \in Nat /\ y \in Nat
    OBVIOUS
  <2>2. <<y, x>> \in Nat \X Nat /\ <<y, x>>[1] = y /\ <<y, x>>[2] = x
    BY <2>1
  <2>3. ~(y < x)
    BY <1>2, <2>2
  <2> QED BY <2>1, <2>3
<1> QED
  BY <1>3

(* A finite set of numbers has a greatest one.                              *)
LEMMA GreatestExists ==
    ASSUME NEW S \in SUBSET Nat, S # {}, IsFiniteSet(S)
    PROVE  \E m \in S : \A x \in S : x <= m
<1> DEFINE n == Cardinality(S)
<1>1. n \in Nat /\ ExistsBijection(1..n, S)
  BY FS_CardinalityType
<1>2. PICK f : f \in Bijection(1..n, S)
  BY <1>1 DEF ExistsBijection
<1>3. (\A i \in 1..n : f[i] \in Nat /\ f[i] \in S) /\ \A x \in S : \E i \in 1..n : f[i] = x
  BY <1>2 DEF Bijection, Injection, Surjection
<1> HIDE DEF n
<1> DEFINE Bounded(k) == \E b \in Nat : \A i \in 1..k : f[i] <= b
           Bad == {k \in 0..n : ~Bounded(k)}
<1>4. Bad = {}
  <2> SUFFICES ASSUME Bad # {} PROVE FALSE
    OBVIOUS
  <2>1. PICK k \in Bad : \A j \in Bad : k <= j
    <3>1. Bad \in SUBSET Nat
      BY <1>1
    <3> HIDE DEF Bad
    <3> QED BY <3>1, LeastExists
  <2>2. k # 0
    <3>1. \A i \in 1..0 : f[i] <= 0
      OBVIOUS
    <3>2. Bounded(0)
      BY <3>1, 0 \in Nat
    <3> HIDE DEF Bounded
    <3> QED BY <3>2
  <2>3. k \in 0..n /\ ~Bounded(k)
    <3> HIDE DEF Bounded
    <3> QED OBVIOUS
  <2>4. k \in 1..n /\ k - 1 \in 0..n /\ k - 1 \in Nat /\ ~(k <= k - 1)
    <3> HIDE DEF Bounded
    <3> QED BY <1>1, <2>2, <2>3
  <2>5. k - 1 \notin Bad
    <3> HIDE DEF Bad
    <3> QED BY <2>1, <2>4
  <2>6. Bounded(k - 1)
    <3> HIDE DEF Bounded
    <3> QED BY <2>4, <2>5
  <2>7. PICK b \in Nat : \A i \in 1..(k - 1) : f[i] <= b
    BY <2>6
  <2>8. PICK a \in Nat : b <= a /\ f[k] <= a
    <3>1. f[k] \in Nat
      BY <1>3, <2>4
    <3>2. b <= f[k] \/ f[k] <= b
      BY <3>1
    <3> QED BY <3>1, <3>2
  <2>9. \A i \in 1..k : f[i] <= a
    <3> SUFFICES ASSUME NEW i \in 1..k PROVE f[i] <= a
      OBVIOUS
    <3>1. i \in 1..n
      BY <1>1, <2>4
    <3>2. f[i] \in Nat
      BY <1>3, <3>1
    <3>3. CASE i = k
      BY <2>8, <3>3
    <3>4. CASE i # k
      <4>1. i \in 1..(k - 1)
        BY <2>4, <3>4
      <4> QED BY <2>7, <2>8, <3>2, <4>1
    <3> QED BY <3>3, <3>4
  <2> QED BY <2>3, <2>9
<1>5. PICK b \in Nat : \A x \in S : x <= b
  <2>1. Bounded(n)
    <3>1. n \in 0..n
      BY <1>1
    <3> HIDE DEF Bounded
    <3> QED BY <1>4, <3>1
  <2>2. PICK b \in Nat : \A i \in 1..n : f[i] <= b
    BY <2>1
  <2>3. \A x \in S : x <= b
    BY <1>3, <2>2
  <2> QED BY <2>3
<1> DEFINE bounds == {c \in Nat : \A x \in S : x <= c}
<1>6. PICK m \in bounds : \A c \in bounds : m <= c
  <2>1. bounds \in SUBSET Nat /\ bounds # {}
    BY <1>5
  <2> HIDE DEF bounds
  <2> QED BY <2>1, LeastExists
<1>7. m \in S
  <2> SUFFICES ASSUME m \notin S PROVE FALSE
    OBVIOUS
  <2>1. m \in Nat /\ \A x \in S : x \in Nat /\ x <= m /\ x # m
    BY <1>6
  <2>2. m # 0
    <3>1. PICK x \in S : TRUE
      OBVIOUS
    <3>2. x \in Nat /\ x <= m /\ x # m
      BY <2>1
    <3> QED BY <2>1, <3>2
  <2>3. m - 1 \in bounds
    BY <2>1, <2>2
  <2> QED BY <1>6, <2>1, <2>3
<1> QED
  BY <1>6, <1>7

(* The largest capacity.                                                    *)
LEMMA MaxCapacityIs ==
    /\ MaxCapacity \in Nat \ {0} /\ MaxCapacity \in Capacities
    /\ \A capacity \in Capacities : capacity \in 1..MaxCapacity
<1>1. \E m \in Capacities : \A capacity \in Capacities : capacity <= m
  BY PagesAssumption, GreatestExists
<1>2. /\ MaxCapacity \in Capacities
      /\ \A capacity \in Capacities : capacity <= MaxCapacity
  BY <1>1 DEF MaxCapacity
<1> QED
  BY <1>2, PagesAssumption

-----------------------------------------------------------------------------
(* The invariant.                                                           *)

Cells == [page : Addresses, row : Offsets]
Content == [Offsets -> Values \cup {0}]
Record == [capacity : 0..MaxCapacity, size : 0..MaxCapacity,
           pages : Seq(Addresses), table : Seq(Cells)]

\* A cache in good shape: it is not larger than it may be, has pages for its
\* tokens, and finds each token where it was put.
Shape(r) ==
    /\ r \in Record /\ r.size <= r.capacity
    /\ r.capacity = 0 => r = NoCache
    /\ Len(r.table) = r.size
    /\ PagesFor(r.size) <= Len(r.pages)
    /\ \A i \in 1..r.size : r.table[i] = Cell(r.pages[PageOf(i)], RowOf(i))

\* A cache between the two steps of append has a page for the next token.
Ready(r) == r.size < r.capacity /\ Len(r.pages) = PagesFor(r.size + 1)

\* Two caches that hold a page hold it at the same place.
InPlace(r, q) ==
    \A k \in 1..Len(r.pages), l \in 1..Len(q.pages) : r.pages[k] = q.pages[l] => k = l

\* Nothing of the last page of r is in q.
Apart(r, q) == \A l \in 1..Len(q.pages) : q.pages[l] # r.pages[Len(r.pages)]

Inv ==
    /\ cache \in [Caches -> Record] /\ page \in [Addresses -> Content] /\ open \subseteq Caches
    /\ \A c \in Caches : Shape(cache[c])
    /\ \A c \in Caches \ open : Len(cache[c].pages) = PagesFor(cache[c].size)
    /\ \A c \in open : Ready(cache[c])
    /\ \A c, d \in Caches : InPlace(cache[c], cache[d])
    /\ \A c \in open, d \in Caches : c # d => Apart(cache[c], cache[d])

\* What a cache reads in a memory.
Rows(r, memory) == [i \in 1..r.size |-> memory[r.table[i].page][r.table[i].row]]

(* The fields of a cache.                                                   *)
LEMMA RecordFields ==
    ASSUME NEW r \in Record
    PROVE  /\ r.capacity \in 0..MaxCapacity /\ r.size \in 0..MaxCapacity
           /\ r.capacity \in Nat /\ r.size \in Nat
           /\ r.pages \in Seq(Addresses) /\ r.table \in Seq(Cells)
           /\ Len(r.pages) \in Nat /\ DOMAIN r.pages = 1..Len(r.pages)
           /\ Len(r.table) \in Nat /\ DOMAIN r.table = 1..Len(r.table)
           /\ \A k \in 1..Len(r.pages) : r.pages[k] \in Addresses
<1>1. /\ r.capacity \in 0..MaxCapacity /\ r.size \in 0..MaxCapacity
      /\ r.pages \in Seq(Addresses) /\ r.table \in Seq(Cells)
  BY DEF Record
<1> QED
  BY <1>1, LenProperties, ElementOfSeq, MaxCapacityIs

(* The number of pages of n tokens is a number, and the tokens are in them. *)
LEMMA PagesHold ==
    ASSUME NEW n \in Nat
    PROVE  /\ PagesFor(n) \in Nat
           /\ \A i \in 1..n : PageOf(i) \in 1..PagesFor(n) /\ RowOf(i) \in Offsets
<1>1. CASE n = 0
  BY <1>1, PagesForIs
<1>2. CASE n # 0
  <2>1. n \in Nat \ {0} /\ PagesFor(n) = PageOf(n) /\ PageOf(n) \in Nat
    BY <1>2, PagesForIs
  <2> SUFFICES ASSUME NEW i \in 1..n PROVE PageOf(i) \in 1..PagesFor(n) /\ RowOf(i) \in Offsets
    BY <2>1
  <2>2. i \in Nat \ {0} /\ i <= n
    OBVIOUS
  <2>3. PageOf(i) <= PageOf(n) /\ PageOf(i) \in Nat \ {0}
    BY <2>1, <2>2, PagesForIs, PagesInOrder
  <2>4. RowOf(i) \in Offsets
    <3> DEFINE x == i - 1
    <3>1. x \in Nat
      BY <2>2
    <3> HIDE DEF x
    <3>2. x % PageTokens \in Offsets
      BY <3>1, Division
    <3> QED BY <3>2 DEF RowOf, x
  <2> QED BY <2>1, <2>3, <2>4
<1> QED
  BY <1>1, <1>2

(* Each token of a cache is in one of its pages.                            *)
LEMMA TokenPlaced ==
    ASSUME NEW r, Shape(r), NEW i \in 1..r.size
    PROVE  /\ PageOf(i) \in 1..Len(r.pages) /\ PageOf(i) \in 1..PagesFor(r.size)
           /\ RowOf(i) \in Offsets
           /\ r.table[i].page = r.pages[PageOf(i)] /\ r.table[i].row = RowOf(i)
           /\ r.pages[PageOf(i)] \in Addresses
<1>1. /\ r \in Record /\ PagesFor(r.size) <= Len(r.pages)
      /\ r.table[i] = Cell(r.pages[PageOf(i)], RowOf(i))
  BY DEF Shape
<1>2. r.size \in Nat /\ Len(r.pages) \in Nat /\ \A k \in 1..Len(r.pages) : r.pages[k] \in Addresses
  BY <1>1, RecordFields
<1>3. PageOf(i) \in 1..PagesFor(r.size) /\ RowOf(i) \in Offsets /\ PagesFor(r.size) \in Nat
  BY <1>2, PagesHold
<1>4. PageOf(i) \in 1..Len(r.pages)
  BY <1>1, <1>2, <1>3
<1> QED
  BY <1>1, <1>2, <1>3, <1>4 DEF Cell

(* What a cache reads are rows of its own size.                             *)
LEMMA RowsTyped ==
    ASSUME NEW r, Shape(r), NEW memory \in [Addresses -> Content]
    PROVE  /\ Rows(r, memory) \in Seq(Values \cup {0}) /\ Len(Rows(r, memory)) = r.size
           /\ r.size \in Nat
           /\ \A i \in 1..r.size : Rows(r, memory)[i] = memory[r.pages[PageOf(i)]][RowOf(i)]
<1> DEFINE V == Values \cup {0}
           rows == Rows(r, memory)
<1>1. r.size \in Nat
  BY RecordFields DEF Shape
<1>2. \A i \in 1..r.size : /\ memory[r.pages[PageOf(i)]][RowOf(i)] \in V
                          /\ rows[i] = memory[r.pages[PageOf(i)]][RowOf(i)]
  <2> SUFFICES ASSUME NEW i \in 1..r.size
               PROVE  /\ memory[r.pages[PageOf(i)]][RowOf(i)] \in V
                      /\ rows[i] = memory[r.pages[PageOf(i)]][RowOf(i)]
    OBVIOUS
  <2>1. /\ r.pages[PageOf(i)] \in Addresses /\ RowOf(i) \in Offsets
        /\ r.table[i].page = r.pages[PageOf(i)] /\ r.table[i].row = RowOf(i)
    BY TokenPlaced
  <2>2. rows[i] = memory[r.table[i].page][r.table[i].row]
    BY DEF Rows
  <2> QED BY <2>1, <2>2 DEF Content
<1>3. rows \in [1..r.size -> V]
  BY <1>2 DEF Rows
<1> HIDE DEF rows, V
<1>4. rows \in Seq(V) /\ Len(rows) = r.size
  BY <1>1, <1>3, SeqDef, LenProperties
<1> QED
  BY <1>1, <1>2, <1>4 DEF rows, V

(* Two lists of rows with the same elements are the same.                   *)
LEMMA SameRows ==
    ASSUME NEW V, NEW s \in Seq(V), NEW t \in Seq(V), Len(s) = Len(t),
           \A i \in 1..Len(s) : s[i] = t[i]
    PROVE  s = t
BY SeqEqual

(* A cache reads what it read where its pages are what they were.           *)
LEMMA RowsKept ==
    ASSUME NEW r, Shape(r), NEW q, Shape(q), r.size = q.size,
           NEW memory \in [Addresses -> Content], NEW after \in [Addresses -> Content],
           \A i \in 1..r.size :
              after[q.pages[PageOf(i)]][RowOf(i)] = memory[r.pages[PageOf(i)]][RowOf(i)]
    PROVE  Rows(q, after) = Rows(r, memory)
<1> DEFINE V == Values \cup {0}
           s == Rows(q, after)
           t == Rows(r, memory)
<1>1. /\ s \in Seq(V) /\ t \in Seq(V) /\ Len(s) = r.size /\ Len(t) = r.size
      /\ \A i \in 1..r.size : s[i] = after[q.pages[PageOf(i)]][RowOf(i)]
      /\ \A i \in 1..r.size : t[i] = memory[r.pages[PageOf(i)]][RowOf(i)]
  BY RowsTyped
<1> HIDE DEF s, t, V
<1>2. s = t
  BY <1>1, SameRows
<1> QED
  BY <1>2 DEF s, t

-----------------------------------------------------------------------------
(* There is always a page for the next token.                               *)

(* There are n numbers up to n.                                             *)
LEMMA CountUpTo ==
    ASSUME NEW n \in Nat
    PROVE  IsFiniteSet(1..n) /\ Cardinality(1..n) = n
<1>1. IsFiniteSet(1..n) /\ Cardinality(1..n) = IF 1 > n THEN 0 ELSE n - 1 + 1
  BY FS_Interval
<1> QED
  BY <1>1

(* More tokens need no fewer pages.                                         *)
LEMMA PagesMonotone ==
    ASSUME NEW m \in Nat, NEW n \in Nat, m <= n
    PROVE  PagesFor(m) <= PagesFor(n) /\ PagesFor(m) \in Nat /\ PagesFor(n) \in Nat
<1>1. PagesFor(m) \in Nat /\ PagesFor(n) \in Nat
  BY PagesHold
<1>2. CASE m = 0
  BY <1>1, <1>2, PagesForIs
<1>3. CASE m # 0
  <2>1. m \in Nat \ {0} /\ n \in Nat \ {0}
    BY <1>3
  <2> QED BY <1>1, <2>1, PagesForIs, PagesInOrder
<1> QED
  BY <1>2, <1>3

(* No cache has more pages than the largest capacity takes.                 *)
LEMMA PagesBounded ==
    ASSUME Inv, NEW c \in Caches
    PROVE  /\ Len(cache[c].pages) \in 0..PagesFor(MaxCapacity)
           /\ PagesFor(MaxCapacity) \in Nat
<1> DEFINE r == cache[c]
<1>1. /\ r \in Record /\ r.size <= r.capacity
      /\ c \notin open => Len(r.pages) = PagesFor(r.size)
      /\ c \in open => Ready(r)
  BY DEF Inv, Shape
<1> HIDE DEF r
<1>2. r.size \in Nat /\ r.capacity \in 0..MaxCapacity /\ Len(r.pages) \in Nat
  BY <1>1, RecordFields
<1>3. CASE c \notin open
  <2>1. r.size <= MaxCapacity /\ MaxCapacity \in Nat
    BY <1>1, <1>2, MaxCapacityIs
  <2>2. /\ PagesFor(r.size) <= PagesFor(MaxCapacity) /\ PagesFor(r.size) \in Nat
        /\ PagesFor(MaxCapacity) \in Nat
    BY <1>2, <2>1, PagesMonotone
  <2>3. Len(r.pages) = PagesFor(r.size)
    BY <1>1, <1>3
  <2>4. Len(r.pages) \in 0..PagesFor(MaxCapacity)
    BY <2>2, <2>3
  <2> QED BY <2>2, <2>4 DEF r
<1>4. CASE c \in open
  <2>1. r.size + 1 <= MaxCapacity /\ MaxCapacity \in Nat /\ r.size + 1 \in Nat
    BY <1>1, <1>2, <1>4, MaxCapacityIs DEF Ready
  <2>2. /\ PagesFor(r.size + 1) <= PagesFor(MaxCapacity) /\ PagesFor(r.size + 1) \in Nat
        /\ PagesFor(MaxCapacity) \in Nat
    BY <2>1, PagesMonotone
  <2>3. Len(r.pages) = PagesFor(r.size + 1)
    BY <1>1, <1>4 DEF Ready
  <2>4. Len(r.pages) \in 0..PagesFor(MaxCapacity)
    BY <2>2, <2>3
  <2> QED BY <2>2, <2>4 DEF r
<1> QED
  BY <1>3, <1>4

(* Of all the places a page can have in a cache, one that is not needed     *)
(* leaves an address free.                                                  *)
LEMMA FreeExists ==
    ASSUME Inv, NEW c \in Caches, NEW k0 \in 1..PagesFor(MaxCapacity),
           k0 <= Len(cache[c].pages) =>
              \E d \in Caches \ {c}, k \in 1..PagesFor(MaxCapacity) :
                 k <= Len(cache[d].pages) /\ cache[d].pages[k] = cache[c].pages[k0]
    PROVE  /\ FreeAddress \in Addresses
           /\ \A d \in Caches : \A k \in 1..Len(cache[d].pages) :
                 cache[d].pages[k] # FreeAddress
<1> DEFINE P == PagesFor(MaxCapacity)
           N == Cardinality(Caches)
           places == 1..P
           all == Caches \X places
           slots == all \ {<<c, k0>>}
           f == [s \in slots |-> IF s[2] <= Len(cache[s[1]].pages) THEN cache[s[1]].pages[s[2]]
                                                                 ELSE 0]
           T == {f[s] : s \in slots}
<1>1. N \in Nat /\ P \in Nat /\ IsFiniteSet(places) /\ Cardinality(places) = P
  <2>1. N \in Nat
    BY PagesAssumption, FS_CardinalityType
  <2>2. P \in Nat
    BY PagesBounded
  <2> HIDE DEF P
  <2>3. IsFiniteSet(1..P) /\ Cardinality(1..P) = P
    BY <2>2, CountUpTo
  <2> QED BY <2>1, <2>2, <2>3
<1>2. k0 \in places
  OBVIOUS
<1>3. \A d \in Caches : Len(cache[d].pages) \in 0..P
  BY PagesBounded
<1>4. Addresses = 1..(N * P)
  BY DEF Addresses
<1> HIDE DEF P, N
<1>5. IsFiniteSet(Addresses) /\ Cardinality(Addresses) = N * P /\ N * P \in Nat
  <2> DEFINE np == N * P
  <2>1. np \in Nat
    BY <1>1
  <2> HIDE DEF np
  <2>2. IsFiniteSet(1..np) /\ Cardinality(1..np) = np
    BY <2>1, CountUpTo
  <2> QED BY <1>4, <2>1, <2>2 DEF np
<1>6. \A d \in Caches, k \in places : <<d, k>> \in all /\ <<d, k>>[1] = d /\ <<d, k>>[2] = k
  OBVIOUS
<1>7. \A d \in Caches : \A k \in 1..Len(cache[d].pages) : k \in places /\ k <= Len(cache[d].pages)
  BY <1>1, <1>3
<1> HIDE DEF places
<1>8. IsFiniteSet(all) /\ Cardinality(all) = N * P
  <2>1. /\ IsFiniteSet(Caches \X places)
        /\ Cardinality(Caches \X places) = Cardinality(Caches) * Cardinality(places)
    BY <1>1, PagesAssumption, FS_Product
  <2> QED BY <1>1, <2>1 DEF N
<1>9. <<c, k0>> \in all
  BY <1>2, <1>6
<1> HIDE DEF all
<1>10. IsFiniteSet(slots) /\ Cardinality(slots) = N * P - 1
  BY <1>8, <1>9, FS_RemoveElement
<1>11. IsFiniteSet(T) /\ Cardinality(T) <= N * P - 1 /\ Cardinality(T) \in Nat
  <2>1. f \in Surjection(slots, T)
    BY DEF Surjection
  <2> HIDE DEF f, T, slots
  <2>2. IsFiniteSet(T) /\ Cardinality(T) <= Cardinality(slots)
    BY <1>10, <2>1, FS_Surjection
  <2> QED BY <1>10, <2>2, FS_CardinalityType
<1>12. ASSUME NEW d \in Caches, NEW k \in 1..Len(cache[d].pages) PROVE cache[d].pages[k] \in T
  <2>1. \A e \in Caches, l \in places :
          l <= Len(cache[e].pages) /\ <<e, l>> # <<c, k0>> => cache[e].pages[l] \in T
    <3> SUFFICES ASSUME NEW e \in Caches, NEW l \in places,
                        l <= Len(cache[e].pages), <<e, l>> # <<c, k0>>
                 PROVE  cache[e].pages[l] \in T
      OBVIOUS
    <3> DEFINE s == <<e, l>>
    <3>1. s \in slots /\ s[1] = e /\ s[2] = l
      BY <1>6
    <3> HIDE DEF s, slots
    <3>2. f[s] = cache[e].pages[l]
      BY <3>1
    <3> HIDE DEF f
    <3> QED BY <3>1, <3>2
  <2>2. k \in places /\ k <= Len(cache[d].pages)
    BY <1>7
  <2> HIDE DEF T
  <2>3. CASE <<d, k>> = <<c, k0>>
    <3>1. d = c /\ k = k0
      BY <2>3
    <3>2. PICK e \in Caches \ {c}, l \in places :
             l <= Len(cache[e].pages) /\ cache[e].pages[l] = cache[c].pages[k0]
      BY <2>2, <3>1 DEF places, P
    <3>3. <<e, l>> # <<c, k0>>
      BY <3>2
    <3> QED BY <2>1, <3>1, <3>2, <3>3
  <2> QED BY <2>1, <2>2, <2>3
<1> HIDE DEF T
<1>13. PICK a \in Addresses : a \notin T
  <2> SUFFICES ASSUME Addresses \subseteq T PROVE FALSE
    OBVIOUS
  <2>1. Cardinality(Addresses) <= Cardinality(T)
    BY <1>11, FS_Subset
  <2> DEFINE np == N * P
  <2>2. np \in Nat /\ np <= Cardinality(T) /\ Cardinality(T) <= np - 1 /\ Cardinality(T) \in Nat
    BY <1>5, <1>11, <2>1
  <2> HIDE DEF np
  <2> QED BY <2>2
<1>14. ASSUME NEW b \in Addresses
       PROVE  Holders(b) = {} <=>
                 \A d \in Caches : \A k \in 1..Len(cache[d].pages) : cache[d].pages[k] # b
  <2>1. \A d \in Caches : DOMAIN cache[d].pages = 1..Len(cache[d].pages)
    BY RecordFields DEF Inv
  <2> QED BY <2>1 DEF Holders
<1>15. Holders(a) = {}
  BY <1>12, <1>13, <1>14
<1>16. FreeAddress \in Addresses /\ Holders(FreeAddress) = {}
  BY <1>15 DEF FreeAddress
<1> QED
  BY <1>14, <1>16

-----------------------------------------------------------------------------
(* Steps.                                                                   *)

(* A step that changes one cache.                                           *)
LEMMA InvUpdate ==
    ASSUME Inv, NEW c \in Caches, NEW q, Shape(q), cache' = [cache EXCEPT ![c] = q],
           page' \in [Addresses -> Content],
           open' \subseteq Caches, open' \ {c} = open \ {c},
           c \notin open' => Len(q.pages) = PagesFor(q.size),
           c \in open' => Ready(q),
           InPlace(q, q),
           \A d \in Caches \ {c} :
              /\ InPlace(cache[d], q)
              /\ c \in open' => Apart(q, cache[d])
              /\ d \in open => Apart(cache[d], q)
    PROVE  Inv'
<1>1. q \in Record /\ cache \in [Caches -> Record]
  BY DEF Shape, Inv
<1>2. cache' \in [Caches -> Record] /\ \A d \in Caches : cache'[d] = IF d = c THEN q ELSE cache[d]
  BY <1>1
<1>3. \A d \in Caches \ {c} : InPlace(q, cache[d])
  <2>1. \A d \in Caches \ {c} : InPlace(cache[d], q)
    OBVIOUS
  <2> QED BY <2>1 DEF InPlace
<1>4. \A d \in Caches : Shape(cache'[d])
  BY <1>2 DEF Inv
<1>5. \A d \in Caches \ open' : Len(cache'[d].pages) = PagesFor(cache'[d].size)
  BY <1>2 DEF Inv
<1>6. \A d \in open' : Ready(cache'[d])
  BY <1>2 DEF Inv
<1>7. \A d, e \in Caches : InPlace(cache'[d], cache'[e])
  BY <1>2, <1>3 DEF Inv
<1>8. \A d \in open', e \in Caches : d # e => Apart(cache'[d], cache'[e])
  BY <1>2 DEF Inv
<1> QED
  BY <1>2, <1>4, <1>5, <1>6, <1>7, <1>8 DEF Inv

(* A cache whose pages are left alone reads what it read.                   *)
LEMMA OthersKeep ==
    ASSUME Inv, NEW d \in Caches, cache'[d] = cache[d], page' \in [Addresses -> Content],
           \A k \in 1..Len(cache[d].pages) : page'[cache[d].pages[k]] = page[cache[d].pages[k]]
    PROVE  RowsOf(d)' = RowsOf(d)
<1> DEFINE r == cache[d]
           after == page'
<1>1. Shape(r) /\ page \in [Addresses -> Content] /\ after \in [Addresses -> Content]
  BY DEF Inv
<1>2. RowsOf(d) = Rows(r, page) /\ RowsOf(d)' = Rows(r, after)
  BY DEF RowsOf, Rows
<1>3. \A i \in 1..r.size :
        after[r.pages[PageOf(i)]][RowOf(i)] = page[r.pages[PageOf(i)]][RowOf(i)]
  BY <1>1, TokenPlaced
<1> HIDE DEF r, after
<1>4. Rows(r, after) = Rows(r, page)
  BY <1>1, <1>3, RowsKept
<1> QED
  BY <1>2, <1>4

(* Where append puts the next token.                                        *)
LEMMA NextPlace ==
    ASSUME Inv, NEW c \in Caches, MayAppend(c)
    PROVE  LET r == cache[c]
               k0 == NextPage(c) + 1
           IN  /\ r.size < r.capacity /\ r.size \in Nat /\ c \notin open
               /\ NextPage(c) \in Nat /\ k0 \in 1..PagesFor(MaxCapacity)
               /\ PagesFor(r.size + 1) = k0
               /\ Len(r.pages) = PagesFor(r.size) /\ Len(r.pages) \in {NextPage(c), k0}
<1> DEFINE r == cache[c]
           s == r.size
<1>1. /\ s < r.capacity /\ c \notin open /\ r \in Record /\ Len(r.pages) = PagesFor(s)
  BY DEF MayAppend, Idle, Inv, Shape
<1>2. s \in Nat /\ r.capacity \in 0..MaxCapacity
  BY <1>1, RecordFields
<1>3. NextPage(c) = s \div PageTokens
  BY DEF NextPage
<1> HIDE DEF r, s
<1>4. /\ s \div PageTokens \in Nat /\ PagesFor(s + 1) = s \div PageTokens + 1
      /\ PagesFor(s) \in {s \div PageTokens, s \div PageTokens + 1}
  BY <1>2, NextToken
<1>5. PagesFor(s + 1) <= PagesFor(MaxCapacity) /\ PagesFor(MaxCapacity) \in Nat
  <2>1. s + 1 \in Nat /\ MaxCapacity \in Nat /\ s + 1 <= MaxCapacity
    BY <1>1, <1>2, MaxCapacityIs
  <2> QED BY <2>1, PagesMonotone
<1>6. NextPage(c) + 1 \in 1..PagesFor(MaxCapacity)
  BY <1>3, <1>4, <1>5
<1> QED
  BY <1>1, <1>2, <1>3, <1>4, <1>6 DEF r, s

(* What use_count() > 1 says of the page of the next token.                 *)
LEMMA SharedIs ==
    ASSUME Inv, NEW c \in Caches, NextPage(c) + 1 \in 1..Len(cache[c].pages)
    PROVE  Shared(c) <=> \E d \in Caches \ {c} : \E k \in 1..Len(cache[d].pages) :
                            cache[d].pages[k] = cache[c].pages[NextPage(c) + 1]
<1> DEFINE k0 == NextPage(c) + 1
           a == cache[c].pages[k0]
           H == Holders(a)
<1>1. \A d \in Caches : DOMAIN cache[d].pages = 1..Len(cache[d].pages)
  BY RecordFields DEF Inv
<1>2. \A d \in Caches : d \in H <=> \E k \in 1..Len(cache[d].pages) : cache[d].pages[k] = a
  BY <1>1 DEF Holders
<1>3. c \in H /\ H \subseteq Caches
  BY <1>2 DEF Holders
<1>4. Shared(c) <=> Cardinality(H) > 1
  BY DEF Shared
<1> HIDE DEF H, a, k0
<1>5. IsFiniteSet(H) /\ Cardinality(H) \in Nat
  BY <1>3, PagesAssumption, FS_Subset, FS_CardinalityType
<1> DEFINE others == H \ {c}
<1>6. IsFiniteSet(others) /\ Cardinality(others) = Cardinality(H) - 1
  BY <1>3, <1>5, FS_RemoveElement
<1>7. others = {} <=> Cardinality(others) = 0
  <2> HIDE DEF others
  <2> QED BY <1>6, FS_EmptySet
<1>8. Cardinality(H) > 1 <=> others # {}
  <2>1. Cardinality(others) \in Nat
    <3> HIDE DEF others
    <3> QED BY <1>6, FS_CardinalityType
  <2> HIDE DEF others
  <2> QED BY <1>5, <1>6, <1>7, <2>1
<1>9. others # {} <=> \E d \in Caches \ {c} : d \in H
  BY <1>3
<1> QED
  BY <1>2, <1>4, <1>8, <1>9 DEF a, k0

\* Cache c becomes q: it has its next page at address a, with content X, where
\* it keeps the rows it had in the page it replaces.
OpensAt(c, a, q, X) ==
    LET r == cache[c]
        k0 == NextPage(c) + 1
    IN  /\ a \in Addresses /\ q \in Record /\ X \in Content
        /\ \A d \in Caches : \A k \in 1..Len(cache[d].pages) : cache[d].pages[k] # a
        /\ q.size = r.size /\ q.capacity = r.capacity
        /\ Len(q.pages) = k0 /\ q.pages[k0] = a
        /\ \A k \in 1..(k0 - 1) : q.pages[k] = r.pages[k]
        /\ Len(q.table) = q.size
        /\ \A i \in 1..q.size : q.table[i] = Cell(q.pages[PageOf(i)], RowOf(i))
        /\ \A i \in 1..q.size : PageOf(i) = k0 => X[RowOf(i)] = page[r.pages[k0]][RowOf(i)]
        /\ cache' = [cache EXCEPT ![c] = q]
        /\ page' = [page EXCEPT ![a] = X]
        /\ open' = open \cup {c}

(* That changes no row of any cache.                                        *)
LEMMA OpenKeeps ==
    ASSUME Inv, NEW c \in Caches, MayAppend(c), NEW a, NEW q, NEW X, OpensAt(c, a, q, X)
    PROVE  /\ Inv'
           /\ \A d \in Caches : RowsOf(d)' = RowsOf(d) /\ cache'[d].capacity = cache[d].capacity
<1> DEFINE k0 == NextPage(c) + 1
<1>0. /\ a \in Addresses /\ q \in Record /\ X \in Content
      /\ \A d \in Caches : \A k \in 1..Len(cache[d].pages) : cache[d].pages[k] # a
      /\ q.size = cache[c].size /\ q.capacity = cache[c].capacity
      /\ Len(q.pages) = k0 /\ q.pages[k0] = a
      /\ \A k \in 1..(k0 - 1) : q.pages[k] = cache[c].pages[k]
      /\ Len(q.table) = q.size
      /\ \A i \in 1..q.size : q.table[i] = Cell(q.pages[PageOf(i)], RowOf(i))
      /\ \A i \in 1..q.size :
            PageOf(i) = k0 => X[RowOf(i)] = page[cache[c].pages[k0]][RowOf(i)]
      /\ cache' = [cache EXCEPT ![c] = q] /\ page' = [page EXCEPT ![a] = X]
      /\ open' = open \cup {c}
  BY DEF OpensAt
<1> DEFINE r == cache[c]
<1>1. /\ Shape(r) /\ r \in Record /\ page \in [Addresses -> Content]
      /\ cache \in [Caches -> Record] /\ open \subseteq Caches
  BY DEF Inv, Shape
<1>2. /\ r.size < r.capacity /\ r.size \in Nat /\ k0 \in Nat /\ k0 >= 1
      /\ PagesFor(r.size + 1) = k0 /\ Len(r.pages) = PagesFor(r.size)
      /\ Len(r.pages) \in {k0 - 1, k0}
  BY NextPlace
<1> HIDE DEF k0
<1>3. page' \in [Addresses -> Content]
      /\ \A b \in Addresses : page'[b] = IF b = a THEN X ELSE page[b]
  BY <1>0, <1>1
<1>4. /\ q.capacity \in Nat /\ q.size \in Nat /\ Len(q.pages) \in Nat
      /\ r.capacity \in Nat
  BY <1>0, <1>1, RecordFields
<1>5. Shape(q)
  <2>1. q.size <= q.capacity /\ q.capacity # 0
    BY <1>0, <1>2, <1>4
  <2>2. PagesFor(q.size) <= Len(q.pages)
    BY <1>0, <1>2
  <2> QED BY <1>0, <2>1, <2>2 DEF Shape
<1>6. Ready(q)
  BY <1>0, <1>2 DEF Ready
<1>7. \A k \in 1..k0 : k = k0 \/ (k \in 1..(k0 - 1) /\ k \in 1..Len(r.pages))
  BY <1>2
<1>8. InPlace(q, q)
  <2> SUFFICES ASSUME NEW k \in 1..k0, NEW l \in 1..k0, q.pages[k] = q.pages[l] PROVE k = l
    BY <1>0 DEF InPlace
  <2>1. InPlace(r, r)
    BY DEF Inv
  <2>2. CASE k = k0
    BY <1>0, <1>7, <2>2
  <2>3. CASE l = k0
    BY <1>0, <1>7, <2>3
  <2>4. CASE k # k0 /\ l # k0
    BY <1>0, <1>7, <2>1, <2>4 DEF InPlace
  <2> QED BY <2>2, <2>3, <2>4
<1>9. ASSUME NEW d \in Caches \ {c}
      PROVE  /\ InPlace(cache[d], q) /\ Apart(q, cache[d])
             /\ d \in open => Apart(cache[d], q)
  <2>1. InPlace(cache[d], q)
    <3> SUFFICES ASSUME NEW k \in 1..Len(cache[d].pages), NEW l \in 1..k0,
                        cache[d].pages[k] = q.pages[l]
                 PROVE  k = l
      BY <1>0 DEF InPlace
    <3>1. InPlace(cache[d], r)
      BY DEF Inv
    <3> QED BY <1>0, <1>7, <3>1 DEF InPlace
  <2>2. Apart(q, cache[d])
    BY <1>0 DEF Apart
  <2>3. ASSUME d \in open PROVE Apart(cache[d], q)
    <3>1. Apart(cache[d], r) /\ Ready(cache[d])
      BY <2>3 DEF Inv
    <3>2. Len(cache[d].pages) \in 1..Len(cache[d].pages)
      <4>1. cache[d].size \in Nat /\ Len(cache[d].pages) \in Nat
        BY <1>1, RecordFields
      <4>2. PagesFor(cache[d].size + 1) \in Nat \ {0}
        <5>1. cache[d].size + 1 \in Nat \ {0}
          BY <4>1
        <5> QED BY <5>1, PagesForIs
      <4>3. Len(cache[d].pages) = PagesFor(cache[d].size + 1)
        BY <3>1 DEF Ready
      <4> QED BY <4>1, <4>2, <4>3
    <3> QED BY <1>0, <1>7, <3>1, <3>2 DEF Apart
  <2> QED BY <2>1, <2>2, <2>3
<1>10. Inv'
  <2>1. open' \subseteq Caches /\ open' \ {c} = open \ {c} /\ c \in open'
    BY <1>0, <1>1
  <2> QED BY <1>0, <1>3, <1>5, <1>6, <1>8, <1>9, <2>1, InvUpdate
<1>11. ASSUME NEW d \in Caches \ {c}
       PROVE  RowsOf(d)' = RowsOf(d) /\ cache'[d].capacity = cache[d].capacity
  <2>1. cache'[d] = cache[d]
    BY <1>0, <1>1
  <2>2. \A k \in 1..Len(cache[d].pages) : page'[cache[d].pages[k]] = page[cache[d].pages[k]]
    BY <1>0, <1>1, <1>3, RecordFields
  <2> QED BY <1>3, <2>1, <2>2, OthersKeep
<1>12. RowsOf(c)' = RowsOf(c) /\ cache'[c].capacity = cache[c].capacity
  <2> DEFINE after == page'
  <2>1. cache'[c] = q
    BY <1>0, <1>1
  <2>2. RowsOf(c) = Rows(r, page) /\ RowsOf(c)' = Rows(q, after)
    BY <2>1 DEF RowsOf, Rows
  <2>3. after \in [Addresses -> Content] /\ after[a] = X /\ \A b \in Addresses : b # a => after[b] = page[b]
    BY <1>0, <1>3
  <2> HIDE DEF after
  <2>4. ASSUME NEW i \in 1..r.size
        PROVE  after[q.pages[PageOf(i)]][RowOf(i)] = page[r.pages[PageOf(i)]][RowOf(i)]
    <3>1. /\ PageOf(i) \in 1..Len(r.pages) /\ r.pages[PageOf(i)] \in Addresses
          /\ PageOf(i) \in 1..k0
      BY <1>1, <1>2, TokenPlaced
    <3>2. CASE PageOf(i) = k0
      BY <1>0, <2>3, <3>2
    <3>3. CASE PageOf(i) # k0
      <4>1. q.pages[PageOf(i)] = r.pages[PageOf(i)]
        BY <1>0, <1>7, <3>1, <3>3
      <4>2. r.pages[PageOf(i)] # a
        BY <1>0, <3>1
      <4> QED BY <2>3, <3>1, <4>1, <4>2
    <3> QED BY <3>2, <3>3
  <2>5. Rows(q, after) = Rows(r, page)
    <3> HIDE DEF r
    <3>1. r.size = q.size
      BY <1>0 DEF r
    <3> QED BY <1>1, <1>5, <2>3, <2>4, <3>1, RowsKept
  <2> QED BY <1>0, <2>1, <2>2, <2>5
<1> QED
  BY <1>10, <1>11, <1>12

(* The first step of append, on any of its three ways, is invisible.        *)
LEMMA OpenStep ==
    ASSUME Inv, NEW c \in Caches, OpenNewPage(c) \/ OpenCopy(c) \/ OpenInPlace(c)
    PROVE  /\ Inv'
           /\ \A d \in Caches : RowsOf(d)' = RowsOf(d) /\ cache'[d].capacity = cache[d].capacity
<1> DEFINE r == cache[c]
           k0 == NextPage(c) + 1
           a == FreeAddress
<1>1. MayAppend(c)
  BY DEF OpenNewPage, OpenCopy, OpenInPlace
<1>2. /\ Shape(r) /\ r \in Record /\ page \in [Addresses -> Content]
      /\ cache \in [Caches -> Record] /\ open \subseteq Caches
  BY DEF Inv, Shape
<1>3. /\ r.size < r.capacity /\ r.size \in Nat /\ c \notin open
      /\ NextPage(c) \in Nat /\ k0 \in 1..PagesFor(MaxCapacity)
      /\ PagesFor(r.size + 1) = k0
      /\ Len(r.pages) = PagesFor(r.size) /\ Len(r.pages) \in {NextPage(c), k0}
  BY <1>1, NextPlace
<1>4. /\ r.pages \in Seq(Addresses) /\ Len(r.pages) \in Nat /\ r.table \in Seq(Cells)
      /\ r.size \in 0..MaxCapacity /\ r.capacity \in 0..MaxCapacity
      /\ \A k \in 1..Len(r.pages) : r.pages[k] \in Addresses
      /\ DOMAIN r.pages = 1..Len(r.pages)
  BY <1>2, RecordFields
<1>5. CASE OpenNewPage(c)
  <2> DEFINE longer == Append(r.pages, a)
             q == [r EXCEPT !.pages = longer]
  <2>1. /\ NextPage(c) = Len(r.pages)
        /\ page' = [page EXCEPT ![a] = Blank] /\ open' = open \cup {c}
        /\ cache' = [cache EXCEPT ![c] = q]
    BY <1>2, <1>5 DEF OpenNewPage
  <2>2. k0 = Len(r.pages) + 1 /\ ~(k0 <= Len(r.pages))
    BY <1>4, <2>1
  <2>3. /\ a \in Addresses
        /\ \A d \in Caches : \A k \in 1..Len(cache[d].pages) : cache[d].pages[k] # a
    <3> HIDE DEF k0
    <3> QED BY <1>3, <2>2, FreeExists
  <2>4. /\ longer \in Seq(Addresses) /\ Len(longer) = k0 /\ longer[k0] = a
        /\ \A k \in 1..(k0 - 1) : longer[k] = r.pages[k]
    <3>1. /\ longer \in Seq(Addresses) /\ Len(longer) = Len(r.pages) + 1
          /\ \A k \in 1..Len(r.pages) : longer[k] = r.pages[k]
          /\ longer[Len(r.pages) + 1] = a
      <4> HIDE DEF a
      <4> QED BY <1>4, <2>3, AppendProperties
    <3>2. k0 - 1 = Len(r.pages)
      BY <1>4, <2>2
    <3> HIDE DEF longer, k0
    <3> QED BY <2>2, <3>1, <3>2
  <2> HIDE DEF longer
  <2>5. /\ q \in Record /\ q.pages = longer /\ q.table = r.table
        /\ q.size = r.size /\ q.capacity = r.capacity
    <3> HIDE DEF r
    <3> QED BY <1>2, <2>4 DEF Record
  <2> HIDE DEF q
  <2>6. /\ Len(q.table) = q.size
        /\ \A i \in 1..q.size : /\ q.table[i] = Cell(q.pages[PageOf(i)], RowOf(i))
                               /\ PageOf(i) # k0
    <3> SUFFICES ASSUME NEW i \in 1..r.size
                 PROVE  /\ r.table[i] = Cell(longer[PageOf(i)], RowOf(i)) /\ PageOf(i) # k0
      BY <1>2, <2>5 DEF Shape
    <3>1. PageOf(i) \in 1..Len(r.pages) /\ r.table[i] = Cell(r.pages[PageOf(i)], RowOf(i))
      BY <1>2, TokenPlaced DEF Shape
    <3>2. PageOf(i) \in 1..(k0 - 1) /\ PageOf(i) # k0
      BY <1>4, <2>2, <3>1
    <3> HIDE DEF k0
    <3> QED BY <2>4, <3>1, <3>2
  <2>7. Blank \in Content
    BY DEF Blank, Content
  <2>8. OpensAt(c, a, q, Blank)
    <3> HIDE DEF a
    <3> QED BY <2>1, <2>3, <2>4, <2>5, <2>6, <2>7 DEF OpensAt
  <2> HIDE DEF a
  <2> QED BY <1>1, <2>8, OpenKeeps
<1>6. CASE OpenCopy(c)
  <2> DEFINE old == r.pages[k0]
             moved == [r.pages EXCEPT ![k0] = a]
             table == Repointed(c, a)
             X == page[old]
             q == [r EXCEPT !.pages = moved, !.table = table]
  <2>1. /\ NextPage(c) < Len(r.pages) /\ Shared(c)
        /\ page' = [page EXCEPT ![a] = X] /\ open' = open \cup {c}
        /\ cache' = [cache EXCEPT ![c] = q]
    BY <1>2, <1>6 DEF OpenCopy
  <2>2. Len(r.pages) = k0 /\ k0 \in 1..Len(r.pages)
    BY <1>3, <1>4, <2>1
  <2>3. PICK other \in Caches \ {c} :
          \E k \in 1..Len(cache[other].pages) : cache[other].pages[k] = old
    <3>1. NextPage(c) + 1 \in 1..Len(cache[c].pages)
      BY <2>2
    <3> QED BY <2>1, <3>1, SharedIs
  <2>4. /\ a \in Addresses
        /\ \A e \in Caches : \A k \in 1..Len(cache[e].pages) : cache[e].pages[k] # a
    <3>1. PICK k \in 1..Len(cache[other].pages) : cache[other].pages[k] = old
      BY <2>3
    <3>2. Len(cache[other].pages) \in 0..PagesFor(MaxCapacity) /\ PagesFor(MaxCapacity) \in Nat
      BY PagesBounded
    <3>3. k \in 1..PagesFor(MaxCapacity) /\ k <= Len(cache[other].pages)
      BY <3>1, <3>2
    <3> HIDE DEF k0
    <3> QED BY <1>3, <3>1, <3>3, FreeExists
  <2>5. /\ moved \in Seq(Addresses) /\ Len(moved) = k0 /\ moved[k0] = a
        /\ \A k \in 1..(k0 - 1) : moved[k] = r.pages[k]
    <3>1. moved \in [1..k0 -> Addresses]
      <4> HIDE DEF a, r, k0
      <4> QED BY <1>4, <2>2, <2>4, LenProperties
    <3>2. moved[k0] = a
      <4> HIDE DEF a, r, k0
      <4> QED BY <1>4, <2>2
    <3>3. \A k \in 1..(k0 - 1) : moved[k] = r.pages[k]
      BY <1>3, <1>4, <2>2
    <3>4. moved \in Seq(Addresses) /\ Len(moved) = k0
      <4>1. k0 \in Nat
        BY <1>3
      <4> HIDE DEF moved, k0
      <4>2. moved \in Seq(Addresses)
        BY <3>1, <4>1, SeqDef
      <4>3. DOMAIN moved = 1..k0
        BY <3>1
      <4> QED BY <4>1, <4>2, <4>3, LenProperties
    <3> QED BY <3>2, <3>3, <3>4
  <2> HIDE DEF moved
  <2>6. \A i \in 1..r.size : /\ table[i] = Cell(moved[PageOf(i)], RowOf(i))
                           /\ table[i] \in Cells
    <3> SUFFICES ASSUME NEW i \in 1..r.size
                 PROVE  /\ table[i] = Cell(moved[PageOf(i)], RowOf(i)) /\ table[i] \in Cells
      OBVIOUS
    <3>1. table[i] = IF i > NextPage(c) * PageTokens THEN Cell(a, RowOf(i)) ELSE r.table[i]
      BY DEF Repointed, RowOf
    <3>2. IF i > NextPage(c) * PageTokens THEN PageOf(i) = k0 ELSE PageOf(i) <= NextPage(c)
      <4>1. r.size \in Nat
        BY <1>3
      <4> DEFINE s == r.size
      <4>2. NextPage(c) = s \div PageTokens /\ s \in Nat
        BY <1>3 DEF NextPage
      <4> HIDE DEF s, k0
      <4>3. i \in 1..s
        BY DEF s
      <4>4. IF i > (s \div PageTokens) * PageTokens THEN PageOf(i) = s \div PageTokens + 1
                                                     ELSE PageOf(i) <= s \div PageTokens
        BY <4>2, <4>3, PartialPage
      <4> QED BY <4>2, <4>4 DEF k0
    <3>3. /\ PageOf(i) \in 1..Len(r.pages) /\ RowOf(i) \in Offsets
          /\ r.table[i] = Cell(r.pages[PageOf(i)], RowOf(i)) /\ r.pages[PageOf(i)] \in Addresses
      BY <1>2, TokenPlaced DEF Shape
    <3> HIDE DEF table, a, r
    <3>4. CASE i > NextPage(c) * PageTokens
      <4>1. table[i] = Cell(moved[PageOf(i)], RowOf(i)) /\ moved[PageOf(i)] = a
        <5> HIDE DEF k0
        <5> QED BY <2>5, <3>1, <3>2, <3>4
      <4> QED BY <2>4, <3>3, <4>1 DEF Cell, Cells
    <3>5. CASE ~(i > NextPage(c) * PageTokens)
      <4>1. PageOf(i) \in 1..(k0 - 1)
        BY <1>3, <3>2, <3>3, <3>5
      <4>2. moved[PageOf(i)] = r.pages[PageOf(i)] /\ table[i] = r.table[i]
        BY <2>5, <3>1, <3>5, <4>1
      <4> QED BY <3>3, <4>2 DEF Cell, Cells
    <3> QED BY <3>4, <3>5
  <2>7. table \in Seq(Cells) /\ Len(table) = r.size
    <3>1. DOMAIN table = 1..r.size /\ table \in [1..r.size -> Cells]
      BY <2>6 DEF Repointed
    <3> HIDE DEF table, r
    <3>2. table \in Seq(Cells)
      BY <1>3, <3>1, SeqDef
    <3> QED BY <1>3, <3>1, <3>2, LenProperties
  <2> HIDE DEF table
  <2>8. /\ q \in Record /\ q.pages = moved /\ q.table = table
        /\ q.size = r.size /\ q.capacity = r.capacity
    <3> HIDE DEF r
    <3> QED BY <1>2, <2>5, <2>7 DEF Record
  <2> HIDE DEF q
  <2>9. X \in Content
    BY <1>2, <1>4, <2>2
  <2>10. OpensAt(c, a, q, X)
    <3>1. /\ q.size = r.size /\ q.capacity = r.capacity
          /\ Len(q.pages) = k0 /\ q.pages[k0] = a
          /\ \A k \in 1..(k0 - 1) : q.pages[k] = r.pages[k]
          /\ Len(q.table) = q.size
      BY <2>5, <2>7, <2>8
    <3>2. \A i \in 1..q.size : q.table[i] = Cell(q.pages[PageOf(i)], RowOf(i))
      BY <2>6, <2>8
    <3> HIDE DEF a
    <3> QED BY <2>1, <2>4, <2>8, <2>9, <3>1, <3>2 DEF OpensAt
  <2> HIDE DEF a, X
  <2> QED BY <1>1, <2>10, OpenKeeps
<1>7. CASE OpenInPlace(c)
  <2>1. /\ NextPage(c) < Len(r.pages) /\ ~Shared(c)
        /\ open' = open \cup {c} /\ UNCHANGED <<cache, page>>
    BY <1>7 DEF OpenInPlace
  <2>2. Len(r.pages) = k0 /\ k0 \in 1..Len(r.pages)
    BY <1>3, <1>4, <2>1
  <2>3. Ready(r)
    BY <1>3, <2>2 DEF Ready
  <2>4. \A d \in Caches : c # d => Apart(r, cache[d])
    <3>1. NextPage(c) + 1 \in 1..Len(cache[c].pages)
      BY <2>2
    <3> QED BY <2>1, <2>2, <3>1, SharedIs DEF Apart
  <2>5. Inv'
    BY <1>2, <2>1, <2>3, <2>4 DEF Inv
  <2>6. \A d \in Caches : RowsOf(d)' = RowsOf(d) /\ cache'[d].capacity = cache[d].capacity
    BY <2>1 DEF RowsOf
  <2> QED BY <2>5, <2>6
<1> QED
  BY <1>5, <1>6, <1>7

(* The second step of append adds the row to the cache, and to no other.    *)
LEMMA StoreStep ==
    ASSUME Inv, NEW c \in Caches, NEW value \in Values, Store(c, value)
    PROVE  /\ Inv'
           /\ RowsOf(c)' = Append(RowsOf(c), value) /\ cache'[c].capacity = cache[c].capacity
           /\ Len(RowsOf(c)) < cache[c].capacity
           /\ \A d \in Caches \ {c} :
                 RowsOf(d)' = RowsOf(d) /\ cache'[d].capacity = cache[d].capacity
<1> DEFINE r == cache[c]
           s == r.size
           k0 == NextPage(c) + 1
           a == r.pages[k0]
           row == NextRow(c)
           longer == Append(r.table, Cell(a, row))
           q == [r EXCEPT !.size = @ + 1, !.table = Append(@, Cell(a, row))]
           after == page'
<1>1. /\ c \in open /\ open' = open \ {c}
      /\ page' = [page EXCEPT ![a][row] = value] /\ cache' = [cache EXCEPT ![c] = q]
  <2>1. c \in open /\ open' = open \ {c} /\ page' = [page EXCEPT ![a][row] = value]
    BY DEF Store
  <2>2. cache' = [cache EXCEPT ![c] = q]
    BY DEF Store
  <2> QED BY <2>1, <2>2
<1>2. /\ Shape(r) /\ r \in Record /\ Ready(r) /\ page \in [Addresses -> Content]
      /\ cache \in [Caches -> Record] /\ open \subseteq Caches
  BY <1>1 DEF Inv, Shape
<1>3. /\ s \in Nat /\ s + 1 \in Nat \ {0} /\ s < r.capacity /\ r.capacity \in 0..MaxCapacity
      /\ Len(r.pages) = PagesFor(s + 1) /\ Len(r.pages) \in Nat
      /\ \A k \in 1..Len(r.pages) : r.pages[k] \in Addresses
      /\ r.table \in Seq(Cells) /\ Len(r.table) = s
  BY <1>2, RecordFields DEF Ready, Shape
<1>4. /\ PageOf(s + 1) = k0 /\ RowOf(s + 1) = row /\ row \in Offsets
      /\ k0 = Len(r.pages) /\ k0 \in 1..Len(r.pages)
  <2>1. NextPage(c) = s \div PageTokens /\ NextRow(c) = s % PageTokens
    BY DEF NextPage, NextRow
  <2> HIDE DEF s, r
  <2>2. /\ PageOf(s + 1) = s \div PageTokens + 1 /\ RowOf(s + 1) = s % PageTokens
        /\ s \div PageTokens \in Nat /\ s % PageTokens \in Offsets
        /\ PagesFor(s + 1) = s \div PageTokens + 1
    BY <1>3, NextToken
  <2> QED BY <1>3, <2>1, <2>2
<1>5. a \in Addresses
  BY <1>3, <1>4
<1>6. /\ longer \in Seq(Cells) /\ Len(longer) = s + 1 /\ longer[s + 1] = Cell(a, row)
      /\ \A i \in 1..s : longer[i] = r.table[i]
  <2>1. Cell(a, row) \in Cells
    BY <1>4, <1>5 DEF Cell, Cells
  <2> HIDE DEF a, row, r
  <2> QED BY <1>3, <2>1, AppendProperties
<1>7. /\ q \in Record /\ q.pages = r.pages /\ q.table = longer
      /\ q.size = s + 1 /\ q.capacity = r.capacity
  <2>1. s + 1 \in 0..MaxCapacity
    BY <1>3, MaxCapacityIs
  <2>2. Append(r.table, Cell(a, row)) = longer
    OBVIOUS
  <2> HIDE DEF longer, r, a, row
  <2> QED BY <1>2, <1>6, <2>1, <2>2 DEF Record
<1> HIDE DEF longer, q
<1>8. \A i \in 1..(s + 1) : i = s + 1 \/ i \in 1..s
  BY <1>3
<1>9. Shape(q)
  <2>1. q.size <= q.capacity /\ q.capacity # 0
    BY <1>3, <1>7
  <2>2. PagesFor(q.size) <= Len(q.pages) /\ Len(q.table) = q.size
    BY <1>3, <1>6, <1>7
  <2>3. \A i \in 1..s : r.table[i] = Cell(r.pages[PageOf(i)], RowOf(i))
    BY <1>2 DEF Shape
  <2>4. \A i \in 1..q.size : q.table[i] = Cell(q.pages[PageOf(i)], RowOf(i))
    <3> SUFFICES ASSUME NEW i \in 1..(s + 1)
                 PROVE  longer[i] = Cell(r.pages[PageOf(i)], RowOf(i))
      BY <1>7
    <3>1. CASE i = s + 1
      BY <1>4, <1>6, <3>1
    <3>2. CASE i \in 1..s
      BY <1>6, <2>3, <3>2
    <3> QED BY <1>8, <3>1, <3>2
  <2> QED BY <1>7, <2>1, <2>2, <2>4 DEF Shape
<1>10. /\ after \in [Addresses -> Content] /\ after[a][row] = value
       /\ \A b \in Addresses : b # a => after[b] = page[b]
       /\ \A o \in Offsets : o # row => after[a][o] = page[a][o]
  <2> DEFINE X == [page[a] EXCEPT ![row] = value]
  <2>1. after = [page EXCEPT ![a] = X]
    BY <1>1
  <2>2. X \in Content /\ X[row] = value /\ \A o \in Offsets : o # row => X[o] = page[a][o]
    <3>1. page[a] \in Content
      BY <1>2, <1>5
    <3> HIDE DEF a, row
    <3> QED BY <1>4, <3>1 DEF Content
  <2> HIDE DEF X, after, a, row
  <2> QED BY <1>2, <1>5, <2>1, <2>2
<1>11. /\ InPlace(r, r)
       /\ \A d \in Caches \ {c} : /\ InPlace(cache[d], r) /\ Apart(r, cache[d])
                                  /\ d \in open => Apart(cache[d], r)
  BY <1>1 DEF Inv
<1>12. Inv'
  <2>1. InPlace(q, q)
    BY <1>7, <1>11 DEF InPlace
  <2>2. \A d \in Caches \ {c} : InPlace(cache[d], q) /\ (d \in open => Apart(cache[d], q))
    BY <1>7, <1>11 DEF InPlace, Apart
  <2>3. open' \subseteq Caches /\ open' \ {c} = open \ {c} /\ c \notin open'
    BY <1>1, <1>2
  <2>4. Len(q.pages) = PagesFor(q.size)
    BY <1>3, <1>7
  <2> HIDE DEF r
  <2> QED BY <1>1, <1>9, <1>10, <2>1, <2>2, <2>3, <2>4, InvUpdate DEF after
<1>13. ASSUME NEW d \in Caches \ {c}
       PROVE  RowsOf(d)' = RowsOf(d) /\ cache'[d].capacity = cache[d].capacity
  <2>1. cache'[d] = cache[d]
    BY <1>1, <1>2
  <2>2. \A k \in 1..Len(cache[d].pages) : cache[d].pages[k] # a /\ cache[d].pages[k] \in Addresses
    <3>1. Apart(r, cache[d]) /\ cache[d] \in Record
      BY <1>2, <1>11
    <3> QED BY <1>4, <3>1, RecordFields DEF Apart
  <2>3. \A k \in 1..Len(cache[d].pages) : page'[cache[d].pages[k]] = page[cache[d].pages[k]]
    BY <1>10, <2>2
  <2> QED BY <1>10, <2>1, <2>3, OthersKeep
<1>14. /\ RowsOf(c)' = Append(RowsOf(c), value) /\ cache'[c].capacity = r.capacity
       /\ Len(RowsOf(c)) < r.capacity
  <2> DEFINE V == Values \cup {0}
             old == Rows(r, page)
             new == Rows(q, after)
  <2>1. cache'[c] = q
    BY <1>1, <1>2
  <2>2. RowsOf(c) = old /\ RowsOf(c)' = new
    BY <2>1 DEF RowsOf, Rows
  <2>3. /\ old \in Seq(V) /\ Len(old) = s
        /\ \A i \in 1..s : old[i] = page[r.pages[PageOf(i)]][RowOf(i)]
    BY <1>2, RowsTyped
  <2>4. /\ new \in Seq(V) /\ Len(new) = s + 1
        /\ \A i \in 1..(s + 1) : new[i] = after[r.pages[PageOf(i)]][RowOf(i)]
    <3> HIDE DEF after
    <3> QED BY <1>7, <1>9, <1>10, RowsTyped
  <2>5. ASSUME NEW i \in 1..s
        PROVE  after[r.pages[PageOf(i)]][RowOf(i)] = page[r.pages[PageOf(i)]][RowOf(i)]
    <3>1. PageOf(i) \in 1..Len(r.pages) /\ RowOf(i) \in Offsets /\ r.pages[PageOf(i)] \in Addresses
      BY <1>2, TokenPlaced
    <3>2. CASE PageOf(i) = k0
      <4>1. i \in Nat \ {0} /\ i # s + 1
        BY <1>3
      <4>2. RowOf(i) # row
        BY <1>3, <1>4, <3>2, <4>1, RowsDiffer
      <4> QED BY <1>10, <3>1, <3>2, <4>2
    <3>3. CASE PageOf(i) # k0
      <4>1. r.pages[PageOf(i)] # a
        BY <1>4, <1>11, <3>1, <3>3 DEF InPlace
      <4> QED BY <1>10, <3>1, <4>1
    <3> QED BY <3>2, <3>3
  <2>6. new[s + 1] = value
    <3>1. s + 1 \in 1..(s + 1)
      BY <1>3
    <3> QED BY <1>4, <1>10, <2>4, <3>1
  <2>7. value \in V
    OBVIOUS
  <2> HIDE DEF old, new, V, s
  <2>8. /\ Append(old, value) \in Seq(V) /\ Len(Append(old, value)) = s + 1
        /\ \A i \in 1..s : Append(old, value)[i] = old[i]
        /\ Append(old, value)[s + 1] = value
    BY <2>3, <2>7, AppendProperties
  <2>9. \A i \in 1..(s + 1) : new[i] = Append(old, value)[i]
    <3> SUFFICES ASSUME NEW i \in 1..(s + 1) PROVE new[i] = Append(old, value)[i]
      OBVIOUS
    <3>1. CASE i = s + 1
      BY <2>6, <2>8, <3>1
    <3>2. CASE i \in 1..s
      <4> HIDE DEF after, r
      <4> QED BY <2>3, <2>4, <2>5, <2>8, <3>2
    <3> QED BY <1>8, <3>1, <3>2
  <2>10. new = Append(old, value)
    <3> DEFINE t == Append(old, value)
    <3>1. t \in Seq(V) /\ Len(t) = Len(new) /\ \A i \in 1..Len(new) : new[i] = t[i]
      BY <2>4, <2>8, <2>9
    <3> HIDE DEF t
    <3>2. new = t
      BY <2>4, <3>1, SameRows
    <3> QED BY <3>2 DEF t
  <2> QED BY <1>3, <1>7, <2>1, <2>2, <2>3, <2>10
<1> QED
  BY <1>12, <1>13, <1>14

(* A cache d that is a cut of cache c.                                      *)
TakesFrom(c, d, q) ==
    LET r == cache[c] IN
    /\ c \notin open /\ c # d /\ cache[d].capacity = 0
    /\ q \in Record /\ q.size <= r.size /\ q.size <= q.capacity /\ q.capacity # 0
    /\ Len(q.pages) = PagesFor(q.size) /\ Len(q.pages) <= Len(r.pages)
    /\ \A k \in 1..Len(q.pages) : q.pages[k] = r.pages[k]
    /\ Len(q.table) = q.size
    /\ \A i \in 1..q.size : q.table[i] = r.table[i]
    /\ cache' = [cache EXCEPT ![d] = q] /\ page' = page /\ open' = open

(* A cache that does not exist is not in the middle of append.              *)
LEMMA OpenExists ==
    ASSUME Inv, NEW c \in open
    PROVE  cache[c].capacity # 0 /\ c \in Caches
<1>1. Ready(cache[c]) /\ cache[c] \in Record /\ c \in Caches
  BY DEF Inv
<1> QED
  BY <1>1, RecordFields DEF Ready

(* Nothing that is copied is seen to be shared: the cut has the rows it was *)
(* cut from.                                                                *)
LEMMA TakeStep ==
    ASSUME Inv, NEW c \in Caches, NEW d \in Caches, NEW q, TakesFrom(c, d, q)
    PROVE  /\ Inv'
           /\ Len(RowsOf(c)) = cache[c].size
           /\ RowsOf(d)' = SubSeq(RowsOf(c), 1, q.size) /\ cache'[d].capacity = q.capacity
           /\ \A e \in Caches \ {d} :
                 RowsOf(e)' = RowsOf(e) /\ cache'[e].capacity = cache[e].capacity
<1> DEFINE r == cache[c]
<1>1. /\ c \notin open /\ c # d /\ cache[d].capacity = 0
      /\ q \in Record /\ q.size <= r.size /\ q.size <= q.capacity /\ q.capacity # 0
      /\ Len(q.pages) = PagesFor(q.size) /\ Len(q.pages) <= Len(r.pages)
      /\ \A k \in 1..Len(q.pages) : q.pages[k] = r.pages[k]
      /\ Len(q.table) = q.size
      /\ \A i \in 1..q.size : q.table[i] = r.table[i]
      /\ cache' = [cache EXCEPT ![d] = q] /\ page' = page /\ open' = open
  BY DEF TakesFrom
<1>2. /\ Shape(r) /\ r \in Record /\ page \in [Addresses -> Content]
      /\ cache \in [Caches -> Record] /\ open \subseteq Caches
  BY DEF Inv, Shape
<1>3. /\ q.size \in Nat /\ Len(q.pages) \in Nat /\ r.size \in Nat /\ Len(r.pages) \in Nat
  BY <1>1, <1>2, RecordFields
<1>4. d \notin open
  BY <1>1, OpenExists
<1>5. /\ \A i \in 1..q.size : i \in 1..r.size
      /\ \A k \in 1..Len(q.pages) : k \in 1..Len(r.pages)
  BY <1>1, <1>3
<1>6. \A i \in 1..q.size : q.pages[PageOf(i)] = r.pages[PageOf(i)]
  BY <1>1, <1>3, PagesHold
<1>7. Shape(q)
  <2>1. \A i \in 1..q.size : q.table[i] = Cell(q.pages[PageOf(i)], RowOf(i))
    BY <1>1, <1>2, <1>5, <1>6 DEF Shape
  <2>2. PagesFor(q.size) <= Len(q.pages)
    BY <1>1, <1>3
  <2> QED BY <1>1, <2>1, <2>2 DEF Shape
<1>8. Inv'
  <2>1. InPlace(r, r) /\ \A e \in Caches : InPlace(cache[e], r)
    BY DEF Inv
  <2>2. InPlace(q, q) /\ \A e \in Caches : InPlace(cache[e], q)
    BY <1>1, <1>5, <2>1 DEF InPlace
  <2>3. \A e \in open : Apart(cache[e], q)
    <3>1. \A e \in open : Apart(cache[e], r)
      BY <1>1 DEF Inv
    <3> QED BY <1>1, <1>5, <3>1 DEF Apart
  <2> HIDE DEF r
  <2> QED BY <1>1, <1>2, <1>4, <1>7, <2>2, <2>3, InvUpdate
<1>9. \A e \in Caches \ {d} : RowsOf(e)' = RowsOf(e) /\ cache'[e].capacity = cache[e].capacity
  BY <1>1, <1>2, OthersKeep
<1>10. /\ Len(RowsOf(c)) = r.size /\ RowsOf(d)' = SubSeq(RowsOf(c), 1, q.size)
       /\ cache'[d].capacity = q.capacity
  <2> DEFINE V == Values \cup {0}
             n == q.size
             old == Rows(r, page)
             new == Rows(q, page)
             cut == SubSeq(old, 1, n)
  <2>1. cache'[d] = q
    BY <1>1, <1>2
  <2>2. RowsOf(c) = old /\ RowsOf(d)' = new
    BY <1>1, <2>1 DEF RowsOf, Rows
  <2>3. /\ old \in Seq(V) /\ Len(old) = r.size
        /\ \A i \in 1..r.size : old[i] = page[r.pages[PageOf(i)]][RowOf(i)]
    BY <1>2, RowsTyped
  <2>4. /\ new \in Seq(V) /\ Len(new) = n
        /\ \A i \in 1..n : new[i] = page[q.pages[PageOf(i)]][RowOf(i)]
    BY <1>2, <1>7, RowsTyped
  <2> HIDE DEF old, new, V, r
  <2>5. /\ cut \in Seq(V) /\ Len(cut) = n
        /\ \A i \in 1..n : cut[i] = old[i]
    <3>1. n \in Nat /\ n <= Len(old) /\ 1 \in 1..(Len(old) + 1)
      BY <1>1, <1>3, <2>3
    <3> HIDE DEF n
    <3>2. n \in (1 - 1)..Len(old)
      BY <1>3, <2>3, <3>1
    <3>3. /\ cut \in Seq(V)
          /\ Len(cut) = IF 1 <= n THEN n - 1 + 1 ELSE 0
          /\ \A i \in 1..(n - 1 + 1) : cut[i] = old[1 + i - 1]
      BY <2>3, <3>1, <3>2, SubSeqProperties
    <3>4. n - 1 + 1 = n /\ \A i \in 1..n : 1 + i - 1 = i
      BY <3>1
    <3> HIDE DEF cut
    <3> QED BY <3>1, <3>3, <3>4
  <2> HIDE DEF cut
  <2>8. n \in Nat /\ n = q.size
    BY <1>3
  <2> HIDE DEF n
  <2>6. \A i \in 1..Len(new) : new[i] = cut[i]
    <3> SUFFICES ASSUME NEW i \in 1..Len(new)
                 PROVE  new[i] = cut[i]
      OBVIOUS
    <3>1. i \in 1..n /\ i \in 1..q.size
      BY <2>4, <2>8
    <3>2. new[i] = page[q.pages[PageOf(i)]][RowOf(i)]
      BY <2>4, <3>1
    <3>3. old[i] = page[r.pages[PageOf(i)]][RowOf(i)]
      <4>1. i \in 1..r.size
        BY <1>5, <3>1 DEF r
      <4> QED BY <2>3, <4>1
    <3>4. q.pages[PageOf(i)] = r.pages[PageOf(i)]
      BY <1>6, <3>1 DEF r
    <3>5. cut[i] = old[i]
      BY <2>5, <3>1
    <3> QED BY <3>2, <3>3, <3>4, <3>5
  <2>7. new = cut
    BY <2>4, <2>5, <2>6, SameRows
  <2> QED BY <2>1, <2>2, <2>3, <2>7 DEF cut, n, r
<1> QED
  BY <1>8, <1>9, <1>10

(* A prefix holds the first n rows.                                         *)
LEMMA PrefixStep ==
    ASSUME Inv, NEW c \in Caches, NEW d \in Caches, NEW n \in 1..MaxCapacity, Prefix(c, d, n)
    PROVE  /\ Inv'
           /\ n \in 1..Len(RowsOf(c))
           /\ RowsOf(d)' = SubSeq(RowsOf(c), 1, n) /\ cache'[d].capacity = n
           /\ \A e \in Caches \ {d} :
                 RowsOf(e)' = RowsOf(e) /\ cache'[e].capacity = cache[e].capacity
<1> DEFINE r == cache[c]
           P == PagesFor(n)
           pages == SubSeq(r.pages, 1, P)
           table == SubSeq(r.table, 1, n)
           q == [capacity |-> n, size |-> n, pages |-> pages, table |-> table]
<1>1. /\ Exists(c) /\ c \notin open /\ ~Exists(d) /\ n \in 1..r.size
      /\ cache' = [cache EXCEPT ![d] = q] /\ page' = page /\ open' = open
  BY DEF Prefix, Idle
<1>2. Shape(r) /\ r \in Record /\ cache[d] \in Record
  BY DEF Inv, Shape
<1>3. /\ r.size \in Nat /\ Len(r.pages) \in Nat /\ cache[d].capacity \in Nat
      /\ r.pages \in Seq(Addresses) /\ r.table \in Seq(Cells) /\ r.capacity \in Nat
      /\ Len(r.table) = r.size /\ PagesFor(r.size) <= Len(r.pages)
  BY <1>2, RecordFields DEF Shape
<1>4. n \in Nat /\ n # 0 /\ n <= r.size /\ P \in Nat /\ P <= PagesFor(r.size) /\ PagesFor(r.size) \in Nat
  <2>1. n \in Nat /\ n # 0 /\ n <= r.size
    BY <1>1, <1>3
  <2> QED BY <1>3, <2>1, PagesMonotone
<1> HIDE DEF P
<1>5. /\ pages \in Seq(Addresses) /\ Len(pages) = P
      /\ \A k \in 1..P : pages[k] = r.pages[k]
  <2>1. \A k \in 1..P : r.pages[k] \in Addresses
    BY <1>2, <1>3, <1>4, RecordFields
  <2>2. /\ pages \in Seq(Addresses) /\ Len(pages) = IF 1 <= P THEN P - 1 + 1 ELSE 0
        /\ \A k \in 1..(P - 1 + 1) : pages[k] = r.pages[1 + k - 1]
    BY <1>4, <2>1, SubSeqProperties
  <2>3. P - 1 + 1 = P /\ \A k \in 1..P : 1 + k - 1 = k
    BY <1>4
  <2> HIDE DEF pages
  <2> QED BY <1>4, <2>2, <2>3
<1>6. /\ table \in Seq(Cells) /\ Len(table) = n
      /\ \A i \in 1..n : table[i] = r.table[i]
  <2>1. \A i \in 1..n : r.table[i] \in Cells
    BY <1>3, <1>4, ElementOfSeq
  <2>2. /\ table \in Seq(Cells) /\ Len(table) = IF 1 <= n THEN n - 1 + 1 ELSE 0
        /\ \A i \in 1..(n - 1 + 1) : table[i] = r.table[1 + i - 1]
    BY <1>4, <2>1, SubSeqProperties
  <2>3. n - 1 + 1 = n /\ \A i \in 1..n : 1 + i - 1 = i
    BY <1>4
  <2> HIDE DEF table
  <2> QED BY <1>4, <2>2, <2>3
<1>7. /\ q \in Record /\ q.size = n /\ q.capacity = n /\ q.pages = pages /\ q.table = table
  <2>1. n \in 0..MaxCapacity
    BY MaxCapacityIs
  <2> HIDE DEF pages, table
  <2> QED BY <1>5, <1>6, <2>1 DEF Record
<1> HIDE DEF q, pages, table
<1>8. c # d /\ cache[d].capacity = 0
  BY <1>1, <1>3 DEF Exists
<1>9. TakesFrom(c, d, q)
  BY <1>1, <1>3, <1>4, <1>5, <1>6, <1>7, <1>8 DEF TakesFrom, P
<1> HIDE DEF r
<1> QED
  BY <1>1, <1>7, <1>9, TakeStep DEF r

(* A branch holds all of them.                                              *)
LEMMA BranchStep ==
    ASSUME Inv, NEW c \in Caches, NEW d \in Caches, NEW capacity \in Capacities,
           Branch(c, d, capacity)
    PROVE  /\ Inv'
           /\ capacity >= Len(RowsOf(c))
           /\ RowsOf(d)' = RowsOf(c) /\ cache'[d].capacity = capacity
           /\ \A e \in Caches \ {d} :
                 RowsOf(e)' = RowsOf(e) /\ cache'[e].capacity = cache[e].capacity
<1> DEFINE r == cache[c]
           q == [r EXCEPT !.capacity = capacity]
<1>1. /\ Exists(c) /\ c \notin open /\ ~Exists(d) /\ capacity >= r.size
      /\ cache' = [cache EXCEPT ![d] = q] /\ page' = page /\ open' = open
  BY DEF Branch, Idle
<1>2. /\ Shape(r) /\ r \in Record /\ cache[d] \in Record /\ page \in [Addresses -> Content]
      /\ Len(r.pages) = PagesFor(r.size)
  BY <1>1 DEF Inv, Shape
<1>3. /\ r.size \in Nat /\ cache[d].capacity \in Nat /\ r.capacity \in Nat
      /\ Len(r.table) = r.size /\ Len(r.pages) \in Nat
  BY <1>2, RecordFields DEF Shape
<1>4. capacity \in 1..MaxCapacity /\ capacity \in 0..MaxCapacity /\ capacity \in Nat /\ capacity # 0
  BY MaxCapacityIs
<1>5. /\ q \in Record /\ q.size = r.size /\ q.capacity = capacity
      /\ q.pages = r.pages /\ q.table = r.table
  <2> HIDE DEF r
  <2> QED BY <1>2, <1>4 DEF Record
<1> HIDE DEF q
<1>6. c # d /\ cache[d].capacity = 0
  BY <1>1, <1>3 DEF Exists
<1>7. TakesFrom(c, d, q)
  BY <1>1, <1>2, <1>3, <1>4, <1>5, <1>6 DEF TakesFrom
<1>8. /\ Inv' /\ Len(RowsOf(c)) = r.size
      /\ RowsOf(d)' = SubSeq(RowsOf(c), 1, q.size) /\ cache'[d].capacity = q.capacity
      /\ \A e \in Caches \ {d} :
            RowsOf(e)' = RowsOf(e) /\ cache'[e].capacity = cache[e].capacity
  <2> HIDE DEF r
  <2> QED BY <1>7, TakeStep DEF r
<1>9. SubSeq(RowsOf(c), 1, q.size) = RowsOf(c)
  <2> DEFINE V == Values \cup {0}
             old == RowsOf(c)
             cut == SubSeq(old, 1, r.size)
  <2>1. old = Rows(r, page)
    BY DEF RowsOf, Rows
  <2>2. old \in Seq(V) /\ Len(old) = r.size
    BY <1>2, <2>1, RowsTyped
  <2> HIDE DEF old, V, r
  <2>3. /\ cut \in Seq(V) /\ Len(cut) = r.size
        /\ \A i \in 1..r.size : cut[i] = old[i]
    <3>1. \A i \in 1..r.size : old[i] \in V
      BY <2>2, ElementOfSeq
    <3>2. /\ cut \in Seq(V) /\ Len(cut) = IF 1 <= r.size THEN r.size - 1 + 1 ELSE 0
          /\ \A i \in 1..(r.size - 1 + 1) : cut[i] = old[1 + i - 1]
      BY <1>3, <3>1, SubSeqProperties
    <3>3. r.size - 1 + 1 = r.size /\ \A i \in 1..r.size : 1 + i - 1 = i
      BY <1>3
    <3> HIDE DEF cut
    <3> QED BY <1>3, <3>2, <3>3
  <2> HIDE DEF cut
  <2>4. cut = old
    BY <2>2, <2>3, SameRows
  <2> QED BY <1>5, <2>4 DEF cut, old
<1> QED
  BY <1>1, <1>5, <1>8, <1>9

(* A new cache is empty.                                                    *)
LEMMA CreateStep ==
    ASSUME Inv, NEW c \in Caches, NEW capacity \in Capacities, Create(c, capacity)
    PROVE  /\ Inv'
           /\ cache[c].capacity = 0 /\ RowsOf(c)' = <<>> /\ cache'[c].capacity = capacity
           /\ \A d \in Caches \ {c} :
                 RowsOf(d)' = RowsOf(d) /\ cache'[d].capacity = cache[d].capacity
<1> DEFINE q == [cache[c] EXCEPT !.capacity = capacity]
<1>1. /\ ~Exists(c) /\ page' = page /\ open' = open
      /\ cache' = [cache EXCEPT ![c] = q]
  BY DEF Create
<1>2. /\ Shape(cache[c]) /\ cache[c] \in Record /\ page \in [Addresses -> Content]
      /\ cache \in [Caches -> Record] /\ open \subseteq Caches
  BY DEF Inv, Shape
<1>3. cache[c].capacity \in Nat
  BY <1>2, RecordFields
<1>4. cache[c].capacity = 0 /\ cache[c] = NoCache
  BY <1>1, <1>2, <1>3 DEF Exists, Shape
<1>5. c \notin open
  BY <1>4, OpenExists
<1>6. capacity \in 0..MaxCapacity /\ capacity \in Nat /\ capacity # 0
  BY MaxCapacityIs
<1>7. /\ q \in Record /\ q.size = 0 /\ q.capacity = capacity
      /\ q.pages = <<>> /\ q.table = <<>>
  <2>1. cache[c].size = 0 /\ cache[c].pages = <<>> /\ cache[c].table = <<>>
    BY <1>4 DEF NoCache
  <2> QED BY <1>2, <1>6, <2>1 DEF Record
<1> HIDE DEF q
<1>8. Len(q.pages) = 0 /\ Len(q.table) = 0 /\ PagesFor(q.size) = 0
  BY <1>7, PagesForIs
<1>9. Shape(q)
  BY <1>6, <1>7, <1>8 DEF Shape
<1>10. InPlace(q, q) /\ \A d \in Caches : InPlace(cache[d], q) /\ Apart(cache[d], q)
  BY <1>8 DEF InPlace, Apart
<1>11. Inv'
  BY <1>1, <1>2, <1>5, <1>8, <1>9, <1>10, InvUpdate
<1>12. \A d \in Caches \ {c} : RowsOf(d)' = RowsOf(d) /\ cache'[d].capacity = cache[d].capacity
  BY <1>1, <1>2, OthersKeep
<1>13. RowsOf(c)' = <<>> /\ cache'[c].capacity = capacity
  <2>1. cache'[c] = q
    BY <1>1, <1>2
  <2> QED BY <1>7, <2>1 DEF RowsOf
<1> QED
  BY <1>4, <1>11, <1>12, <1>13

(* Dropping a cache takes the pages nobody else has.                        *)
LEMMA DropStep ==
    ASSUME Inv, NEW c \in Caches, Drop(c)
    PROVE  /\ Inv'
           /\ cache[c].capacity > 0 /\ RowsOf(c)' = <<>> /\ cache'[c].capacity = 0
           /\ \A d \in Caches \ {c} :
                 RowsOf(d)' = RowsOf(d) /\ cache'[d].capacity = cache[d].capacity
<1>1. /\ Exists(c) /\ c \notin open /\ open' = open
      /\ cache' = [cache EXCEPT ![c] = NoCache]
      /\ page' = [a \in Addresses |-> IF Holders(a) = {c} THEN Blank ELSE page[a]]
  BY DEF Drop, Idle
<1>2. /\ cache \in [Caches -> Record] /\ page \in [Addresses -> Content] /\ open \subseteq Caches
  BY DEF Inv
<1>3. Blank \in Content /\ page' \in [Addresses -> Content]
  BY <1>1, <1>2 DEF Blank, Content
<1>4. /\ NoCache.size = 0 /\ NoCache.capacity = 0 /\ Len(NoCache.pages) = 0
      /\ Len(NoCache.table) = 0 /\ PagesFor(NoCache.size) = 0
  BY PagesForIs DEF NoCache
<1>5. Shape(NoCache)
  <2>1. NoCache \in Record
    <3>1. 0 \in 0..MaxCapacity
      BY MaxCapacityIs
    <3> QED BY <3>1 DEF NoCache, Record
  <2> QED BY <1>4, <2>1 DEF Shape
<1>6. InPlace(NoCache, NoCache) /\ \A d \in Caches : InPlace(cache[d], NoCache) /\ Apart(cache[d], NoCache)
  BY <1>4 DEF InPlace, Apart
<1>7. Inv'
  BY <1>1, <1>2, <1>3, <1>4, <1>5, <1>6, InvUpdate
<1>8. ASSUME NEW d \in Caches \ {c}
      PROVE  RowsOf(d)' = RowsOf(d) /\ cache'[d].capacity = cache[d].capacity
  <2>1. cache'[d] = cache[d]
    BY <1>1, <1>2
  <2>2. ASSUME NEW k \in 1..Len(cache[d].pages)
        PROVE  page'[cache[d].pages[k]] = page[cache[d].pages[k]]
    <3>1. cache[d].pages[k] \in Addresses /\ k \in DOMAIN cache[d].pages
      BY <1>2, RecordFields
    <3>2. d \in Holders(cache[d].pages[k])
      BY <3>1 DEF Holders
    <3>3. Holders(cache[d].pages[k]) # {c}
      BY <3>2
    <3> QED BY <1>1, <3>1, <3>3
  <2> QED BY <1>3, <2>1, <2>2, OthersKeep
<1>9. RowsOf(c)' = <<>> /\ cache'[c].capacity = 0
  <2>1. cache'[c] = NoCache
    BY <1>1, <1>2
  <2> QED BY <1>4, <2>1 DEF RowsOf
<1> QED
  BY <1>1, <1>7, <1>8, <1>9 DEF Exists

-----------------------------------------------------------------------------
(* The refinement.                                                          *)

(* The initial states.                                                      *)
LEMMA InitStep ==
    ASSUME Init
    PROVE  Inv /\ PR!Init
<1>1. /\ NoCache.size = 0 /\ NoCache.capacity = 0 /\ Len(NoCache.pages) = 0
      /\ Len(NoCache.table) = 0 /\ PagesFor(NoCache.size) = 0
  BY PagesForIs DEF NoCache
<1>2. NoCache \in Record
  <2>1. 0 \in 0..MaxCapacity
    BY MaxCapacityIs
  <2> QED BY <2>1 DEF NoCache, Record
<1>3. /\ Shape(NoCache) /\ InPlace(NoCache, NoCache)
      /\ \A c \in Caches : cache[c] = NoCache
  BY <1>1, <1>2 DEF Shape, InPlace, Init
<1>4. cache \in [Caches -> Record] /\ page \in [Addresses -> Content] /\ open = {}
  BY <1>2 DEF Init, Blank, Content
<1>5. Inv
  BY <1>1, <1>3, <1>4 DEF Inv
<1>6. \A c \in Caches : RowsOf(c) = <<>> /\ cache[c].capacity = 0
  BY <1>1, <1>3 DEF RowsOf
<1> QED
  BY <1>5, <1>6 DEF PR!Init

(* A step that changes the rows and the capacity of one cache.              *)
LEMMA Becomes ==
    ASSUME NEW c \in Caches, NEW list, NEW capacity,
           RowsOf(c)' = list, cache'[c].capacity = capacity,
           \A d \in Caches \ {c} :
              RowsOf(d)' = RowsOf(d) /\ cache'[d].capacity = cache[d].capacity
    PROVE  PR!Become(c, list, capacity)
BY DEF PR!Become

(* A step that changes neither.                                             *)
LEMMA Stutters ==
    ASSUME \A d \in Caches : RowsOf(d)' = RowsOf(d) /\ cache'[d].capacity = cache[d].capacity
    PROVE  UNCHANGED PR!rowVars
BY DEF PR!rowVars

(* Every step keeps the invariant and is a step of private rows, or changes *)
(* nothing there.                                                           *)
LEMMA StepMaps ==
    ASSUME Inv, [Next]_vars
    PROVE  Inv' /\ [PR!Next]_PR!rowVars
<1> DEFINE A == [c \in Caches |-> RowsOf(c)]
           R == [c \in Caches |-> cache[c].capacity]
<1>1. \A c \in Caches : A[c] = RowsOf(c) /\ R[c] = cache[c].capacity
  OBVIOUS
<1>2. ASSUME NEW c \in Caches, NEW capacity \in Capacities, Create(c, capacity)
      PROVE  Inv' /\ PR!Next
  <2>1. capacity \in 1..MaxCapacity
    BY MaxCapacityIs
  <2>2. PR!Create(c, capacity)
    BY <1>1, <1>2, CreateStep, Becomes DEF PR!Create
  <2>3. Inv'
    BY <1>2, CreateStep
  <2> QED BY <2>1, <2>2, <2>3 DEF PR!Next
<1>3. ASSUME NEW c \in Caches, OpenNewPage(c) \/ OpenCopy(c) \/ OpenInPlace(c)
      PROVE  Inv' /\ UNCHANGED PR!rowVars
  BY <1>3, OpenStep, Stutters
<1>4. ASSUME NEW c \in Caches, NEW value \in Values, Store(c, value)
      PROVE  Inv' /\ PR!Next
  <2> DEFINE longer == Append(RowsOf(c), value)
  <2>1. /\ Inv' /\ Len(RowsOf(c)) < cache[c].capacity
        /\ RowsOf(c)' = longer /\ cache'[c].capacity = cache[c].capacity
        /\ \A d \in Caches \ {c} :
              RowsOf(d)' = RowsOf(d) /\ cache'[d].capacity = cache[d].capacity
    BY <1>4, StoreStep
  <2>2. A[c] = RowsOf(c) /\ R[c] = cache[c].capacity
    BY <1>1
  <2>3. /\ [d \in Caches |-> RowsOf(d)]' = [A EXCEPT ![c] = longer]
        /\ [d \in Caches |-> cache[d].capacity]' = [R EXCEPT ![c] = cache[c].capacity]
    <3> HIDE DEF longer
    <3> QED BY <2>1
  <2>4. PR!AppendRow(c, value)
    <3>1. longer = Append(A[c], value) /\ Len(A[c]) < R[c]
      BY <2>1, <2>2
    <3> HIDE DEF longer
    <3> QED BY <2>2, <2>3, <3>1 DEF PR!AppendRow, PR!Become
  <2> QED BY <2>1, <2>4 DEF PR!Next
<1>5. ASSUME NEW c \in Caches, NEW d \in Caches, NEW n \in 1..MaxCapacity, Prefix(c, d, n)
      PROVE  Inv' /\ PR!Next
  <2>1. cache[d].capacity = 0
    <3>1. cache[d].capacity \in Nat
      BY RecordFields DEF Inv
    <3> QED BY <1>5, <3>1 DEF Prefix, Exists
  <2>2. PR!Prefix(c, d, n)
    BY <1>1, <1>5, <2>1, PrefixStep, Becomes DEF PR!Prefix
  <2>3. Inv'
    BY <1>5, PrefixStep
  <2> QED BY <2>2, <2>3 DEF PR!Next
<1>6. ASSUME NEW c \in Caches, NEW d \in Caches, NEW capacity \in Capacities,
             Branch(c, d, capacity)
      PROVE  Inv' /\ PR!Next
  <2>1. cache[d].capacity = 0 /\ cache[c].capacity > 0
    <3>1. cache[d].capacity \in Nat
      BY RecordFields DEF Inv
    <3> QED BY <1>6, <3>1 DEF Branch, Exists
  <2>2. capacity \in 1..MaxCapacity
    BY MaxCapacityIs
  <2>3. PR!Branch(c, d, capacity)
    BY <1>1, <1>6, <2>1, BranchStep, Becomes DEF PR!Branch
  <2>4. Inv'
    BY <1>6, BranchStep
  <2> QED BY <2>2, <2>3, <2>4 DEF PR!Next
<1>7. ASSUME NEW c \in Caches, Drop(c)
      PROVE  Inv' /\ PR!Next
  <2>1. PR!Drop(c)
    BY <1>1, <1>7, DropStep, Becomes DEF PR!Drop
  <2>2. Inv'
    BY <1>7, DropStep
  <2> QED BY <2>1, <2>2 DEF PR!Next
<1>8. CASE UNCHANGED vars
  BY <1>8 DEF vars, Inv, PR!rowVars, RowsOf
<1> QED
  BY <1>2, <1>3, <1>4, <1>5, <1>6, <1>7, <1>8 DEF Next

(* The page tables stay in good shape in every reachable state:             *)
(* every row is where the arithmetic puts it, a page has one place in all   *)
(* caches that hold it, and the page that is being written has one holder.  *)
THEOREM PagesAreSound == Spec => []Inv
<1>1. Init => Inv
  BY InitStep
<1>2. Inv /\ [Next]_vars => Inv'
  BY StepMaps
<1> QED
  BY <1>1, <1>2, PTL DEF Spec

(* Sharing pages cannot be told from copying rows, whatever the             *)
(* number of caches, the page size and the capacities: no append is ever    *)
(* seen by another cache (KvPagesF16::append, prefix, branch).              *)
THEOREM RowsArePrivate == Spec => ImplementsPrivateRows
<1>1. Init => PR!Init
  BY InitStep
<1>2. Inv /\ [Next]_vars => [PR!Next]_PR!rowVars
  BY StepMaps
<1> QED
  BY <1>1, <1>2, PagesAreSound, PTL DEF Spec, PR!Spec, ImplementsPrivateRows
=============================================================================
