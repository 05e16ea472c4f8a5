------------------------ MODULE CpuExecutor_proofs ------------------------
(***************************************************************************)
(* The executor never writes a mailbox that is being read, and runs each    *)
(* row of a job exactly once before the call returns, for any number of     *)
(* threads, callers, rows and jobs.                                         *)
(***************************************************************************)
EXTENDS CpuExecutor, FiniteSetTheorems, TLAPS

(* The ranges of a job.                                                     *)

\* What integer division leaves, for the quotient and remainder of the ranges.
LEMMA Division ==
    ASSUME NEW n \in Nat, NEW d \in Nat \ {0}
    PROVE  /\ n \div d \in Nat /\ n % d \in 0..(d - 1)
           /\ n = d * (n \div d) + (n % d)
  BY Z3

\* A range begins where the one before it ends, and holds the quotient or one
\* row more.
LEMMA BeginStep ==
    ASSUME NEW rows \in Nat, NEW parts \in Nat \ {0}, NEW p \in Nat
    PROVE  /\ Begin(rows, parts, p) \in Nat
           /\ Begin(rows, parts, p + 1) =
                Begin(rows, parts, p) + (rows \div parts) + (IF p < (rows % parts) THEN 1 ELSE 0)
<1> DEFINE q == rows \div parts
           r == rows % parts
<1>1. q \in Nat /\ r \in Nat
  BY Division
<1> HIDE DEF q, r
<1>2. p * q \in Nat /\ (p + 1) * q = (p * q) + q
  BY <1>1, Z3
<1>3. Begin(rows, parts, p) = (p * q) + (IF p <= r THEN p ELSE r)
  BY DEF Begin, q, r
<1>4. Begin(rows, parts, p + 1) = ((p + 1) * q) + (IF p + 1 <= r THEN p + 1 ELSE r)
  BY DEF Begin, q, r
<1>5. /\ Begin(rows, parts, p) \in Nat
      /\ Begin(rows, parts, p + 1) = Begin(rows, parts, p) + q + (IF p < r THEN 1 ELSE 0)
  BY <1>1, <1>2, <1>3, <1>4
<1> QED
  BY <1>5 DEF q, r

\* Later ranges begin later, and where the earlier ones have ended.
LEMMA BeginMonotone ==
    ASSUME NEW rows \in Nat, NEW parts \in Nat \ {0}, NEW p \in Nat, NEW s \in Nat, p < s
    PROVE  Begin(rows, parts, p + 1) <= Begin(rows, parts, s)
<1> DEFINE q == rows \div parts
           r == rows % parts
<1>1. q \in Nat /\ r \in Nat
  BY Division
<1> HIDE DEF q, r
<1>2. (p + 1) * q \in Nat /\ s * q \in Nat /\ (p + 1) * q <= s * q
  <2>1. PICK k \in Nat : s = p + 1 + k
    <3>1. s - (p + 1) \in Nat /\ s = p + 1 + (s - (p + 1))
      OBVIOUS
    <3> QED BY <3>1
  <2>2. k * q \in Nat /\ s * q = ((p + 1) * q) + (k * q) /\ (p + 1) * q \in Nat
    BY <1>1, <2>1, Z3
  <2> QED BY <2>2, <2>1, <1>1
<1>3. Begin(rows, parts, s) = (s * q) + (IF s <= r THEN s ELSE r)
  BY DEF Begin, q, r
<1>4. Begin(rows, parts, p + 1) = ((p + 1) * q) + (IF p + 1 <= r THEN p + 1 ELSE r)
  BY DEF Begin, q, r
<1> HIDE <1>1
<1> DEFINE a == (p + 1) * q
           b == s * q
<1>5. a \in Nat /\ b \in Nat /\ a <= b
  BY <1>2
<1>6. Begin(rows, parts, s) = b + (IF s <= r THEN s ELSE r)
      /\ Begin(rows, parts, p + 1) = a + (IF p + 1 <= r THEN p + 1 ELSE r)
  BY <1>3, <1>4
<1> HIDE DEF a, b
<1> QED
  BY <1>1, <1>5, <1>6

\* The first range begins at row 0, the last one ends at the last row.
LEMMA BeginEnds ==
    ASSUME NEW rows \in Nat, NEW parts \in Nat \ {0}
    PROVE  Begin(rows, parts, 0) = 0 /\ Begin(rows, parts, parts) = rows
<1> DEFINE q == rows \div parts
           r == rows % parts
<1>1. q \in Nat /\ r \in 0..(parts - 1) /\ rows = (parts * q) + r
  BY Division
<1> HIDE DEF q, r
<1>2. 0 * q = 0
  BY <1>1
<1>3. Begin(rows, parts, 0) = (0 * q) + (IF 0 <= r THEN 0 ELSE r)
  BY DEF Begin, q, r
<1>4. Begin(rows, parts, parts) = (parts * q) + (IF parts <= r THEN parts ELSE r)
  BY DEF Begin, q, r
<1>5. ~(parts <= r)
  BY <1>1
<1> QED
  BY <1>1, <1>2, <1>3, <1>4, <1>5

\* static_row_range: no row of a job is given to two threads.
THEOREM RangesDisjoint ==
    ASSUME NEW rows \in Nat, NEW parts \in Nat \ {0},
           NEW p \in Nat, NEW s \in Nat, p # s
    PROVE  RowRange(rows, parts, p) \cap RowRange(rows, parts, s) = {}
<1>1. ASSUME NEW a \in Nat, NEW b \in Nat, a < b
      PROVE  RowRange(rows, parts, a) \cap RowRange(rows, parts, b) = {}
  <2>1. Begin(rows, parts, a + 1) <= Begin(rows, parts, b)
    BY <1>1, BeginMonotone
  <2>2. /\ Begin(rows, parts, a) \in Nat /\ Begin(rows, parts, a + 1) \in Nat
        /\ Begin(rows, parts, b) \in Nat /\ Begin(rows, parts, b + 1) \in Nat
    <3>1. a + 1 \in Nat /\ b + 1 \in Nat
      OBVIOUS
    <3> QED BY <3>1, BeginStep
  <2> QED BY <2>1, <2>2 DEF RowRange
<1>2. CASE p < s
  BY <1>1, <1>2
<1>3. CASE s < p
  BY <1>1, <1>3
<1> QED
  BY <1>2, <1>3

\* static_row_range: every range lies within the rows of the job, and is not
\* empty when there are no more threads than rows.
THEOREM RangesWithin ==
    ASSUME NEW rows \in Nat, NEW parts \in Nat \ {0}, NEW p \in 0..(parts - 1)
    PROVE  /\ RowRange(rows, parts, p) \subseteq 0..(rows - 1)
           /\ parts <= rows => RowRange(rows, parts, p) # {}
<1>1. /\ Begin(rows, parts, p) \in Nat /\ Begin(rows, parts, p + 1) \in Nat
      /\ Begin(rows, parts, parts) = rows
      /\ p \in Nat /\ p + 1 \in Nat
  <2>1. p \in Nat /\ p + 1 \in Nat
    OBVIOUS
  <2> QED BY <2>1, BeginStep, BeginEnds
<1>2. Begin(rows, parts, p + 1) <= rows
  <2>1. CASE p + 1 = parts
    BY <2>1, <1>1
  <2>2. CASE p + 1 < parts
    <3>1. Begin(rows, parts, (p + 1) + 1) <= Begin(rows, parts, parts)
      <4>1. p + 1 \in Nat /\ parts \in Nat
        BY <1>1
      <4> QED BY <4>1, <2>2, BeginMonotone
    <3>2. Begin(rows, parts, p + 1) <= Begin(rows, parts, (p + 1) + 1)
      <4>1. p + 1 \in Nat /\ (rows \div parts) \in Nat
        BY Division
      <4>2. /\ Begin(rows, parts, p + 1) \in Nat
            /\ Begin(rows, parts, (p + 1) + 1) = Begin(rows, parts, p + 1) + (rows \div parts)
                 + (IF p + 1 < (rows % parts) THEN 1 ELSE 0)
        BY <4>1, BeginStep
      <4> HIDE DEF Begin
      <4> QED BY <4>1, <4>2
    <3>3. Begin(rows, parts, (p + 1) + 1) \in Nat
      BY BeginStep
    <3> QED BY <1>1, <3>1, <3>2, <3>3
  <2> QED BY <2>1, <2>2
<1>3. parts <= rows => Begin(rows, parts, p) < Begin(rows, parts, p + 1)
  <2>1. SUFFICES ASSUME parts <= rows
                 PROVE  (rows \div parts) \in Nat \ {0}
    <3>1. (rows \div parts) \in Nat \ {0} => Begin(rows, parts, p) < Begin(rows, parts, p + 1)
      <4>1. Begin(rows, parts, p + 1) = Begin(rows, parts, p) + (rows \div parts)
              + (IF p < (rows % parts) THEN 1 ELSE 0)
        BY <1>1, BeginStep
      <4> QED BY <4>1, <1>1
    <3> QED BY <3>1
  <2>2. /\ (rows \div parts) \in Nat /\ (rows % parts) \in 0..(parts - 1)
        /\ rows = (parts * (rows \div parts)) + (rows % parts)
    BY Division
  <2>3. (rows \div parts) # 0
    <3>1. SUFFICES ASSUME (rows \div parts) = 0
                   PROVE  FALSE
      OBVIOUS
    <3>2. rows = (parts * 0) + (rows % parts)
      BY <2>2, <3>1
    <3> QED BY <3>2, <2>1, <2>2
  <2> QED BY <2>2, <2>3
<1> QED
  BY <1>1, <1>2, <1>3 DEF RowRange

\* static_row_range: every row of a job is given to some participant.
THEOREM RangesCover ==
    ASSUME NEW rows \in Nat, NEW parts \in Nat \ {0}, NEW row \in 0..(rows - 1)
    PROVE  \E p \in 0..(parts - 1) : row \in RowRange(rows, parts, p)
<1> DEFINE q == rows \div parts
           r == rows % parts
<1>1. q \in Nat /\ r \in 0..(parts - 1) /\ rows = (parts * q) + r
  BY Division
<1> HIDE DEF q, r
<1>2. ASSUME NEW p \in Nat
      PROVE  Begin(rows, parts, p) = (p * q) + (IF p <= r THEN p ELSE r)
  BY DEF Begin, q, r
\* In the first r ranges, of q + 1 rows each.
<1>3. CASE row < r * (q + 1)
  <2> DEFINE p == row \div (q + 1)
             m == row % (q + 1)
  <2>1. p \in Nat /\ m \in 0..q /\ row = ((q + 1) * p) + m
    <3>1. q + 1 \in Nat \ {0} /\ (q + 1) - 1 = q /\ row \in Nat
      BY <1>1
    <3>2. p \in Nat /\ m \in 0..((q + 1) - 1) /\ row = ((q + 1) * p) + m
      BY <3>1, Division
    <3> QED BY <3>1, <3>2
  <2> HIDE DEF p, m
  <2>2. p < r
    <3>1. SUFFICES ASSUME r <= p
                   PROVE  FALSE
      BY <1>1, <2>1
    <3>2. PICK k \in Nat : p = r + k
      <4>1. p - r \in Nat /\ p = r + (p - r)
        BY <3>1, <1>1, <2>1
      <4> QED BY <4>1
    <3>3. k * (q + 1) \in Nat /\ (q + 1) * p = (r * (q + 1)) + (k * (q + 1)) /\ r * (q + 1) \in Nat
      BY <3>2, <1>1, Z3
    <3> QED BY <3>3, <2>1, <1>3, <1>1
  <2>3. /\ Begin(rows, parts, p) = (p * q) + p
        /\ Begin(rows, parts, p + 1) = ((p + 1) * q) + (p + 1)
    <3>1. p + 1 \in Nat /\ p <= r /\ p + 1 <= r
      BY <2>1, <2>2, <1>1
    <3> QED BY <1>2, <2>1, <3>1
  <2>4. (p * q) \in Nat /\ (q + 1) * p = (p * q) + p /\ (p + 1) * q = (p * q) + q
    BY <1>1, <2>1, Z3
  <2>5. row \in RowRange(rows, parts, p)
    BY <1>1, <2>1, <2>3, <2>4 DEF RowRange
  <2> QED BY <2>5, <2>1, <2>2, <1>1
\* Behind them, in ranges of q rows.
<1>4. CASE ~(row < r * (q + 1))
  <2>1. r * (q + 1) \in Nat /\ (r * q) \in Nat /\ r * (q + 1) = (r * q) + r
    BY <1>1, Z3
  <2> DEFINE rest == row - r * (q + 1)
  <2>2. rest \in Nat /\ row = (r * (q + 1)) + rest
    BY <1>4, <2>1
  <2> HIDE DEF rest
  <2>3. q \in Nat \ {0}
    <3>1. SUFFICES ASSUME q = 0
                   PROVE  FALSE
      BY <1>1
    <3>2. parts * 0 = 0 /\ r * (0 + 1) = r
      BY <1>1
    <3> QED BY <3>1, <3>2, <1>1, <1>4
  <2> DEFINE k == rest \div q
             m == rest % q
  <2>4. k \in Nat /\ m \in 0..(q - 1) /\ rest = (q * k) + m
    BY <2>2, <2>3, Division
  <2> HIDE DEF k, m
  <2>5. r + k < parts
    <3>1. SUFFICES ASSUME parts <= r + k
                   PROVE  FALSE
      BY <1>1, <2>4
    <3>2. PICK j \in Nat : r + k = parts + j
      <4>1. (r + k) - parts \in Nat /\ r + k = parts + ((r + k) - parts)
        BY <3>1, <1>1, <2>4
      <4> QED BY <4>1
    <3>3. /\ (r * q) + (q * k) = (parts * q) + (j * q)
          /\ (j * q) \in Nat /\ (parts * q) \in Nat /\ (q * k) \in Nat
      <4>1. (r + k) * q = (r * q) + (q * k) /\ (parts + j) * q = (parts * q) + (j * q)
            /\ (j * q) \in Nat /\ (parts * q) \in Nat /\ (q * k) \in Nat
        BY <1>1, <2>4, Z3
      <4> QED BY <4>1, <3>2
    <3> HIDE DEF q, r
    <3>4. row = (r * q) + r + (q * k) + m
      BY <2>1, <2>2, <2>4, <3>3, <1>1
    <3> QED BY <3>3, <3>4, <1>1, <2>1, <2>4
  <2>6. /\ Begin(rows, parts, r + k) = ((r + k) * q) + r
        /\ Begin(rows, parts, (r + k) + 1) = (((r + k) + 1) * q) + r
    <3>1. r + k \in Nat /\ (r + k) + 1 \in Nat
      BY <1>1, <2>4
    <3>2. /\ Begin(rows, parts, r + k) =
               ((r + k) * q) + (IF r + k <= r THEN r + k ELSE r)
          /\ Begin(rows, parts, (r + k) + 1) =
               (((r + k) + 1) * q) + (IF (r + k) + 1 <= r THEN (r + k) + 1 ELSE r)
      BY <3>1, <1>2
    <3>3. /\ (IF r + k <= r THEN r + k ELSE r) = r
          /\ (IF (r + k) + 1 <= r THEN (r + k) + 1 ELSE r) = r
      BY <1>1, <2>4
    <3> QED BY <3>2, <3>3
  <2>7. /\ (r + k) * q = (r * q) + (q * k) /\ (q * k) \in Nat
        /\ ((r + k) + 1) * q = (r * q) + (q * k) + q
    BY <1>1, <2>4, Z3
  <2>8. row \in RowRange(rows, parts, r + k)
    <3>1. row = (r * q) + r + (q * k) + m
      BY <2>1, <2>2, <2>4, <2>7, <1>1
    <3>2. Begin(rows, parts, r + k) = (r * q) + (q * k) + r
      BY <2>6, <2>7, <1>1
    <3>3. Begin(rows, parts, (r + k) + 1) = (r * q) + (q * k) + q + r
      BY <2>6, <2>7, <1>1
    <3> QED BY <3>1, <3>2, <3>3, <1>1, <2>1, <2>4, <2>7 DEF RowRange
  <2>9. r + k \in 0..(parts - 1)
    BY <1>1, <2>4, <2>5
  <2> QED BY <2>8, <2>9
<1> QED
  BY <1>3, <1>4

-----------------------------------------------------------------------------
(* The invariant.                                                           *)

Share == [job : Nat, rows : Nat, participants : Nat]

WorkerPcs == {"absent", "poll", "load", "wait", "asleep", "check", "read", "run", "count",
              "notify", "exited"}

\* Where a caller shares its job with the workers.
Sharing == {"publish", "bump", "notify", "run", "count", "wait", "asleep"}

CallerPcs == Sharing \cup {"out", "inline", "finish"}

Types ==
    /\ life \in {"starting", "up", "bump", "notify", "join", "gone"}
    /\ created \in Nat /\ stopping \in BOOLEAN /\ busy \in BOOLEAN
    /\ completed \in Nat /\ index \in Nat
    /\ generation \in [Workers -> Nat] /\ payload \in [Workers -> Share]
    /\ worker \in [Workers -> [pc : WorkerPcs, observed : Nat, seen : Nat, got : Share]]
    /\ caller \in [Callers -> [pc : CallerPcs, rows : 0..MaxRows, saw : Nat,
                               answer : {"none", "busy", "ok"}]]
    /\ job \in 0..MaxJobs /\ runs \in [1..MaxJobs -> [Rows -> Nat]]

\* One caller at a time, between the start and the shutdown.
Exclusive ==
    /\ \A c, d \in Callers : caller[c].pc # "out" /\ caller[d].pc # "out" => c = d
    /\ busy <=> \E c \in Callers : caller[c].pc # "out"
    /\ life # "up" => \A c \in Callers : caller[c].pc = "out"
    /\ life = "starting" => \A w \in Workers : generation[w] = 0
    /\ stopping <=> life \notin {"starting", "up"}
    /\ \A c \in Callers : caller[c].pc # "out" => caller[c].rows \in 1..MaxRows /\ job \in 1..MaxJobs
    /\ \A c \in Callers : caller[c].pc \in {"publish", "bump", "notify"} =>
                              index \in 1..Helpers(caller[c].rows)

\* The workers that were given a share of c's job.
Given(c) ==
    {w \in 1..Helpers(caller[c].rows) :
        \/ caller[c].pc \in {"run", "count", "wait", "asleep"}
        \/ caller[c].pc \in {"publish", "bump"} /\ w < index
        \/ caller[c].pc = "notify" /\ w <= index}

Working == {"read", "run", "count"}

\* A worker has not seen its mailbox, or has not finished what it found there.
Owing(w) == generation[w] # worker[w].observed \/ worker[w].pc \in Working

ShareOf(c) ==
    [job |-> job, rows |-> caller[c].rows, participants |-> Participants(caller[c].rows)]

\* What a worker has seen of its mailbox.
WorkerOk(w) ==
    /\ worker[w].pc \in Working => ~stopping /\ generation[w] = worker[w].observed
    /\ ~stopping /\ worker[w].pc = "check" =>
         worker[w].seen = generation[w] /\ generation[w] # worker[w].observed
    /\ worker[w].pc \in {"run", "count"} => worker[w].got = payload[w]

\* What a caller has written.
Posted(c) ==
    /\ \A w \in Given(c) : payload[w] = ShareOf(c)
    /\ caller[c].pc = "bump" => payload[index] = ShareOf(c)

\* A worker owes only what it was given, and finds it in its mailbox.
Mailboxes ==
    /\ \A w \in Workers : WorkerOk(w)
    /\ \A w \in Workers : ~stopping /\ Owing(w) => \E c \in Callers : w \in Given(c)
    /\ \A c \in Callers : Posted(c)

Finished(c) == {w \in Given(c) : ~Owing(w)}

Counted(c) == caller[c].pc \in Sharing => completed = Cardinality(Finished(c))

\* The participants that have executed their range.
Done(c) ==
    {p \in 0..Helpers(caller[c].rows) :
        \/ p = 0 /\ caller[c].pc \in {"count", "wait", "asleep"}
        \/ p \in Given(c) /\ (~Owing(p) \/ worker[p].pc = "count")}

RangeOf(c, p) == RowRange(caller[c].rows, Participants(caller[c].rows), p)

\* A row was executed once when its participant did, and never before.
RowsRun(c) ==
    /\ caller[c].pc \in Sharing =>
         \A r \in Rows : /\ (\E p \in Done(c) : r \in RangeOf(c, p)) => runs[job][r] = 1
                         /\ (\A p \in Done(c) : r \notin RangeOf(c, p)) => runs[job][r] = 0
    /\ caller[c].pc = "inline" => \A r \in Rows : runs[job][r] = 0
    /\ caller[c].pc = "finish" => \A r \in 0..(caller[c].rows - 1) : runs[job][r] = 1

LaterJobs == \A j \in 1..MaxJobs : j > job => \A r \in Rows : runs[j][r] = 0

Inv ==
    /\ Types /\ Exclusive /\ Mailboxes /\ LaterJobs
    /\ \A c \in Callers : Counted(c) /\ RowsRun(c)

-----------------------------------------------------------------------------
(* Participants, rows and callers.                                          *)

\* A job has at least one participant, and no more than threads or rows.
LEMMA ParticipantsBounded ==
    ASSUME NEW rows \in Nat \ {0}
    PROVE  /\ Participants(rows) \in Nat \ {0} /\ Helpers(rows) \in Nat
           /\ Helpers(rows) + 1 = Participants(rows) /\ 1..Helpers(rows) \subseteq Workers
  BY ExecutorAssumption DEF Participants, Helpers, Workers

\* Executing the rows of S counts each of them once more.
LEMMA ExecutedRuns ==
    ASSUME Types, job \in 1..MaxJobs, NEW S, runs' = Executed(job, S)
    PROVE  /\ runs' \in [1..MaxJobs -> [Rows -> Nat]]
           /\ \A r \in Rows : /\ r \in S => runs'[job][r] = runs[job][r] + 1
                              /\ r \notin S => runs'[job][r] = runs[job][r]
           /\ \A j \in 1..MaxJobs : j # job => runs'[j] = runs[j]
<1> DEFINE f == [r \in Rows |-> runs[job][r] + IF r \in S THEN 1 ELSE 0]
<1>1. runs \in [1..MaxJobs -> [Rows -> Nat]]
  BY DEF Types
<1>2. /\ f \in [Rows -> Nat]
      /\ \A r \in Rows : /\ r \in S => f[r] = runs[job][r] + 1
                         /\ r \notin S => f[r] = runs[job][r]
  BY <1>1
<1>3. runs' = [runs EXCEPT ![job] = f]
  BY DEF Executed
<1> HIDE DEF f
<1>4. runs' \in [1..MaxJobs -> [Rows -> Nat]] /\ runs'[job] = f
  BY <1>1, <1>2, <1>3
<1>5. \A j \in 1..MaxJobs : j # job => runs'[j] = runs[j]
  BY <1>1, <1>3
<1>6. ASSUME NEW r \in Rows
      PROVE  /\ r \in S => runs'[job][r] = runs[job][r] + 1
             /\ r \notin S => runs'[job][r] = runs[job][r]
  BY <1>2, <1>4
<1> QED
  BY <1>4, <1>5, <1>6

\* A caller that is out has given nothing.
LEMMA OutGives ==
    ASSUME NEW c, caller[c].pc \notin Sharing
    PROVE  Given(c) = {} /\ Counted(c) /\ Posted(c)
  BY DEF Given, Sharing, Counted, Posted

\* The same of the state after a step.
LEMMA OutGivesNext ==
    ASSUME NEW c, caller'[c].pc \notin Sharing
    PROVE  Given(c)' = {} /\ Counted(c)' /\ Posted(c)'
  BY DEF Given, Sharing, Counted, Posted

\* Only the caller of the job in progress matters.
LEMMA OthersOut ==
    ASSUME Inv, NEW c \in Callers, caller[c].pc # "out"
    PROVE  /\ \A d \in Callers \ {c} : caller[d].pc = "out" /\ Given(d) = {}
           /\ \A w \in Workers : Owing(w) => w \in Given(c)
           /\ life = "up" /\ ~stopping /\ busy
           /\ caller[c].rows \in 1..MaxRows /\ caller[c].rows \in Nat \ {0} /\ job \in 1..MaxJobs
           /\ Given(c) \subseteq 1..Helpers(caller[c].rows)
           /\ 1..Helpers(caller[c].rows) \subseteq Workers
<1>1. \A d \in Callers \ {c} : caller[d].pc = "out"
  BY DEF Inv, Exclusive
<1>2. \A d \in Callers \ {c} : Given(d) = {}
  BY <1>1, OutGives DEF Sharing
<1>3. life = "up" /\ ~stopping /\ busy
  BY DEF Inv, Exclusive
<1>4. \A w \in Workers : Owing(w) => w \in Given(c)
  BY <1>2, <1>3 DEF Inv, Mailboxes
<1>5. caller[c].rows \in 1..MaxRows /\ caller[c].rows \in Nat \ {0} /\ job \in 1..MaxJobs
  BY ExecutorAssumption DEF Inv, Exclusive
<1>6. 1..Helpers(caller[c].rows) \subseteq Workers
  BY <1>5, ParticipantsBounded
<1> QED
  BY <1>1, <1>2, <1>3, <1>4, <1>5, <1>6 DEF Given

\* When only c is inside after a step, only c's part is left to show.
LEMMA OneInside ==
    ASSUME NEW c \in Callers, \A d \in Callers \ {c} : caller'[d].pc = "out",
           Types', Exclusive', LaterJobs', Posted(c)', Counted(c)', RowsRun(c)',
           \A w \in Workers : WorkerOk(w)' /\ (Owing(w)' => w \in Given(c)')
    PROVE  Inv'
<1>1. \A d \in Callers \ {c} : Counted(d)' /\ Posted(d)' /\ RowsRun(d)'
  <2>1. ASSUME NEW d \in Callers \ {c}
        PROVE  Counted(d)' /\ Posted(d)' /\ RowsRun(d)'
    <3>1. caller'[d].pc = "out"
      OBVIOUS
    <3>2. Counted(d)' /\ Posted(d)'
      BY <3>1, OutGivesNext DEF Sharing
    <3>3. RowsRun(d)'
      BY <3>1 DEF RowsRun, Sharing
    <3> QED BY <3>2, <3>3
  <2> QED BY <2>1
<1>2. \A d \in Callers : Counted(d)' /\ Posted(d)' /\ RowsRun(d)'
  BY <1>1
<1>3. Mailboxes'
  BY <1>2 DEF Mailboxes
<1> QED
  BY <1>2, <1>3 DEF Inv

\* And nothing when nobody is.
LEMMA NobodyInside ==
    ASSUME \A d \in Callers : caller'[d].pc = "out", Types', Exclusive', LaterJobs',
           \A w \in Workers : WorkerOk(w)' /\ (~stopping' => ~Owing(w)')
    PROVE  Inv'
<1>1. \A d \in Callers : Counted(d)' /\ Posted(d)' /\ RowsRun(d)'
  <2>1. ASSUME NEW d \in Callers
        PROVE  Counted(d)' /\ Posted(d)' /\ RowsRun(d)'
    <3>1. caller'[d].pc = "out"
      OBVIOUS
    <3>2. Counted(d)' /\ Posted(d)'
      BY <3>1, OutGivesNext DEF Sharing
    <3>3. RowsRun(d)'
      BY <3>1 DEF RowsRun, Sharing
    <3> QED BY <3>2, <3>3
  <2> QED BY <2>1
<1>2. Mailboxes'
  BY <1>1 DEF Mailboxes
<1> QED
  BY <1>1, <1>2 DEF Inv

\* Steps by which nothing is given, finished, executed or counted.
LEMMA LookingKeeps ==
    ASSUME Inv, Types',
           UNCHANGED <<life, stopping, busy, completed, generation, payload, index, job, runs>>,
           \A c \in Callers : /\ caller'[c].rows = caller[c].rows
                              /\ \/ caller'[c].pc = caller[c].pc
                                 \/ /\ caller[c].pc \in {"count", "wait", "asleep"}
                                    /\ caller'[c].pc \in {"count", "wait", "asleep"},
           \A w \in Workers : /\ WorkerOk(w)' /\ (Owing(w)' <=> Owing(w))
                              /\ worker'[w].pc = "count" <=> worker[w].pc = "count"
    PROVE  Inv'
<1>1. Exclusive'
  BY DEF Inv, Exclusive, Helpers, Participants
<1>2. ASSUME NEW c \in Callers
      PROVE  Given(c)' = Given(c) /\ Posted(c)' /\ Counted(c)' /\ RowsRun(c)'
  <2>1. Posted(c) /\ Counted(c) /\ RowsRun(c)
    BY DEF Inv, Mailboxes
  <2>2. Given(c)' = Given(c)
    BY DEF Given, Helpers, Participants
  <2>3. ShareOf(c)' = ShareOf(c) /\ (caller'[c].pc = "bump" <=> caller[c].pc = "bump")
    BY DEF ShareOf, Participants
  <2>4. Posted(c)'
    BY <2>1, <2>2, <2>3 DEF Posted
  <2>5. Given(c) \subseteq Workers
    <3>1. CASE caller[c].pc = "out"
      BY <3>1, OutGives DEF Sharing
    <3>2. CASE caller[c].pc # "out"
      BY <3>2, OthersOut
    <3> QED BY <3>1, <3>2
  <2>6. Finished(c)' = Finished(c)
    BY <2>2, <2>5 DEF Finished
  <2>7. Counted(c)'
    BY <2>1, <2>6 DEF Counted, Sharing
  <2>8. Done(c)' = Done(c)
    <3>1. \A p \in Given(c) : (~Owing(p)' \/ worker'[p].pc = "count") <=> (~Owing(p) \/ worker[p].pc = "count")
      BY <2>5
    <3> QED BY <2>2, <3>1 DEF Done, Helpers, Participants
  <2>9. \A p : RangeOf(c, p)' = RangeOf(c, p)
    BY DEF RangeOf, Participants
  <2>10. RowsRun(c)'
    BY <2>1, <2>8, <2>9 DEF RowsRun, Sharing
  <2> QED BY <2>2, <2>4, <2>7, <2>10
<1>3. Mailboxes'
  BY <1>2 DEF Inv, Mailboxes
<1>4. LaterJobs'
  BY DEF Inv, LaterJobs
<1> QED
  BY <1>1, <1>2, <1>3, <1>4 DEF Inv

-----------------------------------------------------------------------------
(* The owner of the pool.                                                   *)

\* Waking a worker changes nothing but where it sleeps.
LEMMA WakeOne ==
    ASSUME Types, NEW k, worker' = Wake(k)
    PROVE  /\ worker' \in [Workers -> [pc : WorkerPcs, observed : Nat, seen : Nat, got : Share]]
           /\ \A w \in Workers :
                \/ worker'[w] = worker[w]
                \/ worker[w].pc = "asleep" /\ worker'[w] = [worker[w] EXCEPT !.pc = "load"]
<1> DEFINE T == [pc : WorkerPcs, observed : Nat, seen : Nat, got : Share]
<1>1. worker \in [Workers -> T] /\ \A x \in T : [x EXCEPT !.pc = "load"] \in T
  BY DEF Types, WorkerPcs
<1> HIDE DEF T
<1>2. worker' = worker \/ (worker[k].pc = "asleep" /\ worker' = [worker EXCEPT ![k] = [worker[k] EXCEPT !.pc = "load"]])
  BY DEF Wake
<1>3. worker' \in [Workers -> T]
  BY <1>1, <1>2
<1>4. \A w \in Workers :
         \/ worker'[w] = worker[w]
         \/ worker[w].pc = "asleep" /\ worker'[w] = [worker[w] EXCEPT !.pc = "load"]
  BY <1>1, <1>2
<1> QED
  BY <1>3, <1>4 DEF T

\* A woken worker knows what it knew.
LEMMA WokenSame ==
    ASSUME Types, NEW k, worker' = Wake(k), NEW w \in Workers
    PROVE  /\ worker'[w].observed = worker[w].observed /\ worker'[w].seen = worker[w].seen
           /\ worker'[w].got = worker[w].got
           /\ \A pc \in Working \cup {"check"} : worker'[w].pc = pc <=> worker[w].pc = pc
<1>1. worker[w] \in [pc : WorkerPcs, observed : Nat, seen : Nat, got : Share]
  BY DEF Types
<1>2. \/ worker'[w] = worker[w]
      \/ worker[w].pc = "asleep" /\ worker'[w] = [worker[w] EXCEPT !.pc = "load"]
  BY WakeOne
<1> QED
  BY <1>1, <1>2 DEF Working

\* Creating the workers and ending the pool give nobody anything to do.
LEMMA OwnerKeeps ==
    ASSUME Inv, Owner
    PROVE  Inv'
<1>1. /\ \A c \in Callers : caller'[c].pc = "out" /\ caller[c].pc = "out"
      /\ UNCHANGED <<busy, completed, payload, caller, job, runs>>
  BY DEF Inv, Exclusive, Owner, CreateWorker, Started, Shutdown, ShutdownBump, ShutdownNotify, Joined, jobVars
<1>2. LaterJobs'
  BY <1>1 DEF Inv, LaterJobs
<1>3. \A w \in Workers : ~stopping => ~Owing(w)
  BY <1>1, OutGives DEF Inv, Mailboxes, Sharing
<1>4. CASE CreateWorker
  <2> DEFINE v == created + 1
             x == Thread("poll")
             T == [pc : WorkerPcs, observed : Nat, seen : Nat, got : Share]
  <2>1. /\ life = "starting" /\ created' = v /\ worker' = [worker EXCEPT ![v] = x]
        /\ UNCHANGED <<life, stopping, generation, index>>
    BY <1>4 DEF CreateWorker
  <2>2. x \in T /\ x.pc = "poll" /\ x.observed = 0
    BY DEF Thread, NoJob, WorkerPcs, Share
  <2>3. worker \in [Workers -> T] /\ created \in Nat
    BY DEF Inv, Types
  <2> HIDE DEF x, T
  <2>9. created' \in Nat
    BY <2>1, <2>3
  <2> HIDE DEF v
  <2>4. worker' \in [Workers -> T] /\ \A w \in Workers : worker'[w] = x \/ worker'[w] = worker[w]
    BY <2>1, <2>2, <2>3
  <2>5. Types'
    BY <1>1, <2>1, <2>4, <2>9 DEF Inv, Types, T
  <2>6. Exclusive'
    BY <1>1, <2>1 DEF Inv, Exclusive
  <2>7. \A w \in Workers : generation[w] = 0 /\ ~stopping
    BY <2>1 DEF Inv, Exclusive
  <2>8. ASSUME NEW w \in Workers
        PROVE  WorkerOk(w)' /\ ~Owing(w)'
    <3>1. CASE worker'[w] = x
      BY <2>1, <2>2, <2>7, <3>1 DEF WorkerOk, Owing, Working
    <3>2. CASE worker'[w] = worker[w]
      BY <1>1, <1>3, <2>1, <2>7, <3>2 DEF Inv, Mailboxes, WorkerOk, Owing
    <3> QED BY <2>4, <3>1, <3>2
  <2> QED BY <1>1, <1>2, <2>5, <2>6, <2>8, NobodyInside
<1>5. CASE Started
  <2>1. life = "starting" /\ life' = "up" /\ UNCHANGED <<created, stopping, generation, index, worker>>
    BY <1>5 DEF Started
  <2>2. Types'
    BY <1>1, <2>1 DEF Inv, Types
  <2>3. Exclusive'
    BY <1>1, <2>1 DEF Inv, Exclusive
  <2>4. \A w \in Workers : WorkerOk(w)' /\ (~stopping' => ~Owing(w)')
    BY <1>1, <1>3, <2>1 DEF Inv, Mailboxes, WorkerOk, Owing
  <2> QED BY <1>1, <1>2, <2>2, <2>3, <2>4, NobodyInside
<1>6. CASE Shutdown
  <2>1. /\ stopping' = TRUE /\ index' = 1 /\ life' = "bump" /\ life \in {"starting", "up"}
        /\ UNCHANGED <<created, generation, worker>>
    BY <1>6 DEF Shutdown
  <2>2. Types'
    BY <1>1, <2>1 DEF Inv, Types
  <2>3. Exclusive'
    BY <1>1, <2>1 DEF Inv, Exclusive
  <2>4. ~stopping
    BY <2>1 DEF Inv, Exclusive
  <2>5. \A w \in Workers : WorkerOk(w)'
    BY <1>1, <1>3, <2>1, <2>4 DEF Inv, Mailboxes, WorkerOk, Owing, Working
  <2> QED BY <1>1, <1>2, <2>1, <2>2, <2>3, <2>5, NobodyInside
<1>7. CASE ShutdownBump \/ ShutdownNotify \/ Joined
  <2>1. /\ life \in {"bump", "notify", "join"} /\ life' \in {"bump", "notify", "join", "gone"}
        /\ stopping' = stopping
    BY <1>7 DEF ShutdownBump, ShutdownNotify, Joined
  <2>2. stopping
    BY <2>1 DEF Inv, Exclusive
  <2>3. generation' \in [Workers -> Nat] /\ created' \in Nat /\ index' \in Nat
    BY <1>7 DEF ShutdownBump, ShutdownNotify, Joined, Inv, Types
  <2>4. worker' = worker \/ worker' = Wake(index)
    BY <1>7 DEF ShutdownBump, ShutdownNotify, Joined
  <2>5. worker' \in [Workers -> [pc : WorkerPcs, observed : Nat, seen : Nat, got : Share]]
    BY <2>4, WakeOne DEF Inv, Types
  <2>6. Types'
    BY <1>1, <2>1, <2>3, <2>5 DEF Inv, Types
  <2>7. Exclusive'
    BY <1>1, <2>1, <2>2 DEF Inv, Exclusive
  <2>8. ASSUME NEW w \in Workers
        PROVE  WorkerOk(w)'
    <3>1. \A pc \in Working : worker'[w].pc = pc <=> worker[w].pc = pc
      BY <2>4, WokenSame DEF Inv
    <3>2. worker[w].pc \notin Working
      BY <2>2 DEF Inv, Mailboxes, WorkerOk
    <3>3. worker'[w].pc \notin Working
      BY <3>1, <3>2
    <3> QED BY <2>1, <2>2, <3>3 DEF WorkerOk, Working
  <2> QED BY <1>1, <1>2, <2>1, <2>2, <2>6, <2>7, <2>8, NobodyInside
<1> QED
  BY <1>4, <1>5, <1>6, <1>7 DEF Owner

-----------------------------------------------------------------------------
(* The workers.                                                             *)

\* A worker looks at the flag, its mailbox or what it found there.
LEMMA LookingWorkerKeeps ==
    ASSUME Inv, NEW w \in Workers,
           \/ PollStops(w) \/ PollEnds(w) \/ LoadGeneration(w) \/ WaitForJob(w)
           \/ CheckStopping(w) \/ ReadMailbox(w)
    PROVE  Inv'
<1> DEFINE T == [pc : WorkerPcs, observed : Nat, seen : Nat, got : Share]
<1>1. /\ UNCHANGED <<life, created, stopping, busy, completed, generation, payload, caller, index, job, runs>>
      /\ \E x : worker' = [worker EXCEPT ![w] = x]
  BY DEF PollStops, PollEnds, LoadGeneration, WaitForJob, CheckStopping, ReadMailbox, Step, lifeVars, jobVars
<1>2. PICK x : worker' = [worker EXCEPT ![w] = x]
  BY <1>1
<1>3. worker \in [Workers -> T] /\ generation[w] \in Nat /\ payload[w] \in Share
  BY DEF Inv, Types
<1>4. worker'[w] = x /\ \A v \in Workers \ {w} : worker'[v] = worker[v]
  BY <1>2, <1>3
<1>5. WorkerOk(w) /\ worker[w] \in T
  BY <1>3 DEF Inv, Mailboxes
<1>6. /\ x \in T /\ WorkerOk(w)' /\ (Owing(w)' <=> Owing(w))
      /\ (x.pc = "count" <=> worker[w].pc = "count")
  <2>1. CASE PollStops(w) \/ PollEnds(w)
    <3>1. /\ worker[w].pc = "poll" /\ worker'[w].observed = worker[w].observed
          /\ worker'[w].pc \in {"exited", "load"} /\ worker'[w] \in T
      BY <1>3, <1>5, <2>1 DEF PollStops, PollEnds, Step, WorkerPcs
    <3> QED BY <1>1, <1>4, <3>1 DEF WorkerOk, Owing, Working
  <2>2. CASE LoadGeneration(w)
    <3>1. /\ worker[w].pc = "load" /\ worker'[w].observed = worker[w].observed
          /\ worker'[w].seen = generation[w]
          /\ worker'[w].pc \in {"wait", "check"} /\ worker'[w] \in T
          /\ worker'[w].pc = "check" => generation[w] # worker[w].observed
      BY <1>3, <1>5, <2>2 DEF LoadGeneration, WorkerPcs
    <3> QED BY <1>1, <1>4, <3>1 DEF WorkerOk, Owing, Working
  <2>3. CASE WaitForJob(w)
    <3>1. /\ worker[w].pc = "wait" /\ worker'[w].observed = worker[w].observed
          /\ worker'[w].pc \in {"asleep", "load"} /\ worker'[w] \in T
      BY <1>3, <1>5, <2>3 DEF WaitForJob, Step, WorkerPcs
    <3> QED BY <1>1, <1>4, <3>1 DEF WorkerOk, Owing, Working
  <2>4. CASE CheckStopping(w) /\ stopping
    <3>1. /\ worker[w].pc = "check" /\ worker'[w].observed = worker[w].observed
          /\ worker'[w].pc = "exited" /\ worker'[w] \in T
      BY <1>3, <1>5, <2>4 DEF CheckStopping, Step, WorkerPcs
    <3> QED BY <1>1, <1>4, <3>1 DEF WorkerOk, Owing, Working
  <2>5. CASE CheckStopping(w) /\ ~stopping
    <3>1. /\ worker[w].pc = "check" /\ worker'[w].observed = worker[w].seen
          /\ worker'[w].pc = "read" /\ worker'[w] \in T
      <4> DEFINE y == [worker[w] EXCEPT !.pc = "read", !.observed = worker[w].seen]
      <4>1. worker[w].pc = "check" /\ worker' = [worker EXCEPT ![w] = y]
        BY <2>5 DEF CheckStopping
      <4>2. y \in T /\ y.pc = "read" /\ y.observed = worker[w].seen
        BY <1>5 DEF WorkerPcs
      <4> HIDE DEF y
      <4> QED BY <1>3, <4>1, <4>2
    <3>2. worker[w].seen = generation[w] /\ generation[w] # worker[w].observed
      BY <1>5, <2>5, <3>1 DEF WorkerOk
    <3> QED BY <1>1, <1>4, <2>5, <3>1, <3>2 DEF WorkerOk, Owing, Working
  <2>6. CASE ReadMailbox(w)
    <3>1. /\ worker[w].pc = "read" /\ worker'[w].observed = worker[w].observed
          /\ worker'[w].pc = "run" /\ worker'[w].got = payload[w] /\ worker'[w] \in T
      BY <1>3, <1>5, <2>6 DEF ReadMailbox, WorkerPcs
    <3> QED BY <1>1, <1>4, <1>5, <3>1 DEF WorkerOk, Owing, Working
  <2> QED BY <2>1, <2>2, <2>3, <2>4, <2>5, <2>6
<1>7. worker' \in [Workers -> T]
  <2> HIDE DEF T
  <2> QED BY <1>2, <1>3, <1>6
<1>8. Types'
  BY <1>1, <1>7 DEF Inv, Types
<1>9. ASSUME NEW v \in Workers
      PROVE  /\ WorkerOk(v)' /\ (Owing(v)' <=> Owing(v))
             /\ (worker'[v].pc = "count" <=> worker[v].pc = "count")
  <2>1. CASE v = w
    BY <1>4, <1>6, <2>1
  <2>2. CASE v # w
    <3>1. worker'[v] = worker[v] /\ WorkerOk(v)
      BY <1>4, <2>2 DEF Inv, Mailboxes
    <3> QED BY <1>1, <3>1 DEF WorkerOk, Owing
  <2> QED BY <2>1, <2>2
<1> QED
  BY <1>1, <1>8, <1>9, LookingKeeps

\* One more participant has executed its range: its rows were not executed before.
LEMMA RangeExecuted ==
    ASSUME Inv, NEW c \in Callers, caller[c].pc \in Sharing, caller'[c].pc \in Sharing,
           NEW p \in 0..Helpers(caller[c].rows), p \notin Done(c),
           runs' = Executed(job, RangeOf(c, p)),
           job' = job, caller'[c].rows = caller[c].rows, Done(c)' = Done(c) \cup {p}
    PROVE  RowsRun(c)' /\ LaterJobs' /\ runs' \in [1..MaxJobs -> [Rows -> Nat]]
<1> DEFINE S == RangeOf(c, p)
           n == caller[c].rows
           k == Participants(n)
<1>1. n \in Nat \ {0} /\ job \in 1..MaxJobs /\ k \in Nat \ {0} /\ Helpers(n) \in Nat
  BY OthersOut, ParticipantsBounded DEF Sharing
<1>2. /\ runs' \in [1..MaxJobs -> [Rows -> Nat]]
      /\ \A r \in Rows : /\ r \in S => runs'[job][r] = runs[job][r] + 1
                         /\ r \notin S => runs'[job][r] = runs[job][r]
      /\ \A j \in 1..MaxJobs : j # job => runs'[j] = runs[j]
  BY <1>1, ExecutedRuns DEF Inv
<1>3. \A q : RangeOf(c, q)' = RangeOf(c, q)
  BY DEF RangeOf, Participants
<1>4. \A q \in Done(c) : RangeOf(c, q) \cap S = {}
  <2>1. \A q \in Done(c) : q \in Nat /\ q # p
    BY <1>1 DEF Done
  <2> QED BY <1>1, <2>1, RangesDisjoint DEF RangeOf
<1>5. RowsRun(c)
  BY DEF Inv
<1>6. ASSUME NEW r \in Rows
      PROVE  /\ (\E q \in Done(c)' : r \in RangeOf(c, q)') => runs'[job][r] = 1
             /\ (\A q \in Done(c)' : r \notin RangeOf(c, q)') => runs'[job][r] = 0
  <2>1. /\ (\E q \in Done(c) : r \in RangeOf(c, q)) => runs[job][r] = 1
        /\ (\A q \in Done(c) : r \notin RangeOf(c, q)) => runs[job][r] = 0
    BY <1>5 DEF RowsRun
  <2>2. CASE r \in S
    <3>1. runs[job][r] = 0
      BY <1>4, <2>1, <2>2
    <3>2. runs'[job][r] = 1
      BY <1>2, <2>2, <3>1
    <3>3. p \in Done(c)' /\ r \in RangeOf(c, p)'
      BY <1>3, <2>2
    <3> QED BY <3>2, <3>3
  <2>3. CASE r \notin S
    <3>1. runs'[job][r] = runs[job][r]
      BY <1>2, <2>3
    <3> HIDE DEF S
    <3>2. S = RangeOf(c, p)
      BY DEF S
    <3> QED BY <1>3, <2>1, <2>3, <3>1, <3>2
  <2> QED BY <2>2, <2>3
<1>7. RowsRun(c)'
  BY <1>6 DEF RowsRun, Sharing
<1>8. LaterJobs'
  <2>1. \A j \in 1..MaxJobs : j > job => j # job
    BY <1>1
  <2> QED BY <1>2, <2>1 DEF Inv, LaterJobs
<1> QED
  BY <1>2, <1>7, <1>8

\* A worker that has work to do works for the caller inside.
LEMMA WorkFor ==
    ASSUME Inv, NEW w \in Workers, worker[w].pc \in Working
    PROVE  \E c \in Callers : w \in Given(c) /\ caller[c].pc \in Sharing /\ payload[w] = ShareOf(c)
<1>1. ~stopping /\ Owing(w)
  BY DEF Inv, Mailboxes, WorkerOk, Owing
<1>2. PICK c \in Callers : w \in Given(c)
  BY <1>1 DEF Inv, Mailboxes
<1>3. caller[c].pc \in Sharing
  BY <1>2, OutGives
<1> QED
  BY <1>2, <1>3 DEF Inv, Mailboxes, Posted

\* A worker goes on; the others stay where they are.
LEMMA WorkerGoes ==
    ASSUME Types, NEW w \in Workers, NEW pc \in WorkerPcs, worker' = [worker EXCEPT ![w].pc = pc]
    PROVE  /\ worker' \in [Workers -> [pc : WorkerPcs, observed : Nat, seen : Nat, got : Share]]
           /\ worker'[w].pc = pc /\ worker'[w].observed = worker[w].observed
           /\ worker'[w].got = worker[w].got
           /\ \A v \in Workers \ {w} : worker'[v] = worker[v]
<1> DEFINE T == [pc : WorkerPcs, observed : Nat, seen : Nat, got : Share]
           y == [worker[w] EXCEPT !.pc = pc]
<1>1. worker \in [Workers -> T] /\ worker' = [worker EXCEPT ![w] = y]
  BY DEF Types
<1>2. worker[w] \in T
  <2> HIDE DEF T
  <2> QED BY <1>1
<1>3. y \in T /\ y.pc = pc /\ y.observed = worker[w].observed /\ y.got = worker[w].got
  BY <1>2
<1> HIDE DEF T, y
<1>4. worker' \in [Workers -> T] /\ worker'[w] = y /\ \A v \in Workers \ {w} : worker'[v] = worker[v]
  BY <1>1, <1>3
<1> QED
  BY <1>3, <1>4 DEF T

\* A worker executes its range.
LEMMA RunRowsKeeps ==
    ASSUME Inv, NEW w \in Workers, RunRows(w)
    PROVE  Inv'
<1>1. /\ worker[w].pc = "run"
      /\ runs' = Executed(worker[w].got.job, RowRange(worker[w].got.rows, worker[w].got.participants, w))
      /\ worker' = [worker EXCEPT ![w].pc = "count"]
      /\ UNCHANGED <<life, created, stopping, busy, completed, generation, payload, caller, index, job>>
  BY DEF RunRows, Step, lifeVars
<1>2. PICK c \in Callers : w \in Given(c) /\ caller[c].pc \in Sharing /\ payload[w] = ShareOf(c)
  BY <1>1, WorkFor DEF Working
<1>3. /\ worker' \in [Workers -> [pc : WorkerPcs, observed : Nat, seen : Nat, got : Share]]
      /\ worker'[w].pc = "count" /\ worker'[w].observed = worker[w].observed
      /\ worker'[w].got = worker[w].got
      /\ \A v \in Workers \ {w} : worker'[v] = worker[v]
  BY <1>1, WorkerGoes DEF Inv, WorkerPcs
<1>4. /\ \A d \in Callers \ {c} : caller[d].pc = "out"
      /\ \A v \in Workers : Owing(v) => v \in Given(c)
      /\ life = "up" /\ ~stopping /\ busy
      /\ Given(c) \subseteq 1..Helpers(caller[c].rows) /\ 1..Helpers(caller[c].rows) \subseteq Workers
  BY <1>2, OthersOut DEF Sharing
<1>5. WorkerOk(w) /\ worker[w].got = ShareOf(c)
  BY <1>1, <1>2 DEF Inv, Mailboxes, WorkerOk
<1>6. runs' = Executed(job, RangeOf(c, w))
  BY <1>1, <1>5 DEF ShareOf, RangeOf
<1>7. \A v \in Workers : Owing(v)' <=> Owing(v)
  BY <1>1, <1>3 DEF Owing, Working
<1>8. Given(c)' = Given(c) /\ ShareOf(c)' = ShareOf(c) /\ Helpers(caller'[c].rows) = Helpers(caller[c].rows)
  BY <1>1 DEF Given, ShareOf, Helpers, Participants
<1>9. w \in 0..Helpers(caller[c].rows) /\ w \notin Done(c)
  <2>1. Owing(w) /\ worker[w].pc # "count" /\ w # 0 /\ w \in 1..Helpers(caller[c].rows)
    BY <1>1, <1>2, <1>4 DEF Owing, Working, Workers
  <2> QED BY <2>1 DEF Done
<1>10. Done(c)' = Done(c) \cup {w}
  <2>1. \A p \in Given(c) : (~Owing(p)' \/ worker'[p].pc = "count") <=>
                              (~Owing(p) \/ worker[p].pc = "count" \/ p = w)
    BY <1>3, <1>4, <1>7
  <2>2. caller'[c].pc = caller[c].pc
    BY <1>1
  <2> QED BY <1>2, <1>8, <1>9, <2>1, <2>2 DEF Done
<1>11. RowsRun(c)' /\ LaterJobs' /\ runs' \in [1..MaxJobs -> [Rows -> Nat]]
  BY <1>1, <1>2, <1>6, <1>9, <1>10, RangeExecuted
<1>12. Types'
  BY <1>1, <1>3, <1>11 DEF Inv, Types
<1>13. Exclusive'
  BY <1>1 DEF Inv, Exclusive, Helpers, Participants
<1>14. Posted(c)' /\ Counted(c)'
  <2>1. Finished(c)' = Finished(c)
    BY <1>4, <1>7, <1>8 DEF Finished
  <2> QED BY <1>1, <1>8, <2>1 DEF Inv, Mailboxes, Posted, Counted
<1>15. \A v \in Workers : WorkerOk(v)' /\ (Owing(v)' => v \in Given(c)')
  <2>1. WorkerOk(w)'
    BY <1>1, <1>3, <1>5 DEF WorkerOk, Working
  <2>2. \A v \in Workers \ {w} : WorkerOk(v)'
    BY <1>1, <1>3 DEF Inv, Mailboxes, WorkerOk
  <2> QED BY <1>4, <1>7, <1>8, <2>1, <2>2
<1>16. \A d \in Callers \ {c} : caller'[d].pc = "out"
  BY <1>1, <1>4
<1> QED
  BY <1>11, <1>12, <1>13, <1>14, <1>15, <1>16, OneInside

\* A worker counts itself among those that are done.
LEMMA CountKeeps ==
    ASSUME Inv, NEW w \in Workers, Count(w)
    PROVE  Inv'
<1>1. /\ worker[w].pc = "count" /\ completed' = completed + 1
      /\ \E pc \in {"notify", "poll"} : worker' = [worker EXCEPT ![w].pc = pc]
      /\ UNCHANGED <<life, created, stopping, busy, generation, payload, caller, index, job, runs>>
  BY DEF Count, Step, lifeVars, jobVars
<1>2. PICK c \in Callers : w \in Given(c) /\ caller[c].pc \in Sharing /\ payload[w] = ShareOf(c)
  BY <1>1, WorkFor DEF Working
<1>3. /\ worker' \in [Workers -> [pc : WorkerPcs, observed : Nat, seen : Nat, got : Share]]
      /\ worker'[w].pc \in {"notify", "poll"} /\ worker'[w].observed = worker[w].observed
      /\ \A v \in Workers \ {w} : worker'[v] = worker[v]
  <2>1. PICK pc \in {"notify", "poll"} : worker' = [worker EXCEPT ![w].pc = pc]
    BY <1>1
  <2>2. pc \in WorkerPcs
    BY DEF WorkerPcs
  <2> QED BY <2>1, <2>2, WorkerGoes DEF Inv
<1>4. /\ \A d \in Callers \ {c} : caller[d].pc = "out"
      /\ \A v \in Workers : Owing(v) => v \in Given(c)
      /\ life = "up" /\ ~stopping /\ busy
      /\ Given(c) \subseteq 1..Helpers(caller[c].rows) /\ 1..Helpers(caller[c].rows) \subseteq Workers
      /\ caller[c].rows \in Nat \ {0}
  BY <1>2, OthersOut DEF Sharing
<1>5. /\ WorkerOk(w) /\ Owing(w) /\ ~Owing(w)'
      /\ \A v \in Workers \ {w} : Owing(v)' <=> Owing(v)
  BY <1>1, <1>3 DEF Inv, Mailboxes, WorkerOk, Owing, Working
<1>6. Given(c)' = Given(c) /\ ShareOf(c)' = ShareOf(c) /\ Helpers(caller'[c].rows) = Helpers(caller[c].rows)
  BY <1>1 DEF Given, ShareOf, Helpers, Participants
<1>7. Finished(c)' = Finished(c) \cup {w} /\ w \notin Finished(c)
  BY <1>2, <1>4, <1>5, <1>6 DEF Finished
<1>8. IsFiniteSet(Finished(c))
  <2>1. Finished(c) \in SUBSET (1..Helpers(caller[c].rows))
    BY <1>4 DEF Finished
  <2>2. IsFiniteSet(1..Helpers(caller[c].rows))
    <3> DEFINE h == Helpers(caller[c].rows)
    <3>1. h \in Nat
      BY <1>4, ParticipantsBounded
    <3> HIDE DEF h
    <3>2. IsFiniteSet(1..h)
      BY <3>1, FS_Interval
    <3> QED BY <3>2 DEF h
  <2> QED BY <2>1, <2>2, FS_Subset
<1>9. Counted(c)'
  <2>1. completed = Cardinality(Finished(c))
    BY <1>2 DEF Inv, Counted
  <2>2. Cardinality(Finished(c) \cup {w}) = Cardinality(Finished(c)) + 1
    BY <1>7, <1>8, FS_AddElement
  <2> QED BY <1>1, <1>7, <2>1, <2>2 DEF Counted
<1>10. Done(c)' = Done(c)
  <2>1. \A p \in Given(c) : (~Owing(p)' \/ worker'[p].pc = "count") <=> (~Owing(p) \/ worker[p].pc = "count")
    BY <1>1, <1>3, <1>4, <1>5
  <2> QED BY <1>1, <1>6, <2>1 DEF Done
<1>11. RowsRun(c)'
  <2>1. \A p : RangeOf(c, p)' = RangeOf(c, p)
    BY <1>1 DEF RangeOf, Participants
  <2> QED BY <1>1, <1>10, <2>1 DEF Inv, RowsRun
<1>12. Types'
  <2>1. completed' \in Nat
    BY <1>1 DEF Inv, Types
  <2> QED BY <1>1, <1>3, <2>1 DEF Inv, Types
<1>13. Exclusive'
  BY <1>1 DEF Inv, Exclusive, Helpers, Participants
<1>14. Posted(c)'
  BY <1>1, <1>6 DEF Inv, Mailboxes, Posted
<1>15. \A v \in Workers : WorkerOk(v)' /\ (Owing(v)' => v \in Given(c)')
  <2>1. WorkerOk(w)'
    BY <1>1, <1>3, <1>5 DEF WorkerOk, Working
  <2>2. \A v \in Workers \ {w} : WorkerOk(v)'
    BY <1>1, <1>3 DEF Inv, Mailboxes, WorkerOk
  <2> QED BY <1>4, <1>5, <1>6, <2>1, <2>2
<1>16. (\A d \in Callers \ {c} : caller'[d].pc = "out") /\ LaterJobs'
  BY <1>1, <1>4 DEF Inv, LaterJobs
<1> QED
  BY <1>9, <1>11, <1>12, <1>13, <1>14, <1>15, <1>16, OneInside

\* The last worker wakes the caller.
LEMMA NotifyCallerKeeps ==
    ASSUME Inv, NEW w \in Workers, NotifyCaller(w)
    PROVE  Inv'
<1> DEFINE T == [pc : CallerPcs, rows : 0..MaxRows, saw : Nat, answer : {"none", "busy", "ok"}]
<1>1. /\ worker[w].pc = "notify"
      /\ caller' = [c \in Callers |->
              IF caller[c].pc = "asleep" THEN [caller[c] EXCEPT !.pc = "count"] ELSE caller[c]]
      /\ worker' = [worker EXCEPT ![w].pc = "poll"]
      /\ UNCHANGED <<life, created, stopping, busy, completed, generation, payload, index, job, runs>>
  BY DEF NotifyCaller, Step, lifeVars, jobVars
<1>2. /\ worker' \in [Workers -> [pc : WorkerPcs, observed : Nat, seen : Nat, got : Share]]
      /\ worker'[w].pc = "poll" /\ worker'[w].observed = worker[w].observed
      /\ \A v \in Workers \ {w} : worker'[v] = worker[v]
  BY <1>1, WorkerGoes DEF Inv, WorkerPcs
<1>3. ASSUME NEW c \in Callers
      PROVE  /\ caller'[c] \in T /\ caller'[c].rows = caller[c].rows
             /\ \/ caller'[c].pc = caller[c].pc
                \/ /\ caller[c].pc \in {"count", "wait", "asleep"}
                   /\ caller'[c].pc \in {"count", "wait", "asleep"}
  <2>1. caller[c] \in T
    BY DEF Inv, Types
  <2>2. \A x \in T : [x EXCEPT !.pc = "count"] \in T /\ [x EXCEPT !.pc = "count"].rows = x.rows
                      /\ [x EXCEPT !.pc = "count"].pc = "count"
    BY DEF CallerPcs, Sharing
  <2> HIDE DEF T
  <2> QED BY <1>1, <2>1, <2>2
<1>4. caller' \in [Callers -> T]
  <2> HIDE DEF T
  <2> QED BY <1>1, <1>3
<1>5. Types'
  BY <1>1, <1>2, <1>4 DEF Inv, Types
<1>6. ASSUME NEW v \in Workers
      PROVE  /\ WorkerOk(v)' /\ (Owing(v)' <=> Owing(v))
             /\ (worker'[v].pc = "count" <=> worker[v].pc = "count")
  <2>1. CASE v = w
    BY <1>1, <1>2, <2>1 DEF WorkerOk, Owing, Working
  <2>2. CASE v # w
    <3>1. worker'[v] = worker[v] /\ WorkerOk(v)
      BY <1>2, <2>2 DEF Inv, Mailboxes
    <3> QED BY <1>1, <3>1 DEF WorkerOk, Owing
  <2> QED BY <2>1, <2>2
<1> QED
  BY <1>1, <1>3, <1>5, <1>6, LookingKeeps

-----------------------------------------------------------------------------
(* The callers.                                                             *)

\* A caller goes on with its job; the others stay where they are.
LEMMA CallerGoes ==
    ASSUME Types, NEW c \in Callers, NEW pc \in CallerPcs, caller' = [caller EXCEPT ![c].pc = pc]
    PROVE  /\ caller' \in [Callers -> [pc : CallerPcs, rows : 0..MaxRows, saw : Nat,
                                       answer : {"none", "busy", "ok"}]]
           /\ caller'[c].pc = pc /\ caller'[c].rows = caller[c].rows
           /\ \A d \in Callers \ {c} : caller'[d] = caller[d]
<1> DEFINE T == [pc : CallerPcs, rows : 0..MaxRows, saw : Nat, answer : {"none", "busy", "ok"}]
           y == [caller[c] EXCEPT !.pc = pc]
<1>1. caller \in [Callers -> T] /\ caller' = [caller EXCEPT ![c] = y]
  BY DEF Types
<1>2. caller[c] \in T
  <2> HIDE DEF T
  <2> QED BY <1>1
<1>3. y \in T /\ y.pc = pc /\ y.rows = caller[c].rows
  BY <1>2
<1> HIDE DEF T, y
<1>4. caller' \in [Callers -> T] /\ caller'[c] = y /\ \A d \in Callers \ {c} : caller'[d] = caller[d]
  BY <1>1, <1>3
<1> QED
  BY <1>3, <1>4 DEF T

\* A caller is turned away, or looks at the count.
LEMMA LookingCallerKeeps ==
    ASSUME Inv, NEW c \in Callers,
           CallRefused(c) \/ WaitForCount(c) \/ (SeeCount(c) /\ ~AllCounted(c))
    PROVE  Inv'
<1> DEFINE T == [pc : CallerPcs, rows : 0..MaxRows, saw : Nat, answer : {"none", "busy", "ok"}]
<1>1. UNCHANGED <<life, created, stopping, busy, completed, generation, payload, worker, index, job, runs>>
  BY DEF CallRefused, WaitForCount, SeeCount, Goto, lifeVars, jobVars
<1>2. caller \in [Callers -> T] /\ completed \in Nat
  BY DEF Inv, Types
<1>3. caller[c] \in T
  <2> HIDE DEF T
  <2> QED BY <1>2
<1>4. PICK y : caller' = [caller EXCEPT ![c] = y] /\ y \in T /\ y.rows = caller[c].rows /\
         (\/ y.pc = caller[c].pc
          \/ /\ caller[c].pc \in {"count", "wait", "asleep"}
             /\ y.pc \in {"count", "wait", "asleep"})
  <2>1. CASE CallRefused(c)
    <3> DEFINE y == [caller[c] EXCEPT !.answer = "busy"]
    <3>1. caller' = [caller EXCEPT ![c] = y]
      BY <2>1 DEF CallRefused
    <3>2. y \in T /\ y.rows = caller[c].rows /\ y.pc = caller[c].pc
      BY <1>3
    <3> QED BY <3>1, <3>2
  <2>2. CASE WaitForCount(c)
    <3>1. PICK pc \in {"asleep", "count"} : caller' = [caller EXCEPT ![c].pc = pc]
      BY <2>2 DEF WaitForCount, Goto
    <3> DEFINE y == [caller[c] EXCEPT !.pc = pc]
    <3>2. caller' = [caller EXCEPT ![c] = y] /\ caller[c].pc = "wait"
      BY <2>2, <3>1 DEF WaitForCount
    <3>3. y \in T /\ y.rows = caller[c].rows /\ y.pc = pc
      BY <1>3 DEF CallerPcs, Sharing
    <3> QED BY <3>2, <3>3
  <2>3. CASE SeeCount(c) /\ ~AllCounted(c)
    <3> DEFINE y == [caller[c] EXCEPT !.pc = "wait", !.saw = completed]
    <3>1. caller' = [caller EXCEPT ![c] = y] /\ caller[c].pc = "count"
      BY <2>3 DEF SeeCount
    <3>2. y \in T /\ y.rows = caller[c].rows /\ y.pc = "wait"
      BY <1>2, <1>3 DEF CallerPcs, Sharing
    <3> QED BY <3>1, <3>2
  <2> QED BY <2>1, <2>2, <2>3
<1> HIDE DEF T
<1>5. caller' \in [Callers -> T] /\ caller'[c] = y /\ \A d \in Callers \ {c} : caller'[d] = caller[d]
  BY <1>2, <1>4
<1>6. Types'
  BY <1>1, <1>5 DEF Inv, Types, T
<1>7. \A d \in Callers : /\ caller'[d].rows = caller[d].rows
                         /\ \/ caller'[d].pc = caller[d].pc
                            \/ /\ caller[d].pc \in {"count", "wait", "asleep"}
                               /\ caller'[d].pc \in {"count", "wait", "asleep"}
  BY <1>4, <1>5
<1>8. \A v \in Workers : /\ WorkerOk(v)' /\ (Owing(v)' <=> Owing(v))
                         /\ worker'[v].pc = "count" <=> worker[v].pc = "count"
  BY <1>1 DEF Inv, Mailboxes, WorkerOk, Owing
<1> QED
  BY <1>1, <1>6, <1>7, <1>8, LookingKeeps

\* A call is accepted: nobody owes anything, and nothing of it was executed.
LEMMA CallKeeps ==
    ASSUME Inv, NEW c \in Callers, NEW rows \in 1..MaxRows, Call(c, rows)
    PROVE  Inv'
<1> DEFINE T == [pc : CallerPcs, rows : 0..MaxRows, saw : Nat, answer : {"none", "busy", "ok"}]
<1>1. /\ life = "up" /\ caller[c].pc = "out" /\ ~busy /\ job < MaxJobs
      /\ busy' = TRUE /\ job' = job + 1
      /\ UNCHANGED <<life, created, stopping, generation, payload, worker, runs>>
  BY DEF Call, lifeVars
<1>2. caller \in [Callers -> T] /\ completed \in Nat /\ index \in Nat /\ rows \in Nat \ {0}
  BY ExecutorAssumption DEF Inv, Types
<1>3. caller[c] \in T
  <2> HIDE DEF T
  <2> QED BY <1>2
<1>4. PICK pc \in {"inline", "publish"} : caller' = [caller EXCEPT ![c] = [caller[c] EXCEPT !.pc = pc, !.rows = rows]]
                  /\ (pc = "publish" => completed' = 0 /\ index' = 1 /\ Participants(rows) # 1)
                  /\ completed' \in Nat /\ index' \in Nat
  <2>1. CASE Participants(rows) = 1 \/ rows < MinParallelRows
    BY <1>2, <2>1 DEF Call
  <2>2. CASE ~(Participants(rows) = 1 \/ rows < MinParallelRows)
    BY <1>2, <2>2 DEF Call
  <2> QED BY <2>1, <2>2
<1> DEFINE y == [caller[c] EXCEPT !.pc = pc, !.rows = rows]
<1>5. y \in T /\ y.pc = pc /\ y.rows = rows
  <2>1. rows \in 0..MaxRows
    BY ExecutorAssumption
  <2> QED BY <1>3, <2>1 DEF CallerPcs, Sharing
<1> HIDE DEF T, y
<1>6. caller' \in [Callers -> T] /\ caller'[c] = y /\ \A d \in Callers \ {c} : caller'[d] = caller[d]
  BY <1>2, <1>4, <1>5 DEF y
<1>7. job' \in 0..MaxJobs /\ job' \in 1..MaxJobs /\ job \in Nat
  BY <1>1, ExecutorAssumption DEF Inv, Types
<1>8. Types'
  BY <1>1, <1>4, <1>6, <1>7 DEF Inv, Types, T
<1>9. \A d \in Callers : caller[d].pc = "out"
  BY <1>1 DEF Inv, Exclusive
<1>10. pc = "publish" => index' \in 1..Helpers(rows)
  <2>1. Participants(rows) \in Nat \ {0} /\ Helpers(rows) + 1 = Participants(rows) /\ Helpers(rows) \in Nat
    BY <1>2, ParticipantsBounded
  <2> QED BY <1>4, <2>1
<1>11. Exclusive'
  BY <1>1, <1>4, <1>5, <1>6, <1>7, <1>9, <1>10 DEF Inv, Exclusive, Helpers, Participants
<1>12. \A w \in Workers : ~Owing(w) /\ WorkerOk(w)
  <2>1. ~stopping
    BY <1>1 DEF Inv, Exclusive
  <2>2. \A d \in Callers : Given(d) = {}
    BY <1>9, OutGives DEF Sharing
  <2> QED BY <2>1, <2>2 DEF Inv, Mailboxes
<1>13. \A w \in Workers : ~Owing(w)' /\ WorkerOk(w)'
  BY <1>1, <1>12 DEF Owing, WorkerOk
<1>14. Given(c)' = {} /\ Done(c)' = {}
  <2>1. caller'[c].pc = pc
    BY <1>5, <1>6
  <2>2. \A n \in 1..Helpers(caller'[c].rows) : ~(n < 1)
    OBVIOUS
  <2>3. Given(c)' = {}
    BY <1>4, <2>1, <2>2 DEF Given
  <2> QED BY <1>4, <2>1, <2>3 DEF Done
<1>15. Posted(c)' /\ Counted(c)'
  <2>1. Finished(c)' = {}
    BY <1>14 DEF Finished
  <2>2. pc # "bump" /\ (pc \in Sharing => pc = "publish")
    BY <1>4 DEF Sharing
  <2> QED BY <1>4, <1>5, <1>6, <1>14, <2>1, <2>2, FS_EmptySet DEF Posted, Counted
<1>16. RowsRun(c)' /\ LaterJobs'
  <2>1. \A r \in Rows : runs'[job'][r] = 0
    BY <1>1, <1>7 DEF Inv, LaterJobs
  <2>2. LaterJobs'
    BY <1>1, <1>7 DEF Inv, LaterJobs
  <2> QED BY <1>4, <1>5, <1>6, <1>14, <2>1, <2>2 DEF RowsRun
<1> QED
  BY <1>6, <1>8, <1>9, <1>11, <1>13, <1>15, <1>16, OneInside

\* A small job is executed by the caller alone.
LEMMA RunInlineKeeps ==
    ASSUME Inv, NEW c \in Callers, RunInline(c)
    PROVE  Inv'
<1>1. /\ caller[c].pc = "inline" /\ runs' = Executed(job, 0..(caller[c].rows - 1))
      /\ caller' = [caller EXCEPT ![c].pc = "finish"]
      /\ UNCHANGED <<life, created, stopping, busy, completed, generation, payload, worker, index, job>>
  BY DEF RunInline, Goto, lifeVars
<1>2. /\ caller' \in [Callers -> [pc : CallerPcs, rows : 0..MaxRows, saw : Nat,
                                  answer : {"none", "busy", "ok"}]]
      /\ caller'[c].pc = "finish" /\ caller'[c].rows = caller[c].rows
      /\ \A d \in Callers \ {c} : caller'[d] = caller[d]
  BY <1>1, CallerGoes DEF Inv, CallerPcs
<1>3. /\ \A d \in Callers \ {c} : caller[d].pc = "out"
      /\ \A v \in Workers : Owing(v) => v \in Given(c)
      /\ caller[c].rows \in 1..MaxRows /\ job \in 1..MaxJobs
  BY <1>1, OthersOut
<1>4. \A v \in Workers : ~Owing(v) /\ WorkerOk(v)
  BY <1>1, <1>3, OutGives DEF Inv, Mailboxes, Sharing
<1> DEFINE S == 0..(caller[c].rows - 1)
<1>5. /\ runs' \in [1..MaxJobs -> [Rows -> Nat]]
      /\ \A r \in Rows : r \in S => runs'[job][r] = runs[job][r] + 1
      /\ \A j \in 1..MaxJobs : j # job => runs'[j] = runs[j]
  <2> HIDE DEF S
  <2>1. runs' = Executed(job, S)
    BY <1>1 DEF S
  <2> QED BY <1>3, <2>1, ExecutedRuns DEF Inv
<1>6. Types'
  BY <1>1, <1>2, <1>5 DEF Inv, Types
<1>7. Exclusive'
  BY <1>1, <1>2, <1>3 DEF Inv, Exclusive, Helpers, Participants
<1>8. \A v \in Workers : ~Owing(v)' /\ WorkerOk(v)'
  BY <1>1, <1>4 DEF Owing, WorkerOk
<1>9. Posted(c)' /\ Counted(c)'
  BY <1>2, OutGivesNext DEF Sharing
<1>10. LaterJobs'
  <2>1. \A j \in 1..MaxJobs : j > job => j # job
    BY <1>3
  <2> QED BY <1>1, <1>5, <2>1 DEF Inv, LaterJobs
<1>11. RowsRun(c)'
  <2>1. S \subseteq Rows
    BY <1>3, ExecutorAssumption DEF Rows
  <2>2. \A r \in Rows : runs[job][r] = 0
    BY <1>1 DEF Inv, RowsRun
  <2>3. \A r \in S : runs'[job][r] = 1
    BY <1>5, <2>1, <2>2
  <2> QED BY <1>1, <1>2, <2>3 DEF RowsRun, Sharing
<1> QED
  BY <1>2, <1>3, <1>6, <1>7, <1>8, <1>9, <1>10, <1>11, OneInside

\* The next mailbox is written, which no worker may be reading.
LEMMA PublishKeeps ==
    ASSUME Inv, NEW c \in Callers, Publish(c)
    PROVE  Inv'
<1>1. /\ caller[c].pc = "publish" /\ payload' = [payload EXCEPT ![index] = ShareOf(c)]
      /\ caller' = [caller EXCEPT ![c].pc = "bump"]
      /\ UNCHANGED <<life, created, stopping, busy, completed, generation, worker, index, job, runs>>
  BY DEF Publish, Goto, ShareOf, lifeVars, jobVars
<1>2. /\ caller' \in [Callers -> [pc : CallerPcs, rows : 0..MaxRows, saw : Nat,
                                  answer : {"none", "busy", "ok"}]]
      /\ caller'[c].pc = "bump" /\ caller'[c].rows = caller[c].rows
      /\ \A d \in Callers \ {c} : caller'[d] = caller[d]
  BY <1>1, CallerGoes DEF Inv, CallerPcs, Sharing
<1>3. /\ \A d \in Callers \ {c} : caller[d].pc = "out"
      /\ \A v \in Workers : Owing(v) => v \in Given(c)
      /\ caller[c].rows \in Nat \ {0} /\ job \in 1..MaxJobs
      /\ Given(c) \subseteq 1..Helpers(caller[c].rows) /\ 1..Helpers(caller[c].rows) \subseteq Workers
  BY <1>1, OthersOut
<1>4. index \in 1..Helpers(caller[c].rows)
  BY <1>1 DEF Inv, Exclusive
<1>5. index \in Workers /\ index \notin Given(c)
  BY <1>1, <1>3, <1>4 DEF Given, Workers
<1>6. Given(c)' = Given(c) /\ ShareOf(c)' = ShareOf(c) /\ Helpers(caller'[c].rows) = Helpers(caller[c].rows)
  BY <1>1, <1>2 DEF Given, ShareOf, Helpers, Participants
<1>7. ShareOf(c) \in Share
  BY <1>3, ParticipantsBounded DEF ShareOf, Share
<1>8. /\ payload' \in [Workers -> Share] /\ payload'[index] = ShareOf(c)
      /\ \A v \in Workers \ {index} : payload'[v] = payload[v]
  BY <1>1, <1>5, <1>7 DEF Inv, Types
<1>9. Types'
  BY <1>1, <1>2, <1>8 DEF Inv, Types
<1>10. Exclusive'
  BY <1>1, <1>2, <1>3, <1>4 DEF Inv, Exclusive, Helpers, Participants
<1>11. Posted(c)'
  <2>1. \A v \in Given(c) : v \in Workers \ {index} /\ payload[v] = ShareOf(c)
    BY <1>3, <1>5 DEF Inv, Mailboxes, Posted
  <2>2. payload'[index'] = ShareOf(c)'
    BY <1>1, <1>6, <1>8
  <2> QED BY <1>6, <1>8, <2>1, <2>2 DEF Posted
<1>12. Counted(c)'
  <2>1. Finished(c)' = Finished(c)
    BY <1>1, <1>6 DEF Finished, Owing
  <2> QED BY <1>1, <2>1 DEF Inv, Counted, Sharing
<1>13. RowsRun(c)'
  <2>1. Done(c)' = Done(c)
    BY <1>1, <1>2, <1>6 DEF Done, Owing
  <2>2. \A p : RangeOf(c, p)' = RangeOf(c, p)
    BY <1>2 DEF RangeOf, Participants
  <2> QED BY <1>1, <1>2, <2>1, <2>2 DEF Inv, RowsRun, Sharing
<1>14. ASSUME NEW v \in Workers
       PROVE  WorkerOk(v)' /\ (Owing(v)' => v \in Given(c)')
  <2>1. WorkerOk(v) /\ (Owing(v)' <=> Owing(v))
    BY <1>1 DEF Inv, Mailboxes, Owing
  <2>2. v = index => worker[v].pc \notin {"run", "count"}
    BY <1>3, <1>5 DEF Owing, Working
  <2>3. WorkerOk(v)'
    BY <1>1, <1>8, <2>1, <2>2 DEF WorkerOk
  <2> QED BY <1>3, <1>6, <2>1, <2>3
<1>15. (\A d \in Callers \ {c} : caller'[d].pc = "out") /\ LaterJobs'
  BY <1>1, <1>2, <1>3 DEF Inv, LaterJobs
<1> QED
  BY <1>9, <1>10, <1>11, <1>12, <1>13, <1>14, <1>15, OneInside

\* The new generation gives the worker its share.
LEMMA BumpKeeps ==
    ASSUME Inv, NEW c \in Callers, Bump(c)
    PROVE  Inv'
<1>1. /\ caller[c].pc = "bump" /\ generation' = [generation EXCEPT ![index] = generation[index] + 1]
      /\ caller' = [caller EXCEPT ![c].pc = "notify"]
      /\ UNCHANGED <<life, created, stopping, busy, completed, payload, worker, index, job, runs>>
  BY DEF Bump, Goto, lifeVars, jobVars
<1>2. /\ caller' \in [Callers -> [pc : CallerPcs, rows : 0..MaxRows, saw : Nat,
                                  answer : {"none", "busy", "ok"}]]
      /\ caller'[c].pc = "notify" /\ caller'[c].rows = caller[c].rows
      /\ \A d \in Callers \ {c} : caller'[d] = caller[d]
  BY <1>1, CallerGoes DEF Inv, CallerPcs, Sharing
<1>3. /\ \A d \in Callers \ {c} : caller[d].pc = "out"
      /\ \A v \in Workers : Owing(v) => v \in Given(c)
      /\ caller[c].rows \in Nat \ {0} /\ job \in 1..MaxJobs /\ life = "up" /\ ~stopping
      /\ Given(c) \subseteq 1..Helpers(caller[c].rows) /\ 1..Helpers(caller[c].rows) \subseteq Workers
  BY <1>1, OthersOut
<1>4. index \in 1..Helpers(caller[c].rows) /\ payload[index] = ShareOf(c)
  BY <1>1 DEF Inv, Exclusive, Mailboxes, Posted
<1>5. index \in Workers /\ index \notin Given(c) /\ ~Owing(index)
  BY <1>1, <1>3, <1>4 DEF Given, Workers
<1>6. ShareOf(c)' = ShareOf(c) /\ Helpers(caller'[c].rows) = Helpers(caller[c].rows)
  BY <1>1, <1>2 DEF ShareOf, Helpers, Participants
<1>7. /\ generation' \in [Workers -> Nat] /\ generation'[index] = generation[index] + 1
      /\ generation[index] \in Nat /\ \A v \in Workers \ {index} : generation'[v] = generation[v]
  BY <1>1, <1>5 DEF Inv, Types
<1>8. Given(c)' = Given(c) \cup {index}
  <2>1. Given(c) = {w \in 1..Helpers(caller[c].rows) : w < index}
    BY <1>1 DEF Given
  <2>2. Given(c)' = {w \in 1..Helpers(caller[c].rows) : w <= index}
    BY <1>1, <1>2, <1>6 DEF Given
  <2>3. \A w \in 1..Helpers(caller[c].rows) : w <= index <=> w < index \/ w = index
    BY <1>4
  <2> QED BY <1>4, <2>1, <2>2, <2>3
<1>9. WorkerOk(index) /\ generation[index] = worker[index].observed /\ worker[index].pc \notin Working
  BY <1>5 DEF Inv, Mailboxes, Owing
<1>10. Owing(index)' /\ \A v \in Workers \ {index} : Owing(v)' <=> Owing(v)
  BY <1>1, <1>7, <1>9 DEF Owing
<1>11. Types'
  BY <1>1, <1>2, <1>7 DEF Inv, Types
<1>12. Exclusive'
  BY <1>1, <1>2, <1>3, <1>4 DEF Inv, Exclusive, Helpers, Participants
<1>13. Posted(c)'
  <2>1. \A v \in Given(c) : payload[v] = ShareOf(c)
    BY DEF Inv, Mailboxes, Posted
  <2> QED BY <1>1, <1>2, <1>4, <1>6, <1>8, <2>1 DEF Posted
<1>14. Counted(c)'
  <2>1. Finished(c)' = Finished(c)
    <3>1. \A v \in Given(c) : v # index /\ (~Owing(v)' <=> ~Owing(v))
      BY <1>3, <1>5, <1>10
    <3>2. Finished(c)' = {v \in Given(c)' : ~Owing(v)'}
      BY DEF Finished
    <3>3. \A v : v \in Given(c)' <=> v \in Given(c) \/ v = index
      BY <1>8
    <3>4. \A v : (v \in Given(c)' /\ ~Owing(v)') <=> (v \in Given(c) /\ ~Owing(v))
      <4>1. ASSUME NEW v
            PROVE  (v \in Given(c)' /\ ~Owing(v)') <=> (v \in Given(c) /\ ~Owing(v))
        <5>1. CASE v = index
          BY <1>1, <1>5, <1>10, <5>1 DEF Owing
        <5>2. CASE v # index
          BY <3>1, <3>3, <5>2
        <5> QED BY <5>1, <5>2
      <4> QED BY <4>1
    <3> HIDE <1>8, <1>10, <3>1, <3>3
    <3> QED BY <3>2, <3>4 DEF Finished
  <2> QED BY <1>1, <2>1 DEF Inv, Counted, Sharing
<1>15. RowsRun(c)'
  <2>1. worker'[index].pc # "count"
    BY <1>1, <1>9 DEF Working
  <2>2. Done(c)' = Done(c)
    BY <1>1, <1>2, <1>3, <1>5, <1>6, <1>8, <1>10, <2>1 DEF Done
  <2>3. \A p : RangeOf(c, p)' = RangeOf(c, p)
    BY <1>2 DEF RangeOf, Participants
  <2> QED BY <1>1, <1>2, <2>2, <2>3 DEF Inv, RowsRun, Sharing
<1>16. ASSUME NEW v \in Workers
       PROVE  WorkerOk(v)' /\ (Owing(v)' => v \in Given(c)')
  <2>1. CASE v = index
    <3>1. worker[v].pc # "check"
      BY <1>3, <1>9, <2>1 DEF WorkerOk
    <3>2. WorkerOk(v)'
      BY <1>1, <1>9, <2>1, <3>1 DEF WorkerOk, Working
    <3> QED BY <1>8, <2>1, <3>2
  <2>2. CASE v # index
    <3>1. generation'[v] = generation[v] /\ WorkerOk(v)
      BY <1>7, <2>2 DEF Inv, Mailboxes
    <3>2. WorkerOk(v)'
      BY <1>1, <3>1 DEF WorkerOk
    <3> QED BY <1>3, <1>8, <1>10, <2>2, <3>2
  <2> QED BY <2>1, <2>2
<1>17. (\A d \in Callers \ {c} : caller'[d].pc = "out") /\ LaterJobs'
  BY <1>1, <1>2, <1>3 DEF Inv, LaterJobs
<1> QED
  BY <1>11, <1>12, <1>13, <1>14, <1>15, <1>16, <1>17, OneInside

\* The worker is notified, and the next mailbox is next.
LEMMA NotifyKeeps ==
    ASSUME Inv, NEW c \in Callers, Notify(c)
    PROVE  Inv'
<1> DEFINE h == Helpers(caller[c].rows)
<1>1. /\ caller[c].pc = "notify" /\ worker' = Wake(index) /\ index' = index + 1
      /\ UNCHANGED <<life, created, stopping, busy, completed, generation, payload, job, runs>>
  BY DEF Notify, lifeVars, jobVars
<1>2. PICK pc \in {"run", "publish"} : /\ caller' = [caller EXCEPT ![c].pc = pc]
                                       /\ (pc = "run" <=> index = h)
  BY DEF Notify, Goto
<1>3. /\ caller' \in [Callers -> [pc : CallerPcs, rows : 0..MaxRows, saw : Nat,
                                  answer : {"none", "busy", "ok"}]]
      /\ caller'[c].pc = pc /\ caller'[c].rows = caller[c].rows
      /\ \A d \in Callers \ {c} : caller'[d] = caller[d]
  <2>1. pc \in CallerPcs
    BY DEF CallerPcs, Sharing
  <2> QED BY <1>2, <2>1, CallerGoes DEF Inv
<1>4. /\ \A d \in Callers \ {c} : caller[d].pc = "out"
      /\ \A v \in Workers : Owing(v) => v \in Given(c)
      /\ caller[c].rows \in Nat \ {0} /\ job \in 1..MaxJobs
      /\ Given(c) \subseteq 1..h /\ 1..h \subseteq Workers
  BY <1>1, OthersOut
<1>5. index \in 1..h /\ h \in Nat
  BY <1>1, <1>4, ParticipantsBounded DEF Inv, Exclusive
<1>6. ShareOf(c)' = ShareOf(c) /\ Helpers(caller'[c].rows) = h
  BY <1>1, <1>3 DEF ShareOf, Helpers, Participants
<1> HIDE DEF h
<1>7. Given(c)' = Given(c)
  <2>1. Given(c) = {w \in 1..h : w <= index}
    BY <1>1 DEF Given, h
  <2>2. CASE pc = "run"
    <3>1. Given(c)' = {w \in 1..h : TRUE}
      BY <1>3, <1>6, <2>2 DEF Given
    <3>2. index = h
      BY <1>2, <2>2
    <3> QED BY <1>5, <2>1, <3>1, <3>2
  <2>3. CASE pc = "publish"
    <3>1. Given(c)' = {w \in 1..h : w < index + 1}
      BY <1>1, <1>3, <1>6, <2>3 DEF Given
    <3> QED BY <1>5, <2>1, <3>1
  <2> QED BY <2>2, <2>3
<1>8. ASSUME NEW v \in Workers
      PROVE  /\ worker'[v].observed = worker[v].observed /\ worker'[v].seen = worker[v].seen
             /\ worker'[v].got = worker[v].got
             /\ \A x \in Working \cup {"check"} : worker'[v].pc = x <=> worker[v].pc = x
  BY <1>1, WokenSame DEF Inv
<1>9. ASSUME NEW v \in Workers
      PROVE  /\ Owing(v)' <=> Owing(v)
             /\ worker'[v].pc = "count" <=> worker[v].pc = "count"
             /\ WorkerOk(v)'
  <2>1. WorkerOk(v)
    BY DEF Inv, Mailboxes
  <2> QED BY <1>1, <1>8, <2>1 DEF Owing, WorkerOk, Working
<1>10. Types'
  <2>1. worker' \in [Workers -> [pc : WorkerPcs, observed : Nat, seen : Nat, got : Share]]
    BY <1>1, WakeOne DEF Inv
  <2>2. index' \in Nat
    BY <1>1, <1>5
  <2> QED BY <1>1, <1>3, <2>1, <2>2 DEF Inv, Types
<1>11. Exclusive'
  <2>1. caller'[c].pc \in {"publish", "bump", "notify"} => index' \in 1..Helpers(caller'[c].rows)
    <3>1. CASE pc = "publish"
      BY <1>1, <1>2, <1>5, <1>6, <3>1
    <3>2. CASE pc = "run"
      BY <1>3, <3>2
    <3> QED BY <3>1, <3>2
  <2> QED BY <1>1, <1>2, <1>3, <1>4, <2>1 DEF Inv, Exclusive
<1>12. Posted(c)' /\ Counted(c)'
  <2>1. Finished(c)' = Finished(c)
    BY <1>4, <1>7, <1>9 DEF Finished
  <2>2. pc # "bump"
    OBVIOUS
  <2> QED BY <1>1, <1>3, <1>6, <1>7, <2>1, <2>2 DEF Inv, Mailboxes, Posted, Counted, Sharing
<1>13. RowsRun(c)'
  <2>1. Done(c)' = Done(c)
    <3>1. \A p \in Given(c) : (~Owing(p)' \/ worker'[p].pc = "count") <=> (~Owing(p) \/ worker[p].pc = "count")
      BY <1>4, <1>9
    <3>2. caller[c].pc \notin {"count", "wait", "asleep"} /\ caller'[c].pc \notin {"count", "wait", "asleep"}
      BY <1>1, <1>3
    <3> QED BY <1>6, <1>7, <3>1, <3>2 DEF Done, h
  <2>2. \A p : RangeOf(c, p)' = RangeOf(c, p)
    BY <1>3 DEF RangeOf, Participants
  <2> QED BY <1>1, <1>3, <2>1, <2>2 DEF Inv, RowsRun, Sharing
<1>14. \A v \in Workers : WorkerOk(v)' /\ (Owing(v)' => v \in Given(c)')
  BY <1>4, <1>7, <1>9
<1>15. (\A d \in Callers \ {c} : caller'[d].pc = "out") /\ LaterJobs'
  BY <1>1, <1>3, <1>4 DEF Inv, LaterJobs
<1> QED
  BY <1>10, <1>11, <1>12, <1>13, <1>14, <1>15, OneInside

\* The caller executes its own range.
LEMMA RunOwnKeeps ==
    ASSUME Inv, NEW c \in Callers, RunOwn(c)
    PROVE  Inv'
<1>1. /\ caller[c].pc = "run" /\ runs' = Executed(job, RangeOf(c, 0))
      /\ caller' = [caller EXCEPT ![c].pc = "count"]
      /\ UNCHANGED <<life, created, stopping, busy, completed, generation, payload, worker, index, job>>
  BY DEF RunOwn, Goto, RangeOf, lifeVars
<1>2. /\ caller' \in [Callers -> [pc : CallerPcs, rows : 0..MaxRows, saw : Nat,
                                  answer : {"none", "busy", "ok"}]]
      /\ caller'[c].pc = "count" /\ caller'[c].rows = caller[c].rows
      /\ \A d \in Callers \ {c} : caller'[d] = caller[d]
  BY <1>1, CallerGoes DEF Inv, CallerPcs, Sharing
<1>3. /\ \A d \in Callers \ {c} : caller[d].pc = "out"
      /\ \A v \in Workers : Owing(v) => v \in Given(c)
      /\ caller[c].rows \in Nat \ {0}
      /\ Given(c) \subseteq 1..Helpers(caller[c].rows)
  BY <1>1, OthersOut
<1>4. 0 \in 0..Helpers(caller[c].rows)
  BY <1>3, ParticipantsBounded
<1>5. Given(c)' = Given(c) /\ ShareOf(c)' = ShareOf(c) /\ Helpers(caller'[c].rows) = Helpers(caller[c].rows)
  BY <1>1, <1>2 DEF Given, ShareOf, Helpers, Participants
<1>6. 0 \notin Given(c)
  BY <1>3
<1>7. 0 \notin Done(c) /\ Done(c)' = Done(c) \cup {0}
  <2>1. 0 \notin Done(c)
    BY <1>1, <1>6 DEF Done
  <2>2. \A p : (Owing(p)' <=> Owing(p)) /\ (worker'[p].pc = "count" <=> worker[p].pc = "count")
    BY <1>1 DEF Owing
  <2> QED BY <1>1, <1>2, <1>4, <1>5, <2>1, <2>2 DEF Done
<1>8. RowsRun(c)' /\ LaterJobs' /\ runs' \in [1..MaxJobs -> [Rows -> Nat]]
  BY <1>1, <1>2, <1>4, <1>7, RangeExecuted DEF Sharing
<1>9. Types'
  BY <1>1, <1>2, <1>8 DEF Inv, Types
<1>10. Exclusive'
  BY <1>1, <1>2, <1>3 DEF Inv, Exclusive, Helpers, Participants
<1>11. Posted(c)' /\ Counted(c)'
  <2>1. Finished(c)' = Finished(c)
    BY <1>1, <1>5 DEF Finished, Owing
  <2> QED BY <1>1, <1>2, <1>5, <2>1 DEF Inv, Mailboxes, Posted, Counted, Sharing
<1>12. \A v \in Workers : WorkerOk(v)' /\ (Owing(v)' => v \in Given(c)')
  BY <1>1, <1>3, <1>5 DEF Inv, Mailboxes, WorkerOk, Owing
<1>13. \A d \in Callers \ {c} : caller'[d].pc = "out"
  BY <1>2, <1>3
<1> QED
  BY <1>8, <1>9, <1>10, <1>11, <1>12, <1>13, OneInside

\* When every helper has counted itself, none owes anything and all rows were executed.
LEMMA AllAreDone ==
    ASSUME Inv, NEW c \in Callers, caller[c].pc = "count", AllCounted(c)
    PROVE  /\ \A w \in Workers : ~Owing(w)
           /\ \A r \in 0..(caller[c].rows - 1) : runs[job][r] = 1
<1> DEFINE n == caller[c].rows
           h == Helpers(n)
<1>1. /\ \A v \in Workers : Owing(v) => v \in Given(c)
      /\ n \in Nat \ {0} /\ n \in 1..MaxRows
  BY OthersOut
<1>2. h \in Nat /\ h + 1 = Participants(n) /\ Participants(n) \in Nat \ {0}
  BY <1>1, ParticipantsBounded
<1>3. Given(c) = 1..h
  BY DEF Given
<1>4. completed = Cardinality(Finished(c)) /\ completed = h
  BY DEF Inv, Counted, Sharing, AllCounted
<1>5. Finished(c) = 1..h
  <2> HIDE DEF h
  <2>1. Finished(c) \in SUBSET (1..h)
    BY <1>3 DEF Finished
  <2>2. IsFiniteSet(1..h) /\ Cardinality(1..h) = h
    <3>1. h \in Nat /\ 1 \in Int /\ h \in Int
      BY <1>2
    <3> HIDE DEF n
    <3>2. IsFiniteSet(1..h) /\ Cardinality(1..h) = IF 1 > h THEN 0 ELSE h - 1 + 1
      BY <3>1, FS_Interval
    <3> QED BY <3>1, <3>2
  <2> QED BY <1>4, <2>1, <2>2, FS_Subset
<1>6. \A w \in 1..h : ~Owing(w)
  BY <1>5 DEF Finished
<1>7. \A w \in Workers : ~Owing(w)
  BY <1>1, <1>3, <1>6
<1>8. Done(c) = 0..h
  <2>1. \A p \in 0..h : p = 0 \/ p \in 1..h
    BY <1>2
  <2> QED BY <1>3, <1>6, <2>1 DEF Done
<1>9. ASSUME NEW r \in 0..(n - 1)
      PROVE  runs[job][r] = 1
  <2>1. 0..h = 0..(Participants(n) - 1)
    BY <1>2
  <2>2. \E p \in 0..(Participants(n) - 1) : r \in RowRange(n, Participants(n), p)
    BY <1>1, <1>2, RangesCover
  <2>3. \E p \in Done(c) : r \in RangeOf(c, p)
    BY <1>8, <2>1, <2>2 DEF RangeOf
  <2>4. r \in Rows
    BY <1>1, ExecutorAssumption DEF Rows
  <2> QED BY <2>3, <2>4 DEF Inv, RowsRun, Sharing
<1> QED
  BY <1>7, <1>9

\* The job is complete.
LEMMA SeeAllKeeps ==
    ASSUME Inv, NEW c \in Callers, SeeCount(c), AllCounted(c)
    PROVE  Inv'
<1>1. /\ caller[c].pc = "count" /\ caller' = [caller EXCEPT ![c].pc = "finish"]
      /\ UNCHANGED <<life, created, stopping, busy, completed, generation, payload, worker, index, job, runs>>
  BY DEF SeeCount, Goto, lifeVars, jobVars
<1>2. /\ caller' \in [Callers -> [pc : CallerPcs, rows : 0..MaxRows, saw : Nat,
                                  answer : {"none", "busy", "ok"}]]
      /\ caller'[c].pc = "finish" /\ caller'[c].rows = caller[c].rows
      /\ \A d \in Callers \ {c} : caller'[d] = caller[d]
  BY <1>1, CallerGoes DEF Inv, CallerPcs
<1>3. \A d \in Callers \ {c} : caller[d].pc = "out"
  BY <1>1, OthersOut
<1>4. /\ \A w \in Workers : ~Owing(w)
      /\ \A r \in 0..(caller[c].rows - 1) : runs[job][r] = 1
  BY <1>1, AllAreDone
<1>5. Types'
  BY <1>1, <1>2 DEF Inv, Types
<1>6. Exclusive'
  BY <1>1, <1>2, <1>3 DEF Inv, Exclusive, Helpers, Participants
<1>7. Posted(c)' /\ Counted(c)'
  BY <1>2, OutGivesNext DEF Sharing
<1>8. RowsRun(c)'
  BY <1>1, <1>2, <1>4 DEF RowsRun, Sharing
<1>9. \A v \in Workers : WorkerOk(v)' /\ ~Owing(v)'
  BY <1>1, <1>4 DEF Inv, Mailboxes, WorkerOk, Owing
<1>10. (\A d \in Callers \ {c} : caller'[d].pc = "out") /\ LaterJobs'
  BY <1>1, <1>2, <1>3 DEF Inv, LaterJobs
<1> QED
  BY <1>5, <1>6, <1>7, <1>8, <1>9, <1>10, OneInside

\* The call returns.
LEMMA ReturnKeeps ==
    ASSUME Inv, NEW c \in Callers, Return(c)
    PROVE  Inv'
<1> DEFINE T == [pc : CallerPcs, rows : 0..MaxRows, saw : Nat, answer : {"none", "busy", "ok"}]
           y == [Outside EXCEPT !.answer = "ok"]
<1>1. /\ caller[c].pc = "finish" /\ caller' = [caller EXCEPT ![c] = y] /\ busy' = FALSE
      /\ UNCHANGED <<life, created, stopping, completed, generation, payload, worker, index, job, runs>>
  BY DEF Return, lifeVars, jobVars
<1>2. y \in T /\ y.pc = "out" /\ caller \in [Callers -> T]
  BY ExecutorAssumption DEF Inv, Types, Outside, CallerPcs
<1> HIDE DEF T, y
<1>3. caller' \in [Callers -> T] /\ caller'[c] = y /\ \A d \in Callers \ {c} : caller'[d] = caller[d]
  BY <1>1, <1>2
<1>4. /\ \A d \in Callers \ {c} : caller[d].pc = "out"
      /\ \A v \in Workers : ~Owing(v)
  BY <1>1, OthersOut, OutGives DEF Sharing
<1>5. \A d \in Callers : caller'[d].pc = "out"
  BY <1>2, <1>3, <1>4
<1>6. Types'
  BY <1>1, <1>3 DEF Inv, Types, T
<1>7. Exclusive'
  BY <1>1, <1>5 DEF Inv, Exclusive
<1>8. LaterJobs' /\ \A v \in Workers : WorkerOk(v)' /\ ~Owing(v)'
  BY <1>1, <1>4 DEF Inv, Mailboxes, WorkerOk, Owing, LaterJobs
<1> QED
  BY <1>5, <1>6, <1>7, <1>8, NobodyInside

-----------------------------------------------------------------------------
(* The invariant.                                                           *)

\* Nothing is shared before the pool is started.
LEMMA InitInv ==
    ASSUME Init
    PROVE  Inv
<1> USE ExecutorAssumption
<1>1. /\ life = "starting" /\ ~stopping /\ ~busy /\ job = 0
      /\ \A c \in Callers : caller[c] = Outside
      /\ \A w \in Workers : worker[w] = Thread("absent") /\ generation[w] = 0
      /\ \A j \in 1..MaxJobs : \A r \in Rows : runs[j][r] = 0
  BY DEF Init
<1>2. Types
  <2>1. /\ Thread("absent") \in [pc : WorkerPcs, observed : Nat, seen : Nat, got : Share]
        /\ NoJob \in Share
    BY DEF Thread, NoJob, Share, WorkerPcs
  <2>2. Outside \in [pc : CallerPcs, rows : 0..MaxRows, saw : Nat, answer : {"none", "busy", "ok"}]
    BY DEF Outside, CallerPcs
  <2>3. runs \in [1..MaxJobs -> [Rows -> Nat]] /\ job \in 0..MaxJobs
    BY DEF Init
  <2> QED BY <2>1, <2>2, <2>3 DEF Init, Types
<1>3. \A c \in Callers : caller[c].pc = "out"
  BY <1>1 DEF Outside
<1>4. Exclusive
  BY <1>1, <1>3 DEF Exclusive
<1>5. \A w \in Workers : WorkerOk(w) /\ ~Owing(w)
  BY <1>1 DEF WorkerOk, Owing, Working, Thread
<1>6. \A c \in Callers : Posted(c) /\ Counted(c)
  BY <1>3, OutGives DEF Sharing
<1>7. \A c \in Callers : RowsRun(c)
  BY <1>3 DEF RowsRun, Sharing
<1> QED
  BY <1>1, <1>2, <1>4, <1>5, <1>6, <1>7 DEF Inv, Mailboxes, LaterJobs

\* A caller's step keeps the invariant.
LEMMA CallerStepKeeps ==
    ASSUME Inv, NEW c \in Callers, CallerStep(c)
    PROVE  Inv'
<1>1. CASE RunInline(c)
  BY <1>1, RunInlineKeeps
<1>2. CASE Publish(c)
  BY <1>2, PublishKeeps
<1>3. CASE Bump(c)
  BY <1>3, BumpKeeps
<1>4. CASE Notify(c)
  BY <1>4, NotifyKeeps
<1>5. CASE RunOwn(c)
  BY <1>5, RunOwnKeeps
<1>6. CASE SeeCount(c) /\ AllCounted(c)
  BY <1>6, SeeAllKeeps
<1>7. CASE WaitForCount(c) \/ (SeeCount(c) /\ ~AllCounted(c))
  BY <1>7, LookingCallerKeeps
<1>8. CASE Return(c)
  BY <1>8, ReturnKeeps
<1> QED
  BY <1>1, <1>2, <1>3, <1>4, <1>5, <1>6, <1>7, <1>8 DEF CallerStep

\* A worker's step keeps the invariant.
LEMMA WorkerStepKeeps ==
    ASSUME Inv, NEW w \in Workers, WorkerStep(w)
    PROVE  Inv'
<1>1. CASE RunRows(w)
  BY <1>1, RunRowsKeeps
<1>2. CASE Count(w)
  BY <1>2, CountKeeps
<1>3. CASE NotifyCaller(w)
  BY <1>3, NotifyCallerKeeps
<1>4. CASE \/ PollStops(w) \/ PollEnds(w) \/ LoadGeneration(w) \/ WaitForJob(w)
           \/ CheckStopping(w) \/ ReadMailbox(w)
  BY <1>4, LookingWorkerKeeps
<1> QED
  BY <1>1, <1>2, <1>3, <1>4 DEF WorkerStep

\* Every step keeps the invariant.
LEMMA NextKeeps ==
    ASSUME Inv, [Next]_vars
    PROVE  Inv'
<1>1. CASE Owner
  BY <1>1, OwnerKeeps
<1>2. CASE \E c \in Callers : CallRefused(c)
  BY <1>2, LookingCallerKeeps
<1>3. CASE \E c \in Callers : CallerStep(c)
  BY <1>3, CallerStepKeeps
<1>4. CASE \E c \in Callers : \E rows \in 1..MaxRows : Call(c, rows)
  BY <1>4, CallKeeps
<1>5. CASE \E w \in Workers : WorkerStep(w)
  BY <1>5, WorkerStepKeeps
<1>6. CASE UNCHANGED vars
  <2>1. UNCHANGED <<life, created, stopping, busy, completed, generation, payload, worker,
                    caller, index, job, runs>>
    BY <1>6 DEF vars, lifeVars, jobVars
  <2>2. Types'
    BY <2>1 DEF Inv, Types
  <2>3. \A w \in Workers : WorkerOk(w)' /\ (Owing(w)' <=> Owing(w))
    BY <2>1 DEF Inv, Mailboxes, WorkerOk, Owing
  <2> QED BY <2>1, <2>2, <2>3, LookingKeeps
<1> QED
  BY <1>1, <1>2, <1>3, <1>4, <1>5, <1>6 DEF Next

\* CpuExecutor: one job at a time; a worker acts only on the share it was given,
\* and finds it in its mailbox; completed_workers_ counts the shares that are
\* done; each row was executed once when its participant is done, and never
\* before.
THEOREM ExecutorInvariant == Spec => []Inv
<1>1. Init => Inv
  BY InitInv
<1>2. Inv /\ [Next]_vars => Inv'
  BY NextKeeps
<1> QED
  BY <1>1, <1>2, PTL DEF Spec

\* CpuExecutor::parallel_for_rows: no mailbox is written while its worker may
\* still be reading the payload of the job before.
THEOREM MailboxIsOwned == Spec => []MailboxOwned
<1>1. Inv => MailboxOwned
  <2>1. SUFFICES ASSUME Inv, NEW c \in Callers, caller[c].pc = "publish"
                 PROVE  worker[index].pc \notin {"check", "read"}
    BY DEF MailboxOwned
  <2>2. /\ \A w \in Workers : Owing(w) => w \in Given(c)
        /\ ~stopping /\ 1..Helpers(caller[c].rows) \subseteq Workers
    BY <2>1, OthersOut
  <2>3. index \in 1..Helpers(caller[c].rows)
    BY <2>1 DEF Inv, Exclusive
  <2>4. index \in Workers /\ index \notin Given(c)
    BY <2>1, <2>2, <2>3 DEF Given, Workers
  <2>5. ~Owing(index) /\ WorkerOk(index)
    <3>1. ~Owing(index)
      BY <2>2, <2>4
    <3>2. WorkerOk(index)
      BY <2>1, <2>4 DEF Inv, Mailboxes
    <3> QED BY <3>1, <3>2
  <2> QED BY <2>2, <2>5 DEF Owing, WorkerOk, Working
<1> QED
  BY <1>1, ExecutorInvariant, PTL

-----------------------------------------------------------------------------
(* The fork and join of a job.                                              *)

\* The rows of the job in progress, as ForkJoin knows them.
Size == IF InProgress = {} THEN 0 ELSE caller[CHOOSE c \in InProgress : TRUE].rows

\* Nothing is in progress when every caller is out.
LEMMA SizeOut ==
    /\ (\A c \in Callers : caller[c].pc = "out") => Size = 0
    /\ (\A c \in Callers : caller'[c].pc = "out") => Size' = 0
  BY DEF Size, InProgress

\* The one caller inside has the job in progress.
LEMMA SizeInside ==
    ASSUME Exclusive, NEW c \in Callers, caller[c].pc # "out"
    PROVE  Size = caller[c].rows
<1>1. InProgress = {c}
  BY DEF Exclusive, InProgress
<1> QED
  BY <1>1 DEF Size

\* The same of the state after a step.
LEMMA SizeInsideNext ==
    ASSUME Exclusive', NEW c \in Callers, caller'[c].pc # "out"
    PROVE  Size' = caller'[c].rows
<1>1. InProgress' = {c}
  BY DEF Exclusive, InProgress
<1> QED
  BY <1>1 DEF Size

\* Who goes on with a job does not change it.
LEMMA SizeSame ==
    ASSUME \A c \in Callers : /\ caller'[c].pc = "out" <=> caller[c].pc = "out"
                              /\ caller'[c].rows = caller[c].rows
    PROVE  Size' = Size
<1>1. InProgress' = InProgress
  BY DEF InProgress
<1>2. InProgress # {} => (CHOOSE c \in InProgress : TRUE) \in Callers
  BY DEF InProgress
<1> QED
  BY <1>1, <1>2 DEF Size

\* Executing rows that were not executed is a step of ForkJoin.
LEMMA ExecuteForked ==
    ASSUME Inv, Inv', NEW c \in Callers, caller[c].pc # "out", caller'[c].pc # "out",
           caller'[c].rows = caller[c].rows, job' = job,
           NEW S, S \subseteq 0..(caller[c].rows - 1), runs' = Executed(job, S),
           \A r \in S : runs[job][r] = 0
    PROVE  FJ!Next
<1> DEFINE n == caller[c].rows
           f == [r \in Rows |-> runs[job][r] + IF r \in S THEN 1 ELSE 0]
           g == [r \in Rows |-> IF r \in S THEN 1 ELSE runs[job][r]]
<1>1. n \in 1..MaxRows /\ job \in 1..MaxJobs
  BY DEF Inv, Exclusive
<1>2. Size = n /\ Size' = n
  BY SizeInside, SizeInsideNext DEF Inv
<1>3. S \in SUBSET Rows /\ S \subseteq 0..(n - 1)
  BY <1>1, ExecutorAssumption DEF Rows
<1>4. runs \in [1..MaxJobs -> [Rows -> Nat]]
  BY DEF Inv, Types
<1>5. f = g
  <2>1. \A r \in Rows : (runs[job][r] + IF r \in S THEN 1 ELSE 0) =
                        (IF r \in S THEN 1 ELSE runs[job][r])
    <3>1. ASSUME NEW r \in Rows
          PROVE  (runs[job][r] + IF r \in S THEN 1 ELSE 0) =
                 (IF r \in S THEN 1 ELSE runs[job][r])
      <4>1. runs[job][r] \in Nat
        BY <1>1, <1>4
      <4>2. CASE r \in S
        <5>1. runs[job][r] = 0
          BY <4>2
        <5> QED BY <4>2, <5>1
      <4>3. CASE r \notin S
        BY <4>1, <4>3
      <4> QED BY <4>2, <4>3
    <3> QED BY <3>1
  <2> QED BY <2>1
<1>6. runs' = [runs EXCEPT ![job] = f]
  BY DEF Executed
<1>7. runs' = [runs EXCEPT ![job] = g]
  <2> HIDE DEF f, g
  <2> QED BY <1>5, <1>6
<1>8. S \subseteq {r \in 0..(n - 1) : runs[job][r] = 0}
  BY <1>3
<1>9. n > 0
  BY <1>1
<1>10. FJ!Rows = Rows
  BY DEF FJ!Rows, Rows
<1> HIDE DEF n, f
<1>11. FJ!Execute(S)
  BY <1>2, <1>7, <1>8, <1>9, <1>10 DEF FJ!Execute, Size
<1> QED
  BY <1>3, <1>10, <1>11 DEF FJ!Next

\* The rows of a participant that is not done were not executed.
LEMMA NotYet ==
    ASSUME Inv, NEW c \in Callers, caller[c].pc \in Sharing,
           NEW p \in 0..Helpers(caller[c].rows), p \notin Done(c)
    PROVE  /\ RangeOf(c, p) \subseteq 0..(caller[c].rows - 1)
           /\ \A r \in RangeOf(c, p) : runs[job][r] = 0
<1> DEFINE n == caller[c].rows
<1>1. n \in Nat \ {0} /\ n \in 1..MaxRows
  BY OthersOut DEF Sharing
<1>2. /\ Participants(n) \in Nat \ {0} /\ Helpers(n) + 1 = Participants(n) /\ Helpers(n) \in Nat
  BY <1>1, ParticipantsBounded
<1>3. 0..Helpers(n) = 0..(Participants(n) - 1)
  BY <1>2
<1>4. RangeOf(c, p) \subseteq 0..(n - 1)
  <2>1. p \in 0..(Participants(n) - 1) /\ n \in Nat
    BY <1>1, <1>3
  <2>2. RowRange(n, Participants(n), p) \subseteq 0..(n - 1)
    BY <1>2, <2>1, RangesWithin
  <2> QED BY <2>2 DEF RangeOf
<1>5. ASSUME NEW q \in Done(c)
      PROVE  RangeOf(c, p) \cap RangeOf(c, q) = {}
  <2>1. q \in 0..Helpers(n) /\ q # p
    BY DEF Done
  <2>2. q \in Nat /\ p \in Nat /\ n \in Nat
    BY <1>1, <1>2, <2>1
  <2> QED BY <1>2, <2>1, <2>2, RangesDisjoint DEF RangeOf
<1>6. ASSUME NEW r \in RangeOf(c, p)
      PROVE  runs[job][r] = 0
  <2>1. r \in Rows
    BY <1>1, <1>4, ExecutorAssumption DEF Rows
  <2>2. \A q \in Done(c) : r \notin RangeOf(c, q)
    BY <1>5
  <2> QED BY <2>1, <2>2 DEF Inv, RowsRun
<1> QED
  BY <1>4, <1>6

\* A call forks, an execution executes, a return joins; every other step is
\* invisible.
LEMMA StepsForkAndJoin ==
    ASSUME Inv, Inv', [Next]_vars
    PROVE  [FJ!Next]_(FJ!jobVars)
<1>1. ASSUME UNCHANGED <<job, runs>>,
             \A c \in Callers : /\ caller'[c].pc = "out" <=> caller[c].pc = "out"
                               /\ caller'[c].rows = caller[c].rows
      PROVE  UNCHANGED FJ!jobVars
  <2>1. Size' = Size
    BY <1>1, SizeSame
  <2> QED BY <1>1, <2>1 DEF FJ!jobVars, Size
<1>2. CASE UNCHANGED vars \/ Owner
  <2>1. UNCHANGED <<caller, job, runs>>
    BY <1>2 DEF vars, jobVars, Owner, CreateWorker, Started, Shutdown, ShutdownBump, ShutdownNotify, Joined
  <2> QED BY <1>1, <2>1
<1>3. ASSUME NEW c \in Callers, CallRefused(c)
      PROVE  UNCHANGED FJ!jobVars
  <2>1. caller' = [caller EXCEPT ![c].answer = "busy"] /\ UNCHANGED <<job, runs>>
    BY <1>3 DEF CallRefused, jobVars
  <2>2. caller \in [Callers -> [pc : CallerPcs, rows : 0..MaxRows, saw : Nat,
                                answer : {"none", "busy", "ok"}]]
    BY DEF Inv, Types
  <2>3. \A d \in Callers : caller'[d].pc = caller[d].pc /\ caller'[d].rows = caller[d].rows
    BY <2>1, <2>2
  <2> QED BY <1>1, <2>1, <2>3
<1>4. ASSUME NEW c \in Callers, NEW rows \in 1..MaxRows, Call(c, rows)
      PROVE  FJ!Next
  <2>1. /\ caller[c].pc = "out" /\ ~busy /\ job < MaxJobs /\ job' = job + 1 /\ runs' = runs
        /\ \E pc \in {"inline", "publish"} :
             caller' = [caller EXCEPT ![c] = [caller[c] EXCEPT !.pc = pc, !.rows = rows]]
    BY <1>4 DEF Call
  <2>2. \A d \in Callers : caller[d].pc = "out"
    BY <2>1 DEF Inv, Exclusive
  <2>3. Size = 0
    BY <2>2, SizeOut
  <2>4. caller \in [Callers -> [pc : CallerPcs, rows : 0..MaxRows, saw : Nat,
                                answer : {"none", "busy", "ok"}]]
    BY DEF Inv, Types
  <2>5. caller'[c].pc # "out" /\ caller'[c].rows = rows
    BY <2>1, <2>4
  <2>6. Size' = rows
    BY <2>5, SizeInsideNext DEF Inv
  <2>7. FJ!Fork(rows)
    BY <2>1, <2>3, <2>6 DEF FJ!Fork, Size
  <2> QED BY <2>7 DEF FJ!Next
<1>5. ASSUME NEW c \in Callers, NEW pc \in CallerPcs \ {"out"}, caller[c].pc # "out",
             caller' = [caller EXCEPT ![c].pc = pc]
      PROVE  /\ caller'[c].pc # "out" /\ caller'[c].rows = caller[c].rows
             /\ \A d \in Callers : /\ caller'[d].pc = "out" <=> caller[d].pc = "out"
                                   /\ caller'[d].rows = caller[d].rows
  <2>1. /\ caller'[c].pc = pc /\ caller'[c].rows = caller[c].rows
        /\ \A d \in Callers \ {c} : caller'[d] = caller[d]
    BY <1>5, CallerGoes DEF Inv
  <2> QED BY <1>5, <2>1
<1>6. ASSUME NEW c \in Callers, RunInline(c)
      PROVE  FJ!Next
  <2> DEFINE S == 0..(caller[c].rows - 1)
  <2>1. /\ caller[c].pc = "inline" /\ caller' = [caller EXCEPT ![c].pc = "finish"] /\ job' = job
        /\ runs' = Executed(job, S)
    BY <1>6 DEF RunInline, Goto
  <2>2. caller'[c].pc # "out" /\ caller'[c].rows = caller[c].rows
    BY <1>5, <2>1 DEF CallerPcs
  <2>3. \A r \in S : runs[job][r] = 0
    <3>1. caller[c].rows \in 1..MaxRows
      BY <2>1 DEF Inv, Exclusive
    <3>2. \A r \in S : r \in Rows
      BY <3>1, ExecutorAssumption DEF Rows
    <3> HIDE DEF S
    <3> QED BY <2>1, <3>2 DEF Inv, RowsRun
  <2> QED BY <2>1, <2>2, <2>3, ExecuteForked
<1>7. ASSUME NEW c \in Callers, RunOwn(c)
      PROVE  FJ!Next
  <2> DEFINE S == RangeOf(c, 0)
  <2>1. /\ caller[c].pc = "run" /\ caller' = [caller EXCEPT ![c].pc = "count"] /\ job' = job
        /\ runs' = Executed(job, S)
    BY <1>7 DEF RunOwn, Goto, RangeOf
  <2>2. caller'[c].pc # "out" /\ caller'[c].rows = caller[c].rows
    BY <1>5, <2>1 DEF CallerPcs, Sharing
  <2>3. /\ caller[c].rows \in Nat \ {0}
        /\ Given(c) \subseteq 1..Helpers(caller[c].rows)
    BY <2>1, OthersOut
  <2>4. 0 \in 0..Helpers(caller[c].rows) /\ 0 \notin Done(c)
    <3>1. 0 \in 0..Helpers(caller[c].rows)
      BY <2>3, ParticipantsBounded
    <3>2. 0 \notin Given(c)
      BY <2>3
    <3> QED BY <2>1, <3>1, <3>2 DEF Done
  <2>5. S \subseteq 0..(caller[c].rows - 1) /\ \A r \in S : runs[job][r] = 0
    BY <2>1, <2>4, NotYet DEF Sharing
  <2> HIDE DEF S
  <2> QED BY <2>1, <2>2, <2>5, ExecuteForked
<1>8. ASSUME NEW c \in Callers, Return(c)
      PROVE  FJ!Next
  <2>1. /\ caller[c].pc = "finish" /\ UNCHANGED <<job, runs>>
        /\ caller' = [caller EXCEPT ![c] = [Outside EXCEPT !.answer = "ok"]]
    BY <1>8 DEF Return, jobVars
  <2>2. caller[c].rows \in 1..MaxRows /\ \A d \in Callers \ {c} : caller[d].pc = "out"
    BY <2>1 DEF Inv, Exclusive
  <2>3. Size = caller[c].rows
    BY <2>1, SizeInside DEF Inv
  <2>4. \A d \in Callers : caller'[d].pc = "out"
    <3>1. DOMAIN caller = Callers
      BY DEF Inv, Types
    <3> QED BY <2>1, <2>2, <3>1 DEF Outside
  <2>5. Size' = 0
    BY <2>4, SizeOut
  <2>6. caller[c].rows > 0 /\ \A r \in 0..(caller[c].rows - 1) : runs[job][r] = 1
    BY <2>1, <2>2 DEF Inv, RowsRun
  <2>7. FJ!Join
    BY <2>1, <2>3, <2>5, <2>6 DEF FJ!Join, Size
  <2> QED BY <2>7 DEF FJ!Next
<1>9. ASSUME NEW c \in Callers,
             Publish(c) \/ Bump(c) \/ Notify(c) \/ SeeCount(c) \/ WaitForCount(c)
      PROVE  UNCHANGED FJ!jobVars
  <2>1. UNCHANGED <<job, runs>> /\ caller[c].pc # "out"
    BY <1>9 DEF Publish, Bump, Notify, SeeCount, WaitForCount, jobVars
  <2>2. CASE \E pc \in CallerPcs \ {"out"} : caller' = [caller EXCEPT ![c].pc = pc]
    BY <1>1, <1>5, <2>1, <2>2
  <2>3. CASE caller' = [caller EXCEPT ![c] = [caller[c] EXCEPT !.pc = "wait", !.saw = completed]]
    <3>1. caller \in [Callers -> [pc : CallerPcs, rows : 0..MaxRows, saw : Nat,
                                  answer : {"none", "busy", "ok"}]]
      BY DEF Inv, Types
    <3>2. \A d \in Callers : /\ caller'[d].pc = "out" <=> caller[d].pc = "out"
                             /\ caller'[d].rows = caller[d].rows
      BY <2>1, <2>3, <3>1
    <3> QED BY <1>1, <2>1, <3>2
  <2>4. CASE Notify(c)
    <3>1. \E pc \in {"run", "publish"} : caller' = [caller EXCEPT ![c].pc = pc]
      BY <2>4 DEF Notify, Goto
    <3> QED BY <2>2, <3>1 DEF CallerPcs, Sharing
  <2>5. CASE WaitForCount(c)
    <3>1. \E pc \in {"asleep", "count"} : caller' = [caller EXCEPT ![c].pc = pc]
      BY <2>5 DEF WaitForCount, Goto
    <3> QED BY <2>2, <3>1 DEF CallerPcs, Sharing
  <2>6. CASE Publish(c) \/ Bump(c)
    <3>1. \E pc \in {"bump", "notify"} : caller' = [caller EXCEPT ![c].pc = pc]
      BY <2>6 DEF Publish, Bump, Goto
    <3> QED BY <2>2, <3>1 DEF CallerPcs, Sharing
  <2>7. CASE SeeCount(c)
    <3>1. \/ caller' = [caller EXCEPT ![c].pc = "finish"]
          \/ caller' = [caller EXCEPT ![c] = [caller[c] EXCEPT !.pc = "wait", !.saw = completed]]
      BY <2>7 DEF SeeCount, Goto
    <3> QED BY <2>2, <2>3, <3>1 DEF CallerPcs
  <2> QED BY <1>9, <2>4, <2>5, <2>6, <2>7
<1>10. ASSUME NEW w \in Workers, RunRows(w)
       PROVE  FJ!Next
  <2>1. /\ worker[w].pc = "run" /\ UNCHANGED <<caller, job>>
        /\ runs' = Executed(worker[w].got.job, RowRange(worker[w].got.rows, worker[w].got.participants, w))
    BY <1>10 DEF RunRows
  <2>2. PICK c \in Callers : w \in Given(c) /\ caller[c].pc \in Sharing /\ payload[w] = ShareOf(c)
    BY <2>1, WorkFor DEF Working
  <2> DEFINE S == RangeOf(c, w)
  <2>3. worker[w].got = ShareOf(c)
    BY <2>1, <2>2 DEF Inv, Mailboxes, WorkerOk
  <2>4. runs' = Executed(job, S)
    BY <2>1, <2>3 DEF ShareOf, RangeOf
  <2>5. w \in 0..Helpers(caller[c].rows) /\ w \notin Done(c)
    <3>1. Given(c) \subseteq 1..Helpers(caller[c].rows)
      BY <2>2, OthersOut DEF Sharing
    <3>2. Owing(w) /\ worker[w].pc # "count" /\ w # 0
      BY <2>1 DEF Owing, Working, Workers
    <3> QED BY <2>2, <3>1, <3>2 DEF Done
  <2>6. S \subseteq 0..(caller[c].rows - 1) /\ \A r \in S : runs[job][r] = 0
    BY <2>2, <2>5, NotYet
  <2>7. caller[c].pc # "out" /\ caller'[c].pc # "out" /\ caller'[c].rows = caller[c].rows
    BY <2>1, <2>2 DEF Sharing
  <2> HIDE DEF S
  <2> QED BY <2>1, <2>4, <2>6, <2>7, ExecuteForked
<1>11. ASSUME NEW w \in Workers, NotifyCaller(w)
       PROVE  UNCHANGED FJ!jobVars
  <2>1. /\ UNCHANGED <<job, runs>>
        /\ caller' = [c \in Callers |->
              IF caller[c].pc = "asleep" THEN [caller[c] EXCEPT !.pc = "count"] ELSE caller[c]]
    BY <1>11 DEF NotifyCaller, jobVars
  <2>2. caller \in [Callers -> [pc : CallerPcs, rows : 0..MaxRows, saw : Nat,
                                answer : {"none", "busy", "ok"}]]
    BY DEF Inv, Types
  <2>3. \A d \in Callers : /\ caller'[d].pc = "out" <=> caller[d].pc = "out"
                           /\ caller'[d].rows = caller[d].rows
    BY <2>1, <2>2
  <2> QED BY <1>1, <2>1, <2>3
<1>12. ASSUME NEW w \in Workers,
              \/ PollStops(w) \/ PollEnds(w) \/ LoadGeneration(w) \/ WaitForJob(w)
              \/ CheckStopping(w) \/ ReadMailbox(w) \/ Count(w)
       PROVE  UNCHANGED FJ!jobVars
  <2>1. UNCHANGED <<caller, job, runs>>
    BY <1>12 DEF PollStops, PollEnds, LoadGeneration, WaitForJob, CheckStopping, ReadMailbox, Count, jobVars
  <2> QED BY <1>1, <2>1
<1>13. CASE \E c \in Callers : CallerStep(c)
  BY <1>13, <1>6, <1>7, <1>8, <1>9 DEF CallerStep
<1>14. CASE \E w \in Workers : WorkerStep(w)
  BY <1>14, <1>10, <1>11, <1>12 DEF WorkerStep
<1> QED
  BY <1>2, <1>3, <1>4, <1>13, <1>14 DEF Next

\* CpuExecutor implements ForkJoin: every row of a job is executed exactly once,
\* between the call and its return, whoever executes it.
THEOREM ForksAndJoins == Spec => ImplementsForkJoin
<1>1. Init => FJ!Init
  <2>1. SUFFICES ASSUME Init
                 PROVE  FJ!Init
    OBVIOUS
  <2>2. \A c \in Callers : caller[c].pc = "out"
    BY <2>1 DEF Init, Outside
  <2>3. Size = 0
    BY <2>2, SizeOut
  <2> QED BY <2>1, <2>3 DEF Init, FJ!Init, FJ!Rows, Rows, Size
<1>2. Inv /\ Inv' /\ [Next]_vars => [FJ!Next]_(FJ!jobVars)
  BY StepsForkAndJoin
<1> QED
  BY <1>1, <1>2, ExecutorInvariant, PTL DEF Spec, FJ!Spec, ImplementsForkJoin
=============================================================================
