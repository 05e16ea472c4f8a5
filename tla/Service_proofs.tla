--------------------------- MODULE Service_proofs ---------------------------
(***************************************************************************)
(* The service counts each job exactly, leaks no engine request and keeps   *)
(* the order of its streams, for any number of jobs, questions and tokens   *)
(* and any capacity of the queues.                                          *)
(***************************************************************************)
EXTENDS Service, FiniteSetTheorems, TLAPS

Requests == {"plain", "stream", "tools", "messages", "decision", "count", "none"}
Answers == Replies \cup {NoReply}
Sent == Replies \cup {"busy", "open", "text", "error", "calls", "finish", "done"}
Queues == [text : Seq(Nat), bytes : Int, terminal : Answers]

-----------------------------------------------------------------------------
(* The inductive invariant.                                                 *)

Types ==
    /\ kind \in [Jobs -> Requests]
    /\ http \in [Jobs -> {"new", "waiting", "streaming", "ending", "done"}]
    /\ wire \in [Jobs -> Seq(Sent)]
    /\ cancelled \in [Jobs -> BOOLEAN] /\ late \in [Jobs -> BOOLEAN]
    /\ admitted \in [Jobs -> Answers] /\ promise \in [Jobs -> Answers]
    /\ events \in [Jobs -> Queues] /\ accepted \in [Jobs -> Nat]
    /\ pending \in Seq(Jobs) /\ taken \in Seq(Jobs)
    /\ outstanding \in Int /\ stopping \in BOOLEAN /\ stopSeen \in BOOLEAN
    /\ phase \in {"visit", "admit", "answer", "exited"}
    /\ active \in Seq([job : Jobs, id : Ids]) /\ cursor \in Nat \ {0}
    /\ question \in [Jobs -> 1..Questions]
    /\ engine \in [Ids -> E!Request]

Unanswered == {j \in Enqueued : promise[j] = NoReply}

Elements(s) == {s[n] : n \in DOMAIN s}
Distinct(s) == \A m, n \in DOMAIN s : s[m] = s[n] => m = n

\* A job that waits for its answer is in one place, and there once.
Placed ==
    /\ Distinct(pending) /\ Distinct(taken)
    /\ \A m, n \in DOMAIN active : active[m].job = active[n].job => m = n
    /\ Elements(pending) \cap Elements(taken) = {}
    /\ Elements(pending) \cap ActiveJobs = {}
    /\ Elements(taken) \cap ActiveJobs = {}
    /\ Unanswered = Elements(pending) \cup Elements(taken) \cup ActiveJobs

Counts == IsFiniteSet(Unanswered) /\ outstanding = Cardinality(Unanswered)

\* Between admissions nothing is taken; a decision is answered where the cursor is.
Phases ==
    /\ phase # "admit" => taken = <<>>
    /\ phase = "answer" => cursor \in DOMAIN active /\ kind[At.job] = "decision"

\* An active job is served by the request of its question; the requests of later
\* questions, and of jobs not yet admitted, have never been used.
Served ==
    /\ \A n \in DOMAIN active : active[n].id = <<active[n].job, question[active[n].job]>>
    /\ \A i \in Ids : E!Exists(engine[i]) <=> i \in ActiveIds
    /\ \A j \in Jobs : promise[j] = NoReply /\ j \notin ActiveJobs => question[j] = 1
    /\ \A i \in Ids : i[2] > question[i[1]] => engine[i] = E!Unused
    /\ \A i \in Ids :
         promise[i[1]] = NoReply /\ i[1] \notin ActiveJobs => engine[i] = E!Unused

\* A job that has not been dispatched is as it was made; events are for streams.
New(j) ==
    /\ http[j] = "new" => /\ wire[j] = <<>> /\ accepted[j] = 0
                          /\ promise[j] = NoReply /\ admitted[j] = NoReply
    /\ http[j] \in {"streaming", "ending"} => j \in Streams

\* A stream's headers are promised once it is in the engine.
Admission(j) ==
    /\ promise[j] = NoReply /\ j \notin ActiveJobs => admitted[j] = NoReply
    /\ admitted[j] = "ok" => promise[j] # "invalid"
    /\ promise[j] # "overflow"

Ended(j) == Written(j, "error") \cup Written(j, "calls")
                 \cup Written(j, "finish") \cup Written(j, "done")

Parts(j) == {k \in DOMAIN wire[j] : wire[j][k] \in {"calls", "finish"}}

\* What is on the wire of a stream, by where its thread is.
Wire(j) ==
    /\ http[j] \in {"new", "waiting"} => wire[j] = <<>>
    /\ http[j] \in {"streaming", "ending"} => admitted[j] = "ok" /\ Written(j, "open") # {}
    /\ http[j] = "streaming" => Ended(j) = {}
    /\ http[j] = "ending" => /\ Written(j, "error") = {} /\ promise[j] = "ok"
                             /\ Cardinality(Parts(j)) < Len(Ending(kind[j]))
                             /\ events[j].text = <<>>
    /\ Written(j, "open") # {} => wire[j][1] = "open" /\ admitted[j] = "ok"
    /\ Written(j, "error") # {} =>
         /\ wire[j][Len(wire[j])] = "error" /\ Cardinality(Ended(j)) = 1
         /\ promise[j] # "ok"
    /\ Ended(j) \ Written(j, "error") # {} => promise[j] = "ok"
    /\ Ended(j) # {} => events[j].text = <<>> /\ promise[j] # NoReply

\* The text a stream was given is on the wire or in its queue, which knows the
\* end when the client's promise does.
Texts(j) ==
    /\ accepted[j] = Cardinality(Written(j, "text")) + Len(events[j].text)
    /\ events[j].terminal = promise[j]

StreamInv == \A j \in Streams : Admission(j) /\ Wire(j) /\ Texts(j)
NewInv == \A j \in Jobs : New(j)

Inv == Types /\ Placed /\ Counts /\ Phases /\ Served /\ NewInv /\ StreamInv

-----------------------------------------------------------------------------
(* Sequences, the wire and the queue.                                       *)

\* What is left of a sequence without its n-th element.
LEMMA RemoveAtElement ==
    ASSUME NEW S, NEW s \in Seq(S), NEW n \in 1..Len(s)
    PROVE  /\ RemoveAt(s, n) \in Seq(S) /\ Len(RemoveAt(s, n)) = Len(s) - 1
           /\ \A m \in 1..(Len(s) - 1) : RemoveAt(s, n)[m] = IF m < n THEN s[m] ELSE s[m + 1]
<1> DEFINE a == SubSeq(s, 1, n - 1)
           b == SubSeq(s, n + 1, Len(s))
<1>1. a \in Seq(S) /\ Len(a) = n - 1 /\ \A m \in 1..(n - 1) : a[m] = s[m]
  OBVIOUS
<1>2. b \in Seq(S) /\ Len(b) = Len(s) - n /\ \A m \in 1..(Len(s) - n) : b[m] = s[m + n]
  OBVIOUS
<1>3. RemoveAt(s, n) = a \o b
  BY DEF RemoveAt
<1> HIDE DEF a, b
<1>4. Len(s) \in Nat /\ n \in Nat /\ Len(a) + Len(b) = Len(s) - 1
  BY <1>1, <1>2
<1>5. /\ a \o b \in Seq(S) /\ Len(a \o b) = Len(s) - 1
      /\ \A m \in 1..(Len(s) - 1) : (a \o b)[m] = IF m <= Len(a) THEN a[m] ELSE b[m - Len(a)]
  BY <1>1, <1>2, <1>4
<1>6. ASSUME NEW m \in 1..(Len(s) - 1)
      PROVE  (a \o b)[m] = IF m < n THEN s[m] ELSE s[m + 1]
  <2>1. CASE m < n
    <3>1. m <= Len(a) /\ m \in 1..(n - 1)
      BY <2>1, <1>1, <1>4
    <3> QED BY <3>1, <2>1, <1>1, <1>5
  <2>2. CASE ~(m < n)
    <3>1. ~(m <= Len(a)) /\ m - Len(a) \in 1..(Len(s) - n) /\ (m - Len(a)) + n = m + 1
      BY <2>2, <1>1, <1>4
    <3> QED BY <3>1, <2>2, <1>2, <1>5
  <2> QED BY <2>1, <2>2
<1> QED
  BY <1>3, <1>5, <1>6

\* The positions of a sequence that satisfy a condition.
Where(w, P) == {k \in DOMAIN w : w[k] \in P}

\* They are finitely many.
LEMMA PositionsFinite ==
    ASSUME NEW S, NEW w \in Seq(S), NEW P
    PROVE  IsFiniteSet(Where(w, P)) /\ Cardinality(Where(w, P)) \in Nat
<1>1. IsFiniteSet(1..Len(w))
  BY FS_Interval
<1>2. Where(w, P) \in SUBSET (1..Len(w))
  BY DEF Where
<1> QED
  BY <1>1, <1>2, FS_Subset, FS_CardinalityType

\* One more position may do so when an element is appended.
LEMMA PositionsAppend ==
    ASSUME NEW S, NEW w \in Seq(S), NEW P, NEW x \in S
    PROVE  /\ x \notin P => Where(Append(w, x), P) = Where(w, P)
           /\ x \in P => /\ Where(Append(w, x), P) = Where(w, P) \cup {Len(w) + 1}
                         /\ Cardinality(Where(Append(w, x), P)) = Cardinality(Where(w, P)) + 1
<1>1. /\ Append(w, x) \in Seq(S) /\ Len(Append(w, x)) = Len(w) + 1
      /\ \A k \in 1..Len(w) : Append(w, x)[k] = w[k]
      /\ Append(w, x)[Len(w) + 1] = x
  OBVIOUS
<1>2. Len(w) \in Nat /\ DOMAIN w = 1..Len(w) /\ DOMAIN Append(w, x) = 1..(Len(w) + 1)
  BY <1>1
<1> DEFINE v == Append(w, x)
           n == Len(w)
<1> HIDE DEF v, n
<1>3. \A k : k \in Where(v, P) <=> k \in Where(w, P) \/ (k = n + 1 /\ x \in P)
  <2>1. \A k : k \in Where(w, P) <=> k \in 1..n /\ w[k] \in P
    BY <1>2 DEF n, Where
  <2>2. \A k : k \in Where(v, P) <=> k \in 1..(n + 1) /\ v[k] \in P
    BY <1>2 DEF n, v, Where
  <2>3. n \in Nat /\ v[n + 1] = x /\ \A k \in 1..n : v[k] = w[k]
    BY <1>1, <1>2 DEF n, v
  <2> QED BY <2>1, <2>2, <2>3
<1>4. n + 1 \notin Where(w, P)
  BY <1>2 DEF n, Where
<1>5. /\ x \in P => Where(v, P) = Where(w, P) \cup {n + 1}
      /\ x \notin P => Where(v, P) = Where(w, P)
  BY <1>3
<1>6. IsFiniteSet(Where(w, P))
  BY PositionsFinite
<1>7. x \in P => Cardinality(Where(v, P)) = Cardinality(Where(w, P)) + 1
  BY <1>4, <1>5, <1>6, FS_AddElement
<1> QED
  BY <1>5, <1>7 DEF v, n

\* The written positions as positions of the wire.
LEMMA WrittenAs ==
    ASSUME NEW j
    PROVE  /\ Parts(j) = Where(wire[j], {"calls", "finish"})
           /\ \A what : Written(j, what) = Where(wire[j], {what})
<1>1. Parts(j) = Where(wire[j], {"calls", "finish"})
  BY DEF Parts, Where
<1>2. ASSUME NEW what
      PROVE  Written(j, what) = Where(wire[j], {what})
  BY DEF Written, Where
<1> QED
  BY <1>1, <1>2

\* The fields of a queue.
LEMMA QueueFields ==
    ASSUME NEW q \in Queues
    PROVE  /\ q = [text |-> q.text, bytes |-> q.bytes, terminal |-> q.terminal]
           /\ q.text \in Seq(Nat) /\ Len(q.text) \in Nat /\ q.bytes \in Int
           /\ q.terminal \in Answers
  BY DEF Queues

\* pushing a text that fits, or none, counts it.
LEMMA PushedQueue ==
    ASSUME NEW q \in Queues, NEW size \in Nat
    PROVE  /\ Pushed(q, size) \in Queues /\ Pushed(q, size).terminal = q.terminal
           /\ size > 0 => Len(Pushed(q, size).text) = Len(q.text) + 1
           /\ size = 0 => Len(Pushed(q, size).text) = Len(q.text)
           /\ Pushed(q, size).bytes = q.bytes + size
<1>1. q = [text |-> q.text, bytes |-> q.bytes, terminal |-> q.terminal]
      /\ q.text \in Seq(Nat) /\ Len(q.text) \in Nat /\ q.bytes \in Int /\ q.terminal \in Answers
  BY QueueFields
<1>2. CASE size = 0
  BY <1>1, <1>2 DEF Pushed
<1>3. CASE size # 0
  <2>1. Pushed(q, size) = [text |-> Append(q.text, size), bytes |-> q.bytes + size,
                           terminal |-> q.terminal]
    BY <1>1, <1>3 DEF Pushed
  <2>2. Append(q.text, size) \in Seq(Nat) /\ Len(Append(q.text, size)) = Len(q.text) + 1
    BY <1>1
  <2>3. size > 0
    BY <1>3
  <2> QED BY <1>1, <2>1, <2>2, <2>3 DEF Queues
<1> QED
  BY <1>2, <1>3

\* room() is enough for the three texts of one visit, however they are sized.
LEMMA RoomForThree ==
    ASSUME NEW q \in Queues, Room(q), q.terminal = NoReply,
           NEW a \in 0..Piece, NEW b \in 0..Piece, NEW c \in 0..Piece
    PROVE  /\ Fits(q, a) /\ Fits(Pushed(q, a), b) /\ Fits(Pushed(Pushed(q, a), b), c)
<1>1. Piece \in Nat /\ Capacity \in Nat /\ ByteCapacity \in Nat
  BY QueueAssumption
<1>2. a \in Nat /\ b \in Nat /\ c \in Nat /\ a <= Piece /\ b <= Piece /\ c <= Piece
  BY <1>1
<1> DEFINE q1 == Pushed(q, a)
           q2 == Pushed(q1, b)
<1>3. /\ q1 \in Queues /\ q1.terminal = NoReply /\ q1.bytes = q.bytes + a
      /\ (a > 0 => Len(q1.text) = Len(q.text) + 1) /\ (a = 0 => Len(q1.text) = Len(q.text))
  BY <1>2, PushedQueue
<1> HIDE DEF q1
<1>4. /\ q2 \in Queues /\ q2.terminal = NoReply /\ q2.bytes = q1.bytes + b
      /\ (b > 0 => Len(q2.text) = Len(q1.text) + 1) /\ (b = 0 => Len(q2.text) = Len(q1.text))
  BY <1>2, <1>3, PushedQueue
<1> HIDE DEF q2
<1>5. /\ Len(q.text) \in Nat /\ Len(q1.text) \in Nat /\ Len(q2.text) \in Nat
      /\ q.bytes \in Int /\ q1.bytes \in Int /\ q2.bytes \in Int
  BY <1>3, <1>4, QueueFields
<1>6. Len(q.text) + 3 <= Capacity /\ q.bytes + (Piece + Piece + Piece) <= ByteCapacity
  BY <1>1, <1>5 DEF Room
<1>7. Fits(q, a)
  BY <1>1, <1>2, <1>5, <1>6 DEF Fits
<1> DEFINE n == Len(q.text)
           n1 == Len(q1.text)
           n2 == Len(q2.text)
<1>12. n1 < Capacity /\ n2 < Capacity
  <2>1. n \in Nat /\ n1 \in Nat /\ n2 \in Nat /\ Capacity \in Nat
    BY <1>1, <1>5
  <2>2. n + 3 <= Capacity
    BY <1>6
  <2>3. n1 = n + 1 \/ n1 = n
    BY <1>2, <1>3
  <2>4. n2 = n1 + 1 \/ n2 = n1
    BY <1>2, <1>4
  <2> HIDE DEF n, n1, n2
  <2> QED BY <2>1, <2>2, <2>3, <2>4
<1> DEFINE m == q.bytes
           m1 == q1.bytes
           m2 == q2.bytes
<1>11. m1 + b <= ByteCapacity /\ m2 + c <= ByteCapacity
  <2>1. m \in Int /\ m1 \in Int /\ m2 \in Int
    BY <1>5
  <2>2. m + (Piece + Piece + Piece) <= ByteCapacity
    BY <1>6
  <2>3. m1 = m + a /\ m2 = m1 + b
    BY <1>3, <1>4
  <2> HIDE DEF m, m1, m2
  <2>4. m1 <= m + Piece /\ m2 <= m + Piece + Piece
    BY <1>1, <1>2, <2>1, <2>3
  <2> QED BY <1>1, <1>2, <2>1, <2>2, <2>4
<1>8. Fits(q1, b)
  <2>1. b <= Piece /\ q1.terminal = NoReply
    BY <1>2, <1>3
  <2>2. Len(q1.text) < Capacity
    BY <1>12
  <2>3. q1.bytes + b <= ByteCapacity
    BY <1>11
  <2> QED BY <2>1, <2>2, <2>3 DEF Fits
<1>9. Fits(q2, c)
  <2>1. c <= Piece /\ q2.terminal = NoReply
    BY <1>2, <1>4
  <2>2. Len(q2.text) < Capacity
    BY <1>12
  <2>3. q2.bytes + c <= ByteCapacity
    BY <1>11
  <2> QED BY <2>1, <2>2, <2>3 DEF Fits
<1> QED
  BY <1>7, <1>8, <1>9 DEF q1, q2

-----------------------------------------------------------------------------
(* Requests of the engine.                                                  *)

\* The owner's calls and the steps of the engine make requests of requests.
LEMMA RequestFields ==
    ASSUME NEW r \in E!Request
    PROVE  /\ r = [status |-> r.status, delivered |-> r.delivered, rest |-> r.rest]
           /\ r.status \in {"unused", "working", "released", "complete", "cancelled", "failed"}
           /\ r.delivered \in Seq({Token}) /\ r.rest \in Seq({Token})
  BY DEF E!Request, E!Ends

\* A request that was begun exists; one that was not, or was released, does not.
LEMMA FreshRequests ==
    /\ E!Unused \in E!Request /\ ~E!Exists(E!Unused)
    /\ E!Released \in E!Request /\ ~E!Exists(E!Released)
    /\ E!Begun \in E!Request /\ E!Exists(E!Begun)
<1>1. <<>> \in Seq({Token})
  OBVIOUS
<1>2. E!Unused = [status |-> "unused", delivered |-> <<>>, rest |-> <<>>]
  BY DEF E!Unused
<1>3. E!Released = [status |-> "released", delivered |-> <<>>, rest |-> <<>>]
  BY <1>2 DEF E!Released
<1>4. E!Begun = [status |-> "working", delivered |-> <<>>, rest |-> <<>>]
  BY <1>2 DEF E!Begun
<1> QED
  BY <1>1, <1>2, <1>3, <1>4 DEF E!Request, E!Exists, E!Ends

\* Cancelling keeps a request in existence.
LEMMA CancelledRequest ==
    ASSUME NEW r \in E!Request
    PROVE  E!Cancelled(r) \in E!Request /\ (E!Exists(E!Cancelled(r)) <=> E!Exists(r))
  BY RequestFields DEF E!Cancelled, E!Request, E!Exists, E!Ends

\* So does reading.
LEMMA ReadRequest ==
    ASSUME NEW r \in E!Request, NEW n \in 0..1, n <= Len(r.rest)
    PROVE  E!Read(r, n) \in E!Request /\ (E!Exists(E!Read(r, n)) <=> E!Exists(r))
<1>1. r.delivered \in Seq({Token}) /\ r.rest \in Seq({Token}) /\ Len(r.rest) \in Nat
  BY RequestFields
<1> DEFINE front == SubSeq(r.rest, 1, n)
           back == SubSeq(r.rest, n + 1, Len(r.rest))
<1>2. front \in Seq({Token}) /\ back \in Seq({Token})
  BY <1>1
<1>3. E!Read(r, n) = [r EXCEPT !.delivered = r.delivered \o front, !.rest = back]
  BY DEF E!Read
<1> HIDE DEF front, back
<1>4. r.delivered \o front \in Seq({Token})
  BY <1>1, <1>2
<1>5. E!Read(r, n) = [status |-> r.status, delivered |-> r.delivered \o front, rest |-> back]
  BY <1>3, RequestFields
<1> QED
  BY <1>2, <1>4, <1>5, RequestFields DEF E!Request, E!Exists, E!Ends

\* So does a step of the engine.
LEMMA SteppedRequest ==
    ASSUME NEW r \in E!Request, NEW limit, NEW s \in Stepped(r, limit)
    PROVE  s \in E!Request /\ (E!Exists(r) <=> E!Exists(s))
<1>1. CASE r.status # "working"
  BY <1>1 DEF Stepped
<1>2. CASE r.status = "working"
  <2>1. s \in Outcomes(r)
    BY <1>2 DEF Stepped
  <2>2. PICK x \in {r.rest, Append(r.rest, Token)}, st \in {"working", "complete", "failed"} :
           s = [r EXCEPT !.rest = x, !.status = st]
    BY <2>1 DEF Outcomes
  <2>3. r.rest \in Seq({Token}) /\ Token \in {Token}
    BY RequestFields
  <2>4. x \in Seq({Token})
    BY <2>2, <2>3
  <2>5. r = [status |-> r.status, delivered |-> r.delivered, rest |-> r.rest]
    BY RequestFields
  <2>6. s = [status |-> st, delivered |-> r.delivered, rest |-> x]
    BY <2>2, <2>5
  <2> QED BY <1>2, <2>2, <2>4, <2>6, RequestFields DEF E!Request, E!Exists, E!Ends
<1> QED
  BY <1>1, <1>2

-----------------------------------------------------------------------------
(* What an action makes of the jobs it does not touch.                      *)

\* What is written of a job depends on its wire only.
LEMMA SameWire ==
    ASSUME NEW j, wire'[j] = wire[j]
    PROVE  /\ \A what : Written(j, what)' = Written(j, what)
           /\ Ended(j)' = Ended(j) /\ Parts(j)' = Parts(j)
<1>1. ASSUME NEW what
      PROVE  Written(j, what)' = Written(j, what)
  BY DEF Written
<1>2. Parts(j)' = Parts(j)
  BY DEF Parts
<1> QED
  BY <1>1, <1>2 DEF Ended

\* The invariants of a job of which nothing changes.
LEMMA SameJob ==
    ASSUME NEW j, wire'[j] = wire[j], http'[j] = http[j], kind'[j] = kind[j],
           admitted'[j] = admitted[j], promise'[j] = promise[j],
           events'[j] = events[j], accepted'[j] = accepted[j],
           j \in ActiveJobs' <=> j \in ActiveJobs
    PROVE  /\ New(j) => New(j)'
           /\ Admission(j) /\ Wire(j) /\ Texts(j) => (Admission(j) /\ Wire(j) /\ Texts(j))'
<1>1. /\ \A what : Written(j, what)' = Written(j, what)
      /\ Ended(j)' = Ended(j) /\ Parts(j)' = Parts(j)
  BY SameWire
<1>2. New(j) => New(j)'
  BY DEF New, Streams
<1>3. Admission(j) => Admission(j)'
  BY DEF Admission
<1>4. Ending(kind'[j]) = Ending(kind[j])
  OBVIOUS
<1>5. Wire(j) => Wire(j)'
  BY <1>1, <1>4 DEF Wire
<1>6. Texts(j) => Texts(j)'
  BY <1>1 DEF Texts
<1> QED
  BY <1>2, <1>3, <1>5, <1>6

\* The places of the jobs and the requests of the engine, which the HTTP threads
\* share only through the jobs that are enqueued.
LEMMA SamePlaces ==
    ASSUME Placed, Counts, Phases, Served,
           Enqueued' = Enqueued,
           UNCHANGED <<kind, promise, pending, outstanding, phase, taken, active, cursor,
                       question, engine>>
    PROVE  Placed' /\ Counts' /\ Phases' /\ Served'
<1>1. Unanswered' = Unanswered
  BY DEF Unanswered
<1>2. ActiveJobs' = ActiveJobs /\ ActiveIds' = ActiveIds /\ At' = At
  BY DEF ActiveJobs, ActiveIds, At
<1>3. Placed'
  BY <1>1, <1>2 DEF Placed
<1>4. Counts'
  BY <1>1 DEF Counts
<1>5. Phases'
  BY <1>2 DEF Phases
<1>6. Served'
  BY <1>2 DEF Served
<1> QED
  BY <1>3, <1>4, <1>5, <1>6

\* A job stays enqueued when nothing is written, or something else than that it
\* was refused.
LEMMA SameEnqueued ==
    ASSUME NEW i \in Jobs, wire \in [Jobs -> Seq(Sent)],
           NEW x \in Sent \ {"busy"},
           wire' = wire \/ wire' = [wire EXCEPT ![i] = Append(@, x)],
           http[i] # "new", http'[i] # "new",
           \A j \in Jobs \ {i} : http'[j] = http[j]
    PROVE  Enqueued' = Enqueued
<1>1. ASSUME NEW w \in Seq(Sent)
      PROVE  "busy" \in ToSet(w) <=> Where(w, {"busy"}) # {}
  BY DEF ToSet, Where
<1>2. ASSUME NEW j \in Jobs
      PROVE  /\ http'[j] # "new" <=> http[j] # "new"
             /\ "busy" \in ToSet(wire'[j]) <=> "busy" \in ToSet(wire[j])
  <2>1. CASE j = i
    <3>1. wire[i] \in Seq(Sent) /\ x \in Sent /\ x \notin {"busy"}
      OBVIOUS
    <3>2. Append(wire[i], x) \in Seq(Sent)
      BY <3>1
    <3>3. Where(Append(wire[i], x), {"busy"}) = Where(wire[i], {"busy"})
      BY <3>1, PositionsAppend
    <3>4. "busy" \in ToSet(Append(wire[i], x)) <=> "busy" \in ToSet(wire[i])
      BY <1>1, <3>1, <3>2, <3>3
    <3>5. wire'[i] = wire[i] \/ wire'[i] = Append(wire[i], x)
      OBVIOUS
    <3> QED BY <2>1, <3>4, <3>5
  <2>2. CASE j # i
    BY <2>2
  <2> QED BY <2>1, <2>2
<1> QED
  BY <1>2 DEF Enqueued

-----------------------------------------------------------------------------
(* The HTTP threads.                                                        *)

\* The variables of the worker that an HTTP thread only reads.
WorkerSame ==
    UNCHANGED <<kind, outstanding, phase, stopSeen, taken, active, cursor, question, engine,
                admitted, promise, accepted>>

\* What all steps of the HTTP thread of job i but its first have in common.
HttpSame(i) ==
    /\ WorkerSame /\ UNCHANGED pending
    /\ \A j \in Jobs \ {i} : http'[j] = http[j] /\ wire'[j] = wire[j] /\ events'[j] = events[j]

\* A step of job i's HTTP thread preserves the invariants if it preserves those of
\* job i and its type.
LEMMA HttpKeeps ==
    ASSUME Inv, NEW i \in Jobs, HttpSame(i), Types', Enqueued' = Enqueued, New(i)',
           i \in Streams => (Admission(i) /\ Wire(i) /\ Texts(i))'
    PROVE  Inv'
<1>1. Placed' /\ Counts' /\ Phases' /\ Served'
  BY SamePlaces DEF HttpSame, WorkerSame, Inv
<1>2. kind' = kind /\ Streams' = Streams /\ ActiveJobs' = ActiveJobs
  BY DEF HttpSame, WorkerSame, Streams, ActiveJobs
<1>3. ASSUME NEW j \in Jobs, j # i
      PROVE  New(j)' /\ (j \in Streams => (Admission(j) /\ Wire(j) /\ Texts(j))')
  <2>1. /\ wire'[j] = wire[j] /\ http'[j] = http[j] /\ kind'[j] = kind[j]
        /\ admitted'[j] = admitted[j] /\ promise'[j] = promise[j]
        /\ events'[j] = events[j] /\ accepted'[j] = accepted[j]
        /\ j \in ActiveJobs' <=> j \in ActiveJobs
    BY <1>2, <1>3 DEF HttpSame, WorkerSame
  <2>2. New(j) /\ (j \in Streams => Admission(j) /\ Wire(j) /\ Texts(j))
    BY DEF Inv, NewInv, StreamInv
  <2> QED BY <2>1, <2>2, SameJob
<1>4. ASSUME NEW j \in Jobs
      PROVE  New(j)' /\ (j \in Streams => (Admission(j) /\ Wire(j) /\ Texts(j))')
  BY <1>3
<1>5. NewInv'
  BY <1>4 DEF NewInv
<1>6. StreamInv'
  <2>1. ASSUME NEW j \in Streams
        PROVE  (Admission(j) /\ Wire(j) /\ Texts(j))'
    BY <1>4 DEF Streams
  <2> QED BY <1>2, <2>1 DEF StreamInv
<1> QED
  BY <1>1, <1>5, <1>6 DEF Inv

\* A stream's thread that leaves without writing.
LEMMA LeaveKeeps ==
    ASSUME Inv, NEW i \in Jobs, HttpSame(i), Types', http[i] \in {"waiting", "streaming"},
           http' = [http EXCEPT ![i] = "done"], wire' = wire, events' = events
    PROVE  Inv'
<1>1. Enqueued' = Enqueued
  <2>1. "text" \in Sent /\ "text" # "busy"
    BY DEF Sent
  <2>3. http[i] # "new" /\ http'[i] # "new"
    BY DEF Inv, Types
  <2>2. \A j \in Jobs \ {i} : http'[j] = http[j]
    BY DEF HttpSame
  <2> QED BY <2>1, <2>2, <2>3, SameEnqueued DEF Inv, Types
<1>2. New(i)'
  BY DEF New, Inv, Types
<1>3. ASSUME i \in Streams
      PROVE  (Admission(i) /\ Wire(i) /\ Texts(i))'
  <2>1. ActiveJobs' = ActiveJobs
    BY DEF HttpSame, WorkerSame, ActiveJobs
  <2>2. Admission(i) /\ Wire(i) /\ Texts(i)
    BY <1>3 DEF Inv, StreamInv
  <2>3. /\ \A what : Written(i, what)' = Written(i, what)
        /\ Ended(i)' = Ended(i) /\ Parts(i)' = Parts(i)
    BY SameWire
  <2>4. Admission(i)' /\ Texts(i)'
    BY <2>1, <2>2, <2>3 DEF HttpSame, WorkerSame, Admission, Texts
  <2>5. http'[i] = "done"
    BY DEF Inv, Types
  <2>6. Wire(i)'
    BY <2>2, <2>3, <2>5 DEF HttpSame, WorkerSame, Wire
  <2> QED BY <2>4, <2>6
<1> QED
  BY <1>1, <1>2, <1>3, HttpKeeps

\* A client that goes away leaves its job to the worker.
LEMMA DisconnectKeeps ==
    ASSUME Inv, NEW i \in Jobs, Disconnect(i)
    PROVE  Inv'
<1>1. Types'
  BY DEF Inv, Types, Disconnect, Leave, answers, shared, worker
<1>2. HttpSame(i)
  BY DEF Inv, Types, Disconnect, Leave, answers, shared, worker, HttpSame, WorkerSame
<1> QED
  BY <1>1, <1>2, LeaveKeeps DEF Disconnect, Leave, answers

\* What Send makes of the written positions.
LEMMA SentOne ==
    ASSUME Types, NEW i \in Jobs, NEW x \in Sent, wire' = [wire EXCEPT ![i] = Append(@, x)]
    PROVE  /\ wire'[i] \in Seq(Sent) /\ wire'[i][Len(wire'[i])] = x
           /\ wire[i] # <<>> => wire'[i][1] = wire[i][1]
           /\ wire[i] = <<>> => wire'[i][1] = x
           /\ Written(i, x)' = Written(i, x) \cup {Len(wire[i]) + 1}
           /\ Cardinality(Written(i, x)') = Cardinality(Written(i, x)) + 1
           /\ x \notin {"calls", "finish"} => Parts(i)' = Parts(i)
           /\ x \in {"calls", "finish"} => Cardinality(Parts(i)') = Cardinality(Parts(i)) + 1
<1> DEFINE w == wire[i]
<1>1. w \in Seq(Sent) /\ wire'[i] = Append(w, x)
  BY DEF Types
<1>2. ASSUME NEW what
      PROVE  Written(i, what)' = Where(Append(w, x), {what}) /\ Written(i, what) = Where(w, {what})
  BY <1>1 DEF Written, Where
<1>3. /\ Parts(i)' = Where(Append(w, x), {"calls", "finish"})
      /\ Parts(i) = Where(w, {"calls", "finish"})
  BY <1>1 DEF Parts, Where
<1> HIDE DEF w
<1>4. /\ wire'[i] \in Seq(Sent) /\ wire'[i][Len(wire'[i])] = x
      /\ w # <<>> => wire'[i][1] = w[1]
      /\ w = <<>> => wire'[i][1] = x
  <2>1. Len(w) \in Nat /\ (w # <<>> => 1 \in 1..Len(w)) /\ (w = <<>> => Len(w) + 1 = 1)
    BY <1>1
  <2>2. Append(w, x) \in Seq(Sent) /\ Len(Append(w, x)) = Len(w) + 1
        /\ Append(w, x)[Len(w) + 1] = x /\ \A k \in 1..Len(w) : Append(w, x)[k] = w[k]
    BY <1>1
  <2> DEFINE v == Append(w, x)
  <2> HIDE DEF v
  <2>3. v \in Seq(Sent) /\ v[Len(v)] = x
    BY <2>2 DEF v
  <2>4. w # <<>> => v[1] = w[1]
    BY <2>1, <2>2 DEF v
  <2>5. w = <<>> => v[1] = x
    BY <2>1, <2>2 DEF v
  <2> QED BY <1>1, <2>3, <2>4, <2>5 DEF v
<1>6. /\ Written(i, x)' = Written(i, x) \cup {Len(w) + 1}
      /\ Cardinality(Written(i, x)') = Cardinality(Written(i, x)) + 1
  <2>1. x \in {x}
    OBVIOUS
  <2>2. /\ Where(Append(w, x), {x}) = Where(w, {x}) \cup {Len(w) + 1}
        /\ Cardinality(Where(Append(w, x), {x})) = Cardinality(Where(w, {x})) + 1
    BY <2>1, <1>1, PositionsAppend
  <2> QED BY <2>2, <1>2
<1>7. /\ x \notin {"calls", "finish"} => Parts(i)' = Parts(i)
      /\ x \in {"calls", "finish"} => Cardinality(Parts(i)') = Cardinality(Parts(i)) + 1
  <2> DEFINE P == {"calls", "finish"}
  <2> HIDE DEF P
  <2>1. /\ x \notin P => Where(Append(w, x), P) = Where(w, P)
        /\ x \in P => Cardinality(Where(Append(w, x), P)) = Cardinality(Where(w, P)) + 1
    BY <1>1, PositionsAppend
  <2> QED BY <2>1, <1>3 DEF P
<1> QED
  BY <1>4, <1>6, <1>7 DEF w

\* Sending says nothing else: the other positions are what they were.
LEMMA SentOther ==
    ASSUME Types, NEW i \in Jobs, NEW x \in Sent, wire' = [wire EXCEPT ![i] = Append(@, x)],
           NEW what, what # x
    PROVE  Written(i, what)' = Written(i, what)
<1> DEFINE w == wire[i]
<1>1. w \in Seq(Sent) /\ wire'[i] = Append(w, x)
  BY DEF Types
<1>2. Written(i, what)' = Where(Append(w, x), {what}) /\ Written(i, what) = Where(w, {what})
  BY <1>1 DEF Written, Where
<1> HIDE DEF w
<1>3. x \notin {what}
  OBVIOUS
<1>4. Where(Append(w, x), {what}) = Where(w, {what})
  BY <1>1, <1>3, PositionsAppend
<1> QED
  BY <1>2, <1>4

\* Wires that have not been written hold nothing.
LEMMA NothingWritten ==
    ASSUME NEW i, wire[i] = <<>>
    PROVE  (\A what : Written(i, what) = {}) /\ Parts(i) = {} /\ Ended(i) = {}
<1>1. DOMAIN wire[i] = {}
  OBVIOUS
<1> QED
  BY <1>1 DEF Written, Parts, Ended

\* The thread of a job that leaves with one thing said, none of a stream.
LEMMA SayKeeps ==
    ASSUME Inv, NEW i \in Jobs, HttpSame(i), Types', http[i] = "waiting",
           NEW x \in Replies, http' = [http EXCEPT ![i] = "done"],
           wire' = [wire EXCEPT ![i] = Append(@, x)], events' = events
    PROVE  Inv'
<1>1. x \in Sent /\ x \notin {"busy", "open", "text", "error", "calls", "finish", "done"}
  BY DEF Replies, Sent
<1>2. http[i] # "new" /\ http'[i] = "done" /\ wire \in [Jobs -> Seq(Sent)]
  BY DEF Inv, Types
<1>3. \A j \in Jobs \ {i} : http'[j] = http[j]
  BY DEF HttpSame
<1>4. Enqueued' = Enqueued
  BY <1>1, <1>2, <1>3, SameEnqueued
<1>5. New(i)'
  BY <1>2 DEF New
<1>6. ASSUME i \in Streams
      PROVE  (Admission(i) /\ Wire(i) /\ Texts(i))'
  <2>1. ActiveJobs' = ActiveJobs
    BY DEF HttpSame, WorkerSame, ActiveJobs
  <2>2. Admission(i) /\ Wire(i) /\ Texts(i)
    BY <1>6 DEF Inv, StreamInv
  <2>3. wire[i] = <<>>
    BY <2>2 DEF Wire
  <2>4. ASSUME NEW what, what # x
        PROVE  Written(i, what)' = {}
    <3>1. Written(i, what) = {}
      BY <2>3, NothingWritten
    <3> QED BY <1>1, <2>4, <3>1, SentOther DEF Inv
  <2>5. Written(i, "text") = {}
    BY <2>3, NothingWritten
  <2>6. Admission(i)' /\ Texts(i)'
    BY <1>1, <2>1, <2>2, <2>4, <2>5 DEF HttpSame, WorkerSame, Admission, Texts
  <2>7. Ended(i)' = {}
    BY <1>1, <2>4 DEF Ended
  <2>8. Wire(i)'
    BY <1>1, <1>2, <2>4, <2>7 DEF Wire
  <2> QED BY <2>6, <2>8
<1> QED
  BY <1>4, <1>5, <1>6, HttpKeeps

\* So does one whose thread gives up at the deadline.
LEMMA GiveUpKeeps ==
    ASSUME Inv, NEW i \in Jobs, GiveUp(i)
    PROVE  Inv'
<1>1. "late" \in Replies /\ "late" \in Sent
  BY DEF Replies, Sent
<1>2. wire'[i] \in Seq(Sent)
  BY <1>1, SentOne DEF Inv, GiveUp, Send
<1>3. Types'
  BY <1>1, <1>2 DEF Inv, Types, GiveUp, Leave, Send, answers, shared, worker
<1>4. HttpSame(i)
  BY DEF Inv, Types, GiveUp, Leave, Send, answers, shared, worker, HttpSame, WorkerSame
<1> QED
  BY <1>1, <1>3, <1>4, SayKeeps DEF GiveUp, Leave, Send, answers

\* The reply ends the thread of a job that is no stream, or opens the stream.
LEMMA ReplyKeeps ==
    ASSUME Inv, NEW i \in Jobs, Reply(i)
    PROVE  Inv'
<1>1. Answer(i) \in Replies
  BY DEF Inv, Types, Reply, Answer, Answers
<1>2. CASE ~(i \in Streams /\ Answer(i) = "ok")
  <2>1. Leave(i) /\ Send(i, Answer(i)) /\ Answer(i) \in Sent
    BY <1>1, <1>2 DEF Reply, Sent
  <2>2. wire'[i] \in Seq(Sent)
    BY <2>1, SentOne DEF Inv, Send
  <2>3. Types'
    BY <2>1, <2>2 DEF Inv, Types, Reply, Leave, Send, answers, shared, worker
  <2>4. HttpSame(i)
    BY <2>1 DEF Inv, Types, Reply, Leave, Send, answers, shared, worker, HttpSame, WorkerSame
  <2> QED BY <1>1, <2>1, <2>3, <2>4, SayKeeps DEF Reply, Leave, Send, answers
<1>3. CASE i \in Streams /\ Answer(i) = "ok"
  <2>1. /\ http' = [http EXCEPT ![i] = "streaming"] /\ wire' = [wire EXCEPT ![i] = Append(@, "open")]
        /\ admitted[i] = "ok" /\ http[i] = "waiting" /\ events' = events
    BY <1>3 DEF Reply, Send, Answer, answers
  <2>2. "open" \in Sent /\ "open" # "busy"
    BY DEF Sent
  <2>3. wire'[i] \in Seq(Sent)
    BY <2>1, <2>2, SentOne DEF Inv
  <2>4. Types'
    BY <2>1, <2>3 DEF Inv, Types, Reply, answers, shared, worker
  <2>5. HttpSame(i)
    BY <2>1 DEF Inv, Types, Reply, answers, shared, worker, HttpSame, WorkerSame
  <2>6. http[i] # "new" /\ http'[i] = "streaming" /\ wire \in [Jobs -> Seq(Sent)]
    BY <2>1 DEF Inv, Types
  <2>7. \A j \in Jobs \ {i} : http'[j] = http[j]
    BY <2>5 DEF HttpSame
  <2>8. Enqueued' = Enqueued
    BY <2>1, <2>2, <2>6, <2>7, SameEnqueued
  <2>9. New(i)'
    BY <1>3, <2>5, <2>6 DEF New, Streams, HttpSame, WorkerSame
  <2>10. (Admission(i) /\ Wire(i) /\ Texts(i))'
    <3>1. ActiveJobs' = ActiveJobs
      BY <2>5 DEF HttpSame, WorkerSame, ActiveJobs
    <3>2. Admission(i) /\ Wire(i) /\ Texts(i)
      BY <1>3 DEF Inv, StreamInv
    <3>3. wire[i] = <<>>
      BY <2>1, <3>2 DEF Wire
    <3>4. ASSUME NEW what, what # "open"
          PROVE  Written(i, what)' = {}
      <4>1. Written(i, what) = {}
        BY <3>3, NothingWritten
      <4> QED BY <2>1, <2>2, <3>4, <4>1, SentOther DEF Inv
    <3>9. Written(i, "open")' # {} /\ wire'[i][1] = "open"
      <4>1. Written(i, "open")' = Written(i, "open") \cup {Len(wire[i]) + 1} /\ wire'[i][1] = "open"
        BY <2>1, <2>2, <3>3, SentOne DEF Inv
      <4> QED BY <4>1
    <3>5. Written(i, "text") = {} /\ Written(i, "text")' = {}
      BY <3>3, <3>4, NothingWritten
    <3>6. Admission(i)' /\ Texts(i)'
      BY <2>1, <2>5, <3>1, <3>2, <3>5 DEF HttpSame, WorkerSame, Admission, Texts
    <3>7. Ended(i)' = {}
      BY <3>4 DEF Ended
    <3>8. Wire(i)'
      BY <2>1, <2>5, <2>6, <3>4, <3>7, <3>9 DEF Wire, HttpSame, WorkerSame
    <3> QED BY <3>6, <3>8
  <2> QED BY <2>4, <2>5, <2>8, <2>9, <2>10, HttpKeeps
<1> QED
  BY <1>2, <1>3

\* The positions of a stream's end, which text does not add to.
LEMMA SameEnded ==
    ASSUME NEW i, \A what \in {"error", "calls", "finish", "done"} :
                     Written(i, what)' = Written(i, what)
    PROVE  Ended(i)' = Ended(i)
  BY DEF Ended

\* A text moves from the queue to the wire.
LEMMA WriteTextKeeps ==
    ASSUME Inv, NEW i \in Jobs, WriteText(i)
    PROVE  Inv'
<1> DEFINE q == events[i]
<1>1. /\ wire' = [wire EXCEPT ![i] = Append(@, "text")] /\ http' = http
      /\ http[i] = "streaming" /\ events' = [events EXCEPT ![i] = Popped(@)] /\ q.text # <<>>
  BY DEF WriteText, Send
<1>2. "text" \in Sent /\ "text" # "busy"
  BY DEF Sent
<1>3. wire'[i] \in Seq(Sent)
  BY <1>1, <1>2, SentOne DEF Inv
<1>4. q \in Queues
  BY DEF Inv, Types
<1> HIDE DEF q
<1>5. /\ Popped(q) \in Queues /\ Len(Popped(q).text) = Len(q.text) - 1
      /\ Popped(q).terminal = q.terminal
  <2>1. q.text \in Seq(Nat) /\ q.bytes \in Int
    BY <1>4, QueueFields
  <2>2. Head(q.text) \in Nat /\ Tail(q.text) \in Seq(Nat) /\ Len(Tail(q.text)) = Len(q.text) - 1
    BY <1>1, <2>1
  <2> DEFINE t == Tail(q.text)
             b == q.bytes - Head(q.text)
  <2>5. Popped(q) = [q EXCEPT !.text = t, !.bytes = b]
    BY DEF Popped
  <2> HIDE DEF t, b
  <2>6. Popped(q) = [text |-> t, bytes |-> b, terminal |-> q.terminal]
    BY <1>4, <2>5, QueueFields
  <2>3. Popped(q) = [text |-> Tail(q.text), bytes |-> q.bytes - Head(q.text), terminal |-> q.terminal]
    BY <2>6 DEF t, b
  <2>4. q.bytes - Head(q.text) \in Int
    BY <2>1, <2>2
  <2> QED BY <1>4, <2>2, <2>3, <2>4, QueueFields DEF Queues
<1>6. Types'
  BY <1>1, <1>2, <1>3, <1>5 DEF Inv, Types, WriteText, answers, shared, worker, q
<1>7. HttpSame(i)
  BY <1>1 DEF Inv, Types, WriteText, answers, shared, worker, HttpSame, WorkerSame
<1>8. Enqueued' = Enqueued
  <2>1. http[i] # "new" /\ http'[i] # "new" /\ wire \in [Jobs -> Seq(Sent)]
        /\ \A j \in Jobs \ {i} : http'[j] = http[j]
    BY <1>1 DEF Inv, Types
  <2> QED BY <1>1, <1>2, <2>1, SameEnqueued
<1>9. New(i)'
  BY <1>1, <1>7 DEF Inv, NewInv, New, Streams, HttpSame, WorkerSame
<1>10. ASSUME i \in Streams
       PROVE  (Admission(i) /\ Wire(i) /\ Texts(i))'
  <2>1. ActiveJobs' = ActiveJobs
    BY <1>7 DEF HttpSame, WorkerSame, ActiveJobs
  <2>2. Admission(i) /\ Wire(i) /\ Texts(i)
    BY <1>10 DEF Inv, StreamInv
  <2>3. ASSUME NEW what, what # "text"
        PROVE  Written(i, what)' = Written(i, what)
    BY <1>1, <1>2, <2>3, SentOther DEF Inv
  <2>4. Ended(i)' = Ended(i) /\ Ended(i) = {} /\ Written(i, "error")' = {}
    BY <1>1, <2>2, <2>3, SameEnded DEF Wire, Ended
  <2>5. wire'[i][1] = wire[i][1]
    <3>1. wire[i] # <<>>
      BY <1>1, <2>2, NothingWritten DEF Wire
    <3> QED BY <1>1, <1>2, <3>1, SentOne DEF Inv
  <2>6. Cardinality(Written(i, "text")') = Cardinality(Written(i, "text")) + 1
        /\ Cardinality(Written(i, "text")) \in Nat
    <3>1. wire[i] \in Seq(Sent)
      BY DEF Inv, Types
    <3>2. Cardinality(Written(i, "text")) \in Nat
      BY <3>1, WrittenAs, PositionsFinite
    <3> QED BY <1>1, <1>2, <3>2, SentOne DEF Inv
  <2>7. events'[i] = Popped(q) /\ Len(q.text) \in Nat
    BY <1>1, <1>4, QueueFields DEF Inv, Types, q
  <2>8. Texts(i)'
    BY <1>5, <1>7, <2>2, <2>6, <2>7 DEF Texts, q, HttpSame, WorkerSame
  <2>9. Admission(i)'
    BY <1>7, <2>1, <2>2 DEF Admission, HttpSame, WorkerSame
  <2>10. Wire(i)'
    BY <1>1, <1>7, <2>2, <2>3, <2>4, <2>5 DEF Wire, HttpSame, WorkerSame
  <2> QED BY <2>8, <2>9, <2>10
<1> QED
  BY <1>6, <1>7, <1>8, <1>9, <1>10, HttpKeeps

\* A failure is written once the text is, and nothing after it.
LEMMA WriteErrorKeeps ==
    ASSUME Inv, NEW i \in Jobs, WriteError(i)
    PROVE  Inv'
<1>1. /\ wire' = [wire EXCEPT ![i] = Append(@, "error")] /\ http' = [http EXCEPT ![i] = "done"]
      /\ http[i] = "streaming" /\ events' = events /\ events[i].text = <<>>
      /\ events[i].terminal \notin {NoReply, "ok"}
  BY DEF WriteError, Send, Leave, ShowsEnd, answers
<1>2. "error" \in Sent /\ "error" # "busy"
  BY DEF Sent
<1>3. wire'[i] \in Seq(Sent)
  BY <1>1, <1>2, SentOne DEF Inv
<1>4. Types'
  BY <1>1, <1>2, <1>3 DEF Inv, Types, WriteError, answers, shared, worker
<1>5. HttpSame(i)
  BY <1>1 DEF Inv, Types, WriteError, answers, shared, worker, HttpSame, WorkerSame
<1>6. http'[i] = "done"
  BY <1>1 DEF Inv, Types
<1>7. Enqueued' = Enqueued
  <2>1. http[i] # "new" /\ http'[i] # "new" /\ wire \in [Jobs -> Seq(Sent)]
        /\ \A j \in Jobs \ {i} : http'[j] = http[j]
    BY <1>1 DEF Inv, Types
  <2> QED BY <1>1, <1>2, <2>1, SameEnqueued
<1>8. New(i)'
  BY <1>6 DEF New
<1>9. ASSUME i \in Streams
      PROVE  (Admission(i) /\ Wire(i) /\ Texts(i))'
  <2>1. ActiveJobs' = ActiveJobs
    BY <1>5 DEF HttpSame, WorkerSame, ActiveJobs
  <2>2. Admission(i) /\ Wire(i) /\ Texts(i)
    BY <1>9 DEF Inv, StreamInv
  <2>3. ASSUME NEW what, what # "error"
        PROVE  Written(i, what)' = Written(i, what)
    BY <1>1, <1>2, <2>3, SentOther DEF Inv
  <2>4. Written(i, "error")' = {Len(wire[i]) + 1} /\ Ended(i)' = {Len(wire[i]) + 1}
    <3>1. Written(i, "error")' = Written(i, "error") \cup {Len(wire[i]) + 1}
      BY <1>1, <1>2, SentOne DEF Inv
    <3>2. Ended(i) = {}
      BY <1>1, <2>2 DEF Wire
    <3>3. /\ Written(i, "error") = {} /\ Written(i, "calls")' = {}
          /\ Written(i, "finish")' = {} /\ Written(i, "done")' = {}
      BY <2>3, <3>2 DEF Ended
    <3> QED BY <3>1, <3>3 DEF Ended
  <2>5. Cardinality(Ended(i)') = 1
    BY <2>4, FS_Singleton
  <2>6. wire'[i][1] = wire[i][1] /\ wire'[i][Len(wire'[i])] = "error"
    <3>1. wire[i] # <<>>
      BY <1>1, <2>2, NothingWritten DEF Wire
    <3> QED BY <1>1, <1>2, <3>1, SentOne DEF Inv
  <2>7. promise[i] \notin {NoReply, "ok"}
    BY <1>1, <2>2 DEF Texts
  <2>8. Texts(i)'
    BY <1>1, <1>5, <2>2, <2>3 DEF Texts, HttpSame, WorkerSame
  <2>9. Admission(i)'
    BY <1>5, <2>1, <2>2 DEF Admission, HttpSame, WorkerSame
  <2>10. Wire(i)'
    BY <1>1, <1>5, <1>6, <2>2, <2>3, <2>4, <2>5, <2>6, <2>7 DEF Wire, HttpSame, WorkerSame
  <2> QED BY <2>8, <2>9, <2>10
<1> QED
  BY <1>4, <1>5, <1>7, <1>8, <1>9, HttpKeeps

\* The next event of a successful end.
LEMMA NextOfEnd ==
    ASSUME NEW k \in {"stream", "tools", "messages"}, NEW n \in Nat, n < Len(Ending(k))
    PROVE  /\ Len(Ending(k)) \in Nat /\ Ending(k)[n + 1] \in {"calls", "finish", "done"}
           /\ n + 1 # Len(Ending(k)) => n + 1 < Len(Ending(k)) /\ Ending(k)[n + 1] # "done"
<1>1. CASE k = "stream"
  <2>1. Ending(k) = <<"finish", "done">>
    BY <1>1 DEF Ending
  <2> QED BY <2>1
<1>2. CASE k = "tools"
  <2>1. Ending(k) = <<"calls", "finish", "done">>
    BY <1>2 DEF Ending
  <2> QED BY <2>1
<1>3. CASE k = "messages"
  <2>1. Ending(k) = <<"done">>
    BY <1>3 DEF Ending
  <2> QED BY <2>1
<1> QED
  BY <1>1, <1>2, <1>3

\* The events of a successful end follow each other.
LEMMA WriteEndKeeps ==
    ASSUME Inv, NEW i \in Jobs, WriteEnd(i)
    PROVE  Inv'
<1> DEFINE ending == Ending(kind[i])
           n == Cardinality(Parts(i))
           x == ending[n + 1]
<1>1. /\ wire' = [wire EXCEPT ![i] = Append(@, x)]
      /\ http' = [http EXCEPT ![i] = IF n + 1 = Len(ending) THEN "done" ELSE "ending"]
      /\ \/ http[i] = "streaming" /\ events[i].text = <<>> /\ events[i].terminal = "ok"
         \/ http[i] = "ending"
      /\ UNCHANGED <<kind, late, cancelled, shared, answers, accepted, worker, engine>>
  BY DEF WriteEnd, Send, ShowsEnd, Parts
<1> HIDE DEF x
<1>2. i \in Streams /\ kind[i] \in {"stream", "tools", "messages"} /\ http[i] # "new"
  BY <1>1 DEF Inv, NewInv, New, Streams
<1>3. Admission(i) /\ Wire(i) /\ Texts(i)
  BY <1>2 DEF Inv, StreamInv
<1>4. n \in Nat /\ n < Len(ending)
  <2>1. CASE http[i] = "streaming"
    <3>1. Ended(i) = {}
      BY <2>1, <1>3 DEF Wire
    <3>2. Parts(i) = {}
      BY <3>1 DEF Ended, Parts, Written
    <3>3. n = 0
      BY <3>2, FS_EmptySet
    <3>4. 0 < Len(ending)
      <4>1. CASE kind[i] = "stream"
        BY <4>1 DEF Ending
      <4>2. CASE kind[i] = "tools"
        BY <4>2 DEF Ending
      <4>3. CASE kind[i] = "messages"
        BY <4>3 DEF Ending
      <4> QED BY <1>2, <4>1, <4>2, <4>3
    <3> QED BY <3>3, <3>4
  <2>2. CASE http[i] = "ending"
    <3>1. wire[i] \in Seq(Sent)
      BY DEF Inv, Types
    <3>2. n \in Nat
      BY <3>1, WrittenAs, PositionsFinite
    <3> QED BY <3>2, <2>2, <1>3 DEF Wire
  <2> QED BY <1>1, <2>1, <2>2
<1>5. x \in {"calls", "finish", "done"} /\ Len(ending) \in Nat
      /\ (n + 1 # Len(ending) => n + 1 < Len(ending) /\ x # "done")
  BY <1>2, <1>4, NextOfEnd DEF x
<1>6. promise[i] = "ok" /\ events[i].text = <<>>
  BY <1>1, <1>3 DEF Wire, Texts
<1>7. x \in Sent /\ x # "busy" /\ x # "text" /\ x # "open" /\ x # "error"
  BY <1>5 DEF Sent
<1> HIDE DEF n, ending
<1>8. /\ wire'[i] \in Seq(Sent) /\ (wire[i] # <<>> => wire'[i][1] = wire[i][1])
      /\ (x \in {"calls", "finish"} => Cardinality(Parts(i)') = n + 1)
  BY <1>1, <1>7, SentOne DEF Inv, n
<1>9. Types'
  BY <1>1, <1>8 DEF Inv, Types, answers, shared, worker
<1>10. HttpSame(i)
  BY <1>1 DEF Inv, Types, answers, shared, worker, HttpSame, WorkerSame
<1>11. http'[i] = (IF n + 1 = Len(ending) THEN "done" ELSE "ending")
  BY <1>1 DEF Inv, Types
<1>12. Enqueued' = Enqueued
  <2>1. http[i] # "new" /\ http'[i] # "new" /\ wire \in [Jobs -> Seq(Sent)]
        /\ \A j \in Jobs \ {i} : http'[j] = http[j]
    BY <1>2, <1>10, <1>11 DEF Inv, Types, HttpSame
  <2> QED BY <1>1, <1>7, <2>1, SameEnqueued
<1>13. New(i)'
  BY <1>2, <1>10, <1>11 DEF New, Streams, HttpSame, WorkerSame
<1>14. (Admission(i) /\ Wire(i) /\ Texts(i))'
  <2>1. ActiveJobs' = ActiveJobs
    BY <1>10 DEF HttpSame, WorkerSame, ActiveJobs
  <2>2. ASSUME NEW what, what # x
        PROVE  Written(i, what)' = Written(i, what)
    BY <1>1, <1>7, <2>2, SentOther DEF Inv
  <2>3. Written(i, "open") # {} /\ Written(i, "error") = {}
    BY <1>1, <1>3 DEF Wire, Ended
  <2>4. Written(i, "open")' # {} /\ Written(i, "error")' = {}
        /\ Written(i, "text")' = Written(i, "text")
    BY <1>7, <2>2, <2>3
  <2>5. wire'[i][1] = "open" /\ admitted[i] = "ok"
    <3>1. wire[i] # <<>>
      BY <2>3, NothingWritten
    <3> QED BY <1>3, <1>8, <2>3, <3>1 DEF Wire
  <2>6. events' = events /\ kind' = kind /\ promise' = promise /\ admitted' = admitted
        /\ accepted' = accepted
    BY <1>1 DEF answers
  <2>7. Texts(i)'
    BY <1>3, <2>4, <2>6 DEF Texts
  <2>8. Admission(i)'
    BY <1>3, <2>1, <2>6 DEF Admission
  <2>9. http'[i] = "ending" => Cardinality(Parts(i)') < Len(Ending(kind[i]))
    <3>1. http'[i] = "ending" => n + 1 # Len(ending)
      BY <1>11
    <3>2. http'[i] = "ending" => Cardinality(Parts(i)') = n + 1 /\ n + 1 < Len(ending)
      BY <3>1, <1>5, <1>8
    <3> QED BY <3>2 DEF ending
  <2>10. http'[i] \in {"ending", "done"}
    BY <1>11
  <2>11. /\ kind'[i] = kind[i] /\ events'[i].text = <<>> /\ promise'[i] = "ok" /\ admitted'[i] = "ok"
    BY <1>6, <2>5, <2>6
  <2> HIDE DEF ending
  <2>12. Wire(i)'
    <3>1. Cardinality(Parts(i)') < Len(Ending(kind'[i])) \/ http'[i] = "done"
      BY <2>9, <2>10, <2>11
    <3> QED BY <2>4, <2>5, <2>10, <2>11, <3>1 DEF Wire, NoReply
  <2> QED BY <2>7, <2>8, <2>12
<1> QED
  BY <1>2, <1>9, <1>10, <1>12, <1>13, <1>14, HttpKeeps

\* Steps that say nothing to any job and serve the same ones.
LEMMA SameJobs ==
    ASSUME Inv, UNCHANGED <<kind, http, wire, answers, accepted>>, ActiveJobs' = ActiveJobs
    PROVE  NewInv' /\ StreamInv' /\ Unanswered' = Unanswered
<1>1. ASSUME NEW j \in Jobs
      PROVE  New(j)' /\ (j \in Streams => (Admission(j) /\ Wire(j) /\ Texts(j))')
  <2>1. New(j) /\ (j \in Streams => Admission(j) /\ Wire(j) /\ Texts(j))
    BY DEF Inv, NewInv, StreamInv
  <2> QED BY <2>1, SameJob DEF answers
<1>2. NewInv'
  BY <1>1 DEF NewInv
<1>3. StreamInv'
  <2>1. ASSUME NEW j \in Streams
        PROVE  (Admission(j) /\ Wire(j) /\ Texts(j))'
    BY <1>1 DEF Streams
  <2>2. Streams' = Streams
    BY DEF Streams
  <2> QED BY <2>1, <2>2 DEF StreamInv
<1>4. Unanswered' = Unanswered
  BY DEF Unanswered, Enqueued, answers
<1> QED
  BY <1>2, <1>3, <1>4

\* Time and the end of the listener change no job.
LEMMA QuietKeeps ==
    ASSUME Inv, UNCHANGED <<kind, http, wire, pending, outstanding, answers, accepted, phase,
                            taken, active, cursor, question, engine>>, Types'
    PROVE  Inv'
<1>1. Enqueued' = Enqueued /\ ActiveJobs' = ActiveJobs
  BY DEF Enqueued, ActiveJobs
<1>2. Placed' /\ Counts' /\ Phases' /\ Served'
  BY <1>1, SamePlaces DEF Inv, answers
<1>3. NewInv' /\ StreamInv'
  BY <1>1, SameJobs
<1> QED
  BY <1>2, <1>3 DEF Inv

\* The deadline passes.
LEMMA TimePassesKeeps ==
    ASSUME Inv, NEW i \in Jobs, TimePasses(i)
    PROVE  Inv'
<1>1. Types'
  BY DEF Inv, Types, TimePasses, answers, shared, worker
<1> QED
  BY <1>1, QuietKeeps DEF TimePasses, shared, worker

\* The listener has ended.
LEMMA StopKeeps ==
    ASSUME Inv, Stop
    PROVE  Inv'
<1>1. Types'
  BY DEF Inv, Types, Stop, clients, answers, worker
<1> QED
  BY <1>1, QuietKeeps DEF Stop, clients, worker

\* A job that is turned away is done, and was never the worker's.
LEMMA RefuseKeeps ==
    ASSUME Inv, NEW i \in Jobs, Refuse(i)
    PROVE  Inv'
<1>1. /\ wire' = [wire EXCEPT ![i] = Append(@, "busy")] /\ http' = [http EXCEPT ![i] = "done"]
      /\ http[i] = "new" /\ events' = events
  BY DEF Refuse, Send, Leave, answers
<1>2. "busy" \in Sent
  BY DEF Sent
<1>3. wire'[i] \in Seq(Sent) /\ Written(i, "busy")' # {}
  <2>1. wire'[i] \in Seq(Sent) /\ Written(i, "busy")' = Written(i, "busy") \cup {Len(wire[i]) + 1}
    BY <1>1, <1>2, SentOne DEF Inv
  <2> QED BY <2>1
<1>4. Types'
  BY <1>1, <1>2, <1>3 DEF Inv, Types, Refuse, answers, shared, worker
<1>5. HttpSame(i)
  BY <1>1 DEF Inv, Types, Refuse, answers, shared, worker, HttpSame, WorkerSame
<1>6. http'[i] = "done"
  BY <1>1 DEF Inv, Types
<1>7. Enqueued' = Enqueued
  <2>1. i \notin Enqueued
    BY <1>1 DEF Enqueued
  <2>2. "busy" \in ToSet(wire'[i])
    BY <1>3 DEF Written, ToSet
  <2>3. i \notin Enqueued'
    BY <2>2 DEF Enqueued
  <2>4. \A j \in Jobs \ {i} : http'[j] = http[j] /\ wire'[j] = wire[j]
    BY <1>5 DEF HttpSame
  <2> QED BY <2>1, <2>3, <2>4 DEF Enqueued
<1>8. New(i)'
  BY <1>6 DEF New
<1>9. ASSUME i \in Streams
      PROVE  (Admission(i) /\ Wire(i) /\ Texts(i))'
  <2>1. ActiveJobs' = ActiveJobs
    BY <1>5 DEF HttpSame, WorkerSame, ActiveJobs
  <2>2. Admission(i) /\ Wire(i) /\ Texts(i)
    BY <1>9 DEF Inv, StreamInv
  <2>3. wire[i] = <<>>
    BY <1>1, <2>2 DEF Wire
  <2>4. ASSUME NEW what, what # "busy"
        PROVE  Written(i, what)' = {}
    <3>1. Written(i, what) = {}
      BY <2>3, NothingWritten
    <3> QED BY <1>1, <1>2, <2>4, <3>1, SentOther DEF Inv
  <2>5. Written(i, "text") = {}
    BY <2>3, NothingWritten
  <2>6. Admission(i)' /\ Texts(i)'
    BY <1>1, <1>5, <2>1, <2>2, <2>4, <2>5 DEF HttpSame, WorkerSame, Admission, Texts
  <2>7. Ended(i)' = {}
    BY <2>4 DEF Ended
  <2>8. Wire(i)'
    BY <1>6, <2>4, <2>7 DEF Wire
  <2> QED BY <2>6, <2>8
<1> QED
  BY <1>4, <1>5, <1>7, <1>8, <1>9, HttpKeeps

\* What a sequence holds after an element was appended.
LEMMA AppendElements ==
    ASSUME NEW S, NEW s \in Seq(S), NEW x \in S
    PROVE  /\ Elements(Append(s, x)) = Elements(s) \cup {x}
           /\ Distinct(s) /\ x \notin Elements(s) => Distinct(Append(s, x))
<1>1. /\ Append(s, x) \in Seq(S) /\ Len(Append(s, x)) = Len(s) + 1 /\ Len(s) \in Nat
      /\ \A k \in 1..Len(s) : Append(s, x)[k] = s[k]
      /\ Append(s, x)[Len(s) + 1] = x
  OBVIOUS
<1> DEFINE v == Append(s, x)
           n == Len(s)
<1>2. n \in Nat /\ DOMAIN s = 1..n /\ DOMAIN v = 1..(n + 1)
      /\ v[n + 1] = x /\ \A k \in 1..n : v[k] = s[k]
  BY <1>1
<1> HIDE DEF v, n
<1>3. \A k \in 1..(n + 1) : k \in 1..n \/ k = n + 1
  BY <1>2
<1>4. Elements(v) = Elements(s) \cup {x}
  <2>1. Elements(v) \subseteq Elements(s) \cup {x}
    BY <1>2, <1>3 DEF Elements
  <2>2. \A k \in 1..n : k \in 1..(n + 1)
    BY <1>2
  <2>3. n + 1 \in 1..(n + 1)
    BY <1>2
  <2> QED BY <1>2, <2>1, <2>2, <2>3 DEF Elements
<1>5. Distinct(s) /\ x \notin Elements(s) => Distinct(v)
  BY <1>2, <1>3 DEF Distinct, Elements
<1> QED
  BY <1>4, <1>5 DEF v

\* A job is enqueued: one more to be answered, in one more place.
LEMMA EnqueueKeeps ==
    ASSUME Inv, NEW i \in Jobs, Enqueue(i)
    PROVE  Inv'
<1>1. /\ http[i] = "new" /\ http' = [http EXCEPT ![i] = "waiting"] /\ wire' = wire
      /\ pending' = Append(pending, i) /\ outstanding' = outstanding + 1
  BY DEF Enqueue
<1>3. /\ promise' = promise /\ ActiveJobs' = ActiveJobs /\ ActiveIds' = ActiveIds /\ At' = At
      /\ Streams' = Streams
  BY DEF Enqueue, answers, worker, ActiveJobs, ActiveIds, At, Streams
<1>4. wire[i] = <<>> /\ promise[i] = NoReply
  BY <1>1 DEF Inv, NewInv, New
<1>5. http'[i] = "waiting" /\ \A j \in Jobs \ {i} : http'[j] = http[j]
  BY <1>1 DEF Inv, Types
<1>6. i \notin Enqueued /\ Enqueued' = Enqueued \cup {i}
  <2>1. ToSet(wire[i]) = {}
    BY <1>4 DEF ToSet
  <2> QED BY <1>1, <1>5, <2>1 DEF Enqueued
<1>7. i \notin Unanswered /\ Unanswered' = Unanswered \cup {i}
  BY <1>3, <1>4, <1>6 DEF Unanswered
<1>8. Types'
  <2>1. Append(pending, i) \in Seq(Jobs) /\ outstanding + 1 \in Int
    BY DEF Inv, Types
  <2> QED BY <1>1, <2>1 DEF Inv, Types, Enqueue, answers, worker
<1>9. Placed'
  <2>1. Elements(pending') = Elements(pending) \cup {i}
        /\ (Distinct(pending) /\ i \notin Elements(pending) => Distinct(pending'))
    BY <1>1, AppendElements DEF Inv, Types
  <2>2. i \notin Elements(pending) /\ i \notin Elements(taken) /\ i \notin ActiveJobs
    BY <1>7 DEF Inv, Placed
  <2>3. taken' = taken /\ active' = active
    BY DEF Enqueue, worker
  <2> QED BY <1>3, <1>7, <2>1, <2>2, <2>3 DEF Inv, Placed
<1>10. Counts'
  BY <1>1, <1>7, FS_AddElement DEF Inv, Counts
<1>11. Phases' /\ Served'
  BY <1>3 DEF Inv, Phases, Served, Enqueue, worker
<1>12. ASSUME NEW j \in Jobs
       PROVE  New(j)' /\ (j \in Streams => (Admission(j) /\ Wire(j) /\ Texts(j))')
  <2>1. /\ wire'[j] = wire[j] /\ kind'[j] = kind[j] /\ admitted'[j] = admitted[j]
        /\ promise'[j] = promise[j] /\ events'[j] = events[j] /\ accepted'[j] = accepted[j]
    BY <1>1 DEF Enqueue, answers
  <2>2. New(j) /\ (j \in Streams => Admission(j) /\ Wire(j) /\ Texts(j))
    BY DEF Inv, NewInv, StreamInv
  <2>3. CASE j # i
    <3>1. http'[j] = http[j]
      BY <1>5, <2>3
    <3> QED BY <1>3, <2>1, <2>2, <3>1, SameJob
  <2>4. CASE j = i
    <3>1. New(j)'
      BY <1>5, <2>4 DEF New
    <3>2. ASSUME j \in Streams
          PROVE  (Admission(j) /\ Wire(j) /\ Texts(j))'
      <4>1. /\ \A what : Written(j, what)' = Written(j, what)
            /\ Ended(j)' = Ended(j) /\ Parts(j)' = Parts(j)
        BY <2>1, SameWire
      <4>2. Admission(j)' /\ Texts(j)'
        BY <1>3, <2>1, <2>2, <3>2, <4>1 DEF Admission, Texts
      <4>3. Wire(j)'
        BY <1>1, <1>4, <1>5, <2>1, <2>2, <2>4, <3>2, <4>1 DEF Wire
      <4> QED BY <4>2, <4>3
    <3> QED BY <3>1, <3>2
  <2> QED BY <2>3, <2>4
<1>13. NewInv' /\ StreamInv'
  <2>1. NewInv'
    BY <1>12 DEF NewInv
  <2>2. \A j \in Streams : (Admission(j) /\ Wire(j) /\ Texts(j))'
    BY <1>12 DEF Streams
  <2>3. StreamInv'
    BY <1>3, <2>2 DEF StreamInv
  <2> QED BY <2>1, <2>3
<1> QED
  BY <1>8, <1>9, <1>10, <1>11, <1>13 DEF Inv

-----------------------------------------------------------------------------
(* Jobs are answered.                                                       *)

\* What was passed on of the jobs in F is in the queues, and the others' queues are
\* as they were.
Passed(queues, F) ==
    /\ queues \in [Jobs -> Queues] /\ accepted' \in [Jobs -> Nat]
    /\ \A j \in Jobs :
         /\ queues[j].terminal = events[j].terminal
         /\ accepted'[j] - Len(queues[j].text) = accepted[j] - Len(events[j].text)
         /\ j \notin F => queues[j] = events[j] /\ accepted'[j] = accepted[j]

\* When nothing was passed on, the queues are as they were.
LEMMA NothingPassed ==
    ASSUME Types, accepted' = accepted, NEW F
    PROVE  Passed(events, F)
<1>1. \A j \in Jobs : accepted[j] \in Nat /\ Len(events[j].text) \in Nat
  BY QueueFields DEF Types
<1> QED
  BY <1>1 DEF Passed, Types

\* A job of F has been promised its reply, the others what they were.
LEMMA FinishFields ==
    ASSUME Types, NEW F \in SUBSET Jobs, NEW reply \in Replies, NEW queues \in [Jobs -> Queues],
           Finish(F, reply, queues)
    PROVE  /\ admitted' \in [Jobs -> Answers] /\ promise' \in [Jobs -> Answers]
           /\ events' \in [Jobs -> Queues]
           /\ \A j \in F : /\ promise'[j] = reply
                           /\ admitted'[j] = IF admitted[j] = NoReply THEN reply ELSE admitted[j]
           /\ \A j \in F \cap Streams : events'[j] = Finished(queues[j], reply)
           /\ \A j \in Jobs \ F : /\ promise'[j] = promise[j] /\ admitted'[j] = admitted[j]
                                  /\ events'[j] = queues[j]
<1>1. \A q \in Queues : Finished(q, reply) \in Queues
  <2>1. reply \in Answers
    BY DEF Answers
  <2>2. ASSUME NEW q \in Queues
        PROVE  Finished(q, reply) \in Queues
    <3>1. Finished(q, reply) = [text |-> q.text, bytes |-> q.bytes, terminal |-> reply]
      BY QueueFields DEF Finished
    <3> QED BY <3>1, <2>1, QueueFields DEF Queues
  <2> QED BY <2>2
<1>2. admitted' \in [Jobs -> Answers] /\ promise' \in [Jobs -> Answers]
  BY DEF Finish, Types, Answers
<1>3. events' \in [Jobs -> Queues]
  BY <1>1 DEF Finish
<1> QED
  BY <1>2, <1>3 DEF Finish

\* The jobs of F leave the unanswered ones, and the counter with them.
LEMMA FinishCounts ==
    ASSUME Inv, NEW F \in SUBSET Unanswered, NEW reply \in Replies,
           NEW queues \in [Jobs -> Queues], Finish(F, reply, queues), UNCHANGED <<http, wire>>
    PROVE  Unanswered' = Unanswered \ F /\ Counts'
<1>1. F \in SUBSET Jobs /\ reply # NoReply
  BY DEF Unanswered, Enqueued, Replies, NoReply
<1>2. Enqueued' = Enqueued
  BY DEF Enqueued
<1>3. Unanswered' = Unanswered \ F
  <2>1. \A j \in Jobs : promise'[j] = IF j \in F THEN reply ELSE promise[j]
    BY <1>1, FinishFields DEF Inv
  <2>2. Enqueued \subseteq Jobs
    BY DEF Enqueued
  <2> QED BY <1>1, <1>2, <2>1, <2>2 DEF Unanswered
<1>4. IsFiniteSet(Unanswered) /\ outstanding = Cardinality(Unanswered)
  BY DEF Inv, Counts
<1>5. /\ IsFiniteSet(Unanswered \ F) /\ IsFiniteSet(F)
      /\ Cardinality(Unanswered \ F) = Cardinality(Unanswered) - Cardinality(Unanswered \cap F)
  BY <1>4, FS_Difference, FS_Subset
<1>6. Unanswered \cap F = F
  OBVIOUS
<1>7. outstanding' = outstanding - Cardinality(F)
  BY DEF Finish
<1> QED
  BY <1>3, <1>4, <1>5, <1>6, <1>7 DEF Counts

\* A stream that is answered keeps the order of its events.
LEMMA FinishStream ==
    ASSUME Inv, NEW F \in SUBSET Unanswered, NEW reply \in Replies \ {"overflow"}, NEW queues,
           Passed(queues, F), Finish(F, reply, queues), UNCHANGED <<kind, http, wire>>,
           reply = "invalid" => F \cap ActiveJobs = {}, NEW j \in F, j \in Streams
    PROVE  (Admission(j) /\ Wire(j) /\ Texts(j))'
<1>1. F \in SUBSET Jobs /\ reply # NoReply /\ promise[j] = NoReply /\ j \in Jobs
  BY DEF Unanswered, Enqueued, Replies, NoReply
<1>2. Admission(j) /\ Wire(j) /\ Texts(j)
  BY DEF Inv, StreamInv
<1>3. queues \in [Jobs -> Queues] /\ queues[j].terminal = events[j].terminal
      /\ accepted'[j] - Len(queues[j].text) = accepted[j] - Len(events[j].text)
  BY <1>1 DEF Passed
<1>4. /\ promise'[j] = reply /\ events'[j] = Finished(queues[j], reply)
      /\ admitted'[j] = IF admitted[j] = NoReply THEN reply ELSE admitted[j]
  BY <1>1, <1>3, FinishFields DEF Inv
<1>5. /\ \A what : Written(j, what)' = Written(j, what)
      /\ Ended(j)' = Ended(j) /\ Parts(j)' = Parts(j)
  BY SameWire
<1>6. Admission(j)'
  <2>1. admitted'[j] = "ok" => reply # "invalid"
    <3>1. CASE reply = "invalid"
      <4>1. j \notin ActiveJobs
        BY <3>1
      <4>2. admitted[j] = NoReply
        BY <1>1, <1>2, <4>1 DEF Admission
      <4> QED BY <1>4, <3>1, <4>2
    <3> QED BY <3>1
  <2> QED BY <1>1, <1>4, <2>1 DEF Admission
<1>7. Ended(j) = {} /\ Written(j, "error") = {} /\ http[j] # "ending"
  BY <1>1, <1>2 DEF Wire, Ended, NoReply
<1>8. admitted[j] = "ok" => admitted'[j] = "ok"
  BY <1>4 DEF NoReply
<1>9. Wire(j)'
  BY <1>2, <1>5, <1>7, <1>8 DEF Wire
<1>10. Texts(j)'
  <2>1. queues[j] \in Queues /\ events[j] \in Queues
    BY <1>1, <1>3 DEF Inv, Types
  <2>2. events'[j].text = queues[j].text /\ events'[j].terminal = reply
    BY <1>4, <2>1, QueueFields DEF Finished
  <2>3. /\ accepted[j] \in Nat /\ accepted'[j] \in Nat
        /\ Len(queues[j].text) \in Nat /\ Len(events[j].text) \in Nat
    BY <1>1, <2>1, QueueFields DEF Passed, Inv, Types
  <2>4. Cardinality(Written(j, "text")) \in Nat
    <3>1. wire[j] \in Seq(Sent)
      BY <1>1 DEF Inv, Types
    <3> QED BY <3>1, WrittenAs, PositionsFinite
  <2>5. accepted'[j] = Cardinality(Written(j, "text")) + Len(queues[j].text)
    <3> DEFINE w == Cardinality(Written(j, "text"))
               n == Len(events[j].text)
               m == Len(queues[j].text)
    <3>1. accepted[j] = w + n /\ accepted'[j] - m = accepted[j] - n
      BY <1>2, <1>3 DEF Texts
    <3>2. w \in Nat /\ n \in Nat /\ m \in Nat
      BY <2>3, <2>4
    <3> HIDE DEF w, n, m
    <3> QED BY <2>3, <3>1, <3>2 DEF w, m
  <2> QED BY <1>4, <1>5, <2>2, <2>5 DEF Texts
<1> QED
  BY <1>6, <1>9, <1>10

\* Jobs are answered: everything that is said of the jobs one by one.
LEMMA FinishKeeps ==
    ASSUME Inv, NEW F \in SUBSET Unanswered, NEW reply \in Replies \ {"overflow"}, NEW queues,
           Passed(queues, F), Finish(F, reply, queues), UNCHANGED <<kind, http, wire>>,
           \A j \in Jobs \ F : j \in ActiveJobs' <=> j \in ActiveJobs,
           reply = "invalid" => F \cap ActiveJobs = {}
    PROVE  NewInv' /\ StreamInv'
<1>1. F \in SUBSET Jobs /\ F \subseteq Enqueued /\ queues \in [Jobs -> Queues]
  BY DEF Unanswered, Enqueued, Passed
<1>2. ASSUME NEW j \in Jobs \ F
      PROVE  New(j)' /\ (j \in Streams => (Admission(j) /\ Wire(j) /\ Texts(j))')
  <2>1. /\ promise'[j] = promise[j] /\ admitted'[j] = admitted[j] /\ events'[j] = events[j]
        /\ accepted'[j] = accepted[j]
    BY <1>1, FinishFields DEF Passed, Inv
  <2>2. New(j) /\ (j \in Streams => Admission(j) /\ Wire(j) /\ Texts(j))
    BY DEF Inv, NewInv, StreamInv
  <2> QED BY <2>1, <2>2, SameJob
<1>3. ASSUME NEW j \in F
      PROVE  New(j)' /\ (j \in Streams => (Admission(j) /\ Wire(j) /\ Texts(j))')
  <2>1. New(j) /\ http[j] # "new"
    BY <1>1 DEF Inv, NewInv, Enqueued
  <2>2. New(j)'
    BY <2>1 DEF New, Streams
  <2> QED BY <2>2, FinishStream
<1>4. NewInv'
  BY <1>2, <1>3 DEF NewInv
<1>5. StreamInv'
  <2>1. \A j \in Streams : (Admission(j) /\ Wire(j) /\ Texts(j))'
    BY <1>2, <1>3 DEF Streams
  <2>2. Streams' = Streams
    BY DEF Streams
  <2> QED BY <2>1, <2>2 DEF StreamInv
<1> QED
  BY <1>4, <1>5

\* What is left of the active jobs without the n-th.
LEMMA WithoutOne ==
    ASSUME Types, Placed, Served, NEW n \in DOMAIN active, active' = RemoveAt(active, n)
    PROVE  /\ active' \in Seq([job : Jobs, id : Ids])
           /\ \A m \in DOMAIN active' : \E k \in DOMAIN active \ {n} : active'[m] = active[k]
           /\ \A l, m \in DOMAIN active' : active'[l].job = active'[m].job => l = m
           /\ ActiveJobs' = ActiveJobs \ {active[n].job}
           /\ ActiveIds' = ActiveIds \ {active[n].id}
<1> DEFINE T == [job : Jobs, id : Ids]
           before(m) == IF m < n THEN m ELSE m + 1
<1>1. active \in Seq(T) /\ n \in 1..Len(active) /\ Len(active) \in Nat /\ DOMAIN active = 1..Len(active)
  BY DEF Types
<1>2. /\ active' \in Seq(T) /\ Len(active') = Len(active) - 1
      /\ \A m \in 1..(Len(active) - 1) : active'[m] = IF m < n THEN active[m] ELSE active[m + 1]
  BY <1>1, RemoveAtElement
<1>3. DOMAIN active' = 1..(Len(active) - 1)
  BY <1>2
<1>4. \A m \in DOMAIN active' : before(m) \in DOMAIN active \ {n} /\ active'[m] = active[before(m)]
  BY <1>1, <1>2, <1>3
<1>5. \A l, m \in DOMAIN active' : before(l) = before(m) => l = m
  BY <1>1, <1>3
<1>6. \A k \in DOMAIN active \ {n} : \E m \in DOMAIN active' : active'[m] = active[k]
  <2>1. ASSUME NEW k \in DOMAIN active \ {n}
        PROVE  \E m \in DOMAIN active' : before(m) = k
    <3>1. CASE k < n
      <4>1. k \in DOMAIN active' /\ before(k) = k
        BY <3>1, <1>1, <1>3
      <4> QED BY <4>1
    <3>2. CASE ~(k < n)
      <4>1. k - 1 \in DOMAIN active' /\ before(k - 1) = k
        BY <3>2, <1>1, <1>3
      <4> QED BY <4>1
    <3> QED BY <3>1, <3>2
  <2> HIDE DEF before
  <2> QED BY <2>1, <1>4
<1> HIDE DEF before
<1>7. \A l, m \in DOMAIN active' : active'[l].job = active'[m].job => l = m
  BY <1>4, <1>5 DEF Placed
<1>8. \A k \in DOMAIN active \ {n} : active[k].job # active[n].job /\ active[k].id # active[n].id
  BY DEF Placed, Served
<1>9. ActiveJobs' = ActiveJobs \ {active[n].job}
  <2>1. ActiveJobs' \subseteq ActiveJobs \ {active[n].job}
    BY <1>4, <1>8 DEF ActiveJobs
  <2>2. ActiveJobs \ {active[n].job} \subseteq ActiveJobs'
    BY <1>6 DEF ActiveJobs
  <2> QED BY <2>1, <2>2
<1>10. ActiveIds' = ActiveIds \ {active[n].id}
  <2>1. ActiveIds' \subseteq ActiveIds \ {active[n].id}
    BY <1>4, <1>8 DEF ActiveIds
  <2>2. ActiveIds \ {active[n].id} \subseteq ActiveIds'
    BY <1>6 DEF ActiveIds
  <2> QED BY <2>1, <2>2
<1> QED
  BY <1>2, <1>4, <1>7, <1>9, <1>10

\* The job at the cursor.
LEMMA AtActive ==
    ASSUME Inv, cursor \in DOMAIN active
    PROVE  /\ At \in [job : Jobs, id : Ids] /\ At.job \in ActiveJobs /\ At.id \in ActiveIds
           /\ At.job \in Jobs /\ At.id \in Ids /\ At.id = <<At.job, question[At.job]>>
           /\ At.job \in Unanswered /\ promise[At.job] = NoReply
           /\ engine[At.id] \in E!Request /\ E!Exists(engine[At.id])
<1>1. At \in [job : Jobs, id : Ids]
  <2> DEFINE T == [job : Jobs, id : Ids]
  <2>1. active \in Seq(T)
    BY DEF Inv, Types
  <2> HIDE DEF T
  <2>2. active[cursor] \in T
    BY <2>1
  <2> QED BY <2>2 DEF At, T
<1>2. At.job \in Jobs /\ At.id \in Ids
  BY <1>1
<1>3. At.job \in ActiveJobs /\ At.id \in ActiveIds
  BY DEF At, ActiveJobs, ActiveIds
<1>4. At.id = <<At.job, question[At.job]>>
  BY DEF At, Inv, Served
<1>5. At.job \in Unanswered /\ promise[At.job] = NoReply
  BY <1>3 DEF Inv, Placed, Unanswered
<1>6. engine[At.id] \in E!Request /\ E!Exists(engine[At.id])
  BY <1>2, <1>3 DEF Inv, Types, Served
<1> QED
  BY <1>1, <1>2, <1>3, <1>4, <1>5, <1>6

\* A request in use serves the question its job is at.
LEMMA ActiveId ==
    ASSUME Inv, NEW i \in ActiveIds
    PROVE  i \in Ids /\ i[1] \in ActiveJobs /\ i[2] = question[i[1]]
<1>1. PICK n \in DOMAIN active : i = active[n].id
  BY DEF ActiveIds
<1>2. i = <<active[n].job, question[active[n].job]>>
  BY <1>1 DEF Inv, Served
<1>3. i[1] \in ActiveJobs /\ i[2] = question[i[1]]
  BY <1>2 DEF ActiveJobs
<1>4. i \in Ids
  BY <1>2, <1>3 DEF Inv, Placed, Unanswered, Enqueued, Types, Ids, ActiveJobs
<1> QED
  BY <1>3, <1>4

\* Answering the job at the cursor.
LEMMA CloseKeeps ==
    ASSUME Inv, cursor \in DOMAIN active, phase # "admit", NEW reply \in Replies \ {"overflow", "invalid"},
           NEW queues, Passed(queues, {At.job}), Close(reply, queues)
    PROVE  Inv'
<1> DEFINE F == {At.job}
<1>1. /\ At.job \in ActiveJobs /\ At.id \in ActiveIds /\ At.job \in Jobs /\ At.id \in Ids
      /\ At.id = <<At.job, question[At.job]>> /\ At.job \in Unanswered
  BY AtActive
<1>2. /\ Finish(F, reply, queues) /\ engine' = [engine EXCEPT ![At.id] = E!Released]
      /\ active' = RemoveAt(active, cursor) /\ phase' = "visit"
      /\ UNCHANGED <<kind, http, wire, late, cancelled, pending, stopping, stopSeen, taken, cursor, question>>
  BY DEF Close, clients
<1>3. F \in SUBSET Unanswered /\ F \in SUBSET Jobs /\ reply \in Replies /\ queues \in [Jobs -> Queues]
  BY <1>1 DEF Passed
<1>4. Unanswered' = Unanswered \ F /\ Counts'
  <2>1. Finish(F, reply, queues) /\ UNCHANGED <<http, wire>>
    BY <1>2
  <2> HIDE DEF F
  <2> QED BY <1>3, <2>1, FinishCounts
<1>5. /\ active' \in Seq([job : Jobs, id : Ids])
      /\ \A m \in DOMAIN active' : \E k \in DOMAIN active \ {cursor} : active'[m] = active[k]
      /\ \A l, m \in DOMAIN active' : active'[l].job = active'[m].job => l = m
      /\ ActiveJobs' = ActiveJobs \ F /\ ActiveIds' = ActiveIds \ {At.id}
  BY <1>2, WithoutOne DEF Inv, At
<1>6. /\ admitted' \in [Jobs -> Answers] /\ promise' \in [Jobs -> Answers]
      /\ events' \in [Jobs -> Queues]
      /\ promise'[At.job] = reply /\ \A j \in Jobs \ F : promise'[j] = promise[j]
  <2>1. Finish(F, reply, queues) /\ Types /\ At.job \in F
    BY <1>2 DEF Inv
  <2> HIDE DEF F
  <2>2. /\ admitted' \in [Jobs -> Answers] /\ promise' \in [Jobs -> Answers]
        /\ events' \in [Jobs -> Queues]
        /\ \A j \in F : promise'[j] = reply
        /\ \A j \in Jobs \ F : promise'[j] = promise[j]
    <3>1. Types /\ F \in SUBSET Jobs /\ reply \in Replies /\ queues \in [Jobs -> Queues]
      BY <1>3, <2>1
    <3>2. Finish(F, reply, queues)
      BY <2>1
    <3>3. /\ admitted' \in [Jobs -> Answers] /\ promise' \in [Jobs -> Answers]
          /\ events' \in [Jobs -> Queues]
      BY ONLY <3>1, <3>2, FinishFields
    <3>4. \A j \in F : promise'[j] = reply
      BY ONLY <3>1, <3>2, FinishFields
    <3>5. \A j \in Jobs \ F : promise'[j] = promise[j]
      BY ONLY <3>1, <3>2, FinishFields
    <3> QED BY <3>3, <3>4, <3>5
  <2> QED BY <2>1, <2>2
<1>7. Types'
  <2>1. outstanding' \in Int
    BY <1>4, FS_CardinalityType DEF Counts
  <2>2. engine' \in [Ids -> E!Request]
    BY <1>2, FreshRequests DEF Inv, Types
  <2>3. accepted' \in [Jobs -> Nat]
    BY DEF Passed
  <2> QED BY <1>2, <1>5, <1>6, <2>1, <2>2, <2>3 DEF Inv, Types
<1>8. Placed'
  BY <1>1, <1>2, <1>4, <1>5 DEF Inv, Placed
<1>9. Phases'
  BY <1>2 DEF Inv, Phases
<1>10. Served'
  <2>1. \A n \in DOMAIN active' : active'[n].id = <<active'[n].job, question'[active'[n].job]>>
    BY <1>2, <1>5 DEF Inv, Served
  <2>2. \A i \in Ids : E!Exists(engine'[i]) <=> i \in ActiveIds'
    BY <1>1, <1>2, <1>5, FreshRequests DEF Inv, Types, Served
  <2>3. reply # NoReply
    BY DEF Replies, NoReply
  <2>4. \A j \in Jobs : promise'[j] = NoReply /\ j \notin ActiveJobs' =>
           promise[j] = NoReply /\ j \notin ActiveJobs /\ j # At.job
    BY <1>5, <1>6, <2>3
  <2>5. \A j \in Jobs : promise'[j] = NoReply /\ j \notin ActiveJobs' => question'[j] = 1
    BY <1>2, <2>4 DEF Inv, Served
  <2>6. \A i \in Ids : i[1] \in Jobs /\ (i # At.id => engine'[i] = engine[i])
    BY <1>2 DEF Ids, Inv, Types
  <2>7. At.id[1] = At.job /\ At.id[2] = question[At.job]
    BY <1>1
  <2>8. \A i \in Ids : i[2] > question'[i[1]] => engine'[i] = E!Unused
    <3>1. question[At.job] \in Nat
      BY <1>1 DEF Inv, Types
    <3>2. ~(At.id[2] > question[At.id[1]])
      BY <2>7, <3>1
    <3>3. question' = question /\ \A i \in Ids : i[2] > question[i[1]] => engine[i] = E!Unused
      BY <1>2 DEF Inv, Served
    <3> SUFFICES ASSUME NEW i \in Ids, i[2] > question[i[1]]
                 PROVE  engine'[i] = E!Unused
      BY <3>3
    <3>4. i # At.id
      BY <3>2
    <3> QED BY <2>6, <3>3, <3>4
  <2>9. \A i \in Ids : promise'[i[1]] = NoReply /\ i[1] \notin ActiveJobs' => engine'[i] = E!Unused
    BY <2>4, <2>6, <2>7 DEF Inv, Served
  <2> QED BY <2>1, <2>2, <2>5, <2>8, <2>9 DEF Served
<1>11. NewInv' /\ StreamInv'
  BY <1>2, <1>3, <1>5, FinishKeeps
<1> QED
  BY <1>4, <1>7, <1>8, <1>9, <1>10, <1>11 DEF Inv

\* step() returned false: every active job is answered at once.
LEMMA StepFailsKeeps ==
    ASSUME Inv, StepFails
    PROVE  Inv'
<1>1. /\ Finish(ActiveJobs, "failed", events) /\ active' = <<>> /\ phase' = "visit" /\ taken = <<>>
      /\ engine' = [i \in Ids |-> IF i \in ActiveIds THEN E!Released ELSE engine[i]]
      /\ UNCHANGED <<kind, http, wire, late, cancelled, pending, stopping, accepted, stopSeen, taken,
                     cursor, question>>
  BY DEF StepFails, clients
<1>2. "failed" \in Replies \ {"overflow", "invalid"}
  BY DEF Replies
<1>3. ActiveJobs \in SUBSET Unanswered /\ ActiveJobs \in SUBSET Jobs
  BY DEF Inv, Placed, Unanswered, Enqueued
<1>4. Passed(events, ActiveJobs) /\ events \in [Jobs -> Queues]
  BY <1>1, NothingPassed DEF Inv, Types
<1>5. Unanswered' = Unanswered \ ActiveJobs /\ Counts'
  BY <1>1, <1>2, <1>3, <1>4, FinishCounts
<1>6. ActiveJobs' = {} /\ ActiveIds' = {} /\ DOMAIN active' = {}
  <2>1. DOMAIN active' = {}
    BY <1>1
  <2> QED BY <2>1 DEF ActiveJobs, ActiveIds
<1>7. /\ admitted' \in [Jobs -> Answers] /\ promise' \in [Jobs -> Answers]
      /\ events' \in [Jobs -> Queues]
      /\ \A j \in ActiveJobs : promise'[j] = "failed"
      /\ \A j \in Jobs \ ActiveJobs : promise'[j] = promise[j]
  <2> DEFINE F == ActiveJobs
             reply == "failed"
  <2>1. F \in SUBSET Jobs /\ reply \in Replies /\ Finish(F, reply, events) /\ Types
    BY <1>1, <1>2, <1>3 DEF Inv
  <2> HIDE DEF F, reply
  <2>2. /\ admitted' \in [Jobs -> Answers] /\ promise' \in [Jobs -> Answers]
        /\ events' \in [Jobs -> Queues]
        /\ \A j \in F : promise'[j] = reply
        /\ \A j \in Jobs \ F : promise'[j] = promise[j]
    BY <2>1, <1>4, FinishFields
  <2> QED BY <2>2 DEF F, reply
<1>8. Types'
  <2>1. outstanding' \in Int
    BY <1>5, FS_CardinalityType DEF Counts
  <2>2. engine' \in [Ids -> E!Request]
    BY <1>1, FreshRequests DEF Inv, Types
  <2> QED BY <1>1, <1>7, <2>1, <2>2 DEF Inv, Types
<1>9. Placed'
  BY <1>1, <1>5, <1>6 DEF Inv, Placed
<1>10. Phases'
  BY <1>1 DEF Phases
<1>11. Served'
  <2>1. \A j \in Jobs : promise'[j] = NoReply => promise[j] = NoReply /\ j \notin ActiveJobs
    BY <1>7 DEF NoReply
  <2>2. \A j \in Jobs : promise'[j] = NoReply /\ j \notin ActiveJobs' => question'[j] = 1
    BY <1>1, <2>1 DEF Inv, Served
  <2>3. ASSUME NEW i \in Ids
        PROVE  /\ i[1] \in Jobs /\ (i \notin ActiveIds => engine'[i] = engine[i])
               /\ i \in ActiveIds => i[1] \in ActiveJobs /\ i[2] = question[i[1]]
    <3>1. i[1] \in Jobs /\ (i \notin ActiveIds => engine'[i] = engine[i])
      BY <1>1 DEF Ids
    <3> QED BY <3>1, ActiveId
  <2>4. \A i \in Ids : E!Exists(engine'[i]) <=> i \in ActiveIds'
    BY <1>1, <1>6, FreshRequests DEF Inv, Served
  <2>5. \A i \in Ids : i[2] > question'[i[1]] => engine'[i] = E!Unused
    <3>1. \A j \in Jobs : question[j] \in Nat
      BY DEF Inv, Types
    <3> QED BY <1>1, <2>3, <3>1 DEF Inv, Served
  <2>6. \A i \in Ids : promise'[i[1]] = NoReply /\ i[1] \notin ActiveJobs' => engine'[i] = E!Unused
    BY <2>1, <2>3 DEF Inv, Served
  <2> QED BY <1>6, <2>2, <2>4, <2>5, <2>6 DEF Served
<1>12. NewInv' /\ StreamInv'
  BY <1>1, <1>2, <1>3, <1>4, <1>6, FinishKeeps
<1> QED
  BY <1>5, <1>8, <1>9, <1>10, <1>11, <1>12 DEF Inv

\* The first of a sequence of distinct elements is taken off it.
LEMMA TailElements ==
    ASSUME NEW S, NEW s \in Seq(S), s # <<>>, Distinct(s)
    PROVE  /\ Tail(s) \in Seq(S) /\ Head(s) \in S /\ Head(s) \in Elements(s)
           /\ Elements(Tail(s)) = Elements(s) \ {Head(s)} /\ Distinct(Tail(s))
<1> DEFINE t == Tail(s)
           n == Len(s)
<1>1. /\ n \in Nat /\ n # 0 /\ DOMAIN s = 1..n /\ t \in Seq(S) /\ DOMAIN t = 1..(n - 1)
      /\ \A k \in 1..(n - 1) : t[k] = s[k + 1]
      /\ Head(s) = s[1] /\ Head(s) \in S
  OBVIOUS
<1> HIDE DEF t, n
<1>2. 1 \in 1..n /\ (\A k \in 1..(n - 1) : k + 1 \in 1..n /\ k + 1 # 1)
      /\ (\A k \in 1..n : k # 1 => k - 1 \in 1..(n - 1) /\ (k - 1) + 1 = k)
  BY <1>1
<1>3. Elements(t) \subseteq Elements(s) \ {s[1]}
  BY <1>1, <1>2 DEF Elements, Distinct
<1>4. Elements(s) \ {s[1]} \subseteq Elements(t)
  <2>1. ASSUME NEW k \in 1..n, k # 1
        PROVE  s[k] \in Elements(t)
    <3>1. k - 1 \in DOMAIN t /\ t[k - 1] = s[k]
      BY <1>1, <1>2, <2>1
    <3> QED BY <3>1 DEF Elements
  <2> QED BY <1>1, <2>1 DEF Elements
<1>5. Distinct(t)
  <2>1. \A l, m \in 1..(n - 1) : t[l] = t[m] => l + 1 = m + 1
    BY <1>1, <1>2 DEF Distinct
  <2> QED BY <1>1, <2>1 DEF Distinct
<1>6. Head(s) \in Elements(s)
  BY <1>1, <1>2 DEF Elements
<1> QED
  BY <1>1, <1>3, <1>4, <1>5, <1>6 DEF t

\* The first taken job waits for its answer and is not served yet.
LEMMA JobTaken ==
    ASSUME Inv, taken # <<>>
    PROVE  /\ Job \in Jobs /\ Job \in Unanswered /\ Job \notin ActiveJobs /\ promise[Job] = NoReply
           /\ Tail(taken) \in Seq(Jobs) /\ Distinct(Tail(taken))
           /\ Elements(Tail(taken)) = Elements(taken) \ {Job} /\ Job \in Elements(taken)
<1>1. /\ Tail(taken) \in Seq(Jobs) /\ Distinct(Tail(taken)) /\ Job \in Jobs
      /\ Elements(Tail(taken)) = Elements(taken) \ {Job} /\ Job \in Elements(taken)
  BY TailElements DEF Inv, Types, Placed, Job
<1> QED
  BY <1>1 DEF Inv, Placed, Unanswered

\* A job is answered before it reaches the engine.
LEMMA AdmitAnsweredKeeps ==
    ASSUME Inv, NEW reply \in {"ok", "invalid", "cancelled", "failed"}, AdmitAnswered(reply)
    PROVE  Inv'
<1> DEFINE F == {Job}
<1>1. /\ Job \in Jobs /\ Job \in Unanswered /\ Job \notin ActiveJobs
      /\ Tail(taken) \in Seq(Jobs) /\ Distinct(Tail(taken))
      /\ Elements(Tail(taken)) = Elements(taken) \ {Job}
  BY JobTaken DEF AdmitAnswered
<1>2. /\ phase = "admit" /\ Finish(F, reply, events) /\ taken' = Tail(taken)
      /\ UNCHANGED <<kind, http, wire, late, cancelled, pending, stopping, accepted, phase, stopSeen,
                     active, cursor, question, engine>>
  BY DEF AdmitAnswered, clients
<1>3. reply \in Replies \ {"overflow"} /\ reply # NoReply
  BY DEF Replies, NoReply
<1>4. F \in SUBSET Unanswered /\ F \in SUBSET Jobs /\ F \cap ActiveJobs = {}
  BY <1>1
<1>5. Passed(events, F) /\ events \in [Jobs -> Queues]
  BY <1>2, NothingPassed DEF Inv, Types
<1>6. Unanswered' = Unanswered \ F /\ Counts'
  <2>1. Finish(F, reply, events) /\ UNCHANGED <<http, wire>>
    BY <1>2
  <2>2. reply \in Replies /\ events \in [Jobs -> Queues]
    BY <1>3, <1>5
  <2> HIDE DEF F
  <2> QED BY <1>4, <2>1, <2>2, FinishCounts
<1>7. ActiveJobs' = ActiveJobs /\ ActiveIds' = ActiveIds
  BY <1>2 DEF ActiveJobs, ActiveIds
<1>8. /\ admitted' \in [Jobs -> Answers] /\ promise' \in [Jobs -> Answers]
      /\ events' \in [Jobs -> Queues]
      /\ promise'[Job] = reply /\ \A j \in Jobs \ F : promise'[j] = promise[j]
  <2>1. Finish(F, reply, events) /\ Types /\ Job \in F
    BY <1>2 DEF Inv
  <2>2. reply \in Replies /\ events \in [Jobs -> Queues]
    BY <1>3, <1>5
  <2> HIDE DEF F
  <2> QED BY <1>4, <2>1, <2>2, FinishFields
<1>9. Types'
  <2>1. outstanding' \in Int
    BY <1>6, FS_CardinalityType DEF Counts
  <2> QED BY <1>1, <1>2, <1>8, <2>1 DEF Inv, Types
<1>10. Placed'
  <2>1. /\ Elements(pending) \cap Elements(taken) = {} /\ Elements(taken) \cap ActiveJobs = {}
        /\ Elements(pending) \cap ActiveJobs = {} /\ Distinct(pending)
        /\ \A m, n \in DOMAIN active : active[m].job = active[n].job => m = n
        /\ Unanswered = Elements(pending) \cup Elements(taken) \cup ActiveJobs
    BY DEF Inv, Placed
  <2>2. Job \in Elements(taken)
    BY JobTaken DEF AdmitAnswered
  <2>3. Job \notin Elements(pending)
    BY <2>1, <2>2
  <2>4. Unanswered' = Elements(pending) \cup Elements(Tail(taken)) \cup ActiveJobs
    BY <1>1, <1>6, <2>1, <2>3
  <2>5. taken' = Tail(taken) /\ pending' = pending /\ active' = active
    BY <1>2
  <2> QED BY <1>1, <1>7, <2>1, <2>4, <2>5 DEF Placed
<1>11. Phases'
  BY <1>2 DEF Inv, Phases
<1>12. Served'
  <2>1. \A j \in Jobs : promise'[j] = NoReply => promise[j] = NoReply
    BY <1>3, <1>8
  <2>2. \A i \in Ids : i[1] \in Jobs
    BY DEF Ids
  <2> QED BY <1>2, <1>7, <2>1, <2>2 DEF Inv, Served
<1>13. NewInv' /\ StreamInv'
  BY <1>2, <1>3, <1>4, <1>5, <1>7, FinishKeeps
<1> QED
  BY <1>6, <1>9, <1>10, <1>11, <1>12, <1>13 DEF Inv

\* The active jobs after one was appended.
LEMMA WithOneMore ==
    ASSUME Types, Placed, NEW j \in Jobs, j \notin ActiveJobs, NEW id \in Ids,
           active' = Append(active, [job |-> j, id |-> id])
    PROVE  /\ active' \in Seq([job : Jobs, id : Ids])
           /\ \A m \in DOMAIN active' : \/ m \in DOMAIN active /\ active'[m] = active[m]
                                       \/ active'[m] = [job |-> j, id |-> id]
           /\ \A l, m \in DOMAIN active' : active'[l].job = active'[m].job => l = m
           /\ ActiveJobs' = ActiveJobs \cup {j}
           /\ ActiveIds' = ActiveIds \cup {id}
<1> DEFINE T == [job : Jobs, id : Ids]
           x == [job |-> j, id |-> id]
           n == Len(active)
<1>1. active \in Seq(T) /\ x \in T /\ x.job = j /\ x.id = id /\ active' = Append(active, x)
  BY DEF Types
<1> HIDE DEF T, x
<1>2. /\ active' \in Seq(T) /\ n \in Nat /\ DOMAIN active = 1..n /\ DOMAIN active' = 1..(n + 1)
      /\ active'[n + 1] = x /\ \A k \in 1..n : active'[k] = active[k]
  BY <1>1
<1> HIDE DEF n
<1>3. /\ \A k \in 1..(n + 1) : k \in 1..n \/ k = n + 1
      /\ n + 1 \in 1..(n + 1) /\ \A k \in 1..n : k \in 1..(n + 1)
  BY <1>2
<1>4. \A m \in DOMAIN active' : (m \in DOMAIN active /\ active'[m] = active[m]) \/ active'[m] = x
  BY <1>2, <1>3
<1>5. \A l, m \in DOMAIN active' : active'[l].job = active'[m].job => l = m
  BY <1>1, <1>2, <1>3 DEF Placed, ActiveJobs
<1>6. ActiveJobs' = ActiveJobs \cup {j}
  <2>1. ActiveJobs' \subseteq ActiveJobs \cup {j}
    BY <1>1, <1>4 DEF ActiveJobs
  <2>2. ActiveJobs \cup {j} \subseteq ActiveJobs'
    BY <1>1, <1>2, <1>3 DEF ActiveJobs
  <2> QED BY <2>1, <2>2
<1>7. ActiveIds' = ActiveIds \cup {id}
  <2>1. ActiveIds' \subseteq ActiveIds \cup {id}
    BY <1>1, <1>4 DEF ActiveIds
  <2>2. ActiveIds \cup {id} \subseteq ActiveIds'
    BY <1>1, <1>2, <1>3 DEF ActiveIds
  <2> QED BY <2>1, <2>2
<1> QED
  BY <1>2, <1>4, <1>5, <1>6, <1>7 DEF T, x

\* A job is submitted: its first question is a request that was never used.
LEMMA AdmitSubmittedKeeps ==
    ASSUME Inv, AdmitSubmitted
    PROVE  Inv'
<1> DEFINE id == <<Job, 1>>
<1>1. /\ Job \in Jobs /\ Job \in Unanswered /\ Job \notin ActiveJobs /\ promise[Job] = NoReply
      /\ Tail(taken) \in Seq(Jobs) /\ Distinct(Tail(taken)) /\ Job \in Elements(taken)
      /\ Elements(Tail(taken)) = Elements(taken) \ {Job}
  BY JobTaken DEF AdmitSubmitted
<1>2. /\ phase = "admit" /\ engine' = [engine EXCEPT ![id] = E!Begun]
      /\ active' = Append(active, [job |-> Job, id |-> id]) /\ taken' = Tail(taken)
      /\ admitted' = IF kind[Job] = "decision" THEN admitted ELSE [admitted EXCEPT ![Job] = "ok"]
      /\ UNCHANGED <<kind, http, wire, late, cancelled, pending, outstanding, stopping, promise, events,
                     accepted, phase, stopSeen, cursor, question>>
  BY DEF AdmitSubmitted, Submit, clients, shared
<1>3. id \in Ids /\ question[Job] = 1
  <2>1. 1 \in 1..Questions
    BY ServiceAssumption
  <2> QED BY <1>1, <2>1 DEF Ids, Inv, Served
<1>4. /\ active' \in Seq([job : Jobs, id : Ids])
      /\ \A m \in DOMAIN active' : \/ m \in DOMAIN active /\ active'[m] = active[m]
                                  \/ active'[m] = [job |-> Job, id |-> id]
      /\ \A l, m \in DOMAIN active' : active'[l].job = active'[m].job => l = m
      /\ ActiveJobs' = ActiveJobs \cup {Job} /\ ActiveIds' = ActiveIds \cup {id}
  BY <1>1, <1>2, <1>3, WithOneMore DEF Inv
<1> HIDE DEF id
<1>5. Unanswered' = Unanswered
  BY <1>2 DEF Unanswered, Enqueued
<1>6. Types'
  <2>1. engine' \in [Ids -> E!Request]
    BY <1>2, FreshRequests DEF Inv, Types
  <2>2. admitted' \in [Jobs -> Answers]
    BY <1>2 DEF Inv, Types, Answers, Replies
  <2> QED BY <1>1, <1>2, <1>4, <2>1, <2>2 DEF Inv, Types
<1>7. Placed'
  <2>1. /\ Elements(pending) \cap Elements(taken) = {} /\ Elements(taken) \cap ActiveJobs = {}
        /\ Elements(pending) \cap ActiveJobs = {} /\ Distinct(pending)
        /\ Unanswered = Elements(pending) \cup Elements(taken) \cup ActiveJobs
    BY DEF Inv, Placed
  <2>2. Job \notin Elements(pending)
    BY <1>1, <2>1
  <2>3. Unanswered = Elements(pending) \cup Elements(Tail(taken)) \cup (ActiveJobs \cup {Job})
    BY <1>1, <2>1
  <2>4. taken' = Tail(taken) /\ pending' = pending
    BY <1>2
  <2>5. /\ Elements(pending) \cap Elements(Tail(taken)) = {}
        /\ Elements(Tail(taken)) \cap (ActiveJobs \cup {Job}) = {}
        /\ Elements(pending) \cap (ActiveJobs \cup {Job}) = {}
    BY <1>1, <2>1, <2>2
  <2> QED BY <1>1, <1>4, <1>5, <2>1, <2>3, <2>4, <2>5 DEF Placed
<1>8. Counts'
  BY <1>2, <1>5 DEF Inv, Counts
<1>9. Phases'
  BY <1>2 DEF Phases
<1>10. Served'
  <2>1. \A n \in DOMAIN active' : active'[n].id = <<active'[n].job, question'[active'[n].job]>>
    BY <1>2, <1>3, <1>4 DEF Inv, Served, id
  <2>2. \A i \in Ids : E!Exists(engine'[i]) <=> i \in ActiveIds'
    BY <1>2, <1>4, FreshRequests DEF Inv, Types, Served
  <2>3. \A j \in Jobs : promise'[j] = NoReply /\ j \notin ActiveJobs' => question'[j] = 1
    BY <1>2, <1>4 DEF Inv, Served
  <2>4. \A i \in Ids : i[1] \in Jobs /\ (i # id => engine'[i] = engine[i])
    BY <1>2 DEF Ids, Inv, Types
  <2>5. id[1] = Job /\ id[2] = 1
    BY DEF id
  <2>6. \A i \in Ids : i[2] > question'[i[1]] => engine'[i] = E!Unused
    <3>1. ~(id[2] > question[id[1]])
      BY <1>3, <2>5
    <3> QED BY <1>2, <2>4, <3>1 DEF Inv, Served
  <2>7. \A i \in Ids : promise'[i[1]] = NoReply /\ i[1] \notin ActiveJobs' => engine'[i] = E!Unused
    BY <1>2, <1>4, <2>4, <2>5 DEF Inv, Served
  <2> QED BY <2>1, <2>2, <2>3, <2>6, <2>7 DEF Served
<1>11. ASSUME NEW j \in Jobs
       PROVE  New(j)' /\ (j \in Streams => (Admission(j) /\ Wire(j) /\ Texts(j))')
  <2>1. New(j) /\ (j \in Streams => Admission(j) /\ Wire(j) /\ Texts(j))
    BY DEF Inv, NewInv, StreamInv
  <2>2. CASE j # Job
    <3>1. /\ wire'[j] = wire[j] /\ http'[j] = http[j] /\ kind'[j] = kind[j] /\ promise'[j] = promise[j]
          /\ events'[j] = events[j] /\ accepted'[j] = accepted[j]
      BY <1>2
    <3>2. admitted'[j] = admitted[j]
      BY <1>2, <2>2
    <3> QED BY <1>4, <2>1, <2>2, <3>1, <3>2, SameJob
  <2>3. CASE j = Job
    <3>1. http[j] # "new"
      BY <1>1, <2>3 DEF Unanswered, Enqueued
    <3>2. New(j)'
      BY <1>2, <2>1, <3>1 DEF New, Streams
    <3>3. ASSUME j \in Streams
          PROVE  (Admission(j) /\ Wire(j) /\ Texts(j))'
      <4>1. admitted'[j] = "ok"
        BY <1>2, <2>3, <3>3 DEF Streams, Inv, Types
      <4>2. wire'[j] = wire[j]
        BY <1>2
      <4>3. /\ \A what : Written(j, what)' = Written(j, what)
            /\ Ended(j)' = Ended(j) /\ Parts(j)' = Parts(j)
        BY <4>2, SameWire
      <4>4. promise[j] # "invalid" /\ promise[j] # "overflow" /\ j \in ActiveJobs'
        BY <1>1, <1>4, <2>3 DEF NoReply
      <4>5. Admission(j)'
        BY <1>2, <4>4 DEF Admission
      <4>6. Wire(j)'
        BY <1>2, <2>1, <3>3, <4>1, <4>3 DEF Wire
      <4>7. Texts(j)'
        BY <1>2, <2>1, <3>3, <4>3 DEF Texts
      <4> QED BY <4>5, <4>6, <4>7
    <3> QED BY <3>2, <3>3
  <2> QED BY <2>2, <2>3
<1>12. NewInv' /\ StreamInv'
  <2>1. NewInv'
    BY <1>11 DEF NewInv
  <2>2. \A j \in Streams : (Admission(j) /\ Wire(j) /\ Texts(j))'
    BY <1>11 DEF Streams
  <2>3. Streams' = Streams
    BY <1>2 DEF Streams
  <2> QED BY <2>1, <2>2, <2>3 DEF StreamInv
<1> QED
  BY <1>6, <1>7, <1>8, <1>9, <1>10, <1>12 DEF Inv

\* The next round takes what is pending.
LEMMA SwapKeeps ==
    ASSUME Inv, Swap
    PROVE  Inv'
<1>1. /\ taken = <<>> /\ taken' = pending /\ pending' = <<>> /\ stopSeen' = stopping
      /\ phase' = "admit" /\ cursor' = 1
      /\ UNCHANGED <<kind, http, wire, late, cancelled, outstanding, stopping, answers, accepted,
                     active, question, engine>>
  BY DEF Swap, RoundEnded, Inv, Phases, clients
<1>2. ActiveJobs' = ActiveJobs /\ ActiveIds' = ActiveIds
  BY <1>1 DEF ActiveJobs, ActiveIds
<1>3. NewInv' /\ StreamInv' /\ Unanswered' = Unanswered
  BY <1>1, <1>2, SameJobs
<1>4. Types'
  BY <1>1 DEF Inv, Types, answers
<1>5. Placed'
  <2>1. Elements(<<>>) = {} /\ Distinct(<<>>)
    BY DEF Elements, Distinct
  <2> QED BY <1>1, <1>2, <1>3, <2>1 DEF Inv, Placed
<1>6. Counts'
  BY <1>1, <1>3 DEF Inv, Counts
<1>7. Phases'
  BY <1>1 DEF Phases
<1>8. Served'
  BY <1>1, <1>2 DEF Inv, Served, answers
<1> QED
  BY <1>3, <1>4, <1>5, <1>6, <1>7, <1>8 DEF Inv

\* Whatever becomes of the requests in use, as long as they exist.
LEMMA ServedEngine ==
    ASSUME Inv, \A i \in Ids : i \notin ActiveIds => engine'[i] = engine[i],
           \A i \in ActiveIds : E!Exists(engine'[i]),
           UNCHANGED <<promise, active, question>>
    PROVE  Served'
<1>1. ActiveJobs' = ActiveJobs /\ ActiveIds' = ActiveIds
  BY DEF ActiveJobs, ActiveIds
<1>2. \A i \in ActiveIds : i[1] \in ActiveJobs /\ i[2] = question[i[1]]
  BY ActiveId
<1>3. \A i \in Ids : E!Exists(engine'[i]) <=> i \in ActiveIds'
  BY <1>1 DEF Inv, Served
<1>4. \A i \in Ids : i[2] > question'[i[1]] => engine'[i] = E!Unused
  <2>1. \A i \in Ids : i[1] \in Jobs
    BY DEF Ids
  <2>2. \A j \in Jobs : question[j] \in Nat
    BY DEF Inv, Types
  <2>3. \A i \in ActiveIds : i \in Ids /\ ~(i[2] > question[i[1]])
    BY <1>2, <2>1, <2>2, ActiveId
  <2> QED BY <2>3 DEF Inv, Served
<1>5. \A i \in Ids : promise'[i[1]] = NoReply /\ i[1] \notin ActiveJobs' => engine'[i] = E!Unused
  BY <1>1, <1>2 DEF Inv, Served
<1> QED
  BY <1>1, <1>3, <1>4, <1>5 DEF Inv, Served

\* One step of the engine, after the requests of cancelled jobs were.
LEMMA StepKeeps ==
    ASSUME Inv, Step
    PROVE  Inv'
<1>1. PICK next \in [ActiveIds -> UNION {Stepped(Swept[i], Limit(i[1])) : i \in ActiveIds}] :
         /\ \A i \in ActiveIds : next[i] \in Stepped(Swept[i], Limit(i[1]))
         /\ engine' = [i \in Ids |-> IF i \in ActiveIds THEN next[i] ELSE engine[i]]
  BY DEF Step
<1>2. /\ taken = <<>> /\ phase' = "visit"
      /\ UNCHANGED <<kind, http, wire, late, cancelled, pending, outstanding, stopping, answers,
                     accepted, stopSeen, taken, active, cursor, question>>
  BY DEF Step, clients, shared
<1>3. ASSUME NEW i \in ActiveIds
      PROVE  next[i] \in E!Request /\ E!Exists(next[i])
  <2>1. i \in Ids /\ engine[i] \in E!Request /\ E!Exists(engine[i])
    BY ActiveId DEF Inv, Types, Served
  <2>2. Swept[i] \in E!Request /\ E!Exists(Swept[i])
    <3>1. Swept[i] = engine[i] \/ Swept[i] = E!Cancelled(engine[i])
      BY <2>1 DEF Swept
    <3> QED BY <2>1, <3>1, CancelledRequest
  <2> QED BY <1>1, <2>2, SteppedRequest
<1>4. engine' \in [Ids -> E!Request]
  BY <1>1, <1>3 DEF Inv, Types
<1>5. ActiveJobs' = ActiveJobs
  BY <1>2 DEF ActiveJobs
<1>6. Served'
  <2>1. \A i \in ActiveIds : E!Exists(engine'[i])
    BY <1>1, <1>3, ActiveId
  <2>2. \A i \in Ids : i \notin ActiveIds => engine'[i] = engine[i]
    BY <1>1
  <2> QED BY <1>2, <2>1, <2>2, ServedEngine DEF answers
<1>7. NewInv' /\ StreamInv' /\ Unanswered' = Unanswered
  BY <1>2, <1>5, SameJobs
<1>8. Types'
  BY <1>2, <1>4 DEF Inv, Types, answers
<1>9. Placed'
  BY <1>2, <1>5, <1>7 DEF Inv, Placed
<1>10. Counts'
  BY <1>2, <1>7 DEF Inv, Counts
<1>11. Phases'
  BY <1>2 DEF Phases
<1> QED
  BY <1>6, <1>7, <1>8, <1>9, <1>10, <1>11 DEF Inv

\* The job at the cursor stays, with what was passed on of it.
LEMMA KeepKeeps ==
    ASSUME Inv, Visiting, NEW r \in E!Request, E!Exists(r), KeepAs(r), Passed(events', {At.job})
    PROVE  Inv'
<1>1. /\ At.job \in ActiveJobs /\ At.id \in ActiveIds /\ At.job \in Jobs /\ At.id \in Ids
      /\ At.job \in Unanswered /\ promise[At.job] = NoReply
  BY AtActive DEF Visiting
<1>2. /\ engine' = [engine EXCEPT ![At.id] = r] /\ cursor' = cursor + 1 /\ phase = "visit"
      /\ UNCHANGED <<kind, http, wire, late, cancelled, pending, outstanding, stopping, admitted, promise,
                     phase, stopSeen, taken, active, question>>
  BY DEF KeepAs, Visiting, clients, shared
<1>3. ActiveJobs' = ActiveJobs /\ Unanswered' = Unanswered
  BY <1>2 DEF ActiveJobs, Unanswered, Enqueued
<1>4. Types'
  <2>1. engine' \in [Ids -> E!Request]
    BY <1>2 DEF Inv, Types
  <2>3. cursor \in Nat \ {0} /\ cursor' = cursor + 1
    BY <1>2 DEF Inv, Types
  <2>4. cursor' \in Nat \ {0}
    BY <2>3
  <2>2. events' \in [Jobs -> Queues] /\ accepted' \in [Jobs -> Nat]
    BY DEF Passed
  <2> QED BY <1>2, <2>1, <2>2, <2>4 DEF Inv, Types
<1>5. Placed'
  BY <1>2, <1>3 DEF Inv, Placed
<1>6. Counts'
  BY <1>2, <1>3 DEF Inv, Counts
<1>7. Phases'
  BY <1>2 DEF Inv, Phases
<1>8. Served'
  <2>1. engine \in [Ids -> E!Request]
    BY DEF Inv, Types
  <2>2. \A i \in Ids : i \notin ActiveIds => engine'[i] = engine[i]
    BY <1>1, <1>2, <2>1
  <2>3. \A i \in ActiveIds : E!Exists(engine'[i])
    BY <1>1, <1>2, <2>1, ActiveId DEF Inv, Served
  <2> QED BY <1>2, <2>2, <2>3, ServedEngine
<1>9. ASSUME NEW j \in Jobs
      PROVE  New(j)' /\ (j \in Streams => (Admission(j) /\ Wire(j) /\ Texts(j))')
  <2>1. New(j) /\ (j \in Streams => Admission(j) /\ Wire(j) /\ Texts(j))
    BY DEF Inv, NewInv, StreamInv
  <2>2. /\ wire'[j] = wire[j] /\ http'[j] = http[j] /\ kind'[j] = kind[j] /\ promise'[j] = promise[j]
        /\ admitted'[j] = admitted[j]
    BY <1>2
  <2>3. /\ events'[j].terminal = events[j].terminal
        /\ accepted'[j] - Len(events'[j].text) = accepted[j] - Len(events[j].text)
        /\ j \notin {At.job} => events'[j] = events[j] /\ accepted'[j] = accepted[j]
    BY DEF Passed
  <2>4. CASE j # At.job
    BY <1>3, <2>1, <2>2, <2>3, <2>4, SameJob
  <2>5. CASE j = At.job
    <3>1. promise[j] = NoReply /\ http[j] # "new"
      BY <1>1, <2>5 DEF Unanswered, Enqueued
    <3>2. New(j)'
      BY <1>2, <2>1, <3>1 DEF New, Streams
    <3>3. ASSUME j \in Streams
          PROVE  (Admission(j) /\ Wire(j) /\ Texts(j))'
      <4>1. /\ \A what : Written(j, what)' = Written(j, what)
            /\ Ended(j)' = Ended(j) /\ Parts(j)' = Parts(j)
        BY <2>2, SameWire
      <4>2. Ended(j) = {} /\ http[j] # "ending"
        BY <2>1, <3>1, <3>3 DEF Wire, NoReply
      <4>3. Admission(j)'
        BY <1>3, <2>1, <2>2, <3>3 DEF Admission
      <4>4. Wire(j)'
        BY <2>1, <2>2, <3>3, <4>1, <4>2 DEF Wire
      <4>5. Texts(j)'
        <5>1. Written(j, "text")' = Written(j, "text")
          BY <4>1
        <5>2. Cardinality(Written(j, "text")) \in Nat
          <6>1. wire[j] \in Seq(Sent)
            BY DEF Inv, Types
          <6> QED BY <6>1, WrittenAs, PositionsFinite
        <5>3. /\ accepted[j] \in Nat /\ accepted'[j] \in Nat
              /\ Len(events[j].text) \in Nat /\ Len(events'[j].text) \in Nat
          BY <1>4, QueueFields DEF Inv, Types
        <5>4. /\ accepted[j] = Cardinality(Written(j, "text")) + Len(events[j].text)
              /\ events[j].terminal = promise[j]
          BY <2>1, <3>3 DEF Texts
        <5> DEFINE a == accepted[j]
                   b == accepted'[j]
                   c == Cardinality(Written(j, "text"))
                   m == Len(events[j].text)
                   n == Len(events'[j].text)
        <5>5. b = c + n
          <6>1. a \in Nat /\ b \in Nat /\ c \in Nat /\ m \in Nat /\ n \in Nat
            BY <5>2, <5>3
          <6>2. a = c + m /\ b - n = a - m
            BY <2>3, <5>4
          <6> HIDE DEF a, b, c, m, n
          <6> QED BY <6>1, <6>2
        <5> QED BY <2>2, <2>3, <5>1, <5>4, <5>5 DEF Texts
      <4> QED BY <4>3, <4>4, <4>5
    <3> QED BY <3>2, <3>3
  <2> QED BY <2>4, <2>5
<1>10. NewInv' /\ StreamInv'
  <2>1. NewInv'
    BY <1>9 DEF NewInv
  <2>2. \A j \in Streams : (Admission(j) /\ Wire(j) /\ Texts(j))'
    BY <1>9 DEF Streams
  <2>3. Streams' = Streams
    BY <1>2 DEF Streams
  <2> QED BY <2>1, <2>2, <2>3 DEF StreamInv
<1> QED
  BY <1>4, <1>5, <1>6, <1>7, <1>8, <1>10 DEF Inv

\* The texts of a visit that are not empty, counted one by one.
Texted(sizes, n) == {m \in 1..n : sizes[m] > 0}

\* They are finitely many.
LEMMA TextedFinite ==
    ASSUME NEW sizes, NEW n \in Nat
    PROVE  IsFiniteSet(Texted(sizes, n)) /\ Cardinality(Texted(sizes, n)) \in Nat
<1>1. IsFiniteSet(1..n)
  BY FS_Interval
<1>2. Texted(sizes, n) \in SUBSET (1..n)
  BY DEF Texted
<1> QED
  BY <1>1, <1>2, FS_Subset, FS_CardinalityType

\* One more text is counted once more when it is not empty.
LEMMA TextedNext ==
    ASSUME NEW sizes, NEW n \in Nat
    PROVE  /\ sizes[n + 1] > 0 =>
                Cardinality(Texted(sizes, n + 1)) = Cardinality(Texted(sizes, n)) + 1
           /\ ~(sizes[n + 1] > 0) =>
                Cardinality(Texted(sizes, n + 1)) = Cardinality(Texted(sizes, n))
<1> DEFINE P(m) == sizes[m] > 0
<1> HIDE DEF P
<1>1. Texted(sizes, n) = {m \in 1..n : P(m)} /\ Texted(sizes, n + 1) = {m \in 1..(n + 1) : P(m)}
  BY DEF P, Texted
<1>2. P(n + 1) => Texted(sizes, n + 1) = Texted(sizes, n) \cup {n + 1}
  BY <1>1
<1>3. ~P(n + 1) => Texted(sizes, n + 1) = Texted(sizes, n)
  BY <1>1
<1>4. n + 1 \notin Texted(sizes, n)
  BY <1>1
<1>5. IsFiniteSet(Texted(sizes, n))
  BY TextedFinite
<1>6. P(n + 1) => Cardinality(Texted(sizes, n + 1)) = Cardinality(Texted(sizes, n)) + 1
  BY <1>2, <1>4, <1>5, FS_AddElement
<1> QED
  BY <1>3, <1>6 DEF P

\* The queue is longer by as many texts as are counted.
LEMMA PushedThree ==
    ASSUME NEW q \in Queues, NEW a \in Nat, NEW b \in Nat, NEW c \in Nat
    PROVE  LET p == Pushed(Pushed(Pushed(q, a), b), c)
               sizes == <<a, b, c>>
           IN  /\ p \in Queues /\ p.terminal = q.terminal
               /\ Len(p.text) = Len(q.text) + Cardinality({n \in 1..3 : sizes[n] > 0})
<1> DEFINE q1 == Pushed(q, a)
           q2 == Pushed(q1, b)
           q3 == Pushed(q2, c)
           s == <<a, b, c>>
           t(n) == Cardinality(Texted(s, n))
           l == Len(q.text)
           l1 == Len(q1.text)
           l2 == Len(q2.text)
           l3 == Len(q3.text)
<1>1. /\ q1 \in Queues /\ q1.terminal = q.terminal
      /\ (a > 0 => l1 = l + 1) /\ (a = 0 => l1 = l)
  BY PushedQueue
<1>2. /\ q2 \in Queues /\ q2.terminal = q.terminal
      /\ (b > 0 => l2 = l1 + 1) /\ (b = 0 => l2 = l1)
  <2> HIDE DEF q1
  <2> QED BY <1>1, PushedQueue
<1>3. /\ q3 \in Queues /\ q3.terminal = q.terminal
      /\ (c > 0 => l3 = l2 + 1) /\ (c = 0 => l3 = l2)
  <2> HIDE DEF q1, q2
  <2> QED BY <1>2, PushedQueue
<1>4. t(0) = 0
  <2>1. Texted(s, 0) = {}
    BY DEF Texted
  <2> QED BY <2>1, FS_EmptySet
<1>5. /\ (s[1] > 0 => t(1) = t(0) + 1) /\ (~(s[1] > 0) => t(1) = t(0))
      /\ (s[2] > 0 => t(2) = t(1) + 1) /\ (~(s[2] > 0) => t(2) = t(1))
      /\ (s[3] > 0 => t(3) = t(2) + 1) /\ (~(s[3] > 0) => t(3) = t(2))
  <2>1. 0 \in Nat /\ 1 \in Nat /\ 2 \in Nat /\ 0 + 1 = 1 /\ 1 + 1 = 2 /\ 2 + 1 = 3
    OBVIOUS
  <2> HIDE DEF s
  <2>2. (s[0 + 1] > 0 => t(0 + 1) = t(0) + 1) /\ (~(s[0 + 1] > 0) => t(0 + 1) = t(0))
    BY <2>1, TextedNext
  <2>3. (s[1 + 1] > 0 => t(1 + 1) = t(1) + 1) /\ (~(s[1 + 1] > 0) => t(1 + 1) = t(1))
    BY <2>1, TextedNext
  <2>4. (s[2 + 1] > 0 => t(2 + 1) = t(2) + 1) /\ (~(s[2 + 1] > 0) => t(2 + 1) = t(2))
    BY <2>1, TextedNext
  <2> HIDE DEF t
  <2> QED BY <2>1, <2>2, <2>3, <2>4
<1>6. s[1] = a /\ s[2] = b /\ s[3] = c
  OBVIOUS
<1>7. l \in Nat /\ l1 \in Nat /\ l2 \in Nat /\ l3 \in Nat
  <2> HIDE DEF q1, q2, q3
  <2> QED BY <1>1, <1>2, <1>3, QueueFields
<1>8. t(3) = Cardinality({n \in 1..3 : s[n] > 0})
  BY DEF Texted
<1> HIDE DEF t, s, l, l1, l2, l3
<1>9. l3 = l + t(3)
  BY <1>1, <1>2, <1>3, <1>4, <1>5, <1>6, <1>7
<1> QED
  BY <1>3, <1>8, <1>9 DEF s, l, l3

\* What a visit passes on is in the queue and counted.
LEMMA TextsPassed ==
    ASSUME Types, At.job \in Jobs, NEW a \in Nat, NEW b \in Nat, NEW c \in Nat,
           Counted(<<a, b, c>>)
    PROVE  Passed(Queued(At.job, <<a, b, c>>), {At.job})
<1> DEFINE j == At.job
           sizes == <<a, b, c>>
           more == Cardinality({n \in 1..3 : sizes[n] > 0})
           q == Pushed(Pushed(Pushed(events[j], a), b), c)
<1>1. /\ events \in [Jobs -> Queues] /\ accepted \in [Jobs -> Nat]
      /\ \A i \in Jobs : accepted[i] \in Nat /\ Len(events[i].text) \in Nat
  BY QueueFields DEF Types
<1>2. CASE ~Deltas(j)
  <2>1. Queued(j, sizes) = events /\ accepted' = accepted
    BY <1>2 DEF Queued, Counted
  <2> QED BY <2>1, NothingPassed
<1>3. CASE Deltas(j)
  <2>1. Queued(j, sizes) = [events EXCEPT ![j] = q]
    BY <1>3 DEF Queued
  <2>2. accepted' = [accepted EXCEPT ![j] = accepted[j] + more]
    BY <1>3 DEF Counted
  <2>3. /\ q \in Queues /\ q.terminal = events[j].terminal
        /\ Len(q.text) = Len(events[j].text) + more
    <3> DEFINE e == events[j]
    <3>1. e \in Queues
      BY <1>1
    <3> HIDE DEF e
    <3>2. LET p == Pushed(Pushed(Pushed(e, a), b), c)
          IN  p \in Queues /\ p.terminal = e.terminal /\ Len(p.text) = Len(e.text) + more
      BY <3>1, PushedThree
    <3> QED BY <3>2 DEF e
  <2>4. more \in Nat
    <3>1. IsFiniteSet(Texted(sizes, 3)) /\ Cardinality(Texted(sizes, 3)) \in Nat
      BY TextedFinite
    <3> QED BY <3>1 DEF Texted
  <2> HIDE DEF q, more
  <2> DEFINE queues == Queued(j, sizes)
  <2>5. /\ queues \in [Jobs -> Queues] /\ queues[j] = q /\ \A i \in Jobs \ {j} : queues[i] = events[i]
    BY <1>1, <2>1, <2>3
  <2>6. /\ accepted' \in [Jobs -> Nat] /\ accepted'[j] = accepted[j] + more
        /\ \A i \in Jobs \ {j} : accepted'[i] = accepted[i]
    <3>1. accepted[j] + more \in Nat
      BY <1>1, <2>4
    <3> QED BY <1>1, <2>2, <3>1
  <2> HIDE DEF queues
  <2>7. accepted'[j] - Len(queues[j].text) = accepted[j] - Len(events[j].text)
    BY <1>1, <2>3, <2>4, <2>5, <2>6
  <2>8. ASSUME NEW i \in Jobs
        PROVE  /\ queues[i].terminal = events[i].terminal
               /\ accepted'[i] - Len(queues[i].text) = accepted[i] - Len(events[i].text)
               /\ i \notin {j} => queues[i] = events[i] /\ accepted'[i] = accepted[i]
    <3>1. CASE i = j
      BY <2>3, <2>5, <2>7, <3>1
    <3>2. CASE i # j
      BY <2>5, <2>6, <3>2
    <3> QED BY <3>1, <3>2
  <2>9. Passed(queues, {j})
    BY <2>5, <2>6, <2>8 DEF Passed
  <2> QED BY <2>9 DEF queues
<1> QED
  BY <1>2, <1>3

\* A visit that found room overflows nothing, whatever it passes on.
LEMMA RoomAccepts ==
    ASSUME Inv, Ready, NEW a \in Sizes, NEW b \in Sizes, NEW c \in Sizes
    PROVE  Accepts(At.job, <<a, b, c>>)
<1> DEFINE j == At.job
           q == events[j]
<1>1. j \in Jobs /\ promise[j] = NoReply
  BY AtActive DEF Ready, Serving, Visiting
<1>2. ASSUME Deltas(j)
      PROVE  Fits(q, a) /\ Fits(Pushed(q, a), b) /\ Fits(Pushed(Pushed(q, a), b), c)
  <2>1. j \in Streams
    BY <1>1, <1>2 DEF Deltas, Streams
  <2>2. Room(q) /\ q \in Queues
    BY <1>1, <2>1 DEF Ready, Full, Inv, Types
  <2>3. q.terminal = NoReply
    BY <1>1, <2>1 DEF Inv, StreamInv, Texts
  <2> HIDE DEF q
  <2> QED BY <2>2, <2>3, RoomForThree DEF Sizes
<1>3. <<a, b, c>>[1] = a /\ <<a, b, c>>[2] = b /\ <<a, b, c>>[3] = c
  OBVIOUS
<1> QED
  BY <1>2, <1>3 DEF Accepts

\* Reading one token, or none, leaves a request that exists.
LEMMA OneRead ==
    ASSUME Inv, cursor \in DOMAIN active
    PROVE  ReadOne \in E!Request /\ E!Exists(ReadOne)
<1> DEFINE r == engine[At.id]
           n == IF Unread THEN 1 ELSE 0
<1>1. r \in E!Request /\ E!Exists(r)
  BY AtActive
<1>2. n \in 0..1 /\ n <= Len(r.rest)
  <2>1. r.rest \in Seq({Token}) /\ Len(r.rest) \in Nat
    BY <1>1, RequestFields
  <2>2. r.rest # <<>> => Len(r.rest) >= 1
    BY <2>1
  <2> QED BY <2>1, <2>2 DEF Unread
<1> HIDE DEF r, n
<1>3. E!Read(r, n) \in E!Request /\ (E!Exists(E!Read(r, n)) <=> E!Exists(r))
  BY <1>1, <1>2, ReadRequest
<1> QED
  BY <1>1, <1>3 DEF r, n, ReadOne

\* The job is closed with the texts of the visit.
LEMMA CloseWithKeeps ==
    ASSUME Inv, Ready, NEW a \in Sizes, NEW b \in Sizes, NEW c \in Sizes,
           NEW reply \in {"ok", "failed"}, CloseWith(reply, <<a, b, c>>)
    PROVE  Inv'
<1> DEFINE sizes == <<a, b, c>>
           queues == Queued(At.job, sizes)
<1>1. cursor \in DOMAIN active /\ phase # "admit" /\ At.job \in Jobs
  BY AtActive DEF Ready, Serving, Visiting
<1>2. Close(reply, queues) /\ Counted(sizes)
  BY RoomAccepts DEF CloseWith
<1>3. a \in Nat /\ b \in Nat /\ c \in Nat
  BY QueueAssumption DEF Sizes
<1>4. Passed(queues, {At.job})
  BY <1>1, <1>2, <1>3, TextsPassed DEF Inv
<1>5. reply \in Replies \ {"overflow", "invalid"}
  BY DEF Replies
<1> HIDE DEF queues
<1> QED
  BY <1>1, <1>2, <1>4, <1>5, CloseKeeps

\* A text is passed on and the job stays.
LEMMA VisitTextKeeps ==
    ASSUME Inv, NEW size \in Sizes, VisitText(size)
    PROVE  Inv'
<1> DEFINE sizes == <<size, 0, 0>>
<1>1. Ready /\ Visiting /\ cursor \in DOMAIN active /\ 0 \in Sizes /\ size \in Nat
  BY QueueAssumption DEF VisitText, FromToken, Ready, Serving, Visiting, Sizes
<1>2. events' = Queued(At.job, sizes) /\ Counted(sizes) /\ KeepAs(ReadOne)
  BY <1>1, RoomAccepts DEF VisitText
<1>3. At.job \in Jobs /\ ReadOne \in E!Request /\ E!Exists(ReadOne)
  BY <1>1, AtActive, OneRead
<1>4. Passed(events', {At.job})
  BY <1>1, <1>2, <1>3, TextsPassed DEF Inv
<1> QED
  BY <1>1, <1>2, <1>3, <1>4, KeepKeeps

\* The text ended, or its request failed: the job is closed with the last texts.
LEMMA VisitEndKeeps ==
    ASSUME Inv,
           \/ \E size \in Sizes : VisitTextFails(size)
           \/ \E size \in Sizes, stopped \in BOOLEAN, flushed \in Sizes \X Sizes,
                 reply \in {"ok", "failed"} : VisitTextEnds(size, stopped, flushed, reply)
    PROVE  Inv'
<1>1. CASE \E size \in Sizes : VisitTextFails(size)
  <2>1. PICK size \in Sizes : VisitTextFails(size)
    BY <1>1
  <2>2. Ready /\ 0 \in Sizes /\ CloseWith("failed", <<size, 0, 0>>)
    BY <2>1, QueueAssumption DEF VisitTextFails, FromToken, Sizes
  <2> QED BY <2>2, CloseWithKeeps
<1>2. CASE \E size \in Sizes, stopped \in BOOLEAN, flushed \in Sizes \X Sizes,
              reply \in {"ok", "failed"} : VisitTextEnds(size, stopped, flushed, reply)
  <2>1. PICK size \in Sizes, stopped \in BOOLEAN, flushed \in Sizes \X Sizes,
             reply \in {"ok", "failed"} : VisitTextEnds(size, stopped, flushed, reply)
    BY <1>2
  <2>2. Ready /\ CloseWith(reply, <<size, flushed[1], flushed[2]>>)
    BY <2>1 DEF VisitTextEnds, FromToken
  <2>3. flushed[1] \in Sizes /\ flushed[2] \in Sizes
    OBVIOUS
  <2> QED BY <2>2, <2>3, CloseWithKeeps
<1> QED
  BY <1>1, <1>2

\* Nothing can be passed on yet.
LEMMA VisitKeepKeeps ==
    ASSUME Inv, VisitFull \/ VisitDecision
    PROVE  Inv'
<1>1. Visiting /\ cursor \in DOMAIN active /\ events' = events /\ accepted' = accepted
  BY DEF VisitFull, VisitDecision, Ready, Serving, Visiting
<1>2. Passed(events', {At.job})
  BY <1>1, NothingPassed DEF Inv
<1>3. \E r \in E!Request : E!Exists(r) /\ KeepAs(r)
  BY <1>1, AtActive, OneRead DEF VisitFull, VisitDecision
<1> QED
  BY <1>1, <1>2, <1>3, KeepKeeps

\* The job is closed without a text.
LEMMA VisitCloseKeeps ==
    ASSUME Inv,
           \/ VisitLate \/ VisitCancelled \/ VisitUndecodable \/ VisitDecisionFails
           \/ \E reply \in {"ok", "failed", "cancelled"} : DecisionEnds(reply)
    PROVE  Inv'
<1>1. cursor \in DOMAIN active /\ phase # "admit"
  BY DEF VisitLate, VisitCancelled, VisitUndecodable, VisitDecisionFails, DecisionEnds, Ready,
         Serving, Visiting, Inv, Phases
<1>2. accepted' = accepted
  BY DEF VisitLate, VisitCancelled, VisitUndecodable, VisitDecisionFails, DecisionEnds
<1>3. PICK reply \in {"late", "cancelled", "failed", "ok"} : Close(reply, events)
  BY DEF VisitLate, VisitCancelled, VisitUndecodable, VisitDecisionFails, DecisionEnds
<1>4. reply \in Replies \ {"overflow", "invalid"}
  BY DEF Replies
<1>5. Passed(events, {At.job})
  BY <1>2, NothingPassed DEF Inv
<1> QED
  BY <1>1, <1>3, <1>4, <1>5, CloseKeeps

\* A decision whose question was evaluated is answered next.
LEMMA VisitAnsweredKeeps ==
    ASSUME Inv, VisitAnswered
    PROVE  Inv'
<1>1. /\ cursor \in DOMAIN active /\ phase = "visit" /\ kind[At.job] = "decision"
      /\ engine' = [engine EXCEPT ![At.id] = ReadOne] /\ phase' = "answer"
      /\ UNCHANGED <<kind, http, wire, late, cancelled, pending, outstanding, stopping, answers, accepted,
                     stopSeen, taken, active, cursor, question>>
  BY DEF VisitAnswered, Ready, Serving, Visiting, clients, shared
<1>2. /\ At.id \in ActiveIds /\ At.id \in Ids
      /\ ReadOne \in E!Request /\ E!Exists(ReadOne)
  BY <1>1, AtActive, OneRead
<1>3. ActiveJobs' = ActiveJobs /\ At' = At
  BY <1>1 DEF ActiveJobs, At
<1>4. NewInv' /\ StreamInv' /\ Unanswered' = Unanswered
  BY <1>1, <1>3, SameJobs
<1>5. engine \in [Ids -> E!Request]
  BY DEF Inv, Types
<1>6. Types'
  <2>1. engine' \in [Ids -> E!Request]
    BY <1>1, <1>2, <1>5
  <2> QED BY <1>1, <2>1 DEF Inv, Types, answers
<1>7. Placed'
  BY <1>1, <1>3, <1>4 DEF Inv, Placed
<1>8. Counts'
  BY <1>1, <1>4 DEF Inv, Counts
<1>9. Phases'
  BY <1>1, <1>3 DEF Inv, Phases
<1>10. Served'
  <2>1. \A i \in Ids : i \notin ActiveIds => engine'[i] = engine[i]
    BY <1>1, <1>2, <1>5
  <2>2. \A i \in ActiveIds : E!Exists(engine'[i])
    BY <1>1, <1>2, <1>5, ActiveId DEF Inv, Served
  <2> QED BY <1>1, <2>1, <2>2, ServedEngine DEF answers
<1> QED
  BY <1>4, <1>6, <1>7, <1>8, <1>9, <1>10 DEF Inv

\* The active jobs after the request of the n-th was replaced.
LEMMA WithNewId ==
    ASSUME Types, Placed, Served, NEW n \in DOMAIN active, NEW id \in Ids,
           active' = [active EXCEPT ![n].id = id]
    PROVE  /\ active' \in Seq([job : Jobs, id : Ids])
           /\ DOMAIN active' = DOMAIN active
           /\ \A m \in DOMAIN active : /\ active'[m].job = active[m].job
                                       /\ m # n => active'[m].id = active[m].id
           /\ active'[n].id = id
           /\ ActiveJobs' = ActiveJobs
           /\ ActiveIds' = (ActiveIds \ {active[n].id}) \cup {id}
<1> DEFINE T == [job : Jobs, id : Ids]
           x == [active[n] EXCEPT !.id = id]
<1>1. active \in Seq(T)
  BY DEF Types
<1>2. active[n] \in T
  <2> HIDE DEF T
  <2> QED BY <1>1
<1>3. x \in T /\ x.job = active[n].job /\ x.id = id /\ active' = [active EXCEPT ![n] = x]
  BY <1>2
<1> HIDE DEF T, x
<1>4. /\ active' \in Seq(T) /\ DOMAIN active' = DOMAIN active
      /\ active'[n] = x /\ \A m \in DOMAIN active \ {n} : active'[m] = active[m]
  BY <1>1, <1>3
<1>5. \A m \in DOMAIN active : active'[m].job = active[m].job
  BY <1>3, <1>4
<1>6. ActiveJobs' = ActiveJobs
  BY <1>4, <1>5 DEF ActiveJobs
<1>7. \A m \in DOMAIN active \ {n} : active[m].id # active[n].id
  BY DEF Placed, Served
<1>8. ActiveIds' = (ActiveIds \ {active[n].id}) \cup {id}
  <2>1. ActiveIds' \subseteq (ActiveIds \ {active[n].id}) \cup {id}
    BY <1>3, <1>4, <1>7 DEF ActiveIds
  <2>2. (ActiveIds \ {active[n].id}) \cup {id} \subseteq ActiveIds'
    BY <1>3, <1>4 DEF ActiveIds
  <2> QED BY <2>1, <2>2
<1> QED
  BY <1>3, <1>4, <1>5, <1>6, <1>8 DEF T

\* The next question of a decision is a new request; the answered one is gone.
LEMMA NextQuestionKeeps ==
    ASSUME Inv, NextQuestion
    PROVE  Inv'
<1> DEFINE j == At.job
           old == At.id
           id == <<j, question[j] + 1>>
<1>1. /\ phase = "answer" /\ question[j] < Questions
      /\ engine' = [engine EXCEPT ![old] = E!Released, ![id] = E!Begun]
      /\ active' = [active EXCEPT ![cursor].id = id]
      /\ question' = [question EXCEPT ![j] = question[j] + 1]
      /\ cursor' = cursor + 1 /\ phase' = "visit"
      /\ UNCHANGED <<kind, http, wire, late, cancelled, pending, outstanding, stopping, answers, accepted,
                     stopSeen, taken>>
  BY DEF NextQuestion, GoesOn, clients, shared
<1>2. cursor \in DOMAIN active /\ taken = <<>>
  BY <1>1 DEF Inv, Phases
<1>3. /\ j \in Jobs /\ j \in ActiveJobs /\ old \in ActiveIds /\ old \in Ids
      /\ old = <<j, question[j]>> /\ promise[j] = NoReply
  BY <1>2, AtActive
<1>4. question[j] + 1 \in 1..Questions /\ question[j] \in Nat /\ question[j] + 1 > question[j]
  <2>1. question[j] \in 1..Questions /\ Questions \in Nat
    BY <1>3, ServiceAssumption DEF Inv, Types
  <2> QED BY <1>1, <2>1
<1>5. id \in Ids /\ id[1] = j /\ id[2] = question[j] + 1 /\ old[1] = j /\ old[2] = question[j] /\ old # id
  BY <1>3, <1>4 DEF Ids
<1>6. active[cursor].id = old /\ active[cursor].job = j
  BY DEF At
<1> HIDE DEF j, old, id
<1>7. /\ active' \in Seq([job : Jobs, id : Ids])
      /\ DOMAIN active' = DOMAIN active
      /\ \A m \in DOMAIN active : /\ active'[m].job = active[m].job
                                  /\ m # cursor => active'[m].id = active[m].id
      /\ active'[cursor].id = id
      /\ ActiveJobs' = ActiveJobs
      /\ ActiveIds' = (ActiveIds \ {old}) \cup {id}
  BY <1>1, <1>2, <1>5, <1>6, WithNewId DEF Inv
<1>8. NewInv' /\ StreamInv' /\ Unanswered' = Unanswered
  BY <1>1, <1>7, SameJobs
<1>9. question \in [Jobs -> 1..Questions] /\ engine \in [Ids -> E!Request]
  BY DEF Inv, Types
<1>10. /\ question'[j] = question[j] + 1
       /\ \A i \in Jobs \ {j} : question'[i] = question[i]
       /\ question' \in [Jobs -> 1..Questions]
  BY <1>1, <1>3, <1>4, <1>9
<1>11. /\ engine'[old] = E!Released /\ engine'[id] = E!Begun
       /\ \A i \in Ids \ {old, id} : engine'[i] = engine[i]
       /\ engine' \in [Ids -> E!Request]
  BY <1>1, <1>3, <1>5, <1>9, FreshRequests
<1>12. Types'
  <2>1. cursor \in Nat \ {0} /\ cursor' = cursor + 1
    BY <1>1 DEF Inv, Types
  <2>2. cursor' \in Nat \ {0}
    BY <2>1
  <2> QED BY <1>1, <1>7, <1>10, <1>11, <2>2 DEF Inv, Types, answers
<1>13. Placed'
  BY <1>1, <1>7, <1>8 DEF Inv, Placed
<1>14. Counts'
  BY <1>1, <1>8 DEF Inv, Counts
<1>15. Phases'
  BY <1>1, <1>2 DEF Phases
<1>16. Served'
  <2>1. ASSUME NEW n \in DOMAIN active'
        PROVE  active'[n].id = <<active'[n].job, question'[active'[n].job]>>
    <3>1. CASE n = cursor
      BY <1>2, <1>6, <1>7, <1>10, <3>1 DEF id
    <3>2. CASE n # cursor
      <4>1. active[n].job # j /\ active[n].job \in ActiveJobs
        BY <1>2, <1>6, <1>7, <3>2 DEF Inv, Placed, ActiveJobs
      <4>2. active[n].job \in Jobs
        BY <4>1 DEF Inv, Placed, Unanswered, Enqueued
      <4>3. active[n].id = <<active[n].job, question[active[n].job]>>
        BY <1>7 DEF Inv, Served
      <4> QED BY <1>7, <1>10, <3>2, <4>1, <4>2, <4>3
    <3> QED BY <3>1, <3>2
  <2>2. \A i \in Ids : E!Exists(engine'[i]) <=> i \in ActiveIds'
    BY <1>5, <1>7, <1>11, FreshRequests DEF Inv, Served
  <2>3. \A i \in Jobs : promise'[i] = NoReply /\ i \notin ActiveJobs' => question'[i] = 1
    BY <1>1, <1>3, <1>7, <1>10 DEF Inv, Served, answers
  <2>4. ASSUME NEW i \in Ids, i[2] > question'[i[1]]
        PROVE  engine'[i] = E!Unused
    <3>1. i[1] \in Jobs /\ i[2] \in Nat /\ question[i[1]] \in Nat
      BY <1>9 DEF Ids
    <3>2. i[1] # j => i # old /\ i # id /\ i[2] > question[i[1]]
      BY <1>5, <1>10, <2>4, <3>1
    <3>3. i[1] = j => i # old /\ i # id /\ i[2] > question[i[1]]
      BY <1>4, <1>5, <1>10, <2>4, <3>1
    <3> QED BY <1>11, <3>2, <3>3 DEF Inv, Served
  <2>5. \A i \in Ids : promise'[i[1]] = NoReply /\ i[1] \notin ActiveJobs' => engine'[i] = E!Unused
    BY <1>1, <1>3, <1>5, <1>7, <1>11 DEF Inv, Served, answers
  <2> QED BY <2>1, <2>2, <2>3, <2>4, <2>5 DEF Served
<1> QED
  BY <1>8, <1>12, <1>13, <1>14, <1>15, <1>16 DEF Inv

\* The worker leaves.
LEMMA ExitKeeps ==
    ASSUME Inv, Exit
    PROVE  Inv'
<1>1. /\ taken = <<>> /\ phase' = "exited"
      /\ UNCHANGED <<kind, http, wire, late, cancelled, pending, outstanding, stopping, answers, accepted,
                     stopSeen, taken, active, cursor, question, engine>>
  BY DEF Exit, RoundEnded, Inv, Phases, clients, shared
<1>2. ActiveJobs' = ActiveJobs /\ ActiveIds' = ActiveIds
  BY <1>1 DEF ActiveJobs, ActiveIds
<1>3. NewInv' /\ StreamInv' /\ Unanswered' = Unanswered
  BY <1>1, <1>2, SameJobs
<1>4. Types'
  BY <1>1 DEF Inv, Types, answers
<1>5. Placed' /\ Counts'
  BY <1>1, <1>2, <1>3 DEF Inv, Placed, Counts
<1>6. Phases'
  BY <1>1 DEF Phases
<1>7. Served'
  BY <1>1, <1>2 DEF Inv, Served, answers
<1> QED
  BY <1>3, <1>4, <1>5, <1>6, <1>7 DEF Inv

\* The invariant holds when nothing was dispatched yet.
LEMMA InitInv == Init => Inv
<1> SUFFICES ASSUME Init PROVE Inv
  OBVIOUS
<1>1. /\ kind \in Kinds
      /\ http = [j \in Jobs |-> "new"] /\ wire = [j \in Jobs |-> <<>>]
      /\ cancelled = [j \in Jobs |-> FALSE] /\ late = [j \in Jobs |-> FALSE]
      /\ admitted = [j \in Jobs |-> NoReply] /\ promise = [j \in Jobs |-> NoReply]
      /\ events = [j \in Jobs |-> EmptyQueue] /\ accepted = [j \in Jobs |-> 0]
      /\ pending = <<>> /\ outstanding = 0 /\ stopping = FALSE
      /\ phase = "visit" /\ stopSeen = FALSE /\ taken = <<>>
      /\ active = <<>> /\ cursor = 1 /\ question = [j \in Jobs |-> 1]
      /\ engine = [i \in Ids |-> E!Unused]
  BY DEF Init, E!Init
<1>2. EmptyQueue \in Queues
  <2>1. <<>> \in Seq(Nat) /\ NoReply \in Answers
    BY DEF Answers
  <2> QED BY <2>1 DEF EmptyQueue, Queues
<1>3. Types
  <2>1. kind \in [Jobs -> Requests]
    BY <1>1, ServiceAssumption DEF Requests
  <2>2. 1 \in 1..Questions /\ 1 \in Nat \ {0}
    BY ServiceAssumption
  <2>3. active \in Seq([job : Jobs, id : Ids]) /\ pending \in Seq(Jobs) /\ taken \in Seq(Jobs)
        /\ wire \in [Jobs -> Seq(Sent)]
    BY <1>1
  <2>4. engine \in [Ids -> E!Request]
    BY <1>1, FreshRequests
  <2>5. admitted \in [Jobs -> Answers] /\ promise \in [Jobs -> Answers]
    BY <1>1 DEF Answers
  <2>6. /\ http \in [Jobs -> {"new", "waiting", "streaming", "ending", "done"}]
        /\ cancelled \in [Jobs -> BOOLEAN] /\ late \in [Jobs -> BOOLEAN]
        /\ accepted \in [Jobs -> Nat]
    BY <1>1
  <2>8. /\ outstanding \in Int /\ stopping \in BOOLEAN /\ stopSeen \in BOOLEAN
        /\ phase \in {"visit", "admit", "answer", "exited"}
    <3>1. outstanding = 0 /\ stopping = FALSE /\ stopSeen = FALSE /\ phase = "visit"
      BY <1>1
    <3>2. stopping \in BOOLEAN /\ stopSeen \in BOOLEAN
      BY <3>1
    <3>3. outstanding \in Int
      BY <3>1
    <3>4. phase \in {"visit", "admit", "answer", "exited"}
      BY <3>1
    <3> QED BY <3>2, <3>3, <3>4
  <2>7. events \in [Jobs -> Queues] /\ question \in [Jobs -> 1..Questions] /\ cursor \in Nat \ {0}
    BY <1>1, <1>2, <2>2
  <2> QED BY <2>1, <2>3, <2>4, <2>5, <2>6, <2>7, <2>8 DEF Types
<1>4. ActiveJobs = {} /\ ActiveIds = {} /\ DOMAIN active = {}
  BY <1>1 DEF ActiveJobs, ActiveIds
<1>5. Unanswered = {}
  BY <1>1 DEF Unanswered, Enqueued
<1>6. Elements(<<>>) = {} /\ Distinct(<<>>)
  BY DEF Elements, Distinct
<1>7. Placed
  BY <1>1, <1>4, <1>5, <1>6 DEF Placed
<1>8. Counts
  BY <1>1, <1>5, FS_EmptySet DEF Counts
<1>9. Phases
  BY <1>1 DEF Phases
<1>10. Served
  <2>1. \A i \in Ids : i[1] \in Jobs /\ engine[i] = E!Unused
    BY <1>1 DEF Ids
  <2> QED BY <1>1, <1>4, <2>1, FreshRequests DEF Served
<1>11. \A j \in Jobs : wire[j] = <<>> /\ http[j] = "new" /\ events[j] = EmptyQueue /\ accepted[j] = 0
                     /\ admitted[j] = NoReply /\ promise[j] = NoReply
  BY <1>1
<1>12. NewInv
  BY <1>11 DEF NewInv, New
<1>13. StreamInv
  <2>1. ASSUME NEW j \in Streams
        PROVE  Admission(j) /\ Wire(j) /\ Texts(j)
    <3>1. j \in Jobs
      BY DEF Streams
    <3>2. Ended(j) = {} /\ \A what : Written(j, what) = {}
      <4>1. DOMAIN wire[j] = {}
        BY <1>11, <3>1
      <4>2. \A what : Written(j, what) = {}
        BY <4>1 DEF Written
      <4> QED BY <4>2 DEF Ended
    <3>3. Admission(j)
      BY <1>11, <3>1 DEF Admission, NoReply
    <3>4. Wire(j)
      BY <1>11, <3>1, <3>2 DEF Wire
    <3>5. Texts(j)
      <4>1. Len(events[j].text) = 0 /\ events[j].terminal = NoReply
        BY <1>11, <3>1 DEF EmptyQueue
      <4>2. Cardinality(Written(j, "text")) = 0
        BY <3>2, FS_EmptySet
      <4> QED BY <1>11, <3>1, <4>1, <4>2 DEF Texts
    <3> QED BY <3>3, <3>4, <3>5
  <2> QED BY <2>1 DEF StreamInv
<1> QED
  BY <1>3, <1>7, <1>8, <1>9, <1>10, <1>12, <1>13 DEF Inv

\* A step that changes nothing keeps it.
LEMMA StutterKeeps ==
    ASSUME Inv, UNCHANGED vars
    PROVE  Inv'
<1>1. UNCHANGED <<kind, http, wire, late, cancelled, pending, outstanding, stopping, answers, accepted, phase,
                  stopSeen, taken, active, cursor, question, engine>>
  BY DEF vars, clients, shared, worker
<1>2. Types'
  BY <1>1 DEF Inv, Types, answers
<1> QED
  BY <1>1, <1>2, QuietKeeps

\* So does every action of a client's thread and of the worker.
LEMMA NextKeeps ==
    ASSUME Inv, Next
    PROVE  Inv'
<1>1. CASE \E j \in Jobs : Enqueue(j) \/ Refuse(j) \/ GiveUp(j) \/ Disconnect(j) \/ Http(j) \/ TimePasses(j)
  <2>1. PICK j \in Jobs : Enqueue(j) \/ Refuse(j) \/ GiveUp(j) \/ Disconnect(j) \/ Http(j) \/ TimePasses(j)
    BY <1>1
  <2> QED BY <2>1, EnqueueKeeps, RefuseKeeps, GiveUpKeeps, DisconnectKeeps, TimePassesKeeps,
             ReplyKeeps, WriteTextKeeps, WriteErrorKeeps, WriteEndKeeps DEF Http
<1>2. CASE Stop
  BY <1>2, StopKeeps
<1>3. CASE Visit
  BY <1>3, VisitCloseKeeps, VisitKeepKeeps, VisitTextKeeps, VisitEndKeeps, VisitAnsweredKeeps,
     NextQuestionKeeps DEF Visit
<1>4. CASE Work
  BY <1>3, <1>4, SwapKeeps, AdmitAnsweredKeeps, AdmitSubmittedKeeps, StepKeeps, StepFailsKeeps,
     ExitKeeps DEF Work
<1> QED
  BY <1>1, <1>2, <1>4 DEF Next

\* Each job is in one place, served by one request, and its stream in order, in
\* every state.
THEOREM ServiceInvariant == Spec => []Inv
<1>1. Inv /\ [Next]_vars => Inv'
  BY NextKeeps, StutterKeeps
<1> QED
  BY InitInv, <1>1, PTL DEF Spec

-----------------------------------------------------------------------------
(* What it means for the clients and the engine.                            *)

\* The counter by which clients are turned away counts the jobs that wait for an
\* answer, each once (OutstandingExact).
THEOREM OutstandingIsExact == Spec => []OutstandingExact
<1>1. Inv => OutstandingExact
  BY DEF Inv, Counts, Unanswered, OutstandingExact
<1> QED
  BY ServiceInvariant, <1>1, PTL

\* The worker serves as many requests as jobs.
LEMMA IdsPerJob ==
    ASSUME Inv
    PROVE  Cardinality(ActiveIds) = Len(active)
<1> DEFINE n == Len(active)
           f == [k \in 1..n |-> active[k].id]
<1>1. n \in Nat /\ DOMAIN active = 1..n
  BY DEF Inv, Types
<1>2. f \in Bijection(1..n, ActiveIds)
  <2>1. \A k, l \in 1..n : active[k].id = active[l].id => k = l
    BY <1>1 DEF Inv, Placed, Served
  <2>2. \A k \in 1..n : active[k].id \in ActiveIds
    BY <1>1 DEF ActiveIds
  <2>3. \A i \in ActiveIds : \E k \in 1..n : active[k].id = i
    BY <1>1 DEF ActiveIds
  <2> HIDE DEF n
  <2> QED BY <2>1, <2>2, <2>3 DEF Bijection, Injection, Surjection, IsInjective
<1>3. IsFiniteSet(1..n) /\ Cardinality(1..n) = n
  <2> HIDE DEF n
  <2>1. IsFiniteSet(1..n) /\ Cardinality(1..n) = IF 1 > n THEN 0 ELSE n - 1 + 1
    BY <1>1, FS_Interval
  <2> QED BY <1>1, <2>1
<1> HIDE DEF f, n
<1>4. ExistsBijection(1..n, ActiveIds)
  BY <1>2 DEF ExistsBijection
<1>5. Cardinality(ActiveIds) = n
  BY <1>3, <1>4, FS_Bijection
<1> QED
  BY <1>5 DEF n

\* The engine holds a request for each job being served, and no other
\* (NothingLeaked).
THEOREM NothingIsLeaked == Spec => []NothingLeaked
<1>1. Inv => NothingLeaked
  <2> SUFFICES ASSUME Inv PROVE NothingLeaked
    OBVIOUS
  <2>1. \A j \in ActiveJobs : promise[j] = NoReply
    BY DEF Inv, Placed, Unanswered
  <2> QED BY <2>1, IdsPerJob DEF Inv, Served, NothingLeaked
<1> QED
  BY ServiceInvariant, <1>1, PTL

\* A stream's client sees its text, all of it and in order, before the end, and a
\* failure after the headers as an error alone (StreamsIntact).
THEOREM StreamsAreIntact == Spec => []StreamsIntact
<1>1. Inv => StreamsIntact
  <2> SUFFICES ASSUME Inv, NEW j \in Streams
               PROVE  promise[j] # "overflow" /\
        LET w == wire[j]
            opened == Written(j, "open") # {}
            ended == Written(j, "error") \cup Written(j, "calls")
                        \cup Written(j, "finish") \cup Written(j, "done")
        IN  /\ opened => w[1] = "open" /\ promise[j] # "invalid"
            /\ Written(j, "error") # {} => w[Len(w)] = "error" /\ promise[j] # "ok"
                                          /\ Cardinality(ended) = 1
            /\ ended \ Written(j, "error") # {} => promise[j] = "ok"
            /\ accepted[j] = Cardinality(Written(j, "text")) + Len(events[j].text)
            /\ ended # {} => Cardinality(Written(j, "text")) = accepted[j]
    BY DEF StreamsIntact
  <2>1. Admission(j) /\ Wire(j) /\ Texts(j)
    BY DEF Inv, StreamInv
  <2>2. ASSUME Ended(j) # {}
        PROVE  Cardinality(Written(j, "text")) = accepted[j]
    <3>1. Len(events[j].text) = 0
      BY <2>1, <2>2 DEF Wire
    <3>2. Cardinality(Written(j, "text")) \in Nat
      <4>1. j \in Jobs /\ wire[j] \in Seq(Sent)
        BY DEF Streams, Inv, Types
      <4> QED BY <4>1, WrittenAs, PositionsFinite
    <3> QED BY <2>1, <3>1, <3>2 DEF Texts
  <2> QED BY <2>1, <2>2 DEF Admission, Wire, Texts, Ended
<1> QED
  BY ServiceInvariant, <1>1, PTL

-----------------------------------------------------------------------------
(* What a step may not do.                                                  *)

\* A step that adds no active request begins none.
LEMMA NoneBegun ==
    ASSUME Inv, Inv', ActiveIds' \subseteq ActiveIds
    PROVE  \A i \in Ids : E!Exists(engine'[i]) => E!Exists(engine[i])
  BY DEF Inv, Served

\* The steps that submit a request submit one that was never used.
LEMMA BegunFresh ==
    ASSUME Inv, Inv', AdmitSubmitted \/ NextQuestion
    PROVE  \A i \in Ids : ~E!Exists(engine[i]) /\ E!Exists(engine'[i]) => engine[i] = E!Unused
<1>1. engine \in [Ids -> E!Request]
  BY DEF Inv, Types
<1>2. CASE AdmitSubmitted
  <2> DEFINE id == <<Job, 1>>
  <2>1. Job \in Jobs /\ Job \notin ActiveJobs /\ promise[Job] = NoReply
    BY <1>2, JobTaken DEF AdmitSubmitted
  <2>2. id[1] = Job /\ engine' = [engine EXCEPT ![id] = E!Begun]
    BY <1>2 DEF AdmitSubmitted, Submit
  <2> HIDE DEF id
  <2>3. \A i \in Ids \ {id} : engine'[i] = engine[i]
    BY <1>1, <2>2
  <2>4. id \in Ids => engine[id] = E!Unused
    BY <2>1, <2>2 DEF Inv, Served
  <2> QED BY <2>3, <2>4
<1>3. CASE NextQuestion
  <2> DEFINE id == <<At.job, question[At.job] + 1>>
             old == At.id
  <2>1. cursor \in DOMAIN active
    BY <1>3 DEF NextQuestion, Inv, Phases
  <2>2. At.job \in Jobs /\ question[At.job] \in Nat
    <3>1. At.job \in Jobs
      BY <2>1, AtActive
    <3>2. question \in [Jobs -> 1..Questions]
      BY DEF Inv, Types
    <3> QED BY <3>1, <3>2
  <2>3. /\ id[1] = At.job /\ id[2] > question[At.job]
        /\ engine' = [engine EXCEPT ![old] = E!Released, ![id] = E!Begun]
    BY <1>3, <2>2 DEF NextQuestion
  <2> HIDE DEF id, old
  <2>4. \A i \in Ids \ {id, old} : engine'[i] = engine[i]
    BY <1>1, <2>3
  <2>5. id \in Ids => engine[id] = E!Unused
    BY <2>3 DEF Inv, Served
  <2>6. E!Exists(engine[old])
    BY <2>1, AtActive DEF old
  <2> QED BY <2>4, <2>5, <2>6
<1> QED
  BY <1>2, <1>3

\* An engine request is submitted once: no job and no question ever meets what an
\* earlier one left behind.
BegunOnce ==
    [][\A i \in Ids : ~E!Exists(engine[i]) /\ E!Exists(engine'[i]) => engine[i] = E!Unused]_vars

\* A reply is final: a promise that was set twice would throw in the worker.
RepliesOnce == [][\A j \in Jobs : promise[j] # NoReply => promise'[j] = promise[j]]_vars

\* What a step makes of the active requests and of the replies.
LEMMA NextAnswers ==
    ASSUME Inv, Inv', Next
    PROVE  /\ \A i \in Ids : ~E!Exists(engine[i]) /\ E!Exists(engine'[i]) => engine[i] = E!Unused
           /\ \A j \in Jobs : promise[j] # NoReply => promise'[j] = promise[j]
<1> DEFINE Fresh == \A i \in Ids : ~E!Exists(engine[i]) /\ E!Exists(engine'[i]) => engine[i] = E!Unused
           Final == \A j \in Jobs : promise[j] # NoReply => promise'[j] = promise[j]
<1>1. ASSUME UNCHANGED <<promise, active>>
      PROVE  Fresh /\ Final
  <2>1. ActiveIds' = ActiveIds
    BY <1>1 DEF ActiveIds
  <2> QED BY <1>1, <2>1, NoneBegun
<1>2. ASSUME NEW F \in SUBSET Unanswered, NEW reply, NEW queues, Finish(F, reply, queues)
      PROVE  Final
  BY <1>2 DEF Finish, Unanswered
<1>3. ASSUME cursor \in DOMAIN active, NEW reply, NEW queues, Close(reply, queues)
      PROVE  Fresh /\ Final
  <2>1. {At.job} \in SUBSET Unanswered
    BY <1>3, AtActive
  <2>2. ActiveIds' \subseteq ActiveIds
    BY <1>3, WithoutOne DEF Close, Inv
  <2>3. Finish({At.job}, reply, queues)
    BY <1>3 DEF Close
  <2> QED BY <1>2, <2>1, <2>2, <2>3, NoneBegun
<1>4. CASE \E j \in Jobs : Enqueue(j) \/ Refuse(j) \/ GiveUp(j) \/ Disconnect(j) \/ Http(j) \/ TimePasses(j)
  <2>1. UNCHANGED <<promise, active>>
    BY <1>4 DEF Enqueue, Refuse, GiveUp, Disconnect, Http, Reply, WriteText, WriteError, WriteEnd,
               TimePasses, answers, worker
  <2> QED BY <1>1, <2>1
<1>5. CASE Stop \/ Swap \/ Step \/ Exit \/ VisitAnswered \/ VisitFull \/ VisitDecision
  <2>1. UNCHANGED <<promise, active>>
    BY <1>5 DEF Stop, Swap, Step, Exit, VisitAnswered, VisitFull, VisitDecision, KeepAs, answers, worker
  <2> QED BY <1>1, <2>1
<1>6. CASE AdmitSubmitted \/ NextQuestion
  <2>1. UNCHANGED promise
    BY <1>6 DEF AdmitSubmitted, NextQuestion, answers
  <2> QED BY <1>6, <2>1, BegunFresh
<1>7. CASE \E reply \in {"ok", "invalid", "cancelled", "failed"} : AdmitAnswered(reply)
  <2>1. PICK reply : AdmitAnswered(reply)
    BY <1>7
  <2>2. {Job} \in SUBSET Unanswered
    BY <2>1, JobTaken DEF AdmitAnswered
  <2>3. ActiveIds' = ActiveIds
    BY <2>1 DEF AdmitAnswered, ActiveIds
  <2>4. Finish({Job}, reply, events)
    BY <2>1 DEF AdmitAnswered
  <2> QED BY <1>2, <2>2, <2>3, <2>4, NoneBegun
<1>8. CASE StepFails
  <2>1. ActiveJobs \in SUBSET Unanswered
    BY DEF Inv, Placed
  <2>2. DOMAIN active' = {}
    BY <1>8 DEF StepFails
  <2>3. ActiveIds' = {}
    BY <2>2 DEF ActiveIds
  <2>4. Finish(ActiveJobs, "failed", events)
    BY <1>8 DEF StepFails
  <2> QED BY <1>2, <2>1, <2>3, <2>4, NoneBegun
<1>9. CASE \/ VisitLate \/ VisitCancelled \/ VisitUndecodable \/ VisitDecisionFails
           \/ \E reply \in {"ok", "failed", "cancelled"} : DecisionEnds(reply)
  <2>1. cursor \in DOMAIN active
    BY <1>9 DEF VisitLate, VisitCancelled, VisitUndecodable, VisitDecisionFails, DecisionEnds, Ready,
               Serving, Visiting, Inv, Phases
  <2>2. \E reply : Close(reply, events)
    BY <1>9 DEF VisitLate, VisitCancelled, VisitUndecodable, VisitDecisionFails, DecisionEnds
  <2> QED BY <1>3, <2>1, <2>2
<1>10. CASE \/ \E size \in Sizes : VisitText(size) \/ VisitTextFails(size)
            \/ \E size \in Sizes, stopped \in BOOLEAN, flushed \in Sizes \X Sizes,
                  reply \in {"ok", "failed"} : VisitTextEnds(size, stopped, flushed, reply)
  <2>1. cursor \in DOMAIN active
    BY <1>10 DEF VisitText, VisitTextFails, VisitTextEnds, FromToken, Ready, Serving, Visiting
  <2>2. (\E reply, queues : Close(reply, queues)) \/ KeepAs(ReadOne)
    BY <1>10 DEF VisitText, VisitTextFails, VisitTextEnds, CloseWith, Overflow
  <2>3. KeepAs(ReadOne) => UNCHANGED <<promise, active>>
    BY DEF KeepAs
  <2> QED BY <1>1, <1>3, <2>1, <2>2, <2>3
<1>11. CASE Visit
  BY <1>5, <1>6, <1>9, <1>10, <1>11 DEF Visit
<1>12. CASE Work
  BY <1>5, <1>6, <1>7, <1>8, <1>11, <1>12 DEF Work
<1> QED
  BY <1>4, <1>5, <1>12 DEF Next

\* No engine request is submitted twice (BegunOnce), and none of a job's promises
\* and queues gets a second end (RepliesOnce).
THEOREM NothingTwice == Spec => BegunOnce /\ RepliesOnce
<1> DEFINE Fresh == \A i \in Ids : ~E!Exists(engine[i]) /\ E!Exists(engine'[i]) => engine[i] = E!Unused
           Final == \A j \in Jobs : promise[j] # NoReply => promise'[j] = promise[j]
<1>1. Inv /\ Inv' /\ [Next]_vars => [Fresh /\ Final]_vars
  BY NextAnswers
<1>2. Spec => [][Fresh]_vars /\ [][Final]_vars
  BY ServiceInvariant, <1>1, PTL DEF Spec
<1> QED
  BY <1>2 DEF BegunOnce, RepliesOnce
=============================================================================
