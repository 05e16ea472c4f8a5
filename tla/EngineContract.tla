--------------------------- MODULE EngineContract ---------------------------
(***************************************************************************)
(* What CpuEngine promises its owner about a request, whatever happens      *)
(* inside: tokens handed out are never taken back, an end is final, and an  *)
(* ID that was released never comes back.  CpuEngine implements this, and    *)
(* Service is written against it.                                           *)
(***************************************************************************)
EXTENDS Naturals, Sequences

CONSTANTS
    Ids,        \* the request IDs
    Vocab       \* the tokens

VARIABLE engine

Ends == {"complete", "cancelled", "failed"}

\* delivered was read; rest is what reading could still return.
Request == [status : {"unused", "working", "released"} \cup Ends,
            delivered : Seq(Vocab), rest : Seq(Vocab)]

Unused == [status |-> "unused", delivered |-> <<>>, rest |-> <<>>]
Released == [Unused EXCEPT !.status = "released"]
Begun == [Unused EXCEPT !.status = "working"]

Exists(r) == r.status \in {"working"} \cup Ends

\* A step may do anything to the unread tokens of a request it works on.
Advances(r, s) ==
    /\ r.status = "working" /\ s.status \in {"working", "complete", "failed"}
    /\ s.delivered = r.delivered

Cancelled(r) == IF r.status = "working" THEN [r EXCEPT !.status = "cancelled"] ELSE r

\* The next n unread tokens are handed out.
Read(r, n) ==
    [r EXCEPT !.delivered = @ \o SubSeq(r.rest, 1, n),
              !.rest = SubSeq(@, n + 1, Len(@))]

Init == engine = [i \in Ids |-> Unused]

\* The owner's calls, each on one request.
Becomes(r, s) ==
    \/ r = Unused /\ s = Begun
    \/ s = Cancelled(r)
    \/ Exists(r) /\ s = Released
    \/ Exists(r) /\ \E n \in 1..Len(r.rest) : s = Read(r, n)

Call(i) ==
    /\ Becomes(engine[i], engine'[i])
    /\ \A j \in Ids \ {i} : engine'[j] = engine[j]

\* A step works on any of the requests at once.
Step == \A i \in Ids : engine'[i] = engine[i] \/ Advances(engine[i], engine'[i])

Next == engine' \in [Ids -> Request] /\ (Step \/ \E i \in Ids : Call(i))
Spec == Init /\ [][Next]_engine
=============================================================================
