----------------------------- MODULE StreamQueue -----------------------------
(***************************************************************************)
(* The bounded queue between the inference worker and the HTTP reader of    *)
(* one stream, as functions of its value.  Text and the terminal reply have *)
(* lanes of their own, so a full queue cannot lose an error.                *)
(***************************************************************************)
EXTENDS Integers, Sequences

CONSTANTS
    Capacity,       \* pieces the queue holds
    ByteCapacity,   \* and their bytes
    Piece           \* the largest piece

\* One visit of the worker pushes three pieces at most.
ASSUME QueueAssumption ==
    /\ Piece \in Nat \ {0}
    /\ Capacity \in Nat /\ Capacity >= 3
    /\ ByteCapacity \in Nat /\ ByteCapacity >= 3 * Piece

NoReply == "none"

\* The sizes of the queued texts, and their sum as the queue counts it.
EmptyQueue == [text |-> <<>>, bytes |-> 0, terminal |-> NoReply]

\* (Fault) Room for the token's text only, not for what the end flushes.
Room_ForOne(q) == Len(q.text) + 1 <= Capacity /\ q.bytes + Piece <= ByteCapacity

\* room(): for everything one visit may push.
Room(q) == Len(q.text) + 3 <= Capacity /\ q.bytes + 3 * Piece <= ByteCapacity

\* push() throws unless this holds.
Fits(q, size) ==
    /\ size <= Piece /\ Len(q.text) < Capacity
    /\ q.bytes + size <= ByteCapacity /\ q.terminal = NoReply

\* push(): an empty text is not queued.
Pushed(q, size) ==
    IF size = 0 THEN q ELSE [q EXCEPT !.text = Append(@, size), !.bytes = @ + size]

Finished(q, reply) == [q EXCEPT !.terminal = reply]

\* (Fault) The reader is told the end before it has the text.
ShowsEnd_TextLost(q) == q.terminal # NoReply

\* pop() returns the terminal reply only when all text is gone.
ShowsEnd(q) == q.text = <<>> /\ q.terminal # NoReply

Popped(q) == [q EXCEPT !.text = Tail(@), !.bytes = @ - Head(q.text)]
=============================================================================
