---------------------------- MODULE PrivateRows ----------------------------
(***************************************************************************)
(* What a KV cache promises: each cache is a growing sequence of rows of    *)
(* its own.  Taking a prefix of one, or branching off one, is a copy.       *)
(***************************************************************************)
EXTENDS Integers, Sequences

CONSTANTS Caches, Values, MaxCapacity

VARIABLES
    rows,       \* the rows of each cache
    room        \* how many it may hold; 0 for a cache that does not exist

rowVars == <<rows, room>>

Init == rows = [c \in Caches |-> <<>>] /\ room = [c \in Caches |-> 0]

Become(c, list, capacity) ==
    /\ rows' = [rows EXCEPT ![c] = list]
    /\ room' = [room EXCEPT ![c] = capacity]

Create(c, capacity) == room[c] = 0 /\ Become(c, <<>>, capacity)

AppendRow(c, value) ==
    Len(rows[c]) < room[c] /\ Become(c, Append(rows[c], value), room[c])

Prefix(c, d, n) ==
    room[d] = 0 /\ n \in 1..Len(rows[c]) /\ Become(d, SubSeq(rows[c], 1, n), n)

Branch(c, d, capacity) ==
    room[c] > 0 /\ room[d] = 0 /\ capacity >= Len(rows[c]) /\ Become(d, rows[c], capacity)

Drop(c) == room[c] > 0 /\ Become(c, <<>>, 0)

Next ==
    \E c \in Caches :
        \/ \E capacity \in 1..MaxCapacity : Create(c, capacity)
        \/ \E value \in Values : AppendRow(c, value)
        \/ \E d \in Caches, n \in 1..MaxCapacity : Prefix(c, d, n) \/ Branch(c, d, n)
        \/ Drop(c)

Spec == Init /\ [][Next]_rowVars
=============================================================================
