------------------------------ MODULE KvPages ------------------------------
(***************************************************************************)
(* KvPagesF16: append-only KV caches that share pages.  A prefix or a       *)
(* branch of a cache takes references to its pages; a cache that appends to *)
(* a page somebody else holds too copies the page first.                    *)
(*                                                                         *)
(* A page is held by a reference count and found by its address, so an      *)
(* address is used again once nobody holds the page.  Engines in different  *)
(* threads may hold snapshots of each other, so appending is two steps: the *)
(* decision about the page and the store.                                   *)
(***************************************************************************)
EXTENDS Integers, Sequences, FiniteSets

CONSTANTS
    Caches,         \* the cache objects
    Values,         \* what a row may hold
    PageTokens,     \* page_tokens
    Capacities      \* the capacities a cache is created or branched with

ASSUME PagesAssumption ==
    /\ PageTokens \in Nat \ {0} /\ IsFiniteSet(Caches)
    /\ Capacities \subseteq Nat \ {0} /\ Capacities # {} /\ IsFiniteSet(Capacities)

VARIABLES
    cache,      \* the fields of each cache object
    page,       \* the memory at each page address
    open        \* caches in the middle of append

vars == <<cache, page, open>>

PagesFor(tokens) == (tokens + PageTokens - 1) \div PageTokens

MaxCapacity == CHOOSE m \in Capacities : \A capacity \in Capacities : capacity <= m

\* Enough for every cache to hold pages of its own.
Addresses == 1..(Cardinality(Caches) * PagesFor(MaxCapacity))
Offsets == 0..(PageTokens - 1)

\* A zeroed page; nothing is left of a page that was freed either.
Blank == [i \in Offsets |-> 0]

\* A destroyed, moved-from or default-constructed cache.
NoCache == [capacity |-> 0, size |-> 0, pages |-> <<>>, table |-> <<>>]

Exists(c) == cache[c].capacity > 0
Idle(c) == c \notin open

Holders(a) == {c \in Caches : \E k \in DOMAIN cache[c].pages : cache[c].pages[k] = a}
FreeAddress == CHOOSE a \in Addresses : Holders(a) = {}

\* Zero-based, as in the code: the page and the row of the next token.
NextPage(c) == cache[c].size \div PageTokens
NextRow(c) == cache[c].size % PageTokens

Cell(a, row) == [page |-> a, row |-> row]

Init ==
    /\ cache = [c \in Caches |-> NoCache]
    /\ page = [a \in Addresses |-> Blank]
    /\ open = {}

Create(c, capacity) ==
    /\ ~Exists(c)
    /\ cache' = [cache EXCEPT ![c].capacity = capacity]
    /\ UNCHANGED <<page, open>>

-----------------------------------------------------------------------------
(* append.                                                                  *)

MayAppend(c) == Exists(c) /\ Idle(c) /\ cache[c].size < cache[c].capacity

\* A first token of a page: a zeroed page of its own.
OpenNewPage(c) ==
    /\ MayAppend(c) /\ NextPage(c) = Len(cache[c].pages)
    /\ page' = [page EXCEPT ![FreeAddress] = Blank]
    /\ cache' = [cache EXCEPT ![c].pages = Append(@, FreeAddress)]
    /\ open' = open \cup {c}

\* (Fault) One other holder is not taken for sharing.
Shared_ByThree(c) == Cardinality(Holders(cache[c].pages[NextPage(c) + 1])) > 2

\* use_count() > 1
Shared(c) == Cardinality(Holders(cache[c].pages[NextPage(c) + 1])) > 1

\* The row table after the rows of the partial page moved to address a.
Repointed(c, a) ==
    [i \in 1..cache[c].size |->
        IF i > NextPage(c) * PageTokens THEN Cell(a, (i - 1) % PageTokens)
                                        ELSE cache[c].table[i]]

\* A shared page is copied as a whole.
OpenCopy(c) ==
    LET old == cache[c].pages[NextPage(c) + 1] IN
    /\ MayAppend(c) /\ NextPage(c) < Len(cache[c].pages) /\ Shared(c)
    /\ page' = [page EXCEPT ![FreeAddress] = page[old]]
    /\ cache' = [cache EXCEPT
         ![c] = [@ EXCEPT !.pages = [cache[c].pages EXCEPT ![NextPage(c) + 1] = FreeAddress],
                          !.table = Repointed(c, FreeAddress)]]
    /\ open' = open \cup {c}

OpenInPlace(c) ==
    /\ MayAppend(c) /\ NextPage(c) < Len(cache[c].pages) /\ ~Shared(c)
    /\ open' = open \cup {c}
    /\ UNCHANGED <<cache, page>>

\* The row is written and becomes part of the cache.
Store(c, value) ==
    LET a == cache[c].pages[NextPage(c) + 1] IN
    /\ c \in open
    /\ page' = [page EXCEPT ![a][NextRow(c)] = value]
    /\ cache' = [cache EXCEPT
         ![c] = [cache[c] EXCEPT !.size = @ + 1,
                                !.table = Append(@, Cell(a, NextRow(c)))]]
    /\ open' = open \ {c}

-----------------------------------------------------------------------------
(* prefix, branch and destruction.                                          *)

\* The snapshot of the first n tokens; it is full from the start.
Prefix(c, d, n) ==
    /\ Exists(c) /\ Idle(c) /\ ~Exists(d) /\ n \in 1..cache[c].size
    /\ cache' = [cache EXCEPT
         ![d] = [capacity |-> n, size |-> n,
                 pages |-> SubSeq(cache[c].pages, 1, PagesFor(n)),
                 table |-> SubSeq(cache[c].table, 1, n)]]
    /\ UNCHANGED <<page, open>>

Branch(c, d, capacity) ==
    /\ Exists(c) /\ Idle(c) /\ ~Exists(d) /\ capacity >= cache[c].size
    /\ cache' = [cache EXCEPT ![d] = [cache[c] EXCEPT !.capacity = capacity]]
    /\ UNCHANGED <<page, open>>

\* The pages nobody else holds go with the cache.
Drop(c) ==
    /\ Exists(c) /\ Idle(c)
    /\ cache' = [cache EXCEPT ![c] = NoCache]
    /\ page' = [a \in Addresses |-> IF Holders(a) = {c} THEN Blank ELSE page[a]]
    /\ UNCHANGED open

Next ==
    \E c \in Caches :
        \/ \E capacity \in Capacities : Create(c, capacity)
        \/ OpenNewPage(c) \/ OpenCopy(c) \/ OpenInPlace(c)
        \/ \E value \in Values : Store(c, value)
        \/ \E d \in Caches : \/ \E n \in 1..MaxCapacity : Prefix(c, d, n)
                            \/ \E capacity \in Capacities : Branch(c, d, capacity)
        \/ Drop(c)

Spec == Init /\ [][Next]_vars

-----------------------------------------------------------------------------
(* Properties.                                                              *)

\* Sharing pages cannot be told from copying rows.
RowsOf(c) == [i \in 1..cache[c].size |->
                 page[cache[c].table[i].page][cache[c].table[i].row]]
PR == INSTANCE PrivateRows WITH
    rows <- [c \in Caches |-> RowsOf(c)],
    room <- [c \in Caches |-> cache[c].capacity]
ImplementsPrivateRows == PR!Spec
=============================================================================
