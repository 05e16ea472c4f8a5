----------------------------- MODULE CpuEngine -----------------------------
(***************************************************************************)
(* CpuEngine: the request table, the admission and batching scheduler, the  *)
(* LRU store of prefix snapshots and its single-flight construction.        *)
(*                                                                         *)
(* One owner calls the methods one after another, so a method is one        *)
(* action.  step() is two: it admits at most one request and then runs at   *)
(* most one prefill chunk or decode batch; the flag `scheduling`, which is  *)
(* set in between, keeps every other method out.                            *)
(*                                                                         *)
(* MaxQueued > 0 is the serving mode, driven through step; with MaxQueued   *)
(* = 0 a request is activated by submit and driven through advance and      *)
(* advance_batch.                                                           *)
(***************************************************************************)
EXTENDS Integers, Sequences, FiniteSets, OutputTokens, PrefillChunk

CONSTANTS
    Specs,              \* the requests a caller submits
    Registrations,      \* the [ns, tokens] a caller registers or looks up
    Vocab,              \* the tokens sampling may return
    MaxId,              \* bound on the request IDs handed out
    MaxResident,        \* max_resident_requests
    MaxQueued,          \* max_queued_requests
    MaxBatch,           \* max_decode_batch_size
    MaxBuffered,        \* max_buffered_tokens
    MaxContext,         \* max_context
    PrefillChunkSize,   \* prefill_chunk_size
    MaxPrefixBytes,     \* max_prefix_bytes
    Charge,             \* bytes a snapshot of n tokens is estimated at
    Bytes,              \* bytes a snapshot of n tokens turns out to have
    Namespaces,         \* the trust namespaces, "" for none
    Configs,            \* what a snapshot is bound to: model, chunk size, paging
    Config,             \* and what this engine's are bound to
    Lent                \* snapshots of other engines whose handles callers hold

ASSUME EngineAssumption ==
    /\ MaxId \in Nat /\ MaxResident \in Nat \ {0} /\ MaxQueued \in Nat
    /\ MaxBatch \in Nat \ {0} /\ MaxBuffered \in Nat \ {0}
    /\ MaxContext \in Nat \ {0} /\ PrefillChunkSize \in Nat
    /\ MaxPrefixBytes \in Nat
    /\ Charge \in [0..MaxContext -> Nat] /\ Bytes \in [0..MaxContext -> Nat]

\* What a caller asks for; a token of a prompt is any number, a chosen one is in
\* the vocabulary.
RequestSpec == [prompt : Seq(Int), maxNew : Nat, stopIds : SUBSET Vocab,
                stops : SUBSET Seq(Vocab), ns : Namespaces, reg : Nat]

\* A snapshot is an object of its own: obj tells two of equal content apart.
Snapshot == [obj : Nat, ns : Namespaces, tokens : Seq(Int), config : Configs]

ASSUME CallerAssumption ==
    /\ Specs \subseteq RequestSpec
    /\ Registrations \subseteq [ns : Namespaces, tokens : Seq(Int)]
    /\ "" \in Namespaces /\ Config \in Configs
    /\ Lent \subseteq Snapshot /\ IsFiniteSet(Lent)
    /\ \A p \in Lent : p.tokens # <<>>

VARIABLES
    requests,       \* the request table, by ID
    nextId,         \* next_id
    prefixes,       \* the prefix store, least recently used first
    prefixBytes,    \* prefix_bytes
    handles,        \* the prefix handles callers hold
    preferDecode,   \* prefer_decode
    lastPrefill,    \* last_prefill
    lastDecode,     \* last_decode
    scheduling      \* step() is between its admission and its work

store == <<prefixes, prefixBytes>>
turns == <<preferDecode, lastPrefill, lastDecode>>
vars == <<requests, nextId, store, handles, turns, scheduling>>

Serving == MaxQueued > 0
Ids == 1..MaxId

-----------------------------------------------------------------------------
(* Requests and snapshots.                                                  *)

NoSpec == [prompt |-> <<>>, maxNew |-> 0, stopIds |-> {}, stops |-> {},
           ns |-> "", reg |-> 0]

\* No snapshot; one that exists has at least one token.
NoPrefix == [obj |-> 0, ns |-> "", tokens |-> <<>>, config |-> Config]

\* An ID that is not in the table.
Absent == [status |-> "absent", spec |-> NoSpec, prefix |-> NoPrefix, reg |-> 0,
           resident |-> FALSE, committed |-> 0, cached |-> 0, prefilled |-> 0,
           forwards |-> 0, written |-> 0, output |-> <<>>, generated |-> 0,
           consumed |-> 0]

Statuses == {"absent", "queued", "prefill", "decode", "complete", "cancelled", "failed"}

Request == [status : Statuses, spec : Specs \cup {NoSpec}, prefix : Snapshot,
            reg : Nat, resident : BOOLEAN, committed : Nat, cached : Nat,
            prefilled : Nat, forwards : Nat, written : Nat, output : Seq(Vocab),
            generated : Nat, consumed : Nat]

PromptLength(r) == Len(r.spec.prompt)
KvCapacity(r) == PromptLength(r) + r.spec.maxNew - 1
Terminal(r) == r.status \in {"complete", "cancelled", "failed"}
Unfinished(r) == r.status \in {"queued", "prefill", "decode"}

Live == {i \in Ids : requests[i].status # "absent"}
WithStatus(status) == {i \in Ids : requests[i].status = status}
Resident(table) == {i \in Ids : table[i].resident}

Stored == {prefixes[k] : k \in DOMAIN prefixes}
Attached(table) == {table[i].prefix : i \in Ids} \ {NoPrefix}

\* The snapshots with a reference outside the store (use_count() > 1).
Pinned(table) == handles \cup Attached(table)

\* A snapshot object not in use yet.
NewPrefix(ns, tokens) ==
    LET used == {p.obj : p \in Stored \cup Pinned(requests)}
    IN  [obj |-> Least((1..(Cardinality(used) + 1)) \ used),
         ns |-> ns, tokens |-> tokens, config |-> Config]

Matches(p, tokens) ==
    /\ Len(p.tokens) <= Len(tokens)
    /\ SubSeq(tokens, 1, Len(p.tokens)) = p.tokens

\* terminal() requests of the serving mode give up their state and their pin.
Retire(r) ==
    IF Serving /\ r.resident /\ Terminal(r)
    THEN [r EXCEPT !.prefix = NoPrefix, !.resident = FALSE]
    ELSE r

Fail(r) == [r EXCEPT !.status = "failed"]

-----------------------------------------------------------------------------
(* The prefix store.  A store value is [list, bytes].                       *)

TheStore == [list |-> prefixes, bytes |-> prefixBytes]

SetStore(st) == prefixes' = st.list /\ prefixBytes' = st.bytes

\* The bytes of the entries at the positions in K, counted one by one.
Weight(list, K) ==
    Cardinality(UNION {{k} \X (1..Bytes[Len(list[k].tokens)]) : k \in K})

\* The entries of list at the positions in K, in order.
Keep(list, K) ==
    [n \in 1..Cardinality(K) |->
        list[CHOOSE k \in K : Cardinality(K \cap (1..k)) = n]]

\* (Fault) Eviction does not look at the reference counts.
Evicted_IgnoresPins(st, need, pinned) ==
    {k \in DOMAIN st.list : /\ need <= MaxPrefixBytes
                            /\ st.bytes - Weight(st.list, 1..(k - 1))
                                  > MaxPrefixBytes - need}

\* prefix_room: unpinned entries go, oldest first, for as long as the store is
\* too full for `need` more bytes.
Evicted(st, need, pinned) ==
    LET free == {k \in DOMAIN st.list : st.list[k] \notin pinned}
    IN  {k \in free : /\ need <= MaxPrefixBytes
                      /\ st.bytes - Weight(st.list, free \cap (1..(k - 1)))
                            > MaxPrefixBytes - need}

Evict(st, need, pinned) ==
    LET gone == Evicted(st, need, pinned)
    IN  [list |-> Keep(st.list, DOMAIN st.list \ gone),
         bytes |-> st.bytes - Weight(st.list, gone)]

\* (Fault) The room check forgets the snapshot to come.
HasRoom_ForgetsNeed(st, need) == need <= MaxPrefixBytes /\ st.bytes <= MaxPrefixBytes

HasRoom(st, need) == need <= MaxPrefixBytes /\ st.bytes <= MaxPrefixBytes - need

Push(st, p) == [list |-> Append(st.list, p),
                bytes |-> st.bytes + Bytes[Len(p.tokens)]]

\* Makes the entry at position k the most recently used one.
Touch(st, k) ==
    [st EXCEPT !.list = SubSeq(@, 1, k - 1) \o SubSeq(@, k + 1, Len(@)) \o <<@[k]>>]

PositionOf(p) == Least({k \in DOMAIN prefixes : prefixes[k] = p})

\* adopt_prefix: an entry of the store is touched, a snapshot of another engine
\* is added if evictions make room for it.
AdoptRoom(p, pinned) ==
    IF p \in Stored THEN TheStore
                    ELSE Evict(TheStore, Bytes[Len(p.tokens)], pinned)

CanAdopt(p, pinned) ==
    p \in Stored \/ HasRoom(AdoptRoom(p, pinned), Bytes[Len(p.tokens)])

Adopt(p, pinned) ==
    IF p \in Stored THEN Touch(TheStore, PositionOf(p))
                    ELSE Push(AdoptRoom(p, pinned), p)

-----------------------------------------------------------------------------
(* Single-flight construction: requests that register the same leading      *)
(* tokens in the same namespace build them once.                            *)

SameBuild(a, b) ==
    /\ a.reg # 0 /\ a.reg = b.reg
    /\ a.spec.ns = b.spec.ns
    /\ SubSeq(a.spec.prompt, 1, a.reg) = SubSeq(b.spec.prompt, 1, a.reg)

\* (Fault) The lookup of a stored snapshot ignores the namespace.
Exact_AnyNamespace(r) == {k \in DOMAIN prefixes :
                /\ Len(prefixes[k].tokens) = r.reg
                /\ Matches(prefixes[k], r.spec.prompt)}

\* The positions of the snapshot a registering request would build.
Exact(r) == {k \in DOMAIN prefixes :
                /\ Len(prefixes[k].tokens) = r.reg
                /\ prefixes[k].ns = r.spec.ns
                /\ Matches(prefixes[k], r.spec.prompt)}

Builds(b, r) ==
    b.resident /\ ~Terminal(b) /\ b.committed < r.reg /\ SameBuild(r, b)

\* (Faults) A follower does not wait for its leader; queued requests of one
\* build wait for each other.
Admissible_NoWait(table, i) == TRUE
Admissible_WaitsForQueued(table, i) ==
    \/ table[i].reg = 0
    \/ Exact(table[i]) # {}
    \/ \A j \in Ids \ {i} : ~(Unfinished(table[j]) /\ SameBuild(table[i], table[j]))

\* prefix_admissible's answer, and its side effect: a stored exact match is
\* attached (and so pinned) whether or not the request is admitted in this step.
Admissible(table, i) ==
    \/ table[i].reg = 0
    \/ Exact(table[i]) # {}
    \/ \A j \in Ids \ {i} : ~Builds(table[j], table[i])

AttachExact(r) ==
    IF r.status = "queued" /\ r.reg # 0 /\ Exact(r) # {}
    THEN [r EXCEPT !.prefix = prefixes[Least(Exact(r))]]
    ELSE r

-----------------------------------------------------------------------------
(* Caller operations between steps.                                         *)

Init ==
    /\ requests = [i \in Ids |-> Absent]
    /\ nextId = 1
    /\ prefixes = <<>> /\ prefixBytes = 0
    /\ handles = Lent
    /\ preferDecode = TRUE /\ lastPrefill = 0 /\ lastDecode = 0
    /\ scheduling = FALSE

\* (Fault) submit takes a stop sequence that can fill the whole output buffer.
Acceptable_AnyStop(s, p) ==
    /\ Cardinality(Live) < MaxResident + MaxQueued
    /\ s.maxNew - 1 <= MaxContext - Len(s.prompt)

\* (Fault) submit does not ask which configuration a snapshot was made with.
Acceptable_AnyConfig(s, p) ==
    /\ Cardinality(Live) < MaxResident + MaxQueued
    /\ s.prompt # <<>> /\ s.maxNew > 0
    /\ Len(s.prompt) <= MaxContext
    /\ s.maxNew - 1 <= MaxContext - Len(s.prompt)
    /\ Serving => /\ Cardinality(WithStatus("queued")) < MaxQueued
                  /\ \A t \in s.stops : Len(t) <= MaxBuffered
    /\ s.reg > 0 => /\ Serving /\ s.ns # "" /\ s.reg <= Len(s.prompt)
                    /\ p # NoPrefix => Len(p.tokens) < s.reg
    /\ p # NoPrefix => p.ns = s.ns /\ Matches(p, s.prompt)

\* What submit checks of a request and the table.
Acceptable(s, p) ==
    /\ Cardinality(Live) < MaxResident + MaxQueued
    /\ s.prompt # <<>> /\ s.maxNew > 0
    /\ Len(s.prompt) <= MaxContext
    /\ s.maxNew - 1 <= MaxContext - Len(s.prompt)
    /\ Serving => /\ Cardinality(WithStatus("queued")) < MaxQueued
                  /\ \A t \in s.stops : Len(t) <= MaxBuffered
    /\ s.reg > 0 => /\ Serving /\ s.ns # "" /\ s.reg <= Len(s.prompt)
                    /\ p # NoPrefix => Len(p.tokens) < s.reg
    /\ p # NoPrefix => p.config = Config /\ p.ns = s.ns /\ Matches(p, s.prompt)

Submitted(s, p) ==
    [Absent EXCEPT !.status = "queued", !.spec = s, !.prefix = p, !.reg = s.reg]

\* (Faults) activate drops the pin once the state is restored; it does not
\* count the restored tokens.
Activate_DropsPin(r) ==
    LET start == Len(r.prefix.tokens)
    IN  [r EXCEPT !.status = "prefill", !.resident = TRUE, !.prefix = NoPrefix,
                  !.cached = start, !.committed = start]
Activate_ForgetsCached(r) ==
    [r EXCEPT !.status = "prefill", !.resident = TRUE,
              !.committed = Len(r.prefix.tokens)]

\* activate: a private state, restored from the attached snapshot if any.
Activate(r) ==
    LET start == Len(r.prefix.tokens)
    IN  [r EXCEPT !.status = "prefill", !.resident = TRUE,
                  !.cached = start, !.committed = start]

Enter(r) == requests' = [requests EXCEPT ![nextId] = r] /\ nextId' = nextId + 1

\* submit in serving mode; a request it refuses leaves everything as it is.
SubmitQueued(s, p) ==
    /\ Serving /\ ~scheduling /\ nextId \in Ids /\ Acceptable(s, p)
    /\ Enter(Submitted(s, p))
    /\ UNCHANGED <<store, handles, turns, scheduling>>

\* submit without a queue activates the request at once.
SubmitActive(s, p) ==
    /\ ~Serving /\ nextId \in Ids /\ Acceptable(s, p)
    /\ p # NoPrefix => CanAdopt(p, Pinned(requests))
    /\ Enter(Activate(Submitted(s, p)))
    /\ IF p = NoPrefix THEN UNCHANGED store ELSE SetStore(Adopt(p, Pinned(requests)))
    /\ UNCHANGED <<handles, turns, scheduling>>

\* A submit whose snapshot cannot be adopted is refused after the evictions.
SubmitRefused(s, p) ==
    /\ ~Serving /\ nextId \in Ids /\ Acceptable(s, p)
    /\ p # NoPrefix /\ ~CanAdopt(p, Pinned(requests))
    /\ SetStore(AdoptRoom(p, Pinned(requests)))
    /\ UNCHANGED <<requests, nextId, handles, turns, scheduling>>

\* read_output: the next confirmed tokens, at most max of them.
ReadOutput(i, max) ==
    LET r == requests[i]
        confirmed == IF Terminal(r) THEN Len(r.output)
                                    ELSE Confirmed(r.output, r.spec.stops)
    IN  /\ Serving /\ ~scheduling /\ i \in Live
        /\ confirmed # r.consumed
        /\ requests' = [requests EXCEPT ![i].consumed =
                            @ + Smaller(max, confirmed - r.consumed)]
        /\ UNCHANGED <<nextId, store, handles, turns, scheduling>>

\* (Fault) cancel does not look at the status.
Cancel_AnyStatus(i) ==
    /\ ~scheduling /\ i \in Live
    /\ requests' = [requests EXCEPT ![i] = Retire([@ EXCEPT !.status = "cancelled"])]
    /\ UNCHANGED <<nextId, store, handles, turns, scheduling>>

Cancel(i) ==
    /\ ~scheduling /\ Unfinished(requests[i])
    /\ requests' = [requests EXCEPT ![i] = Retire([@ EXCEPT !.status = "cancelled"])]
    /\ UNCHANGED <<nextId, store, handles, turns, scheduling>>

Release(i) ==
    /\ ~scheduling /\ i \in Live
    /\ requests' = [requests EXCEPT ![i] = Absent]
    /\ UNCHANGED <<nextId, store, handles, turns, scheduling>>

\* find_prefix: the longest stored match, touched and handed out.
FindPrefix(ns, tokens) ==
    LET found == {k \in DOMAIN prefixes :
                     prefixes[k].ns = ns /\ Matches(prefixes[k], tokens)}
        best == Least({k \in found : \A j \in found :
                          Len(prefixes[j].tokens) <= Len(prefixes[k].tokens)})
    IN  /\ ~scheduling /\ found # {}
        /\ SetStore(Touch(TheStore, best))
        /\ handles' = handles \cup {prefixes[best]}
        /\ UNCHANGED <<requests, nextId, turns, scheduling>>

Registered(ns, tokens) ==
    {k \in DOMAIN prefixes : prefixes[k].ns = ns /\ prefixes[k].tokens = tokens}

ValidRegistration(ns, tokens) ==
    Len(tokens) \in 1..MaxContext /\ ns # ""

\* register_prefix on tokens the store already has.
RegisterKnown(ns, tokens) ==
    /\ ~scheduling /\ ValidRegistration(ns, tokens) /\ Registered(ns, tokens) # {}
    /\ handles' = handles \cup {prefixes[Least(Registered(ns, tokens))]}
    /\ UNCHANGED <<requests, nextId, store, turns, scheduling>>

\* register_prefix builds the snapshot, or finds no room for it and fails, or
\* fails in the build (built = FALSE); evictions happen in every case.
Register(ns, tokens, built) ==
    LET charge == Charge[Len(tokens)]
        room == Evict(TheStore, charge, Pinned(requests))
        p == NewPrefix(ns, tokens)
    IN  /\ ~scheduling /\ ValidRegistration(ns, tokens) /\ Registered(ns, tokens) = {}
        /\ IF built /\ HasRoom(room, charge)
           THEN SetStore(Push(room, p)) /\ handles' = handles \cup {p}
           ELSE SetStore(room) /\ UNCHANGED handles
        /\ UNCHANGED <<requests, nextId, turns, scheduling>>

DropHandle(p) ==
    /\ ~scheduling
    /\ handles' = handles \ {p}
    /\ UNCHANGED <<requests, nextId, store, turns, scheduling>>

-----------------------------------------------------------------------------
(* The first half of step(): clean up, and admit the oldest queued request  *)
(* that need not wait for another one's snapshot.                           *)

Swept == [i \in Ids |-> AttachExact(Retire(requests[i]))]

Candidates == {i \in Ids : Swept[i].status = "queued" /\ Admissible(Swept, i)}

\* (Fault) The requests that decode are not counted.
CanAdmit_CountsPrefill ==
    Candidates # {} /\ Cardinality({i \in Ids : Swept[i].status = "prefill"}) < MaxResident

CanAdmit == Candidates # {} /\ Cardinality(Resident(Swept)) < MaxResident

\* What activating the admitted request does to the snapshot store.
NeedsAdoption(r) == r.prefix # NoPrefix

StepWithoutAdmission ==
    /\ Serving /\ ~scheduling /\ ~CanAdmit
    /\ requests' = Swept /\ scheduling' = TRUE
    /\ UNCHANGED <<nextId, store, handles, turns>>

Admit ==
    LET i == Least(Candidates)
        r == Swept[i]
    IN  /\ Serving /\ ~scheduling /\ CanAdmit
        /\ NeedsAdoption(r) => CanAdopt(r.prefix, Pinned(Swept))
        /\ requests' = [Swept EXCEPT ![i] = Activate(r)]
        /\ IF NeedsAdoption(r) THEN SetStore(Adopt(r.prefix, Pinned(Swept)))
                               ELSE UNCHANGED store
        /\ scheduling' = TRUE
        /\ UNCHANGED <<nextId, handles, turns>>

\* The snapshot of another engine finds no room: step returns false.
AdmitWithoutRoom ==
    LET i == Least(Candidates)
        r == Swept[i]
    IN  /\ Serving /\ ~scheduling /\ CanAdmit
        /\ NeedsAdoption(r) /\ ~CanAdopt(r.prefix, Pinned(Swept))
        /\ requests' = [Swept EXCEPT ![i] = Retire(Fail(Activate(r)))]
        /\ SetStore(AdoptRoom(r.prefix, Pinned(Swept)))
        /\ UNCHANGED <<nextId, handles, turns, scheduling>>

\* The private state cannot be allocated or restored: step returns false.
AdmitFails ==
    LET i == Least(Candidates)
    IN  /\ Serving /\ ~scheduling /\ CanAdmit
        /\ requests' =
             [Swept EXCEPT ![i] = Retire(Fail([@ EXCEPT !.resident = TRUE]))]
        /\ UNCHANGED <<nextId, store, handles, turns, scheduling>>

-----------------------------------------------------------------------------
(* Selecting a token.  An outcome is a sequence of at most one token: <<>>   *)
(* when a callback, the constraint or the sampler fails.                     *)

Outcomes == {<<>>} \cup {<<t>> : t \in Vocab}

\* (Fault) The token limit is noticed one token late.
Select_OneMore(r, outcome) ==
    IF outcome = <<>> THEN Fail(r)
    ELSE LET out == r.output \o outcome
         IN  [r EXCEPT !.output = out, !.generated = @ + 1,
                       !.status = IF Len(out) > r.spec.maxNew
                                  THEN "complete" ELSE "decode"]

Select(r, outcome) ==
    IF outcome = <<>> THEN Fail(r)
    ELSE LET out == r.output \o outcome
             kept == Kept(out, r.spec.stopIds, r.spec.stops)
         IN  [r EXCEPT !.output = SubSeq(out, 1, kept),
                       !.generated = @ + 1,
                       !.status = IF kept < Len(out) \/ Len(out) = r.spec.maxNew
                                  THEN "complete" ELSE "decode"]

-----------------------------------------------------------------------------
(* The work: one prefill chunk or one decode forward over several requests. *)

\* output_ready: a request whose reader is MaxBuffered tokens behind pauses.
OutputReady(r) == Len(r.output) - r.consumed < MaxBuffered

Ready(status) == {i \in WithStatus(status) : OutputReady(requests[i])}

\* (Fault) The order ignores who was served last.
Before_ById(i, j, last) == i < j

\* Round robin: i comes before j in the order that starts behind `last`.
Before(i, j, last) == IF (i > last) = (j > last) THEN i < j ELSE i > last

NextBatch == {i \in Ready("decode") :
    Cardinality({j \in Ready("decode") : Before(j, i, lastDecode)}) < MaxBatch}

NextPrefill == {i \in Ready("prefill") :
    \A j \in Ready("prefill") \ {i} : Before(i, j, lastPrefill)}

DecodeTurn == Ready("decode") # {} /\ (Ready("prefill") = {} \/ preferDecode)

\* What step() may work on now; without a queue the caller chooses.
MayPrefill(i) ==
    IF Serving THEN scheduling /\ ~DecodeTurn /\ i \in NextPrefill
               ELSE i \in WithStatus("prefill")

MayDecode(B) ==
    IF Serving THEN scheduling /\ DecodeTurn /\ B = NextBatch
               ELSE B # {} /\ B \subseteq WithStatus("decode")

PrefillDone(i) ==
    /\ scheduling' = FALSE
    /\ preferDecode' = TRUE
    /\ lastPrefill' = IF Serving THEN i ELSE lastPrefill
    /\ UNCHANGED <<nextId, handles, lastDecode>>

\* (Fault) The position behind the batch is recorded instead of its last row.
DecodeDone_PastEnd(B) ==
    /\ scheduling' = FALSE
    /\ preferDecode' = ~Serving
    /\ \E i \in B : /\ \A j \in B \ {i} : Before(j, i, lastDecode)
                    /\ lastDecode' = i + 1
    /\ UNCHANGED <<nextId, store, handles, lastPrefill>>

\* prefer_decode changes in step() only.
DecodeDone(B) ==
    /\ scheduling' = FALSE
    /\ preferDecode' = ~Serving
    /\ lastDecode' = IF Serving
                     THEN CHOOSE i \in B : \A j \in B \ {i} : Before(j, i, lastDecode)
                     ELSE lastDecode
    /\ UNCHANGED <<nextId, store, handles, lastPrefill>>

\* step() finds nothing to run.
StepIdle ==
    /\ scheduling /\ Ready("prefill") = {} /\ Ready("decode") = {}
    /\ scheduling' = FALSE
    /\ UNCHANGED <<requests, nextId, store, handles, turns>>

\* The tokens of the next chunk; none when a snapshot covers the whole prompt.
ChunkTokens(r) ==
    LET count == PrefillCount(r.committed, PromptLength(r) - r.committed,
                              ChunkSize(PrefillChunkSize, PromptLength(r)))
    IN  IF r.committed < r.reg THEN Smaller(count, r.reg - r.committed) ELSE count

\* Whether the next chunk ends at the boundary the request registers.
Publishes(r) == r.committed < r.reg /\ r.committed + ChunkTokens(r) = r.reg

Prefilled(r) == [r EXCEPT !.committed = @ + ChunkTokens(r),
                          !.prefilled = @ + ChunkTokens(r)]

\* The first token is selected when the whole prompt is committed.
AfterPrefill(r, outcome) ==
    IF r.committed = PromptLength(r) THEN Retire(Select(r, outcome)) ELSE r

\* (Fault) A failed prefill is not retired.
PrefillFails_NotRetired(i) ==
    /\ MayPrefill(i)
    /\ requests' = [requests EXCEPT ![i] = Fail(@)]
    /\ PrefillDone(i)
    /\ UNCHANGED store

PrefillFails(i) ==
    /\ MayPrefill(i)
    /\ requests' = [requests EXCEPT ![i] = Retire(Fail(@))]
    /\ PrefillDone(i)
    /\ UNCHANGED store

PrefillForward(i, outcome) ==
    /\ MayPrefill(i) /\ ~Publishes(requests[i])
    /\ requests' = [requests EXCEPT ![i] = AfterPrefill(Prefilled(@), outcome)]
    /\ PrefillDone(i)
    /\ UNCHANGED store

\* publish_prefix with room: the snapshot is stored and pinned by its builder.
PrefillPublish(i, outcome) ==
    LET r == requests[i]
        room == Evict(TheStore, Charge[r.reg], Pinned(requests))
        p == NewPrefix(r.spec.ns, SubSeq(r.spec.prompt, 1, r.reg))
    IN  /\ MayPrefill(i) /\ Publishes(r) /\ HasRoom(room, Charge[r.reg])
        /\ SetStore(Push(room, p))
        /\ requests' = [requests EXCEPT ![i] =
             AfterPrefill([Prefilled(r) EXCEPT !.prefix = p,
                                               !.written = r.reg - r.cached], outcome)]
        /\ PrefillDone(i)

\* publish_prefix without room or memory: every request of this build goes on
\* as an ordinary cold one.
PrefillFallback(i, outcome) ==
    LET r == requests[i]
        cold == [j \in Ids |-> IF SameBuild(r, requests[j])
                               THEN [requests[j] EXCEPT !.reg = 0]
                               ELSE requests[j]]
    IN  /\ MayPrefill(i) /\ Publishes(r)
        /\ SetStore(Evict(TheStore, Charge[r.reg], Pinned(requests)))
        /\ requests' = [cold EXCEPT ![i] =
             AfterPrefill([Prefilled(r) EXCEPT !.reg = 0], outcome)]
        /\ PrefillDone(i)

DecodeForward(r) == [r EXCEPT !.committed = @ + 1, !.forwards = @ + 1]

\* One forward for the batch, then a selection per row; a row whose selection
\* fails fails alone.
DecodeRows(B, outcomes) ==
    /\ MayDecode(B)
    /\ requests' = [i \in Ids |->
         IF i \in B THEN Retire(Select(DecodeForward(requests[i]), outcomes[i]))
                    ELSE requests[i]]
    /\ DecodeDone(B)

\* A failed forward may have updated any row's state: every row fails.
DecodeFails(B) ==
    /\ MayDecode(B)
    /\ requests' = [i \in Ids |-> IF i \in B THEN Retire(Fail(requests[i]))
                                             ELSE requests[i]]
    /\ DecodeDone(B)

\* (Fault) The rows in front of the exception keep what they were served, without the
\* clean-up that follows the batch.
DecodeThrows_KeepsServed(B, at, outcomes) ==
    /\ Serving /\ MayDecode(B) /\ at \in B
    /\ requests' = [i \in Ids |->
         IF i \notin B THEN requests[i]
         ELSE IF Before(i, at, lastDecode) /\ i # at
              THEN Select(DecodeForward(requests[i]), outcomes[i])
              ELSE Retire(Fail(requests[i]))]
    /\ DecodeDone(B)

\* step() catches an exception of the row `at` and fails the whole batch, the
\* rows in front of it, already served, included.
DecodeThrows(B, at, outcomes) ==
    LET row(i) == IF Before(i, at, lastDecode) /\ i # at
                  THEN Select(DecodeForward(requests[i]), outcomes[i])
                  ELSE IF i = at THEN DecodeForward(requests[i]) ELSE requests[i]
    IN  /\ Serving /\ MayDecode(B) /\ at \in B
        /\ requests' = [i \in Ids |-> IF i \in B THEN Retire(Fail(row(i)))
                                                 ELSE requests[i]]
        /\ DecodeDone(B)

-----------------------------------------------------------------------------
Caller ==
    \/ \E s \in Specs, p \in handles \cup {NoPrefix} :
         SubmitQueued(s, p) \/ SubmitActive(s, p) \/ SubmitRefused(s, p)
    \/ \E i \in Ids : \/ \E max \in 1..MaxBuffered : ReadOutput(i, max)
                      \/ Cancel(i)
                      \/ Release(i)
    \/ \E e \in Registrations :
         \/ FindPrefix(e.ns, e.tokens)
         \/ RegisterKnown(e.ns, e.tokens)
         \/ \E built \in BOOLEAN : Register(e.ns, e.tokens, built)
    \/ \E p \in handles : DropHandle(p)

StepAdmission ==
    StepWithoutAdmission \/ Admit \/ AdmitWithoutRoom \/ AdmitFails

Work ==
    \/ StepIdle
    \/ \E i \in Ids : PrefillFails(i)
    \/ \E i \in Ids, outcome \in Outcomes :
         PrefillForward(i, outcome) \/ PrefillPublish(i, outcome) \/ PrefillFallback(i, outcome)
    \/ \E B \in SUBSET Ids : DecodeFails(B)
    \/ \E B \in SUBSET Ids : \E outcomes \in [B -> Outcomes] :
         DecodeRows(B, outcomes) \/ \E at \in B : DecodeThrows(B, at, outcomes)

Next == Caller \/ StepAdmission \/ Work

Spec == Init /\ [][Next]_vars

\* The owner's loop calls step() again and again, between any two calls of
\* which it may read: Service::run does both for every active request.
StepFairness == WF_vars(StepAdmission \/ Work)
ReaderFairness(i) == SF_vars(\E max \in 1..MaxBuffered : ReadOutput(i, max))

-----------------------------------------------------------------------------
(* Properties.                                                              *)

\* The shape of the engine's state; the byte counter is WithinBudget's.
TypeOK ==
    /\ requests \in [Ids -> Request]
    /\ \A i \in Ids : requests[i].reg <= PromptLength(requests[i])
    /\ nextId \in 1..(MaxId + 1) /\ lastPrefill \in 0..MaxId /\ lastDecode \in 0..MaxId
    /\ preferDecode \in BOOLEAN /\ scheduling \in BOOLEAN
    /\ prefixes \in Seq(Snapshot)
    /\ handles \subseteq Snapshot

\* In serving mode exactly the requests being worked on hold model state, and never
\* more of them than there are slots: a terminal one frees it in the very step that
\* ends it, also when a batch, a publication or an admission fails half way, and no
\* order of admissions, cancellations, failures and releases lets one too many in.
StateIffWorkedOn ==
    Serving => /\ \A i \in Ids :
                     requests[i].resident <=> requests[i].status \in {"prefill", "decode"}
               /\ Cardinality(Resident(requests)) <= MaxResident

\* A request never commits more tokens than its KV cache and rope tables were
\* sized for, and a decode forward always has a slot left to write.
KvWithinCapacity ==
    \A i \in Live :
        LET r == requests[i] IN
        /\ r.status = "prefill" => r.committed <= PromptLength(r)
        /\ r.status = "decode" => r.committed < KvCapacity(r)
        /\ Terminal(r) => r.committed <= KvCapacity(r)

\* The counters a client is billed by agree with what was computed: each
\* committed position was restored, prefilled or decoded exactly once, and no
\* more is reported as written to the cache than was newly computed.
TokenAccounting ==
    \A i \in Ids :
        LET r == requests[i] IN
        /\ r.committed = r.cached + r.prefilled + r.forwards
        /\ r.written <= r.prefilled
        /\ r.status = "decode" =>
             r.committed = PromptLength(r) + r.generated - 1

\* No two requests ever evaluate the same registered leading tokens at once.
SingleFlight ==
    \A i, j \in Ids :
        ~ /\ i # j
          /\ requests[i].resident /\ ~Terminal(requests[i])
          /\ requests[i].committed < requests[i].reg
          /\ Builds(requests[j], requests[i])

\* A request only ever continues from a snapshot of its own namespace, its own
\* model configuration and exactly its own leading tokens.
PrefixIdentity ==
    \A i \in Live :
        LET r == requests[i] IN
        r.prefix # NoPrefix =>
            /\ r.prefix.ns = r.spec.ns /\ r.prefix.config = Config
            /\ Matches(r.prefix, r.spec.prompt)

\* A request whose prompt is committed but whose first token is not selected
\* has a snapshot of the whole prompt attached: advance reads its final hidden
\* state without a check.
FullHitHasHidden ==
    \A i \in WithStatus("prefill") :
        LET r == requests[i] IN
        r.committed = PromptLength(r) =>
            r.prefix # NoPrefix /\ Len(r.prefix.tokens) = PromptLength(r)

\* The store's byte counter is the sum over its entries, and within the budget.
WithinBudget ==
    /\ prefixBytes = Weight(prefixes, DOMAIN prefixes)
    /\ prefixBytes <= MaxPrefixBytes

\* A snapshot that somebody holds a handle to, or a request is attached to,
\* before and after a step is not evicted by that step.
PinnedRetained ==
    [][\A p \in Stored \cap Pinned(requests) :
            p \in Pinned(requests)' => p \in Stored']_vars

\* read_output's unsigned subtraction never wraps: what was handed out stays
\* within what is confirmed, also after a stop condition cuts the output.
ReadNeverWraps ==
    \A i \in Live :
        LET r == requests[i] IN
        r.consumed <= IF Terminal(r) THEN Len(r.output)
                                     ELSE Confirmed(r.output, r.spec.stops)

\* A token handed to the reader is never changed or taken back.
DeliveredStable ==
    [][\A i \in Ids :
         requests'[i].status # "absent" =>
            /\ requests[i].consumed <= Len(requests'[i].output)
            /\ SubSeq(requests'[i].output, 1, requests[i].consumed)
                 = SubSeq(requests[i].output, 1, requests[i].consumed)]_vars

\* A request paused by its full buffer always has a confirmed token its reader
\* can take: withheld stop prefixes cannot fill the buffer and wedge it.
PausedIsReadable ==
    Serving => \A i \in WithStatus("decode") :
        LET r == requests[i] IN
        ~OutputReady(r) => r.consumed < Confirmed(r.output, r.spec.stops)

\* A request's end is final, and an ID that was released never comes back.
TerminalIsFinal ==
    [][\A i \in Ids :
        /\ Terminal(requests[i]) => requests'[i].status \in {requests[i].status, "absent"}
        /\ i < nextId /\ requests[i].status = "absent" => requests'[i].status = "absent"]_vars

\* Every submitted request whose own output is read comes to an end, although
\* another reader may stall for ever: prefill and decode take turns, decode
\* rows go round, admission is first come first served, and a follower of a
\* leader that is cancelled or fails, or whose snapshot finds no room, goes on.
Finishes(readers) ==
    \A i \in readers : (requests[i].status = "queued") ~> ~Unfinished(requests[i])

\* What the owner can tell about request i.
Visible(i) ==
    LET r == requests[i] IN
    [status |-> CASE r.status # "absent" /\ Unfinished(r) -> "working"
                  [] r.status # "absent" /\ ~Unfinished(r) -> r.status
                  [] r.status = "absent" /\ i < nextId -> "released"
                  [] OTHER -> "unused",
     delivered |-> SubSeq(r.output, 1, r.consumed),
     rest |-> After(r.output, r.consumed)]

\* The engine implements EngineContract: queued, prefill and decode are one
\* status to the owner, and only the order of the tokens is visible.
Contract == INSTANCE EngineContract WITH engine <- [i \in Ids |-> Visible(i)]

\* Whatever is admitted, paused, retracted, shared or evicted inside, the owner
\* sees requests that only grow what they delivered, end once and stay gone.
ImplementsContract == Contract!Spec
=============================================================================
