# qwen35-cpu in TLA+

A verification project for the inference engine, the services around it, and the
computations between a model file and an answer: TLA+ modules translated from the sources,
TLC configurations that check them on small instances, and TLAPS proofs, for every value of
the constants, of the safety of all parts that interact (the engine, the thread pool, the
shared pages, the service and the browser), of the model files, of the forward pass and of
the readout. Paths below are relative to the repository; `file:line` refers to the commit
the modules were written against. `PROJECT.json` maps every definition to its lines.

## 1. The system

qwen35-cpu serves a hybrid language model (gated delta-net layers and full-attention
layers) on the CPU. A request's tokens go through a *prefill* of its prompt in
chunks, then one *decode* forward per output token; requests share decode batches,
and a *prefix snapshot* saves the model state after a prompt's leading tokens so that
another request can start there.

```
 HTTP threads --- job queue, streams ---> Service worker -- submit/step/read/cancel --> CpuEngine
   (server.cpp)                             |  tokenizer, stop matcher, grammar            |
 demo page / benchmark -- messages --> worker.js -- qev_* --> WASM session --> CpuEngine --+
                                          | files, cache                                   v
     GGUF / artifact --> weights --> forward pass (prefill, decode, attention, readout)
     converter ------^                 |-> KvPages (shared by snapshots and requests)
                                       '-> quantized products -- parallel_for_rows --> CpuExecutor
```

### Components

Each entry: state; operations; interaction; what is hard; what makes it correct.

**CpuEngine: requests, scheduler, output** (`src/src/runtime/cpu_engine.inl`,
`cpu_engine_scheduler.inl`). State: the request table (status, prompt, output,
counters, model state or none), `next_id`, the turn (`prefer_decode`,
`last_prefill`, `last_decode`). Operations: `submit`, `step`, `advance`,
`advance_batch`, `read_output`, `cancel`, `release`. One owner calls them; exceptions
inside a forward or a selection end requests. Hard: every order of admission,
cancellation, failure and release; who is served next when the ready set changes; a
buffer that is full of tokens withheld as a possible stop sequence; unsigned
arithmetic on what was delivered. Correct: at most `max_resident_requests` hold model
state, freed the moment a request ends; the KV cache is never outgrown; each position
is accounted once; delivered output is final; everyone who reads gets to the end.

**CpuEngine: prefix store and single-flight builds** (`cpu_engine_prefix.inl`,
`cpu_engine_singleflight.inl`, `cpu_engine.inl:58-125`). State: an LRU list of
snapshots, its byte counter, handles outside the store. Operations:
`register_prefix`, `find_prefix`, adoption at `submit`, publication in the middle of a
prefill, eviction. Hard: a leader that dies with followers behind it, a snapshot that
finds no room, eviction against pins, lookups that must not cross a namespace or a
configuration. Correct: one evaluation of a shared prefix at a time, the byte budget,
pins respected, a request continues only from its own tokens.

**Prefill chunking** (`prefill_chunk.h`). Pure: how many tokens the next chunk has.
Hard: a restored prefix starts in the middle of a chunk, and a chunk must not cross
the position where the attention kernel changes.

**CpuExecutor** (`src/src/cpu/executor.cpp`). State: per worker a mailbox with a
generation counter, a count of finished workers, a busy flag, a stop flag. Operations:
`create`, `parallel_for_rows`, destruction; the worker loop. Threads share memory
through atomics with waits and notifications. Hard: a mailbox rewritten while it is
read, a lost wake-up, shutdown of a pool that is partly created, a nested call.
Correct: each row of a job is executed once, between call and return; every call and
every shutdown ends.

**Paged KV cache** (`src/include/qwen35x/cpu/kv_pages.h`). State: pages held by
reference count, row tables pointing into them. Operations: append, prefix, branch,
destruction. Shared by requests and snapshots. Hard: copy-on-write decided by
`use_count`, a row table that must follow the copy. Correct: sharing is invisible.

**HTTP service** (`src/src/server.cpp`, `server_stream.h`). State: pending and active
jobs, each with a promise, a cancelled flag, a deadline and a bounded stream queue; the
number of outstanding jobs. Operations: `enqueue`, the worker's `run` loop,
cancellation by the HTTP threads, shutdown. Hard: completion, cancellation, deadline and
shutdown race; a slow stream reader; decision jobs that resubmit. Correct: a promise is
set exactly once, no engine request is leaked, a stream pauses only its own job and
keeps every byte in order, everything ends.

**Text in and out** (`tokenizer.cpp`, `server_text.h`). Pure splitting, merging and
decoding; a UTF-8 decoder and a stop matcher that hold back what the next token may
complete. Hard: a backtracking expression reproduced by hand; tokens that end inside a
character or a stop sequence. Correct: decoding inverts encoding; the reply is the same
however its bytes were cut, and no byte of a stop sequence is shown.

**Constrained output** (`server_constraint.h`, `server_grammar.h`,
`server_structured.h`). State: a set of pushdown states. Operations: apply to the
logits, accept a token. Correct: what is produced can always be completed, and ends
where it is complete.

**WASM decision session** (`src/src/wasm/decision.cpp`), **browser worker**
(`src/web/worker.js`) and its two clients, the **page** (`app.js`) and the **benchmark**
(`scripts/benchmark-wasm.mjs`). State: the engine with one slot, a session, flags for
loading and running, files in the browser's cache; promises, timers and autoplay in the
page. Operations: messages, `qev_*` calls, clicks. Hard: handlers of two messages
interleave at awaits; workers are terminated in the middle of a write; answers arrive
late. Correct: the flags say what runs, the engine is clean, a late answer is not
applied, nobody waits for ever.

**Forward pass, attention, readout** (`prefill.inl`, `layers.inl`, `forward.inl`,
`cpu_engine_state_batch.inl`, `cpu_engine_greedy.inl`, `full_attention*.cpp`,
`delta_net.cpp`). State per request: recurrent state, convolution ring, KV cache. Hard:
chunks, batches, snapshots and partitions must all leave what one token after the other
leaves; each kernel has tiles, masked lanes and an online softmax of its own.

**Weights and products** (`weights.inl`, `gguf_weights.inl`, `gguf_matrix.inl`, the
converter, `src/src/cpu/*`). Rows are packed, fused, sliced and multiplied by one of
nineteen kernels, in tasks cut by thread. Hard: which row, which vector, which lane;
saturation of 16-bit sums.

**Model files** (`gguf.cpp`, `q4_h128_artifact.cpp`, the converter's publication). Hard:
sizes that lie, a process killed in a write. Correct: nothing outside the file is read,
and a file under its final name is complete.

**Protocol adapters** (`server_protocol.h`, `server_anthropic.h`, `systemone.h`),
**drivers**, **profile and safetensors readers**: formatting and I/O without state.

The hazards these parts are exposed to, with the properties that watch them, are the
`hazards` of `PROJECT.json`.

## 2. Modules

| module | what it is | code |
| --- | --- | --- |
| `CpuEngine` | the engine, one action per method or scheduler step, and what its owner sees of it | `cpu_engine*.inl` |
| `OutputTokens` | stop sequences and what is confirmed | `cpu_engine.inl:325-400` |
| `PrefillChunk` | chunk arithmetic | `prefill_chunk.h` |
| `CpuEngineTurns` | `CpuEngine` with a history of who was served while one waits | `cpu_engine_scheduler.inl` |
| `EngineContract` | what an engine promises its owner | `cpu_engine.h` |
| `Service` | the HTTP threads and the worker over the contract's engine | `server.cpp` |
| `StreamQueue` | the bounded queue of one stream | `server_stream.h` |
| `WasmSession` | the `qev_*` calls | `wasm/decision.cpp` |
| `BrowserWorker` | message handlers cut at their awaits, with the file cache | `worker.js` |
| `BrowserPage`, `BrowserHarness` | the worker's two clients | `app.js`, `benchmark-wasm.mjs` |
| `Browser` | worker and client composed | |
| `CpuExecutor` | the thread pool, one atomic operation per action | `executor.cpp:186-320` |
| `ForkJoin` | what the pool promises | `executor.h:38-75` |
| `RowRanges` | `static_row_range` | `executor.cpp:43-56` |
| `KvPages` | copy-on-write pages | `kv_pages.h` |
| `PrivateRows` | what a KV cache promises | `kv_pages.h:9-11` |
| `Work` | the one variable of the computations below | |
| `Tokenizer`, `ReplyText`, `JsonGrammar` | text in, text out, constrained text | `tokenizer.cpp`, `server_text.h`, `server_grammar.h`, `server_constraint.h` |
| `Words`, `GgufFile`, `ArtifactFile` | checked arithmetic, and the two model files | `gguf.cpp`, `q4_h128_artifact.cpp`, the converter |
| `Weights` | rows from a file to a product's output | `weights.inl`, `gguf_*.inl` |
| `Forward` | the state of a sequence, symbolically | `prefill.inl`, `forward.inl`, `layers.inl` |
| `Attention` | the rows of one attention call and their partitions | `full_attention*`, `attention_partition.h` |
| `KernelDispatch`, `VectorLanes`, `QuantizedDot` | which kernel, its instructions, its sums and tiles | `src/src/cpu/*` |
| `Readout` | from logits to a token | `cpu_engine_greedy.inl`, `layers.inl` |
| `Computations` | all of these as one specification | |
| `MC*` | small instances for TLC | |
| `*_proofs` | theorems checked by TLAPS | |

`CpuEngine` extends `OutputTokens` and `PrefillChunk`. Three refinements are properties
of runs, each an `INSTANCE` with a mapping: `CpuEngine` implements `EngineContract`,
`CpuExecutor` implements `ForkJoin`, `KvPages` implements `PrivateRows`. `Service` is
composed with the contract: its engine's steps are those the contract allows, so what
`CpuEngine` is shown to implement is what `Service` relies on. `Browser` composes the worker,
which calls `WasmSession`, with either client. Operators whose comment
starts with `(Fault)` are wrong on purpose: each is the slip a property guards against,
substituted for the definition it stands before to see that the property notices.

### How CpuEngine corresponds to the code

The engine is not thread-safe and has one owner (`Service::run` holds it), so a method
is one atomic action. `step()` is two actions, the admission and the work, joined by
the flag `scheduling`, which keeps every other method out in between.

| action | code |
| --- | --- |
| `SubmitQueued`, `SubmitActive`, `SubmitRefused` | `submit`, with a queue, without one, and rejected |
| `Admit`, `AdmitWithoutRoom`, `AdmitFails`, `StepWithoutAdmission` | first half of `step`: choose the first admissible queued request, restore its prefix, allocate |
| `PrefillForward`, `PrefillPublish`, `PrefillFallback`, `PrefillFails` | `advance`: one chunk, then the selection of a token if the prompt ended, the publication of a snapshot if the registered boundary was reached, or the cold path when there is no room |
| `DecodeRows`, `DecodeFails`, `DecodeThrows` | `advance_batch`: one forward for the batch, a selection per row; a failed forward; an exception of one row that fails the whole batch in `step` |
| `ReadOutput`, `Cancel`, `Release` | the methods |
| `FindPrefix`, `Register`, `RegisterKnown`, `DropHandle` | the prefix API and the end of a caller's `shared_ptr` |

A forward is reduced to what it does to positions and counters; a selection to the token it
returns or the way it fails (any token of `Vocab`, or an error). A snapshot is an identity
with its namespace, tokens and configuration: two snapshots of equal content are different
objects, as they are in memory and in the byte counter. `KvCapacity` is what `initialize`
allocates. The direct mode (`max_queued_requests` 0) is the same module with
`MaxQueued = 0`: `submit` activates, the caller advances. The snapshots in `Lent` stand for handles
obtained from other engines, which callers may pass, `Configs` for what the engines are
configured with; one of another configuration must not be continued from. Allocation failure
is possible wherever the code allocates and catches.

### How CpuExecutor corresponds to the code

Each plain access to a mailbox and each atomic operation is an action; a `wait` is one
action that compares and blocks, ended by the notification or by nothing else. The
acquire and release orders in the code order the plain accesses; the model is
sequentially consistent and `MailboxOwned` states the absence of the data race that
would make this unsound for the mailboxes. `completed_workers_` is reset with a relaxed
store; it happens before the generation bumps the workers acquire. Spinning is a poll
that may end at any time. The destructor may run only when no call is in progress
(`executor.h:52-56`), which is `Shutdown`'s guard. A thread that cannot be created is
the other disjunct of that guard. `rows = 0` and a null task return at once and are
left out.

### How KvPages corresponds to the code

A cache has `pages` and a row `table`, a page is memory at an address, and an address
is used again when no cache holds it. `append` is two actions, the decision about the
page and the store, because snapshots are handed between engines that may run in
different threads; calls on *one* cache do not overlap (`open` is the guard). The
reference count read by `use_count` is exact and ordered in the model; in C++ it is a
relaxed load, and what a weaker order could add is not represented. A row is one value,
keys and values being written together.

### How Service corresponds to the code

Shared between threads are the pending list, the outstanding counter, the cancelled
flags, the promises and the stream queues; each access under a mutex, or to an atomic,
is a part of one action. The worker's loop is cut at what other threads can see:
`Swap` (it takes the pending list), `AdmitAnswered`/`AdmitSubmitted` per job,
`Stepped`/`StepFails` (the engine's `step` and the failure that ends every active job),
then for each active job a `Visit*`: cancelled or late, its stream full, text and tokens
delivered, the request's end with its flush of decoder and matcher, the answer of a
decision and its next question (`VisitAnswered`, `NextQuestion`). `Enqueue`, `Answer`,
`GiveUp`, `Disconnect`, `WriteText`, `WriteEnd` and `WriteError` are the HTTP threads;
`TimePasses` lets a deadline expire; `Stop` ends the listener. A client may disconnect,
stop reading or never come back.

### How Browser corresponds to the code

A handler runs up to an `await` in one action and leaves a record of where it continues;
`Resume` continues one. Fetches, cache reads and writes succeed, fail, or deliver other
bytes. `Restart` is `worker.terminate()` and a new worker, with whatever the cache was left
with. A load's handler carries what the weights it has got hold (`weights`), because nothing
before `qev_load` looks at it: `LoadEnds` refuses damaged ones, as the artifact reader does.
`found` is a history variable, what the cache held at the beginning. In the page, `Asked`
keeps the one promise, `Resolved` resolves it, the timer is `Timeout`. Buttons the page
disables are not clicked (`app.js` sets `disabled` on each of its `busy` changes). The
benchmark makes one call at a time, as its driver does.

### The computations

`Computations` puts together parts with one owner and no interleaving: each behaviour is
one of them at work, from an input chosen by the bounds. They share the variable `work`,
a record whose `part` says which one it is, so that they are one state space and
one run. Each property is stated against a definition that does not use the operators it
judges:

* `Tokenizer` types every short text over a small alphabet. The judge is the profile's
  regular expression as sets of matches, merging one pair at a time, and the round trip.
  Shown bytes are the real 256-entry alphabet, normal form C is the compositions given.
* `ReplyText` feeds every short byte string in every cut; the judge decodes it whole.
* `JsonGrammar` enumerates tokens after tokens; the judge asks which documents can still
  be completed.
* `GgufFile` reads a file whose every record is arbitrary, with words of twelve bits in
  place of 64, so that overflow happens; `ArtifactFile` may be killed in any write.
* `Weights` follows a symbolic row (its source, basis and form) to where a product
  writes it. `Forward` and `Attention` keep arithmetic symbolic: equal expressions are
  equal values. Constants such as tile sizes are parameters with small values; the
  relations the code needs between them are kept.
* `QuantizedDot` computes each kernel instruction by instruction on integer lanes of
  their real widths (`VectorLanes`, external to the repository) for extreme and
  generic blocks, and the tiles of each product.
* `Readout` enumerates logits with ties and signs, tile sizes and thread counts.

## 3. Runs

| run | checks | what it shows |
| --- | --- | --- |
| `turns` | `TypeOK`, `PausedIsReadable`, `ReadNeverWraps`, `ImplementsContract`, `DeliveredStable`, `OvertakenOnce` | a long and two short requests with overlapping stop sequences over three slots, batches of two, a buffer of two tokens |
| `flight` | `StateIffWorkedOn`, `SingleFlight`, `FullHitHasHidden`, `TokenAccounting`, `EveryRequestFinishes` | three requests over two slots that share a registered prefix, one consisting of it; batches of two; a reader that stalls |
| `store` | `PrefixIdentity`, `WithinBudget`, `PinnedRetained` | registrations of two lengths, builds of two namespaces and handles of two other engines, one of a different configuration, over a budget of three tokens |
| `direct` | `KvWithinCapacity`, `TerminalIsFinal` | the mode without a queue, with lent snapshots |
| `newcomers` | `FairProgress` | expected violation, section 6 |
| `budget` | `WithinBudget` | expected violation, section 6 |
| `dispatch` | `DotBackendIsUsed` | expected violation, section 6 |
| `executor` | `MailboxOwned`, `ImplementsForkJoin`, `NothingHangs` | two callers, three threads, two jobs of up to four rows, shutdown at any time |
| `pages` | `ImplementsPrivateRows` | three caches, pages of two rows |
| `service` | `OutstandingExact`, `NothingLeaked`, `StreamsIntact`, `EveryEndComes` | three jobs of different kinds, two outstanding, a stream queue with room for two pieces, decisions of two questions |
| `browser` | `FlagsAreTrue`, `EngineIsClean`, `OnlyDamagedWeightsHinder`, `OneLoop`, `OnlyCancelledIfAsked`, `DroppedIsNotApplied`, `NeverStuck` | two workers, two decisions of up to two questions, two files, a cache with leftovers: none, cut off, of the right size and damaged |
| `computations` | `GgufIsSafe`, `ArtifactIsWhole`, `WeightsArrive`, `PrefillIsDecode`, `AttentionIsCausal`, `PackedDotIsDot`, `ReadoutsAgree`, `ConstraintIsExact`, `TextIsWhole` | each computation over its inputs |

Every run ends within about two minutes with two workers.

Bounds and why they are enough. `MaxId` bounds the requests submitted in a run; three are
enough for a resident one, one waiting for a slot or a leader, and one passing either: over
two slots (`flight`) one could be let in too many, over three (`turns`) a batch of two
leaves one decoding request out. The prompt of three tokens with chunks of one or two gives
a chunk at a boundary, in the middle and at the end; `MaxBatch` below the number of decoding
requests makes the rotation matter, and an exception of its second row finds the first one
served; `MaxBuffered` of one or two makes requests pause in the middle of a stop sequence.
The prefix budget holds two but not three of the snapshots offered, so eviction, adoption
and both ways of finding no room all happen. In the executor, two jobs suffice for a mailbox
to be rewritten after it was read, three threads for one worker to finish before the other,
and four rows over three threads do not divide. Pages of two rows give a partial and a full
page; three caches give a page that keeps a second holder when a third lets go. Generation
counters are 64 bits wide and are not wrapped. In the service, two outstanding jobs of three
make the third be turned away or wait; the queue's four events and seven bytes are reached
by two pieces and an end. In the browser, two workers show what one leaves to the next. The
inputs of the computations are commented in `MCComputations`: each has sizes below, at and
above the tiles, a remainder, and a tie or an extreme where there is one.

Deadlock is off where the system may stop: `direct` (the IDs are used up and everything
was released), `executor` (the pool is gone), `service` (the worker has exited),
`browser` (the user stops), `computations` and `dispatch` (the computation is over).
Symmetry is used for the caches and values of `pages`, which are interchangeable and
where no liveness is checked.

### Fairness

`flight` assumes weak fairness of the engine's own step and strong fairness of reading,
for every request but the first. `Service::run` loops: each turn it calls `step()` and
then reads the output of every active job (`server.cpp:203-300`), so a step that can be
taken is taken and output that is available again and again is read. The first request's
reader is left without fairness: it may stall, and the others must not notice. Since IDs
are bounded, the property is about finitely many submissions; section 6 says what an
endless stream of them does.

`executor` assumes that each thread which can go on is scheduled some time. Nobody
is obliged to call, and no thread has priority. Spinning loops end: they are bounded by
`spin_count`.

`service` assumes weak fairness of the worker's loop alone (`Work`): the worker never
waits for a client. Nothing is assumed of clients, the clock or the engine, which may take
for ever over a request unless it is cancelled, late, or shut down.

`browser` assumes that event loops run the tasks that are queued (`Receive`, `Resume`,
`PageStep`); the user need not click, and nothing need fail.

## 4. Proofs

Eight modules hold proofs; `tlapm` checks each from nothing. Except for `FairProgress`,
which does not hold, `WithinBudget`, which holds under a hypothesis, and liveness, every
property that a run checks of `CpuEngine`, `CpuExecutor`, `KvPages`, `Service`,
`Browser`, `GgufFile`, `ArtifactFile`, `Forward` or `Readout` is a theorem.

| run's property | theorem |
| --- | --- |
| `TypeOK`, `StateIffWorkedOn`, `KvWithinCapacity`, `TokenAccounting` | `TypeCorrect`, `StateFreedAtOnce`, `NeverOutgrown`, `TokensAccountedFor` |
| `PrefixIdentity`, `FullHitHasHidden`, `ReadNeverWraps`, `PausedIsReadable` | `PrefixIsOwn`, `HiddenStateExists`, `ReadsNeverWrap`, `PausedCanBeRead` |
| `DeliveredStable`, `TerminalIsFinal`, `PinnedRetained` | `DeliveredForGood`, `EndIsFinal`, `PinnedIsKept` |
| `SingleFlight`, `ImplementsContract`, `OvertakenOnce` | `OneBuilder`, `KeepsContract`, `NobodyOvertakesTwice` |
| `WithinBudget` | `BudgetKept`, where estimates are not too low; `OverrunIsBounded` in general |
| `MailboxOwned`, `ImplementsForkJoin` | `MailboxIsOwned`, `ForksAndJoins` |
| `ImplementsPrivateRows` | `RowsArePrivate` |
| `OutstandingExact`, `NothingLeaked`, `StreamsIntact` | `OutstandingIsExact`, `NothingIsLeaked`, `StreamsAreIntact` |
| `FlagsAreTrue`, `EngineIsClean`, `OnlyDamagedWeightsHinder`, `OneLoop` | `FlagsAreTrueAlways`, `EngineIsCleanAlways`, `OnlyDamagedWeightsHinderAlways`, `OneLoopAlways` |
| `OnlyCancelledIfAsked`, `DroppedIsNotApplied` | `OnlyCancelledIfAskedAlways`, `DroppedIsNotAppliedEver` |
| `GgufIsSafe`, `ArtifactIsWhole`, `PrefillIsDecode` | `GgufIndexIsSafe`, `ArtifactStaysWhole`, `PrefillStaysDecode` |
| `ReadoutsAgree` | `ReadoutsAlwaysAgree` |

None of these properties is inductive. What follows is, for each component, the
invariant that is, and why its parts are needed. The proof that a step preserves it has
one case per action; what an action does to one request, worker, page, job or message is a
lemma, and the case cites it.

### The engine's requests (`CpuEngine_proofs`)

Its first lemmas say what the pure operators return, keep and bound: a chunk
advances and crosses no kernel boundary (`ChunkAdvances`, `ChunkCrossesNoBoundary`);
whatever stop condition the next token meets, it cuts the output behind what was already
confirmed (`ConfirmedSurvivesCut`); what each helper on a single request (`Select`,
`Retire`, `Fail`, activation, prefill) preserves.

The invariant `Inv` is

* `GoodTable(requests)`: every request is absent, or *present*, which is the
  conjunction of `Sound` (types, the position equation, the KV bound, a reader within
  the output, an attached snapshot of its own namespace, configuration and tokens),
  `Holding` (model state exactly where it should be) and one predicate per status. A
  queued request has computed nothing. A prefilling one has committed at most its
  prompt and selected nothing, and has the whole-prompt snapshot if the prompt is
  committed. A decoding one has committed its prompt and every output but the last, has
  at least one output to go, and its reader is within what is confirmed;
* the store is a sequence of well-formed entries, and the handles are finitely many
  usable snapshots.

The per-status predicates carry the argument: `KvWithinCapacity` at a decode forward
needs `committed = prompt + generated - 1` and `generated < maxNew`; `ReadNeverWraps`
needs `ConfirmedSurvivesCut`; `FullHitHasHidden` needs that activation keeps the pin.

That there are never more requests with state than slots is the second half of
`StateFreedAtOnce`. No step gives a request a slot but an admission (`CallerLetsNoneIn`,
`WorkLetsNoneIn`), which lets in one, and only where a slot is free (`AdmissionKeepsSlots`);
whatever else ends half way keeps the residents a subset of what they were (`SlotsKept`).

### The engine's steps and its store (`CpuEngineContract_proofs`)

Every step changes each request within the relation `Evolves`: an absent entry stays
absent, a terminal status stays, the output up to the reader stays. From it follow
`DeliveredForGood` and, with `IdsUnused` (IDs at or above the next one are absent),
`EndIsFinal`. An eviction removes only entries that nobody is attached to or holds
(`EvictHolds`), and every other change of the store only adds or reorders: `PinnedIsKept`.

The byte counter is a sum over the entries. A sum over a set of unknown size would need
induction, so the model says it as the size of a set that has as many members per entry
as the entry has bytes (`Weight`): an entry that leaves or joins is a subset taken away or
added. `OverrunIsBounded`: the counter is
that sum at all times, and it exceeds the budget by at most the amount by which one
estimate can be below the real size, however many snapshots were built. Its hypothesis
names that amount, `Excess`, and excludes no configuration; finding 1 is the case of a
positive `Excess`. `BudgetKept` is the case of zero: nothing but a low estimate
breaks the budget.

### Single flight, the contract and the round robin (`CpuEngineContract_proofs`)

* `OneBuilder`: a request builds from its activation until it has published, fallen
  back or ended, and no two ever build the same (`Alone`). Work makes nobody a builder
  who was none (`Lags`). An admission makes one only where no snapshot was stored and the
  scan for a leader found none; a request that adopts what is stored has nothing left to
  build, since what it finds has exactly the registered length (`ExactAttached`).
* `KeepsContract`: `CpuEngine` implements `EngineContract`. Every step of the work
  changes what the owner sees of each request as the contract's `Step` allows
  (`Proceeds`: nothing is read, and nothing begins, is cancelled or is released), and
  every method is the contract's `Call` or changes nothing the owner sees.
* `NobodyOvertakesTwice`: the history of `CpuEngineTurns` tells who was served while
  one waits. The invariant `Queue` says that all of those stand behind the waiting one in
  the order from the last turn; serving somebody turns the order without bringing
  any of them forward, and a batch takes its front (`BatchInFront`).

### The thread pool (`CpuExecutor_proofs`)

For every number of rows and participants, the ranges of `static_row_range` are disjoint
(`RangesDisjoint`), lie within the rows (`RangesWithin`) and cover every row
(`RangesCover`). The invariant of the handshake is, besides types,

* `Exclusive`: at most one caller is past the busy flag, and none outside the pool's life;
* `Mailboxes`: a worker *owes* while it has not seen its mailbox or not finished what it
  found there; it owes only what the present caller has given it, and its mailbox then
  holds that caller's job. So a caller that finds `completed` equal to the number
  of helpers knows that nobody owes anything, which is why the next call may write;
* `Counted`: `completed` is the number of helpers that were given a share and no longer owe;
* `RowsRun`: the rows of the ranges that are done were executed once, all others never.

`MailboxIsOwned` follows from the second part. `ForksAndJoins` from all: at the return
every helper was given a share and counts, so every range is done, and by the range
theorems every row was executed exactly once. Because of it the acquire and release
orders named in section 2 are enough for the plain mailbox accesses.

### Shared pages (`KvPages_proofs`)

Each row is where the arithmetic of the page table puts it (`Shape`); a page has the same
place in every cache that holds it (`InPlace`); a cache between the two steps of `append`
has a page for the next row (`Ready`) and is alone with it (`Apart`). Hence a store
changes no other cache, which is what `PrivateRows` demands: `RowsArePrivate`. `InPlace`
is needed because `Apart` is about a last page, and what is a cache's last page could
otherwise be another's in the middle.

### The service (`Service_proofs`)

A job that waits for its answer is in exactly one of the pending list, the list the worker
took and the active jobs, and there once (`Placed`); so the outstanding counter is their
number (`Counts`), which is `OutstandingIsExact`. An active job is served by the engine
request of its present question, and no other request exists (`Served`): `NothingIsLeaked`.
For each stream the text accepted is on the wire or in the queue, the queue knows the
end exactly when the promise is set, and what may be on the wire depends on where the
HTTP thread is (`Texts`, `Wire`, `Admission`): `StreamsAreIntact`. It needs the lemma
that what `Room` lets through fits, so that the three events of one visit are never
half accepted. `NothingTwice` adds what no run states: a job gets one promise, and its
headers are begun once.

### The browser (`Browser_proofs`)

The handlers of the worker could interleave at their awaits in many ways; what keeps them
apart is the clients. The invariant says where the one question of a client is
(`Phase`): nowhere (`Quiet`), in the inbox (`AskedAt`), at a handler (`ServedBy`), or
answered (`AnsweredAt`). Each case ties it to the worker's flags and session: no handler
is at work in the others, a loading one has an empty session, a deciding one a session with
questions. Cancellations may lie about it anywhere; if one comes after a decision of the
page, the decision was dropped. Each step of the worker moves the question on, and a
client asks only when it is `Quiet`, which `PageOk` and `HarnessOk` say for each of them.
`SoundSession` holds the number of engine requests against the session's
decision, `JobOk` says that the page waits for the last ID it gave out and never applied it
before, and `LoopOk` that autoplay has either its timer or its decision.
`OneQuestion` is this invariant; five of the properties of the run `browser` follow.

The cache's, `OnlyDamagedWeightsHinderAlways`, needs one more. The worker compares the size
of a cached file, and the checksum of every file but the weights (`worker.js:65-75`). So a
copy of the weights that has the right size and is damaged is taken, `qev_load` refuses it
(`worker.js:131`), nothing removes it, and every load fails until the cache is cleared.
The comment at `worker.js:116` promises less, that a *full or blocked* cache does not
prevent a load, and the theorem is what holds: while the server has the files, only such a
copy can make a load fail, and only if it was there at the beginning. `DamageOk` is the
invariant: where nothing damaged was found, the cache has no such copy and no handler has
taken one. It needs that a file being written looks empty until it is complete
(`worker.js:53-56`), and the fault `FileWriting_InPlace` breaks it.

### The model files (`ModelFiles_proofs`)

`Computations` extends modules with RECURSIVE operators, which the prover cannot work
with; its parts share no state but `work`, each behaviour is of one part, and each part
with theorems has a specification of its own (`GgufSpec`, `ArtifactSpec`, `ForwardSpec`,
`ReadoutSpec`) with the same initial states and steps.

A GGUF file is read record by record from arbitrary words. `GgufInv`: every number is
typed; the cursor is within the file, and each key and tensor took its share of what is
before it (`Consumed`, which needs that the keys are finitely many); the tensors indexed so
far have distinct names and lie one behind the other (`Indexed`); those of an opened index,
and what was read of one, are inside the file (`Opened`). The lemmas are about checked
arithmetic: a sum or a product that was let through is the true one (`CheckedSumIs`,
`CheckedProductIs`), so no later bound is met by wrapping.

An artifact is written, checksummed and renamed, and its converter may be killed in any
write. `ArtifactInv` says for each phase what the two names hold: while writing, the
temporary file is `Sound`, with the payloads so far and without a checksum; finalised it is
`Finished`; a killed writer leaves no checksum unless every payload is there (`WellKept`);
what is under the final name is `Finished`; and a file that was accepted delivers each
tensor's own bytes, also after it was altered (`ReadBack`). `LaidIsSound` and
`SoundIsAccepted`: the layout the writer computes passes every test of the reader.
`AcceptedApart`: the reader compares neighbours in the order of offsets only, and that
suffices for any two. `DeliveredIsOwn` follows: each tensor's bytes are its own. Where a
conventional proof would be by induction over a list, these take the least index at which
the claim fails (`LeastExists`).

### The forward pass (`Forward_proofs`)

`PrefillIsDecode` compares what a sequence carries, however it was advanced, with what one
token after the other leaves. The proof's reference is `Whole`: the true input of every
layer at every position of the prompt, defined once for the whole prompt. `ForwardInv`
says that each sequence that did not fail `Holds` at its position what `Whole` makes there (the
ring's slots in their rotation, the recurrent states, the rows of the cache, the hidden
state), with the cache rows that paging or preallocation gives it, and that the snapshot holds
what its own tokens make.

* One kernel at a time: a ring after a batch is the ring after its tokens
  (`RingStep`, `RingAfterIs`, `ConvIs`), also for batches longer than the ring and for a
  convolution without history; the scan of one head after the other sees each head's own
  inputs (`ScanIs`, `HeadByHead`); attention over rows that were stored before, or in the
  same batch, sees exactly the rows up to its own position (`StoredIs`, `AttendsIs`).
* One layer: `LayerBatchIs`, `LayerRowIs`; all layers: `BatchForwardIs`, `RowsForwardIs`.
  The forward's loop over layers is a recursive function; that such a function exists for
  its definition is proved (`InputsExist`, `BatchedExists`, `RowedExists`, `ChainExists`)
  before its equation is used.
* `TrueInputsSame`: no layer looks ahead, so prompts that agree on their first tokens have
  the same true inputs there. This is why a snapshot may serve every prompt that begins
  with its tokens, and the restored state is again what `Holds` demands (`HoldsSame`).

### The readout (`Forward_proofs`)

`ReadoutsAgree` judges an answer by the rule it should follow, stated without its algorithm.
`ReadoutInv` adds what holds until there is an answer: the head, the threads and the logits
fit (`Fitting`), and each slot has, if its thread ran, the best row of its own range and
minus infinity otherwise (`SlotsFilled`).

* One candidate after the other gives the best of them, and of equal ones the first, with
  either comparison of the code, as long as candidates of one value come with their rows in
  order (`BestOfIs`, `RangeBest`); that such a running best exists is proved first
  (`BetteredExists`).
* The ranges of the threads cover the rows once and in order, both the executor's
  (`RowRanges`) and the batch's, some of which are empty (`CutCovers`, `CutRises`). So the best of
  the slots is the best of all rows, in whatever order the threads ran (`SlotsCombine`).
* A thread finds its slot by where its range begins (`SlotOf`), among the ranges of *all*
  threads, though the executor cuts the tiles among the active ones: these are the same
  where a thread is active, and no earlier slot begins there (`SlotIsOwn`, `ActiveIs`).
* The sampler: what `nth_element` keeps and the sort leaves is known up to equal values
  (`SortedIs`); every token above one that is drawn stands before it, so these hold less
  than `top_p` of the mass (`NucleusIs`, `DrawnFits`), for any exponential.

### What is assumed

The named assumptions on the constants, all evaluated by TLC in the runs: `EngineAssumption`
and `CallerAssumption` (limits are positive where the constructor rejects zero, requests are
well formed, the snapshots lent by other engines are too), `ExecutorAssumption`,
`PagesAssumption`, `ServiceAssumption`, `QueueAssumption`, `WorkerAssumption` and
`PageAssumption` (sizes and bounds are natural numbers, and those that the code never lets
be zero are positive; the weights are one of the model's files, which
`model-manifest.js:7-24` verifies); `WordAssumption`, `GgufAssumption`, `ArtifactAssumption`,
`ForwardAssumption` and `ReadoutAssumption` (a word has values, the inputs are numbers and
sequences of them, a convolution has a kernel, logits are above minus infinity, `top_p` is
at most one). How large a word is, is not assumed. The hypotheses of `OverrunIsBounded` and
`BudgetKept` are the only others.

### Only model-checked

* Liveness under fairness: `EveryRequestFinishes`, `NothingHangs`, `EveryEndComes`,
  `NeverStuck`. The prover has no rules for `ENABLED` and fairness.
* `ConstraintIsExact`, `TextIsWhole`, `AttentionIsCausal`, `PackedDotIsDot`: the grammar, the
  decoders, the halving of lanes and the quantised blocks, or what they are judged by, are
  RECURSIVE operators, with which the prover loses its arithmetic.
* `WeightsArrive`: where a part's rows begin is a fold over the parts before it, whose value for
  a list of any length only an induction over data gives.

## 5. Not modelled

* Protocol adapters, drivers, the profile loader and the safetensors reader: formatting
  and I/O of one request or file at a time. The service's routes and the tool-call
  envelope of `server_structured.h`; `clear-cache`, a worker message the page never
  sends.
* Floating point: accumulation of blocks, scales, exponentials, the H128 transform, the
  weight quantisers and their searches, the vector variants of activations and the delta
  net, the addition of one half that AVX2 rounds by. Where a value decides (ties,
  clamping, rounding of activations), it is an integer in the model.
* A weight of -128, which the runtime's own quantisers never produce, in a GGUF file from elsewhere.
* Of files: `validate_profile`, calibration and covariance inputs of the converter,
  canonical layouts and column widths, `f32` vectors.
* Of constrained output: the budgets of states and stacks, the byte classes inside
  strings. Of the stop matcher: the limit of 8192 bytes.
* Of the tokenizer: the vocabulary's and the configuration's JSON, a vocabulary that
  lacks a merged token, invalid UTF-8, the merge cache, which only remembers.
  `looks_like_added_token` (`tokenizer.cpp:662`) takes every entry that looks like
  `<...>` in the *shown* alphabet for text; for one that contains a byte that is shown
  by another code point, decoding would return the shown form. Nothing in the
  repository says whether a vocabulary has one, and the instances have none.
* `merge_attention_partial`, which only a test calls.
* Which layout a snapshot's capture copies: it is picked by backend while allocation
  picks it by `kv_cache_bits` (`weights.inl:434`).
* Memory orders weaker than sequential consistency.

## 6. Findings

1. **The byte budget can be exceeded** (run `budget`).
   `publish_prefix` (`cpu_engine_singleflight.inl:32`) and `register_prefix`
   (`cpu_engine_prefix.inl:45`) make room for an estimate that takes fp16 for granted
   when the backend has AVX2; with `kv_cache_bits = 32` the snapshot holds fp32, and
   its real size is added afterwards. The run sets `Charge` to half of `Bytes`.
   `docs/cpu-engine-api.md:97` says the budget "charges snapshot storage
   conservatively". The run `store`, where estimate and size agree, passes.
2. **A long prompt can be passed over by newcomers** (run `newcomers`). The rotation of
   prefill starts behind the last ID served (`cpu_engine_scheduler.inl:51`), and a new
   request always has a higher ID than the last one served. With one-chunk requests
   arriving steadily the long prompt waits for as long as they do. The tests' only
   statement about this is "fair progress" (`cpu_scheduler_model_test.cpp:339`). Within
   a fixed set of ready requests the rotation is a round robin: `OvertakenOnce`.
3. **The Q8 dot products leave AVX2 unused on some processors** (run `dispatch`).
   `q8_0_dot`, `q8_0_matvec` and `q8_0_matmul` take their AVX2 kernel only if the
   resolved backend *is* AVX2 (`q8_0.cpp:494`); on a processor with AVX-512 and without
   VEX AVX-VNNI the automatic choice resolves to an AVX-512 backend, and they run the
   scalar kernel. `tests/q8_0_test.cpp:519-521` states which backend a dot product
   takes there: AVX2. The result is the same, only slower.

## 7. Plan

Done, in this order: `PrefillChunk`, `OutputTokens`, `CpuEngine` with its proofs,
`CpuEngineTurns`, `RowRanges`, `ForkJoin`, `CpuExecutor`, `PrivateRows`, `KvPages`; then
`EngineContract` with the engine's refinement, `StreamQueue`, `Service`, `WasmSession`,
`BrowserWorker` and its clients, and the computations.

Proved, in this order: the engine's requests, its steps and store, its contract with
single flight and the round robin, the executor, the pages, the service, the browser, the
model files, the forward pass, the readout.

Next theorems: the symbolic rows of `Weights`; that the partitions of an attention
call cover its rows.
