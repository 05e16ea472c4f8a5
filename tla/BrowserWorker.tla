---------------------------- MODULE BrowserWorker ----------------------------
(***************************************************************************)
(* The browser's worker: it loads the model's files, from the browser's     *)
(* cache or from the server, into a decision session, and runs decisions,   *)
(* yielding between the steps of the engine so that a cancellation can be   *)
(* received.  A message handler runs up to an await without interruption;   *)
(* between two awaits handlers of other messages run, and they share the    *)
(* flags module, loading, running and cancelled.                            *)
(*                                                                         *)
(* The client may terminate the worker between any two of its steps.  What  *)
(* the worker has sent is still delivered.                                  *)
(***************************************************************************)
EXTENDS Integers, Sequences, FiniteSets, WasmSession

CONSTANTS
    Files,              \* the files of the model, in the manifest's order
    Weights,            \* the one whose checksum the engine validates
    Stores,             \* what openModelCache may return, "none" if nothing
    Found,              \* what earlier visits may have left in the cache
    MaxQuestions,       \* of a decision
    MaxSteps            \* of the engine, before a question is answered

ASSUME WorkerAssumption ==
    /\ Files \in Seq(STRING) /\ Stores \subseteq {"opfs", "cache-api", "none"}
    /\ Weights \in {Files[i] : i \in 1..Len(Files)}
    /\ MaxQuestions \in Nat \ {0} /\ MaxSteps \in Nat
    /\ \A c \in Found : c \in [{Files[i] : i \in 1..Len(Files)} -> {"absent", "short", "corrupt", "good"}]

VARIABLES
    owner,      \* which worker this is, 0 for none
    worker,     \* its flags
    handlers,   \* the message handlers that are at an await
    session,    \* the WASM module's session
    steps,      \* of the engine for the present question
    inbox,      \* messages to the worker
    outbox,     \* messages to the client, of this worker or an earlier one
    cache,      \* per file: what the browser's cache has of it
    server      \* what a fetch brings

workerVars == <<owner, worker, handlers, session, steps, inbox, outbox, cache, server>>

FileNames == {Files[i] : i \in 1..Len(Files)}
Contents == {"absent", "short", "corrupt", "good"}

Fresh == [module |-> FALSE, loading |-> FALSE, running |-> FALSE, cancelled |-> FALSE]

InitWorker ==
    /\ owner = 0 /\ worker = Fresh /\ handlers = {} /\ session = NoSession /\ steps = 0
    /\ inbox = <<>> /\ outbox = <<>>
    /\ cache \in Found /\ server \in {"down", "corrupt", "good"}

\* A new worker in the place of the present one.
Restart(n) ==
    /\ owner' = n /\ worker' = Fresh /\ handlers' = {} /\ session' = NoSession /\ steps' = 0
    /\ UNCHANGED <<cache, server>>

Post(message) == inbox' = Append(inbox, message)
Send(type, id, why) ==
    outbox' = Append(outbox, [owner |-> owner, type |-> type, id |-> id, why |-> why])
Received == inbox' = Tail(inbox)

\* The catch clause that ends every handler.
Throw(id, why, s) ==
    /\ session' = IF worker.running /\ worker.module THEN Cancelled(s) ELSE s
    /\ worker' = [worker EXCEPT !.running = FALSE, !.loading = FALSE]
    /\ Send("error", id, why)

Refuse(id) == Throw(id, "protocol", session) /\ UNCHANGED <<handlers, steps, cache>>

-----------------------------------------------------------------------------
(* Loading.                                                                 *)

\* A load at an await: what it waits for, the next file, the open cache, and what the
\* weights it has got hold.
LoadAt(at, file, store, weights) ==
    [type |-> "load", id |-> 0, at |-> at, file |-> file, store |-> store, weights |-> weights]

LoadStarts ==
    /\ inbox # <<>> /\ Head(inbox).type = "load" /\ Received
    /\ IF worker.loading \/ worker.running \/ worker.module THEN Refuse(0)
       ELSE /\ worker' = [worker EXCEPT !.loading = TRUE]
            /\ handlers' = handlers \cup {LoadAt("module", 1, "none", "absent")}
            /\ UNCHANGED <<session, steps, outbox, cache>>
    /\ UNCHANGED <<owner, server>>

LoadFails(h, why) == Throw(0, why, session) /\ handlers' = handlers \ {h}

\* The module is instantiated and the cache is opened; both may fail.
ModuleMade(h) ==
    /\ h.type = "load" /\ h.at = "module"
    /\ \/ /\ worker' = [worker EXCEPT !.module = TRUE]
          /\ \E store \in Stores : handlers' = (handlers \ {h}) \cup {LoadAt("file", 1, store, "absent")}
          /\ UNCHANGED <<session, outbox>>
       \/ LoadFails(h, "runtime")
    /\ UNCHANGED <<owner, steps, inbox, cache, server>>

\* (Fault) A cache that fails ends the load.
FileFails_Final(h) == LoadFails(h, "file")

\* A file that cannot be had through the cache is fetched without it.
FileFails(h) ==
    IF h.store = "none" THEN LoadFails(h, "file")
    ELSE /\ handlers' = (handlers \ {h}) \cup {LoadAt("file", h.file, "none", h.weights)}
         /\ UNCHANGED <<worker, session, outbox>>

\* The size of every file is checked, the checksum of all but the weights.
Accepted(h, content) == content = "good" \/ (content = "corrupt" /\ Files[h.file] = Weights)

\* What is known of the weights when the next file holds content.
WeightsWith(h, content) == IF Files[h.file] = Weights THEN content ELSE h.weights

\* getFile has the file's bytes, and the cache is left with copy.
Blob(h, content, copy) ==
    /\ cache' = [cache EXCEPT ![Files[h.file]] = copy]
    /\ IF Accepted(h, content)
       THEN /\ handlers' = (handlers \ {h}) \cup {LoadAt("file", h.file + 1, h.store, WeightsWith(h, content))}
            /\ UNCHANGED <<worker, session, outbox>>
       ELSE FileFails(h)

Loading(h) == h.type = "load" /\ h.at = "file" /\ h.file <= Len(Files)
Copy(h) == cache[Files[h.file]]

\* The cache has the file, or cannot be read.  A copy of the wrong size is dropped.
FileCached(h) ==
    /\ Loading(h) /\ h.store # "none"
    /\ \/ Copy(h) # "absent" /\ Blob(h, Copy(h), IF Copy(h) = "short" THEN "absent" ELSE Copy(h))
       \/ FileFails(h) /\ UNCHANGED cache
    /\ UNCHANGED <<owner, steps, inbox, server>>

\* The file is fetched.  The Cache API takes its copy aside, or fails to.
FileFetched(h) ==
    /\ Loading(h) /\ h.store # "opfs" /\ (h.store = "cache-api" => Copy(h) = "absent")
    /\ IF server = "down" THEN FileFails(h) /\ UNCHANGED cache
       ELSE \E copy \in IF h.store = "none" THEN {Copy(h)} ELSE {Copy(h), server} : Blob(h, server, copy)
    /\ UNCHANGED <<owner, steps, inbox, server>>

\* (Fault) The file has its full size while it is written.
FileWriting_InPlace(h) ==
    /\ Loading(h) /\ h.store = "opfs" /\ Copy(h) = "absent"
    /\ IF server = "down" THEN FileFails(h) /\ UNCHANGED cache
       ELSE /\ cache' = [cache EXCEPT ![Files[h.file]] = "corrupt"]
            /\ handlers' = (handlers \ {h}) \cup {[h EXCEPT !.at = "writing"]}
            /\ UNCHANGED <<worker, session, outbox>>
    /\ UNCHANGED <<owner, steps, inbox, server>>

\* In the private file system the copy is written first, into a file that is empty
\* until it is complete.
FileWriting(h) ==
    /\ Loading(h) /\ h.store = "opfs" /\ Copy(h) = "absent"
    /\ IF server = "down" THEN FileFails(h) /\ UNCHANGED cache
       ELSE /\ cache' = [cache EXCEPT ![Files[h.file]] = "short"]
            /\ handlers' = (handlers \ {h}) \cup {[h EXCEPT !.at = "writing"]}
            /\ UNCHANGED <<worker, session, outbox>>
    /\ UNCHANGED <<owner, steps, inbox, server>>

FileWritten(h) ==
    /\ h.type = "load" /\ h.at = "writing"
    /\ \/ Blob(h, server, server)
       \/ cache' = [cache EXCEPT ![Files[h.file]] = "absent"] /\ FileFails(h)
    /\ UNCHANGED <<owner, steps, inbox, server>>

\* All files are there: the session is configured and loaded in one go.  The engine
\* validates the weights, and damaged ones never load.
LoadEnds(h) ==
    /\ h.type = "load" /\ h.at = "file" /\ h.file > Len(Files)
    /\ \E outcome \in {"ok", "fails", "rejected"} :
          LET r == Load(session, outcome)
              damaged == h.weights = "corrupt" IN
          /\ damaged => outcome # "ok"
          /\ IF r.reply = "error"
             THEN LoadFails(h, IF damaged /\ outcome = "fails" THEN "weights" ELSE "engine")
             ELSE /\ session' = r.session
                  /\ worker' = [worker EXCEPT !.loading = FALSE]
                  /\ handlers' = handlers \ {h} /\ Send("ready", 0, "")
    /\ UNCHANGED <<owner, steps, inbox, cache, server>>

-----------------------------------------------------------------------------
(* Decisions.                                                               *)

Bodies == [kind : {"malformed", "refused", "valid"}, questions : 1..MaxQuestions]

Deciding(id) ==
    [type |-> "decide", id |-> id, at |-> "yield", file |-> 0, store |-> "none", weights |-> "absent"]

\* A handler that begins a decision while one runs, or without a model, throws.
Begins(id, body) ==
    IF ~worker.module \/ worker.loading \/ worker.running THEN Throw(id, "protocol", session)
    ELSE LET r == Begin(session, body) IN
         /\ r.reply = "error"
         /\ session' = Cancelled(r.session)
         /\ worker' = [worker EXCEPT !.running = FALSE, !.loading = FALSE, !.cancelled = FALSE]
         /\ Send("error", id, "request")

\* (Fault) The flag of an earlier cancellation is kept.
Decide_KeepsFlag ==
    /\ inbox # <<>> /\ Head(inbox).type = "decide" /\ Received
    /\ LET id == Head(inbox).id IN
       \/ \E body \in Bodies : Begins(id, body) /\ UNCHANGED <<handlers, steps>>
       \/ /\ worker.module /\ ~worker.loading /\ ~worker.running
          /\ \E body \in Bodies :
                LET r == Begin(session, body) IN r.reply = "running" /\ session' = r.session
          /\ worker' = [worker EXCEPT !.running = TRUE]
          /\ handlers' = handlers \cup {Deciding(id)} /\ steps' = 0
          /\ UNCHANGED outbox
    /\ UNCHANGED <<owner, cache, server>>

Decide ==
    /\ inbox # <<>> /\ Head(inbox).type = "decide" /\ Received
    /\ LET id == Head(inbox).id IN
       \/ \E body \in Bodies : Begins(id, body) /\ UNCHANGED <<handlers, steps>>
       \/ /\ worker.module /\ ~worker.loading /\ ~worker.running
          /\ \E body \in Bodies :
                LET r == Begin(session, body) IN r.reply = "running" /\ session' = r.session
          /\ worker' = [worker EXCEPT !.running = TRUE, !.cancelled = FALSE]
          /\ handlers' = handlers \cup {Deciding(id)} /\ steps' = 0
          /\ UNCHANGED outbox
    /\ UNCHANGED <<owner, cache, server>>

\* The loop of a decision after an await: a cancellation ends it, or one more step
\* of the engine.
Resumed(h) ==
    /\ h.type = "decide"
    /\ \E outcome \in {"running", "answered", "failed"} :
          LET r == IF worker.cancelled THEN Cancel(session) ELSE Step(session, outcome) IN
          /\ outcome = "running" => steps < MaxSteps
          /\ steps' = IF outcome = "running" THEN steps + 1 ELSE 0
          /\ CASE r.reply = "running" -> session' = r.session /\ UNCHANGED <<handlers, worker, outbox>>
               [] r.reply = "error" ->
                    Throw(h.id, "step", r.session) /\ handlers' = handlers \ {h}
               [] OTHER ->
                    /\ session' = r.session /\ handlers' = handlers \ {h}
                    /\ worker' = [worker EXCEPT !.running = FALSE]
                    /\ Send("result", h.id, r.reply)
    /\ UNCHANGED <<owner, inbox, cache, server>>

\* A request is prepared for its tokens only.
Prepare ==
    /\ inbox # <<>> /\ Head(inbox).type = "prepare" /\ Received
    /\ LET id == Head(inbox).id IN
       \/ \E body \in Bodies : Begins(id, body)
       \/ /\ worker.module /\ ~worker.loading /\ ~worker.running
          /\ \E body \in Bodies :
                LET r == Begin(session, body) IN
                r.reply = "running" /\ session' = Cancel(r.session).session
          /\ worker' = [worker EXCEPT !.cancelled = FALSE]
          /\ Send("prepared", id, "")
    /\ UNCHANGED <<owner, handlers, steps, cache, server>>

CancelReceived ==
    /\ inbox # <<>> /\ Head(inbox).type = "cancel" /\ Received
    /\ worker' = [worker EXCEPT !.cancelled = TRUE]
    /\ UNCHANGED <<owner, handlers, session, steps, outbox, cache, server>>

Retune ==
    /\ inbox # <<>> /\ Head(inbox).type = "tune" /\ Received
    /\ IF ~worker.module \/ worker.loading \/ worker.running THEN Refuse(Head(inbox).id)
       ELSE /\ \E outcome \in {"rejected", "fails", "ok"} :
                  LET r == Tune(session, outcome) IN
                  IF r.reply = "error" THEN Throw(Head(inbox).id, outcome, r.session)
                  ELSE session' = r.session /\ Send("ready", 0, "") /\ UNCHANGED worker
            /\ UNCHANGED <<handlers, steps, cache>>
    /\ UNCHANGED <<owner, server>>

\* A message is handled up to its first await.
Receive == LoadStarts \/ Decide \/ Prepare \/ CancelReceived \/ Retune

\* A handler at an await goes on.
Resume ==
    \E h \in handlers :
       \/ ModuleMade(h) \/ FileCached(h) \/ FileFetched(h) \/ FileWriting(h) \/ FileWritten(h)
       \/ LoadEnds(h) \/ Resumed(h)
=============================================================================
