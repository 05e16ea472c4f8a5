------------------------------- MODULE Service -------------------------------
(***************************************************************************)
(* The HTTP service: one worker that owns the engine, and an HTTP thread    *)
(* per request that enqueues a job, waits for its answer and, for a stream, *)
(* writes the events.  They share the pending list, the counter of          *)
(* outstanding jobs, the cancelled flags, the promises and the stream       *)
(* queues; everything else belongs to the worker.  Clients disconnect and   *)
(* stop reading at any time, jobs reach their deadline at any time, the     *)
(* engine fails, and the listener ends.                                     *)
(*                                                                         *)
(* A job's cancelled flag is read once per atomic action: where the code    *)
(* reads it twice in a row, a cancellation in between is one that comes     *)
(* after the action, except in the answer of a decision, which is an action *)
(* of its own.                                                              *)
(***************************************************************************)
EXTENDS Integers, Sequences, FiniteSets, SequencesExt, StreamQueue

CONSTANTS
    Jobs,               \* the requests of the clients
    Kinds,              \* what they may be, "none" for no request
    MaxOutstanding,     \* jobs accepted at once (64)
    Questions,          \* questions of a decision
    MaxTokens,          \* max_new_tokens of each kind of request
    Token               \* the token

ASSUME ServiceAssumption ==
    /\ MaxOutstanding \in Nat \ {0} /\ Questions \in Nat \ {0} 
    /\ MaxTokens \in [{"plain", "stream", "tools", "messages"} -> Nat]
    /\ Kinds \subseteq [Jobs -> {"plain", "stream", "tools", "messages", "decision", "count", "none"}]

VARIABLES
    kind,           \* what each job is
    http,           \* where its HTTP thread is
    wire,           \* what the client was sent (history)
    cancelled,      \* Job::cancelled
    late,           \* five minutes have passed
    admitted,       \* the promise of the admission
    promise,        \* the promise of the reply
    events,         \* the stream queue
    accepted,       \* the pieces of text pushed (history)
    pending,        \* Service::pending_
    outstanding,    \* Service::outstanding_
    stopping,       \* Service::stopping_
    phase,          \* where the worker is
    stopSeen,       \* its copy of stopping_
    taken,          \* the jobs it swapped out of pending_
    active,         \* the jobs it serves, with their engine request
    cursor,         \* the one it visits
    question,       \* Job::question
    engine          \* the engine's requests

clients == <<kind, http, wire, late>>
shared == <<pending, outstanding, stopping>>
answers == <<admitted, promise, events>>
worker == <<phase, stopSeen, taken, active, cursor, question>>
vars == <<clients, cancelled, shared, answers, accepted, worker, engine>>

\* An engine request is named after the job and the question it serves.
Ids == Jobs \X (1..Questions)
E == INSTANCE EngineContract WITH Ids <- Ids, Vocab <- {Token}

Streams == {j \in Jobs : kind[j] \in {"stream", "tools", "messages"}}

Replies == {"ok", "invalid", "cancelled", "failed", "late", "overflow"}

Init ==
    /\ kind \in Kinds
    /\ http = [j \in Jobs |-> "new"] /\ wire = [j \in Jobs |-> <<>>]
    /\ cancelled = [j \in Jobs |-> FALSE] /\ late = [j \in Jobs |-> FALSE]
    /\ admitted = [j \in Jobs |-> NoReply] /\ promise = [j \in Jobs |-> NoReply]
    /\ events = [j \in Jobs |-> EmptyQueue] /\ accepted = [j \in Jobs |-> 0]
    /\ pending = <<>> /\ outstanding = 0 /\ stopping = FALSE
    /\ phase = "visit" /\ stopSeen = FALSE /\ taken = <<>>
    /\ active = <<>> /\ cursor = 1 /\ question = [j \in Jobs |-> 1]
    /\ E!Init

-----------------------------------------------------------------------------
(* The HTTP threads.                                                        *)

\* dispatch: the service takes the job or has no capacity for it.
Enqueue(j) ==
    /\ http[j] = "new" /\ kind[j] # "none" /\ ~stopping
    /\ outstanding < MaxOutstanding
    /\ pending' = Append(pending, j) /\ outstanding' = outstanding + 1
    /\ http' = [http EXCEPT ![j] = "waiting"]
    /\ UNCHANGED <<kind, wire, late, cancelled, stopping, answers, accepted, worker, engine>>

Send(j, what) == wire' = [wire EXCEPT ![j] = Append(@, what)]
Leave(j) == http' = [http EXCEPT ![j] = "done"]

Refuse(j) ==
    /\ http[j] = "new" /\ kind[j] # "none" /\ ~stopping
    /\ outstanding >= MaxOutstanding
    /\ Leave(j) /\ Send(j, "busy")
    /\ UNCHANGED <<kind, late, cancelled, shared, answers, accepted, worker, engine>>

\* What the thread waits for: a stream starts when the job is admitted.
Answer(j) == IF j \in Streams THEN admitted[j] ELSE promise[j]

\* The answer is a reply as a whole, or the start of the events.
Reply(j) ==
    /\ http[j] = "waiting" /\ Answer(j) # NoReply
    /\ IF j \in Streams /\ Answer(j) = "ok"
       THEN http' = [http EXCEPT ![j] = "streaming"] /\ Send(j, "open")
       ELSE Leave(j) /\ Send(j, Answer(j))
    /\ UNCHANGED <<kind, late, cancelled, shared, answers, accepted, worker, engine>>

\* The thread's own deadline, found after a wait that timed out.  (After the job
\* was answered, giving up or losing the client changes nothing for anybody: it
\* is left out here and in Disconnect.)
GiveUp(j) ==
    /\ http[j] = "waiting" /\ late[j] /\ promise[j] = NoReply
    /\ cancelled' = [cancelled EXCEPT ![j] = TRUE]
    /\ Leave(j) /\ Send(j, "late")
    /\ UNCHANGED <<kind, late, shared, answers, accepted, worker, engine>>

\* The client is gone: seen between two waits, by a write that fails, or by
\* httplib when it gives up the response.
Disconnect(j) ==
    /\ http[j] \in {"waiting", "streaming"} /\ promise[j] = NoReply
    /\ cancelled' = [cancelled EXCEPT ![j] = TRUE]
    /\ Leave(j)
    /\ UNCHANGED <<kind, wire, late, shared, answers, accepted, worker, engine>>

WriteText(j) ==
    /\ http[j] = "streaming" /\ events[j].text # <<>>
    /\ events' = [events EXCEPT ![j] = Popped(@)]
    /\ Send(j, "text")
    /\ UNCHANGED <<kind, http, late, cancelled, shared, admitted, promise, accepted, worker, engine>>

\* The events of a successful end, each a write of its own.
Ending(k) ==
    CASE k = "stream" -> <<"finish", "done">>
      [] k = "tools" -> <<"calls", "finish", "done">>
      [] k = "messages" -> <<"done">>

WriteError(j) ==
    /\ http[j] = "streaming" /\ ShowsEnd(events[j]) /\ events[j].terminal # "ok"
    /\ Leave(j) /\ Send(j, "error")
    /\ UNCHANGED <<kind, late, cancelled, shared, answers, accepted, worker, engine>>

WriteEnd(j) ==
    LET written == Cardinality({k \in DOMAIN wire[j] : wire[j][k] \in {"calls", "finish"}})
        ending == Ending(kind[j])
    IN  /\ \/ http[j] = "streaming" /\ ShowsEnd(events[j]) /\ events[j].terminal = "ok"
           \/ http[j] = "ending"
        /\ Send(j, ending[written + 1])
        /\ http' = [http EXCEPT ![j] = IF written + 1 = Len(ending) THEN "done" ELSE "ending"]
        /\ UNCHANGED <<kind, late, cancelled, shared, answers, accepted, worker, engine>>

\* The jobs the service has taken.
Enqueued == {j \in Jobs : http[j] # "new" /\ "busy" \notin ToSet(wire[j])}

\* Five minutes after the job was made.
TimePasses(j) ==
    /\ j \in Enqueued /\ promise[j] = NoReply /\ ~late[j]
    /\ late' = [late EXCEPT ![j] = TRUE]
    /\ UNCHANGED <<kind, http, wire, cancelled, shared, answers, accepted, worker, engine>>

\* listen() returns when the HTTP threads have been joined; then ~Service.
Stop ==
    /\ ~stopping /\ \A j \in Jobs : http[j] \in {"new", "done"}
    /\ stopping' = TRUE
    /\ UNCHANGED <<clients, cancelled, pending, outstanding, answers, accepted, worker, engine>>

-----------------------------------------------------------------------------
(* The worker.                                                              *)

\* (Fault) finish does not count a job that was never admitted.
Finish_OnlyAdmitted(F, reply, queues) ==
    /\ outstanding' = outstanding - Cardinality({j \in F : admitted[j] # NoReply})
    /\ admitted' = [j \in Jobs |-> IF j \in F /\ admitted[j] = NoReply THEN reply ELSE admitted[j]]
    /\ events' = [j \in Jobs |-> IF j \in F \cap Streams THEN Finished(queues[j], reply)
                                                       ELSE queues[j]]
    /\ promise' = [j \in Jobs |-> IF j \in F THEN reply ELSE promise[j]]

\* finish() of each job in F: no longer outstanding, and answered on every
\* channel somebody may wait on.
Finish(F, reply, queues) ==
    /\ outstanding' = outstanding - Cardinality(F)
    /\ admitted' = [j \in Jobs |-> IF j \in F /\ admitted[j] = NoReply THEN reply ELSE admitted[j]]
    /\ events' = [j \in Jobs |-> IF j \in F \cap Streams THEN Finished(queues[j], reply)
                                                       ELSE queues[j]]
    /\ promise' = [j \in Jobs |-> IF j \in F THEN reply ELSE promise[j]]

\* The worker is between two rounds of its loop.
RoundEnded == phase = "visit" /\ cursor \notin DOMAIN active

\* (Fault) The worker that has nothing to do does not notice the shutdown.
Swap_SleepsOn ==
    /\ RoundEnded /\ ~(stopSeen /\ active = <<>>)
    /\ active # <<>> \/ pending # <<>>
    /\ taken' = pending /\ pending' = <<>> /\ stopSeen' = stopping
    /\ phase' = "admit" /\ cursor' = 1
    /\ UNCHANGED <<clients, cancelled, outstanding, stopping, answers, accepted,
                   active, question, engine>>

\* The next round takes all pending jobs; the worker sleeps when there is nothing
\* to do.
Swap ==
    /\ RoundEnded /\ ~(stopSeen /\ active = <<>>)
    /\ active # <<>> \/ pending # <<>> \/ stopping
    /\ taken' = pending /\ pending' = <<>> /\ stopSeen' = stopping
    /\ phase' = "admit" /\ cursor' = 1
    /\ UNCHANGED <<clients, cancelled, outstanding, stopping, answers, accepted,
                   active, question, engine>>

Job == Head(taken)

\* A job that is turned down before it reaches the engine, or only counted.
AdmitAnswered(reply) ==
    /\ phase = "admit" /\ taken # <<>>
    /\ reply = "cancelled" <=> stopSeen \/ cancelled[Job]
    /\ reply = "ok" => kind[Job] = "count"
    /\ Finish({Job}, reply, events)
    /\ taken' = Tail(taken)
    /\ UNCHANGED <<clients, cancelled, pending, stopping, accepted, phase, stopSeen,
                   active, cursor, question, engine>>

Submit(id) == engine' = [engine EXCEPT ![id] = E!Begun]

\* The engine has the job; the client of a stream may have its headers.
AdmitSubmitted ==
    /\ phase = "admit" /\ taken # <<>> /\ ~stopSeen /\ ~cancelled[Job]
    /\ kind[Job] # "count"
    /\ Submit(<<Job, 1>>)
    /\ active' = Append(active, [job |-> Job, id |-> <<Job, 1>>])
    /\ admitted' = IF kind[Job] = "decision" THEN admitted
                                             ELSE [admitted EXCEPT ![Job] = "ok"]
    /\ taken' = Tail(taken)
    /\ UNCHANGED <<clients, cancelled, shared, promise, events, accepted, phase, stopSeen,
                   cursor, question>>

ActiveJobs == {active[k].job : k \in DOMAIN active}
ActiveIds == {active[k].id : k \in DOMAIN active}

\* The requests of jobs that were cancelled, before every step.
Swept ==
    [i \in Ids |-> IF i \in ActiveIds /\ (stopSeen \/ cancelled[i[1]])
                   THEN E!Cancelled(engine[i]) ELSE engine[i]]

\* max_new_tokens; a decision is read from the logits of one.
Limit(j) == IF kind[j] = "decision" THEN 1 ELSE MaxTokens[kind[j]]

\* What one step may make of a working request r: at most one more token, an end
\* with or without it, no later than at the token limit.
Outcomes(r) ==
    {[r EXCEPT !.rest = x, !.status = st] :
        x \in {r.rest, Append(r.rest, Token)}, st \in {"working", "complete", "failed"}}

Stepped(r, limit) ==
    LET size(s) == Len(s.delivered) + Len(s.rest) IN
    IF r.status # "working" THEN {r}
    ELSE {s \in Outcomes(r) :
            size(s) <= limit /\ (s.status = "working" => size(s) < limit)}

Step ==
    /\ phase = "admit" /\ taken = <<>>
    /\ \E next \in [ActiveIds -> UNION {Stepped(Swept[i], Limit(i[1])) : i \in ActiveIds}] :
         /\ \A i \in ActiveIds : next[i] \in Stepped(Swept[i], Limit(i[1]))
         /\ engine' = [i \in Ids |-> IF i \in ActiveIds THEN next[i] ELSE engine[i]]
    /\ phase' = "visit"
    /\ UNCHANGED <<clients, cancelled, shared, answers, accepted, stopSeen, taken, active,
                   cursor, question>>

\* step() returns false: every active job is answered.
StepFails ==
    /\ phase = "admit" /\ taken = <<>> /\ active # <<>>
    /\ engine' = [i \in Ids |-> IF i \in ActiveIds THEN E!Released ELSE engine[i]]
    /\ Finish(ActiveJobs, "failed", events)
    /\ active' = <<>>
    /\ phase' = "visit"
    /\ UNCHANGED <<clients, cancelled, pending, stopping, accepted, stopSeen, taken, cursor,
                   question>>

-----------------------------------------------------------------------------
(* Visiting the active jobs, one after the other.                           *)

At == active[cursor]
Visiting == phase = "visit" /\ cursor \in DOMAIN active

\* The job is answered, its engine request released.
Close(reply, queues) ==
    /\ Finish({At.job}, reply, queues)
    /\ engine' = [engine EXCEPT ![At.id] = E!Released]
    /\ active' = RemoveAt(active, cursor)
    /\ phase' = "visit"
    /\ UNCHANGED <<clients, cancelled, pending, stopping, stopSeen, taken, cursor, question>>

\* The job stays, its request is now r, and the next one is visited.
KeepAs(r) ==
    /\ engine' = [engine EXCEPT ![At.id] = r]
    /\ cursor' = cursor + 1
    /\ UNCHANGED <<clients, cancelled, shared, admitted, promise, phase, stopSeen,
                   taken, active, question>>

Full(j) == j \in Streams /\ ~Room(events[j])

VisitLate ==
    /\ Visiting /\ late[At.job]
    /\ Close("late", events) /\ UNCHANGED accepted

VisitCancelled ==
    /\ Visiting /\ ~late[At.job] /\ (cancelled[At.job] \/ stopSeen)
    /\ Close("cancelled", events) /\ UNCHANGED accepted

Serving == Visiting /\ ~late[At.job] /\ ~cancelled[At.job] /\ ~stopSeen

\* A reader that is behind pauses its own job only.
VisitFull ==
    /\ Serving /\ Full(At.job)
    /\ KeepAs(engine[At.id]) /\ UNCHANGED <<events, accepted>>

Ready == Serving /\ ~Full(At.job)

\* read_output of one token, if there is one.
Unread == engine[At.id].rest # <<>>
ReadOne == E!Read(engine[At.id], IF Unread THEN 1 ELSE 0)

\* accept() of the texts of one visit, <<0, 0, 0>> for none: only the deltas of a
\* stream without tools are queued.
Deltas(j) == kind[j] \in {"stream", "messages"}

Queued(j, sizes) ==
    IF Deltas(j)
    THEN [events EXCEPT ![j] = Pushed(Pushed(Pushed(@, sizes[1]), sizes[2]), sizes[3])]
    ELSE events

\* Whether none of these pushes throws.
Accepts(j, sizes) ==
    LET one == Pushed(events[j], sizes[1])
        takes(q, size) == size > 0 => Fits(q, size)
    IN  Deltas(j) => /\ takes(events[j], sizes[1]) /\ takes(one, sizes[2])
                     /\ takes(Pushed(one, sizes[2]), sizes[3])

\* Text comes from a token: nothing when it is held back, and with the piece in
\* front of a stop sequence when it completes one.
FromToken(size, stopped) ==
    /\ Ready /\ kind[At.job] # "decision"
    /\ size > 0 \/ stopped => Unread

Complete(stopped) ==
    stopped \/ (engine[At.id].status = "complete" /\ ReadOne.rest = <<>>)

Counted(sizes) ==
    accepted' = IF Deltas(At.job)
                THEN [accepted EXCEPT ![At.job] = @ + Cardinality({n \in 1..3 : sizes[n] > 0})]
                ELSE accepted

\* A push that throws ends the job.
Overflow == Close("overflow", events) /\ UNCHANGED accepted

\* The request goes on, or has tokens left to drain.
VisitText(size) ==
    /\ FromToken(size, FALSE) /\ ~Complete(FALSE)
    /\ engine[At.id].status \in {"working", "complete"}
    /\ LET sizes == <<size, 0, 0>> IN
       IF Accepts(At.job, sizes)
       THEN events' = Queued(At.job, sizes) /\ Counted(sizes) /\ KeepAs(ReadOne)
       ELSE Overflow

\* The job is closed after the last texts were passed on.
CloseWith(reply, sizes) ==
    IF Accepts(At.job, sizes)
    THEN Close(reply, Queued(At.job, sizes)) /\ Counted(sizes)
    ELSE Overflow

\* The text ends: what the decoder and the matcher hold is flushed, nothing
\* after a stop.  Completing the reply may still fail.
VisitTextEnds(size, stopped, flushed, reply) ==
    /\ FromToken(size, stopped) /\ Complete(stopped)
    /\ stopped => flushed = <<0, 0>>
    /\ CloseWith(reply, <<size, flushed[1], flushed[2]>>)

\* The request failed in the engine; the text read last is still passed on.
VisitTextFails(size) ==
    /\ FromToken(size, FALSE) /\ engine[At.id].status = "failed"
    /\ CloseWith("failed", <<size, 0, 0>>)

\* The token cannot be decoded.
VisitUndecodable ==
    /\ Ready /\ kind[At.job] # "decision" /\ Unread
    /\ Close("failed", events) /\ UNCHANGED accepted

\* A decision: nothing to do before the engine has evaluated the question.
VisitDecision ==
    /\ Ready /\ kind[At.job] = "decision" /\ engine[At.id].status = "working"
    /\ KeepAs(ReadOne) /\ UNCHANGED <<events, accepted>>

VisitDecisionFails ==
    /\ Ready /\ kind[At.job] = "decision" /\ engine[At.id].status = "failed"
    /\ Close("failed", events) /\ UNCHANGED accepted

VisitAnswered ==
    /\ Ready /\ kind[At.job] = "decision" /\ engine[At.id].status = "complete"
    /\ engine' = [engine EXCEPT ![At.id] = ReadOne]
    /\ phase' = "answer"
    /\ UNCHANGED <<clients, cancelled, shared, answers, accepted, stopSeen, taken,
                   active, cursor, question>>

\* The flags are read again before the next question is submitted.
GoesOn == question[At.job] < Questions /\ ~cancelled[At.job] /\ ~stopSeen

\* (Fault) The request of the answered question is not released.
NextQuestion_Keeps ==
    LET id == <<At.job, question[At.job] + 1>> IN
    /\ phase = "answer" /\ GoesOn
    /\ engine' = [engine EXCEPT ![id] = E!Begun]
    /\ active' = [active EXCEPT ![cursor].id = id]
    /\ question' = [question EXCEPT ![At.job] = @ + 1]
    /\ cursor' = cursor + 1 /\ phase' = "visit"
    /\ UNCHANGED <<clients, cancelled, shared, answers, accepted, stopSeen, taken>>

\* The next question is a new request of the engine.
NextQuestion ==
    LET id == <<At.job, question[At.job] + 1>> IN
    /\ phase = "answer" /\ GoesOn
    /\ engine' = [engine EXCEPT ![At.id] = E!Released, ![id] = E!Begun]
    /\ active' = [active EXCEPT ![cursor].id = id]
    /\ question' = [question EXCEPT ![At.job] = @ + 1]
    /\ cursor' = cursor + 1 /\ phase' = "visit"
    /\ UNCHANGED <<clients, cancelled, shared, answers, accepted, stopSeen, taken>>

\* The last answer, or a cancellation, ends the decision; so does an answer that
\* throws and a next question the engine refuses.
DecisionEnds(reply) ==
    /\ phase = "answer"
    /\ reply = "ok" => ~GoesOn /\ ~cancelled[At.job] /\ ~stopSeen
    /\ reply = "cancelled" => cancelled[At.job] \/ stopSeen
    /\ Close(reply, events) /\ UNCHANGED accepted

Exit ==
    /\ RoundEnded /\ stopSeen /\ active = <<>>
    /\ phase' = "exited"
    /\ UNCHANGED <<clients, cancelled, shared, answers, accepted, stopSeen, taken,
                   active, cursor, question, engine>>

-----------------------------------------------------------------------------
Sizes == 0..Piece

Http(j) == Reply(j) \/ WriteText(j) \/ WriteError(j) \/ WriteEnd(j)

Visit ==
    \/ VisitLate \/ VisitCancelled \/ VisitFull
    \/ \E size \in Sizes : VisitText(size) \/ VisitTextFails(size)
    \/ \E size \in Sizes, stopped \in BOOLEAN, flushed \in Sizes \X Sizes,
          reply \in {"ok", "failed"} : VisitTextEnds(size, stopped, flushed, reply)
    \/ VisitUndecodable
    \/ VisitDecision \/ VisitDecisionFails \/ VisitAnswered
    \/ NextQuestion
    \/ \E reply \in {"ok", "failed", "cancelled"} : DecisionEnds(reply)

Work ==
    \/ Swap
    \/ \E reply \in {"ok", "invalid", "cancelled", "failed"} : AdmitAnswered(reply)
    \/ AdmitSubmitted \/ Step \/ StepFails \/ Visit \/ Exit

Next ==
    \/ \E j \in Jobs : \/ Enqueue(j) \/ Refuse(j) \/ GiveUp(j) \/ Disconnect(j)
                       \/ Http(j) \/ TimePasses(j)
    \/ Stop
    \/ Work

Spec == Init /\ [][Next]_vars

-----------------------------------------------------------------------------
(* Properties.                                                              *)

\* The counter that limits the jobs, by which clients are turned away, counts
\* each enqueued job until it is answered, and each only once, however its
\* cancellation, deadline, failure, completion and the shutdown meet.
OutstandingExact ==
    outstanding = Cardinality({j \in Enqueued : promise[j] = NoReply})

\* The engine keeps no request that no job is served by, and none twice: every
\* path out of the worker's loop releases, also between two questions.
NothingLeaked ==
    /\ \A i \in Ids : E!Exists(engine[i]) <=> i \in ActiveIds
    /\ Cardinality(ActiveIds) = Len(active)
    /\ \A j \in ActiveJobs : promise[j] = NoReply

Written(j, what) == {k \in DOMAIN wire[j] : wire[j][k] = what}

\* "Validation errors precede SSE headers; later failures use an error event
\* without a successful terminal sequence" (server.md), and no text is lost or
\* sent twice: what was accepted is on the wire or in the queue, all of it
\* before the end of the stream.  A visit that found room does not overflow the
\* queue, also when the request's end flushes what decoder and matcher hold.
StreamsIntact ==
    \A j \in Streams : promise[j] # "overflow" /\
        LET w == wire[j]
            opened == Written(j, "open") # {}
            ended == Written(j, "error") \cup Written(j, "calls")
                        \cup Written(j, "finish") \cup Written(j, "done")
        IN  /\ opened => w[1] = "open" /\ promise[j] # "invalid"
            /\ Written(j, "error") # {} => w[Len(w)] = "error" /\ promise[j] # "ok"
                                          /\ Cardinality(ended) = 1
            /\ ended \ Written(j, "error") # {} => promise[j] = "ok"
            /\ accepted[j] = Cardinality(Written(j, "text")) + Len(events[j].text)
            /\ ended # {} => Cardinality(Written(j, "text")) = accepted[j]

\* The worker never waits for a client; nothing is assumed about the clients, the
\* clock and the engine.
LiveSpec == Spec /\ WF_vars(Work)

\* A client that goes away, and the deadline, end a job wherever it is: pending,
\* in the engine, paused by its full stream or between two questions.  "A slow
\* consumer pauses draining its own request ... Other requests continue"
\* (server.md): also while another job's client never reads.  And a shutdown ends the
\* worker, with nothing outstanding and nothing in the engine.
Overdue == {j \in Jobs : (late[j] \/ cancelled[j]) /\ promise[j] = NoReply}
EveryEndComes ==
    /\ []<>(Overdue = {})
    /\ stopping ~> (phase = "exited" /\ outstanding = 0
                       /\ \A i \in Ids : ~E!Exists(engine[i]))
=============================================================================
