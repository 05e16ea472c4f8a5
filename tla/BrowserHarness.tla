---------------------------- MODULE BrowserHarness ----------------------------
(***************************************************************************)
(* The benchmark's page: it drives a worker with one remote call at a time, *)
(* may cancel the decision it waits for, and tunes the idle engine.  A call *)
(* that fails ends the benchmark, except where the failure is what the      *)
(* benchmark tests.                                                         *)
(***************************************************************************)
EXTENDS BrowserWorker

CONSTANT MaxCalls       \* bound on the calls of a benchmark

VARIABLES
    rpc,        \* the call it waits for; "idle", "over" when it waits for none
    calls       \* calls made

harnessVars == <<rpc, calls>>

InitHarness == rpc = "new" /\ calls = 0

HarnessOnly == UNCHANGED <<worker, handlers, session, steps, outbox, cache, server>>

\* The first call loads the model.
Opened ==
    /\ rpc = "new" /\ rpc' = "load"
    /\ Restart(1) /\ inbox' = <<[type |-> "load", id |-> 0]>>
    /\ UNCHANGED <<outbox, calls>>

Called(type) ==
    /\ rpc = "idle" /\ calls < MaxCalls
    /\ rpc' = type /\ calls' = calls + 1
    /\ Post([type |-> type, id |-> calls'])
    /\ UNCHANGED owner /\ HarnessOnly

\* A decision is cancelled right after it is asked for, or while it runs.
CallCancelled ==
    /\ rpc = "decide" /\ rpc' = "cancel"
    /\ Post([type |-> "cancel", id |-> 0])
    /\ UNCHANGED <<owner, calls>> /\ HarnessOnly

\* Calls that are meant to be rejected: malformed requests and settings.
Survives(message) ==
    \/ rpc \in {"decide", "cancel"} /\ message.why = "request"
    \/ rpc = "tune" /\ message.why = "rejected"

CallEnds ==
    /\ outbox # <<>> /\ rpc \notin {"new", "idle", "over"}
    /\ LET message == Head(outbox) IN
       IF message.type = "error" /\ ~Survives(message)
       THEN /\ rpc' = "over" /\ outbox' = <<>> /\ inbox' = <<>> /\ Restart(0)
       ELSE /\ rpc' = "idle" /\ outbox' = Tail(outbox)
            /\ UNCHANGED <<owner, worker, handlers, session, steps, inbox, cache, server>>
    /\ UNCHANGED calls

HarnessStep ==
    \/ Opened \/ CallCancelled \/ CallEnds
    \/ \E type \in {"decide", "prepare", "tune"} : Called(type)
=============================================================================
