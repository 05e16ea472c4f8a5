------------------------------- MODULE Browser -------------------------------
(***************************************************************************)
(* The browser's worker with the two clients the repository has for it: the *)
(* demo page and the benchmark.  Their protocols are what keeps the         *)
(* worker's handlers from interfering, and the session's calls from finding *)
(* a state they do not expect.                                              *)
(***************************************************************************)
EXTENDS BrowserPage, BrowserHarness

VARIABLES
    client,     \* who uses the worker
    found       \* what the cache held at the beginning (history)

visitVars == <<client, found>>
vars == <<workerVars, pageVars, harnessVars, visitVars>>

Init ==
    /\ InitWorker /\ InitPage /\ InitHarness
    /\ client \in {"page", "harness"} /\ found = cache

Next ==
    \/ (Receive \/ Resume) /\ UNCHANGED <<pageVars, harnessVars, visitVars>>
    \/ client = "page" /\ (UserStep \/ PageStep \/ WorkerErrs) /\ UNCHANGED <<harnessVars, visitVars>>
    \/ client = "harness" /\ HarnessStep /\ UNCHANGED <<pageVars, visitVars>>

Spec == Init /\ [][Next]_vars

\* The event loops run every task that is queued, fetches and steps of the engine
\* end, and the timer expires; the user need not click, and nothing need fail.
LiveSpec ==
    /\ Spec
    /\ WF_vars(Receive /\ UNCHANGED <<pageVars, harnessVars, visitVars>>)
    /\ WF_vars(Resume /\ UNCHANGED <<pageVars, harnessVars, visitVars>>)
    /\ WF_vars(client = "page" /\ PageStep /\ UNCHANGED <<harnessVars, visitVars>>)

-----------------------------------------------------------------------------
Flags == {"module", "loading", "running", "cancelled"}

Handlers(type) == {h \in handlers : h.type = type}

\* The worker's flags say what its handlers do and what the session serves: at most
\* one handler is at an await, `running` is a decision's and `loading` a load's, and a
\* decision is in the session as long as its handler.  No message of either client
\* fails in a way that resets the flags of another operation (worker.js:167), and no
\* rejected call cancels the decision of another one (decision.cpp:77).
FlagsAreTrue ==
    /\ Cardinality(handlers) <= 1
    /\ worker.running <=> Handlers("decide") # {}
    /\ worker.loading <=> Handlers("load") # {}
    /\ session.questions # 0 <=> Handlers("decide") # {}

\* The engine keeps the request of the question that is answered, and no other: none
\* of a decision that ended, was cancelled, failed or was only prepared.  And no call
\* uses an engine that a failed tuning has left absent (decision.cpp:124).
EngineIsClean ==
    ~session.undefined /\ session.held = IF session.questions # 0 THEN 1 ELSE 0

\* While the server has the files, a load does not fail for want of them: a cache that
\* is full, blocked or incomplete, or that holds a wrong copy of another file, never
\* prevents it (worker.js:116).  Of the weights the worker compares the size only
\* (worker.js:65): a copy of the right size and the wrong content is used, and the
\* engine refuses it (worker.js:131).  Only an earlier visit can have left such
\* a copy: no failed, interrupted or repeated load makes one.
OnlyDamagedWeightsHinder ==
    server = "good" =>
        \A i \in 1..Len(outbox) :
           /\ outbox[i].why # "file"
           /\ outbox[i].why = "weights" => found[Weights] = "corrupt"

\* Autoplay has one loop: while it is on either its timer runs or it waits for the
\* decision it asked for, never both and never neither.
OneLoop ==
    client = "page" => (page.auto <=> (page.timer # (page.pending.auto /\ ~page.pending.discard)))

\* A decision that the user cancelled, paused, or reset the engine under, is not
\* applied as a move, however late its answer is; nor is any applied twice; nor does the
\* scene change between the question and the move.
DroppedIsNotApplied ==
    [][/\ applied' # applied =>
             LET id == applied'[Len(applied')] IN
             id \notin dropped /\ \A i \in 1..Len(applied) : applied[i] # id
       /\ Pending /\ page'.pending = page.pending => page'.revision = page.revision]_vars

\* The page never waits for ever, for a load or for a decision.
NeverStuck == page.busy ~> ~page.busy

\* A cancellation is for the decision it was sent to: a decision that ends cancelled
\* was dropped by its client.
OnlyCancelledIfAsked ==
    \A i \in 1..Len(outbox) :
        client = "page" /\ outbox[i].why = "cancelled" => outbox[i].id \in dropped
=============================================================================
