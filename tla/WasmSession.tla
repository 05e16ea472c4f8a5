----------------------------- MODULE WasmSession -----------------------------
(***************************************************************************)
(* The decision session of the WASM build: the functions qev_* that the     *)
(* browser's worker calls, each from beginning to end.  A session serves    *)
(* one decision at a time and answers its questions one after the other,    *)
(* each with an engine request of its own.                                  *)
(*                                                                         *)
(* A call maps the session to the session it leaves and a reply.  Every     *)
(* call that fails cancels the decision that is running.                    *)
(***************************************************************************)
EXTENDS Integers

NoSession ==
    [loaded |-> FALSE,      \* there is a session
     engine |-> FALSE,      \* it has an engine
     questions |-> 0,       \* of its decision, 0 for none
     question |-> 0,        \* the one that is answered
     active |-> FALSE,      \* Session::active names an engine request
     held |-> 0,            \* requests the engine keeps
     undefined |-> FALSE]   \* an engine was used that does not exist

Loaded == [NoSession EXCEPT !.loaded = TRUE, !.engine = TRUE]

Answer(s, reply) == [session |-> s, reply |-> reply]

\* (Fault) The request is cancelled and kept.
Cancelled_Keeps(s) == [s EXCEPT !.active = FALSE, !.questions = 0]

\* Session::cancel
Cancelled(s) ==
    [s EXCEPT !.held = IF s.active THEN @ - 1 ELSE @,
              !.active = FALSE, !.questions = 0]

Failure(s) == Answer(Cancelled(s), "error")

\* Session::submit
Submitted(s) ==
    IF s.engine THEN [s EXCEPT !.active = TRUE, !.held = @ + 1]
                ELSE [s EXCEPT !.undefined = TRUE]

\* A request is malformed, or the engine refuses its first question, or it is valid.
Begin(s, request) ==
    IF ~s.loaded \/ s.questions # 0 \/ request.kind = "malformed" THEN Failure(s)
    ELSE IF request.kind = "refused" THEN Failure([s EXCEPT !.questions = request.questions])
    ELSE Answer(Submitted([s EXCEPT !.questions = request.questions, !.question = 1]), "running")

Released(s) == [s EXCEPT !.held = @ - 1, !.active = FALSE]

\* One step of the engine leaves its request running, completes or fails it.
Step(s, outcome) ==
    IF ~s.loaded \/ s.questions = 0 \/ outcome = "failed" THEN Failure(s)
    ELSE IF outcome = "running" THEN Answer(s, "running")
    ELSE IF s.question < s.questions
         THEN Answer(Submitted([Released(s) EXCEPT !.question = @ + 1]), "running")
         ELSE Answer([Released(s) EXCEPT !.questions = 0], "complete")

Cancel(s) == Answer(Cancelled(s), "cancelled")

\* (Fault) The engine is dropped before the tuning is validated.
Tune_DropsFirst(s, outcome) ==
    IF s.loaded /\ s.questions # 0 THEN Failure(s)
    ELSE IF outcome = "rejected" THEN Answer([s EXCEPT !.engine = FALSE], "error")
    ELSE Answer([s EXCEPT !.engine = s.loaded, !.held = 0], "ready")

\* The idle engine is dropped before the new one is created, which may fail.
Tune(s, outcome) ==
    IF (s.loaded /\ s.questions # 0) \/ outcome = "rejected" THEN Failure(s)
    ELSE IF outcome = "fails" /\ s.loaded THEN Failure([s EXCEPT !.engine = FALSE, !.held = 0])
    ELSE Answer([s EXCEPT !.engine = s.loaded, !.held = 0], "ready")

\* The settings are checked; then the old session is dropped before anything is read.
Load(s, outcome) ==
    IF outcome = "rejected" THEN Failure(s)
    ELSE IF outcome = "ok" THEN Answer(Loaded, "ready") ELSE Answer(NoSession, "error")
=============================================================================
