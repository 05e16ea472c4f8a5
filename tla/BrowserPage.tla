----------------------------- MODULE BrowserPage -----------------------------
(***************************************************************************)
(* The demo page: it owns a worker, asks it for one decision at a time and  *)
(* applies the answers of games as moves.  Autoplay is a loop that asks,    *)
(* waits for the answer, waits for a timer and asks again.                  *)
(*                                                                         *)
(* A click, a message and a timer each run to the end, with what follows    *)
(* from the promises they resolve.  Disabled buttons are not clicked.       *)
(***************************************************************************)
EXTENDS BrowserWorker

CONSTANTS
    Turns,              \* moves of one autoplay (50)
    MaxWorkers,         \* bound on the workers started
    MaxDecisions,       \* bound on the decisions asked for
    MaxRevision,        \* bound on the changes of the scene
    MaxInbox            \* bound on unread messages

ASSUME PageAssumption == Turns \in Nat

VARIABLES
    page,       \* its state
    nextId,     \* decisions asked for
    workers,    \* workers started
    dropped,    \* decisions the user cancelled, paused or reset (history)
    applied     \* the decisions applied as moves, in order (history)

pageVars == <<page, nextId, workers, dropped, applied>>

NoJob == [id |-> 0, revision |-> 0, apply |-> FALSE, discard |-> FALSE, auto |-> FALSE]

InitPage ==
    /\ page = [revision |-> 0, game |-> TRUE, over |-> FALSE, ready |-> FALSE, busy |-> FALSE,
               pending |-> NoJob, auto |-> FALSE, timer |-> FALSE, remaining |-> 0]
    /\ nextId = 0 /\ workers = 0 /\ dropped = {} /\ applied = <<>>

Pending == page.pending # NoJob

\* stopAuto
Stopped(p) == [p EXCEPT !.auto = FALSE, !.timer = FALSE]

\* autoStep after its await.
Continued(p, moved) ==
    IF ~p.auto THEN p
    ELSE IF moved /\ p.remaining > 1 THEN [p EXCEPT !.remaining = @ - 1, !.timer = TRUE]
    ELSE Stopped(p)

\* The promise of the job is resolved.
Resolved(p, job, moved) == IF job.auto THEN Continued(p, moved) ELSE p

-----------------------------------------------------------------------------
(* What the user does.                                                      *)

UserOnly == UNCHANGED <<handlers, session, steps, cache, server>>

\* (Fault) The worker of an earlier attempt is used again.
LoadClicked_Reuses ==
    /\ ~page.busy /\ ~page.ready /\ workers < MaxWorkers
    /\ page' = [page EXCEPT !.busy = TRUE]
    /\ workers' = workers + 1
    /\ IF owner = 0 THEN Restart(workers') /\ inbox' = <<[type |-> "load", id |-> 0]>>
       ELSE Post([type |-> "load", id |-> 0]) /\ UNCHANGED <<owner, worker>> /\ UserOnly
    /\ UNCHANGED <<nextId, dropped, applied, outbox>>

\* A new worker in the place of the present one is told to load the model.
LoadClicked ==
    /\ ~page.busy /\ ~page.ready /\ workers < MaxWorkers
    /\ page' = [page EXCEPT !.busy = TRUE]
    /\ workers' = workers + 1 /\ Restart(workers')
    /\ inbox' = <<[type |-> "load", id |-> 0]>>
    /\ UNCHANGED <<nextId, dropped, applied, outbox>>

\* decide
Asked(p, apply, auto) ==
    IF ~p.ready \/ p.busy \/ p.pending # NoJob
    THEN page' = Resolved(p, [NoJob EXCEPT !.auto = auto], FALSE) /\ UNCHANGED <<nextId, inbox>>
    ELSE /\ nextId < MaxDecisions /\ Len(inbox) < MaxInbox
         /\ nextId' = nextId + 1
         /\ page' = [p EXCEPT !.busy = TRUE,
                              !.pending = [id |-> nextId', revision |-> p.revision, apply |-> apply,
                                           discard |-> FALSE, auto |-> auto]]
         /\ Post([type |-> "decide", id |-> nextId'])

\* The demo's own button, and the one that runs the request as it is written.
RunClicked ==
    /\ page.ready /\ ~page.busy /\ ~page.auto
    /\ \/ ~page.over /\ Asked(page, page.game, FALSE)
       \/ Asked(page, FALSE, FALSE)
    /\ UNCHANGED <<owner, worker, outbox, workers, dropped, applied>> /\ UserOnly

AutoStep(p) ==
    IF ~p.auto \/ ~p.ready \/ p.over THEN page' = Stopped(p) /\ UNCHANGED <<nextId, inbox>>
                                     ELSE Asked(p, p.game, TRUE)

AutoplayClicked ==
    /\ page.game /\ page.ready /\ ~page.over /\ ~page.busy /\ ~page.auto
    /\ AutoStep([page EXCEPT !.auto = TRUE, !.remaining = Turns])
    /\ UNCHANGED <<owner, worker, outbox, workers, dropped, applied>> /\ UserOnly

Timeout ==
    /\ page.timer
    /\ AutoStep([page EXCEPT !.timer = FALSE])
    /\ UNCHANGED <<owner, worker, outbox, workers, dropped, applied>> /\ UserOnly

\* Cancel, or Pause: the worker is told, and its answer will be discarded.
CancelClicked ==
    /\ Pending \/ (page.auto /\ page.game /\ page.ready /\ ~page.over)
    /\ IF Pending
       THEN /\ Len(inbox) < MaxInbox /\ Post([type |-> "cancel", id |-> 0])
            /\ page' = [Stopped(page) EXCEPT !.pending.discard = TRUE]
            /\ dropped' = dropped \cup {page.pending.id}
       ELSE page' = Stopped(page) /\ UNCHANGED <<inbox, dropped>>
    /\ UNCHANGED <<owner, worker, outbox, nextId, workers, applied>> /\ UserOnly

\* The engine is unloaded: the worker is terminated.
ResetClicked ==
    /\ owner # 0
    /\ page' = Resolved([Stopped(page) EXCEPT !.pending = NoJob, !.ready = FALSE, !.busy = FALSE],
                        page.pending, FALSE)
    /\ dropped' = IF Pending THEN dropped \cup {page.pending.id} ELSE dropped
    /\ Restart(0) /\ inbox' = <<>>
    /\ UNCHANGED <<outbox, nextId, workers, applied>>

\* The user moves, edits the scene or resets it.
Edited ==
    /\ ~page.busy /\ ~page.auto /\ page.revision < MaxRevision
    /\ \E over \in IF page.game /\ ~page.over THEN BOOLEAN ELSE {FALSE} : page' = [page EXCEPT !.revision = @ + 1, !.over = over]
    /\ UNCHANGED <<owner, worker, inbox, outbox, nextId, workers, dropped, applied>> /\ UserOnly

\* (Fault) Another demo is chosen while the model decides.
DemoSelected_AnyTime ==
    /\ page.revision < MaxRevision
    /\ page' = [page EXCEPT !.revision = @ + 1, !.game = ~@, !.over = FALSE]
    /\ UNCHANGED <<owner, worker, inbox, outbox, nextId, workers, dropped, applied>> /\ UserOnly

\* Another demo; its cards stay enabled while a model loads.
DemoSelected ==
    /\ ~Pending /\ ~page.auto /\ page.revision < MaxRevision
    /\ page' = [page EXCEPT !.revision = @ + 1, !.game = ~@, !.over = FALSE]
    /\ UNCHANGED <<owner, worker, inbox, outbox, nextId, workers, dropped, applied>> /\ UserOnly

\* Clear: it asks the browser to delete the cache, which it does some time later.
\* (While a decision runs nothing reads the cache.)
CacheCleared ==
    /\ ~Pending /\ ~page.auto
    /\ cache' = [f \in FileNames |-> "absent"]
    /\ UNCHANGED <<owner, worker, handlers, session, steps, inbox, outbox, server, pageVars>>

-----------------------------------------------------------------------------
(* What the worker sends.                                                   *)

PageOnly == UNCHANGED <<owner, worker, handlers, session, steps, inbox, cache, server>>

\* A message of a worker that is no longer the page's is dropped.
StaleDropped ==
    /\ outbox # <<>> /\ Head(outbox).owner # owner
    /\ outbox' = Tail(outbox)
    /\ PageOnly /\ UNCHANGED pageVars

ReadyHeard ==
    /\ outbox # <<>> /\ Head(outbox).owner = owner /\ Head(outbox).type = "ready"
    /\ page' = [page EXCEPT !.ready = TRUE, !.busy = FALSE]
    /\ outbox' = Tail(outbox)
    /\ PageOnly /\ UNCHANGED <<nextId, workers, dropped, applied>>

\* The move of an answer: a turn, one after which the game is over, one that changes
\* nothing, one that is not available.
Moves == {"turn", "last", "nothing", "unavailable"}

Moved(p, move) ==
    LET changed == IF move = "unavailable" THEN p
                   ELSE [p EXCEPT !.revision = @ + 1, !.over = (move = "last")] IN
    IF move = "turn" THEN changed ELSE Stopped(changed)

\* (Fault) The answer to a decision that was cancelled in the meantime is applied.
Wanted_Late(job, status) == status = "complete" /\ job.revision = page.revision

\* An answer counts if it is complete, was not cancelled meanwhile, and is about the
\* scene as it is.
Wanted(job, status) ==
    status = "complete" /\ ~job.discard /\ job.revision = page.revision

ResultHeard ==
    /\ outbox # <<>> /\ Head(outbox).owner = owner /\ Head(outbox).type = "result"
    /\ outbox' = Tail(outbox)
    /\ LET job == page.pending
           idle == [page EXCEPT !.pending = NoJob, !.busy = FALSE] IN
       IF job.id # Head(outbox).id THEN UNCHANGED pageVars
       ELSE /\ IF ~Wanted(job, Head(outbox).why)
               THEN page' = Resolved(idle, job, FALSE) /\ UNCHANGED applied
               ELSE IF ~job.apply
               THEN page' = Resolved(idle, job, TRUE) /\ UNCHANGED applied
               ELSE /\ \E move \in Moves :
                          page' = Resolved(Moved(idle, move), job, move \in {"turn", "last"})
                    /\ applied' = Append(applied, job.id)
            /\ UNCHANGED <<nextId, workers, dropped>>
    /\ PageOnly

\* (Fault) An error leaves autoplay on.
ErrorHeard_PlaysOn ==
    /\ outbox # <<>> /\ Head(outbox).owner = owner /\ Head(outbox).type = "error"
    /\ page' = [page EXCEPT !.pending = NoJob, !.busy = FALSE]
    /\ outbox' = Tail(outbox)
    /\ PageOnly /\ UNCHANGED <<nextId, workers, dropped, applied>>

\* (Fault) An error without a decision leaves the page busy.
ErrorHeard_StaysBusy ==
    /\ outbox # <<>> /\ Head(outbox).owner = owner /\ Head(outbox).type = "error"
    /\ page' = Stopped([page EXCEPT !.pending = NoJob, !.busy = ~Pending])
    /\ outbox' = Tail(outbox)
    /\ PageOnly /\ UNCHANGED <<nextId, workers, dropped, applied>>

\* An error ends whatever is pending.
ErrorHeard ==
    /\ outbox # <<>> /\ Head(outbox).owner = owner /\ Head(outbox).type = "error"
    /\ page' = Resolved(Stopped([page EXCEPT !.pending = NoJob, !.busy = FALSE]), page.pending, FALSE)
    /\ outbox' = Tail(outbox)
    /\ PageOnly /\ UNCHANGED <<nextId, workers, dropped, applied>>

\* onerror: an exception that no handler caught.  The worker may go on.
WorkerErrs ==
    /\ owner # 0
    /\ page' = Resolved(Stopped([page EXCEPT !.pending = NoJob, !.busy = FALSE, !.ready = FALSE]),
                        page.pending, FALSE)
    /\ dropped' = IF Pending THEN dropped \cup {page.pending.id} ELSE dropped
    /\ PageOnly /\ UNCHANGED <<outbox, nextId, workers, applied>>

UserStep ==
    \/ LoadClicked \/ RunClicked \/ AutoplayClicked \/ CancelClicked \/ ResetClicked
    \/ Edited \/ DemoSelected \/ CacheCleared

PageStep == Timeout \/ StaleDropped \/ ReadyHeard \/ ResultHeard \/ ErrorHeard
=============================================================================
