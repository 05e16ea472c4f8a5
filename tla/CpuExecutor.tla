---------------------------- MODULE CpuExecutor ----------------------------
(***************************************************************************)
(* CpuExecutor: a pool of persistent threads that execute the rows of one   *)
(* job at a time.  The calling thread writes the job into the mailbox of    *)
(* each participating worker, bumps the mailbox's generation and notifies   *)
(* it, executes its own range and waits for the count of finished workers.  *)
(*                                                                         *)
(* Every step is one atomic operation or one access to plain memory.  The   *)
(* acquire and release orders of the code make each plain access happen     *)
(* before or after the atomic steps it is ordered with here; MailboxOwned   *)
(* is the data race it leaves to be shown absent.  An atomic wait compares  *)
(* and blocks in one step and is ended by a notification, or for no reason  *)
(* when a notification arrives late.                                        *)
(***************************************************************************)
EXTENDS Integers, FiniteSets, RowRanges

CONSTANTS
    Callers,            \* the threads that may call parallel_for_rows
    Threads,            \* thread_count, the calling thread included
    MinParallelRows,    \* min_parallel_rows
    MaxRows,            \* bound on the rows of a job
    MaxJobs             \* bound on the jobs run

ASSUME ExecutorAssumption ==
    /\ Threads \in Nat \ {0} /\ MinParallelRows \in Nat
    /\ MaxRows \in Nat \ {0} /\ MaxJobs \in Nat

VARIABLES
    life,           \* where start(), or shutdown(), is
    created,        \* workers_.size()
    stopping,       \* stopping_
    busy,           \* job_in_progress_
    completed,      \* completed_workers_
    generation,     \* per mailbox
    payload,        \* per mailbox: the job, its rows and its participants
    worker,         \* per worker: what worker_loop is about to do
    caller,         \* per caller: what parallel_for_rows is about to do
    index,          \* the mailbox that the loop of a caller or of shutdown is at
    job, runs       \* jobs started, executions of each row (history)

lifeVars == <<life, created, stopping>>
jobVars == <<job, runs>>
vars == <<lifeVars, busy, completed, generation, payload, worker, caller, index, jobVars>>

Workers == 1..(Threads - 1)
Rows == 0..(MaxRows - 1)

NoJob == [job |-> 0, rows |-> 0, participants |-> 0]

\* A worker thread starts with nothing observed.
Thread(pc) == [pc |-> pc, observed |-> 0, seen |-> 0, got |-> NoJob]

Outside == [pc |-> "out", rows |-> 0, saw |-> 0, answer |-> "none"]

Participants(rows) == IF rows <= Threads THEN rows ELSE Threads
Helpers(rows) == Participants(rows) - 1

\* Adds an execution of the rows in S to those of job j.
Executed(j, S) ==
    [runs EXCEPT ![j] = [r \in Rows |-> @[r] + IF r \in S THEN 1 ELSE 0]]

Init ==
    /\ life = "starting" /\ created = 0 /\ stopping = FALSE
    /\ busy = FALSE /\ completed = 0 /\ index = 0
    /\ generation = [w \in Workers |-> 0]
    /\ payload = [w \in Workers |-> NoJob]
    /\ worker = [w \in Workers |-> Thread("absent")]
    /\ caller = [c \in Callers |-> Outside]
    /\ job = 0 /\ runs = [j \in 1..MaxJobs |-> [r \in Rows |-> 0]]

-----------------------------------------------------------------------------
(* The life of the pool.                                                    *)

CreateWorker ==
    /\ life = "starting" /\ created < Threads - 1
    /\ created' = created + 1
    /\ worker' = [worker EXCEPT ![created + 1] = Thread("poll")]
    /\ UNCHANGED <<life, stopping, busy, completed, generation, payload, caller, index, jobVars>>

Started ==
    /\ life = "starting" /\ created = Threads - 1
    /\ life' = "up"
    /\ UNCHANGED <<created, stopping, busy, completed, generation, payload, worker, caller, index, jobVars>>

\* shutdown, when a thread cannot be created or when the owner destroys the
\* executor, which it may not do while a call is in progress.
Shutdown ==
    /\ \/ life = "starting" /\ created < Threads - 1
       \/ life = "up" /\ \A c \in Callers : caller[c].pc = "out"
    /\ stopping' = TRUE /\ index' = 1
    /\ life' = "bump"
    /\ UNCHANGED <<created, busy, completed, generation, payload, worker, caller, jobVars>>

\* (Fault) Shutdown sets the flag and does not wake the workers.
ShutdownBump_Silent ==
    /\ life = "bump"
    /\ life' = "join"
    /\ UNCHANGED <<created, stopping, busy, completed, generation, payload, worker, caller, index, jobVars>>

ShutdownBump ==
    /\ life = "bump"
    /\ IF index <= created
       THEN /\ generation' = [generation EXCEPT ![index] = @ + 1]
            /\ life' = "notify"
       ELSE life' = "join" /\ UNCHANGED generation
    /\ UNCHANGED <<created, stopping, busy, completed, payload, worker, caller, index, jobVars>>

\* A thread asleep on mailbox w wakes up and looks again.
Wake(w) ==
    IF worker[w].pc = "asleep" THEN [worker EXCEPT ![w].pc = "load"] ELSE worker

ShutdownNotify ==
    /\ life = "notify"
    /\ worker' = Wake(index)
    /\ index' = index + 1 /\ life' = "bump"
    /\ UNCHANGED <<created, stopping, busy, completed, generation, payload, caller, jobVars>>

Joined ==
    /\ life = "join"
    /\ \A w \in 1..created : worker[w].pc = "exited"
    /\ life' = "gone" /\ created' = 0
    /\ UNCHANGED <<stopping, busy, completed, generation, payload, worker, caller, index, jobVars>>

-----------------------------------------------------------------------------
(* parallel_for_rows.                                                       *)

Goto(c, pc) == caller' = [caller EXCEPT ![c].pc = pc]

CallRefused(c) ==
    /\ life = "up" /\ caller[c].pc = "out" /\ busy
    /\ caller' = [caller EXCEPT ![c].answer = "busy"]
    /\ UNCHANGED <<lifeVars, busy, completed, generation, payload, worker, index, jobVars>>

\* A job too small for two threads, or for the threshold, runs on the caller.
Call(c, rows) ==
    /\ life = "up" /\ caller[c].pc = "out" /\ ~busy /\ job < MaxJobs
    /\ busy' = TRUE /\ job' = job + 1
    /\ IF Participants(rows) = 1 \/ rows < MinParallelRows
       THEN /\ caller' = [caller EXCEPT ![c] = [@ EXCEPT !.pc = "inline", !.rows = rows]]
            /\ UNCHANGED <<completed, index>>
       ELSE /\ caller' = [caller EXCEPT ![c] = [@ EXCEPT !.pc = "publish", !.rows = rows]]
            /\ completed' = 0 /\ index' = 1
    /\ UNCHANGED <<lifeVars, generation, payload, worker, runs>>

RunInline(c) ==
    /\ caller[c].pc = "inline"
    /\ runs' = Executed(job, 0..(caller[c].rows - 1))
    /\ Goto(c, "finish")
    /\ UNCHANGED <<lifeVars, busy, completed, generation, payload, worker, index, job>>

Publish(c) ==
    /\ caller[c].pc = "publish"
    /\ payload' = [payload EXCEPT ![index] =
         [job |-> job, rows |-> caller[c].rows, participants |-> Participants(caller[c].rows)]]
    /\ Goto(c, "bump")
    /\ UNCHANGED <<lifeVars, busy, completed, generation, worker, index, jobVars>>

Bump(c) ==
    /\ caller[c].pc = "bump"
    /\ generation' = [generation EXCEPT ![index] = @ + 1]
    /\ Goto(c, "notify")
    /\ UNCHANGED <<lifeVars, busy, completed, payload, worker, index, jobVars>>

Notify(c) ==
    /\ caller[c].pc = "notify"
    /\ worker' = Wake(index)
    /\ index' = index + 1
    /\ Goto(c, IF index = Helpers(caller[c].rows) THEN "run" ELSE "publish")
    /\ UNCHANGED <<lifeVars, busy, completed, generation, payload, jobVars>>

RunOwn(c) ==
    LET rows == caller[c].rows IN
    /\ caller[c].pc = "run"
    /\ runs' = Executed(job, RowRange(rows, Participants(rows), 0))
    /\ Goto(c, "count")
    /\ UNCHANGED <<lifeVars, busy, completed, generation, payload, worker, index, job>>

\* (Fault) The caller does not wait for the last worker.
AllCounted_OneShort(c) == completed >= Helpers(caller[c].rows) - 1

AllCounted(c) == completed = Helpers(caller[c].rows)

\* The count is read by the spinning and by the waiting loop.
SeeCount(c) ==
    /\ caller[c].pc = "count"
    /\ IF AllCounted(c)
       THEN Goto(c, "finish")
       ELSE caller' = [caller EXCEPT ![c] = [@ EXCEPT !.pc = "wait", !.saw = completed]]
    /\ UNCHANGED <<lifeVars, busy, completed, generation, payload, worker, index, jobVars>>

WaitForCount(c) ==
    /\ caller[c].pc = "wait"
    /\ Goto(c, IF completed = caller[c].saw THEN "asleep" ELSE "count")
    /\ UNCHANGED <<lifeVars, busy, completed, generation, payload, worker, index, jobVars>>

Return(c) ==
    /\ caller[c].pc = "finish"
    /\ busy' = FALSE
    /\ caller' = [caller EXCEPT ![c] = [Outside EXCEPT !.answer = "ok"]]
    /\ UNCHANGED <<lifeVars, completed, generation, payload, worker, index, jobVars>>

-----------------------------------------------------------------------------
(* worker_loop.                                                             *)

Step(w, pc) == worker' = [worker EXCEPT ![w].pc = pc]

\* The spinning loop ends on stopping, on a new generation, or by exhaustion.
PollStops(w) ==
    /\ worker[w].pc = "poll" /\ stopping
    /\ Step(w, "exited")
    /\ UNCHANGED <<lifeVars, busy, completed, generation, payload, caller, index, jobVars>>

PollEnds(w) ==
    /\ worker[w].pc = "poll"
    /\ Step(w, "load")
    /\ UNCHANGED <<lifeVars, busy, completed, generation, payload, caller, index, jobVars>>

LoadGeneration(w) ==
    /\ worker[w].pc = "load"
    /\ worker' = [worker EXCEPT ![w] = [@ EXCEPT
         !.seen = generation[w],
         !.pc = IF generation[w] = worker[w].observed THEN "wait" ELSE "check"]]
    /\ UNCHANGED <<lifeVars, busy, completed, generation, payload, caller, index, jobVars>>

\* (Fault) The wait does not compare the generation again before it blocks.
WaitForJob_NoCompare(w) ==
    /\ worker[w].pc = "wait"
    /\ Step(w, "asleep")
    /\ UNCHANGED <<lifeVars, busy, completed, generation, payload, caller, index, jobVars>>

WaitForJob(w) ==
    /\ worker[w].pc = "wait"
    /\ Step(w, IF generation[w] = worker[w].observed THEN "asleep" ELSE "load")
    /\ UNCHANGED <<lifeVars, busy, completed, generation, payload, caller, index, jobVars>>

CheckStopping(w) ==
    /\ worker[w].pc = "check"
    /\ IF stopping THEN Step(w, "exited")
       ELSE worker' = [worker EXCEPT ![w] = [@ EXCEPT !.pc = "read", !.observed = worker[w].seen]]
    /\ UNCHANGED <<lifeVars, busy, completed, generation, payload, caller, index, jobVars>>

ReadMailbox(w) ==
    /\ worker[w].pc = "read"
    /\ worker' = [worker EXCEPT ![w] = [@ EXCEPT !.pc = "run", !.got = payload[w]]]
    /\ UNCHANGED <<lifeVars, busy, completed, generation, payload, caller, index, jobVars>>

RunRows(w) ==
    LET got == worker[w].got IN
    /\ worker[w].pc = "run"
    /\ runs' = Executed(got.job, RowRange(got.rows, got.participants, w))
    /\ Step(w, "count")
    /\ UNCHANGED <<lifeVars, busy, completed, generation, payload, caller, index, job>>

\* The last worker to count wakes the caller.
Count(w) ==
    /\ worker[w].pc = "count"
    /\ completed' = completed + 1
    /\ Step(w, IF completed + 1 = worker[w].got.participants - 1 THEN "notify" ELSE "poll")
    /\ UNCHANGED <<lifeVars, busy, generation, payload, caller, index, jobVars>>

NotifyCaller(w) ==
    /\ worker[w].pc = "notify"
    /\ caller' = [c \in Callers |->
         IF caller[c].pc = "asleep" THEN [caller[c] EXCEPT !.pc = "count"] ELSE caller[c]]
    /\ Step(w, "poll")
    /\ UNCHANGED <<lifeVars, busy, completed, generation, payload, index, jobVars>>

-----------------------------------------------------------------------------
Owner ==
    CreateWorker \/ Started \/ Shutdown \/ ShutdownBump \/ ShutdownNotify \/ Joined

CallerStep(c) ==
    \/ RunInline(c) \/ Publish(c) \/ Bump(c) \/ Notify(c) \/ RunOwn(c)
    \/ SeeCount(c) \/ WaitForCount(c) \/ Return(c)

WorkerStep(w) ==
    \/ PollStops(w) \/ PollEnds(w) \/ LoadGeneration(w) \/ WaitForJob(w)
    \/ CheckStopping(w) \/ ReadMailbox(w) \/ RunRows(w) \/ Count(w) \/ NotifyCaller(w)

Next ==
    \/ Owner
    \/ \E c \in Callers : \/ CallRefused(c) \/ CallerStep(c)
                          \/ \E rows \in 1..MaxRows : Call(c, rows)
    \/ \E w \in Workers : WorkerStep(w)

Spec == Init /\ [][Next]_vars

\* Every thread that can go on is scheduled some time; nobody has to call.
Fairness ==
    /\ WF_vars(ShutdownBump \/ ShutdownNotify \/ Joined)
    /\ \A c \in Callers : WF_vars(CallerStep(c))
    /\ \A w \in Workers : WF_vars(WorkerStep(w))

FairSpec == Spec /\ Fairness

-----------------------------------------------------------------------------
(* Properties.                                                              *)

\* A mailbox is never written while its worker may be reading it: "The preceding
\* completion acquire guarantees the previous payload is no longer being read".
MailboxOwned ==
    \A c \in Callers :
        caller[c].pc = "publish" => worker[index].pc \notin {"check", "read"}

\* The executor implements the fork and join of a job.
InProgress == {c \in Callers : caller[c].pc # "out"}
FJ == INSTANCE ForkJoin WITH
    size <- IF InProgress = {} THEN 0 ELSE caller[CHOOSE c \in InProgress : TRUE].rows
ImplementsForkJoin == FJ!Spec

\* No notification is lost between a check and its wait, on either side: a call
\* always returns, and a shutdown, also of a pool that was created in part, ends
\* with every created thread joined ("No worker is leaked").
NothingHangs ==
    /\ \A c \in Callers : (caller[c].pc # "out") ~> (caller[c].pc = "out")
    /\ stopping ~> (life = "gone")
=============================================================================
