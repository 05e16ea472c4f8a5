------------------------------ MODULE ForkJoin ------------------------------
(***************************************************************************)
(* What CpuExecutor promises: one job at a time; each row of a job is       *)
(* executed exactly once, in any order and grouping, between the call and   *)
(* its return; nothing is executed outside a job.                           *)
(***************************************************************************)
EXTENDS Integers

CONSTANTS MaxJobs, MaxRows

VARIABLES
    job,    \* how many jobs were started
    size,   \* the rows of the job in progress, 0 when there is none
    runs    \* how often each row of each job was executed

jobVars == <<job, size, runs>>

Rows == 0..(MaxRows - 1)

Init ==
    /\ job = 0 /\ size = 0
    /\ runs = [j \in 1..MaxJobs |-> [r \in Rows |-> 0]]

Fork(rows) ==
    /\ size = 0 /\ job < MaxJobs
    /\ job' = job + 1 /\ size' = rows
    /\ UNCHANGED runs

Execute(S) ==
    /\ size > 0 /\ S \subseteq {r \in 0..(size - 1) : runs[job][r] = 0}
    /\ runs' = [runs EXCEPT ![job] = [r \in Rows |-> IF r \in S THEN 1 ELSE @[r]]]
    /\ UNCHANGED <<job, size>>

Join ==
    /\ size > 0 /\ \A r \in 0..(size - 1) : runs[job][r] = 1
    /\ size' = 0
    /\ UNCHANGED <<job, runs>>

Next ==
    \/ \E rows \in 1..MaxRows : Fork(rows)
    \/ \E S \in SUBSET Rows : Execute(S)
    \/ Join

Spec == Init /\ [][Next]_jobVars
=============================================================================
