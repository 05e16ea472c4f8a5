CONSTANTS
    Callers = {c1, c2}
    Threads = 3
    MinParallelRows = 2
    MaxRows = 4
    MaxJobs = 2
SPECIFICATION FairSpec
\* The pool is gone at the end.
CHECK_DEADLOCK FALSE
INVARIANT MailboxOwned
PROPERTIES ImplementsForkJoin NothingHangs
