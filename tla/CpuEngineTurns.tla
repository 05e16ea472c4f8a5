--------------------------- MODULE CpuEngineTurns ---------------------------
(***************************************************************************)
(* Who is served while a request waits: CpuEngine in serving mode with a    *)
(* history variable that remembers, for each request that could run, which  *)
(* others got a turn of the same kind (a prefill chunk or a place in a      *)
(* decode batch) since it could run or was last served itself.              *)
(***************************************************************************)
EXTENDS CpuEngine

VARIABLE overtakers

turnVars == <<vars, overtakers>>

\* The requests the work of this step serves.
Served ==
    CASE ~(scheduling /\ ~scheduling') -> {}
      [] scheduling /\ ~scheduling' /\ DecodeTurn -> NextBatch
      [] OTHER -> NextPrefill

ServedKind == IF DecodeTurn THEN "decode" ELSE "prefill"

\* A request that can run, is not served, and can run the same way afterwards.
KeepsWaiting(i) ==
    /\ OutputReady(requests[i])
    /\ requests[i].status \in {"prefill", "decode"}
    /\ requests'[i].status = requests[i].status
    /\ i \notin Served

Record ==
    overtakers' = [i \in Ids |->
        IF ~KeepsWaiting(i) THEN {}
        ELSE IF requests[i].status = ServedKind THEN overtakers[i] \cup Served
        ELSE overtakers[i]]

TurnsInit == Init /\ overtakers = [i \in Ids |-> {}]
TurnsSpec == TurnsInit /\ [][Next /\ Record]_turnVars

\* Round robin: no request gets a second turn of one kind while another that
\* is ready for that kind still waits, however requests come, pause and go.
OvertakenOnce ==
    [][\A i \in Ids :
         KeepsWaiting(i) /\ requests[i].status = ServedKind
            => Served \cap overtakers[i] = {}]_turnVars

\* "Fair progress" (cpu_scheduler_model_test.cpp): while a request is ready and
\* waits, at most the other resident requests get a turn before it does.
FairProgress == \A i \in Ids : Cardinality(overtakers[i]) < MaxResident
=============================================================================
