-------------------------- MODULE JobQueueContract --------------------------
(***************************************************************************)
(* A statement of docs/architecture/ingestion-job-state-machine.md that    *)
(* the queue's code does not keep: its run ends in the counterexample.     *)
(***************************************************************************)
EXTENDS MCJobQueue

\* Line 329: "Cancellation is never converted into an automatic retry."  A
\* transient error or a shutdown release that _finalize writes after the
\* request was recorded puts the job into retry_wait; there it is neither
\* claimed (the claim query wants no cancellation) nor cancelled.
CancelNeverRetriedStep ==
  \A j \in Jobs :
    cancelReq[j] /\ status[j] = "running" => status'[j] # "retry_wait"

CancelNeverRetried == [][CancelNeverRetriedStep]_vars
=============================================================================
