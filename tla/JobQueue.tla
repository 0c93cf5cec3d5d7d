------------------------------ MODULE JobQueue ------------------------------
(***************************************************************************)
(* The durable job queue of doc_manager: the ingestion_jobs and            *)
(* ingestion_job_attempts tables (jobs/queue.py), the worker slots that    *)
(* claim and run jobs (jobs/worker.py, jobs/context.py), the reaper, and   *)
(* the API calls that enqueue, cancel and retry jobs.                      *)
(*                                                                         *)
(* Each database transaction of the code is one action.  PostgreSQL time   *)
(* is abstracted to two facts per row: whether lease_expires_at has passed *)
(* (expired) and whether available_at has (due).  A lease token, a fresh   *)
(* uuid per claim, is named by the number of the attempt it was drawn for; *)
(* 0 is SQL NULL.  lease_owner is left out: the token implies the owner.   *)
(***************************************************************************)
EXTENDS Naturals

CONSTANTS
  Jobs,         \* identities of job rows, used once each
  Workers,      \* claim-loop slots, each in a process of its own
  Locations,    \* source locations
  Keys,         \* dedupe keys
  Callers,      \* sessions that enqueue: API requests, scheduler ticks
  Requests,     \* what callers ask to enqueue, manual retries aside
  MaxAttempts,  \* settings.job_max_attempts, copied to every row
  MaxFaults,    \* bound on crashes and shutdowns
  None          \* SQL NULL

Types == {"scan_location", "index_file", "maintenance"}

Request == [type : Types, loc : Locations \cup {None}, key : Keys \cup {None},
            retryOf : Jobs \cup {None}]

\* Only create_manual_retry links a job to another.
ASSUME RequestsAssumption == Requests \subseteq {r \in Request : r.retryOf = None}
ASSUME AttemptsAssumption == MaxAttempts \in Nat \ {0}
ASSUME FaultsAssumption == MaxFaults \in Nat
ASSUME NoneAssumption ==
  None \notin Jobs \cup Workers \cup Locations \cup Keys \cup Request

VARIABLES
  row,           \* what the job is: its Request, or None before the insert
  status,        \* ingestion_jobs.status
  attemptCount,  \* ingestion_jobs.attempt_count
  lease,         \* ingestion_jobs.lease_token
  expired,       \* lease_expires_at <= clock_timestamp()
  due,           \* available_at <= clock_timestamp()
  cancelReq,     \* cancel_requested_at IS NOT NULL
  attempt,       \* ingestion_job_attempts.outcome, by attempt number
  ctx,           \* what each slot runs: its JobContext
  stopping,      \* WorkerRunner.stop, per slot
  scanLock,      \* holder of each location's advisory lock
  lookup,        \* the rejected insert each caller is resolving
  faults         \* crashes and shutdowns so far

rowVars == <<row, status, attemptCount, lease, expired, due, cancelReq, attempt>>
vars == <<row, status, attemptCount, lease, expired, due, cancelReq, attempt,
          ctx, stopping, scanLock, lookup, faults>>

Waiting   == {"queued", "retry_wait"}
OpenSt    == Waiting \cup {"running"}
Terminal  == {"succeeded", "failed", "cancelled"}
Statuses  == {"absent"} \cup OpenSt \cup Terminal
Outcomes  == {"succeeded", "transient_error", "permanent_error", "cancelled",
              "shutdown_released", "lease_expired"}
Attempts  == 1 .. MaxAttempts
Attempting == {"running", "skipping", "finalizing"}
Verdicts  == {"cancel", "release", "transient", "permanent"}

Context == [phase : {"down", "idle"} \cup Attempting, job : Jobs \cup {None},
            token : 0 .. MaxAttempts, saw : SUBSET {"lost", "cancel", "stop"},
            verdict : Verdicts \cup {None}]

NoAttempt(phase) ==
  [phase |-> phase, job |-> None, token |-> 0, saw |-> {}, verdict |-> None]

RowsOK ==
  /\ row \in [Jobs -> Request \cup {None}]
  /\ status \in [Jobs -> Statuses]
  /\ attemptCount \in [Jobs -> 0 .. MaxAttempts]
  /\ lease \in [Jobs -> 0 .. MaxAttempts]
  /\ expired \in [Jobs -> BOOLEAN]
  /\ due \in [Jobs -> BOOLEAN]
  /\ cancelReq \in [Jobs -> BOOLEAN]
  /\ attempt \in [Jobs -> [Attempts -> Outcomes \cup {"none", "open"}]]

SlotsOK ==
  /\ ctx \in [Workers -> Context]
  /\ stopping \in [Workers -> BOOLEAN]
  /\ scanLock \in [Locations -> Workers \cup {None}]
  /\ lookup \in [Callers -> Request \cup {None}]
  /\ faults \in 0 .. MaxFaults

TypeOK == RowsOK /\ SlotsOK

Init ==
  /\ row = [j \in Jobs |-> None]
  /\ status = [j \in Jobs |-> "absent"]
  /\ attemptCount = [j \in Jobs |-> 0]
  /\ lease = [j \in Jobs |-> 0]
  /\ expired = [j \in Jobs |-> FALSE]
  /\ due = [j \in Jobs |-> FALSE]
  /\ cancelReq = [j \in Jobs |-> FALSE]
  /\ attempt = [j \in Jobs |-> [n \in Attempts |-> "none"]]
  /\ ctx = [w \in Workers |-> NoAttempt("idle")]
  /\ stopping = [w \in Workers |-> FALSE]
  /\ scanLock = [l \in Locations |-> None]
  /\ lookup = [c \in Callers |-> None]
  /\ faults = 0

Open(j) == status[j] \in OpenSt

-----------------------------------------------------------------------------
(***************************************************************************)
(* Enqueue.  The insert runs in a savepoint; a unique violation rolls it   *)
(* back and a second statement, with a newer snapshot, looks for the row   *)
(* that caused it.                                                         *)
(***************************************************************************)

IsScan(r) == r.type = "scan_location" /\ r.loc # None

\* Mutant: the rule of one open retry per job is missing.
UniqueViolationButRetries(r) ==
  \E k \in Jobs :
    /\ Open(k)
    /\ \/ IsScan(r) /\ IsScan(row[k]) /\ row[k].loc = r.loc
       \/ r.key # None /\ row[k].key = r.key

\* The three partial unique indexes over open rows.
UniqueViolation(r) ==
  \E k \in Jobs :
    /\ Open(k)
    /\ \/ IsScan(r) /\ IsScan(row[k]) /\ row[k].loc = r.loc
       \/ r.retryOf # None /\ row[k].retryOf = r.retryOf
       \/ r.key # None /\ row[k].key = r.key

FindOpenDuplicate(r) ==
  {k \in Jobs :
    /\ Open(k)
    /\ \/ r.key # None /\ row[k].key = r.key
       \/ r.key = None /\ r.retryOf # None /\ row[k].retryOf = r.retryOf
       \/ r.key = None /\ r.retryOf = None /\ IsScan(r)
          /\ IsScan(row[k]) /\ row[k].loc = r.loc}

\* create_manual_retry copies the source row and links to it; no dedupe key.
RetryRequest(j) == [row[j] EXCEPT !.key = None, !.retryOf = j]

\* What a caller may enqueue: a plain request, or the retry of a failed or
\* cancelled job.
Enqueueable(r) ==
  \/ r \in Requests
  \/ \E j \in Jobs : status[j] \in {"failed", "cancelled"} /\ r = RetryRequest(j)

Insert(c, r, j) ==
  /\ lookup[c] = None
  /\ Enqueueable(r)
  /\ ~ UniqueViolation(r)
  /\ status[j] = "absent"
  /\ row' = [row EXCEPT ![j] = r]
  /\ status' = [status EXCEPT ![j] = "queued"]
  /\ due' = [due EXCEPT ![j] = TRUE]
  /\ UNCHANGED <<attemptCount, lease, expired, cancelReq, attempt, ctx, stopping,
                 scanLock, lookup, faults>>

InsertRejected(c, r) ==
  /\ lookup[c] = None
  /\ Enqueueable(r)
  /\ UniqueViolation(r)
  /\ lookup' = [lookup EXCEPT ![c] = r]
  /\ UNCHANGED <<rowVars, ctx, stopping, scanLock, faults>>

\* The lookup ends the call: the duplicate it finds is returned as coalesced,
\* and finding none raises RuntimeError, which rolls the caller back.
LookupDuplicate(c) ==
  /\ lookup[c] # None
  /\ lookup' = [lookup EXCEPT ![c] = None]
  /\ UNCHANGED <<rowVars, ctx, stopping, scanLock, faults>>

\* Mutant: a job that has ended is cancelled over its result.
CancelsAtOnceEvenEnded(j) == status[j] \notin {"absent", "running"}

CancelsAtOnce(j) == status[j] \in Waiting

\* request_cancel: a waiting job ends at once, a running one is marked.
RequestCancel(j) ==
  /\ \/ /\ CancelsAtOnce(j)
        /\ status' = [status EXCEPT ![j] = "cancelled"]
     \/ /\ status[j] = "running" /\ ~ cancelReq[j]
        /\ UNCHANGED status
  /\ cancelReq' = [cancelReq EXCEPT ![j] = TRUE]
  /\ UNCHANGED <<row, attemptCount, lease, expired, due, attempt, ctx, stopping,
                 scanLock, lookup, faults>>

-----------------------------------------------------------------------------
(***************************************************************************)
(* Claims and leases.  Rows are picked by priority and age; here any row   *)
(* the claim query admits may be picked.  A scan whose location lock is    *)
(* busy rolls the claim back, which leaves no trace.                       *)
(***************************************************************************)

\* Mutant: the claim query forgets the attempt budget.
ClaimableBeyondBudget(j) ==
  /\ status[j] \in Waiting
  /\ due[j]
  /\ ~ cancelReq[j]

\* Mutant: the claim query takes rows that are running.
ClaimableWhileRunning(j) ==
  /\ Open(j)
  /\ due[j]
  /\ ~ cancelReq[j]
  /\ attemptCount[j] < MaxAttempts

Claimable(j) ==
  /\ status[j] \in Waiting
  /\ due[j]
  /\ ~ cancelReq[j]
  /\ attemptCount[j] < MaxAttempts

\* Mutant: a scan is claimed without its location's lock.
LockNotTried(j) == j \in Jobs

LockFree(j) == IsScan(row[j]) => scanLock[row[j].loc] = None

\* Mutant: every claim of a job draws the same token.
TokenPerJob(j) == IF status[j] = "absent" THEN 0 ELSE 1

\* uuid4() for the claim, named by the attempt it opens.
NewToken(j) == attemptCount[j] + 1

Claim(w, j) ==
  LET n == NewToken(j) IN
  /\ ctx[w].phase = "idle" /\ ~ stopping[w]
  /\ Claimable(j)
  /\ LockFree(j)
  /\ status' = [status EXCEPT ![j] = "running"]
  /\ attemptCount' = [attemptCount EXCEPT ![j] = @ + 1]
  /\ lease' = [lease EXCEPT ![j] = n]
  /\ expired' = [expired EXCEPT ![j] = FALSE]
  /\ attempt' = [attempt EXCEPT ![j][n] = "open"]
  /\ ctx' = [ctx EXCEPT ![w] =
       [phase |-> "running", job |-> j, token |-> n, saw |-> {}, verdict |-> None]]
  /\ scanLock' = IF IsScan(row[j]) THEN [scanLock EXCEPT ![row[j].loc] = w]
                                   ELSE scanLock
  /\ UNCHANGED <<row, due, cancelReq, stopping, lookup, faults>>

\* Mutant: the fence compares no token.
CurrentForAnyToken(w) ==
  /\ status[ctx[w].job] = "running"
  /\ ~ expired[ctx[w].job]

\* The fence of every worker write: running, this token, unexpired.
Current(w) ==
  /\ status[ctx[w].job] = "running"
  /\ lease[ctx[w].job] = ctx[w].token
  /\ ~ expired[ctx[w].job]

\* Only the scan and index handlers call check_boundary.
Cooperative(w) == row[ctx[w].job].type \in {"scan_location", "index_file"}

\* The heartbeat task, and report_progress when its fenced update hits no row.
Heartbeat(w) ==
  /\ ctx[w].phase = "running" /\ Cooperative(w)
  /\ "lost" \notin ctx[w].saw
  /\ ctx' = [ctx EXCEPT ![w].saw = @ \cup
       IF Current(w)
         THEN (IF cancelReq[ctx[w].job] THEN {"cancel"} ELSE {})
              \cup (IF stopping[w] THEN {"stop"} ELSE {})
         ELSE {"lost"}]
  /\ UNCHANGED <<rowVars, stopping, scanLock, lookup, faults>>

\* PostgreSQL time reaches lease_expires_at: the heartbeat came too late.
Expire(j) ==
  /\ status[j] = "running" /\ ~ expired[j]
  /\ expired' = [expired EXCEPT ![j] = TRUE]
  /\ UNCHANGED <<row, status, attemptCount, lease, due, cancelReq, attempt, ctx,
                 stopping, scanLock, lookup, faults>>

\* PostgreSQL time reaches available_at.
BecomeDue(j) ==
  /\ status[j] \in Waiting /\ ~ due[j]
  /\ due' = [due EXCEPT ![j] = TRUE]
  /\ UNCHANGED <<row, status, attemptCount, lease, expired, cancelReq, attempt, ctx,
                 stopping, scanLock, lookup, faults>>

\* Mutant: the lease is not cleared.
EndAttemptKeepsLease(j, st, outcome, dueNow) ==
  /\ status' = [status EXCEPT ![j] = st]
  /\ attempt' = [attempt EXCEPT ![j][lease[j]] = outcome]
  /\ expired' = [expired EXCEPT ![j] = FALSE]
  /\ due' = [due EXCEPT ![j] = dueNow]
  /\ UNCHANGED <<row, attemptCount, cancelReq, lease>>

\* The row part of every transition out of running: new status, attempt row
\* closed under the lease's token, lease cleared.
EndAttempt(j, st, outcome, dueNow) ==
  /\ status' = [status EXCEPT ![j] = st]
  /\ attempt' = [attempt EXCEPT ![j][lease[j]] = outcome]
  /\ lease' = [lease EXCEPT ![j] = 0]
  /\ expired' = [expired EXCEPT ![j] = FALSE]
  /\ due' = [due EXCEPT ![j] = dueNow]
  /\ UNCHANGED <<row, attemptCount, cancelReq>>

\* Mutant: off by one, the last attempt is never made.
ExhaustedEarly(j) == attemptCount[j] + 1 >= MaxAttempts

Exhausted(j) == attemptCount[j] >= MaxAttempts

\* Mutant: the reaper looks only at jobs that may be tried again.
ReapableIfRetriable(j) == status[j] = "running" /\ expired[j] /\ ~ Exhausted(j)

Reapable(j) == status[j] = "running" /\ expired[j]

\* reap_expired, run by any worker process at startup and periodically.
Reap(j) ==
  /\ \E w \in Workers : ctx[w].phase # "down" /\ ~ stopping[w]
  /\ Reapable(j)
  /\ EndAttempt(j, IF cancelReq[j] THEN "cancelled"
                   ELSE IF Exhausted(j) THEN "failed" ELSE "retry_wait",
                "lease_expired", FALSE)
  /\ UNCHANGED <<ctx, stopping, scanLock, lookup, faults>>

-----------------------------------------------------------------------------
(***************************************************************************)
(* One attempt in a slot.  _run_attempt's finally clause releases the      *)
(* location lock and frees the slot; nothing but a busy claim can tell it  *)
(* apart from the transaction before it, so the two are one step.          *)
(***************************************************************************)

LeaveAttempt(w, phase) ==
  /\ ctx' = [ctx EXCEPT ![w] = NoAttempt(phase)]
  /\ scanLock' = [l \in Locations |->
                    IF scanLock[l] = w THEN None ELSE scanLock[l]]

\* The handler raises: the slot goes on to apply the verdict in _finalize.
Raise(w, verdict) ==
  /\ ctx' = [ctx EXCEPT ![w].phase = "finalizing", ![w].saw = {},
                        ![w].verdict = verdict]
  /\ UNCHANGED <<rowVars, stopping, scanLock, lookup, faults>>

\* handle_scan_location finds its location disabled and completes at once.
SkipDisabled(w) ==
  /\ ctx[w].phase = "running" /\ ctx[w].saw = {}
  /\ row[ctx[w].job].type = "scan_location"
  /\ ctx' = [ctx EXCEPT ![w].phase = "skipping"]
  /\ UNCHANGED <<rowVars, stopping, scanLock, lookup, faults>>

\* check_boundary: lease loss first, then cancellation, then shutdown.
ObserveLost(w) ==
  /\ ctx[w].phase = "running" /\ "lost" \in ctx[w].saw
  /\ LeaveAttempt(w, "idle")
  /\ UNCHANGED <<rowVars, stopping, lookup, faults>>

ObserveCancel(w) ==
  /\ ctx[w].phase = "running"
  /\ "lost" \notin ctx[w].saw /\ "cancel" \in ctx[w].saw
  /\ Raise(w, "cancel")

ObserveShutdown(w) ==
  /\ ctx[w].phase = "running" /\ ctx[w].saw = {"stop"}
  /\ Raise(w, "release")

\* Mutant: the flag is not read again under the row lock.
ChecksNoCancel(w) == ctx[w].phase = "finalizing" /\ Cooperative(w)

\* The final transactions of scan and index lock the row and check for a
\* cancellation; the other handlers, and the skip of a disabled location, go
\* straight to complete().
ChecksCancel(w) == ctx[w].phase = "running" /\ Cooperative(w)

Publish(w) ==
  /\ ctx[w].phase \in {"running", "skipping"}
  /\ Current(w)
  /\ ChecksCancel(w) => ~ cancelReq[ctx[w].job]
  /\ EndAttempt(ctx[w].job, "succeeded", "succeeded", FALSE)
  /\ LeaveAttempt(w, "idle")
  /\ UNCHANGED <<stopping, lookup, faults>>

PublishSeesCancel(w) ==
  /\ ChecksCancel(w) /\ Current(w) /\ cancelReq[ctx[w].job]
  /\ Raise(w, "cancel")

\* Zero rows updated: LeaseLostError, the attempt stops without a write.
PublishFenced(w) ==
  /\ ctx[w].phase \in {"running", "skipping"} /\ ~ Current(w)
  /\ LeaveAttempt(w, "idle")
  /\ UNCHANGED <<rowVars, stopping, lookup, faults>>

HandlerFails(w) ==
  /\ ctx[w].phase = "running"
  /\ \E verdict \in {"transient", "permanent"} : Raise(w, verdict)

\* _finalize under a current lease; an unclassified error counts as transient.
Finalize(w) ==
  LET j == ctx[w].job IN
  /\ ctx[w].phase = "finalizing" /\ Current(w)
  /\ \/ /\ ctx[w].verdict = "cancel"
        /\ EndAttempt(j, "cancelled", "cancelled", FALSE)
     \/ /\ ctx[w].verdict = "release"
        /\ EndAttempt(j, "retry_wait", "shutdown_released", TRUE)
     \/ /\ ctx[w].verdict = "permanent"
        /\ EndAttempt(j, "failed", "permanent_error", FALSE)
     \/ /\ ctx[w].verdict = "transient"
        /\ EndAttempt(j, IF Exhausted(j) THEN "failed" ELSE "retry_wait",
                      "transient_error", FALSE)
  /\ LeaveAttempt(w, "idle")
  /\ UNCHANGED <<stopping, lookup, faults>>

FinalizeFenced(w) ==
  /\ ctx[w].phase = "finalizing" /\ ~ Current(w)
  /\ LeaveAttempt(w, "idle")
  /\ UNCHANGED <<rowVars, stopping, lookup, faults>>

\* The slot survives but its attempt ends without a word to the queue: the
\* pinned connection died, or _finalize itself raised.
Abandon(w) ==
  /\ ctx[w].phase \in Attempting
  /\ LeaveAttempt(w, "idle")
  /\ UNCHANGED <<rowVars, stopping, lookup, faults>>

-----------------------------------------------------------------------------
(***************************************************************************)
(* Process lifecycle.                                                      *)
(***************************************************************************)

\* SIGTERM sets WorkerRunner.stop.
Stop(w) ==
  /\ ctx[w].phase # "down" /\ ~ stopping[w] /\ faults < MaxFaults
  /\ stopping' = [stopping EXCEPT ![w] = TRUE]
  /\ faults' = faults + 1
  /\ UNCHANGED <<rowVars, ctx, scanLock, lookup>>

\* The claim loop drained, or the grace deadline cancelled what was left.
Exit(w) ==
  /\ ctx[w].phase # "down" /\ stopping[w]
  /\ LeaveAttempt(w, "down")
  /\ stopping' = [stopping EXCEPT ![w] = FALSE]
  /\ UNCHANGED <<rowVars, lookup, faults>>

Crash(w) ==
  /\ ctx[w].phase # "down" /\ faults < MaxFaults
  /\ LeaveAttempt(w, "down")
  /\ stopping' = [stopping EXCEPT ![w] = FALSE]
  /\ faults' = faults + 1
  /\ UNCHANGED <<rowVars, lookup>>

\* Restart under a new process identity; its startup reap is a Reap step.
Start(w) ==
  /\ ctx[w].phase = "down"
  /\ ctx' = [ctx EXCEPT ![w] = NoAttempt("idle")]
  /\ UNCHANGED <<rowVars, stopping, scanLock, lookup, faults>>

-----------------------------------------------------------------------------
Enqueue(c) ==
  \/ LookupDuplicate(c)
  \/ \E r \in Requests \cup {RetryRequest(k) : k \in {i \in Jobs : row[i] # None}} :
       InsertRejected(c, r) \/ \E j \in Jobs : Insert(c, r, j)

HandlerStep(w) ==
  \/ SkipDisabled(w) \/ ObserveLost(w) \/ ObserveCancel(w) \/ ObserveShutdown(w)
  \/ Publish(w) \/ PublishSeesCancel(w) \/ PublishFenced(w) \/ HandlerFails(w)
  \/ Finalize(w) \/ FinalizeFenced(w) \/ Abandon(w)

Next ==
  \/ \E c \in Callers : Enqueue(c)
  \/ \E j \in Jobs : RequestCancel(j) \/ Expire(j) \/ BecomeDue(j) \/ Reap(j)
  \/ \E w \in Workers :
       \/ \E j \in Jobs : Claim(w, j)
       \/ Heartbeat(w) \/ HandlerStep(w)
       \/ Stop(w) \/ Exit(w) \/ Crash(w) \/ Start(w)

Spec == Init /\ [][Next]_vars

-----------------------------------------------------------------------------
(***************************************************************************)
(* Safety.                                                                 *)
(***************************************************************************)

\* The attempt ledger and the job row agree whatever claims, expiries, reaps,
\* stale writes and crashes do: attempt rows exist exactly for the attempts
\* counted, the budget is never exceeded, and an attempt row is open exactly
\* while the row's current lease is the one drawn for it.
AttemptLedger ==
  \A j \in Jobs :
    /\ status[j] = "running" <=> lease[j] # 0
    /\ lease[j] \in {0, attemptCount[j]}
    /\ \A n \in Attempts :
         /\ attempt[j][n] = "none" <=> n > attemptCount[j]
         /\ attempt[j][n] = "open" <=> n = lease[j]

\* How a job ended is accounted for by how its attempts ended: it succeeded
\* exactly if its last attempt did and no other; a permanent error or an
\* acknowledged cancellation is the last thing that happened to it; and it
\* failed only on a permanent error or with its whole budget used up.
VerdictLedger ==
  \A j \in Jobs :
    /\ \A n \in Attempts :
         /\ attempt[j][n] = "succeeded"
              <=> status[j] = "succeeded" /\ n = attemptCount[j]
         /\ attempt[j][n] = "permanent_error"
              => status[j] = "failed" /\ n = attemptCount[j]
         /\ attempt[j][n] = "cancelled"
              => status[j] = "cancelled" /\ n = attemptCount[j]
    /\ status[j] = "failed" =>
         /\ attemptCount[j] > 0
         /\ \/ attempt[j][attemptCount[j]] = "permanent_error"
            \/ /\ attemptCount[j] = MaxAttempts
               /\ attempt[j][attemptCount[j]] \in {"transient_error", "lease_expired"}

\* No two slots ever act under one lease, however often jobs are released,
\* expire, are reaped and are claimed again while an old holder still runs.
OneHolderPerLease ==
  \A v, w \in Workers :
    /\ v # w
    /\ ctx[v].phase \in Attempting /\ ctx[w].phase \in Attempting
    /\ ctx[v].job = ctx[w].job
    => ctx[v].token # ctx[w].token

\* Scans of one location never overlap, not even the scan of a stale attempt
\* that has lost its lease with that of the attempt that replaced it.
ScanExclusion ==
  \A v, w \in Workers :
    /\ v # w
    /\ ctx[v].phase \in Attempting /\ ctx[w].phase \in Attempting
    /\ IsScan(row[ctx[v].job]) /\ IsScan(row[ctx[w].job])
    => row[ctx[v].job].loc # row[ctx[w].job].loc

\* A retry is a copy of a job that failed or was cancelled and stays so, and
\* no job has two open retries, however the requests for them race.
RetryLineage ==
  \A j, k \in Jobs :
    /\ row[j] # None /\ row[j].retryOf = k
    => /\ status[k] \in {"failed", "cancelled"}
       /\ row[j].type = row[k].type /\ row[j].loc = row[k].loc
       /\ \A i \in Jobs \ {j} :
            Open(i) /\ Open(j) => row[i].retryOf # k

-----------------------------------------------------------------------------
(***************************************************************************)
(* What a step may never do.                                               *)
(***************************************************************************)

\* An unexpired lease is ended only by the slot that holds it, an expired one
\* only by the reaper: a stale worker ends nobody's attempt, and the reaper
\* never takes a job from a worker whose heartbeats arrive in time.
LeaseAuthorityStep ==
  \A j \in Jobs :
    status[j] = "running" /\ status'[j] # "running" =>
      IF expired[j]
        THEN attempt'[j][lease[j]] = "lease_expired"
        ELSE /\ attempt'[j][lease[j]] # "lease_expired"
             /\ \E w \in Workers :
                  /\ ctx[w].job = j /\ ctx[w].token = lease[j]
                  /\ ctx'[w].job = None

LeaseAuthority == [][LeaseAuthorityStep]_vars

\* History is never rewritten: a terminal row stays as it is, the attempt
\* count never falls and grows by one per claim, a closed attempt keeps its
\* outcome, and a recorded cancellation is never forgotten.
HistoryKeptStep ==
  \A j \in Jobs :
    /\ status[j] \in Terminal =>
         status'[j] = status[j] /\ cancelReq'[j] = cancelReq[j]
    /\ attemptCount'[j] \in {attemptCount[j], attemptCount[j] + 1}
    /\ attemptCount'[j] # attemptCount[j] => attempt'[j][attemptCount'[j]] = "open"
    /\ \A n \in Attempts :
         attempt[j][n] \in Outcomes => attempt'[j][n] = attempt[j][n]
    /\ cancelReq[j] => cancelReq'[j]

HistoryKept == [][HistoryKeptStep]_vars

\* Once a cancellation of a running scan or index job is on record the job
\* does not succeed, whichever of the two transactions the row lock lets go
\* first; the one exception is a scan skipped because its location is disabled.
CancelWinsStep ==
  \A j \in Jobs :
    /\ cancelReq[j] /\ row[j].type \in {"scan_location", "index_file"}
    /\ status[j] = "running" /\ status'[j] = "succeeded"
    => \E w \in Workers : ctx[w].job = j /\ ctx[w].phase = "skipping"

CancelWins == [][CancelWinsStep]_vars

-----------------------------------------------------------------------------
(***************************************************************************)
(* The queue implements LeasedWork: the holder of a job is the slot whose  *)
(* attempt carries the job's current, unexpired lease.                     *)
(***************************************************************************)

Holds(w, j) == ctx[w].phase \in Attempting /\ ctx[w].job = j /\ Current(w)

Holder(j) ==
  IF \E w \in Workers : Holds(w, j) THEN CHOOSE w \in Workers : Holds(w, j) ELSE None

Work == INSTANCE LeasedWork WITH
  holder <- [j \in Jobs |-> Holder(j)],
  grants <- attemptCount,
  result <- [j \in Jobs |-> IF Open(j) THEN "undecided" ELSE status[j]]

\* Leases, tokens, heartbeats, the reaper and crashes together give every job
\* at most one authoritative holder, and only that holder's success counts.
ImplementsLeasedWork == Work!Spec

-----------------------------------------------------------------------------
(***************************************************************************)
(* Liveness.                                                               *)
(***************************************************************************)

\* No slot is left to heartbeat the lease: it will run out.
Unattended(j) == \A w \in Workers : ~ Holds(w, j)

\* Handlers end (their blocking calls have timeouts), the loops of a live
\* process keep running, PostgreSQL time passes, and a process that is down is
\* started again.  Crashes and shutdowns are finitely many (MaxFaults).
Fairness ==
  /\ \A w \in Workers :
       /\ WF_vars(HandlerStep(w))
       /\ WF_vars(\E j \in Jobs : Claim(w, j))
       /\ WF_vars(Exit(w))
       /\ WF_vars(Start(w))
  /\ \A j \in Jobs :
       /\ WF_vars(Expire(j) /\ Unattended(j))
       /\ WF_vars(Reap(j))
       /\ WF_vars(BecomeDue(j))

FairSpec == Spec /\ Fairness

\* A job put back to wait that no claim admits and no reaper sees.
Stranded(j) ==
  status[j] = "retry_wait" /\ (cancelReq[j] \/ Exhausted(j))

\* No accepted job is forgotten: through crashes, expiries, shutdowns and busy
\* locks it reaches a terminal state, unless it is put back to wait with its
\* cancellation recorded or its budget used up.
EventuallySettled ==
  \A j \in Jobs : Open(j) ~> (status[j] \in Terminal \/ Stranded(j))
=============================================================================
