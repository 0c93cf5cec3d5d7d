--------------------------- MODULE JobQueueProofs ---------------------------
(***************************************************************************)
(* Proofs about JobQueue, for every set of jobs, workers, locations and    *)
(* requests and every attempt budget.  The inductive invariant Inv adds to *)
(* the checked invariants what each slot's context and each advisory lock  *)
(* have to do with the rows.                                               *)
(***************************************************************************)
EXTENDS JobQueue, TLAPS

\* A row has content exactly once it is inserted.
RowInv == \A j \in Jobs : row[j] = None <=> status[j] = "absent"

\* A slot in an attempt names an existing job and a token drawn for it; a
\* slot outside one names nothing; only a raised handler has a verdict.
SlotInv ==
  \A w \in Workers :
    /\ ctx[w].phase \in Attempting =>
         /\ ctx[w].job \in Jobs
         /\ status[ctx[w].job] # "absent"
         /\ ctx[w].token \in 1 .. attemptCount[ctx[w].job]
    /\ ctx[w].phase \notin Attempting => ctx[w].job = None
    /\ ctx[w].phase = "finalizing" => ctx[w].verdict \in Verdicts

\* A slot that scans a location holds its lock.
LockInv ==
  \A w \in Workers :
    ctx[w].phase \in Attempting /\ IsScan(row[ctx[w].job])
    => scanLock[row[ctx[w].job].loc] = w

Inv ==
  /\ TypeOK /\ RowInv /\ SlotInv /\ LockInv
  /\ AttemptLedger /\ VerdictLedger /\ OneHolderPerLease

USE AttemptsAssumption

-----------------------------------------------------------------------------
(***************************************************************************)
(* The row part of a transition out of running.                            *)
(***************************************************************************)

\* Ending an attempt keeps the rows well formed.
LEMMA EndAttemptRows ==
  ASSUME RowsOK, RowInv, AttemptLedger,
         NEW j \in Jobs, status[j] = "running",
         NEW st \in Terminal \cup {"retry_wait"}, NEW o \in Outcomes,
         NEW d \in BOOLEAN, EndAttempt(j, st, o, d)
  PROVE  /\ RowsOK' /\ RowInv' /\ AttemptLedger'
         /\ row' = row /\ attemptCount' = attemptCount /\ cancelReq' = cancelReq
         /\ lease[j] = attemptCount[j] /\ lease[j] \in Attempts
         /\ status' = [status EXCEPT ![j] = st]
         /\ attempt' = [attempt EXCEPT ![j][lease[j]] = o]
<1>1. lease[j] = attemptCount[j] /\ lease[j] \in Attempts
  BY DEF AttemptLedger, RowsOK, Attempts
<1>2. RowsOK'
  BY <1>1 DEF EndAttempt, RowsOK, Statuses, OpenSt, Waiting, Attempts
<1>3. RowInv'
  BY DEF EndAttempt, RowsOK, RowInv, Terminal
<1>4. AttemptLedger'
  <2> SUFFICES ASSUME NEW k \in Jobs
               PROVE  /\ status'[k] = "running" <=> lease'[k] # 0
                      /\ lease'[k] \in {0, attemptCount'[k]}
                      /\ \A n \in Attempts :
                           /\ attempt'[k][n] = "none" <=> n > attemptCount'[k]
                           /\ attempt'[k][n] = "open" <=> n = lease'[k]
    BY DEF AttemptLedger
  <2>1. CASE k # j
    BY <2>1 DEF EndAttempt, RowsOK, AttemptLedger
  <2>2. CASE k = j
    <3>1. status'[k] = st /\ lease'[k] = 0 /\ attemptCount'[k] = attemptCount[k]
      BY <2>2 DEF EndAttempt, RowsOK
    <3>2. \A n \in Attempts : attempt'[k][n] = IF n = lease[j] THEN o ELSE attempt[j][n]
      BY <2>2, <1>1 DEF EndAttempt, RowsOK
    <3>3. st # "running" /\ o # "none" /\ o # "open"
      BY DEF Terminal, Outcomes
    <3>4. lease[k] = lease[j] /\ attemptCount[k] = attemptCount[j]
      BY <2>2
    <3>5. \A n \in Attempts :
            /\ attempt'[k][n] = "none" <=> n > attemptCount'[k]
            /\ attempt'[k][n] = "open" <=> n = lease'[k]
      <4> SUFFICES ASSUME NEW n \in Attempts
                   PROVE  /\ attempt'[k][n] = "none" <=> n > attemptCount'[k]
                          /\ attempt'[k][n] = "open" <=> n = lease'[k]
        OBVIOUS
      <4>1. /\ attempt[j][n] = "none" <=> n > attemptCount[j]
            /\ attempt[j][n] = "open" <=> n = lease[j]
        BY DEF AttemptLedger
      <4>2. CASE n = lease[j]
        BY <4>2, <3>1, <3>2, <3>3, <3>4, <1>1 DEF Attempts
      <4>3. CASE n # lease[j]
        BY <4>3, <4>1, <3>1, <3>2, <3>4 DEF Attempts
      <4> QED
        BY <4>2, <4>3
    <3> QED
      BY <3>1, <3>3, <3>5
  <2> QED
    BY <2>1, <2>2
<1> QED
  BY <1>1, <1>2, <1>3, <1>4 DEF EndAttempt

\* What the verdicts of attempts say of jobs, when the new pair agrees.
LEMMA EndAttemptVerdict ==
  ASSUME RowsOK, AttemptLedger, VerdictLedger,
         NEW j \in Jobs, status[j] = "running",
         NEW st \in Terminal \cup {"retry_wait"}, NEW o \in Outcomes,
         attemptCount' = attemptCount,
         lease[j] = attemptCount[j], lease[j] \in Attempts,
         status' = [status EXCEPT ![j] = st],
         attempt' = [attempt EXCEPT ![j][lease[j]] = o],
         o = "succeeded" <=> st = "succeeded",
         o = "permanent_error" => st = "failed",
         o = "cancelled" => st = "cancelled",
         st = "failed" => \/ o = "permanent_error"
                          \/ /\ attemptCount[j] = MaxAttempts
                             /\ o \in {"transient_error", "lease_expired"}
  PROVE  VerdictLedger'
<1> SUFFICES ASSUME NEW k \in Jobs
             PROVE  /\ \A n \in Attempts :
                         /\ attempt'[k][n] = "succeeded"
                              <=> status'[k] = "succeeded" /\ n = attemptCount'[k]
                         /\ attempt'[k][n] = "permanent_error"
                              => status'[k] = "failed" /\ n = attemptCount'[k]
                         /\ attempt'[k][n] = "cancelled"
                              => status'[k] = "cancelled" /\ n = attemptCount'[k]
                    /\ status'[k] = "failed" =>
                         /\ attemptCount'[k] > 0
                         /\ \/ attempt'[k][attemptCount'[k]] = "permanent_error"
                            \/ /\ attemptCount'[k] = MaxAttempts
                               /\ attempt'[k][attemptCount'[k]]
                                    \in {"transient_error", "lease_expired"}
  BY DEF VerdictLedger
<1>1. CASE k # j
  BY <1>1 DEF VerdictLedger, RowsOK
<1>2. CASE k = j
  <2>1. status'[k] = st /\ attemptCount'[k] = attemptCount[j]
    BY <1>2 DEF RowsOK
  <2>2. \A n \in Attempts : attempt'[k][n] = IF n = lease[j] THEN o ELSE attempt[j][n]
    BY <1>2 DEF RowsOK
  <2>3. \A n \in Attempts : /\ attempt[j][n] # "succeeded"
                            /\ attempt[j][n] # "permanent_error"
                            /\ attempt[j][n] # "cancelled"
    BY DEF VerdictLedger
  <2>4. attemptCount[j] > 0
    BY DEF Attempts
  <2> QED
    BY <2>1, <2>2, <2>3, <2>4
<1> QED
  BY <1>1, <1>2

-----------------------------------------------------------------------------
(***************************************************************************)
(* The job rows and attempt rows, action by action.                        *)
(***************************************************************************)

RowsInv == RowsOK /\ RowInv /\ AttemptLedger /\ VerdictLedger

\* What every step leaves of an inserted row.
Persist ==
  \A j \in Jobs : status[j] # "absent" =>
    /\ row'[j] = row[j] /\ status'[j] # "absent"
    /\ attemptCount'[j] >= attemptCount[j]

\* So does a step that writes none.
LEMMA RowsUnchanged ==
  ASSUME RowsInv, UNCHANGED rowVars
  PROVE  RowsInv' /\ Persist
BY DEF RowsInv, RowsOK, RowInv, AttemptLedger, VerdictLedger, rowVars, Persist

\* A request to retry is well formed.
LEMMA RetryRequestType ==
  ASSUME RowsOK, NEW k \in Jobs, row[k] # None
  PROVE  RetryRequest(k) \in Request
BY DEF RetryRequest, RowsOK, Request

\* Inserting a job keeps the rows well formed.
LEMMA InsertRows ==
  ASSUME RowsInv, NEW c \in Callers, NEW r \in Request, NEW j \in Jobs,
         Insert(c, r, j)
  PROVE  RowsInv' /\ Persist
<1> USE DEF RowsInv
<1>1. RowsOK'
  BY DEF Insert, RowsOK, Statuses, OpenSt, Waiting
<1>2. RowInv'
  BY NoneAssumption DEF Insert, RowsOK, RowInv
<1>3. AttemptLedger'
  BY DEF Insert, RowsOK, AttemptLedger
<1>4. VerdictLedger'
  BY DEF Insert, RowsOK, VerdictLedger
<1>5. Persist
  BY DEF Insert, RowsOK, Persist
<1> QED
  BY <1>1, <1>2, <1>3, <1>4, <1>5

\* So does a cancellation.
LEMMA RequestCancelRows ==
  ASSUME RowsInv, NEW j \in Jobs, RequestCancel(j)
  PROVE  RowsInv' /\ Persist
<1> USE DEF RowsInv, RequestCancel, CancelsAtOnce
<1>1. RowsOK'
  BY DEF RowsOK, Statuses, Terminal
<1>2. RowInv'
  BY DEF RowsOK, RowInv, Waiting
<1>3. AttemptLedger'
  BY DEF RowsOK, AttemptLedger, Waiting
<1>4. VerdictLedger'
  BY DEF RowsOK, VerdictLedger, Waiting
<1>5. Persist
  BY DEF RowsOK, Persist
<1> QED
  BY <1>1, <1>2, <1>3, <1>4, <1>5

\* So does the clock.
LEMMA ClockRows ==
  ASSUME RowsInv, NEW j \in Jobs, Expire(j) \/ BecomeDue(j)
  PROVE  RowsInv' /\ Persist
<1>1. CASE Expire(j)
  BY <1>1 DEF Expire, RowsInv, RowsOK, RowInv, AttemptLedger, VerdictLedger, Persist
<1>2. CASE BecomeDue(j)
  BY <1>2 DEF BecomeDue, RowsInv, RowsOK, RowInv, AttemptLedger, VerdictLedger, Persist
<1> QED
  BY <1>1, <1>2

\* So does a claim.
LEMMA ClaimRows ==
  ASSUME RowsInv, NEW w \in Workers, NEW j \in Jobs, Claim(w, j)
  PROVE  RowsInv' /\ Persist
<1> DEFINE n == attemptCount[j] + 1
<1>1. /\ status[j] \in Waiting /\ n \in Attempts /\ n \in 0 .. MaxAttempts
      /\ lease[j] = 0
  BY DEF Claim, Claimable, RowsInv, RowsOK, AttemptLedger, Waiting, Attempts
<1>2. /\ status' = [status EXCEPT ![j] = "running"]
      /\ attemptCount' = [attemptCount EXCEPT ![j] = n]
      /\ lease' = [lease EXCEPT ![j] = n]
      /\ attempt' = [attempt EXCEPT ![j][n] = "open"]
      /\ expired' = [expired EXCEPT ![j] = FALSE]
      /\ row' = row /\ due' = due /\ cancelReq' = cancelReq
  BY DEF Claim, NewToken, RowsInv, RowsOK
<1> HIDE DEF n
<1>3. RowsOK'
  BY <1>1, <1>2 DEF RowsInv, RowsOK, Statuses, OpenSt
<1>4. RowInv'
  BY <1>1, <1>2 DEF RowsInv, RowsOK, RowInv, Waiting
<1>5. \A m \in Attempts : attempt'[j][m] = IF m = n THEN "open" ELSE attempt[j][m]
  BY <1>1, <1>2 DEF RowsInv, RowsOK
<1>6. n = attemptCount[j] + 1 /\ attemptCount[j] \in Nat
  BY DEF n, RowsInv, RowsOK
<1>7. ASSUME NEW k \in Jobs
      PROVE  /\ status'[k] = "running" <=> lease'[k] # 0
             /\ lease'[k] \in {0, attemptCount'[k]}
             /\ \A m \in Attempts :
                  /\ attempt'[k][m] = "none" <=> m > attemptCount'[k]
                  /\ attempt'[k][m] = "open" <=> m = lease'[k]
  <2>1. CASE k # j
    BY <2>1, <1>2 DEF RowsInv, RowsOK, AttemptLedger
  <2>2. CASE k = j
    <3>1. status'[j] = "running" /\ lease'[j] = n /\ attemptCount'[j] = n
      BY <1>2 DEF RowsInv, RowsOK
    <3>2. ASSUME NEW m \in Attempts
          PROVE  /\ attempt'[j][m] = "none" <=> m > attemptCount'[j]
                 /\ attempt'[j][m] = "open" <=> m = lease'[j]
      <4>1. /\ attempt[j][m] = "none" <=> m > attemptCount[j]
            /\ attempt[j][m] # "open"
        BY <1>1 DEF RowsInv, AttemptLedger, Attempts
      <4> QED
        BY <4>1, <3>1, <1>5, <1>6 DEF Attempts
    <3> QED
      BY <3>1, <3>2, <2>2, <1>1 DEF Attempts
  <2> QED
    BY <2>1, <2>2
<1>8. AttemptLedger'
  BY <1>7 DEF AttemptLedger
<1>9. VerdictLedger'
  <2> SUFFICES ASSUME NEW k \in Jobs
               PROVE  /\ \A m \in Attempts :
                           /\ attempt'[k][m] = "succeeded"
                                <=> status'[k] = "succeeded" /\ m = attemptCount'[k]
                           /\ attempt'[k][m] = "permanent_error"
                                => status'[k] = "failed" /\ m = attemptCount'[k]
                           /\ attempt'[k][m] = "cancelled"
                                => status'[k] = "cancelled" /\ m = attemptCount'[k]
                      /\ status'[k] = "failed" =>
                           /\ attemptCount'[k] > 0
                           /\ \/ attempt'[k][attemptCount'[k]] = "permanent_error"
                              \/ /\ attemptCount'[k] = MaxAttempts
                                 /\ attempt'[k][attemptCount'[k]]
                                      \in {"transient_error", "lease_expired"}
    BY DEF VerdictLedger
  <2>1. CASE k # j
    BY <2>1, <1>2 DEF RowsInv, RowsOK, VerdictLedger
  <2>2. CASE k = j
    <3>1. status'[j] = "running"
      BY <1>2 DEF RowsInv, RowsOK
    <3>2. \A m \in Attempts : /\ attempt[j][m] # "succeeded"
                              /\ attempt[j][m] # "permanent_error"
                              /\ attempt[j][m] # "cancelled"
      BY <1>1 DEF RowsInv, VerdictLedger, Waiting
    <3> QED
      BY <3>1, <3>2, <2>2, <1>5
  <2> QED
    BY <2>1, <2>2
<1>10. Persist
  BY <1>2, <1>6 DEF RowsInv, RowsOK, Persist
<1> QED
  BY <1>3, <1>4, <1>8, <1>9, <1>10 DEF RowsInv

\* Ending an attempt takes nothing back.
LEMMA EndAttemptPersist ==
  ASSUME RowsOK, NEW j \in Jobs, NEW st \in Terminal \cup {"retry_wait"},
         row' = row, attemptCount' = attemptCount,
         status' = [status EXCEPT ![j] = st]
  PROVE  Persist
BY DEF RowsOK, Persist, Terminal

\* Reaping keeps the rows well formed.
LEMMA ReapRows ==
  ASSUME RowsInv, NEW j \in Jobs, Reap(j)
  PROVE  RowsInv' /\ Persist
<1> DEFINE st == IF cancelReq[j] THEN "cancelled"
                 ELSE IF Exhausted(j) THEN "failed" ELSE "retry_wait"
<1>1. status[j] = "running" /\ EndAttempt(j, st, "lease_expired", FALSE)
  BY DEF Reap, Reapable
<1>2. /\ st \in Terminal \cup {"retry_wait"} /\ st # "succeeded"
      /\ st = "failed" => attemptCount[j] = MaxAttempts
  <2> HIDE DEF st
  <2>0. attemptCount[j] \in 0 .. MaxAttempts
    BY DEF RowsInv, RowsOK
  <2>1. Exhausted(j) => attemptCount[j] = MaxAttempts
    BY <2>0 DEF Exhausted
  <2> USE DEF st
  <2>2. CASE cancelReq[j]
    BY <2>2 DEF Terminal
  <2>3. CASE ~ cancelReq[j] /\ Exhausted(j)
    BY <2>1, <2>3 DEF Terminal
  <2>4. CASE ~ cancelReq[j] /\ ~ Exhausted(j)
    BY <2>4 DEF Terminal
  <2> QED
    BY <2>2, <2>3, <2>4
<1> HIDE DEF st
<1>3. "lease_expired" \in Outcomes
  BY DEF Outcomes
<1>4. /\ RowsOK' /\ RowInv' /\ AttemptLedger'
      /\ row' = row /\ attemptCount' = attemptCount
      /\ lease[j] = attemptCount[j] /\ lease[j] \in Attempts
      /\ status' = [status EXCEPT ![j] = st]
      /\ attempt' = [attempt EXCEPT ![j][lease[j]] = "lease_expired"]
  BY <1>1, <1>2, <1>3, EndAttemptRows DEF RowsInv
<1>5. VerdictLedger'
  BY <1>1, <1>2, <1>3, <1>4, EndAttemptVerdict DEF RowsInv
<1> QED
  BY <1>2, <1>4, <1>5, EndAttemptPersist DEF RowsInv

\* Any transition out of running that a worker writes.
LEMMA WorkerEndRows ==
  ASSUME RowsInv, NEW j \in Jobs, status[j] = "running",
         NEW st \in Terminal \cup {"retry_wait"}, NEW o \in Outcomes,
         NEW d \in BOOLEAN, EndAttempt(j, st, o, d),
         o = "succeeded" <=> st = "succeeded",
         o = "permanent_error" => st = "failed",
         o = "cancelled" => st = "cancelled",
         st = "failed" => \/ o = "permanent_error"
                          \/ o = "transient_error" /\ Exhausted(j)
  PROVE  RowsInv' /\ Persist
<1>1. /\ RowsOK' /\ RowInv' /\ AttemptLedger'
      /\ row' = row /\ attemptCount' = attemptCount
      /\ lease[j] = attemptCount[j] /\ lease[j] \in Attempts
      /\ status' = [status EXCEPT ![j] = st]
      /\ attempt' = [attempt EXCEPT ![j][lease[j]] = o]
  BY EndAttemptRows DEF RowsInv
<1>2. attemptCount[j] \in 0 .. MaxAttempts
  BY DEF RowsInv, RowsOK
<1>3. Exhausted(j) => attemptCount[j] = MaxAttempts
  BY <1>2 DEF Exhausted
<1>4. VerdictLedger'
  BY <1>1, <1>3, EndAttemptVerdict DEF RowsInv
<1> QED
  BY <1>1, <1>4, EndAttemptPersist DEF RowsInv

\* So does a publication.
LEMMA PublishRows ==
  ASSUME RowsInv, SlotInv, NEW w \in Workers, Publish(w)
  PROVE  RowsInv' /\ Persist
<1>1. /\ ctx[w].job \in Jobs /\ status[ctx[w].job] = "running"
      /\ EndAttempt(ctx[w].job, "succeeded", "succeeded", FALSE)
  BY DEF Publish, SlotInv, Current, Attempting
<1>2. "succeeded" \in Terminal \cup {"retry_wait"} /\ "succeeded" \in Outcomes
  BY DEF Terminal, Outcomes
<1> QED
  BY <1>1, <1>2, WorkerEndRows

\* So does the end of a handler.
LEMMA FinalizeRows ==
  ASSUME RowsInv, SlotInv, NEW w \in Workers, Finalize(w)
  PROVE  RowsInv' /\ Persist
<1> DEFINE j == ctx[w].job
<1>1. j \in Jobs /\ status[j] = "running"
  BY DEF Finalize, SlotInv, Current, Attempting
<1>2. \/ EndAttempt(j, "cancelled", "cancelled", FALSE)
      \/ EndAttempt(j, "retry_wait", "shutdown_released", TRUE)
      \/ EndAttempt(j, "failed", "permanent_error", FALSE)
      \/ EndAttempt(j, IF Exhausted(j) THEN "failed" ELSE "retry_wait",
                    "transient_error", FALSE)
  BY DEF Finalize
<1> HIDE DEF j
<1> USE <1>1 DEF Terminal, Outcomes
<1>3. CASE EndAttempt(j, "cancelled", "cancelled", FALSE)
  BY <1>3, WorkerEndRows
<1>4. CASE EndAttempt(j, "retry_wait", "shutdown_released", TRUE)
  BY <1>4, WorkerEndRows
<1>5. CASE EndAttempt(j, "failed", "permanent_error", FALSE)
  BY <1>5, WorkerEndRows
<1>6. CASE EndAttempt(j, IF Exhausted(j) THEN "failed" ELSE "retry_wait",
                      "transient_error", FALSE)
  <2>1. CASE Exhausted(j)
    <3>1. EndAttempt(j, "failed", "transient_error", FALSE)
      BY <1>6, <2>1
    <3> QED
      BY <2>1, <3>1, WorkerEndRows
  <2>2. CASE ~ Exhausted(j)
    <3>1. EndAttempt(j, "retry_wait", "transient_error", FALSE)
      BY <1>6, <2>2
    <3> QED
      BY <3>1, WorkerEndRows
  <2> QED
    BY <2>1, <2>2
<1> QED
  BY <1>2, <1>3, <1>4, <1>5, <1>6

-----------------------------------------------------------------------------
(***************************************************************************)
(* The slots and the locks.                                                *)
(***************************************************************************)

HoldersInv == SlotInv /\ LockInv /\ OneHolderPerLease

\* The location of a scan is a location.
LEMMA LocationOfScan ==
  ASSUME RowsOK, NEW j \in Jobs, status[j] # "absent", RowInv, IsScan(row[j])
  PROVE  row[j].loc \in Locations
BY DEF RowsOK, RowInv, IsScan, Request

\* Slots that keep their attempts keep what the invariant says of them.
LEMMA SameAttempts ==
  ASSUME RowsInv, SlotsOK, HoldersInv, RowsInv', Persist, scanLock' = scanLock,
         \A v \in Workers :
           /\ ctx'[v].job = ctx[v].job /\ ctx'[v].token = ctx[v].token
           /\ ctx'[v].phase \in Attempting <=> ctx[v].phase \in Attempting
           /\ ctx'[v].phase = "finalizing" => ctx'[v].verdict \in Verdicts
  PROVE  HoldersInv'
<1>1. SlotInv'
  <2> SUFFICES ASSUME NEW v \in Workers
               PROVE  /\ ctx'[v].phase \in Attempting =>
                           /\ ctx'[v].job \in Jobs
                           /\ status'[ctx'[v].job] # "absent"
                           /\ ctx'[v].token \in 1 .. attemptCount'[ctx'[v].job]
                      /\ ctx'[v].phase \notin Attempting => ctx'[v].job = None
                      /\ ctx'[v].phase = "finalizing" => ctx'[v].verdict \in Verdicts
    BY DEF SlotInv
  <2>1. ASSUME ctx'[v].phase \in Attempting
        PROVE  /\ ctx'[v].job \in Jobs
               /\ status'[ctx'[v].job] # "absent"
               /\ ctx'[v].token \in 1 .. attemptCount'[ctx'[v].job]
    <3>1. /\ ctx[v].job \in Jobs /\ status[ctx[v].job] # "absent"
          /\ ctx[v].token \in 1 .. attemptCount[ctx[v].job]
      BY <2>1 DEF HoldersInv, SlotInv
    <3>2. /\ attemptCount[ctx[v].job] \in Nat /\ attemptCount'[ctx[v].job] \in Nat
          /\ attemptCount'[ctx[v].job] >= attemptCount[ctx[v].job]
          /\ status'[ctx[v].job] # "absent"
      BY <3>1 DEF RowsInv, RowsOK, Persist
    <3> QED
      BY <3>1, <3>2
  <2> QED
    BY <2>1 DEF HoldersInv, SlotInv
<1>2. LockInv'
  BY DEF HoldersInv, SlotInv, LockInv, Persist
<1>3. OneHolderPerLease'
  BY DEF HoldersInv, OneHolderPerLease
<1> QED
  BY <1>1, <1>2, <1>3 DEF HoldersInv

\* A slot that leaves its attempt gives up its lock and nobody else's.
LEMMA LeaveHolders ==
  ASSUME RowsInv, SlotsOK, HoldersInv, RowsInv', Persist,
         NEW w \in Workers, NEW phase \in {"down", "idle"}, LeaveAttempt(w, phase)
  PROVE  /\ HoldersInv'
         /\ ctx' \in [Workers -> Context]
         /\ scanLock' \in [Locations -> Workers \cup {None}]
<1>1. /\ ctx' \in [Workers -> Context]
      /\ scanLock' \in [Locations -> Workers \cup {None}]
  BY DEF LeaveAttempt, NoAttempt, SlotsOK, Context
<1>2. /\ ctx'[w].phase \notin Attempting /\ ctx'[w].job = None
      /\ ctx'[w].phase # "finalizing"
  BY DEF LeaveAttempt, NoAttempt, SlotsOK, Attempting
<1>3. \A v \in Workers : v # w => ctx'[v] = ctx[v]
  BY DEF LeaveAttempt, SlotsOK
<1>4. ASSUME NEW v \in Workers, v # w, ctx[v].phase \in Attempting
      PROVE  /\ ctx[v].job \in Jobs /\ status[ctx[v].job] # "absent"
             /\ status'[ctx[v].job] # "absent" /\ row'[ctx[v].job] = row[ctx[v].job]
             /\ ctx[v].token \in 1 .. attemptCount'[ctx[v].job]
  <2>1. /\ ctx[v].job \in Jobs /\ status[ctx[v].job] # "absent"
        /\ ctx[v].token \in 1 .. attemptCount[ctx[v].job]
    BY <1>4 DEF HoldersInv, SlotInv
  <2>2. /\ attemptCount[ctx[v].job] \in Nat /\ attemptCount'[ctx[v].job] \in Nat
        /\ attemptCount'[ctx[v].job] >= attemptCount[ctx[v].job]
        /\ status'[ctx[v].job] # "absent" /\ row'[ctx[v].job] = row[ctx[v].job]
    BY <2>1 DEF RowsInv, RowsOK, Persist
  <2> QED
    BY <2>1, <2>2
<1>5. SlotInv'
  BY <1>2, <1>3, <1>4 DEF HoldersInv, SlotInv
<1>6. LockInv'
  <2> SUFFICES ASSUME NEW v \in Workers, ctx'[v].phase \in Attempting,
                      IsScan(row'[ctx'[v].job])
               PROVE  scanLock'[row'[ctx'[v].job].loc] = v
    BY DEF LockInv
  <2>1. v # w /\ ctx'[v] = ctx[v]
    BY <1>2, <1>3
  <2>2. /\ ctx[v].job \in Jobs /\ status[ctx[v].job] # "absent"
        /\ row'[ctx[v].job] = row[ctx[v].job] /\ IsScan(row[ctx[v].job])
    BY <2>1, <1>4
  <2>3. row[ctx[v].job].loc \in Locations
    BY <2>2, LocationOfScan DEF RowsInv
  <2>4. scanLock[row[ctx[v].job].loc] = v
    BY <2>1, <2>2 DEF HoldersInv, LockInv
  <2> QED
    BY <2>1, <2>2, <2>3, <2>4 DEF LeaveAttempt
<1>7. OneHolderPerLease'
  BY <1>2, <1>3 DEF HoldersInv, OneHolderPerLease
<1> QED
  BY <1>1, <1>5, <1>6, <1>7 DEF HoldersInv

\* A claim draws a token above all those drawn for the job before.
LEMMA ClaimHolders ==
  ASSUME RowsInv, SlotsOK, HoldersInv, RowsInv', Persist,
         NEW w \in Workers, NEW j \in Jobs, Claim(w, j)
  PROVE  SlotsOK' /\ HoldersInv'
<1> DEFINE n == attemptCount[j] + 1
<1>1. /\ n \in 1 .. MaxAttempts /\ n > attemptCount[j] /\ attemptCount[j] \in Nat
      /\ status[j] # "absent" /\ row[j] \in Request
      /\ ctx[w].phase = "idle"
  BY DEF Claim, Claimable, RowsInv, RowsOK, RowInv, Waiting
<1>2. /\ attemptCount' = [attemptCount EXCEPT ![j] = n]
      /\ ctx' = [ctx EXCEPT ![w] = [phase |-> "running", job |-> j, token |-> n,
                                    saw |-> {}, verdict |-> None]]
      /\ row' = row /\ UNCHANGED <<stopping, lookup, faults>>
      /\ scanLock' = IF IsScan(row[j]) THEN [scanLock EXCEPT ![row[j].loc] = w]
                                       ELSE scanLock
  BY DEF Claim, NewToken, RowsInv, RowsOK
<1> HIDE DEF n
<1>3. SlotsOK'
  <2>1. [phase |-> "running", job |-> j, token |-> n, saw |-> {}, verdict |-> None]
          \in Context
    BY <1>1 DEF Context, Attempting
  <2>2. ctx' \in [Workers -> Context]
    BY <2>1, <1>2 DEF SlotsOK
  <2>3. scanLock' \in [Locations -> Workers \cup {None}]
    BY <1>2 DEF SlotsOK
  <2> QED
    BY <2>2, <2>3, <1>2 DEF SlotsOK
<1>4. /\ ctx'[w].phase = "running" /\ ctx'[w].job = j /\ ctx'[w].token = n
      /\ \A v \in Workers : v # w => ctx'[v] = ctx[v]
  BY <1>2 DEF SlotsOK
<1>5. attemptCount'[j] = n /\ status'[j] # "absent"
  BY <1>1, <1>2 DEF RowsInv, RowsOK, Persist
<1>6. ASSUME NEW v \in Workers, v # w, ctx[v].phase \in Attempting
      PROVE  /\ ctx[v].job \in Jobs /\ status'[ctx[v].job] # "absent"
             /\ ctx[v].token \in 1 .. attemptCount[ctx[v].job]
             /\ ctx[v].token \in 1 .. attemptCount'[ctx[v].job]
  <2>1. /\ ctx[v].job \in Jobs /\ status[ctx[v].job] # "absent"
        /\ ctx[v].token \in 1 .. attemptCount[ctx[v].job]
    BY <1>6 DEF HoldersInv, SlotInv
  <2>2. /\ attemptCount[ctx[v].job] \in Nat /\ attemptCount'[ctx[v].job] \in Nat
        /\ attemptCount'[ctx[v].job] >= attemptCount[ctx[v].job]
        /\ status'[ctx[v].job] # "absent"
    BY <2>1 DEF RowsInv, RowsOK, Persist
  <2> QED
    BY <2>1, <2>2
<1>7. SlotInv'
  <2>1. ctx'[w].token \in 1 .. attemptCount'[ctx'[w].job]
    BY <1>1, <1>4, <1>5
  <2>2. ctx'[w].phase \in Attempting /\ ctx'[w].phase # "finalizing"
    BY <1>4 DEF Attempting
  <2> QED
    BY <1>4, <1>5, <1>6, <2>1, <2>2 DEF HoldersInv, SlotInv
<1>8. LockInv'
  <2> SUFFICES ASSUME NEW v \in Workers, ctx'[v].phase \in Attempting,
                      IsScan(row[ctx'[v].job])
               PROVE  scanLock'[row[ctx'[v].job].loc] = v
    BY <1>2 DEF LockInv
  <2>1. CASE v = w
    <3>1. row[j].loc \in Locations /\ IsScan(row[j])
      BY <2>1, <1>1, <1>4, LocationOfScan DEF RowsInv
    <3> QED
      BY <3>1, <2>1, <1>2, <1>4 DEF SlotsOK
  <2>2. CASE v # w
    <3>1. /\ ctx'[v] = ctx[v] /\ IsScan(row[ctx[v].job]) /\ ctx[v].phase \in Attempting
          /\ scanLock[row[ctx[v].job].loc] = v
      BY <2>2, <1>4 DEF HoldersInv, LockInv
    <3>2. /\ ctx[v].job \in Jobs /\ status[ctx[v].job] # "absent"
      BY <3>1 DEF HoldersInv, SlotInv
    <3>3. row[ctx[v].job].loc \in Locations
      BY <3>1, <3>2, LocationOfScan DEF RowsInv
    <3>4. IsScan(row[j]) => scanLock[row[j].loc] = None
      BY DEF Claim, LockFree
    <3>5. v # None
      BY NoneAssumption
    <3> QED
      BY <3>1, <3>3, <3>4, <3>5, <1>2 DEF SlotsOK
  <2> QED
    BY <2>1, <2>2
<1>9. OneHolderPerLease'
  <2>1. ASSUME NEW v \in Workers, v # w, ctx[v].phase \in Attempting, ctx[v].job = j
        PROVE  ctx[v].token # n
    BY <2>1, <1>1, <1>6
  <2> SUFFICES ASSUME NEW u \in Workers, NEW v \in Workers, u # v,
                      ctx'[u].phase \in Attempting, ctx'[v].phase \in Attempting,
                      ctx'[u].job = ctx'[v].job
               PROVE  ctx'[u].token # ctx'[v].token
    BY DEF OneHolderPerLease
  <2>2. CASE u = w
    BY <2>1, <2>2, <1>4
  <2>3. CASE v = w
    BY <2>1, <2>3, <1>4
  <2>4. CASE u # w /\ v # w
    BY <2>4, <1>4 DEF HoldersInv, OneHolderPerLease
  <2> QED
    BY <2>2, <2>3, <2>4
<1> QED
  BY <1>3, <1>7, <1>8, <1>9 DEF HoldersInv

\* Steps that change no slot's attempt and no lock: rows, callers, flags.
LEMMA RowsOnly ==
  ASSUME RowsInv, SlotsOK, HoldersInv, RowsInv', Persist,
         UNCHANGED <<ctx, scanLock>>
  PROVE  HoldersInv'
<1>1. \A v \in Workers : ctx[v].phase = "finalizing" => ctx[v].verdict \in Verdicts
  BY DEF HoldersInv, SlotInv
<1> QED
  BY <1>1, SameAttempts

\* A step of one slot that stays in its attempt.
LEMMA StaysInAttempt ==
  ASSUME RowsInv, SlotsOK, HoldersInv, UNCHANGED <<rowVars, scanLock>>,
         NEW w \in Workers, ctx[w].phase \in Attempting,
         NEW c \in Context, ctx' = [ctx EXCEPT ![w] = c],
         c.phase \in Attempting, c.job = ctx[w].job, c.token = ctx[w].token,
         c.phase = "finalizing" => c.verdict \in Verdicts
  PROVE  HoldersInv' /\ ctx' \in [Workers -> Context]
<1>1. RowsInv' /\ Persist
  BY RowsUnchanged
<1>2. ctx'[w] = c /\ \A v \in Workers : v # w => ctx'[v] = ctx[v]
  BY DEF SlotsOK
<1>3. \A v \in Workers :
        /\ ctx'[v].job = ctx[v].job /\ ctx'[v].token = ctx[v].token
        /\ ctx'[v].phase \in Attempting <=> ctx[v].phase \in Attempting
        /\ ctx'[v].phase = "finalizing" => ctx'[v].verdict \in Verdicts
  BY <1>2 DEF HoldersInv, SlotInv
<1> QED
  BY <1>1, <1>3, SameAttempts DEF SlotsOK

\* A handler that raises keeps the invariant.
LEMMA RaiseInv ==
  ASSUME RowsInv, SlotsOK, HoldersInv, NEW w \in Workers,
         ctx[w].phase = "running", NEW verdict \in Verdicts, Raise(w, verdict)
  PROVE  RowsInv' /\ SlotsOK' /\ HoldersInv'
<1> DEFINE c == [ctx[w] EXCEPT !.phase = "finalizing", !.saw = {},
                               !.verdict = verdict]
<1>0. ctx[w] \in Context
  BY DEF SlotsOK
<1>1. /\ c \in Context /\ c.phase = "finalizing" /\ c.job = ctx[w].job
      /\ c.token = ctx[w].token /\ c.verdict = verdict
  BY <1>0 DEF Context, Attempting
<1>2. ctx' = [ctx EXCEPT ![w] = c] /\ UNCHANGED <<rowVars, scanLock>>
  BY DEF Raise, SlotsOK
<1> HIDE DEF c
<1>3. HoldersInv' /\ ctx' \in [Workers -> Context]
  BY <1>1, <1>2, StaysInAttempt DEF Attempting
<1> QED
  BY <1>2, <1>3, RowsUnchanged DEF Raise, SlotsOK

\* So does one that is left.
LEMMA LeaveInv ==
  ASSUME RowsInv, SlotsOK, HoldersInv, RowsInv', Persist,
         NEW w \in Workers, NEW phase \in {"down", "idle"}, LeaveAttempt(w, phase),
         stopping' \in [Workers -> BOOLEAN], lookup' = lookup,
         faults' \in 0 .. MaxFaults
  PROVE  SlotsOK' /\ HoldersInv'
BY LeaveHolders DEF SlotsOK

-----------------------------------------------------------------------------
(***************************************************************************)
(* The inductive invariant.                                                *)
(***************************************************************************)

\* The invariant holds at the start.
LEMMA InitInv == Init => Inv
<1> SUFFICES ASSUME Init PROVE Inv
  OBVIOUS
<1>1. RowsOK
  BY DEF Init, RowsOK, Statuses
<1>2. SlotsOK
  BY FaultsAssumption DEF Init, SlotsOK, Context, NoAttempt
<1>3. RowInv /\ AttemptLedger /\ VerdictLedger
  BY DEF Init, RowInv, AttemptLedger, VerdictLedger, Attempts
<1>4. SlotInv /\ LockInv /\ OneHolderPerLease
  BY DEF Init, SlotInv, LockInv, OneHolderPerLease, NoAttempt, Attempting
<1> QED
  BY <1>1, <1>2, <1>3, <1>4 DEF Inv, TypeOK

\* The callers of the API keep it.
LEMMA CallerInv ==
  ASSUME Inv, NEW c \in Callers, Enqueue(c)
  PROVE  Inv'
<1> USE DEF Inv, TypeOK
<1>0. RowsInv /\ HoldersInv
  BY DEF RowsInv, HoldersInv
<1>1. CASE LookupDuplicate(c)
  <2>1. RowsInv' /\ Persist
    BY <1>0, <1>1, RowsUnchanged DEF LookupDuplicate
  <2>2. SlotsOK' /\ HoldersInv'
    BY <1>0, <1>1, <2>1, RowsOnly DEF LookupDuplicate, SlotsOK
  <2> QED
    BY <2>1, <2>2 DEF RowsInv, HoldersInv
<1>2. ASSUME NEW r \in Requests \cup {RetryRequest(k) : k \in {i \in Jobs : row[i] # None}},
             InsertRejected(c, r) \/ \E j \in Jobs : Insert(c, r, j)
      PROVE  Inv'
  <2>1. r \in Request
    BY <1>2, RequestsAssumption, RetryRequestType
  <2>2. CASE InsertRejected(c, r)
    <3>1. RowsInv' /\ Persist
      BY <1>0, <2>2, RowsUnchanged DEF InsertRejected
    <3>2. SlotsOK' /\ HoldersInv'
      BY <1>0, <2>1, <2>2, <3>1, RowsOnly DEF InsertRejected, SlotsOK
    <3> QED
      BY <3>1, <3>2 DEF RowsInv, HoldersInv
  <2>3. ASSUME NEW j \in Jobs, Insert(c, r, j)
        PROVE  Inv'
    <3>1. RowsInv' /\ Persist
      BY <1>0, <2>1, <2>3, InsertRows
    <3>2. SlotsOK' /\ HoldersInv'
      BY <1>0, <2>3, <3>1, RowsOnly DEF Insert, SlotsOK
    <3> QED
      BY <3>1, <3>2 DEF RowsInv, HoldersInv
  <2> QED
    BY <1>2, <2>2, <2>3
<1> QED
  BY <1>1, <1>2 DEF Enqueue

\* A cancellation, the clock and the reaper keep it.
LEMMA JobInv ==
  ASSUME Inv, NEW j \in Jobs,
         RequestCancel(j) \/ Expire(j) \/ BecomeDue(j) \/ Reap(j)
  PROVE  Inv'
<1> USE DEF Inv, TypeOK
<1>0. RowsInv /\ HoldersInv
  BY DEF RowsInv, HoldersInv
<1>1. RowsInv' /\ Persist
  BY <1>0, RequestCancelRows, ClockRows, ReapRows
<1>2. UNCHANGED <<ctx, stopping, scanLock, lookup, faults>>
  BY DEF RequestCancel, Expire, BecomeDue, Reap
<1>3. SlotsOK' /\ HoldersInv'
  BY <1>0, <1>1, <1>2, RowsOnly DEF SlotsOK
<1> QED
  BY <1>1, <1>3 DEF RowsInv, HoldersInv

\* A handler keeps it.
LEMMA HandlerInv ==
  ASSUME Inv, NEW w \in Workers, HandlerStep(w)
  PROVE  Inv'
<1> USE DEF Inv, TypeOK
<1>0. RowsInv /\ HoldersInv
  BY DEF RowsInv, HoldersInv
<1>1. CASE SkipDisabled(w)
  <2> DEFINE c == [ctx[w] EXCEPT !.phase = "skipping"]
  <2>1. /\ c \in Context /\ c.phase = "skipping" /\ c.job = ctx[w].job
        /\ c.token = ctx[w].token
    BY DEF SlotsOK, Context, Attempting
  <2>2. /\ ctx' = [ctx EXCEPT ![w] = c] /\ ctx[w].phase \in Attempting
        /\ UNCHANGED <<rowVars, scanLock, stopping, lookup, faults>>
    BY <1>1 DEF SkipDisabled, SlotsOK, Attempting
  <2> HIDE DEF c
  <2>3. HoldersInv' /\ ctx' \in [Workers -> Context]
    BY <1>0, <2>1, <2>2, StaysInAttempt DEF Attempting
  <2> QED
    BY <1>0, <2>2, <2>3, RowsUnchanged DEF SlotsOK, RowsInv, HoldersInv
<1>2. CASE \/ ObserveLost(w) \/ PublishFenced(w) \/ FinalizeFenced(w) \/ Abandon(w)
  <2>1. /\ UNCHANGED rowVars /\ LeaveAttempt(w, "idle")
        /\ UNCHANGED <<stopping, lookup, faults>>
    BY <1>2 DEF ObserveLost, PublishFenced, FinalizeFenced, Abandon
  <2>2. RowsInv' /\ Persist
    BY <1>0, <2>1, RowsUnchanged
  <2>3. SlotsOK' /\ HoldersInv'
    BY <1>0, <2>1, <2>2, LeaveInv DEF SlotsOK
  <2> QED
    BY <2>2, <2>3 DEF RowsInv, HoldersInv
<1>3. CASE \/ ObserveCancel(w) \/ ObserveShutdown(w) \/ PublishSeesCancel(w)
           \/ HandlerFails(w)
  <2>1. ctx[w].phase = "running" /\ \E verdict \in Verdicts : Raise(w, verdict)
    BY <1>3 DEF ObserveCancel, ObserveShutdown, PublishSeesCancel, HandlerFails,
                ChecksCancel, Verdicts
  <2>2. RowsInv' /\ SlotsOK' /\ HoldersInv'
    BY <1>0, <2>1, RaiseInv
  <2> QED
    BY <2>2 DEF RowsInv, HoldersInv
<1>4. CASE Publish(w) \/ Finalize(w)
  <2>1. RowsInv' /\ Persist
    BY <1>0, <1>4, PublishRows, FinalizeRows
  <2>2. LeaveAttempt(w, "idle") /\ UNCHANGED <<stopping, lookup, faults>>
    BY <1>4 DEF Publish, Finalize
  <2>3. SlotsOK' /\ HoldersInv'
    BY <1>0, <2>1, <2>2, LeaveInv DEF SlotsOK
  <2> QED
    BY <2>1, <2>3 DEF RowsInv, HoldersInv
<1> QED
  BY <1>1, <1>2, <1>3, <1>4 DEF HandlerStep

\* A heartbeat keeps it.
LEMMA HeartbeatInv ==
  ASSUME Inv, NEW w \in Workers, Heartbeat(w)
  PROVE  Inv'
<1> USE DEF Inv, TypeOK
<1>0. RowsInv /\ HoldersInv
  BY DEF RowsInv, HoldersInv
<1> DEFINE seen == IF Current(w)
                     THEN (IF cancelReq[ctx[w].job] THEN {"cancel"} ELSE {})
                          \cup (IF stopping[w] THEN {"stop"} ELSE {})
                     ELSE {"lost"}
           c == [ctx[w] EXCEPT !.saw = @ \cup seen]
<1>1. seen \in SUBSET {"lost", "cancel", "stop"}
  <2> HIDE DEF Inv, TypeOK
  <2> QED
    BY Zenon
<1>2. /\ ctx' = [ctx EXCEPT ![w].saw = @ \cup seen] /\ ctx[w].phase = "running"
      /\ UNCHANGED <<rowVars, scanLock, stopping, lookup, faults>>
  BY DEF Heartbeat
<1> HIDE DEF seen
<1>3. /\ c \in Context /\ c.phase = "running" /\ c.job = ctx[w].job
      /\ c.token = ctx[w].token
  BY <1>1, <1>2 DEF SlotsOK, Context
<1>4. ctx' = [ctx EXCEPT ![w] = c]
  BY <1>2 DEF SlotsOK
<1> HIDE DEF c
<1>5. HoldersInv' /\ ctx' \in [Workers -> Context]
  BY <1>0, <1>2, <1>3, <1>4, StaysInAttempt DEF Attempting
<1> QED
  BY <1>0, <1>2, <1>5, RowsUnchanged DEF SlotsOK, RowsInv, HoldersInv

\* A process keeps it, starting, stopping or dying.
LEMMA ProcessInv ==
  ASSUME Inv, NEW w \in Workers, Stop(w) \/ Exit(w) \/ Crash(w) \/ Start(w)
  PROVE  Inv'
<1> USE DEF Inv, TypeOK
<1>0. RowsInv /\ HoldersInv
  BY DEF RowsInv, HoldersInv
<1>1. RowsInv' /\ Persist
  BY <1>0, RowsUnchanged DEF Stop, Exit, Crash, Start
<1>2. CASE Stop(w)
  BY <1>0, <1>1, <1>2, RowsOnly, FaultsAssumption
  DEF Stop, SlotsOK, RowsInv, HoldersInv
<1>3. CASE Exit(w) \/ Crash(w)
  <2> HIDE DEF Inv, TypeOK
  <2>s. SlotsOK
    BY DEF Inv, TypeOK
  <2>a. /\ LeaveAttempt(w, "down") /\ lookup' = lookup
        /\ stopping' = [stopping EXCEPT ![w] = FALSE]
    BY <1>3, Zenon DEF Exit, Crash
  <2>b. faults' \in 0 .. MaxFaults
    <3>1. faults \in 0 .. MaxFaults
      BY <2>s DEF SlotsOK
    <3>2. faults' = faults \/ (faults < MaxFaults /\ faults' = faults + 1)
      BY <1>3, Zenon DEF Exit, Crash
    <3> QED
      BY <3>1, <3>2, FaultsAssumption
  <2>1. /\ LeaveAttempt(w, "down") /\ lookup' = lookup
        /\ stopping' \in [Workers -> BOOLEAN] /\ faults' \in 0 .. MaxFaults
    BY <2>s, <2>a, <2>b, Zenon DEF SlotsOK
  <2>2. SlotsOK' /\ HoldersInv'
    BY <1>0, <1>1, <2>s, <2>1, LeaveInv
  <2> QED
    BY <1>1, <2>2 DEF Inv, TypeOK, RowsInv, HoldersInv
<1>4. CASE Start(w)
  <2>1. /\ ctx' = [ctx EXCEPT ![w] = NoAttempt("idle")] /\ ctx[w].phase = "down"
        /\ UNCHANGED <<stopping, scanLock, lookup, faults>>
    BY <1>4 DEF Start
  <2>2. ctx' \in [Workers -> Context]
    BY <2>1 DEF SlotsOK, Context, NoAttempt
  <2>3. /\ ctx'[w].phase = "idle" /\ ctx'[w].job = None
        /\ \A v \in Workers : v # w => ctx'[v] = ctx[v]
    BY <2>1 DEF SlotsOK, NoAttempt
  <2>4. HoldersInv'
    <3>1. SlotInv'
      BY <1>4, <2>3 DEF Start, rowVars, SlotInv, Attempting
    <3>2. LockInv'
      BY <1>4, <2>1, <2>3 DEF Start, rowVars, LockInv, Attempting
    <3>3. OneHolderPerLease'
      BY <2>3 DEF OneHolderPerLease, Attempting
    <3> QED
      BY <3>1, <3>2, <3>3 DEF HoldersInv
  <2> QED
    BY <1>1, <2>1, <2>2, <2>4 DEF SlotsOK, RowsInv, HoldersInv
<1> QED
  BY <1>2, <1>3, <1>4

\* Every step keeps it.
LEMMA NextInv == Inv /\ [Next]_vars => Inv'
<1> SUFFICES ASSUME Inv, [Next]_vars PROVE Inv'
  OBVIOUS
<1>1. CASE UNCHANGED vars
  <2>1. RowsInv' /\ Persist
    BY <1>1, RowsUnchanged DEF vars, rowVars, Inv, TypeOK, RowsInv
  <2>2. SlotsOK' /\ HoldersInv'
    BY <1>1, <2>1, RowsOnly DEF vars, Inv, TypeOK, RowsInv, HoldersInv, SlotsOK
  <2> QED
    BY <2>1, <2>2 DEF Inv, TypeOK, RowsInv, HoldersInv
<1>2. ASSUME NEW c \in Callers, Enqueue(c) PROVE Inv'
  BY <1>2, CallerInv
<1>3. ASSUME NEW j \in Jobs, RequestCancel(j) \/ Expire(j) \/ BecomeDue(j) \/ Reap(j)
      PROVE  Inv'
  BY <1>3, JobInv
<1>4. ASSUME NEW w \in Workers, NEW j \in Jobs, Claim(w, j)
      PROVE  Inv'
  <2>1. RowsInv /\ SlotsOK /\ HoldersInv
    BY DEF Inv, TypeOK, RowsInv, HoldersInv
  <2>2. RowsInv' /\ Persist
    BY <1>4, <2>1, ClaimRows
  <2>3. SlotsOK' /\ HoldersInv'
    BY <1>4, <2>1, <2>2, ClaimHolders
  <2> QED
    BY <2>2, <2>3 DEF Inv, TypeOK, RowsInv, HoldersInv
<1>5. ASSUME NEW w \in Workers, Heartbeat(w) PROVE Inv'
  BY <1>5, HeartbeatInv
<1>6. ASSUME NEW w \in Workers, HandlerStep(w) PROVE Inv'
  BY <1>6, HandlerInv
<1>7. ASSUME NEW w \in Workers, Stop(w) \/ Exit(w) \/ Crash(w) \/ Start(w)
      PROVE  Inv'
  BY <1>7, ProcessInv
<1> QED
  BY <1>1, <1>2, <1>3, <1>4, <1>5, <1>6, <1>7 DEF Next

\* Everything below rests on this: Inv holds in every reachable state.
THEOREM InvHolds == Spec => []Inv
BY InitInv, NextInv, PTL DEF Spec

\* Type correctness of rows, slots and locks, for every instance.
THEOREM TypeCorrect == Spec => []TypeOK
<1>1. Inv => TypeOK
  BY DEF Inv
<1> QED
  BY <1>1, InvHolds, PTL

\* Attempts and rows agree and the budget is kept, for every instance.
THEOREM LedgerCorrect == Spec => []AttemptLedger
<1>1. Inv => AttemptLedger
  BY DEF Inv
<1> QED
  BY <1>1, InvHolds, PTL

\* How a job ended is accounted for by its attempts, for every instance.
THEOREM VerdictCorrect == Spec => []VerdictLedger
<1>1. Inv => VerdictLedger
  BY DEF Inv
<1> QED
  BY <1>1, InvHolds, PTL

\* No two slots act under one lease, for every number of slots and attempts.
THEOREM LeaseExclusion == Spec => []OneHolderPerLease
<1>1. Inv => OneHolderPerLease
  BY DEF Inv
<1> QED
  BY <1>1, InvHolds, PTL

\* Scans of one location never overlap, because each attempt holds the lock.
THEOREM ScansExclusive == Spec => []ScanExclusion
<1>1. Inv => ScanExclusion
  BY DEF Inv, LockInv, ScanExclusion
<1> QED
  BY <1>1, InvHolds, PTL

-----------------------------------------------------------------------------
(***************************************************************************)
(* What a step may never do, the lineage of retries, and the refinement.   *)
(***************************************************************************)


\* The columns the action properties speak of.
ledgerVars == <<status, attemptCount, cancelReq, attempt>>

\* Seven kinds of step touch those columns; every other step leaves them.
LEMMA StepKinds ==
  ASSUME [Next]_vars
  PROVE  \/ UNCHANGED ledgerVars
         \/ \E c \in Callers, j \in Jobs : \E r : Insert(c, r, j)
         \/ \E j \in Jobs : RequestCancel(j) \/ Reap(j)
         \/ \E w \in Workers, j \in Jobs : Claim(w, j)
         \/ \E w \in Workers : Publish(w) \/ Finalize(w)
<1>1. CASE UNCHANGED vars
  BY <1>1 DEF vars, ledgerVars
<1>2. CASE \E c \in Callers : Enqueue(c)
  BY <1>2 DEF Enqueue, LookupDuplicate, InsertRejected, rowVars, ledgerVars
<1>3. CASE \E j \in Jobs : RequestCancel(j) \/ Expire(j) \/ BecomeDue(j) \/ Reap(j)
  BY <1>3 DEF Expire, BecomeDue, ledgerVars
<1>4. CASE \E w \in Workers : Heartbeat(w) \/ Stop(w) \/ Exit(w) \/ Crash(w) \/ Start(w)
  BY <1>4 DEF Heartbeat, Stop, Exit, Crash, Start, rowVars, ledgerVars
<1>5. CASE \E w \in Workers : HandlerStep(w)
  BY <1>5 DEF HandlerStep, SkipDisabled, ObserveLost, ObserveCancel, ObserveShutdown,
              PublishSeesCancel, PublishFenced, HandlerFails, FinalizeFenced, Abandon,
              Raise, rowVars, ledgerVars
<1> QED
  BY <1>1, <1>2, <1>3, <1>4, <1>5 DEF Next

\* A step that ends an attempt: whose, with which outcome, on which authority.
Ends(j, st, o) ==
  /\ status[j] = "running" /\ st # "running"
  /\ lease[j] = attemptCount[j] /\ lease[j] \in Attempts
  /\ status' = [status EXCEPT ![j] = st]
  /\ attempt' = [attempt EXCEPT ![j][lease[j]] = o]
  /\ attemptCount' = attemptCount /\ cancelReq' = cancelReq

\* Reaping ends an attempt whose lease has expired.
LEMMA ReapEnds ==
  ASSUME Inv, NEW j \in Jobs, Reap(j)
  PROVE  expired[j] /\ \E st \in {"cancelled", "failed", "retry_wait"} :
                          Ends(j, st, "lease_expired")
<1> DEFINE st == IF cancelReq[j] THEN "cancelled"
                 ELSE IF Exhausted(j) THEN "failed" ELSE "retry_wait"
<1>1. status[j] = "running" /\ expired[j] /\ EndAttempt(j, st, "lease_expired", FALSE)
  BY DEF Reap, Reapable
<1>2. st \in {"cancelled", "failed", "retry_wait"}
  OBVIOUS
<1> HIDE DEF st
<1>3. Ends(j, st, "lease_expired")
  BY <1>1, <1>2, EndAttemptRows DEF Inv, TypeOK, Ends, Terminal, Outcomes
<1> QED
  BY <1>1, <1>2, <1>3

\* A slot that ends an attempt holds its unexpired lease and lets go of it;
\* only Publish makes a job succeed.
LEMMA SlotEnds ==
  ASSUME Inv, NEW w \in Workers, Publish(w) \/ Finalize(w)
  PROVE  /\ ctx[w].job \in Jobs /\ ctx[w].phase \in Attempting /\ Current(w)
         /\ ctx'[w].job = None
         /\ \E st \in Terminal \cup {"retry_wait"}, o \in Outcomes :
              /\ Ends(ctx[w].job, st, o) /\ o # "lease_expired"
              /\ st = "succeeded" => Publish(w)
<1> DEFINE j == ctx[w].job
<1>1. ctx[w].phase \in Attempting /\ Current(w) /\ LeaveAttempt(w, "idle")
  BY DEF Publish, Finalize, Attempting
<1>2. j \in Jobs
  BY <1>1 DEF Inv, SlotInv
<1>3. ctx'[w].job = None
  BY <1>1 DEF Inv, TypeOK, SlotsOK, LeaveAttempt, NoAttempt
<1>4. \E st \in Terminal \cup {"retry_wait"}, o \in Outcomes, d \in BOOLEAN :
        /\ EndAttempt(j, st, o, d) /\ o # "lease_expired"
        /\ st = "succeeded" => Publish(w)
  <2>1. CASE Publish(w)
    BY <2>1 DEF Publish, Terminal, Outcomes
  <2>2. CASE Finalize(w)
    <3>1. CASE ctx[w].verdict = "cancel"
      <4>1. EndAttempt(j, "cancelled", "cancelled", FALSE)
        BY <2>2, <3>1 DEF Finalize
      <4>2. "cancelled" \in Terminal \cup {"retry_wait"} /\ "cancelled" \in Outcomes
        BY DEF Terminal, Outcomes
      <4> QED
        BY <4>1, <4>2
    <3>2. CASE ctx[w].verdict = "release"
      <4>1. EndAttempt(j, "retry_wait", "shutdown_released", TRUE)
        BY <2>2, <3>2 DEF Finalize
      <4>2. "retry_wait" \in Terminal \cup {"retry_wait"} /\ "shutdown_released" \in Outcomes
        BY DEF Terminal, Outcomes
      <4> QED
        BY <4>1, <4>2
    <3>3. CASE ctx[w].verdict = "permanent"
      <4>1. EndAttempt(j, "failed", "permanent_error", FALSE)
        BY <2>2, <3>3 DEF Finalize
      <4>2. "failed" \in Terminal \cup {"retry_wait"} /\ "permanent_error" \in Outcomes
        BY DEF Terminal, Outcomes
      <4> QED
        BY <4>1, <4>2
    <3>4. CASE ctx[w].verdict = "transient"
      <4>1. EndAttempt(j, IF Exhausted(j) THEN "failed" ELSE "retry_wait",
                       "transient_error", FALSE)
        BY <2>2, <3>4 DEF Finalize
      <4>2. "transient_error" \in Outcomes /\ {"failed", "retry_wait"} \subseteq
              Terminal \cup {"retry_wait"}
        BY DEF Terminal, Outcomes
      <4>3. PICK st \in {"failed", "retry_wait"} : EndAttempt(j, st, "transient_error", FALSE)
        BY <4>1, Zenon
      <4> QED
        BY <4>2, <4>3
    <3>5. ctx[w].verdict \in Verdicts
      BY <2>2, <1>1 DEF Inv, SlotInv, Finalize
    <3> QED
      BY <3>1, <3>2, <3>3, <3>4, <3>5 DEF Verdicts
  <2> QED
    BY <2>1, <2>2
<1>5. PICK st \in Terminal \cup {"retry_wait"}, o \in Outcomes, d \in BOOLEAN :
        /\ EndAttempt(j, st, o, d) /\ o # "lease_expired"
        /\ st = "succeeded" => Publish(w)
  BY <1>4
<1>6. status[j] = "running"
  BY <1>1 DEF Current
<1>7. Ends(j, st, o)
  BY <1>2, <1>5, <1>6, EndAttemptRows DEF Inv, TypeOK, Ends, Terminal
<1> QED
  BY <1>1, <1>2, <1>3, <1>5, <1>7

-----------------------------------------------------------------------------
(***************************************************************************)
(* LeaseAuthority.                                                         *)
(***************************************************************************)

\* Every step respects the lease.
LEMMA LeaseAuthorityKept == Inv /\ [Next]_vars => LeaseAuthorityStep
<1> SUFFICES ASSUME Inv, [Next]_vars, NEW i \in Jobs,
                    status[i] = "running", status'[i] # "running"
             PROVE  IF expired[i]
                      THEN attempt'[i][lease[i]] = "lease_expired"
                      ELSE /\ attempt'[i][lease[i]] # "lease_expired"
                           /\ \E w \in Workers :
                                /\ ctx[w].job = i /\ ctx[w].token = lease[i]
                                /\ ctx'[w].job = None
  BY DEF LeaseAuthorityStep
<1>0. RowsOK
  BY DEF Inv, TypeOK
<1>1. CASE UNCHANGED ledgerVars
  BY <1>1 DEF ledgerVars
<1>2. CASE \E c \in Callers, j \in Jobs : \E r : Insert(c, r, j)
  BY <1>0, <1>2 DEF Insert, RowsOK
<1>3. CASE \E j \in Jobs : RequestCancel(j)
  BY <1>0, <1>3 DEF RequestCancel, CancelsAtOnce, Waiting, RowsOK
<1>4. CASE \E w \in Workers, j \in Jobs : Claim(w, j)
  BY <1>0, <1>4 DEF Claim, RowsOK
<1>5. CASE \E j \in Jobs : Reap(j)
  <2>1. PICK j \in Jobs, st \in {"cancelled", "failed", "retry_wait"} :
          expired[j] /\ Ends(j, st, "lease_expired")
    BY <1>5, ReapEnds
  <2>2. i = j
    BY <1>0, <2>1 DEF Ends, RowsOK
  <2>3. attempt'[i][lease[i]] = "lease_expired"
    BY <1>0, <2>1, <2>2 DEF Ends, RowsOK
  <2> QED
    BY <2>1, <2>2, <2>3
<1>6. CASE \E w \in Workers : Publish(w) \/ Finalize(w)
  <2>1. PICK w \in Workers : Publish(w) \/ Finalize(w)
    BY <1>6
  <2>2. /\ ctx[w].job \in Jobs /\ Current(w) /\ ctx'[w].job = None
        /\ \E st \in Terminal \cup {"retry_wait"}, o \in Outcomes :
             Ends(ctx[w].job, st, o) /\ o # "lease_expired"
    BY <2>1, SlotEnds
  <2>3. PICK st \in Terminal \cup {"retry_wait"}, o \in Outcomes :
          Ends(ctx[w].job, st, o) /\ o # "lease_expired"
    BY <2>2
  <2>4. i = ctx[w].job
    BY <1>0, <2>2, <2>3 DEF Ends, RowsOK
  <2>5. attempt'[i][lease[i]] = o
    BY <1>0, <2>3, <2>4 DEF Ends, RowsOK
  <2>6. ~ expired[i] /\ ctx[w].token = lease[i]
    BY <2>2, <2>4 DEF Current
  <2> QED
    BY <2>2, <2>3, <2>4, <2>5, <2>6
<1> QED
  BY <1>1, <1>2, <1>3, <1>4, <1>5, <1>6, StepKinds

\* A stale worker ends nobody's attempt and the reaper robs nobody, for every
\* number of jobs, slots, attempts and faults.
THEOREM LeaseAuthorityHolds == Spec => LeaseAuthority
BY LeaseAuthorityKept, InvHolds, PTL DEF Spec, LeaseAuthority

-----------------------------------------------------------------------------
(***************************************************************************)
(* HistoryKept.                                                            *)
(***************************************************************************)

\* HistoryKeptStep, for one job.
JobHistoryKept(i) ==
  /\ status[i] \in Terminal => status'[i] = status[i] /\ cancelReq'[i] = cancelReq[i]
  /\ attemptCount'[i] \in {attemptCount[i], attemptCount[i] + 1}
  /\ attemptCount'[i] # attemptCount[i] => attempt'[i][attemptCount'[i]] = "open"
  /\ \A n \in Attempts :
       attempt[i][n] \in Outcomes => attempt'[i][n] = attempt[i][n]
  /\ cancelReq[i] => cancelReq'[i]

\* Ending an attempt keeps the history.
LEMMA EndsKeepHistory ==
  ASSUME Inv, NEW i \in Jobs, NEW j \in Jobs, NEW st, NEW o, Ends(j, st, o)
  PROVE  JobHistoryKept(i)
<1>0. RowsOK /\ AttemptLedger
  BY DEF Inv, TypeOK
<1>1. attemptCount'[i] = attemptCount[i] /\ cancelReq'[i] = cancelReq[i]
  BY DEF Ends
<1>2. status[i] \in Terminal => status'[i] = status[i]
  BY <1>0 DEF Ends, RowsOK, Terminal
<1>3. ASSUME NEW n \in Attempts, attempt[i][n] \in Outcomes
      PROVE  attempt'[i][n] = attempt[i][n]
  <2>1. attempt[i][n] # "open"
    BY <1>3 DEF Outcomes
  <2>2. ~ (i = j /\ n = lease[j])
    BY <1>0, <2>1 DEF AttemptLedger
  <2> QED
    BY <1>0, <2>2 DEF Ends, RowsOK
<1> QED
  BY <1>1, <1>2, <1>3 DEF JobHistoryKept

\* So does a claim.
LEMMA ClaimKeepsHistory ==
  ASSUME Inv, NEW i \in Jobs, NEW j \in Jobs, NEW w \in Workers, Claim(w, j)
  PROVE  JobHistoryKept(i)
<1>0. RowsOK /\ AttemptLedger
  BY DEF Inv, TypeOK
<1>1. /\ status[j] \in Waiting /\ attemptCount[j] < MaxAttempts
      /\ status' = [status EXCEPT ![j] = "running"]
      /\ attemptCount' = [attemptCount EXCEPT ![j] = @ + 1]
      /\ attempt' = [attempt EXCEPT ![j][attemptCount[j] + 1] = "open"]
      /\ cancelReq' = cancelReq
  BY DEF Claim, Claimable, NewToken
<1>2. attemptCount[j] \in Nat /\ attemptCount[j] + 1 \in Attempts
  <2>1. attemptCount[j] \in 0 .. MaxAttempts
    BY <1>0 DEF RowsOK
  <2>2. attemptCount[j] < MaxAttempts
    BY <1>1
  <2> QED
    BY <2>1, <2>2, AttemptsAssumption DEF Attempts
<1>3. status[i] \in Terminal => status'[i] = status[i]
  BY <1>0, <1>1 DEF RowsOK, Terminal, Waiting
<1>4. attemptCount'[i] = IF i = j THEN attemptCount[i] + 1 ELSE attemptCount[i]
  BY <1>0, <1>1 DEF RowsOK
<1>5. attempt'[j][attemptCount[j] + 1] = "open"
  BY <1>0, <1>1, <1>2 DEF RowsOK
<1>6. ASSUME NEW n \in Attempts, attempt[i][n] \in Outcomes
      PROVE  attempt'[i][n] = attempt[i][n]
  <2>1. attempt[i][n] # "none"
    BY <1>6 DEF Outcomes
  <2>2. ~ (n > attemptCount[i])
    BY <1>0, <2>1 DEF AttemptLedger
  <2>3. ~ (i = j /\ n = attemptCount[j] + 1)
    BY <1>2, <2>2
  <2> QED
    BY <1>0, <1>1, <2>3 DEF RowsOK
<1>7. attemptCount'[i] # attemptCount[i] => attempt'[i][attemptCount'[i]] = "open"
  BY <1>4, <1>5
<1> QED
  BY <1>1, <1>3, <1>4, <1>6, <1>7 DEF JobHistoryKept

\* So does a cancellation.
LEMMA CancelKeepsHistory ==
  ASSUME Inv, NEW i \in Jobs, NEW j \in Jobs, RequestCancel(j)
  PROVE  JobHistoryKept(i)
<1>0. RowsOK
  BY DEF Inv, TypeOK
<1>1. /\ attemptCount' = attemptCount /\ attempt' = attempt
      /\ cancelReq' = [cancelReq EXCEPT ![j] = TRUE]
      /\ status' = status \/ status' = [status EXCEPT ![j] = "cancelled"]
      /\ status[j] \notin Terminal
  BY DEF RequestCancel, CancelsAtOnce, Waiting, Terminal
<1>2. status[i] \in Terminal => i # j
  BY <1>1
<1>3. i # j => cancelReq'[i] = cancelReq[i] /\ status'[i] = status[i]
  <2>1. cancelReq \in [Jobs -> BOOLEAN] /\ status \in [Jobs -> Statuses]
    BY <1>0 DEF RowsOK
  <2>2. i # j => cancelReq'[i] = cancelReq[i]
    BY <2>1, <1>1, Zenon
  <2>3. i # j => status'[i] = status[i]
    BY <2>1, <1>1
  <2> QED
    BY <2>2, <2>3
<1>4. cancelReq[i] => cancelReq'[i]
  <2>1. cancelReq \in [Jobs -> BOOLEAN]
    BY <1>0 DEF RowsOK
  <2>2. cancelReq'[i] = IF i = j THEN TRUE ELSE cancelReq[i]
    BY <2>1, <1>1, Zenon
  <2> QED
    BY <2>2
<1>5. attemptCount'[i] = attemptCount[i]
      /\ \A n \in Attempts : attempt'[i][n] = attempt[i][n]
  BY <1>1
<1> QED
  BY <1>2, <1>3, <1>4, <1>5 DEF JobHistoryKept

\* So does every step.
LEMMA HistoryKeptByNext == Inv /\ [Next]_vars => HistoryKeptStep
<1> SUFFICES ASSUME Inv, [Next]_vars, NEW i \in Jobs PROVE JobHistoryKept(i)
  BY DEF HistoryKeptStep, JobHistoryKept
<1>0. RowsOK
  BY DEF Inv, TypeOK
<1>1. CASE UNCHANGED ledgerVars
  BY <1>1 DEF ledgerVars, JobHistoryKept
<1>2. CASE \E c \in Callers, j \in Jobs : \E r : Insert(c, r, j)
  BY <1>0, <1>2 DEF Insert, RowsOK, JobHistoryKept, Terminal
<1>3. CASE \E j \in Jobs : RequestCancel(j)
  BY <1>3, CancelKeepsHistory
<1>4. CASE \E w \in Workers, j \in Jobs : Claim(w, j)
  BY <1>4, ClaimKeepsHistory
<1>5. CASE \E j \in Jobs : Reap(j)
  BY <1>5, ReapEnds, EndsKeepHistory
<1>6. CASE \E w \in Workers : Publish(w) \/ Finalize(w)
  BY <1>6, SlotEnds, EndsKeepHistory
<1> QED
  BY <1>1, <1>2, <1>3, <1>4, <1>5, <1>6, StepKinds

\* Terminal rows, closed attempts, counts and cancellations are never
\* rewritten, for every instance.
THEOREM HistoryIsKept == Spec => HistoryKept
BY HistoryKeptByNext, InvHolds, PTL DEF Spec, HistoryKept

-----------------------------------------------------------------------------
(***************************************************************************)
(* CancelWins.                                                             *)
(***************************************************************************)

\* Every step lets a cancellation win.
LEMMA CancelWinsKept == Inv /\ [Next]_vars => CancelWinsStep
<1> SUFFICES ASSUME Inv, [Next]_vars, NEW i \in Jobs, cancelReq[i],
                    row[i].type \in {"scan_location", "index_file"},
                    status[i] = "running", status'[i] = "succeeded"
             PROVE  \E w \in Workers : ctx[w].job = i /\ ctx[w].phase = "skipping"
  BY DEF CancelWinsStep
<1>0. RowsOK
  BY DEF Inv, TypeOK
<1>1. CASE UNCHANGED ledgerVars
  BY <1>1 DEF ledgerVars
<1>2. CASE \E c \in Callers, j \in Jobs : \E r : Insert(c, r, j)
  BY <1>0, <1>2 DEF Insert, RowsOK
<1>3. CASE \E j \in Jobs : RequestCancel(j)
  BY <1>0, <1>3 DEF RequestCancel, CancelsAtOnce, Waiting, RowsOK
<1>4. CASE \E w \in Workers, j \in Jobs : Claim(w, j)
  BY <1>0, <1>4 DEF Claim, RowsOK
<1>5. CASE \E j \in Jobs : Reap(j)
  BY <1>0, <1>5, ReapEnds DEF Ends, RowsOK
<1>6. CASE \E w \in Workers : Publish(w) \/ Finalize(w)
  <2>1. PICK w \in Workers : Publish(w) \/ Finalize(w)
    BY <1>6
  <2>2. PICK st \in Terminal \cup {"retry_wait"}, o \in Outcomes :
          Ends(ctx[w].job, st, o) /\ (st = "succeeded" => Publish(w))
    BY <2>1, SlotEnds
  <2>3. ctx[w].job \in Jobs
    BY <2>1, SlotEnds
  <2>4. i = ctx[w].job /\ st = "succeeded"
    BY <1>0, <2>2, <2>3 DEF Ends, RowsOK
  <2>5. Publish(w)
    BY <2>2, <2>4
  <2>6. ~ ChecksCancel(w)
    BY <2>4, <2>5 DEF Publish
  <2>7. ctx[w].phase # "running"
    BY <2>4, <2>6 DEF ChecksCancel, Cooperative
  <2> QED
    BY <2>4, <2>5, <2>7 DEF Publish
<1> QED
  BY <1>1, <1>2, <1>3, <1>4, <1>5, <1>6, StepKinds

\* A cancellation on record beats the publication of a scan or an index job,
\* for every instance.
THEOREM CancellationWins == Spec => CancelWins
BY CancelWinsKept, InvHolds, PTL DEF Spec, CancelWins

-----------------------------------------------------------------------------
(***************************************************************************)
(* RetryLineage.                                                           *)
(***************************************************************************)

\* Only an insert writes what a job is.
LEMMA RowKinds ==
  ASSUME [Next]_vars
  PROVE  row' = row \/ \E c \in Callers, j \in Jobs : \E r : Insert(c, r, j)
<1>1. CASE UNCHANGED vars
  BY <1>1 DEF vars
<1>2. CASE \E c \in Callers : Enqueue(c)
  BY <1>2 DEF Enqueue, LookupDuplicate, InsertRejected, rowVars
<1>3. CASE \E j \in Jobs : RequestCancel(j) \/ Expire(j) \/ BecomeDue(j) \/ Reap(j)
  BY <1>3 DEF RequestCancel, Expire, BecomeDue, Reap, EndAttempt
<1>4. CASE \E w \in Workers : \/ \E j \in Jobs : Claim(w, j)
                              \/ Heartbeat(w) \/ Stop(w) \/ Exit(w) \/ Crash(w) \/ Start(w)
  BY <1>4 DEF Claim, Heartbeat, Stop, Exit, Crash, Start, rowVars
<1>5. CASE \E w \in Workers : HandlerStep(w)
  <2>1. PICK w \in Workers : HandlerStep(w)
    BY <1>5
  <2>2. CASE Publish(w) \/ Finalize(w)
    BY <2>2 DEF Publish, Finalize, EndAttempt
  <2> QED
    BY <2>1, <2>2 DEF HandlerStep, SkipDisabled, ObserveLost, ObserveCancel, ObserveShutdown,
              PublishSeesCancel, PublishFenced, HandlerFails, FinalizeFenced, Abandon,
              Raise, rowVars
<1> QED
  BY <1>1, <1>2, <1>3, <1>4, <1>5 DEF Next

\* No step but an insert opens a job.
LEMMA OpenKinds ==
  ASSUME Inv, [Next]_vars, NEW i \in Jobs, Open(i)', ~ Open(i)
  PROVE  \E c \in Callers : \E r : Insert(c, r, i)
<1>0. RowsOK
  BY DEF Inv, TypeOK
<1>1. CASE UNCHANGED ledgerVars
  BY <1>1 DEF ledgerVars, Open
<1>2. CASE \E c \in Callers, j \in Jobs : \E r : Insert(c, r, j)
  BY <1>0, <1>2 DEF Insert, RowsOK, Open
<1>3. CASE \E j \in Jobs : RequestCancel(j)
  BY <1>0, <1>3 DEF RequestCancel, CancelsAtOnce, Waiting, OpenSt, RowsOK, Open
<1>4. CASE \E w \in Workers, j \in Jobs : Claim(w, j)
  BY <1>0, <1>4 DEF Claim, Claimable, OpenSt, RowsOK, Open
<1>5. CASE \E j \in Jobs : Reap(j)
  BY <1>0, <1>5, ReapEnds DEF Ends, RowsOK, Open, OpenSt
<1>6. CASE \E w \in Workers : Publish(w) \/ Finalize(w)
  <2>1. PICK j \in Jobs, st \in Terminal \cup {"retry_wait"}, o \in Outcomes : Ends(j, st, o)
    BY <1>6, SlotEnds
  <2> QED
    BY <1>0, <2>1 DEF Ends, RowsOK, Open, OpenSt
<1> QED
  BY <1>1, <1>2, <1>3, <1>4, <1>5, <1>6, StepKinds

\* An inserted retry copies a job that has ended, and has no open twin.
LEMMA InsertKeepsLineage ==
  ASSUME Inv, RetryLineage, NEW c \in Callers, NEW n \in Jobs, NEW r, Insert(c, r, n)
  PROVE  RetryLineage'
<1>1. /\ row \in [Jobs -> Request \cup {None}] /\ status \in [Jobs -> Statuses]
      /\ \A j \in Jobs : row[j] = None <=> status[j] = "absent"
  BY DEF Inv, TypeOK, RowsOK, RowInv
<1>2. /\ status[n] = "absent" /\ row[n] = None
      /\ row' = [row EXCEPT ![n] = r] /\ status' = [status EXCEPT ![n] = "queued"]
      /\ ~ UniqueViolation(r) /\ Enqueueable(r)
  BY <1>1 DEF Insert
<1>3. \A j \in Jobs \ {n} : row'[j] = row[j] /\ status'[j] = status[j]
  BY <1>1, <1>2
<1>4. row'[n] = r
  BY <1>1, <1>2
<1>5. ASSUME NEW k \in Jobs, r.retryOf = k
      PROVE  /\ status[k] \in {"failed", "cancelled"} /\ k # n
             /\ r.type = row[k].type /\ r.loc = row[k].loc
             /\ \A i \in Jobs : Open(i) => row[i].retryOf # k
  <2>1. k # None
    BY NoneAssumption
  <2>2. r \notin Requests
    BY <1>5, <2>1, RequestsAssumption
  <2>3. PICK m \in Jobs : status[m] \in {"failed", "cancelled"} /\ r = RetryRequest(m)
    BY <1>2, <2>2 DEF Enqueueable
  <2>4. row[m] \in Request
    BY <1>1, <2>3
  <2>5. r.retryOf = m /\ r.type = row[m].type /\ r.loc = row[m].loc
    BY <2>3, <2>4 DEF RetryRequest, Request
  <2>6. \A i \in Jobs : Open(i) => row[i].retryOf # k
    BY <1>2, <1>5, <2>1 DEF UniqueViolation
  <2> QED BY <1>2, <1>5, <2>3, <2>5, <2>6
<1>6. ASSUME NEW j \in Jobs, NEW k \in Jobs, row'[j] # None, row'[j].retryOf = k
      PROVE  /\ status'[k] \in {"failed", "cancelled"}
             /\ row'[j].type = row'[k].type /\ row'[j].loc = row'[k].loc
             /\ \A i \in Jobs \ {j} : Open(i)' /\ Open(j)' => row'[i].retryOf # k
  <2>1. CASE j = n
    <3>1. \A i \in Jobs \ {n} : Open(i)' => Open(i)
      BY <1>3 DEF Open
    <3> QED BY <1>3, <1>4, <1>5, <1>6, <2>1, <3>1
  <2>2. CASE j # n
    <3>1. row[j] # None /\ row[j].retryOf = k
      BY <1>3, <1>6, <2>2
    <3>2. /\ status[k] \in {"failed", "cancelled"}
          /\ row[j].type = row[k].type /\ row[j].loc = row[k].loc
          /\ \A i \in Jobs \ {j} : Open(i) /\ Open(j) => row[i].retryOf # k
      BY <3>1 DEF RetryLineage
    <3>3. k # n
      BY <1>2, <3>2
    <3>4. \A i \in Jobs \ {n} : Open(i)' <=> Open(i)
      BY <1>3 DEF Open
    <3>5. Open(j)' => row'[n].retryOf # k
      BY <1>4, <1>5, <2>2, <3>1, <3>4
    <3> QED BY <1>3, <2>2, <3>2, <3>3, <3>4, <3>5
  <2> QED BY <2>1, <2>2
<1> QED BY <1>6 DEF RetryLineage

\* So does every other step.
LEMMA LineageKept == Inv /\ RetryLineage /\ [Next]_vars => RetryLineage'
<1> SUFFICES ASSUME Inv, RetryLineage, [Next]_vars PROVE RetryLineage'
  OBVIOUS
<1>1. CASE \E c \in Callers, j \in Jobs : \E r : Insert(c, r, j)
  BY <1>1, InsertKeepsLineage
<1>2. CASE ~ \E c \in Callers, j \in Jobs : \E r : Insert(c, r, j)
  <2>1. row' = row
    BY <1>2, RowKinds
  <2>2. \A i \in Jobs : Open(i)' => Open(i)
    BY <1>2, OpenKinds
  <2>3. \A k \in Jobs : status[k] \in {"failed", "cancelled"} => status'[k] = status[k]
    BY HistoryKeptByNext DEF HistoryKeptStep, Terminal
  <2>4. ASSUME NEW j \in Jobs, NEW k \in Jobs, row'[j] # None, row'[j].retryOf = k
        PROVE  /\ status'[k] \in {"failed", "cancelled"}
               /\ row'[j].type = row'[k].type /\ row'[j].loc = row'[k].loc
               /\ \A i \in Jobs \ {j} : Open(i)' /\ Open(j)' => row'[i].retryOf # k
    <3>1. /\ status[k] \in {"failed", "cancelled"}
          /\ row[j].type = row[k].type /\ row[j].loc = row[k].loc
          /\ \A i \in Jobs \ {j} : Open(i) /\ Open(j) => row[i].retryOf # k
      BY <2>1, <2>4 DEF RetryLineage
    <3> QED BY <2>1, <2>2, <2>3, <3>1
  <2> QED BY <2>4 DEF RetryLineage
<1> QED BY <1>1, <1>2

\* Retries copy jobs that stay ended, one open retry each, for every instance and
\* however many callers race.
THEOREM LineageHolds == Spec => []RetryLineage
<1>1. Init => RetryLineage
  BY DEF Init, RetryLineage
<1> QED
  BY <1>1, LineageKept, InvHolds, PTL DEF Spec

-----------------------------------------------------------------------------
(***************************************************************************)
(* JobQueue implements LeasedWork.                                         *)
(***************************************************************************)

Held   == [j \in Jobs |-> Holder(j)]
Result == [j \in Jobs |-> IF Open(j) THEN "undecided" ELSE status[j]]

\* Holder names the slot that holds a job, which is the only one that does.
HolderFacts ==
  \A j \in Jobs :
    /\ \A w \in Workers : Holds(w, j) => Held[j] = w
    /\ (\A w \in Workers : ~ Holds(w, j)) => Held[j] = None
    /\ status[j] # "running" \/ expired[j] => Held[j] = None

\* One lease has one holder, so the choice of a holder is no choice.
LEMMA HolderUnique == Inv => HolderFacts
<1> SUFFICES ASSUME Inv, NEW j \in Jobs
             PROVE  /\ \A w \in Workers : Holds(w, j) => Held[j] = w
                    /\ (\A w \in Workers : ~ Holds(w, j)) => Held[j] = None
                    /\ status[j] # "running" \/ expired[j] => Held[j] = None
  BY Zenon DEF HolderFacts
<1>0. Held[j] = Holder(j)
  BY DEF Held
<1>1. \A v, w \in Workers : Holds(v, j) /\ Holds(w, j) => v = w
  BY DEF Inv, OneHolderPerLease, Holds, Current
<1>2. (\E w \in Workers : Holds(w, j)) => Holder(j) \in Workers /\ Holds(Holder(j), j)
  BY DEF Holder
<1>3. (\A w \in Workers : ~ Holds(w, j)) => Holder(j) = None
  BY DEF Holder
<1>4. status[j] # "running" \/ expired[j] => \A w \in Workers : ~ Holds(w, j)
  BY DEF Holds, Current
<1> QED BY <1>0, <1>1, <1>2, <1>3, <1>4

\* It does so after a step as before it.
LEMMA HolderUniqueNext == Inv' => HolderFacts'
BY HolderUnique, PTL

\* Where the holders stay the holders, the abstract holder stays.
LEMMA SameHolder ==
  ASSUME HolderFacts, HolderFacts', NEW j \in Jobs,
         \A w \in Workers : Holds(w, j)' <=> Holds(w, j)
  PROVE  Held'[j] = Held[j]
<1>1. CASE \E w \in Workers : Holds(w, j)
  BY <1>1 DEF HolderFacts
<1>2. CASE ~ \E w \in Workers : Holds(w, j)
  BY <1>2 DEF HolderFacts
<1> QED BY <1>1, <1>2

\* A step that moves no holder, no count and no result stutters.
LEMMA Stutters ==
  ASSUME HolderFacts, HolderFacts', attemptCount' = attemptCount, Result' = Result,
         \A w \in Workers, j \in Jobs : Holds(w, j)' <=> Holds(w, j)
  PROVE  UNCHANGED Work!work
<1>1. \A j \in Jobs : Held'[j] = Held[j]
  BY SameHolder
<1>2. Held' = Held
  BY <1>1 DEF Held
<1> QED BY <1>2 DEF Held, Result, Work!work

\* A step in which one slot lets go of whatever it holds is Lose, or stutters.
LEMMA LetsGo ==
  ASSUME HolderFacts, HolderFacts', attemptCount' = attemptCount, Result' = Result,
         NEW w \in Workers, \A j \in Jobs : ~ Holds(w, j)',
         \A v \in Workers \ {w}, j \in Jobs : Holds(v, j)' <=> Holds(v, j)
  PROVE  [Work!Next]_(Work!work)
<1>1. CASE \A j \in Jobs : ~ Holds(w, j)
  <2>1. \A v \in Workers, j \in Jobs : Holds(v, j)' <=> Holds(v, j)
    BY <1>1
  <2> QED BY <2>1, Stutters
<1>2. CASE \E j \in Jobs : Holds(w, j)
  <2>1. \E j \in Jobs : Held[j] = w
    BY <1>2 DEF HolderFacts
  <2>2. ASSUME NEW j \in Jobs PROVE Held'[j] = IF Held[j] = w THEN None ELSE Held[j]
    <3>1. CASE Holds(w, j)
      <4>1. \A v \in Workers \ {w} : ~ Holds(v, j)
        BY <3>1 DEF HolderFacts
      <4> QED BY <3>1, <4>1 DEF HolderFacts
    <3>2. CASE ~ Holds(w, j)
      <4>1. Held'[j] = Held[j]
        BY <3>2, SameHolder
      <4>2. Held[j] # w
        BY <3>2, NoneAssumption DEF HolderFacts
      <4> QED BY <4>1, <4>2
    <3> QED BY <3>1, <3>2
  <2>3. Held' = [j \in Jobs |-> IF Held[j] = w THEN None ELSE Held[j]]
    BY <2>2 DEF Held
  <2>4. Work!Lose(w)
    BY <2>1, <2>3 DEF Held, Result, Work!Lose
  <2> QED BY <2>4 DEF Work!Next
<1> QED BY <1>1, <1>2

\* A step that writes no lease and keeps every slot in its attempt stutters.
LEMMA QuietStep ==
  ASSUME Inv, Inv', UNCHANGED <<status, lease, expired, attemptCount>>,
         \A w \in Workers : /\ ctx'[w].phase \in Attempting <=> ctx[w].phase \in Attempting
                            /\ ctx'[w].job = ctx[w].job /\ ctx'[w].token = ctx[w].token
  PROVE  UNCHANGED Work!work
<1>1. \A w \in Workers, j \in Jobs : Holds(w, j)' <=> Holds(w, j)
  BY DEF Holds, Current
<1>2. Result' = Result
  BY DEF Result, Open
<1> QED BY <1>1, <1>2, HolderUnique, HolderUniqueNext, Stutters

\* What a slot that leaves its attempt holds afterwards, and the others.
LEMMA AfterLeaving ==
  ASSUME Inv, NEW w \in Workers, NEW phase \in {"down", "idle"}, LeaveAttempt(w, phase)
  PROVE  /\ \A j \in Jobs : ~ Holds(w, j)'
         /\ \A v \in Workers \ {w} : ctx'[v] = ctx[v]
BY DEF LeaveAttempt, NoAttempt, Holds, Attempting, Inv, TypeOK, SlotsOK

\* A step in which a slot leaves and no row changes is Lose, or stutters.
LEMMA LeaveStep ==
  ASSUME Inv, Inv', UNCHANGED <<status, lease, expired, attemptCount>>,
         NEW w \in Workers, NEW phase \in {"down", "idle"}, LeaveAttempt(w, phase)
  PROVE  [Work!Next]_(Work!work)
<1>1. \A v \in Workers \ {w}, j \in Jobs : Holds(v, j)' <=> Holds(v, j)
  BY AfterLeaving DEF Holds, Current
<1>2. Result' = Result
  BY DEF Result, Open
<1> QED BY <1>1, <1>2, AfterLeaving, HolderUnique, HolderUniqueNext, LetsGo

\* Only row j changes.
OnlyRow(j) ==
  \A i \in Jobs \ {j} :
    status'[i] = status[i] /\ lease'[i] = lease[i] /\ expired'[i] = expired[i]

\* No slot moves and only row j changes, which no one held or holds: the holders stay.
LEMMA NoHolderMoves ==
  ASSUME Inv, Inv', NEW j \in Jobs, OnlyRow(j), ctx' = ctx,
         status[j] # "running" \/ expired[j], status'[j] # "running" \/ expired'[j]
  PROVE  Held' = Held
<1>0. HolderFacts /\ HolderFacts'
  BY HolderUnique, HolderUniqueNext
<1>1. ASSUME NEW i \in Jobs PROVE Held'[i] = Held[i]
  <2>1. CASE i = j
    BY <1>0, <2>1 DEF HolderFacts
  <2>2. CASE i # j
    <3>1. \A w \in Workers : Holds(w, i)' <=> Holds(w, i)
      BY <2>2 DEF OnlyRow, Holds, Current
    <3> QED BY <1>0, <3>1, SameHolder
  <2> QED BY <2>1, <2>2
<1> QED BY <1>1 DEF Held

\* An insert posts a job.
LEMMA InsertPosts ==
  ASSUME Inv, Inv', NEW c \in Callers, NEW r, NEW j \in Jobs, Insert(c, r, j)
  PROVE  Work!Post(j)
<1>0. status \in [Jobs -> Statuses]
  BY DEF Inv, TypeOK, RowsOK
<1>1. /\ status[j] = "absent" /\ status' = [status EXCEPT ![j] = "queued"]
      /\ UNCHANGED <<attemptCount, lease, expired, ctx>>
  BY DEF Insert
<1>2. Held' = Held
  BY <1>0, <1>1, NoHolderMoves DEF OnlyRow
<1>3. Result[j] = "absent" /\ Result' = [Result EXCEPT ![j] = "undecided"]
  BY <1>0, <1>1 DEF Result, Open, OpenSt, Waiting
<1> QED BY <1>1, <1>2, <1>3 DEF Work!Post, Held, Result

\* A job that ends without a holder is closed; one put back to wait stutters.
LEMMA ClosesRow ==
  ASSUME Inv, Inv', NEW j \in Jobs, NEW st \in {"cancelled", "failed", "retry_wait"},
         Open(j), status[j] # "running" \/ expired[j],
         status' = [status EXCEPT ![j] = st], OnlyRow(j),
         ctx' = ctx, attemptCount' = attemptCount,
         st = "failed" => attemptCount[j] = MaxAttempts
  PROVE  [Work!Next]_(Work!work)
<1>0. status \in [Jobs -> Statuses] /\ status'[j] = st
  BY DEF Inv, TypeOK, RowsOK
<1>1. Held' = Held /\ Held[j] = None
  BY <1>0, NoHolderMoves, HolderUnique DEF HolderFacts
<1>2. CASE st = "retry_wait"
  <2>1. Result' = Result
    BY <1>0, <1>2 DEF Result, Open, OpenSt, Waiting
  <2> QED BY <1>1, <2>1 DEF Work!work, Held, Result
<1>3. CASE st # "retry_wait"
  <2>1. Result[j] = "undecided" /\ Result' = [Result EXCEPT ![j] = st]
    BY <1>0, <1>3 DEF Result, Open, OpenSt, Waiting
  <2>2. Work!Close(j, st)
    BY <1>1, <1>3, <2>1 DEF Work!Close, Held, Result
  <2> QED BY <1>3, <2>2 DEF Work!Next
<1> QED BY <1>2, <1>3

\* A cancellation closes a job that waits, and is only noted on one that runs.
LEMMA CancelCloses ==
  ASSUME Inv, Inv', NEW j \in Jobs, RequestCancel(j)
  PROVE  [Work!Next]_(Work!work)
<1>0. status \in [Jobs -> Statuses] /\ UNCHANGED <<attemptCount, lease, expired, ctx>>
  BY DEF Inv, TypeOK, RowsOK, RequestCancel
<1>1. CASE status[j] \in Waiting /\ status' = [status EXCEPT ![j] = "cancelled"]
  BY <1>0, <1>1, ClosesRow DEF OnlyRow, Open, OpenSt, Waiting
<1>2. CASE status' = status
  BY <1>0, <1>2, QuietStep
<1> QED BY <1>1, <1>2 DEF RequestCancel, CancelsAtOnce

\* So does the reaper a job it does not put back.
LEMMA ReapCloses ==
  ASSUME Inv, Inv', NEW j \in Jobs, Reap(j)
  PROVE  [Work!Next]_(Work!work)
<1> DEFINE st == IF cancelReq[j] THEN "cancelled"
                 ELSE IF Exhausted(j) THEN "failed" ELSE "retry_wait"
<1>1. /\ status[j] = "running" /\ expired[j] /\ EndAttempt(j, st, "lease_expired", FALSE)
      /\ ctx' = ctx
  BY DEF Reap, Reapable
<1>2. st \in {"cancelled", "failed", "retry_wait"} /\ (st = "failed" => Exhausted(j))
  OBVIOUS
<1> HIDE DEF st
<1>3. /\ status' = [status EXCEPT ![j] = st] /\ lease' = [lease EXCEPT ![j] = 0]
      /\ expired' = [expired EXCEPT ![j] = FALSE] /\ attemptCount' = attemptCount
  BY <1>1 DEF EndAttempt
<1>4. OnlyRow(j)
  BY <1>3 DEF OnlyRow, Inv, TypeOK, RowsOK
<1>5. st = "failed" => attemptCount[j] = MaxAttempts
  <2>1. attemptCount[j] \in 0 .. MaxAttempts
    BY DEF Inv, TypeOK, RowsOK
  <2> QED BY <1>2, <2>1, AttemptsAssumption DEF Exhausted
<1> QED BY <1>1, <1>2, <1>3, <1>4, <1>5, ClosesRow DEF Open, OpenSt

\* The lease that runs out is lost by its holder, if it still has one.
LEMMA ExpireLoses ==
  ASSUME Inv, Inv', NEW j \in Jobs, Expire(j)
  PROVE  [Work!Next]_(Work!work)
<1>0. /\ expired \in [Jobs -> BOOLEAN] /\ expired' = [expired EXCEPT ![j] = TRUE]
      /\ UNCHANGED <<status, lease, attemptCount, ctx>>
  BY DEF Inv, TypeOK, RowsOK, Expire
<1>1. Result' = Result
  BY <1>0 DEF Result, Open
<1>2. \A i \in Jobs \ {j} : expired'[i] = expired[i]
  BY <1>0
<1>3. \A w \in Workers, i \in Jobs \ {j} : Holds(w, i)' <=> Holds(w, i)
  BY <1>0, <1>2 DEF Holds, Current
<1>4. \A w \in Workers : ~ Holds(w, j)'
  BY <1>0 DEF Holds, Current
<1>5. CASE \A w \in Workers : ~ Holds(w, j)
  <2>1. \A w \in Workers, i \in Jobs : Holds(w, i)' <=> Holds(w, i)
    BY <1>3, <1>4, <1>5
  <2> QED BY <1>0, <1>1, <2>1, HolderUnique, HolderUniqueNext, Stutters
<1>6. ASSUME NEW w \in Workers, Holds(w, j) PROVE [Work!Next]_(Work!work)
  <2>1. \A i \in Jobs : ~ Holds(w, i)'
    BY <1>0, <1>4, <1>6 DEF Holds
  <2>2. \A v \in Workers \ {w} : ~ Holds(v, j)
    BY <1>6, HolderUnique DEF HolderFacts
  <2>3. \A v \in Workers \ {w}, i \in Jobs : Holds(v, i)' <=> Holds(v, i)
    BY <1>3, <1>4, <2>2
  <2> QED BY <1>0, <1>1, <2>1, <2>3, HolderUnique, HolderUniqueNext, LetsGo
<1> QED BY <1>5, <1>6

\* A claim grants the job to the slot.
LEMMA ClaimGrants ==
  ASSUME Inv, Inv', NEW w \in Workers, NEW j \in Jobs, Claim(w, j)
  PROVE  Work!Grant(j, w)
<1> DEFINE n == attemptCount[j] + 1
<1>0. /\ status \in [Jobs -> Statuses] /\ attemptCount \in [Jobs -> 0 .. MaxAttempts]
      /\ lease \in [Jobs -> 0 .. MaxAttempts] /\ expired \in [Jobs -> BOOLEAN]
      /\ ctx \in [Workers -> Context] /\ HolderFacts /\ HolderFacts'
  BY HolderUnique, HolderUniqueNext DEF Inv, TypeOK, RowsOK, SlotsOK
<1>1. /\ ctx[w].phase = "idle" /\ status[j] \in Waiting /\ attemptCount[j] < MaxAttempts
      /\ status' = [status EXCEPT ![j] = "running"]
      /\ attemptCount' = [attemptCount EXCEPT ![j] = @ + 1]
      /\ lease' = [lease EXCEPT ![j] = n] /\ expired' = [expired EXCEPT ![j] = FALSE]
  BY DEF Claim, Claimable, NewToken
<1>2. /\ ctx'[w].phase = "running" /\ ctx'[w].job = j /\ ctx'[w].token = n
      /\ \A v \in Workers \ {w} : ctx'[v] = ctx[v]
  BY <1>0 DEF Claim, NewToken
<1>3. Result[j] = "undecided" /\ Held[j] = None /\ Result' = Result
  BY <1>0, <1>1 DEF HolderFacts, Result, Open, OpenSt, Waiting
<1>4. \A i \in Jobs : ~ Holds(w, i)
  BY <1>1 DEF Holds, Attempting
<1>5. \A k \in Jobs : Held[k] # w
  BY <1>0, <1>4, NoneAssumption DEF HolderFacts
<1>6. Holds(w, j)'
  <2>1. status'[j] = "running" /\ lease'[j] = n /\ ~ expired'[j]
    BY <1>0, <1>1
  <2> QED BY <1>2, <2>1 DEF Holds, Current, Attempting
<1>7. Held'[j] = w
  BY <1>0, <1>6 DEF HolderFacts
<1>8. ASSUME NEW i \in Jobs \ {j} PROVE Held'[i] = Held[i]
  <2>1. status'[i] = status[i] /\ lease'[i] = lease[i] /\ expired'[i] = expired[i]
    BY <1>0, <1>1
  <2>2. ~ Holds(w, i)'
    BY <1>2 DEF Holds
  <2>3. \A v \in Workers : Holds(v, i)' <=> Holds(v, i)
    BY <1>2, <1>4, <2>1, <2>2 DEF Holds, Current
  <2> QED BY <1>0, <2>3, SameHolder
<1>9. Held' = [Held EXCEPT ![j] = w]
  BY <1>7, <1>8 DEF Held
<1> QED BY <1>1, <1>3, <1>5, <1>9 DEF Work!Grant, Held, Result

\* The slot that ends its attempt decides the job, or loses it.
LEMMA SlotDecides ==
  ASSUME Inv, Inv', NEW w \in Workers, Publish(w) \/ Finalize(w),
         NEW j \in Jobs, ctx[w].job = j
  PROVE  [Work!Next]_(Work!work)
<1>0. /\ status \in [Jobs -> Statuses] /\ lease \in [Jobs -> 0 .. MaxAttempts]
      /\ expired \in [Jobs -> BOOLEAN] /\ HolderFacts /\ HolderFacts'
  BY HolderUnique, HolderUniqueNext DEF Inv, TypeOK, RowsOK
<1>1. PICK st \in Terminal \cup {"retry_wait"}, o \in Outcomes : Ends(j, st, o)
  BY SlotEnds
<1>2. Holds(w, j)
  BY SlotEnds DEF Holds
<1>3. /\ lease' = [lease EXCEPT ![j] = 0] /\ expired' = [expired EXCEPT ![j] = FALSE]
      /\ LeaveAttempt(w, "idle")
  BY DEF Publish, Finalize, EndAttempt
<1>4. /\ status'[j] = st /\ st # "running" /\ attemptCount' = attemptCount
      /\ status[j] = "running" /\ OnlyRow(j)
  BY <1>0, <1>1, <1>2, <1>3 DEF Ends, OnlyRow
<1>5. /\ \A i \in Jobs : ~ Holds(w, i)'
      /\ \A v \in Workers \ {w} : ctx'[v] = ctx[v]
  BY <1>3, AfterLeaving
<1>6. \A v \in Workers \ {w} : ~ Holds(v, j) /\ ~ Holds(v, j)'
  <2>1. \A v \in Workers \ {w} : ~ Holds(v, j)
    BY <1>0, <1>2 DEF HolderFacts
  <2>2. \A v \in Workers : ~ Holds(v, j)'
    BY <1>4 DEF Holds, Current
  <2> QED BY <2>1, <2>2
<1>7. \A v \in Workers \ {w}, i \in Jobs : Holds(v, i)' <=> Holds(v, i)
  BY <1>4, <1>5, <1>6 DEF OnlyRow, Holds, Current
<1>8. CASE st = "retry_wait"
  <2>1. Result' = Result
    BY <1>0, <1>1, <1>2, <1>4, <1>8 DEF Ends, Result, Open, OpenSt, Waiting
  <2> QED BY <1>0, <1>4, <1>5, <1>7, <2>1, LetsGo
<1>9. CASE st # "retry_wait"
  <2>1. Result' = [Result EXCEPT ![j] = st]
    BY <1>0, <1>1, <1>2, <1>9 DEF Ends, Result, Open, OpenSt, Waiting, Terminal
  <2>2. Held[j] # None /\ Held'[j] = None
    BY <1>0, <1>2, <1>4, NoneAssumption DEF HolderFacts
  <2>3. ASSUME NEW i \in Jobs \ {j} PROVE Held'[i] = Held[i]
    <3>1. ~ Holds(w, i)
      BY <1>2 DEF Holds
    <3> QED BY <1>0, <1>5, <1>7, <3>1, SameHolder
  <2>4. Held' = [Held EXCEPT ![j] = None]
    BY <1>2, <2>2, <2>3 DEF Held
  <2>5. Work!Decide(j, st)
    BY <1>4, <2>1, <2>2, <2>4, <1>2 DEF Work!Decide, Held, Result
  <2> QED BY <1>1, <1>2, <1>9, <2>5 DEF Work!Next, Terminal
<1> QED BY <1>8, <1>9

\* Every step of the queue is a step of the promise, or none.
LEMMA StepImplements == Inv /\ Inv' /\ [Next]_vars => [Work!Next]_(Work!work)
<1> SUFFICES ASSUME Inv, Inv', [Next]_vars PROVE [Work!Next]_(Work!work)
  OBVIOUS
<1>1. CASE UNCHANGED vars
  BY <1>1, QuietStep DEF vars
<1>2. ASSUME NEW c \in Callers, Enqueue(c) PROVE [Work!Next]_(Work!work)
  <2>1. CASE UNCHANGED <<status, lease, expired, attemptCount, ctx>>
    BY <2>1, QuietStep
  <2>2. ASSUME NEW r, NEW j \in Jobs, Insert(c, r, j) PROVE [Work!Next]_(Work!work)
    <3>1. Work!Post(j)
      BY <2>2, InsertPosts
    <3> QED BY <3>1 DEF Work!Next
  <2>3. \/ UNCHANGED <<status, lease, expired, attemptCount, ctx>>
        \/ \E r : \E j \in Jobs : Insert(c, r, j)
    BY <1>2 DEF Enqueue, LookupDuplicate, InsertRejected, rowVars
  <2> QED BY <2>1, <2>2, <2>3
<1>3. ASSUME NEW j \in Jobs, RequestCancel(j) \/ Expire(j) \/ BecomeDue(j) \/ Reap(j)
      PROVE  [Work!Next]_(Work!work)
  <2>1. CASE BecomeDue(j)
    BY <2>1, QuietStep DEF BecomeDue
  <2> QED BY <1>3, <2>1, CancelCloses, ExpireLoses, ReapCloses
<1>4. ASSUME NEW w \in Workers, NEW j \in Jobs, Claim(w, j) PROVE [Work!Next]_(Work!work)
  BY <1>4, ClaimGrants DEF Work!Next
<1>5. ASSUME NEW w \in Workers, Publish(w) \/ Finalize(w) PROVE [Work!Next]_(Work!work)
  BY <1>5, SlotEnds, SlotDecides
<1>6. ASSUME NEW w \in Workers, NEW phase \in {"down", "idle"}, LeaveAttempt(w, phase),
             UNCHANGED rowVars
      PROVE  [Work!Next]_(Work!work)
  BY <1>6, LeaveStep DEF rowVars
<1>7. ASSUME NEW w \in Workers, UNCHANGED rowVars,
             NEW c, c.phase \in Attempting <=> ctx[w].phase \in Attempting,
             c.job = ctx[w].job, c.token = ctx[w].token, ctx' = [ctx EXCEPT ![w] = c]
      PROVE  [Work!Next]_(Work!work)
  <2>1. ctx'[w] = c /\ \A v \in Workers \ {w} : ctx'[v] = ctx[v]
    BY <1>7 DEF Inv, TypeOK, SlotsOK
  <2> QED BY <1>7, <2>1, QuietStep DEF rowVars
<1>8. ASSUME NEW w \in Workers, HandlerStep(w) PROVE [Work!Next]_(Work!work)
  <2>0. ctx[w] \in Context /\ ctx \in [Workers -> Context]
    BY DEF Inv, TypeOK, SlotsOK
  <2>1. CASE SkipDisabled(w)
    <3> DEFINE c == [ctx[w] EXCEPT !.phase = "skipping"]
    <3>1. /\ ctx' = [ctx EXCEPT ![w] = c] /\ ctx[w].phase = "running" /\ UNCHANGED rowVars
      BY <2>0, <2>1 DEF SkipDisabled
    <3>2. c.phase = "skipping" /\ c.job = ctx[w].job /\ c.token = ctx[w].token
      BY <2>0 DEF Context
    <3> HIDE DEF c
    <3> QED BY <1>7, <3>1, <3>2 DEF Attempting
  <2>2. CASE ObserveCancel(w) \/ ObserveShutdown(w) \/ PublishSeesCancel(w) \/ HandlerFails(w)
    <3>1. PICK verdict : ctx[w].phase = "running" /\ Raise(w, verdict)
      BY <2>2 DEF ObserveCancel, ObserveShutdown, PublishSeesCancel, HandlerFails, ChecksCancel
    <3> DEFINE c == [ctx[w] EXCEPT !.phase = "finalizing", !.saw = {}, !.verdict = verdict]
    <3>2. ctx' = [ctx EXCEPT ![w] = c] /\ UNCHANGED rowVars
      BY <2>0, <3>1 DEF Raise
    <3>3. c.phase = "finalizing" /\ c.job = ctx[w].job /\ c.token = ctx[w].token
      BY <2>0 DEF Context
    <3> HIDE DEF c
    <3> QED BY <1>7, <3>1, <3>2, <3>3 DEF Attempting
  <2>3. CASE ObserveLost(w) \/ PublishFenced(w) \/ FinalizeFenced(w) \/ Abandon(w)
    BY <1>6, <2>3 DEF ObserveLost, PublishFenced, FinalizeFenced, Abandon
  <2> QED BY <1>5, <1>8, <2>1, <2>2, <2>3 DEF HandlerStep
<1>9. ASSUME NEW w \in Workers, Heartbeat(w) PROVE [Work!Next]_(Work!work)
  <2>0. ctx[w] \in Context /\ ctx \in [Workers -> Context]
    BY DEF Inv, TypeOK, SlotsOK
  <2>1. PICK seen : ctx' = [ctx EXCEPT ![w].saw = ctx[w].saw \cup seen] /\ UNCHANGED rowVars
    BY <1>9 DEF Heartbeat
  <2> DEFINE c == [ctx[w] EXCEPT !.saw = ctx[w].saw \cup seen]
  <2>2. ctx' = [ctx EXCEPT ![w] = c]
    BY <2>0, <2>1
  <2>3. c.phase = ctx[w].phase /\ c.job = ctx[w].job /\ c.token = ctx[w].token
    BY <2>0 DEF Context
  <2> HIDE DEF c
  <2> QED BY <1>7, <2>1, <2>2, <2>3
<1>10. ASSUME NEW w \in Workers, Stop(w) \/ Exit(w) \/ Crash(w) \/ Start(w)
       PROVE  [Work!Next]_(Work!work)
  <2>1. CASE Stop(w)
    BY <2>1, QuietStep DEF Stop, rowVars
  <2>2. CASE Exit(w) \/ Crash(w)
    BY <1>6, <2>2 DEF Exit, Crash
  <2>3. CASE Start(w)
    <3>1. ctx[w].phase = "down" /\ ctx' = [ctx EXCEPT ![w] = NoAttempt("idle")] /\ UNCHANGED rowVars
      BY <2>3 DEF Start
    <3>2. \A v \in Workers \ {w} : ctx'[v] = ctx[v]
      BY <3>1 DEF Inv, TypeOK, SlotsOK
    <3>3. ctx'[w].phase = "idle"
      BY <3>1 DEF Inv, TypeOK, SlotsOK, NoAttempt
    <3>4. \A v \in Workers, j \in Jobs : Holds(v, j)' <=> Holds(v, j)
      BY <3>1, <3>2, <3>3 DEF Holds, Current, Attempting, rowVars
    <3>5. Result' = Result /\ attemptCount' = attemptCount
      BY <3>1 DEF Result, Open, rowVars
    <3> QED BY <3>4, <3>5, HolderUnique, HolderUniqueNext, Stutters
  <2> QED BY <1>10, <2>1, <2>2, <2>3
<1> QED BY <1>1, <1>2, <1>3, <1>4, <1>8, <1>9, <1>10 DEF Next

\* So are the initial states.
LEMMA InitImplements == Init => Work!Init
<1> SUFFICES ASSUME Init PROVE Work!Init
  OBVIOUS
<1>0. HolderFacts
  BY InitInv, HolderUnique
<1>1. ASSUME NEW j \in Jobs PROVE status[j] # "running"
  BY DEF Init
<1>2. \A j \in Jobs : Held[j] = None
  BY <1>0, <1>1, Zenon DEF HolderFacts
<1>3. Held = [j \in Jobs |-> None]
  BY <1>2 DEF Held
<1>4. Result = [j \in Jobs |-> "absent"]
  BY DEF Init, Result, Open, OpenSt, Waiting
<1> QED BY <1>3, <1>4 DEF Work!Init, Init, Held, Result

\* Tokens, clocks, heartbeats, the reaper and crashes together keep what LeasedWork
\* promises, for every instance.
THEOREM QueueImplementsLeasedWork == Spec => ImplementsLeasedWork
<1>1. Inv /\ Inv' /\ [Next]_vars => [Work!Next]_(Work!work)
  BY StepImplements
<1> QED BY <1>1, InitImplements, InvHolds, PTL DEF Spec, ImplementsLeasedWork, Work!Spec
=============================================================================
