---------------------------- MODULE IndexProofs ----------------------------
(***************************************************************************)
(* Proofs about Index: types, and that versions are of observed bytes.     *)
(***************************************************************************)
EXTENDS Index, TLAPS

\* The row always has a hash that a scan wrote, and so has every attempt that
\* has loaded it: what the attempt hashes is compared with what it loaded.
ObservedInv ==
  /\ entry.sha \in observed
  /\ \A s \in Slots : job[s].phase \in Running => job[s].sha \in observed

\* A scan that is to commit has loaded the row.
ScanInv == scan.phase = "loaded" => scan.row \in Entry

Inv == TypeOK /\ ObservedInv /\ ScanInv /\ VersionWasObserved

\* What the state of an entry becomes is a state.
LEMMA StatesAfter ==
  ASSUME NEW row, row.state \in States, NEW sha PROVE StateAfter(row, sha) \in States
BY DEF StateAfter, States

\* The constants of jobs and scans have their types.
LEMMA JobTypes ==
  /\ NoJob \in Job /\ Queued \in Job
  /\ NoJob.phase \notin Running /\ Queued.phase \notin Running
  /\ NoScan \in Scanning
BY DEF NoJob, Queued, Job, Running, NoScan, Scanning

\* What a step does to the attempts, from which the job part of Inv follows.
LEMMA SlotsKept ==
  ASSUME job \in [Slots -> Job], NEW s \in Slots, NEW j \in Job,
         job' = [job EXCEPT ![s] = j],
         ObservedInv, j.phase \in Running => j.sha \in observed,
         observed \subseteq observed'
  PROVE  /\ job' \in [Slots -> Job]
         /\ \A t \in Slots : job'[t].phase \in Running => job'[t].sha \in observed'
BY DEF ObservedInv

\* The invariant holds at the start.
LEMMA InitInv == ASSUME Init PROVE Inv
<1> USE IndexAssumption, JobTypes
<1>1. job \in [Slots -> Job] /\ \A s \in Slots : job[s].phase \notin Running
  BY DEF Init
<1>2. entry \in Entry /\ scan \in Scanning
  BY DEF Init, Entry, States, Scanning
<1>3. supported \in BOOLEAN /\ retryable \in BOOLEAN
  BY Zenon DEF Init
<1>4. edits \in 0 .. MaxEdits /\ requests \in 0 .. MaxRequests /\ aborts \in 0 .. MaxAborts
  BY DEF Init, IndexAssumption
<1>5. file \in Shas \cup {None} /\ observed \subseteq Shas
  BY DEF Init
<1>6. TypeOK
  BY <1>1, <1>2, <1>3, <1>4, <1>5, Zenon DEF TypeOK
<1>7. ObservedInv /\ ScanInv /\ VersionWasObserved
  BY <1>1 DEF Init, ObservedInv, ScanInv, NoScan, VersionWasObserved
<1> QED BY <1>6, <1>7 DEF Inv

-----------------------------------------------------------------------------
(***************************************************************************)
(* Steps.  The parts of the state that carry no argument first.            *)
(***************************************************************************)

\* Every step keeps the types of the two flags.
LEMMA StepsFlags ==
  ASSUME TypeOK, [Next]_vars
  PROVE  supported' \in BOOLEAN /\ retryable' \in BOOLEAN
<1>1. supported \in BOOLEAN /\ retryable \in BOOLEAN
  BY Zenon DEF TypeOK
<1>2. supported' = supported
  BY Zenon DEF Next, vars, Edit, Scan, ScanSees, ScanLoads, ScanCommits, ScanAborts, Request,
               Handle, LoadEntry, Hash, Extract, Publish, FailPermanent, Transient, Abort
<1>3. retryable' = retryable \/ retryable' = TRUE
  BY Zenon DEF Next, vars, Edit, Scan, ScanSees, ScanLoads, ScanCommits, ScanAborts, Request,
               Handle, LoadEntry, Hash, Extract, Publish, FailPermanent, Transient, Abort,
               RetryOrEnd, End
<1> QED BY <1>1, <1>2, <1>3, Zenon

\* Every step keeps the bounds on the counts, and the type of the file.
LEMMA StepsCounts ==
  ASSUME TypeOK, [Next]_vars
  PROVE  /\ edits' \in 0 .. MaxEdits /\ requests' \in 0 .. MaxRequests
         /\ aborts' \in 0 .. MaxAborts
         /\ file' \in Shas \cup {None}
<1>1. /\ edits \in 0 .. MaxEdits /\ requests \in 0 .. MaxRequests /\ aborts \in 0 .. MaxAborts
      /\ file \in Shas \cup {None}
  BY Zenon DEF TypeOK
<1>2. \/ edits' = edits /\ file' = file
      \/ edits < MaxEdits /\ edits' = edits + 1 /\ file' \in (Shas \cup {None}) \ {file}
  BY Zenon DEF Next, vars, Edit, Scan, ScanSees, ScanLoads, ScanCommits, ScanAborts, Request,
               Handle, LoadEntry, Hash, Extract, Publish, FailPermanent, Transient, Abort
<1>3. requests' = requests \/ (requests < MaxRequests /\ requests' = requests + 1)
  BY DEF Next, vars, Edit, Scan, ScanSees, ScanLoads, ScanCommits, ScanAborts, Request,
               Handle, LoadEntry, Hash, Extract, Publish, FailPermanent, Transient, Abort
<1>4. aborts' = aborts \/ (aborts < MaxAborts /\ aborts' = aborts + 1)
  BY DEF Next, vars, Edit, Scan, ScanSees, ScanLoads, ScanCommits, ScanAborts, Request,
               Handle, LoadEntry, Hash, Extract, Publish, FailPermanent, Transient, Abort
<1> HIDE DEF TypeOK, Next
<1> QED BY <1>1, <1>2, <1>3, <1>4, IndexAssumption, SMT DEF IndexAssumption

\* Row and history.
RowInv == /\ entry \in Entry /\ observed \subseteq Shas
          /\ entry.sha \in observed /\ VersionWasObserved

\* Every step keeps the part about the catalog's row.
LEMMA StepsRow ==
  ASSUME Inv, [Next]_vars
  PROVE  RowInv' /\ observed \subseteq observed'
<1>1. RowInv
  BY DEF Inv, RowInv, TypeOK, ObservedInv
<1>2. CASE ScanCommits
  <2>1. scan.sha \in Shas \cup {None} /\ scan.row \in Entry
    BY <1>2 DEF Inv, TypeOK, ScanInv, Scanning, ScanCommits
  <2>2. Planned \in States
    BY <2>1, StatesAfter DEF Planned, States, Entry
  <2>3. PICK sha \in Shas, st \in States :
           /\ ScanWrites = [entry EXCEPT !.sha = sha, !.state = st]
           /\ sha = entry.sha \/ (sha = scan.sha /\ scan.sha # None)
    BY <1>1, <2>1, <2>2, IndexAssumption DEF ScanWrites, RowInv, Entry, IndexAssumption
  <2>4. entry' = [entry EXCEPT !.sha = sha, !.state = st]
        /\ observed' = observed \cup ({scan.sha} \ {None})
    BY <1>2, <2>3 DEF ScanCommits
  <2>5. entry' \in Entry /\ entry'.sha = sha /\ entry'.version = entry.version
    BY <1>1, <2>4 DEF RowInv, Entry
  <2> QED BY <1>1, <2>1, <2>3, <2>4, <2>5, IndexAssumption
      DEF RowInv, VersionWasObserved, IndexAssumption
<1>3. CASE \E s \in Slots : Publish(s)
  <2>1. PICK s \in Slots : Publish(s)
    BY <1>3
  <2>2. job[s] \in Job /\ job[s].phase \in Running /\ job[s].sha \in observed
    BY <2>1, Zenon DEF Publish, Running, Inv, TypeOK, ObservedInv
  <2>3. Outcome(s) \in Processed
    BY DEF Outcome, Processed
  <2> DEFINE v == [sha |-> job[s].sha, status |-> Outcome(s),
                   content |-> IF Outcome(s) = "indexed" THEN job[s].content ELSE None]
             st == IF Outcome(s) = job[s].state THEN entry.state ELSE Outcome(s)
  <2>4. v \in Version /\ v.sha = job[s].sha /\ st \in States
    <3>1. entry.state \in States /\ job[s].content \in Shas \cup {None} /\ job[s].sha \in Shas
      BY <1>1, <2>2, Zenon DEF RowInv, Entry, Job
    <3> QED BY <2>3, <3>1 DEF Version, States
  <2>5. entry' = [entry EXCEPT !.version = v, !.state = st] /\ observed' = observed
    BY <2>1 DEF Publish, Published
  <2> HIDE DEF v, st
  <2>6. entry' \in Entry /\ entry'.sha = entry.sha /\ entry'.version = v
    BY <1>1, <2>4, <2>5 DEF RowInv, Entry
  <2> QED BY <1>1, <2>2, <2>4, <2>5, <2>6 DEF RowInv, VersionWasObserved
<1>4. CASE UNCHANGED <<entry, observed>>
  BY <1>1, <1>4 DEF RowInv, VersionWasObserved
<1>5. \/ ScanCommits \/ \E s \in Slots : Publish(s)
      \/ UNCHANGED <<entry, observed>>
  BY Zenon DEF Next, vars, Edit, Scan, ScanSees, ScanLoads, ScanAborts, Request,
               Handle, LoadEntry, Hash, Extract, FailPermanent, Transient, Abort
<1> QED BY <1>2, <1>3, <1>4, <1>5

\* Every step keeps the part about the scan.
LEMMA StepsScan ==
  ASSUME Inv, [Next]_vars
  PROVE  scan' \in Scanning /\ ScanInv'
<1>1. scan \in Scanning /\ ScanInv /\ entry \in Entry /\ file \in Shas \cup {None}
  BY Zenon DEF Inv, TypeOK
<1>2. \/ scan' = scan
      \/ scan' = NoScan
      \/ scan' = [NoScan EXCEPT !.phase = "seen", !.sha = file]
      \/ scan' = [scan EXCEPT !.phase = "loaded", !.row = entry]
  BY Zenon DEF Next, vars, Edit, Scan, ScanSees, ScanLoads, ScanCommits, ScanAborts, Request,
               Handle, LoadEntry, Hash, Extract, Publish, FailPermanent, Transient, Abort
<1> HIDE DEF Next
<1>3. NoScan.phase = "idle" /\ [NoScan EXCEPT !.phase = "seen", !.sha = file].phase = "seen"
  BY DEF NoScan
<1>4. [NoScan EXCEPT !.phase = "seen", !.sha = file] \in Scanning
  BY <1>1 DEF NoScan, Scanning
<1>5. ASSUME scan' = [scan EXCEPT !.phase = "loaded", !.row = entry]
      PROVE  scan' \in Scanning /\ scan'.row = entry
  BY <1>1, <1>5 DEF Scanning
<1>6. CASE scan' = scan
  BY <1>1, <1>6 DEF ScanInv
<1>7. CASE scan' = NoScan
  BY <1>3, <1>7, JobTypes DEF ScanInv
<1>8. CASE scan' = [NoScan EXCEPT !.phase = "seen", !.sha = file]
  BY <1>3, <1>4, <1>8 DEF ScanInv
<1>9. CASE scan' = [scan EXCEPT !.phase = "loaded", !.row = entry]
  BY <1>1, <1>5, <1>9 DEF ScanInv
<1> QED BY <1>2, <1>6, <1>7, <1>8, <1>9

\* What a slot may hold, with the part of Inv that speaks of it.
Holds(j) == j \in Job /\ (j.phase \in Running => j.sha \in observed)

\* Every step leaves a slot alone, empties or queues it, or moves its attempt
\* on with the hash that the attempt loaded.
LEMMA StepsSlot ==
  ASSUME Inv, [Next]_vars
  PROVE  \/ job' = job
         \/ \E s \in Slots, j \in Job :
              job' = [job EXCEPT ![s] = j] /\ Holds(j)
<1>1. /\ job \in [Slots -> Job] /\ entry \in Entry /\ entry.sha \in observed
      /\ \A s \in Slots : job[s].phase \in Running => job[s].sha \in observed
  BY Zenon DEF Inv, TypeOK, ObservedInv
<1>2. Holds(NoJob) /\ Holds(Queued)
  BY JobTypes DEF Holds
<1>3. CASE UNCHANGED job
  BY <1>3
<1>4. CASE \E s \in Slots : job' = [job EXCEPT ![s] = Queued]
  BY <1>2, <1>4, JobTypes
<1>5. CASE \E s \in Slots : job' = [job EXCEPT ![s] = NoJob]
  BY <1>2, <1>5, JobTypes
<1>6. ASSUME NEW s \in Slots, LoadEntry(s)
      PROVE  \E j \in Job : job' = [job EXCEPT ![s] = j] /\ Holds(j)
  <2> DEFINE j == [phase |-> "loaded", sha |-> entry.sha, state |-> entry.state,
                   content |-> None]
  <2>1. j \in Job /\ Holds(j)
    BY <1>1 DEF Holds, Job, Running, Entry
  <2> QED BY <1>6, <2>1 DEF LoadEntry
<1>7. ASSUME NEW s \in Slots, Hash(s)
      PROVE  \E j \in Job : job' = [job EXCEPT ![s] = j] /\ Holds(j)
  <2> DEFINE j == [job[s] EXCEPT !.phase = "hashed", !.sha = file]
  <2>1. job[s] \in Job /\ job[s].sha \in observed /\ file = job[s].sha
    BY <1>1, <1>7 DEF Hash, FingerprintMatches, Running
  <2>2. j \in Job /\ Holds(j)
    BY <2>1 DEF Holds, Job, Running
  <2>3. job' = [job EXCEPT ![s] = j]
    BY <1>1, <1>7, <2>1 DEF Hash
  <2> QED BY <2>2, <2>3
<1>8. ASSUME NEW s \in Slots, Extract(s)
      PROVE  \E j \in Job : job' = [job EXCEPT ![s] = j] /\ Holds(j)
  <2> DEFINE j == [job[s] EXCEPT !.phase = "extracted", !.content = file]
  <2>1. job[s] \in Job /\ job[s].sha \in observed /\ file \in Shas \cup {None}
    BY <1>1, <1>8, Zenon DEF Extract, Running, Inv, TypeOK
  <2>2. j \in Job /\ Holds(j)
    BY <2>1 DEF Holds, Job, Running
  <2>3. job' = [job EXCEPT ![s] = j]
    BY <1>1, <1>8, <2>1 DEF Extract
  <2> QED BY <2>2, <2>3
<1>9. ASSUME NEW s \in Slots, Publish(s)
      PROVE  \E j \in Job : job' = [job EXCEPT ![s] = j] /\ Holds(j)
  <2>1. job[s] \in Job /\ job[s].sha \in observed
    BY <1>1, <1>9, Zenon DEF Publish, Running
  <2>2. Holds([job[s] EXCEPT !.phase = "failing"])
    BY <2>1 DEF Holds, Job, Running
  <2>3. \/ job' = [job EXCEPT ![s] = [job[s] EXCEPT !.phase = "failing"]]
        \/ job' = [job EXCEPT ![s] = NoJob]
    BY <1>1, <1>9 DEF Publish
  <2> QED BY <1>2, <2>2, <2>3 DEF Holds
<1>10. \/ UNCHANGED job
       \/ \E s \in Slots : job' = [job EXCEPT ![s] = Queued]
       \/ \E s \in Slots : job' = [job EXCEPT ![s] = NoJob]
       \/ \E s \in Slots : LoadEntry(s) \/ Hash(s) \/ Extract(s) \/ Publish(s)
  <2>1. CASE UNCHANGED job \/ \E s \in Slots : LoadEntry(s) \/ Hash(s) \/ Extract(s) \/ Publish(s)
    BY <2>1
  <2>2. CASE ScanCommits \/ Request
    BY <2>2 DEF ScanCommits, Request, Coalesce, Slots
  <2>3. CASE \E s \in Slots : FailPermanent(s) \/ Transient(s) \/ Abort(s)
    BY <2>3, Zenon DEF FailPermanent, Transient, Abort, RetryOrEnd, End
  <2>4. \/ UNCHANGED job \/ ScanCommits \/ Request
        \/ \E s \in Slots : LoadEntry(s) \/ Hash(s) \/ Extract(s) \/ Publish(s)
        \/ \E s \in Slots : FailPermanent(s) \/ Transient(s) \/ Abort(s)
    BY Zenon DEF Next, vars, Edit, Scan, ScanSees, ScanLoads, ScanAborts, Handle
  <2> QED BY <2>1, <2>2, <2>3, <2>4
<1> HIDE DEF Next
<1> QED BY <1>3, <1>4, <1>5, <1>6, <1>7, <1>8, <1>9, <1>10, Zenon

\* Every step keeps the invariant.
LEMMA NextInv == ASSUME Inv, [Next]_vars PROVE Inv'
<1>1. RowInv' /\ observed \subseteq observed'
  BY StepsRow
<1>2. scan' \in Scanning /\ ScanInv'
  BY StepsScan
<1>3. /\ supported' \in BOOLEAN /\ retryable' \in BOOLEAN
      /\ edits' \in 0 .. MaxEdits /\ requests' \in 0 .. MaxRequests
      /\ aborts' \in 0 .. MaxAborts
      /\ file' \in Shas \cup {None}
  BY StepsFlags, StepsCounts DEF Inv
<1>4. /\ job' \in [Slots -> Job]
      /\ \A s \in Slots : job'[s].phase \in Running => job'[s].sha \in observed'
  <2>1. job \in [Slots -> Job] /\ ObservedInv
    BY DEF Inv, TypeOK
  <2>2. CASE job' = job
    BY <1>1, <2>1, <2>2 DEF ObservedInv
  <2>3. CASE \E s \in Slots, j \in Job : job' = [job EXCEPT ![s] = j] /\ Holds(j)
    BY <1>1, <2>1, <2>3, SlotsKept DEF Holds
  <2> QED BY <2>2, <2>3, StepsSlot
<1>5. TypeOK'
  BY <1>1, <1>2, <1>3, <1>4, Zenon DEF TypeOK, RowInv
<1>6. ObservedInv' /\ VersionWasObserved'
  BY <1>1, <1>4, Zenon DEF ObservedInv, RowInv
<1> QED BY <1>2, <1>5, <1>6 DEF Inv

\* The inductive invariant holds in every reachable state.
THEOREM InvHolds == Spec => []Inv
<1>1. Init => Inv
  BY InitInv
<1>2. Inv /\ [Next]_vars => Inv'
  BY NextInv
<1> QED BY <1>1, <1>2, PTL DEF Spec

\* Rows, versions, attempts and scans always have their types: no version is
\* half written and the hash of a row is never lost.
THEOREM TypeCorrect == Spec => []TypeOK
<1>1. Inv => TypeOK
  BY DEF Inv
<1> QED BY <1>1, InvHolds, PTL

\* Whatever jobs, scans, retries and rewrites do, a file version is recorded
\* for a hash that a scan has written to the entry's row.
THEOREM VersionsObserved == Spec => []VersionWasObserved
<1>1. Inv => VersionWasObserved
  BY DEF Inv
<1> QED BY <1>1, InvHolds, PTL
=============================================================================
