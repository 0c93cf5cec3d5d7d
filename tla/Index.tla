------------------------------- MODULE Index -------------------------------
(***************************************************************************)
(* Indexing one catalog entry (jobs/handlers/index_file.py) while its file *)
(* is rewritten and scans fold new observations into its row.              *)
(*                                                                         *)
(* The handler loads the row once, without a lock, hashes the file, reads  *)
(* it again to extract, and at the end writes the version it made and the  *)
(* entry's state.  The open index_file jobs of an entry are one under the  *)
(* dedupe key index:<entry> and one manual retry, which has no key         *)
(* (JobQueue).  Publication is fenced by the lease there; an attempt that  *)
(* lost it is an aborted one here.  Moving the file acts on a job as the   *)
(* file vanishing; content objects and vectors are in VectorStore.         *)
(***************************************************************************)
EXTENDS Reconcile, Naturals

CONSTANTS
  Unreadable,  \* the hashes of files whose extraction fails
  MaxEdits,    \* bound on rewrites of the file
  MaxRequests, \* bound on reindex requests and manual retries
  MaxAborts,   \* bound on attempts that crash, lose the lease or are cancelled
  None

ASSUME IndexAssumption ==
  /\ Unreadable \subseteq Shas /\ None \notin Shas
  /\ MaxEdits \in Nat /\ MaxRequests \in Nat /\ MaxAborts \in Nat

VARIABLES
  file,      \* hash of the file at the entry's path, or None
  supported, \* whether an extractor exists for its extension
  entry,     \* the catalog row: sha, state, current file version
  observed,  \* history: every hash a scan has written to the row
  scan,      \* the scan in progress
  job,       \* the open index_file jobs
  retryable, \* whether an index_file job of the entry has failed or been cancelled
  edits, requests, aborts

vars == <<file, supported, entry, observed, scan, job, retryable, edits, requests, aborts>>

Slots == {"deduped", "retry"}
Version == [sha : Shas, content : Shas \cup {None}, status : Processed]
Entry == [sha : Shas, state : States, version : Version \cup {None}]

\* A job with no attempt running has read nothing.
Running == {"loaded", "hashed", "extracted", "failing"}
Job == [phase : {"none", "queued"} \cup Running, sha : Shas \cup {None},
        state : States \cup {None}, content : Shas \cup {None}]
NoJob == [phase |-> "none", sha |-> None, state |-> None, content |-> None]
Queued == [NoJob EXCEPT !.phase = "queued"]

Scanning == [phase : {"idle", "seen", "loaded"}, sha : Shas \cup {None},
             row : Entry \cup {None}]
NoScan == [phase |-> "idle", sha |-> None, row |-> None]

TypeOK ==
  /\ file \in Shas \cup {None} /\ supported \in BOOLEAN
  /\ entry \in Entry /\ observed \subseteq Shas
  /\ scan \in Scanning
  /\ job \in [Slots -> Job] /\ retryable \in BOOLEAN
  /\ edits \in 0 .. MaxEdits /\ requests \in 0 .. MaxRequests /\ aborts \in 0 .. MaxAborts

\* The first scan has added the entry and enqueued its job.
Init ==
  /\ file \in Shas /\ supported \in BOOLEAN
  /\ entry = [sha |-> file, state |-> "discovered", version |-> None]
  /\ observed = {file}
  /\ scan = NoScan
  /\ job = [s \in Slots |-> IF s = "deduped" THEN Queued ELSE NoJob]
  /\ retryable = FALSE
  /\ edits = 0 /\ requests = 0 /\ aborts = 0

Edit ==
  /\ edits < MaxEdits
  /\ edits' = edits + 1
  /\ file' \in (Shas \cup {None}) \ {file}
  /\ UNCHANGED <<supported, entry, observed, scan, job, retryable, requests, aborts>>

-----------------------------------------------------------------------------
(***************************************************************************)
(* Scans of the location, reduced to this entry (see Scan).                *)
(***************************************************************************)

ScanSees ==
  /\ scan.phase = "idle"
  /\ scan' = [NoScan EXCEPT !.phase = "seen", !.sha = file]
  /\ UNCHANGED <<file, supported, entry, observed, job, retryable, edits, requests, aborts>>

ScanLoads ==
  /\ scan.phase = "seen"
  /\ scan' = [scan EXCEPT !.phase = "loaded", !.row = entry]
  /\ UNCHANGED <<file, supported, entry, observed, job, retryable, edits, requests, aborts>>

\* The state the row is to have after the scan.
Planned ==
  IF scan.sha = None THEN "missing" ELSE StateAfter(scan.row, scan.sha)

\* The flush writes what differs from the row as loaded.
ScanWrites ==
  [entry EXCEPT
     !.sha = IF scan.sha = None THEN entry.sha ELSE scan.sha,
     !.state = IF Planned = scan.row.state THEN entry.state ELSE Planned]

\* Mutant: a job is enqueued only when the scan itself changed the entry.
EnqueueChanged(new) == new.state = "discovered" /\ Planned # scan.row.state

\* _enqueue_indexing.
EnqueueIndexing(new) == new.state = "discovered"

\* enqueue under the dedupe key: an open job stays as it is.
Coalesce(jobs) ==
  IF jobs["deduped"].phase = "none" THEN [jobs EXCEPT !["deduped"] = Queued] ELSE jobs

ScanCommits ==
  /\ scan.phase = "loaded"
  /\ entry' = ScanWrites
  /\ observed' = observed \cup ({scan.sha} \ {None})
  /\ job' = IF EnqueueIndexing(ScanWrites) THEN Coalesce(job) ELSE job
  /\ scan' = NoScan
  /\ UNCHANGED <<file, supported, retryable, edits, requests, aborts>>

ScanAborts ==
  /\ scan.phase # "idle"
  /\ aborts < MaxAborts /\ aborts' = aborts + 1
  /\ scan' = NoScan
  /\ UNCHANGED <<file, supported, entry, observed, job, retryable, edits, requests>>

-----------------------------------------------------------------------------
(***************************************************************************)
(* Requests: a reindex goes to the dedupe key, a manual retry does not.    *)
(***************************************************************************)

Request ==
  /\ requests < MaxRequests /\ requests' = requests + 1
  /\ \/ entry.state \in Processed /\ job' = Coalesce(job)
     \/ /\ retryable /\ job["retry"].phase = "none"
        /\ job' = [job EXCEPT !["retry"] = Queued]
  /\ UNCHANGED <<file, supported, entry, observed, scan, retryable, edits, aborts>>

-----------------------------------------------------------------------------
(***************************************************************************)
(* The index_file handler.                                                 *)
(***************************************************************************)

LoadEntry(s) ==
  /\ job[s].phase = "queued"
  /\ job' = [job EXCEPT ![s] =
               [phase |-> "loaded", sha |-> entry.sha, state |-> entry.state, content |-> None]]
  /\ UNCHANGED <<file, supported, entry, observed, scan, retryable, edits, requests, aborts>>

\* Mutant: whatever the file holds is indexed.
FingerprintAny(s) == file # None

\* The file still has the bytes the row was loaded with.
FingerprintMatches(s) == file = job[s].sha

\* The version's hash is the one just computed.
Hash(s) ==
  /\ job[s].phase = "loaded"
  /\ FingerprintMatches(s)
  /\ job' = [job EXCEPT ![s].phase = "hashed", ![s].sha = file]
  /\ UNCHANGED <<file, supported, entry, observed, scan, retryable, edits, requests, aborts>>

\* The extractor opens the file anew.
Extract(s) ==
  /\ job[s].phase = "hashed" /\ supported
  /\ file # None
  /\ job' = [job EXCEPT ![s].phase = "extracted", ![s].content = file]
  /\ UNCHANGED <<file, supported, entry, observed, scan, retryable, edits, requests, aborts>>

Outcome(s) ==
  IF ~ supported THEN "unsupported"
  ELSE IF job[s].content \in Unreadable THEN "failed" ELSE "indexed"

\* The state is written when it differs from the one loaded; the version is new.
Published(s) ==
  [entry EXCEPT
     !.version = [sha |-> job[s].sha, status |-> Outcome(s),
                  content |-> IF Outcome(s) = "indexed" THEN job[s].content ELSE None],
     !.state = IF Outcome(s) = job[s].state THEN entry.state ELSE Outcome(s)]

\* _publish_success and _publish_terminal.  A failed extraction is committed
\* before the job is failed.
Publish(s) ==
  /\ job[s].phase = IF supported THEN "extracted" ELSE "hashed"
  /\ entry' = Published(s)
  /\ job' = [job EXCEPT ![s] = IF Outcome(s) = "failed" THEN [@ EXCEPT !.phase = "failing"]
                                                        ELSE NoJob]
  /\ UNCHANGED <<file, supported, observed, scan, retryable, edits, requests, aborts>>

End(s) == job' = [job EXCEPT ![s] = NoJob] /\ retryable' = TRUE

FailPermanent(s) ==
  /\ job[s].phase = "failing"
  /\ End(s)
  /\ UNCHANGED <<file, supported, entry, observed, scan, edits, requests, aborts>>

RetryOrEnd(s) ==
  \/ job' = [job EXCEPT ![s] = Queued] /\ UNCHANGED retryable
  \/ End(s)

\* source_unavailable, fingerprint_changed, or the extractor finds no file.
Transient(s) ==
  /\ \/ job[s].phase = "loaded" /\ ~ FingerprintMatches(s)
     \/ job[s].phase = "hashed" /\ supported /\ file = None
  /\ RetryOrEnd(s)
  /\ UNCHANGED <<file, supported, entry, observed, scan, edits, requests, aborts>>

Abort(s) ==
  /\ job[s].phase # "none"
  /\ aborts < MaxAborts /\ aborts' = aborts + 1
  /\ RetryOrEnd(s)
  /\ UNCHANGED <<file, supported, entry, observed, scan, edits, requests>>

Handle(s) ==
  LoadEntry(s) \/ Hash(s) \/ Extract(s) \/ Publish(s) \/ FailPermanent(s) \/ Transient(s)
Scan == ScanSees \/ ScanLoads \/ ScanCommits

Next ==
  Edit \/ Scan \/ ScanAborts \/ Request \/ \E s \in Slots : Handle(s) \/ Abort(s)

Spec == Init /\ [][Next]_vars

\* Scans recur, and a claimed job runs on.
FairSpec == Spec /\ WF_vars(Scan) /\ \A s \in Slots : WF_vars(Handle(s))

-----------------------------------------------------------------------------
\* A version is only recorded for bytes that a scan has put into the catalog.
\* index_file.py:90.
VersionWasObserved == entry.version # None => entry.version.sha \in observed

\* Once the file stays as it is, the entry is missing or processed: a failed,
\* cancelled or coalesced index job is made up for by a later scan.
Settles ==
  <>[](IF file = None THEN entry.state = "missing" ELSE entry.state \in Processed)
=============================================================================
