-------------------------------- MODULE Scan --------------------------------
(***************************************************************************)
(* Scanning one location (jobs/handlers/scan_location.py): a walk of the   *)
(* share that reads one file at a time while files change and the share    *)
(* comes and goes, the staging of what it saw under the attempt's number,  *)
(* and one transaction that folds the staged rows into the catalog while   *)
(* index_file jobs publish into the same rows.                             *)
(*                                                                         *)
(* At most one attempt runs at a time (JobQueue: one open scan per         *)
(* location, the advisory lock, fenced publication).  The share carries a  *)
(* sentinel file, so _check_root succeeds exactly when it is mounted.      *)
(* Size and mtime are taken to identify the bytes at a path: carrying a    *)
(* stored hash is then hashing, except that the file need not be opened.   *)
(***************************************************************************)
EXTENDS Reconcile, Naturals

CONSTANTS
  MaxAttempts, \* settings.job_max_attempts
  MaxEdits,    \* bound on changes to the files
  MaxFaults,   \* bound on outages, unreadable files and aborted attempts
  None         \* no file

ASSUME ScanAssumption ==
  /\ MaxAttempts \in Nat \ {0} /\ MaxEdits \in Nat /\ MaxFaults \in Nat
  /\ None \notin Shas

VARIABLES
  files,     \* content of the share: the hash of the file at each path
  mounted,   \* whether the share is reachable under scan_root
  catalog,   \* catalog_entries of the location
  phase,     \* where the running attempt is
  attempt,   \* attempt_count of the open scan job, 0 if there is none
  todo,      \* paths the walk has not come to
  seen,      \* the list the walk returns: path to hash
  staged,    \* scan_observations of the open job
  loaded,    \* catalog rows as _apply_reconciliation read them
  indexing,  \* entries a running index_file job has loaded
  kept,      \* history: paths whose file has not changed since the walk began,
             \* if no outage has come to an end since
  edits, faults

scanVars == <<phase, attempt, todo, seen, staged, loaded, kept>>
envVars == <<files, mounted, edits, faults>>
vars == <<scanVars, envVars, catalog, indexing>>

Phases == {"idle", "walking", "staging", "folding"}
Staged == [attempt : 1 .. MaxAttempts, path : Paths, sha : Shas]

TypeOK ==
  /\ files \in [Paths -> Shas \cup {None}]
  /\ mounted \in BOOLEAN
  /\ catalog \in Catalogs /\ loaded \in Catalogs
  /\ phase \in Phases
  /\ attempt \in 0 .. MaxAttempts
  /\ todo \subseteq Paths /\ kept \subseteq Paths
  /\ seen \in Observations
  /\ staged \subseteq Staged
  /\ indexing \subseteq DOMAIN catalog
  /\ edits \in 0 .. MaxEdits /\ faults \in 0 .. MaxFaults

Init ==
  /\ files \in [Paths -> Shas \cup {None}]
  /\ mounted = TRUE
  /\ catalog = <<>> /\ loaded = <<>>
  /\ phase = "idle"
  /\ attempt = 0
  /\ todo = {} /\ kept = {}
  /\ seen = <<>>
  /\ staged = {}
  /\ indexing = {}
  /\ edits = 0 /\ faults = 0

Fault == faults < MaxFaults /\ faults' = faults + 1

-----------------------------------------------------------------------------
(***************************************************************************)
(* The share.                                                              *)
(***************************************************************************)

Change(new) ==
  /\ edits < MaxEdits
  /\ new # files
  /\ files' = new
  /\ edits' = edits + 1
  /\ kept' = {p \in kept : new[p] = files[p]}
  /\ UNCHANGED <<mounted, faults, catalog, phase, attempt, todo, seen, staged, loaded,
                 indexing>>

Write == \E p \in Paths, c \in Shas \cup {None} : Change([files EXCEPT ![p] = c])

Rename ==
  \E p, q \in Paths :
    p # q /\ files[p] # None /\ Change([files EXCEPT ![p] = None, ![q] = files[p]])

Unmount ==
  /\ mounted
  /\ Fault
  /\ mounted' = FALSE
  /\ UNCHANGED <<files, edits, catalog, scanVars, indexing>>

Mount ==
  /\ ~ mounted
  /\ mounted' = TRUE
  /\ kept' = {}
  /\ UNCHANGED <<files, edits, faults, catalog, phase, attempt, todo, seen, staged, loaded,
                 indexing>>

-----------------------------------------------------------------------------
(***************************************************************************)
(* The scan handler.                                                       *)
(***************************************************************************)

AttemptsLeft == attempt < MaxAttempts

\* Claim, first _check_root, prior snapshot.
Begin ==
  /\ phase = "idle"
  /\ AttemptsLeft
  /\ mounted
  /\ phase' = "walking"
  /\ attempt' = attempt + 1
  /\ todo' = Paths
  /\ kept' = {p \in Paths : files[p] # None}
  /\ seen' = <<>>
  /\ UNCHANGED <<staged, loaded, envVars, catalog, indexing>>

\* The prior snapshot has these bytes at this path: the file is not opened.
Carried(p) == \E e \in DOMAIN catalog : catalog[e].path = p /\ catalog[e].sha = files[p]

\* os.walk comes to a path.  A file that is not there, or on a share that is
\* not, is passed over without an error.
Visit(p) ==
  /\ phase = "walking" /\ p \in todo
  /\ todo' = todo \ {p}
  /\ seen' = IF mounted /\ files[p] # None
               THEN [q \in DOMAIN seen \cup {p} |-> IF q = p THEN files[p] ELSE seen[q]]
               ELSE seen
  /\ UNCHANGED <<phase, attempt, staged, loaded, kept, envVars, catalog, indexing>>

\* A file that must be hashed and cannot be opened is passed over.
VisitUnreadable(p) ==
  /\ phase = "walking" /\ p \in todo
  /\ mounted /\ files[p] # None /\ ~ Carried(p)
  /\ Fault
  /\ todo' = todo \ {p}
  /\ UNCHANGED <<phase, attempt, seen, staged, loaded, kept, files, mounted, edits,
                 catalog, indexing>>

\* The walk returns.
EndWalk ==
  /\ phase = "walking" /\ todo = {}
  /\ phase' = "staging"
  /\ UNCHANGED <<attempt, todo, seen, staged, loaded, kept, envVars, catalog, indexing>>

Unstaged == {p \in DOMAIN seen : \A s \in staged : ~ (s.attempt = attempt /\ s.path = p)}

\* One batch is committed; the batch size is immaterial.
Stage(p) ==
  /\ phase = "staging" /\ p \in Unstaged
  /\ staged' = staged \cup {[attempt |-> attempt, path |-> p, sha |-> seen[p]]}
  /\ UNCHANGED <<phase, attempt, todo, seen, loaded, kept, envVars, catalog, indexing>>

\* Mutant: the root is not looked at again before the catalog is touched.
RootCheckedOnce == TRUE

\* The second _check_root.
RootChecked == mounted

\* Fenced lock and the reads of _apply_reconciliation.
Load ==
  /\ phase = "staging" /\ Unstaged = {}
  /\ RootChecked
  /\ phase' = "folding"
  /\ loaded' = catalog
  /\ UNCHANGED <<attempt, todo, seen, staged, kept, envVars, catalog, indexing>>

\* Mutant: every observation the job ever staged is folded.
StagedByJob == staged

StagedByAttempt == {s \in staged : s.attempt = attempt}

\* A dict by path: of two rows for a path, whichever is read last stays.
ObservedByPath ==
  LET rows == StagedByAttempt
  IN {obs \in [{s.path : s \in rows} -> Shas] :
        \A p \in DOMAIN obs : \E s \in rows : s.path = p /\ s.sha = obs[p]}

\* The flush writes the attributes whose value differs from the one loaded: a
\* state that folding leaves alone is not written over an index result.
Flushed(plan) ==
  [e \in DOMAIN plan |->
     IF e \in DOMAIN catalog /\ plan[e].state = loaded[e].state
       THEN [plan[e] EXCEPT !.state = catalog[e].state]
       ELSE plan[e]]

Commit ==
  /\ phase = "folding"
  /\ \E obs \in ObservedByPath : \E at \in Placements(loaded, obs) :
       catalog' = Flushed(Folded(loaded, obs, at))
  /\ phase' = "idle"
  /\ attempt' = 0
  /\ staged' = {}
  /\ seen' = <<>> /\ loaded' = <<>> /\ kept' = {}
  /\ UNCHANGED <<todo, envVars, indexing>>

\* An attempt that ends otherwise leaves its staging rows.  The job is retried,
\* or ended: the rows of an ended job are not read again, and collected.
EndAttempt ==
  /\ phase' = "idle"
  /\ \/ AttemptsLeft /\ UNCHANGED <<attempt, staged>>
     \/ attempt' = 0 /\ staged' = {}
  /\ todo' = {} /\ seen' = <<>> /\ loaded' = <<>> /\ kept' = {}
  /\ UNCHANGED <<files, mounted, edits, catalog, indexing>>

\* A crash, a lost lease, a cancellation, a shutdown.
Abort == phase # "idle" /\ Fault /\ EndAttempt

\* source_unavailable, raised by the second check.
RootLost ==
  /\ phase = "staging" /\ Unstaged = {}
  /\ ~ RootChecked
  /\ EndAttempt /\ UNCHANGED faults

-----------------------------------------------------------------------------
(***************************************************************************)
(* index_file jobs, as far as they touch the rows: the entry is loaded at  *)
(* the start and its state written at the end, whatever happened between.  *)
(***************************************************************************)

IndexLoad(e) ==
  /\ e \in DOMAIN catalog \ indexing
  /\ catalog[e].state = "discovered"
  /\ indexing' = indexing \cup {e}
  /\ UNCHANGED <<scanVars, envVars, catalog>>

IndexEnd(e) ==
  /\ e \in indexing
  /\ indexing' = indexing \ {e}
  /\ \/ UNCHANGED catalog
     \/ \E st \in Processed : catalog' = [catalog EXCEPT ![e].state = st]
  /\ UNCHANGED <<scanVars, envVars>>

Walk == \E p \in Paths : Visit(p) \/ VisitUnreadable(p)
ScanStep == Walk \/ EndWalk \/ (\E p \in Paths : Stage(p)) \/ Load \/ Commit \/ RootLost
Index == \E e \in Entries : IndexLoad(e) \/ IndexEnd(e)

Next == Write \/ Rename \/ Unmount \/ Mount \/ Begin \/ ScanStep \/ Abort \/ Index

Spec == Init /\ [][Next]_vars

\* The scheduler keeps enqueuing scans and workers keep running them; the
\* share comes back; an index job ends.
Fairness ==
  /\ WF_vars(Begin) /\ WF_vars(ScanStep) /\ WF_vars(Mount)
  /\ \A e \in Entries : WF_vars(IndexEnd(e))

FairSpec == Spec /\ Fairness

-----------------------------------------------------------------------------
\* Only the attempt that folds is believed, although the rows staged by the
\* attempts before it are still there: every path it saw gets those bytes and
\* is present, and no entry is moved to another path.  scan_location.py:395.
FoldsWhatItSaw ==
  [][Commit =>
       /\ \A p \in DOMAIN seen : \E e \in DOMAIN catalog' :
            catalog'[e].path = p /\ catalog'[e].sha = seen[p] /\ catalog'[e].state # "missing"
       /\ \A e \in DOMAIN catalog' :
            catalog'[e].path \notin DOMAIN seen =>
              e \in DOMAIN catalog /\ catalog'[e].path = catalog[e].path]_vars

\* A file that has been there, unchanged, since the attempt began is never
\* marked missing, even if the share went away and the walk did not see it.
\* What scan_location.py:257 says of roots that disappear holds as long as
\* they are still away at the second check.
PresentNeverMissing ==
  [][\A e \in DOMAIN catalog :
       catalog[e].path \in kept /\ files[catalog[e].path] = catalog[e].sha
       /\ catalog[e].state # "missing"
         => catalog'[e].state # "missing"]_vars

\* Path uniqueness, with index results landing between read and write.
OneEntryPerPath == PathsUnique(catalog)

Present == [p \in {q \in Paths : files[q] # None} |-> files[p]]

\* Once the files stop changing the catalog shows them: index results that
\* overwrite a missing mark and scans that fail only delay it.
Converges == <>[]Mirrors(catalog, Present)
=============================================================================
