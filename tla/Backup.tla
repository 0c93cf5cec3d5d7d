------------------------------ MODULE Backup ------------------------------
(***************************************************************************)
(* Backup runs, pruning and restore over one backup destination.  A run    *)
(* captures into local staging, copies to completed/<id>.partial, verifies *)
(* the copy, renames it and writes the COMPLETED marker, then prunes what  *)
(* the retention policy does not keep.  (backup/runner.py, retention.py,   *)
(* checksums.py, __main__.py; restore/runner.py.)                          *)
(*                                                                         *)
(* A backup id is the second its run started, so ids are times; nothing    *)
(* locks the destination, so runs, and a restore, may overlap.             *)
(***************************************************************************)
EXTENDS Naturals, FiniteSets

CONSTANTS
  Runners,              \* processes that run `backup run`
  MaxTime,              \* bound on the clock, in seconds
  MaxFaults,            \* bound on wrong or failed copies and on crashes
  Interrupted,          \* what a copy that is cut short may leave
  Day, Week, Month,     \* lengths of the retention buckets, in seconds
  Daily, Weekly, Monthly \* retention_daily, _weekly, _monthly

Parts == {"globals", "dump", "sums"}
Statuses == {"absent", "good", "bad"}
Dir == [Parts -> Statuses]
NoDir == [p \in Parts |-> "absent"]

ASSUME BackupAssumption ==
  /\ Interrupted \subseteq Dir
  /\ MaxTime \in Nat /\ MaxFaults \in Nat
  /\ Day \in Nat \ {0} /\ Week \in Nat \ {0} /\ Month \in Nat \ {0}
  /\ Daily \in Nat /\ Weekly \in Nat /\ Monthly \in Nat

VARIABLES
  clock,
  run,       \* each runner: its phase, backup id, and what it has still to prune
  staging,   \* ids with a directory under the staging root
  partial,   \* the files of completed/<id>.partial, or NoDir
  final,     \* the files of completed/<id>, or NoDir
  marker,    \* ids whose COMPLETED marker exists
  restore,   \* the restore: its phase and set
  completed, \* history: ids that were ever marked
  condemned, \* history: ids some run has selected for pruning
  faults

vars == <<clock, run, staging, partial, final, marker, restore, completed, condemned, faults>>

Ids == 0 .. MaxTime

Span == [day |-> Day, week |-> Week, month |-> Month]
Limit == [day |-> Daily, week |-> Weekly, month |-> Monthly]
Bucket(kind, id) == id \div Span[kind]

\* The buckets of the sets of S that are newer than id.
NewerBuckets(kind, S, id) == {Bucket(kind, j) : j \in {k \in S : k > id}}

\* The newest set of each of the newest Limit[kind] buckets that have one.
Kept(kind, S) ==
  {id \in S : /\ \A j \in S : Bucket(kind, j) = Bucket(kind, id) => j <= id
              /\ Cardinality(NewerBuckets(kind, S, id)) < Limit[kind]}

select_retained(S) == Kept("day", S) \cup Kept("week", S) \cup Kept("month", S)

\* Mutant: only the daily sets are kept.
select_prunedDaily(S) == S \ Kept("day", S)

select_pruned(S) == S \ select_retained(S)

\* Every file SHA256SUMS lists is there and hashes as it did in staging.
verify_sums(dir) == \A p \in Parts : dir[p] = "good"

discover_completed_sets == marker

Idle == [phase |-> "idle", id |-> 0, doomed |-> {}]
Phases == {"idle", "capturing", "staged", "copied", "verified", "renamed", "published", "pruning"}
Run == [phase : Phases, id : Ids, doomed : SUBSET Ids]
Restoring == [phase : {"none", "checked", "globals", "done", "failed"}, id : Ids]

TypeOK ==
  /\ clock \in Ids
  /\ run \in [Runners -> Run]
  /\ staging \subseteq Ids
  /\ partial \in [Ids -> Dir] /\ final \in [Ids -> Dir]
  /\ marker \subseteq Ids
  /\ restore \in Restoring
  /\ completed \subseteq Ids /\ condemned \subseteq Ids
  /\ faults \in 0 .. MaxFaults

Init ==
  /\ clock = 0
  /\ run = [r \in Runners |-> Idle]
  /\ staging = {} /\ marker = {} /\ completed = {} /\ condemned = {} /\ faults = 0
  /\ partial = [i \in Ids |-> NoDir] /\ final = [i \in Ids |-> NoDir]
  /\ restore = [phase |-> "none", id |-> 0]

----------------------------------------------------------------------------
At(r, phase) == run[r].phase = phase
Goto(r, phase) == run' = [run EXCEPT ![r].phase = phase]
dirVars == <<partial, final, marker, completed>>
restVars == <<clock, restore, condemned>>

Fault == faults < MaxFaults /\ faults' = faults + 1

Tick ==
  /\ clock < MaxTime
  /\ clock' = clock + 1
  /\ UNCHANGED <<run, staging, dirVars, restore, condemned, faults>>

\* now.strftime("%Y%m%dT%H%M%SZ")
BackupId == clock

\* mkdir(exist_ok=False): a second run of the same second fails here.
Start(r) ==
  /\ At(r, "idle") /\ BackupId \notin staging
  /\ run' = [run EXCEPT ![r] = [phase |-> "capturing", id |-> BackupId, doomed |-> {}]]
  /\ staging' = staging \cup {BackupId}
  /\ UNCHANGED <<dirVars, restVars, faults>>

\* pg_dump, pg_dumpall, the manifest and SHA256SUMS, verified where they were written.
Stage(r) ==
  /\ At(r, "capturing")
  /\ Goto(r, "staged")
  /\ UNCHANGED <<staging, dirVars, restVars, faults>>

\* An exception of a capture step, of the copy or of the rename: staging is removed.
Abandon(r) ==
  /\ run' = [run EXCEPT ![r] = Idle]
  /\ staging' = staging \ {run[r].id}

CaptureFails(r) ==
  /\ At(r, "capturing")
  /\ Abandon(r)
  /\ UNCHANGED <<dirVars, restVars, faults>>

\* An older .partial of this id is removed first.  The destination may store what it
\* was not given.
CopyTree(r) ==
  /\ At(r, "staged")
  /\ \E copy \in [Parts -> {"good", "bad"}] :
       /\ partial' = [partial EXCEPT ![run[r].id] = copy]
       /\ IF verify_sums(copy) THEN UNCHANGED faults ELSE Fault
  /\ Goto(r, "copied")
  /\ UNCHANGED <<staging, final, marker, completed, restVars>>

\* The destination fills up or disconnects: what was copied stays.
CopyFails(r) ==
  /\ At(r, "staged")
  /\ \E copy \in Interrupted : partial' = [partial EXCEPT ![run[r].id] = copy]
  /\ Abandon(r) /\ Fault
  /\ UNCHANGED <<final, marker, completed, restVars>>

\* Mutant: the staged files were verified, the copy is not.
CopyTrusted(r) == TRUE

CopyVerified(r) == verify_sums(partial[run[r].id])

VerifyCopy(r) ==
  /\ At(r, "copied")
  /\ IF CopyVerified(r)
       THEN Goto(r, "verified") /\ UNCHANGED <<staging, partial>>
       ELSE partial' = [partial EXCEPT ![run[r].id] = NoDir] /\ Abandon(r)
  /\ UNCHANGED <<final, marker, completed, restVars, faults>>

\* Onto a directory that is not empty rename fails, and the .partial stays.
Rename(r) ==
  LET id == run[r].id
  IN /\ At(r, "verified")
     /\ IF final[id] = NoDir /\ id \notin marker
          THEN /\ final' = [final EXCEPT ![id] = partial[id]]
               /\ partial' = [partial EXCEPT ![id] = NoDir]
               /\ Goto(r, "renamed") /\ UNCHANGED staging
          ELSE Abandon(r) /\ UNCHANGED <<partial, final>>
     /\ UNCHANGED <<marker, completed, restVars, faults>>

WriteMarker(r) ==
  /\ At(r, "renamed")
  /\ marker' = marker \cup {run[r].id}
  /\ completed' = completed \cup {run[r].id}
  /\ staging' = staging \ {run[r].id}
  /\ Goto(r, "published")
  /\ UNCHANGED <<partial, final, restVars, faults>>

\* One listing decides; the sets it condemns are removed afterwards.
SelectPruned(r) ==
  LET doomed == select_pruned(discover_completed_sets)
  IN /\ At(r, "published")
     /\ run' = [run EXCEPT ![r].phase = "pruning", ![r].doomed = doomed]
     /\ condemned' = condemned \cup doomed
     /\ UNCHANGED <<clock, staging, dirVars, restore, faults>>

\* rmtree removes the files of a set one by one, in no particular order.
RemovePart(r) ==
  /\ At(r, "pruning")
  /\ \E id \in run[r].doomed, p \in Parts :
       /\ final[id][p] /= "absent"
       /\ final' = [final EXCEPT ![id][p] = "absent"]
  /\ UNCHANGED <<run, staging, partial, marker, completed, restVars, faults>>

RemoveMarker(r) ==
  /\ At(r, "pruning")
  /\ \E id \in run[r].doomed \cap marker : marker' = marker \ {id}
  /\ UNCHANGED <<run, staging, partial, final, completed, restVars, faults>>

\* ignore_errors=True: the run succeeds whatever it could not remove.
DonePrune(r) ==
  /\ At(r, "pruning")
  /\ run' = [run EXCEPT ![r] = Idle]
  /\ UNCHANGED <<staging, dirVars, restVars, faults>>

\* The container is killed: staging, and what a copy had written, stay.
Crash(r) ==
  /\ ~ At(r, "idle") /\ Fault
  /\ run' = [run EXCEPT ![r] = Idle]
  /\ IF At(r, "staged")
       THEN \E copy \in Interrupted : partial' = [partial EXCEPT ![run[r].id] = copy]
       ELSE UNCHANGED partial
  /\ UNCHANGED <<staging, final, marker, completed, restVars>>

----------------------------------------------------------------------------
\* _precheck: marker, checksums, manifest.  A set it refuses leaves the database alone.
Restorable(id) == id \in marker /\ verify_sums(final[id])

Precheck(id) ==
  /\ restore.phase = "none" /\ Restorable(id)
  /\ restore' = [phase |-> "checked", id |-> id]
  /\ UNCHANGED <<clock, run, staging, dirVars, condemned, faults>>

\* psql and pg_restore fail when their file is gone.
RestoreStep(part, from, to) ==
  /\ restore.phase = from
  /\ restore' = [restore EXCEPT !.phase = IF final[restore.id][part] = "good" THEN to ELSE "failed"]
  /\ UNCHANGED <<clock, run, staging, dirVars, condemned, faults>>

RestoreGlobals == RestoreStep("globals", "checked", "globals")
RestorePostgres == RestoreStep("dump", "globals", "done")

Next ==
  \/ Tick
  \/ \E r \in Runners :
       \/ Start(r) \/ Stage(r) \/ CaptureFails(r) \/ CopyTree(r) \/ CopyFails(r)
       \/ VerifyCopy(r) \/ Rename(r) \/ WriteMarker(r) \/ SelectPruned(r)
       \/ RemovePart(r) \/ RemoveMarker(r) \/ DonePrune(r) \/ Crash(r)
  \/ \E id \in Ids : Precheck(id)
  \/ RestoreGlobals \/ RestorePostgres

Spec == Init /\ [][Next]_vars

----------------------------------------------------------------------------
\* What the retention policy keeps of all the sets ever completed can be restored,
\* however runs overlap, prune, fail and crash.
RetainedIsRestorable == \A id \in select_retained(completed) : Restorable(id)

\* A marker over files that are missing or wrong is the rest of a prune: copying,
\* renaming and marking never leave one, wherever they are interrupted.
MarkedIsWhole == \A id \in marker \ condemned : verify_sums(final[id])

\* A restore that passed its precheck fails only because a backup run pruned the set
\* under it, and a restore of a set the policy still keeps does not fail.
RestoreFailsByPrune ==
  restore.phase = "failed" =>
    restore.id \in condemned /\ restore.id \notin select_retained(completed)
=============================================================================
