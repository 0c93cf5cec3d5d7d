---------------------------- MODULE BackupProofs ----------------------------
(***************************************************************************)
(* Proofs about Backup: types, and that pruning, overlapping runs, crashes *)
(* and faults never cost a set the retention policy keeps.                 *)
(***************************************************************************)
EXTENDS Backup, FiniteSetTheorems, TLAPS

----------------------------------------------------------------------------
(***************************************************************************)
(* Retention.                                                              *)
(***************************************************************************)

\* Backup ids are finitely many.
LEMMA IdsFinite == ASSUME NEW S \in SUBSET Ids PROVE IsFiniteSet(S)
<1>1. 0 \in Int /\ MaxTime \in Int
  BY BackupAssumption DEF BackupAssumption
<1> QED BY <1>1, FS_Interval, FS_Subset DEF Ids

\* So are the buckets of those newer than a given one.
LEMMA NewerFinite ==
  ASSUME NEW S \in SUBSET Ids, NEW kind, NEW id
  PROVE  IsFiniteSet(NewerBuckets(kind, S, id))
<1> DEFINE N == {k \in S : k > id}
           f == [j \in N |-> Bucket(kind, j)]
<1>1. IsFiniteSet(N)
  BY IdsFinite
<1>2. f \in Surjection(N, NewerBuckets(kind, S, id))
  BY DEF Surjection, NewerBuckets
<1> QED BY <1>1, <1>2, FS_Surjection

\* Fewer sets, fewer newer buckets: a set that is kept among more is kept among fewer.
LEMMA KeptAntiMonotone ==
  ASSUME NEW H \in SUBSET Ids, NEW L \in SUBSET H, NEW kind \in DOMAIN Span,
         NEW id \in Kept(kind, H) \cap L
  PROVE  id \in Kept(kind, L)
<1>1. NewerBuckets(kind, L, id) \subseteq NewerBuckets(kind, H, id)
  BY DEF NewerBuckets
<1>2. Cardinality(NewerBuckets(kind, L, id)) <= Cardinality(NewerBuckets(kind, H, id))
  BY <1>1, NewerFinite, FS_Subset
<1>3. Cardinality(NewerBuckets(kind, L, id)) \in Nat /\ Cardinality(NewerBuckets(kind, H, id)) \in Nat
  BY NewerFinite, FS_CardinalityType
<1>4. Limit[kind] \in Nat
  BY BackupAssumption DEF BackupAssumption, Limit, Span
<1>5. Cardinality(NewerBuckets(kind, H, id)) < Limit[kind]
  BY DEF Kept
<1>6. \A j \in L : Bucket(kind, j) = Bucket(kind, id) => j <= id
  BY DEF Kept
<1> QED BY <1>2, <1>3, <1>4, <1>5, <1>6 DEF Kept

\* What the policy keeps of more sets it keeps of fewer (select_retained): no listing,
\* however stale, condemns a set that all the sets together would keep.
THEOREM RetainedAntiMonotone ==
  ASSUME NEW H \in SUBSET Ids, NEW L \in SUBSET H,
         NEW id \in select_retained(H) \cap L
  PROVE  id \in select_retained(L)
<1>1. {"day", "week", "month"} = DOMAIN Span
  BY DEF Span
<1> QED BY <1>1, KeptAntiMonotone DEF select_retained

\* Only backups that are there are retained.
LEMMA RetainedSubset == ASSUME NEW S PROVE select_retained(S) \subseteq S
BY DEF select_retained, Kept

----------------------------------------------------------------------------
(***************************************************************************)
(* Types.                                                                  *)
(***************************************************************************)

\* _publish copies a directory as a whole: it has the parts of a set.
LEMMA NoDirIsDir == NoDir \in Dir
BY DEF NoDir, Dir, Statuses

\* The types hold at the start.
LEMMA InitTypeOK == ASSUME Init PROVE TypeOK
<1> USE BackupAssumption DEF BackupAssumption, Ids
<1>1. Idle \in Run /\ 0 \in Ids
  BY DEF Idle, Run, Phases
<1>2. partial \in [Ids -> Dir] /\ final \in [Ids -> Dir]
  BY NoDirIsDir DEF Init
<1>3. run \in [Runners -> Run] /\ restore \in Restoring
  BY <1>1 DEF Init, Restoring
<1> QED BY <1>1, <1>2, <1>3 DEF Init, TypeOK

\* The types an action of a runner can disturb.
RunTypes ==
  /\ run \in [Runners -> Run] /\ staging \subseteq Ids
  /\ partial \in [Ids -> Dir] /\ final \in [Ids -> Dir]
  /\ marker \subseteq Ids /\ completed \subseteq Ids /\ condemned \subseteq Ids
  /\ faults \in 0 .. MaxFaults

\* What is known of a run, and what becomes of it when its phase changes or it ends.
LEMMA RunAt ==
  ASSUME TypeOK, NEW r \in Runners
  PROVE  /\ run[r] \in Run /\ run[r].id \in Ids /\ run[r].doomed \subseteq Ids
         /\ \A phase \in Phases : [run EXCEPT ![r].phase = phase] \in [Runners -> Run]
         /\ [run EXCEPT ![r] = Idle] \in [Runners -> Run]
<1>1. run \in [Runners -> Run] /\ run[r] \in Run
  BY DEF TypeOK
<1>2. Idle \in Run
  BY BackupAssumption DEF BackupAssumption, Idle, Run, Phases, Ids
<1>3. ASSUME NEW phase \in Phases PROVE [run[r] EXCEPT !.phase = phase] \in Run
  BY <1>1 DEF Run
<1> QED BY <1>1, <1>2, <1>3 DEF Run

\* A step that goes on in another phase, or gives the run up with its staging directory.
LEMMA RunMoves ==
  ASSUME TypeOK, NEW r \in Runners, NEW phase \in Phases,
         \/ run' = [run EXCEPT ![r].phase = phase] /\ staging' = staging
         \/ run' = [run EXCEPT ![r] = Idle] /\ staging' = staging \ {run[r].id}
  PROVE  run' \in [Runners -> Run] /\ staging' \subseteq Ids
<1>1. staging' \subseteq Ids
  BY DEF TypeOK
<1>2. run' \in [Runners -> Run]
  BY RunAt
<1> QED BY <1>1, <1>2

\* Faults are bounded.
LEMMA FaultTypes == ASSUME TypeOK, Fault \/ UNCHANGED faults PROVE faults' \in 0 .. MaxFaults
BY BackupAssumption DEF TypeOK, Fault, BackupAssumption

\* What the steps of a run write are phases, ids and directories.
LEMMA RunnerTypes ==
  ASSUME TypeOK, NEW r \in Runners,
         \/ Start(r) \/ Stage(r) \/ CaptureFails(r) \/ CopyTree(r) \/ CopyFails(r)
         \/ VerifyCopy(r) \/ Rename(r) \/ WriteMarker(r) \/ SelectPruned(r)
         \/ RemovePart(r) \/ RemoveMarker(r) \/ DonePrune(r) \/ Crash(r)
  PROVE  RunTypes'
<1> USE DEF Phases
<1>1. RunTypes /\ clock \in Ids
  BY DEF TypeOK, RunTypes
<1>2. CASE Start(r)
  <2>1. [phase |-> "capturing", id |-> clock, doomed |-> {}] \in Run
    BY <1>1 DEF Run
  <2> QED BY <1>1, <1>2, <2>1 DEF Start, BackupId, RunTypes, dirVars, restVars
<1>3. CASE Stage(r)
  BY <1>1, <1>3, RunAt DEF Stage, Goto, RunTypes, dirVars, restVars
<1>4. CASE CaptureFails(r)
  BY <1>1, <1>4, RunAt DEF CaptureFails, Abandon, RunTypes, dirVars, restVars
<1>5. CASE CopyTree(r)
  <2>1. PICK copy \in [Parts -> {"good", "bad"}] :
          partial' = [partial EXCEPT ![run[r].id] = copy] /\ (Fault \/ UNCHANGED faults)
    BY <1>5 DEF CopyTree
  <2>2. copy \in Dir
    BY DEF Dir, Statuses
  <2>3. faults' \in 0 .. MaxFaults
    BY <2>1, FaultTypes
  <2>4. partial' \in [Ids -> Dir]
    BY <1>1, <2>1, <2>2 DEF RunTypes
  <2> QED BY <1>1, <1>5, <2>3, <2>4, RunAt DEF CopyTree, Goto, RunTypes, restVars
<1>6. CASE CopyFails(r)
  <2>1. partial' \in [Ids -> Dir]
    BY <1>1, <1>6, BackupAssumption DEF CopyFails, BackupAssumption, RunTypes
  <2>2. faults' \in 0 .. MaxFaults
    BY <1>6, FaultTypes DEF CopyFails
  <2> QED BY <1>1, <1>6, <2>1, <2>2, RunAt DEF CopyFails, Abandon, RunTypes, restVars
<1>7. CASE VerifyCopy(r)
  <2>1. partial' \in [Ids -> Dir]
    BY <1>1, <1>7, NoDirIsDir DEF VerifyCopy, RunTypes
  <2>2. run' \in [Runners -> Run] /\ staging' \subseteq Ids
    <3>1. \/ run' = [run EXCEPT ![r].phase = "verified"] /\ staging' = staging
          \/ run' = [run EXCEPT ![r] = Idle] /\ staging' = staging \ {run[r].id}
      BY <1>7 DEF VerifyCopy, Goto, Abandon
    <3> QED BY <3>1, RunMoves
  <2>3. UNCHANGED <<final, marker, completed, condemned, faults>>
    BY <1>7 DEF VerifyCopy, restVars
  <2> QED BY <1>1, <2>1, <2>2, <2>3 DEF RunTypes
<1>8. CASE Rename(r)
  <2>1. partial' \in [Ids -> Dir] /\ final' \in [Ids -> Dir]
    <3>1. run[r].id \in Ids /\ partial \in [Ids -> Dir] /\ final \in [Ids -> Dir]
      BY <1>1, RunAt DEF RunTypes
    <3>2. \/ /\ partial' = [partial EXCEPT ![run[r].id] = NoDir]
             /\ final' = [final EXCEPT ![run[r].id] = partial[run[r].id]]
          \/ partial' = partial /\ final' = final
      BY <1>8 DEF Rename
    <3> QED BY <3>1, <3>2, NoDirIsDir
  <2>2. run' \in [Runners -> Run] /\ staging' \subseteq Ids
    <3>1. \/ run' = [run EXCEPT ![r].phase = "renamed"] /\ staging' = staging
          \/ run' = [run EXCEPT ![r] = Idle] /\ staging' = staging \ {run[r].id}
      BY <1>8 DEF Rename, Goto, Abandon
    <3> QED BY <3>1, RunMoves
  <2>3. UNCHANGED <<marker, completed, condemned, faults>>
    BY <1>8 DEF Rename, restVars
  <2> QED BY <1>1, <2>1, <2>2, <2>3 DEF RunTypes
<1>9. CASE WriteMarker(r)
  <2>1. run' \in [Runners -> Run]
    BY <1>9, RunAt DEF WriteMarker, Goto
  <2> QED BY <1>1, <1>9, <2>1, RunAt DEF WriteMarker, RunTypes, restVars
<1>10. CASE SelectPruned(r)
  <2> DEFINE doomed == select_pruned(discover_completed_sets)
  <2>1. doomed \subseteq Ids
    BY <1>1 DEF select_pruned, discover_completed_sets, RunTypes
  <2> HIDE DEF doomed
  <2>2. [run[r] EXCEPT !.phase = "pruning", !.doomed = doomed] \in Run
    BY <1>1, <2>1, RunAt DEF Run
  <2>3. /\ run' = [run EXCEPT ![r].phase = "pruning", ![r].doomed = doomed]
        /\ condemned' = condemned \cup doomed
        /\ UNCHANGED <<clock, staging, dirVars, restore, faults>>
    BY <1>10 DEF SelectPruned, doomed
  <2>4. run' \in [Runners -> Run]
    BY <1>1, <2>2, <2>3 DEF RunTypes
  <2> QED BY <1>1, <2>1, <2>3, <2>4 DEF RunTypes, dirVars
<1>11. CASE RemovePart(r)
  <2>1. PICK id \in run[r].doomed, p \in Parts : final' = [final EXCEPT ![id][p] = "absent"]
    BY <1>11 DEF RemovePart
  <2>2. id \in Ids
    BY <2>1, RunAt
  <2>3. [final[id] EXCEPT ![p] = "absent"] \in Dir
    BY <1>1, <2>2 DEF RunTypes, Dir, Statuses
  <2>4. final' \in [Ids -> Dir]
    BY <1>1, <2>1, <2>3 DEF RunTypes
  <2> QED BY <1>1, <1>11, <2>4 DEF RemovePart, RunTypes, restVars
<1>12. CASE RemoveMarker(r)
  BY <1>1, <1>12 DEF RemoveMarker, RunTypes, restVars
<1>13. CASE DonePrune(r)
  BY <1>1, <1>13, RunAt DEF DonePrune, RunTypes, dirVars, restVars
<1>14. CASE Crash(r)
  <2>1. partial' \in [Ids -> Dir]
    BY <1>1, <1>14, BackupAssumption DEF Crash, BackupAssumption, RunTypes
  <2>2. faults' \in 0 .. MaxFaults
    BY <1>14, FaultTypes DEF Crash
  <2> QED BY <1>1, <1>14, <2>1, <2>2, RunAt DEF Crash, RunTypes, restVars
<1> QED BY <1>2, <1>3, <1>4, <1>5, <1>6, <1>7, <1>8, <1>9, <1>10, <1>11, <1>12, <1>13, <1>14

\* A restore keeps the types.
LEMMA RestoreTypes ==
  ASSUME TypeOK, \/ \E id \in Ids : Precheck(id)
                 \/ RestoreGlobals \/ RestorePostgres \/ UNCHANGED restore
  PROVE  restore' \in Restoring
<1>1. restore \in Restoring
  BY DEF TypeOK
<1>2. CASE \E id \in Ids : Precheck(id)
  BY <1>2 DEF Precheck, Restoring
<1>3. CASE RestoreGlobals \/ RestorePostgres
  <2>1. \E phase \in {"globals", "done", "failed"} : restore' = [restore EXCEPT !.phase = phase]
    BY <1>3 DEF RestoreGlobals, RestorePostgres, RestoreStep
  <2> QED BY <1>1, <2>1 DEF Restoring
<1> QED BY <1>1, <1>2, <1>3

\* Every step keeps the types.
LEMMA StepTypeOK == ASSUME TypeOK, [Next]_vars PROVE TypeOK'
<1>1. clock' \in Ids
  <2>1. Tick \/ UNCHANGED clock
    BY DEF Next, vars, Start, Stage, CaptureFails, CopyTree, CopyFails, VerifyCopy, Rename,
       WriteMarker, SelectPruned, RemovePart, RemoveMarker, DonePrune, Crash, Precheck,
       RestoreGlobals, RestorePostgres, RestoreStep, restVars
  <2> QED BY <2>1, BackupAssumption DEF TypeOK, Tick, Ids, BackupAssumption
<1>2. restore' \in Restoring
  <2>1. \/ \E id \in Ids : Precheck(id)
        \/ RestoreGlobals \/ RestorePostgres \/ UNCHANGED restore
    BY DEF Next, vars, Tick, Start, Stage, CaptureFails, CopyTree, CopyFails, VerifyCopy,
       Rename, WriteMarker, SelectPruned, RemovePart, RemoveMarker, DonePrune, Crash, restVars
  <2> QED BY <2>1, RestoreTypes
<1>3. RunTypes'
  <2>1. RunTypes
    BY DEF TypeOK, RunTypes
  <2>2. ASSUME UNCHANGED <<run, staging, dirVars, condemned, faults>> PROVE RunTypes'
    BY <2>1, <2>2 DEF RunTypes, dirVars
  <2>3. CASE UNCHANGED vars
    BY <2>2, <2>3 DEF vars, dirVars
  <2>4. CASE Tick \/ (\E id \in Ids : Precheck(id)) \/ RestoreGlobals \/ RestorePostgres
    BY <2>2, <2>4 DEF Tick, Precheck, RestoreGlobals, RestorePostgres, RestoreStep
  <2> QED BY <2>3, <2>4, RunnerTypes DEF Next
<1> QED BY <1>1, <1>2, <1>3 DEF TypeOK, RunTypes

\* Phases, ids and the files of every directory keep their types (run_backup, run_restore).
THEOREM TypesHold == Spec => []TypeOK
<1> QED BY InitTypeOK, StepTypeOK, PTL DEF Spec

----------------------------------------------------------------------------
(***************************************************************************)
(* Safety.                                                                 *)
(***************************************************************************)

\* A run that owns its id: from mkdir to the marker.
Active(r) == run[r].phase \in {"capturing", "staged", "copied", "verified", "renamed"}

\* Two runs never work on one id.
OwnInv ==
  /\ \A r \in Runners : Active(r) => run[r].id \in staging
  /\ \A r, q \in Runners : Active(r) /\ Active(q) /\ r # q => run[r].id # run[q].id

\* A verified copy stays whole until it is marked.
PathInv ==
  \A r \in Runners :
    /\ At(r, "verified") => verify_sums(partial[run[r].id])
    /\ At(r, "renamed") /\ run[r].id \notin condemned => verify_sums(final[run[r].id])

\* Nothing is lost but by pruning, and pruning takes only what was completed and is
\* not kept of all that was completed.
PruneInv ==
  /\ marker \subseteq completed /\ condemned \subseteq completed
  /\ \A r \in Runners : run[r].doomed \subseteq condemned
  /\ condemned \cap select_retained(completed) = {}
  /\ \A id \in completed \ condemned : Restorable(id)

\* The set a restore has prechecked was complete; it fails only on a condemned one.
RestoreInv ==
  /\ restore.phase # "none" => restore.id \in completed
  /\ restore.phase = "failed" => restore.id \in condemned

Inv == TypeOK /\ OwnInv /\ PathInv /\ PruneInv /\ RestoreInv

\* The invariant holds at the start.
LEMMA InitInv == ASSUME Init PROVE Inv
<1>1. select_retained({}) = {}
  BY RetainedSubset
<1>2. \A r \in Runners : run[r] = Idle
  BY DEF Init
<1> QED BY <1>1, <1>2, InitTypeOK DEF Init, Idle, Inv, OwnInv, Active, PathInv, At, PruneInv, RestoreInv

\* Three properties the runs check, from the invariant.
LEMMA InvImplies == ASSUME Inv PROVE RetainedIsRestorable /\ MarkedIsWhole /\ RestoreFailsByPrune
<1>1. RetainedIsRestorable
  BY RetainedSubset DEF Inv, PruneInv, RetainedIsRestorable
<1>2. MarkedIsWhole
  BY DEF Inv, PruneInv, MarkedIsWhole, Restorable
<1>3. RestoreFailsByPrune
  BY DEF Inv, PruneInv, RestoreInv, RestoreFailsByPrune
<1> QED BY <1>1, <1>2, <1>3

\* Only its phase changes, or the run ends.
LEMMA RunPhase ==
  ASSUME TypeOK, NEW r \in Runners
  PROVE  /\ \A phase : Goto(r, phase) => run'[r].phase = phase /\ run'[r].id = run[r].id
         /\ Abandon(r) \/ Crash(r) \/ DonePrune(r) => run'[r].phase = "idle"
         /\ SelectPruned(r) => run'[r].phase = "pruning"
         /\ Start(r) => run'[r].phase = "capturing"
<1>1. run \in [Runners -> Run] /\ run[r] \in Run
  BY DEF TypeOK
<1>2. ASSUME NEW phase, Goto(r, phase) PROVE run'[r].phase = phase /\ run'[r].id = run[r].id
  BY <1>1, <1>2 DEF Goto, Run
<1>3. Abandon(r) \/ Crash(r) \/ DonePrune(r) => run'[r].phase = "idle"
  BY <1>1 DEF Abandon, Crash, DonePrune, Idle
<1>4. SelectPruned(r) => run'[r].phase = "pruning"
  BY <1>1 DEF SelectPruned, Run
<1>5. Start(r) => run'[r].phase = "capturing"
  BY <1>1 DEF Start
<1> QED BY <1>2, <1>3, <1>4, <1>5

\* A run keeps its id, or ends; what ends gives up no id but its own.
LEMMA OwnStep ==
  ASSUME TypeOK, OwnInv, NEW r \in Runners,
         \A q \in Runners \ {r} : run'[q] = run[q],
         \/ Active(r) /\ run'[r].id = run[r].id /\ staging' = staging
         \/ ~ Active(r)' /\ staging' = staging
         \/ ~ Active(r)' /\ Active(r) /\ staging' = staging \ {run[r].id}
  PROVE  OwnInv'
<1>1. \A q \in Runners \ {r} : Active(q)' => Active(q) /\ run'[q].id = run[q].id
  BY DEF Active
<1> QED BY <1>1 DEF OwnInv

\* What the action does to the table of runs, and to no other runner.
LEMMA RunOthers ==
  ASSUME TypeOK, NEW r \in Runners,
         \/ Start(r) \/ Stage(r) \/ CaptureFails(r) \/ CopyTree(r) \/ CopyFails(r)
         \/ VerifyCopy(r) \/ Rename(r) \/ WriteMarker(r) \/ SelectPruned(r)
         \/ RemovePart(r) \/ RemoveMarker(r) \/ DonePrune(r) \/ Crash(r)
  PROVE  \A q \in Runners \ {r} : run'[q] = run[q]
BY DEF TypeOK, Start, Stage, CaptureFails, CopyTree, CopyFails, VerifyCopy, Rename,
   WriteMarker, SelectPruned, RemovePart, RemoveMarker, DonePrune, Crash, Goto, Abandon

\* Every step of a run keeps what runs own.
LEMMA RunOwn ==
  ASSUME TypeOK, OwnInv, NEW r \in Runners,
         \/ Start(r) \/ Stage(r) \/ CaptureFails(r) \/ CopyTree(r) \/ CopyFails(r)
         \/ VerifyCopy(r) \/ Rename(r) \/ WriteMarker(r) \/ SelectPruned(r)
         \/ RemovePart(r) \/ RemoveMarker(r) \/ DonePrune(r) \/ Crash(r)
  PROVE  OwnInv'
<1>1. \A q \in Runners \ {r} : run'[q] = run[q]
  BY RunOthers
<1>2. run \in [Runners -> Run]
  BY DEF TypeOK
<1>3. CASE Start(r)
  <2>1. run'[r].id = clock /\ staging' = staging \cup {clock} /\ clock \notin staging
    BY <1>2, <1>3 DEF Start, BackupId
  <2>2. \A q \in Runners \ {r} : Active(q)' => Active(q) /\ run'[q].id = run[q].id
    BY <1>1 DEF Active
  <2> QED BY <2>1, <2>2 DEF OwnInv
<1>4. CASE Stage(r) \/ CopyTree(r)
  <2>1. Active(r) /\ run'[r].id = run[r].id /\ staging' = staging
    BY <1>4, RunPhase DEF Stage, CopyTree, At, Active
  <2> QED BY <1>1, <2>1, OwnStep
<1>5. CASE CaptureFails(r) \/ CopyFails(r)
  <2>1. ~ Active(r)' /\ Active(r) /\ staging' = staging \ {run[r].id}
    BY <1>2, <1>5 DEF CaptureFails, CopyFails, Abandon, At, Active, Idle
  <2> QED BY <1>1, <2>1, OwnStep
<1>6. CASE VerifyCopy(r) \/ Rename(r)
  <2>1. Active(r)
    BY <1>6 DEF VerifyCopy, Rename, At, Active
  <2>2. \/ (\E phase : run' = [run EXCEPT ![r].phase = phase]) /\ staging' = staging
        \/ run' = [run EXCEPT ![r] = Idle] /\ staging' = staging \ {run[r].id}
    BY <1>6 DEF VerifyCopy, Rename, Goto, Abandon
  <2>3. CASE (\E phase : run' = [run EXCEPT ![r].phase = phase]) /\ staging' = staging
    BY <1>1, <1>2, <2>1, <2>3, OwnStep
  <2>4. CASE run' = [run EXCEPT ![r] = Idle] /\ staging' = staging \ {run[r].id}
    <3>1. ~ Active(r)'
      BY <1>2, <2>4 DEF Active, Idle
    <3> QED BY <1>1, <2>1, <2>4, <3>1, OwnStep
  <2> QED BY <2>2, <2>3, <2>4
<1>7. CASE WriteMarker(r)
  <2>1. ~ Active(r)' /\ Active(r) /\ staging' = staging \ {run[r].id}
    BY <1>2, <1>7 DEF WriteMarker, Goto, At, Active
  <2> QED BY <1>1, <2>1, OwnStep
<1>8. CASE SelectPruned(r) \/ RemovePart(r) \/ RemoveMarker(r) \/ DonePrune(r) \/ Crash(r)
  <2>1. ~ Active(r)' /\ staging' = staging
    <3>1. CASE SelectPruned(r) \/ DonePrune(r) \/ Crash(r)
      BY <1>8, <3>1, RunPhase DEF SelectPruned, DonePrune, Crash, Active
    <3>2. CASE RemovePart(r) \/ RemoveMarker(r)
      BY <3>2 DEF RemovePart, RemoveMarker, At, Active
    <3> QED BY <1>8, <3>1, <3>2
  <2> QED BY <1>1, <2>1, OwnStep
<1> QED BY <1>3, <1>4, <1>5, <1>6, <1>7, <1>8

----------------------------------------------------------------------------
\* A copy that is written is of an id that no other run has verified.
LEMMA RunPath ==
  ASSUME Inv, NEW r \in Runners,
         \/ Start(r) \/ Stage(r) \/ CaptureFails(r) \/ CopyTree(r) \/ CopyFails(r)
         \/ VerifyCopy(r) \/ Rename(r) \/ WriteMarker(r) \/ SelectPruned(r)
         \/ RemovePart(r) \/ RemoveMarker(r) \/ DonePrune(r) \/ Crash(r)
  PROVE  PathInv'
<1> SUFFICES ASSUME NEW q \in Runners
             PROVE  /\ At(q, "verified")' => verify_sums(partial'[run'[q].id])
                    /\ At(q, "renamed")' /\ run'[q].id \notin condemned'
                         => verify_sums(final'[run'[q].id])
  BY DEF PathInv, verify_sums, At
<1>1. /\ run \in [Runners -> Run] /\ run[r].id \in Ids /\ run[q].id \in Ids
      /\ partial \in [Ids -> Dir] /\ final \in [Ids -> Dir]
      /\ q # r => run'[q] = run[q]
  BY RunAt, RunOthers DEF Inv, TypeOK
<1>2. /\ At(q, "verified") => verify_sums(partial[run[q].id])
      /\ At(q, "renamed") /\ run[q].id \notin condemned => verify_sums(final[run[q].id])
  BY DEF Inv, PathInv
<1>3. q # r /\ Active(q) /\ Active(r) => run[q].id # run[r].id
  BY DEF Inv, OwnInv
<1>4. CASE Start(r) \/ Stage(r) \/ CaptureFails(r) \/ WriteMarker(r) \/ DonePrune(r)
  <2>1. UNCHANGED <<partial, final, condemned>>
    BY <1>4 DEF Start, Stage, CaptureFails, WriteMarker, DonePrune, dirVars, restVars
  <2>2. ~ At(r, "verified")' /\ ~ At(r, "renamed")'
    BY <1>4, RunPhase DEF Stage, CaptureFails, WriteMarker, At, Inv
  <2> QED BY <1>1, <1>2, <2>1, <2>2 DEF At
<1>5. CASE CopyTree(r) \/ CopyFails(r) \/ Crash(r)
  <2>1. UNCHANGED <<final, condemned>> /\ ~ At(r, "verified")' /\ ~ At(r, "renamed")'
    <3>1. UNCHANGED <<final, condemned>>
      BY <1>5 DEF CopyTree, CopyFails, Crash, restVars
    <3> QED BY <1>5, <3>1, RunPhase DEF CopyTree, CopyFails, At, Inv
  <2>2. Active(r) \/ UNCHANGED partial
    BY <1>5 DEF CopyTree, CopyFails, Crash, At, Active
  <2>3. \A id \in Ids \ {run[r].id} : partial'[id] = partial[id]
    BY <1>1, <1>5 DEF CopyTree, CopyFails, Crash
  <2> QED BY <1>1, <1>2, <1>3, <2>1, <2>2, <2>3 DEF At, Active
<1>6. CASE VerifyCopy(r)
  <2>1. UNCHANGED <<final, condemned>> /\ Active(r) /\ ~ At(r, "renamed")'
    <3>1. UNCHANGED <<final, condemned>> /\ Active(r)
      BY <1>6 DEF VerifyCopy, At, Active, restVars
    <3> QED BY <1>6, <3>1, RunPhase DEF VerifyCopy, At, Inv
  <2>2. \A id \in Ids \ {run[r].id} : partial'[id] = partial[id]
    BY <1>1, <1>6 DEF VerifyCopy
  <2>3. At(r, "verified")' => verify_sums(partial'[run'[r].id])
    BY <1>6, RunPhase DEF VerifyCopy, CopyVerified, At, Inv
  <2> QED BY <1>1, <1>2, <1>3, <2>1, <2>2, <2>3 DEF At, Active
<1>7. CASE Rename(r)
  <2>1. UNCHANGED condemned /\ Active(r) /\ At(r, "verified") /\ ~ At(r, "verified")'
    <3>1. UNCHANGED condemned /\ Active(r) /\ At(r, "verified")
      BY <1>7 DEF Rename, At, Active, restVars
    <3>2. Goto(r, "renamed") \/ Abandon(r)
      BY <1>7 DEF Rename
    <3> QED BY <3>1, <3>2, RunPhase DEF At, Inv
  <2>2. \A id \in Ids \ {run[r].id} : partial'[id] = partial[id] /\ final'[id] = final[id]
    BY <1>1, <1>7 DEF Rename
  <2>3. At(r, "renamed")' => run'[r].id = run[r].id /\ final'[run[r].id] = partial[run[r].id]
    <3>1. CASE Abandon(r)
      BY <3>1, RunPhase DEF At, Inv
    <3>2. CASE Goto(r, "renamed") /\ final' = [final EXCEPT ![run[r].id] = partial[run[r].id]]
      BY <1>1, <3>2, RunPhase DEF Inv
    <3> QED BY <1>7, <3>1, <3>2 DEF Rename
  <2>4. verify_sums(partial[run[r].id])
    BY <2>1 DEF Inv, PathInv
  <2> QED BY <1>1, <1>2, <1>3, <2>1, <2>2, <2>3, <2>4 DEF At, Active
<1>8. CASE SelectPruned(r)
  <2>1. UNCHANGED <<partial, final>> /\ condemned \subseteq condemned'
    BY <1>8 DEF SelectPruned, dirVars
  <2>2. ~ At(r, "verified")' /\ ~ At(r, "renamed")'
    BY <1>1, <1>8 DEF SelectPruned, At
  <2> QED BY <1>1, <1>2, <2>1, <2>2 DEF At
<1>9. CASE RemovePart(r) \/ RemoveMarker(r)
  <2>1. UNCHANGED <<run, partial, condemned>>
    BY <1>9 DEF RemovePart, RemoveMarker, restVars
  <2>2. \A id \in Ids \ condemned : final'[id] = final[id]
    BY <1>1, <1>9 DEF RemovePart, RemoveMarker, Inv, PruneInv
  <2> QED BY <1>1, <1>2, <2>1, <2>2 DEF At
<1> QED BY <1>4, <1>5, <1>6, <1>7, <1>8, <1>9

\* Completed sets that no run has condemned are marked and whole, and stay so.
LEMMA RunPrune ==
  ASSUME Inv, NEW r \in Runners,
         \/ Start(r) \/ Stage(r) \/ CaptureFails(r) \/ CopyTree(r) \/ CopyFails(r)
         \/ VerifyCopy(r) \/ Rename(r) \/ WriteMarker(r) \/ SelectPruned(r)
         \/ RemovePart(r) \/ RemoveMarker(r) \/ DonePrune(r) \/ Crash(r)
  PROVE  PruneInv'
<1>1. /\ run \in [Runners -> Run] /\ run[r].id \in Ids /\ final \in [Ids -> Dir]
      /\ marker \subseteq Ids /\ completed \subseteq Ids
      /\ \A q \in Runners \ {r} : run'[q] = run[q]
  BY RunAt, RunOthers DEF Inv, TypeOK
<1>2. PruneInv
  BY DEF Inv
<1>3. CASE Start(r) \/ Stage(r) \/ CaptureFails(r) \/ CopyTree(r) \/ CopyFails(r)
           \/ VerifyCopy(r) \/ DonePrune(r) \/ Crash(r)
  <2>1. UNCHANGED <<final, marker, completed, condemned>>
    BY <1>3 DEF Start, Stage, CaptureFails, CopyTree, CopyFails, VerifyCopy, DonePrune,
       Crash, dirVars, restVars
  <2>2. run'[r].doomed \subseteq run[r].doomed
    BY <1>1, <1>3 DEF Start, Stage, CaptureFails, CopyTree, CopyFails, VerifyCopy,
       DonePrune, Crash, Goto, Abandon, Idle, Run
  <2> QED BY <1>1, <1>2, <2>1, <2>2 DEF PruneInv, Restorable
<1>4. CASE Rename(r)
  <2>1. UNCHANGED <<marker, completed, condemned>>
    BY <1>4 DEF Rename, restVars
  <2>2. run'[r].doomed \subseteq run[r].doomed
    BY <1>1, <1>4 DEF Rename, Goto, Abandon, Idle, Run
  <2>3. \A id \in marker : final'[id] = final[id]
    BY <1>1, <1>4 DEF Rename
  <2> QED BY <1>1, <1>2, <2>1, <2>2, <2>3 DEF PruneInv, Restorable
<1>5. CASE WriteMarker(r)
  <2> DEFINE id == run[r].id
  <2>1. /\ UNCHANGED <<final, condemned>>
        /\ marker' = marker \cup {id} /\ completed' = completed \cup {id}
    BY <1>5 DEF WriteMarker, restVars
  <2>2. run'[r].doomed = run[r].doomed
    BY <1>1, <1>5 DEF WriteMarker, Goto, Run
  <2>3. id \notin condemned => verify_sums(final[id])
    BY <1>5 DEF WriteMarker, Inv, PathInv
  <2>4. \A x \in completed : x \in select_retained(completed') => x \in select_retained(completed)
    <3>1. completed' \in SUBSET Ids /\ completed \in SUBSET completed'
      BY <1>1, <2>1
    <3> QED BY <3>1, RetainedAntiMonotone
  <2> HIDE DEF id
  <2>5. condemned' \cap select_retained(completed') = {}
    BY <1>2, <2>1, <2>4 DEF PruneInv
  <2>6. \A x \in completed' \ condemned' : Restorable(x)'
    BY <1>2, <2>1, <2>3 DEF PruneInv, Restorable
  <2> QED BY <1>1, <1>2, <2>1, <2>2, <2>5, <2>6 DEF PruneInv
<1>6. CASE SelectPruned(r)
  <2> DEFINE doomed == marker \ select_retained(marker)
  <2>1. /\ run' = [run EXCEPT ![r].phase = "pruning", ![r].doomed = doomed]
        /\ condemned' = condemned \cup doomed
        /\ UNCHANGED <<final, marker, completed>>
    BY <1>6 DEF SelectPruned, select_pruned, discover_completed_sets, dirVars
  <2>2. doomed \cap select_retained(completed) = {}
    <3>1. completed \in SUBSET Ids /\ marker \in SUBSET completed
      BY <1>1, <1>2 DEF PruneInv
    <3> QED BY <3>1, RetainedAntiMonotone
  <2>3. doomed \subseteq completed
    BY <1>2 DEF PruneInv
  <2> HIDE DEF doomed
  <2>4. run'[r].doomed = doomed
    BY <1>1, <2>1 DEF Run
  <2> QED BY <1>1, <1>2, <2>1, <2>2, <2>3, <2>4 DEF PruneInv, Restorable
<1>7. CASE RemovePart(r) \/ RemoveMarker(r)
  <2>1. UNCHANGED <<run, completed, condemned>>
    BY <1>7 DEF RemovePart, RemoveMarker, restVars
  <2>2. \A id \in Ids \ condemned : final'[id] = final[id]
    BY <1>1, <1>2, <1>7 DEF RemovePart, RemoveMarker, PruneInv
  <2>3. marker' \subseteq marker /\ marker \ condemned \subseteq marker'
    BY <1>1, <1>2, <1>7 DEF RemovePart, RemoveMarker, PruneInv
  <2> QED BY <1>1, <1>2, <2>1, <2>2, <2>3 DEF PruneInv, Restorable
<1> QED BY <1>3, <1>4, <1>5, <1>6, <1>7

\* A restore reads a set that passed its precheck: a file it misses was pruned.
LEMMA RestoreStepInv ==
  ASSUME Inv, \/ \E id \in Ids : Precheck(id)
              \/ RestoreGlobals \/ RestorePostgres
  PROVE  RestoreInv' /\ UNCHANGED <<run, staging, dirVars, condemned>>
<1>1. restore \in Restoring /\ PruneInv /\ RestoreInv
  BY DEF Inv, TypeOK
<1>2. CASE \E id \in Ids : Precheck(id)
  BY <1>1, <1>2 DEF Precheck, Restorable, PruneInv, RestoreInv, dirVars
<1>3. ASSUME NEW part \in Parts, NEW from \in {"checked", "globals"},
             NEW to \in {"globals", "done"}, RestoreStep(part, from, to)
      PROVE  RestoreInv' /\ UNCHANGED <<run, staging, dirVars, condemned>>
  <2>1. restore.id \in completed /\ restore'.id = restore.id
    BY <1>1, <1>3 DEF RestoreStep, RestoreInv, Restoring
  <2>2. restore'.phase = "failed" => final[restore.id][part] # "good"
    BY <1>1, <1>3 DEF RestoreStep, Restoring
  <2>3. restore'.phase = "failed" => restore.id \in condemned
    BY <1>1, <2>1, <2>2 DEF PruneInv, Restorable, verify_sums
  <2> QED BY <1>3, <2>1, <2>3 DEF RestoreStep, RestoreInv, dirVars
<1> QED BY <1>2, <1>3 DEF RestoreGlobals, RestorePostgres, Parts

\* Every step keeps the invariant.
LEMMA StepInv == ASSUME Inv, [Next]_vars PROVE Inv'
<1>1. TypeOK'
  BY StepTypeOK DEF Inv
<1>2. ASSUME UNCHANGED <<run, staging, dirVars, condemned>>
      PROVE  OwnInv' /\ PathInv' /\ PruneInv'
  BY <1>2 DEF Inv, dirVars, OwnInv, Active, PathInv, At, PruneInv, Restorable
<1>3. CASE UNCHANGED vars \/ Tick
  BY <1>1, <1>2, <1>3 DEF vars, Tick, Inv, RestoreInv, dirVars
<1>4. CASE (\E id \in Ids : Precheck(id)) \/ RestoreGlobals \/ RestorePostgres
  BY <1>1, <1>2, <1>4, RestoreStepInv DEF Inv
<1>5. ASSUME NEW r \in Runners,
             \/ Start(r) \/ Stage(r) \/ CaptureFails(r) \/ CopyTree(r) \/ CopyFails(r)
             \/ VerifyCopy(r) \/ Rename(r) \/ WriteMarker(r) \/ SelectPruned(r)
             \/ RemovePart(r) \/ RemoveMarker(r) \/ DonePrune(r) \/ Crash(r)
      PROVE  Inv'
  <2>1. OwnInv' /\ PathInv' /\ PruneInv'
    BY <1>5, RunOwn, RunPath, RunPrune DEF Inv
  <2>2. restore' = restore /\ completed \subseteq completed' /\ condemned \subseteq condemned'
    BY <1>5 DEF Start, Stage, CaptureFails, CopyTree, CopyFails, VerifyCopy, Rename,
       WriteMarker, SelectPruned, RemovePart, RemoveMarker, DonePrune, Crash, dirVars, restVars
  <2>3. RestoreInv'
    BY <2>2 DEF Inv, RestoreInv
  <2> QED BY <1>1, <2>1, <2>3 DEF Inv
<1> QED BY <1>3, <1>4, <1>5 DEF Next

\* A set the retention policy keeps, of all that were ever completed, is marked and
\* verifies: no overlap of runs, stale listing, crash or failed copy loses it
\* (_publish, _prune, select_retained).
THEOREM RetainedAlwaysRestorable == Spec => []RetainedIsRestorable
<1> QED BY InitInv, StepInv, InvImplies, PTL DEF Spec

\* COMPLETED stands over a whole set unless a run has begun to prune it (_publish).
THEOREM MarkedAlwaysWhole == Spec => []MarkedIsWhole
<1> QED BY InitInv, StepInv, InvImplies, PTL DEF Spec

\* A prechecked restore fails only on a set that a run pruned meanwhile, never on one
\* the policy keeps (run_restore, _prune).
THEOREM RestoreFailsOnlyByPrune == Spec => []RestoreFailsByPrune
<1> QED BY InitInv, StepInv, InvImplies, PTL DEF Spec
=============================================================================
