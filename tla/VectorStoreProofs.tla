------------------------- MODULE VectorStoreProofs -------------------------
(***************************************************************************)
(* Proofs about VectorStore: indexed content is searchable until a cleanup *)
(* finds something, cleanups spare what is indexed, rebuilds restore.      *)
(***************************************************************************)
EXTENDS VectorStore, TLAPS

\* The jobs' and the store's types, without the histories and bounds.
StoreType ==
  /\ structure \in [Entries -> Structures]
  /\ state \in [Entries -> {"discovered", "indexed", "missing"}]
  /\ version \in [Entries -> Ids \cup {None}]
  /\ object \in [Ids -> Structures \cup {None}]
  /\ drawn \in [Ids -> Structures \cup {None}]
  /\ chunks \subseteq Ids /\ points \subseteq Ids
  /\ job \in [Entries -> Job]
  /\ cleanup \in Cleaning

Publishing(e) == job[e].phase \in {"begun", "upserted"}

\* A job that publishes holds an id drawn for its structure; no two insert one structure,
\* nor is one inserted that there is.
DrawInv ==
  /\ \A e \in Entries :
       /\ Publishing(e) => job[e].id \in Ids /\ drawn[job[e].id] = structure[e]
       /\ job[e].isNew => Publishing(e) /\ ContentOf(structure[e]) = {}
       /\ job[e].phase = "upserted" => job[e].embeds
  /\ \A d, e \in Entries :
       job[d].isNew /\ job[e].isNew /\ structure[d] = structure[e] => d = e

\* Every structure has one object at most, drawn for it, and versions name the one of
\* their entry's structure.
ObjectInv ==
  /\ \A i \in Ids : object[i] # None => drawn[i] = object[i]
  /\ \A i, j \in Ids : object[i] # None /\ object[i] = object[j] => i = j
  /\ \A e \in Entries : version[e] # None => object[version[e]] = structure[e]

\* While a cleanup deletes, the objects it found are still there.
OrphanInv ==
  cleanup.phase = "deleting" =>
    /\ cleanup.left \subseteq cleanup.orphans
    /\ \A i \in cleanup.orphans : object[i] # None

\* What the running cleanup found is no version of an entry it has to spare.
SpareInv ==
  /\ stable \subseteq Entries
  /\ cleanup.phase = "deleting" => \A e \in stable : version[e] \notin cleanup.orphans

BaseInv == StoreType /\ DrawInv /\ ObjectInv /\ OrphanInv

\* As long as no cleanup has found anything: every object has points, and a job that
\* does not embed has found one.
UnspoiledInv ==
  ~ spoiled =>
    /\ cleanup.phase # "deleting"
    /\ \A i \in Ids : object[i] # None => i \in points
    /\ \A e \in Entries :
         /\ state[e] = "indexed" => Searchable(e)
         /\ job[e].phase = "decided" /\ ~ job[e].embeds => ContentOf(structure[e]) # {}
         /\ Publishing(e) /\ ~ job[e].embeds => job[e].id \in points
         /\ job[e].phase = "upserted" => job[e].id \in points

\* A rebuild on its way to the points.
Rebuilding(e) ==
  /\ job[e].phase # "none" /\ job[e].rebuild
  /\ job[e].phase \in Running => job[e].embeds
  /\ job[e].phase = "upserted" => job[e].id \in points

\* An entry with a rebuild has its points, or will have them when its job is done.
RebuildInv ==
  /\ rebuilt \subseteq Entries
  /\ \A e \in rebuilt :
       /\ state[e] = "indexed"
       /\ Searchable(e) \/ Rebuilding(e)
       /\ cleanup.phase = "deleting" => version[e] # None /\ version[e] \notin cleanup.orphans

Inv == BaseInv /\ SpareInv /\ losses \in Nat /\ UnspoiledInv /\ RebuildInv

-----------------------------------------------------------------------------
(***************************************************************************)
(* What the steps of one job do to its record.                             *)
(***************************************************************************)

\* An enqueued job is one, and publishes nothing.
LEMMA QueuedJob ==
  ASSUME NEW rebuild \in BOOLEAN
  PROVE  /\ Queued(rebuild) \in Job /\ Queued(rebuild).phase = "queued"
         /\ Queued(rebuild).rebuild = rebuild /\ ~ Queued(rebuild).isNew
         /\ NoJob \in Job /\ NoJob.phase = "none" /\ ~ NoJob.isNew
BY DEF Queued, NoJob, Job, Running

\* The record of one entry is written, the others are left alone.
LEMMA OneJobWritten ==
  ASSUME job \in [Entries -> Job], NEW e \in Entries, NEW j \in Job,
         job' = [job EXCEPT ![e] = j]
  PROVE  /\ job' \in [Entries -> Job] /\ job'[e] = j
         /\ \A d \in Entries \ {e} : job'[d] = job[d]
OBVIOUS

\* A decision.
LEMMA DecideJob ==
  ASSUME StoreType, NEW e \in Entries, Decide(e)
  PROVE  /\ job' \in [Entries -> Job]
         /\ job'[e].phase = "decided" /\ job'[e].embeds = Embeds(e)
         /\ job'[e].marks = (state[e] # "indexed")
         /\ job'[e].rebuild = job[e].rebuild /\ job'[e].isNew = job[e].isNew
         /\ job'[e].id = job[e].id
         /\ \A d \in Entries \ {e} : job'[d] = job[d]
<1>1. PICK embeds \in BOOLEAN, marks \in BOOLEAN :
        embeds = Embeds(e) /\ marks = (state[e] # "indexed")
  BY DEF Embeds, AlreadyIndexed, StoreType, Job
<1>2. job[e] \in Job
  BY DEF StoreType
<1> DEFINE j == [job[e] EXCEPT !.phase = "decided", !.embeds = embeds, !.marks = marks]
<1>3. /\ j \in Job /\ j.phase = "decided" /\ j.embeds = embeds /\ j.marks = marks
      /\ j.rebuild = job[e].rebuild /\ j.isNew = job[e].isNew /\ j.id = job[e].id
  BY <1>2 DEF Job, Running
<1>4. job' = [job EXCEPT ![e] = j]
  BY <1>1 DEF Decide, StoreType
<1> HIDE DEF j
<1> QED BY <1>1, <1>3, <1>4, OneJobWritten DEF StoreType

\* The content object is chosen, or an id drawn for a new one.
LEMMA BeginJob ==
  ASSUME StoreType, NEW e \in Entries, BeginPublish(e)
  PROVE  /\ job[e].phase = "decided" /\ job' \in [Entries -> Job]
         /\ job'[e].phase = "begun" /\ job'[e].id \in Ids
         /\ job'[e].embeds = job[e].embeds /\ job'[e].rebuild = job[e].rebuild
         /\ \A d \in Entries \ {e} : job'[d] = job[d]
         /\ \/ /\ job'[e].id \in ContentOf(structure[e]) /\ drawn' = drawn
               /\ job'[e].isNew = job[e].isNew
            \/ /\ ContentOf(structure[e]) = {} /\ ~ Inserting(structure[e])
               /\ drawn[job'[e].id] = None /\ job'[e].isNew
               /\ drawn' = [drawn EXCEPT ![job'[e].id] = structure[e]]
<1>1. job[e] \in Job /\ job[e].phase = "decided"
  <2>1. job[e].phase = "decided"
    BY Zenon DEF BeginPublish
  <2> QED BY <2>1 DEF StoreType
<1>2. ASSUME NEW i \in ContentOf(structure[e]), drawn' = drawn,
             job' = [job EXCEPT ![e].phase = "begun", ![e].id = i]
      PROVE  /\ i \in Ids /\ job' \in [Entries -> Job]
             /\ job'[e].phase = "begun" /\ job'[e].id = i /\ job'[e].isNew = job[e].isNew
             /\ job'[e].embeds = job[e].embeds /\ job'[e].rebuild = job[e].rebuild
             /\ \A d \in Entries \ {e} : job'[d] = job[d]
  <2> DEFINE j == [job[e] EXCEPT !.phase = "begun", !.id = i]
  <2>1. i \in Ids
    BY DEF ContentOf
  <2>2. /\ j \in Job /\ j.phase = "begun" /\ j.id = i /\ j.isNew = job[e].isNew
        /\ j.embeds = job[e].embeds /\ j.rebuild = job[e].rebuild
    BY <1>1, <2>1 DEF Job, Running
  <2>3. job' = [job EXCEPT ![e] = j]
    BY <1>2 DEF StoreType
  <2> HIDE DEF j
  <2> QED BY <2>1, <2>2, <2>3, OneJobWritten DEF StoreType
<1>3. ASSUME NEW i \in Ids,
             job' = [job EXCEPT ![e].phase = "begun", ![e].id = i, ![e].isNew = TRUE]
      PROVE  /\ job' \in [Entries -> Job]
             /\ job'[e].phase = "begun" /\ job'[e].id = i /\ job'[e].isNew = TRUE
             /\ job'[e].embeds = job[e].embeds /\ job'[e].rebuild = job[e].rebuild
             /\ \A d \in Entries \ {e} : job'[d] = job[d]
  <2> DEFINE j == [job[e] EXCEPT !.phase = "begun", !.id = i, !.isNew = TRUE]
  <2>1. /\ j \in Job /\ j.phase = "begun" /\ j.id = i /\ j.isNew = TRUE
        /\ j.embeds = job[e].embeds /\ j.rebuild = job[e].rebuild
    BY <1>1 DEF Job, Running
  <2>2. job' = [job EXCEPT ![e] = j]
    BY <1>3 DEF StoreType
  <2> HIDE DEF j
  <2> QED BY <2>1, <2>2, OneJobWritten DEF StoreType
<1>4. CASE \E i \in ContentOf(structure[e]) :
             job' = [job EXCEPT ![e].phase = "begun", ![e].id = i] /\ UNCHANGED drawn
  <2>1. PICK i \in ContentOf(structure[e]) :
          job' = [job EXCEPT ![e].phase = "begun", ![e].id = i] /\ drawn' = drawn
    BY <1>4, Zenon
  <2>2. /\ i \in Ids /\ job' \in [Entries -> Job]
        /\ job'[e].phase = "begun" /\ job'[e].id = i /\ job'[e].isNew = job[e].isNew
        /\ job'[e].embeds = job[e].embeds /\ job'[e].rebuild = job[e].rebuild
        /\ \A d \in Entries \ {e} : job'[d] = job[d]
    BY <1>2, <2>1, Zenon
  <2> QED BY <1>1, <2>1, <2>2, Zenon
<1>5. CASE /\ ContentOf(structure[e]) = {} /\ ~ Inserting(structure[e])
           /\ \E i \in Ids :
                /\ drawn[i] = None /\ drawn' = [drawn EXCEPT ![i] = structure[e]]
                /\ job' = [job EXCEPT ![e].phase = "begun", ![e].id = i, ![e].isNew = TRUE]
  <2>1. PICK i \in Ids :
          /\ drawn[i] = None /\ drawn' = [drawn EXCEPT ![i] = structure[e]]
          /\ job' = [job EXCEPT ![e].phase = "begun", ![e].id = i, ![e].isNew = TRUE]
    BY <1>5, Zenon
  <2>2. /\ job' \in [Entries -> Job]
        /\ job'[e].phase = "begun" /\ job'[e].id = i /\ job'[e].isNew = TRUE
        /\ job'[e].embeds = job[e].embeds /\ job'[e].rebuild = job[e].rebuild
        /\ \A d \in Entries \ {e} : job'[d] = job[d]
    BY <1>3, <2>1, Zenon
  <2> QED BY <1>1, <1>5, <2>1, <2>2, Zenon
<1>6. \/ \E i \in ContentOf(structure[e]) :
          job' = [job EXCEPT ![e].phase = "begun", ![e].id = i] /\ UNCHANGED drawn
      \/ /\ ContentOf(structure[e]) = {} /\ ~ Inserting(structure[e])
         /\ \E i \in Ids :
              /\ drawn[i] = None /\ drawn' = [drawn EXCEPT ![i] = structure[e]]
              /\ job' = [job EXCEPT ![e].phase = "begun", ![e].id = i, ![e].isNew = TRUE]
  BY Zenon DEF BeginPublish
<1> QED BY <1>4, <1>5, <1>6, Zenon

\* The points are written.
LEMMA UpsertJob ==
  ASSUME StoreType, NEW e \in Entries, Upsert(e)
  PROVE  /\ job' \in [Entries -> Job]
         /\ job[e].phase = "begun" /\ job[e].embeds /\ job'[e].phase = "upserted"
         /\ job'[e].embeds = job[e].embeds /\ job'[e].rebuild = job[e].rebuild
         /\ job'[e].isNew = job[e].isNew /\ job'[e].id = job[e].id
         /\ \A d \in Entries \ {e} : job'[d] = job[d]
<1>1. job[e] \in Job
  BY DEF StoreType
<1> DEFINE j == [job[e] EXCEPT !.phase = "upserted"]
<1>2. /\ j \in Job /\ j.phase = "upserted" /\ j.embeds = job[e].embeds
      /\ j.rebuild = job[e].rebuild /\ j.isNew = job[e].isNew /\ j.id = job[e].id
  BY <1>1 DEF Job, Running
<1>3. job' = [job EXCEPT ![e] = j]
  BY DEF Upsert, StoreType
<1> HIDE DEF j
<1> QED BY <1>2, <1>3, OneJobWritten DEF StoreType, Upsert

\* A job that starts over, or is done, publishes nothing.
LEMMA FreshJob ==
  ASSUME StoreType, NEW e \in Entries, Again(e) \/ job' = [job EXCEPT ![e] = NoJob]
  PROVE  /\ job' \in [Entries -> Job]
         /\ \/ job'[e].phase = "none"
            \/ job'[e].phase = "queued" /\ job'[e].rebuild = job[e].rebuild /\ Again(e)
         /\ ~ job'[e].isNew
         /\ \A d \in Entries \ {e} : job'[d] = job[d]
<1>1. job[e].rebuild \in BOOLEAN
  BY DEF StoreType, Job
<1>2. CASE Again(e)
  <2>1. job' = [job EXCEPT ![e] = Queued(job[e].rebuild)]
    BY <1>2 DEF Again
  <2> QED BY <1>1, <1>2, <2>1, QueuedJob, OneJobWritten DEF StoreType
<1>3. CASE job' = [job EXCEPT ![e] = NoJob]
  BY <1>3, QueuedJob, OneJobWritten DEF StoreType
<1> QED BY <1>2, <1>3

-----------------------------------------------------------------------------
(***************************************************************************)
(* Types.                                                                  *)
(***************************************************************************)

\* Enqueuing leaves an open job as it is.
LEMMA CoalescedJob ==
  ASSUME NEW j \in Job, NEW rebuild \in BOOLEAN
  PROVE  /\ Coalesce(j, rebuild) \in Job
         /\ j.phase = "none" => Coalesce(j, rebuild) = Queued(rebuild)
         /\ j.phase # "none" => Coalesce(j, rebuild) = j
BY QueuedJob DEF Coalesce

\* The cleanup's record keeps its type, and enqueuing one starts none.
LEMMA CleanupType ==
  ASSUME StoreType
  PROVE  /\ CoalesceCleanup \in Cleaning /\ NoCleanup \in Cleaning
         /\ [NoCleanup EXCEPT !.phase = "queued"] \in Cleaning
         /\ CoalesceCleanup = cleanup \/ CoalesceCleanup.phase = "queued"
         /\ NoCleanup.phase = "none" /\ [NoCleanup EXCEPT !.phase = "queued"].phase = "queued"
BY DEF StoreType, CoalesceCleanup, NoCleanup, Cleaning

\* A step that decides or begins writes the job, and an id drawn.
LEMMA JobUnchanged ==
  ASSUME NEW e \in Entries, Decide(e) \/ BeginPublish(e)
  PROVE  /\ UNCHANGED <<structure, state, version, object, chunks, points, cleanup, stable,
                        rebuilt, spoiled, losses>>
         /\ Decide(e) => UNCHANGED drawn
<1>1. CASE Decide(e)
  BY <1>1, Zenon DEF Decide, sqlVars, histVars, boundVars
<1>2. CASE BeginPublish(e)
  <2>1. UNCHANGED <<structure, sqlVars, points, cleanup, stable, rebuilt, spoiled, boundVars>>
    BY <1>2, Zenon DEF BeginPublish
  <2>2. Decide(e) => UNCHANGED drawn
    BY Zenon DEF Decide, histVars
  <2> QED BY <2>1, <2>2, Zenon DEF sqlVars, boundVars
<1> QED BY <1>1, <1>2

\* The files stay what they are.
LEMMA StructureFixed == ASSUME [Next]_vars PROVE structure' = structure
<1>1. ASSUME NEW e \in Entries, Decide(e) \/ BeginPublish(e) PROVE structure' = structure
  BY <1>1, JobUnchanged
<1>2. ASSUME NEW e \in Entries,
             \/ ScanMissing(e) \/ ScanRestored(e) \/ Vanished(e) \/ Conflict(e) \/ Upsert(e)
             \/ CommitPublish(e) \/ ForeignKeyFails(e) \/ Crash(e)
      PROVE  structure' = structure
  BY <1>2, Zenon DEF ScanMissing, ScanRestored, Vanished, Conflict, Upsert, CommitPublish,
     ForeignKeyFails, Crash
<1>3. CASE (\E rebuild \in BOOLEAN : Reindex(rebuild)) \/ RequestCleanup \/ Lose \/ CrashCleanup
  BY <1>3 DEF Reindex, RequestCleanup, Lose, CrashCleanup
<1>4. CASE Clean
  BY <1>4 DEF Clean, FindOrphans, DeletePoints, DeleteObjects
<1>5. CASE UNCHANGED vars
  BY <1>5 DEF vars
<1> QED BY <1>1, <1>2, <1>3, <1>4, <1>5 DEF Next, Publish

\* A job that may commit is one that publishes, to an id.
LEMMA ReadyPublishes ==
  ASSUME DrawInv, NEW e \in Entries, CommitPublish(e)
  PROVE  Publishing(e) /\ job[e].id \in Ids /\ drawn[job[e].id] = structure[e]
<1>1. Publishing(e)
  BY DEF CommitPublish, ReadyToCommit, Publishing
<1> QED BY <1>1 DEF DrawInv

\* Every step of a job keeps the types.
LEMMA JobType == ASSUME StoreType, DrawInv, NEW e \in Entries, Publish(e) \/ Crash(e) PROVE StoreType'
<1>1. CASE Decide(e)
  BY <1>1, DecideJob, JobUnchanged DEF StoreType
<1>2. CASE Vanished(e) \/ Conflict(e) \/ ForeignKeyFails(e) \/ Crash(e)
  <2>1. /\ UNCHANGED <<structure, state, version, object, chunks, points, drawn, cleanup>>
        /\ Again(e) \/ job' = [job EXCEPT ![e] = NoJob]
    BY <1>2, Zenon DEF Vanished, Conflict, ForeignKeyFails, Crash, sqlVars, histVars
  <2> QED BY <2>1, FreshJob DEF StoreType
<1>3. CASE BeginPublish(e)
  <2>1. UNCHANGED <<structure, state, version, object, chunks, points, cleanup>>
    BY <1>3, JobUnchanged
  <2>2. job' \in [Entries -> Job] /\ drawn' \in [Ids -> Structures \cup {None}]
    BY <1>3, BeginJob DEF StoreType
  <2> QED BY <2>1, <2>2 DEF StoreType
<1>4. CASE Upsert(e)
  <2>1. /\ UNCHANGED <<structure, state, version, object, chunks, drawn, cleanup>>
        /\ points' = points \cup {job[e].id} /\ job' \in [Entries -> Job]
    BY <1>4, UpsertJob DEF Upsert, sqlVars, histVars
  <2>2. job[e].id \in Ids
    BY <1>4, UpsertJob DEF DrawInv, Publishing
  <2> QED BY <2>1, <2>2 DEF StoreType
<1>5. CASE CommitPublish(e)
  <2>1. job[e].id \in Ids
    BY <1>5, ReadyPublishes
  <2>2. /\ UNCHANGED <<structure, points, drawn, cleanup>>
        /\ object' = [object EXCEPT ![job[e].id] = structure[e]]
        /\ chunks' = chunks \cup {job[e].id} \/ chunks' = chunks
        /\ version' = [version EXCEPT ![e] = job[e].id]
        /\ state' = [state EXCEPT ![e] = "indexed"] \/ state' = state
        /\ job' = [job EXCEPT ![e] = NoJob]
    BY <1>5, Zenon DEF CommitPublish
  <2>3. job' \in [Entries -> Job]
    BY <2>2, FreshJob
  <2> QED BY <2>1, <2>2, <2>3 DEF StoreType
<1> QED BY <1>1, <1>2, <1>3, <1>4, <1>5 DEF Publish

\* Every step keeps the types.
LEMMA TypeStep == ASSUME StoreType, DrawInv, [Next]_vars PROVE StoreType'
<1>1. ASSUME NEW e \in Entries, ScanMissing(e) PROVE StoreType'
  BY <1>1, CleanupType DEF ScanMissing, StoreType
<1>2. ASSUME NEW e \in Entries, ScanRestored(e) PROVE StoreType'
  <2>1. job[e] \in Job
    BY DEF StoreType
  <2>2. job' \in [Entries -> Job]
    BY <1>2, <2>1, CoalescedJob, OneJobWritten DEF ScanRestored, StoreType
  <2> QED BY <1>2, <2>2 DEF ScanRestored, StoreType, histVars
<1>3. ASSUME NEW rebuild \in BOOLEAN, Reindex(rebuild) PROVE StoreType'
  <2>1. \A e \in Entries : job[e] \in Job /\ Coalesce(job[e], rebuild) \in Job
    BY CoalescedJob DEF StoreType
  <2> QED BY <1>3, <2>1 DEF Reindex, StoreType, sqlVars
<1>4. CASE RequestCleanup \/ CrashCleanup
  BY <1>4, CleanupType DEF RequestCleanup, CrashCleanup, StoreType, sqlVars, histVars
<1>5. CASE Lose
  BY <1>5 DEF Lose, StoreType, sqlVars
<1>6. CASE FindOrphans
  <2>1. Orphans \subseteq Ids
    BY DEF Orphans
  <2>2. cleanup' \in Cleaning
    BY <1>6, <2>1, CleanupType DEF FindOrphans, Cleaning
  <2> QED BY <1>6, <2>2 DEF FindOrphans, StoreType, sqlVars
<1>7. ASSUME NEW i \in Ids, DeletePoints(i) PROVE StoreType'
  BY <1>7 DEF DeletePoints, StoreType, sqlVars, histVars, Cleaning
<1>8. CASE DeleteObjects
  BY <1>8, CleanupType DEF DeleteObjects, StoreType, histVars
<1>9. CASE UNCHANGED vars
  BY <1>9 DEF vars, sqlVars, histVars, StoreType
<1> QED BY <1>1, <1>2, <1>3, <1>4, <1>5, <1>6, <1>7, <1>8, <1>9, JobType DEF Next, Clean

-----------------------------------------------------------------------------
(***************************************************************************)
(* Ids, objects and versions.                                              *)
(***************************************************************************)

\* A step that leaves objects, versions and ids alone, and lets no job begin.
Quiet ==
  /\ UNCHANGED <<object, version, drawn>>
  /\ \A e \in Entries :
       \/ job'[e] = job[e]
       \/ ~ job'[e].isNew /\ job'[e].phase \notin {"begun", "upserted"}
       \/ /\ job[e].phase = "begun" /\ job[e].embeds /\ job'[e].phase = "upserted"
          /\ job'[e].embeds /\ job'[e].id = job[e].id /\ job'[e].isNew = job[e].isNew

\* All steps are quiet but three.
LEMMA QuietKinds ==
  ASSUME BaseInv, [Next]_vars
  PROVE  \/ (\E e \in Entries : BeginPublish(e) \/ CommitPublish(e)) \/ DeleteObjects
         \/ Quiet
<1>0. StoreType /\ DrawInv
  BY DEF BaseInv
<1>1. ASSUME NEW e \in Entries, Decide(e) PROVE Quiet
  <2>1. job[e].phase = "queued"
    BY <1>1, Zenon DEF Decide
  <2>2. ~ job[e].isNew
    BY <1>0, <2>1 DEF DrawInv, Publishing
  <2> QED BY <1>0, <1>1, <2>2, DecideJob, JobUnchanged DEF Quiet
<1>2. ASSUME NEW e \in Entries, Vanished(e) \/ Conflict(e) \/ ForeignKeyFails(e) \/ Crash(e)
      PROVE  Quiet
  <2>1. /\ UNCHANGED <<object, version, drawn>>
        /\ Again(e) \/ job' = [job EXCEPT ![e] = NoJob]
    BY <1>2, Zenon DEF Vanished, Conflict, ForeignKeyFails, Crash, sqlVars, histVars
  <2> QED BY <1>0, <2>1, FreshJob DEF Quiet
<1>3. ASSUME NEW e \in Entries, Upsert(e) PROVE Quiet
  <2>1. UNCHANGED <<object, version, drawn>>
    BY <1>3, Zenon DEF Upsert, sqlVars, histVars
  <2> QED BY <1>0, <1>3, <2>1, UpsertJob DEF Quiet
<1>4. ASSUME NEW e \in Entries, ScanRestored(e) PROVE Quiet
  <2>1. job[e] \in Job /\ UNCHANGED <<object, version, drawn>>
    BY <1>0, <1>4 DEF StoreType, ScanRestored, histVars
  <2>2. job' = [job EXCEPT ![e] = Coalesce(job[e], FALSE)]
    BY <1>4 DEF ScanRestored
  <2>3. /\ job'[e] = job[e] \/ job'[e] = Queued(FALSE)
        /\ \A d \in Entries \ {e} : job'[d] = job[d]
    BY <1>0, <2>1, <2>2, CoalescedJob, OneJobWritten DEF StoreType
  <2>4. ~ Queued(FALSE).isNew /\ Queued(FALSE).phase \notin {"begun", "upserted"}
    BY QueuedJob
  <2> QED BY <2>1, <2>3, <2>4 DEF Quiet
<1>5. ASSUME NEW rebuild \in BOOLEAN, Reindex(rebuild) PROVE Quiet
  <2>1. /\ UNCHANGED <<object, version, drawn>>
        /\ \A e \in Entries : job'[e] = job[e] \/ job'[e] = Coalesce(job[e], rebuild)
    BY <1>5 DEF Reindex, sqlVars
  <2>2. \A e \in Entries : job'[e] = job[e] \/ job'[e] = Queued(rebuild)
    BY <1>0, <2>1, CoalescedJob DEF StoreType
  <2>3. ~ Queued(rebuild).isNew /\ Queued(rebuild).phase \notin {"begun", "upserted"}
    BY QueuedJob
  <2> QED BY <2>1, <2>2, <2>3 DEF Quiet
<1>6. ASSUME NEW e \in Entries, ScanMissing(e) PROVE Quiet
  BY <1>6 DEF ScanMissing, Quiet
<1>7. CASE RequestCleanup \/ Lose \/ CrashCleanup
  BY <1>7 DEF RequestCleanup, Lose, CrashCleanup, Quiet, sqlVars, histVars
<1>8. CASE FindOrphans \/ \E i \in Ids : DeletePoints(i)
  BY <1>8 DEF FindOrphans, DeletePoints, Quiet, sqlVars, histVars
<1>9. CASE UNCHANGED vars
  BY <1>9 DEF vars, sqlVars, histVars, Quiet
<1> QED BY <1>1, <1>2, <1>3, <1>4, <1>5, <1>6, <1>7, <1>8, <1>9 DEF Next, Publish, Clean

\* Quiet steps keep ids and objects.
LEMMA QuietStep ==
  ASSUME DrawInv, ObjectInv, Quiet, structure' = structure
  PROVE  DrawInv' /\ ObjectInv'
<1>1. ObjectInv'
  BY DEF ObjectInv, Quiet
<1>2. \A e \in Entries :
        /\ Publishing(e)' => /\ Publishing(e) /\ job'[e].id = job[e].id
                             /\ job'[e].isNew = job[e].isNew
        /\ job'[e].isNew => job[e].isNew /\ Publishing(e)'
        /\ job'[e].phase = "upserted" => job'[e].embeds
  BY DEF Quiet, DrawInv, Publishing
<1>3. \A e \in Entries : ContentOf(structure[e])' = ContentOf(structure[e])
  BY DEF Quiet, ContentOf
<1> QED BY <1>1, <1>2, <1>3 DEF DrawInv, Quiet

\* Choosing an object or drawing an id keeps them.
LEMMA BeginStep ==
  ASSUME BaseInv, NEW e \in Entries, BeginPublish(e)
  PROVE  DrawInv' /\ ObjectInv'
<1>0. StoreType /\ DrawInv /\ ObjectInv
  BY DEF BaseInv
<1>1. UNCHANGED <<structure, version, object>>
  BY JobUnchanged
<1> DEFINE i == job'[e].id
<1>2. /\ job[e].phase = "decided" /\ ~ job[e].isNew
      /\ job'[e].phase = "begun" /\ i \in Ids
      /\ \A d \in Entries \ {e} : job'[d] = job[d]
      /\ \/ i \in ContentOf(structure[e]) /\ drawn' = drawn /\ ~ job'[e].isNew
         \/ /\ ContentOf(structure[e]) = {} /\ ~ Inserting(structure[e])
            /\ drawn[i] = None /\ drawn' = [drawn EXCEPT ![i] = structure[e]]
  BY <1>0, BeginJob DEF DrawInv, Publishing
<1> HIDE DEF i
<1>3. \A d \in Entries : structure[d] # None /\ structure[d] \in Structures
  BY <1>0, VectorStoreAssumption DEF StoreType, VectorStoreAssumption
<1>4. /\ drawn'[i] = structure[e]
      /\ \A j \in Ids : drawn[j] # None => drawn'[j] = drawn[j]
  BY <1>0, <1>2, <1>3 DEF StoreType, ObjectInv, ContentOf
<1>5. ObjectInv'
  BY <1>0, <1>1, <1>4 DEF ObjectInv
<1>6. \A d \in Entries : ContentOf(structure[d])' = ContentOf(structure[d])
  BY <1>1 DEF ContentOf
<1>7. \A d \in Entries \ {e} : job[d].isNew => structure[d] # structure[e] \/ ~ job'[e].isNew
  BY <1>0, <1>2 DEF Inserting, DrawInv, Publishing
<1>8. ASSUME NEW d \in Entries
      PROVE  /\ Publishing(d)' => job'[d].id \in Ids /\ drawn'[job'[d].id] = structure'[d]
             /\ job'[d].isNew => Publishing(d)' /\ ContentOf(structure[d])' = {}
             /\ job'[d].phase = "upserted" => job'[d].embeds
  <2>1. CASE d = e
    BY <1>1, <1>2, <1>4, <1>6, <2>1 DEF Publishing, i
  <2>2. CASE d # e
    BY <1>0, <1>1, <1>2, <1>3, <1>4, <1>6, <2>2 DEF Publishing, DrawInv
  <2> QED BY <2>1, <2>2
<1>9. \A c, d \in Entries :
        job'[c].isNew /\ job'[d].isNew /\ structure'[c] = structure'[d] => c = d
  BY <1>0, <1>1, <1>2, <1>7 DEF DrawInv
<1> QED BY <1>1, <1>5, <1>8, <1>9 DEF DrawInv

\* What a commit does to the object its job holds: it is the one there was, or a new one
\* of a structure that had none.
LEMMA CommitObject ==
  ASSUME BaseInv, NEW e \in Entries, CommitPublish(e)
  PROVE  /\ job[e].id \in Ids /\ job[e].id # None /\ structure[e] # None
         /\ drawn[job[e].id] = structure[e]
         /\ object'[job[e].id] = structure[e]
         /\ \A j \in Ids \ {job[e].id} : object'[j] = object[j]
         /\ version'[e] = job[e].id /\ \A d \in Entries \ {e} : version'[d] = version[d]
         /\ \/ ~ job[e].isNew /\ object[job[e].id] = structure[e] /\ object' = object
            \/ /\ job[e].isNew /\ ContentOf(structure[e]) = {}
               /\ object[job[e].id] = None
<1>0. StoreType /\ DrawInv /\ ObjectInv
  BY DEF BaseInv
<1>1. Publishing(e) /\ job[e].id \in Ids /\ drawn[job[e].id] = structure[e]
  BY <1>0, ReadyPublishes
<1>2. /\ object' = [object EXCEPT ![job[e].id] = structure[e]]
      /\ version' = [version EXCEPT ![e] = job[e].id]
      /\ job[e].isNew \/ object[job[e].id] # None
  BY Zenon DEF CommitPublish
<1>3. job[e].id # None /\ structure[e] # None
  BY <1>0, <1>1, VectorStoreAssumption DEF StoreType, VectorStoreAssumption
<1>4. object[job[e].id] # None => object[job[e].id] = structure[e]
  BY <1>0, <1>1 DEF ObjectInv
<1>5. job[e].isNew => ContentOf(structure[e]) = {} /\ object[job[e].id] = None
  BY <1>0, <1>1, <1>4 DEF DrawInv, ContentOf
<1>6. /\ object'[job[e].id] = structure[e]
      /\ \A j \in Ids \ {job[e].id} : object'[j] = object[j]
      /\ version'[e] = job[e].id /\ \A d \in Entries \ {e} : version'[d] = version[d]
      /\ object[job[e].id] = structure[e] => object' = object
  BY <1>0, <1>1, <1>2 DEF StoreType
<1>7. job[e].isNew \in BOOLEAN
  BY <1>0 DEF StoreType, Job
<1> QED BY <1>1, <1>2, <1>3, <1>4, <1>5, <1>6, <1>7

\* A commit keeps them.
LEMMA CommitStep ==
  ASSUME BaseInv, NEW e \in Entries, CommitPublish(e)
  PROVE  DrawInv' /\ ObjectInv'
<1>0. StoreType /\ DrawInv /\ ObjectInv
  BY DEF BaseInv
<1>1. /\ structure' = structure /\ drawn' = drawn /\ job' = [job EXCEPT ![e] = NoJob]
  BY Zenon DEF CommitPublish
<1>2. /\ job'[e].phase = "none" /\ ~ job'[e].isNew
      /\ \A d \in Entries \ {e} : job'[d] = job[d]
  BY <1>0, <1>1, QueuedJob, OneJobWritten DEF StoreType
<1> DEFINE i == job[e].id
<1>3. /\ i \in Ids /\ i # None /\ structure[e] # None /\ drawn[i] = structure[e]
      /\ object'[i] = structure[e] /\ \A j \in Ids \ {i} : object'[j] = object[j]
      /\ version'[e] = i /\ \A d \in Entries \ {e} : version'[d] = version[d]
      /\ \/ ~ job[e].isNew /\ object[i] = structure[e] /\ object' = object
         \/ job[e].isNew /\ ContentOf(structure[e]) = {} /\ object[i] = None
  BY CommitObject
<1> HIDE DEF i
<1>4. \A j \in Ids : object'[j] # None => drawn'[j] = object'[j]
  BY <1>0, <1>1, <1>3 DEF ObjectInv
<1>5. ASSUME NEW j \in Ids, NEW k \in Ids, object'[j] # None, object'[j] = object'[k]
      PROVE  j = k
  BY <1>0, <1>3, <1>5 DEF ObjectInv, ContentOf
<1>6. ASSUME NEW d \in Entries, version'[d] # None
      PROVE  object'[version'[d]] = structure'[d]
  <2>1. CASE d = e
    BY <1>1, <1>3, <2>1
  <2>2. CASE d # e
    <3>1. version[d] \in Ids /\ version[d] # None /\ version'[d] = version[d]
      BY <1>0, <1>3, <1>6, <2>2 DEF StoreType
    <3>2. object[version[d]] = structure[d]
      BY <1>0, <3>1 DEF ObjectInv
    <3>3. structure[d] # None
      BY <1>0, VectorStoreAssumption DEF StoreType, VectorStoreAssumption
    <3> QED BY <1>1, <1>3, <3>1, <3>2, <3>3
  <2> QED BY <2>1, <2>2
<1>7. ASSUME NEW d \in Entries, job'[d].isNew PROVE ContentOf(structure[d])' = {}
  <2>1. d # e /\ job[d].isNew /\ ContentOf(structure[d]) = {}
    BY <1>0, <1>2, <1>7 DEF DrawInv
  <2>2. job[e].isNew => structure[d] # structure[e]
    BY <1>0, <2>1 DEF DrawInv
  <2> QED BY <1>1, <1>3, <2>1, <2>2 DEF ContentOf
<1>8. \A d \in Entries :
        /\ Publishing(d)' => job'[d].id \in Ids /\ drawn'[job'[d].id] = structure'[d]
        /\ job'[d].isNew => Publishing(d)'
        /\ job'[d].phase = "upserted" => job'[d].embeds
  BY <1>0, <1>1, <1>2 DEF DrawInv, Publishing
<1>9. \A c, d \in Entries :
        job'[c].isNew /\ job'[d].isNew /\ structure'[c] = structure'[d] => c = d
  BY <1>0, <1>1, <1>2 DEF DrawInv
<1> QED BY <1>1, <1>4, <1>5, <1>6, <1>7, <1>8, <1>9 DEF DrawInv, ObjectInv

\* A cleanup's delete keeps them: versions lose their object with it.
LEMMA DeleteStep == ASSUME BaseInv, DeleteObjects PROVE DrawInv' /\ ObjectInv'
<1>0. StoreType /\ DrawInv /\ ObjectInv
  BY DEF BaseInv
<1>1. /\ UNCHANGED <<structure, drawn, job>>
      /\ \A i \in Ids : object'[i] = IF i \in cleanup.orphans THEN None ELSE object[i]
      /\ \A e \in Entries :
           version'[e] = IF version[e] \in cleanup.orphans THEN None ELSE version[e]
  BY DEF DeleteObjects, histVars
<1>2. \A i \in Ids : object'[i] # None => object'[i] = object[i] /\ i \notin cleanup.orphans
  BY <1>1
<1>3. \A e \in Entries : version'[e] # None =>
        version'[e] = version[e] /\ version[e] \in Ids /\ version[e] \notin cleanup.orphans
  BY <1>0, <1>1 DEF StoreType
<1>4. ObjectInv'
  BY <1>0, <1>1, <1>2, <1>3 DEF ObjectInv
<1>5. \A e \in Entries : ContentOf(structure[e]) = {} => ContentOf(structure[e])' = {}
  <2>1. \A e \in Entries : structure[e] # None
    BY <1>0, VectorStoreAssumption DEF StoreType, VectorStoreAssumption
  <2> QED BY <1>1, <1>2, <2>1 DEF ContentOf
<1>6. DrawInv'
  BY <1>0, <1>1, <1>5 DEF DrawInv, Publishing
<1> QED BY <1>4, <1>6

\* Which steps write objects, points or the cleanup's record.
LEMMA CleanupKinds ==
  ASSUME [Next]_vars
  PROVE  \/ (\E e \in Entries : CommitPublish(e)) \/ (\E e \in Entries : Upsert(e))
         \/ (\E i \in Ids : DeletePoints(i)) \/ FindOrphans \/ DeleteObjects \/ CrashCleanup \/ Lose
         \/ /\ UNCHANGED <<object, points>>
            /\ cleanup' = cleanup \/ cleanup' = CoalesceCleanup
<1>1. ASSUME NEW e \in Entries, Decide(e) \/ BeginPublish(e)
      PROVE  UNCHANGED <<object, points, cleanup>>
  BY <1>1, JobUnchanged
<1>2. ASSUME NEW e \in Entries,
             Vanished(e) \/ Conflict(e) \/ ForeignKeyFails(e) \/ Crash(e) \/ ScanRestored(e)
      PROVE  UNCHANGED <<object, points, cleanup>>
  BY <1>2, Zenon DEF Vanished, Conflict, ForeignKeyFails, Crash, ScanRestored, sqlVars
<1>3. ASSUME NEW e \in Entries, ScanMissing(e)
      PROVE  UNCHANGED <<object, points>> /\ cleanup' = CoalesceCleanup
  BY <1>3 DEF ScanMissing
<1>4. ASSUME NEW rebuild \in BOOLEAN, Reindex(rebuild)
      PROVE  UNCHANGED <<object, points, cleanup>>
  BY <1>4 DEF Reindex, sqlVars
<1>5. CASE RequestCleanup
  BY <1>5 DEF RequestCleanup, sqlVars
<1>6. CASE UNCHANGED vars
  BY <1>6 DEF vars, sqlVars
<1> QED BY <1>1, <1>2, <1>3, <1>4, <1>5, <1>6 DEF Next, Publish, Clean

\* Every step keeps what a running cleanup found in the store, until it deletes it.
LEMMA OrphanStep == ASSUME BaseInv, [Next]_vars PROVE OrphanInv'
<1>0. StoreType /\ OrphanInv /\ cleanup.orphans \subseteq Ids
  BY DEF BaseInv, StoreType, Cleaning
<1>1. ASSUME NEW e \in Entries, CommitPublish(e) PROVE OrphanInv'
  <2>1. cleanup' = cleanup
    BY <1>1, Zenon DEF CommitPublish
  <2>2. \A i \in Ids : object[i] # None => object'[i] # None
    BY <1>1, CommitObject
  <2> QED BY <1>0, <2>1, <2>2 DEF OrphanInv
<1>2. ASSUME NEW i \in Ids, DeletePoints(i) PROVE OrphanInv'
  <2>1. /\ object' = object /\ cleanup'.phase = cleanup.phase
        /\ cleanup'.left \subseteq cleanup.left /\ cleanup'.orphans = cleanup.orphans
    BY <1>0, <1>2 DEF DeletePoints, sqlVars, StoreType, Cleaning
  <2> QED BY <1>0, <2>1 DEF OrphanInv
<1>3. CASE FindOrphans
  <2>1. /\ object' = object
        /\ cleanup' = NoCleanup
           \/ cleanup' = [phase |-> "deleting", orphans |-> Orphans, left |-> Orphans]
    BY <1>3 DEF FindOrphans, sqlVars
  <2> QED BY <1>0, <2>1, CleanupType DEF OrphanInv, Orphans
<1>4. CASE DeleteObjects \/ CrashCleanup
  <2>1. cleanup'.phase # "deleting"
    BY <1>0, <1>4, CleanupType DEF DeleteObjects, CrashCleanup
  <2> QED BY <2>1 DEF OrphanInv
<1>5. CASE object' = object /\ (cleanup' = cleanup \/ cleanup' = CoalesceCleanup)
  BY <1>0, <1>5, CleanupType DEF OrphanInv
<1>6. CASE (\E e \in Entries : Upsert(e)) \/ Lose
  BY <1>5, <1>6, Zenon DEF Upsert, Lose, sqlVars
<1> QED BY <1>1, <1>2, <1>3, <1>4, <1>5, <1>6, CleanupKinds

\* Every step keeps types, ids, objects and what a cleanup found.
LEMMA BaseStep == ASSUME BaseInv, [Next]_vars PROVE BaseInv'
<1>1. StoreType' /\ OrphanInv' /\ structure' = structure
  BY TypeStep, OrphanStep, StructureFixed DEF BaseInv
<1>2. DrawInv' /\ ObjectInv'
  BY <1>1, QuietKinds, QuietStep, BeginStep, CommitStep, DeleteStep DEF BaseInv
<1> QED BY <1>1, <1>2 DEF BaseInv

-----------------------------------------------------------------------------
(***************************************************************************)
(* Cleanups spare what is indexed.                                         *)
(***************************************************************************)

\* A step that writes no version, point or object, makes no entry indexed, and may
\* enqueue, end or restart jobs.
Calm ==
  /\ UNCHANGED <<version, object, points, stable, spoiled>>
  /\ cleanup' = cleanup \/ cleanup' = CoalesceCleanup
  /\ \A e \in Entries :
       /\ state'[e] = "indexed" => state[e] = "indexed"
       /\ job'[e] = job[e] \/ job'[e].phase \in {"none", "queued"}

\* Each step is calm, or one of these.
LEMMA CalmKinds ==
  ASSUME BaseInv, [Next]_vars
  PROVE  \/ \E e \in Entries :
              Decide(e) \/ BeginPublish(e) \/ Upsert(e) \/ CommitPublish(e) \/ ScanMissing(e)
         \/ \E i \in Ids : DeletePoints(i)
         \/ FindOrphans \/ DeleteObjects \/ CrashCleanup \/ Lose \/ Calm
<1>0. StoreType
  BY DEF BaseInv
<1>1. ASSUME NEW e \in Entries, Vanished(e) \/ Conflict(e) \/ ForeignKeyFails(e) \/ Crash(e)
      PROVE  Calm
  <2>1. /\ UNCHANGED <<version, object, points, stable, spoiled, state, cleanup>>
        /\ Again(e) \/ job' = [job EXCEPT ![e] = NoJob]
    BY <1>1, Zenon DEF Vanished, Conflict, ForeignKeyFails, Crash, sqlVars, histVars
  <2> QED BY <1>0, <2>1, FreshJob DEF Calm
<1>2. ASSUME NEW e \in Entries, ScanRestored(e) PROVE Calm
  <2>1. /\ UNCHANGED <<version, object, points, stable, spoiled, cleanup>>
        /\ state' = [state EXCEPT ![e] = "discovered"]
        /\ job' = [job EXCEPT ![e] = Coalesce(job[e], FALSE)]
    BY <1>2 DEF ScanRestored, histVars
  <2>2. job[e] \in Job
    BY <1>0 DEF StoreType
  <2>3. /\ job'[e] = job[e] \/ job'[e].phase = "queued"
        /\ \A d \in Entries \ {e} : job'[d] = job[d]
    BY <1>0, <2>1, <2>2, CoalescedJob, QueuedJob, OneJobWritten DEF StoreType
  <2>4. \A d \in Entries : state'[d] = "indexed" => state[d] = "indexed"
    BY <1>0, <2>1 DEF StoreType
  <2> QED BY <2>1, <2>3, <2>4 DEF Calm
<1>3. ASSUME NEW rebuild \in BOOLEAN, Reindex(rebuild) PROVE Calm
  <2>1. /\ UNCHANGED <<version, object, points, stable, spoiled, state, cleanup>>
        /\ \A e \in Entries : job'[e] = job[e] \/ job'[e] = Coalesce(job[e], rebuild)
    BY <1>3 DEF Reindex, sqlVars
  <2>2. \A e \in Entries : job'[e] = job[e] \/ job'[e].phase = "queued"
    BY <1>0, <2>1, CoalescedJob, QueuedJob DEF StoreType
  <2> QED BY <2>1, <2>2 DEF Calm
<1>4. CASE RequestCleanup
  BY <1>4 DEF RequestCleanup, Calm, sqlVars, histVars
<1>5. CASE UNCHANGED vars
  BY <1>5 DEF vars, sqlVars, histVars, Calm
<1> QED BY <1>1, <1>2, <1>3, <1>4, <1>5 DEF Next, Publish, Clean

\* What a calm step leaves of the cleanup.
LEMMA CalmCleanup ==
  ASSUME StoreType, cleanup' = cleanup \/ cleanup' = CoalesceCleanup, cleanup'.phase = "deleting"
  PROVE  cleanup' = cleanup
BY CleanupType

\* Every step keeps the cleanup clear of what it has to spare.
LEMMA SpareStep == ASSUME BaseInv, SpareInv, [Next]_vars PROVE SpareInv'
<1>0. StoreType /\ stable \subseteq Entries
  BY DEF BaseInv, SpareInv
<1>1. CASE /\ version' = version /\ stable' \subseteq stable
           /\ cleanup'.phase = "deleting" =>
                cleanup.phase = "deleting" /\ cleanup'.orphans = cleanup.orphans
  BY <1>1 DEF SpareInv
<1>2. ASSUME NEW e \in Entries, CommitPublish(e) PROVE SpareInv'
  <2>1. cleanup' = cleanup /\ stable' = stable \ {e}
    BY <1>2, Zenon DEF CommitPublish
  <2>2. \A d \in Entries \ {e} : version'[d] = version[d]
    BY <1>2, CommitObject
  <2> QED BY <1>0, <2>1, <2>2 DEF SpareInv
<1>3. CASE FindOrphans
  <2>1. /\ version' = version /\ stable' = {e \in Entries : state[e] = "indexed"}
        /\ cleanup' = NoCleanup
           \/ cleanup' = [phase |-> "deleting", orphans |-> Orphans, left |-> Orphans]
    BY <1>3 DEF FindOrphans, sqlVars
  <2> QED BY <1>0, <2>1, CleanupType DEF SpareInv, Orphans
<1>4. CASE DeleteObjects \/ CrashCleanup
  <2>1. cleanup'.phase # "deleting" /\ stable' = stable
    BY <1>0, <1>4, CleanupType DEF DeleteObjects, CrashCleanup, histVars
  <2> QED BY <1>0, <2>1 DEF SpareInv
<1>5. ASSUME NEW e \in Entries, Decide(e) \/ BeginPublish(e) PROVE SpareInv'
  BY <1>1, <1>5, JobUnchanged
<1>6. ASSUME NEW e \in Entries, Upsert(e) PROVE SpareInv'
  <2>1. UNCHANGED <<version, stable, cleanup>>
    BY <1>6, Zenon DEF Upsert, sqlVars, histVars
  <2> QED BY <1>1, <2>1
<1>7. ASSUME NEW e \in Entries, ScanMissing(e) PROVE SpareInv'
  BY <1>0, <1>1, <1>7, CalmCleanup DEF ScanMissing
<1>8. CASE Lose \/ \E i \in Ids : DeletePoints(i)
  BY <1>0, <1>1, <1>8 DEF Lose, DeletePoints, sqlVars, histVars, StoreType, Cleaning
<1>9. CASE Calm
  BY <1>0, <1>1, <1>9, CalmCleanup DEF Calm
<1> QED BY <1>2, <1>3, <1>4, <1>5, <1>6, <1>7, <1>8, <1>9, CalmKinds

\* A commit publishes to the object its entry's version names, if that is there.
LEMMA CommitSame ==
  ASSUME BaseInv, NEW e \in Entries, CommitPublish(e), version[e] # None
  PROVE  version'[e] = version[e]
<1>1. version[e] \in Ids /\ object[version[e]] = structure[e]
  BY DEF BaseInv, StoreType, ObjectInv
<1> QED BY <1>1, CommitObject DEF BaseInv, ObjectInv, ContentOf

\* Losses are counted.
LEMMA LossStep == ASSUME losses \in Nat, [Next]_vars PROVE losses' \in Nat
<1>1. ASSUME NEW e \in Entries, Decide(e) \/ BeginPublish(e) PROVE losses' = losses
  BY <1>1, JobUnchanged
<1>2. ASSUME NEW e \in Entries,
             \/ Vanished(e) \/ Conflict(e) \/ Upsert(e) \/ CommitPublish(e) \/ ForeignKeyFails(e)
             \/ Crash(e) \/ ScanMissing(e) \/ ScanRestored(e)
      PROVE  losses' = losses
  BY <1>2, Zenon DEF Vanished, Conflict, Upsert, CommitPublish, ForeignKeyFails, Crash, ScanMissing,
     ScanRestored, boundVars
<1>3. CASE \/ (\E rebuild \in BOOLEAN : Reindex(rebuild)) \/ RequestCleanup \/ Clean \/ CrashCleanup
           \/ UNCHANGED vars
  BY <1>3 DEF Reindex, RequestCleanup, Clean, FindOrphans, DeletePoints, DeleteObjects, CrashCleanup,
     vars, boundVars
<1>4. CASE Lose
  BY <1>4 DEF Lose
<1> QED BY <1>1, <1>2, <1>3, <1>4 DEF Next, Publish

\* A step that is no loss of Qdrant takes no points from an entry a cleanup spares.
LEMMA StepSpares ==
  ASSUME BaseInv, SpareInv, losses \in Nat, [Next]_vars, NEW e \in stable, Searchable(e),
         losses' = losses
  PROVE  Searchable(e)'
<1>0. StoreType /\ e \in Entries /\ OrphanInv
  BY DEF BaseInv, SpareInv
<1>1. ASSUME NEW d \in Entries, CommitPublish(d) PROVE Searchable(e)'
  <2>1. points' = points
    BY <1>1, Zenon DEF CommitPublish
  <2>2. version'[e] = version[e]
    BY <1>0, <1>1, CommitObject, CommitSame DEF Searchable
  <2> QED BY <2>1, <2>2 DEF Searchable
<1>2. ASSUME NEW d \in Entries, Upsert(d) PROVE Searchable(e)'
  <2>1. version' = version /\ points' = points \cup {job[d].id}
    BY <1>2, Zenon DEF Upsert, sqlVars
  <2> QED BY <2>1 DEF Searchable
<1>3. ASSUME NEW i \in Ids, DeletePoints(i) PROVE Searchable(e)'
  <2>1. version' = version /\ points' = points \ {i} /\ i \in cleanup.orphans
        /\ cleanup.phase = "deleting"
    BY <1>0, <1>3 DEF DeletePoints, sqlVars, OrphanInv
  <2> QED BY <2>1 DEF Searchable, SpareInv
<1>4. CASE DeleteObjects
  <2>1. /\ points' = points /\ cleanup.phase = "deleting"
        /\ version'[e] = IF version[e] \in cleanup.orphans THEN None ELSE version[e]
    BY <1>0, <1>4 DEF DeleteObjects
  <2> QED BY <2>1 DEF Searchable, SpareInv
<1>5. ASSUME NEW d \in Entries, Decide(d) \/ BeginPublish(d) PROVE Searchable(e)'
  BY <1>5, JobUnchanged DEF Searchable
<1>6. ~ Lose
  BY DEF Lose
<1>7. CASE FindOrphans \/ CrashCleanup \/ Calm \/ \E d \in Entries : ScanMissing(d)
  BY <1>7 DEF FindOrphans, CrashCleanup, Calm, ScanMissing, sqlVars, Searchable
<1> QED BY <1>1, <1>2, <1>3, <1>4, <1>5, <1>6, <1>7, CalmKinds

-----------------------------------------------------------------------------
(***************************************************************************)
(* Indexed means searchable, until a cleanup has found something.          *)
(***************************************************************************)

\* Every step keeps it.
LEMMA UnspoiledStep == ASSUME BaseInv, UnspoiledInv, [Next]_vars PROVE UnspoiledInv'
<1> SUFFICES ASSUME ~ spoiled' PROVE UnspoiledInv'
  BY DEF UnspoiledInv
<1>0. StoreType /\ DrawInv /\ structure' = structure
  BY StructureFixed DEF BaseInv
<1>1. ~ spoiled
  <2>1. ASSUME NEW e \in Entries, CommitPublish(e) \/ Upsert(e) \/ ScanMissing(e)
        PROVE  spoiled' = spoiled
    BY <2>1, Zenon DEF CommitPublish, Upsert, ScanMissing, histVars
  <2>2. CASE FindOrphans \/ DeleteObjects \/ CrashCleanup \/ Lose \/ \E i \in Ids : DeletePoints(i)
    BY <2>2 DEF FindOrphans, DeleteObjects, CrashCleanup, Lose, DeletePoints, histVars
  <2> QED BY <2>1, <2>2, JobUnchanged, CalmKinds DEF Calm
<1>2. /\ cleanup.phase # "deleting"
      /\ \A i \in Ids : object[i] # None => i \in points
      /\ \A e \in Entries :
           /\ state[e] = "indexed" => Searchable(e)
           /\ job[e].phase = "decided" /\ ~ job[e].embeds => ContentOf(structure[e]) # {}
           /\ Publishing(e) /\ ~ job[e].embeds => job[e].id \in points
           /\ job[e].phase = "upserted" => job[e].id \in points
  BY <1>1 DEF UnspoiledInv
<1>3. ASSUME NEW e \in Entries, CommitPublish(e) PROVE UnspoiledInv'
  <2>1. /\ points' = points /\ cleanup' = cleanup /\ job' = [job EXCEPT ![e] = NoJob]
        /\ state' = [state EXCEPT ![e] = "indexed"] \/ state' = state
    BY <1>3, Zenon DEF CommitPublish
  <2>2. job'[e].phase = "none" /\ \A d \in Entries \ {e} : job'[d] = job[d]
    BY <1>0, <2>1, QueuedJob, OneJobWritten DEF StoreType
  <2> DEFINE i == job[e].id
  <2>3. /\ i \in Ids /\ i # None /\ object'[i] = structure[e] /\ structure[e] # None
        /\ \A j \in Ids \ {i} : object'[j] = object[j]
        /\ version'[e] = i /\ \A d \in Entries \ {e} : version'[d] = version[d]
        /\ object[i] = None \/ object' = object
    BY <1>3, CommitObject
  <2>4. i \in points
    BY <1>2, <1>3 DEF CommitPublish, ReadyToCommit, Publishing
  <2> HIDE DEF i
  <2>5. \A d \in Entries : ContentOf(structure[d]) # {} => ContentOf(structure[d])' # {}
    <3>1. \A d \in Entries : structure[d] # None
      BY <1>0, VectorStoreAssumption DEF StoreType, VectorStoreAssumption
    <3> QED BY <1>0, <2>3, <3>1 DEF ContentOf
  <2>6. \A j \in Ids : object'[j] # None => j \in points'
    BY <1>2, <2>1, <2>3, <2>4
  <2>7. \A d \in Entries \ {e} : state'[d] = "indexed" => state[d] = "indexed"
    BY <1>0, <2>1 DEF StoreType
  <2>8. \A d \in Entries : state'[d] = "indexed" => Searchable(d)'
    BY <1>2, <2>1, <2>3, <2>4, <2>7 DEF Searchable
  <2>9. \A d \in Entries :
          /\ job'[d].phase = "decided" /\ ~ job'[d].embeds => ContentOf(structure[d])' # {}
          /\ Publishing(d)' /\ ~ job'[d].embeds => job'[d].id \in points'
          /\ job'[d].phase = "upserted" => job'[d].id \in points'
    BY <1>2, <2>1, <2>2, <2>5 DEF Publishing
  <2> QED BY <1>0, <1>2, <2>1, <2>6, <2>8, <2>9 DEF UnspoiledInv
<1>4. ASSUME NEW e \in Entries, Decide(e) PROVE UnspoiledInv'
  <2>1. UNCHANGED <<structure, state, version, object, chunks, points, cleanup>>
    BY <1>4, JobUnchanged
  <2>2. /\ job'[e].phase = "decided" /\ job'[e].embeds = Embeds(e)
        /\ \A d \in Entries \ {e} : job'[d] = job[d]
    BY <1>0, <1>4, DecideJob
  <2>3. ~ Embeds(e) => ContentOf(structure[e]) # {}
    BY DEF Embeds, AlreadyIndexed
  <2>4. \A d \in Entries : ContentOf(structure[d])' = ContentOf(structure[d])
    BY <2>1 DEF ContentOf
  <2>5. \A d \in Entries : Searchable(d)' = Searchable(d)
    BY <2>1 DEF Searchable
  <2> QED BY <1>2, <2>1, <2>2, <2>3, <2>4, <2>5 DEF UnspoiledInv, Publishing
<1>5. ASSUME NEW e \in Entries, BeginPublish(e) PROVE UnspoiledInv'
  <2>1. UNCHANGED <<structure, state, version, object, chunks, points, cleanup>>
    BY <1>5, JobUnchanged
  <2>2. /\ job[e].phase = "decided" /\ job'[e].phase = "begun" /\ job'[e].embeds = job[e].embeds
        /\ \A d \in Entries \ {e} : job'[d] = job[d]
        /\ job'[e].id \in ContentOf(structure[e]) \/ ContentOf(structure[e]) = {}
    BY <1>0, <1>5, BeginJob
  <2>3. ~ job'[e].embeds => job'[e].id \in points
    <3>1. structure[e] # None
      BY <1>0, VectorStoreAssumption DEF StoreType, VectorStoreAssumption
    <3> QED BY <1>2, <2>2, <3>1 DEF ContentOf
  <2>4. \A d \in Entries : ContentOf(structure[d])' = ContentOf(structure[d])
    BY <2>1 DEF ContentOf
  <2>5. \A d \in Entries : Searchable(d)' = Searchable(d)
    BY <2>1 DEF Searchable
  <2> QED BY <1>2, <2>1, <2>2, <2>3, <2>4, <2>5 DEF UnspoiledInv, Publishing
<1>6. ASSUME NEW e \in Entries, Upsert(e) PROVE UnspoiledInv'
  <2>1. UNCHANGED <<structure, state, version, object, cleanup>> /\ points' = points \cup {job[e].id}
    BY <1>6, Zenon DEF Upsert, sqlVars
  <2>2. /\ job'[e].phase = "upserted" /\ job'[e].id = job[e].id
        /\ \A d \in Entries \ {e} : job'[d] = job[d]
    BY <1>0, <1>6, UpsertJob
  <2>3. \A d \in Entries : ContentOf(structure[d])' = ContentOf(structure[d])
    BY <2>1 DEF ContentOf
  <2>4. \A d \in Entries : Searchable(d) => Searchable(d)'
    BY <2>1 DEF Searchable
  <2> QED BY <1>2, <2>1, <2>2, <2>3, <2>4 DEF UnspoiledInv, Publishing
<1>7. ASSUME NEW e \in Entries, ScanMissing(e) PROVE UnspoiledInv'
  <2>1. /\ UNCHANGED <<version, object, points, job>> /\ cleanup' = CoalesceCleanup
        /\ state' = [state EXCEPT ![e] = "missing"]
    BY <1>7 DEF ScanMissing
  <2>2. \A d \in Entries : state'[d] = "indexed" => state[d] = "indexed"
    BY <1>0, <2>1 DEF StoreType
  <2> QED BY <1>0, <1>2, <2>1, <2>2, CleanupType DEF UnspoiledInv, Publishing, Searchable, ContentOf
<1>8. CASE Calm
  <2>1. \A d \in Entries : ContentOf(structure[d])' = ContentOf(structure[d])
    BY <1>0, <1>8 DEF Calm, ContentOf
  <2>2. \A d \in Entries : Searchable(d)' = Searchable(d)
    BY <1>8 DEF Calm, Searchable
  <2>3. cleanup'.phase # "deleting"
    BY <1>0, <1>2, <1>8, CalmCleanup DEF Calm
  <2> QED BY <1>0, <1>2, <1>8, <2>1, <2>2, <2>3 DEF Calm, UnspoiledInv, Publishing
<1>9. CASE FindOrphans
  <2>1. UNCHANGED <<version, object, points, state, job>> /\ cleanup' = NoCleanup
    BY <1>9 DEF FindOrphans, sqlVars
  <2> QED BY <1>0, <1>2, <2>1, CleanupType DEF UnspoiledInv, Publishing, Searchable, ContentOf
<1>10. ~ DeleteObjects /\ ~ CrashCleanup /\ ~ Lose /\ \A i \in Ids : ~ DeletePoints(i)
  BY <1>2 DEF DeleteObjects, CrashCleanup, Lose, DeletePoints
<1> QED BY <1>3, <1>4, <1>5, <1>6, <1>7, <1>8, <1>9, <1>10, CalmKinds

-----------------------------------------------------------------------------
(***************************************************************************)
(* Rebuilds restore.                                                       *)
(***************************************************************************)

\* What is said of one rebuilt entry.
Restored(e) ==
  /\ state[e] = "indexed"
  /\ Searchable(e) \/ Rebuilding(e)
  /\ cleanup.phase = "deleting" => version[e] # None /\ version[e] \notin cleanup.orphans

\* A cleanup has not found the object that a job of such an entry publishes to.
LEMMA PublishedIsNoOrphan ==
  ASSUME BaseInv, NEW e \in Entries, Restored(e), cleanup.phase = "deleting", Publishing(e)
  PROVE  job[e].id \notin cleanup.orphans
<1>1. /\ version[e] # None /\ version[e] \in Ids /\ object[version[e]] = structure[e]
      /\ job[e].id \in Ids /\ drawn[job[e].id] = structure[e]
  BY DEF BaseInv, StoreType, ObjectInv, DrawInv, Restored
<1>2. job[e].id \in cleanup.orphans => object[job[e].id] = structure[e]
  BY <1>1 DEF BaseInv, OrphanInv, ObjectInv
<1>3. job[e].id \in cleanup.orphans => job[e].id = version[e]
  BY <1>1, <1>2 DEF BaseInv, ObjectInv, OrphanInv
<1> QED BY <1>3 DEF Restored

\* The steps of its own job keep it.
LEMMA RestoredOwn ==
  ASSUME BaseInv, NEW e \in Entries, Restored(e),
         \/ Decide(e) \/ BeginPublish(e) \/ Upsert(e) \/ CommitPublish(e)
         \/ Vanished(e) \/ Conflict(e) \/ ForeignKeyFails(e) \/ Crash(e)
  PROVE  Restored(e)'
<1>0. StoreType /\ DrawInv
  BY DEF BaseInv
<1>1. CASE Decide(e)
  <2>1. UNCHANGED <<state, version, points, cleanup>>
    BY <1>1, JobUnchanged
  <2>2. /\ job'[e].phase = "decided" /\ job'[e].embeds = Embeds(e)
        /\ job'[e].rebuild = job[e].rebuild
    BY <1>0, <1>1, DecideJob
  <2>3. job[e].rebuild => Embeds(e)
    BY DEF Embeds
  <2> QED BY <2>1, <2>2, <2>3 DEF Restored, Rebuilding, Searchable
<1>2. CASE BeginPublish(e)
  <2>1. UNCHANGED <<state, version, points, cleanup>>
    BY <1>2, JobUnchanged
  <2>2. /\ job[e].phase = "decided" /\ job'[e].phase = "begun" /\ job'[e].embeds = job[e].embeds
        /\ job'[e].rebuild = job[e].rebuild
    BY <1>0, <1>2, BeginJob
  <2> QED BY <2>1, <2>2 DEF Restored, Rebuilding, Searchable, Running
<1>3. CASE Upsert(e)
  <2>1. UNCHANGED <<state, version, cleanup>> /\ points' = points \cup {job[e].id}
    BY <1>3, Zenon DEF Upsert, sqlVars
  <2>2. /\ job[e].embeds /\ job'[e].phase = "upserted" /\ job'[e].embeds = job[e].embeds
        /\ job'[e].rebuild = job[e].rebuild /\ job'[e].id = job[e].id
    BY <1>0, <1>3, UpsertJob
  <2> QED BY <2>1, <2>2 DEF Restored, Rebuilding, Searchable
<1>4. CASE CommitPublish(e)
  <2>1. /\ points' = points /\ cleanup' = cleanup /\ ReadyToCommit(e)
        /\ state' = [state EXCEPT ![e] = "indexed"] \/ state' = state
    BY <1>4, Zenon DEF CommitPublish
  <2>2. version'[e] = job[e].id /\ job[e].id # None /\ (version[e] # None => version'[e] = version[e])
    BY <1>4, CommitObject, CommitSame
  <2>3. state'[e] = "indexed"
    BY <1>0, <2>1 DEF StoreType, Restored
  <2>4. Rebuilding(e) => job[e].id \in points
    BY <2>1 DEF Rebuilding, ReadyToCommit, Running
  <2>5. Searchable(e)'
    BY <2>1, <2>2, <2>4 DEF Restored, Searchable
  <2> QED BY <2>1, <2>2, <2>3, <2>5 DEF Restored
<1>5. ~ Vanished(e)
  BY Zenon DEF Vanished, Restored
<1>6. CASE Conflict(e) \/ ForeignKeyFails(e) \/ Crash(e)
  <2>1. Again(e) /\ UNCHANGED <<state, version, points, cleanup>>
    BY <1>6, Zenon DEF Conflict, ForeignKeyFails, Crash, sqlVars
  <2>2. job'[e] = Queued(job[e].rebuild) /\ job[e].rebuild \in BOOLEAN
    BY <1>0, <2>1 DEF Again, StoreType, Job
  <2>3. job'[e].phase = "queued" /\ job'[e].rebuild = job[e].rebuild
    BY <2>2, QueuedJob
  <2> QED BY <2>1, <2>3 DEF Restored, Rebuilding, Searchable, Running
<1> QED BY <1>1, <1>2, <1>3, <1>4, <1>5, <1>6

\* So do those of other jobs.
LEMMA RestoredOther ==
  ASSUME BaseInv, NEW e \in Entries, Restored(e), NEW d \in Entries \ {e}, Publish(d) \/ Crash(d)
  PROVE  Restored(e)'
<1>0. StoreType
  BY DEF BaseInv
<1>1. CASE Decide(d) \/ BeginPublish(d)
  <2>1. UNCHANGED <<state, version, points, cleanup>>
    BY <1>1, JobUnchanged
  <2>2. job'[e] = job[e]
    BY <1>0, <1>1, DecideJob, BeginJob
  <2> QED BY <2>1, <2>2 DEF Restored, Rebuilding, Searchable
<1>2. CASE Upsert(d)
  <2>1. UNCHANGED <<state, version, cleanup>> /\ points' = points \cup {job[d].id}
    BY <1>2, Zenon DEF Upsert, sqlVars
  <2>2. job'[e] = job[e]
    BY <1>0, <1>2, UpsertJob
  <2> QED BY <2>1, <2>2 DEF Restored, Rebuilding, Searchable
<1>3. CASE CommitPublish(d)
  <2>1. /\ points' = points /\ cleanup' = cleanup /\ job' = [job EXCEPT ![d] = NoJob]
        /\ state' = [state EXCEPT ![d] = "indexed"] \/ state' = state
    BY <1>3, Zenon DEF CommitPublish
  <2>2. version'[e] = version[e]
    BY <1>3, CommitObject
  <2>3. job'[e] = job[e] /\ state'[e] = state[e]
    BY <1>0, <2>1 DEF StoreType
  <2> QED BY <2>1, <2>2, <2>3 DEF Restored, Rebuilding, Searchable
<1>4. CASE Vanished(d) \/ Conflict(d) \/ ForeignKeyFails(d) \/ Crash(d)
  <2>1. /\ Again(d) \/ job' = [job EXCEPT ![d] = NoJob]
        /\ UNCHANGED <<state, version, points, cleanup>>
    BY <1>4, Zenon DEF Vanished, Conflict, ForeignKeyFails, Crash, sqlVars
  <2>2. job'[e] = job[e]
    BY <1>0, <2>1, FreshJob
  <2> QED BY <2>1, <2>2 DEF Restored, Rebuilding, Searchable
<1> QED BY <1>1, <1>2, <1>3, <1>4 DEF Publish

\* So do those of a cleanup that deletes.
LEMMA RestoredCleanup ==
  ASSUME BaseInv, NEW e \in Entries, Restored(e),
         (\E i \in Ids : DeletePoints(i)) \/ DeleteObjects \/ CrashCleanup
  PROVE  Restored(e)'
<1>0. StoreType /\ OrphanInv
  BY DEF BaseInv
<1>1. ASSUME NEW i \in Ids, DeletePoints(i) PROVE Restored(e)'
  <2>1. /\ UNCHANGED <<state, version, job>> /\ points' = points \ {i}
        /\ cleanup.phase = "deleting" /\ i \in cleanup.orphans
        /\ cleanup'.orphans = cleanup.orphans
    BY <1>0, <1>1 DEF DeletePoints, sqlVars, OrphanInv, StoreType, Cleaning
  <2>2. Publishing(e) => job[e].id # i
    BY <2>1, PublishedIsNoOrphan
  <2> QED BY <2>1, <2>2 DEF Restored, Rebuilding, Searchable, Publishing
<1>2. CASE DeleteObjects
  <2>1. /\ UNCHANGED <<state, points, job>> /\ cleanup.phase = "deleting" /\ cleanup' = NoCleanup
        /\ version'[e] = IF version[e] \in cleanup.orphans THEN None ELSE version[e]
    BY <1>2 DEF DeleteObjects
  <2> QED BY <1>0, <2>1, CleanupType DEF Restored, Rebuilding, Searchable
<1>3. CASE CrashCleanup
  <2>1. UNCHANGED <<state, points, version, job>> /\ cleanup'.phase = "queued"
    BY <1>0, <1>3, CleanupType DEF CrashCleanup, sqlVars
  <2> QED BY <2>1 DEF Restored, Rebuilding, Searchable
<1> QED BY <1>1, <1>2, <1>3

\* Every step keeps what is said of the rebuilt.
LEMMA RebuildStep == ASSUME BaseInv, RebuildInv, [Next]_vars PROVE RebuildInv'
<1>0. /\ StoreType /\ rebuilt \subseteq Entries /\ \A e \in rebuilt : Restored(e)
  BY DEF BaseInv, RebuildInv, Restored
<1> SUFFICES rebuilt' \subseteq Entries /\ \A e \in rebuilt' : Restored(e)'
  BY DEF RebuildInv, Restored
<1>1. ASSUME NEW d \in Entries, Publish(d) \/ Crash(d)
      PROVE  rebuilt' = rebuilt /\ \A e \in rebuilt' : Restored(e)'
  <2>1. rebuilt' = rebuilt
    <3>1. CASE Decide(d) \/ BeginPublish(d)
      BY <3>1, JobUnchanged
    <3>2. CASE \/ Vanished(d) \/ Conflict(d) \/ Upsert(d) \/ CommitPublish(d) \/ ForeignKeyFails(d)
               \/ Crash(d)
      BY <3>2, Zenon DEF Vanished, Conflict, Upsert, CommitPublish, ForeignKeyFails, Crash, histVars
    <3> QED BY <1>1, <3>1, <3>2 DEF Publish
  <2>2. ASSUME NEW e \in rebuilt PROVE Restored(e)'
    <3>1. e \in Entries /\ Restored(e)
      BY <1>0
    <3>2. CASE e = d
      BY <1>1, <3>1, <3>2, RestoredOwn DEF Publish
    <3>3. CASE e # d
      BY <1>1, <3>1, <3>3, RestoredOther
    <3> QED BY <3>2, <3>3
  <2> QED BY <2>1, <2>2
<1>2. ASSUME NEW d \in Entries, ScanMissing(d)
      PROVE  rebuilt' \subseteq rebuilt /\ \A e \in rebuilt' : Restored(e)'
  <2>1. /\ UNCHANGED <<version, points, job>> /\ rebuilt' = rebuilt \ {d}
        /\ cleanup' = CoalesceCleanup /\ state' = [state EXCEPT ![d] = "missing"]
    BY <1>2 DEF ScanMissing
  <2>2. \A e \in Entries \ {d} : state'[e] = state[e]
    BY <1>0, <2>1 DEF StoreType
  <2> QED BY <1>0, <2>1, <2>2, CalmCleanup DEF Restored, Rebuilding, Searchable
<1>3. ASSUME NEW d \in Entries, ScanRestored(d)
      PROVE  rebuilt' = rebuilt /\ \A e \in rebuilt' : Restored(e)'
  <2>1. UNCHANGED <<version, points, cleanup, rebuilt>> /\ state[d] = "missing"
    BY <1>3 DEF ScanRestored, histVars
  <2>2. \A e \in Entries \ {d} : state'[e] = state[e] /\ job'[e] = job[e]
    BY <1>0, <1>3 DEF ScanRestored, StoreType
  <2>3. d \notin rebuilt
    BY <1>0, <2>1 DEF Restored
  <2>4. ASSUME NEW e \in rebuilt PROVE Restored(e)'
    <3>1. Restored(e) /\ state'[e] = state[e] /\ job'[e] = job[e]
      BY <1>0, <2>2, <2>3
    <3> QED BY <2>1, <3>1 DEF Restored, Rebuilding, Searchable
  <2> QED BY <2>1, <2>4
<1>4. ASSUME NEW rebuild \in BOOLEAN, Reindex(rebuild)
      PROVE  rebuilt' \subseteq Entries /\ \A e \in rebuilt' : Restored(e)'
  <2>1. /\ UNCHANGED <<state, version, points, cleanup>>
        /\ \A e \in Entries :
             job'[e] = IF state[e] = "indexed" THEN Coalesce(job[e], rebuild) ELSE job[e]
        /\ rebuilt' = IF rebuild /\ cleanup.phase # "deleting"
              THEN rebuilt \cup {e \in Entries : state[e] = "indexed" /\ job[e].phase = "none"}
              ELSE rebuilt
    BY <1>4 DEF Reindex, sqlVars
  <2>2. \A e \in Entries : job[e] \in Job
    BY <1>0 DEF StoreType
  <2>3. Queued(rebuild).phase = "queued" /\ Queued(rebuild).rebuild = rebuild
    BY QueuedJob
  <2>4. ASSUME NEW e \in rebuilt PROVE Restored(e)'
    <3>1. e \in Entries /\ Restored(e) /\ (job[e].phase # "none" => job'[e] = job[e])
      BY <1>0, <2>1, <2>2, CoalescedJob
    <3>2. job[e].phase = "none" => Searchable(e)
      BY <3>1 DEF Restored, Rebuilding
    <3> QED BY <2>1, <3>1, <3>2 DEF Restored, Rebuilding, Searchable
  <2>5. ASSUME NEW e \in Entries, state[e] = "indexed", job[e].phase = "none", rebuild,
               cleanup.phase # "deleting"
        PROVE  Restored(e)'
    <3>1. job'[e] = Queued(rebuild)
      BY <2>1, <2>2, <2>5, CoalescedJob
    <3> QED BY <2>1, <2>3, <2>5, <3>1 DEF Restored, Rebuilding, Running
  <2> QED BY <1>0, <2>1, <2>4, <2>5
<1>5. CASE Lose
  BY <1>5 DEF Lose
<1>6. CASE FindOrphans
  <2>1. /\ UNCHANGED <<state, version, points, job>>
        /\ rebuilt' = IF Orphans = {} THEN rebuilt ELSE {e \in rebuilt : version[e] # None}
        /\ cleanup' = IF Orphans = {} THEN NoCleanup
                      ELSE [phase |-> "deleting", orphans |-> Orphans, left |-> Orphans]
    BY <1>6 DEF FindOrphans, sqlVars
  <2>2. CASE Orphans = {}
    BY <1>0, <2>1, <2>2, CleanupType DEF Restored, Rebuilding, Searchable
  <2>3. CASE Orphans # {}
    <3>1. \A e \in rebuilt' : e \in rebuilt /\ version[e] # None /\ version[e] \notin Orphans
      BY <1>0, <2>1, <2>3 DEF Orphans, Restored
    <3> QED BY <1>0, <2>1, <2>3, <3>1 DEF Restored, Rebuilding, Searchable
  <2> QED BY <2>2, <2>3
<1>7. CASE (\E i \in Ids : DeletePoints(i)) \/ DeleteObjects \/ CrashCleanup
  <2>1. rebuilt' = rebuilt
    BY <1>7 DEF DeletePoints, DeleteObjects, CrashCleanup, histVars
  <2> QED BY <1>0, <1>7, <2>1, RestoredCleanup
<1>8. CASE RequestCleanup \/ UNCHANGED vars
  <2>1. /\ UNCHANGED <<state, version, points, job, rebuilt>>
        /\ cleanup' = cleanup \/ cleanup' = CoalesceCleanup
    BY <1>8 DEF RequestCleanup, vars, sqlVars, histVars
  <2> QED BY <1>0, <2>1, CalmCleanup DEF Restored, Rebuilding, Searchable
<1> QED BY <1>0, <1>1, <1>2, <1>3, <1>4, <1>5, <1>6, <1>7, <1>8 DEF Next, Clean

-----------------------------------------------------------------------------
(***************************************************************************)
(* The theorems.                                                           *)
(***************************************************************************)

\* The invariant holds at the start.
LEMMA InitInv == ASSUME Init PROVE Inv
<1>1. /\ structure \in [Entries -> Structures] /\ state = [e \in Entries |-> "discovered"]
      /\ version = [e \in Entries |-> None]
      /\ object = [i \in Ids |-> None] /\ drawn = [i \in Ids |-> None]
      /\ chunks = {} /\ points = {} /\ job = [e \in Entries |-> Queued(FALSE)]
      /\ cleanup = NoCleanup /\ stable = {} /\ rebuilt = {} /\ losses = 0
  BY DEF Init
<1>2. cleanup \in Cleaning /\ cleanup.phase = "none"
  BY <1>1 DEF Cleaning, NoCleanup
<1>3. ASSUME NEW e \in Entries
      PROVE  job[e] \in Job /\ job[e].phase = "queued" /\ ~ job[e].isNew
  <2>1. job[e] = Queued(FALSE)
    BY <1>1
  <2> QED BY <2>1, QueuedJob
<1>4. StoreType
  BY <1>1, <1>2, <1>3, QueuedJob DEF StoreType
<1>5. DrawInv /\ ObjectInv /\ OrphanInv
  BY <1>1, <1>2, <1>3 DEF DrawInv, ObjectInv, OrphanInv, Publishing
<1>6. SpareInv /\ RebuildInv /\ losses \in Nat
  BY <1>1 DEF SpareInv, RebuildInv
<1>7. UnspoiledInv
  BY <1>1, <1>2, <1>3 DEF UnspoiledInv, Publishing
<1> QED BY <1>4, <1>5, <1>6, <1>7 DEF Inv, BaseInv

\* The inductive invariant holds in every reachable state.
THEOREM InvHolds == Spec => []Inv
<1>1. Init => Inv
  BY InitInv
<1>2. Inv /\ [Next]_vars => Inv'
  BY BaseStep, SpareStep, LossStep, UnspoiledStep, RebuildStep DEF Inv
<1> QED BY <1>1, <1>2, PTL DEF Spec

\* A committed `indexed` is searchable, for any number of entries, jobs, crashes and
\* publications that conflict, until a cleanup has found an orphan or Qdrant is lost.
THEOREM IndexedSearchable == Spec => []IndexedIsSearchable
<1>1. Inv => IndexedIsSearchable
  BY DEF Inv, UnspoiledInv, IndexedIsSearchable
<1> QED BY <1>1, InvHolds, PTL

\* A cleanup takes nothing from what was indexed when it looked: content has one object,
\* so a publication in between goes to the object the entry already has.
THEOREM CleanupSpares == Spec => CleanupSparesIndexed
<1>1. Inv /\ [Next]_vars =>
        [\A e \in stable : Searchable(e) /\ losses' = losses => Searchable(e)']_vars
  BY StepSpares DEF Inv
<1> QED BY <1>1, InvHolds, PTL DEF Spec, CleanupSparesIndexed

\* A rebuild brings back the points of every entry it reached, whatever other jobs,
\* crashes and cleanups come between.
THEOREM RebuildHolds == Spec => []RebuildRestores
<1>1. Inv => RebuildRestores
  BY DEF Inv, RebuildInv, RebuildRestores, Rebuilding
<1> QED BY <1>1, InvHolds, PTL

\* The counters that bound the instances.
BoundsInv ==
  /\ scans \in 0 .. MaxScans /\ requests \in 0 .. MaxRequests
  /\ crashes \in 0 .. MaxCrashes /\ losses \in 0 .. MaxLosses

\* No step counts past its bound.
LEMMA BoundsStep == ASSUME BoundsInv, [Next]_vars PROVE BoundsInv'
<1> USE VectorStoreAssumption DEF VectorStoreAssumption, BoundsInv
<1>1. ASSUME NEW e \in Entries, ScanMissing(e) \/ ScanRestored(e) PROVE BoundsInv'
  <2>1. scans < MaxScans /\ scans' = scans + 1 /\ UNCHANGED <<requests, crashes, losses>>
    BY <1>1, Zenon DEF ScanMissing, ScanRestored
  <2> QED BY <2>1
<1>2. ASSUME NEW rebuild \in BOOLEAN, Reindex(rebuild) PROVE BoundsInv'
  BY <1>2 DEF Reindex
<1>3. CASE RequestCleanup
  BY <1>3 DEF RequestCleanup
<1>4. CASE Lose
  BY <1>4 DEF Lose
<1>5. ASSUME NEW e \in Entries, Crash(e) PROVE BoundsInv'
  BY <1>5 DEF Crash
<1>6. CASE CrashCleanup
  BY <1>6 DEF CrashCleanup
<1>7. ASSUME \/ \E e \in Entries : Publish(e)
             \/ Clean \/ UNCHANGED vars
      PROVE  BoundsInv'
  <2>1. UNCHANGED boundVars
    BY <1>7, Zenon DEF Publish, Decide, Vanished, BeginPublish, Conflict, Upsert, CommitPublish,
       ForeignKeyFails, Clean, FindOrphans, DeletePoints, DeleteObjects, vars
  <2> QED BY <2>1 DEF boundVars
<1> QED BY <1>1, <1>2, <1>3, <1>4, <1>5, <1>6, <1>7, Zenon DEF Next

FlagInv == spoiled \in BOOLEAN

\* A flag stays one.
LEMMA FlagStep == ASSUME FlagInv, [Next]_vars PROVE FlagInv'
<1> USE DEF FlagInv
<1>1. CASE FindOrphans
  <2>1. spoiled' = (spoiled \/ Orphans # {})
    BY <1>1, Zenon DEF FindOrphans
  <2> QED BY <2>1, Zenon
<1>2. CASE Lose
  BY <1>2, Zenon DEF Lose
<1>3. ASSUME NEW e \in Entries, ScanMissing(e) \/ ScanRestored(e) \/ Publish(e) \/ Crash(e)
      PROVE  spoiled' = spoiled
  BY <1>3, Zenon DEF ScanMissing, ScanRestored, Publish, Decide, Vanished, BeginPublish, Conflict,
     Upsert, CommitPublish, ForeignKeyFails, Crash, histVars
<1>4. ASSUME NEW rebuild \in BOOLEAN, Reindex(rebuild) PROVE spoiled' = spoiled
  BY <1>4, Zenon DEF Reindex
<1>5. ASSUME \/ \E i \in Ids : DeletePoints(i)
             \/ RequestCleanup \/ DeleteObjects \/ CrashCleanup \/ UNCHANGED vars
      PROVE  spoiled' = spoiled
  BY <1>5, Zenon DEF DeletePoints, RequestCleanup, DeleteObjects, CrashCleanup, vars, histVars
<1> QED BY <1>1, <1>2, <1>3, <1>4, <1>5, Zenon DEF Next, Clean

\* Rows, jobs, histories and counters always have their types.
THEOREM TypesHold == Spec => []TypeOK
<1>1. Init => BoundsInv /\ FlagInv
  <2>1. 0 \in 0 .. MaxScans /\ 0 \in 0 .. MaxRequests /\ 0 \in 0 .. MaxCrashes /\ 0 \in 0 .. MaxLosses
    BY VectorStoreAssumption DEF VectorStoreAssumption
  <2> QED BY <2>1, Zenon DEF Init, BoundsInv, FlagInv
<1>2. BoundsInv /\ FlagInv /\ [Next]_vars => BoundsInv' /\ FlagInv'
  BY BoundsStep, FlagStep
<1>3. Inv /\ BoundsInv /\ FlagInv => TypeOK
  BY Zenon DEF Inv, BaseInv, StoreType, SpareInv, RebuildInv, BoundsInv, FlagInv, TypeOK
<1> QED BY <1>1, <1>2, <1>3, InvHolds, PTL DEF Spec
=============================================================================
