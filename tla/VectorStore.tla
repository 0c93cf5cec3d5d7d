---------------------------- MODULE VectorStore ----------------------------
(***************************************************************************)
(* Content objects and chunk rows in PostgreSQL, points in Qdrant, and the *)
(* three jobs that keep the two together without a common transaction:     *)
(* index_file writes points inside its open SQL transaction,               *)
(* remove_stale_vectors deletes points before rows, and a reindex makes    *)
(* index_file embed again.  (jobs/handlers/index_file.py, cleanup.py,      *)
(* reindex.py.)                                                            *)
(*                                                                         *)
(* A content object has a random id; chunk and point ids are hashes of it, *)
(* so the id stands for its rows and for its points.  One embedding        *)
(* profile is active; every document has chunks.                           *)
(***************************************************************************)
EXTENDS Naturals

CONSTANTS
  Entries,     \* catalog entries
  Structures,  \* structure hashes of their extracted text
  Ids,         \* content object uuids, drawn at most once each
  MaxScans,    \* bound on entries that go missing or come back
  MaxRequests, \* bound on reindex and cleanup requests
  MaxCrashes,  \* bound on attempts that do not end
  MaxLosses,   \* bound on restores into an empty Qdrant
  None

ASSUME VectorStoreAssumption ==
  /\ None \notin Entries \cup Structures \cup Ids
  /\ MaxScans \in Nat /\ MaxRequests \in Nat /\ MaxCrashes \in Nat /\ MaxLosses \in Nat

VARIABLES
  structure, \* structure hash of each entry's file
  state,     \* catalog state of each entry
  version,   \* content_object_id of its current file version, or None
  object,    \* content_objects: structure hash of each id, or None
  chunks,    \* content objects that have their chunk rows
  points,    \* content objects that have their points in Qdrant
  drawn,     \* history: structure hash each id was drawn for
  job,       \* the open index_file job of each entry
  cleanup,   \* the open remove_stale_vectors job
  stable,    \* history: entries indexed, and not published, since its query
  rebuilt,   \* history: entries with a rebuild of their own since the last loss
  spoiled,   \* history: a cleanup has found orphans, or Qdrant was lost
  scans, requests, crashes, losses

sqlVars == <<state, version, object, chunks>>
histVars == <<drawn, stable, rebuilt, spoiled>>
boundVars == <<scans, requests, crashes, losses>>
vars == <<structure, sqlVars, points, job, cleanup, histVars, boundVars>>

Running == {"decided", "begun", "upserted"}
Job == [phase : {"none", "queued"} \cup Running, rebuild : BOOLEAN, marks : BOOLEAN,
        embeds : BOOLEAN, id : Ids \cup {None}, isNew : BOOLEAN]
NoJob == [phase |-> "none", rebuild |-> FALSE, marks |-> FALSE, embeds |-> FALSE,
          id |-> None, isNew |-> FALSE]
Queued(rebuild) == [NoJob EXCEPT !.phase = "queued", !.rebuild = rebuild]

Cleaning == [phase : {"none", "queued", "deleting"}, orphans : SUBSET Ids,
             left : SUBSET Ids]
NoCleanup == [phase |-> "none", orphans |-> {}, left |-> {}]

TypeOK ==
  /\ structure \in [Entries -> Structures]
  /\ state \in [Entries -> {"discovered", "indexed", "missing"}]
  /\ version \in [Entries -> Ids \cup {None}]
  /\ object \in [Ids -> Structures \cup {None}]
  /\ drawn \in [Ids -> Structures \cup {None}]
  /\ chunks \subseteq Ids /\ points \subseteq Ids
  /\ job \in [Entries -> Job]
  /\ cleanup \in Cleaning
  /\ stable \subseteq Entries /\ rebuilt \subseteq Entries /\ spoiled \in BOOLEAN
  /\ scans \in 0 .. MaxScans /\ requests \in 0 .. MaxRequests
  /\ crashes \in 0 .. MaxCrashes /\ losses \in 0 .. MaxLosses

Init ==
  /\ structure \in [Entries -> Structures]
  /\ state = [e \in Entries |-> "discovered"]
  /\ version = [e \in Entries |-> None]
  /\ object = [i \in Ids |-> None] /\ drawn = [i \in Ids |-> None]
  /\ chunks = {} /\ points = {}
  /\ job = [e \in Entries |-> Queued(FALSE)]
  /\ cleanup = NoCleanup
  /\ stable = {} /\ rebuilt = {} /\ spoiled = FALSE
  /\ scans = 0 /\ requests = 0 /\ crashes = 0 /\ losses = 0

\* enqueue under a dedupe key: an open job is returned as it is, payload too.
Coalesce(j, rebuild) == IF j.phase = "none" THEN Queued(rebuild) ELSE j
CoalesceCleanup ==
  IF cleanup.phase = "none" THEN [NoCleanup EXCEPT !.phase = "queued"] ELSE cleanup

-----------------------------------------------------------------------------
(***************************************************************************)
(* Scans and requests.                                                     *)
(***************************************************************************)

\* A scan that marks entries missing enqueues a cleanup.
ScanMissing(e) ==
  /\ scans < MaxScans /\ scans' = scans + 1
  /\ state[e] # "missing"
  /\ state' = [state EXCEPT ![e] = "missing"]
  /\ stable' = stable \ {e} /\ rebuilt' = rebuilt \ {e}
  /\ cleanup' = CoalesceCleanup
  /\ UNCHANGED <<structure, version, object, chunks, points, drawn, job, spoiled, requests,
                 crashes, losses>>

ScanRestored(e) ==
  /\ scans < MaxScans /\ scans' = scans + 1
  /\ state[e] = "missing"
  /\ state' = [state EXCEPT ![e] = "discovered"]
  /\ job' = [job EXCEPT ![e] = Coalesce(@, FALSE)]
  /\ UNCHANGED <<structure, version, object, chunks, points, cleanup, histVars, requests,
                 crashes, losses>>

Idle == \A e \in Entries : job[e].phase = "none"

\* handle_reindex_bulk fans out to the entries that are indexed.
Reindex(rebuild) ==
  /\ requests < MaxRequests /\ requests' = requests + 1
  /\ job' = [e \in Entries |->
               IF state[e] = "indexed" THEN Coalesce(job[e], rebuild) ELSE job[e]]
  /\ rebuilt' = IF rebuild /\ cleanup.phase # "deleting"
                  THEN rebuilt \cup {e \in Entries : state[e] = "indexed" /\ job[e].phase = "none"}
                  ELSE rebuilt
  /\ UNCHANGED <<structure, sqlVars, points, drawn, cleanup, stable, spoiled, scans, crashes,
                 losses>>

RequestCleanup ==
  /\ requests < MaxRequests /\ requests' = requests + 1
  /\ cleanup' = CoalesceCleanup
  /\ UNCHANGED <<structure, sqlVars, points, job, histVars, scans, crashes, losses>>

\* A restore: the stack is down, PostgreSQL comes back as it was, Qdrant empty.
Lose ==
  /\ losses < MaxLosses /\ losses' = losses + 1
  /\ \A e \in Entries : job[e].phase \notin Running
  /\ cleanup.phase # "deleting"
  /\ points' = {}
  /\ rebuilt' = {} /\ spoiled' = TRUE
  /\ UNCHANGED <<structure, sqlVars, drawn, job, cleanup, stable, scans, requests, crashes>>

-----------------------------------------------------------------------------
(***************************************************************************)
(* index_file.                                                             *)
(***************************************************************************)

ContentOf(k) == {i \in Ids : object[i] = k}

\* _already_indexed asks PostgreSQL alone.
AlreadyIndexed(k) == \E i \in ContentOf(k) : i \in chunks

\* Mutant: the rebuild flag does not reach the decision.
EmbedsUnlessIndexed(e) == ~ AlreadyIndexed(structure[e])

Embeds(e) == job[e].rebuild \/ ~ AlreadyIndexed(structure[e])

\* Everything up to the publication; the entry's state was loaded at the start.
Decide(e) ==
  /\ job[e].phase = "queued"
  /\ state[e] # "missing"
  /\ job' = [job EXCEPT ![e].phase = "decided", ![e].embeds = Embeds(e),
                        ![e].marks = (state[e] # "indexed")]
  /\ UNCHANGED <<structure, sqlVars, points, cleanup, histVars, boundVars>>

\* The file is gone: the job is retried until it fails.
Vanished(e) ==
  /\ job[e].phase = "queued"
  /\ state[e] = "missing"
  /\ job' = [job EXCEPT ![e] = NoJob]
  /\ UNCHANGED <<structure, sqlVars, points, cleanup, histVars, boundVars>>

Inserting(k) ==
  \E e \in Entries : structure[e] = k /\ job[e].isNew /\ job[e].phase \in {"begun", "upserted"}

\* The publishing transaction selects the content object, or inserts one.
BeginPublish(e) ==
  LET k == structure[e] IN
  /\ job[e].phase = "decided"
  /\ \/ \E i \in ContentOf(k) :
          /\ job' = [job EXCEPT ![e].phase = "begun", ![e].id = i]
          /\ UNCHANGED drawn
     \/ /\ ContentOf(k) = {} /\ ~ Inserting(k)
        /\ \E i \in Ids :
             /\ drawn[i] = None
             /\ drawn' = [drawn EXCEPT ![i] = k]
             /\ job' = [job EXCEPT ![e].phase = "begun", ![e].id = i, ![e].isNew = TRUE]
  /\ UNCHANGED <<structure, sqlVars, points, cleanup, stable, rebuilt, spoiled, boundVars>>

\* The retried attempt starts over; its payload is the same.
Again(e) == job' = [job EXCEPT ![e] = Queued(@.rebuild)]

\* Two inserts of one identity: the second waits, then violates the constraint.
Conflict(e) ==
  /\ job[e].phase = "decided"
  /\ ContentOf(structure[e]) = {} /\ Inserting(structure[e])
  /\ Again(e)
  /\ UNCHANGED <<structure, sqlVars, points, cleanup, histVars, boundVars>>

\* The points are written before anything is committed.
Upsert(e) ==
  /\ job[e].phase = "begun" /\ job[e].embeds
  /\ points' = points \cup {job[e].id}
  /\ job' = [job EXCEPT ![e].phase = "upserted"]
  /\ UNCHANGED <<structure, sqlVars, cleanup, histVars, boundVars>>

\* Mutant: the transaction commits without waiting for the points.
ReadyWithoutPoints(e) == job[e].phase = "begun"

ReadyToCommit(e) == job[e].phase = IF job[e].embeds THEN "upserted" ELSE "begun"

\* Chunk rows and file version refer to the content object: the inserts check
\* that it is there and lock it until the commit.
CommitPublish(e) ==
  LET i == job[e].id IN
  /\ ReadyToCommit(e)
  /\ job[e].isNew \/ object[i] # None
  /\ object' = [object EXCEPT ![i] = structure[e]]
  /\ chunks' = IF job[e].embeds THEN chunks \cup {i} ELSE chunks
  /\ version' = [version EXCEPT ![e] = i]
  /\ state' = IF job[e].marks THEN [state EXCEPT ![e] = "indexed"] ELSE state
  /\ stable' = stable \ {e}
  /\ job' = [job EXCEPT ![e] = NoJob]
  /\ UNCHANGED <<structure, points, drawn, cleanup, rebuilt, spoiled, boundVars>>

ForeignKeyFails(e) ==
  /\ ReadyToCommit(e)
  /\ ~ job[e].isNew /\ object[job[e].id] = None
  /\ Again(e)
  /\ UNCHANGED <<structure, sqlVars, points, cleanup, histVars, boundVars>>

Crash(e) ==
  /\ job[e].phase \in Running
  /\ crashes < MaxCrashes /\ crashes' = crashes + 1
  /\ Again(e)
  /\ UNCHANGED <<structure, sqlVars, points, cleanup, histVars, scans, requests, losses>>

-----------------------------------------------------------------------------
(***************************************************************************)
(* remove_stale_vectors.                                                   *)
(***************************************************************************)

\* Mutant: content is retired when any of its files is gone.
OrphansOfAnyMissing ==
  {i \in Ids : object[i] # None /\ \E e \in Entries : version[e] = i /\ state[e] = "missing"}

\* No indexed entry's current version refers to it.
Orphans ==
  {i \in Ids : object[i] # None /\
     ~ \E e \in Entries : version[e] = i /\ state[e] = "indexed"}

FindOrphans ==
  /\ cleanup.phase = "queued"
  /\ cleanup' = IF Orphans = {} THEN NoCleanup
                ELSE [phase |-> "deleting", orphans |-> Orphans, left |-> Orphans]
  /\ stable' = {e \in Entries : state[e] = "indexed"}
  /\ rebuilt' = IF Orphans = {} THEN rebuilt ELSE {e \in rebuilt : version[e] # None}
  /\ spoiled' = (spoiled \/ Orphans # {})
  /\ UNCHANGED <<structure, sqlVars, points, drawn, job, boundVars>>

DeletePoints(i) ==
  /\ cleanup.phase = "deleting" /\ i \in cleanup.left
  /\ points' = points \ {i}
  /\ cleanup' = [cleanup EXCEPT !.left = @ \ {i}]
  /\ UNCHANGED <<structure, sqlVars, job, histVars, boundVars>>

\* The delete cascades to chunk rows and empties the versions' reference.
DeleteObjects ==
  /\ cleanup.phase = "deleting" /\ cleanup.left = {}
  /\ object' = [i \in Ids |-> IF i \in cleanup.orphans THEN None ELSE object[i]]
  /\ chunks' = chunks \ cleanup.orphans
  /\ version' = [e \in Entries |->
                   IF version[e] \in cleanup.orphans THEN None ELSE version[e]]
  /\ cleanup' = NoCleanup
  /\ UNCHANGED <<structure, state, points, job, histVars, boundVars>>

CrashCleanup ==
  /\ cleanup.phase = "deleting"
  /\ crashes < MaxCrashes /\ crashes' = crashes + 1
  /\ cleanup' = [NoCleanup EXCEPT !.phase = "queued"]
  /\ UNCHANGED <<structure, sqlVars, points, job, histVars, scans, requests, losses>>

Publish(e) ==
  \/ Decide(e) \/ Vanished(e) \/ BeginPublish(e) \/ Conflict(e) \/ Upsert(e)
  \/ CommitPublish(e) \/ ForeignKeyFails(e)
Clean == FindOrphans \/ (\E i \in Ids : DeletePoints(i)) \/ DeleteObjects

Next ==
  \/ \E e \in Entries : ScanMissing(e) \/ ScanRestored(e) \/ Publish(e) \/ Crash(e)
  \/ \E rebuild \in BOOLEAN : Reindex(rebuild)
  \/ RequestCleanup \/ Lose \/ Clean \/ CrashCleanup

Spec == Init /\ [][Next]_vars

-----------------------------------------------------------------------------
Searchable(e) == version[e] # None /\ version[e] \in points

\* "A committed indexed state always implies searchable vectors",
\* index_file.py:335, as long as no cleanup has found anything to delete.
IndexedIsSearchable ==
  ~ spoiled => \A e \in Entries : state[e] = "indexed" => Searchable(e)

\* A cleanup takes nothing from an entry that was indexed when it looked and
\* has not been published since, whatever copies of its content go missing.
CleanupSparesIndexed ==
  [][\A e \in stable : Searchable(e) /\ losses' = losses => Searchable(e)']_vars

\* A lost Qdrant is restored by a rebuild, entry by entry: an entry that had no
\* open index job to absorb the request, and has stayed indexed, is searchable
\* once its job is done, other jobs, crashes and cleanups notwithstanding.
RebuildRestores == \A e \in rebuilt : job[e].phase = "none" => Searchable(e)
=============================================================================
