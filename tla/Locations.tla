----------------------------- MODULE Locations -----------------------------
(***************************************************************************)
(* The Locations API and the idempotency keys of all requests that start   *)
(* jobs: each request is one database transaction of several statements    *)
(* under READ COMMITTED.  (api/v1/routes, api/dependencies.py,             *)
(* jobs/queue.py enqueue and gc_stale_rows.)                               *)
(*                                                                         *)
(* Scan roots never change, so which locations overlap is a constant.  A   *)
(* patch always sets some field; who set it last stands for the fields.    *)
(* A request is processed once; a client's retry is another request.       *)
(***************************************************************************)
EXTENDS Naturals, FiniteSets

CONSTANTS
  Locs,        \* location uuids
  Requests,    \* API requests, and the jobs they insert
  Keys,        \* idempotency keys
  Overlapping, \* pairs {l, m} of locations whose scan roots overlap
  MaxFaults,   \* bound on requests that die before their commit
  None

ASSUME LocationsAssumption ==
  /\ Overlapping \subseteq SUBSET Locs /\ MaxFaults \in Nat

VARIABLES
  row,       \* source_locations
  job,       \* the job each request inserted
  record,    \* idempotency_records by key
  req,       \* the requests
  together,  \* history: pairs of requests that were in flight at once
  enabler,   \* history: the request that enabled each location last
  deleter,   \* history: the request that deleted each location
  patched,   \* history: <<location, request>> of each committed patch
  lost,      \* history: locations where a patch overwrote what its client had not seen
  answered,  \* history: the jobs each retained key was answered with
  faults

tables == <<row, job, record>>
history == <<together, enabler, deleter, patched, lost, answered>>
vars == <<tables, req, history, faults>>

Row == [enabled : BOOLEAN, revision : Nat \ {0}, author : Requests \cup {None}]
\* scan and reindex of a location; rebuild stands for the jobs that concern none: the
\* duplicate report, reindexing everything, removing stale vectors.
JobKinds == {"scan", "reindex", "rebuild"}

\* An open scan of a location or an open job with the same dedupe key stands for a new one.
Deduped(kind) == kind \in {"scan", "rebuild"}

Job == [status : {"none", "pending", "open", "ended"}, kind : JobKinds \cup {None},
        loc : Locs \cup {None}]
Record == [fingerprint : JobKinds \X (Locs \cup {None}), job : Requests \cup {None}, by : Requests, committed : BOOLEAN]
Phases == {"new", "sent", "loaded", "checked", "counted", "reserved", "rejected", "inserted",
           "answered"}
Request == [op : {"none", "create", "patch", "delete"} \cup JobKinds, phase : Phases,
            loc : Locs \cup {None}, key : Keys \cup {None}, want : {"keep", "on", "off"},
            seen : Row \cup {None}, loaded : Row \cup {None}]

ASSUME NoneAssumption == None \notin Locs \cup Requests \cup Keys \cup Row \cup Record

New == [op |-> "none", phase |-> "new", loc |-> None, key |-> None, want |-> "keep",
        seen |-> None, loaded |-> None]
NoJob == [status |-> "none", kind |-> None, loc |-> None]

\* A committed record names the job its key was answered with.
TypeOK ==
  /\ row \in [Locs -> Row \cup {None}]
  /\ job \in [Requests -> Job]
  /\ record \in [Keys -> Record \cup {None}]
  /\ \A k \in Keys : record[k] # None /\ record[k].committed => record[k].job # None
  /\ req \in [Requests -> Request]
  /\ together \subseteq SUBSET Requests
  /\ enabler \in [Locs -> Requests \cup {None}] /\ deleter \in [Locs -> Requests \cup {None}]
  /\ patched \subseteq Locs \X Requests /\ lost \subseteq Locs
  /\ answered \in [Keys -> SUBSET Requests]
  /\ faults \in 0 .. MaxFaults

Enabled(l) == row[l] # None /\ row[l].enabled
Overlap(l, m) == {l, m} \in Overlapping

Init ==
  /\ row \in [Locs -> {None} \cup [enabled : BOOLEAN, revision : {1}, author : {None}]]
  /\ \A l, m \in Locs : l # m /\ Enabled(l) /\ Enabled(m) => ~ Overlap(l, m)
  /\ job = [q \in Requests |-> NoJob]
  /\ record = [k \in Keys |-> None]
  /\ req = [q \in Requests |-> New]
  /\ together = {} /\ patched = {} /\ lost = {} /\ faults = 0
  /\ enabler = [l \in Locs |-> None] /\ deleter = [l \in Locs |-> None]
  /\ answered = [k \in Keys |-> {}]

----------------------------------------------------------------------------
At(q, op, phase) == req[q].op = op /\ req[q].phase = phase
Goto(q, phase) == req' = [req EXCEPT ![q].phase = phase]
Answer(q) == Goto(q, "answered")

InFlight(q) == req[q].phase \notin {"new", "sent", "answered"}
Meet(q) == together' = together \cup {{q, p} : p \in {x \in Requests : InFlight(x)}}

\* The client has read the location it names (GET), and sends its ETag along.
Send(q) ==
  /\ req[q].phase = "new"
  /\ \E l \in Locs :
       /\ row[l] # None
       /\ \/ \E op \in {"patch", "delete"}, want \in {"keep", "on", "off"} :
               /\ op = "delete" => want = "keep"
               /\ req' = [req EXCEPT ![q] = [New EXCEPT !.op = op, !.phase = "sent", !.loc = l,
                                                        !.want = want, !.seen = row[l]]]
          \/ \E k \in Keys, kind \in {"scan", "reindex"} :
               req' = [req EXCEPT ![q] = [New EXCEPT !.op = kind, !.phase = "sent",
                                                     !.loc = l, !.key = k]]
  /\ UNCHANGED <<tables, history, faults>>

\* The routes of jobs that concern no location load nothing before the key is reserved.
SendRebuild(q) ==
  /\ req[q].phase = "new"
  /\ \E k \in Keys :
       req' = [req EXCEPT ![q] = [New EXCEPT !.op = "rebuild", !.phase = "loaded", !.key = k]]
  /\ Meet(q)
  /\ UNCHANGED <<tables, enabler, deleter, patched, lost, answered, faults>>

SendCreate(q) ==
  /\ req[q].phase = "new"
  /\ \E l \in Locs, want \in {"on", "off"} :
       /\ row[l] = None /\ deleter[l] = None
       /\ \A p \in Requests : req[p].loc # l
       /\ req' = [req EXCEPT ![q] = [New EXCEPT !.op = "create", !.phase = "sent", !.loc = l,
                                                !.want = want]]
  /\ UNCHANGED <<tables, history, faults>>

\* Mutant: If-Match must be there and is not compared.
TagAccepted(q) == req[q].seen # None

TagMatches(q) == req[q].seen # None /\ req[q].seen.revision = row[req[q].loc].revision

\* _load_location and _require_if_match: 404, 412 or on.
Load(q) ==
  /\ req[q].phase = "sent" /\ req[q].op # "create"
  /\ IF row[req[q].loc] = None \/ (req[q].op \notin JobKinds /\ ~ TagMatches(q))
       THEN Answer(q) /\ UNCHANGED together
       ELSE /\ req' = [req EXCEPT ![q].phase = "loaded", ![q].loaded = row[req[q].loc]]
            /\ Meet(q)
  /\ UNCHANGED <<tables, enabler, deleter, patched, lost, answered, faults>>

\* Mutant: overlap is checked when a location is created, not when it is enabled.
EnablesNever(q) == FALSE

Enables(q) == req[q].want = "on" /\ ~ req[q].loaded.enabled

\* _check_overlap: every location that is enabled now, but for the patched one.
Clear(q) == \A m \in Locs \ {req[q].loc} : Enabled(m) => ~ Overlap(req[q].loc, m)

CheckOverlap(q) ==
  /\ At(q, "create", "sent") \/ At(q, "patch", "loaded")
  /\ IF (At(q, "create", "sent") \/ Enables(q)) /\ ~ Clear(q)
       THEN Answer(q) /\ UNCHANGED together
       ELSE Goto(q, "checked") /\ Meet(q)
  /\ UNCHANGED <<tables, enabler, deleter, patched, lost, answered, faults>>

\* The unique name is taken: 409, rolled back.
NameTaken(q) ==
  /\ At(q, "create", "checked") \/ At(q, "patch", "checked")
  /\ Answer(q)
  /\ UNCHANGED <<tables, history, faults>>

CommitCreate(q) ==
  LET l == req[q].loc
  IN /\ At(q, "create", "checked")
     /\ row' = [row EXCEPT ![l] = [enabled |-> req[q].want = "on", revision |-> 1, author |-> q]]
     /\ enabler' = [enabler EXCEPT ![l] = q]
     /\ Answer(q)
     /\ UNCHANGED <<job, record, together, deleter, patched, lost, answered, faults>>

\* UPDATE by primary key of the columns that differ from what was loaded, the revision
\* as loaded plus one.  A row that is gone raises StaleDataError.
CommitPatch(q) ==
  LET l == req[q].loc
      old == req[q].loaded
      flips == req[q].want = (IF old.enabled THEN "off" ELSE "on")
  IN /\ At(q, "patch", "checked")
     /\ IF row[l] = None
          THEN UNCHANGED <<row, enabler, patched, lost>>
          ELSE /\ row' = [row EXCEPT ![l] = [enabled |-> IF flips THEN ~ old.enabled ELSE @.enabled,
                                             revision |-> old.revision + 1, author |-> q]]
               /\ enabler' = IF flips /\ ~ old.enabled THEN [enabler EXCEPT ![l] = q] ELSE enabler
               /\ patched' = patched \cup {<<l, q>>}
               /\ lost' = IF row[l].author = req[q].seen.author THEN lost ELSE lost \cup {l}
     /\ Answer(q)
     /\ UNCHANGED <<job, record, together, deleter, answered, faults>>

----------------------------------------------------------------------------
\* Mutant: jobs that have not started do not stand in the way.
RunningJobs(l) == {}

OpenJobs(l) == {j \in Requests : job[j].status = "open" /\ job[j].loc = l}

CountJobs(q) ==
  /\ At(q, "delete", "loaded")
  /\ IF OpenJobs(req[q].loc) # {} THEN Answer(q) ELSE Goto(q, "counted")
  /\ UNCHANGED <<tables, history, faults>>

\* Waits for the transactions that have inserted a job of the location; the jobs there
\* are lose it (ON DELETE SET NULL).
CommitDelete(q) ==
  LET l == req[q].loc
  IN /\ At(q, "delete", "counted")
     /\ \A j \in Requests : ~ (job[j].status = "pending" /\ job[j].loc = l)
     /\ row' = [row EXCEPT ![l] = None]
     /\ deleter' = [deleter EXCEPT ![l] = IF row[l] = None THEN @ ELSE q]
     /\ Answer(q)
     /\ UNCHANGED <<job, record, together, enabler, patched, lost, answered, faults>>

----------------------------------------------------------------------------
Fingerprint(q) == <<req[q].op, req[q].loc>>

\* reserve_idempotency: the insert waits for a transaction that holds the same scope;
\* a committed record refuses another fingerprint and replays its job.
Reserve(q) ==
  LET k == req[q].key
      r == record[k]
  IN /\ req[q].op \in JobKinds /\ req[q].phase = "loaded"
     /\ r # None => r.committed
     /\ \/ /\ r = None
           /\ record' = [record EXCEPT ![k] = [fingerprint |-> Fingerprint(q), job |-> None, by |-> q,
                                               committed |-> FALSE]]
           /\ Goto(q, "reserved") /\ UNCHANGED answered
        \/ /\ r # None
           /\ answered' = IF r.fingerprint = Fingerprint(q) /\ r.job # None
                            THEN [answered EXCEPT ![k] = @ \cup {r.job}] ELSE answered
           /\ Answer(q) /\ UNCHANGED record
     /\ UNCHANGED <<row, job, together, enabler, deleter, patched, lost, faults>>

\* The jobs in a state that the partial unique indexes hold against a job of this request.
Same(q, status) ==
  {j \in Requests : Deduped(req[q].op) /\ job[j] = [status |-> status, kind |-> req[q].op,
                                                   loc |-> req[q].loc]}

\* The insert waits for a transaction that has inserted the same; it is rejected by a
\* committed one, and by the foreign key when the location is gone.
Enqueue(q) ==
  LET l == req[q].loc
  IN /\ req[q].op \in JobKinds /\ req[q].phase = "reserved"
     /\ Same(q, "pending") = {}
     /\ IF Same(q, "open") # {} \/ (l # None /\ row[l] = None)
          THEN Goto(q, "rejected") /\ UNCHANGED job
          ELSE /\ Goto(q, "inserted")
               /\ job' = [job EXCEPT ![q] = [status |-> "pending", kind |-> req[q].op, loc |-> l]]
     /\ UNCHANGED <<row, record, history, faults>>

\* Mutant: the record is committed without its job.
JobUnset(j) == None

JobOf(j) == j

\* Key, job and the link between them are committed at once.
Accept(q, j) ==
  /\ record' = [record EXCEPT ![req[q].key].job = JobOf(j), ![req[q].key].committed = TRUE]
  /\ answered' = [answered EXCEPT ![req[q].key] = @ \cup {j}]
  /\ Answer(q)

\* A transaction that ends without commit takes its reservation and its job along.
RollBack(q) ==
  /\ record' = [k \in Keys |-> IF record[k] # None /\ ~ record[k].committed /\ record[k].by = q
                                 THEN None ELSE record[k]]
  /\ job' = [job EXCEPT ![q] = IF @.status = "pending" THEN NoJob ELSE @]
  /\ Answer(q)

\* _find_open_duplicate: the open job of a location that still is its own, or none.
Coalesce(q) ==
  LET found == {j \in Same(q, "open") : req[q].loc # None => row[req[q].loc] # None}
  IN /\ req[q].phase = "rejected"
     /\ \/ \E j \in found : Accept(q, j) /\ UNCHANGED job
        \/ found = {} /\ RollBack(q) /\ UNCHANGED answered
     /\ UNCHANGED <<row, together, enabler, deleter, patched, lost, faults>>

CommitJob(q) ==
  /\ req[q].phase = "inserted"
  /\ job' = [job EXCEPT ![q].status = "open"]
  /\ Accept(q, q)
  /\ UNCHANGED <<row, together, enabler, deleter, patched, lost, faults>>

\* The API process dies, or the connection: nothing of the request stays.
Die(q) ==
  /\ InFlight(q) /\ faults < MaxFaults
  /\ faults' = faults + 1
  /\ RollBack(q)
  /\ UNCHANGED <<row, history>>

----------------------------------------------------------------------------
JobEnds(j) ==
  /\ job[j].status = "open"
  /\ job' = [job EXCEPT ![j].status = "ended"]
  /\ UNCHANGED <<row, record, req, history, faults>>

\* Mutant: every old record is collected.
CollectableAny(k) == record[k] # None /\ record[k].committed

Collectable(k) ==
  record[k] # None /\ record[k].committed /\ job[record[k].job].status = "ended"

\* gc_stale_rows, for a record past its retention.
Collect(k) ==
  /\ Collectable(k)
  /\ record' = [record EXCEPT ![k] = None]
  /\ answered' = [answered EXCEPT ![k] = {j \in @ : job[j].status = "open"}]
  /\ UNCHANGED <<row, job, req, together, enabler, deleter, patched, lost, faults>>

\* No request is under way: anything else that cannot move is a deadlock.
Quiet == (\A q \in Requests : req[q].phase \in {"new", "answered"}) /\ UNCHANGED vars

Patch(q) == CheckOverlap(q) \/ NameTaken(q) \/ CommitCreate(q) \/ CommitPatch(q)
Delete(q) == CountJobs(q) \/ CommitDelete(q)
StartJob(q) == Reserve(q) \/ Enqueue(q) \/ Coalesce(q) \/ CommitJob(q)

Next ==
  \/ \E q \in Requests :
       \/ Send(q) \/ SendRebuild(q) \/ SendCreate(q) \/ Load(q)
       \/ Patch(q) \/ Delete(q) \/ StartJob(q)
       \/ Die(q) \/ JobEnds(q)
  \/ \E k \in Keys : Collect(k)
  \/ Quiet

Spec == Init /\ [][Next]_vars

----------------------------------------------------------------------------
\* A patch overwrites what its client has not seen only at a location where two patches
\* were in flight at once: one after the other, If-Match catches every stale client.
LostUpdateNeedsRace ==
  \A l \in lost : \E p, q \in Requests :
    p # q /\ <<l, p>> \in patched /\ <<l, q>> \in patched /\ {p, q} \in together

\* Two enabled locations overlap only when the requests that enabled them were in
\* flight at once.
OverlapNeedsRace ==
  \A l, m \in Locs :
    l # m /\ Enabled(l) /\ Enabled(m) /\ Overlap(l, m) => {enabler[l], enabler[m]} \in together

\* An open job has lost its location only when the request that inserted it and the one
\* that deleted the location were in flight at once.
OrphanNeedsRace ==
  \A j \in Requests :
    job[j].status = "open" /\ job[j].loc # None /\ row[job[j].loc] = None => {j, deleter[job[j].loc]} \in together

\* However requests with one key overlap, die, repeat and coalesce, they are answered
\* with one job, until that job has ended and the key was collected.
OneJobPerKey == \A k \in Keys : Cardinality(answered[k]) <= 1
=============================================================================
