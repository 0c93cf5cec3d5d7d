-------------------------- MODULE LocationsProofs --------------------------
(***************************************************************************)
(* Theorems about Locations.                                               *)
(***************************************************************************)
EXTENDS Locations, FiniteSetTheorems, TLAPS

\* The types hold at the start.
LEMMA InitTypeOK == ASSUME Init PROVE TypeOK
<1>1. row \in [Locs -> Row \cup {None}]
  BY DEF Init, Row
<1>2. job \in [Requests -> Job] /\ req \in [Requests -> Request]
  BY DEF Init, Job, NoJob, New, Request, Phases, JobKinds
<1>3. /\ record \in [Keys -> Record \cup {None}]
      /\ \A k \in Keys : record[k] = None
  BY DEF Init
<1>4. /\ together \subseteq SUBSET Requests
      /\ enabler \in [Locs -> Requests \cup {None}] /\ deleter \in [Locs -> Requests \cup {None}]
      /\ patched \subseteq Locs \X Requests /\ lost \subseteq Locs
      /\ answered \in [Keys -> SUBSET Requests]
      /\ faults \in 0 .. MaxFaults
  BY LocationsAssumption DEF Init, LocationsAssumption
<1> QED BY <1>1, <1>2, <1>3, <1>4 DEF TypeOK


\* What a request may be at each phase.
Shape(r) ==
  /\ r.phase = "new" => r = New
  /\ r.phase # "new" => r.op # "none"
  /\ r.op = "create" => r.phase \in {"sent", "checked", "answered"} /\ r.loc \in Locs
  /\ r.op \in {"patch", "delete"} => r.loc \in Locs /\ r.seen \in Row
  /\ r.op = "patch" => r.phase \in {"sent", "loaded", "checked", "answered"}
  /\ r.op = "patch" /\ r.phase \in {"loaded", "checked"} => r.loaded \in Row
  /\ r.op = "delete" => r.phase \in {"sent", "loaded", "counted", "answered"}
  /\ r.op \in JobKinds =>
       /\ r.key \in Keys
       /\ r.phase \in {"sent", "loaded", "reserved", "rejected", "inserted", "answered"}
  /\ r.op \in {"scan", "reindex"} => r.loc \in Locs
  /\ r.op = "rebuild" => r.loc = None /\ r.phase # "sent"

Typed == TypeOK /\ \A q \in Requests : Shape(req[q])

\* A request is sent in shape, and no other moves.
LEMMA SendShape ==
  ASSUME Typed, NEW q \in Requests, Send(q) \/ SendRebuild(q) \/ SendCreate(q)
  PROVE  /\ req' \in [Requests -> Request]
         /\ \A p \in Requests : Shape(req'[p])
         /\ req'[q].phase \in {"sent", "loaded"}
         /\ \A p \in Requests \ {q} : req'[p] = req[p]
<1> DEFINE Goal == /\ req' \in [Requests -> Request]
                   /\ \A p \in Requests : Shape(req'[p])
                   /\ req'[q].phase \in {"sent", "loaded"}
                   /\ \A p \in Requests \ {q} : req'[p] = req[p]
<1>1. req \in [Requests -> Request] /\ \A p \in Requests : Shape(req[p])
  BY DEF Typed, TypeOK
<1>2. ASSUME NEW new \in Request, Shape(new), new.phase \in {"sent", "loaded"}, req' = [req EXCEPT ![q] = new]
      PROVE  Goal
  BY <1>1, <1>2
<1>3. ASSUME NEW l \in Locs, row[l] # None, NEW op \in {"patch", "delete"}, NEW want \in {"keep", "on", "off"},
             req' = [req EXCEPT ![q] = [New EXCEPT !.op = op, !.phase = "sent", !.loc = l,
                                                   !.want = want, !.seen = row[l]]]
      PROVE  Goal
  <2> DEFINE new == [New EXCEPT !.op = op, !.phase = "sent", !.loc = l, !.want = want, !.seen = row[l]]
  <2>1. row[l] \in Row
    BY <1>3 DEF Typed, TypeOK
  <2>2. new \in Request /\ Shape(new) /\ new.phase \in {"sent", "loaded"}
    BY <2>1 DEF New, Request, Phases, JobKinds, Shape
  <2> QED BY <1>2, <1>3, <2>2
<1>4. ASSUME NEW l \in Locs, NEW k \in Keys, NEW kind \in {"scan", "reindex"},
             req' = [req EXCEPT ![q] = [New EXCEPT !.op = kind, !.phase = "sent", !.loc = l, !.key = k]]
      PROVE  Goal
  <2> DEFINE new == [New EXCEPT !.op = kind, !.phase = "sent", !.loc = l, !.key = k]
  <2>2. new \in Request /\ Shape(new) /\ new.phase \in {"sent", "loaded"}
    BY DEF New, Request, Phases, JobKinds, Shape
  <2> QED BY <1>2, <1>4, <2>2
<1>5. ASSUME NEW k \in Keys,
             req' = [req EXCEPT ![q] = [New EXCEPT !.op = "rebuild", !.phase = "loaded", !.key = k]]
      PROVE  Goal
  <2> DEFINE new == [New EXCEPT !.op = "rebuild", !.phase = "loaded", !.key = k]
  <2>2. new \in Request /\ Shape(new) /\ new.phase \in {"sent", "loaded"}
    BY DEF New, Request, Phases, JobKinds, Shape
  <2> QED BY <1>2, <1>5, <2>2
<1>6. ASSUME NEW l \in Locs, NEW want \in {"on", "off"},
             req' = [req EXCEPT ![q] = [New EXCEPT !.op = "create", !.phase = "sent", !.loc = l, !.want = want]]
      PROVE  Goal
  <2> DEFINE new == [New EXCEPT !.op = "create", !.phase = "sent", !.loc = l, !.want = want]
  <2>2. new \in Request /\ Shape(new) /\ new.phase \in {"sent", "loaded"}
    BY DEF New, Request, Phases, JobKinds, Shape
  <2> QED BY <1>2, <1>6, <2>2
<1> QED BY <1>3, <1>4, <1>5, <1>6 DEF Send, SendRebuild, SendCreate

\* Where the phases of a request lead.
LEMMA PhaseShape ==
  ASSUME Typed, NEW q \in Requests, NEW phase \in Phases \ {"new", "sent", "loaded"}, Goto(q, phase),
         req[q].phase # "new",
         phase = "answered" \/ Shape([req[q] EXCEPT !.phase = phase])
  PROVE  req' \in [Requests -> Request] /\ \A p \in Requests : Shape(req'[p])
<1> DEFINE new == [req[q] EXCEPT !.phase = phase]
<1>1. req \in [Requests -> Request] /\ \A p \in Requests : Shape(req[p])
  BY DEF Typed, TypeOK
<1>2. new \in Request
  BY <1>1 DEF Request
<1>3. Shape(new)
  BY <1>1, Zenon DEF Shape, Request
<1>4. req' = [req EXCEPT ![q] = new]
  BY DEF Goto
<1> QED BY <1>1, <1>2, <1>3, <1>4

\* Every step keeps the requests in shape.
LEMMA RequestShape ==
  ASSUME Typed, [Next]_vars
  PROVE  req' \in [Requests -> Request] /\ \A p \in Requests : Shape(req'[p])
<1>1. req \in [Requests -> Request] /\ \A p \in Requests : Shape(req[p])
  BY DEF Typed, TypeOK
<1>2. ASSUME NEW q \in Requests, Load(q)
      PROVE  req' \in [Requests -> Request] /\ \A p \in Requests : Shape(req'[p])
  <2>1. CASE Answer(q)
    BY <1>2, <2>1, PhaseShape DEF Load, Answer, Phases
  <2>2. CASE ~ Answer(q)
    <3> DEFINE new == [req[q] EXCEPT !.phase = "loaded", !.loaded = row[req[q].loc]]
    <3>1. req' = [req EXCEPT ![q] = new]
      BY <1>2, <2>2, <1>1 DEF Load
    <3>2. req[q].phase = "sent" /\ req[q].op # "create" /\ req[q].loc \in Locs
      BY <1>1, <1>2 DEF Load, Shape, Request, JobKinds, New
    <3>3. row[req[q].loc] \in Row
      BY <1>2, <2>2, <3>2 DEF Load, Typed, TypeOK
    <3>4. new \in Request
      BY <1>1, <3>3 DEF Request, Phases
    <3>5. new.op = req[q].op /\ new.loc = req[q].loc /\ new.key = req[q].key /\ new.seen = req[q].seen
          /\ new.phase = "loaded" /\ new.loaded = row[req[q].loc]
      BY <1>1 DEF Request
    <3> HIDE DEF new
    <3>6. Shape(new)
      BY <1>1, <3>2, <3>3, <3>5 DEF Shape, JobKinds
    <3> QED BY <1>1, <3>1, <3>4, <3>6
  <2> QED BY <2>1, <2>2
<1>3. ASSUME NEW q \in Requests, Patch(q)
      PROVE  req' \in [Requests -> Request] /\ \A p \in Requests : Shape(req'[p])
  <2>1. req[q].phase # "new"
    BY <1>3 DEF Patch, CheckOverlap, NameTaken, CommitCreate, CommitPatch, At
  <2>2. CASE Answer(q)
    BY <2>1, <2>2, PhaseShape DEF Answer, Phases
  <2>3. CASE ~ Answer(q)
    <3>1. Goto(q, "checked") /\ (At(q, "create", "sent") \/ At(q, "patch", "loaded"))
      BY <1>3, <2>3 DEF Patch, CheckOverlap, NameTaken, CommitCreate, CommitPatch
    <3>2. Shape([req[q] EXCEPT !.phase = "checked"])
      BY <1>1, <3>1 DEF Shape, At, JobKinds, Request
    <3> QED BY <2>1, <3>1, <3>2, PhaseShape DEF Phases
  <2> QED BY <2>2, <2>3
<1>4. ASSUME NEW q \in Requests, Delete(q)
      PROVE  req' \in [Requests -> Request] /\ \A p \in Requests : Shape(req'[p])
  <2>1. req[q].phase # "new"
    BY <1>4 DEF Delete, CountJobs, CommitDelete, At
  <2>2. CASE Answer(q)
    BY <2>1, <2>2, PhaseShape DEF Answer, Phases
  <2>3. CASE ~ Answer(q)
    <3>1. Goto(q, "counted") /\ At(q, "delete", "loaded")
      BY <1>4, <2>3 DEF Delete, CountJobs, CommitDelete
    <3>2. Shape([req[q] EXCEPT !.phase = "counted"])
      BY <1>1, <3>1 DEF Shape, At, JobKinds, Request
    <3> QED BY <2>1, <3>1, <3>2, PhaseShape DEF Phases
  <2> QED BY <2>2, <2>3
<1>5. ASSUME NEW q \in Requests, StartJob(q)
      PROVE  req' \in [Requests -> Request] /\ \A p \in Requests : Shape(req'[p])
  <2>1. req[q].phase # "new"
    BY <1>5 DEF StartJob, Reserve, Enqueue, Coalesce, CommitJob
  <2>2. CASE Answer(q)
    BY <2>1, <2>2, PhaseShape DEF Answer, Phases
  <2>3. CASE ~ Answer(q)
    <3>1. PICK phase \in {"reserved", "rejected", "inserted"} : Goto(q, phase) /\ req[q].op \in JobKinds
      BY <1>5, <2>3 DEF StartJob, Reserve, Enqueue, Coalesce, CommitJob, Accept, RollBack
    <3>2. Shape([req[q] EXCEPT !.phase = phase])
      BY <1>1, <3>1 DEF Shape, JobKinds, Request
    <3> QED BY <2>1, <3>1, <3>2, PhaseShape DEF Phases
  <2> QED BY <2>2, <2>3
<1>6. ASSUME NEW q \in Requests, Die(q)
      PROVE  req' \in [Requests -> Request] /\ \A p \in Requests : Shape(req'[p])
  BY <1>6, PhaseShape DEF Die, RollBack, Answer, InFlight, Phases
<1>7. ASSUME UNCHANGED req
      PROVE  req' \in [Requests -> Request] /\ \A p \in Requests : Shape(req'[p])
  BY <1>1, <1>7
<1>8. ASSUME NEW q \in Requests, JobEnds(q) PROVE UNCHANGED req
  BY <1>8 DEF JobEnds
<1>9. ASSUME NEW k \in Keys, Collect(k) PROVE UNCHANGED req
  BY <1>9 DEF Collect
<1>10. CASE Quiet \/ UNCHANGED vars
  BY <1>10, <1>7 DEF Quiet, vars
<1> QED BY <1>2, <1>3, <1>4, <1>5, <1>6, <1>7, <1>8, <1>9, <1>10, SendShape DEF Next

-----------------------------------------------------------------------------
(***************************************************************************)
(* Idempotency keys.                                                       *)
(***************************************************************************)

Holding == {"reserved", "rejected", "inserted"}

\* A transaction past its reservation holds the record of its key, uncommitted.
HoldInv ==
  \A q \in Requests : req[q].phase \in Holding =>
    LET r == record[req[q].key] IN r # None /\ ~ r.committed /\ r.by = q

\* The answers a key has given are its committed record's.
KeyInv ==
  \A k \in Keys : answered[k] \subseteq IF record[k] # None /\ record[k].committed THEN {record[k].job} ELSE {}

\* An uncommitted job belongs to a transaction that has inserted it.
PendingInv ==
  \A j \in Requests : job[j].status = "pending" =>
    req[j].phase = "inserted" /\ job[j].loc = req[j].loc /\ job[j].kind = req[j].op

InsertedInv == \A q \in Requests : req[q].phase = "inserted" => job[q].status = "pending"

KeysInv == Typed /\ HoldInv /\ KeyInv /\ PendingInv /\ InsertedInv

\* A phase beyond the reservation is one of a job request, with its key.
LEMMA HoldingShape ==
  ASSUME Typed, NEW q \in Requests, req[q].phase \in Holding
  PROVE  req[q].op \in JobKinds /\ req[q].key \in Keys
BY DEF Typed, TypeOK, Shape, Request, Holding, New, JobKinds

\* Every step keeps the types of the idempotency records, and what their keys were answered with.
LEMMA RecordTypes ==
  ASSUME KeysInv, [Next]_vars
  PROVE  /\ record' \in [Keys -> Record \cup {None}]
         /\ \A k \in Keys : (record[k] # None /\ record[k].committed => record[k].job # None)'
         /\ answered' \in [Keys -> SUBSET Requests]
         /\ KeyInv'
<1>1. /\ record \in [Keys -> Record \cup {None}] /\ answered \in [Keys -> SUBSET Requests]
      /\ \A k \in Keys : record[k] # None /\ record[k].committed => record[k].job # None
      /\ \A q \in Requests : Shape(req[q])
      /\ \A q \in Requests : req[q] \in Request
  BY DEF KeysInv, Typed, TypeOK
<1> DEFINE Goal == /\ record' \in [Keys -> Record \cup {None}]
                   /\ \A k \in Keys : (record[k] # None /\ record[k].committed => record[k].job # None)'
                   /\ answered' \in [Keys -> SUBSET Requests]
                   /\ KeyInv'
<1>2. ASSUME UNCHANGED <<record, answered>> PROVE Goal
  BY <1>1, <1>2 DEF KeysInv, KeyInv
<1>3. ASSUME NEW q \in Requests, NEW j \in Requests, Accept(q, j), req[q].phase \in Holding PROVE Goal
  <2> DEFINE k == req[q].key
  <2>1. k \in Keys /\ record[k] # None /\ ~ record[k].committed
    BY <1>3, HoldingShape DEF KeysInv, HoldInv
  <2>2. record[k] \in Record
    BY <1>1, <2>1
  <2>3. /\ record' = [record EXCEPT ![k] = [record[k] EXCEPT !.job = j, !.committed = TRUE]]
        /\ answered' = [answered EXCEPT ![k] = answered[k] \cup {j}]
    BY <1>1, <1>3, <2>1, <2>2 DEF Accept, JobOf, Record
  <2>4. [record[k] EXCEPT !.job = j, !.committed = TRUE] \in Record
    BY <2>2 DEF Record
  <2>5. answered[k] = {}
    BY <2>1 DEF KeysInv, KeyInv
  <2>6. /\ record' \in [Keys -> Record \cup {None}] /\ answered' \in [Keys -> SUBSET Requests]
    BY <1>1, <2>1, <2>3, <2>4
  <2>7. record'[k].job = j /\ record'[k].committed /\ answered'[k] = {j}
    BY <1>1, <2>1, <2>2, <2>3, <2>5 DEF Record
  <2>8. \A x \in Keys \ {k} : record'[x] = record[x] /\ answered'[x] = answered[x]
    BY <1>1, <2>3
  <2>9. record'[k] # None /\ j # None
    BY <2>1, <2>3, <2>4, <1>1, NoneAssumption
  <2> QED BY <1>1, <2>1, <2>6, <2>7, <2>8, <2>9 DEF KeysInv, KeyInv
<1>4. ASSUME NEW q \in Requests, RollBack(q), UNCHANGED answered PROVE Goal
  BY <1>1, <1>4 DEF RollBack, KeysInv, KeyInv
<1>5. ASSUME NEW q \in Requests, Reserve(q) PROVE Goal
  <2> DEFINE k == req[q].key
             r == [fingerprint |-> Fingerprint(q), job |-> None, by |-> q, committed |-> FALSE]
  <2>1. k \in Keys
    BY <1>1, <1>5 DEF Reserve, Shape
  <2>2. CASE record[k] = None
    <3>1. r \in Record
      BY <1>1, <1>5 DEF Record, Fingerprint, Reserve, Request
    <3>2. record' = [record EXCEPT ![k] = r] /\ answered' = answered
      BY <1>5, <2>2 DEF Reserve
    <3> QED BY <1>1, <2>1, <2>2, <3>1, <3>2 DEF KeysInv, KeyInv
  <2>3. CASE record[k] # None
    <3>1. record[k] \in Record /\ record[k].committed /\ record[k].job \in Requests
      BY <1>1, <1>5, <2>1, <2>3 DEF Reserve, Record
    <3>2. record' = record /\ (answered' = answered \/ answered' = [answered EXCEPT ![k] = @ \cup {record[k].job}])
      BY <1>5, <2>3 DEF Reserve
    <3> QED BY <1>1, <2>1, <2>3, <3>1, <3>2 DEF KeysInv, KeyInv
  <2> QED BY <2>2, <2>3
<1>6. ASSUME NEW q \in Requests, StartJob(q) PROVE Goal
  BY <1>2, <1>3, <1>4, <1>5, <1>6, Zenon
  DEF StartJob, Enqueue, Coalesce, CommitJob, Same, Holding, history
<1>7. ASSUME NEW k \in Keys, Collect(k) PROVE Goal
  <2>1. answered'[k] = {}
    BY <1>1, <1>7 DEF Collect, Collectable, KeysInv, KeyInv
  <2> QED BY <1>1, <1>7, <2>1 DEF Collect, KeysInv, KeyInv
<1>8. ASSUME NEW q \in Requests,
             \/ Send(q) \/ SendRebuild(q) \/ SendCreate(q) \/ Load(q) \/ Patch(q) \/ Delete(q) \/ JobEnds(q)
      PROVE  UNCHANGED <<record, answered>>
  BY <1>8 DEF Send, SendRebuild, SendCreate, Load, Patch, CheckOverlap, NameTaken, CommitCreate, CommitPatch,
              Delete, CountJobs, CommitDelete, JobEnds, tables, history
<1>9. CASE Quiet \/ UNCHANGED vars
  BY <1>9, <1>2 DEF Quiet, vars, tables, history
<1>10. ASSUME NEW q \in Requests, Die(q) PROVE Goal
  BY <1>10, <1>4 DEF Die, history
<1> QED BY <1>2, <1>6, <1>7, <1>8, <1>9, <1>10 DEF Next

\* What a step does to the requests: one of them moves, or none.
LEMMA OneMoves ==
  ASSUME Typed, [Next]_vars
  PROVE  \/ UNCHANGED req
         \/ \E q \in Requests : \A p \in Requests \ {q} : req'[p] = req[p]
<1>1. req \in [Requests -> Request]
  BY DEF Typed, TypeOK
<1>2. ASSUME NEW q \in Requests, \E new : req' = [req EXCEPT ![q] = new]
      PROVE  \E x \in Requests : \A p \in Requests \ {x} : req'[p] = req[p]
  BY <1>1, <1>2
<1>3. ASSUME NEW q \in Requests, Send(q) \/ SendRebuild(q) \/ SendCreate(q)
      PROVE  \E new : req' = [req EXCEPT ![q] = new]
  BY <1>3 DEF Send, SendRebuild, SendCreate
<1>4. ASSUME NEW q \in Requests, NEW phase, Goto(q, phase)
      PROVE  \E new : req' = [req EXCEPT ![q] = new]
  BY <1>4 DEF Goto
<1>5. ASSUME NEW q \in Requests, Load(q)
      PROVE  \E x \in Requests : \A p \in Requests \ {x} : req'[p] = req[p]
  BY <1>1, <1>5 DEF Load, Answer, Goto
<1>6. ASSUME NEW q \in Requests, Patch(q) \/ Delete(q) \/ StartJob(q) \/ Die(q)
      PROVE  \E phase : Goto(q, phase)
  BY <1>6 DEF Patch, CheckOverlap, NameTaken, CommitCreate, CommitPatch, Delete, CountJobs, CommitDelete, StartJob,
              Reserve, Enqueue, Coalesce, CommitJob, Accept, RollBack, Die, Answer
<1>7. ASSUME NEW q \in Requests, JobEnds(q) PROVE UNCHANGED req
  BY <1>7 DEF JobEnds
<1>8. ASSUME NEW k \in Keys, Collect(k) PROVE UNCHANGED req
  BY <1>8 DEF Collect
<1>9. CASE Quiet \/ UNCHANGED vars
  BY <1>9 DEF Quiet, vars
<1> QED BY <1>2, <1>3, <1>4, <1>5, <1>6, <1>7, <1>8, <1>9 DEF Next

\* Before its reservation a request leaves jobs and records alone.
LEMMA BeforeReservation ==
  ASSUME Typed, NEW q \in Requests,
         Send(q) \/ SendRebuild(q) \/ SendCreate(q) \/ Load(q) \/ Patch(q) \/ Delete(q)
  PROVE  /\ UNCHANGED <<record, job>>
         /\ req[q].phase \notin Holding /\ req'[q].phase \notin Holding
         /\ \A p \in Requests \ {q} : req'[p] = req[p]
<1>1. req \in [Requests -> Request]
  BY DEF Typed, TypeOK
<1>2. UNCHANGED <<record, job>>
  BY DEF Send, SendRebuild, SendCreate, Load, Patch, CheckOverlap, NameTaken, CommitCreate, CommitPatch, Delete,
         CountJobs, CommitDelete, tables
<1>3. req[q].phase \notin Holding
  BY DEF Send, SendRebuild, SendCreate, Load, Patch, CheckOverlap, NameTaken, CommitCreate, CommitPatch, Delete,
         CountJobs, CommitDelete, At, Holding
<1>4. ASSUME NEW phase \in Phases \ Holding, Goto(q, phase)
      PROVE  req'[q].phase \notin Holding /\ \A p \in Requests \ {q} : req'[p] = req[p]
  BY <1>1, <1>4 DEF Goto, Request
<1>5. CASE Send(q) \/ SendRebuild(q) \/ SendCreate(q)
  BY <1>2, <1>3, <1>5, SendShape DEF Holding
<1>6. CASE Load(q)
  BY <1>1, <1>2, <1>3, <1>4, <1>6 DEF Load, Answer, Request, Holding, Phases
<1>7. CASE Patch(q) \/ Delete(q)
  <2>1. \E phase \in {"checked", "counted", "answered"} : Goto(q, phase)
    BY <1>7 DEF Patch, CheckOverlap, NameTaken, CommitCreate, CommitPatch, Delete, CountJobs, CommitDelete, Answer
  <2> QED BY <1>2, <1>3, <1>4, <2>1 DEF Phases, Holding
<1> QED BY <1>5, <1>6, <1>7

\* Every step keeps the types of the jobs, and the pending ones with their requests.
LEMMA JobTypes ==
  ASSUME KeysInv, [Next]_vars
  PROVE  job' \in [Requests -> Job] /\ PendingInv' /\ InsertedInv'
<1>1. job \in [Requests -> Job] /\ req \in [Requests -> Request] /\ \A q \in Requests : Shape(req[q])
  BY DEF KeysInv, Typed, TypeOK
<1>2. ASSUME NEW q \in Requests, Send(q) \/ SendRebuild(q) \/ SendCreate(q) \/ Load(q) \/ Patch(q) \/ Delete(q)
      PROVE  /\ UNCHANGED job /\ req[q].phase # "inserted" /\ req'[q].phase # "inserted"
             /\ \A p \in Requests \ {q} : req'[p] = req[p]
  BY <1>2, BeforeReservation DEF KeysInv, Holding
<1>3. ASSUME UNCHANGED job, NEW q \in Requests, req[q].phase # "inserted", req'[q].phase # "inserted",
             \A p \in Requests \ {q} : req'[p] = req[p]
      PROVE  job' \in [Requests -> Job] /\ PendingInv' /\ InsertedInv'
  BY <1>1, <1>3 DEF KeysInv, PendingInv, InsertedInv
<1>4. ASSUME NEW q \in Requests, Enqueue(q) PROVE job' \in [Requests -> Job] /\ PendingInv' /\ InsertedInv'
  <2>1. CASE Goto(q, "rejected") /\ UNCHANGED job
    <3>1. req[q].phase # "inserted" /\ req' = [req EXCEPT ![q].phase = "rejected"]
      BY <1>4, <2>1 DEF Enqueue, Goto
    <3>2. req'[q].phase # "inserted" /\ \A p \in Requests \ {q} : req'[p] = req[p]
      BY <1>1, <3>1 DEF Request
    <3> QED BY <1>3, <2>1, <3>1, <3>2
  <2>2. CASE ~ (Goto(q, "rejected") /\ UNCHANGED job)
    <3> DEFINE new == [status |-> "pending", kind |-> req[q].op, loc |-> req[q].loc]
    <3>1. job' = [job EXCEPT ![q] = new] /\ req' = [req EXCEPT ![q].phase = "inserted"] /\ req[q].op \in JobKinds
      BY <1>4, <2>2 DEF Enqueue, Goto
    <3>2. new \in Job
      BY <1>1, <3>1 DEF Job, Request
    <3> QED BY <1>1, <3>1, <3>2 DEF KeysInv, PendingInv, InsertedInv
  <2> QED BY <2>1, <2>2
<1>5. ASSUME NEW q \in Requests, RollBack(q) PROVE job' \in [Requests -> Job] /\ PendingInv' /\ InsertedInv'
  BY <1>1, <1>5 DEF RollBack, Answer, Goto, KeysInv, PendingInv, InsertedInv, Job, NoJob
<1>5a. ASSUME NEW q \in Requests, NEW phase \in {"reserved", "answered"}, Goto(q, phase), UNCHANGED job,
              req[q].phase # "inserted"
       PROVE  job' \in [Requests -> Job] /\ PendingInv' /\ InsertedInv'
  <2>1. req'[q].phase # "inserted" /\ \A p \in Requests \ {q} : req'[p] = req[p]
    BY <1>1, <1>5a DEF Goto, Request
  <2> QED BY <1>3, <1>5a, <2>1
<1>6. ASSUME NEW q \in Requests, Reserve(q) PROVE job' \in [Requests -> Job] /\ PendingInv' /\ InsertedInv'
  BY <1>6, <1>5a, Zenon DEF Reserve, Answer
<1>7. ASSUME NEW q \in Requests, Coalesce(q) PROVE job' \in [Requests -> Job] /\ PendingInv' /\ InsertedInv'
  BY <1>5, <1>7, <1>5a DEF Coalesce, Accept, Answer
<1>8. ASSUME NEW q \in Requests, CommitJob(q) PROVE job' \in [Requests -> Job] /\ PendingInv' /\ InsertedInv'
  BY <1>1, <1>8 DEF CommitJob, Accept, Answer, Goto, KeysInv, PendingInv, InsertedInv, Job
<1>9. ASSUME NEW q \in Requests, Die(q) PROVE job' \in [Requests -> Job] /\ PendingInv' /\ InsertedInv'
  BY <1>5, <1>9 DEF Die
<1>10. ASSUME NEW q \in Requests, JobEnds(q) PROVE job' \in [Requests -> Job] /\ PendingInv' /\ InsertedInv'
  BY <1>1, <1>10 DEF JobEnds, KeysInv, PendingInv, InsertedInv, Job
<1>11. CASE UNCHANGED <<job, req>>
  BY <1>1, <1>11 DEF KeysInv, PendingInv, InsertedInv
<1>12. ASSUME NEW k \in Keys, Collect(k) PROVE UNCHANGED <<job, req>>
  BY <1>12 DEF Collect
<1>13. CASE Quiet \/ UNCHANGED vars
  BY <1>13, <1>11 DEF Quiet, vars, tables
<1> QED BY <1>2, <1>3, <1>4, <1>6, <1>7, <1>8, <1>9, <1>10, <1>11, <1>12, <1>13 DEF Next, StartJob

\* Every step keeps what ties records, requests and jobs together.
LEMMA Holds ==
  ASSUME KeysInv, [Next]_vars
  PROVE  HoldInv'
<1>1. /\ record \in [Keys -> Record \cup {None}] /\ req \in [Requests -> Request]
      /\ \A q \in Requests : Shape(req[q])
      /\ \A q \in Requests : req[q].phase \in Holding =>
           req[q].key \in Keys /\ record[req[q].key] \in Record /\ ~ record[req[q].key].committed /\ record[req[q].key].by = q
  BY HoldingShape DEF KeysInv, Typed, TypeOK, HoldInv
<1>2. ASSUME NEW q \in Requests, Send(q) \/ SendRebuild(q) \/ SendCreate(q) \/ Load(q) \/ Patch(q) \/ Delete(q)
      PROVE  UNCHANGED record /\ req'[q].phase \notin Holding /\ \A p \in Requests \ {q} : req'[p] = req[p]
  BY <1>2, BeforeReservation DEF KeysInv
<1>3. ASSUME UNCHANGED record, NEW q \in Requests,
             req'[q].phase \in Holding => req'[q].key = req[q].key /\ req[q].phase \in Holding,
             \A p \in Requests \ {q} : req'[p] = req[p]
      PROVE  HoldInv'
  BY <1>1, <1>3 DEF KeysInv, HoldInv
<1>4. ASSUME NEW q \in Requests, Enqueue(q) PROVE HoldInv'
  BY <1>1, <1>3, <1>4 DEF Enqueue, Goto, Holding, Request
<1>5. ASSUME NEW q \in Requests, RollBack(q) PROVE HoldInv'
  BY <1>1, <1>5 DEF RollBack, Answer, Goto, KeysInv, HoldInv, Holding, Request
<1>6. ASSUME NEW q \in Requests, Reserve(q) PROVE HoldInv'
  <2>1. CASE record[req[q].key] = None
    <3> DEFINE k == req[q].key
               r == [fingerprint |-> Fingerprint(q), job |-> None, by |-> q, committed |-> FALSE]
    <3>1. r \in Record
      BY <1>1, <1>6 DEF Record, Fingerprint, Reserve, Request
    <3>2. record' = [record EXCEPT ![k] = r] /\ req' = [req EXCEPT ![q].phase = "reserved"]
      BY <1>6, <2>1 DEF Reserve, Goto
    <3>3. k \in Keys /\ r # None
      BY <1>1, <1>6, <3>1, NoneAssumption DEF Reserve, Shape
    <3>4. ASSUME NEW p \in Requests \ {q}, req[p].phase \in Holding PROVE req[p].key # k
      BY <1>1, <2>1, <3>4, NoneAssumption
    <3> QED BY <1>1, <3>2, <3>3, <3>4 DEF KeysInv, HoldInv, Request
  <2>2. CASE record[req[q].key] # None
    <3>1. UNCHANGED record /\ req' = [req EXCEPT ![q].phase = "answered"]
      BY <1>6, <2>2 DEF Reserve, Answer, Goto
    <3>2. req'[q].phase \notin Holding /\ \A p \in Requests \ {q} : req'[p] = req[p]
      BY <1>1, <3>1 DEF Request, Holding
    <3> QED BY <1>3, <3>1, <3>2
  <2> QED BY <2>1, <2>2
<1>7. ASSUME NEW q \in Requests, NEW j \in Requests, Accept(q, j), req[q].phase \in Holding PROVE HoldInv'
  <2>1. \A p \in Requests \ {q} : req[p].phase \in Holding => req[p].key # req[q].key
    BY <1>1, <1>7
  <2> QED BY <1>1, <1>7, <2>1 DEF Accept, Answer, Goto, KeysInv, HoldInv, Holding, Request
<1>8. ASSUME NEW q \in Requests, Coalesce(q) \/ CommitJob(q) PROVE HoldInv'
  BY <1>5, <1>7, <1>8 DEF Coalesce, CommitJob, Same, Holding
<1>9. ASSUME NEW q \in Requests, Die(q) PROVE HoldInv'
  BY <1>5, <1>9 DEF Die
<1>10. ASSUME NEW k \in Keys, Collect(k) PROVE HoldInv'
  BY <1>1, <1>10 DEF Collect, Collectable, KeysInv, HoldInv
<1>11. CASE UNCHANGED <<record, req>>
  BY <1>11 DEF KeysInv, HoldInv
<1>12. ASSUME NEW q \in Requests, JobEnds(q) PROVE UNCHANGED <<record, req>>
  BY <1>12 DEF JobEnds
<1>13. CASE Quiet \/ UNCHANGED vars
  BY <1>13, <1>11 DEF Quiet, vars, tables
<1> QED BY <1>2, <1>3, <1>4, <1>6, <1>8, <1>9, <1>10, <1>11, <1>12, <1>13 DEF Next, StartJob

\* A patch that is committed leaves a row; nothing else of it matters here.
LEMMA PatchedRow ==
  ASSUME Typed, NEW q \in Requests, CommitPatch(q), row[req[q].loc] # None
  PROVE  /\ req[q].loc \in Locs /\ req[q].loaded \in Row
         /\ row'[req[q].loc] \in Row
         /\ row'[req[q].loc].author = q /\ row'[req[q].loc].revision = req[q].loaded.revision + 1
         /\ \A m \in Locs \ {req[q].loc} : row'[m] = row[m]
         /\ row' \in [Locs -> Row \cup {None}]
<1> DEFINE l == req[q].loc
           old == req[q].loaded
           flips == req[q].want = (IF old.enabled THEN "off" ELSE "on")
           new == [enabled |-> IF flips THEN ~ old.enabled ELSE row[l].enabled,
                   revision |-> old.revision + 1, author |-> q]
<1>1. l \in Locs /\ old \in Row /\ row \in [Locs -> Row \cup {None}]
  BY DEF CommitPatch, At, Typed, TypeOK, Shape
<1>2. row[l] \in Row
  BY <1>1
<1>3. row' = [row EXCEPT ![l] = new]
  BY DEF CommitPatch
<1>4. new \in Row
  <2>1. old.enabled \in BOOLEAN /\ row[l].enabled \in BOOLEAN /\ old.revision \in Nat \ {0}
    BY <1>1, <1>2 DEF Row
  <2>2. new.enabled \in BOOLEAN
    BY <2>1
  <2>3. old.revision + 1 \in Nat \ {0}
    BY <2>1
  <2> QED BY <2>2, <2>3 DEF Row
<1> HIDE DEF new
<1>5. new.author = q /\ new.revision = old.revision + 1
  BY DEF new
<1> QED BY <1>1, <1>3, <1>4, <1>5

\* Every step keeps the other types.
LEMMA OtherTypes ==
  ASSUME KeysInv, [Next]_vars
  PROVE  /\ row' \in [Locs -> Row \cup {None}]
         /\ together' \subseteq SUBSET Requests
         /\ enabler' \in [Locs -> Requests \cup {None}] /\ deleter' \in [Locs -> Requests \cup {None}]
         /\ patched' \subseteq Locs \X Requests /\ lost' \subseteq Locs
         /\ faults' \in 0 .. MaxFaults
<1> DEFINE T(r, t, e, d, p, x, f) ==
      /\ r \in [Locs -> Row \cup {None}] /\ t \subseteq SUBSET Requests
      /\ e \in [Locs -> Requests \cup {None}] /\ d \in [Locs -> Requests \cup {None}]
      /\ p \subseteq Locs \X Requests /\ x \subseteq Locs /\ f \in 0 .. MaxFaults
    Goal == T(row', together', enabler', deleter', patched', lost', faults')
<1>1. T(row, together, enabler, deleter, patched, lost, faults)
  BY DEF KeysInv, Typed, TypeOK
<1>2. CASE UNCHANGED <<row, together, enabler, deleter, patched, lost, faults>>
  BY <1>1, <1>2
<1>3. ASSUME NEW q \in Requests, Meet(q), UNCHANGED <<row, enabler, deleter, patched, lost, faults>> PROVE Goal
  BY <1>1, <1>3 DEF Meet
<1>4. ASSUME NEW q \in Requests, CommitCreate(q) PROVE Goal
  <2>1. req[q].loc \in Locs
    BY <1>4 DEF CommitCreate, At, KeysInv, Typed, Shape
  <2>2. [enabled |-> req[q].want = "on", revision |-> 1, author |-> q] \in Row
    BY DEF Row
  <2> QED BY <1>1, <1>4, <2>1, <2>2 DEF CommitCreate
<1>5. ASSUME NEW q \in Requests, CommitPatch(q) PROVE Goal
  <2>1. CASE row[req[q].loc] = None
    BY <1>2, <1>5, <2>1 DEF CommitPatch
  <2>2. CASE row[req[q].loc] # None
    <3>1. req[q].loc \in Locs /\ row' \in [Locs -> Row \cup {None}]
      BY <1>5, <2>2, PatchedRow DEF KeysInv
    <3>2. UNCHANGED <<together, deleter, faults>> /\ patched' = patched \cup {<<req[q].loc, q>>}
      BY <1>5, <2>2 DEF CommitPatch
    <3>3. enabler' \in {enabler, [enabler EXCEPT ![req[q].loc] = q]} /\ lost' \in {lost, lost \cup {req[q].loc}}
      BY <1>5, <2>2 DEF CommitPatch
    <3> QED BY <1>1, <3>1, <3>2, <3>3
  <2> QED BY <2>1, <2>2
<1>6. ASSUME NEW q \in Requests, CommitDelete(q) PROVE Goal
  <2>1. req[q].loc \in Locs
    BY <1>6 DEF CommitDelete, At, KeysInv, Typed, Shape
  <2> QED BY <1>1, <1>6, <2>1 DEF CommitDelete
<1>7. ASSUME NEW q \in Requests, Die(q) PROVE Goal
  BY <1>1, <1>7, LocationsAssumption DEF Die, history, LocationsAssumption
<1>8. ASSUME NEW q \in Requests, SendRebuild(q) \/ Load(q) \/ CheckOverlap(q) PROVE Goal
  BY <1>2, <1>3, <1>8 DEF SendRebuild, Load, CheckOverlap, tables
<1>9. ASSUME NEW q \in Requests,
             Send(q) \/ SendCreate(q) \/ NameTaken(q) \/ CountJobs(q) \/ StartJob(q) \/ JobEnds(q)
      PROVE  UNCHANGED <<row, together, enabler, deleter, patched, lost, faults>>
  BY <1>9 DEF Send, SendCreate, NameTaken, CountJobs, StartJob, Reserve, Enqueue, Coalesce, CommitJob, JobEnds,
              tables, history
<1>10. ASSUME NEW k \in Keys, Collect(k) PROVE UNCHANGED <<row, together, enabler, deleter, patched, lost, faults>>
  BY <1>10 DEF Collect
<1>11. CASE Quiet \/ UNCHANGED vars
  BY <1>2, <1>11 DEF Quiet, vars, tables, history
<1> QED BY <1>2, <1>4, <1>5, <1>6, <1>7, <1>8, <1>9, <1>10, <1>11 DEF Next, Patch, Delete

\* Every step keeps the invariant of the keys.
LEMMA StepKeysInv == ASSUME KeysInv, [Next]_vars PROVE KeysInv'
<1>1. TypeOK'
  BY RecordTypes, JobTypes, OtherTypes, RequestShape DEF KeysInv, TypeOK
<1> QED BY <1>1, RequestShape, Holds, RecordTypes, JobTypes DEF KeysInv, Typed

\* The invariant of the keys holds at the start.
LEMMA InitKeysInv == ASSUME Init PROVE KeysInv
<1>1. \A q \in Requests : Shape(req[q])
  BY DEF Init, New, Shape, JobKinds
<1>2. HoldInv /\ KeyInv /\ PendingInv /\ InsertedInv
  BY DEF Init, HoldInv, Holding, KeyInv, PendingInv, InsertedInv, NoJob, New
<1> QED BY <1>1, <1>2, InitTypeOK DEF KeysInv, Typed

\* The tables, the requests and what is remembered of them always have their types; in
\* particular a committed idempotency record (api/dependencies.py) has its job.
THEOREM TypesHold == Spec => []TypeOK
<1>1. KeysInv => TypeOK
  BY DEF KeysInv, Typed
<1> QED BY <1>1, InitKeysInv, StepKeysInv, PTL DEF Spec

\* One idempotency key is never answered with two jobs (reserve_idempotency in
\* api/dependencies.py, gc_stale_rows in jobs/queue.py), for all requests and keys.
THEOREM OneJobHolds == Spec => []OneJobPerKey
<1>1. KeysInv => OneJobPerKey
  <2> SUFFICES ASSUME KeysInv, NEW k \in Keys PROVE Cardinality(answered[k]) <= 1
    BY DEF OneJobPerKey
  <2>1. answered[k] = {} \/ \E j : answered[k] = {j}
    BY DEF KeysInv, KeyInv
  <2> QED BY <2>1, FS_EmptySet, FS_Singleton
<1> QED BY <1>1, InitKeysInv, StepKeysInv, PTL DEF Spec

-----------------------------------------------------------------------------
(***************************************************************************)
(* Requests that race.                                                     *)
(***************************************************************************)

\* Requests that are in flight at once have met.
MeetInv ==
  \A p, q \in Requests : p # q /\ InFlight(p) /\ InFlight(q) => {p, q} \in together

\* Who enters the flight meets all that are there.
LEMMA Enters ==
  ASSUME KeysInv, [Next]_vars, NEW q \in Requests, ~ InFlight(q), InFlight(q)'
  PROVE  Meet(q)
<1>1. req \in [Requests -> Request] /\ \A p \in Requests : Shape(req[p])
  BY DEF KeysInv, Typed, TypeOK
<1>2. ASSUME UNCHANGED req PROVE FALSE
  BY <1>2 DEF InFlight
<1>3. ASSUME NEW p \in Requests, NEW phase, Goto(p, phase), InFlight(p) \/ phase = "answered" PROVE FALSE
  BY <1>1, <1>3 DEF Goto, InFlight, Request
<1>4. ASSUME NEW p \in Requests, Send(p) \/ SendCreate(p) PROVE FALSE
  <2>1. req'[p].phase = "sent" /\ \A x \in Requests \ {p} : req'[x] = req[x]
    <3>1. CASE Send(p)
      <4>1. PICK r : r.phase = "sent" /\ req' = [req EXCEPT ![p] = r]
        BY <3>1 DEF Send, New
      <4> QED BY <1>1, <4>1
    <3>2. CASE SendCreate(p)
      BY <1>1, <3>2 DEF SendCreate, New
    <3> QED BY <1>4, <3>1, <3>2
  <2> QED BY <2>1 DEF InFlight
<1>5. ASSUME NEW p \in Requests, SendRebuild(p) PROVE Meet(q)
  <2>1. \A x \in Requests \ {p} : req'[x] = req[x]
    BY <1>5, SendShape DEF KeysInv
  <2>2. p = q
    BY <2>1 DEF InFlight
  <2> QED BY <1>5, <2>2 DEF SendRebuild
<1>6. ASSUME NEW p \in Requests, Load(p) PROVE Meet(q)
  BY <1>1, <1>3, <1>6 DEF Load, Answer, InFlight
<1>7. ASSUME NEW p \in Requests, CheckOverlap(p) PROVE Meet(q)
  BY <1>1, <1>3, <1>7 DEF CheckOverlap, Answer, Goto, InFlight
<1>8. ASSUME NEW p \in Requests, NameTaken(p) \/ CommitCreate(p) \/ CommitPatch(p) \/ Delete(p) \/ StartJob(p) \/ Die(p)
      PROVE  FALSE
  <2>1. \E phase : Goto(p, phase) /\ (InFlight(p) \/ phase = "answered")
    BY <1>8 DEF NameTaken, CommitCreate, CommitPatch, Delete, CountJobs, CommitDelete, StartJob, Reserve, Enqueue,
                Coalesce, CommitJob, Accept, RollBack, Die, Answer, InFlight, At
  <2> QED BY <1>3, <2>1
<1>9. ASSUME NEW p \in Requests, JobEnds(p) PROVE FALSE
  BY <1>2, <1>9 DEF JobEnds
<1>10. ASSUME NEW k \in Keys, Collect(k) PROVE FALSE
  BY <1>2, <1>10 DEF Collect
<1>11. CASE Quiet \/ UNCHANGED vars
  BY <1>2, <1>11 DEF Quiet, vars
<1> QED BY <1>4, <1>5, <1>6, <1>7, <1>8, <1>9, <1>10, <1>11 DEF Next, Patch

\* Nothing is forgotten of who was in flight with whom.
LEMMA TogetherGrows == ASSUME [Next]_vars PROVE together \subseteq together'
<1>1. ASSUME NEW q \in Requests, Meet(q) PROVE together \subseteq together'
  BY <1>1 DEF Meet
<1>2. ASSUME NEW q \in Requests, SendRebuild(q) \/ Load(q) \/ CheckOverlap(q) PROVE together \subseteq together'
  BY <1>1, <1>2 DEF SendRebuild, Load, CheckOverlap
<1>3. ASSUME NEW q \in Requests,
             \/ Send(q) \/ SendCreate(q) \/ NameTaken(q) \/ CommitCreate(q) \/ CommitPatch(q) \/ Delete(q)
             \/ StartJob(q) \/ Die(q) \/ JobEnds(q)
      PROVE  UNCHANGED together
  BY <1>3 DEF Send, SendCreate, NameTaken, CommitCreate, CommitPatch, Delete, CountJobs, CommitDelete, StartJob,
              Reserve, Enqueue, Coalesce, CommitJob, Die, JobEnds, history
<1>4. ASSUME NEW k \in Keys, Collect(k) PROVE UNCHANGED together
  BY <1>4 DEF Collect
<1>5. CASE Quiet \/ UNCHANGED vars
  BY <1>5 DEF Quiet, vars, history
<1> QED BY <1>2, <1>3, <1>4, <1>5 DEF Next, Patch

\* Every step keeps the record of who met whom.
LEMMA StepMeetInv == ASSUME KeysInv, MeetInv, [Next]_vars PROVE MeetInv'
<1> SUFFICES ASSUME NEW p \in Requests, NEW q \in Requests, p # q, InFlight(p)', InFlight(q)'
             PROVE  {p, q} \in together'
  BY DEF MeetInv
<1>1. CASE InFlight(p) /\ InFlight(q)
  BY <1>1, TogetherGrows DEF MeetInv
<1>2. ASSUME NEW x \in Requests, NEW y \in Requests, Meet(x), InFlight(y) PROVE {x, y} \in together'
  BY <1>2 DEF Meet
<1>3. ~ (~ InFlight(p) /\ ~ InFlight(q))
  BY OneMoves DEF KeysInv, InFlight
<1>4. {p, q} = {q, p}
  OBVIOUS
<1> QED BY <1>1, <1>2, <1>3, <1>4, Enters

\* Who writes locations.
LEMMA RowSteps ==
  ASSUME [Next]_vars
  PROVE  \/ UNCHANGED <<row, enabler, deleter, patched, lost>>
         \/ \E q \in Requests : CommitCreate(q) \/ (CommitPatch(q) /\ row[req[q].loc] # None) \/ CommitDelete(q)
<1>1. ASSUME NEW q \in Requests,
             \/ Send(q) \/ SendRebuild(q) \/ SendCreate(q) \/ Load(q) \/ CheckOverlap(q) \/ NameTaken(q)
             \/ CountJobs(q) \/ StartJob(q) \/ Die(q) \/ JobEnds(q)
      PROVE  UNCHANGED <<row, enabler, deleter, patched, lost>>
  BY <1>1 DEF Send, SendRebuild, SendCreate, Load, CheckOverlap, NameTaken, CountJobs, StartJob, Reserve, Enqueue,
              Coalesce, CommitJob, Die, JobEnds, tables, history
<1>2. ASSUME NEW q \in Requests, CommitPatch(q), row[req[q].loc] = None
      PROVE  UNCHANGED <<row, enabler, deleter, patched, lost>>
  BY <1>2 DEF CommitPatch
<1>3. ASSUME NEW k \in Keys, Collect(k) PROVE UNCHANGED <<row, enabler, deleter, patched, lost>>
  BY <1>3 DEF Collect
<1>4. CASE Quiet \/ UNCHANGED vars
  BY <1>4 DEF Quiet, vars, tables, history
<1> QED BY <1>1, <1>2, <1>3, <1>4 DEF Next, Patch, Delete

-----------------------------------------------------------------------------
(***************************************************************************)
(* Deleting a location while its jobs are inserted.                        *)
(***************************************************************************)

\* A job of the location that opened after a deletion has counted was inserted by a
\* request that was in flight together with it.
CountInv ==
  \A d, j \in Requests :
    At(d, "delete", "counted") /\ job[j].status = "open" /\ job[j].loc = req[d].loc => {j, d} \in together

JobLocInv ==
  \A j \in Requests :
    job[j].status \in {"pending", "open"} /\ job[j].loc # None =>
      row[job[j].loc] # None \/ (job[j].status = "open" /\ {j, deleter[job[j].loc]} \in together)

OrphanInv == KeysInv /\ MeetInv /\ CountInv /\ JobLocInv

\* What may become of a job in a step.
LEMMA JobSteps ==
  ASSUME KeysInv, [Next]_vars
  PROVE  \A j \in Requests :
           \/ job'[j].status \notin {"pending", "open"}
           \/ job'[j] = job[j]
           \/ /\ job'[j].status = "pending" /\ Enqueue(j)
              /\ job'[j].loc = req[j].loc /\ (req[j].loc # None => row[req[j].loc] # None)
           \/ /\ job[j].status = "pending" /\ CommitJob(j)
              /\ job'[j].status = "open" /\ job'[j].loc = job[j].loc
<1> DEFINE Kinds(j) ==
      \/ job'[j].status \notin {"pending", "open"}
      \/ job'[j] = job[j]
      \/ /\ job'[j].status = "pending" /\ Enqueue(j)
         /\ job'[j].loc = req[j].loc /\ (req[j].loc # None => row[req[j].loc] # None)
      \/ /\ job[j].status = "pending" /\ CommitJob(j)
         /\ job'[j].status = "open" /\ job'[j].loc = job[j].loc
<1>1. job \in [Requests -> Job] /\ req \in [Requests -> Request] /\ \A q \in Requests : Shape(req[q])
  BY DEF KeysInv, Typed, TypeOK
<1>2. ASSUME NEW q \in Requests, Enqueue(q) PROVE \A j \in Requests : Kinds(j)
  BY <1>1, <1>2 DEF Enqueue
<1>3. ASSUME NEW q \in Requests, RollBack(q) PROVE \A j \in Requests : Kinds(j)
  BY <1>1, <1>3 DEF RollBack, NoJob
<1>4. ASSUME NEW q \in Requests, CommitJob(q) PROVE \A j \in Requests : Kinds(j)
  <2>1. job' = [job EXCEPT ![q] = [job[q] EXCEPT !.status = "open"]]
    BY <1>4 DEF CommitJob
  <2>2. job'[q].status = "open" /\ job'[q].loc = job[q].loc /\ \A j \in Requests \ {q} : job'[j] = job[j]
    BY <1>1, <2>1 DEF Job
  <2>3. job[q].status = "pending"
    BY <1>4 DEF CommitJob, KeysInv, InsertedInv
  <2> QED BY <1>4, <2>2, <2>3
<1>5. ASSUME NEW q \in Requests, JobEnds(q) PROVE \A j \in Requests : Kinds(j)
  BY <1>1, <1>5 DEF JobEnds, Job
<1>6. ASSUME NEW q \in Requests, Reserve(q) \/ Coalesce(q) \/ Die(q) PROVE \A j \in Requests : Kinds(j)
  BY <1>3, <1>6 DEF Reserve, Coalesce, Die
<1>7. ASSUME NEW q \in Requests, Send(q) \/ SendRebuild(q) \/ SendCreate(q) \/ Load(q) \/ Patch(q) \/ Delete(q)
      PROVE  UNCHANGED job
  BY <1>7 DEF Send, SendRebuild, SendCreate, Load, Patch, CheckOverlap, NameTaken, CommitCreate, CommitPatch, Delete,
              CountJobs, CommitDelete, tables
<1>8. ASSUME NEW k \in Keys, Collect(k) PROVE UNCHANGED job
  BY <1>8 DEF Collect
<1>9. CASE Quiet \/ UNCHANGED vars
  BY <1>9 DEF Quiet, vars, tables
<1> QED BY <1>2, <1>4, <1>5, <1>6, <1>7, <1>8, <1>9 DEF Next, StartJob

\* A deletion counts, and commits while nobody has inserted a job of the location.
LEMMA DeleteSteps ==
  ASSUME KeysInv, [Next]_vars
  PROVE  \A d \in Requests : At(d, "delete", "counted")' =>
           \/ At(d, "delete", "counted") /\ req'[d].loc = req[d].loc
           \/ OpenJobs(req[d].loc) = {} /\ UNCHANGED job /\ req'[d].loc = req[d].loc
<1>1. req \in [Requests -> Request] /\ req' \in [Requests -> Request] /\ \A p \in Requests : Shape(req'[p])
  BY RequestShape DEF KeysInv, Typed, TypeOK
<1> SUFFICES ASSUME NEW d \in Requests, At(d, "delete", "counted")', req'[d] # req[d]
             PROVE  \/ At(d, "delete", "counted") /\ req'[d].loc = req[d].loc
                    \/ OpenJobs(req[d].loc) = {} /\ UNCHANGED job /\ req'[d].loc = req[d].loc
  BY DEF At
<1>2. ASSUME NEW q \in Requests, NEW phase, Goto(q, phase), phase # "counted" PROVE FALSE
  BY <1>1, <1>2 DEF Goto, At, Request
<1>3. ASSUME NEW q \in Requests, Send(q) \/ SendRebuild(q) \/ SendCreate(q) PROVE FALSE
  BY <1>3, SendShape DEF KeysInv, At
<1>4. ASSUME NEW q \in Requests, Load(q) PROVE FALSE
  BY <1>1, <1>2, <1>4 DEF Load, Answer, At, Request
<1>5. ASSUME NEW q \in Requests, Patch(q) \/ CommitDelete(q) \/ StartJob(q) \/ Die(q)
      PROVE  \E phase \in Phases \ {"counted"} : Goto(q, phase)
  BY <1>5 DEF Patch, CheckOverlap, NameTaken, CommitCreate, CommitPatch, CommitDelete, StartJob, Reserve, Enqueue,
              Coalesce, CommitJob, Accept, RollBack, Die, Answer, Phases
<1>6. ASSUME NEW q \in Requests, CountJobs(q)
      PROVE  OpenJobs(req[d].loc) = {} /\ UNCHANGED job /\ req'[d].loc = req[d].loc
  <2>1. OpenJobs(req[q].loc) = {} /\ Goto(q, "counted") /\ UNCHANGED job
    BY <1>2, <1>6 DEF CountJobs, Answer, tables
  <2>2. d = q /\ req'[d].loc = req[d].loc
    BY <1>1, <2>1 DEF Goto, Request
  <2> QED BY <2>1, <2>2
<1>7. ASSUME NEW q \in Requests, JobEnds(q) PROVE FALSE
  BY <1>7 DEF JobEnds
<1>8. ASSUME NEW k \in Keys, Collect(k) PROVE FALSE
  BY <1>8 DEF Collect
<1>9. CASE Quiet \/ UNCHANGED vars
  BY <1>9 DEF Quiet, vars
<1> QED BY <1>2, <1>3, <1>4, <1>5, <1>6, <1>7, <1>8, <1>9 DEF Next, Delete

\* Every step keeps what a deletion has counted.
LEMMA StepCountInv == ASSUME OrphanInv, [Next]_vars PROVE CountInv'
<1> SUFFICES ASSUME NEW d \in Requests, NEW j \in Requests, At(d, "delete", "counted")',
                    job'[j].status = "open", job'[j].loc = req'[d].loc
             PROVE  {j, d} \in together'
  BY DEF CountInv
<1>1. CASE OpenJobs(req[d].loc) = {} /\ UNCHANGED job /\ req'[d].loc = req[d].loc
  BY <1>1 DEF OpenJobs
<1>2. CASE At(d, "delete", "counted") /\ req'[d].loc = req[d].loc
  <2>1. CASE job'[j] = job[j]
    BY <1>2, <2>1, TogetherGrows DEF OrphanInv, CountInv
  <2>2. CASE CommitJob(j)
    <3>1. InFlight(j) /\ InFlight(d) /\ j # d
      BY <1>2, <2>2 DEF CommitJob, InFlight, At
    <3> QED BY <3>1, TogetherGrows DEF OrphanInv, MeetInv
  <2> QED BY <2>1, <2>2, JobSteps DEF OrphanInv
<1> QED BY <1>1, <1>2, DeleteSteps DEF OrphanInv

\* Every step keeps the jobs' locations, or records who took them.
LEMMA StepJobLocInv == ASSUME OrphanInv, [Next]_vars PROVE JobLocInv'
<1> SUFFICES ASSUME NEW j \in Requests, job'[j].status \in {"pending", "open"}, job'[j].loc # None
             PROVE  \/ row'[job'[j].loc] # None
                    \/ job'[j].status = "open" /\ {j, deleter'[job'[j].loc]} \in together'
  BY DEF JobLocInv
<1> DEFINE l == job'[j].loc
<1>1. l \in Locs
  BY JobTypes DEF OrphanInv, Job
<1>2. job \in [Requests -> Job] /\ row \in [Locs -> Row \cup {None}] /\ deleter \in [Locs -> Requests \cup {None}]
  BY DEF OrphanInv, KeysInv, Typed, TypeOK
\* The table of locations as it is.
<1>3. ASSUME row'[l] = row[l] \/ row'[l] # None, deleter'[l] = deleter[l]
      PROVE  \/ row'[l] # None
             \/ job'[j].status = "open" /\ {j, deleter'[l]} \in together'
  BY <1>1, <1>3, JobSteps, TogetherGrows DEF OrphanInv, JobLocInv
<1>4. CASE UNCHANGED <<row, enabler, deleter, patched, lost>>
  BY <1>3, <1>4
<1>5. ASSUME NEW q \in Requests, CommitCreate(q)
      PROVE  (row'[l] = row[l] \/ row'[l] # None) /\ deleter'[l] = deleter[l]
  <2>1. req[q].loc \in Locs /\ [enabled |-> req[q].want = "on", revision |-> 1, author |-> q] \in Row
    BY <1>5 DEF CommitCreate, At, OrphanInv, KeysInv, Typed, Shape, Row
  <2> QED BY <1>1, <1>2, <1>5, <2>1, NoneAssumption DEF CommitCreate
<1>6. ASSUME NEW q \in Requests, CommitPatch(q), row[req[q].loc] # None
      PROVE  (row'[l] = row[l] \/ row'[l] # None) /\ deleter'[l] = deleter[l]
  BY <1>1, <1>6, PatchedRow, NoneAssumption DEF OrphanInv, KeysInv, CommitPatch
<1>7. ASSUME NEW q \in Requests, CommitDelete(q)
      PROVE  \/ row'[l] # None
             \/ job'[j].status = "open" /\ {j, deleter'[l]} \in together'
  <2>1. UNCHANGED <<job, together>> /\ At(q, "delete", "counted") /\ req[q].loc \in Locs
    BY <1>7 DEF CommitDelete, At, OrphanInv, KeysInv, Typed, Shape
  <2>2. CASE l # req[q].loc
    BY <1>1, <1>2, <1>3, <1>7, <2>1, <2>2 DEF CommitDelete
  <2>3. CASE l = req[q].loc
    <3>1. job[j].status = "open"
      BY <1>7, <2>1, <2>3 DEF CommitDelete
    <3>2. CASE row[l] = None
      BY <1>2, <1>7, <2>1, <2>3, <3>1, <3>2 DEF CommitDelete, OrphanInv, JobLocInv
    <3>3. CASE row[l] # None
      <4>1. deleter'[l] = q
        BY <1>1, <1>2, <1>7, <2>3, <3>3 DEF CommitDelete
      <4>2. {j, q} \in together
        BY <2>1, <2>3, <3>1 DEF OrphanInv, CountInv
      <4> QED BY <2>1, <3>1, <4>1, <4>2
    <3> QED BY <3>2, <3>3
  <2> QED BY <2>2, <2>3
<1> QED BY <1>3, <1>4, <1>5, <1>6, <1>7, RowSteps

\* An open job loses its location only to a deletion that was in flight together with the
\* request that inserted it (delete_location and scan_location in api/v1/routes/locations.py).
THEOREM OrphanHolds == Spec => []OrphanNeedsRace
<1>1. Init => OrphanInv
  BY InitKeysInv DEF Init, OrphanInv, MeetInv, InFlight, New, CountInv, At, JobLocInv, NoJob
<1>2. OrphanInv /\ [Next]_vars => OrphanInv'
  BY StepKeysInv, StepMeetInv, StepCountInv, StepJobLocInv DEF OrphanInv
<1>3. OrphanInv => OrphanNeedsRace
  BY DEF OrphanInv, JobLocInv, OrphanNeedsRace
<1> QED BY <1>1, <1>2, <1>3, PTL DEF Spec

-----------------------------------------------------------------------------
(***************************************************************************)
(* Enabling overlapping locations.                                         *)
(***************************************************************************)

\* The request has passed the overlap check and is going to enable its location.
Enabling(q) ==
  /\ req[q].phase = "checked" /\ req[q].want = "on"
  /\ req[q].op = "create" \/ (req[q].op = "patch" /\ ~ req[q].loaded.enabled)

\* What overlaps and was enabled since the check was enabled by a request in flight with it.
ClearInv ==
  \A q \in Requests, m \in Locs :
    Enabling(q) /\ m # req[q].loc /\ Enabled(m) /\ Overlap(req[q].loc, m) => {q, enabler[m]} \in together

EnableInv == KeysInv /\ MeetInv /\ ClearInv /\ OverlapNeedsRace

\* Locations get enabled by such requests, one at a time.
LEMMA EnableSteps ==
  ASSUME KeysInv, [Next]_vars
  PROVE  \/ \A m \in Locs : Enabled(m)' => Enabled(m) /\ enabler'[m] = enabler[m]
         \/ \E q \in Requests :
              /\ Enabling(q) /\ ~ Enabling(q)' /\ req[q].loc \in Locs /\ enabler'[req[q].loc] = q
              /\ \A m \in Locs \ {req[q].loc} : Enabled(m)' => Enabled(m) /\ enabler'[m] = enabler[m]
              /\ \A p \in Requests \ {q} : req'[p] = req[p]
<1>1. /\ row \in [Locs -> Row \cup {None}] /\ enabler \in [Locs -> Requests \cup {None}]
      /\ req \in [Requests -> Request] /\ \A q \in Requests : Shape(req[q])
  BY DEF KeysInv, Typed, TypeOK
<1> DEFINE NoneGains == \A m \in Locs : Enabled(m)' => Enabled(m) /\ enabler'[m] = enabler[m]
           New1(q) == /\ Enabling(q) /\ ~ Enabling(q)' /\ req[q].loc \in Locs /\ enabler'[req[q].loc] = q
                      /\ \A m \in Locs \ {req[q].loc} : Enabled(m)' => Enabled(m) /\ enabler'[m] = enabler[m]
                      /\ \A p \in Requests \ {q} : req'[p] = req[p]
<1>2. CASE UNCHANGED <<row, enabler, deleter, patched, lost>>
  BY <1>2 DEF Enabled
<1>3. ASSUME NEW q \in Requests, Answer(q)
      PROVE  ~ Enabling(q)' /\ \A p \in Requests \ {q} : req'[p] = req[p]
  BY <1>1, <1>3 DEF Answer, Goto, Enabling, Request
<1>4. ASSUME NEW q \in Requests, CommitCreate(q) PROVE NoneGains \/ New1(q)
  <2> DEFINE l == req[q].loc
             new == [enabled |-> req[q].want = "on", revision |-> 1, author |-> q]
  <2>1. l \in Locs /\ Answer(q) /\ req[q].op = "create" /\ req[q].phase = "checked"
    BY <1>1, <1>4 DEF CommitCreate, At, Shape
  <2>2. row' = [row EXCEPT ![l] = new] /\ enabler' = [enabler EXCEPT ![l] = q] /\ new.enabled = (req[q].want = "on")
    BY <1>4 DEF CommitCreate
  <2> HIDE DEF new
  <2>3. \A m \in Locs \ {l} : Enabled(m)' => Enabled(m) /\ enabler'[m] = enabler[m]
    BY <1>1, <2>1, <2>2 DEF Enabled
  <2>4. row'[l] = new /\ enabler'[l] = q
    BY <1>1, <2>1, <2>2
  <2>5. CASE req[q].want = "on"
    BY <1>3, <2>1, <2>3, <2>4, <2>5 DEF Enabling
  <2>6. CASE req[q].want # "on"
    BY <2>2, <2>3, <2>4, <2>6 DEF Enabled
  <2> QED BY <2>5, <2>6
<1>5. ASSUME NEW q \in Requests, CommitPatch(q), row[req[q].loc] # None PROVE NoneGains \/ New1(q)
  <2> DEFINE l == req[q].loc
             old == req[q].loaded
             flips == req[q].want = (IF old.enabled THEN "off" ELSE "on")
  <2>1. l \in Locs /\ old \in Row /\ row[l] \in Row /\ Answer(q) /\ req[q].op = "patch" /\ req[q].phase = "checked"
    BY <1>1, <1>5, PatchedRow DEF CommitPatch, At, KeysInv
  <2>2. \A m \in Locs \ {l} : row'[m] = row[m]
    BY <1>5, PatchedRow DEF KeysInv
  <2>3. row'[l].enabled = IF flips THEN ~ old.enabled ELSE row[l].enabled
    BY <1>1, <1>5, <2>1 DEF CommitPatch
  <2>4. enabler' = IF flips /\ ~ old.enabled THEN [enabler EXCEPT ![l] = q] ELSE enabler
    BY <1>5 DEF CommitPatch
  <2>5. \A m \in Locs \ {l} : Enabled(m)' => Enabled(m) /\ enabler'[m] = enabler[m]
    BY <1>1, <2>1, <2>2, <2>4 DEF Enabled
  <2>6. CASE flips /\ ~ old.enabled
    <3>1. Enabling(q) /\ enabler'[l] = q
      BY <1>1, <2>1, <2>4, <2>6 DEF Enabling
    <3> QED BY <1>3, <2>1, <2>5, <3>1
  <2>7. CASE flips /\ old.enabled
    BY <2>3, <2>5, <2>7 DEF Enabled
  <2>8. CASE ~ flips
    <3>1. row'[l].enabled = row[l].enabled /\ enabler' = enabler
      BY <2>3, <2>4, <2>8
    <3> QED BY <1>5, <2>5, <3>1 DEF Enabled
  <2> QED BY <2>6, <2>7, <2>8
<1>6. ASSUME NEW q \in Requests, CommitDelete(q) PROVE NoneGains
  <2>1. req[q].loc \in Locs /\ row' = [row EXCEPT ![req[q].loc] = None] /\ enabler' = enabler
    BY <1>1, <1>6 DEF CommitDelete, At, Shape
  <2> QED BY <1>1, <2>1 DEF Enabled
<1> QED BY <1>2, <1>4, <1>5, <1>6, RowSteps

\* Who is about to enable a location was so before, or has just found it clear.
LEMMA EnablingSteps ==
  ASSUME KeysInv, [Next]_vars, NEW q \in Requests, Enabling(q)'
  PROVE  \/ Enabling(q) /\ req'[q].loc = req[q].loc
         \/ Clear(q) /\ UNCHANGED row /\ req'[q].loc = req[q].loc
<1>1. req \in [Requests -> Request] /\ \A p \in Requests : Shape(req[p])
  BY DEF KeysInv, Typed, TypeOK
<1>2. CASE req'[q] = req[q]
  BY <1>2 DEF Enabling
<1>3. ASSUME NEW p \in Requests, NEW phase, Goto(p, phase), phase # "checked", req'[q] # req[q] PROVE FALSE
  BY <1>1, <1>3 DEF Goto, Enabling, Request
<1>4. ASSUME NEW p \in Requests, Send(p) \/ SendRebuild(p) \/ SendCreate(p), req'[q] # req[q] PROVE FALSE
  BY <1>4, SendShape DEF KeysInv, Enabling
<1>5. ASSUME NEW p \in Requests, Load(p), req'[q] # req[q] PROVE FALSE
  BY <1>1, <1>3, <1>5 DEF Load, Answer, Enabling, Request
<1>6. ASSUME NEW p \in Requests, NameTaken(p) \/ CommitCreate(p) \/ CommitPatch(p) \/ Delete(p) \/ StartJob(p) \/ Die(p)
      PROVE  \E phase \in Phases : Goto(p, phase) /\ phase # "checked"
  <2> SUFFICES Goto(p, "answered") \/ Goto(p, "counted") \/ Goto(p, "reserved") \/ Goto(p, "rejected") \/ Goto(p, "inserted")
    BY DEF Phases
  <2>1. CASE NameTaken(p) \/ CommitCreate(p) \/ CommitPatch(p) \/ CommitDelete(p) \/ Die(p)
    BY <2>1 DEF NameTaken, CommitCreate, CommitPatch, CommitDelete, RollBack, Die, Answer
  <2>2. CASE CountJobs(p)
    BY <2>2 DEF CountJobs, Answer
  <2>3. CASE Reserve(p)
    BY <2>3 DEF Reserve, Answer
  <2>4. CASE Enqueue(p)
    BY <2>4 DEF Enqueue
  <2>5. CASE Coalesce(p) \/ CommitJob(p)
    BY <2>5 DEF Coalesce, CommitJob, Accept, RollBack, Answer
  <2> QED BY <1>6, <2>1, <2>2, <2>3, <2>4, <2>5 DEF Delete, StartJob
<1>7. ASSUME NEW p \in Requests, CheckOverlap(p), req'[q] # req[q]
      PROVE  Clear(q) /\ UNCHANGED row /\ req'[q].loc = req[q].loc
  <2>1. Goto(p, "checked") /\ UNCHANGED row
    BY <1>3, <1>7 DEF CheckOverlap, Answer, tables
  <2>2. p = q /\ req'[q] = [req[q] EXCEPT !.phase = "checked"]
    BY <1>1, <1>7, <2>1 DEF Goto
  <2>3. At(q, "create", "sent") \/ Enables(q)
    BY <1>1, <1>7, <2>2 DEF CheckOverlap, At, Enables, Enabling, Request
  <2>4. Clear(q)
    <3>1. ~ Answer(q)
      BY <1>1, <2>2 DEF Answer, Goto, Request
    <3> QED BY <1>7, <2>2, <2>3, <3>1 DEF CheckOverlap
  <2>5. req'[q].loc = req[q].loc
    BY <1>1, <2>2 DEF Request
  <2> QED BY <2>1, <2>4, <2>5
<1>8. ASSUME NEW p \in Requests, JobEnds(p) PROVE req'[q] = req[q]
  BY <1>8 DEF JobEnds
<1>9. ASSUME NEW k \in Keys, Collect(k) PROVE req'[q] = req[q]
  BY <1>9 DEF Collect
<1>10. CASE Quiet \/ UNCHANGED vars
  BY <1>2, <1>10 DEF Quiet, vars
<1> QED BY <1>2, <1>3, <1>4, <1>5, <1>6, <1>7, <1>8, <1>9, <1>10 DEF Next, Patch

\* Every step keeps overlapping locations apart, or records who raced.
LEMMA StepEnableInv == ASSUME EnableInv, [Next]_vars PROVE ClearInv' /\ OverlapNeedsRace'
<1>1. ASSUME NEW q \in Requests, NEW m \in Locs, Enabling(q)', m # req'[q].loc, Enabled(m)', Overlap(req'[q].loc, m)
      PROVE  {q, enabler'[m]} \in together'
  <2>1. CASE Clear(q) /\ UNCHANGED row /\ req'[q].loc = req[q].loc
    BY <1>1, <2>1 DEF Clear, Enabled
  <2>2. CASE Enabling(q) /\ req'[q].loc = req[q].loc
    <3>1. CASE Enabled(m) /\ enabler'[m] = enabler[m]
      BY <1>1, <2>2, <3>1, TogetherGrows DEF EnableInv, ClearInv
    <3>2. CASE ~ (Enabled(m) /\ enabler'[m] = enabler[m])
      <4>1. PICK p \in Requests : Enabling(p) /\ ~ Enabling(p)' /\ req[p].loc = m /\ enabler'[m] = p
        BY <1>1, <3>2, EnableSteps DEF EnableInv
      <4>2. p # q /\ InFlight(p) /\ InFlight(q)
        BY <1>1, <2>2, <4>1 DEF Enabling, InFlight
      <4>3. {q, p} \in together
        BY <4>2 DEF EnableInv, MeetInv
      <4> QED BY <4>1, <4>3, TogetherGrows
    <3> QED BY <3>1, <3>2
  <2> QED BY <1>1, <2>1, <2>2, EnablingSteps DEF EnableInv
<1>2. ASSUME NEW l \in Locs, NEW m \in Locs, l # m, Enabled(l)', Enabled(m)', Overlap(l, m)
      PROVE  {enabler'[l], enabler'[m]} \in together'
  <2>1. CASE Enabled(l) /\ enabler'[l] = enabler[l] /\ Enabled(m) /\ enabler'[m] = enabler[m]
    BY <1>2, <2>1, TogetherGrows DEF EnableInv, OverlapNeedsRace
  <2>2. ASSUME NEW q \in Requests, NEW x \in Locs, NEW y \in Locs, x # y, Overlap(x, y), Enabling(q), req[q].loc = x,
               enabler'[x] = q, Enabled(y), enabler'[y] = enabler[y]
        PROVE  {enabler'[x], enabler'[y]} \in together'
    BY <2>2, TogetherGrows DEF EnableInv, ClearInv
  <2>3. Overlap(m, l) /\ {enabler'[l], enabler'[m]} = {enabler'[m], enabler'[l]}
    <3>1. {l, m} = {m, l}
      OBVIOUS
    <3> QED BY <1>2, <3>1 DEF Overlap
  <2>4. CASE ~ (Enabled(l) /\ enabler'[l] = enabler[l] /\ Enabled(m) /\ enabler'[m] = enabler[m])
    <3>1. PICK q \in Requests :
            /\ Enabling(q) /\ req[q].loc \in Locs /\ enabler'[req[q].loc] = q
            /\ \A x \in Locs \ {req[q].loc} : Enabled(x)' => Enabled(x) /\ enabler'[x] = enabler[x]
      BY <1>2, <2>4, EnableSteps DEF EnableInv
    <3>2. CASE req[q].loc = l
      BY <1>2, <2>2, <3>1, <3>2
    <3>3. CASE req[q].loc # l
      <4>1. req[q].loc = m
        BY <1>2, <2>4, <3>1, <3>3
      <4> QED BY <1>2, <2>2, <2>3, <3>1, <3>3, <4>1
    <3> QED BY <3>2, <3>3
  <2> QED BY <2>1, <2>4
<1>3. ClearInv'
  BY <1>1 DEF ClearInv, Enabling, Enabled, Overlap
<1>4. OverlapNeedsRace'
  BY <1>2 DEF OverlapNeedsRace, Enabled, Overlap
<1> QED BY <1>3, <1>4

\* Overlapping locations are enabled together only by requests that were in flight at
\* once (_check_overlap in api/v1/routes/locations.py, for creation and for patches).
THEOREM OverlapHolds == Spec => []OverlapNeedsRace
<1>1. Init => EnableInv
  BY InitKeysInv DEF Init, EnableInv, MeetInv, InFlight, New, ClearInv, Enabling, OverlapNeedsRace
<1>2. EnableInv /\ [Next]_vars => EnableInv'
  BY StepKeysInv, StepMeetInv, StepEnableInv DEF EnableInv
<1>3. EnableInv => OverlapNeedsRace
  BY DEF EnableInv
<1> QED BY <1>1, <1>2, <1>3, PTL DEF Spec

-----------------------------------------------------------------------------
(***************************************************************************)
(* Patches that overwrite what their client has not seen.                  *)
(***************************************************************************)

Raced(l) ==
  \E p, q \in Requests : p # q /\ <<l, p>> \in patched /\ <<l, q>> \in patched /\ {p, q} \in together

Creating(q) == req[q].op = "create" /\ req[q].phase \in {"sent", "checked"}
Patching(q) == req[q].op = "patch" /\ req[q].phase \in {"loaded", "checked"}

\* A location that is being created is named by no other request.
CreateInv ==
  \A q \in Requests : Creating(q) =>
    row[req[q].loc] = None /\ \A p \in Requests \ {q} : req[p].loc # req[q].loc

\* Without a race revisions grow, so that one revision has one author.
VersionInv ==
  \A q \in Requests : req[q].op = "patch" /\ row[req[q].loc] # None /\ ~ Raced(req[q].loc) =>
    /\ req[q].seen.revision <= row[req[q].loc].revision
    /\ req[q].seen.revision = row[req[q].loc].revision => req[q].seen.author = row[req[q].loc].author

\* The row stays as a patch has loaded it, unless it races with another one.
LoadedInv ==
  \A q \in Requests : Patching(q) =>
    \/ row[req[q].loc] = None \/ Raced(req[q].loc)
    \/ /\ row[req[q].loc].author = req[q].seen.author
       /\ row[req[q].loc].revision = req[q].loaded.revision
    \/ \E p \in Requests \ {q} : <<req[q].loc, p>> \in patched /\ {p, q} \in together

UpdateInv == KeysInv /\ MeetInv /\ CreateInv /\ VersionInv /\ LoadedInv /\ LostUpdateNeedsRace

\* What a request asks for stays as it was sent; only a load changes what it has loaded.
Kept(q) ==
  /\ req'[q].op = req[q].op /\ req'[q].loc = req[q].loc
  /\ req'[q].seen = req[q].seen /\ req'[q].loaded = req[q].loaded
  /\ (Creating(q)' => Creating(q)) /\ (Patching(q)' => Patching(q))

\* Every step keeps what was asked, but for sending and loading.
LEMMA KeepsRequest ==
  ASSUME KeysInv, [Next]_vars, NEW q \in Requests
  PROVE  Kept(q) \/ Send(q) \/ SendRebuild(q) \/ SendCreate(q) \/ Load(q)
<1>1. req \in [Requests -> Request]
  BY DEF KeysInv, Typed, TypeOK
<1>2. CASE req'[q] = req[q]
  BY <1>2 DEF Kept, Creating, Patching
<1>3. ASSUME NEW p \in Requests, p # q, Send(p) \/ SendRebuild(p) \/ SendCreate(p) \/ Load(p) PROVE req'[q] = req[q]
  <2>1. CASE Load(p)
    BY <1>1, <1>3, <2>1 DEF Load, Answer, Goto
  <2> QED BY <1>3, <2>1, SendShape DEF KeysInv
<1>4. ASSUME NEW p \in Requests, NEW phase \in Phases \ {"sent", "loaded", "checked"}, Goto(p, phase), req'[q] # req[q]
      PROVE  Kept(q)
  <2>1. p = q /\ req'[q] = [req[q] EXCEPT !.phase = phase]
    BY <1>1, <1>4 DEF Goto
  <2> QED BY <1>1, <1>4, <2>1 DEF Kept, Creating, Patching, Request
<1>5. ASSUME NEW p \in Requests, CheckOverlap(p), req'[q] # req[q] PROVE Kept(q)
  <2>1. CASE Answer(p)
    BY <1>4, <1>5, <2>1 DEF Answer, Phases
  <2>2. CASE ~ Answer(p)
    <3>1. p = q /\ req'[q] = [req[q] EXCEPT !.phase = "checked"]
      BY <1>1, <1>5, <2>2 DEF CheckOverlap, Goto
    <3> QED BY <1>1, <1>5, <3>1 DEF CheckOverlap, At, Kept, Creating, Patching, Request
  <2> QED BY <2>1, <2>2
<1>6. ASSUME NEW p \in Requests, NameTaken(p) \/ CommitCreate(p) \/ CommitPatch(p) \/ Delete(p) \/ StartJob(p) \/ Die(p)
      PROVE  \E phase \in Phases \ {"sent", "loaded", "checked"} : Goto(p, phase)
  <2> SUFFICES Goto(p, "answered") \/ Goto(p, "counted") \/ Goto(p, "reserved") \/ Goto(p, "rejected") \/ Goto(p, "inserted")
    BY DEF Phases
  <2>1. CASE NameTaken(p) \/ CommitCreate(p) \/ CommitPatch(p) \/ CommitDelete(p) \/ Die(p)
    BY <2>1 DEF NameTaken, CommitCreate, CommitPatch, CommitDelete, RollBack, Die, Answer
  <2>2. CASE CountJobs(p)
    BY <2>2 DEF CountJobs, Answer
  <2>3. CASE Reserve(p)
    BY <2>3 DEF Reserve, Answer
  <2>4. CASE Enqueue(p)
    BY <2>4 DEF Enqueue
  <2>5. CASE Coalesce(p) \/ CommitJob(p)
    BY <2>5 DEF Coalesce, CommitJob, Accept, RollBack, Answer
  <2> QED BY <1>6, <2>1, <2>2, <2>3, <2>4, <2>5 DEF Delete, StartJob
<1>7. ASSUME NEW p \in Requests, JobEnds(p) PROVE req'[q] = req[q]
  BY <1>7 DEF JobEnds
<1>8. ASSUME NEW k \in Keys, Collect(k) PROVE req'[q] = req[q]
  BY <1>8 DEF Collect
<1>9. CASE Quiet \/ UNCHANGED vars
  BY <1>2, <1>9 DEF Quiet, vars
<1> QED BY <1>2, <1>3, <1>4, <1>5, <1>6, <1>7, <1>8, <1>9 DEF Next, Patch

\* What was sent: a create names what nobody has named, a patch what its client has seen.
LEMMA Sent ==
  ASSUME Typed, NEW q \in Requests
  PROVE  /\ Send(q) => /\ UNCHANGED <<row, patched, lost, together>>
                       /\ req'[q].op # "create" /\ req'[q].phase = "sent" /\ row[req'[q].loc] # None
                       /\ req'[q].op = "patch" => req'[q].seen = row[req'[q].loc]
         /\ SendRebuild(q) => UNCHANGED <<row, patched, lost>> /\ req'[q].op = "rebuild" /\ req'[q].loc = None
         /\ SendCreate(q) => /\ UNCHANGED <<row, patched, lost>> /\ req'[q].op = "create"
                             /\ row[req'[q].loc] = None /\ \A p \in Requests : req[p].loc # req'[q].loc
         /\ Load(q) => /\ UNCHANGED <<row, patched, lost>> /\ req[q].op # "create"
                       /\ req'[q].op = req[q].op /\ req'[q].loc = req[q].loc /\ req'[q].seen = req[q].seen
                       /\ Patching(q)' => TagMatches(q) /\ req'[q].loaded = row[req[q].loc]
<1>1. req \in [Requests -> Request]
  BY DEF Typed, TypeOK
<1>2. ASSUME Send(q)
      PROVE  /\ UNCHANGED <<row, patched, lost, together>>
             /\ req'[q].op # "create" /\ req'[q].phase = "sent" /\ row[req'[q].loc] # None
             /\ req'[q].op = "patch" => req'[q].seen = row[req'[q].loc]
  <2>1. ASSUME NEW l \in Locs, NEW op \in {"patch", "delete"}, NEW want,
               req' = [req EXCEPT ![q] = [New EXCEPT !.op = op, !.phase = "sent", !.loc = l,
                                                     !.want = want, !.seen = row[l]]]
        PROVE  req'[q].op = op /\ req'[q].phase = "sent" /\ req'[q].loc = l /\ req'[q].seen = row[l]
    BY <1>1, <2>1 DEF New
  <2>2. ASSUME NEW l \in Locs, NEW k \in Keys, NEW kind \in {"scan", "reindex"},
               req' = [req EXCEPT ![q] = [New EXCEPT !.op = kind, !.phase = "sent", !.loc = l, !.key = k]]
        PROVE  req'[q].op = kind /\ req'[q].phase = "sent" /\ req'[q].loc = l
    BY <1>1, <2>2 DEF New
  <2>3. UNCHANGED <<row, patched, lost, together>>
    BY <1>2 DEF Send, tables, history
  <2>4. PICK l \in Locs :
          /\ row[l] # None
          /\ \/ \E op \in {"patch", "delete"}, want \in {"keep", "on", "off"} :
                  req' = [req EXCEPT ![q] = [New EXCEPT !.op = op, !.phase = "sent", !.loc = l,
                                                        !.want = want, !.seen = row[l]]]
             \/ \E k \in Keys, kind \in {"scan", "reindex"} :
                  req' = [req EXCEPT ![q] = [New EXCEPT !.op = kind, !.phase = "sent", !.loc = l, !.key = k]]
    BY <1>2 DEF Send
  <2>5. /\ req'[q].op # "create" /\ req'[q].phase = "sent" /\ req'[q].loc = l
        /\ req'[q].op = "patch" => req'[q].seen = row[l]
    <3>1. CASE \E op \in {"patch", "delete"}, want \in {"keep", "on", "off"} :
                 req' = [req EXCEPT ![q] = [New EXCEPT !.op = op, !.phase = "sent", !.loc = l,
                                                       !.want = want, !.seen = row[l]]]
      <4>1. PICK op \in {"patch", "delete"}, want \in {"keep", "on", "off"} :
              req' = [req EXCEPT ![q] = [New EXCEPT !.op = op, !.phase = "sent", !.loc = l,
                                                    !.want = want, !.seen = row[l]]]
        BY <3>1
      <4>2. req'[q].op = op /\ req'[q].phase = "sent" /\ req'[q].loc = l /\ req'[q].seen = row[l]
        BY <2>1, <4>1
      <4> QED BY <4>2
    <3>2. CASE \E k \in Keys, kind \in {"scan", "reindex"} :
                 req' = [req EXCEPT ![q] = [New EXCEPT !.op = kind, !.phase = "sent", !.loc = l, !.key = k]]
      BY <2>2, <3>2
    <3> QED BY <2>4, <3>1, <3>2
  <2> QED BY <2>3, <2>4, <2>5
<1>3. SendRebuild(q) => UNCHANGED <<row, patched, lost>> /\ req'[q].op = "rebuild" /\ req'[q].loc = None
  BY <1>1 DEF SendRebuild, New, tables
<1>4. SendCreate(q) => /\ UNCHANGED <<row, patched, lost>> /\ req'[q].op = "create"
                       /\ row[req'[q].loc] = None /\ \A p \in Requests : req[p].loc # req'[q].loc
  <2>1. ASSUME NEW l \in Locs, NEW want,
               req' = [req EXCEPT ![q] = [New EXCEPT !.op = "create", !.phase = "sent", !.loc = l, !.want = want]]
        PROVE  req'[q].op = "create" /\ req'[q].loc = l
    BY <1>1, <2>1 DEF New
  <2>2. SendCreate(q) => UNCHANGED <<row, patched, lost>>
    BY DEF SendCreate, tables, history
  <2>3. ASSUME SendCreate(q)
        PROVE  req'[q].op = "create" /\ row[req'[q].loc] = None /\ \A p \in Requests : req[p].loc # req'[q].loc
    BY <2>1, <2>3 DEF SendCreate
  <2> QED BY <2>2, <2>3
<1>5. ASSUME Load(q)
      PROVE  /\ UNCHANGED <<row, patched, lost>> /\ req[q].op # "create"
             /\ req'[q].op = req[q].op /\ req'[q].loc = req[q].loc /\ req'[q].seen = req[q].seen
             /\ Patching(q)' => TagMatches(q) /\ req'[q].loaded = row[req[q].loc]
  <2>1. UNCHANGED <<row, patched, lost>> /\ req[q].op # "create"
    BY <1>5 DEF Load, tables
  <2>2. CASE Answer(q)
    <3>1. req'[q] = [req[q] EXCEPT !.phase = "answered"]
      BY <1>1, <2>2 DEF Answer, Goto
    <3> QED BY <1>1, <2>1, <3>1 DEF Patching, Request
  <2>3. CASE ~ Answer(q)
    <3>1. /\ req'[q] = [req[q] EXCEPT !.phase = "loaded", !.loaded = row[req[q].loc]]
          /\ req[q].op \in JobKinds \/ TagMatches(q)
      BY <1>1, <1>5, <2>3 DEF Load
    <3> QED BY <1>1, <2>1, <3>1 DEF Patching, Request, JobKinds
  <2> QED BY <2>2, <2>3
<1> QED BY <1>2, <1>3, <1>4, <1>5

\* Races are not forgotten.
LEMMA RacesStay ==
  ASSUME KeysInv, [Next]_vars
  PROVE  patched \subseteq patched' /\ \A l : Raced(l) => Raced(l)'
<1>1. patched \subseteq patched'
  BY RowSteps DEF CommitCreate, CommitPatch, CommitDelete
<1> QED BY <1>1, TogetherGrows DEF Raced

\* Every step keeps a location that is being created to its request.
LEMMA StepCreateInv == ASSUME UpdateInv, [Next]_vars PROVE CreateInv'
<1> SUFFICES ASSUME NEW q \in Requests, Creating(q)'
             PROVE  row'[req'[q].loc] = None /\ \A p \in Requests \ {q} : req'[p].loc # req'[q].loc
  BY DEF CreateInv
<1>1. /\ row \in [Locs -> Row \cup {None}] /\ \A p \in Requests : Shape(req[p])
      /\ Typed /\ CreateInv
  BY DEF UpdateInv, KeysInv, Typed, TypeOK
<1>2. CASE SendCreate(q)
  BY <1>1, <1>2, Sent, SendShape
<1>3. CASE Kept(q)
  <2>1. Creating(q) /\ req'[q].loc = req[q].loc /\ req[q].loc \in Locs
    BY <1>1, <1>3 DEF Kept, Creating, Shape
  <2>2. row[req[q].loc] = None /\ \A p \in Requests \ {q} : req[p].loc # req[q].loc
    BY <1>1, <2>1 DEF CreateInv
  <2>3. row'[req[q].loc] = None
    <3>1. ASSUME NEW x \in Requests, CommitCreate(x) PROVE row'[req[q].loc] = row[req[q].loc]
      <4>1. x # q
        BY <1>3, <3>1 DEF CommitCreate, Answer, Goto, Creating, UpdateInv, KeysInv, Typed, TypeOK, Request
      <4> QED BY <1>1, <2>1, <2>2, <3>1, <4>1 DEF CommitCreate
    <3>2. ASSUME NEW x \in Requests, CommitPatch(x), row[req[x].loc] # None PROVE row'[req[q].loc] = row[req[q].loc]
      BY <1>1, <2>1, <2>2, <3>2, PatchedRow
    <3>3. ASSUME NEW x \in Requests, CommitDelete(x) PROVE row'[req[q].loc] = None
      BY <1>1, <2>1, <2>2, <3>3 DEF CommitDelete
    <3> QED BY <2>2, <3>1, <3>2, <3>3, RowSteps
  <2>4. ASSUME NEW p \in Requests \ {q} PROVE req'[p].loc # req[q].loc
    <3>1. CASE Kept(p) \/ Load(p)
      BY <1>1, <2>2, <3>1, Sent DEF Kept
    <3>2. CASE Send(p)
      BY <1>1, <2>2, <3>2, Sent
    <3>3. CASE SendRebuild(p)
      BY <1>1, <2>1, <3>3, Sent, NoneAssumption
    <3>4. CASE SendCreate(p)
      BY <1>1, <3>4, Sent
    <3> QED BY <3>1, <3>2, <3>3, <3>4, KeepsRequest DEF UpdateInv
  <2> QED BY <2>1, <2>3, <2>4
<1>4. ASSUME Send(q) \/ SendRebuild(q) \/ Load(q) PROVE FALSE
  BY <1>1, <1>4, Sent DEF Creating
<1> QED BY <1>2, <1>3, <1>4, KeepsRequest DEF UpdateInv

\* What a step does to the row of a location that some patch names.
LEMMA PatchRowSteps ==
  ASSUME UpdateInv, [Next]_vars, NEW q \in Requests, req[q].op = "patch"
  PROVE  \/ row'[req[q].loc] = row[req[q].loc] \/ row'[req[q].loc] = None
         \/ \E p \in Requests : CommitPatch(p) /\ row[req[p].loc] # None /\ req[p].loc = req[q].loc
<1>1. /\ row \in [Locs -> Row \cup {None}] /\ \A p \in Requests : Shape(req[p])
      /\ req[q].loc \in Locs /\ Typed /\ CreateInv
  BY DEF UpdateInv, KeysInv, Typed, TypeOK, Shape
<1>2. ASSUME NEW p \in Requests, CommitCreate(p) PROVE row'[req[q].loc] = row[req[q].loc]
  <2>1. Creating(p) /\ p # q
    BY <1>2 DEF CommitCreate, At, Creating
  <2>2. req[p].loc # req[q].loc
    BY <1>1, <2>1 DEF CreateInv
  <2> QED BY <1>1, <1>2, <2>2 DEF CommitCreate
<1>3. ASSUME NEW p \in Requests, CommitPatch(p), row[req[p].loc] # None, req[p].loc # req[q].loc
      PROVE  row'[req[q].loc] = row[req[q].loc]
  BY <1>1, <1>3, PatchedRow
<1>4. ASSUME NEW p \in Requests, CommitDelete(p)
      PROVE  row'[req[q].loc] = row[req[q].loc] \/ row'[req[q].loc] = None
  BY <1>1, <1>4 DEF CommitDelete
<1> QED BY <1>2, <1>3, <1>4, RowSteps

\* A patch that is committed races, or overwrites what it has loaded and its client has seen.
LEMMA PatchSteps ==
  ASSUME UpdateInv, [Next]_vars, NEW q \in Requests, CommitPatch(q), NEW l \in Locs, l = req[q].loc, row[l] # None
  PROVE  Raced(l)' \/ (row[l].author = req[q].seen.author /\ row[l].revision = req[q].loaded.revision)
<1>1. Patching(q)
  BY DEF CommitPatch, At, Patching
<1>2. patched' = patched \cup {<<l, q>>}
  BY DEF CommitPatch
<1>3. CASE Raced(l)
  BY <1>3, RacesStay DEF UpdateInv
<1>4. ASSUME NEW p \in Requests \ {q}, <<l, p>> \in patched, {p, q} \in together
      PROVE  Raced(l)'
  BY <1>2, <1>4, TogetherGrows DEF Raced
<1> QED BY <1>1, <1>3, <1>4 DEF UpdateInv, LoadedInv

\* Every step lets revisions grow.
LEMMA StepVersionInv == ASSUME UpdateInv, [Next]_vars PROVE VersionInv'
<1> SUFFICES ASSUME NEW q \in Requests, NEW l \in Locs, req'[q].op = "patch", req'[q].loc = l, row'[l] # None, ~ Raced(l)'
             PROVE  /\ req'[q].seen.revision <= row'[l].revision
                    /\ req'[q].seen.revision = row'[l].revision => req'[q].seen.author = row'[l].author
  <2>1. \A q \in Requests : req'[q].op = "patch" => req'[q].loc \in Locs
    BY StepKeysInv DEF UpdateInv, KeysInv, Typed, Shape
  <2> QED BY <2>1 DEF VersionInv, Raced
<1>1. /\ row \in [Locs -> Row \cup {None}] /\ \A p \in Requests : Shape(req[p])
      /\ Typed /\ row' \in [Locs -> Row \cup {None}] /\ \A p \in Requests : Shape(req'[p])
  BY StepKeysInv DEF UpdateInv, KeysInv, Typed, TypeOK
<1>2. row'[l] \in Row /\ req'[q].seen \in Row /\ ~ Raced(l)
  BY <1>1, RacesStay DEF UpdateInv, Shape
<1>3. CASE Send(q)
  BY <1>1, <1>2, <1>3, Sent DEF Row
<1>4. ASSUME SendRebuild(q) \/ SendCreate(q) PROVE FALSE
  BY <1>1, <1>4, Sent
<1>5. CASE Kept(q) \/ Load(q)
  <2>1. req[q].op = "patch" /\ req[q].loc = l /\ req[q].seen = req'[q].seen
    BY <1>1, <1>5, Sent DEF Kept
  <2>2. row[l] # None => /\ req[q].seen.revision <= row[l].revision
                         /\ req[q].seen.revision = row[l].revision => req[q].seen.author = row[l].author
    BY <1>2, <2>1 DEF UpdateInv, VersionInv
  <2>3. CASE row'[l] = row[l]
    BY <2>1, <2>2, <2>3
  <2>4. ASSUME NEW p \in Requests, CommitPatch(p), row[l] # None, req[p].loc = l
        PROVE  req'[q].seen.revision < row'[l].revision
    <3>1. row'[l].revision = req[p].loaded.revision + 1
      BY <1>1, <2>4, PatchedRow
    <3>2. row[l].revision = req[p].loaded.revision
      BY <2>4, PatchSteps
    <3>3. row[l].revision \in Nat /\ req'[q].seen.revision \in Nat
      BY <1>1, <1>2, <2>4 DEF Row
    <3> QED BY <2>1, <2>2, <2>4, <3>1, <3>2, <3>3
  <2>5. req'[q].seen.revision \in Nat /\ row'[l].revision \in Nat
    BY <1>2 DEF Row
  <2> QED BY <2>1, <2>3, <2>4, <2>5, PatchRowSteps
<1> QED BY <1>3, <1>4, <1>5, KeepsRequest DEF UpdateInv

\* Every step keeps the row as it was loaded, or records a race.
LEMMA StepLoadedInv == ASSUME UpdateInv, [Next]_vars PROVE LoadedInv'
<1> DEFINE Good(q, l) == \/ row'[l] = None \/ Raced(l)'
                         \/ row'[l].author = req'[q].seen.author /\ row'[l].revision = req'[q].loaded.revision
                         \/ \E p \in Requests \ {q} : <<l, p>> \in patched' /\ {p, q} \in together'
<1> SUFFICES ASSUME NEW q \in Requests, NEW l \in Locs, Patching(q)', req'[q].loc = l PROVE Good(q, l)
  <2>1. \A q \in Requests : Patching(q)' => req'[q].loc \in Locs
    BY StepKeysInv DEF UpdateInv, KeysInv, Typed, Shape, Patching
  <2> QED BY <2>1 DEF LoadedInv, Raced
<1>1. /\ req \in [Requests -> Request] /\ row \in [Locs -> Row \cup {None}] /\ \A p \in Requests : Shape(req[p]) /\ Typed
  BY DEF UpdateInv, KeysInv, Typed, TypeOK
<1>2. CASE Load(q)
  <2>1. /\ UNCHANGED row /\ req[q].loc = l /\ req[q].seen = req'[q].seen /\ req'[q].loaded = row[l]
        /\ req[q].op = "patch" /\ TagMatches(q)
    BY <1>1, <1>2, Sent DEF Patching
  <2>2. row[l] = None \/ Raced(l) \/ req[q].seen.author = row[l].author
    BY <2>1 DEF TagMatches, UpdateInv, VersionInv
  <2> QED BY <2>1, <2>2, RacesStay DEF UpdateInv
<1>3. CASE Kept(q)
  <2>1. /\ Patching(q) /\ req[q].op = "patch" /\ req[q].loc = l
        /\ req'[q].seen = req[q].seen /\ req'[q].loaded = req[q].loaded
    BY <1>3 DEF Kept, Patching
  <2>2. \/ row[l] = None \/ Raced(l)
        \/ row[l].author = req[q].seen.author /\ row[l].revision = req[q].loaded.revision
        \/ \E p \in Requests \ {q} : <<l, p>> \in patched /\ {p, q} \in together
    BY <2>1 DEF UpdateInv, LoadedInv
  <2>3. CASE row'[l] = row[l]
    BY <2>1, <2>2, <2>3, RacesStay, TogetherGrows DEF UpdateInv
  <2>4. ASSUME NEW p \in Requests, CommitPatch(p), req[p].loc = l, row[l] # None PROVE Good(q, l)
    <3>1. p # q
      BY <1>1, <2>4 DEF CommitPatch, Answer, Goto, Patching, Request
    <3>2. InFlight(p) /\ InFlight(q)
      BY <2>1, <2>4 DEF CommitPatch, At, InFlight, Patching
    <3>3. {p, q} \in together'
      BY <3>1, <3>2, TogetherGrows DEF UpdateInv, MeetInv
    <3>4. <<l, p>> \in patched'
      BY <2>4 DEF CommitPatch
    <3> QED BY <3>1, <3>3, <3>4
  <2> QED BY <2>1, <2>3, <2>4, PatchRowSteps
<1>4. ASSUME Send(q) \/ SendRebuild(q) \/ SendCreate(q) PROVE FALSE
  BY <1>1, <1>4, Sent, SendShape DEF Patching
<1> QED BY <1>2, <1>3, <1>4, KeepsRequest DEF UpdateInv

\* Every step loses updates to races only.
LEMMA StepLost == ASSUME UpdateInv, [Next]_vars PROVE LostUpdateNeedsRace'
<1> SUFFICES ASSUME NEW l \in lost' PROVE Raced(l)'
  BY DEF LostUpdateNeedsRace, Raced
<1>1. CASE l \in lost
  BY <1>1, RacesStay DEF UpdateInv, LostUpdateNeedsRace, Raced
<1>2. ASSUME NEW q \in Requests, CommitPatch(q), row[req[q].loc] # None, l \notin lost PROVE Raced(l)'
  <2>1. req[q].loc \in Locs
    BY <1>2, PatchedRow DEF UpdateInv, KeysInv
  <2>2. l = req[q].loc /\ row[l].author # req[q].seen.author
    BY <1>2 DEF CommitPatch
  <2> QED BY <1>2, <2>1, <2>2, PatchSteps
<1> QED BY <1>1, <1>2, RowSteps DEF CommitCreate, CommitDelete

\* A patch overwrites what its client has not seen only where two patches of the location
\* raced (_require_if_match in api/v1/routes/locations.py), for all requests and locations.
THEOREM LostUpdateHolds == Spec => []LostUpdateNeedsRace
<1>1. Init => UpdateInv
  BY InitKeysInv DEF Init, UpdateInv, MeetInv, InFlight, New, CreateInv, Creating, VersionInv, LoadedInv, Patching,
                     LostUpdateNeedsRace
<1>2. UpdateInv /\ [Next]_vars => UpdateInv'
  BY StepKeysInv, StepMeetInv, StepCreateInv, StepVersionInv, StepLoadedInv, StepLost DEF UpdateInv
<1>3. UpdateInv => LostUpdateNeedsRace
  BY DEF UpdateInv
<1> QED BY <1>1, <1>2, <1>3, PTL DEF Spec
=============================================================================
