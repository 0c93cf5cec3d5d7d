----------------------------- MODULE ScanProofs -----------------------------
(***************************************************************************)
(* Proofs about Reconcile, what folding a scan into a catalog does, and    *)
(* about Scan: types, one entry per path, what a commit folds and what it  *)
(* never marks missing.  At the end, that the loop of ReconcileLoop folds. *)
(***************************************************************************)
EXTENDS Scan, ReconcileLoop, FiniteSetTheorems, WellFoundedInduction, TLAPS

-----------------------------------------------------------------------------
(***************************************************************************)
(* Folding, for catalogs and scans of any size.                            *)
(***************************************************************************)

\* The path an entry was seen at.
SeenAt(obs, at, e) == CHOOSE p \in DOMAIN obs : at[p] = e

Placed(obs, at) == {at[p] : p \in DOMAIN obs}

\* The path that a placed entry was seen at.
LEMMA SeenAtPlaced ==
  ASSUME NEW obs, NEW at, NEW e \in Placed(obs, at)
  PROVE  SeenAt(obs, at, e) \in DOMAIN obs /\ at[SeenAt(obs, at, e)] = e
BY DEF SeenAt, Placed

\* What it is to be a catalog, or a list of observations.
LEMMA CatalogMember ==
  ASSUME NEW cat
  PROVE  cat \in Catalogs <=> /\ DOMAIN cat \subseteq Entries
                              /\ cat = [e \in DOMAIN cat |-> cat[e]]
                              /\ \A e \in DOMAIN cat : cat[e] \in Row
BY DEF Catalogs

\* The same for a list of observations.
LEMMA ObservationsMember ==
  ASSUME NEW obs
  PROVE  obs \in Observations <=> /\ DOMAIN obs \subseteq Paths
                                  /\ obs = [p \in DOMAIN obs |-> obs[p]]
                                  /\ \A p \in DOMAIN obs : obs[p] \in Shas
BY DEF Observations

\* Nothing is lost by folding, and what comes out is a catalog.
LEMMA FoldedIsCatalog ==
  ASSUME NEW cat \in Catalogs, NEW obs \in Observations, NEW at \in Placements(cat, obs)
  PROVE  Folded(cat, obs, at) \in Catalogs /\ DOMAIN cat \subseteq DOMAIN Folded(cat, obs, at)
<1> SUFFICES ASSUME NEW new, new = Folded(cat, obs, at)
             PROVE  new \in Catalogs /\ DOMAIN cat \subseteq DOMAIN new
  OBVIOUS
<1>1. DOMAIN new = DOMAIN cat \cup Placed(obs, at) /\ new = [e \in DOMAIN new |-> new[e]]
  BY DEF Folded, Placed
<1>2. Placed(obs, at) \subseteq Entries
  BY DEF Placed, Placements
<1>3. ASSUME NEW e \in Placed(obs, at)
      PROVE  new[e] \in Row
  <2> DEFINE p == SeenAt(obs, at, e)
             st == IF e \in DOMAIN cat THEN StateAfter(cat[e], obs[p]) ELSE "discovered"
  <2>1. p \in Paths /\ obs[p] \in Shas
    BY SeenAtPlaced, ObservationsMember
  <2>2. st \in States
    BY CatalogMember DEF StateAfter, Row, States
  <2>3. new[e] = [path |-> p, sha |-> obs[p], state |-> st]
    BY DEF Folded, Placed, SeenAt
  <2> HIDE DEF p, st
  <2> QED BY <2>1, <2>2, <2>3 DEF Row
<1>4. ASSUME NEW e \in DOMAIN cat \ Placed(obs, at)
      PROVE  new[e] \in Row
  <2>1. new[e] = [cat[e] EXCEPT !.state = "missing"]
    BY DEF Folded, Placed
  <2> QED BY <2>1, CatalogMember DEF Row, States
<1>5. DOMAIN cat \subseteq Entries
  BY CatalogMember
<1> QED BY <1>1, <1>2, <1>3, <1>4, <1>5, CatalogMember

\* An entry whose path was seen is placed at that path.
LEMMA SeenIsPlaced ==
  ASSUME NEW cat \in Catalogs, PathsUnique(cat), NEW obs, NEW at \in Placements(cat, obs),
         NEW e \in DOMAIN cat, cat[e].path \in DOMAIN obs
  PROVE  at[cat[e].path] = e
<1> DEFINE p == cat[e].path
<1>1. Known(cat, p)
  BY DEF Known
<1>2. at[p] \in DOMAIN cat /\ cat[at[p]].path = p
  BY <1>1 DEF Placements
<1> QED BY <1>2 DEF PathsUnique

\* No two entries come to share a path: the constraint on location and path is
\* not hit.
THEOREM FoldedPathsUnique ==
  ASSUME NEW cat \in Catalogs, PathsUnique(cat), NEW obs \in Observations,
         NEW at \in Placements(cat, obs)
  PROVE  PathsUnique(Folded(cat, obs, at))
<1> SUFFICES ASSUME NEW new, new = Folded(cat, obs, at),
                    NEW d \in DOMAIN new, NEW e \in DOMAIN new, new[d].path = new[e].path
             PROVE  d = e
  BY DEF PathsUnique
<1>1. /\ DOMAIN new = DOMAIN cat \cup Placed(obs, at)
      /\ \A f \in Placed(obs, at) : new[f].path = SeenAt(obs, at, f)
      /\ \A f \in DOMAIN cat \ Placed(obs, at) : new[f] = [cat[f] EXCEPT !.state = "missing"]
  <2>1. DOMAIN new = DOMAIN cat \cup Placed(obs, at)
    BY DEF Folded, Placed, SeenAt
  <2>2. ASSUME NEW f \in Placed(obs, at)
        PROVE  new[f].path = SeenAt(obs, at, f)
    <3>1. new[f] =
            [path |-> SeenAt(obs, at, f), sha |-> obs[SeenAt(obs, at, f)],
             state |-> IF f \in DOMAIN cat
                         THEN StateAfter(cat[f], obs[SeenAt(obs, at, f)])
                         ELSE "discovered"]
      BY DEF Folded, Placed, SeenAt
    <3> QED BY <3>1
  <2>3. \A f \in DOMAIN cat \ Placed(obs, at) : new[f] = [cat[f] EXCEPT !.state = "missing"]
    BY DEF Folded, Placed, SeenAt
  <2> QED BY <2>1, <2>2, <2>3
<1>2. \A f \in Placed(obs, at) :
        new[f].path \in DOMAIN obs /\ at[new[f].path] = f
  <2> TAKE f \in Placed(obs, at)
  <2>1. SeenAt(obs, at, f) \in DOMAIN obs /\ at[SeenAt(obs, at, f)] = f
    BY SeenAtPlaced
  <2> QED BY <1>1, <2>1
<1>3. \A f \in DOMAIN cat \ Placed(obs, at) :
        new[f].path = cat[f].path /\ cat[f].path \notin DOMAIN obs
  <2> SUFFICES ASSUME NEW f \in DOMAIN cat \ Placed(obs, at)
               PROVE  new[f].path = cat[f].path /\ cat[f].path \notin DOMAIN obs
    OBVIOUS
  <2>1. cat[f] \in Row
    BY DEF Catalogs
  <2>2. new[f].path = cat[f].path
    BY <1>1, <2>1 DEF Row
  <2>3. cat[f].path \notin DOMAIN obs
    BY SeenIsPlaced DEF Placed
  <2> QED BY <2>2, <2>3
<1>4. CASE d \in Placed(obs, at) /\ e \in Placed(obs, at)
  BY <1>2, <1>4
<1>5. CASE d \notin Placed(obs, at) /\ e \notin Placed(obs, at)
  <2>1. d \in DOMAIN cat /\ e \in DOMAIN cat /\ cat[d].path = cat[e].path
    BY <1>1, <1>3, <1>5
  <2> QED BY <2>1 DEF PathsUnique
<1>6. CASE d \in Placed(obs, at) <=> e \notin Placed(obs, at)
  BY <1>1, <1>2, <1>3, <1>6
<1> QED BY <1>4, <1>5, <1>6

\* The rows that come out: an observed path's entry has what was seen, the others
\* are as they were but missing.
RowsAfter(cat, obs, at, new) ==
  /\ DOMAIN new = DOMAIN cat \cup Placed(obs, at)
  /\ \A p \in DOMAIN obs :
       /\ at[p] \in DOMAIN new
       /\ new[at[p]].path = p /\ new[at[p]].sha = obs[p]
       /\ new[at[p]].state = IF at[p] \in DOMAIN cat THEN StateAfter(cat[at[p]], obs[p])
                                                    ELSE "discovered"
       /\ new[at[p]].state # "missing"
  /\ \A e \in DOMAIN cat \ Placed(obs, at) :
       /\ new[e].path = cat[e].path /\ new[e].sha = cat[e].sha
       /\ new[e].state = "missing" /\ cat[e].path \notin DOMAIN obs

\* Folding yields these rows.
LEMMA FoldedRows ==
  ASSUME NEW cat \in Catalogs, PathsUnique(cat), NEW obs \in Observations,
         NEW at \in Placements(cat, obs), NEW new, new = Folded(cat, obs, at)
  PROVE  RowsAfter(cat, obs, at, new)
<1>1. DOMAIN new = DOMAIN cat \cup Placed(obs, at)
  BY DEF Folded, Placed
<1>2. ASSUME NEW p \in DOMAIN obs
      PROVE  /\ new[at[p]].path = p /\ new[at[p]].sha = obs[p]
             /\ new[at[p]].state = IF at[p] \in DOMAIN cat THEN StateAfter(cat[at[p]], obs[p])
                                                          ELSE "discovered"
             /\ new[at[p]].state # "missing"
  <2>1. at[p] \in Placed(obs, at)
    BY DEF Placed
  <2>2. SeenAt(obs, at, at[p]) = p
    BY <2>1, SeenAtPlaced DEF Placements
  <2>3. new[at[p]] = [path |-> p, sha |-> obs[p],
                      state |-> IF at[p] \in DOMAIN cat THEN StateAfter(cat[at[p]], obs[p])
                                                       ELSE "discovered"]
    BY <2>1, <2>2 DEF Folded, Placed, SeenAt
  <2> QED BY <2>3 DEF StateAfter
<1>3. ASSUME NEW e \in DOMAIN cat \ Placed(obs, at)
      PROVE  /\ new[e].path = cat[e].path /\ new[e].sha = cat[e].sha
             /\ new[e].state = "missing" /\ cat[e].path \notin DOMAIN obs
  <2>1. new[e] = [cat[e] EXCEPT !.state = "missing"]
    BY DEF Folded, Placed, SeenAt
  <2>2. cat[e] \in Row
    BY CatalogMember
  <2>3. cat[e].path \notin DOMAIN obs
    BY SeenIsPlaced DEF Placed
  <2> QED BY <2>1, <2>2, <2>3 DEF Row
<1>4. \A p \in DOMAIN obs : at[p] \in DOMAIN new
  BY <1>1 DEF Placed
<1> QED BY <1>1, <1>2, <1>3, <1>4 DEF RowsAfter

\* After a scan the entries present are the files seen, with their bytes.
THEOREM FoldedMirrors ==
  ASSUME NEW cat \in Catalogs, PathsUnique(cat), NEW obs \in Observations,
         NEW at \in Placements(cat, obs)
  PROVE  Mirrors(Folded(cat, obs, at), obs)
<1> SUFFICES ASSUME NEW new, new = Folded(cat, obs, at) PROVE Mirrors(new, obs)
  OBVIOUS
<1>0. RowsAfter(cat, obs, at, new)
  BY FoldedRows, Zenon
<1>1. \A p \in DOMAIN obs : at[p] \in DOMAIN new
  BY <1>0 DEF Placed, RowsAfter
<1>2. ASSUME NEW e \in DOMAIN new, new[e].state # "missing"
      PROVE  new[e].path \in DOMAIN obs /\ new[e].sha = obs[new[e].path]
  <2>1. PICK p \in DOMAIN obs : at[p] = e
    BY <1>2, <1>0 DEF Placed, RowsAfter
  <2> QED BY <2>1, <1>0 DEF RowsAfter
<1>3. \A p \in DOMAIN obs : new[at[p]].path = p /\ new[at[p]].state # "missing"
  BY <1>0 DEF RowsAfter
<1> QED BY <1>1, <1>2, <1>3 DEF Mirrors

\* Entries, histories and processing results survive a scan.
THEOREM FoldedKeepsHistory ==
  ASSUME NEW cat \in Catalogs, PathsUnique(cat), NEW obs \in Observations,
         NEW at \in Placements(cat, obs)
  PROVE  KeepsHistory(cat, Folded(cat, obs, at))
<1> SUFFICES ASSUME NEW new, new = Folded(cat, obs, at), NEW e \in DOMAIN cat
             PROVE  /\ e \in DOMAIN new
                    /\ new[e].state = "missing" =>
                         new[e].path = cat[e].path /\ new[e].sha = cat[e].sha
                    /\ new[e].state # "missing" =>
                         new[e].state = IF new[e].sha = cat[e].sha /\ cat[e].state # "missing"
                                          THEN cat[e].state ELSE "discovered"
  BY Zenon DEF KeepsHistory
<1>0. RowsAfter(cat, obs, at, new)
  BY FoldedRows, Zenon
<1>1. CASE e \in Placed(obs, at)
  <2>1. PICK p \in DOMAIN obs : at[p] = e
    BY <1>1 DEF Placed
  <2>2. /\ new[e].sha = obs[p] /\ new[e].state = StateAfter(cat[e], obs[p])
        /\ new[e].state # "missing" /\ e \in DOMAIN new
    BY <2>1, <1>0 DEF RowsAfter
  <2> QED BY <2>2 DEF StateAfter
<1>2. CASE e \notin Placed(obs, at)
  BY <1>2, <1>0 DEF RowsAfter
<1> QED BY <1>1, <1>2

\* No entry is created for bytes that another one just lost: a move stays one entry.
THEOREM FoldedNoNeedlessEntry ==
  ASSUME NEW cat \in Catalogs, PathsUnique(cat), NEW obs \in Observations,
         NEW at \in Placements(cat, obs)
  PROVE  NoNeedlessEntry(cat, Folded(cat, obs, at))
<1> SUFFICES ASSUME NEW new, new = Folded(cat, obs, at),
                    NEW e \in DOMAIN new \ DOMAIN cat, NEW d \in DOMAIN cat,
                    new[d].state = "missing"
             PROVE  new[d].sha # new[e].sha
  BY DEF NoNeedlessEntry
<1>0. RowsAfter(cat, obs, at, new)
  BY FoldedRows, Zenon
<1>1. PICK p \in DOMAIN obs : at[p] = e
  BY <1>0 DEF Placed, RowsAfter
<1>2. new[e].sha = obs[p] /\ at[p] \notin DOMAIN cat
  BY <1>1, <1>0 DEF RowsAfter
<1>3. d \notin Placed(obs, at)
  BY <1>0 DEF Placed, RowsAfter
<1>4. new[d].sha = cat[d].sha /\ d \in Disappeared(cat, obs)
  BY <1>3, <1>0 DEF Disappeared, RowsAfter
<1>5. MovedFrom(cat, obs, d, p) => \E q \in DOMAIN obs : at[q] = d
  BY <1>2 DEF Placements, MovedFrom, Disappeared
<1> QED BY <1>2, <1>3, <1>4, <1>5 DEF MovedFrom, Placed

-----------------------------------------------------------------------------
(***************************************************************************)
(* The scan's invariant.                                                   *)
(***************************************************************************)

\* What Commit folds into was read from a catalog without double paths, whose
\* entries are still all there.
LoadedInv ==
  /\ PathsUnique(loaded)
  /\ phase = "folding" => DOMAIN loaded = DOMAIN catalog

\* An attempt that runs has a number.
AttemptInv == phase # "idle" => attempt \in 1 .. MaxAttempts

Inv == TypeOK /\ OneEntryPerPath /\ LoadedInv /\ AttemptInv

\* No entries, no observations.
LEMMA EmptyCatalog == <<>> \in Catalogs /\ PathsUnique(<<>>) /\ DOMAIN <<>> = {}
<1>1. DOMAIN <<>> = {} /\ <<>> = [e \in {} |-> e]
  OBVIOUS
<1> QED BY <1>1 DEF Catalogs, PathsUnique

\* Nothing observed is an observation.
LEMMA EmptyObservations == <<>> \in Observations
<1>1. <<>> \in [{} -> Shas]
  OBVIOUS
<1> QED BY <1>1 DEF Observations

\* What is staged by path is a list of observations.
LEMMA ObservedIsObservations ==
  ASSUME staged \subseteq Staged, NEW obs \in ObservedByPath
  PROVE  obs \in Observations
<1>1. obs \in [{s.path : s \in StagedByAttempt} -> Shas]
  BY DEF ObservedByPath
<1>2. {s.path : s \in StagedByAttempt} \subseteq Paths
  BY DEF StagedByAttempt, Staged
<1> QED BY <1>1, <1>2 DEF Observations

\* The flush touches states only.
LEMMA FlushedRows ==
  ASSUME NEW plan \in Catalogs, catalog \in Catalogs
  PROVE  /\ Flushed(plan) \in Catalogs /\ DOMAIN Flushed(plan) = DOMAIN plan
         /\ \A e \in DOMAIN plan : Flushed(plan)[e].path = plan[e].path
<1> SUFFICES ASSUME NEW new, new = Flushed(plan)
             PROVE  /\ new \in Catalogs /\ DOMAIN new = DOMAIN plan
                    /\ \A e \in DOMAIN plan : new[e].path = plan[e].path
  OBVIOUS
<1>1. DOMAIN new = DOMAIN plan /\ new = [e \in DOMAIN new |-> new[e]]
  BY DEF Flushed
<1>2. ASSUME NEW e \in DOMAIN plan
      PROVE  new[e] \in Row /\ new[e].path = plan[e].path
  <2>1. plan[e] \in Row
    BY CatalogMember
  <2>2. \/ new[e] = plan[e]
        \/ e \in DOMAIN catalog /\ new[e] = [plan[e] EXCEPT !.state = catalog[e].state]
    BY DEF Flushed
  <2>3. e \in DOMAIN catalog => catalog[e].state \in States
    BY CatalogMember DEF Row
  <2> QED BY <2>1, <2>2, <2>3 DEF Row
<1>3. DOMAIN plan \subseteq Entries
  BY CatalogMember
<1> QED BY <1>1, <1>2, <1>3, CatalogMember

\* The invariant holds at the start.
LEMMA InitInv == ASSUME Init PROVE Inv
<1> USE ScanAssumption DEF ScanAssumption
<1>1. catalog \in Catalogs /\ loaded \in Catalogs /\ PathsUnique(catalog) /\ PathsUnique(loaded)
  BY EmptyCatalog DEF Init
<1>2. phase = "idle" /\ phase \in Phases /\ mounted \in BOOLEAN
  BY DEF Init, Phases
<1>3. seen \in Observations
  BY EmptyObservations DEF Init
<1>4. /\ files \in [Paths -> Shas \cup {None}]
      /\ attempt \in 0 .. MaxAttempts /\ todo \subseteq Paths /\ kept \subseteq Paths
      /\ staged \subseteq Staged /\ indexing \subseteq DOMAIN catalog
      /\ edits \in 0 .. MaxEdits /\ faults \in 0 .. MaxFaults
  BY DEF Init
<1>5. TypeOK
  BY <1>1, <1>2, <1>3, <1>4, Zenon DEF TypeOK
<1> QED BY <1>1, <1>2, <1>5 DEF Inv, OneEntryPerPath, LoadedInv, AttemptInv

-----------------------------------------------------------------------------
(***************************************************************************)
(* Steps.                                                                  *)
(***************************************************************************)

\* The catalog and what the attempt has read of it.
CatalogInv ==
  /\ catalog \in Catalogs /\ loaded \in Catalogs
  /\ indexing \subseteq DOMAIN catalog
  /\ OneEntryPerPath /\ LoadedInv

\* Every step keeps the part about the catalog.
LEMMA StepsCatalog == ASSUME Inv, [Next]_vars PROVE CatalogInv'
<1>1. CatalogInv /\ staged \subseteq Staged
  BY DEF Inv, TypeOK, CatalogInv
<1>2. CASE Commit
  <2>1. PICK obs \in ObservedByPath : \E at \in Placements(loaded, obs) :
          catalog' = Flushed(Folded(loaded, obs, at))
    BY <1>2, Zenon DEF Commit
  <2>2. PICK at \in Placements(loaded, obs) : catalog' = Flushed(Folded(loaded, obs, at))
    BY <2>1
  <2> DEFINE plan == Folded(loaded, obs, at)
  <2>3. obs \in Observations
    BY <1>1, ObservedIsObservations
  <2>4. plan \in Catalogs /\ DOMAIN loaded \subseteq DOMAIN plan /\ PathsUnique(plan)
    BY <1>1, <2>3, FoldedIsCatalog, FoldedPathsUnique DEF CatalogInv, LoadedInv
  <2> HIDE DEF plan
  <2>5. /\ catalog' \in Catalogs /\ DOMAIN catalog' = DOMAIN plan
        /\ \A e \in DOMAIN plan : catalog'[e].path = plan[e].path
    BY <1>1, <2>2, <2>4, FlushedRows DEF CatalogInv, plan
  <2>6. PathsUnique(catalog')
    BY <2>4, <2>5 DEF PathsUnique
  <2>7. DOMAIN loaded = DOMAIN catalog
    BY <1>1, <1>2 DEF CatalogInv, LoadedInv, Commit
  <2>8. loaded' = <<>> /\ phase' = "idle" /\ indexing' = indexing
    BY <1>2 DEF Commit
  <2> QED BY <1>1, <2>4, <2>5, <2>6, <2>7, <2>8, EmptyCatalog
      DEF CatalogInv, OneEntryPerPath, LoadedInv
<1>3. CASE \E e \in Entries : IndexEnd(e)
  <2>1. PICK e \in Entries : IndexEnd(e)
    BY <1>3
  <2>2. e \in DOMAIN catalog /\ catalog[e] \in Row
    BY <1>1, <2>1, CatalogMember DEF IndexEnd, CatalogInv
  <2>3. /\ catalog' \in Catalogs /\ DOMAIN catalog' = DOMAIN catalog
        /\ \A d \in DOMAIN catalog : catalog'[d].path = catalog[d].path
    <3>1. CASE UNCHANGED catalog
      BY <1>1, <3>1 DEF CatalogInv
    <3>2. CASE \E st \in Processed : catalog' = [catalog EXCEPT ![e].state = st]
      <4>1. PICK st \in Processed : catalog' = [catalog EXCEPT ![e].state = st]
        BY <3>2
      <4>2. /\ DOMAIN catalog' = DOMAIN catalog
            /\ catalog' = [d \in DOMAIN catalog' |-> catalog'[d]]
            /\ catalog'[e] = [catalog[e] EXCEPT !.state = st]
            /\ \A d \in DOMAIN catalog \ {e} : catalog'[d] = catalog[d]
        BY <2>2, <4>1
      <4>3. catalog'[e] \in Row /\ catalog'[e].path = catalog[e].path
        BY <2>2, <4>2 DEF Row, States
      <4>4. DOMAIN catalog \subseteq Entries /\ \A d \in DOMAIN catalog : catalog[d] \in Row
        BY <1>1, CatalogMember DEF CatalogInv
      <4>5. \A d \in DOMAIN catalog :
              catalog'[d] \in Row /\ catalog'[d].path = catalog[d].path
        BY <4>2, <4>3, <4>4
      <4>6. catalog' \in Catalogs
        BY <4>2, <4>4, <4>5, CatalogMember
      <4> QED BY <4>2, <4>5, <4>6
    <3> QED BY <2>1, <3>1, <3>2 DEF IndexEnd
  <2>4. PathsUnique(catalog')
    BY <1>1, <2>3 DEF CatalogInv, OneEntryPerPath, PathsUnique
  <2>5. loaded' = loaded /\ phase' = phase /\ indexing' \subseteq indexing
    BY <2>1 DEF IndexEnd, scanVars
  <2> QED BY <1>1, <2>3, <2>4, <2>5 DEF CatalogInv, OneEntryPerPath, LoadedInv
<1>4. CASE /\ catalog' = catalog
           /\ indexing' = indexing \/ \E e \in DOMAIN catalog : indexing' = indexing \cup {e}
           /\ \/ loaded' = loaded /\ (phase' = "folding" => phase = "folding")
              \/ loaded' = <<>> /\ phase' = "idle"
              \/ loaded' = catalog
  <2>1. indexing' \subseteq DOMAIN catalog'
    BY <1>1, <1>4 DEF CatalogInv
  <2>2. catalog' \in Catalogs /\ PathsUnique(catalog')
    BY <1>1, <1>4 DEF CatalogInv, OneEntryPerPath
  <2>3. loaded' \in Catalogs /\ LoadedInv'
    BY <1>1, <1>4, EmptyCatalog DEF CatalogInv, OneEntryPerPath, LoadedInv
  <2> QED BY <2>1, <2>2, <2>3 DEF CatalogInv, OneEntryPerPath
<1>5. \/ Commit \/ \E e \in Entries : IndexEnd(e)
      \/ /\ catalog' = catalog
         /\ indexing' = indexing \/ \E e \in DOMAIN catalog : indexing' = indexing \cup {e}
         /\ \/ loaded' = loaded /\ (phase' = "folding" => phase = "folding")
            \/ loaded' = <<>> /\ phase' = "idle"
            \/ loaded' = catalog
  <2>1. CASE Abort \/ RootLost
    BY <2>1 DEF Abort, RootLost, EndAttempt
  <2>2. CASE Load
    BY <2>2 DEF Load, envVars
  <2>3. CASE \E e \in Entries : IndexLoad(e)
    BY <2>3 DEF IndexLoad, scanVars, envVars
  <2>4. CASE Begin \/ EndWalk \/ Walk \/ \E p \in Paths : Stage(p)
    BY <2>4 DEF Begin, EndWalk, Walk, Visit, VisitUnreadable, Stage, envVars
  <2>5. CASE Write \/ Rename \/ Unmount \/ Mount
    BY <2>5 DEF Write, Rename, Change, Unmount, Mount, scanVars
  <2>6. CASE UNCHANGED vars
    BY <2>6 DEF vars, scanVars, envVars
  <2> QED BY <2>1, <2>2, <2>3, <2>4, <2>5, <2>6 DEF Next, ScanStep, Index
<1> QED BY <1>2, <1>3, <1>4, <1>5

\* The walk: what it has seen, what is staged of it, how often it was tried.
WalkInv ==
  /\ phase \in Phases /\ attempt \in 0 .. MaxAttempts /\ AttemptInv
  /\ todo \subseteq Paths /\ kept \subseteq Paths
  /\ seen \in Observations
  /\ staged \subseteq Staged

\* One more observation is still one.
LEMMA SeenOneMore ==
  ASSUME seen \in Observations, NEW p \in Paths, NEW sha \in Shas
  PROVE  [q \in DOMAIN seen \cup {p} |-> IF q = p THEN sha ELSE seen[q]] \in Observations
<1> SUFFICES ASSUME NEW new,
                    new = [q \in DOMAIN seen \cup {p} |-> IF q = p THEN sha ELSE seen[q]]
             PROVE  new \in Observations
  OBVIOUS
<1>1. /\ DOMAIN new = {p} \cup DOMAIN seen
      /\ new = [x \in DOMAIN new |-> new[x]]
      /\ \A x \in DOMAIN new : new[x] = IF x = p THEN sha ELSE seen[x]
  OBVIOUS
<1>2. DOMAIN seen \subseteq Paths /\ \A x \in DOMAIN seen : seen[x] \in Shas
  BY ObservationsMember
<1> QED BY <1>1, <1>2, ObservationsMember

\* Every step keeps the part about the walk.
LEMMA StepsWalk == ASSUME Inv, [Next]_vars PROVE WalkInv'
<1> USE ScanAssumption DEF ScanAssumption
<1>1. WalkInv /\ files \in [Paths -> Shas \cup {None}]
  BY DEF Inv, TypeOK, WalkInv
<1>2. CASE UNCHANGED <<phase, attempt, todo, seen, staged>> /\ kept' \subseteq Paths
  BY <1>1, <1>2 DEF WalkInv, AttemptInv
<1>3. CASE Begin
  <2>1. /\ phase' = "walking" /\ attempt' = attempt + 1 /\ attempt < MaxAttempts
        /\ todo' = Paths /\ kept' \subseteq Paths /\ seen' = <<>> /\ staged' = staged
    BY <1>3 DEF Begin, AttemptsLeft
  <2>2. attempt' \in 1 .. MaxAttempts
    BY <1>1, <2>1 DEF WalkInv
  <2> QED BY <1>1, <2>1, <2>2, EmptyObservations DEF WalkInv, AttemptInv, Phases
<1>4. CASE \E p \in Paths : Visit(p)
  <2>1. PICK p \in Paths : Visit(p)
    BY <1>4
  <2>2. /\ UNCHANGED <<phase, attempt, staged, kept>> /\ todo' = todo \ {p}
        /\ \/ seen' = seen
           \/ /\ files[p] # None
              /\ seen' = [q \in DOMAIN seen \cup {p} |-> IF q = p THEN files[p] ELSE seen[q]]
    BY <2>1 DEF Visit
  <2>3. files[p] # None => files[p] \in Shas
    BY <1>1
  <2>4. seen' \in Observations
    BY <1>1, <2>2, <2>3, SeenOneMore DEF WalkInv
  <2> QED BY <1>1, <2>2, <2>4 DEF WalkInv, AttemptInv
<1>5. CASE (\E p \in Paths : VisitUnreadable(p)) \/ EndWalk \/ Load
  <2>1. /\ UNCHANGED <<attempt, seen, staged, kept>> /\ todo' \subseteq todo
        /\ phase' \in Phases /\ phase # "idle"
    BY <1>1, <1>5 DEF VisitUnreadable, EndWalk, Load, WalkInv, Phases
  <2> QED BY <1>1, <2>1 DEF WalkInv, AttemptInv
<1>6. CASE \E p \in Paths : Stage(p)
  <2>1. PICK p \in Paths : Stage(p)
    BY <1>6
  <2>2. attempt \in 1 .. MaxAttempts /\ p \in DOMAIN seen /\ seen[p] \in Shas
    BY <1>1, <2>1, ObservationsMember DEF WalkInv, AttemptInv, Stage, Unstaged
  <2>3. staged' \subseteq Staged
    BY <1>1, <2>1, <2>2 DEF WalkInv, Stage, Staged
  <2> QED BY <1>1, <2>1, <2>3 DEF WalkInv, AttemptInv, Stage
<1>7. CASE Commit \/ Abort \/ RootLost
  <2>1. /\ phase' = "idle" /\ attempt' \in {0, attempt} /\ staged' \in {{}, staged}
        /\ todo' \in {{}, todo} /\ seen' = <<>> /\ kept' = {}
    BY <1>7 DEF Commit, Abort, RootLost, EndAttempt
  <2> QED BY <1>1, <2>1, EmptyObservations DEF WalkInv, AttemptInv, Phases
<1>8. \/ Begin \/ (\E p \in Paths : Visit(p))
      \/ (\E p \in Paths : VisitUnreadable(p)) \/ EndWalk \/ Load
      \/ (\E p \in Paths : Stage(p))
      \/ Commit \/ Abort \/ RootLost
      \/ UNCHANGED <<phase, attempt, todo, seen, staged>> /\ kept' \subseteq kept
  <2>1. CASE Write \/ Rename \/ Unmount \/ Mount
    BY <2>1 DEF Write, Rename, Change, Unmount, Mount, scanVars
  <2>2. CASE Index
    BY <2>2 DEF Index, IndexLoad, IndexEnd, scanVars
  <2>3. CASE UNCHANGED vars
    BY <2>3 DEF vars, scanVars
  <2> QED BY <2>1, <2>2, <2>3 DEF Next, ScanStep, Walk
<1> QED BY <1>1, <1>2, <1>3, <1>4, <1>5, <1>6, <1>7, <1>8 DEF WalkInv

\* The share and the bounds.
ShareInv ==
  /\ files \in [Paths -> Shas \cup {None}] /\ mounted \in BOOLEAN
  /\ edits \in 0 .. MaxEdits /\ faults \in 0 .. MaxFaults

\* Every step keeps the part about the share.
LEMMA StepsShare == ASSUME Inv, [Next]_vars PROVE ShareInv'
<1>1. ShareInv
  BY Zenon DEF Inv, TypeOK, ShareInv
<1>2. files' \in [Paths -> Shas \cup {None}] /\ edits' \in 0 .. MaxEdits
  <2>1. CASE Write
    BY <1>1, <2>1, ScanAssumption DEF Write, Change, ShareInv, ScanAssumption
  <2>2. CASE Rename
    BY <1>1, <2>2, ScanAssumption DEF Rename, Change, ShareInv, ScanAssumption
  <2>3. CASE files' = files /\ edits' = edits
    BY <1>1, <2>3 DEF ShareInv
  <2>4. Write \/ Rename \/ (files' = files /\ edits' = edits)
    BY DEF Next, Unmount, Mount, Begin, ScanStep, Walk, Visit, VisitUnreadable, EndWalk, Stage,
           Load, Commit, RootLost, Abort, EndAttempt, Index, IndexLoad, IndexEnd, vars, envVars
  <2> QED BY <2>1, <2>2, <2>3, <2>4
<1>3. faults' \in 0 .. MaxFaults
  <2>1. faults' = faults \/ (faults < MaxFaults /\ faults' = faults + 1)
    BY DEF Next, Write, Rename, Change, Unmount, Mount, Begin, ScanStep, Walk, Visit,
           VisitUnreadable, EndWalk, Stage, Load, Commit, RootLost, Abort, EndAttempt, Fault,
           Index, IndexLoad, IndexEnd, vars, envVars
  <2> QED BY <1>1, <2>1, ScanAssumption DEF ShareInv, ScanAssumption
<1>4. mounted' \in BOOLEAN
  <2>1. mounted' = mounted \/ mounted' = TRUE \/ mounted' = FALSE
    BY Zenon DEF Next, Write, Rename, Change, Unmount, Mount, Begin, ScanStep, Walk, Visit,
           VisitUnreadable, EndWalk, Stage, Load, Commit, RootLost, Abort, EndAttempt,
           Index, IndexLoad, IndexEnd, vars, envVars
  <2> QED BY <1>1, <2>1, Zenon DEF ShareInv
<1> QED BY <1>2, <1>3, <1>4, Zenon DEF ShareInv

\* Every step keeps the invariant.
LEMMA NextInv == ASSUME Inv, [Next]_vars PROVE Inv'
<1>1. CatalogInv' /\ WalkInv' /\ ShareInv'
  BY StepsCatalog, StepsWalk, StepsShare
<1>2. TypeOK'
  BY <1>1, Zenon DEF TypeOK, CatalogInv, WalkInv, ShareInv
<1> QED BY <1>1, <1>2, Zenon DEF Inv, CatalogInv, WalkInv

\* The inductive invariant holds in every reachable state.
THEOREM InvHolds == Spec => []Inv
<1>1. Init => Inv
  BY InitInv
<1>2. Inv /\ [Next]_vars => Inv'
  BY NextInv
<1> QED BY <1>1, <1>2, PTL DEF Spec

\* Catalog, staging rows and walk always have their types; no scan job runs
\* more attempts than it has.
THEOREM TypeCorrect == Spec => []TypeOK
<1>1. Inv => TypeOK
  BY DEF Inv
<1> QED BY <1>1, InvHolds, PTL

\* No two entries of a location ever have one path, for catalogs and shares of
\* any size, whatever edits, outages, retries and index results come between.
THEOREM EntryPerPath == Spec => []OneEntryPerPath
<1>1. Inv => OneEntryPerPath
  BY DEF Inv
<1> QED BY <1>1, InvHolds, PTL

-----------------------------------------------------------------------------
(***************************************************************************)
(* What is folded, and what is not marked missing.                         *)
(***************************************************************************)

\* The rows staged under the attempt's number are what it saw; older ones are older.
StagedInv ==
  /\ \A s \in staged : s.attempt <= attempt
  /\ phase = "walking" => \A s \in staged : s.attempt # attempt
  /\ phase \in {"staging", "folding"} =>
       /\ todo = {}
       /\ \A s \in StagedByAttempt : s.path \in DOMAIN seen /\ s.sha = seen[s.path]

\* While it folds everything seen is staged, and index results are all that
\* distinguishes the catalog from the one it read.
FoldInv ==
  phase = "folding" =>
    /\ Unstaged = {}
    /\ \A e \in DOMAIN catalog :
         /\ catalog[e].path = loaded[e].path /\ catalog[e].sha = loaded[e].sha
         /\ catalog[e].state = "missing" => loaded[e].state = "missing"

\* What is still there, unchanged, where an entry says it is, has been seen: there was
\* no need to open it.  It is not so while the share is away, before the second check.
KeptInv ==
  phase # "idle" /\ (mounted \/ phase = "folding") =>
    \A p \in kept \ todo, e \in DOMAIN catalog :
      catalog[e].path = p /\ catalog[e].sha = files[p] =>
        p \in DOMAIN seen /\ seen[p] = files[p]

\* An index result changes a state, and never to missing.
LEMMA IndexEndRows ==
  ASSUME Inv, NEW e \in Entries, IndexEnd(e)
  PROVE  /\ DOMAIN catalog' = DOMAIN catalog
         /\ \A d \in DOMAIN catalog :
              /\ catalog'[d].path = catalog[d].path /\ catalog'[d].sha = catalog[d].sha
              /\ catalog'[d].state = "missing" => catalog[d].state = "missing"
<1>1. catalog[e] \in Row /\ e \in DOMAIN catalog
  BY CatalogMember DEF Inv, TypeOK, IndexEnd
<1>2. CASE UNCHANGED catalog
  BY <1>2
<1>3. ASSUME NEW st \in Processed, catalog' = [catalog EXCEPT ![e].state = st]
      PROVE  /\ DOMAIN catalog' = DOMAIN catalog
             /\ \A d \in DOMAIN catalog :
                  /\ catalog'[d].path = catalog[d].path /\ catalog'[d].sha = catalog[d].sha
                  /\ catalog'[d].state = "missing" => catalog[d].state = "missing"
  <2>1. /\ DOMAIN catalog' = DOMAIN catalog
        /\ catalog'[e] = [catalog[e] EXCEPT !.state = st]
        /\ \A d \in DOMAIN catalog \ {e} : catalog'[d] = catalog[d]
    BY <1>1, <1>3
  <2>2. st # "missing"
    BY DEF Processed
  <2>3. /\ catalog'[e].path = catalog[e].path /\ catalog'[e].sha = catalog[e].sha
        /\ catalog'[e].state # "missing"
    BY <1>1, <2>1, <2>2 DEF Row
  <2> QED BY <2>1, <2>3
<1> QED BY <1>2, <1>3 DEF IndexEnd

\* Only Commit and the end of an index job write the catalog.
LEMMA CatalogKinds ==
  ASSUME [Next]_vars
  PROVE  Commit \/ (\E e \in Entries : IndexEnd(e)) \/ UNCHANGED catalog
BY DEF Next, Write, Rename, Change, Unmount, Mount, Begin, ScanStep, Walk, Visit, VisitUnreadable,
       EndWalk, Stage, Load, RootLost, Abort, EndAttempt, Index, IndexLoad, vars

\* The staged rows: which steps write them or what they are compared with.
LEMMA StagedKinds ==
  ASSUME [Next]_vars
  PROVE  \/ UNCHANGED <<phase, attempt, staged, seen, todo>>
         \/ phase = "walking" /\ phase' = "walking" /\ UNCHANGED <<attempt, staged>>
         \/ Begin \/ EndWalk \/ Load \/ (\E p \in Paths : Stage(p))
         \/ phase' = "idle" /\ UNCHANGED <<attempt, staged>>
         \/ phase' = "idle" /\ staged' = {}
<1>1. CASE Write \/ Rename \/ Unmount \/ Mount
  BY <1>1 DEF Write, Rename, Change, Unmount, Mount, scanVars
<1>2. CASE Walk
  BY <1>2 DEF Walk, Visit, VisitUnreadable
<1>3. CASE Commit \/ Abort \/ RootLost
  BY <1>3 DEF Commit, Abort, RootLost, EndAttempt
<1>4. CASE Index
  BY <1>4 DEF Index, IndexLoad, IndexEnd, scanVars
<1>5. CASE UNCHANGED vars
  BY <1>5 DEF vars, scanVars
<1> QED BY <1>1, <1>2, <1>3, <1>4, <1>5 DEF Next, ScanStep

\* Every step keeps the staged rows true.
LEMMA StagedStep == ASSUME Inv, StagedInv, [Next]_vars PROVE StagedInv'
<1>0. attempt \in 0 .. MaxAttempts /\ staged \subseteq Staged
  BY DEF Inv, TypeOK
<1>1. CASE UNCHANGED <<phase, attempt, staged, seen, todo>>
  BY <1>1 DEF StagedInv, StagedByAttempt
<1>2. CASE phase = "walking" /\ phase' = "walking" /\ UNCHANGED <<attempt, staged>>
  BY <1>2 DEF StagedInv
<1>3. CASE Begin
  <2>1. phase' = "walking" /\ attempt' = attempt + 1 /\ staged' = staged
    BY <1>3 DEF Begin
  <2>2. \A s \in staged : s.attempt \in Nat /\ s.attempt < attempt + 1
    BY <1>0, ScanAssumption DEF StagedInv, Staged, ScanAssumption
  <2> QED BY <1>0, <2>1, <2>2 DEF StagedInv
<1>4. CASE EndWalk
  <2>1. phase = "walking" /\ phase' = "staging" /\ todo' = {} /\ UNCHANGED <<attempt, staged>>
    BY <1>4 DEF EndWalk
  <2> QED BY <2>1 DEF StagedInv, StagedByAttempt
<1>5. CASE Load
  BY <1>5 DEF Load, StagedInv, StagedByAttempt
<1>6. ASSUME NEW p \in Paths, Stage(p) PROVE StagedInv'
  <2>1. /\ phase = "staging" /\ UNCHANGED <<phase, attempt, todo, seen>> /\ p \in DOMAIN seen
        /\ staged' = staged \cup {[attempt |-> attempt, path |-> p, sha |-> seen[p]]}
    BY <1>6 DEF Stage, Unstaged
  <2> QED BY <1>0, <2>1 DEF StagedInv, StagedByAttempt
<1>7. CASE phase' = "idle" /\ UNCHANGED <<attempt, staged>>
  BY <1>7 DEF StagedInv
<1>8. CASE phase' = "idle" /\ staged' = {}
  BY <1>8 DEF StagedInv
<1> QED BY <1>1, <1>2, <1>3, <1>4, <1>5, <1>6, <1>7, <1>8, StagedKinds

\* Every step keeps what was read true to the catalog, index results aside.
LEMMA FoldStep == ASSUME Inv, FoldInv, [Next]_vars PROVE FoldInv'
<1>1. CASE Load
  BY <1>1 DEF Load, FoldInv, Unstaged
<1>2. CASE UNCHANGED <<phase, loaded, attempt, staged, seen>>
  <2>1. /\ DOMAIN catalog' = DOMAIN catalog \/ phase # "folding"
        /\ phase = "folding" => \A d \in DOMAIN catalog :
              /\ catalog'[d].path = catalog[d].path /\ catalog'[d].sha = catalog[d].sha
              /\ catalog'[d].state = "missing" => catalog[d].state = "missing"
    <3>1. ~ Commit \/ phase # "folding"
      BY <1>2 DEF Commit
    <3> QED BY <3>1, CatalogKinds, IndexEndRows
  <2> QED BY <1>2, <2>1 DEF FoldInv, Unstaged
<1>3. CASE phase' # "folding"
  BY <1>3 DEF FoldInv
<1>4. Load \/ UNCHANGED <<phase, loaded, attempt, staged, seen>> \/ phase' # "folding"
  BY DEF Next, Write, Rename, Change, Unmount, Mount, Begin, ScanStep, Walk, Visit, VisitUnreadable,
         EndWalk, Stage, Commit, RootLost, Abort, EndAttempt, Index, IndexLoad, IndexEnd, vars, scanVars
<1> QED BY <1>1, <1>2, <1>3, <1>4

\* Every step keeps what the walk owes to the files still there.
LEMMA KeptStep == ASSUME Inv, KeptInv, [Next]_vars PROVE KeptInv'
<1> SUFFICES ASSUME phase' # "idle", mounted' \/ phase' = "folding",
                    NEW p, p \in kept', p \notin todo', NEW e \in DOMAIN catalog',
                    catalog'[e].path = p, catalog'[e].sha = files'[p]
             PROVE  p \in DOMAIN seen' /\ seen'[p] = files'[p]
  BY DEF KeptInv
<1>0. /\ kept \subseteq Paths /\ seen \in Observations
      /\ catalog \in Catalogs /\ catalog' \in Catalogs
  BY StepsCatalog DEF Inv, TypeOK, CatalogInv
<1>1. files'[p] # None
  BY <1>0, CatalogMember, ScanAssumption DEF Row, ScanAssumption
<1>2. ~ Commit
  BY DEF Commit
<1>3. e \in DOMAIN catalog /\ catalog[e].path = p /\ catalog[e].sha = files'[p]
  BY <1>2, CatalogKinds, IndexEndRows
<1>4. CASE Begin
  BY <1>0, <1>4 DEF Begin
<1>5. ASSUME NEW q \in Paths, Visit(q) PROVE p \in DOMAIN seen' /\ seen'[p] = files'[p]
  <2>1. /\ phase = "walking" /\ phase' = "walking" /\ todo' = todo \ {q}
        /\ UNCHANGED <<kept, files, mounted>>
        /\ mounted /\ files[q] # None =>
             seen' = [x \in DOMAIN seen \cup {q} |-> IF x = q THEN files[q] ELSE seen[x]]
        /\ files[q] = None => seen' = seen
    BY <1>5 DEF Visit, envVars
  <2>2. mounted
    BY <2>1
  <2>3. CASE p = q
    BY <1>1, <2>1, <2>2, <2>3
  <2>4. CASE p # q
    <3>1. p \in DOMAIN seen /\ seen[p] = files[p]
      BY <1>3, <2>1, <2>2, <2>4 DEF KeptInv
    <3> QED BY <2>1, <2>2, <2>4, <3>1
  <2> QED BY <2>3, <2>4
<1>6. ASSUME NEW q \in Paths, VisitUnreadable(q) PROVE p \in DOMAIN seen' /\ seen'[p] = files'[p]
  <2>1. /\ phase = "walking" /\ todo' = todo \ {q} /\ mounted
        /\ UNCHANGED <<kept, files, seen, catalog>> /\ ~ Carried(q)
    BY <1>6 DEF VisitUnreadable
  <2>2. p # q
    BY <1>3, <2>1 DEF Carried
  <2> QED BY <1>3, <2>1, <2>2 DEF KeptInv
<1>7. CASE EndWalk \/ Load \/ \E q \in Paths : Stage(q)
  <2>1. /\ phase # "idle" /\ (mounted \/ phase = "folding")
        /\ UNCHANGED <<kept, files, seen, todo>>
    BY <1>7 DEF EndWalk, Load, RootChecked, Stage, envVars
  <2> QED BY <1>3, <2>1 DEF KeptInv
<1>8. CASE Write \/ Rename
  <2>1. /\ UNCHANGED <<phase, mounted, todo, seen>>
        /\ kept' = {q \in kept : files'[q] = files[q]}
    BY <1>8 DEF Write, Rename, Change
  <2> QED BY <1>3, <2>1 DEF KeptInv
<1>9. CASE Unmount \/ Index \/ UNCHANGED vars
  <2>1. UNCHANGED <<phase, kept, files, seen, todo>> /\ (mounted' => mounted)
    BY <1>9 DEF Unmount, Index, IndexLoad, IndexEnd, vars, scanVars, envVars
  <2> QED BY <1>3, <2>1 DEF KeptInv
<1>10. CASE Mount
  BY <1>10 DEF Mount
<1>11. ~ Abort /\ ~ RootLost
  BY DEF Abort, RootLost, EndAttempt
<1> QED BY <1>2, <1>4, <1>5, <1>6, <1>7, <1>8, <1>9, <1>10, <1>11 DEF Next, ScanStep, Walk

SeenInv == Inv /\ StagedInv /\ FoldInv /\ KeptInv

\* The three hold in every reachable state.
THEOREM SeenHolds == Spec => []SeenInv
<1>1. Init => SeenInv
  BY InitInv DEF Init, SeenInv, StagedInv, FoldInv, KeptInv
<1>2. SeenInv /\ [Next]_vars => SeenInv'
  BY NextInv, StagedStep, FoldStep, KeptStep, Zenon DEF SeenInv
<1> QED BY <1>1, <1>2, PTL DEF Spec

\* The rows folded are what the attempt saw, each path once.
LEMMA ObservedIsSeen ==
  ASSUME SeenInv, phase = "folding", NEW obs \in ObservedByPath
  PROVE  DOMAIN obs = DOMAIN seen /\ \A p \in DOMAIN seen : obs[p] = seen[p]
<1>1. /\ DOMAIN obs = {s.path : s \in StagedByAttempt}
      /\ \A p \in DOMAIN obs : \E s \in StagedByAttempt : s.path = p /\ s.sha = obs[p]
  BY DEF ObservedByPath
<1>2. \A s \in StagedByAttempt : s.path \in DOMAIN seen /\ s.sha = seen[s.path]
  BY DEF SeenInv, StagedInv
<1>3. \A p \in DOMAIN seen : \E s \in StagedByAttempt : s.path = p
  BY DEF SeenInv, FoldInv, Unstaged, StagedByAttempt
<1> QED BY <1>1, <1>2, <1>3

\* The flush writes path and content; a state it leaves alone is the catalog's.
LEMMA FlushedState ==
  ASSUME NEW plan \in Catalogs, NEW e \in DOMAIN plan
  PROVE  /\ Flushed(plan)[e].path = plan[e].path /\ Flushed(plan)[e].sha = plan[e].sha
         /\ \/ Flushed(plan)[e].state = plan[e].state
            \/ /\ e \in DOMAIN catalog /\ plan[e].state = loaded[e].state
               /\ Flushed(plan)[e].state = catalog[e].state
<1> SUFFICES ASSUME NEW row, row = Flushed(plan)[e]
             PROVE  /\ row.path = plan[e].path /\ row.sha = plan[e].sha
                    /\ \/ row.state = plan[e].state
                       \/ /\ e \in DOMAIN catalog /\ plan[e].state = loaded[e].state
                          /\ row.state = catalog[e].state
  OBVIOUS
<1>1. \/ row = plan[e]
      \/ /\ e \in DOMAIN catalog /\ plan[e].state = loaded[e].state
         /\ row = [plan[e] EXCEPT !.state = catalog[e].state]
  BY DEF Flushed
<1>2. plan[e] \in Row
  BY CatalogMember
<1> QED BY <1>1, <1>2 DEF Row

\* What the catalog is after a commit, entry by entry.
LEMMA CommitRows ==
  ASSUME SeenInv, Commit
  PROVE  \E at :
           /\ DOMAIN catalog' = DOMAIN catalog \cup Placed(seen, at)
           /\ \A p \in DOMAIN seen :
                /\ at[p] \in DOMAIN catalog'
                /\ catalog'[at[p]].path = p /\ catalog'[at[p]].sha = seen[p]
                /\ catalog'[at[p]].state # "missing"
           /\ \A e \in DOMAIN catalog \ Placed(seen, at) :
                /\ catalog'[e].path = catalog[e].path
                /\ catalog[e].path \notin DOMAIN seen
<1>0. /\ loaded \in Catalogs /\ PathsUnique(loaded) /\ staged \subseteq Staged
      /\ phase = "folding" /\ DOMAIN loaded = DOMAIN catalog
  BY DEF SeenInv, Inv, TypeOK, LoadedInv, Commit
<1>1. PICK obs \in ObservedByPath : \E at \in Placements(loaded, obs) :
        catalog' = Flushed(Folded(loaded, obs, at))
  BY Zenon DEF Commit
<1>2. PICK at \in Placements(loaded, obs) : catalog' = Flushed(Folded(loaded, obs, at))
  BY <1>1
<1> DEFINE plan == Folded(loaded, obs, at)
<1>3. obs \in Observations
  BY <1>0, ObservedIsObservations
<1>4. plan \in Catalogs
  BY <1>0, <1>3, FoldedIsCatalog
<1>5. RowsAfter(loaded, obs, at, plan)
  BY <1>0, <1>3, FoldedRows, Zenon
<1> HIDE DEF plan
<1>6. DOMAIN obs = DOMAIN seen /\ (\A p \in DOMAIN seen : obs[p] = seen[p])
  BY <1>0, ObservedIsSeen
<1>7. Placed(obs, at) = Placed(seen, at)
  BY <1>6 DEF Placed
<1>8. catalog' = Flushed(plan) /\ DOMAIN catalog' = DOMAIN plan
  BY <1>2 DEF plan, Flushed
<1>9. \A e \in DOMAIN plan :
        /\ catalog'[e].path = plan[e].path /\ catalog'[e].sha = plan[e].sha
        /\ \/ catalog'[e].state = plan[e].state
           \/ /\ e \in DOMAIN catalog /\ plan[e].state = loaded[e].state
              /\ catalog'[e].state = catalog[e].state
  BY <1>4, <1>8, FlushedState
<1>10. \A e \in DOMAIN catalog :
         catalog[e].path = loaded[e].path
         /\ (catalog[e].state = "missing" => loaded[e].state = "missing")
  BY <1>0 DEF SeenInv, FoldInv
<1>11. DOMAIN catalog' = DOMAIN catalog \cup Placed(seen, at)
  BY <1>0, <1>5, <1>7, <1>8 DEF RowsAfter
<1>12. ASSUME NEW p \in DOMAIN seen
       PROVE  /\ at[p] \in DOMAIN catalog'
              /\ catalog'[at[p]].path = p /\ catalog'[at[p]].sha = seen[p]
              /\ catalog'[at[p]].state # "missing"
  <2>1. /\ at[p] \in DOMAIN plan /\ plan[at[p]].path = p /\ plan[at[p]].sha = seen[p]
        /\ plan[at[p]].state # "missing"
    BY <1>5, <1>6 DEF RowsAfter
  <2> QED BY <1>8, <1>9, <1>10, <2>1
<1>13. ASSUME NEW e \in DOMAIN catalog \ Placed(seen, at)
       PROVE  /\ catalog'[e].path = catalog[e].path
              /\ catalog[e].path \notin DOMAIN seen
  <2>1. e \in DOMAIN plan /\ plan[e].path = loaded[e].path /\ loaded[e].path \notin DOMAIN obs
    BY <1>0, <1>5, <1>7 DEF RowsAfter
  <2> QED BY <1>6, <1>9, <1>10, <2>1
<1> QED BY <1>11, <1>12, <1>13

\* A commit shows what this attempt saw, and moves no other entry.
LEMMA CommitFolds ==
  ASSUME SeenInv, Commit
  PROVE  /\ \A p \in DOMAIN seen : \E e \in DOMAIN catalog' :
              catalog'[e].path = p /\ catalog'[e].sha = seen[p] /\ catalog'[e].state # "missing"
         /\ \A e \in DOMAIN catalog' :
              catalog'[e].path \notin DOMAIN seen =>
                e \in DOMAIN catalog /\ catalog'[e].path = catalog[e].path
<1>1. PICK at :
        /\ DOMAIN catalog' = DOMAIN catalog \cup Placed(seen, at)
        /\ \A p \in DOMAIN seen :
             /\ at[p] \in DOMAIN catalog'
             /\ catalog'[at[p]].path = p /\ catalog'[at[p]].sha = seen[p]
             /\ catalog'[at[p]].state # "missing"
        /\ \A e \in DOMAIN catalog \ Placed(seen, at) :
             /\ catalog'[e].path = catalog[e].path
             /\ catalog[e].path \notin DOMAIN seen
  BY CommitRows, Zenon
<1>2. ASSUME NEW p \in DOMAIN seen
      PROVE  \E e \in DOMAIN catalog' :
               catalog'[e].path = p /\ catalog'[e].sha = seen[p] /\ catalog'[e].state # "missing"
  BY <1>1
<1>3. ASSUME NEW e \in DOMAIN catalog', catalog'[e].path \notin DOMAIN seen
      PROVE  e \in DOMAIN catalog /\ catalog'[e].path = catalog[e].path
  <2>1. e \notin Placed(seen, at)
    BY <1>1, <1>3 DEF Placed
  <2> QED BY <1>1, <1>3, <2>1
<1> QED BY <1>2, <1>3

\* Only the attempt that commits is believed, whatever rows the attempts before
\* it staged: the paths it saw are present with its bytes, and no entry is moved
\* to a path it did not see.
THEOREM FoldsTrue == Spec => FoldsWhatItSaw
<1>1. SeenInv /\ [Next]_vars =>
        [Commit =>
          /\ \A p \in DOMAIN seen : \E e \in DOMAIN catalog' :
               catalog'[e].path = p /\ catalog'[e].sha = seen[p] /\ catalog'[e].state # "missing"
          /\ \A e \in DOMAIN catalog' :
               catalog'[e].path \notin DOMAIN seen =>
                 e \in DOMAIN catalog /\ catalog'[e].path = catalog[e].path]_vars
  BY CommitFolds, Zenon
<1> QED BY <1>1, SeenHolds, PTL DEF Spec, FoldsWhatItSaw

\* No step marks an entry missing whose file is where it was, as it was, since
\* the attempt began.
LEMMA StepKeepsPresent ==
  ASSUME SeenInv, [Next]_vars, NEW e \in DOMAIN catalog,
         catalog[e].path \in kept, files[catalog[e].path] = catalog[e].sha,
         catalog[e].state # "missing"
  PROVE  catalog'[e].state # "missing"
<1>1. CASE Commit
  <2>1. phase = "folding" /\ todo = {}
    BY <1>1 DEF Commit, SeenInv, StagedInv
  <2>2. catalog[e].path \in DOMAIN seen
    BY <2>1 DEF SeenInv, KeptInv
  <2>3. PICK at :
          /\ \A p \in DOMAIN seen : catalog'[at[p]].state # "missing"
          /\ \A d \in DOMAIN catalog \ Placed(seen, at) : catalog[d].path \notin DOMAIN seen
    BY <1>1, CommitRows, Zenon
  <2>4. PICK p \in DOMAIN seen : at[p] = e
    BY <2>2, <2>3 DEF Placed
  <2> QED BY <2>3, <2>4
<1>2. CASE \E d \in Entries : IndexEnd(d)
  BY <1>2, IndexEndRows DEF SeenInv
<1> QED BY <1>1, <1>2, CatalogKinds

\* A file that stays where and as it is during a scan is not marked missing,
\* although the share may go away and come back while the scan walks it.
THEOREM PresentStays == Spec => PresentNeverMissing
<1>1. SeenInv /\ [Next]_vars =>
        [\A e \in DOMAIN catalog :
           catalog[e].path \in kept /\ files[catalog[e].path] = catalog[e].sha
           /\ catalog[e].state # "missing"
             => catalog'[e].state # "missing"]_vars
  BY StepKeepsPresent, Zenon
<1> QED BY <1>1, SeenHolds, PTL DEF Spec, PresentNeverMissing

-----------------------------------------------------------------------------
(***************************************************************************)
(* The loop of reconcile(): what it plans in each round, and that applying *)
(* its plan is folding.                                                    *)
(***************************************************************************)

\* Induction on the naturals, for sets.
LEMMA Induct ==
  ASSUME NEW T \in SUBSET Nat, 0 \in T, \A n \in T : n + 1 \in T
  PROVE  T = Nat
<1> SUFFICES ASSUME Nat \ T # {} PROVE FALSE
  OBVIOUS
<1>1. PICK x \in Nat \ T : \A y \in Nat \ T : ~ (<<y, x>> \in OpToRel(<, Nat))
  <2>1. Nat \ T \subseteq Nat
    OBVIOUS
  <2> QED BY <2>1, WFMin, NatLessThanWellFounded
<1>2. \A y \in Nat \ T : ~ (y < x)
  BY <1>1 DEF OpToRel
<1>3. x # 0 /\ x - 1 \in Nat /\ x - 1 < x
  OBVIOUS
<1>4. x - 1 \in T
  BY <1>2, <1>3
<1> QED BY <1>3, <1>4

\* A set of the first indices that is not empty has a last one.
LEMMA MaxIn ==
  ASSUME NEW n \in Nat, NEW s \in SUBSET (1 .. n), s # {}
  PROVE  Max(s) \in s
<1> DEFINE P(m) == \A t \in SUBSET (1 .. m) : t # {} => \E x \in t : \A y \in t : x >= y
           T == {m \in Nat : P(m)}
<1>1. P(0)
  <2>1. 1 .. 0 = {}
    OBVIOUS
  <2> QED BY <2>1
<1>2. ASSUME NEW m \in Nat, P(m) PROVE P(m + 1)
  <2> SUFFICES ASSUME NEW t \in SUBSET (1 .. (m + 1)), t # {}
               PROVE  \E x \in t : \A y \in t : x >= y
    OBVIOUS
  <2>1. CASE m + 1 \in t
    BY <2>1
  <2>2. CASE m + 1 \notin t
    <3>1. t \in SUBSET (1 .. m)
      BY <2>2
    <3> QED BY <1>2, <3>1
  <2> QED BY <2>1, <2>2
<1>3. P(n)
  <2> HIDE DEF P
  <2>1. T \in SUBSET Nat /\ 0 \in T /\ \A m \in T : m + 1 \in T
    BY <1>1, <1>2
  <2> HIDE DEF T
  <2>2. T = Nat
    BY <2>1, Induct
  <2> QED BY <2>2 DEF T
<1>4. \E x \in s : \A y \in s : x >= y
  BY <1>3
<1> QED BY <1>4 DEF Max

\* A list of a finite set that has every member once.
Lists(order, S) ==
  /\ order \in [1 .. Cardinality(S) -> S] /\ Cardinality(S) \in Nat
  /\ \A i, j \in DOMAIN order : order[i] = order[j] => i = j
  /\ \A x \in S : \E i \in DOMAIN order : order[i] = x

\* SetToSeqs lists: an injection between finite sets of one size is onto.
LEMMA SeqsList ==
  ASSUME NEW S, IsFiniteSet(S), NEW order \in SetToSeqs(S)
  PROVE  Lists(order, S)
<1> DEFINE n == Cardinality(S)
<1>1. n \in Nat
  BY FS_CardinalityType
<1>2. order \in [1 .. n -> S] /\ \A i, j \in 1 .. n : i # j => order[i] # order[j]
  BY DEF SetToSeqs
<1>3. order \in Injection(1 .. n, S)
  BY <1>2 DEF Injection, IsInjective
<1>4. IsFiniteSet(1 .. n) /\ Cardinality(1 .. n) = n
  BY <1>1, FS_Interval
<1>5. order \in Surjection(1 .. n, S)
  BY <1>3, <1>4, FS_Injection
<1>6. \A x \in S : \E i \in 1 .. n : order[i] = x
  BY <1>5 DEF Surjection
<1> QED BY <1>1, <1>2, <1>6 DEF Lists

\* Which entry an observation goes to: the one at its path, else a source of its
\* content that has not been claimed, else none if all have.
LEMMA TargetIs ==
  ASSUME NEW cat, NEW obs, NEW rows, Lists(rows, DOMAIN cat), NEW p, NEW claimed,
         NEW t, t = Target(rows, cat, obs, p, claimed)
  PROVE  /\ Known(cat, p) => t \in DOMAIN cat /\ cat[t].path = p
         /\ ~ Known(cat, p) =>
              \/ MovedFrom(cat, obs, t, p) /\ t \notin claimed
              \/ t = Add /\ \A e \in DOMAIN cat : MovedFrom(cat, obs, e, p) => e \in claimed
<1> DEFINE here == AtPath(cat, p)
           sources == MoveSources(rows, cat, obs, obs[p])
           left == {i \in sources : rows[i] \notin claimed}
<1>1. Known(cat, p) <=> here # {}
  BY DEF Known, AtPath
<1>2. CASE Known(cat, p)
  <2>1. t \in here
    BY <1>1, <1>2 DEF Target
  <2> QED BY <1>2, <2>1 DEF AtPath
<1>3. CASE ~ Known(cat, p)
  <2>1. t = IF left = {} THEN Add ELSE rows[Max(left)]
    BY <1>1, <1>3 DEF Target, ClaimMoveSource
  <2>2. /\ Cardinality(DOMAIN cat) \in Nat /\ DOMAIN rows = 1 .. Cardinality(DOMAIN cat)
        /\ \A i \in DOMAIN rows : rows[i] \in DOMAIN cat
        /\ \A e \in DOMAIN cat : \E i \in DOMAIN rows : rows[i] = e
    BY DEF Lists
  <2>3. \A i : i \in sources <=>
          i \in DOMAIN rows /\ cat[rows[i]].path \notin DOMAIN obs /\ cat[rows[i]].sha = obs[p]
    BY DEF MoveSources
  <2> HIDE DEF sources
  <2>4. CASE left = {}
    <3>1. ASSUME NEW e \in DOMAIN cat, MovedFrom(cat, obs, e, p) PROVE e \in claimed
      <4>1. PICK i \in DOMAIN rows : rows[i] = e
        BY <2>2
      <4>2. i \in sources
        BY <2>3, <3>1, <4>1 DEF MovedFrom, Disappeared
      <4> QED BY <2>4, <4>1, <4>2
    <3> QED BY <1>3, <2>1, <2>4, <3>1
  <2>5. CASE left # {}
    <3>1. left \in SUBSET (1 .. Cardinality(DOMAIN cat))
      BY <2>2, <2>3
    <3> HIDE DEF left
    <3>2. Max(left) \in left
      BY <2>2, <2>5, <3>1, MaxIn
    <3>3. PICK i \in left : t = rows[i]
      BY <2>1, <2>5, <3>2
    <3>4. i \in sources /\ t \notin claimed
      BY <3>3 DEF left
    <3>5. MovedFrom(cat, obs, t, p)
      BY <2>2, <2>3, <3>3, <3>4 DEF MovedFrom, Disappeared
    <3> QED BY <1>3, <3>4, <3>5
  <2> QED BY <2>4, <2>5
<1> QED BY <1>2, <1>3

\* The rounds of the loop up to the last in D.
Rounds(rows, cat, obs, order, D, f) ==
  f = [i \in D |-> Target(rows, cat, obs, order[i], {f[j] : j \in 1 .. (i - 1)})]

\* Each round is determined by those before it, so there are any number of them.
LEMMA RoundsExist ==
  ASSUME NEW rows, NEW cat, NEW obs, NEW order, NEW n \in Nat
  PROVE  \E f : Rounds(rows, cat, obs, order, 1 .. n, f)
<1> DEFINE P(m) == \E f : Rounds(rows, cat, obs, order, 1 .. m, f)
           T == {m \in Nat : P(m)}
           Round(i, claimed) == Target(rows, cat, obs, order[i], claimed)
<1>1. P(0)
  <2>1. 1 .. 0 = {}
    OBVIOUS
  <2>2. <<>> = [i \in 1 .. 0 |-> Round(i, {<<>>[j] : j \in 1 .. (i - 1)})]
    BY <2>1
  <2> QED BY <2>2 DEF Rounds
<1>2. ASSUME NEW m \in Nat, P(m) PROVE P(m + 1)
  <2>1. PICK f : f = [i \in 1 .. m |-> Round(i, {f[j] : j \in 1 .. (i - 1)})]
    BY <1>2 DEF Rounds
  <2> HIDE DEF Round
  <2> DEFINE g == [i \in 1 .. (m + 1) |->
                     IF i = m + 1 THEN Round(m + 1, {f[j] : j \in 1 .. m}) ELSE f[i]]
  <2>2. ASSUME NEW i \in 1 .. (m + 1)
        PROVE  g[i] = Round(i, {g[j] : j \in 1 .. (i - 1)})
    <3>1. \A j \in 1 .. (i - 1) : j \in 1 .. (m + 1) /\ j # m + 1
      OBVIOUS
    <3>2. \A j \in 1 .. (i - 1) : g[j] = f[j]
      BY <3>1
    <3>3. {g[j] : j \in 1 .. (i - 1)} = {f[j] : j \in 1 .. (i - 1)}
      BY <3>2
    <3>4. g[i] = Round(i, {f[j] : j \in 1 .. (i - 1)})
      <4>1. CASE i = m + 1
        <5>1. m + 1 - 1 = m
          OBVIOUS
        <5> QED BY <4>1, <5>1
      <4>2. CASE i # m + 1
        <5>1. i \in 1 .. m
          BY <4>2
        <5> QED BY <2>1, <4>2, <5>1
      <4> QED BY <4>1, <4>2
    <3> QED BY <3>3, <3>4
  <2>3. g = [i \in 1 .. (m + 1) |-> Round(i, {g[j] : j \in 1 .. (i - 1)})]
    BY <2>2
  <2> HIDE DEF g
  <2> QED BY <2>3 DEF Rounds, Round
<1> HIDE DEF P
<1>3. T \in SUBSET Nat /\ 0 \in T /\ \A m \in T : m + 1 \in T
  BY <1>1, <1>2
<1> HIDE DEF T
<1>4. T = Nat
  BY <1>3, Induct
<1> QED BY <1>4 DEF T, P

\* What the loop makes of the observations: known paths keep their entries, the others
\* go to sources of their content, each to its own, and to none only if none is left.
Planned(plan, cat, obs) ==
  /\ DOMAIN plan = DOMAIN obs
  /\ \A p \in DOMAIN obs :
       /\ Known(cat, p) => plan[p] \in DOMAIN cat /\ cat[plan[p]].path = p
       /\ ~ Known(cat, p) =>
            \/ MovedFrom(cat, obs, plan[p], p)
            \/ /\ plan[p] = Add
               /\ \A e \in DOMAIN cat :
                    MovedFrom(cat, obs, e, p) => \E q \in DOMAIN obs : plan[q] = e
  /\ \A p, q \in DOMAIN obs : plan[p] = plan[q] => p = q \/ plan[p] = Add

\* The loop plans so: a claimed source was not seen, and the entry of a path that was seen
\* is no source, so no two paths meet in one entry.
LEMMA PlanIsPlanned ==
  ASSUME NEW cat, NEW obs, NEW rows, NEW order,
         Lists(rows, DOMAIN cat), Lists(order, DOMAIN obs),
         NEW plan, plan = Plan(rows, cat, obs, order)
  PROVE  Planned(plan, cat, obs)
<1> DEFINE n == Cardinality(DOMAIN obs)
           Before(f, i) == {f[j] : j \in 1 .. (i - 1)}
           PosOf(p) == CHOOSE i \in DOMAIN order : order[i] = p
<1>1. /\ n \in Nat /\ DOMAIN order = 1 .. n /\ \A i \in 1 .. n : order[i] \in DOMAIN obs
      /\ \A i, j \in 1 .. n : order[i] = order[j] => i = j
      /\ \A p \in DOMAIN obs : \E i \in 1 .. n : order[i] = p
  BY DEF Lists
<1>2. PICK f : Rounds(rows, cat, obs, order, DOMAIN order, f) /\ plan = [p \in DOMAIN obs |-> f[PosOf(p)]]
  <2> DEFINE F == CHOOSE f : f = [i \in DOMAIN order |->
                                    Target(rows, cat, obs, order[i], {f[j] : j \in 1 .. (i - 1)})]
  <2>1. \E f : Rounds(rows, cat, obs, order, DOMAIN order, f)
    <3> HIDE DEF n, F
    <3>1. \E f : Rounds(rows, cat, obs, order, 1 .. n, f)
      BY <1>1, RoundsExist
    <3> QED BY <1>1, <3>1
  <2>2. Rounds(rows, cat, obs, order, DOMAIN order, F)
    BY <2>1, Zenon DEF Rounds
  <2>3. plan = [p \in DOMAIN obs |-> F[PosOf(p)]]
    BY DEF Plan
  <2> HIDE DEF F, PosOf
  <2> QED BY <2>2, <2>3
<1>3. ASSUME NEW i \in 1 .. n
      PROVE  /\ plan[order[i]] = f[i]
             /\ f[i] = Target(rows, cat, obs, order[i], Before(f, i))
  <2>1. PosOf(order[i]) = i /\ order[i] \in DOMAIN obs /\ i \in DOMAIN order
    BY <1>1
  <2> HIDE DEF PosOf
  <2>2. plan[order[i]] = f[i]
    BY <1>2, <2>1
  <2>3. f[i] = Target(rows, cat, obs, order[i], Before(f, i))
    BY <1>2, <2>1 DEF Rounds
  <2> QED BY <2>2, <2>3
<1> HIDE DEF PosOf
<1>4. ASSUME NEW i \in 1 .. n
      PROVE  /\ Known(cat, order[i]) => f[i] \in DOMAIN cat /\ cat[f[i]].path = order[i]
             /\ ~ Known(cat, order[i]) =>
                  \/ MovedFrom(cat, obs, f[i], order[i]) /\ f[i] \notin Before(f, i)
                  \/ /\ f[i] = Add
                     /\ \A e \in DOMAIN cat : MovedFrom(cat, obs, e, order[i]) => e \in Before(f, i)
  <2>1. f[i] = Target(rows, cat, obs, order[i], Before(f, i))
    BY <1>3
  <2> HIDE DEF Before
  <2> QED BY <2>1, TargetIs
<1>5. ASSUME NEW p \in DOMAIN obs
      PROVE  /\ Known(cat, p) => plan[p] \in DOMAIN cat /\ cat[plan[p]].path = p
             /\ ~ Known(cat, p) =>
                  \/ MovedFrom(cat, obs, plan[p], p)
                  \/ /\ plan[p] = Add
                     /\ \A e \in DOMAIN cat :
                          MovedFrom(cat, obs, e, p) => \E q \in DOMAIN obs : plan[q] = e
  <2>1. PICK i \in 1 .. n : order[i] = p
    BY <1>1
  <2>2. plan[p] = f[i]
    BY <1>3, <2>1
  <2>3. ASSUME NEW e \in Before(f, i) PROVE \E q \in DOMAIN obs : plan[q] = e
    <3>1. PICK j \in 1 .. (i - 1) : f[j] = e
      OBVIOUS
    <3>2. j \in 1 .. n
      BY <1>1
    <3> QED BY <1>1, <1>3, <3>1, <3>2
  <2> HIDE DEF Before
  <2> QED BY <1>4, <2>1, <2>2, <2>3
<1>6. ASSUME NEW i \in 1 .. n, NEW j \in 1 .. n, i < j, f[i] = f[j] PROVE f[j] = Add
  <2>1. f[i] \in Before(f, j)
    BY <1>1, <1>6
  <2> HIDE DEF Before
  <2>2. CASE ~ Known(cat, order[j])
    BY <1>4, <1>6, <2>1, <2>2
  <2>3. CASE Known(cat, order[j])
    <3>1. cat[f[i]].path = order[j] /\ order[j] \in DOMAIN obs /\ f[i] \in DOMAIN cat
      BY <1>1, <1>4, <1>6, <2>3
    <3>2. CASE Known(cat, order[i])
      <4>1. order[i] = order[j]
        BY <1>4, <3>1, <3>2
      <4> QED BY <1>1, <1>6, <4>1
    <3>3. CASE ~ Known(cat, order[i])
      <4>1. ~ MovedFrom(cat, obs, f[i], order[i])
        BY <3>1 DEF MovedFrom, Disappeared
      <4> QED BY <1>4, <1>6, <3>3, <4>1
    <3> QED BY <3>2, <3>3
  <2> QED BY <2>2, <2>3
<1>7. ASSUME NEW p \in DOMAIN obs, NEW q \in DOMAIN obs, plan[p] = plan[q], p # q
      PROVE  plan[p] = Add
  <2>1. PICK i \in 1 .. n : order[i] = p
    BY <1>1
  <2>2. PICK j \in 1 .. n : order[j] = q
    BY <1>1
  <2>3. plan[p] = f[i] /\ plan[q] = f[j] /\ i # j
    BY <1>3, <1>7, <2>1, <2>2
  <2>4. i < j \/ j < i
    BY <1>1, <2>3
  <2> QED BY <1>6, <1>7, <2>3, <2>4
<1>8. DOMAIN plan = DOMAIN obs
  BY <1>2
<1> QED BY <1>5, <1>7, <1>8 DEF Planned

\* A finite set fits into one that is no smaller.
LEMMA FitsInto ==
  ASSUME NEW S, NEW T, IsFiniteSet(S), IsFiniteSet(T), Cardinality(S) <= Cardinality(T)
  PROVE  \E f \in [S -> T] : \A x, y \in S : f[x] = f[y] => x = y
<1> DEFINE m == Cardinality(S)
           n == Cardinality(T)
<1>1. m \in Nat /\ n \in Nat /\ ExistsBijection(1 .. m, S) /\ ExistsBijection(1 .. n, T)
  BY FS_CardinalityType
<1>2. PICK g \in [1 .. m -> S] : \A x \in S : \E i \in 1 .. m : g[i] = x
  BY <1>1 DEF ExistsBijection, Bijection, Surjection
<1>3. PICK h \in [1 .. n -> T] : \A i, j \in 1 .. n : h[i] = h[j] => i = j
  BY <1>1 DEF ExistsBijection, Bijection, Injection, IsInjective
<1> DEFINE at(x) == CHOOSE i \in 1 .. m : g[i] = x
           f == [x \in S |-> h[at(x)]]
<1>4. \A x \in S : at(x) \in 1 .. m /\ g[at(x)] = x
  BY <1>2
<1>5. \A i \in 1 .. m : i \in 1 .. n
  BY <1>1
<1> HIDE DEF at
<1>6. f \in [S -> T]
  BY <1>3, <1>4, <1>5
<1>7. ASSUME NEW x \in S, NEW y \in S, f[x] = f[y] PROVE x = y
  <2>1. at(x) = at(y)
    BY <1>3, <1>4, <1>5, <1>7
  <2> QED BY <1>4, <2>1
<1> QED BY <1>6, <1>7

\* With room for the added entries, what is planned is folded as one of the placements.
LEMMA ApplyPlaces ==
  ASSUME NEW cat \in Catalogs, NEW obs \in Observations, Room(cat, obs),
         NEW plan, Planned(plan, cat, obs), NEW new, new = Apply(cat, obs, plan)
  PROVE  \E at \in Placements(cat, obs) : new = Folded(cat, obs, at)
<1> DEFINE adds == {p \in DOMAIN plan : plan[p] = Add}
           free == Entries \ DOMAIN cat
           ids == CHOOSE f \in [adds -> free] : \A p, q \in adds : f[p] = f[q] => p = q
           at == [p \in DOMAIN plan |-> IF p \in adds THEN ids[p] ELSE plan[p]]
<1>1. /\ IsFiniteSet(Entries) /\ IsFiniteSet(Paths) /\ Add \notin Entries
      /\ DOMAIN cat \subseteq Entries /\ DOMAIN obs \subseteq Paths
  BY LoopAssumption, CatalogMember, ObservationsMember DEF LoopAssumption
<1>2. /\ DOMAIN plan = DOMAIN obs
      /\ \A p \in DOMAIN obs : Known(cat, p) => plan[p] \in DOMAIN cat /\ cat[plan[p]].path = p
      /\ \A p \in DOMAIN obs : ~ Known(cat, p) =>
           \/ MovedFrom(cat, obs, plan[p], p)
           \/ /\ plan[p] = Add
              /\ \A e \in DOMAIN cat :
                   MovedFrom(cat, obs, e, p) => \E q \in DOMAIN obs : plan[q] = e
      /\ \A p, q \in DOMAIN obs : plan[p] = plan[q] => p = q \/ plan[p] = Add
  BY DEF Planned
<1>3. \A p \in adds : p \in DOMAIN obs /\ ~ Known(cat, p)
  BY <1>1, <1>2
<1>4. Cardinality(adds) <= Cardinality(free) /\ IsFiniteSet(adds) /\ IsFiniteSet(free)
  <2> DEFINE fresh == {p \in DOMAIN obs : ~ Known(cat, p)}
  <2>1. Cardinality(fresh) <= Cardinality(free)
    BY DEF Room
  <2>2. adds \in SUBSET fresh /\ fresh \in SUBSET Paths /\ free \in SUBSET Entries
    BY <1>1, <1>3
  <2> HIDE DEF adds, fresh, free
  <2>3. IsFiniteSet(fresh) /\ IsFiniteSet(free)
    BY <1>1, <2>2, FS_Subset
  <2>4. IsFiniteSet(adds) /\ Cardinality(adds) <= Cardinality(fresh)
    BY <2>2, <2>3, FS_Subset
  <2>5. Cardinality(adds) \in Nat /\ Cardinality(fresh) \in Nat /\ Cardinality(free) \in Nat
    BY <2>3, <2>4, FS_CardinalityType
  <2> QED BY <2>1, <2>3, <2>4, <2>5
<1>5. ids \in [adds -> free] /\ \A p, q \in adds : ids[p] = ids[q] => p = q
  <2> HIDE DEF adds, free
  <2>1. \E f \in [adds -> free] : \A p, q \in adds : f[p] = f[q] => p = q
    BY <1>4, FitsInto
  <2> QED BY <2>1
<1>6. new = Folded(cat, obs, at)
  BY DEF Apply
<1> HIDE DEF ids
<1>7. /\ DOMAIN at = DOMAIN obs
      /\ \A p \in adds : at[p] = ids[p] /\ at[p] \in Entries \ DOMAIN cat
      /\ \A p \in DOMAIN obs \ adds : at[p] = plan[p] /\ at[p] \in DOMAIN cat
  <2>1. \A p \in DOMAIN obs \ adds : plan[p] \in DOMAIN cat
    BY <1>2 DEF MovedFrom, Disappeared
  <2> QED BY <1>2, <1>5, <2>1
<1>8. at \in [DOMAIN obs -> Entries]
  BY <1>1, <1>2, <1>7
<1> HIDE DEF at
<1>9. \A p, q \in DOMAIN obs : at[p] = at[q] => p = q
  BY <1>2, <1>5, <1>7
<1>10. ASSUME NEW p \in DOMAIN obs, Known(cat, p)
       PROVE  at[p] \in DOMAIN cat /\ cat[at[p]].path = p
  BY <1>2, <1>3, <1>7, <1>10
<1>11. ASSUME NEW p \in DOMAIN obs, ~ Known(cat, p)
       PROVE  \/ MovedFrom(cat, obs, at[p], p)
              \/ /\ at[p] \notin DOMAIN cat
                 /\ \A e \in DOMAIN cat :
                      MovedFrom(cat, obs, e, p) => \E q \in DOMAIN obs : at[q] = e
  <2>1. CASE p \notin adds
    BY <1>2, <1>7, <1>11, <2>1
  <2>2. CASE p \in adds
    <3>1. Add \notin DOMAIN cat
      BY <1>1
    <3>2. ~ MovedFrom(cat, obs, plan[p], p)
      BY <2>2, <3>1 DEF MovedFrom, Disappeared
    <3>3. \A e \in DOMAIN cat : MovedFrom(cat, obs, e, p) => \E q \in DOMAIN obs : plan[q] = e
      BY <1>2, <1>11, <3>2
    <3>4. \A q \in DOMAIN obs : plan[q] \in DOMAIN cat => at[q] = plan[q]
      BY <1>2, <1>7, <3>1
    <3> QED BY <1>7, <2>2, <3>3, <3>4
  <2> QED BY <2>1, <2>2
<1>12. at \in Placements(cat, obs)
  BY <1>8, <1>9, <1>10, <1>11 DEF Placements
<1> QED BY <1>6, <1>12

\* Every result of the loop is such a folding.
LEMMA ResultPlaces ==
  ASSUME NEW cat \in Catalogs, NEW obs \in Observations, Room(cat, obs),
         NEW new \in Results(cat, obs)
  PROVE  \E at \in Placements(cat, obs) : new = Folded(cat, obs, at)
<1>1. PICK rows \in SetToSeqs(DOMAIN cat), order \in SetToSeqs(DOMAIN obs) :
        new = Apply(cat, obs, Plan(rows, cat, obs, order))
  BY DEF Results
<1>2. IsFiniteSet(DOMAIN cat) /\ IsFiniteSet(DOMAIN obs)
  <2>1. /\ IsFiniteSet(Entries) /\ DOMAIN cat \in SUBSET Entries
        /\ IsFiniteSet(Paths) /\ DOMAIN obs \in SUBSET Paths
    BY LoopAssumption, CatalogMember, ObservationsMember DEF LoopAssumption
  <2> QED BY <2>1, FS_Subset
<1>3. Lists(rows, DOMAIN cat) /\ Lists(order, DOMAIN obs)
  BY <1>2, SeqsList
<1>4. PICK plan : plan = Plan(rows, cat, obs, order)
  OBVIOUS
<1>5. Planned(plan, cat, obs)
  BY <1>3, <1>4, PlanIsPlanned
<1> QED BY <1>1, <1>4, <1>5, ApplyPlaces

\* A catalog has its type and unique paths.
LoopInv == mirror \in Catalogs /\ PathsUnique(mirror)

\* Scans yield foldings, and an index job changes a state.
LEMMA LoopStep ==
  ASSUME LoopInv, [LoopNext]_mirror
  PROVE  LoopInv'
<1>1. ASSUME NEW obs \in Observations, Room(mirror, obs), mirror' \in Results(mirror, obs)
      PROVE  LoopInv'
  <2>1. PICK at \in Placements(mirror, obs) : mirror' = Folded(mirror, obs, at)
    BY <1>1, ResultPlaces DEF LoopInv
  <2> QED BY <2>1, FoldedIsCatalog, FoldedPathsUnique DEF LoopInv
<1>2. ASSUME NEW e \in DOMAIN mirror, NEW st \in Processed,
             mirror' = [mirror EXCEPT ![e].state = st]
      PROVE  LoopInv'
  <2>1. /\ DOMAIN mirror' = DOMAIN mirror /\ mirror' = [d \in DOMAIN mirror' |-> mirror'[d]]
        /\ \A d \in DOMAIN mirror : d # e => mirror'[d] = mirror[d]
        /\ mirror'[e] = [mirror[e] EXCEPT !.state = st]
    BY <1>2, CatalogMember DEF LoopInv
  <2>2. /\ DOMAIN mirror \subseteq Entries /\ \A d \in DOMAIN mirror : mirror[d] \in Row
    BY CatalogMember DEF LoopInv
  <2>3. \A d \in DOMAIN mirror : mirror'[d] \in Row /\ mirror'[d].path = mirror[d].path
    BY <2>1, <2>2 DEF Row, States, Processed, Processed
  <2> QED BY <2>1, <2>2, <2>3, CatalogMember DEF LoopInv, PathsUnique
<1>3. CASE UNCHANGED mirror
  BY <1>3 DEF LoopInv
<1> QED BY <1>1, <1>2, <1>3 DEF LoopNext, LoopScan, LoopIndex

\* A scan of any mirror with unique paths does what the relation says.
LEMMA LoopAgrees ==
  ASSUME LoopInv
  PROVE  LoopIsReconcile /\ NothingLost
<1>1. ASSUME NEW obs \in Observations, Room(mirror, obs), NEW new \in Results(mirror, obs)
      PROVE  /\ \E at \in Placements(mirror, obs) : new = Folded(mirror, obs, at)
             /\ Mirrors(new, obs) /\ KeepsHistory(mirror, new) /\ NoNeedlessEntry(mirror, new)
  <2>1. PICK at \in Placements(mirror, obs) : new = Folded(mirror, obs, at)
    BY <1>1, ResultPlaces DEF LoopInv
  <2> QED BY <2>1, FoldedMirrors, FoldedKeepsHistory, FoldedNoNeedlessEntry DEF LoopInv
<1>2. LoopIsReconcile
  BY <1>1 DEF LoopIsReconcile
<1>3. NothingLost
  BY <1>1 DEF NothingLost
<1> QED BY <1>2, <1>3

\* In every catalog that scans and indexing produce, paths are unique.
LEMMA LoopInvHolds == LoopSpec => []LoopInv
<1>1. LoopInit => LoopInv
  BY EmptyCatalog DEF LoopInit, LoopInv
<1>2. LoopInv /\ [LoopNext]_mirror => LoopInv'
  BY LoopStep
<1> QED BY <1>1, <1>2, PTL DEF LoopSpec

\* The loop as written, in every order of rows and observations, does what Reconcile says
\* a scan does, and what is seen is mirrored.
THEOREM LoopPlaces == LoopSpec => []LoopIsReconcile
<1>1. LoopInv => LoopIsReconcile
  BY LoopAgrees
<1> QED BY <1>1, LoopInvHolds, PTL

\* Entries, histories and processing results survive the loop, and no entry is created for
\* bytes that moved.
THEOREM LoopLosesNothing == LoopSpec => []NothingLost
<1>1. LoopInv => NothingLost
  BY LoopAgrees
<1> QED BY <1>1, LoopInvHolds, PTL
=============================================================================
