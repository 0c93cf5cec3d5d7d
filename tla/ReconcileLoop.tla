--------------------------- MODULE ReconcileLoop ---------------------------
(***************************************************************************)
(* reconcile() as it is written: a loop over the observations in the order *)
(* staged, that claims move sources from the end of a list per content     *)
(* hash.  Run from every catalog that scans and indexing can produce, with *)
(* observations and rows in every order, it is compared with Reconcile.    *)
(***************************************************************************)
EXTENDS Reconcile, Naturals, FiniteSets, SequencesExt

CONSTANT Add  \* AddEntry: the path gets a new entry

\* A location has finitely many files and rows.
ASSUME LoopAssumption ==
  IsFiniteSet(Entries) /\ IsFiniteSet(Paths) /\ Add \notin Entries

VARIABLE mirror  \* the location's entries, as the scans so far have left them

\* disappeared_by_sha: where in rows the candidates of each content stand.
MoveSources(rows, cat, obs, sha) ==
  {i \in DOMAIN rows : cat[rows[i]].path \notin DOMAIN obs /\ cat[rows[i]].sha = sha}

\* Mutant: a source once claimed stays on its list.
ClaimMoveSourceAgain(rows, sources, claimed) ==
  IF sources = {} THEN Add ELSE rows[Max(sources)]

\* _claim_move_source: the last of the candidates not yet claimed.
ClaimMoveSource(rows, sources, claimed) ==
  LET left == {i \in sources : rows[i] \notin claimed}
  IN IF left = {} THEN Add ELSE rows[Max(left)]

\* catalog_by_path: missing entries are found too, and restored.
AtPath(cat, p) == {e \in DOMAIN cat : cat[e].path = p}

\* One round of the loop: the entry that path p goes to.
Target(rows, cat, obs, p, claimed) ==
  IF AtPath(cat, p) # {}
    THEN CHOOSE e \in AtPath(cat, p) : TRUE
    ELSE ClaimMoveSource(rows, MoveSources(rows, cat, obs, obs[p]), claimed)

\* The loop over observed_by_path: each round finds what those before it have claimed.
Plan(rows, cat, obs, order) ==
  LET target[i \in DOMAIN order] ==
        Target(rows, cat, obs, order[i], {target[j] : j \in 1 .. (i - 1)})
  IN [p \in DOMAIN obs |-> target[CHOOSE i \in DOMAIN order : order[i] = p]]

\* _apply_reconciliation: the adds get new ids.
Apply(cat, obs, plan) ==
  LET adds == {p \in DOMAIN plan : plan[p] = Add}
      ids == CHOOSE f \in [adds -> Entries \ DOMAIN cat] :
               \A p, q \in adds : f[p] = f[q] => p = q
  IN Folded(cat, obs, [p \in DOMAIN plan |-> IF p \in adds THEN ids[p] ELSE plan[p]])

\* Every catalog that folding obs can lead to.
Results(cat, obs) ==
  {Apply(cat, obs, plan) : plan \in
     {Plan(rows, cat, obs, order) : rows \in SetToSeqs(DOMAIN cat),
                                    order \in SetToSeqs(DOMAIN obs)}}

\* The bound on entries is the size of Entries: no scan needs more ids.
Room(cat, obs) ==
  Cardinality({p \in DOMAIN obs : ~ Known(cat, p)}) <= Cardinality(Entries \ DOMAIN cat)

LoopInit == mirror = <<>>

LoopScan ==
  \E obs \in Observations : Room(mirror, obs) /\ mirror' \in Results(mirror, obs)

\* index_file records an outcome.
LoopIndex ==
  \E e \in DOMAIN mirror, st \in Processed :
    mirror[e].state = "discovered" /\ mirror' = [mirror EXCEPT ![e].state = st]

LoopNext == LoopScan \/ LoopIndex

LoopSpec == LoopInit /\ [][LoopNext]_mirror

-----------------------------------------------------------------------------
\* Whatever the order of rows and observations, the loop does what Reconcile
\* says: its result is one of the placements, and mirrors what was seen.
LoopIsReconcile ==
  \A obs \in Observations : Room(mirror, obs) =>
    \A new \in Results(mirror, obs) :
      /\ \E at \in Placements(mirror, obs) : new = Folded(mirror, obs, at)
      /\ Mirrors(new, obs)

\* Entries, histories and processing results survive every scan, and no entry
\* is created for bytes that moved.
NothingLost ==
  \A obs \in Observations : Room(mirror, obs) =>
    \A new \in Results(mirror, obs) :
      KeepsHistory(mirror, new) /\ NoNeedlessEntry(mirror, new)
=============================================================================
