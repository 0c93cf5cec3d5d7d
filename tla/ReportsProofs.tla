--------------------------- MODULE ReportsProofs ---------------------------
(***************************************************************************)
(* Proofs about Reports: plans that can be followed, a report that is one  *)
(* and true, listings that miss and repeat nothing they should not.        *)
(***************************************************************************)
EXTENDS Reports, FiniteSetTheorems, TLAPS

Planning == {"claimed", "half", "compared"}
Rebuilding == {"loaded", "deleting", "deleted"}

\* The catalog and the attempts.
TypeInv ==
  /\ row \in [Entries -> Files \cup {None, Gone}]
  /\ clock \in Nat /\ key \in [Entries -> Nat]
  /\ DOMAIN writing = Entries
  /\ at \in [Readers -> {"idle", "done", "dead"} \cup Planning \cup Rebuilding]
  /\ stirred \in [Readers -> SUBSET Entries]
  /\ DOMAIN source = Readers /\ DOMAIN target = Readers /\ DOMAIN doomed = Readers

\* Each update in flight has a stamp later than the row's, and none is ahead of the clock.
KeyInv ==
  \A e \in Entries :
    /\ key[e] <= clock
    /\ writing[e] # None =>
         /\ writing[e].key \in Nat /\ key[e] < writing[e].key /\ writing[e].key <= clock
         /\ writing[e].file \in Files \cup {None}

\* Plans and reports are not built in one behaviour.
ModeInv ==
  \A r \in Readers :
    /\ at[r] \in Planning => mode = "plan"
    /\ at[r] \in Rebuilding => mode = "rebuild"

BaseInv == TypeInv /\ KeyInv /\ ModeInv

-----------------------------------------------------------------------------
(***************************************************************************)
(* Counting.                                                               *)
(***************************************************************************)

\* Two elements are a lower bound of two.
LEMMA TwoOrMore ==
  ASSUME NEW S, IsFiniteSet(S)
  PROVE  Cardinality(S) \in Nat /\ (Cardinality(S) >= 2 <=> \E e, d \in S : e # d)
<1>1. Cardinality(S) \in Nat
  BY FS_CardinalityType
<1>2. ASSUME NEW e \in S, NEW d \in S, e # d PROVE Cardinality(S) >= 2
  <2>1. Cardinality({e, d}) = 2
    <3>1. IsFiniteSet({e}) /\ Cardinality({e}) = 1
      BY FS_Singleton
    <3>2. Cardinality({e} \cup {d}) = 2
      BY <1>2, <3>1, FS_AddElement
    <3>3. {e} \cup {d} = {e, d}
      OBVIOUS
    <3> QED BY <3>2, <3>3
  <2>2. {e, d} \in SUBSET S
    OBVIOUS
  <2>3. Cardinality({e, d}) <= Cardinality(S)
    BY <2>2, FS_Subset
  <2> QED BY <1>1, <2>1, <2>3
<1>3. ASSUME \A e, d \in S : e = d PROVE ~ Cardinality(S) >= 2
  <2>1. CASE S = {}
    BY <2>1, FS_EmptySet
  <2>2. CASE S # {}
    <3>1. PICK e \in S : S = {e}
      BY <1>3, <2>2
    <3> QED BY <3>1, FS_Singleton
  <2> QED BY <2>1, <2>2
<1> QED BY <1>1, <1>2, <1>3

\* There are finitely many entries.
LEMMA EntriesFinite == ASSUME NEW S \in SUBSET Entries PROVE IsFiniteSet(S)
<1>1. IsFiniteSet(Entries)
  BY FS_Interval, ReportsAssumption DEF Entries
<1> QED BY <1>1, FS_Subset

-----------------------------------------------------------------------------
(***************************************************************************)
(* Steps of the catalog, of the attempts and of the listing.               *)
(***************************************************************************)

\* A row is written, in full view, or not at all.
CatalogStep ==
  \/ \E e \in Entries : Stamp(e) \/ Change(e)
  \/ \E l \in {From, To} : DeleteLocation(l)

AttemptStep ==
  \E r \in Readers :
    \/ Die(r) \/ Claim(r) \/ ReadSource(r) \/ ReadTarget(r) \/ CommitPlan(r)
    \/ LoadMembers(r) \/ Delete(r) \/ Deletes(r) \/ CommitReport(r)

\* Every step is one of these.
LEMMA StepKinds ==
  ASSUME [Next]_vars
  PROVE  CatalogStep \/ AttemptStep \/ NextPage \/ Expire \/ UNCHANGED vars
BY DEF Next, CatalogStep, AttemptStep, Quiet

\* Where an attempt goes, and whence; the others stay.
LEMMA AttemptMoves ==
  ASSUME TypeInv, NEW r \in Readers,
         \/ Die(r) \/ Claim(r) \/ ReadSource(r) \/ ReadTarget(r) \/ CommitPlan(r)
         \/ LoadMembers(r) \/ Delete(r) \/ Deletes(r) \/ CommitReport(r)
  PROVE  /\ UNCHANGED <<mode, catalog, page>>
         /\ \A p \in Readers \ {r} : at'[p] = at[p]
         /\ at' \in [Readers -> {"idle", "done", "dead"} \cup Planning \cup Rebuilding]
         /\ \/ at'[r] = "dead"
            \/ at[r] = "idle" /\ at'[r] = "claimed" /\ mode = "plan"
            \/ at[r] \in Planning /\ at'[r] \in Planning \cup {"done"}
            \/ at[r] = "idle" /\ at'[r] = "loaded" /\ mode = "rebuild"
            \/ at[r] \in Rebuilding /\ at'[r] \in Rebuilding \cup {"done"}
         /\ DOMAIN source' = Readers /\ DOMAIN target' = Readers /\ DOMAIN doomed' = Readers
         /\ stirred' \in [Readers -> SUBSET Entries]
<1> USE DEF Goto, TypeInv, Planning, Rebuilding, catalog
<1>1. CASE Die(r)
  BY <1>1 DEF Die
<1>2. CASE Claim(r)
  BY <1>2 DEF Claim
<1>3. CASE ReadSource(r)
  BY <1>3 DEF ReadSource
<1>4. CASE ReadTarget(r)
  BY <1>4 DEF ReadTarget
<1>5. CASE CommitPlan(r)
  BY <1>5 DEF CommitPlan
<1>6. CASE LoadMembers(r)
  BY <1>6 DEF LoadMembers
<1>7. CASE Delete(r) \/ Deletes(r)
  BY <1>7 DEF Delete, Deletes
<1>8. CASE CommitReport(r)
  BY <1>8 DEF CommitReport
<1> QED BY <1>1, <1>2, <1>3, <1>4, <1>5, <1>6, <1>7, <1>8

\* The catalog's steps and the types.
LEMMA CatalogKeepsBase ==
  ASSUME BaseInv, CatalogStep
  PROVE  BaseInv'
<1> USE DEF BaseInv, TypeInv
<1>1. ASSUME NEW e \in Entries, Stamp(e) PROVE BaseInv'
  <2>1. PICK f \in Files \cup {None} : writing' = [writing EXCEPT ![e] = [file |-> f, key |-> clock + 1]]
    BY <1>1 DEF Stamp
  <2>2. /\ clock' = clock + 1 /\ UNCHANGED <<mode, row, key, jobs, stirred>>
        /\ writing'[e] = [file |-> f, key |-> clock + 1]
        /\ \A d \in Entries \ {e} : writing'[d] = writing[d]
    BY <1>1, <2>1 DEF Stamp
  <2>3. TypeInv'
    BY <2>1, <2>2 DEF jobs
  <2>4. KeyInv'
    BY <2>2 DEF KeyInv
  <2> QED BY <2>2, <2>3, <2>4 DEF ModeInv, jobs
<1>2. ASSUME NEW e \in Entries, Change(e) PROVE BaseInv'
  <2>1. /\ writing[e] # None /\ writing[e].key \in Nat /\ writing[e].key <= clock
        /\ writing[e].file \in Files \cup {None}
    BY <1>2 DEF Change, KeyInv
  <2>2. /\ row' = [row EXCEPT ![e] = writing[e].file] /\ key' = [key EXCEPT ![e] = writing[e].key]
        /\ writing' = [writing EXCEPT ![e] = None] /\ UNCHANGED <<mode, clock, jobs>>
        /\ stirred' = [r \in Readers |-> IF at[r] = "idle" THEN {} ELSE stirred[r] \cup {e}]
    BY <1>2 DEF Change
  <2>3. TypeInv'
    BY <2>1, <2>2 DEF jobs
  <2>4. KeyInv'
    BY <2>1, <2>2 DEF KeyInv
  <2> QED BY <2>2, <2>3, <2>4 DEF ModeInv, jobs
<1>3. ASSUME NEW l \in {From, To}, DeleteLocation(l) PROVE BaseInv'
  <2>1. TypeInv'
    BY <1>3 DEF DeleteLocation
  <2>2. KeyInv'
    BY <1>3 DEF DeleteLocation, KeyInv
  <2> QED BY <1>3, <2>1, <2>2 DEF DeleteLocation, ModeInv
<1> QED BY <1>1, <1>2, <1>3 DEF CatalogStep

\* Types, stamps and modes are kept.
LEMMA BaseStep == ASSUME BaseInv, [Next]_vars PROVE BaseInv'
<1>1. CASE CatalogStep
  BY <1>1, CatalogKeepsBase
<1>2. CASE AttemptStep
  <2>1. PICK r \in Readers :
          \/ Die(r) \/ Claim(r) \/ ReadSource(r) \/ ReadTarget(r) \/ CommitPlan(r)
          \/ LoadMembers(r) \/ Delete(r) \/ Deletes(r) \/ CommitReport(r)
    BY <1>2 DEF AttemptStep
  <2>2. TypeInv' /\ KeyInv'
    BY <2>1, AttemptMoves DEF BaseInv, TypeInv, KeyInv, catalog
  <2>3. ModeInv'
    BY <2>1, AttemptMoves DEF BaseInv, ModeInv, Planning, Rebuilding
  <2> QED BY <2>2, <2>3 DEF BaseInv
<1>3. CASE NextPage \/ Expire \/ UNCHANGED vars
  BY <1>3 DEF NextPage, Expire, vars, catalog, jobs, BaseInv, TypeInv, KeyInv, ModeInv
<1> QED BY <1>1, <1>2, <1>3, StepKinds

-----------------------------------------------------------------------------
(***************************************************************************)
(* Plans.                                                                  *)
(***************************************************************************)

\* What an attempt read of the source holds of what has not changed since.
SourceInv ==
  mode = "plan" => \A r \in Readers : at[r] \in {"half", "compared", "done"} =>
    /\ DOMAIN source[r] \subseteq {e \in Entries : LocOf[e] = From}
    /\ \A e \in DOMAIN source[r] :
         source[r][e] \in Files /\ (e \notin stirred[r] => row[e] = source[r][e])

\* So does what it read of the target.
TargetInv ==
  mode = "plan" => \A r \in Readers : at[r] \in {"compared", "done"} =>
    /\ DOMAIN target[r] \subseteq {e \in Entries : LocOf[e] = To}
    /\ \A e \in Entries : LocOf[e] = To /\ e \notin stirred[r] =>
         /\ e \in DOMAIN target[r] <=> row[e] \in Files
         /\ e \in DOMAIN target[r] => target[r][e] = row[e]

Items(r) == {<<r, Classify(source[r], target[r], e)>> : e \in DOMAIN source[r]}

\* A plan that is ready has the items of one attempt that is over, and no other may write.
ItemsInv ==
  /\ plan.status \in {"building", "ready", "gone"}
  /\ plan.status # "ready" => plan.items = {}
  /\ plan.status = "ready" =>
       /\ mode = "plan" /\ plan.by \in Readers /\ at[plan.by] = "done" /\ owner = None
       /\ plan.items = Items(plan.by)

\* Nothing but a change touches what was read without being remembered.
LEMMA CatalogStirs ==
  ASSUME BaseInv, CatalogStep
  PROVE  /\ UNCHANGED <<mode, at, source, target, owner, latest, together, doomed>>
         /\ \A r \in Readers : at[r] # "idle" =>
              /\ stirred[r] \subseteq stirred'[r]
              /\ \A e \in Entries \ stirred'[r] : row'[e] = row[e]
         /\ row' # row => \A r \in Readers : at[r] # "idle" => stirred'[r] # {}
<1> USE DEF BaseInv, TypeInv
<1>1. ASSUME NEW e \in Entries, Stamp(e)
      PROVE  UNCHANGED <<mode, at, source, target, owner, latest, together, doomed, row, stirred>>
  BY <1>1 DEF Stamp, jobs
<1>2. ASSUME NEW e \in Entries, Change(e)
      PROVE  /\ UNCHANGED <<mode, at, source, target, owner, latest, together, doomed>>
             /\ row' = [row EXCEPT ![e] = writing[e].file]
             /\ stirred' = [r \in Readers |-> IF at[r] = "idle" THEN {} ELSE stirred[r] \cup {e}]
  BY <1>2 DEF Change, jobs
<1>3. ASSUME NEW l \in {From, To}, DeleteLocation(l)
      PROVE  /\ UNCHANGED <<mode, at, source, target, owner, latest, together, doomed>>
             /\ \E e \in Entries : LocOf[e] = l
             /\ row' = [e \in Entries |-> IF LocOf[e] = l THEN Gone ELSE row[e]]
             /\ stirred' = [r \in Readers |-> IF at[r] = "idle" THEN {}
                              ELSE stirred[r] \cup {e \in Entries : LocOf[e] = l}]
  BY <1>3 DEF DeleteLocation
<1>4. ASSUME NEW e \in Entries, Change(e)
      PROVE  \A r \in Readers : at[r] # "idle" =>
               /\ stirred[r] \subseteq stirred'[r] /\ stirred'[r] # {}
               /\ \A d \in Entries \ stirred'[r] : row'[d] = row[d]
  BY <1>2, <1>4
<1>5. ASSUME NEW l \in {From, To}, DeleteLocation(l)
      PROVE  \A r \in Readers : at[r] # "idle" =>
               /\ stirred[r] \subseteq stirred'[r] /\ stirred'[r] # {}
               /\ \A d \in Entries \ stirred'[r] : row'[d] = row[d]
  BY <1>3, <1>5
<1> QED BY <1>1, <1>2, <1>3, <1>4, <1>5 DEF CatalogStep

\* What was read stays true.
LEMMA CatalogKeepsReads ==
  ASSUME BaseInv, SourceInv, TargetInv, CatalogStep
  PROVE  SourceInv' /\ TargetInv'
<1>1. /\ UNCHANGED <<mode, at, source, target>>
      /\ \A r \in Readers : at[r] # "idle" =>
           /\ stirred[r] \subseteq stirred'[r]
           /\ \A e \in Entries \ stirred'[r] : row'[e] = row[e]
  BY CatalogStirs
<1>2. SourceInv'
  BY <1>1 DEF SourceInv
<1>3. TargetInv'
  BY <1>1 DEF TargetInv
<1> QED BY <1>2, <1>3

\* Reading takes what is committed.
LEMMA AttemptKeepsReads ==
  ASSUME BaseInv, SourceInv, TargetInv, AttemptStep
  PROVE  SourceInv' /\ TargetInv'
<1> USE DEF BaseInv, TypeInv
<1>1. PICK r \in Readers :
          \/ Die(r) \/ Claim(r) \/ ReadSource(r) \/ ReadTarget(r) \/ CommitPlan(r)
          \/ LoadMembers(r) \/ Delete(r) \/ Deletes(r) \/ CommitReport(r)
  BY DEF AttemptStep
<1>2. /\ UNCHANGED <<mode, row>> /\ \A p \in Readers \ {r} : at'[p] = at[p]
      /\ DOMAIN at' = Readers
  BY <1>1, AttemptMoves DEF catalog
<1>3. CASE UNCHANGED <<source, target, stirred>> /\ (at'[r] = "dead" \/ at'[r] = "claimed")
  BY <1>2, <1>3 DEF SourceInv, TargetInv
<1>4. CASE ReadSource(r) /\ at'[r] = "half"
  <2>1. /\ source' = [source EXCEPT ![r] = Snapshot(In(From))]
        /\ stirred' = [stirred EXCEPT ![r] = {}] /\ UNCHANGED target
    BY <1>4 DEF ReadSource, Goto
  <2>2. /\ source'[r] = Snapshot(In(From)) /\ stirred'[r] = {}
        /\ \A p \in Readers \ {r} : source'[p] = source[p] /\ stirred'[p] = stirred[p]
    BY <2>1
  <2>3. TargetInv'
    BY <1>2, <1>4, <2>1, <2>2 DEF TargetInv
  <2>4. /\ DOMAIN Snapshot(In(From)) = In(From) /\ In(From) \subseteq {e \in Entries : LocOf[e] = From}
        /\ \A e \in In(From) : Snapshot(In(From))[e] = row[e] /\ row[e] \in Files
    BY DEF Snapshot, In, Indexed
  <2>5. SourceInv'
    BY <1>2, <2>2, <2>4 DEF SourceInv
  <2> QED BY <2>3, <2>5
<1>5. CASE ReadTarget(r)
  <2>1. /\ target' = [target EXCEPT ![r] = Snapshot(In(To))] /\ at[r] = "half" /\ at'[r] = "compared"
        /\ UNCHANGED <<source, stirred>>
    BY <1>5 DEF ReadTarget, Goto
  <2>2. /\ target'[r] = Snapshot(In(To)) /\ \A p \in Readers \ {r} : target'[p] = target[p]
    BY <2>1
  <2>3. SourceInv'
    BY <1>2, <2>1 DEF SourceInv
  <2>4. /\ DOMAIN Snapshot(In(To)) = In(To)
        /\ In(To) = {e \in Entries : LocOf[e] = To /\ row[e] \in Files}
        /\ \A e \in In(To) : Snapshot(In(To))[e] = row[e]
    BY DEF Snapshot, In, Indexed
  <2>5. /\ DOMAIN target'[r] \subseteq {e \in Entries : LocOf[e] = To}
        /\ \A e \in Entries : LocOf[e] = To =>
             /\ e \in DOMAIN target'[r] <=> row[e] \in Files
             /\ e \in DOMAIN target'[r] => target'[r][e] = row[e]
    BY <2>2, <2>4
  <2>6. TargetInv'
    BY <1>2, <2>1, <2>2, <2>5 DEF TargetInv
  <2> QED BY <2>3, <2>6
<1>6. CASE CommitPlan(r)
  <2>1. /\ at[r] = "compared" /\ UNCHANGED <<source, target, stirred>>
    BY <1>6 DEF CommitPlan
  <2> QED BY <1>2, <2>1 DEF SourceInv, TargetInv
<1>7. CASE LoadMembers(r) \/ Delete(r) \/ Deletes(r) \/ CommitReport(r)
  <2>1. mode = "rebuild"
    BY <1>7 DEF LoadMembers, Delete, Deletes, CommitReport, ModeInv, Rebuilding
  <2> QED BY <1>2, <2>1 DEF SourceInv, TargetInv
<1>8. CASE Die(r) \/ Claim(r)
  BY <1>3, <1>8 DEF Die, Claim, Goto
<1>9. CASE ReadSource(r)
  BY <1>3, <1>4, <1>9 DEF ReadSource, Goto
<1> QED BY <1>1, <1>5, <1>6, <1>7, <1>8, <1>9

\* A plan is written once, by its job's holder.
LEMMA ItemsStep ==
  ASSUME BaseInv, ItemsInv, [Next]_vars
  PROVE  ItemsInv'
<1> USE DEF BaseInv, TypeInv
<1>1. CASE CatalogStep
  <2>1. UNCHANGED <<mode, at, source, target, owner>>
    BY <1>1, CatalogStirs
  <2>2. plan' = plan \/ (plan'.status = "gone" /\ plan'.items = {})
    <3>1. CASE \E e \in Entries : Stamp(e) \/ Change(e)
      BY <3>1 DEF Stamp, Change, jobs
    <3>2. CASE \E l \in {From, To} : DeleteLocation(l)
      BY <3>2 DEF DeleteLocation
    <3> QED BY <1>1, <3>1, <3>2 DEF CatalogStep
  <2> QED BY <2>1, <2>2 DEF ItemsInv, Items
<1>2. CASE AttemptStep
  <2>1. PICK r \in Readers :
          \/ Die(r) \/ Claim(r) \/ ReadSource(r) \/ ReadTarget(r) \/ CommitPlan(r)
          \/ LoadMembers(r) \/ Delete(r) \/ Deletes(r) \/ CommitReport(r)
    BY <1>2 DEF AttemptStep
  <2>2. /\ mode' = mode /\ \A p \in Readers \ {r} : at'[p] = at[p]
        /\ at[r] = "done" => at'[r] = "dead"
    BY <2>1, AttemptMoves DEF Planning, Rebuilding
  <2>3. at[r] # "done"
    BY <2>1 DEF Die, Running, Claim, ReadSource, ReadTarget, CommitPlan, LoadMembers, Delete, Deletes, CommitReport
  <2>4. \A p \in Readers \ {r} : source'[p] = source[p] /\ target'[p] = target[p]
    BY <2>1 DEF Die, Claim, ReadSource, ReadTarget, CommitPlan, LoadMembers, Delete, Deletes, CommitReport
  <2>5. CASE plan' = plan /\ (owner' = owner \/ plan.status = "building")
    BY <2>2, <2>3, <2>4, <2>5 DEF ItemsInv, Items
  <2>6. CASE CommitPlan(r) /\ plan' # plan
    <3>1. /\ owner = r /\ owner' = None /\ plan.status # "gone" /\ at'[r] = "done"
          /\ plan' = [status |-> "ready", by |-> r, items |-> plan.items \cup Items(r)]
          /\ UNCHANGED <<source, target>> /\ at[r] = "compared"
      BY <2>6 DEF CommitPlan, Goto, Items
    <3>2. plan.items = {} /\ mode = "plan"
      BY <3>1, ReportsAssumption DEF ItemsInv, ModeInv, Planning
    <3> QED BY <2>2, <3>1, <3>2 DEF ItemsInv, Items
  <2>7. CASE CommitPlan(r) /\ plan' = plan
    <3>1. \/ owner' = owner
          \/ plan'.status = "ready" /\ plan'.by = r
      BY <2>7 DEF CommitPlan
    <3> QED BY <2>5, <2>7, <2>3, <3>1 DEF ItemsInv
  <2>8. CASE ~ CommitPlan(r)
    BY <2>1, <2>5, <2>8 DEF Die, Claim, ReadSource, ReadTarget, LoadMembers, Delete, Deletes, CommitReport
  <2> QED BY <2>6, <2>7, <2>8
<1>3. CASE NextPage \/ Expire \/ UNCHANGED vars
  BY <1>3 DEF NextPage, Expire, vars, jobs, ItemsInv, Items
<1> QED BY <1>1, <1>2, <1>3, StepKinds

\* One entry of the target is at a path, at most.
LEMMA PathMatch ==
  ASSUME NEW T, DOMAIN T \subseteq {e \in Entries : LocOf[e] = To}, NEW e \in Entries,
         NEW t \in AtPath(e, T)
  PROVE  AtPath(e, T) = {t} /\ First(AtPath(e, T)) = t
<1>1. AtPath(e, T) = {t}
  BY ReportsAssumption DEF AtPath
<1>2. PathOf[t] \in Nat
  BY ReportsAssumption DEF AtPath
<1> QED BY <1>1, <1>2 DEF First

\* The item a comparison arrives at.
ItemFor(S, T, e) ==
  LET item == Classify(S, T, e)
  IN /\ item.entry = e
     /\ item.action = "copy" <=>
          AtPath(e, T) = {} /\ {t \in DOMAIN T : TextOf[T[t]] = TextOf[S[e]]} = {}
     /\ item.action = "conflict" <=> \E t \in AtPath(e, T) : T[t] # S[e]
     /\ item.action = "present" <=> \E t \in AtPath(e, T) : T[t] = S[e]

LEMMA Classified ==
  ASSUME NEW S, NEW T, DOMAIN T \subseteq {t \in Entries : LocOf[t] = To}, NEW e \in Entries
  PROVE  ItemFor(S, T, e)
<1>1. CASE AtPath(e, T) # {}
  <2>1. PICK t \in AtPath(e, T) : TRUE
    BY <1>1
  <2>2. AtPath(e, T) = {t} /\ First(AtPath(e, T)) = t /\ t \in DOMAIN T
    BY PathMatch DEF AtPath
  <2>3. Classify(S, T, e) =
          [entry |-> e, action |-> IF T[t] = S[e] THEN "present" ELSE "conflict", match |-> t]
    BY <1>1, <2>2 DEF Classify
  <2> QED BY <2>2, <2>3 DEF ItemFor
<1>2. CASE AtPath(e, T) = {}
  <2> DEFINE item == Classify(S, T, e)
             texts == {t \in DOMAIN T : TextOf[T[t]] = TextOf[S[e]]}
             bytes == {t \in DOMAIN T : T[t] = S[e]}
  <2>1. bytes # {} => item.entry = e /\ item.action = "review"
    BY <1>2 DEF Classify
  <2>2. bytes = {} /\ texts # {} => item.entry = e /\ item.action = "review"
    BY <1>2 DEF Classify
  <2>3. bytes = {} /\ texts = {} => item.entry = e /\ item.action = "copy"
    BY <1>2 DEF Classify
  <2>4. bytes \subseteq texts
    OBVIOUS
  <2> HIDE DEF item, texts, bytes
  <2>5. /\ item.entry = e /\ (item.action = "copy" <=> texts = {})
        /\ item.action # "conflict" /\ item.action # "present"
    BY <2>1, <2>2, <2>3, <2>4
  <2> QED BY <1>2, <2>5 DEF item, texts, ItemFor
<1> QED BY <1>1, <1>2

\* The items of an attempt are one for each entry it read.
LEMMA OneItemEach ==
  ASSUME NEW r \in Readers, DOMAIN source[r] \subseteq Entries,
         DOMAIN target[r] \subseteq {t \in Entries : LocOf[t] = To}
  PROVE  /\ {i[2].entry : i \in Items(r)} = DOMAIN source[r]
         /\ Cardinality(Items(r)) = Cardinality(DOMAIN source[r])
<1> DEFINE S == DOMAIN source[r]
           item(e) == <<r, Classify(source[r], target[r], e)>>
           f == [e \in S |-> item(e)]
<1>1. \A e \in S : item(e)[2].entry = e
  <2>1. \A e \in S : ItemFor(source[r], target[r], e)
    BY Classified
  <2> QED BY <2>1 DEF ItemFor
<1>2. Items(r) = {item(e) : e \in S}
  BY DEF Items
<1>3. IsFiniteSet(S)
  BY EntriesFinite
<1> HIDE DEF item, S
<1>4. f \in Bijection(S, Items(r))
  BY <1>1, <1>2 DEF Bijection, Injection, Surjection, IsInjective
<1>5. Cardinality(Items(r)) = Cardinality(S)
  BY <1>3, <1>4, FS_Bijection DEF ExistsBijection
<1>6. {i[2].entry : i \in Items(r)} = S
  BY <1>1, <1>2
<1> QED BY <1>5, <1>6 DEF S

\* What an item says of its entry, in the terms of PlanIsTrue.
There(x) == {t \in In(To) : PathOf[t] = PathOf[x]}
SameText(r, x) == {t \in In(To) : TextOf[row[t]] = TextOf[source[r][x]]}

TrueItem(r, i) ==
  LET e == i[2].entry
      does == i[2].action
  IN (\A x \in stirred[r] : x # e /\ LocOf[x] # To) =>
       /\ does = "copy" <=> (There(e) = {} /\ SameText(r, e) = {})
       /\ does = "conflict" <=> \E t \in There(e) : row[t] # row[e]
       /\ does = "present" <=> \E t \in There(e) : row[t] = row[e]

\* The items of what was read are true.
LEMMA ItemsAreTrue ==
  ASSUME BaseInv, SourceInv, TargetInv, ItemsInv
  PROVE  PlanIsTrue
<1> SUFFICES ASSUME NEW r, r = plan.by, plan.status = "ready"
             PROVE  /\ {i[2].entry : i \in plan.items} = DOMAIN source[r]
                    /\ Cardinality(plan.items) = Cardinality(DOMAIN source[r])
                    /\ \A i \in plan.items : TrueItem(r, i)
  BY DEF PlanIsTrue, TrueItem, There, SameText
<1>1. /\ mode = "plan" /\ r \in Readers /\ at[r] = "done" /\ plan.items = Items(r)
  BY DEF ItemsInv
<1>2. /\ DOMAIN source[r] \subseteq Entries
      /\ \A e \in DOMAIN source[r] : e \notin stirred[r] => row[e] = source[r][e]
      /\ DOMAIN target[r] \subseteq {t \in Entries : LocOf[t] = To}
      /\ \A t \in Entries : LocOf[t] = To /\ t \notin stirred[r] =>
           /\ t \in DOMAIN target[r] <=> row[t] \in Files
           /\ t \in DOMAIN target[r] => target[r][t] = row[t]
  BY <1>1 DEF SourceInv, TargetInv
<1>3. ASSUME NEW i \in Items(r) PROVE TrueItem(r, i)
  <2>1. PICK e \in DOMAIN source[r] : i = <<r, Classify(source[r], target[r], e)>>
    BY DEF Items
  <2> DEFINE item == Classify(source[r], target[r], e)
             T == target[r]
  <2>0. ItemFor(source[r], T, e)
    BY <1>2, Classified
  <2>2. i[2] = item /\ item.entry = e
    BY <2>0, <2>1 DEF ItemFor
  <2> SUFFICES ASSUME \A x \in stirred[r] : x # e /\ LocOf[x] # To
               PROVE  /\ item.action = "copy" <=> (There(e) = {} /\ SameText(r, e) = {})
                      /\ item.action = "conflict" <=> \E t \in There(e) : row[t] # row[e]
                      /\ item.action = "present" <=> \E t \in There(e) : row[t] = row[e]
    BY <2>2 DEF TrueItem
  <2>3. row[e] = source[r][e]
    BY <1>2
  <2>4. DOMAIN T = In(To) /\ \A t \in In(To) : T[t] = row[t]
    BY <1>2 DEF In, Indexed
  <2>5. AtPath(e, T) = There(e)
    BY <2>4 DEF AtPath, There
  <2>6. {t \in DOMAIN T : TextOf[T[t]] = TextOf[source[r][e]]} = SameText(r, e)
    BY <2>4 DEF SameText
  <2>7. /\ item.action = "copy" <=>
             AtPath(e, T) = {} /\ {t \in DOMAIN T : TextOf[T[t]] = TextOf[source[r][e]]} = {}
        /\ item.action = "conflict" <=> \E t \in AtPath(e, T) : T[t] # source[r][e]
        /\ item.action = "present" <=> \E t \in AtPath(e, T) : T[t] = source[r][e]
    BY <2>0 DEF ItemFor
  <2> HIDE DEF item
  <2>8. \A t \in There(e) : T[t] = row[t]
    BY <2>4 DEF There
  <2> QED BY <2>3, <2>5, <2>6, <2>7, <2>8
<1> QED BY <1>1, <1>2, <1>3, OneItemEach

-----------------------------------------------------------------------------
(***************************************************************************)
(* The duplicate report.                                                   *)
(***************************************************************************)

\* Rebuilds in flight have met.
TogetherInv ==
  \A r, p \in Readers :
    r # p /\ at[r] \in Rebuilding /\ at[p] \in Rebuilding => {r, p} \in together

\* A group is of a rebuild that is over; another one that deletes will delete it, or has
\* met its maker.
GroupsInv ==
  \A g \in groups :
    /\ DOMAIN g = {"id", "by", "kind", "hash", "members", "count"}
    /\ g.by \in Readers /\ at[g.by] = "done" /\ mode = "rebuild"
    /\ \A p \in Readers :
         at[p] \in {"deleting", "deleted"} => g.id \in doomed[p] \/ {g.by, p} \in together

\* What a rebuild read is the catalog until something changes.
MembersInv ==
  mode = "rebuild" =>
    \A r \in Readers :
      at[r] \in Rebuilding \cup {"done"} /\ stirred[r] = {} => source[r] = Snapshot(Indexed)

\* The groups of the last rebuild are those of what it read, until something changes.
LatestInv ==
  latest # None =>
    /\ latest \in Readers /\ at[latest] = "done" /\ mode = "rebuild"
    /\ stirred[latest] = {} => {g \in groups : g.by = latest} = GroupsOf(latest, source[latest])

ReportInv == TogetherInv /\ GroupsInv /\ MembersInv /\ LatestInv /\ ReportIsOne

\* Groups lose members with a location, and nothing else.
Shrunk(g, h) == g.id = h.id /\ g.by = h.by /\ DOMAIN g = DOMAIN h

LEMMA CatalogShrinks ==
  ASSUME GroupsInv, CatalogStep
  PROVE  \/ groups' = groups
         \/ /\ \A g \in groups' : \E h \in groups : Shrunk(g, h)
            /\ row' # row
<1>1. CASE \E e \in Entries : Stamp(e) \/ Change(e)
  BY <1>1 DEF Stamp, Change, jobs
<1>2. ASSUME NEW l \in {From, To}, DeleteLocation(l)
      PROVE  /\ \A g \in groups' : \E h \in groups : Shrunk(g, h)
             /\ row' # row
  <2>1. groups' = {[g EXCEPT !.members = {e \in @ : LocOf[e] # l}] : g \in groups}
    BY <1>2 DEF DeleteLocation
  <2>2. ASSUME NEW h \in groups
        PROVE  Shrunk([h EXCEPT !.members = {e \in @ : LocOf[e] # l}], h)
    BY DEF GroupsInv, Shrunk
  <2>3. row' # row
    BY <1>2 DEF DeleteLocation
  <2> QED BY <2>1, <2>2, <2>3
<1> QED BY <1>1, <1>2 DEF CatalogStep

\* A change of the catalog leaves the report one, and true as far as it claims.
LEMMA CatalogKeepsReport ==
  ASSUME BaseInv, ReportInv, CatalogStep
  PROVE  ReportInv'
<1>1. /\ UNCHANGED <<mode, at, source, latest, together, doomed>>
      /\ \A r \in Readers : at[r] # "idle" =>
           /\ stirred[r] \subseteq stirred'[r]
           /\ row' # row => stirred'[r] # {}
  BY CatalogStirs
<1>2. \A g \in groups' : \E h \in groups : Shrunk(g, h)
  BY CatalogShrinks DEF ReportInv, Shrunk
<1>3. TogetherInv'
  BY <1>1 DEF ReportInv, TogetherInv
<1>4. GroupsInv'
  BY <1>1, <1>2 DEF ReportInv, GroupsInv, Shrunk
<1>5. ASSUME NEW r \in Readers, at[r] # "idle", stirred'[r] = {}
      PROVE  row' = row /\ stirred[r] = {}
  BY <1>1, <1>5
<1>6. MembersInv'
  BY <1>1, <1>5 DEF ReportInv, MembersInv, Snapshot, Indexed, Rebuilding
<1>7. LatestInv'
  <2>1. CASE latest # None /\ stirred'[latest] = {}
    <3>1. groups' = groups
      BY <1>1, <1>5, <2>1, CatalogShrinks DEF ReportInv, LatestInv
    <3> QED BY <1>1, <1>5, <2>1, <3>1 DEF ReportInv, LatestInv
  <2>2. CASE ~ (latest # None /\ stirred'[latest] = {})
    BY <1>1, <2>2 DEF ReportInv, LatestInv
  <2> QED BY <2>1, <2>2
<1>8. ReportIsOne'
  BY <1>1, <1>2 DEF ReportInv, ReportIsOne, Shrunk
<1> QED BY <1>3, <1>4, <1>6, <1>7, <1>8 DEF ReportInv

\* What an attempt that writes no groups does to them.
Reportless(r) ==
  /\ UNCHANGED <<mode, row, groups, latest, together>>
  /\ at[r] # "done" /\ at'[r] \notin Rebuilding \cup {"done"}
  /\ \A p \in Readers \ {r} : /\ at'[p] = at[p] /\ source'[p] = source[p]
                              /\ stirred'[p] = stirred[p] /\ doomed'[p] = doomed[p]

LEMMA ReportlessKeeps ==
  ASSUME ReportInv, NEW r \in Readers, Reportless(r)
  PROVE  ReportInv'
<1> USE DEF Reportless, ReportInv
<1>1. TogetherInv'
  BY DEF TogetherInv
<1>2. GroupsInv'
  <2> SUFFICES ASSUME NEW g \in groups
               PROVE  /\ at'[g.by] = "done"
                      /\ \A p \in Readers : at'[p] \in {"deleting", "deleted"} =>
                            g.id \in doomed'[p] \/ {g.by, p} \in together
    BY DEF GroupsInv
  <2> QED BY DEF GroupsInv, Rebuilding
<1>3. MembersInv'
  BY DEF MembersInv, Snapshot, Indexed
<1>4. LatestInv'
  BY DEF LatestInv
<1>5. ReportIsOne'
  BY DEF ReportIsOne
<1> QED BY <1>1, <1>2, <1>3, <1>4, <1>5

\* A rebuild reads, and meets those in flight.
LEMMA LoadKeepsReport ==
  ASSUME BaseInv, ReportInv, NEW r \in Readers, LoadMembers(r)
  PROVE  ReportInv'
<1> USE DEF BaseInv, TypeInv, ReportInv
<1>1. /\ UNCHANGED <<mode, row, groups, latest, doomed>> /\ mode = "rebuild"
      /\ at[r] = "idle" /\ at'[r] = "loaded"
      /\ \A p \in Readers \ {r} : /\ at'[p] = at[p] /\ source'[p] = source[p]
                                  /\ stirred'[p] = stirred[p]
      /\ source'[r] = Snapshot(Indexed)
      /\ together' = together \cup {{r, p} : p \in {x \in Readers : Running(x)}}
  BY DEF LoadMembers, Goto, catalog
<1>2. TogetherInv'
  <2> SUFFICES ASSUME NEW p \in Readers, p # r, at[p] \in Rebuilding PROVE {r, p} \in together'
    <3>1. \A q, p \in Readers : {q, p} = {p, q}
      OBVIOUS
    <3> QED BY <1>1, <3>1 DEF TogetherInv
  <2>1. Running(p)
    BY DEF Running, Rebuilding
  <2> QED BY <1>1, <2>1
<1>3. GroupsInv'
  <2> SUFFICES ASSUME NEW g \in groups
               PROVE  /\ at'[g.by] = "done"
                      /\ \A p \in Readers : at'[p] \in {"deleting", "deleted"} =>
                            g.id \in doomed'[p] \/ {g.by, p} \in together'
    BY <1>1 DEF GroupsInv
  <2> QED BY <1>1 DEF GroupsInv
<1>4. MembersInv'
  BY <1>1 DEF MembersInv, Snapshot, Indexed
<1>5. LatestInv'
  BY <1>1 DEF LatestInv
<1>6. ReportIsOne'
  BY <1>1 DEF ReportIsOne
<1> QED BY <1>2, <1>3, <1>4, <1>5, <1>6

\* Its delete sees every group there is.
LEMMA DeleteKeepsReport ==
  ASSUME BaseInv, ReportInv, NEW r \in Readers, Delete(r) \/ Deletes(r)
  PROVE  ReportInv'
<1> USE DEF BaseInv, TypeInv, ReportInv
<1>1. /\ UNCHANGED <<mode, row, groups, latest, together, source, stirred>>
      /\ at[r] \in Rebuilding /\ at'[r] \in {"deleting", "deleted"}
      /\ \A p \in Readers \ {r} : at'[p] = at[p] /\ doomed'[p] = doomed[p]
      /\ \/ doomed'[r] = {g.id : g \in groups}
         \/ at[r] = "deleting" /\ doomed' = doomed
  BY DEF Delete, Deletes, Goto, Deleted, catalog, Rebuilding
<1>2. TogetherInv'
  BY <1>1 DEF TogetherInv, Rebuilding
<1>3. GroupsInv'
  <2> SUFFICES ASSUME NEW g \in groups
               PROVE  /\ at'[g.by] = "done"
                      /\ \A p \in Readers : at'[p] \in {"deleting", "deleted"} =>
                            g.id \in doomed'[p] \/ {g.by, p} \in together
    BY <1>1 DEF GroupsInv
  <2>1. g.by # r /\ g.by \in Readers /\ at[g.by] = "done"
    BY <1>1 DEF GroupsInv, Rebuilding
  <2> QED BY <1>1, <2>1 DEF GroupsInv
<1>4. MembersInv'
  BY <1>1 DEF MembersInv, Snapshot, Indexed, Rebuilding
<1>5. LatestInv'
  BY <1>1 DEF LatestInv, Rebuilding
<1>6. ReportIsOne'
  BY <1>1 DEF ReportIsOne
<1> QED BY <1>2, <1>3, <1>4, <1>5, <1>6

\* The groups a rebuild makes are its own.
LEMMA OwnGroups ==
  ASSUME NEW r, NEW M, NEW g \in GroupsOf(r, M)
  PROVE  g.by = r /\ DOMAIN g = {"id", "by", "kind", "hash", "members", "count"}
BY DEF GroupsOf, Group

\* A commit replaces what it saw; what it did not see is of a rebuild it has met.
LEMMA CommitKeepsReport ==
  ASSUME BaseInv, ReportInv, NEW r \in Readers, CommitReport(r), at'[r] = "done"
  PROVE  ReportInv'
<1> USE DEF BaseInv, TypeInv, ReportInv
<1> DEFINE new == GroupsOf(r, source[r])
           left == {g \in groups : g.id \notin doomed[r]}
<1>1. /\ UNCHANGED <<mode, row, together, source, stirred, doomed>> /\ at[r] = "deleted"
      /\ \A p \in Readers \ {r} : at'[p] = at[p]
      /\ groups' = left \cup new /\ latest' = r /\ mode = "rebuild"
  BY DEF CommitReport, Goto, catalog, ModeInv, Rebuilding
<1>2. /\ \A g \in left : /\ g \in groups /\ g.by # r /\ g.by \in Readers
                         /\ {g.by, r} \in together
      /\ \A g \in new : g.by = r /\ DOMAIN g = {"id", "by", "kind", "hash", "members", "count"}
  BY <1>1, OwnGroups DEF GroupsInv
<1> HIDE DEF new, left
<1>3. TogetherInv'
  BY <1>1 DEF TogetherInv, Rebuilding
<1>4. GroupsInv'
  <2>1. ASSUME NEW g \in left
        PROVE  /\ DOMAIN g = {"id", "by", "kind", "hash", "members", "count"}
               /\ g.by \in Readers /\ at'[g.by] = "done"
               /\ \A p \in Readers : at'[p] \in {"deleting", "deleted"} =>
                     g.id \in doomed[p] \/ {g.by, p} \in together
    BY <1>1, <1>2 DEF GroupsInv
  <2>2. ASSUME NEW p \in Readers, at'[p] \in {"deleting", "deleted"} PROVE {r, p} \in together
    BY <1>1, <2>2 DEF TogetherInv, Rebuilding
  <2> QED BY <1>1, <1>2, <2>1, <2>2 DEF GroupsInv
<1>5. MembersInv'
  BY <1>1 DEF MembersInv, Snapshot, Indexed, Rebuilding
<1>6. LatestInv'
  <2>1. {g \in groups' : g.by = r} = new
    BY <1>1, <1>2
  <2> QED BY <1>1, <2>1 DEF LatestInv, new
<1>7. ReportIsOne'
  <2>1. \A g \in left : {r, g.by} \in together
    <3>1. \A g \in left : {r, g.by} = {g.by, r}
      OBVIOUS
    <3> QED BY <1>2, <3>1
  <2> QED BY <1>1, <1>2, <2>1 DEF ReportIsOne
<1> QED BY <1>3, <1>4, <1>5, <1>6, <1>7

\* Every step keeps the report one.
LEMMA ReportStep == ASSUME BaseInv, ReportInv, [Next]_vars PROVE ReportInv'
<1>1. CASE CatalogStep
  BY <1>1, CatalogKeepsReport
<1>2. CASE AttemptStep
  <2> USE DEF BaseInv, TypeInv
  <2>1. PICK r \in Readers :
          \/ Die(r) \/ Claim(r) \/ ReadSource(r) \/ ReadTarget(r) \/ CommitPlan(r)
          \/ LoadMembers(r) \/ Delete(r) \/ Deletes(r) \/ CommitReport(r)
    BY <1>2 DEF AttemptStep
  <2>2. CASE Die(r) \/ Claim(r)
    BY <2>2, ReportlessKeeps DEF Die, Claim, Reportless, Goto, Running, Rebuilding, catalog
  <2>3. CASE ReadSource(r) \/ ReadTarget(r)
    BY <2>3, ReportlessKeeps DEF ReadSource, ReadTarget, Reportless, Goto, Rebuilding, catalog
  <2>4. CASE CommitPlan(r)
    <3>1. mode = "plan" /\ mode' = mode /\ UNCHANGED <<groups, latest, together>>
          /\ \A p \in Readers \ {r} : at'[p] = at[p]
      BY <2>4 DEF CommitPlan, ModeInv, Planning, Goto
    <3>2. at'[r] \in {"done", "dead"} /\ latest = None /\ groups = {}
      BY <2>4, <3>1 DEF CommitPlan, Goto, ReportInv, LatestInv, GroupsInv
    <3> QED BY <3>1, <3>2
          DEF ReportInv, TogetherInv, GroupsInv, MembersInv, LatestInv, ReportIsOne, Rebuilding
  <2>5. CASE LoadMembers(r) \/ Delete(r) \/ Deletes(r)
    BY <2>5, LoadKeepsReport, DeleteKeepsReport
  <2>6. CASE CommitReport(r) /\ at'[r] = "dead"
    <3>1. groups' = groups /\ latest' = latest
      BY <2>6 DEF CommitReport, Goto
    <3> QED BY <2>6, <3>1, ReportlessKeeps DEF CommitReport, Reportless, Goto, Rebuilding, catalog
  <2>7. CASE CommitReport(r)
    BY <2>6, <2>7, CommitKeepsReport DEF CommitReport, Goto
  <2> QED BY <2>1, <2>2, <2>3, <2>4, <2>5, <2>7
<1>3. CASE NextPage \/ Expire \/ UNCHANGED vars
  BY <1>3 DEF NextPage, Expire, vars, catalog, jobs, ReportInv, TogetherInv, GroupsInv, MembersInv,
     LatestInv, ReportIsOne, Snapshot, Indexed
<1> QED BY <1>1, <1>2, <1>3, StepKinds

\* The groups of a snapshot are the pairs of equal files and of equal texts.
LEMMA GroupsOfSnapshot ==
  ASSUME NEW r, NEW e \in Indexed, NEW d \in Indexed, e # d
  PROVE  LET G == GroupsOf(r, Snapshot(Indexed)) IN
         /\ (\E g \in G : g.kind = "exact" /\ {e, d} \subseteq g.members) <=> row[e] = row[d]
         /\ (\E g \in G : g.kind = "text" /\ {e, d} \subseteq g.members) <=>
              /\ TextOf[row[e]] = TextOf[row[d]]
              /\ \E x \in Indexed : TextOf[row[x]] = TextOf[row[e]] /\ row[x] # row[e]
<1> DEFINE M == Snapshot(Indexed)
           G == GroupsOf(r, M)
<1>1. DOMAIN M = Indexed /\ \A x \in Indexed : M[x] = row[x]
  BY DEF Snapshot
<1>2. DOMAIN TextsOf(M) = Indexed /\ \A x \in Indexed : TextsOf(M)[x] = TextOf[row[x]]
  BY <1>1 DEF TextsOf
<1>3. /\ \A h : Members(M, h) = {x \in Indexed : row[x] = h}
      /\ \A h : Members(TextsOf(M), h) = {x \in Indexed : TextOf[row[x]] = h}
  BY <1>1, <1>2 DEF Members
<1>4. \A x \in Indexed : row[x] \in Range(M) /\ TextOf[row[x]] \in Range(TextsOf(M))
  BY <1>1, <1>2 DEF Range
<1> HIDE DEF M
<1>5. ASSUME NEW g \in G
      PROVE  /\ g.kind = "exact" => \E h : g.members = Members(M, h)
             /\ g.kind = "text" => \E h \in TextHashes(M) : g.members = Members(TextsOf(M), h)
  BY DEF GroupsOf, Group
<1>6. row[e] = row[d] => \E g \in G : g.kind = "exact" /\ {e, d} \subseteq g.members
  <2> SUFFICES ASSUME row[e] = row[d] PROVE \E g \in G : g.kind = "exact" /\ {e, d} \subseteq g.members
    OBVIOUS
  <2>1. {e, d} \subseteq Members(M, row[e]) /\ Members(M, row[e]) \in SUBSET Entries
    BY <1>3 DEF Indexed
  <2>2. row[e] \in ExactHashes(M)
    BY <1>4, <2>1, TwoOrMore, EntriesFinite DEF ExactHashes
  <2>3. Group(r, "exact", row[e], Members(M, row[e])) \in G
    BY <2>2 DEF GroupsOf
  <2> QED BY <2>1, <2>3 DEF Group
<1>7. (\E g \in G : g.kind = "exact" /\ {e, d} \subseteq g.members) => row[e] = row[d]
  BY <1>3, <1>5
<1>8. ASSUME TextOf[row[e]] = TextOf[row[d]],
             NEW x \in Indexed, TextOf[row[x]] = TextOf[row[e]], row[x] # row[e]
      PROVE  \E g \in G : g.kind = "text" /\ {e, d} \subseteq g.members
  <2> DEFINE h == TextOf[row[e]]
  <2>1. {e, d, x} \subseteq Members(TextsOf(M), h)
    BY <1>3, <1>8
  <2>2. h \in TextHashes(M)
    BY <1>1, <1>4, <1>8, <2>1 DEF TextHashes, M
  <2>3. Group(r, "text", h, Members(TextsOf(M), h)) \in G
    BY <2>2 DEF GroupsOf
  <2> QED BY <2>1, <2>3 DEF Group
<1>9. ASSUME NEW g \in G, g.kind = "text", {e, d} \subseteq g.members
      PROVE  /\ TextOf[row[e]] = TextOf[row[d]]
             /\ \E x \in Indexed : TextOf[row[x]] = TextOf[row[e]] /\ row[x] # row[e]
  <2>1. PICK h \in TextHashes(M) : g.members = Members(TextsOf(M), h)
    BY <1>5, <1>9
  <2>2. TextOf[row[e]] = h /\ TextOf[row[d]] = h
    BY <1>3, <1>9, <2>1
  <2>3. PICK a \in Members(TextsOf(M), h), b \in Members(TextsOf(M), h) : M[a] # M[b]
    BY <2>1 DEF TextHashes
  <2>4. /\ a \in Indexed /\ b \in Indexed /\ TextOf[row[a]] = h /\ TextOf[row[b]] = h
        /\ M[a] = row[a] /\ M[b] = row[b]
    BY <1>1, <1>3, <2>3 DEF M
  <2> QED BY <2>2, <2>3, <2>4
<1> QED BY <1>6, <1>7, <1>8, <1>9 DEF M

\* The report is true of what has not changed.
LEMMA ReportTrue == ASSUME BaseInv, ReportInv PROVE GroupsAreTrue
<1> SUFFICES ASSUME latest # None, stirred[latest] = {}, NEW e \in Indexed, NEW d \in Indexed, e # d
             PROVE  /\ (\E g \in groups : g.by = latest /\ g.kind = "exact" /\ {e, d} \subseteq g.members)
                         <=> row[e] = row[d]
                    /\ (\E g \in groups : g.by = latest /\ g.kind = "text" /\ {e, d} \subseteq g.members)
                         <=> /\ TextOf[row[e]] = TextOf[row[d]]
                             /\ \E x \in Indexed : TextOf[row[x]] = TextOf[row[e]] /\ row[x] # row[e]
  BY DEF GroupsAreTrue
<1>1. {g \in groups : g.by = latest} = GroupsOf(latest, Snapshot(Indexed))
  BY DEF ReportInv, LatestInv, MembersInv
<1> DEFINE G == GroupsOf(latest, Snapshot(Indexed))
<1>2. \A kind : (\E g \in groups : g.by = latest /\ g.kind = kind /\ {e, d} \subseteq g.members)
                  <=> (\E g \in G : g.kind = kind /\ {e, d} \subseteq g.members)
  BY <1>1
<1>3. /\ (\E g \in G : g.kind = "exact" /\ {e, d} \subseteq g.members) <=> row[e] = row[d]
      /\ (\E g \in G : g.kind = "text" /\ {e, d} \subseteq g.members) <=>
              /\ TextOf[row[e]] = TextOf[row[d]]
              /\ \E x \in Indexed : TextOf[row[x]] = TextOf[row[e]] /\ row[x] # row[e]
  BY GroupsOfSnapshot
<1> HIDE DEF G
<1> QED BY <1>2, <1>3

-----------------------------------------------------------------------------
(***************************************************************************)
(* Listings.                                                               *)
(***************************************************************************)

Positions == Nat \X Nat
Listing == [phase : {"new", "reading", "done"}, newest : BOOLEAN, cursor : Positions \cup {None},
            shown : Seq(Entries), touched : SUBSET Entries, absent : SUBSET Entries]

Shown(e) == \E i \in DOMAIN page.shown : page.shown[i] = e

\* Rows that come once at most: newest first a change moves a row back to where the listing
\* has been.
Once(e) == page.newest \/ e \notin page.touched

\* Rows that must come: oldest first a change moves a row ahead.
Due(e) == e \notin page.absent /\ (~ page.newest \/ e \notin page.touched)

\* Where the listing has a cursor, what came lies behind it and what must come and has
\* not lies beyond it.
PageInv ==
  /\ page \in Listing
  /\ page.phase = "new" => page.cursor = None /\ page.shown = <<>>
  /\ page.phase = "reading" =>
       /\ page.cursor # None
       /\ \A e \in Entries \ page.absent : row[e] \in Files
       /\ \A e \in Entries : Shown(e) /\ Once(e) => ~ Beyond(e)
  /\ \A i, j \in DOMAIN page.shown :
       page.shown[i] = page.shown[j] /\ Once(page.shown[i]) => i = j
  /\ \A e \in Entries : Due(e) => Shown(e) \/ (page.phase # "done" /\ Beyond(e))

\* Positions are in a strict order.
LEMMA PositionsOrdered ==
  ASSUME NEW a \in Positions, NEW b \in Positions, NEW c \in Positions
  PROVE  /\ ~ Precedes(a, a)
         /\ Precedes(a, b) /\ Precedes(b, c) => Precedes(a, c)
         /\ a # b => Precedes(a, b) \/ Precedes(b, a)
BY DEF Positions, Precedes

Before(d, e) == Precedes(Position(d), Position(e))

\* So are the entries.
LEMMA EntriesOrdered ==
  ASSUME TypeInv
  PROVE  /\ \A e \in Entries : Position(e) \in Positions /\ ~ Before(e, e)
         /\ \A d, e, f \in Entries : Before(d, e) /\ Before(e, f) => Before(d, f)
         /\ \A d, e \in Entries : d # e => Before(d, e) \/ Before(e, d)
<1>1. Entries \subseteq Nat
  BY ReportsAssumption DEF Entries
<1>2. \A e \in Entries : Position(e) \in Positions
  BY <1>1 DEF Position, Positions, TypeInv
<1>3. \A d, e \in Entries : d # e => Position(d) # Position(e)
  BY DEF Position
<1> QED BY <1>2, <1>3, PositionsOrdered DEF Before

\* The rows of a page, as NextPage chooses them.
Rows == {e \in Indexed : Beyond(e)}
PlaceOf(e) == Cardinality({d \in Rows : Before(d, e)}) + 1
FirstRows == {e \in Rows : PlaceOf(e) <= Limit}
Listed == [i \in 1 .. Cardinality(FirstRows) |-> CHOOSE e \in FirstRows : PlaceOf(e) = i]

\* Places count the rows through, in order.
LEMMA PlacesCount ==
  ASSUME TypeInv
  PROVE  /\ Cardinality(Rows) \in Nat
         /\ \A e \in Rows : PlaceOf(e) \in 1 .. Cardinality(Rows)
         /\ \A d, e \in Rows : Before(d, e) => PlaceOf(d) < PlaceOf(e)
         /\ \A i \in 1 .. Cardinality(Rows) : \E e \in Rows : PlaceOf(e) = i
<1> DEFINE behind(e) == {d \in Rows : Before(d, e)}
           n == Cardinality(Rows)
<1>1. Rows \in SUBSET Entries
  BY DEF Rows, Indexed
<1>2. IsFiniteSet(Rows) /\ n \in Nat
  BY <1>1, EntriesFinite, FS_CardinalityType
<1>3. ASSUME NEW e \in Rows
      PROVE  IsFiniteSet(behind(e)) /\ Cardinality(behind(e)) \in Nat
  <2>1. behind(e) \in SUBSET Entries
    BY <1>1
  <2> QED BY <2>1, EntriesFinite, FS_CardinalityType
<1>4. ASSUME NEW e \in Rows PROVE PlaceOf(e) \in 1 .. n
  <2>1. behind(e) \in SUBSET (Rows \ {e})
    BY <1>1, EntriesOrdered
  <2>2. IsFiniteSet(Rows \ {e}) /\ Cardinality(Rows \ {e}) = n - 1
    BY <1>2, FS_RemoveElement
  <2>3. Cardinality(behind(e)) <= n - 1
    BY <2>1, <2>2, FS_Subset
  <2>4. PlaceOf(e) = Cardinality(behind(e)) + 1
    BY DEF PlaceOf
  <2> HIDE DEF behind, n
  <2> QED BY <1>2, <1>3, <2>3, <2>4
<1>5. ASSUME NEW d \in Rows, NEW e \in Rows, Before(d, e) PROVE PlaceOf(d) < PlaceOf(e)
  <2>1. behind(d) \in SUBSET (behind(e) \ {d})
    BY <1>1, <1>5, EntriesOrdered
  <2>2. d \in behind(e)
    BY <1>5
  <2>3. IsFiniteSet(behind(e) \ {d}) /\ Cardinality(behind(e) \ {d}) = Cardinality(behind(e)) - 1
    BY <1>3, <2>2, FS_RemoveElement
  <2>4. Cardinality(behind(d)) <= Cardinality(behind(e)) - 1
    BY <2>1, <2>3, FS_Subset
  <2>5. PlaceOf(d) = Cardinality(behind(d)) + 1 /\ PlaceOf(e) = Cardinality(behind(e)) + 1
    BY DEF PlaceOf
  <2> HIDE DEF behind
  <2> QED BY <1>3, <2>4, <2>5
<1>6. \A i \in 1 .. n : \E e \in Rows : PlaceOf(e) = i
  <2> DEFINE f == [e \in Rows |-> PlaceOf(e)]
  <2>1. \A d, e \in Rows : d # e => PlaceOf(d) # PlaceOf(e)
    <3>1. \A d, e \in Rows : d # e => Before(d, e) \/ Before(e, d)
      BY <1>1, EntriesOrdered
    <3> HIDE DEF n
    <3> QED BY <1>2, <1>4, <1>5, <3>1
  <2>2. f \in Injection(Rows, 1 .. n)
    BY <1>4, <2>1 DEF Injection, IsInjective
  <2>3. IsFiniteSet(1 .. n) /\ Cardinality(1 .. n) = n
    BY <1>2, FS_Interval
  <2>4. f \in Surjection(Rows, 1 .. n)
    BY <2>2, <2>3, FS_Injection
  <2> QED BY <2>4 DEF Surjection
<1> QED BY <1>2, <1>4, <1>5, <1>6

\* A page lists the first rows, each at its place.
LEMMA PageLists ==
  ASSUME TypeInv
  PROVE  /\ Cardinality(FirstRows) \in Nat
         /\ DOMAIN Listed = 1 .. Cardinality(FirstRows)
         /\ \A i \in DOMAIN Listed : Listed[i] \in FirstRows /\ PlaceOf(Listed[i]) = i
         /\ \A e \in FirstRows : PlaceOf(e) \in DOMAIN Listed /\ Listed[PlaceOf(e)] = e
         /\ Rows # FirstRows => Cardinality(FirstRows) = Limit
<1> DEFINE n == Cardinality(Rows)
           k == IF n <= Limit THEN n ELSE Limit
           f == [e \in FirstRows |-> PlaceOf(e)]
<1>1. /\ n \in Nat /\ \A e \in Rows : PlaceOf(e) \in 1 .. n
      /\ \A d, e \in Rows : Before(d, e) => PlaceOf(d) < PlaceOf(e)
      /\ \A i \in 1 .. n : \E e \in Rows : PlaceOf(e) = i
  BY PlacesCount
<1>2. \A d, e \in Rows : PlaceOf(d) = PlaceOf(e) => d = e
  <2>1. \A d, e \in Rows : d # e => Before(d, e) \/ Before(e, d)
    BY EntriesOrdered DEF Rows, Indexed
  <2> HIDE DEF n
  <2> QED BY <1>1, <2>1
<1> HIDE DEF n
<1>3. k \in Nat /\ Limit \in Nat \ {0}
  BY <1>1, ReportsAssumption
<1>4. \A e \in FirstRows : e \in Rows /\ PlaceOf(e) \in 1 .. k
  BY <1>1, <1>3 DEF FirstRows
<1>5. \A i \in 1 .. k : \E e \in FirstRows : PlaceOf(e) = i
  BY <1>1, <1>3 DEF FirstRows
<1>6. f \in Bijection(FirstRows, 1 .. k)
  BY <1>2, <1>4, <1>5 DEF Bijection, Injection, Surjection, IsInjective
<1>7. IsFiniteSet(FirstRows)
  BY EntriesFinite DEF FirstRows, Rows, Indexed
<1>8. Cardinality(FirstRows) = k
  <2>1. Cardinality(1 .. k) = k
    BY <1>3, FS_Interval
  <2> QED BY <1>6, <1>7, <2>1, FS_Bijection DEF ExistsBijection
<1>9. Rows # FirstRows => k = Limit
  BY <1>1, <1>3 DEF FirstRows
<1>10. DOMAIN Listed = 1 .. k /\ \A i \in 1 .. k : Listed[i] = CHOOSE e \in FirstRows : PlaceOf(e) = i
  BY <1>8 DEF Listed
<1> HIDE DEF k
<1>11. \A i \in 1 .. k : Listed[i] \in FirstRows /\ PlaceOf(Listed[i]) = i
  BY <1>5, <1>10
<1> QED BY <1>2, <1>3, <1>4, <1>8, <1>9, <1>10, <1>11

\* A listing at the start meets everything and has shown nothing.
FreshPages == {NoPage, [NoPage EXCEPT !.newest = FALSE]}

LEMMA FreshPage ==
  ASSUME NEW p \in FreshPages
  PROVE  p \in Listing /\ p.phase = "new" /\ p.cursor = None /\ p.shown = <<>>
<1>1. NoPage \in Listing /\ NoPage.phase = "new" /\ NoPage.cursor = None /\ NoPage.shown = <<>>
  BY DEF NoPage, Listing
<1>2. CASE p = NoPage
  BY <1>1, <1>2
<1>3. CASE p = [NoPage EXCEPT !.newest = FALSE]
  BY <1>1, <1>3 DEF Listing
<1> QED BY <1>2, <1>3 DEF FreshPages

\* What leaves the page, the rows and their keys alone.
LEMMA PageStays ==
  ASSUME PageInv, UNCHANGED <<page, row, key>>
  PROVE  PageInv'
BY DEF PageInv, Listing, Shown, Once, Due, Beyond, Precedes, Position

\* A later key moves a row one way.
LEMMA KeyRaised ==
  ASSUME TypeInv, page \in Listing, NEW e \in Entries, NEW k \in Nat, key[e] < k,
         key' = [key EXCEPT ![e] = k],
         page'.newest = page.newest, page'.cursor = page.cursor
  PROVE  /\ \A d \in Entries \ {e} : Beyond(d)' <=> Beyond(d)
         /\ page.newest => (Beyond(e)' => Beyond(e))
         /\ ~ page.newest => (Beyond(e) => Beyond(e)')
<1>1. key'[e] = k /\ key[e] \in Nat /\ \A d \in Entries \ {e} : key'[d] = key[d]
  BY DEF TypeInv
<1>2. page.cursor = None \/ page.cursor \in Nat \X Nat
  BY DEF Listing, Positions
<1>3. \A d \in Entries \ {e} : Beyond(d)' <=> Beyond(d)
  BY <1>1 DEF Beyond, Precedes, Position
<1>4. page.newest => (Beyond(e)' => Beyond(e))
  BY <1>1, <1>2 DEF Beyond, Precedes, Position
<1>5. ~ page.newest => (Beyond(e) => Beyond(e)')
  BY <1>1, <1>2 DEF Beyond, Precedes, Position
<1> QED BY <1>3, <1>4, <1>5

\* A change on the way.
LEMMA ChangeKeepsPage ==
  ASSUME BaseInv, PageInv, NEW e \in Entries, Change(e)
  PROVE  PageInv'
<1> USE DEF BaseInv
<1> DEFINE k == writing[e].key
<1>1. /\ k \in Nat /\ key[e] < k /\ key' = [key EXCEPT ![e] = k]
      /\ row' = [row EXCEPT ![e] = writing[e].file]
  BY DEF Change, KeyInv
<1>2. /\ row'[e] = writing[e].file /\ \A d \in Entries \ {e} : row'[d] = row[d]
  BY <1>1 DEF TypeInv
<1>3. page \in Listing
  BY DEF PageInv
<1>4. CASE page.phase # "reading"
  <2>1. page' = page
    BY <1>4 DEF Change
  <2>2. page.phase = "new" => \A d \in Entries : Beyond(d)'
    BY <2>1 DEF PageInv, Beyond
  <2>3. page.phase \in {"new", "done"}
    BY <1>3, <1>4 DEF Listing
  <2> QED BY <1>4, <2>1, <2>2, <2>3 DEF PageInv, Shown, Once, Due, Listing
<1>5. CASE page.phase = "reading"
  <2> DEFINE a == IF writing[e].file \in Files THEN page.absent ELSE page.absent \cup {e}
  <2>1. page' = [page EXCEPT !.touched = @ \cup {e}, !.absent = a]
    BY <1>5 DEF Change
  <2>2. /\ page'.phase = page.phase /\ page'.newest = page.newest /\ page'.cursor = page.cursor
        /\ page'.shown = page.shown /\ page'.touched = page.touched \cup {e} /\ page'.absent = a
    BY <1>3, <2>1 DEF Listing
  <2>3. page' \in Listing
    BY <1>3, <2>1 DEF Listing
  <2>4. /\ \A d \in Entries \ {e} : Beyond(d)' <=> Beyond(d)
        /\ page.newest => (Beyond(e)' => Beyond(e))
        /\ ~ page.newest => (Beyond(e) => Beyond(e)')
    BY <1>1, <1>3, <2>2, KeyRaised
  <2>5. \A d \in Entries : /\ Shown(d)' <=> Shown(d)
                           /\ Once(d)' <=> page.newest \/ (Once(d) /\ d # e)
                           /\ Due(d)' => Due(d) /\ (d = e => ~ page.newest)
    BY <2>2 DEF Shown, Once, Due
  <2>6. \A d \in Entries \ page'.absent : row'[d] \in Files
    BY <1>2, <1>5, <2>2 DEF PageInv
  <2>7. page'.cursor # None
    BY <1>5, <2>2 DEF PageInv
  <2>8. \A d \in Entries : Shown(d)' /\ Once(d)' => ~ Beyond(d)'
    BY <1>5, <2>4, <2>5 DEF PageInv, Once
  <2>9. \A i, j \in DOMAIN page'.shown :
          page'.shown[i] = page'.shown[j] /\ Once(page.shown[i])' => i = j
    BY <2>2 DEF PageInv, Once
  <2>10. \A d \in Entries : Due(d)' => Shown(d)' \/ Beyond(d)'
    BY <1>5, <2>4, <2>5 DEF PageInv
  <2> HIDE DEF a
  <2> QED BY <1>5, <2>2, <2>3, <2>6, <2>7, <2>8, <2>9, <2>10 DEF PageInv, Once
<1> QED BY <1>4, <1>5

\* A location goes on the way.
LEMMA DeleteKeepsPage ==
  ASSUME BaseInv, PageInv, NEW l \in {From, To}, DeleteLocation(l)
  PROVE  PageInv'
<1> USE DEF BaseInv
<1> DEFINE S == {e \in Entries : LocOf[e] = l}
<1>1. page \in Listing
  BY DEF PageInv
<1>2. page' = [page EXCEPT !.touched = @ \cup S, !.absent = @ \cup S]
  BY DEF DeleteLocation
<1>3. key' = key /\ \A d \in Entries \ S : row'[d] = row[d]
  BY DEF DeleteLocation
<1> HIDE DEF S
<1>4. /\ page'.phase = page.phase /\ page'.newest = page.newest /\ page'.cursor = page.cursor
      /\ page'.shown = page.shown /\ page'.touched = page.touched \cup S
      /\ page'.absent = page.absent \cup S
  BY <1>1, <1>2 DEF Listing
<1>5. S \subseteq Entries
  BY DEF S
<1>6. page' \in Listing
  BY <1>1, <1>2, <1>5 DEF Listing
<1>7. \A d \in Entries : /\ Beyond(d)' <=> Beyond(d)
                         /\ Shown(d)' <=> Shown(d)
                         /\ Once(d)' => Once(d)
                         /\ Due(d)' => Due(d)
  BY <1>3, <1>4 DEF Beyond, Precedes, Position, Shown, Once, Due
<1>8. \A d \in Entries \ page'.absent : d \notin page.absent /\ row'[d] = row[d]
  BY <1>3, <1>4
<1>9. \A i, j \in DOMAIN page'.shown :
        page'.shown[i] = page'.shown[j] /\ Once(page.shown[i])' => i = j
  BY <1>4 DEF PageInv, Once
<1> QED BY <1>4, <1>6, <1>7, <1>8, <1>9 DEF PageInv, Once

\* What a page adds to the listing.
LEMMA PageAppends ==
  ASSUME TypeInv, page \in Listing
  PROVE  /\ page.shown \o Listed \in Seq(Entries)
         /\ DOMAIN (page.shown \o Listed) = 1 .. (Len(page.shown) + Cardinality(FirstRows))
         /\ \A i \in DOMAIN page.shown : (page.shown \o Listed)[i] = page.shown[i]
         /\ \A i \in DOMAIN (page.shown \o Listed) \ DOMAIN page.shown :
              /\ i - Len(page.shown) \in DOMAIN Listed
              /\ (page.shown \o Listed)[i] = Listed[i - Len(page.shown)]
         /\ \A i \in DOMAIN Listed :
              /\ i + Len(page.shown) \in DOMAIN (page.shown \o Listed)
              /\ (page.shown \o Listed)[i + Len(page.shown)] = Listed[i]
         /\ Rows # FirstRows => Last(Listed) = Listed[Limit] /\ Limit \in DOMAIN Listed
<1> DEFINE k == Cardinality(FirstRows)
<1>1. /\ k \in Nat /\ DOMAIN Listed = 1 .. k
      /\ \A i \in DOMAIN Listed : Listed[i] \in Entries
      /\ Rows # FirstRows => k = Limit
  BY PageLists DEF FirstRows, Rows, Indexed
<1>2. Listed = [i \in 1 .. k |-> Listed[i]]
  BY DEF Listed
<1> HIDE DEF k
<1>3. Listed \in Seq(Entries) /\ Len(Listed) = k
  BY <1>1, <1>2
<1>4. page.shown \in Seq(Entries)
  BY DEF Listing
<1>5. Rows # FirstRows => Last(Listed) = Listed[Limit] /\ Limit \in DOMAIN Listed
  BY <1>1, <1>3, ReportsAssumption DEF Last
<1>6. k = Cardinality(FirstRows)
  BY DEF k
<1> QED BY <1>1, <1>3, <1>4, <1>5, <1>6

\* The next page: what comes was not shown, what was shown lies behind the new cursor and
\* the rest beyond it.
LEMMA NextKeepsPage ==
  ASSUME BaseInv, PageInv, NextPage
  PROVE  PageInv'
<1> USE DEF BaseInv
<1> DEFINE s == page.shown \o Listed
           more == Rows # FirstRows
           l == Last(Listed)
<1>1. /\ page.phase # "done"
      /\ page' = [page EXCEPT !.phase = IF ~ more THEN "done" ELSE "reading",
                              !.shown = s, !.cursor = IF ~ more THEN @ ELSE Position(l),
                              !.absent = @ \cup (Entries \ Indexed)]
      /\ row' = row /\ key' = key
  BY DEF NextPage, Rows, FirstRows, PlaceOf, Before, Listed, catalog
<1>2. page \in Listing
  BY DEF PageInv
<1>3. /\ page'.phase = (IF more THEN "reading" ELSE "done")
      /\ page'.newest = page.newest /\ page'.touched = page.touched /\ page'.shown = s
      /\ page'.cursor = (IF more THEN Position(l) ELSE page.cursor)
      /\ page'.absent = page.absent \cup (Entries \ Indexed)
  BY <1>1, <1>2 DEF Listing
<1>4. /\ s \in Seq(Entries)
      /\ \A i \in DOMAIN page.shown : i \in DOMAIN s /\ s[i] = page.shown[i]
      /\ \A i \in DOMAIN s \ DOMAIN page.shown :
           i - Len(page.shown) \in DOMAIN Listed /\ s[i] = Listed[i - Len(page.shown)]
      /\ \A i \in DOMAIN Listed :
           i + Len(page.shown) \in DOMAIN s /\ s[i + Len(page.shown)] = Listed[i]
      /\ more => l = Listed[Limit] /\ Limit \in DOMAIN Listed
  <2>1. page.shown \in Seq(Entries) /\ Cardinality(FirstRows) \in Nat
    BY <1>2, PageLists DEF Listing
  <2>2. \A i \in DOMAIN page.shown : i \in 1 .. (Len(page.shown) + Cardinality(FirstRows))
    BY <2>1
  <2> QED BY <1>2, <2>2, PageAppends
<1>5. /\ DOMAIN Listed = 1 .. Cardinality(FirstRows) /\ Cardinality(FirstRows) \in Nat
      /\ \A i \in DOMAIN Listed : Listed[i] \in FirstRows /\ PlaceOf(Listed[i]) = i
      /\ \A e \in FirstRows : PlaceOf(e) \in DOMAIN Listed /\ Listed[PlaceOf(e)] = e
      /\ more => Cardinality(FirstRows) = Limit
  BY PageLists
<1> HIDE DEF s, more, l
<1>6. /\ FirstRows \subseteq Rows /\ Rows \subseteq Indexed /\ Indexed \subseteq Entries
      /\ \A e \in Indexed : Beyond(e) <=> e \in Rows
  BY DEF FirstRows, Rows, Indexed
<1>7. ASSUME NEW e \in Rows PROVE ~ (Shown(e) /\ Once(e))
  <2>1. CASE page.phase = "new"
    BY <2>1 DEF PageInv, Shown
  <2>2. CASE page.phase = "reading"
    BY <2>2, <1>6 DEF PageInv
  <2> QED BY <1>1, <1>2, <2>1, <2>2 DEF Listing
<1>8. \A e \in Entries : Shown(e)' <=> Shown(e) \/ e \in FirstRows
  <2>1. ASSUME NEW e, Shown(e)' PROVE Shown(e) \/ e \in FirstRows
    <3>1. PICK i \in DOMAIN s : s[i] = e
      BY <1>3, <2>1 DEF Shown
    <3> QED BY <1>4, <1>5, <3>1 DEF Shown
  <2>2. ASSUME NEW e, Shown(e) PROVE Shown(e)'
    BY <1>3, <1>4, <2>2 DEF Shown
  <2>3. ASSUME NEW e \in FirstRows PROVE Shown(e)'
    BY <1>3, <1>4, <1>5 DEF Shown
  <2> QED BY <2>1, <2>2, <2>3
<1>9. \A e \in Entries : (Once(e)' <=> Once(e)) /\ (Due(e)' <=> Due(e) /\ e \in Indexed)
  BY <1>3 DEF Once, Due
<1>10. ASSUME NEW i \in DOMAIN s, NEW j \in DOMAIN s, s[i] = s[j], Once(s[i])
       PROVE  i = j
  <2>1. CASE i \in DOMAIN page.shown /\ j \in DOMAIN page.shown
    BY <1>4, <1>10, <2>1 DEF PageInv
  <2>2. CASE i \notin DOMAIN page.shown /\ j \notin DOMAIN page.shown
    <3>1. i - Len(page.shown) = j - Len(page.shown)
      BY <1>4, <1>5, <1>10, <2>2
    <3>2. i \in Nat /\ j \in Nat /\ Len(page.shown) \in Nat
      BY <1>2, <1>4 DEF Listing
    <3> QED BY <3>1, <3>2
  <2>3. ASSUME NEW m \in DOMAIN page.shown, NEW n \in DOMAIN s \ DOMAIN page.shown, s[m] = s[n]
        PROVE  ~ Once(s[m])
    <3>1. Shown(s[m]) /\ s[n] \in FirstRows
      BY <1>4, <1>5 DEF Shown
    <3> QED BY <1>6, <1>7, <2>3, <3>1
  <2> QED BY <1>10, <2>1, <2>2, <2>3
<1>11. ASSUME more
       PROVE  /\ l \in FirstRows /\ Position(l) \in Positions
              /\ \A e \in FirstRows : ~ Before(l, e)
              /\ \A e \in Rows \ FirstRows : Before(l, e)
              /\ page.cursor # None => Precedes(page.cursor, Position(l))
  <2>1. l \in FirstRows /\ PlaceOf(l) = Limit
    BY <1>4, <1>5, <1>11
  <2>2. Position(l) \in Positions
    BY <1>6, <2>1, EntriesOrdered
  <2>3. \A e \in Rows : PlaceOf(e) \in Nat
    BY PlacesCount
  <2>4. ASSUME NEW e \in FirstRows PROVE ~ Before(l, e)
    <3>1. Before(l, e) => PlaceOf(l) < PlaceOf(e)
      BY <1>6, <2>1, PlacesCount
    <3>2. PlaceOf(e) <= Limit
      BY DEF FirstRows
    <3> QED BY <1>6, <2>1, <2>3, <3>1, <3>2
  <2>5. ASSUME NEW e \in Rows \ FirstRows PROVE Before(l, e)
    <3>1. Before(e, l) => PlaceOf(e) < PlaceOf(l)
      BY <1>6, <2>1, PlacesCount
    <3>2. ~ (PlaceOf(e) <= Limit)
      BY DEF FirstRows
    <3>3. ~ Before(e, l)
      BY <1>6, <2>1, <2>3, <3>1, <3>2, ReportsAssumption
    <3> QED BY <1>6, <2>1, <3>3, EntriesOrdered
  <2>6. page.cursor # None => Precedes(page.cursor, Position(l))
    BY <2>1 DEF FirstRows, Rows, Beyond
  <2> QED BY <2>1, <2>2, <2>4, <2>5, <2>6
<1>12. ASSUME more, NEW e \in Entries PROVE Beyond(e)' <=> Before(l, e)
  <2>1. Position(l) # None
    BY <1>11, <1>12, ReportsAssumption DEF Positions
  <2> QED BY <1>1, <1>3, <1>12, <2>1 DEF Beyond, Before, Precedes, Position
<1>13. ASSUME more, NEW e \in Entries, Shown(e)', Once(e)' PROVE ~ Beyond(e)'
  <2>1. CASE e \in FirstRows
    BY <1>11, <1>12, <1>13, <2>1
  <2>2. CASE Shown(e) /\ Once(e)
    <3>1. page.phase = "reading"
      BY <1>1, <1>2, <2>2 DEF PageInv, Listing, Shown
    <3>2. page.cursor \in Positions /\ page.cursor # None
      BY <1>2, <3>1 DEF PageInv, Listing
    <3>3. ~ Precedes(page.cursor, Position(e))
      BY <2>2, <3>1, <3>2 DEF PageInv, Beyond
    <3>4. Precedes(page.cursor, Position(l)) /\ Position(l) \in Positions /\ Position(e) \in Positions
      BY <1>11, <1>13, <3>2, EntriesOrdered
    <3>5. ~ Precedes(Position(l), Position(e))
      BY <3>2, <3>3, <3>4, PositionsOrdered
    <3> QED BY <1>12, <1>13, <3>5 DEF Before
  <2> QED BY <1>8, <1>9, <1>13, <2>1, <2>2
<1>14. ASSUME NEW e \in Entries, Due(e)' PROVE Shown(e)' \/ (more /\ Beyond(e)')
  <2>1. Due(e) /\ e \in Indexed
    BY <1>9, <1>14
  <2>2. CASE Shown(e)
    BY <1>8, <2>2
  <2>3. CASE Beyond(e)
    <3>1. e \in Rows
      BY <1>6, <2>1, <2>3
    <3>2. CASE e \in FirstRows
      BY <1>8, <3>2
    <3>3. CASE e \notin FirstRows
      BY <1>11, <1>12, <3>1, <3>3 DEF more
    <3> QED BY <3>2, <3>3
  <2> QED BY <2>1, <2>2, <2>3 DEF PageInv
<1>15. page' \in Listing
  <2>1. (IF ~ more THEN page.cursor ELSE Position(l)) \in Positions \cup {None}
    BY <1>2, <1>11 DEF Listing
  <2>2. page.absent \cup (Entries \ Indexed) \in SUBSET Entries
    BY <1>2 DEF Listing
  <2> QED BY <1>1, <1>2, <1>4, <2>1, <2>2 DEF Listing
<1>16. /\ page'.phase # "new" /\ (page'.phase = "reading" => more) /\ (more => page'.phase # "done")
       /\ more => page'.cursor # None
  BY <1>3, <1>11, ReportsAssumption DEF Positions
<1>17. \A e \in Entries \ page'.absent : row'[e] \in Files
  BY <1>1, <1>3 DEF Indexed
<1>18. \A i, j \in DOMAIN page'.shown :
         page'.shown[i] = page'.shown[j] /\ Once(page.shown[i])' => i = j
  <2>1. \A i \in DOMAIN s : s[i] \in Entries
    BY <1>4
  <2> QED BY <1>3, <1>9, <1>10, <2>1
<1> QED BY <1>13, <1>14, <1>15, <1>16, <1>17, <1>18 DEF PageInv

\* Every step keeps the page.
LEMMA PageStep == ASSUME BaseInv, PageInv, [Next]_vars PROVE PageInv'
<1>1. ASSUME NEW e \in Entries, Stamp(e) PROVE PageInv'
  BY <1>1, PageStays DEF Stamp
<1>2. CASE CatalogStep
  BY <1>1, <1>2, ChangeKeepsPage, DeleteKeepsPage DEF CatalogStep
<1>3. CASE AttemptStep
  BY <1>3, PageStays, AttemptMoves DEF AttemptStep, catalog, BaseInv
<1>4. CASE Expire
  <2>1. page' = [NoPage EXCEPT !.newest = page.newest] /\ page.newest \in BOOLEAN
    BY <1>4 DEF Expire, PageInv, Listing
  <2>2. page' \in FreshPages
    BY <2>1 DEF NoPage, FreshPages
  <2>3. page' \in Listing /\ page'.phase = "new" /\ page'.cursor = None /\ page'.shown = <<>>
    BY <2>2, FreshPage
  <2> QED BY <2>3 DEF PageInv, Beyond, Shown
<1>5. CASE UNCHANGED vars
  BY <1>5, PageStays DEF vars, catalog
<1> QED BY <1>2, <1>3, <1>4, <1>5, NextKeepsPage, StepKinds

\* A row comes once at most where its places are one.
LEMMA TimesOf ==
  ASSUME page \in Listing, NEW e \in Entries
  PROVE  LET times == Cardinality({i \in DOMAIN page.shown : page.shown[i] = e})
         IN /\ times \in Nat
            /\ times >= 1 <=> Shown(e)
            /\ (\A i, j \in DOMAIN page.shown : page.shown[i] = e /\ page.shown[j] = e => i = j)
                 => times <= 1
<1> DEFINE P == {i \in DOMAIN page.shown : page.shown[i] = e}
<1>1. IsFiniteSet(P)
  <2>1. Len(page.shown) \in Nat /\ DOMAIN page.shown = 1 .. Len(page.shown)
    BY DEF Listing
  <2>2. IsFiniteSet(1 .. Len(page.shown))
    BY <2>1, FS_Interval
  <2> QED BY <2>1, <2>2, FS_Subset
<1>2. Cardinality(P) \in Nat /\ (Cardinality(P) >= 2 <=> \E i, j \in P : i # j)
  BY <1>1, TwoOrMore
<1>3. Cardinality(P) = 0 <=> P = {}
  BY <1>1, FS_EmptySet
<1>4. P = {} <=> ~ Shown(e)
  BY DEF Shown
<1>5. (\A i, j \in DOMAIN page.shown : page.shown[i] = e /\ page.shown[j] = e => i = j)
        => ~ \E i, j \in P : i # j
  OBVIOUS
<1> HIDE DEF P
<1>6. (\A i, j \in DOMAIN page.shown : page.shown[i] = e /\ page.shown[j] = e => i = j)
        => Cardinality(P) <= 1
  BY <1>2, <1>5
<1>7. Cardinality(P) >= 1 <=> Shown(e)
  BY <1>2, <1>3, <1>4
<1> QED BY <1>2, <1>6, <1>7 DEF P

\* A page that is as it should be is fair.
LEMMA PageIsFair == ASSUME PageInv PROVE ListingIsFair
<1> DEFINE times(e) == Cardinality({i \in DOMAIN page.shown : page.shown[i] = e})
<1>1. \A e \in Entries : /\ times(e) \in Nat /\ (times(e) >= 1 <=> Shown(e))
                         /\ Once(e) => times(e) <= 1
  BY TimesOf DEF PageInv
<1>2. page.phase = "done" => \A e \in Entries : Due(e) => Shown(e)
  BY DEF PageInv
<1> HIDE DEF times
<1>3. \A e \in Entries \ page.touched : times(e) <= 1
  BY <1>1 DEF Once
<1>4. page.newest => \A e \in Entries : times(e) <= 1
  BY <1>1 DEF Once
<1>5. page.phase = "done" => \A e \in Entries \ (page.touched \cup page.absent) : times(e) = 1
  BY <1>1, <1>2 DEF Once, Due
<1>6. page.phase = "done" /\ ~ page.newest => \A e \in Entries \ page.absent : times(e) >= 1
  BY <1>1, <1>2 DEF Due
<1> QED BY <1>3, <1>4, <1>5, <1>6 DEF ListingIsFair, times

-----------------------------------------------------------------------------
(***************************************************************************)
(* The theorems.                                                           *)
(***************************************************************************)

Inv == BaseInv /\ SourceInv /\ TargetInv /\ ItemsInv /\ ReportInv /\ PageInv

LEMMA InitInv == ASSUME Init PROVE Inv
<1> USE DEF Init
<1>1. BaseInv
  BY DEF BaseInv, TypeInv, KeyInv, ModeInv, Planning, Rebuilding
<1>2. SourceInv /\ TargetInv
  BY DEF SourceInv, TargetInv
<1>3. ItemsInv
  BY DEF ItemsInv, NoPlan
<1>4. ReportInv
  BY DEF ReportInv, TogetherInv, GroupsInv, MembersInv, LatestInv, ReportIsOne, Rebuilding
<1>5. PageInv
  <2>1. page \in FreshPages
    BY DEF FreshPages
  <2>2. page \in Listing /\ page.phase = "new" /\ page.cursor = None /\ page.shown = <<>>
    BY <2>1, FreshPage
  <2> QED BY <2>2 DEF PageInv, Beyond, Shown
<1> QED BY <1>1, <1>2, <1>3, <1>4, <1>5 DEF Inv

LEMMA StepInv == ASSUME Inv, [Next]_vars PROVE Inv'
<1> USE DEF Inv
<1>1. BaseInv'
  BY BaseStep
<1>2. SourceInv' /\ TargetInv'
  <2>1. CASE NextPage \/ Expire \/ UNCHANGED vars
    BY <2>1 DEF NextPage, Expire, vars, catalog, jobs, SourceInv, TargetInv
  <2> QED BY <2>1, StepKinds, CatalogKeepsReads, AttemptKeepsReads
<1> QED BY <1>1, <1>2, ItemsStep, ReportStep, PageStep

\* In every reachable state the catalog, the plans, the report and the listing are as the
\* parts of Inv say.
THEOREM InvHolds == Spec => []Inv
<1>1. Init => Inv
  BY InitInv
<1>2. Inv /\ [Next]_vars => Inv'
  BY StepInv
<1> QED BY <1>1, <1>2, PTL DEF Spec

\* Sync plans (jobs/handlers/sync_plan.py, sync/compare.py): however many attempts of its job
\* ran and whatever changed meanwhile, a plan that is ready has one item for each entry its
\* attempt read, and each item is true of what has not changed since.
THEOREM PlansTrue == Spec => []PlanIsTrue
<1>1. Inv => PlanIsTrue
  BY ItemsAreTrue DEF Inv
<1> QED BY <1>1, InvHolds, PTL

\* The duplicate report (jobs/handlers/duplicates.py): groups of two rebuilds never stand
\* together unless those two were in flight at once.
THEOREM OneReport == Spec => []ReportIsOne
<1>1. Inv => ReportIsOne
  BY DEF Inv, ReportInv
<1> QED BY <1>1, InvHolds, PTL

\* Until the catalog changes again, the exact groups of the last rebuild are the classes of
\* equal files and its text groups those of equal text with different files.
THEOREM GroupsTrue == Spec => []GroupsAreTrue
<1>1. Inv => GroupsAreTrue
  BY ReportTrue DEF Inv
<1> QED BY <1>1, InvHolds, PTL

\* Listings page by page (api/pagination.py): for every number of rows, page size and
\* interleaving with changes, a row that stays comes exactly once; newest first nothing comes
\* twice, oldest first nothing that stays listed is missed.
THEOREM ListingsFair == Spec => []ListingIsFair
<1>1. Inv => ListingIsFair
  BY PageIsFair DEF Inv
<1> QED BY <1>1, InvHolds, PTL

=============================================================================
