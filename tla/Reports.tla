------------------------------ MODULE Reports ------------------------------
(***************************************************************************)
(* What reads the catalog while it changes: sync plans, the duplicate      *)
(* report, and listings page by page.  (jobs/handlers/sync_plan.py and     *)
(* duplicates.py, sync/compare.py, api/v1/routes, api/pagination.py.)      *)
(*                                                                         *)
(* They meet only in the catalog, so a behaviour has one kind of them:     *)
(* attempts of one job that builds a plan, two jobs that rebuild the       *)
(* report (a retry has no dedupe key), or one listing.  Statements see     *)
(* what is committed when they start.                                      *)
(***************************************************************************)
EXTENDS Integers, FiniteSets, SequencesExt

CONSTANTS
  N,           \* catalog entries; their ids are ordered
  Files,       \* file hashes
  TextOf,      \* the text hash of each file's content
  LocOf,       \* the location of each entry
  PathOf,      \* its relative path
  From, To,    \* the locations of the plan
  Readers,     \* job attempts
  Limit,       \* rows of a page
  MaxChanges,  \* bound on changes to the catalog, for each mode
  None, Gone

Entries == 1 .. N
Modes == {"plan", "rebuild", "listing"}

ASSUME ReportsAssumption ==
  /\ N \in Nat /\ Limit \in Nat \ {0} /\ MaxChanges \in [Modes -> Nat]
  /\ LocOf \in [Entries -> {From, To}] /\ From # To
  /\ PathOf \in [Entries -> Nat] /\ None \notin Nat \X Nat
  /\ \A e, f \in Entries : LocOf[e] = LocOf[f] /\ PathOf[e] = PathOf[f] => e = f
  /\ {None, Gone} \cap Files = {} /\ None # Gone /\ None \notin Readers

VARIABLES
  mode,      \* what this behaviour reads for
  row,       \* catalog_entries: the current file of an indexed entry, None, or Gone
  key,       \* the sort key, updated_at
  clock,     \* clock_timestamp(), which also counts the changes
  writing,   \* the uncommitted update of each entry
  at,        \* the statement each attempt is at
  source,    \* what it read of the source, or of everything
  target,    \* what it read of the target
  doomed,    \* the groups its delete removes
  owner,     \* the attempt that holds the lease of the plan's job
  plan,      \* sync_plans and sync_plan_items
  groups,    \* duplicate_groups and duplicate_members
  latest,    \* history: the rebuild that committed last
  together,  \* history: pairs of rebuilds that were in flight at once
  stirred,   \* history: entries that changed since each attempt first read
  page       \* the listing

catalog == <<row, key, clock, writing>>
jobs == <<at, source, target, doomed, owner, plan, groups, latest, together>>
vars == <<mode, catalog, jobs, stirred, page>>

Indexed == {e \in Entries : row[e] \in Files}
In(l) == {e \in Indexed : LocOf[e] = l}
Snapshot(S) == [e \in S |-> row[e]]

NoPlan == [status |-> "building", items |-> {}, by |-> None]
NoPage == [phase |-> "new", newest |-> TRUE, cursor |-> None, shown |-> <<>>,
           touched |-> {}, absent |-> {}]

\* To a listing all files are alike, and to the others all keys.
Init ==
  /\ mode \in Modes
  /\ row \in [Entries -> Files \cup {None}]
  /\ mode = "listing" => Cardinality({row[e] : e \in Indexed}) <= 1
  /\ key \in [Entries -> IF mode = "listing" THEN {1, 2} ELSE {1}]
  /\ clock = 2 /\ writing = [e \in Entries |-> None]
  /\ at = [r \in Readers |-> "idle"] /\ owner = None
  /\ source = [r \in Readers |-> <<>>] /\ target = [r \in Readers |-> <<>>]
  /\ doomed = [r \in Readers |-> {}] /\ groups = {} /\ latest = None /\ together = {}
  /\ plan = NoPlan
  /\ stirred = [r \in Readers |-> {}]
  /\ page \in {NoPage} \cup (IF mode = "listing" THEN {[NoPage EXCEPT !.newest = FALSE]} ELSE {})

----------------------------------------------------------------------------
Goto(r, place) == at' = [at EXCEPT ![r] = place]
Running(r) == at[r] \notin {"idle", "done", "dead"}

\* An update takes its time stamp when it is executed ...
Stamp(e) ==
  /\ clock < 2 + MaxChanges[mode] /\ writing[e] = None /\ row[e] # Gone
  /\ \E f \in Files \cup {None} : writing' = [writing EXCEPT ![e] = [file |-> f, key |-> clock + 1]]
  /\ clock' = clock + 1
  /\ UNCHANGED <<mode, row, key, jobs, stirred, page>>

\* ... and is seen when its transaction commits.
Change(e) ==
  /\ writing[e] # None
  /\ row' = [row EXCEPT ![e] = writing[e].file]
  /\ key' = [key EXCEPT ![e] = writing[e].key]
  /\ writing' = [writing EXCEPT ![e] = None]
  /\ stirred' = [r \in Readers |-> IF at[r] = "idle" THEN {} ELSE stirred[r] \cup {e}]
  /\ page' = IF page.phase = "reading"
               THEN [page EXCEPT !.touched = @ \cup {e},
                                 !.absent = IF writing[e].file \in Files THEN @ ELSE @ \cup {e}]
               ELSE page
  /\ UNCHANGED <<mode, clock, jobs>>

\* Entries, plans and members go with a location; groups keep their count.
DeleteLocation(l) ==
  /\ clock < 2 + MaxChanges[mode] /\ \E e \in Entries : LocOf[e] = l /\ row[e] # Gone
  /\ \A e \in Entries : LocOf[e] = l => writing[e] = None
  /\ row' = [e \in Entries |-> IF LocOf[e] = l THEN Gone ELSE row[e]]
  /\ clock' = clock + 1
  /\ plan' = [plan EXCEPT !.status = "gone", !.items = {}]
  /\ groups' = {[g EXCEPT !.members = {e \in @ : LocOf[e] # l}] : g \in groups}
  /\ stirred' = [r \in Readers |-> IF at[r] = "idle" THEN {}
                                     ELSE stirred[r] \cup {e \in Entries : LocOf[e] = l}]
  /\ page' = [page EXCEPT !.touched = @ \cup {e \in Entries : LocOf[e] = l},
                          !.absent = @ \cup {e \in Entries : LocOf[e] = l}]
  /\ UNCHANGED <<mode, key, writing, at, source, target, doomed, owner, latest, together>>

\* The worker of an attempt dies; its transaction is rolled back.
Die(r) ==
  /\ Running(r)
  /\ Goto(r, "dead")
  /\ UNCHANGED <<mode, catalog, source, target, doomed, owner, plan, groups, latest, together, stirred, page>>

----------------------------------------------------------------------------
(* Sync plans. *)

\* Claimed, at first or after the lease of another attempt ran out.
Claim(r) ==
  /\ mode = "plan" /\ at[r] = "idle" /\ plan.status = "building"
  /\ owner' = r /\ Goto(r, "claimed")
  /\ UNCHANGED <<mode, catalog, source, target, doomed, plan, groups, latest, together, stirred, page>>

\* The plan is loaded, or the job fails for good; then the first snapshot.
ReadSource(r) ==
  /\ at[r] = "claimed"
  /\ IF plan.status = "gone"
       THEN Goto(r, "dead") /\ UNCHANGED <<source, stirred>>
       ELSE /\ source' = [source EXCEPT ![r] = Snapshot(In(From))]
            /\ stirred' = [stirred EXCEPT ![r] = {}]
            /\ Goto(r, "half")
  /\ UNCHANGED <<mode, catalog, target, doomed, owner, plan, groups, latest, together, page>>

ReadTarget(r) ==
  /\ at[r] = "half"
  /\ target' = [target EXCEPT ![r] = Snapshot(In(To))]
  /\ Goto(r, "compared")
  /\ UNCHANGED <<mode, catalog, source, doomed, owner, plan, groups, latest, together, stirred, page>>

AtPath(e, T) == {t \in DOMAIN T : PathOf[t] = PathOf[e]}
\* _first: the lowest path among equals.
First(T) == CHOOSE t \in T : \A u \in T : PathOf[t] <= PathOf[u]

\* Mutant: equal bytes elsewhere are looked for first.
ClassifyBytesFirst(S, T, e) ==
  LET bytes == {t \in DOMAIN T : T[t] = S[e]}
      texts == {t \in DOMAIN T : TextOf[T[t]] = TextOf[S[e]]}
      item(action, t) == [entry |-> e, action |-> action, match |-> t]
  IN IF \E t \in AtPath(e, T) : T[t] = S[e] THEN item("present", First(AtPath(e, T)))
     ELSE IF bytes # {} THEN item("review", First(bytes))
     ELSE IF AtPath(e, T) # {} THEN item("conflict", First(AtPath(e, T)))
     ELSE IF texts # {} THEN item("review", First(texts))
     ELSE item("copy", None)

\* _classify: a path match wins over equal bytes, those over equal text.
Classify(S, T, e) ==
  LET bytes == {t \in DOMAIN T : T[t] = S[e]}
      texts == {t \in DOMAIN T : TextOf[T[t]] = TextOf[S[e]]}
      item(action, t) == [entry |-> e, action |-> action, match |-> t]
  IN IF AtPath(e, T) # {}
       THEN item(IF First(AtPath(e, T)) \in bytes THEN "present" ELSE "conflict", First(AtPath(e, T)))
     ELSE IF bytes # {} THEN item("review", First(bytes))
     ELSE IF texts # {} THEN item("review", First(texts))
     ELSE item("copy", None)

\* Items, plan and job are committed at once, by the attempt that holds the job and
\* while the plan is there; else everything is rolled back.
CommitPlan(r) ==
  /\ at[r] = "compared"
  /\ IF owner = r /\ plan.status # "gone"
       THEN /\ plan' = [status |-> "ready", by |-> r,
                        items |-> plan.items \cup {<<r, Classify(source[r], target[r], e)>> :
                                                   e \in DOMAIN source[r]}]
            /\ owner' = None /\ Goto(r, "done")
       ELSE Goto(r, "dead") /\ UNCHANGED <<plan, owner>>
  /\ UNCHANGED <<mode, catalog, source, target, doomed, groups, latest, together, stirred, page>>

----------------------------------------------------------------------------
(* The duplicate report. *)

LoadMembers(r) ==
  /\ mode = "rebuild" /\ at[r] = "idle"
  /\ source' = [source EXCEPT ![r] = Snapshot(Indexed)]
  /\ stirred' = [stirred EXCEPT ![r] = {}]
  /\ together' = together \cup {{r, p} : p \in {x \in Readers : Running(x)}}
  /\ Goto(r, "loaded")
  /\ UNCHANGED <<mode, catalog, target, doomed, owner, plan, groups, latest, page>>

\* Mutant: the old groups stay.
DeletedNone == {}

Deleted == groups

\* DELETE sees the groups committed when it starts ...
Delete(r) ==
  /\ at[r] = "loaded"
  /\ doomed' = [doomed EXCEPT ![r] = {g.id : g \in Deleted}]
  /\ Goto(r, "deleting")
  /\ UNCHANGED <<mode, catalog, source, target, owner, plan, groups, latest, together, stirred, page>>

\* ... and waits for a transaction that deletes one of them.
Deletes(r) ==
  /\ at[r] = "deleting"
  /\ \A p \in Readers \ {r} : at[p] = "deleted" => doomed[p] \cap doomed[r] = {}
  /\ Goto(r, "deleted")
  /\ UNCHANGED <<mode, catalog, source, target, doomed, owner, plan, groups, latest, together, stirred, page>>

TextsOf(M) == [e \in DOMAIN M |-> TextOf[M[e]]]
Members(hashes, h) == {e \in DOMAIN hashes : hashes[e] = h}

\* Mutant: a text group needs no second file hash.
TextHashesAny(M) == {h \in Range(TextsOf(M)) : Cardinality(Members(TextsOf(M), h)) >= 2}

TextHashes(M) ==
  {h \in Range(TextsOf(M)) : \E e, d \in Members(TextsOf(M), h) : M[e] # M[d]}

ExactHashes(M) == {h \in Range(M) : Cardinality(Members(M, h)) >= 2}

Group(r, kind, h, members) ==
  [id |-> <<r, kind, h>>, by |-> r, kind |-> kind, hash |-> h, members |-> members, count |-> Cardinality(members)]

GroupsOf(r, M) ==
  {Group(r, "exact", h, Members(M, h)) : h \in ExactHashes(M)} \cup
  {Group(r, "text", h, Members(TextsOf(M), h)) : h \in TextHashes(M)}

\* A member whose entry is gone violates its foreign key and the job fails.
CommitReport(r) ==
  LET new == GroupsOf(r, source[r])
  IN /\ at[r] = "deleted"
     /\ IF \A g \in new, e \in Entries : e \in g.members => row[e] # Gone
          THEN /\ groups' = {g \in groups : g.id \notin doomed[r]} \cup new
               /\ latest' = r /\ Goto(r, "done")
          ELSE Goto(r, "dead") /\ UNCHANGED <<groups, latest>>
     /\ UNCHANGED <<mode, catalog, source, target, doomed, owner, plan, together, stirred, page>>

----------------------------------------------------------------------------
(* Listings. *)

\* By key in the chosen direction; the id breaks ties upwards in both.
Precedes(a, b) ==
  \/ IF page.newest THEN a[1] > b[1] ELSE a[1] < b[1]
  \/ a[1] = b[1] /\ a[2] < b[2]

Position(e) == <<key[e], e>>

\* Mutant: the cursor is the key alone.
BeyondKey(e) ==
  page.cursor = None \/ (key[e] # page.cursor[1] /\ Precedes(page.cursor, Position(e)))

Beyond(e) == page.cursor = None \/ Precedes(page.cursor, Position(e))

\* One page: the rows beyond the cursor, one more than the limit tells whether more follow.
NextPage ==
  LET rows == {e \in Indexed : Beyond(e)}
      place(e) == Cardinality({d \in rows : Precedes(Position(d), Position(e))}) + 1
      first == {e \in rows : place(e) <= Limit}
      listed == [i \in 1 .. Cardinality(first) |-> CHOOSE e \in first : place(e) = i]
  IN /\ mode = "listing" /\ page.phase # "done"
     /\ page' = [page EXCEPT
                   !.phase = IF rows = first THEN "done" ELSE "reading",
                   !.shown = @ \o listed,
                   !.cursor = IF rows = first THEN @ ELSE Position(Last(listed)),
                   !.absent = @ \cup (Entries \ Indexed)]
     /\ UNCHANGED <<mode, catalog, jobs, stirred>>

\* An expired cursor is refused and the client starts again.
Expire ==
  /\ page.phase = "reading"
  /\ page' = [NoPage EXCEPT !.newest = page.newest]
  /\ UNCHANGED <<mode, catalog, jobs, stirred>>

Settled ==
  /\ \A r \in Readers : ~ Running(r)
  /\ \A e \in Entries : writing[e] = None
Quiet == Settled /\ UNCHANGED vars

Next ==
  \/ \E e \in Entries : Stamp(e) \/ Change(e)
  \/ \E l \in {From, To} : DeleteLocation(l)
  \/ \E r \in Readers :
       \/ Die(r) \/ Claim(r) \/ ReadSource(r) \/ ReadTarget(r) \/ CommitPlan(r)
       \/ LoadMembers(r) \/ Delete(r) \/ Deletes(r) \/ CommitReport(r)
  \/ NextPage \/ Expire
  \/ Quiet

Spec == Init /\ [][Next]_vars

----------------------------------------------------------------------------
\* A plan can be followed: it has one item per entry its attempt read, whatever other
\* attempts did, and what it says of an entry holds as long as that entry and the target
\* have not changed since: a copy meets no file and brings what the target has not, a
\* conflict is named, and nothing is called present that is not.
PlanIsTrue ==
  LET r == plan.by
      there(x) == {t \in In(To) : PathOf[t] = PathOf[x]}
      same(x) == {t \in In(To) : TextOf[row[t]] = TextOf[source[r][x]]}
  IN plan.status = "ready" =>
       /\ {i[2].entry : i \in plan.items} = DOMAIN source[r]
       /\ Cardinality(plan.items) = Cardinality(DOMAIN source[r])
       /\ \A i \in plan.items :
            LET e == i[2].entry
                does == i[2].action
            IN (\A x \in stirred[r] : x # e /\ LocOf[x] # To) =>
                 /\ does = "copy" <=> (there(e) = {} /\ same(e) = {})
                 /\ does = "conflict" <=> \E t \in there(e) : row[t] # row[e]
                 /\ does = "present" <=> \E t \in there(e) : row[t] = row[e]

\* Groups of two rebuilds stand in the report only if those were in flight at once.
ReportIsOne ==
  \A g, h \in groups : g.by # h.by => {g.by, h.by} \in together

\* As long as nothing changed since the last rebuild read the catalog, two entries share
\* an exact group of it if and only if their files are equal, and a text group only if
\* their texts are equal and some file in it differs.
GroupsAreTrue ==
  latest # None /\ stirred[latest] = {} =>
    \A e, d \in Indexed : e # d =>
      LET share(kind) == \E g \in groups : g.by = latest /\ g.kind = kind /\ {e, d} \subseteq g.members
      IN /\ share("exact") <=> row[e] = row[d]
         /\ share("text") <=> /\ TextOf[row[e]] = TextOf[row[d]]
                               /\ \E x \in Indexed : TextOf[row[x]] = TextOf[row[e]] /\ row[x] # row[e]

\* A listing shows each row that did not change exactly once.  Newest first, no row comes
\* twice at all; oldest first, none that matched throughout is missed, though its stamp
\* may be older than its commit.
ListingIsFair ==
  LET times(e) == Cardinality({i \in DOMAIN page.shown : page.shown[i] = e})
  IN /\ \A e \in Entries \ page.touched : times(e) <= 1
     /\ page.newest => \A e \in Entries : times(e) <= 1
     /\ page.phase = "done" =>
          /\ \A e \in Entries \ (page.touched \cup page.absent) : times(e) = 1
          /\ ~ page.newest => \A e \in Entries \ page.absent : times(e) >= 1
=============================================================================
