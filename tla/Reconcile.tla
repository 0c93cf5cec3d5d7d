----------------------------- MODULE Reconcile -----------------------------
(***************************************************************************)
(* What one complete scan does to the catalog of its location              *)
(* (jobs/handlers/reconcile.py and the folding in scan_location.py): which *)
(* entry each observed path is folded into, and what becomes of it.        *)
(*                                                                         *)
(* A catalog is a function from entry ids to rows, an observation list a   *)
(* function from the paths seen to content hashes.  Size and mtime travel  *)
(* with the hash and are left out.  The order in which the database        *)
(* returns rows decides between candidates of equal content, so folding is *)
(* a choice: Placements is the set of the outcomes.                        *)
(***************************************************************************)
CONSTANTS Entries, Paths, Shas

Processed == {"indexed", "failed", "unsupported"}
States == Processed \cup {"discovered", "missing"}

Row == [path : Paths, sha : Shas, state : States]

Catalogs == UNION {[S -> Row] : S \in SUBSET Entries}
Observations == UNION {[S -> Shas] : S \in SUBSET Paths}

\* Mutant: an entry that is missing no longer holds its path.
KnownPresent(cat, p) == \E e \in DOMAIN cat : cat[e].path = p /\ cat[e].state # "missing"

Known(cat, p) == \E e \in DOMAIN cat : cat[e].path = p

\* Candidate sources of a move: entries at a path this scan did not see.
Disappeared(cat, obs) == {e \in DOMAIN cat : cat[e].path \notin DOMAIN obs}

MovedFrom(cat, obs, e, p) == e \in Disappeared(cat, obs) /\ cat[e].sha = obs[p]

\* Which entry each observed path goes to: a known path to its own entry, a
\* new one to a disappeared entry of the same content if one is left, else to
\* an entry that did not exist.
Placements(cat, obs) ==
  {at \in [DOMAIN obs -> Entries] :
     /\ \A p, q \in DOMAIN obs : at[p] = at[q] => p = q
     /\ \A p \in DOMAIN obs :
          IF Known(cat, p)
            THEN at[p] \in DOMAIN cat /\ cat[at[p]].path = p
            ELSE \/ MovedFrom(cat, obs, at[p], p)
                 \/ /\ at[p] \notin DOMAIN cat
                    /\ \A e \in DOMAIN cat :
                         MovedFrom(cat, obs, e, p) => \E q \in DOMAIN obs : at[q] = e}

\* Mutant: a changed file keeps the state of its old bytes.
StateAfterPath(row, sha) == IF row.state = "missing" THEN "discovered" ELSE row.state

\* Mutant: a file that is back stays missing.
StateAfterMissing(row, sha) ==
  IF row.sha # sha /\ row.state # "missing" THEN "discovered" ELSE row.state

\* Bytes not seen before, or a file that was missing, must be indexed again.
StateAfter(row, sha) ==
  IF row.state = "missing" \/ row.sha # sha THEN "discovered" ELSE row.state

\* The catalog after the scan: observed entries take path and content of what
\* was seen, the others are missing.
Folded(cat, obs, at) ==
  LET placed == {at[p] : p \in DOMAIN obs}
      seenAt(e) == CHOOSE p \in DOMAIN obs : at[p] = e
  IN [e \in DOMAIN cat \cup placed |->
        IF e \in placed
          THEN [path |-> seenAt(e), sha |-> obs[seenAt(e)],
                state |-> IF e \in DOMAIN cat THEN StateAfter(cat[e], obs[seenAt(e)])
                                              ELSE "discovered"]
          ELSE [cat[e] EXCEPT !.state = "missing"]]

-----------------------------------------------------------------------------
(***************************************************************************)
(* What a reader of the catalog relies on, stated without the algorithm.   *)
(***************************************************************************)

PathsUnique(cat) ==
  \A d, e \in DOMAIN cat : cat[d].path = cat[e].path => d = e

\* The entries present are the files seen, one each, with their bytes.
Mirrors(cat, obs) ==
  /\ \A e \in DOMAIN cat : cat[e].state # "missing" =>
       cat[e].path \in DOMAIN obs /\ cat[e].sha = obs[cat[e].path]
  /\ \A p \in DOMAIN obs : \E e \in DOMAIN cat :
       cat[e].path = p /\ cat[e].state # "missing"

\* Entries are never dropped, one that is missing keeps the path and content
\* it was last seen with, and the result of earlier processing is kept exactly
\* where the bytes are the same.
KeepsHistory(old, new) ==
  \A e \in DOMAIN old :
    /\ e \in DOMAIN new
    /\ new[e].state = "missing" =>
         new[e].path = old[e].path /\ new[e].sha = old[e].sha
    /\ new[e].state # "missing" =>
         new[e].state = IF new[e].sha = old[e].sha /\ old[e].state # "missing"
                          THEN old[e].state ELSE "discovered"

\* No entry is created for bytes that an entry just lost at another path.
NoNeedlessEntry(old, new) ==
  \A e \in DOMAIN new \ DOMAIN old, d \in DOMAIN old :
    new[d].state = "missing" => new[d].sha # new[e].sha
=============================================================================
