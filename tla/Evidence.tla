------------------------------ MODULE Evidence ------------------------------
(***************************************************************************)
(* From ranked lists of chunks to the evidence of an answer, and from the  *)
(* markers in an answer to its citations: pure functions, translated from  *)
(* vectors/repository.py (_rrf_fuse), retrieval/service.py and             *)
(* generation/rag.py.                                                      *)
(*                                                                         *)
(* A chunk's text is its size in tokens.  An answer is the sequence of its *)
(* markers [E1], [E2], ..., each a positive number.                        *)
(***************************************************************************)
EXTENDS Naturals, FiniteSets, SequencesExt

CONSTANTS
  Chunks,      \* points of the vector collection
  ContentOf,   \* the content object of each chunk
  SizeOf,      \* the tokens of each chunk
  TopK,        \* hits a search returns at most
  Budget,      \* tokens of evidence a prompt may hold
  MaxContent,  \* blocks one content object may give
  MaxBlocks    \* blocks of evidence

ASSUME EvidenceAssumption ==
  /\ ContentOf \in [Chunks -> {ContentOf[c] : c \in Chunks}]
  /\ SizeOf \in [Chunks -> Nat]
  /\ {TopK, Budget, MaxContent, MaxBlocks} \subseteq Nat \ {0}

----------------------------------------------------------------------------
(* Folds where a recursive operator or SelectSeq would do: proofs can use them. *)

\* The keys of a dict that s was put into, in order.
FirstSeen(s) == FoldLeft(LAMBDA seen, x : IF Contains(seen, x) THEN seen ELSE Append(seen, x), <<>>, s)

\* The elements of s that are in S, in order.
Kept(s, S) == FoldLeft(LAMBDA kept, x : IF x \in S THEN Append(kept, x) ELSE kept, <<>>, s)

----------------------------------------------------------------------------
(* Reciprocal rank fusion of two rankings without repetition. *)

\* 1 / (60 + rank), over the common denominator of the ranks up to TopK.
Ranks == [r \in 1 .. TopK |-> r]
Weight(rank) == FoldLeft(LAMBDA w, r : IF r = rank THEN w ELSE w * (60 + r), 1, Ranks)

Score(vector, keyword, c) ==
  LET share(ranked) == IF Contains(ranked, c) THEN Weight(CHOOSE i \in DOMAIN ranked : ranked[i] = c) ELSE 0
  IN share(vector) + share(keyword)

\* Sorted by score, and stably: the order of first appearance breaks ties.
Fused(vector, keyword) ==
  LET seen == FirstSeen(vector \o keyword)
      before(i, j) == LET s(n) == Score(vector, keyword, seen[n])
                      IN s(i) > s(j) \/ (s(i) = s(j) /\ i < j)
      place(i) == Cardinality({j \in DOMAIN seen : before(j, i)}) + 1
      sorted == [p \in DOMAIN seen |-> seen[CHOOSE i \in DOMAIN seen : place(i) = p]]
  IN SubSeq(sorted, 1, IF Len(sorted) < TopK THEN Len(sorted) ELSE TopK)

----------------------------------------------------------------------------
(* Evidence blocks, in rank order under the caps. *)

Tokens(blocks) == FoldLeft(LAMBDA n, b : n + b.size, 0, blocks)
From(blocks, content) == Cardinality({i \in DOMAIN blocks : ContentOf[blocks[i].chunk] = content})

Block(c, size) == [chunk |-> c, size |-> size]

Full(blocks, c) ==
  Len(blocks) >= MaxBlocks \/ From(blocks, ContentOf[c]) >= MaxContent \/ SizeOf[c] = 0

\* Mutant: the scan stops at the first block that does not fit.
SelectUntil(hits) ==
  FoldLeft(LAMBDA acc, c :
             IF acc.over \/ Full(acc.blocks, c) THEN acc
             ELSE IF Tokens(acc.blocks) + SizeOf[c] <= Budget
               THEN [acc EXCEPT !.blocks = Append(@, Block(c, SizeOf[c]))]
             ELSE IF acc.blocks = <<>> THEN [acc EXCEPT !.blocks = <<Block(c, Budget)>>]
             ELSE [acc EXCEPT !.over = TRUE],
           [blocks |-> <<>>, over |-> FALSE], hits).blocks

\* A block that does not fit is skipped, but the first one is cut to the budget.
SelectEvidence(hits) ==
  FoldLeft(LAMBDA blocks, c :
             IF Full(blocks, c) THEN blocks
             ELSE IF Tokens(blocks) + SizeOf[c] <= Budget THEN Append(blocks, Block(c, SizeOf[c]))
             ELSE IF blocks = <<>> THEN <<Block(c, Budget)>>
             ELSE blocks,
           <<>>, hits)

----------------------------------------------------------------------------
(* Markers and citations. *)

Known(answer, n) == Kept(answer, 1 .. n)

\* The cited blocks, by first appearance.
Citations(answer, n) == FirstSeen(Known(answer, n))

\* Mutant: a marker keeps its own number.
OwnNumbers(answer, n) == Known(answer, n)

\* The answer with ordinals for markers; those the evidence does not have are removed.
Rewritten(answer, n) ==
  LET cited == Citations(answer, n)
  IN [i \in DOMAIN Known(answer, n) |-> CHOOSE o \in DOMAIN cited : cited[o] = Known(answer, n)[i]]

Warned(answer, n) == \E i \in DOMAIN answer : answer[i] > n
=============================================================================
