----------------------------- MODULE AskProofs -----------------------------
(***************************************************************************)
(* Theorems about Ask: what may be sent and what the result says of it;    *)
(* what the evidence is; what a stream looks like, and where the numbers   *)
(* in an answer point.                                                     *)
(*                                                                         *)
(* The first two do not depend on how hits are ranked, evidence is chosen  *)
(* or citations are numbered.  The others do: these are folds, and what a  *)
(* fold computes is proved along its stages, one for each element.         *)
(***************************************************************************)
EXTENDS Ask, FiniteSetTheorems, WellFoundedInduction, SequenceTheorems, TLAPS

-----------------------------------------------------------------------------
(***************************************************************************)
(* Consent and report.                                                     *)
(***************************************************************************)

Unsent == {"new", "opened", "filtered", "found", "selected", "prepared"}
Sending == {"calling", "generating"}

RequestInv == policy \in [Locs -> {"allow", "deny", "gone"}] /\ ask.acknowledged \in BOOLEAN

\* The service has passed the gates once it has begun.
GateInv == phase \in Unsent \ {"new"} /\ IsExternal => ask.gates = Gates

\* What is sent is the evidence, which is not empty.
WireInv ==
  /\ phase \in Unsent => wire = <<>>
  /\ phase \in Sending => wire = evidence
  /\ phase \in Sending \cup {"selected", "prepared"} => evidence # <<>>
  /\ phase \in Unsent \cup Sending => report = None

\* A location counts as denying only while it does, so those that allowed at the decision
\* are out of it for good.
DenyingInv == denying \subseteq {l \in Locs : policy[l] # "allow"}

Consent == ask.gates = Gates /\ ask.acknowledged /\ sources \cap denying = {}

ConsentInv == IsExternal /\ (phase = "prepared" \/ wire # <<>>) => Consent

Inv == RequestInv /\ GateInv /\ WireInv /\ DenyingInv /\ ConsentInv /\ ReportIsTrue

\* It holds of a question that has not been asked.
LEMMA InitInv == ASSUME Init PROVE Inv
<1>1. RequestInv /\ DenyingInv
  BY DEF Init, RequestInv, DenyingInv, Request
<1>2. GateInv /\ WireInv /\ ConsentInv
  BY DEF Init, GateInv, WireInv, ConsentInv, Unsent, Sending
<1>3. ReportIsTrue
  BY DEF Init, ReportIsTrue
<1> QED BY <1>1, <1>2, <1>3 DEF Inv

\* Up to the search nothing but the phase is decided.
LEMMA StartSteps ==
  ASSUME Inv, Select \/ Filter \/ Search
  PROVE  Inv'
<1> USE DEF Inv, RequestInv, GateInv, WireInv, DenyingInv, ConsentInv, Consent, ReportIsTrue, Unsent, Sending,
            Runs, IsExternal, world
<1>1. CASE Select
  BY <1>1 DEF Select
<1>2. CASE Filter
  BY <1>2 DEF Filter
<1>3. CASE Search
  BY <1>3 DEF Search, Crash
<1> QED BY <1>1, <1>2, <1>3

\* A result without the provider says that nothing was sent.
LEMMA EarlyReport ==
  ASSUME Inv, wire = <<>>, UNCHANGED <<ask, wire>>,
         NEW status, NEW acknowledged \in BOOLEAN, Early(status, acknowledged),
         IsExternal => acknowledged = ask.acknowledged
  PROVE  ReportIsTrue'
BY DEF Early, Result, ReportIsTrue, IsExternal

\* Asking for the policies keeps it.
LEMMA ResolveStep == ASSUME Inv, Resolve PROVE Inv'
<1>1. phase = "found" /\ wire = <<>> /\ report = None /\ wire' = wire /\ ask' = ask /\ policy' = policy
  BY DEF Resolve, Runs, Inv, WireInv, Unsent
<1>2. RequestInv' /\ DenyingInv'
  BY <1>1 DEF Resolve, Inv, RequestInv, DenyingInv
<1>3. \/ phase' = "answered" /\ Early("insufficient", ask.acknowledged)
      \/ phase' = "selected" /\ evidence' # <<>> /\ report' = report
  BY DEF Resolve, Early
<1>4. GateInv' /\ WireInv' /\ ConsentInv'
  BY <1>1, <1>3 DEF Inv, GateInv, WireInv, ConsentInv, Unsent, Sending, IsExternal
<1>5. ReportIsTrue'
  BY <1>1, <1>3, EarlyReport DEF ReportIsTrue, Inv, RequestInv
<1> QED BY <1>2, <1>4, <1>5 DEF Inv

\* The decision: no location the evidence was found in denies now.
LEMMA DecideStep == ASSUME Inv, Decide PROVE Inv'
<1>1. /\ phase = "selected" /\ wire = <<>> /\ report = None /\ evidence # <<>>
      /\ UNCHANGED <<wire, ask, policy, denying, sources, evidence>>
  BY DEF Decide, Runs, world, Inv, WireInv, Unsent
<1>2. RequestInv' /\ DenyingInv'
  BY <1>1 DEF Inv, RequestInv, DenyingInv
<1>3. \/ phase' = "failed" /\ report' = report
      \/ phase' = "answered" /\ ~ ask.acknowledged /\ Early("confirmation", FALSE)
      \/ phase' = "prepared" /\ report' = report
           /\ (IsExternal => ask.acknowledged /\ \A l \in sources : ~ Denies(l))
  BY DEF Decide, Early, Fail
<1>4. phase' = "prepared" /\ IsExternal => Consent'
  BY <1>1, <1>3 DEF Denies, Inv, GateInv, Unsent, DenyingInv, Consent
<1>5. GateInv' /\ WireInv' /\ ConsentInv'
  BY <1>1, <1>3, <1>4 DEF Inv, GateInv, WireInv, ConsentInv, Unsent, Sending, IsExternal
<1>6. ReportIsTrue'
  BY <1>1, <1>3, EarlyReport DEF ReportIsTrue, Inv, RequestInv
<1> QED BY <1>2, <1>5, <1>6 DEF Inv

\* The provider's steps keep it.
LEMMA ProviderSteps ==
  ASSUME Inv, Call \/ Begin \/ Fragment \/ Decline \/ Break \/ Deadline
  PROVE  Inv'
<1> USE DEF Inv, RequestInv, GateInv, WireInv, DenyingInv, ConsentInv, Consent, ReportIsTrue, Unsent, Sending,
            Runs, IsExternal, world, Fail, Crash
<1>1. CASE Call
  BY <1>1 DEF Call
<1>2. CASE Begin
  BY <1>2 DEF Begin
<1>3. CASE Fragment \/ Decline
  BY <1>3 DEF Fragment, Decline
<1>4. CASE Break
  BY <1>4 DEF Break
<1>5. CASE Deadline
  BY <1>5 DEF Deadline, Bounded
<1> QED BY <1>1, <1>2, <1>3, <1>4, <1>5

\* The final result: the provider was asked, and by consent if it is an external one.
LEMMA FinishStep == ASSUME Inv, Finish PROVE Inv'
<1>1. /\ phase = "generating" /\ phase' = "answered" /\ wire = evidence /\ evidence # <<>>
      /\ UNCHANGED <<wire, ask, policy, denying, sources, evidence>>
  BY DEF Finish, Runs, world, Inv, WireInv, Sending
<1>2. PICK status, finish : report' = Result(status, TRUE, IsExternal, IsExternal, finish)
  BY DEF Finish, Attempted
<1>3. ReportIsTrue'
  BY <1>1, <1>2 DEF Result, ReportIsTrue, Inv, RequestInv, ConsentInv, Consent, IsExternal
<1>4. RequestInv' /\ GateInv' /\ WireInv' /\ DenyingInv' /\ ConsentInv'
  BY <1>1 DEF Inv, RequestInv, GateInv, WireInv, DenyingInv, ConsentInv, Consent, Unsent, Sending, IsExternal
<1> QED BY <1>3, <1>4 DEF Inv

\* Frames, the client and the world.
LEMMA OtherSteps ==
  ASSUME Inv,
         \/ Write \/ Leave \/ Quiet \/ UNCHANGED vars
         \/ \E l \in Locs : Edit(l) \/ \E c \in Contents : Move(c, l)
  PROVE  Inv'
<1> USE DEF Inv, RequestInv, GateInv, WireInv, DenyingInv, ConsentInv, Consent, ReportIsTrue, Unsent, Sending,
            IsExternal, world, service
<1>1. CASE Write \/ Quiet \/ UNCHANGED vars
  BY <1>1 DEF Write, Quiet, vars
<1>2. CASE Leave
  BY <1>2 DEF Leave
<1>3. ASSUME NEW l \in Locs, Edit(l) PROVE Inv'
  BY <1>3 DEF Edit
<1>4. ASSUME NEW l \in Locs, NEW c \in Contents, Move(c, l) PROVE Inv'
  BY <1>4 DEF Move
<1> QED BY <1>1, <1>2, <1>3, <1>4

\* Every step keeps the invariant.
LEMMA StepInv == ASSUME Inv, [Next]_vars PROVE Inv'
BY StartSteps, ResolveStep, DecideStep, ProviderSteps, FinishStep, OtherSteps DEF Next, Serve, Provider

\* The inductive invariant holds in every reachable state of an ask, for all chunks,
\* locations, requests and bounds.
THEOREM InvHolds == Spec => []Inv
<1> QED BY InitInv, StepInv, PTL DEF Spec

\* Evidence goes to an external provider (generation/ask.py, _prepare) only through open
\* gates, with the client's acknowledgement, and with the leave of every location it was
\* found in, whatever locations and files do in between.
THEOREM ConsentHolds == Spec => []SentWithConsent
<1>1. Inv => SentWithConsent
  BY DEF Inv, ConsentInv, Consent, SentWithConsent
<1> QED BY <1>1, InvHolds, PTL

\* The data boundary a result reports (generation/ask.py, _finalize and the early results)
\* is what happened.
THEOREM ReportHolds == Spec => []ReportIsTrue
<1>1. Inv => ReportIsTrue
  BY DEF Inv
<1> QED BY <1>1, InvHolds, PTL

-----------------------------------------------------------------------------
(***************************************************************************)
(* Folds have stages.                                                      *)
(***************************************************************************)

\* Induction on the naturals, for sets.
LEMMA Induct ==
  ASSUME NEW T \in SUBSET Nat, 0 \in T, \A n \in T : n + 1 \in T
  PROVE  T = Nat
<1> SUFFICES ASSUME Nat \ T # {} PROVE FALSE
  OBVIOUS
<1>1. PICK x \in Nat \ T : \A y \in Nat \ T : ~ (<<y, x>> \in OpToRel(<, Nat))
  <2>1. Nat \ T \subseteq Nat
    OBVIOUS
  <2> QED BY <2>1, WFMin, NatLessThanWellFounded
<1>2. \A y \in Nat \ T : ~ (y < x)
  BY <1>1 DEF OpToRel
<1>3. x # 0 /\ x - 1 \in Nat /\ x - 1 < x
  OBVIOUS
<1>4. x - 1 \in T
  BY <1>2, <1>3
<1> QED BY <1>3, <1>4

\* The same from zero to a bound.
Inductive(T, n) == 0 \in T /\ \A i \in 0 .. (n - 1) : i \in T => i + 1 \in T

\* What holds at zero and passes from each index to the next holds at the bound.
LEMMA InductTo ==
  ASSUME NEW n \in Nat, NEW T, Inductive(T, n)
  PROVE  n \in T
<1> DEFINE U == {i \in Nat : i <= n => i \in T}
<1>1. U \in SUBSET Nat /\ 0 \in U /\ \A i \in U : i + 1 \in U
  BY DEF Inductive
<1> HIDE DEF U
<1>2. U = Nat
  BY <1>1, Induct
<1> QED BY <1>2 DEF U

\* Sets of the first indices have a greatest one.
LEMMA MaxOf ==
  ASSUME NEW n \in Nat, NEW s \in SUBSET (1 .. n), s # {}
  PROVE  Max(s) \in s /\ \A y \in s : Max(s) >= y
<1> DEFINE P(m) == \A t \in SUBSET (1 .. m) : t # {} => \E x \in t : \A y \in t : x >= y
           T == {m \in Nat : P(m)}
<1>1. P(0)
  <2>1. 1 .. 0 = {}
    OBVIOUS
  <2> QED BY <2>1
<1>2. ASSUME NEW m \in Nat, P(m) PROVE P(m + 1)
  <2> SUFFICES ASSUME NEW t \in SUBSET (1 .. (m + 1)), t # {}
               PROVE  \E x \in t : \A y \in t : x >= y
    OBVIOUS
  <2>1. CASE m + 1 \in t
    BY <2>1
  <2>2. CASE m + 1 \notin t
    <3>1. t \in SUBSET (1 .. m)
      BY <2>2
    <3> QED BY <1>2, <3>1
  <2> QED BY <2>1, <2>2
<1>3. P(n)
  <2> HIDE DEF P
  <2>1. T \in SUBSET Nat /\ 0 \in T /\ \A m \in T : m + 1 \in T
    BY <1>1, <1>2
  <2> HIDE DEF T
  <2>2. T = Nat
    BY <2>1, Induct
  <2> QED BY <2>2 DEF T
<1>4. \E x \in s : \A y \in s : x >= y
  BY <1>3
<1> QED BY <1>4 DEF Max

\* What a fold over n elements iterates, on sets of indices, when F takes a value and an
\* index; and its stages.
Iterates(g, V, b, n, F) ==
  /\ g \in [SUBSET (1 .. n) -> V]
  /\ \A s \in SUBSET (1 .. n) : g[s] = IF s = {} THEN b ELSE F[<<g[s \ {Max(s)}], Max(s)>>]

Follows(g, V, b, n, F) ==
  /\ g[{}] = b
  /\ \A s \in SUBSET (1 .. n) :
       s # {} /\ g[s \ {Max(s)}] \in V => g[s] = F[<<g[s \ {Max(s)}], Max(s)>>]

Stages(h, g, V, b, n, F) ==
  /\ h \in [0 .. n -> V] /\ h[0] = b /\ h[n] = g[1 .. n]
  /\ \A i \in 0 .. (n - 1) : h[i + 1] = F[<<h[i], i + 1>>]

\* Such an iteration is defined.
LEMMA FoldsExist ==
  ASSUME NEW V, NEW b \in V, NEW n \in Nat, NEW F \in [V \X (1 .. n) -> V]
  PROVE  \E g : Iterates(g, V, b, n, F)
<1> DEFINE Good(g, m) == \A s \in SUBSET (1 .. m) :
                           g[s] = IF s = {} THEN b ELSE F[<<g[s \ {Max(s)}], Max(s)>>]
           P(m) == m <= n => \E g \in [SUBSET (1 .. m) -> V] : Good(g, m)
           T == {m \in Nat : P(m)}
<1>1. P(0)
  <2>1. 1 .. 0 = {}
    OBVIOUS
  <2> DEFINE g == [s \in SUBSET (1 .. 0) |-> b]
  <2>2. g \in [SUBSET (1 .. 0) -> V]
    OBVIOUS
  <2>3. Good(g, 0)
    BY <2>1
  <2> QED BY <2>2, <2>3
<1>2. ASSUME NEW m \in Nat, P(m) PROVE P(m + 1)
  <2> SUFFICES ASSUME m + 1 <= n
               PROVE  \E g \in [SUBSET (1 .. (m + 1)) -> V] : Good(g, m + 1)
    OBVIOUS
  <2>0. m <= n
    OBVIOUS
  <2>1. PICK g \in [SUBSET (1 .. m) -> V] : Good(g, m)
    BY <1>2, <2>0
  <2> DEFINE f == [s \in SUBSET (1 .. (m + 1)) |->
                     IF m + 1 \in s THEN F[<<g[s \ {m + 1}], m + 1>>] ELSE g[s]]
  <2>2. m \in Nat /\ m + 1 \in 1 .. n
    OBVIOUS
  <2>3. ASSUME NEW s \in SUBSET (1 .. (m + 1)) PROVE s \ {m + 1} \in SUBSET (1 .. m)
    BY <2>2
  <2>4. f \in [SUBSET (1 .. (m + 1)) -> V]
    BY <2>2, <2>3
  <2>5. ASSUME NEW s \in SUBSET (1 .. m) PROVE s \in SUBSET (1 .. (m + 1)) /\ f[s] = g[s]
    <3>1. s \in SUBSET (1 .. (m + 1)) /\ m + 1 \notin s
      BY <2>2
    <3> QED BY <3>1
  <2>6. ASSUME NEW s \in SUBSET (1 .. (m + 1)), m + 1 \in s
        PROVE  f[s] = F[<<f[s \ {Max(s)}], Max(s)>>]
    <3>0. m + 1 \in Nat
      BY <2>2
    <3>1. Max(s) \in s /\ Max(s) >= m + 1
      BY <2>6, <3>0, MaxOf
    <3>2. Max(s) = m + 1
      <4>1. Max(s) \in 1 .. (m + 1)
        BY <3>1
      <4> HIDE DEF f, Good
      <4> QED BY <3>1, <4>1
    <3>3. f[s] = F[<<g[s \ {m + 1}], m + 1>>]
      BY <2>6
    <3> QED BY <2>3, <2>5, <3>2, <3>3
  <2>7. ASSUME NEW s \in SUBSET (1 .. (m + 1)), m + 1 \notin s, s # {}
        PROVE  f[s] = F[<<f[s \ {Max(s)}], Max(s)>>]
    <3>1. s \in SUBSET (1 .. m) /\ s \ {Max(s)} \in SUBSET (1 .. m)
      BY <2>3, <2>7
    <3>2. f[s] = g[s] /\ f[s \ {Max(s)}] = g[s \ {Max(s)}]
      BY <2>5, <3>1
    <3> QED BY <2>1, <2>7, <3>1, <3>2
  <2>8. f[{}] = b
    BY <2>1, <2>5
  <2>9. Good(f, m + 1)
    BY <2>6, <2>7, <2>8
  <2> QED BY <2>4, <2>9
<1>3. P(n)
  <2> HIDE DEF P
  <2>1. T \in SUBSET Nat /\ 0 \in T /\ \A m \in T : m + 1 \in T
    BY <1>1, <1>2
  <2> HIDE DEF T
  <2>2. T = Nat
    BY <2>1, Induct
  <2> QED BY <2>2 DEF T
<1>4. \E g \in [SUBSET (1 .. n) -> V] : Good(g, n)
  <2>1. n <= n
    OBVIOUS
  <2> QED BY <1>3, <2>1, Zenon
<1> QED BY <1>4 DEF Iterates

\* Its values on the first indices are the stages of the fold.
LEMMA FoldStages ==
  ASSUME NEW V, NEW b \in V, NEW n \in Nat, NEW F \in [V \X (1 .. n) -> V], NEW g,
         Follows(g, V, b, n, F)
  PROVE  \E h : Stages(h, g, V, b, n, F)
<1> USE DEF Follows
<1>1. ASSUME NEW i \in 0 .. (n - 1)
      PROVE  Max(1 .. (i + 1)) = i + 1 /\ (1 .. (i + 1)) \ {Max(1 .. (i + 1))} = 1 .. i
  <2>1. i + 1 \in Nat /\ i + 1 \in 1 .. (i + 1)
    OBVIOUS
  <2> DEFINE I == 1 .. (i + 1)
  <2>2. Max(I) \in I /\ Max(I) >= i + 1
    <3>1. I # {} /\ I \in SUBSET I
      BY <2>1
    <3>2. \A t \in SUBSET I : t # {} => Max(t) \in t /\ \A y \in t : Max(t) >= y
      BY <2>1, MaxOf
    <3> QED BY <2>1, <3>1, <3>2
  <2>3. Max(1 .. (i + 1)) = i + 1
    BY <2>2
  <2>4. (1 .. (i + 1)) \ {i + 1} = 1 .. i
    OBVIOUS
  <2> QED BY <2>3, <2>4
<1>2. \A i \in 0 .. (n - 1) : g[1 .. i] \in V => g[1 .. (i + 1)] = F[<<g[1 .. i], i + 1>>]
  <2>1. \A i \in 0 .. (n - 1) : 1 .. (i + 1) \in SUBSET (1 .. n) /\ i + 1 \in 1 .. (i + 1)
    OBVIOUS
  <2> QED BY <1>1, <2>1
<1> DEFINE T == {i \in Nat : i <= n => g[1 .. i] \in V}
<1>3. 0 \in T
  <2>1. 1 .. 0 = {}
    OBVIOUS
  <2> QED BY <2>1
<1>4. ASSUME NEW i \in T PROVE i + 1 \in T
  <2> SUFFICES ASSUME i + 1 <= n PROVE g[1 .. (i + 1)] \in V
    OBVIOUS
  <2>1. i \in 0 .. (n - 1) /\ g[1 .. i] \in V /\ i + 1 \in 1 .. n
    OBVIOUS
  <2> QED BY <1>2, <2>1
<1>5. T = Nat
  <2> HIDE DEF T
  <2>1. T \in SUBSET Nat
    BY DEF T
  <2> QED BY <1>3, <1>4, <2>1, Induct
<1> DEFINE h == [i \in 0 .. n |-> g[1 .. i]]
<1>6. h \in [0 .. n -> V]
  BY <1>5
<1>7. h[0] = b /\ h[n] = g[1 .. n]
  <2>1. 1 .. 0 = {} /\ 0 \in 0 .. n /\ n \in 0 .. n
    OBVIOUS
  <2> QED BY <2>1
<1>8. \A i \in 0 .. (n - 1) : h[i + 1] = F[<<h[i], i + 1>>]
  <2>1. \A i \in 0 .. (n - 1) : i \in 0 .. n /\ i + 1 \in 0 .. n /\ g[1 .. i] \in V
    BY <1>5
  <2> QED BY <1>2, <2>1
<1> HIDE DEF h
<1> QED BY <1>6, <1>7, <1>8 DEF Stages

\* One step of each fold.
Seen(seen, x) == IF Contains(seen, x) THEN seen ELSE Append(seen, x)
Keep(kept, x, K) == IF x \in K THEN Append(kept, x) ELSE kept
Factor(w, r, rank) == IF r = rank THEN w ELSE w * (60 + r)
Take(blocks, c) ==
  IF Full(blocks, c) THEN blocks
  ELSE IF Tokens(blocks) + SizeOf[c] <= Budget THEN Append(blocks, Block(c, SizeOf[c]))
  ELSE IF blocks = <<>> THEN <<Block(c, Budget)>>
  ELSE blocks
Blocks == [chunk : Chunks, size : Nat]

\* Evidence consists of blocks.
LEMMA TakeType ==
  ASSUME NEW blocks \in Seq(Blocks), NEW c \in Chunks
  PROVE  Take(blocks, c) \in Seq(Blocks)
<1>1. Block(c, SizeOf[c]) \in Blocks /\ Block(c, Budget) \in Blocks
  BY EvidenceAssumption DEF Block, Blocks
<1> QED BY <1>1 DEF Take

Added(h, s) ==
  /\ h \in [0 .. Len(s) -> Nat]
  /\ h[0] = 0 /\ h[Len(s)] = Tokens(s)
  /\ \A i \in 0 .. (Len(s) - 1) : h[i + 1] = h[i] + s[i + 1].size

\* The tokens of blocks are added up from the first to the last.
LEMMA TokensStages ==
  ASSUME NEW s, DOMAIN s = 1 .. Len(s), Len(s) \in Nat, \A i \in DOMAIN s : s[i].size \in Nat
  PROVE  \E h : Added(h, s)
<1> DEFINE n == Len(s)
           F == [p \in Nat \X (1 .. n) |-> p[1] + s[p[2]].size]
           iterates(g) == g = [t \in SUBSET DOMAIN s |->
                                IF t = {} THEN 0 ELSE g[t \ {Max(t)}] + s[Max(t)].size]
           it == CHOOSE g : iterates(g)
<1>0. DOMAIN s = 1 .. n
  OBVIOUS
<1>1. n \in Nat /\ 0 \in Nat /\ F \in [Nat \X (1 .. n) -> Nat]
  OBVIOUS
<1>2. \A t \in SUBSET (1 .. n) : t # {} => Max(t) \in 1 .. n
  BY <1>1, MaxOf
<1>3. \A t \in SUBSET (1 .. n), v \in Nat : t # {} => F[<<v, Max(t)>>] = v + s[Max(t)].size
  BY <1>2
<1>4. iterates(it)
  <2>1. PICK g : Iterates(g, Nat, 0, n, F)
    <3> HIDE DEF F, n
    <3> QED BY <1>1, FoldsExist
  <2>2. iterates(g)
    <3> HIDE DEF F, n
    <3> QED BY <1>0, <1>3, <2>1 DEF Iterates
  <2> QED BY <2>2
<1>5. Tokens(s) = it[DOMAIN s]
  BY DEF Tokens, FoldLeft, MapThenFoldSet
<1>6. it[{}] = 0 /\ \A t \in SUBSET (1 .. n) : t # {} => it[t] = it[t \ {Max(t)}] + s[Max(t)].size
  BY <1>0, <1>4
<1>7. PICK h : Stages(h, it, Nat, 0, n, F)
  <2> HIDE DEF F, n, it
  <2>1. Follows(it, Nat, 0, n, F)
    BY <1>3, <1>6 DEF Follows
  <2> QED BY <1>1, <2>1, FoldStages
<1>8. h \in [0 .. n -> Nat] /\ h[0] = 0 /\ h[n] = Tokens(s)
  BY <1>0, <1>5, <1>7 DEF Stages
<1>9. ASSUME NEW i \in 0 .. (n - 1) PROVE h[i + 1] = h[i] + s[i + 1].size
  <2>1. h[i + 1] = F[<<h[i], i + 1>>]
    <3> HIDE DEF F, n
    <3> QED BY <1>7 DEF Stages
  <2>2. h[i] \in Nat /\ i + 1 \in 1 .. n
    BY <1>1, <1>8
  <2> QED BY <2>1, <2>2
<1> QED BY <1>8, <1>9 DEF Added

Gathered(h, S, s) ==
  /\ h \in [0 .. Len(s) -> Seq(S)]
  /\ h[0] = <<>> /\ h[Len(s)] = FirstSeen(s)
  /\ \A i \in 0 .. (Len(s) - 1) : h[i + 1] = Seen(h[i], s[i + 1])

\* What was seen first is gathered from the first element to the last.
LEMMA SeenStages ==
  ASSUME NEW S, NEW s \in Seq(S)
  PROVE  \E h : Gathered(h, S, s)
<1> DEFINE n == Len(s)
           F == [p \in Seq(S) \X (1 .. n) |-> Seen(p[1], s[p[2]])]
           iterates(g) == g = [t \in SUBSET DOMAIN s |->
                                IF t = {} THEN <<>> ELSE Seen(g[t \ {Max(t)}], s[Max(t)])]
           it == CHOOSE g : iterates(g)
<1>0. DOMAIN s = 1 .. n
  OBVIOUS
<1>1. n \in Nat /\ <<>> \in Seq(S) /\ F \in [Seq(S) \X (1 .. n) -> Seq(S)]
  BY DEF Seen
<1>2. \A t \in SUBSET (1 .. n) : t # {} => Max(t) \in 1 .. n
  BY <1>1, MaxOf
<1>3. \A t \in SUBSET (1 .. n), v \in Seq(S) : t # {} => F[<<v, Max(t)>>] = Seen(v, s[Max(t)])
  BY <1>2
<1>4. iterates(it)
  <2>1. PICK g : Iterates(g, Seq(S), <<>>, n, F)
    <3> HIDE DEF F, n
    <3> QED BY <1>1, FoldsExist
  <2>2. iterates(g)
    <3> HIDE DEF F, n
    <3> QED BY <1>0, <1>3, <2>1 DEF Iterates
  <2> QED BY <2>2
<1>5. FirstSeen(s) = it[DOMAIN s]
  BY DEF FirstSeen, FoldLeft, MapThenFoldSet, Seen
<1>6. it[{}] = <<>> /\ \A t \in SUBSET (1 .. n) : t # {} => it[t] = Seen(it[t \ {Max(t)}], s[Max(t)])
  BY <1>0, <1>4
<1>7. PICK h : Stages(h, it, Seq(S), <<>>, n, F)
  <2> HIDE DEF F, n, it
  <2>1. Follows(it, Seq(S), <<>>, n, F)
    BY <1>3, <1>6 DEF Follows
  <2> QED BY <1>1, <2>1, FoldStages
<1>8. h \in [0 .. n -> Seq(S)] /\ h[0] = <<>> /\ h[n] = FirstSeen(s)
  BY <1>0, <1>5, <1>7 DEF Stages
<1>9. ASSUME NEW i \in 0 .. (n - 1) PROVE h[i + 1] = Seen(h[i], s[i + 1])
  <2>1. h[i + 1] = F[<<h[i], i + 1>>]
    <3> HIDE DEF F, n
    <3> QED BY <1>7 DEF Stages
  <2>2. h[i] \in Seq(S) /\ i + 1 \in 1 .. n
    BY <1>1, <1>8
  <2> QED BY <2>1, <2>2
<1> QED BY <1>8, <1>9 DEF Gathered

Sifted(h, S, s, K) ==
  /\ h \in [0 .. Len(s) -> Seq(S)]
  /\ h[0] = <<>> /\ h[Len(s)] = Kept(s, K)
  /\ \A i \in 0 .. (Len(s) - 1) : h[i + 1] = Keep(h[i], s[i + 1], K)

\* So is what is kept.
LEMMA KeptStages ==
  ASSUME NEW S, NEW s \in Seq(S), NEW K
  PROVE  \E h : Sifted(h, S, s, K)
<1> DEFINE n == Len(s)
           F == [p \in Seq(S) \X (1 .. n) |-> Keep(p[1], s[p[2]], K)]
           iterates(g) == g = [t \in SUBSET DOMAIN s |->
                                IF t = {} THEN <<>> ELSE Keep(g[t \ {Max(t)}], s[Max(t)], K)]
           it == CHOOSE g : iterates(g)
<1>0. DOMAIN s = 1 .. n
  OBVIOUS
<1>1. n \in Nat /\ <<>> \in Seq(S) /\ F \in [Seq(S) \X (1 .. n) -> Seq(S)]
  BY DEF Keep
<1>2. \A t \in SUBSET (1 .. n) : t # {} => Max(t) \in 1 .. n
  BY <1>1, MaxOf
<1>3. \A t \in SUBSET (1 .. n), v \in Seq(S) : t # {} => F[<<v, Max(t)>>] = Keep(v, s[Max(t)], K)
  BY <1>2
<1>4. iterates(it)
  <2>1. PICK g : Iterates(g, Seq(S), <<>>, n, F)
    <3> HIDE DEF F, n
    <3> QED BY <1>1, FoldsExist
  <2>2. iterates(g)
    <3> HIDE DEF F, n
    <3> QED BY <1>0, <1>3, <2>1 DEF Iterates
  <2> QED BY <2>2
<1>5. Kept(s, K) = it[DOMAIN s]
  BY DEF Kept, FoldLeft, MapThenFoldSet, Keep
<1>6. it[{}] = <<>> /\ \A t \in SUBSET (1 .. n) : t # {} => it[t] = Keep(it[t \ {Max(t)}], s[Max(t)], K)
  BY <1>0, <1>4
<1>7. PICK h : Stages(h, it, Seq(S), <<>>, n, F)
  <2> HIDE DEF F, n, it
  <2>1. Follows(it, Seq(S), <<>>, n, F)
    BY <1>3, <1>6 DEF Follows
  <2> QED BY <1>1, <2>1, FoldStages
<1>8. h \in [0 .. n -> Seq(S)] /\ h[0] = <<>> /\ h[n] = Kept(s, K)
  BY <1>0, <1>5, <1>7 DEF Stages
<1>9. ASSUME NEW i \in 0 .. (n - 1) PROVE h[i + 1] = Keep(h[i], s[i + 1], K)
  <2>1. h[i + 1] = F[<<h[i], i + 1>>]
    <3> HIDE DEF F, n
    <3> QED BY <1>7 DEF Stages
  <2>2. h[i] \in Seq(S) /\ i + 1 \in 1 .. n
    BY <1>1, <1>8
  <2> QED BY <2>1, <2>2
<1> QED BY <1>8, <1>9 DEF Sifted

Chosen(h, s) ==
  /\ h \in [0 .. Len(s) -> Seq(Blocks)]
  /\ h[0] = <<>> /\ h[Len(s)] = SelectEvidence(s)
  /\ \A i \in 0 .. (Len(s) - 1) : h[i + 1] = Take(h[i], s[i + 1])

\* And the evidence.
LEMMA EvidenceStages ==
  ASSUME NEW s \in Seq(Chunks)
  PROVE  \E h : Chosen(h, s)
<1> DEFINE n == Len(s)
           F == [p \in Seq(Blocks) \X (1 .. n) |-> Take(p[1], s[p[2]])]
           iterates(g) == g = [t \in SUBSET DOMAIN s |->
                                IF t = {} THEN <<>> ELSE Take(g[t \ {Max(t)}], s[Max(t)])]
           it == CHOOSE g : iterates(g)
<1>0. DOMAIN s = 1 .. n
  OBVIOUS
<1>1. n \in Nat /\ <<>> \in Seq(Blocks) /\ F \in [Seq(Blocks) \X (1 .. n) -> Seq(Blocks)]
  <2>1. \A v \in Seq(Blocks), i \in 1 .. n : Take(v, s[i]) \in Seq(Blocks)
    BY TakeType
  <2> QED BY <2>1
<1>2. \A t \in SUBSET (1 .. n) : t # {} => Max(t) \in 1 .. n
  BY <1>1, MaxOf
<1>3. \A t \in SUBSET (1 .. n), v \in Seq(Blocks) : t # {} => F[<<v, Max(t)>>] = Take(v, s[Max(t)])
  BY <1>2
<1>4. iterates(it)
  <2>1. PICK g : Iterates(g, Seq(Blocks), <<>>, n, F)
    <3> HIDE DEF F, n
    <3> QED BY <1>1, FoldsExist
  <2>2. iterates(g)
    <3> HIDE DEF F, n
    <3> QED BY <1>0, <1>3, <2>1 DEF Iterates
  <2> QED BY <2>2
<1>5. SelectEvidence(s) = it[DOMAIN s]
  BY DEF SelectEvidence, FoldLeft, MapThenFoldSet, Take
<1>6. it[{}] = <<>> /\ \A t \in SUBSET (1 .. n) : t # {} => it[t] = Take(it[t \ {Max(t)}], s[Max(t)])
  BY <1>0, <1>4
<1>7. PICK h : Stages(h, it, Seq(Blocks), <<>>, n, F)
  <2> HIDE DEF F, n, it
  <2>1. Follows(it, Seq(Blocks), <<>>, n, F)
    BY <1>3, <1>6 DEF Follows
  <2> QED BY <1>1, <2>1, FoldStages
<1>8. h \in [0 .. n -> Seq(Blocks)] /\ h[0] = <<>> /\ h[n] = SelectEvidence(s)
  BY <1>0, <1>5, <1>7 DEF Stages
<1>9. ASSUME NEW i \in 0 .. (n - 1) PROVE h[i + 1] = Take(h[i], s[i + 1])
  <2>1. h[i + 1] = F[<<h[i], i + 1>>]
    <3> HIDE DEF F, n
    <3> QED BY <1>7 DEF Stages
  <2>2. h[i] \in Seq(Blocks) /\ i + 1 \in 1 .. n
    BY <1>1, <1>8
  <2> QED BY <2>1, <2>2
<1> QED BY <1>8, <1>9 DEF Chosen

Multiplied(h, rank) ==
  /\ h \in [0 .. Len(Ranks) -> Nat]
  /\ h[0] = 1 /\ h[Len(Ranks)] = Weight(rank)
  /\ \A i \in 0 .. (Len(Ranks) - 1) : h[i + 1] = Factor(h[i], Ranks[i + 1], rank)

\* Weights are products.
LEMMA WeightStages ==
  ASSUME NEW rank, Ranks \in Seq(Nat)
  PROVE  \E h : Multiplied(h, rank)
<1> DEFINE n == Len(Ranks)
           F == [p \in Nat \X (1 .. n) |-> Factor(p[1], Ranks[p[2]], rank)]
           iterates(g) == g = [t \in SUBSET DOMAIN Ranks |->
                                IF t = {} THEN 1 ELSE Factor(g[t \ {Max(t)}], Ranks[Max(t)], rank)]
           it == CHOOSE g : iterates(g)
<1>0. DOMAIN Ranks = 1 .. n
  OBVIOUS
<1>1. n \in Nat /\ 1 \in Nat /\ F \in [Nat \X (1 .. n) -> Nat]
  BY DEF Factor
<1>2. \A t \in SUBSET (1 .. n) : t # {} => Max(t) \in 1 .. n
  BY <1>1, MaxOf
<1>3. \A t \in SUBSET (1 .. n), v \in Nat : t # {} => F[<<v, Max(t)>>] = Factor(v, Ranks[Max(t)], rank)
  BY <1>2
<1>4. iterates(it)
  <2>1. PICK g : Iterates(g, Nat, 1, n, F)
    <3> HIDE DEF F, n
    <3> QED BY <1>1, FoldsExist
  <2>2. iterates(g)
    <3> HIDE DEF F, n
    <3> QED BY <1>0, <1>3, <2>1 DEF Iterates
  <2> QED BY <2>2
<1>5. Weight(rank) = it[DOMAIN Ranks]
  BY DEF Weight, FoldLeft, MapThenFoldSet, Factor
<1>6. it[{}] = 1 /\ \A t \in SUBSET (1 .. n) : t # {} => it[t] = Factor(it[t \ {Max(t)}], Ranks[Max(t)], rank)
  BY <1>0, <1>4
<1>7. PICK h : Stages(h, it, Nat, 1, n, F)
  <2> HIDE DEF F, n, it
  <2>1. Follows(it, Nat, 1, n, F)
    BY <1>3, <1>6 DEF Follows
  <2> QED BY <1>1, <2>1, FoldStages
<1>8. h \in [0 .. n -> Nat] /\ h[0] = 1 /\ h[n] = Weight(rank)
  BY <1>0, <1>5, <1>7 DEF Stages
<1>9. ASSUME NEW i \in 0 .. (n - 1) PROVE h[i + 1] = Factor(h[i], Ranks[i + 1], rank)
  <2>1. h[i + 1] = F[<<h[i], i + 1>>]
    <3> HIDE DEF F, n
    <3> QED BY <1>7 DEF Stages
  <2>2. h[i] \in Nat /\ i + 1 \in 1 .. n
    BY <1>1, <1>8
  <2> QED BY <2>1, <2>2
<1> QED BY <1>8, <1>9 DEF Multiplied

\* The weight of a rank is a number.
LEMMA WeightIsNat == ASSUME NEW rank PROVE Weight(rank) \in Nat
<1>1. TopK \in Nat
  BY EvidenceAssumption
<1>2. Ranks \in Seq(Nat)
  BY <1>1 DEF Ranks
<1>3. Len(Ranks) \in Nat
  BY <1>2
<1>4. PICK h : Multiplied(h, rank)
  BY <1>2, WeightStages
<1> QED BY <1>3, <1>4 DEF Multiplied

-----------------------------------------------------------------------------
(***************************************************************************)
(* What the folds compute.                                                 *)
(***************************************************************************)

\* What was first seen: each element once.
LEMMA SeenOnce ==
  ASSUME NEW S, NEW s \in Seq(S)
  PROVE  /\ FirstSeen(s) \in Seq(S)
         /\ \A i, j \in DOMAIN FirstSeen(s) : FirstSeen(s)[i] = FirstSeen(s)[j] => i = j
         /\ \A i \in DOMAIN s : \E j \in DOMAIN FirstSeen(s) : FirstSeen(s)[j] = s[i]
<1>1. PICK h : Gathered(h, S, s)
  BY SeenStages
<1>2. /\ h \in [0 .. Len(s) -> Seq(S)] /\ h[0] = <<>> /\ h[Len(s)] = FirstSeen(s)
      /\ \A i \in 0 .. (Len(s) - 1) : h[i + 1] = Seen(h[i], s[i + 1])
  BY <1>1 DEF Gathered
<1> DEFINE P(m) == /\ \A i, j \in DOMAIN h[m] : h[m][i] = h[m][j] => i = j
                   /\ \A i \in 1 .. m : \E j \in DOMAIN h[m] : h[m][j] = s[i]
           T == {m \in 0 .. Len(s) : P(m)}
<1>3. P(0)
  BY <1>2
<1>4. ASSUME NEW m \in 0 .. (Len(s) - 1), P(m) PROVE P(m + 1)
  <2>1. /\ h[m] \in Seq(S) /\ h[m + 1] = Seen(h[m], s[m + 1]) /\ s[m + 1] \in S
        /\ m \in Nat /\ 1 .. (m + 1) = (1 .. m) \cup {m + 1}
    BY <1>2
  <2>2. CASE Contains(h[m], s[m + 1])
    <3>1. h[m + 1] = h[m]
      BY <2>1, <2>2 DEF Seen
    <3>2. \E j \in DOMAIN h[m] : h[m][j] = s[m + 1]
      BY <2>1, <2>2 DEF Contains
    <3> QED BY <1>4, <2>1, <3>1, <3>2
  <2>3. CASE ~ Contains(h[m], s[m + 1])
    <3>1. h[m + 1] = Append(h[m], s[m + 1])
      BY <2>1, <2>3 DEF Seen
    <3>2. \A j \in DOMAIN h[m] : h[m][j] # s[m + 1]
      BY <2>1, <2>3 DEF Contains
    <3>3. /\ DOMAIN h[m + 1] = DOMAIN h[m] \cup {Len(h[m]) + 1}
          /\ \A j \in DOMAIN h[m] : h[m + 1][j] = h[m][j]
          /\ h[m + 1][Len(h[m]) + 1] = s[m + 1]
      BY <2>1, <3>1
    <3> QED BY <1>4, <2>1, <3>2, <3>3
  <2> QED BY <2>2, <2>3
<1>5. P(Len(s))
  <2>1. Len(s) \in Nat
    OBVIOUS
  <2> HIDE DEF P
  <2>2. Inductive(T, Len(s))
    BY <1>3, <1>4, <2>1 DEF Inductive
  <2> HIDE DEF T
  <2>3. Len(s) \in T
    BY <2>1, <2>2, InductTo
  <2> QED BY <2>3 DEF T
<1>6. h[Len(s)] \in Seq(S) /\ DOMAIN s = 1 .. Len(s)
  BY <1>2
<1> QED BY <1>2, <1>5, <1>6

\* What is kept: the elements in question.
LEMMA KeptIn ==
  ASSUME NEW S, NEW s \in Seq(S), NEW K
  PROVE  Kept(s, K) \in Seq(S \cap K)
<1>1. PICK h : Sifted(h, S, s, K)
  BY KeptStages
<1>2. /\ h \in [0 .. Len(s) -> Seq(S)] /\ h[0] = <<>> /\ h[Len(s)] = Kept(s, K)
      /\ \A i \in 0 .. (Len(s) - 1) : h[i + 1] = Keep(h[i], s[i + 1], K)
  BY <1>1 DEF Sifted
<1> DEFINE T == {m \in 0 .. Len(s) : h[m] \in Seq(S \cap K)}
<1>3. Len(s) \in Nat /\ 0 \in T
  BY <1>2
<1>4. ASSUME NEW m \in 0 .. (Len(s) - 1), m \in T PROVE m + 1 \in T
  <2>1. h[m] \in Seq(S \cap K) /\ h[m + 1] = Keep(h[m], s[m + 1], K) /\ m + 1 \in 0 .. Len(s)
    BY <1>2, <1>4
  <2>2. s[m + 1] \in S
    BY <1>3
  <2>3. s[m + 1] \in K => Append(h[m], s[m + 1]) \in Seq(S \cap K)
    BY <2>1, <2>2, AppendProperties
  <2> QED BY <2>1, <2>3 DEF Keep
<1> HIDE DEF T
<1>5. Len(s) \in T
  <2>1. Inductive(T, Len(s))
    BY <1>3, <1>4 DEF Inductive
  <2> QED BY <1>3, <2>1, InductTo
<1> QED BY <1>2, <1>5 DEF T

\* What stands together is kept together.
LEMMA KeptBetween ==
  ASSUME NEW S, NEW s \in Seq(S), NEW K, NEW k \in Nat, NEW q \in Seq(S),
         k + Len(q) <= Len(s),
         \A j \in 1 .. Len(q) : s[k + j] = q[j] /\ q[j] \in K,
         \A i \in 1 .. Len(s) : i <= k \/ i > k + Len(q) => s[i] \notin K
  PROVE  Kept(s, K) = q
<1>1. PICK h : Sifted(h, S, s, K)
  BY KeptStages
<1>2. /\ h \in [0 .. Len(s) -> Seq(S)] /\ h[0] = <<>> /\ h[Len(s)] = Kept(s, K)
      /\ \A i \in 0 .. (Len(s) - 1) : h[i + 1] = Keep(h[i], s[i + 1], K)
  BY <1>1 DEF Sifted
<1>3. Len(s) \in Nat /\ Len(q) \in Nat
  OBVIOUS
<1> DEFINE P(m) == /\ m <= k => h[m] = <<>>
                   /\ k <= m /\ m <= k + Len(q) =>
                        Len(h[m]) = m - k /\ \A j \in 1 .. (m - k) : h[m][j] = q[j]
                   /\ k + Len(q) <= m => h[m] = q
           T == {m \in 0 .. Len(s) : P(m)}
<1>4. ASSUME NEW m \in 0 .. Len(s), k <= m, m <= k + Len(q), Len(h[m]) = m - k,
             \A j \in 1 .. (m - k) : h[m][j] = q[j]
      PROVE  P(m)
  <2>1. h[m] \in Seq(S)
    BY <1>2
  <2>2. m <= k => h[m] = <<>>
    <3>1. m <= k => Len(h[m]) = 0
      BY <1>3, <1>4
    <3> QED BY <2>1, <3>1, EmptySeq
  <2>3. k + Len(q) <= m => h[m] = q
    <3>1. k + Len(q) <= m => m - k = Len(q)
      BY <1>3, <1>4
    <3> QED BY <1>4, <2>1, <3>1, SeqEqual
  <2> QED BY <1>4, <2>2, <2>3
<1>5. P(0)
  <2>1. CASE k = 0
    <3>1. Len(h[0]) = 0 - k /\ 1 .. (0 - k) = {} /\ 0 \in 0 .. Len(s) /\ 0 <= k + Len(q)
      BY <1>2, <1>3, <2>1
    <3> QED BY <1>4, <2>1, <3>1
  <2>2. CASE k # 0
    BY <1>2, <1>3, <2>2
  <2> QED BY <2>1, <2>2
<1>6. ASSUME NEW m \in 0 .. (Len(s) - 1), P(m) PROVE P(m + 1)
  <2>1. m \in Nat /\ m \in 0 .. Len(s) /\ m + 1 \in 1 .. Len(s) /\ m + 1 \in 0 .. Len(s)
    BY <1>3
  <2>2. h[m] \in Seq(S) /\ h[m + 1] = Keep(h[m], s[m + 1], K) /\ s[m + 1] \in S
    BY <1>2, <2>1, ElementOfSeq
  <2>3. CASE m + 1 <= k
    <3>1. h[m] = <<>> /\ s[m + 1] \notin K
      BY <1>6, <2>1, <2>3
    <3>2. h[m + 1] = <<>>
      BY <2>2, <3>1 DEF Keep
    <3>3. CASE m + 1 < k
      BY <1>3, <2>1, <3>2, <3>3
    <3>4. CASE m + 1 = k
      <4>1. Len(h[m + 1]) = (m + 1) - k /\ 1 .. ((m + 1) - k) = {}
        BY <2>1, <3>2, <3>4
      <4> QED BY <1>3, <1>4, <2>1, <3>4, <4>1
    <3> QED BY <2>1, <2>3, <3>3, <3>4
  <2>4. CASE k <= m /\ m < k + Len(q)
    <3>1. Len(h[m]) = m - k /\ \A j \in 1 .. (m - k) : h[m][j] = q[j]
      BY <1>3, <1>6, <2>1, <2>4
    <3>2. (m + 1) - k \in 1 .. Len(q) /\ k + ((m + 1) - k) = m + 1
      BY <1>3, <2>1, <2>4
    <3>3. s[m + 1] \in K /\ s[m + 1] = q[(m + 1) - k]
      BY <3>2
    <3>4. h[m + 1] = Append(h[m], s[m + 1])
      BY <2>2, <3>3 DEF Keep
    <3>5. /\ Len(h[m + 1]) = Len(h[m]) + 1 /\ h[m + 1][Len(h[m]) + 1] = s[m + 1]
          /\ \A j \in 1 .. Len(h[m]) : h[m + 1][j] = h[m][j]
      BY <2>2, <3>4, AppendProperties
    <3>6. Len(h[m + 1]) = (m + 1) - k
      BY <2>1, <2>4, <3>1, <3>5
    <3>7. ASSUME NEW j \in 1 .. ((m + 1) - k) PROVE h[m + 1][j] = q[j]
      <4>1. CASE j = (m + 1) - k
        <5>1. j = Len(h[m]) + 1
          BY <2>1, <3>1, <4>1
        <5> QED BY <3>3, <3>5, <4>1, <5>1
      <4>2. CASE j # (m + 1) - k
        <5>1. j \in 1 .. (m - k)
          BY <2>1, <2>4, <4>2
        <5> QED BY <3>1, <3>5, <5>1
      <4> QED BY <4>1, <4>2
    <3>8. k <= m + 1 /\ m + 1 <= k + Len(q)
      BY <1>3, <2>1, <2>4
    <3> HIDE DEF P
    <3> QED BY <1>4, <2>1, <3>6, <3>7, <3>8
  <2>5. CASE k + Len(q) <= m
    <3>1. s[m + 1] \notin K /\ h[m] = q
      BY <1>3, <1>6, <2>1, <2>5
    <3>2. h[m + 1] = q
      BY <2>2, <3>1 DEF Keep
    <3>3. ~ (m + 1 <= k) /\ ~ (m + 1 <= k + Len(q))
      BY <1>3, <2>1, <2>5
    <3> QED BY <3>2, <3>3
  <2> QED BY <1>3, <2>1, <2>3, <2>4, <2>5
<1>7. P(Len(s))
  <2> HIDE DEF P
  <2>1. Inductive(T, Len(s))
    BY <1>3, <1>5, <1>6 DEF Inductive
  <2> HIDE DEF T
  <2>2. Len(s) \in T
    BY <1>3, <2>1, InductTo
  <2> QED BY <2>2 DEF T
<1> QED BY <1>2, <1>7

\* The tokens of one more block.
LEMMA TokensAdd ==
  /\ Tokens(<<>>) = 0
  /\ \A s \in Seq(Blocks) : Tokens(s) \in Nat
  /\ \A s \in Seq(Blocks), b \in Blocks : Tokens(Append(s, b)) = Tokens(s) + b.size
<1>1. ASSUME NEW s \in Seq(Blocks)
      PROVE  /\ Len(s) \in Nat /\ \A i \in 1 .. Len(s) : s[i].size \in Nat
             /\ \E h : Added(h, s)
  <2>1. DOMAIN s = 1 .. Len(s) /\ Len(s) \in Nat
    OBVIOUS
  <2>2. ASSUME NEW i \in 1 .. Len(s) PROVE s[i].size \in Nat
    <3>1. s[i] \in Blocks
      BY ElementOfSeq
    <3> QED BY <3>1 DEF Blocks
  <2> QED BY <2>1, <2>2, TokensStages
<1>2. ASSUME NEW s \in Seq(Blocks) PROVE Tokens(s) \in Nat
  BY <1>1 DEF Added
<1>3. Tokens(<<>>) = 0
  <2>1. <<>> \in Seq(Blocks) /\ Len(<<>>) = 0
    OBVIOUS
  <2>2. PICK h : Added(h, <<>>)
    BY <1>1, <2>1
  <2> QED BY <2>1, <2>2 DEF Added
<1>4. ASSUME NEW s \in Seq(Blocks), NEW b \in Blocks
      PROVE  Tokens(Append(s, b)) = Tokens(s) + b.size
  <2> DEFINE t == Append(s, b)
             n == Len(s)
  <2>1. /\ n \in Nat /\ t \in Seq(Blocks) /\ Len(t) = n + 1
        /\ t[n + 1] = b /\ \A i \in 1 .. n : t[i] = s[i]
    OBVIOUS
  <2>2. PICK h : Added(h, s)
    BY <1>1
  <2>3. PICK k : Added(k, t)
    BY <1>1, <2>1
  <2>4. /\ h[0] = 0 /\ h[n] = Tokens(s)
        /\ \A i \in 0 .. (n - 1) : h[i + 1] = h[i] + s[i + 1].size
    BY <2>2 DEF Added
  <2> HIDE DEF t, n
  <2>5. (n + 1) - 1 = n
    BY <2>1
  <2>6. /\ k[0] = 0 /\ k[n + 1] = Tokens(t)
        /\ \A i \in 0 .. n : k[i + 1] = k[i] + t[i + 1].size
    BY <2>1, <2>3, <2>5 DEF Added
  <2> DEFINE T == {i \in 0 .. n : h[i] = k[i]}
  <2>7. 0 \in T
    BY <2>1, <2>4, <2>6
  <2>8. ASSUME NEW i \in 0 .. (n - 1), i \in T PROVE i + 1 \in T
    <3>1. i \in 0 .. n /\ i + 1 \in 1 .. n /\ i + 1 \in 0 .. n
      BY <2>1
    <3> QED BY <2>1, <2>4, <2>6, <2>8, <3>1
  <2> HIDE DEF T
  <2>9. n \in T
    <3>1. Inductive(T, n)
      BY <2>7, <2>8 DEF Inductive
    <3> QED BY <2>1, <3>1, InductTo
  <2>10. n \in 0 .. n
    BY <2>1
  <2> QED BY <2>1, <2>4, <2>6, <2>9, <2>10 DEF T, t
<1> QED BY <1>2, <1>3, <1>4

\* The blocks of a content object, and one more.
LEMMA FromAdds ==
  /\ \A c : From(<<>>, c) = 0
  /\ \A c : \A s \in Seq(Blocks) : From(s, c) \in Nat
  /\ \A c : \A s \in Seq(Blocks), b \in Blocks :
       From(Append(s, b), c) = From(s, c) + IF ContentOf[b.chunk] = c THEN 1 ELSE 0
<1> DEFINE I(s, c) == {i \in DOMAIN s : ContentOf[s[i].chunk] = c}
<1>1. ASSUME NEW s \in Seq(Blocks), NEW c PROVE IsFiniteSet(I(s, c)) /\ From(s, c) = Cardinality(I(s, c))
  <2>1. IsFiniteSet(1 .. Len(s)) /\ DOMAIN s = 1 .. Len(s)
    BY FS_Interval
  <2>2. I(s, c) \in SUBSET (1 .. Len(s))
    BY <2>1
  <2> QED BY <2>1, <2>2, FS_Subset DEF From
<1>2. ASSUME NEW c PROVE From(<<>>, c) = 0
  <2>1. I(<<>>, c) = {}
    OBVIOUS
  <2> QED BY <2>1, FS_EmptySet DEF From
<1>3. ASSUME NEW s \in Seq(Blocks), NEW b \in Blocks, NEW c
      PROVE  From(Append(s, b), c) = From(s, c) + IF ContentOf[b.chunk] = c THEN 1 ELSE 0
  <2>1. /\ Append(s, b) \in Seq(Blocks) /\ DOMAIN Append(s, b) = DOMAIN s \cup {Len(s) + 1}
        /\ Len(s) + 1 \notin DOMAIN s /\ Append(s, b)[Len(s) + 1] = b
        /\ \A i \in DOMAIN s : Append(s, b)[i] = s[i]
    OBVIOUS
  <2>2. CASE ContentOf[b.chunk] = c
    <3>1. I(Append(s, b), c) = I(s, c) \cup {Len(s) + 1} /\ Len(s) + 1 \notin I(s, c)
      BY <2>1, <2>2
    <3> HIDE DEF I
    <3>2. Cardinality(I(s, c) \cup {Len(s) + 1}) = Cardinality(I(s, c)) + 1
      BY <1>1, <3>1, FS_AddElement
    <3> QED BY <1>1, <2>1, <2>2, <3>1, <3>2
  <2>3. CASE ContentOf[b.chunk] # c
    <3>1. I(Append(s, b), c) = I(s, c)
      BY <2>1, <2>3
    <3> HIDE DEF I
    <3>2. From(s, c) \in Nat
      BY <1>1, FS_CardinalityType
    <3>3. From(Append(s, b), c) = From(s, c)
      BY <1>1, <2>1, <3>1
    <3>4. From(s, c) = From(s, c) + 0
      BY <3>2
    <3> QED BY <2>3, <3>3, <3>4
  <2> QED BY <2>2, <2>3
<1>4. ASSUME NEW s \in Seq(Blocks), NEW c PROVE From(s, c) \in Nat
  <2> HIDE DEF I
  <2> QED BY <1>1, FS_CardinalityType
<1> QED BY <1>2, <1>3, <1>4

-----------------------------------------------------------------------------
(***************************************************************************)
(* Evidence.                                                               *)
(***************************************************************************)

\* The caps hold, and each of the first i hits is in or has no room.
Fits(blocks, s, i) ==
  /\ Tokens(blocks) <= Budget /\ Len(blocks) <= MaxBlocks
  /\ \A c : From(blocks, c) <= MaxContent
  /\ \A j \in 1 .. i : \/ \E m \in DOMAIN blocks : blocks[m].chunk = s[j]
                       \/ Full(blocks, s[j])
                       \/ Tokens(blocks) + SizeOf[s[j]] > Budget

\* One more block keeps that, if there was room for it.
Room(blocks, b) == ~ Full(blocks, b.chunk) /\ Tokens(blocks) + b.size <= Budget

\* One more block for the next hit keeps the caps and what was said of earlier hits.
LEMMA BlockFits ==
  ASSUME NEW s \in Seq(Chunks), NEW i \in 0 .. (Len(s) - 1), NEW blocks \in Seq(Blocks),
         Fits(blocks, s, i), NEW b \in Blocks, b.chunk = s[i + 1], Room(blocks, b)
  PROVE  Fits(Append(blocks, b), s, i + 1)
<1> DEFINE t == Append(blocks, b)
<1>0. {Budget, MaxContent, MaxBlocks} \subseteq Nat /\ SizeOf \in [Chunks -> Nat] /\ Len(s) \in Nat /\ i \in Nat
  <2>1. {Budget, MaxContent, MaxBlocks} \subseteq Nat /\ SizeOf \in [Chunks -> Nat]
    BY EvidenceAssumption
  <2>2. Len(s) \in Nat /\ i \in Nat
    OBVIOUS
  <2> QED BY <2>1, <2>2
<1>1. /\ Tokens(blocks) \in Nat /\ b.size \in Nat /\ b.chunk \in Chunks
      /\ Tokens(t) = Tokens(blocks) + b.size
  BY TokensAdd DEF Blocks
<1>2. /\ t \in Seq(Blocks) /\ Len(blocks) \in Nat /\ Len(t) = Len(blocks) + 1
      /\ DOMAIN blocks \subseteq DOMAIN t /\ Len(t) \in DOMAIN t /\ t[Len(t)] = b
      /\ \A m \in DOMAIN blocks : t[m] = blocks[m]
  OBVIOUS
<1>3. ASSUME NEW c
      PROVE  /\ From(blocks, c) \in Nat /\ From(t, c) \in Nat /\ From(t, c) >= From(blocks, c)
             /\ From(t, c) <= From(blocks, c) + 1
             /\ From(t, c) # From(blocks, c) => c = ContentOf[b.chunk]
  <2>1. From(blocks, c) \in Nat /\ From(t, c) = From(blocks, c) + IF ContentOf[b.chunk] = c THEN 1 ELSE 0
    BY FromAdds
  <2> HIDE DEF t
  <2>2. CASE ContentOf[b.chunk] = c
    BY <2>1, <2>2
  <2>3. CASE ContentOf[b.chunk] # c
    BY <2>1, <2>3
  <2> QED BY <2>2, <2>3
<1> HIDE DEF t
<1>4. Tokens(t) <= Budget /\ Len(t) <= MaxBlocks
  BY <1>0, <1>1, <1>2 DEF Room, Full
<1>5. ASSUME NEW c PROVE From(t, c) <= MaxContent
  <2>1. From(blocks, c) <= MaxContent
    BY DEF Fits
  <2>2. CASE c = ContentOf[b.chunk]
    <3>1. ~ (From(blocks, c) >= MaxContent)
      BY <2>2 DEF Room, Full
    <3> QED BY <1>0, <1>3, <3>1
  <2>3. CASE c # ContentOf[b.chunk]
    BY <1>3, <2>1, <2>3
  <2> QED BY <2>2, <2>3
<1>6. ASSUME NEW j \in 1 .. (i + 1)
      PROVE  \/ \E m \in DOMAIN t : t[m].chunk = s[j]
             \/ Full(t, s[j])
             \/ Tokens(t) + SizeOf[s[j]] > Budget
  <2>1. CASE j = i + 1
    BY <1>2, <2>1
  <2>2. CASE j # i + 1
    <3>1. j \in 1 .. i /\ s[j] \in Chunks /\ SizeOf[s[j]] \in Nat
      BY <1>0, <2>2
    <3>2. CASE \E m \in DOMAIN blocks : blocks[m].chunk = s[j]
      BY <1>2, <3>2
    <3>3. CASE Full(blocks, s[j])
      <4>1. Len(blocks) >= MaxBlocks => Len(t) >= MaxBlocks
        BY <1>0, <1>2
      <4>2. From(blocks, ContentOf[s[j]]) >= MaxContent => From(t, ContentOf[s[j]]) >= MaxContent
        BY <1>0, <1>3
      <4> QED BY <3>3, <4>1, <4>2 DEF Full
    <3>4. CASE Tokens(blocks) + SizeOf[s[j]] > Budget
      <4>1. Budget \in Nat /\ Tokens(blocks) \in Nat /\ b.size \in Nat /\ SizeOf[s[j]] \in Nat
        BY <1>0, <1>1, <3>1
      <4>2. Tokens(t) + SizeOf[s[j]] > Budget
        BY <1>1, <3>4, <4>1
      <4> QED BY <4>2
    <3> QED BY <3>1, <3>2, <3>3, <3>4 DEF Fits
  <2> QED BY <2>1, <2>2
<1> QED BY <1>4, <1>5, <1>6 DEF Fits, t

\* So does the next hit, whatever becomes of it.
LEMMA TakeFits ==
  ASSUME NEW s \in Seq(Chunks), NEW i \in 0 .. (Len(s) - 1), NEW blocks \in Seq(Blocks),
         Fits(blocks, s, i)
  PROVE  Fits(Take(blocks, s[i + 1]), s, i + 1)
<1> DEFINE c == s[i + 1]
<1>0. Budget \in Nat /\ SizeOf \in [Chunks -> Nat] /\ i \in Nat /\ c \in Chunks
  <2>1. Budget \in Nat /\ SizeOf \in [Chunks -> Nat]
    BY EvidenceAssumption
  <2>2. i \in Nat /\ i + 1 \in 1 .. Len(s)
    OBVIOUS
  <2>3. c \in Chunks
    BY <2>2, ElementOfSeq
  <2> QED BY <2>1, <2>2, <2>3
<1>1. \A size \in Nat : Block(c, size) \in Blocks /\ Block(c, size).chunk = c /\ Block(c, size).size = size
  BY <1>0 DEF Block, Blocks
<1>2. CASE Full(blocks, c) \/ (Tokens(blocks) + SizeOf[c] > Budget /\ blocks # <<>>)
  <2>1. Take(blocks, c) = blocks
    <3>1. Tokens(blocks) + SizeOf[c] > Budget => ~ (Tokens(blocks) + SizeOf[c] <= Budget)
      BY <1>0, TokensAdd
    <3> QED BY <1>2, <3>1 DEF Take
  <2>2. \A j \in 1 .. (i + 1) : j \in 1 .. i \/ s[j] = c
    BY <1>0
  <2>3. Full(blocks, c) \/ Tokens(blocks) + SizeOf[c] > Budget
    BY <1>2
  <2> HIDE DEF c
  <2>4. Fits(blocks, s, i + 1)
    BY <2>2, <2>3 DEF Fits
  <2> QED BY <2>1, <2>4 DEF c
<1>3. CASE ~ Full(blocks, c) /\ Tokens(blocks) + SizeOf[c] <= Budget
  <2>1. Take(blocks, c) = Append(blocks, Block(c, SizeOf[c]))
    BY <1>3 DEF Take
  <2>2. Room(blocks, Block(c, SizeOf[c]))
    BY <1>0, <1>1, <1>3 DEF Room
  <2> QED BY <1>0, <1>1, <2>1, <2>2, BlockFits
<1>4. CASE ~ Full(blocks, c) /\ ~ (Tokens(blocks) + SizeOf[c] <= Budget) /\ blocks = <<>>
  <2>1. Take(blocks, c) = Append(blocks, Block(c, Budget))
    BY <1>4 DEF Take
  <2>2. Room(blocks, Block(c, Budget))
    BY <1>0, <1>1, <1>4, TokensAdd DEF Room
  <2> QED BY <1>0, <1>1, <2>1, <2>2, BlockFits
<1>5. Tokens(blocks) + SizeOf[c] > Budget <=> ~ (Tokens(blocks) + SizeOf[c] <= Budget)
  BY <1>0, TokensAdd
<1> QED BY <1>2, <1>3, <1>4, <1>5

\* The evidence, once every hit was looked at.
LEMMA EvidenceFits ==
  ASSUME NEW s \in Seq(Chunks)
  PROVE  SelectEvidence(s) \in Seq(Blocks) /\ Fits(SelectEvidence(s), s, Len(s))
<1>1. PICK h : Chosen(h, s)
  BY EvidenceStages
<1>2. /\ h \in [0 .. Len(s) -> Seq(Blocks)] /\ h[0] = <<>> /\ h[Len(s)] = SelectEvidence(s)
      /\ \A i \in 0 .. (Len(s) - 1) : h[i + 1] = Take(h[i], s[i + 1])
  BY <1>1 DEF Chosen
<1>3. Len(s) \in Nat
  OBVIOUS
<1> DEFINE T == {i \in 0 .. Len(s) : Fits(h[i], s, i)}
<1>4. 0 \in T
  <2>1. {Budget, MaxContent, MaxBlocks} \subseteq Nat
    BY EvidenceAssumption
  <2>2. Fits(<<>>, s, 0)
    BY <2>1, TokensAdd, FromAdds DEF Fits
  <2> QED BY <1>2, <1>3, <2>2
<1>5. ASSUME NEW i \in 0 .. (Len(s) - 1), i \in T PROVE i + 1 \in T
  <2>1. h[i] \in Seq(Blocks) /\ i + 1 \in 0 .. Len(s)
    BY <1>2, <1>3
  <2> QED BY <1>2, <1>5, <2>1, TakeFits
<1> HIDE DEF T
<1>6. Len(s) \in T
  <2>1. Inductive(T, Len(s))
    BY <1>4, <1>5 DEF Inductive
  <2> QED BY <1>3, <2>1, InductTo
<1> QED BY <1>2, <1>3, <1>6 DEF T

-----------------------------------------------------------------------------
(***************************************************************************)
(* Rankings.                                                               *)
(***************************************************************************)

\* Places by decreasing score, the earlier index first among equals, count the indices.
Ahead(score, i, j) == score[i] > score[j] \/ (score[i] = score[j] /\ i < j)
PlaceAt(score, i) == Cardinality({j \in DOMAIN score : Ahead(score, j, i)}) + 1

\* Each place is taken by one of the indices.
LEMMA PlacesCount ==
  ASSUME NEW n \in Nat, NEW score \in [1 .. n -> Nat]
  PROVE  \A p \in 1 .. n : \E i \in 1 .. n : PlaceAt(score, i) = p
<1> DEFINE before(i) == {j \in 1 .. n : Ahead(score, j, i)}
           f == [i \in 1 .. n |-> PlaceAt(score, i)]
<1>1. IsFiniteSet(1 .. n) /\ Cardinality(1 .. n) = n
  BY FS_Interval
<1>2. ASSUME NEW i \in 1 .. n
      PROVE  /\ IsFiniteSet(before(i)) /\ Cardinality(before(i)) \in Nat
             /\ PlaceAt(score, i) = Cardinality(before(i)) + 1
  BY <1>1, FS_Subset, FS_CardinalityType DEF PlaceAt
<1>3. /\ \A i \in 1 .. n : ~ Ahead(score, i, i)
      /\ \A i, j \in 1 .. n : i # j => Ahead(score, i, j) \/ Ahead(score, j, i)
      /\ \A i, j, k \in 1 .. n : Ahead(score, i, j) /\ Ahead(score, j, k) => Ahead(score, i, k)
  BY DEF Ahead
<1>4. ASSUME NEW i \in 1 .. n PROVE PlaceAt(score, i) \in 1 .. n
  <2>1. before(i) \in SUBSET ((1 .. n) \ {i})
    BY <1>3
  <2>2. IsFiniteSet((1 .. n) \ {i}) /\ Cardinality((1 .. n) \ {i}) = n - 1
    BY <1>1, FS_RemoveElement
  <2>3. Cardinality(before(i)) <= n - 1
    BY <2>1, <2>2, FS_Subset
  <2> HIDE DEF before
  <2> QED BY <1>2, <2>3
<1>5. ASSUME NEW i \in 1 .. n, NEW j \in 1 .. n, Ahead(score, i, j)
      PROVE  PlaceAt(score, i) < PlaceAt(score, j)
  <2>1. before(i) \in SUBSET (before(j) \ {i}) /\ i \in before(j)
    BY <1>3, <1>5
  <2>2. IsFiniteSet(before(j) \ {i}) /\ Cardinality(before(j) \ {i}) = Cardinality(before(j)) - 1
    BY <1>2, <2>1, FS_RemoveElement
  <2>3. Cardinality(before(i)) <= Cardinality(before(j)) - 1
    BY <2>1, <2>2, FS_Subset
  <2> HIDE DEF before
  <2> QED BY <1>2, <2>3
<1>6. \A i, j \in 1 .. n : i # j => PlaceAt(score, i) # PlaceAt(score, j)
  <2>1. \A i \in 1 .. n : PlaceAt(score, i) \in Nat
    BY <1>4
  <2> QED BY <1>3, <1>5, <2>1
<1>7. f \in Injection(1 .. n, 1 .. n)
  BY <1>4, <1>6 DEF Injection, IsInjective
<1>8. f \in Surjection(1 .. n, 1 .. n)
  BY <1>1, <1>7, FS_Injection
<1> QED BY <1>8 DEF Surjection

\* A score is a number.
LEMMA ScoreIsNat ==
  ASSUME NEW v, NEW k, NEW c
  PROVE  Score(v, k, c) \in Nat
<1>1. \A rank : Weight(rank) \in Nat
  BY WeightIsNat
<1> QED BY <1>1 DEF Score

\* Fusion ranks chunks, no more than were asked for.
LEMMA FusedChunks ==
  ASSUME NEW v \in Seq(Chunks), NEW k \in Seq(Chunks)
  PROVE  Fused(v, k) \in Seq(Chunks) /\ Len(Fused(v, k)) <= TopK
<1> DEFINE seen == FirstSeen(v \o k)
           n == Len(seen)
           score == [i \in 1 .. n |-> Score(v, k, seen[i])]
           before(i, j) == LET s(m) == Score(v, k, seen[m])
                           IN s(i) > s(j) \/ (s(i) = s(j) /\ i < j)
           place(i) == Cardinality({j \in DOMAIN seen : before(j, i)}) + 1
           sorted == [p \in DOMAIN seen |-> seen[CHOOSE i \in DOMAIN seen : place(i) = p]]
<1>1. seen \in Seq(Chunks)
  <2>1. v \o k \in Seq(Chunks)
    OBVIOUS
  <2> QED BY <2>1, SeenOnce
<1>2. n \in Nat /\ DOMAIN seen = 1 .. n /\ \A i \in 1 .. n : seen[i] \in Chunks
  <2> HIDE DEF seen
  <2> QED BY <1>1, ElementOfSeq
<1>3. score \in [1 .. n -> Nat]
  BY ScoreIsNat
<1> HIDE DEF seen
<1>4. ASSUME NEW i \in 1 .. n PROVE place(i) = PlaceAt(score, i)
  <2>1. {j \in DOMAIN seen : before(j, i)} = {j \in DOMAIN score : Ahead(score, j, i)}
    BY <1>2 DEF Ahead
  <2> QED BY <2>1 DEF PlaceAt
<1>5. \A p \in 1 .. n : \E i \in 1 .. n : place(i) = p
  <2>1. \A p \in 1 .. n : \E i \in 1 .. n : PlaceAt(score, i) = p
    <3> HIDE DEF score, n
    <3> QED BY <1>2, <1>3, PlacesCount
  <2> QED BY <1>4, <2>1, Zenon
<1> HIDE DEF place, score
<1>6. DOMAIN sorted = 1 .. n /\ \A p \in 1 .. n : sorted[p] \in Chunks
  BY <1>2, <1>5
<1>7. sorted \in Seq(Chunks) /\ Len(sorted) = n
  <2>1. sorted = [p \in 1 .. n |-> sorted[p]]
    BY <1>2
  <2> HIDE DEF sorted, n
  <2>2. sorted \in [1 .. n -> Chunks]
    BY <1>6, <2>1
  <2> QED BY <1>2, <2>2, SeqDef
<1>8. Fused(v, k) = SubSeq(sorted, 1, IF Len(sorted) < TopK THEN Len(sorted) ELSE TopK)
  BY DEF Fused, seen, place
<1>9. TopK \in Nat
  BY EvidenceAssumption
<1> HIDE DEF sorted, n
<1> DEFINE m == IF Len(sorted) < TopK THEN Len(sorted) ELSE TopK
<1>10. m \in 0 .. Len(sorted) /\ m <= TopK
  BY <1>2, <1>7, <1>9
<1> HIDE DEF m
<1>11. SubSeq(sorted, 1, m) \in Seq(Chunks) /\ Len(SubSeq(sorted, 1, m)) = m
  BY <1>7, <1>10, SubSeqProperties
<1> QED BY <1>8, <1>10, <1>11 DEF m

\* Sequences up to a length.
LEMMA BoundedMember ==
  ASSUME NEW S, NEW n \in Nat, NEW s
  PROVE  s \in BoundedSeq(S, n) <=> s \in Seq(S) /\ Len(s) <= n
<1>1. ASSUME NEW m \in 0 .. n, s \in [1 .. m -> S] PROVE s \in Seq(S) /\ Len(s) <= n
  <2>1. m \in Nat /\ m <= n
    OBVIOUS
  <2>2. s \in Seq(S)
    BY <1>1, <2>1, SeqDef
  <2>3. Len(s) = m
    BY <1>1, <2>1, <2>2, LenProperties
  <2> QED BY <2>1, <2>2, <2>3
<1>2. ASSUME s \in Seq(S), Len(s) <= n PROVE s \in [1 .. Len(s) -> S] /\ Len(s) \in 0 .. n
  BY <1>2, LenProperties
<1> QED BY <1>1, <1>2 DEF BoundedSeq, SeqOf

\* Whatever the collection ranks, the hits are chunks, no more than were asked for.
LEMMA RankingsChunks == Rankings \subseteq Seq(Chunks) /\ Rankings \subseteq BoundedSeq(Chunks, TopK)
<1>1. TopK \in Nat
  BY EvidenceAssumption
<1>2. Ranked \subseteq Seq(Chunks)
  BY <1>1, BoundedMember DEF Ranked
<1>3. ASSUME NEW v \in Ranked, NEW k \in Ranked
      PROVE  Fused(v, k) \in Seq(Chunks) /\ Len(Fused(v, k)) <= TopK
  BY <1>2, FusedChunks
<1> QED BY <1>1, <1>3, BoundedMember DEF Rankings

\* Hits are chunks, and the evidence decided on is what was selected from them.
DataInv ==
  /\ evidence \in Seq(Blocks) /\ text \in Seq(Nat)
  /\ phase \in {"found", "selected"} => hits \in Seq(Chunks)
  /\ phase = "selected" => evidence = SelectEvidence(hits)

\* At first there are no hits and no evidence.
LEMMA DataInit == ASSUME Init PROVE DataInv
<1>1. <<>> \in Seq(Blocks) /\ <<>> \in Seq(Nat)
  OBVIOUS
<1> QED BY <1>1 DEF Init, DataInv

\* A step keeps that.
LEMMA DataStep == ASSUME DataInv, [Next]_vars PROVE DataInv'
<1> USE DEF DataInv, Runs, world, service
<1>1. CASE Select \/ Filter
  BY <1>1 DEF Select, Filter
<1>2. CASE Search
  BY <1>2, RankingsChunks DEF Search, Crash
<1>3. CASE Resolve
  <2>1. evidence' = SelectEvidence(hits) /\ hits' = hits /\ hits \in Seq(Chunks) /\ text' = text
    BY <1>3 DEF Resolve
  <2>2. evidence' \in Seq(Blocks)
    BY <2>1, EvidenceFits
  <2> QED BY <2>1, <2>2
<1>4. CASE Decide
  <2>1. phase' \in {"prepared", "failed", "answered"} /\ UNCHANGED <<evidence, text>>
    BY <1>4 DEF Decide, Fail, Early
  <2> QED BY <2>1
<1>5. CASE Call \/ Begin \/ Decline \/ Break \/ Deadline
  <2>1. phase' \notin {"found", "selected"} /\ UNCHANGED <<evidence, text>>
    BY <1>5 DEF Call, Begin, Decline, Break, Deadline, Fail, Crash, Bounded
  <2> QED BY <2>1
<1>6. CASE Fragment
  <2>1. Marker \in Nat
    BY EvidenceAssumption DEF Marker
  <2>2. PICK m \in 0 .. Marker : text' = Append(text, m)
    BY <1>6 DEF Fragment
  <2>3. m \in Nat /\ text' \in Seq(Nat)
    BY <2>1, <2>2
  <2> QED BY <1>6, <2>3 DEF Fragment
<1>7. CASE Finish
  BY <1>7 DEF Finish
<1>8. CASE Write \/ Quiet \/ UNCHANGED vars
  BY <1>8 DEF Write, Quiet, vars
<1>9. CASE Leave
  BY <1>9 DEF Leave
<1>10. ASSUME NEW l \in Locs, Edit(l) PROVE DataInv'
  BY <1>10 DEF Edit
<1>11. ASSUME NEW l \in Locs, NEW c \in Contents, Move(c, l) PROVE DataInv'
  BY <1>11 DEF Move
<1> QED BY <1>1, <1>2, <1>3, <1>4, <1>5, <1>6, <1>7, <1>8, <1>9, <1>10, <1>11 DEF Next, Serve, Provider

\* Hits are chunks (vectors/repository.py, _rrf_fuse), and while the service decides about
\* the evidence, it is what select_evidence made of them.
THEOREM DataHolds == Spec => []DataInv
<1> QED BY DataInit, DataStep, PTL DEF Spec

\* The evidence (generation/rag.py, select_evidence) keeps its caps, and a hit is left out only
\* when it does not fit into what was chosen, for all chunks, sizes, caps and rankings.
THEOREM EvidenceFair == Spec => []EvidenceIsFair
<1>1. ASSUME DataInv, phase = "selected" PROVE EvidenceIsFair
  <2>1. hits \in Seq(Chunks) /\ evidence = SelectEvidence(hits)
    BY <1>1 DEF DataInv
  <2>2. evidence \in Seq(Blocks) /\ Fits(evidence, hits, Len(hits))
    BY <2>1, EvidenceFits
  <2>3. ASSUME NEW c \in ToSet(hits) \ {b.chunk : b \in ToSet(evidence)}
        PROVE  Full(evidence, c) \/ Tokens(evidence) + SizeOf[c] > Budget
    <3>1. PICK j \in 1 .. Len(hits) : hits[j] = c
      BY <2>1 DEF ToSet
    <3>2. \A m \in DOMAIN evidence : evidence[m].chunk # c
      BY <2>2, <2>3 DEF ToSet
    <3> QED BY <2>2, <3>1, <3>2 DEF Fits
  <2> QED BY <2>2, <2>3 DEF Fits, EvidenceIsFair
<1>2. DataInv => EvidenceIsFair
  BY <1>1 DEF EvidenceIsFair
<1> QED BY <1>2, DataHolds, PTL

-----------------------------------------------------------------------------
(***************************************************************************)
(* The frames of a stream.                                                 *)
(***************************************************************************)

Frames == Events \X Nat

\* What the grammar says of a sequence of frames, and of every prefix of it.
Follow(f, g) ==
  /\ Place[f[1]] <= Place[g[1]] /\ f[1] # "result"
  /\ f = g => f = Frame("delta")
Before(w, event, i) == \E j \in DOMAIN w : j < i /\ w[j][1] = event
Grammar(w, invoked) ==
  /\ w # <<>> => w[1] = Frame("started")
  /\ \A i, j \in DOMAIN w : i < j => Follow(w[i], w[j])
  /\ \A i \in DOMAIN w :
       /\ w[i][1] = "delta" => Before(w, "generation", i)
       /\ w[i][1] = "result" => Before(w, "retrieval", i) /\ (Before(w, "generation", i) <=> invoked)

Shown(w, event) == \E i \in DOMAIN w : w[i][1] = event

\* What stands in order does so as far as it was written.
LEMMA PrefixGrammar ==
  ASSUME NEW w \in Seq(Frames), NEW q \in Seq(Frames), NEW invoked, Grammar(w \o q, invoked)
  PROVE  Grammar(w, invoked)
<1>1. /\ DOMAIN w \subseteq DOMAIN (w \o q) /\ \A i \in DOMAIN w : (w \o q)[i] = w[i]
      /\ \A i \in DOMAIN w, j \in DOMAIN (w \o q) : j < i => j \in DOMAIN w
      /\ w # <<>> => 1 \in DOMAIN w
  OBVIOUS
<1>2. w # <<>> => w[1] = Frame("started")
  BY <1>1 DEF Grammar
<1>3. \A i, j \in DOMAIN w : i < j => Follow(w[i], w[j])
  BY <1>1 DEF Grammar
<1>4. \A e : \A i \in DOMAIN w : Before(w \o q, e, i) <=> Before(w, e, i)
  BY <1>1 DEF Before
<1> QED BY <1>1, <1>2, <1>3, <1>4 DEF Grammar

\* Frames that may come behind w.
Continues(w, q, invoked) ==
  /\ w = <<>> => q[1] = Frame("started")
  /\ \A i \in DOMAIN w, j \in DOMAIN q : Follow(w[i], q[j])
  /\ \A i, j \in DOMAIN q : i < j => Follow(q[i], q[j])
  /\ \A j \in DOMAIN q : q[j][1] # "generation" \/ q = <<Frame("generation")>>
  /\ Shown(q, "delta") => Shown(w, "generation")
  /\ \A j \in DOMAIN q : q[j][1] = "result" =>
       /\ Shown(w, "retrieval") \/ Before(q, "retrieval", j)
       /\ Shown(w, "generation") <=> invoked

\* So it does with the frames of one more step.
LEMMA GrammarGrows ==
  ASSUME NEW w \in Seq(Frames), NEW q \in Seq(Frames), NEW before, NEW invoked,
         Grammar(w, before), ~ Shown(w, "result"), Continues(w, q, invoked)
  PROVE  Grammar(w \o q, invoked)
<1> DEFINE v == w \o q
           n == Len(w)
<1>1. /\ n \in Nat /\ DOMAIN w = 1 .. n /\ DOMAIN q = 1 .. Len(q) /\ Len(q) \in Nat
      /\ DOMAIN v = 1 .. (n + Len(q))
      /\ \A i \in DOMAIN w : i \in DOMAIN v /\ v[i] = w[i]
      /\ \A i \in DOMAIN v : i \notin DOMAIN w => i - n \in DOMAIN q /\ v[i] = q[i - n]
      /\ \A j \in DOMAIN q : n + j \in DOMAIN v /\ v[n + j] = q[j]
  OBVIOUS
<1> HIDE DEF v, n
<1>2. v # <<>> => v[1] = Frame("started")
  <2>1. CASE w = <<>>
    <3>1. v = q
      BY <2>1 DEF v
    <3> QED BY <2>1, <3>1 DEF Continues
  <2>2. CASE w # <<>>
    <3>1. 1 \in DOMAIN w
      BY <2>2
    <3> QED BY <1>1, <2>2, <3>1 DEF Grammar
  <2> QED BY <2>1, <2>2
<1>3. ASSUME NEW i \in DOMAIN v, NEW j \in DOMAIN v, i < j PROVE Follow(v[i], v[j])
  <2>1. CASE j \in DOMAIN w
    <3>1. i \in DOMAIN w
      BY <1>1, <1>3, <2>1
    <3> QED BY <1>1, <1>3, <2>1, <3>1 DEF Grammar
  <2>2. CASE j \notin DOMAIN w /\ i \in DOMAIN w
    BY <1>1, <2>2 DEF Continues
  <2>3. CASE j \notin DOMAIN w /\ i \notin DOMAIN w
    <3>1. i - n \in DOMAIN q /\ j - n \in DOMAIN q /\ i - n < j - n
      BY <1>1, <1>3, <2>3
    <3> QED BY <1>1, <2>3, <3>1 DEF Continues
  <2> QED BY <2>1, <2>2, <2>3
<1>4. ASSUME NEW i \in DOMAIN w
      PROVE  /\ v[i][1] # "result"
             /\ v[i][1] = "delta" => Before(v, "generation", i)
  <2>1. v[i] = w[i]
    BY <1>1
  <2>2. v[i][1] # "result"
    BY <2>1 DEF Shown
  <2>3. v[i][1] = "delta" => \E j \in DOMAIN w : j < i /\ w[j][1] = "generation"
    BY <2>1 DEF Grammar, Before
  <2> QED BY <1>1, <2>2, <2>3 DEF Before
<1>5. ASSUME NEW i \in DOMAIN v, i \notin DOMAIN w
      PROVE  /\ \A e : Shown(w, e) => Before(v, e, i)
             /\ \A e : Before(q, e, i - n) => Before(v, e, i)
             /\ v[i][1] = "result" /\ Before(v, "generation", i) => Shown(w, "generation")
  <2>1. \A j \in DOMAIN w : j < i
    BY <1>1, <1>5
  <2>2. \A e : Shown(w, e) => Before(v, e, i)
    BY <1>1, <2>1 DEF Shown, Before
  <2>3. ASSUME NEW e, NEW j \in DOMAIN q, j < i - n, q[j][1] = e PROVE Before(v, e, i)
    <3>1. n + j \in DOMAIN v /\ n + j < i /\ v[n + j][1] = e
      BY <1>1, <1>5, <2>3
    <3> QED BY <3>1 DEF Before
  <2>4. ASSUME v[i][1] = "result", NEW j \in DOMAIN v, j < i, v[j][1] = "generation"
        PROVE  Shown(w, "generation")
    <3>1. CASE j \in DOMAIN w
      BY <1>1, <2>4, <3>1 DEF Shown
    <3>2. CASE j \notin DOMAIN w
      <4>1. j - n \in DOMAIN q /\ i - n \in DOMAIN q /\ q[j - n][1] = "generation" /\ j - n # i - n
        BY <1>1, <1>5, <2>4, <3>2
      <4>2. q = <<Frame("generation")>>
        BY <4>1 DEF Continues
      <4> QED BY <1>1, <4>1, <4>2
    <3> QED BY <3>1, <3>2
  <2> QED BY <2>2, <2>3, <2>4 DEF Before
<1>6. ASSUME NEW i \in DOMAIN v, i \notin DOMAIN w
      PROVE  /\ v[i][1] = "delta" => Before(v, "generation", i)
             /\ v[i][1] = "result" => Before(v, "retrieval", i) /\ (Before(v, "generation", i) <=> invoked)
  <2>1. i - n \in DOMAIN q /\ v[i] = q[i - n]
    BY <1>1, <1>6
  <2>2. v[i][1] = "delta" => Shown(w, "generation")
    BY <2>1 DEF Continues, Shown
  <2>3. v[i][1] = "result" => /\ Shown(w, "retrieval") \/ Before(q, "retrieval", i - n)
                              /\ Shown(w, "generation") <=> invoked
    BY <2>1 DEF Continues
  <2> QED BY <1>5, <1>6, <2>2, <2>3
<1> QED BY <1>2, <1>3, <1>4, <1>6 DEF Grammar, v

\* The frames of a stream, written or not.
Stream == out \o queue

\* What has been shown, and what can have been, in each phase before the end.
Due(p) ==
  CASE p = "new" -> {}
    [] p \in {"opened", "filtered", "found", "selected"} -> {"started"}
    [] p \in {"prepared", "calling"} -> {"started", "retrieval"}
    [] OTHER -> {"started", "retrieval", "generation"}
Possible(p) == IF p = "generating" THEN Due(p) \cup {"delta"} ELSE Due(p)

StreamInv ==
  /\ ask.form \in {"plain", "stream"} /\ phase \in Phases
  /\ out \in Seq(Frames) /\ queue \in Seq(Frames)
  /\ ask.form = "plain" => out = <<>> /\ queue = <<>>
  /\ Grammar(Stream, report.invoked)
  /\ phase \notin Ended =>
       /\ \A i \in DOMAIN Stream : Stream[i][1] \in Possible(phase)
       /\ ask.form = "stream" => \A e \in Due(phase) : Shown(Stream, e)

\* Nothing has been shown of a question that has not been asked.
LEMMA StreamInit == ASSUME Init PROVE StreamInv
<1>1. out = <<>> /\ queue = <<>> /\ phase = "new" /\ Stream = <<>> /\ <<>> \in Seq(Frames)
  BY DEF Init, Stream
<1>2. Grammar(Stream, report.invoked)
  BY <1>1 DEF Grammar
<1>3. ask.form \in {"plain", "stream"}
  BY DEF Init, Request
<1> QED BY <1>1, <1>2, <1>3 DEF StreamInv, Due, Phases, Ended

\* With nothing shown of the result, what it will say does not matter.
LEMMA NoResult ==
  ASSUME StreamInv, phase \notin Ended
  PROVE  ~ Shown(Stream, "result") /\ \A invoked : Grammar(Stream, invoked)
<1>1. "result" \notin Possible(phase)
  BY DEF Possible, Due
<1>2. ~ Shown(Stream, "result")
  BY <1>1 DEF StreamInv, Shown
<1> QED BY <1>2 DEF StreamInv, Grammar, Shown

\* The frames of a step stand behind those there were.
Sends(q) == queue = <<>> /\ out' = out /\ ask' = ask /\ Yield(q)

\* They keep the grammar, and a plain response has none.
LEMMA Yielded ==
  ASSUME StreamInv, phase \notin Ended, NEW q \in Seq(Frames), Sends(q),
         ask.form = "stream" => Continues(Stream, q, report'.invoked)
  PROVE  /\ ask'.form \in {"plain", "stream"} /\ out' \in Seq(Frames) /\ queue' \in Seq(Frames)
         /\ ask'.form = "plain" => out' = <<>> /\ queue' = <<>>
         /\ Grammar(Stream', report'.invoked)
         /\ ask.form = "stream" => Stream' = Stream \o q
         /\ ask.form = "plain" => Stream' = <<>>
<1>1. Stream = out /\ out \in Seq(Frames)
  BY DEF StreamInv, Sends, Stream
<1>2. CASE ask.form = "stream"
  <2>1. queue' = q /\ Stream' = Stream \o q
    BY <1>1, <1>2 DEF Sends, Yield, Stream
  <2>2. Grammar(Stream \o q, report'.invoked)
    BY <1>1, <1>2, NoResult, GrammarGrows
  <2> QED BY <1>2, <2>1, <2>2 DEF StreamInv, Sends
<1>3. CASE ask.form = "plain"
  <2>1. queue' = <<>> /\ out' = <<>> /\ Stream' = <<>>
    BY <1>1, <1>3 DEF Sends, Yield, Stream, StreamInv
  <2>2. Grammar(Stream', report'.invoked)
    BY <2>1 DEF Grammar
  <2> QED BY <1>3, <2>1, <2>2 DEF Sends
<1> QED BY <1>2, <1>3 DEF StreamInv

\* What is left keeps the grammar when the frames that were not written are dropped.
LEMMA Dropped ==
  ASSUME StreamInv, queue' = <<>>, UNCHANGED <<ask, out, report>>, phase' \in Ended
  PROVE  StreamInv'
<1>1. Stream' = out /\ out \in Seq(Frames) /\ phase' \in Phases
  BY DEF Stream, StreamInv, Phases
<1>2. Grammar(out, report.invoked)
  BY PrefixGrammar DEF StreamInv, Stream
<1> QED BY <1>1, <1>2 DEF StreamInv

\* One frame may come behind others, when none of them is like it and what it needs is there.
LEMMA OneContinues ==
  ASSUME NEW w \in Seq(Frames), NEW S, \A i \in DOMAIN w : w[i][1] \in S, NEW event, NEW invoked,
         \A e \in S : Place[e] <= Place[event] /\ e # "result",
         event \notin S \/ event = "delta", event # "result",
         w = <<>> => event = "started",
         event = "delta" => Shown(w, "generation")
  PROVE  Continues(w, <<Frame(event)>>, invoked)
<1> DEFINE q == <<Frame(event)>>
<1>1. DOMAIN q = {1} /\ q[1] = <<event, 0>> /\ q[1] = Frame(event)
  BY DEF Frame
<1> HIDE DEF q
<1>2. q[1][1] = event
  BY <1>1
<1>3. \A i \in DOMAIN w, j \in DOMAIN q : Follow(w[i], q[j])
  <2> SUFFICES ASSUME NEW i \in DOMAIN w PROVE Follow(w[i], q[1])
    BY <1>1
  <2>1. w[i][1] \in S
    OBVIOUS
  <2>2. w[i] = q[1] => event = "delta"
    BY <1>2, <2>1
  <2> QED BY <1>1, <1>2, <2>1, <2>2 DEF Follow
<1>4. \A i, j \in DOMAIN q : ~ (i < j)
  BY <1>1
<1>5. \A j \in DOMAIN q : q[j][1] # "generation" \/ q = <<Frame("generation")>>
  BY <1>1, <1>2 DEF q
<1>6. Shown(q, "delta") => Shown(w, "generation")
  BY <1>1, <1>2 DEF Shown
<1>7. \A j \in DOMAIN q : q[j][1] # "result"
  BY <1>1, <1>2
<1> QED BY <1>1, <1>3, <1>4, <1>5, <1>6, <1>7 DEF Continues, q

\* A step that shows one frame, one that is due in its phase or ends the stream, keeps it.
LEMMA OneFrame ==
  ASSUME StreamInv, phase \notin Ended, NEW event \in Events, Sends(<<Frame(event)>>), phase' \in Phases,
         \A e \in Possible(phase) : Place[e] <= Place[event],
         event \notin Possible(phase) \/ event = "delta", event # "result",
         event = "started" \/ "started" \in Due(phase),
         event = "delta" => "generation" \in Due(phase),
         phase' \notin Ended => Possible(phase) \cup {event} \subseteq Possible(phase')
                                  /\ Due(phase') \subseteq Due(phase) \cup {event}
  PROVE  StreamInv'
<1> DEFINE q == <<Frame(event)>>
<1>1. /\ Stream \in Seq(Frames) /\ q \in Seq(Frames)
      /\ \A i \in DOMAIN Stream : Stream[i][1] \in Possible(phase)
      /\ ask.form = "stream" => \A e \in Due(phase) : Shown(Stream, e)
  <2>1. Frame(event) \in Frames
    BY DEF Frame, Frames
  <2>2. Stream \in Seq(Frames)
    BY DEF Stream, StreamInv
  <2> QED BY <2>1, <2>2 DEF StreamInv
<1>2. \A e \in Possible(phase) : e # "result"
  BY DEF Possible, Due
<1>3. ask.form = "stream" => Continues(Stream, q, report'.invoked)
  <2>1. ASSUME ask.form = "stream", Stream = <<>> PROVE event = "started"
    BY <1>1, <2>1 DEF Shown
  <2>2. ASSUME ask.form = "stream", event = "delta" PROVE Shown(Stream, "generation")
    BY <1>1, <2>2
  <2> HIDE DEF q
  <2> SUFFICES ASSUME ask.form = "stream" PROVE Continues(Stream, <<Frame(event)>>, report'.invoked)
    BY DEF q
  <2> QED BY <1>1, <1>2, <2>1, <2>2, OneContinues
<1>4. /\ ask'.form \in {"plain", "stream"} /\ out' \in Seq(Frames) /\ queue' \in Seq(Frames)
      /\ ask'.form = "plain" => out' = <<>> /\ queue' = <<>>
      /\ Grammar(Stream', report'.invoked)
      /\ ask.form = "stream" => Stream' = Stream \o q
      /\ ask.form = "plain" => Stream' = <<>>
  BY <1>1, <1>3, Yielded
<1>5. ask' = ask /\ ask.form \in {"plain", "stream"}
  BY DEF Sends, StreamInv
<1>6. ASSUME phase' \notin Ended
      PROVE  /\ \A i \in DOMAIN Stream' : Stream'[i][1] \in Possible(phase')
             /\ ask'.form = "stream" => \A e \in Due(phase') : Shown(Stream', e)
  <2>1. CASE ask.form = "stream"
    <3>1. /\ DOMAIN (Stream \o q) = DOMAIN Stream \cup {Len(Stream) + 1}
          /\ \A i \in DOMAIN Stream : (Stream \o q)[i] = Stream[i]
          /\ (Stream \o q)[Len(Stream) + 1] = <<event, 0>>
      BY <1>1 DEF Frame
    <3>2. Stream' = Stream \o q
      BY <1>4, <2>1
    <3> HIDE DEF q
    <3>3. \A i \in DOMAIN Stream' : Stream'[i][1] \in Possible(phase) \cup {event}
      BY <1>1, <3>1, <3>2
    <3>4. \A e \in Due(phase) \cup {event} : Shown(Stream', e)
      BY <1>1, <2>1, <3>1, <3>2 DEF Shown
    <3> QED BY <1>6, <3>3, <3>4
  <2>2. CASE ask.form = "plain"
    BY <1>4, <1>5, <2>2
  <2> QED BY <1>5, <2>1, <2>2
<1> HIDE DEF q
<1> QED BY <1>4, <1>6 DEF StreamInv

\* So does a step that shows nothing.
LEMMA Silent ==
  ASSUME StreamInv, Stream' = Stream, UNCHANGED <<ask, report>>, phase' \in Phases,
         out' \in Seq(Frames), queue' \in Seq(Frames),
         ask.form = "plain" => out' = <<>> /\ queue' = <<>>,
         phase' \notin Ended => phase \notin Ended /\ Possible(phase) \subseteq Possible(phase')
                                  /\ Due(phase') \subseteq Due(phase)
  PROVE  StreamInv'
BY DEF StreamInv

\* An early result keeps the grammar: it stands behind the first frame.
LEMMA EarlyStream ==
  ASSUME StreamInv, phase \in {"found", "selected"}, queue = <<>>, UNCHANGED <<ask, out>>,
         NEW status, NEW acknowledged, Early(status, acknowledged)
  PROVE  StreamInv'
<1> DEFINE q == <<Frame("retrieval"), Frame("result")>>
<1>1. /\ Stream \in Seq(Frames) /\ \A i \in DOMAIN Stream : Stream[i][1] = "started"
      /\ ask.form = "stream" => Stream # <<>>
  <2>1. Stream \in Seq(Frames)
    BY DEF Stream, StreamInv
  <2>2. Possible(phase) = {"started"} /\ Due(phase) = {"started"} /\ phase \notin Ended
    BY DEF Possible, Due, Ended
  <2>3. ask.form = "stream" => Shown(Stream, "started")
    BY <2>2 DEF StreamInv
  <2> QED BY <2>1, <2>2, <2>3 DEF StreamInv, Shown
<1>2. /\ q \in Seq(Frames) /\ DOMAIN q = {1, 2}
      /\ q[1] = <<"retrieval", 0>> /\ q[2] = <<"result", 0>>
  BY DEF Frame, Frames, Events
<1>3. Sends(q) /\ phase' = "answered" /\ report'.invoked = FALSE
  BY DEF Sends, Early, Result
<1> HIDE DEF q
<1>4. ask.form = "stream" => Continues(Stream, q, report'.invoked)
  <2>1. \A i \in DOMAIN Stream, j \in DOMAIN q : Follow(Stream[i], q[j])
    BY <1>1, <1>2 DEF Follow, Place
  <2>2. \A i, j \in DOMAIN q : i < j => i = 1 /\ j = 2
    BY <1>2
  <2>3. Follow(q[1], q[2])
    BY <1>2 DEF Follow, Place
  <2>4. ~ Shown(q, "delta") /\ \A j \in DOMAIN q : q[j][1] # "generation"
    BY <1>2 DEF Shown
  <2>5. \A j \in DOMAIN q : q[j][1] = "result" => Before(q, "retrieval", j)
    BY <1>2 DEF Before
  <2>6. ~ Shown(Stream, "generation")
    BY <1>1 DEF Shown
  <2> QED BY <1>1, <1>3, <2>1, <2>2, <2>3, <2>4, <2>5, <2>6 DEF Continues
<1>5. phase' \in Ended /\ phase' \in Phases /\ phase \notin Ended
  BY <1>3 DEF Phases, Ended
<1>6. /\ ask'.form \in {"plain", "stream"} /\ out' \in Seq(Frames) /\ queue' \in Seq(Frames)
      /\ ask'.form = "plain" => out' = <<>> /\ queue' = <<>>
      /\ Grammar(Stream', report'.invoked)
  BY <1>2, <1>3, <1>4, <1>5, Yielded
<1> QED BY <1>5, <1>6 DEF StreamInv

\* The last frames of an answer.
EndFrames(cited, warned) ==
  CitationFrames(cited) \o (IF warned THEN <<Frame("warning")>> ELSE <<>>) \o <<Frame("result")>>

Joins(v, s, t, S) ==
  /\ v \in Seq(S) /\ Len(s) \in Nat /\ Len(t) \in Nat /\ Len(v) = Len(s) + Len(t)
  /\ \A j \in 1 .. Len(s) : v[j] = s[j]
  /\ \A j \in 1 .. Len(t) : v[Len(s) + j] = t[j]

\* One sequence behind another.
LEMMA Joined ==
  ASSUME NEW S, NEW s \in Seq(S), NEW t \in Seq(S)
  PROVE  Joins(s \o t, s, t, S)
BY DEF Joins

\* First the citations, then the warning if there is one, and the result last.
LEMMA EndFramesAre ==
  ASSUME NEW cited \in Seq(Nat), NEW warned
  PROVE  /\ EndFrames(cited, warned) \in Seq(Frames)
         /\ CitationFrames(cited) \in Seq(Frames) /\ Len(CitationFrames(cited)) = Len(cited)
         /\ Len(EndFrames(cited, warned)) \in {Len(cited) + 1, Len(cited) + 2}
         /\ \A j \in 1 .. Len(cited) : EndFrames(cited, warned)[j] = <<"citation", cited[j]>>
         /\ Len(EndFrames(cited, warned)) = Len(cited) + 2 =>
              EndFrames(cited, warned)[Len(cited) + 1] = <<"warning", 0>>
         /\ EndFrames(cited, warned)[Len(EndFrames(cited, warned))] = <<"result", 0>>
<1> DEFINE f == CitationFrames(cited)
           g == IF warned THEN <<Frame("warning")>> ELSE <<>>
           r == <<Frame("result")>>
           n == Len(cited)
<1>1. n \in Nat /\ DOMAIN cited = 1 .. n /\ \A j \in 1 .. n : cited[j] \in Nat
  BY ElementOfSeq
<1>2. f = [j \in 1 .. n |-> <<"citation", cited[j]>>]
  BY <1>1 DEF CitationFrames
<1>3. f \in Seq(Frames) /\ Len(f) = n /\ \A j \in 1 .. n : f[j] = <<"citation", cited[j]>>
  <2> HIDE DEF n
  <2>1. \A j \in 1 .. n : <<"citation", cited[j]>> \in Frames
    BY <1>1 DEF Frames, Events
  <2>2. f \in [1 .. n -> Frames]
    BY <1>2, <2>1
  <2> HIDE DEF f
  <2>3. f \in Seq(Frames) /\ Len(f) = n
    BY <1>1, <2>2
  <2> QED BY <1>2, <2>3
<1>4. /\ g \in Seq(Frames) /\ r \in Seq(Frames) /\ Len(g) \in {0, 1} /\ Len(r) = 1
      /\ Len(g) = 1 => g[1] = <<"warning", 0>>
      /\ r[1] = <<"result", 0>>
  BY DEF Frame, Frames, Events
<1> HIDE DEF f, g, r, n
<1> DEFINE h == f \o g
<1>5. /\ h \in Seq(Frames) /\ Len(h) = n + Len(g)
      /\ \A j \in 1 .. n : h[j] = f[j]
      /\ Len(g) = 1 => h[n + 1] = g[1]
  <2>1. Joins(h, f, g, Frames)
    <3>1. f \in Seq(Frames) /\ g \in Seq(Frames)
      BY <1>3, <1>4
    <3> QED BY <3>1, Joined
  <2>2. Len(g) = 1 => 1 \in 1 .. Len(g)
    OBVIOUS
  <2> HIDE DEF h
  <2> QED BY <1>3, <2>1, <2>2 DEF Joins
<1> DEFINE v == h \o r
<1> HIDE DEF h
<1>6. Len(h) \in Nat /\ Len(h) \in {n, n + 1} /\ (Len(h) = n + 1 => Len(g) = 1)
  <2>1. Len(h) = n + Len(g) /\ Len(g) \in {0, 1}
    BY <1>4, <1>5
  <2>2. CASE Len(g) = 0
    BY <1>1, <2>1, <2>2
  <2>3. CASE Len(g) = 1
    BY <1>1, <2>1, <2>3
  <2> QED BY <2>1, <2>2, <2>3
<1>7. /\ Len(v) = Len(h) + 1
      /\ \A j \in 1 .. Len(h) : v[j] = h[j]
      /\ v \in Seq(Frames) /\ v[Len(h) + 1] = r[1]
  <2>1. Joins(v, h, r, Frames)
    <3>1. h \in Seq(Frames) /\ r \in Seq(Frames)
      BY <1>4, <1>5
    <3> QED BY <3>1, Joined
  <2>2. 1 \in 1 .. Len(r) /\ Len(r) = 1
    BY <1>4
  <2> HIDE DEF v
  <2> QED BY <2>1, <2>2 DEF Joins
<1>8. EndFrames(cited, warned) = v
  BY DEF EndFrames, f, g, h, r
<1> HIDE DEF v
<1>9. 1 .. n \subseteq 1 .. Len(h) /\ (Len(h) = n + 1 => n + 1 \in 1 .. Len(h))
  BY <1>1, <1>6
<1>10. \A j \in 1 .. n : v[j] = <<"citation", cited[j]>>
  BY <1>3, <1>5, <1>7, <1>9
<1>11. Len(h) + 1 = n + 2 => v[n + 1] = <<"warning", 0>>
  <2>1. ASSUME Len(h) + 1 = n + 2 PROVE Len(h) = n + 1
    BY <1>1, <1>6, <2>1
  <2> QED BY <1>4, <1>5, <1>6, <1>7, <1>9, <2>1
<1>12. Len(h) + 1 \in {n + 1, n + 2}
  BY <1>1, <1>6
<1> QED BY <1>3, <1>4, <1>7, <1>8, <1>10, <1>11, <1>12 DEF f, n

\* A sequence over a set is one over any larger set.
LEMMA SeqWiden ==
  ASSUME NEW Q, NEW S, Q \subseteq S, NEW s \in Seq(Q)
  PROVE  s \in Seq(S)
<1>1. Len(s) \in Nat /\ s = [i \in 1 .. Len(s) |-> s[i]] /\ \A i \in 1 .. Len(s) : s[i] \in S
  BY ElementOfSeq
<1> DEFINE n == Len(s)
<1> HIDE DEF n
<1>2. s \in [1 .. n -> S] /\ n \in Nat
  BY <1>1 DEF n
<1> QED BY <1>2

\* Citations are numbers of evidence, each once, and every marker that is known is cited.
LEMMA CitedOnce ==
  ASSUME text \in Seq(Nat), NEW n \in Nat
  PROVE  /\ Citations(Answer, n) \in Seq(1 .. n) /\ Citations(Answer, n) \in Seq(Nat)
         /\ \A i, j \in DOMAIN Citations(Answer, n) : Citations(Answer, n)[i] = Citations(Answer, n)[j] => i = j
         /\ \A i \in DOMAIN Known(Answer, n) :
              \E j \in DOMAIN Citations(Answer, n) : Citations(Answer, n)[j] = Known(Answer, n)[i]
<1>1. Answer \in Seq(Nat \cap 1 .. Unknown)
  BY KeptIn DEF Answer
<1> DEFINE R == Nat \cap 1 .. Unknown
<1> HIDE DEF R
<1>2. Known(Answer, n) \in Seq(R \cap 1 .. n)
  BY <1>1, KeptIn DEF Known, R
<1> DEFINE Q == R \cap 1 .. n
<1>3. Q \subseteq 1 .. n /\ Q \subseteq Nat
  OBVIOUS
<1> HIDE DEF Q
<1>4. /\ Citations(Answer, n) \in Seq(Q)
      /\ \A i, j \in DOMAIN Citations(Answer, n) : Citations(Answer, n)[i] = Citations(Answer, n)[j] => i = j
      /\ \A i \in DOMAIN Known(Answer, n) :
           \E j \in DOMAIN Citations(Answer, n) : Citations(Answer, n)[j] = Known(Answer, n)[i]
  BY <1>2, SeenOnce DEF Citations, Q
<1>5. Citations(Answer, n) \in Seq(1 .. n) /\ Citations(Answer, n) \in Seq(Nat)
  BY <1>3, <1>4, SeqWiden
<1> QED BY <1>4, <1>5

\* They end the stream of an answer that follows generation.
LEMMA EndContinues ==
  ASSUME NEW w \in Seq(Frames), NEW cited \in Seq(Nat), NEW warned,
         \A i, j \in DOMAIN cited : cited[i] = cited[j] => i = j,
         \A i \in DOMAIN w : w[i][1] \in {"started", "retrieval", "generation", "delta"},
         Shown(w, "retrieval"), Shown(w, "generation")
  PROVE  Continues(w, EndFrames(cited, warned), TRUE)
<1> DEFINE q == EndFrames(cited, warned)
           n == Len(cited)
           m == Len(q)
<1>1. /\ n \in Nat /\ DOMAIN cited = 1 .. n
      /\ q \in Seq(Frames) /\ DOMAIN q = 1 .. m /\ m \in {n + 1, n + 2}
      /\ \A j \in 1 .. n : q[j] = <<"citation", cited[j]>>
      /\ m = n + 2 => q[n + 1] = <<"warning", 0>>
      /\ q[m] = <<"result", 0>>
  <2>1. n \in Nat /\ DOMAIN cited = 1 .. n
    OBVIOUS
  <2>2. q \in Seq(Frames)
    BY EndFramesAre
  <2>3. DOMAIN q = 1 .. m
    BY <2>2
  <2> QED BY <2>1, <2>2, <2>3, EndFramesAre
<1> HIDE DEF q, n, m
<1>2. ASSUME NEW j \in 1 .. m
      PROVE  \/ j \in 1 .. n /\ j < m
             \/ j = n + 1 /\ m = n + 2
             \/ j = m /\ n < m
  BY <1>1
<1>3. ASSUME NEW j \in DOMAIN q PROVE q[j][1] \in {"citation", "warning", "result"}
  BY <1>1, <1>2
<1>4. \A i \in DOMAIN w, j \in DOMAIN q : Follow(w[i], q[j])
  <2> SUFFICES ASSUME NEW i \in DOMAIN w, NEW j \in DOMAIN q PROVE Follow(w[i], q[j])
    OBVIOUS
  <2>1. w[i][1] \in {"started", "retrieval", "generation", "delta"} /\ q[j][1] \in {"citation", "warning", "result"}
    BY <1>3
  <2>2. w[i] # q[j]
    BY <2>1
  <2> QED BY <2>1, <2>2 DEF Follow, Place
<1>5. ASSUME NEW i \in DOMAIN q, NEW j \in DOMAIN q, i < j PROVE Follow(q[i], q[j])
  <2>1. i \in 1 .. m /\ j \in 1 .. m /\ m \in Nat /\ i # m
    BY <1>1, <1>5
  <2>2. CASE i \in 1 .. n /\ j \in 1 .. n
    <3>1. cited[i] # cited[j]
      BY <1>1, <1>5, <2>2
    <3> QED BY <1>1, <2>2, <3>1 DEF Follow, Place
  <2>3. CASE i \in 1 .. n /\ j \notin 1 .. n
    <3>1. q[i] = <<"citation", cited[i]>> /\ q[j] \in {<<"warning", 0>>, <<"result", 0>>}
      BY <1>1, <1>2, <2>1, <2>3
    <3> QED BY <3>1 DEF Follow, Place
  <2>4. CASE i \notin 1 .. n
    <3>1. i = n + 1 /\ m = n + 2 /\ j = m
      BY <1>1, <1>2, <1>5, <2>1, <2>4
    <3> QED BY <1>1, <3>1 DEF Follow, Place
  <2> QED BY <2>2, <2>3, <2>4
<1>6. w # <<>>
  BY DEF Shown
<1>7. ~ Shown(q, "delta") /\ \A j \in DOMAIN q : q[j][1] # "generation"
  BY <1>3 DEF Shown
<1> QED BY <1>4, <1>5, <1>6, <1>7 DEF Continues, q

\* What Finish sends.
Finishes(cited, warned) ==
  /\ cited \in Seq(Nat) /\ \A i, j \in DOMAIN cited : cited[i] = cited[j] => i = j
  /\ Sends(EndFrames(cited, warned))
  /\ report'.invoked = TRUE
  /\ report'.status = "completed" => cited = Citations(Answer, Len(evidence))

\* It does, with the citations of a completed answer.
LEMMA FinishSends ==
  ASSUME DataInv, Finish
  PROVE  \E cited, warned : Finishes(cited, warned)
<1>1. PICK e \in Endings :
        LET status == IF e.refused THEN "refused"
                      ELSE IF Contains(text, Marker) THEN "insufficient" ELSE "completed"
            cited == IF status = "completed" THEN Citations(Answer, Len(evidence)) ELSE <<>>
            warned == status = "completed" /\ Warned(Answer, Len(evidence))
            finish == IF status # "completed" THEN None ELSE IF e.finish = None THEN "stop" ELSE e.finish
        IN /\ report' = Result(status, TRUE, Attempted(e.refused), Attempted(e.refused), finish)
           /\ Yield(CitationFrames(cited) \o (IF warned THEN <<Frame("warning")>> ELSE <<>>)
                      \o <<Frame("result")>>)
  BY DEF Finish
<1> DEFINE status == IF e.refused THEN "refused"
                     ELSE IF Contains(text, Marker) THEN "insufficient" ELSE "completed"
           cited == IF status = "completed" THEN Citations(Answer, Len(evidence)) ELSE <<>>
           warned == status = "completed" /\ Warned(Answer, Len(evidence))
<1>2. Yield(EndFrames(cited, warned))
  BY <1>1 DEF EndFrames
<1>3. report'.invoked = TRUE /\ report'.status = status
  BY <1>1 DEF Result
<1>4. Len(evidence) \in Nat /\ text \in Seq(Nat)
  BY DEF DataInv
<1> HIDE DEF status, warned
<1>5. cited \in Seq(Nat) /\ \A i, j \in DOMAIN cited : cited[i] = cited[j] => i = j
  <2>1. CASE status = "completed"
    <3>1. cited = Citations(Answer, Len(evidence))
      BY <2>1
    <3> HIDE DEF cited
    <3> QED BY <1>4, <3>1, CitedOnce
  <2>2. CASE status # "completed"
    <3>1. cited = <<>> /\ <<>> \in Seq(Nat) /\ DOMAIN <<>> = {}
      BY <2>2
    <3> HIDE DEF cited
    <3> QED BY <3>1
  <2> QED BY <2>1, <2>2
<1>6. status = "completed" => cited = Citations(Answer, Len(evidence))
  OBVIOUS
<1> HIDE DEF cited
<1>7. Sends(EndFrames(cited, warned))
  BY <1>2 DEF Sends, Finish, Runs, world
<1> QED BY <1>3, <1>5, <1>6, <1>7 DEF Finishes

\* The final result keeps the grammar.
LEMMA FinishStream ==
  ASSUME DataInv, StreamInv, Finish
  PROVE  StreamInv'
<1>1. phase = "generating" /\ phase' = "answered"
  BY DEF Finish, Runs
<1>2. PICK cited, warned : Finishes(cited, warned)
  BY FinishSends
<1>3. /\ cited \in Seq(Nat) /\ \A i, j \in DOMAIN cited : cited[i] = cited[j] => i = j
      /\ Sends(EndFrames(cited, warned)) /\ report'.invoked = TRUE
  BY <1>2 DEF Finishes
<1>4. /\ Stream \in Seq(Frames)
      /\ \A i \in DOMAIN Stream : Stream[i][1] \in {"started", "retrieval", "generation", "delta"}
      /\ ask.form = "stream" => Shown(Stream, "retrieval") /\ Shown(Stream, "generation")
  <2>1. /\ Possible(phase) = {"started", "retrieval", "generation", "delta"} /\ phase \notin Ended
        /\ Due(phase) = {"started", "retrieval", "generation"}
    BY <1>1 DEF Possible, Due, Ended
  <2>2. Stream \in Seq(Frames)
    BY DEF Stream, StreamInv
  <2> QED BY <2>1, <2>2 DEF StreamInv
<1>5. EndFrames(cited, warned) \in Seq(Frames)
  BY <1>3, EndFramesAre
<1>6. ask.form = "stream" => Continues(Stream, EndFrames(cited, warned), report'.invoked)
  BY <1>3, <1>4, EndContinues
<1>7. phase' \in Ended /\ phase' \in Phases /\ phase \notin Ended
  BY <1>1 DEF Phases, Ended
<1>8. /\ ask'.form \in {"plain", "stream"} /\ out' \in Seq(Frames) /\ queue' \in Seq(Frames)
      /\ ask'.form = "plain" => out' = <<>> /\ queue' = <<>>
      /\ Grammar(Stream', report'.invoked)
  BY <1>3, <1>5, <1>6, <1>7, Yielded
<1> QED BY <1>7, <1>8 DEF StreamInv

\* A failure shows its frame, and keeps the grammar.
LEMMA FailStream ==
  ASSUME StreamInv, phase \in {"selected", "prepared", "calling", "generating"}, queue = <<>>,
         UNCHANGED <<ask, out>>, Fail
  PROVE  StreamInv'
<1>1. /\ phase \notin Ended /\ phase' \in Ended /\ phase' \in Phases /\ "error" \in Events
      /\ "error" \notin Possible(phase) /\ "started" \in Due(phase)
      /\ \A e \in Possible(phase) : Place[e] <= Place["error"]
  BY DEF Fail, Phases, Ended, Possible, Due, Events, Place
<1>2. Sends(<<Frame("error")>>)
  BY DEF Sends, Fail
<1> QED BY <1>1, <1>2, OneFrame

\* The next frame of a phase keeps the grammar.
LEMMA NextFrame ==
  ASSUME StreamInv, queue = <<>>, UNCHANGED <<ask, out>>, NEW event, Yield(<<Frame(event)>>),
         \/ phase = "new" /\ phase' = "opened" /\ event = "started"
         \/ phase = "selected" /\ phase' = "prepared" /\ event = "retrieval"
         \/ phase = "calling" /\ phase' = "generating" /\ event = "generation"
         \/ phase = "generating" /\ phase' = "generating" /\ event = "delta"
  PROVE  StreamInv'
<1>1. Sends(<<Frame(event)>>) /\ event \in Events /\ event # "result"
  BY DEF Sends, Events
<1>2. /\ phase \notin Ended /\ phase' \in Phases
      /\ \A e \in Possible(phase) : Place[e] <= Place[event]
      /\ event \notin Possible(phase) \/ event = "delta"
      /\ event = "started" \/ "started" \in Due(phase)
      /\ event = "delta" => "generation" \in Due(phase)
      /\ Possible(phase) \cup {event} \subseteq Possible(phase')
      /\ Due(phase') \subseteq Due(phase) \cup {event}
  BY DEF Phases, Ended, Possible, Due, Place
<1> QED BY <1>1, <1>2, OneFrame

\* What a step shows: an early result, a failure, the next frame, nothing more at all, or
\* nothing now.
ShowsEarly ==
  /\ phase \in {"found", "selected"} /\ queue = <<>> /\ UNCHANGED <<ask, out>>
  /\ \E status, acknowledged : status # "completed" /\ Early(status, acknowledged)
ShowsError ==
  /\ phase \in {"selected", "prepared", "calling", "generating"}
  /\ queue = <<>> /\ UNCHANGED <<ask, out, report>> /\ Fail
ShowsNext(event) ==
  /\ queue = <<>> /\ UNCHANGED <<ask, out, report>> /\ Yield(<<Frame(event)>>)
  /\ \/ phase = "new" /\ phase' = "opened" /\ event = "started"
     \/ phase = "selected" /\ phase' = "prepared" /\ event = "retrieval"
     \/ phase = "calling" /\ phase' = "generating" /\ event = "generation"
     \/ phase = "generating" /\ phase' = "generating" /\ event = "delta"
Drops ==
  /\ queue' = <<>> /\ phase' \in Ended
  /\ UNCHANGED <<ask, out, report>> /\ (phase \in Ended => UNCHANGED <<text, evidence>>)
ShowsNothing ==
  /\ Stream' = Stream /\ out' \in Seq(Frames) /\ queue' \in Seq(Frames)
  /\ ask.form = "plain" => out' = <<>> /\ queue' = <<>>
  /\ UNCHANGED <<ask, report>> /\ (phase \in Ended => UNCHANGED <<text, evidence>>)
  /\ phase' \in Phases
  /\ phase' \notin Ended => phase \notin Ended /\ Possible(phase) \subseteq Possible(phase')
                              /\ Due(phase') \subseteq Due(phase)

\* Steps that leave the frames alone show nothing.
LEMMA KeepsStream ==
  ASSUME StreamInv, UNCHANGED <<ask, report, queue, out>>,
         \/ phase' = phase /\ UNCHANGED <<text, evidence>>
         \/ phase' = phase /\ phase \notin Ended
         \/ phase = "new" /\ phase' = "failed"
         \/ phase \in {"opened", "filtered", "found"} /\ phase' \in {"filtered", "found", "selected"}
         \/ phase = "prepared" /\ phase' = "calling"
  PROVE  ShowsNothing
<1>1. Stream' = Stream
  BY DEF Stream
<1> QED BY <1>1 DEF StreamInv, ShowsNothing, Phases, Ended, Possible, Due

\* A frame that is written was shown before.
LEMMA WriteShows == ASSUME StreamInv, Write PROVE ShowsNothing
<1>1. /\ out \in Seq(Frames) /\ queue \in Seq(Frames) /\ queue # <<>>
      /\ out' = Append(out, Head(queue)) /\ queue' = Tail(queue)
      /\ UNCHANGED <<ask, report, phase, text, evidence>>
  BY DEF StreamInv, Write, service
<1>2. out' \in Seq(Frames) /\ queue' \in Seq(Frames) /\ out' \o queue' = out \o queue
  BY <1>1
<1> QED BY <1>1, <1>2 DEF StreamInv, ShowsNothing, Stream

\* Every step is one of these or the last of the answer.
LEMMA StepShows ==
  ASSUME StreamInv, [Next]_vars
  PROVE  \/ Finish \/ ShowsEarly \/ ShowsError \/ Drops \/ ShowsNothing
         \/ \E event : ShowsNext(event)
<1> USE DEF Runs, world, service
<1>1. CASE Select
  BY <1>1, KeepsStream DEF Select, ShowsNext
<1>2. CASE Filter
  BY <1>2, KeepsStream DEF Filter
<1>3. CASE Search
  BY <1>3, KeepsStream DEF Search, Crash, Drops, Ended
<1>4. CASE Resolve
  <2>1. CASE Early("insufficient", ask.acknowledged)
    BY <1>4, <2>1 DEF Resolve, ShowsEarly
  <2>2. CASE phase' = "selected" /\ UNCHANGED <<report, queue>>
    BY <1>4, <2>2, KeepsStream DEF Resolve
  <2> QED BY <1>4, <2>1, <2>2 DEF Resolve
<1>5. CASE Decide
  <2>1. CASE Early("confirmation", FALSE)
    BY <1>5, <2>1 DEF Decide, ShowsEarly
  <2>2. CASE Fail /\ report' = report
    BY <1>5, <2>2 DEF Decide, ShowsError
  <2>3. CASE phase' = "prepared" /\ Yield(<<Frame("retrieval")>>) /\ report' = report
    BY <1>5, <2>3 DEF Decide, ShowsNext
  <2> QED BY <1>5, <2>1, <2>2, <2>3 DEF Decide
<1>6. CASE Call
  BY <1>6, KeepsStream DEF Call, ShowsError
<1>7. CASE Begin
  BY <1>7 DEF Begin, ShowsError, ShowsNext
<1>8. CASE Fragment
  BY <1>8 DEF Fragment, ShowsNext
<1>9. CASE Decline
  BY <1>9, KeepsStream DEF Decline
<1>10. CASE Break
  BY <1>10 DEF Break, Crash, ShowsError, Drops, Ended
<1>11. CASE Deadline
  BY <1>11 DEF Deadline, Bounded, Crash, ShowsError, Drops, Ended
<1>12. CASE Leave
  BY <1>12 DEF Leave, Drops, Ended
<1>13. CASE Quiet \/ UNCHANGED vars
  BY <1>13, KeepsStream DEF Quiet, vars
<1>14. ASSUME NEW l \in Locs, Edit(l) PROVE ShowsNothing
  BY <1>14, KeepsStream DEF Edit
<1>15. ASSUME NEW l \in Locs, NEW c \in Contents, Move(c, l) PROVE ShowsNothing
  BY <1>15, KeepsStream DEF Move
<1> QED BY <1>1, <1>2, <1>3, <1>4, <1>5, <1>6, <1>7, <1>8, <1>9, <1>10, <1>11, <1>12, <1>13, <1>14, <1>15,
           WriteShows DEF Next, Serve, Provider

\* Every step keeps the grammar.
LEMMA StreamStep == ASSUME DataInv, StreamInv, [Next]_vars PROVE StreamInv'
<1>1. CASE Finish
  BY <1>1, FinishStream
<1>2. CASE ShowsEarly
  BY <1>2, EarlyStream DEF ShowsEarly
<1>3. CASE ShowsError
  BY <1>3, FailStream DEF ShowsError
<1>4. ASSUME NEW event, ShowsNext(event) PROVE StreamInv'
  BY <1>4, NextFrame DEF ShowsNext
<1>5. CASE Drops
  BY <1>5, Dropped DEF Drops
<1>6. CASE ShowsNothing
  BY <1>6, Silent DEF ShowsNothing
<1> QED BY <1>1, <1>2, <1>3, <1>4, <1>5, <1>6, StepShows

\* The frames of a stream, written or waiting, keep the grammar (generation/ask.py, the event
\* generators; api/v1/routes/ask.py, the response they are written to).
THEOREM StreamHolds == Spec => [](DataInv /\ StreamInv)
<1> QED BY DataInit, DataStep, StreamInit, StreamStep, PTL DEF Spec

\* So do those that were written, wherever the provider, the deadline, an error or the client
\* ended the stream (contracts.md section 8.3).
THEOREM GrammarHolds == Spec => []StreamGrammar
<1>1. ASSUME StreamInv PROVE StreamGrammar
  <2>1. out \in Seq(Frames) /\ Grammar(out, report.invoked)
    BY <1>1, PrefixGrammar DEF StreamInv, Stream
  <2>2. ASSUME Wrote("delta") PROVE Wrote("generation")
    BY <2>1, <2>2 DEF Grammar, Before, Wrote
  <2>3. ASSUME Wrote("result") PROVE Wrote("retrieval") /\ (Wrote("generation") <=> report.invoked)
    <3>1. PICK i \in DOMAIN out : out[i][1] = "result"
      BY <2>3 DEF Wrote
    <3>2. Before(out, "retrieval", i) /\ (Before(out, "generation", i) <=> report.invoked)
      BY <2>1, <3>1 DEF Grammar
    <3>3. \A j \in DOMAIN out : j # i => j < i
      <4>1. \A j \in DOMAIN out : ~ (i < j)
        BY <2>1, <3>1 DEF Grammar, Follow
      <4> QED BY <2>1, <4>1
    <3>4. Wrote("generation") => Before(out, "generation", i)
      BY <3>1, <3>3 DEF Wrote, Before
    <3> QED BY <3>2, <3>4 DEF Wrote, Before
  <2> QED BY <2>1, <2>2, <2>3 DEF StreamGrammar, Grammar, Follow
<1>2. StreamInv => StreamGrammar
  BY <1>1
<1> QED BY <1>2, StreamHolds, PTL

-----------------------------------------------------------------------------
(***************************************************************************)
(* Citations.                                                              *)
(***************************************************************************)

\* Where the citations of a completed answer stand among its frames.
Cited(w, k, cited) ==
  /\ k \in Nat /\ k + Len(cited) <= Len(w)
  /\ \A j \in 1 .. Len(cited) : w[k + j] = <<"citation", cited[j]>>
  /\ \A i \in 1 .. Len(w) : i <= k \/ i > k + Len(cited) => w[i][1] # "citation"

CitesInv ==
  Shown(Stream, "result") /\ report.status = "completed" =>
    \E k : Cited(Stream, k, Citations(Answer, Len(evidence)))

\* There is no result at first.
LEMMA CitesInit == ASSUME Init PROVE CitesInv
<1>1. Stream = <<>>
  BY DEF Init, Stream
<1> QED BY <1>1 DEF CitesInv, Shown

\* One frame that is no result shows none.
LEMMA FrameShows ==
  ASSUME StreamInv, phase \notin Ended, NEW event, event # "result", NEW q, q = <<Frame(event)>>, Sends(q)
  PROVE  ~ Shown(Stream', "result")
<1>1. Stream \in Seq(Frames) /\ ~ Shown(Stream, "result")
  BY NoResult DEF Stream, StreamInv
<1>2. CASE ask.form = "plain"
  <2>1. Stream' = <<>>
    BY <1>2 DEF Sends, Yield, StreamInv, Stream
  <2> QED BY <2>1 DEF Shown
<1>3. CASE ask.form = "stream"
  <2>1. Stream' = Append(Stream, <<event, 0>>)
    BY <1>3 DEF Sends, Yield, StreamInv, Stream, Frame
  <2>2. /\ DOMAIN Stream' = DOMAIN Stream \cup {Len(Stream) + 1}
        /\ \A i \in DOMAIN Stream : Stream'[i] = Stream[i]
        /\ Stream'[Len(Stream) + 1] = <<event, 0>>
    BY <1>1, <2>1
  <2> QED BY <1>1, <2>2 DEF Shown
<1> QED BY <1>2, <1>3 DEF StreamInv

\* A result that is written has nothing waiting behind it.
LEMMA ResultLast ==
  ASSUME StreamInv, Shown(out, "result")
  PROVE  queue = <<>>
<1>1. PICK i \in DOMAIN out : out[i][1] = "result"
  BY DEF Shown
<1>2. out \in Seq(Frames) /\ queue \in Seq(Frames) /\ Grammar(out \o queue, report.invoked)
  BY DEF StreamInv, Stream
<1> SUFFICES ASSUME queue # <<>> PROVE FALSE
  OBVIOUS
<1>3. /\ i \in DOMAIN (out \o queue) /\ (out \o queue)[i] = out[i]
      /\ Len(out) + 1 \in DOMAIN (out \o queue) /\ i < Len(out) + 1
  BY <1>2
<1> QED BY <1>1, <1>2, <1>3 DEF Grammar, Follow

\* The end of a completed answer shows its citations before the result.
LEMMA FinishCites ==
  ASSUME DataInv, StreamInv, Finish
  PROVE  CitesInv'
<1> SUFFICES ASSUME Shown(Stream', "result"), report'.status = "completed"
             PROVE  \E k : Cited(Stream', k, Citations(Answer', Len(evidence')))
  BY DEF CitesInv
<1>1. phase = "generating" /\ text' = text /\ evidence' = evidence
  BY DEF Finish, Runs
<1>2. PICK cited, warned : Finishes(cited, warned)
  BY FinishSends
<1> DEFINE q == EndFrames(cited, warned)
           k == Len(Stream)
           n == Len(cited)
<1>3. cited \in Seq(Nat) /\ Sends(q) /\ cited = Citations(Answer', Len(evidence'))
  BY <1>1, <1>2 DEF Finishes, Answer
<1>4. /\ q \in Seq(Frames) /\ Len(q) \in {n + 1, n + 2}
      /\ \A j \in 1 .. n : q[j] = <<"citation", cited[j]>>
      /\ Len(q) = n + 2 => q[n + 1] = <<"warning", 0>>
      /\ q[Len(q)] = <<"result", 0>>
  BY <1>3, EndFramesAre
<1>5. /\ Stream \in Seq(Frames) /\ k \in Nat /\ DOMAIN Stream = 1 .. k
      /\ \A i \in 1 .. k : Stream[i][1] # "citation"
  <2>1. Stream \in Seq(Frames)
    BY DEF Stream, StreamInv
  <2>2. "citation" \notin Possible(phase) /\ phase \notin Ended
    BY <1>1 DEF Possible, Due, Ended
  <2>3. \A i \in DOMAIN Stream : Stream[i][1] # "citation"
    BY <2>2 DEF StreamInv
  <2> QED BY <2>1, <2>3
<1>6. Stream' = Stream \o q
  <2>1. ask.form = "plain" => Stream' = <<>>
    BY <1>3 DEF Sends, Yield, StreamInv, Stream
  <2>2. ask.form = "stream" => Stream' = Stream \o q
    BY <1>3 DEF Sends, Yield, StreamInv, Stream
  <2> QED BY <2>1, <2>2 DEF Shown, StreamInv
<1>7. n \in Nat
  BY <1>3
<1> HIDE DEF q, n, k
<1>8. Joins(Stream', Stream, q, Frames)
  BY <1>4, <1>5, <1>6, Joined
<1>9. /\ Len(Stream') = k + Len(q)
      /\ \A i \in 1 .. k : Stream'[i] = Stream[i]
      /\ \A j \in 1 .. Len(q) : Stream'[k + j] = q[j]
  BY <1>8 DEF Joins, k
<1>10. 1 .. n \subseteq 1 .. Len(q) /\ k + n <= Len(Stream')
  BY <1>4, <1>5, <1>7, <1>9
<1>11. \A j \in 1 .. n : Stream'[k + j] = <<"citation", cited[j]>>
  BY <1>4, <1>9, <1>10
<1>12. ASSUME NEW i \in 1 .. Len(Stream'), i <= k \/ i > k + n PROVE Stream'[i][1] # "citation"
  <2>1. CASE i <= k
    <3>1. i \in 1 .. k
      BY <1>5, <2>1
    <3> QED BY <1>5, <1>9, <3>1
  <2>2. CASE i > k + n
    <3> DEFINE l == Len(q)
    <3>0. k \in Nat /\ n \in Nat /\ l \in {n + 1, n + 2} /\ i \in 1 .. (k + l)
      BY <1>4, <1>5, <1>7, <1>9
    <3> HIDE DEF l
    <3>1. i - k \in 1 .. l /\ k + (i - k) = i /\ i - k \in {n + 1, l}
      <4>1. CASE l = n + 1
        BY <2>2, <3>0, <4>1
      <4>2. CASE l = n + 2
        BY <2>2, <3>0, <4>2
      <4> QED BY <3>0, <4>1, <4>2
    <3> USE DEF l
    <3>2. q[i - k] \in {<<"warning", 0>>, <<"result", 0>>}
      BY <1>4, <1>7, <3>1
    <3>3. Stream'[i] = q[i - k]
      BY <1>9, <3>1
    <3> QED BY <3>2, <3>3
  <2> QED BY <1>12, <2>1, <2>2
<1> QED BY <1>3, <1>5, <1>10, <1>11, <1>12 DEF Cited, n

\* Every step keeps them there.
LEMMA CitesStep == ASSUME DataInv, StreamInv, CitesInv, [Next]_vars PROVE CitesInv'
<1>1. CASE Finish
  BY <1>1, FinishCites
<1>2. CASE ShowsEarly
  <2>1. report'.status # "completed"
    BY <1>2 DEF ShowsEarly, Early, Result
  <2> QED BY <2>1 DEF CitesInv
<1>3. CASE ShowsError
  <2>1. Sends(<<Frame("error")>>) /\ phase \notin Ended
    BY <1>3 DEF ShowsError, Fail, Sends, Ended
  <2>2. ~ Shown(Stream', "result")
    BY <2>1, FrameShows
  <2> QED BY <2>2 DEF CitesInv
<1>4. ASSUME NEW event, ShowsNext(event) PROVE CitesInv'
  <2>1. Sends(<<Frame(event)>>) /\ phase \notin Ended /\ event # "result"
    BY <1>4 DEF ShowsNext, Sends, Ended
  <2>2. ~ Shown(Stream', "result")
    BY <2>1, FrameShows
  <2> QED BY <2>2 DEF CitesInv
<1>5. CASE Drops
  <2>1. Stream' = out /\ report' = report
    BY <1>5 DEF Drops, Stream, StreamInv
  <2>2. CASE Shown(out, "result")
    <3>0. queue = <<>> /\ out \in Seq(Frames)
      BY <2>2, ResultLast DEF StreamInv
    <3>1. Stream' = Stream
      BY <2>1, <3>0 DEF Stream
    <3>2. phase \in Ended
      BY <2>1, <2>2, <3>1, NoResult
    <3>3. UNCHANGED <<text, evidence>>
      BY <1>5, <3>2 DEF Drops
    <3> QED BY <2>1, <3>1, <3>3 DEF CitesInv, Answer
  <2>3. CASE ~ Shown(out, "result")
    BY <2>1, <2>3 DEF CitesInv
  <2> QED BY <2>2, <2>3
<1>6. CASE ShowsNothing
  <2>1. Stream' = Stream /\ report' = report
    BY <1>6 DEF ShowsNothing
  <2>2. CASE phase \in Ended
    <3>1. UNCHANGED <<text, evidence>>
      BY <1>6, <2>2 DEF ShowsNothing
    <3> QED BY <2>1, <3>1 DEF CitesInv, Answer
  <2>3. CASE phase \notin Ended
    BY <2>1, <2>3, NoResult DEF CitesInv
  <2> QED BY <2>2, <2>3
<1> QED BY <1>1, <1>2, <1>3, <1>4, <1>5, <1>6, StepShows

\* Then numbers point at citations, and those at evidence.
LEMMA CitesTrue ==
  ASSUME DataInv, StreamInv, CitesInv
  PROVE  AnswerCites
<1> SUFFICES ASSUME Wrote("result"), report.status = "completed"
             PROVE  LET cited == Kept(out, {"citation"} \X Nat)
                        numbers == Rewritten(Answer, Len(evidence))
                    IN /\ \A i \in DOMAIN numbers :
                            /\ numbers[i] \in DOMAIN cited
                            /\ cited[numbers[i]][2] = Known(Answer, Len(evidence))[i]
                       /\ \A f \in ToSet(cited) : f[2] \in DOMAIN evidence
  BY DEF AnswerCites
<1> DEFINE n == Len(evidence)
           c == Citations(Answer, n)
           K == {"citation"} \X Nat
<1>1. n \in Nat /\ DOMAIN evidence = 1 .. n /\ text \in Seq(Nat)
  BY DEF DataInv
<1> HIDE DEF n
<1>2. /\ c \in Seq(1 .. n) /\ c \in Seq(Nat)
      /\ \A i \in DOMAIN Known(Answer, n) : \E j \in DOMAIN c : c[j] = Known(Answer, n)[i]
  BY <1>1, CitedOnce
<1>3. Shown(out, "result") /\ queue = <<>> /\ out = Stream /\ out \in Seq(Frames)
  <2>1. Shown(out, "result")
    BY DEF Wrote, Shown
  <2>2. queue = <<>>
    BY <2>1, ResultLast
  <2> QED BY <2>1, <2>2 DEF StreamInv, Stream
<1>4. PICK k : Cited(out, k, c)
  BY <1>3 DEF CitesInv, n
<1> HIDE DEF c
<1> DEFINE q == CitationFrames(c)
<1>5. /\ q \in Seq(Frames) /\ Len(q) = Len(c) /\ DOMAIN q = 1 .. Len(c) /\ DOMAIN c = 1 .. Len(c)
      /\ \A j \in 1 .. Len(c) : q[j] = <<"citation", c[j]>> /\ c[j] \in 1 .. n /\ c[j] \in Nat
  <2>1. q \in Seq(Frames) /\ Len(q) = Len(c)
    BY <1>2, EndFramesAre
  <2>2. DOMAIN c = 1 .. Len(c) /\ \A j \in 1 .. Len(c) : c[j] \in 1 .. n /\ c[j] \in Nat
    <3>1. DOMAIN c = 1 .. Len(c) /\ \A j \in 1 .. Len(c) : c[j] \in Nat
      BY <1>2
    <3>2. \A j \in 1 .. Len(c) : c[j] \in 1 .. n
      BY <1>2, ElementOfSeq
    <3> QED BY <3>1, <3>2
  <2>3. DOMAIN q = DOMAIN c /\ \A j \in DOMAIN c : q[j] = <<"citation", c[j]>>
    BY DEF CitationFrames
  <2> QED BY <2>1, <2>2, <2>3
<1> HIDE DEF q
<1>6. Kept(out, K) = q
  <2>1. /\ k \in Nat /\ k + Len(q) <= Len(out)
        /\ \A j \in 1 .. Len(q) : out[k + j] = q[j] /\ q[j] \in K
        /\ \A i \in 1 .. Len(out) : i <= k \/ i > k + Len(q) => out[i] \notin K
    <3>1. \A f : f \in K => f[1] = "citation"
      OBVIOUS
    <3>2. ASSUME NEW j \in 1 .. Len(c) PROVE q[j] \in K
      <4>1. q[j] = <<"citation", c[j]>> /\ c[j] \in Nat
        BY <1>5
      <4> QED BY <4>1
    <3> HIDE DEF K
    <3> QED BY <1>4, <1>5, <3>1, <3>2 DEF Cited
  <2> HIDE DEF K
  <2> QED BY <1>3, <1>5, <2>1, KeptBetween
<1> DEFINE numbers == Rewritten(Answer, n)
<1>7. ASSUME NEW i \in DOMAIN numbers
      PROVE  numbers[i] \in DOMAIN q /\ q[numbers[i]][2] = Known(Answer, n)[i]
  <2>1. i \in DOMAIN Known(Answer, n) /\ numbers[i] = CHOOSE o \in DOMAIN c : c[o] = Known(Answer, n)[i]
    BY <1>7 DEF Rewritten, c
  <2>2. numbers[i] \in DOMAIN c /\ c[numbers[i]] = Known(Answer, n)[i]
    BY <1>2, <2>1
  <2> QED BY <1>5, <2>2
<1>8. \A f \in ToSet(q) : f[2] \in DOMAIN evidence
  BY <1>1, <1>5 DEF ToSet
<1> QED BY <1>6, <1>7, <1>8 DEF n

\* The numbers in a completed answer point at the citations that were sent with it, and those
\* at evidence (generation/rag.py, the citation map and the rewriting of markers), for every
\* text a provider may send.
THEOREM CitesHold == Spec => []AnswerCites
<1>1. Spec => [](DataInv /\ StreamInv /\ CitesInv)
  BY DataInit, DataStep, StreamInit, StreamStep, CitesInit, CitesStep, PTL DEF Spec
<1>2. DataInv /\ StreamInv /\ CitesInv => AnswerCites
  BY CitesTrue
<1> QED BY <1>1, <1>2, PTL
-----------------------------------------------------------------------------
(***************************************************************************)
(* Types.                                                                  *)
(***************************************************************************)

WorldType ==
  /\ policy \in [Locs -> {"allow", "deny", "gone"}] /\ held \in [Contents -> SUBSET Locs]
  /\ ask \in Request /\ denying \subseteq Locs /\ edits \in 0 .. MaxEdits

ServiceType ==
  /\ allowed \subseteq Contents /\ hits \in BoundedSeq(Chunks, TopK)
  /\ sources \subseteq Locs /\ wire \in {<<>>, evidence}
  /\ text \in BoundedSeq(0 .. Marker, MaxText) /\ refusal \in BOOLEAN
  /\ report \in Report \cup {None}

\* What goes on around the service keeps its types.
LEMMA WorldStep == ASSUME WorldType, [Next]_vars PROVE WorldType'
<1> USE DEF WorldType
<1>1. ASSUME NEW l \in Locs, Edit(l) PROVE WorldType'
  <2>1. PICK p \in {"allow", "deny", "gone"} :
          /\ policy' = [policy EXCEPT ![l] = p]
          /\ held' = IF p = "gone" THEN [c \in Contents |-> held[c] \ {l}] ELSE held
          /\ denying' = IF p = "allow" THEN denying \ {l} ELSE denying
    BY <1>1 DEF Edit
  <2>2. edits' \in 0 .. MaxEdits /\ ask' = ask
    BY <1>1, AskAssumption DEF Edit
  <2> QED BY <2>1, <2>2
<1>2. ASSUME NEW l \in Locs, NEW c \in Contents, Move(c, l) PROVE WorldType'
  <2>1. \E S \in SUBSET Locs : held' = [held EXCEPT ![c] = S]
    <3>1. held' = [held EXCEPT ![c] = IF l \in held[c] THEN held[c] \ {l} ELSE held[c] \cup {l}]
      BY <1>2 DEF Move
    <3>2. held[c] \in SUBSET Locs
      OBVIOUS
    <3> QED BY <3>1, <3>2
  <2>2. edits' \in 0 .. MaxEdits /\ UNCHANGED <<policy, denying, ask>>
    BY <1>2, AskAssumption DEF Move
  <2> QED BY <2>1, <2>2
<1>3. CASE Resolve
  <2>1. denying' = {l \in Locs : policy[l] # "allow"} /\ UNCHANGED <<policy, held, edits, ask>>
    BY <1>3 DEF Resolve
  <2> QED BY <2>1
<1>4. ASSUME \/ Select \/ Filter \/ Search \/ Decide \/ Call \/ Deadline \/ Provider
             \/ Write \/ Leave \/ Quiet \/ UNCHANGED vars
      PROVE  WorldType'
  <2>1. UNCHANGED world /\ ask' = ask
    BY <1>4, Zenon DEF Select, Filter, Search, Decide, Call, Deadline, Provider, Begin, Fragment,
       Decline, Break, Finish, Write, Leave, Quiet, vars
  <2> QED BY <2>1 DEF world
<1> QED BY <1>1, <1>2, <1>3, <1>4 DEF Next, Serve

\* The results that the service makes.
LEMMA ResultType ==
  ASSUME DataInv, NEW status \in {"completed", "insufficient", "refused", "confirmation"},
         NEW invoked \in BOOLEAN, NEW acknowledged \in BOOLEAN, NEW attempted \in BOOLEAN,
         NEW finish \in {"stop", "length", None}
  PROVE  Result(status, invoked, acknowledged, attempted, finish) \in Report
<1>1. Len(evidence) \in Nat
  BY DEF DataInv
<1>2. (IF attempted THEN Len(evidence) ELSE 0) \in Nat
  BY <1>1
<1> QED BY <1>2 DEF Result, Report

\* Nothing is within every bound.
LEMMA EmptyBounded == ASSUME NEW S, NEW n \in Nat PROVE <<>> \in BoundedSeq(S, n)
<1>1. <<>> \in Seq(S) /\ Len(<<>>) <= n
  OBVIOUS
<1> QED BY <1>1, BoundedMember

\* The service keeps its own.
LEMMA ServiceStep ==
  ASSUME WorldType, ServiceType, DataInv, WireInv, [Next]_vars
  PROVE  ServiceType'
<1> USE DEF ServiceType, Runs
<1>1. TopK \in Nat /\ MaxText \in Nat /\ Marker \in Nat
  BY EvidenceAssumption, AskAssumption DEF Marker
<1>2. CASE Select \/ Filter
  BY <1>2, Zenon DEF Select, Filter
<1>3. CASE Search
  <2>1. hits' \in BoundedSeq(Chunks, TopK)
    BY <1>3, RankingsChunks DEF Search
  <2> QED BY <1>3, <2>1 DEF Search
<1>4. ASSUME NEW status \in {"insufficient", "confirmation"}, NEW acknowledged \in BOOLEAN,
             Early(status, acknowledged)
      PROVE  report' \in Report
  <2>1. (IsExternal /\ acknowledged) \in BOOLEAN
    BY Zenon DEF IsExternal
  <2>2. report' = Result(status, FALSE, IsExternal /\ acknowledged, FALSE, None)
    BY <1>4, Zenon DEF Early
  <2>3. Result(status, FALSE, IsExternal /\ acknowledged, FALSE, None) \in Report
    <3> DEFINE both == IsExternal /\ acknowledged
    <3> HIDE DEF both
    <3> SUFFICES Result(status, FALSE, both, FALSE, None) \in Report
      BY DEF both
    <3> QED BY <2>1, ResultType DEF both
  <2> QED BY <2>2, <2>3
<1>5. ask.acknowledged \in BOOLEAN
  BY DEF WorldType, Request

<1>6. CASE Resolve
  <2>1. sources' \subseteq Locs
    <3>1. hits \in Seq(Chunks) /\ evidence' = SelectEvidence(hits)
      BY <1>6 DEF Resolve, DataInv
    <3>2. evidence' \in Seq(Blocks)
      BY <3>1, EvidenceFits
    <3>3. ASSUME NEW b \in ToSet(evidence') PROVE held[ContentOf[b.chunk]] \subseteq Locs
      <4>1. b.chunk \in Chunks
        <5>1. PICK i \in DOMAIN evidence' : b = evidence'[i]
          BY DEF ToSet
        <5>2. b \in Blocks
          BY <3>2, <5>1, ElementOfSeq
        <5> QED BY <5>2 DEF Blocks
      <4>2. ContentOf[b.chunk] \in Contents
        BY <4>1, AskAssumption DEF Contents
      <4> QED BY <4>2 DEF WorldType
    <3>4. sources' = UNION {held[ContentOf[b.chunk]] : b \in ToSet(evidence')}
      BY <1>6, <3>1 DEF Resolve
    <3> QED BY <3>3, <3>4
  <2>2. report' \in Report \cup {None}
    BY <1>4, <1>5, <1>6 DEF Resolve
  <2>3. wire' = <<>> /\ UNCHANGED <<allowed, hits, text, refusal>>
    BY <1>6 DEF Resolve, WireInv, Unsent
  <2> QED BY <2>1, <2>2, <2>3
<1>7. CASE Decide
  <2>1. hits' \in BoundedSeq(Chunks, TopK)
    BY <1>1, <1>7, EmptyBounded DEF Decide
  <2>2. report' \in Report \cup {None}
    BY <1>4, <1>5, <1>7 DEF Decide
  <2>3. UNCHANGED <<allowed, evidence, sources, wire, text, refusal>>
    BY <1>7 DEF Decide
  <2> QED BY <2>1, <2>2, <2>3
<1>8. CASE Call
  BY <1>8 DEF Call
<1>9. CASE Begin \/ Decline \/ Break \/ Deadline
  <2>1. UNCHANGED <<allowed, hits, evidence, sources, wire, text, report>> /\ refusal' \in BOOLEAN
    BY <1>9, Zenon DEF Begin, Decline, Break, Deadline
  <2> QED BY <2>1
<1>10. CASE Fragment
  <2>1. PICK m \in 0 .. Marker : text' = Append(text, m)
    BY <1>10 DEF Fragment
  <2>2. text \in Seq(0 .. Marker) /\ Len(text) < MaxText
    BY <1>1, <1>10, BoundedMember DEF Fragment
  <2>3. text' \in Seq(0 .. Marker) /\ Len(text') <= MaxText
    BY <1>1, <2>1, <2>2
  <2>4. text' \in BoundedSeq(0 .. Marker, MaxText)
    BY <1>1, <2>3, BoundedMember
  <2> QED BY <1>10, <2>4 DEF Fragment
<1>11. CASE Finish
  <2>1. PICK e \in Endings :
          LET status == IF e.refused THEN "refused"
                        ELSE IF Contains(text, Marker) THEN "insufficient" ELSE "completed"
              finish == IF status # "completed" THEN None ELSE IF e.finish = None THEN "stop" ELSE e.finish
          IN report' = Result(status, TRUE, Attempted(e.refused), Attempted(e.refused), finish)
    BY <1>11, Zenon DEF Finish
  <2>2. e.finish \in {"stop", "length", None} /\ Attempted(e.refused) \in BOOLEAN
    BY DEF Endings, Attempted, IsExternal
  <2> DEFINE status == IF e.refused THEN "refused"
                       ELSE IF Contains(text, Marker) THEN "insufficient" ELSE "completed"
             finish == IF status # "completed" THEN None ELSE IF e.finish = None THEN "stop" ELSE e.finish
  <2>3. status \in {"completed", "insufficient", "refused"} /\ finish \in {"stop", "length", None}
    <3>1. status \in {"completed", "insufficient", "refused"}
      OBVIOUS
    <3> HIDE DEF status
    <3> QED BY <2>2, <3>1
  <2>4. report' = Result(status, TRUE, Attempted(e.refused), Attempted(e.refused), finish)
    BY <2>1, Zenon
  <2>5. report' \in Report
    <3> HIDE DEF status, finish
    <3> QED BY <2>2, <2>3, <2>4, ResultType
  <2> QED BY <1>11, <2>5 DEF Finish
<1>12. CASE Write \/ Quiet \/ UNCHANGED vars
  BY <1>12, Zenon DEF Write, Quiet, vars, service
<1>13. CASE Leave
  BY <1>13, Zenon DEF Leave
<1>14. ASSUME NEW l \in Locs, Edit(l) PROVE ServiceType'
  BY <1>14, Zenon DEF Edit, service
<1>15. ASSUME NEW l \in Locs, NEW c \in Contents, Move(c, l) PROVE ServiceType'
  BY <1>15, Zenon DEF Move, service
<1> QED BY <1>2, <1>3, <1>6, <1>7, <1>8, <1>9, <1>10, <1>11, <1>12, <1>13, <1>14, <1>15
       DEF Next, Serve, Provider

\* They hold at first.
LEMMA TypeInit == ASSUME Init PROVE WorldType /\ ServiceType
<1>1. <<>> \in BoundedSeq(Chunks, TopK) /\ <<>> \in BoundedSeq(0 .. Marker, MaxText)
  <2>1. TopK \in Nat /\ MaxText \in Nat
    BY EvidenceAssumption, AskAssumption
  <2> QED BY <2>1, EmptyBounded
<1>2. WorldType
  <2>1. Home \in [Contents -> SUBSET Locs]
    BY AskAssumption DEF Contents
  <2>2. 0 \in 0 .. MaxEdits
    BY AskAssumption
  <2> QED BY <2>1, <2>2 DEF Init, WorldType
<1>3. ServiceType
  BY <1>1 DEF Init, ServiceType
<1> QED BY <1>2, <1>3

\* All the state of a question has its types (generation/ask.py, generation/rag.py): the evidence
\* and the text of an answer keep their bounds, and only frames of the protocol are made.
THEOREM TypesHold == Spec => []TypeOK
<1>1. ASSUME Inv, DataInv, StreamInv, WorldType, ServiceType, [Next]_vars
      PROVE  (WorldType /\ ServiceType)'
  BY <1>1, WorldStep, ServiceStep DEF Inv
<1>2. ASSUME StreamInv, WorldType, ServiceType PROVE TypeOK
  <2>1. \A f \in ToSet(queue \o out) : f \in Events \X Nat
    <3>1. queue \o out \in Seq(Frames)
      BY <1>2 DEF StreamInv
    <3> QED BY <3>1 DEF ToSet, Frames
  <2> QED BY <1>2, <2>1 DEF StreamInv, WorldType, ServiceType, TypeOK
<1> QED BY InvHolds, StreamHolds, TypeInit, <1>1, <1>2, PTL DEF Spec
======================================================================
