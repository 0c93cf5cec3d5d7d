-------------------------------- MODULE Ask --------------------------------
(***************************************************************************)
(* One question, from the request to the last frame: eligibility, search,  *)
(* evidence, the policy for external providers, generation under a         *)
(* deadline, the result and what it reports.  (api/v1/routes/ask.py,       *)
(* generation/, retrieval/service.py.)                                     *)
(*                                                                         *)
(* Meanwhile locations change their policy or go away and files change.    *)
(* The provider sends what it likes.  A stream is a chain of generators:   *)
(* each frame is written before the next one is produced.  Text is its     *)
(* markers; a marker above MaxBlocks is either one nobody gave (Unknown)   *)
(* or the model's word that the evidence does not answer (Marker).         *)
(***************************************************************************)
EXTENDS Evidence

CONSTANTS
  Locs,      \* location uuids
  Home,      \* the locations that hold each content object at first
  Filters,   \* source filters a request may name, or None
  MaxText,   \* bound on the fragments a provider sends
  MaxEdits,  \* bound on changes to locations and entries during the ask
  None

ASSUME AskAssumption ==
  /\ Home \in [{ContentOf[c] : c \in Chunks} -> SUBSET Locs]
  /\ MaxText \in Nat /\ MaxEdits \in Nat /\ None \notin Locs
  /\ Filters \subseteq Locs \cup {None}

VARIABLES
  policy,    \* external_generation_policy of each location, "gone" once deleted
  held,      \* the locations with a current entry of each content object
  ask,       \* the request and the settings that bear on it
  phase,     \* where the service is
  allowed,   \* content objects that pass the filters, until the search
  hits,      \* what the search returned, until the evidence is decided on
  evidence,  \* the selected blocks
  sources,   \* the locations their paths name, as resolved
  wire,      \* the blocks sent to the provider
  text,      \* fragments received
  refusal,   \* the provider has begun to refuse
  report,    \* the AskResult
  queue,     \* frames yielded and not written
  out,       \* frames written
  denying,   \* history: locations that have denied external use ever since paths were resolved
  edits

service == <<phase, allowed, hits, evidence, sources, wire, text, refusal, report>>
world == <<policy, held, denying, edits>>
vars == <<world, ask, service, queue, out>>

Contents == DOMAIN Home
Unknown == MaxBlocks + 1
Marker == MaxBlocks + 2

\* What opens an external provider: is_eligible and build_registry.
Gates == {"registered", "enabled", "listed", "secret"}

Request == [form : {"plain", "stream"}, provider : {"ollama", "openai"}, acknowledged : BOOLEAN,
            filter : Filters \cup {None}, gates : SUBSET Gates]
Report == [status : {"completed", "insufficient", "refused", "confirmation"}, invoked : BOOLEAN,
           acknowledged : BOOLEAN, attempted : BOOLEAN, blocks : Nat, finish : {"stop", "length", None}]
Events == {"started", "retrieval", "generation", "delta", "citation", "warning", "result", "error"}
Ended == {"answered", "failed", "cut", "left"}
Phases == {"new", "opened", "filtered", "found", "selected", "prepared", "calling", "generating"} \cup Ended

TypeOK ==
  /\ policy \in [Locs -> {"allow", "deny", "gone"}] /\ held \in [Contents -> SUBSET Locs]
  /\ ask \in Request /\ phase \in Phases
  /\ allowed \subseteq Contents /\ hits \in BoundedSeq(Chunks, TopK)
  /\ sources \subseteq Locs /\ wire \in {<<>>, evidence}
  /\ text \in BoundedSeq(0 .. Marker, MaxText) /\ refusal \in BOOLEAN
  /\ report \in Report \cup {None}
  /\ \A f \in ToSet(queue \o out) : f \in Events \X Nat
  /\ denying \subseteq Locs /\ edits \in 0 .. MaxEdits

IsExternal == ask.provider = "openai"

\* The gates bear on external providers only.
Init ==
  /\ policy \in [Locs -> {"allow", "deny"}] /\ held = Home
  /\ ask \in {a \in Request : a.provider = "ollama" => a.gates = {}}
  /\ phase = "new" /\ allowed = {} /\ hits = <<>> /\ evidence = <<>> /\ sources = {}
  /\ wire = <<>> /\ text = <<>> /\ refusal = FALSE /\ report = None
  /\ queue = <<>> /\ out = <<>> /\ denying = {} /\ edits = 0

----------------------------------------------------------------------------
\* The generators run on once every frame they yielded is written.
Runs(from) == phase = from /\ queue = <<>>

Frame(event) == <<event, 0>>
Yield(frames) == queue' = IF ask.form = "stream" THEN frames ELSE <<>>

\* A GenerationError: the error frame, or a Problem.
Fail == phase' = "failed" /\ Yield(<<Frame("error")>>)

\* Any other exception: the stream ends there, or a 500.
Crash == phase' = "cut" /\ queue' = <<>>

\* require_eligible, before the response begins.
Select ==
  /\ Runs("new")
  /\ IF IsExternal /\ ask.gates # Gates
       THEN phase' = "failed" /\ UNCHANGED queue
       ELSE phase' = "opened" /\ Yield(<<Frame("started")>>)
  /\ UNCHANGED <<world, ask, allowed, hits, evidence, sources, wire, text, refusal, report, out>>

\* _allowed_content_ids.
Filter ==
  /\ Runs("opened")
  /\ allowed' = {c \in Contents : ask.filter # None => ask.filter \in held[c]}
  /\ phase' = "filtered"
  /\ UNCHANGED <<world, ask, hits, evidence, sources, wire, text, refusal, report, queue, out>>

Ranked == {s \in BoundedSeq(Chunks, TopK) : Cardinality(ToSet(s)) = Len(s)}
Rankings == {Fused(v, k) : v, k \in Ranked}

\* The collection ranks any of its points of the allowed objects, twice.
Search ==
  /\ Runs("filtered")
  /\ \/ /\ \E r \in Rankings : (\A c \in ToSet(r) : ContentOf[c] \in allowed) /\ hits' = r
        /\ phase' = "found" /\ UNCHANGED queue
     \/ Crash /\ UNCHANGED hits
  /\ allowed' = {}
  /\ UNCHANGED <<world, ask, evidence, sources, wire, text, refusal, report, out>>

Result(status, invoked, acknowledged, attempted, finish) ==
  [status |-> status, invoked |-> invoked, acknowledged |-> acknowledged, attempted |-> attempted,
   blocks |-> IF attempted THEN Len(evidence) ELSE 0, finish |-> finish]

\* A result without the provider: it follows the retrieval summary and ends the ask.
Early(status, acknowledged) ==
  /\ report' = Result(status, FALSE, IsExternal /\ acknowledged, FALSE, None)
  /\ phase' = "answered"
  /\ Yield(<<Frame("retrieval"), Frame("result")>>)

\* _resolve_paths and select_evidence.
Resolve ==
  LET blocks == SelectEvidence(hits)
  IN /\ Runs("found")
     /\ evidence' = blocks
     /\ sources' = UNION {held[ContentOf[b.chunk]] : b \in ToSet(blocks)}
     /\ denying' = {l \in Locs : policy[l] # "allow"}
     /\ IF blocks = <<>>
          THEN Early("insufficient", ask.acknowledged)
          ELSE phase' = "selected" /\ UNCHANGED <<report, queue>>
     /\ UNCHANGED <<policy, held, edits, ask, allowed, hits, wire, text, refusal, out>>

\* Mutant: only a location that is there can deny.
Objects(l) == policy[l] = "deny"

\* evidence_source_policies: a location that is gone denies.
Denies(l) == policy[l] # "allow"

\* _source_policies and evaluate_external_policy, for an external provider.
Decide ==
  /\ Runs("selected")
  /\ IF ~ IsExternal
       THEN phase' = "prepared" /\ Yield(<<Frame("retrieval")>>) /\ UNCHANGED report
     ELSE IF "enabled" \notin ask.gates \/ \E l \in sources : Denies(l)
       THEN Fail /\ UNCHANGED report
     ELSE IF ~ ask.acknowledged THEN Early("confirmation", FALSE)
     ELSE phase' = "prepared" /\ Yield(<<Frame("retrieval")>>) /\ UNCHANGED report
  /\ hits' = <<>>
  /\ UNCHANGED <<world, ask, allowed, evidence, sources, wire, text, refusal, out>>

----------------------------------------------------------------------------
\* The request goes out with every block, unless there is no connection.
Call ==
  /\ Runs("prepared")
  /\ \/ wire' = evidence /\ phase' = "calling" /\ UNCHANGED queue
     \/ Fail /\ UNCHANGED wire
  /\ UNCHANGED <<world, ask, allowed, hits, evidence, sources, text, refusal, report, out>>

\* The response begins, or is an error.
Begin ==
  /\ Runs("calling")
  /\ \/ phase' = "generating" /\ Yield(<<Frame("generation")>>)
     \/ Fail
  /\ UNCHANGED <<world, ask, allowed, hits, evidence, sources, wire, text, refusal, report, out>>

Fragment ==
  /\ Runs("generating") /\ Len(text) < MaxText
  /\ \E m \in 0 .. Marker : text' = Append(text, m)
  /\ Yield(<<Frame("delta")>>)
  /\ UNCHANGED <<world, ask, phase, allowed, hits, evidence, sources, wire, refusal, report, out>>

\* A refusal is gathered until the response is complete.
Decline ==
  /\ Runs("generating") /\ IsExternal /\ ~ refusal
  /\ refusal' = TRUE
  /\ UNCHANGED <<world, ask, phase, allowed, hits, evidence, sources, wire, text, report, queue, out>>

\* An error event or a broken connection; a line that is not JSON is no GenerationError.
Break ==
  /\ Runs("generating")
  /\ \/ Fail
     \/ ~ IsExternal /\ Crash
  /\ UNCHANGED <<world, ask, allowed, hits, evidence, sources, wire, text, refusal, report, out>>

\* How a response can end: done, cut at the limit, or without a last event.
Endings ==
  {[finish |-> "stop", refused |-> refusal], [finish |-> "length", refused |-> FALSE],
   [finish |-> None, refused |-> FALSE]}

\* Mutant: a refused request counts as one that was not made.
AttemptedUnlessRefused(refused) == IsExternal /\ ~ refused

Attempted(refused) == IsExternal

Answer == Kept(text, 1 .. Unknown)

CitationFrames(cited) == [i \in DOMAIN cited |-> <<"citation", cited[i]>>]

\* The stream ends and _finalize makes the result of it.
Finish ==
  /\ Runs("generating")
  /\ \E e \in Endings :
       LET status == IF e.refused THEN "refused"
                     ELSE IF Contains(text, Marker) THEN "insufficient" ELSE "completed"
           cited == IF status = "completed" THEN Citations(Answer, Len(evidence)) ELSE <<>>
           warned == status = "completed" /\ Warned(Answer, Len(evidence))
           finish == IF status # "completed" THEN None ELSE IF e.finish = None THEN "stop" ELSE e.finish
       IN /\ report' = Result(status, TRUE, Attempted(e.refused), Attempted(e.refused), finish)
          /\ Yield(CitationFrames(cited) \o (IF warned THEN <<Frame("warning")>> ELSE <<>>)
                     \o <<Frame("result")>>)
  /\ phase' = "answered"
  /\ UNCHANGED <<world, ask, allowed, hits, evidence, sources, wire, text, refusal, out>>

\* Mutant: the deadline ends when the response begins.
BoundedCall == {"calling"}
\* Mutant: the deadline outlives the response.
BoundedForever == {"calling", "generating", "answered"}

Bounded == {"calling", "generating"}

\* asyncio.timeout cancels the task wherever it waits: for the provider, which becomes
\* provider_timeout, or for the client to take a frame, which ends the response.
Deadline ==
  /\ phase \in Bounded
  /\ IF queue = <<>> THEN Fail ELSE Crash
  /\ UNCHANGED <<world, ask, allowed, hits, evidence, sources, wire, text, refusal, report, out>>

----------------------------------------------------------------------------
Write ==
  /\ queue # <<>>
  /\ out' = Append(out, Head(queue)) /\ queue' = Tail(queue)
  /\ UNCHANGED <<world, ask, service>>

\* The client of a stream disconnects: whatever runs for it is cancelled.
Leave ==
  /\ ask.form = "stream" /\ phase # "new" /\ (phase \notin Ended \/ queue # <<>>)
  /\ phase' = "left" /\ queue' = <<>>
  /\ UNCHANGED <<world, ask, allowed, hits, evidence, sources, wire, text, refusal, report, out>>

\* The owner changes a location's policy or deletes it, with its entries.
Edit(l) ==
  /\ edits < MaxEdits /\ phase \notin Ended /\ wire = <<>> /\ policy[l] # "gone"
  /\ \E p \in {"allow", "deny", "gone"} \ {policy[l]} :
       /\ policy' = [policy EXCEPT ![l] = p]
       /\ held' = IF p = "gone" THEN [c \in Contents |-> held[c] \ {l}] ELSE held
       /\ denying' = IF p = "allow" THEN denying \ {l} ELSE denying
  /\ edits' = edits + 1
  /\ UNCHANGED <<ask, service, queue, out>>

\* A file with this content appears or changes.
Move(c, l) ==
  /\ edits < MaxEdits /\ phase \notin Ended /\ wire = <<>> /\ policy[l] # "gone"
  /\ held' = [held EXCEPT ![c] = IF l \in @ THEN @ \ {l} ELSE @ \cup {l}]
  /\ edits' = edits + 1
  /\ UNCHANGED <<policy, denying, ask, service, queue, out>>

Over == phase \in Ended /\ queue = <<>>
Quiet == Over /\ UNCHANGED vars

Serve == Select \/ Filter \/ Search \/ Resolve \/ Decide \/ Call \/ Deadline
Provider == Begin \/ Fragment \/ Decline \/ Break \/ Finish

Next ==
  \/ Serve \/ Provider \/ Write \/ Leave
  \/ \E l \in Locs : Edit(l) \/ \E c \in Contents : Move(c, l)
  \/ Quiet

\* The event loop runs what can run, database, vector store and connect timeouts
\* answer, and a client reads on or disconnects; the provider owes nothing.
Spec == Init /\ [][Next]_vars /\ WF_vars(Serve) /\ WF_vars(Write \/ Leave)

----------------------------------------------------------------------------
Place == [started |-> 1, retrieval |-> 2, generation |-> 3, delta |-> 4, citation |-> 5, warning |-> 6,
          result |-> 7, error |-> 8]
Wrote(event) == \E i \in DOMAIN out : out[i][1] = event

\* contracts.md section 8.3, as far as the frames that were written go: started first,
\* then the rest in their order, one terminal frame at most and nothing behind it;
\* generation.started stands before every delta and before the result of a provider.
StreamGrammar ==
  /\ out # <<>> => out[1] = Frame("started")
  /\ \A i, j \in DOMAIN out : i < j =>
       /\ Place[out[i][1]] <= Place[out[j][1]]
       /\ out[i] = out[j] => out[i] = Frame("delta")
       /\ out[i][1] # "result"
  /\ Wrote("delta") => Wrote("generation")
  /\ Wrote("result") => Wrote("retrieval") /\ (Wrote("generation") <=> report.invoked)

\* Evidence goes to an external provider only when the deployment opened it, the client
\* acknowledged it and every location the evidence was found in has allowed it at some
\* moment since then, whatever became of locations and files meanwhile.
SentWithConsent ==
  IsExternal /\ wire # <<>> => ask.gates = Gates /\ ask.acknowledged /\ sources \cap denying = {}

\* The data boundary of a result is what happened: whether a provider was asked, what
\* was sent, and that the client had acknowledged it.
ReportIsTrue ==
  report # None =>
    /\ report.invoked <=> wire # <<>>
    /\ report.attempted <=> (IsExternal /\ wire # <<>>)
    /\ report.blocks = IF report.attempted THEN Len(wire) ELSE 0
    /\ IsExternal => report.acknowledged = ask.acknowledged

\* The evidence keeps its caps, and a hit that was left out did not fit into what was
\* chosen, though better hits that did not fit either were passed over.
EvidenceIsFair ==
  phase = "selected" =>
    /\ Tokens(evidence) <= Budget /\ Len(evidence) <= MaxBlocks
    /\ \A c \in Contents : From(evidence, c) <= MaxContent
    /\ \A c \in ToSet(hits) \ {b.chunk : b \in ToSet(evidence)} :
         Full(evidence, c) \/ Tokens(evidence) + SizeOf[c] > Budget

\* The numbers in a completed answer point at the citations that were sent with it, and
\* those at evidence.
AnswerCites ==
  LET cited == Kept(out, {"citation"} \X Nat)
      numbers == Rewritten(Answer, Len(evidence))
  IN Wrote("result") /\ report.status = "completed" =>
       /\ \A i \in DOMAIN numbers :
            numbers[i] \in DOMAIN cited /\ cited[numbers[i]][2] = Known(Answer, Len(evidence))[i]
       /\ \A f \in ToSet(cited) : f[2] \in DOMAIN evidence

\* Every ask ends, though the provider may fall silent at any point.
AskEnds == <>Over
=============================================================================
