----------------------------- MODULE QueryTurn ------------------------------
(***************************************************************************)
(* One turn of POST /query or /query/stream: preparation, the streamed     *)
(* completion or the router's tool loop, the fallback chain, metering and  *)
(* the events or the status the caller gets.  Model providers, tools, the  *)
(* key resolver and the allowance service answer as they like.  Turns      *)
(* share no state but the caches of SourceCaches: one at a time is enough. *)
(***************************************************************************)
EXTENDS Naturals, Sequences, FiniteSets

CONSTANTS
  DefaultModel, Fallbacks,      \* the platform's model and its fallback chain
  TenantModel,                  \* what the tenant's own configuration names
  PinnedBare, PinnedAtTenant, PinnedAtPlatform,
                                \* a bot's bare model as stored, and formatted for each provider
  PinnedQualified,              \* a bot's model stored with its provider, as 'x/y'
  ResolverFails,                \* whether the key lookup may time out
  MaxIterations,                \* completions per run of the tool loop (5 in the code)
  MaxCalls, MaxDeltas,          \* bounds: tool calls per completion, text deltas per stream
  None

Model == {DefaultModel, TenantModel, PinnedBare, PinnedAtTenant, PinnedAtPlatform, PinnedQualified}
           \cup {Fallbacks[i] : i \in DOMAIN Fallbacks}

ASSUME BoundsAssumption ==
  /\ MaxIterations \in Nat \ {0} /\ MaxCalls \in Nat \ {0} /\ MaxDeltas \in Nat
  /\ ResolverFails \in BOOLEAN
ASSUME ModelsAssumption ==
  /\ Fallbacks \in Seq(Model)
  /\ None \notin Model
  /\ \A i, j \in DOMAIN Fallbacks : Fallbacks[i] = Fallbacks[j] => i = j

\* A sequence without every x in it.
Without(x, seq) ==
  LET kept[n \in 0 .. Len(seq)] ==
        IF n = 0 THEN <<>>
        ELSE IF seq[n] = x THEN kept[n - 1] ELSE Append(kept[n - 1], seq[n])
  IN kept[Len(seq)]

\* How a tenant gets its completions: on the platform's key and model, on a
\* model of its choice, on its own key, or not at all until it brings one.
Tenancy == {"managed", "routed", "byok", "selfservice"}
Input == [stream : BOOLEAN, tools : BOOLEAN, pinned : {"no", "bare", "qualified"},
          tenant : Tenancy]

VARIABLES
  input,     \* the query; tools is what text_only leaves of the bot's set
  pc,
  model, key, left,   \* the attempt under way and the fallbacks after it
  iter, calls,        \* the tool loop: completions finished, tool calls pending
  spent,              \* completions summed into this run's token count
  parts,              \* text deltas streamed so far; 0 is blank, else a run
  events,             \* SSE events sent
  out,                \* [status, tokens] of the answer
  runs,      \* history: completions streams opened and tool loops started
  asked,     \* history: model and key of every attempt
  reports    \* the ledger: usage reports scheduled, one per completion

vars == <<input, pc, model, key, left, iter, calls, spent, parts, events, out,
          runs, asked, reports>>
attempt == <<model, key, left>>
loop == <<iter, calls, spent>>
ledger == <<asked, reports>>

NoAnswer == [status |-> 0, tokens |-> 0]

Init ==
  /\ input = [stream |-> FALSE, tools |-> FALSE, pinned |-> "no", tenant |-> "managed"]
  /\ pc = "over"
  /\ model = None /\ key = None /\ left = <<>>
  /\ iter = 0 /\ calls = 0 /\ spent = 0
  /\ parts = <<>> /\ events = <<>> /\ out = NoAnswer
  /\ runs = 0 /\ asked = {} /\ reports = {}

Begin(q) ==
  /\ pc = "over"
  /\ input' = q
  /\ pc' = "prepare"
  /\ model' = None /\ key' = None /\ left' = <<>>
  /\ iter' = 0 /\ calls' = 0 /\ spent' = 0
  /\ parts' = <<>> /\ events' = <<>> /\ out' = NoAnswer
  /\ runs' = 0 /\ asked' = {} /\ reports' = {}

-----------------------------------------------------------------------------
(* What the caller gets *)

Words(text) == Without(0, text)
Event(kind, text) == [event |-> kind, text |-> text]
Token(piece) == Event("token", <<piece>>)

\* process_query maps an exception to a status; generate() has sent its own
\* and closes the event stream with an empty done.
Fail(status) ==
  /\ pc' = "over"
  /\ out' = [NoAnswer EXCEPT !.status = IF input.stream THEN 200 ELSE status]
  /\ events' = IF input.stream THEN Append(events, Event("done", <<>>)) ELSE events

\* Variants named ...Mutant are plausible bugs of the operator they precede.
\* A streamed turn that fell back sends its answer in done only.
AnswerInDoneMutant(piece) ==
  /\ pc' = "over"
  /\ out' = [status |-> 200, tokens |-> spent']
  /\ events' = IF ~input.stream THEN events
               ELSE events \o (IF input.tools THEN <<Token(piece)>> ELSE <<>>)
                           \o <<Event("done", Words(<<piece>>))>>

\* The router answered.  A streamed turn sends the answer as one token: always
\* when it never tried to stream, after an empty stream only if there is one.
Answer(piece) ==
  /\ pc' = "over"
  /\ out' = [status |-> 200, tokens |-> spent']
  /\ events' = IF ~input.stream THEN events
               ELSE events \o (IF input.tools \/ piece # 0 THEN <<Token(piece)>> ELSE <<>>)
                           \o <<Event("done", Words(<<piece>>))>>

Prepare ==
  /\ pc = "prepare"
  /\ \/ Fail(403)
     \/ Fail(500)
     \/ /\ pc' = IF input.stream /\ ~input.tools THEN "open" ELSE "route"
        /\ events' = IF input.stream THEN <<Event("meta", <<>>)>> ELSE events
        /\ UNCHANGED out
  /\ UNCHANGED <<input, attempt, loop, parts, runs, ledger>>

-----------------------------------------------------------------------------
(* Keys, allowance, metering *)

\* What the resolver may say: the platform's 204, a target, 402, no answer.
Resolved ==
  (IF ResolverFails THEN {"down"} ELSE {}) \cup
  {CASE input.tenant = "managed" -> "none"
     [] input.tenant = "selfservice" -> "nokey"
     [] OTHER -> input.tenant}

KeyFor(resolved) == IF resolved = "byok" THEN "tenant" ELSE "platform"

\* _request_ref: no TenantContext has an id to take, so every report gets a uuid4.
RequestRef == Cardinality(reports)

\* report_llm_usage, for a completion that carried its usage.
Report(usage, iteration) ==
  reports' = IF usage
             THEN reports \cup {[ref |-> RequestRef, iteration |-> iteration, run |-> runs]}
             ELSE reports

-----------------------------------------------------------------------------
(* LLMRouter.execute *)

\* The fallback keeps the key of the run before it.
FallBackMutant ==
  IF left = <<>> THEN Fail(500) /\ UNCHANGED <<attempt, iter, calls, spent, runs>>
  ELSE /\ pc' = "ask"
       /\ model' = Head(left) /\ key' = key /\ left' = Tail(left)
       /\ iter' = 0 /\ calls' = 0 /\ spent' = 0
       /\ runs' = runs + 1
       /\ UNCHANGED <<events, out>>

\* A fallback run starts the tool loop over, on the platform's keys.
FallBack ==
  IF left = <<>> THEN Fail(500) /\ UNCHANGED <<attempt, iter, calls, spent, runs>>
  ELSE /\ pc' = "ask"
       /\ model' = Head(left) /\ key' = "platform" /\ left' = Tail(left)
       /\ iter' = 0 /\ calls' = 0 /\ spent' = 0
       /\ runs' = runs + 1
       /\ UNCHANGED <<events, out>>

Pinned == input.pinned # "no"

\* format_model_for_provider: a name that has a provider keeps it.
Formatted(atProvider) == IF input.pinned = "qualified" THEN PinnedQualified ELSE atProvider

\* What the tenant's configuration makes of the turn's model.
TenantRoute == IF Pinned THEN Formatted(PinnedAtTenant) ELSE TenantModel

RouteModel(resolved) ==
  IF resolved \in {"routed", "byok"} THEN TenantRoute
  ELSE IF Pinned THEN Formatted(PinnedAtPlatform) ELSE DefaultModel

\* Both lookups come before the try block: no fallback follows a refusal.
Route(resolved, exhausted) ==
  /\ pc = "route"
  /\ IF resolved = "nokey" \/ exhausted
     THEN Fail(500) /\ UNCHANGED <<attempt, runs>>
     ELSE /\ pc' = "ask"
          /\ model' = RouteModel(resolved)
          /\ key' = KeyFor(resolved)
          /\ left' = Without(RouteModel(resolved), Fallbacks)
          /\ runs' = runs + 1
          /\ UNCHANGED <<events, out>>
  /\ UNCHANGED <<input, loop, parts, ledger>>

Attempted == asked \cup {[model |-> model, key |-> key]}

\* acompletion raises: the run is abandoned.
AskRaises ==
  /\ pc = "ask"
  /\ asked' = Attempted
  /\ FallBack
  /\ UNCHANGED <<input, parts, reports>>

\* The completion is metered, then turns out to have no choice in it.
AskBroken(usage) ==
  /\ pc = "ask"
  /\ asked' = Attempted
  /\ Report(usage, iter)
  /\ FallBack
  /\ UNCHANGED <<input, parts>>

\* The answer reports the tokens of its last completion only.
AskTextMutant(usage, piece) ==
  /\ pc = "ask"
  /\ asked' = Attempted
  /\ Report(usage, iter)
  /\ spent' = IF usage THEN 1 ELSE 0
  /\ Answer(piece)
  /\ UNCHANGED <<input, attempt, iter, calls, parts, runs>>

\* A final text, possibly empty.
AskText(usage, piece) ==
  /\ pc = "ask"
  /\ asked' = Attempted
  /\ Report(usage, iter)
  /\ spent' = IF usage THEN spent + 1 ELSE spent
  /\ Answer(piece)
  /\ UNCHANGED <<input, attempt, iter, calls, parts, runs>>

AskTools(usage, n) ==
  /\ pc = "ask"
  /\ asked' = Attempted
  /\ Report(usage, iter)
  /\ spent' = IF usage THEN spent + 1 ELSE spent
  /\ pc' = "tools"
  /\ calls' = n
  /\ UNCHANGED <<input, attempt, iter, parts, events, out, runs>>

\* The cap is compared before the round is counted.
ToolCallMutant ==
  /\ pc = "tools"
  /\ calls' = calls - 1
  /\ IF calls > 1
     THEN UNCHANGED <<pc, iter, spent, events, out>>
     ELSE /\ iter' = iter + 1
          /\ UNCHANGED spent
          /\ IF iter < MaxIterations THEN pc' = "ask" /\ UNCHANGED <<events, out>>
                                     ELSE Answer(runs)
  /\ UNCHANGED <<input, attempt, parts, runs, ledger>>

\* One tool call, whatever it returns or raises; after the last one the next
\* completion, or at the cap an apology.
ToolCall ==
  /\ pc = "tools"
  /\ calls' = calls - 1
  /\ IF calls > 1
     THEN UNCHANGED <<pc, iter, spent, events, out>>
     ELSE /\ iter' = iter + 1
          /\ UNCHANGED spent
          /\ IF iter + 1 < MaxIterations THEN pc' = "ask" /\ UNCHANGED <<events, out>>
                                         ELSE Answer(runs)
  /\ UNCHANGED <<input, attempt, parts, runs, ledger>>

\* Arguments that are no object, or results that do not serialise, are errors
\* outside the try block around a handler: the run is abandoned.
ToolsRaise ==
  /\ pc = "tools"
  /\ FallBack
  /\ UNCHANGED <<input, parts, ledger>>

-----------------------------------------------------------------------------
(* LiteLLMProviderAdapter.stream, as execute_stream drives it *)

\* A silent stream is opened again.
CloseRetriesMutant ==
  IF Words(parts) = <<>>
  THEN pc' = "open" /\ UNCHANGED <<events, out>>
  ELSE /\ pc' = "over"
       /\ out' = [NoAnswer EXCEPT !.status = 200]
       /\ events' = Append(events, Event("done", Words(parts)))

\* Whatever the provider raises is swallowed: an answer that has begun is
\* closed with what was said, a silent one falls back to the router once.
CloseStream ==
  IF Words(parts) = <<>>
  THEN pc' = "route" /\ UNCHANGED <<events, out>>
  ELSE /\ pc' = "over"
       /\ out' = [NoAnswer EXCEPT !.status = 200]
       /\ events' = Append(events, Event("done", Words(parts)))

\* The allowance gate, then the attempts: a pinned model is taken as stored and
\* skips the resolver.
StreamModel(resolved) ==
  IF Pinned THEN Formatted(PinnedBare)
  ELSE IF resolved \in {"routed", "byok"} THEN TenantModel ELSE DefaultModel
Open(resolved, exhausted) ==
  /\ pc = "open"
  /\ IF exhausted \/ (resolved = "nokey" /\ ~Pinned)
     THEN CloseStream /\ UNCHANGED attempt
     ELSE /\ pc' = "connect"
          /\ model' = StreamModel(resolved)
          /\ key' = IF Pinned THEN "platform" ELSE KeyFor(resolved)
          /\ left' = Without(StreamModel(resolved), Fallbacks)
          /\ UNCHANGED <<events, out>>
  /\ UNCHANGED <<input, loop, parts, runs, ledger>>

\* Fallback covers the connection only.
Connect(connected) ==
  /\ pc = "connect"
  /\ asked' = Attempted
  /\ IF connected
     THEN pc' = "relay" /\ runs' = runs + 1 /\ UNCHANGED <<attempt, events, out>>
     ELSE /\ UNCHANGED runs
          /\ IF left = <<>> THEN CloseStream /\ UNCHANGED attempt
             ELSE /\ model' = Head(left) /\ key' = "platform" /\ left' = Tail(left)
                  /\ UNCHANGED <<pc, events, out>>
  /\ UNCHANGED <<input, loop, parts, reports>>

Delta(piece) ==
  /\ pc = "relay"
  /\ Len(parts) < MaxDeltas
  /\ parts' = Append(parts, piece)
  /\ events' = Append(events, Token(piece))
  /\ UNCHANGED <<input, pc, attempt, loop, out, runs, ledger>>

\* The provider's stream is exhausted: metered if it carried usage, closed.
StreamEnds(usage) ==
  /\ pc = "relay"
  /\ Report(usage, None)
  /\ CloseStream
  /\ UNCHANGED <<input, attempt, loop, parts, runs, asked>>

\* The failed stream is answered again by the router, words said or not.
StreamBreaksMutant ==
  /\ pc = "relay"
  /\ pc' = "route"
  /\ UNCHANGED <<input, attempt, loop, parts, events, out, runs, ledger>>

\* It breaks off in the middle: nothing is metered.
StreamBreaks ==
  /\ pc = "relay"
  /\ CloseStream
  /\ UNCHANGED <<input, attempt, loop, parts, runs, ledger>>

\* The caller of a stream hangs up: the generator is closed where it stands.
HangUp ==
  /\ input.stream /\ pc # "over"
  /\ pc' = "over"
  /\ UNCHANGED <<input, attempt, loop, parts, events, out, runs, ledger>>

Work ==
  \/ Prepare
  \/ \E resolved \in Resolved, exhausted \in BOOLEAN :
       Route(resolved, exhausted) \/ Open(resolved, exhausted)
  \/ AskRaises
  \/ ToolCall
  \/ ToolsRaise
  \/ StreamBreaks
  \/ \E usage \in BOOLEAN :
       \/ AskBroken(usage)
       \/ \E piece \in {0, runs} : AskText(usage, piece)
       \/ \E n \in 1 .. MaxCalls : AskTools(usage, n)
       \/ StreamEnds(usage)
  \/ \E connected \in BOOLEAN : Connect(connected)
  \/ \E piece \in {0, runs} : Delta(piece)

Next == Work \/ HangUp \/ \E q \in Input : Begin(q)

Spec == Init /\ [][Next]_vars

\* Every await of a turn returns or times out, and deltas run out.
FairSpec == Spec /\ WF_vars(Work)

-----------------------------------------------------------------------------
(* Properties *)

Pieces == 0 .. 2 + Len(Fallbacks)
TypeOK ==
  /\ input \in Input
  /\ pc \in {"over", "prepare", "route", "ask", "tools", "open", "connect", "relay"}
  /\ model \in Model \cup {None} /\ key \in {"platform", "tenant", None}
  /\ left \in Seq(Model)
  /\ iter \in 0 .. MaxIterations /\ calls \in 0 .. MaxCalls /\ spent \in 0 .. MaxIterations
  /\ parts \in Seq(Pieces) /\ Len(parts) <= MaxDeltas
  /\ \A i \in DOMAIN events :
       events[i] \in [event : {"meta", "token", "done"}, text : Seq(Pieces)]
  /\ out \in [status : {0, 200, 403, 500}, tokens : 0 .. MaxIterations]
  /\ runs \in Pieces
  /\ asked \subseteq [model : Model, key : {"platform", "tenant"}]

\* The words of one answer come from one completion run: neither fallback nor
\* the batched retry of an empty stream ever talks over what was already said.
Said == {piece \in UNION {{events[i].text[j] : j \in DOMAIN events[i].text} :
                            i \in DOMAIN events} : piece # 0}
OneVoice == Cardinality(Said) <= 1

IsDone(i) == events[i].event = "done"
DoneSaysItAgain ==
  /\ \A i \in DOMAIN events : events[i].event = "token" => events[1].event = "meta"
  /\ \A i \in DOMAIN events : IsDone(i) =>
       /\ i = Len(events) /\ pc = "over"
       /\ \A piece \in Said : \E j \in 1 .. i - 1 : events[j].text = <<piece>>
       /\ Len(events[i].text) =
            Cardinality({j \in 1 .. i - 1 : Words(events[j].text) # <<>>})
StreamCloses ==
  pc = "over" /\ input.stream /\ out # NoAnswer => events # <<>> /\ IsDone(Len(events))

\* A stream opens with meta unless preparation failed; done is its last event and
\* repeats exactly the words of the tokens before it; and a stream its caller did
\* not leave has closed with it, however the turn went.
StreamTellsOneStory == DoneSaysItAgain /\ StreamCloses

\* What the ledger is promised (llm_router.py:76): the reports of one inbound
\* request carry one stable id, so that a redelivered report is recognised.
\* Not so: no context has an id for RequestRef to find.
RequestHasOneRef == \A r, s \in reports : r.ref = s.ref

\* The token count an answer carries covers every completion of its own run.
AnswerTellsItsCost ==
  (pc = "over" /\ out.status = 200 /\ ~input.stream)
    => out.tokens = Cardinality({r \in reports : r.run = runs})

\* A tenant's key is only presented by a tenant that brought one, and with the
\* model its own route selects: no fallback of the platform inherits it, neither
\* from the run before nor through the arguments reused from attempt to attempt.
KeyKeepsItsRoute ==
  \A a \in asked : a.key = "tenant" => input.tenant = "byok" /\ a.model = TenantRoute

\* The promise about a bot's model: it is a bare name, formatted for the tenant's
\* provider, so a tenant's key is only presented to that provider
\* (tenant_llm_resolver.py:49).  Not so where it is stored with a provider.
KeyStaysHome ==
  \A a \in asked : a.key = "tenant" => a.model \in {TenantModel, PinnedAtTenant}

\* The promise of the resolver: the inference of a self-service tenant that has
\* brought no key never runs on the platform's credentials.  Not so: a stream
\* whose bot pins a model never asks the resolver.
SelfServiceNeverOnOurKey ==
  input.tenant = "selfservice" => \A a \in asked : a.key # "platform"

\* Every turn ends, in an answer, an error or a closed stream.
TurnEnds == (pc # "over") ~> (pc = "over")
=============================================================================
