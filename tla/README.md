# shielva-mcp-server in TLA+

A verification development of the MCP server: modules translated from the
Python source, TLC runs over small instances of them, and theorems that the
TLA+ proof system checks for every instance. Paths below are relative to the
repository; `src/src/...` is the server's package.

Run a check with `tlc -config X.cfg MC_Y` and the proofs of each of the eight
`*Proofs` modules with `tlapm XProofs.tla` (minutes each). `PROJECT.json` holds the same inventory in
machine-readable form: which lines every definition models, which run checks
which property, and a mutant of the code that each property notices.

## The system

The server is one asyncio process per worker, several workers behind a load
balancer, all state either in Redis (sessions), in per-worker dictionaries
(caches) or at other services reached over HTTP (core-api, cms-core, platform,
billing, the connector runtime, the vector store, model providers). No lock is
ever held over an await that yields; what overlaps is decided by the awaits.
That is what makes it hard: every read-modify-write goes over an await, every
cache is filled over one, and most calls end in one of success, refusal, or
"nobody knows".

| Component | State | Operations | Interacts with |
|---|---|---|---|
| MCP session lifecycle (`domain/chat`, `application/chat/services.py`, `interface/mcp_jsonrpc`, Redis repository) | session records with expiry in Redis; a copy in every request that loaded one | POST /mcp (single or batch), DELETE /mcp, initialize, initialized, ping, setLevel, every method's check | Redis by GET, SET and DELETE; feature services |
| Query turn (`handle_query.py`, `query_router.py`, `routing/llm_router.py`, `litellm_provider.py`) | the turn itself | POST /query, POST /query/stream; tool loop; fallback chain | assembler, tools, resolver, allowance, providers, usage ledger |
| Caches of facts (`tenant_llm_resolver.py`, `allowance.py`, `guard.py`, `connector_catalogue._types`) | one dictionary per worker and fact | get | platform, usage service, billing, connector runtime |
| Connector tools (`connector_catalogue.py`, `composite_catalogue.py`, `connector_tools.py`, `application/tools`) | none but the catalogue cache | list for a bot, look up, authorise, run | connector runtime |
| Configuration, lifecycle and meeting tools (`bot_config_tools.py`, `lifecycle_tools.py`, `meeting_tools.py`) | none; rows live in core-api, cms-core and the TMS | some forty tools that create, update, set, publish, deploy and read | the platform through `_gateway.call`; people in the studio |
| Flow editing tools (`flow_tools.py`) | none; the graph lives in core-api | get, save, add node | core-api, the designer in the browser |
| Bot registry (`bot_registry.py`) | cached configurations | get bot: link, cache, customer rows, knowledge bases | core-api's database |
| Tool registry (`tool_registry.py`, `legacy_registry_adapter.py`, `codegen_tools.py`) | registrations, fixed at start-up | list for a bot or a caller, look up, permit, execute | tools, connectors |
| Tool-calling completions (`application/llm`, `llm_router.py` and `codegen_router.py` of the HTTP edge) | none | fix agent, complete, stream with tool calls | provider adapter, catalogue |
| Context and retrieval (`assembler.py`, `hybrid_retriever.py`, `supabase_store.py`, `embedder`) | none | embed, search by vector and by keyword, fuse, filter, format, build the conversation | vector store, embedding models |
| Reranker, query cache, knowledge-base router, policy engine | rules, an LRU | rerank, get and put, choose, evaluate | nothing: none of them is reached by a request |
| Edge, wiring, metadata, scripts | none | translate, start | everything |

What makes each of them correct, and where it is hard:

* **Sessions.** No work before the handshake; no session used by a tenant it
  was not minted for; a closed session stays closed; readiness is not undone;
  abandoned records disappear. Hard because every operation is GET, await, SET
  of a whole record, two workers may hold copies of one record, a SET may take
  effect although its caller is told it failed, and a batch threads the current
  session id from item to item.
* **Turns.** The caller hears one answer, the stream closes with one event that
  repeats it, an answer's cost covers its own run, a tenant's key goes with the
  tenant's route only, a tenant that must bring a key never runs on the
  platform's, and the turn ends. Hard because of the streamed path falling back to the batched one, the batched one to
  other models, and each of them to nothing.
* **Caches.** Nothing stale beyond a known age, nothing said that nobody knew.
  Hard because four look-alike caches stamp, compare and fail differently.
* **Connector tools.** What runs was installed when it ran, and is what the
  model was shown. Hard because the listing, the lookup, the check and the run
  are four reads at four moments, and a tool's name drops part of its type's:
  where a type exists under both spellings, one stands in for the other.
* **Capabilities.** A capability that cannot work is never configured in
  silence. Hard because the choice and the permission are two calls.
* **Configuration tools.** What callers of the bot notice happens only on
  request, and what an update does to fields nobody named is confined to what it
  read. Hard because updates read, overlay and replace whole records, answers
  get lost after the write, a 2xx may have dropped fields, and empty arguments
  mean "clear" upstream.
* **Flows.** Adds bring no node twice and no dangling edge, whatever else is
  saved. Hard because a read-modify-write races a person, a whole graph is
  stored unchecked, and a body that cannot be read passes for an empty graph.
* **Bots.** A workspace only ever gets a configuration it owns or was linked
  to, knowledge bases are not granted for longer than the cache lives, and the
  stand-in is never used for a bot that is there. Hard because three reads meet a
  migration between documents, and a cache keyed by another workspace.
* **Tools.** Whatever a model names, offered or not, a handler only runs for a
  permitted caller, and no call is lost. Hard because the loop looks names up in
  the whole catalogue and pieces of calls arrive interleaved, some without an
  index.
* **Retrieval.** A failure is never taken for ignorance, and the best chunks
  win. Hard because many searches run at once and five filters follow each
  other.

## The modules

| Module | Extends | What it is |
|---|---|---|
| `McpSession` | | overlapping HTTP requests on the shared session store |
| `McpSessionSerial` | `McpSession` | the same for clients that keep one request per session in flight, with fairness |
| `SessionLifecycle` | | the abstract atomic session: minted, ready, gone |
| `McpSessionProofs` | `McpSessionSerial` | proofs about `McpSession`, and that it implements `SessionLifecycle` for serial clients |
| `FlowEdit` | | flow tools against the stored graph and the designer |
| `QueryTurn` | | one turn, streamed or batched |
| `QueryTurnProofs` | `QueryTurn` | proofs about `QueryTurn` |
| `SourceCaches` | | the four read-through caches |
| `SourceCachesProofs` | `SourceCaches` | proofs about `SourceCaches` |
| `ConnectorTools` | | connector tools and capabilities |
| `ConnectorToolsProofs` | `ConnectorTools` | proofs about `ConnectorTools` |
| `BotRegistry` | | get_bot against a migrating database, with its cache |
| `BotRegistryProofs` | `BotRegistry` | proofs about `BotRegistry` |
| `BotConfig` | | the configuration, lifecycle and meeting tools |
| `StudioToolsProofs` | `FlowEdit`, `BotConfig` | proofs about both modules of tools that write what the designer edits |
| `ToolLoop` | | the registry and everything that runs its tools outside a streamed turn |
| `ToolLoopProofs` | `ToolLoop` | proofs about `ToolLoop` |
| `Retrieval` | | what the model is told of the knowledge and the conversation |
| `RetrievalProofs` | `Retrieval` | proofs about `Retrieval` |
| `MC_*` | one each | small instances for TLC |

How they fit together: a turn (`QueryTurn`) is prepared with the configuration
`BotRegistry` answers, with what `Retrieval` tells and with the tools `ToolLoop`
and `ConnectorTools` list, on the key and within the allowance `SourceCaches`
holds. Each of these appears in `QueryTurn` as one step with every outcome the
detailed module can give it.

### McpSession

One *coroutine* per HTTP request: its program counter, the batch items left,
the session id it carries (`session_out` of the transport), and the copy of the
record it loaded. `store` is Redis with remaining lives. Every await on Redis
is a step of its own, so another request can run between a load and a save:
`Post`, `Delete`, `Initialize`, `Ping`, `AssertMethodAllowed`, `Touch`,
`MarkReady`, `SaveReady`, `SetLogLevel`, `Close`, `DeleteRecord`, `Handle` and
`Reply` are the code's steps under the same names; `StoreError` is a Redis
call that raises, `LostReply` one that took effect and raises all the same (a
session minted that nobody is told of, a touch or a level written behind an
error), `Crash` a worker that dies, `Tick` the expiry.
`McpSessionSerial` constrains the clients, not the server, and maps every
state to `SessionLifecycle` by a refinement mapping (`LivesOneLife`).

### FlowEdit

`flow` is what core-api stores. `ReadFlow` is the GET of `add_flow_node` with
its checks (`Accepts`), `WriteFlow` the POST of the extended copy; `SaveFlow`
stores any graph, as the tool does, which only looks whether the nodes are a
list. `Body` is what a GET is taken to say: the stored graph, or no nodes at
all, because a 2xx that does not parse reads as `{}` (`Garbled`). `Refused` is a
POST that fails; one that was stored and whose answer was lost is `WriteFlow`,
since the tools keep nothing and start the next add with a GET. `Draw`, `Drag`
and `Erase` are a person in the designer (external, from how the code and its
comments describe it). `brought` is history: what was wrong with the graphs
saved whole.

### QueryTurn

`Prepare` stands for policy, context and tools, which succeed or fail before
anything is sent. `Open`, `Connect`, `Delta`, `StreamEnds`, `StreamBreaks` and
`CloseStream` are `LiteLLMProviderAdapter.stream` as `execute_stream` consumes
it; `Route`, `AskText`, `AskTools`, `AskRaises`, `AskBroken`, `ToolCall`,
`ToolsRaise` and `FallBack` are `LLMRouter.execute`. A text is represented by
the number of the run that produced it (0 is white space), which is all the
properties need: two voices are two numbers. A report carries its run, so a
property can compare the tokens an answer reports with the ledger, and the
reference `RequestRef` made for it. A bot may pin a model by its bare name or
with its provider (`input.pinned`); `Formatted` is `format_model_for_provider`,
which returns the latter as it is, and `TenantRoute` the model a tenant's own
key is presented with. `HangUp` is
a client that closes the connection of a stream. Turns only share the caches,
so one turn at a time, followed by the next, is the whole of it.

### SourceCaches

One key of one cache, with as many overlapping gets as there are callers, a
clock, and the owner's value, which may change at any time. `kind`, chosen at
the start and fixed, says which of the four caches it is. `Resolve`/`Resolved`,
`IsExhausted`/`Exhausted`, `IsEntitled`/`Entitled` and `Types`/`Published` are
the code before and after the await; `Answer` is the owner reading its own
state in between. `held` and `failed` are history.

### ConnectorTools

`installed` and `published` are the runtime's; `known` is the catalogue the
server has stored. A type is a name with or without `_connector`; nothing keeps
both spellings from being there (*twins*), and the lookup then takes the one
with the suffix. `ListInstalled`, `ListTypes` and `Choose` are a turn that is
offered tools and calls one; `Request`, `Get` a client's tools/call, which is
looked up twice (by the service and by the composite); `ExecuteTypes`, `Check`
and `Finish` are `execute`. `SetCapability`, `ProvidersInstalled`,
`ProvidersTypes`, `Put` and `Link` are `shielva_set_bot_capability`, which owns
a second catalogue instance whose cache may hold whatever was once published.
`Reinstall`, `Publish` and `Unlink` are people and the runtime (external).

### BotRegistry

`rows` are the customer documents of every tenant (the workspace row and an
older member row), `link` the assignment of the agent to another workspace,
`cache` the dictionary of a worker. `GetBot` reads the link, `LookUp` the
cache, and `AfterWs`, `AfterLegacy` and `AfterAny` are what `_find_customer`
does with the answer of each query; a document a query finds is the one it
holds when the query runs, and the code goes on with it a step later.
`ResolveEffectiveKbIds` is the code's accumulation, `GrantedBy` the same said
with sets. `StoreRow`, `Relink` and `Tick` are core-api and the clock.

### BotConfig

Every tool is an operator from its arguments to one request (`RequestOf`);
`Begin`, `Serve`, `MergeRead` and `Read` carry a request to the platform and its
`Outcomes` back: an answer, a body that is no JSON, a refusal, a server error
or a lost answer, the last two on either side of the write (`Landed`). What
takes effect is the part of a body the backend's model defines (`Kept`,
`Defined`): the rest is dropped behind a 2xx. `Call` and `Result` are what
`_gateway.call` and the tool make of it. An update reads
the record, overlays the fields it was given and PUTs the whole, which replaces
what is stored except for the keys the server keeps itself (`ServerKeys`). A value is its
writer, so a property can say whose it is; `asRead` is history, the record as
an update under way read it. `Edit` is a person in the studio.

### ToolLoop

The catalogue is a set of names with permissions; an identity is whether it is
a Shielva service and what it may do. `CallTool` is tools/call and its REST
twin, `BotTool` a bot's turn; `CallProvider`, `Dispatch`, `NextIteration` and
`FinalAnswer` are the loop of the fix agent; `LlmComplete`, `OpenStream`,
`GatherToolCalls` and `EndStream` the caller-driven completions. Models name
anything, in any order, whether it was offered to them or not: a loop that works
for a tenant offers nothing, and what its model names all the same reaches the
executor. `Found` and `Execute` tell a connector whose type is published from
one that is installed. In a stream, `sent` is what the model sent of each call
and `slots` what is held of it; a fragment goes to the slot of its index, or,
without one, of its place in its chunk (`Key`), and `astray` remembers whether
one ever went to the slot of another call.

### Retrieval

Each knowledge base has a vector search in two queries (`Query`, `Fetch`) and a
keyword search (`Match`), all at once and each able to fail; `Ingest` changes
the store meanwhile. `Gather`, `Fuse`, `Deduplicate`, `Relevant` and `Format`
are the stages that follow, as pure operators with whole-number scores, and
`BuildMessages` the conversation that goes with the result. Which chunks match
and how well is any answer. `TellKnowledge` is the assembler's and the
rag_query tool's use of it.

## What the runs check

Passing runs explore their instance completely.

| Run | Instance | Shows |
|---|---|---|
| `session` | 2 tenants, 2 ids, 2 overlapping requests, batches | `HandshakeBeforeWork`, `TenantIsolation`, `QuietCloseIsFinal`, `ReadyNeverRegresses`, `TypeOK` |
| `session_serial` | one request per session in flight, fair | `LivesOneLife` (refinement), `IdleSessionsReclaimed` (liveness) |
| `flow` | 2 callers, 2 node ids, 2 places, graphs with a double id and a dangling edge to save, unreadable answers, 1 edit in the designer | `AddsBringNoFlaw`, `FlowTypeOK` |
| `query` | 1 fallback besides the default, 2 completions per loop, 2 deltas, all tenancies, models pinned either way, fair | `OneVoice`, `StreamTellsOneStory`, `AnswerTellsItsCost`, `KeyKeepsItsRoute`, `TurnEnds` (liveness), `TypeOK` |
| `caches` | 4 kinds, 2 callers, 3 versions, TTL 2, time-out 1, 5 ticks | `HitsAreRecent`, `KnownBeforeSaid`, `BlipKeepsCatalogue`, `TypeOK` |
| `connectors` | 2 callers, twins that come and go one by one, blank arguments | `RunsOnlyInstalled`, `OnlyTwinsStandIn`, `RefusedForAReason`, `InertIsKnown`, `TypeOK` |
| `bots` | an owner and two workspaces, 3 shapes of documents, 3 calls by 2 callers, 2 edits, TTL 1 | `OnlyOwnOrLinked`, `GrantedLately`, `MockHasACause`, `TypeOK` |
| `config` | every tool, an update that names an optional field, 2 calls at a time, 1 edit in the studio | `AskedFor`, `RestAsRead` (action), `TypeOK` |
| `toolloop` | a tool of each kind, 4 identities, 2 iterations, 2 calls of any names, 2 pieces with and without an index | `PermittedOnly`, `CallsAnswered`, `IndexedCallsComeWhole`, `TypeOK` |
| `retrieval` | 2 bases, full or nearly empty, 4 chunks (two alike, one too long), top 2, 1 change | `SaysWhatItKnows`, `BestTold`, `TypeOK` |

Runs that TLC must find violated state what the repository says of itself and
the code does not do:

| Run | Property | Disagreement |
|---|---|---|
| `flow_guarded` | `AddsOnlyAdd` | `expected_node_count` guards the read and not the write: a guarded add overwrites what was stored in between |
| `query_selfservice` | `SelfServiceNeverOnOurKey` | a pinned model on the streamed path skips the resolver and its refusal |

The modules state more such promises, which their comments say do not hold. No
run is kept for them; each is violated when it is added to the configuration of
its module's passing run (with `Ttl = 2` for `PingKeepsAlive`; with one caller
and `MaxRedraws = 0` for `AddsOnlyAdd` nobody else is editing):

| Promise | Stated at | What happens instead |
|---|---|---|
| `McpSession!TerminatedStaysUnknown` | `transport.py:9` | a save that lands after DELETE /mcp resurrects the session, and a later request is served in its name |
| `McpSession!PingKeepsAlive` | `redis_chat_session_repository.py:24-26` | a ping is served and does not renew the record, so pings alone do not keep a session |
| `FlowEdit!AddsOnlyAdd`, here with `Garbled` | `flow_tools.py:130` | a 2xx that does not parse reads as an empty graph, and an add overwrites the stored one with one node, nobody else editing |
| `QueryTurn!KeyStaysHome` | `tenant_llm_resolver.py:49` | a model stored with its provider is not reformatted, so the tenant's key is presented to that provider |
| `QueryTurn!RequestHasOneRef` | `llm_router.py:76`, `usage_reporter.py:81` | no context carries a request id, so every report of a request has a reference of its own and none dedupes |
| `ConnectorTools!RunsWhatWasListed` | `connector_catalogue.py:115` | with both spellings installed the tool listed for one runs the other |
| `ConnectorTools!OfferedCanRun` | `connector_catalogue.py:250` | with the suffixed spelling published, the tool of the plain one is offered and always refused |
| `BotConfig!OthersKept` | `bot_config_tools.py:294` | an update PUTs back every key as it read it, over what was written since |
| `BotConfig!UpdatedIsStored` | `test_config_tools_match_backend_models.py:17-18` | `update_identity` passes on `is_active`, which the PATCH drops, and reports the update |
| `ToolLoop!CallsComeWhole` | `litellm_provider.py:161-163` | fragments without an index that come in a chunk each are folded into one call |

Most have a passing counterpart in the same module that says how far the damage
reaches: `QuietCloseIsFinal` and `LivesOneLife` when a closed session does stay
closed, `AddsBringNoFlaw` and `RestAsRead` what a lost update cannot touch, and
`OnlyTwinsStandIn`, `RefusedForAReason`, `KeyKeepsItsRoute` and
`IndexedCallsComeWhole` under which circumstance alone the promise fails.

Other disagreements and limits that the models show:

* A spent allowance is answered 500 on POST /query: `Fail` of `QueryTurn` is
  never reached with 402, although the exception has a type of its own for it.
* Enabling a capability with a blank connector PUTs an empty one, which clears
  the provider it had: the argument is tested before it is stripped.
* `GrantedLately` leaves out answers whose workspace row was rewritten between
  the two reads of `_find_customer`: such an answer takes the groups from the
  older row and the agent from the newer one, and may for the life of its cache
  entry hold a knowledge base that no moment granted.
* The summary of the older conversation is the first of the messages the
  backstop counts, so a conversation that fills the backstop loses it
  (`SaysWhatItKnows` promises it to shorter ones only).
* A turn without any chunk reports a confidence of 0.6, one with chunks the
  fused score of the best, which is at most 1/61.
* An embedding provider that fails is answered for with random vectors; no
  later step can tell.

### Bounds, and why they are enough

* Two overlapping requests, callers or turns: every interference in this code
  is between one coroutine that is between two awaits and one that runs; a
  third would repeat the part of the second. The proofs do not have this bound.
* `MaxEdits = 1`, `MaxRedraws = 1`: a single change between read and write is what a lost update
  takes.
* `MaxIterations = 2` (5 in the code), `MaxCalls = 2`, `MaxDeltas = 2`, one
  fallback: first, last and "one more" are distinct for each.
* `Ttl = 2`, `MaxLatency = 1`, `MaxTime = 5`: an entry can be fresh, on the
  edge and expired, and a slow fetch can straddle each. `MaxLatency` is an
  assumption about the HTTP client: its time-out is per phase, and the value is
  the time a whole fetch may take.
* `connectors`: two types whose names differ in the `_connector` suffix alone.
  Any other type has a tool name of its own and could only come and go as these
  two do.
* `flow`: two node ids are what an edge and a repeated id take; the graphs to
  save are the empty one and one with both flaws.
* `bots`: a stale answer takes a call that reads, an edit and a call that hits
  the cache, and a torn one two calls and two edits. `MaxClock = 2` lets an
  entry expire, `Slack` bounds how long one call may last. The second workspace
  is what a link of somebody else takes.
* `config`: an update lost to another takes two calls; longer sequences add
  nothing, since tools keep no state between calls.
* `toolloop`: with two iterations the loop reaches its cap after a full round;
  two calls of two pieces are the least that can interleave.
* `retrieval`: two bases and two searches give four that can fail apart; two
  alike chunks, one over-long one and a budget of three make each filter bite;
  the 30 % rule bites where the bases start with one chunk, and another is added
  after the vector searches, which is then ranked by keyword alone.
  Scores are the code's weights counted in fractions of `Unit`, which makes the
  weight of each of these positions a whole number.
* Expiry is counted in ticks and bounded by the constant the session modules
  declare; session ids are never reused (they are random tokens).

### Fairness

`McpSessionSerial` assumes that a request the server has started goes on and
that time passes: asyncio runs ready callbacks, Redis calls return or raise.
`QueryTurn!FairSpec` assumes weak fairness of `Work` as a whole: every await of
a turn has a time-out and deltas run out. No fairness is assumed of clients,
people or other services' state; nothing is ever assumed to succeed.

## What is proved

Every safety property of every passing run is a theorem here; the run shows it
on a small instance, the theorem for every value of the constants that satisfies
the assumptions of its module.

`McpSessionProofs` (for any tenants, ids, requests, batches and lives):
`SessionTypeCorrect`, `HandshakeFirst`, `TenantsIsolated`, `QuietCloseFinal`,
`ReadyIsForGood`. The inductive invariant relates every copy a coroutine holds
to what the id was ever minted as: the record's owner never changes, a copy
that is READY implies the handshake was saved, and a quietly closed id is held
by nobody. That strengthening is needed because the properties speak of the
store, and a stale copy is what could break it one step later.
`SerialLivesOneLife` is the refinement: under the hypothesis `Serial`, the
constant by which a client keeps one request per session in flight, every step
of the coroutines is a step of `SessionLifecycle` or a stutter. Its invariant
(`SerialInv`) says that a coroutine has its session to itself and that its copy is the
record, unless the record has expired between the GET and the SET; the mapping
takes the copy for the record in that case, so that the SET which brings an expired
record back is no rebirth. Without the hypothesis
a save that lands after a close brings the record back
(`TerminatedStaysUnknown` is false).

`StudioToolsProofs`, its first part (`FlowEdit`, for any callers, graphs that
are saved whole, node ids, expectations and edits): `FlowTypeCorrect`,
`FlawsAreSaved`. `FlowInv` adds one fact about calls in flight (`AddsSound`): the
copy an add is about to POST was accepted against what its own GET seemed to
say, and what is wrong with that was brought by a saved graph. It is needed
because the graph may be another by the time of the POST, and the property
speaks of the stored one only.

`QueryTurnProofs` (for any models, chain of distinct fallbacks and caps):
`TurnTypeCorrect`, `OneVoiceAlways`, `StreamsTellOneStory`,
`AnswersTellTheirCost`, `KeysKeepTheirRoute`, `TurnsRunDown`. The parts
of `TurnInv`: `Telling`, what was said so far (until a turn ends its events are
meta and deltas, and a run other than the stream's own only speaks after a
blank); `Closing`, a turn under way has no answer yet and a stream that was
answered has closed; `Counted`, how many completions a run has had; `Keyed`, whose key is
presented with which model; `Metered`, the ledger is what the completions
carried; `Costed`, the tokens a run has summed up are those of its own reports.
The lemmas about `Without` are an induction over a sequence. `TurnsRunDown` is
the safety half of `TurnEnds`, stated in the proof module (`StepsRunOut`).
`StepsLeft` bounds the steps a turn may still take, by the deltas and attempts of
a stream before the router's chain, and by the runs, completions and tool calls
ahead in that chain (`Ahead`); `TurnInv` makes it a positive number while the
turn lasts, and every action lowers it. What is left to TLC is that a turn under
way always has a step of its own to take.

`SourceCachesProofs` (for any callers, versions, TTL, time-out and clock
bound): `TypeCorrect`, `HitsStayRecent`, `OnlyKnownIsSaid`,
`CatalogueSurvivesBlips`. The invariant says of every *running* get how old what it has heard can
be and of the stored entry since when its value held; the four kinds differ in the
age, and each action is proved once per kind. `CatalogueSurvivesBlips` needs
that a caller that was shown a catalogue always finds one in the cache.

`ConnectorToolsProofs` (for any callers and any set of types) proves every
property of the run `connectors`: `ConnectorsTypeCorrect`, `OnlyInstalledRuns`,
`ListedIsRun`, `OfferedRuns`, `NeverInertInSilence`, with twins and without. The invariant is a
conjunction per call of three facts. `Authorised`: a call whose check will find
its connector has seen it installed, and one about to PUT or to link holds a
type of the platform. `Faithful`: the name a turn carries is the name of one of
the tools it was offered. `Current`: as long as nothing moved and no lookup
failed, what was offered is installed and in the stored catalogue, and its name
leads back to it or to the twin that shadows it there.

`BotRegistryProofs` (for any workspaces, callers, documents, layouts of rows,
time to live and bounds): `BotTypeCorrect`, `AnswersStayHome`,
`StandInHasACause`, `KnowledgeIsRecent`. `BotInv` says of a call under way
whose configuration it is after (`Linked`: its own, or that of an owner linked
to it since it began, and a cache entry is always that of the tenant it is
keyed by) and what it has seen of the rows that hold the agent (`Witnessed`).
`DatedInv` adds time: the history of grants is up to date (`Timely`), what is
cached was granted at most `Slack` before it was stored (`Cached`), and what a
call has read was granted since the call began unless it may be torn
(`ReadWell`). It rests on `ResolveGrants`: for every document,
`ResolveEffectiveKbIds`, a loop that appends what is new, returns exactly
the set `GrantedBy` says, each id once.

`StudioToolsProofs`, its second part (`BotConfig`, for any callers and any
arguments of the tools that exist): `ConfigTypeCorrect`, `NothingUnasked`,
`UpdatesWriteWhatTheyRead`.
What a tool does upstream is decided when it turns its arguments into a
request, long before the answer. So `ConfigInv` says of every request under way
what it may do and that somebody asked for it (`AllProper`, by `RequestsProper`,
which goes through all the tools), and of the record an update is about to PUT
that it is the one it read, overlaid with its changes (`Copies`).

`ToolLoopProofs` (for any tools, permissions, callers and caps):
`LoopTypeCorrect`, `OnlyPermittedRun`, `EveryCallAnswered`,
`StreamsTellWholeCalls`. The property that every
call has its tool turn is not inductive: while calls are being run it is false. `Dispatching`
says what holds then: the history is paired up to the last
answer of the model, whose calls are the tool turns after it and then
the queue. `Recorded` relates the records, the tool turns and the handlers that
ran by counting, `Permitted` is what makes the lookup in the whole catalogue
harmless, and `Streamed` says that a stream of which no piece went astray holds
of every call what was sent of it.

`RetrievalProofs` (for any bases, the same one twice included, any chunks,
texts, sizes, conversations and limits): `RetrievalTypeCorrect`,
`OnlyKnownIsTold`, `TheBestIsTold`. Most of it is about lists. Sorting is said by
the order alone: in a strict total order the k-th member is the one that k - 1
others precede, and `RankedRunsThrough` shows that these members run through
the whole list, in order. `TotalFacts` and `FlattenFacts` compute what the
recursive functions of the model do, `ScoreAbove` that a chunk both searches
rank higher has no lower score, and `FirstAbove` that where the scores tie it
was seen first, which the sort keeps. So the fused list has the property
`BestOf`: it is in order of the scores, and whatever both searches rank
higher than a member comes before it, or another chunk with its text does. Each later
stage keeps it: the cut, the 30 % rule and the budget drop only what comes last
(`FirstStayBest`), and the removal of copies keeps the first of every text
(`RetrieveIsBest`). None of them empties a list, so nothing is told only when
nothing was found. The invariant of the state, `RetrievalInv`, is short by
comparison: a failure shows in the search that failed until something is told
(`FailuresShow`), and what is told was made of the hits as they came back
(`ToldFromHits`). `MessagesEndNewest` is the part about the conversation.

The assumptions are the ones the modules declare: sentinels apart from values,
bounds that are naturals, a unit that every weight is a whole number of, and
that a graph, a document, a conversation or an argument list is one that the
code can be given (a list of nodes and a set of edges, whatever they name).
TLC evaluates each of them in the run of its module.

The library's theorems on induction take an operator as a parameter, which the
provers cannot instantiate. Where a proof needs the value of a fold or of a
recursive function, it argues by the least counterexample, or by counting up,
over a set that is defined for the purpose (`LeastNumber`, `CountUp`).

Only model-checked: liveness (`IdleSessionsReclaimed`, `TurnEnds`), which needs
ENABLED and is beyond the prover. Of `TurnEnds` the part that is not about
fairness is proved (`TurnsRunDown`).

## What is not modelled, and why

The components marked so in `PROJECT.json`, for three reasons. Some are not
reached by any request: the reranker (constructed without), the query result
cache (imported by a path that does not exist, so always absent), the
knowledge-base router (it needs descriptions and is given ids), the policy
engine (wired, never asked), the legacy protocol handler. Some are stateless
translation: the remaining HTTP routes, resource metadata, wiring. And the
in-memory session repository is a single-worker stand-in that never yields
between a load and a save.

Inside the modelled parts: payloads, prompts, logging, TLS, the JSON-RPC
envelope, the choice among providers by name, the wording of results, and what
tools do to other services beyond the rows they keep. Known weaknesses no
property covers are listed as hazards with a note: besides the false promises
above, tokens of a broken stream are not metered, a fallback repeats the side
effects of the tools of the run before, and embeddings may be random. A write
reported as failed that was done is a step of every module that writes; nothing
follows from it but that the caller may ask again. `BotRegistry` has its database, as `main.py` always gives it
one: with `mongodb_client` `None` every bot would be the stand-in.

## Plan

Every invariant and action property of a passing run is proved. What would add
most next is an abstract turn that `QueryTurn` implements, with `Retrieval` and
`ToolLoop` shown to give it no outcome it does not expect, and the in-memory
session repository as a second implementation of `McpSession`'s store.
