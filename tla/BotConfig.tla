------------------------------ MODULE BotConfig ------------------------------
(***************************************************************************)
(* The tools that build and configure a bot over MCP: bot_config_tools,    *)
(* lifecycle_tools and meeting_tools.  A tool checks its arguments, turns  *)
(* them into one request (two for the tools behind _merge_put, four for    *)
(* get_bot_config) and maps the answer to a result.  What they change is   *)
(* kept by cms-core, core-api and the TMS, where the studio edits it too.  *)
(* A record is a function from its keys to values, and a value is its      *)
(* writer: that is all the properties tell apart.                          *)
(***************************************************************************)
EXTENDS Integers, Functions

CONSTANTS
    Callers,        \* requests that run a tool
    Studio,         \* the editor of the same records
    Old,            \* what a field held at first
    Arguments,      \* tool -> the argument lists it is called with, as sets
    MaxCalls, MaxEdits   \* bounds of a run

ASSUME BoundsAssumption == MaxCalls \in Nat /\ MaxEdits \in Nat
ASSUME WritersAssumption == {Studio, Old, "none"} \cap Callers = {} /\ Old # "none"

VARIABLES
    store,     \* resource -> the record kept upstream
    made,      \* what was created: <<kind, record>>
    call,      \* caller -> the state of its tool call
    calls, edits,
    \* History, read by no step: what callers asked for in so many words, and
    \* per caller the record as its update read it.
    asked, asRead

vars == <<store, made, call, calls, edits, asked, asRead>>

ServerKeys == {"id"}                    \* _SERVER_KEYS
Full == {"label", "pattern"}            \* what a *Create model requires
Records == {"intent", "rule", "schema"} \* replaced whole by PUT
Settings == {"prompt", "variables", "memory", "kb_groups"}
Tms == {"goal", "epic", "sprint", "ticket"}

(***************************************************************************)
(* Arguments to requests.  v is the caller; an argument left out, empty or *)
(* malformed is an element of `a` that is missing.  NoRequest: the tool    *)
(* refuses before it calls anyone.                                         *)
(***************************************************************************)
NoRequest == [method |-> "none"]
Request(method, on, body) == [method |-> method, on |-> on, body |-> body]
Needs(keys, a, req) == IF keys \subseteq a THEN req ELSE NoRequest
Fields(keys, v) == [k \in keys |-> v]
Over(new, old) == [k \in DOMAIN new \cup DOMAIN old |-> IF k \in DOMAIN new THEN new[k] ELSE old[k]]

CreateIdentity(a, v) ==
    Needs({"name", "bot"}, a, Request("create", "identity",
        [label |-> v, role |-> v, is_active |-> "is_active" \in a]))
UpdateIdentity(a, v) ==
    LET role == IF "persona" \in a THEN {"role"} ELSE {}
        keys == (a \cap {"label", "role", "is_active"}) \cup role
    IN IF a = {} THEN NoRequest
       ELSE Request("patch", "identity", [k \in keys |-> IF k = "is_active" THEN TRUE ELSE v])
ActivateIdentity(a, v) == Needs({"id"}, a, Request("activate", "identity", v))

CreateIntent(a, v) == Needs({"name", "bot"}, a, Request("create", "intent", Fields(Full, v)))
CreateDecisionRule(a, v) == Needs({"name", "pattern"}, a, Request("create", "rule", Fields(Full, v)))
CreateActionSchema(a, v) == Needs({"name", "connector", "operation"}, a, Request("create", "schema", Fields(Full, v)))
CreatePainter(a, v) ==
    IF "name" \notin a \/ ("custom" \in a /\ "template" \notin a) THEN NoRequest
    ELSE Request("create", "painter", [label |-> v, status |-> "draft"])
PublishPainter(a, v) == Needs({"id"}, a, Request("patch", "painter", [status |-> "published"]))

\* The tools behind _merge_put name a record and the keys to change; a name is
\* taken for a label.
Renamed(a) == IF "name" \in a THEN (a \ {"name"}) \cup {"label"} ELSE a
Update(record, keys, v) ==
    IF keys = {} THEN NoRequest ELSE Request("merge", record, Fields(keys, v))
UpdateIntent(a, v) == Update("intent", Renamed(a) \ {"bot"}, v)
UpdateDecisionRule(a, v) == Update("rule", a, v)
UpdateActionSchema(a, v) == Update("schema", a, v)

SetBotPromptMutant(a, v) ==
    Needs({"bot"}, a, Request("set", "prompt", IF "value" \in a THEN v ELSE "none"))
SetBotPrompt(a, v) == Needs({"bot", "value"}, a, Request("set", "prompt", v))
SetBotVariables(a, v) ==
    Needs({"bot", "value"}, a, Request("set", "variables", IF "empty" \in a THEN "none" ELSE v))
SetBotMemoryPolicy(a, v) == Needs({"bot", "value"}, a, Request("set", "memory", v))

\* Entries that carry no id are dropped.  A list of rules that has entries and
\* yields no id is refused and an empty one clears; a list of groups clears in
\* both cases.
SetBotKnowledgeGroups(a, v) ==
    Needs({"bot"}, a, Request("set", "kb_groups", IF "with_id" \in a THEN v ELSE "none"))
SetBotSignalsMutant(a, v) ==
    Needs({"bot"}, a, Request("set", "signals", IF "with_id" \in a THEN v ELSE "none"))
SetBotSignals(a, v) ==
    IF "bot" \notin a \/ ("without_id" \in a /\ "with_id" \notin a) THEN NoRequest
    ELSE Request("set", "signals", IF "with_id" \in a THEN v ELSE "none")

TestActionSchema(a, v) == Needs({"id"}, a, Request("run", "schema", v))
CreateBot(a, v) == Needs({"name"}, a, Request("create", "bot", [label |-> v, status |-> "draft"]))
DeployBot(a, v) == Needs({"bot"}, a, Request("patch", "bot", [status |-> "deployed"]))
ChatWithBot(a, v) ==
    Needs({"bot", "message"}, a, Request("run", "bot", IF "conversation" \in a THEN Old ELSE v))
CreateKnowledgeBase(a, v) == Needs({"name"}, a, Request("create", "kb", Fields({"label"}, v)))
IngestUrl(a, v) == Needs({"id", "url"}, a, Request("run", "kb", v))
CreateDemo(a, v) == Needs({"bot"}, a, Request("run", "bot", v))

\* The TMS tools take their title from the schema and check nothing.  Without
\* a parent the TMS is told to find one.
Parented(kind, a, v) == Request("create", kind, [label |-> v, parent |-> IF "parent" \in a THEN v ELSE "auto"])
CreateTmsGoal(a, v) == Request("create", "goal", Fields({"label"}, v))
CreateTmsEpic(a, v) == Parented("epic", a, v)
CreateTmsSprint(a, v) == Parented("sprint", a, v)
CreateTmsTicket(a, v) ==
    Request("create", "ticket", [label |-> v, parent |-> IF "parent" \in a THEN v ELSE "none"])

\* Reads keep nothing.  A transcript is only asked for by its meeting's id.
GetBotConfig(a, v) == Needs({"bot"}, a, Request("read", "config", {}))
Lists(a, v) == Request("read", "list", {})
MeetingContextQuery(a, v) == Needs({"id"}, a, Request("read", "meeting", {}))
GetDelegationRules(a, v) == Request("read", "meeting", {})

\* The tools by name, as the three modules register them.
ConfigTools(a, v) ==
    [create_identity |-> CreateIdentity(a, v), update_identity |-> UpdateIdentity(a, v),
     activate_identity |-> ActivateIdentity(a, v), create_intent |-> CreateIntent(a, v),
     update_intent |-> UpdateIntent(a, v), create_decision_rule |-> CreateDecisionRule(a, v),
     update_decision_rule |-> UpdateDecisionRule(a, v), create_action_schema |-> CreateActionSchema(a, v),
     update_action_schema |-> UpdateActionSchema(a, v), test_action_schema |-> TestActionSchema(a, v),
     create_painter |-> CreatePainter(a, v), publish_painter |-> PublishPainter(a, v),
     set_bot_prompt |-> SetBotPrompt(a, v), set_bot_variables |-> SetBotVariables(a, v),
     set_bot_memory_policy |-> SetBotMemoryPolicy(a, v), set_bot_signals |-> SetBotSignals(a, v),
     get_bot_config |-> GetBotConfig(a, v), lists |-> Lists(a, v)]
LifecycleTools(a, v) ==
    [create_bot |-> CreateBot(a, v), deploy_bot |-> DeployBot(a, v), chat_with_bot |-> ChatWithBot(a, v),
     create_knowledge_base |-> CreateKnowledgeBase(a, v), ingest_url |-> IngestUrl(a, v),
     set_bot_knowledge_groups |-> SetBotKnowledgeGroups(a, v), create_demo |-> CreateDemo(a, v)]
MeetingTools(a, v) ==
    [create_tms_goal |-> CreateTmsGoal(a, v), create_tms_epic |-> CreateTmsEpic(a, v),
     create_tms_sprint |-> CreateTmsSprint(a, v), create_tms_ticket |-> CreateTmsTicket(a, v),
     meeting_context_query |-> MeetingContextQuery(a, v), get_delegation_rules |-> GetDelegationRules(a, v)]
RequestOf(tool, a, v) == Over(ConfigTools(a, v), Over(LifecycleTools(a, v), MeetingTools(a, v)))[tool]

ASSUME ArgumentsAssumption ==
    DOMAIN Arguments \subseteq DOMAIN ConfigTools({}, Old) \cup DOMAIN LifecycleTools({}, Old) \cup DOMAIN MeetingTools({}, Old)

(***************************************************************************)
(* _gateway.call: what comes back is an answer, a refusal the tools catch  *)
(* (ToolCallError), or an exception of the client (a time-out, a dropped   *)
(* connection) that they do not.  A body that is no JSON is an empty one.  *)
(***************************************************************************)
Outcomes == {"answered", "blank", "denied", "missing", "failing", "lost"}
CallMutant(o) ==
    IF o \in {"denied", "missing"} THEN "raise" ELSE IF o = "lost" THEN "escape" ELSE "return"
Call(o) ==
    IF o \in {"denied", "missing", "failing"} THEN "raise" ELSE IF o = "lost" THEN "escape" ELSE "return"

\* Whether the request took effect upstream, for the fields Kept below: a refusal
\* that names its reason comes before the write, a server error or a lost answer
\* on either side.
Landed(o) == IF o \in {"answered", "blank"} THEN {TRUE} ELSE IF o \in {"denied", "missing"} THEN {FALSE} ELSE BOOLEAN

\* create_bot and create_knowledge_base need the id in the answer; the meeting
\* tools need JSON, report every exception as a failure of their own, and take
\* a missing persona for one without rules.
Result(tool, req, o) ==
    CASE req.on \in Tms \cup {"meeting"} ->
             IF o = "answered" \/ (o = "missing" /\ tool = "get_delegation_rules") THEN "done" ELSE "failed"
      [] tool \in {"create_bot", "create_knowledge_base"} /\ o = "blank" -> "failed"
      [] OTHER -> CASE Call(o) = "return" -> "done" [] Call(o) = "raise" -> "failed" [] Call(o) = "escape" -> "error"

(***************************************************************************)
(* Upstream: what a request does when it takes effect.  A body is validated *)
(* against a model, which wants its required fields and drops the fields it *)
(* does not define without a word: the PATCH of a persona defines no        *)
(* is_active, activating has an endpoint of its own.  A PUT replaces the    *)
(* record, but for the keys that are the server's own.                      *)
(***************************************************************************)
Defined ==
    [identity |-> {"label", "role"}, intent |-> Full \cup {"examples"}, rule |-> Full, schema |-> Full,
     painter |-> {"label", "status"}, bot |-> {"label", "status"}]

Accepted(req) == req.method = "put" => Full \subseteq DOMAIN req.body

Kept(req) == Restrict(req.body, DOMAIN req.body \cap Defined[req.on])

Effect(req) ==
    CASE req.method = "create" -> made' = made \cup {<<req.on, req.body>>} /\ UNCHANGED store
      [] req.method = "put" -> store' = [store EXCEPT ![req.on] = Over(Kept(req), Restrict(@, ServerKeys))] /\ UNCHANGED made
      [] req.method = "patch" -> store' = [store EXCEPT ![req.on] = Over(Kept(req), @)] /\ UNCHANGED made
      [] req.method = "activate" -> store' = [store EXCEPT ![req.on].is_active = TRUE] /\ UNCHANGED made
      [] req.method = "set" -> store' = [store EXCEPT ![req.on] = req.body] /\ UNCHANGED made
      [] req.method = "run" -> UNCHANGED <<store, made>>

Idle == [pc |-> "idle"]
Active(p) == call[p].pc \in {"sent", "put"}

Init ==
    /\ store = [[r \in Records \cup Settings \cup {"signals", "identity", "painter", "bot"} |->
                   IF r \in Records THEN Fields(Full \cup ServerKeys, Old) ELSE Old]
                EXCEPT !.identity = [label |-> Old, role |-> Old, is_active |-> FALSE],
                       !.painter = [label |-> Old, status |-> "draft"],
                       !.bot = [label |-> Old, status |-> "draft"]]
    /\ made = {}
    /\ call = [p \in Callers |-> Idle]
    /\ calls = 0 /\ edits = 0
    /\ asked = {}
    /\ asRead = [p \in Callers |-> <<>>]

\* What a caller asks for in so many words.
Asks(tool, a) ==
    (IF tool = "activate_identity" \/ "is_active" \in a THEN {"live"} ELSE {})
    \cup (IF tool = "publish_painter" THEN {"publish"} ELSE {})
    \cup (IF tool = "deploy_bot" THEN {"deploy"} ELSE {})
    \cup (IF tool = "set_bot_signals" /\ a \cap {"with_id", "without_id"} = {} THEN {"clear"} ELSE {})
    \cup (IF tool = "set_bot_knowledge_groups" /\ "with_id" \notin a THEN {"unlink"} ELSE {})
    \cup (IF tool = "set_bot_variables" /\ "empty" \in a THEN {"forget"} ELSE {})

Finish(p, result, landed) ==
    call' = [call EXCEPT ![p] = [pc |-> "done", tool |-> @.tool, req |-> @.req, result |-> result, landed |-> landed]]

Begin(p) ==
    /\ ~Active(p)
    /\ calls < MaxCalls
    /\ calls' = calls + 1
    /\ \E tool \in DOMAIN Arguments : \E a \in Arguments[tool] :
         LET req == RequestOf(tool, a, p) IN
         /\ call' = [call EXCEPT ![p] =
              IF req = NoRequest
              THEN [pc |-> "done", tool |-> tool, req |-> req, landed |-> FALSE,
                    result |-> IF tool = "meeting_context_query" THEN "done" ELSE "failed"]
              ELSE [pc |-> "sent", tool |-> tool, req |-> req, parts |-> 0]]
         /\ asked' = asked \cup Asks(tool, a)
    /\ UNCHANGED <<store, made, edits, asRead>>

\* The one request of a tool, or the PUT of _merge_put.
Serve(p) ==
    /\ Active(p)
    /\ LET req == IF call[p].pc = "put" THEN call[p].put ELSE call[p].req IN
       /\ req.method \notin {"merge", "read"}
       /\ \E o \in Outcomes : \E landed \in Landed(o) :
            /\ ~Accepted(req) => o = "failing" /\ ~landed
            /\ IF landed THEN Effect(req) ELSE UNCHANGED <<store, made>>
            /\ Finish(p, Result(call[p].tool, req, o), landed)
    /\ asRead' = [asRead EXCEPT ![p] = <<>>]
    /\ UNCHANGED <<calls, edits, asked>>

\* _merge_put, the GET: overlay the changes on what it answers.
MergedMutant(current, changes) == Over(Restrict(current, DOMAIN current \ ServerKeys), changes)
Merged(current, changes) == Over(changes, Restrict(current, DOMAIN current \ ServerKeys))

MergeRead(p) ==
    /\ call[p].pc = "sent" /\ call[p].req.method = "merge"
    /\ \E o \in Outcomes :
         IF o = "answered"
         THEN LET req == call[p].req IN
              /\ call' = [call EXCEPT ![p] = [pc |-> "put", tool |-> @.tool, req |-> req,
                           put |-> Request("put", req.on, Merged(store[req.on], req.body))]]
              /\ asRead' = [asRead EXCEPT ![p] = store[req.on]]
         ELSE Finish(p, IF Call(o) = "escape" THEN "error" ELSE "failed", FALSE) /\ UNCHANGED asRead
    /\ UNCHANGED <<store, made, calls, edits, asked>>

\* Reads.  get_bot_config makes four, and a refused part does not lose the rest.
Read(p) ==
    /\ call[p].pc = "sent" /\ call[p].req.method = "read"
    /\ \E o \in Outcomes :
         IF call[p].req.on = "config" /\ Call(o) # "escape" /\ call[p].parts < 3
         THEN call' = [call EXCEPT ![p].parts = @ + 1]
         ELSE Finish(p, IF call[p].req.on = "config" /\ Call(o) # "escape" THEN "done"
                        ELSE Result(call[p].tool, call[p].req, o), FALSE)
    /\ UNCHANGED <<store, made, calls, edits, asked, asRead>>

\* Someone edits a record in the studio.
Edit ==
    /\ edits < MaxEdits
    /\ edits' = edits + 1
    /\ \E on \in Records, k \in Full : store' = [store EXCEPT ![on][k] = Studio]
    /\ UNCHANGED <<made, call, calls, asked, asRead>>

Next == Edit \/ \E p \in Callers : Begin(p) \/ Serve(p) \/ MergeRead(p) \/ Read(p)

Spec == Init /\ [][Next]_vars

(***************************************************************************)
(* Properties.                                                             *)
(***************************************************************************)
TypeOK ==
    /\ \A r \in Records : Full \cup ServerKeys \subseteq DOMAIN store[r]
    /\ store["prompt"] \in Callers \cup {Old} /\ store["memory"] \in Callers \cup {Old}
    /\ \A r \in {"variables", "kb_groups", "signals"} : store[r] \in Callers \cup {Old, "none"}
    /\ DOMAIN store["identity"] = {"label", "role", "is_active"}
    /\ \A p \in Callers : call[p].pc \in {"idle", "sent", "put", "done"}
    /\ calls \in 0..MaxCalls /\ edits \in 0..MaxEdits

\* What callers of the bot would notice happens only because somebody asked for
\* exactly that: a persona goes live, a painter is published, a bot deployed, a
\* bot's decision rules or variables cleared, its knowledge unlinked
\* (bot_config_tools.py:166, 354, 499, 673, lifecycle_tools.py:167).
AskedFor ==
    /\ store["identity"].is_active \/ (\E m \in made : m[1] = "identity" /\ m[2].is_active) => "live" \in asked
    /\ store["painter"].status = "published" => "publish" \in asked
    /\ store["bot"].status = "deployed" => "deploy" \in asked
    /\ store["signals"] = "none" => "clear" \in asked
    /\ store["kb_groups"] = "none" => "unlink" \in asked
    /\ store["variables"] = "none" => "forget" \in asked
    /\ \A m \in made : m[1] \in {"painter", "bot"} => m[2].status = "draft"

\* The update of p takes effect in this step.
PutLands(p) == call[p].pc = "put" /\ call'[p] # call[p] /\ call'[p].landed

\* How far overlapping updates can reach into each other: one that lands writes
\* its own keys and puts back every other as it stood when the update read the
\* record, whoever wrote it since; it brings back nothing older, drops no key
\* that was there and never touches the server's (bot_config_tools.py:55-68).
RestAsRead ==
    [][\A p \in Callers : PutLands(p) =>
         LET on == call[p].req.on
             told == DOMAIN call[p].req.body \cap Defined[on]
         IN /\ \A k \in told : store'[on][k] = p
            /\ \A k \in DOMAIN asRead[p] \ (told \cup ServerKeys) : store'[on][k] = asRead[p][k]
            /\ \A k \in ServerKeys : store'[on][k] = store[on][k]]_vars

\* "Only the keys you pass change; the rest are kept" (bot_config_tools.py:294).
\* Not so: what was written between the GET and the PUT is undone.
OthersKept ==
    [][\A p \in Callers : PutLands(p) =>
         LET on == call[p].req.on IN
         \A k \in DOMAIN store[on] \ DOMAIN call[p].req.body : store'[on][k] = store[on][k]]_vars

\* "no key the model does not define" is sent (test_config_tools_match_backend_models.py:18),
\* so that a persona's update reported as done has stored every field it was
\* given.  Not so for is_active, which the PATCH drops.
UpdatedIsStored ==
    [][\A p \in Callers : Active(p) /\ call[p].req.method = "patch" /\ ~Active(p)' /\ call'[p].result = "done" =>
         \A k \in DOMAIN call[p].req.body : store'[call[p].req.on][k] = call[p].req.body[k]]_vars

=============================================================================
