------------------------------ MODULE ToolLoop ------------------------------
(***************************************************************************)
(* The registered tools and those who run them: tools/call and its REST    *)
(* twin, a bot's turn, the fix agent's tool-calling loop, and the          *)
(* completions whose caller drives a loop of its own, streamed or not.     *)
(*                                                                         *)
(* The registry is filled at start-up and does not change; a connector's   *)
(* tool comes and goes.  Requests share nothing else, so one is followed   *)
(* at a time.  A tool call is its name, in the order the model made them;  *)
(* a tool's arguments and text are left out.  How a completion is routed   *)
(* and metered is QueryTurn's.                                             *)
(***************************************************************************)
EXTENDS Integers, FiniteSets, Sequences, SequencesExt

CONSTANTS
    Builtin,        \* DEFAULT_TOOLS: public and switched on
    Product,        \* the configuration tools: public and switched off
    InternalOnly,   \* codegen and meeting tools
    Codegen,        \* those of them the fix agent offers
    Connector,      \* the tool of a connector type
    Nobody,         \* a name no source owns
    Callers,        \* identities: [internal |-> is it a Shielva service, perms |-> what it may do]
    MaxIterations,  \* ToolLoopInput.max_iterations
    MaxCalls, MaxFragments   \* bounds of a run: calls in an answer, pieces of one call

ASSUME BoundsAssumption ==
    MaxIterations \in Nat \ {0} /\ MaxCalls \in Nat /\ MaxFragments \in Nat
ASSUME NamesAssumption ==
    /\ Connector \notin Builtin \cup Product \cup InternalOnly \cup {Nobody}
    /\ Nobody \notin Builtin \cup Product \cup InternalOnly
    /\ Codegen \subseteq InternalOnly
    /\ Callers \subseteq [internal : BOOLEAN, perms : SUBSET {"shielva:internal", "other"}]

VARIABLES
    run,        \* the request being served
    exhausted,  \* whether the workspace has used up its tokens
    installed,  \* whether the caller's workspace has the connector installed
    published   \* whether the catalogue names its type; it may also be out of reach

vars == <<run, exhausted, installed, published>>

Tools == Builtin \cup Product \cup InternalOnly
Names == Tools \cup {Connector, Nobody}

(***************************************************************************)
(* ToolRegistry, LegacyToolRegistryAdapter and ToolApplicationService.     *)
(***************************************************************************)
Required(t) == IF t \in InternalOnly THEN {"shielva:internal"} ELSE {}
EnabledByDefault(t) == t \in Builtin

\* The same rule three times: is_permitted_for, _check_permissions, and the
\* adapter's own.
CheckPermissionsMutant(t, who) == who.internal \/ Required(t) = {} \/ who.perms # {}
CheckPermissions(t, who) == who.internal \/ Required(t) \subseteq who.perms

IsToolEnabled(t, overrides) ==
    IF t \in DOMAIN overrides THEN overrides[t] ELSE EnabledByDefault(t)

GetToolsForBot(who, overrides) ==
    {t \in Tools : IsToolEnabled(t, overrides) /\ CheckPermissions(t, who)}

ListFor(who) == {t \in Tools : CheckPermissions(t, who)} \cup {c \in {Connector} : installed /\ published}
ListTools(who) == {t \in ListFor(who) : t \in Tools => CheckPermissions(t, who)}

\* CompositeToolCatalogue.get: the registry first, then the connectors, which
\* know no tenant: a type that is published is found, installed or not.
Found(name) == name \in Tools \/ (name = Connector /\ published)

\* The built-in handlers turn what goes wrong into a result that says so: a
\* search without an engine and code that does not parse are answers.  Only a
\* call with the wrong arguments raises, and is a failed result.
RagQueryTool == {"ok", "failed"}
CodegenTool == {"ok", "failed"}
ExecuteTool(t, who) ==
    IF ~CheckPermissions(t, who) THEN {"denied"}
    ELSE IF t \in Codegen THEN CodegenTool ELSE RagQueryTool

\* The adapter asks first.  A connector is looked up again and its installation
\* checked there, whatever has moved meanwhile: it may have no source left, or
\* not be installed, which is a failed result.
Execute(name, who) ==
    CASE name = Connector -> {"ok", "failed", "unowned"}
      [] name \in Tools -> IF CheckPermissions(name, who) THEN ExecuteTool(name, who) ELSE {"denied"}
RanHandler(name, outcome) == name \in Tools /\ outcome \in {"ok", "failed"}

(***************************************************************************)
(* A request.                                                              *)
(***************************************************************************)
\* Of a completion: the calls the model made, the slots they are held in, what the
\* caller is told; of a stream, the place in the present chunk, and whether a
\* piece without an index came at another place than its call's.
NoStream == [sent |-> <<>>, slots |-> <<>>, told |-> <<>>, place |-> 0, astray |-> FALSE]
Start(pc, who, offered) ==
    [pc |-> pc, who |-> who, result |-> "none", offered |-> offered,
     history |-> <<>>, round |-> 1, queue |-> <<>>,   \* of the loop
     executed |-> <<>>, handlers |-> <<>>,            \* records, and what really ran
     stream |-> NoStream]
Done(result) ==
    [run EXCEPT !.pc = "done", !.result = result, !.offered = {}, !.queue = <<>>, !.stream.slots = <<>>]

Init ==
    /\ run \in {Start("done", who, {}) : who \in Callers}
    /\ exhausted \in BOOLEAN /\ installed \in BOOLEAN /\ published \in BOOLEAN

\* codegen_fix_agent: whoever names no e-mail is the internal service, and
\* nobody brings permissions.  Everybody may run the loop; what it is offered
\* is what it is permitted.
ExtractTenant(who) == [who EXCEPT !.perms = {}]
FixAgent(who) == Start("ask", ExtractTenant(who), Codegen \cap ListTools(ExtractTenant(who)))

Begin ==
    /\ run.pc = "done"
    /\ \E who \in Callers :
         \/ run' = FixAgent(who)
         \/ \E n \in Names : run' = [Start("call", who, ListTools(who)) EXCEPT !.queue = <<n>>]
         \/ \E t \in Tools, on \in BOOLEAN :
              run' = Start("bot", who, GetToolsForBot(who, [x \in {t} |-> on]))
         \/ run' = Start("codegen", ExtractTenant(who), {})
         \/ run' = Start("complete", who, {})
         \/ run' = Start("open", who, {})
    /\ UNCHANGED <<exhausted, installed, published>>

(***************************************************************************)
(* tools/call and POST /tools/{name}/execute.                              *)
(***************************************************************************)
CallResult(name, who) == IF Found(name) THEN Execute(name, who) ELSE {"not found"}
CallTool ==
    /\ run.pc = "call"
    /\ LET name == run.queue[1] IN
       \E outcome \in CallResult(name, run.who) :
          run' = [Done(outcome) EXCEPT !.handlers = IF RanHandler(name, outcome) THEN <<name>> ELSE <<>>]
    /\ UNCHANGED <<exhausted, installed, published>>

\* A bot's turn hands the model's call to the handler prepared for it, if one was.
BotTool ==
    /\ run.pc = "bot"
    /\ \/ \E name \in Names :
            run' = [Done("ok") EXCEPT !.handlers = IF name \in run.offered THEN <<name>> ELSE <<>>]
       \/ run' = Done("ok")
    /\ UNCHANGED <<exhausted, installed, published>>

(***************************************************************************)
(* CompleteWithToolLoopUseCase.                                            *)
(***************************************************************************)
\* LiteLLMProviderAdapter.complete: refused for want of tokens or failed on every
\* model of the chain, or what the first that answers says.
Failure == [failed |-> TRUE, calls |-> <<>>]
Response(calls) == [failed |-> FALSE, calls |-> calls]
Complete(answers) == {Failure} \cup (IF exhausted THEN {} ELSE {Response(calls) : calls \in answers})

\* The turns it is sent.
AssistantTurn(calls) == [role |-> "assistant", calls |-> calls]
ToolTurn(name) == [role |-> "tool", name |-> name]

\* One iteration: a refusal or a failure ends the run whatever ran before.  The
\* answer's calls are taken as they are: any names, offered or not, also where
\* nothing was offered.
CallProvider ==
    /\ run.pc = "ask"
    /\ \E r \in Complete(BoundedSeq(Names, MaxCalls)) :
         run' = IF r.failed THEN Done("failed")
                ELSE IF r.calls = <<>> THEN Done("answered")
                ELSE [run EXCEPT !.pc = "dispatch", !.queue = r.calls,
                        !.history = Append(@, AssistantTurn(r.calls))]
    /\ UNCHANGED <<exhausted, installed, published>>

\* _dispatch, one call of it: every outcome is a turn of the history and a record.
Answered(name, outcome) ==
    [run EXCEPT !.queue = Tail(@),
       !.history = Append(@, ToolTurn(name)),
       !.executed = Append(@, [name |-> name, is_error |-> outcome # "ok"]),
       !.handlers = IF RanHandler(name, outcome) THEN Append(@, name) ELSE @]
DispatchMutant ==
    /\ run.pc = "dispatch" /\ run.queue # <<>>
    /\ LET name == run.queue[1] IN
       IF ~Found(name) THEN run' = [run EXCEPT !.queue = Tail(@)]
       ELSE \E outcome \in Execute(name, run.who) : run' = Answered(name, outcome)
    /\ UNCHANGED <<exhausted, installed, published>>
\* Calls the handler it found itself.
DispatchUncheckedMutant ==
    /\ run.pc = "dispatch" /\ run.queue # <<>>
    /\ LET name == run.queue[1] IN
       IF ~Found(name) THEN run' = Answered(name, "unknown")
       ELSE \E outcome \in RagQueryTool : run' = Answered(name, outcome)
    /\ UNCHANGED <<exhausted, installed, published>>
Dispatch ==
    /\ run.pc = "dispatch" /\ run.queue # <<>>
    /\ LET name == run.queue[1] IN
       IF ~Found(name) THEN run' = Answered(name, "unknown")
       ELSE \E outcome \in Execute(name, run.who) : run' = Answered(name, outcome)
    /\ UNCHANGED <<exhausted, installed, published>>

\* After the cap one more completion, without tools.
NextIterationMutant ==
    /\ run.pc = "dispatch" /\ run.queue = <<>>
    /\ run' = [run EXCEPT !.pc = "ask", !.round = @ + 1]
    /\ UNCHANGED <<exhausted, installed, published>>
NextIteration ==
    /\ run.pc = "dispatch" /\ run.queue = <<>>
    /\ run' = IF run.round < MaxIterations THEN [run EXCEPT !.pc = "ask", !.round = @ + 1]
              ELSE [run EXCEPT !.pc = "final"]
    /\ UNCHANGED <<exhausted, installed, published>>

FinalAnswer ==
    /\ run.pc = "final"
    /\ \E r \in Complete({<<>>}) : run' = Done(IF r.failed THEN "failed" ELSE "truncated")
    /\ UNCHANGED <<exhausted, installed, published>>

\* POST /codegen/complete: one completion without tools, by way of the router.
CodegenComplete ==
    /\ run.pc = "codegen"
    /\ run' \in {Done("failed")} \cup (IF exhausted THEN {} ELSE {Done("answered")})
    /\ UNCHANGED <<exhausted, installed, published>>

(***************************************************************************)
(* /llm/complete and /llm/complete/stream: one completion, any calls go    *)
(* back to the caller.  Calls are numbered in the order the model makes    *)
(* them.  A slot is what is held of one: whose name, 0 if none came yet,   *)
(* and whose pieces of arguments, in the order they were put together.     *)
(***************************************************************************)
LlmComplete ==
    /\ run.pc = "complete"
    /\ \E r \in Complete(BoundedSeq(Names, MaxCalls)) :
         run' = [Done(IF r.failed THEN "failed" ELSE "answered") EXCEPT
                    !.stream = [NoStream EXCEPT !.sent = r.calls, !.told = r.calls]]
    /\ UNCHANGED <<exhausted, installed, published>>

NoSlot == [name |-> 0, args |-> <<>>]
Folded(slot, k, named, more) ==
    [name |-> IF named THEN k ELSE slot.name, args |-> IF more THEN Append(slot.args, k) ELSE slot.args]

OpenStream ==
    /\ run.pc = "open"
    /\ run' \in {Done("error")}
         \cup (IF exhausted THEN {}
               ELSE {[run EXCEPT !.pc = "stream",
                        !.stream = [NoStream EXCEPT !.sent = [i \in 1..MaxCalls |-> NoSlot],
                                                    !.slots = [i \in 1..MaxCalls |-> NoSlot]]]})
    /\ UNCHANGED <<exhausted, installed, published>>

\* _gather_tool_calls, one fragment: it goes to the slot of its index, or, where
\* it has none, of its place in its chunk.  The model names a call at most once;
\* calls may interleave, and a name may come late or not at all.
KeyMutant(k, indexed, place) == place
Key(k, indexed, place) == IF indexed THEN k ELSE place
Gather(stream, k, place, indexed, named, more) ==
    [stream EXCEPT !.place = place,
       !.astray = @ \/ (~indexed /\ place # k),
       !.sent[k] = Folded(@, k, named, more),
       !.slots[Key(k, indexed, place)] = Folded(@, k, named, more)]
GatherToolCalls ==
    /\ run.pc = "stream"
    /\ \E k \in 1..MaxCalls, place \in 1..MaxCalls, indexed, named, more \in BOOLEAN :
         /\ place \in {1, run.stream.place + 1}
         /\ named \/ more
         /\ named => run.stream.sent[k].name = 0
         /\ more => Len(run.stream.sent[k].args) < MaxFragments
         /\ run' = [run EXCEPT !.stream = Gather(@, k, place, indexed, named, more)]
    /\ UNCHANGED <<exhausted, installed, published>>

\* _assembled_tool_calls: the calls that were named, in the order of their slots.
Assembled(slots) == SelectSeq(slots, LAMBDA s : s.name # 0)

\* One terminal chunk once the provider's stream is exhausted, then [DONE]; or
\* an error event; or the client is gone.
EndStream ==
    /\ run.pc = "stream"
    /\ run' \in {[Done("done") EXCEPT !.stream.told = Assembled(run.stream.slots)], Done("error"), Done("left")}
    /\ UNCHANGED <<exhausted, installed, published>>

\* Outside: tokens are used up and topped up, the connector and its type come and go.
Outside ==
    /\ \/ exhausted' = ~exhausted /\ UNCHANGED <<installed, published>>
       \/ installed' = ~installed /\ UNCHANGED <<exhausted, published>>
       \/ published' = ~published /\ UNCHANGED <<exhausted, installed>>
    /\ UNCHANGED run

Next ==
    \/ Begin \/ CallTool \/ BotTool
    \/ CallProvider \/ Dispatch \/ NextIteration \/ FinalAnswer
    \/ CodegenComplete \/ LlmComplete \/ OpenStream \/ GatherToolCalls \/ EndStream
    \/ Outside

Spec == Init /\ [][Next]_vars

(***************************************************************************)
(* Properties.                                                             *)
(***************************************************************************)
TypeOK ==
    /\ run.pc \in {"ask", "dispatch", "final", "call", "bot", "codegen", "complete", "open", "stream", "done"}
    /\ \E c \in Callers : run.who.internal = c.internal /\ run.who.perms \in {{}, c.perms}
    /\ run.offered \subseteq Names
    /\ run.round \in 1..MaxIterations
    /\ \A i \in DOMAIN run.handlers : run.handlers[i] \in Tools
    /\ exhausted \in BOOLEAN /\ installed \in BOOLEAN /\ published \in BOOLEAN

\* Whatever name a model or a client comes up with, offered to it or not, a
\* handler only runs for a caller that is permitted its tool: the loop looks a
\* name up in the whole catalogue and asks nothing itself (tool_loop.py:259), so
\* a model that works for a tenant, is offered nothing and names an internal tool
\* all the same is stopped by the executor, and its call is answered with that.
PermittedOnly ==
    \A i \in DOMAIN run.handlers :
        run.who.internal \/ Required(run.handlers[i]) \subseteq run.who.perms

NamesOf(records) == [i \in DOMAIN records |-> records[i].name]
Times(t, names) == Cardinality({i \in DOMAIN names : names[i] = t})
ToolTurns(h, n) == {i \in 1..n : h[i].role = "tool"}
PairedAt(h, i) ==
    LET n == Len(h[i].calls) IN
    /\ i + n <= Len(h)
    /\ \A j \in 1..n : h[i + j] = ToolTurn(h[i].calls[j])
    /\ i + n < Len(h) => h[i + n + 1].role = "assistant"
Paired(h) ==
    /\ h # <<>> => h[1].role = "assistant"
    /\ \A i \in DOMAIN h : h[i].role = "assistant" => PairedAt(h, i)

\* No call of the model is lost, doubled or cut.  Whenever the loop goes back
\* to the provider, which refuses a conversation that leaves a call open, every
\* call has one tool turn, in order, whether its tool ran, failed, was denied or
\* is unknown; the records name the tool turns, in order, and nothing runs
\* without one (tool_loop.py:258).
CallsAnswered ==
    /\ run.pc \in {"ask", "final", "done"} => Paired(run.history)
    /\ Len(run.executed) = Cardinality(ToolTurns(run.history, Len(run.history)))
    /\ \A i \in ToolTurns(run.history, Len(run.history)) :
         run.executed[Cardinality(ToolTurns(run.history, i))].name = run.history[i].name
    /\ run.result \in {"answered", "truncated"} /\ run.history # <<>> =>
         \A t \in Tools : Times(t, run.handlers) <= Times(t, NamesOf(run.executed))

\* A stream that ends well tells the whole of every call that was named, in the
\* order they were made, however their pieces were interleaved and whichever of
\* them came without an index at the place of its call: the fragments are put
\* together by index, or by place (litellm_provider.py:298).
IndexedCallsComeWhole ==
    run.result = "done" /\ ~run.stream.astray => run.stream.told = Assembled(run.stream.sent)

\* What the code says of every stream: calls are "surfaced WHOLE on the final
\* chunk (`tool_calls`), never as partial JSON" (litellm_provider.py:161-163).
\* Calls without an index that come in a chunk each all fall into the slot of
\* the first place: the last name, with the arguments of all of them.
CallsComeWhole == run.result = "done" => run.stream.told = Assembled(run.stream.sent)

=============================================================================
