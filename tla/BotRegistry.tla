----------------------------- MODULE BotRegistry -----------------------------
(***************************************************************************)
(* BotRegistry.get_bot: which configuration, and which knowledge bases, a  *)
(* turn of a workspace is answered with.  core-api keeps the documents:    *)
(* one workspace row and older member rows per tenant (only one of which   *)
(* can hold the agent, so one is modelled), and at most one link that      *)
(* assigns the agent to another workspace.  It replaces a document whole   *)
(* and at any moment.  One agent is modelled: the cache key, the link and  *)
(* the rows never mix agents.  A knowledge base set is a sequence, as the  *)
(* code keeps it; prompts and names are left out.                          *)
(***************************************************************************)
EXTENDS Integers, Sequences, SequencesExt

CONSTANTS
    Calls,       \* callers of get_bot: turns and prompts/get requests
    Tenants,     \* workspaces
    Owners,      \* those whose rows may hold the agent
    Agent,       \* the agent's id, as it occurs in bot groups
    KbIds, GroupIds, Agents,   \* what documents mention
    RowDocs,     \* the customerService documents core-api may store
    Layouts,     \* the rows a run starts with
    NoRow,       \* no such document
    NoBot,       \* the document does not hold the agent
    Unlinked,    \* no link row
    Ttl,         \* bot_cache_ttl_seconds, in ticks; 0 switches the cache off
    Slack,       \* a call lasts at most this many ticks
    MaxCalls, MaxEdits, MaxClock   \* bounds of a run

Scopes == {"ws", "member"}
Links == {Unlinked} \cup {l \in [to: Tenants, owner: Owners] : l.to # l.owner}

ASSUME TtlAssumption == Ttl \in Nat /\ Slack \in Nat
ASSUME BoundsAssumption == MaxCalls \in Nat /\ MaxEdits \in Nat /\ MaxClock \in Nat
ASSUME OwnersAssumption == Owners \subseteq Tenants

\* A customerService document, as far as it is read here.
IsDocument(d) ==
    \E gids \in SUBSET GroupIds :
        d \in [bot : {NoBot} \cup [kbs : Seq(KbIds), kb_group_ids : Seq(GroupIds)],
               kb_groups : [gids -> Seq(KbIds)],
               bot_groups : Seq([bot_ids : SUBSET Agents, kbs : Seq(KbIds), kb_group_ids : Seq(GroupIds)])]

ASSUME DocsAssumption == (\A d \in RowDocs : IsDocument(d)) /\ ~IsDocument(NoRow)
ASSUME LayoutsAssumption == Layouts \subseteq [Tenants -> [Scopes -> RowDocs \cup {NoRow}]]

VARIABLES
    rows,      \* tenant -> scope -> the stored document
    link,      \* the agent's link row
    cache,     \* tenant -> <<stamp, configuration>>, or <<>>
    now,       \* time.monotonic, in ticks
    call,      \* caller -> the state of its get_bot
    calls, edits,   \* steps used up
    \* History, read by no step: when each set of knowledge bases was last the
    \* agent's, and what happened while a call was running.
    lastTrue, seen

vars == <<rows, link, cache, now, call, calls, edits, lastTrue, seen>>

(***************************************************************************)
(* The documents.                                                          *)
(***************************************************************************)
Holds(row) == row # NoRow /\ row.bot # NoBot
Home(rs, t) == {s \in Scopes : Holds(rs[t][s])}

(***************************************************************************)
(* _resolve_effective_kb_ids.  _add appends the ids that are not there yet.*)
(***************************************************************************)
Add(ids, acc) ==
    LET added[i \in 0 .. Len(ids)] ==
          IF i = 0 THEN acc
          ELSE IF Contains(added[i - 1], ids[i]) THEN added[i - 1] ELSE Append(added[i - 1], ids[i])
    IN added[Len(ids)]

Expand(gids, groups, acc) ==
    LET added[i \in 0 .. Len(gids)] ==
          IF i = 0 THEN acc
          ELSE IF gids[i] \in DOMAIN groups THEN Add(groups[gids[i]], added[i - 1]) ELSE added[i - 1]
    IN added[Len(gids)]

ResolveEffectiveKbIds(doc) ==
    LET own == Expand(doc.bot.kb_group_ids, doc.kb_groups, Add(doc.bot.kbs, <<>>))
        \* with the first i bot groups
        with[i \in 0 .. Len(doc.bot_groups)] ==
          IF i = 0 THEN own
          ELSE LET bg == doc.bot_groups[i] IN
               IF Agent \in bg.bot_ids THEN Expand(bg.kb_group_ids, doc.kb_groups, Add(bg.kbs, with[i - 1]))
                                       ELSE with[i - 1]
    IN with[Len(doc.bot_groups)]

\* What the agent is entitled to draw on, said without the algorithm: its own
\* bases, those of its groups, and those of the bot groups it is in.
GrantedBy(doc) ==
    LET OfGroups(gids) == UNION {ToSet(doc.kb_groups[g]) : g \in ToSet(gids) \cap DOMAIN doc.kb_groups} IN
    ToSet(doc.bot.kbs) \cup OfGroups(doc.bot.kb_group_ids)
        \cup UNION {ToSet(bg.kbs) \cup OfGroups(bg.kb_group_ids)
                      : bg \in {g \in ToSet(doc.bot_groups) : Agent \in g.bot_ids}}

\* The document as the migration means it: the agent where it is, the groups
\* on the workspace row once it has any.
Merged(legacy, ws) ==
    IF ws = NoRow THEN legacy
    ELSE [legacy EXCEPT !.kb_groups = IF ws.kb_groups = <<>> THEN @ ELSE ws.kb_groups,
                        !.bot_groups = IF ws.bot_groups = <<>> THEN @ ELSE ws.bot_groups]

Meant(rs, t) == IF "ws" \in Home(rs, t) THEN rs[t]["ws"] ELSE Merged(rs[t]["member"], rs[t]["ws"])

(***************************************************************************)
(* A call.                                                                 *)
(***************************************************************************)
Mock == [kind |-> "mock", kb_ids |-> <<>>]
Config(t, doc, torn) ==
    [kind |-> "config", kb_ids |-> ResolveEffectiveKbIds(doc), config_tenant |-> t, torn |-> torn]

Idle == [pc |-> "idle"]
Quiet == [owners |-> {}, homes |-> {}, failed |-> FALSE]

Init ==
    /\ rows \in Layouts
    /\ link \in Links
    /\ cache = [t \in Tenants |-> <<>>]
    /\ now = 0
    /\ call = [p \in Calls |-> Idle]
    /\ calls = 0 /\ edits = 0
    /\ lastTrue = [t \in Tenants |-> IF Home(rows, t) = {} THEN {} ELSE {<<GrantedBy(Meant(rows, t)), 0>>}]
    /\ seen = [p \in Calls |-> Quiet]

Active(p) == call[p].pc \notin {"idle", "done"}

\* config_tenant: the owner of the agent linked to this workspace, or itself.
ConfigTenant(t) == IF link # Unlinked /\ link.to = t THEN link.owner ELSE t

\* A call begins with the read of the link; one that raises leaves the
\* workspace with what it owns itself.
GetBot(p) ==
    /\ ~Active(p)
    /\ calls < MaxCalls
    /\ calls' = calls + 1
    /\ \E t \in Tenants, failed \in BOOLEAN :
         LET c == IF failed THEN t ELSE ConfigTenant(t) IN
         /\ call' = [call EXCEPT ![p] = [pc |-> "link", tenant |-> t, config |-> c, start |-> now]]
         /\ seen' = [seen EXCEPT ![p] = [homes |-> {Home(rows, c)}, failed |-> FALSE,
                       owners |-> IF link # Unlinked /\ link.to = t THEN {link.owner} ELSE {}]]
    /\ UNCHANGED <<rows, link, cache, now, edits, lastTrue>>

Answer(p, a) == call' = [call EXCEPT ![p] = [pc |-> "done", tenant |-> @.tenant, answer |-> a, at |-> now]]

FreshMutant(t) == Ttl > 0 /\ cache[t] # <<>>
Fresh(t) == Ttl > 0 /\ cache[t] # <<>> /\ now - cache[t][1] < Ttl

\* The cache is keyed by the agent alone.
LookUpMutant(p) ==
    /\ call[p].pc = "link"
    /\ \/ \E t \in Tenants : Fresh(t) /\ Answer(p, cache[t][2])
       \/ /\ \A t \in Tenants : ~Fresh(t)
          /\ call' = [call EXCEPT ![p] = [pc |-> "ws", tenant |-> @.tenant, config |-> @.config, start |-> @.start,
                                            doc |-> rows[@.config]["ws"]]]
    /\ UNCHANGED <<rows, link, cache, now, calls, edits, lastTrue, seen>>

\* The link has arrived: the cache is looked up, and on a miss the workspace
\* row is asked for.  In this and the next steps the document a query finds is
\* what it holds when the query runs; the code goes on with it at the call's
\* next step.
LookUp(p) ==
    /\ call[p].pc = "link"
    /\ IF Fresh(call[p].config)
       THEN Answer(p, cache[call[p].config][2])
       ELSE call' = [call EXCEPT ![p] = [pc |-> "ws", tenant |-> @.tenant, config |-> @.config, start |-> @.start,
                                         doc |-> rows[@.config]["ws"]]]
    /\ UNCHANGED <<rows, link, cache, now, calls, edits, lastTrue, seen>>

ResolveAndStoreMutant(p, doc, torn) ==
    LET bot == IF Holds(doc) THEN Config(call[p].config, doc, torn) ELSE Mock IN
    /\ Answer(p, bot)
    /\ cache' = [cache EXCEPT ![call[p].config] = <<now, bot>>]

\* No await after the last read: find the agent, resolve, store and answer.
ResolveAndStore(p, doc, torn) ==
    LET t == call[p].config
        bot == Config(t, doc, torn)
    IN IF Holds(doc)
       THEN /\ Answer(p, bot)
            /\ cache' = IF Ttl > 0 THEN [cache EXCEPT ![t] = <<now, bot>>] ELSE cache
       ELSE /\ Answer(p, Mock)
            /\ UNCHANGED cache

QueryLegacyMutant(p) ==
    LET doc == rows[call[p].config]["member"]
    IN call' = [call EXCEPT ![p] = [pc |-> "legacy", tenant |-> @.tenant, config |-> @.config, start |-> @.start,
                                    ws |-> @.doc, doc |-> IF Holds(doc) THEN doc ELSE NoRow, torn |-> TRUE]]

\* Ask for the tenant's rows that hold the agent; with none, the empty result.
QueryLegacy(p) ==
    LET t == call[p].config
        Found(doc) == call' = [call EXCEPT ![p] = [pc |-> "legacy", tenant |-> @.tenant, config |-> t, start |-> @.start,
                                  ws |-> @.doc, doc |-> doc, torn |-> rows[t]["ws"] # @.doc]]
    IN \/ \E s \in Home(rows, t) : Found(rows[t][s])
       \/ Home(rows, t) = {} /\ Found(NoRow)

\* _find_customer, with the workspace row: it holds the agent, or the row that
\* does is searched.
AfterWs(p) ==
    /\ call[p].pc = "ws"
    /\ IF Holds(call[p].doc)
       THEN ResolveAndStore(p, call[p].doc, FALSE)
       ELSE QueryLegacy(p) /\ UNCHANGED cache
    /\ UNCHANGED <<rows, link, now, calls, edits, lastTrue, seen>>

\* With the answer of the second query: merged with the workspace row, or that
\* row alone, or (there being none) any row of the tenant is asked for.
AfterLegacy(p) ==
    /\ call[p].pc = "legacy"
    /\ \/ /\ call[p].doc # NoRow
          /\ ResolveAndStore(p, Merged(call[p].doc, call[p].ws), call[p].torn)
       \/ /\ call[p].doc = NoRow /\ call[p].ws # NoRow
          /\ ResolveAndStore(p, call[p].ws, FALSE)
       \/ /\ call[p].doc = NoRow /\ call[p].ws = NoRow
          /\ \E doc \in {rows[call[p].config][s] : s \in Scopes} :
               /\ doc = NoRow => \A s \in Scopes : rows[call[p].config][s] = NoRow
               /\ call' = [call EXCEPT ![p] = [pc |-> "any", tenant |-> @.tenant, config |-> @.config, start |-> @.start,
                                                doc |-> doc, torn |-> rows[@.config]["ws"] # NoRow]]
          /\ UNCHANGED cache
    /\ UNCHANGED <<rows, link, now, calls, edits, lastTrue, seen>>

AfterAny(p) ==
    /\ call[p].pc = "any"
    /\ ResolveAndStore(p, call[p].doc, call[p].torn)
    /\ UNCHANGED <<rows, link, now, calls, edits, lastTrue, seen>>

\* A read of the customer rows raises: the stand-in, which is not cached.
ReadFails(p) ==
    /\ call[p].pc \in {"ws", "legacy", "any"}
    /\ Answer(p, Mock)
    /\ seen' = [seen EXCEPT ![p].failed = TRUE]
    /\ UNCHANGED <<rows, link, cache, now, calls, edits, lastTrue>>

(***************************************************************************)
(* core-api and the clock.                                                 *)
(***************************************************************************)
Remember(rs, tick) ==
    [t \in Tenants |->
        IF Home(rs, t) = {} THEN lastTrue[t]
        ELSE LET g == GrantedBy(Meant(rs, t)) IN {e \in lastTrue[t] : e[1] # g} \cup {<<g, tick>>}]

StoreRow ==
    /\ edits < MaxEdits
    /\ edits' = edits + 1
    /\ \E t \in Owners, s \in Scopes, d \in RowDocs :
         /\ rows[t][s] # d
         /\ rows' = [rows EXCEPT ![t][s] = d]
    /\ lastTrue' = Remember(rows', now)
    /\ seen' = [p \in Calls |-> IF Active(p)
                                THEN [seen[p] EXCEPT !.homes = @ \cup {Home(rows', call[p].config)}]
                                ELSE seen[p]]
    /\ UNCHANGED <<link, cache, now, call, calls>>

Relink ==
    /\ edits < MaxEdits
    /\ edits' = edits + 1
    /\ link' \in Links \ {link}
    /\ seen' = [p \in Calls |-> IF Active(p) /\ link' # Unlinked /\ link'.to = call[p].tenant
                                THEN [seen[p] EXCEPT !.owners = @ \cup {link'.owner}]
                                ELSE seen[p]]
    /\ UNCHANGED <<rows, cache, now, call, calls, lastTrue>>

Tick ==
    /\ now < MaxClock
    /\ \A p \in Calls : Active(p) => now - call[p].start < Slack
    /\ now' = now + 1
    /\ lastTrue' = Remember(rows, now')
    /\ UNCHANGED <<rows, link, cache, call, calls, edits, seen>>

Next ==
    \/ \E p \in Calls : GetBot(p) \/ LookUp(p) \/ AfterWs(p) \/ AfterLegacy(p) \/ AfterAny(p) \/ ReadFails(p)
    \/ StoreRow \/ Relink \/ Tick

Spec == Init /\ [][Next]_vars

(***************************************************************************)
(* Properties.                                                             *)
(***************************************************************************)
Answered(p) == call[p].pc = "done"

TypeOK ==
    /\ rows \in [Tenants -> [Scopes -> RowDocs \cup {NoRow}]]
    /\ link \in Links
    /\ \A t \in Tenants : cache[t] = <<>> \/ (cache[t][1] \in 0..now /\ cache[t][2].kind = "config")
    /\ now \in 0..MaxClock /\ calls \in 0..MaxCalls /\ edits \in 0..MaxEdits
    /\ \A p \in Calls : call[p].pc \in {"idle", "link", "ws", "legacy", "any", "done"}

\* No answer crosses workspaces: a configuration handed to a workspace is its
\* own, or comes from an owner that had the agent linked to that workspace at
\* some moment of this very call, whatever is cached and whenever the link
\* moves (config_tenant, get_bot's cache key, bot_registry.py:89 and 139).
OnlyOwnOrLinked ==
    \A p \in Calls : Answered(p) /\ call[p].answer.kind = "config" =>
        call[p].answer.config_tenant \in {call[p].tenant} \cup seen[p].owners

\* The knowledge bases of an answer were, without repetition, exactly those
\* granted to the agent at some moment less than the cache's time to live plus
\* the length of the call that read them ago.  An answer
\* whose workspace row was rewritten between the two reads of _find_customer
\* is left out: it may mix two moments (see the README).
GrantedLately ==
    \A p \in Calls : Answered(p) /\ call[p].answer.kind = "config" /\ ~call[p].answer.torn =>
        LET a == call[p].answer IN
        /\ IsInjective(a.kb_ids)
        /\ \E e \in lastTrue[a.config_tenant] :
             e[1] = ToSet(a.kb_ids) /\ call[p].at - e[2] <= Slack + (IF Ttl > 0 THEN Ttl - 1 ELSE 0)

\* The stand-in configuration, which drops the agent's prompt and knowledge
\* without an error, is only ever used when a read failed or when no row of the
\* configuration's tenant held the agent at some moment of the call: core-api
\* moving the agent from the member row to the workspace row between the two
\* reads of _find_customer (bot_registry.py:67 and 72) is not noticed.
MockHasACause ==
    \A p \in Calls : Answered(p) /\ call[p].answer.kind = "mock" =>
        seen[p].failed \/ {} \in seen[p].homes

=============================================================================
