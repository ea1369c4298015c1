----------------------------- MODULE McpSession -----------------------------
(***************************************************************************)
(* The MCP session lifecycle as the server runs it: uvicorn workers share  *)
(* one Redis session store, every HTTP request is a coroutine, and each    *)
(* operation of ChatApplicationService is a GET, a decision and a SET (or  *)
(* DEL) with nothing that makes the pair atomic.  One step of this module  *)
(* is one Redis command together with the synchronous code around it.      *)
(***************************************************************************)
EXTENDS Naturals, Sequences, FiniteSets

CONSTANTS
  Tenant,      \* tenants, as named by X-Tenant-ID
  SessionId,   \* the ids uuid4 will mint (a bound: no more initializes than ids)
  Request,     \* request slots: how many HTTP requests may be in flight
  LogLevel,    \* levels logging/setLevel may ask for
  DefaultLevel,
  Ttl,         \* life of a record in ticks, reset by every save
  Posts,       \* the bodies clients POST: [batch |-> BOOLEAN, items |-> Seq(Method)]
  Serial,      \* TRUE: a client keeps one request per session in flight
  None

Method ==
  {"initialize", "ping", "call", "setLevel", "unknown", "initialized", "notice"}
Notification == {"initialized", "notice"}
SessionState == {"initializing", "ready"}
Session == [tenant : Tenant, state : SessionState, log_level : LogLevel]

ASSUME TtlAssumption == Ttl \in Nat \ {0}
ASSUME LevelAssumption == DefaultLevel \in LogLevel
ASSUME SerialAssumption == Serial \in BOOLEAN
ASSUME PostsAssumption ==
  Posts \subseteq [batch : BOOLEAN, items : Seq(Method) \ {<<>>}]
ASSUME NoneAssumption ==
  None \notin Session /\ None \notin SessionId /\ None \notin Tenant

VARIABLES
  store,   \* Redis: session id -> record or None
  ttl,     \* Redis: ticks the record has left, 0 when there is none
  req,     \* the coroutine in each request slot
  owner,   \* history: the tenant each id was minted for
  shaken,  \* history: ids whose owner's notifications/initialized was saved
  given,   \* history: ids an answer's Mcp-Session-Id header has told a client
  ended,   \* history: ids a DELETE /mcp removed
  quiet    \* history: ids removed while no other request held a copy

vars == <<store, ttl, req, owner, shaken, given, ended, quiet>>

Pc == {"idle", "next", "save", "handle", "saveLevel", "close", "delete"}
Status == {0, 200, 404}   \* 0: nothing in flight

(***************************************************************************)
(* sid is the batch loop's session_out, snap the aggregate the coroutine   *)
(* loaded, answers whether any item was answered; history: served are the  *)
(* sessions in whose name a result was produced, dead those ended before   *)
(* the request arrived.                                                    *)
(***************************************************************************)
Coroutine ==
  [pc : Pc, tenant : Tenant \cup {None}, sid : SessionId \cup {None},
   todo : Seq(Method), snap : Session \cup {None}, status : Status, answers : BOOLEAN,
   served : SUBSET SessionId, dead : SUBSET SessionId]

Idle ==
  [pc |-> "idle", tenant |-> None, sid |-> None, todo |-> <<>>, snap |-> None,
   status |-> 0, answers |-> FALSE, served |-> {}, dead |-> {}]

Init ==
  /\ store = [s \in SessionId |-> None]
  /\ ttl = [s \in SessionId |-> 0]
  /\ req = [r \in Request |-> Idle]
  /\ owner = [s \in SessionId |-> None]
  /\ shaken = {}
  /\ given = {}
  /\ ended = {}
  /\ quiet = {}

-----------------------------------------------------------------------------
(* Helpers *)

\* Variants named ...Mutant are plausible bugs of the operator they precede:
\* each breaks a property that a run checks and no definition here uses them.

\* SET without an expiry: a record keeps the life it had.
SaveWithoutExpiryMutant(s, session) ==
  /\ store' = [store EXCEPT ![s] = session]
  /\ ttl' = ttl

\* RedisChatSessionRepository.save: an unconditional SET with ex=ttl.
Save(s, session) ==
  /\ store' = [store EXCEPT ![s] = session]
  /\ ttl' = [ttl EXCEPT ![s] = Ttl]

\* The tenant of the record is not compared.
OwnedByAnyoneMutant(r) ==
  /\ req[r].sid # None
  /\ store[req[r].sid] # None

\* _load_owned finds a record and the record is the caller's.
Owned(r) ==
  /\ req[r].sid # None
  /\ store[req[r].sid] # None
  /\ store[req[r].sid].tenant = req[r].tenant

\* Every method is admitted in every state.
AllowsAnyMethodMutant(session, method) == TRUE

\* Session.allows_method, for the methods that reach it.
AllowsMethod(session, method) ==
  session.state = "ready" \/ method \in {"initialize", "ping"}

\* The item request r is at.
At(r, method) ==
  req[r].pc = "next" /\ req[r].todo # <<>> /\ Head(req[r].todo) = method

\* The ways _run_one hands an item back to the loop: a result, an answer that
\* names no session (an error keeps the id), a stale session (404, the id is
\* dropped), nothing.
Return(r, sid, status, answers, served) ==
  req' = [req EXCEPT ![r] =
            [req[r] EXCEPT !.pc = "next", !.todo = Tail(req[r].todo), !.snap = None,
                           !.sid = sid, !.status = status, !.answers = answers,
                           !.served = served]]
Served(r) ==
  Return(r, req[r].sid, req[r].status, TRUE, req[r].served \cup {req[r].sid})
Plain(r) == Return(r, req[r].sid, req[r].status, TRUE, req[r].served)
Stale(r) == Return(r, None, 404, TRUE, req[r].served)
Silent(r) == Return(r, req[r].sid, req[r].status, req[r].answers, req[r].served)

Goto(r, pc, snap) ==
  req' = [req EXCEPT ![r] = [req[r] EXCEPT !.pc = pc, !.snap = snap]]

-----------------------------------------------------------------------------
(* Requests arrive *)

InFlight == {r \in Request : req[r].pc # "idle"}

\* Clients carry no id or one the server gave out; a serial client waits for
\* the answer before it uses the id again.
Carried == {None} \cup
           {s \in given : Serial => \A q \in InFlight : req[q].sid # s}

\* The bound on initializes: every one in flight has an id left to mint.
InitializesOf(items) == {i \in DOMAIN items : items[i] = "initialize"}
Unminted == Cardinality({s \in SessionId : owner[s] = None})
InitializesInFlight == UNION {{r} \X InitializesOf(req[r].todo) : r \in Request}

\* mcp_post: a single message without a session id is refused at once (400)
\* unless it may come before one; everything else enters the item loop.
NeedsNoHeader == {"initialize", "ping", "initialized"}
Post(r, t, s, post) ==
  /\ req[r].pc = "idle"
  /\ s # None \/ post.batch \/ Head(post.items) \in NeedsNoHeader
  /\ Cardinality(InitializesInFlight)
       + Cardinality(InitializesOf(post.items)) <= Unminted
  /\ req' = [req EXCEPT ![r] =
               [Idle EXCEPT !.pc = "next", !.tenant = t, !.sid = s,
                            !.todo = post.items, !.status = 200, !.dead = ended]]
  /\ UNCHANGED <<store, ttl, owner, shaken, given, ended, quiet>>

\* mcp_delete.
Delete(r, t, s) ==
  /\ req[r].pc = "idle"
  /\ s # None
  /\ req' = [req EXCEPT ![r] = [Idle EXCEPT !.pc = "close", !.tenant = t,
                                            !.sid = s, !.dead = ended]]
  /\ UNCHANGED <<store, ttl, owner, shaken, given, ended, quiet>>

-----------------------------------------------------------------------------
(* One item of a POST *)

\* An id is free for minting as soon as its record is gone.
InitializeReusingIdsMutant(r, s) ==
  /\ At(r, "initialize")
  /\ store[s] = None
  /\ Save(s, [tenant |-> req[r].tenant, state |-> "initializing",
              log_level |-> DefaultLevel])
  /\ owner' = [owner EXCEPT ![s] = req[r].tenant]
  /\ Return(r, s, req[r].status, TRUE, req[r].served)
  /\ UNCHANGED <<shaken, given, ended, quiet>>

\* initialize ignores the id it came with and mints a session of its own.
Mint(r, s) ==
  /\ At(r, "initialize")
  /\ owner[s] = None
  /\ Save(s, [tenant |-> req[r].tenant, state |-> "initializing",
              log_level |-> DefaultLevel])
  /\ owner' = [owner EXCEPT ![s] = req[r].tenant]
  /\ UNCHANGED <<shaken, given, ended, quiet>>
Initialize(r, s) == Mint(r, s) /\ Return(r, s, req[r].status, TRUE, req[r].served)

\* Refused before any session is looked up: bad initialize parameters, a
\* method nobody handles, a session method without an id.
Reject(r) ==
  /\ \/ At(r, "initialize")
     \/ At(r, "unknown")
     \/ (At(r, "call") \/ At(r, "setLevel")) /\ req[r].sid = None
  /\ Plain(r)
  /\ UNCHANGED <<store, ttl, owner, shaken, given, ended, quiet>>

\* ping saves the copy it loaded, to keep the session alive.
PingThatSavesMutant(r) ==
  /\ At(r, "ping")
  /\ \/ req[r].sid = None /\ Plain(r)
     \/ Owned(r) /\ Goto(r, "save", store[req[r].sid])
     \/ req[r].sid # None /\ ~Owned(r) /\ Stale(r)
  /\ UNCHANGED <<store, ttl, owner, shaken, given, ended, quiet>>

\* ping loads the session it names and saves nothing; it needs none.
Ping(r) ==
  /\ At(r, "ping")
  /\ \/ req[r].sid = None /\ Plain(r)
     \/ req[r].sid # None /\ Owned(r) /\ Served(r)
     \/ req[r].sid # None /\ ~Owned(r) /\ Stale(r)
  /\ UNCHANGED <<store, ttl, owner, shaken, given, ended, quiet>>

\* assert_method_allowed, its GET and its decision.
AssertMethodAllowed(r) ==
  /\ At(r, "call") \/ At(r, "setLevel")
  /\ req[r].sid # None
  /\ \/ ~Owned(r) /\ Stale(r)
     \/ /\ Owned(r)
        /\ IF AllowsMethod(store[req[r].sid], Head(req[r].todo))
           THEN Goto(r, "save", store[req[r].sid])
           ELSE Plain(r)
  /\ UNCHANGED <<store, ttl, owner, shaken, given, ended, quiet>>

\* Notifications: initialized loads its session, the rest change nothing.
Notify(r) ==
  /\ \/ At(r, "notice") /\ Silent(r)
     \/ /\ At(r, "initialized")
        /\ IF Owned(r) THEN Goto(r, "save", store[req[r].sid]) ELSE Silent(r)
  /\ UNCHANGED <<store, ttl, owner, shaken, given, ended, quiet>>

\* The SET that ends mark_initialized: READY, whatever the store holds by now.
MarkReady(session) == [session EXCEPT !.state = "ready"]
SaveReady(r) ==
  /\ req[r].pc = "save"
  /\ Head(req[r].todo) = "initialized"
  /\ Save(req[r].sid, MarkReady(req[r].snap))
  /\ shaken' = shaken \cup {req[r].sid}
  /\ Silent(r)
  /\ UNCHANGED <<owner, given, ended, quiet>>

\* The SET that ends assert_method_allowed: the loaded aggregate, touched.
Touch(r) ==
  /\ req[r].pc = "save"
  /\ Head(req[r].todo) # "initialized"
  /\ Save(req[r].sid, req[r].snap)
  /\ Goto(r, "handle", None)
  /\ UNCHANGED <<owner, shaken, given, ended, quiet>>

\* The handler of an admitted request: it answers, or fails, or (setLevel,
\* once its parameters are valid) loads the session a second time.
Handle(r) ==
  /\ req[r].pc = "handle"
  /\ \/ Plain(r)
     \/ Head(req[r].todo) = "call" /\ Served(r)
     \/ /\ Head(req[r].todo) = "setLevel"
        /\ IF Owned(r) THEN Goto(r, "saveLevel", store[req[r].sid]) ELSE Stale(r)
  /\ UNCHANGED <<store, ttl, owner, shaken, given, ended, quiet>>

SetLogLevel(r, level) ==
  /\ req[r].pc = "saveLevel"
  /\ Save(req[r].sid, [req[r].snap EXCEPT !.log_level = level])
  /\ Served(r)
  /\ UNCHANGED <<owner, shaken, given, ended, quiet>>

-----------------------------------------------------------------------------
(* DELETE, answers, failures, time *)

\* close: load for the ownership check, answer 204 at once if there is nothing.
Close(r) ==
  /\ req[r].pc = "close"
  /\ IF Owned(r) THEN Goto(r, "delete", None)
                 ELSE req' = [req EXCEPT ![r] = Idle]
  /\ UNCHANGED <<store, ttl, owner, shaken, given, ended, quiet>>

HoldsCopy(q, s) == req[q].snap # None /\ req[q].sid = s

DeleteRecord(r) ==
  LET s == req[r].sid IN
  /\ req[r].pc = "delete"
  /\ store' = [store EXCEPT ![s] = None]
  /\ ttl' = [ttl EXCEPT ![s] = 0]
  /\ ended' = IF store[s] = None THEN ended ELSE ended \cup {s}
  /\ quiet' = IF store[s] = None \/ \E q \in Request : HoldsCopy(q, s)
              THEN quiet ELSE quiet \cup {s}
  /\ req' = [req EXCEPT ![r] = Idle]
  /\ UNCHANGED <<owner, shaken, given>>

\* The response leaves: 202 if no item answered, otherwise the status so far,
\* and, unless that is 404, the session id in its header.
Reply(r) ==
  /\ req[r].pc = "next"
  /\ req[r].todo = <<>>
  /\ given' = IF req[r].answers /\ req[r].status = 200
              THEN given \cup ({req[r].sid} \ {None}) ELSE given
  /\ req' = [req EXCEPT ![r] = Idle]
  /\ UNCHANGED <<store, ttl, owner, shaken, ended, quiet>>

\* Redis does not answer: the item fails and the loop goes on, a DELETE is 500.
StoreError(r) ==
  /\ \/ req[r].pc \in {"close", "delete"} /\ req' = [req EXCEPT ![r] = Idle]
     \/ /\ req[r].pc \in {"next", "save", "handle", "saveLevel"}
        /\ req[r].todo # <<>>
        /\ IF Head(req[r].todo) \in Notification THEN Silent(r) ELSE Plain(r)
  /\ UNCHANGED <<store, ttl, owner, shaken, given, ended, quiet>>

\* Redis obeys and its answer is lost: the record is written and the item fails
\* all the same (for a notification or a DEL nobody sees the difference).
LostReply(r) ==
  \/ \E s \in SessionId : Mint(r, s) /\ Plain(r)
  \/ /\ req[r].pc = "save"
     /\ Head(req[r].todo) # "initialized"
     /\ Save(req[r].sid, req[r].snap)
     /\ Plain(r)
     /\ UNCHANGED <<owner, shaken, given, ended, quiet>>
  \/ \E level \in LogLevel :
       /\ req[r].pc = "saveLevel"
       /\ Save(req[r].sid, [req[r].snap EXCEPT !.log_level = level])
       /\ Plain(r)
       /\ UNCHANGED <<owner, shaken, given, ended, quiet>>

\* The worker dies with the request.
Crash(r) ==
  /\ req[r].pc # "idle"
  /\ req' = [req EXCEPT ![r] = Idle]
  /\ UNCHANGED <<store, ttl, owner, shaken, given, ended, quiet>>

\* Records outlive their last tick.
TickPastExpiryMutant ==
  /\ \E s \in SessionId : store[s] # None
  /\ ttl' = [s \in SessionId |-> IF store[s] # None THEN ttl[s] - 1 ELSE 0]
  /\ store' = [s \in SessionId |-> IF ttl[s] >= 0 THEN store[s] ELSE None]
  /\ UNCHANGED <<req, owner, shaken, given, ended, quiet>>

\* Redis time: records whose life runs out are gone.
Tick ==
  /\ \E s \in SessionId : ttl[s] > 0
  /\ ttl' = [s \in SessionId |-> IF ttl[s] > 0 THEN ttl[s] - 1 ELSE 0]
  /\ store' = [s \in SessionId |-> IF ttl[s] > 1 THEN store[s] ELSE None]
  /\ UNCHANGED <<req, owner, shaken, given, ended, quiet>>

Arrive(r) ==
  \E t \in Tenant, s \in Carried :
    Delete(r, t, s) \/ \E post \in Posts : Post(r, t, s, post)

Work(r) ==
  \/ \E s \in SessionId : Initialize(r, s)
  \/ Reject(r)
  \/ Ping(r)
  \/ AssertMethodAllowed(r)
  \/ Notify(r)
  \/ SaveReady(r)
  \/ Touch(r)
  \/ Handle(r)
  \/ \E level \in LogLevel : SetLogLevel(r, level)
  \/ Close(r)
  \/ DeleteRecord(r)
  \/ Reply(r)

Next ==
  \/ \E r \in Request : Arrive(r) \/ Work(r) \/ StoreError(r) \/ LostReply(r) \/ Crash(r)
  \/ Tick

Spec == Init /\ [][Next]_vars

FairSpec == Spec /\ WF_vars(Tick) /\ \A r \in Request : WF_vars(Work(r))

-----------------------------------------------------------------------------
(* Properties *)

TypeOK ==
  /\ store \in [SessionId -> Session \cup {None}]
  /\ ttl \in [SessionId -> 0 .. Ttl]
  /\ req \in [Request -> Coroutine]
  /\ owner \in [SessionId -> Tenant \cup {None}]
  /\ shaken \subseteq SessionId
  /\ given \subseteq SessionId
  /\ ended \subseteq SessionId
  /\ quiet \subseteq ended

\* No handler of tools, resources, prompts or logging runs for a session whose
\* owner has not completed the initialize handshake, whatever stale copies
\* concurrent requests of the same session write back.
HandshakeBeforeWork ==
  \A r \in Request :
    req[r].pc \in {"handle", "saveLevel"} => req[r].sid \in shaken

\* A tenant is only ever served in the name of a session minted for it, and a
\* stored record never changes hands.
TenantIsolation ==
  /\ \A r \in Request : \A s \in req[r].served : owner[s] = req[r].tenant
  /\ \A s \in SessionId : store[s] # None => store[s].tenant = owner[s]

\* A session in the store never falls back from READY to INITIALIZING, although
\* every save writes a whole copy loaded earlier.
ReadyNeverRegresses ==
  [][\A s \in SessionId :
       (store[s] # None /\ store[s].state = "ready" /\ store'[s] # None)
         => store'[s].state = "ready"]_vars

\* A session deleted while no other request held a copy of it stays deleted.
QuietCloseIsFinal == \A s \in quiet : store[s] = None

\* What the transport promises (transport.py:9): a request that carries the id of
\* a session terminated before it arrived is never served in that session's
\* name.  Not so: a save of a copy loaded before the DELETE brings it back.
TerminatedStaysUnknown ==
  \A r \in Request : req[r].served \cap req[r].dead = {}

\* What the store's documentation says of expiry: every request that is served
\* renews the record it was served from, a ping like any other
\* (redis_chat_session_repository.py:24-26).  Not so: a ping saves nothing.
PingKeepsAlive ==
  [][\A r \in Request : At(r, "ping") /\ Served(r) => ttl'[req[r].sid] = Ttl]_vars

\* Once clients fall silent every session is reclaimed: expiry is the idle GC.
IdleSessionsReclaimed ==
  <>[](InFlight = {}) => <>[](\A s \in SessionId : store[s] = None)
=============================================================================
