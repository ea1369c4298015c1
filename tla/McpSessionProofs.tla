-------------------------- MODULE McpSessionProofs --------------------------
(***************************************************************************)
(* Proofs about McpSession, for any number of tenants, sessions, requests  *)
(* and any bodies they POST.  Everything rests on SessionInv: what the     *)
(* store and every in-flight copy say of a session agrees with whom it was *)
(* minted for and whether its handshake was saved.                         *)
(***************************************************************************)
EXTENDS McpSessionSerial, TLAPS

-----------------------------------------------------------------------------
(* The inductive invariant *)

\* A record, in the store or in a copy, is sound for session s.
Sound(record, s) ==
  /\ record.tenant = owner[s]
  /\ record.state = "ready" <=> s \in shaken

StoreSound ==
  \A s \in SessionId : store[s] # None => owner[s] # None /\ Sound(store[s], s)

\* Between its load and its save a coroutine acts for a session of its tenant;
\* a copy that is not READY is held only by mark_initialized.
CoroutineSound(r) ==
  /\ req[r].pc \notin {"idle"} => req[r].tenant \in Tenant
  /\ req[r].pc \in {"save", "handle", "saveLevel"} =>
       /\ req[r].todo # <<>>
       /\ req[r].sid \in SessionId
       /\ owner[req[r].sid] = req[r].tenant
  /\ req[r].pc \in {"save", "saveLevel"} <=> req[r].snap # None
  /\ req[r].snap # None => req[r].snap.tenant = req[r].tenant
  /\ req[r].pc = "save" /\ Head(req[r].todo) # "initialized" =>
       req[r].snap.state = "ready" /\ req[r].sid \in shaken
  /\ req[r].pc = "saveLevel" => req[r].snap.state = "ready"
  /\ req[r].pc \in {"handle", "saveLevel"} => req[r].sid \in shaken
  /\ req[r].pc = "delete" => req[r].sid \in SessionId
  /\ \A s \in req[r].served : owner[s] = req[r].tenant /\ owner[s] # None

CoroutinesSound == \A r \in Request : CoroutineSound(r)

HistorySound ==
  /\ \A s \in shaken : owner[s] # None
  /\ \A s \in quiet : /\ store[s] = None
                      /\ owner[s] # None
                      /\ \A r \in Request : ~HoldsCopy(r, s)

SessionInv == TypeOK /\ StoreSound /\ CoroutinesSound /\ HistorySound

-----------------------------------------------------------------------------
(* What the building blocks of the actions do *)

LEMMA ReturnFacts ==
  ASSUME TypeOK, NEW r \in Request, req[r].todo # <<>>,
         NEW sid \in SessionId \cup {None}, NEW status \in Status,
         NEW answers \in BOOLEAN, NEW served \in SUBSET SessionId,
         Return(r, sid, status, answers, served)
  PROVE  /\ req' \in [Request -> Coroutine]
         /\ \A q \in Request \ {r} : req'[q] = req[q]
         /\ req'[r].pc = "next" /\ req'[r].snap = None /\ req'[r].served = served
         /\ req'[r].tenant = req[r].tenant
<1> DEFINE c == [req[r] EXCEPT !.pc = "next", !.todo = Tail(req[r].todo),
                              !.snap = None, !.sid = sid, !.status = status,
                              !.answers = answers, !.served = served]
<1>1. Tail(req[r].todo) \in Seq(Method)
  BY DEF TypeOK, Coroutine
<1>2. req[r] \in Coroutine
  BY DEF TypeOK
<1>3. c \in Coroutine
  BY <1>1, <1>2 DEF Coroutine, Pc
<1>4. /\ c.pc = "next" /\ c.snap = None /\ c.served = served
      /\ c.tenant = req[r].tenant
  BY <1>2 DEF Coroutine
<1>5. req' = [req EXCEPT ![r] = c]
  BY DEF Return
<1> HIDE DEF c
<1>6. QED
  BY <1>3, <1>4, <1>5 DEF TypeOK

LEMMA GotoFacts ==
  ASSUME TypeOK, NEW r \in Request, NEW pc \in Pc, NEW snap \in Session \cup {None},
         Goto(r, pc, snap)
  PROVE  /\ req' \in [Request -> Coroutine]
         /\ \A q \in Request \ {r} : req'[q] = req[q]
         /\ req'[r].pc = pc /\ req'[r].snap = snap /\ req'[r].served = req[r].served
         /\ req'[r].tenant = req[r].tenant /\ req'[r].sid = req[r].sid
         /\ req'[r].todo = req[r].todo
  BY DEF TypeOK, Coroutine, Goto

LEMMA IdleFacts ==
  ASSUME TypeOK, NEW r \in Request, req' = [req EXCEPT ![r] = Idle]
  PROVE  /\ req' \in [Request -> Coroutine]
         /\ \A q \in Request \ {r} : req'[q] = req[q]
         /\ req'[r] = Idle
  BY DEF TypeOK, Coroutine, Idle, Pc, Status

LEMMA SaveFacts ==
  ASSUME TypeOK, NEW s \in SessionId, NEW session \in Session, Save(s, session)
  PROVE  /\ store' \in [SessionId -> Session \cup {None}]
         /\ ttl' \in [SessionId -> 0 .. Ttl]
         /\ \A u \in SessionId \ {s} : store'[u] = store[u]
         /\ store'[s] = session
  BY TtlAssumption DEF TypeOK, Save

\* Coroutines that do not move stay sound while history only grows.
LEMMA OthersStaySound ==
  ASSUME SessionInv, NEW q \in Request, req'[q] = req[q], shaken \subseteq shaken',
         \A s \in SessionId : owner[s] # None => owner'[s] = owner[s]
  PROVE  CoroutineSound(q)'
<1>1. CoroutineSound(q)
  BY DEF SessionInv, CoroutinesSound
<1>2. req[q] \in Coroutine
  BY DEF SessionInv, TypeOK
<1>3. QED
  BY <1>1, <1>2, NoneAssumption DEF CoroutineSound, Coroutine

\* A coroutine back at the top of the loop, or idle, claims little.
LEMMA ReturnedIsSound ==
  ASSUME NEW r \in Request, req'[r].pc = "next", req'[r].snap = None,
         req'[r].tenant \in Tenant,
         \A s \in req'[r].served : owner'[s] = req'[r].tenant /\ owner'[s] # None
  PROVE  CoroutineSound(r)'
  BY DEF CoroutineSound

LEMMA IdleIsSound ==
  ASSUME NEW r \in Request, req'[r] = Idle
  PROVE  CoroutineSound(r)'
  BY DEF CoroutineSound, Idle

\* A step of r that leaves Redis and the histories alone.
LEMMA LocalStep ==
  ASSUME SessionInv, NEW r \in Request,
         UNCHANGED <<store, ttl, owner, shaken, ended, quiet>>,
         given' \subseteq SessionId,
         req' \in [Request -> Coroutine],
         \A q \in Request \ {r} : req'[q] = req[q],
         CoroutineSound(r)',
         req'[r].snap # None => store[req'[r].sid] # None
  PROVE  SessionInv'
<1>1. TypeOK'
  BY DEF SessionInv, TypeOK
<1>2. StoreSound'
  BY DEF SessionInv, StoreSound, Sound
<1>3. CoroutinesSound'
  <2> SUFFICES ASSUME NEW q \in Request PROVE CoroutineSound(q)'
    BY DEF CoroutinesSound
  <2>1. CASE q = r
    BY <2>1
  <2>2. CASE q # r
    BY <2>2, OthersStaySound
  <2>3. QED
    BY <2>1, <2>2
<1>4. HistorySound'
  BY DEF SessionInv, HistorySound, HoldsCopy
<1>5. QED
  BY <1>1, <1>2, <1>3, <1>4 DEF SessionInv

\* A step of r that writes a sound record for s, and ends r's hold on a copy.
LEMMA SaveStep ==
  ASSUME SessionInv, NEW r \in Request, NEW s \in SessionId,
         NEW session \in Session, Save(s, session), s \notin quiet,
         UNCHANGED <<given, ended, quiet>>,
         owner' \in [SessionId -> Tenant \cup {None}], owner'[s] # None,
         \A u \in SessionId : u # s \/ owner[u] # None => owner'[u] = owner[u],
         shaken \subseteq shaken', shaken' \subseteq shaken \cup {s},
         session.tenant = owner'[s], session.state = "ready" <=> s \in shaken',
         req' \in [Request -> Coroutine],
         \A q \in Request \ {r} : req'[q] = req[q],
         CoroutineSound(r)', req'[r].snap = None
  PROVE  SessionInv'
<1> USE SaveFacts
<1>0. TypeOK
  BY DEF SessionInv
<1>1. TypeOK'
  BY <1>0 DEF TypeOK
<1>2. StoreSound'
  BY <1>0, NoneAssumption DEF SessionInv, StoreSound, Sound, TypeOK
<1>3. CoroutinesSound'
  <2> SUFFICES ASSUME NEW q \in Request PROVE CoroutineSound(q)'
    BY DEF CoroutinesSound
  <2>1. CASE q = r
    BY <2>1
  <2>2. CASE q # r
    BY <2>2, OthersStaySound
  <2>3. QED
    BY <2>1, <2>2
<1>4. HistorySound'
  BY <1>0 DEF SessionInv, HistorySound, HoldsCopy, TypeOK
<1>5. QED
  BY <1>1, <1>2, <1>3, <1>4 DEF SessionInv

-----------------------------------------------------------------------------
(* Every action preserves the invariant *)

LEMMA ArriveInv ==
  ASSUME SessionInv, NEW r \in Request, Arrive(r) PROVE SessionInv'
<1>0. TypeOK
  BY DEF SessionInv
<1>1. PICK t \in Tenant, s \in Carried :
        Delete(r, t, s) \/ \E post \in Posts : Post(r, t, s, post)
  BY DEF Arrive
<1>2. s \in SessionId \cup {None}
  BY <1>0 DEF Carried, TypeOK
<1>3. CASE Delete(r, t, s)
  <2> DEFINE c == [Idle EXCEPT !.pc = "close", !.tenant = t, !.sid = s, !.dead = ended]
  <2>0. <<>> \in Seq(Method) /\ ended \in SUBSET SessionId
    BY <1>0 DEF TypeOK
  <2>1. c \in Coroutine /\ c.pc = "close" /\ c.tenant = t /\ c.snap = None /\ c.served = {}
        /\ c.sid = s
    BY <1>2, <2>0 DEF Idle, Coroutine, Pc, Status
  <2>2. req' = [req EXCEPT ![r] = c]
    BY <1>3 DEF Delete
  <2> HIDE DEF c
  <2>3. CoroutineSound(r)'
    BY <1>0, <2>1, <2>2 DEF TypeOK, CoroutineSound
  <2>4. req' \in [Request -> Coroutine] /\ (\A q \in Request \ {r} : req'[q] = req[q])
        /\ req'[r].snap = None
    BY <1>0, <2>1, <2>2 DEF TypeOK
  <2>5. UNCHANGED <<store, ttl, owner, shaken, ended, quiet>> /\ given' \subseteq SessionId
    BY <1>0, <1>3 DEF Delete, TypeOK
  <2>6. QED
    BY <2>3, <2>4, <2>5, LocalStep
<1>4. ASSUME NEW post \in Posts, Post(r, t, s, post) PROVE SessionInv'
  <2> DEFINE c == [Idle EXCEPT !.pc = "next", !.tenant = t, !.sid = s,
                               !.todo = post.items, !.status = 200, !.dead = ended]
  <2>1. post.items \in Seq(Method)
    BY PostsAssumption
  <2>2. c \in Coroutine /\ c.pc = "next" /\ c.tenant = t /\ c.snap = None /\ c.served = {}
    BY <1>0, <1>2, <2>1 DEF TypeOK, Idle, Coroutine, Pc, Status
  <2>3. req' = [req EXCEPT ![r] = c]
    BY <1>4 DEF Post
  <2> HIDE DEF c
  <2>4. CoroutineSound(r)'
    BY <1>0, <2>2, <2>3 DEF TypeOK, CoroutineSound
  <2>5. req' \in [Request -> Coroutine] /\ (\A q \in Request \ {r} : req'[q] = req[q])
        /\ req'[r].snap = None
    BY <1>0, <2>2, <2>3 DEF TypeOK
  <2>6. UNCHANGED <<store, ttl, owner, shaken, ended, quiet>> /\ given' \subseteq SessionId
    BY <1>0, <1>4 DEF Post, TypeOK
  <2>7. QED
    BY <2>4, <2>5, <2>6, LocalStep
<1>5. QED
  BY <1>1, <1>3, <1>4

\* An item answered without a save: no session is named, or one that is owned.
LEMMA AnswerInv ==
  ASSUME SessionInv, NEW r \in Request, req[r].pc # "idle", req[r].todo # <<>>,
         UNCHANGED <<store, ttl, owner, shaken, given, ended, quiet>>,
         \/ Plain(r) \/ Stale(r) \/ Silent(r)
         \/ Served(r) /\ req[r].sid \in SessionId /\ owner[req[r].sid] = req[r].tenant
  PROVE  SessionInv'
<1>0. TypeOK /\ req[r] \in Coroutine /\ CoroutineSound(r)
  BY DEF SessionInv, TypeOK, CoroutinesSound
<1>1. req[r].tenant \in Tenant
  BY <1>0 DEF CoroutineSound
<1>2. PICK sid \in SessionId \cup {None}, status \in Status, answers \in BOOLEAN,
           served \in SUBSET SessionId :
        /\ Return(r, sid, status, answers, served)
        /\ \A s \in served : owner[s] = req[r].tenant /\ owner[s] # None
  <2>1. /\ req[r].sid \in SessionId \cup {None} /\ req[r].status \in Status
        /\ req[r].answers \in BOOLEAN /\ req[r].served \in SUBSET SessionId
        /\ 404 \in Status /\ TRUE \in BOOLEAN /\ None \in SessionId \cup {None}
    BY <1>0 DEF Coroutine, Status
  <2>2. \A s \in req[r].served : owner[s] = req[r].tenant /\ owner[s] # None
    BY <1>0 DEF CoroutineSound
  <2>3. CASE Plain(r)
    BY <2>1, <2>2, <2>3 DEF Plain
  <2>4. CASE Stale(r)
    BY <2>1, <2>2, <2>4 DEF Stale
  <2>5. CASE Silent(r)
    BY <2>1, <2>2, <2>5 DEF Silent
  <2>6. CASE Served(r) /\ req[r].sid \in SessionId /\ owner[req[r].sid] = req[r].tenant
    <3> DEFINE served == req[r].served \cup {req[r].sid}
    <3>1. served \in SUBSET SessionId
      BY <2>1, <2>6
    <3>2. \A s \in served : owner[s] = req[r].tenant /\ owner[s] # None
      BY <2>2, <2>6, <1>1, NoneAssumption
    <3>3. Return(r, req[r].sid, req[r].status, TRUE, served)
      BY <2>6 DEF Served
    <3> HIDE DEF served
    <3>4. QED
      BY <2>1, <3>1, <3>2, <3>3
  <2>7. QED
    BY <2>3, <2>4, <2>5, <2>6
<1>3. /\ req' \in [Request -> Coroutine] /\ (\A q \in Request \ {r} : req'[q] = req[q])
      /\ req'[r].pc = "next" /\ req'[r].snap = None /\ req'[r].served = served
      /\ req'[r].tenant = req[r].tenant
  BY <1>0, <1>2, ReturnFacts
<1>4. CoroutineSound(r)'
  BY <1>1, <1>2, <1>3, ReturnedIsSound
<1>5. given' \subseteq SessionId
  BY <1>0 DEF TypeOK
<1>6. QED
  BY <1>3, <1>4, <1>5, LocalStep

\* A GET that found the caller's own session hands it a sound copy.
LEMMA LoadedCopy ==
  ASSUME SessionInv, NEW r \in Request, Owned(r)
  PROVE  /\ req[r].sid \in SessionId /\ store[req[r].sid] \in Session
         /\ store[req[r].sid] # None
         /\ owner[req[r].sid] = req[r].tenant
         /\ store[req[r].sid].tenant = req[r].tenant
         /\ store[req[r].sid].state = "ready" <=> req[r].sid \in shaken
<1>1. req[r].sid \in SessionId
  BY DEF SessionInv, TypeOK, Coroutine, Owned
<1>2. QED
  BY <1>1 DEF SessionInv, TypeOK, StoreSound, Sound, Owned

LEMMA AdmitInv ==
  ASSUME SessionInv, NEW r \in Request, AssertMethodAllowed(r) PROVE SessionInv'
<1>0. TypeOK /\ req[r] \in Coroutine /\ CoroutineSound(r)
  BY DEF SessionInv, TypeOK, CoroutinesSound
<1>1. /\ req[r].pc = "next" /\ req[r].todo # <<>>
      /\ Head(req[r].todo) \in {"call", "setLevel"}
      /\ UNCHANGED <<store, ttl, owner, shaken, given, ended, quiet>>
  BY DEF AssertMethodAllowed, At
<1>2. CASE Stale(r) \/ Plain(r)
  BY <1>1, <1>2, AnswerInv
<1>3. CASE /\ Owned(r) /\ Goto(r, "save", store[req[r].sid])
           /\ AllowsMethod(store[req[r].sid], Head(req[r].todo))
  <2>1. store[req[r].sid].state = "ready"
    BY <1>1, <1>3 DEF AllowsMethod
  <2>2. "save" \in Pc /\ store[req[r].sid] \in Session \cup {None}
    BY <1>3, LoadedCopy DEF Pc
  <2>3. CoroutineSound(r)'
    BY <1>0, <1>1, <1>3, <2>1, <2>2, LoadedCopy, GotoFacts DEF CoroutineSound
  <2>4. QED
    BY <1>0, <1>1, <1>3, <2>2, <2>3, LoadedCopy, GotoFacts, LocalStep DEF TypeOK
<1>4. QED
  BY <1>2, <1>3 DEF AssertMethodAllowed

LEMMA NotifyInv ==
  ASSUME SessionInv, NEW r \in Request, Notify(r) PROVE SessionInv'
<1>0. TypeOK /\ req[r] \in Coroutine /\ CoroutineSound(r)
  BY DEF SessionInv, TypeOK, CoroutinesSound
<1>1. /\ req[r].pc = "next" /\ req[r].todo # <<>>
      /\ UNCHANGED <<store, ttl, owner, shaken, given, ended, quiet>>
  BY DEF Notify, At
<1>2. CASE Silent(r)
  BY <1>1, <1>2, AnswerInv
<1>3. CASE At(r, "initialized") /\ Owned(r) /\ Goto(r, "save", store[req[r].sid])
  <2>1. "save" \in Pc /\ store[req[r].sid] \in Session \cup {None}
    BY <1>3, LoadedCopy DEF Pc
  <2>2. CoroutineSound(r)'
    BY <1>0, <1>1, <1>3, <2>1, LoadedCopy, GotoFacts DEF CoroutineSound, At
  <2>3. QED
    BY <1>0, <1>1, <1>3, <2>1, <2>2, LoadedCopy, GotoFacts, LocalStep DEF TypeOK
<1>4. QED
  BY <1>2, <1>3 DEF Notify

LEMMA HandleInv ==
  ASSUME SessionInv, NEW r \in Request, Handle(r) PROVE SessionInv'
<1>0. TypeOK /\ req[r] \in Coroutine /\ CoroutineSound(r)
  BY DEF SessionInv, TypeOK, CoroutinesSound
<1>1. /\ req[r].pc = "handle" /\ req[r].todo # <<>> /\ req[r].sid \in SessionId
      /\ owner[req[r].sid] = req[r].tenant /\ req[r].sid \in shaken
      /\ UNCHANGED <<store, ttl, owner, shaken, given, ended, quiet>>
  BY <1>0 DEF Handle, CoroutineSound
<1>2. CASE Plain(r) \/ Served(r) \/ Stale(r)
  BY <1>1, <1>2, AnswerInv
<1>3. CASE Owned(r) /\ Goto(r, "saveLevel", store[req[r].sid])
  <2>1. "saveLevel" \in Pc /\ store[req[r].sid] \in Session \cup {None}
    BY <1>3, LoadedCopy DEF Pc
  <2>2. CoroutineSound(r)'
    BY <1>0, <1>1, <1>3, <2>1, LoadedCopy, GotoFacts DEF CoroutineSound
  <2>3. QED
    BY <1>0, <1>1, <1>3, <2>1, <2>2, LoadedCopy, GotoFacts, LocalStep DEF TypeOK
<1>4. QED
  BY <1>2, <1>3 DEF Handle

\* A session minted, whichever session the item is answered in.
LEMMA MintInv ==
  ASSUME SessionInv, NEW r \in Request, NEW s \in SessionId,
         NEW sid \in SessionId \cup {None}, Mint(r, s),
         Return(r, sid, req[r].status, TRUE, req[r].served)
  PROVE  SessionInv'
<1> DEFINE session == [tenant |-> req[r].tenant, state |-> "initializing",
                       log_level |-> DefaultLevel]
<1>0. TypeOK /\ req[r] \in Coroutine /\ CoroutineSound(r)
  BY DEF SessionInv, TypeOK, CoroutinesSound
<1>1. /\ req[r].pc = "next" /\ req[r].todo # <<>> /\ owner[s] = None
      /\ UNCHANGED <<shaken, given, ended, quiet>>
      /\ owner' = [owner EXCEPT ![s] = req[r].tenant]
  BY DEF Mint, At
<1>2. req[r].tenant \in Tenant /\ req[r].tenant # None
  BY <1>0, <1>1, NoneAssumption DEF CoroutineSound
<1>3. session \in Session /\ Save(s, session)
  BY <1>2, LevelAssumption DEF Mint, Session, SessionState
<1>4. s \notin quiet /\ s \notin shaken
  BY <1>1 DEF SessionInv, HistorySound
<1>5. /\ req[r].status \in Status /\ TRUE \in BOOLEAN /\ req[r].served \in SUBSET SessionId
      /\ sid \in SessionId \cup {None}
      /\ Return(r, sid, req[r].status, TRUE, req[r].served)
  BY <1>0 DEF Coroutine
<1>6. /\ req' \in [Request -> Coroutine] /\ (\A q \in Request \ {r} : req'[q] = req[q])
      /\ req'[r].pc = "next" /\ req'[r].snap = None /\ req'[r].served = req[r].served
      /\ req'[r].tenant = req[r].tenant
  <2>1. TypeOK /\ req[r].todo # <<>>
    BY <1>0, <1>1
  <2>2. PICK status \in Status, answers \in BOOLEAN, served \in SUBSET SessionId :
          served = req[r].served /\ Return(r, sid, status, answers, served)
    BY <1>5, Zenon
  <2>3. QED
    BY <2>1, <2>2, <1>5, ReturnFacts
<1>7. /\ owner' \in [SessionId -> Tenant \cup {None}] /\ owner'[s] = req[r].tenant
      /\ \A u \in SessionId : u # s \/ owner[u] # None => owner'[u] = owner[u]
  BY <1>0, <1>1, <1>2 DEF TypeOK
<1>8. CoroutineSound(r)'
  <2>1. \A u \in req[r].served : owner'[u] = req[r].tenant /\ owner'[u] # None
    BY <1>0, <1>5, <1>7 DEF CoroutineSound
  <2>2. QED
    BY <1>2, <1>6, <2>1, ReturnedIsSound
<1>9. session.tenant = owner'[s] /\ (session.state = "ready" <=> s \in shaken')
  BY <1>1, <1>4, <1>7
<1> HIDE DEF session
<1>10. shaken \subseteq shaken' /\ shaken' \subseteq shaken \cup {s} /\ owner'[s] # None
       /\ UNCHANGED <<given, ended, quiet>>
  BY <1>1, <1>2, <1>7
<1>11. QED
  BY <1>3, <1>4, <1>6, <1>7, <1>8, <1>9, <1>10, SaveStep

LEMMA InitializeInv ==
  ASSUME SessionInv, NEW r \in Request, NEW s \in SessionId, Initialize(r, s)
  PROVE  SessionInv'
  BY MintInv DEF Initialize

\* The three saves of a loaded copy.
LEMMA CopySaved ==
  ASSUME SessionInv, NEW r \in Request, req[r].pc \in {"save", "saveLevel"},
         NEW session \in Session, session.tenant = req[r].snap.tenant,
         session.state = "ready", Save(req[r].sid, session),
         UNCHANGED <<owner, given, ended, quiet>>, shaken' = shaken \cup {req[r].sid},
         req' \in [Request -> Coroutine],
         \A q \in Request \ {r} : req'[q] = req[q],
         CoroutineSound(r)', req'[r].snap = None
  PROVE  SessionInv'
<1>0. TypeOK /\ req[r] \in Coroutine /\ CoroutineSound(r)
  BY DEF SessionInv, TypeOK, CoroutinesSound
<1>1. /\ req[r].sid \in SessionId /\ owner[req[r].sid] = req[r].tenant
      /\ req[r].snap # None /\ req[r].snap.tenant = req[r].tenant
      /\ req[r].tenant \in Tenant /\ req[r].tenant # None
  BY <1>0, NoneAssumption DEF CoroutineSound
<1>2. req[r].sid \notin quiet
  BY <1>1 DEF SessionInv, HistorySound, HoldsCopy
<1>3. /\ session.tenant = owner'[req[r].sid] /\ owner'[req[r].sid] # None
      /\ session.state = "ready" <=> req[r].sid \in shaken'
  BY <1>1
<1>4. owner' \in [SessionId -> Tenant \cup {None}]
  BY <1>0 DEF TypeOK
<1>5. QED
  BY <1>1, <1>2, <1>3, <1>4, SaveStep

LEMMA SaveReadyInv ==
  ASSUME SessionInv, NEW r \in Request, SaveReady(r) PROVE SessionInv'
<1> DEFINE session == MarkReady(req[r].snap)
<1>0. TypeOK /\ req[r] \in Coroutine /\ CoroutineSound(r)
  BY DEF SessionInv, TypeOK, CoroutinesSound
<1>1. /\ req[r].pc = "save" /\ req[r].todo # <<>> /\ req[r].snap \in Session
      /\ req[r].tenant \in Tenant
      /\ UNCHANGED <<owner, given, ended, quiet>> /\ shaken' = shaken \cup {req[r].sid}
  BY <1>0 DEF SaveReady, CoroutineSound, Coroutine
<1>2. /\ session \in Session /\ session.tenant = req[r].snap.tenant
      /\ session.state = "ready" /\ Save(req[r].sid, session)
  BY <1>1 DEF SaveReady, MarkReady, Session, SessionState
<1>3. /\ req' \in [Request -> Coroutine] /\ (\A q \in Request \ {r} : req'[q] = req[q])
      /\ req'[r].pc = "next" /\ req'[r].snap = None /\ req'[r].served = req[r].served
      /\ req'[r].tenant = req[r].tenant
  <2>1. /\ req[r].sid \in SessionId \cup {None} /\ req[r].status \in Status
        /\ req[r].answers \in BOOLEAN /\ req[r].served \in SUBSET SessionId
    BY <1>0 DEF Coroutine
  <2>2. Return(r, req[r].sid, req[r].status, req[r].answers, req[r].served)
    BY DEF SaveReady, Silent
  <2>3. QED
    BY <1>0, <1>1, <2>1, <2>2, ReturnFacts
<1>4. CoroutineSound(r)'
  BY <1>0, <1>1, <1>3, ReturnedIsSound DEF CoroutineSound
<1> HIDE DEF session
<1>5. QED
  BY <1>1, <1>2, <1>3, <1>4, CopySaved

LEMMA TouchInv ==
  ASSUME SessionInv, NEW r \in Request, Touch(r) PROVE SessionInv'
<1>0. TypeOK /\ req[r] \in Coroutine /\ CoroutineSound(r)
  BY DEF SessionInv, TypeOK, CoroutinesSound
<1>1. /\ req[r].pc = "save" /\ Head(req[r].todo) # "initialized"
      /\ req[r].snap \in Session /\ req[r].snap.state = "ready" /\ req[r].sid \in shaken
      /\ Save(req[r].sid, req[r].snap) /\ Goto(r, "handle", None)
      /\ UNCHANGED <<owner, shaken, given, ended, quiet>>
  BY <1>0 DEF Touch, CoroutineSound, Coroutine
<1>2. /\ req' \in [Request -> Coroutine] /\ (\A q \in Request \ {r} : req'[q] = req[q])
      /\ req'[r].pc = "handle" /\ req'[r].snap = None /\ req'[r].served = req[r].served
      /\ req'[r].tenant = req[r].tenant /\ req'[r].sid = req[r].sid
      /\ req'[r].todo = req[r].todo
  <2>1. "handle" \in Pc /\ None \in Session \cup {None}
    BY DEF Pc
  <2>2. QED
    BY <1>0, <1>1, <2>1, GotoFacts
<1>3. CoroutineSound(r)'
  BY <1>0, <1>1, <1>2 DEF CoroutineSound
<1>4. shaken' = shaken \cup {req[r].sid}
  BY <1>1
<1>5. QED
  BY <1>1, <1>2, <1>3, <1>4, CopySaved

LEMMA SetLogLevelInv ==
  ASSUME SessionInv, NEW r \in Request, NEW level \in LogLevel, SetLogLevel(r, level)
  PROVE  SessionInv'
<1> DEFINE session == [req[r].snap EXCEPT !.log_level = level]
<1>0. TypeOK /\ req[r] \in Coroutine /\ CoroutineSound(r)
  BY DEF SessionInv, TypeOK, CoroutinesSound
<1>1. /\ req[r].pc = "saveLevel" /\ req[r].todo # <<>> /\ req[r].sid \in SessionId
      /\ req[r].snap \in Session /\ req[r].snap.state = "ready" /\ req[r].sid \in shaken
      /\ req[r].tenant \in Tenant /\ req[r].tenant # None
      /\ owner[req[r].sid] = req[r].tenant
      /\ UNCHANGED <<owner, shaken, given, ended, quiet>>
  BY <1>0, NoneAssumption DEF SetLogLevel, CoroutineSound, Coroutine
<1>2. /\ session \in Session /\ session.tenant = req[r].snap.tenant
      /\ session.state = "ready" /\ Save(req[r].sid, session)
  BY <1>1 DEF SetLogLevel, Session
<1> DEFINE served == req[r].served \cup {req[r].sid}
<1>3. served \in SUBSET SessionId /\ req[r].sid \in SessionId \cup {None}
      /\ req[r].status \in Status /\ TRUE \in BOOLEAN
      /\ Return(r, req[r].sid, req[r].status, TRUE, served)
  BY <1>0, <1>1 DEF Coroutine, SetLogLevel, Served
<1>4. \A s \in served : owner[s] = req[r].tenant /\ owner[s] # None
  BY <1>0, <1>1 DEF CoroutineSound
<1> HIDE DEF served, session
<1>5. /\ req' \in [Request -> Coroutine] /\ (\A q \in Request \ {r} : req'[q] = req[q])
      /\ req'[r].pc = "next" /\ req'[r].snap = None /\ req'[r].served = served
      /\ req'[r].tenant = req[r].tenant
  BY <1>0, <1>1, <1>3, ReturnFacts
<1>6. CoroutineSound(r)'
  BY <1>1, <1>4, <1>5, ReturnedIsSound
<1>7. shaken' = shaken \cup {req[r].sid}
  BY <1>1
<1>8. QED
  BY <1>1, <1>2, <1>5, <1>6, <1>7, CopySaved

\* A save whose reply was lost: the record is written, the item fails.
LEMMA LostSaveInv ==
  ASSUME SessionInv, NEW r \in Request, req[r].pc \in {"save", "saveLevel"},
         req[r].todo # <<>>, req[r].sid \in shaken,
         NEW session \in Session, session.tenant = req[r].snap.tenant,
         session.state = "ready", Save(req[r].sid, session), Plain(r),
         UNCHANGED <<owner, shaken, given, ended, quiet>>
  PROVE  SessionInv'
<1>0. TypeOK /\ req[r] \in Coroutine /\ CoroutineSound(r)
  BY DEF SessionInv, TypeOK, CoroutinesSound
<1>1. /\ req[r].sid \in SessionId \cup {None} /\ req[r].status \in Status
      /\ TRUE \in BOOLEAN /\ req[r].served \in SUBSET SessionId
      /\ Return(r, req[r].sid, req[r].status, TRUE, req[r].served)
  BY <1>0 DEF Coroutine, Plain
<1>2. /\ req' \in [Request -> Coroutine] /\ (\A q \in Request \ {r} : req'[q] = req[q])
      /\ req'[r].pc = "next" /\ req'[r].snap = None /\ req'[r].served = req[r].served
      /\ req'[r].tenant = req[r].tenant
  <2>1. PICK sid \in SessionId \cup {None}, status \in Status, answers \in BOOLEAN,
             served \in SUBSET SessionId :
          served = req[r].served /\ Return(r, sid, status, answers, served)
    BY <1>1, Zenon
  <2>2. TypeOK /\ req[r].todo # <<>>
    BY <1>0
  <2>3. QED
    BY <2>1, <2>2, ReturnFacts
<1>3. CoroutineSound(r)'
  BY <1>0, <1>2, ReturnedIsSound DEF CoroutineSound
<1>4. shaken' = shaken \cup {req[r].sid}
  OBVIOUS
<1>5. QED
  BY <1>2, <1>3, <1>4, CopySaved

LEMMA LostReplyInv ==
  ASSUME SessionInv, NEW r \in Request, LostReply(r) PROVE SessionInv'
<1>0. TypeOK /\ req[r] \in Coroutine /\ CoroutineSound(r)
  BY DEF SessionInv, TypeOK, CoroutinesSound
<1>1. ASSUME NEW s \in SessionId, Mint(r, s), Plain(r) PROVE SessionInv'
  <2>1. req[r].sid \in SessionId \cup {None}
    BY <1>0 DEF Coroutine
  <2>2. QED
    BY <1>1, <2>1, MintInv DEF Plain
<1>2. CASE /\ req[r].pc = "save" /\ Head(req[r].todo) # "initialized"
           /\ Save(req[r].sid, req[r].snap) /\ Plain(r)
           /\ UNCHANGED <<owner, shaken, given, ended, quiet>>
  <2>1. /\ req[r].todo # <<>> /\ req[r].sid \in shaken
        /\ req[r].snap \in Session /\ req[r].snap.state = "ready"
    BY <1>0, <1>2 DEF CoroutineSound, Coroutine
  <2>2. QED
    BY <1>2, <2>1, LostSaveInv
<1>3. ASSUME NEW level \in LogLevel, req[r].pc = "saveLevel",
             Save(req[r].sid, [req[r].snap EXCEPT !.log_level = level]), Plain(r),
             UNCHANGED <<owner, shaken, given, ended, quiet>>
      PROVE  SessionInv'
  <2> DEFINE session == [req[r].snap EXCEPT !.log_level = level]
  <2>1. /\ req[r].todo # <<>> /\ req[r].sid \in shaken
        /\ req[r].snap \in Session /\ req[r].snap.state = "ready"
    BY <1>0, <1>3 DEF CoroutineSound, Coroutine
  <2>2. /\ session \in Session /\ session.tenant = req[r].snap.tenant
        /\ session.state = "ready" /\ Save(req[r].sid, session)
    BY <1>3, <2>1 DEF Session
  <2> HIDE DEF session
  <2>3. QED
    BY <1>3, <2>1, <2>2, LostSaveInv
<1>4. QED
  BY <1>1, <1>2, <1>3 DEF LostReply

\* A request that ends, for whatever reason, without touching Redis.
LEMMA EndInv ==
  ASSUME SessionInv, NEW r \in Request, req' = [req EXCEPT ![r] = Idle],
         given' \subseteq SessionId,
         UNCHANGED <<store, ttl, owner, shaken, ended, quiet>>
  PROVE  SessionInv'
<1>1. /\ req' \in [Request -> Coroutine] /\ (\A q \in Request \ {r} : req'[q] = req[q])
      /\ req'[r] = Idle
  BY IdleFacts DEF SessionInv
<1>2. CoroutineSound(r)' /\ req'[r].snap = None
  BY <1>1, IdleIsSound DEF Idle
<1>3. QED
  BY <1>1, <1>2, LocalStep

LEMMA CloseInv ==
  ASSUME SessionInv, NEW r \in Request, Close(r) PROVE SessionInv'
<1>0. TypeOK /\ req[r] \in Coroutine /\ CoroutineSound(r)
  BY DEF SessionInv, TypeOK, CoroutinesSound
<1>1. /\ req[r].pc = "close" /\ UNCHANGED <<store, ttl, owner, shaken, given, ended, quiet>>
      /\ given' \subseteq SessionId
  BY <1>0 DEF Close, TypeOK
<1>2. CASE req' = [req EXCEPT ![r] = Idle]
  BY <1>1, <1>2, EndInv
<1>3. CASE Owned(r) /\ Goto(r, "delete", None)
  <2>1. /\ req' \in [Request -> Coroutine] /\ (\A q \in Request \ {r} : req'[q] = req[q])
        /\ req'[r].pc = "delete" /\ req'[r].snap = None /\ req'[r].served = req[r].served
        /\ req'[r].tenant = req[r].tenant /\ req'[r].sid = req[r].sid
    <3>1. "delete" \in Pc /\ None \in Session \cup {None}
      BY DEF Pc
    <3>2. QED
      BY <1>0, <1>3, <3>1, GotoFacts
  <2>2. req[r].sid \in SessionId
    BY <1>3, LoadedCopy
  <2>3. CoroutineSound(r)'
    BY <1>0, <1>1, <2>1, <2>2 DEF CoroutineSound
  <2>4. QED
    BY <1>1, <2>1, <2>3, LocalStep
<1>4. QED
  BY <1>2, <1>3 DEF Close

LEMMA DeleteRecordInv ==
  ASSUME SessionInv, NEW r \in Request, DeleteRecord(r) PROVE SessionInv'
<1> DEFINE s == req[r].sid
<1>0. TypeOK /\ req[r] \in Coroutine /\ CoroutineSound(r)
  BY DEF SessionInv, TypeOK, CoroutinesSound
<1>1. s \in SessionId
  BY <1>0 DEF DeleteRecord, CoroutineSound
<1>2. /\ req' \in [Request -> Coroutine] /\ (\A q \in Request \ {r} : req'[q] = req[q])
      /\ req'[r] = Idle
  BY <1>0, IdleFacts DEF DeleteRecord
<1>3. TypeOK'
  <2>1. /\ store' = [store EXCEPT ![s] = None] /\ ttl' = [ttl EXCEPT ![s] = 0]
        /\ UNCHANGED <<owner, shaken, given>>
        /\ ended \subseteq ended' /\ ended' \subseteq ended \cup {s}
        /\ quiet' \subseteq quiet \cup {s} /\ (quiet' # quiet => s \in ended')
    BY DEF DeleteRecord
  <2>2. quiet' \subseteq ended'
    BY <1>0, <2>1 DEF TypeOK
  <2>3. QED
    BY <1>0, <1>1, <1>2, <2>1, <2>2, TtlAssumption DEF TypeOK
<1>4. StoreSound'
  BY <1>0, <1>1 DEF DeleteRecord, SessionInv, StoreSound, Sound, TypeOK
<1>5. CoroutinesSound'
  <2> SUFFICES ASSUME NEW q \in Request PROVE CoroutineSound(q)'
    BY DEF CoroutinesSound
  <2>1. CASE q = r
    BY <1>2, <2>1, IdleIsSound
  <2>2. CASE q # r
    BY <1>2, <2>2, OthersStaySound DEF DeleteRecord
  <2>3. QED
    BY <2>1, <2>2
<1>6. HistorySound'
  <2>1. \A u \in shaken' : owner'[u] # None
    BY DEF DeleteRecord, SessionInv, HistorySound
  <2>2. ASSUME NEW q \in Request, NEW u \in SessionId, HoldsCopy(q, u)' PROVE HoldsCopy(q, u)
    BY <1>2, <2>2 DEF HoldsCopy, Idle
  <2>3. ASSUME NEW u \in quiet'
        PROVE  store'[u] = None /\ owner'[u] # None /\ \A q \in Request : ~HoldsCopy(q, u)'
    <3>1. u \in SessionId
      BY <1>3, <2>3 DEF TypeOK
    <3>2. CASE u \in quiet
      BY <1>0, <1>1, <2>2, <3>1, <3>2 DEF DeleteRecord, SessionInv, HistorySound, TypeOK
    <3>3. CASE u \notin quiet
      <4>1. u = s /\ store[s] # None /\ ~\E q \in Request : HoldsCopy(q, s)
        BY <2>3, <3>3 DEF DeleteRecord
      <4>2. store'[u] = None
        BY <1>0, <1>1, <4>1 DEF DeleteRecord, TypeOK
      <4>3. owner'[u] # None
        BY <1>1, <4>1 DEF DeleteRecord, SessionInv, StoreSound
      <4>4. QED
        BY <2>2, <3>1, <4>1, <4>2, <4>3
    <3>4. QED
      BY <3>2, <3>3
  <2>4. QED
    BY <2>1, <2>3 DEF HistorySound
<1>7. QED
  BY <1>3, <1>4, <1>5, <1>6 DEF SessionInv

LEMMA TickInv ==
  ASSUME SessionInv, Tick PROVE SessionInv'
<1>0. TypeOK
  BY DEF SessionInv
<1>1. TypeOK'
  BY <1>0, TtlAssumption DEF Tick, TypeOK
<1>2. StoreSound'
  BY DEF Tick, SessionInv, StoreSound, Sound
<1>3. CoroutinesSound'
  <2> SUFFICES ASSUME NEW q \in Request PROVE CoroutineSound(q)'
    BY DEF CoroutinesSound
  <2>1. QED
    BY OthersStaySound DEF Tick
<1>4. HistorySound'
  BY <1>0 DEF Tick, SessionInv, HistorySound, HoldsCopy, TypeOK
<1>5. QED
  BY <1>1, <1>2, <1>3, <1>4 DEF SessionInv

-----------------------------------------------------------------------------
(* The invariant, and what follows from it *)

LEMMA InitInv == Init => SessionInv
<1> SUFFICES ASSUME Init PROVE SessionInv
  OBVIOUS
<1>1. <<>> \in Seq(Method)
  OBVIOUS
<1>2. TypeOK
  BY <1>1, TtlAssumption DEF Init, TypeOK, Coroutine, Idle, Pc, Status
<1>3. StoreSound /\ HistorySound
  BY DEF Init, StoreSound, HistorySound
<1>4. CoroutinesSound
  BY DEF Init, CoroutinesSound, CoroutineSound, Idle
<1>5. QED
  BY <1>2, <1>3, <1>4 DEF SessionInv

LEMMA WorkInv ==
  ASSUME SessionInv, NEW r \in Request, Work(r) PROVE SessionInv'
<1>0. TypeOK /\ req[r] \in Coroutine /\ CoroutineSound(r)
  BY DEF SessionInv, TypeOK, CoroutinesSound
<1>1. CASE \E s \in SessionId : Initialize(r, s)
  BY <1>1, InitializeInv
<1>2. CASE Reject(r)
  BY <1>2, AnswerInv DEF Reject, At
<1>3. CASE Ping(r)
  <2>1. CASE Owned(r) /\ Served(r)
    BY <1>3, <2>1, LoadedCopy, AnswerInv DEF Ping, At
  <2>2. CASE Plain(r) \/ Stale(r)
    BY <1>3, <2>2, AnswerInv DEF Ping, At
  <2>3. QED
    BY <1>3, <2>1, <2>2 DEF Ping
<1>4. CASE AssertMethodAllowed(r)
  BY <1>4, AdmitInv
<1>5. CASE Notify(r)
  BY <1>5, NotifyInv
<1>6. CASE SaveReady(r)
  BY <1>6, SaveReadyInv
<1>7. CASE Touch(r)
  BY <1>7, TouchInv
<1>8. CASE Handle(r)
  BY <1>8, HandleInv
<1>9. CASE \E level \in LogLevel : SetLogLevel(r, level)
  BY <1>9, SetLogLevelInv
<1>10. CASE Close(r)
  BY <1>10, CloseInv
<1>11. CASE DeleteRecord(r)
  BY <1>11, DeleteRecordInv
<1>12. CASE Reply(r)
  <2>1. given' \subseteq SessionId
    BY <1>0, <1>12 DEF Reply, TypeOK, Coroutine
  <2>2. QED
    BY <1>12, <2>1, EndInv DEF Reply
<1>13. QED
  BY <1>1, <1>2, <1>3, <1>4, <1>5, <1>6, <1>7, <1>8, <1>9, <1>10, <1>11, <1>12 DEF Work

LEMMA NextInv == SessionInv /\ [Next]_vars => SessionInv'
<1> SUFFICES ASSUME SessionInv, [Next]_vars PROVE SessionInv'
  OBVIOUS
<1>1. ASSUME NEW r \in Request, Arrive(r) PROVE SessionInv'
  BY <1>1, ArriveInv
<1>2. ASSUME NEW r \in Request, Work(r) PROVE SessionInv'
  BY <1>2, WorkInv
<1>3. ASSUME NEW r \in Request, StoreError(r) \/ Crash(r) PROVE SessionInv'
  <2>0. given \subseteq SessionId
    BY DEF SessionInv, TypeOK
  <2>1. CASE req' = [req EXCEPT ![r] = Idle]
    BY <1>3, <2>0, <2>1, EndInv DEF StoreError, Crash
  <2>2. CASE /\ req[r].pc \in {"next", "save", "handle", "saveLevel"}
             /\ req[r].todo # <<>> /\ (Silent(r) \/ Plain(r))
    BY <1>3, <2>2, AnswerInv DEF StoreError, Crash
  <2>3. QED
    BY <1>3, <2>1, <2>2 DEF StoreError, Crash
<1>4. CASE Tick
  BY <1>4, TickInv
<1>5. ASSUME NEW r \in Request, LostReply(r) PROVE SessionInv'
  BY <1>5, LostReplyInv
<1>6. CASE UNCHANGED vars
  BY <1>6 DEF vars, SessionInv, TypeOK, StoreSound, Sound, CoroutinesSound, CoroutineSound,
              HistorySound, HoldsCopy
<1>7. QED
  BY <1>1, <1>2, <1>3, <1>4, <1>5, <1>6 DEF Next

\* The store and every copy in flight always agree with the histories.
THEOREM SessionInvariant == Spec => []SessionInv
  BY InitInv, NextInv, PTL DEF Spec

\* Every variable keeps its type.
THEOREM SessionTypeCorrect == Spec => []TypeOK
<1>1. SessionInv => TypeOK
  BY DEF SessionInv
<1>2. QED
  BY <1>1, SessionInvariant, PTL

\* No handler runs for a session whose handshake was not saved.
THEOREM HandshakeFirst == Spec => []HandshakeBeforeWork
<1>1. SessionInv => HandshakeBeforeWork
  BY DEF SessionInv, CoroutinesSound, CoroutineSound, HandshakeBeforeWork
<1>2. QED
  BY <1>1, SessionInvariant, PTL

\* No tenant is served in another's session, and records keep their owner.
THEOREM TenantsIsolated == Spec => []TenantIsolation
<1>1. SessionInv => TenantIsolation
  BY DEF SessionInv, CoroutinesSound, CoroutineSound, StoreSound, Sound, TenantIsolation
<1>2. QED
  BY <1>1, SessionInvariant, PTL

\* A close nobody raced is final.
THEOREM QuietCloseFinal == Spec => []QuietCloseIsFinal
<1>1. SessionInv => QuietCloseIsFinal
  BY DEF SessionInv, HistorySound, QuietCloseIsFinal
<1>2. QED
  BY <1>1, SessionInvariant, PTL

\* READY is never undone by a late save.
THEOREM ReadyIsForGood == Spec => ReadyNeverRegresses
<1>1. SessionInv /\ SessionInv' /\ [Next]_vars =>
        [\A s \in SessionId :
           (store[s] # None /\ store[s].state = "ready" /\ store'[s] # None)
             => store'[s].state = "ready"]_vars
  <2> SUFFICES ASSUME SessionInv, SessionInv', [Next]_vars, NEW s \in SessionId,
                      store[s] # None, store[s].state = "ready", store'[s] # None
               PROVE  store'[s].state = "ready"
    OBVIOUS
  <2>1. s \in shaken
    BY DEF SessionInv, StoreSound, Sound
  <2>2. shaken \subseteq shaken'
    BY DEF Next, Arrive, Work, Tick, Crash, StoreError, LostReply, Reply, DeleteRecord, Close,
           SetLogLevel, Handle, Touch, SaveReady, Notify, AssertMethodAllowed, Ping, Reject,
           Initialize, Mint, Delete, Post, vars
  <2>3. QED
    BY <2>1, <2>2 DEF SessionInv, StoreSound, Sound
<1>2. QED
  BY <1>1, SessionInvariant, PTL DEF Spec, ReadyNeverRegresses

-----------------------------------------------------------------------------
(* Served serially, a session lives one life *)

\* What serial clients add: a coroutine has its session to itself, and the copy
\* it holds is the record, unless that has expired.
SerialInv ==
  /\ \A r \in Request : req[r].pc = "idle" => req[r].sid = None
  /\ \A r \in Request : req[r].sid # None => owner[req[r].sid] # None
  /\ \A s \in given : owner[s] # None
  /\ \A q, r \in Request : q # r /\ req[q].sid # None => req[q].sid # req[r].sid
  /\ \A r \in Request : req[r].snap # None => store[req[r].sid] \in {None, req[r].snap}

\* Record, as a function of the store and the coroutines.
RecordIn(st, rq, s) ==
  IF st[s] = None /\ \E r \in Request : rq[r].snap # None /\ rq[r].sid = s
  THEN rq[CHOOSE r \in Request : rq[r].snap # None /\ rq[r].sid = s].snap ELSE st[s]

LEMMA RecordHeld ==
  ASSUME NEW st, NEW rq, NEW r \in Request, NEW s, rq[r].snap # None, rq[r].sid = s,
         \A q \in Request : q # r => rq[q].sid # s,
         st[s] = None \/ st[s] = rq[r].snap
  PROVE  RecordIn(st, rq, s) = rq[r].snap
<1>1. (CHOOSE q \in Request : rq[q].snap # None /\ rq[q].sid = s) = r
  <2>1. \E q \in Request : rq[q].snap # None /\ rq[q].sid = s
    OBVIOUS
  <2>2. QED
    BY <2>1
<1>2. QED
  BY <1>1 DEF RecordIn

LEMMA RecordFree ==
  ASSUME NEW st, NEW rq, NEW s, \A q \in Request : ~(rq[q].snap # None /\ rq[q].sid = s)
  PROVE  RecordIn(st, rq, s) = st[s]
  BY DEF RecordIn

LEMMA RecordMapped ==
  ASSUME NEW s
  PROVE  /\ Record(s) = RecordIn(store, req, s)
         /\ Record(s)' = RecordIn(store', req', s)
  BY DEF Record, RecordIn, Holder, HoldsCopy

\* A session that has a record has been minted.
LEMMA RecordTyped ==
  ASSUME SessionInv, SerialInv, NEW s \in SessionId, RecordIn(store, req, s) # None
  PROVE  RecordIn(store, req, s) \in Session /\ owner[s] # None
<1>1. store[s] \in Session \cup {None} /\ (store[s] # None => owner[s] # None)
  BY DEF SessionInv, TypeOK, StoreSound
<1>2. CASE \E r \in Request : req[r].snap # None /\ req[r].sid = s
  <2>1. PICK r \in Request : req[r].snap # None /\ req[r].sid = s
    BY <1>2
  <2>2. s # None /\ req[r].snap \in Session /\ owner[s] # None
    BY <2>1, NoneAssumption DEF SessionInv, TypeOK, Coroutine, SerialInv
  <2>3. \A q \in Request : q # r => req[q].sid # s
    BY <2>1, <2>2 DEF SerialInv
  <2>4. store[s] = None \/ store[s] = req[r].snap
    BY <2>1 DEF SerialInv
  <2>5. RecordIn(store, req, s) = req[r].snap
    BY <2>1, <2>3, <2>4, RecordHeld
  <2>6. QED
    BY <2>2, <2>5
<1>3. CASE \A r \in Request : ~(req[r].snap # None /\ req[r].sid = s)
  <2>1. RecordIn(store, req, s) = store[s]
    BY <1>3, RecordFree
  <2>2. QED
    BY <1>1, <2>1
<1>4. QED
  BY <1>2, <1>3

\* A step after which every record is as it was or gone ends some lives.
LEMMA EndsLives ==
  ASSUME SessionInv, SerialInv, \A s \in SessionId : owner'[s] = owner[s],
         \A s \in SessionId : RecordIn(store', req', s) \in {None, RecordIn(store, req, s)}
  PROVE  Abstract!Next
<1> DEFINE ids == {s \in SessionId : RecordIn(store, req, s) # None /\ RecordIn(store', req', s) = None}
<1>1. \A s \in SessionId : Record(s)' = RecordIn(store', req', s) /\ Record(s) = RecordIn(store, req, s)
  BY RecordMapped
<1>2. \A s \in SessionId : Record(s) # None => Record(s) \in Session /\ owner[s] # None
  BY <1>1, RecordTyped
<1>3. \A s \in SessionId : Record(s)' \in {None, Record(s)}
  BY <1>1
<1>4. ids = {s \in SessionId : Record(s) # None /\ Record(s)' = None}
  BY <1>1
<1> HIDE DEF ids
<1>5. \A s \in ids : LifeOf(s) \in {"initializing", "ready"}
  BY <1>2, <1>4 DEF LifeOf, Session, SessionState
<1>6. \A s \in SessionId : LifeOf(s)' = IF s \in ids THEN "closed" ELSE LifeOf(s)
  BY <1>2, <1>3, <1>4 DEF LifeOf
<1>7. \A s \in SessionId : LevelOf(s)' = IF s \in ids THEN None ELSE LevelOf(s)
  BY <1>2, <1>3, <1>4 DEF LevelOf
<1>8. ids \in SUBSET SessionId
  BY <1>4
<1>9. Abstract!End(ids)
  BY <1>5, <1>6, <1>7, <1>8 DEF Abstract!End, Abstract!Live
<1>10. QED
  BY <1>8, <1>9 DEF Abstract!Next

\* A record keeps to itself in a step of a coroutine that holds no copy of it.
LEMMA RecordKept ==
  ASSUME SerialInv, SerialInv', NEW r \in Request, NEW s \in SessionId,
         \A q \in Request \ {r} : req'[q] = req[q],
         store'[s] = store[s],
         ~(req[r].snap # None /\ req[r].sid = s), ~(req'[r].snap # None /\ req'[r].sid = s)
  PROVE  RecordIn(store', req', s) = RecordIn(store, req, s)
<1>1. CASE \E q \in Request \ {r} : req[q].snap # None /\ req[q].sid = s
  <2>1. PICK q \in Request \ {r} : req[q].snap # None /\ req[q].sid = s
    BY <1>1
  <2>2. \A p \in Request : p # q => req[p].sid # s /\ req'[p].sid # s
    BY <2>1, NoneAssumption DEF SerialInv
  <2>3. /\ store[s] = None \/ store[s] = req[q].snap
        /\ store'[s] = None \/ store'[s] = req'[q].snap
    BY <2>1 DEF SerialInv
  <2>4. RecordIn(store, req, s) = req[q].snap
    BY <2>1, <2>2, <2>3, RecordHeld
  <2>5. RecordIn(store', req', s) = req'[q].snap
    BY <2>1, <2>2, <2>3, RecordHeld
  <2>6. QED
    BY <2>1, <2>4, <2>5
<1>2. CASE \A q \in Request \ {r} : ~(req[q].snap # None /\ req[q].sid = s)
  <2>1. RecordIn(store, req, s) = store[s]
    BY <1>2, RecordFree
  <2>2. \A q \in Request : ~(req'[q].snap # None /\ req'[q].sid = s)
    BY <1>2
  <2>3. RecordIn(store', req', s) = store'[s]
    BY <2>2, RecordFree
  <2>4. QED
    BY <2>1, <2>3
<1>3. QED
  BY <1>1, <1>2

\* The record of the session a coroutine is about to save is its copy.
LEMMA RecordOfHolder ==
  ASSUME SerialInv, NEW r \in Request, req[r].snap # None, req[r].sid # None
  PROVE  RecordIn(store, req, req[r].sid) = req[r].snap
<1>1. \A q \in Request : q # r => req[q].sid # req[r].sid
  BY DEF SerialInv
<1>2. store[req[r].sid] = None \/ store[req[r].sid] = req[r].snap
  BY DEF SerialInv
<1>3. QED
  BY <1>1, <1>2, RecordHeld

\* A step of one coroutine that writes back nothing but the copy it held, and
\* loads nothing but the record, leaves every record as it was or gone.
LEMMA LocalEnds ==
  ASSUME SessionInv, SerialInv, SessionInv', SerialInv', NEW r \in Request,
         UNCHANGED owner,
         \A q \in Request \ {r} : req'[q] = req[q],
         \A s \in SessionId \ {req[r].sid} : store'[s] = store[s],
         req[r].sid # None => store'[req[r].sid] \in {None, store[req[r].sid], req[r].snap},
         req'[r].snap # None => req'[r].sid = req[r].sid /\ req'[r].snap = store[req[r].sid]
  PROVE  Abstract!Next
<1> SUFFICES ASSUME NEW s \in SessionId
             PROVE  RecordIn(store', req', s) \in {None, RecordIn(store, req, s)}
  BY EndsLives
<1>0. s # None
  BY NoneAssumption
<1>1. CASE req[r].sid # s
  <2>1. RecordIn(store', req', s) = RecordIn(store, req, s)
    BY <1>1, RecordKept
  <2>2. QED
    BY <2>1
<1>2. CASE req[r].sid = s
  <2>0. \A q \in Request : q # r => req[q].sid # s /\ req'[q].sid # s
    BY <1>0, <1>2 DEF SerialInv
  <2>1. RecordIn(store, req, s) = IF req[r].snap # None THEN req[r].snap ELSE store[s]
    <3>1. CASE req[r].snap # None
      BY <1>0, <1>2, <3>1, RecordOfHolder
    <3>2. CASE req[r].snap = None
      BY <2>0, <3>2, RecordFree
    <3>3. QED
      BY <3>1, <3>2
  <2>2. store[s] = None \/ store[s] = RecordIn(store, req, s)
    BY <1>2, <2>1 DEF SerialInv
  <2>3. CASE req'[r].snap # None
    <3>1. req'[r].sid = s /\ req'[r].snap = store[s]
      BY <1>2, <2>3
    <3>2. store'[s] = None \/ store'[s] = req'[r].snap
      BY <2>3, <3>1 DEF SerialInv
    <3>3. RecordIn(store', req', s) = req'[r].snap
      BY <2>0, <2>3, <3>1, <3>2, RecordHeld
    <3>4. QED
      BY <2>2, <3>1, <3>3
  <2>4. CASE req'[r].snap = None
    <3>1. RecordIn(store', req', s) = store'[s]
      BY <2>0, <2>4, RecordFree
    <3>2. store'[s] \in {None, store[s], req[r].snap}
      BY <1>0, <1>2
    <3>3. QED
      BY <2>1, <2>2, <3>1, <3>2, <1>2
  <2>5. QED
    BY <2>3, <2>4
<1>3. QED
  BY <1>1, <1>2

-----------------------------------------------------------------------------
(* What a coroutine's step may touch *)

\* r moves alone: on the record of its own session only, keeping its session or
\* leaving it, and with no copy but the record it has just read.
Lone(r) ==
  /\ UNCHANGED owner
  /\ \A q \in Request \ {r} : req'[q] = req[q]
  /\ \A s \in SessionId \ {req[r].sid} : store'[s] = store[s]
  /\ req'[r].sid \in {None, req[r].sid}
  /\ req'[r].pc = "idle" => req'[r].sid = None
  /\ req'[r].snap # None =>
       /\ req'[r].sid = req[r].sid /\ req'[r].snap = store[req[r].sid]
       /\ UNCHANGED store
  /\ given' \subseteq given \cup ({req[r].sid} \ {None})

\* What it writes over the record is the copy it held.
WritesBack(r) ==
  req[r].sid # None => store'[req[r].sid] \in {None, store[req[r].sid], req[r].snap}

LEMMA LoneKeeps ==
  ASSUME SessionInv, SerialInv, NEW r \in Request, Lone(r)
  PROVE  SerialInv'
<1>1. \A q \in Request : req'[q].pc = "idle" => req'[q].sid = None
  BY DEF Lone, SerialInv
<1>2. \A q \in Request : req'[q].sid # None => owner'[req'[q].sid] # None
  BY DEF Lone, SerialInv
<1>3. \A s \in given' : owner'[s] # None
  BY DEF Lone, SerialInv
<1>4. \A p, q \in Request : p # q /\ req'[p].sid # None => req'[p].sid # req'[q].sid
  BY DEF Lone, SerialInv
<1>5. \A q \in Request : req'[q].snap # None => store'[req'[q].sid] \in {None, req'[q].snap}
  <2> SUFFICES ASSUME NEW q \in Request, req'[q].snap # None
               PROVE  store'[req'[q].sid] \in {None, req'[q].snap}
    OBVIOUS
  <2>1. CASE q = r
    BY <2>1 DEF Lone
  <2>2. CASE q # r
    <3>1. req'[q] = req[q]
      BY <2>2 DEF Lone
    <3>2. req[q].sid \in SessionId
      BY <3>1 DEF SessionInv, CoroutinesSound, CoroutineSound
    <3>3. req[q].sid # req[r].sid
      BY <2>2, <3>2, NoneAssumption DEF SerialInv
    <3>4. store'[req[q].sid] = store[req[q].sid]
      BY <3>2, <3>3 DEF Lone
    <3>5. QED
      BY <3>1, <3>4 DEF SerialInv
  <2>3. QED
    BY <2>1, <2>2
<1>6. QED
  BY <1>1, <1>2, <1>3, <1>4, <1>5 DEF SerialInv

LEMMA ReturnMoves ==
  ASSUME TypeOK, NEW r \in Request, NEW sid, NEW status, NEW answers, NEW served,
         Return(r, sid, status, answers, served)
  PROVE  /\ \A q \in Request \ {r} : req'[q] = req[q]
         /\ req'[r].pc = "next" /\ req'[r].snap = None /\ req'[r].sid = sid
<1>1. req[r] \in Coroutine /\ req \in [Request -> Coroutine]
  BY DEF TypeOK
<1> DEFINE c == [req[r] EXCEPT !.pc = "next", !.todo = Tail(req[r].todo),
                              !.snap = None, !.sid = sid, !.status = status,
                              !.answers = answers, !.served = served]
<1>2. c.pc = "next" /\ c.snap = None /\ c.sid = sid
  BY <1>1 DEF Coroutine
<1>3. req' = [req EXCEPT ![r] = c]
  BY DEF Return
<1> HIDE DEF c
<1>4. QED
  BY <1>1, <1>2, <1>3

\* An item answered, whichever way.
LEMMA AnswerMoves ==
  ASSUME TypeOK, NEW r \in Request, Plain(r) \/ Stale(r) \/ Silent(r) \/ Served(r)
  PROVE  /\ \A q \in Request \ {r} : req'[q] = req[q]
         /\ req'[r].pc = "next" /\ req'[r].snap = None /\ req'[r].sid \in {None, req[r].sid}
<1>1. CASE Plain(r)
  BY <1>1, ReturnMoves DEF Plain
<1>2. CASE Stale(r)
  <2>1. Return(r, None, 404, TRUE, req[r].served)
    BY <1>2 DEF Stale
  <2>2. /\ \A q \in Request \ {r} : req'[q] = req[q]
        /\ req'[r].pc = "next" /\ req'[r].snap = None /\ req'[r].sid = None
    BY <2>1, ReturnMoves
  <2>3. QED
    BY <2>2
<1>3. CASE Silent(r)
  BY <1>3, ReturnMoves DEF Silent
<1>4. CASE Served(r)
  BY <1>4, ReturnMoves DEF Served
<1>5. QED
  BY <1>1, <1>2, <1>3, <1>4

LEMMA AnswerIsLone ==
  ASSUME TypeOK, NEW r \in Request, Plain(r) \/ Stale(r) \/ Silent(r) \/ Served(r),
         UNCHANGED <<store, owner, given>>
  PROVE  Lone(r) /\ WritesBack(r)
  BY AnswerMoves DEF Lone, WritesBack

\* A GET that hands the coroutine the record of its session.
LEMMA LoadIsLone ==
  ASSUME TypeOK, NEW r \in Request, NEW pc \in Pc \ {"idle"}, Goto(r, pc, store[req[r].sid]), Owned(r),
         UNCHANGED <<store, owner, given>>
  PROVE  Lone(r) /\ WritesBack(r)
<1>1. store[req[r].sid] \in Session \cup {None}
  BY DEF Owned, TypeOK, Coroutine
<1>2. /\ \A q \in Request \ {r} : req'[q] = req[q]
      /\ req'[r].pc = pc /\ req'[r].snap = store[req[r].sid] /\ req'[r].sid = req[r].sid
  BY <1>1, GotoFacts
<1>3. QED
  BY <1>2 DEF Lone, WritesBack

\* A coroutine that ends, with or without the DEL of a DELETE.
LEMMA EndIsLone ==
  ASSUME TypeOK, NEW r \in Request, req' = [req EXCEPT ![r] = Idle], UNCHANGED owner,
         given' \subseteq given \cup ({req[r].sid} \ {None}),
         UNCHANGED store \/ store' = [store EXCEPT ![req[r].sid] = None]
  PROVE  Lone(r) /\ WritesBack(r)
<1>1. (\A q \in Request \ {r} : req'[q] = req[q]) /\ req'[r] = Idle
  BY IdleFacts
<1>2. Idle.pc = "idle" /\ Idle.sid = None /\ Idle.snap = None
  BY DEF Idle
<1>3. \A s \in SessionId \ {req[r].sid} : store'[s] = store[s]
  BY DEF TypeOK
<1>4. WritesBack(r)
  BY DEF WritesBack, TypeOK, Coroutine
<1>5. QED
  BY <1>1, <1>2, <1>3, <1>4 DEF Lone

\* A save of the coroutine's session, after which it holds no copy.
LEMMA SaveIsLone ==
  ASSUME TypeOK, NEW r \in Request, NEW session, Save(req[r].sid, session), UNCHANGED <<owner, given>>,
         \A q \in Request \ {r} : req'[q] = req[q],
         req'[r].pc # "idle", req'[r].snap = None, req'[r].sid \in {None, req[r].sid}
  PROVE  Lone(r)
  BY DEF Lone, Save, TypeOK

-----------------------------------------------------------------------------
(* Every action, seen from the lifecycle *)

\* Requests arrive for sessions nobody is using.
LEMMA ArriveKeeps ==
  ASSUME Serial, SessionInv, SerialInv, NEW r \in Request, Arrive(r)
  PROVE  SerialInv' /\ UNCHANGED <<store, owner>>
         /\ (\A q \in Request \ {r} : req'[q] = req[q]) /\ req'[r].snap = None
<1>0. TypeOK
  BY DEF SessionInv
<1>1. PICK t \in Tenant, s \in Carried :
        Delete(r, t, s) \/ \E post \in Posts : Post(r, t, s, post)
  BY DEF Arrive
<1>2. PICK c : /\ req' = [req EXCEPT ![r] = c]
               /\ c.pc # "idle" /\ c.sid = s /\ c.snap = None
               /\ UNCHANGED <<store, owner, given>>
  <2>1. CASE Delete(r, t, s)
    <3> DEFINE c == [Idle EXCEPT !.pc = "close", !.tenant = t, !.sid = s, !.dead = ended]
    <3>1. c.pc # "idle" /\ c.sid = s /\ c.snap = None
      BY DEF Idle
    <3>2. req' = [req EXCEPT ![r] = c] /\ UNCHANGED <<store, owner, given>>
      BY <2>1 DEF Delete
    <3> HIDE DEF c
    <3>3. QED
      BY <3>1, <3>2
  <2>2. CASE \E post \in Posts : Post(r, t, s, post)
    <3>1. PICK post \in Posts : Post(r, t, s, post)
      BY <2>2
    <3> DEFINE c == [Idle EXCEPT !.pc = "next", !.tenant = t, !.sid = s,
                                 !.todo = post.items, !.status = 200, !.dead = ended]
    <3>2. c.pc # "idle" /\ c.sid = s /\ c.snap = None
      BY DEF Idle
    <3>3. req' = [req EXCEPT ![r] = c] /\ UNCHANGED <<store, owner, given>>
      BY <3>1 DEF Post
    <3> HIDE DEF c
    <3>4. QED
      BY <3>2, <3>3
  <2>3. QED
    BY <1>1, <2>1, <2>2
<1>3. UNCHANGED <<store, owner, given>>
  BY <1>2
<1>4. (\A q \in Request \ {r} : req'[q] = req[q]) /\ req'[r] = c
  BY <1>0, <1>2 DEF TypeOK
<1>5. s # None => s \in given /\ \A q \in Request : req[q].sid # s
  BY <1>1 DEF Carried, InFlight, SerialInv
<1>6. SerialInv'
  BY <1>2, <1>3, <1>4, <1>5 DEF SerialInv
<1>7. QED
  BY <1>2, <1>3, <1>4, <1>6

\* Minting opens a session, whether or not the coroutine goes on in it.
LEMMA MintOpens ==
  ASSUME SessionInv, SerialInv, SessionInv', NEW r \in Request, NEW s \in SessionId,
         NEW sid \in {s, req[r].sid}, Mint(r, s),
         Return(r, sid, req[r].status, TRUE, req[r].served)
  PROVE  SerialInv' /\ Abstract!Next
<1> DEFINE session == [tenant |-> req[r].tenant, state |-> "initializing", log_level |-> DefaultLevel]
<1>0. TypeOK /\ s # None
  BY NoneAssumption DEF SessionInv
<1>1. /\ req[r].pc = "next" /\ owner[s] = None /\ Save(s, session)
      /\ owner' = [owner EXCEPT ![s] = req[r].tenant]
      /\ UNCHANGED given
  BY DEF Mint, At
<1>2. /\ \A q \in Request \ {r} : req'[q] = req[q]
      /\ req'[r].pc = "next" /\ req'[r].snap = None /\ req'[r].sid = sid
  BY <1>0, <1>1, ReturnMoves
<1>3. req[r].tenant # None /\ req[r].snap = None
  BY <1>1, NoneAssumption DEF SessionInv, CoroutinesSound, CoroutineSound
<1>4. /\ store'[s] = session /\ \A u \in SessionId \ {s} : store'[u] = store[u]
      /\ owner'[s] # None /\ \A u \in SessionId \ {s} : owner'[u] = owner[u]
  BY <1>0, <1>1, <1>3 DEF Save, TypeOK
<1> HIDE DEF session
<1>5. \A q \in Request : req[q].sid # s
  BY <1>0, <1>1 DEF SerialInv
<1>6. \A q \in Request : req[q].sid # None => req[q].sid \in SessionId
  BY <1>0 DEF TypeOK, Coroutine
<1>7. SerialInv'
  <2>1. \A q \in Request : req'[q].pc = "idle" => req'[q].sid = None
    BY <1>2 DEF SerialInv
  <2>2. \A q \in Request : req'[q].sid # None => owner'[req'[q].sid] # None
    BY <1>2, <1>4, <1>6 DEF SerialInv
  <2>3. \A u \in given' : owner'[u] # None
    BY <1>0, <1>1, <1>4 DEF SerialInv, TypeOK
  <2>4. \A p, q \in Request : p # q /\ req'[p].sid # None => req'[p].sid # req'[q].sid
    BY <1>2, <1>5 DEF SerialInv
  <2>5. \A q \in Request : req'[q].snap # None => store'[req'[q].sid] \in {None, req'[q].snap}
    <3> SUFFICES ASSUME NEW q \in Request, req'[q].snap # None
                 PROVE  store'[req'[q].sid] \in {None, req'[q].snap}
      OBVIOUS
    <3>1. q # r /\ req'[q] = req[q]
      BY <1>2
    <3>2. req[q].sid \in SessionId \ {s}
      BY <1>5, <3>1 DEF SessionInv, CoroutinesSound, CoroutineSound
    <3>3. QED
      BY <1>4, <3>1, <3>2 DEF SerialInv
  <2>6. QED
    BY <2>1, <2>2, <2>3, <2>4, <2>5 DEF SerialInv
<1>8. Record(s) = None
  BY <1>1, RecordTyped, RecordMapped
<1>9. Record(s)' = session
  <2>1. RecordIn(store', req', s) = store'[s]
    BY <1>2, <1>5, RecordFree
  <2>2. QED
    BY <1>4, <2>1, RecordMapped
<1>10. \A u \in SessionId \ {s} : Record(u)' = Record(u)
  <2> SUFFICES ASSUME NEW u \in SessionId \ {s} PROVE Record(u)' = Record(u)
    OBVIOUS
  <2>1. RecordIn(store', req', u) = RecordIn(store, req, u)
    BY <1>2, <1>3, <1>4, <1>7, RecordKept
  <2>2. QED
    BY <2>1, RecordMapped
<1>11. session # None /\ session.state = "initializing" /\ session.log_level = DefaultLevel
  <2>1. store'[s] # None
    <3>1. store'[s] \in Session
      BY <1>0, <1>3, <1>4, LevelAssumption DEF SessionInv, CoroutinesSound, CoroutineSound, Session, SessionState, session, TypeOK, Coroutine
    <3>2. QED
      BY <3>1, NoneAssumption
  <2>2. QED
    BY <1>4, <2>1 DEF session
<1>12. /\ LifeOf(s) = "unborn" /\ LifeOf(s)' = "initializing"
       /\ LevelOf(s)' = DefaultLevel
  BY <1>1, <1>4, <1>9, <1>11 DEF LifeOf, LevelOf
<1>13. \A u \in SessionId \ {s} : LifeOf(u)' = LifeOf(u) /\ LevelOf(u)' = LevelOf(u)
  BY <1>4, <1>10 DEF LifeOf, LevelOf
<1>14. Abstract!Open(s)
  BY <1>12, <1>13 DEF Abstract!Open
<1>15. QED
  BY <1>7, <1>14 DEF Abstract!Next

\* A save replaces the record of its session, and no other.
LEMMA SavesRecord ==
  ASSUME SessionInv, SerialInv, SerialInv', NEW r \in Request, req[r].snap # None,
         NEW session, Save(req[r].sid, session), Lone(r), req'[r].snap = None
  PROVE  /\ req[r].sid \in SessionId /\ owner[req[r].sid] # None
         /\ Record(req[r].sid) = req[r].snap
         /\ RecordIn(store', req', req[r].sid) = session
         /\ \A u \in SessionId \ {req[r].sid} : Record(u)' = Record(u)
<1>1. req[r].sid \in SessionId /\ req[r].sid # None
  BY NoneAssumption DEF SessionInv, CoroutinesSound, CoroutineSound
<1>2. owner[req[r].sid] # None
  BY <1>1 DEF SerialInv
<1>3. Record(req[r].sid) = req[r].snap
  <2>1. RecordIn(store, req, req[r].sid) = req[r].snap
    BY <1>1, RecordOfHolder
  <2>2. QED
    BY <2>1 DEF Record, RecordIn, Holder, HoldsCopy
<1>4. RecordIn(store', req', req[r].sid) = session
  <2>1. \A q \in Request : ~(req'[q].snap # None /\ req'[q].sid = req[r].sid)
    BY <1>1 DEF Lone, SerialInv
  <2>2. RecordIn(store', req', req[r].sid) = store'[req[r].sid]
    BY <2>1, RecordFree
  <2>3. store'[req[r].sid] = session
    BY <1>1 DEF Save, SessionInv, TypeOK
  <2>4. QED
    BY <2>2, <2>3
<1>5. \A u \in SessionId \ {req[r].sid} : Record(u)' = Record(u)
  <2> SUFFICES ASSUME NEW u \in SessionId \ {req[r].sid} PROVE Record(u)' = Record(u)
    OBVIOUS
  <2>1. RecordIn(store', req', u) = RecordIn(store, req, u)
    BY RecordKept DEF Lone
  <2>2. QED
    BY <2>1, RecordMapped
<1>6. QED
  BY <1>1, <1>2, <1>3, <1>4, <1>5

\* A step of the coroutine alone that writes back its copy changes no life, or
\* ends one.
LEMMA LoneMaps ==
  ASSUME SessionInv, SerialInv, SessionInv', NEW r \in Request, Lone(r), WritesBack(r)
  PROVE  SerialInv' /\ Abstract!Next
<1>1. SerialInv'
  BY LoneKeeps
<1>2. Abstract!Next
  BY <1>1, LocalEnds DEF Lone, WritesBack
<1>3. QED
  BY <1>1, <1>2

\* mark_initialized is the handshake; marking a READY session again is nothing.
LEMMA SaveReadyMaps ==
  ASSUME SessionInv, SerialInv, SessionInv', NEW r \in Request, SaveReady(r)
  PROVE  SerialInv' /\ Abstract!Next
<1>0. TypeOK
  BY DEF SessionInv
<1> DEFINE session == MarkReady(req[r].snap)
<1>1. req[r].snap # None /\ req[r].snap \in Session
  BY <1>0 DEF SaveReady, SessionInv, CoroutinesSound, CoroutineSound, TypeOK, Coroutine
<1>2. /\ session \in Session /\ session # None /\ session.state = "ready"
      /\ session.log_level = req[r].snap.log_level
      /\ req[r].snap.state = "ready" => session = req[r].snap
  <2>1. session \in Session /\ session.state = "ready" /\ session.log_level = req[r].snap.log_level
    BY <1>1 DEF MarkReady, Session, SessionState
  <2>2. req[r].snap.state = "ready" => session = req[r].snap
    BY <1>1 DEF MarkReady, Session
  <2>3. QED
    BY <2>1, <2>2, NoneAssumption
<1>3. Save(req[r].sid, session) /\ Silent(r) /\ UNCHANGED <<owner, given>>
  BY DEF SaveReady
<1> HIDE DEF session
<1>4. /\ \A q \in Request \ {r} : req'[q] = req[q]
      /\ req'[r].pc = "next" /\ req'[r].snap = None /\ req'[r].sid \in {None, req[r].sid}
  BY <1>0, <1>3, AnswerMoves
<1>5. Lone(r)
  BY <1>0, <1>3, <1>4, SaveIsLone
<1>6. SerialInv'
  BY <1>5, LoneKeeps
<1>7. PICK s \in SessionId :
        /\ s = req[r].sid /\ owner[s] # None
        /\ Record(s) = req[r].snap
        /\ RecordIn(store', req', s) = session
        /\ \A u \in SessionId \ {s} : Record(u)' = Record(u)
  BY <1>1, <1>3, <1>4, <1>5, <1>6, SavesRecord
<1>8. CASE req[r].snap.state = "ready"
  <2>1. store'[s] = req[r].snap
    BY <1>0, <1>2, <1>3, <1>7, <1>8 DEF Save, TypeOK
  <2>2. WritesBack(r)
    BY <1>7, <2>1 DEF WritesBack
  <2>3. QED
    BY <1>5, <2>2, LoneMaps
<1>9. CASE req[r].snap.state # "ready"
  <2>1. req[r].snap.state = "initializing"
    BY <1>1, <1>9 DEF Session, SessionState
  <2>2. Record(s)' = session
    BY <1>7, RecordMapped
  <2>3. owner' = owner
    BY <1>3
  <2>4. LifeOf(s) = "initializing" /\ LifeOf(s)' = "ready" /\ LevelOf(s)' = LevelOf(s)
    BY <1>1, <1>2, <1>7, <2>1, <2>2, <2>3 DEF LifeOf, LevelOf
  <2>5. \A u \in SessionId \ {s} : LifeOf(u)' = LifeOf(u) /\ LevelOf(u)' = LevelOf(u)
    BY <1>7, <2>3 DEF LifeOf, LevelOf
  <2>6. Abstract!Handshake(s)
    BY <1>7, <2>4, <2>5 DEF Abstract!Handshake
  <2>7. QED
    BY <1>6, <1>7, <2>6 DEF Abstract!Next
<1>10. QED
  BY <1>8, <1>9

\* setLevel sets the level in force.
LEMMA SetLogLevelMaps ==
  ASSUME SessionInv, SerialInv, SessionInv', NEW r \in Request, NEW level \in LogLevel,
         req[r].pc = "saveLevel", Save(req[r].sid, [req[r].snap EXCEPT !.log_level = level]),
         Served(r) \/ Plain(r), UNCHANGED <<owner, given>>
  PROVE  SerialInv' /\ Abstract!Next
<1>0. TypeOK
  BY DEF SessionInv
<1> DEFINE session == [req[r].snap EXCEPT !.log_level = level]
<1>1. req[r].snap # None /\ req[r].snap \in Session /\ req[r].snap.state = "ready"
  BY <1>0 DEF SessionInv, CoroutinesSound, CoroutineSound, TypeOK, Coroutine
<1>2. session # None /\ session.state = "ready" /\ session.log_level = level
  <2>1. session \in Session /\ session.state = "ready" /\ session.log_level = level
    BY <1>1 DEF Session
  <2>2. QED
    BY <2>1, NoneAssumption
<1>3. Save(req[r].sid, session) /\ (Served(r) \/ Plain(r)) /\ UNCHANGED <<owner, given>>
  OBVIOUS
<1> HIDE DEF session
<1>4. /\ \A q \in Request \ {r} : req'[q] = req[q]
      /\ req'[r].pc = "next" /\ req'[r].snap = None /\ req'[r].sid \in {None, req[r].sid}
  BY <1>0, <1>3, AnswerMoves
<1>5. Lone(r)
  BY <1>0, <1>3, <1>4, SaveIsLone
<1>6. SerialInv'
  BY <1>5, LoneKeeps
<1>7. PICK s \in SessionId :
        /\ s = req[r].sid /\ owner[s] # None
        /\ Record(s) = req[r].snap
        /\ RecordIn(store', req', s) = session
        /\ \A u \in SessionId \ {s} : Record(u)' = Record(u)
  BY <1>1, <1>3, <1>4, <1>5, <1>6, SavesRecord
<1>8. Record(s)' = session
  BY <1>7, RecordMapped
<1>9. owner' = owner
  BY <1>3
<1>10. LifeOf(s) = "ready" /\ LifeOf(s)' = "ready" /\ LevelOf(s)' = level
  BY <1>1, <1>2, <1>7, <1>8, <1>9 DEF LifeOf, LevelOf
<1>11. \A u \in SessionId \ {s} : LifeOf(u)' = LifeOf(u) /\ LevelOf(u)' = LevelOf(u)
  BY <1>7, <1>9 DEF LifeOf, LevelOf
<1>12. Abstract!SetLevel(s, level)
  BY <1>7, <1>10, <1>11 DEF Abstract!SetLevel
<1>13. QED
  BY <1>6, <1>7, <1>12 DEF Abstract!Next

\* A save whose reply was lost is, for the record, a save.
LEMMA LostReplyMaps ==
  ASSUME SessionInv, SerialInv, SessionInv', NEW r \in Request, LostReply(r)
  PROVE  SerialInv' /\ Abstract!Next
<1>0. TypeOK
  BY DEF SessionInv
<1>1. ASSUME NEW s \in SessionId, Mint(r, s), Plain(r) PROVE SerialInv' /\ Abstract!Next
  BY <1>1, MintOpens DEF Plain
<1>2. CASE Save(req[r].sid, req[r].snap) /\ Plain(r) /\ UNCHANGED <<owner, given>>
  <2>1. /\ \A q \in Request \ {r} : req'[q] = req[q]
        /\ req'[r].pc = "next" /\ req'[r].snap = None /\ req'[r].sid \in {None, req[r].sid}
    BY <1>0, <1>2, AnswerMoves
  <2>2. Lone(r)
    BY <1>0, <1>2, <2>1, SaveIsLone
  <2>3. WritesBack(r)
    BY <1>0, <1>2 DEF WritesBack, Save, TypeOK, Coroutine
  <2>4. QED
    BY <2>2, <2>3, LoneMaps
<1>3. ASSUME NEW level \in LogLevel, req[r].pc = "saveLevel",
             Save(req[r].sid, [req[r].snap EXCEPT !.log_level = level]), Plain(r),
             UNCHANGED <<owner, given>>
      PROVE  SerialInv' /\ Abstract!Next
  BY <1>3, SetLogLevelMaps
<1>4. QED
  BY <1>1, <1>2, <1>3 DEF LostReply

\* Expiry ends the lives of the records that nobody is about to save.
LEMMA TickMaps ==
  ASSUME SessionInv, SerialInv, Tick
  PROVE  SerialInv' /\ Abstract!Next
<1>1. UNCHANGED <<req, owner, given>> /\ \A s \in SessionId : store'[s] \in {None, store[s]}
  BY DEF Tick
<1>2. \A r \in Request : req[r].snap # None => req[r].sid \in SessionId /\ req[r].sid # None
  BY NoneAssumption DEF SessionInv, CoroutinesSound, CoroutineSound
<1>3. SerialInv'
  BY <1>1, <1>2 DEF SerialInv
<1>4. ASSUME NEW s \in SessionId
      PROVE  RecordIn(store', req', s) \in {None, RecordIn(store, req, s)}
  <2>1. CASE \E r \in Request : req[r].snap # None /\ req[r].sid = s
    <3>1. PICK r \in Request : req[r].snap # None /\ req[r].sid = s
      BY <2>1
    <3>2. \A q \in Request : q # r => req[q].sid # s /\ req'[q].sid # s
      BY <1>1, <1>2, <3>1 DEF SerialInv
    <3>3. /\ store[s] = None \/ store[s] = req[r].snap
          /\ store'[s] = None \/ store'[s] = req'[r].snap
      BY <1>1, <1>3, <3>1 DEF SerialInv
    <3>4. RecordIn(store, req, s) = req[r].snap
      BY <3>1, <3>2, <3>3, RecordHeld
    <3>5. req'[r].snap # None /\ req'[r].sid = s /\ req'[r].snap = req[r].snap
      BY <1>1, <3>1
    <3>6. RecordIn(store', req', s) = req'[r].snap
      <4>1. \A q \in Request : q # r => req'[q].sid # s
        BY <3>2
      <4>2. store'[s] = None \/ store'[s] = req'[r].snap
        BY <3>3
      <4>3. QED
        BY <3>1, <3>5, <4>1, <4>2, RecordHeld
    <3>7. QED
      BY <3>4, <3>5, <3>6
  <2>2. CASE \A r \in Request : ~(req[r].snap # None /\ req[r].sid = s)
    <3>1. RecordIn(store, req, s) = store[s]
      BY <2>2, RecordFree
    <3>2. RecordIn(store', req', s) = store'[s]
      BY <1>1, <2>2, RecordFree
    <3>3. QED
      BY <1>1, <3>1, <3>2
  <2>3. QED
    BY <2>1, <2>2
<1>5. QED
  BY <1>1, <1>3, <1>4, EndsLives

\* Everything else a coroutine does leaves the lives alone, or ends one.
LEMMA WorkMaps ==
  ASSUME SessionInv, SerialInv, SessionInv', NEW r \in Request, Work(r)
  PROVE  SerialInv' /\ Abstract!Next
<1>0. TypeOK
  BY DEF SessionInv
<1>1. CASE \E s \in SessionId : Initialize(r, s)
  BY <1>1, MintOpens DEF Initialize
<1>2. CASE Reject(r)
  <2>1. Lone(r) /\ WritesBack(r)
    BY <1>0, <1>2, AnswerIsLone DEF Reject
  <2>2. QED
    BY <2>1, LoneMaps
<1>3. CASE Ping(r)
  <2>1. (Plain(r) \/ Stale(r) \/ Silent(r) \/ Served(r)) /\ UNCHANGED <<store, owner, given>>
    BY <1>3 DEF Ping
  <2>2. Lone(r) /\ WritesBack(r)
    BY <1>0, <2>1, AnswerIsLone
  <2>3. QED
    BY <2>2, LoneMaps
<1>4. CASE AssertMethodAllowed(r)
  <2>1. UNCHANGED <<store, owner, given>>
    BY <1>4 DEF AssertMethodAllowed
  <2>2. CASE Stale(r) \/ Plain(r)
    <3>1. Lone(r) /\ WritesBack(r)
      BY <1>0, <2>1, <2>2, AnswerIsLone
    <3>2. QED
      BY <3>1, LoneMaps
  <2>3. CASE Owned(r) /\ Goto(r, "save", store[req[r].sid])
    <3>1. "save" \in Pc \ {"idle"}
      BY DEF Pc
    <3>2. Lone(r) /\ WritesBack(r)
      BY <1>0, <2>1, <2>3, <3>1, LoadIsLone
    <3>3. QED
      BY <3>2, LoneMaps
  <2>4. QED
    BY <1>4, <2>2, <2>3 DEF AssertMethodAllowed
<1>5. CASE Notify(r)
  <2>1. UNCHANGED <<store, owner, given>>
    BY <1>5 DEF Notify
  <2>2. CASE Silent(r)
    <3>1. Lone(r) /\ WritesBack(r)
      BY <1>0, <2>1, <2>2, AnswerIsLone
    <3>2. QED
      BY <3>1, LoneMaps
  <2>3. CASE Owned(r) /\ Goto(r, "save", store[req[r].sid])
    <3>1. "save" \in Pc \ {"idle"}
      BY DEF Pc
    <3>2. Lone(r) /\ WritesBack(r)
      BY <1>0, <2>1, <2>3, <3>1, LoadIsLone
    <3>3. QED
      BY <3>2, LoneMaps
  <2>4. QED
    BY <1>5, <2>2, <2>3 DEF Notify
<1>6. CASE SaveReady(r)
  BY <1>6, SaveReadyMaps
<1>7. CASE Touch(r)
  <2>1. /\ Save(req[r].sid, req[r].snap) /\ Goto(r, "handle", None)
        /\ UNCHANGED <<owner, given>>
    BY <1>7 DEF Touch
  <2>2. "handle" \in Pc /\ None \in Session \cup {None}
    BY DEF Pc
  <2>3. /\ \A q \in Request \ {r} : req'[q] = req[q]
        /\ req'[r].pc = "handle" /\ req'[r].snap = None /\ req'[r].sid = req[r].sid
    BY <1>0, <2>1, <2>2, GotoFacts
  <2>4. Lone(r)
    BY <1>0, <2>1, <2>3, SaveIsLone
  <2>5. WritesBack(r)
    BY <1>0, <2>1 DEF WritesBack, Save, TypeOK, Coroutine
  <2>6. QED
    BY <2>4, <2>5, LoneMaps
<1>8. CASE Handle(r)
  <2>1. UNCHANGED <<store, owner, given>>
    BY <1>8 DEF Handle
  <2>2. CASE Plain(r) \/ Served(r) \/ Stale(r)
    <3>1. Lone(r) /\ WritesBack(r)
      BY <1>0, <2>1, <2>2, AnswerIsLone
    <3>2. QED
      BY <3>1, LoneMaps
  <2>3. CASE Owned(r) /\ Goto(r, "saveLevel", store[req[r].sid])
    <3>1. "saveLevel" \in Pc \ {"idle"}
      BY DEF Pc
    <3>2. Lone(r) /\ WritesBack(r)
      BY <1>0, <2>1, <2>3, <3>1, LoadIsLone
    <3>3. QED
      BY <3>2, LoneMaps
  <2>4. QED
    BY <1>8, <2>2, <2>3 DEF Handle
<1>9. CASE \E level \in LogLevel : SetLogLevel(r, level)
  BY <1>9, SetLogLevelMaps DEF SetLogLevel
<1>10. CASE Close(r)
  <2>1. UNCHANGED <<store, owner, given>>
    BY <1>10 DEF Close
  <2>2. CASE req' = [req EXCEPT ![r] = Idle]
    <3>1. Lone(r) /\ WritesBack(r)
      BY <1>0, <2>1, <2>2, EndIsLone
    <3>2. QED
      BY <3>1, LoneMaps
  <2>3. CASE Goto(r, "delete", None)
    <3>1. "delete" \in Pc /\ None \in Session \cup {None}
      BY DEF Pc
    <3>2. /\ \A q \in Request \ {r} : req'[q] = req[q]
          /\ req'[r].pc = "delete" /\ req'[r].snap = None /\ req'[r].sid = req[r].sid
      BY <1>0, <2>3, <3>1, GotoFacts
    <3>3. Lone(r) /\ WritesBack(r)
      BY <2>1, <3>2 DEF Lone, WritesBack
    <3>4. QED
      BY <3>3, LoneMaps
  <2>4. QED
    BY <1>10, <2>2, <2>3 DEF Close
<1>11. CASE DeleteRecord(r)
  <2>1. Lone(r) /\ WritesBack(r)
    BY <1>0, <1>11, EndIsLone DEF DeleteRecord
  <2>2. QED
    BY <2>1, LoneMaps
<1>12. CASE Reply(r)
  <2>1. given' \subseteq given \cup ({req[r].sid} \ {None})
    BY <1>12 DEF Reply
  <2>2. Lone(r) /\ WritesBack(r)
    BY <1>0, <1>12, <2>1, EndIsLone DEF Reply
  <2>3. QED
    BY <2>2, LoneMaps
<1>13. QED
  BY <1>1, <1>2, <1>3, <1>4, <1>5, <1>6, <1>7, <1>8, <1>9, <1>10, <1>11, <1>12 DEF Work

LEMMA SerialSteps ==
  Serial /\ SessionInv /\ SerialInv /\ SessionInv' /\ [Next]_vars
    => SerialInv' /\ [Abstract!Next]_(Abstract!svars)
<1> SUFFICES ASSUME Serial, SessionInv, SerialInv, SessionInv', [Next]_vars
             PROVE  SerialInv' /\ [Abstract!Next]_(Abstract!svars)
  OBVIOUS
<1>0. TypeOK
  BY DEF SessionInv
<1>1. ASSUME NEW r \in Request, Arrive(r) PROVE SerialInv' /\ Abstract!Next
  <2>1. /\ SerialInv' /\ UNCHANGED <<store, owner>>
        /\ (\A q \in Request \ {r} : req'[q] = req[q]) /\ req'[r].snap = None
    BY <1>1, ArriveKeeps
  <2>2. \A s \in SessionId : store'[s] = store[s]
    BY <2>1
  <2>3. Abstract!Next
    BY <2>1, <2>2, LocalEnds
  <2>4. QED
    BY <2>1, <2>3
<1>2. ASSUME NEW r \in Request, Work(r) PROVE SerialInv' /\ Abstract!Next
  BY <1>2, WorkMaps
<1>3. ASSUME NEW r \in Request, StoreError(r) \/ Crash(r) PROVE SerialInv' /\ Abstract!Next
  <2>0. UNCHANGED <<store, owner, given>>
    BY <1>3 DEF StoreError, Crash
  <2>1. CASE req' = [req EXCEPT ![r] = Idle]
    <3>1. Lone(r) /\ WritesBack(r)
      BY <1>0, <2>0, <2>1, EndIsLone
    <3>2. QED
      BY <3>1, LoneMaps
  <2>2. CASE Silent(r) \/ Plain(r)
    <3>1. Lone(r) /\ WritesBack(r)
      BY <1>0, <2>0, <2>2, AnswerIsLone
    <3>2. QED
      BY <3>1, LoneMaps
  <2>3. QED
    BY <1>3, <2>1, <2>2 DEF StoreError, Crash
<1>4. CASE Tick
  BY <1>4, TickMaps
<1>5. ASSUME NEW r \in Request, LostReply(r) PROVE SerialInv' /\ Abstract!Next
  BY <1>5, LostReplyMaps
<1>6. CASE UNCHANGED vars
  <2>1. SerialInv'
    BY <1>6 DEF vars, SerialInv
  <2>2. UNCHANGED Abstract!svars
    BY <1>6 DEF vars, Abstract!svars, LifeOf, LevelOf, Record, Holder, HoldsCopy
  <2>3. QED
    BY <2>1, <2>2
<1>7. QED
  BY <1>1, <1>2, <1>3, <1>4, <1>5, <1>6 DEF Next

LEMMA SerialStart == Init => SerialInv /\ Abstract!Init
<1> SUFFICES ASSUME Init PROVE SerialInv /\ Abstract!Init
  OBVIOUS
<1>1. SerialInv
  BY DEF Init, SerialInv, Idle
<1>2. \A s \in SessionId : Record(s) = None /\ owner[s] = None
  <2>1. \A s \in SessionId : store[s] = None /\ owner[s] = None
    BY DEF Init
  <2>2. \A r \in Request : req[r].snap = None
    BY DEF Init, Idle
  <2>3. QED
    BY <2>1, <2>2 DEF Record, HoldsCopy
<1>3. \A s \in SessionId : LifeOf(s) = "unborn" /\ LevelOf(s) = None
  BY <1>2 DEF LifeOf, LevelOf
<1>4. Abstract!Init
  BY <1>3 DEF Abstract!Init
<1>5. QED
  BY <1>1, <1>4

\* For clients that keep one request per session in flight, the GET/SET
\* coroutines implement the atomic lifecycle.
THEOREM SerialLivesOneLife == Serial => (Spec => LivesOneLife)
<1> SUFFICES ASSUME Serial PROVE Spec => LivesOneLife
  OBVIOUS
<1>1. SessionInv /\ SerialInv /\ SessionInv' /\ [Next]_vars => SerialInv' /\ [Abstract!Next]_(Abstract!svars)
  BY SerialSteps
<1>2. QED
  BY <1>1, SerialStart, SessionInvariant, PTL DEF Spec, LivesOneLife, Abstract!Spec

=============================================================================
