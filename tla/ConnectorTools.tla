--------------------------- MODULE ConnectorTools ---------------------------
(***************************************************************************)
(* A workspace's connectors as tools: the ones a turn offers the model,    *)
(* the ones a client calls over JSON-RPC, and shielva_set_bot_capability,  *)
(* which binds one of them to a bot.  Which connectors are installed is    *)
(* asked of the connector runtime at every use; which are published comes  *)
(* through the cache of ConnectorToolCatalogue._types, of which only what  *)
(* it may return is kept here (SourceCaches models when).  The runtime,    *)
(* core-api and the people who install connectors are modelled from how    *)
(* the code uses them.                                                     *)
(***************************************************************************)
EXTENDS FiniteSets

CONSTANTS
  Caller,     \* turns and tool calls in flight
  Name,       \* tool names, without the action
  Type,       \* connector types: a name, with or without "_connector", or twins with both
  Declaring,  \* the types that declare the bot's capability
  SwitchedOn, \* the types whose tools are switched on for the bot
  Named,      \* what callers pass as connector: types, or None for " "
  None

ASSUME TypeAssumption ==
  /\ Type \subseteq [name : Name, suffixed : BOOLEAN]
  /\ Declaring \subseteq Type /\ SwitchedOn \subseteq Type /\ Named \subseteq Type \cup {None}
ASSUME NoneAssumption == None \notin [name : Name, suffixed : BOOLEAN] \cup Name

VARIABLES
  installed,  \* the types installed in the workspace
  published,  \* the catalogue, as the runtime publishes it
  known,      \* the catalogue, as the one behind the turns and tools/call stored it
  row,        \* the provider core-api holds for the bot's capability
  linked,     \* the connectors the bot may call
  call,       \* what each caller is doing
  warned      \* history: somebody was told that the bot may not call row

vars == <<installed, published, known, row, linked, call, warned>>

\* snap: the installed types, then the tools offered.  was: ctype was installed
\* at some moment since the call settled on it.  calm: nothing changed, and
\* no lookup failed, since the listing began.
Idle == [pc |-> "idle", turn |-> FALSE, enabled |-> FALSE, name |-> None, spec |-> None,
         ctype |-> None, snap |-> {}, was |-> FALSE, calm |-> FALSE]

Init ==
  /\ installed \in SUBSET Type
  /\ published \in SUBSET Type
  /\ known = {}
  /\ row = None
  /\ linked = {}
  /\ call = [c \in Caller |-> Idle]
  /\ warned = FALSE

-----------------------------------------------------------------------------
(* Reads of the runtime                                                    *)

\* _types: the stored catalogue (fresh, or the fetch failed) or a new one,
\* which replaces it unless it is empty.
TypesRead == {known, published}
Remember(types) == known' = IF types = published /\ types # {} THEN types ELSE known

\* _installed: never cached, and nothing when the runtime cannot say.
InstalledRead == {installed, {}}

\* c moves on; the others notice when the catalogue moved.
Move(c, next) ==
  call' = [d \in Caller |-> IF d = c THEN next ELSE [call[d] EXCEPT !.calm = @ /\ (known' = known)]]

\* So does c, and it notices a catalogue that is not the stored one.
Step(c, next, types) ==
  Move(c, [next EXCEPT !.calm = @ /\ (known' = known /\ types = known)])

Only(c, next) == call' = [call EXCEPT ![c] = next]

\* Back to the model, or to the client.
Back(c) == IF call[c].turn
           THEN [call[c] EXCEPT !.pc = "offered", !.name = None, !.spec = None,
                                !.ctype = None, !.was = FALSE]
           ELSE Idle

-----------------------------------------------------------------------------
(* The tools a turn offers: specs_for_bot over list_for                    *)

ListInstalled(c, got) ==
  /\ call[c].pc = "idle"
  /\ got # {}
  /\ Only(c, [Idle EXCEPT !.pc = "listTypes", !.turn = TRUE, !.snap = got,
                       !.calm = TRUE])
  /\ UNCHANGED known

ListTypes(c, types) ==
  /\ call[c].pc = "listTypes"
  /\ Remember(types)
  /\ LET offered == call[c].snap \cap types \cap SwitchedOn IN
     Move(c, IF offered = {} THEN Idle
             ELSE [call[c] EXCEPT !.pc = "offered", !.snap = offered])

\* The model calls one of them, or ends the turn.
Choose(c) ==
  /\ call[c].pc = "offered"
  /\ \/ Only(c, Idle)
     \/ \E t \in call[c].snap :
          Only(c, [call[c] EXCEPT !.pc = "types", !.name = t.name, !.spec = t])
  /\ UNCHANGED known

-----------------------------------------------------------------------------
(* tools/call, then ConnectorToolCatalogue.execute                         *)

\* A client may name a tool nobody listed.
Request(c, name) ==
  /\ call[c].pc = "idle"
  /\ Only(c, [Idle EXCEPT !.pc = "get", !.name = name])
  /\ UNCHANGED known

\* Mutant: every type is assumed to end in "_connector".
TypeOfSuffixedMutant(name, types) == [name |-> name, suffixed |-> TRUE]

\* Mutant: the name as it came back wins when it is known.
TypeOfBareMutant(name, types) ==
  LET bare == [name |-> name, suffixed |-> FALSE] IN
  IF bare \in types THEN bare ELSE [name |-> name, suffixed |-> TRUE]

\* Only some types end in "_connector": the one with it wins when it is known.
TypeOf(name, types) ==
  LET suffixed == [name |-> name, suffixed |-> TRUE] IN
  IF suffixed \in types THEN suffixed ELSE [name |-> name, suffixed |-> FALSE]

\* Looked up by ToolApplicationService, and again by the composite.
Get(c, types) ==
  /\ call[c].pc \in {"get", "getAgain"}
  /\ Remember(types)
  /\ Step(c, IF TypeOf(call[c].name, types) \notin types THEN Idle
             ELSE IF call[c].pc = "get" THEN [call[c] EXCEPT !.pc = "getAgain"]
             ELSE [call[c] EXCEPT !.pc = "types"],
          types)

ExecuteTypes(c, types) ==
  /\ call[c].pc = "types"
  /\ Remember(types)
  /\ LET ctype == TypeOf(call[c].name, types) IN
     Step(c, [call[c] EXCEPT !.pc = "check", !.ctype = ctype, !.was = ctype \in installed], types)

\* Mutant: the check fails open when the runtime cannot say what is installed.
CheckFailsOpenMutant(c, got) ==
  /\ call[c].pc = "check"
  /\ Only(c, [call[c] EXCEPT !.pc = IF call[c].ctype \in got \/ got = {}
                                    THEN "post" ELSE "refused",
                             !.calm = @ /\ got = installed])
  /\ UNCHANGED known

\* The authorisation check: the listing is not a boundary.
Check(c, got) ==
  /\ call[c].pc = "check"
  /\ Only(c, [call[c] EXCEPT !.pc = IF call[c].ctype \in got THEN "post" ELSE "refused",
                             !.calm = @ /\ got = installed])
  /\ UNCHANGED known

\* The POST that runs the connector, or the refusal the model reads instead.
Finish(c) ==
  /\ call[c].pc \in {"post", "refused"}
  /\ Only(c, Back(c))
  /\ UNCHANGED known

-----------------------------------------------------------------------------
(* shielva_set_bot_capability                                              *)

\* Disabling, and enabling with a connector named, ask the catalogue nothing.
SetCapability(c, enabled, connector) ==
  /\ call[c].pc = "idle"
  /\ enabled \/ connector = None
  /\ Only(c, [Idle EXCEPT !.pc = "put", !.enabled = enabled, !.ctype = connector])
  /\ UNCHANGED <<known, row, linked, warned>>

ProvidersInstalled(c, got) ==
  /\ call[c].pc = "idle"
  /\ got # {}
  /\ Only(c, [Idle EXCEPT !.pc = "providers", !.enabled = TRUE, !.snap = got])
  /\ UNCHANGED <<known, row, linked, warned>>

\* The first installed type that declares the capability; which is first is
\* the order of names, left open here.  This tool has a catalogue of its own,
\* whose cache may hold whatever was once published.
ProvidersTypes(c, types) ==
  /\ call[c].pc = "providers"
  /\ LET providers == call[c].snap \cap types \cap Declaring IN
     \/ providers = {} /\ Only(c, Idle)
     \/ \E t \in providers : Only(c, [call[c] EXCEPT !.pc = "put", !.ctype = t, !.snap = {}])
  /\ UNCHANGED <<known, row, linked, warned>>

\* The PUT stores the choice; an empty one clears the row.  It may be refused,
\* and its answer may be lost, which the caller is told as a failure.
Put(c, done, answered) ==
  /\ call[c].pc = "put"
  /\ row' = IF done THEN call[c].ctype ELSE row
  /\ warned' = IF done THEN ~answered ELSE warned
  /\ Only(c, IF done /\ answered /\ call[c].enabled /\ call[c].ctype # None
             THEN [call[c] EXCEPT !.pc = "link"] ELSE Idle)
  /\ UNCHANGED <<known, linked>>

\* Mutant: the row is read again, and may have been cleared since the PUT.
LinkReadsAgainMutant(c, done, answered) ==
  /\ call[c].pc = "link"
  /\ linked' = IF done THEN linked \cup {row} ELSE linked
  /\ warned' = (warned \/ (row = call[c].ctype /\ ~(done /\ answered)))
  /\ Only(c, Idle)
  /\ UNCHANGED <<known, row>>

\* Mutant: a link that failed is reported as an update.
LinkSwallowedMutant(c, done, answered) ==
  /\ call[c].pc = "link"
  /\ linked' = IF done THEN linked \cup {call[c].ctype} ELSE linked
  /\ Only(c, Idle)
  /\ UNCHANGED <<known, row, warned>>

\* Choosing a provider must also let the bot call it.
Link(c, done, answered) ==
  /\ call[c].pc = "link"
  /\ linked' = IF done THEN linked \cup {call[c].ctype} ELSE linked
  /\ warned' = (warned \/ (row = call[c].ctype /\ ~(done /\ answered)))
  /\ Only(c, Idle)
  /\ UNCHANGED <<known, row>>

-----------------------------------------------------------------------------
(* People installing connectors and unlinking them, the runtime publishing  *)

Reinstall ==
  /\ \E t \in Type : installed' = (installed \ {t}) \cup ({t} \ installed)
  /\ call' = [c \in Caller |->
                [call[c] EXCEPT !.calm = FALSE,
                                !.was = @ \/ (call[c].pc = "check" /\ call[c].ctype \in installed')]]
  /\ UNCHANGED <<published, known, row, linked, warned>>

Publish ==
  /\ \E t \in Type : published' = (published \ {t}) \cup ({t} \ published)
  /\ UNCHANGED <<installed, known, row, linked, call, warned>>

Unlink ==
  /\ \E t \in linked : linked' = linked \ {t} /\ warned' = (warned \/ row = t)
  /\ UNCHANGED <<installed, published, known, row, call>>

UseTool(c) ==
  /\ \/ \E got \in InstalledRead : ListInstalled(c, got) \/ Check(c, got)
     \/ \E types \in TypesRead : ListTypes(c, types) \/ Get(c, types) \/ ExecuteTypes(c, types)
     \/ Choose(c)
     \/ \E name \in Name : Request(c, name)
     \/ Finish(c)
  /\ UNCHANGED <<row, linked, warned>>

Bind(c) ==
  \/ \E enabled \in BOOLEAN, connector \in Named \cup {None} :
       /\ enabled => connector \in Named
       /\ SetCapability(c, enabled, connector)
  \/ \E got \in InstalledRead : ProvidersInstalled(c, got)
  \/ \E types \in SUBSET Type : ProvidersTypes(c, types)
  \/ \E done, answered \in BOOLEAN : Put(c, done, answered) \/ Link(c, done, answered)

Next ==
  \/ \E c \in Caller : (UseTool(c) \/ Bind(c)) /\ UNCHANGED <<installed, published>>
  \/ Reinstall
  \/ Publish
  \/ Unlink

Spec == Init /\ [][Next]_vars

-----------------------------------------------------------------------------
(* Properties                                                              *)

Call == [pc : {"idle", "listTypes", "offered", "get", "getAgain", "types", "check", "post",
               "refused", "providers", "put", "link"},
         turn : BOOLEAN, enabled : BOOLEAN, name : Name \cup {None}, spec : Type \cup {None},
         ctype : [name : Name, suffixed : BOOLEAN] \cup {None},
         snap : SUBSET Type, was : BOOLEAN, calm : BOOLEAN]

\* Every variable keeps its type, and only types of the platform are stored.
TypeOK ==
  /\ installed \subseteq Type /\ published \subseteq Type /\ known \subseteq Type
  /\ row \in Type \cup {None}
  /\ linked \subseteq Type /\ warned \in BOOLEAN
  /\ call \in [Caller -> Call]

\* No connector runs unless it was installed at some moment of the call that
\* runs it, whatever was listed, guessed or cached before (execute).
RunsOnlyInstalled ==
  \A c \in Caller : call[c].pc = "post" => call[c].was

\* Behind the tool of t the catalogue finds t's twin, the type with the suffix.
Shadowed(t, types) == ~t.suffixed /\ [name |-> t.name, suffixed |-> TRUE] \in types

\* What a turn runs bears the name of the tool the model was shown, whatever
\* moved since; as long as nothing did it is the connector that was listed, but
\* for one whose twin the catalogue has.
OnlyTwinsStandIn ==
  \A c \in Caller : call[c].pc = "post" /\ call[c].turn =>
    /\ call[c].ctype.name = call[c].spec.name
    /\ call[c].calm /\ call[c].ctype # call[c].spec => Shadowed(call[c].spec, known)

\* A tool that was offered is only refused when something changed or a lookup
\* failed since the listing that offered it, or its connector is shadowed.
RefusedForAReason ==
  \A c \in Caller : call[c].pc = "refused" /\ call[c].turn =>
    ~call[c].calm \/ Shadowed(call[c].spec, known)

\* The promise of the lookup: the type it finds is the real one behind the name,
\* so a turn runs the connector whose tool the model was shown
\* (connector_catalogue.py:115).  Not so for twins.
RunsWhatWasListed ==
  \A c \in Caller : call[c].pc = "post" /\ call[c].turn => call[c].ctype = call[c].spec

\* The promise of the listing: it offers no tool that nothing can run, so one it
\* did offer is only refused when something changed or a lookup failed
\* (connector_catalogue.py:250).  Not so for a twin that is shadowed.
OfferedCanRun ==
  \A c \in Caller : call[c].pc = "refused" /\ call[c].turn => ~call[c].calm

\* A capability whose provider the bot may not call does nothing at run time.
\* That never happens silently: the call that chose it is about to link it, or
\* somebody was told.
InertIsKnown ==
  row # None =>
    \/ warned \/ row \in linked
    \/ \E c \in Caller : call[c].pc = "link" /\ call[c].ctype = row
=============================================================================
