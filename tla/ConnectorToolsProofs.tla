------------------------ MODULE ConnectorToolsProofs ------------------------
(***************************************************************************)
(* Proofs about ConnectorTools, for any callers and any connector types.   *)
(* Sound says of one call what its program counter, the types it listed    *)
(* and the tool it holds have to do with what is installed and published.  *)
(***************************************************************************)
EXTENDS ConnectorTools, TLAPS

-----------------------------------------------------------------------------
(* The inductive invariant *)

\* The check that is about to run finds ctype only if it may, and a call that
\* disables a capability stores nothing.
Authorised(x, inst) ==
  /\ x.pc = "check" /\ x.ctype \in inst => x.was
  /\ x.pc = "post" => x.was
  /\ x.pc = "providers" => x.enabled
  /\ x.pc = "put" => x.ctype \in Type \cup {None} /\ (x.enabled \/ x.ctype = None)
  /\ x.pc = "link" => x.ctype \in Type

\* The tool of a turn is the one it was offered under that name; a name that
\* is looked up comes from a client.
Faithful(x) ==
  /\ x.pc \in {"get", "getAgain", "types"} => x.name \in Name
  /\ x.pc \in {"get", "getAgain"} => ~x.turn
  /\ x.turn /\ x.pc \in {"types", "check", "post"} => x.spec \in x.snap
  /\ x.turn /\ x.pc = "types" => x.name = x.spec.name
  /\ x.turn /\ x.pc = "check" => x.ctype.name = x.spec.name /\ x.ctype # None
  /\ x.turn /\ x.pc = "post" => x.ctype.name = x.spec.name

\* As long as nothing changed, what was listed is installed and published, and
\* its name leads to it or to the twin that shadows it.
Current(x, inst, kn) ==
  x.turn /\ x.calm =>
    /\ x.pc \in {"listTypes", "offered", "types", "check", "post", "refused"} =>
         x.snap \subseteq inst
    /\ x.pc \in {"offered", "types", "check", "post", "refused"} => x.snap \subseteq kn
    /\ x.pc \in {"check", "post"} => x.ctype = x.spec \/ Shadowed(x.spec, kn)
    /\ x.pc = "refused" => Shadowed(x.spec, kn)

Sound(x, inst, kn) == Authorised(x, inst) /\ Faithful(x) /\ Current(x, inst, kn)

CallsSound == \A c \in Caller : Sound(call[c], installed, known)

ConnectorsInv == TypeOK /\ CallsSound /\ InertIsKnown

-----------------------------------------------------------------------------
(* One call moves, the others only notice *)

LEMMA IdleSound == Idle \in Call /\ \A inst, kn : Sound(Idle, inst, kn)
  BY DEF Idle, Call, Sound, Authorised, Faithful, Current

LEMMA OnlyKeeps ==
  ASSUME TypeOK, CallsSound, NEW c \in Caller, NEW next \in Call,
         Only(c, next), Sound(next, installed, known),
         installed' = installed, known' = known
  PROVE  /\ call' \in [Caller -> Call] /\ CallsSound'
         /\ call'[c] = next /\ \A d \in Caller \ {c} : call'[d] = call[d]
  BY DEF TypeOK, CallsSound, Only

\* Noticing that the catalogue moved costs a call its calm and nothing else.
LEMMA NoticeKeeps ==
  ASSUME NEW x \in Call, NEW inst, NEW kn, NEW kn2, NEW same \in BOOLEAN,
         Sound(x, inst, kn), same => kn2 = kn
  PROVE  Sound([x EXCEPT !.calm = @ /\ same], inst, kn2)
  BY DEF Sound, Authorised, Faithful, Current, Call

LEMMA NoticeFields ==
  ASSUME NEW x \in Call, NEW same \in BOOLEAN, NEW y, y = [x EXCEPT !.calm = @ /\ same]
  PROVE  y \in Call /\ y.pc = x.pc /\ y.ctype = x.ctype
<1>1. (x.calm /\ same) \in BOOLEAN
  OBVIOUS
<1>2. QED
  BY <1>1 DEF Call

LEMMA NoticeRest ==
  ASSUME NEW x \in Call, NEW same \in BOOLEAN, NEW y, y = [x EXCEPT !.calm = @ /\ same]
  PROVE  /\ y.turn = x.turn /\ y.name = x.name /\ y.spec = x.spec
         /\ y.snap = x.snap /\ y.was = x.was
  BY DEF Call

LEMMA NoticeCalm ==
  ASSUME NEW x \in Call, NEW same \in BOOLEAN, NEW y, y = [x EXCEPT !.calm = @ /\ same]
  PROVE  y.calm => x.calm /\ same
  BY DEF Call

LEMMA MoveKeeps ==
  ASSUME TypeOK, CallsSound, NEW c \in Caller, NEW next \in Call, Move(c, next),
         Sound(next, installed, known'), installed' = installed
  PROVE  /\ call' \in [Caller -> Call] /\ CallsSound'
         /\ \A d \in Caller \ {c} : call'[d].pc = call[d].pc /\ call'[d].ctype = call[d].ctype
<1>1. call'[c] = next
  BY DEF Move
<1>2. \A d \in Caller \ {c} : call'[d] = [call[d] EXCEPT !.calm = @ /\ (known' = known)]
  BY DEF Move
<1>3. ASSUME NEW d \in Caller \ {c}
      PROVE  /\ call'[d] \in Call /\ call'[d].pc = call[d].pc /\ call'[d].ctype = call[d].ctype
             /\ Sound(call'[d], installed, known')
  <2>1. (known' = known) \in BOOLEAN /\ call[d] \in Call /\ Sound(call[d], installed, known)
    BY DEF TypeOK, CallsSound
  <2>2. call'[d] \in Call /\ call'[d].pc = call[d].pc /\ call'[d].ctype = call[d].ctype
    BY <1>2, <2>1, NoticeFields
  <2>3. Sound([call[d] EXCEPT !.calm = @ /\ (known' = known)], installed, known')
    BY <2>1, NoticeKeeps
  <2>4. QED
    BY <1>2, <2>2, <2>3
<1>4. call' \in [Caller -> Call]
  BY <1>1, <1>3 DEF Move
<1>5. CallsSound'
  BY <1>1, <1>3 DEF CallsSound
<1>6. QED
  BY <1>3, <1>4, <1>5

-----------------------------------------------------------------------------
(* Turns and tool calls                                                    *)

\* What a caller outside shielva_set_bot_capability does leaves the bot alone.
LEMMA ToolKeepsInert ==
  ASSUME TypeOK, InertIsKnown, NEW c \in Caller, call[c].pc # "link",
         UNCHANGED <<row, linked, warned>>,
         \A d \in Caller \ {c} : call'[d].pc = call[d].pc /\ call'[d].ctype = call[d].ctype
  PROVE  InertIsKnown'
  BY DEF InertIsKnown

\* What is stored under the catalogue are types of the platform.
LEMMA TypesAreKnown ==
  ASSUME TypeOK, NEW types \in TypesRead, Remember(types)
  PROVE  /\ types \subseteq Type /\ known' \subseteq Type
         /\ types # {} => types = known' \/ types = known
  BY DEF TypeOK, TypesRead, Remember

\* The round trip of a tool's name gives back the type it was listed for, or
\* its twin.
LEMMA NameComesBack ==
  ASSUME NEW types \in SUBSET Type, NEW t \in types
  PROVE  TypeOf(t.name, types) = t \/ Shadowed(t, types)
<1>1. /\ t.suffixed \in BOOLEAN
      /\ t = [name |-> t.name, suffixed |-> t.suffixed]
  BY TypeAssumption
<1>2. CASE t.suffixed
  <2>1. t = [name |-> t.name, suffixed |-> TRUE]
    BY <1>1, <1>2
  <2>2. QED
    BY <2>1 DEF TypeOf
<1>3. CASE ~t.suffixed
  <2>1. t = [name |-> t.name, suffixed |-> FALSE]
    BY <1>1, <1>3
  <2>2. QED
    BY <1>3, <2>1 DEF TypeOf, Shadowed
<1>4. QED
  BY <1>1, <1>2, <1>3

LEMMA TypeOfKeepsName ==
  ASSUME NEW name \in Name, NEW types
  PROVE  /\ TypeOf(name, types) \in [name : Name, suffixed : BOOLEAN]
         /\ TypeOf(name, types).name = name
  BY DEF TypeOf

LEMMA ListInstalledKeeps ==
  ASSUME ConnectorsInv, NEW c \in Caller, NEW got \in InstalledRead, ListInstalled(c, got),
         UNCHANGED <<installed, published, row, linked, warned>>
  PROVE  ConnectorsInv'
<1> DEFINE next == [Idle EXCEPT !.pc = "listTypes", !.turn = TRUE, !.snap = got, !.calm = TRUE]
<1>1. next \in Call /\ got = installed
  BY DEF ConnectorsInv, TypeOK, InstalledRead, ListInstalled, Idle, Call
<1>2. Sound(next, installed, known)
  BY <1>1 DEF Sound, Authorised, Faithful, Current, Idle
<1>3. Only(c, next) /\ known' = known /\ call[c].pc # "link"
  BY DEF ListInstalled
<1> HIDE DEF next
<1>4. /\ call' \in [Caller -> Call] /\ CallsSound'
      /\ \A d \in Caller \ {c} : call'[d] = call[d]
  BY <1>1, <1>2, <1>3, OnlyKeeps DEF ConnectorsInv
<1>5. InertIsKnown'
  BY <1>3, <1>4, ToolKeepsInert DEF ConnectorsInv
<1>6. QED
  BY <1>3, <1>4, <1>5 DEF ConnectorsInv, TypeOK

LEMMA ChooseKeeps ==
  ASSUME ConnectorsInv, NEW c \in Caller, Choose(c),
         UNCHANGED <<installed, published, row, linked, warned>>
  PROVE  ConnectorsInv'
<1>1. PICK next : /\ Only(c, next)
                  /\ \/ next = Idle
                     \/ \E t \in call[c].snap :
                          next = [call[c] EXCEPT !.pc = "types", !.name = t.name, !.spec = t]
  BY DEF Choose
<1>2. call[c] \in Call /\ call[c].pc = "offered" /\ known' = known
      /\ Sound(call[c], installed, known)
  BY DEF ConnectorsInv, TypeOK, CallsSound, Choose
<1>3. next \in Call /\ Sound(next, installed, known)
  <2>1. CASE next = Idle
    BY <2>1, IdleSound
  <2>2. ASSUME NEW t \in call[c].snap,
               next = [call[c] EXCEPT !.pc = "types", !.name = t.name, !.spec = t]
        PROVE  next \in Call /\ Sound(next, installed, known)
    <3>1. t \in Type /\ t.name \in Name
      BY <1>2, TypeAssumption DEF Call
    <3>2. next \in Call
      BY <1>2, <2>2, <3>1 DEF Call
    <3>3. Sound(next, installed, known)
      BY <1>2, <2>2, <3>1 DEF Call, Sound, Authorised, Faithful, Current
    <3>4. QED
      BY <3>2, <3>3
  <2>3. QED
    BY <1>1, <2>1, <2>2
<1>4. /\ call' \in [Caller -> Call] /\ CallsSound'
      /\ \A d \in Caller \ {c} : call'[d] = call[d]
  BY <1>1, <1>2, <1>3, OnlyKeeps DEF ConnectorsInv
<1>5. InertIsKnown'
  BY <1>2, <1>4, ToolKeepsInert DEF ConnectorsInv
<1>6. QED
  BY <1>2, <1>4, <1>5 DEF ConnectorsInv, TypeOK

\* The shape of every step that reads the catalogue.
LEMMA ReadKeeps ==
  ASSUME ConnectorsInv, NEW c \in Caller, NEW next \in Call, NEW types \in TypesRead,
         Remember(types), Move(c, next), Sound(next, installed, known'), call[c].pc # "link",
         UNCHANGED <<installed, published, row, linked, warned>>
  PROVE  ConnectorsInv'
<1>1. known' \subseteq Type
  BY TypesAreKnown DEF ConnectorsInv
<1>2. /\ call' \in [Caller -> Call] /\ CallsSound'
      /\ \A d \in Caller \ {c} : call'[d].pc = call[d].pc /\ call'[d].ctype = call[d].ctype
  BY MoveKeeps DEF ConnectorsInv
<1>3. InertIsKnown'
  BY <1>2, ToolKeepsInert DEF ConnectorsInv
<1>4. QED
  BY <1>1, <1>2, <1>3 DEF ConnectorsInv, TypeOK

LEMMA ListTypesKeeps ==
  ASSUME ConnectorsInv, NEW c \in Caller, NEW types \in TypesRead, ListTypes(c, types),
         UNCHANGED <<installed, published, row, linked, warned>>
  PROVE  ConnectorsInv'
<1> DEFINE offered == call[c].snap \cap types \cap SwitchedOn
           next == IF offered = {} THEN Idle
                   ELSE [call[c] EXCEPT !.pc = "offered", !.snap = offered]
<1>1. call[c] \in Call /\ call[c].pc = "listTypes" /\ Sound(call[c], installed, known)
  BY DEF ConnectorsInv, TypeOK, CallsSound, ListTypes
<1>2. Remember(types) /\ Move(c, next)
  BY DEF ListTypes
<1>3. next \in Call
  <2>1. offered \subseteq Type
    BY <1>1 DEF Call
  <2>2. [call[c] EXCEPT !.pc = "offered", !.snap = offered] \in Call
    BY <1>1, <2>1 DEF Call
  <2>3. QED
    BY <2>2, IdleSound
<1>4. Sound(next, installed, known')
  <2>1. CASE offered = {}
    BY <2>1, IdleSound
  <2>2. CASE offered # {}
    <3>1. types \subseteq known'
      BY <1>2, <2>2 DEF Remember, TypesRead
    <3>2. QED
      BY <1>1, <2>2, <3>1 DEF Call, Sound, Authorised, Faithful, Current
  <2>3. QED
    BY <2>1, <2>2
<1> HIDE DEF next
<1>5. QED
  BY <1>1, <1>2, <1>3, <1>4, ReadKeeps

LEMMA RequestKeeps ==
  ASSUME ConnectorsInv, NEW c \in Caller, NEW name \in Name, Request(c, name),
         UNCHANGED <<installed, published, row, linked, warned>>
  PROVE  ConnectorsInv'
<1> DEFINE next == [Idle EXCEPT !.pc = "get", !.name = name]
<1>1. next \in Call /\ Sound(next, installed, known)
  BY DEF Idle, Call, Sound, Authorised, Faithful, Current
<1>2. Only(c, next) /\ known' = known /\ call[c].pc # "link"
  BY DEF Request
<1> HIDE DEF next
<1>3. /\ call' \in [Caller -> Call] /\ CallsSound'
      /\ \A d \in Caller \ {c} : call'[d] = call[d]
  BY <1>1, <1>2, OnlyKeeps DEF ConnectorsInv
<1>4. InertIsKnown'
  BY <1>2, <1>3, ToolKeepsInert DEF ConnectorsInv
<1>5. QED
  BY <1>2, <1>3, <1>4 DEF ConnectorsInv, TypeOK

LEMMA GetKeeps ==
  ASSUME ConnectorsInv, NEW c \in Caller, NEW types \in TypesRead, Get(c, types),
         UNCHANGED <<installed, published, row, linked, warned>>
  PROVE  ConnectorsInv'
<1>1. call[c] \in Call /\ call[c].pc \in {"get", "getAgain"} /\ Remember(types)
  BY DEF ConnectorsInv, TypeOK, Get
<1>2. PICK next : /\ Step(c, next, types)
                  /\ next \in {Idle, [call[c] EXCEPT !.pc = "getAgain"],
                               [call[c] EXCEPT !.pc = "types"]}
  BY DEF Get
<1> DEFINE last == [next EXCEPT !.calm = @ /\ (known' = known /\ types = known)]
<1>3. /\ next \in Call /\ ~next.turn /\ next.pc \in {"idle", "getAgain", "types"}
      /\ next.pc # "idle" => next.name \in Name
  <2>1. ~call[c].turn /\ call[c].name \in Name
    BY <1>1 DEF ConnectorsInv, CallsSound, Sound, Faithful
  <2>2. CASE next = Idle
    BY <2>2, IdleSound DEF Idle
  <2>3. CASE next = [call[c] EXCEPT !.pc = "getAgain"]
    BY <1>1, <2>1, <2>3 DEF Call
  <2>4. CASE next = [call[c] EXCEPT !.pc = "types"]
    BY <1>1, <2>1, <2>4 DEF Call
  <2>5. QED
    BY <1>2, <2>2, <2>3, <2>4
<1>5. /\ Move(c, last)
      /\ last = [next EXCEPT !.calm = @ /\ (known' = known /\ types = known)]
  BY <1>2 DEF Step
<1> HIDE DEF last
<1>4. last \in Call /\ ~last.turn /\ last.pc = next.pc /\ last.name = next.name
  <2>1. (known' = known /\ types = known) \in BOOLEAN
    OBVIOUS
  <2>2. last \in Call /\ last.pc = next.pc
    BY <1>3, <1>5, <2>1, NoticeFields
  <2>3. last.turn = next.turn /\ last.name = next.name
    BY <1>3, <1>5, <2>1, NoticeRest
  <2>4. QED
    BY <1>3, <2>2, <2>3
<1>6. Sound(last, installed, known')
  BY <1>3, <1>4 DEF Sound, Authorised, Faithful, Current
<1>7. QED
  BY <1>1, <1>4, <1>5, <1>6, ReadKeeps

LEMMA ExecuteTypesKeeps ==
  ASSUME ConnectorsInv, NEW c \in Caller, NEW types \in TypesRead, ExecuteTypes(c, types),
         UNCHANGED <<installed, published, row, linked, warned>>
  PROVE  ConnectorsInv'
<1> DEFINE ctype == TypeOf(call[c].name, types)
           next == [call[c] EXCEPT !.pc = "check", !.ctype = ctype, !.was = ctype \in installed]
           last == [next EXCEPT !.calm = @ /\ (known' = known /\ types = known)]
<1>1. /\ call[c] \in Call /\ call[c].pc = "types" /\ Sound(call[c], installed, known)
      /\ Remember(types) /\ Step(c, next, types)
  BY DEF ConnectorsInv, TypeOK, CallsSound, ExecuteTypes
<1>2. /\ ctype \in [name : Name, suffixed : BOOLEAN] /\ ctype # None
      /\ ctype.name = call[c].name
  BY <1>1, TypeOfKeepsName, NoneAssumption DEF Sound, Faithful
<1>3. types \subseteq Type
  BY TypesAreKnown, <1>1 DEF ConnectorsInv
<1>4. call[c].turn /\ call[c].calm /\ types = known =>
        ctype = call[c].spec \/ Shadowed(call[c].spec, known)
  <2> SUFFICES ASSUME call[c].turn, call[c].calm, types = known
               PROVE  ctype = call[c].spec \/ Shadowed(call[c].spec, known)
    OBVIOUS
  <2>1. call[c].spec \in types /\ call[c].name = call[c].spec.name
    BY <1>1 DEF Sound, Faithful, Current
  <2>2. QED
    BY <1>3, <2>1, NameComesBack
<1> HIDE DEF ctype
<1>5. /\ next \in Call /\ next.pc = "check" /\ next.ctype = ctype
      /\ next.was = (ctype \in installed)
      /\ next.turn = call[c].turn /\ next.spec = call[c].spec
      /\ next.snap = call[c].snap /\ next.calm = call[c].calm
  <2>1. (ctype \in installed) \in BOOLEAN
    OBVIOUS
  <2>2. QED
    BY <1>1, <1>2, <2>1 DEF Call
<1> HIDE DEF next
<1>6. /\ Move(c, last)
      /\ last = [next EXCEPT !.calm = @ /\ (known' = known /\ types = known)]
  BY <1>1 DEF Step
<1> HIDE DEF last
<1>7. /\ last \in Call /\ last.pc = next.pc /\ last.ctype = next.ctype
      /\ last.turn = next.turn /\ last.spec = next.spec /\ last.snap = next.snap
      /\ last.was = next.was
      /\ last.calm => next.calm /\ known' = known /\ types = known
  <2>1. (known' = known /\ types = known) \in BOOLEAN
    OBVIOUS
  <2>2. last \in Call /\ last.pc = next.pc /\ last.ctype = next.ctype
    BY <1>5, <1>6, <2>1, NoticeFields
  <2>3. /\ last.turn = next.turn /\ last.spec = next.spec /\ last.snap = next.snap
        /\ last.was = next.was
    BY <1>5, <1>6, <2>1, NoticeRest
  <2>4. last.calm => next.calm /\ known' = known /\ types = known
    BY <1>5, <1>6, <2>1, NoticeCalm
  <2>5. QED
    BY <2>2, <2>3, <2>4
<1>8. Sound(last, installed, known')
  <2>1. Authorised(last, installed)
    BY <1>5, <1>7 DEF Authorised
  <2>2. Faithful(last)
    BY <1>1, <1>2, <1>5, <1>7 DEF Sound, Faithful
  <2>3. Current(last, installed, known')
    BY <1>1, <1>4, <1>5, <1>7 DEF Sound, Current
  <2>4. QED
    BY <2>1, <2>2, <2>3 DEF Sound
<1>9. QED
  BY <1>1, <1>6, <1>7, <1>8, ReadKeeps, <1>5

LEMMA CheckKeeps ==
  ASSUME ConnectorsInv, NEW c \in Caller, NEW got \in InstalledRead, Check(c, got),
         UNCHANGED <<installed, published, row, linked, warned>>
  PROVE  ConnectorsInv'
<1> DEFINE next == [call[c] EXCEPT !.pc = IF call[c].ctype \in got THEN "post" ELSE "refused",
                                   !.calm = @ /\ got = installed]
<1>1. /\ call[c] \in Call /\ call[c].pc = "check" /\ Sound(call[c], installed, known)
      /\ Only(c, next) /\ known' = known /\ got \subseteq installed /\ installed \subseteq Type
  BY DEF ConnectorsInv, TypeOK, CallsSound, Check, InstalledRead
<1>2. next \in Call
  <2>1. (call[c].calm /\ got = installed) \in BOOLEAN
    OBVIOUS
  <2>2. QED
    BY <1>1, <2>1 DEF Call
<1>3. call[c].turn => call[c].ctype.name = call[c].spec.name /\ call[c].spec \in call[c].snap
  BY <1>1 DEF Sound, Faithful
<1>4. call[c].turn /\ call[c].calm /\ got = installed =>
        call[c].ctype \in got \/ Shadowed(call[c].spec, known)
  BY <1>1 DEF Sound, Faithful, Current
<1>5. Sound(next, installed, known)
  BY <1>1, <1>3, <1>4 DEF Call, Sound, Authorised, Faithful, Current
<1> HIDE DEF next
<1>6. /\ call' \in [Caller -> Call] /\ CallsSound'
      /\ \A d \in Caller \ {c} : call'[d] = call[d]
  BY <1>1, <1>2, <1>5, OnlyKeeps DEF ConnectorsInv
<1>7. InertIsKnown'
  BY <1>1, <1>6, ToolKeepsInert DEF ConnectorsInv
<1>8. QED
  BY <1>1, <1>6, <1>7 DEF ConnectorsInv, TypeOK

LEMMA FinishKeeps ==
  ASSUME ConnectorsInv, NEW c \in Caller, Finish(c),
         UNCHANGED <<installed, published, row, linked, warned>>
  PROVE  ConnectorsInv'
<1>1. /\ call[c] \in Call /\ call[c].pc \in {"post", "refused"}
      /\ Sound(call[c], installed, known) /\ Only(c, Back(c)) /\ known' = known
  BY DEF ConnectorsInv, TypeOK, CallsSound, Finish
<1>2. Back(c) \in Call /\ Sound(Back(c), installed, known)
  <2>1. CASE call[c].turn
    BY <1>1, <2>1 DEF Back, Call, Sound, Authorised, Faithful, Current
  <2>2. CASE ~call[c].turn
    BY <2>2, IdleSound DEF Back
  <2>3. QED
    BY <2>1, <2>2
<1>3. /\ call' \in [Caller -> Call] /\ CallsSound'
      /\ \A d \in Caller \ {c} : call'[d] = call[d]
  BY <1>1, <1>2, OnlyKeeps DEF ConnectorsInv
<1>4. InertIsKnown'
  BY <1>1, <1>3, ToolKeepsInert DEF ConnectorsInv
<1>5. QED
  BY <1>1, <1>3, <1>4 DEF ConnectorsInv, TypeOK

-----------------------------------------------------------------------------
(* shielva_set_bot_capability                                              *)

\* Its steps before the PUT keep the row and the link as they are.
LEMMA BindKeeps ==
  ASSUME ConnectorsInv, NEW c \in Caller, NEW next \in Call, Only(c, next),
         Sound(next, installed, known), call[c].pc # "link",
         UNCHANGED <<installed, published, known, row, linked, warned>>
  PROVE  ConnectorsInv'
<1>1. /\ call' \in [Caller -> Call] /\ CallsSound'
      /\ \A d \in Caller \ {c} : call'[d] = call[d]
  BY OnlyKeeps DEF ConnectorsInv
<1>2. InertIsKnown'
  BY <1>1, ToolKeepsInert DEF ConnectorsInv
<1>3. QED
  BY <1>1, <1>2 DEF ConnectorsInv, TypeOK

LEMMA SetCapabilityKeeps ==
  ASSUME ConnectorsInv, NEW c \in Caller, NEW enabled \in BOOLEAN, NEW connector \in Named \cup {None},
         SetCapability(c, enabled, connector), UNCHANGED <<installed, published>>
  PROVE  ConnectorsInv'
<1> DEFINE next == [Idle EXCEPT !.pc = "put", !.enabled = enabled, !.ctype = connector]
<1>1. connector \in Type \cup {None} /\ connector \in [name : Name, suffixed : BOOLEAN] \cup {None}
  BY TypeAssumption
<1>2. /\ Only(c, next) /\ call[c].pc = "idle" /\ (enabled \/ connector = None)
      /\ UNCHANGED <<known, row, linked, warned>>
  BY DEF SetCapability
<1>3. next \in Call
  BY <1>1 DEF Idle, Call
<1>4. Sound(next, installed, known)
  BY <1>1, <1>2 DEF Idle, Sound, Authorised, Faithful, Current
<1> HIDE DEF next
<1>5. QED
  BY <1>2, <1>3, <1>4, BindKeeps

LEMMA ProvidersInstalledKeeps ==
  ASSUME ConnectorsInv, NEW c \in Caller, NEW got \in InstalledRead,
         ProvidersInstalled(c, got), UNCHANGED <<installed, published>>
  PROVE  ConnectorsInv'
<1> DEFINE next == [Idle EXCEPT !.pc = "providers", !.enabled = TRUE, !.snap = got]
<1>1. /\ Only(c, next) /\ call[c].pc = "idle" /\ got \subseteq Type
      /\ UNCHANGED <<known, row, linked, warned>>
  BY DEF ProvidersInstalled, InstalledRead, ConnectorsInv, TypeOK
<1>2. next \in Call /\ Sound(next, installed, known)
  BY <1>1 DEF Idle, Call, Sound, Authorised, Faithful, Current
<1> HIDE DEF next
<1>3. QED
  BY <1>1, <1>2, BindKeeps

LEMMA ProvidersTypesKeeps ==
  ASSUME ConnectorsInv, NEW c \in Caller, NEW types \in SUBSET Type,
         ProvidersTypes(c, types), UNCHANGED <<installed, published>>
  PROVE  ConnectorsInv'
<1>1. PICK next : /\ Only(c, next)
                  /\ \/ next = Idle
                     \/ \E t \in types : next = [call[c] EXCEPT !.pc = "put", !.ctype = t, !.snap = {}]
  BY DEF ProvidersTypes
<1>2. /\ call[c] \in Call /\ call[c].pc = "providers" /\ Sound(call[c], installed, known)
      /\ UNCHANGED <<known, row, linked, warned>>
  BY DEF ProvidersTypes, ConnectorsInv, TypeOK, CallsSound
<1>3. next \in Call /\ Sound(next, installed, known)
  <2>1. CASE next = Idle
    BY <2>1, IdleSound
  <2>2. ASSUME NEW t \in types, next = [call[c] EXCEPT !.pc = "put", !.ctype = t, !.snap = {}]
        PROVE  next \in Call /\ Sound(next, installed, known)
    <3>1. t \in [name : Name, suffixed : BOOLEAN]
      BY TypeAssumption
    <3>2. next \in Call
      BY <1>2, <2>2, <3>1 DEF Call
    <3>3. Sound(next, installed, known)
      BY <1>2, <2>2 DEF Call, Sound, Authorised, Faithful, Current
    <3>4. QED
      BY <3>2, <3>3
  <2>3. QED
    BY <1>1, <2>1, <2>2
<1>4. QED
  BY <1>1, <1>2, <1>3, BindKeeps

\* A stored provider is linked next, or its caller has been told it failed.
LEMMA PutKeeps ==
  ASSUME ConnectorsInv, NEW c \in Caller, NEW done \in BOOLEAN, NEW answered \in BOOLEAN,
         Put(c, done, answered), UNCHANGED <<installed, published>>
  PROVE  ConnectorsInv'
<1> DEFINE next == IF done /\ answered /\ call[c].enabled /\ call[c].ctype # None
                   THEN [call[c] EXCEPT !.pc = "link"] ELSE Idle
<1>1. /\ call[c] \in Call /\ call[c].pc = "put" /\ Sound(call[c], installed, known)
      /\ Only(c, next) /\ UNCHANGED <<known, linked>>
  BY DEF Put, ConnectorsInv, TypeOK, CallsSound
<1>2. call[c].ctype \in Type \cup {None} /\ (call[c].enabled \/ call[c].ctype = None)
  BY <1>1 DEF Sound, Authorised
<1>3. next \in Call /\ Sound(next, installed, known)
  <2>1. CASE next = Idle
    BY <2>1, IdleSound
  <2>2. CASE next = [call[c] EXCEPT !.pc = "link"] /\ call[c].ctype # None
    BY <1>1, <1>2, <2>2 DEF Call, Sound, Authorised, Faithful, Current
  <2>3. QED
    BY <2>1, <2>2
<1>4. done /\ answered /\ call[c].ctype # None => next.pc = "link" /\ next.ctype = call[c].ctype
  BY <1>1, <1>2 DEF Call
<1> HIDE DEF next
<1>5. /\ call' \in [Caller -> Call] /\ CallsSound' /\ call'[c] = next
      /\ \A d \in Caller \ {c} : call'[d] = call[d]
  BY <1>1, <1>3, OnlyKeeps DEF ConnectorsInv
<1>6. row' \in Type \cup {None} /\ warned' \in BOOLEAN
  BY <1>2 DEF Put, ConnectorsInv, TypeOK
<1>7. InertIsKnown'
  <2>1. CASE done
    <3>1. row' = call[c].ctype /\ warned' = ~answered
      BY <2>1 DEF Put
    <3>2. QED
      BY <2>1, <3>1, <1>4, <1>5 DEF InertIsKnown
  <2>2. CASE ~done
    <3>1. row' = row /\ warned' = warned
      BY <2>2 DEF Put
    <3>2. QED
      BY <3>1, <1>1, <1>5 DEF InertIsKnown, ConnectorsInv
  <2>3. QED
    BY <2>1, <2>2
<1>8. QED
  BY <1>1, <1>5, <1>6, <1>7 DEF ConnectorsInv, TypeOK

\* A link that fails is reported by the call that chose the provider.
LEMMA LinkKeeps ==
  ASSUME ConnectorsInv, NEW c \in Caller, NEW done \in BOOLEAN, NEW answered \in BOOLEAN,
         Link(c, done, answered), UNCHANGED <<installed, published>>
  PROVE  ConnectorsInv'
<1>1. /\ call[c] \in Call /\ call[c].pc = "link" /\ Sound(call[c], installed, known)
      /\ Only(c, Idle) /\ UNCHANGED <<known, row>>
  BY DEF Link, ConnectorsInv, TypeOK, CallsSound
<1>2. call[c].ctype \in Type
  BY <1>1 DEF Sound, Authorised
<1>3. /\ call' \in [Caller -> Call] /\ CallsSound'
      /\ \A d \in Caller \ {c} : call'[d] = call[d]
  BY <1>1, IdleSound, OnlyKeeps DEF ConnectorsInv
<1>4. linked' \subseteq Type /\ warned' \in BOOLEAN
  BY <1>2 DEF Link, ConnectorsInv, TypeOK
<1>5. InertIsKnown'
  <2>1. CASE row = call[c].ctype
    <3>1. done => row \in linked'
      BY <2>1 DEF Link
    <3>2. ~done => warned'
      BY <2>1 DEF Link
    <3>3. QED
      BY <1>1, <3>1, <3>2 DEF InertIsKnown
  <2>2. CASE row # call[c].ctype
    <3>1. warned' = warned /\ linked \subseteq linked'
      BY <2>2 DEF Link, ConnectorsInv, TypeOK
    <3>2. QED
      BY <1>1, <1>3, <2>2, <3>1 DEF InertIsKnown, ConnectorsInv
  <2>3. QED
    BY <2>1, <2>2
<1>6. QED
  BY <1>1, <1>3, <1>4, <1>5 DEF ConnectorsInv, TypeOK

-----------------------------------------------------------------------------
(* People and the runtime                                                  *)

LEMMA ReinstallKeeps ==
  ASSUME ConnectorsInv, Reinstall
  PROVE  ConnectorsInv'
<1> DEFINE moved(c) == [call[c] EXCEPT !.calm = FALSE,
                          !.was = @ \/ (call[c].pc = "check" /\ call[c].ctype \in installed')]
<1>1. /\ installed' \subseteq Type /\ UNCHANGED <<published, known, row, linked, warned>>
      /\ call' = [c \in Caller |-> moved(c)]
  BY DEF Reinstall, ConnectorsInv, TypeOK
<1>2. ASSUME NEW c \in Caller
      PROVE  /\ moved(c) \in Call /\ moved(c).pc = call[c].pc /\ moved(c).ctype = call[c].ctype
             /\ Sound(moved(c), installed', known)
  <2>1. call[c] \in Call /\ Sound(call[c], installed, known)
    BY DEF ConnectorsInv, TypeOK, CallsSound
  <2>2. (call[c].was \/ (call[c].pc = "check" /\ call[c].ctype \in installed')) \in BOOLEAN
    OBVIOUS
  <2>3. moved(c) \in Call /\ moved(c).pc = call[c].pc /\ moved(c).ctype = call[c].ctype
    BY <2>1, <2>2 DEF Call
  <2>4. Sound(moved(c), installed', known)
    BY <2>1, <2>2 DEF Call, Sound, Authorised, Faithful, Current
  <2>5. QED
    BY <2>3, <2>4
<1> HIDE DEF moved
<1>3. call' \in [Caller -> Call] /\ CallsSound'
  BY <1>1, <1>2 DEF CallsSound
<1>4. InertIsKnown'
  BY <1>1, <1>2 DEF InertIsKnown, ConnectorsInv
<1>5. QED
  BY <1>1, <1>3, <1>4 DEF ConnectorsInv, TypeOK

LEMMA PublishKeeps ==
  ASSUME ConnectorsInv, Publish
  PROVE  ConnectorsInv'
  BY DEF Publish, ConnectorsInv, TypeOK, CallsSound, InertIsKnown

LEMMA UnlinkKeeps ==
  ASSUME ConnectorsInv, Unlink
  PROVE  ConnectorsInv'
<1>1. PICK t \in linked : linked' = linked \ {t} /\ warned' = (warned \/ row = t)
  BY DEF Unlink
<1>2. UNCHANGED <<installed, published, known, row, call>>
  BY DEF Unlink
<1>3. warned' \in BOOLEAN
  BY <1>1
<1>4. InertIsKnown'
  BY <1>1, <1>2 DEF ConnectorsInv, InertIsKnown
<1>5. QED
  BY <1>1, <1>2, <1>3, <1>4 DEF ConnectorsInv, TypeOK, CallsSound

-----------------------------------------------------------------------------
(* The theorems                                                            *)

LEMMA InitEstablishesInv == Init => ConnectorsInv
  BY IdleSound DEF Init, ConnectorsInv, TypeOK, CallsSound, InertIsKnown

LEMMA NextKeepsInv == ConnectorsInv /\ [Next]_vars => ConnectorsInv'
<1> SUFFICES ASSUME ConnectorsInv, [Next]_vars
             PROVE  ConnectorsInv'
  OBVIOUS
<1>1. ASSUME NEW c \in Caller, UseTool(c), UNCHANGED <<installed, published>>
      PROVE  ConnectorsInv'
  BY <1>1, ListInstalledKeeps, ListTypesKeeps, ChooseKeeps, RequestKeeps, GetKeeps,
     ExecuteTypesKeeps, CheckKeeps, FinishKeeps DEF UseTool
<1>2. ASSUME NEW c \in Caller, Bind(c), UNCHANGED <<installed, published>>
      PROVE  ConnectorsInv'
  BY <1>2, SetCapabilityKeeps, ProvidersInstalledKeeps, ProvidersTypesKeeps, PutKeeps, LinkKeeps
     DEF Bind
<1>3. CASE UNCHANGED vars
  BY <1>3 DEF vars, ConnectorsInv, TypeOK, CallsSound, InertIsKnown
<1>4. QED
  BY <1>1, <1>2, <1>3, ReinstallKeeps, PublishKeeps, UnlinkKeeps DEF Next

\* The calls in flight always know what they may run, and no provider is stored
\* without a link, a caller about to make it, or somebody who was told.
THEOREM ConnectorsInvariant == Spec => []ConnectorsInv
  BY InitEstablishesInv, NextKeepsInv, PTL DEF Spec

\* Every reachable state is well typed, for any callers and connector types.
THEOREM ConnectorsTypeCorrect == Spec => []TypeOK
<1>1. ConnectorsInv => TypeOK
  BY DEF ConnectorsInv
<1>2. QED
  BY <1>1, ConnectorsInvariant, PTL

\* Whatever was listed, guessed or cached, and however often connectors come
\* and go, execute only runs a connector that was installed during the call.
THEOREM OnlyInstalledRuns == Spec => []RunsOnlyInstalled
<1>1. ConnectorsInv => RunsOnlyInstalled
  BY DEF ConnectorsInv, CallsSound, Sound, Authorised, RunsOnlyInstalled
<1>2. QED
  BY <1>1, ConnectorsInvariant, PTL

\* A tool's name leads back to the connector it was listed for: always to one
\* of its name, and while nothing moves to the very one, or to its twin.
THEOREM ListedIsRun == Spec => []OnlyTwinsStandIn
<1>1. ConnectorsInv => OnlyTwinsStandIn
  BY DEF ConnectorsInv, CallsSound, Sound, Faithful, Current, OnlyTwinsStandIn
<1>2. QED
  BY <1>1, ConnectorsInvariant, PTL

\* A tool that was offered is not refused as long as nothing moves, unless the
\* catalogue finds a twin behind its name.
THEOREM OfferedRuns == Spec => []RefusedForAReason
<1>1. ConnectorsInv => RefusedForAReason
  BY DEF ConnectorsInv, CallsSound, Sound, Current, RefusedForAReason
<1>2. QED
  BY <1>1, ConnectorsInvariant, PTL

\* However calls of shielva_set_bot_capability overlap and fail, a provider
\* the bot may not call is about to be linked or somebody was told.
THEOREM NeverInertInSilence == Spec => []InertIsKnown
<1>1. ConnectorsInv => InertIsKnown
  BY DEF ConnectorsInv
<1>2. QED
  BY <1>1, ConnectorsInvariant, PTL
=============================================================================
