------------------------- MODULE SourceCachesProofs -------------------------
(***************************************************************************)
(* Proofs about SourceCaches, for any number of callers, any versions, any *)
(* time to live and any timeout.  CachesInv ties every copy of a fact, in  *)
(* the entry or in flight, to a moment at which its owner held it.         *)
(***************************************************************************)
EXTENDS SourceCaches, TLAPS

-----------------------------------------------------------------------------
(* The inductive invariant *)

\* How much older than its stamp an entry may be.
Slack == IF kind \in {"llm", "types"} THEN 0 ELSE MaxLatency

Remembered(v, t) == kind = "llm" /\ v = Fallback /\ failed >= 0 /\ failed >= t

CacheSound ==
  cache # None =>
    /\ HeldSince(cache.value, cache.at - Slack) \/ Remembered(cache.value, cache.at)
    /\ kind = "types" => cache.value # Fallback

\* What a running get carries.
FlightSound(c) ==
  /\ Heard(c) => caller[c].value \in Versions /\ HeldSince(caller[c].value, caller[c].at)
  /\ Running(c) => caller[c].how = "none"
  /\ kind = "types" /\ Running(c) /\ c \in shown => caller[c].kept # Fallback
  /\ kind = "types" /\ Running(c) /\ caller[c].kept # Fallback => cache # None

\* What a get that returned said.
AnswerSound(c) ==
  /\ caller[c].how = "hit" =>
       \/ HeldSince(caller[c].value, caller[c].at - HitAge)
       \/ Remembered(caller[c].value, caller[c].at - HitAge)
  /\ kind # "types" /\ caller[c].how # "none" /\ caller[c].value # Fallback =>
       HeldSince(caller[c].value, caller[c].at - Ttl - MaxLatency)
  /\ c \in shown /\ caller[c].how = "failed" => caller[c].value # Fallback

CallersSound == \A c \in Caller : FlightSound(c) /\ AnswerSound(c)

HistorySound ==
  /\ held[source] = now
  /\ shown # {} => kind = "types" /\ cache # None

CachesInv == TypeOK /\ CacheSound /\ CallersSound /\ HistorySound

-----------------------------------------------------------------------------
(* What the steps of a get do *)

LEMMA HitAgeFacts ==
  ASSUME TypeOK
  PROVE  /\ HitAge \in Int
         /\ kind' = kind => HitAge' = HitAge
  BY TimesAssumption DEF TypeOK, Kinds, HitAge

LEMMA TellFacts ==
  ASSUME TypeOK, NEW c \in Caller, NEW v \in Version, NEW how \in {"hit", "read", "failed"},
         Tell(c, v, how)
  PROVE  /\ caller' \in [Caller -> Get]
         /\ \A d \in Caller \ {c} : caller'[d] = caller[d]
         /\ caller'[c].pc = "told" /\ caller'[c].at = now
         /\ caller'[c].value = v /\ caller'[c].how = how
  BY VersionAssumption DEF TypeOK, Get, Tell

LEMMA AskFacts ==
  ASSUME TypeOK, NEW c \in Caller, NEW kept \in Version, Ask(c, kept)
  PROVE  /\ caller' \in [Caller -> Get]
         /\ \A d \in Caller \ {c} : caller'[d] = caller[d]
         /\ caller'[c].pc = "asking" /\ caller'[c].at = now
         /\ caller'[c].kept = kept /\ caller'[c].how = "none"
         /\ shown' = shown
  BY VersionAssumption DEF TypeOK, Get, Ask

LEMMA StoreFacts ==
  ASSUME TypeOK, NEW at \in 0..now, NEW v \in Versions \ {Refusal}, Store(at, v)
  PROVE  /\ cache' \in [at : 0..now, value : Versions \ {Refusal}]
         /\ cache' # None /\ cache'.at = at /\ cache'.value = v
<1>1. now \in Nat
  BY DEF TypeOK
<1>2. Versions \subseteq Version
  BY DEF Versions
<1>3. cache' \in [at : 0..now, value : Versions \ {Refusal}]
  BY DEF Store
<1>4. cache' \in [at : Int, value : Version]
  BY <1>1, <1>2, <1>3
<1>5. QED
  BY <1>3, <1>4, NoneAssumption DEF Store

-----------------------------------------------------------------------------
(* A get that returns keeps the invariant when what it stores and what it  *)
(* says are sound.                                                         *)

LEMMA ToldKeepsInv ==
  ASSUME CachesInv, NEW c \in Caller, NEW v \in Version, NEW how \in {"hit", "read", "failed"},
         Tell(c, v, how),
         UNCHANGED <<kind, now, source, held>>,
         failed' \in {failed, now},
         cache' \in [at : 0..now, value : Versions \ {Refusal}] \cup {None},
         CacheSound',
         cache # None => cache' # None,
         kind = "types" /\ v # Fallback => cache' # None,
         AnswerSound(c)'
  PROVE  CachesInv'
<1>1. /\ caller' \in [Caller -> Get]
      /\ \A d \in Caller \ {c} : caller'[d] = caller[d]
      /\ caller'[c].pc = "told" /\ caller'[c].at = now
      /\ caller'[c].value = v /\ caller'[c].how = how
  BY TellFacts DEF CachesInv
<1>2. now \in Nat /\ failed \in Int /\ failed' >= failed
  BY DEF CachesInv, TypeOK
<1>3. shown' \subseteq Caller /\ shown \subseteq shown' /\ shown' \subseteq shown \cup {c}
  BY DEF CachesInv, TypeOK, Tell
<1>4. TypeOK'
  BY <1>1, <1>2, <1>3 DEF CachesInv, TypeOK, Running, Versions
<1>5. CallersSound'
  <2> SUFFICES ASSUME NEW d \in Caller
               PROVE  (FlightSound(d) /\ AnswerSound(d))'
    BY DEF CallersSound
  <2>1. CASE d = c
    BY <2>1, <1>1 DEF FlightSound, Heard, Running
  <2>2. CASE d # c
    <3>1. FlightSound(d) /\ AnswerSound(d) /\ caller'[d] = caller[d]
      BY <1>1, <2>2 DEF CachesInv, CallersSound
    <3>2. d \in shown' => d \in shown
      BY <1>3, <2>2
    <3>3. caller[d] \in Get
      BY DEF CachesInv, TypeOK
    <3>4. FlightSound(d)'
      BY <3>1, <3>2 DEF FlightSound, Heard, Running, Versions, HeldSince
    <3>5. HitAge \in Int /\ HitAge' = HitAge
      BY HitAgeFacts DEF CachesInv
    <3>6. caller[d].at - HitAge \in Int
      BY <3>3, <3>5 DEF Get
    <3>7. Remembered(caller[d].value, caller[d].at - HitAge) =>
            Remembered(caller[d].value, caller[d].at - HitAge)'
      BY <3>1, <3>5, <3>6, <1>2 DEF Remembered
    <3>8. AnswerSound(d)'
      BY <3>1, <3>2, <3>5, <3>7 DEF AnswerSound, HeldSince
    <3>9. QED
      BY <3>4, <3>8
  <2>3. QED
    BY <2>1, <2>2
<1>6. HistorySound'
  BY <1>3 DEF CachesInv, HistorySound, Tell
<1>7. QED
  BY <1>4, <1>5, <1>6 DEF CachesInv

LEMMA AskedKeepsInv ==
  ASSUME CachesInv, NEW c \in Caller, NEW kept \in Version,
         Ask(c, kept),
         UNCHANGED <<kind, now, source, held, failed>>,
         cache' = cache \/ (cache' = None /\ kind # "types"),
         kind = "types" => kept = IF cache = None THEN Fallback ELSE cache.value
  PROVE  CachesInv'
<1>1. /\ caller' \in [Caller -> Get]
      /\ \A d \in Caller \ {c} : caller'[d] = caller[d]
      /\ caller'[c].pc = "asking" /\ caller'[c].at = now
      /\ caller'[c].kept = kept /\ caller'[c].how = "none"
      /\ shown' = shown
  BY AskFacts DEF CachesInv
<1>2. now \in Nat
  BY DEF CachesInv, TypeOK
<1>3. TypeOK'
  BY <1>1, <1>2, TimesAssumption DEF CachesInv, TypeOK, Running, Versions
<1>4. CacheSound'
  BY DEF CachesInv, CacheSound, Slack, Remembered, HeldSince
<1>5. CallersSound'
  <2> SUFFICES ASSUME NEW d \in Caller
               PROVE  (FlightSound(d) /\ AnswerSound(d))'
    BY DEF CallersSound
  <2>1. CASE d = c
    <3>1. FlightSound(c)'
      BY <1>1 DEF CachesInv, CacheSound, HistorySound, FlightSound, Heard, Running
    <3>2. AnswerSound(c)'
      BY <1>1 DEF AnswerSound
    <3>3. QED
      BY <3>1, <3>2, <2>1
  <2>2. CASE d # c
    <3>1. FlightSound(d) /\ AnswerSound(d) /\ caller'[d] = caller[d]
      BY <1>1, <2>2 DEF CachesInv, CallersSound
    <3>2. FlightSound(d)'
      BY <3>1, <1>1 DEF FlightSound, Heard, Running, Versions, HeldSince
    <3>3. AnswerSound(d)'
      BY <3>1, <1>1 DEF AnswerSound, HeldSince, Remembered, HitAge
    <3>4. QED
      BY <3>2, <3>3
  <2>3. QED
    BY <2>1, <2>2
<1>6. HistorySound'
  BY <1>1 DEF CachesInv, HistorySound
<1>7. QED
  BY <1>3, <1>4, <1>5, <1>6 DEF CachesInv

-----------------------------------------------------------------------------
(* One lemma per kind of step                                              *)

\* An entry younger than age answers no older than its bound.
LEMMA HitKeepsInv ==
  ASSUME CachesInv, NEW c \in Caller, NEW age \in Int,
         Younger(age), Hit(c), age - 1 + Slack <= HitAge,
         UNCHANGED <<kind, now, source, held, failed>>
  PROVE  CachesInv'
<1>1. /\ cache \in [at : 0..now, value : Versions \ {Refusal}]
      /\ cache # None /\ now - cache.at < age
      /\ now \in Nat
  BY DEF CachesInv, TypeOK, Younger
<1>2. HitAge \in Int /\ HitAge' = HitAge
  BY HitAgeFacts DEF CachesInv
<1>3. Slack \in Nat
  BY TimesAssumption DEF Slack
<1>4. cache.value \in Version /\ cache.at \in Int
  BY <1>1 DEF Versions
<1>5. cache.at >= now - HitAge /\ cache.at - Slack >= now - HitAge
  BY <1>1, <1>2, <1>3, <1>4
<1>6. /\ Tell(c, cache.value, "hit") /\ cache' = cache
      /\ caller'[c].at = now /\ caller'[c].value = cache.value /\ caller'[c].how = "hit"
  BY <1>4, TellFacts DEF CachesInv, Hit
<1>7. held[cache.value] \in Int /\ failed \in Int
  BY <1>4 DEF CachesInv, TypeOK
<1>8. \/ HeldSince(cache.value, now - HitAge)
      \/ Remembered(cache.value, now - HitAge)
  BY <1>1, <1>2, <1>3, <1>4, <1>5, <1>7 DEF CachesInv, CacheSound, HeldSince, Remembered
<1>9. now - HitAge >= now - Ttl - MaxLatency
  BY <1>1, TimesAssumption DEF CachesInv, TypeOK, Kinds, HitAge
<1>10. AnswerSound(c)'
  <2>1. caller'[c].how = "hit" =>
          \/ HeldSince(caller[c].value, caller[c].at - HitAge)'
          \/ Remembered(caller[c].value, caller[c].at - HitAge)'
    BY <1>2, <1>6, <1>8 DEF HeldSince, Remembered
  <2>2. caller'[c].value # Fallback => HeldSince(caller[c].value, caller[c].at - Ttl - MaxLatency)'
    BY <1>1, <1>2, <1>6, <1>7, <1>8, <1>9, TimesAssumption DEF HeldSince, Remembered
  <2>3. QED
    BY <2>1, <2>2, <1>6 DEF AnswerSound
<1>11. CacheSound'
  BY <1>6 DEF CachesInv, CacheSound, Slack, HeldSince, Remembered
<1>12. QED
  BY <1>1, <1>4, <1>6, <1>10, <1>11, ToldKeepsInv DEF CachesInv, TypeOK

\* What a get heard is sound to say, and to keep under a sound stamp.
LEMMA HeardFacts ==
  ASSUME CachesInv, NEW c \in Caller, Heard(c)
  PROVE  /\ caller[c].value \in Versions /\ caller[c].value \in Version
         /\ caller[c].at \in 0..now /\ now - caller[c].at <= MaxLatency
         /\ held[caller[c].value] >= 0 /\ held[caller[c].value] >= caller[c].at
         /\ held[caller[c].value] \in Int
<1>1. FlightSound(c)
  BY DEF CachesInv, CallersSound
<1>2. caller[c].value \in Versions /\ HeldSince(caller[c].value, caller[c].at)
  BY <1>1 DEF FlightSound
<1>3. caller[c].value \in Version
  BY <1>2 DEF Versions
<1>4. QED
  BY <1>2, <1>3, TimesAssumption DEF CachesInv, TypeOK, HeldSince, Heard, Running

LEMMA ReadKeepsInv ==
  ASSUME CachesInv, NEW c \in Caller, Heard(c),
         Tell(c, caller[c].value, "read"),
         UNCHANGED <<kind, now, source, held, failed>>,
         \/ cache' = cache /\ (kind = "types" => caller[c].value = Fallback)
         \/ /\ caller[c].value # Refusal
            /\ kind = "types" => caller[c].value # Fallback
            /\ \/ Store(caller[c].at, caller[c].value)
               \/ kind \notin {"llm", "types"} /\ Store(now, caller[c].value)
  PROVE  CachesInv'
<1>1. /\ caller[c].value \in Versions /\ caller[c].value \in Version
      /\ caller[c].at \in 0..now /\ now - caller[c].at <= MaxLatency
      /\ held[caller[c].value] >= 0 /\ held[caller[c].value] >= caller[c].at
      /\ held[caller[c].value] \in Int
  BY HeardFacts
<1>2. /\ now \in Nat /\ MaxLatency \in Nat /\ Ttl \in Nat
      /\ now \in 0..now
  BY TimesAssumption DEF CachesInv, TypeOK
<1>3. /\ caller'[c].at = now /\ caller'[c].value = caller[c].value
      /\ caller'[c].how = "read"
  BY <1>1, TellFacts DEF CachesInv
<1>4. AnswerSound(c)'
  <2>1. now - Ttl - MaxLatency <= caller[c].at
    BY <1>1, <1>2
  <2>2. HeldSince(caller[c].value, caller[c].at - Ttl - MaxLatency)'
    BY <2>1, <1>1, <1>2, <1>3 DEF HeldSince
  <2>3. QED
    BY <2>2, <1>3 DEF AnswerSound
<1>5. CASE cache' = cache /\ (kind = "types" => caller[c].value = Fallback)
  <2>1. CacheSound'
    BY <1>5 DEF CachesInv, CacheSound, Slack, HeldSince, Remembered
  <2>2. QED
    BY <2>1, <1>1, <1>4, <1>5, ToldKeepsInv DEF CachesInv, TypeOK
<1>6. CASE /\ caller[c].value # Refusal
           /\ kind = "types" => caller[c].value # Fallback
           /\ \/ Store(caller[c].at, caller[c].value)
              \/ kind \notin {"llm", "types"} /\ Store(now, caller[c].value)
  <2>1. PICK at \in 0..now : /\ Store(at, caller[c].value)
                             /\ \/ at = caller[c].at
                                \/ at = now /\ kind \notin {"llm", "types"}
    BY <1>1, <1>2, <1>6
  <2>2. /\ cache' \in [at : 0..now, value : Versions \ {Refusal}]
        /\ cache' # None /\ cache'.at = at /\ cache'.value = caller[c].value
    BY <2>1, <1>1, <1>6, StoreFacts DEF CachesInv
  <2>3. at - Slack <= caller[c].at
    BY <2>1, <1>1, <1>2 DEF Slack
  <2>4. HeldSince(cache.value, cache.at - Slack)'
    BY <2>2, <2>3, <1>1, <1>2 DEF HeldSince, Slack
  <2>5. CacheSound'
    BY <2>4, <2>2, <1>6 DEF CacheSound
  <2>6. QED
    BY <2>2, <2>5, <1>1, <1>4, ToldKeepsInv
<1>7. QED
  BY <1>5, <1>6

\* A failed get says the fallback, or the catalogue it read before the await.
LEMMA FailureKeepsInv ==
  ASSUME CachesInv, NEW c \in Caller, Running(c), NEW v \in Version,
         Tell(c, v, "failed"), failed' = now,
         UNCHANGED <<kind, now, source, held>>,
         v = Fallback \/ kind = "types",
         kind = "types" => v = caller[c].kept,
         \/ cache' = cache
         \/ kind = "llm" /\ Store(caller[c].at, Fallback)
  PROVE  CachesInv'
<1>1. /\ now \in Nat /\ failed \in Int /\ failed <= now
      /\ caller[c].at \in 0..now /\ FlightSound(c)
  BY DEF CachesInv, TypeOK, CallersSound
<1>2. /\ caller'[c].at = now /\ caller'[c].value = v /\ caller'[c].how = "failed"
  BY TellFacts DEF CachesInv
<1>3. c \in shown' => v # Fallback
  <2>1. CASE v # Fallback
    BY <2>1
  <2>2. CASE v = Fallback
    BY <2>2, <1>1 DEF Tell, FlightSound, CachesInv, HistorySound
  <2>3. QED
    BY <2>1, <2>2
<1>4. AnswerSound(c)'
  BY <1>2, <1>3 DEF AnswerSound
<1>5. kind = "types" /\ v # Fallback => cache # None
  BY <1>1 DEF FlightSound
<1>6. CASE cache' = cache
  <2>1. cache # None => cache.at \in Int
    BY <1>1 DEF CachesInv, TypeOK
  <2>2. CacheSound'
    BY <2>1, <1>1, <1>6 DEF CachesInv, CacheSound, Slack, HeldSince, Remembered
  <2>3. QED
    BY <2>2, <1>1, <1>4, <1>5, <1>6, ToldKeepsInv DEF CachesInv, TypeOK
<1>7. CASE kind = "llm" /\ Store(caller[c].at, Fallback)
  <2>1. Fallback \in Versions \ {Refusal}
    BY <1>7, VersionAssumption DEF Versions
  <2>2. /\ cache' \in [at : 0..now, value : Versions \ {Refusal}]
        /\ cache' # None /\ cache'.at = caller[c].at /\ cache'.value = Fallback
    BY <2>1, <1>1, <1>7, StoreFacts DEF CachesInv
  <2>3. Remembered(cache.value, cache.at)'
    BY <2>2, <1>1, <1>7 DEF Remembered
  <2>4. CacheSound'
    BY <2>3, <1>7 DEF CacheSound
  <2>5. QED
    BY <2>2, <2>4, <1>4, <1>7, ToldKeepsInv
<1>8. QED
  BY <1>6, <1>7

LEMMA InitSound == Init => CachesInv
<1> SUFFICES ASSUME Init PROVE CachesInv
  OBVIOUS
<1>1. TypeOK
  <2>1. Fresh \in Get /\ Fresh.at = 0 /\ Fresh.pc = "told"
    BY VersionAssumption DEF Fresh, Get
  <2>2. source \in Version
    BY DEF Init, Versions
  <2>3. held \in [Version -> -1..now]
    BY <2>2 DEF Init
  <2>4. QED
    BY <2>1, <2>2, <2>3, TimesAssumption DEF Init, TypeOK, Running
<1>2. CallersSound
  BY DEF Init, CallersSound, FlightSound, AnswerSound, Fresh, Heard, Running
<1>3. CacheSound /\ HistorySound
  <2>1. source \in Version
    BY DEF Init, Versions
  <2>2. QED
    BY <2>1 DEF Init, CacheSound, HistorySound
<1>4. QED
  BY <1>1, <1>2, <1>3 DEF CachesInv

LEMMA CallKeepsInv ==
  ASSUME CachesInv, NEW c \in Caller, Call(c)
  PROVE  CachesInv'
<1>1. /\ kind \in Kinds /\ Fallback \in Version /\ Ttl \in Int /\ MaxLatency \in Int
      /\ cache # None => cache.value \in Version
  BY TimesAssumption, VersionAssumption DEF CachesInv, TypeOK, Versions
<1>2. CASE Resolve(c)
  <2>1. CASE Younger(Ttl) /\ Hit(c)
    BY <1>1, <1>2, <2>1, HitKeepsInv DEF Call, Resolve, Slack, HitAge
  <2>2. CASE Ask(c, Fallback) /\ UNCHANGED cache
    BY <1>1, <1>2, <2>2, AskedKeepsInv DEF Call, Resolve
  <2>3. QED
    BY <1>2, <2>1, <2>2 DEF Resolve
<1>3. CASE IsExhausted(c)
  <2>1. CASE Younger(Ttl + 1) /\ Hit(c)
    BY <1>1, <1>3, <2>1, HitKeepsInv DEF Call, IsExhausted, Slack, HitAge
  <2>2. CASE Ask(c, Fallback) /\ UNCHANGED cache
    BY <1>1, <1>3, <2>2, AskedKeepsInv DEF Call, IsExhausted
  <2>3. QED
    BY <1>3, <2>1, <2>2 DEF IsExhausted
<1>4. CASE IsEntitled(c)
  <2>1. CASE Younger(Ttl) /\ Hit(c)
    BY <1>1, <1>4, <2>1, HitKeepsInv DEF Call, IsEntitled, Slack, HitAge
  <2>2. CASE Ask(c, Fallback) /\ cache' = None
    BY <1>1, <1>4, <2>2, AskedKeepsInv DEF Call, IsEntitled
  <2>3. QED
    BY <1>4, <2>1, <2>2 DEF IsEntitled
<1>5. CASE Types(c)
  <2>1. CASE Younger(Ttl) /\ Hit(c)
    BY <1>1, <1>5, <2>1, HitKeepsInv DEF Call, Types, Slack, HitAge
  <2>2. CASE Ask(c, IF cache = None THEN Fallback ELSE cache.value) /\ UNCHANGED cache
    BY <1>1, <1>5, <2>2, AskedKeepsInv DEF Call, Types
  <2>3. QED
    BY <1>5, <2>1, <2>2 DEF Types
<1>6. QED
  BY <1>2, <1>3, <1>4, <1>5 DEF Call

LEMMA SettleKeepsInv ==
  ASSUME CachesInv, NEW c \in Caller, Settle(c)
  PROVE  CachesInv'
<1>1. /\ Fallback \in Version /\ caller[c].kept \in Version
      /\ Heard(c) => caller[c].value \in Versions
  BY VersionAssumption, HeardFacts DEF CachesInv, TypeOK, Get
<1>2. CASE Resolved(c)
  <2>1. CASE /\ Heard(c) /\ Tell(c, caller[c].value, "read") /\ UNCHANGED failed
             /\ \/ caller[c].value = Refusal /\ UNCHANGED cache
                \/ caller[c].value # Refusal /\ Store(caller[c].at, caller[c].value)
    BY <1>2, <2>1, ReadKeepsInv DEF Settle, Resolved
  <2>2. CASE Running(c) /\ Store(caller[c].at, Fallback) /\ Tell(c, Fallback, "failed") /\ failed' = now
    BY <1>1, <1>2, <2>2, FailureKeepsInv DEF Settle, Resolved
  <2>3. QED
    BY <1>2, <2>1, <2>2 DEF Resolved
<1>3. CASE Exhausted(c)
  <2>1. CASE Heard(c) /\ Store(now, caller[c].value) /\ Tell(c, caller[c].value, "read") /\ UNCHANGED failed
    BY <1>1, <1>3, <2>1, ReadKeepsInv DEF Settle, Exhausted, Versions
  <2>2. CASE Running(c) /\ Tell(c, Fallback, "failed") /\ failed' = now /\ UNCHANGED cache
    BY <1>1, <1>3, <2>2, FailureKeepsInv DEF Settle, Exhausted
  <2>3. QED
    BY <1>3, <2>1, <2>2 DEF Exhausted
<1>4. CASE Entitled(c)
  <2>1. CASE Heard(c) /\ Store(now, caller[c].value) /\ Tell(c, caller[c].value, "read") /\ UNCHANGED failed
    BY <1>1, <1>4, <2>1, ReadKeepsInv DEF Settle, Entitled, Versions
  <2>2. CASE Running(c) /\ Tell(c, Fallback, "failed") /\ failed' = now /\ UNCHANGED cache
    BY <1>1, <1>4, <2>2, FailureKeepsInv DEF Settle, Entitled
  <2>3. QED
    BY <1>4, <2>1, <2>2 DEF Entitled
<1>5. CASE Published(c)
  <2>1. CASE /\ Heard(c)
             /\ IF caller[c].value = Fallback THEN UNCHANGED cache
                                              ELSE Store(caller[c].at, caller[c].value)
             /\ Tell(c, caller[c].value, "read") /\ UNCHANGED failed
    BY <1>1, <1>5, <2>1, ReadKeepsInv DEF Settle, Published, Versions
  <2>2. CASE Running(c) /\ Tell(c, caller[c].kept, "failed") /\ failed' = now /\ UNCHANGED cache
    BY <1>1, <1>5, <2>2, FailureKeepsInv DEF Settle, Published
  <2>3. QED
    BY <1>5, <2>1, <2>2 DEF Published
<1>6. QED
  BY <1>2, <1>3, <1>4, <1>5 DEF Settle

\* Facts about the past stay: an owner's history only grows.
LEMMA HistoryGrows ==
  ASSUME CachesInv, UNCHANGED <<kind, cache, failed, shown>>, now' >= now,
         held' \in [Version -> Int], \A v \in Version : held'[v] >= held[v],
         NEW v \in Version, NEW t \in Int
  PROVE  /\ HeldSince(v, t) => HeldSince(v, t)'
         /\ Remembered(v, t) => Remembered(v, t)'
  BY DEF CachesInv, TypeOK, HeldSince, Remembered

LEMMA AnswerStands ==
  ASSUME CachesInv, UNCHANGED <<kind, cache, failed, shown>>, now' >= now,
         held' \in [Version -> Int], \A v \in Version : held'[v] >= held[v],
         NEW c \in Caller, caller'[c] = caller[c]
  PROVE  FlightSound(c)' /\ AnswerSound(c)'
<1>1. /\ FlightSound(c) /\ AnswerSound(c)
      /\ caller[c].value \in Version /\ caller[c].at \in Int
  BY DEF CachesInv, CallersSound, TypeOK, Get
<1>2. HitAge \in Int /\ HitAge' = HitAge
  BY HitAgeFacts DEF CachesInv
<1>3. FlightSound(c)'
  <2>1. HeldSince(caller[c].value, caller[c].at) => HeldSince(caller[c].value, caller[c].at)'
    BY <1>1, HistoryGrows DEF HeldSince
  <2>2. QED
    BY <1>1, <2>1 DEF FlightSound, Heard, Running, Versions
<1>4. AnswerSound(c)'
  <2>1. caller[c].at - HitAge \in Int /\ caller[c].at - Ttl - MaxLatency \in Int
    BY <1>1, <1>2, TimesAssumption
  <2>2. /\ HeldSince(caller[c].value, caller[c].at - HitAge) =>
             HeldSince(caller[c].value, caller[c].at - HitAge)'
        /\ Remembered(caller[c].value, caller[c].at - HitAge) =>
             Remembered(caller[c].value, caller[c].at - HitAge)'
        /\ HeldSince(caller[c].value, caller[c].at - Ttl - MaxLatency) =>
             HeldSince(caller[c].value, caller[c].at - Ttl - MaxLatency)'
    BY <1>1, <1>2, <2>1, HistoryGrows DEF HeldSince, Remembered
  <2>3. QED
    BY <1>1, <2>2 DEF AnswerSound
<1>5. QED
  BY <1>3, <1>4

LEMMA EntryStands ==
  ASSUME CachesInv, UNCHANGED <<kind, cache, failed, shown>>, now' >= now,
         held' \in [Version -> Int], \A v \in Version : held'[v] >= held[v]
  PROVE  CacheSound'
<1>1. CASE cache = None
  BY <1>1 DEF CacheSound
<1>2. CASE cache # None
  <2>1. cache.value \in Version /\ cache.at \in Int /\ cache.at - Slack \in Int
    BY <1>2, TimesAssumption DEF CachesInv, TypeOK, Versions, Slack
  <2>2. /\ HeldSince(cache.value, cache.at - Slack) => HeldSince(cache.value, cache.at - Slack)'
        /\ Remembered(cache.value, cache.at) => Remembered(cache.value, cache.at)'
    <3>1. UNCHANGED <<cache, kind>> /\ Slack' = Slack
      BY DEF Slack
    <3>2. HeldSince(cache.value, cache.at - Slack) => HeldSince(cache.value, cache.at - Slack)'
      BY <2>1, <3>1 DEF HeldSince, CachesInv, TypeOK
    <3>3. Remembered(cache.value, cache.at) => Remembered(cache.value, cache.at)'
      BY <3>1 DEF Remembered
    <3>4. QED
      BY <3>2, <3>3
  <2>3. QED
    BY <2>2 DEF CachesInv, CacheSound
<1>3. QED
  BY <1>1, <1>2

LEMMA AnswerKeepsInv ==
  ASSUME CachesInv, NEW c \in Caller, Answer(c)
  PROVE  CachesInv'
<1>1. /\ now \in Nat /\ source \in Versions /\ source \in Version
      /\ caller[c] \in Get /\ caller[c].at \in 0..now
      /\ held[source] = now
  BY DEF CachesInv, TypeOK, HistorySound, Versions
<1>2. /\ caller' \in [Caller -> Get]
      /\ \A d \in Caller \ {c} : caller'[d] = caller[d]
      /\ caller'[c].pc = "heard" /\ caller'[c].value = source
      /\ caller'[c].at = caller[c].at /\ caller'[c].kept = caller[c].kept
      /\ caller'[c].how = caller[c].how
  BY <1>1 DEF CachesInv, TypeOK, Get, Answer
<1>3. caller[c].pc = "asking" /\ Running(c)
  BY DEF Answer, Running
<1>4. TypeOK'
  BY <1>1, <1>2, <1>3 DEF CachesInv, TypeOK, Answer, Running, Versions
<1>5. CallersSound'
  <2> SUFFICES ASSUME NEW d \in Caller
               PROVE  (FlightSound(d) /\ AnswerSound(d))'
    BY DEF CallersSound
  <2>1. CASE d = c
    <3>1. FlightSound(c) /\ caller[c].how = "none"
      BY <1>3 DEF CachesInv, CallersSound, FlightSound
    <3>2. FlightSound(c)'
      BY <1>1, <1>2, <1>3, <3>1 DEF FlightSound, Heard, Running, HeldSince, Answer, Versions
    <3>3. AnswerSound(c)'
      BY <1>2, <3>1 DEF AnswerSound
    <3>4. QED
      BY <2>1, <3>2, <3>3
  <2>2. CASE d # c
    <3>1. UNCHANGED <<kind, now, held, cache, failed, shown>> /\ caller'[d] = caller[d]
      BY <1>2, <2>2 DEF Answer
    <3>2. held \in [Version -> Int] /\ \A v \in Version : held'[v] >= held[v]
      BY <3>1 DEF CachesInv, TypeOK
    <3>3. QED
      BY <1>1, <3>1, <3>2, AnswerStands
  <2>3. QED
    BY <2>1, <2>2
<1>6. CacheSound' /\ HistorySound'
  BY DEF CachesInv, CacheSound, HistorySound, Answer, Slack, HeldSince, Remembered
<1>7. QED
  BY <1>4, <1>5, <1>6 DEF CachesInv

LEMMA ChangeKeepsInv ==
  ASSUME CachesInv, Change
  PROVE  CachesInv'
<1>1. PICK v \in Versions : source' = v /\ held' = [held EXCEPT ![v] = now]
  BY DEF Change
<1>2. /\ v \in Version /\ now \in Nat /\ held \in [Version -> -1..now]
  BY DEF CachesInv, TypeOK, Versions
<1>3. /\ held' \in [Version -> -1..now] /\ held' \in [Version -> Int]
      /\ \A w \in Version : held'[w] >= held[w]
      /\ held'[v] = now
  BY <1>1, <1>2
<1>4. TypeOK'
  BY <1>1, <1>2, <1>3 DEF CachesInv, TypeOK, Change, Running, Versions
<1>5. CallersSound'
  BY <1>2, <1>3, AnswerStands DEF Change, CallersSound
<1>6. CacheSound'
  BY <1>2, <1>3, EntryStands DEF Change
<1>7. HistorySound'
  BY <1>1, <1>3 DEF CachesInv, HistorySound, Change
<1>8. QED
  BY <1>4, <1>5, <1>6, <1>7 DEF CachesInv

LEMMA TickKeepsInv ==
  ASSUME CachesInv, Tick
  PROVE  CachesInv'
<1>1. /\ source \in Version /\ now \in Nat /\ held \in [Version -> -1..now]
      /\ now' = now + 1
  BY DEF CachesInv, TypeOK, Versions, Tick
<1>2. /\ held' \in [Version -> -1..now'] /\ held' \in [Version -> Int]
      /\ \A w \in Version : held'[w] >= held[w]
      /\ held'[source] = now'
  BY <1>1 DEF Tick
<1>3. TypeOK'
  <2>1. cache' \in [at : 0..now', value : Versions' \ {Refusal}] \cup {None}
    BY <1>1 DEF CachesInv, TypeOK, Tick, Versions
  <2>2. \A c \in Caller : caller[c].at \in 0..now' /\ (Running(c) => now' <= caller[c].at + MaxLatency)
    BY <1>1, TimesAssumption DEF CachesInv, TypeOK, Tick
  <2>3. now' \in 0..MaxTime /\ failed' \in -1..now'
    BY <1>1, TimesAssumption DEF CachesInv, TypeOK, Tick
  <2>4. QED
    BY <1>1, <1>2, <2>1, <2>2, <2>3 DEF CachesInv, TypeOK, Tick, Running, Versions
<1>4. CallersSound'
  BY <1>1, <1>2, AnswerStands DEF Tick, CallersSound
<1>5. CacheSound'
  BY <1>1, <1>2, EntryStands DEF Tick
<1>6. HistorySound'
  BY <1>1, <1>2 DEF CachesInv, HistorySound, Tick
<1>7. QED
  BY <1>3, <1>4, <1>5, <1>6 DEF CachesInv

-----------------------------------------------------------------------------
(* The theorems                                                            *)

LEMMA StepKeepsInv == CachesInv /\ [Next]_vars => CachesInv'
<1> SUFFICES ASSUME CachesInv, [Next]_vars PROVE CachesInv'
  OBVIOUS
<1>1. ASSUME NEW c \in Caller, Call(c) PROVE CachesInv'
  BY <1>1, CallKeepsInv
<1>2. ASSUME NEW c \in Caller, Answer(c) PROVE CachesInv'
  BY <1>2, AnswerKeepsInv
<1>3. ASSUME NEW c \in Caller, Settle(c) PROVE CachesInv'
  BY <1>3, SettleKeepsInv
<1>4. CASE Change
  BY <1>4, ChangeKeepsInv
<1>5. CASE Tick
  BY <1>5, TickKeepsInv
<1>6. CASE UNCHANGED vars
  BY <1>6 DEF vars, CachesInv, TypeOK, CacheSound, CallersSound, HistorySound, FlightSound,
             AnswerSound, Heard, Running, HeldSince, Remembered, Slack, HitAge, Versions
<1>7. QED
  BY <1>1, <1>2, <1>3, <1>4, <1>5, <1>6 DEF Next

\* The invariant the four properties follow from: every copy of a fact is
\* tied to a moment at which its owner held it (resolve, is_exhausted,
\* is_entitled, _types).
THEOREM CachesInvariant == Spec => []CachesInv
<1>1. Init => CachesInv
  BY InitSound
<1>2. CachesInv /\ [Next]_vars => CachesInv'
  BY StepKeepsInv
<1>3. QED
  BY <1>1, <1>2, PTL DEF Spec

\* Entries, gets and histories keep their types, and the store of the
\* resolver never holds the platform's refusal.
THEOREM TypeCorrect == Spec => []TypeOK
<1>1. CachesInv => TypeOK
  BY DEF CachesInv
<1>2. QED
  BY <1>1, CachesInvariant, PTL

\* An answer from any of the caches was true at its owner within the bound
\* HitAge states for it, whatever overlaps.
THEOREM HitsStayRecent == Spec => []HitsAreRecent
<1>1. CachesInv => HitsAreRecent
  BY DEF CachesInv, CallersSound, AnswerSound, HitsAreRecent, Remembered
<1>2. QED
  BY <1>1, CachesInvariant, PTL

\* No tenant is refused, and none is given a key, on anything but what the
\* owner of the fact said recently.
THEOREM OnlyKnownIsSaid == Spec => []KnownBeforeSaid
<1>1. CachesInv => KnownBeforeSaid
  BY DEF CachesInv, CallersSound, AnswerSound, KnownBeforeSaid
<1>2. QED
  BY <1>1, CachesInvariant, PTL

\* A failing catalogue service takes no tools away from a caller that was
\* given some.
THEOREM CatalogueSurvivesBlips == Spec => []BlipKeepsCatalogue
<1>1. CachesInv => BlipKeepsCatalogue
  BY DEF CachesInv, CallersSound, AnswerSound, HistorySound, TypeOK, BlipKeepsCatalogue
<1>2. QED
  BY <1>1, CachesInvariant, PTL

=============================================================================
