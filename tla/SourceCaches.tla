---------------------------- MODULE SourceCaches ----------------------------
(***************************************************************************)
(* The read-through caches a worker keeps over facts other services own:   *)
(* a tenant's model and key (TenantLLMResolver), whether its allowance is  *)
(* spent (allowance.is_exhausted), whether it is entitled to a feature     *)
(* (EntitlementGuard) and the connector catalogue (ConnectorToolCatalogue).*)
(* They look alike and differ where it matters: what they stamp an entry   *)
(* with, how they compare ages, and what they do with a failed fetch.      *)
(* None of them holds a lock across its await, so fetches overlap.  The    *)
(* entries of different tenants never meet: one key is modelled, and which *)
(* cache it belongs to is fixed by the initial state.                      *)
(***************************************************************************)
EXTENDS Integers

CONSTANTS
  Caller,
  Version,     \* what the owner of the fact may hold
  Fallback,    \* what the code says when it does not know: no routing, not
               \* spent, the configured fail mode, an empty catalogue
  Refusal,     \* the platform's 402: a self-service tenant without a key
  Ttl,
  MaxLatency,  \* the client's timeout, in ticks
  MaxTime,     \* bound on the clock
  None

ASSUME VersionAssumption == Fallback \in Version /\ Refusal # Fallback
ASSUME NoneAssumption == None \notin Version \cup [at : Int, value : Version]
ASSUME TimesAssumption == Ttl \in Nat /\ MaxLatency \in Nat /\ MaxTime \in Nat

Kinds == {"llm", "allowance", "entitlement", "types"}

VARIABLES
  kind,    \* which cache this is
  now,
  source,  \* what the owner holds
  cache,   \* the entry, or None
  caller,  \* the last or the running get of each caller
  held,    \* history: when the owner last held each version, -1 for never
  failed,  \* history: when a fetch last failed, -1 for never
  shown    \* history: the callers that were given a catalogue

vars == <<kind, now, source, cache, caller, held, failed, shown>>

Versions == IF kind = "llm" THEN Version ELSE Version \ {Refusal}

\* A get that runs keeps its start in "at"; one that returned, its end.
Get == [pc : {"asking", "heard", "told"}, at : Int, value : Version,
        kept : Version, how : {"none", "hit", "read", "failed"}]

Fresh == [pc |-> "told", at |-> 0, value |-> Fallback, kept |-> Fallback, how |-> "none"]

Init ==
  /\ kind \in Kinds
  /\ now = 0
  /\ source \in Versions
  /\ cache = None
  /\ caller = [c \in Caller |-> Fresh]
  /\ held = [v \in Version |-> IF v = source THEN 0 ELSE -1]
  /\ failed = -1
  /\ shown = {}

-----------------------------------------------------------------------------
(* The steps a get is made of.                                             *)

Tell(c, v, how) ==
  /\ caller' = [caller EXCEPT ![c] = [pc |-> "told", at |-> now, value |-> v,
                                      kept |-> Fallback, how |-> how]]
  /\ shown' = IF kind = "types" /\ v # Fallback THEN shown \cup {c} ELSE shown

Hit(c) == Tell(c, cache.value, "hit") /\ UNCHANGED cache

\* The await: kept is the local copy of the entry a failure can still return.
Ask(c, kept) ==
  /\ caller' = [caller EXCEPT ![c] = [pc |-> "asking", at |-> now, value |-> Fallback,
                                      kept |-> kept, how |-> "none"]]
  /\ UNCHANGED shown

Store(at, v) == cache' = [at |-> at, value |-> v]

Running(c) == caller[c].pc \in {"asking", "heard"}
Heard(c) == caller[c].pc = "heard"
Younger(age) == cache # None /\ now - cache.at < age

-----------------------------------------------------------------------------
(* TenantLLMResolver.resolve: stamped before the await; a failure is an    *)
(* answer like any other and is kept; a refusal is raised past the store.  *)

Resolve(c) ==
  /\ kind = "llm" /\ caller[c].pc = "told"
  /\ \/ Younger(Ttl) /\ Hit(c)
     \/ ~Younger(Ttl) /\ Ask(c, Fallback) /\ UNCHANGED cache
  /\ UNCHANGED failed

\* A refusal kept like an answer.
ResolvedRefusalKeptMutant(c) ==
  /\ kind = "llm" /\ Heard(c)
  /\ Store(caller[c].at, caller[c].value)
  /\ Tell(c, caller[c].value, "read")
  /\ UNCHANGED failed

\* The stamp taken when the answer lands.
ResolvedStampedLateMutant(c) ==
  /\ kind = "llm" /\ Heard(c) /\ caller[c].value # Refusal
  /\ Store(now, caller[c].value)
  /\ Tell(c, caller[c].value, "read")
  /\ UNCHANGED failed

Resolved(c) ==
  /\ kind = "llm"
  /\ \/ /\ Heard(c) /\ caller[c].value = Refusal
        /\ Tell(c, Refusal, "read")
        /\ UNCHANGED <<cache, failed>>
     \/ /\ Heard(c) /\ caller[c].value # Refusal
        /\ Store(caller[c].at, caller[c].value)
        /\ Tell(c, caller[c].value, "read")
        /\ UNCHANGED failed
     \/ /\ Running(c)
        /\ Store(caller[c].at, Fallback)
        /\ Tell(c, Fallback, "failed")
        /\ failed' = now

(* allowance.is_exhausted: stamped after the await, an age equal to the    *)
(* time to live still hits, and a failure is forgotten.                    *)

IsExhausted(c) ==
  /\ kind = "allowance" /\ caller[c].pc = "told"
  /\ \/ Younger(Ttl + 1) /\ Hit(c)
     \/ ~Younger(Ttl + 1) /\ Ask(c, Fallback) /\ UNCHANGED cache
  /\ UNCHANGED failed

\* A failed check answers what was last known.
ExhaustedLastKnownMutant(c) ==
  /\ kind = "allowance"
  /\ \/ /\ Heard(c)
        /\ Store(now, caller[c].value)
        /\ Tell(c, caller[c].value, "read")
        /\ UNCHANGED failed
     \/ /\ Running(c)
        /\ Tell(c, IF cache = None THEN Fallback ELSE cache.value, "failed")
        /\ failed' = now
        /\ UNCHANGED cache

Exhausted(c) ==
  /\ kind = "allowance"
  /\ \/ /\ Heard(c)
        /\ Store(now, caller[c].value)
        /\ Tell(c, caller[c].value, "read")
        /\ UNCHANGED failed
     \/ /\ Running(c)
        /\ Tell(c, Fallback, "failed")
        /\ failed' = now
        /\ UNCHANGED cache

(* EntitlementGuard.is_entitled: an expiry is kept instead of a stamp and  *)
(* an expired entry is popped by the get that finds it.                    *)

IsEntitled(c) ==
  /\ kind = "entitlement" /\ caller[c].pc = "told"
  /\ \/ Younger(Ttl) /\ Hit(c)
     \/ ~Younger(Ttl) /\ Ask(c, Fallback) /\ cache' = None
  /\ UNCHANGED failed

Entitled(c) ==
  /\ kind = "entitlement"
  /\ \/ /\ Heard(c)
        /\ Store(now, caller[c].value)
        /\ Tell(c, caller[c].value, "read")
        /\ UNCHANGED failed
     \/ /\ Running(c)
        /\ Tell(c, Fallback, "failed")
        /\ failed' = now
        /\ UNCHANGED cache

(* ConnectorToolCatalogue._types: a failure returns the catalogue read     *)
(* before the await, however old; an empty catalogue is never stored.      *)

Types(c) ==
  /\ kind = "types" /\ caller[c].pc = "told"
  /\ \/ Younger(Ttl) /\ Hit(c)
     \/ /\ ~Younger(Ttl)
        /\ Ask(c, IF cache = None THEN Fallback ELSE cache.value)
        /\ UNCHANGED cache
  /\ UNCHANGED failed

\* An empty catalogue stored like any other.
PublishedEmptyKeptMutant(c) ==
  /\ kind = "types"
  /\ \/ /\ Heard(c)
        /\ Store(caller[c].at, caller[c].value)
        /\ Tell(c, caller[c].value, "read")
        /\ UNCHANGED failed
     \/ /\ Running(c)
        /\ Tell(c, caller[c].kept, "failed")
        /\ failed' = now
        /\ UNCHANGED cache

Published(c) ==
  /\ kind = "types"
  /\ \/ /\ Heard(c)
        /\ IF caller[c].value = Fallback THEN UNCHANGED cache
                                         ELSE Store(caller[c].at, caller[c].value)
        /\ Tell(c, caller[c].value, "read")
        /\ UNCHANGED failed
     \/ /\ Running(c)
        /\ Tell(c, caller[c].kept, "failed")
        /\ failed' = now
        /\ UNCHANGED cache

-----------------------------------------------------------------------------
(* The owners of the facts and the clock.                                  *)

\* The owner reads its own state to answer a fetch.
Answer(c) ==
  /\ caller[c].pc = "asking"
  /\ caller' = [caller EXCEPT ![c].pc = "heard", ![c].value = source]
  /\ UNCHANGED <<kind, now, source, cache, held, failed, shown>>

Change ==
  /\ \E v \in Versions \ {source} :
       /\ source' = v
       /\ held' = [held EXCEPT ![v] = now]
  /\ UNCHANGED <<kind, now, cache, caller, failed, shown>>

\* A fetch ends, one way or the other, within the client's timeout.
Tick ==
  /\ now < MaxTime
  /\ \A c \in Caller : Running(c) => now < caller[c].at + MaxLatency
  /\ now' = now + 1
  /\ held' = [held EXCEPT ![source] = now + 1]
  /\ UNCHANGED <<kind, source, cache, caller, failed, shown>>

Call(c) ==
  /\ Resolve(c) \/ IsExhausted(c) \/ IsEntitled(c) \/ Types(c)
  /\ UNCHANGED <<kind, now, source, held>>

Settle(c) ==
  /\ Resolved(c) \/ Exhausted(c) \/ Entitled(c) \/ Published(c)
  /\ UNCHANGED <<kind, now, source, held>>

Next ==
  \/ \E c \in Caller : Call(c) \/ Answer(c) \/ Settle(c)
  \/ Change
  \/ Tick

Spec == Init /\ [][Next]_vars

-----------------------------------------------------------------------------
(* Properties.                                                             *)

\* Every variable keeps its type, no entry or answer is from the future, and
\* a fetch never outlives the client's timeout.
TypeOK ==
  /\ kind \in Kinds
  /\ now \in 0..MaxTime
  /\ source \in Versions
  /\ cache \in [at : 0..now, value : Versions \ {Refusal}] \cup {None}
  /\ caller \in [Caller -> Get]
  /\ \A c \in Caller : caller[c].at \in 0..now
  /\ \A c \in Caller : Running(c) => now <= caller[c].at + MaxLatency
  /\ held \in [Version -> -1..now]
  /\ failed \in -1..now
  /\ shown \subseteq Caller

HeldSince(v, t) == held[v] >= 0 /\ held[v] >= t

\* How old a fact may be when the cache answers with it.  Stamps taken before
\* the await count the flight of the fetch, stamps taken after it add it.
HitAge ==
  CASE kind \in {"llm", "types"} -> Ttl - 1
    [] kind = "entitlement"      -> Ttl - 1 + MaxLatency
    [] kind = "allowance"        -> Ttl + MaxLatency

\* Whatever fetches overlap and however late they land, an answer from the
\* cache was true within the time to live (plus one timeout where the stamp is
\* taken after the fetch): an older answer overwriting a newer one never
\* extends its life, and a failure is only remembered by the resolver, as long.
HitsAreRecent ==
  \A c \in Caller :
    caller[c].how = "hit" =>
      \/ HeldSince(caller[c].value, caller[c].at - HitAge)
      \/ /\ kind = "llm" /\ caller[c].value = Fallback
         /\ failed >= 0 /\ failed >= caller[c].at - HitAge

\* A tenant is only told "spent", "not entitled" (or "entitled", when failing
\* closed) or given a model's key because the owner said so recently: what the
\* code says when it does not know is always the fallback.
KnownBeforeSaid ==
  kind # "types" =>
    \A c \in Caller :
      caller[c].how # "none" /\ caller[c].value # Fallback =>
        HeldSince(caller[c].value, caller[c].at - Ttl - MaxLatency)

\* A failing catalogue service never empties the tool list of a caller that
\* has been given one, in any interleaving with other fetches.
BlipKeepsCatalogue ==
  \A c \in shown : caller[c].how = "failed" => caller[c].value # Fallback

=============================================================================
