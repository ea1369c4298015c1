-------------------------- MODULE BotRegistryProofs -------------------------
(***************************************************************************)
(* Proofs about BotRegistry, for any workspaces, callers, documents, time  *)
(* to live and bounds: whose configuration an answer is, and what the      *)
(* stand-in means.  Both rest on what a call under way knows: Linked says  *)
(* whose configuration it is after, Witnessed what it has seen of the rows *)
(* that hold the agent.                                                    *)
(***************************************************************************)
EXTENDS BotRegistry, NaturalsInduction, WellFoundedInduction, TLAPS

\* What a call holds, by the step it is at.
CallTypes ==
    /\ DOMAIN call = Calls /\ DOMAIN seen = Calls /\ DOMAIN cache = Tenants
    /\ \A p \in Calls : DOMAIN seen[p] = {"owners", "homes", "failed"}
    /\ \A p \in Calls :
         /\ call[p].pc \in {"idle", "link", "ws", "legacy", "any", "done"}
         /\ Active(p) => call[p].tenant \in Tenants /\ call[p].config \in Tenants
         /\ call[p].pc \in {"ws", "legacy", "any"} => call[p].doc \in RowDocs \cup {NoRow}
         /\ call[p].pc = "legacy" => call[p].ws \in RowDocs \cup {NoRow}
         /\ call[p].pc = "done" => call[p].answer.kind \in {"config", "mock"}

\* A call is after the configuration of its own workspace, or of an owner that
\* was linked to it since the call began; the cache keeps each under its tenant.
Linked ==
    /\ \A t \in Tenants : cache[t] # <<>> => cache[t][2].config_tenant = t
    /\ \A p \in Calls : Active(p) => call[p].config \in {call[p].tenant} \cup seen[p].owners
    /\ OnlyOwnOrLinked

\* A call knows the rows that hold the agent now; it has a document that does
\* unless there was none at some moment.
Witnessed ==
    /\ \A p \in Calls : Active(p) => Home(rows, call[p].config) \in seen[p].homes
    /\ \A p \in Calls : call[p].pc = "legacy" /\ ~Holds(call[p].doc) => {} \in seen[p].homes
    /\ \A p \in Calls : call[p].pc = "any" => {} \in seen[p].homes
    /\ MockHasACause

BotInv == TypeOK /\ CallTypes /\ Linked /\ Witnessed

\* By the history h, the set g of knowledge bases was t's at the moment or later.
Since(h, t, g, moment) == \E e \in h[t] : e[1] = g /\ e[2] >= moment

\* The history is up to date, and calls under way are young.
Timely ==
    /\ DOMAIN lastTrue = Tenants
    /\ \A t \in Tenants : \A e \in lastTrue[t] : e[2] \in 0 .. now
    /\ \A t \in Tenants : Home(rows, t) # {} => Since(lastTrue, t, GrantedBy(Meant(rows, t)), now)
    /\ \A p \in Calls : Active(p) => call[p].start \in 0 .. now /\ now - call[p].start <= Slack

\* What a call has read was granted since it began, unless it may be torn; a
\* workspace row that held the agent ends the search.
ReadWell(h, c) ==
    /\ c.pc = "ws" /\ Holds(c.doc) => Since(h, c.config, GrantedBy(c.doc), c.start)
    /\ c.pc = "legacy" => ~Holds(c.ws)
    /\ c.pc = "legacy" /\ c.doc # NoRow /\ ~c.torn => Since(h, c.config, GrantedBy(Merged(c.doc, c.ws)), c.start)
    /\ c.pc = "any" /\ Holds(c.doc) /\ ~c.torn => Since(h, c.config, GrantedBy(c.doc), c.start)

\* The knowledge bases of bot were t's no longer than age before the moment.
Dated(h, bot, t, moment, age) ==
    bot.kind = "config" /\ ~bot.torn => IsInjective(bot.kb_ids) /\ Since(h, t, ToSet(bot.kb_ids), moment - age)

Cached == \A t \in Tenants : cache[t] # <<>> => Dated(lastTrue, cache[t][2], t, cache[t][1], Slack)

MaxAge == Slack + (IF Ttl > 0 THEN Ttl - 1 ELSE 0)

AnswerWell(h, c, clock) ==
    c.pc = "done" =>
        /\ c.at \in 0 .. clock
        /\ c.answer.kind = "config" => c.answer.config_tenant \in Tenants
        /\ Dated(h, c.answer, c.answer.config_tenant, c.at, MaxAge)

DatedInv ==
    /\ Timely /\ Cached
    /\ \A p \in Calls : ReadWell(lastTrue, call[p]) /\ AnswerWell(lastTrue, call[p], now)

-----------------------------------------------------------------------------
(* Counting up: the theorems on induction take an operator, a set does as well *)

LEMMA CountUp ==
    ASSUME NEW n \in Nat, NEW T, 0 \in T, \A i \in 1 .. n : i - 1 \in T => i \in T
    PROVE  \A i \in 0 .. n : i \in T
<1> DEFINE Bad == {i \in Nat : i \in 0 .. n /\ i \notin T}
<1>1. SUFFICES ASSUME Bad # {} PROVE FALSE
  OBVIOUS
<1>2. PICK k \in Bad : \A j \in Bad : ~(j < k)
  <2>1. Bad \subseteq Nat
    OBVIOUS
  <2> HIDE DEF Bad
  <2>2. \E k \in Bad : \A j \in Bad : <<j, k>> \notin OpToRel(<, Nat)
    BY <1>1, <2>1, NatLessThanWellFounded, WFMin, Zenon
  <2>3. QED
    BY <2>1, <2>2 DEF OpToRel
<1>3. k \in 1 .. n /\ k - 1 \in 0 .. n /\ k - 1 \in Nat /\ k - 1 < k
  BY <1>2
<1>4. QED
  BY <1>2, <1>3

\* f starts at base, and step takes each of its values to the next.
Steps(n, D, base, step, f) ==
    /\ f \in [0 .. n -> D] /\ f[0] = base
    /\ \A i \in 1 .. n : f[i] = step[<<i, f[i - 1]>>]

LEMMA StepsExist ==
    ASSUME NEW n \in Nat, NEW D, NEW base \in D, NEW step \in [(1 .. n) \X D -> D]
    PROVE  \E f : Steps(n, D, base, step, f)
<1> DEFINE Upto(k) == \E f \in [0 .. k -> D] : f[0] = base /\ \A i \in 1 .. k : f[i] = step[<<i, f[i - 1]>>]
           T == {k \in 0 .. n : Upto(k)}
<1>1. 0 \in T
  <2> DEFINE f == [i \in 0 .. 0 |-> base]
  <2>1. f \in [0 .. 0 -> D] /\ f[0] = base
    OBVIOUS
  <2> HIDE DEF f
  <2>2. \A i \in 1 .. 0 : f[i] = step[<<i, f[i - 1]>>]
    OBVIOUS
  <2>3. 0 \in 0 .. n
    OBVIOUS
  <2>4. QED
    BY <2>1, <2>2, <2>3
<1>2. ASSUME NEW k \in 1 .. n, k - 1 \in T PROVE k \in T
  <2>1. PICK f \in [0 .. k - 1 -> D] : f[0] = base /\ \A i \in 1 .. k - 1 : f[i] = step[<<i, f[i - 1]>>]
    BY <1>2
  <2> DEFINE g == [i \in 0 .. k |-> IF i = k THEN step[<<k, f[k - 1]>>] ELSE f[i]]
  <2>2. step[<<k, f[k - 1]>>] \in D
    <3>1. k - 1 \in 0 .. k - 1
      OBVIOUS
    <3>2. QED
      BY <3>1
  <2>3. \A i \in 0 .. k : i # k => i \in 0 .. k - 1 /\ f[i] \in D
    OBVIOUS
  <2>4. g \in [0 .. k -> D]
    BY <2>2, <2>3
  <2>5. /\ g[0] = base
        /\ g[k] = step[<<k, f[k - 1]>>]
        /\ \A i \in 0 .. k - 1 : g[i] = f[i]
    <3>1. 0 \in 0 .. k /\ 0 # k /\ k \in 0 .. k
      OBVIOUS
    <3>2. \A i \in 0 .. k - 1 : i \in 0 .. k /\ i # k
      OBVIOUS
    <3>3. QED
      BY <2>1, <3>1, <3>2
  <2> HIDE DEF g
  <2>6. ASSUME NEW i \in 1 .. k PROVE g[i] = step[<<i, g[i - 1]>>]
    <3>1. i - 1 \in 0 .. k - 1 /\ (i # k => i \in 1 .. k - 1 /\ i \in 0 .. k - 1)
      OBVIOUS
    <3>2. QED
      BY <2>1, <2>5, <3>1
  <2>7. QED
    BY <2>4, <2>5, <2>6
<1> HIDE DEF T
<1>3. \A i \in 0 .. n : i \in T
  BY <1>1, <1>2, CountUp
<1>4. n \in T
  BY <1>3
<1>5. QED
  BY <1>4 DEF T, Steps

-----------------------------------------------------------------------------
(* Documents *)

\* A merged document is one, and holds the agent if the row it was found in does.
LEMMA MergedIsDocument ==
    ASSUME NEW doc \in RowDocs, NEW ws \in RowDocs \cup {NoRow}
    PROVE  IsDocument(Merged(doc, ws)) /\ Merged(doc, ws).bot = doc.bot
<1>1. CASE ws = NoRow
  BY <1>1, DocsAssumption DEF Merged
<1>2. CASE ws # NoRow
  <2>1. IsDocument(doc) /\ IsDocument(ws)
    BY <1>2, DocsAssumption
  <2>2. Merged(doc, ws) = [bot |-> doc.bot,
                           kb_groups |-> IF ws.kb_groups = <<>> THEN doc.kb_groups ELSE ws.kb_groups,
                           bot_groups |-> IF ws.bot_groups = <<>> THEN doc.bot_groups ELSE ws.bot_groups]
    BY <1>2, <2>1 DEF Merged, IsDocument
  <2> DEFINE merged == Merged(doc, ws)
             Bots == {NoBot} \cup [kbs : Seq(KbIds), kb_group_ids : Seq(GroupIds)]
             BotGroups == Seq([bot_ids : SUBSET Agents, kbs : Seq(KbIds), kb_group_ids : Seq(GroupIds)])
  <2>3. /\ merged.bot \in Bots /\ merged.bot_groups \in BotGroups
        /\ merged.bot = doc.bot
        /\ merged.kb_groups \in {doc.kb_groups, ws.kb_groups}
    BY <2>1, <2>2 DEF IsDocument
  <2>4. PICK gids \in SUBSET GroupIds : merged.kb_groups \in [gids -> Seq(KbIds)]
    BY <2>1, <2>3 DEF IsDocument
  <2>5. merged = [bot |-> merged.bot, kb_groups |-> merged.kb_groups, bot_groups |-> merged.bot_groups]
    BY <2>2
  <2> HIDE DEF merged, Bots, BotGroups
  <2>6. merged \in [bot : Bots, kb_groups : [gids -> Seq(KbIds)], bot_groups : BotGroups]
    BY <2>3, <2>4, <2>5
  <2>7. QED
    BY <2>3, <2>6 DEF IsDocument, merged, Bots, BotGroups
<1>3. QED
  BY <1>1, <1>2

LEMMA MergedHolds ==
    ASSUME NEW doc \in RowDocs, NEW ws \in RowDocs \cup {NoRow}, Holds(doc)
    PROVE  Holds(Merged(doc, ws))
<1>1. IsDocument(Merged(doc, ws)) /\ Merged(doc, ws).bot = doc.bot
  BY MergedIsDocument
<1>2. QED
  BY <1>1, DocsAssumption DEF Holds

\* r is acc with the ids of X added: what the steps of
\* _resolve_effective_kb_ids keep, repetition included if acc had any.
Gathers(r, acc, X) ==
    /\ r \in Seq(KbIds)
    /\ ToSet(r) = ToSet(acc) \cup X
    /\ IsInjective(acc) => IsInjective(r)

LEMMA GathersOn ==
    ASSUME NEW r, NEW s, NEW acc, NEW X, NEW Y, Gathers(s, acc, X), Gathers(r, s, Y)
    PROVE  Gathers(r, acc, X \cup Y)
  BY DEF Gathers

\* A run of additions gathers what each of them adds.
LEMMA RunGathers ==
    ASSUME NEW n \in Nat, NEW acc \in Seq(KbIds), NEW X, NEW f, f[0] = acc,
           \A i \in 1 .. n : f[i - 1] \in Seq(KbIds) => Gathers(f[i], f[i - 1], X[i])
    PROVE  Gathers(f[n], acc, UNION {X[j] : j \in 1 .. n})
<1> DEFINE T == {i \in 0 .. n : Gathers(f[i], acc, UNION {X[j] : j \in 1 .. i})}
<1>1. 0 \in T
  <2>1. UNION {X[j] : j \in 1 .. 0} = {}
    OBVIOUS
  <2>2. Gathers(f[0], acc, {})
    BY DEF Gathers
  <2>3. 0 \in 0 .. n
    OBVIOUS
  <2>4. QED
    BY <2>1, <2>2, <2>3
<1>2. ASSUME NEW i \in 1 .. n, i - 1 \in T PROVE i \in T
  <2> DEFINE before == UNION {X[j] : j \in 1 .. i - 1}
  <2>1. Gathers(f[i - 1], acc, before)
    BY <1>2
  <2>2. UNION {X[j] : j \in 1 .. i} = before \cup X[i]
    <3>1. 1 .. i = (1 .. i - 1) \cup {i}
      OBVIOUS
    <3>2. QED
      BY <3>1
  <2> HIDE DEF before
  <2>3. Gathers(f[i], f[i - 1], X[i])
    BY <2>1 DEF Gathers
  <2>4. Gathers(f[i], acc, before \cup X[i])
    BY <2>1, <2>3, GathersOn
  <2>5. i \in 0 .. n
    OBVIOUS
  <2>6. QED
    BY <2>2, <2>4, <2>5
<1> HIDE DEF T
<1>3. \A i \in 0 .. n : i \in T
  BY <1>1, <1>2, CountUp
<1>4. n \in T
  BY <1>3
<1>5. QED
  BY <1>4 DEF T

LEMMA AppendGathers ==
    ASSUME NEW s \in Seq(KbIds), NEW k \in KbIds
    PROVE  /\ Append(s, k) \in Seq(KbIds) /\ ToSet(Append(s, k)) = ToSet(s) \cup {k}
           /\ ~Contains(s, k) /\ IsInjective(s) => IsInjective(Append(s, k))
<1> DEFINE more == Append(s, k)
<1>1. more \in Seq(KbIds) /\ Len(more) = Len(s) + 1 /\ Len(s) \in Nat
  OBVIOUS
<1>2. DOMAIN s = 1 .. Len(s) /\ DOMAIN more = 1 .. Len(s) + 1
      /\ 1 .. Len(s) + 1 = (1 .. Len(s)) \cup {Len(s) + 1} /\ Len(s) + 1 \notin 1 .. Len(s)
  BY <1>1
<1>3. more[Len(s) + 1] = k /\ \A i \in 1 .. Len(s) : more[i] = s[i]
  OBVIOUS
<1> HIDE DEF more
<1>4. ToSet(more) = ToSet(s) \cup {k}
  BY <1>2, <1>3 DEF ToSet
<1>5. ~Contains(s, k) /\ IsInjective(s) => IsInjective(more)
  BY <1>2, <1>3 DEF Contains, IsInjective
<1>6. QED
  BY <1>1, <1>4, <1>5 DEF more

\* _add appends the ids that are not there yet.
AddStep(ids, added, i) == IF Contains(added, ids[i]) THEN added ELSE Append(added, ids[i])
AddRun(ids, acc, f) == f = [i \in 0 .. Len(ids) |-> IF i = 0 THEN acc ELSE AddStep(ids, f[i - 1], i)]

LEMMA AddRunExists ==
    ASSUME NEW ids \in Seq(KbIds), NEW acc \in Seq(KbIds)
    PROVE  \E f : AddRun(ids, acc, f)
<1> DEFINE n == Len(ids)
           step == [z \in (1 .. n) \X Seq(KbIds) |-> AddStep(ids, z[2], z[1])]
<1>1. n \in Nat /\ \A i \in 1 .. n : ids[i] \in KbIds
  OBVIOUS
<1>2. \A i \in 1 .. n, s \in Seq(KbIds) : AddStep(ids, s, i) \in Seq(KbIds)
  BY <1>1, AppendGathers DEF AddStep
<1>3. step \in [(1 .. n) \X Seq(KbIds) -> Seq(KbIds)]
  BY <1>2
<1>4. \A i \in 1 .. n, s \in Seq(KbIds) : step[<<i, s>>] = AddStep(ids, s, i)
  OBVIOUS
<1> HIDE DEF step, n
<1>5. PICK f \in [0 .. n -> Seq(KbIds)] : f[0] = acc /\ \A i \in 1 .. n : f[i] = step[<<i, f[i - 1]>>]
  <2> DEFINE D == Seq(KbIds)
  <2>1. n \in Nat /\ acc \in D /\ step \in [(1 .. n) \X D -> D]
    BY <1>1, <1>3
  <2> HIDE DEF D
  <2>2. \E f : Steps(n, D, acc, step, f)
    BY <2>1, StepsExist
  <2>3. QED
    BY <2>2 DEF D, Steps
<1>6. \A i \in 0 .. n : i # 0 => i \in 1 .. n /\ i - 1 \in 0 .. n
  BY <1>1
<1>7. \A i \in 0 .. n : f[i] = IF i = 0 THEN acc ELSE AddStep(ids, f[i - 1], i)
  BY <1>4, <1>5, <1>6
<1>8. f = [i \in 0 .. n |-> IF i = 0 THEN acc ELSE AddStep(ids, f[i - 1], i)]
  <2> DEFINE e(i) == IF i = 0 THEN acc ELSE AddStep(ids, f[i - 1], i)
  <2>1. f = [i \in 0 .. n |-> f[i]] /\ \A i \in 0 .. n : f[i] = e(i)
    BY <1>5, <1>7
  <2> HIDE DEF e
  <2>2. f = [i \in 0 .. n |-> e(i)]
    BY <2>1
  <2>3. QED
    BY <2>2 DEF e
<1>9. QED
  BY <1>8 DEF AddRun, n

LEMMA AddGathers ==
    ASSUME NEW ids \in Seq(KbIds), NEW acc \in Seq(KbIds)
    PROVE  Gathers(Add(ids, acc), acc, ToSet(ids))
<1> DEFINE n == Len(ids)
           f == CHOOSE g : AddRun(ids, acc, g)
           X == [i \in 1 .. n |-> {ids[i]}]
<1>1. AddRun(ids, acc, f)
  BY AddRunExists
<1>2. Add(ids, acc) = f[n]
  BY <1>1, Zenon DEF Add, AddRun, AddStep
<1> HIDE DEF f
<1>3. n \in Nat /\ (\A i \in 1 .. n : ids[i] \in KbIds) /\ DOMAIN ids = 1 .. n
  OBVIOUS
<1>4. f[0] = acc /\ \A i \in 1 .. n : f[i] = AddStep(ids, f[i - 1], i)
  <2>1. 0 \in 0 .. n /\ \A i \in 1 .. n : i \in 0 .. n /\ i # 0
    BY <1>3
  <2>2. \A i \in 0 .. n : f[i] = IF i = 0 THEN acc ELSE AddStep(ids, f[i - 1], i)
    BY <1>1, Zenon DEF AddRun
  <2>3. QED
    BY <2>1, <2>2
<1>5. ASSUME NEW i \in 1 .. n, f[i - 1] \in Seq(KbIds) PROVE Gathers(f[i], f[i - 1], {ids[i]})
  <2> DEFINE old == f[i - 1]
             k == ids[i]
  <2>1. f[i] = AddStep(ids, old, i) /\ k \in KbIds /\ old \in Seq(KbIds)
    BY <1>3, <1>4, <1>5
  <2>2. CASE Contains(old, k)
    <3>1. f[i] = old
      BY <2>1, <2>2 DEF AddStep
    <3> HIDE DEF old, k
    <3>2. k \in ToSet(old)
      BY <2>1, <2>2 DEF Contains, ToSet
    <3>3. Gathers(f[i], old, {k})
      BY <2>1, <3>1, <3>2 DEF Gathers
    <3>4. QED
      BY <3>3 DEF old, k
  <2>3. CASE ~Contains(old, k)
    <3>1. f[i] = Append(old, k)
      BY <2>1, <2>3 DEF AddStep
    <3> HIDE DEF old, k
    <3>2. Gathers(f[i], old, {k})
      BY <2>1, <2>3, <3>1, AppendGathers DEF Gathers
    <3>3. QED
      BY <3>2 DEF old, k
  <2>4. QED
    BY <2>2, <2>3
<1>6. \A i \in 1 .. n : X[i] = {ids[i]}
  OBVIOUS
<1>7. UNION {X[j] : j \in 1 .. n} = ToSet(ids)
  BY <1>3 DEF ToSet
<1> HIDE DEF X, n
<1>8. \A i \in 1 .. n : f[i - 1] \in Seq(KbIds) => Gathers(f[i], f[i - 1], X[i])
  BY <1>5, <1>6
<1>9. Gathers(f[n], acc, UNION {X[j] : j \in 1 .. n})
  BY <1>3, <1>4, <1>8, RunGathers
<1>10. QED
  BY <1>2, <1>7, <1>9

\* _expand adds the knowledge bases of the groups that there are.
OfGroups(gids, groups) == UNION {ToSet(groups[g]) : g \in ToSet(gids) \cap DOMAIN groups}

ExpandStep(gids, groups, added, i) == IF gids[i] \in DOMAIN groups THEN Add(groups[gids[i]], added) ELSE added
ExpandRun(gids, groups, acc, f) ==
    f = [i \in 0 .. Len(gids) |-> IF i = 0 THEN acc ELSE ExpandStep(gids, groups, f[i - 1], i)]

LEMMA ExpandRunExists ==
    ASSUME NEW gids, Len(gids) \in Nat, NEW groups, NEW acc \in Seq(KbIds),
           \A g \in DOMAIN groups : groups[g] \in Seq(KbIds)
    PROVE  \E f : ExpandRun(gids, groups, acc, f)
<1> DEFINE n == Len(gids)
           D == Seq(KbIds)
           step == [z \in (1 .. n) \X D |-> ExpandStep(gids, groups, z[2], z[1])]
<1>1. \A i \in 1 .. n, s \in D : ExpandStep(gids, groups, s, i) \in D
  BY AddGathers DEF ExpandStep, Gathers
<1>2. n \in Nat /\ acc \in D
  OBVIOUS
<1> HIDE DEF n, D
<1>3. step \in [(1 .. n) \X D -> D]
  BY <1>1
<1>4. \A i \in 1 .. n, s \in D : step[<<i, s>>] = ExpandStep(gids, groups, s, i)
  OBVIOUS
<1> HIDE DEF step
<1>5. PICK f : Steps(n, D, acc, step, f)
  BY <1>2, <1>3, StepsExist
<1>6. \A i \in 0 .. n : i # 0 => i \in 1 .. n /\ i - 1 \in 0 .. n
  BY <1>2
<1> DEFINE e(i) == IF i = 0 THEN acc ELSE ExpandStep(gids, groups, f[i - 1], i)
<1>7. f = [i \in 0 .. n |-> f[i]] /\ \A i \in 0 .. n : f[i] = e(i)
  BY <1>4, <1>5, <1>6 DEF Steps
<1> HIDE DEF e
<1>8. f = [i \in 0 .. n |-> e(i)]
  BY <1>7, Zenon
<1>9. QED
  BY <1>8 DEF ExpandRun, e, n

LEMMA ExpandGathers ==
    ASSUME NEW G, NEW gids \in Seq(G), NEW groups, NEW acc \in Seq(KbIds),
           \A g \in DOMAIN groups : groups[g] \in Seq(KbIds)
    PROVE  Gathers(Expand(gids, groups, acc), acc, OfGroups(gids, groups))
<1> DEFINE n == Len(gids)
           f == CHOOSE h : ExpandRun(gids, groups, acc, h)
           X == [i \in 1 .. n |-> IF gids[i] \in DOMAIN groups THEN ToSet(groups[gids[i]]) ELSE {}]
<1>1. ExpandRun(gids, groups, acc, f)
  <2>1. Len(gids) \in Nat
    OBVIOUS
  <2>2. \E h : ExpandRun(gids, groups, acc, h)
    BY <2>1, ExpandRunExists
  <2>3. QED
    BY <2>2, Zenon
<1>2. Expand(gids, groups, acc) = f[n]
  BY <1>1, Zenon DEF Expand, ExpandRun, ExpandStep
<1> HIDE DEF f
<1>3. n \in Nat /\ DOMAIN gids = 1 .. n
  OBVIOUS
<1>4. f[0] = acc /\ \A i \in 1 .. n : f[i] = ExpandStep(gids, groups, f[i - 1], i)
  <2>1. 0 \in 0 .. n /\ \A i \in 1 .. n : i \in 0 .. n /\ i # 0
    BY <1>3
  <2>2. \A i \in 0 .. n : f[i] = IF i = 0 THEN acc ELSE ExpandStep(gids, groups, f[i - 1], i)
    BY <1>1, Zenon DEF ExpandRun
  <2>3. QED
    BY <2>1, <2>2
<1>5. ASSUME NEW i \in 1 .. n, f[i - 1] \in Seq(KbIds) PROVE Gathers(f[i], f[i - 1], X[i])
  <2> DEFINE old == f[i - 1]
  <2>1. f[i] = ExpandStep(gids, groups, old, i)
    BY <1>4
  <2>2. CASE gids[i] \in DOMAIN groups
    <3>1. f[i] = Add(groups[gids[i]], old) /\ X[i] = ToSet(groups[gids[i]])
      BY <2>1, <2>2 DEF ExpandStep
    <3>2. QED
      BY <1>5, <2>2, <3>1, AddGathers
  <2>3. CASE gids[i] \notin DOMAIN groups
    <3>1. f[i] = old /\ X[i] = {}
      BY <2>1, <2>3 DEF ExpandStep
    <3>2. QED
      BY <1>5, <3>1 DEF Gathers
  <2>4. QED
    BY <2>2, <2>3
<1>6. UNION {X[j] : j \in 1 .. n} = OfGroups(gids, groups)
  <2>1. \A j \in 1 .. n : X[j] = IF gids[j] \in DOMAIN groups THEN ToSet(groups[gids[j]]) ELSE {}
    OBVIOUS
  <2>2. ToSet(gids) = {gids[j] : j \in 1 .. n}
    BY <1>3 DEF ToSet
  <2> HIDE DEF X, n
  <2>3. ASSUME NEW k, NEW j \in 1 .. n, k \in X[j] PROVE k \in OfGroups(gids, groups)
    BY <2>1, <2>2, <2>3 DEF OfGroups
  <2>4. ASSUME NEW k, k \in OfGroups(gids, groups) PROVE \E j \in 1 .. n : k \in X[j]
    BY <2>1, <2>2, <2>4 DEF OfGroups
  <2>5. QED
    BY <2>3, <2>4
<1> HIDE DEF X, n
<1>7. Gathers(f[n], acc, UNION {X[j] : j \in 1 .. n})
  BY <1>3, <1>4, <1>5, RunGathers
<1>8. QED
  BY <1>2, <1>6, <1>7

\* The bot groups that hold the agent add their own bases and their groups'.
Granting(bg, groups) == IF Agent \in bg.bot_ids THEN ToSet(bg.kbs) \cup OfGroups(bg.kb_group_ids, groups) ELSE {}

WithStep(bgs, groups, added, i) ==
    IF Agent \in bgs[i].bot_ids THEN Expand(bgs[i].kb_group_ids, groups, Add(bgs[i].kbs, added)) ELSE added
WithRun(bgs, groups, own, f) ==
    f = [i \in 0 .. Len(bgs) |-> IF i = 0 THEN own ELSE WithStep(bgs, groups, f[i - 1], i)]

WellFormed(bgs, groups) ==
    /\ Len(bgs) \in Nat /\ DOMAIN bgs = 1 .. Len(bgs)
    /\ \A g \in DOMAIN groups : groups[g] \in Seq(KbIds)
    /\ \A i \in 1 .. Len(bgs) : bgs[i].kbs \in Seq(KbIds) /\ bgs[i].kb_group_ids \in Seq(GroupIds)

LEMMA WithStepGathers ==
    ASSUME NEW bgs, NEW groups, WellFormed(bgs, groups), NEW i \in 1 .. Len(bgs), NEW added \in Seq(KbIds)
    PROVE  Gathers(WithStep(bgs, groups, added, i), added, Granting(bgs[i], groups))
<1> DEFINE bg == bgs[i]
<1>1. CASE Agent \notin bg.bot_ids
  BY <1>1 DEF WithStep, Granting, Gathers
<1>2. CASE Agent \in bg.bot_ids
  <2>1. bg.kbs \in Seq(KbIds) /\ bg.kb_group_ids \in Seq(GroupIds)
    BY DEF WellFormed
  <2>2. Gathers(Add(bg.kbs, added), added, ToSet(bg.kbs))
    BY <2>1, AddGathers
  <2>3. Gathers(Expand(bg.kb_group_ids, groups, Add(bg.kbs, added)), Add(bg.kbs, added),
                OfGroups(bg.kb_group_ids, groups))
    BY <2>1, <2>2, ExpandGathers DEF WellFormed, Gathers
  <2>4. Gathers(Expand(bg.kb_group_ids, groups, Add(bg.kbs, added)), added,
                ToSet(bg.kbs) \cup OfGroups(bg.kb_group_ids, groups))
    BY <2>2, <2>3, GathersOn
  <2>5. QED
    BY <1>2, <2>4 DEF WithStep, Granting
<1>3. QED
  BY <1>1, <1>2

LEMMA WithRunExists ==
    ASSUME NEW bgs, NEW groups, WellFormed(bgs, groups), NEW own \in Seq(KbIds)
    PROVE  \E f : WithRun(bgs, groups, own, f)
<1> DEFINE n == Len(bgs)
           D == Seq(KbIds)
           step == [z \in (1 .. n) \X D |-> WithStep(bgs, groups, z[2], z[1])]
<1>1. \A i \in 1 .. n, s \in D : WithStep(bgs, groups, s, i) \in D
  BY WithStepGathers DEF Gathers
<1>2. n \in Nat /\ own \in D
  BY DEF WellFormed
<1> HIDE DEF n, D
<1>3. step \in [(1 .. n) \X D -> D]
  BY <1>1
<1>4. \A i \in 1 .. n, s \in D : step[<<i, s>>] = WithStep(bgs, groups, s, i)
  OBVIOUS
<1> HIDE DEF step
<1>5. PICK f : Steps(n, D, own, step, f)
  BY <1>2, <1>3, StepsExist
<1>6. \A i \in 0 .. n : i # 0 => i \in 1 .. n /\ i - 1 \in 0 .. n
  BY <1>2
<1> DEFINE e(i) == IF i = 0 THEN own ELSE WithStep(bgs, groups, f[i - 1], i)
<1>7. f = [i \in 0 .. n |-> f[i]] /\ \A i \in 0 .. n : f[i] = e(i)
  BY <1>4, <1>5, <1>6 DEF Steps
<1> HIDE DEF e
<1>8. f = [i \in 0 .. n |-> e(i)]
  BY <1>7, Zenon
<1>9. QED
  BY <1>8 DEF WithRun, e, n

\* What _resolve_effective_kb_ids hands out: the knowledge bases the document
\* grants the agent, no more, no less, and each of them once.
LEMMA ResolveGrants ==
    ASSUME NEW doc, IsDocument(doc), Holds(doc)
    PROVE  IsInjective(ResolveEffectiveKbIds(doc)) /\ ToSet(ResolveEffectiveKbIds(doc)) = GrantedBy(doc)
<1> DEFINE bgs == doc.bot_groups
           groups == doc.kb_groups
           n == Len(bgs)
           first == Add(doc.bot.kbs, <<>>)
           own == Expand(doc.bot.kb_group_ids, groups, first)
           f == CHOOSE h : WithRun(bgs, groups, own, h)
           X == [i \in 1 .. n |-> Granting(bgs[i], groups)]
<1>1. /\ WellFormed(bgs, groups)
      /\ doc.bot.kbs \in Seq(KbIds) /\ doc.bot.kb_group_ids \in Seq(GroupIds)
  <2>1. doc.bot \in [kbs : Seq(KbIds), kb_group_ids : Seq(GroupIds)]
    BY DEF IsDocument, Holds
  <2>2. \A g \in DOMAIN groups : groups[g] \in Seq(KbIds)
    BY DEF IsDocument
  <2> DEFINE BotGroups == [bot_ids : SUBSET Agents, kbs : Seq(KbIds), kb_group_ids : Seq(GroupIds)]
  <2>3. bgs \in Seq(BotGroups)
    BY DEF IsDocument
  <2>4. \A bg \in BotGroups : bg.kbs \in Seq(KbIds) /\ bg.kb_group_ids \in Seq(GroupIds)
    OBVIOUS
  <2> HIDE DEF bgs, groups, BotGroups
  <2>5. n \in Nat /\ DOMAIN bgs = 1 .. n /\ \A i \in 1 .. n : bgs[i] \in BotGroups
    BY <2>3
  <2>6. WellFormed(bgs, groups)
    BY <2>2, <2>4, <2>5 DEF WellFormed
  <2>7. QED
    BY <2>1, <2>6
<1>2. <<>> \in Seq(KbIds) /\ ToSet(<<>>) = {} /\ IsInjective(<<>>)
  BY DEF ToSet, IsInjective
<1>3. Gathers(first, <<>>, ToSet(doc.bot.kbs))
  BY <1>1, <1>2, AddGathers
<1>4. Gathers(own, <<>>, ToSet(doc.bot.kbs) \cup OfGroups(doc.bot.kb_group_ids, groups))
  <2>1. Gathers(own, first, OfGroups(doc.bot.kb_group_ids, groups))
    BY <1>1, <1>3, ExpandGathers DEF WellFormed, Gathers
  <2>2. QED
    BY <1>3, <2>1, GathersOn
<1>5. WithRun(bgs, groups, own, f)
  <2>1. own \in Seq(KbIds)
    BY <1>4 DEF Gathers
  <2>2. \E h : WithRun(bgs, groups, own, h)
    BY <1>1, <2>1, WithRunExists
  <2>3. QED
    BY <2>2, Zenon
<1>6. ResolveEffectiveKbIds(doc) = f[n]
  BY <1>5, Zenon DEF ResolveEffectiveKbIds, WithRun, WithStep
<1> HIDE DEF f
<1>7. f[0] = own /\ \A i \in 1 .. n : f[i] = WithStep(bgs, groups, f[i - 1], i)
  <2>1. n \in Nat
    BY <1>1 DEF WellFormed
  <2>2. 0 \in 0 .. n /\ \A i \in 1 .. n : i \in 0 .. n /\ i # 0
    BY <2>1
  <2>3. \A i \in 0 .. n : f[i] = IF i = 0 THEN own ELSE WithStep(bgs, groups, f[i - 1], i)
    BY <1>5, Zenon DEF WithRun
  <2>4. QED
    BY <2>2, <2>3
<1>8. Gathers(f[n], own, UNION {X[j] : j \in 1 .. n})
  <2>1. \A i \in 1 .. n : X[i] = Granting(bgs[i], groups)
    OBVIOUS
  <2>2. n \in Nat /\ own \in Seq(KbIds)
    BY <1>1, <1>4 DEF WellFormed, Gathers
  <2>3. \A i \in 1 .. n : f[i - 1] \in Seq(KbIds) => Gathers(WithStep(bgs, groups, f[i - 1], i), f[i - 1], Granting(bgs[i], groups))
    BY <1>1, WithStepGathers
  <2> HIDE DEF X, own, bgs, groups, n
  <2>4. \A i \in 1 .. n : f[i - 1] \in Seq(KbIds) => Gathers(f[i], f[i - 1], X[i])
    BY <1>7, <2>1, <2>3
  <2>5. QED
    BY <1>7, <2>2, <2>4, RunGathers
<1>9. GrantedBy(doc) = ToSet(doc.bot.kbs) \cup OfGroups(doc.bot.kb_group_ids, groups) \cup UNION {X[j] : j \in 1 .. n}
  <2>1. UNION {X[j] : j \in 1 .. n} =
          UNION {ToSet(bg.kbs) \cup OfGroups(bg.kb_group_ids, groups) : bg \in {g \in ToSet(bgs) : Agent \in g.bot_ids}}
    <3>1. ToSet(bgs) = {bgs[j] : j \in 1 .. n}
      BY <1>1 DEF ToSet, WellFormed
    <3>2. \A j \in 1 .. n : X[j] = IF Agent \in bgs[j].bot_ids
                                   THEN ToSet(bgs[j].kbs) \cup OfGroups(bgs[j].kb_group_ids, groups) ELSE {}
      BY DEF Granting
    <3> HIDE DEF X, bgs, groups, n
    <3>3. QED
      BY <3>1, <3>2
  <2>2. QED
    BY <2>1, Zenon DEF GrantedBy, OfGroups
<1>10. QED
  BY <1>2, <1>4, <1>6, <1>8, <1>9 DEF Gathers

LEMMA RowTyped ==
    ASSUME TypeOK, NEW t \in Tenants, NEW s \in Scopes
    PROVE  rows[t][s] \in RowDocs \cup {NoRow}
  BY DEF TypeOK

LEMMA LinkTyped ==
    ASSUME TypeOK, NEW t \in Tenants
    PROVE  ConfigTenant(t) \in Tenants
  BY OwnersAssumption DEF TypeOK, ConfigTenant, Links

-----------------------------------------------------------------------------
(* Steps of one call: the others, and what they have seen, stay as they are *)

OthersStay(p) ==
    /\ DOMAIN call' = Calls
    /\ \A q \in Calls : q # p => call'[q] = call[q]

\* A call that ends with an answer.
LEMMA AnswerKeeps ==
    ASSUME BotInv, NEW p \in Calls, Active(p), NEW a, Answer(p, a), a.kind \in {"config", "mock"},
           a.kind = "config" => a.config_tenant = call[p].config,
           UNCHANGED <<rows, link, now, calls, edits>>,
           \/ UNCHANGED seen
           \/ seen' = [seen EXCEPT ![p].failed = TRUE],
           a.kind = "mock" => seen'[p].failed \/ {} \in seen'[p].homes,
           \/ UNCHANGED cache
           \/ cache' = [cache EXCEPT ![call[p].config] = <<now, a>>] /\ a.kind = "config"
    PROVE  BotInv'
<1>1. /\ OthersStay(p) /\ call'[p].pc = "done" /\ call'[p].tenant = call[p].tenant
      /\ call'[p].answer = a
  BY DEF BotInv, CallTypes, Answer, OthersStay
<1>2. /\ DOMAIN seen' = Calls
      /\ \A q \in Calls : seen'[q].owners = seen[q].owners /\ seen'[q].homes = seen[q].homes
      /\ \A q \in Calls : q # p => seen'[q] = seen[q]
      /\ \A q \in Calls : DOMAIN seen'[q] = {"owners", "homes", "failed"}
  <2>1. CASE UNCHANGED seen
    BY <2>1 DEF BotInv, CallTypes
  <2>2. CASE seen' = [seen EXCEPT ![p].failed = TRUE]
    BY <2>2 DEF BotInv, CallTypes
  <2>3. QED
    BY <2>1, <2>2
<1>3. call[p].config \in Tenants /\ call[p].tenant \in Tenants
      /\ call[p].config \in {call[p].tenant} \cup seen[p].owners
  BY DEF BotInv, CallTypes, Linked
<1>4. DOMAIN cache' = Tenants /\ \A t \in Tenants : cache'[t] # <<>> =>
        /\ cache'[t][1] \in 0..now /\ cache'[t][2].kind = "config" /\ cache'[t][2].config_tenant = t
  <2>1. \A t \in Tenants : cache[t] # <<>> =>
          /\ cache[t][1] \in 0..now /\ cache[t][2].kind = "config" /\ cache[t][2].config_tenant = t
    BY DEF BotInv, TypeOK, Linked
  <2>2. now \in 0..now
    BY BoundsAssumption DEF BotInv, TypeOK
  <2>3. <<now, a>>[1] = now /\ <<now, a>>[2] = a
    OBVIOUS
  <2>4. DOMAIN cache = Tenants
    BY DEF BotInv, CallTypes
  <2>5. CASE UNCHANGED cache
    BY <2>1, <2>4, <2>5
  <2>6. CASE cache' = [cache EXCEPT ![call[p].config] = <<now, a>>] /\ a.kind = "config"
    BY <1>3, <2>1, <2>2, <2>3, <2>4, <2>6
  <2>7. QED
    BY <2>5, <2>6
<1>5. TypeOK'
  <2>1. \A q \in Calls : call'[q].pc \in {"idle", "link", "ws", "legacy", "any", "done"}
    BY <1>1 DEF BotInv, TypeOK, OthersStay
  <2>2. \A t \in Tenants : cache'[t] = <<>> \/ (cache'[t][1] \in 0..now' /\ cache'[t][2].kind = "config")
    BY <1>4
  <2>3. QED
    BY <2>1, <2>2 DEF BotInv, TypeOK
<1>6. CallTypes'
  BY <1>1, <1>2, <1>4 DEF BotInv, CallTypes, OthersStay, Active
<1>7. Linked'
  <2>1. \A q \in Calls : Active(q)' => call'[q].config \in {call'[q].tenant} \cup seen'[q].owners
    BY <1>1, <1>2 DEF BotInv, Linked, OthersStay, Active
  <2>2. OnlyOwnOrLinked'
    BY <1>1, <1>2, <1>3 DEF BotInv, Linked, OnlyOwnOrLinked, Answered, OthersStay
  <2>3. QED
    BY <1>4, <2>1, <2>2 DEF Linked
<1>8. Witnessed'
  <2>1. MockHasACause'
    BY <1>1, <1>2 DEF BotInv, Witnessed, MockHasACause, Answered, OthersStay
  <2>2. QED
    BY <1>1, <1>2, <2>1 DEF BotInv, Witnessed, OthersStay, Active
<1>9. QED
  BY <1>5, <1>6, <1>7, <1>8 DEF BotInv

\* A call that goes on, after the same configuration.
LEMMA GoOnKeeps ==
    ASSUME BotInv, NEW p \in Calls, Active(p), OthersStay(p),
           UNCHANGED <<rows, link, now, calls, edits, seen, cache>>,
           call'[p].pc \in {"ws", "legacy", "any"},
           call'[p].tenant = call[p].tenant, call'[p].config = call[p].config,
           call'[p].doc \in RowDocs \cup {NoRow},
           call'[p].pc = "legacy" => call'[p].ws \in RowDocs \cup {NoRow},
           call'[p].pc = "legacy" /\ ~Holds(call'[p].doc) => {} \in seen[p].homes,
           call'[p].pc = "any" => {} \in seen[p].homes
    PROVE  BotInv'
<1>1. TypeOK'
  <2>1. \A q \in Calls : call'[q].pc \in {"idle", "link", "ws", "legacy", "any", "done"}
    BY DEF BotInv, TypeOK, OthersStay
  <2>2. \A t \in Tenants : cache'[t] = <<>> \/ (cache'[t][1] \in 0..now' /\ cache'[t][2].kind = "config")
    BY DEF BotInv, TypeOK
  <2>3. QED
    BY <2>1, <2>2 DEF BotInv, TypeOK
<1>2. CallTypes'
  BY DEF BotInv, CallTypes, OthersStay, Active
<1>3. Linked'
  BY DEF BotInv, Linked, OnlyOwnOrLinked, Answered, OthersStay, Active
<1>4. Witnessed'
  BY DEF BotInv, Witnessed, MockHasACause, Answered, OthersStay, Active
<1>5. QED
  BY <1>1, <1>2, <1>3, <1>4 DEF BotInv

\* The last document read is resolved, stored and handed out; without the agent
\* in it the answer is the stand-in.
LEMMA ResolveKeeps ==
    ASSUME BotInv, NEW p \in Calls, Active(p), NEW doc, NEW torn, ResolveAndStore(p, doc, torn),
           UNCHANGED <<rows, link, now, calls, edits, seen>>,
           ~Holds(doc) => {} \in seen[p].homes
    PROVE  BotInv'
<1>1. CASE Holds(doc)
  <2> DEFINE bot == Config(call[p].config, doc, torn)
  <2>1. bot.kind = "config" /\ bot.config_tenant = call[p].config
    BY DEF Config
  <2>2. Answer(p, bot) /\ (UNCHANGED cache \/ cache' = [cache EXCEPT ![call[p].config] = <<now, bot>>])
    BY <1>1 DEF ResolveAndStore
  <2> HIDE DEF bot
  <2>3. QED
    BY <2>1, <2>2, AnswerKeeps
<1>2. CASE ~Holds(doc)
  <2>1. Mock.kind = "mock"
    BY DEF Mock
  <2>2. Answer(p, Mock) /\ UNCHANGED cache
    BY <1>2 DEF ResolveAndStore
  <2>3. UNCHANGED seen /\ (seen'[p].failed \/ {} \in seen'[p].homes)
    BY <1>2
  <2>4. QED
    BY <2>1, <2>2, <2>3, AnswerKeeps
<1>3. QED
  BY <1>1, <1>2

\* A call starts, after its own configuration or a linked owner's.
LEMMA GetBotKeeps ==
    ASSUME BotInv, NEW p \in Calls, GetBot(p)
    PROVE  BotInv'
<1>1. PICK t \in Tenants, failed \in BOOLEAN :
        LET c == IF failed THEN t ELSE ConfigTenant(t) IN
        /\ call' = [call EXCEPT ![p] = [pc |-> "link", tenant |-> t, config |-> c, start |-> now]]
        /\ seen' = [seen EXCEPT ![p] = [homes |-> {Home(rows, c)}, failed |-> FALSE,
                       owners |-> IF link # Unlinked /\ link.to = t THEN {link.owner} ELSE {}]]
  BY DEF GetBot
<1> DEFINE c == IF failed THEN t ELSE ConfigTenant(t)
           before == IF link # Unlinked /\ link.to = t THEN {link.owner} ELSE {}
<1>2. c \in Tenants /\ c \in {t} \cup before
  <2>1. c \in Tenants
    BY LinkTyped DEF BotInv
  <2>2. c \in {t} \cup before
    BY DEF ConfigTenant
  <2>3. QED
    BY <2>1, <2>2
<1>3. /\ call' = [call EXCEPT ![p] = [pc |-> "link", tenant |-> t, config |-> c, start |-> now]]
      /\ seen' = [seen EXCEPT ![p] = [homes |-> {Home(rows, c)}, failed |-> FALSE, owners |-> before]]
  BY <1>1
<1> HIDE DEF c, before
<1>4. /\ OthersStay(p) /\ DOMAIN seen' = Calls
      /\ \A q \in Calls : q # p => seen'[q] = seen[q]
      /\ call'[p].pc = "link" /\ call'[p].tenant = t /\ call'[p].config = c
      /\ seen'[p].owners = before /\ seen'[p].homes = {Home(rows, c)}
      /\ DOMAIN seen'[p] = {"owners", "homes", "failed"}
  BY <1>3 DEF BotInv, CallTypes, OthersStay
<1>5. UNCHANGED <<rows, link, cache, now, edits>> /\ calls' = calls + 1 /\ calls < MaxCalls
  BY DEF GetBot
<1>6. TypeOK'
  <2>1. \A q \in Calls : call'[q].pc \in {"idle", "link", "ws", "legacy", "any", "done"}
    BY <1>4 DEF BotInv, TypeOK, OthersStay
  <2>2. \A u \in Tenants : cache'[u] = <<>> \/ (cache'[u][1] \in 0..now' /\ cache'[u][2].kind = "config")
    BY <1>5 DEF BotInv, TypeOK
  <2>3. calls' \in 0..MaxCalls
    BY <1>5, BoundsAssumption DEF BotInv, TypeOK
  <2>4. QED
    BY <1>5, <2>1, <2>2, <2>3 DEF BotInv, TypeOK
<1>7. CallTypes'
  BY <1>2, <1>4, <1>5 DEF BotInv, CallTypes, OthersStay, Active
<1>8. Linked'
  BY <1>2, <1>4, <1>5 DEF BotInv, Linked, OnlyOwnOrLinked, Answered, OthersStay, Active
<1>9. Witnessed'
  BY <1>4, <1>5 DEF BotInv, Witnessed, MockHasACause, Answered, OthersStay, Active
<1>10. QED
  BY <1>6, <1>7, <1>8, <1>9 DEF BotInv

\* The cached configuration is its tenant's; on a miss the call goes on with
\* the workspace row.
LEMMA LookUpKeeps ==
    ASSUME BotInv, NEW p \in Calls, LookUp(p)
    PROVE  BotInv'
<1>1. Active(p) /\ call[p].config \in Tenants
  BY DEF LookUp, Active, BotInv, CallTypes
<1>2. CASE Fresh(call[p].config)
  <2> DEFINE a == cache[call[p].config][2]
  <2>1. cache[call[p].config] # <<>>
    BY <1>2 DEF Fresh
  <2>2. a.kind = "config" /\ a.config_tenant = call[p].config
    BY <1>1, <2>1 DEF BotInv, TypeOK, Linked
  <2>3. Answer(p, a) /\ UNCHANGED <<rows, link, cache, now, calls, edits, seen>>
    BY <1>2 DEF LookUp
  <2> HIDE DEF a
  <2>4. QED
    BY <1>1, <2>2, <2>3, AnswerKeeps
<1>3. CASE ~Fresh(call[p].config)
  <2> DEFINE row == rows[call[p].config]["ws"]
  <2>1. call' = [call EXCEPT ![p] = [pc |-> "ws", tenant |-> call[p].tenant, config |-> call[p].config,
                                     start |-> call[p].start, doc |-> row]]
    BY <1>3 DEF LookUp
  <2>2. row \in RowDocs \cup {NoRow}
    BY <1>1, RowTyped DEF BotInv, Scopes
  <2> HIDE DEF row
  <2>3. /\ OthersStay(p) /\ call'[p].pc = "ws" /\ call'[p].tenant = call[p].tenant
        /\ call'[p].config = call[p].config /\ call'[p].doc = row
    BY <2>1 DEF BotInv, CallTypes, OthersStay
  <2>4. UNCHANGED <<rows, link, cache, now, calls, edits, seen>>
    BY DEF LookUp
  <2>5. QED
    BY <1>1, <2>2, <2>3, <2>4, GoOnKeeps
<1>4. QED
  BY <1>2, <1>3

\* The workspace row holds the agent, or the row that does is looked for; when
\* none is found, none held it then.
LEMMA AfterWsKeeps ==
    ASSUME BotInv, NEW p \in Calls, AfterWs(p)
    PROVE  BotInv'
<1>1. /\ Active(p) /\ call[p].config \in Tenants
      /\ call[p].doc \in RowDocs \cup {NoRow}
      /\ Home(rows, call[p].config) \in seen[p].homes
  BY DEF AfterWs, Active, BotInv, CallTypes, Witnessed
<1>2. UNCHANGED <<rows, link, now, calls, edits, seen>>
  BY DEF AfterWs
<1>3. CASE Holds(call[p].doc)
  <2>1. ResolveAndStore(p, call[p].doc, FALSE)
    BY <1>3 DEF AfterWs
  <2>2. QED
    BY <1>1, <1>2, <1>3, <2>1, ResolveKeeps
<1>4. CASE ~Holds(call[p].doc)
  <2>1. QueryLegacy(p) /\ UNCHANGED cache
    BY <1>4 DEF AfterWs
  <2>2. PICK doc : /\ doc \in RowDocs \cup {NoRow}
                   /\ ~Holds(doc) => {} \in seen[p].homes
                   /\ call' = [call EXCEPT ![p] = [pc |-> "legacy", tenant |-> call[p].tenant,
                         config |-> call[p].config, start |-> call[p].start, ws |-> call[p].doc, doc |-> doc,
                         torn |-> rows[call[p].config]["ws"] # call[p].doc]]
    <3>1. CASE Home(rows, call[p].config) = {} /\ Home(rows, call[p].config) # {}
      BY <3>1
    <3>2. ASSUME NEW s \in Home(rows, call[p].config)
          PROVE  rows[call[p].config][s] \in RowDocs \cup {NoRow} /\ Holds(rows[call[p].config][s])
      BY <1>1, RowTyped DEF BotInv, Home
    <3>3. QED
      BY <1>1, <2>1, <3>2 DEF QueryLegacy
  <2>3. /\ OthersStay(p) /\ call'[p].pc = "legacy" /\ call'[p].tenant = call[p].tenant
        /\ call'[p].config = call[p].config /\ call'[p].doc = doc /\ call'[p].ws = call[p].doc
    BY <2>2 DEF BotInv, CallTypes, OthersStay
  <2>4. QED
    BY <1>1, <1>2, <2>1, <2>2, <2>3, GoOnKeeps
<1>5. QED
  BY <1>3, <1>4

\* The merged document holds the agent; without a row that held it, what is
\* left to answer with may not.
LEMMA AfterLegacyKeeps ==
    ASSUME BotInv, NEW p \in Calls, AfterLegacy(p)
    PROVE  BotInv'
<1>1. /\ Active(p) /\ call[p].config \in Tenants
      /\ call[p].doc \in RowDocs \cup {NoRow} /\ call[p].ws \in RowDocs \cup {NoRow}
      /\ ~Holds(call[p].doc) => {} \in seen[p].homes
  BY DEF AfterLegacy, Active, BotInv, CallTypes, Witnessed
<1>2. UNCHANGED <<rows, link, now, calls, edits, seen>>
  BY DEF AfterLegacy
<1>3. CASE call[p].doc # NoRow /\ ResolveAndStore(p, Merged(call[p].doc, call[p].ws), call[p].torn)
  <2>1. ~Holds(Merged(call[p].doc, call[p].ws)) => {} \in seen[p].homes
    BY <1>1, <1>3, MergedHolds
  <2>2. QED
    BY <1>1, <1>2, <1>3, <2>1, ResolveKeeps
<1>4. CASE call[p].doc = NoRow /\ ResolveAndStore(p, call[p].ws, FALSE)
  <2>1. {} \in seen[p].homes
    BY <1>1, <1>4 DEF Holds
  <2>2. QED
    BY <1>1, <1>2, <1>4, <2>1, ResolveKeeps
<1>5. CASE /\ call[p].doc = NoRow /\ UNCHANGED cache
           /\ \E doc \in {rows[call[p].config][s] : s \in Scopes} :
                call' = [call EXCEPT ![p] = [pc |-> "any", tenant |-> call[p].tenant, config |-> call[p].config,
                           start |-> call[p].start, doc |-> doc, torn |-> rows[call[p].config]["ws"] # NoRow]]
  <2>1. {} \in seen[p].homes
    BY <1>1, <1>5 DEF Holds
  <2>2. PICK doc \in RowDocs \cup {NoRow} :
                call' = [call EXCEPT ![p] = [pc |-> "any", tenant |-> call[p].tenant, config |-> call[p].config,
                           start |-> call[p].start, doc |-> doc, torn |-> rows[call[p].config]["ws"] # NoRow]]
    BY <1>1, <1>5, RowTyped DEF BotInv
  <2>3. /\ OthersStay(p) /\ call'[p].pc = "any" /\ call'[p].tenant = call[p].tenant
        /\ call'[p].config = call[p].config /\ call'[p].doc = doc
    BY <2>2 DEF BotInv, CallTypes, OthersStay
  <2>4. QED
    BY <1>1, <1>2, <1>5, <2>1, <2>3, GoOnKeeps
<1>6. QED
  BY <1>3, <1>4, <1>5 DEF AfterLegacy

LEMMA AfterAnyKeeps ==
    ASSUME BotInv, NEW p \in Calls, AfterAny(p)
    PROVE  BotInv'
<1>1. Active(p) /\ {} \in seen[p].homes
  BY DEF AfterAny, Active, BotInv, Witnessed
<1>2. QED
  BY <1>1, ResolveKeeps DEF AfterAny

LEMMA ReadFailsKeeps ==
    ASSUME BotInv, NEW p \in Calls, ReadFails(p)
    PROVE  BotInv'
<1>1. Active(p) /\ Mock.kind = "mock"
  BY DEF ReadFails, Active, Mock
<1>2. seen' = [seen EXCEPT ![p].failed = TRUE] /\ seen'[p].failed
  BY DEF ReadFails, BotInv, CallTypes
<1>3. Answer(p, Mock) /\ UNCHANGED <<rows, link, cache, now, calls, edits>>
  BY DEF ReadFails
<1>4. QED
  BY <1>1, <1>2, <1>3, AnswerKeeps

-----------------------------------------------------------------------------
(* What calls answer with is recent *)

LEMMA SinceEarlier ==
    ASSUME Timely, BotInv, NEW t \in Tenants, NEW g, NEW m \in Int, NEW k \in Int, k <= m, Since(lastTrue, t, g, m)
    PROVE  Since(lastTrue, t, g, k)
<1>1. PICK e \in lastTrue[t] : e[1] = g /\ e[2] >= m
  BY DEF Since
<1>2. e[2] \in Int
  BY DEF Timely, BotInv, TypeOK
<1>3. e[2] >= k
  BY <1>1, <1>2
<1>4. QED
  BY <1>1, <1>3 DEF Since

LEMMA ClockTyped ==
    ASSUME BotInv
    PROVE  now \in Nat /\ Slack \in Nat /\ Ttl \in Nat /\ MaxAge \in Nat /\ Slack <= MaxAge
           /\ (Ttl > 0 => MaxAge = Slack + Ttl - 1)
  BY TtlAssumption, BoundsAssumption DEF BotInv, TypeOK, MaxAge

LEMMA AnswerDated ==
    ASSUME BotInv, DatedInv, NEW p \in Calls, Active(p), NEW a, Answer(p, a),
           UNCHANGED <<rows, now, lastTrue>>,
           a.kind = "config" => a.config_tenant = call[p].config,
           Dated(lastTrue, a, call[p].config, now, MaxAge),
           \/ UNCHANGED cache
           \/ cache' = [cache EXCEPT ![call[p].config] = <<now, a>>] /\ Dated(lastTrue, a, call[p].config, now, Slack)
    PROVE  DatedInv'
<1>1. /\ OthersStay(p) /\ call'[p].pc = "done" /\ call'[p].answer = a /\ call'[p].at = now
  BY DEF BotInv, CallTypes, Answer, OthersStay
<1>2. call[p].config \in Tenants /\ DOMAIN cache = Tenants
  BY DEF BotInv, CallTypes
<1>3. Timely'
  BY <1>1 DEF DatedInv, Timely, OthersStay, Active
<1>4. Cached'
  <2>1. CASE UNCHANGED cache
    BY <2>1 DEF DatedInv, Cached
  <2>2. CASE cache' = [cache EXCEPT ![call[p].config] = <<now, a>>] /\ Dated(lastTrue, a, call[p].config, now, Slack)
    <3>1. <<now, a>>[1] = now /\ <<now, a>>[2] = a
      OBVIOUS
    <3>2. ASSUME NEW t \in Tenants, cache'[t] # <<>>
          PROVE  Dated(lastTrue', cache'[t][2], t, cache'[t][1], Slack)
      <4>1. CASE t = call[p].config
        BY <1>2, <2>2, <3>1, <4>1
      <4>2. CASE t # call[p].config
        BY <1>2, <2>2, <3>2, <4>2 DEF DatedInv, Cached
      <4>3. QED
        BY <4>1, <4>2
    <3>3. QED
      BY <3>2 DEF Cached
  <2>3. QED
    BY <2>1, <2>2
<1>5. AnswerWell(lastTrue', call'[p], now')
  <2>1. now \in 0 .. now
    BY ClockTyped
  <2>2. Dated(lastTrue, a, a.config_tenant, now, MaxAge)
    BY DEF Dated
  <2>3. QED
    BY <1>1, <1>2, <2>1, <2>2 DEF AnswerWell
<1>6. ReadWell(lastTrue', call'[p])
  BY <1>1 DEF ReadWell
<1>7. QED
  BY <1>1, <1>3, <1>4, <1>5, <1>6 DEF DatedInv, OthersStay

LEMMA GoOnDated ==
    ASSUME BotInv, DatedInv, NEW p \in Calls, OthersStay(p),
           UNCHANGED <<rows, now, lastTrue, cache>>,
           call'[p].pc \in {"link", "ws", "legacy", "any"},
           call'[p].start \in 0 .. now /\ now - call'[p].start <= Slack,
           ReadWell(lastTrue, call'[p])
    PROVE  DatedInv'
<1>1. Timely'
  BY DEF DatedInv, Timely, OthersStay, Active
<1>2. Cached'
  BY DEF DatedInv, Cached
<1>3. AnswerWell(lastTrue', call'[p], now')
  BY DEF AnswerWell
<1>4. QED
  BY <1>1, <1>2, <1>3 DEF DatedInv, OthersStay

LEMMA ResolveDated ==
    ASSUME BotInv, DatedInv, NEW p \in Calls, Active(p), NEW doc, NEW torn, ResolveAndStore(p, doc, torn),
           UNCHANGED <<rows, now, lastTrue>>,
           Holds(doc) => IsDocument(doc),
           Holds(doc) /\ ~torn => Since(lastTrue, call[p].config, GrantedBy(doc), call[p].start)
    PROVE  DatedInv'
<1>1. CASE Holds(doc)
  <2> DEFINE bot == Config(call[p].config, doc, torn)
  <2>1. /\ bot.kind = "config" /\ bot.config_tenant = call[p].config /\ bot.torn = torn
        /\ bot.kb_ids = ResolveEffectiveKbIds(doc)
    BY DEF Config
  <2>2. Answer(p, bot) /\ (UNCHANGED cache \/ cache' = [cache EXCEPT ![call[p].config] = <<now, bot>>])
    BY <1>1 DEF ResolveAndStore
  <2>3. IsInjective(bot.kb_ids) /\ ToSet(bot.kb_ids) = GrantedBy(doc)
    BY <1>1, <2>1, ResolveGrants
  <2> HIDE DEF bot
  <2>4. ASSUME ~torn PROVE Since(lastTrue, call[p].config, GrantedBy(doc), now - Slack)
                           /\ Since(lastTrue, call[p].config, GrantedBy(doc), now - MaxAge)
    <3>1. Since(lastTrue, call[p].config, GrantedBy(doc), call[p].start)
      BY <1>1, <2>4
    <3>2. /\ call[p].config \in Tenants /\ Timely
          /\ call[p].start \in Int /\ now - Slack <= call[p].start /\ now - MaxAge <= call[p].start
          /\ now - Slack \in Int /\ now - MaxAge \in Int
      BY ClockTyped DEF BotInv, CallTypes, DatedInv, Timely
    <3>3. QED
      BY <3>1, <3>2, SinceEarlier
  <2>5. Dated(lastTrue, bot, call[p].config, now, Slack) /\ Dated(lastTrue, bot, call[p].config, now, MaxAge)
    BY <2>1, <2>3, <2>4 DEF Dated
  <2>6. QED
    BY <2>1, <2>2, <2>5, AnswerDated
<1>2. CASE ~Holds(doc)
  <2>1. Mock.kind = "mock" /\ Answer(p, Mock) /\ UNCHANGED cache
    BY <1>2 DEF ResolveAndStore, Mock
  <2>2. Dated(lastTrue, Mock, call[p].config, now, MaxAge)
    BY <2>1 DEF Dated
  <2>3. QED
    BY <2>1, <2>2, AnswerDated
<1>3. QED
  BY <1>1, <1>2

LEMMA GetBotDated ==
    ASSUME BotInv, DatedInv, NEW p \in Calls, GetBot(p)
    PROVE  DatedInv'
<1>1. UNCHANGED <<rows, cache, now, lastTrue>>
  BY DEF GetBot
<1>2. OthersStay(p) /\ call'[p].pc = "link" /\ call'[p].start = now
  BY DEF GetBot, BotInv, CallTypes, OthersStay
<1>3. now \in 0 .. now /\ now - now <= Slack
  BY ClockTyped
<1>4. ReadWell(lastTrue, call'[p])
  BY <1>2 DEF ReadWell
<1>5. QED
  BY <1>1, <1>2, <1>3, <1>4, GoOnDated

LEMMA LookUpDated ==
    ASSUME BotInv, DatedInv, NEW p \in Calls, LookUp(p)
    PROVE  DatedInv'
<1>1. /\ Active(p) /\ call[p].config \in Tenants
      /\ call[p].start \in 0 .. now /\ now - call[p].start <= Slack
      /\ UNCHANGED <<rows, now, lastTrue, cache>>
  BY DEF LookUp, Active, BotInv, CallTypes, DatedInv, Timely
<1>2. CASE Fresh(call[p].config)
  <2> DEFINE t == call[p].config
             a == cache[t][2]
             stamp == cache[t][1]
  <2>1. Ttl > 0 /\ cache[t] # <<>> /\ now - stamp < Ttl
    BY <1>2 DEF Fresh
  <2>2. a.config_tenant = t /\ stamp \in 0 .. now
    BY <1>1, <2>1 DEF BotInv, TypeOK, Linked
  <2>3. Dated(lastTrue, a, t, stamp, Slack)
    BY <1>1, <2>1 DEF DatedInv, Cached
  <2>4. Answer(p, a)
    BY <1>2 DEF LookUp
  <2> HIDE DEF a, stamp, t
  <2>5. stamp - Slack \in Int /\ now - MaxAge \in Int /\ now - MaxAge <= stamp - Slack
    BY <2>1, <2>2, ClockTyped
  <2>6. t \in Tenants /\ Timely
    BY <1>1 DEF t, DatedInv
  <2>7. Since(lastTrue, t, ToSet(a.kb_ids), stamp - Slack) => Since(lastTrue, t, ToSet(a.kb_ids), now - MaxAge)
    BY <2>5, <2>6, SinceEarlier
  <2>8. Dated(lastTrue, a, t, now, MaxAge)
    BY <2>3, <2>7 DEF Dated
  <2>9. QED
    BY <1>1, <2>2, <2>4, <2>8, AnswerDated DEF t
<1>3. CASE ~Fresh(call[p].config)
  <2> DEFINE t == call[p].config
             row == rows[t]["ws"]
  <2>1. call' = [call EXCEPT ![p] = [pc |-> "ws", tenant |-> call[p].tenant, config |-> t,
                                     start |-> call[p].start, doc |-> row]]
    BY <1>3 DEF LookUp
  <2>2. ASSUME Holds(row) PROVE Since(lastTrue, t, GrantedBy(row), call[p].start)
    <3>1. "ws" \in Home(rows, t) /\ Meant(rows, t) = row
      BY <2>2 DEF Home, Meant, Scopes
    <3>2. Timely /\ Since(lastTrue, t, GrantedBy(row), now)
      BY <1>1, <3>1 DEF DatedInv, Timely
    <3> HIDE DEF row
    <3>3. call[p].start \in Int /\ now \in Int /\ call[p].start <= now
      BY <1>1, ClockTyped
    <3>4. QED
      BY <1>1, <3>2, <3>3, SinceEarlier
  <2> HIDE DEF row, t
  <2>3. /\ OthersStay(p) /\ call'[p].pc = "ws" /\ call'[p].start = call[p].start
        /\ call'[p].doc = row /\ call'[p].config = t
    BY <2>1 DEF BotInv, CallTypes, OthersStay
  <2>4. ReadWell(lastTrue, call'[p])
    BY <2>2, <2>3 DEF ReadWell
  <2>5. QED
    BY <1>1, <2>3, <2>4, GoOnDated
<1>4. QED
  BY <1>2, <1>3

\* What is true of a workspace now has been true since a call began.
LEMMA NowIsSince ==
    ASSUME BotInv, DatedInv, NEW p \in Calls, Active(p), Home(rows, call[p].config) # {}
    PROVE  Since(lastTrue, call[p].config, GrantedBy(Meant(rows, call[p].config)), call[p].start)
<1> DEFINE g == GrantedBy(Meant(rows, call[p].config))
<1>1. call[p].config \in Tenants /\ call[p].start \in 0 .. now /\ Timely
  BY DEF BotInv, CallTypes, DatedInv, Timely
<1>2. Since(lastTrue, call[p].config, g, now)
  BY <1>1 DEF Timely
<1> HIDE DEF g
<1>3. call[p].start \in Int /\ now \in Int /\ call[p].start <= now
  BY <1>1, ClockTyped
<1>4. Since(lastTrue, call[p].config, g, call[p].start)
  BY <1>1, <1>2, <1>3, SinceEarlier
<1>5. QED
  BY <1>4 DEF g

LEMMA AfterWsDated ==
    ASSUME BotInv, DatedInv, NEW p \in Calls, AfterWs(p)
    PROVE  DatedInv'
<1>1. /\ Active(p) /\ call[p].pc = "ws"
      /\ call[p].doc \in RowDocs \cup {NoRow} /\ call[p].config \in Tenants
      /\ call[p].start \in 0 .. now /\ now - call[p].start <= Slack
      /\ UNCHANGED <<rows, now, lastTrue>>
  BY DEF AfterWs, Active, BotInv, CallTypes, DatedInv, Timely
<1>2. CASE Holds(call[p].doc)
  <2>1. ResolveAndStore(p, call[p].doc, FALSE)
    BY <1>2 DEF AfterWs
  <2>2. IsDocument(call[p].doc)
    BY <1>1, <1>2, DocsAssumption DEF Holds
  <2>3. Since(lastTrue, call[p].config, GrantedBy(call[p].doc), call[p].start)
    BY <1>1, <1>2 DEF DatedInv, ReadWell
  <2>4. QED
    BY <1>1, <2>1, <2>2, <2>3, ResolveDated
<1>3. CASE ~Holds(call[p].doc)
  <2> DEFINE t == call[p].config
             ws == call[p].doc
             go(doc) == call' = [call EXCEPT ![p] = [pc |-> "legacy", tenant |-> call[p].tenant, config |-> t,
                                   start |-> call[p].start, ws |-> ws, doc |-> doc, torn |-> rows[t]["ws"] # ws]]
  <2>1. UNCHANGED cache /\ ((\E s \in Home(rows, t) : go(rows[t][s])) \/ go(NoRow))
    BY <1>3 DEF AfterWs, QueryLegacy
  <2>2. PICK doc : /\ go(doc)
                   /\ doc # NoRow /\ rows[t]["ws"] = ws => Since(lastTrue, t, GrantedBy(Merged(doc, ws)), call[p].start)
    <3>1. CASE go(NoRow)
      BY <3>1
    <3>2. CASE \E s \in Home(rows, t) : go(rows[t][s])
      <4>1. PICK s \in Home(rows, t) : go(rows[t][s])
        BY <3>2
      <4>2. ASSUME rows[t]["ws"] = ws PROVE Meant(rows, t) = Merged(rows[t][s], ws)
        <5>1. "ws" \notin Home(rows, t)
          BY <1>3, <4>2 DEF Home
        <5>2. s = "member"
          BY <5>1 DEF Home, Scopes
        <5>3. QED
          BY <4>2, <5>1, <5>2 DEF Meant
      <4>3. Since(lastTrue, t, GrantedBy(Meant(rows, t)), call[p].start)
        BY <1>1, NowIsSince
      <4> HIDE DEF go, t, ws
      <4>4. QED
        BY <4>1, <4>2, <4>3
    <3>3. QED
      BY <2>1, <3>1, <3>2
  <2>3. /\ OthersStay(p) /\ call'[p].pc = "legacy" /\ call'[p].start = call[p].start
        /\ call'[p].doc = doc /\ call'[p].config = t /\ call'[p].ws = ws
        /\ call'[p].torn = (rows[t]["ws"] # ws)
    BY <2>2 DEF BotInv, CallTypes, OthersStay
  <2>4. ReadWell(lastTrue, call'[p])
    BY <1>3, <2>2, <2>3 DEF ReadWell
  <2>5. QED
    BY <1>1, <2>1, <2>3, <2>4, GoOnDated
<1>4. QED
  BY <1>2, <1>3

LEMMA AfterLegacyDated ==
    ASSUME BotInv, DatedInv, NEW p \in Calls, AfterLegacy(p)
    PROVE  DatedInv'
<1>1. /\ Active(p) /\ call[p].pc = "legacy"
      /\ call[p].doc \in RowDocs \cup {NoRow} /\ call[p].ws \in RowDocs \cup {NoRow} /\ call[p].config \in Tenants
      /\ call[p].start \in 0 .. now /\ now - call[p].start <= Slack
      /\ UNCHANGED <<rows, now, lastTrue>>
      /\ ~Holds(call[p].ws)
  BY DEF AfterLegacy, Active, BotInv, CallTypes, DatedInv, Timely, ReadWell
<1>2. CASE call[p].doc # NoRow /\ ResolveAndStore(p, Merged(call[p].doc, call[p].ws), call[p].torn)
  <2>1. IsDocument(Merged(call[p].doc, call[p].ws))
    BY <1>1, <1>2, MergedIsDocument
  <2>2. ~call[p].torn => Since(lastTrue, call[p].config, GrantedBy(Merged(call[p].doc, call[p].ws)), call[p].start)
    BY <1>1, <1>2 DEF DatedInv, ReadWell
  <2>3. QED
    BY <1>1, <1>2, <2>1, <2>2, ResolveDated
<1>3. CASE ResolveAndStore(p, call[p].ws, FALSE)
  BY <1>1, <1>3, ResolveDated
<1> DEFINE t == call[p].config
           go(doc) == call' = [call EXCEPT ![p] = [pc |-> "any", tenant |-> call[p].tenant, config |-> t,
                           start |-> call[p].start, doc |-> doc, torn |-> rows[t]["ws"] # NoRow]]
<1>4. CASE UNCHANGED cache /\ \E s \in Scopes : go(rows[t][s])
  <2>1. PICK s \in Scopes : go(rows[t][s])
    BY <1>4
  <2> DEFINE doc == rows[t][s]
  <2>2. ASSUME Holds(doc), rows[t]["ws"] = NoRow PROVE Since(lastTrue, t, GrantedBy(doc), call[p].start)
    <3>1. s \in Home(rows, t) /\ "ws" \notin Home(rows, t)
      BY <2>2 DEF Home, Holds
    <3>2. s = "member"
      BY <3>1 DEF Scopes
    <3>3. Meant(rows, t) = doc
      BY <2>2, <3>1, <3>2 DEF Meant, Merged
    <3>4. Since(lastTrue, t, GrantedBy(Meant(rows, t)), call[p].start)
      BY <1>1, <3>1, NowIsSince
    <3>5. QED
      BY <3>3, <3>4
  <2>3. /\ OthersStay(p) /\ call'[p].pc = "any" /\ call'[p].start = call[p].start
        /\ call'[p].doc = doc /\ call'[p].config = t /\ call'[p].torn = (rows[t]["ws"] # NoRow)
    BY <2>1 DEF BotInv, CallTypes, OthersStay
  <2> HIDE DEF doc, t
  <2>4. ReadWell(lastTrue, call'[p])
    BY <2>2, <2>3 DEF ReadWell
  <2>5. QED
    BY <1>1, <1>4, <2>3, <2>4, GoOnDated
<1>5. QED
  BY <1>2, <1>3, <1>4 DEF AfterLegacy

LEMMA AfterAnyDated ==
    ASSUME BotInv, DatedInv, NEW p \in Calls, AfterAny(p)
    PROVE  DatedInv'
<1>1. /\ Active(p) /\ call[p].pc = "any" /\ call[p].doc \in RowDocs \cup {NoRow}
      /\ UNCHANGED <<rows, now, lastTrue>> /\ ResolveAndStore(p, call[p].doc, call[p].torn)
  BY DEF AfterAny, Active, BotInv, CallTypes
<1>2. Holds(call[p].doc) => IsDocument(call[p].doc)
  BY <1>1, DocsAssumption DEF Holds
<1>3. Holds(call[p].doc) /\ ~call[p].torn => Since(lastTrue, call[p].config, GrantedBy(call[p].doc), call[p].start)
  BY <1>1 DEF DatedInv, ReadWell
<1>4. QED
  BY <1>1, <1>2, <1>3, ResolveDated

LEMMA ReadFailsDated ==
    ASSUME BotInv, DatedInv, NEW p \in Calls, ReadFails(p)
    PROVE  DatedInv'
<1>1. /\ Active(p) /\ Mock.kind = "mock" /\ Answer(p, Mock)
      /\ UNCHANGED <<rows, now, lastTrue, cache>>
  BY DEF ReadFails, Active, Mock
<1>2. Dated(lastTrue, Mock, call[p].config, now, MaxAge)
  BY <1>1 DEF Dated
<1>3. QED
  BY <1>1, <1>2, AnswerDated

-----------------------------------------------------------------------------
(* The history only gets later *)

Later(old, new) ==
    /\ DOMAIN new = Tenants
    /\ \A t \in Tenants : \A e \in old[t] : \E f \in new[t] : f[1] = e[1] /\ f[2] >= e[2]
    /\ \A t \in Tenants : \A e \in old[t] : e[2] \in Int
    /\ \A t \in Tenants : \A f \in new[t] : f[2] \in Int

LEMMA SinceStays ==
    ASSUME NEW old, NEW new, Later(old, new), NEW t \in Tenants, NEW g, NEW m \in Int, Since(old, t, g, m)
    PROVE  Since(new, t, g, m)
<1>1. PICK e \in old[t] : e[1] = g /\ e[2] >= m
  BY DEF Since
<1>2. PICK f \in new[t] : f[1] = e[1] /\ f[2] >= e[2]
  BY DEF Later
<1>3. e[2] \in Int /\ f[2] \in Int
  BY DEF Later
<1>4. f[1] = g /\ f[2] >= m
  BY <1>1, <1>2, <1>3
<1>5. QED
  BY <1>4 DEF Since

LEMMA RememberWell ==
    ASSUME Timely, BotInv, NEW rs, NEW tick \in Nat, now <= tick
    PROVE  /\ Later(lastTrue, Remember(rs, tick))
           /\ \A t \in Tenants : \A e \in Remember(rs, tick)[t] : e[2] \in 0 .. tick
           /\ \A t \in Tenants : Home(rs, t) # {} => Since(Remember(rs, tick), t, GrantedBy(Meant(rs, t)), tick)
<1> DEFINE new == Remember(rs, tick)
           g(t) == GrantedBy(Meant(rs, t))
<1>1. /\ DOMAIN new = Tenants
      /\ \A t \in Tenants : new[t] = IF Home(rs, t) = {} THEN lastTrue[t]
                                     ELSE {e \in lastTrue[t] : e[1] # g(t)} \cup {<<g(t), tick>>}
  BY DEF Remember
<1> HIDE DEF new, g
<1>2. \A t \in Tenants : \A e \in lastTrue[t] : e[2] \in 0 .. tick /\ e[2] \in Int /\ e[2] <= tick
  BY ClockTyped DEF Timely
<1>3. \A t \in Tenants : \A e \in new[t] : e[2] \in 0 .. tick
  <2>1. \A t \in Tenants : <<g(t), tick>>[2] = tick /\ tick \in 0 .. tick
    OBVIOUS
  <2>2. QED
    BY <1>1, <1>2, <2>1
<1>4. ASSUME NEW t \in Tenants, NEW e \in lastTrue[t]
      PROVE  \E f \in new[t] : f[1] = e[1] /\ f[2] >= e[2]
  <2> DEFINE latest == <<g(t), tick>>
  <2>1. latest[1] = g(t) /\ latest[2] = tick
    OBVIOUS
  <2>2. e[2] \in Int /\ tick >= e[2] /\ e[2] >= e[2]
    BY <1>2
  <2> HIDE DEF latest
  <2>3. CASE Home(rs, t) = {} \/ e[1] # g(t)
    BY <1>1, <2>2, <2>3
  <2>4. CASE Home(rs, t) # {} /\ e[1] = g(t)
    <3>1. latest \in new[t]
      BY <1>1, <2>4 DEF latest
    <3>2. QED
      BY <2>1, <2>2, <2>4, <3>1
  <2>5. QED
    BY <2>3, <2>4
<1>5. ASSUME NEW t \in Tenants, Home(rs, t) # {} PROVE Since(new, t, g(t), tick)
  <2>1. <<g(t), tick>> \in new[t]
    BY <1>1, <1>5
  <2>2. <<g(t), tick>>[1] = g(t) /\ <<g(t), tick>>[2] = tick /\ tick >= tick
    OBVIOUS
  <2>3. QED
    BY <2>1, <2>2 DEF Since
<1>6. Later(lastTrue, new)
  <2>1. \A t \in Tenants : \A f \in new[t] : f[2] \in Int
    BY <1>3
  <2>2. QED
    BY <1>1, <1>2, <1>4, <2>1 DEF Later
<1>7. QED
  BY <1>3, <1>5, <1>6 DEF new, g

LEMMA DatedStays ==
    ASSUME NEW old, NEW new, Later(old, new), NEW bot, NEW t \in Tenants, NEW m \in Int, NEW age \in Int,
           Dated(old, bot, t, m, age)
    PROVE  Dated(new, bot, t, m, age)
<1>1. m - age \in Int
  OBVIOUS
<1>2. QED
  BY <1>1, SinceStays DEF Dated

\* What was read, stored and handed out stays true as the history goes on.
LEMMA HistoryGoesOn ==
    ASSUME BotInv, DatedInv, Later(lastTrue, lastTrue'), UNCHANGED <<call, cache>>,
           now' \in Nat, now <= now'
    PROVE  /\ Cached'
           /\ \A p \in Calls : ReadWell(lastTrue', call'[p]) /\ AnswerWell(lastTrue', call'[p], now')
<1>1. ASSUME NEW t \in Tenants, cache[t] # <<>> PROVE Dated(lastTrue', cache[t][2], t, cache[t][1], Slack)
  <2>1. Dated(lastTrue, cache[t][2], t, cache[t][1], Slack)
    BY <1>1 DEF DatedInv, Cached
  <2>2. cache[t][1] \in Int /\ Slack \in Int
    BY <1>1, ClockTyped DEF BotInv, TypeOK
  <2>3. QED
    BY <2>1, <2>2, DatedStays
<1>2. Cached'
  BY <1>1 DEF Cached
<1>3. ASSUME NEW p \in Calls PROVE ReadWell(lastTrue', call[p])
  <2>1. ReadWell(lastTrue, call[p])
    BY DEF DatedInv
  <2>2. CASE call[p].pc \in {"ws", "legacy", "any"}
    <3>1. call[p].config \in Tenants /\ call[p].start \in Int
      BY <2>2, ClockTyped DEF BotInv, CallTypes, DatedInv, Timely, Active
    <3>2. ASSUME NEW g, Since(lastTrue, call[p].config, g, call[p].start)
          PROVE  Since(lastTrue', call[p].config, g, call[p].start)
      BY <3>1, <3>2, SinceStays
    <3>3. QED
      BY <2>1, <3>2 DEF ReadWell
  <2>3. CASE call[p].pc \notin {"ws", "legacy", "any"}
    BY <2>3 DEF ReadWell
  <2>4. QED
    BY <2>2, <2>3
<1>4. ASSUME NEW p \in Calls PROVE AnswerWell(lastTrue', call[p], now')
  <2>1. SUFFICES ASSUME call[p].pc = "done"
                 PROVE  /\ call[p].at \in 0 .. now'
                        /\ call[p].answer.kind = "config" => call[p].answer.config_tenant \in Tenants
                        /\ Dated(lastTrue', call[p].answer, call[p].answer.config_tenant, call[p].at, MaxAge)
    BY DEF AnswerWell
  <2>2. /\ call[p].at \in 0 .. now
        /\ call[p].answer.kind = "config" => call[p].answer.config_tenant \in Tenants
        /\ Dated(lastTrue, call[p].answer, call[p].answer.config_tenant, call[p].at, MaxAge)
    BY <2>1 DEF DatedInv, AnswerWell
  <2>3. call[p].at \in 0 .. now' /\ call[p].at \in Int /\ MaxAge \in Int
    BY <2>2, ClockTyped
  <2>4. CASE call[p].answer.kind = "config"
    BY <2>2, <2>3, <2>4, DatedStays
  <2>5. CASE call[p].answer.kind # "config"
    BY <2>2, <2>3, <2>5 DEF Dated
  <2>6. QED
    BY <2>4, <2>5
<1>5. QED
  BY <1>2, <1>3, <1>4

LEMMA StoreRowDated ==
    ASSUME BotInv, DatedInv, StoreRow
    PROVE  DatedInv'
<1>1. lastTrue' = Remember(rows', now) /\ UNCHANGED <<call, cache, now>>
  BY DEF StoreRow
<1>2. Timely /\ now \in Nat /\ now <= now
  BY ClockTyped DEF DatedInv
<1>3. /\ Later(lastTrue, lastTrue')
      /\ \A t \in Tenants : \A e \in lastTrue'[t] : e[2] \in 0 .. now
      /\ \A t \in Tenants : Home(rows', t) # {} => Since(lastTrue', t, GrantedBy(Meant(rows', t)), now)
  BY <1>1, <1>2, RememberWell
<1>4. Timely'
  BY <1>1, <1>2, <1>3 DEF Timely, Later, Active
<1>5. QED
  BY <1>1, <1>2, <1>3, <1>4, HistoryGoesOn DEF DatedInv

LEMMA TickDated ==
    ASSUME BotInv, DatedInv, Tick
    PROVE  DatedInv'
<1>1. /\ lastTrue' = Remember(rows, now') /\ UNCHANGED <<rows, call, cache>> /\ now' = now + 1
      /\ \A p \in Calls : Active(p) => now - call[p].start < Slack
  BY DEF Tick
<1>2. Timely /\ now \in Nat /\ now' \in Nat /\ now <= now'
  BY <1>1, ClockTyped DEF DatedInv
<1>3. /\ Later(lastTrue, lastTrue')
      /\ \A t \in Tenants : \A e \in lastTrue'[t] : e[2] \in 0 .. now'
      /\ \A t \in Tenants : Home(rows, t) # {} => Since(lastTrue', t, GrantedBy(Meant(rows, t)), now')
  BY <1>1, <1>2, RememberWell
<1>4. \A p \in Calls : Active(p) => call[p].start \in 0 .. now' /\ now' - call[p].start <= Slack
  BY <1>1, <1>2, ClockTyped DEF Timely
<1>5. Timely'
  BY <1>1, <1>3, <1>4 DEF Timely, Later, Active
<1>6. QED
  BY <1>1, <1>2, <1>3, <1>5, HistoryGoesOn DEF DatedInv

-----------------------------------------------------------------------------
(* core-api and the clock *)

LEMMA StoreRowKeeps ==
    ASSUME BotInv, StoreRow
    PROVE  BotInv'
<1>1. PICK t \in Owners, s \in Scopes, d \in RowDocs : rows' = [rows EXCEPT ![t][s] = d]
  BY DEF StoreRow
<1>2. /\ UNCHANGED <<link, cache, now, call, calls>> /\ edits < MaxEdits /\ edits' = edits + 1
      /\ seen' = [p \in Calls |-> IF Active(p)
                                  THEN [seen[p] EXCEPT !.homes = @ \cup {Home(rows', call[p].config)}]
                                  ELSE seen[p]]
  BY DEF StoreRow
<1>3. /\ DOMAIN seen' = Calls
      /\ \A p \in Calls : /\ DOMAIN seen'[p] = {"owners", "homes", "failed"}
                          /\ seen'[p].owners = seen[p].owners /\ seen'[p].failed = seen[p].failed
                          /\ seen'[p].homes = IF Active(p) THEN seen[p].homes \cup {Home(rows', call[p].config)}
                                                           ELSE seen[p].homes
  BY <1>2 DEF BotInv, CallTypes
<1>4. TypeOK'
  <2>1. rows' \in [Tenants -> [Scopes -> RowDocs \cup {NoRow}]]
    BY <1>1, OwnersAssumption DEF BotInv, TypeOK
  <2>2. edits' \in 0..MaxEdits
    BY <1>2, BoundsAssumption DEF BotInv, TypeOK
  <2>3. QED
    BY <1>2, <2>1, <2>2 DEF BotInv, TypeOK
<1>5. CallTypes'
  BY <1>2, <1>3 DEF BotInv, CallTypes, Active
<1>6. Linked'
  BY <1>2, <1>3 DEF BotInv, Linked, OnlyOwnOrLinked, Answered, Active
<1>7. Witnessed'
  BY <1>2, <1>3 DEF BotInv, Witnessed, MockHasACause, Answered, Active
<1>8. QED
  BY <1>4, <1>5, <1>6, <1>7 DEF BotInv

LEMMA RelinkKeeps ==
    ASSUME BotInv, Relink
    PROVE  BotInv'
<1>1. /\ UNCHANGED <<rows, cache, now, call, calls>> /\ edits < MaxEdits /\ edits' = edits + 1
      /\ link' \in Links
      /\ seen' = [p \in Calls |-> IF Active(p) /\ link' # Unlinked /\ link'.to = call[p].tenant
                                  THEN [seen[p] EXCEPT !.owners = @ \cup {link'.owner}]
                                  ELSE seen[p]]
  BY DEF Relink
<1>2. /\ DOMAIN seen' = Calls
      /\ \A p \in Calls : /\ DOMAIN seen'[p] = {"owners", "homes", "failed"}
                          /\ seen'[p].homes = seen[p].homes /\ seen'[p].failed = seen[p].failed
                          /\ seen[p].owners \subseteq seen'[p].owners
  BY <1>1 DEF BotInv, CallTypes
<1>3. TypeOK'
  <2>1. edits' \in 0..MaxEdits
    BY <1>1, BoundsAssumption DEF BotInv, TypeOK
  <2>2. QED
    BY <1>1, <2>1 DEF BotInv, TypeOK
<1>4. CallTypes'
  BY <1>1, <1>2 DEF BotInv, CallTypes, Active
<1>5. Linked'
  BY <1>1, <1>2 DEF BotInv, Linked, OnlyOwnOrLinked, Answered, Active
<1>6. Witnessed'
  BY <1>1, <1>2 DEF BotInv, Witnessed, MockHasACause, Answered, Active
<1>7. QED
  BY <1>3, <1>4, <1>5, <1>6 DEF BotInv

LEMMA TickKeeps ==
    ASSUME BotInv, Tick
    PROVE  BotInv'
<1>1. UNCHANGED <<rows, link, cache, call, calls, edits, seen>> /\ now < MaxClock /\ now' = now + 1
  BY DEF Tick
<1>2. TypeOK'
  <2>1. now' \in 0..MaxClock /\ 0..now \subseteq 0..now'
    BY <1>1, BoundsAssumption DEF BotInv, TypeOK
  <2>2. \A t \in Tenants : cache'[t] = <<>> \/ (cache'[t][1] \in 0..now' /\ cache'[t][2].kind = "config")
    BY <1>1, <2>1 DEF BotInv, TypeOK
  <2>3. QED
    BY <1>1, <2>1, <2>2 DEF BotInv, TypeOK
<1>3. CallTypes' /\ Linked' /\ Witnessed'
  BY <1>1 DEF BotInv, CallTypes, Linked, Witnessed, OnlyOwnOrLinked, MockHasACause, Answered, Active
<1>4. QED
  BY <1>2, <1>3 DEF BotInv

-----------------------------------------------------------------------------
(* The invariant, and what it says *)

LEMMA BotStarts ==
    ASSUME Init
    PROVE  BotInv
<1>1. /\ \A p \in Calls : call[p].pc = "idle" /\ DOMAIN seen[p] = {"owners", "homes", "failed"}
      /\ \A t \in Tenants : cache[t] = <<>>
      /\ DOMAIN call = Calls /\ DOMAIN seen = Calls /\ DOMAIN cache = Tenants
  BY DEF Init, Idle, Quiet
<1>2. TypeOK
  BY <1>1, DocsAssumption, LayoutsAssumption, BoundsAssumption DEF Init, TypeOK
<1>3. CallTypes /\ Linked /\ Witnessed
  BY <1>1 DEF CallTypes, Linked, Witnessed, OnlyOwnOrLinked, MockHasACause, Answered, Active
<1>4. QED
  BY <1>2, <1>3 DEF BotInv

LEMMA BotSteps ==
    ASSUME BotInv, [Next]_vars
    PROVE  BotInv'
<1>1. ASSUME NEW p \in Calls, GetBot(p) PROVE BotInv'
  BY <1>1, GetBotKeeps
<1>2. ASSUME NEW p \in Calls, LookUp(p) PROVE BotInv'
  BY <1>2, LookUpKeeps
<1>3. ASSUME NEW p \in Calls, AfterWs(p) PROVE BotInv'
  BY <1>3, AfterWsKeeps
<1>4. ASSUME NEW p \in Calls, AfterLegacy(p) PROVE BotInv'
  BY <1>4, AfterLegacyKeeps
<1>5. ASSUME NEW p \in Calls, AfterAny(p) PROVE BotInv'
  BY <1>5, AfterAnyKeeps
<1>6. ASSUME NEW p \in Calls, ReadFails(p) PROVE BotInv'
  BY <1>6, ReadFailsKeeps
<1>7. CASE StoreRow
  BY <1>7, StoreRowKeeps
<1>8. CASE Relink
  BY <1>8, RelinkKeeps
<1>9. CASE Tick
  BY <1>9, TickKeeps
<1>10. CASE UNCHANGED vars
  BY <1>10 DEF vars, BotInv, TypeOK, CallTypes, Linked, Witnessed, OnlyOwnOrLinked, MockHasACause, Answered, Active
<1>11. QED
  BY <1>1, <1>2, <1>3, <1>4, <1>5, <1>6, <1>7, <1>8, <1>9, <1>10 DEF Next

LEMMA DatedStarts ==
    ASSUME Init
    PROVE  DatedInv
<1>1. /\ now = 0 /\ \A p \in Calls : call[p].pc = "idle"
      /\ \A t \in Tenants : cache[t] = <<>>
      /\ DOMAIN lastTrue = Tenants
      /\ \A t \in Tenants : lastTrue[t] = IF Home(rows, t) = {} THEN {} ELSE {<<GrantedBy(Meant(rows, t)), 0>>}
  BY DEF Init, Idle
<1>2. \A g : <<g, 0>>[1] = g /\ <<g, 0>>[2] = 0
  OBVIOUS
<1>3. \A t \in Tenants : \A e \in lastTrue[t] : e[2] \in 0 .. now
  BY <1>1, <1>2
<1>4. ASSUME NEW t \in Tenants, Home(rows, t) # {} PROVE Since(lastTrue, t, GrantedBy(Meant(rows, t)), now)
  <2> DEFINE g == GrantedBy(Meant(rows, t))
  <2>1. <<g, 0>> \in lastTrue[t]
    BY <1>1, <1>4
  <2>2. <<g, 0>>[1] = g /\ <<g, 0>>[2] >= now
    BY <1>1
  <2>3. QED
    BY <2>1, <2>2 DEF Since
<1>5. Timely
  BY <1>1, <1>3, <1>4 DEF Timely, Active
<1>6. QED
  BY <1>1, <1>5 DEF DatedInv, Cached, ReadWell, AnswerWell

LEMMA DatedSteps ==
    ASSUME BotInv, DatedInv, [Next]_vars
    PROVE  DatedInv'
<1>1. ASSUME NEW p \in Calls, GetBot(p) PROVE DatedInv'
  BY <1>1, GetBotDated
<1>2. ASSUME NEW p \in Calls, LookUp(p) PROVE DatedInv'
  BY <1>2, LookUpDated
<1>3. ASSUME NEW p \in Calls, AfterWs(p) PROVE DatedInv'
  BY <1>3, AfterWsDated
<1>4. ASSUME NEW p \in Calls, AfterLegacy(p) PROVE DatedInv'
  BY <1>4, AfterLegacyDated
<1>5. ASSUME NEW p \in Calls, AfterAny(p) PROVE DatedInv'
  BY <1>5, AfterAnyDated
<1>6. ASSUME NEW p \in Calls, ReadFails(p) PROVE DatedInv'
  BY <1>6, ReadFailsDated
<1>7. CASE StoreRow
  BY <1>7, StoreRowDated
<1>8. CASE Relink
  <2>1. UNCHANGED <<rows, cache, now, call, lastTrue>>
    BY <1>8 DEF Relink
  <2>2. QED
    BY <2>1 DEF DatedInv, Timely, Cached, Active
<1>9. CASE Tick
  BY <1>9, TickDated
<1>10. CASE UNCHANGED vars
  BY <1>10 DEF vars, DatedInv, Timely, Cached, Active
<1>11. QED
  BY <1>1, <1>2, <1>3, <1>4, <1>5, <1>6, <1>7, <1>8, <1>9, <1>10 DEF Next

\* What calls under way know of their workspace's link and of its rows, and how
\* old what they read and what is cached may be: the invariant the theorems
\* below rest on.
THEOREM BotInvariant == Spec => [](BotInv /\ DatedInv)
<1>1. Init => BotInv /\ DatedInv
  BY BotStarts, DatedStarts
<1>2. BotInv /\ DatedInv /\ [Next]_vars => BotInv' /\ DatedInv'
  BY BotSteps, DatedSteps
<1>3. QED
  BY <1>1, <1>2, PTL DEF Spec

\* The registry, its cache and its calls stay within their types.
THEOREM BotTypeCorrect == Spec => []TypeOK
<1>1. BotInv => TypeOK
  BY DEF BotInv
<1>2. QED
  BY <1>1, BotInvariant, PTL

\* No answer of get_bot crosses workspaces: its configuration is the
\* workspace's own or that of an owner linked to it during the call.
THEOREM AnswersStayHome == Spec => []OnlyOwnOrLinked
<1>1. BotInv => OnlyOwnOrLinked
  BY DEF BotInv, Linked
<1>2. QED
  BY <1>1, BotInvariant, PTL

\* The stand-in is only handed out when a read failed or, at some moment of the
\* call, no row held the agent.
THEOREM StandInHasACause == Spec => []MockHasACause
<1>1. BotInv => MockHasACause
  BY DEF BotInv, Witnessed
<1>2. QED
  BY <1>1, BotInvariant, PTL

\* An answer that is not torn gives the agent exactly the knowledge bases that
\* were its own at a moment no longer ago than the time to live and a call's
\* length together, each of them once.
THEOREM KnowledgeIsRecent == Spec => []GrantedLately
<1>1. ASSUME BotInv, DatedInv PROVE GrantedLately
  <2>1. ASSUME NEW p \in Calls, call[p].pc = "done", call[p].answer.kind = "config", ~call[p].answer.torn
        PROVE  LET a == call[p].answer IN
               /\ IsInjective(a.kb_ids)
               /\ \E e \in lastTrue[a.config_tenant] : e[1] = ToSet(a.kb_ids) /\ call[p].at - e[2] <= MaxAge
    <3> DEFINE a == call[p].answer
    <3>1. /\ call[p].at \in 0 .. now /\ a.config_tenant \in Tenants
          /\ IsInjective(a.kb_ids)
          /\ Since(lastTrue, a.config_tenant, ToSet(a.kb_ids), call[p].at - MaxAge)
      BY <1>1, <2>1 DEF DatedInv, AnswerWell, Dated
    <3> HIDE DEF a
    <3>2. PICK e \in lastTrue[a.config_tenant] : e[1] = ToSet(a.kb_ids) /\ e[2] >= call[p].at - MaxAge
      BY <3>1 DEF Since
    <3>3. e[2] \in Int /\ call[p].at \in Int /\ MaxAge \in Int
      BY <1>1, <3>1, ClockTyped DEF DatedInv, Timely
    <3>4. call[p].at - e[2] <= MaxAge
      BY <3>2, <3>3
    <3>5. QED
      BY <3>1, <3>2, <3>4 DEF a
  <2>2. QED
    BY <2>1 DEF GrantedLately, Answered, MaxAge
<1>2. QED
  BY <1>1, BotInvariant, PTL

=============================================================================
