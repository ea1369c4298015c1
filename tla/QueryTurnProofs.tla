--------------------------- MODULE QueryTurnProofs --------------------------
(***************************************************************************)
(* Proofs about QueryTurn, for any models, chains and bounds.  Telling is  *)
(* what keeps one voice: until a turn ends its events are meta and the     *)
(* deltas, and a run other than the stream's own only ever speaks after a  *)
(* blank.  Metered relates the ledger to what the completions carried.     *)
(***************************************************************************)
EXTENDS QueryTurn, FiniteSetTheorems, SequenceTheorems, WellFoundedInduction, TLAPS

-----------------------------------------------------------------------------
(* A sequence without every x in it *)

\* The theorems on induction take an operator; its instance on the numbers that
\* a statement fails for does not.
LEMMA LeastNumber ==
  ASSUME NEW T \in SUBSET Nat, T # {}
  PROVE  \E n \in T : \A m \in T : ~(m < n)
<1>1. \E n \in T : \A m \in T : <<m, n>> \notin OpToRel(<, Nat)
  BY NatLessThanWellFounded, WFMin, Zenon
<1>2. QED
  BY <1>1 DEF OpToRel

\* What the recursive function of Without says of its n-th value.
Kept(x, seq, kept, n) ==
  IF n = 0 THEN <<>>
  ELSE IF seq[n] = x THEN kept[n - 1] ELSE Append(kept[n - 1], seq[n])

KeptUpTo(x, seq, m, kept) == kept = [n \in 0 .. m |-> Kept(x, seq, kept, n)]

LEMMA KeptExists ==
  ASSUME NEW x, NEW seq, NEW m \in Nat
  PROVE  \E kept : KeptUpTo(x, seq, m, kept)
<1> DEFINE Bad == {k \in Nat : ~ \E kept : KeptUpTo(x, seq, k, kept)}
<1>1. SUFFICES ASSUME Bad # {} PROVE FALSE
  OBVIOUS
<1>2. PICK k \in Bad : \A j \in Bad : ~(j < k)
  <2>1. Bad \subseteq Nat
    OBVIOUS
  <2> HIDE DEF Bad
  <2>2. QED
    BY <1>1, <2>1, LeastNumber
<1>3. CASE k = 0
  <2> DEFINE none == [n \in 0 .. 0 |-> <<>>]
  <2>1. KeptUpTo(x, seq, 0, none)
    BY DEF KeptUpTo, Kept
  <2>2. QED
    BY <1>2, <1>3, <2>1
<1>4. CASE k # 0
  <2>1. k - 1 \in Nat /\ k - 1 \notin Bad
    BY <1>2, <1>4
  <2>2. PICK kept : KeptUpTo(x, seq, k - 1, kept)
    BY <2>1
  <2> DEFINE more == [n \in 0 .. k |-> Kept(x, seq, kept, n)]
  <2>3. \A n \in 0 .. k - 1 : more[n] = kept[n]
    <3>1. \A n \in 0 .. k - 1 : kept[n] = Kept(x, seq, kept, n)
      BY <2>2 DEF KeptUpTo
    <3>2. 0 .. k - 1 \subseteq 0 .. k
      BY <1>4
    <3>3. QED
      BY <3>1, <3>2
  <2> HIDE DEF more
  <2>4. ASSUME NEW n \in 0 .. k
        PROVE  Kept(x, seq, more, n) = Kept(x, seq, kept, n)
    <3>1. n # 0 => n - 1 \in 0 .. k - 1
      BY <1>4
    <3>2. QED
      BY <2>3, <3>1 DEF Kept
  <2>5. KeptUpTo(x, seq, k, more)
    BY <2>4 DEF KeptUpTo, more
  <2>6. QED
    BY <1>2, <2>5
<1>5. QED
  BY <1>3, <1>4

LEMMA WithoutUnfolded ==
  ASSUME NEW x, NEW seq, Len(seq) \in Nat
  PROVE  \E kept : KeptUpTo(x, seq, Len(seq), kept) /\ Without(x, seq) = kept[Len(seq)]
<1> DEFINE kept == CHOOSE k : KeptUpTo(x, seq, Len(seq), k)
<1>1. KeptUpTo(x, seq, Len(seq), kept)
  BY KeptExists
<1>2. Without(x, seq) = kept[Len(seq)]
  BY <1>1, Zenon DEF Without, KeptUpTo, Kept
<1>3. QED
  BY <1>1, <1>2

\* Where the seq up to n differs from x.
Places(x, seq, n) == {j \in 1 .. n : seq[j] # x}

\* What is kept of the first n: a sequence over the same set, of the elements
\* that differ from x, one for each place they are at.
KeptWell(S, x, seq, kept, n) ==
  /\ kept[n] \in Seq(S)
  /\ {kept[n][i] : i \in DOMAIN kept[n]} = {seq[j] : j \in Places(x, seq, n)}
  /\ IsFiniteSet(Places(x, seq, n)) /\ Len(kept[n]) = Cardinality(Places(x, seq, n))
  /\ Len(kept[n]) <= n

LEMMA KeptWellStep ==
  ASSUME NEW S, NEW x, NEW seq \in Seq(S), NEW kept, KeptUpTo(x, seq, Len(seq), kept),
         NEW n \in 1 .. Len(seq), KeptWell(S, x, seq, kept, n - 1)
  PROVE  KeptWell(S, x, seq, kept, n)
<1> DEFINE old == kept[n - 1]
<1>1. kept[n] = IF seq[n] = x THEN old ELSE Append(old, seq[n])
  <2>1. n \in 0 .. Len(seq) /\ n # 0
    OBVIOUS
  <2>2. kept[n] = Kept(x, seq, kept, n)
    BY <2>1 DEF KeptUpTo
  <2>3. QED
    BY <2>1, <2>2 DEF Kept
<1>2. seq[n] \in S /\ n \in Nat /\ n - 1 \in Nat
  OBVIOUS
<1>3. old \in Seq(S) /\ Len(old) \in Nat /\ Len(old) <= n - 1
  BY DEF KeptWell
<1>4. 1 .. n = (1 .. n - 1) \cup {n} /\ n \notin 1 .. n - 1
  BY <1>2
<1>5. CASE seq[n] = x
  <2>1. Places(x, seq, n) = Places(x, seq, n - 1)
    BY <1>4, <1>5 DEF Places
  <2>2. kept[n] = old
    BY <1>1, <1>5
  <2> HIDE DEF old
  <2>3. Len(old) <= n
    BY <1>2, <1>3
  <2>4. QED
    BY <2>1, <2>2, <2>3 DEF KeptWell, old
<1>6. CASE seq[n] # x
  <2>1. Places(x, seq, n) = Places(x, seq, n - 1) \cup {n} /\ n \notin Places(x, seq, n - 1)
    BY <1>4, <1>6 DEF Places
  <2>2. /\ IsFiniteSet(Places(x, seq, n))
        /\ Cardinality(Places(x, seq, n)) = Cardinality(Places(x, seq, n - 1)) + 1
    BY <2>1, FS_AddElement DEF KeptWell
  <2>3. kept[n] = Append(old, seq[n])
    BY <1>1, <1>6
  <2> HIDE DEF old
  <2>4. kept[n] \in Seq(S) /\ Len(kept[n]) = Len(old) + 1
    BY <1>2, <1>3, <2>3
  <2>5. {kept[n][i] : i \in DOMAIN kept[n]} = {old[i] : i \in DOMAIN old} \cup {seq[n]}
    <3>1. /\ DOMAIN old = 1 .. Len(old) /\ DOMAIN kept[n] = 1 .. Len(old) + 1
          /\ 1 .. Len(old) + 1 = (1 .. Len(old)) \cup {Len(old) + 1}
      BY <1>3, <2>4
    <3>2. /\ \A i \in 1 .. Len(old) : kept[n][i] = old[i]
          /\ kept[n][Len(old) + 1] = seq[n]
      BY <1>2, <1>3, <2>3
    <3>3. QED
      BY <3>1, <3>2
  <2>6. {old[i] : i \in DOMAIN old} \cup {seq[n]} = {seq[j] : j \in Places(x, seq, n)}
    BY <2>1 DEF KeptWell, old
  <2>7. Len(kept[n]) = Cardinality(Places(x, seq, n)) /\ Len(kept[n]) <= n
    BY <1>2, <1>3, <2>2, <2>4 DEF KeptWell, old
  <2>8. QED
    BY <2>2, <2>4, <2>5, <2>6, <2>7 DEF KeptWell
<1>7. QED
  BY <1>5, <1>6

LEMMA KeptIsWell ==
  ASSUME NEW S, NEW x, NEW seq \in Seq(S), NEW kept, KeptUpTo(x, seq, Len(seq), kept)
  PROVE  \A n \in 0 .. Len(seq) : KeptWell(S, x, seq, kept, n)
<1> DEFINE Bad == {n \in 0 .. Len(seq) : ~KeptWell(S, x, seq, kept, n)}
<1>1. SUFFICES ASSUME Bad # {} PROVE FALSE
  OBVIOUS
<1>2. PICK n \in Bad : \A m \in Bad : ~(m < n)
  <2>1. Bad \subseteq Nat
    OBVIOUS
  <2> HIDE DEF Bad
  <2>2. QED
    BY <1>1, <2>1, LeastNumber
<1>3. CASE n = 0
  <2>1. kept[0] = <<>> /\ Places(x, seq, 0) = {}
    BY DEF KeptUpTo, Kept, Places
  <2>2. IsFiniteSet(Places(x, seq, 0)) /\ Cardinality(Places(x, seq, 0)) = 0
    BY <2>1, FS_EmptySet
  <2>3. <<>> \in Seq(S) /\ Len(<<>>) = 0 /\ {<<>>[i] : i \in DOMAIN <<>>} = {}
    OBVIOUS
  <2>4. KeptWell(S, x, seq, kept, 0)
    BY <2>1, <2>2, <2>3 DEF KeptWell
  <2>5. QED
    BY <1>2, <1>3, <2>4
<1>4. CASE n # 0
  <2>1. n \in 1 .. Len(seq) /\ n - 1 \in 0 .. Len(seq) /\ n - 1 \notin Bad
    BY <1>2, <1>4
  <2>2. KeptWell(S, x, seq, kept, n - 1)
    BY <2>1
  <2>3. QED
    BY <1>2, <2>1, <2>2, KeptWellStep
<1>5. QED
  BY <1>3, <1>4

\* Without keeps the elements that differ from x, as many as there are.
LEMMA WithoutProperties ==
  ASSUME NEW S, NEW x, NEW seq \in Seq(S)
  PROVE  /\ Without(x, seq) \in Seq(S)
         /\ \A i \in DOMAIN Without(x, seq) : \E j \in DOMAIN seq :
              Without(x, seq)[i] = seq[j] /\ seq[j] # x
         /\ IsFiniteSet(Places(x, seq, Len(seq)))
         /\ Len(Without(x, seq)) = Cardinality(Places(x, seq, Len(seq)))
         /\ Len(Without(x, seq)) <= Len(seq)
<1>1. Len(seq) \in Nat
  OBVIOUS
<1>2. PICK kept : KeptUpTo(x, seq, Len(seq), kept) /\ Without(x, seq) = kept[Len(seq)]
  BY <1>1, WithoutUnfolded
<1>3. KeptWell(S, x, seq, kept, Len(seq))
  BY <1>1, <1>2, KeptIsWell
<1>4. \A i \in DOMAIN kept[Len(seq)] : \E j \in DOMAIN seq :
        kept[Len(seq)][i] = seq[j] /\ seq[j] # x
  <2>1. TAKE i \in DOMAIN kept[Len(seq)]
  <2>2. kept[Len(seq)][i] \in {seq[j] : j \in Places(x, seq, Len(seq))}
    BY <1>3 DEF KeptWell
  <2>3. Places(x, seq, Len(seq)) \subseteq DOMAIN seq
    BY DEF Places
  <2>4. QED
    BY <2>2, <2>3 DEF Places
<1>5. QED
  BY <1>2, <1>3, <1>4 DEF KeptWell

-----------------------------------------------------------------------------
(* The inductive invariant *)

SseEvent == [event : {"meta", "token", "done"}, text : Seq(Pieces)]

TurnTypes == TypeOK /\ events \in Seq(SseEvent)

\* A turn under way; one that streams its completion; one that the router runs.
Live == pc \notin {"over", "prepare"}
Streaming == pc \in {"open", "connect", "relay"}
Routed == pc \in {"route", "ask", "tools"}

\* meta, then a token for every delta.
Told(evs, pieces) ==
  /\ Len(evs) = Len(pieces) + 1
  /\ evs[1] = Event("meta", <<>>)
  /\ \A i \in 1 .. Len(pieces) : evs[i + 1] = Token(pieces[i])

\* Only the stream's own run has said anything, and the router takes over from
\* a stream that said nothing.
Telling ==
  /\ Streaming => input.stream
  /\ Live /\ input.stream => Told(events, parts)
  /\ Live /\ ~input.stream => events = <<>> /\ parts = <<>>
  /\ pc = "prepare" => events = <<>> /\ parts = <<>>
  /\ pc \in {"open", "connect"} => parts = <<>>
  /\ Routed => \A i \in DOMAIN parts : parts[i] = 0
  /\ pc = "relay" => \A i \in DOMAIN parts : parts[i] \in {0, runs}
  /\ Said \subseteq {runs}
  /\ DoneSaysItAgain

\* Runs and completions are counted from zero and stay within their bounds.
Counted ==
  /\ pc \in {"prepare", "open", "connect"} => runs = 0
  /\ pc = "relay" => runs = 1
  /\ pc = "route" => runs <= 1
  /\ pc \in {"ask", "tools"} => runs >= 1 /\ runs + Len(left) <= 2 + Len(Fallbacks)
  /\ pc \in {"prepare", "route"} \/ Streaming => iter = 0 /\ calls = 0 /\ spent = 0
  /\ pc = "ask" => iter < MaxIterations /\ spent <= iter
  /\ pc = "tools" => iter < MaxIterations /\ spent <= iter + 1 /\ calls >= 1

\* The attempt under way pairs a key with a model it belongs to.
Keyed ==
  /\ pc \in {"ask", "tools", "connect"} =>
       model \in Model /\ key \in {"platform", "tenant"}
  /\ pc \in {"ask", "tools", "connect"} /\ key = "tenant" =>
       input.tenant = "byok" /\ model = TenantRoute
  /\ KeyKeepsItsRoute

\* The turn has no answer until it is over.
Closing == (pc # "over" => out = NoAnswer) /\ StreamCloses

\* Reports are of the runs so far, each under a reference of its own.
Metered ==
  /\ IsFiniteSet(reports)
  /\ \A r \in reports : r.ref \in 0 .. Cardinality(reports) - 1 /\ r.run \in 0 .. runs

\* What the run under way has spent is what it reported.
Costed ==
  /\ pc \in {"ask", "tools"} => spent = Cardinality({r \in reports : r.run = runs})
  /\ AnswerTellsItsCost

TurnInv == TurnTypes /\ Telling /\ Closing /\ Counted /\ Keyed /\ Metered /\ Costed

-----------------------------------------------------------------------------
(* Texts and events *)

LEMMA PiecesAreNumbers == Pieces \subseteq Nat /\ 0 \in Pieces /\ Len(Fallbacks) \in Nat
  BY ModelsAssumption DEF Pieces

LEMMA WordsTyped ==
  ASSUME NEW text \in Seq(Pieces)
  PROVE  Words(text) \in Seq(Pieces)
  BY WithoutProperties DEF Words

LEMMA EventTyped ==
  ASSUME NEW text \in Seq(Pieces), NEW kind \in {"meta", "token", "done"}
  PROVE  Event(kind, text) \in SseEvent
  BY DEF Event, SseEvent

LEMMA TokenTyped ==
  ASSUME NEW piece \in Pieces
  PROVE  Token(piece) \in SseEvent /\ <<piece>> \in Seq(Pieces)
<1>1. <<piece>> \in Seq(Pieces)
  OBVIOUS
<1>2. QED
  BY <1>1, EventTyped DEF Token

\* What the caller has been shown is of its type.
ShownTyped ==
  /\ pc \in {"over", "prepare", "route", "ask", "tools", "open", "connect", "relay"}
  /\ out \in [status : {0, 200, 403, 500}, tokens : 0 .. MaxIterations]
  /\ events \in Seq(SseEvent)

LEMMA NoAnswerTyped == \A status \in {0, 200, 403, 500} :
  [NoAnswer EXCEPT !.status = status] \in [status : {0, 200, 403, 500}, tokens : 0 .. MaxIterations]
<1>1. 0 \in 0 .. MaxIterations
  BY BoundsAssumption
<1>2. QED
  BY <1>1 DEF NoAnswer

LEMMA AppendTyped ==
  ASSUME NEW evs \in Seq(SseEvent), NEW text \in Seq(Pieces), NEW kind \in {"meta", "token", "done"}
  PROVE  Append(evs, Event(kind, text)) \in Seq(SseEvent)
  BY EventTyped, AppendProperties

LEMMA FailTyped ==
  ASSUME ShownTyped, NEW status \in {403, 500}, Fail(status)
  PROVE  ShownTyped'
<1>1. out' \in [status : {0, 200, 403, 500}, tokens : 0 .. MaxIterations]
  BY NoAnswerTyped DEF Fail
<1>2. <<>> \in Seq(Pieces)
  OBVIOUS
<1>3. events' \in Seq(SseEvent)
  BY <1>2, AppendTyped DEF Fail, ShownTyped
<1>4. QED
  BY <1>1, <1>3 DEF Fail, ShownTyped

LEMMA CloseStreamTyped ==
  ASSUME ShownTyped, parts \in Seq(Pieces), CloseStream
  PROVE  ShownTyped'
<1>1. CASE Words(parts) = <<>>
  BY <1>1 DEF CloseStream, ShownTyped
<1>2. CASE Words(parts) # <<>>
  <2>1. out' \in [status : {0, 200, 403, 500}, tokens : 0 .. MaxIterations]
    BY <1>2, NoAnswerTyped DEF CloseStream
  <2>2. events' \in Seq(SseEvent)
    BY <1>2, WordsTyped, AppendTyped DEF CloseStream, ShownTyped
  <2>3. QED
    BY <1>2, <2>1, <2>2 DEF CloseStream, ShownTyped
<1>3. QED
  BY <1>1, <1>2

\* A routed answer as what the stream told and one closing event, or nothing.
LEMMA AnswerShape ==
  ASSUME NEW piece \in Pieces, Answer(piece), events \in Seq(SseEvent), input \in Input
  PROVE  /\ ~input.stream => events' = events
         /\ input.stream /\ (input.tools \/ piece # 0) =>
              events' = Append(Append(events, Token(piece)), Event("done", Words(<<piece>>)))
         /\ input.stream /\ ~(input.tools \/ piece # 0) =>
              events' = Append(events, Event("done", Words(<<piece>>)))
<1> DEFINE done == Event("done", Words(<<piece>>))
<1>1. done \in SseEvent /\ Token(piece) \in SseEvent
  BY TokenTyped, WordsTyped, EventTyped
<1>2. /\ events \o <<Token(piece)>> \o <<done>> = Append(Append(events, Token(piece)), done)
      /\ events \o <<>> \o <<done>> = Append(events, done)
  <2> HIDE DEF done
  <2>1. \A s \in Seq(SseEvent), x \in SseEvent : s \o <<x>> = Append(s, x)
    OBVIOUS
  <2>2. Append(events, Token(piece)) \in Seq(SseEvent)
    BY <1>1
  <2>3. events \o <<>> = events
    BY ConcatEmptySeq
  <2>4. QED
    BY <1>1, <2>1, <2>2, <2>3
<1>3. QED
  BY <1>2 DEF Answer

LEMMA AnswerTyped ==
  ASSUME ShownTyped, NEW piece \in Pieces, Answer(piece), input \in Input,
         spent' \in 0 .. MaxIterations
  PROVE  ShownTyped'
<1>1. out' \in [status : {0, 200, 403, 500}, tokens : 0 .. MaxIterations] /\ pc' = "over"
  BY DEF Answer
<1>2. <<piece>> \in Seq(Pieces)
  OBVIOUS
<1>3. Append(events, Token(piece)) \in Seq(SseEvent)
  BY <1>2, AppendTyped DEF ShownTyped, Token
<1>4. /\ events \in Seq(SseEvent)
      /\ Append(events, Event("done", Words(<<piece>>))) \in Seq(SseEvent)
      /\ Append(Append(events, Token(piece)), Event("done", Words(<<piece>>))) \in Seq(SseEvent)
  BY <1>2, <1>3, WordsTyped, AppendTyped DEF ShownTyped
<1>5. \/ events' = events
      \/ events' = Append(events, Event("done", Words(<<piece>>)))
      \/ events' = Append(Append(events, Token(piece)), Event("done", Words(<<piece>>)))
  BY AnswerShape DEF ShownTyped
<1>6. events' \in Seq(SseEvent)
  BY <1>4, <1>5, Zenon
<1>7. QED
  BY <1>1, <1>6, Zenon DEF ShownTyped

-----------------------------------------------------------------------------
(* Attempts *)

LEMMA ResolvedKinds ==
  ASSUME NEW resolved \in Resolved, input \in Input
  PROVE  resolved \in {"down", "none", "nokey", "routed", "byok"}
  BY DEF Resolved, Input, Tenancy

\* Only a tenant that brought a key is resolved to it.
LEMMA KeysAreBrought ==
  ASSUME NEW resolved \in Resolved, input \in Input, resolved = "byok"
  PROVE  input.tenant = "byok"
  BY DEF Resolved, Input, Tenancy

LEMMA ModelsKnown ==
  ASSUME NEW resolved
  PROVE  RouteModel(resolved) \in Model /\ StreamModel(resolved) \in Model
  BY DEF RouteModel, StreamModel, TenantRoute, Formatted, Model

LEMMA OthersTyped ==
  ASSUME NEW m
  PROVE  /\ Without(m, Fallbacks) \in Seq(Model)
         /\ Len(Without(m, Fallbacks)) <= Len(Fallbacks)
  BY ModelsAssumption, WithoutProperties

\* A fallback run, or the end of the chain.
LEMMA FallBackCases ==
  ASSUME FallBack, left \in Seq(Model), None \notin Model
  PROVE  \/ /\ Fail(500) /\ UNCHANGED <<model, key, left, iter, calls, spent, runs>>
            /\ pc' = "over"
         \/ /\ pc' = "ask" /\ key' = "platform" /\ model' \in Model
            /\ left' \in Seq(Model) /\ Len(left') + 1 = Len(left)
            /\ iter' = 0 /\ calls' = 0 /\ spent' = 0 /\ runs' = runs + 1
            /\ events' = events /\ out' = out
<1>1. CASE left = <<>>
  BY <1>1 DEF FallBack, Fail, attempt
<1>2. CASE left # <<>>
  <2>1. Head(left) \in Model /\ Tail(left) \in Seq(Model) /\ Len(Tail(left)) + 1 = Len(left)
    BY <1>2
  <2>2. QED
    BY <1>2, <2>1 DEF FallBack
<1>3. QED
  BY <1>1, <1>2

LEMMA AttemptedTyped ==
  ASSUME TurnInv, pc \in {"ask", "connect"}
  PROVE  /\ Attempted \subseteq [model : Model, key : {"platform", "tenant"}]
         /\ \A a \in Attempted : a.key = "tenant" =>
              input.tenant = "byok" /\ a.model = TenantRoute
  BY DEF TurnInv, TurnTypes, TypeOK, Keyed, KeyKeepsItsRoute, Attempted

\* A key only follows its provider's models: the attempt under way does.
LEMMA KeyedStep == TurnInv /\ [Next]_vars => Keyed'
<1> SUFFICES ASSUME TurnInv, [Next]_vars PROVE Keyed'
  OBVIOUS
<1>0. Keyed /\ left \in Seq(Model) /\ None \notin Model /\ input \in Input
  BY ModelsAssumption DEF TurnInv, TurnTypes, TypeOK
<1>a. input' = input => TenantRoute' = TenantRoute
  BY DEF TenantRoute, Pinned, Formatted
<1>1. CASE UNCHANGED vars
  BY <1>0, <1>a, <1>1 DEF vars, Keyed, KeyKeepsItsRoute
<1>2. CASE Prepare
  BY <1>0, <1>a, <1>2 DEF Prepare, Fail, Keyed, KeyKeepsItsRoute, ledger
<1>3. ASSUME NEW resolved \in Resolved, NEW exhausted \in BOOLEAN, Route(resolved, exhausted)
      PROVE  Keyed'
  <2>1. RouteModel(resolved) \in Model
    BY ModelsKnown
  <2>2. resolved = "byok" => RouteModel(resolved) = TenantRoute
    BY DEF RouteModel
  <2>3. QED
    BY <1>0, <1>a, <1>3, <2>1, <2>2, KeysAreBrought DEF Route, Fail, KeyFor, Keyed, KeyKeepsItsRoute, ledger
<1>4. ASSUME NEW resolved \in Resolved, NEW exhausted \in BOOLEAN, Open(resolved, exhausted)
      PROVE  Keyed'
  <2>1. StreamModel(resolved) \in Model
    BY ModelsKnown
  <2>2. resolved = "byok" /\ ~Pinned => StreamModel(resolved) = TenantRoute
    BY DEF StreamModel, TenantRoute
  <2>3. QED
    BY <1>0, <1>a, <1>4, <2>1, <2>2, KeysAreBrought DEF Open, CloseStream, KeyFor, Keyed, KeyKeepsItsRoute, ledger
<1>5. CASE AskRaises
  BY <1>0, <1>a, <1>5, FallBackCases, AttemptedTyped DEF AskRaises, Keyed, KeyKeepsItsRoute
<1>6. ASSUME NEW usage \in BOOLEAN, AskBroken(usage)
      PROVE  Keyed'
  BY <1>0, <1>a, <1>6, FallBackCases, AttemptedTyped DEF AskBroken, Keyed, KeyKeepsItsRoute
<1>7. ASSUME NEW usage \in BOOLEAN, NEW piece, AskText(usage, piece)
      PROVE  Keyed'
  BY <1>0, <1>a, <1>7, AttemptedTyped DEF AskText, Answer, Keyed, KeyKeepsItsRoute
<1>8. ASSUME NEW usage \in BOOLEAN, NEW n, AskTools(usage, n)
      PROVE  Keyed'
  BY <1>0, <1>a, <1>8, AttemptedTyped DEF AskTools, Keyed, KeyKeepsItsRoute, attempt
<1>9. CASE ToolCall
  BY <1>0, <1>a, <1>9 DEF ToolCall, Answer, Keyed, KeyKeepsItsRoute, attempt, ledger
<1>10. CASE ToolsRaise
  BY <1>0, <1>a, <1>10, FallBackCases DEF ToolsRaise, Keyed, KeyKeepsItsRoute, ledger
<1>11. ASSUME NEW connected \in BOOLEAN, Connect(connected)
       PROVE  Keyed'
  <2>1. left # <<>> => Head(left) \in Model
    BY <1>0
  <2>2. KeyKeepsItsRoute'
    BY <1>a, <1>11, AttemptedTyped DEF Connect, KeyKeepsItsRoute
  <2>3. QED
    BY <1>0, <1>a, <1>11, <2>1, <2>2 DEF Connect, CloseStream, Keyed, attempt
<1>12. ASSUME NEW piece, Delta(piece)
       PROVE  Keyed'
  BY <1>0, <1>a, <1>12 DEF Delta, Keyed, KeyKeepsItsRoute, ledger
<1>13. CASE StreamBreaks \/ \E usage \in BOOLEAN : StreamEnds(usage)
  BY <1>0, <1>a, <1>13 DEF StreamBreaks, StreamEnds, CloseStream, Keyed, KeyKeepsItsRoute, ledger
<1>14. CASE HangUp \/ \E q \in Input : Begin(q)
  BY <1>0, <1>a, <1>14 DEF HangUp, Begin, Keyed, KeyKeepsItsRoute, ledger
<1>15. QED
  BY <1>1, <1>2, <1>3, <1>4, <1>5, <1>6, <1>7, <1>8, <1>9, <1>10, <1>11, <1>12, <1>13, <1>14
     DEF Next, Work

\* The loop counts completions up to its cap, the chain runs up to its length.
LEMMA CountedStep == TurnInv /\ [Next]_vars => Counted'
<1> SUFFICES ASSUME TurnInv, [Next]_vars PROVE Counted'
  OBVIOUS
<1>0. /\ Counted /\ left \in Seq(Model) /\ None \notin Model /\ input \in Input
      /\ iter \in Nat /\ calls \in Nat /\ spent \in Nat /\ runs \in Nat
      /\ Len(left) \in Nat /\ Len(Fallbacks) \in Nat /\ MaxIterations \in Nat \ {0}
  BY ModelsAssumption, BoundsAssumption, PiecesAreNumbers DEF TurnInv, TurnTypes, TypeOK
<1>1. CASE UNCHANGED vars
  BY <1>0, <1>1 DEF vars, Counted, Streaming
<1>2. CASE Prepare
  BY <1>0, <1>2 DEF Prepare, Fail, Counted, Streaming, attempt, loop
<1>3. ASSUME NEW resolved \in Resolved, NEW exhausted \in BOOLEAN, Route(resolved, exhausted)
      PROVE  Counted'
  <2>1. CASE resolved = "nokey" \/ exhausted
    BY <1>0, <1>3, <2>1 DEF Route, Fail, Counted, Streaming, attempt, loop
  <2>2. CASE ~(resolved = "nokey" \/ exhausted)
    <3>1. left' = Without(RouteModel(resolved), Fallbacks) /\ pc' = "ask" /\ runs' = runs + 1
      BY <1>3, <2>2 DEF Route
    <3>2. Len(left') <= Len(Fallbacks) /\ Len(left') \in Nat
      BY <3>1, OthersTyped
    <3>3. QED
      BY <1>0, <1>3, <3>1, <3>2 DEF Route, Counted, Streaming, loop
  <2>3. QED
    BY <2>1, <2>2
<1>4. ASSUME NEW resolved \in Resolved, NEW exhausted \in BOOLEAN, Open(resolved, exhausted)
      PROVE  Counted'
  BY <1>0, <1>4 DEF Open, CloseStream, Counted, Streaming, loop
<1>5. ASSUME FallBack, pc \in {"ask", "tools"}
      PROVE  Counted'
  BY <1>0, <1>5, FallBackCases DEF Counted, Streaming
<1>6. ASSUME NEW usage \in BOOLEAN, NEW piece, AskText(usage, piece)
      PROVE  Counted'
  BY <1>6 DEF AskText, Answer, Counted, Streaming
<1>7. ASSUME NEW usage \in BOOLEAN, NEW n \in 1 .. MaxCalls, AskTools(usage, n)
      PROVE  Counted'
  BY <1>0, <1>7 DEF AskTools, Counted, Streaming, attempt
<1>8. CASE ToolCall
  BY <1>0, <1>8 DEF ToolCall, Answer, Counted, Streaming, attempt
<1>9. ASSUME NEW connected \in BOOLEAN, Connect(connected)
      PROVE  Counted'
  BY <1>0, <1>9 DEF Connect, CloseStream, Counted, Streaming, loop
<1>10. ASSUME NEW piece, Delta(piece)
       PROVE  Counted'
  BY <1>0, <1>10 DEF Delta, Counted, Streaming, loop
<1>11. CASE StreamBreaks \/ \E usage \in BOOLEAN : StreamEnds(usage)
  BY <1>0, <1>11 DEF StreamBreaks, StreamEnds, CloseStream, Counted, Streaming, loop
<1>12. CASE HangUp \/ \E q \in Input : Begin(q)
  BY <1>0, <1>12 DEF HangUp, Begin, Counted, Streaming
<1>13. CASE AskRaises \/ ToolsRaise \/ \E usage \in BOOLEAN : AskBroken(usage)
  BY <1>5, <1>13 DEF AskRaises, ToolsRaise, AskBroken
<1>14. QED
  BY <1>1, <1>2, <1>3, <1>4, <1>6, <1>7, <1>8, <1>9, <1>10, <1>11, <1>12, <1>13 DEF Next, Work

-----------------------------------------------------------------------------
(* Types *)

\* The types, but for what the caller is shown.
Unshown ==
  /\ input \in Input
  /\ model \in Model \cup {None} /\ key \in {"platform", "tenant", None}
  /\ left \in Seq(Model)
  /\ iter \in 0 .. MaxIterations /\ calls \in 0 .. MaxCalls /\ spent \in 0 .. MaxIterations
  /\ parts \in Seq(Pieces) /\ Len(parts) <= MaxDeltas
  /\ runs \in Pieces
  /\ asked \subseteq [model : Model, key : {"platform", "tenant"}]

LEMMA TypesSplit == TurnTypes <=> ShownTyped /\ Unshown
<1>1. events \in Seq(SseEvent) => \A i \in DOMAIN events : events[i] \in SseEvent
  OBVIOUS
<1>2. QED
  BY <1>1 DEF TurnTypes, TypeOK, ShownTyped, Unshown, SseEvent

LEMMA TypesStep == TurnInv /\ [Next]_vars => TurnTypes'
<1> SUFFICES ASSUME TurnInv, [Next]_vars PROVE ShownTyped' /\ Unshown'
  BY TypesSplit, PTL
<1>0. /\ ShownTyped /\ Unshown /\ Counted /\ None \notin Model /\ Model # {}
      /\ MaxIterations \in Nat \ {0} /\ MaxCalls \in Nat \ {0} /\ Len(Fallbacks) \in Nat
      /\ left \in Seq(Model) /\ runs \in Pieces /\ input \in Input
  BY ModelsAssumption, BoundsAssumption, PiecesAreNumbers, TypesSplit
     DEF TurnInv, Unshown, Model
<1>1. CASE UNCHANGED vars
  BY <1>0, <1>1 DEF vars, ShownTyped, Unshown
<1>2. CASE Prepare
  <2>1. Unshown'
    BY <1>0, <1>2 DEF Prepare, Unshown, attempt, loop, ledger
  <2>2. <<Event("meta", <<>>)>> \in Seq(SseEvent)
    <3>1. <<>> \in Seq(Pieces)
      OBVIOUS
    <3>2. Event("meta", <<>>) \in SseEvent
      BY <3>1, EventTyped
    <3>3. QED
      BY <3>2
  <2>3. CASE Fail(403) \/ Fail(500)
    BY <1>0, <2>1, <2>3, FailTyped
  <2>4. CASE ~(Fail(403) \/ Fail(500))
    <3>1. /\ pc' \in {"open", "route"} /\ out' = out
          /\ events' = <<Event("meta", <<>>)>> \/ events' = events
      BY <1>2, <2>4, Zenon DEF Prepare
    <3>2. events' \in Seq(SseEvent)
      <4>1. events \in Seq(SseEvent)
        BY <1>0 DEF ShownTyped
      <4>2. QED
        BY <2>2, <3>1, <4>1, Zenon
    <3>3. QED
      BY <1>0, <2>1, <3>1, <3>2 DEF ShownTyped
  <2>5. QED
    BY <2>3, <2>4
<1>3. ASSUME NEW resolved \in Resolved, NEW exhausted \in BOOLEAN, Route(resolved, exhausted)
      PROVE  ShownTyped' /\ Unshown'
  <2>1. CASE resolved = "nokey" \/ exhausted
    BY <1>0, <1>3, <2>1, FailTyped DEF Route, Unshown, attempt, loop, ledger
  <2>2. CASE ~(resolved = "nokey" \/ exhausted)
    <3>1. /\ model' \in Model /\ key' \in {"platform", "tenant"} /\ left' \in Seq(Model)
          /\ runs' = runs + 1 /\ runs <= 1
      BY <1>0, <1>3, <2>2, OthersTyped, ModelsKnown DEF Route, KeyFor, Counted
    <3>2. runs' \in Pieces
      BY <1>0, <3>1 DEF Pieces
    <3>3. QED
      BY <1>0, <1>3, <2>2, <3>1, <3>2 DEF Route, ShownTyped, Unshown, loop, ledger
  <2>3. QED
    BY <2>1, <2>2
<1>4. ASSUME NEW resolved \in Resolved, NEW exhausted \in BOOLEAN, Open(resolved, exhausted)
      PROVE  ShownTyped' /\ Unshown'
  <2>1. CASE exhausted \/ (resolved = "nokey" /\ ~Pinned)
    BY <1>0, <1>4, <2>1, CloseStreamTyped DEF Open, Unshown, attempt, loop, ledger
  <2>2. CASE ~(exhausted \/ (resolved = "nokey" /\ ~Pinned))
    <3>1. model' \in Model /\ key' \in {"platform", "tenant"} /\ left' \in Seq(Model)
      BY <1>0, <1>4, <2>2, OthersTyped, ModelsKnown DEF Open, KeyFor
    <3>2. QED
      BY <1>0, <1>4, <2>2, <3>1 DEF Open, ShownTyped, Unshown, loop, ledger
  <2>3. QED
    BY <2>1, <2>2
<1>5. ASSUME FallBack, pc \in {"ask", "tools"}, UNCHANGED <<input, parts>>,
             asked' \subseteq [model : Model, key : {"platform", "tenant"}]
      PROVE  ShownTyped' /\ Unshown'
  <2>1. CASE Fail(500) /\ UNCHANGED <<model, key, left, iter, calls, spent, runs>>
    BY <1>0, <1>5, <2>1, FailTyped DEF Unshown
  <2>2. CASE /\ pc' = "ask" /\ key' = "platform" /\ model' \in Model
             /\ left' \in Seq(Model) /\ Len(left') + 1 = Len(left)
             /\ iter' = 0 /\ calls' = 0 /\ spent' = 0 /\ runs' = runs + 1
             /\ events' = events /\ out' = out
    <3>1. runs' \in Pieces
      BY <1>0, <1>5, <2>2 DEF Counted, Pieces
    <3>2. QED
      BY <1>0, <1>5, <2>2, <3>1 DEF ShownTyped, Unshown
  <2>3. QED
    BY <1>0, <1>5, <2>1, <2>2, FallBackCases
<1>6. pc \in {"ask", "connect"} => Attempted \subseteq [model : Model, key : {"platform", "tenant"}]
  BY AttemptedTyped
<1>7. CASE AskRaises \/ ToolsRaise \/ \E usage \in BOOLEAN : AskBroken(usage)
  BY <1>0, <1>5, <1>6, <1>7 DEF AskRaises, ToolsRaise, AskBroken, Unshown, ledger
<1>8. ASSUME NEW usage \in BOOLEAN, NEW piece \in {0, runs}, AskText(usage, piece)
      PROVE  ShownTyped' /\ Unshown'
  <2>1. piece \in Pieces /\ spent' \in 0 .. MaxIterations
    BY <1>0, <1>8, PiecesAreNumbers DEF AskText, Counted, Unshown
  <2>2. ShownTyped'
    BY <1>0, <1>8, <2>1, AnswerTyped DEF AskText
  <2>3. QED
    BY <1>0, <1>6, <1>8, <2>1, <2>2 DEF AskText, Unshown, attempt
<1>9. ASSUME NEW usage \in BOOLEAN, NEW n \in 1 .. MaxCalls, AskTools(usage, n)
      PROVE  ShownTyped' /\ Unshown'
  BY <1>0, <1>6, <1>9 DEF AskTools, Counted, ShownTyped, Unshown, attempt
<1>10. CASE ToolCall
  <2>1. Unshown'
    BY <1>0, <1>10 DEF ToolCall, Counted, Unshown, attempt, ledger
  <2>2. CASE Answer(runs)
    BY <1>0, <2>1, <2>2, AnswerTyped DEF Unshown
  <2>3. CASE ~Answer(runs)
    BY <1>0, <1>10, <2>1, <2>3 DEF ToolCall, ShownTyped
  <2>4. QED
    BY <2>2, <2>3
<1>11. ASSUME NEW connected \in BOOLEAN, Connect(connected)
       PROVE  ShownTyped' /\ Unshown'
  <2>1. asked' \subseteq [model : Model, key : {"platform", "tenant"}]
    BY <1>6, <1>11 DEF Connect
  <2>2. CASE connected
    <3>1. runs' \in Pieces
      BY <1>0, <1>11, <2>2 DEF Connect, Counted, Pieces
    <3>2. QED
      BY <1>0, <1>11, <2>1, <2>2, <3>1 DEF Connect, ShownTyped, Unshown, attempt, loop
  <2>3. CASE ~connected /\ left = <<>>
    BY <1>0, <1>11, <2>1, <2>3, CloseStreamTyped DEF Connect, Unshown, attempt, loop
  <2>4. CASE ~connected /\ left # <<>>
    <3>1. Head(left) \in Model /\ Tail(left) \in Seq(Model)
      BY <1>0, <2>4
    <3>2. QED
      <4>1. /\ model' \in Model /\ key' = "platform" /\ left' \in Seq(Model)
            /\ UNCHANGED <<pc, events, out, runs, input, iter, calls, spent, parts>>
        BY <1>11, <2>4, <3>1 DEF Connect, loop
      <4>2. QED
        BY <1>0, <2>1, <4>1 DEF ShownTyped, Unshown
  <2>5. QED
    BY <2>2, <2>3, <2>4
<1>12. ASSUME NEW piece \in {0, runs}, Delta(piece)
       PROVE  ShownTyped' /\ Unshown'
  <2>1. piece \in Pieces /\ MaxDeltas \in Nat
    BY <1>0, PiecesAreNumbers, BoundsAssumption
  <2>2. parts' \in Seq(Pieces) /\ Len(parts') <= MaxDeltas
    BY <1>0, <1>12, <2>1 DEF Delta, Unshown
  <2>3. events' \in Seq(SseEvent)
    BY <1>0, <1>12, <2>1, TokenTyped, AppendTyped DEF Delta, ShownTyped, Token
  <2>4. QED
    BY <1>0, <1>12, <2>2, <2>3 DEF Delta, ShownTyped, Unshown, attempt, loop, ledger
<1>13. CASE StreamBreaks \/ \E usage \in BOOLEAN : StreamEnds(usage)
  <2>1. Unshown'
    BY <1>0, <1>13 DEF StreamBreaks, StreamEnds, Unshown, attempt, loop, ledger
  <2>2. CloseStream /\ parts \in Seq(Pieces)
    BY <1>0, <1>13 DEF StreamBreaks, StreamEnds, Unshown
  <2>3. QED
    BY <1>0, <2>1, <2>2, CloseStreamTyped
<1>14. CASE HangUp
  BY <1>0, <1>14 DEF HangUp, ShownTyped, Unshown, attempt, loop, ledger
<1>15. ASSUME NEW q \in Input, Begin(q)
       PROVE  ShownTyped' /\ Unshown'
  <2>1. <<>> \in Seq(Model) /\ <<>> \in Seq(Pieces) /\ <<>> \in Seq(SseEvent)
    OBVIOUS
  <2>2. 0 \in 0 .. MaxIterations /\ 0 \in 0 .. MaxCalls /\ 0 \in Pieces /\ MaxDeltas \in Nat
    BY <1>0, BoundsAssumption, PiecesAreNumbers
  <2>3. QED
    BY <1>15, <2>1, <2>2 DEF Begin, NoAnswer, ShownTyped, Unshown
<1>16. QED
  BY <1>1, <1>2, <1>3, <1>4, <1>7, <1>8, <1>9, <1>10, <1>11, <1>12, <1>13, <1>14, <1>15 DEF Next, Work

-----------------------------------------------------------------------------
(* The ledger *)

OfRun(rs, k) == {r \in rs : r.run = k}

\* One report more, under a reference no other has, or none.
LEMMA ReportKeeps ==
  ASSUME Metered, runs \in Nat, NEW usage \in BOOLEAN, NEW iteration, Report(usage, iteration)
  PROVE  /\ IsFiniteSet(reports')
         /\ \A r \in reports' : r.ref \in 0 .. Cardinality(reports') - 1 /\ r.run \in 0 .. runs
         /\ Cardinality(OfRun(reports', runs))
              = Cardinality(OfRun(reports, runs)) + (IF usage THEN 1 ELSE 0)
<1>0. IsFiniteSet(reports) /\ Cardinality(reports) \in Nat
  BY FS_CardinalityType DEF Metered
<1>1. CASE ~usage
  <2>1. reports' = reports
    BY <1>1 DEF Report
  <2>2. IsFiniteSet(OfRun(reports, runs))
    BY FS_Subset DEF Metered, OfRun
  <2>3. Cardinality(OfRun(reports, runs)) \in Nat
    BY <2>2, FS_CardinalityType
  <2>4. QED
    BY <1>1, <2>1, <2>3 DEF Metered
<1>2. CASE usage
  <2> DEFINE new == [ref |-> RequestRef, iteration |-> iteration, run |-> runs]
  <2>1. reports' = reports \cup {new}
    BY <1>2 DEF Report
  <2>2. new.ref = Cardinality(reports) /\ new.run = runs
    BY DEF RequestRef
  <2> HIDE DEF new
  <2>3. new \notin reports
    BY <1>0, <2>2 DEF Metered
  <2>4. IsFiniteSet(reports') /\ Cardinality(reports') = Cardinality(reports) + 1
    BY <1>0, <2>1, <2>3, FS_AddElement
  <2>5. OfRun(reports', runs) = OfRun(reports, runs) \cup {new} /\ new \notin OfRun(reports, runs)
    BY <2>1, <2>2, <2>3 DEF OfRun
  <2>6. IsFiniteSet(OfRun(reports, runs))
    BY FS_Subset DEF Metered, OfRun
  <2>7. Cardinality(OfRun(reports', runs)) = Cardinality(OfRun(reports, runs)) + 1
    BY <2>5, <2>6, FS_AddElement
  <2>8. ASSUME NEW r \in reports'
        PROVE  r.ref \in 0 .. Cardinality(reports') - 1 /\ r.run \in 0 .. runs
    <3>1. CASE r = new
      BY <1>0, <2>2, <2>4, <3>1
    <3>2. CASE r \in reports
      BY <1>0, <2>4, <3>2 DEF Metered
    <3>3. QED
      BY <2>1, <3>1, <3>2
  <2>9. QED
    BY <1>2, <2>4, <2>7, <2>8
<1>3. QED
  BY <1>1, <1>2

\* A report may be scheduled in a step that starts another run.
LEMMA MeteredKeeps ==
  ASSUME Metered, runs \in Nat, runs' \in {runs, runs + 1},
         \/ UNCHANGED reports
         \/ \E usage \in BOOLEAN : \E iteration : Report(usage, iteration)
  PROVE  Metered' /\ \A r \in reports' : r.run \in 0 .. runs
<1>1. CASE UNCHANGED reports
  BY <1>1 DEF Metered
<1>2. CASE \E usage \in BOOLEAN : \E iteration : Report(usage, iteration)
  <2>1. /\ IsFiniteSet(reports')
        /\ \A r \in reports' : r.ref \in 0 .. Cardinality(reports') - 1 /\ r.run \in 0 .. runs
    BY <1>2, ReportKeeps
  <2>2. QED
    BY <2>1 DEF Metered
<1>3. QED
  BY <1>1, <1>2

\* Which runs a step may start, and which reports it may schedule.
LEMMA RunsAndReports ==
  ASSUME TurnInv, Work \/ HangUp
  PROVE  /\ runs' \in {runs, runs + 1} /\ runs \in Nat
         /\ \/ UNCHANGED reports
            \/ \E usage \in BOOLEAN : \E iteration : Report(usage, iteration)
<1>0. left \in Seq(Model) /\ None \notin Model /\ runs \in Nat
  BY ModelsAssumption, PiecesAreNumbers DEF TurnInv, TurnTypes, TypeOK
<1>1. FallBack => runs' \in {runs, runs + 1}
  BY <1>0, FallBackCases
<1>2. CASE AskRaises \/ ToolsRaise
  BY <1>0, <1>1, <1>2 DEF AskRaises, ToolsRaise, ledger
<1>3. ASSUME NEW usage \in BOOLEAN, AskBroken(usage)
      PROVE  runs' \in {runs, runs + 1} /\ Report(usage, iter)
  BY <1>1, <1>3 DEF AskBroken
<1>4. ASSUME NEW usage \in BOOLEAN, NEW piece, AskText(usage, piece)
      PROVE  runs' = runs /\ Report(usage, iter)
  BY <1>4 DEF AskText
<1>5. ASSUME NEW usage \in BOOLEAN, NEW n, AskTools(usage, n)
      PROVE  runs' = runs /\ Report(usage, iter)
  BY <1>5 DEF AskTools
<1>6. ASSUME NEW usage \in BOOLEAN, StreamEnds(usage)
      PROVE  runs' = runs /\ Report(usage, None)
  BY <1>6 DEF StreamEnds
<1>7. ASSUME NEW resolved, NEW exhausted, Route(resolved, exhausted) \/ Open(resolved, exhausted)
      PROVE  runs' \in {runs, runs + 1} /\ UNCHANGED reports
  BY <1>7 DEF Route, Open, ledger
<1>8. ASSUME Prepare \/ ToolCall \/ StreamBreaks \/ HangUp \/ (\E piece \in {0, runs} : Delta(piece))
      PROVE  runs' = runs /\ UNCHANGED reports
  BY <1>8 DEF Prepare, ToolCall, StreamBreaks, HangUp, Delta, ledger
<1>9. ASSUME NEW connected \in BOOLEAN, Connect(connected)
      PROVE  runs' \in {runs, runs + 1} /\ UNCHANGED reports
  BY <1>9 DEF Connect
<1>10. QED
  BY <1>0, <1>2, <1>3, <1>4, <1>5, <1>6, <1>7, <1>8, <1>9 DEF Work

LEMMA MeteredStep == TurnInv /\ [Next]_vars => Metered'
<1> SUFFICES ASSUME TurnInv, [Next]_vars PROVE Metered'
  OBVIOUS
<1>1. CASE UNCHANGED vars
  BY <1>1 DEF vars, TurnInv, Metered
<1>2. ASSUME NEW q \in Input, Begin(q)
      PROVE  Metered'
  BY <1>2, FS_EmptySet DEF Begin, Metered
<1>3. CASE Work \/ HangUp
  BY <1>3, RunsAndReports, MeteredKeeps DEF TurnInv
<1>4. QED
  BY <1>1, <1>2, <1>3 DEF Next

\* A run that starts has reported nothing.
LEMMA NewRunIsFree ==
  ASSUME \A r \in reports' : r.run \in 0 .. runs, runs \in Nat
  PROVE  Cardinality(OfRun(reports', runs + 1)) = 0
<1>1. OfRun(reports', runs + 1) = {}
  BY DEF OfRun
<1>2. QED
  BY <1>1, FS_EmptySet

\* A failure of a batched turn is no answer.
LEMMA FailIsNoAnswer ==
  ASSUME NEW status \in {403, 500}, Fail(status), ~input.stream
  PROVE  out'.status # 200
  BY DEF Fail, NoAnswer

\* The tokens of an answer are those of its own run, however often and wherever
\* the runs before it broke.
LEMMA CostedStep == TurnInv /\ [Next]_vars => Costed'
<1> SUFFICES ASSUME TurnInv, [Next]_vars
             PROVE  /\ pc' \in {"ask", "tools"} => spent' = Cardinality(OfRun(reports', runs'))
                    /\ (pc' = "over" /\ out'.status = 200 /\ ~input'.stream)
                          => out'.tokens = Cardinality(OfRun(reports', runs'))
  BY DEF Costed, AnswerTellsItsCost, OfRun
<1> DEFINE P == /\ pc' \in {"ask", "tools"} => spent' = Cardinality(OfRun(reports', runs'))
                /\ (pc' = "over" /\ out'.status = 200 /\ ~input'.stream)
                      => out'.tokens = Cardinality(OfRun(reports', runs'))
<1>0. /\ left \in Seq(Model) /\ None \notin Model /\ runs \in Nat /\ spent \in Nat
      /\ pc \in {"ask", "tools"} => spent = Cardinality(OfRun(reports, runs))
      /\ (pc = "over" /\ out.status = 200 /\ ~input.stream)
            => out.tokens = Cardinality(OfRun(reports, runs))
      /\ Metered /\ Counted /\ (Streaming => input.stream)
  BY ModelsAssumption, PiecesAreNumbers
     DEF TurnInv, TurnTypes, TypeOK, Costed, AnswerTellsItsCost, Telling, OfRun
<1>1. CASE UNCHANGED vars
  BY <1>0, <1>1 DEF vars
<1>2. CASE Prepare
  BY <1>2, FailIsNoAnswer DEF Prepare, Fail
<1>3. ASSUME NEW resolved, NEW exhausted, Route(resolved, exhausted)
      PROVE  P
  <2>1. CASE resolved = "nokey" \/ exhausted
    BY <1>3, <2>1, FailIsNoAnswer DEF Route, Fail
  <2>2. CASE ~(resolved = "nokey" \/ exhausted)
    <3>1. reports' = reports /\ runs' = runs + 1 /\ spent' = 0 /\ pc' = "ask"
      BY <1>0, <1>3, <2>2 DEF Route, loop, ledger, Counted
    <3>2. Cardinality(OfRun(reports', runs + 1)) = 0
      BY <1>0, <3>1, NewRunIsFree DEF Metered
    <3>3. QED
      BY <3>1, <3>2
  <2>3. QED
    BY <2>1, <2>2
<1>4. ASSUME CloseStream, input' = input, input.stream
      PROVE  P
  BY <1>4 DEF CloseStream
<1>5. ASSUME NEW resolved, NEW exhausted, Open(resolved, exhausted)
      PROVE  P
  BY <1>0, <1>4, <1>5 DEF Open, Streaming
<1>6. ASSUME NEW connected, Connect(connected)
      PROVE  P
  BY <1>0, <1>4, <1>6 DEF Connect, Streaming
<1>7. CASE StreamBreaks \/ \E usage \in BOOLEAN : StreamEnds(usage)
  BY <1>0, <1>4, <1>7 DEF StreamBreaks, StreamEnds, Streaming
<1>8. ASSUME NEW piece, Delta(piece)
      PROVE  P
  BY <1>8 DEF Delta
<1>9. ASSUME FallBack, input' = input, Work
      PROVE  P
  <2>1. CASE Fail(500)
    BY <1>9, <2>1, FailIsNoAnswer DEF Fail
  <2>2. CASE pc' = "ask" /\ spent' = 0 /\ runs' = runs + 1
    <3>1. \A r \in reports' : r.run \in 0 .. runs
      BY <1>0, <1>9, RunsAndReports, MeteredKeeps
    <3>2. QED
      BY <1>0, <2>2, <3>1, NewRunIsFree
  <2>3. QED
    BY <1>0, <1>9, <2>1, <2>2, FallBackCases
<1>10. CASE AskRaises \/ ToolsRaise \/ \E usage \in BOOLEAN : AskBroken(usage)
  BY <1>9, <1>10 DEF AskRaises, ToolsRaise, AskBroken, Work
<1>11. ASSUME NEW usage \in BOOLEAN, NEW piece, AskText(usage, piece)
       PROVE  P
  <2>1. Cardinality(OfRun(reports', runs)) = Cardinality(OfRun(reports, runs)) + (IF usage THEN 1 ELSE 0)
    BY <1>0, <1>11, ReportKeeps DEF AskText
  <2>2. /\ spent' = (IF usage THEN spent + 1 ELSE spent) /\ runs' = runs
        /\ pc' = "over" /\ out'.tokens = spent' /\ pc = "ask"
    BY <1>11 DEF AskText, Answer
  <2>3. QED
    BY <1>0, <2>1, <2>2
<1>12. ASSUME NEW usage \in BOOLEAN, NEW n, AskTools(usage, n)
       PROVE  P
  <2>1. Cardinality(OfRun(reports', runs)) = Cardinality(OfRun(reports, runs)) + (IF usage THEN 1 ELSE 0)
    BY <1>0, <1>12, ReportKeeps DEF AskTools
  <2>2. /\ spent' = (IF usage THEN spent + 1 ELSE spent) /\ runs' = runs
        /\ pc' = "tools" /\ pc = "ask"
    BY <1>12 DEF AskTools
  <2>3. QED
    BY <1>0, <2>1, <2>2
<1>13. CASE ToolCall
  <2>1. /\ spent' = spent /\ reports' = reports /\ runs' = runs /\ pc = "tools"
        /\ pc' = "over" => out'.tokens = spent'
    BY <1>13 DEF ToolCall, Answer, ledger
  <2>2. QED
    BY <1>0, <2>1
<1>14. CASE HangUp \/ \E q \in Input : Begin(q)
  BY <1>14 DEF HangUp, Begin
<1>15. QED
  BY <1>1, <1>2, <1>3, <1>5, <1>6, <1>7, <1>8, <1>10, <1>11, <1>12, <1>13, <1>14 DEF Next, Work

-----------------------------------------------------------------------------
(* A stream that is over has closed *)

\* What a stream has sent when it sends its done, or a batched turn.
ClosedBy(evs) == evs # <<>> /\ evs[Len(evs)].event = "done"

LEMMA DoneCloses ==
  ASSUME NEW evs \in Seq(SseEvent), NEW text \in Seq(Pieces)
  PROVE  ClosedBy(Append(evs, Event("done", text)))
<1> DEFINE done == Event("done", text)
           more == Append(evs, done)
<1>1. done \in SseEvent /\ done.event = "done"
  BY EventTyped DEF Event
<1> HIDE DEF done
<1>2. more # <<>> /\ more[Len(more)] = done
  BY <1>1
<1>3. QED
  BY <1>1, <1>2 DEF ClosedBy, done

LEMMA OverCloses ==
  ASSUME pc' = "over", input'.stream => ClosedBy(events')
  PROVE  Closing'
  BY DEF Closing, StreamCloses, IsDone, ClosedBy

LEMMA LiveCloses ==
  ASSUME pc' # "over", out' = NoAnswer
  PROVE  Closing'
  BY DEF Closing, StreamCloses, NoAnswer

LEMMA FailCloses ==
  ASSUME events \in Seq(SseEvent), NEW status, Fail(status), input' = input
  PROVE  Closing'
<1>1. <<>> \in Seq(Pieces)
  OBVIOUS
<1>2. pc' = "over" /\ (input.stream => events' = Append(events, Event("done", <<>>)))
  BY DEF Fail
<1>3. QED
  BY <1>1, <1>2, DoneCloses, OverCloses

LEMMA CloseStreamCloses ==
  ASSUME events \in Seq(SseEvent), parts \in Seq(Pieces), Closing, pc # "over",
         CloseStream, input' = input
  PROVE  Closing'
<1>1. CASE Words(parts) = <<>>
  BY <1>1, LiveCloses DEF CloseStream, Closing
<1>2. CASE Words(parts) # <<>>
  <2>1. pc' = "over" /\ events' = Append(events, Event("done", Words(parts)))
    BY <1>2 DEF CloseStream
  <2>2. QED
    BY <2>1, WordsTyped, DoneCloses, OverCloses
<1>3. QED
  BY <1>1, <1>2

LEMMA AnswerCloses ==
  ASSUME events \in Seq(SseEvent), input \in Input, NEW piece \in Pieces, Answer(piece),
         input' = input
  PROVE  Closing'
<1>1. <<piece>> \in Seq(Pieces)
  OBVIOUS
<1>2. Words(<<piece>>) \in Seq(Pieces) /\ Append(events, Token(piece)) \in Seq(SseEvent)
  BY <1>1, WordsTyped, AppendTyped DEF Token
<1>3. /\ ClosedBy(Append(events, Event("done", Words(<<piece>>))))
      /\ ClosedBy(Append(Append(events, Token(piece)), Event("done", Words(<<piece>>))))
  BY <1>2, DoneCloses
<1>4. input.stream => ClosedBy(events')
  BY <1>3, AnswerShape
<1>5. pc' = "over"
  BY DEF Answer
<1>6. QED
  BY <1>4, <1>5, OverCloses

LEMMA FallBackCloses ==
  ASSUME TurnInv, pc \in {"ask", "tools"}, FallBack, input' = input
  PROVE  Closing'
<1>1. /\ left \in Seq(Model) /\ None \notin Model /\ events \in Seq(SseEvent) /\ out = NoAnswer
  BY ModelsAssumption DEF TurnInv, TurnTypes, TypeOK, Closing
<1>2. CASE Fail(500)
  BY <1>1, <1>2, FailCloses
<1>3. CASE pc' = "ask" /\ out' = out
  BY <1>1, <1>3, LiveCloses
<1>4. QED
  BY <1>1, <1>2, <1>3, FallBackCases

LEMMA ClosingStep == TurnInv /\ [Next]_vars => Closing'
<1> SUFFICES ASSUME TurnInv, [Next]_vars PROVE Closing'
  OBVIOUS
<1>0. /\ Closing /\ events \in Seq(SseEvent) /\ parts \in Seq(Pieces) /\ input \in Input
      /\ runs \in Pieces /\ 0 \in Pieces /\ (pc # "over" => out = NoAnswer)
  BY PiecesAreNumbers DEF TurnInv, TurnTypes, TypeOK, Closing
<1>1. CASE UNCHANGED vars
  BY <1>0, <1>1 DEF vars, Closing, StreamCloses, IsDone
<1>2. CASE Prepare
  <2>1. pc = "prepare" /\ input' = input
    BY <1>2 DEF Prepare
  <2>2. CASE Fail(403) \/ Fail(500)
    BY <1>0, <2>1, <2>2, FailCloses
  <2>3. CASE ~(Fail(403) \/ Fail(500))
    BY <1>0, <1>2, <2>1, <2>3, LiveCloses DEF Prepare
  <2>4. QED
    BY <2>2, <2>3
<1>3. ASSUME NEW resolved, NEW exhausted, Route(resolved, exhausted)
      PROVE  Closing'
  <2>1. CASE Fail(500)
    BY <1>0, <1>3, <2>1, FailCloses DEF Route
  <2>2. CASE pc' = "ask" /\ out' = out
    BY <1>0, <1>3, <2>2, LiveCloses DEF Route
  <2>3. QED
    BY <1>3, <2>1, <2>2 DEF Route
<1>4. ASSUME NEW resolved, NEW exhausted, Open(resolved, exhausted)
      PROVE  Closing'
  <2>1. CASE CloseStream
    BY <1>0, <1>4, <2>1, CloseStreamCloses DEF Open
  <2>2. CASE pc' = "connect" /\ out' = out
    BY <1>0, <1>4, <2>2, LiveCloses DEF Open
  <2>3. QED
    BY <1>4, <2>1, <2>2 DEF Open
<1>5. ASSUME NEW connected, Connect(connected)
      PROVE  Closing'
  <2>1. CASE CloseStream
    BY <1>0, <1>5, <2>1, CloseStreamCloses DEF Connect
  <2>2. CASE pc' \in {"relay", "connect"} /\ out' = out
    BY <1>0, <1>5, <2>2, LiveCloses DEF Connect
  <2>3. QED
    BY <1>5, <2>1, <2>2 DEF Connect
<1>6. ASSUME NEW piece, Delta(piece)
      PROVE  Closing'
  BY <1>0, <1>6, LiveCloses DEF Delta
<1>7. CASE StreamBreaks \/ \E usage \in BOOLEAN : StreamEnds(usage)
  BY <1>0, <1>7, CloseStreamCloses DEF StreamBreaks, StreamEnds
<1>8. CASE AskRaises \/ ToolsRaise \/ \E usage \in BOOLEAN : AskBroken(usage)
  BY <1>8, FallBackCloses DEF AskRaises, ToolsRaise, AskBroken
<1>9. ASSUME NEW usage \in BOOLEAN, NEW piece \in {0, runs}, AskText(usage, piece)
      PROVE  Closing'
  BY <1>0, <1>9, AnswerCloses DEF AskText
<1>10. ASSUME NEW usage \in BOOLEAN, NEW n, AskTools(usage, n)
       PROVE  Closing'
  BY <1>0, <1>10, LiveCloses DEF AskTools
<1>11. CASE ToolCall
  <2>1. pc = "tools" /\ input' = input
    BY <1>11 DEF ToolCall
  <2>2. CASE Answer(runs)
    BY <1>0, <2>1, <2>2, AnswerCloses
  <2>3. CASE pc' \in {"ask", "tools"} /\ out' = out
    BY <1>0, <2>1, <2>3, LiveCloses
  <2>4. QED
    BY <1>11, <2>1, <2>2, <2>3 DEF ToolCall
<1>12. CASE HangUp
  BY <1>0, <1>12 DEF HangUp, Closing, StreamCloses
<1>13. ASSUME NEW q \in Input, Begin(q)
       PROVE  Closing'
  BY <1>13, LiveCloses DEF Begin
<1>14. QED
  BY <1>1, <1>2, <1>3, <1>4, <1>5, <1>6, <1>7, <1>8, <1>9, <1>10, <1>11, <1>12, <1>13
     DEF Next, Work

-----------------------------------------------------------------------------
(* One voice, one story *)

\* As many words as deltas that are not blank, and each is one of them.
LEMMA WordsOf ==
  ASSUME NEW text \in Seq(Pieces)
  PROVE  /\ Words(text) \in Seq(Pieces)
         /\ \A i \in DOMAIN Words(text) : \E j \in DOMAIN text :
              Words(text)[i] = text[j] /\ text[j] # 0
         /\ Len(Words(text)) = Cardinality(Places(0, text, Len(text)))
         /\ IsFiniteSet(Places(0, text, Len(text)))
         /\ Words(text) = <<>> <=> \A j \in DOMAIN text : text[j] = 0
<1>1. /\ Words(text) \in Seq(Pieces)
      /\ Len(Words(text)) = Cardinality(Places(0, text, Len(text)))
      /\ IsFiniteSet(Places(0, text, Len(text)))
  BY WithoutProperties DEF Words
<1>2. \A i \in DOMAIN Words(text) : \E j \in DOMAIN text :
        Words(text)[i] = text[j] /\ text[j] # 0
  BY WithoutProperties DEF Words
<1>3. DOMAIN text = 1 .. Len(text)
  OBVIOUS
<1>4. Words(text) = <<>> <=> Len(Words(text)) = 0
  BY <1>1
<1>5. Len(Words(text)) = 0 <=> Places(0, text, Len(text)) = {}
  BY <1>1, FS_EmptySet
<1>6. Words(text) = <<>> <=> \A j \in DOMAIN text : text[j] = 0
  BY <1>3, <1>4, <1>5 DEF Places
<1>7. QED
  BY <1>1, <1>2, <1>6

LEMMA WordsOfOne ==
  ASSUME NEW p \in Pieces
  PROVE  /\ <<p>> \in Seq(Pieces)
         /\ Words(<<p>>) = <<>> <=> p = 0
         /\ p # 0 => Len(Words(<<p>>)) = 1
<1>1. <<p>> \in Seq(Pieces) /\ DOMAIN <<p>> = {1} /\ <<p>>[1] = p /\ Len(<<p>>) = 1
  OBVIOUS
<1>2. Words(<<p>>) = <<>> <=> p = 0
  BY <1>1, WordsOf
<1>3. ASSUME p # 0
      PROVE  Len(Words(<<p>>)) = 1
  <2>1. Places(0, <<p>>, Len(<<p>>)) = {1}
    BY <1>1, <1>3 DEF Places
  <2>2. QED
    BY <1>1, <2>1, WordsOf, FS_Singleton
<1>4. QED
  BY <1>1, <1>2, <1>3

\* After a blank, the words are those of the last piece.
LEMMA WordsAfterBlank ==
  ASSUME NEW text \in Seq(Pieces), \A j \in DOMAIN text : text[j] = 0, NEW p \in Pieces
  PROVE  Len(Words(Append(text, p))) = Len(Words(<<p>>))
<1> DEFINE more == Append(text, p)
<1>1. /\ more \in Seq(Pieces) /\ Len(more) = Len(text) + 1 /\ Len(text) \in Nat
      /\ \A j \in 1 .. Len(text) : more[j] = 0
      /\ more[Len(text) + 1] = p
  OBVIOUS
<1> HIDE DEF more
<1>2. Places(0, more, Len(more)) = IF p = 0 THEN {} ELSE {Len(text) + 1}
  BY <1>1 DEF Places
<1>3. Len(Words(more)) = IF p = 0 THEN 0 ELSE 1
  <2>1. Len(Words(more)) = Cardinality(Places(0, more, Len(more)))
    BY <1>1, WordsOf
  <2>2. Cardinality({}) = 0 /\ Cardinality({Len(text) + 1}) = 1
    BY FS_EmptySet, FS_Singleton
  <2>3. QED
    BY <1>2, <2>1, <2>2
<1>4. Len(Words(<<p>>)) = IF p = 0 THEN 0 ELSE 1
  <2>1. Len(<<>>) = 0
    OBVIOUS
  <2>2. QED
    BY <2>1, WordsOfOne
<1>5. QED
  BY <1>3, <1>4 DEF more

\* What the deltas say, blanks left out.
SaidBy(pieces) == {pieces[i] : i \in DOMAIN pieces} \ {0}

LEMMA ToldMore ==
  ASSUME NEW evs \in Seq(SseEvent), NEW pieces \in Seq(Pieces), Told(evs, pieces), NEW p \in Pieces
  PROVE  /\ Append(evs, Token(p)) \in Seq(SseEvent) /\ Append(pieces, p) \in Seq(Pieces)
         /\ Told(Append(evs, Token(p)), Append(pieces, p))
<1> DEFINE more == Append(evs, Token(p))
           longer == Append(pieces, p)
<1>1. Token(p) \in SseEvent
  BY TokenTyped
<1>2. /\ more \in Seq(SseEvent) /\ Len(more) = Len(evs) + 1
      /\ \A i \in 1 .. Len(evs) : more[i] = evs[i]
      /\ more[Len(evs) + 1] = Token(p)
  BY <1>1
<1>3. /\ longer \in Seq(Pieces) /\ Len(longer) = Len(pieces) + 1 /\ Len(pieces) \in Nat
      /\ \A i \in 1 .. Len(pieces) : longer[i] = pieces[i]
      /\ longer[Len(pieces) + 1] = p
  OBVIOUS
<1> HIDE DEF more, longer
<1>4. Len(evs) = Len(pieces) + 1
  BY DEF Told
<1>5. ASSUME NEW i \in 1 .. Len(longer)
      PROVE  more[i + 1] = Token(longer[i])
  <2>1. CASE i = Len(pieces) + 1
    BY <1>2, <1>3, <1>4, <2>1
  <2>2. CASE i # Len(pieces) + 1
    <3>1. i \in 1 .. Len(pieces) /\ i + 1 \in 1 .. Len(evs)
      BY <1>3, <1>4, <2>2
    <3>2. QED
      BY <1>2, <1>3, <3>1 DEF Told
  <2>3. QED
    BY <2>1, <2>2
<1>6. Told(more, longer)
  BY <1>2, <1>3, <1>4, <1>5 DEF Told
<1>7. QED
  BY <1>2, <1>3, <1>6 DEF more, longer

\* The texts of a stream that is told: nothing in meta, one piece in a token.
LEMMA ToldTexts ==
  ASSUME NEW evs \in Seq(SseEvent), NEW pieces \in Seq(Pieces), Told(evs, pieces)
  PROVE  /\ DOMAIN evs = 1 .. Len(pieces) + 1 /\ Len(pieces) \in Nat
         /\ evs[1].event = "meta" /\ evs[1].text = <<>>
         /\ \A i \in 1 .. Len(pieces) : evs[i + 1].event = "token" /\ evs[i + 1].text = <<pieces[i]>>
         /\ \A i \in DOMAIN evs : i = 1 \/ (i - 1 \in 1 .. Len(pieces) /\ (i - 1) + 1 = i)
<1>1. DOMAIN evs = 1 .. Len(pieces) + 1 /\ Len(pieces) \in Nat
  BY DEF Told
<1>2. \A i \in DOMAIN evs : i = 1 \/ (i - 1 \in 1 .. Len(pieces) /\ (i - 1) + 1 = i)
  BY <1>1
<1>3. evs[1].event = "meta" /\ evs[1].text = <<>>
  BY DEF Told, Event
<1>4. \A p : Token(p).event = "token" /\ Token(p).text = <<p>>
  BY DEF Token, Event
<1>5. \A i \in 1 .. Len(pieces) : evs[i + 1] = Token(pieces[i])
  BY DEF Told
<1>6. QED
  BY <1>1, <1>2, <1>3, <1>4, <1>5

\* The tokens with words are as many as the words.
LEMMA ToldCount ==
  ASSUME NEW evs \in Seq(SseEvent), NEW pieces \in Seq(Pieces), Told(evs, pieces)
  PROVE  Cardinality({j \in 1 .. Len(evs) : Words(evs[j].text) # <<>>}) = Len(Words(pieces))
<1> DEFINE spoken == {j \in 1 .. Len(evs) : Words(evs[j].text) # <<>>}
           places == Places(0, pieces, Len(pieces))
           next == [j \in places |-> j + 1]
<1>1. DOMAIN evs = 1 .. Len(evs) /\ Len(pieces) \in Nat /\ Len(evs) = Len(pieces) + 1
  BY DEF Told
<1>2. Words(<<>>) = <<>>
  <2>1. <<>> \in Seq(Pieces) /\ DOMAIN <<>> = {}
    OBVIOUS
  <2>2. QED
    BY <2>1, WordsOf
<1>3. ASSUME NEW i \in 1 .. Len(pieces)
      PROVE  i + 1 \in spoken <=> i \in places
  <2>1. Words(<<pieces[i]>>) = <<>> <=> pieces[i] = 0
    <3>1. pieces[i] \in Pieces
      OBVIOUS
    <3>2. QED
      BY <3>1, WordsOfOne
  <2>2. evs[i + 1].text = <<pieces[i]>> /\ i + 1 \in 1 .. Len(evs)
    BY <1>1, ToldTexts
  <2>3. QED
    BY <2>1, <2>2 DEF Places
<1>4. 1 \notin spoken
  BY <1>2, ToldTexts
<1>5. places \subseteq 1 .. Len(pieces)
  BY DEF Places
<1>6. \A j \in spoken : j - 1 \in 1 .. Len(pieces) /\ (j - 1) + 1 = j
  BY <1>1, <1>4
<1> HIDE DEF spoken, places
<1>7. next \in Bijection(places, spoken)
  <2>1. next \in [places -> spoken]
    BY <1>3, <1>5
  <2>2. \A a, b \in places : next[a] = next[b] => a = b
    BY <1>5
  <2>3. \A j \in spoken : \E i \in places : next[i] = j
    BY <1>3, <1>6
  <2>4. QED
    BY <2>1, <2>2, <2>3 DEF Bijection, Injection, IsInjective, Surjection
<1>8. IsFiniteSet(places) /\ Len(Words(pieces)) = Cardinality(places)
  BY WordsOf DEF places
<1>9. Cardinality(spoken) = Cardinality(places)
  BY <1>7, <1>8, FS_Bijection DEF ExistsBijection
<1>10. QED
  BY <1>8, <1>9 DEF spoken

\* Said and DoneSaysItAgain of any events.
VoiceOf(evs) ==
  {piece \in UNION {{evs[i].text[j] : j \in DOMAIN evs[i].text} : i \in DOMAIN evs} : piece # 0}
Story(evs, ended) ==
  /\ \A i \in DOMAIN evs : evs[i].event = "token" => evs[1].event = "meta"
  /\ \A i \in DOMAIN evs : evs[i].event = "done" =>
       /\ i = Len(evs) /\ ended
       /\ \A piece \in VoiceOf(evs) : \E j \in 1 .. i - 1 : evs[j].text = <<piece>>
       /\ Len(evs[i].text) = Cardinality({j \in 1 .. i - 1 : Words(evs[j].text) # <<>>})

LEMMA ToldVoice ==
  ASSUME NEW evs \in Seq(SseEvent), NEW pieces \in Seq(Pieces), Told(evs, pieces)
  PROVE  VoiceOf(evs) \subseteq SaidBy(pieces)
<1>1. SUFFICES ASSUME NEW i \in DOMAIN evs, NEW j \in DOMAIN evs[i].text, evs[i].text[j] # 0
               PROVE  evs[i].text[j] \in SaidBy(pieces)
  BY DEF VoiceOf
<1>2. i # 1
  <2>1. DOMAIN <<>> = {}
    OBVIOUS
  <2>2. QED
    BY <2>1, <1>1, ToldTexts
<1>3. i - 1 \in 1 .. Len(pieces) /\ evs[i].text = <<pieces[i - 1]>>
  BY <1>2, ToldTexts
<1>4. evs[i].text[j] = pieces[i - 1]
  <2>1. \A x : DOMAIN <<x>> = {1} /\ <<x>>[1] = x
    OBVIOUS
  <2>2. QED
    BY <1>3, <2>1
<1>5. i - 1 \in DOMAIN pieces
  BY <1>3
<1>6. QED
  BY <1>1, <1>4, <1>5 DEF SaidBy

LEMMA ToldStory ==
  ASSUME NEW evs \in Seq(SseEvent), NEW pieces \in Seq(Pieces), Told(evs, pieces), NEW ended
  PROVE  Story(evs, ended)
<1>1. \A i \in DOMAIN evs : evs[i].event # "done"
  BY ToldTexts
<1>2. QED
  BY <1>1, ToldTexts DEF Story

\* A done that says the deltas again.
LEMMA ClosedStory ==
  ASSUME NEW evs \in Seq(SseEvent), NEW pieces \in Seq(Pieces), Told(evs, pieces),
         NEW text \in Seq(Pieces), Len(text) = Len(Words(pieces)),
         \A i \in DOMAIN text : \E j \in DOMAIN pieces : text[i] = pieces[j]
  PROVE  /\ Story(Append(evs, Event("done", text)), TRUE)
         /\ VoiceOf(Append(evs, Event("done", text))) \subseteq SaidBy(pieces)
<1> DEFINE more == Append(evs, Event("done", text))
           n == Len(evs) + 1
<1>1. /\ Len(more) = n /\ DOMAIN more = 1 .. n /\ Len(evs) \in Nat
      /\ \A i \in 1 .. Len(evs) : more[i] = evs[i]
      /\ more[n] = Event("done", text)
      /\ DOMAIN evs = 1 .. Len(evs) /\ n - 1 = Len(evs)
  BY EventTyped
<1>2. Event("done", text).event = "done" /\ Event("done", text).text = text
  BY DEF Event
<1> HIDE DEF more
<1>3. Len(evs) >= 1 /\ \A i \in DOMAIN evs : evs[i].event # "done"
  <2>1. Len(evs) >= 1
    BY DEF Told
  <2>2. \A i \in DOMAIN evs : evs[i].event # "done"
    BY ToldTexts
  <2>3. QED
    BY <2>1, <2>2
<1>4. VoiceOf(more) \subseteq SaidBy(pieces)
  <2>1. SUFFICES ASSUME NEW i \in DOMAIN more, NEW j \in DOMAIN more[i].text, more[i].text[j] # 0
                 PROVE  more[i].text[j] \in SaidBy(pieces)
    BY DEF VoiceOf
  <2>2. CASE i = n
    <3>1. more[i].text = text
      BY <1>1, <1>2, <2>2
    <3>2. QED
      BY <2>1, <3>1 DEF SaidBy
  <2>3. CASE i # n
    <3>1. i \in DOMAIN evs /\ more[i] = evs[i]
      BY <1>1, <2>3
    <3>2. evs[i].text[j] \in VoiceOf(evs)
      BY <2>1, <3>1 DEF VoiceOf
    <3>3. QED
      BY <3>1, <3>2, ToldVoice
  <2>4. QED
    BY <2>2, <2>3
<1>5. \A i \in DOMAIN more : more[i].event = "done" => i = n
  BY <1>1, <1>3
<1>6. more[1].event = "meta"
  BY <1>1, <1>3, ToldTexts
<1>7. \A piece \in VoiceOf(more) : \E j \in 1 .. n - 1 : more[j].text = <<piece>>
  <2>1. TAKE piece \in VoiceOf(more)
  <2>2. PICK k \in DOMAIN pieces : pieces[k] = piece
    BY <1>4 DEF SaidBy
  <2>3. k \in 1 .. Len(pieces) /\ k + 1 \in DOMAIN evs /\ evs[k + 1].text = <<piece>>
    BY <2>2, ToldTexts
  <2>4. k + 1 \in 1 .. n - 1 /\ more[k + 1].text = <<piece>>
    BY <1>1, <2>3
  <2>5. QED
    BY <2>4
<1>8. Len(more[n].text) = Cardinality({j \in 1 .. n - 1 : Words(more[j].text) # <<>>})
  <2>1. {j \in 1 .. n - 1 : Words(more[j].text) # <<>>}
          = {j \in 1 .. Len(evs) : Words(evs[j].text) # <<>>}
    BY <1>1
  <2>2. QED
    BY <1>1, <1>2, <2>1, ToldCount
<1>9. Story(more, TRUE)
  BY <1>1, <1>5, <1>6, <1>7, <1>8 DEF Story
<1>10. QED
  BY <1>4, <1>9 DEF more

\* Nothing sent, or an empty done.
LEMMA NoStory ==
  ASSUME NEW ended
  PROVE  /\ Story(<<>>, ended) /\ VoiceOf(<<>>) = {}
         /\ Story(<<Event("done", <<>>)>>, TRUE) /\ VoiceOf(<<Event("done", <<>>)>>) = {}
<1>1. Story(<<>>, ended) /\ VoiceOf(<<>>) = {}
  <2>1. DOMAIN <<>> = {}
    OBVIOUS
  <2>2. QED
    BY <2>1 DEF Story, VoiceOf
<1> DEFINE one == <<Event("done", <<>>)>>
<1>2. /\ DOMAIN one = {1} /\ Len(one) = 1 /\ 1 .. 1 - 1 = {}
      /\ one[1].event = "done" /\ one[1].text = <<>>
      /\ DOMAIN <<>> = {} /\ Len(<<>>) = 0
  BY DEF Event
<1> HIDE DEF one
<1>3. VoiceOf(one) = {}
  BY <1>2 DEF VoiceOf
<1>4. Story(one, TRUE)
  <2>1. Cardinality({j \in 1 .. 1 - 1 : Words(one[j].text) # <<>>}) = 0
    BY <1>2, FS_EmptySet
  <2>2. QED
    BY <1>2, <1>3, <2>1 DEF Story
<1>5. QED
  BY <1>1, <1>3, <1>4 DEF one

LEMMA BlanksSayNothing ==
  ASSUME NEW pieces \in Seq(Pieces), \A j \in DOMAIN pieces : pieces[j] = 0
  PROVE  SaidBy(pieces) = {} /\ Words(pieces) = <<>> /\ Len(Words(pieces)) = 0
<1>1. Words(pieces) = <<>>
  BY WordsOf
<1>2. Len(<<>>) = 0
  OBVIOUS
<1>3. QED
  BY <1>1, <1>2 DEF SaidBy

\* Telling of a turn that is over, of a stream under way, of a batched turn.
LEMMA OverTells ==
  ASSUME pc' = "over", Story(events', TRUE), VoiceOf(events') \subseteq {runs'}
  PROVE  Telling'
<1>1. Said' = VoiceOf(events')
  BY DEF Said, VoiceOf
<1>2. DoneSaysItAgain'
  BY <1>1 DEF DoneSaysItAgain, IsDone, Story
<1>3. QED
  BY <1>1, <1>2 DEF Telling, Streaming, Live, Routed

LEMMA StreamTells ==
  ASSUME pc' \in {"open", "connect", "relay", "route", "ask", "tools"}, input'.stream,
         events' \in Seq(SseEvent), parts' \in Seq(Pieces), Told(events', parts'),
         pc' \in {"open", "connect"} => parts' = <<>>,
         pc' \in {"route", "ask", "tools"} => \A i \in DOMAIN parts' : parts'[i] = 0,
         pc' = "relay" => \A i \in DOMAIN parts' : parts'[i] \in {0, runs'}
  PROVE  Telling'
<1>1. Said' = VoiceOf(events')
  BY DEF Said, VoiceOf
<1>2. VoiceOf(events') \subseteq SaidBy(parts')
  BY ToldVoice
<1>3. SaidBy(parts') \subseteq {runs'}
  <2>1. DOMAIN <<>> = {}
    OBVIOUS
  <2>2. \A i \in DOMAIN parts' : parts'[i] \in {0, runs'}
    BY <2>1
  <2>3. QED
    BY <2>2 DEF SaidBy
<1>4. Story(events', FALSE)
  BY ToldStory
<1>5. DoneSaysItAgain'
  BY <1>1, <1>4 DEF DoneSaysItAgain, IsDone, Story
<1>6. Said' \subseteq {runs'}
  BY <1>1, <1>2, <1>3
<1>7. QED
  BY <1>5, <1>6 DEF Telling, Streaming, Live, Routed

LEMMA BatchTells ==
  ASSUME pc' \in {"prepare", "route", "ask", "tools"}, events' = <<>>, parts' = <<>>,
         pc' # "prepare" => ~input'.stream
  PROVE  Telling'
<1>1. Said' = {}
  BY NoStory DEF Said, VoiceOf
<1>2. DOMAIN <<>> = {}
  OBVIOUS
<1>3. DoneSaysItAgain'
  BY <1>2 DEF DoneSaysItAgain
<1>4. QED
  BY <1>1, <1>2, <1>3 DEF Telling, Streaming, Live, Routed

\* A failure of a turn that has told what its deltas say, which is nothing.
LEMMA FailTells ==
  ASSUME Telling, events \in Seq(SseEvent), parts \in Seq(Pieces), Routed, Fail(500)
  PROVE  Telling'
<1>1. \A j \in DOMAIN parts : parts[j] = 0
  BY DEF Telling
<1>2. pc' = "over"
  BY DEF Fail
<1>3. CASE input.stream
  <2>1. Told(events, parts)
    BY <1>3 DEF Telling, Live, Routed
  <2>2. <<>> \in Seq(Pieces) /\ Len(<<>>) = 0 /\ DOMAIN <<>> = {}
    OBVIOUS
  <2>3. /\ Story(Append(events, Event("done", <<>>)), TRUE)
        /\ VoiceOf(Append(events, Event("done", <<>>))) \subseteq SaidBy(parts)
    BY <1>1, <2>1, <2>2, BlanksSayNothing, ClosedStory
  <2>4. events' = Append(events, Event("done", <<>>))
    BY <1>3 DEF Fail
  <2>5. SaidBy(parts) = {}
    BY <1>1, BlanksSayNothing
  <2>6. QED
    BY <1>2, <2>3, <2>4, <2>5, OverTells
<1>4. CASE ~input.stream
  <2>1. events' = <<>>
    BY <1>4 DEF Fail, Telling, Live, Routed
  <2>2. QED
    BY <1>2, <2>1, NoStory, OverTells
<1>5. QED
  BY <1>3, <1>4

LEMMA CloseStreamTells ==
  ASSUME Telling, events \in Seq(SseEvent), parts \in Seq(Pieces), Streaming, CloseStream,
         UNCHANGED <<input, parts>>, runs' = runs
  PROVE  Telling'
<1>1. Told(events, parts) /\ input.stream
  BY DEF Telling, Live, Streaming
<1>2. CASE Words(parts) = <<>>
  <2>1. \A j \in DOMAIN parts : parts[j] = 0
    BY <1>2, WordsOf
  <2>2. pc' = "route" /\ events' = events
    BY <1>2 DEF CloseStream
  <2>3. QED
    BY <1>1, <2>1, <2>2, StreamTells
<1>3. CASE Words(parts) # <<>>
  <2>1. pc' = "over" /\ events' = Append(events, Event("done", Words(parts)))
    BY <1>3 DEF CloseStream
  <2>2. /\ Story(Append(events, Event("done", Words(parts))), TRUE)
        /\ VoiceOf(Append(events, Event("done", Words(parts)))) \subseteq SaidBy(parts)
    BY <1>1, WordsOf, ClosedStory
  <2>3. SaidBy(parts) \subseteq {runs}
    <3>1. DOMAIN <<>> = {}
      OBVIOUS
    <3>2. \A i \in DOMAIN parts : parts[i] \in {0, runs}
      BY <3>1 DEF Telling, Streaming
    <3>3. QED
      BY <3>2 DEF SaidBy
  <2>4. QED
    BY <2>1, <2>2, <2>3, OverTells
<1>4. QED
  BY <1>2, <1>3

\* An answer of the router, which speaks after a silent stream or none.
LEMMA AnswerTells ==
  ASSUME Telling, events \in Seq(SseEvent), parts \in Seq(Pieces), input \in Input, Routed,
         runs \in Pieces, NEW piece \in {0, runs}, Answer(piece), runs' = runs
  PROVE  Telling'
<1>1. \A j \in DOMAIN parts : parts[j] = 0
  BY DEF Telling
<1>2. pc' = "over" /\ piece \in Pieces
  BY PiecesAreNumbers DEF Answer
<1>3. input.stream => Told(events, parts)
  BY DEF Telling, Live, Routed
<1> DEFINE text == Words(<<piece>>)
<1>4. /\ text \in Seq(Pieces)
      /\ \A i \in DOMAIN text : text[i] = piece
      /\ piece = 0 => text = <<>>
      /\ Len(text) = Len(Words(Append(parts, piece)))
  <2>1. <<piece>> \in Seq(Pieces) /\ \A j \in DOMAIN <<piece>> : <<piece>>[j] = piece
    BY <1>2
  <2>2. QED
    BY <1>1, <1>2, <2>1, WordsOf, WordsOfOne, WordsAfterBlank
<1> HIDE DEF text
<1>5. CASE ~input.stream
  <2>1. events' = <<>>
    BY <1>2, <1>5, AnswerShape DEF Telling, Live, Routed
  <2>2. QED
    BY <1>2, <2>1, NoStory, OverTells
<1>6. CASE input.stream /\ (input.tools \/ piece # 0)
  <2> DEFINE evs == Append(events, Token(piece))
             pieces == Append(parts, piece)
  <2>1. evs \in Seq(SseEvent) /\ pieces \in Seq(Pieces) /\ Told(evs, pieces)
    BY <1>2, <1>3, <1>6, ToldMore
  <2>2. \A i \in DOMAIN text : \E j \in DOMAIN pieces : text[i] = pieces[j]
    <3>1. Len(parts) + 1 \in DOMAIN pieces /\ pieces[Len(parts) + 1] = piece
      BY <1>2
    <3>2. QED
      BY <1>4, <3>1
  <2>3. SaidBy(pieces) \subseteq {runs}
    <3>1. \A i \in DOMAIN pieces : pieces[i] \in {0, runs}
      BY <1>1, <1>2
    <3>2. QED
      BY <3>1 DEF SaidBy
  <2>4. events' = Append(evs, Event("done", text))
    BY <1>2, <1>6, AnswerShape DEF text
  <2>5. Len(text) = Len(Words(pieces))
    BY <1>4
  <2> HIDE DEF evs, pieces
  <2>6. Story(events', TRUE) /\ VoiceOf(events') \subseteq SaidBy(pieces)
    BY <1>4, <2>1, <2>2, <2>4, <2>5, ClosedStory
  <2>7. QED
    BY <1>2, <2>3, <2>6, OverTells
<1>7. CASE input.stream /\ ~(input.tools \/ piece # 0)
  <2>1. events' = Append(events, Event("done", <<>>))
    BY <1>2, <1>4, <1>7, AnswerShape DEF text
  <2>2. <<>> \in Seq(Pieces) /\ Len(<<>>) = 0 /\ DOMAIN <<>> = {}
    OBVIOUS
  <2>3. Story(events', TRUE) /\ VoiceOf(events') \subseteq SaidBy(parts)
    BY <1>1, <1>3, <1>7, <2>1, <2>2, BlanksSayNothing, ClosedStory
  <2>4. SaidBy(parts) = {}
    BY <1>1, BlanksSayNothing
  <2>5. QED
    BY <1>2, <2>3, <2>4, OverTells
<1>8. QED
  BY <1>5, <1>6, <1>7

\* A fallback run starts where nothing has been said.
LEMMA FallBackTells ==
  ASSUME TurnInv, pc \in {"ask", "tools"}, FallBack, UNCHANGED <<input, parts>>
  PROVE  Telling'
<1>0. /\ Telling /\ events \in Seq(SseEvent) /\ parts \in Seq(Pieces) /\ Routed
      /\ left \in Seq(Model) /\ None \notin Model
  BY ModelsAssumption DEF TurnInv, TurnTypes, TypeOK, Routed
<1>1. CASE Fail(500)
  BY <1>0, <1>1, FailTells
<1>2. CASE pc' = "ask" /\ events' = events
  <2>1. \A i \in DOMAIN parts : parts[i] = 0
    BY <1>0 DEF Telling
  <2>2. CASE input.stream
    <3>1. Told(events, parts)
      BY <1>0, <2>2 DEF Telling, Live, Routed
    <3>2. QED
      BY <1>0, <1>2, <2>1, <2>2, <3>1, StreamTells
  <2>3. CASE ~input.stream
    <3>1. events = <<>> /\ parts = <<>>
      BY <1>0, <2>3 DEF Telling, Live, Routed
    <3>2. QED
      BY <1>2, <2>3, <3>1, BatchTells
  <2>4. QED
    BY <2>2, <2>3
<1>3. QED
  BY <1>0, <1>1, <1>2, FallBackCases

\* Nothing was said before the router asks: the next completion, a first run.
LEMMA AskTells ==
  ASSUME Telling, events \in Seq(SseEvent), parts \in Seq(Pieces), Routed,
         pc' \in {"ask", "tools"}, UNCHANGED <<input, parts, events>>
  PROVE  Telling'
<1>1. \A i \in DOMAIN parts : parts[i] = 0
  BY DEF Telling
<1>2. CASE input.stream
  <2>1. Told(events, parts)
    BY <1>2 DEF Telling, Live, Routed
  <2>2. QED
    BY <1>1, <1>2, <2>1, StreamTells
<1>3. CASE ~input.stream
  <2>1. events = <<>> /\ parts = <<>>
    BY <1>3 DEF Telling, Live, Routed
  <2>2. QED
    BY <1>3, <2>1, BatchTells
<1>4. QED
  BY <1>2, <1>3

LEMMA TellingStep == TurnInv /\ [Next]_vars => Telling'
<1> SUFFICES ASSUME TurnInv, [Next]_vars PROVE Telling'
  OBVIOUS
<1>0. /\ Telling /\ events \in Seq(SseEvent) /\ parts \in Seq(Pieces) /\ input \in Input
      /\ runs \in Pieces /\ Counted
  BY DEF TurnInv, TurnTypes, TypeOK
<1>1. CASE UNCHANGED vars
  <2>1. Said' = Said /\ (DoneSaysItAgain <=> DoneSaysItAgain')
    BY <1>1 DEF vars, Said, DoneSaysItAgain, IsDone
  <2>2. QED
    BY <1>0, <1>1, <2>1 DEF vars, Telling, Live, Streaming, Routed
<1>2. CASE Prepare
  <2>1. events = <<>> /\ parts = <<>> /\ input' = input /\ parts' = parts /\ runs' = runs
    BY <1>0, <1>2 DEF Prepare, Telling
  <2>2. CASE Fail(403) \/ Fail(500)
    <3>1. pc' = "over" /\ (events' = <<>> \/ events' = Append(<<>>, Event("done", <<>>)))
      BY <2>1, <2>2 DEF Fail
    <3>2. Append(<<>>, Event("done", <<>>)) = <<Event("done", <<>>)>>
      OBVIOUS
    <3>3. QED
      BY <3>1, <3>2, NoStory, OverTells
  <2>3. CASE ~(Fail(403) \/ Fail(500))
    <3>1. /\ pc' = IF input.stream /\ ~input.tools THEN "open" ELSE "route"
          /\ events' = IF input.stream THEN <<Event("meta", <<>>)>> ELSE events
      BY <1>2, <2>3 DEF Prepare
    <3>2. CASE input.stream
      <4>1. events' = <<Event("meta", <<>>)>> /\ pc' \in {"open", "route"}
        BY <3>1, <3>2
      <4>2. Event("meta", <<>>) \in SseEvent /\ <<>> \in Seq(Pieces)
        <5>1. <<>> \in Seq(Pieces)
          OBVIOUS
        <5>2. QED
          BY <5>1, EventTyped
      <4>3. events' \in Seq(SseEvent)
        BY <4>1, <4>2
      <4>4. /\ Told(<<Event("meta", <<>>)>>, <<>>) /\ DOMAIN <<>> = {}
        BY DEF Told
      <4>5. QED
        BY <2>1, <3>2, <4>1, <4>2, <4>3, <4>4, StreamTells
    <3>3. CASE ~input.stream
      BY <2>1, <3>1, <3>3, BatchTells
    <3>4. QED
      BY <3>2, <3>3
  <2>4. QED
    BY <2>2, <2>3
<1>3. ASSUME NEW resolved, NEW exhausted, Route(resolved, exhausted)
      PROVE  Telling'
  <2>1. pc = "route" /\ Routed /\ UNCHANGED <<input, parts>>
    BY <1>3 DEF Route, Routed
  <2>2. CASE Fail(500)
    BY <1>0, <2>1, <2>2, FailTells
  <2>3. CASE pc' = "ask" /\ events' = events
    BY <1>0, <2>1, <2>3, AskTells
  <2>4. QED
    BY <1>3, <2>2, <2>3 DEF Route
<1>4. ASSUME NEW resolved, NEW exhausted, Open(resolved, exhausted)
      PROVE  Telling'
  <2>1. pc = "open" /\ Streaming /\ UNCHANGED <<input, parts>> /\ runs' = runs
    BY <1>4 DEF Open, Streaming
  <2>2. CASE CloseStream
    BY <1>0, <2>1, <2>2, CloseStreamTells
  <2>3. CASE pc' = "connect" /\ events' = events
    <3>1. parts = <<>> /\ input.stream /\ Told(events, parts)
      BY <1>0, <2>1 DEF Telling, Live, Streaming
    <3>2. QED
      BY <1>0, <2>1, <2>3, <3>1, StreamTells
  <2>4. QED
    BY <1>4, <2>2, <2>3 DEF Open
<1>5. ASSUME NEW connected, Connect(connected)
      PROVE  Telling'
  <2>1. pc = "connect" /\ Streaming /\ UNCHANGED <<input, parts>>
    BY <1>5 DEF Connect, Streaming
  <2>2. parts = <<>> /\ input.stream /\ Told(events, parts)
    BY <1>0, <2>1 DEF Telling, Live, Streaming
  <2>3. CASE CloseStream /\ runs' = runs
    BY <1>0, <2>1, <2>3, CloseStreamTells
  <2>4. CASE pc' \in {"relay", "connect"} /\ events' = events
    <3>1. DOMAIN <<>> = {}
      OBVIOUS
    <3>2. QED
      BY <1>0, <2>1, <2>2, <2>4, <3>1, StreamTells
  <2>5. QED
    BY <1>5, <2>1, <2>3, <2>4 DEF Connect
<1>6. ASSUME NEW piece \in {0, runs}, Delta(piece)
      PROVE  Telling'
  <2>1. /\ pc = "relay" /\ pc' = "relay" /\ input' = input /\ runs' = runs
        /\ parts' = Append(parts, piece) /\ events' = Append(events, Token(piece))
    BY <1>6 DEF Delta
  <2>2. Told(events, parts) /\ input.stream /\ \A i \in DOMAIN parts : parts[i] \in {0, runs}
    BY <1>0, <2>1 DEF Telling, Live, Streaming
  <2>3. piece \in Pieces
    BY <1>0, PiecesAreNumbers
  <2>4. events' \in Seq(SseEvent) /\ parts' \in Seq(Pieces) /\ Told(events', parts')
    BY <1>0, <2>1, <2>2, <2>3, ToldMore
  <2>5. \A i \in DOMAIN parts' : parts'[i] \in {0, runs'}
    BY <1>0, <2>1, <2>2, <2>3
  <2>6. QED
    BY <2>1, <2>2, <2>4, <2>5, StreamTells
<1>7. CASE StreamBreaks \/ \E usage \in BOOLEAN : StreamEnds(usage)
  <2>1. CloseStream /\ pc = "relay" /\ UNCHANGED <<input, parts>> /\ runs' = runs
    BY <1>7 DEF StreamBreaks, StreamEnds
  <2>2. QED
    BY <1>0, <2>1, CloseStreamTells DEF Streaming
<1>8. CASE AskRaises \/ ToolsRaise \/ \E usage \in BOOLEAN : AskBroken(usage)
  BY <1>8, FallBackTells DEF AskRaises, ToolsRaise, AskBroken
<1>9. ASSUME NEW usage \in BOOLEAN, NEW piece \in {0, runs}, AskText(usage, piece)
      PROVE  Telling'
  BY <1>0, <1>9, AnswerTells DEF AskText, Routed
<1>10. ASSUME NEW usage \in BOOLEAN, NEW n, AskTools(usage, n)
       PROVE  Telling'
  BY <1>0, <1>10, AskTells DEF AskTools, Routed
<1>11. CASE ToolCall
  <2>1. pc = "tools" /\ Routed /\ UNCHANGED <<input, parts>> /\ runs' = runs
    BY <1>11 DEF ToolCall, Routed
  <2>2. Answer(runs) \/ (pc' \in {"ask", "tools"} /\ events' = events)
    BY <1>11, <2>1 DEF ToolCall
  <2>3. QED
    BY <1>0, <2>1, <2>2, AnswerTells, AskTells
<1>12. CASE HangUp
  <2>1. pc # "over" /\ input.stream /\ pc' = "over" /\ UNCHANGED <<events, runs>>
    BY <1>12 DEF HangUp
  <2>2. Said' = Said
    BY <2>1 DEF Said
  <2>3. \A i \in DOMAIN events : events[i].event # "done"
    BY <1>0, <2>1 DEF Telling, DoneSaysItAgain, IsDone
  <2>4. DoneSaysItAgain'
    BY <1>0, <2>1, <2>3 DEF Telling, DoneSaysItAgain, IsDone
  <2>5. QED
    BY <1>0, <2>1, <2>2, <2>4 DEF Telling, Streaming, Live, Routed
<1>13. ASSUME NEW q \in Input, Begin(q)
       PROVE  Telling'
  BY <1>13, BatchTells DEF Begin
<1>14. QED
  BY <1>1, <1>2, <1>3, <1>4, <1>5, <1>6, <1>7, <1>8, <1>9, <1>10, <1>11, <1>12, <1>13 DEF Next, Work

-----------------------------------------------------------------------------
(* The steps left *)

\* The most steps a turn may still take: a round of the tool loop, a whole run,
\* the router's chain of runs, and the stream before it.
RoundSteps == MaxCalls + 1
RunSteps == MaxIterations * RoundSteps + 1
RoutedSteps == (Len(Fallbacks) + 1) * RunSteps
StreamSteps == Len(Fallbacks) + MaxDeltas + 3
StepsLeft ==
  CASE pc = "ask"     -> Len(left) * RunSteps + (MaxIterations - iter) * RoundSteps
    [] pc = "tools"   -> Len(left) * RunSteps + (MaxIterations - iter - 1) * RoundSteps + calls
    [] pc = "route"   -> RoutedSteps
    [] pc = "relay"   -> RoutedSteps + MaxDeltas - Len(parts) + 1
    [] pc = "connect" -> RoutedSteps + MaxDeltas + Len(left) + 2
    [] pc = "open"    -> RoutedSteps + StreamSteps
    [] pc = "prepare" -> RoutedSteps + StreamSteps + 1
    [] pc = "over"    -> 0

\* Every step of a turn leaves it fewer to take, whether it starts a fallback, a
\* round of tools or, after a silent stream, the router: no failure and no retry
\* gives a turn back work that it has done.
StepsRunOut == [][pc # "over" => StepsLeft \in Nat /\ StepsLeft' < StepsLeft]_vars

LEMMA Products ==
  ASSUME NEW a \in Nat, NEW b \in Nat, NEW r \in Nat
  PROVE  /\ a * r \in Nat
         /\ (a + 1) * r = a * r + r
         /\ a <= b => a * r <= b * r
<1>1. a * r \in Nat /\ b * r \in Nat /\ (a + 1) * r = a * r + r
  OBVIOUS
<1>2. ASSUME a <= b PROVE a * r <= b * r
  <2>1. b - a \in Nat /\ b = a + (b - a)
    BY <1>2
  <2>2. b * r = a * r + (b - a) * r
    BY <2>1
  <2>3. (b - a) * r \in Nat
    BY <2>1
  <2>4. QED
    BY <1>1, <2>2, <2>3
<1>3. QED
  BY <1>1, <1>2

\* The steps of a run that has n rounds to go, and of the runs after it.
Ahead(l, n) == l * RunSteps + n * RoundSteps

LEMMA StepsTyped ==
  /\ MaxIterations \in Nat /\ MaxCalls \in Nat /\ MaxDeltas \in Nat /\ Len(Fallbacks) \in Nat
  /\ RoundSteps \in Nat /\ RoundSteps = MaxCalls + 1
  /\ RunSteps \in Nat /\ RoutedSteps \in Nat /\ RunSteps > 0
  /\ StreamSteps = Len(Fallbacks) + MaxDeltas + 3
<1>1. MaxIterations \in Nat /\ MaxCalls \in Nat /\ MaxDeltas \in Nat /\ Len(Fallbacks) \in Nat
  BY BoundsAssumption, ModelsAssumption
<1>2. RoundSteps \in Nat /\ RoundSteps = MaxCalls + 1
  BY <1>1 DEF RoundSteps
<1>3. MaxIterations * RoundSteps \in Nat
  BY <1>1, <1>2, Products
<1>4. RunSteps \in Nat /\ RunSteps > 0
  BY <1>3 DEF RunSteps
<1>5. RoutedSteps \in Nat
  <2>1. Len(Fallbacks) + 1 \in Nat
    BY <1>1
  <2>2. (Len(Fallbacks) + 1) * RunSteps \in Nat
    BY <1>4, <2>1, Products
  <2>3. QED
    BY <2>2 DEF RoutedSteps
<1>6. QED
  BY <1>1, <1>2, <1>4, <1>5 DEF StreamSteps

\* A run takes less than RunSteps, and each round RoundSteps.
LEMMA AheadFacts ==
  ASSUME NEW l \in Nat, NEW n \in Nat
  PROVE  /\ Ahead(l, n) \in Nat
         /\ n <= MaxIterations => Ahead(l, n) < Ahead(l + 1, 0)
         /\ l <= Len(Fallbacks) /\ n <= MaxIterations => Ahead(l, n) < RoutedSteps
         /\ Ahead(l, n + 1) = Ahead(l, n) + RoundSteps
         /\ Ahead(l, 0) <= Ahead(l, n)
<1>1. /\ MaxIterations \in Nat /\ RoundSteps \in Nat /\ RunSteps \in Nat /\ Len(Fallbacks) \in Nat
      /\ RoutedSteps \in Nat
  BY StepsTyped
<1>2. l * RunSteps \in Nat /\ (l + 1) * RunSteps = l * RunSteps + RunSteps
  BY <1>1, Products
<1>3. n * RoundSteps \in Nat /\ (n + 1) * RoundSteps = n * RoundSteps + RoundSteps
  BY <1>1, Products
<1>4. 0 * RoundSteps = 0
  BY <1>1
<1>5. n <= MaxIterations => n * RoundSteps < RunSteps
  <2>1. n <= MaxIterations => n * RoundSteps <= MaxIterations * RoundSteps
    BY <1>1, Products
  <2>2. MaxIterations * RoundSteps \in Nat
    BY <1>1, Products
  <2>3. QED
    BY <1>3, <2>1, <2>2 DEF RunSteps
<1>6. Ahead(l, n) = l * RunSteps + n * RoundSteps
  BY DEF Ahead
<1>7. Ahead(l + 1, 0) = l * RunSteps + RunSteps
  BY <1>2, <1>4, <1>1 DEF Ahead
<1>8. Ahead(l, n + 1) = l * RunSteps + (n * RoundSteps + RoundSteps)
  BY <1>3 DEF Ahead
<1>9. Ahead(l, 0) = l * RunSteps
  BY <1>2, <1>4 DEF Ahead
<1>10. l <= Len(Fallbacks) => l * RunSteps + RunSteps <= RoutedSteps
  <2>1. l <= Len(Fallbacks) => l * RunSteps <= Len(Fallbacks) * RunSteps
    BY <1>1, Products
  <2>2. (Len(Fallbacks) + 1) * RunSteps = Len(Fallbacks) * RunSteps + RunSteps
    BY <1>1, Products
  <2>3. Len(Fallbacks) * RunSteps \in Nat
    BY <1>1, Products
  <2>4. QED
    BY <1>1, <1>2, <2>1, <2>2, <2>3 DEF RoutedSteps
<1>11. Ahead(l, n) \in Nat
  BY <1>2, <1>3, <1>6
<1>12. n <= MaxIterations => Ahead(l, n) < Ahead(l + 1, 0)
  BY <1>1, <1>2, <1>3, <1>5, <1>6, <1>7
<1>13. l <= Len(Fallbacks) /\ n <= MaxIterations => Ahead(l, n) < RoutedSteps
  BY <1>1, <1>2, <1>3, <1>5, <1>6, <1>10
<1>14. Ahead(l, n + 1) = Ahead(l, n) + RoundSteps
  BY <1>1, <1>2, <1>3, <1>6, <1>8
<1>15. Ahead(l, 0) <= Ahead(l, n)
  BY <1>2, <1>3, <1>6, <1>9
<1>16. QED
  BY <1>11, <1>12, <1>13, <1>14, <1>15

\* What is left at each place, and that it is a number.
StepsStated ==
  /\ pc \in {"ask", "tools"} => /\ MaxIterations - iter - 1 \in Nat
                                /\ Ahead(Len(left), MaxIterations - iter - 1) \in Nat
  /\ pc = "ask" => StepsLeft = Ahead(Len(left), MaxIterations - iter - 1) + RoundSteps
  /\ pc = "tools" => StepsLeft = Ahead(Len(left), MaxIterations - iter - 1) + calls
  /\ pc = "route" => StepsLeft = RoutedSteps
  /\ pc = "relay" => StepsLeft = RoutedSteps + MaxDeltas - Len(parts) + 1
  /\ pc = "connect" => StepsLeft = RoutedSteps + MaxDeltas + Len(left) + 2
  /\ pc = "open" => StepsLeft = RoutedSteps + StreamSteps
  /\ pc = "prepare" => StepsLeft = RoutedSteps + StreamSteps + 1
  /\ pc = "over" => StepsLeft = 0
  /\ pc # "over" => StepsLeft \in Nat /\ StepsLeft > 0

LEMMA StepsLeftStated == TurnInv => StepsStated
<1> SUFFICES ASSUME TurnInv PROVE StepsStated
  OBVIOUS
<1>1. /\ left \in Seq(Model) /\ Len(left) \in Nat /\ iter \in 0 .. MaxIterations /\ calls \in 0 .. MaxCalls
      /\ Len(parts) \in Nat /\ Len(parts) <= MaxDeltas
      /\ pc \in {"over", "prepare", "route", "ask", "tools", "open", "connect", "relay"}
  BY DEF TurnInv, TurnTypes, TypeOK
<1>2. pc \in {"ask", "tools"} => iter < MaxIterations /\ (pc = "tools" => calls >= 1)
  BY DEF TurnInv, Counted
<1>3. ASSUME pc \in {"ask", "tools"}
      PROVE  /\ MaxIterations - iter - 1 \in Nat
             /\ Ahead(Len(left), MaxIterations - iter - 1) \in Nat
             /\ Len(left) * RunSteps + (MaxIterations - iter) * RoundSteps
                  = Ahead(Len(left), MaxIterations - iter - 1) + RoundSteps
  <2> DEFINE n == MaxIterations - iter - 1
  <2>1. n \in Nat /\ n + 1 = MaxIterations - iter
    BY <1>1, <1>2, <1>3, StepsTyped
  <2>2. Ahead(Len(left), n + 1) = Len(left) * RunSteps + (MaxIterations - iter) * RoundSteps
    BY <2>1 DEF Ahead
  <2> HIDE DEF n
  <2>3. Ahead(Len(left), n) \in Nat /\ Ahead(Len(left), n + 1) = Ahead(Len(left), n) + RoundSteps
    BY <1>1, <2>1, AheadFacts
  <2>4. QED
    BY <2>1, <2>2, <2>3 DEF n
<1>4. /\ RoundSteps \in Nat /\ RoundSteps > 0 /\ RoutedSteps \in Nat /\ MaxDeltas \in Nat
      /\ StreamSteps \in Nat /\ StreamSteps > 0
  BY StepsTyped
<1>5. RoutedSteps > 0
  <2>1. Ahead(0, 0) < RoutedSteps /\ Ahead(0, 0) \in Nat
    BY AheadFacts, StepsTyped
  <2>2. QED
    BY <1>4, <2>1
<1>6. CASE pc = "ask"
  <2>1. StepsLeft = Ahead(Len(left), MaxIterations - iter - 1) + RoundSteps
    BY <1>3, <1>6 DEF StepsLeft
  <2>2. QED
    BY <1>3, <1>4, <1>6, <2>1 DEF StepsStated
<1>7. CASE pc = "tools"
  <2>1. StepsLeft = Ahead(Len(left), MaxIterations - iter - 1) + calls
    BY <1>7 DEF StepsLeft, Ahead
  <2>2. calls \in Nat /\ calls > 0
    BY <1>1, <1>2, <1>7, StepsTyped
  <2>3. QED
    BY <1>3, <1>7, <2>1, <2>2 DEF StepsStated
<1>8. CASE pc = "route"
  <2>1. StepsLeft = RoutedSteps
    BY <1>8 DEF StepsLeft
  <2>2. QED
    BY <1>1, <1>4, <1>5, <1>8, <2>1 DEF StepsStated
<1>9. CASE pc = "relay"
  <2>1. StepsLeft = RoutedSteps + MaxDeltas - Len(parts) + 1
    BY <1>9 DEF StepsLeft
  <2>2. QED
    BY <1>1, <1>4, <1>5, <1>9, <2>1 DEF StepsStated
<1>10. CASE pc = "connect"
  <2>1. StepsLeft = RoutedSteps + MaxDeltas + Len(left) + 2
    BY <1>10 DEF StepsLeft
  <2>2. QED
    BY <1>1, <1>4, <1>5, <1>10, <2>1 DEF StepsStated
<1>11. CASE pc = "open"
  <2>1. StepsLeft = RoutedSteps + StreamSteps
    BY <1>11 DEF StepsLeft
  <2>2. QED
    BY <1>1, <1>4, <1>5, <1>11, <2>1 DEF StepsStated
<1>12. CASE pc = "prepare"
  <2>1. StepsLeft = RoutedSteps + StreamSteps + 1
    BY <1>12 DEF StepsLeft
  <2>2. QED
    BY <1>1, <1>4, <1>5, <1>12, <2>1 DEF StepsStated
<1>13. CASE pc = "over"
  <2>1. StepsLeft = 0
    BY <1>13 DEF StepsLeft
  <2>2. QED
    BY <1>1, <1>4, <1>5, <1>13, <2>1 DEF StepsStated
<1>14. QED
  BY <1>1, <1>6, <1>7, <1>8, <1>9, <1>10, <1>11, <1>12, <1>13

LEMMA StepsLeftNextStated == TurnInv' => StepsStated'
  BY StepsLeftStated, PTL

\* A fallback starts the next run of the chain, or ends the turn.
LEMMA FallBackSteps ==
  ASSUME TurnInv, TurnInv', pc \in {"ask", "tools"}, FallBack
  PROVE  StepsLeft' < StepsLeft
<1> DEFINE l == Len(left)
           n == MaxIterations - iter - 1
<1>1. StepsStated /\ StepsStated'
  BY StepsLeftStated, StepsLeftNextStated
<1>2. left \in Seq(Model) /\ None \notin Model
  BY ModelsAssumption DEF TurnInv, TurnTypes, TypeOK
<1>3. CASE pc' = "over"
  <2>1. StepsLeft' = 0 /\ StepsLeft \in Nat /\ StepsLeft > 0
    BY <1>1, <1>3 DEF StepsStated
  <2>2. QED
    BY <2>1
<1>4. CASE pc' = "ask" /\ iter' = 0 /\ Len(left') + 1 = l
  <2> DEFINE k == Len(left')
             m == MaxIterations - 1
  <2>1. k \in Nat /\ k + 1 = l /\ m \in Nat /\ m + 1 = MaxIterations /\ l \in Nat
    <3>1. left' \in Seq(Model)
      BY DEF TurnInv, TurnTypes, TypeOK
    <3>2. MaxIterations \in Nat \ {0}
      BY BoundsAssumption
    <3>3. QED
      BY <1>2, <1>4, <3>1, <3>2
  <2>2. StepsLeft' = Ahead(k, m) + RoundSteps
    <3>1. MaxIterations' - iter' - 1 = m
      BY <1>4, <2>1
    <3>2. StepsLeft' = Ahead(Len(left'), MaxIterations' - iter' - 1) + RoundSteps
      BY <1>1, <1>4 DEF StepsStated, Ahead, RoundSteps, RunSteps
    <3>3. QED
      BY <3>1, <3>2
  <2>3. Ahead(k, m) + RoundSteps < Ahead(l, 0)
    <3> HIDE DEF k, l, m
    <3>1. Ahead(k, m + 1) = Ahead(k, m) + RoundSteps
      BY <2>1, AheadFacts
    <3>2. Ahead(k, MaxIterations) < Ahead(k + 1, 0)
      BY <2>1, StepsTyped, AheadFacts
    <3>3. QED
      BY <2>1, <3>1, <3>2
  <2>4. n \in Nat /\ Ahead(l, n) < StepsLeft
    <3>1. n \in Nat /\ Ahead(l, n) \in Nat
      BY <1>1 DEF StepsStated
    <3>2. StepsLeft = Ahead(l, n) + RoundSteps \/ (StepsLeft = Ahead(l, n) + calls /\ pc = "tools")
      BY <1>1 DEF StepsStated
    <3>3. pc = "tools" => calls \in Nat /\ calls > 0
      BY StepsTyped DEF TurnInv, TurnTypes, TypeOK, Counted
    <3>4. RoundSteps \in Nat /\ RoundSteps > 0
      BY StepsTyped
    <3> HIDE DEF l, n
    <3>5. QED
      BY <3>1, <3>2, <3>3, <3>4
  <2>5. Ahead(l, 0) <= Ahead(l, n) /\ Ahead(l, 0) \in Nat /\ Ahead(l, n) \in Nat /\ Ahead(k, m) \in Nat
    <3> HIDE DEF k, l, m, n
    <3>1. QED
      BY <2>1, <2>4, StepsTyped, AheadFacts
  <2>6. StepsLeft \in Nat /\ RoundSteps \in Nat
    BY <1>1, StepsTyped DEF StepsStated
  <2> HIDE DEF k, l, m, n
  <2>7. QED
    BY <2>2, <2>3, <2>4, <2>5, <2>6
<1>5. QED
  BY <1>2, <1>3, <1>4, FallBackCases

\* A stream that closes hands over to the router, or ends the turn.
LEMMA CloseStreamSteps ==
  ASSUME TurnInv, TurnInv', Streaming, CloseStream
  PROVE  StepsLeft' < StepsLeft
<1>1. StepsStated /\ StepsStated'
  BY StepsLeftStated, StepsLeftNextStated
<1>2. pc' \in {"route", "over"}
  BY DEF CloseStream
<1>3. StepsLeft' = RoutedSteps \/ StepsLeft' = 0
  BY <1>1, <1>2 DEF StepsStated, RoutedSteps, RunSteps, RoundSteps
<1>t. TypeOK
  BY DEF TurnInv, TurnTypes
<1>4. /\ RoutedSteps \in Nat /\ MaxDeltas \in Nat /\ Len(Fallbacks) \in Nat /\ Len(left) \in Nat
      /\ StreamSteps = Len(Fallbacks) + MaxDeltas + 3 /\ Len(parts) \in Nat /\ Len(parts) <= MaxDeltas
  BY <1>t, StepsTyped DEF TypeOK
<1>5. CASE pc = "relay"
  <2>1. StepsLeft = RoutedSteps + MaxDeltas - Len(parts) + 1
    BY <1>1, <1>5 DEF StepsStated
  <2>2. QED
    BY <1>3, <1>4, <2>1
<1>6. CASE pc = "connect"
  <2>1. StepsLeft = RoutedSteps + MaxDeltas + Len(left) + 2
    BY <1>1, <1>6 DEF StepsStated
  <2>2. QED
    BY <1>3, <1>4, <2>1
<1>7. CASE pc = "open"
  <2>1. StepsLeft = RoutedSteps + StreamSteps
    BY <1>1, <1>7 DEF StepsStated
  <2>2. QED
    BY <1>3, <1>4, <2>1
<1>8. QED
  BY <1>5, <1>6, <1>7 DEF Streaming

\* A router's first run has the whole chain before it, a stream's first attempt too.
LEMMA ChainSteps ==
  ASSUME TurnInv, TurnInv', NEW m, left' = Without(m, Fallbacks)
  PROVE  /\ Len(left') \in Nat /\ Len(left') <= Len(Fallbacks)
         /\ pc' = "ask" => StepsLeft' < RoutedSteps
<1>1. left' \in Seq(Model) /\ Len(left') \in Nat /\ Len(left') <= Len(Fallbacks)
  BY OthersTyped
<1>2. ASSUME pc' = "ask"
      PROVE  StepsLeft' < RoutedSteps
  <2> DEFINE l == Len(left')
             n == MaxIterations - iter' - 1
  <2>1. StepsStated'
    BY StepsLeftNextStated
  <2>2. StepsLeft' = Ahead(l, n) + RoundSteps /\ n \in Nat
    BY <1>2, <2>1 DEF StepsStated, Ahead, RoundSteps, RunSteps
  <2>3. n + 1 <= MaxIterations /\ n + 1 \in Nat
    <3>1. iter' \in Nat /\ MaxIterations \in Nat
      BY StepsTyped DEF TurnInv, TurnTypes, TypeOK
    <3>2. \A i, c \in Nat : (c - i) - 1 + 1 <= c
      OBVIOUS
    <3>3. n \in Nat => n + 1 \in Nat
      OBVIOUS
    <3>4. QED
      BY <2>2, <3>1, <3>2, <3>3, Zenon
  <2>4. l \in Nat /\ l <= Len(Fallbacks)
    BY <1>1
  <2> HIDE DEF l, n
  <2>5. Ahead(l, n + 1) = Ahead(l, n) + RoundSteps
    BY <2>2, <2>4, AheadFacts
  <2> DEFINE k == n + 1
  <2>6. k \in Nat /\ k <= MaxIterations /\ Ahead(l, k) = StepsLeft'
    BY <2>2, <2>3, <2>5
  <2> HIDE DEF k
  <2>7. Ahead(l, k) < RoutedSteps
    BY <2>4, <2>6, AheadFacts
  <2>8. QED
    BY <2>6, <2>7
<1>3. QED
  BY <1>1, <1>2

\* One action after the other.
LEMMA StepsRunOutStep ==
  ASSUME TurnInv, TurnInv', Next, pc # "over"
  PROVE  StepsLeft' < StepsLeft
<1>0. /\ StepsStated /\ StepsStated'
      /\ StepsLeft \in Nat /\ StepsLeft > 0
  BY StepsLeftStated, StepsLeftNextStated DEF StepsStated
<1>t. TypeOK /\ TypeOK'
  BY DEF TurnInv, TurnTypes
<1>1. /\ RoutedSteps \in Nat /\ MaxDeltas \in Nat /\ Len(Fallbacks) \in Nat
      /\ StreamSteps = Len(Fallbacks) + MaxDeltas + 3
      /\ left \in Seq(Model) /\ Len(left) \in Nat /\ Len(parts) \in Nat /\ Len(parts) <= MaxDeltas
      /\ left' \in Seq(Model) /\ Len(left') \in Nat /\ Len(parts') \in Nat
  BY <1>t, StepsTyped DEF TypeOK
<1>2. CASE pc' = "over"
  <2>1. StepsLeft' = 0
    BY <1>0, <1>2 DEF StepsStated
  <2>2. QED
    BY <1>0, <2>1
<1>3. CASE Prepare
  <2>1. pc = "prepare" /\ pc' \in {"over", "open", "route"}
    BY <1>3 DEF Prepare, Fail
  <2>2. StepsLeft = RoutedSteps + StreamSteps + 1
    BY <1>0, <2>1 DEF StepsStated
  <2>3. StepsLeft' = 0 \/ StepsLeft' = RoutedSteps \/ StepsLeft' = RoutedSteps + StreamSteps
    BY <1>0, <2>1 DEF StepsStated, RoutedSteps, RunSteps, RoundSteps, StreamSteps
  <2>4. QED
    BY <1>1, <2>2, <2>3
<1>4. ASSUME NEW resolved, NEW exhausted, Route(resolved, exhausted)
      PROVE  StepsLeft' < StepsLeft
  <2>1. pc = "route" /\ (pc' = "over" \/ (pc' = "ask" /\ left' = Without(RouteModel(resolved), Fallbacks)))
    BY <1>4 DEF Route, Fail
  <2>2. StepsLeft = RoutedSteps
    BY <1>0, <2>1 DEF StepsStated
  <2>3. QED
    BY <1>2, <2>1, <2>2, ChainSteps
<1>5. ASSUME NEW resolved, NEW exhausted, Open(resolved, exhausted)
      PROVE  StepsLeft' < StepsLeft
  <2>1. pc = "open"
    BY <1>5 DEF Open
  <2>2. CASE CloseStream
    BY <2>1, <2>2, CloseStreamSteps DEF Streaming
  <2>3. CASE pc' = "connect" /\ left' = Without(StreamModel(resolved), Fallbacks)
    <3>1. Len(left') <= Len(Fallbacks)
      BY <2>3, ChainSteps
    <3>2. StepsLeft = RoutedSteps + StreamSteps
      BY <1>0, <2>1 DEF StepsStated
    <3>3. StepsLeft' = RoutedSteps + MaxDeltas + Len(left') + 2
      BY <1>0, <2>3 DEF StepsStated, RoutedSteps, RunSteps, RoundSteps
    <3>4. QED
      BY <1>1, <3>1, <3>2, <3>3
  <2>4. QED
    BY <1>5, <2>2, <2>3 DEF Open
<1>6. ASSUME NEW connected, Connect(connected)
      PROVE  StepsLeft' < StepsLeft
  <2>1. pc = "connect"
    BY <1>6 DEF Connect
  <2>2. StepsLeft = RoutedSteps + MaxDeltas + Len(left) + 2
    BY <1>0, <2>1 DEF StepsStated
  <2>3. CASE CloseStream
    BY <2>1, <2>3, CloseStreamSteps DEF Streaming
  <2>4. CASE pc' = "relay"
    <3>1. StepsLeft' = RoutedSteps + MaxDeltas - Len(parts') + 1
      BY <1>0, <2>4 DEF StepsStated, RoutedSteps, RunSteps, RoundSteps
    <3>2. QED
      BY <1>1, <2>2, <3>1
  <2>5. CASE pc' = pc /\ left # <<>> /\ left' = Tail(left)
    <3>1. Len(left') + 1 = Len(left)
      BY <1>1, <2>5
    <3>2. StepsLeft' = RoutedSteps + MaxDeltas + Len(left') + 2
      BY <1>0, <2>1, <2>5 DEF StepsStated, RoutedSteps, RunSteps, RoundSteps
    <3>3. QED
      BY <1>1, <2>2, <3>1, <3>2
  <2>6. QED
    BY <1>6, <2>3, <2>4, <2>5 DEF Connect
<1>7. ASSUME NEW piece, Delta(piece)
      PROVE  StepsLeft' < StepsLeft
  <2>1. pc = "relay" /\ pc' = "relay" /\ Len(parts') = Len(parts) + 1
    <3>1. parts \in Seq(Pieces)
      BY DEF TurnInv, TurnTypes, TypeOK
    <3>2. QED
      BY <1>7, <3>1 DEF Delta
  <2>2. StepsLeft = RoutedSteps + MaxDeltas - Len(parts) + 1
    BY <1>0, <2>1 DEF StepsStated
  <2>3. StepsLeft' = RoutedSteps + MaxDeltas - Len(parts') + 1
    BY <1>0, <2>1 DEF StepsStated, RoutedSteps, RunSteps, RoundSteps
  <2>4. QED
    BY <1>1, <2>1, <2>2, <2>3
<1>8. CASE StreamBreaks \/ \E usage \in BOOLEAN : StreamEnds(usage)
  BY <1>8, CloseStreamSteps DEF StreamBreaks, StreamEnds, Streaming
<1>9. CASE AskRaises \/ ToolsRaise \/ \E usage \in BOOLEAN : AskBroken(usage)
  BY <1>9, FallBackSteps DEF AskRaises, ToolsRaise, AskBroken
<1>10. ASSUME NEW usage, NEW piece, AskText(usage, piece)
       PROVE  StepsLeft' < StepsLeft
  BY <1>2, <1>10 DEF AskText, Answer
<1>11. ASSUME NEW usage, NEW n \in 1 .. MaxCalls, AskTools(usage, n)
       PROVE  StepsLeft' < StepsLeft
  <2> DEFINE ahead == Ahead(Len(left), MaxIterations - iter - 1)
  <2>1. pc = "ask" /\ pc' = "tools" /\ calls' = n /\ iter' = iter /\ left' = left
    BY <1>11 DEF AskTools, attempt
  <2>2. StepsLeft = ahead + RoundSteps /\ ahead \in Nat
    BY <1>0, <2>1 DEF StepsStated
  <2>3. StepsLeft' = ahead + n
    BY <1>0, <2>1 DEF StepsStated, Ahead, RoundSteps, RunSteps
  <2> HIDE DEF ahead
  <2>4. QED
    BY <2>2, <2>3, StepsTyped
<1>12. CASE ToolCall
  <2> DEFINE n == MaxIterations - iter - 1
             ahead == Ahead(Len(left), n)
  <2>1. pc = "tools" /\ calls' = calls - 1 /\ left' = left
    BY <1>12 DEF ToolCall, attempt
  <2>2. StepsLeft = ahead + calls /\ ahead \in Nat /\ n \in Nat
    BY <1>0, <2>1 DEF StepsStated
  <2>3. calls \in Nat /\ calls > 0 /\ iter \in Nat /\ MaxIterations \in Nat
    BY <2>1, StepsTyped DEF TurnInv, TurnTypes, TypeOK, Counted
  <2>4. CASE pc' = "tools" /\ iter' = iter
    <3>1. StepsLeft' = ahead + calls'
      BY <1>0, <2>1, <2>4 DEF StepsStated, Ahead, RoundSteps, RunSteps
    <3> HIDE DEF ahead
    <3>2. QED
      BY <2>1, <2>2, <2>3, <3>1
  <2>5. CASE pc' = "ask" /\ iter' = iter + 1
    <3> DEFINE k == MaxIterations - (iter + 1) - 1
    <3>1. StepsLeft' = Ahead(Len(left), k) + RoundSteps /\ k \in Nat
      BY <1>0, <2>1, <2>5 DEF StepsStated, Ahead, RoundSteps, RunSteps
    <3>2. n = k + 1
      BY <2>3
    <3> HIDE DEF k, n
    <3>3. Ahead(Len(left), k + 1) = Ahead(Len(left), k) + RoundSteps
      BY <1>1, <3>1, AheadFacts
    <3>4. StepsLeft' = ahead
      BY <3>1, <3>2, <3>3
    <3> HIDE DEF ahead
    <3>5. QED
      BY <2>2, <2>3, <3>4
  <2>6. CASE pc' = "over"
    BY <1>2, <2>6
  <2>7. QED
    BY <1>12, <2>1, <2>4, <2>5, <2>6 DEF ToolCall, Answer
<1>13. CASE HangUp
  BY <1>2, <1>13 DEF HangUp
<1>14. ASSUME NEW q \in Input, Begin(q)
       PROVE  FALSE
  BY <1>14 DEF Begin
<1>15. QED
  BY <1>3, <1>4, <1>5, <1>6, <1>7, <1>8, <1>9, <1>10, <1>11, <1>12, <1>13, <1>14 DEF Next, Work

-----------------------------------------------------------------------------
(* The theorems *)

LEMMA TurnInit == Init => TurnInv
<1> SUFFICES ASSUME Init PROVE TurnInv
  OBVIOUS
<1>1. /\ input \in Input /\ pc = "over" /\ model = None /\ key = None /\ left = <<>>
      /\ iter = 0 /\ calls = 0 /\ spent = 0 /\ parts = <<>> /\ events = <<>>
      /\ out = NoAnswer /\ runs = 0 /\ asked = {} /\ reports = {}
  BY DEF Init, Input, Tenancy
<1>2. DOMAIN <<>> = {} /\ Len(<<>>) = 0 /\ <<>> \in Seq(Model) /\ <<>> \in Seq(Pieces)
      /\ <<>> \in Seq(SseEvent)
  OBVIOUS
<1>3. /\ MaxIterations \in Nat \ {0} /\ MaxCalls \in Nat \ {0} /\ MaxDeltas \in Nat
      /\ Len(Fallbacks) \in Nat /\ 0 \in Pieces /\ 0 \in 0 .. MaxIterations /\ 0 \in 0 .. MaxCalls
  BY BoundsAssumption, PiecesAreNumbers
<1>4. TurnTypes
  BY <1>1, <1>2, <1>3 DEF TurnTypes, TypeOK, NoAnswer
<1>5. Telling
  BY <1>1, <1>2 DEF Telling, Streaming, Live, Routed, Said, DoneSaysItAgain
<1>6. Counted /\ Keyed
  BY <1>1 DEF Counted, Keyed, KeyKeepsItsRoute, Streaming
<1>7. Metered
  BY <1>1, FS_EmptySet DEF Metered
<1>8. Costed /\ Closing
  BY <1>1 DEF Costed, AnswerTellsItsCost, Closing, StreamCloses, NoAnswer
<1>9. QED
  BY <1>4, <1>5, <1>6, <1>7, <1>8 DEF TurnInv

\* However its providers, tools, key resolver and allowance service answer, a
\* turn keeps the types, the story, the counts, the keys and the ledger.
THEOREM TurnInvariant == Spec => []TurnInv
<1>1. Init => TurnInv
  BY TurnInit
<1>2. TurnInv /\ [Next]_vars => TurnInv'
  BY TypesStep, TellingStep, ClosingStep, CountedStep, KeyedStep, MeteredStep, CostedStep DEF TurnInv
<1>3. QED
  BY <1>1, <1>2, PTL DEF Spec

\* Completions, tokens and runs stay within the bounds the router's loops set.
THEOREM TurnTypeCorrect == Spec => []TypeOK
<1>1. TurnInv => TypeOK
  BY DEF TurnInv, TurnTypes
<1>2. QED
  BY <1>1, TurnInvariant, PTL

\* A caller hears one completion run: no fallback and no retry of a stream
\* talks over what was already said.
THEOREM OneVoiceAlways == Spec => []OneVoice
<1>1. ASSUME TurnInv
      PROVE  OneVoice
  <2>1. Said \subseteq {runs}
    BY <1>1 DEF TurnInv, Telling
  <2>2. Cardinality({runs}) = 1 /\ IsFiniteSet({runs})
    BY FS_Singleton
  <2>3. QED
    BY <2>1, <2>2, FS_Subset DEF OneVoice
<1>2. QED
  BY <1>1, TurnInvariant, PTL

\* A stream opens with meta, its done is its last event and repeats its tokens,
\* and whoever stayed on the line got one, failed turns and silent streams included.
THEOREM StreamsTellOneStory == Spec => []StreamTellsOneStory
<1>1. TurnInv => StreamTellsOneStory
  BY DEF TurnInv, Telling, Closing, StreamTellsOneStory
<1>2. QED
  BY <1>1, TurnInvariant, PTL

\* The token count of an answer is what its own run reported.
THEOREM AnswersTellTheirCost == Spec => []AnswerTellsItsCost
<1>1. TurnInv => AnswerTellsItsCost
  BY DEF TurnInv, Costed
<1>2. QED
  BY <1>1, TurnInvariant, PTL

\* A tenant's key is presented with models of the tenant's provider only.
THEOREM KeysKeepTheirRoute == Spec => []KeyKeepsItsRoute
<1>1. TurnInv => KeyKeepsItsRoute
  BY DEF TurnInv, Keyed
<1>2. QED
  BY <1>1, TurnInvariant, PTL

\* Whatever fails and whatever is retried, a turn has finitely many steps to
\* take and each one leaves fewer: no chain of fallbacks, rounds of tools or
\* silent stream keeps a caller waiting forever.
THEOREM TurnsRunDown == Spec => StepsRunOut
<1>1. TurnInv /\ TurnInv' /\ [Next]_vars
        => [pc # "over" => StepsLeft \in Nat /\ StepsLeft' < StepsLeft]_vars
  <2> SUFFICES ASSUME TurnInv, TurnInv', Next, pc # "over"
               PROVE  StepsLeft \in Nat /\ StepsLeft' < StepsLeft
    OBVIOUS
  <2>1. StepsLeft \in Nat
    BY StepsLeftStated DEF StepsStated
  <2>2. QED
    BY <2>1, StepsRunOutStep
<1>2. QED
  BY <1>1, TurnInvariant, PTL DEF Spec, StepsRunOut
=============================================================================
