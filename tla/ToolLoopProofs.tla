--------------------------- MODULE ToolLoopProofs ---------------------------
(***************************************************************************)
(* Proofs about ToolLoop, for any tools, callers and caps.  Dispatching is *)
(* what makes Paired inductive: while calls are being run, the history is  *)
(* paired up to the last answer of the model, whose calls are the tool     *)
(* turns after it and then the queue.                                      *)
(***************************************************************************)
EXTENDS ToolLoop, FiniteSetTheorems, SequenceTheorems, TLAPS

Turn == [role : {"assistant"}, calls : Seq(Names)] \cup [role : {"tool"}, name : Names]
Record == [name : Names, is_error : BOOLEAN]

\* What a stream carries is only ever compared, so its parts have no type here.
IsStream(s) ==
    \E sent, slots, told, place, astray :
        s = [sent |-> sent, slots |-> slots, told |-> told, place |-> place, astray |-> astray]
RunTypes ==
    /\ run \in [pc : {"ask", "dispatch", "final", "call", "bot", "codegen",
                      "complete", "open", "stream", "done"},
                who : [internal : BOOLEAN, perms : SUBSET {"shielva:internal", "other"}],
                result : {run.result}, offered : SUBSET Names,
                history : Seq(Turn), round : 1..MaxIterations, queue : Seq(Names),
                executed : Seq(Record), handlers : Seq(Tools),
                stream : {run.stream}]
    /\ IsStream(run.stream)
    /\ \E c \in Callers : run.who.internal = c.internal /\ run.who.perms \in {{}, c.perms}
    /\ exhausted \in BOOLEAN /\ installed \in BOOLEAN /\ published \in BOOLEAN

\* Requests that have no history, and those that have not ended.
Unlooped == run.pc \in {"call", "bot", "codegen", "complete", "open", "stream"}
Fresh ==
    /\ Unlooped => run.history = <<>> /\ run.executed = <<>> /\ run.handlers = <<>>
    /\ run.pc = "call" => run.queue # <<>>
    /\ run.pc # "done" => run.result = "none"

Permitted ==
    /\ run.pc = "bot" => \A t \in run.offered : t \in Tools /\ CheckPermissions(t, run.who)
    /\ PermittedOnly

\* As long as no piece went astray, what is held is what was sent.
Streamed ==
    /\ run.pc = "stream" /\ ~run.stream.astray => run.stream.slots = run.stream.sent
    /\ run.result = "done" /\ ~run.stream.astray => run.stream.told = Assembled(run.stream.sent)

\* The calls of the last answer are its tool turns so far, then the queue.
Dispatching(h, queue) ==
    \E a \in 1..Len(h) :
        /\ h[1].role = "assistant" /\ h[a].role = "assistant"
        /\ Len(h) <= a + Len(h[a].calls)
        /\ \A j \in 1..(Len(h) - a) : h[a + j] = ToolTurn(h[a].calls[j])
        /\ queue = SubSeq(h[a].calls, Len(h) - a + 1, Len(h[a].calls))
        /\ \A i \in 1..(a - 1) :
             h[i].role = "assistant" => PairedAt(h, i) /\ i + Len(h[i].calls) < a
Told ==
    /\ run.pc \in {"ask", "final", "done"} => Paired(run.history)
    /\ run.pc = "dispatch" => Dispatching(run.history, run.queue)

\* The records name the tool turns, in order, and every handler that ran.
Recorded ==
    /\ Len(run.executed) = Cardinality(ToolTurns(run.history, Len(run.history)))
    /\ \A i \in ToolTurns(run.history, Len(run.history)) :
         run.executed[Cardinality(ToolTurns(run.history, i))].name = run.history[i].name
    /\ run.history # <<>> \/ run.pc # "done" =>
         \A t \in Tools : Times(t, run.handlers) <= Times(t, NamesOf(run.executed))

LoopInv == RunTypes /\ Fresh /\ Permitted /\ Streamed /\ Told /\ Recorded

-----------------------------------------------------------------------------
(* Sequences and counts *)

LEMMA CountTyped ==
    ASSUME NEW S, NEW names \in Seq(S), NEW t
    PROVE  IsFiniteSet({i \in DOMAIN names : names[i] = t}) /\ Times(t, names) \in Nat
<1>1. {i \in DOMAIN names : names[i] = t} \subseteq 1..Len(names) /\ Len(names) \in Nat
  OBVIOUS
<1>2. IsFiniteSet(1..Len(names))
  BY <1>1, FS_Interval
<1>3. IsFiniteSet({i \in DOMAIN names : names[i] = t})
  BY <1>1, <1>2, FS_Subset
<1>4. QED
  BY <1>3, FS_CardinalityType DEF Times

LEMMA CountMore ==
    ASSUME NEW S, NEW names \in Seq(S), NEW n \in S, NEW t
    PROVE  Times(t, Append(names, n)) = Times(t, names) + (IF n = t THEN 1 ELSE 0)
<1> DEFINE now == {i \in DOMAIN names : names[i] = t}
           next == {i \in DOMAIN Append(names, n) : Append(names, n)[i] = t}
<1>1. IsFiniteSet(now) /\ Times(t, names) = Cardinality(now) /\ Cardinality(now) \in Nat
  BY CountTyped DEF Times
<1>2. Times(t, Append(names, n)) = Cardinality(next)
  BY DEF Times
<1>3. /\ n = t => next = now \cup {Len(names) + 1}
      /\ n # t => next = now
      /\ Len(names) + 1 \notin now
  OBVIOUS
<1> HIDE DEF now, next
<1>4. QED
  BY <1>1, <1>2, <1>3, FS_AddElement

LEMMA NamesTyped ==
    ASSUME NEW records \in Seq(Record)
    PROVE  NamesOf(records) \in Seq(Names) /\ Len(NamesOf(records)) = Len(records)
<1>1. \A i \in 1..Len(records) : records[i].name \in Names
  <2>1. \A i \in 1..Len(records) : records[i] \in Record
    OBVIOUS
  <2>2. QED
    BY <2>1 DEF Record
<1>2. NamesOf(records) = [i \in 1..Len(records) |-> records[i].name]
  BY DEF NamesOf
<1>3. QED
  BY <1>1, <1>2

LEMMA NamesMore ==
    ASSUME NEW records \in Seq(Record), NEW r \in Record
    PROVE  NamesOf(Append(records, r)) = Append(NamesOf(records), r.name)
<1>1. /\ NamesOf(records) \in Seq(Names) /\ Len(NamesOf(records)) = Len(records)
      /\ NamesOf(Append(records, r)) \in Seq(Names)
      /\ Len(NamesOf(Append(records, r))) = Len(records) + 1
  <2>1. Append(records, r) \in Seq(Record) /\ Len(Append(records, r)) = Len(records) + 1
    OBVIOUS
  <2>2. QED
    BY <2>1, NamesTyped
<1>2. r.name \in Names
  BY DEF Record
<1>3. \A i \in 1..Len(records) + 1 :
        NamesOf(Append(records, r))[i] = Append(NamesOf(records), r.name)[i]
  BY <1>2 DEF NamesOf
<1>4. Append(NamesOf(records), r.name) \in Seq(Names)
      /\ Len(Append(NamesOf(records), r.name)) = Len(records) + 1
  BY <1>1, <1>2
<1>5. QED
  BY <1>1, <1>3, <1>4, SeqEqual

LEMMA TurnsTyped ==
    ASSUME NEW h, NEW n \in Nat
    PROVE  IsFiniteSet(ToolTurns(h, n)) /\ Cardinality(ToolTurns(h, n)) \in Nat
<1>1. ToolTurns(h, n) \subseteq 1..n
  BY DEF ToolTurns
<1>2. IsFiniteSet(1..n)
  BY FS_Interval
<1>3. IsFiniteSet(ToolTurns(h, n))
  BY <1>1, <1>2, FS_Subset
<1>4. QED
  BY <1>3, FS_CardinalityType

LEMMA TurnsMore ==
    ASSUME NEW h \in Seq(Turn), NEW turn \in Turn
    PROVE  /\ \A n \in 0..Len(h) : ToolTurns(Append(h, turn), n) = ToolTurns(h, n)
           /\ turn.role # "tool" => ToolTurns(Append(h, turn), Len(h) + 1) = ToolTurns(h, Len(h))
           /\ turn.role = "tool" =>
                /\ ToolTurns(Append(h, turn), Len(h) + 1) = ToolTurns(h, Len(h)) \cup {Len(h) + 1}
                /\ Cardinality(ToolTurns(Append(h, turn), Len(h) + 1))
                     = Cardinality(ToolTurns(h, Len(h))) + 1
           /\ Len(Append(h, turn)) = Len(h) + 1
<1> DEFINE more == Append(h, turn)
<1>1. /\ Len(h) \in Nat /\ Len(more) = Len(h) + 1 /\ more[Len(h) + 1] = turn
      /\ \A i \in 1..Len(h) : more[i] = h[i]
  OBVIOUS
<1> HIDE DEF more
<1>2. /\ \A n \in 0..Len(h) : ToolTurns(more, n) = ToolTurns(h, n)
      /\ turn.role # "tool" => ToolTurns(more, Len(h) + 1) = ToolTurns(h, Len(h))
      /\ turn.role = "tool" => ToolTurns(more, Len(h) + 1) = ToolTurns(h, Len(h)) \cup {Len(h) + 1}
      /\ Len(h) + 1 \notin ToolTurns(h, Len(h))
  BY <1>1 DEF ToolTurns
<1>3. IsFiniteSet(ToolTurns(h, Len(h)))
  BY <1>1, TurnsTyped
<1>4. QED
  BY <1>1, <1>2, <1>3, FS_AddElement DEF more

-----------------------------------------------------------------------------
(* Types *)

PcSet == {"ask", "dispatch", "final", "call", "bot", "codegen", "complete", "open", "stream", "done"}

\* A request as it starts: whoever it is for, everything empty.
LEMMA StartTyped ==
    ASSUME NEW pc \in PcSet, NEW who, NEW offered \in SUBSET Names, NEW c \in Callers,
           who.internal = c.internal, who.perms \in {{}, c.perms},
           who \in [internal : BOOLEAN, perms : SUBSET {"shielva:internal", "other"}],
           NEW queue \in Seq(Names), UNCHANGED <<exhausted, installed, published>>, RunTypes,
           run' = [Start(pc, who, offered) EXCEPT !.queue = queue]
    PROVE  RunTypes'
<1>1. <<>> \in Seq(Turn) /\ <<>> \in Seq(Record) /\ <<>> \in Seq(Tools) /\ 1 \in 1..MaxIterations
  BY BoundsAssumption
<1>2. IsStream(NoStream)
  BY DEF IsStream, NoStream
<1>3. run'.stream = NoStream
  BY DEF Start
<1>4. IsStream(run.stream)'
  BY <1>2, <1>3 DEF IsStream
<1>5. QED
  BY <1>1, <1>4 DEF RunTypes, Start, PcSet

LEMMA ListTyped ==
    ASSUME NEW who, NEW overrides
    PROVE  ListTools(who) \subseteq Names /\ GetToolsForBot(who, overrides) \subseteq Tools
           /\ Tools \subseteq Names
  BY DEF ListTools, ListFor, GetToolsForBot, Names

LEMMA CallerTyped ==
    ASSUME NEW c \in Callers
    PROVE  /\ c \in [internal : BOOLEAN, perms : SUBSET {"shielva:internal", "other"}]
           /\ ExtractTenant(c) \in [internal : BOOLEAN, perms : SUBSET {"shielva:internal", "other"}]
           /\ ExtractTenant(c).internal = c.internal /\ ExtractTenant(c).perms = {}
  BY NamesAssumption DEF ExtractTenant

\* The requests that may begin.
BeginsFor(c) ==
    \E who \in {c, ExtractTenant(c)}, queue \in Seq(Names), offered \in SUBSET Names,
       pc \in {"ask", "call", "bot", "codegen", "complete", "open"} :
         /\ run' = [Start(pc, who, offered) EXCEPT !.queue = queue]
         /\ pc = "call" => queue # <<>>
         /\ pc = "bot" => \A t \in offered : t \in Tools /\ CheckPermissions(t, who)

LEMMA BeginCases ==
    ASSUME Begin
    PROVE  \E c \in Callers : BeginsFor(c)
<1>1. PICK c \in Callers :
        \/ run' = FixAgent(c)
        \/ \E n \in Names : run' = [Start("call", c, ListTools(c)) EXCEPT !.queue = <<n>>]
        \/ \E t \in Tools, on \in BOOLEAN :
             run' = Start("bot", c, GetToolsForBot(c, [x \in {t} |-> on]))
        \/ run' = Start("codegen", ExtractTenant(c), {})
        \/ run' = Start("complete", c, {})
        \/ run' = Start("open", c, {})
  BY DEF Begin
<1>2. \A pc, who, offered : Start(pc, who, offered) = [Start(pc, who, offered) EXCEPT !.queue = <<>>]
  BY DEF Start
<1>3. <<>> \in Seq(Names) /\ {} \in SUBSET Names
  OBVIOUS
<1>4. CASE run' = FixAgent(c)
  <2>1. Codegen \cap ListTools(ExtractTenant(c)) \in SUBSET Names
    BY ListTyped
  <2>2. run' = [Start("ask", ExtractTenant(c), Codegen \cap ListTools(ExtractTenant(c)))
                 EXCEPT !.queue = <<>>]
    BY <1>2, <1>4 DEF FixAgent
  <2>3. QED
    BY <1>3, <2>1, <2>2 DEF BeginsFor
<1>5. ASSUME NEW n \in Names, run' = [Start("call", c, ListTools(c)) EXCEPT !.queue = <<n>>]
      PROVE  BeginsFor(c)
  <2>1. <<n>> \in Seq(Names) /\ <<n>> # <<>> /\ ListTools(c) \in SUBSET Names
    BY ListTyped
  <2>2. QED
    BY <1>5, <2>1 DEF BeginsFor
<1>6. ASSUME NEW t \in Tools, NEW on \in BOOLEAN,
             run' = Start("bot", c, GetToolsForBot(c, [x \in {t} |-> on]))
      PROVE  BeginsFor(c)
  <2> DEFINE overrides == [x \in {t} |-> on]
  <2>1. GetToolsForBot(c, overrides) \in SUBSET Names
    BY ListTyped
  <2>2. \A x \in GetToolsForBot(c, overrides) : x \in Tools /\ CheckPermissions(x, c)
    BY DEF GetToolsForBot
  <2> HIDE DEF overrides
  <2>3. run' = [Start("bot", c, GetToolsForBot(c, overrides)) EXCEPT !.queue = <<>>]
    BY <1>2, <1>6 DEF overrides
  <2>4. QED
    BY <1>3, <2>1, <2>2, <2>3 DEF BeginsFor
<1>7. CASE run' = Start("codegen", ExtractTenant(c), {})
  <2>1. run' = [Start("codegen", ExtractTenant(c), {}) EXCEPT !.queue = <<>>]
    BY <1>2, <1>7
  <2>2. QED
    BY <1>3, <2>1 DEF BeginsFor
<1>8. ASSUME NEW pc \in {"complete", "open"}, run' = Start(pc, c, {})
      PROVE  BeginsFor(c)
  <2>1. run' = [Start(pc, c, {}) EXCEPT !.queue = <<>>]
    BY <1>2, <1>8
  <2>2. QED
    BY <1>3, <2>1 DEF BeginsFor
<1>9. QED
  BY <1>1, <1>4, <1>5, <1>6, <1>7, <1>8

\* The calls a model may make.
LEMMA CallsTyped ==
    ASSUME NEW calls \in BoundedSeq(Names, MaxCalls)
    PROVE  calls \in Seq(Names)
  BY BoundsAssumption DEF BoundedSeq, SeqOf

LEMMA AnswerCases ==
    ASSUME NEW r \in Complete(BoundedSeq(Names, MaxCalls))
    PROVE  r.failed \/ r.calls \in Seq(Names)
<1>1. r = Failure \/ \E calls \in BoundedSeq(Names, MaxCalls) : r = Response(calls)
  BY DEF Complete
<1>2. QED
  BY <1>1, CallsTyped DEF Failure, Response

\* A request that ends keeps its history and its records.
Ended(result, handlers, stream) ==
    [pc |-> "done", who |-> run.who, result |-> result, offered |-> {},
     history |-> run.history, round |-> run.round, queue |-> <<>>,
     executed |-> run.executed, handlers |-> handlers, stream |-> stream]
LEMMA EndedTyped ==
    ASSUME RunTypes, NEW result, NEW ran \in Seq(Tools), NEW stream, IsStream(stream),
           UNCHANGED <<exhausted, installed, published>>, run' = Ended(result, ran, stream)
    PROVE  /\ RunTypes'
           /\ run'.pc = "done" /\ run'.result = result /\ run'.who = run.who
           /\ run'.history = run.history /\ run'.executed = run.executed
           /\ run'.handlers = ran /\ run'.stream = stream
<1>1. /\ run'.pc = "done" /\ run'.result = result /\ run'.who = run.who
      /\ run'.history = run.history /\ run'.executed = run.executed
      /\ run'.handlers = ran /\ run'.stream = stream
  BY DEF Ended
<1>2. IsStream(run.stream)'
  BY <1>1 DEF IsStream
<1>3. RunTypes'
  BY <1>2 DEF RunTypes, Ended
<1>4. QED
  BY <1>1, <1>3

\* What is kept of a stream when its request ends.
Closed == [run.stream EXCEPT !.slots = <<>>]

LEMMA ClosedIsStream ==
    ASSUME IsStream(run.stream)
    PROVE  /\ IsStream(Closed)
           /\ Closed.sent = run.stream.sent /\ Closed.told = run.stream.told
           /\ Closed.astray = run.stream.astray
           /\ \A told : /\ IsStream([Closed EXCEPT !.told = told])
                        /\ [Closed EXCEPT !.told = told].told = told
                        /\ [Closed EXCEPT !.told = told].sent = run.stream.sent
                        /\ [Closed EXCEPT !.told = told].astray = run.stream.astray
<1>1. PICK sent, slots, told, place, astray :
        run.stream = [sent |-> sent, slots |-> slots, told |-> told, place |-> place, astray |-> astray]
  BY DEF IsStream
<1>2. Closed = [sent |-> sent, slots |-> <<>>, told |-> told, place |-> place, astray |-> astray]
  BY <1>1 DEF Closed
<1>3. IsStream(Closed)
  BY <1>2 DEF IsStream
<1>4. ASSUME NEW t
      PROVE  [Closed EXCEPT !.told = t]
                  = [sent |-> sent, slots |-> <<>>, told |-> t, place |-> place, astray |-> astray]
  BY <1>2
<1>5. ASSUME NEW t
      PROVE  IsStream([Closed EXCEPT !.told = t])
  <2> DEFINE next == [Closed EXCEPT !.told = t]
  <2>1. next = [sent |-> sent, slots |-> <<>>, told |-> t, place |-> place, astray |-> astray]
    BY <1>4
  <2> HIDE DEF next
  <2>2. IsStream(next)
    BY <2>1 DEF IsStream
  <2>3. QED
    BY <2>2 DEF next
<1>6. QED
  BY <1>1, <1>2, <1>3, <1>4, <1>5

LEMMA DoneEnds ==
    ASSUME RunTypes, NEW result, run' = Done(result)
    PROVE  run' = Ended(result, run.handlers, Closed)
  BY DEF RunTypes, Done, Ended, Closed

LEMMA DoneRanEnds ==
    ASSUME RunTypes, NEW result, NEW ran, run' = [Done(result) EXCEPT !.handlers = ran]
    PROVE  run' = Ended(result, ran, Closed)
  BY DEF RunTypes, Done, Ended, Closed

LEMMA DoneToldEnds ==
    ASSUME RunTypes, NEW result, NEW told, run' = [Done(result) EXCEPT !.stream.told = told]
    PROVE  run' = Ended(result, run.handlers, [Closed EXCEPT !.told = told])
  BY DEF RunTypes, Done, Ended, Closed

LEMMA DoneStreamEnds ==
    ASSUME RunTypes, NEW result, NEW stream, run' = [Done(result) EXCEPT !.stream = stream]
    PROVE  run' = Ended(result, run.handlers, stream)
  BY DEF RunTypes, Done, Ended

-----------------------------------------------------------------------------
(* Beginning and ending *)

\* A handler that may run for the caller.
Allowed(t, who) == who.internal \/ Required(t) \subseteq who.perms

LEMMA EmptyHistory ==
    ASSUME NEW h, h = <<>>
    PROVE  Paired(h) /\ \A n \in Nat : n = Len(h) => ToolTurns(h, n) = {}
<1>1. DOMAIN <<>> = {} /\ Len(<<>>) = 0 /\ 1..0 = {}
  OBVIOUS
<1>2. QED
  BY <1>1 DEF Paired, ToolTurns

LEMMA StartKeeps ==
    ASSUME LoopInv, NEW c \in Callers, BeginsFor(c), UNCHANGED <<exhausted, installed, published>>
    PROVE  LoopInv'
<1>1. PICK who \in {c, ExtractTenant(c)}, queue \in Seq(Names), offered \in SUBSET Names,
           pc \in {"ask", "call", "bot", "codegen", "complete", "open"} :
        /\ run' = [Start(pc, who, offered) EXCEPT !.queue = queue]
        /\ pc = "call" => queue # <<>>
        /\ pc = "bot" => \A t \in offered : t \in Tools /\ CheckPermissions(t, who)
  BY DEF BeginsFor
<1>2. /\ run'.pc = pc /\ run'.who = who /\ run'.result = "none" /\ run'.offered = offered
      /\ run'.history = <<>> /\ run'.queue = queue /\ run'.executed = <<>>
      /\ run'.handlers = <<>> /\ run'.stream = NoStream
  BY <1>1 DEF Start
<1>3. RunTypes'
  <2>1. /\ who.internal = c.internal /\ who.perms \in {{}, c.perms}
        /\ who \in [internal : BOOLEAN, perms : SUBSET {"shielva:internal", "other"}]
    BY CallerTyped
  <2>2. pc \in PcSet
    BY DEF PcSet
  <2>3. QED
    BY <1>1, <2>1, <2>2, StartTyped DEF LoopInv
<1>4. DOMAIN <<>> = {} /\ Len(<<>>) = 0 /\ 0 \in Nat
  OBVIOUS
<1>5. Fresh' /\ Permitted' /\ Streamed'
  BY <1>1, <1>2, <1>4 DEF Fresh, Unlooped, Permitted, PermittedOnly, Streamed, NoStream
<1>6. Told'
  BY <1>1, <1>2, EmptyHistory DEF Told
<1>7. Recorded'
  <2>1. ToolTurns(<<>>, Len(<<>>)) = {} /\ Cardinality({}) = 0
    BY <1>4, EmptyHistory, FS_EmptySet
  <2>2. \A t : Times(t, <<>>) = 0
    BY <1>4, FS_EmptySet DEF Times
  <2>3. NamesOf(<<>>) = <<>>
    BY <1>4 DEF NamesOf
  <2>4. /\ Len(run'.executed) = Cardinality(ToolTurns(run'.history, Len(run'.history)))
        /\ ToolTurns(run'.history, Len(run'.history)) = {}
    BY <1>2, <1>4, <2>1
  <2>5. \A t \in Tools : Times(t, run'.handlers) = 0 /\ Times(t, NamesOf(run'.executed)) = 0
    BY <1>2, <2>2, <2>3
  <2>6. QED
    BY <2>4, <2>5 DEF Recorded
<1>8. QED
  BY <1>3, <1>5, <1>6, <1>7 DEF LoopInv

\* A request without a loop may run a handler it is allowed; a loop runs none
\* when it ends.
LEMMA EndKeeps ==
    ASSUME LoopInv, NEW result, NEW ran \in Seq(Tools), NEW stream, IsStream(stream),
           UNCHANGED <<exhausted, installed, published>>, run' = Ended(result, ran, stream),
           \A i \in DOMAIN ran : Allowed(ran[i], run.who),
           Paired(run.history),
           run.history # <<>> => ran = run.handlers,
           result = "done" /\ ~stream.astray => stream.told = Assembled(stream.sent)
    PROVE  LoopInv'
<1>1. /\ RunTypes'
      /\ run'.pc = "done" /\ run'.result = result /\ run'.who = run.who
      /\ run'.history = run.history /\ run'.executed = run.executed
      /\ run'.handlers = ran /\ run'.stream = stream
  BY EndedTyped DEF LoopInv
<1>2. Fresh' /\ Permitted'
  BY <1>1 DEF Fresh, Unlooped, Permitted, PermittedOnly, Allowed
<1>3. Streamed'
  BY <1>1 DEF Streamed
<1>4. Told'
  BY <1>1 DEF Told
<1>5. Recorded'
  BY <1>1 DEF LoopInv, Recorded
<1>6. QED
  BY <1>1, <1>2, <1>3, <1>4, <1>5 DEF LoopInv

LEMMA DoneKeeps ==
    ASSUME LoopInv, NEW result, result # "done", run' = Done(result), Paired(run.history),
           UNCHANGED <<exhausted, installed, published>>
    PROVE  LoopInv'
<1>1. run' = Ended(result, run.handlers, Closed) /\ IsStream(Closed)
  BY DoneEnds, ClosedIsStream DEF LoopInv, RunTypes
<1>2. run.handlers \in Seq(Tools) /\ \A i \in DOMAIN run.handlers : Allowed(run.handlers[i], run.who)
  BY DEF LoopInv, RunTypes, Permitted, PermittedOnly, Allowed
<1>3. QED
  BY <1>1, <1>2, EndKeeps

LEMMA CallToolKeeps ==
    ASSUME LoopInv, CallTool
    PROVE  LoopInv'
<1> DEFINE name == run.queue[1]
<1>1. run.pc = "call" /\ run.history = <<>> /\ run.queue \in Seq(Names) /\ run.queue # <<>>
  BY DEF LoopInv, RunTypes, Fresh, Unlooped, CallTool
<1>2. PICK outcome \in CallResult(name, run.who) :
        run' = [Done(outcome) EXCEPT !.handlers = IF RanHandler(name, outcome) THEN <<name>> ELSE <<>>]
  BY DEF CallTool
<1> DEFINE ran == IF RanHandler(name, outcome) THEN <<name>> ELSE <<>>
<1>3. ran \in Seq(Tools) /\ \A i \in DOMAIN ran : Allowed(ran[i], run.who)
  <2>1. CASE RanHandler(name, outcome)
    <3>1. name \in Tools /\ outcome \in {"ok", "failed"}
      BY <2>1 DEF RanHandler
    <3>2. name # Connector
      BY <3>1, NamesAssumption DEF Tools
    <3>3. CheckPermissions(name, run.who)
      BY <1>2, <3>1, <3>2 DEF CallResult, Execute
    <3>4. <<name>> \in Seq(Tools) /\ \A i \in DOMAIN <<name>> : <<name>>[i] = name
      BY <3>1
    <3>5. QED
      BY <2>1, <3>3, <3>4 DEF CheckPermissions, Allowed
  <2>2. CASE ~RanHandler(name, outcome)
    BY <2>2
  <2>3. QED
    BY <2>1, <2>2
<1>4. outcome # "done"
  BY <1>2 DEF CallResult, Execute, ExecuteTool, CodegenTool, RagQueryTool, Found
<1> HIDE DEF ran
<1>50. RunTypes /\ IsStream(Closed)
  BY ClosedIsStream DEF LoopInv, RunTypes
<1>51. run' = [Done(outcome) EXCEPT !.handlers = ran]
  BY <1>2 DEF ran
<1>5. run' = Ended(outcome, ran, Closed) /\ IsStream(Closed)
  BY <1>50, <1>51, DoneRanEnds
<1>6. Paired(run.history)
  BY <1>1, EmptyHistory
<1>7. UNCHANGED <<exhausted, installed, published>>
  BY DEF CallTool
<1>8. QED
  BY <1>1, <1>3, <1>4, <1>5, <1>6, <1>7, EndKeeps

LEMMA BotToolKeeps ==
    ASSUME LoopInv, BotTool
    PROVE  LoopInv'
<1>1. /\ run.pc = "bot" /\ run.history = <<>> /\ UNCHANGED <<exhausted, installed, published>>
      /\ Paired(run.history)
  BY EmptyHistory DEF LoopInv, Fresh, Unlooped, BotTool
<1>2. CASE run' = Done("ok")
  BY <1>1, <1>2, DoneKeeps
<1>3. ASSUME NEW name \in Names,
             run' = [Done("ok") EXCEPT !.handlers = IF name \in run.offered THEN <<name>> ELSE <<>>]
      PROVE  LoopInv'
  <2> DEFINE ran == IF name \in run.offered THEN <<name>> ELSE <<>>
  <2>1. ran \in Seq(Tools) /\ \A i \in DOMAIN ran : Allowed(ran[i], run.who)
    <3>1. CASE name \in run.offered
      <4>1. name \in Tools /\ Allowed(name, run.who)
        BY <1>1, <3>1 DEF LoopInv, Permitted, CheckPermissions, Allowed
      <4>2. <<name>> \in Seq(Tools) /\ \A i \in DOMAIN <<name>> : <<name>>[i] = name
        BY <4>1
      <4>3. QED
        BY <3>1, <4>1, <4>2
    <3>2. CASE name \notin run.offered
      BY <3>2
    <3>3. QED
      BY <3>1, <3>2
  <2> HIDE DEF ran
  <2>20. RunTypes /\ IsStream(Closed)
    BY ClosedIsStream DEF LoopInv, RunTypes
  <2>21. run' = [Done("ok") EXCEPT !.handlers = ran]
    BY <1>3 DEF ran
  <2>2. run' = Ended("ok", ran, Closed) /\ IsStream(Closed)
    BY <2>20, <2>21, DoneRanEnds
  <2>3. QED
    BY <1>1, <2>1, <2>2, EndKeeps
<1>4. QED
  BY <1>2, <1>3 DEF BotTool

-----------------------------------------------------------------------------
(* The history *)

LEMMA TurnShapes ==
    /\ \A calls \in Seq(Names) : /\ AssistantTurn(calls) \in Turn
                                 /\ AssistantTurn(calls).role = "assistant"
                                 /\ AssistantTurn(calls).calls = calls
    /\ \A name \in Names : /\ ToolTurn(name) \in Turn /\ ToolTurn(name).role = "tool"
                           /\ ToolTurn(name).name = name
    /\ \A turn \in Turn : turn.role = "assistant" => turn.calls \in Seq(Names)
    /\ \A turn \in Turn : turn.role \in {"assistant", "tool"}
<1>1. \A calls \in Seq(Names) : /\ AssistantTurn(calls) \in Turn
                                /\ AssistantTurn(calls).role = "assistant"
                                /\ AssistantTurn(calls).calls = calls
  BY DEF Turn, AssistantTurn
<1>2. \A name \in Names : /\ ToolTurn(name) \in Turn /\ ToolTurn(name).role = "tool"
                          /\ ToolTurn(name).name = name
  BY DEF Turn, ToolTurn
<1>3. /\ \A turn \in Turn : turn.role = "assistant" => turn.calls \in Seq(Names)
      /\ \A turn \in Turn : turn.role \in {"assistant", "tool"}
  BY DEF Turn
<1>4. QED
  BY <1>1, <1>2, <1>3

\* An answer whose calls were answered stays so as the history goes on.
LEMMA PairedAtMore ==
    ASSUME NEW h \in Seq(Turn), NEW turn \in Turn, NEW i \in 1..Len(h), h[i].role = "assistant",
           PairedAt(h, i), i + Len(h[i].calls) < Len(h) \/ turn.role = "assistant"
    PROVE  PairedAt(Append(h, turn), i)
<1> DEFINE more == Append(h, turn)
           n == Len(h[i].calls)
<1>1. /\ Len(more) = Len(h) + 1 /\ Len(h) \in Nat /\ more[Len(h) + 1] = turn
      /\ \A j \in 1..Len(h) : more[j] = h[j]
      /\ i \in 1..Len(h)
  OBVIOUS
<1>2. n \in Nat
  <2>1. h[i] \in Turn
    OBVIOUS
  <2>2. QED
    BY <2>1, TurnShapes
<1> HIDE DEF more
<1>3. /\ i + n <= Len(h)
      /\ \A j \in 1..n : h[i + j] = ToolTurn(h[i].calls[j])
      /\ i + n < Len(h) => h[i + n + 1].role = "assistant"
  BY DEF PairedAt
<1>4. more[i] = h[i]
  BY <1>1
<1> HIDE DEF n
<1>5. i + n <= Len(more)
  BY <1>1, <1>2, <1>3
<1>50. i \in Nat /\ i >= 1 /\ i + n <= Len(h) /\ Len(h) \in Nat /\ Len(more) = Len(h) + 1
  BY <1>1, <1>3
<1>6. \A j \in 1..n : more[i + j] = ToolTurn(more[i].calls[j])
  <2>1. TAKE j \in 1..n
  <2>2. i + j \in 1..Len(h)
    BY <1>2, <1>50
  <2>3. QED
    BY <1>1, <1>3, <1>4, <2>2
<1>7. ASSUME i + n < Len(more)
      PROVE  more[i + n + 1].role = "assistant"
  <2>1. CASE i + n < Len(h)
    <3>1. i + n + 1 \in 1..Len(h)
      BY <1>2, <1>50, <2>1
    <3>2. QED
      BY <1>1, <1>3, <2>1, <3>1
  <2>2. CASE ~(i + n < Len(h))
    <3>1. i + n + 1 = Len(h) + 1
      BY <1>2, <1>50, <2>2, <1>7
    <3>2. turn.role = "assistant"
      BY <2>2 DEF n
    <3>3. QED
      BY <1>1, <3>1, <3>2
  <2>3. QED
    BY <2>1, <2>2
<1>8. QED
  BY <1>4, <1>5, <1>6, <1>7 DEF PairedAt, more, n

\* The model answers with calls.
LEMMA DispatchBegins ==
    ASSUME NEW h \in Seq(Turn), Paired(h), NEW calls \in Seq(Names)
    PROVE  Dispatching(Append(h, AssistantTurn(calls)), calls)
<1> DEFINE turn == AssistantTurn(calls)
           more == Append(h, turn)
           a == Len(h) + 1
<1>1. turn \in Turn /\ turn.role = "assistant" /\ turn.calls = calls
  BY TurnShapes
<1> HIDE DEF turn
<1>2. /\ Len(more) = a /\ Len(h) \in Nat /\ more[a] = turn /\ a \in 1..Len(more)
      /\ \A j \in 1..Len(h) : more[j] = h[j]
      /\ a = 1 <=> h = <<>>
      /\ DOMAIN h = 1..Len(h)
  BY <1>1
<1>3. \A i \in 1..(a - 1) :
        more[i].role = "assistant" => PairedAt(more, i) /\ i + Len(more[i].calls) < a
  <2>1. TAKE i \in 1..(a - 1)
  <2>2. HAVE more[i].role = "assistant"
  <2>3. i \in DOMAIN h /\ more[i] = h[i]
    BY <1>2
  <2>4. PairedAt(h, i)
    BY <2>2, <2>3 DEF Paired
  <2>5. PairedAt(more, i)
    BY <1>1, <2>2, <2>3, <2>4, PairedAtMore
  <2>6. i + Len(h[i].calls) <= Len(h)
    BY <2>4 DEF PairedAt
  <2>7. Len(h[i].calls) \in Nat
    <3>1. h[i] \in Turn
      BY <2>3
    <3>2. QED
      BY <2>2, <2>3, <3>1, TurnShapes
  <2>8. QED
    BY <1>2, <2>3, <2>5, <2>6, <2>7
<1> HIDE DEF more
<1>4. more[1].role = "assistant"
  BY <1>1, <1>2 DEF Paired
<1>5. calls = SubSeq(calls, Len(more) - a + 1, Len(calls))
  <2>1. Len(more) - a + 1 = 1
    BY <1>2
  <2>2. SubSeq(calls, 1, Len(calls)) = calls
    OBVIOUS
  <2>3. QED
    BY <2>1, <2>2
<1>6. 1..(Len(more) - a) = {} /\ Len(more) <= a + Len(calls)
  BY <1>2
<1>7. QED
  BY <1>1, <1>2, <1>3, <1>4, <1>5, <1>6 DEF Dispatching, more, turn

\* One call has been dispatched.
LEMMA DispatchGoesOn ==
    ASSUME NEW h \in Seq(Turn), NEW queue \in Seq(Names), queue # <<>>, Dispatching(h, queue)
    PROVE  Dispatching(Append(h, ToolTurn(queue[1])), Tail(queue))
<1> DEFINE turn == ToolTurn(queue[1])
           more == Append(h, turn)
<1>1. queue[1] \in Names /\ turn \in Turn /\ turn.role = "tool"
  BY TurnShapes
<1>2. PICK a \in 1..Len(h) :
        /\ h[1].role = "assistant" /\ h[a].role = "assistant"
        /\ Len(h) <= a + Len(h[a].calls)
        /\ \A j \in 1..(Len(h) - a) : h[a + j] = ToolTurn(h[a].calls[j])
        /\ queue = SubSeq(h[a].calls, Len(h) - a + 1, Len(h[a].calls))
        /\ \A i \in 1..(a - 1) :
             h[i].role = "assistant" => PairedAt(h, i) /\ i + Len(h[i].calls) < a
  BY DEF Dispatching
<1> DEFINE calls == h[a].calls
           done == Len(h) - a
<1>3. calls \in Seq(Names)
  <2>1. h[a] \in Turn
    OBVIOUS
  <2>2. QED
    BY <1>2, <2>1, TurnShapes
<1> HIDE DEF turn
<1>4. /\ Len(more) = Len(h) + 1 /\ Len(h) \in Nat /\ more[Len(h) + 1] = turn /\ a \in 1..Len(more)
      /\ \A j \in 1..Len(h) : more[j] = h[j]
      /\ a \in 1..Len(h) /\ more \in Seq(Turn)
  BY <1>1
<1>5. /\ done \in Nat /\ Len(more) - a = done + 1 /\ Len(calls) \in Nat
      /\ Len(more) - a + 1 = done + 2 /\ a + done = Len(h) /\ \A j \in 1..done : h[a + j] = ToolTurn(calls[j])
  <2>1. Len(calls) \in Nat
    BY <1>3
  <2>2. /\ done \in Nat /\ Len(more) - a = done + 1 /\ Len(more) - a + 1 = done + 2
        /\ a + done = Len(h)
    <3> HIDE DEF more
    <3>1. QED
      BY <1>4
  <2>3. QED
    BY <1>2, <2>1, <2>2
<1> HIDE DEF calls, more
<1>6. done < Len(calls) /\ queue[1] = calls[done + 1]
      /\ Tail(queue) = SubSeq(calls, done + 2, Len(calls))
  <2>1. queue = SubSeq(calls, done + 1, Len(calls))
    BY <1>2 DEF calls
  <2> HIDE DEF done
  <2>2. done < Len(calls)
    BY <1>3, <1>5, <2>1
  <2>3. queue[1] = calls[done + 1] /\ Len(queue) = Len(calls) - done
    BY <1>3, <1>5, <2>1, <2>2
  <2>4. Tail(queue) = SubSeq(calls, done + 2, Len(calls))
    BY <1>3, <1>5, <2>1, <2>2
  <2>5. QED
    BY <2>2, <2>3, <2>4
<1>7. \A j \in 1..(done + 1) : more[a + j] = ToolTurn(calls[j])
  <2> HIDE DEF done
  <2>1. TAKE j \in 1..(done + 1)
  <2>2. CASE j <= done
    <3>1. j \in 1..done /\ a + j \in 1..Len(h)
      BY <1>4, <1>5, <2>2
    <3>2. QED
      BY <1>4, <1>5, <3>1
  <2>3. CASE j > done
    <3>1. j = done + 1 /\ a + j = Len(h) + 1
      <4>1. done \in Nat /\ a + done = Len(h) /\ a \in Nat
        BY <1>5
      <4>2. j = done + 1
        BY <4>1, <2>3
      <4>3. QED
        BY <4>1, <4>2
    <3>2. QED
      BY <1>4, <1>6, <3>1 DEF turn
  <2>4. QED
    BY <1>5, <2>2, <2>3
<1>8. more[a] = h[a] /\ more[1] = h[1]
  BY <1>4
<1>9. \A i \in 1..(a - 1) :
        more[i].role = "assistant" => PairedAt(more, i) /\ i + Len(more[i].calls) < a
  <2>1. TAKE i \in 1..(a - 1)
  <2>2. HAVE more[i].role = "assistant"
  <2>3. more[i] = h[i] /\ i \in DOMAIN h
    BY <1>4
  <2>4. PairedAt(h, i) /\ i + Len(h[i].calls) < a
    BY <1>2, <2>2, <2>3
  <2>5. Len(h[i].calls) \in Nat
    <3>1. h[i] \in Turn
      BY <2>3
    <3>2. QED
      BY <2>2, <2>3, <3>1, TurnShapes
  <2>6. i + Len(h[i].calls) < Len(h)
    BY <1>4, <2>4, <2>5
  <2>7. PairedAt(more, i)
    BY <1>1, <2>2, <2>3, <2>4, <2>6, PairedAtMore DEF more
  <2>8. QED
    BY <2>3, <2>4, <2>7
<1>10. Len(more) <= a + Len(calls)
  BY <1>4, <1>5, <1>6
<1>11. Tail(queue) = SubSeq(calls, Len(more) - a + 1, Len(calls))
  <2>1. Len(more) - a + 1 = done + 2
    BY <1>5
  <2>2. QED
    BY <1>6, <2>1
<1>12. QED
  BY <1>2, <1>4, <1>5, <1>7, <1>8, <1>9, <1>10, <1>11 DEF Dispatching, more, turn, calls

\* All calls have been dispatched.
LEMMA DispatchEnds ==
    ASSUME NEW h \in Seq(Turn), Dispatching(h, <<>>)
    PROVE  Paired(h)
<1>1. PICK a \in 1..Len(h) :
        /\ h[1].role = "assistant" /\ h[a].role = "assistant"
        /\ Len(h) <= a + Len(h[a].calls)
        /\ \A j \in 1..(Len(h) - a) : h[a + j] = ToolTurn(h[a].calls[j])
        /\ <<>> = SubSeq(h[a].calls, Len(h) - a + 1, Len(h[a].calls))
        /\ \A i \in 1..(a - 1) :
             h[i].role = "assistant" => PairedAt(h, i) /\ i + Len(h[i].calls) < a
  BY DEF Dispatching
<1> DEFINE calls == h[a].calls
           done == Len(h) - a
<1>2. calls \in Seq(Names) /\ Len(calls) \in Nat
  <2>1. h[a] \in Turn
    OBVIOUS
  <2>2. QED
    BY <1>1, <2>1, TurnShapes
<1>3. a \in Nat /\ a >= 1 /\ a <= Len(h) /\ Len(h) \in Nat
  OBVIOUS
<1>30. done \in Nat /\ a + done = Len(h)
  BY <1>3
<1> HIDE DEF calls
<1>4. done = Len(calls)
  <2>1. Len(h) <= a + Len(calls)
    BY <1>1 DEF calls
  <2>2. <<>> = SubSeq(calls, done + 1, Len(calls))
    BY <1>1 DEF calls
  <2> HIDE DEF done
  <2>3. ~(done < Len(calls))
    <3>1. ASSUME done < Len(calls)
          PROVE  FALSE
      <4>1. Len(SubSeq(calls, done + 1, Len(calls))) = Len(calls) - done
        BY <1>2, <1>30, <3>1
      <4>2. Len(<<>>) = 0
        OBVIOUS
      <4>3. Len(calls) - done = 0
        BY <2>2, <4>1, <4>2
      <4>4. QED
        BY <1>2, <1>30, <3>1, <4>3
    <3>2. QED
      BY <3>1
  <2>4. QED
    BY <1>2, <1>3, <1>30, <2>1, <2>3
<1>5. \A j \in 1..done : h[a + j] = ToolTurn(calls[j])
  BY <1>1 DEF calls
<1> HIDE DEF done
<1>6. PairedAt(h, a)
  BY <1>2, <1>3, <1>30, <1>4, <1>5 DEF PairedAt, calls
<1>7. ASSUME NEW i \in DOMAIN h, h[i].role = "assistant"
      PROVE  PairedAt(h, i)
  <2>1. CASE i < a
    BY <1>1, <1>3, <1>7, <2>1
  <2>2. CASE i = a
    BY <1>6, <2>2
  <2>3. CASE i > a
    <3>1. i - a \in 1..done /\ a + (i - a) = i
      BY <1>3, <1>30, <2>3
    <3>2. h[i] = ToolTurn(calls[i - a])
      BY <1>5, <3>1
    <3>3. h[i].role = "tool"
      BY <3>2 DEF ToolTurn
    <3>4. QED
      BY <1>7, <3>3
  <2>4. QED
    BY <1>3, <2>1, <2>2, <2>3
<1>8. QED
  BY <1>1, <1>7 DEF Paired

-----------------------------------------------------------------------------
(* The loop *)

\* Records and tool turns, when a call has been answered.
LEMMA RecordsMore ==
    ASSUME NEW h \in Seq(Turn), NEW records \in Seq(Record), NEW name \in Names, NEW r \in Record,
           r.name = name,
           Len(records) = Cardinality(ToolTurns(h, Len(h))),
           \A i \in ToolTurns(h, Len(h)) : records[Cardinality(ToolTurns(h, i))].name = h[i].name
    PROVE  LET more == Append(h, ToolTurn(name))
               longer == Append(records, r)
           IN  /\ Len(longer) = Cardinality(ToolTurns(more, Len(more)))
               /\ \A i \in ToolTurns(more, Len(more)) :
                    longer[Cardinality(ToolTurns(more, i))].name = more[i].name
<1> DEFINE more == Append(h, ToolTurn(name))
           longer == Append(records, r)
           all == ToolTurns(h, Len(h))
<1>1. ToolTurn(name) \in Turn /\ ToolTurn(name).role = "tool" /\ ToolTurn(name).name = name
  BY TurnShapes
<1>2. /\ \A n \in 0..Len(h) : ToolTurns(more, n) = ToolTurns(h, n)
      /\ ToolTurns(more, Len(h) + 1) = all \cup {Len(h) + 1}
      /\ Cardinality(ToolTurns(more, Len(h) + 1)) = Cardinality(all) + 1
      /\ Len(more) = Len(h) + 1
  BY <1>1, TurnsMore
<1>3. /\ Len(h) \in Nat /\ more[Len(h) + 1] = ToolTurn(name)
      /\ \A i \in 1..Len(h) : more[i] = h[i]
  BY <1>1
<1>4. /\ Len(longer) = Len(records) + 1 /\ Len(records) \in Nat /\ longer[Len(records) + 1] = r
      /\ \A k \in 1..Len(records) : longer[k] = records[k]
  OBVIOUS
<1> HIDE DEF more, longer
<1>5. Len(longer) = Cardinality(ToolTurns(more, Len(more)))
  BY <1>2, <1>4
<1>6. ASSUME NEW i \in ToolTurns(more, Len(more))
      PROVE  longer[Cardinality(ToolTurns(more, i))].name = more[i].name
  <2>1. CASE i = Len(h) + 1
    BY <1>1, <1>2, <1>3, <1>4, <2>1
  <2>2. CASE i # Len(h) + 1
    <3>1. i \in all
      BY <1>2, <2>2
    <3>2. i \in 1..Len(h) /\ h[i].role = "tool"
      BY <3>1 DEF ToolTurns
    <3>3. ToolTurns(more, i) = ToolTurns(h, i)
      BY <1>2, <3>2
    <3>4. Cardinality(ToolTurns(h, i)) \in 1..Len(records)
      <4>1. ToolTurns(h, i) \subseteq all /\ i \in ToolTurns(h, i)
        BY <3>2 DEF ToolTurns
      <4>2. IsFiniteSet(all) /\ IsFiniteSet(ToolTurns(h, i))
        BY <1>3, <3>2, TurnsTyped
      <4>3. Cardinality(ToolTurns(h, i)) <= Cardinality(all)
        BY <4>1, <4>2, FS_Subset
      <4>4. Cardinality(ToolTurns(h, i)) \in Nat /\ Cardinality(ToolTurns(h, i)) # 0
        BY <4>1, <4>2, FS_CardinalityType, FS_EmptySet
      <4>5. QED
        BY <1>4, <4>3, <4>4
    <3>5. QED
      BY <1>3, <1>4, <3>1, <3>2, <3>3, <3>4
  <2>3. QED
    BY <2>1, <2>2
<1>7. QED
  BY <1>5, <1>6 DEF more, longer

LEMMA CallProviderKeeps ==
    ASSUME LoopInv, CallProvider
    PROVE  LoopInv'
<1>1. /\ run.pc = "ask" /\ UNCHANGED <<exhausted, installed, published>> /\ Paired(run.history)
      /\ RunTypes /\ run.history \in Seq(Turn)
  BY DEF LoopInv, Told, RunTypes, CallProvider
<1>2. PICK r \in Complete(BoundedSeq(Names, MaxCalls)) :
        run' = IF r.failed THEN Done("failed")
               ELSE IF r.calls = <<>> THEN Done("answered")
               ELSE [run EXCEPT !.pc = "dispatch", !.queue = r.calls,
                       !.history = Append(@, AssistantTurn(r.calls))]
  BY DEF CallProvider
<1>3. CASE r.failed \/ r.calls = <<>>
  <2>1. run' = Done("failed") \/ run' = Done("answered")
    BY <1>2, <1>3, Zenon
  <2>2. QED
    BY <1>1, <2>1, DoneKeeps
<1>4. CASE ~(r.failed \/ r.calls = <<>>)
  <2> DEFINE calls == r.calls
  <2>1. calls \in Seq(Names)
    BY <1>4, AnswerCases
  <2>2. run' = [run EXCEPT !.pc = "dispatch", !.queue = calls,
                  !.history = Append(@, AssistantTurn(calls))]
    BY <1>2, <1>4
  <2> HIDE DEF calls
  <2>3. AssistantTurn(calls) \in Turn /\ AssistantTurn(calls).role = "assistant"
    BY <2>1, TurnShapes
  <2>4. Append(run.history, AssistantTurn(calls)) \in Seq(Turn)
    BY <1>1, <2>3
  <2>5. /\ run'.pc = "dispatch" /\ run'.queue = calls /\ run'.who = run.who
        /\ run'.history = Append(run.history, AssistantTurn(calls)) /\ run'.result = run.result
        /\ run'.executed = run.executed /\ run'.handlers = run.handlers
    BY <1>1, <2>2 DEF RunTypes
  <2>6. RunTypes'
    BY <1>1, <2>1, <2>2, <2>4 DEF RunTypes
  <2>7. Fresh' /\ Permitted' /\ Streamed'
    BY <1>1, <2>5 DEF LoopInv, Fresh, Unlooped, Permitted, PermittedOnly, Streamed
  <2>8. Told'
    BY <1>1, <2>1, <2>5, DispatchBegins DEF Told
  <2>9. Recorded'
    <3> DEFINE more == Append(run.history, AssistantTurn(calls))
    <3>1. /\ \A n \in 0..Len(run.history) : ToolTurns(more, n) = ToolTurns(run.history, n)
          /\ ToolTurns(more, Len(more)) = ToolTurns(run.history, Len(run.history))
      BY <1>1, <2>3, TurnsMore
    <3>2. \A i \in 1..Len(run.history) : more[i] = run.history[i]
      BY <1>1, <2>3
    <3> HIDE DEF more
    <3>3. /\ Len(run.executed) = Cardinality(ToolTurns(run.history, Len(run.history)))
          /\ \A i \in ToolTurns(run.history, Len(run.history)) :
               run.executed[Cardinality(ToolTurns(run.history, i))].name = run.history[i].name
          /\ \A t \in Tools : Times(t, run.handlers) <= Times(t, NamesOf(run.executed))
      BY <1>1 DEF LoopInv, Recorded
    <3>4. ASSUME NEW i \in ToolTurns(run.history, Len(run.history))
          PROVE  run.executed[Cardinality(ToolTurns(more, i))].name = more[i].name
      <4>1. i \in 1..Len(run.history) /\ i \in 0..Len(run.history)
        BY DEF ToolTurns
      <4>2. QED
        BY <3>1, <3>2, <3>3, <4>1
    <3>5. run'.history = more
      BY <2>5 DEF more
    <3>6. QED
      BY <2>5, <3>1, <3>3, <3>4, <3>5 DEF Recorded
  <2>10. QED
    BY <2>6, <2>7, <2>8, <2>9 DEF LoopInv
<1>5. QED
  BY <1>3, <1>4

\* Whatever the outcome, a call has its tool turn and its record.
LEMMA AnsweredKeeps ==
    ASSUME LoopInv, run.pc = "dispatch", run.queue # <<>>, UNCHANGED <<exhausted, installed, published>>,
           NEW outcome, run' = Answered(run.queue[1], outcome),
           RanHandler(run.queue[1], outcome) => Allowed(run.queue[1], run.who)
    PROVE  LoopInv'
<1> DEFINE name == run.queue[1]
           record == [name |-> name, is_error |-> outcome # "ok"]
           ran == RanHandler(name, outcome)
<1>1. /\ RunTypes /\ run.history \in Seq(Turn) /\ run.queue \in Seq(Names)
      /\ run.executed \in Seq(Record) /\ run.handlers \in Seq(Tools)
      /\ name \in Names /\ Tail(run.queue) \in Seq(Names)
  BY DEF LoopInv, RunTypes
<1>2. record \in Record /\ record.name = name
  BY <1>1 DEF Record
<1>3. ToolTurn(name) \in Turn
  BY <1>1, TurnShapes
<1>4. ran => name \in Tools /\ Allowed(name, run.who)
  BY DEF RanHandler
<1>5. run' = [run EXCEPT !.queue = Tail(@), !.history = Append(@, ToolTurn(name)),
                !.executed = Append(@, record),
                !.handlers = IF ran THEN Append(@, name) ELSE @]
  BY DEF Answered
<1> HIDE DEF name, record, ran
<1>6. /\ run'.pc = "dispatch" /\ run'.queue = Tail(run.queue) /\ run'.who = run.who
      /\ run'.history = Append(run.history, ToolTurn(name)) /\ run'.result = run.result
      /\ run'.executed = Append(run.executed, record)
      /\ run'.handlers = IF ran THEN Append(run.handlers, name) ELSE run.handlers
  BY <1>1, <1>5 DEF RunTypes
<1>7. /\ Append(run.history, ToolTurn(name)) \in Seq(Turn)
      /\ Append(run.executed, record) \in Seq(Record)
      /\ (IF ran THEN Append(run.handlers, name) ELSE run.handlers) \in Seq(Tools)
  BY <1>1, <1>2, <1>3, <1>4
<1>8. RunTypes'
  BY <1>1, <1>5, <1>7 DEF RunTypes
<1>9. Fresh' /\ Streamed'
  BY <1>6 DEF LoopInv, Fresh, Unlooped, Streamed
<1>10. Permitted'
  <2>1. \A i \in DOMAIN run.handlers : Allowed(run.handlers[i], run.who)
    BY DEF LoopInv, Permitted, PermittedOnly, Allowed
  <2>2. \A i \in DOMAIN run'.handlers : Allowed(run'.handlers[i], run.who)
    <3>1. CASE ran
      <4>1. run'.handlers = Append(run.handlers, name) /\ name \in Tools /\ Allowed(name, run.who)
        BY <1>4, <1>6, <3>1
      <4>2. \A i \in DOMAIN Append(run.handlers, name) :
              \/ i \in DOMAIN run.handlers /\ Append(run.handlers, name)[i] = run.handlers[i]
              \/ Append(run.handlers, name)[i] = name
        BY <1>1, <4>1
      <4>3. QED
        BY <2>1, <4>1, <4>2
    <3>2. CASE ~ran
      BY <1>6, <2>1, <3>2
    <3>3. QED
      BY <3>1, <3>2
  <2>3. QED
    BY <1>6, <2>2 DEF Permitted, PermittedOnly, Allowed
<1>11. Told'
  <2>1. Dispatching(run.history, run.queue)
    BY DEF LoopInv, Told
  <2>2. Dispatching(Append(run.history, ToolTurn(name)), Tail(run.queue))
    BY <1>1, <2>1, DispatchGoesOn DEF name
  <2>3. QED
    BY <1>6, <2>2 DEF Told
<1>12. Recorded'
  <2>1. /\ Len(run.executed) = Cardinality(ToolTurns(run.history, Len(run.history)))
        /\ \A i \in ToolTurns(run.history, Len(run.history)) :
             run.executed[Cardinality(ToolTurns(run.history, i))].name = run.history[i].name
        /\ \A t \in Tools : Times(t, run.handlers) <= Times(t, NamesOf(run.executed))
    BY DEF LoopInv, Recorded
  <2>2. /\ Len(run'.executed) = Cardinality(ToolTurns(run'.history, Len(run'.history)))
        /\ \A i \in ToolTurns(run'.history, Len(run'.history)) :
             run'.executed[Cardinality(ToolTurns(run'.history, i))].name = run'.history[i].name
    <3> DEFINE more == Append(run.history, ToolTurn(name))
               longer == Append(run.executed, record)
    <3>1. /\ Len(longer) = Cardinality(ToolTurns(more, Len(more)))
          /\ \A i \in ToolTurns(more, Len(more)) :
               longer[Cardinality(ToolTurns(more, i))].name = more[i].name
      BY <1>1, <1>2, <2>1, RecordsMore
    <3>2. run'.history = more /\ run'.executed = longer
      BY <1>6
    <3> HIDE DEF more, longer
    <3>3. QED
      BY <3>1, <3>2
  <2>3. ASSUME NEW t \in Tools
        PROVE  Times(t, run'.handlers) <= Times(t, NamesOf(run'.executed))
    <3>1. NamesOf(run'.executed) = Append(NamesOf(run.executed), name)
      BY <1>1, <1>2, <1>6, NamesMore
    <3>2. NamesOf(run.executed) \in Seq(Names)
      BY <1>1, NamesTyped
    <3>3. Times(t, NamesOf(run'.executed)) = Times(t, NamesOf(run.executed)) + (IF name = t THEN 1 ELSE 0)
      BY <1>1, <3>1, <3>2, CountMore
    <3>4. \/ Times(t, run'.handlers) = Times(t, run.handlers)
          \/ Times(t, run'.handlers) = Times(t, run.handlers) + (IF name = t THEN 1 ELSE 0)
      BY <1>1, <1>4, <1>6, CountMore
    <3>5. Times(t, run.handlers) \in Nat /\ Times(t, NamesOf(run.executed)) \in Nat
      BY <1>1, <3>2, CountTyped
    <3>6. QED
      BY <2>1, <3>3, <3>4, <3>5
  <2>4. QED
    BY <2>2, <2>3 DEF Recorded
<1>13. QED
  BY <1>8, <1>9, <1>10, <1>11, <1>12 DEF LoopInv

LEMMA DispatchKeeps ==
    ASSUME LoopInv, Dispatch
    PROVE  LoopInv'
<1> DEFINE name == run.queue[1]
<1>1. run.pc = "dispatch" /\ run.queue # <<>> /\ UNCHANGED <<exhausted, installed, published>>
  BY DEF Dispatch
<1>2. CASE ~Found(name)
  <2>1. run' = Answered(name, "unknown")
    BY <1>2 DEF Dispatch
  <2>2. ~RanHandler(name, "unknown")
    BY DEF RanHandler
  <2>3. QED
    BY <1>1, <2>1, <2>2, AnsweredKeeps
<1>3. CASE Found(name)
  <2>1. PICK outcome \in Execute(name, run.who) : run' = Answered(name, outcome)
    BY <1>3 DEF Dispatch
  <2>2. RanHandler(name, outcome) => Allowed(name, run.who)
    <3>1. HAVE RanHandler(name, outcome)
    <3>2. name \in Tools /\ name # Connector /\ outcome # "denied"
      BY <3>1, NamesAssumption DEF RanHandler, Tools
    <3>3. CheckPermissions(name, run.who)
      BY <2>1, <3>2 DEF Execute
    <3>4. QED
      BY <3>3 DEF CheckPermissions, Allowed
  <2>3. QED
    BY <1>1, <2>1, <2>2, AnsweredKeeps
<1>4. QED
  BY <1>2, <1>3

LEMMA NextIterationKeeps ==
    ASSUME LoopInv, NextIteration
    PROVE  LoopInv'
<1>1. /\ run.pc = "dispatch" /\ run.queue = <<>> /\ UNCHANGED <<exhausted, installed, published>>
      /\ RunTypes /\ run.history \in Seq(Turn) /\ run.round \in 1..MaxIterations
      /\ run' = IF run.round < MaxIterations THEN [run EXCEPT !.pc = "ask", !.round = @ + 1]
                ELSE [run EXCEPT !.pc = "final"]
  BY DEF LoopInv, RunTypes, NextIteration
<1>2. Paired(run.history)
  BY <1>1, DispatchEnds DEF LoopInv, Told
<1>3. /\ run'.pc \in {"ask", "final"} /\ run'.who = run.who /\ run'.result = run.result
      /\ run'.history = run.history /\ run'.executed = run.executed
      /\ run'.handlers = run.handlers
  <2>1. CASE run.round < MaxIterations
    BY <1>1, <2>1 DEF RunTypes
  <2>2. CASE ~(run.round < MaxIterations)
    BY <1>1, <2>2 DEF RunTypes
  <2>3. QED
    BY <2>1, <2>2
<1>4. RunTypes'
  <2>1. CASE run.round < MaxIterations
    <3>1. run.round + 1 \in 1..MaxIterations
      BY <1>1, <2>1, BoundsAssumption
    <3>2. run' = [run EXCEPT !.pc = "ask", !.round = run.round + 1]
      BY <1>1, <2>1
    <3>3. QED
      BY <1>1, <3>1, <3>2 DEF RunTypes
  <2>2. CASE ~(run.round < MaxIterations)
    <3>1. run' = [run EXCEPT !.pc = "final"]
      BY <1>1, <2>2
    <3>2. QED
      BY <1>1, <3>1 DEF RunTypes
  <2>3. QED
    BY <2>1, <2>2
<1>5. Fresh' /\ Permitted' /\ Streamed'
  BY <1>1, <1>3 DEF LoopInv, Fresh, Unlooped, Permitted, PermittedOnly, Streamed
<1>6. Told'
  BY <1>2, <1>3 DEF Told
<1>7. Recorded'
  BY <1>1, <1>3 DEF LoopInv, Recorded
<1>8. QED
  BY <1>4, <1>5, <1>6, <1>7 DEF LoopInv

\* The requests without a loop: nothing ran, nothing was told.
LEMMA LlmCompleteKeeps ==
    ASSUME LoopInv, LlmComplete
    PROVE  LoopInv'
<1>1. /\ run.history = <<>> /\ UNCHANGED <<exhausted, installed, published>> /\ Paired(run.history)
      /\ run.handlers = <<>> /\ RunTypes
  BY EmptyHistory DEF LoopInv, Fresh, Unlooped, LlmComplete
<1>2. PICK r \in Complete(BoundedSeq(Names, MaxCalls)) :
        run' = [Done(IF r.failed THEN "failed" ELSE "answered") EXCEPT
                  !.stream = [NoStream EXCEPT !.sent = r.calls, !.told = r.calls]]
  BY DEF LlmComplete
<1> DEFINE result == IF r.failed THEN "failed" ELSE "answered"
           calls == r.calls
           stream == [NoStream EXCEPT !.sent = calls, !.told = calls]
<1>3. result # "done" /\ run' = [Done(result) EXCEPT !.stream = stream]
  BY <1>2
<1> HIDE DEF result, calls
<1>4. IsStream(stream)
  <2>1. PICK slots, place, astray :
          NoStream = [sent |-> <<>>, slots |-> slots, told |-> <<>>, place |-> place, astray |-> astray]
    BY DEF NoStream
  <2> DEFINE half == [NoStream EXCEPT !.sent = calls]
  <2>2. half = [sent |-> calls, slots |-> slots, told |-> <<>>, place |-> place, astray |-> astray]
    BY <2>1
  <2>3. stream = [half EXCEPT !.told = calls]
    OBVIOUS
  <2> HIDE DEF half, stream
  <2>4. stream = [sent |-> calls, slots |-> slots, told |-> calls, place |-> place, astray |-> astray]
    BY <2>2, <2>3
  <2>5. QED
    BY <2>4 DEF IsStream
<1> HIDE DEF stream
<1>5. run' = Ended(result, run.handlers, stream)
  BY <1>1, <1>3, DoneStreamEnds
<1>6. run.handlers \in Seq(Tools) /\ \A i \in DOMAIN run.handlers : Allowed(run.handlers[i], run.who)
  BY <1>1
<1>7. QED
  BY <1>1, <1>3, <1>4, <1>5, <1>6, EndKeeps

LEMMA OpenStreamKeeps ==
    ASSUME LoopInv, OpenStream
    PROVE  LoopInv'
<1>1. /\ run.pc = "open" /\ run.history = <<>> /\ run.executed = <<>> /\ run.handlers = <<>>
      /\ UNCHANGED <<exhausted, installed, published>> /\ Paired(run.history) /\ RunTypes /\ run.result = "none"
  BY EmptyHistory DEF LoopInv, Fresh, Unlooped, OpenStream
<1>2. CASE run' = Done("error")
  BY <1>1, <1>2, DoneKeeps
<1>3. CASE run' = [run EXCEPT !.pc = "stream",
                     !.stream = [NoStream EXCEPT !.sent = [i \in 1..MaxCalls |-> NoSlot],
                                                 !.slots = [i \in 1..MaxCalls |-> NoSlot]]]
  <2> DEFINE empty == [i \in 1..MaxCalls |-> NoSlot]
             stream == [NoStream EXCEPT !.sent = empty, !.slots = empty]
  <2>0. run' = [run EXCEPT !.pc = "stream", !.stream = stream]
    BY <1>1, <1>3 DEF RunTypes
  <2> HIDE DEF empty
  <2>1. IsStream(stream) /\ stream.slots = stream.sent
    <3>1. PICK told, place, astray :
            NoStream = [sent |-> <<>>, slots |-> <<>>, told |-> told, place |-> place, astray |-> astray]
      BY DEF NoStream
    <3> DEFINE half == [NoStream EXCEPT !.sent = empty]
    <3>2. half = [sent |-> empty, slots |-> <<>>, told |-> told, place |-> place, astray |-> astray]
      BY <3>1
    <3>3. stream = [half EXCEPT !.slots = empty]
      OBVIOUS
    <3> HIDE DEF half, stream
    <3>4. stream = [sent |-> empty, slots |-> empty, told |-> told, place |-> place, astray |-> astray]
      BY <3>2, <3>3
    <3>5. QED
      BY <3>4 DEF IsStream
  <2> HIDE DEF stream
  <2>2. /\ run'.pc = "stream" /\ run'.who = run.who /\ run'.result = "none"
        /\ run'.history = <<>> /\ run'.executed = <<>> /\ run'.handlers = <<>>
        /\ run'.stream = stream
    BY <1>1, <2>0 DEF RunTypes
  <2>3. RunTypes'
    <3>1. IsStream(run.stream)'
      BY <2>1, <2>2 DEF IsStream
    <3>2. QED
      BY <1>1, <2>0, <3>1 DEF RunTypes
  <2>4. Fresh' /\ Permitted' /\ Streamed' /\ Told'
    BY <1>1, <2>1, <2>2 DEF LoopInv, Fresh, Unlooped, Permitted, PermittedOnly, Streamed, Told
  <2>5. Recorded'
    BY <1>1, <2>2 DEF LoopInv, Recorded
  <2>6. QED
    BY <2>3, <2>4, <2>5 DEF LoopInv
<1>4. QED
  BY <1>2, <1>3 DEF OpenStream

\* A piece that does not go astray goes to the slot of its call.
LEMMA GatherFolds ==
    ASSUME NEW stream, IsStream(stream), NEW k, NEW place, NEW indexed \in BOOLEAN,
           NEW named \in BOOLEAN, NEW more \in BOOLEAN
    PROVE  LET next == Gather(stream, k, place, indexed, named, more)
           IN  /\ IsStream(next)
               /\ ~next.astray =>
                    ~stream.astray /\ (stream.slots = stream.sent => next.slots = next.sent)
<1> DEFINE next == Gather(stream, k, place, indexed, named, more)
           key == Key(k, indexed, place)
           strays == stream.astray \/ (~indexed /\ place # k)
           sent == [stream.sent EXCEPT ![k] = Folded(@, k, named, more)]
           slots == [stream.slots EXCEPT ![key] = Folded(@, k, named, more)]
<1>1. PICK sent0, slots0, told0, place0, astray0 :
        stream = [sent |-> sent0, slots |-> slots0, told |-> told0, place |-> place0, astray |-> astray0]
  BY DEF IsStream
<1>2. next = [stream EXCEPT !.place = place, !.astray = strays, !.sent = sent, !.slots = slots]
  BY <1>1 DEF Gather
<1>3. ~strays => ~stream.astray /\ key = k
  BY DEF Key
<1> HIDE DEF key, next
<1>4. ~strays /\ stream.slots = stream.sent => slots = sent
  <2> HIDE DEF strays
  <2>1. QED
    BY <1>3
<1> HIDE DEF strays, sent, slots
<1>5. next = [sent |-> sent, slots |-> slots, told |-> told0, place |-> place, astray |-> strays]
  BY <1>1, <1>2
<1>6. next.astray = strays /\ next.slots = slots /\ next.sent = sent /\ IsStream(next)
  BY <1>5 DEF IsStream
<1>7. QED
  BY <1>3, <1>4, <1>6 DEF next

LEMMA GatherToolCallsKeeps ==
    ASSUME LoopInv, GatherToolCalls
    PROVE  LoopInv'
<1>1. /\ run.pc = "stream" /\ run.history = <<>> /\ run.executed = <<>> /\ run.handlers = <<>>
      /\ UNCHANGED <<exhausted, installed, published>> /\ RunTypes /\ run.result = "none"
      /\ ~run.stream.astray => run.stream.slots = run.stream.sent
  BY DEF LoopInv, Fresh, Unlooped, Streamed, GatherToolCalls
<1>2. PICK k \in 1..MaxCalls, place \in 1..MaxCalls, indexed \in BOOLEAN, named \in BOOLEAN, more \in BOOLEAN :
        run' = [run EXCEPT !.stream = Gather(@, k, place, indexed, named, more)]
  BY DEF GatherToolCalls
<1> DEFINE next == Gather(run.stream, k, place, indexed, named, more)
<1>3. IsStream(next) /\ (~next.astray =>
        ~run.stream.astray /\ (run.stream.slots = run.stream.sent => next.slots = next.sent))
  BY <1>1, GatherFolds DEF RunTypes
<1>4. run' = [run EXCEPT !.stream = next]
  BY <1>2
<1> HIDE DEF next
<1>5. /\ run'.pc = "stream" /\ run'.who = run.who /\ run'.result = "none"
      /\ run'.history = <<>> /\ run'.executed = <<>> /\ run'.handlers = <<>>
      /\ run'.stream = next
  BY <1>1, <1>4 DEF RunTypes
<1>6. RunTypes'
  <2>1. IsStream(run.stream)'
    BY <1>3, <1>5 DEF IsStream
  <2>2. QED
    BY <1>1, <1>4, <2>1 DEF RunTypes
<1>7. Fresh' /\ Permitted' /\ Streamed' /\ Told'
  BY <1>1, <1>3, <1>5 DEF LoopInv, Fresh, Unlooped, Permitted, PermittedOnly, Streamed, Told
<1>8. Recorded'
  BY <1>1, <1>5 DEF LoopInv, Recorded
<1>9. QED
  BY <1>6, <1>7, <1>8 DEF LoopInv

LEMMA EndStreamKeeps ==
    ASSUME LoopInv, EndStream
    PROVE  LoopInv'
<1>1. /\ run.history = <<>> /\ UNCHANGED <<exhausted, installed, published>> /\ Paired(run.history)
      /\ run.handlers = <<>> /\ RunTypes /\ IsStream(run.stream)
      /\ ~run.stream.astray => run.stream.slots = run.stream.sent
  BY EmptyHistory DEF LoopInv, RunTypes, Fresh, Unlooped, Streamed, EndStream
<1>2. CASE run' = Done("error") \/ run' = Done("left")
  BY <1>1, <1>2, DoneKeeps
<1>3. CASE run' = [Done("done") EXCEPT !.stream.told = Assembled(run.stream.slots)]
  <2> DEFINE told == Assembled(run.stream.slots)
             stream == [Closed EXCEPT !.told = told]
  <2>1. ~run.stream.astray => told = Assembled(run.stream.sent)
    BY <1>1
  <2>2. run' = [Done("done") EXCEPT !.stream.told = told]
    BY <1>3
  <2> HIDE DEF told
  <2>3. run' = Ended("done", run.handlers, stream)
    BY <1>1, <2>2, DoneToldEnds
  <2>4. /\ IsStream(stream) /\ stream.told = told /\ stream.sent = run.stream.sent
        /\ stream.astray = run.stream.astray
    BY <1>1, ClosedIsStream
  <2> HIDE DEF stream
  <2>5. run.handlers \in Seq(Tools) /\ \A i \in DOMAIN run.handlers : Allowed(run.handlers[i], run.who)
    BY <1>1
  <2>6. QED
    BY <1>1, <2>1, <2>3, <2>4, <2>5, EndKeeps
<1>4. QED
  BY <1>2, <1>3 DEF EndStream

\* The last completion of a loop, the one of a request without tools, and what
\* happens outside.
LEMMA OthersKeep ==
    ASSUME LoopInv, FinalAnswer \/ CodegenComplete \/ Outside \/ UNCHANGED vars
    PROVE  LoopInv'
<1>1. CASE FinalAnswer
  <2>1. Paired(run.history) /\ UNCHANGED <<exhausted, installed, published>>
    BY <1>1 DEF LoopInv, Told, FinalAnswer
  <2>2. run' = Done("failed") \/ run' = Done("truncated")
    BY <1>1, Zenon DEF FinalAnswer
  <2>3. QED
    BY <2>1, <2>2, DoneKeeps
<1>2. CASE CodegenComplete
  <2>1. Paired(run.history) /\ UNCHANGED <<exhausted, installed, published>>
    BY <1>2, EmptyHistory DEF LoopInv, Fresh, Unlooped, CodegenComplete
  <2>2. run' = Done("failed") \/ run' = Done("answered")
    BY <1>2 DEF CodegenComplete
  <2>3. QED
    BY <2>1, <2>2, DoneKeeps
<1>3. CASE Outside \/ UNCHANGED vars
  <2>1. run' = run /\ exhausted' \in BOOLEAN /\ installed' \in BOOLEAN /\ published' \in BOOLEAN
    BY <1>3 DEF LoopInv, RunTypes, Outside, vars
  <2>2. RunTypes'
    BY <2>1 DEF LoopInv, RunTypes
  <2>3. Fresh' /\ Permitted' /\ Streamed' /\ Told' /\ Recorded'
    BY <2>1 DEF LoopInv, Fresh, Unlooped, Permitted, PermittedOnly, Streamed, Told, Recorded
  <2>4. QED
    BY <2>2, <2>3 DEF LoopInv
<1>4. QED
  BY <1>1, <1>2, <1>3

-----------------------------------------------------------------------------
(* The theorems *)

LEMMA LoopInit == Init => LoopInv
<1> SUFFICES ASSUME Init PROVE LoopInv
  OBVIOUS
<1>1. PICK c \in Callers : run = Start("done", c, {})
  BY DEF Init
<1>2. /\ <<>> \in Seq(Turn) /\ <<>> \in Seq(Record) /\ <<>> \in Seq(Tools) /\ <<>> \in Seq(Names)
      /\ 1 \in 1..MaxIterations /\ DOMAIN <<>> = {} /\ Len(<<>>) = 0
  BY BoundsAssumption
<1>3. c \in [internal : BOOLEAN, perms : SUBSET {"shielva:internal", "other"}]
  BY CallerTyped
<1>4. /\ run.pc = "done" /\ run.result = "none" /\ run.who = c /\ run.history = <<>>
      /\ run.executed = <<>> /\ run.handlers = <<>> /\ run.offered = {}
  BY <1>1 DEF Start
<1>5. RunTypes
  <2>1. IsStream(NoStream)
    BY DEF IsStream, NoStream
  <2>2. IsStream(run.stream)
    BY <1>1, <2>1 DEF Start
  <2>3. QED
    BY <1>1, <1>2, <1>3, <2>2 DEF RunTypes, Start, Init
<1>6. Fresh /\ Permitted /\ Streamed
  BY <1>2, <1>4 DEF Fresh, Unlooped, Permitted, PermittedOnly, Streamed
<1>7. Told
  BY <1>4, EmptyHistory DEF Told
<1>8. Recorded
  <2>1. ToolTurns(<<>>, Len(<<>>)) = {} /\ Cardinality({}) = 0
    BY <1>2, EmptyHistory, FS_EmptySet
  <2>2. QED
    BY <1>2, <1>4, <2>1 DEF Recorded
<1>9. QED
  BY <1>5, <1>6, <1>7, <1>8 DEF LoopInv

\* However the model answers, the tools fare, tokens run out and the connector
\* comes and goes, requests keep to the invariant.
THEOREM LoopInvariant == Spec => []LoopInv
<1>1. LoopInv /\ [Next]_vars => LoopInv'
  <2> SUFFICES ASSUME LoopInv, [Next]_vars PROVE LoopInv'
    OBVIOUS
  <2>1. CASE Begin
    <3>1. UNCHANGED <<exhausted, installed, published>>
      BY <2>1 DEF Begin
    <3>2. QED
      BY <2>1, <3>1, BeginCases, StartKeeps
  <2>2. QED
    BY <2>1, CallToolKeeps, BotToolKeeps, CallProviderKeeps, DispatchKeeps, NextIterationKeeps,
       LlmCompleteKeeps, OpenStreamKeeps, GatherToolCallsKeeps, EndStreamKeeps, OthersKeep DEF Next
<1>2. QED
  BY <1>1, LoopInit, PTL DEF Spec

\* Rounds stay within the cap, for any cap; only registered tools have handlers.
THEOREM LoopTypeCorrect == Spec => []TypeOK
<1>1. ASSUME LoopInv
      PROVE  TypeOK
  <2>1. RunTypes
    BY <1>1 DEF LoopInv
  <2>2. \A i \in DOMAIN run.handlers : run.handlers[i] \in Tools
    BY <2>1 DEF RunTypes
  <2>3. QED
    BY <2>1, <2>2 DEF RunTypes, TypeOK
<1>2. QED
  BY <1>1, LoopInvariant, PTL

\* Whatever names the model and the clients come up with, offered or not: in the
\* loop, in tools/call and in a bot's turn a handler only ever runs for a caller
\* that is permitted its tool.
THEOREM OnlyPermittedRun == Spec => []PermittedOnly
<1>1. LoopInv => PermittedOnly
  BY DEF LoopInv, Permitted
<1>2. QED
  BY <1>1, LoopInvariant, PTL

\* For any number of calls, answers and rounds: every call has its tool turn, in
\* order, before the provider is asked again, the records name the tool turns, and
\* nothing runs without one.
THEOREM EveryCallAnswered == Spec => []CallsAnswered
<1>1. ASSUME LoopInv
      PROVE  CallsAnswered
  <2>1. run.pc \in {"ask", "final", "done"} => Paired(run.history)
    BY <1>1 DEF LoopInv, Told
  <2>2. /\ Len(run.executed) = Cardinality(ToolTurns(run.history, Len(run.history)))
        /\ \A i \in ToolTurns(run.history, Len(run.history)) :
             run.executed[Cardinality(ToolTurns(run.history, i))].name = run.history[i].name
        /\ run.history # <<>> => \A t \in Tools : Times(t, run.handlers) <= Times(t, NamesOf(run.executed))
    BY <1>1 DEF LoopInv, Recorded
  <2>3. QED
    BY <2>1, <2>2, Zenon DEF CallsAnswered
<1>2. QED
  BY <1>1, LoopInvariant, PTL

\* For any number of calls and pieces, in any order: as long as every fragment has
\* its index or comes at its call's place, a stream that ends well tells the calls
\* it was sent, whole and in order.
THEOREM StreamsTellWholeCalls == Spec => []IndexedCallsComeWhole
<1>1. LoopInv => IndexedCallsComeWhole
  BY DEF LoopInv, Streamed, IndexedCallsComeWhole
<1>2. QED
  BY <1>1, LoopInvariant, PTL
=============================================================================
