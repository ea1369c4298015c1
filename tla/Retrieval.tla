----------------------------- MODULE Retrieval -----------------------------
(***************************************************************************)
(* What the model is told of the bot's knowledge and of the conversation:  *)
(* ContextAssembler, the HybridRetriever behind it (and behind the         *)
(* rag_query tool) and the PgVectorStore they search, while documents come *)
(* and go.                                                                 *)
(*                                                                         *)
(* The search of every knowledge base runs in a thread of its own, twice:  *)
(* by vector, in two queries, and by keyword.  Which documents match, and  *)
(* how well, is the store's and the embedding model's business: any        *)
(* answer.  The knowledge bases are the ones BotRegistry resolved, all of  *)
(* one workspace.  No query cache and no reranker is wired, and the        *)
(* assembler never reaches the knowledge-base router: the registry hands   *)
(* it ids, and the router needs descriptions.                              *)
(***************************************************************************)
EXTENDS Integers, FiniteSets, Sequences, SequencesExt

CONSTANTS
    KbIds,          \* the bot's knowledge bases, in order
    Docs,           \* ids of chunks
    Content,        \* chunk -> its text, white space and case aside
    Size,           \* chunk -> the length of its text
    Stored,         \* what the bases may hold when the turn starts: base -> chunks
    TopK, MaxChunkChars, MaxKnowledgeChars,
    MaxHistoryBackstop,  \* of the conversation's messages, the newest this many
    Contexts,            \* conversations a caller may send
    Unit,           \* scores are counted in fractions of this
    MaxMatch, MaxEdits   \* bounds of a run: levels of ts_rank, changes of the store

ASSUME SizesAssumption ==
    /\ TopK \in Nat \ {0} /\ MaxChunkChars \in Nat \ {0} /\ MaxKnowledgeChars \in Nat \ {0}
    /\ MaxMatch \in Nat \ {0} /\ MaxEdits \in Nat
    /\ Size \in [Docs -> Nat]
    /\ MaxHistoryBackstop \in Nat \ {0}
    /\ \A held \in Stored, i \in DOMAIN KbIds : held[KbIds[i]] \subseteq Docs
ASSUME ListsAssumption ==
    /\ KbIds \in Seq({KbIds[i] : i \in DOMAIN KbIds})
    /\ Contexts \subseteq [summary : BOOLEAN, messages : Seq([role : STRING, says : STRING])]
\* The weight of every position is a whole number of units.
ASSUME UnitAssumption == Unit \in Nat /\ \A i \in 1..(2 * TopK) : Unit % (60 + i) = 0

VARIABLES
    store,      \* knowledge base -> the chunks in its collection
    turn,       \* the retrieval under way
    edits

vars == <<store, turn, edits>>

KBs == {KbIds[i] : i \in DOMAIN KbIds}
Limit == 2 * TopK    \* "get more for fusion"

(***************************************************************************)
(* Lists.  Before is a set of pairs, one for any two members of I.         *)
(***************************************************************************)
Ranked(I, Before) ==
    [k \in 1..Cardinality(I) |-> CHOOSE i \in I : Cardinality({j \in I : <<j, i>> \in Before}) = k - 1]
Arranged(s, I, Before) == LET order == Ranked(I, Before) IN [k \in 1..Cardinality(I) |-> s[order[k]]]
Ascending(I) == {p \in I \X I : p[1] < p[2]}
\* What is left of s when the places outside I are dropped.
Kept(s, I) == Arranged(s, I, Ascending(I))
\* Where something occurs for the first time.
Firsts(s) == {i \in DOMAIN s : \A j \in 1..(i - 1) : s[j] # s[i]}
Total(s) ==
    LET upTo[n \in 0..Len(s)] == IF n = 0 THEN 0 ELSE upTo[n - 1] + s[n]
    IN upTo[Len(s)]

(***************************************************************************)
(* Ranking.  A hit is a chunk and its score.                               *)
(***************************************************************************)
Hit(d, score) == [doc |-> d, score |-> score]
DocsOf(hits) == {hits[i].doc : i \in DOMAIN hits}

\* sorted(..., reverse=True): best first, and stable.
Better(hits) ==
    {p \in (DOMAIN hits) \X (DOMAIN hits) :
        \/ hits[p[1]].score > hits[p[2]].score
        \/ hits[p[1]].score = hits[p[2]].score /\ p[1] < p[2]}
BestFirst(hits) == Arranged(hits, DOMAIN hits, Better(hits))
Top(n, s) == SubSeq(s, 1, IF n < Len(s) THEN n ELSE Len(s))

\* search and keyword_search: the hits of every base in order, the best of all.
Gather(perKb) == Top(Limit, BestFirst(FlattenSeq([i \in DOMAIN KbIds |-> perKb[KbIds[i]]])))

\* _reciprocal_rank_fusion, with the score weight / (60 + position).
Share(hits, weight, d) ==
    Total([i \in DOMAIN hits |-> IF hits[i].doc = d THEN weight * (Unit \div (60 + i)) ELSE 0])
ScoreMutant(v, k, d) == IF d \in DocsOf(k) THEN Share(k, 3, d) ELSE Share(v, 7, d)
Score(v, k, d) == Share(v, 7, d) + Share(k, 3, d)
Scored(v, k) ==
    LET found == [i \in DOMAIN (v \o k) |-> (v \o k)[i].doc]
        seen == Kept(found, Firsts(found))
    IN [i \in DOMAIN seen |-> Hit(seen[i], Score(v, k, seen[i]))]
FuseMutant(v, k) == BestFirst(Scored(v, k))
Fuse(v, k) == Top(TopK, BestFirst(Scored(v, k)))

\* The first of the hits with the same text stays.
Deduplicate(hits) == Kept(hits, Firsts([i \in DOMAIN hits |-> Content[hits[i].doc]]))
Retrieve(v, k) == Deduplicate(Fuse(v, k))

\* _retrieve_knowledge: what scores less than 30 % of the best is dropped.
Relevant(hits) == Kept(hits, {i \in DOMAIN hits : 10 * hits[i].score >= 3 * hits[1].score})

\* _format_knowledge_context: chunks are cut, and added until the budget is used.
CutTo(d) == IF Size[d] <= MaxChunkChars THEN Size[d] ELSE MaxChunkChars + 1
Chars(hits) == Total([i \in DOMAIN hits |-> CutTo(hits[i].doc)])
Format(hits) ==
    LET best == BestFirst(hits)
    IN Kept(best, {i \in DOMAIN best : \A j \in 1..i : Chars(SubSeq(best, 1, j - 1)) < MaxKnowledgeChars})

(***************************************************************************)
(* The conversation: the caller's summary of what is older, and its turns, *)
(* of which tool turns, empty ones and those that do not parse are left    *)
(* out.  The question goes last.                                           *)
(***************************************************************************)
MemoryRoles == {"user", "assistant", "system"}
Message(role, says) == [role |-> role, says |-> says]
Remembered(context) ==
    Kept(context.messages, {i \in DOMAIN context.messages :
        context.messages[i].role \in MemoryRoles /\ context.messages[i].says # ""})
Conversation(context) ==
    (IF context.summary THEN <<Message("system", "summary")>> ELSE <<>>) \o Remembered(context)
Newest(n, s) == SubSeq(s, IF n < Len(s) THEN Len(s) - n + 1 ELSE 1, Len(s))
BuildMessages(context) ==
    <<Message("system", "knowledge")>> \o Newest(MaxHistoryBackstop, Conversation(context))
        \o <<Message("user", "query")>>

(***************************************************************************)
(* A retrieval: per base, where its two searches stand.  `failed` is        *)
(* history: something failed.                                              *)
(***************************************************************************)
Pending == [state |-> "pending", hits |-> <<>>]
Answer(hits) == [state |-> "done", hits |-> hits]
Broken == [state |-> "failed", hits |-> <<>>]
Hits(legs) == Gather([kb \in KBs |-> legs[kb].hits])

Start(context) ==
    [pc |-> "embed", context |-> context, told |-> "", chunks |-> <<>>, messages |-> <<>>, failed |-> FALSE,
     vector |-> [kb \in KBs |-> Pending], keyword |-> [kb \in KBs |-> Pending]]
Legs == {turn.vector[kb] : kb \in KBs} \cup {turn.keyword[kb] : kb \in KBs}

Init ==
    /\ store \in {[kb \in KBs |-> held[kb]] : held \in Stored}
    /\ turn \in {Start(context) : context \in Contexts}
    /\ edits = 0

\* A provider that fails is answered for with random vectors, which search like
\* any other; only one that is not installed raises.
Embedded == {"vector", "random", "raised"}
Embed ==
    /\ turn.pc = "embed"
    /\ \E outcome \in Embedded :
         turn' = IF outcome = "raised" THEN [turn EXCEPT !.pc = "raised", !.failed = TRUE]
                 ELSE [turn EXCEPT !.pc = "search"]
    /\ UNCHANGED <<store, edits>>

\* _search_one: the query ranks ids, the fetch gets what is still there of them.
\* A collection that does not exist is an empty one.
Orders(S) == {s \in BoundedSeq(S, Limit) : IsInjective(s)}
Query(kb) ==
    /\ turn.pc = "search" /\ turn.vector[kb].state = "pending"
    /\ \E found \in {s \in Orders(store[kb]) : Len(s) = Cardinality(store[kb]) \/ Len(s) = Limit} :
         turn' = [turn EXCEPT !.vector[kb] =
                    [state |-> "found", hits |-> [i \in DOMAIN found |-> Hit(found[i], Limit - i)]]]
    /\ UNCHANGED <<store, edits>>
Fetch(kb) ==
    /\ turn.pc = "search" /\ turn.vector[kb].state = "found"
    /\ turn' = [turn EXCEPT !.vector[kb] = Answer(Kept(@.hits, {i \in DOMAIN @.hits : @.hits[i].doc \in store[kb]}))]
    /\ UNCHANGED <<store, edits>>

\* _kw_one: the chunks that match, by ts_rank.
Match(kb) ==
    /\ turn.pc = "search" /\ turn.keyword[kb].state = "pending"
    /\ \E found \in Orders(store[kb]) : \E rank \in [DOMAIN found -> 1..MaxMatch] :
         /\ \A i \in DOMAIN found : i > 1 => rank[i] <= rank[i - 1]
         /\ turn' = [turn EXCEPT !.keyword[kb] = Answer([i \in DOMAIN found |-> Hit(found[i], rank[i])])]
    /\ UNCHANGED <<store, edits>>

\* The connection dies under one of the searches.
SearchFails(kb) ==
    /\ turn.pc = "search" /\ turn.vector[kb].state \in {"pending", "found"}
    /\ turn' = [turn EXCEPT !.vector[kb] = Broken, !.failed = TRUE]
    /\ UNCHANGED <<store, edits>>
MatchFailsMutant(kb) ==
    /\ turn.pc = "search" /\ turn.keyword[kb].state = "pending"
    /\ turn' = [turn EXCEPT !.keyword[kb] = Answer(<<>>), !.failed = TRUE]
    /\ UNCHANGED <<store, edits>>
MatchFails(kb) ==
    /\ turn.pc = "search" /\ turn.keyword[kb].state = "pending"
    /\ turn' = [turn EXCEPT !.keyword[kb] = Broken, !.failed = TRUE]
    /\ UNCHANGED <<store, edits>>

Say(told, messages, chunks) ==
    turn' = [turn EXCEPT !.pc = "told", !.told = told, !.messages = messages, !.chunks = chunks]

\* asyncio.gather raises with the first search that failed: the assembler tells
\* the model so, and the tool reports an error.
TellUnavailable ==
    /\ turn.pc = "raised" \/ (turn.pc = "search" /\ Broken \in Legs)
    /\ \E messages \in {BuildMessages(turn.context), <<>>} : Say("unavailable", messages, <<>>)
    /\ UNCHANGED <<store, edits>>

\* All searches are back: the assembler formats what is relevant and puts it
\* before the conversation, the tool answers with everything.
Tell(messages, hits) == Say(IF hits = <<>> THEN "nothing" ELSE "chunks", messages, hits)
TellKnowledge ==
    /\ turn.pc = "search" /\ \A leg \in Legs : leg.state = "done"
    /\ LET hits == Retrieve(Hits(turn.vector), Hits(turn.keyword)) IN
       \/ Tell(BuildMessages(turn.context), Format(Relevant(hits)))
       \/ Tell(<<>>, hits)
    /\ UNCHANGED <<store, edits>>

\* The ingestion worker adds a chunk or deletes one.
Ingest ==
    /\ edits < MaxEdits /\ turn.pc # "told"
    /\ edits' = edits + 1
    /\ \E kb \in KBs, d \in Docs :
         store' = [store EXCEPT ![kb] = IF d \in @ THEN @ \ {d} ELSE @ \cup {d}]
    /\ UNCHANGED turn

Next ==
    \/ Embed \/ TellUnavailable \/ TellKnowledge \/ Ingest
    \/ \E kb \in KBs : Query(kb) \/ Fetch(kb) \/ Match(kb) \/ SearchFails(kb) \/ MatchFails(kb)

Spec == Init /\ [][Next]_vars

(***************************************************************************)
(* Properties.                                                             *)
(***************************************************************************)
TypeOK ==
    /\ store \in [KBs -> SUBSET Docs]
    /\ turn.pc \in {"embed", "raised", "search", "told"}
    /\ turn.told \in {"", "unavailable", "nothing", "chunks"}
    /\ DocsOf(turn.chunks) \subseteq Docs /\ Len(turn.chunks) <= TopK
    /\ edits \in 0..MaxEdits

End(n, s) == SubSeq(s, Len(s) - n + 1, Len(s))
NewestTurns ==
    LET turns == Remembered(turn.context)
        n == IF Len(turns) < MaxHistoryBackstop THEN Len(turns) ELSE MaxHistoryBackstop
    IN /\ End(n + 1, turn.messages) = Append(End(n, turns), Message("user", "query"))
       /\ turn.context.summary /\ Len(turns) < MaxHistoryBackstop =>
            turn.messages[2] = Message("system", "summary")

\* "No relevant knowledge" after a failed search let the model supply a price of
\* its own (assembler.py:297): it is only said when both searches of every base
\* came back, and came back empty, whichever of them fails and whatever the
\* others found; and knowledge that was read is never called unavailable.  With
\* it go the newest turns of the conversation, in order, and the question; the
\* backstop takes the summary only from a conversation that fills it by itself.
SaysWhatItKnows ==
    /\ turn.told \in {"nothing", "chunks"} => ~turn.failed
    /\ turn.told = "nothing" => \A leg \in Legs : leg.hits = <<>>
    /\ turn.told = "unavailable" => turn.failed
    /\ turn.messages # <<>> => NewestTurns

Position(hits, d) == IF d \in DocsOf(hits) THEN CHOOSE i \in DOMAIN hits : hits[i].doc = d ELSE Limit + 1
Once(hits, d) == \A i, j \in DOMAIN hits : hits[i].doc = d /\ hits[j].doc = d => i = j
\* Both searches rank d higher than e, which neither of them found twice.
Above(v, k, d, e) ==
    /\ Position(v, d) <= Position(v, e) /\ Position(k, d) <= Position(k, e)
    /\ Once(v, e) /\ Once(k, e) /\ d # e

\* A chunk is never told while one that both searches rank higher is passed
\* over, unless another chunk told its text: fusion, the cut, the removal of copies, the 30 % rule and the
\* budget work on the same order (hybrid_retriever.py:226, assembler.py:470).
\* What is told is told best first, and no text twice.
BestTold ==
    turn.told = "chunks" =>
        LET v == Hits(turn.vector)
            k == Hits(turn.keyword)
            told == DocsOf(turn.chunks)
        IN /\ \A d \in DocsOf(v) \cup DocsOf(k), e \in told :
                Above(v, k, d, e) => Content[d] \in {Content[x] : x \in told}
           /\ \A i, j \in DOMAIN turn.chunks : i < j =>
                /\ turn.chunks[i].score >= turn.chunks[j].score
                /\ Content[turn.chunks[i].doc] # Content[turn.chunks[j].doc]

=============================================================================
