------------------------- MODULE StudioToolsProofs --------------------------
(***************************************************************************)
(* Proofs about the tools that write what the designer edits: FlowEdit,    *)
(* for any callers, node ids, drafts and edits, and BotConfig, for any     *)
(* callers, argument lists and bounds.                                     *)
(***************************************************************************)
EXTENDS FlowEdit, BotConfig, FiniteSetTheorems, SequenceTheorems, TLAPS

-----------------------------------------------------------------------------
(***************************************************************************)
(* FlowEdit.  What keeps the adds from spoiling the stored graph is a fact *)
(* about the calls in flight: whatever was stored meanwhile, the copy an   *)
(* add is going to POST was accepted against the copy itself, and is no    *)
(* worse than a graph that was stored.                                     *)
(***************************************************************************)

(* The inductive invariant *)

\* The copy a call holds has no flaw that no save brought, and what the call is
\* about to add to it passed the checks against it.
AddSound(x) ==
  /\ Flaws(x.read) \subseteq brought
  /\ x.pc = "post" => /\ x.node \in Node /\ x.node.id \notin Ids(x.read.nodes)
                      /\ x.from \in Ids(x.read.nodes) \cup {x.node.id, None}

AddsSound == \A c \in Caller : AddSound(adding[c])

FlowInv == FlowTypeOK /\ AddsBringNoFlaw /\ AddsSound

-----------------------------------------------------------------------------
(* Graphs *)

LEMMA EmptyHasNoFlaw == Empty \in Graph /\ Flaws(Empty) = {}
  BY DEF Empty, Graph, Flaws, Twice, Loose

LEMMA FlawsTyped ==
  ASSUME NEW g \in Graph
  PROVE  Flaws(g) \subseteq NodeId \cup Edge
  BY DEF Graph, Flaws, Twice, Loose

\* One node longer: the ids.
LEMMA AppendNode ==
  ASSUME NEW s \in Seq(Node), NEW n \in Node
  PROVE  /\ Append(s, n) \in Seq(Node)
         /\ Ids(Append(s, n)) = Ids(s) \cup {n.id}
         /\ DOMAIN Append(s, n) = DOMAIN s \cup {Len(s) + 1}
         /\ \A i \in DOMAIN s : Append(s, n)[i] = s[i]
         /\ Append(s, n)[Len(s) + 1] = n
<1>1. Append(s, n) \in Seq(Node) /\ Len(Append(s, n)) = Len(s) + 1 /\ Len(s) \in Nat
  OBVIOUS
<1>2. \A i \in 1 .. Len(s) : Append(s, n)[i] = s[i]
  OBVIOUS
<1>3. Append(s, n)[Len(s) + 1] = n
  OBVIOUS
<1>4. DOMAIN s = 1 .. Len(s) /\ DOMAIN Append(s, n) = DOMAIN s \cup {Len(s) + 1}
  BY <1>1
<1>5. Ids(Append(s, n)) = Ids(s) \cup {n.id}
  BY <1>2, <1>3, <1>4 DEF Ids
<1>6. QED
  BY <1>1, <1>2, <1>3, <1>4, <1>5

\* A node with a new id, and edges that do not dangle, add no flaw.
LEMMA AppendBringsNoFlaw ==
  ASSUME NEW g \in Graph, NEW n \in Node, n.id \notin Ids(g.nodes), NEW new \in SUBSET Edge,
         \A e \in new : {e.source, e.target} \subseteq Ids(g.nodes) \cup {n.id},
         NEW h, h.nodes = Append(g.nodes, n), h.edges = g.edges \cup new
  PROVE  Flaws(h) \subseteq Flaws(g)
<1>1. g.nodes \in Seq(Node)
  BY DEF Graph
<1>2. /\ Ids(h.nodes) = Ids(g.nodes) \cup {n.id}
      /\ DOMAIN h.nodes = DOMAIN g.nodes \cup {Len(g.nodes) + 1}
      /\ \A i \in DOMAIN g.nodes : h.nodes[i] = g.nodes[i]
      /\ h.nodes[Len(g.nodes) + 1] = n
  BY <1>1, AppendNode
<1>3. Loose(h) \subseteq Loose(g)
  BY <1>2 DEF Loose
<1>4. Twice(h) \subseteq Twice(g)
  <2>1. \A i \in DOMAIN g.nodes : g.nodes[i].id # n.id
    BY DEF Ids
  <2>2. QED
    BY <1>2, <2>1 DEF Twice
<1>5. QED
  BY <1>3, <1>4 DEF Flaws

\* What shielva_add_flow_node POSTs is no worse than what it read.
LEMMA ExtendedBringsNoFlaw ==
  ASSUME NEW x \in FlowCall, x.pc = "post", AddSound(x)
  PROVE  Extended(x) \in Graph /\ Flaws(Extended(x)) \subseteq Flaws(x.read)
<1> DEFINE new == IF x.from = None THEN {} ELSE {[source |-> x.from, target |-> x.node.id]}
<1>1. /\ x.read \in Graph /\ x.read.nodes \in Seq(Node) /\ x.read.edges \in SUBSET Edge
      /\ x.node \in Node /\ x.node.id \in NodeId /\ x.from \in NodeId \cup {None}
  BY DEF FlowCall, AddSound, Graph, Node
<1>2. Extended(x).nodes = Append(x.read.nodes, x.node) /\ Extended(x).edges = x.read.edges \cup new
  BY DEF Extended
<1>3. new \in SUBSET Edge
  BY <1>1 DEF Edge
<1>4. \A e \in new : {e.source, e.target} \subseteq Ids(x.read.nodes) \cup {x.node.id}
  BY DEF AddSound
<1>5. Extended(x) \in Graph
  BY <1>1, <1>3, AppendNode DEF Extended, Graph
<1>6. x.node.id \notin Ids(x.read.nodes)
  BY DEF AddSound
<1> HIDE DEF new
<1>7. Flaws(Extended(x)) \subseteq Flaws(x.read)
  BY <1>1, <1>2, <1>3, <1>4, <1>6, AppendBringsNoFlaw
<1>8. QED
  BY <1>5, <1>7

\* One node fewer: where each of the others was.
LEMMA RemoveNode ==
  ASSUME NEW s \in Seq(Node), NEW i \in DOMAIN s
  PROVE  LET old(k) == IF k < i THEN k ELSE k + 1 IN
         /\ RemoveAt(s, i) \in Seq(Node)
         /\ \A k \in DOMAIN RemoveAt(s, i) : old(k) \in DOMAIN s \ {i} /\ RemoveAt(s, i)[k] = s[old(k)]
         /\ \A j \in DOMAIN s \ {i} : \E k \in DOMAIN RemoveAt(s, i) : old(k) = j
         /\ \A j, k \in DOMAIN RemoveAt(s, i) : old(j) = old(k) => j = k
<1> DEFINE r == RemoveAt(s, i)
           old(k) == IF k < i THEN k ELSE k + 1
<1>1. i \in 1 .. Len(s) /\ Len(s) \in Nat /\ DOMAIN s = 1 .. Len(s)
  OBVIOUS
<1>2. /\ r \in Seq(Node) /\ Len(r) = Len(s) - 1
      /\ \A k \in 1 .. Len(s) - 1 : r[k] = s[old(k)]
  <2> DEFINE a == SubSeq(s, 1, i - 1)
             b == SubSeq(s, i + 1, Len(s))
  <2>1. a \in Seq(Node) /\ Len(a) = i - 1 /\ \A k \in 1 .. i - 1 : a[k] = s[k]
    BY <1>1
  <2>2. b \in Seq(Node) /\ Len(b) = Len(s) - i /\ \A k \in 1 .. Len(s) - i : b[k] = s[i + k]
    BY <1>1
  <2>3. r = a \o b
    BY DEF RemoveAt
  <2> HIDE DEF a, b, r
  <2>4. /\ r \in Seq(Node) /\ Len(r) = Len(a) + Len(b)
        /\ \A k \in 1 .. Len(a) + Len(b) : r[k] = IF k <= Len(a) THEN a[k] ELSE b[k - Len(a)]
    BY <2>1, <2>2, <2>3, ConcatProperties
  <2>6. ASSUME NEW k \in 1 .. Len(s) - 1
        PROVE  r[k] = s[old(k)]
    <3>1. CASE k < i
      BY <1>1, <2>1, <2>2, <2>4, <3>1
    <3>2. CASE ~(k < i)
      <4>1. k - (i - 1) \in 1 .. Len(s) - i /\ i + (k - (i - 1)) = k + 1
        BY <1>1, <3>2
      <4>2. r[k] = b[k - (i - 1)]
        BY <1>1, <2>1, <2>2, <2>4, <3>2
      <4>3. QED
        BY <2>2, <3>2, <4>1, <4>2
    <3>3. QED
      BY <3>1, <3>2
  <2>7. Len(r) = Len(s) - 1
    BY <1>1, <2>1, <2>2, <2>4
  <2>8. QED
    BY <2>4, <2>6, <2>7
<1>3. DOMAIN r = 1 .. Len(s) - 1
  BY <1>2
<1> HIDE DEF r
<1>4. \A k \in DOMAIN r : old(k) \in DOMAIN s \ {i} /\ r[k] = s[old(k)]
  BY <1>1, <1>2, <1>3
<1>5. \A j \in DOMAIN s \ {i} : \E k \in DOMAIN r : old(k) = j
  <2>1. TAKE j \in DOMAIN s \ {i}
  <2>2. CASE j < i
    BY <1>1, <1>3, <2>2
  <2>3. CASE j > i
    <3>1. j - 1 \in DOMAIN r /\ old(j - 1) = j
      BY <1>1, <1>3, <2>3
    <3>2. QED
      BY <3>1
  <2>4. QED
    BY <1>1, <2>2, <2>3
<1>6. \A j, k \in DOMAIN r : old(j) = old(k) => j = k
  BY <1>1, <1>3
<1>7. QED
  BY <1>2, <1>4, <1>5, <1>6 DEF r

\* An id that is gone takes its edges with it.
LEMMA RemoveBringsNoFlaw ==
  ASSUME NEW g \in Graph, NEW i \in DOMAIN g.nodes, NEW h,
         h.nodes = RemoveAt(g.nodes, i),
         h.edges = {e \in g.edges : g.nodes[i].id \notin {e.source, e.target}}
  PROVE  Flaws(h) \subseteq Flaws(g)
<1> DEFINE old(k) == IF k < i THEN k ELSE k + 1
<1>1. /\ \A k \in DOMAIN h.nodes : old(k) \in DOMAIN g.nodes \ {i} /\ h.nodes[k] = g.nodes[old(k)]
      /\ \A j \in DOMAIN g.nodes \ {i} : \E k \in DOMAIN h.nodes : old(k) = j
      /\ \A j, k \in DOMAIN h.nodes : old(j) = old(k) => j = k
  BY RemoveNode DEF Graph
<1> HIDE DEF old
<1>2. Ids(g.nodes) \ {g.nodes[i].id} \subseteq Ids(h.nodes)
  BY <1>1 DEF Ids
<1>3. Loose(h) \subseteq Loose(g)
  BY <1>2 DEF Loose
<1>4. Twice(h) \subseteq Twice(g)
  BY <1>1 DEF Twice
<1>5. QED
  BY <1>3, <1>4 DEF Flaws

\* A node that is moved keeps its id.
LEMMA MoveBringsNoFlaw ==
  ASSUME NEW g \in Graph, NEW i \in DOMAIN g.nodes, NEW place \in Place, NEW h,
         h.nodes = [g.nodes EXCEPT ![i].place = place], h.edges = g.edges
  PROVE  h.nodes \in Seq(Node) /\ Flaws(h) \subseteq Flaws(g)
<1>1. g.nodes \in Seq(Node) /\ g.nodes[i] \in Node
  BY DEF Graph
<1> DEFINE moved == [g.nodes[i] EXCEPT !.place = place]
<1>2. moved \in Node /\ moved.id = g.nodes[i].id
  BY <1>1 DEF Node
<1>3. h.nodes = [g.nodes EXCEPT ![i] = moved]
  OBVIOUS
<1> HIDE DEF moved
<1>4. h.nodes \in Seq(Node) /\ DOMAIN h.nodes = DOMAIN g.nodes
  BY <1>1, <1>2, <1>3
<1>5. \A j \in DOMAIN g.nodes : h.nodes[j].id = g.nodes[j].id
  BY <1>1, <1>2, <1>3
<1>6. Ids(h.nodes) = Ids(g.nodes)
  BY <1>4, <1>5 DEF Ids
<1>7. Twice(h) = Twice(g) /\ Loose(h) = Loose(g)
  BY <1>4, <1>5, <1>6 DEF Twice, Loose
<1>8. QED
  BY <1>4, <1>7 DEF Flaws

-----------------------------------------------------------------------------
(* The invariant *)

LEMMA FlowInvInit == FlowInit => FlowInv
<1> SUFFICES ASSUME FlowInit PROVE FlowInv
  OBVIOUS
<1>1. AtRest \in FlowCall /\ AddSound(AtRest)
  BY EmptyHasNoFlaw DEF AtRest, FlowCall, AddSound
<1>2. FlowTypeOK
  BY <1>1, EmptyHasNoFlaw, RedrawsAssumption DEF FlowInit, FlowTypeOK
<1>3. QED
  BY <1>1, <1>2, EmptyHasNoFlaw DEF FlowInit, FlowInv, AddsBringNoFlaw, AddsSound

\* A call that ends leaves nothing to check.
LEMMA EndOfCall ==
  ASSUME FlowTypeOK, AddsSound, NEW c \in Caller, adding' = [adding EXCEPT ![c] = AtRest],
         brought' = brought
  PROVE  adding' \in [Caller -> FlowCall] /\ AddsSound'
<1>1. AtRest \in FlowCall /\ Flaws(AtRest.read) = {} /\ AtRest.pc # "post"
  BY EmptyHasNoFlaw DEF AtRest, FlowCall
<1>2. QED
  BY <1>1 DEF FlowTypeOK, AddsSound, AddSound

LEMMA SaveFlowKeeps ==
  ASSUME FlowInv, NEW c \in Caller, NEW draft \in Draft, SaveFlow(c, draft)
  PROVE  FlowInv'
<1>1. draft \in Graph
  BY DraftAssumption DEF Graph
<1>2. Flaws(draft) \subseteq NodeId \cup Edge
  BY <1>1, FlawsTyped
<1>3. FlowTypeOK'
  BY <1>1, <1>2 DEF FlowInv, FlowTypeOK, SaveFlow
<1>4. AddsSound'
  BY DEF FlowInv, SaveFlow, AddsSound, AddSound
<1>5. QED
  BY <1>3, <1>4 DEF FlowInv, SaveFlow, AddsBringNoFlaw

LEMMA ReadFlowKeeps ==
  ASSUME FlowInv, NEW c \in Caller, NEW body \in Body, NEW node \in Node,
         NEW from \in NodeId \cup {None}, NEW expected, ReadFlow(c, body, node, from, expected)
  PROVE  FlowInv'
<1> DEFINE next == [pc |-> "post", node |-> node, from |-> from, read |-> body]
<1>1. body \in Graph /\ Flaws(body) \subseteq brought
  BY EmptyHasNoFlaw DEF Body, FlowInv, FlowTypeOK, AddsBringNoFlaw
<1>2. next \in FlowCall
  BY <1>1 DEF FlowCall
<1>3. /\ Flaws(next.read) \subseteq brought /\ next.node \in Node
      /\ next.node.id \notin Ids(next.read.nodes)
      /\ next.from \in Ids(next.read.nodes) \cup {next.node.id, None}
  BY <1>1 DEF ReadFlow, Accepts
<1>4. adding' = [adding EXCEPT ![c] = next] /\ UNCHANGED <<flow, redraws, brought>>
  BY DEF ReadFlow
<1> HIDE DEF next
<1>5. adding' \in [Caller -> FlowCall] /\ AddsSound'
  BY <1>2, <1>3, <1>4 DEF FlowInv, FlowTypeOK, AddsSound, AddSound
<1>6. QED
  BY <1>4, <1>5 DEF FlowInv, FlowTypeOK, AddsBringNoFlaw

LEMMA WriteFlowKeeps ==
  ASSUME FlowInv, NEW c \in Caller, WriteFlow(c)
  PROVE  FlowInv'
<1>1. adding[c] \in FlowCall /\ adding[c].pc = "post" /\ AddSound(adding[c])
  BY DEF FlowInv, FlowTypeOK, AddsSound, WriteFlow
<1>2. flow' \in Graph /\ Flaws(flow') \subseteq Flaws(adding[c].read)
  BY <1>1, ExtendedBringsNoFlaw DEF WriteFlow
<1>3. Flaws(adding[c].read) \subseteq brought
  BY <1>1 DEF AddSound
<1>4. adding' \in [Caller -> FlowCall] /\ AddsSound'
  BY EndOfCall DEF FlowInv, WriteFlow
<1>5. FlowTypeOK'
  BY <1>2, <1>4 DEF FlowInv, FlowTypeOK, WriteFlow
<1>6. AddsBringNoFlaw'
  BY <1>2, <1>3 DEF AddsBringNoFlaw, WriteFlow
<1>7. QED
  BY <1>4, <1>5, <1>6 DEF FlowInv

\* The person in the browser starts from what is stored.
LEMMA RedrawKeeps ==
  ASSUME FlowInv, NEW graph \in Graph, Redraw(graph), Flaws(graph) \subseteq Flaws(flow)
  PROVE  FlowInv'
<1>1. redraws' \in 0 .. MaxRedraws
  BY RedrawsAssumption DEF FlowInv, FlowTypeOK, Redraw
<1>2. QED
  BY <1>1 DEF FlowInv, FlowTypeOK, AddsBringNoFlaw, AddsSound, AddSound, Redraw

LEMMA DrawKeeps ==
  ASSUME FlowInv, NEW node \in Node, Draw(node)
  PROVE  FlowInv'
<1> DEFINE graph == [flow EXCEPT !.nodes = Append(@, node)]
<1>1. flow \in Graph /\ flow.nodes \in Seq(Node)
  BY DEF FlowInv, FlowTypeOK, Graph
<1>2. graph.nodes = Append(flow.nodes, node) /\ graph.edges = flow.edges \cup {} /\ graph \in Graph
  BY <1>1, AppendNode DEF Graph
<1>3. Redraw(graph) /\ node.id \notin Ids(flow.nodes)
  BY DEF Draw
<1> HIDE DEF graph
<1>4. Flaws(graph) \subseteq Flaws(flow)
  BY <1>1, <1>2, <1>3, AppendBringsNoFlaw
<1>5. QED
  BY <1>2, <1>3, <1>4, RedrawKeeps

LEMMA DragKeeps ==
  ASSUME FlowInv, NEW i \in DOMAIN flow.nodes, NEW place \in Place, Drag(i, place)
  PROVE  FlowInv'
<1> DEFINE graph == [flow EXCEPT !.nodes = [flow.nodes EXCEPT ![i].place = place]]
<1>1. flow \in Graph /\ flow.edges \in SUBSET Edge
  BY DEF FlowInv, FlowTypeOK, Graph
<1>2. /\ graph.nodes = [flow.nodes EXCEPT ![i].place = place] /\ graph.edges = flow.edges
      /\ graph = [nodes |-> graph.nodes, edges |-> flow.edges]
  <2>1. flow = [nodes |-> flow.nodes, edges |-> flow.edges]
    BY <1>1 DEF Graph
  <2> DEFINE moved == [flow.nodes EXCEPT ![i].place = place]
  <2>2. graph = [flow EXCEPT !.nodes = moved]
    OBVIOUS
  <2> HIDE DEF moved, graph
  <2>3. graph.nodes = moved /\ graph.edges = flow.edges /\ graph = [nodes |-> moved, edges |-> flow.edges]
    BY <2>1, <2>2
  <2>4. QED
    BY <2>3 DEF moved
<1>3. Redraw(graph)
  BY DEF Drag
<1> HIDE DEF graph
<1>4. graph.nodes \in Seq(Node) /\ Flaws(graph) \subseteq Flaws(flow)
  BY <1>1, <1>2, MoveBringsNoFlaw
<1>5. graph \in Graph
  BY <1>1, <1>2, <1>4 DEF Graph
<1>6. QED
  BY <1>3, <1>4, <1>5, RedrawKeeps

LEMMA EraseKeeps ==
  ASSUME FlowInv, NEW i \in DOMAIN flow.nodes, Erase(i)
  PROVE  FlowInv'
<1> DEFINE left == {e \in flow.edges : flow.nodes[i].id \notin {e.source, e.target}}
           graph == [nodes |-> RemoveAt(flow.nodes, i), edges |-> left]
<1>1. flow \in Graph /\ flow.nodes \in Seq(Node)
  BY DEF FlowInv, FlowTypeOK, Graph
<1>2. Redraw(graph)
  BY DEF Erase
<1>3. graph.nodes = RemoveAt(flow.nodes, i) /\ graph.edges = left /\ graph \in Graph
  BY <1>1, RemoveNode DEF Graph
<1> HIDE DEF graph
<1>4. Flaws(graph) \subseteq Flaws(flow)
  BY <1>1, <1>3, RemoveBringsNoFlaw
<1>5. QED
  BY <1>2, <1>3, <1>4, RedrawKeeps

LEMMA FlowInvStep == FlowInv /\ [FlowNext]_flowVars => FlowInv'
<1> SUFFICES ASSUME FlowInv, [FlowNext]_flowVars PROVE FlowInv'
  OBVIOUS
<1>1. CASE UNCHANGED flowVars
  BY <1>1 DEF flowVars, FlowInv, FlowTypeOK, AddsBringNoFlaw, AddsSound, AddSound
<1>2. ASSUME NEW c \in Caller, Refused(c)
      PROVE  FlowInv'
  BY <1>2, EndOfCall DEF Refused, FlowInv, FlowTypeOK, AddsBringNoFlaw
<1>3. ASSUME NEW c \in Caller, Tool(c)
      PROVE  FlowInv'
  BY <1>2, <1>3, SaveFlowKeeps, ReadFlowKeeps, WriteFlowKeeps DEF Tool
<1>4. CASE Browser
  BY <1>4, DrawKeeps, DragKeeps, EraseKeeps DEF Browser
<1>5. QED
  BY <1>1, <1>3, <1>4 DEF FlowNext

\* Whatever graphs are saved, and however adds and the designer overlap, what
\* an add is about to store was checked against the very copy it extends.
THEOREM FlowInvariant == FlowSpec => []FlowInv
  BY FlowInvInit, FlowInvStep, PTL DEF FlowSpec

\* Graphs, and the copies calls hold, stay graphs: no edge is drawn from None.
THEOREM FlowTypeCorrect == FlowSpec => []FlowTypeOK
<1>1. FlowInv => FlowTypeOK
  BY DEF FlowInv
<1>2. QED
  BY <1>1, FlowInvariant, PTL

\* An id that is there twice, or an edge that dangles, came with a graph that
\* somebody saved whole.
THEOREM FlawsAreSaved == FlowSpec => []AddsBringNoFlaw
<1>1. FlowInv => AddsBringNoFlaw
  BY DEF FlowInv
<1>2. QED
  BY <1>1, FlowInvariant, PTL

-----------------------------------------------------------------------------
(***************************************************************************)
(* BotConfig.  What a tool does upstream is decided when it turns its      *)
(* arguments into a request, long before the answer; the invariant says of *)
(* every request under way what it can do and who asked for it, and that   *)
(* what an update is going to PUT is the record it read, overlaid.         *)
(***************************************************************************)

Resources == Records \cup Settings \cup {"signals", "identity", "painter", "bot"}

\* What is kept upstream has its shape, and what shows of it was asked for.
StoreWell(s, said) ==
    /\ DOMAIN s = Resources
    /\ \A r \in Records : /\ Full \cup ServerKeys \subseteq DOMAIN s[r]
                           /\ DOMAIN s[r] \subseteq Defined[r] \cup ServerKeys
    /\ \A r \in {"prompt", "memory"} : s[r] \in Callers \cup {Old}
    /\ \A r \in {"variables", "kb_groups", "signals"} : s[r] \in Callers \cup {Old, "none"}
    /\ s["signals"] = "none" => "clear" \in said
    /\ s["kb_groups"] = "none" => "unlink" \in said
    /\ s["variables"] = "none" => "forget" \in said
    /\ DOMAIN s["identity"] = {"label", "role", "is_active"}
    /\ s["identity"]["is_active"] => "live" \in said
    /\ DOMAIN s["painter"] = {"label", "status"} /\ DOMAIN s["bot"] = {"label", "status"}
    /\ s["painter"]["status"] = "published" => "publish" \in said
    /\ s["bot"]["status"] = "deployed" => "deploy" \in said

MadeWell(things, said) ==
    \A m \in things : /\ m[1] = "identity" /\ m[2].is_active => "live" \in said
                      /\ m[1] \in {"painter", "bot"} => m[2].status = "draft"

CallsWell ==
    /\ DOMAIN call = Callers /\ DOMAIN asRead = Callers
    /\ \A p \in Callers : call[p].pc \in {"idle", "sent", "put", "done"}
    /\ \A p \in Callers : call[p].pc = "sent" => {"pc", "tool", "req"} \subseteq DOMAIN call[p]
    /\ calls \in 0..MaxCalls /\ edits \in 0..MaxEdits

\* What a request of p's may do, given what was asked for: nothing that it
\* creates or patches shows without being asked for, a setting is p's or
\* cleared because that was asked for, an update is of keys of its record.
Proper(req, p, said) ==
    /\ req.method \in {"create", "patch", "activate", "set", "run", "read", "merge"}
    /\ req.method = "create" =>
         /\ req.on = "identity" /\ req.body.is_active => "live" \in said
         /\ req.on \in {"painter", "bot"} => req.body.status = "draft"
    /\ req.method = "patch" =>
         \/ req.on = "identity"
         \/ req.on = "painter" /\ req.body = [status |-> "published"] /\ "publish" \in said
         \/ req.on = "bot" /\ req.body = [status |-> "deployed"] /\ "deploy" \in said
    /\ req.method = "activate" => req.on = "identity" /\ "live" \in said
    /\ req.method = "set" =>
         \/ req.on \in Settings \cup {"signals"} /\ req.body = p
         \/ /\ req.body = "none"
            /\ \/ req.on = "signals" /\ "clear" \in said
               \/ req.on = "kb_groups" /\ "unlink" \in said
               \/ req.on = "variables" /\ "forget" \in said
    /\ req.method = "merge" =>
         /\ req.on \in Records
         /\ \A k \in DOMAIN req.body : req.body[k] = p

AllProper == \A p \in Callers : Active(p) => Proper(call[p].req, p, asked)

\* What an update is going to PUT.
CopyWell(c, read) ==
    /\ c.req.method = "merge"
    /\ c.put = Request("put", c.req.on, Merged(read, c.req.body))
    /\ DOMAIN read \subseteq Defined[c.req.on] \cup ServerKeys

Copies == \A p \in Callers : call[p].pc = "put" => CopyWell(call[p], asRead[p])

ConfigInv == StoreWell(store, asked) /\ MadeWell(made, asked) /\ CallsWell /\ AllProper /\ Copies
-----------------------------------------------------------------------------
(* From arguments to requests *)

\* What is asked of a tool's request.
Fair(req, p, said) == req = NoRequest \/ Proper(req, p, said)

ConfigNames ==
    {"create_identity", "update_identity", "activate_identity", "create_intent",
     "update_intent", "create_decision_rule", "update_decision_rule", "create_action_schema",
     "update_action_schema", "test_action_schema", "create_painter", "publish_painter",
     "set_bot_prompt", "set_bot_variables", "set_bot_memory_policy", "set_bot_signals",
     "get_bot_config", "lists"}

LEMMA ConfigRequests ==
    ASSUME NEW tool \in ConfigNames, NEW a, NEW p \in Callers, NEW said, Asks(tool, a) \subseteq said
    PROVE  Fair(ConfigTools(a, p)[tool], p, said)
<1>1. CASE tool = "create_identity"
  <2>1. ConfigTools(a, p)["create_identity"] = CreateIdentity(a, p)
    BY DEF ConfigTools
  <2>2. Fair(CreateIdentity(a, p), p, said)
    BY <1>1 DEF CreateIdentity, Needs, Request, Fair, Proper, Asks
  <2>3. QED
    BY <1>1, <2>1, <2>2
<1>2. CASE tool = "update_identity"
  <2>1. ConfigTools(a, p)["update_identity"] = UpdateIdentity(a, p)
    BY DEF ConfigTools
  <2>2. Fair(UpdateIdentity(a, p), p, said)
    BY <1>2 DEF UpdateIdentity, Request, Fair, Proper, Asks
  <2>3. QED
    BY <1>2, <2>1, <2>2
<1>3. CASE tool = "activate_identity"
  <2>1. ConfigTools(a, p)["activate_identity"] = ActivateIdentity(a, p)
    BY DEF ConfigTools
  <2>2. Fair(ActivateIdentity(a, p), p, said)
    BY <1>3 DEF ActivateIdentity, Needs, Request, Fair, Proper, Asks
  <2>3. QED
    BY <1>3, <2>1, <2>2
<1>4. CASE tool = "create_intent"
  <2>1. ConfigTools(a, p)["create_intent"] = CreateIntent(a, p)
    BY DEF ConfigTools
  <2>2. Fair(CreateIntent(a, p), p, said)
    BY <1>4 DEF CreateIntent, Needs, Request, Fair, Proper
  <2>3. QED
    BY <1>4, <2>1, <2>2
<1>5. CASE tool = "update_intent"
  <2>1. ConfigTools(a, p)["update_intent"] = UpdateIntent(a, p)
    BY DEF ConfigTools
  <2>2. Fair(UpdateIntent(a, p), p, said)
    BY <1>5 DEF UpdateIntent, Request, Fair, Proper, Update, Fields, Records
  <2>3. QED
    BY <1>5, <2>1, <2>2
<1>6. CASE tool = "create_decision_rule"
  <2>1. ConfigTools(a, p)["create_decision_rule"] = CreateDecisionRule(a, p)
    BY DEF ConfigTools
  <2>2. Fair(CreateDecisionRule(a, p), p, said)
    BY <1>6 DEF CreateDecisionRule, Needs, Request, Fair, Proper
  <2>3. QED
    BY <1>6, <2>1, <2>2
<1>7. CASE tool = "update_decision_rule"
  <2>1. ConfigTools(a, p)["update_decision_rule"] = UpdateDecisionRule(a, p)
    BY DEF ConfigTools
  <2>2. Fair(UpdateDecisionRule(a, p), p, said)
    BY <1>7 DEF UpdateDecisionRule, Request, Fair, Proper, Update, Fields, Records
  <2>3. QED
    BY <1>7, <2>1, <2>2
<1>8. CASE tool = "create_action_schema"
  <2>1. ConfigTools(a, p)["create_action_schema"] = CreateActionSchema(a, p)
    BY DEF ConfigTools
  <2>2. Fair(CreateActionSchema(a, p), p, said)
    BY <1>8 DEF CreateActionSchema, Needs, Request, Fair, Proper
  <2>3. QED
    BY <1>8, <2>1, <2>2
<1>9. CASE tool = "update_action_schema"
  <2>1. ConfigTools(a, p)["update_action_schema"] = UpdateActionSchema(a, p)
    BY DEF ConfigTools
  <2>2. Fair(UpdateActionSchema(a, p), p, said)
    BY <1>9 DEF UpdateActionSchema, Request, Fair, Proper, Update, Fields, Records
  <2>3. QED
    BY <1>9, <2>1, <2>2
<1>10. CASE tool = "test_action_schema"
  <2>1. ConfigTools(a, p)["test_action_schema"] = TestActionSchema(a, p)
    BY DEF ConfigTools
  <2>2. Fair(TestActionSchema(a, p), p, said)
    BY <1>10 DEF TestActionSchema, Needs, Request, Fair, Proper
  <2>3. QED
    BY <1>10, <2>1, <2>2
<1>11. CASE tool = "create_painter"
  <2>1. ConfigTools(a, p)["create_painter"] = CreatePainter(a, p)
    BY DEF ConfigTools
  <2>2. Fair(CreatePainter(a, p), p, said)
    BY <1>11 DEF CreatePainter, Request, Fair, Proper
  <2>3. QED
    BY <1>11, <2>1, <2>2
<1>12. CASE tool = "publish_painter"
  <2>1. ConfigTools(a, p)["publish_painter"] = PublishPainter(a, p)
    BY DEF ConfigTools
  <2>2. Fair(PublishPainter(a, p), p, said)
    BY <1>12 DEF PublishPainter, Needs, Request, Fair, Proper, Asks
  <2>3. QED
    BY <1>12, <2>1, <2>2
<1>13. CASE tool = "set_bot_prompt"
  <2>1. ConfigTools(a, p)["set_bot_prompt"] = SetBotPrompt(a, p)
    BY DEF ConfigTools
  <2>2. Fair(SetBotPrompt(a, p), p, said)
    BY <1>13 DEF SetBotPrompt, Needs, Request, Fair, Proper, Settings
  <2>3. QED
    BY <1>13, <2>1, <2>2
<1>14. CASE tool = "set_bot_variables"
  <2>1. ConfigTools(a, p)["set_bot_variables"] = SetBotVariables(a, p)
    BY DEF ConfigTools
  <2>2. Fair(SetBotVariables(a, p), p, said)
    <3>1. CASE ~ {"bot", "value"} \subseteq a
      BY <3>1 DEF SetBotVariables, Needs, Fair
    <3>2. CASE {"bot", "value"} \subseteq a /\ "empty" \in a
      <4>1. SetBotVariables(a, p) = Request("set", "variables", "none") /\ "forget" \in said
        BY <1>14, <3>2 DEF SetBotVariables, Needs, Asks
      <4>2. QED
        BY <4>1 DEF Request, Fair, Proper
    <3>3. CASE {"bot", "value"} \subseteq a /\ "empty" \notin a
      <4>1. SetBotVariables(a, p) = Request("set", "variables", p)
        BY <3>3 DEF SetBotVariables, Needs
      <4>2. QED
        BY <4>1 DEF Request, Fair, Proper, Settings
    <3>4. QED
      BY <3>1, <3>2, <3>3
  <2>3. QED
    BY <1>14, <2>1, <2>2
<1>15. CASE tool = "set_bot_memory_policy"
  <2>1. ConfigTools(a, p)["set_bot_memory_policy"] = SetBotMemoryPolicy(a, p)
    BY DEF ConfigTools
  <2>2. Fair(SetBotMemoryPolicy(a, p), p, said)
    BY <1>15 DEF SetBotMemoryPolicy, Needs, Request, Fair, Proper, Settings
  <2>3. QED
    BY <1>15, <2>1, <2>2
<1>16. CASE tool = "set_bot_signals"
  <2>1. ConfigTools(a, p)["set_bot_signals"] = SetBotSignals(a, p)
    BY DEF ConfigTools
  <2>2. Fair(SetBotSignals(a, p), p, said)
    <3>1. CASE "bot" \notin a \/ ("without_id" \in a /\ "with_id" \notin a)
      BY <3>1 DEF SetBotSignals, Fair
    <3>2. CASE "bot" \in a /\ "with_id" \in a
      <4>1. SetBotSignals(a, p) = Request("set", "signals", p)
        BY <3>2 DEF SetBotSignals
      <4>2. Proper(Request("set", "signals", p), p, said)
        BY DEF Request, Proper
      <4>3. QED
        BY <4>1, <4>2 DEF Fair
    <3>3. CASE "bot" \in a /\ "with_id" \notin a /\ "without_id" \notin a
      <4>1. SetBotSignals(a, p) = Request("set", "signals", "none")
        BY <3>3 DEF SetBotSignals
      <4>2. "clear" \in said
        BY <1>16, <3>3 DEF Asks
      <4>3. Proper(Request("set", "signals", "none"), p, said)
        BY <4>2 DEF Request, Proper
      <4>4. QED
        BY <4>1, <4>3 DEF Fair
    <3>4. QED
      BY <3>1, <3>2, <3>3
  <2>3. QED
    BY <1>16, <2>1, <2>2
<1>17. CASE tool = "get_bot_config"
  <2>1. ConfigTools(a, p)["get_bot_config"] = GetBotConfig(a, p)
    BY DEF ConfigTools
  <2>2. Fair(GetBotConfig(a, p), p, said)
    BY <1>17 DEF GetBotConfig, Needs, Request, Fair, Proper
  <2>3. QED
    BY <1>17, <2>1, <2>2
<1>18. CASE tool = "lists"
  <2>1. ConfigTools(a, p)["lists"] = Lists(a, p)
    BY DEF ConfigTools
  <2>2. Fair(Lists(a, p), p, said)
    BY <1>18 DEF Lists, Request, Fair, Proper
  <2>3. QED
    BY <1>18, <2>1, <2>2
<1>19. QED
  BY <1>1, <1>2, <1>3, <1>4, <1>5, <1>6, <1>7, <1>8, <1>9, <1>10, <1>11, <1>12, <1>13, <1>14, <1>15, <1>16, <1>17, <1>18 DEF ConfigNames

LifecycleNames ==
    {"create_bot", "deploy_bot", "chat_with_bot", "create_knowledge_base", "ingest_url",
     "set_bot_knowledge_groups", "create_demo"}

LEMMA LifecycleRequests ==
    ASSUME NEW tool \in LifecycleNames, NEW a, NEW p \in Callers, NEW said, Asks(tool, a) \subseteq said
    PROVE  Fair(LifecycleTools(a, p)[tool], p, said)
<1>1. CASE tool = "create_bot"
  <2>1. LifecycleTools(a, p)["create_bot"] = CreateBot(a, p)
    BY DEF LifecycleTools
  <2>2. Fair(CreateBot(a, p), p, said)
    BY <1>1 DEF CreateBot, Needs, Request, Fair, Proper
  <2>3. QED
    BY <1>1, <2>1, <2>2
<1>2. CASE tool = "deploy_bot"
  <2>1. LifecycleTools(a, p)["deploy_bot"] = DeployBot(a, p)
    BY DEF LifecycleTools
  <2>2. Fair(DeployBot(a, p), p, said)
    BY <1>2 DEF DeployBot, Needs, Request, Fair, Proper, Asks
  <2>3. QED
    BY <1>2, <2>1, <2>2
<1>3. CASE tool = "chat_with_bot"
  <2>1. LifecycleTools(a, p)["chat_with_bot"] = ChatWithBot(a, p)
    BY DEF LifecycleTools
  <2>2. Fair(ChatWithBot(a, p), p, said)
    BY <1>3 DEF ChatWithBot, Needs, Request, Fair, Proper
  <2>3. QED
    BY <1>3, <2>1, <2>2
<1>4. CASE tool = "create_knowledge_base"
  <2>1. LifecycleTools(a, p)["create_knowledge_base"] = CreateKnowledgeBase(a, p)
    BY DEF LifecycleTools
  <2>2. Fair(CreateKnowledgeBase(a, p), p, said)
    BY <1>4 DEF CreateKnowledgeBase, Needs, Request, Fair, Proper
  <2>3. QED
    BY <1>4, <2>1, <2>2
<1>5. CASE tool = "ingest_url"
  <2>1. LifecycleTools(a, p)["ingest_url"] = IngestUrl(a, p)
    BY DEF LifecycleTools
  <2>2. Fair(IngestUrl(a, p), p, said)
    BY <1>5 DEF IngestUrl, Needs, Request, Fair, Proper
  <2>3. QED
    BY <1>5, <2>1, <2>2
<1>6. CASE tool = "set_bot_knowledge_groups"
  <2>1. LifecycleTools(a, p)["set_bot_knowledge_groups"] = SetBotKnowledgeGroups(a, p)
    BY DEF LifecycleTools
  <2>2. Fair(SetBotKnowledgeGroups(a, p), p, said)
    <3>1. CASE "bot" \notin a
      BY <3>1 DEF SetBotKnowledgeGroups, Needs, Fair
    <3>2. CASE "bot" \in a /\ "with_id" \notin a
      <4>1. SetBotKnowledgeGroups(a, p) = Request("set", "kb_groups", "none") /\ "unlink" \in said
        BY <1>6, <3>2 DEF SetBotKnowledgeGroups, Needs, Asks
      <4>2. QED
        BY <4>1 DEF Request, Fair, Proper
    <3>3. CASE "bot" \in a /\ "with_id" \in a
      <4>1. SetBotKnowledgeGroups(a, p) = Request("set", "kb_groups", p)
        BY <3>3 DEF SetBotKnowledgeGroups, Needs
      <4>2. QED
        BY <4>1 DEF Request, Fair, Proper, Settings
    <3>4. QED
      BY <3>1, <3>2, <3>3
  <2>3. QED
    BY <1>6, <2>1, <2>2
<1>7. CASE tool = "create_demo"
  <2>1. LifecycleTools(a, p)["create_demo"] = CreateDemo(a, p)
    BY DEF LifecycleTools
  <2>2. Fair(CreateDemo(a, p), p, said)
    BY <1>7 DEF CreateDemo, Needs, Request, Fair, Proper
  <2>3. QED
    BY <1>7, <2>1, <2>2
<1>8. QED
  BY <1>1, <1>2, <1>3, <1>4, <1>5, <1>6, <1>7 DEF LifecycleNames

MeetingNames ==
    {"create_tms_goal", "create_tms_epic", "create_tms_sprint", "create_tms_ticket",
     "meeting_context_query", "get_delegation_rules"}

LEMMA MeetingRequests ==
    ASSUME NEW tool \in MeetingNames, NEW a, NEW p \in Callers, NEW said, Asks(tool, a) \subseteq said
    PROVE  Fair(MeetingTools(a, p)[tool], p, said)
<1>1. CASE tool = "create_tms_goal"
  <2>1. MeetingTools(a, p)["create_tms_goal"] = CreateTmsGoal(a, p)
    BY DEF MeetingTools
  <2>2. Fair(CreateTmsGoal(a, p), p, said)
    BY <1>1 DEF CreateTmsGoal, Request, Fair, Proper
  <2>3. QED
    BY <1>1, <2>1, <2>2
<1>2. CASE tool = "create_tms_epic"
  <2>1. MeetingTools(a, p)["create_tms_epic"] = CreateTmsEpic(a, p)
    BY DEF MeetingTools
  <2>2. Fair(CreateTmsEpic(a, p), p, said)
    BY <1>2 DEF CreateTmsEpic, Request, Fair, Proper, Parented
  <2>3. QED
    BY <1>2, <2>1, <2>2
<1>3. CASE tool = "create_tms_sprint"
  <2>1. MeetingTools(a, p)["create_tms_sprint"] = CreateTmsSprint(a, p)
    BY DEF MeetingTools
  <2>2. Fair(CreateTmsSprint(a, p), p, said)
    BY <1>3 DEF CreateTmsSprint, Request, Fair, Proper, Parented
  <2>3. QED
    BY <1>3, <2>1, <2>2
<1>4. CASE tool = "create_tms_ticket"
  <2>1. MeetingTools(a, p)["create_tms_ticket"] = CreateTmsTicket(a, p)
    BY DEF MeetingTools
  <2>2. Fair(CreateTmsTicket(a, p), p, said)
    BY <1>4 DEF CreateTmsTicket, Request, Fair, Proper
  <2>3. QED
    BY <1>4, <2>1, <2>2
<1>5. CASE tool = "meeting_context_query"
  <2>1. MeetingTools(a, p)["meeting_context_query"] = MeetingContextQuery(a, p)
    BY DEF MeetingTools
  <2>2. Fair(MeetingContextQuery(a, p), p, said)
    BY <1>5 DEF MeetingContextQuery, Needs, Request, Fair, Proper
  <2>3. QED
    BY <1>5, <2>1, <2>2
<1>6. CASE tool = "get_delegation_rules"
  <2>1. MeetingTools(a, p)["get_delegation_rules"] = GetDelegationRules(a, p)
    BY DEF MeetingTools
  <2>2. Fair(GetDelegationRules(a, p), p, said)
    BY <1>6 DEF GetDelegationRules, Request, Fair, Proper
  <2>3. QED
    BY <1>6, <2>1, <2>2
<1>7. QED
  BY <1>1, <1>2, <1>3, <1>4, <1>5, <1>6 DEF MeetingNames

\* Whatever the tool and its arguments, the request it sends is proper.
LEMMA RequestsProper ==
    ASSUME NEW tool \in DOMAIN Arguments, NEW a \in Arguments[tool], NEW p \in Callers,
           NEW said, Asks(tool, a) \subseteq said
    PROVE  Fair(RequestOf(tool, a, p), p, said)
<1>2. \A v, x : /\ DOMAIN ConfigTools(x, v) = ConfigNames
                /\ DOMAIN LifecycleTools(x, v) = LifecycleNames
                /\ DOMAIN MeetingTools(x, v) = MeetingNames
  BY DEF ConfigTools, LifecycleTools, MeetingTools, ConfigNames, LifecycleNames, MeetingNames
<1>3. tool \in ConfigNames \cup LifecycleNames \cup MeetingNames
  BY <1>2, ArgumentsAssumption
<1>4. RequestOf(tool, a, p) = IF tool \in ConfigNames THEN ConfigTools(a, p)[tool]
                              ELSE IF tool \in LifecycleNames THEN LifecycleTools(a, p)[tool]
                              ELSE MeetingTools(a, p)[tool]
  BY <1>2, <1>3 DEF RequestOf, Over
<1>5. QED
  BY <1>3, <1>4, ConfigRequests, LifecycleRequests, MeetingRequests

-----------------------------------------------------------------------------
(* Upstream *)

LEMMA ResourcesApart ==
    /\ Records \subseteq Resources /\ Settings \subseteq Resources
    /\ {"signals", "identity", "painter", "bot"} \subseteq Resources
    /\ Records \cap Settings = {}
    /\ Records \cap {"signals", "identity", "painter", "bot"} = {}
    /\ Settings \cap {"signals", "identity", "painter", "bot"} = {}
  BY DEF Resources, Records, Settings

\* Writing over one record leaves the others.
LEMMA WrittenOver ==
    ASSUME StoreWell(store, asked), NEW on \in Resources, NEW value, store' = [store EXCEPT ![on] = value]
    PROVE  /\ DOMAIN store' = Resources
           /\ store'[on] = value
           /\ \A r \in Resources : r # on => store'[r] = store[r]
  BY DEF StoreWell

\* What a PUT leaves of a record: the fields it carries that the model defines,
\* and the server's own.
PutOver(req, record) == Over(Kept(req), Restrict(record, ServerKeys))

LEMMA PutShape ==
    ASSUME NEW req, NEW record, req.on \in Records, ServerKeys \subseteq DOMAIN record, Full \subseteq DOMAIN req.body
    PROVE  /\ DOMAIN PutOver(req, record) = (DOMAIN req.body \cap Defined[req.on]) \cup ServerKeys
           /\ Full \cup ServerKeys \subseteq DOMAIN PutOver(req, record)
           /\ DOMAIN PutOver(req, record) \subseteq Defined[req.on] \cup ServerKeys
           /\ \A k \in ServerKeys : PutOver(req, record)[k] = record[k]
<1>1. Full \subseteq Defined[req.on] /\ ServerKeys \cap Defined[req.on] = {}
  BY DEF Defined, Records, Full, ServerKeys
<1> DEFINE kept == DOMAIN req.body \cap Defined[req.on]
<1>2. Kept(req) = [k \in kept |-> req.body[k]] /\ Restrict(record, ServerKeys) = [k \in ServerKeys |-> record[k]]
  BY DEF Kept, Restrict
<1>3. kept \cap ServerKeys = {} /\ Full \subseteq kept
  BY <1>1
<1> HIDE DEF kept
<1>4. PutOver(req, record) = [k \in kept \cup ServerKeys |-> IF k \in kept THEN req.body[k] ELSE record[k]]
  BY <1>2 DEF Over, PutOver
<1>5. QED
  BY <1>3, <1>4 DEF kept

LEMMA PutField ==
    ASSUME NEW req, NEW record, NEW k, k \in DOMAIN req.body, k \in Defined[req.on]
    PROVE  PutOver(req, record)[k] = req.body[k]
  BY DEF PutOver, Kept, Restrict, Over

\* Either a proper request takes effect, or the PUT of an update.
Served(req, p) ==
    \/ req.method \in {"create", "patch", "activate", "set", "run"} /\ Proper(req, p, asked)
    \/ req.method = "put" /\ req.on \in Records /\ Full \subseteq DOMAIN req.body

\* What the platform does with such a request leaves its records in shape, and
\* what shows was asked for.
LEMMA EffectKeeps ==
    ASSUME StoreWell(store, asked), MadeWell(made, asked), NEW p \in Callers, NEW req, Effect(req), Served(req, p)
    PROVE  StoreWell(store', asked) /\ MadeWell(made', asked)
<1>1. CASE req.method = "create"
  <2>1. UNCHANGED store /\ made' = made \cup {<<req.on, req.body>>}
    BY <1>1 DEF Effect
  <2>2. <<req.on, req.body>>[1] = req.on /\ <<req.on, req.body>>[2] = req.body
    OBVIOUS
  <2>3. /\ req.on = "identity" /\ req.body.is_active => "live" \in asked
        /\ req.on \in {"painter", "bot"} => req.body.status = "draft"
    BY <1>1 DEF Served, Proper
  <2>4. MadeWell(made', asked)
    BY <2>1, <2>2, <2>3 DEF MadeWell
  <2>5. QED
    BY <2>1, <2>4
<1>2. CASE req.method = "run"
  BY <1>2 DEF Effect
<1>3. CASE req.method = "set"
  <2>1. UNCHANGED made /\ store' = [store EXCEPT ![req.on] = req.body]
    BY <1>3 DEF Effect
  <2>2. req.on \in Settings \cup {"signals"} /\ req.on \in Resources
    BY <1>3, ResourcesApart DEF Served, Proper, Settings
  <2>3. /\ DOMAIN store' = Resources
        /\ store'[req.on] = req.body
        /\ \A r \in Resources : r # req.on => store'[r] = store[r]
    BY <2>1, <2>2, WrittenOver, Zenon
  <2>4. \A r \in {"identity", "painter", "bot"} \cup Records : store'[r] = store[r]
    BY <2>2, <2>3, ResourcesApart
  <2>5. /\ req.on \in {"prompt", "memory"} => req.body \in Callers \cup {Old}
        /\ req.body \in Callers \cup {"none"}
        /\ req.body = "none" => /\ req.on = "signals" => "clear" \in asked
                                /\ req.on = "kb_groups" => "unlink" \in asked
                                /\ req.on = "variables" => "forget" \in asked
    BY <1>3, WritersAssumption DEF Served, Proper
  <2>6. \A r \in Settings \cup {"signals"} : store'[r] = IF r = req.on THEN req.body ELSE store[r]
    BY <2>2, <2>3, ResourcesApart
  <2>7. \A r \in {"prompt", "memory", "variables", "kb_groups", "signals"} : r \in Settings \cup {"signals"}
    BY DEF Settings
  <2>8. /\ \A r \in {"prompt", "memory"} : store'[r] \in Callers \cup {Old}
        /\ \A r \in {"variables", "kb_groups", "signals"} : store'[r] \in Callers \cup {Old, "none"}
        /\ store'["signals"] = "none" => "clear" \in asked
        /\ store'["kb_groups"] = "none" => "unlink" \in asked
        /\ store'["variables"] = "none" => "forget" \in asked
    BY <2>5, <2>6, <2>7 DEF StoreWell
  <2>9. QED
    BY <2>1, <2>3, <2>4, <2>8 DEF StoreWell
<1>4. CASE req.method = "put"
  <2> DEFINE replaced == PutOver(req, store[req.on])
  <2>1. UNCHANGED made /\ store' = [store EXCEPT ![req.on] = replaced]
    BY <1>4 DEF Effect, PutOver
  <2>2. req.on \in Records /\ Full \subseteq DOMAIN req.body /\ req.on \in Resources
    BY <1>4, ResourcesApart DEF Served
  <2>3. Full \cup ServerKeys \subseteq DOMAIN replaced /\ DOMAIN replaced \subseteq Defined[req.on] \cup ServerKeys
    <3>1. ServerKeys \subseteq DOMAIN store[req.on]
      BY <2>2 DEF StoreWell
    <3>2. QED
      BY <2>2, <3>1, PutShape
  <2> HIDE DEF replaced
  <2>4. /\ DOMAIN store' = Resources
        /\ store'[req.on] = replaced
        /\ \A r \in Resources : r # req.on => store'[r] = store[r]
    BY <2>1, <2>2, WrittenOver
  <2>5. \A r \in Settings \cup {"signals", "identity", "painter", "bot"} : store'[r] = store[r]
    BY <2>2, <2>4, ResourcesApart
  <2>6. \A r \in Records : /\ Full \cup ServerKeys \subseteq DOMAIN store'[r]
                           /\ DOMAIN store'[r] \subseteq Defined[r] \cup ServerKeys
    BY <2>2, <2>3, <2>4, ResourcesApart DEF StoreWell
  <2>7. QED
    BY <2>1, <2>4, <2>5, <2>6 DEF StoreWell, Settings
<1>5. CASE req.method = "activate"
  <2> DEFINE live == [store["identity"] EXCEPT !["is_active"] = TRUE]
  <2>1. req.on = "identity" /\ "live" \in asked
    BY <1>5 DEF Served, Proper
  <2>2. UNCHANGED made /\ store' = [store EXCEPT !["identity"] = live]
    BY <1>5, <2>1 DEF Effect
  <2>3. DOMAIN live = DOMAIN store["identity"]
    OBVIOUS
  <2> HIDE DEF live
  <2>4. /\ DOMAIN store' = Resources
        /\ store'["identity"] = live
        /\ \A r \in Resources : r # "identity" => store'[r] = store[r]
    BY <2>2, ResourcesApart, WrittenOver
  <2>5. \A r \in Records \cup Settings \cup {"signals", "painter", "bot"} : store'[r] = store[r]
    BY <2>4, ResourcesApart
  <2>6. QED
    BY <2>1, <2>2, <2>3, <2>4, <2>5 DEF StoreWell, Settings
<1>6. CASE req.method = "patch"
  <2> DEFINE patched == Over(Kept(req), store[req.on])
  <2>1. UNCHANGED made /\ store' = [store EXCEPT ![req.on] = patched]
    BY <1>6 DEF Effect
  <2>2. req.on \in {"identity", "painter", "bot"} /\ req.on \in Resources
    BY <1>6, ResourcesApart DEF Served, Proper
  <2>3. /\ DOMAIN patched = (DOMAIN req.body \cap Defined[req.on]) \cup DOMAIN store[req.on]
        /\ \A k \in DOMAIN patched : patched[k] = IF k \in DOMAIN req.body \cap Defined[req.on]
                                                   THEN req.body[k] ELSE store[req.on][k]
    BY DEF Over, Kept, Restrict
  <2> HIDE DEF patched
  <2>4. /\ DOMAIN store' = Resources
        /\ store'[req.on] = patched
        /\ \A r \in Resources : r # req.on => store'[r] = store[r]
    BY <2>1, <2>2, WrittenOver
  <2>5. \A r \in Records \cup Settings \cup {"signals"} : store'[r] = store[r]
    BY <2>2, <2>4, ResourcesApart
  <2>6. CASE req.on = "identity"
    <3>1. Defined[req.on] = {"label", "role"}
      BY <2>6 DEF Defined
    <3>2. DOMAIN patched = {"label", "role", "is_active"} /\ patched["is_active"] = store["identity"]["is_active"]
      BY <2>3, <2>6, <3>1 DEF StoreWell
    <3>3. store'["painter"] = store["painter"] /\ store'["bot"] = store["bot"]
      BY <2>4, <2>6, ResourcesApart
    <3>4. store'["identity"] = patched
      BY <2>4, <2>6
    <3>5. QED
      BY <2>1, <2>4, <2>5, <3>2, <3>3, <3>4 DEF StoreWell, Settings
  <2>7. CASE req.on = "painter" /\ req.body = [status |-> "published"] /\ "publish" \in asked
    <3>1. Defined[req.on] = {"label", "status"} /\ DOMAIN req.body = {"status"}
      BY <2>7 DEF Defined
    <3>2. DOMAIN patched = {"label", "status"}
      BY <2>3, <2>7, <3>1 DEF StoreWell
    <3>3. store'["identity"] = store["identity"] /\ store'["bot"] = store["bot"]
      BY <2>4, <2>7, ResourcesApart
    <3>4. store'["painter"] = patched
      BY <2>4, <2>7
    <3>5. QED
      BY <2>1, <2>4, <2>5, <2>7, <3>2, <3>3, <3>4 DEF StoreWell, Settings
  <2>8. CASE req.on = "bot" /\ req.body = [status |-> "deployed"] /\ "deploy" \in asked
    <3>1. Defined[req.on] = {"label", "status"} /\ DOMAIN req.body = {"status"}
      BY <2>8 DEF Defined
    <3>2. DOMAIN patched = {"label", "status"}
      BY <2>3, <2>8, <3>1 DEF StoreWell
    <3>3. store'["identity"] = store["identity"] /\ store'["painter"] = store["painter"]
      BY <2>4, <2>8, ResourcesApart
    <3>4. store'["bot"] = patched
      BY <2>4, <2>8
    <3>5. QED
      BY <2>1, <2>4, <2>5, <2>8, <3>2, <3>3, <3>4 DEF StoreWell, Settings
  <2>9. QED
    BY <1>6, <2>6, <2>7, <2>8 DEF Served, Proper
<1>7. QED
  BY <1>1, <1>2, <1>3, <1>4, <1>5, <1>6 DEF Served

-----------------------------------------------------------------------------
(* The steps *)

\* Asking for more spoils nothing.
LEMMA AskedGrows ==
    ASSUME NEW said, NEW more, said \subseteq more
    PROVE  /\ \A s : StoreWell(s, said) => StoreWell(s, more)
           /\ \A things : MadeWell(things, said) => MadeWell(things, more)
           /\ \A req, p : Proper(req, p, said) => Proper(req, p, more)
<1>1. \A s : StoreWell(s, said) => StoreWell(s, more)
  BY DEF StoreWell
<1>2. \A things : MadeWell(things, said) => MadeWell(things, more)
  BY DEF MadeWell
<1>3. \A req, p : Proper(req, p, said) => Proper(req, p, more)
  BY DEF Proper
<1>4. QED
  BY <1>1, <1>2, <1>3

\* A call that ends leaves the other calls alone.
LEMMA Finished ==
    ASSUME CallsWell, NEW p \in Callers, NEW result, NEW landed, Finish(p, result, landed)
    PROVE  /\ DOMAIN call' = Callers
           /\ \A q \in Callers : call'[q].pc \in {"idle", "sent", "put", "done"}
           /\ \A q \in Callers : call'[q].pc \in {"sent", "put"} => q # p /\ call'[q] = call[q]
           /\ call'[p].landed = landed
<1> DEFINE ended == [pc |-> "done", tool |-> call[p].tool, req |-> call[p].req, result |-> result, landed |-> landed]
<1>1. DOMAIN call = Callers /\ call' = [call EXCEPT ![p] = ended]
  BY DEF CallsWell, Finish
<1>2. DOMAIN call' = Callers /\ call'[p] = ended /\ \A q \in Callers : q # p => call'[q] = call[q]
  BY <1>1
<1>3. \A q \in Callers : call[q].pc \in {"idle", "sent", "put", "done"}
  BY DEF CallsWell
<1>4. QED
  BY <1>2, <1>3

\* A step that only ends a call, and may forget what it read.
LEMMA EndKeeps ==
    ASSUME CallsWell, AllProper, Copies, NEW p \in Callers, NEW result, NEW landed, Finish(p, result, landed),
           UNCHANGED <<calls, edits, asked>>, asRead' \in {asRead, [asRead EXCEPT ![p] = <<>>]}
    PROVE  CallsWell' /\ AllProper' /\ Copies'
<1>1. /\ DOMAIN call' = Callers
      /\ \A q \in Callers : call'[q].pc \in {"idle", "sent", "put", "done"}
      /\ \A q \in Callers : call'[q].pc \in {"sent", "put"} => q # p /\ call'[q] = call[q]
  BY Finished
<1>2. DOMAIN asRead' = Callers /\ \A q \in Callers : q # p => asRead'[q] = asRead[q]
  BY DEF CallsWell
<1>3. CallsWell'
  BY <1>1, <1>2 DEF CallsWell
<1>4. AllProper'
  BY <1>1 DEF AllProper, Active
<1>5. Copies'
  BY <1>1, <1>2 DEF Copies
<1>6. QED
  BY <1>3, <1>4, <1>5

LEMMA BeginKeeps ==
    ASSUME ConfigInv, NEW p \in Callers, Begin(p)
    PROVE  ConfigInv'
<1>0. PICK tool \in DOMAIN Arguments : \E a \in Arguments[tool] :
        /\ call' = [call EXCEPT ![p] =
             IF RequestOf(tool, a, p) = NoRequest
             THEN [pc |-> "done", tool |-> tool, req |-> RequestOf(tool, a, p), landed |-> FALSE,
                   result |-> IF tool = "meeting_context_query" THEN "done" ELSE "failed"]
             ELSE [pc |-> "sent", tool |-> tool, req |-> RequestOf(tool, a, p), parts |-> 0]]
        /\ asked' = asked \cup Asks(tool, a)
  BY DEF Begin
<1>1. PICK a \in Arguments[tool] :
        /\ call' = [call EXCEPT ![p] =
             IF RequestOf(tool, a, p) = NoRequest
             THEN [pc |-> "done", tool |-> tool, req |-> RequestOf(tool, a, p), landed |-> FALSE,
                   result |-> IF tool = "meeting_context_query" THEN "done" ELSE "failed"]
             ELSE [pc |-> "sent", tool |-> tool, req |-> RequestOf(tool, a, p), parts |-> 0]]
        /\ asked' = asked \cup Asks(tool, a)
  BY <1>0
<1> DEFINE req == RequestOf(tool, a, p)
           refused == [pc |-> "done", tool |-> tool, req |-> req, landed |-> FALSE,
                       result |-> IF tool = "meeting_context_query" THEN "done" ELSE "failed"]
           sent == [pc |-> "sent", tool |-> tool, req |-> req, parts |-> 0]
<1>2. Fair(req, p, asked')
  BY <1>1, RequestsProper
<1> HIDE DEF req
<1>3. /\ DOMAIN call' = Callers
      /\ call'[p] = IF req = NoRequest THEN refused ELSE sent
      /\ \A q \in Callers : q # p => call'[q] = call[q]
  BY <1>1 DEF ConfigInv, CallsWell, req
<1>4. UNCHANGED <<store, made, edits, asRead>> /\ asked \subseteq asked'
  BY <1>1 DEF Begin
<1>5. CallsWell'
  <2>1. calls' \in 0..MaxCalls
    BY BoundsAssumption DEF Begin, ConfigInv, CallsWell
  <2>2. \A q \in Callers : call'[q].pc \in {"idle", "sent", "put", "done"}
    BY <1>3 DEF ConfigInv, CallsWell
  <2>3. \A q \in Callers : call'[q].pc = "sent" => {"pc", "tool", "req"} \subseteq DOMAIN call'[q]
    BY <1>3 DEF ConfigInv, CallsWell
  <2>4. QED
    BY <1>3, <1>4, <2>1, <2>2, <2>3 DEF ConfigInv, CallsWell
<1>6. AllProper'
  <2>1. SUFFICES ASSUME NEW q \in Callers, call'[q].pc \in {"sent", "put"}
                 PROVE  Proper(call'[q].req, q, asked')
    BY DEF AllProper, Active
  <2>2. CASE q = p
    <3>1. call'[p] = sent /\ req # NoRequest
      BY <1>3, <2>1, <2>2
    <3>2. QED
      BY <1>2, <2>2, <3>1 DEF Fair
  <2>3. CASE q # p
    <3>1. Proper(call[q].req, q, asked)
      BY <1>3, <2>1, <2>3 DEF ConfigInv, AllProper, Active
    <3>2. QED
      BY <1>3, <1>4, <2>3, <3>1, AskedGrows
  <2>4. QED
    BY <2>2, <2>3
<1>7. Copies'
  BY <1>3, <1>4 DEF ConfigInv, Copies
<1>8. StoreWell(store', asked') /\ MadeWell(made', asked')
  BY <1>4, AskedGrows DEF ConfigInv
<1>9. QED
  BY <1>5, <1>6, <1>7, <1>8 DEF ConfigInv

\* The request that is served: an update's PUT, or a proper request.
LEMMA ServedIsProper ==
    ASSUME ConfigInv, NEW p \in Callers, Active(p), NEW req,
           req = (IF call[p].pc = "put" THEN call[p].put ELSE call[p].req),
           req.method \notin {"merge", "read"}, Accepted(req)
    PROVE  Served(req, p)
<1>1. Proper(call[p].req, p, asked)
  BY DEF ConfigInv, AllProper
<1>2. CASE call[p].pc = "put"
  <2>1. req = call[p].put /\ CopyWell(call[p], asRead[p])
    BY <1>2 DEF ConfigInv, Copies
  <2>2. call[p].req.method = "merge" /\ req.method = "put" /\ req.on = call[p].req.on
    BY <2>1 DEF CopyWell, Request
  <2>3. call[p].req.on \in Records
    BY <1>1, <2>2 DEF Proper
  <2>4. QED
    BY <2>2, <2>3 DEF Accepted, Served
<1>3. CASE call[p].pc # "put"
  BY <1>1, <1>3 DEF Proper, Served
<1>4. QED
  BY <1>2, <1>3

\* What serving a request does: nothing upstream, or the effect of the request.
LEMMA Serving ==
    ASSUME ConfigInv, NEW p \in Callers, Serve(p), NEW req,
           req = (IF call[p].pc = "put" THEN call[p].put ELSE call[p].req)
    PROVE  /\ Active(p) /\ UNCHANGED <<calls, edits, asked>> /\ asRead' = [asRead EXCEPT ![p] = <<>>]
           /\ \E result, landed :
                /\ Finish(p, result, landed)
                /\ \/ landed = FALSE /\ UNCHANGED <<store, made>>
                   \/ landed = TRUE /\ Effect(req) /\ Served(req, p)
<1>1. Active(p) /\ req.method \notin {"merge", "read"}
  BY DEF Serve
<1>2. PICK o \in Outcomes : \E landed \in Landed(o) :
        /\ ~Accepted(req) => ~landed
        /\ IF landed THEN Effect(req) ELSE UNCHANGED <<store, made>>
        /\ Finish(p, Result(call[p].tool, req, o), landed)
  BY DEF Serve
<1>3. PICK landed \in Landed(o) :
        /\ ~Accepted(req) => ~landed
        /\ IF landed THEN Effect(req) ELSE UNCHANGED <<store, made>>
        /\ Finish(p, Result(call[p].tool, req, o), landed)
  BY <1>2
<1>4. landed \in BOOLEAN
  BY DEF Landed
<1>5. landed => Served(req, p)
  BY <1>1, <1>3, ServedIsProper
<1>6. UNCHANGED <<calls, edits, asked>> /\ asRead' = [asRead EXCEPT ![p] = <<>>]
  BY DEF Serve
<1>7. QED
  BY <1>1, <1>3, <1>4, <1>5, <1>6

LEMMA ServeKeeps ==
    ASSUME ConfigInv, NEW p \in Callers, Serve(p)
    PROVE  ConfigInv'
<1> DEFINE req == IF call[p].pc = "put" THEN call[p].put ELSE call[p].req
<1>1. /\ UNCHANGED <<calls, edits, asked>> /\ asRead' = [asRead EXCEPT ![p] = <<>>]
      /\ \E result, landed :
           /\ Finish(p, result, landed)
           /\ \/ landed = FALSE /\ UNCHANGED <<store, made>>
              \/ landed = TRUE /\ Effect(req) /\ Served(req, p)
  BY Serving
<1> HIDE DEF req
<1>2. StoreWell(store', asked') /\ MadeWell(made', asked')
  <2>1. CASE UNCHANGED <<store, made>>
    BY <1>1, <2>1 DEF ConfigInv
  <2>2. CASE Effect(req) /\ Served(req, p)
    BY <1>1, <2>2, EffectKeeps DEF ConfigInv
  <2>3. QED
    BY <1>1, <2>1, <2>2
<1>3. CallsWell' /\ AllProper' /\ Copies'
  BY <1>1, EndKeeps DEF ConfigInv
<1>4. QED
  BY <1>2, <1>3 DEF ConfigInv

LEMMA MergeReadKeeps ==
    ASSUME ConfigInv, NEW p \in Callers, MergeRead(p)
    PROVE  ConfigInv'
<1>1. /\ call[p].pc = "sent" /\ call[p].req.method = "merge"
      /\ UNCHANGED <<store, made, calls, edits, asked>>
  BY DEF MergeRead
<1>2. Proper(call[p].req, p, asked)
  BY <1>1 DEF ConfigInv, AllProper, Active
<1> DEFINE on == call[p].req.on
           copying == [pc |-> "put", tool |-> call[p].tool, req |-> call[p].req,
                       put |-> Request("put", on, Merged(store[on], call[p].req.body))]
<1>3. CASE \E result : Finish(p, result, FALSE) /\ UNCHANGED asRead
  BY <1>1, <1>3, EndKeeps DEF ConfigInv
<1>4. CASE call' = [call EXCEPT ![p] = copying] /\ asRead' = [asRead EXCEPT ![p] = store[on]]
  <2>1. /\ DOMAIN call' = Callers
        /\ call'[p] = copying
        /\ \A q \in Callers : q # p => call'[q] = call[q]
    <3>1. DOMAIN call = Callers
      BY DEF ConfigInv, CallsWell
    <3> HIDE DEF copying
    <3>2. QED
      BY <1>4, <3>1
  <2>2. /\ DOMAIN asRead' = Callers
        /\ asRead'[p] = store[on]
        /\ \A q \in Callers : q # p => asRead'[q] = asRead[q]
    BY <1>4 DEF ConfigInv, CallsWell
  <2>3. on \in Records
    BY <1>1, <1>2 DEF Proper
  <2>4. CopyWell(copying, store[on])
    BY <1>1, <2>3 DEF CopyWell, ConfigInv, StoreWell
  <2>5. CallsWell'
    BY <1>1, <2>1, <2>2 DEF ConfigInv, CallsWell
  <2>6. AllProper'
    BY <1>1, <1>2, <2>1 DEF ConfigInv, AllProper, Active
  <2>7. Copies'
    <3>1. SUFFICES ASSUME NEW q \in Callers, call'[q].pc = "put"
                   PROVE  CopyWell(call'[q], asRead'[q])
      BY DEF Copies
    <3>2. CASE q = p
      BY <2>1, <2>2, <2>4, <3>2
    <3>3. CASE q # p
      BY <2>1, <2>2, <3>1, <3>3 DEF ConfigInv, Copies
    <3>4. QED
      BY <3>2, <3>3
  <2>8. QED
    BY <1>1, <2>5, <2>6, <2>7 DEF ConfigInv
<1>5. QED
  BY <1>3, <1>4 DEF MergeRead

LEMMA ReadKeeps ==
    ASSUME ConfigInv, NEW p \in Callers, Read(p)
    PROVE  ConfigInv'
<1>1. /\ call[p].pc = "sent"
      /\ UNCHANGED <<store, made, calls, edits, asked, asRead>>
  BY DEF Read
<1>2. CASE call' = [call EXCEPT ![p].parts = @ + 1]
  <2>1. DOMAIN call = Callers /\ {"pc", "tool", "req"} \subseteq DOMAIN call[p]
    BY <1>1 DEF ConfigInv, CallsWell
  <2> DEFINE more == [call[p] EXCEPT !.parts = @ + 1]
  <2>2. more.pc = "sent" /\ more.req = call[p].req /\ DOMAIN more = DOMAIN call[p]
    BY <1>1, <2>1
  <2>3. call' = [call EXCEPT ![p] = more]
    BY <1>2
  <2> HIDE DEF more
  <2>4. DOMAIN call' = Callers /\ call'[p] = more /\ \A q \in Callers : q # p => call'[q] = call[q]
    BY <2>1, <2>3
  <2>5. \A q \in Callers : call'[q].pc = call[q].pc /\ call'[q].req = call[q].req /\ DOMAIN call'[q] = DOMAIN call[q]
    BY <1>1, <2>2, <2>4
  <2>6. CallsWell'
    BY <1>1, <2>4, <2>5 DEF ConfigInv, CallsWell
  <2>7. AllProper'
    BY <1>1, <2>5 DEF ConfigInv, AllProper, Active
  <2>8. \A q \in Callers : call'[q].pc = "put" => call'[q] = call[q]
    BY <1>1, <2>4, <2>5
  <2>9. Copies'
    BY <1>1, <2>8 DEF ConfigInv, Copies
  <2>10. QED
    BY <1>1, <2>6, <2>7, <2>9 DEF ConfigInv
<1>3. CASE \E result : Finish(p, result, FALSE)
  BY <1>1, <1>3, EndKeeps DEF ConfigInv
<1>4. QED
  BY <1>2, <1>3 DEF Read

LEMMA EditKeeps ==
    ASSUME ConfigInv, Edit
    PROVE  ConfigInv'
<1>1. UNCHANGED <<made, call, calls, asked, asRead>> /\ edits' \in 0..MaxEdits
  BY BoundsAssumption DEF Edit, ConfigInv, CallsWell
<1>2. PICK on \in Records, key \in Full : store' = [store EXCEPT ![on][key] = Studio]
  BY DEF Edit
<1> DEFINE edited == [store[on] EXCEPT ![key] = Studio]
<1>3. store' = [store EXCEPT ![on] = edited] /\ on \in Resources
  BY <1>2, ResourcesApart
<1>4. DOMAIN edited = DOMAIN store[on]
  OBVIOUS
<1> HIDE DEF edited
<1>5. DOMAIN store' = Resources /\ store'[on] = edited /\ \A r \in Resources : r # on => store'[r] = store[r]
  BY <1>3, WrittenOver DEF ConfigInv
<1>6. \A r \in Settings \cup {"signals", "identity", "painter", "bot"} : store'[r] = store[r]
  BY <1>5, ResourcesApart
<1>7. \A r \in Records : /\ Full \cup ServerKeys \subseteq DOMAIN store'[r]
                         /\ DOMAIN store'[r] \subseteq Defined[r] \cup ServerKeys
  BY <1>4, <1>5, ResourcesApart DEF ConfigInv, StoreWell
<1>8. StoreWell(store', asked')
  BY <1>1, <1>5, <1>6, <1>7 DEF ConfigInv, StoreWell, Settings
<1>9. CallsWell' /\ AllProper' /\ Copies' /\ MadeWell(made', asked')
  BY <1>1 DEF ConfigInv, CallsWell, AllProper, Active, Copies
<1>10. QED
  BY <1>8, <1>9 DEF ConfigInv

LEMMA InitHolds == Init => ConfigInv
<1> SUFFICES ASSUME Init PROVE ConfigInv
  OBVIOUS
<1>1. /\ DOMAIN store = Resources
      /\ \A r \in Records : store[r] = Fields(Full \cup ServerKeys, Old)
      /\ \A r \in Settings \cup {"signals"} : store[r] = Old
      /\ store["identity"] = [label |-> Old, role |-> Old, is_active |-> FALSE]
      /\ store["painter"] = [label |-> Old, status |-> "draft"]
      /\ store["bot"] = [label |-> Old, status |-> "draft"]
  BY DEF Init, Resources, Records, Settings
<1>2. /\ made = {} /\ calls = 0 /\ edits = 0
      /\ call = [p \in Callers |-> Idle] /\ asRead = [p \in Callers |-> <<>>]
  BY DEF Init
<1>3. \A p \in Callers : call[p].pc = "idle"
  BY <1>2 DEF Idle
<1>4. StoreWell(store, asked)
  <2>1. \A r \in Records : DOMAIN store[r] = Full \cup ServerKeys /\ Full \subseteq Defined[r]
    BY <1>1 DEF Fields, Defined, Records
  <2>2. QED
    BY <1>1, <2>1, WritersAssumption DEF StoreWell, Settings
<1>5. CallsWell
  BY <1>2, <1>3, BoundsAssumption DEF CallsWell
<1>6. AllProper /\ Copies /\ MadeWell(made, asked)
  BY <1>2, <1>3 DEF AllProper, Active, Copies, MadeWell
<1>7. QED
  BY <1>4, <1>5, <1>6 DEF ConfigInv

\* The invariant that the properties follow from.
THEOREM ConfigInvariant == Spec => []ConfigInv
<1>1. Init => ConfigInv
  BY InitHolds
<1>2. ConfigInv /\ [Next]_vars => ConfigInv'
  <2>1. SUFFICES ASSUME ConfigInv, [Next]_vars PROVE ConfigInv'
    OBVIOUS
  <2>2. CASE Edit
    BY <2>1, <2>2, EditKeeps
  <2>3. CASE \E p \in Callers : Begin(p) \/ Serve(p) \/ MergeRead(p) \/ Read(p)
    BY <2>1, <2>3, BeginKeeps, ServeKeeps, MergeReadKeeps, ReadKeeps
  <2>4. CASE UNCHANGED vars
    BY <2>1, <2>4 DEF vars, ConfigInv, CallsWell, AllProper, Active, Copies
  <2>5. QED
    BY <2>1, <2>2, <2>3, <2>4 DEF Next
<1>3. QED
  BY <1>1, <1>2, PTL DEF Spec

\* The records, the settings and the calls keep their shapes.
THEOREM ConfigTypeCorrect == Spec => []TypeOK
<1>1. ConfigInv => TypeOK
  BY DEF ConfigInv, StoreWell, CallsWell, TypeOK
<1>2. QED
  BY <1>1, ConfigInvariant, PTL

\* Nothing goes live, is published, is deployed or is cleared unasked.
THEOREM NothingUnasked == Spec => []AskedFor
<1>1. ConfigInv => AskedFor
  BY DEF ConfigInv, StoreWell, MadeWell, AskedFor
<1>2. QED
  BY <1>1, ConfigInvariant, PTL

\* An update that lands writes its own keys, puts the others back as it read
\* them, and leaves the server's alone, whatever happened since it read them.
THEOREM UpdatesWriteWhatTheyRead == Spec => RestAsRead
<1> DEFINE Puts ==
      \A p \in Callers : PutLands(p) =>
         LET on == call[p].req.on
             told == DOMAIN call[p].req.body \cap Defined[on]
         IN /\ \A k \in told : store'[on][k] = p
            /\ \A k \in DOMAIN asRead[p] \ (told \cup ServerKeys) : store'[on][k] = asRead[p][k]
            /\ \A k \in ServerKeys : store'[on][k] = store[on][k]
<1>1. ConfigInv /\ [Next]_vars => [Puts]_vars
  <2>1. SUFFICES ASSUME ConfigInv, Next, NEW p \in Callers, PutLands(p)
                 PROVE  LET on == call[p].req.on
                            told == DOMAIN call[p].req.body \cap Defined[on]
                        IN /\ \A k \in told : store'[on][k] = p
                           /\ \A k \in DOMAIN asRead[p] \ (told \cup ServerKeys) : store'[on][k] = asRead[p][k]
                           /\ \A k \in ServerKeys : store'[on][k] = store[on][k]
    OBVIOUS
  <2> DEFINE on == call[p].req.on
             body == call[p].req.body
             put == call[p].put
             written == PutOver(put, store[on])
  <2>2. call[p].pc = "put" /\ call'[p] # call[p] /\ call'[p].landed /\ DOMAIN call = Callers
    BY <2>1 DEF PutLands, ConfigInv, CallsWell
  <2>3. Serve(p)
    <3>1. ~Edit
      BY <2>2 DEF Edit
    <3>2. ~Begin(p) /\ ~MergeRead(p) /\ ~Read(p)
      BY <2>2 DEF Begin, Active, MergeRead, Read
    <3>3. \A q \in Callers : q # p => ~(Begin(q) \/ Serve(q) \/ MergeRead(q) \/ Read(q))
      BY <2>2 DEF Begin, Serve, MergeRead, Read, Finish
    <3>4. QED
      BY <2>1, <3>1, <3>2, <3>3 DEF Next
  <2>4. /\ call[p].req.method = "merge"
        /\ put = Request("put", on, Merged(asRead[p], body))
        /\ DOMAIN asRead[p] \subseteq Defined[on] \cup ServerKeys
    BY <2>1, <2>2 DEF ConfigInv, Copies, CopyWell
  <2>5. Effect(put) /\ Served(put, p)
    <3>0. put = IF call[p].pc = "put" THEN call[p].put ELSE call[p].req
      BY <2>2
    <3> HIDE DEF put
    <3>1. PICK result, landed : /\ Finish(p, result, landed)
                                /\ \/ landed = FALSE
                                   \/ Effect(put) /\ Served(put, p)
      BY <2>1, <2>3, <3>0, Serving
    <3>2. call'[p].landed = landed
      BY <2>1, <3>1, Finished DEF ConfigInv
    <3>3. QED
      BY <2>2, <3>1, <3>2
  <2>6. /\ put.method = "put" /\ put.on = on /\ put.body = Merged(asRead[p], body)
        /\ on \in Records /\ Full \subseteq DOMAIN put.body
    BY <2>4, <2>5 DEF Request, Served
  <2>7. \A k \in DOMAIN body : body[k] = p
    BY <2>1, <2>2, <2>4 DEF ConfigInv, AllProper, Active, Proper
  <2>8. store'[on] = written
    <3>1. store' = [store EXCEPT ![on] = written]
      BY <2>5, <2>6 DEF Effect, PutOver
    <3> HIDE DEF written
    <3>2. QED
      BY <2>1, <2>6, <3>1, ResourcesApart, WrittenOver DEF ConfigInv
  <2>9. /\ \A k \in DOMAIN put.body \cap Defined[put.on] : written[k] = put.body[k]
        /\ \A k \in ServerKeys : written[k] = store[on][k]
    <3>1. ServerKeys \subseteq DOMAIN store[on]
      BY <2>1, <2>6 DEF ConfigInv, StoreWell
    <3>2. put.on \in Records /\ Full \subseteq DOMAIN put.body
      BY <2>6
    <3> HIDE DEF on, put
    <3>3. \A k : k \in DOMAIN put.body /\ k \in Defined[put.on] => PutOver(put, store[on])[k] = put.body[k]
      BY PutField
    <3>4. \A k \in ServerKeys : PutOver(put, store[on])[k] = store[on][k]
      BY <3>1, <3>2, PutShape
    <3>5. QED
      BY <3>3, <3>4
  <2>10. /\ DOMAIN put.body = DOMAIN body \cup (DOMAIN asRead[p] \ ServerKeys)
         /\ \A k \in DOMAIN body : put.body[k] = body[k]
         /\ \A k \in DOMAIN put.body \ DOMAIN body : put.body[k] = asRead[p][k]
    BY <2>6 DEF Merged, Over, Restrict
  <2> HIDE DEF written, body, put, on
  <2>11. \A k \in DOMAIN body \cap Defined[on] : written[k] = p
    BY <2>6, <2>7, <2>9, <2>10
  <2>12. \A k \in DOMAIN asRead[p] \ ((DOMAIN body \cap Defined[on]) \cup ServerKeys) : written[k] = asRead[p][k]
    BY <2>4, <2>6, <2>9, <2>10
  <2>13. QED
    BY <2>8, <2>9, <2>11, <2>12 DEF body, on
<1>2. QED
  BY <1>1, ConfigInvariant, PTL DEF Spec, RestAsRead
=============================================================================
