------------------------------ MODULE FlowEdit ------------------------------
(***************************************************************************)
(* The dialog-flow tools.  The platform stores one graph per bot and only  *)
(* replaces it whole, so shielva_add_flow_node is a GET, some checks and a *)
(* POST, while other callers of the tools and a person in the browser edit *)
(* the same graph.  The platform and the browser are modelled from how the *)
(* tools use them.                                                         *)
(***************************************************************************)
EXTENDS Naturals, Sequences, FiniteSets, SequencesExt

CONSTANTS
  Caller,    \* tool calls in flight, one per caller
  NodeId,
  Place,     \* what an edit changes in a node: its position, its data
  Draft,     \* the whole graphs callers pass to shielva_save_flow
  Expected,  \* what adds pass as expected_node_count: counts, or None
  Garbled,   \* whether a 2xx may carry a body that is not JSON
  MaxRedraws,  \* bound on the person's edits
  None

Node == [id : NodeId, place : Place]
Edge == [source : NodeId, target : NodeId]

Ids(nodes) == {nodes[i].id : i \in DOMAIN nodes}
Contents(nodes) == {nodes[i] : i \in DOMAIN nodes}

\* What is wrong with a graph: ids that two nodes share, edges that dangle.
Twice(graph) ==
  {id \in NodeId : \E i, j \in DOMAIN graph.nodes :
     i # j /\ graph.nodes[i].id = id /\ graph.nodes[j].id = id}
Loose(graph) == {e \in graph.edges : ~({e.source, e.target} \subseteq Ids(graph.nodes))}
Flaws(graph) == Twice(graph) \cup Loose(graph)

Empty == [nodes |-> <<>>, edges |-> {}]

ASSUME DraftAssumption == Draft \subseteq [nodes : Seq(Node), edges : SUBSET Edge]
ASSUME FlagsAssumption == Expected \subseteq Nat \cup {None} /\ Garbled \in BOOLEAN
ASSUME RedrawsAssumption == MaxRedraws \in Nat
ASSUME NoneAssumption == None \notin NodeId \cup Node \cup Nat

VARIABLES
  flow,    \* the stored graph
  adding,  \* the add each caller has in flight
  redraws, \* edits the person has made
  brought  \* history: the flaws of the graphs that were saved whole

flowVars == <<flow, adding, redraws, brought>>

AtRest == [pc |-> "idle", node |-> None, from |-> None, read |-> Empty]

FlowInit ==
  /\ flow = Empty
  /\ adding = [c \in Caller |-> AtRest]
  /\ redraws = 0
  /\ brought = {}

-----------------------------------------------------------------------------
(* shielva_save_flow; shielva_get_flow and shielva_list_bots only read *)

\* The gateway refuses the POST and nothing is stored.
Refused(c) ==
  /\ adding[c].pc = "post"
  /\ adding' = [adding EXCEPT ![c] = AtRest]
  /\ UNCHANGED <<flow, redraws, brought>>

\* What a GET is taken to say: a 2xx that is not JSON is an empty object.
Body == {flow} \cup (IF Garbled THEN {Empty} ELSE {})

\* Replaces whatever is there by any list of nodes and any edges: neither is
\* looked into.  What it drops is dropped on purpose.
SaveFlow(c, draft) ==
  /\ adding[c].pc = "idle"
  /\ flow' = draft
  /\ brought' = brought \cup Flaws(draft)
  /\ UNCHANGED <<adding, redraws>>

-----------------------------------------------------------------------------
(* shielva_add_flow_node *)

\* Variants named ...Mutant are plausible bugs of the operator they precede.
\* edge_from is written without looking it up.
AcceptsDanglingMutant(body, node, from, expected) ==
  /\ expected \in {None, Len(body.nodes)}
  /\ node.id \notin Ids(body.nodes)

\* The checks on the graph as read: the count, the id, the node joined from
\* (the new one included: it is appended before the lookup).
Accepts(body, node, from, expected) ==
  /\ expected \in {None, Len(body.nodes)}
  /\ node.id \notin Ids(body.nodes)
  /\ from \in Ids(body.nodes) \cup {node.id, None}

\* The GET and the checks; a call they refuse changes nothing.
ReadFlow(c, body, node, from, expected) ==
  /\ adding[c].pc = "idle"
  /\ Accepts(body, node, from, expected)
  /\ adding' = [adding EXCEPT ![c] =
                [pc |-> "post", node |-> node, from |-> from, read |-> body]]
  /\ UNCHANGED <<flow, redraws, brought>>

\* The edge is written whether or not edge_from was passed.
ExtendedAlwaysJoinedMutant(add) ==
  [nodes |-> Append(add.read.nodes, add.node),
   edges |-> add.read.edges \cup {[source |-> add.from, target |-> add.node.id]}]

\* The graph as read, one node longer.
Extended(add) ==
  [nodes |-> Append(add.read.nodes, add.node),
   edges |-> add.read.edges \cup
     IF add.from = None THEN {} ELSE {[source |-> add.from, target |-> add.node.id]}]

\* The POST replaces the graph by the extended copy.  Whether its answer arrives
\* or the caller is told the call failed, the next add starts with a GET.
WriteFlow(c) ==
  /\ adding[c].pc = "post"
  /\ flow' = Extended(adding[c])
  /\ adding' = [adding EXCEPT ![c] = AtRest]
  /\ UNCHANGED <<redraws, brought>>

-----------------------------------------------------------------------------
(* The person in the browser saves whole graphs too, and knows what is there *)

Redraw(graph) ==
  /\ redraws < MaxRedraws
  /\ redraws' = redraws + 1
  /\ flow' = graph
  /\ UNCHANGED <<adding, brought>>

Draw(node) ==
  /\ node.id \notin Ids(flow.nodes)
  /\ Redraw([flow EXCEPT !.nodes = Append(@, node)])

Drag(i, place) ==
  /\ place # flow.nodes[i].place
  /\ Redraw([flow EXCEPT !.nodes = [flow.nodes EXCEPT ![i].place = place]])

Erase(i) ==
  LET gone == flow.nodes[i] IN
  Redraw([nodes |-> RemoveAt(flow.nodes, i),
          edges |-> {e \in flow.edges : gone.id \notin {e.source, e.target}}])

Tool(c) ==
  \/ \E draft \in Draft : SaveFlow(c, draft)
  \/ \E body \in Body, node \in Node, from \in NodeId \cup {None}, expected \in Expected :
       ReadFlow(c, body, node, from, expected)
  \/ WriteFlow(c)
  \/ Refused(c)

Browser ==
  \/ \E node \in Node : Draw(node)
  \/ \E i \in DOMAIN flow.nodes : Erase(i) \/ \E place \in Place : Drag(i, place)

FlowNext == (\E c \in Caller : Tool(c)) \/ Browser

FlowSpec == FlowInit /\ [][FlowNext]_flowVars

-----------------------------------------------------------------------------
(* Properties *)

Graph == [nodes : Seq(Node), edges : SUBSET Edge]
FlowCall ==
  [pc : {"idle", "post"}, node : Node \cup {None}, from : NodeId \cup {None}, read : Graph]

FlowTypeOK ==
  /\ flow \in Graph
  /\ adding \in [Caller -> FlowCall]
  /\ redraws \in 0 .. MaxRedraws
  /\ brought \subseteq NodeId \cup Edge

\* shielva_save_flow stores any graph, adds extend whatever a GET seemed to
\* say: however these, lost answers, retries and the designer overlap, an id
\* that is there twice or an edge that dangles came with a graph saved whole.
AddsBringNoFlaw == Flaws(flow) \subseteq brought

\* "Append ONE node to a bot's flow", and expected_node_count "lets the caller
\* refuse to write onto a graph that changed underneath it" (flow_tools.py:27,
\* 130): an add that lands leaves what is stored where it is.  Not so: the
\* count guards the read and not the write, and a body that does not parse
\* reads as an empty graph.
Lands(c) == adding[c].pc = "post" /\ adding'[c].pc = "idle"
AddsOnlyAdd ==
  [][(\E c \in Caller : Lands(c)) => /\ Contents(flow.nodes) \subseteq Contents(flow'.nodes)
                                    /\ flow.edges \subseteq flow'.edges]_flowVars
=============================================================================
