---------------------------- MODULE WorkflowGraphs ----------------------------
(***************************************************************************)
(* Workflow graphs: what the validator says of one, how a graph is stored   *)
(* and read back, and what the compiled graph does when it runs.  Names,    *)
(* descriptions, positions and prompts are left out; a config is the        *)
(* resource a node refers to.                                               *)
(***************************************************************************)
EXTENDS Naturals, Sequences, FiniteSets, SequencesExt

CONSTANTS
  Employees, DefaultModel,   \* the model each employee answers with
  Models, Knowledge,
  Unset,                     \* the config of a node that refers to nothing
  MAX_WORKFLOW_NODES, MAX_WORKFLOW_EDGES

WorkflowGraphsAssumption ==
  /\ DefaultModel \in [Employees -> Models]
  /\ Unset \notin Employees \cup Models \cup Knowledge
  /\ Employees \cap Models = {} /\ Knowledge \cap (Employees \cup Models) = {}
  /\ MAX_WORKFLOW_NODES \in Nat /\ MAX_WORKFLOW_EDGES \in Nat

-----------------------------------------------------------------------------
(* Graphs *)
WorkflowNodeType == {"start", "ai_chat", "knowledge_retrieval", "end"}
AiChatTarget == Employees \cup Models

Configs(type) == CASE type = "ai_chat" -> AiChatTarget \cup {Unset}
                   [] type = "knowledge_retrieval" -> Knowledge
                   [] OTHER -> {Unset}

Node(id, type, config) == [id |-> id, type |-> type, config |-> config]
Edge(id, source, target) == [id |-> id, source |-> source, target |-> target]

IsWorkflowNode(n) == n.type \in WorkflowNodeType /\ n.config \in Configs(n.type)
IsWorkflowConfiguration(g) ==
  /\ DOMAIN g = {"nodes", "edges"}
  /\ \A i \in DOMAIN g.nodes : IsWorkflowNode(g.nodes[i])
  /\ \A i \in DOMAIN g.edges : DOMAIN g.edges[i] = {"id", "source", "target"}

EmptyGraph == [nodes |-> <<>>, edges |-> <<>>]

NodeIds(g) == {g.nodes[i].id : i \in DOMAIN g.nodes}
OfType(g, type) == {i \in DOMAIN g.nodes : g.nodes[i].type = type}
IdsOf(g, type) == {g.nodes[i].id : i \in OfType(g, type)}

-----------------------------------------------------------------------------
(* validate_workflow_graph: an issue is a code and the node or edge it is about *)
Issue(code, at) == [code |-> code, at |-> at]
Whole == <<>>
When(condition, issue) == IF condition THEN {issue} ELSE {}

Repeated(items) ==
  {items[i].id : i \in {k \in DOMAIN items : \E l \in DOMAIN items : l # k /\ items[l].id = items[k].id}}

Connections(g) == {<<e.source, e.target>> : e \in {f \in ToSet(g.edges) :
                                              {f.source, f.target} \subseteq NodeIds(g)}}
Outgoing(g) == [n \in NodeIds(g) |-> {t \in NodeIds(g) : <<n, t>> \in Connections(g)}]
Incoming(g) == [n \in NodeIds(g) |-> {s \in NodeIds(g) : <<s, n>> \in Connections(g)}]

ReachableFrom(starting, adjacency) ==
  LET visited[k \in Nat] ==
        IF k = 0 THEN starting
        ELSE LET before == visited[k - 1] IN before \cup UNION {adjacency[n] : n \in before}
  IN  visited[Cardinality(DOMAIN adjacency)]

(* What is left when nodes without a predecessor are taken away, again and again *)
HasCycle(incoming) ==
  LET remaining[k \in Nat] ==
        IF k = 0 THEN DOMAIN incoming
        ELSE LET before == remaining[k - 1] IN {n \in before : incoming[n] \cap before # {}}
  IN  remaining[Cardinality(DOMAIN incoming)] # {}

LimitIssues(g) ==
  When(Len(g.nodes) > MAX_WORKFLOW_NODES, Issue("node_limit_exceeded", Whole))
  \cup When(Len(g.edges) > MAX_WORKFLOW_EDGES, Issue("edge_limit_exceeded", Whole))

NodeIssues(g) ==
  {Issue("duplicate_node_id", n) : n \in Repeated(g.nodes)}
  \cup {Issue("duplicate_edge_id", e) : e \in Repeated(g.edges)}
  \cup When(OfType(g, "start") = {}, Issue("missing_start", Whole))
  \cup When(Cardinality(OfType(g, "start")) > 1, Issue("multiple_starts", Whole))
  \cup When(OfType(g, "end") = {}, Issue("missing_end", Whole))

EdgeIssuesAt(g, i) ==
  LET e == g.edges[i]
      is == [edge_source_missing |-> e.source \notin NodeIds(g),
             edge_target_missing |-> e.target \notin NodeIds(g),
             self_loop |-> e.source = e.target,
             duplicate_connection |-> \E k \in 1 .. i - 1 :
               g.edges[k].source = e.source /\ g.edges[k].target = e.target,
             start_has_incoming_edge |-> e.target \in IdsOf(g, "start"),
             end_has_outgoing_edge |-> e.source \in IdsOf(g, "end")]
  IN  {Issue(code, e.id) : code \in {c \in DOMAIN is : is[c]}}

EdgeIssues(g) == UNION {EdgeIssuesAt(g, i) : i \in DOMAIN g.edges}

DegreeIssues(outgoing, incoming) ==
  {Issue("multiple_outgoing_edges", n) : n \in {m \in DOMAIN outgoing : Cardinality(outgoing[m]) > 1}}
  \cup {Issue("isolated_node", n) :
          n \in {m \in DOMAIN outgoing : outgoing[m] = {} /\ incoming[m] = {}}}

EverythingReached(from, adjacency) == DOMAIN adjacency
Reached(from, adjacency) == ReachableFrom(from, adjacency)

(* Not asked of a graph with two nodes of one id *)
PathIssues(g, outgoing, incoming) ==
  LET starts == IdsOf(g, "start")
      ends == IdsOf(g, "end")
      unreached == IF Cardinality(OfType(g, "start")) = 1
                   THEN NodeIds(g) \ Reached(starts, outgoing) ELSE {}
      astray == IF ends # {} THEN NodeIds(g) \ Reached(ends, incoming) ELSE {}
  IN  IF Repeated(g.nodes) # {} THEN {}
      ELSE {Issue("unreachable_from_start", n) : n \in unreached}
           \cup {Issue("cannot_reach_end", n) : n \in astray}
           \cup When(HasCycle(incoming), Issue("cycle_detected", Whole))

StructuralIssues(g) ==
  LET outgoing == Outgoing(g)
      incoming == Incoming(g)
  IN  LimitIssues(g) \cup NodeIssues(g) \cup EdgeIssues(g)
      \cup DegreeIssues(outgoing, incoming) \cup PathIssues(g, outgoing, incoming)

-----------------------------------------------------------------------------
(* WorkflowCatalog.validate: what is referred to, in a directory of what is
   present and of the models that are enabled *)
Directories == [present : SUBSET (Employees \cup Models \cup Knowledge), enabled : SUBSET Models]

ModelOf(target) == IF target \in Employees THEN DefaultModel[target] ELSE target

TargetIssues(n, directory) ==
  IF n.config = Unset THEN {"ai_target_required"}
  ELSE IF n.config \in Employees \ directory.present THEN {"employee_not_found"}
  ELSE IF ModelOf(n.config) \notin directory.present THEN {"model_configuration_not_found"}
  ELSE IF ModelOf(n.config) \notin directory.enabled THEN {"model_configuration_disabled"} ELSE {}

ReferenceIssuesOf(n, directory) ==
  CASE n.type = "ai_chat" -> TargetIssues(n, directory)
    [] n.type = "knowledge_retrieval" ->
         IF n.config \in directory.present THEN {} ELSE {"knowledge_base_not_found"}
    [] OTHER -> {}

ReferenceIssues(g, directory) ==
  UNION {{Issue(code, g.nodes[i].id) : code \in ReferenceIssuesOf(g.nodes[i], directory)} :
           i \in DOMAIN g.nodes}

Issues(g, directory) ==
  LET structural == StructuralIssues(g)
  IN  IF structural # {} THEN structural ELSE ReferenceIssues(g, directory)

-----------------------------------------------------------------------------
(* Rows: one for each node and edge, by id, with its place in the definition *)
ConfigValues(n) ==
  [type |-> CASE n.config \in Employees -> "employee" [] n.config \in Models -> "model"
              [] n.config \in Knowledge -> "knowledge_base" [] OTHER -> "none",
   id |-> n.config]

ConfigFromValues(type, values) ==
  IF type = "ai_chat" /\ values.type \in {"employee", "model"} THEN values.id
  ELSE IF type = "knowledge_retrieval" /\ values.type = "knowledge_base" THEN values.id ELSE Unset

NodeRows(g) == {[id |-> g.nodes[i].id, ordinal |-> i, type |-> g.nodes[i].type,
                 config |-> ConfigValues(g.nodes[i])] : i \in DOMAIN g.nodes}
EdgeRows(g) == {[id |-> g.edges[i].id, ordinal |-> i, source |-> g.edges[i].source,
                 target |-> g.edges[i].target] : i \in DOMAIN g.edges}
WorkflowRow(g) == [nodes |-> NodeRows(g), edges |-> EdgeRows(g)]

Ordered(rows) == [i \in 1 .. Cardinality(rows) |-> CHOOSE r \in rows : r.ordinal = i]

ToDomain(row) ==
  LET nodes == Ordered(row.nodes)
      edges == Ordered(row.edges)
  IN  [nodes |-> [i \in DOMAIN nodes |->
                   Node(nodes[i].id, nodes[i].type, ConfigFromValues(nodes[i].type, nodes[i].config))],
       edges |-> [i \in DOMAIN edges |-> Edge(edges[i].id, edges[i].source, edges[i].target)]]

-----------------------------------------------------------------------------
(* Runs.  The graph engine (a library) runs the start node and then whatever
   the node that ran is connected to, until a node of type end *)
GraphState == [output |-> "", knowledge |-> FALSE, completed |-> <<>>, failed |-> FALSE]

NodeOf(g, id) == g.nodes[CHOOSE i \in DOMAIN g.nodes : g.nodes[i].id = id]

(* The end passes on what there is: the output, the fragments or the input *)
EndOutput(state) ==
  IF state.output # "" THEN state.output ELSE IF state.knowledge THEN "fragments" ELSE "input"

RunnerFails(n, directory) == ReferenceIssuesOf(n, directory) # {}

NodeUpdate(state, n) ==
  [state EXCEPT
    !.output = CASE n.type = "start" -> "input"
                 [] n.type = "ai_chat" -> "answer"
                 [] n.type = "knowledge_retrieval" -> state.output
                 [] OTHER -> EndOutput(state),
    !.knowledge = @ \/ n.type = "knowledge_retrieval",
    !.completed = Append(@, n.id)]

(* A node that ran before is refused, and so is a step beyond the limit *)
RunNode(g, state, id, directory) ==
  LET n == NodeOf(g, id)
  IN  IF RunnerFails(n, directory) \/ id \in ToSet(state.completed)
         \/ Len(state.completed) = MAX_WORKFLOW_NODES + 2
      THEN [state EXCEPT !.failed = TRUE]
      ELSE NodeUpdate(state, n)

Ended(g, state) ==
  state.failed \/ (state.completed # <<>> /\ NodeOf(g, Last(state.completed)).type = "end")

Following(g, state) ==
  IF state.completed = <<>> THEN IdsOf(g, "start")
  ELSE Outgoing(g)[Last(state.completed)]

(* Of a graph that compiles, one without structural issues *)
Run(g, directory) ==
  LET after[k \in Nat] ==
        IF k = 0 THEN GraphState
        ELSE LET state == after[k - 1]
             IN  IF Ended(g, state) \/ Following(g, state) = {} THEN state
                 ELSE RunNode(g, state, CHOOSE n \in Following(g, state) : TRUE, directory)
  IN  after[Len(g.nodes) + 1]

-----------------------------------------------------------------------------
(* What a valid graph is: its nodes in a row, from its one start to its one end,
   with the connections between neighbours and no others *)
InARow(g, p) ==
  /\ \A i \in 1 .. Len(p) : /\ (g.nodes[p[i]].type = "start") = (i = 1)
                           /\ (g.nodes[p[i]].type = "end") = (i = Len(p))
  /\ {<<e.source, e.target>> : e \in ToSet(g.edges)}
       = {<<g.nodes[p[i]].id, g.nodes[p[i + 1]].id>> : i \in 1 .. Len(p) - 1}

IsChain(g) ==
  /\ Len(g.nodes) \in 2 .. MAX_WORKFLOW_NODES
  /\ Len(g.edges) = Len(g.nodes) - 1 /\ Len(g.edges) <= MAX_WORKFLOW_EDGES
  /\ Cardinality(NodeIds(g)) = Len(g.nodes)
  /\ Cardinality({e.id : e \in ToSet(g.edges)}) = Len(g.edges)
  /\ \E p \in SetToSeqs(DOMAIN g.nodes) : InARow(g, p)

=============================================================================
