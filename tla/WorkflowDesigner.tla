---------------------------- MODULE WorkflowDesigner ----------------------------
(***************************************************************************)
(* The designer in the browser, the interface that validates and stores     *)
(* what it sends, and the workflows stored.  Saving is two requests, one    *)
(* that validates and one that stores.  The editor goes on while they are   *)
(* under way, and a user who leaves what is being saved can save again.     *)
(***************************************************************************)
EXTENDS WorkflowGraphs

CONSTANTS
  Workflows,     \* ids of workflows
  Saves,         \* saves that can be under way at one time
  Stored0,       \* the workflows stored at first, by id
  Posted,        \* graphs a client of the interface sends to be validated
  Directory,     \* what is present and enabled
  MaxNodes, MaxEdits, MaxFaults

(* What the designer makes.  An id is a type and a number, and an edge's names what it
   joins.  Every node has an id of its own, an edge joins two nodes that may be joined,
   and no node has two ways on *)
NodeId == WorkflowNodeType \X Nat
DesignerGraphs ==
  [nodes : Seq([id : NodeId, type : WorkflowNodeType,
                config : AiChatTarget \cup Knowledge \cup {Unset}]),
   edges : Seq([id : {"edge"} \X NodeId \X NodeId, source : NodeId, target : NodeId])]

Joins(g, e) ==
  /\ e.id = <<"edge", e.source, e.target>> /\ e.source # e.target
  /\ \E i \in DOMAIN g.nodes : g.nodes[i].id = e.source /\ g.nodes[i].type # "end"
  /\ \E i \in DOMAIN g.nodes : g.nodes[i].id = e.target /\ g.nodes[i].type # "start"

IsDesigned(g) ==
  /\ g \in DesignerGraphs
  /\ \A i \in DOMAIN g.nodes : g.nodes[i].config \in Configs(g.nodes[i].type) \cup {Unset}
  /\ \A i, k \in DOMAIN g.nodes : g.nodes[k].id = g.nodes[i].id => k = i
  /\ \A i \in DOMAIN g.edges : Joins(g, g.edges[i])
  /\ \A i, k \in DOMAIN g.edges : g.edges[k].source = g.edges[i].source => k = i

NoWorkflow == "none"
NoSave == "none"

WorkflowDesignerAssumption ==
  /\ WorkflowGraphsAssumption
  /\ DOMAIN Stored0 \subseteq Workflows /\ NoWorkflow \notin Workflows /\ NoSave \notin Saves
  /\ \A w \in DOMAIN Stored0 : IsDesigned(Stored0[w]) /\ Issues(Stored0[w], Directory) = {}
  /\ \A g \in Posted : IsWorkflowConfiguration(g)
  /\ MaxNodes \in Nat /\ MaxEdits \in Nat /\ MaxFaults \in Nat

VARIABLES
  editor,    \* WorkflowEditorState
  saving,    \* the save mutations that are under way
  stored,    \* workflow_definitions, workflow_nodes, workflow_edges
  listed,    \* the list the browser holds
  posted,    \* a request to validate, with its answer
  edits, faults,
  overlapped \* whether a save began before another had been answered

vars == <<editor, saving, stored, listed, posted, edits, faults, overlapped>>

-----------------------------------------------------------------------------
NoRows == [nodes |-> {}, edges |-> {}]

NewEditor == [open |-> FALSE, workflow |-> NoWorkflow, graph |-> EmptyGraph, dirty |-> FALSE,
              issues |-> {}, pending |-> NoSave]
NotSaving == [phase |-> "idle", workflow |-> NoWorkflow, graph |-> EmptyGraph]
NotPosted == [graph |-> EmptyGraph, issues |-> {}, sent |-> FALSE]

Loaded(w, graph) == [open |-> TRUE, workflow |-> w, graph |-> graph, dirty |-> FALSE,
                     issues |-> {}, pending |-> NoSave]

Idle == \A k \in Saves : saving[k].phase = "idle"

IsStored(w) == w # NoWorkflow /\ stored[w] # NoRows

-----------------------------------------------------------------------------
(* The reducer.  Whatever changes the graph makes it dirty and drops the issues *)
Changed(graph) ==
  /\ editor.open /\ edits < MaxEdits
  /\ edits' = edits + 1
  /\ editor' = [editor EXCEPT !.graph = graph, !.dirty = TRUE, !.issues = {}]
  /\ UNCHANGED <<saving, stored, listed, posted, faults, overlapped>>

(* nextNodeId: an id is a type and a number *)
NumbersUsed(type) == {editor.graph.nodes[i].id[2] : i \in {k \in DOMAIN editor.graph.nodes :
                                                     editor.graph.nodes[k].id[1] = type}}
NextNumber(type) ==
  1 + (CHOOSE m \in NumbersUsed(type) \cup {0} : \A k \in NumbersUsed(type) : k <= m)
NextNodeId(type) == <<type, NextNumber(type)>>

AddNode(type) ==
  /\ Len(editor.graph.nodes) < MaxNodes
  /\ Changed([editor.graph EXCEPT !.nodes = Append(@, Node(NextNodeId(type), type, Unset))])

Configure(id, config) ==
  /\ \E i \in DOMAIN editor.graph.nodes :
       /\ editor.graph.nodes[i].id = id /\ config \in Configs(editor.graph.nodes[i].type) \ {Unset}
       /\ editor.graph.nodes[i].config # config
       /\ Changed([editor.graph EXCEPT !.nodes[i].config = config])

(* isValidConnection, asked by the canvas before it dispatches *)
MayConnect(source, target) ==
  /\ NodeOf(editor.graph, source).type # "end" /\ NodeOf(editor.graph, target).type # "start"
  /\ \A e \in ToSet(editor.graph.edges) : e.source # source

NodesConnected(source, target) ==
  /\ {source, target} \subseteq NodeIds(editor.graph) /\ source # target
  /\ MayConnect(source, target)
  /\ Changed([editor.graph EXCEPT
       !.edges = Append(@, Edge(<<"edge", source, target>>, source, target))])

(* filter: the items at some places, in order *)
Kept(items, places) ==
  [n \in 1 .. Cardinality(places) |->
     items[CHOOSE k \in places : Cardinality({l \in places : l < k}) = n - 1]]

KeepEdges(id, e) == TRUE
EdgeStays(id, e) == e.source # id /\ e.target # id

NodeRemoved(id) ==
  /\ id \in NodeIds(editor.graph)
  /\ LET nodes == editor.graph.nodes
         edges == editor.graph.edges
     IN  Changed([nodes |-> Kept(nodes, {i \in DOMAIN nodes : nodes[i].id # id}),
                  edges |-> Kept(edges, {i \in DOMAIN edges : EdgeStays(id, edges[i])})])

EdgeRemoved(id) ==
  /\ \E e \in ToSet(editor.graph.edges) : e.id = id
  /\ Changed([editor.graph EXCEPT !.edges = Kept(@, {i \in DOMAIN @ : @[i].id # id})])

(* A dirty editor is left after the user has confirmed it *)
Shows(next) ==
  /\ editor' = next
  /\ UNCHANGED <<saving, stored, listed, posted, edits, faults, overlapped>>

CreateDraft == editor # Loaded(NoWorkflow, EmptyGraph) /\ Shows(Loaded(NoWorkflow, EmptyGraph))
CloseDesigner == editor.open /\ Shows(NewEditor)
SelectWorkflow(w) == ~editor.open /\ listed[w] # NoRows /\ Shows(Loaded(w, ToDomain(listed[w])))

-----------------------------------------------------------------------------
(* Saving.  The button is busy while the save it began is under way; leaving or
   loading another workflow resets what the browser shows of it, not its requests *)
LocallyValid(graph) ==
  \A n \in ToSet(graph.nodes) : n.type \in {"ai_chat", "knowledge_retrieval"} => n.config # Unset

Save(k) ==
  /\ editor.open /\ editor.pending = NoSave /\ LocallyValid(editor.graph)
  /\ saving[k].phase = "idle"
  /\ saving' = [saving EXCEPT ![k] = [phase |-> "validate", workflow |-> editor.workflow,
                                     graph |-> editor.graph]]
  /\ editor' = [editor EXCEPT !.pending = k]
  /\ overlapped' = (overlapped \/ ~Idle)
  /\ UNCHANGED <<stored, listed, posted, edits, faults>>

Settles(k, next) ==
  /\ saving' = [saving EXCEPT ![k] = NotSaving]
  /\ editor' = [next EXCEPT !.pending = IF editor.pending = k THEN NoSave ELSE editor.pending]

ValidatesDraft(k) ==
  /\ saving[k].phase = "validate"
  /\ LET issues == Issues(saving[k].graph, Directory)
     IN  IF issues = {} THEN saving' = [saving EXCEPT ![k].phase = "store"] /\ UNCHANGED editor
         ELSE Settles(k, [editor EXCEPT !.issues = issues])
  /\ UNCHANGED <<stored, listed, posted, edits, faults, overlapped>>

(* create and update validate once more; the answer is the workflow as stored *)
Stores(k) ==
  /\ saving[k].phase = "store" /\ Issues(saving[k].graph, Directory) = {}
  /\ \E w \in Workflows :
       /\ IF saving[k].workflow = NoWorkflow THEN ~IsStored(w)
          ELSE w = saving[k].workflow /\ IsStored(w)
       /\ stored' = [stored EXCEPT ![w] = WorkflowRow(saving[k].graph)]
       /\ saving' = [saving EXCEPT ![k].phase = "stored", ![k].workflow = w]
  /\ UNCHANGED <<editor, listed, posted, edits, faults, overlapped>>

ShownAfterSave(k) == editor.graph
SavedGraph(k) == ToDomain(WorkflowRow(saving[k].graph))

(* The editor takes what was stored, whatever it shows by now; the list is
   emptied and fetched anew *)
Saved(k) ==
  /\ saving[k].phase = "stored"
  /\ Settles(k, [Loaded(saving[k].workflow, SavedGraph(k)) EXCEPT !.open = editor.open])
  /\ listed' = [w \in Workflows |-> NoRows]
  /\ UNCHANGED <<stored, posted, edits, faults, overlapped>>

(* A request fails, or its answer is lost *)
SaveFails(k) ==
  /\ saving[k].phase # "idle" /\ faults < MaxFaults
  /\ Settles(k, editor) /\ faults' = faults + 1
  /\ UNCHANGED <<stored, listed, posted, edits, overlapped>>

-----------------------------------------------------------------------------
Refetches ==
  /\ listed # stored /\ listed' = stored
  /\ UNCHANGED <<editor, saving, stored, posted, edits, faults, overlapped>>

-----------------------------------------------------------------------------
(* POST /workflows/validate, looked at by itself: the designer, which stores through
   the same checks, stands still *)
Quiet == ~posted.sent /\ editor = NewEditor /\ Idle /\ edits = 0 /\ faults = 0

Validate(g) ==
  /\ Quiet
  /\ posted' = [graph |-> g, issues |-> StructuralIssues(g), sent |-> TRUE]
  /\ UNCHANGED <<editor, saving, stored, listed, edits, faults, overlapped>>

-----------------------------------------------------------------------------
Init ==
  /\ editor = NewEditor /\ saving = [k \in Saves |-> NotSaving] /\ posted = NotPosted
  /\ stored = [w \in Workflows |-> IF w \in DOMAIN Stored0 THEN WorkflowRow(Stored0[w]) ELSE NoRows]
  /\ listed = stored
  /\ edits = 0 /\ faults = 0 /\ overlapped = FALSE

Edits ==
  \/ \E type \in WorkflowNodeType : AddNode(type)
  \/ \E id \in NodeIds(editor.graph), c \in AiChatTarget \cup Knowledge : Configure(id, c)
  \/ \E s, t \in NodeIds(editor.graph) : NodesConnected(s, t)
  \/ \E id \in NodeIds(editor.graph) : NodeRemoved(id)
  \/ \E e \in ToSet(editor.graph.edges) : EdgeRemoved(e.id)

DesignerNext ==
  \/ Edits \/ CreateDraft \/ CloseDesigner \/ \E w \in Workflows : SelectWorkflow(w)
  \/ \E k \in Saves : Save(k) \/ ValidatesDraft(k) \/ Stores(k) \/ Saved(k) \/ SaveFails(k)
  \/ Refetches

Next == (~posted.sent /\ DesignerNext) \/ (Quiet /\ \E g \in Posted : Validate(g))

Spec == Init /\ [][Next]_vars

-----------------------------------------------------------------------------
(* Every variable has its type. *)
TypeOK ==
  /\ \A n \in ToSet(editor.graph.nodes) : IsWorkflowNode(n) \/ n = Node(n.id, n.type, Unset)
  /\ editor.dirty \in BOOLEAN /\ editor.open \in BOOLEAN
  /\ \A k \in Saves : saving[k].phase \in {"idle", "validate", "store", "stored"}
  /\ editor.pending \in Saves \cup {NoSave}
  /\ DOMAIN stored = Workflows /\ DOMAIN listed = Workflows
  /\ edits \in 0 .. MaxEdits /\ faults \in 0 .. MaxFaults /\ overlapped \in BOOLEAN

(* The validator is exact.  It passes a graph just when its nodes form a row from
   the one start to the one end, and, of such a graph, the references just when a
   run visits every node once, in order, and ends with an output: nothing it passes
   fails when it runs for a reason it looks at (validator.py:55, compiler.py:177). *)
ValidatorIsExact ==
  LET g == IF posted.sent THEN posted.graph ELSE editor.graph IN
  /\ (StructuralIssues(g) = {}) = IsChain(g)
  /\ IsChain(g) => \A d \in Directories :
         LET run == Run(g, d)
         IN  (ReferenceIssues(g, d) = {}) =
               (~run.failed /\ run.output # "" /\ Len(run.completed) = Len(g.nodes))

(* The editor makes no fault that an edit could have kept out: however nodes are
   added, removed, added again and connected, ids and connections stay distinct,
   no edge is left without its ends and no node has two ways on.  How large the graph
   grows it leaves to the validator (workflowEditor.ts:121). *)
EditorKeepsOrder ==
  {i.code : i \in StructuralIssues(editor.graph)} \subseteq
    {"node_limit_exceeded", "edge_limit_exceeded", "missing_start", "multiple_starts",
     "missing_end", "isolated_node", "unreachable_from_start", "cannot_reach_end", "cycle_detected"}

(* Once every save has been answered, an editor that says its workflow is saved
   shows what is stored, unless an answer was lost: neither a save answered after the
   editor went on, nor a list that is out of date makes it show another graph
   (useWorkflowDesigner.ts:134).  Unless saves have overlapped: answers of two that
   do can arrive in the other order. *)
SavedIsStored ==
  editor.workflow # NoWorkflow /\ ~editor.dirty /\ faults = 0 /\ ~overlapped /\ Idle =>
    IsStored(editor.workflow) /\ editor.graph = ToDomain(stored[editor.workflow])

=============================================================================
