-------------------------- MODULE ResourceMutations --------------------------
(***************************************************************************)
(* Employees, model configurations, workflows, knowledge bases,            *)
(* conversations and workflow runs refer to each other.  The database      *)
(* checks only some of these references with foreign keys: the workflows   *)
(* an employee may use are a JSON list, and a knowledge base lives in      *)
(* RAGFlow.  The rest is protected by ResourceMutationGuard: every request *)
(* that adds or removes a reference first holds the names of what it       *)
(* touches, as process-local locks and then as MySQL session locks on a    *)
(* pooled connection, and reads and writes on further connections of the   *)
(* same pool.  A handler serves one request.                               *)
(***************************************************************************)
EXTENDS Naturals, FiniteSets

CONSTANTS
  Handlers, Processes,    \* request handlers and the processes they run in
  Employees, Knowledge, Workflows, Models, Conversations, Runs,
  Rank,                   \* the place of a resource's key in sorted order
  Requests,               \* the requests a handler may receive
  Present0, Refs0,        \* the rows at the start
  PoolSize,               \* connections of one process
  MaxCrashes              \* bound on process crashes

Resources == Employees \cup Knowledge \cup Workflows \cup Models
Things    == Resources \cup Conversations \cup Runs

VARIABLES
  present,  \* the rows that exist (knowledge bases: in RAGFlow)
  refs,     \* what each row refers to
  enabled,  \* the enabled model configurations
  handler,  \* what each handler is doing
  crashes

vars == <<present, refs, enabled, handler, crashes>>

-----------------------------------------------------------------------------
(* Rows and the references between them *)

(* The default model is a foreign key; the knowledge base is an identifier of
   another service and the allowed workflows are a JSON list *)
EmployeeRefs ==
  {{m} \cup k \cup w : m \in Models,
                       k \in {{}} \cup {{b} : b \in Knowledge},
                       w \in SUBSET Workflows}

NodeRefs     == SUBSET Knowledge              \* in the JSON of a retrieval node
TargetRefs   == SUBSET (Employees \cup Models)  \* rows with foreign keys
WorkflowRefs == {n \cup t : n \in NodeRefs, t \in TargetRefs}

(* Either an employee's conversation or one with a model *)
ConversationRefs == {{e} : e \in Employees} \cup {{m} : m \in Models}

RunRefs == {{w} : w \in Workflows}

RefsOf(o) ==
  CASE o \in Employees     -> EmployeeRefs
    [] o \in Workflows     -> WorkflowRefs
    [] o \in Conversations -> ConversationRefs
    [] o \in Runs          -> RunRefs
    [] OTHER               -> {{}}

ReferredBy(owners, r) == \E o \in owners \cap present : r \in refs[o]

(* Employees and workflows also record their models in a table of references *)
ModelReferenceRows == {o \in (Employees \cup Workflows) \cap present : refs[o] \cap Models # {}}

CountReferences(m) ==
  \/ \E o \in ModelReferenceRows : m \in refs[o]
  \/ ReferredBy(Employees \cup Conversations, m)

KnowledgeBaseReferences(k) == ReferredBy(Employees \cup Workflows, k)
WorkflowReferences(w)      == ReferredBy(Employees \cup Runs, w)

(* INSERT and UPDATE fail on a foreign key whose row is gone *)
ForeignKeysHold(o, cfg) ==
  LET checked == IF o \in Employees THEN cfg \cap Models ELSE cfg \ Knowledge
  IN  checked \subseteq present

Inserted(o, cfg) == present' = present \cup {o} /\ refs' = [refs EXCEPT ![o] = cfg]
Rejected         == UNCHANGED <<present, refs>>

EmployeeAdd(o, cfg) ==
  IF o \notin present /\ ForeignKeysHold(o, cfg) THEN Inserted(o, cfg) ELSE Rejected

EmployeeUpdate(o, cfg) ==
  IF o \in present /\ ForeignKeysHold(o, cfg) THEN Inserted(o, cfg) ELSE Rejected

(* A workflow is written with its nodes, its targets and its references *)
WorkflowAdd(o, cfg) ==
  IF o \notin present /\ ForeignKeysHold(o, cfg) THEN Inserted(o, cfg) ELSE Rejected

WorkflowUpdate(o, cfg) ==
  IF o \in present /\ ForeignKeysHold(o, cfg) THEN Inserted(o, cfg) ELSE Rejected

ConversationAdd(o, cfg) ==
  IF o \notin present /\ ForeignKeysHold(o, cfg) THEN Inserted(o, cfg) ELSE Rejected

EmployeeDelete(e) ==
  present' = IF ReferredBy(Conversations \cup Workflows, e) THEN present ELSE present \ {e}

(* The references are read again in the transaction of the delete *)
WorkflowDelete(w) ==
  present' = IF WorkflowReferences(w) THEN present ELSE present \ {w}

ModelAdd(m, on) ==
  /\ present' = present \cup {m}
  /\ enabled' = IF on THEN enabled \cup {m} ELSE enabled

ModelUpdate(m, on) ==
  enabled' = IF m \in present /\ on THEN enabled \cup {m} ELSE enabled \ {m}

ModelDelete(m) ==
  IF CountReferences(m)
  THEN UNCHANGED <<present, enabled>>
  ELSE present' = present \ {m} /\ enabled' = enabled \ {m}

-----------------------------------------------------------------------------
(* Requests *)

EmployeeOps     == {"create_employee", "ensure_employee", "update_employee", "delete_employee"}
ModelOps        == {"create_model", "update_model", "delete_model"}
WorkflowOps     == {"create_workflow", "update_workflow", "delete_workflow"}
KnowledgeOps    == {"delete_knowledge_base"}
ConversationOps == {"create_conversation", "create_first_turn"}
RunOps          == {"start_run"}
Ops == EmployeeOps \cup ModelOps \cup WorkflowOps \cup KnowledgeOps \cup ConversationOps \cup RunOps

Deletions == {"delete_employee", "delete_model", "delete_workflow", "delete_knowledge_base"}

Sorts == <<Employees, Knowledge, Workflows, Models, Conversations, Runs>>

(* The sorts are apart, what is asked for is well formed, and the rows at the
   start are in order *)
ResourceMutationsAssumption ==
  /\ \A i, j \in 1 .. 6 : i # j => Sorts[i] \cap Sorts[j] = {}
  /\ Rank \in [Resources -> Nat]
  /\ \A r, s \in Resources : Rank[r] = Rank[s] => r = s
  /\ Present0 \subseteq Things
  /\ Refs0 \in [Things -> SUBSET Resources]
  /\ \A o \in Present0 : Refs0[o] \in RefsOf(o) /\ Refs0[o] \subseteq Present0
  /\ \A m \in Models : Refs0[m] = {}
  /\ \A q \in Requests :
       /\ q.op \in Ops /\ q.on \in Things
       /\ q.cfg \in IF q.op \in Deletions THEN {{}} ELSE RefsOf(q.on)
       /\ q.op \in ConversationOps => q.on \in Conversations
       /\ q.op \in RunOps => q.on \in Runs
  /\ PoolSize \in Nat \ {0} /\ MaxCrashes \in Nat

Phases == {"idle", "local", "connect", "named", "read", "check", "commit", "release", "done"}

Idle(p) ==
  [process |-> p, phase |-> "idle", op |-> "none", on |-> "none", cfg |-> {},
   locks |-> {}, connection |-> FALSE, named |-> {}, unchecked |-> {}, current |-> {}]

(* Slips: the knowledge base and the workflows of a configuration, or its
   model, are not locked *)
ConfigurationModelsOnly(q)   == q.cfg \cap Models
ConfigurationWithoutModel(q) == q.cfg \ Models

EmployeeConfigurationResources(q) == q.cfg
WorkflowConfigurationResources(q) == q.cfg
ConversationResources(q)          == q.cfg

(* The keys a request holds; a created row has an identifier nobody else knows *)
KeysOf(q) ==
  CASE q.op = "create_employee" -> EmployeeConfigurationResources(q)
    [] q.op \in {"ensure_employee", "update_employee"} ->
         {q.on} \cup EmployeeConfigurationResources(q)
    [] q.op = "create_workflow" -> WorkflowConfigurationResources(q)
    [] q.op = "update_workflow" -> {q.on} \cup WorkflowConfigurationResources(q)
    [] q.op \in ConversationOps -> ConversationResources(q)
    [] q.op = "start_run"       -> q.cfg
    [] OTHER                    -> {q.on}

(* Two process-local locks of one key, or two session locks, never coexist *)
LocallyHeld(k, p) == \E g \in Handlers : handler[g].process = p /\ k \in handler[g].locks
NamedHeld(k)      == \E g \in Handlers : k \in handler[g].named

(* Keys are taken in sorted order *)
NextKey(keys, held) == {k \in keys \ held : \A j \in keys \ held : Rank[k] <= Rank[j]}

HoldingConnection(p) == {g \in Handlers : handler[g].process = p /\ handler[g].connection}
FreeConnection(p)    == Cardinality(HoldingConnection(p)) < PoolSize

Goes(h, phase) == handler' = [handler EXCEPT ![h].phase = phase]

Arrives(h, q) ==
  /\ handler[h].phase = "idle"
  /\ handler' = [handler EXCEPT ![h].phase = IF KeysOf(q) = {} THEN "read" ELSE "local",
                                ![h].op = q.op, ![h].on = q.on,
                                ![h].cfg = q.cfg]
  /\ UNCHANGED <<present, refs, enabled, crashes>>

(* A created identifier is drawn afresh *)
Fresh(o) == o \notin present /\ \A g \in Handlers : handler[g].on # o

RequestEmployee(h) ==
  \E q \in Requests :
    /\ q.op \in EmployeeOps /\ q.on \in Employees
    /\ q.op = "create_employee" => Fresh(q.on)
    /\ Arrives(h, q)

RequestModel(h) ==
  \E q \in Requests :
    /\ q.op \in ModelOps /\ q.on \in Models
    /\ q.op = "create_model" => Fresh(q.on)
    /\ Arrives(h, q)

RequestWorkflow(h) ==
  \E q \in Requests :
    /\ q.op \in WorkflowOps /\ q.on \in Workflows
    /\ q.op = "create_workflow" => Fresh(q.on)
    /\ Arrives(h, q)

RequestKnowledge(h) ==
  \E q \in Requests : q.op \in KnowledgeOps /\ q.on \in Knowledge /\ Arrives(h, q)

RequestConversation(h) ==
  \E q \in Requests : q.op \in ConversationOps /\ Fresh(q.on) /\ Arrives(h, q)

RequestRun(h) ==
  \E q \in Requests : q.op \in RunOps /\ Fresh(q.on) /\ Arrives(h, q)

-----------------------------------------------------------------------------
(* The guard *)

TakeLocal(h) ==
  LET keys == KeysOf(handler[h])
  IN  /\ handler[h].phase = "local"
      /\ \E k \in NextKey(keys, handler[h].locks) :
           /\ ~LocallyHeld(k, handler[h].process)
           /\ handler' = [handler EXCEPT
                ![h].locks = @ \cup {k},
                ![h].phase = IF handler[h].locks \cup {k} = keys THEN "connect" ELSE "local"]
      /\ UNCHANGED <<present, refs, enabled, crashes>>

Connect(h) ==
  /\ handler[h].phase = "connect" /\ FreeConnection(handler[h].process)
  /\ handler' = [handler EXCEPT ![h].connection = TRUE, ![h].phase = "named"]
  /\ UNCHANGED <<present, refs, enabled, crashes>>

TakeNamed(h) ==
  LET keys == KeysOf(handler[h])
  IN  /\ handler[h].phase = "named"
      /\ \E k \in NextKey(keys, handler[h].named) :
           /\ ~NamedHeld(k)
           /\ handler' = [handler EXCEPT
                ![h].named = @ \cup {k},
                ![h].phase = IF handler[h].named \cup {k} = keys THEN "read" ELSE "named"]
      /\ UNCHANGED <<present, refs, enabled, crashes>>

(* GET_LOCK gives up: the connection is invalidated, which frees its locks *)
LockTimeout(h) ==
  /\ handler[h].phase = "named"
  /\ \E k \in NextKey(KeysOf(handler[h]), handler[h].named) : NamedHeld(k)
  /\ Goes(h, "release")
  /\ UNCHANGED <<present, refs, enabled, crashes>>

(* Slip: a handler waits for a connection as long as it takes *)
WaitsForConnection(h) == handler[h].phase = "none" /\ UNCHANGED vars

(* A second connection is needed while the guard keeps the first one *)
PoolTimeout(h) ==
  /\ handler[h].phase \in {"connect", "read", "check", "commit"}
  /\ ~FreeConnection(handler[h].process)
  /\ Goes(h, "release")
  /\ UNCHANGED <<present, refs, enabled, crashes>>

Release(h) ==
  /\ handler[h].phase = "release"
  /\ handler' = [handler EXCEPT ![h].phase = "done", ![h].locks = {}, ![h].named = {},
                                ![h].connection = FALSE]
  /\ UNCHANGED <<present, refs, enabled, crashes>>

-----------------------------------------------------------------------------
(* Under the guard: read what exists, check what is referred to, write *)

Reading(h) == handler[h].phase = "read" /\ FreeConnection(handler[h].process)

Fails(h) == Goes(h, "release") /\ UNCHANGED <<present, refs, enabled, crashes>>

(* What is read of the row before its new configuration is checked *)
Continues(h) ==
  LET q == handler[h]
  IN  /\ handler' = [handler EXCEPT
           ![h].phase = IF q.cfg = {} THEN "commit" ELSE "check",
           ![h].unchecked = q.cfg,
           ![h].current = IF q.on \in present THEN refs[q.on] ELSE {}]
      /\ UNCHANGED <<present, refs, enabled, crashes>>

ReadForUpdate(h) ==
  LET q == handler[h]
  IN  /\ Reading(h) /\ q.op \in {"update_employee", "update_workflow"}
      /\ IF q.on \in present THEN Continues(h) ELSE Fails(h)

(* An employee that exists already is the answer *)
ReadForEnsure(h) ==
  /\ Reading(h) /\ handler[h].op = "ensure_employee"
  /\ IF handler[h].on \in present THEN Fails(h) ELSE Continues(h)

ReadForWorkflowDelete(h) ==
  /\ Reading(h) /\ handler[h].op = "delete_workflow"
  /\ IF WorkflowReferences(handler[h].on) THEN Fails(h) ELSE Continues(h)

(* Whether the dataset exists is one call, what refers to it is another *)
ReadForKnowledgeDelete(h) ==
  LET q == handler[h]
  IN  /\ Reading(h) /\ q.op = "delete_knowledge_base"
      /\ IF q.on \in present /\ ~KnowledgeBaseReferences(q.on) THEN Continues(h) ELSE Fails(h)

NothingToRead(h) ==
  /\ Reading(h)
  /\ handler[h].op \notin {"update_employee", "update_workflow", "ensure_employee",
                           "delete_workflow", "delete_knowledge_base"}
  /\ Continues(h)

Checking(h) == handler[h].phase = "check" /\ FreeConnection(handler[h].process)

Checked(h, group, usable) ==
  LET q == handler[h]
  IN  /\ IF usable
         THEN handler' = [handler EXCEPT
                ![h].unchecked = @ \ group,
                ![h].phase = IF q.unchecked = group THEN "commit" ELSE "check"]
         ELSE Goes(h, "release")
      /\ UNCHANGED <<present, refs, enabled, crashes>>

(* Knowledge bases are read first, several of them in any order *)
CheckKnowledgeBase(h) ==
  /\ Checking(h)
  /\ \E k \in handler[h].unchecked \cap Knowledge : Checked(h, {k}, k \in present)

(* then all workflows with one query *)
CheckWorkflows(h) ==
  LET group == handler[h].unchecked \cap Workflows
  IN  /\ Checking(h) /\ handler[h].unchecked \cap Knowledge = {} /\ group # {}
      /\ Checked(h, group, group \subseteq present)

(* then employees and models; an employee's own model may be a disabled one *)
CheckTarget(h) ==
  LET q == handler[h]
      keeps(m) == q.op = "update_employee" /\ m \in q.current
  IN  /\ Checking(h) /\ q.unchecked \cap (Knowledge \cup Workflows) = {}
      /\ \E t \in q.unchecked :
           Checked(h, {t}, t \in present /\ (t \in Models => (t \in enabled \/ keeps(t))))

Writing(h, ops) ==
  /\ handler[h].phase = "commit" /\ FreeConnection(handler[h].process)
  /\ handler[h].op \in ops
  /\ Goes(h, "release")
  /\ UNCHANGED crashes

CreateEmployee(h) ==
  /\ Writing(h, {"create_employee", "ensure_employee"})
  /\ EmployeeAdd(handler[h].on, handler[h].cfg) /\ UNCHANGED enabled

UpdateEmployee(h) ==
  /\ Writing(h, {"update_employee"})
  /\ EmployeeUpdate(handler[h].on, handler[h].cfg) /\ UNCHANGED enabled

DeleteEmployee(h) ==
  /\ Writing(h, {"delete_employee"})
  /\ EmployeeDelete(handler[h].on) /\ UNCHANGED <<refs, enabled>>

CreateWorkflow(h) ==
  /\ Writing(h, {"create_workflow"})
  /\ WorkflowAdd(handler[h].on, handler[h].cfg) /\ UNCHANGED enabled

UpdateWorkflow(h) ==
  /\ Writing(h, {"update_workflow"})
  /\ WorkflowUpdate(handler[h].on, handler[h].cfg) /\ UNCHANGED enabled

DeleteWorkflow(h) ==
  /\ Writing(h, {"delete_workflow"})
  /\ WorkflowDelete(handler[h].on) /\ UNCHANGED <<refs, enabled>>

(* The remote delete: nothing there checks a reference *)
DeleteKnowledgeBase(h) ==
  /\ Writing(h, {"delete_knowledge_base"})
  /\ present' = present \ {handler[h].on} /\ UNCHANGED <<refs, enabled>>

CreateModel(h) ==
  /\ Writing(h, {"create_model"})
  /\ \E on \in BOOLEAN : ModelAdd(handler[h].on, on)
  /\ UNCHANGED refs

UpdateModel(h) ==
  /\ Writing(h, {"update_model"})
  /\ \E on \in BOOLEAN : ModelUpdate(handler[h].on, on)
  /\ UNCHANGED <<present, refs>>

DeleteModel(h) ==
  /\ Writing(h, {"delete_model"})
  /\ ModelDelete(handler[h].on) /\ UNCHANGED refs

CreateConversation(h) ==
  /\ Writing(h, {"create_conversation"})
  /\ ConversationAdd(handler[h].on, handler[h].cfg) /\ UNCHANGED enabled

(* A conversation with its first turn *)
CreateFirstTurn(h) ==
  /\ Writing(h, {"create_first_turn"})
  /\ ConversationAdd(handler[h].on, handler[h].cfg) /\ UNCHANGED enabled

StartRun(h) ==
  /\ Writing(h, {"start_run"})
  /\ IF ForeignKeysHold(handler[h].on, handler[h].cfg)
     THEN Inserted(handler[h].on, handler[h].cfg) ELSE Rejected
  /\ UNCHANGED enabled

(* A process dies: the server ends its sessions, their locks and transactions *)
ProcessCrash(p) ==
  /\ crashes < MaxCrashes
  /\ \E h \in Handlers : handler[h].process = p /\ handler[h].phase \notin {"idle", "done"}
  /\ crashes' = crashes + 1
  /\ handler' = [h \in Handlers |->
       IF handler[h].process = p /\ handler[h].phase # "idle"
       THEN [Idle(p) EXCEPT !.phase = "done"] ELSE handler[h]]
  /\ UNCHANGED <<present, refs, enabled>>

-----------------------------------------------------------------------------
Init ==
  /\ present = Present0 /\ refs = Refs0 /\ enabled = Present0 \cap Models
  /\ \E place \in [Handlers -> Processes] : handler = [h \in Handlers |-> Idle(place[h])]
  /\ crashes = 0

Request(h) ==
  \/ RequestEmployee(h) \/ RequestModel(h) \/ RequestWorkflow(h)
  \/ RequestKnowledge(h) \/ RequestConversation(h) \/ RequestRun(h)

HandlerStep(h) ==
  \/ TakeLocal(h) \/ Connect(h) \/ TakeNamed(h) \/ LockTimeout(h) \/ PoolTimeout(h)
  \/ ReadForUpdate(h) \/ ReadForEnsure(h) \/ ReadForWorkflowDelete(h)
  \/ ReadForKnowledgeDelete(h) \/ NothingToRead(h)
  \/ CheckKnowledgeBase(h) \/ CheckWorkflows(h) \/ CheckTarget(h)
  \/ CreateEmployee(h) \/ UpdateEmployee(h) \/ DeleteEmployee(h)
  \/ CreateWorkflow(h) \/ UpdateWorkflow(h) \/ DeleteWorkflow(h)
  \/ DeleteKnowledgeBase(h)
  \/ CreateModel(h) \/ UpdateModel(h) \/ DeleteModel(h)
  \/ CreateConversation(h) \/ CreateFirstTurn(h) \/ StartRun(h)
  \/ Release(h)

Next ==
  \/ \E h \in Handlers : Request(h) \/ HandlerStep(h)
  \/ \E p \in Processes : ProcessCrash(p)

Fairness == \A h \in Handlers : WF_vars(HandlerStep(h))

Spec == Init /\ [][Next]_vars /\ Fairness

-----------------------------------------------------------------------------
(* Every variable has its type, and two session locks of one key never coexist. *)
TypeOK ==
  /\ present \subseteq Things
  /\ \A o \in present : refs[o] \in RefsOf(o)
  /\ enabled \subseteq Models
  /\ \A h \in Handlers :
       /\ handler[h].phase \in Phases
       /\ handler[h].op \in Ops \cup {"none"}
       /\ handler[h].locks \subseteq Resources /\ handler[h].named \subseteq Resources
  /\ crashes \in 0 .. MaxCrashes

(* Whatever two requests do at once, in one process or in two, no stored row
   refers to a row (or to a RAGFlow dataset) that has been deleted: the locks
   make the check of a reference and its use one step, where the database
   cannot (resource_deletion.py:77, resources.py:133). *)
NoDanglingReference == \A o \in present : refs[o] \subseteq present

(* Every request ends: waiting for a lock or for a connection cannot last,
   although a handler keeps one connection while it asks for another
   (locks.py:32). *)
UnderWay(h) == handler[h].phase # "idle"
Ended(h) == handler[h].phase = "done"
RequestsEnd == \A h \in Handlers : UnderWay(h) ~> Ended(h)

=============================================================================
