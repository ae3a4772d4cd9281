------------------------------- MODULE Platform -------------------------------
(***************************************************************************)
(* The components that meet only through rows no other component writes.   *)
(* A behaviour is one of one component, named by part, and the others keep *)
(* their initial states: the state space is the union of theirs, and each  *)
(* property is about the behaviours of its component.  A component that     *)
(* has a module of proofs is taken with its theorems.                      *)
(***************************************************************************)
EXTENDS Services, Screens

CONSTANTS
  NodeCount, AiNodes, Stoppers, RunAttempts, RunFaults, MaxRunFaults,     \* WorkflowRuns
  External, Managed, PlatformSource, Caps, SourceOf, Names, Schemas, Endpoints, Targets,
  Syncers, MaxToolEdits, Target, TurnCalls, Slots                         \* ToolCatalog and ToolCalls

VARIABLES
  part,
  run, task, exec, stopper, stream, waiter, faults,      \* WorkflowRuns
  source, credential, capability, collection, grants,    \* ToolCatalog
  selected, sync, edits, turn, call, unknown           \* ToolCalls

wrVars == <<run, task, exec, stopper, stream, waiter, faults>>
resVars == <<present, refs, enabled, handler, crashes>>
turnVars == <<turn, call, unknown>>
toolVars ==
  <<source, credential, capability, collection, grants, selected, sync, edits, turnVars>>
accessVars == <<account, codes, session, attempt, access, clock>>
auditVars == <<head, events, audited, performed, verifier, reader, auditFaults>>
knowledgeVars == <<dataset, document, owner, wanted>>
identityVars == <<identity, held, ensuring, lock, active, drops, failures>>
designerVars == <<editor, saving, stored, listed, posted, changes, losses, overlapped>>
brokerVars == <<states, following, epoch, closed, now>>
chatVars == <<kept, due, journal, shown, feed, fetch, answer, overtaken, incidents>>
uploadVars == <<items, running, refreshing, calls, documents, seen, listing, lost, missed>>
listVars == <<order, rows, data, query, reads>>
lifeVars == <<server, open, models, cleanups, shut, errors>>
vars == <<part, wrVars, resVars, toolVars, accessVars, auditVars, knowledgeVars, identityVars,
          designerVars, brokerVars, chatVars, uploadVars, listVars, lifeVars>>

In(p) == part = p

Only(p) ==
  /\ UNCHANGED part
  /\ p # "runs" => UNCHANGED wrVars
  /\ p # "resources" => UNCHANGED resVars
  /\ p # "tools" => UNCHANGED toolVars
  /\ p # "access" => UNCHANGED accessVars
  /\ p # "audit" => UNCHANGED auditVars
  /\ p # "knowledge" => UNCHANGED knowledgeVars
  /\ p # "identities" => UNCHANGED identityVars
  /\ p # "designer" => UNCHANGED designerVars
  /\ p # "broker" => UNCHANGED brokerVars
  /\ p # "chat" => UNCHANGED chatVars
  /\ p # "uploads" => UNCHANGED uploadVars
  /\ p # "lists" => UNCHANGED listVars
  /\ p # "lifecycle" => UNCHANGED lifeVars

-----------------------------------------------------------------------------
Wr == INSTANCE WorkflowRunsProofs WITH
  MaxAttempts <- RunAttempts, Faults <- RunFaults, MaxFaults <- MaxRunFaults

RunsNext ==
  \/ In("runs") /\ Wr!StartRun /\ Only("runs")
  \/ In("runs") /\ Wr!WaitEnds /\ Only("runs")
  \/ In("runs") /\ Wr!Claim /\ Only("runs")
  \/ In("runs") /\ Wr!Heartbeat /\ Only("runs")
  \/ In("runs") /\ Wr!LoadRun /\ Only("runs")
  \/ In("runs") /\ Wr!ReadForChange /\ Only("runs")
  \/ In("runs") /\ Wr!WriteChange /\ Only("runs")
  \/ In("runs") /\ Wr!PublishChange /\ Only("runs")
  \/ In("runs") /\ Wr!NextNode /\ Only("runs")
  \/ In("runs") /\ Wr!RunNode /\ Only("runs")
  \/ In("runs") /\ Wr!EndNode /\ Only("runs")
  \/ In("runs") /\ Wr!VerifyRun /\ Only("runs")
  \/ In("runs") /\ Wr!AttemptFailed /\ Only("runs")
  \/ In("runs") /\ Wr!SettleTask /\ Only("runs")
  \/ In("runs") /\ Wr!WorkerCrash /\ Only("runs")
  \/ In("runs") /\ Wr!Interrupt /\ Only("runs")
  \/ In("runs") /\ Wr!StepRaises /\ Only("runs")
  \/ \E s \in Stoppers : In("runs") /\ Wr!StopAsked(s) /\ Only("runs")
  \/ \E s \in Stoppers : In("runs") /\ Wr!StopRequested(s) /\ Only("runs")
  \/ \E s \in Stoppers : In("runs") /\ Wr!StopReads(s) /\ Only("runs")
  \/ \E s \in Stoppers : In("runs") /\ Wr!StopWrites(s) /\ Only("runs")
  \/ \E s \in Stoppers : In("runs") /\ Wr!StopPublishes(s) /\ Only("runs")
  \/ \E s \in Stoppers : In("runs") /\ Wr!StopperCrash(s) /\ Only("runs")

RunsFairness ==
  /\ WF_wrVars(part = "runs" /\ Wr!WorkerStep)
  /\ WF_wrVars(part = "runs" /\ Wr!WaitEnds)

-----------------------------------------------------------------------------
ResourcesNext ==
  \/ \E h \in Handlers : In("resources") /\ Res!RequestEmployee(h) /\ Only("resources")
  \/ \E h \in Handlers : In("resources") /\ Res!RequestModel(h) /\ Only("resources")
  \/ \E h \in Handlers : In("resources") /\ Res!RequestWorkflow(h) /\ Only("resources")
  \/ \E h \in Handlers : In("resources") /\ Res!RequestKnowledge(h) /\ Only("resources")
  \/ \E h \in Handlers : In("resources") /\ Res!RequestConversation(h) /\ Only("resources")
  \/ \E h \in Handlers : In("resources") /\ Res!RequestRun(h) /\ Only("resources")
  \/ \E h \in Handlers : In("resources") /\ Res!TakeLocal(h) /\ Only("resources")
  \/ \E h \in Handlers : In("resources") /\ Res!Connect(h) /\ Only("resources")
  \/ \E h \in Handlers : In("resources") /\ Res!TakeNamed(h) /\ Only("resources")
  \/ \E h \in Handlers : In("resources") /\ Res!LockTimeout(h) /\ Only("resources")
  \/ \E h \in Handlers : In("resources") /\ Res!PoolTimeout(h) /\ Only("resources")
  \/ \E h \in Handlers : In("resources") /\ Res!ReadForUpdate(h) /\ Only("resources")
  \/ \E h \in Handlers : In("resources") /\ Res!ReadForEnsure(h) /\ Only("resources")
  \/ \E h \in Handlers : In("resources") /\ Res!ReadForWorkflowDelete(h) /\ Only("resources")
  \/ \E h \in Handlers : In("resources") /\ Res!ReadForKnowledgeDelete(h) /\ Only("resources")
  \/ \E h \in Handlers : In("resources") /\ Res!NothingToRead(h) /\ Only("resources")
  \/ \E h \in Handlers : In("resources") /\ Res!CheckKnowledgeBase(h) /\ Only("resources")
  \/ \E h \in Handlers : In("resources") /\ Res!CheckWorkflows(h) /\ Only("resources")
  \/ \E h \in Handlers : In("resources") /\ Res!CheckTarget(h) /\ Only("resources")
  \/ \E h \in Handlers : In("resources") /\ Res!CreateEmployee(h) /\ Only("resources")
  \/ \E h \in Handlers : In("resources") /\ Res!UpdateEmployee(h) /\ Only("resources")
  \/ \E h \in Handlers : In("resources") /\ Res!DeleteEmployee(h) /\ Only("resources")
  \/ \E h \in Handlers : In("resources") /\ Res!CreateWorkflow(h) /\ Only("resources")
  \/ \E h \in Handlers : In("resources") /\ Res!UpdateWorkflow(h) /\ Only("resources")
  \/ \E h \in Handlers : In("resources") /\ Res!DeleteWorkflow(h) /\ Only("resources")
  \/ \E h \in Handlers : In("resources") /\ Res!DeleteKnowledgeBase(h) /\ Only("resources")
  \/ \E h \in Handlers : In("resources") /\ Res!CreateModel(h) /\ Only("resources")
  \/ \E h \in Handlers : In("resources") /\ Res!UpdateModel(h) /\ Only("resources")
  \/ \E h \in Handlers : In("resources") /\ Res!DeleteModel(h) /\ Only("resources")
  \/ \E h \in Handlers : In("resources") /\ Res!CreateConversation(h) /\ Only("resources")
  \/ \E h \in Handlers : In("resources") /\ Res!CreateFirstTurn(h) /\ Only("resources")
  \/ \E h \in Handlers : In("resources") /\ Res!StartRun(h) /\ Only("resources")
  \/ \E h \in Handlers : In("resources") /\ Res!Release(h) /\ Only("resources")
  \/ \E p \in Processes : In("resources") /\ Res!ProcessCrash(p) /\ Only("resources")

ResourcesFairness ==
  \A h \in Handlers : WF_resVars(part = "resources" /\ Res!HandlerStep(h))

-----------------------------------------------------------------------------
Tool == INSTANCE ToolCallsProofs WITH
  Platform <- PlatformSource, MaxEdits <- MaxToolEdits, Calls <- TurnCalls

CatalogOnly == Only("tools") /\ UNCHANGED turnVars

ToolsNext ==
  \/ \E s \in Tool!Sources : In("tools") /\ Tool!CreateExternal(s) /\ CatalogOnly
  \/ \E s \in Tool!Sources : In("tools") /\ Tool!UpdateExternal(s) /\ CatalogOnly
  \/ \E s \in Tool!Sources : In("tools") /\ Tool!CreateManaged(s) /\ CatalogOnly
  \/ \E s \in Tool!Sources : In("tools") /\ Tool!UpdateManaged(s) /\ CatalogOnly
  \/ \E s \in Tool!Sources : In("tools") /\ Tool!UpdateCredential(s) /\ CatalogOnly
  \/ \E s \in Tool!Sources : In("tools") /\ Tool!ImportCapabilities(s) /\ CatalogOnly
  \/ \E c \in Caps : In("tools") /\ Tool!AddCapability(c) /\ CatalogOnly
  \/ \E c \in Caps : In("tools") /\ Tool!UpdateCapability(c) /\ CatalogOnly
  \/ \E c \in Caps : In("tools") /\ Tool!DeleteCapability(c) /\ CatalogOnly
  \/ In("tools") /\ Tool!CreateCollection /\ CatalogOnly
  \/ In("tools") /\ Tool!UpdateCollection /\ CatalogOnly
  \/ In("tools") /\ Tool!DeleteCollection /\ CatalogOnly
  \/ In("tools") /\ Tool!Seed /\ CatalogOnly
  \/ \E t \in Targets : In("tools") /\ Tool!ReplaceGrants(t) /\ CatalogOnly
  \/ \E y \in Syncers, s \in Tool!Sources :
       In("tools") /\ Tool!BeginSync(y, s) /\ CatalogOnly
  \/ \E y \in Syncers, s \in Tool!Sources :
       In("tools") /\ Tool!BeginDelete(y, s) /\ CatalogOnly
  \/ \E y \in Syncers : In("tools") /\ Tool!ApplySync(y) /\ CatalogOnly
  \/ \E y \in Syncers : In("tools") /\ Tool!MarkFailed(y) /\ CatalogOnly
  \/ \E y \in Syncers : In("tools") /\ Tool!SyncConflict(y) /\ CatalogOnly
  \/ \E y \in Syncers : In("tools") /\ Tool!DeleteSource(y) /\ CatalogOnly
  \/ \E y \in Syncers : In("tools") /\ Tool!DeleteEnds(y) /\ CatalogOnly
  \/ In("tools") /\ Tool!Resolves /\ Only("tools")
  \/ In("tools") /\ Tool!Lists /\ Only("tools")
  \/ In("tools") /\ Tool!Cancel /\ Only("tools")
  \/ \E k \in TurnCalls, c \in Caps : In("tools") /\ Tool!CallArrives(k, c) /\ Only("tools")
  \/ \E k \in TurnCalls : In("tools") /\ Tool!Starts(k) /\ Only("tools")
  \/ \E k \in TurnCalls : In("tools") /\ Tool!Authorises(k) /\ Only("tools")
  \/ \E k \in TurnCalls : In("tools") /\ Tool!CallsPlatform(k) /\ Only("tools")
  \/ \E k \in TurnCalls : In("tools") /\ Tool!RefusesManaged(k) /\ Only("tools")
  \/ \E k \in TurnCalls : In("tools") /\ Tool!SendsManaged(k) /\ Only("tools")
  \/ \E k \in TurnCalls : In("tools") /\ Tool!SlotTimeout(k) /\ Only("tools")
  \/ \E k \in TurnCalls : In("tools") /\ Tool!ManagedAnswers(k) /\ Only("tools")
  \/ \E k \in TurnCalls : In("tools") /\ Tool!SessionFails(k) /\ Only("tools")
  \/ \E k \in TurnCalls : In("tools") /\ Tool!SendsExternal(k) /\ Only("tools")
  \/ \E k \in TurnCalls : In("tools") /\ Tool!ExternalAnswers(k) /\ Only("tools")
  \/ \E k \in TurnCalls : In("tools") /\ Tool!Records(k) /\ Only("tools")

-----------------------------------------------------------------------------
AccessNext ==
  \/ \E q \in Logins : In("access") /\ Access!Login(q) /\ Only("access")
  \/ \E q \in Logins : In("access") /\ Access!ResetRequest(q) /\ Only("access")
  \/ \E q \in Logins : In("access") /\ Access!RegisterOwner(q) /\ Only("access")
  \/ \E q \in Logins : In("access") /\ Access!ProvisionMember(q) /\ Only("access")
  \/ \E q \in Logins : In("access") /\ Access!ChecksAttempts(q) /\ Only("access")
  \/ \E q \in Logins : In("access") /\ Access!Verifies(q) /\ Only("access")
  \/ \E q \in Logins : In("access") /\ Access!RecordsFailure(q) /\ Only("access")
  \/ \E q \in Logins : In("access") /\ Access!ClearsFailures(q) /\ Only("access")
  \/ \E q \in Logins : In("access") /\ Access!ReplacesHash(q) /\ Only("access")
  \/ \E q \in Logins : In("access") /\ Access!CreatesAccount(q) /\ Only("access")
  \/ \E q \in Logins : In("access") /\ Access!IssuesSession(q) /\ Only("access")
  \/ \E q \in Logins : In("access") /\ Access!ResetsPassword(q) /\ Only("access")
  \/ \E q \in Logins : In("access") /\ Access!ResetRefused(q) /\ Only("access")
  \/ \E q \in Logins : In("access") /\ Access!ResetFails(q) /\ Only("access")
  \/ \E q \in Logins : In("access") /\ Access!RequestLost(q) /\ Only("access")
  \/ \E q \in Logins : In("access") /\ Access!FindActiveSession(q) /\ Only("access")
  \/ \E q \in Logins : In("access") /\ Access!RevokeSession(q) /\ Only("access")
  \/ In("access") /\ Access!Tick /\ Only("access")

-----------------------------------------------------------------------------
AuditNext ==
  \/ \E r \in AuditRequests, planned \in BOOLEAN :
       In("audit") /\ Audit!Arrives(r, planned) /\ Only("audit")
  \/ \E r \in AuditRequests : In("audit") /\ Audit!AppendsToChain(r) /\ Only("audit")
  \/ \E r \in AuditRequests : In("audit") /\ Audit!CapacityExceeded(r) /\ Only("audit")
  \/ \E r \in AuditRequests : In("audit") /\ Audit!FindsNoHead(r) /\ Only("audit")
  \/ \E r \in AuditRequests : In("audit") /\ Audit!CreatesChain(r) /\ Only("audit")
  \/ \E r \in AuditRequests : In("audit") /\ Audit!CreateCollides(r) /\ Only("audit")
  \/ \E r \in AuditRequests : In("audit") /\ Audit!AppendFails(r) /\ Only("audit")
  \/ \E r \in AuditRequests : In("audit") /\ Audit!Denied(r) /\ Only("audit")
  \/ \E r \in AuditRequests : In("audit") /\ Audit!DeniedByRole(r) /\ Only("audit")
  \/ \E r \in AuditRequests : In("audit") /\ Audit!Performs(r) /\ Only("audit")
  \/ \E r \in AuditRequests : In("audit") /\ Audit!Refuses(r) /\ Only("audit")
  \/ \E r \in AuditRequests : In("audit") /\ Audit!RequestLost(r) /\ Only("audit")
  \/ \E s \in Audit!Scopes : In("audit") /\ Audit!BeginsVerify(s) /\ Only("audit")
  \/ \E s \in Audit!Scopes : In("audit") /\ Audit!ReadsPage(s) /\ Only("audit")
  \/ In("audit") /\ Audit!Verifies /\ Only("audit")

-----------------------------------------------------------------------------
KnowledgeNext ==
  \/ \E q \in KbRequests : In("knowledge") /\ Kb!Asks(q) /\ Only("knowledge")
  \/ \E q \in KbRequests : In("knowledge") /\ Kb!EnsuresAvailable(q) /\ Only("knowledge")
  \/ \E q \in KbRequests : In("knowledge") /\ Kb!Unavailable(q) /\ Only("knowledge")
  \/ \E q \in KbRequests : In("knowledge") /\ Kb!EnsuresOwned(q) /\ Only("knowledge")
  \/ \E q \in KbRequests : In("knowledge") /\ Kb!ReadsDocument(q) /\ Only("knowledge")
  \/ \E q \in KbRequests : In("knowledge") /\ Kb!Sends(q) /\ Only("knowledge")
  \/ \E q \in KbRequests : In("knowledge") /\ Kb!CarriedOut(q) /\ Only("knowledge")
  \/ \E q \in KbRequests : In("knowledge") /\ Kb!Refused(q) /\ Only("knowledge")
  \/ \E q \in KbRequests : In("knowledge") /\ Kb!Receives(q) /\ Only("knowledge")
  \/ \E q \in KbRequests : In("knowledge") /\ Kb!ReceivesInvalid(q) /\ Only("knowledge")
  \/ \E q \in KbRequests : In("knowledge") /\ Kb!TimesOut(q) /\ Only("knowledge")
  \/ \E q \in KbRequests : In("knowledge") /\ Kb!ClaimsBase(q) /\ Only("knowledge")
  \/ \E q \in KbRequests : In("knowledge") /\ Kb!ReleasesBase(q) /\ Only("knowledge")
  \/ \E q \in KbRequests : In("knowledge") /\ Kb!ReadsPage(q) /\ Only("knowledge")
  \/ \E q \in KbRequests : In("knowledge") /\ Kb!AdoptsLegacy(q) /\ Only("knowledge")
  \/ \E q \in KbRequests : In("knowledge") /\ Kb!AnswersList(q) /\ Only("knowledge")
  \/ \E q \in KbRequests : In("knowledge") /\ Kb!RequestLost(q) /\ Only("knowledge")
  \/ \E d \in Kb!Docs : In("knowledge") /\ Kb!ParsingEnds(d) /\ Only("knowledge")

-----------------------------------------------------------------------------
IdentitiesNext ==
  \/ \E p \in Processes, t \in Tenants : In("identities") /\ Id!Needs(p, t) /\ Only("identities")
  \/ \E p \in Processes : In("identities") /\ Id!TakesLock(p) /\ Only("identities")
  \/ \E p \in Processes : In("identities") /\ Id!Gets(p) /\ Only("identities")
  \/ \E p \in Processes : In("identities") /\ Id!FindsActive(p) /\ Only("identities")
  \/ \E p \in Processes : In("identities") /\ Id!Reserves(p) /\ Only("identities")
  \/ \E p \in Processes : In("identities") /\ Id!Registers(p) /\ Only("identities")
  \/ \E p \in Processes : In("identities") /\ Id!LogsIn(p) /\ Only("identities")
  \/ \E p \in Processes : In("identities") /\ Id!LoginFails(p) /\ Only("identities")
  \/ \E p \in Processes : In("identities") /\ Id!Adopts(p) /\ Only("identities")
  \/ \E p \in Processes : In("identities") /\ Id!Configures(p) /\ Only("identities")
  \/ \E p \in Processes : In("identities") /\ Id!TakesToken(p) /\ Only("identities")
  \/ \E p \in Processes : In("identities") /\ Id!CreatesToken(p) /\ Only("identities")
  \/ \E p \in Processes : In("identities") /\ Id!Activates(p) /\ Only("identities")
  \/ \E p \in Processes : In("identities") /\ Id!Fails(p) /\ Only("identities")
  \/ \E p \in Processes : In("identities") /\ Id!LosesAnswer(p) /\ Only("identities")
  \/ \E p \in Processes : In("identities") /\ Id!LosesLock(p) /\ Only("identities")
  \/ In("identities") /\ Id!Rotates /\ Only("identities")

-----------------------------------------------------------------------------
Designer == In("designer") /\ ~posted.sent
EditorIds == {editor.graph.nodes[i].id : i \in DOMAIN editor.graph.nodes}

DesignerNext ==
  \/ \E type \in Design!WorkflowNodeType : Designer /\ Design!AddNode(type) /\ Only("designer")
  \/ \E id \in EditorIds, c \in Design!AiChatTarget \cup DesignBases :
       Designer /\ Design!Configure(id, c) /\ Only("designer")
  \/ \E s, t \in EditorIds : Designer /\ Design!NodesConnected(s, t) /\ Only("designer")
  \/ \E id \in EditorIds : Designer /\ Design!NodeRemoved(id) /\ Only("designer")
  \/ \E e \in ToSet(editor.graph.edges) : Designer /\ Design!EdgeRemoved(e.id) /\ Only("designer")
  \/ Designer /\ Design!CreateDraft /\ Only("designer")
  \/ Designer /\ Design!CloseDesigner /\ Only("designer")
  \/ \E w \in DesignWorkflows : Designer /\ Design!SelectWorkflow(w) /\ Only("designer")
  \/ \E k \in Saves : Designer /\ Design!Save(k) /\ Only("designer")
  \/ \E k \in Saves : Designer /\ Design!ValidatesDraft(k) /\ Only("designer")
  \/ \E k \in Saves : Designer /\ Design!Stores(k) /\ Only("designer")
  \/ \E k \in Saves : Designer /\ Design!Saved(k) /\ Only("designer")
  \/ \E k \in Saves : Designer /\ Design!SaveFails(k) /\ Only("designer")
  \/ Designer /\ Design!Refetches /\ Only("designer")
  \/ In("designer") /\ Design!Quiet /\ \E g \in Posted : Design!Validate(g) /\ Only("designer")

-----------------------------------------------------------------------------
BrokerNext ==
  \/ \E k \in Streams, after \in 0 .. MaxSequence :
       In("broker") /\ Broker!ValidateResume(k, after) /\ Only("broker")
  \/ \E k \in Streams, kind \in Broker!Kinds :
       In("broker") /\ Broker!Publish(k, kind) /\ Only("broker")
  \/ \E c \in Subscribers, k \in Streams, after \in 0 .. MaxSequence :
       In("broker") /\ Broker!Subscribe(c, k, after) /\ Only("broker")
  \/ \E c \in Subscribers : In("broker") /\ Broker!Replays(c) /\ Only("broker")
  \/ \E c \in Subscribers : In("broker") /\ Broker!Yields(c) /\ Only("broker")
  \/ \E c \in Subscribers : In("broker") /\ Broker!Disconnects(c) /\ Only("broker")
  \/ \E c \in Subscribers : In("broker") /\ Broker!Leaves(c) /\ Only("broker")
  \/ \E k \in Streams : In("broker") /\ Broker!ExpireState(k) /\ Only("broker")
  \/ In("broker") /\ Broker!LifecycleSnapshot /\ Only("broker")
  \/ In("broker") /\ Broker!Close /\ Only("broker")
  \/ In("broker") /\ Broker!Tick /\ Only("broker")

-----------------------------------------------------------------------------
Chats == In("chat") /\ ~overtaken

ChatNext ==
  \/ \E t \in Chat!Turns : Chats /\ Chat!Advances(t) /\ Only("chat")
  \/ \E t \in Chat!Turns : Chats /\ Chat!Retry(t) /\ Only("chat")
  \/ \E change \in due : Chats /\ Chat!Publishes(change) /\ Only("chat")
  \/ Chats /\ Chat!Opens /\ Only("chat")
  \/ Chats /\ Chat!Closes /\ Only("chat")
  \/ Chats /\ Chat!OnEvent /\ Only("chat")
  \/ Chats /\ Chat!OnError /\ Only("chat")
  \/ Chats /\ Chat!Reconnects /\ Only("chat")
  \/ Chats /\ Chat!ReconnectRefused /\ Only("chat")
  \/ Chats /\ Chat!FetchReads /\ Only("chat")
  \/ Chats /\ Chat!FetchArrives /\ Only("chat")
  \/ Chats /\ Chat!FetchFails /\ Only("chat")
  \/ Chats /\ Chat!Send /\ Only("chat")
  \/ Chats /\ Chat!AcceptsTurn /\ Only("chat")
  \/ Chats /\ Chat!AcceptsRetry /\ Only("chat")
  \/ Chats /\ Chat!Answered /\ Only("chat")
  \/ Chats /\ Chat!Fails /\ Only("chat")

-----------------------------------------------------------------------------
Queues == In("uploads") /\ missed = {}

UploadsNext ==
  \/ \E f \in Files : Queues /\ Queue!AddFile(f) /\ Only("uploads")
  \/ \E f \in Files : Queues /\ Queue!Remove(f) /\ Only("uploads")
  \/ \E f \in Files : Queues /\ Queue!Retry(f) /\ Only("uploads")
  \/ \E f \in Files : Queues /\ Queue!Uploads(f) /\ Only("uploads")
  \/ \E f \in Files : Queues /\ Queue!Reparses(f) /\ Only("uploads")
  \/ \E f \in Files : Queues /\ Queue!UploadAnswered(f) /\ Only("uploads")
  \/ \E f \in Files : Queues /\ Queue!RetryAnswered(f) /\ Only("uploads")
  \/ \E f \in Files : Queues /\ Queue!CallFails(f) /\ Only("uploads")
  \/ \E f \in Files : Queues /\ Queue!ParsingEnds(f) /\ Only("uploads")
  \/ Queues /\ Queue!Start /\ Only("uploads")
  \/ Queues /\ Queue!StopsRunning /\ Only("uploads")
  \/ Queues /\ Queue!ClearCompleted /\ Only("uploads")
  \/ Queues /\ Queue!StartUploads /\ Only("uploads")
  \/ Queues /\ Queue!BatchRefresh /\ Only("uploads")
  \/ Queues /\ Queue!Polls /\ Only("uploads")
  \/ Queues /\ Queue!ListingReads /\ Only("uploads")
  \/ Queues /\ Queue!ListingArrives /\ Only("uploads")

-----------------------------------------------------------------------------
ListsNext ==
  \/ \E i \in Ids : In("lists") /\ Lists!Create(i) /\ Only("lists")
  \/ \E i \in Ids : In("lists") /\ Lists!Touch(i) /\ Only("lists")
  \/ \E i \in Ids : In("lists") /\ Lists!Delete(i) /\ Only("lists")
  \/ In("lists") /\ Lists!FetchNextPage /\ Only("lists")
  \/ In("lists") /\ Lists!Refetch /\ Only("lists")
  \/ In("lists") /\ Lists!Reset /\ Only("lists")
  \/ In("lists") /\ Lists!ReadsPage /\ Only("lists")
  \/ In("lists") /\ Lists!FetchFails /\ Only("lists")

-----------------------------------------------------------------------------
LifecycleNext ==
  \/ In("lifecycle") /\ Life!StepDone /\ Only("lifecycle")
  \/ In("lifecycle") /\ Life!StepRaises /\ Only("lifecycle")
  \/ \E a \in Adapters : In("lifecycle") /\ Life!Resolves(a) /\ Only("lifecycle")
  \/ In("lifecycle") /\ Life!ApiStops /\ Only("lifecycle")
  \/ In("lifecycle") /\ Life!PoolEnds /\ Only("lifecycle")
  \/ In("lifecycle") /\ Life!Closes /\ Only("lifecycle")
  \/ In("lifecycle") /\ Life!CloseRaises /\ Only("lifecycle")
  \/ In("lifecycle") /\ Life!Ends /\ Only("lifecycle")

-----------------------------------------------------------------------------
ASSUME PlatformAssumption ==
  /\ Wr!WorkflowRunsAssumption
  /\ Tool!ToolCallsAssumption

(* The requests that nothing happens to start in one process *)
AProcess == CHOOSE p \in Processes : TRUE
AHandler == CHOOSE h \in Handlers : TRUE

Init ==
  /\ part \in {"runs", "resources", "tools", "access", "audit", "knowledge", "identities",
              "designer", "broker", "chat", "uploads", "lists", "lifecycle"}
  /\ Wr!Init
  /\ Res!Init /\ (part # "resources" => \A h \in Handlers : handler[h].process = AProcess)
  /\ Tool!Init
  /\ Access!Init /\ (part # "access" => attempt = Access!NoAttempts)
  /\ Audit!Init
  /\ Kb!Init
  /\ Id!Init
  /\ Design!Init
  /\ Broker!Init
  /\ Chat!Init
  /\ Queue!Init
  /\ Lists!Init
  /\ part # "lists" => order = "created" /\ rows = [i \in Ids |-> Lists!NotYet]
  /\ Life!Init /\ (part # "lifecycle" => server.kind = "api" /\ server.mode = "real")

Next ==
  \/ RunsNext \/ ResourcesNext \/ ToolsNext \/ AccessNext \/ AuditNext
  \/ KnowledgeNext \/ IdentitiesNext \/ DesignerNext \/ BrokerNext
  \/ ChatNext \/ UploadsNext \/ ListsNext \/ LifecycleNext

Spec == Init /\ [][Next]_vars /\ RunsFairness /\ ResourcesFairness

-----------------------------------------------------------------------------
(* Every variable of every component has its type. *)
TypesOK ==
  /\ part = "runs" => Wr!TypeOK
  /\ part = "resources" => Res!TypeOK
  /\ part = "tools" => Tool!TypeOK
  /\ part = "access" => Access!TypeOK
  /\ part = "audit" => Audit!TypeOK
  /\ part = "knowledge" => Kb!TypeOK
  /\ part = "identities" => Id!TypeOK
  /\ part = "designer" => Design!TypeOK
  /\ part = "broker" => Broker!TypeOK
  /\ part = "chat" => Chat!TypeOK
  /\ part = "uploads" => Queue!TypeOK
  /\ part = "lists" => Lists!TypeOK
  /\ part = "lifecycle" => Life!TypeOK

(* WorkflowRuns: a settled task tells the truth about its run, the end of a run is
   announced at most once, and a run that has ended keeps its row. *)
RunsEndOnce == [](Wr!OutcomeAgrees /\ Wr!EndAnnouncedOnce) /\ Wr!EndedRunStays

(* ResourceMutations: no stored row refers to a deleted one. *)
NoDanglingReference == Res!NoDanglingReference

(* WorkflowRuns and ResourceMutations: a caller that waits for a run is answered,
   unless some step raised, and every request ends; of the two requests, which are
   alike in everything, the first stands for both. *)
EveryoneIsAnswered ==
  (IF part = "runs" THEN Wr!Waits ELSE Res!UnderWay(AHandler))
    ~> (IF part = "runs" THEN Wr!Answered ELSE Res!Ended(AHandler))

(* ToolCatalog and ToolCalls: a ready source offers only what its present endpoint
   listed, no source is deleted from under a collection that has it, and after a
   request with an unknown result no other request of that tool leaves in the same
   turn. *)
ToolsKeepTheirWord ==
  []Tool!ReadyListsCurrentEndpoint /\ Tool!CollectionKeepsItsSources /\ Tool!UnknownIsFinal

(* AuthSessions: a session that answers was stored after the last reset of its
   account's password, and an account or address with as many failures as allowed
   within the window is locked. *)
SessionsAndLocks ==
  part = "access" => Access!SessionsOutliveNoReset /\ Access!LockedAtLimit

(* AuditTrail: what is audited does not happen without a record, no check of a
   chain that is being written to finds it broken, and no page is torn. *)
AuditTrailIsWhole ==
  part = "audit" => Audit!ChangesAreRecorded /\ Audit!ChecksFindNoBreak /\ Audit!PagesAreWhole

(* KnowledgeBases: an ownership is given up only when its dataset is gone. *)
ReleasedWhenGone == Kb!ReleasedWhenGone

(* KnowledgeBases: what a user is told holds, even when calls land late. *)
AnswersAreTrue == part = "knowledge" => Kb!AnswersAreTrue

(* RagFlowIdentities: initialisations that were broken off converge. *)
RetriesConverge == part = "identities" => Id!RetriesConverge

(* WorkflowGraphs: the validator passes the graphs that are a row of nodes and whose
   runs visit every node, and no others. *)
ValidatorIsExact == part = "designer" => Design!ValidatorIsExact

(* WorkflowDesigner, ChatScreen, UploadQueue and PagedList: no edit brings disorder that it could
   have kept out, and an editor that says its workflow is saved shows what is stored;
   a conversation that has every event shows its messages as they are stored; calls
   are counted, no file is uploaded twice, and the end of its parsing is asked for; no
   row that stayed where it was is missing from a list or shown twice. *)
ScreensTellTheTruth ==
  /\ part = "designer" => Design!EditorKeepsOrder /\ Design!SavedIsStored
  /\ part = "chat" => Chat!ScreenIsCurrent
  /\ part = "uploads" =>
       Queue!CallsAreCounted /\ Queue!UploadedOnce /\ Queue!ParsingIsFollowed
  /\ part = "lists" => Lists!ListsAreWhole

(* EventBroker: a stream yields every event since the position it asked for, or a
   notice that it does not. *)
StreamsAreWhole == part = "broker" => Broker!StreamsAreWhole

(* Lifecycle: what a process opened is closed once when it ends, after all that uses
   it, and no failed start ends without an error. *)
EverythingIsClosed == part = "lifecycle" => Life!EverythingIsClosed

=============================================================================
