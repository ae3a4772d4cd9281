---------------------------- MODULE PlatformProofs ----------------------------
(***************************************************************************)
(* What the components promise holds for the platform that they make up.   *)
(* Their invariants come from the modules of proofs; what the types of     *)
(* accounts, chains and brokers need besides is proved here.               *)
(***************************************************************************)
EXTENDS Platform, ServicesProofs, ScreensProofs, TLAPS

-----------------------------------------------------------------------------
(* Every step is one of the component whose turn it is. *)
LEMMA PartOfStep ==
  ASSUME Next
  PROVE  /\ RunsNext \/ part # "runs"
         /\ ResourcesNext \/ part # "resources"
         /\ ToolsNext \/ part # "tools"
         /\ AccessNext \/ part # "access"
         /\ AuditNext \/ part # "audit"
         /\ KnowledgeNext \/ part # "knowledge"
         /\ IdentitiesNext \/ part # "identities"
         /\ DesignerNext \/ part # "designer"
         /\ BrokerNext \/ part # "broker"
         /\ ChatNext \/ part # "chat"
         /\ UploadsNext \/ part # "uploads"
         /\ ListsNext \/ part # "lists"
         /\ LifecycleNext \/ part # "lifecycle"
         /\ Only(part)
  <1>1. CASE RunsNext
    BY <1>1 DEF RunsNext, In
  <1>2. CASE ResourcesNext
    BY <1>2 DEF ResourcesNext, In
  <1>3. CASE ToolsNext
    BY <1>3 DEF ToolsNext, CatalogOnly, In
  <1>4. CASE AccessNext
    BY <1>4 DEF AccessNext, In
  <1>5. CASE AuditNext
    BY <1>5 DEF AuditNext, In
  <1>6. CASE KnowledgeNext
    BY <1>6 DEF KnowledgeNext, In
  <1>7. CASE IdentitiesNext
    BY <1>7 DEF IdentitiesNext, In
  <1>8. CASE DesignerNext
    BY <1>8 DEF DesignerNext, Designer, In
  <1>9. CASE BrokerNext
    BY <1>9 DEF BrokerNext, In
  <1>10. CASE ChatNext
    BY <1>10 DEF ChatNext, Chats, In
  <1>11. CASE UploadsNext
    BY <1>11 DEF UploadsNext, Queues, In
  <1>12. CASE ListsNext
    BY <1>12 DEF ListsNext, In
  <1>13. CASE LifecycleNext
    BY <1>13 DEF LifecycleNext, In
  <1> QED BY <1>1, <1>2, <1>3, <1>4, <1>5, <1>6, <1>7, <1>8, <1>9, <1>10, <1>11, <1>12, <1>13
      DEF Next

(* For each component a step of the platform is one of its own or none. *)
LEMMA RunsStep ==
  ASSUME [Next]_vars
  PROVE  [Wr!Next]_Wr!vars
  <1>1. CASE RunsNext
    BY <1>1 DEF RunsNext, Wr!Next, Wr!WorkerStep, Wr!StopStep
  <1>2. CASE Next /\ part # "runs"
    BY <1>2, PartOfStep DEF Only, wrVars, Wr!vars
  <1>3. CASE UNCHANGED vars
    BY <1>3 DEF vars, wrVars, Wr!vars
  <1> QED BY <1>1, <1>2, <1>3, PartOfStep

LEMMA ResourcesStep ==
  ASSUME [Next]_vars
  PROVE  [Res!Next]_Res!vars
  <1>1. CASE ResourcesNext
    BY <1>1 DEF ResourcesNext, Res!Next, Res!Request, Res!HandlerStep
  <1>2. CASE Next /\ part # "resources"
    BY <1>2, PartOfStep DEF Only, resVars, Res!vars
  <1>3. CASE UNCHANGED vars
    BY <1>3 DEF vars, resVars, Res!vars
  <1> QED BY <1>1, <1>2, <1>3, PartOfStep

LEMMA ToolsStep ==
  ASSUME [Next]_vars
  PROVE  [Tool!Next]_Tool!vars
  <1>1. CASE ToolsNext
    BY <1>1 DEF ToolsNext, CatalogOnly, turnVars, Tool!Next, Tool!turnVars, Tool!Administers,
       Tool!ChangesCapability, Tool!ChangesGrants, Tool!SyncStep, Tool!CallStep
  <1>2. CASE Next /\ part # "tools"
    BY <1>2, PartOfStep DEF Only, toolVars, turnVars, Tool!vars, Tool!catalogVars, Tool!turnVars
  <1>3. CASE UNCHANGED vars
    BY <1>3 DEF vars, toolVars, turnVars, Tool!vars, Tool!catalogVars, Tool!turnVars
  <1> QED BY <1>1, <1>2, <1>3, PartOfStep

LEMMA KnowledgeStep ==
  ASSUME [Next]_vars
  PROVE  [Kb!Next]_Kb!vars
  <1>1. CASE KnowledgeNext
    BY <1>1 DEF KnowledgeNext, Kb!Next, Kb!RequestStep
  <1>2. CASE Next /\ part # "knowledge"
    BY <1>2, PartOfStep DEF Only, knowledgeVars, Kb!vars
  <1>3. CASE UNCHANGED vars
    BY <1>3 DEF vars, knowledgeVars, Kb!vars
  <1> QED BY <1>1, <1>2, <1>3, PartOfStep

-----------------------------------------------------------------------------
(* A settled task tells the truth about its run, whose end is announced at most once
   and which keeps its row (application/workflow_runs.py:190). *)
THEOREM RunsAlwaysEndOnce == Spec => RunsEndOnce
  <1>1. Init => Wr!WInv
    BY PlatformAssumption, Wr!WInit DEF Init
  <1>2. Wr!WInv /\ [Next]_vars => Wr!WInv'
    BY PlatformAssumption, RunsStep, Wr!WStep
  <1>3. Wr!WInv => Wr!OutcomeAgrees /\ Wr!EndAnnouncedOnce
    BY PlatformAssumption, Wr!OutcomeFollows, Wr!OneEndFollows
  <1>4. [Next]_vars => [run.status \in Wr!Terminal => run' = run]_Wr!vars
    BY RunsStep, Wr!EndedRunStep
  <1> QED BY <1>1, <1>2, <1>3, <1>4, PTL DEF Spec, RunsEndOnce, Wr!EndedRunStays

(* No stored row refers to a deleted one (application/resource_deletion.py:93). *)
THEOREM ReferencesNeverDangle == Spec => []NoDanglingReference
  <1>1. Init => MInv
    BY ServicesAssumption, MInit DEF Init
  <1>2. MInv /\ [Next]_vars => MInv'
    BY ServicesAssumption, ResourcesStep, StepKeeps
  <1>3. MInv => NoDanglingReference
    BY DEF MInv, NoDanglingReference
  <1> QED BY <1>1, <1>2, <1>3, PTL DEF Spec

(* A ready source lists what its endpoint does, a collection keeps its sources, and an
   unknown result is the last of its tool (external_mcp_service.py:153). *)
THEOREM ToolsAlwaysKeepTheirWord == Spec => ToolsKeepTheirWord
  <1> DEFINE Kept == \A s \in External : Tool!Exists(s) /\ ~Tool!Exists(s)' => ~Tool!Member(s)
             Final == \A k, j \in TurnCalls :
               (call[k].phase = "send" /\ call'[k].phase = "sent" /\ call[j].result = "unknown")
                 => call[j].tool # call[k].tool
  <1>1. Init => Tool!CatalogInv /\ Tool!CallInv
    BY PlatformAssumption, Tool!CatalogInitial, Tool!CallsInitial
       DEF Init, Tool!Init, Tool!ToolCallsAssumption
  <1>2. Tool!CatalogInv /\ [Next]_vars => Tool!CatalogInv'
    BY PlatformAssumption, ToolsStep, Tool!CatalogStep DEF Tool!ToolCallsAssumption
  <1>3. Tool!CallInv /\ [Next]_vars => Tool!CallInv'
    BY PlatformAssumption, ToolsStep, Tool!CallsStep DEF Tool!ToolCallsAssumption
  <1>4. Tool!CatalogInv => Tool!ReadyListsCurrentEndpoint
    BY DEF Tool!CatalogInv
  <1>5. Tool!CatalogInv /\ [Next]_vars => [Kept]_Tool!catalogVars
    BY PlatformAssumption, ToolsStep, Tool!CollectionKeepsStep DEF Tool!ToolCallsAssumption
  <1>6. Tool!CallInv /\ [Next]_vars => [Final]_Tool!vars
    BY PlatformAssumption, ToolsStep, Tool!UnknownFinalStep DEF Tool!ToolCallsAssumption
  <1> QED BY <1>1, <1>2, <1>3, <1>4, <1>5, <1>6, PTL
      DEF Spec, ToolsKeepTheirWord, Tool!CollectionKeepsItsSources, Tool!UnknownIsFinal

(* What a user is told of a knowledge base holds (ragflow.py:506). *)
THEOREM AnswersAlwaysTrue == Spec => []AnswersAreTrue
  <1>1. Init => KInv
    BY ServicesAssumption, KInit DEF Init
  <1>2. KInv /\ [Next]_vars => KInv'
    BY ServicesAssumption, KnowledgeStep, KStep
  <1>3. KInv => AnswersAreTrue
    BY ServicesAssumption, AnswersFollow DEF AnswersAreTrue
  <1> QED BY <1>1, <1>2, <1>3, PTL DEF Spec

(* An ownership is given up only when its dataset is gone (knowledge/service.py:231). *)
THEOREM ReleasedOnlyWhenGone == Spec => ReleasedWhenGone
  <1> DEFINE Given == \A b \in Bases : owner[b] # NoTenant /\ owner'[b] = NoTenant
                                         => dataset[b].state = "gone"
  <1>1. Init => KInv
    BY ServicesAssumption, KInit DEF Init
  <1>2. KInv /\ [Next]_vars => KInv'
    BY ServicesAssumption, KnowledgeStep, KStep
  <1>3. KInv /\ [Next]_vars => [Given]_Kb!vars
    BY ServicesAssumption, KnowledgeStep, ReleasedStep
  <1> QED BY <1>1, <1>2, <1>3, PTL DEF Spec, ReleasedWhenGone, Kb!ReleasedWhenGone

-----------------------------------------------------------------------------
LEMMA LifecycleStep ==
  ASSUME [Next]_vars
  PROVE  [Life!Next]_Life!vars
  <1>1. CASE LifecycleNext
    BY <1>1 DEF LifecycleNext, Life!Next
  <1>2. CASE Next /\ part # "lifecycle"
    BY <1>2, PartOfStep DEF Only, lifeVars, Life!vars
  <1>3. CASE UNCHANGED vars
    BY <1>3 DEF vars, lifeVars, Life!vars
  <1> QED BY <1>1, <1>2, <1>3, PartOfStep

(* Whichever steps of a start and closings raise, a process closes what it opened, each
   part after all that uses it, and no failed start ends without an error
   (lifecycle.py:11). *)
THEOREM EverythingIsAlwaysClosed == Spec => []EverythingIsClosed
  <1>1. Init => LifeInv
    BY ServicesAssumption, LifeInit DEF Init
  <1>2. LifeInv /\ [Next]_vars => LifeInv'
    BY ServicesAssumption, LifecycleStep, LifeStep
  <1>3. LifeInv => EverythingIsClosed
    BY DEF LifeInv, EverythingIsClosed
  <1> QED BY <1>1, <1>2, <1>3, PTL DEF Spec

-----------------------------------------------------------------------------
LEMMA AccessStep ==
  ASSUME [Next]_vars
  PROVE  [Access!Next]_Access!vars
  <1>1. CASE AccessNext
    BY <1>1 DEF AccessNext, Access!Next, Access!RequestStep
  <1>2. CASE Next /\ part # "access"
    BY <1>2, PartOfStep DEF Only, accessVars, Access!vars
  <1>3. CASE UNCHANGED vars
    BY <1>3 DEF vars, accessVars, Access!vars
  <1> QED BY <1>1, <1>2, <1>3, PartOfStep

(* No session from before a reset of its account's password answers, and a key is locked
   exactly when its failures have reached the limit (persistence/auth.py:349). *)
THEOREM SessionsAndLocksHold == Spec => []SessionsAndLocks
  <1>1. Init => AccessInv
    BY ServicesAssumption, AccessInit DEF Init
  <1>2. AccessInv /\ [Next]_vars => AccessInv'
    BY ServicesAssumption, AccessStep, AccessKept
  <1>3. AccessInv => SessionsAndLocks
    BY AccessFollows DEF SessionsAndLocks
  <1> QED BY <1>1, <1>2, <1>3, PTL DEF Spec

-----------------------------------------------------------------------------
LEMMA AuditStep ==
  ASSUME [Next]_vars
  PROVE  [Audit!Next]_Audit!vars
  <1>1. CASE AuditNext
    BY <1>1 DEF AuditNext, Audit!Next, Audit!RequestStep
  <1>2. CASE Next /\ part # "audit"
    BY <1>2, PartOfStep DEF Only, auditVars, Audit!vars
  <1>3. CASE UNCHANGED vars
    BY <1>3 DEF vars, auditVars, Audit!vars
  <1> QED BY <1>1, <1>2, <1>3, PartOfStep

(* What is audited does not happen without a record of it, no check of a chain that grows
   meanwhile reports a break, and the pages a reader follows miss nothing
   (api/audit.py:42, persistence/audit.py:122 and 142). *)
THEOREM AuditTrailAlwaysWhole == Spec => []AuditTrailIsWhole
  <1>1. Init => AuditInv
    BY ServicesAssumption, AuditInit DEF Init
  <1>2. AuditInv /\ [Next]_vars => AuditInv'
    BY ServicesAssumption, AuditStep, AuditKept
  <1>3. AuditInv => AuditTrailIsWhole
    BY AuditFollows DEF AuditTrailIsWhole
  <1> QED BY <1>1, <1>2, <1>3, PTL DEF Spec

-----------------------------------------------------------------------------
LEMMA IdentitiesStep ==
  ASSUME [Next]_vars
  PROVE  [Id!Next]_Id!vars
  <1>1. CASE IdentitiesNext
    BY <1>1 DEF IdentitiesNext, Id!Next, Id!ProcessStep
  <1>2. CASE Next /\ part # "identities"
    BY <1>2, PartOfStep DEF Only, identityVars, Id!vars
  <1>3. CASE UNCHANGED vars
    BY <1>3 DEF vars, identityVars, Id!vars
  <1> QED BY <1>1, <1>2, <1>3, PartOfStep

(* Initialisations of a tenant's RAGFlow identity that were broken off converge: its row keeps
   the password its account has, what is active is configured and has a token, and locks
   lost with their connection are the only reason for a second token
   (knowledge/ragflow_identity.py:136). *)
THEOREM RetriesAlwaysConverge == Spec => []RetriesConverge
  <1>1. Init => IdInv
    BY ServicesAssumption, IdInit DEF Init
  <1>2. IdInv /\ [Next]_vars => IdInv'
    BY IdentitiesStep, IdKept
  <1>3. IdInv => RetriesConverge
    BY IdFollows DEF RetriesConverge
  <1> QED BY <1>1, <1>2, <1>3, PTL DEF Spec

-----------------------------------------------------------------------------
LEMMA BrokerStep ==
  ASSUME [Next]_vars
  PROVE  [Broker!Next]_Broker!vars
  <1>1. CASE BrokerNext
    BY <1>1 DEF BrokerNext, Broker!Next
  <1>2. CASE Next /\ part # "broker"
    BY <1>2, PartOfStep DEF Only, brokerVars, Broker!vars
  <1>3. CASE UNCHANGED vars
    BY <1>3 DEF vars, brokerVars, Broker!vars
  <1> QED BY <1>1, <1>2, <1>3, PartOfStep

(* A stream yields every event since the position it asked for, or a notice that it does
   not, whoever publishes, leaves, overflows or expires meanwhile
   (conversations/events.py:272). *)
THEOREM StreamsAlwaysWhole == Spec => []StreamsAreWhole
  <1>1. Init => BrokerInv
    BY BrokerInit DEF Init
  <1>2. BrokerInv /\ [Next]_vars => BrokerInv'
    BY BrokerStep, BrokerKept
  <1>3. BrokerInv => StreamsAreWhole
    BY BrokerFollows DEF StreamsAreWhole
  <1> QED BY <1>1, <1>2, <1>3, PTL DEF Spec

-----------------------------------------------------------------------------
(* The four screens *)
LEMMA DesignerStep ==
  ASSUME [Next]_vars
  PROVE  [Design!Next]_Design!vars
  <1>1. CASE DesignerNext
    <2>1. Design!ToSet(editor.graph.edges) = ToSet(editor.graph.edges)
      BY DEF Design!ToSet, ToSet
    <2>2. EditorIds = Design!NodeIds(editor.graph)
      BY DEF EditorIds, Design!NodeIds
    <2> QED BY <1>1, <2>1, <2>2
        DEF DesignerNext, Designer, Design!Next, Design!DesignerNext, Design!Edits
  <1>2. CASE Next /\ part # "designer"
    BY <1>2, PartOfStep DEF Only, designerVars, Design!vars
  <1>3. CASE UNCHANGED vars
    BY <1>3 DEF vars, designerVars, Design!vars
  <1> QED BY <1>1, <1>2, <1>3, PartOfStep

LEMMA ChatStep ==
  ASSUME [Next]_vars
  PROVE  [Chat!Next]_Chat!vars
  <1>1. CASE ChatNext
    BY <1>1 DEF ChatNext, Chat!Next
  <1>2. CASE Next /\ part # "chat"
    BY <1>2, PartOfStep DEF Only, chatVars, Chat!vars
  <1>3. CASE UNCHANGED vars
    BY <1>3 DEF vars, chatVars, Chat!vars
  <1> QED BY <1>1, <1>2, <1>3, PartOfStep

LEMMA UploadsStep ==
  ASSUME [Next]_vars
  PROVE  [Queue!Next]_Queue!vars
  <1>1. CASE UploadsNext
    BY <1>1 DEF UploadsNext, Queue!Next
  <1>2. CASE Next /\ part # "uploads"
    BY <1>2, PartOfStep DEF Only, uploadVars, Queue!vars
  <1>3. CASE UNCHANGED vars
    BY <1>3 DEF vars, uploadVars, Queue!vars
  <1> QED BY <1>1, <1>2, <1>3, PartOfStep

LEMMA ListsStep ==
  ASSUME [Next]_vars
  PROVE  [Lists!Next]_Lists!vars
  <1>1. CASE ListsNext
    BY <1>1 DEF ListsNext, Lists!Next
  <1>2. CASE Next /\ part # "lists"
    BY <1>2, PartOfStep DEF Only, listVars, Lists!vars
  <1>3. CASE UNCHANGED vars
    BY <1>3 DEF vars, listVars, Lists!vars
  <1> QED BY <1>1, <1>2, <1>3, PartOfStep

(* What a user sees is so: no edit brings disorder that it could have kept out, and an
   editor that says its workflow is saved shows what is stored
   (useWorkflowDesigner.ts:134); a conversation that has every
   event shows its messages as they are stored, however snapshots and events cross
   (chatState.ts:11); uploads are counted, none is made twice and the end of each parsing
   is asked for (KnowledgeUploadQueue.tsx:116); and a list neither loses nor repeats a row
   that stayed where it was between two pages (persistence/conversations.py:109). *)
THEOREM ScreensAlwaysTellTheTruth == Spec => []ScreensTellTheTruth
  <1> DEFINE Inv == DesignerInv /\ ChatInv /\ QueueInv /\ ListsInv
  <1>1. Init => Inv
    BY DesignerInit, ChatInit, QueueInit, ListsInit DEF Init
  <1>2. Inv /\ [Next]_vars => Inv'
    <2> SUFFICES ASSUME Inv, [Next]_vars PROVE Inv'
      OBVIOUS
    <2>1. DesignerInv'
      BY DesignerStep, DesignerKept
    <2>2. ChatInv'
      BY ChatStep, ChatKept
    <2>3. QueueInv'
      BY UploadsStep, QueueKept
    <2>4. ListsInv'
      BY ListsStep, ListsKept
    <2> QED BY <2>1, <2>2, <2>3, <2>4
  <1>3. Inv => ScreensTellTheTruth
    BY DesignerFollows, ChatFollows, QueueFollows, ListsFollows DEF ScreensTellTheTruth
  <1> QED BY <1>1, <1>2, <1>3, PTL DEF Spec

-----------------------------------------------------------------------------
(* Types: no request is later than the clock, and a failure is counted once for a request *)
Finished == {r \in Logins : access[r].phase = "done"}

Timely(row, moment, n) ==
  /\ row \in Attempted /\ row.count \in 1 .. n + 1
  /\ row.started <= moment /\ row.updated <= moment /\ row.until <= moment + Window

RequestsTimely ==
  clock <= MaxTime /\ \A r \in Logins : access[r].at <= clock /\ access[r].password \in Access!Passwords
AccountRows ==
  /\ account \in [Users -> Access!AuthUserRow]
  /\ \A u, v \in Users : account[u].owner /\ account[v].owner => u = v
SessionRows ==
  \A t \in DOMAIN session : session[t] \in Access!AuthSessionRow /\ session[t].created <= clock
AttemptRows ==
  \A k \in DOMAIN attempt : k \in Access!Keys /\ Timely(attempt[k], clock, Cardinality(Finished))

AccessRows == RequestsTimely /\ AccountRows /\ SessionRows /\ AttemptRows

(* The instance counts as this module does *)
LEMMA AccessCounts ==
  \A S : Access!Cardinality(S) = Cardinality(S) /\ (Access!IsFiniteSet(S) <=> IsFiniteSet(S))
  <1>1. \A S : Access!Cardinality(S) = Cardinality(S)
    BY Zenon DEF Access!Cardinality, Cardinality
  <1>2. \A S : Access!IsFiniteSet(S) <=> IsFiniteSet(S)
    BY Zenon DEF Access!IsFiniteSet, IsFiniteSet
  <1> QED BY <1>1, <1>2

LEMMA LoginLimits ==
  ASSUME Access!AuthSessionsAssumption
  PROVE  /\ IsFiniteSet(Finished) /\ Cardinality(Finished) \in Nat
         /\ Cardinality(Finished) <= Cardinality(Logins) /\ Cardinality(Logins) \in Nat
         /\ Cardinality(Codes) \in Nat /\ Access!Passwords = 0 .. Cardinality(Codes)
         /\ 0 \in Access!Passwords
         /\ \A S \in SUBSET Codes : IsFiniteSet(S) /\ Cardinality(S) \in 0 .. Cardinality(Codes)
         /\ Window \in Nat \ {0} /\ MaxTime \in Nat /\ SessionIdle \in Nat \ {0} /\ Absolute \in Nat
         /\ SessionIdle <= Absolute /\ LoginAttempts \in Nat /\ LoginAttempts > 1
  <1>1. IsFiniteSet(Codes) /\ IsFiniteSet(Logins)
    BY AccessCounts DEF Access!AuthSessionsAssumption
  <1>2. Cardinality(Codes) \in Nat /\ Cardinality(Logins) \in Nat
    BY <1>1, FS_CardinalityType
  <1>3. IsFiniteSet(Finished) /\ Cardinality(Finished) \in Nat /\ Cardinality(Finished) <= Cardinality(Logins)
    BY <1>1, FS_Subset, FS_CardinalityType DEF Finished
  <1>4. \A S \in SUBSET Codes : IsFiniteSet(S) /\ Cardinality(S) \in 0 .. Cardinality(Codes)
    BY <1>1, <1>2, FS_Subset, FS_CardinalityType
  <1>5. Access!Passwords = 0 .. Cardinality(Codes)
    BY AccessCounts DEF Access!Passwords
  <1>6. 0 \in Access!Passwords
    BY <1>2, <1>5
  <1> QED BY <1>1, <1>2, <1>3, <1>4, <1>5, <1>6 DEF Access!AuthSessionsAssumption

LEMMA ConsumedNumber ==
  ASSUME Access!AuthSessionsAssumption, AccessTyped, NEW u \in Users
  PROVE  /\ Access!Consumed(u) \in Access!Passwords
         /\ codes[u] # {} => Access!Consumed(u) + 1 \in Access!Passwords
  <1>1. codes[u] \in SUBSET Codes
    BY DEF AccessTyped
  <1>2. Access!Consumed(u) = Cardinality(Codes) - Cardinality(codes[u])
    BY AccessCounts DEF Access!Consumed
  <1>3. codes[u] # {} => Cardinality(codes[u]) # 0
    BY <1>1, LoginLimits, FS_EmptySet
  <1> QED BY <1>1, <1>2, <1>3, LoginLimits

(* Parts that a step leaves alone *)
LEMMA AttemptRowsStay ==
  ASSUME Access!AuthSessionsAssumption, AttemptRows, clock \in Nat, clock' \in Nat, clock <= clock',
         Finished \subseteq Finished',
         \A k \in DOMAIN attempt' : k \in DOMAIN attempt /\ attempt'[k] = attempt[k]
  PROVE  AttemptRows'
  <1>1. IsFiniteSet(Finished') /\ Cardinality(Finished') \in Nat
    <2>1. IsFiniteSet(Logins)
      BY AccessCounts DEF Access!AuthSessionsAssumption
    <2> QED BY <2>1, FS_Subset, FS_CardinalityType DEF Finished
  <1>2. Cardinality(Finished) <= Cardinality(Finished') /\ Cardinality(Finished) \in Nat
    BY <1>1, FS_Subset, LoginLimits
  <1> QED BY SMTT(40), <1>1, <1>2, LoginLimits DEF AttemptRows, Timely, Attempted

LEMMA SessionRowsStay ==
  ASSUME SessionRows, clock \in Nat, clock' \in Nat, clock <= clock', UNCHANGED session
  PROVE  SessionRows'
  BY DEF SessionRows, Access!AuthSessionRow

(* A request that goes on, or ends *)
LEMMA GoesTimely ==
  ASSUME Access!AuthSessionsAssumption, AccessTyped, RequestsTimely, NEW r \in Logins,
         NEW phase \in Access!Phases, Access!Goes(r, phase), access[r].phase # "done",
         UNCHANGED clock
  PROVE  /\ RequestsTimely' /\ Finished \subseteq Finished'
         /\ phase = "done" => Finished' = Finished \cup {r} /\ r \notin Finished
  <1>1. access[r] \in Requested /\ access \in [Logins -> Requested]
    BY DEF AccessTyped
  <1>2. PICK q : q = Access!Then(access[r], phase)
    OBVIOUS
  <1>3. q.phase = phase /\ q.at \in {0, access[r].at} /\ q.password \in {0, access[r].password}
    BY <1>1, <1>2 DEF Access!Then, Access!IdleRequest, Requested
  <1>4. access' = [access EXCEPT ![r] = q]
    BY <1>2 DEF Access!Goes
  <1>5. \A s \in Logins : access'[s] = IF s = r THEN q ELSE access[s]
    BY <1>1, <1>4
  <1>6. RequestsTimely'
    <2>1. clock \in Nat
      BY DEF AccessTyped
    <2>2. Access!Passwords' = Access!Passwords
      BY DEF Access!Passwords
    <2> QED BY SMTT(40), <1>3, <1>5, <2>1, <2>2, LoginLimits DEF RequestsTimely
  <1>7. Finished \subseteq Finished' /\ (phase = "done" => Finished' = Finished \cup {r} /\ r \notin Finished)
    BY <1>3, <1>5 DEF Finished
  <1> QED BY <1>6, <1>7

(* A failure is one more *)
LEMMA TimelyRow ==
  ASSUME Access!AuthSessionsAssumption, NEW n \in Nat, NEW moment \in Nat, NEW at \in Nat,
         at <= moment
  PROVE  /\ Timely(Access!FirstFailure(at), moment, n + 1)
         /\ \A row : Timely(row, moment, n) => Timely(Access!CountedFailure(row, at), moment, n + 1)
  <1>1. Timely(Access!FirstFailure(at), moment, n + 1)
    BY LoginLimits DEF Timely, Access!FirstFailure, Attempted
  <1>2. ASSUME NEW row, Timely(row, moment, n)
        PROVE  Timely(Access!CountedFailure(row, at), moment, n + 1)
    <2>1. row \in Attempted
      BY <1>2 DEF Timely
    <2>2. PICK next : next = IF row.started + Window <= at THEN 1 ELSE row.count + 1
      OBVIOUS
    <2>3. next \in 1 .. n + 2
      BY <1>2, <2>2 DEF Timely
    <2>4. PICK c : c = Access!CountedFailure(row, at)
      OBVIOUS
    <2>5. /\ c \in Attempted /\ c.count = next /\ c.updated = at
          /\ c.started \in {at, row.started} /\ c.until \in {0, at + Window}
      <3>1. c \in Attempted
        BY <2>1, <2>4, CountedRow
      <3> QED BY <2>2, <2>4, <3>1 DEF Access!CountedFailure, Access!Counted
    <2> QED BY <1>2, <2>3, <2>4, <2>5, LoginLimits DEF Timely
  <1> QED BY <1>1, <1>2

LEMMA TimelyMore ==
  ASSUME Access!AuthSessionsAssumption, NEW n \in Nat, NEW moment \in Nat, NEW row, Timely(row, moment, n)
  PROVE  Timely(row, moment, n + 1)
  BY DEF Timely, Attempted

LEMMA RecordTimely ==
  ASSUME Access!AuthSessionsAssumption, AttemptRows, clock \in Nat, UNCHANGED clock,
         NEW r, Finished' = Finished \cup {r}, r \notin Finished,
         NEW keys, keys \subseteq Access!Keys, NEW at \in Nat, at <= clock,
         Access!RecordLoginFailure(keys, at)
  PROVE  AttemptRows'
  <1> DEFINE N == Cardinality(Finished)
             old == {k \in DOMAIN attempt : Access!Stale(attempt[k], at)}
             fresh == Access!Without(attempt, old)
  <1>1. N \in Nat /\ Cardinality(Finished') = N + 1
    BY LoginLimits, FS_AddElement
  <1>2. \A k \in DOMAIN fresh : k \in DOMAIN attempt /\ fresh[k] = attempt[k]
    BY DEF Access!Without
  <1>3. \A k \in DOMAIN fresh : k \in Access!Keys /\ Timely(fresh[k], clock, N)
    BY <1>2 DEF AttemptRows
  <1> HIDE DEF fresh, N
  <1>4. ASSUME NEW k PROVE Timely(Access!FailureRow(fresh, k, at), clock, N + 1)
    BY <1>1, <1>3, TimelyRow DEF Access!FailureRow
  <1>5. PICK counts :
          counts = Access!With(fresh, keys, LAMBDA k : Access!FailureRow(fresh, k, at))
    OBVIOUS
  <1>6. ASSUME NEW k \in DOMAIN counts PROVE k \in Access!Keys /\ Timely(counts[k], clock, N + 1)
    <2>1. CASE k \in keys
      <3>1. counts[k] = Access!FailureRow(fresh, k, at)
        BY <1>5, <2>1 DEF Access!With
      <3> QED BY <1>4, <2>1, <3>1
    <2>2. CASE k \notin keys
      <3>1. k \in DOMAIN fresh /\ counts[k] = fresh[k]
        BY <1>5, <1>6, <2>2 DEF Access!With
      <3> QED BY <1>1, <1>3, <3>1, TimelyMore
    <2> QED BY <2>1, <2>2
  <1>7. \A k \in DOMAIN attempt : k \in Access!Keys /\ Timely(attempt[k], clock, N + 1)
    BY <1>1, TimelyMore DEF AttemptRows, N
  <1>8. attempt' \in {counts, attempt}
    BY <1>5 DEF Access!RecordLoginFailure, fresh
  <1>9. Access!Keys' = Access!Keys
    BY DEF Access!Keys
  <1> QED BY <1>1, <1>6, <1>7, <1>8, <1>9 DEF AttemptRows

(* The smaller of two moments *)
LEMMA SlidIs ==
  ASSUME NEW a \in Nat, NEW b \in Nat
  PROVE  Access!Min({a, b}) \in {a, b} /\ Access!Min({a, b}) <= a /\ Access!Min({a, b}) <= b
  <1>1. \E x \in {a, b} : \A y \in {a, b} : x =< y
    <2>1. CASE a <= b
      BY <2>1
    <2>2. CASE b <= a
      BY <2>2
    <2> QED BY <2>1, <2>2
  <1> QED BY <1>1 DEF Access!Min

LEMMA AccessRowsInit ==
  ASSUME Access!AuthSessionsAssumption, Access!Init
  PROVE  AccessRows
  <1>1. RequestsTimely
    BY LoginLimits DEF Access!Init, Access!IdleRequest, RequestsTimely
  <1>2. AccountRows
    BY LoginLimits DEF Access!Init, Access!NoAccount, AccountRows, Access!AuthUserRow
  <1>3. SessionRows
    BY DEF Access!Init, Access!NoSessions, SessionRows
  <1>4. AttemptRows
    <2>1. \A k \in DOMAIN attempt : k \in Access!Keys /\ attempt[k] = Access!FirstFailure(0)
      BY DEF Access!Init, Access!NoAttempts, Access!Keys, Access!Scopes, Access!AuthSessionsAssumption
    <2>2. clock = 0
      BY DEF Access!Init
    <2>3. Timely(Access!FirstFailure(0), 0, Cardinality(Finished))
      BY LoginLimits DEF Timely, Access!FirstFailure, Attempted
    <2> QED BY <2>1, <2>2, <2>3 DEF AttemptRows
  <1> QED BY <1>1, <1>2, <1>3, <1>4 DEF AccessRows

(* A step that touches no row *)
LEMMA GoesOnly ==
  ASSUME Access!AuthSessionsAssumption, AccessInv, AccessRows, NEW r \in Logins,
         NEW phase \in Access!Phases, Access!Goes(r, phase), access[r].phase # "done",
         UNCHANGED <<clock, session, attempt>>, AccountRows'
  PROVE  AccessRows'
  <1>1. AccessTyped /\ clock \in Nat /\ clock' = clock
    BY DEF AccessInv, AccessTyped
  <1>2. RequestsTimely' /\ Finished \subseteq Finished'
    BY <1>1, GoesTimely DEF AccessRows
  <1>3. SessionRows' /\ AttemptRows'
    BY <1>1, <1>2, SessionRowsStay, AttemptRowsStay DEF AccessRows
  <1> QED BY <1>2, <1>3 DEF AccessRows

LEMMA AccessRowsKept ==
  ASSUME Access!AuthSessionsAssumption, AccessInv, AccessRows, [Access!Next]_Access!vars
  PROVE  AccessRows'
  <1> USE DEF AccessRows
  <1>0. AccessTyped /\ clock \in Nat /\ access \in [Logins -> Requested]
    BY DEF AccessInv, AccessTyped
  <1>1. ASSUME UNCHANGED account PROVE AccountRows'
    BY <1>1 DEF AccountRows, Access!AuthUserRow, Access!Passwords
  <1>2. ASSUME NEW r \in Logins, NEW op, NEW u, NEW p \in Access!Passwords,
               Access!Arrives(r, op, u, p)
        PROVE  AccessRows'
    <2>1. PICK q : /\ access' = [access EXCEPT ![r] = q] /\ q.phase \in {"check", "create"}
                   /\ q.at = clock /\ q.password = p
      <3> DEFINE q == [op |-> op, user |-> u, password |-> p, at |-> clock, weak |-> FALSE,
                       phase |-> IF op \in {"login", "reset"} THEN "check" ELSE "create"]
      <3>1. access' = [access EXCEPT ![r] = q]
        BY <1>2 DEF Access!Arrives
      <3>2. q.phase \in {"check", "create"} /\ q.at = clock /\ q.password = p
        OBVIOUS
      <3> HIDE DEF q
      <3> QED BY <3>1, <3>2
    <2>2. UNCHANGED <<account, session, attempt, clock>> /\ access[r].phase = "idle"
      BY <1>2 DEF Access!Arrives
    <2>3. Finished \subseteq Finished'
      BY <1>0, <2>1, <2>2 DEF Finished
    <2>4. RequestsTimely'
      BY <1>0, <2>1, <2>2 DEF RequestsTimely, Access!Passwords
    <2> QED BY <1>0, <1>1, <2>2, <2>3, <2>4, SessionRowsStay, AttemptRowsStay
  <1>3. ASSUME NEW r \in Logins, Access!Login(r) \/ Access!ResetRequest(r)
               \/ Access!RegisterOwner(r) \/ Access!ProvisionMember(r)
        PROVE  AccessRows'
    BY <1>2, <1>3, LoginLimits DEF Access!Login, Access!ResetRequest, Access!RegisterOwner,
       Access!ProvisionMember
  <1>4. ASSUME NEW r \in Logins,
               Access!ChecksAttempts(r) \/ Access!ResetRefused(r) \/ Access!ResetFails(r)
               \/ Access!RequestLost(r)
        PROVE  AccessRows'
    <2>1. PICK phase \in Access!Phases : Access!Goes(r, phase)
      BY <1>4 DEF Access!ChecksAttempts, Access!ResetRefused, Access!ResetFails,
         Access!RequestLost, Access!Phases
    <2>2. access[r].phase # "done" /\ UNCHANGED <<clock, account, session, attempt>>
      BY <1>4 DEF Access!ChecksAttempts, Access!ResetRefused, Access!ResetFails,
         Access!RequestLost, Access!AtPhase
    <2> QED BY <1>1, <2>1, <2>2, GoesOnly
  <1>5. ASSUME NEW r \in Logins, Access!Verifies(r)
        PROVE  AccessRows'
    <2>1. UNCHANGED <<account, codes, session, attempt, clock>> /\ access[r].phase = "find"
      BY <1>5 DEF Access!Verifies, Access!AtPhase
    <2>2. PICK weak, phase : /\ access' = [access EXCEPT ![r].weak = weak, ![r].phase = phase]
                             /\ phase \in {"clear", "record"}
      <3> DEFINE weak == account[access[r].user].weak
                 phase == IF /\ account[access[r].user].exists
                             /\ account[access[r].user].password = access[r].password
                          THEN "clear" ELSE "record"
      <3>1. access' = [access EXCEPT ![r].weak = weak, ![r].phase = phase]
        BY <1>5 DEF Access!Verifies
      <3>2. phase \in {"clear", "record"}
        OBVIOUS
      <3> HIDE DEF weak, phase
      <3> QED BY <3>1, <3>2
    <2>3. \A s \in Logins : /\ access'[s].at = access[s].at /\ access'[s].password = access[s].password
                            /\ access[s].phase = "done" => access'[s].phase = "done"
      BY <1>0, <2>1, <2>2 DEF Requested
    <2>4. Finished \subseteq Finished'
      BY <2>3 DEF Finished
    <2>5. RequestsTimely'
      BY <2>1, <2>3 DEF RequestsTimely, Access!Passwords
    <2> QED BY <1>0, <1>1, <2>1, <2>4, <2>5, SessionRowsStay, AttemptRowsStay
  <1>6. ASSUME NEW r \in Logins, Access!RecordsFailure(r)
        PROVE  AccessRows'
    <2>1. UNCHANGED <<account, session, clock>> /\ access[r].phase = "record"
          /\ Access!Goes(r, "done") /\ "done" \in Access!Phases
      BY <1>6 DEF Access!RecordsFailure, Access!AtPhase, Access!Phases
    <2>2. RequestsTimely' /\ Finished' = Finished \cup {r} /\ r \notin Finished
      BY <1>0, <2>1, GoesTimely
    <2>3. PICK keys : keys = Access!AttemptKeys(r)
      OBVIOUS
    <2>4. keys \subseteq Access!Keys
      BY <1>0, <2>3 DEF Access!AttemptKeys, Access!Keys, Access!Scopes, Requested
    <2>5. access[r].at \in Nat /\ access[r].at <= clock
      BY <1>0 DEF Requested, RequestsTimely
    <2>6. Access!RecordLoginFailure(keys, access[r].at)
      BY <1>6, <2>3 DEF Access!RecordsFailure
    <2>7. AttemptRows'
      BY <1>0, <2>1, <2>2, <2>4, <2>5, <2>6, RecordTimely
    <2> QED BY <1>0, <1>1, <2>1, <2>2, <2>7, SessionRowsStay
  <1>7. ASSUME NEW r \in Logins, Access!ClearsFailures(r)
        PROVE  AccessRows'
    <2>1. PICK phase \in Access!Phases : Access!Goes(r, phase)
      BY <1>7 DEF Access!ClearsFailures, Access!Phases
    <2>2. access[r].phase # "done" /\ UNCHANGED <<clock, account, session>>
      BY <1>7 DEF Access!ClearsFailures, Access!AtPhase
    <2>3. \A k \in DOMAIN attempt' : k \in DOMAIN attempt /\ attempt'[k] = attempt[k]
      BY <1>7 DEF Access!ClearsFailures, Access!Without
    <2>4. RequestsTimely' /\ Finished \subseteq Finished'
      BY <1>0, <2>1, <2>2, GoesTimely
    <2> QED BY <1>0, <1>1, <2>2, <2>3, <2>4, SessionRowsStay, AttemptRowsStay
  <1>8. ASSUME NEW r \in Logins, Access!ReplacesHash(r)
        PROVE  AccessRows'
    <2>1. PICK u \in Users, p \in Access!Passwords : u = access[r].user /\ p = access[r].password
      BY <1>0 DEF Requested, RequestsTimely
    <2>2. account' = [account EXCEPT ![u].password = p, ![u].weak = FALSE]
      BY <1>8, <2>1 DEF Access!ReplacesHash
    <2>3. AccountRows'
      BY <2>1, <2>2 DEF AccountRows, Access!AuthUserRow, Access!Passwords
    <2> QED BY <1>8, <2>3, GoesOnly DEF Access!ReplacesHash, Access!AtPhase, Access!Phases
  <1>9. ASSUME NEW r \in Logins, Access!CreatesAccount(r)
        PROVE  AccessRows'
    <2>1. PICK owning \in BOOLEAN, u \in Users :
            owning = (access[r].op = "register") /\ u = access[r].user
      BY <1>0 DEF Requested
    <2>2. \/ UNCHANGED account
          \/ /\ account' = [account EXCEPT ![u] =
                              [Access!NoAccount EXCEPT !.exists = TRUE, !.owner = owning]]
             /\ owning => \A v \in Users : ~account[v].owner
      BY <1>9, <2>1 DEF Access!CreatesAccount
    <2>3. AccountRows'
      <3>1. CASE /\ account' = [account EXCEPT ![u] =
                              [Access!NoAccount EXCEPT !.exists = TRUE, !.owner = owning]]
                 /\ owning => \A v \in Users : ~account[v].owner
        <4>1. PICK a : a = [Access!NoAccount EXCEPT !.exists = TRUE, !.owner = owning]
          OBVIOUS
        <4>2. a \in Access!AuthUserRow /\ a.owner = owning
          BY <4>1, LoginLimits DEF Access!NoAccount, Access!AuthUserRow
        <4>3. account' = [account EXCEPT ![u] = a]
          BY <3>1, <4>1
        <4> QED BY <3>1, <4>2, <4>3 DEF AccountRows, Access!AuthUserRow, Access!Passwords
      <3> QED BY <1>1, <2>2, <3>1
    <2>4. PICK phase \in Access!Phases : Access!Goes(r, phase)
      BY <1>9 DEF Access!CreatesAccount, Access!Phases
    <2>5. access[r].phase # "done" /\ UNCHANGED <<clock, session, attempt>>
      BY <1>9 DEF Access!CreatesAccount, Access!AtPhase
    <2> QED BY <2>3, <2>4, <2>5, GoesOnly
  <1>10. ASSUME NEW r \in Logins, Access!IssuesSession(r)
         PROVE  AccessRows'
    <2>1. UNCHANGED <<account, attempt, clock>> /\ access[r].phase = "issue"
          /\ Access!Goes(r, "done") /\ "done" \in Access!Phases
      BY <1>10 DEF Access!IssuesSession, Access!AtPhase, Access!Phases
    <2>2. PICK u \in Users, at \in Nat : u = access[r].user /\ at = access[r].at /\ at <= clock
      BY <1>0 DEF Requested, RequestsTimely
    <2>3. PICK row : row = [user |-> u, created |-> at,
                            idle |-> at + SessionIdle, absolute |-> at + Absolute,
                            revoked |-> FALSE, resets |-> Access!Consumed(u)]
      OBVIOUS
    <2>4. session' = [t \in DOMAIN session \cup {r} |-> IF t = r THEN row ELSE session[t]]
      BY <1>10, <2>2, <2>3 DEF Access!IssuesSession, Access!With
    <2>5. /\ at \in 0 .. MaxTime /\ at + SessionIdle \in 0 .. MaxTime + SessionIdle
          /\ at + Absolute \in 0 .. MaxTime + Absolute /\ at < at + SessionIdle
          /\ at + SessionIdle <= at + Absolute
      <3>1. clock \in Nat /\ MaxTime \in Nat /\ clock <= MaxTime /\ SessionIdle \in Nat
            /\ Absolute \in Nat /\ SessionIdle > 0 /\ SessionIdle <= Absolute
        BY <1>0, LoginLimits DEF RequestsTimely
      <3> QED BY <2>2, <3>1
    <2>6. row \in Access!AuthSessionRow /\ row.created = at
      BY <1>0, <2>3, <2>5, ConsumedNumber DEF Access!AuthSessionRow
    <2>7. SessionRows'
      BY <2>1, <2>2, <2>4, <2>6 DEF SessionRows, Access!AuthSessionRow, Access!Passwords
    <2>8. RequestsTimely' /\ Finished \subseteq Finished'
      BY <1>0, <2>1, GoesTimely
    <2> QED BY <1>0, <1>1, <2>1, <2>7, <2>8, AttemptRowsStay
  <1>11. ASSUME NEW r \in Logins, Access!ResetsPassword(r)
         PROVE  AccessRows'
    <2>1. PICK u \in Users : u = access[r].user
      BY <1>0 DEF Requested
    <2>2. codes[u] # {} /\ UNCHANGED <<clock, attempt>> /\ access[r].phase = "reset"
          /\ Access!Goes(r, "clear") /\ "clear" \in Access!Phases
      BY <1>11, <2>1 DEF Access!ResetsPassword, Access!AtPhase, Access!Phases
    <2>3. PICK p \in Access!Passwords : p = Access!Consumed(u) + 1
      BY <1>0, <2>2, ConsumedNumber
    <2>4. account' = [account EXCEPT ![u].password = p, ![u].weak = FALSE]
      BY <1>11, <2>1, <2>3 DEF Access!ResetsPassword
    <2>5. AccountRows'
      BY <2>1, <2>3, <2>4 DEF AccountRows, Access!AuthUserRow, Access!Passwords
    <2>6. session' = [t \in DOMAIN session |->
                        [session[t] EXCEPT !.revoked = @ \/ session[t].user = u]]
      BY <1>11, <2>1 DEF Access!ResetsPassword, Access!RevokedSessions
    <2>7. \A t \in DOMAIN session : [session[t] EXCEPT !.revoked = @ \/ session[t].user = u]
             \in Access!AuthSessionRow
      <3>1. ASSUME NEW s \in Access!AuthSessionRow, NEW b \in BOOLEAN
            PROVE  [s EXCEPT !.revoked = b] \in Access!AuthSessionRow
        BY DEF Access!AuthSessionRow
      <3>2. ASSUME NEW s \in Access!AuthSessionRow
            PROVE  (s.revoked \/ s.user = u) \in BOOLEAN
        BY DEF Access!AuthSessionRow
      <3> QED BY <3>1, <3>2 DEF SessionRows
    <2>8. \A t \in DOMAIN session : session'[t].created = session[t].created
      BY <2>6 DEF SessionRows, Access!AuthSessionRow
    <2>9. SessionRows'
      BY <2>2, <2>6, <2>7, <2>8 DEF SessionRows, Access!AuthSessionRow, Access!Passwords
    <2>10. RequestsTimely' /\ Finished \subseteq Finished'
      BY <1>0, <2>2, GoesTimely
    <2> QED BY <1>0, <2>2, <2>5, <2>9, <2>10, AttemptRowsStay
  <1>12. ASSUME NEW t, Access!FindActiveSession(t) \/ Access!RevokeSession(t)
         PROVE  AccessRows'
    <2>1. UNCHANGED <<account, attempt, access, clock>> /\ t \in DOMAIN session
      BY <1>12 DEF Access!FindActiveSession, Access!RevokeSession
    <2>2. session[t] \in Access!AuthSessionRow /\ session[t].created <= clock
      BY <2>1 DEF SessionRows
    <2>3. PICK row : /\ session' = [session EXCEPT ![t] = row]
                     /\ \/ row = [session[t] EXCEPT !.revoked = TRUE]
                        \/ /\ Access!Active(t)
                           /\ row = [session[t] EXCEPT !.idle = Access!Slid(t)]
      BY <1>12 DEF Access!FindActiveSession, Access!RevokeSession
    <2>4. row \in Access!AuthSessionRow /\ row.created = session[t].created
      <3>1. CASE row = [session[t] EXCEPT !.revoked = TRUE]
        BY <2>2, <3>1 DEF Access!AuthSessionRow
      <3>2. CASE Access!Active(t) /\ row = [session[t] EXCEPT !.idle = Access!Slid(t)]
        <4>1. clock < session[t].absolute /\ session[t].absolute \in Nat /\ session[t].created \in Nat
              /\ clock + SessionIdle \in Nat
          BY SMTT(40), <1>0, <2>2, <3>2, LoginLimits DEF Access!Active, Access!AuthSessionRow
        <4>2. PICK i : i = Access!Slid(t)
          OBVIOUS
        <4>3. /\ i \in {clock + SessionIdle, session[t].absolute}
              /\ i <= clock + SessionIdle /\ i <= session[t].absolute
          BY <4>1, <4>2, SlidIs DEF Access!Slid
        <4>4. i \in 0 .. MaxTime + SessionIdle /\ session[t].created < i
          BY SMTT(40), <1>0, <2>2, <4>1, <4>3, LoginLimits DEF RequestsTimely
        <4> QED BY <2>2, <3>2, <4>2, <4>3, <4>4 DEF Access!AuthSessionRow
      <3> QED BY <2>3, <3>1, <3>2
    <2>5. SessionRows'
      BY <2>1, <2>2, <2>3, <2>4 DEF SessionRows, Access!AuthSessionRow, Access!Passwords
    <2>6. RequestsTimely' /\ Finished' = Finished
      BY <2>1 DEF RequestsTimely, Finished, Access!Passwords
    <2> QED BY <1>0, <1>1, <2>1, <2>5, <2>6, AttemptRowsStay
  <1>13. ASSUME Access!Tick PROVE AccessRows'
    <2>1. UNCHANGED <<account, session, attempt, access>> /\ clock' = clock + 1 /\ clock' <= MaxTime
      BY <1>0, <1>13, LoginLimits DEF Access!Tick
    <2>2. RequestsTimely' /\ Finished' = Finished
      <3>1. \A r \in Logins : access[r].at \in Nat
        BY <1>0 DEF Requested
      <3> QED BY <1>0, <2>1, <3>1 DEF RequestsTimely, Finished, Access!Passwords
    <2>3. clock' \in Nat /\ clock <= clock'
      BY <1>0, <2>1
    <2> QED BY <1>0, <1>1, <2>1, <2>2, <2>3, SessionRowsStay, AttemptRowsStay
  <1>14. ASSUME UNCHANGED Access!vars PROVE AccessRows'
    <2>1. UNCHANGED <<account, session, attempt, access, clock>>
      BY <1>14 DEF Access!vars
    <2>2. RequestsTimely' /\ Finished' = Finished
      BY <2>1 DEF RequestsTimely, Finished, Access!Passwords
    <2> QED BY <1>0, <1>1, <2>1, <2>2, SessionRowsStay, AttemptRowsStay
  <1>15. ASSUME NEW r \in Logins, Access!RequestStep(r) PROVE AccessRows'
    BY <1>3, <1>4, <1>5, <1>6, <1>7, <1>8, <1>9, <1>10, <1>11, <1>15 DEF Access!RequestStep
  <1> QED BY <1>12, <1>13, <1>14, <1>15 DEF Access!Next

LEMMA AccessTypes ==
  ASSUME Access!AuthSessionsAssumption, AccessInv, AccessRows
  PROVE  Access!TypeOK
  <1>1. account \in [Users -> Access!AuthUserRow] /\ \A u \in Users : codes[u] \subseteq Codes
    BY DEF AccessInv, AccessTyped, AccessRows, AccountRows
  <1>2. \A t \in DOMAIN session : session[t] \in Access!AuthSessionRow
    BY DEF AccessRows, SessionRows
  <1>3. ASSUME NEW k \in DOMAIN attempt
        PROVE  k \in Access!Keys /\ attempt[k] \in Access!AuthLoginAttemptRow
    <2>1. k \in Access!Keys /\ Timely(attempt[k], clock, Cardinality(Finished))
      BY <1>3 DEF AccessRows, AttemptRows
    <2>2. clock \in Nat /\ clock <= MaxTime
      BY DEF AccessInv, AccessTyped, AccessRows, RequestsTimely
    <2>3. attempt[k].count \in 1 .. LoginAttempts + Access!Cardinality(Logins)
      BY <2>1, LoginLimits, AccessCounts DEF Timely
    <2>4. /\ attempt[k].started \in 0 .. MaxTime /\ attempt[k].until \in 0 .. MaxTime + Window
          /\ attempt[k].updated \in 0 .. MaxTime
      BY <2>1, <2>2, LoginLimits DEF Timely, Attempted
    <2> QED BY <2>1, <2>3, <2>4 DEF Timely, Attempted, Access!AuthLoginAttemptRow
  <1>4. \A r \in Logins : access[r].phase \in Access!Phases /\ access[r].op \in Access!Ops
    BY DEF AccessInv, AccessTyped, Requested
  <1>5. Access!Cardinality({u \in Users : account[u].owner}) <= 1
    <2>1. PICK S : S = {u \in Users : account[u].owner}
      OBVIOUS
    <2>2. S = {} \/ \E u : S = {u}
      <3>1. \A u, v \in S : u = v
        BY <2>1 DEF AccessRows, AccountRows
      <3>2. ASSUME NEW u \in S PROVE S = {u}
        BY <3>1
      <3> QED BY <3>2
    <2>3. Cardinality(S) <= 1
      <3>1. CASE S = {}
        BY <3>1, FS_EmptySet
      <3>2. ASSUME NEW u, S = {u} PROVE Cardinality(S) <= 1
        BY <3>2, FS_Singleton
      <3> QED BY <2>2, <3>1, <3>2
    <2> QED BY <2>1, <2>3, AccessCounts
  <1> QED BY <1>1, <1>2, <1>3, <1>4, <1>5 DEF Access!TypeOK

-----------------------------------------------------------------------------
(* No chain outgrows its capacity *)
ChainsFit == (\A s \in Audit!Scopes : head[s].count <= Capacity) /\ auditFaults <= MaxAuditFaults

LEMMA ChainsFitInit ==
  ASSUME Audit!AuditTrailAssumption, Audit!Init
  PROVE  ChainsFit
  BY DEF Audit!AuditTrailAssumption, Audit!Init, ChainsFit, Audit!NoHead

LEMMA ChainsFitKept ==
  ASSUME Audit!AuditTrailAssumption, AuditInv, ChainsFit, [Audit!Next]_Audit!vars
  PROVE  ChainsFit'
  <1> USE DEF ChainsFit
  <1>0. /\ head \in [Audit!Scopes -> [exists : BOOLEAN, count : Nat, last : Seq(Audit!AuditEntry)]]
        /\ auditFaults \in Nat /\ MaxAuditFaults \in Nat /\ Capacity \in Nat \ {0}
    BY DEF AuditInv, AuditTyped, Audit!AuditTrailAssumption
  <1>1. ASSUME UNCHANGED head, auditFaults' = auditFaults
               \/ (auditFaults < MaxAuditFaults /\ auditFaults' = auditFaults + 1)
        PROVE  ChainsFit'
    BY <1>0, <1>1
  <1>2. ASSUME NEW scope, NEW h, NEW entry, Audit!Stores(scope, h, entry), h.count \in Nat,
               h.count < Capacity, UNCHANGED auditFaults
        PROVE  ChainsFit'
    <2> DEFINE new == Audit!Appended(h, entry)
    <2>1. head' = [head EXCEPT ![scope] = new]
      BY <1>2 DEF Audit!Stores
    <2>2. new.count <= Capacity
      BY <1>0, <1>2 DEF Audit!Appended
    <2> HIDE DEF new
    <2> QED BY <1>0, <1>2, <2>1, <2>2
  <1>3. ASSUME NEW r \in AuditRequests, Audit!RequestStep(r) PROVE ChainsFit'
    <2>1. audited[r].scope \in Audit!Scopes
      BY DEF AuditInv, AuditTyped, RequestState
    <2>2. CASE Audit!AppendsToChain(r)
      BY <1>0, <1>2, <2>1, <2>2 DEF Audit!AppendsToChain
    <2>3. CASE Audit!CreatesChain(r)
      BY <1>0, <1>2, <2>1, <2>3 DEF Audit!CreatesChain, Audit!NoHead
    <2>4. CASE Audit!AppendFails(r) \/ Audit!RequestLost(r)
      BY <1>1, <2>4 DEF Audit!AppendFails, Audit!RequestLost
    <2>5. CASE (\E planned \in BOOLEAN : Audit!Arrives(r, planned)) \/ Audit!CapacityExceeded(r)
               \/ Audit!FindsNoHead(r) \/ Audit!CreateCollides(r) \/ Audit!Denied(r)
               \/ Audit!DeniedByRole(r) \/ Audit!Performs(r) \/ Audit!Refuses(r)
      BY <1>1, <2>5 DEF Audit!Arrives, Audit!CapacityExceeded, Audit!FindsNoHead,
         Audit!CreateCollides, Audit!Denied, Audit!DeniedByRole, Audit!Performs, Audit!Refuses
    <2> QED BY <1>3, <2>2, <2>3, <2>4, <2>5 DEF Audit!RequestStep
  <1>4. CASE Audit!Verifies \/ \E scope \in Audit!Scopes : Audit!BeginsVerify(scope)
                                                           \/ Audit!ReadsPage(scope)
    BY <1>1, <1>4 DEF Audit!Verifies, Audit!BeginsVerify, Audit!ReadsPage
  <1>5. CASE UNCHANGED Audit!vars
    BY <1>1, <1>5 DEF Audit!vars
  <1> QED BY <1>3, <1>4, <1>5 DEF Audit!Next

LEMMA AuditTypes ==
  ASSUME Audit!AuditTrailAssumption, AuditInv, ChainsFit
  PROVE  Audit!TypeOK
  <1>1. \A s \in Audit!Scopes : Audit!HeadMatches(head[s], events[s]) /\ head[s].count <= Capacity
    BY DEF AuditInv, ChainsRight, ChainRight, ChainsFit
  <1>2. \A r \in AuditRequests : audited[r].phase \in Audit!Phases
                                 /\ audited[r].outcome \in Audit!Outcomes /\ audited[r].tries \in 0 .. 2
    BY DEF AuditInv, AuditTyped, RequestState
  <1>3. performed \subseteq AuditRequests /\ auditFaults \in 0 .. MaxAuditFaults
    BY DEF AuditInv, AuditTyped, ChainsFit, Audit!AuditTrailAssumption
  <1> QED BY <1>1, <1>2, <1>3 DEF Audit!TypeOK, Audit!Entry, Audit!AuditEntry

-----------------------------------------------------------------------------
(* EventBroker: no limit is passed.  A subscription is a pair of a state and who subscribes
   to it, and what is dropped, expires or is created anew adds none *)
Pairs(ss) ==
  {p \in Streams \X Subscribers : p[1] \in DOMAIN ss /\ p[2] \in ss[p[1]].subscribers}

Fit(s) ==
  /\ s.next <= MaxSequence + 1 /\ Len(s.history) <= HistoryLimit
  /\ IsFiniteSet(s.subscribers) /\ Cardinality(s.subscribers) <= SubscriberLimit
  /\ s.timer <= Broker!NoTimer /\ s.accessed <= now

AllFit(ss) == \A k \in DOMAIN ss : Fit(ss[k])
Room(ss) == IsFiniteSet(Pairs(ss)) /\ Cardinality(Pairs(ss)) <= TotalLimit

BrokerFits == AllFit(states) /\ Room(states) /\ epoch <= MaxEpoch /\ now <= MaxClock

LEMMA BrokerNumbers ==
  /\ HistoryLimit \in Nat /\ SubscriberLimit \in Nat /\ TotalLimit \in Nat /\ SubscriberLimit >= 1
  /\ HistoryLimit >= 1 /\ MaxEpoch \in Nat /\ MaxClock \in Nat /\ MaxSequence \in Nat
  BY ServicesAssumption DEF Broker!EventBrokerAssumption

LEMMA RoomForOne ==
  ASSUME NEW S, IsFiniteSet(S), NEW x, NEW n \in Nat, Cardinality(S) < n
  PROVE  IsFiniteSet(S \cup {x}) /\ Cardinality(S \cup {x}) <= n
  <1>1. Cardinality(S) \in Nat
    BY FS_CardinalityType
  <1>2. IsFiniteSet(S \cup {x}) /\ (Cardinality(S \cup {x}) = Cardinality(S)
                                     \/ Cardinality(S \cup {x}) = Cardinality(S) + 1)
    BY FS_AddElement
  <1> QED BY <1>1, <1>2

LEMMA FewerPairs ==
  ASSUME NEW ss, NEW tt, Room(ss), Pairs(tt) \subseteq Pairs(ss)
  PROVE  Room(tt)
  <1>1. /\ IsFiniteSet(Pairs(tt)) /\ Cardinality(Pairs(tt)) <= Cardinality(Pairs(ss))
        /\ Cardinality(Pairs(tt)) \in Nat /\ Cardinality(Pairs(ss)) \in Nat
    BY FS_Subset, FS_CardinalityType DEF Room
  <1> QED BY <1>1, BrokerNumbers DEF Room

LEMMA KeptRoom ==
  ASSUME NEW ss, NEW tt, Room(ss), Keeps(ss, tt)
  PROVE  Room(tt)
  <1>1. Pairs(tt) \subseteq Pairs(ss)
    BY DEF Pairs, Keeps, Same, Fresh
  <1> QED BY <1>1, FewerPairs

LEMMA Fitted ==
  ASSUME NEW ss, StatesSound(ss), AllFit(ss), NEW k \in DOMAIN ss, NEW s, Fit(s)
  PROVE  AllFit([ss EXCEPT ![k] = s])
  BY DEF AllFit, StatesSound

LEMMA StillFits ==
  ASSUME NEW s \in State, Fit(s), now \in Nat, now <= MaxClock
  PROVE  Fit(Broker!Scheduled(s)) /\ Fit(Broker!Touched(s))
  <1>1. \A t \in State : Fit(t) => Fit(Broker!Scheduled(t))
    <2> TAKE t \in State
    <2> DEFINE n == IF Broker!Idle(t) /\ ~closed THEN t.accessed ELSE Broker!NoTimer
    <2>1. Fit(t) => n <= Broker!NoTimer
      BY BrokerNumbers DEF State, Broker!NoTimer, Fit
    <2> HIDE DEF n
    <2>2. Broker!Scheduled(t) = [t EXCEPT !.timer = n]
      BY DEF Broker!Scheduled, n
    <2> QED BY <2>1, <2>2 DEF Fit, State
  <1> DEFINE t == [s EXCEPT !.accessed = now]
  <1>2. t \in State /\ Fit(t)
    BY SMTT(40) DEF Fit, State
  <1> HIDE DEF t
  <1>3. Broker!Touched(s) = Broker!Scheduled(t)
    BY DEF Broker!Touched, t
  <1> QED BY <1>1, <1>2, <1>3

LEMMA WithStateFits ==
  ASSUME BrokerInv, BrokerFits, NEW k \in Streams, NEW ss \in Broker!WithState(k)
  PROVE  AllFit(ss) /\ Room(ss)
  <1> DEFINE live == Broker!Pruned(states)
  <1>1. Room(ss)
    BY WithStateKeeps, KeptRoom DEF BrokerFits
  <1>2. /\ StatesSound(live) /\ AllFit(live) /\ now \in Nat /\ epoch \in Nat
    BY PrunedKeeps DEF BrokerInv, BrokerFits, AllFit
  <1>3. CASE ~Broker!Created(k)
    <2> DEFINE s == [live[k] EXCEPT !.accessed = now]
    <2>1. ss = [live EXCEPT ![k] = s] /\ k \in DOMAIN live
      BY <1>3 DEF Broker!WithState, Broker!Created
    <2> HIDE DEF live
    <2>2. Fit(s)
      BY <1>2, <2>1 DEF StatesSound, Sound, State, AllFit, Fit
    <2> HIDE DEF s
    <2>3. AllFit(ss)
      BY <1>2, <2>1, <2>2, Fitted
    <2> QED BY <1>1, <2>3
  <1>4. CASE Broker!Created(k)
    <2>1. PICK rest \in Broker!Trimmed(live, StateLimit - 1) :
            ss = [l \in DOMAIN rest \cup {k} |-> IF l = k THEN Broker!NewState(epoch + 1) ELSE rest[l]]
      BY <1>4 DEF Broker!WithState
    <2> HIDE DEF live
    <2>2. AllFit(rest)
      BY <1>2, TrimmedKeeps DEF AllFit
    <2>3. Fit(Broker!NewState(epoch + 1))
      <3>1. IsFiniteSet({}) /\ Cardinality({}) = 0
        BY FS_EmptySet
      <3> QED BY <1>2, <3>1, BrokerNumbers DEF Fit, Broker!NewState, Broker!NoTimer
    <2>4. AllFit(ss)
      BY <2>1, <2>2, <2>3 DEF AllFit
    <2> QED BY <1>1, <2>4
  <1> QED BY <1>3, <1>4

(* A state that is created counts one epoch more *)
LEMMA EpochFits ==
  ASSUME BrokerInv, BrokerFits, NEW k, Broker!Finds(k), Broker!Kept(k)
  PROVE  epoch' <= MaxEpoch
  BY BrokerNumbers DEF Broker!Finds, Broker!Kept, BrokerFits, BrokerInv

LEMMA Settles ==
  ASSUME BrokerFits, AllFit(states'), Room(states'), now' = now, epoch' <= MaxEpoch
  PROVE  BrokerFits'
  BY DEF BrokerFits, AllFit, Fit, Room, Pairs

LEMMA RefusedFits ==
  ASSUME BrokerInv, BrokerFits, NEW k \in Streams, NEW ss \in Broker!WithState(k),
         Broker!Refused(k, ss), now' = now
  PROVE  BrokerFits'
  <1>1. AllFit(ss) /\ StatesSound(ss)
    BY WithStateFits, WithStateKeeps
  <1>2. Keeps(states, states') /\ epoch' = epoch
    BY RefusedKeeps
  <1>3. AllFit(states')
    <2>1. AllFit(Broker!Without(ss, {k}))
      BY <1>1, WithoutIs DEF AllFit
    <2> QED BY <1>1, <2>1 DEF Broker!Refused
  <1> QED BY <1>2, <1>3, KeptRoom, Settles DEF BrokerFits

LEMMA ValidateFits ==
  ASSUME BrokerInv, BrokerFits, NEW k \in Streams, NEW after \in Nat,
         Broker!ValidateResume(k, after)
  PROVE  BrokerFits'
  <1>1. PICK ss \in Broker!WithState(k) :
          IF Broker!HistoryUnavailable(ss[k], after) THEN Broker!Refused(k, ss)
          ELSE states' = [ss EXCEPT ![k] = Broker!Touched(@)] /\ Broker!Kept(k)
    BY DEF Broker!ValidateResume
  <1>2. now' = now /\ now \in Nat /\ now <= MaxClock /\ Broker!Finds(k)
    BY DEF Broker!ValidateResume, BrokerInv, BrokerFits
  <1>3. CASE Broker!HistoryUnavailable(ss[k], after)
    BY <1>1, <1>2, <1>3, RefusedFits
  <1>4. CASE ~Broker!HistoryUnavailable(ss[k], after)
    <2>1. StatesSound(ss) /\ k \in DOMAIN ss /\ AllFit(ss) /\ Room(ss)
      BY WithStateKeeps, WithStateFits
    <2> DEFINE s == Broker!Touched(ss[k])
    <2>2. Same(ss[k], s) /\ Fit(s)
      BY <1>2, <2>1, ScheduledIs, StillFits DEF StatesSound, Sound, AllFit
    <2>3. states' = [ss EXCEPT ![k] = s] /\ epoch' <= MaxEpoch
      BY <1>1, <1>2, <1>4, EpochFits
    <2> HIDE DEF s
    <2>4. AllFit(states') /\ Room(states')
      BY <2>1, <2>2, <2>3, Fitted, Replaces, KeptRoom
    <2> QED BY <1>2, <2>3, <2>4, Settles
  <1> QED BY <1>3, <1>4

LEMMA ExpireFits ==
  ASSUME BrokerInv, BrokerFits, NEW k \in Streams, Broker!ExpireState(k)
  PROVE  BrokerFits'
  <1> DEFINE fired == [states EXCEPT ![k].timer = Broker!NoTimer]
             left == Broker!Pruned(fired)
  <1>1. k \in DOMAIN states /\ StatesSound(states) /\ UNCHANGED <<epoch, now>>
        /\ now \in Nat /\ now <= MaxClock /\ AllFit(states) /\ Room(states) /\ epoch <= MaxEpoch
    BY DEF Broker!ExpireState, BrokerInv, BrokerFits
  <1>2. states' = (IF states[k].accessed # states[k].timer THEN fired
                   ELSE IF k \in DOMAIN left THEN [left EXCEPT ![k] = Broker!Scheduled(@)] ELSE left)
    BY DEF Broker!ExpireState
  <1>3. AllFit(fired) /\ StatesSound(fired) /\ Room(fired)
    <2> DEFINE s == [states[k] EXCEPT !.timer = Broker!NoTimer]
    <2>1. fired = [states EXCEPT ![k] = s]
      OBVIOUS
    <2>2. Same(states[k], s) /\ Fit(s)
      <3>1. Broker!NoTimer \in Nat /\ states[k] \in State /\ Fit(states[k])
        BY <1>1, Limits DEF StatesSound, Sound, Broker!NoTimer, AllFit
      <3> QED BY SMTT(40), <3>1 DEF Same, State, Fit
    <2> HIDE DEF s, fired
    <2> QED BY <1>1, <2>1, <2>2, Replaces, Fitted, KeptRoom
  <1> HIDE DEF fired
  <1>4. AllFit(left) /\ StatesSound(left) /\ Room(left)
    BY <1>3, PrunedKeeps, KeptRoom DEF AllFit
  <1> HIDE DEF left
  <1>5. ASSUME k \in DOMAIN left
        PROVE  AllFit([left EXCEPT ![k] = Broker!Scheduled(left[k])])
               /\ Room([left EXCEPT ![k] = Broker!Scheduled(left[k])])
    <2>1. Same(left[k], Broker!Scheduled(left[k])) /\ Fit(Broker!Scheduled(left[k]))
      BY <1>1, <1>4, <1>5, ScheduledIs, StillFits DEF StatesSound, Sound, AllFit
    <2> QED BY <1>4, <1>5, <2>1, Replaces, Fitted, KeptRoom
  <1>6. AllFit(states') /\ Room(states')
    BY <1>2, <1>3, <1>4, <1>5
  <1> QED BY <1>1, <1>6, Settles

LEMMA SubscribeFits ==
  ASSUME BrokerInv, BrokerFits, NEW c \in Subscribers, NEW k \in Streams, NEW after \in Nat,
         Broker!Subscribe(c, k, after)
  PROVE  BrokerFits'
  <1> DEFINE Refuses(ss) ==
        \/ Broker!HistoryUnavailable(ss[k], after)
        \/ Broker!Cardinality(ss[k].subscribers) >= SubscriberLimit
        \/ Broker!SubscriberCount(ss) >= TotalLimit
  <1>1. PICK ss \in Broker!WithState(k) :
          IF Refuses(ss) THEN Broker!Refused(k, ss)
          ELSE /\ states' = [ss EXCEPT ![k].subscribers = @ \cup {c}, ![k].accessed = now,
                                       ![k].timer = Broker!NoTimer]
               /\ Broker!Kept(k)
    BY DEF Broker!Subscribe
  <1>2. now' = now /\ now \in Nat /\ now <= MaxClock /\ Broker!Finds(k)
    BY DEF Broker!Subscribe, BrokerInv, BrokerFits
  <1>3. CASE Refuses(ss)
    BY <1>1, <1>2, <1>3, RefusedFits
  <1>4. CASE ~Refuses(ss)
    <2>1. StatesSound(ss) /\ k \in DOMAIN ss /\ AllFit(ss) /\ Room(ss) /\ ss[k] \in State
      BY WithStateKeeps, WithStateFits DEF StatesSound, Sound
    <2> DEFINE more == ss[k].subscribers \cup {c}
               s == [ss[k] EXCEPT !.subscribers = more, !.accessed = now, !.timer = Broker!NoTimer]
    <2>2. states' = [ss EXCEPT ![k] = s] /\ epoch' <= MaxEpoch
      BY <1>1, <1>2, <1>4, EpochFits
    <2>3. IsFiniteSet(more) /\ Cardinality(more) <= SubscriberLimit
      <3>1. IsFiniteSet(ss[k].subscribers) /\ Cardinality(ss[k].subscribers) < SubscriberLimit
            /\ Cardinality(ss[k].subscribers) \in Nat
        BY <1>4, <2>1, BrokerCounts, FS_CardinalityType, BrokerNumbers DEF AllFit, Fit
      <3> QED BY <3>1, RoomForOne, BrokerNumbers
    <2> HIDE DEF more
    <2>4. Fit(s) /\ s.subscribers = more
      BY <1>2, <2>1, <2>3, BrokerNumbers DEF Fit, AllFit, State, Broker!NoTimer
    <2> HIDE DEF s
    <2>5. AllFit(states')
      BY <2>1, <2>2, <2>4, Fitted
    <2>6. Room(states')
      <3>1. Pairs(states') \subseteq Pairs(ss) \cup {<<k, c>>}
        BY <2>1, <2>2, <2>4 DEF Pairs, more, StatesSound
      <3>2. Cardinality(Pairs(ss)) < TotalLimit /\ IsFiniteSet(Pairs(ss))
            /\ Cardinality(Pairs(ss)) \in Nat
        <4>1. Broker!SubscriberCount(ss) = Cardinality(Pairs(ss))
          BY BrokerCounts DEF Broker!SubscriberCount, Pairs
        <4> QED BY <1>4, <2>1, <4>1, FS_CardinalityType, BrokerNumbers DEF Room
      <3>3. /\ IsFiniteSet(Pairs(ss) \cup {<<k, c>>})
            /\ Cardinality(Pairs(ss) \cup {<<k, c>>}) <= TotalLimit
        BY <3>2, RoomForOne, BrokerNumbers
      <3>4. /\ IsFiniteSet(Pairs(states'))
            /\ Cardinality(Pairs(states')) <= Cardinality(Pairs(ss) \cup {<<k, c>>})
            /\ Cardinality(Pairs(states')) \in Nat
            /\ Cardinality(Pairs(ss) \cup {<<k, c>>}) \in Nat
        BY <3>1, <3>3, FS_Subset, FS_CardinalityType
      <3> QED BY <3>3, <3>4, BrokerNumbers DEF Room
    <2> QED BY <1>2, <2>2, <2>5, <2>6, Settles
  <1> QED BY <1>3, <1>4

(* A history that is full forgets its first event *)
LEMMA AfterFits ==
  ASSUME NEW s, Sound(s), Fit(s), NEW kind, now \in Nat, s.next <= MaxSequence
  PROVE  Fit(Broker!After(s, kind))
  <1> DEFINE h == Append(s.history, s.next)
             new == Broker!Retained(h)
             n == s.next + 1
             b == CASE kind = "started" -> TRUE [] kind = "ended" -> FALSE [] OTHER -> s.active
             t == [s EXCEPT !.next = n, !.history = new, !.accessed = now, !.active = b]
  <1>1. s \in State /\ s.history \in Seq(Nat) /\ s.next \in Nat /\ Len(s.history) <= HistoryLimit
    BY DEF Sound, State, Fit
  <1>2. h \in Seq(Nat) /\ Len(h) = Len(s.history) + 1 /\ Len(s.history) \in Nat
    BY <1>1
  <1> HIDE DEF h
  <1>3. Len(new) <= HistoryLimit
    <2>1. CASE Len(h) > HistoryLimit
      <3>1. Len(Tail(h)) = Len(h) - 1
        BY <1>2
      <3> QED BY <1>1, <1>2, <2>1, <3>1, BrokerNumbers DEF Broker!Retained
    <2>2. CASE ~(Len(h) > HistoryLimit)
      BY <1>2, <2>2, BrokerNumbers DEF Broker!Retained
    <2> QED BY <2>1, <2>2
  <1>4. n <= MaxSequence + 1
    BY <1>1, BrokerNumbers
  <1>5. t = Broker!After(s, kind)
    BY DEF Broker!After, h
  <1> HIDE DEF new, n, b
  <1>6. Fit(t)
    BY <1>1, <1>3, <1>4 DEF Fit, State
  <1> QED BY <1>5, <1>6

LEMMA PublishFits ==
  ASSUME BrokerInv, BrokerFits, NEW k \in Streams, NEW kind, Broker!Publish(k, kind)
  PROVE  BrokerFits'
  <1>1. PICK ss \in Broker!WithState(k) :
          LET s == Broker!After(ss[k], kind)
              overflowed == {c \in s.subscribers : Broker!Full(c)}
              rest == [ss EXCEPT ![k] = [s EXCEPT !.subscribers = @ \ overflowed]]
          IN  /\ s.next <= MaxSequence + 1
              /\ \E left \in Broker!Trimmed(rest, StateLimit) :
                   states' = IF k \in DOMAIN left THEN [left EXCEPT ![k] = Broker!Scheduled(@)] ELSE left
    BY DEF Broker!Publish
  <1> DEFINE s == Broker!After(ss[k], kind)
             overflowed == {c \in s.subscribers : Broker!Full(c)}
             fewer == s.subscribers \ overflowed
             q == [s EXCEPT !.subscribers = fewer]
             rest == [ss EXCEPT ![k] = q]
  <1>2. /\ StatesSound(ss) /\ k \in DOMAIN ss /\ Sound(ss[k]) /\ AllFit(ss) /\ Room(ss)
        /\ now \in Nat /\ now <= MaxClock /\ Fit(ss[k])
    BY WithStateKeeps, WithStateFits DEF BrokerInv, BrokerFits, StatesSound, AllFit
  <1>3. now' = now /\ epoch' <= MaxEpoch
    BY EpochFits DEF Broker!Publish
  <1>4. Sound(s) /\ s.next = ss[k].next + 1 /\ s.subscribers = ss[k].subscribers /\ s \in State
        /\ s.next <= MaxSequence + 1 /\ ss[k].next \in Nat
    BY <1>1, <1>2, AfterIs DEF Sound, State
  <1>5. Fit(s)
    <2>1. ss[k].next <= MaxSequence
      BY <1>4, BrokerNumbers
    <2> QED BY <1>2, <2>1, AfterFits
  <1>6. PICK left \in Broker!Trimmed(rest, StateLimit) :
           states' = IF k \in DOMAIN left THEN [left EXCEPT ![k] = Broker!Scheduled(left[k])] ELSE left
    BY <1>1
  <1>7. IsFiniteSet(fewer) /\ Cardinality(fewer) <= SubscriberLimit
    <2>1. /\ IsFiniteSet(fewer) /\ Cardinality(fewer) <= Cardinality(s.subscribers)
          /\ Cardinality(s.subscribers) <= SubscriberLimit
      BY <1>5, FS_Subset DEF Fit
    <2>2. Cardinality(fewer) \in Nat /\ Cardinality(s.subscribers) \in Nat
      BY <1>5, <2>1, FS_CardinalityType DEF Fit
    <2> QED BY <2>1, <2>2, BrokerNumbers
  <1>8. fewer \subseteq ss[k].subscribers
    BY <1>4
  <1> HIDE DEF s, fewer
  <1>9. Fit(q) /\ Sound(q) /\ q.subscribers = fewer
    <2>1. /\ q \in State /\ q.next = s.next /\ q.history = s.history /\ q.subscribers = fewer
          /\ q.timer = s.timer /\ q.accessed = s.accessed
      BY <1>4, <1>8 DEF State, fewer
    <2> HIDE DEF q
    <2> QED BY <1>4, <1>5, <1>7, <2>1 DEF Sound, Fit
  <1> HIDE DEF q
  <1>10. /\ DOMAIN rest = DOMAIN ss /\ rest = [l \in DOMAIN rest |-> rest[l]] /\ rest[k] = q
         /\ \A l \in DOMAIN ss \ {k} : rest[l] = ss[l]
    BY <1>2 DEF StatesSound
  <1> HIDE DEF rest
  <1>11. StatesSound(rest) /\ AllFit(rest)
    BY <1>2, <1>9, <1>10 DEF StatesSound, AllFit
  <1>12. Room(rest)
    <2>1. Pairs(rest) \subseteq Pairs(ss)
      BY <1>2, <1>8, <1>9, <1>10 DEF Pairs
    <2> QED BY <1>2, <2>1, FewerPairs
  <1>13. AllFit(left) /\ StatesSound(left) /\ Room(left)
    BY <1>11, <1>12, TrimmedKeeps, KeptRoom DEF AllFit
  <1>14. ASSUME k \in DOMAIN left
         PROVE  AllFit([left EXCEPT ![k] = Broker!Scheduled(left[k])])
                /\ Room([left EXCEPT ![k] = Broker!Scheduled(left[k])])
    <2>1. Same(left[k], Broker!Scheduled(left[k])) /\ Fit(Broker!Scheduled(left[k]))
      BY <1>2, <1>13, <1>14, ScheduledIs, StillFits DEF StatesSound, Sound, AllFit
    <2> QED BY <1>13, <1>14, <2>1, Replaces, Fitted, KeptRoom
  <1>15. AllFit(states') /\ Room(states')
    BY <1>6, <1>13, <1>14
  <1> QED BY <1>3, <1>15, Settles

LEMMA LeavesFits ==
  ASSUME BrokerInv, BrokerFits, NEW c \in Subscribers, Broker!Leaves(c)
  PROVE  BrokerFits'
  <1> DEFINE k == following[c].key
             fewer == states[k].subscribers \ {c}
             s == [states[k] EXCEPT !.subscribers = fewer]
  <1>1. /\ states' = IF k \notin DOMAIN states THEN states
                     ELSE [states EXCEPT ![k] = Broker!Touched(s)]
        /\ UNCHANGED <<epoch, now>> /\ StatesSound(states) /\ now \in Nat /\ now <= MaxClock
        /\ AllFit(states) /\ Room(states) /\ epoch <= MaxEpoch
    BY DEF Broker!Leaves, BrokerInv, BrokerFits
  <1> HIDE DEF k
  <1>2. ASSUME k \in DOMAIN states PROVE AllFit(states') /\ Room(states')
    <2>1. states[k] \in State /\ Fit(states[k])
      BY <1>1, <1>2 DEF StatesSound, Sound, AllFit
    <2>2. IsFiniteSet(fewer) /\ Cardinality(fewer) <= SubscriberLimit
      <3>1. /\ IsFiniteSet(fewer) /\ Cardinality(fewer) <= Cardinality(states[k].subscribers)
            /\ Cardinality(states[k].subscribers) <= SubscriberLimit
        BY <2>1, FS_Subset DEF Fit
      <3>2. Cardinality(fewer) \in Nat /\ Cardinality(states[k].subscribers) \in Nat
        BY <2>1, <3>1, FS_CardinalityType DEF Fit
      <3> QED BY <3>1, <3>2, BrokerNumbers
    <2>3. fewer \subseteq states[k].subscribers /\ fewer \subseteq Subscribers
      BY <2>1 DEF State
    <2> HIDE DEF fewer
    <2>4. s \in State /\ Fit(s) /\ s.subscribers = fewer
      BY <2>1, <2>2, <2>3 DEF State, Fit
    <2> HIDE DEF s
    <2> DEFINE t == Broker!Touched(s)
    <2>5. Fit(t) /\ t.subscribers = fewer
      BY <1>1, <2>4, StillFits, ScheduledIs DEF Same
    <2>6. states' = [states EXCEPT ![k] = t]
      BY <1>1, <1>2
    <2> HIDE DEF t
    <2>7. AllFit(states')
      <3>1. AllFit([states EXCEPT ![k] = t])
        BY <1>1, <1>2, <2>5, Fitted
      <3> QED BY <2>6, <3>1
    <2>8. Pairs(states') \subseteq Pairs(states)
      BY <1>2, <2>3, <2>5, <2>6 DEF Pairs
    <2> QED BY <1>1, <2>7, <2>8, FewerPairs
  <1>3. AllFit(states') /\ Room(states')
    BY <1>1, <1>2
  <1> QED BY <1>1, <1>3, Settles

LEMMA CloseFits == ASSUME BrokerInv, BrokerFits, Broker!Close PROVE BrokerFits'
  <1>1. states' = Broker!Without(states, Streams) /\ UNCHANGED <<epoch, now>>
    BY DEF Broker!Close
  <1>2. DOMAIN states' = {}
    BY <1>1, WithoutIs DEF BrokerInv, StatesSound
  <1>3. Pairs(states') \subseteq Pairs(states) /\ AllFit(states')
    BY <1>2 DEF Pairs, AllFit
  <1> QED BY <1>1, <1>3, FewerPairs, Settles DEF BrokerFits

LEMMA BrokerFitsInit == Broker!Init => BrokerFits
  <1> SUFFICES ASSUME Broker!Init PROVE BrokerFits
    OBVIOUS
  <1>1. DOMAIN states = {} /\ epoch = 0 /\ now = 0
    BY DEF Broker!Init
  <1>2. Pairs(states) = {}
    BY <1>1 DEF Pairs
  <1>3. Room(states)
    BY <1>2, FS_EmptySet, BrokerNumbers DEF Room
  <1> QED BY <1>1, <1>3, BrokerNumbers DEF BrokerFits, AllFit

LEMMA BrokerFitsKept ==
  ASSUME BrokerInv, BrokerFits, [Broker!Next]_Broker!vars
  PROVE  BrokerFits'
  <1>1. ASSUME UNCHANGED <<states, epoch, now>> PROVE BrokerFits'
    BY <1>1 DEF BrokerFits, AllFit, Fit, Room, Pairs
  <1>2. CASE Broker!Tick
    <2>1. /\ UNCHANGED <<states, epoch>> /\ now' = now + 1 /\ now < MaxClock /\ now \in Nat
          /\ StatesSound(states) /\ BrokerFits
      BY <1>2 DEF Broker!Tick, BrokerInv
    <2>2. AllFit(states)' /\ Room(states)'
      BY <2>1 DEF BrokerFits, AllFit, Fit, Room, Pairs, StatesSound, Sound, State
    <2> QED BY <2>1, <2>2, BrokerNumbers DEF BrokerFits
  <1>3. CASE Broker!LifecycleSnapshot
    <2>1. AllFit(states') /\ Room(states') /\ UNCHANGED <<epoch, now>>
      BY <1>3, PrunedKeeps, KeptRoom DEF Broker!LifecycleSnapshot, AllFit, BrokerInv, BrokerFits
    <2> QED BY <2>1, Settles DEF BrokerFits
  <1>4. ASSUME NEW c \in Subscribers, Broker!Replays(c) \/ Broker!Yields(c) \/ Broker!Disconnects(c)
        PROVE  BrokerFits'
    BY <1>1, <1>4 DEF Broker!Replays, Broker!Yields, Broker!Disconnects
  <1>5. CASE UNCHANGED Broker!vars
    BY <1>1, <1>5 DEF Broker!vars
  <1>6. \A after \in 0 .. MaxSequence : after \in Nat
    BY Limits
  <1>7. CASE \E k \in Streams, after \in 0 .. MaxSequence : Broker!ValidateResume(k, after)
    BY <1>6, <1>7, ValidateFits
  <1>8. CASE \E k \in Streams, kind \in Broker!Kinds : Broker!Publish(k, kind)
    BY <1>8, PublishFits
  <1>9. CASE \E c \in Subscribers, k \in Streams, after \in 0 .. MaxSequence :
               Broker!Subscribe(c, k, after)
    BY <1>6, <1>9, SubscribeFits
  <1>10. CASE \E c \in Subscribers : Broker!Replays(c) \/ Broker!Yields(c) \/ Broker!Disconnects(c)
                                     \/ Broker!Leaves(c)
    BY <1>4, <1>10, LeavesFits
  <1>11. CASE \E k \in Streams : Broker!ExpireState(k)
    BY <1>11, ExpireFits
  <1>12. CASE Broker!Close
    BY <1>12, CloseFits
  <1> QED BY <1>2, <1>3, <1>5, <1>7, <1>8, <1>9, <1>10, <1>11, <1>12 DEF Broker!Next

LEMMA BrokerTypes ==
  ASSUME BrokerInv, BrokerFits
  PROVE  Broker!TypeOK
  <1>1. ASSUME NEW k \in DOMAIN states
        PROVE  /\ states[k].next \in 1 .. MaxSequence + 1 /\ Len(states[k].history) <= HistoryLimit
               /\ Broker!Cardinality(states[k].subscribers) <= SubscriberLimit
               /\ states[k].timer \in 0 .. Broker!NoTimer
    <2>1. Sound(states[k]) /\ Fit(states[k])
      BY DEF BrokerInv, StatesSound, BrokerFits, AllFit
    <2> QED BY <2>1, BrokerCounts, BrokerNumbers DEF Sound, State, Fit, Broker!NoTimer
  <1>2. Broker!SubscriberCount(states) <= TotalLimit
    BY BrokerCounts DEF Broker!SubscriberCount, Pairs, BrokerFits, Room
  <1>3. \A c \in Subscribers : following[c].phase \in {"none", "open", "leaving"}
    BY DEF BrokerInv, Stream, Broker!NoStream
  <1>4. /\ epoch \in 0 .. MaxEpoch /\ now \in 0 .. MaxClock /\ closed \in BOOLEAN
        /\ DOMAIN states \subseteq Streams
    BY BrokerNumbers DEF BrokerInv, BrokerFits, StatesSound
  <1> QED BY <1>1, <1>2, <1>3, <1>4 DEF Broker!TypeOK

-----------------------------------------------------------------------------
(* Every variable of every component has its type: the rows agree with the constraints of
   their tables, and no counter, queue, cache or set of locks passes its limit
   (adapters/persistence/models.py:1327, conversations/events.py:134). *)
THEOREM TypesAlwaysOK == Spec => []TypesOK
  <1> DEFINE ServerInv == /\ MInv /\ AccessInv /\ AccessRows /\ AuditInv /\ ChainsFit /\ KInv
                          /\ IdInv /\ BrokerInv /\ BrokerFits /\ LifeInv
             ScreenInv == DesignerInv /\ ChatInv /\ QueueInv /\ ListsInv
             ToolInv == Tool!CatalogInv /\ Tool!CallInv /\ Tool!CatalogRows /\ Tool!CallRows
             Inv == Wr!TypedInv /\ ToolInv /\ ServerInv /\ ScreenInv
  <1>1. Init => Inv
    <2> SUFFICES ASSUME Init PROVE Inv
      OBVIOUS
    <2>1. Wr!TypedInv
      BY PlatformAssumption, Wr!TypedInit DEF Init
    <2>2. ToolInv
      BY PlatformAssumption, Tool!CatalogInitial, Tool!CallsInitial, Tool!CatalogRowsInit,
         Tool!CallRowsInit DEF Init, Tool!Init, Tool!ToolCallsAssumption
    <2>3. MInv /\ AccessInv /\ AccessRows /\ AuditInv /\ ChainsFit
      BY ServicesAssumption, MInit, AccessInit, AccessRowsInit, AuditInit, ChainsFitInit DEF Init
    <2>4. KInv /\ IdInv /\ BrokerInv /\ BrokerFits /\ LifeInv
      BY ServicesAssumption, KInit, IdInit, BrokerInit, BrokerFitsInit, LifeInit DEF Init
    <2>5. ScreenInv
      BY DesignerInit, ChatInit, QueueInit, ListsInit DEF Init
    <2> QED BY <2>1, <2>2, <2>3, <2>4, <2>5
  <1>2. Inv /\ [Next]_vars => Inv'
    <2> SUFFICES ASSUME Inv, [Next]_vars PROVE Inv'
      OBVIOUS
    <2>1. Wr!TypedInv'
      BY PlatformAssumption, RunsStep, Wr!TypedStep
    <2>2. Tool!CatalogInv' /\ Tool!CatalogRows'
      BY PlatformAssumption, ToolsStep, Tool!CatalogStep, Tool!CatalogRowsStep
         DEF Tool!ToolCallsAssumption
    <2>3. Tool!CallInv' /\ Tool!CallRows'
      BY PlatformAssumption, ToolsStep, Tool!CallsStep, Tool!CallRowsStep
         DEF Tool!ToolCallsAssumption
    <2>4. MInv'
      BY ServicesAssumption, ResourcesStep, StepKeeps
    <2>5. AccessInv' /\ AccessRows'
      BY ServicesAssumption, AccessStep, AccessKept, AccessRowsKept
    <2>6. AuditInv' /\ ChainsFit'
      BY ServicesAssumption, AuditStep, AuditKept, ChainsFitKept
    <2>7. KInv'
      BY ServicesAssumption, KnowledgeStep, KStep
    <2>8. IdInv'
      BY IdentitiesStep, IdKept
    <2>9. BrokerInv' /\ BrokerFits'
      BY BrokerStep, BrokerKept, BrokerFitsKept
    <2>10. LifeInv'
      BY ServicesAssumption, LifecycleStep, LifeStep
    <2>11. DesignerInv'
      BY DesignerStep, DesignerKept
    <2>12. ChatInv'
      BY ChatStep, ChatKept
    <2>13. QueueInv'
      BY UploadsStep, QueueKept
    <2>14. ListsInv'
      BY ListsStep, ListsKept
    <2> QED BY <2>1, <2>2, <2>3, <2>4, <2>5, <2>6, <2>7, <2>8, <2>9, <2>10, <2>11, <2>12,
               <2>13, <2>14
  <1>3. Inv => TypesOK
    <2> SUFFICES ASSUME Inv PROVE TypesOK
      OBVIOUS
    <2>1. Wr!TypeOK
      BY PlatformAssumption, Wr!TypeFollows
    <2>2. Tool!TypeOK
      BY PlatformAssumption, Tool!ToolTypes
    <2>3. Res!TypeOK
      BY DEF MInv, MTyped, Res!TypeOK, Handler
    <2>4. Access!TypeOK /\ Audit!TypeOK
      BY ServicesAssumption, AccessTypes, AuditTypes
    <2>5. Kb!TypeOK
      BY KnowledgeTypes
    <2>6. Id!TypeOK /\ Broker!TypeOK /\ Life!TypeOK
      BY IdFollows, BrokerTypes DEF LifeInv
    <2>7. Design!TypeOK /\ Chat!TypeOK /\ Queue!TypeOK /\ Lists!TypeOK
      BY DesignerFollows, ChatFollows, QueueFollows, ListsFollows
    <2> QED BY <2>1, <2>2, <2>3, <2>4, <2>5, <2>6, <2>7 DEF TypesOK
  <1> QED BY <1>1, <1>2, <1>3, PTL DEF Spec

=============================================================================
