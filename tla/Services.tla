------------------------------- MODULE Services -------------------------------
(***************************************************************************)
(* The components of the platform whose theorems are stated of them as its  *)
(* parts: what changes resources, signs users in, keeps the audit trail,    *)
(* owns knowledge bases, opens RAGFlow identities, hands events to streams, *)
(* and starts and ends a process.  They share no variable.                  *)
(***************************************************************************)
EXTENDS Naturals, FiniteSets, Sequences, SequencesExt

CONSTANTS
  Handlers, Processes, Employees, Knowledge, Workflows, Models, Conversations, Runs, Rank,
  Requests, Present0, Refs0, PoolSize, MaxCrashes,                        \* ResourceMutations
  Users, Registered, Codes, Logins, LoginAttempts, Window, SessionIdle, Absolute,
  MaxTime,                                                                \* AuthSessions
  AuditRequests, AuditTenants, PlatformScope, MemberOf, Capacity, PageLimit,
  MaxAuditFaults,                                                         \* AuditTrail
  Bases, Existing, Owned, Documents, KbRequests,                          \* KnowledgeBases
  Tenants, Default, Legacy, IdKeys, MaxIdFaults, NoTenant,                \* RagFlowIdentities
  Streams, Subscribers, HistoryLimit, QueueLimit, SubscriberLimit, TotalLimit, StateLimit, Ttl,
  MaxSequence, MaxEpoch, MaxClock,                                        \* EventBroker
  Adapters, FirstAdapter                                                  \* Lifecycle

VARIABLES
  present, refs, enabled, handler, crashes,              \* ResourceMutations
  account, codes, session, attempt, access, clock,       \* AuthSessions
  head, events, audited, performed, verifier, reader, auditFaults, \* AuditTrail
  dataset, document, owner, wanted,                      \* KnowledgeBases
  identity, held, ensuring, lock, active, drops, failures, \* RagFlowIdentities
  states, following, epoch, closed, now,                 \* EventBroker
  server, open, models, cleanups, shut, errors           \* Lifecycle

-----------------------------------------------------------------------------
Res == INSTANCE ResourceMutations

Access == INSTANCE AuthSessions WITH
  Requests <- Logins, MaxAttempts <- LoginAttempts, Idle <- SessionIdle, request <- access

Audit == INSTANCE AuditTrail WITH
  Requests <- AuditRequests, Tenants <- AuditTenants, Platform <- PlatformScope, Limit <- PageLimit,
  MaxFaults <- MaxAuditFaults, request <- audited, faults <- auditFaults

Kb == INSTANCE KnowledgeBases WITH Requests <- KbRequests, request <- wanted

Id == INSTANCE RagFlowIdentities WITH
  Keys <- IdKeys, MaxFaults <- MaxIdFaults, Nobody <- NoTenant, account <- held, faults <- failures

Broker == INSTANCE EventBroker WITH
  Keys <- Streams, Clients <- Subscribers, stream <- following, clock <- now

Life == INSTANCE Lifecycle WITH Initial <- FirstAdapter, closed <- shut

ASSUME ServicesAssumption ==
  /\ Res!ResourceMutationsAssumption
  /\ Access!AuthSessionsAssumption
  /\ Audit!AuditTrailAssumption
  /\ Kb!KnowledgeBasesAssumption
  /\ Id!RagFlowIdentitiesAssumption
  /\ Broker!EventBrokerAssumption
  /\ Life!LifecycleAssumption

=============================================================================
