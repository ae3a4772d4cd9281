------------------------------ MODULE MCPlatform ------------------------------
(*****************************************************************************)
(* Small instances of the platform's components:                             *)
(* - WorkflowRuns: a run of two nodes, the second of which calls a model,    *)
(*   with two attempts, a stop request and two faults.                       *)
(* - ResourceMutations: two requests at a time, in one process or in two     *)
(*   with two pooled connections each, and one process death.                *)
(* - ToolCatalog and ToolCalls: an external, a managed and the platform's    *)
(*   source, two changes by administrators beside a synchronisation, and a   *)
(*   turn with two calls of which one request at a time leaves the process.  *)
(* - AuthSessions: two requests, each of any kind, for an account and an     *)
(*   address without one; three failures lock, and both the window and an    *)
(*   idle session last one tick.                                             *)
(* - AuditTrail: two requests in one tenant, chains of two events, pages of  *)
(*   one, one failure.                                                       *)
(* - KnowledgeBases: two requests for three knowledge bases: one a           *)
(*   tenant's, one the default tenant has not adopted yet, one to be         *)
(*   created.                                                                *)
(* - RagFlowIdentities: two processes, a tenant with an account from before  *)
(*   and one without, one rotation of the key and one failure.               *)
(* - WorkflowDesigner: a stored workflow of three nodes, a client that has   *)
(*   graphs of up to four nodes and three edges validated, and an editor of  *)
(*   three nodes and three edits, one save at a time and one failure; three  *)
(*   nodes and three edges are the limits.                                   *)
(* - EventBroker: two conversations, of which one has room, and two          *)
(*   subscribers with a queue of one; two events in each of two lives of a   *)
(*   state.                                                                  *)
(* - ChatScreen: one turn whose times differ by at most one, retries         *)
(*   included, and two openings, retries or broken connections; after a      *)
(*   snapshot that was overtaken nothing more is said.                       *)
(* - UploadQueue: two files, one call at a time, one lost answer; after an   *)
(*   upload's was lost nothing more is said.                                 *)
(* - PagedList: three rows, two times, pages of one row, three fetches.      *)
(* - Lifecycle: both kinds of process in both modes, and two model           *)
(*   adapters.                                                               *)
(*****************************************************************************)
EXTENDS Platform

-----------------------------------------------------------------------------
(* ResourceMutations *)
Things == {"e", "e2", "k", "w", "w2", "m", "m2", "c", "r"}

(* The order of the resources' lock keys *)
Ranks == [e |-> 1, e2 |-> 2, k |-> 3, m |-> 4, m2 |-> 5, w |-> 6, w2 |-> 7]

Asks(op, on, cfg) == [op |-> op, on |-> on, cfg |-> cfg]
MutationRequests == {
  Asks("create_employee", "e2", {"m", "k", "w"}), Asks("ensure_employee", "e2", {"m"}),
  Asks("update_employee", "e", {"m2", "w"}), Asks("delete_employee", "e", {}),
  Asks("create_model", "m2", {}), Asks("update_model", "m", {}), Asks("delete_model", "m", {}),
  Asks("create_workflow", "w2", {"e", "k"}), Asks("update_workflow", "w", {"m", "k"}),
  Asks("delete_workflow", "w", {}), Asks("delete_knowledge_base", "k", {}),
  Asks("create_conversation", "c", {"e"}), Asks("create_first_turn", "c", {"m"}),
  Asks("start_run", "r", {"w"})}

FirstRefs == [o \in Things |-> IF o = "e" THEN {"m"} ELSE {}]

-----------------------------------------------------------------------------
(* ToolCatalog and ToolCalls *)
SourceOfCapability == [x |-> "ext", m |-> "man", n |-> "man", now |-> "plat"]

-----------------------------------------------------------------------------
(* AuditTrail *)
Memberships == [r1 |-> [tenant |-> "t", role |-> "editor"],
                r2 |-> [tenant |-> "t", role |-> "viewer"]]

-----------------------------------------------------------------------------
(* KnowledgeBases *)
ExistingBases == [b1 |-> "t", b2 |-> "d"]
FirstDocuments == [d0 |-> "b1"]

-----------------------------------------------------------------------------
(* RagFlowIdentities *)
TwoKeys == <<"k1", "k2">>

-----------------------------------------------------------------------------
(* WorkflowDesigner *)
NodeAt(id, type) ==
  [id |-> id, type |-> type,
   config |-> CASE type = "ai_chat" -> "e" [] type = "knowledge_retrieval" -> "k" [] OTHER -> ""]
EdgeAt(id, s, t) == [id |-> id, source |-> s, target |-> t]

S1 == <<"start", 1>>
A1 == <<"ai_chat", 1>>
E1 == <<"end", 1>>
StoredChain ==
  [w1 |-> [nodes |-> <<NodeAt(S1, "start"), NodeAt(A1, "ai_chat"), NodeAt(E1, "end")>>,
           edges |-> <<EdgeAt(<<"edge", S1, A1>>, S1, A1), EdgeAt(<<"edge", A1, E1>>, A1, E1)>>]]

Joined == {<<"a", "b">>, <<"a", "c">>, <<"b", "a">>, <<"b", "c">>, <<"c", "a">>, <<"c", "b">>,
           <<"a", "a">>, <<"b", "x">>, <<"x", "b">>}
JoinedLists ==
  UNION {SetToSeqs(s) : s \in {x \in SUBSET Joined : Cardinality(x) <= 2}}
  \cup {SetToSeq(s) : s \in {x \in SUBSET Joined : Cardinality(x) = 3}}
  \cup {<<<<"a", "b">>, <<"a", "b">>>>, <<<<"a", "b">>, <<"b", "c">>, <<"a", "b">>>>}
TypeLists == UNION {[1 .. n -> {"start", "ai_chat", "end"}] : n \in 1 .. 3}
             \cup {<<"start", "ai_chat", "knowledge_retrieval", "end">>}
IdLists == {<<"a", "b", "c", "d">>, <<"a", "b", "b", "d">>}
NodeLists == {[i \in DOMAIN types |-> NodeAt(<<ids[i], 0>>, types[i])] :
                types \in TypeLists, ids \in IdLists}
PostedGraphs ==
  {[nodes |-> n, edges |-> [i \in DOMAIN e |-> EdgeAt(<<"edge", i>>, <<e[i][1], 0>>, <<e[i][2], 0>>)]] :
     n \in NodeLists, e \in JoinedLists}
AllThere == [present |-> {"e", "m", "k"}, enabled |-> {"m"}]
Answers == [e |-> "m"]

=============================================================================
