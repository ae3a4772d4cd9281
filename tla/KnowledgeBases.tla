---------------------------- MODULE KnowledgeBases ----------------------------
(***************************************************************************)
(* Knowledge bases and their documents: RAGFlow keeps them, a table of the  *)
(* platform says which tenant owns which.  A request to RAGFlow that times  *)
(* out may still be carried out, at any later time.                         *)
(***************************************************************************)
EXTENDS Naturals, FiniteSets

CONSTANTS
  Tenants,
  Default,      \* DEFAULT_TENANT_ID: it adopts what nobody owns
  Bases,        \* dataset ids
  Existing,     \* the tenant whose RAGFlow account holds each dataset at first
  Owned,        \* the datasets whose owner is recorded at first
  Documents,    \* documents at first: the dataset each is in
  Requests,     \* requests; the document one uploads bears its name
  NoTenant

KnowledgeBasesAssumption ==
  /\ Default \in Tenants /\ NoTenant \notin Tenants /\ Bases # {}
  /\ DOMAIN Existing \subseteq Bases /\ \A b \in DOMAIN Existing : Existing[b] \in Tenants
  /\ Owned \subseteq DOMAIN Existing
  /\ DOMAIN Documents \cap Requests = {} /\ \A d \in DOMAIN Documents : Documents[d] \in DOMAIN Existing

VARIABLES
  dataset,    \* RAGFlow: the account each dataset is in, and whether it exists
  document,   \* RAGFlow: each document
  owner,      \* ragflow_knowledge_base_ownership
  request     \* each request, with what it has sent to RAGFlow

vars == <<dataset, document, owner, request>>

Docs == DOMAIN Documents \cup Requests

-----------------------------------------------------------------------------
(* What RAGFlow answers, as the platform names it *)
DocumentParsingStatus == {"uploaded", "parsing", "completed", "failed"}
KnowledgeBaseSummary == [state : {"none", "present", "gone"}, tenant : Tenants \cup {NoTenant}]
KnowledgeDocument == [base : Bases, status : DocumentParsingStatus \cup {"none"}]

Ops == {"create", "get", "update", "delete", "list", "upload", "retry"}

(* The errors of the interface; "ok" is none of them *)
Answers == {"none", "ok", "unavailable", "not_found", "rejected", "invalid",
            "upload_failed", "retry_rejected", "unknown"}

Present(b) == dataset[b].state = "present"
SomeBase == CHOOSE b \in Bases : TRUE

-----------------------------------------------------------------------------
(* A request *)
Phases == {"idle", "available", "owned", "read", "send", "wait", "claim", "release",
           "adopt", "answer", "done"}

(* wire: the call to RAGFlow, "sent" until RAGFlow carries it out or refuses it *)
NoRequest == [op |-> "get", phase |-> "idle", tenant |-> Default, base |-> SomeBase,
              doc |-> CHOOSE d \in Docs : TRUE, call |-> "none", wire |-> "none",
              seen |-> {}, answer |-> "none"]

At(r, phase) == request[r].phase = phase
Set(r, q) == request' = [request EXCEPT ![r] = q]
Moved(r, phase) == [request[r] EXCEPT !.phase = phase]
Answered(r, answer) == [request[r] EXCEPT !.phase = "done", !.answer = answer]
Sending(r, call) == [request[r] EXCEPT !.phase = "send", !.call = call]

(* A deletion holds the lock of the knowledge base, which the resolver of
   references takes too *)
DeletionFree(b) ==
  \A q \in Requests : request[q].op = "delete" /\ request[q].base = b
                        => request[q].phase \in {"idle", "done"}

Arrives(r, op, t, b, d) ==
  /\ At(r, "idle")
  /\ op = "delete" => DeletionFree(b)
  /\ Set(r, [NoRequest EXCEPT !.phase = "available", !.op = op, !.tenant = t, !.base = b, !.doc = d])
  /\ UNCHANGED <<dataset, document, owner>>

Asks(r) ==
  \/ \E t \in Tenants, op \in {"create", "list"} : Arrives(r, op, t, SomeBase, NoRequest.doc)
  \/ \E t \in Tenants, b \in Bases, op \in {"get", "update", "delete"} :
       dataset[b].state # "none" /\ Arrives(r, op, t, b, NoRequest.doc)
  \/ \E t \in Tenants, b \in Bases :
       dataset[b].state # "none" /\ Arrives(r, "upload", t, b, r)
  \/ \E t \in Tenants, d \in Docs :
       document[d].status # "none" /\ Arrives(r, "retry", t, document[d].base, d)

EnsuresAvailable(r) ==
  /\ At(r, "available")
  /\ Set(r, IF request[r].op = "create" THEN Sending(r, "create")
            ELSE IF request[r].op = "list" THEN Moved(r, "read") ELSE Moved(r, "owned"))
  /\ UNCHANGED <<dataset, document, owner>>

(* RAGFlow is down, of another version or not configured, or the tenant has no
   RAGFlow identity; an upload that is empty, too large or of another type is
   refused before *)
Unavailable(r) ==
  /\ At(r, "available")
  /\ Set(r, Answered(r, "unavailable"))
  /\ UNCHANGED <<dataset, document, owner>>

EnsuresOwned(r) ==
  LET q == request[r]
  IN  /\ At(r, "owned")
      /\ Set(r, IF owner[q.base] # q.tenant THEN Answered(r, "not_found")
                ELSE IF q.op = "retry" THEN Moved(r, "read") ELSE Sending(r, q.op))
      /\ UNCHANGED <<dataset, document, owner>>

(* get_document, and only a failed one is parsed again *)
ReadsDocument(r) ==
  LET q == request[r]
      readable == Present(q.base) /\ dataset[q.base].tenant = q.tenant
  IN  /\ At(r, "read") /\ q.op = "retry"
      /\ Set(r, IF ~readable \/ document[q.doc].status = "none" THEN Answered(r, "not_found")
                ELSE IF document[q.doc].status # "failed" THEN Answered(r, "retry_rejected")
                ELSE Sending(r, "retry"))
      /\ UNCHANGED <<dataset, document, owner>>

Sends(r) ==
  /\ At(r, "send")
  /\ Set(r, [Moved(r, "wait") EXCEPT !.wire = "sent"])
  /\ UNCHANGED <<dataset, document, owner>>

-----------------------------------------------------------------------------
(* RAGFlow *)
Reaches(q) == Present(q.base) /\ dataset[q.base].tenant = q.tenant

Created(r) ==
  /\ request[r].call = "create"
  /\ \E b \in Bases :
       /\ dataset[b].state = "none"
       /\ dataset' = [dataset EXCEPT ![b] = [state |-> "present", tenant |-> request[r].tenant]]
       /\ Set(r, [request[r] EXCEPT !.wire = "applied", !.base = b])
  /\ UNCHANGED <<document, owner>>

Deleted(r) ==
  /\ request[r].call \in {"delete", "undo"} /\ Reaches(request[r])
  /\ dataset' = [dataset EXCEPT ![request[r].base].state = "gone"]
  /\ document' = [d \in Docs |-> IF document[d].base = request[r].base
                                 THEN [document[d] EXCEPT !.status = "none"] ELSE document[d]]
  /\ Set(r, [request[r] EXCEPT !.wire = "applied"])
  /\ UNCHANGED owner

Uploaded(r) ==
  /\ request[r].call = "upload" /\ Reaches(request[r])
  /\ document' = [document EXCEPT ![r] = [base |-> request[r].base, status |-> "uploaded"]]
  /\ Set(r, [request[r] EXCEPT !.wire = "applied"])
  /\ UNCHANGED <<dataset, owner>>

ParsingStarted(r) ==
  /\ request[r].call \in {"parse", "retry"} /\ Reaches(request[r])
  /\ document[request[r].doc].status # "none"
  /\ document' = [document EXCEPT ![request[r].doc].status = "parsing"]
  /\ Set(r, [request[r] EXCEPT !.wire = "applied"])
  /\ UNCHANGED <<dataset, owner>>

Carried(r) ==
  /\ request[r].call \in {"get", "update"} /\ Reaches(request[r])
  /\ Set(r, [request[r] EXCEPT !.wire = "applied"])
  /\ UNCHANGED <<dataset, document, owner>>

CarriedOut(r) ==
  /\ request[r].wire = "sent"
  /\ Created(r) \/ Deleted(r) \/ Uploaded(r) \/ ParsingStarted(r) \/ Carried(r)

(* The dataset or document is not there, or RAGFlow will not have it *)
Refused(r) ==
  /\ request[r].wire = "sent"
  /\ Set(r, [request[r] EXCEPT !.wire =
       IF request[r].call = "create" \/ Reaches(request[r]) THEN "rejected" ELSE "missing"])
  /\ UNCHANGED <<dataset, document, owner>>

ParsingEnds(d) ==
  /\ document[d].status = "parsing"
  /\ \E s \in {"completed", "failed"} : document' = [document EXCEPT ![d].status = s]
  /\ UNCHANGED <<dataset, owner, request>>

-----------------------------------------------------------------------------
(* What comes back.  A deletion of what is missing has succeeded; an upload is
   followed by the call that starts the parsing *)
Arrived(r) ==
  LET q == request[r]
      done == q.wire = "applied"
  IN  CASE q.call = "create" -> IF done THEN Moved(r, "claim") ELSE Answered(r, "rejected")
        [] q.call = "delete" -> IF q.wire = "rejected" THEN Answered(r, "rejected")
                                ELSE Moved(r, "release")
        [] q.call = "undo"   -> Answered(r, IF q.wire = "rejected" THEN "rejected" ELSE "not_found")
        [] q.call = "upload" -> IF done THEN Sending(r, "parse") ELSE Answered(r, "upload_failed")
        [] q.call \in {"parse", "retry"} -> Answered(r, IF done THEN "ok" ELSE "unknown")
        [] OTHER -> Answered(r, IF done THEN "ok"
                                ELSE IF q.wire = "missing" THEN "not_found" ELSE "rejected")

Receives(r) ==
  /\ At(r, "wait") /\ request[r].wire # "sent"
  /\ Set(r, Arrived(r))
  /\ UNCHANGED <<dataset, document, owner>>

(* The answer to a call that was carried out cannot be read: after an upload the
   second call's envelope, or the document's state, is not taken for unknown *)
Unreadable(r) ==
  IF request[r].call \in {"upload", "parse"} THEN {"unknown", "invalid"}
  ELSE IF request[r].call \in {"delete", "undo", "retry"} THEN {"unknown"} ELSE {"invalid"}

ReceivesInvalid(r) ==
  /\ At(r, "wait") /\ request[r].wire = "applied"
  /\ \E answer \in Unreadable(r) : Set(r, Answered(r, answer))
  /\ UNCHANGED <<dataset, document, owner>>

(* No answer in time, or a server error: the call may be carried out yet *)
WithoutAnswer(r) ==
  Answered(r, IF request[r].call \in {"create", "get", "update"} THEN "unavailable" ELSE "unknown")

UploadCalledFailed(r) ==
  Answered(r, IF request[r].call = "upload" THEN "upload_failed" ELSE "unknown")
DeletionTakenAsDone(r) ==
  IF request[r].call = "delete" THEN Moved(r, "release") ELSE Answered(r, "unknown")
Unanswered(r) == WithoutAnswer(r)

TimesOut(r) ==
  /\ At(r, "wait")
  /\ Set(r, Unanswered(r))
  /\ UNCHANGED <<dataset, document, owner>>

-----------------------------------------------------------------------------
(* Ownership *)

(* The primary key is taken when the default tenant's listing was faster: the
   dataset just created is deleted again *)
ClaimsBase(r) ==
  LET b == request[r].base
  IN  /\ At(r, "claim")
      /\ IF owner[b] = NoTenant
         THEN /\ owner' = [owner EXCEPT ![b] = request[r].tenant]
              /\ Set(r, Answered(r, "ok"))
         ELSE Set(r, Sending(r, "undo")) /\ UNCHANGED owner
      /\ UNCHANGED <<dataset, document>>

ReleasesBase(r) ==
  LET b == request[r].base
  IN  /\ At(r, "release")
      /\ owner' = [owner EXCEPT ![b] = IF @ = request[r].tenant THEN NoTenant ELSE @]
      /\ Set(r, Answered(r, "ok"))
      /\ UNCHANGED <<dataset, document>>

(* Pages of the tenant's account, any part of them; what the default tenant
   sees there and nobody owns becomes its own *)
ReadsPage(r) ==
  /\ At(r, "read") /\ request[r].op = "list"
  /\ \E S \in SUBSET {b \in Bases : Present(b) /\ dataset[b].tenant = request[r].tenant} :
       Set(r, [Moved(r, IF request[r].tenant = Default /\ S # {} THEN "adopt" ELSE "answer")
                 EXCEPT !.seen = S])
  /\ UNCHANGED <<dataset, document, owner>>

AdoptsLegacy(r) ==
  /\ At(r, "adopt")
  /\ owner' = [b \in Bases |-> IF b \in request[r].seen /\ owner[b] = NoTenant
                               THEN Default ELSE owner[b]]
  /\ Set(r, Moved(r, "answer"))
  /\ UNCHANGED <<dataset, document>>

AnswersList(r) ==
  /\ At(r, "answer")
  /\ Set(r, [Answered(r, "ok") EXCEPT
              !.seen = {b \in @ : owner[b] = request[r].tenant}])
  /\ UNCHANGED <<dataset, document, owner>>

(* The process dies; what it sent is on its way *)
RequestLost(r) ==
  /\ request[r].phase \notin {"idle", "done"}
  /\ Set(r, Answered(r, "none"))
  /\ UNCHANGED <<dataset, document, owner>>

-----------------------------------------------------------------------------
Init ==
  /\ dataset = [b \in Bases |-> IF b \in DOMAIN Existing
                               THEN [state |-> "present", tenant |-> Existing[b]]
                               ELSE [state |-> "none", tenant |-> NoTenant]]
  /\ document = [d \in Docs |-> IF d \in DOMAIN Documents
                               THEN [base |-> Documents[d], status |-> "failed"]
                               ELSE [base |-> SomeBase, status |-> "none"]]
  /\ owner = [b \in Bases |-> IF b \in Owned THEN Existing[b] ELSE NoTenant]
  /\ request = [r \in Requests |-> NoRequest]

RequestStep(r) ==
  \/ Asks(r) \/ EnsuresAvailable(r) \/ Unavailable(r) \/ EnsuresOwned(r) \/ ReadsDocument(r)
  \/ Sends(r) \/ Receives(r) \/ ReceivesInvalid(r) \/ TimesOut(r)
  \/ ClaimsBase(r) \/ ReleasesBase(r) \/ ReadsPage(r) \/ AdoptsLegacy(r) \/ AnswersList(r)
  \/ RequestLost(r)

Next ==
  \/ \E r \in Requests : RequestStep(r) \/ CarriedOut(r) \/ Refused(r)
  \/ \E d \in Docs : ParsingEnds(d)

Spec == Init /\ [][Next]_vars

-----------------------------------------------------------------------------
(* Every variable has its type. *)
TypeOK ==
  /\ dataset \in [Bases -> KnowledgeBaseSummary] /\ document \in [Docs -> KnowledgeDocument]
  /\ owner \in [Bases -> Tenants \cup {NoTenant}]
  /\ \A r \in Requests : request[r].phase \in Phases /\ request[r].op \in Ops
                         /\ request[r].answer \in Answers

(* An ownership is given up only when its dataset is gone: no failed, repeated or
   late deletion leaves a dataset that nobody owns (knowledge/service.py:231). *)
ReleasedWhenGone ==
  [][\A b \in Bases : owner[b] # NoTenant /\ owner'[b] = NoTenant => dataset[b].state = "gone"]_vars

(* What a user is told holds, even when calls land late: an answer that says no
   left nothing behind, what was created is owned, what was deleted is gone, and
   only the default tenant's creations are ever undone (ragflow.py:506). *)
AnswersAreTrue ==
  \A r \in Requests : LET q == request[r] IN
    /\ q.answer \in {"not_found", "rejected", "upload_failed", "retry_rejected"} =>
         q.wire # "sent" /\ (q.wire = "applied" => q.call = "undo")
    /\ q.answer = "ok" /\ q.op = "create" /\ Present(q.base) => owner[q.base] = q.tenant
    /\ q.answer = "ok" /\ q.op = "delete" => dataset[q.base].state = "gone"
    /\ q.answer = "ok" /\ q.op = "upload" /\ Present(q.base) =>
         document[r].status \in {"parsing", "completed", "failed"}
    /\ q.call = "undo" => q.tenant = Default

=============================================================================
