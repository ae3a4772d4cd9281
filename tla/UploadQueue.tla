----------------------------- MODULE UploadQueue -----------------------------
(***************************************************************************)
(* The queue of documents a user uploads to a knowledge base: a few calls   *)
(* at a time, statuses that follow the listing of the base's documents, and *)
(* retries of what failed.  A file may become several documents, when the   *)
(* answer to its upload is lost; an item knows the one it was answered.     *)
(***************************************************************************)
EXTENDS Naturals, Sequences, FiniteSets, FiniteSetsExt

CONSTANTS
  Files,              \* supported files, told apart by name and size
  UploadConcurrency,  \* UPLOAD_CONCURRENCY
  MaxQueueFiles,      \* MAX_UPLOAD_QUEUE_FILES
  MaxCopies, MaxFaults

UploadQueueAssumption ==
  /\ IsFiniteSet(Files) /\ Files # {} /\ {UploadConcurrency, MaxQueueFiles} \subseteq Nat \ {0}
  /\ {MaxCopies, MaxFaults} \subseteq Nat

VARIABLES
  items, running, refreshing,  \* of the component: items, running, batchRefreshPending
  calls,        \* runUpload, by file
  documents,    \* the documents of the base, by file
  listed,       \* the documents the page holds
  listing,      \* the query for them
  losses, missed  \* answers lost so far, files whose upload's answer was lost

vars == <<items, running, refreshing, calls, documents, listed, listing, losses, missed>>

-----------------------------------------------------------------------------
NoItem == [status |-> "none", document |-> 0, retrying |-> FALSE, samples |-> 0]
NewItem == [NoItem EXCEPT !.status = "waiting"]
FailedItem(item) == [item EXCEPT !.status = "failed", !.retrying = FALSE, !.samples = 0]

With(statuses) == {f \in Files : items[f].status \in statuses}
Queued == {f \in Files : items[f] # NoItem}
Busy == With({"waiting", "uploading"}) # {} \/ \E f \in Files : items[f].retrying

NoDocuments == [f \in Files |-> <<>>]
NotListing == [phase |-> "idle", rows |-> NoDocuments]
Listing == [NotListing EXCEPT !.phase = "asked"]

UnchangedBase == UNCHANGED <<documents, listed, losses, missed>>
LosesAnswer == losses < MaxFaults /\ losses' = losses + 1

-----------------------------------------------------------------------------
(* selectKnowledgeUploadFiles: not what is listed or queued *)
Duplicate(f) == items[f] # NoItem \/ listed[f] # <<>>

AddFile(f) ==
  /\ Cardinality(Queued) < MaxQueueFiles /\ ~Duplicate(f)
  /\ items' = [items EXCEPT ![f] = NewItem]
  /\ UnchangedBase /\ UNCHANGED <<running, refreshing, calls, listing>>

Start ==
  /\ With({"waiting"}) # {} /\ ~running /\ running' = TRUE
  /\ UnchangedBase /\ UNCHANGED <<items, refreshing, calls, listing>>

StopsRunning ==
  /\ running /\ ~Busy /\ running' = FALSE
  /\ UnchangedBase /\ UNCHANGED <<items, refreshing, calls, listing>>

Remove(f) ==
  /\ items[f].status = "waiting"
  /\ items' = [items EXCEPT ![f] = NoItem]
  /\ UnchangedBase /\ UNCHANGED <<running, refreshing, calls, listing>>

ClearCompleted ==
  /\ ~Busy /\ With({"completed"}) # {}
  /\ items' = [f \in Files |-> IF items[f].status = "completed" THEN NoItem ELSE items[f]]
  /\ UnchangedBase /\ UNCHANGED <<running, refreshing, calls, listing>>

Retry(f) ==
  /\ items[f].status = "failed"
  /\ items' = [items EXCEPT ![f].status = "waiting", ![f].samples = 0]
  /\ running' = TRUE
  /\ UnchangedBase /\ UNCHANGED <<refreshing, calls, listing>>

-----------------------------------------------------------------------------
(* As many as there is room for, of those that wait *)
Free == UploadConcurrency - Cardinality(With({"uploading"}))

AlwaysUploads(item) == "upload"
CallOf(item) == IF item.document = 0 THEN "upload" ELSE "retry"

StartUploads ==
  /\ running /\ Free > 0 /\ With({"waiting"}) # {}
  /\ LET waiting == With({"waiting"})
         room == IF Cardinality(waiting) < Free THEN Cardinality(waiting) ELSE Free
     IN  \E selected \in kSubset(room, waiting) :
           /\ items' = [f \in Files |->
                          IF f \in selected THEN [items[f] EXCEPT !.status = "uploading"] ELSE items[f]]
           /\ calls' = [f \in Files |-> IF f \in selected THEN CallOf(items[f]) ELSE calls[f]]
  /\ UnchangedBase /\ UNCHANGED <<running, refreshing, listing>>

(* The server stores a document and has it parsed; when it cannot, the answer is
   that the result is unknown *)
Uploads(f) ==
  /\ calls[f] = "upload" /\ Len(documents[f]) < MaxCopies
  /\ \/ documents' = [documents EXCEPT ![f] = Append(@, "parsing")]
        /\ calls' = [calls EXCEPT ![f] = "uploaded"] /\ UNCHANGED <<missed, losses>>
     \/ documents' = [documents EXCEPT ![f] = Append(@, "uploaded")]
        /\ calls' = [calls EXCEPT ![f] = "refused"] /\ missed' = missed \cup {f} /\ LosesAnswer
  /\ UNCHANGED <<items, running, refreshing, listed, listing>>

(* Only what failed is parsed again *)
Reparses(f) ==
  /\ calls[f] = "retry"
  /\ LET status == documents[f][items[f].document]
     IN  IF status = "failed"
         THEN /\ documents' = [documents EXCEPT ![f][items[f].document] = "parsing"]
              /\ calls' = [calls EXCEPT ![f] = "restarted"]
         ELSE calls' = [calls EXCEPT ![f] = "refused"] /\ UNCHANGED documents
  /\ UNCHANGED <<items, running, refreshing, listed, listing, losses, missed>>

NeverRefreshes(item) == FALSE
RefreshesBatch(item) == item.document = 0

UploadAnswered(f) ==
  /\ calls[f] = "uploaded"
  /\ items' = [items EXCEPT ![f] = [status |-> "parsing", document |-> Len(documents[f]),
                                    retrying |-> FALSE, samples |-> 0]]
  /\ refreshing' = (refreshing \/ RefreshesBatch(items[f]))
  /\ calls' = [calls EXCEPT ![f] = "none"]
  /\ UnchangedBase /\ UNCHANGED <<running, listing>>

RetryAnswered(f) ==
  /\ calls[f] = "restarted"
  /\ items' = [items EXCEPT ![f].status = "parsing", ![f].retrying = TRUE, ![f].samples = 0]
  /\ listing' = Listing
  /\ calls' = [calls EXCEPT ![f] = "none"]
  /\ UnchangedBase /\ UNCHANGED <<running, refreshing>>

CallFails(f) ==
  /\ calls[f] # "none"
  /\ IF calls[f] = "refused" THEN UNCHANGED <<losses, missed>>
     ELSE LosesAnswer /\ missed' = IF calls[f] = "uploaded" THEN missed \cup {f} ELSE missed
  /\ items' = [items EXCEPT ![f] = FailedItem(@)]
  /\ calls' = [calls EXCEPT ![f] = "none"]
  /\ UNCHANGED <<running, refreshing, documents, listed, listing>>

-----------------------------------------------------------------------------
(* The listing of the documents: when a batch is over, after a retry, and every two
   seconds while something is under way *)
BatchRefresh ==
  /\ refreshing /\ With({"waiting", "uploading"}) = {}
  /\ refreshing' = FALSE /\ listing' = Listing
  /\ UnchangedBase /\ UNCHANGED <<items, running, calls>>

Unfinished(status) == status \in {"uploaded", "parsing"}
Polling == Busy \/ \E f \in Files : \E i \in DOMAIN listed[f] : Unfinished(listed[f][i])

Polls ==
  /\ Polling /\ listing.phase = "idle" /\ listing' = Listing
  /\ UnchangedBase /\ UNCHANGED <<items, running, refreshing, calls>>

ListingReads ==
  /\ listing.phase = "asked" /\ listing' = [phase |-> "read", rows |-> documents]
  /\ UnchangedBase /\ UNCHANGED <<items, running, refreshing, calls>>

RETRY_STALE_FAILURE_SAMPLES == 1

(* What a listing that says something new does to an item: a call's outcome is its
   answer, and a retried document may be listed as failed once more *)
Follows(item, rows) ==
  IF item.document = 0 \/ item.status = "uploading" \/ item.document > Len(rows) THEN item
  ELSE LET status == rows[item.document]
       IN  IF item.retrying /\ status = "failed" /\ item.samples < RETRY_STALE_FAILURE_SAMPLES
           THEN [item EXCEPT !.samples = @ + 1]
           ELSE [item EXCEPT !.status = status, !.retrying = FALSE, !.samples = 0]

ListingArrives ==
  /\ listing.phase = "read" /\ listing' = NotListing
  /\ listed' = listing.rows
  /\ items' = IF listing.rows = listed THEN items
              ELSE [f \in Files |-> Follows(items[f], listing.rows[f])]
  /\ UNCHANGED <<running, refreshing, calls, documents, losses, missed>>

ParsingEnds(f) ==
  /\ \E i \in DOMAIN documents[f], outcome \in {"completed", "failed"} :
       /\ documents[f][i] = "parsing"
       /\ documents' = [documents EXCEPT ![f][i] = outcome]
  /\ UNCHANGED <<items, running, refreshing, calls, listed, listing, losses, missed>>

-----------------------------------------------------------------------------
Init ==
  /\ items = [f \in Files |-> NoItem] /\ running = FALSE /\ refreshing = FALSE
  /\ calls = [f \in Files |-> "none"]
  /\ documents = NoDocuments /\ listed = NoDocuments /\ listing = NotListing
  /\ losses = 0 /\ missed = {}

Next ==
  \/ \E f \in Files :
       \/ AddFile(f) \/ Remove(f) \/ Retry(f) \/ Uploads(f) \/ Reparses(f)
       \/ UploadAnswered(f) \/ RetryAnswered(f) \/ CallFails(f) \/ ParsingEnds(f)
  \/ Start \/ StopsRunning \/ ClearCompleted \/ StartUploads
  \/ BatchRefresh \/ Polls \/ ListingReads \/ ListingArrives

Spec == Init /\ [][Next]_vars

-----------------------------------------------------------------------------
(* Every variable has its type. *)
Statuses == {"waiting", "uploading", "uploaded", "parsing", "completed", "failed"}

TypeOK ==
  /\ \A f \in Files :
       /\ items[f].status \in {"none"} \cup Statuses
       /\ items[f].document <= Len(documents[f])
       /\ calls[f] \in {"none", "upload", "uploaded", "retry", "restarted", "refused"}
       /\ listed[f] # <<>> => Len(listed[f]) <= Len(documents[f])
  /\ {running, refreshing} \subseteq BOOLEAN
  /\ listing.phase \in {"idle", "asked", "read"} /\ missed \subseteq Files

(* An item that is being uploaded has a call, no other has, and they are never more
   than allowed (KnowledgeUploadQueue.tsx:116). *)
CallsAreCounted ==
  /\ {f \in Files : calls[f] # "none"} = With({"uploading"})
  /\ Cardinality(With({"uploading"})) <= UploadConcurrency

(* Unless an answer was lost, a file becomes one document, however often it is
   queued, removed, cleared and retried (KnowledgeUploadQueue.tsx:137). *)
UploadedOnce == \A f \in Files \ missed : Len(documents[f]) <= 1

(* Nobody stops asking for the listing while an item waits for the end of its parsing
   and the page does not hold that end yet (KnowledgeUploadQueue.tsx:86). *)
EndIsKnown(f) ==
  /\ items[f].document \in DOMAIN listed[f]
  /\ ~Unfinished(documents[f][items[f].document])
  /\ listed[f][items[f].document] = documents[f][items[f].document]

ParsingIsFollowed ==
  \A f \in Files : Unfinished(items[f].status) =>
    Polling \/ refreshing \/ listing.phase # "idle" \/ EndIsKnown(f)

=============================================================================
