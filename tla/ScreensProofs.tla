----------------------------- MODULE ScreensProofs -----------------------------
(***************************************************************************)
(* The invariants of what a user sees, for any values of their constants:   *)
(* each holds at first and is kept by every step of its component, and what *)
(* the component promises follows from it.                                  *)
(***************************************************************************)
EXTENDS Screens, FiniteSetTheorems, WellFoundedInduction, TLAPS

-----------------------------------------------------------------------------
(* The instances count as this module does *)
LEMMA SameCounts ==
  /\ \A S : Design!Cardinality(S) = Cardinality(S)
  /\ \A S : Lists!Cardinality(S) = Cardinality(S)
  /\ \A S : Queue!Cardinality(S) = Cardinality(S)
  BY Zenon DEF Design!Cardinality, Lists!Cardinality, Queue!Cardinality, Cardinality

LEMMA SameFinite ==
  /\ \A S : Lists!IsFiniteSet(S) <=> IsFiniteSet(S)
  /\ \A S : Queue!IsFiniteSet(S) <=> IsFiniteSet(S)
  BY Zenon DEF Lists!IsFiniteSet, Queue!IsFiniteSet, IsFiniteSet

-----------------------------------------------------------------------------
(* UploadQueue.  What is known of one file, in its item, its call, the service and the
   page, fits together, whatever arrives first; the lemmas that follow take the state of a
   file apart, so that every step is about one file. *)

DocumentStatus == {"uploaded", "parsing", "completed", "failed"}
Item == [status : {"none"} \cup Queue!Statuses, document : Nat, retrying : BOOLEAN, samples : Nat]
CallStates == {"none", "upload", "uploaded", "retry", "restarted", "refused"}

(* What is known of a file: of its item it, its call c, its documents ds, the documents
   ls the page holds of it, and whether the answer to an upload of it was lost, m.  An
   item knows a document that exists, and an upload is called for before it knows any *)
ItemFits(it, c, ds) ==
  /\ it.document <= Len(ds)
  /\ it.status = "uploading" <=> c # "none"
  /\ c \in {"upload", "uploaded"} => it.document = 0
  /\ c \in {"retry", "restarted"} => it.document # 0
  /\ c = "uploaded" => ds # <<>>
  /\ it.status \in {"uploaded", "parsing", "completed"} => it.document # 0
  /\ it.status = "none" => it = Queue!NoItem

(* The one document is known to the call, to the item or to the page, which never
   forgets it *)
OnceOnly(it, c, ds, ls) ==
  /\ ds # <<>> => Len(ds) = 1
  /\ ds # <<>> => c = "uploaded" \/ it.document = 1 \/ (it = Queue!NoItem /\ ls # <<>>)
  /\ it.document = 1 /\ it.status # "parsing" => ls # <<>>

(* What was listed is the beginning of what there is, and the document an upload is
   about to be answered has not ended otherwise since *)
IsListing(ls, ds, c) ==
  /\ Len(ls) <= Len(ds)
  /\ c = "uploaded" /\ Len(ds) \in DOMAIN ls =>
       Queue!Unfinished(ls[Len(ds)]) \/ ls[Len(ds)] = ds[Len(ds)]

(* An item that waits for the end of its parsing is listed with that end, is listed as
   unfinished, or will be listed: q is the listing's phase, rs what it has read, b
   whether one is due *)
EndListed(it, ds, ls) ==
  Queue!Unfinished(it.status) /\ ~it.retrying /\ it.document \in DOMAIN ls =>
    Queue!Unfinished(ls[it.document]) \/ ls[it.document] = ds[it.document]

WillBeListed(it, ls, q, rs, b) ==
  Queue!Unfinished(it.status) /\ it.document \notin DOMAIN ls =>
    b \/ q = "asked" \/ (q = "read" /\ it.document \in DOMAIN rs)

FileInv(f, it, c, ds, ls, m, q, rs, b) ==
  /\ ItemFits(it, c, ds)
  /\ f \notin m => OnceOnly(it, c, ds, ls)
  /\ IsListing(ls, ds, c) /\ EndListed(it, ds, ls) /\ WillBeListed(it, ls, q, rs, b)
  /\ q = "read" => IsListing(rs, ds, c) /\ Len(ls) <= Len(rs)

QueueTyped ==
  /\ items \in [Files -> Item] /\ calls \in [Files -> CallStates]
  /\ documents \in [Files -> Seq(DocumentStatus)] /\ seen \in [Files -> Seq(DocumentStatus)]
  /\ listing \in [phase : {"idle", "asked", "read"}, rows : [Files -> Seq(DocumentStatus)]]
  /\ running \in BOOLEAN /\ refreshing \in BOOLEAN /\ missed \subseteq Files /\ lost \in Nat

FilesFit ==
  \A f \in Files : FileInv(f, items[f], calls[f], documents[f], seen[f], missed,
                           listing.phase, listing.rows[f], refreshing)

RoomKept == Cardinality(Queue!With({"uploading"})) <= UploadConcurrency

QueueInv == QueueTyped /\ FilesFit /\ RoomKept

(* How the parts of a file's state may change *)
FileTyped(it, c, ds, ls, q, rs, b) ==
  /\ it \in Item /\ c \in CallStates /\ ds \in Seq(DocumentStatus)
  /\ ls \in Seq(DocumentStatus) /\ rs \in Seq(DocumentStatus)
  /\ q \in {"idle", "asked", "read"} /\ b \in BOOLEAN

LEMMA NoItemTyped == Queue!NoItem \in Item /\ Queue!NewItem \in Item
  BY DEF Queue!NoItem, Queue!NewItem, Item, Queue!Statuses

LEMMA ItemsMove ==
  ASSUME NEW it, NEW c, NEW ds, NEW ls, NEW f, NEW m, NEW q, NEW rs, NEW b,
         FileTyped(it, c, ds, ls, q, rs, b), FileInv(f, it, c, ds, ls, m, q, rs, b)
  PROVE  /\ it = Queue!NoItem /\ ls = <<>> => FileInv(f, Queue!NewItem, c, ds, ls, m, q, rs, b)
         /\ it.status = "waiting" => FileInv(f, Queue!NoItem, c, ds, ls, m, q, rs, b)
         /\ it.status = "completed" => FileInv(f, Queue!NoItem, c, ds, ls, m, q, rs, b)
         /\ it.status = "failed" =>
              FileInv(f, [it EXCEPT !.status = "waiting", !.samples = 0], c, ds, ls, m, q, rs, b)
  BY DEF FileTyped, FileInv, ItemFits, OnceOnly, IsListing, EndListed, WillBeListed, Item,
         Queue!Statuses, CallStates, Queue!NewItem, Queue!NoItem, Queue!Unfinished, DocumentStatus

LEMMA CallsMove ==
  ASSUME NEW it, NEW c, NEW ds, NEW ls, NEW f, NEW m, NEW q, NEW rs, NEW b,
         FileTyped(it, c, ds, ls, q, rs, b), FileInv(f, it, c, ds, ls, m, q, rs, b)
  PROVE  /\ it.status = "waiting" =>
              FileInv(f, [it EXCEPT !.status = "uploading"], Queue!CallOf(it), ds, ls, m, q, rs, b)
         /\ c = "upload" => FileInv(f, it, "uploaded", Append(ds, "parsing"), ls, m, q, rs, b)
         /\ c = "upload" =>
              FileInv(f, it, "refused", Append(ds, "uploaded"), ls, m \cup {f}, q, rs, b)
         /\ c = "retry" => it.document \in DOMAIN ds
         /\ c = "retry" => FileInv(f, it, "refused", ds, ls, m, q, rs, b)
         /\ c = "retry" =>
              FileInv(f, it, "restarted", [ds EXCEPT ![it.document] = "parsing"], ls, m, q, rs, b)
  <1> USE DEF FileTyped, FileInv, ItemFits, OnceOnly, IsListing, EndListed, WillBeListed, Item,
              Queue!Statuses, CallStates, Queue!NoItem, Queue!Unfinished, DocumentStatus
  <1>1. it.status = "waiting" =>
              FileInv(f, [it EXCEPT !.status = "uploading"], Queue!CallOf(it), ds, ls, m, q, rs, b)
        BY DEF Queue!CallOf
  <1>2. c = "upload" => FileInv(f, it, "uploaded", Append(ds, "parsing"), ls, m, q, rs, b)
        BY SMTT(40)
  <1>3. c = "upload" =>
              FileInv(f, it, "refused", Append(ds, "uploaded"), ls, m \cup {f}, q, rs, b)
        BY SMTT(40)
  <1>4. c = "retry" => it.document \in DOMAIN ds
        OBVIOUS
  <1>5. c = "retry" => FileInv(f, it, "refused", ds, ls, m, q, rs, b)
        OBVIOUS
  <1>6. c = "retry" =>
          FileInv(f, it, "restarted", [ds EXCEPT ![it.document] = "parsing"], ls, m, q, rs, b)
        BY <1>4
  <1> QED BY <1>1, <1>2, <1>3, <1>4, <1>5, <1>6

LEMMA AnsweredCalls ==
  ASSUME NEW it, NEW c, NEW ds, NEW ls, NEW f, NEW m, NEW q, NEW rs, NEW b,
         FileTyped(it, c, ds, ls, q, rs, b), FileInv(f, it, c, ds, ls, m, q, rs, b)
  PROVE  /\ c = "uploaded" => Queue!RefreshesBatch(it)
         /\ c = "uploaded" =>
              FileInv(f, [status |-> "parsing", document |-> Len(ds), retrying |-> FALSE,
                       samples |-> 0], "none", ds, ls, m, q, rs, TRUE)
         /\ c = "restarted" =>
              FileInv(f, [it EXCEPT !.status = "parsing", !.retrying = TRUE, !.samples = 0],
                      "none", ds, ls, m, "asked", rs, TRUE)
         /\ c # "none" /\ c # "uploaded" =>
              FileInv(f, Queue!FailedItem(it), "none", ds, ls, m, q, rs, b)
         /\ c = "uploaded" => FileInv(f, Queue!FailedItem(it), "none", ds, ls, m \cup {f}, q, rs, b)
  BY DEF FileTyped, FileInv, ItemFits, OnceOnly, IsListing, EndListed, WillBeListed, Item,
         Queue!Statuses, CallStates, Queue!FailedItem, Queue!NoItem, Queue!Unfinished,
         DocumentStatus, Queue!RefreshesBatch

LEMMA AsksAnew ==
  ASSUME NEW it, NEW c, NEW ds, NEW ls, NEW f, NEW m, NEW q, NEW rs, NEW b,
         FileTyped(it, c, ds, ls, q, rs, b), FileInv(f, it, c, ds, ls, m, q, rs, b),
         NEW rt, NEW a \in BOOLEAN
  PROVE  /\ FileInv(f, it, c, ds, ls, m, "asked", rt, a)
         /\ FileInv(f, it, c, ds, ls, m, "read", ds, b) \/ q # "asked"
         /\ FileInv(f, it, c, ds, ls, m, q, rs, TRUE)
         /\ \A i \in DOMAIN ds, e \in {"completed", "failed"} :
              ds[i] = "parsing" => FileInv(f, it, c, [ds EXCEPT ![i] = e], ls, m, q, rs, b)
  BY DEF FileTyped, FileInv, ItemFits, OnceOnly, IsListing, EndListed, WillBeListed, Item,
         Queue!Statuses, CallStates, Queue!FailedItem, Queue!NoItem, Queue!Unfinished,
         DocumentStatus

LEMMA FollowsTyped ==
  ASSUME NEW it \in Item, NEW rs \in Seq(DocumentStatus)
  PROVE  /\ Queue!Follows(it, rs) \in Item
         /\ Queue!Follows(it, rs).document = it.document
         /\ Queue!Follows(it, rs).status = "uploading" <=> it.status = "uploading"
         /\ it.document = 0 \/ it.status = "uploading" \/ it.document \notin DOMAIN rs
              => Queue!Follows(it, rs) = it
         /\ it.document \in DOMAIN rs /\ it.status # "uploading" =>
              \/ Queue!Follows(it, rs).retrying /\ Queue!Follows(it, rs).status = it.status
              \/ Queue!Follows(it, rs).status = rs[it.document] /\ ~Queue!Follows(it, rs).retrying
  <1> DEFINE more == [it EXCEPT !.samples = @ + 1]
             next == [it EXCEPT !.status = rs[it.document], !.retrying = FALSE, !.samples = 0]
  <1>1. CASE it.document = 0 \/ it.status = "uploading" \/ it.document \notin DOMAIN rs
        <2>1. Queue!Follows(it, rs) = it
              BY <1>1 DEF Queue!Follows, Item
        <2> QED BY <1>1, <2>1
  <1>2. CASE it.document \in DOMAIN rs /\ it.status # "uploading" /\ it.document # 0
        <2>1. rs[it.document] \in DocumentStatus /\ it.document <= Len(rs)
              BY <1>2
        <2>2. \/ Queue!Follows(it, rs) = more /\ it.retrying
              \/ Queue!Follows(it, rs) = next
              BY <1>2, <2>1 DEF Queue!Follows
        <2>3. /\ more \in Item /\ next \in Item
              /\ more.document = it.document /\ next.document = it.document
              /\ more.status = it.status /\ more.retrying = it.retrying
              /\ next.status = rs[it.document] /\ ~next.retrying
              <3>1. rs[it.document] \in Queue!Statuses /\ it.samples + 1 \in Nat
                    BY <2>1 DEF Item, DocumentStatus, Queue!Statuses
              <3> QED BY <3>1 DEF Item
        <2>4. rs[it.document] # "uploading"
              BY <2>1 DEF DocumentStatus
        <2> HIDE DEF more, next
        <2> QED BY <1>2, <2>1, <2>2, <2>3, <2>4
  <1> QED BY <1>1, <1>2 DEF Item

LEMMA ListingShown ==
  ASSUME NEW it, NEW c, NEW ds, NEW ls, NEW f, NEW m, NEW q, NEW rs, NEW b, NEW rt,
         FileTyped(it, c, ds, ls, q, rs, b), FileInv(f, it, c, ds, ls, m, q, rs, b), q = "read"
  PROVE  /\ FileInv(f, Queue!Follows(it, rs), c, ds, rs, m, "idle", rt, b)
         /\ rs = ls => FileInv(f, it, c, ds, rs, m, "idle", rt, b)
  <1> DEFINE next == Queue!Follows(it, rs)
  <1>1. it \in Item /\ rs \in Seq(DocumentStatus) /\ ls \in Seq(DocumentStatus)
        /\ ds \in Seq(DocumentStatus)
        BY DEF FileTyped
  <1>2. /\ next \in Item /\ next.document = it.document
        /\ next.status = "uploading" <=> it.status = "uploading"
        /\ it.document = 0 \/ it.status = "uploading" \/ it.document \notin DOMAIN rs => next = it
        /\ it.document \in DOMAIN rs /\ it.status # "uploading" =>
             \/ next.retrying /\ next.status = it.status
             \/ next.status = rs[it.document] /\ ~next.retrying
        BY <1>1, FollowsTyped
  <1>3. \A i \in DOMAIN rs : rs[i] \in DocumentStatus
        BY <1>1
  <1> HIDE DEF next
  <1>4. ItemFits(next, c, ds)
        BY <1>1, <1>2, <1>3 DEF FileInv, ItemFits, Item, Queue!NoItem, DocumentStatus
  <1>5. f \notin m => OnceOnly(next, c, ds, rs)
        <2> SUFFICES ASSUME f \notin m PROVE OnceOnly(next, c, ds, rs)
            OBVIOUS
        <2>1. OnceOnly(it, c, ds, ls) /\ Len(ls) <= Len(rs) /\ Len(rs) <= Len(ds)
              BY DEF FileInv, IsListing
        <2>2. ls # <<>> => rs # <<>>
              BY <1>1, <2>1
        <2>3. it = Queue!NoItem => next = Queue!NoItem
              BY <1>2 DEF Queue!NoItem
        <2>4. it.document = 1 /\ next.status # "parsing" => rs # <<>>
              <3>1. CASE 1 \in DOMAIN rs
                    BY <1>1, <3>1
              <3>2. CASE 1 \notin DOMAIN rs
                    BY <1>1, <1>2, <2>1, <2>2, <3>2 DEF OnceOnly
              <3> QED BY <3>1, <3>2
        <2> QED BY <1>2, <2>1, <2>2, <2>3, <2>4 DEF OnceOnly
  <1>6. IsListing(rs, ds, c)
        BY DEF FileInv
  <1>7. EndListed(next, ds, rs)
        BY <1>1, <1>2, <1>3 DEF EndListed, Queue!Unfinished, Item
  <1>8. WillBeListed(next, rs, "idle", rt, b)
        BY <1>1, <1>2, <1>3 DEF FileInv, WillBeListed, IsListing
  <1>9. rs = ls => /\ ItemFits(it, c, ds) /\ (f \notin m => OnceOnly(it, c, ds, rs))
                   /\ EndListed(it, ds, rs)
                   /\ WillBeListed(it, rs, "idle", rt, b)
        BY DEF FileInv, WillBeListed
  <1> QED BY <1>4, <1>5, <1>6, <1>7, <1>8, <1>9 DEF FileInv, next

LEMMA QueueInit == Queue!Init => QueueInv
  <1> SUFFICES ASSUME Queue!Init PROVE QueueInv
      OBVIOUS
  <1>1. QueueTyped
        <2>1. <<>> \in Seq(DocumentStatus) /\ Queue!NoItem \in Item /\ "none" \in CallStates
              BY NoItemTyped DEF CallStates
        <2>2. Queue!NoDocuments \in [Files -> Seq(DocumentStatus)]
              BY <2>1 DEF Queue!NoDocuments
        <2> QED BY <2>1, <2>2 DEF Queue!Init, QueueTyped, Queue!NotListing
  <1>2. FilesFit
        BY DEF Queue!Init, FilesFit, FileInv, ItemFits, OnceOnly, IsListing, EndListed,
           WillBeListed, Queue!NoItem,
               Queue!NoDocuments, Queue!NotListing, Queue!Unfinished
  <1>3. Queue!With({"uploading"}) = {}
        BY DEF Queue!Init, Queue!With, Queue!NoItem
  <1> QED BY <1>1, <1>2, <1>3, FS_EmptySet, ScreensAssumption DEF QueueInv, RoomKept,
     Queue!UploadQueueAssumption

LEMMA FilesTyped ==
  ASSUME QueueInv, NEW f \in Files
  PROVE  /\ FileTyped(items[f], calls[f], documents[f], seen[f], listing.phase, listing.rows[f],
                      refreshing)
         /\ FileInv(f, items[f], calls[f], documents[f], seen[f], missed, listing.phase,
                    listing.rows[f], refreshing)
  BY DEF QueueInv, QueueTyped, FilesFit, FileTyped

LEMMA OneFile ==
  ASSUME QueueInv, NEW f \in Files,
         \A g \in Files \ {f} : /\ items'[g] = items[g] /\ calls'[g] = calls[g]
                                /\ documents'[g] = documents[g] /\ (g \in missed' <=> g \in missed),
         seen' = seen, listing' = listing, refreshing' = refreshing,
         FileInv(f, items'[f], calls'[f], documents'[f], seen[f], missed', listing.phase,
                 listing.rows[f], refreshing)
  PROVE  FilesFit'
  <1> SUFFICES ASSUME NEW g \in Files
               PROVE  FileInv(g, items'[g], calls'[g], documents'[g], seen'[g], missed',
                              listing'.phase, listing'.rows[g], refreshing')
      BY DEF FilesFit
  <1>1. CASE g = f
        BY <1>1
  <1>2. CASE g # f
        BY <1>2 DEF QueueInv, FilesFit, FileInv
  <1> QED BY <1>1, <1>2

LEMMA RoomStays ==
  ASSUME QueueInv, \A f \in Files : items'[f].status = "uploading" => items[f].status = "uploading"
  PROVE  RoomKept'
  <1>1. Queue!With({"uploading"})' \subseteq Queue!With({"uploading"})
        /\ Queue!With({"uploading"}) \subseteq Files
        BY DEF Queue!With
  <1>2. IsFiniteSet(Queue!With({"uploading"}))
        BY <1>1, ScreensAssumption, FS_Subset, SameFinite DEF Queue!UploadQueueAssumption
  <1>3. /\ Cardinality(Queue!With({"uploading"})') <= Cardinality(Queue!With({"uploading"}))
        /\ Cardinality(Queue!With({"uploading"})') \in Nat
           /\ Cardinality(Queue!With({"uploading"})) \in Nat
        BY <1>1, <1>2, FS_Subset, FS_CardinalityType
  <1>4. UploadConcurrency \in Nat
        BY ScreensAssumption DEF Queue!UploadQueueAssumption
  <1> QED BY <1>3, <1>4 DEF QueueInv, RoomKept

LEMMA ItemsChange ==
  ASSUME QueueInv, NEW f \in Files,
         \/ Queue!AddFile(f) \/ Queue!Remove(f) \/ Queue!Retry(f)
  PROVE  QueueInv'
  <1>1. /\ FileTyped(items[f], calls[f], documents[f], seen[f], listing.phase, listing.rows[f],
                      refreshing)
        /\ FileInv(f, items[f], calls[f], documents[f], seen[f], missed, listing.phase,
                    listing.rows[f], refreshing)
        BY FilesTyped
  <1>2. \A g \in Files \ {f} : items'[g] = items[g]
        BY DEF Queue!AddFile, Queue!Remove, Queue!Retry, QueueInv, QueueTyped
  <1>3. /\ items' \in [Files -> Item] /\ running' \in BOOLEAN
        /\ UNCHANGED <<calls, documents, seen, listing, refreshing, missed, lost>>
        <2>1. items[f] \in Item /\ items \in [Files -> Item] /\ running \in BOOLEAN
              BY DEF QueueInv, QueueTyped
        <2>2. [items[f] EXCEPT !.status = "waiting", !.samples = 0] \in Item
              BY <2>1 DEF Item, Queue!Statuses
        <2>3. /\ items' = [items EXCEPT ![f] = items'[f]] /\ items'[f] \in Item
              /\ running' \in BOOLEAN
              BY <2>1, <2>2, NoItemTyped DEF Queue!AddFile, Queue!Remove, Queue!Retry
        <2>4. UNCHANGED <<calls, documents, seen, listing, refreshing, missed, lost>>
              BY DEF Queue!AddFile, Queue!Remove, Queue!Retry, Queue!UnchangedBase
        <2> QED BY <2>1, <2>3, <2>4
  <1>4. /\ FileInv(f, items'[f], calls[f], documents[f], seen[f], missed, listing.phase,
                   listing.rows[f], refreshing)
        /\ items'[f].status # "uploading"
        <2>1. CASE Queue!AddFile(f)
              <3>1. items[f] = Queue!NoItem /\ seen[f] = <<>> /\ items'[f] = Queue!NewItem
                    BY <2>1 DEF Queue!AddFile, Queue!Duplicate, QueueInv, QueueTyped
              <3>2. Queue!NewItem.status = "waiting"
                    BY DEF Queue!NewItem, Queue!NoItem
              <3>3. FileInv(f, Queue!NewItem, calls[f], documents[f], seen[f], missed, listing.phase,
                            listing.rows[f], refreshing)
                    BY <1>1, <3>1, ItemsMove
              <3> QED BY <3>1, <3>2, <3>3
        <2>2. CASE Queue!Remove(f)
              <3>1. items[f].status = "waiting" /\ items'[f] = Queue!NoItem
                    /\ Queue!NoItem.status = "none"
                    BY <2>2 DEF Queue!Remove, QueueInv, QueueTyped, Queue!NoItem
              <3> QED BY <1>1, <3>1, ItemsMove
        <2>3. CASE Queue!Retry(f)
              <3>1. /\ items[f].status = "failed"
                    /\ items'[f] = [items[f] EXCEPT !.status = "waiting", !.samples = 0]
                    BY <2>3 DEF Queue!Retry, QueueInv, QueueTyped
              <3>2. items'[f].status = "waiting"
                    BY <3>1 DEF QueueInv, QueueTyped, Item
              <3>3. FileInv(f, [items[f] EXCEPT !.status = "waiting", !.samples = 0], calls[f],
                            documents[f], seen[f], missed, listing.phase, listing.rows[f],
                            refreshing)
                    BY <1>1, <3>1, ItemsMove
              <3> QED BY <3>1, <3>2, <3>3
        <2> QED BY <2>1, <2>2, <2>3
  <1>5. FilesFit'
        BY <1>2, <1>3, <1>4, OneFile
  <1>6. RoomKept'
        BY <1>2, <1>4, RoomStays
  <1> QED BY <1>3, <1>5, <1>6 DEF QueueInv, QueueTyped

LEMMA CallsServed ==
  ASSUME QueueInv, NEW f \in Files, Queue!Uploads(f) \/ Queue!Reparses(f)
  PROVE  QueueInv'
  <1>1. /\ FileTyped(items[f], calls[f], documents[f], seen[f], listing.phase, listing.rows[f],
                     refreshing)
        /\ FileInv(f, items[f], calls[f], documents[f], seen[f], missed, listing.phase,
                   listing.rows[f], refreshing)
        BY FilesTyped
  <1>2. UNCHANGED <<items, running, refreshing, seen, listing>>
        BY DEF Queue!Uploads, Queue!Reparses
  <1>3. /\ \A g \in Files \ {f} : /\ calls'[g] = calls[g] /\ documents'[g] = documents[g]
                                  /\ (g \in missed' <=> g \in missed)
        /\ calls' \in [Files -> CallStates] /\ documents' \in [Files -> Seq(DocumentStatus)]
        /\ missed' \subseteq Files /\ lost' \in Nat
        /\ FileInv(f, items[f], calls'[f], documents'[f], seen[f], missed', listing.phase,
                   listing.rows[f], refreshing)
        <2>1. CASE Queue!Uploads(f) /\ documents' = [documents EXCEPT ![f] = Append(@, "parsing")]
                   /\ calls' = [calls EXCEPT ![f] = "uploaded"] /\ UNCHANGED <<missed, lost>>
              <3>1. /\ calls[f] = "upload" /\ calls'[f] = "uploaded"
                    /\ documents'[f] = Append(documents[f], "parsing")
                    /\ documents[f] \in Seq(DocumentStatus) /\ "parsing" \in DocumentStatus
                    BY <2>1 DEF Queue!Uploads, QueueInv, QueueTyped, DocumentStatus
              <3>2. FileInv(f, items[f], calls'[f], documents'[f], seen[f], missed, listing.phase,
                            listing.rows[f], refreshing)
                    <4>1. FileInv(f, items[f], "uploaded", Append(documents[f], "parsing"), seen[f],
                                  missed, listing.phase, listing.rows[f], refreshing)
                          BY <1>1, <3>1, CallsMove
                    <4> QED BY <3>1, <4>1
              <3> QED BY <2>1, <3>1, <3>2 DEF QueueInv, QueueTyped, CallStates
        <2>2. CASE Queue!Uploads(f) /\ documents' = [documents EXCEPT ![f] = Append(@, "uploaded")]
                   /\ calls' = [calls EXCEPT ![f] = "refused"] /\ missed' = missed \cup {f}
                   /\ Queue!LosesAnswer
              <3>1. /\ calls[f] = "upload" /\ calls'[f] = "refused"
                    /\ documents'[f] = Append(documents[f], "uploaded")
                    /\ documents[f] \in Seq(DocumentStatus) /\ "uploaded" \in DocumentStatus
                    BY <2>2 DEF Queue!Uploads, QueueInv, QueueTyped, DocumentStatus
              <3>2. FileInv(f, items[f], calls'[f], documents'[f], seen[f], missed', listing.phase,
                            listing.rows[f], refreshing)
                    <4>1. FileInv(f, items[f], "refused", Append(documents[f], "uploaded"), seen[f],
                                  missed \cup {f}, listing.phase, listing.rows[f], refreshing)
                          BY <1>1, <3>1, CallsMove
                    <4> QED BY <2>2, <3>1, <4>1
              <3> QED BY <2>2, <3>1, <3>2 DEF QueueInv, QueueTyped, CallStates, Queue!LosesAnswer
        <2>3. CASE Queue!Reparses(f)
              <3>1. /\ calls[f] = "retry" /\ UNCHANGED <<missed, lost>>
                    /\ documents \in [Files -> Seq(DocumentStatus)]
                       /\ calls \in [Files -> CallStates]
                    BY <2>3 DEF Queue!Reparses, QueueInv, QueueTyped
              <3>2. items[f].document \in DOMAIN documents[f]
                    BY <1>1, <3>1, CallsMove
              <3>3. \/ /\ documents' = [documents EXCEPT ![f] = [@ EXCEPT ![items[f].document] = "parsing"]]
                       /\ calls' = [calls EXCEPT ![f] = "restarted"]
                    \/ documents' = documents /\ calls' = [calls EXCEPT ![f] = "refused"]
                    BY <2>3 DEF Queue!Reparses
              <3>4. [documents[f] EXCEPT ![items[f].document] = "parsing"] \in Seq(DocumentStatus)
                    BY <3>1, <3>2 DEF DocumentStatus
              <3>5. FileInv(f, items[f], calls'[f], documents'[f], seen[f], missed, listing.phase,
                            listing.rows[f], refreshing)
                    <4>1. /\ FileInv(f, items[f], "refused", documents[f], seen[f], missed,
                                     listing.phase, listing.rows[f], refreshing)
                          /\ FileInv(f, items[f], "restarted",
                                     [documents[f] EXCEPT ![items[f].document] = "parsing"],
                                     seen[f], missed, listing.phase, listing.rows[f], refreshing)
                          BY <1>1, <3>1, CallsMove
                    <4> QED BY <3>1, <3>3, <4>1
              <3> QED BY <3>1, <3>3, <3>4, <3>5 DEF CallStates, QueueInv, QueueTyped
        <2> QED BY <2>1, <2>2, <2>3 DEF Queue!Uploads
  <1>4. FilesFit'
        BY <1>2, <1>3, OneFile
  <1>5. RoomKept'
        BY <1>2, RoomStays
  <1> QED BY <1>2, <1>3, <1>4, <1>5 DEF QueueInv, QueueTyped

LEMMA CallsAnswered ==
  ASSUME QueueInv, NEW f \in Files, Queue!UploadAnswered(f) \/ Queue!CallFails(f)
  PROVE  QueueInv'
  <1>1. /\ FileTyped(items[f], calls[f], documents[f], seen[f], listing.phase, listing.rows[f],
                     refreshing)
        /\ FileInv(f, items[f], calls[f], documents[f], seen[f], missed, listing.phase,
                   listing.rows[f], refreshing)
        /\ items[f] \in Item /\ documents[f] \in Seq(DocumentStatus)
        BY FilesTyped DEF FileTyped
  <1>2. /\ UNCHANGED <<running, documents, seen, listing>>
        /\ calls[f] # "none" /\ calls' = [calls EXCEPT ![f] = "none"] /\ calls'[f] = "none"
        BY DEF Queue!UploadAnswered, Queue!CallFails, Queue!UnchangedBase, QueueInv, QueueTyped
  <1>3. CASE Queue!UploadAnswered(f)
        <2> DEFINE next == [status |-> "parsing", document |-> Len(documents[f]),
                            retrying |-> FALSE, samples |-> 0]
        <2>1. /\ calls[f] = "uploaded" /\ items' = [items EXCEPT ![f] = next]
              /\ refreshing' = (refreshing \/ Queue!RefreshesBatch(items[f]))
              /\ UNCHANGED <<missed, lost>>
              BY <1>3 DEF Queue!UploadAnswered, Queue!UnchangedBase
        <2>2. FileInv(f, next, "none", documents[f], seen[f], missed, listing.phase,
                      listing.rows[f], TRUE) /\ Queue!RefreshesBatch(items[f])
              BY <1>1, <2>1, AnsweredCalls
        <2>3. next \in Item /\ next.status # "uploading" /\ refreshing' = TRUE
              <3>1. Len(documents[f]) \in Nat
                    BY <1>1
              <3>2. next \in Item /\ next.status # "uploading"
                    BY <3>1 DEF Item, Queue!Statuses
              <3> HIDE DEF next
              <3> QED BY <2>1, <2>2, <3>2
        <2>4. items'[f] = next /\ \A g \in Files \ {f} : items'[g] = items[g]
              /\ calls'[g] = calls[g]
              BY <1>2, <2>1 DEF QueueInv, QueueTyped
        <2> HIDE DEF next
        <2>5. FilesFit'
              <3> SUFFICES ASSUME NEW g \in Files
                           PROVE  FileInv(g, items'[g], calls'[g], documents[g], seen[g], missed,
                                          listing.phase, listing.rows[g], TRUE)
                  BY <1>2, <2>1, <2>3 DEF FilesFit
              <3>1. CASE g = f
                    BY <3>1, <1>2, <2>2, <2>4
              <3>2. CASE g # f
                    <4>1. FileInv(g, items[g], calls[g], documents[g], seen[g], missed,
                                  listing.phase, listing.rows[g], TRUE)
                          BY FilesTyped, AsksAnew
                    <4> QED BY <3>2, <4>1, <2>4
              <3> QED BY <3>1, <3>2
        <2>6. RoomKept'
              BY <2>3, <2>4, RoomStays
        <2> QED BY <1>2, <2>1, <2>3, <2>5, <2>6 DEF QueueInv, QueueTyped, CallStates
  <1>4. CASE Queue!CallFails(f)
        <2>1. /\ items' = [items EXCEPT ![f] = Queue!FailedItem(@)] /\ refreshing' = refreshing
              /\ \/ missed' = missed /\ calls[f] # "uploaded"
                 \/ missed' = missed \cup {f} /\ calls[f] = "uploaded"
              /\ lost' \in Nat
              BY <1>4 DEF Queue!CallFails, Queue!LosesAnswer, QueueInv, QueueTyped
        <2>2. Queue!FailedItem(items[f]) \in Item /\ Queue!FailedItem(items[f]).status # "uploading"
              BY <1>1 DEF Queue!FailedItem, Item, Queue!Statuses
        <2>3. /\ items'[f] = Queue!FailedItem(items[f])
              /\ \A g \in Files \ {f} : items'[g] = items[g] /\ calls'[g] = calls[g]
                                        /\ (g \in missed' <=> g \in missed)
              BY <1>2, <2>1 DEF QueueInv, QueueTyped
        <2>4. FileInv(f, items'[f], calls'[f], documents'[f], seen[f], missed', listing.phase,
                      listing.rows[f], refreshing)
              <3>1. calls[f] # "uploaded" =>
                      FileInv(f, Queue!FailedItem(items[f]), "none", documents[f], seen[f], missed,
                              listing.phase, listing.rows[f], refreshing)
                    BY <1>1, <1>2, AnsweredCalls
              <3>2. calls[f] = "uploaded" =>
                      FileInv(f, Queue!FailedItem(items[f]), "none", documents[f], seen[f],
                              missed \cup {f}, listing.phase, listing.rows[f], refreshing)
                    BY <1>1, <1>2, AnsweredCalls
              <3> QED BY <1>2, <2>1, <2>3, <3>1, <3>2
        <2>5. FilesFit'
              BY <1>2, <2>1, <2>3, <2>4, OneFile
        <2>6. RoomKept'
              BY <2>2, <2>3, RoomStays
        <2> QED BY <1>2, <2>1, <2>2, <2>5, <2>6 DEF QueueInv, QueueTyped, CallStates
  <1> QED BY <1>3, <1>4

LEMMA ListingAsked ==
  ASSUME QueueInv, listing' = Queue!Listing, UNCHANGED <<documents, seen, missed>>,
         refreshing' \in BOOLEAN,
         \A f \in Files : \E b \in BOOLEAN :
           FileInv(f, items'[f], calls'[f], documents[f], seen[f], missed, "asked",
                   listing.rows[f], b)
  PROVE  /\ FilesFit'
         /\ listing' \in [phase : {"idle", "asked", "read"}, rows : [Files -> Seq(DocumentStatus)]]
  <1>1. listing'.phase = "asked" /\ listing'.rows = Queue!NoDocuments
        BY DEF Queue!Listing, Queue!NotListing
  <1>2. Queue!NoDocuments \in [Files -> Seq(DocumentStatus)]
        BY DEF Queue!NoDocuments
  <1>3. listing' = [phase |-> "asked", rows |-> Queue!NoDocuments]
        BY DEF Queue!Listing, Queue!NotListing
  <1>4. ASSUME NEW f \in Files
        PROVE  FileInv(f, items'[f], calls'[f], documents[f], seen[f], missed, "asked",
                       Queue!NoDocuments[f], refreshing')
        BY DEF FileInv, WillBeListed
  <1> QED BY <1>1, <1>2, <1>3, <1>4 DEF FilesFit

LEMMA RetriesAnswered ==
  ASSUME QueueInv, NEW f \in Files, Queue!RetryAnswered(f)
  PROVE  QueueInv'
  <1> DEFINE next == [items[f] EXCEPT !.status = "parsing", !.retrying = TRUE, !.samples = 0]
  <1>1. /\ FileTyped(items[f], calls[f], documents[f], seen[f], listing.phase, listing.rows[f],
                     refreshing)
        /\ FileInv(f, items[f], calls[f], documents[f], seen[f], missed, listing.phase,
                   listing.rows[f], refreshing)
        /\ items[f] \in Item
        BY FilesTyped DEF FileTyped
  <1>2. /\ UNCHANGED <<running, refreshing, documents, seen, missed, lost>>
        /\ calls[f] = "restarted" /\ calls' = [calls EXCEPT ![f] = "none"] /\ calls'[f] = "none"
        /\ listing' = Queue!Listing /\ items' = [items EXCEPT ![f] = next] /\ items'[f] = next
        /\ refreshing \in BOOLEAN
        BY DEF Queue!RetryAnswered, Queue!UnchangedBase, QueueInv, QueueTyped
  <1>3. \A g \in Files \ {f} : items'[g] = items[g] /\ calls'[g] = calls[g]
        BY <1>2 DEF QueueInv, QueueTyped
  <1>4. next \in Item /\ next.status # "uploading"
        BY <1>1 DEF Item, Queue!Statuses
  <1>5. FileInv(f, next, "none", documents[f], seen[f], missed, "asked", listing.rows[f],
                TRUE)
        BY <1>1, <1>2, AnsweredCalls
  <1> HIDE DEF next
  <1>6. ASSUME NEW g \in Files
        PROVE  FileInv(g, items'[g], calls'[g], documents[g], seen[g], missed, "asked",
                       listing.rows[g], TRUE)
        <2>1. CASE g = f
              BY <2>1, <1>2, <1>5
        <2>2. CASE g # f
              <3>1. FileInv(g, items[g], calls[g], documents[g], seen[g], missed, "asked",
                            listing.rows[g], TRUE)
                    BY <1>2, FilesTyped, AsksAnew
              <3> QED BY <2>2, <3>1, <1>3
        <2> QED BY <2>1, <2>2
  <1>7. /\ FilesFit'
        /\ listing' \in [phase : {"idle", "asked", "read"}, rows : [Files -> Seq(DocumentStatus)]]
        BY <1>2, <1>6, ListingAsked
  <1>8. RoomKept'
        BY <1>2, <1>3, <1>4, RoomStays
  <1> QED BY <1>2, <1>4, <1>7, <1>8 DEF QueueInv, QueueTyped, CallStates

LEMMA ListingBegins ==
  ASSUME QueueInv, Queue!BatchRefresh \/ Queue!Polls
  PROVE  QueueInv'
  <1>1. /\ UNCHANGED <<items, running, calls, documents, seen, missed, lost>>
        /\ listing' = Queue!Listing /\ refreshing' \in BOOLEAN
        BY DEF Queue!BatchRefresh, Queue!Polls, Queue!UnchangedBase, QueueInv, QueueTyped
  <1>2. ASSUME NEW g \in Files
        PROVE  FileInv(g, items[g], calls[g], documents[g], seen[g], missed, "asked",
                       listing.rows[g], TRUE)
        BY FilesTyped, AsksAnew
  <1>3. /\ FilesFit'
        /\ listing' \in [phase : {"idle", "asked", "read"}, rows : [Files -> Seq(DocumentStatus)]]
        BY <1>1, <1>2, ListingAsked
  <1>4. RoomKept'
        BY <1>1, RoomStays
  <1> QED BY <1>1, <1>3, <1>4 DEF QueueInv, QueueTyped

LEMMA ListingEnds ==
  ASSUME QueueInv, Queue!ListingReads \/ Queue!ListingArrives
  PROVE  QueueInv'
  <1>1. CASE Queue!ListingReads
        <2>1. /\ UNCHANGED <<items, running, refreshing, calls, documents, seen, missed, lost>>
              /\ listing.phase = "asked" /\ listing' = [phase |-> "read", rows |-> documents]
              BY <1>1 DEF Queue!ListingReads, Queue!UnchangedBase
        <2>2. ASSUME NEW g \in Files
              PROVE  FileInv(g, items[g], calls[g], documents[g], seen[g], missed, "read",
                             documents[g], refreshing)
              BY <2>1, FilesTyped, AsksAnew
        <2>3. FilesFit'
              BY <2>1, <2>2 DEF FilesFit
        <2>4. RoomKept'
              BY <2>1, RoomStays
        <2> QED BY <2>1, <2>3, <2>4 DEF QueueInv, QueueTyped
  <1>2. CASE Queue!ListingArrives
        <2>1. /\ UNCHANGED <<running, refreshing, calls, documents, missed, lost>>
              /\ listing.phase = "read" /\ listing' = Queue!NotListing /\ seen' = listing.rows
              /\ items' = IF listing.rows = seen THEN items
                          ELSE [f \in Files |-> Queue!Follows(items[f], listing.rows[f])]
              BY <1>2 DEF Queue!ListingArrives
        <2>2. /\ listing' = [phase |-> "idle", rows |-> Queue!NoDocuments]
              /\ Queue!NoDocuments \in [Files -> Seq(DocumentStatus)]
              BY <2>1 DEF Queue!NotListing, Queue!NoDocuments
        <2>3. /\ items \in [Files -> Item] /\ listing.rows \in [Files -> Seq(DocumentStatus)]
              BY DEF QueueInv, QueueTyped
        <2>4. ASSUME NEW g \in Files
              PROVE  /\ Queue!Follows(items[g], listing.rows[g]) \in Item
                     /\ Queue!Follows(items[g], listing.rows[g]).status = "uploading"
                          <=> items[g].status = "uploading"
              BY <2>3, FollowsTyped
        <2>5. items' \in [Files -> Item]
              BY <2>1, <2>3, <2>4
        <2>6. ASSUME NEW g \in Files
              PROVE  FileInv(g, items'[g], calls[g], documents[g], listing.rows[g], missed, "idle",
                             Queue!NoDocuments[g], refreshing)
              <3>1. FileInv(g, Queue!Follows(items[g], listing.rows[g]), calls[g], documents[g],
                            listing.rows[g], missed, "idle", Queue!NoDocuments[g], refreshing)
                    BY <2>1, FilesTyped, ListingShown
              <3>2. listing.rows[g] = seen[g] =>
                      FileInv(g, items[g], calls[g], documents[g],
                              listing.rows[g], missed, "idle", Queue!NoDocuments[g], refreshing)
                    BY <2>1, FilesTyped, ListingShown
              <3> QED BY <2>1, <3>1, <3>2
        <2>7. FilesFit'
              BY <2>1, <2>2, <2>6 DEF FilesFit
        <2>8. RoomKept'
              BY <2>1, <2>4, RoomStays
        <2> QED BY <2>1, <2>2, <2>3, <2>5, <2>7, <2>8 DEF QueueInv, QueueTyped
  <1> QED BY <1>1, <1>2

LEMMA UploadsStart ==
  ASSUME QueueInv, Queue!StartUploads
  PROVE  QueueInv'
  <1> DEFINE waiting == Queue!With({"waiting"})
             uploading == Queue!With({"uploading"})
             room == IF Cardinality(waiting) < Queue!Free THEN Cardinality(waiting) ELSE Queue!Free
  <1>1. /\ Queue!Free > 0
        /\ UNCHANGED <<running, refreshing, listing, documents, seen, lost, missed>>
        BY DEF Queue!StartUploads, Queue!UnchangedBase
  <1>2. PICK selected \in Queue!kSubset(room, waiting) :
          /\ items' = [f \in Files |->
                         IF f \in selected THEN [items[f] EXCEPT !.status = "uploading"] ELSE items[f]]
          /\ calls' = [f \in Files |-> IF f \in selected THEN Queue!CallOf(items[f]) ELSE calls[f]]
        BY SameCounts DEF Queue!StartUploads
  <1>3. waiting \subseteq Files /\ uploading \subseteq Files /\ waiting \cap uploading = {}
        BY DEF Queue!With
  <1>4. /\ IsFiniteSet(waiting) /\ IsFiniteSet(uploading)
        /\ Cardinality(waiting) \in Nat /\ Cardinality(uploading) \in Nat
        BY <1>3, ScreensAssumption, FS_Subset, FS_CardinalityType, SameFinite
           DEF Queue!UploadQueueAssumption
  <1>5. selected \subseteq waiting /\ Cardinality(selected) = room
        BY <1>2, SameCounts DEF Queue!kSubset
  <1>6. UploadConcurrency \in Nat /\ Queue!Free = UploadConcurrency - Cardinality(uploading)
        BY ScreensAssumption, SameCounts DEF Queue!UploadQueueAssumption, Queue!Free
  <1>7. room \in Nat /\ room <= Queue!Free
        BY <1>1, <1>4, <1>6
  <1>8. IsFiniteSet(selected)
        BY <1>4, <1>5, FS_Subset
  <1>9. items \in [Files -> Item] /\ calls \in [Files -> CallStates]
        BY DEF QueueInv, QueueTyped
  <1>10. \A f \in selected : /\ f \in Files /\ items[f].status = "waiting"
                             /\ [items[f] EXCEPT !.status = "uploading"] \in Item
                             /\ [items[f] EXCEPT !.status = "uploading"].status = "uploading"
                             /\ Queue!CallOf(items[f]) \in CallStates
        BY <1>3, <1>5, <1>9 DEF Queue!With, Item, Queue!Statuses, Queue!CallOf, CallStates
  <1>11. items' \in [Files -> Item] /\ calls' \in [Files -> CallStates]
        BY <1>2, <1>9, <1>10
  <1>12. uploading' = uploading \cup selected
        BY <1>2, <1>3, <1>5, <1>9, <1>10 DEF Queue!With
  <1>13. Cardinality(uploading \cup selected) = Cardinality(uploading) + room - Cardinality({})
        <2>1. uploading \cap selected = {}
              BY <1>3, <1>5
        <2> QED BY <2>1, <1>4, <1>5, <1>8, FS_Union
  <1>14. RoomKept'
        <2> HIDE DEF room, uploading
        <2>1. Cardinality(uploading') = Cardinality(uploading) + room
              BY <1>4, <1>7, <1>12, <1>13, FS_EmptySet
        <2>2. Cardinality(uploading') <= UploadConcurrency
              BY <1>4, <1>6, <1>7, <2>1
        <2> QED BY <2>2 DEF RoomKept, uploading
  <1>15. ASSUME NEW f \in Files
         PROVE  FileInv(f, items'[f], calls'[f], documents[f], seen[f], missed, listing.phase,
                        listing.rows[f], refreshing)
        <2>1. CASE f \in selected
              <3>1. FileInv(f, [items[f] EXCEPT !.status = "uploading"], Queue!CallOf(items[f]),
                            documents[f], seen[f], missed, listing.phase, listing.rows[f],
                            refreshing)
                    BY <1>10, <2>1, FilesTyped, CallsMove
              <3> QED BY <1>2, <2>1, <3>1
        <2>2. CASE f \notin selected
              BY <1>2, <2>2, FilesTyped
        <2> QED BY <2>1, <2>2
  <1>16. FilesFit'
        BY <1>1, <1>15 DEF FilesFit
  <1> QED BY <1>1, <1>11, <1>14, <1>16 DEF QueueInv, QueueTyped

LEMMA OthersOfQueue ==
  ASSUME QueueInv, \/ Queue!Start \/ Queue!StopsRunning \/ Queue!ClearCompleted
                   \/ \E f \in Files : Queue!ParsingEnds(f)
  PROVE  QueueInv'
  <1>1. CASE Queue!Start \/ Queue!StopsRunning
        <2>1. /\ UNCHANGED <<items, refreshing, calls, documents, seen, listing, lost, missed>>
              /\ running' \in BOOLEAN
              BY <1>1 DEF Queue!Start, Queue!StopsRunning, Queue!UnchangedBase
        <2>2. RoomKept'
              BY <2>1, RoomStays
        <2> QED BY <2>1, <2>2 DEF QueueInv, QueueTyped, FilesFit
  <1>2. CASE Queue!ClearCompleted
        <2>1. /\ UNCHANGED <<running, refreshing, calls, documents, seen, listing, lost, missed>>
              /\ items' = [f \in Files |-> IF items[f].status = "completed" THEN Queue!NoItem ELSE items[f]]
              /\ items \in [Files -> Item]
              BY <1>2 DEF Queue!ClearCompleted, Queue!UnchangedBase, QueueInv, QueueTyped
        <2>2. items' \in [Files -> Item] /\ Queue!NoItem.status # "uploading"
              BY <2>1, NoItemTyped DEF Queue!NoItem
        <2>3. ASSUME NEW f \in Files
              PROVE  FileInv(f, items'[f], calls[f], documents[f], seen[f], missed,
                             listing.phase, listing.rows[f], refreshing)
              <3>1. items[f].status = "completed" =>
                      FileInv(f, Queue!NoItem, calls[f], documents[f], seen[f], missed,
                              listing.phase, listing.rows[f], refreshing)
                    BY FilesTyped, ItemsMove
              <3> QED BY <2>1, <3>1, FilesTyped
        <2>4. FilesFit'
              BY <2>1, <2>3 DEF FilesFit
        <2>5. RoomKept'
              BY <2>1, <2>2, RoomStays
        <2> QED BY <2>1, <2>2, <2>4, <2>5 DEF QueueInv, QueueTyped
  <1>3. ASSUME NEW f \in Files, Queue!ParsingEnds(f)
        PROVE  QueueInv'
        <2>1. UNCHANGED <<items, running, refreshing, calls, seen, listing, lost, missed>>
              BY <1>3 DEF Queue!ParsingEnds
        <2>2. PICK i \in DOMAIN documents[f], e \in {"completed", "failed"} :
                /\ documents[f][i] = "parsing"
                /\ documents' = [documents EXCEPT ![f] = [@ EXCEPT ![i] = e]]
              BY <1>3 DEF Queue!ParsingEnds
        <2>3. documents \in [Files -> Seq(DocumentStatus)]
              BY DEF QueueInv, QueueTyped
        <2>4. [documents[f] EXCEPT ![i] = e] \in Seq(DocumentStatus)
              BY <2>2, <2>3 DEF DocumentStatus
        <2>5. /\ documents' \in [Files -> Seq(DocumentStatus)]
              /\ documents'[f] = [documents[f] EXCEPT ![i] = e]
              /\ \A g \in Files \ {f} : documents'[g] = documents[g]
              BY <2>2, <2>3, <2>4
        <2>6. FileInv(f, items[f], calls[f], [documents[f] EXCEPT ![i] = e], seen[f], missed,
                      listing.phase, listing.rows[f], refreshing)
              BY <2>2, FilesTyped, AsksAnew
        <2>7. FilesFit'
              BY <2>1, <2>5, <2>6, OneFile
        <2>8. RoomKept'
              BY <2>1, RoomStays
        <2> QED BY <2>1, <2>5, <2>7, <2>8 DEF QueueInv, QueueTyped
  <1> QED BY <1>1, <1>2, <1>3

LEMMA QueueMoves == QueueInv /\ Queue!Next => QueueInv'
  <1> SUFFICES ASSUME QueueInv, Queue!Next PROVE QueueInv'
      OBVIOUS
  <1>1. ASSUME NEW f \in Files,
               \/ Queue!AddFile(f) \/ Queue!Remove(f) \/ Queue!Retry(f) \/ Queue!Uploads(f)
                  \/ Queue!Reparses(f)
               \/ Queue!UploadAnswered(f) \/ Queue!RetryAnswered(f) \/ Queue!CallFails(f)
                  \/ Queue!ParsingEnds(f)
        PROVE  QueueInv'
        BY <1>1, ItemsChange, CallsServed, CallsAnswered, RetriesAnswered, OthersOfQueue
  <1> QED BY <1>1, UploadsStart, ListingBegins, ListingEnds, OthersOfQueue DEF Queue!Next

LEMMA QueueKept == ASSUME QueueInv, [Queue!Next]_Queue!vars PROVE QueueInv'
  <1>1. CASE Queue!Next
        BY <1>1, QueueMoves
  <1>2. CASE UNCHANGED Queue!vars
        BY <1>2 DEF Queue!vars, QueueInv, QueueTyped, FilesFit, RoomKept, Queue!With
  <1> QED BY <1>1, <1>2

LEMMA QueueFollows ==
  ASSUME QueueInv
  PROVE  Queue!TypeOK /\ Queue!CallsAreCounted /\ Queue!UploadedOnce /\ Queue!ParsingIsFollowed
  <1>1. \A f \in Files :
          /\ FileTyped(items[f], calls[f], documents[f], seen[f], listing.phase, listing.rows[f],
                     refreshing)
          /\ FileInv(f, items[f], calls[f], documents[f], seen[f], missed, listing.phase,
                     listing.rows[f], refreshing)
        BY FilesTyped
  <1>2. Queue!TypeOK
        BY <1>1 DEF Queue!TypeOK, QueueInv, QueueTyped, FileTyped, FileInv, ItemFits, IsListing,
           Item,
                    CallStates
  <1>3. Queue!CallsAreCounted
        BY <1>1, SameCounts DEF Queue!CallsAreCounted, QueueInv, RoomKept, FileInv, ItemFits,
           Queue!With
  <1>4. Queue!UploadedOnce
        <2> SUFFICES ASSUME NEW f \in Files, f \notin missed PROVE Len(documents[f]) <= 1
            BY DEF Queue!UploadedOnce
        <2>1. documents[f] \in Seq(DocumentStatus) /\ (documents[f] # <<>> => Len(documents[f]) = 1)
              BY <1>1 DEF FileInv, OnceOnly, FileTyped
        <2>2. CASE documents[f] = <<>>
              <3>1. Len(documents[f]) = 0
                    BY <2>2
              <3> QED BY <3>1
        <2>3. CASE documents[f] # <<>>
              <3>1. Len(documents[f]) = 1
                    BY <2>1, <2>3
              <3> QED BY <3>1
        <2> QED BY <2>2, <2>3
  <1>5. Queue!ParsingIsFollowed
        <2> SUFFICES ASSUME NEW f \in Files, Queue!Unfinished(items[f].status), ~Queue!Polling,
                            ~refreshing, listing.phase = "idle"
                     PROVE  Queue!EndIsKnown(f)
            BY DEF Queue!ParsingIsFollowed
        <2>1. ~items[f].retrying
              BY DEF Queue!Polling, Queue!Busy
        <2>2. items[f].document \in DOMAIN seen[f]
              BY <1>1 DEF FileInv, WillBeListed
        <2>3. ~Queue!Unfinished(seen[f][items[f].document])
              BY <2>2 DEF Queue!Polling
        <2> QED BY <1>1, <2>1, <2>2, <2>3 DEF FileInv, EndListed, Queue!EndIsKnown
  <1> QED BY <1>2, <1>3, <1>4, <1>5

-----------------------------------------------------------------------------
(* ChatScreen.  The states a message passes through have an order, and nothing the
   screen, an event, a snapshot or an answer holds is later in it than what is stored. *)

AnyMessage == {m \in [status : {"none"} \cup Chat!Active \cup Chat!Terminal, stamp : Nat] :
                 m.status = "none" => m = Chat!NoMessage}
Change == [turn : Chat!Turns, message : AnyMessage \ {Chat!NoMessage}]
Rows == [Chat!Turns -> AnyMessage]

(* The states a message passes through, in order *)
Version(m) == IF m.status = "none" THEN 0 ELSE 1 + 3 * m.stamp + Chat!MessageStatusOrder(m.status)

ChatTyped ==
  /\ kept \in Rows /\ shown \in Rows /\ due \subseteq Change /\ journal \in Seq(Change)
  /\ feed \in [state : {"closed", "open", "broken", "refused"}, at : Nat]
  /\ feed.at <= Len(journal)
  /\ fetch \in [phase : {"idle", "asked", "read"}, rows : Rows]
  /\ answer \in [phase : {"none", "sent", "retry", "accepted"}, turn : Chat!Turns \cup {0},
                 message : AnyMessage]
  /\ answer.phase \in {"retry", "accepted"} => answer.turn \in Chat!Turns
  /\ answer.phase = "accepted" => answer.message # Chat!NoMessage
  /\ overtaken \in BOOLEAN

(* Nothing that is anywhere is newer than what is stored *)
NotAhead(view) == \A t \in Chat!Turns : Version(view[t]) <= Version(kept[t])
NoNewer(change) == Version(change.message) <= Version(kept[change.turn])

StoredIsLast ==
  /\ NotAhead(shown) /\ NotAhead(fetch.rows)
  /\ \A change \in due : NoNewer(change)
  /\ \A k \in DOMAIN journal : NoNewer(journal[k])
  /\ answer.phase = "accepted" => Version(answer.message) <= Version(kept[answer.turn])

(* What is stored is published or about to be *)
Published ==
  \A t \in Chat!Turns : kept[t] # Chat!NoMessage =>
    LET change == [turn |-> t, message |-> kept[t]]
    IN  change \in due \/ \E k \in DOMAIN journal : journal[k] = change

(* Whether rows hold what the event said, or something newer *)
Holds(view, event) == Version(view[event.turn]) >= Version(event.message)

(* Of the events the stream has brought, none is missing from the screen, unless the last
   snapshot was overtaken, and none from both the screen and the snapshot that is about
   to replace it *)
EventsHeld ==
  \A k \in 1 .. feed.at :
    /\ ~overtaken => Holds(shown, journal[k])
    /\ fetch.phase = "read" => Holds(shown, journal[k]) \/ Holds(fetch.rows, journal[k])

ChatInv == ChatTyped /\ StoredIsLast /\ Published /\ EventsHeld

LEMMA Versions ==
  ASSUME NEW m \in AnyMessage, NEW n \in AnyMessage
  PROVE  /\ Version(m) \in Nat
         /\ Version(m) = 0 <=> m = Chat!NoMessage
         /\ m # Chat!NoMessage /\ n # Chat!NoMessage =>
              (Chat!Older(m, n) <=> Version(m) < Version(n))
         /\ Version(m) = Version(n) => m = n
  <1>1. ASSUME NEW k \in AnyMessage
        PROVE  /\ k.stamp \in Nat /\ k.status \in {"none", "pending", "streaming", "failed"}
               /\ Chat!MessageStatusOrder(k.status) \in 0 .. 2
               /\ k.status # "none" =>
                    Version(k) = 1 + 3 * k.stamp + Chat!MessageStatusOrder(k.status)
               /\ k.status = "none" => Version(k) = 0
               /\ k.status = "none" <=> k = Chat!NoMessage
               /\ k = [status |-> k.status, stamp |-> k.stamp]
        BY DEF AnyMessage, Version, Chat!MessageStatusOrder, Chat!NoMessage, Chat!Active,
           Chat!Terminal
  <1>2. \A k \in AnyMessage : Version(k) \in Nat /\ (Version(k) = 0 <=> k = Chat!NoMessage)
        BY <1>1
  <1>3. m # Chat!NoMessage /\ n # Chat!NoMessage => (Chat!Older(m, n) <=> Version(m) < Version(n))
        BY <1>1 DEF Chat!Older
  <1>4. Chat!MessageStatusOrder(m.status) = Chat!MessageStatusOrder(n.status) /\ m.status # "none"
          /\ n.status # "none" => m.status = n.status
        BY <1>1 DEF Chat!MessageStatusOrder
  <1>5. Version(m) = Version(n) /\ m # Chat!NoMessage /\ n # Chat!NoMessage => m = n
        <2> SUFFICES ASSUME Version(m) = Version(n), m # Chat!NoMessage, n # Chat!NoMessage PROVE m = n
            OBVIOUS
        <2>1. m.stamp = n.stamp
              /\ Chat!MessageStatusOrder(m.status) = Chat!MessageStatusOrder(n.status)
              BY <1>1
        <2> QED BY <1>1, <1>4, <2>1
  <1> QED BY <1>2, <1>3, <1>5

LEMMA Replaced ==
  ASSUME NEW view \in Rows, NEW t \in Chat!Turns, NEW m \in AnyMessage, m # Chat!NoMessage
  PROVE  /\ Chat!ReplaceMessage(view, t, m) \in Rows
         /\ \A u \in Chat!Turns : Version(Chat!ReplaceMessage(view, t, m)[u]) >= Version(view[u])
         /\ Version(Chat!ReplaceMessage(view, t, m)[t]) >= Version(m)
         /\ \A u \in Chat!Turns : \/ Chat!ReplaceMessage(view, t, m)[u] = view[u]
                                  \/ u = t /\ Chat!ReplaceMessage(view, t, m)[u] = m
  <1>1. \A u \in Chat!Turns : view[u] \in AnyMessage /\ Version(view[u]) \in Nat
        BY Versions DEF Rows
  <1>2. CASE Chat!KeepsExisting(m, view[t])
        BY <1>1, <1>2, Versions DEF Chat!ReplaceMessage, Chat!KeepsExisting
  <1>3. CASE ~Chat!KeepsExisting(m, view[t])
        <2>1. Chat!ReplaceMessage(view, t, m) = [view EXCEPT ![t] = m]
              BY <1>3 DEF Chat!ReplaceMessage
        <2>2. Version(view[t]) <= Version(m)
              BY <1>1, <1>3, Versions DEF Chat!KeepsExisting
        <2> QED BY <1>1, <2>1, <2>2, Versions DEF Rows
  <1> QED BY <1>2, <1>3

LEMMA ChatInit == Chat!Init => ChatInv
  <1> SUFFICES ASSUME Chat!Init PROVE ChatInv
      OBVIOUS
  <1>1. Chat!NoMessage \in AnyMessage /\ Version(Chat!NoMessage) = 0
        BY DEF AnyMessage, Chat!NoMessage, Version
  <1>2. Chat!NoFetch.rows \in Rows /\ [t \in Chat!Turns |-> Chat!NoMessage] \in Rows /\ fetch = Chat!NoFetch
        BY <1>1 DEF Chat!NoFetch, Rows, Chat!Init
  <1>3. ChatTyped
        <2>1. /\ fetch = [phase |-> "idle", rows |-> [t \in Chat!Turns |-> Chat!NoMessage]]
              /\ answer = [phase |-> "none", turn |-> 0, message |-> Chat!NoMessage]
              /\ feed = [state |-> "closed", at |-> 0] /\ journal = <<>> /\ due = {}
              /\ kept = [t \in Chat!Turns |-> Chat!NoMessage] /\ shown = kept /\ overtaken = FALSE
              BY DEF Chat!Init, Chat!NoFetch, Chat!NoAnswer
        <2>2. /\ kept \in Rows /\ shown \in Rows /\ fetch.rows \in Rows
              BY <1>2, <2>1
        <2>3. journal \in Seq(Change) /\ Len(journal) = 0
              BY <2>1
        <2>4. fetch \in [phase : {"idle", "asked", "read"}, rows : Rows]
              BY <2>1, <2>2
        <2>5. answer \in [phase : {"none", "sent", "retry", "accepted"}, turn : Chat!Turns \cup {0},
                          message : AnyMessage]
              BY <1>1, <2>1
        <2>6. /\ feed \in [state : {"closed", "open", "broken", "refused"}, at : Nat]
              /\ feed.at = 0 /\ answer.phase = "none"
              BY <2>1
        <2>7. feed.at <= Len(journal)
              BY <2>3, <2>6
        <2>8. due \subseteq Change /\ overtaken \in BOOLEAN
              BY <2>1
        <2>9. answer.phase \notin {"retry", "accepted"}
              BY <2>6
        <2> QED BY <2>2, <2>3, <2>4, <2>5, <2>6, <2>7, <2>8, <2>9 DEF ChatTyped
  <1>4. StoredIsLast /\ Published /\ EventsHeld
        BY <1>1, <1>2 DEF Chat!Init, StoredIsLast, Published, EventsHeld, Chat!NoFetch,
           Chat!NoAnswer, NotAhead
  <1> QED BY <1>3, <1>4 DEF ChatInv

LEMMA Newer ==
  ASSUME ChatTyped, StoredIsLast, NEW t \in Chat!Turns, NEW next \in AnyMessage \ {Chat!NoMessage},
         Version(kept[t]) < Version(next), Chat!Changes(t, next)
  PROVE  /\ kept' \in Rows /\ due' \subseteq Change /\ journal' = journal
         /\ \A u \in Chat!Turns : Version(kept[u]) <= Version(kept'[u])
         /\ kept'[t] = next
         /\ Published => Published'
         /\ \A change \in due' : Version(change.message) <= Version(kept'[change.turn])
  <1>1. /\ kept' = [kept EXCEPT ![t] = next] /\ journal' = journal
        /\ due' = due \cup {[turn |-> t, message |-> next]}
        BY DEF Chat!Changes
  <1>2. /\ kept \in Rows /\ due \subseteq Change /\ [turn |-> t, message |-> next] \in Change
        BY DEF ChatTyped, Change
  <1>3. \A u \in Chat!Turns : /\ kept[u] \in AnyMessage /\ Version(kept[u]) \in Nat
                              /\ u # t => kept'[u] = kept[u]
        BY <1>1, <1>2, Versions DEF Rows
  <1>4. kept' \in Rows /\ kept'[t] = next /\ Version(next) \in Nat
        BY <1>1, <1>2, Versions DEF Rows
  <1>5. \A u \in Chat!Turns : Version(kept[u]) <= Version(kept'[u])
        BY <1>3, <1>4
  <1>6. \A change \in due' : Version(change.message) <= Version(kept'[change.turn])
        <2> SUFFICES ASSUME NEW change \in due'
                     PROVE  Version(change.message) <= Version(kept'[change.turn])
            OBVIOUS
        <2>1. CASE change \in due
              <3>1. /\ change.turn \in Chat!Turns /\ change.message \in AnyMessage
                    /\ Version(change.message) <= Version(kept[change.turn])
                    BY <1>2, <2>1 DEF Change, StoredIsLast, NoNewer
              <3>2. Version(change.message) \in Nat
                    BY <3>1, Versions
              <3>3. kept'[change.turn] \in AnyMessage
                    BY <1>4, <3>1 DEF Rows
              <3>4. Version(kept'[change.turn]) \in Nat
                    BY <3>3, Versions
              <3> QED BY <1>3, <1>5, <3>1, <3>2, <3>4
        <2>2. CASE change = [turn |-> t, message |-> next]
              BY <1>4, <2>2
        <2> QED BY <1>1, <2>1, <2>2
  <1>7. Published => Published'
        BY <1>1, <1>3, <1>4 DEF Published
  <1> QED BY <1>1, <1>2, <1>4, <1>5, <1>6, <1>7

LEMMA TypedParts ==
  ASSUME ChatTyped
  PROVE  /\ \A t \in Chat!Turns : /\ kept[t] \in AnyMessage /\ Version(kept[t]) \in Nat
                                  /\ shown[t] \in AnyMessage /\ Version(shown[t]) \in Nat
                                  /\ fetch.rows[t] \in AnyMessage /\ Version(fetch.rows[t]) \in Nat
         /\ \A k \in DOMAIN journal : /\ journal[k] \in Change /\ journal[k].turn \in Chat!Turns
                                      /\ journal[k].message \in AnyMessage
                                         /\ journal[k].message # Chat!NoMessage
                                      /\ Version(journal[k].message) \in Nat
         /\ \A change \in due : /\ change \in Change /\ change.turn \in Chat!Turns
                                /\ change.message \in AnyMessage /\ Version(change.message) \in Nat
         /\ answer.message \in AnyMessage /\ Version(answer.message) \in Nat
         /\ DOMAIN journal = 1 .. Len(journal) /\ Len(journal) \in Nat
         /\ feed.at \in Nat /\ 1 .. feed.at \subseteq DOMAIN journal
  <1>1. \A t \in Chat!Turns : kept[t] \in AnyMessage /\ shown[t] \in AnyMessage
                              /\ fetch.rows[t] \in AnyMessage
        BY DEF ChatTyped, Rows
  <1>2. \A k \in DOMAIN journal : journal[k] \in Change
        BY DEF ChatTyped
  <1>3. answer.message \in AnyMessage
        BY DEF ChatTyped
  <1>4. DOMAIN journal = 1 .. Len(journal) /\ Len(journal) \in Nat /\ feed.at \in Nat
        /\ feed.at <= Len(journal)
        BY DEF ChatTyped
  <1>5. \A change \in due : change \in Change
        BY DEF ChatTyped
  <1>6. \A change \in Change : change.turn \in Chat!Turns /\ change.message \in AnyMessage
                               /\ change.message # Chat!NoMessage
        BY DEF Change
  <1> QED BY <1>1, <1>2, <1>3, <1>4, <1>5, <1>6, Versions

LEMMA StoredGrows ==
  ASSUME ChatInv, NEW t \in Chat!Turns, NEW next \in AnyMessage \ {Chat!NoMessage},
         Version(kept[t]) < Version(next), Chat!Changes(t, next),
         UNCHANGED <<shown, feed, fetch, overtaken>>,
         \/ UNCHANGED answer
         \/ answer' = [phase |-> "accepted", turn |-> t, message |-> next]
  PROVE  ChatInv'
  <1>1. /\ kept' \in Rows /\ due' \subseteq Change /\ journal' = journal
        /\ \A u \in Chat!Turns : Version(kept[u]) <= Version(kept'[u])
        /\ kept'[t] = next /\ Published'
        /\ \A change \in due' : Version(change.message) <= Version(kept'[change.turn])
        BY Newer DEF ChatInv
  <1>2. \A u \in Chat!Turns : Version(kept'[u]) \in Nat
        BY <1>1, Versions DEF Rows
  <1>3. ChatTyped'
        BY <1>1 DEF ChatInv, ChatTyped
  <1>4. ASSUME NEW u \in Chat!Turns, NEW n \in Nat, n <= Version(kept[u])
        PROVE  n <= Version(kept'[u])
        <2>1. Version(kept[u]) \in Nat /\ Version(kept'[u]) \in Nat
                /\ Version(kept[u]) <= Version(kept'[u])
              BY <1>1, <1>2, TypedParts DEF ChatInv
        <2> QED BY <1>4, <2>1
  <1>5. NotAhead(shown)' /\ NotAhead(fetch.rows)'
        BY <1>4, TypedParts DEF ChatInv, StoredIsLast, NotAhead
  <1>6. \A k \in DOMAIN journal' : NoNewer(journal[k])'
        BY <1>1, <1>4, TypedParts DEF ChatInv, StoredIsLast, NoNewer
  <1>7. answer'.phase = "accepted" => Version(answer'.message) <= Version(kept'[answer'.turn])
        <2>1. CASE UNCHANGED answer
              <3> SUFFICES ASSUME answer.phase = "accepted"
                           PROVE  Version(answer.message) <= Version(kept'[answer.turn])
                  BY <2>1
              <3>1. answer.turn \in Chat!Turns
                    /\ Version(answer.message) <= Version(kept[answer.turn])
                    BY DEF ChatInv, ChatTyped, StoredIsLast
              <3> QED BY <1>4, <3>1, TypedParts DEF ChatInv
        <2>2. CASE answer' = [phase |-> "accepted", turn |-> t, message |-> next]
              <3>1. answer'.message = next /\ answer'.turn = t /\ Version(next) \in Nat
                    BY <2>2, Versions
              <3> QED BY <1>1, <3>1
        <2> QED BY <2>1, <2>2
  <1>8. StoredIsLast'
        BY <1>1, <1>5, <1>6, <1>7 DEF StoredIsLast, NoNewer
  <1>9. EventsHeld'
        BY <1>1 DEF ChatInv, EventsHeld, Holds
  <1> QED BY <1>1, <1>3, <1>8, <1>9 DEF ChatInv

LEMMA ServerSteps ==
  ASSUME ChatInv,
         \/ \E t \in Chat!Turns : Chat!Advances(t)
         \/ Chat!AcceptsTurn \/ Chat!AcceptsRetry
  PROVE  ChatInv'
  <1>0. \A status \in {"pending", "streaming", "failed"}, stamp \in Nat :
          Chat!Message(status, stamp) \in AnyMessage \ {Chat!NoMessage}
        BY DEF Chat!Message, AnyMessage, Chat!NoMessage, Chat!Active, Chat!Terminal
  <1>1. ASSUME NEW t \in Chat!Turns, Chat!Advances(t)
        PROVE  ChatInv'
        <2>1. PICK stamp \in {kept[t].stamp, kept[t].stamp + 1},
                   status \in {"streaming", "failed"} :
                status # kept[t].status /\ Chat!Changes(t, Chat!Message(status, stamp))
              BY <1>1 DEF Chat!Advances, Chat!Terminal
        <2>2. kept[t] \in AnyMessage /\ kept[t].status \in {"pending", "streaming"}
                /\ kept[t].stamp \in Nat /\ stamp \in Nat
              BY <1>1, TypedParts DEF Chat!Advances, ChatInv, AnyMessage, Chat!Active
        <2>3. Chat!Message(status, stamp) \in AnyMessage \ {Chat!NoMessage}
              BY <1>0, <2>2
        <2>4. Version(kept[t]) < Version(Chat!Message(status, stamp))
              BY <2>1, <2>2 DEF Version, Chat!Message, Chat!MessageStatusOrder
        <2> QED BY <1>1, <2>1, <2>3, <2>4, StoredGrows DEF Chat!Advances
  <1>2. ASSUME NEW t \in Chat!Turns, NEW stamp \in Nat, Chat!Accepts(t, stamp),
               Version(kept[t]) < Version(Chat!Message("pending", stamp)),
               UNCHANGED <<shown, feed, fetch, overtaken>>
        PROVE  ChatInv'
        <2>1. Chat!Message("pending", stamp) \in AnyMessage \ {Chat!NoMessage}
              BY <1>0
        <2> QED BY <1>2, <2>1, StoredGrows DEF Chat!Accepts
  <1>3. CASE Chat!AcceptsTurn
        <2>1. PICK t \in Chat!Turns \ Chat!Present(kept) : Chat!Accepts(t, 0)
              BY <1>3 DEF Chat!AcceptsTurn
        <2>2. Version(kept[t]) < Version(Chat!Message("pending", 0))
              BY DEF Chat!Present, Version, Chat!NoMessage, Chat!Message, Chat!MessageStatusOrder
        <2> QED BY <1>2, <1>3, <2>1, <2>2 DEF Chat!AcceptsTurn
  <1>4. CASE Chat!AcceptsRetry
        <2> DEFINE t == answer.turn
        <2>1. /\ t \in Chat!Turns /\ kept[t] \in AnyMessage /\ kept[t].status = "failed"
              /\ kept[t].stamp \in Nat /\ Chat!Accepts(t, kept[t].stamp + 1)
              BY <1>4, TypedParts DEF Chat!AcceptsRetry, ChatInv, ChatTyped, AnyMessage
        <2>2. Version(kept[t]) < Version(Chat!Message("pending", kept[t].stamp + 1))
              BY <2>1 DEF Version, Chat!Message, Chat!MessageStatusOrder
        <2> QED BY <1>2, <1>4, <2>1, <2>2 DEF Chat!AcceptsRetry
  <1> QED BY <1>1, <1>3, <1>4

LEMMA PublishStep ==
  ASSUME ChatInv, NEW change \in due, Chat!Publishes(change)
  PROVE  ChatInv'
  <1>1. /\ due' = due \ {change} /\ journal' = Append(journal, change)
        /\ UNCHANGED <<kept, shown, feed, fetch, answer, overtaken>>
        BY DEF Chat!Publishes
  <1>2. /\ journal \in Seq(Change) /\ change \in Change /\ Len(journal) \in Nat
        /\ feed.at \in Nat /\ feed.at <= Len(journal)
        BY DEF ChatInv, ChatTyped
  <1>3. /\ journal' \in Seq(Change) /\ Len(journal') = Len(journal) + 1
           /\ journal'[Len(journal) + 1] = change
        /\ \A k \in 1 .. Len(journal) : journal'[k] = journal[k]
        /\ DOMAIN journal = 1 .. Len(journal) /\ DOMAIN journal' = 1 .. Len(journal) + 1
        BY <1>1, <1>2
  <1>4. ChatTyped'
        BY <1>1, <1>2, <1>3 DEF ChatInv, ChatTyped
  <1>5. StoredIsLast'
        <2>1. \A k \in DOMAIN journal' : NoNewer(journal'[k])
              BY <1>3 DEF ChatInv, StoredIsLast
        <2> QED BY <1>1, <2>1 DEF ChatInv, StoredIsLast, NotAhead, NoNewer
  <1>6. Published'
        <2> SUFFICES ASSUME NEW t \in Chat!Turns, kept[t] # Chat!NoMessage
                     PROVE  \/ [turn |-> t, message |-> kept[t]] \in due'
                            \/ \E k \in DOMAIN journal' : journal'[k] = [turn |-> t, message |-> kept[t]]
            BY <1>1 DEF Published
        <2>1. \/ [turn |-> t, message |-> kept[t]] \in due
              \/ \E k \in DOMAIN journal : journal[k] = [turn |-> t, message |-> kept[t]]
              BY DEF ChatInv, Published
        <2>2. Len(journal) + 1 \in DOMAIN journal'
              BY <1>2, <1>3
        <2>3. \A k \in DOMAIN journal : k \in DOMAIN journal'
              BY <1>2, <1>3
        <2> QED BY <1>1, <1>3, <2>1, <2>2, <2>3
  <1>7. EventsHeld'
        <2>1. \A k \in 1 .. feed.at : journal'[k] = journal[k]
              BY <1>2, <1>3
        <2> QED BY <1>1, <2>1 DEF ChatInv, EventsHeld, Holds
  <1> QED BY <1>4, <1>5, <1>6, <1>7 DEF ChatInv

LEMMA EmptyRows ==
  /\ Chat!NoFetch \in [phase : {"idle", "asked", "read"}, rows : Rows]
  /\ Chat!Asked \in [phase : {"idle", "asked", "read"}, rows : Rows]
  /\ \A t \in Chat!Turns : Version(Chat!NoFetch.rows[t]) = 0 /\ Version(Chat!Asked.rows[t]) = 0
  /\ Chat!NoFetch.phase = "idle" /\ Chat!Asked.phase = "asked"
  <1>1. Chat!NoMessage \in AnyMessage /\ Version(Chat!NoMessage) = 0
        BY DEF AnyMessage, Chat!NoMessage, Version
  <1>2. [t \in Chat!Turns |-> Chat!NoMessage] \in Rows
        BY <1>1 DEF Rows
  <1>3. Chat!NoFetch = [phase |-> "idle", rows |-> [t \in Chat!Turns |-> Chat!NoMessage]]
        BY DEF Chat!NoFetch
  <1>4. Chat!Asked = [phase |-> "asked", rows |-> [t \in Chat!Turns |-> Chat!NoMessage]]
        BY <1>3 DEF Chat!Asked
  <1> QED BY <1>1, <1>2, <1>3, <1>4

LEMMA ScreenOnly ==
  ASSUME ChatInv, UNCHANGED <<kept, due, journal, shown, overtaken>>,
         \/ UNCHANGED fetch \/ fetch' = Chat!NoFetch \/ fetch' = Chat!Asked,
         feed' \in [state : {"closed", "open", "broken", "refused"}, at : {0, feed.at}],
         \/ UNCHANGED answer
         \/ /\ answer' \in [phase : {"none", "sent", "retry"}, turn : Chat!Turns \cup {0},
                            message : {Chat!NoMessage}]
            /\ answer'.phase = "retry" => answer'.turn \in Chat!Turns
  PROVE  ChatInv'
  <1>1. /\ fetch' \in [phase : {"idle", "asked", "read"}, rows : Rows]
        /\ fetch' = fetch \/ (fetch'.phase # "read" /\ \A t \in Chat!Turns : Version(fetch'.rows[t]) = 0)
        <2>1. fetch \in [phase : {"idle", "asked", "read"}, rows : Rows]
              BY DEF ChatInv, ChatTyped
        <2>2. CASE fetch' = fetch
              BY <2>1, <2>2
        <2>3. CASE fetch' = Chat!NoFetch
              BY <2>3, EmptyRows
        <2>4. CASE fetch' = Chat!Asked
              BY <2>4, EmptyRows
        <2> QED BY <2>2, <2>3, <2>4
  <1>2. /\ feed' \in [state : {"closed", "open", "broken", "refused"}, at : Nat]
        /\ feed'.at <= Len(journal) /\ feed'.at <= feed.at /\ feed.at \in Nat
        BY TypedParts DEF ChatInv, ChatTyped
  <1>3. /\ answer' \in [phase : {"none", "sent", "retry", "accepted"}, turn : Chat!Turns \cup {0},
                        message : AnyMessage]
        /\ answer' = answer
           \/ (answer'.phase # "accepted" /\ (answer'.phase = "retry" => answer'.turn \in Chat!Turns))
        BY DEF ChatInv, ChatTyped, AnyMessage, Chat!NoMessage
  <1>4. ChatTyped'
        BY <1>1, <1>2, <1>3 DEF ChatInv, ChatTyped
  <1>5. NotAhead(fetch.rows)'
        BY <1>1, TypedParts DEF ChatInv, StoredIsLast, NotAhead
  <1>6. StoredIsLast'
        BY <1>3, <1>5 DEF ChatInv, StoredIsLast, NotAhead, NoNewer
  <1>7. EventsHeld'
        BY <1>1, <1>2 DEF ChatInv, EventsHeld, Holds
  <1> QED BY <1>4, <1>6, <1>7 DEF ChatInv, Published

LEMMA ConnectionSteps ==
  ASSUME ChatInv,
         \/ Chat!Opens \/ Chat!Closes \/ Chat!OnError \/ Chat!Reconnects
            \/ Chat!ReconnectRefused \/ Chat!FetchFails
         \/ Chat!Send \/ Chat!Fails \/ \E t \in Chat!Turns : Chat!Retry(t)
  PROVE  ChatInv'
  <1>1. /\ feed \in [state : {"closed", "open", "broken", "refused"}, at : Nat]
        /\ feed = [state |-> feed.state, at |-> feed.at]
        BY DEF ChatInv, ChatTyped
  <1>2. UNCHANGED <<kept, due, journal, shown, overtaken>>
        BY DEF Chat!Opens, Chat!Closes, Chat!OnError, Chat!Reconnects, Chat!ReconnectRefused,
           Chat!FetchFails, Chat!Send, Chat!Fails, Chat!Retry
  <1>3. UNCHANGED fetch \/ fetch' = Chat!NoFetch \/ fetch' = Chat!Asked
        BY DEF Chat!Opens, Chat!Closes, Chat!OnError, Chat!Reconnects, Chat!ReconnectRefused,
           Chat!FetchFails, Chat!Send, Chat!Fails, Chat!Retry,
               Chat!Invalidates
  <1>4. feed' \in [state : {"closed", "open", "broken", "refused"}, at : {0, feed.at}]
        <2> DEFINE S == [state : {"closed", "open", "broken", "refused"}, at : {0, feed.at}]
        <2>1. feed \in S /\ \A st \in {"closed", "open", "broken", "refused"}, at \in {0, feed.at} :
                [state |-> st, at |-> at] \in S
              BY <1>1
        <2>2. /\ [feed EXCEPT !.state = "broken"] = [state |-> "broken", at |-> feed.at]
              /\ [feed EXCEPT !.state = "open"] = [state |-> "open", at |-> feed.at]
              /\ [feed EXCEPT !.state = "refused"] = [state |-> "refused", at |-> feed.at]
              BY <1>1
        <2> HIDE DEF S
        <2>3. feed' \in S
              BY <2>1, <2>2
              DEF Chat!Opens, Chat!Closes, Chat!OnError, Chat!Reconnects, Chat!ReconnectRefused,
              Chat!FetchFails, Chat!Send, Chat!Fails, Chat!Retry
        <2> QED BY <2>3 DEF S
  <1>5. \/ UNCHANGED answer
        \/ /\ answer' \in [phase : {"none", "sent", "retry"}, turn : Chat!Turns \cup {0},
                           message : {Chat!NoMessage}]
           /\ answer'.phase = "retry" => answer'.turn \in Chat!Turns
        <2>1. CASE Chat!Send \/ Chat!Fails \/ \E t \in Chat!Turns : Chat!Retry(t)
              <3>1. \/ answer' = [phase |-> "sent", turn |-> 0, message |-> Chat!NoMessage]
                    \/ answer' = [phase |-> "none", turn |-> 0, message |-> Chat!NoMessage]
                    \/ \E t \in Chat!Turns :
                         answer' = [phase |-> "retry", turn |-> t, message |-> Chat!NoMessage]
                    BY <2>1 DEF Chat!Send, Chat!Fails, Chat!Retry, Chat!NoAnswer
              <3> QED BY <3>1
        <2>2. CASE Chat!Opens \/ Chat!Closes \/ Chat!OnError \/ Chat!Reconnects
                   \/ Chat!ReconnectRefused \/ Chat!FetchFails
              BY <2>2 DEF Chat!Opens, Chat!Closes, Chat!OnError, Chat!Reconnects,
                 Chat!ReconnectRefused, Chat!FetchFails
        <2> QED BY <2>1, <2>2
  <1> QED BY <1>2, <1>3, <1>4, <1>5, ScreenOnly

(* A message that is not newer than what is stored comes to the screen *)
LEMMA MessageShown ==
  ASSUME ChatInv, NEW t \in Chat!Turns, NEW m \in AnyMessage \ {Chat!NoMessage},
         Version(m) <= Version(kept[t]), shown' = Chat!ReplaceMessage(shown, t, m),
         UNCHANGED <<kept, due, journal, fetch, overtaken>>,
         feed' \in [state : {"closed", "open", "broken", "refused"}, at : Nat],
         \A k \in 1 .. feed'.at : k \in 1 .. feed.at \/ journal[k] = [turn |-> t, message |-> m],
         feed'.at <= Len(journal),
         UNCHANGED answer \/ answer' = Chat!NoAnswer
  PROVE  ChatInv'
  <1>1. /\ shown' \in Rows /\ Version(shown'[t]) >= Version(m)
        /\ \A u \in Chat!Turns : Version(shown'[u]) >= Version(shown[u])
        /\ \A u \in Chat!Turns : shown'[u] = shown[u] \/ (u = t /\ shown'[u] = m)
        <2>1. shown \in Rows /\ m \in AnyMessage /\ m # Chat!NoMessage
              BY DEF ChatInv, ChatTyped
        <2> QED BY <2>1, Replaced
  <1>2. /\ answer' \in [phase : {"none", "sent", "retry", "accepted"}, turn : Chat!Turns \cup {0},
                        message : AnyMessage]
        /\ answer' = answer \/ answer'.phase = "none"
        BY DEF ChatInv, ChatTyped, Chat!NoAnswer, AnyMessage, Chat!NoMessage
  <1>3. ChatTyped'
        BY <1>1, <1>2 DEF ChatInv, ChatTyped
  <1>4. StoredIsLast'
        <2>1. NotAhead(shown)'
              BY <1>1 DEF ChatInv, StoredIsLast, NotAhead
        <2> QED BY <1>2, <2>1 DEF ChatInv, StoredIsLast, NotAhead, NoNewer
  <1>5. EventsHeld'
        <2> SUFFICES ASSUME NEW k \in 1 .. feed'.at
                     PROVE  /\ ~overtaken => Holds(shown', journal[k])
                            /\ fetch.phase = "read" =>
                                 Holds(shown', journal[k]) \/ Holds(fetch.rows, journal[k])
            BY DEF EventsHeld, Holds
        <2>1. k \in DOMAIN journal
              BY <1>3, TypedParts DEF ChatInv, ChatTyped
        <2>2. journal[k].turn \in Chat!Turns /\ Version(journal[k].message) \in Nat
              BY <2>1, TypedParts DEF ChatInv
        <2>3. /\ Version(shown[journal[k].turn]) \in Nat /\ Version(shown'[journal[k].turn]) \in Nat
              /\ Version(shown'[journal[k].turn]) >= Version(shown[journal[k].turn])
              BY <1>1, <2>2, Versions, TypedParts DEF ChatInv, Rows
        <2>4. CASE k \in 1 .. feed.at
              BY <2>2, <2>3, <2>4 DEF ChatInv, EventsHeld, Holds
        <2>5. CASE journal[k] = [turn |-> t, message |-> m]
              BY <1>1, <2>5 DEF Holds
        <2> QED BY <2>4, <2>5
  <1> QED BY <1>3, <1>4, <1>5 DEF ChatInv, Published

LEMMA ShowSteps ==
  ASSUME ChatInv, Chat!OnEvent \/ Chat!Answered
  PROVE  ChatInv'
  <1>1. CASE Chat!OnEvent
        <2> DEFINE k == feed.at + 1
                   event == journal[k]
        <2>1. /\ feed' = [feed EXCEPT !.at = @ + 1] /\ feed.at < Len(journal)
              /\ shown' = Chat!ReplaceMessage(shown, event.turn, event.message)
              /\ UNCHANGED <<kept, due, journal, fetch, answer, overtaken>>
              BY <1>1 DEF Chat!OnEvent
        <2>2. /\ feed' \in [state : {"closed", "open", "broken", "refused"}, at : Nat]
              /\ feed'.at = k /\ feed'.at <= Len(journal) /\ feed.at \in Nat
              BY <2>1 DEF ChatInv, ChatTyped
        <2>3. k \in DOMAIN journal
              BY <2>1, <2>2, TypedParts DEF ChatInv
        <2>4. /\ event \in Change /\ event.turn \in Chat!Turns
              /\ event.message \in AnyMessage \ {Chat!NoMessage}
              /\ Version(event.message) <= Version(kept[event.turn])
              BY <2>3, TypedParts DEF ChatInv, StoredIsLast, NoNewer
        <2>5. event = [turn |-> event.turn, message |-> event.message]
              BY <2>4 DEF Change
        <2>6. \A l \in 1 .. feed'.at :
                l \in 1 .. feed.at \/ journal[l] = [turn |-> event.turn, message |-> event.message]
              BY <2>2, <2>5
        <2> HIDE DEF event, k
        <2> QED BY <2>1, <2>2, <2>4, <2>6, MessageShown
  <1>2. CASE Chat!Answered
        <2>1. /\ answer.phase = "accepted" /\ answer' = Chat!NoAnswer
              /\ \/ shown' = shown
                 \/ shown' = Chat!ReplaceMessage(shown, answer.turn, answer.message)
              /\ UNCHANGED <<kept, due, journal, feed, fetch, overtaken>>
              BY <1>2 DEF Chat!Answered
        <2>2. /\ answer.turn \in Chat!Turns /\ answer.message \in AnyMessage \ {Chat!NoMessage}
              /\ Version(answer.message) <= Version(kept[answer.turn])
              /\ feed \in [state : {"closed", "open", "broken", "refused"}, at : Nat]
              /\ feed.at <= Len(journal)
              BY <2>1 DEF ChatInv, ChatTyped, StoredIsLast
        <2>3. CASE shown' = Chat!ReplaceMessage(shown, answer.turn, answer.message)
              BY <2>1, <2>2, <2>3, MessageShown
        <2>4. CASE shown' = shown
              <3>1. feed' \in [state : {"closed", "open", "broken", "refused"}, at : {0, feed.at}]
                    BY <2>1, <2>2
              <3>2. /\ answer' \in [phase : {"none", "sent", "retry"}, turn : Chat!Turns \cup {0},
                                    message : {Chat!NoMessage}]
                    /\ answer'.phase # "retry"
                    BY <2>1 DEF Chat!NoAnswer
              <3> QED BY <2>1, <2>4, <3>1, <3>2, ScreenOnly
        <2> QED BY <2>1, <2>3, <2>4
  <1> QED BY <1>1, <1>2

LEMMA SnapshotSteps ==
  ASSUME ChatInv, Chat!FetchReads \/ Chat!FetchArrives
  PROVE  ChatInv'
  <1>1. CASE Chat!FetchReads
        <2>1. /\ fetch' = [phase |-> "read", rows |-> kept]
              /\ UNCHANGED <<kept, due, journal, shown, feed, answer, overtaken>>
              BY <1>1 DEF Chat!FetchReads
        <2>2. ChatTyped'
              BY <2>1 DEF ChatInv, ChatTyped
        <2>3. StoredIsLast'
              BY <2>1, TypedParts DEF ChatInv, StoredIsLast, NotAhead, NoNewer
        <2>4. EventsHeld'
              BY <2>1, TypedParts DEF ChatInv, StoredIsLast, EventsHeld, Holds, NoNewer
        <2> QED BY <2>1, <2>2, <2>3, <2>4 DEF ChatInv, Published
  <1>2. CASE Chat!FetchArrives
        <2>1. /\ fetch.phase = "read" /\ shown' = fetch.rows /\ fetch' = Chat!NoFetch
              /\ overtaken' = \E t \in Chat!Present(shown) :
                                fetch.rows[t] = Chat!NoMessage
                                \/ Chat!Older(fetch.rows[t], shown[t])
              /\ UNCHANGED <<kept, due, journal, feed, answer>>
              BY <1>2 DEF Chat!FetchArrives
        <2>2. ChatTyped'
              BY <2>1, EmptyRows DEF ChatInv, ChatTyped
        <2>3. StoredIsLast'
              BY <2>1, EmptyRows, TypedParts DEF ChatInv, StoredIsLast, NotAhead, NoNewer
        <2>4. EventsHeld'
              <3> SUFFICES ASSUME NEW k \in 1 .. feed.at, ~overtaken'
                           PROVE  Holds(fetch.rows, journal[k])
                  <4>1. fetch'.phase # "read" /\ feed' = feed /\ journal' = journal
                        /\ shown' = fetch.rows
                        BY <2>1, EmptyRows
                  <4> QED BY <4>1 DEF EventsHeld, Holds
              <3> DEFINE t == journal[k].turn
              <3>1. t \in Chat!Turns /\ Version(journal[k].message) \in Nat
                    /\ Version(journal[k].message) # 0
                    BY TypedParts, Versions DEF ChatInv
              <3>2. Holds(shown, journal[k]) \/ Holds(fetch.rows, journal[k])
                    BY <2>1 DEF ChatInv, EventsHeld
              <3>3. shown[t] # Chat!NoMessage => Version(fetch.rows[t]) >= Version(shown[t])
                    <4>1. shown[t] \in AnyMessage /\ fetch.rows[t] \in AnyMessage
                          BY <3>1, TypedParts DEF ChatInv
                    <4>2. shown[t] # Chat!NoMessage =>
                            fetch.rows[t] # Chat!NoMessage /\ ~Chat!Older(fetch.rows[t], shown[t])
                          BY <2>1, <3>1 DEF Chat!Present
                    <4> QED BY <4>1, <4>2, Versions
              <3>4. shown[t] \in AnyMessage /\ Version(shown[t]) \in Nat
                      /\ (Version(shown[t]) = 0 <=> shown[t] = Chat!NoMessage)
                      /\ Version(fetch.rows[t]) \in Nat
                    BY <3>1, TypedParts, Versions DEF ChatInv
              <3> QED BY <3>1, <3>2, <3>3, <3>4 DEF Holds
        <2> QED BY <2>1, <2>2, <2>3, <2>4 DEF ChatInv, Published
  <1> QED BY <1>1, <1>2

LEMMA ChatMoves == ChatInv /\ Chat!Next => ChatInv'
  BY ServerSteps, PublishStep, ConnectionSteps, ShowSteps, SnapshotSteps DEF Chat!Next

LEMMA ChatKept == ASSUME ChatInv, [Chat!Next]_Chat!vars PROVE ChatInv'
  <1>1. CASE Chat!Next
        BY <1>1, ChatMoves
  <1>2. CASE UNCHANGED Chat!vars
        BY <1>2 DEF Chat!vars, ChatInv, ChatTyped, StoredIsLast, NotAhead, NoNewer, Published,
           EventsHeld, Holds
  <1> QED BY <1>1, <1>2

LEMMA ChatFollows == ChatInv => Chat!TypeOK /\ Chat!ScreenIsCurrent
  <1> SUFFICES ASSUME ChatInv PROVE Chat!TypeOK /\ Chat!ScreenIsCurrent
      OBVIOUS
  <1>1. Chat!TypeOK
        BY TypedParts DEF ChatInv, ChatTyped, Chat!TypeOK, AnyMessage
  <1>2. Chat!ScreenIsCurrent
        <2> SUFFICES ASSUME Chat!UpToDate PROVE shown = kept
            BY DEF Chat!ScreenIsCurrent
        <2>1. ASSUME NEW t \in Chat!Turns
              PROVE  shown[t] = kept[t]
              <3>1. /\ shown[t] \in AnyMessage /\ kept[t] \in AnyMessage
                    /\ Version(shown[t]) \in Nat /\ Version(kept[t]) \in Nat
                    /\ Version(shown[t]) <= Version(kept[t])
                    BY TypedParts DEF ChatInv, StoredIsLast, NotAhead
              <3>2. kept[t] # Chat!NoMessage => Version(shown[t]) >= Version(kept[t])
                    <4> SUFFICES ASSUME kept[t] # Chat!NoMessage
                                 PROVE  Version(shown[t]) >= Version(kept[t])
                        OBVIOUS
                    <4>1. PICK k \in DOMAIN journal : journal[k] = [turn |-> t, message |-> kept[t]]
                          BY DEF ChatInv, Published, Chat!UpToDate
                    <4>2. k \in 1 .. feed.at /\ ~overtaken
                          BY TypedParts DEF ChatInv, Chat!UpToDate
                    <4>3. Holds(shown, journal[k])
                          BY <4>2 DEF ChatInv, EventsHeld
                    <4> QED BY <4>1, <4>3 DEF Holds
              <3>3. kept[t] = Chat!NoMessage => Version(kept[t]) = 0
                    BY <3>1, Versions
              <3>4. Version(shown[t]) = Version(kept[t])
                    BY <3>1, <3>2, <3>3
              <3> QED BY <3>1, <3>4, Versions
        <2>2. shown \in Rows /\ kept \in Rows
              BY DEF ChatInv, ChatTyped
        <2> QED BY <2>1, <2>2 DEF Rows
  <1> QED BY <1>1, <1>2

-----------------------------------------------------------------------------
(* PagedList.  Pages hold what stayed in its place since they were first fetched, once
   and in order, whatever rows come, go and move between two fetches. *)

(* Where a row is among the rows S *)
RowPlace(S, i) == Cardinality(Lists!Ahead(S, i)) + 1

Cursors == [time : Nat, id : Nat]
Pages == {p \in [items : Seq(Ids), cursor : Cursors] : Len(p.items) <= ListLimit}

ListsTyped ==
  /\ order \in {"created", "updated", "offset"}
  /\ rows \in [Ids -> Lists!Gone .. MaxListTime]
  /\ data \in [pages : Seq(Pages), stayed : SUBSET Lists!Live]
  /\ query \in [pages : Seq(Pages), stayed : SUBSET Lists!Live, fetching : BOOLEAN, wanted : Nat]
  /\ reads \in Nat

ListsInv ==
  /\ ListsTyped
  /\ Lists!IsWhole(data.pages, data.stayed) /\ Lists!InOrder(data.pages, data.stayed)
  /\ Lists!IsWhole(query.pages, query.stayed) /\ Lists!InOrder(query.pages, query.stayed)
  /\ query.fetching /\ query.pages # <<>> => Lists!CursorOf(query.pages) # Lists!NoCursor

-----------------------------------------------------------------------------
(* Rows in the order they are read *)
LEMMA BehindIsAnOrder ==
  ASSUME rows \in [Ids -> Int], NEW i \in Ids, NEW j \in Ids, NEW k \in Ids
  PROVE  /\ ~Lists!Behind(Lists!AnchorOf(i), Lists!AnchorOf(i))
         /\ i # j => Lists!Behind(Lists!AnchorOf(i), Lists!AnchorOf(j))
            \/ Lists!Behind(Lists!AnchorOf(j), Lists!AnchorOf(i))
         /\ ~(/\ Lists!Behind(Lists!AnchorOf(i), Lists!AnchorOf(j))
              /\ Lists!Behind(Lists!AnchorOf(j), Lists!AnchorOf(i)))
         /\ Lists!Behind(Lists!AnchorOf(i), Lists!AnchorOf(j))
            /\ Lists!Behind(Lists!AnchorOf(j), Lists!AnchorOf(k))
              => Lists!Behind(Lists!AnchorOf(i), Lists!AnchorOf(k))
  BY ScreensAssumption DEF Lists!Behind, Lists!AnchorOf, Lists!Anchor, Lists!PagedListAssumption

LEMMA PlaceCounts ==
  ASSUME rows \in [Ids -> Int], NEW S \in SUBSET Ids, NEW i \in S
  PROVE  /\ IsFiniteSet(S) /\ Cardinality(S) \in Nat
         /\ Cardinality(Lists!Ahead(S, i)) \in Nat /\ RowPlace(S, i) \in 1 .. Cardinality(S)
  <1>1. IsFiniteSet(Ids) /\ IsFiniteSet(S)
        BY ScreensAssumption, FS_Subset, SameFinite DEF Lists!PagedListAssumption
  <1>2. Lists!Ahead(S, i) \subseteq S /\ i \notin Lists!Ahead(S, i) /\ i \in S
        BY BehindIsAnOrder DEF Lists!Ahead
  <1>3. IsFiniteSet(Lists!Ahead(S, i)) /\ Cardinality(Lists!Ahead(S, i)) <= Cardinality(S)
        /\ (Cardinality(S) = Cardinality(Lists!Ahead(S, i)) => S = Lists!Ahead(S, i))
        BY <1>1, <1>2, FS_Subset
  <1>4. Cardinality(Lists!Ahead(S, i)) \in Nat /\ Cardinality(S) \in Nat
        BY <1>1, <1>3, FS_CardinalityType
  <1>5. Cardinality(Lists!Ahead(S, i)) # Cardinality(S)
        BY <1>2, <1>3
  <1>6. RowPlace(S, i) \in 1 .. Cardinality(S)
        BY <1>3, <1>4, <1>5 DEF RowPlace
  <1> QED BY <1>1, <1>4, <1>6

LEMMA PlacesFollow ==
  ASSUME rows \in [Ids -> Int], NEW S \in SUBSET Ids, NEW i \in S, NEW j \in S
  PROVE  /\ Lists!Behind(Lists!AnchorOf(j), Lists!AnchorOf(i)) <=> RowPlace(S, i) < RowPlace(S, j)
         /\ RowPlace(S, i) = RowPlace(S, j) => i = j
  <1>1. ASSUME NEW k \in S, NEW l \in S, Lists!Behind(Lists!AnchorOf(l), Lists!AnchorOf(k))
        PROVE  RowPlace(S, k) < RowPlace(S, l)
        <2>1. Lists!Ahead(S, k) \subseteq Lists!Ahead(S, l) /\ k \in Lists!Ahead(S, l)
              /\ k \notin Lists!Ahead(S, k)
              BY <1>1, BehindIsAnOrder DEF Lists!Ahead
        <2>2. IsFiniteSet(Lists!Ahead(S, l))
              <3>1. IsFiniteSet(S) /\ Lists!Ahead(S, l) \subseteq S
                    BY PlaceCounts DEF Lists!Ahead
              <3> QED BY <3>1, FS_Subset
        <2>3. /\ Cardinality(Lists!Ahead(S, k)) <= Cardinality(Lists!Ahead(S, l))
              /\ Cardinality(Lists!Ahead(S, l)) = Cardinality(Lists!Ahead(S, k)) =>
                   Lists!Ahead(S, l) = Lists!Ahead(S, k)
              BY <2>1, <2>2, FS_Subset
        <2>4. Cardinality(Lists!Ahead(S, k)) \in Nat /\ Cardinality(Lists!Ahead(S, l)) \in Nat
              BY PlaceCounts
        <2>5. Cardinality(Lists!Ahead(S, l)) # Cardinality(Lists!Ahead(S, k))
              BY <2>1, <2>3
        <2> QED BY <2>3, <2>4, <2>5 DEF RowPlace
  <1>2. RowPlace(S, i) \in Nat /\ RowPlace(S, j) \in Nat
        <2>1. Cardinality(Lists!Ahead(S, i)) \in Nat
              BY PlaceCounts
        <2>2. Cardinality(Lists!Ahead(S, j)) \in Nat
              BY PlaceCounts
        <2>3. RowPlace(S, i) \in Nat
              BY <2>1 DEF RowPlace
        <2>4. RowPlace(S, j) \in Nat
              BY <2>2 DEF RowPlace
        <2> QED BY <2>3, <2>4
  <1>3. i = j \/ Lists!Behind(Lists!AnchorOf(i), Lists!AnchorOf(j))
        \/ Lists!Behind(Lists!AnchorOf(j), Lists!AnchorOf(i))
        BY BehindIsAnOrder
  <1>4. ~Lists!Behind(Lists!AnchorOf(i), Lists!AnchorOf(i))
        /\ ~Lists!Behind(Lists!AnchorOf(j), Lists!AnchorOf(j))
        BY BehindIsAnOrder
  <1> QED BY <1>1, <1>2, <1>3, <1>4

(* Every row is at its place, and nothing else is in the list *)
LEMMA NewestFirstIs ==
  ASSUME rows \in [Ids -> Int], NEW S \in SUBSET Ids
  PROVE  /\ Lists!NewestFirst(S) \in [1 .. Cardinality(S) -> S]
         /\ \A n \in 1 .. Cardinality(S) : RowPlace(S, Lists!NewestFirst(S)[n]) = n
         /\ \A i \in S : Lists!NewestFirst(S)[RowPlace(S, i)] = i
         /\ Cardinality(S) \in Nat
  <1> DEFINE T == 1 .. Cardinality(S)
             place == [i \in S |-> RowPlace(S, i)]
  <1>1. IsFiniteSet(S) /\ Cardinality(S) \in Nat
        BY ScreensAssumption, FS_Subset, FS_CardinalityType, SameFinite
           DEF Lists!PagedListAssumption
  <1>2. IsFiniteSet(T) /\ Cardinality(T) = Cardinality(S)
        BY <1>1, FS_Interval
  <1>3. \A i \in S : RowPlace(S, i) \in T
        BY PlaceCounts
  <1>4. \A i, j \in S : RowPlace(S, i) = RowPlace(S, j) => i = j
        BY PlacesFollow
  <1>5. place \in Injection(S, T)
        BY <1>3, <1>4 DEF Injection, IsInjective
  <1>6. place \in Surjection(S, T)
        BY <1>1, <1>2, <1>5, FS_Injection
  <1>7. \A n \in T : \E i \in S : place[i] = n
        BY <1>6 DEF Surjection
  <1>8. \A n \in T : \E i \in S : Cardinality(Lists!Ahead(S, i)) = n - 1
        <2> SUFFICES ASSUME NEW n \in T PROVE \E i \in S : Cardinality(Lists!Ahead(S, i)) = n - 1
            OBVIOUS
        <2>1. PICK i \in S : place[i] = n
              BY <1>7
        <2>2. Cardinality(Lists!Ahead(S, i)) \in Nat /\ Cardinality(Lists!Ahead(S, i)) + 1 = n
              BY <2>1, PlaceCounts DEF RowPlace
        <2> QED BY <2>2
  <1>9. \A n \in T : /\ Lists!NewestFirst(S)[n] \in S
                     /\ Cardinality(Lists!Ahead(S, Lists!NewestFirst(S)[n])) = n - 1
        BY <1>8, SameCounts DEF Lists!NewestFirst
  <1>10. Lists!NewestFirst(S) \in [T -> S]
        BY <1>9, SameCounts DEF Lists!NewestFirst
  <1>11. \A n \in T : RowPlace(S, Lists!NewestFirst(S)[n]) = n
        BY <1>9 DEF RowPlace
  <1>12. \A i \in S : Lists!NewestFirst(S)[RowPlace(S, i)] = i
        BY <1>3, <1>4, <1>9, <1>11
  <1> QED BY <1>1, <1>10, <1>11, <1>12

-----------------------------------------------------------------------------
(* A page.  Of what is to come after a cursor, it has the rows that come first *)
Remaining(after) ==
  {i \in Lists!Live : IF order = "offset" THEN Cardinality(Lists!Ahead(Lists!Live, i)) >= after.id
                      ELSE after = Lists!NoCursor \/ Lists!Behind(Lists!AnchorOf(i), after)}

FoundAfter(after) ==
  IF order = "offset"
  THEN SubSeq(Lists!NewestFirst(Lists!Live), after.id + 1,
              Len(Lists!NewestFirst(Lists!Live)))
  ELSE Lists!NewestFirst(Remaining(after))

LEMMA RowsTyped ==
  ASSUME ListsTyped
  PROVE  rows \in [Ids -> Int] /\ Lists!Live \in SUBSET Ids /\ ListLimit \in Nat \ {0}
         /\ Ids \subseteq Nat
  BY ScreensAssumption DEF ListsTyped, Lists!Live, Lists!PagedListAssumption, Lists!Gone

LEMMA FoundInOrder ==
  ASSUME ListsTyped, NEW after \in Cursors
  PROVE  /\ Lists!PageAfter(after) = Lists!Page(FoundAfter(after), after)
         /\ FoundAfter(after) \in Seq(Ids)
         /\ \A k \in DOMAIN FoundAfter(after) : FoundAfter(after)[k] \in Lists!Live
         /\ \A k, l \in DOMAIN FoundAfter(after) :
              k < l => Lists!Behind(Lists!AnchorOf(FoundAfter(after)[l]),
                                    Lists!AnchorOf(FoundAfter(after)[k]))
         /\ \A i \in Remaining(after) : \E l \in DOMAIN FoundAfter(after) :
              /\ FoundAfter(after)[l] = i
              /\ order = "offset" => Cardinality(Lists!Ahead(Lists!Live, i)) = after.id + l - 1
  <1>1. Lists!PageAfter(after) = Lists!Page(FoundAfter(after), after)
        BY DEF Lists!PageAfter, FoundAfter, Lists!KeysetPage, Lists!OffsetPage, Remaining
  <1>2. rows \in [Ids -> Int] /\ Lists!Live \in SUBSET Ids /\ after.id \in Nat
        BY RowsTyped DEF Cursors
  <1>3. CASE order = "offset"
        <2> DEFINE all == Lists!NewestFirst(Lists!Live)
                   c == after.id
                   N == Cardinality(Lists!Live)
                   found == SubSeq(all, c + 1, N)
        <2>1. /\ all \in [1 .. N -> Lists!Live] /\ N \in Nat
              /\ \A n \in 1 .. N : RowPlace(Lists!Live, all[n]) = n
              /\ \A i \in Lists!Live : all[RowPlace(Lists!Live, i)] = i
              BY <1>2, NewestFirstIs
        <2>2. all \in Seq(Lists!Live) /\ Len(all) = N
              BY <2>1
        <2>3. FoundAfter(after) = found
              BY <1>3, <2>2 DEF FoundAfter
        <2> HIDE DEF all, c, N
        <2>4. /\ DOMAIN found = 1 .. (IF c + 1 <= N THEN N - c ELSE 0)
              /\ found \in Seq(Lists!Live) /\ \A k \in DOMAIN found : found[k] = all[c + k]
                 /\ c + k \in 1 .. N
              <3>1. c \in Nat /\ N \in Nat /\ all \in Seq(Lists!Live) /\ Len(all) = N
                    BY <1>2, <2>1, <2>2 DEF c
              <3>2. CASE c + 1 <= N
                    <4>1. Len(found) = N - (c + 1) + 1 /\ found \in Seq(Lists!Live)
                          BY <3>1, <3>2
                    <4>2. \A k \in 1 .. N - c : found[k] = all[(c + 1) + k - 1]
                          BY <3>1, <3>2
                    <4>3. Len(found) = N - c
                          BY <3>1, <4>1
                    <4>4. \A k \in 1 .. N - c : (c + 1) + k - 1 = c + k /\ c + k \in 1 .. N
                          BY <3>1
                    <4>5. DOMAIN found = 1 .. N - c
                          BY <4>1, <4>3
                    <4> HIDE DEF found
                    <4> QED BY <3>2, <4>1, <4>2, <4>4, <4>5
              <3>3. CASE ~(c + 1 <= N)
                    <4>1. found = <<>>
                          BY <3>1, <3>3
                    <4> HIDE DEF found
                    <4> QED BY <3>3, <4>1
              <3> QED BY <3>2, <3>3
        <2> HIDE DEF found
        <2>5. \A k \in DOMAIN found : found[k] \in Lists!Live
              /\ RowPlace(Lists!Live, found[k]) = c + k
              BY <2>1, <2>4
        <2>6. \A k, l \in DOMAIN found : k < l =>
                Lists!Behind(Lists!AnchorOf(found[l]), Lists!AnchorOf(found[k]))
              <3> SUFFICES ASSUME NEW k \in DOMAIN found, NEW l \in DOMAIN found, k < l
                           PROVE  Lists!Behind(Lists!AnchorOf(found[l]), Lists!AnchorOf(found[k]))
                  OBVIOUS
              <3>1. /\ found[k] \in Lists!Live /\ RowPlace(Lists!Live, found[k]) = c + k
                    /\ found[l] \in Lists!Live /\ RowPlace(Lists!Live, found[l]) = c + l
                    /\ c \in Nat /\ k \in Nat /\ l \in Nat
                    BY <1>2, <2>4, <2>5 DEF c
              <3>2. RowPlace(Lists!Live, found[k]) < RowPlace(Lists!Live, found[l])
                    BY <3>1
              <3> QED BY <1>2, <3>1, <3>2, PlacesFollow
        <2>7. ASSUME NEW i \in Remaining(after)
              PROVE  \E l \in DOMAIN found :
                       found[l] = i /\ Cardinality(Lists!Ahead(Lists!Live, i)) = after.id + l - 1
              <3>1. i \in Lists!Live /\ Cardinality(Lists!Ahead(Lists!Live, i)) >= c
                    BY <1>3 DEF Remaining, c
              <3>2. /\ RowPlace(Lists!Live, i) = Cardinality(Lists!Ahead(Lists!Live, i)) + 1
                       /\ RowPlace(Lists!Live, i) \in 1 .. N
                    /\ Cardinality(Lists!Ahead(Lists!Live, i)) \in Nat /\ N \in Nat /\ c \in Nat
                    BY <1>2, <3>1, PlaceCounts DEF RowPlace, N, c
              <3> DEFINE l == RowPlace(Lists!Live, i) - c
              <3>3. l \in DOMAIN found /\ c + l = RowPlace(Lists!Live, i)
                    BY <2>4, <3>1, <3>2
              <3>4. found[l] = i
                    BY <2>1, <2>4, <3>1, <3>3
              <3>5. Cardinality(Lists!Ahead(Lists!Live, i)) = after.id + l - 1
                    BY <3>2 DEF c
              <3> QED BY <3>3, <3>4, <3>5
        <2>8. found \in Seq(Ids)
              BY <1>2, <2>4
        <2> QED BY <1>1, <2>3, <2>5, <2>6, <2>7, <2>8
  <1>4. CASE order # "offset"
        <2> DEFINE S == Remaining(after)
                   found == Lists!NewestFirst(S)
        <2>1. S \in SUBSET Lists!Live /\ S \in SUBSET Ids
              BY <1>2 DEF Remaining
        <2>2. /\ found \in [1 .. Cardinality(S) -> S] /\ Cardinality(S) \in Nat
              /\ \A n \in 1 .. Cardinality(S) : RowPlace(S, found[n]) = n
              /\ \A i \in S : found[RowPlace(S, i)] = i
              BY <1>2, <2>1, NewestFirstIs
        <2>3. FoundAfter(after) = found
              BY <1>4 DEF FoundAfter
        <2> HIDE DEF found, S
        <2>4. DOMAIN found = 1 .. Cardinality(S) /\ found \in Seq(Ids)
              BY <2>1, <2>2
        <2>5. \A k, l \in DOMAIN found : k < l =>
                Lists!Behind(Lists!AnchorOf(found[l]), Lists!AnchorOf(found[k]))
              BY <1>2, <2>1, <2>2, <2>4, PlacesFollow
        <2>6. \A i \in S : RowPlace(S, i) \in DOMAIN found /\ found[RowPlace(S, i)] = i
              BY <1>2, <2>1, <2>2, <2>4, PlaceCounts
        <2>7. \A i \in S : \E l \in DOMAIN found : found[l] = i
              BY <2>6
        <2> QED BY <1>1, <1>4, <2>1, <2>2, <2>3, <2>4, <2>5, <2>7 DEF S
  <1> QED BY <1>3, <1>4

LEMMA CutPage ==
  ASSUME NEW found \in Seq(Ids), NEW after, ListLimit \in Nat \ {0}
  PROVE  LET page == Lists!Page(found, after)
         IN  /\ page.items \in Seq(Ids) /\ Len(page.items) <= ListLimit
             /\ \A k \in DOMAIN page.items : k \in DOMAIN found /\ page.items[k] = found[k]
             /\ \A k \in DOMAIN found : k \in DOMAIN page.items \/ k > Len(page.items)
             /\ Len(found) > ListLimit =>
                  Len(page.items) = ListLimit /\ page.cursor = Lists!NextCursor(page.items, after)
             /\ Len(found) <= ListLimit => page.items = found /\ page.cursor = Lists!NoCursor
             /\ page = [items |-> page.items, cursor |-> page.cursor]
  <1> DEFINE n == IF Len(found) < ListLimit THEN Len(found) ELSE ListLimit
             firsts == SubSeq(found, 1, n)
  <1>1. n \in Nat /\ n <= Len(found) /\ n <= ListLimit /\ (Len(found) > ListLimit => n = ListLimit)
        BY DEF n
  <1>2. /\ firsts \in Seq(Ids) /\ Len(firsts) = n /\ DOMAIN firsts = 1 .. n
        /\ \A k \in 1 .. n : firsts[k] = found[k]
        BY <1>1
  <1>3. Len(found) <= ListLimit => firsts = found
        <2> SUFFICES ASSUME Len(found) <= ListLimit PROVE firsts = found
            OBVIOUS
        <2>1. n = Len(found)
              BY DEF n
        <2> QED BY <1>2, <2>1
  <1>4. Lists!Page(found, after) = [items |-> firsts,
                   cursor |-> IF Len(found) > ListLimit THEN Lists!NextCursor(firsts, after)
                             ELSE Lists!NoCursor]
        BY DEF Lists!Page
  <1> HIDE DEF firsts
  <1> QED BY <1>1, <1>2, <1>3, <1>4

OnPage(page, i) == \E k \in DOMAIN page.items : page.items[k] = i

LEMMA PageKeepsAll ==
  ASSUME ListsTyped, NEW after \in Cursors
  PROVE  LET page == Lists!PageAfter(after)
         IN  /\ page \in Pages
             /\ \A i \in Remaining(after) : OnPage(page, i) \/ Lists!ToCome(i, page.cursor)
             /\ \A k \in DOMAIN page.items, i \in Remaining(after) :
                  \/ \E l \in DOMAIN page.items : page.items[l] = i /\ l <= k
                  \/ Lists!Behind(Lists!AnchorOf(i), Lists!AnchorOf(page.items[k]))
  <1> DEFINE found == FoundAfter(after)
             page == Lists!PageAfter(after)
  <1>1. /\ page = Lists!Page(found, after) /\ found \in Seq(Ids)
        /\ \A k \in DOMAIN found : found[k] \in Lists!Live
        /\ \A k, l \in DOMAIN found : k < l =>
             Lists!Behind(Lists!AnchorOf(found[l]), Lists!AnchorOf(found[k]))
        /\ \A i \in Remaining(after) : \E l \in DOMAIN found :
              /\ found[l] = i
              /\ order = "offset" => Cardinality(Lists!Ahead(Lists!Live, i)) = after.id + l - 1
        BY FoundInOrder
  <1>2. /\ ListLimit \in Nat \ {0} /\ rows \in [Ids -> Int] /\ Lists!Live \subseteq Ids
           /\ Ids \subseteq Nat
        /\ after.id \in Nat
        BY RowsTyped DEF Cursors
  <1> HIDE DEF found
  <1>3. /\ page.items \in Seq(Ids) /\ Len(page.items) <= ListLimit
        /\ \A k \in DOMAIN page.items : k \in DOMAIN found /\ page.items[k] = found[k]
        /\ \A k \in DOMAIN found : k \in DOMAIN page.items \/ k > Len(page.items)
        /\ Len(found) > ListLimit =>
             Len(page.items) = ListLimit /\ page.cursor = Lists!NextCursor(page.items, after)
        /\ Len(found) <= ListLimit => page.items = found /\ page.cursor = Lists!NoCursor
        /\ page = [items |-> page.items, cursor |-> page.cursor]
        BY <1>1, <1>2, CutPage
  <1> HIDE DEF page
  <1>4. CASE Len(found) <= ListLimit
        <2>1. Lists!NoCursor \in Cursors
              BY DEF Lists!NoCursor, Lists!Anchor, Cursors
        <2>2. page \in Pages
              BY <1>3, <1>4, <2>1 DEF Pages
        <2>3. \A i \in Remaining(after) : OnPage(page, i)
              BY <1>1, <1>3, <1>4 DEF OnPage
        <2>4. ASSUME NEW k \in DOMAIN page.items, NEW i \in Remaining(after)
              PROVE  \/ \E l \in DOMAIN page.items : page.items[l] = i /\ l <= k
                     \/ Lists!Behind(Lists!AnchorOf(i), Lists!AnchorOf(page.items[k]))
              BY <1>1, <1>3, <1>4
        <2> QED BY <2>2, <2>3, <2>4 DEF page
  <1>5. CASE Len(found) > ListLimit
        <2> DEFINE last == page.items[ListLimit]
        <2>1. ListLimit \in DOMAIN page.items /\ Len(page.items) = ListLimit
              /\ Lists!Last(page.items) = last
              BY <1>2, <1>3, <1>5 DEF Lists!Last
        <2>2. last \in Lists!Live /\ last = found[ListLimit] /\ ListLimit \in DOMAIN found
              /\ rows[last] \in Nat \ {0}
              /\ last \in Nat
              BY <1>1, <1>2, <1>3, <2>1 DEF Lists!Live
        <2> HIDE DEF last
        <2>3. page.cursor = IF order = "offset" THEN [time |-> 0, id |-> after.id + ListLimit]
                            ELSE [time |-> rows[last], id |-> last]
              BY <1>3, <1>5, <2>1 DEF Lists!NextCursor, Lists!Anchor, Lists!AnchorOf
        <2>4. page.cursor \in Cursors /\ page.cursor # Lists!NoCursor
              BY <1>2, <2>2, <2>3 DEF Cursors, Lists!NoCursor, Lists!Anchor
        <2>5. page \in Pages
              BY <1>3, <2>4 DEF Pages
        <2>6. ASSUME NEW i \in Remaining(after)
              PROVE  OnPage(page, i) \/ Lists!ToCome(i, page.cursor)
              <3>1. PICK l \in DOMAIN found :
                      /\ found[l] = i
                      /\ order = "offset" => Cardinality(Lists!Ahead(Lists!Live, i)) = after.id + l - 1
                    BY <1>1
              <3>2. CASE l \in DOMAIN page.items
                    BY <1>3, <3>1, <3>2 DEF OnPage
              <3>3. CASE l > ListLimit
                    <4>1. l \in Nat /\ Lists!Behind(Lists!AnchorOf(i), Lists!AnchorOf(last))
                          BY <1>1, <2>2, <3>1, <3>3
                    <4>2. CASE order = "offset"
                          <5>1. Cardinality(Lists!Ahead(Lists!Live, i)) >= page.cursor.id
                                BY <1>2, <2>3, <3>1, <3>3, <4>1, <4>2
                          <5> QED BY <2>4, <4>2, <5>1, SameCounts DEF Lists!ToCome
                    <4>3. CASE order # "offset"
                          BY <2>3, <2>4, <4>1, <4>3 DEF Lists!ToCome, Lists!AnchorOf, Lists!Anchor
                    <4> QED BY <4>2, <4>3
              <3> QED BY <1>3, <2>1, <3>1, <3>2, <3>3
        <2>7. ASSUME NEW k \in DOMAIN page.items, NEW i \in Remaining(after)
              PROVE  \/ \E l \in DOMAIN page.items : page.items[l] = i /\ l <= k
                     \/ Lists!Behind(Lists!AnchorOf(i), Lists!AnchorOf(page.items[k]))
              <3>1. PICK l \in DOMAIN found : found[l] = i
                    BY <1>1
              <3>2. k \in DOMAIN found /\ page.items[k] = found[k] /\ k \in Nat /\ l \in Nat
                      /\ DOMAIN page.items = 1 .. Len(page.items) /\ DOMAIN found = 1 .. Len(found)
                    BY <1>1, <1>3
              <3>3. CASE l <= k
                    <4>1. l \in DOMAIN page.items /\ page.items[l] = i
                          BY <1>3, <3>1, <3>2, <3>3
                    <4> QED BY <3>3, <4>1
              <3>4. CASE l > k
                    BY <1>1, <3>1, <3>2, <3>4
              <3> QED BY <3>2, <3>3, <3>4
        <2> QED BY <2>5, <2>6, <2>7 DEF page
  <1>6. Len(found) \in Nat
        BY <1>1
  <1> QED BY <1>2, <1>4, <1>5, <1>6

-----------------------------------------------------------------------------
LEMMA CursorTyped ==
  ASSUME NEW pages \in Seq(Pages)
  PROVE  /\ Lists!CursorOf(pages) \in Cursors
         /\ \A page \in Pages : Lists!CursorOf(Append(pages, page)) = page.cursor
  <1>1. Lists!NoCursor \in Cursors
        BY DEF Lists!NoCursor, Lists!Anchor, Cursors
  <1>2. pages # <<>> => pages[Len(pages)] \in Pages
        OBVIOUS
  <1>3. ASSUME NEW page \in Pages PROVE Lists!CursorOf(Append(pages, page)) = page.cursor
        <2>1. Append(pages, page) # <<>> /\ Append(pages, page)[Len(Append(pages, page))] = page
              OBVIOUS
        <2> QED BY <2>1 DEF Lists!CursorOf, Lists!Last
  <1> QED BY <1>1, <1>2, <1>3 DEF Lists!CursorOf, Lists!Last, Pages

LEMMA PlacesGrow ==
  ASSUME NEW pages \in Seq(Pages), NEW page \in Pages, NEW i, ListLimit \in Nat \ {0}
  PROVE  /\ \A p \in Lists!Places(pages, i) : /\ p \in Lists!Places(Append(pages, page), i)
                                              /\ p[1] \in Nat /\ p[2] \in Nat /\ p[1] <= Len(pages)
         /\ \A k \in DOMAIN page.items :
              page.items[k] = i => <<Len(pages) + 1, k>> \in Lists!Places(Append(pages, page), i)
         /\ \A p \in Lists!Places(Append(pages, page), i) :
              \/ p \in Lists!Places(pages, i)
              \/ /\ p[1] = Len(pages) + 1 /\ p[2] \in DOMAIN page.items
                 /\ page.items[p[2]] = i /\ p[2] \in Nat
  <1> DEFINE K == Len(pages) + 1
             new == Append(pages, page)
  <1>1. /\ Len(pages) \in Nat /\ Len(new) = K /\ new[K] = page
        /\ \A k \in 1 .. Len(pages) : new[k] = pages[k]
        OBVIOUS
  <1>2. /\ page.items \in Seq(Ids) /\ Len(page.items) \in Nat /\ Len(page.items) <= ListLimit
        /\ DOMAIN page.items = 1 .. Len(page.items)
        BY DEF Pages
  <1> HIDE DEF new
  <1>3. ASSUME NEW p \in Lists!Places(pages, i)
        PROVE  p \in Lists!Places(new, i) /\ p[1] \in Nat /\ p[2] \in Nat /\ p[1] <= Len(pages)
        <2>1. /\ p \in (1 .. Len(pages)) \X (1 .. ListLimit)
              /\ p[2] \in DOMAIN pages[p[1]].items /\ pages[p[1]].items[p[2]] = i
              BY DEF Lists!Places
        <2>2. p[1] \in 1 .. Len(pages) /\ p[2] \in 1 .. ListLimit /\ p = <<p[1], p[2]>>
              BY <2>1
        <2>3. p[1] \in 1 .. Len(new) /\ new[p[1]] = pages[p[1]]
              BY <1>1, <2>2
        <2>4. p \in (1 .. Len(new)) \X (1 .. ListLimit)
              BY <2>2, <2>3
        <2> QED BY <1>1, <2>1, <2>2, <2>3, <2>4 DEF Lists!Places
  <1>4. ASSUME NEW k \in DOMAIN page.items, page.items[k] = i
        PROVE  <<K, k>> \in Lists!Places(new, i)
        <2>1. K \in 1 .. Len(new) /\ k \in 1 .. ListLimit
              BY <1>1, <1>2
        <2>2. <<K, k>> \in (1 .. Len(new)) \X (1 .. ListLimit) /\ <<K, k>>[1] = K /\ <<K, k>>[2] = k
              BY <2>1
        <2> HIDE DEF K
        <2> QED BY <1>1, <1>4, <2>2 DEF Lists!Places
  <1>5. ASSUME NEW p \in Lists!Places(new, i)
        PROVE  \/ p \in Lists!Places(pages, i)
               \/ /\ p[1] = K /\ p[2] \in DOMAIN page.items /\ page.items[p[2]] = i /\ p[2] \in Nat
        <2>1. /\ p \in (1 .. Len(new)) \X (1 .. ListLimit)
              /\ p[2] \in DOMAIN new[p[1]].items /\ new[p[1]].items[p[2]] = i
              BY DEF Lists!Places
        <2>2. p[1] \in 1 .. Len(new) /\ p[2] \in 1 .. ListLimit /\ p = <<p[1], p[2]>>
              BY <2>1
        <2>3. CASE p[1] = K
              BY <1>1, <2>1, <2>2, <2>3
        <2>4. CASE p[1] # K
              <3>1. p[1] \in 1 .. Len(pages) /\ new[p[1]] = pages[p[1]]
                    BY <1>1, <2>2, <2>4
              <3>2. p \in (1 .. Len(pages)) \X (1 .. ListLimit)
                    BY <2>2, <3>1
              <3> QED BY <2>1, <3>1, <3>2 DEF Lists!Places
        <2> QED BY <2>3, <2>4
  <1> QED BY <1>3, <1>4, <1>5 DEF new

LEMMA PageAppended ==
  ASSUME ListsTyped, NEW pages \in Seq(Pages), NEW stayed \in SUBSET Lists!Live,
         Lists!IsWhole(pages, stayed), Lists!InOrder(pages, stayed),
         pages # <<>> => Lists!CursorOf(pages) # Lists!NoCursor
  PROVE  LET page == Lists!PageAfter(Lists!CursorOf(pages))
             new == Append(pages, page)
             st == IF pages = <<>> THEN Lists!Live ELSE stayed
         IN  /\ new \in Seq(Pages) /\ st \in SUBSET Lists!Live /\ Lists!CursorOf(new) = page.cursor
             /\ Lists!IsWhole(new, st) /\ Lists!InOrder(new, st)
  <1> DEFINE after == Lists!CursorOf(pages)
             page == Lists!PageAfter(after)
             new == Append(pages, page)
             st == IF pages = <<>> THEN Lists!Live ELSE stayed
  <1>1. after \in Cursors
        BY CursorTyped
  <1>2. /\ page \in Pages
        /\ \A i \in Remaining(after) : OnPage(page, i) \/ Lists!ToCome(i, page.cursor)
        /\ \A k \in DOMAIN page.items, i \in Remaining(after) :
             \/ \E l \in DOMAIN page.items : page.items[l] = i /\ l <= k
             \/ Lists!Behind(Lists!AnchorOf(i), Lists!AnchorOf(page.items[k]))
        BY <1>1, PageKeepsAll
  <1>3. ListLimit \in Nat \ {0} /\ rows \in [Ids -> Int] /\ Lists!Live \in SUBSET Ids
        BY RowsTyped
  <1>4. ASSUME NEW i \in st, ~Lists!Shown(pages, i)
        PROVE  i \in Remaining(after)
        <2>1. CASE pages = <<>>
              <3>1. i \in Lists!Live /\ after = Lists!NoCursor /\ Lists!NoCursor.id = 0
                    BY <2>1 DEF Lists!CursorOf, Lists!NoCursor, Lists!Anchor
              <3>2. Cardinality(Lists!Ahead(Lists!Live, i)) \in Nat
                    BY <1>3, <3>1, PlaceCounts
              <3> QED BY <3>1, <3>2 DEF Remaining
        <2>2. CASE pages # <<>>
              <3>1. Lists!ToCome(i, after) /\ i \in Lists!Live
                    BY <1>4, <2>2 DEF Lists!IsWhole
              <3> QED BY <3>1, SameCounts DEF Lists!ToCome, Remaining
        <2> QED BY <2>1, <2>2
  <1> HIDE DEF page, after
  <1>5. \A i : /\ \A p \in Lists!Places(pages, i) : /\ p \in Lists!Places(new, i) /\ p[1] \in Nat /\ p[2] \in Nat
                                                    /\ p[1] <= Len(pages)
               /\ \A k \in DOMAIN page.items :
                    page.items[k] = i => <<Len(pages) + 1, k>> \in Lists!Places(new, i)
               /\ \A p \in Lists!Places(new, i) :
                    \/ p \in Lists!Places(pages, i)
                    \/ /\ p[1] = Len(pages) + 1 /\ p[2] \in DOMAIN page.items
                       /\ page.items[p[2]] = i /\ p[2] \in Nat
        BY <1>2, <1>3, PlacesGrow
  <1>6. Lists!CursorOf(new) = page.cursor /\ new \in Seq(Pages) /\ Len(pages) \in Nat
        BY <1>2, CursorTyped
  <1> HIDE DEF new
  <1>7. Lists!IsWhole(new, st)
        <2> SUFFICES ASSUME NEW i \in st, ~Lists!Shown(new, i)
                     PROVE  Lists!ToCome(i, page.cursor)
            BY <1>6 DEF Lists!IsWhole
        <2>1. ~Lists!Shown(pages, i) /\ ~OnPage(page, i)
              BY <1>5 DEF Lists!Shown, OnPage
        <2> QED BY <1>2, <1>4, <2>1
  <1>8. Lists!InOrder(new, st)
        <2> SUFFICES ASSUME NEW i \in st, NEW j \in st, Lists!ShownBefore(new, i, j)
                     PROVE  Lists!Behind(Lists!AnchorOf(j), Lists!AnchorOf(i))
            BY DEF Lists!InOrder
        <2>1. PICK p \in Lists!Places(new, i) : \A q \in Lists!Places(new, j) : Lists!Before(p, q)
              BY DEF Lists!ShownBefore
        <2>2. CASE p \in Lists!Places(pages, i)
              <3>1. Lists!ShownBefore(pages, i, j)
                    BY <1>5, <2>1, <2>2 DEF Lists!ShownBefore
              <3>2. pages # <<>>
                    BY <2>2 DEF Lists!Places
              <3> QED BY <3>1, <3>2 DEF Lists!InOrder
        <2>3. CASE p \notin Lists!Places(pages, i)
              <3>1. /\ p[1] = Len(pages) + 1 /\ p[2] \in DOMAIN page.items
                    /\ page.items[p[2]] = i /\ p[2] \in Nat
                    BY <1>5, <2>3
              <3>2. ASSUME NEW q \in Lists!Places(pages, j)
                    PROVE  FALSE
                    <4>1. q \in Lists!Places(new, j) /\ q[1] \in Nat /\ q[1] <= Len(pages)
                          BY <1>5
                    <4>2. Lists!Before(p, q)
                          BY <2>1, <4>1
                    <4> QED BY <1>6, <3>1, <4>1, <4>2 DEF Lists!Before
              <3>3. j \in Remaining(after)
                    BY <1>4, <3>2 DEF Lists!Shown
              <3>4. ASSUME NEW l \in DOMAIN page.items, page.items[l] = j, l <= p[2]
                    PROVE  FALSE
                    <4>1. <<Len(pages) + 1, l>> \in Lists!Places(new, j)
                          BY <1>5, <3>4
                    <4>2. Lists!Before(p, <<Len(pages) + 1, l>>)
                          BY <2>1, <4>1
                    <4>3. l \in Nat
                          BY <1>2 DEF Pages
                    <4> QED BY <1>6, <3>1, <3>4, <4>2, <4>3 DEF Lists!Before
              <3> QED BY <1>2, <3>1, <3>3, <3>4
        <2> QED BY <2>2, <2>3
  <1>9. st \in SUBSET Lists!Live
        OBVIOUS
  <1> QED BY <1>6, <1>7, <1>8, <1>9 DEF new, page, after

-----------------------------------------------------------------------------
LEMMA ListsInit == Lists!Init => ListsInv
  <1> SUFFICES ASSUME Lists!Init PROVE ListsInv
      OBVIOUS
  <1>1. MaxListTime \in Nat
        BY ScreensAssumption DEF Lists!PagedListAssumption
  <1>2. /\ order \in {"created", "updated", "offset"} /\ rows \in [Ids -> Lists!Gone .. MaxListTime]
        /\ data = Lists!NoPages /\ query = Lists!NoQuery /\ reads = 0
        BY <1>1 DEF Lists!Init, Lists!NotYet, Lists!Gone
  <1>3. <<>> \in Seq(Pages)
        OBVIOUS
  <1>4. ListsTyped
        BY <1>2, <1>3 DEF ListsTyped, Lists!NoPages, Lists!NoQuery
  <1>5. \A i : ~Lists!Shown(<<>>, i) /\ \A j : ~Lists!ShownBefore(<<>>, i, j)
        BY DEF Lists!Shown, Lists!ShownBefore, Lists!Places
  <1> QED BY <1>2, <1>4, <1>5 DEF ListsInv, Lists!IsWhole, Lists!InOrder, Lists!NoPages,
     Lists!NoQuery

(* What a list is made of, before and after rows have moved *)
LEMMA ListStays ==
  ASSUME NEW pages \in Seq(Pages), NEW stayed \in SUBSET Lists!Live, NEW S \in SUBSET Ids,
         ListsTyped, rows' \in [Ids -> Lists!Gone .. MaxListTime], order' = order,
         \A i \in Lists!Live \ S : rows'[i] = rows[i],
         order = "offset" =>
           \A i \in Lists!Live \ S :
             Lists!Ahead(Lists!Live, i) \subseteq Lists!Ahead(Lists!Live, i)',
         Lists!IsWhole(pages, stayed), Lists!InOrder(pages, stayed)
  PROVE  /\ stayed \ S \in SUBSET Lists!Live'
         /\ (pages # <<>> => \A i \in stayed \ S :
                \/ Lists!Shown(pages, i)
                \/ /\ Lists!CursorOf(pages) # Lists!NoCursor
                   /\ IF order = "offset"
                      THEN Cardinality(Lists!Ahead(Lists!Live, i)') >= Lists!CursorOf(pages).id
                      ELSE Lists!Behind(Lists!AnchorOf(i)', Lists!CursorOf(pages)))
         /\ \A i, j \in stayed \ S :
              Lists!ShownBefore(pages, i, j) => Lists!Behind(Lists!AnchorOf(j)', Lists!AnchorOf(i)')
  <1>1. /\ Lists!Live \in SUBSET Ids /\ Lists!Live' \in SUBSET Ids /\ rows \in [Ids -> Int]
        /\ IsFiniteSet(Ids)
        BY ScreensAssumption, RowsTyped, SameFinite DEF Lists!Live, Lists!PagedListAssumption
  <1>2. \A i \in stayed \ S : /\ i \in Lists!Live /\ i \in Lists!Live'
        /\ Lists!AnchorOf(i)' = Lists!AnchorOf(i)
                              /\ i \in Lists!Live \ S
        BY DEF Lists!Live, Lists!AnchorOf, Lists!Anchor
  <1>3. ASSUME NEW i \in stayed \ S, pages # <<>>, ~Lists!Shown(pages, i)
        PROVE  /\ Lists!CursorOf(pages) # Lists!NoCursor
               /\ IF order = "offset"
                  THEN Cardinality(Lists!Ahead(Lists!Live, i)') >= Lists!CursorOf(pages).id
                  ELSE Lists!Behind(Lists!AnchorOf(i)', Lists!CursorOf(pages))
        <2> DEFINE c == Lists!CursorOf(pages)
        <2>1. Lists!ToCome(i, c)
              BY <1>3 DEF Lists!IsWhole
        <2>2. CASE order = "offset"
              <3>1. Lists!Ahead(Lists!Live, i) \subseteq Lists!Ahead(Lists!Live, i)'
                    /\ Lists!Ahead(Lists!Live, i)' \subseteq Ids
                    BY <1>1, <1>2, <2>2 DEF Lists!Ahead
              <3>2. IsFiniteSet(Lists!Ahead(Lists!Live, i)')
                    BY <1>1, <3>1, FS_Subset
              <3>3. Cardinality(Lists!Ahead(Lists!Live, i)) <= Cardinality(Lists!Ahead(Lists!Live, i)')
                    BY <3>1, <3>2, FS_Subset
              <3>4. Cardinality(Lists!Ahead(Lists!Live, i)) \in Nat
                    /\ Cardinality(Lists!Ahead(Lists!Live, i)') \in Nat
                    BY <3>1, <3>2, FS_Subset, FS_CardinalityType
              <3>5. Cardinality(Lists!Ahead(Lists!Live, i)) >= c.id /\ c \in Cursors
                    /\ c # Lists!NoCursor
                    BY <2>1, <2>2, CursorTyped, SameCounts DEF Lists!ToCome
              <3>6. Cardinality(Lists!Ahead(Lists!Live, i)') >= c.id
                    BY <3>3, <3>4, <3>5 DEF Cursors
              <3> QED BY <2>2, <3>5, <3>6
        <2>3. CASE order # "offset"
              <3>1. Lists!Behind(Lists!AnchorOf(i), c) /\ c # Lists!NoCursor
                    BY <2>1, <2>3 DEF Lists!ToCome
              <3>2. Lists!Behind(Lists!AnchorOf(i)', c)
                    BY <1>2, <3>1
              <3> QED BY <2>3, <3>1, <3>2
        <2> QED BY <2>2, <2>3
  <1>4. ASSUME NEW i \in stayed \ S, NEW j \in stayed \ S, Lists!ShownBefore(pages, i, j)
        PROVE  Lists!Behind(Lists!AnchorOf(j)', Lists!AnchorOf(i)')
        <2>1. Lists!Behind(Lists!AnchorOf(j), Lists!AnchorOf(i))
              BY <1>4 DEF Lists!InOrder
        <2> QED BY <1>2, <2>1
  <1> QED BY <1>2, <1>3, <1>4

LEMMA RowsMove ==
  ASSUME ListsInv, NEW S \in SUBSET Ids, Lists!Moves(S),
         rows' \in [Ids -> Lists!Gone .. MaxListTime],
         \A i \in Lists!Live \ S : rows'[i] = rows[i],
         order = "offset" =>
           \A i \in Lists!Live \ S :
             Lists!Ahead(Lists!Live, i) \subseteq Lists!Ahead(Lists!Live, i)'
  PROVE  ListsInv'
  <1>1. /\ ListsTyped /\ order' = order /\ reads' = reads
        /\ data \in [pages : Seq(Pages), stayed : SUBSET Lists!Live]
        /\ query \in [pages : Seq(Pages), stayed : SUBSET Lists!Live, fetching : BOOLEAN, wanted : Nat]
        BY DEF ListsInv, ListsTyped, Lists!Moves
  <1>2. /\ data' = [pages |-> data.pages, stayed |-> data.stayed \ S]
        /\ query' = [pages |-> query.pages, stayed |-> query.stayed \ S,
                     fetching |-> query.fetching, wanted |-> query.wanted]
        BY <1>1 DEF Lists!Moves
  <1>3. ASSUME NEW pages \in Seq(Pages), NEW stayed \in SUBSET Lists!Live,
               Lists!IsWhole(pages, stayed), Lists!InOrder(pages, stayed)
        PROVE  /\ stayed \ S \in SUBSET Lists!Live'
               /\ (pages # <<>> => \A i \in stayed \ S :
                     \/ Lists!Shown(pages, i)
                     \/ /\ Lists!CursorOf(pages) # Lists!NoCursor
                        /\ IF order = "offset"
                           THEN Cardinality(Lists!Ahead(Lists!Live, i)') >= Lists!CursorOf(pages).id
                           ELSE Lists!Behind(Lists!AnchorOf(i)', Lists!CursorOf(pages)))
               /\ \A i, j \in stayed \ S :
                    Lists!ShownBefore(pages, i, j) =>
                      Lists!Behind(Lists!AnchorOf(j)', Lists!AnchorOf(i)')
        BY <1>1, <1>3, ListStays
  <1>4. /\ data.pages \in Seq(Pages) /\ data.stayed \in SUBSET Lists!Live
        /\ query.pages \in Seq(Pages) /\ query.stayed \in SUBSET Lists!Live
        /\ query.fetching \in BOOLEAN /\ query.wanted \in Nat
        BY <1>1
  <1>5. /\ data'.pages = data.pages /\ data'.stayed = data.stayed \ S
        /\ query'.pages = query.pages /\ query'.stayed = query.stayed \ S
        /\ query'.fetching = query.fetching
        BY <1>2
  <1>6. /\ Lists!IsWhole(data.pages, data.stayed) /\ Lists!InOrder(data.pages, data.stayed)
        /\ Lists!IsWhole(query.pages, query.stayed) /\ Lists!InOrder(query.pages, query.stayed)
        /\ query.fetching /\ query.pages # <<>> => Lists!CursorOf(query.pages) # Lists!NoCursor
        BY DEF ListsInv
  <1>7. ListsTyped'
        <2>1. data.stayed \ S \in SUBSET Lists!Live' /\ query.stayed \ S \in SUBSET Lists!Live'
              BY <1>3, <1>4, <1>6
        <2>2. data' \in [pages : Seq(Pages), stayed : SUBSET Lists!Live']
              BY <1>2, <1>4, <2>1
        <2>3. query' \in [pages : Seq(Pages), stayed : SUBSET Lists!Live', fetching : BOOLEAN, wanted : Nat]
              BY <1>2, <1>4, <2>1
        <2> QED BY <1>1, <2>2, <2>3 DEF ListsTyped, Pages, Cursors
  <1>8. (Lists!IsWhole(data.pages, data.stayed) /\ Lists!InOrder(data.pages, data.stayed))'
        <2>1. Lists!IsWhole(data.pages, data.stayed)'
              BY <1>1, <1>3, <1>4, <1>5, <1>6, SameCounts DEF Lists!IsWhole, Lists!ToCome
        <2>2. Lists!InOrder(data.pages, data.stayed)'
              BY <1>1, <1>3, <1>4, <1>5, <1>6 DEF Lists!InOrder
        <2> QED BY <2>1, <2>2
  <1>9. (Lists!IsWhole(query.pages, query.stayed) /\ Lists!InOrder(query.pages, query.stayed))'
        <2>1. Lists!IsWhole(query.pages, query.stayed)'
              BY <1>1, <1>3, <1>4, <1>5, <1>6, SameCounts DEF Lists!IsWhole, Lists!ToCome
        <2>2. Lists!InOrder(query.pages, query.stayed)'
              BY <1>1, <1>3, <1>4, <1>5, <1>6 DEF Lists!InOrder
        <2> QED BY <2>1, <2>2
  <1>10. (query.fetching /\ query.pages # <<>> => Lists!CursorOf(query.pages) # Lists!NoCursor)'
        BY <1>5, <1>6
  <1> QED BY <1>7, <1>8, <1>9, <1>10 DEF ListsInv

LEMMA RowsKept ==
  ASSUME ListsInv, NEW i \in Ids, Lists!Create(i) \/ Lists!Touch(i) \/ Lists!Delete(i)
  PROVE  ListsInv'
  <1>1. /\ ListsTyped /\ rows \in [Ids -> Lists!Gone .. MaxListTime] /\ MaxListTime \in Nat
        /\ \A j \in Lists!Live : j \in Ids /\ rows[j] > 0
        BY ScreensAssumption DEF ListsInv, ListsTyped, Lists!PagedListAssumption, Lists!Live
  <1>2. CASE Lists!Create(i) \/ Lists!Touch(i)
        <2>1. PICK time \in 1 .. MaxListTime : rows' = [rows EXCEPT ![i] = time]
              BY <1>1, <1>2 DEF Lists!Create, Lists!Touch
        <2>2. rows' \in [Ids -> Lists!Gone .. MaxListTime]
              /\ \A j \in Ids \ {i} : rows'[j] = rows[j]
              BY <1>1, <2>1 DEF Lists!Gone
        <2>3. \A j \in Lists!Live \ {i} : rows'[j] = rows[j]
              BY <1>1, <2>2
        <2>4. ASSUME order = "offset", NEW j \in Lists!Live \ {i}
              PROVE  Lists!Ahead(Lists!Live, j) \subseteq Lists!Ahead(Lists!Live, j)'
              <3>1. rows[i] = Lists!NotYet
                    BY <1>2, <2>4 DEF Lists!Create, Lists!Touch
              <3>2. i \notin Lists!Live
                    BY <3>1 DEF Lists!Live, Lists!NotYet
              <3> QED BY <1>1, <2>2, <3>2 DEF Lists!Ahead, Lists!Live, Lists!AnchorOf,
                 Lists!Anchor, Lists!Behind
        <2>5. Lists!Moves({i}) /\ {i} \in SUBSET Ids
              BY <1>2 DEF Lists!Create, Lists!Touch
        <2> QED BY <2>2, <2>3, <2>4, <2>5, RowsMove
  <1>3. CASE Lists!Delete(i)
        <2> DEFINE S == {i} \cup {j \in Lists!Live : /\ order = "offset"
                                                     /\ Lists!Behind(Lists!AnchorOf(j), Lists!AnchorOf(i))}
        <2>1. rows' = [rows EXCEPT ![i] = Lists!Gone] /\ Lists!Moves(S) /\ S \in SUBSET Ids
              BY <1>1, <1>3 DEF Lists!Delete
        <2>2. rows' \in [Ids -> Lists!Gone .. MaxListTime]
              /\ \A j \in Ids \ {i} : rows'[j] = rows[j]
              BY <1>1, <2>1 DEF Lists!Gone
        <2>3. \A j \in Lists!Live \ S : rows'[j] = rows[j]
              BY <1>1, <2>2
        <2>4. ASSUME order = "offset", NEW j \in Lists!Live \ S
              PROVE  Lists!Ahead(Lists!Live, j) \subseteq Lists!Ahead(Lists!Live, j)'
              <3>1. j \in Lists!Live /\ j # i /\ ~Lists!Behind(Lists!AnchorOf(j), Lists!AnchorOf(i))
                    BY <2>4
              <3>2. i \notin Lists!Ahead(Lists!Live, j)
                    BY <3>1 DEF Lists!Ahead
              <3> HIDE DEF S
              <3> QED BY <1>1, <2>2, <3>1, <3>2 DEF Lists!Ahead, Lists!Live, Lists!AnchorOf,
                 Lists!Anchor, Lists!Behind
        <2> HIDE DEF S
        <2> QED BY <2>1, <2>2, <2>3, <2>4, RowsMove
  <1> QED BY <1>2, <1>3

LEMMA NothingShown ==
  \A stayed : Lists!IsWhole(<<>>, stayed) /\ Lists!InOrder(<<>>, stayed)
  <1>1. \A i, j : ~Lists!ShownBefore(<<>>, i, j)
        BY DEF Lists!ShownBefore, Lists!Places
  <1> QED BY <1>1 DEF Lists!IsWhole, Lists!InOrder

(* A fetch begins, gives up or is answered; rows are as they were *)
LEMMA ListsReplaced ==
  ASSUME ListsInv, UNCHANGED <<order, rows>>, reads' \in Nat,
         NEW d, NEW q, data' = d, query' = q,
         d \in [pages : Seq(Pages), stayed : SUBSET Lists!Live],
         q \in [pages : Seq(Pages), stayed : SUBSET Lists!Live, fetching : BOOLEAN, wanted : Nat],
         Lists!IsWhole(d.pages, d.stayed) /\ Lists!InOrder(d.pages, d.stayed),
         Lists!IsWhole(q.pages, q.stayed) /\ Lists!InOrder(q.pages, q.stayed),
         q.fetching /\ q.pages # <<>> => Lists!CursorOf(q.pages) # Lists!NoCursor
  PROVE  ListsInv'
  <1>1. Lists!Live' = Lists!Live /\ \A i : Lists!AnchorOf(i)' = Lists!AnchorOf(i)
        /\ Lists!Ahead(Lists!Live, i)' = Lists!Ahead(Lists!Live, i)
        BY DEF Lists!Live, Lists!AnchorOf, Lists!Anchor, Lists!Ahead
  <1>2. ListsTyped'
        BY <1>1 DEF ListsInv, ListsTyped, Pages, Cursors
  <1>3. (Lists!IsWhole(data.pages, data.stayed) /\ Lists!IsWhole(query.pages, query.stayed))'
        BY <1>1 DEF Lists!IsWhole, Lists!ToCome
  <1>4. (Lists!InOrder(data.pages, data.stayed) /\ Lists!InOrder(query.pages, query.stayed))'
        BY <1>1 DEF Lists!InOrder
  <1> QED BY <1>2, <1>3, <1>4 DEF ListsInv

LEMMA ListsParts ==
  ASSUME ListsInv
  PROVE  /\ data \in [pages : Seq(Pages), stayed : SUBSET Lists!Live]
         /\ query \in [pages : Seq(Pages), stayed : SUBSET Lists!Live, fetching : BOOLEAN, wanted : Nat]
         /\ Lists!IsWhole(data.pages, data.stayed) /\ Lists!InOrder(data.pages, data.stayed)
         /\ Lists!IsWhole(query.pages, query.stayed) /\ Lists!InOrder(query.pages, query.stayed)
         /\ query.fetching /\ query.pages # <<>> => Lists!CursorOf(query.pages) # Lists!NoCursor
         /\ Lists!NoPages \in [pages : Seq(Pages), stayed : SUBSET Lists!Live]
         /\ Lists!NoQuery \in [pages : Seq(Pages), stayed : SUBSET Lists!Live, fetching : BOOLEAN, wanted : Nat]
         /\ Lists!IsWhole(Lists!NoPages.pages, Lists!NoPages.stayed)
            /\ Lists!InOrder(Lists!NoPages.pages, Lists!NoPages.stayed)
         /\ Lists!IsWhole(Lists!NoQuery.pages, Lists!NoQuery.stayed)
            /\ Lists!InOrder(Lists!NoQuery.pages, Lists!NoQuery.stayed)
         /\ ~Lists!NoQuery.fetching /\ Lists!NoPages.pages = <<>>
         /\ reads \in Nat /\ reads + 1 \in Nat
  <1>1. <<>> \in Seq(Pages)
        OBVIOUS
  <1>2. ListsTyped
        BY DEF ListsInv
  <1> QED BY <1>1, <1>2, NothingShown DEF ListsInv, ListsTyped, Lists!NoPages, Lists!NoQuery

LEMMA FetchesKept ==
  ASSUME ListsInv, Lists!FetchNextPage \/ Lists!Refetch \/ Lists!Reset \/ Lists!FetchFails
  PROVE  ListsInv'
  <1>1. CASE Lists!FetchNextPage
        <2> DEFINE q == [pages |-> data.pages, stayed |-> data.stayed, fetching |-> TRUE,
                         wanted |-> Len(data.pages) + 1]
        <2>1. /\ data' = data /\ query' = q /\ UNCHANGED <<order, rows>> /\ reads' = reads + 1
              /\ Lists!CursorOf(data.pages) # Lists!NoCursor
              BY <1>1 DEF Lists!FetchNextPage, Lists!Fetches
        <2>2. /\ q \in [pages : Seq(Pages), stayed : SUBSET Lists!Live, fetching : BOOLEAN, wanted : Nat]
              /\ q.pages = data.pages /\ q.stayed = data.stayed
              BY ListsParts
        <2> HIDE DEF q
        <2> QED BY <2>1, <2>2, ListsParts, ListsReplaced
  <1>2. CASE Lists!Refetch
        <2> DEFINE q == [pages |-> Lists!NoPages.pages, stayed |-> Lists!NoPages.stayed, fetching |-> TRUE,
                         wanted |-> Len(data.pages)]
        <2>1. data' = data /\ query' = q /\ UNCHANGED <<order, rows>> /\ reads' = reads + 1
              BY <1>2 DEF Lists!Refetch, Lists!Fetches
        <2>2. /\ q \in [pages : Seq(Pages), stayed : SUBSET Lists!Live, fetching : BOOLEAN, wanted : Nat]
              /\ q.pages = Lists!NoPages.pages /\ q.stayed = Lists!NoPages.stayed
              BY ListsParts
        <2> HIDE DEF q
        <2> QED BY <2>1, <2>2, ListsParts, ListsReplaced
  <1>3. CASE Lists!Reset
        <2> DEFINE q == [pages |-> Lists!NoPages.pages, stayed |-> Lists!NoPages.stayed, fetching |-> TRUE,
                         wanted |-> 1]
        <2>1. data' = Lists!NoPages /\ query' = q /\ UNCHANGED <<order, rows>> /\ reads' = reads + 1
              BY <1>3 DEF Lists!Reset, Lists!Fetches
        <2>2. /\ q \in [pages : Seq(Pages), stayed : SUBSET Lists!Live, fetching : BOOLEAN, wanted : Nat]
              /\ q.pages = Lists!NoPages.pages /\ q.stayed = Lists!NoPages.stayed
              BY ListsParts
        <2> HIDE DEF q
        <2> QED BY <2>1, <2>2, ListsParts, ListsReplaced
  <1>4. CASE Lists!FetchFails
        <2>1. data' = data /\ query' = Lists!NoQuery /\ UNCHANGED <<order, rows>> /\ reads' = reads
              BY <1>4 DEF Lists!FetchFails
        <2> QED BY <2>1, ListsParts, ListsReplaced
  <1> QED BY <1>1, <1>2, <1>3, <1>4

LEMMA ReadKept ==
  ASSUME ListsInv, Lists!ReadsPage
  PROVE  ListsInv'
  <1> DEFINE page == Lists!PageAfter(Lists!CursorOf(query.pages))
             new == Append(query.pages, page)
             st == IF query.pages = <<>> THEN Lists!Live ELSE query.stayed
             now == [pages |-> new, stayed |-> st]
  <1>1. /\ query \in [pages : Seq(Pages), stayed : SUBSET Lists!Live, fetching : BOOLEAN, wanted : Nat]
        /\ query.pages \in Seq(Pages) /\ query.stayed \in SUBSET Lists!Live
        /\ query.fetching /\ ListsTyped
        BY ListsParts DEF Lists!ReadsPage, ListsInv
  <1>2. /\ new \in Seq(Pages) /\ st \in SUBSET Lists!Live /\ Lists!CursorOf(new) = page.cursor
        /\ Lists!IsWhole(new, st) /\ Lists!InOrder(new, st)
        BY <1>1, PageAppended, ListsParts
  <1>3. /\ UNCHANGED <<order, rows>> /\ reads' = reads
        /\ \/ data' = now /\ query' = Lists!NoQuery
           \/ /\ data' = data /\ page.cursor # Lists!NoCursor
              /\ query' = [query EXCEPT !.pages = now.pages, !.stayed = now.stayed]
        BY DEF Lists!ReadsPage
  <1> HIDE DEF page, new, st
  <1>4. CASE data' = now /\ query' = Lists!NoQuery
        <2>1. /\ now \in [pages : Seq(Pages), stayed : SUBSET Lists!Live]
              /\ now.pages = new /\ now.stayed = st
              BY <1>2
        <2> HIDE DEF now
        <2> QED BY <1>2, <1>3, <1>4, <2>1, ListsParts, ListsReplaced
  <1>5. CASE /\ data' = data /\ page.cursor # Lists!NoCursor
             /\ query' = [query EXCEPT !.pages = now.pages, !.stayed = now.stayed]
        <2> DEFINE q == [pages |-> new, stayed |-> st, fetching |-> query.fetching,
                         wanted |-> query.wanted]
        <2>1. /\ query' = q /\ q.pages = new /\ q.stayed = st
              /\ q \in [pages : Seq(Pages), stayed : SUBSET Lists!Live, fetching : BOOLEAN, wanted : Nat]
              BY <1>1, <1>2, <1>5
        <2> HIDE DEF q, now
        <2> QED BY <1>2, <1>3, <1>5, <2>1, ListsParts, ListsReplaced
  <1> QED BY <1>3, <1>4, <1>5

LEMMA ListsMove == ListsInv /\ Lists!Next => ListsInv'
  BY RowsKept, FetchesKept, ReadKept DEF Lists!Next

LEMMA ListsKept == ASSUME ListsInv, [Lists!Next]_Lists!vars PROVE ListsInv'
  <1>1. CASE Lists!Next
        BY <1>1, ListsMove
  <1>2. CASE UNCHANGED Lists!vars
        <2>1. UNCHANGED <<order, rows>> /\ data' = data /\ query' = query /\ reads' = reads
              BY <1>2 DEF Lists!vars
        <2>2. reads' \in Nat
              BY <2>1 DEF ListsInv, ListsTyped
        <2> QED BY <2>1, <2>2, ListsParts, ListsReplaced
  <1> QED BY <1>1, <1>2

LEMMA ListsFollows ==
  ASSUME ListsInv
  PROVE  Lists!TypeOK /\ Lists!ListsAreWhole
  <1>1. ASSUME NEW pages \in Seq(Pages)
        PROVE  \A k \in DOMAIN pages : \A n \in DOMAIN pages[k].items : pages[k].items[n] \in Ids
        BY DEF Pages
  <1>2. ListsTyped /\ data.pages \in Seq(Pages)
        BY DEF ListsInv, ListsTyped
  <1>3. Lists!TypeOK
        BY <1>1, <1>2 DEF Lists!TypeOK, ListsTyped
  <1> QED BY <1>3 DEF ListsInv, Lists!ListsAreWhole

-----------------------------------------------------------------------------
(* WorkflowDesigner and WorkflowGraphs.  A graph made by edits alone is a row of nodes, but for
   what is still missing, and comes back from its rows as it was. *)

(* The places that are kept, numbered in order *)
Numbers(at, seq, K) ==
  /\ at \in [1 .. Cardinality(K) -> K]
  /\ \A n \in 1 .. Cardinality(K) : Design!Kept(seq, K)[n] = seq[at[n]]
  /\ \A n, m \in 1 .. Cardinality(K) : at[n] = at[m] => n = m
  /\ \A k \in K : \E n \in 1 .. Cardinality(K) : at[n] = k

LEMMA KeptIs ==
  ASSUME NEW N \in Nat, NEW K \in SUBSET (1 .. N), NEW seq
  PROVE  /\ Cardinality(K) \in Nat
         /\ \E at : Numbers(at, seq, K)
         /\ Design!Kept(seq, K) = [n \in 1 .. Cardinality(K) |-> Design!Kept(seq, K)[n]]
  <1> DEFINE Below(k) == {l \in K : l < k}
             C == Cardinality(K)
             T == 1 .. C
             at == [n \in T |-> CHOOSE k \in K : Design!Cardinality({l \in K : l < k}) = n - 1]
             place == [k \in K |-> Cardinality(Below(k)) + 1]
  <1>1. IsFiniteSet(1 .. N)
        BY FS_Interval
  <1>2. IsFiniteSet(K) /\ C \in Nat
        BY <1>1, FS_Subset, FS_CardinalityType
  <1>3. \A k \in K : k \in Nat
        OBVIOUS
  <1>4. ASSUME NEW k \in K
        PROVE  IsFiniteSet(Below(k)) /\ Cardinality(Below(k)) \in Nat
               /\ Cardinality(Below(k)) + 1 \in T
        <2>1. Below(k) \subseteq K /\ k \notin Below(k)
              BY <1>3
        <2>2. IsFiniteSet(Below(k)) /\ Cardinality(Below(k)) <= C
              /\ (C = Cardinality(Below(k)) => K = Below(k))
              BY <1>2, <2>1, FS_Subset
        <2>3. Cardinality(Below(k)) \in Nat
              BY <2>2, FS_CardinalityType
        <2>4. Cardinality(Below(k)) # C
              BY <2>1, <2>2
        <2> QED BY <1>2, <2>2, <2>3, <2>4
  <1>5. ASSUME NEW k \in K, NEW l \in K, k < l
        PROVE  Cardinality(Below(k)) < Cardinality(Below(l))
        <2>1. Below(k) \subseteq Below(l) /\ k \in Below(l) /\ k \notin Below(k)
              <3>1. k \in Nat /\ l \in Nat /\ \A x \in K : x \in Nat
                    BY <1>3
              <3>2. \A x \in K : x < k => x < l
                    BY <1>5, <3>1
              <3>3. ~(k < k)
                    BY <3>1
              <3> QED BY <1>5, <3>2, <3>3
        <2>2. IsFiniteSet(Below(l)) /\ Cardinality(Below(l)) \in Nat
              /\ Cardinality(Below(k)) \in Nat
              BY <1>4
        <2>3. /\ Cardinality(Below(k)) <= Cardinality(Below(l))
              /\ Cardinality(Below(l)) = Cardinality(Below(k)) => Below(l) = Below(k)
              BY <2>1, <2>2, FS_Subset
        <2>4. Cardinality(Below(l)) # Cardinality(Below(k))
              BY <2>1, <2>3
        <2> QED BY <2>2, <2>3, <2>4
  <1> HIDE DEF Below
  <1>6. \A k, l \in K : Cardinality(Below(k)) = Cardinality(Below(l)) => k = l
        <2> SUFFICES ASSUME NEW k \in K, NEW l \in K, k # l
                     PROVE  Cardinality(Below(k)) # Cardinality(Below(l))
            OBVIOUS
        <2>1. k < l \/ l < k
              BY <1>3
        <2>2. Cardinality(Below(k)) \in Nat /\ Cardinality(Below(l)) \in Nat
              BY <1>4
        <2> QED BY <1>5, <2>1, <2>2
  <1>7. place \in Injection(K, T)
        <2>1. \A k \in K : place[k] = Cardinality(Below(k)) + 1 /\ Cardinality(Below(k)) \in Nat
                           /\ place[k] \in T
              BY <1>4
        <2>2. place \in [K -> T]
              BY <2>1
        <2> HIDE DEF place
        <2>3. \A k, l \in K : place[k] = place[l] => k = l
              BY <1>6, <2>1
        <2> QED BY <2>2, <2>3 DEF Injection, IsInjective
  <1>8. IsFiniteSet(T) /\ Cardinality(T) = C
        BY <1>2, FS_Interval
  <1>9. place \in Surjection(K, T)
        BY <1>2, <1>7, <1>8, FS_Injection
  <1>10. \A n \in T : \E k \in K : Cardinality(Below(k)) = n - 1
        <2> SUFFICES ASSUME NEW n \in T PROVE \E k \in K : Cardinality(Below(k)) = n - 1
            OBVIOUS
        <2>1. PICK k \in K : place[k] = n
              BY <1>9 DEF Surjection
        <2>2. Cardinality(Below(k)) \in Nat /\ Cardinality(Below(k)) + 1 = n
              BY <1>4, <2>1
        <2> QED BY <2>2
  <1>11. \A n \in T : at[n] \in K /\ Cardinality(Below(at[n])) = n - 1
        <2>1. \A n \in T : \E k \in K : Design!Cardinality({l \in K : l < k}) = n - 1
              BY <1>10, SameCounts DEF Below
        <2>2. \A n \in T : at[n] \in K /\ Design!Cardinality({l \in K : l < at[n]}) = n - 1
              BY <2>1
        <2> QED BY <2>2, SameCounts DEF Below
  <1>12. at \in [T -> K]
        BY <1>11
  <1>13. \A n \in T : Design!Kept(seq, K)[n] = seq[at[n]]
        BY SameCounts DEF Design!Kept
  <1>14. \A n, m \in T : at[n] = at[m] => n = m
        <2> HIDE DEF at
        <2> QED BY <1>2, <1>11
  <1>15. \A k \in K : \E n \in T : at[n] = k
        <2> SUFFICES ASSUME NEW k \in K PROVE \E n \in T : at[n] = k
            OBVIOUS
        <2>1. /\ Cardinality(Below(k)) \in Nat /\ Cardinality(Below(k)) + 1 \in T
              /\ Cardinality(Below(k)) = (Cardinality(Below(k)) + 1) - 1
              BY <1>4
        <2> QED BY <1>6, <1>11, <2>1
  <1>16. Design!Kept(seq, K) = [n \in T |-> Design!Kept(seq, K)[n]]
        BY SameCounts DEF Design!Kept
  <1> HIDE DEF at
  <1>17. Numbers(at, seq, K)
        BY <1>12, <1>13, <1>14, <1>15 DEF Numbers
  <1> QED BY <1>2, <1>16, <1>17

(* A set of numbers, not empty and finite, has a greatest one *)
LEMMA GreatestIs ==
  ASSUME NEW S \in SUBSET Nat, IsFiniteSet(S), S # {}
  PROVE  \E m \in S : \A k \in S : k <= m
  <1> DEFINE T == {X \in SUBSET S : X # {} /\ ~\E m \in X : \A k \in X : k <= m}
  <1> SUFFICES ASSUME T # {} PROVE FALSE
      OBVIOUS
  <1>1. FiniteSubsetsOf(S) = SUBSET S
        BY FS_FiniteSubsetsOfFinite
  <1>2. IsWellFoundedOn(StrictSubsetOrdering(S), SUBSET S)
        BY <1>1, FS_StrictSubsetOrderingWellFounded
  <1>3. T \subseteq SUBSET S
        OBVIOUS
  <1>4. \E X \in T : \A Y \in T : ~(<<Y, X>> \in StrictSubsetOrdering(S))
        <2> HIDE DEF T
        <2> DEFINE R == StrictSubsetOrdering(S)
                   U == SUBSET S
        <2>1. IsWellFoundedOn(R, U) /\ T \subseteq U /\ T # {}
              BY <1>2, <1>3
        <2> HIDE DEF R, U
        <2>2. \E X \in T : \A Y \in T : ~(<<Y, X>> \in R)
              BY <2>1, WFMin
        <2> QED BY <2>2 DEF R
  <1>5. PICK X \in T : \A Y \in T : ~(<<Y, X>> \in StrictSubsetOrdering(S))
        BY <1>4
  <1>6. X \subseteq S /\ X # {} /\ ~\E m \in X : \A k \in X : k <= m
        OBVIOUS
  <1>7. PICK x \in X : TRUE
        BY <1>6
  <1> DEFINE Y == X \ {x}
  <1>8. <<Y, X>> \in StrictSubsetOrdering(S)
        BY <1>6, <1>7 DEF StrictSubsetOrdering
  <1>9. Y \notin T /\ Y \in SUBSET S
        BY <1>5, <1>6, <1>8
  <1>10. CASE Y = {}
        BY <1>6, <1>7, <1>10
  <1>11. CASE Y # {}
        <2>1. PICK m \in Y : \A k \in Y : k <= m
              BY <1>9, <1>11
        <2>2. m \in Nat /\ x \in Nat /\ \A k \in X : k = x \/ k \in Y
              BY <1>6, <1>7, <2>1
        <2>3. CASE x <= m
              <3>1. \A k \in X : k <= m
                    BY <2>1, <2>2, <2>3
              <3> QED BY <1>6, <2>1, <3>1
        <2>4. CASE m <= x
              <3>1. \A k \in X : k <= x
                    BY <1>6, <2>1, <2>2, <2>4
              <3> QED BY <1>6, <1>7, <3>1
        <2> QED BY <2>2, <2>3, <2>4
  <1> QED BY <1>10, <1>11

-----------------------------------------------------------------------------
(* What graphs are made of *)
NodeRecords ==
  [id : Design!NodeId, type : Design!WorkflowNodeType,
   config : Design!AiChatTarget \cup DesignBases \cup {Unset}]
EdgeRecords ==
  [id : {"edge"} \X Design!NodeId \X Design!NodeId, source : Design!NodeId, target : Design!NodeId]

LEMMA RecordParts ==
  /\ \A r \in NodeRecords : /\ r.type \in Design!WorkflowNodeType /\ r.id \in Design!NodeId
                            /\ r = [id |-> r.id, type |-> r.type, config |-> r.config]
  /\ \A r \in EdgeRecords : /\ r.source \in Design!NodeId /\ r.target \in Design!NodeId
                            /\ r = [id |-> r.id, source |-> r.source, target |-> r.target]
  BY DEF NodeRecords, EdgeRecords

LEMMA GraphParts ==
  /\ Design!DesignerGraphs = [nodes : Seq(NodeRecords), edges : Seq(EdgeRecords)]
  /\ \A g \in Design!DesignerGraphs :
       /\ g.nodes \in Seq(NodeRecords) /\ g.edges \in Seq(EdgeRecords)
       /\ Len(g.nodes) \in Nat /\ Len(g.edges) \in Nat
       /\ DOMAIN g.nodes = 1 .. Len(g.nodes) /\ DOMAIN g.edges = 1 .. Len(g.edges)
       /\ \A i \in DOMAIN g.nodes : g.nodes[i] \in NodeRecords
       /\ \A i \in DOMAIN g.edges : g.edges[i] \in EdgeRecords
       /\ g.nodes = [i \in 1 .. Len(g.nodes) |-> g.nodes[i]]
       /\ g.edges = [i \in 1 .. Len(g.edges) |-> g.edges[i]]
       /\ g = [nodes |-> g.nodes, edges |-> g.edges]
  <1>1. Design!DesignerGraphs = [nodes : Seq(NodeRecords), edges : Seq(EdgeRecords)]
        BY DEF Design!DesignerGraphs, NodeRecords, EdgeRecords
  <1>2. ASSUME NEW g \in Design!DesignerGraphs
        PROVE  /\ g.nodes \in Seq(NodeRecords) /\ g.edges \in Seq(EdgeRecords)
               /\ g = [nodes |-> g.nodes, edges |-> g.edges]
        BY <1>1
  <1>3. ASSUME NEW R, NEW s \in Seq(R)
        PROVE  /\ Len(s) \in Nat /\ DOMAIN s = 1 .. Len(s) /\ s = [i \in 1 .. Len(s) |-> s[i]]
               /\ \A i \in DOMAIN s : s[i] \in R
        OBVIOUS
  <1> QED BY <1>1, <1>2, <1>3

LEMMA DesignedParts ==
  ASSUME NEW g, Design!IsDesigned(g)
  PROVE  /\ g \in Design!DesignerGraphs
         /\ \A i \in DOMAIN g.nodes :
              g.nodes[i].config \in Design!Configs(g.nodes[i].type) \cup {Unset}
         /\ \A i, k \in DOMAIN g.nodes : g.nodes[k].id = g.nodes[i].id => k = i
         /\ \A i \in DOMAIN g.edges : Design!Joins(g, g.edges[i])
         /\ \A i, k \in DOMAIN g.edges : g.edges[k].source = g.edges[i].source => k = i
  BY DEF Design!IsDesigned

LEMMA ConfigsTyped ==
  \A type \in Design!WorkflowNodeType :
    Design!Configs(type) \cup {Unset} \subseteq Design!AiChatTarget \cup DesignBases \cup {Unset}
  BY DEF Design!Configs, Design!WorkflowNodeType

-----------------------------------------------------------------------------
(* Rows, and back *)
LEMMA RowsInOrder ==
  ASSUME NEW n \in Nat, NEW row, \A i \in 1 .. n : row[i].ordinal = i
  PROVE  Design!Ordered({row[i] : i \in 1 .. n}) = [i \in 1 .. n |-> row[i]]
  <1> DEFINE table == {row[i] : i \in 1 .. n}
             f == [i \in 1 .. n |-> row[i]]
  <1>1. \A i, k \in 1 .. n : f[i] = f[k] => i = k
        OBVIOUS
  <1>2. f \in Bijection(1 .. n, table)
        <2>1. f \in [1 .. n -> table] /\ \A r \in table : \E i \in 1 .. n : f[i] = r
              OBVIOUS
        <2> HIDE DEF f, table
        <2> QED BY <1>1, <2>1 DEF Bijection, Injection, IsInjective, Surjection
  <1>3. IsFiniteSet(1 .. n) /\ Cardinality(1 .. n) = n
        BY FS_Interval
  <1>4. Cardinality(table) = n
        <2>1. ExistsBijection(1 .. n, table)
              BY <1>2 DEF ExistsBijection
        <2> HIDE DEF table
        <2> QED BY <1>3, <2>1, FS_Bijection
  <1>5. ASSUME NEW i \in 1 .. n
        PROVE  (CHOOSE r \in table : r.ordinal = i) = row[i]
        <2>1. row[i] \in table /\ row[i].ordinal = i
              OBVIOUS
        <2>2. \A r \in table : r.ordinal = i => r = row[i]
              OBVIOUS
        <2> HIDE DEF table
        <2> QED BY <2>1, <2>2
  <1> HIDE DEF table
  <1>6. Design!Ordered(table) = [i \in 1 .. n |-> CHOOSE r \in table : r.ordinal = i]
        BY <1>4, SameCounts DEF Design!Ordered
  <1>7. Design!Ordered(table) = [i \in 1 .. n |-> row[i]]
        BY <1>5, <1>6
  <1> QED BY <1>7 DEF table

LEMMA ConfigAndBack ==
  ASSUME NEW n, n.type \in Design!WorkflowNodeType, n.config \in Design!Configs(n.type) \cup {Unset}
  PROVE  Design!ConfigFromValues(n.type, Design!ConfigValues(n)) = n.config
  <1>1. /\ Unset \notin DesignEmployees \cup DesignModels \cup DesignBases
           /\ DesignEmployees \cap DesignModels = {}
        /\ DesignBases \cap (DesignEmployees \cup DesignModels) = {}
        BY ScreensAssumption DEF Design!WorkflowDesignerAssumption, Design!WorkflowGraphsAssumption
  <1>2. CASE n.config = Unset
        <2>1. Design!ConfigValues(n) = [type |-> "none", id |-> n.config]
              BY <1>1, <1>2 DEF Design!ConfigValues
        <2> QED BY <1>2, <2>1 DEF Design!ConfigFromValues
  <1>3. CASE n.type = "ai_chat" /\ n.config # Unset
        <2>1. n.config \in DesignEmployees \cup DesignModels
              BY <1>3 DEF Design!Configs, Design!AiChatTarget
        <2>2. CASE n.config \in DesignEmployees
              <3>1. n.config \notin DesignModels /\ n.config \notin DesignBases
                    BY <1>1, <2>2
              <3>2. Design!ConfigValues(n) = [type |-> "employee", id |-> n.config]
                    BY <2>2, <3>1 DEF Design!ConfigValues
              <3> QED BY <1>3, <3>2 DEF Design!ConfigFromValues
        <2>3. CASE n.config \in DesignModels
              <3>1. n.config \notin DesignEmployees /\ n.config \notin DesignBases
                    BY <1>1, <2>3
              <3>2. Design!ConfigValues(n) = [type |-> "model", id |-> n.config]
                    BY <2>3, <3>1 DEF Design!ConfigValues
              <3> QED BY <1>3, <3>2 DEF Design!ConfigFromValues
        <2> QED BY <2>1, <2>2, <2>3
  <1>4. CASE n.type = "knowledge_retrieval" /\ n.config # Unset
        <2>1. n.config \in DesignBases /\ n.config \notin DesignEmployees
              /\ n.config \notin DesignModels
              BY <1>1, <1>4 DEF Design!Configs
        <2>2. Design!ConfigValues(n).type = "knowledge_base" /\ Design!ConfigValues(n).id = n.config
              BY <2>1 DEF Design!ConfigValues
        <2> QED BY <1>4, <2>2 DEF Design!ConfigFromValues
  <1>5. CASE n.type \in {"start", "end"} /\ n.config # Unset
        BY <1>5 DEF Design!Configs
  <1> QED BY <1>2, <1>3, <1>4, <1>5 DEF Design!WorkflowNodeType

LEMMA StoredAndBack ==
  ASSUME NEW g, Design!IsDesigned(g)
  PROVE  Design!ToDomain(Design!WorkflowRow(g)) = g
  <1> DEFINE N == Len(g.nodes)
             M == Len(g.edges)
             node == [i \in 1 .. N |-> [id |-> g.nodes[i].id, ordinal |-> i, type |-> g.nodes[i].type,
                                        config |-> Design!ConfigValues(g.nodes[i])]]
             edge == [i \in 1 .. M |-> [id |-> g.edges[i].id, ordinal |-> i,
                                        source |-> g.edges[i].source, target |-> g.edges[i].target]]
  <1>1. /\ N \in Nat /\ M \in Nat /\ DOMAIN g.nodes = 1 .. N /\ DOMAIN g.edges = 1 .. M
        /\ g = [nodes |-> g.nodes, edges |-> g.edges]
        /\ g.nodes = [i \in 1 .. N |-> g.nodes[i]] /\ g.edges = [i \in 1 .. M |-> g.edges[i]]
        /\ \A i \in 1 .. N : /\ g.nodes[i].type \in Design!WorkflowNodeType
                             /\ g.nodes[i].config \in Design!Configs(g.nodes[i].type) \cup {Unset}
                             /\ g.nodes[i] = [id |-> g.nodes[i].id, type |-> g.nodes[i].type,
                                              config |-> g.nodes[i].config]
        /\ \A i \in 1 .. M : g.edges[i] = [id |-> g.edges[i].id, source |-> g.edges[i].source,
                                           target |-> g.edges[i].target]
        <2>1. g \in Design!DesignerGraphs
              BY DEF Design!IsDesigned
        <2>2. \A i \in DOMAIN g.nodes :
                g.nodes[i].config \in Design!Configs(g.nodes[i].type) \cup {Unset}
              BY DEF Design!IsDesigned
        <2> QED BY <2>1, <2>2, GraphParts, RecordParts
  <1> HIDE DEF N, M
  <1>2. Design!Ordered({node[i] : i \in 1 .. N}) = [i \in 1 .. N |-> node[i]]
        <2>1. \A i \in 1 .. N : node[i].ordinal = i
              OBVIOUS
        <2>2. N \in Nat
              BY <1>1
        <2> HIDE DEF node
        <2> QED BY <2>1, <2>2, RowsInOrder
  <1>3. Design!Ordered({edge[i] : i \in 1 .. M}) = [i \in 1 .. M |-> edge[i]]
        <2>1. \A i \in 1 .. M : edge[i].ordinal = i
              OBVIOUS
        <2> HIDE DEF edge
        <2> QED BY <1>1, <2>1, RowsInOrder
  <1>4. Design!NodeRows(g) = {node[i] : i \in 1 .. N}
        BY <1>1 DEF Design!NodeRows
  <1>5. Design!EdgeRows(g) = {edge[i] : i \in 1 .. M}
        BY <1>1 DEF Design!EdgeRows
  <1> DEFINE nodes == Design!Ordered(Design!WorkflowRow(g).nodes)
             edges == Design!Ordered(Design!WorkflowRow(g).edges)
  <1>6. nodes = [i \in 1 .. N |-> node[i]] /\ edges = [i \in 1 .. M |-> edge[i]]
        BY <1>2, <1>3, <1>4, <1>5 DEF Design!WorkflowRow
  <1>7. /\ DOMAIN nodes = 1 .. N /\ DOMAIN edges = 1 .. M
        /\ \A i \in 1 .. N : /\ nodes[i].id = g.nodes[i].id /\ nodes[i].type = g.nodes[i].type
                             /\ nodes[i].config = Design!ConfigValues(g.nodes[i])
        /\ \A i \in 1 .. M : /\ edges[i].id = g.edges[i].id /\ edges[i].source = g.edges[i].source
                             /\ edges[i].target = g.edges[i].target
        <2> HIDE DEF nodes, edges
        <2> QED BY <1>6
  <1>8. Design!ToDomain(Design!WorkflowRow(g)) =
          [nodes |-> [i \in DOMAIN nodes |->
                       Design!Node(nodes[i].id, nodes[i].type,
                                   Design!ConfigFromValues(nodes[i].type, nodes[i].config))],
           edges |-> [i \in DOMAIN edges |-> Design!Edge(edges[i].id, edges[i].source, edges[i].target)]]
        BY DEF Design!ToDomain
  <1> HIDE DEF nodes, edges
  <1>9. ASSUME NEW i \in 1 .. N
        PROVE  Design!Node(nodes[i].id, nodes[i].type,
                           Design!ConfigFromValues(nodes[i].type, nodes[i].config))
                 = g.nodes[i]
        <2>1. Design!ConfigFromValues(g.nodes[i].type, Design!ConfigValues(g.nodes[i])) = g.nodes[i].config
              BY <1>1, ConfigAndBack
        <2> QED BY <1>1, <1>7, <2>1 DEF Design!Node
  <1>10. \A i \in 1 .. M : Design!Edge(edges[i].id, edges[i].source, edges[i].target) = g.edges[i]
        BY <1>1, <1>7 DEF Design!Edge
  <1>11. [i \in DOMAIN nodes |->
            Design!Node(nodes[i].id, nodes[i].type,
                        Design!ConfigFromValues(nodes[i].type, nodes[i].config))] = g.nodes
        BY <1>1, <1>7, <1>9
  <1>12. [i \in DOMAIN edges |-> Design!Edge(edges[i].id, edges[i].source, edges[i].target)] = g.edges
        BY <1>1, <1>7, <1>10
  <1> QED BY <1>1, <1>8, <1>11, <1>12

LEMMA StoredHasRows ==
  ASSUME NEW g, g.nodes # <<>>, Design!IsDesigned(g)
  PROVE  Design!WorkflowRow(g) # Design!NoRows
  <1>1. Len(g.nodes) \in Nat /\ 1 \in DOMAIN g.nodes
        BY DEF Design!IsDesigned, Design!DesignerGraphs
  <1>2. Design!NodeRows(g) # {}
        BY <1>1 DEF Design!NodeRows
  <1> QED BY <1>2 DEF Design!WorkflowRow, Design!NoRows

-----------------------------------------------------------------------------
(* Edits *)
LEMMA NodeAppended ==
  ASSUME NEW g, Design!IsDesigned(g), NEW type \in Design!WorkflowNodeType,
         NEW id \in Design!NodeId,
         \A i \in DOMAIN g.nodes : g.nodes[i].id # id
  PROVE  Design!IsDesigned([nodes |-> Append(g.nodes, Design!Node(id, type, Unset)),
                            edges |-> g.edges])
  <1> DEFINE node == Design!Node(id, type, Unset)
             nodes == Append(g.nodes, node)
             new == [nodes |-> nodes, edges |-> g.edges]
             N == Len(g.nodes)
  <1>1. /\ g.nodes \in Seq(NodeRecords) /\ g.edges \in Seq(EdgeRecords) /\ N \in Nat
        /\ DOMAIN g.nodes = 1 .. N
        BY DesignedParts, GraphParts
  <1>2. node \in NodeRecords /\ node.id = id /\ node.config = Unset
        BY DEF Design!Node, NodeRecords
  <1>3. /\ nodes \in Seq(NodeRecords) /\ DOMAIN nodes = 1 .. N + 1 /\ nodes[N + 1] = node
        /\ \A i \in 1 .. N : nodes[i] = g.nodes[i]
        BY <1>1, <1>2
  <1> HIDE DEF nodes, node, N
  <1>4. new \in Design!DesignerGraphs /\ new.nodes = nodes /\ new.edges = g.edges
        BY <1>1, <1>3, GraphParts
  <1>5. \A i \in 1 .. N + 1 : i = N + 1 \/ i \in 1 .. N
        BY <1>1
  <1>6. ASSUME NEW i \in DOMAIN nodes
        PROVE  nodes[i].config \in Design!Configs(nodes[i].type) \cup {Unset}
        BY <1>1, <1>2, <1>3, <1>5, DesignedParts
  <1>7. ASSUME NEW i \in DOMAIN nodes, NEW k \in DOMAIN nodes, nodes[k].id = nodes[i].id
        PROVE  k = i
        BY <1>1, <1>2, <1>3, <1>5, <1>7, DesignedParts
  <1>8. ASSUME NEW i \in DOMAIN g.edges
        PROVE  Design!Joins(new, g.edges[i])
        <2>1. Design!Joins(g, g.edges[i])
              BY DesignedParts
        <2>2. \A k \in DOMAIN g.nodes : k \in DOMAIN nodes /\ nodes[k] = g.nodes[k]
              BY <1>1, <1>3
        <2> QED BY <1>4, <2>1, <2>2 DEF Design!Joins
  <1>9. \A i, k \in DOMAIN g.edges : g.edges[k].source = g.edges[i].source => k = i
        BY DesignedParts
  <1> HIDE DEF new
  <1>10. Design!IsDesigned(new)
        BY <1>4, <1>6, <1>7, <1>8, <1>9 DEF Design!IsDesigned
  <1> QED BY <1>10 DEF new, nodes, node

LEMMA NodeConfigured ==
  ASSUME NEW g, Design!IsDesigned(g), NEW n \in DOMAIN g.nodes,
         NEW config \in Design!Configs(g.nodes[n].type)
  PROVE  Design!IsDesigned([g EXCEPT !.nodes[n].config = config])
  <1> DEFINE nodes == [g.nodes EXCEPT ![n].config = config]
             new == [g EXCEPT !.nodes[n].config = config]
  <1>1. /\ g.nodes \in Seq(NodeRecords) /\ g.edges \in Seq(EdgeRecords)
        /\ g = [nodes |-> g.nodes, edges |-> g.edges] /\ g.nodes[n] \in NodeRecords
        /\ \A i \in DOMAIN g.nodes : g.nodes[i] \in NodeRecords
        /\ DOMAIN g.nodes = 1 .. Len(g.nodes) /\ Len(g.nodes) \in Nat
        /\ g.nodes = [i \in 1 .. Len(g.nodes) |-> g.nodes[i]]
        BY DesignedParts, GraphParts
  <1>2. config \in Design!AiChatTarget \cup DesignBases \cup {Unset}
        BY <1>1, ConfigsTyped, RecordParts
  <1> DEFINE node == [g.nodes[n] EXCEPT !.config = config]
  <1>3. /\ node \in NodeRecords /\ node.id = g.nodes[n].id /\ node.type = g.nodes[n].type
        /\ node.config = config
        BY <1>1, <1>2 DEF NodeRecords
  <1>4. nodes = [g.nodes EXCEPT ![n] = node]
        BY <1>1
  <1> HIDE DEF node, nodes
  <1>5. /\ DOMAIN nodes = DOMAIN g.nodes /\ nodes[n] = node
        /\ \A i \in DOMAIN g.nodes : i # n => nodes[i] = g.nodes[i]
        /\ nodes = [i \in 1 .. Len(g.nodes) |-> nodes[i]]
        BY <1>1, <1>4
  <1>6. nodes \in Seq(NodeRecords)
        <2>1. \A i \in 1 .. Len(g.nodes) : nodes[i] \in NodeRecords
              BY <1>1, <1>3, <1>5
        <2>2. nodes \in [1 .. Len(g.nodes) -> NodeRecords]
              BY <1>5, <2>1
        <2> QED BY <1>1, <2>2
  <1>7. new = [nodes |-> nodes, edges |-> g.edges]
        <2>1. new = [g EXCEPT !.nodes = [@ EXCEPT ![n].config = config]]
              OBVIOUS
        <2>2. new = [g EXCEPT !.nodes = nodes]
              BY <2>1 DEF nodes
        <2> HIDE DEF new
        <2> QED BY <1>1, <2>2
  <1> HIDE DEF new
  <1>8. new \in Design!DesignerGraphs /\ new.nodes = nodes /\ new.edges = g.edges
        BY <1>1, <1>6, <1>7, GraphParts
  <1>9. \A i \in DOMAIN g.nodes : nodes[i].id = g.nodes[i].id /\ nodes[i].type = g.nodes[i].type
        BY <1>3, <1>5
  <1>10. \A i \in DOMAIN nodes : nodes[i].config \in Design!Configs(nodes[i].type) \cup {Unset}
        BY <1>3, <1>5, DesignedParts
  <1>11. \A i, k \in DOMAIN nodes : nodes[k].id = nodes[i].id => k = i
        <2>1. \A i, k \in DOMAIN g.nodes : g.nodes[k].id = g.nodes[i].id => k = i
              BY DesignedParts
        <2> QED BY <1>5, <1>9, <2>1
  <1>12. ASSUME NEW i \in DOMAIN g.edges
        PROVE  Design!Joins(new, g.edges[i])
        <2>1. Design!Joins(g, g.edges[i])
              BY DesignedParts
        <2> QED BY <1>5, <1>8, <1>9, <2>1 DEF Design!Joins
  <1>13. \A i, k \in DOMAIN g.edges : g.edges[k].source = g.edges[i].source => k = i
        BY DesignedParts
  <1>14. Design!IsDesigned(new)
        BY <1>8, <1>10, <1>11, <1>12, <1>13 DEF Design!IsDesigned
  <1> QED BY <1>14 DEF new

LEMMA EdgeAppended ==
  ASSUME NEW g, Design!IsDesigned(g), NEW s, NEW t, s # t,
         \E i \in DOMAIN g.nodes : g.nodes[i].id = s /\ g.nodes[i].type # "end",
         \E i \in DOMAIN g.nodes : g.nodes[i].id = t /\ g.nodes[i].type # "start",
         \A i \in DOMAIN g.edges : g.edges[i].source # s
  PROVE  Design!IsDesigned([nodes |-> g.nodes,
                            edges |-> Append(g.edges, Design!Edge(<<"edge", s, t>>, s, t))])
  <1> DEFINE edge == Design!Edge(<<"edge", s, t>>, s, t)
             edges == Append(g.edges, edge)
             new == [nodes |-> g.nodes, edges |-> edges]
             M == Len(g.edges)
  <1>1. /\ g.nodes \in Seq(NodeRecords) /\ g.edges \in Seq(EdgeRecords) /\ M \in Nat
        /\ DOMAIN g.edges = 1 .. M /\ \A i \in DOMAIN g.nodes : g.nodes[i] \in NodeRecords
        BY DesignedParts, GraphParts
  <1>2. s \in Design!NodeId /\ t \in Design!NodeId
        BY <1>1, RecordParts
  <1>3. /\ edge \in EdgeRecords /\ edge.id = <<"edge", s, t>> /\ edge.source = s /\ edge.target = t
        BY <1>2 DEF Design!Edge, EdgeRecords
  <1>4. /\ edges \in Seq(EdgeRecords) /\ DOMAIN edges = 1 .. M + 1 /\ edges[M + 1] = edge
        /\ \A i \in 1 .. M : edges[i] = g.edges[i]
        BY <1>1, <1>3
  <1> HIDE DEF edges, edge, M
  <1>5. new \in Design!DesignerGraphs /\ new.nodes = g.nodes /\ new.edges = edges
        BY <1>1, <1>4, GraphParts
  <1>6. \A i \in 1 .. M + 1 : i = M + 1 \/ i \in 1 .. M
        BY <1>1
  <1>7. ASSUME NEW i \in DOMAIN edges
        PROVE  Design!Joins(new, edges[i])
        <2>1. CASE i = M + 1
              BY <1>3, <1>4, <1>5, <2>1 DEF Design!Joins
        <2>2. CASE i \in 1 .. M
              <3>1. Design!Joins(g, edges[i])
                    BY <1>1, <1>4, <2>2, DesignedParts
              <3> QED BY <1>5, <3>1 DEF Design!Joins
        <2> QED BY <1>4, <1>6, <2>1, <2>2
  <1>8. ASSUME NEW i \in DOMAIN edges, NEW k \in DOMAIN edges, edges[k].source = edges[i].source
        PROVE  k = i
        <2>1. \A j, l \in 1 .. M : g.edges[l].source = g.edges[j].source => l = j
              BY <1>1, DesignedParts
        <2>2. \A j \in 1 .. M : edges[j].source = g.edges[j].source /\ g.edges[j].source # s
              BY <1>1, <1>4
        <2>3. edges[M + 1].source = s /\ i \in 1 .. M + 1 /\ k \in 1 .. M + 1
              BY <1>3, <1>4, <1>8
        <2> QED BY <1>6, <1>8, <2>1, <2>2, <2>3
  <1>9. /\ \A i \in DOMAIN g.nodes :
             g.nodes[i].config \in Design!Configs(g.nodes[i].type) \cup {Unset}
        /\ \A i, k \in DOMAIN g.nodes : g.nodes[k].id = g.nodes[i].id => k = i
        BY DesignedParts
  <1> HIDE DEF new
  <1>10. Design!IsDesigned(new)
        BY <1>5, <1>7, <1>8, <1>9 DEF Design!IsDesigned
  <1> QED BY <1>10 DEF new, edges, edge

LEMMA KeptItems ==
  ASSUME NEW R, NEW seq \in Seq(R), NEW K \in SUBSET DOMAIN seq
  PROVE  /\ Design!Kept(seq, K) \in Seq(R) /\ DOMAIN Design!Kept(seq, K) = 1 .. Cardinality(K)
         /\ \E at : Numbers(at, seq, K)
  <1> DEFINE N == Len(seq)
             C == Cardinality(K)
             left == Design!Kept(seq, K)
  <1>1. N \in Nat /\ K \in SUBSET (1 .. N) /\ \A k \in K : seq[k] \in R
        OBVIOUS
  <1> HIDE DEF N
  <1>2. C \in Nat /\ left = [n \in 1 .. C |-> left[n]] /\ \E at : Numbers(at, seq, K)
        BY <1>1, KeptIs
  <1>3. PICK at : Numbers(at, seq, K)
        BY <1>2
  <1>4. at \in [1 .. C -> K] /\ \A n \in 1 .. C : left[n] = seq[at[n]]
        BY <1>3 DEF Numbers
  <1> HIDE DEF C, left
  <1>5. \A n \in 1 .. C : left[n] \in R
        BY <1>1, <1>4
  <1>6. left \in [1 .. C -> R] /\ DOMAIN left = 1 .. C
        BY <1>2, <1>5
  <1>7. left \in Seq(R)
        BY <1>2, <1>6
  <1> QED BY <1>2, <1>6, <1>7 DEF left, C

LEMMA NodesKept ==
  ASSUME NEW g, Design!IsDesigned(g), NEW id
  PROVE  Design!IsDesigned([nodes |-> Design!Kept(g.nodes, {i \in DOMAIN g.nodes : g.nodes[i].id # id}),
                            edges |-> Design!Kept(g.edges,
                                                  {i \in DOMAIN g.edges : Design!EdgeStays(id, g.edges[i])})])
  <1> DEFINE K == {i \in DOMAIN g.nodes : g.nodes[i].id # id}
             L == {i \in DOMAIN g.edges : Design!EdgeStays(id, g.edges[i])}
             nodes == Design!Kept(g.nodes, K)
             edges == Design!Kept(g.edges, L)
             new == [nodes |-> nodes, edges |-> edges]
  <1>1. /\ g.nodes \in Seq(NodeRecords) /\ g.edges \in Seq(EdgeRecords)
        /\ K \in SUBSET DOMAIN g.nodes /\ L \in SUBSET DOMAIN g.edges
        BY DesignedParts, GraphParts
  <1>2. /\ \A i \in K : i \in DOMAIN g.nodes /\ g.nodes[i].id # id
        /\ \A i \in DOMAIN g.nodes : g.nodes[i].id # id => i \in K
        /\ \A i \in L : /\ i \in DOMAIN g.edges
                        /\ g.edges[i].source # id /\ g.edges[i].target # id
        BY DEF Design!EdgeStays
  <1> HIDE DEF K, L
  <1>3. /\ nodes \in Seq(NodeRecords) /\ DOMAIN nodes = 1 .. Cardinality(K)
        /\ \E at : Numbers(at, g.nodes, K)
        BY <1>1, KeptItems
  <1>4. /\ edges \in Seq(EdgeRecords) /\ DOMAIN edges = 1 .. Cardinality(L)
        /\ \E at : Numbers(at, g.edges, L)
        BY <1>1, KeptItems
  <1>15. PICK at : Numbers(at, g.nodes, K)
        BY <1>3
  <1>16. PICK to : Numbers(to, g.edges, L)
        BY <1>4
  <1>5. /\ \A n \in DOMAIN nodes : at[n] \in K /\ nodes[n] = g.nodes[at[n]]
        /\ \A n, m \in DOMAIN nodes : at[n] = at[m] => n = m
        /\ \A k \in K : \E n \in DOMAIN nodes : at[n] = k
        BY <1>3, <1>15 DEF Numbers
  <1>6. /\ \A n \in DOMAIN edges : to[n] \in L /\ edges[n] = g.edges[to[n]]
        /\ \A n, m \in DOMAIN edges : to[n] = to[m] => n = m
        BY <1>4, <1>16 DEF Numbers
  <1> HIDE DEF nodes, edges
  <1>7. new \in Design!DesignerGraphs /\ new.nodes = nodes /\ new.edges = edges
        BY <1>3, <1>4, GraphParts
  <1>8. \A n \in DOMAIN nodes : at[n] \in DOMAIN g.nodes /\ nodes[n] = g.nodes[at[n]]
        BY <1>2, <1>5
  <1>9. \A n \in DOMAIN edges : /\ to[n] \in DOMAIN g.edges /\ edges[n] = g.edges[to[n]]
                                /\ edges[n].source # id /\ edges[n].target # id
        BY <1>2, <1>6
  <1>10. \A n \in DOMAIN nodes : nodes[n].config \in Design!Configs(nodes[n].type) \cup {Unset}
        BY <1>8, DesignedParts
  <1>11. ASSUME NEW n \in DOMAIN nodes, NEW m \in DOMAIN nodes, nodes[m].id = nodes[n].id
         PROVE  m = n
        <2>1. at[m] = at[n]
              BY <1>8, <1>11, DesignedParts
        <2> QED BY <1>5, <2>1
  <1>12. ASSUME NEW n \in DOMAIN edges
         PROVE  Design!Joins(new, edges[n])
        <2>1. Design!Joins(g, edges[n])
              BY <1>9, DesignedParts
        <2>2. ASSUME NEW i \in DOMAIN g.nodes, g.nodes[i].id # id
              PROVE  \E m \in DOMAIN nodes : nodes[m] = g.nodes[i]
              <3>1. i \in K
                    BY <1>2, <2>2
              <3>2. PICK m \in DOMAIN nodes : at[m] = i
                    BY <1>5, <3>1
              <3> QED BY <1>5, <3>2
        <2>3. \E i \in DOMAIN nodes : nodes[i].id = edges[n].source /\ nodes[i].type # "end"
              BY <1>9, <2>1, <2>2 DEF Design!Joins
        <2>4. \E i \in DOMAIN nodes : nodes[i].id = edges[n].target /\ nodes[i].type # "start"
              BY <1>9, <2>1, <2>2 DEF Design!Joins
        <2> QED BY <1>7, <2>1, <2>3, <2>4 DEF Design!Joins
  <1>13. ASSUME NEW n \in DOMAIN edges, NEW m \in DOMAIN edges, edges[m].source = edges[n].source
         PROVE  m = n
        <2>1. to[m] = to[n]
              BY <1>9, <1>13, DesignedParts
        <2> QED BY <1>6, <2>1
  <1> HIDE DEF new
  <1>14. Design!IsDesigned(new)
        BY <1>7, <1>10, <1>11, <1>12, <1>13 DEF Design!IsDesigned
  <1> QED BY <1>14 DEF new, nodes, edges, K, L

LEMMA EdgesKept ==
  ASSUME NEW g, Design!IsDesigned(g), NEW id
  PROVE  Design!IsDesigned([nodes |-> g.nodes,
                            edges |-> Design!Kept(g.edges, {i \in DOMAIN g.edges : g.edges[i].id # id})])
  <1> DEFINE L == {i \in DOMAIN g.edges : g.edges[i].id # id}
             edges == Design!Kept(g.edges, L)
             new == [nodes |-> g.nodes, edges |-> edges]
  <1>1. /\ g.nodes \in Seq(NodeRecords) /\ g.edges \in Seq(EdgeRecords)
           /\ L \in SUBSET DOMAIN g.edges
        BY DesignedParts, GraphParts
  <1> HIDE DEF L
  <1>2. /\ edges \in Seq(EdgeRecords) /\ DOMAIN edges = 1 .. Cardinality(L)
        /\ \E at : Numbers(at, g.edges, L)
        BY <1>1, KeptItems
  <1>10. PICK to : Numbers(to, g.edges, L)
        BY <1>2
  <1>3. /\ \A n \in DOMAIN edges : to[n] \in L /\ edges[n] = g.edges[to[n]]
        /\ \A n, m \in DOMAIN edges : to[n] = to[m] => n = m
        BY <1>2, <1>10 DEF Numbers
  <1> HIDE DEF edges
  <1>4. new \in Design!DesignerGraphs /\ new.nodes = g.nodes /\ new.edges = edges
        BY <1>1, <1>2, GraphParts
  <1>5. \A n \in DOMAIN edges : to[n] \in DOMAIN g.edges /\ edges[n] = g.edges[to[n]]
        BY <1>1, <1>3
  <1>6. ASSUME NEW n \in DOMAIN edges
        PROVE  Design!Joins(new, edges[n])
        <2>1. Design!Joins(g, edges[n])
              BY <1>5, DesignedParts
        <2> QED BY <1>4, <2>1 DEF Design!Joins
  <1>7. ASSUME NEW n \in DOMAIN edges, NEW m \in DOMAIN edges, edges[m].source = edges[n].source
        PROVE  m = n
        <2>1. to[m] = to[n]
              BY <1>5, <1>7, DesignedParts
        <2> QED BY <1>3, <2>1
  <1>8. /\ \A i \in DOMAIN g.nodes :
             g.nodes[i].config \in Design!Configs(g.nodes[i].type) \cup {Unset}
        /\ \A i, k \in DOMAIN g.nodes : g.nodes[k].id = g.nodes[i].id => k = i
        BY DesignedParts
  <1> HIDE DEF new
  <1>9. Design!IsDesigned(new)
        BY <1>4, <1>6, <1>7, <1>8 DEF Design!IsDesigned
  <1> QED BY <1>9 DEF new, edges, L

(* The next id of a node is one that no node has *)
LEMMA NextIdIsNew ==
  ASSUME Design!IsDesigned(editor.graph), NEW type \in Design!WorkflowNodeType
  PROVE  /\ Design!NextNodeId(type) \in Design!NodeId
         /\ \A i \in DOMAIN editor.graph.nodes : editor.graph.nodes[i].id # Design!NextNodeId(type)
  <1> DEFINE nodes == editor.graph.nodes
             D == {k \in DOMAIN nodes : nodes[k].id[1] = type}
             used == Design!NumbersUsed(type)
             S == used \cup {0}
             f == [i \in D |-> nodes[i].id[2]]
  <1>1. /\ IsFiniteSet(DOMAIN nodes)
        /\ \A i \in DOMAIN nodes : nodes[i].id \in Design!WorkflowNodeType \X Nat
        <2>1. Len(nodes) \in Nat /\ DOMAIN nodes = 1 .. Len(nodes)
              BY DesignedParts, GraphParts
        <2>2. \A i \in DOMAIN nodes : nodes[i].id \in Design!WorkflowNodeType \X Nat
              BY DesignedParts, GraphParts, RecordParts DEF Design!NodeId
        <2> QED BY <2>1, <2>2, FS_Interval
  <1>2. IsFiniteSet(D)
        <2>1. D \subseteq DOMAIN nodes
              OBVIOUS
        <2> HIDE DEF D
        <2> QED BY <1>1, <2>1, FS_Subset
  <1>3. used = {nodes[i].id[2] : i \in D}
        BY DEF Design!NumbersUsed
  <1>4. used \subseteq Nat
        BY <1>1, <1>3
  <1> HIDE DEF D, used
  <1>5. f \in Surjection(D, used)
        BY <1>3 DEF Surjection
  <1>6. IsFiniteSet(used)
        BY <1>2, <1>5, FS_Surjection
  <1>7. IsFiniteSet(S) /\ S \in SUBSET Nat /\ S # {}
        BY <1>4, <1>6, FS_AddElement
  <1>8. \E m \in S : \A k \in S : k <= m
        <2> HIDE DEF S
        <2> QED BY <1>7, GreatestIs
  <1>9. \E m \in used \cup {0} : \A k \in used : k <= m
        BY <1>8
  <1> DEFINE top == CHOOSE x \in used \cup {0} : \A k \in used : k <= x
  <1>10. top \in used \cup {0} /\ \A k \in used : k <= top
        BY <1>9
  <1>11. Design!NextNodeId(type) = <<type, 1 + top>>
        BY DEF Design!NextNodeId, Design!NextNumber, used
  <1> HIDE DEF top
  <1>12. top \in Nat
        BY <1>4, <1>10
  <1>13. Design!NextNodeId(type) \in Design!NodeId
        BY <1>11, <1>12 DEF Design!NodeId
  <1>14. ASSUME NEW i \in DOMAIN nodes, nodes[i].id = Design!NextNodeId(type)
         PROVE  FALSE
        <2>1. nodes[i].id[1] = type /\ nodes[i].id[2] = 1 + top
              BY <1>11, <1>14
        <2>2. 1 + top \in used
              BY <1>3, <2>1 DEF D
        <2> QED BY <1>10, <1>12, <2>2
  <1> QED BY <1>13, <1>14

-----------------------------------------------------------------------------
(* What the validator says of what the designer makes *)
LEMMA NothingRepeated ==
  ASSUME NEW g, Design!IsDesigned(g)
  PROVE  Design!Repeated(g.nodes) = {} /\ Design!Repeated(g.edges) = {}
  <1>1. \A i, k \in DOMAIN g.nodes : g.nodes[k].id = g.nodes[i].id => k = i
        BY DesignedParts
  <1>2. ASSUME NEW i \in DOMAIN g.edges, NEW k \in DOMAIN g.edges, g.edges[k].id = g.edges[i].id
        PROVE  k = i
        <2>1. /\ g.edges[k].id = <<"edge", g.edges[k].source, g.edges[k].target>>
              /\ g.edges[i].id = <<"edge", g.edges[i].source, g.edges[i].target>>
              BY DesignedParts DEF Design!Joins
        <2>2. g.edges[k].source = g.edges[i].source
              <3>1. g.edges[k].id[2] = g.edges[k].source
                    BY <2>1
              <3>2. g.edges[i].id[2] = g.edges[i].source
                    BY <2>1
              <3> QED BY <1>2, <3>1, <3>2
        <2> QED BY <2>2, DesignedParts
  <1> QED BY <1>1, <1>2 DEF Design!Repeated

LEMMA EdgesInOrder ==
  ASSUME NEW g, Design!IsDesigned(g), NEW i \in DOMAIN g.edges
  PROVE  Design!EdgeIssuesAt(g, i) = {}
  <1> DEFINE e == g.edges[i]
             missing == e.source \notin Design!NodeIds(g)
             astray == e.target \notin Design!NodeIds(g)
             loop == e.source = e.target
             again == \E k \in 1 .. i - 1 : g.edges[k].source = e.source
             /\ g.edges[k].target = e.target
             entered == e.target \in Design!IdsOf(g, "start")
             left == e.source \in Design!IdsOf(g, "end")
  <1>1. PICK s \in DOMAIN g.nodes : g.nodes[s].id = e.source /\ g.nodes[s].type # "end"
        BY DesignedParts DEF Design!Joins
  <1>2. PICK t \in DOMAIN g.nodes : g.nodes[t].id = e.target /\ g.nodes[t].type # "start"
        BY DesignedParts DEF Design!Joins
  <1>3. ~missing /\ ~astray
        BY <1>1, <1>2 DEF Design!NodeIds
  <1>4. ~loop
        BY DesignedParts DEF Design!Joins
  <1>5. ~again
        <2> SUFFICES ASSUME NEW k \in 1 .. i - 1, g.edges[k].source = e.source PROVE FALSE
            OBVIOUS
        <2>1. DOMAIN g.edges = 1 .. Len(g.edges) /\ Len(g.edges) \in Nat
              BY DesignedParts, GraphParts
        <2>2. k \in DOMAIN g.edges /\ k # i
              BY <2>1
        <2> QED BY <2>2, DesignedParts
  <1>6. ~entered
        <2> SUFFICES ASSUME NEW n \in Design!OfType(g, "start"), g.nodes[n].id = e.target PROVE FALSE
            BY DEF Design!IdsOf
        <2>1. n \in DOMAIN g.nodes /\ g.nodes[n].type = "start"
              BY DEF Design!OfType
        <2>2. n = t
              BY <1>2, <2>1, DesignedParts
        <2> QED BY <1>2, <2>1, <2>2
  <1>7. ~left
        <2> SUFFICES ASSUME NEW n \in Design!OfType(g, "end"), g.nodes[n].id = e.source PROVE FALSE
            BY DEF Design!IdsOf
        <2>1. n \in DOMAIN g.nodes /\ g.nodes[n].type = "end"
              BY DEF Design!OfType
        <2>2. n = s
              BY <1>1, <2>1, DesignedParts
        <2> QED BY <1>1, <2>1, <2>2
  <1> DEFINE is == [edge_source_missing |-> missing, edge_target_missing |-> astray, self_loop |-> loop,
                    duplicate_connection |-> again, start_has_incoming_edge |-> entered,
                    end_has_outgoing_edge |-> left]
  <1>8. Design!EdgeIssuesAt(g, i) = {Design!Issue(code, e.id) : code \in {c \in DOMAIN is : is[c]}}
        BY DEF Design!EdgeIssuesAt
  <1> HIDE DEF missing, astray, loop, again, entered, left
  <1>9. {c \in DOMAIN is : is[c]} = {}
        BY <1>3, <1>4, <1>5, <1>6, <1>7
  <1> HIDE DEF is
  <1> QED BY <1>8, <1>9

LEMMA OneWayOn ==
  ASSUME NEW g, Design!IsDesigned(g), NEW n \in Design!NodeIds(g)
  PROVE  ~(Cardinality(Design!Outgoing(g)[n]) > 1)
  <1> DEFINE O == {t \in Design!NodeIds(g) : <<n, t>> \in Design!Connections(g)}
  <1>1. Design!Outgoing(g)[n] = O
        BY DEF Design!Outgoing
  <1>2. ASSUME NEW t \in O
        PROVE  \E i \in DOMAIN g.edges : g.edges[i].source = n /\ g.edges[i].target = t
        <2>1. PICK e \in Design!ToSet(g.edges) : <<n, t>> = <<e.source, e.target>>
              BY DEF Design!Connections
        <2>2. PICK i \in DOMAIN g.edges : e = g.edges[i]
              BY <2>1 DEF Design!ToSet
        <2> QED BY <2>1, <2>2
  <1> HIDE DEF O
  <1>3. \A t, u \in O : t = u
        <2> SUFFICES ASSUME NEW t \in O, NEW u \in O PROVE t = u
            OBVIOUS
        <2>1. PICK i \in DOMAIN g.edges : g.edges[i].source = n /\ g.edges[i].target = t
              BY <1>2
        <2>2. PICK k \in DOMAIN g.edges : g.edges[k].source = n /\ g.edges[k].target = u
              BY <1>2
        <2>3. i = k
              BY <2>1, <2>2, DesignedParts
        <2> QED BY <2>1, <2>2, <2>3
  <1>4. CASE O = {}
        BY <1>1, <1>4, FS_EmptySet
  <1>5. CASE O # {}
        <2>1. PICK t \in O : TRUE
              BY <1>5
        <2>2. O = {t}
              BY <1>3, <2>1
        <2> QED BY <1>1, <2>2, FS_Singleton
  <1> QED BY <1>4, <1>5

LEMMA DesignedInOrder ==
  ASSUME NEW g, Design!IsDesigned(g)
  PROVE  {i.code : i \in Design!StructuralIssues(g)} \subseteq
           {"node_limit_exceeded", "edge_limit_exceeded", "missing_start", "multiple_starts",
            "missing_end", "isolated_node", "unreachable_from_start", "cannot_reach_end",
            "cycle_detected"}
  <1> DEFINE Codes ==
               {"node_limit_exceeded", "edge_limit_exceeded", "missing_start", "multiple_starts",
                "missing_end", "isolated_node", "unreachable_from_start", "cannot_reach_end",
                "cycle_detected"}
             outgoing == Design!Outgoing(g)
             incoming == Design!Incoming(g)
  <1>1. \A i \in Design!LimitIssues(g) : i.code \in Codes
        BY DEF Design!LimitIssues, Design!When, Design!Issue
  <1>2. \A i \in Design!NodeIssues(g) : i.code \in Codes
        BY NothingRepeated DEF Design!NodeIssues, Design!When, Design!Issue
  <1>3. Design!EdgeIssues(g) = {}
        BY EdgesInOrder DEF Design!EdgeIssues
  <1>4. \A i \in Design!DegreeIssues(outgoing, incoming) : i.code \in Codes
        <2>1. DOMAIN outgoing = Design!NodeIds(g)
              BY DEF Design!Outgoing
        <2>2. {m \in DOMAIN outgoing : Cardinality(outgoing[m]) > 1} = {}
              BY <2>1, OneWayOn
        <2> HIDE DEF outgoing, incoming
        <2> QED BY <2>2, SameCounts DEF Design!DegreeIssues, Design!Issue
  <1>5. \A i \in Design!PathIssues(g, outgoing, incoming) : i.code \in Codes
        <2> HIDE DEF outgoing, incoming
        <2> QED BY DEF Design!PathIssues, Design!When, Design!Issue
  <1>6. Design!StructuralIssues(g) =
          Design!LimitIssues(g) \cup Design!NodeIssues(g) \cup Design!EdgeIssues(g)
          \cup Design!DegreeIssues(outgoing, incoming) \cup Design!PathIssues(g, outgoing, incoming)
        BY DEF Design!StructuralIssues
  <1> HIDE DEF Codes, outgoing, incoming
  <1>7. \A i \in Design!StructuralIssues(g) : i.code \in Codes
        BY <1>1, <1>2, <1>3, <1>4, <1>5, <1>6
  <1>8. {i.code : i \in Design!StructuralIssues(g)} \subseteq Codes
        BY <1>7
  <1> QED BY <1>8 DEF Codes

(* What has no issues has a node *)
LEMMA ValidHasNodes ==
  ASSUME NEW g, Design!IsDesigned(g), NEW directory, Design!Issues(g, directory) = {}
  PROVE  g.nodes # <<>>
  <1> SUFFICES ASSUME g.nodes = <<>> PROVE FALSE
      OBVIOUS
  <1>1. Design!OfType(g, "start") = {}
        BY DEF Design!OfType
  <1>2. Design!Issue("missing_start", Design!Whole) \in Design!NodeIssues(g)
        BY <1>1 DEF Design!NodeIssues, Design!When
  <1>3. Design!Issue("missing_start", Design!Whole) \in Design!StructuralIssues(g)
        BY <1>2 DEF Design!StructuralIssues
  <1> QED BY <1>3 DEF Design!Issues

-----------------------------------------------------------------------------
(* The designer and its saves *)
EditorTyped(e) ==
  /\ e = [open |-> e.open, workflow |-> e.workflow, graph |-> e.graph, dirty |-> e.dirty,
          issues |-> e.issues, pending |-> e.pending]
  /\ e.open \in BOOLEAN /\ e.dirty \in BOOLEAN /\ e.pending \in Saves \cup {Design!NoSave}
  /\ e.workflow \in DesignWorkflows \cup {Design!NoWorkflow} /\ Design!IsDesigned(e.graph)

Phases == {"idle", "validate", "store", "stored"}
SaveTyped(s) ==
  /\ s \in [phase : Phases, workflow : DesignWorkflows \cup {Design!NoWorkflow},
            graph : Design!DesignerGraphs]
  /\ Design!IsDesigned(s.graph)

RowTyped(r) == r # Design!NoRows => Design!IsDesigned(Design!ToDomain(r))
TableTyped(table) ==
  table = [w \in DesignWorkflows |-> table[w]] /\ \A w \in DesignWorkflows : RowTyped(table[w])

DesignerTyped ==
  /\ EditorTyped(editor)
  /\ saving = [k \in Saves |-> saving[k]] /\ \A k \in Saves : SaveTyped(saving[k])
  /\ TableTyped(stored) /\ TableTyped(listed)
  /\ changes \in 0 .. MaxDesignEdits /\ losses \in 0 .. MaxLosses /\ overlapped \in BOOLEAN

(* What is stored is shown and listed, or is in an answer that is still to come *)
OneSave(saves) ==
  \A k, l \in Saves : saves[k].phase # "idle" /\ saves[l].phase # "idle" => k = l
AnswerIsTrue(s, table) ==
  s.phase = "stored" =>
    /\ s.workflow \in DesignWorkflows /\ table[s.workflow] = Design!WorkflowRow(s.graph)
    /\ table[s.workflow] # Design!NoRows
EditorIsTrue(e, table) ==
  e.workflow # Design!NoWorkflow /\ ~e.dirty =>
    table[e.workflow] # Design!NoRows /\ e.graph = Design!ToDomain(table[e.workflow])
ListIsTrue(list, table) == \A w \in DesignWorkflows : list[w] = Design!NoRows \/ list[w] = table[w]

Truthful(e, saves, table, list) ==
  /\ OneSave(saves) /\ \A k \in Saves : AnswerIsTrue(saves[k], table)
  /\ (\A k \in Saves : saves[k].phase # "stored") =>
       EditorIsTrue(e, table) /\ ListIsTrue(list, table)

DesignerInv ==
  /\ DesignerTyped
  /\ losses = 0 /\ ~overlapped => Truthful(editor, saving, stored, listed)

-----------------------------------------------------------------------------
LEMMA NothingDesigned ==
  /\ Design!IsDesigned(Design!EmptyGraph) /\ Design!EmptyGraph \in Design!DesignerGraphs
  /\ EditorTyped(Design!NewEditor) /\ SaveTyped(Design!NotSaving) /\ Design!NotSaving.phase = "idle"
  /\ RowTyped(Design!NoRows)
  <1>1. Design!EmptyGraph \in Design!DesignerGraphs
        BY GraphParts DEF Design!EmptyGraph
  <1>2. Design!IsDesigned(Design!EmptyGraph)
        BY <1>1 DEF Design!IsDesigned, Design!EmptyGraph
  <1>3. EditorTyped(Design!NewEditor)
        BY <1>2 DEF EditorTyped, Design!NewEditor
  <1>4. SaveTyped(Design!NotSaving) /\ Design!NotSaving.phase = "idle"
        BY <1>1, <1>2 DEF SaveTyped, Design!NotSaving, Phases
  <1> QED BY <1>1, <1>2, <1>3, <1>4 DEF RowTyped

LEMMA LoadedIs ==
  ASSUME NEW w \in DesignWorkflows \cup {Design!NoWorkflow}, NEW g, Design!IsDesigned(g)
  PROVE  /\ EditorTyped(Design!Loaded(w, g)) /\ Design!Loaded(w, g).workflow = w
            /\ Design!Loaded(w, g).graph = g
         /\ Design!Loaded(w, g).dirty = FALSE
  BY DEF Design!Loaded, EditorTyped

LEMMA RowIs ==
  ASSUME NEW g, Design!IsDesigned(g)
  PROVE  RowTyped(Design!WorkflowRow(g)) /\ Design!ToDomain(Design!WorkflowRow(g)) = g
  BY StoredAndBack DEF RowTyped

LEMMA DesignerInit == Design!Init => DesignerInv
  <1> SUFFICES ASSUME Design!Init PROVE DesignerInv
      OBVIOUS
  <1>1. /\ editor = Design!NewEditor /\ saving = [k \in Saves |-> Design!NotSaving]
        /\ stored = [w \in DesignWorkflows |->
                       IF w \in DOMAIN Stored0 THEN Design!WorkflowRow(Stored0[w]) ELSE Design!NoRows]
        /\ listed = stored /\ changes = 0 /\ losses = 0 /\ overlapped = FALSE
        BY DEF Design!Init
  <1>2. \A w \in DOMAIN Stored0 : Design!IsDesigned(Stored0[w])
        BY ScreensAssumption DEF Design!WorkflowDesignerAssumption
  <1>3. \A w \in DesignWorkflows : RowTyped(stored[w])
        BY <1>1, <1>2, RowIs, NothingDesigned
  <1>4. TableTyped(stored) /\ TableTyped(listed)
        BY <1>1, <1>3 DEF TableTyped
  <1>5. MaxDesignEdits \in Nat /\ MaxLosses \in Nat
        BY ScreensAssumption DEF Design!WorkflowDesignerAssumption
  <1>6. saving = [k \in Saves |-> saving[k]] /\ \A k \in Saves : SaveTyped(saving[k])
        <2>1. saving = [k \in Saves |-> Design!NotSaving]
              BY <1>1
        <2>2. \A k \in Saves : saving[k] = Design!NotSaving
              BY <2>1
        <2> QED BY <2>1, <2>2, NothingDesigned
  <1>8. EditorTyped(editor)
        BY <1>1, NothingDesigned
  <1>9. changes \in 0 .. MaxDesignEdits /\ losses \in 0 .. MaxLosses /\ overlapped \in BOOLEAN
        <2>1. changes = 0 /\ losses = 0 /\ overlapped = FALSE
              BY DEF Design!Init
        <2>2. changes \in 0 .. MaxDesignEdits /\ losses \in 0 .. MaxLosses
              BY <1>5, <2>1
        <2> QED BY <2>1, <2>2
  <1>10. DesignerTyped
        BY <1>4, <1>6, <1>8, <1>9 DEF DesignerTyped
  <1>7. /\ OneSave(saving) /\ ListIsTrue(listed, stored) /\ editor.workflow = Design!NoWorkflow
        /\ \A k \in Saves : AnswerIsTrue(saving[k], stored)
        BY <1>1, NothingDesigned DEF OneSave, ListIsTrue, Design!NewEditor, AnswerIsTrue
  <1> QED BY <1>7, <1>10 DEF DesignerInv, Truthful, EditorIsTrue

(* Only the editor moves *)
LEMMA EditorMoves ==
  ASSUME DesignerInv, NEW e, editor' = e, EditorTyped(e),
         UNCHANGED <<saving, stored, listed, losses, overlapped>>, changes' \in 0 .. MaxDesignEdits,
         ListIsTrue(listed, stored) /\ EditorIsTrue(editor, stored) => EditorIsTrue(e, stored)
  PROVE  DesignerInv'
  <1>1. DesignerTyped'
        BY DEF DesignerInv, DesignerTyped
  <1>2. losses = 0 /\ ~overlapped => Truthful(e, saving, stored, listed)
        BY DEF DesignerInv, Truthful
  <1> QED BY <1>1, <1>2 DEF DesignerInv

LEMMA ChangedKept ==
  ASSUME DesignerInv, NEW g, Design!IsDesigned(g), Design!Changed(g)
  PROVE  DesignerInv'
  <1> DEFINE e == [editor EXCEPT !.graph = g, !.dirty = TRUE, !.issues = {}]
  <1>1. EditorTyped(editor) /\ changes \in 0 .. MaxDesignEdits
        BY DEF DesignerInv, DesignerTyped
  <1>2. e = [open |-> editor.open, workflow |-> editor.workflow, graph |-> g, dirty |-> TRUE,
             issues |-> {}, pending |-> editor.pending]
        <2>1. editor = [open |-> editor.open, workflow |-> editor.workflow, graph |-> editor.graph,
                        dirty |-> editor.dirty, issues |-> editor.issues, pending |-> editor.pending]
              BY <1>1 DEF EditorTyped
        <2>2. ASSUME NEW o, NEW w, NEW h, NEW d, NEW is, NEW p,
                     editor = [open |-> o, workflow |-> w, graph |-> h, dirty |-> d, issues |-> is,
                               pending |-> p]
              PROVE  e = [open |-> o, workflow |-> w, graph |-> g, dirty |-> TRUE, issues |-> {},
                          pending |-> p]
              <3>1. ASSUME NEW t, NEW none
                    PROVE  [[[[open |-> o, workflow |-> w, graph |-> h, dirty |-> d, issues |-> is,
                               pending |-> p] EXCEPT !.graph = g] EXCEPT !.dirty = t]
                             EXCEPT !.issues = none]
                             = [open |-> o, workflow |-> w, graph |-> g, dirty |-> t,
                                issues |-> none, pending |-> p]
                    <4>1. [[open |-> o, workflow |-> w, graph |-> h, dirty |-> d, issues |-> is,
                            pending |-> p] EXCEPT !.graph = g]
                            = [open |-> o, workflow |-> w, graph |-> g, dirty |-> d, issues |-> is,
                               pending |-> p]
                          OBVIOUS
                    <4>2. [[open |-> o, workflow |-> w, graph |-> g, dirty |-> d, issues |-> is,
                            pending |-> p] EXCEPT !.dirty = t]
                            = [open |-> o, workflow |-> w, graph |-> g, dirty |-> t, issues |-> is,
                               pending |-> p]
                          OBVIOUS
                    <4>3. [[open |-> o, workflow |-> w, graph |-> g, dirty |-> t, issues |-> is,
                            pending |-> p] EXCEPT !.issues = none]
                            = [open |-> o, workflow |-> w, graph |-> g, dirty |-> t,
                               issues |-> none, pending |-> p]
                          OBVIOUS
                    <4> QED BY <4>1, <4>2, <4>3, Zenon
              <3> QED BY <2>2, <3>1, Zenon
        <2> QED BY <2>1, <2>2
  <1>3. EditorTyped(e) /\ EditorIsTrue(e, stored)
        <2> HIDE DEF e
        <2> QED BY <1>1, <1>2 DEF EditorTyped, EditorIsTrue
  <1>4. /\ editor' = e /\ UNCHANGED <<saving, stored, listed, losses, overlapped>>
        /\ changes' \in 0 .. MaxDesignEdits
        <2>1. MaxDesignEdits \in Nat
              BY ScreensAssumption DEF Design!WorkflowDesignerAssumption
        <2> QED BY <1>1, <2>1 DEF Design!Changed
  <1> HIDE DEF e
  <1> QED BY <1>3, <1>4, EditorMoves

LEMMA EditsKept ==
  ASSUME DesignerInv, Design!Edits
  PROVE  DesignerInv'
  <1> DEFINE g == editor.graph
  <1>1. Design!IsDesigned(g) /\ g \in Design!DesignerGraphs /\ g = [nodes |-> g.nodes, edges |-> g.edges]
        BY DesignedParts, GraphParts DEF DesignerInv, DesignerTyped, EditorTyped
  <1>2. ASSUME NEW type \in Design!WorkflowNodeType, Design!AddNode(type)
        PROVE  DesignerInv'
        <2> DEFINE node == Design!Node(Design!NextNodeId(type), type, Unset)
                   new == [nodes |-> Append(g.nodes, node), edges |-> g.edges]
        <2>1. Design!IsDesigned(new)
              BY <1>1, NextIdIsNew, NodeAppended
        <2>2. [g EXCEPT !.nodes = Append(@, node)] = new
              <3> HIDE DEF node, g
              <3> QED BY <1>1
        <2>3. Design!Changed(new)
              BY <1>2, <2>2 DEF Design!AddNode
        <2> HIDE DEF new
        <2> QED BY <2>1, <2>3, ChangedKept
  <1>3. ASSUME NEW id, NEW config, Design!Configure(id, config)
        PROVE  DesignerInv'
        <2>1. PICK i \in DOMAIN g.nodes :
                /\ config \in Design!Configs(g.nodes[i].type)
                /\ Design!Changed([g EXCEPT !.nodes[i].config = config])
              BY <1>3 DEF Design!Configure
        <2>2. Design!IsDesigned([g EXCEPT !.nodes[i].config = config])
              BY <1>1, <2>1, NodeConfigured
        <2> QED BY <2>1, <2>2, ChangedKept
  <1>4. ASSUME NEW s, NEW t, Design!NodesConnected(s, t)
        PROVE  DesignerInv'
        <2> DEFINE edge == Design!Edge(<<"edge", s, t>>, s, t)
                   new == [nodes |-> g.nodes,
                            edges |-> Append(g.edges, edge)]
        <2>1. /\ s \in Design!NodeIds(g) /\ t \in Design!NodeIds(g) /\ s # t
              /\ Design!NodeOf(g, s).type # "end" /\ Design!NodeOf(g, t).type # "start"
              /\ \A e \in Design!ToSet(g.edges) : e.source # s
              BY <1>4 DEF Design!NodesConnected, Design!MayConnect
        <2>2. /\ \E i \in DOMAIN g.nodes : g.nodes[i].id = s /\ g.nodes[i].type # "end"
              /\ \E i \in DOMAIN g.nodes : g.nodes[i].id = t /\ g.nodes[i].type # "start"
              <3> HIDE DEF g
              <3> QED BY <2>1 DEF Design!NodeOf, Design!NodeIds
        <2>3. \A i \in DOMAIN g.edges : g.edges[i].source # s
              <3> HIDE DEF g
              <3> QED BY <2>1 DEF Design!ToSet
        <2>4. Design!IsDesigned(new)
              <3> HIDE DEF g
              <3> QED BY <1>1, <2>1, <2>2, <2>3, EdgeAppended
        <2>5. [g EXCEPT !.edges = Append(@, edge)] = new
              <3> HIDE DEF edge, g
              <3> QED BY <1>1
        <2>6. Design!Changed(new)
              BY <1>4, <2>5 DEF Design!NodesConnected
        <2> HIDE DEF new
        <2> QED BY <2>4, <2>6, ChangedKept
  <1>5. ASSUME NEW id, Design!NodeRemoved(id)
        PROVE  DesignerInv'
        <2> DEFINE new == [nodes |-> Design!Kept(g.nodes, {i \in DOMAIN g.nodes : g.nodes[i].id # id}),
                           edges |-> Design!Kept(g.edges,
                                                 {i \in DOMAIN g.edges : Design!EdgeStays(id, g.edges[i])})]
        <2>1. Design!IsDesigned(new)
              BY <1>1, NodesKept
        <2>2. Design!Changed(new)
              BY <1>5 DEF Design!NodeRemoved
        <2> HIDE DEF new
        <2> QED BY <2>1, <2>2, ChangedKept
  <1>6. ASSUME NEW id, Design!EdgeRemoved(id)
        PROVE  DesignerInv'
        <2> DEFINE edges == Design!Kept(g.edges, {i \in DOMAIN g.edges : g.edges[i].id # id})
                   new == [nodes |-> g.nodes, edges |-> edges]
        <2>1. Design!IsDesigned(new)
              BY <1>1, EdgesKept
        <2>2. Design!Changed([g EXCEPT !.edges = edges])
              BY <1>6 DEF Design!EdgeRemoved
        <2>3. [g EXCEPT !.edges = edges] = new
              <3> HIDE DEF edges, g
              <3> QED BY <1>1
        <2>4. Design!Changed(new)
              BY <2>2, <2>3
        <2> HIDE DEF new
        <2> QED BY <2>1, <2>4, ChangedKept
  <1> QED BY <1>2, <1>3, <1>4, <1>5, <1>6 DEF Design!Edits

-----------------------------------------------------------------------------
LEMMA PendingIs ==
  ASSUME NEW e, EditorTyped(e), NEW p \in Saves \cup {Design!NoSave}
  PROVE  LET x == [e EXCEPT !.pending = p]
         IN  /\ EditorTyped(x) /\ x.workflow = e.workflow /\ x.graph = e.graph
             /\ x.dirty = e.dirty /\ x.pending = p
  <1>1. ASSUME NEW o, NEW w, NEW g, NEW d, NEW is, NEW q, NEW v,
               e = [open |-> o, workflow |-> w, graph |-> g, dirty |-> d, issues |-> is,
                    pending |-> q]
        PROVE  [e EXCEPT !.pending = v]
                 = [open |-> o, workflow |-> w, graph |-> g, dirty |-> d, issues |-> is,
                    pending |-> v]
        <2>1. [[open |-> o, workflow |-> w, graph |-> g, dirty |-> d, issues |-> is,
                pending |-> q] EXCEPT !.pending = v]
                = [open |-> o, workflow |-> w, graph |-> g, dirty |-> d, issues |-> is,
                   pending |-> v]
              OBVIOUS
        <2> QED BY <1>1, <2>1, Zenon
  <1>2. PICK o, w, g, d, is, q :
          e = [open |-> o, workflow |-> w, graph |-> g, dirty |-> d, issues |-> is,
               pending |-> q]
        BY DEF EditorTyped
  <1> DEFINE v == p
             x == [e EXCEPT !.pending = p]
  <1>3. x = [open |-> o, workflow |-> w, graph |-> g, dirty |-> d, issues |-> is,
             pending |-> v]
        BY <1>1, <1>2
  <1> HIDE DEF x
  <1>4. /\ EditorTyped(x) /\ x.workflow = e.workflow /\ x.graph = e.graph
        /\ x.dirty = e.dirty /\ x.pending = p
        BY <1>2, <1>3 DEF EditorTyped
  <1> QED BY <1>4 DEF x

LEMMA OpenIs ==
  ASSUME NEW e, EditorTyped(e), NEW t \in BOOLEAN
  PROVE  LET x == [e EXCEPT !.open = t]
         IN  /\ EditorTyped(x) /\ x.workflow = e.workflow /\ x.graph = e.graph
             /\ x.dirty = e.dirty
  <1>1. ASSUME NEW o, NEW w, NEW g, NEW d, NEW is, NEW q, NEW v,
               e = [open |-> o, workflow |-> w, graph |-> g, dirty |-> d, issues |-> is,
                    pending |-> q]
        PROVE  [e EXCEPT !.open = v]
                 = [open |-> v, workflow |-> w, graph |-> g, dirty |-> d, issues |-> is,
                    pending |-> q]
        <2>1. [[open |-> o, workflow |-> w, graph |-> g, dirty |-> d, issues |-> is,
                pending |-> q] EXCEPT !.open = v]
                = [open |-> v, workflow |-> w, graph |-> g, dirty |-> d, issues |-> is,
                   pending |-> q]
              OBVIOUS
        <2> QED BY <1>1, <2>1, Zenon
  <1>2. PICK o, w, g, d, is, q :
          e = [open |-> o, workflow |-> w, graph |-> g, dirty |-> d, issues |-> is,
               pending |-> q]
        BY DEF EditorTyped
  <1> DEFINE v == t
             x == [e EXCEPT !.open = t]
  <1>3. x = [open |-> v, workflow |-> w, graph |-> g, dirty |-> d, issues |-> is,
             pending |-> q]
        BY <1>1, <1>2
  <1> HIDE DEF x
  <1>4. /\ EditorTyped(x) /\ x.workflow = e.workflow /\ x.graph = e.graph
        /\ x.dirty = e.dirty
        BY <1>2, <1>3 DEF EditorTyped
  <1> QED BY <1>4 DEF x

LEMMA IssuesAre ==
  ASSUME NEW e, EditorTyped(e), NEW issues
  PROVE  LET x == [e EXCEPT !.issues = issues]
         IN  /\ EditorTyped(x) /\ x.workflow = e.workflow /\ x.graph = e.graph
             /\ x.dirty = e.dirty
  <1>1. ASSUME NEW o, NEW w, NEW g, NEW d, NEW is, NEW q, NEW v,
               e = [open |-> o, workflow |-> w, graph |-> g, dirty |-> d, issues |-> is,
                    pending |-> q]
        PROVE  [e EXCEPT !.issues = v]
                 = [open |-> o, workflow |-> w, graph |-> g, dirty |-> d, issues |-> v,
                    pending |-> q]
        <2>1. [[open |-> o, workflow |-> w, graph |-> g, dirty |-> d, issues |-> is,
                pending |-> q] EXCEPT !.issues = v]
                = [open |-> o, workflow |-> w, graph |-> g, dirty |-> d, issues |-> v,
                   pending |-> q]
              OBVIOUS
        <2> QED BY <1>1, <2>1, Zenon
  <1>2. PICK o, w, g, d, is, q :
          e = [open |-> o, workflow |-> w, graph |-> g, dirty |-> d, issues |-> is,
               pending |-> q]
        BY DEF EditorTyped
  <1> DEFINE v == issues
             x == [e EXCEPT !.issues = issues]
  <1>3. x = [open |-> o, workflow |-> w, graph |-> g, dirty |-> d, issues |-> v,
             pending |-> q]
        BY <1>1, <1>2
  <1> HIDE DEF x
  <1>4. /\ EditorTyped(x) /\ x.workflow = e.workflow /\ x.graph = e.graph
        /\ x.dirty = e.dirty
        BY <1>2, <1>3 DEF EditorTyped
  <1> QED BY <1>4 DEF x

LEMMA SavingMoves ==
  ASSUME DesignerTyped, NEW k \in Saves, NEW s, SaveTyped(s), saving' = [saving EXCEPT ![k] = s]
  PROVE  /\ saving' = [l \in Saves |-> saving'[l]] /\ \A l \in Saves : SaveTyped(saving'[l])
         /\ saving'[k] = s /\ \A l \in Saves \ {k} : saving'[l] = saving[l]
  <1>1. saving = [l \in Saves |-> saving[l]] /\ \A l \in Saves : SaveTyped(saving[l])
        BY DEF DesignerTyped
  <1>2. /\ saving' = [l \in Saves |-> saving'[l]]
        /\ saving'[k] = s /\ \A l \in Saves \ {k} : saving'[l] = saving[l]
        BY <1>1
  <1> QED BY <1>1, <1>2

LEMMA SaveWith ==
  ASSUME NEW s, SaveTyped(s)
  PROVE  /\ \A p \in Phases, w \in DesignWorkflows \cup {Design!NoWorkflow} :
              LET x == [phase |-> p, workflow |-> w, graph |-> s.graph]
              IN  SaveTyped(x) /\ x.phase = p /\ x.workflow = w /\ x.graph = s.graph
         /\ s.workflow \in DesignWorkflows \cup {Design!NoWorkflow} /\ Design!IsDesigned(s.graph)
         /\ s = [phase |-> s.phase, workflow |-> s.workflow, graph |-> s.graph]
  BY DEF SaveTyped

-----------------------------------------------------------------------------
LEMMA ShowsKept ==
  ASSUME DesignerInv,
         Design!CreateDraft \/ Design!CloseDesigner
         \/ \E w \in DesignWorkflows : Design!SelectWorkflow(w)
  PROVE  DesignerInv'
  <1>1. changes \in 0 .. MaxDesignEdits /\ TableTyped(listed)
        BY DEF DesignerInv, DesignerTyped
  <1>2. CASE Design!CreateDraft
        <2>1. /\ EditorTyped(Design!Loaded(Design!NoWorkflow, Design!EmptyGraph))
              /\ Design!Loaded(Design!NoWorkflow, Design!EmptyGraph).workflow = Design!NoWorkflow
              BY NothingDesigned, LoadedIs
        <2>2. EditorIsTrue(Design!Loaded(Design!NoWorkflow, Design!EmptyGraph), stored)
              BY <2>1 DEF EditorIsTrue
        <2>3. /\ editor' = Design!Loaded(Design!NoWorkflow, Design!EmptyGraph) /\ changes' = changes
              /\ UNCHANGED <<saving, stored, listed, losses, overlapped>>
              BY <1>2 DEF Design!CreateDraft, Design!Shows
        <2> QED BY <1>1, <2>1, <2>2, <2>3, EditorMoves
  <1>3. CASE Design!CloseDesigner
        <2>1. EditorTyped(Design!NewEditor) /\ Design!NewEditor.workflow = Design!NoWorkflow
              BY NothingDesigned DEF Design!NewEditor
        <2>2. EditorIsTrue(Design!NewEditor, stored)
              BY <2>1 DEF EditorIsTrue
        <2>3. /\ editor' = Design!NewEditor /\ changes' = changes
              /\ UNCHANGED <<saving, stored, listed, losses, overlapped>>
              BY <1>3 DEF Design!CloseDesigner, Design!Shows
        <2> QED BY <1>1, <2>1, <2>2, <2>3, EditorMoves
  <1>4. ASSUME NEW w \in DesignWorkflows, Design!SelectWorkflow(w)
        PROVE  DesignerInv'
        <2> DEFINE e == Design!Loaded(w, Design!ToDomain(listed[w]))
        <2>1. listed[w] # Design!NoRows /\ Design!IsDesigned(Design!ToDomain(listed[w]))
              BY <1>1, <1>4 DEF Design!SelectWorkflow, TableTyped, RowTyped
        <2>2. /\ EditorTyped(e) /\ e.workflow = w /\ e.graph = Design!ToDomain(listed[w])
              BY <2>1, LoadedIs
        <2>3. /\ editor' = e /\ changes' = changes
              /\ UNCHANGED <<saving, stored, listed, losses, overlapped>>
              BY <1>4 DEF Design!SelectWorkflow, Design!Shows
        <2> HIDE DEF e
        <2>4. ListIsTrue(listed, stored) => EditorIsTrue(e, stored)
              BY <2>1, <2>2 DEF ListIsTrue, EditorIsTrue
        <2> QED BY <1>1, <2>2, <2>3, <2>4, EditorMoves
  <1> QED BY <1>2, <1>3, <1>4

LEMMA SaveKept ==
  ASSUME DesignerInv, NEW k \in Saves, Design!Save(k)
  PROVE  DesignerInv'
  <1> DEFINE s == [phase |-> "validate", workflow |-> editor.workflow, graph |-> editor.graph]
             e == [editor EXCEPT !.pending = k]
  <1>1. DesignerTyped /\ EditorTyped(editor)
        BY DEF DesignerInv, DesignerTyped
  <1>2. /\ saving' = [saving EXCEPT ![k] = s] /\ editor' = e /\ saving[k].phase = "idle"
        /\ overlapped' = (overlapped \/ ~Design!Idle)
        /\ stored' = stored /\ listed' = listed /\ changes' = changes /\ losses' = losses
        BY DEF Design!Save
  <1>3. SaveTyped(s) /\ s.phase = "validate"
        BY <1>1, DesignedParts DEF EditorTyped, SaveTyped, Phases, Design!IsDesigned
  <1>4. EditorTyped(e) /\ e.workflow = editor.workflow /\ e.graph = editor.graph
        /\ e.dirty = editor.dirty
        BY <1>1, PendingIs
  <1> HIDE DEF s, e
  <1>5. /\ saving' = [l \in Saves |-> saving'[l]] /\ \A l \in Saves : SaveTyped(saving'[l])
        /\ saving'[k] = s /\ \A l \in Saves \ {k} : saving'[l] = saving[l]
        BY <1>1, <1>2, <1>3, SavingMoves
  <1>6. overlapped' \in BOOLEAN
        BY <1>1, <1>2 DEF DesignerTyped
  <1>7. DesignerTyped'
        BY <1>1, <1>2, <1>4, <1>5, <1>6 DEF DesignerTyped
  <1>8. ASSUME losses' = 0, ~overlapped'
        PROVE  Truthful(e, saving', stored, listed)
        <2>1. losses = 0 /\ ~overlapped /\ \A l \in Saves : saving[l].phase = "idle"
              BY <1>2, <1>8 DEF Design!Idle
        <2>2. EditorIsTrue(editor, stored) /\ ListIsTrue(listed, stored)
              BY <2>1 DEF DesignerInv, Truthful
        <2>3. EditorIsTrue(e, stored)
              BY <1>4, <2>2 DEF EditorIsTrue
        <2>4. OneSave(saving')
              BY <1>5, <2>1 DEF OneSave
        <2>5. \A l \in Saves : AnswerIsTrue(saving'[l], stored)
              BY <1>3, <1>5, <2>1 DEF AnswerIsTrue
        <2> QED BY <2>2, <2>3, <2>4, <2>5 DEF Truthful
  <1> QED BY <1>2, <1>7, <1>8 DEF DesignerInv

LEMMA ValidatesKept ==
  ASSUME DesignerInv, NEW k \in Saves, Design!ValidatesDraft(k)
  PROVE  DesignerInv'
  <1>1. DesignerTyped /\ EditorTyped(editor) /\ SaveTyped(saving[k]) /\ saving[k].phase = "validate"
        BY DEF DesignerInv, DesignerTyped, Design!ValidatesDraft
  <1>2. UNCHANGED <<stored, listed, posted, changes, losses, overlapped>>
        BY DEF Design!ValidatesDraft
  <1> DEFINE Goes(s, e) ==
               /\ saving' = [saving EXCEPT ![k] = s] /\ SaveTyped(s) /\ s.phase # "stored"
               /\ editor' = e /\ EditorTyped(e)
               /\ e.workflow = editor.workflow /\ e.graph = editor.graph /\ e.dirty = editor.dirty
  <1>3. ASSUME NEW s, NEW e, Goes(s, e)
        PROVE  DesignerInv'
        <2>1. /\ saving' = [l \in Saves |-> saving'[l]] /\ \A l \in Saves : SaveTyped(saving'[l])
              /\ saving'[k] = s /\ \A l \in Saves \ {k} : saving'[l] = saving[l]
              BY <1>1, <1>3, SavingMoves
        <2>2. DesignerTyped'
              BY <1>1, <1>2, <1>3, <2>1 DEF DesignerTyped
        <2>3. ASSUME Truthful(editor, saving, stored, listed)
              PROVE  Truthful(e, saving', stored, listed)
              <3>1. OneSave(saving')
                    BY <1>1, <1>3, <2>1, <2>3 DEF OneSave, Truthful
              <3>2. \A l \in Saves : AnswerIsTrue(saving'[l], stored)
                    BY <1>3, <2>1, <2>3 DEF AnswerIsTrue, Truthful
              <3>3. (\A l \in Saves : saving'[l].phase # "stored")
                      => \A l \in Saves : saving[l].phase # "stored"
                    BY <1>1, <2>1
              <3>4. EditorIsTrue(editor, stored) => EditorIsTrue(e, stored)
                    BY <1>3 DEF EditorIsTrue
              <3> QED BY <2>3, <3>1, <3>2, <3>3, <3>4 DEF Truthful
        <2> QED BY <1>2, <1>3, <2>2, <2>3 DEF DesignerInv
  <1> DEFINE issues == Design!Issues(saving[k].graph, Directory)
  <1>4. CASE issues = {}
        <2> DEFINE s == [phase |-> "store", workflow |-> saving[k].workflow, graph |-> saving[k].graph]
        <2>1. saving' = [saving EXCEPT ![k].phase = "store"] /\ editor' = editor
              BY <1>4 DEF Design!ValidatesDraft
        <2>2. SaveTyped(s) /\ s.phase # "stored"
              BY <1>1, SaveWith DEF Phases
        <2>3. [saving[k] EXCEPT !.phase = "store"] = s
              BY <1>1 DEF SaveTyped
        <2>4. saving' = [saving EXCEPT ![k] = s]
              BY <2>1, <2>3
        <2> HIDE DEF s
        <2> QED BY <1>1, <1>3, <2>1, <2>2, <2>4
  <1>5. CASE issues # {}
        <2> DEFINE i == [editor EXCEPT !.issues = issues]
                   p == IF editor.pending = k THEN Design!NoSave ELSE editor.pending
                   e == [i EXCEPT !.pending = p]
        <2>1. saving' = [saving EXCEPT ![k] = Design!NotSaving] /\ editor' = e
              BY <1>5 DEF Design!ValidatesDraft, Design!Settles
        <2>2. p \in Saves \cup {Design!NoSave}
              BY <1>1 DEF EditorTyped
        <2> HIDE DEF p, issues
        <2>3. EditorTyped(i) /\ i.workflow = editor.workflow /\ i.graph = editor.graph
              /\ i.dirty = editor.dirty
              BY <1>1, IssuesAre
        <2> HIDE DEF i
        <2>4. EditorTyped(e) /\ e.workflow = i.workflow /\ e.graph = i.graph /\ e.dirty = i.dirty
              BY <2>2, <2>3, PendingIs
        <2> HIDE DEF e
        <2>5. SaveTyped(Design!NotSaving) /\ Design!NotSaving.phase # "stored"
              BY NothingDesigned
        <2> QED BY <1>3, <2>1, <2>3, <2>4, <2>5
  <1> QED BY <1>4, <1>5

LEMMA StoresKept ==
  ASSUME DesignerInv, NEW k \in Saves, Design!Stores(k)
  PROVE  DesignerInv'
  <1>1. DesignerTyped /\ SaveTyped(saving[k]) /\ saving[k].phase = "store"
        BY DEF DesignerInv, DesignerTyped, Design!Stores
  <1> DEFINE g == saving[k].graph
             row == Design!WorkflowRow(g)
  <1>2. PICK w \in DesignWorkflows :
          /\ stored' = [stored EXCEPT ![w] = row]
          /\ saving' = [saving EXCEPT ![k].phase = "stored", ![k].workflow = w]
        BY DEF Design!Stores
  <1>3. UNCHANGED <<editor, listed, posted, changes, losses, overlapped>>
        BY DEF Design!Stores
  <1> DEFINE s == [phase |-> "stored", workflow |-> w, graph |-> g]
  <1>4. SaveTyped(s) /\ s.phase = "stored" /\ s.workflow = w /\ s.graph = g
        BY <1>1, SaveWith DEF Phases
  <1>5. saving' = [saving EXCEPT ![k] = s]
        <2> DEFINE r == saving[k]
        <2>1. r \in [phase : Phases, workflow : DesignWorkflows \cup {Design!NoWorkflow},
                     graph : Design!DesignerGraphs]
              BY <1>1 DEF SaveTyped
        <2>2. "stored" \in Phases
              BY DEF Phases
        <2>3. [r EXCEPT !.phase = "stored"]
                = [phase |-> "stored", workflow |-> r.workflow, graph |-> r.graph]
              <3> HIDE DEF r
              <3> QED BY <2>1, <2>2
        <2>4. [[phase |-> "stored", workflow |-> r.workflow, graph |-> r.graph] EXCEPT !.workflow = w]
                = [phase |-> "stored", workflow |-> w, graph |-> r.graph]
              <3> HIDE DEF r
              <3> QED OBVIOUS
        <2>5. [[saving[k] EXCEPT !.phase = "stored"] EXCEPT !.workflow = w] = s
              BY <2>3, <2>4, Zenon
        <2>6. [[saving EXCEPT ![k] = [@ EXCEPT !.phase = "stored"]] EXCEPT ![k] = [@ EXCEPT !.workflow = w]]
                = [saving EXCEPT ![k] = [[saving[k] EXCEPT !.phase = "stored"] EXCEPT !.workflow = w]]
              BY <1>1 DEF DesignerTyped
        <2> QED BY <1>2, <2>5, <2>6
  <1> HIDE DEF s
  <1>6. /\ saving' = [l \in Saves |-> saving'[l]] /\ \A l \in Saves : SaveTyped(saving'[l])
        /\ saving'[k] = s /\ \A l \in Saves \ {k} : saving'[l] = saving[l]
        BY <1>1, <1>4, <1>5, SavingMoves
  <1>7. Design!IsDesigned(g) /\ RowTyped(row) /\ row # Design!NoRows
        <2>1. Design!IsDesigned(g)
              BY <1>1 DEF SaveTyped
        <2>2. Design!Issues(g, Directory) = {}
              BY DEF Design!Stores
        <2>3. g.nodes # <<>>
              BY <2>1, <2>2, ValidHasNodes
        <2> QED BY <2>1, <2>3, RowIs, StoredHasRows
  <1> HIDE DEF row
  <1>8. /\ stored' = [v \in DesignWorkflows |-> stored'[v]] /\ stored'[w] = row
        /\ \A v \in DesignWorkflows \ {w} : stored'[v] = stored[v]
        BY <1>1, <1>2 DEF DesignerTyped, TableTyped
  <1>9. TableTyped(stored')
        BY <1>1, <1>7, <1>8 DEF DesignerTyped, TableTyped
  <1>10. DesignerTyped'
        BY <1>1, <1>3, <1>6, <1>9 DEF DesignerTyped
  <1>11. ASSUME Truthful(editor, saving, stored, listed)
         PROVE  Truthful(editor, saving', stored', listed)
         <2>1. \A l \in Saves \ {k} : saving[l].phase = "idle"
               BY <1>1, <1>11 DEF Truthful, OneSave
         <2>2. OneSave(saving')
               BY <1>6, <2>1 DEF OneSave
         <2>3. AnswerIsTrue(s, stored')
               BY <1>4, <1>7, <1>8 DEF AnswerIsTrue, row
         <2>4. \A l \in Saves : AnswerIsTrue(saving'[l], stored')
               BY <1>6, <2>1, <2>3 DEF AnswerIsTrue
         <2> QED BY <1>4, <1>6, <2>2, <2>4 DEF Truthful
  <1> QED BY <1>3, <1>10, <1>11 DEF DesignerInv

LEMMA SavedKept ==
  ASSUME DesignerInv, NEW k \in Saves, Design!Saved(k)
  PROVE  DesignerInv'
  <1> DEFINE w == saving[k].workflow
             g == saving[k].graph
             loaded == Design!Loaded(w, g)
             opened == [loaded EXCEPT !.open = editor.open]
             p == IF editor.pending = k THEN Design!NoSave ELSE editor.pending
             e == [opened EXCEPT !.pending = p]
  <1>1. /\ DesignerTyped /\ EditorTyped(editor) /\ SaveTyped(saving[k])
        /\ saving[k].phase = "stored" /\ TableTyped(stored)
        BY DEF DesignerInv, DesignerTyped, Design!Saved
  <1>2. UNCHANGED <<stored, posted, changes, losses, overlapped>>
        BY DEF Design!Saved
  <1>3. Design!IsDesigned(g) /\ Design!SavedGraph(k) = g
        /\ w \in DesignWorkflows \cup {Design!NoWorkflow}
        BY <1>1, RowIs, SaveWith DEF SaveTyped, Design!SavedGraph
  <1>4. saving' = [saving EXCEPT ![k] = Design!NotSaving] /\ editor' = e
        BY <1>3 DEF Design!Saved, Design!Settles
  <1>5. listed' = [v \in DesignWorkflows |-> Design!NoRows]
        BY DEF Design!Saved
  <1>6. p \in Saves \cup {Design!NoSave} /\ editor.open \in BOOLEAN
        BY <1>1 DEF EditorTyped
  <1>7. EditorTyped(loaded) /\ loaded.workflow = w /\ loaded.graph = g
        <2> HIDE DEF w, g
        <2> QED BY <1>3, LoadedIs
  <1> HIDE DEF loaded, p
  <1>8. EditorTyped(opened) /\ opened.workflow = loaded.workflow /\ opened.graph = loaded.graph
        BY <1>6, <1>7, OpenIs
  <1> HIDE DEF opened
  <1>9. EditorTyped(e) /\ e.workflow = opened.workflow /\ e.graph = opened.graph
        BY <1>6, <1>8, PendingIs
  <1> HIDE DEF e
  <1>10. e.workflow = w /\ e.graph = g
         BY <1>7, <1>8, <1>9
  <1>11. SaveTyped(Design!NotSaving) /\ Design!NotSaving.phase = "idle"
         BY NothingDesigned
  <1>12. /\ saving' = [l \in Saves |-> saving'[l]] /\ \A l \in Saves : SaveTyped(saving'[l])
         /\ saving'[k] = Design!NotSaving /\ \A l \in Saves \ {k} : saving'[l] = saving[l]
         BY <1>1, <1>4, <1>11, SavingMoves
  <1>13. TableTyped(listed') /\ ListIsTrue(listed', stored)
         BY <1>5, NothingDesigned DEF TableTyped, ListIsTrue
  <1>14. DesignerTyped'
         BY <1>1, <1>2, <1>4, <1>9, <1>12, <1>13 DEF DesignerTyped
  <1>15. ASSUME Truthful(editor, saving, stored, listed)
         PROVE  Truthful(e, saving', stored, listed')
         <2>1. \A l \in Saves \ {k} : saving[l].phase = "idle"
               BY <1>1, <1>15 DEF Truthful, OneSave
         <2>2. \A l \in Saves : saving'[l].phase = "idle"
               BY <1>11, <1>12, <2>1
         <2>3. AnswerIsTrue(saving[k], stored)
               BY <1>15 DEF Truthful
         <2>4. EditorIsTrue(e, stored)
               <3>1. w \in DesignWorkflows /\ stored[w] = Design!WorkflowRow(g)
                     /\ stored[w] # Design!NoRows
                     BY <1>1, <2>3 DEF AnswerIsTrue
               <3>2. Design!ToDomain(stored[w]) = g
                     BY <1>3, <3>1, RowIs
               <3> HIDE DEF w, g
               <3> QED BY <1>10, <3>1, <3>2 DEF EditorIsTrue
         <2> QED BY <1>13, <2>2, <2>4 DEF Truthful, OneSave, AnswerIsTrue
  <1> QED BY <1>2, <1>4, <1>14, <1>15 DEF DesignerInv

LEMMA SaveFailsKept ==
  ASSUME DesignerInv, NEW k \in Saves, Design!SaveFails(k)
  PROVE  DesignerInv'
  <1> DEFINE p == IF editor.pending = k THEN Design!NoSave ELSE editor.pending
             e == [editor EXCEPT !.pending = p]
  <1>1. DesignerTyped /\ EditorTyped(editor)
        BY DEF DesignerInv, DesignerTyped
  <1>2. /\ saving' = [saving EXCEPT ![k] = Design!NotSaving] /\ editor' = e
        /\ losses < MaxLosses /\ losses' = losses + 1
        /\ UNCHANGED <<stored, listed, posted, changes, overlapped>>
        BY DEF Design!SaveFails, Design!Settles
  <1>3. p \in Saves \cup {Design!NoSave}
        BY <1>1 DEF EditorTyped
  <1> HIDE DEF p
  <1>4. EditorTyped(e)
        BY <1>1, <1>3, PendingIs
  <1> HIDE DEF e
  <1>5. SaveTyped(Design!NotSaving)
        BY NothingDesigned
  <1>6. saving' = [l \in Saves |-> saving'[l]] /\ \A l \in Saves : SaveTyped(saving'[l])
        BY <1>1, <1>2, <1>5, SavingMoves
  <1>7. MaxLosses \in Nat
        BY ScreensAssumption DEF Design!WorkflowDesignerAssumption
  <1>8. losses \in 0 .. MaxLosses
        BY <1>1 DEF DesignerTyped
  <1>9. losses' \in 0 .. MaxLosses /\ losses' # 0
        BY <1>2, <1>7, <1>8
  <1>10. DesignerTyped'
         BY <1>1, <1>2, <1>4, <1>6, <1>9 DEF DesignerTyped
  <1> QED BY <1>9, <1>10 DEF DesignerInv

LEMMA DesignerMoves == DesignerInv /\ Design!Next => DesignerInv'
  <1> SUFFICES ASSUME DesignerInv, Design!Next PROVE DesignerInv'
      OBVIOUS
  <1>1. CASE Design!Edits
        BY <1>1, EditsKept
  <1>2. CASE Design!CreateDraft \/ Design!CloseDesigner
             \/ \E w \in DesignWorkflows : Design!SelectWorkflow(w)
        BY <1>2, ShowsKept
  <1>3. CASE \E k \in Saves : Design!Save(k) \/ Design!ValidatesDraft(k) \/ Design!Stores(k)
             \/ Design!Saved(k) \/ Design!SaveFails(k)
        BY <1>3, SaveKept, ValidatesKept, StoresKept, SavedKept, SaveFailsKept
  <1>4. CASE Design!Refetches
        <2>1. listed' = stored /\ UNCHANGED <<editor, saving, stored, changes, losses, overlapped>>
              BY <1>4 DEF Design!Refetches
        <2>2. DesignerTyped'
              BY <2>1 DEF DesignerInv, DesignerTyped
        <2>3. ListIsTrue(listed', stored)
              BY <2>1 DEF ListIsTrue
        <2>4. Truthful(editor, saving, stored, listed) => Truthful(editor, saving, stored, listed')
              BY <2>3 DEF Truthful
        <2> QED BY <2>1, <2>2, <2>4 DEF DesignerInv
  <1>5. ASSUME NEW g \in Posted, Design!Validate(g)
        PROVE  DesignerInv'
        <2>1. UNCHANGED <<editor, saving, stored, listed, changes, losses, overlapped>>
              BY <1>5 DEF Design!Validate
        <2> QED BY <2>1 DEF DesignerInv, DesignerTyped
  <1> QED BY <1>1, <1>2, <1>3, <1>4, <1>5 DEF Design!Next, Design!DesignerNext

LEMMA DesignerKept == ASSUME DesignerInv, [Design!Next]_Design!vars PROVE DesignerInv'
  <1>1. CASE Design!Next
        BY <1>1, DesignerMoves
  <1>2. CASE UNCHANGED Design!vars
        BY <1>2 DEF Design!vars, DesignerInv, DesignerTyped
  <1> QED BY <1>1, <1>2

LEMMA DesignerFollows ==
  ASSUME DesignerInv
  PROVE  Design!TypeOK /\ Design!EditorKeepsOrder /\ Design!SavedIsStored
  <1>1. DesignerTyped /\ EditorTyped(editor) /\ Design!IsDesigned(editor.graph)
        BY DEF DesignerInv, DesignerTyped, EditorTyped
  <1>2. Design!EditorKeepsOrder
        BY <1>1, DesignedInOrder DEF Design!EditorKeepsOrder
  <1>3. Design!SavedIsStored
        <2> SUFFICES ASSUME editor.workflow # Design!NoWorkflow, ~editor.dirty, losses = 0,
                            ~overlapped, Design!Idle
                     PROVE  /\ Design!IsStored(editor.workflow)
                            /\ editor.graph = Design!ToDomain(stored[editor.workflow])
            BY DEF Design!SavedIsStored
        <2>1. Truthful(editor, saving, stored, listed)
              BY DEF DesignerInv
        <2>2. EditorIsTrue(editor, stored)
              BY <2>1 DEF Truthful, Design!Idle
        <2> QED BY <2>2 DEF EditorIsTrue, Design!IsStored
  <1>4. \A n \in Design!ToSet(editor.graph.nodes) : Design!IsWorkflowNode(n)
        \/ n = Design!Node(n.id, n.type, Unset)
        <2> DEFINE nodes == editor.graph.nodes
        <2> SUFFICES ASSUME NEW i \in DOMAIN nodes
                     PROVE  Design!IsWorkflowNode(nodes[i])
                            \/ nodes[i] = Design!Node(nodes[i].id, nodes[i].type, Unset)
            BY DEF Design!ToSet
        <2>1. nodes[i].config \in Design!Configs(nodes[i].type) \cup {Unset}
              BY <1>1, DesignedParts
        <2>2. /\ nodes[i] = [id |-> nodes[i].id, type |-> nodes[i].type, config |-> nodes[i].config]
              /\ nodes[i].type \in Design!WorkflowNodeType
              BY <1>1, GraphParts, RecordParts DEF Design!IsDesigned
        <2> HIDE DEF nodes
        <2> QED BY <2>1, <2>2 DEF Design!IsWorkflowNode, Design!Node
  <1>5. /\ editor.dirty \in BOOLEAN /\ editor.open \in BOOLEAN
        /\ editor.pending \in Saves \cup {Design!NoSave}
        BY <1>1 DEF EditorTyped
  <1>6. \A k \in Saves : saving[k].phase \in {"idle", "validate", "store", "stored"}
        BY <1>1 DEF DesignerTyped, SaveTyped, Phases
  <1>7. DOMAIN stored = DesignWorkflows /\ DOMAIN listed = DesignWorkflows
        BY <1>1 DEF DesignerTyped, TableTyped
  <1> QED BY <1>1, <1>2, <1>3, <1>4, <1>5, <1>6, <1>7 DEF Design!TypeOK, DesignerTyped

=============================================================================
