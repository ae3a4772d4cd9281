------------------------------ MODULE AuditTrail ------------------------------
(***************************************************************************)
(* The audit trail of the HTTP API: every request that may change something *)
(* is recorded before it runs and again when it has answered, in            *)
(* append-only chains, one for each tenant and one for the platform.  The   *)
(* chains are read page by page and verified while requests append.         *)
(***************************************************************************)
EXTENDS Naturals, FiniteSets, Sequences, SequencesExt

CONSTANTS
  Requests,
  Tenants,
  Platform,    \* the scope of events of no tenant
  MemberOf,    \* the role each request's user has in the tenant it selects
  Capacity,    \* max_events_per_scope
  Limit,       \* events on a page
  MaxFaults    \* appends and requests that fail on their own

AuditTrailAssumption ==
  /\ Platform \notin Tenants
  /\ DOMAIN MemberOf = Requests
  /\ \A r \in Requests :
       MemberOf[r] \in [tenant : Tenants, role : {"none", "viewer", "editor", "owner"}]
  /\ Capacity \in Nat \ {0} /\ Limit \in Nat \ {0} /\ MaxFaults \in Nat

VARIABLES
  head,       \* audit_chain_heads
  events,     \* audit_events, by sequence
  request,    \* each request
  performed,  \* the requests whose change is committed
  verifier,   \* an integrity check
  reader,     \* somebody who follows next_cursor
  faults

vars == <<head, events, request, performed, verifier, reader, faults>>

Scopes == Tenants \cup {Platform}

-----------------------------------------------------------------------------
(* Rows *)
Outcomes == {"started", "succeeded", "denied", "failed"}
AuditEntry == [request : Requests, outcome : Outcomes]

(* A digest covers the event and the digest before it: it stands for the entries
   up to the event *)
Genesis == <<>>
EventHash(e) == Append(e.previous, [request |-> e.request, outcome |-> e.outcome])
LastHash(rows) == IF rows = <<>> THEN Genesis ELSE EventHash(Last(rows))

NoHead == [exists |-> FALSE, count |-> 0, last |-> Genesis]

(* build_audit_event, and the head moved on with it *)
Appended(h, entry) ==
  [exists |-> TRUE, count |-> h.count + 1, last |-> Append(h.last, entry)]
NewEvent(h, entry) ==
  [request |-> entry.request, outcome |-> entry.outcome, previous |-> h.last]

(* The rows of one scope stay apart from each other's *)
Stores(scope, h, entry) ==
  /\ head' = [head EXCEPT ![scope] = Appended(h, entry)]
  /\ events' = [events EXCEPT ![scope] = Append(@, NewEvent(h, entry))]

-----------------------------------------------------------------------------
(* A request *)
Phases == {"idle", "intent", "run", "completion", "done"}

(* at is the transaction of the append: it looks for the head, or has found none *)
IdleRequest == [phase |-> "idle", planned |-> FALSE, at |-> "lock", tries |-> 0,
                scope |-> Platform, outcome |-> "started"]

Onward(r, phase) == [request[r] EXCEPT !.phase = phase, !.at = "lock", !.tries = 0]
Goes(r, phase) == request' = [request EXCEPT ![r] = Onward(r, phase)]
Entry(r) == [request |-> r, outcome |-> request[r].outcome]
Appending(r, at) == request[r].phase \in {"intent", "completion"} /\ request[r].at = at

(* _classify with status 200: does the request plan something audited?  Neither
   session nor tenant are known yet, so the intent goes to the platform's chain *)
Arrives(r, planned) ==
  /\ request[r].phase = "idle"
  /\ request' = [request EXCEPT ![r] =
       [IdleRequest EXCEPT !.phase = IF planned THEN "intent" ELSE "run", !.planned = planned]]
  /\ UNCHANGED <<head, events, performed, verifier, reader, faults>>

AfterAppend(r) == IF request[r].phase = "intent" THEN "run" ELSE "done"

(* A failed intent answers 503; a failed completion is logged and the answer kept *)
RunsAnyway(r) == AfterAppend(r)
AfterFailure(r) == "done"

(* The head's row is locked from here to the commit *)
AppendsToChain(r) ==
  LET scope == request[r].scope
  IN  /\ Appending(r, "lock") /\ head[scope].exists
      /\ head[scope].count < Capacity
      /\ Stores(scope, head[scope], Entry(r))
      /\ Goes(r, AfterAppend(r))
      /\ UNCHANGED <<performed, verifier, reader, faults>>

CapacityExceeded(r) ==
  /\ Appending(r, "lock")
  /\ head[request[r].scope].exists /\ head[request[r].scope].count >= Capacity
  /\ Goes(r, AfterFailure(r))
  /\ UNCHANGED <<head, events, performed, verifier, reader, faults>>

(* The first events of a scope: nothing to lock, so two may both create it *)
FindsNoHead(r) ==
  /\ Appending(r, "lock") /\ ~head[request[r].scope].exists
  /\ request' = [request EXCEPT ![r].at = "create"]
  /\ UNCHANGED <<head, events, performed, verifier, reader, faults>>

CreatesChain(r) ==
  LET scope == request[r].scope
  IN  /\ Appending(r, "create") /\ ~head[scope].exists
      /\ Stores(scope, NoHead, Entry(r))
      /\ Goes(r, AfterAppend(r))
      /\ UNCHANGED <<performed, verifier, reader, faults>>

(* The other one was first: a duplicate key, and another try of three *)
Again(r) == [request[r] EXCEPT !.tries = @ + 1, !.at = "lock"]
CreateCollides(r) ==
  /\ Appending(r, "create") /\ head[request[r].scope].exists
  /\ request' = [request EXCEPT ![r] =
       IF @.tries = 2 THEN Onward(r, AfterFailure(r)) ELSE Again(r)]
  /\ UNCHANGED <<head, events, performed, verifier, reader, faults>>

(* The database is unavailable, or found a deadlock between two creators *)
AppendFails(r) ==
  /\ request[r].phase \in {"intent", "completion"}
  /\ faults < MaxFaults /\ faults' = faults + 1
  /\ Goes(r, AfterFailure(r))
  /\ UNCHANGED <<head, events, performed, verifier, reader>>

-----------------------------------------------------------------------------
(* Session, tenant, handler *)
CanRead(r) == MemberOf[r].role # "none"
CanWrite(r) == MemberOf[r].role \in {"editor", "owner"}
CanAdminister(r) == MemberOf[r].role = "owner"
Allowed(r) == IF request[r].planned THEN CanWrite(r) ELSE CanRead(r)

(* The answer decides the outcome; the tenant is known once it was resolved *)
Answers(r, outcome, scope) ==
  request' = [request EXCEPT ![r] =
    [Onward(r, IF request[r].planned \/ outcome = "denied" THEN "completion" ELSE "done")
       EXCEPT !.outcome = outcome, !.scope = scope]]

Denied(r) ==
  /\ request[r].phase = "run" /\ ~Allowed(r)
  /\ Answers(r, "denied", Platform)
  /\ UNCHANGED <<head, events, performed, verifier, reader, faults>>

(* A read only owners may ask for, refused after the tenant was resolved *)
DeniedByRole(r) ==
  /\ request[r].phase = "run" /\ ~request[r].planned /\ CanRead(r) /\ ~CanAdminister(r)
  /\ Answers(r, "denied", MemberOf[r].tenant)
  /\ UNCHANGED <<head, events, performed, verifier, reader, faults>>

Performs(r) ==
  /\ request[r].phase = "run" /\ Allowed(r)
  /\ performed' = IF request[r].planned THEN performed \cup {r} ELSE performed
  /\ Answers(r, "succeeded", MemberOf[r].tenant)
  /\ UNCHANGED <<head, events, verifier, reader, faults>>

(* Refused by the handler, or failed after its change was committed *)
Refuses(r) ==
  /\ request[r].phase = "run" /\ Allowed(r)
  /\ performed' \in {performed, IF request[r].planned THEN performed \cup {r} ELSE performed}
  /\ Answers(r, "failed", MemberOf[r].tenant)
  /\ UNCHANGED <<head, events, verifier, reader, faults>>

(* The process dies, or the handler raises past the middleware *)
RequestLost(r) ==
  /\ request[r].phase \notin {"idle", "done"}
  /\ faults < MaxFaults /\ faults' = faults + 1
  /\ performed' \in {performed,
       IF request[r].phase = "run" /\ request[r].planned /\ Allowed(r)
       THEN performed \cup {r} ELSE performed}
  /\ Goes(r, "done")
  /\ UNCHANGED <<head, events, verifier, reader>>

-----------------------------------------------------------------------------
(* An integrity check reads the head and the rows in one transaction, and so
   from one snapshot, the first statement's *)
NoCheck == [phase |-> "idle", scope |-> Platform, head |-> NoHead, rows |-> <<>>, verified |-> TRUE]

LatestRows == events[verifier.scope]
SnapshotRows == verifier.rows

BeginsVerify(scope) ==
  /\ verifier.phase \in {"idle", "answered"}
  /\ verifier' = [NoCheck EXCEPT !.phase = "rows", !.scope = scope,
                                 !.head = head[scope], !.rows = events[scope]]
  /\ UNCHANGED <<head, events, request, performed, reader, faults>>

Unbroken(rows) ==
  \A i \in DOMAIN rows : rows[i].previous = (IF i = 1 THEN Genesis ELSE EventHash(rows[i - 1]))

HeadMatches(h, rows) == h.count = Len(rows) /\ h.last = LastHash(rows)

Verifies ==
  /\ verifier.phase = "rows"
  /\ verifier' = [NoCheck EXCEPT !.phase = "answered",
       !.verified = Unbroken(SnapshotRows) /\ HeadMatches(verifier.head, SnapshotRows)]
  /\ UNCHANGED <<head, events, request, performed, reader, faults>>

(* Pages, newest first: one row more than the page holds tells whether there is
   another, and the cursor is the last sequence shown *)
NoReader == [scope |-> Platform, phase |-> "idle", cursor |-> 0, seen |-> <<>>]

Before(scope, cursor) == {i \in DOMAIN events[scope] : cursor = 0 \/ i < cursor}
Least(m, n) == IF m <= n THEN m ELSE n
NewestFirst(S, n) ==
  [k \in 1 .. Least(n, Cardinality(S)) |-> CHOOSE i \in S : Cardinality({j \in S : j >= i}) = k]

CursorPast(rows) == rows[Len(rows)]
NextCursor(rows) == rows[Limit]

ReadsPage(scope) ==
  /\ reader.phase = "idle" \/ (reader.phase = "more" /\ reader.scope = scope)
  /\ LET rows == NewestFirst(Before(scope, reader.cursor), Limit + 1)
         more == Len(rows) > Limit
         page == SubSeq(rows, 1, Least(Limit, Len(rows)))
     IN  reader' = [scope |-> scope, seen |-> reader.seen \o page,
                    phase |-> IF more THEN "more" ELSE "end",
                    cursor |-> IF more THEN NextCursor(rows) ELSE 0]
  /\ UNCHANGED <<head, events, request, performed, verifier, faults>>

-----------------------------------------------------------------------------
Init ==
  /\ head = [s \in Scopes |-> NoHead] /\ events = [s \in Scopes |-> <<>>]
  /\ request = [r \in Requests |-> IdleRequest]
  /\ performed = {} /\ verifier = NoCheck /\ reader = NoReader /\ faults = 0

RequestStep(r) ==
  \/ \E planned \in BOOLEAN : Arrives(r, planned)
  \/ AppendsToChain(r) \/ CapacityExceeded(r) \/ FindsNoHead(r) \/ CreatesChain(r)
  \/ CreateCollides(r) \/ AppendFails(r)
  \/ Denied(r) \/ DeniedByRole(r) \/ Performs(r) \/ Refuses(r) \/ RequestLost(r)

Next ==
  \/ \E r \in Requests : RequestStep(r)
  \/ \E scope \in Scopes : BeginsVerify(scope) \/ ReadsPage(scope)
  \/ Verifies

Spec == Init /\ [][Next]_vars

-----------------------------------------------------------------------------
(* Every variable has its type, and a head counts its rows. *)
TypeOK ==
  /\ \A s \in Scopes : HeadMatches(head[s], events[s]) /\ head[s].count <= Capacity
  /\ \A r \in Requests : request[r].phase \in Phases /\ Entry(r) \in AuditEntry
                         /\ request[r].tries \in 0 .. 2
  /\ performed \subseteq Requests /\ faults \in 0 .. MaxFaults

(* Nothing that is audited happens without a record that it was started, and a
   request that answered has a second record unless an append failed
   (api/audit.py:42). *)
ChangesAreRecorded ==
  /\ \A r \in performed : [request |-> r, outcome |-> "started"] \in ToSet(head[Platform].last)
  /\ \A r \in performed : request[r].phase = "done" /\ faults = 0 =>
       \/ head[MemberOf[r].tenant].count >= Capacity
       \/ \E o \in {"succeeded", "failed"} :
            [request |-> r, outcome |-> o] \in ToSet(head[MemberOf[r].tenant].last)

(* A check that runs while requests append never reports a broken chain
   (persistence/audit.py:142). *)
ChecksFindNoBreak == verifier.verified

(* A reader who follows the cursors sees every event older than the newest one
   shown, once and in order, whatever is appended meanwhile
   (persistence/audit.py:122). *)
PagesAreWhole ==
  \A i \in DOMAIN reader.seen :
    /\ i > 1 => reader.seen[i] = reader.seen[i - 1] - 1
    /\ reader.phase = "end" => Last(reader.seen) = 1

=============================================================================
