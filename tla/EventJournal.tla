---------------------------- MODULE EventJournal ----------------------------
(***************************************************************************)
(* One stream of the durable event journal (adapters/persistence/          *)
(* events.py): the transactions that append to it, the followers that the  *)
(* brokers' stream generators serve (conversations/events.py; the workflow *)
(* broker has the same text), and the scan that looks for tool calls when  *)
(* a reply is recovered.                                                   *)
(*                                                                         *)
(* Writers and followers are in any number of processes.  A writer reads   *)
(* the clock before it waits for the stream's row, so the retention of an  *)
(* event, and the cleanup its append does, may be out of date by any       *)
(* length of time when they take effect.                                   *)
(***************************************************************************)
EXTENDS Integers, FiniteSets

CONSTANTS
    Writers,        \* appends that may be under way at the same time
    Followers,      \* clients of the stream
    Scanners,       \* recoveries that look through it
    Keys,           \* event keys: digests of what is appended
    None,
    Retention,      \* ticks an event is kept
    Capacity,       \* maximum_events_per_stream
    Limit,          \* rows read at a time
    MaxClock,       \* bound on the clock
    MaxSequence,    \* bound on the events appended
    MaxDrops        \* bound on lost or closed connections

ASSUME RetentionAssumption == Retention \in Nat \ {0}
ASSUME CapacityAssumption == Capacity \in Nat \ {0}
ASSUME LimitAssumption == Limit \in Nat \ {0}
ASSUME WritersAssumption == None \notin Writers

VARIABLES
    now,            \* the clock
    rows,           \* durable_events
    next_sequence,  \* durable_event_streams.next_sequence
    lock,           \* the writer whose transaction holds the stream's row
    appends,        \* what each writer is doing
    followers,      \* each client, with the generator that serves it
    heard,          \* the events each client has taken in
    scans,          \* each recovery's scan
    drops           \* connections lost or closed so far

journal == <<rows, next_sequence, lock, appends>>
vars == <<now, journal, followers, heard, scans, drops>>

Row == [seq : Nat, key : Keys, until : Nat]

\* sequence: next_sequence as the transaction loaded it.
Append == [pc : {"idle", "waiting", "locked"},
           key : Keys \cup {None}, stamp : Nat, sequence : Nat]
NoAppend == [pc |-> "idle", key |-> None, stamp |-> 0, sequence |-> 0]

\* url: after_sequence in the subscription's address, the same at every
\* reconnection.  last: the client's last event, its Last-Event-ID.  at and
\* batch: where the generator is, and what it has read and not yet sent.
Follower == [pc : {"off", "connecting", "open", "told"},
             url : Nat, last : Nat, at : Nat, batch : SUBSET Nat]

\* began: the events there were when the scan began.
Scan == [pc : {"off", "on", "done"}, at : Nat, latest : Nat, began : Nat,
         seen : SUBSET Nat]

TypeOK ==
    /\ now \in Nat
    /\ rows \subseteq Row
    /\ next_sequence \in Nat \ {0}
    /\ lock \in Writers \cup {None}
    /\ appends \in [Writers -> Append]
    /\ \A w \in Writers : lock = w <=> appends[w].pc = "locked"
    /\ followers \in [Followers -> Follower]
    /\ heard \in [Followers -> SUBSET Nat]
    /\ scans \in [Scanners -> Scan]
    /\ drops \in Nat

Init ==
    /\ now = 0
    /\ rows = {}
    /\ next_sequence = 1
    /\ lock = None
    /\ appends = [w \in Writers |-> NoAppend]
    /\ followers = [f \in Followers |->
           [pc |-> "off", url |-> 0, last |-> 0, at |-> 0, batch |-> {}]]
    /\ heard = [f \in Followers |-> {}]
    /\ scans = [c \in Scanners |->
           [pc |-> "off", at |-> 0, latest |-> 0, began |-> 0, seen |-> {}]]
    /\ drops = 0

\* The sequence numbers read and bounds see: rows whose time is not over.
Readable == {r.seq : r \in {q \in rows : q.until > now}}

Gone == (1..(next_sequence - 1)) \ Readable

AppendGoes(w, a) == appends' = [appends EXCEPT ![w] = a]
FollowerGoes(f, g) == followers' = [followers EXCEPT ![f] = g]
ScanGoes(c, s) == scans' = [scans EXCEPT ![c] = s]

Tick ==
    /\ now < MaxClock
    /\ now' = now + 1
    /\ UNCHANGED <<journal, followers, heard, scans, drops>>

----------------------------------------------------------------------------
(* append *)

Room ==
    next_sequence + Cardinality({w \in Writers : appends[w].pc # "idle"}) <= MaxSequence

\* publish: occurred_at, retention_until and the cleanup's now are read
\* before the transaction.  The same event may be appended any number of times.
Begin(w, key) ==
    /\ appends[w].pc = "idle"
    /\ Room
    /\ AppendGoes(w, [pc |-> "waiting", key |-> key, stamp |-> now, sequence |-> 0])
    /\ UNCHANGED <<now, rows, next_sequence, lock, followers, heard, scans, drops>>

\* Broken variant: the stream's row is read without FOR UPDATE.
LockIgnored(w) == TRUE
LockFree(w) == lock = None

\* INSERT IGNORE and SELECT ... FOR UPDATE of the stream's row.
TakeLock(w) ==
    /\ appends[w].pc = "waiting"
    /\ LockFree(w)
    /\ lock' = w
    /\ AppendGoes(w, [appends[w] EXCEPT !.pc = "locked", !.sequence = next_sequence])
    /\ UNCHANGED <<now, rows, next_sequence, followers, heard, scans, drops>>

\* Broken variant: the cleanup is a tick early.
KeptShort(w) == {r \in rows : r.until > appends[w].stamp + 1}

\* The rows left by the cleanup.
Kept(w) == {r \in rows : r.until > appends[w].stamp}

\* Broken variant: the key is not looked up.
KnownForgotten(w) == FALSE
Known(w) == \E r \in Kept(w) : r.key = appends[w].key

Full(w) == Cardinality(Kept(w)) >= Capacity

NewRow(w) == [seq |-> appends[w].sequence, key |-> appends[w].key,
              until |-> appends[w].stamp + Retention]

\* The rest of the transaction, which nobody sees before it commits.  An
\* event that is still there is returned as it is; a full stream raises and
\* rolls the cleanup back.
Commit(w) ==
    /\ appends[w].pc = "locked"
    /\ lock' = None
    /\ AppendGoes(w, NoAppend)
    /\ \/ /\ Known(w)
          /\ rows' = Kept(w)
          /\ UNCHANGED next_sequence
       \/ /\ ~Known(w)
          /\ Full(w)
          /\ UNCHANGED <<rows, next_sequence>>
       \/ /\ ~Known(w)
          /\ ~Full(w)
          /\ rows' = Kept(w) \cup {NewRow(w)}
          /\ next_sequence' = appends[w].sequence + 1
    /\ UNCHANGED <<now, followers, heard, scans, drops>>

\* Broken variant: a transaction that is rolled back keeps its lock.
ReleasedNever(w) == lock
Released(w) == IF lock = w THEN None ELSE lock

\* The writer dies, or its transaction is rolled back: a deadlock between two
\* INSERT IGNORE of one stream, a timeout, a lost session.
Abort(w) ==
    /\ appends[w].pc # "idle"
    /\ lock' = Released(w)
    /\ AppendGoes(w, NoAppend)
    /\ UNCHANGED <<now, rows, next_sequence, followers, heard, scans, drops>>

----------------------------------------------------------------------------
(* Following *)

\* The client subscribes from where it is.
Subscribe(f) ==
    /\ followers[f].pc = "off"
    /\ FollowerGoes(f, [followers[f] EXCEPT !.pc = "connecting",
                                            !.url = followers[f].last])
    /\ UNCHANGED <<now, journal, heard, scans, drops>>

\* resume_sequence: Last-Event-ID counts only when the address says 0.
Resume(f) == IF followers[f].url # 0 THEN followers[f].url ELSE followers[f].last

\* _validate_persistent_resume, of the least and greatest readable numbers.
Available(n) ==
    IF Readable = {} THEN n = 0
    ELSE /\ \E latest \in Readable : n <= latest
         /\ \E earliest \in Readable : n >= earliest - 1

\* The route validates, and the generator again: if it refuses what the route
\* allowed, the response breaks off and the browser connects once more, as if
\* it had not yet.  Refused by the route, the client drops the stream and reads
\* the messages instead.
Connect(f) ==
    /\ followers[f].pc = "connecting"
    /\ FollowerGoes(f,
           IF Available(Resume(f))
           THEN [followers[f] EXCEPT !.pc = "open", !.at = Resume(f), !.batch = {}]
           ELSE [followers[f] EXCEPT !.pc = "told"])
    /\ UNCHANGED <<now, journal, heard, scans, drops>>

\* The first rows after a number, Limit of them if there are so many.
IsPage(page, after) ==
    LET behind == {n \in Readable : n > after} IN
    /\ page # {}
    /\ \E top \in behind : page = {n \in behind : n <= top}
    /\ Cardinality(page) <= Limit
    /\ Cardinality(page) = Limit \/ page = behind

Pages(after) == {{n \in Readable : n > after /\ n <= top} : top \in Readable}

\* One round of _stream_persistent, which sleeps while there is nothing new.
Poll(f) ==
    /\ followers[f].pc = "open"
    /\ followers[f].batch = {}
    /\ \E page \in Pages(followers[f].at) :
           /\ IsPage(page, followers[f].at)
           /\ FollowerGoes(f, [followers[f] EXCEPT !.batch = page])
    /\ UNCHANGED <<now, journal, heard, scans, drops>>

\* Broken variant: the generator does not move on.
SentInPlace(g, n) == [g EXCEPT !.batch = @ \ {n}, !.last = IF n > @ THEN n ELSE @]
Sent(g, n) ==
    [g EXCEPT !.at = n, !.batch = @ \ {n}, !.last = IF n > @ THEN n ELSE @]

\* An event is sent; the client drops those it has had.
Send(f) ==
    /\ followers[f].pc = "open"
    /\ \E n \in followers[f].batch :
           /\ \A m \in followers[f].batch : n <= m
           /\ FollowerGoes(f, Sent(followers[f], n))
           /\ heard' = IF n > followers[f].last
                       THEN [heard EXCEPT ![f] = @ \cup {n}]
                       ELSE heard
    /\ UNCHANGED <<now, journal, scans, drops>>

\* The connection or the API process is lost, and the browser reconnects; or
\* the client closes it.
Drop(f) ==
    /\ followers[f].pc = "open"
    /\ drops < MaxDrops
    /\ drops' = drops + 1
    /\ \E pc \in {"connecting", "off"} :
           FollowerGoes(f, [followers[f] EXCEPT !.pc = pc, !.at = 0, !.batch = {}])
    /\ UNCHANGED <<now, journal, heard, scans>>

----------------------------------------------------------------------------
(* The scan for tool calls *)

\* Broken variant: the scan starts behind the earliest event.
ScanAfter(earliest) == earliest
ScanFrom(earliest) == earliest - 1

\* bounds
ScanBegin(c) ==
    /\ scans[c].pc = "off"
    /\ \/ /\ Readable = {}
          /\ ScanGoes(c, [scans[c] EXCEPT !.pc = "done", !.began = next_sequence - 1])
       \/ \E earliest, latest \in Readable :
              /\ \A n \in Readable : earliest <= n /\ n <= latest
              /\ ScanGoes(c, [scans[c] EXCEPT !.pc = "on", !.at = ScanFrom(earliest),
                                  !.latest = latest, !.began = next_sequence - 1])
    /\ UNCHANGED <<now, journal, followers, heard, drops>>

ScanRead(c) ==
    /\ scans[c].pc = "on"
    /\ scans[c].at < scans[c].latest
    /\ \E page \in Pages(scans[c].at) :
           /\ IsPage(page, scans[c].at)
           /\ \E top \in page :
                  /\ \A n \in page : n <= top
                  /\ ScanGoes(c, [scans[c] EXCEPT !.seen = @ \cup page, !.at = top])
    /\ UNCHANGED <<now, journal, followers, heard, drops>>

\* The latest event is reached, or everything that was left has expired.
ScanEnd(c) ==
    /\ scans[c].pc = "on"
    /\ scans[c].at >= scans[c].latest \/ \A n \in Readable : n <= scans[c].at
    /\ ScanGoes(c, [scans[c] EXCEPT !.pc = "done"])
    /\ UNCHANGED <<now, journal, followers, heard, drops>>

----------------------------------------------------------------------------

Next ==
    \/ Tick
    \/ \E w \in Writers :
           \/ \E key \in Keys : Begin(w, key)
           \/ TakeLock(w)
           \/ Commit(w)
           \/ Abort(w)
    \/ \E f \in Followers :
           \/ Subscribe(f)
           \/ Connect(f)
           \/ Poll(f)
           \/ Send(f)
           \/ Drop(f)
    \/ \E c \in Scanners : ScanBegin(c) \/ ScanRead(c) \/ ScanEnd(c)

Spec == Init /\ [][Next]_vars

\* A browser reconnects by itself, and a generator polls and sends as long as
\* its connection lasts.  Nothing is assumed of writers.
Fairness ==
    \A f \in Followers :
        WF_vars(Connect(f)) /\ WF_vars(Poll(f)) /\ WF_vars(Send(f))

LiveSpec == Spec /\ Fairness

----------------------------------------------------------------------------
(* Properties *)

\* Neither unique constraint of durable_events is ever hit, though no writer
\* is ready to be told so: numbers and keys are unique among the rows.
RowsDistinct ==
    \A r, q \in rows : r.seq = q.seq \/ r.key = q.key => r = q

\* No append cleans up an event before its time is over, however the clocks
\* that the appends have read are apart.
RetentionKept ==
    [][\A r \in rows : r \notin rows' => r.until <= now]_vars

\* The scan finds every tool call it could find: an event that was committed
\* before it began, and is readable when it ends, was seen.  A reply is
\* recovered without repeating side effects because of it.
ScanFinds ==
    \A c \in Scanners :
        scans[c].pc = "done" =>
            \A n \in Readable : n <= scans[c].began => n \in scans[c].seen

\* No follower is told of a missing event and goes on to hear a later one:
\* whatever is up to its last event it has heard.
NoSilentGap ==
    \A f \in Followers : \A n \in 1..followers[f].last : n \in heard[f]

\* Numbers are given in the order of commits, whoever appends, so a follower
\* that has moved on never leaves a readable event behind, whatever happened
\* to its connections.
Promise == INSTANCE EventStream WITH
    last <- next_sequence - 1,
    gone <- Gone

ImplementsStream == Promise!Spec

\* An event reaches every subscribed client, unless it expires first or the
\* client is told that history is missing.
Delivered ==
    \A f \in Followers : \A n \in 1..MaxSequence :
        n \in Readable /\ followers[f].pc # "off" ~>
            n \in heard[f] \/ n \notin Readable \/ followers[f].pc \in {"off", "told"}
=============================================================================
