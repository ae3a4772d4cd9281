------------------------- MODULE EventJournalProofs -------------------------
(***************************************************************************)
(* EventJournal, for any writers, followers, scanners, keys and bounds:    *)
(* it is well typed, its unique constraints are never hit, retention is    *)
(* kept, scans miss nothing, and it implements EventStream.                *)
(*                                                                         *)
(* The argument rests on one fact, Fresh: a step makes no number readable  *)
(* except the one that was next.  Whatever a follower or a scan knows of   *)
(* the readable numbers below some point is then only ever weakened by     *)
(* expiry.                                                                 *)
(***************************************************************************)
EXTENDS EventJournal, TLAPS

\* The transaction that holds the stream's row has the number that is next,
\* and the rows have the numbers given so far.
Ordered ==
    /\ \A w \in Writers :
           appends[w].pc # "idle" => appends[w].key \in Keys /\ appends[w].stamp <= now
    /\ \A w \in Writers : appends[w].pc = "locked" => appends[w].sequence = next_sequence
    /\ \A r \in rows : 1 <= r.seq /\ r.seq < next_sequence
    /\ RowsDistinct

\* A follower has heard whatever is readable up to its last event, and what
\* its generator has read is all there is to read up to any event of it.
Follows(f) ==
    /\ followers[f].last < next_sequence
    /\ heard[f] \subseteq 1..followers[f].last
    /\ \A n \in Readable : n <= followers[f].last => n \in heard[f]
    /\ followers[f].url <= followers[f].last
    /\ followers[f].at <= followers[f].last
    /\ \A n \in followers[f].batch : followers[f].at < n /\ n < next_sequence
    /\ \A n \in Readable : \A m \in followers[f].batch :
           followers[f].at < n /\ n <= m => n \in followers[f].batch

\* A scan knows all that is readable up to where it is, of the events there
\* were when it began.
Scanned(c) ==
    /\ scans[c].began < next_sequence
    /\ scans[c].pc = "on" =>
           \A n \in Readable : n <= scans[c].began =>
               /\ n <= scans[c].latest
               /\ n <= scans[c].at => n \in scans[c].seen
    /\ scans[c].pc = "done" =>
           \A n \in Readable : n <= scans[c].began => n \in scans[c].seen

JInv ==
    /\ TypeOK
    /\ Ordered
    /\ \A f \in Followers : Follows(f)
    /\ \A c \in Scanners : Scanned(c)

USE RetentionAssumption, CapacityAssumption, LimitAssumption, WritersAssumption

----------------------------------------------------------------------------
(* Lemmas *)

\* The invariant holds of an empty stream.
LEMMA JInit == Init => JInv
  <1> SUFFICES ASSUME Init PROVE JInv
    OBVIOUS
  <1>1. Readable = {}
    BY DEF Init, Readable
  <1>2. TypeOK
    BY DEF Init, TypeOK, Row, Append, NoAppend, Follower, Scan
  <1>3. Ordered
    BY DEF Init, Ordered, NoAppend, RowsDistinct
  <1>4. \A f \in Followers : Follows(f)
    BY <1>1 DEF Init, Follows
  <1>5. \A c \in Scanners : Scanned(c)
    BY <1>1 DEF Init, Scanned
  <1> QED BY <1>2, <1>3, <1>4, <1>5 DEF JInv

\* What read returns are readable numbers, as they are numbered.
LEMMA ReadableTyped ==
  ASSUME TypeOK, Ordered
  PROVE  Readable \subseteq 1..(next_sequence - 1)
  BY DEF TypeOK, Ordered, Readable, Row

\* A page is made of readable numbers.
LEMMA PageTyped ==
  ASSUME NEW after, NEW page \in Pages(after)
  PROVE  page \subseteq Readable
  <1>1. PICK top \in Readable : page = {n \in Readable : n > after /\ n <= top}
    BY DEF Pages
  <1> QED BY <1>1

\* A page holds all that is readable behind a number, up to any of its own.
LEMMA PageFacts ==
  ASSUME Readable \subseteq Nat, NEW after \in Nat,
         NEW page \in Pages(after), IsPage(page, after)
  PROVE  /\ page \subseteq Readable
         /\ \A n \in page : n > after
         /\ \A n \in Readable : \A m \in page : n > after /\ n <= m => n \in page
  <1>1. PICK top \in Readable : page = {n \in Readable : n > after /\ n <= top}
    BY DEF Pages
  <1> QED BY <1>1

\* The three ways a step treats the rows: they stay, an append finds its
\* event and cleans up, or it adds its event after cleaning up.
LEMMA RowsStep ==
  ASSUME TypeOK, [Next]_vars
  PROVE  \/ UNCHANGED <<rows, next_sequence>>
         \/ \E w \in Writers :
                /\ appends[w].pc = "locked"
                /\ now' = now
                /\ \/ rows' = Kept(w) /\ UNCHANGED next_sequence
                   \/ /\ ~Known(w)
                      /\ rows' = Kept(w) \cup {NewRow(w)}
                      /\ next_sequence' = appends[w].sequence + 1
  BY DEF Next, vars, journal, Tick, Begin, TakeLock, Commit, Abort, Subscribe,
         Connect, Poll, Send, Drop, ScanBegin, ScanRead, ScanEnd

\* The clock never goes back.
LEMMA ClockStep ==
  ASSUME TypeOK, [Next]_vars
  PROVE  now' \in Nat /\ now <= now'
  <1>1. now \in Nat
    BY DEF TypeOK
  <1>2. CASE Tick
    BY <1>1, <1>2 DEF Tick
  <1>3. CASE ~Tick
    <2>1. now' = now
      BY <1>3 DEF Next, vars, Begin, TakeLock, Commit, Abort, Subscribe, Connect,
                  Poll, Send, Drop, ScanBegin, ScanRead, ScanEnd
    <2> QED BY <1>1, <2>1
  <1> QED BY <1>2, <1>3

----------------------------------------------------------------------------
(* The journal *)

\* What each writer is doing after a step.
LEMMA AppendsStep ==
  ASSUME TypeOK, [Next]_vars, NEW w \in Writers
  PROVE  \/ appends'[w] = appends[w]
         \/ appends'[w] = NoAppend
         \/ \E key \in Keys : appends'[w] = [pc |-> "waiting", key |-> key,
                                             stamp |-> now, sequence |-> 0]
         \/ /\ lock = None
            /\ lock' = w
            /\ appends[w].pc = "waiting"
            /\ appends'[w] = [appends[w] EXCEPT !.pc = "locked", !.sequence = next_sequence]
            /\ UNCHANGED <<now, rows, next_sequence>>
  BY DEF TypeOK, Next, vars, journal, Tick, Begin, TakeLock, LockFree, Commit, Abort,
         AppendGoes, Subscribe, Connect, Poll, Send, Drop, ScanBegin, ScanRead, ScanEnd

\* A number is given only by the transaction that holds the stream's row,
\* which lets go of it.
LEMMA NumberGiven ==
  ASSUME TypeOK, [Next]_vars, next_sequence' # next_sequence,
         NEW v \in Writers
  PROVE  appends'[v].pc # "locked"
  <1>1. PICK w \in Writers : Commit(w)
    BY DEF Next, vars, journal, Tick, Begin, TakeLock, Commit, Abort,
           Subscribe, Connect, Poll, Send, Drop, ScanBegin, ScanRead, ScanEnd
  <1>2. CASE v = w
    BY <1>1, <1>2 DEF Commit, AppendGoes, NoAppend, TypeOK
  <1>3. CASE v # w
    <2>1. appends'[v] = appends[v]
      BY <1>1, <1>3 DEF Commit, AppendGoes, TypeOK
    <2>2. lock = w
      BY <1>1 DEF Commit, TypeOK
    <2> QED BY <2>1, <2>2, <1>3 DEF TypeOK
  <1> QED BY <1>2, <1>3

\* Order is kept by every step.
LEMMA OrderedStep ==
  ASSUME TypeOK, Ordered, [Next]_vars
  PROVE  Ordered'
  <1>1. \A w \in Writers : 
            appends'[w].pc # "idle" => appends'[w].key \in Keys /\ appends'[w].stamp <= now'
    <2> SUFFICES ASSUME NEW w \in Writers, appends'[w].pc # "idle"
                 PROVE  appends'[w].key \in Keys /\ appends'[w].stamp <= now'
      OBVIOUS
    <2>1. /\ appends[w] \in Append
          /\ now \in Nat
      BY DEF TypeOK
    <2>2. now' \in Nat /\ now <= now'
      BY ClockStep
    <2>3. appends[w].pc # "idle" => appends[w].key \in Keys /\ appends[w].stamp <= now
      BY DEF Ordered
    <2>4. CASE appends'[w] = appends[w]
      BY <2>1, <2>2, <2>3, <2>4 DEF Append
    <2>5. CASE appends'[w] = NoAppend
      BY <2>5 DEF NoAppend
    <2>6. CASE \E key \in Keys : appends'[w] = [pc |-> "waiting", key |-> key,
                                             stamp |-> now, sequence |-> 0]
      BY <2>6, <2>1, <2>2
    <2>7. CASE /\ appends[w].pc = "waiting"
               /\ appends'[w] = [appends[w] EXCEPT !.pc = "locked",
                                                   !.sequence = next_sequence]
      <3>1. appends'[w].stamp = appends[w].stamp /\ appends'[w].key = appends[w].key
        BY <2>7, <2>1 DEF Append
      <3> QED BY <3>1, <2>7, <2>1, <2>2, <2>3 DEF Append
    <2> QED BY <2>4, <2>5, <2>6, <2>7, AppendsStep
  <1>2. \A w \in Writers : appends'[w].pc = "locked" =>
            appends'[w].sequence = next_sequence'
    <2> SUFFICES ASSUME NEW w \in Writers, appends'[w].pc = "locked"
                 PROVE  appends'[w].sequence = next_sequence'
      OBVIOUS
    <2>1. next_sequence' = next_sequence
      BY NumberGiven
    <2>2. appends[w] \in Append
      BY DEF TypeOK
    <2>3. CASE appends'[w] = appends[w]
      BY <2>1, <2>3 DEF Ordered
    <2>4. CASE appends'[w] = [appends[w] EXCEPT !.pc = "locked",
                                                !.sequence = next_sequence]
      BY <2>1, <2>2, <2>4 DEF Append
    <2>5. appends'[w] # NoAppend
      BY DEF NoAppend
    <2>6. ASSUME NEW key \in Keys,
                 appends'[w] = [pc |-> "waiting", key |-> key, stamp |-> now, sequence |-> 0]
          PROVE  FALSE
      BY <2>6
    <2> QED BY <2>3, <2>4, <2>5, <2>6, AppendsStep
  <1>3. (\A r \in rows : 1 <= r.seq /\ r.seq < next_sequence)' /\ RowsDistinct'
    <2>1. CASE UNCHANGED <<rows, next_sequence>>
      BY <2>1 DEF Ordered, RowsDistinct
    <2>2. ASSUME NEW w \in Writers, rows' = Kept(w), UNCHANGED next_sequence
          PROVE  (\A r \in rows : 1 <= r.seq /\ r.seq < next_sequence)' /\ RowsDistinct'
      BY <2>2 DEF Ordered, RowsDistinct, Kept
    <2>3. ASSUME NEW w \in Writers, appends[w].pc = "locked", ~Known(w),
                 rows' = Kept(w) \cup {NewRow(w)},
                 next_sequence' = appends[w].sequence + 1
          PROVE  (\A r \in rows : 1 <= r.seq /\ r.seq < next_sequence)' /\ RowsDistinct'
      <3>1. next_sequence \in Nat /\ next_sequence >= 1 /\ next_sequence' = next_sequence + 1
        BY <2>3 DEF TypeOK, Ordered
      <3>2. NewRow(w).seq = next_sequence /\ NewRow(w).key = appends[w].key
        BY <2>3 DEF NewRow, Ordered
      <3>3. \A r \in Kept(w) : /\ r \in rows
                               /\ r.seq \in Nat
                               /\ 1 <= r.seq
                               /\ r.seq < next_sequence
                               /\ r.key # appends[w].key
        BY <2>3 DEF Kept, Known, Ordered, TypeOK, Row
      <3>4. (\A r \in rows : 1 <= r.seq /\ r.seq < next_sequence)'
        BY <3>1, <3>2, <3>3, <2>3
      <3>5. ASSUME NEW r \in rows', NEW q \in rows', r.seq = q.seq \/ r.key = q.key
            PROVE  r = q
        <4>1. CASE r \in Kept(w) /\ q \in Kept(w)
          BY <4>1, <3>3, <3>5 DEF Ordered, RowsDistinct
        <4>2. CASE r = NewRow(w) \/ q = NewRow(w)
          BY <4>2, <3>1, <3>2, <3>3, <3>5, <2>3
        <4> QED BY <4>1, <4>2, <2>3
      <3> QED BY <3>4, <3>5 DEF RowsDistinct
    <2> QED BY <2>1, <2>2, <2>3, RowsStep
  <1> QED BY <1>1, <1>2, <1>3 DEF Ordered

\* The one fact about the journal that its readers rest on: a step makes no
\* number readable but the one that was next.
LEMMA Fresh ==
  ASSUME TypeOK, Ordered, [Next]_vars
  PROVE  /\ next_sequence' \in {next_sequence, next_sequence + 1}
         /\ \A n \in Readable' : n = next_sequence \/ n \in Readable
         /\ next_sequence' = next_sequence => Readable' \subseteq Readable
  <1>1. /\ \A r \in rows : r.until \in Nat
        /\ now \in Nat /\ now' \in Nat /\ now <= now'
    BY ClockStep DEF TypeOK, Row
  <1>2. ASSUME NEW r \in rows, r.until > now'
        PROVE  r.seq \in Readable
    BY <1>1, <1>2 DEF Readable
  <1>3. Readable' = {r.seq : r \in {q \in rows' : q.until > now'}}
    BY DEF Readable
  <1>4. CASE UNCHANGED <<rows, next_sequence>>
    BY <1>2, <1>3, <1>4
  <1>5. ASSUME NEW w \in Writers, rows' = Kept(w), UNCHANGED next_sequence
        PROVE  /\ next_sequence' = next_sequence
               /\ Readable' \subseteq Readable
    BY <1>2, <1>3, <1>5 DEF Kept
  <1>6. ASSUME NEW w \in Writers, appends[w].pc = "locked",
               rows' = Kept(w) \cup {NewRow(w)},
               next_sequence' = appends[w].sequence + 1
        PROVE  /\ next_sequence' = next_sequence + 1
               /\ \A n \in Readable' : n = next_sequence \/ n \in Readable
    <2>1. appends[w].sequence = next_sequence /\ next_sequence \in Nat
      BY <1>6 DEF Ordered, TypeOK
    <2>2. NewRow(w).seq = next_sequence
      BY <2>1 DEF NewRow
    <2> QED BY <1>2, <1>3, <1>6, <2>1, <2>2 DEF Kept
  <1>7. next_sequence \in Nat
    BY DEF TypeOK
  <1> QED BY <1>4, <1>5, <1>6, <1>7, RowsStep

----------------------------------------------------------------------------
(* Types *)

\* Every step keeps the types; that of a scan needs numbers to begin at 1.
LEMMA TypeStep ==
  ASSUME TypeOK, Ordered, [Next]_vars
  PROVE  TypeOK'
  <1> DEFINE Goal == TypeOK'
  <1>1. Readable \subseteq 1..(next_sequence - 1)
    BY ReadableTyped
  <1>2. next_sequence \in Nat /\ next_sequence >= 1
    BY DEF TypeOK
  <1>11. Readable \subseteq Nat
    BY <1>1, <1>2
  <1>3. ASSUME UNCHANGED vars PROVE Goal
    BY <1>3 DEF TypeOK, vars, journal
  <1>4. ASSUME Tick PROVE Goal
    BY <1>4 DEF Tick, TypeOK, journal
  <1>5. ASSUME NEW w \in Writers, NEW key \in Keys, Begin(w, key) PROVE Goal
    <2>1. [pc |-> "waiting", key |-> key, stamp |-> now, sequence |-> 0] \in Append
      BY DEF Append, TypeOK
    <2>2. appends' \in [Writers -> Append]
      BY <1>5, <2>1 DEF Begin, AppendGoes, TypeOK
    <2>3. \A v \in Writers : lock' = v <=> appends'[v].pc = "locked"
      BY <1>5 DEF Begin, AppendGoes, TypeOK
    <2> QED BY <1>5, <2>2, <2>3 DEF Begin, TypeOK
  <1>6. ASSUME NEW w \in Writers, TakeLock(w) PROVE Goal
    <2>1. [appends[w] EXCEPT !.pc = "locked", !.sequence = next_sequence] \in Append
      BY DEF Append, TypeOK
    <2>2. appends' \in [Writers -> Append]
      BY <1>6, <2>1 DEF TakeLock, AppendGoes, TypeOK
    <2>3. \A v \in Writers : lock' = v <=> appends'[v].pc = "locked"
      <3>1. appends'[w].pc = "locked" /\ lock' = w
        BY <1>6 DEF TakeLock, AppendGoes, TypeOK, Append
      <3>2. \A v \in Writers \ {w} : appends'[v] = appends[v] /\ appends[v].pc # "locked"
        BY <1>6 DEF TakeLock, LockFree, AppendGoes, TypeOK
      <3> QED BY <3>1, <3>2
    <2> QED BY <1>6, <2>2, <2>3 DEF TakeLock, TypeOK
  <1>7. ASSUME NEW w \in Writers, Commit(w) \/ Abort(w) PROVE Goal
    <2>1. NoAppend \in Append
      BY DEF NoAppend, Append
    <2>2. appends' = [appends EXCEPT ![w] = NoAppend]
      BY <1>7 DEF Commit, Abort, AppendGoes
    <2>3. appends' \in [Writers -> Append]
      BY <2>1, <2>2 DEF TypeOK
    <2>4. lock' \in Writers \cup {None} /\ lock' # w
      BY <1>7 DEF Commit, Abort, Released, TypeOK
    <2>5. \A v \in Writers \ {w} : lock' = v <=> lock = v
      BY <1>7 DEF Commit, Abort, Released, TypeOK
    <2>6. \A v \in Writers : lock' = v <=> appends'[v].pc = "locked"
      BY <2>2, <2>4, <2>5 DEF TypeOK, NoAppend
    <2>7. rows' \subseteq Row /\ next_sequence' \in Nat \ {0}
      <3>1. Kept(w) \subseteq Row
        BY DEF Kept, TypeOK
      <3>2. ASSUME appends[w].pc = "locked" PROVE NewRow(w) \in Row
        <4>1. appends[w] \in Append /\ appends[w].sequence = next_sequence
          BY <3>2 DEF TypeOK, Ordered
        <4>2. appends[w].key \in Keys
          BY <3>2 DEF Ordered
        <4> QED BY <4>1, <4>2 DEF NewRow, Row, Append
      <3>3. appends[w].pc = "locked" => appends[w].sequence = next_sequence
        BY DEF Ordered
      <3> QED BY <1>2, <1>7, <3>1, <3>2, <3>3 DEF Commit, Abort, TypeOK
    <2> QED BY <1>7, <2>3, <2>4, <2>6, <2>7 DEF Commit, Abort, TypeOK
  <1>8. ASSUME NEW f \in Followers,
               Subscribe(f) \/ Connect(f) \/ Poll(f) \/ Send(f) \/ Drop(f)
        PROVE  Goal
    <2>1. followers[f] \in Follower
      BY DEF TypeOK
    <2>2. Resume(f) \in Nat
      BY <2>1 DEF Resume, Follower
    <2>3. \A page \in SUBSET Readable : page \in SUBSET Nat
      BY <1>1
    <2>4. ASSUME Subscribe(f) PROVE followers' \in [Followers -> Follower]
      BY <2>1, <2>4 DEF Subscribe, FollowerGoes, Follower, TypeOK
    <2>5. ASSUME Connect(f) PROVE followers' \in [Followers -> Follower]
      BY <2>1, <2>2, <2>5 DEF Connect, FollowerGoes, Follower, TypeOK
    <2>6. ASSUME Poll(f) PROVE followers' \in [Followers -> Follower]
      <3>1. PICK page \in Pages(followers[f].at) :
                followers' = [followers EXCEPT ![f] = [followers[f] EXCEPT !.batch = page]]
        BY <2>6 DEF Poll, FollowerGoes
      <3>2. page \in SUBSET Nat
        BY <1>11, PageTyped
      <3> QED BY <2>1, <3>1, <3>2 DEF Follower, TypeOK
    <2>7. ASSUME Send(f) PROVE followers' \in [Followers -> Follower]
                               /\ heard' \in [Followers -> SUBSET Nat]
      <3>1. PICK n \in followers[f].batch :
                /\ followers' = [followers EXCEPT ![f] = Sent(followers[f], n)]
                /\ heard' = IF n > followers[f].last
                             THEN [heard EXCEPT ![f] = @ \cup {n}] ELSE heard
        BY <2>7 DEF Send, FollowerGoes
      <3>2. n \in Nat
        BY <2>1 DEF Follower
      <3>3. Sent(followers[f], n) \in Follower
        BY <2>1, <3>2 DEF Sent, Follower
      <3> QED BY <3>1, <3>2, <3>3 DEF TypeOK
    <2>8. ASSUME Drop(f) PROVE followers' \in [Followers -> Follower] /\ drops' \in Nat
      <3>1. PICK pc \in {"connecting", "off"} :
                followers' = [followers EXCEPT ![f] =
                    [followers[f] EXCEPT !.pc = pc, !.at = 0, !.batch = {}]]
        BY <2>8 DEF Drop, FollowerGoes
      <3>2. [followers[f] EXCEPT !.pc = pc, !.at = 0, !.batch = {}] \in Follower
        BY <2>1 DEF Follower
      <3> QED BY <2>8, <3>1, <3>2 DEF Drop, TypeOK
    <2>9. followers' \in [Followers -> Follower] /\ heard' \in [Followers -> SUBSET Nat]
          /\ drops' \in Nat
      BY <1>8, <2>4, <2>5, <2>6, <2>7, <2>8
         DEF Subscribe, Connect, Poll, Send, Drop, TypeOK
    <2>10. UNCHANGED <<now, journal, scans>>
      BY <1>8 DEF Subscribe, Connect, Poll, Send, Drop
    <2> QED BY <2>9, <2>10 DEF TypeOK, journal
  <1>9. ASSUME NEW c \in Scanners, ScanBegin(c) \/ ScanRead(c) \/ ScanEnd(c) PROVE Goal
    <2>1. scans[c] \in Scan
      BY DEF TypeOK
    <2>2. ASSUME ScanBegin(c) PROVE scans' \in [Scanners -> Scan]
      <3>1. CASE scans' = [scans EXCEPT ![c] =
                     [scans[c] EXCEPT !.pc = "done", !.began = next_sequence - 1]]
        <4>1. next_sequence - 1 \in Nat
          BY <1>2
        <4>2. ASSUME NEW z \in Nat
              PROVE  [scans[c] EXCEPT !.pc = "done", !.began = z] \in Scan
          BY <2>1 DEF Scan
        <4> QED BY <3>1, <4>1, <4>2 DEF TypeOK
      <3>2. ASSUME NEW earliest \in Readable, NEW latest \in Readable,
                   scans' = [scans EXCEPT ![c] =
                       [scans[c] EXCEPT !.pc = "on", !.at = ScanFrom(earliest),
                                        !.latest = latest, !.began = next_sequence - 1]]
            PROVE  scans' \in [Scanners -> Scan]
        <4>1. latest \in Nat /\ ScanFrom(earliest) \in Nat /\ next_sequence - 1 \in Nat
          BY <1>1, <1>2 DEF ScanFrom
        <4>2. ASSUME NEW x \in Nat, NEW y \in Nat, NEW z \in Nat
              PROVE  [scans[c] EXCEPT !.pc = "on", !.at = x, !.latest = y, !.began = z]
                         \in Scan
          BY <2>1 DEF Scan
        <4> QED BY <3>2, <4>1, <4>2 DEF TypeOK
      <3> QED BY <2>2, <3>1, <3>2 DEF ScanBegin, ScanGoes
    <2>3. ASSUME ScanRead(c) PROVE scans' \in [Scanners -> Scan]
      <3>1. PICK page \in Pages(scans[c].at) : \E top \in page :
                scans' = [scans EXCEPT ![c] =
                    [scans[c] EXCEPT !.seen = @ \cup page, !.at = top]]
        BY <2>3 DEF ScanRead, ScanGoes
      <3>2. PICK top \in page :
                scans' = [scans EXCEPT ![c] =
                    [scans[c] EXCEPT !.seen = @ \cup page, !.at = top]]
        BY <3>1
      <3>3. page \subseteq Nat /\ top \in Nat
        BY <1>11, PageTyped
      <3>4. [scans[c] EXCEPT !.seen = @ \cup page, !.at = top] \in Scan
        BY <2>1, <3>3 DEF Scan
      <3> QED BY <3>2, <3>4 DEF TypeOK
    <2>4. ASSUME ScanEnd(c) PROVE scans' \in [Scanners -> Scan]
      BY <2>1, <2>4 DEF ScanEnd, ScanGoes, Scan, TypeOK
    <2>5. UNCHANGED <<now, journal, followers, heard, drops>>
      BY <1>9 DEF ScanBegin, ScanRead, ScanEnd
    <2>6. scans' \in [Scanners -> Scan]
      BY <1>9, <2>2, <2>3, <2>4
    <2> QED BY <2>5, <2>6 DEF TypeOK, journal
  <1> HIDE DEF Goal
  <1>10. Goal
    BY <1>3, <1>4, <1>5, <1>6, <1>7, <1>8, <1>9 DEF Next
  <1> QED BY <1>10 DEF Goal

----------------------------------------------------------------------------
(* Readers *)

\* What a follower knows outlives every step that is not its own.
LEMMA FollowsKept ==
  ASSUME TypeOK, Ordered, [Next]_vars, NEW f \in Followers, Follows(f),
         followers'[f] = followers[f], heard'[f] = heard[f]
  PROVE  Follows(f)'
  <1>1. /\ next_sequence \in Nat
        /\ followers[f] \in Follower
        /\ Readable \subseteq 1..(next_sequence - 1)
    BY ReadableTyped DEF TypeOK
  <1>2. next_sequence' \in {next_sequence, next_sequence + 1}
    BY Fresh
  <1>3. \A n \in Readable' : n = next_sequence \/ n \in Readable
    BY Fresh
  <1> DEFINE g == followers[f]
  <1>4. /\ g.url \in Nat /\ g.last \in Nat /\ g.at \in Nat /\ g.batch \subseteq Nat
        /\ g.last < next_sequence
        /\ \A n \in g.batch : g.at < n /\ n < next_sequence
    BY <1>1 DEF Follower, Follows
  <1>5. g.last < next_sequence' /\ \A n \in g.batch : g.at < n /\ n < next_sequence'
    BY <1>1, <1>2, <1>4
  <1>6. \A n \in Readable' : n <= g.last => n \in heard[f]
    <2> SUFFICES ASSUME NEW n \in Readable', n <= g.last PROVE n \in heard[f]
      OBVIOUS
    <2>1. n \in Readable
      BY <1>1, <1>3, <1>4
    <2> QED BY <2>1 DEF Follows
  <1>7. \A n \in Readable' : \A m \in g.batch : g.at < n /\ n <= m => n \in g.batch
    <2> SUFFICES ASSUME NEW n \in Readable', NEW m \in g.batch, g.at < n, n <= m
                 PROVE  n \in g.batch
      OBVIOUS
    <2>1. n \in Readable
      BY <1>1, <1>3, <1>4
    <2> QED BY <2>1 DEF Follows
  <1>8. heard[f] \subseteq 1..g.last /\ g.url <= g.last /\ g.at <= g.last
    BY DEF Follows
  <1> QED BY <1>5, <1>6, <1>7, <1>8 DEF Follows

\* A follower that takes a step of its own knows as much as before.
LEMMA FollowsOwn ==
  ASSUME TypeOK, Ordered, NEW f \in Followers, Follows(f),
         Subscribe(f) \/ Connect(f) \/ Poll(f) \/ Send(f) \/ Drop(f)
  PROVE  Follows(f)'
  <1> DEFINE g == followers[f]
  <1>1. /\ next_sequence \in Nat
        /\ g \in Follower
        /\ g.url \in Nat /\ g.last \in Nat /\ g.at \in Nat /\ g.batch \subseteq Nat
        /\ Readable \subseteq 1..(next_sequence - 1)
        /\ Readable \subseteq Nat
    BY ReadableTyped DEF TypeOK, Follower
  <1>2. UNCHANGED <<now, rows, next_sequence>> /\ Readable' = Readable
    BY DEF Subscribe, Connect, Poll, Send, Drop, journal, Readable
  <1>3. CASE Subscribe(f)
    <2>1. /\ followers'[f] = [g EXCEPT !.pc = "connecting", !.url = g.last]
          /\ heard'[f] = heard[f]
      BY <1>3 DEF Subscribe, FollowerGoes, TypeOK
    <2>2. /\ followers'[f].url = g.last /\ followers'[f].last = g.last
          /\ followers'[f].at = g.at /\ followers'[f].batch = g.batch
      BY <2>1, <1>1 DEF Follower
    <2> QED BY <1>1, <1>2, <2>1, <2>2 DEF Follows
  <1>4. CASE Connect(f)
    <2>1. CASE followers'[f] = [g EXCEPT !.pc = "open", !.at = Resume(f), !.batch = {}]
      <3>1. /\ followers'[f].url = g.url /\ followers'[f].last = g.last
            /\ followers'[f].at = Resume(f) /\ followers'[f].batch = {}
        BY <2>1, <1>1 DEF Follower
      <3>2. Resume(f) <= g.last
        BY <1>1 DEF Resume, Follows
      <3>3. heard'[f] = heard[f]
        BY <1>4 DEF Connect
      <3> QED BY <1>1, <1>2, <3>1, <3>2, <3>3 DEF Follows
    <2>2. CASE followers'[f] = [g EXCEPT !.pc = "told"]
      <3>1. /\ followers'[f].url = g.url /\ followers'[f].last = g.last
            /\ followers'[f].at = g.at /\ followers'[f].batch = g.batch
        BY <2>2, <1>1 DEF Follower
      <3>2. heard'[f] = heard[f]
        BY <1>4 DEF Connect
      <3> QED BY <1>1, <1>2, <3>1, <3>2 DEF Follows
    <2>3. \/ followers'[f] = [g EXCEPT !.pc = "open", !.at = Resume(f), !.batch = {}]
          \/ followers'[f] = [g EXCEPT !.pc = "told"]
      <3>1. \/ followers' = [followers EXCEPT ![f] =
                   [g EXCEPT !.pc = "open", !.at = Resume(f), !.batch = {}]]
            \/ followers' = [followers EXCEPT ![f] = [g EXCEPT !.pc = "told"]]
        BY <1>4 DEF Connect, FollowerGoes
      <3> QED BY <3>1 DEF TypeOK
    <2> QED BY <2>1, <2>2, <2>3
  <1>5. CASE Poll(f)
    <2>1. PICK page \in Pages(g.at) :
              /\ IsPage(page, g.at)
              /\ followers' = [followers EXCEPT ![f] = [g EXCEPT !.batch = page]]
      BY <1>5 DEF Poll, FollowerGoes
    <2>2. /\ page \subseteq Readable
          /\ \A n \in page : n > g.at
          /\ \A n \in Readable : \A m \in page : n > g.at /\ n <= m => n \in page
      BY <1>1, <2>1, PageFacts
    <2>3. followers'[f] = [g EXCEPT !.batch = page] /\ heard'[f] = heard[f]
      BY <1>5, <2>1 DEF Poll, TypeOK
    <2>4. /\ followers'[f].url = g.url /\ followers'[f].last = g.last
          /\ followers'[f].at = g.at /\ followers'[f].batch = page
      BY <2>3, <1>1 DEF Follower
    <2> QED BY <1>1, <1>2, <2>2, <2>3, <2>4 DEF Follows
  <1>6. CASE Send(f)
    <2>1. PICK n \in g.batch :
              /\ \A m \in g.batch : n <= m
              /\ followers' = [followers EXCEPT ![f] = Sent(g, n)]
              /\ heard' = IF n > g.last THEN [heard EXCEPT ![f] = @ \cup {n}] ELSE heard
      BY <1>6 DEF Send, FollowerGoes
    <2>2. n \in Nat /\ g.at < n /\ n < next_sequence /\ 1 <= n
      BY <1>1 DEF Follows
    <2>3. followers'[f] = Sent(g, n)
      BY <2>1 DEF TypeOK
    <2>4. /\ followers'[f].url = g.url
          /\ followers'[f].last = IF n > g.last THEN n ELSE g.last
          /\ followers'[f].at = n
          /\ followers'[f].batch = g.batch \ {n}
      BY <2>3, <1>1 DEF Sent, Follower
    <2>5. heard'[f] = IF n > g.last THEN heard[f] \cup {n} ELSE heard[f]
      BY <2>1 DEF TypeOK
    <2>6. \A k \in Readable : g.at < k /\ k <= n => k = n
      BY <1>1, <2>1, <2>2 DEF Follows
    <2>7. \A k \in Readable : k <= followers'[f].last => k \in heard'[f]
      BY <1>1, <2>2, <2>4, <2>5, <2>6 DEF Follows
    <2>8. heard'[f] \subseteq 1..followers'[f].last
      BY <1>1, <2>2, <2>4, <2>5 DEF Follows
    <2>9. /\ followers'[f].last < next_sequence
          /\ followers'[f].url <= followers'[f].last
          /\ followers'[f].at <= followers'[f].last
      BY <1>1, <2>2, <2>4 DEF Follows
    <2>10. \A k \in followers'[f].batch : followers'[f].at < k /\ k < next_sequence
      BY <1>1, <2>1, <2>2, <2>4 DEF Follows
    <2>11. \A k \in Readable : \A m \in followers'[f].batch :
               followers'[f].at < k /\ k <= m => k \in followers'[f].batch
      <3> SUFFICES ASSUME NEW k \in Readable, NEW m \in g.batch, n < k, k <= m
                   PROVE  k \in g.batch /\ k # n
        BY <2>4
      <3>1. k \in Nat /\ g.at < k
        BY <1>1, <2>2
      <3> QED BY <2>2, <3>1 DEF Follows
    <2>12. next_sequence' = next_sequence /\ Readable' = Readable
      BY <1>2
    <2> HIDE DEF g
    <2> QED BY <2>7, <2>8, <2>9, <2>10, <2>11, <2>12 DEF Follows
  <1>7. CASE Drop(f)
    <2>1. PICK pc \in {"connecting", "off"} :
              followers' = [followers EXCEPT ![f] =
                  [g EXCEPT !.pc = pc, !.at = 0, !.batch = {}]]
      BY <1>7 DEF Drop, FollowerGoes
    <2>2. followers'[f] = [g EXCEPT !.pc = pc, !.at = 0, !.batch = {}]
          /\ heard'[f] = heard[f]
      BY <1>7, <2>1 DEF Drop, TypeOK
    <2>3. /\ followers'[f].url = g.url /\ followers'[f].last = g.last
          /\ followers'[f].at = 0 /\ followers'[f].batch = {}
      BY <2>2, <1>1 DEF Follower
    <2> QED BY <1>1, <1>2, <2>2, <2>3 DEF Follows
  <1> QED BY <1>3, <1>4, <1>5, <1>6, <1>7

\* Whose step it is: a follower's own, or one that leaves it alone.
LEMMA FollowerStep ==
  ASSUME TypeOK, [Next]_vars, NEW f \in Followers
  PROVE  \/ Subscribe(f) \/ Connect(f) \/ Poll(f) \/ Send(f) \/ Drop(f)
         \/ followers'[f] = followers[f] /\ heard'[f] = heard[f]
  <1>1. ASSUME NEW o \in Followers, o # f,
               Subscribe(o) \/ Connect(o) \/ Poll(o) \/ Send(o) \/ Drop(o)
        PROVE  followers'[f] = followers[f] /\ heard'[f] = heard[f]
    BY <1>1 DEF Subscribe, Connect, Poll, Send, Drop, FollowerGoes, TypeOK
  <1>2. ASSUME UNCHANGED <<followers, heard>>
        PROVE  followers'[f] = followers[f] /\ heard'[f] = heard[f]
    BY <1>2
  <1>3. \/ UNCHANGED <<followers, heard>>
        \/ \E o \in Followers :
               Subscribe(o) \/ Connect(o) \/ Poll(o) \/ Send(o) \/ Drop(o)
    BY DEF Next, vars, Tick, Begin, TakeLock, Commit, Abort, ScanBegin, ScanRead, ScanEnd
  <1> QED BY <1>1, <1>2, <1>3

\* What a scan knows outlives every step that is not its own.
LEMMA ScannedKept ==
  ASSUME TypeOK, Ordered, [Next]_vars, NEW c \in Scanners, Scanned(c),
         scans'[c] = scans[c]
  PROVE  Scanned(c)'
  <1>1. next_sequence \in Nat /\ scans[c] \in Scan
    BY DEF TypeOK
  <1>2. next_sequence' \in {next_sequence, next_sequence + 1}
    BY Fresh
  <1>3. \A n \in Readable' : n = next_sequence \/ n \in Readable
    BY Fresh
  <1> QED BY <1>1, <1>2, <1>3 DEF Scanned, Scan

\* A scan that takes a step of its own knows as much as before.
LEMMA ScannedOwn ==
  ASSUME TypeOK, Ordered, NEW c \in Scanners, Scanned(c),
         ScanBegin(c) \/ ScanRead(c) \/ ScanEnd(c)
  PROVE  Scanned(c)'
  <1> DEFINE s == scans[c]
  <1>1. /\ next_sequence \in Nat
        /\ s \in Scan
        /\ s.at \in Nat /\ s.latest \in Nat /\ s.began \in Nat /\ s.seen \subseteq Nat
        /\ Readable \subseteq 1..(next_sequence - 1)
        /\ Readable \subseteq Nat
    BY ReadableTyped DEF TypeOK, Scan
  <1>2. UNCHANGED <<now, rows, next_sequence>> /\ Readable' = Readable
    BY DEF ScanBegin, ScanRead, ScanEnd, journal, Readable
  <1>3. CASE ScanBegin(c)
    <2>1. CASE Readable = {} /\ scans'[c] = [s EXCEPT !.pc = "done",
                                                     !.began = next_sequence - 1]
      <3>1. scans'[c].began = next_sequence - 1 /\ scans'[c].pc = "done"
        BY <1>1, <2>1 DEF Scan
      <3> QED BY <1>1, <1>2, <2>1, <3>1 DEF Scanned
    <2>2. ASSUME NEW earliest \in Readable, NEW latest \in Readable,
                 \A n \in Readable : earliest <= n /\ n <= latest,
                 scans'[c] = [s EXCEPT !.pc = "on", !.at = ScanFrom(earliest),
                                       !.latest = latest, !.began = next_sequence - 1]
          PROVE  Scanned(c)'
      <3>1. /\ scans'[c].began = next_sequence - 1 /\ scans'[c].pc = "on"
            /\ scans'[c].at = earliest - 1 /\ scans'[c].latest = latest
        BY <1>1, <2>2 DEF Scan, ScanFrom
      <3> QED BY <1>1, <1>2, <2>2, <3>1 DEF Scanned
    <2> QED BY <1>3, <2>1, <2>2 DEF ScanBegin, ScanGoes, TypeOK
  <1>4. CASE ScanRead(c)
    <2>1. PICK page \in Pages(s.at) :
              /\ IsPage(page, s.at)
              /\ \E top \in page :
                     /\ \A n \in page : n <= top
                     /\ scans'[c] = [s EXCEPT !.seen = @ \cup page, !.at = top]
      BY <1>4 DEF ScanRead, ScanGoes, TypeOK
    <2>2. PICK top \in page : scans'[c] = [s EXCEPT !.seen = @ \cup page, !.at = top]
      BY <2>1
    <2>3. /\ page \subseteq Readable
          /\ \A n \in Readable : \A m \in page : n > s.at /\ n <= m => n \in page
      BY <1>1, <2>1, PageFacts
    <2>4. /\ scans'[c].began = s.began /\ scans'[c].pc = "on"
          /\ scans'[c].at = top /\ scans'[c].latest = s.latest
          /\ scans'[c].seen = s.seen \cup page
      BY <1>1, <1>4, <2>2 DEF Scan, ScanRead
    <2>5. \A n \in Readable : n <= s.began => n <= s.latest /\ (n <= s.at => n \in s.seen)
      BY <1>4 DEF Scanned, ScanRead
    <2> QED BY <1>1, <1>2, <2>3, <2>4, <2>5 DEF Scanned
  <1>5. CASE ScanEnd(c)
    <2>1. scans'[c] = [s EXCEPT !.pc = "done"]
      BY <1>5 DEF ScanEnd, ScanGoes, TypeOK
    <2>2. /\ scans'[c].began = s.began /\ scans'[c].pc = "done"
          /\ scans'[c].seen = s.seen
      BY <1>1, <2>1 DEF Scan
    <2>3. \A n \in Readable : n <= s.began => n <= s.latest /\ (n <= s.at => n \in s.seen)
      BY <1>5 DEF Scanned, ScanEnd
    <2>4. \A n \in Readable : n <= s.began => n \in s.seen
      BY <1>1, <1>5, <2>3 DEF ScanEnd
    <2> QED BY <1>1, <1>2, <2>2, <2>4 DEF Scanned
  <1> QED BY <1>3, <1>4, <1>5

\* Whose step it is: a scan's own, or one that leaves it alone.
LEMMA ScannerStep ==
  ASSUME TypeOK, [Next]_vars, NEW c \in Scanners
  PROVE  \/ ScanBegin(c) \/ ScanRead(c) \/ ScanEnd(c)
         \/ scans'[c] = scans[c]
  <1>1. ASSUME NEW o \in Scanners, o # c, ScanBegin(o) \/ ScanRead(o) \/ ScanEnd(o)
        PROVE  scans'[c] = scans[c]
    BY <1>1 DEF ScanBegin, ScanRead, ScanEnd, ScanGoes, TypeOK
  <1> QED BY <1>1 DEF Next, vars, Tick, Begin, TakeLock, Commit, Abort,
                      Subscribe, Connect, Poll, Send, Drop

----------------------------------------------------------------------------
(* Theorems *)

\* The invariant is kept by every step.
LEMMA JStep ==
  ASSUME JInv, [Next]_vars
  PROVE  JInv'
  <1>1. TypeOK /\ Ordered
    BY DEF JInv
  <1>2. TypeOK'
    BY <1>1, TypeStep
  <1>3. Ordered'
    BY <1>1, OrderedStep
  <1>4. ASSUME NEW f \in Followers PROVE Follows(f)'
    <2>1. Follows(f)
      BY DEF JInv
    <2>2. CASE Subscribe(f) \/ Connect(f) \/ Poll(f) \/ Send(f) \/ Drop(f)
      BY <1>1, <2>1, <2>2, FollowsOwn
    <2>3. CASE followers'[f] = followers[f] /\ heard'[f] = heard[f]
      BY <1>1, <2>1, <2>3, FollowsKept
    <2> QED BY <1>1, <2>2, <2>3, FollowerStep
  <1>5. ASSUME NEW c \in Scanners PROVE Scanned(c)'
    <2>1. Scanned(c)
      BY DEF JInv
    <2>2. CASE ScanBegin(c) \/ ScanRead(c) \/ ScanEnd(c)
      BY <1>1, <2>1, <2>2, ScannedOwn
    <2>3. CASE scans'[c] = scans[c]
      BY <1>1, <2>1, <2>3, ScannedKept
    <2> QED BY <1>1, <2>2, <2>3, ScannerStep
  <1> QED BY <1>2, <1>3, <1>4, <1>5 DEF JInv

\* The inductive invariant holds in every reachable state of the journal.
THEOREM JournalInvariance == Spec => []JInv
  BY JInit, JStep, PTL DEF Spec

\* The rows, the appends, the generators and the scans keep their shapes,
\* and the stream's row is locked by the one transaction that says so.
THEOREM JournalTyped == Spec => []TypeOK
  <1>1. JInv => TypeOK
    BY DEF JInv
  <1> QED BY <1>1, JournalInvariance, PTL

\* No append ever meets a unique constraint of durable_events.
THEOREM RowsAlwaysDistinct == Spec => []RowsDistinct
  <1>1. JInv => RowsDistinct
    BY DEF JInv, Ordered
  <1> QED BY <1>1, JournalInvariance, PTL

\* A recovery's scan misses no event that it could have found.
THEOREM ScansAlwaysFind == Spec => []ScanFinds
  <1>1. JInv => ScanFinds
    BY DEF JInv, Scanned, ScanFinds
  <1> QED BY <1>1, JournalInvariance, PTL

\* No append takes an event away before its time is over.
THEOREM RetentionAlwaysKept == Spec => RetentionKept
  <1>1. ASSUME JInv, [Next]_vars
        PROVE  \A r \in rows : r \notin rows' => r.until <= now
    <2> SUFFICES ASSUME NEW r \in rows, r \notin rows' PROVE r.until <= now
      OBVIOUS
    <2>1. PICK w \in Writers : appends[w].pc = "locked" /\ r \notin Kept(w)
      BY <1>1, RowsStep DEF JInv
    <2>2. appends[w].stamp <= now
      BY <1>1, <2>1 DEF JInv, Ordered
    <2>3. now \in Nat /\ appends[w].stamp \in Nat /\ r.until \in Nat
      BY <1>1 DEF JInv, TypeOK, Append, Row
    <2> QED BY <2>1, <2>2, <2>3 DEF Kept
  <1>2. JInv /\ [Next]_vars => [\A r \in rows : r \notin rows' => r.until <= now]_vars
    BY <1>1
  <1> QED BY <1>2, JournalInvariance, PTL DEF Spec, RetentionKept

\* What is readable after a step was readable before it, or is new.
LEMMA GoneGrows ==
  ASSUME JInv, [Next]_vars
  PROVE  /\ Gone \subseteq Gone'
         /\ Gone \subseteq 1..(next_sequence - 1)
         /\ next_sequence' = next_sequence \/ next_sequence' = next_sequence + 1
         /\ next_sequence' = next_sequence => Gone' \subseteq 1..(next_sequence - 1)
  <1>1. next_sequence \in Nat \ {0} /\ TypeOK /\ Ordered
    BY DEF JInv, TypeOK
  <1>2. /\ next_sequence' \in {next_sequence, next_sequence + 1}
        /\ \A n \in Readable' : n = next_sequence \/ n \in Readable
    BY <1>1, Fresh
  <1>3. ASSUME NEW n \in Gone PROVE n \in Gone'
    <2>1. n \in 1..(next_sequence - 1) /\ n \notin Readable
      BY <1>3 DEF Gone
    <2>2. n \in 1..(next_sequence' - 1)
      <3>1. n \in Nat /\ 1 <= n /\ n < next_sequence
        BY <1>1, <2>1
      <3>2. next_sequence' \in Nat /\ n < next_sequence'
        BY <1>1, <1>2, <3>1
      <3>3. \A a, b \in Nat : 1 <= a /\ a < b => a \in 1..(b - 1)
        OBVIOUS
      <3> QED BY <3>1, <3>2, <3>3
    <2>3. n \notin Readable'
      BY <1>1, <1>2, <2>1
    <2> QED BY <2>2, <2>3 DEF Gone
  <1> QED BY <1>1, <1>2, <1>3 DEF Gone

\* A step that gives a number takes nothing away from the readers.
LEMMA PublishKeeps ==
  ASSUME JInv, [Next]_vars, next_sequence' # next_sequence
  PROVE  /\ Readable \subseteq Readable'
         /\ next_sequence' = next_sequence + 1
         /\ heard' = heard
  <1>1. TypeOK /\ Ordered
    BY DEF JInv
  <1>2. PICK w \in Writers : Commit(w) /\ rows' = Kept(w) \cup {NewRow(w)}
    BY DEF Next, vars, journal, Tick, Begin, TakeLock, Commit, Abort,
           Subscribe, Connect, Poll, Send, Drop, ScanBegin, ScanRead, ScanEnd
  <1>3. now' = now /\ heard' = heard /\ appends[w].pc = "locked"
    BY <1>2 DEF Commit
  <1>4. appends[w].stamp <= now /\ appends[w].stamp \in Nat /\ now \in Nat
    BY <1>1, <1>3 DEF Ordered, TypeOK, Append
  <1>5. ASSUME NEW r \in rows, r.until > now PROVE r.seq \in Readable'
    <2>1. r.until \in Nat
      BY <1>1 DEF TypeOK, Row
    <2>2. r \in rows'
      BY <1>2, <1>4, <1>5, <2>1 DEF Kept
    <2> QED BY <1>3, <1>5, <2>2 DEF Readable
  <1>6. Readable \subseteq Readable'
    BY <1>5 DEF Readable
  <1>7. next_sequence \in Nat
    BY <1>1 DEF TypeOK
  <1> QED BY <1>1, <1>3, <1>6, <1>7, Fresh

\* A client takes in its next event, or nobody takes in any.
LEMMA HeardStep ==
  ASSUME JInv, [Next]_vars, heard' # heard
  PROVE  \E f \in Followers : \E n \in 1..(next_sequence - 1) :
             /\ \A m \in heard[f] : m < n
             /\ \A m \in Readable : m < n => m \in heard[f]
             /\ heard' = [heard EXCEPT ![f] = @ \cup {n}]
             /\ UNCHANGED <<now, rows, next_sequence>>
  <1>1. TypeOK /\ Ordered
    BY DEF JInv
  <1>2. PICK f \in Followers : Send(f)
    BY DEF Next, vars, journal, Tick, Begin, TakeLock, Commit, Abort,
           Subscribe, Connect, Poll, Drop, ScanBegin, ScanRead, ScanEnd
  <1>3. UNCHANGED <<now, rows, next_sequence>>
    BY <1>2 DEF Send, journal
  <1> DEFINE g == followers[f]
  <1>4. PICK n \in g.batch :
            /\ \A m \in g.batch : n <= m
            /\ heard' = IF n > g.last THEN [heard EXCEPT ![f] = @ \cup {n}] ELSE heard
    BY <1>2 DEF Send
  <1>5. n > g.last /\ heard' = [heard EXCEPT ![f] = @ \cup {n}]
    BY <1>4
  <1>6. /\ next_sequence \in Nat
        /\ g.last \in Nat /\ g.at \in Nat /\ n \in Nat
        /\ Readable \subseteq Nat
    BY <1>1, ReadableTyped DEF TypeOK, Follower
  <1>7. Follows(f)
    BY DEF JInv
  <1>8. g.at < n /\ n < next_sequence
    BY <1>4, <1>7 DEF Follows
  <1>9. n \in 1..(next_sequence - 1)
    BY <1>6, <1>8
  <1>10. \A m \in heard[f] : m < n
    <2>1. heard[f] \subseteq 1..g.last
      BY <1>7 DEF Follows
    <2> QED BY <1>5, <1>6, <2>1
  <1>11. ASSUME NEW m \in Readable, m < n PROVE m \in heard[f]
    <2>1. CASE m <= g.last
      BY <1>7, <2>1 DEF Follows
    <2>2. CASE m > g.last
      <3>1. g.at < m
        BY <1>6, <1>7, <2>2 DEF Follows
      <3>2. m \in g.batch
        BY <1>4, <1>6, <1>7, <1>11, <3>1 DEF Follows
      <3> QED BY <1>4, <1>6, <1>11, <3>2
    <2> QED BY <1>6, <2>1, <2>2
  <1> QED BY <1>3, <1>5, <1>9, <1>10, <1>11

\* Every step of the journal is one of EventStream's, or none: an append that
\* adds publishes, a client that takes in an event hears it, and the clock and
\* the cleanup can only make it forget.
LEMMA StreamStep ==
  ASSUME JInv, [Next]_vars
  PROVE  [Promise!Next]_(Promise!vars)
  <1>1. next_sequence \in Nat \ {0} /\ next_sequence - 1 \in Nat
    BY DEF JInv, TypeOK
  <1>2. CASE next_sequence' # next_sequence
    <2>1. /\ Readable \subseteq Readable'
          /\ next_sequence' = next_sequence + 1
          /\ heard' = heard
      BY <1>2, PublishKeeps
    <2>2. \A n \in Readable' : n = next_sequence \/ n \in Readable
      BY Fresh DEF JInv
    <2>3. 1..(next_sequence' - 1) = 1..(next_sequence - 1) \cup {next_sequence}
      BY <1>1, <2>1
    <2>4. Readable \subseteq 1..(next_sequence - 1)
      BY ReadableTyped DEF JInv
    <2>5. next_sequence \notin 1..(next_sequence - 1)
      BY <1>1
    <2>6. CASE next_sequence \in Readable'
      <3>1. Gone' = Gone
        BY <2>1, <2>2, <2>3, <2>4, <2>5, <2>6 DEF Gone
      <3> QED BY <1>1, <2>1, <3>1 DEF Promise!Next, Promise!Publish
    <2>7. CASE next_sequence \notin Readable'
      <3>1. Gone' = Gone \cup {next_sequence}
        BY <2>1, <2>2, <2>3, <2>4, <2>5, <2>7 DEF Gone
      <3>2. Gone' = Gone \cup {next_sequence - 1 + 1}
        BY <1>1, <3>1
      <3> QED BY <1>1, <2>1, <3>2 DEF Promise!Next, Promise!Publish
    <2> QED BY <2>6, <2>7
  <1>3. CASE next_sequence' = next_sequence /\ heard' = heard
    BY <1>3, GoneGrows DEF Promise!Next, Promise!Forget
  <1>4. CASE heard' # heard
    <2>1. PICK f \in Followers : \E n \in 1..(next_sequence - 1) :
              /\ \A m \in heard[f] : m < n
              /\ \A m \in Readable : m < n => m \in heard[f]
              /\ heard' = [heard EXCEPT ![f] = @ \cup {n}]
              /\ UNCHANGED <<now, rows, next_sequence>>
      BY <1>4, HeardStep
    <2>2. PICK n \in 1..(next_sequence - 1) :
              /\ \A m \in heard[f] : m < n
              /\ \A m \in Readable : m < n => m \in heard[f]
              /\ heard' = [heard EXCEPT ![f] = @ \cup {n}]
              /\ UNCHANGED <<now, rows, next_sequence>>
      BY <2>1
    <2>3. Gone' = Gone
      BY <2>2 DEF Gone, Readable
    <2>4. \A m \in 1..(n - 1) : m \in heard[f] \/ m \in Gone
      <3>1. ASSUME NEW m \in 1..(n - 1) PROVE m < n /\ m \in 1..(next_sequence - 1)
        BY <1>1
      <3> QED BY <2>2, <3>1 DEF Gone
    <2>5. Promise!Hear(f, n)
      BY <2>2, <2>3, <2>4 DEF Promise!Hear
    <2> QED BY <2>5 DEF Promise!Next
  <1> QED BY <1>2, <1>3, <1>4

\* The journal, with its clients, keeps the promise of EventStream.
THEOREM StreamRefinement == Spec => ImplementsStream
  <1>1. Init => Promise!Init
    <2> SUFFICES ASSUME Init PROVE Promise!Init
      OBVIOUS
    <2>1. next_sequence - 1 = 0 /\ heard = [f \in Followers |-> {}]
      BY DEF Init
    <2>2. Gone = {}
      BY <2>1 DEF Gone
    <2> QED BY <2>1, <2>2 DEF Promise!Init
  <1>2. JInv /\ [Next]_vars => [Promise!Next]_(Promise!vars)
    BY StreamStep
  <1> QED BY <1>1, <1>2, JournalInvariance, PTL DEF Spec, ImplementsStream, Promise!Spec
=============================================================================
