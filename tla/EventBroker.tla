------------------------------ MODULE EventBroker ------------------------------
(***************************************************************************)
(* The event brokers of a process that keeps its events in memory, of      *)
(* conversations and of workflow runs, which are the same program: a state *)
(* for each key with its last events and its subscribers, dropped when it  *)
(* is idle for too long or room is needed, and a bounded queue for each    *)
(* subscriber.  A lock makes every operation one step.  An event is its    *)
(* number; what it says is left out.                                       *)
(***************************************************************************)
EXTENDS Naturals, Sequences, FiniteSets, SequencesExt

CONSTANTS
  Keys, Clients,
  HistoryLimit, QueueLimit, SubscriberLimit, TotalLimit, StateLimit, Ttl,
  MaxSequence, MaxEpoch, MaxClock

EventBrokerAssumption ==
  /\ {HistoryLimit, QueueLimit, SubscriberLimit, TotalLimit, StateLimit, Ttl}
       \subseteq Nat \ {0}
  /\ {MaxSequence, MaxEpoch, MaxClock} \subseteq Nat

VARIABLES
  states,   \* the states there are, by key
  stream,   \* each client's stream, with what it has been given
  epoch,    \* states created so far
  closed, clock

vars == <<states, stream, epoch, closed, clock>>

-----------------------------------------------------------------------------
NoTimer == MaxClock + 1
Overflow == 0
Kinds == {"started", "delta", "ended"}

NewState(e) == [next |-> 1, history |-> <<>>, subscribers |-> {}, active |-> FALSE,
                accessed |-> clock, timer |-> NoTimer, epoch |-> e]
NoStream == [phase |-> "none"]

Idle(s) == ~s.active /\ s.subscribers = {}
Without(ss, gone) == Restrict(ss, DOMAIN ss \ gone)

Pruned(ss) == Without(ss, {k \in DOMAIN ss : Idle(ss[k]) /\ clock - ss[k].accessed >= Ttl})

(* What may be left when idle states are dropped, those least recently accessed
   first, until there are few enough or no idle one *)
Oldest(ss, gone) ==
  \A k \in gone, l \in DOMAIN ss \ gone :
    Idle(ss[k]) /\ (Idle(ss[l]) => ss[k].accessed <= ss[l].accessed)
Trimmed(ss, most) ==
  LET idle == {k \in DOMAIN ss : Idle(ss[k])}
      excess == IF Cardinality(DOMAIN ss) > most THEN Cardinality(DOMAIN ss) - most ELSE 0
      victims == {gone \in SUBSET idle :
                    /\ Cardinality(gone) = excess \/ (gone = idle /\ Cardinality(idle) < excess)
                    /\ Oldest(ss, gone)}
  IN  {Without(ss, gone) : gone \in victims}

Created(k) == k \notin DOMAIN Pruned(states)

(* _state_locked *)
WithState(k) ==
  LET live == Pruned(states)
  IN  IF ~Created(k) THEN {[live EXCEPT ![k].accessed = clock]}
      ELSE {[l \in DOMAIN rest \cup {k} |-> IF l = k THEN NewState(epoch + 1) ELSE rest[l]] :
              rest \in Trimmed(live, StateLimit - 1)}

Finds(k) == ~closed /\ (Created(k) => epoch < MaxEpoch)
Kept(k) == epoch' = IF Created(k) THEN epoch + 1 ELSE epoch

Scheduled(s) == [s EXCEPT !.timer = IF Idle(s) /\ ~closed THEN s.accessed ELSE NoTimer]
Touched(s) == Scheduled([s EXCEPT !.accessed = clock])

HistoryUnavailable(s, after) ==
  LET latest == s.next - 1
  IN  after > latest \/ (s.history # <<>> /\ after < Head(s.history) - 1)

(* The events of a history, which ascend, that come after a position *)
Since(history, after) ==
  SubSeq(history, 1 + Cardinality({i \in DOMAIN history : history[i] <= after}), Len(history))

SubscriberCount(ss) ==
  Cardinality({s \in Keys \X Clients : s[1] \in DOMAIN ss /\ s[2] \in ss[s[1]].subscribers})

(* A state created for a request that is refused is dropped again *)
Refused(k, ss) ==
  states' = (IF Created(k) THEN Without(ss, {k}) ELSE ss) /\ UNCHANGED epoch

-----------------------------------------------------------------------------
ValidateResume(k, after) ==
  /\ Finds(k)
  /\ \E ss \in WithState(k) :
       IF HistoryUnavailable(ss[k], after) THEN Refused(k, ss)
       ELSE states' = [ss EXCEPT ![k] = Touched(@)] /\ Kept(k)
  /\ UNCHANGED <<stream, closed, clock>>

Retained(history) == IF Len(history) > HistoryLimit THEN Tail(history) ELSE history
After(s, kind) ==
  [s EXCEPT !.next = @ + 1, !.history = Retained(Append(@, s.next)), !.accessed = clock,
            !.active = CASE kind = "started" -> TRUE [] kind = "ended" -> FALSE [] OTHER -> @]

Full(c) == Len(stream[c].queue) = QueueLimit
Forgets(queue) == queue
Notice(queue) == <<Overflow>>

(* A subscriber whose queue is full is no longer one, and is told *)
Publish(k, kind) ==
  /\ Finds(k) /\ Kept(k)
  /\ \E ss \in WithState(k) :
       LET s == After(ss[k], kind)
           overflowed == {c \in s.subscribers : Full(c)}
           kept == [ss EXCEPT ![k] = [s EXCEPT !.subscribers = @ \ overflowed]]
       IN  /\ s.next <= MaxSequence + 1
           /\ stream' = [c \in Clients |->
                IF c \in overflowed THEN [stream[c] EXCEPT !.queue = Notice(@)]
                ELSE IF c \in s.subscribers THEN [stream[c] EXCEPT !.queue = Append(@, ss[k].next)]
                ELSE stream[c]]
           /\ \E left \in Trimmed(kept, StateLimit) :
                states' = IF k \in DOMAIN left THEN [left EXCEPT ![k] = Scheduled(@)] ELSE left
  /\ UNCHANGED <<closed, clock>>

Subscribe(c, k, after) ==
  /\ stream[c] = NoStream /\ Finds(k)
  /\ \E ss \in WithState(k) :
       IF \/ HistoryUnavailable(ss[k], after)
          \/ Cardinality(ss[k].subscribers) >= SubscriberLimit
          \/ SubscriberCount(ss) >= TotalLimit
       THEN Refused(k, ss) /\ UNCHANGED stream
       ELSE /\ states' = [ss EXCEPT ![k].subscribers = @ \cup {c}, ![k].accessed = clock,
                                    ![k].timer = NoTimer]
            /\ stream' = [stream EXCEPT ![c] =
                 [phase |-> "open", key |-> k, epoch |-> ss[k].epoch, after |-> after,
                  replay |-> Since(ss[k].history, after),
                  queue |-> <<>>, got |-> <<>>]]
            /\ Kept(k)
  /\ UNCHANGED <<closed, clock>>

(* The generator is asked for the next event *)
Replays(c) ==
  /\ stream[c].phase = "open" /\ stream[c].replay # <<>>
  /\ stream' = [stream EXCEPT ![c].got = Append(@, Head(stream[c].replay)), ![c].replay = Tail(@)]
  /\ UNCHANGED <<states, epoch, closed, clock>>

Yields(c) ==
  /\ stream[c].phase = "open" /\ stream[c].replay = <<>> /\ stream[c].queue # <<>>
  /\ LET next == Head(stream[c].queue)
     IN  stream' = [stream EXCEPT ![c].queue = Tail(@),
            ![c].phase = IF next = Overflow THEN "leaving" ELSE @,
            ![c].got = IF next = Overflow THEN @ ELSE Append(@, next)]
  /\ UNCHANGED <<states, epoch, closed, clock>>

Disconnects(c) ==
  /\ stream[c].phase = "open"
  /\ stream' = [stream EXCEPT ![c].phase = "leaving"]
  /\ UNCHANGED <<states, epoch, closed, clock>>

(* The generator's finally, whatever state the key has by then *)
Leaves(c) ==
  /\ stream[c].phase = "leaving"
  /\ LET k == stream[c].key
     IN  states' = IF k \notin DOMAIN states THEN states
                   ELSE [states EXCEPT ![k] =
                          Touched([states[k] EXCEPT !.subscribers = @ \ {c}])]
  /\ stream' = [stream EXCEPT ![c] = NoStream]
  /\ UNCHANGED <<epoch, closed, clock>>

(* The timer of a state: it does nothing when the state was accessed since *)
ExpireState(k) ==
  /\ k \in DOMAIN states /\ states[k].timer # NoTimer /\ clock >= states[k].timer + Ttl
  /\ LET fired == [states EXCEPT ![k].timer = NoTimer]
         left == Pruned(fired)
     IN  states' = IF states[k].accessed # states[k].timer THEN fired
                   ELSE IF k \in DOMAIN left THEN [left EXCEPT ![k] = Scheduled(@)] ELSE left
  /\ UNCHANGED <<stream, epoch, closed, clock>>

LifecycleSnapshot ==
  /\ Pruned(states) # states /\ states' = Pruned(states)
  /\ UNCHANGED <<stream, epoch, closed, clock>>

Close ==
  /\ ~closed /\ closed' = TRUE
  /\ stream' = [c \in Clients |->
       IF \E k \in DOMAIN states : c \in states[k].subscribers
       THEN [stream[c] EXCEPT !.queue = Notice(@)] ELSE stream[c]]
  /\ states' = Without(states, Keys)
  /\ UNCHANGED <<epoch, clock>>

Tick ==
  /\ clock < MaxClock /\ clock' = clock + 1
  /\ UNCHANGED <<states, stream, epoch, closed>>

-----------------------------------------------------------------------------
Init ==
  /\ states = <<>> /\ stream = [c \in Clients |-> NoStream]
  /\ epoch = 0 /\ closed = FALSE /\ clock = 0

Next ==
  \/ \E k \in Keys, after \in 0 .. MaxSequence : ValidateResume(k, after)
  \/ \E k \in Keys, kind \in Kinds : Publish(k, kind)
  \/ \E c \in Clients, k \in Keys, after \in 0 .. MaxSequence : Subscribe(c, k, after)
  \/ \E c \in Clients : Replays(c) \/ Yields(c) \/ Disconnects(c) \/ Leaves(c)
  \/ \E k \in Keys : ExpireState(k)
  \/ LifecycleSnapshot \/ Close \/ Tick

Spec == Init /\ [][Next]_vars

-----------------------------------------------------------------------------
(* Every variable has its type. *)
TypeOK ==
  /\ DOMAIN states \subseteq Keys
  /\ \A k \in DOMAIN states :
       /\ states[k].next \in 1 .. MaxSequence + 1 /\ Len(states[k].history) <= HistoryLimit
       /\ Cardinality(states[k].subscribers) <= SubscriberLimit
       /\ states[k].timer \in 0 .. NoTimer
  /\ SubscriberCount(states) <= TotalLimit
  /\ \A c \in Clients : stream[c].phase \in {"none", "open", "leaving"}
  /\ epoch \in 0 .. MaxEpoch /\ clock \in 0 .. MaxClock /\ closed \in BOOLEAN

(* A stream is whole.  While it is a subscriber's, what it has yielded, has yet to
   replay and has queued is every event published since the position it asked for,
   once each and in order, however states are evicted, expire and come back; once it
   is not, it has yielded such a beginning and one notice waits that says so
   (conversations/events.py:257). *)
StreamsAreWhole ==
  \A c \in Clients : stream[c].phase = "open" =>
    LET s == stream[c]
        given == s.got \o s.replay
        subscribed == /\ s.key \in DOMAIN states /\ c \in states[s.key].subscribers
                      /\ states[s.key].epoch = s.epoch
        last == IF subscribed THEN states[s.key].next - 1 ELSE s.after + Len(given)
        all == [i \in 1 .. last - s.after |-> s.after + i]
    IN  IF subscribed THEN given \o s.queue = all ELSE given = all /\ s.queue = <<Overflow>>

=============================================================================
