------------------------- MODULE ConversationReply -------------------------
(***************************************************************************)
(* One conversation: the API requests that send a message, retry or stop a *)
(* reply (conversations/turns.py, persistence.py), the handler that a      *)
(* worker runs for each reply task (durable.py, runtime.py), what it       *)
(* writes to the assistant message (projection.py) and the events it       *)
(* appends to the conversation's journal (events.py).                      *)
(*                                                                         *)
(* The queue is the TaskLifecycle that TaskWorker implements, and its      *)
(* execution guard is why a task has at most one handler.  The guard is    *)
(* named after the task: two tasks of one message are not kept apart.      *)
(*                                                                         *)
(* No statement locks a message row or looks at the status it replaces: a  *)
(* change is a read in one step and a blind write of the changed copy in   *)
(* another, and its event is appended in a transaction of its own.         *)
(***************************************************************************)
EXTENDS Naturals, FiniteSets

CONSTANTS
    Requests,       \* requests the API handles at the same time
    ApiOf,          \* the API process each of them runs in
    MaxMessages,    \* bound on the replies of the conversation
    MaxRetries,     \* bound on the retries by its user
    MaxAttempts,    \* deliveries a task is granted
    Yields,         \* bound on the kinds of events the agent runtime yields
    Faults,         \* which faults happen: "crash", "raise"
    MaxFaults       \* bound on the faults of a behaviour

ASSUME BoundsAssumption ==
    /\ MaxMessages \in Nat \ {0}
    /\ MaxRetries \in Nat
    /\ MaxAttempts \in Nat \ {0}
    /\ MaxFaults \in Nat

Messages == 1..MaxMessages

\* Every send and every retry is a turn, and a turn is a task.
Turns == 1..(MaxMessages + MaxRetries)

VARIABLES
    messages,       \* the assistant messages, by their place in the conversation
    phase,          \* the queue: where each turn's task is
    tries,          \* the queue: attempts charged to it
    lease,          \* the queue: leases granted on it
    stop,           \* the queue: stop_requested
    target,         \* the assistant message of each turn
    handlers,       \* the handler executing each task
    requests,       \* what each API request is about to do
    journal,        \* the events of each message
    runs,           \* the deliveries of each task that ran a tool
    faults          \* faults so far

queue == <<phase, tries, lease>>
vars == <<messages, queue, stop, target, handlers, requests, journal, runs, faults>>

Queue == INSTANCE TaskLifecycle WITH Tasks <- Turns

Active == {"pending", "streaming"}
Ended == {"completed", "failed", "stopped"}
Retryable == {"failed", "stopped"}

\* A delivery is a turn and the lease it runs under; lease 0 is the request
\* that opened the turn.
Deliveries == (0..(MaxMessages + MaxRetries)) \X Nat
Nobody == <<0, 0>>

\* text: the deliveries whose deltas are in the content.  stamp: the delivery
\* that made the last change (updated_at tells its changes from others').
Message == [status : {"absent"} \cup Active \cup Ended,
            text : SUBSET Deliveries,
            stamp : Deliveries]

AbsentMessage == [status |-> "absent", text |-> {}, stamp |-> Nobody]
PendingMessage(by) == [status |-> "pending", text |-> {}, stamp |-> by]

ToolKinds == {"toolstarted", "toolcompleted", "toolfailed"}
Kinds == {"started", "delta"} \cup ToolKinds \cup Ended

\* An event's key is a digest of its payload: the turn, the message as it
\* was when the event arose, and the tool call if any, known by the delivery
\* that made it.  Appending the same event again has no effect.
Event == [kind : Kinds, turn : Turns, stamp : Deliveries, call : Deliveries]

----------------------------------------------------------------------------
(* Handlers *)

Purposes == {"republish", "stop first", "refuse", "restart", "event",
             "stop", "stop again", "give up", "unwind"}

Outcomes == {"done", "cancelled", "fatal", "retryable"}

\* change: what is being persisted, and purpose why; image: the copy of the
\* message to begin with, to write or to publish; tool: the delivery's call.
Handler == [pc : {"none", "load", "recover", "begin", "stream", "read",
                  "write", "publish", "settle", "report"},
            stop : BOOLEAN,
            purpose : Purposes \cup {"none"},
            change : Kinds \cup {"restart", "none"},
            image : Message,
            tool : {"none", "announced", "ran", "over"},
            said : BOOLEAN,
            outcome : Outcomes \cup {"none"}]

NoHandler == [pc |-> "none", stop |-> FALSE, purpose |-> "none",
              change |-> "none", image |-> AbsentMessage, tool |-> "none",
              said |-> FALSE, outcome |-> "none"]

Request == [pc : {"idle", "send", "looked", "prepared", "checked"},
            message : 0..MaxMessages]
IdleRequest == [pc |-> "idle", message |-> 0]

TypeOK ==
    /\ messages \in [Messages -> Message]
    /\ Queue!TypeOK
    /\ stop \in [Turns -> BOOLEAN]
    /\ target \in [Turns -> 0..MaxMessages]
    /\ \A t \in Turns : target[t] = 0 <=> phase[t] = "absent"
    /\ handlers \in [Turns -> Handler]
    /\ \A t \in Turns : handlers[t].pc # "none" => phase[t] = "leased"
    /\ \A t \in Turns : handlers[t].outcome # "none" <=> handlers[t].pc = "report"
    /\ requests \in [Requests -> Request]
    /\ \A m \in Messages : journal[m] \subseteq Event
    /\ \A t \in Turns : runs[t] \subseteq 1..lease[t]
    /\ faults \in 0..MaxFaults

Init ==
    /\ messages = [m \in Messages |-> AbsentMessage]
    /\ Queue!Init
    /\ stop = [t \in Turns |-> FALSE]
    /\ target = [t \in Turns |-> 0]
    /\ handlers = [t \in Turns |-> NoHandler]
    /\ requests = [r \in Requests |-> IdleRequest]
    /\ journal = [m \in Messages |-> {}]
    /\ runs = [t \in Turns |-> {}]
    /\ faults = 0

HandlerGoes(t, h) == handlers' = [handlers EXCEPT ![t] = h]
RequestGoes(r, q) == requests' = [requests EXCEPT ![r] = q]

Fault(kind) ==
    /\ kind \in Faults
    /\ faults < MaxFaults
    /\ faults' = faults + 1

----------------------------------------------------------------------------
(* The API *)

NextTurn == CHOOSE t \in Turns :
    phase[t] = "absent" /\ \A u \in Turns : u < t => phase[u] # "absent"

CanOpenTurn == \E t \in Turns : phase[t] = "absent"

\* Broken variants: the task is submitted without its message; a retry keeps
\* what the last turn wrote.
OpenTurnUnlinked(m) ==
    LET t == NextTurn IN
    /\ messages' = [messages EXCEPT ![m] = PendingMessage(<<t, 0>>)]
    /\ Queue!Submit(t)
    /\ UNCHANGED <<stop, target, handlers, journal, runs, faults>>

OpenTurnKeepingText(m) ==
    LET t == NextTurn IN
    /\ messages' = [messages EXCEPT ![m].status = "pending", ![m].stamp = <<t, 0>>]
    /\ target' = [target EXCEPT ![t] = m]
    /\ Queue!Submit(t)
    /\ UNCHANGED <<stop, handlers, journal, runs, faults>>

\* The message and its task are written in one transaction.
OpenTurn(m) ==
    LET t == NextTurn IN
    /\ messages' = [messages EXCEPT ![m] = PendingMessage(<<t, 0>>)]
    /\ target' = [target EXCEPT ![t] = m]
    /\ Queue!Submit(t)
    /\ UNCHANGED <<stop, handlers, journal, runs, faults>>

Locked == {"send", "prepared", "checked"}

\* Broken variant: requests of a process are not serialised.
LockIgnored(r) == TRUE

\* KeyedLockPool: one request per conversation in each API process.
LockFree(r) ==
    \A o \in Requests \ {r} : ApiOf[o] = ApiOf[r] => requests[o].pc \notin Locked

HasActive == \E m \in Messages : messages[m].status \in Active

\* Broken variant: a conversation that is replying is not busy.
BusyIgnored == FALSE

\* _has_active_assistant
Busy == HasActive

\* append_turn: the messages as its transaction reads them.
SendRead(r) ==
    /\ requests[r].pc = "idle"
    /\ LockFree(r)
    /\ ~Busy
    /\ \E m \in Messages :
           /\ messages[m].status = "absent"
           /\ \A n \in Messages : n < m => messages[n].status # "absent"
           /\ RequestGoes(r, [pc |-> "send", message |-> m])
    /\ UNCHANGED <<messages, queue, stop, target, handlers, journal, runs, faults>>

\* (conversation, sequence number) is unique: whoever inserts second is told
\* of a conflict.
SendCommit(r) ==
    LET m == requests[r].message IN
    /\ requests[r].pc = "send"
    /\ RequestGoes(r, IdleRequest)
    /\ \/ /\ messages[m].status = "absent"
          /\ CanOpenTurn
          /\ OpenTurn(m)
       \/ /\ messages[m].status # "absent"
          /\ UNCHANGED <<messages, queue, stop, target, handlers, journal, runs, faults>>

Retries == Cardinality({t \in Turns : phase[t] # "absent"})
           - Cardinality({m \in Messages : messages[m].status # "absent"})

\* retry reads the message before it takes the lock.
RetryLook(r, m) ==
    /\ Retries < MaxRetries
    /\ requests[r].pc = "idle"
    /\ messages[m].status \in Retryable
    /\ RequestGoes(r, [pc |-> "looked", message |-> m])
    /\ UNCHANGED <<messages, queue, stop, target, handlers, journal, runs, faults>>

\* Broken variant: any reply may be retried.
LastIgnored(m) == TRUE
IsLast(m) == \A n \in Messages : n > m => messages[n].status = "absent"

\* prepare_retry: still the last message of the conversation?
RetryPrepare(r) ==
    /\ requests[r].pc = "looked"
    /\ LockFree(r)
    /\ RequestGoes(r, IF IsLast(requests[r].message)
                      THEN [requests[r] EXCEPT !.pc = "prepared"]
                      ELSE IdleRequest)
    /\ UNCHANGED <<messages, queue, stop, target, handlers, journal, runs, faults>>

\* commit_retry, as far as its reads: the status alone is looked at again.
RetryCheck(r) ==
    /\ requests[r].pc = "prepared"
    /\ RequestGoes(r, IF messages[requests[r].message].status \in Retryable
                      THEN [requests[r] EXCEPT !.pc = "checked"]
                      ELSE IdleRequest)
    /\ UNCHANGED <<messages, queue, stop, target, handlers, journal, runs, faults>>

RetryWrite(r) ==
    /\ requests[r].pc = "checked"
    /\ CanOpenTurn
    /\ OpenTurn(requests[r].message)
    /\ RequestGoes(r, IdleRequest)

\* request_stop_for_aggregate: the newest task of the conversation that has
\* not settled.
RequestStop ==
    \E t \in Turns :
        /\ phase[t] \in {"waiting", "leased"}
        /\ \A u \in Turns : u > t => phase[u] \notin {"waiting", "leased"}
        /\ ~stop[t]
        /\ stop' = [stop EXCEPT ![t] = TRUE]
        /\ UNCHANGED <<messages, queue, target, handlers, requests, journal, runs, faults>>

----------------------------------------------------------------------------
(* The handler of a reply task: what it is about to do *)

Delivery(t) == <<t, lease[t]>>
MessageOf(t) == messages[target[t]]

Final == [done |-> "succeeded", cancelled |-> "cancelled",
          fatal |-> "failed", retryable |-> "failed"]

StatusOutcome(status) ==
    CASE status = "stopped" -> "cancelled"
      [] status = "failed" -> "fatal"
      [] OTHER -> "done"

Persisting(h, purpose, change) ==
    [h EXCEPT !.pc = "read", !.purpose = purpose, !.change = change]

Publishing(h, purpose, kind, image) ==
    [h EXCEPT !.pc = "publish", !.purpose = purpose, !.change = kind, !.image = image]

Beginning(h, image) == [h EXCEPT !.pc = "begin", !.purpose = "none",
                                 !.change = "none", !.image = image]

Streaming(h) == [h EXCEPT !.pc = "stream", !.purpose = "none",
                          !.change = "none", !.image = AbsentMessage]

Settling == [NoHandler EXCEPT !.pc = "settle"]
Reporting(outcome) == [NoHandler EXCEPT !.pc = "report", !.outcome = outcome]

LastAttempt(t) == tries[t] >= MaxAttempts

\* An exception inside execute's try: the attempt is retried, or the reply is
\* given up on the last one.
Failing(t) ==
    IF LastAttempt(t)
    THEN Persisting(handlers[t], "give up", "failed")
    ELSE Reporting("retryable")

\* Where an exception or a cancellation of the handler is caught.
InRuntime(h) == h.pc = "stream" \/ h.purpose \in {"event", "stop"}
InAttempt(h) == h.pc = "begin" \/ h.purpose \in {"restart", "stop again", "unwind"}

\* Broken variant: a restarted reply keeps what the last attempt wrote.
ChangedKeepingText(msg, change, by) ==
    CASE change = "restart" -> [msg EXCEPT !.status = "pending", !.stamp = by]
      [] change = "delta" ->
             [status |-> "streaming", text |-> msg.text \cup {by}, stamp |-> by]
      [] OTHER -> [msg EXCEPT !.status = change, !.stamp = by]

\* restart_execution, append_delta, complete, fail, stop
Changed(msg, change, by) ==
    CASE change = "restart" -> PendingMessage(by)
      [] change = "delta" ->
             [status |-> "streaming", text |-> msg.text \cup {by}, stamp |-> by]
      [] OTHER -> [msg EXCEPT !.status = change, !.stamp = by]

Others == <<messages, queue, stop, target, requests, journal, runs, faults>>

----------------------------------------------------------------------------
(* The handler of a reply task: its steps *)

\* Broken variant: a task whose handler is gone is left alone.
ClaimWaiting(t) ==
    /\ handlers[t].pc = "none"
    /\ Queue!Deliver(t)
    /\ HandlerGoes(t, [NoHandler EXCEPT !.pc = "load", !.stop = stop[t]])
    /\ UNCHANGED <<messages, stop, target, requests, journal, runs, faults>>

\* A worker takes the task, or takes it over from a handler that is gone.
Claim(t) ==
    /\ handlers[t].pc = "none"
    /\ Queue!Deliver(t) \/ Queue!Takeover(t)
    /\ HandlerGoes(t, [NoHandler EXCEPT !.pc = "load", !.stop = stop[t]])
    /\ UNCHANGED <<messages, stop, target, requests, journal, runs, faults>>

\* The heartbeat passes the stop on.
HearStop(t) ==
    /\ handlers[t].pc \notin {"none", "settle", "report"}
    /\ stop[t] /\ ~handlers[t].stop
    /\ HandlerGoes(t, [handlers[t] EXCEPT !.stop = TRUE])
    /\ UNCHANGED Others

\* Broken variant: only a third attempt is taken for a repetition.
RepeatedLate(t) == tries[t] > 2
Repeated(t) == tries[t] > 1

\* Broken variants: the end of a reply is taken as announced; a stop known
\* before the start is not written down.
NotAnnouncedAgain(h, msg) == Reporting(StatusOutcome(msg.status))
StopUnwritten(h) == Reporting("cancelled")

\* republish_terminal, and persist_stopped before the start.
AnnouncedAgain(h, msg) == Publishing(h, "republish", msg.status, msg)
StoppedFirst(h) == Persisting(h, "stop first", "stopped")

\* execute, up to the try: a reply that ended is only announced again.
Load(t) ==
    LET h == handlers[t]
        msg == MessageOf(t)
    IN
    /\ h.pc = "load"
    /\ \/ /\ msg.status \in Ended
          /\ HandlerGoes(t, AnnouncedAgain(h, msg))
       \/ /\ msg.status \in Active
          /\ h.stop
          /\ HandlerGoes(t, StoppedFirst(h))
       \/ /\ msg.status \in Active
          /\ ~h.stop
          /\ Repeated(t)
          /\ HandlerGoes(t, [h EXCEPT !.pc = "recover", !.image = msg])
       \/ /\ msg.status \in Active
          /\ ~h.stop
          /\ ~Repeated(t)
          /\ HandlerGoes(t, Beginning(h, msg))
    /\ UNCHANGED Others

CallsIn(m, kinds) == {e.call : e \in {d \in journal[m] : d.kind \in kinds}}
Unresolved(m) ==
    CallsIn(m, {"toolstarted"}) \ CallsIn(m, {"toolcompleted", "toolfailed"})

EventOf(t, kind, image, call) ==
    [kind |-> kind, turn |-> t, stamp |-> image.stamp, call |-> call]

Append(t, event) ==
    journal' = [journal EXCEPT ![target[t]] = @ \cup {event}]

\* prevent_unsafe_tool_replay: if the journal shows a tool call of an earlier
\* delivery, the unresolved ones are closed and the reply is refused.
Recover(t) ==
    LET h == handlers[t]
        m == target[t]
    IN
    /\ h.pc = "recover"
    /\ \/ /\ CallsIn(m, {"toolstarted"}) = {}
          /\ HandlerGoes(t, Persisting(h, "restart", "restart"))
          /\ UNCHANGED journal
       \/ \E call \in Unresolved(m) :
              /\ Append(t, EventOf(t, "toolfailed", h.image, call))
              /\ UNCHANGED handlers
       \/ /\ CallsIn(m, {"toolstarted"}) # {}
          /\ Unresolved(m) = {}
          /\ HandlerGoes(t, Persisting(h, "refuse", "failed"))
          /\ UNCHANGED journal
    /\ UNCHANGED <<messages, queue, stop, target, requests, runs, faults>>

\* ASSISTANT_STARTED is refused for a message that is no longer pending.
Begin(t) ==
    LET h == handlers[t] IN
    /\ h.pc = "begin"
    /\ IF h.image.status = "pending"
       THEN /\ Append(t, EventOf(t, "started", h.image, Nobody))
            /\ HandlerGoes(t, Streaming(h))
       ELSE /\ HandlerGoes(t, Failing(t))
            /\ UNCHANGED journal
    /\ UNCHANGED <<messages, queue, stop, target, requests, runs, faults>>

\* What the agent runtime may yield next: it ends with one of three events,
\* never leaves a tool call open, and completes only what it has said.
MayYield(h, change) ==
    CASE change = "toolstarted" -> h.tool = "none"
      [] change = "toolcompleted" -> h.tool = "ran"
      [] change = "toolfailed" -> h.tool \in {"announced", "ran"}
      [] change = "delta" -> TRUE
      [] change = "completed" -> h.said /\ h.tool \in {"none", "over"}
      [] change = "failed" -> h.tool \in {"none", "over"}
      [] change = "stopped" -> h.stop /\ h.tool \in {"none", "over"}
      [] OTHER -> FALSE

\* The loop over the runtime's events drops all but the closing ones once a
\* stop is known.
Stream(t, change) ==
    LET h == handlers[t] IN
    /\ h.pc = "stream"
    /\ change \in Yields
    /\ MayYield(h, change)
    /\ HandlerGoes(t,
           IF h.stop /\ change \notin {"toolfailed", "stopped"}
           THEN Persisting(h, "stop", "stopped")
           ELSE [Persisting(h, "event", change) EXCEPT
                    !.said = @ \/ change = "delta"])
    /\ UNCHANGED Others

\* The agent runs the tool once its start is on record: the graph goes on
\* only when the next event is asked for.
RunTool(t) ==
    /\ handlers[t].pc = "stream"
    /\ handlers[t].tool = "announced"
    /\ HandlerGoes(t, [handlers[t] EXCEPT !.tool = "ran"])
    /\ runs' = [runs EXCEPT ![t] = @ \cup {lease[t]}]
    /\ UNCHANGED <<messages, queue, stop, target, requests, journal, faults>>

\* A message that ended meanwhile ends the attempt, each in its own way.
OnEnded(t) ==
    LET h == handlers[t] IN
    CASE h.purpose \in {"event", "stop", "stop again"} -> Settling
      [] h.purpose = "stop first" -> Reporting("cancelled")
      [] h.purpose = "give up" -> Reporting("fatal")
      [] h.purpose = "refuse" -> Persisting(h, "restart", "restart")
      [] h.purpose = "restart" -> Failing(t)
      [] h.purpose = "unwind" -> NoHandler

Read(t) ==
    LET h == handlers[t]
        msg == MessageOf(t)
    IN
    /\ h.pc = "read"
    /\ \/ /\ msg.status \in Ended
          /\ HandlerGoes(t, OnEnded(t))
       \/ /\ msg.status \in Active
          /\ h.change \in ToolKinds
          /\ HandlerGoes(t, Publishing(h, h.purpose, h.change, msg))
       \/ /\ msg.status \in Active
          /\ h.change \notin ToolKinds
          /\ HandlerGoes(t, [h EXCEPT !.pc = "write",
                                      !.image = Changed(msg, h.change, Delivery(t))])
    /\ UNCHANGED Others

Write(t) ==
    LET h == handlers[t] IN
    /\ h.pc = "write"
    /\ messages' = [messages EXCEPT ![target[t]] = h.image]
    /\ HandlerGoes(t, IF h.purpose = "restart"
                      THEN Beginning(h, h.image)
                      ELSE [h EXCEPT !.pc = "publish"])
    /\ UNCHANGED <<queue, stop, target, requests, journal, runs, faults>>

OnPublished(h) ==
    CASE h.purpose = "event" ->
             IF h.change \in Ended THEN Settling
             ELSE [Streaming(h) EXCEPT !.tool =
                      CASE h.change = "toolstarted" -> "announced"
                        [] h.change \in {"toolcompleted", "toolfailed"} -> "over"
                        [] OTHER -> @]
      [] h.purpose \in {"stop", "stop again"} -> Settling
      [] h.purpose = "stop first" -> Reporting("cancelled")
      [] h.purpose \in {"refuse", "give up"} -> Reporting("fatal")
      [] h.purpose = "republish" -> Reporting(StatusOutcome(h.image.status))
      [] h.purpose = "unwind" -> NoHandler

Publish(t) ==
    LET h == handlers[t]
        call == IF h.change \in ToolKinds THEN Delivery(t) ELSE Nobody
    IN
    /\ h.pc = "publish"
    /\ Append(t, EventOf(t, h.change, h.image, call))
    /\ HandlerGoes(t, OnPublished(h))
    /\ UNCHANGED <<messages, queue, stop, target, requests, runs, faults>>

\* The stream has ended well: the status decides what becomes of the task.
Settle(t) ==
    /\ handlers[t].pc = "settle"
    /\ HandlerGoes(t, Reporting(StatusOutcome(MessageOf(t).status)))
    /\ UNCHANGED Others

\* Broken variant: a task stopped by its user counts as a success.
FinalStoppedAsDone(outcome) == IF outcome = "cancelled" THEN "succeeded" ELSE Final[outcome]
FinalOf(outcome) == Final[outcome]

Report(t) ==
    LET outcome == handlers[t].outcome IN
    /\ handlers[t].pc = "report"
    /\ \/ /\ outcome = "retryable"
          /\ tries[t] < MaxAttempts
          /\ Queue!Requeue(t)
       \/ /\ outcome # "retryable" \/ tries[t] >= MaxAttempts
          /\ Queue!Settle(t)
          /\ phase'[t] = FinalOf(outcome)
    /\ HandlerGoes(t, NoHandler)
    /\ UNCHANGED <<messages, stop, target, requests, journal, runs, faults>>

----------------------------------------------------------------------------
(* Faults *)

\* A database call, the event journal or a provider raises.
Raise(t) ==
    LET h == handlers[t] IN
    /\ h.pc \notin {"none", "report"}
    /\ Fault("raise")
    /\ HandlerGoes(t,
           CASE InRuntime(h) /\ h.stop -> Persisting(h, "stop again", "stopped")
             [] InRuntime(h) /\ ~h.stop -> Failing(t)
             [] InAttempt(h) /\ ~InRuntime(h) -> Failing(t)
             [] OTHER -> Reporting("retryable"))
    /\ UNCHANGED <<messages, queue, stop, target, requests, journal, runs>>

\* The handler is gone without a report: its process died or was shut down,
\* or its lease was lost and the report dropped.
Crash(t) ==
    /\ handlers[t].pc # "none"
    /\ Fault("crash")
    /\ HandlerGoes(t, NoHandler)
    /\ UNCHANGED <<messages, queue, stop, target, requests, journal, runs>>

\* A handler cancelled for its lease still writes a stop it knows of.
CancelStopped(t) ==
    LET h == handlers[t] IN
    /\ InRuntime(h) /\ h.stop
    /\ Fault("crash")
    /\ HandlerGoes(t, Persisting(h, "unwind", "stopped"))
    /\ UNCHANGED <<messages, queue, stop, target, requests, journal, runs>>

----------------------------------------------------------------------------

HandlerStep(t) ==
    \/ Load(t)
    \/ Recover(t)
    \/ Begin(t)
    \/ \E change \in Kinds : Stream(t, change)
    \/ Read(t)
    \/ Write(t)
    \/ Publish(t)
    \/ Settle(t)
    \/ Report(t)

RequestStep(r) ==
    \/ SendRead(r)
    \/ SendCommit(r)
    \/ \E m \in Messages : RetryLook(r, m)
    \/ RetryPrepare(r)
    \/ RetryCheck(r)
    \/ RetryWrite(r)

Next ==
    \/ \E r \in Requests : RequestStep(r)
    \/ RequestStop
    \/ \E t \in Turns :
           \/ Claim(t)
           \/ HearStop(t)
           \/ HandlerStep(t)
           \/ RunTool(t)
           \/ Raise(t)
           \/ Crash(t)
           \/ CancelStopped(t)

Spec == Init /\ [][Next]_vars

\* A waiting task is claimed, an orphaned one is taken over when its lease
\* runs out, and a handler takes its next step.  The runtime ends a reply
\* sooner or later (the model has its deltas fuse, so it may also go on
\* talking): one of the events that end it is not put off for ever.
Fairness ==
    \A t \in Turns :
        /\ WF_vars(Claim(t))
        /\ WF_vars(HandlerStep(t))
        /\ WF_vars(RunTool(t))
        /\ SF_vars(\E change \in {"toolcompleted", "toolfailed"} : Stream(t, change))
        /\ SF_vars(\E change \in Ended : Stream(t, change))

LiveSpec == Spec /\ Fairness

----------------------------------------------------------------------------
(* Properties *)

\* A conversation has one active reply at a time, though busy is checked by
\* reading and acted on later (README: one active reply per conversation).
OneActiveReply ==
    Cardinality({m \in Messages : messages[m].status \in Active}) <= 1

\* The text of a completed reply is the work of one delivery: what an
\* attempt that crashed or failed had streamed is never part of it.
CompletedIsWhole ==
    \A m \in Messages :
        messages[m].status = "completed" => Cardinality(messages[m].text) = 1

\* At-least-once delivery does not repeat side effects: of all the deliveries
\* of a task at most one runs a tool, wherever the others crashed.
ToolsRunOnce == \A t \in Turns : Cardinality(runs[t]) <= 1

\* The turn that has the last word on its message.
IsLatest(t) ==
    phase[t] # "absent" /\ \A u \in Turns : u > t => target[u] # target[t]

\* A task never succeeds without a complete reply, and is never cancelled
\* without a stopped one.
OutcomeAgrees ==
    \A t \in Turns :
        IsLatest(t) =>
            /\ phase[t] = "succeeded" => MessageOf(t).status = "completed"
            /\ phase[t] = "cancelled" => MessageOf(t).status = "stopped"

\* When a task is settled nobody will touch its reply again, so the reply has
\* ended too: otherwise its conversation would be busy for ever.
MessageSettledWithTask ==
    \A t \in Turns :
        IsLatest(t) /\ phase[t] \in Queue!Settled => MessageOf(t).status \in Ended

Announced(m) ==
    \E e \in journal[m] :
        e.kind = messages[m].status /\ e.stamp = messages[m].stamp

\* And its end is in the journal, though it is appended after the message is
\* committed, by this delivery or by a later one.
EndIsAnnounced ==
    \A t \in Turns :
        IsLatest(t) /\ phase[t] \in Queue!Settled => Announced(target[t])

\* Every reply ends and its followers are told, crashes being finitely many.
RepliesEnd ==
    \A m \in Messages :
        messages[m].status \in Active ~> messages[m].status \in Ended /\ Announced(m)

\* Reply by reply, the conversation is what ReplyLifecycle promises: blind
\* writes never reopen or rewrite a reply that ended.
Promise == INSTANCE ReplyLifecycle WITH
    status <- [m \in Messages |-> messages[m].status]

ImplementsReply == Promise!SafeSpec
=============================================================================
