----------------------- MODULE ConversationReplyProofs -----------------------
(***************************************************************************)
(* ConversationReply, for any messages, API processes, requests, attempts, *)
(* events and faults.                                                      *)
(*                                                                         *)
(* First that its variables keep their types, whatever its users do.  Then *)
(* what becomes of replies nobody retries: MaxRetries = 0, because with a  *)
(* retry two tasks may write one message, and TLC refutes that completed   *)
(* replies are whole or come one at a time.  Without, a message has one    *)
(* turn and at most one handler.  RInv says what that handler knows of its *)
(* message between one step and the next, whose deltas are in the text,    *)
(* which delivery ran a tool, and what has been announced.                 *)
(***************************************************************************)
EXTENDS ConversationReply, FiniteSetTheorems, TLAPS

(* The purposes of a change that is read and then written *)
Writes == {"stop first", "refuse", "restart", "event", "stop", "stop again", "give up", "unwind"}

(* What goes with what in a handler *)
Shaped(h) ==
  /\ h.pc \in {"none", "load", "recover", "begin", "stream", "settle", "report"} =>
       h.purpose = "none"
  /\ h.pc \in {"read", "write"} => h.purpose \in Writes
  /\ h.pc = "publish" => h.purpose \in (Writes \ {"restart"}) \cup {"republish"}
  /\ h.pc = "write" => h.change \notin ToolKinds
  /\ h.purpose = "event" => h.change \in {"delta"} \cup ToolKinds \cup Ended
  /\ h.purpose = "restart" => h.change = "restart"
  /\ h.purpose \in {"refuse", "give up"} => h.change = "failed"
  /\ h.purpose \in {"stop first", "stop", "stop again", "unwind"} => h.change = "stopped"
  /\ h.purpose = "republish" => h.change \in Ended
  /\ h.pc = "none" => h.tool = "none"

(* Turns are opened in order *)
Opened == \E n \in 0..(MaxMessages + MaxRetries) : \A t \in Turns : phase[t] = "absent" <=> t > n

(* A handler of the right shape *)
Fit(h) == h \in Handler /\ (h.outcome # "none" <=> h.pc = "report") /\ Shaped(h)

(* Types, and the shapes they depend on *)
TInv ==
  /\ TypeOK
  /\ journal \in [Messages -> SUBSET Event]
  /\ runs \in [Turns -> SUBSET Nat]
  /\ \A t \in Turns : Shaped(handlers[t])
  /\ \A t \in Turns : phase[t] = "leased" => lease[t] >= 1
  /\ \A r \in Requests : requests[r].pc # "idle" => requests[r].message \in Messages
  /\ Opened

(* Without retries, a message has one turn *)
Linked ==
  /\ \A t, u \in Turns : target[t] = target[u] /\ target[t] # 0 => t = u
  /\ \A m \in Messages : messages[m].status # "absent" => \E t \in Turns : target[t] = m
  /\ \A t \in Turns : target[t] # 0 => messages[target[t]].status # "absent"
  /\ \A t \in Turns : phase[t] = "absent" => lease[t] = 0
  /\ \A r \in Requests : requests[r].pc \in {"idle", "send"}

(* Messages are opened one after the other, when those before have ended *)
InOrder ==
  /\ \A m, n \in Messages :
       messages[m].status # "absent" /\ n < m => messages[n].status \in Ended
  /\ \A r \in Requests :
       requests[r].pc = "send" =>
         \A n \in Messages : n < requests[r].message => messages[n].status \in Ended

(* Only a delivery that began from nothing completes a reply *)
WellTold(msg) ==
  /\ msg.status = "pending" => msg.text = {}
  /\ msg.status = "completed" => \E d \in msg.text : msg.text = {d}

Texts == \A m \in Messages : WellTold(messages[m])

(* The agent runtime is at work, or one of its events is *)
Talking(h) == h.pc = "stream" \/ h.purpose = "event"

(* What a handler knows of its message *)
Knows(h, msg, d) ==
  /\ h.pc \in {"recover", "begin", "stream", "write"} => msg.status \in Active
  /\ h.pc = "read" /\ h.purpose \notin {"stop again", "unwind", "give up"} => msg.status \in Active
  /\ h.pc = "begin" => h.image = msg
  /\ h.pc = "write" => h.image = Changed(msg, h.change, d)
  /\ h.pc = "publish" => /\ h.image = msg
                         /\ IF h.change \in Ended THEN msg.status = h.change
                            ELSE msg.status \in Active
  /\ h.pc \in {"load", "recover", "begin"} \/ h.purpose \in {"restart", "refuse"} => ~h.said
  /\ Talking(h) => msg.text \subseteq {d}
  /\ Talking(h) /\ h.said /\ ~(h.pc \in {"read", "write"} /\ h.change = "delta") => d \in msg.text
  /\ h.pc \in {"read", "write"} /\ h.change = "completed" => h.said
  /\ h.pc = "settle" => msg.status \in Ended
  /\ h.outcome = "done" => msg.status = "completed"
  /\ h.outcome = "cancelled" => msg.status = "stopped"

(* The journal has the start of a tool call *)
Started(call, events) == \E e \in events : e.kind = "toolstarted" /\ e.call = call

(* The handlers whose delivery may still run a tool *)
MayRun(h) == h.pc = "begin" \/ h.pc = "stream" \/ h.purpose \in {"event", "restart"}

(* Tools run only on record, hence under one lease ls only *)
RanOnce(t, h, ran, events, ls) ==
  /\ \A e \in ran : Started(<<t, e>>, events)
  /\ h.tool = "announced" => Started(<<t, ls>>, events)
  /\ MaxAttempts > 1 => /\ \A e, f \in ran : e = f
                        /\ MayRun(h) => ran \subseteq {ls}

(* Only the first of the deliveries ls is charged as the first attempt *)
Charged(ls, tr) == (ls >= 1 => tr >= 1) /\ (ls > 1 /\ MaxAttempts > 1 => tr > 1)

(* A task that succeeded or was cancelled has the reply to show for it *)
Settles(msg, ph) ==
  /\ ph = "succeeded" => msg.status = "completed"
  /\ ph = "cancelled" => msg.status = "stopped"

(* The journal has the last change of the message *)
Told(msg, events) == \E e \in events : e.kind = msg.status /\ e.stamp = msg.stamp

(* Where nothing raises, a task is settled only after its reply's end is told *)
Closes(h, msg, events, tr, ph) ==
  /\ h.pc = "read" /\ h.purpose # "unwind" =>
       msg.status \in Active /\ h.purpose # "stop again"
  /\ h.pc = "settle" \/ h.outcome \in {"done", "cancelled", "fatal"} \/ ph \in Queue!Settled =>
       msg.status \in Ended /\ Told(msg, events)
  /\ h.outcome = "retryable" => tr < MaxAttempts

(* Processes may still die *)
Calm == "raise" \notin Faults

(* What is known of a turn that was opened *)
GoodTurn(t) ==
  /\ Knows(handlers[t], MessageOf(t), Delivery(t))
  /\ RanOnce(t, handlers[t], runs[t], journal[target[t]], lease[t])
  /\ Charged(lease[t], tries[t])
  /\ Settles(MessageOf(t), phase[t])
  /\ Calm => Closes(handlers[t], MessageOf(t), journal[target[t]], tries[t], phase[t])

(* The inductive invariant *)
RInv ==
  /\ TInv
  /\ Linked
  /\ InOrder
  /\ Texts
  /\ \A t \in Turns : phase[t] # "absent" => GoodTurn(t)

-----------------------------------------------------------------------------
(* Records *)

(* No handler, and handlers about to settle or to report *)
LEMMA NoHandlerFits ==
  /\ Fit(NoHandler) /\ NoHandler.pc = "none"
  /\ Fit(Settling) /\ Settling.pc = "settle"
  /\ \A o \in Outcomes : /\ Fit(Reporting(o)) /\ Reporting(o).pc = "report"
                         /\ Reporting(o).outcome = o
  <1>1. Nobody \in Deliveries /\ AbsentMessage \in Message
    BY BoundsAssumption DEF Nobody, Deliveries, AbsentMessage, Message
  <1>2. Fit(NoHandler) /\ NoHandler.pc = "none"
    BY <1>1 DEF NoHandler, Fit, Handler, Shaped, Kinds, Writes
  <1>3. Fit(Settling) /\ Settling.pc = "settle"
    BY <1>1 DEF Settling, NoHandler, Fit, Handler, Shaped, Kinds, Writes
  <1>4. ASSUME NEW o \in Outcomes
        PROVE  Fit(Reporting(o)) /\ Reporting(o).pc = "report" /\ Reporting(o).outcome = o
    BY <1>1 DEF Reporting, NoHandler, Fit, Handler, Shaped, Kinds, Writes, Outcomes
  <1> QED BY <1>2, <1>3, <1>4

(* q is h gone on to pc, to persist or publish c for the purpose p *)
GoneOn(q, h, pc, p, c, i) ==
  /\ q \in Handler /\ q.pc = pc /\ q.purpose = p /\ q.change = c /\ q.image = i
  /\ q.stop = h.stop /\ q.tool = h.tool /\ q.said = h.said /\ q.outcome = h.outcome

(* c is what is persisted for the purpose p *)
ChangeOf(p, c) ==
  \/ p = "event" /\ c \in {"delta"} \cup ToolKinds \cup Ended
  \/ p = "restart" /\ c = "restart"
  \/ p \in {"refuse", "give up"} /\ c = "failed"
  \/ p \in {"stop first", "stop", "stop again", "unwind"} /\ c = "stopped"

(* A change begins *)
LEMMA PersistingFits ==
  ASSUME NEW h, Fit(h), h.pc # "report", NEW p, NEW c, ChangeOf(p, c)
  PROVE  /\ Fit(Persisting(h, p, c))
         /\ GoneOn(Persisting(h, p, c), h, "read", p, c, h.image)
  <1>1. p \in Purposes /\ c \in Kinds \cup {"restart"} /\ p \in Writes
    BY DEF ChangeOf, Purposes, Kinds, Ended, Writes
  <1>2. h \in Handler
    BY DEF Fit
  <1>3. GoneOn(Persisting(h, p, c), h, "read", p, c, h.image)
    BY <1>1, <1>2 DEF Persisting, Handler, GoneOn
  <1>4. Fit(Persisting(h, p, c))
    BY <1>1, <1>3 DEF Fit, Shaped, GoneOn, ChangeOf
  <1> QED BY <1>3, <1>4

(* An event is about to be appended *)
LEMMA PublishingFits ==
  ASSUME NEW h, Fit(h), h.pc # "report", NEW p, NEW c, NEW i \in Message,
         \/ ChangeOf(p, c) /\ p # "restart"
         \/ p = "republish" /\ c \in Ended
  PROVE  /\ Fit(Publishing(h, p, c, i))
         /\ GoneOn(Publishing(h, p, c, i), h, "publish", p, c, i)
  <1>1. p \in Purposes /\ c \in Kinds /\ p \in (Writes \ {"restart"}) \cup {"republish"}
    BY DEF ChangeOf, Purposes, Kinds, Ended, Writes
  <1>2. h \in Handler
    BY DEF Fit
  <1>3. GoneOn(Publishing(h, p, c, i), h, "publish", p, c, i)
    BY <1>1, <1>2 DEF Publishing, Handler, GoneOn
  <1>4. Fit(Publishing(h, p, c, i))
    BY <1>1, <1>3 DEF Fit, Shaped, GoneOn, ChangeOf
  <1> QED BY <1>3, <1>4

(* An attempt begins *)
LEMMA BeginningFits ==
  ASSUME NEW h, Fit(h), h.pc # "report", NEW i \in Message
  PROVE  Fit(Beginning(h, i)) /\ GoneOn(Beginning(h, i), h, "begin", "none", "none", i)
  <1>1. GoneOn(Beginning(h, i), h, "begin", "none", "none", i)
    BY DEF Beginning, Handler, GoneOn, Fit
  <1> QED BY <1>1 DEF Fit, Shaped, GoneOn

(* The runtime is asked for its next event *)
LEMMA StreamingFits ==
  ASSUME NEW h, Fit(h), h.pc # "report"
  PROVE  Fit(Streaming(h)) /\ GoneOn(Streaming(h), h, "stream", "none", "none", AbsentMessage)
  <1>1. AbsentMessage \in Message
    BY BoundsAssumption DEF Nobody, Deliveries, AbsentMessage, Message
  <1>2. GoneOn(Streaming(h), h, "stream", "none", "none", AbsentMessage)
    BY <1>1 DEF Streaming, Handler, GoneOn, Fit
  <1> QED BY <1>2 DEF Fit, Shaped, GoneOn

(* An attempt fails: for the last time, or to be retried *)
LEMMA FailingFits ==
  ASSUME TInv, NEW t \in Turns, Fit(handlers[t]), handlers[t].pc # "report"
  PROVE  /\ Fit(Failing(t)) /\ Failing(t).pc # "none"
         /\ \/ /\ Failing(t) = Reporting("retryable") /\ tries[t] < MaxAttempts
            \/ Failing(t) = Persisting(handlers[t], "give up", "failed")
  <1>1. CASE LastAttempt(t)
    <2>1. Failing(t) = Persisting(handlers[t], "give up", "failed")
      BY <1>1 DEF Failing
    <2>2. ChangeOf("give up", "failed")
      BY DEF ChangeOf
    <2>3. /\ Fit(Persisting(handlers[t], "give up", "failed"))
          /\ GoneOn(Persisting(handlers[t], "give up", "failed"), handlers[t], "read", "give up",
                    "failed", handlers[t].image)
      BY <2>2, PersistingFits
    <2> QED BY <2>1, <2>3 DEF GoneOn
  <1>2. CASE ~LastAttempt(t)
    <2>1. Failing(t) = Reporting("retryable")
      BY <1>2 DEF Failing
    <2>2. tries[t] < MaxAttempts
      BY <1>2, BoundsAssumption DEF LastAttempt, TInv, TypeOK, Queue!TypeOK
    <2> QED BY <2>1, <2>2, NoHandlerFits DEF Outcomes
  <1> QED BY <1>1, <1>2

(* A change makes a message of a message *)
LEMMA ChangedTyped ==
  ASSUME NEW msg \in Message, NEW c \in {"restart", "delta"} \cup Ended, NEW d \in Deliveries
  PROVE  Changed(msg, c, d) \in Message
  BY DEF Changed, Message, PendingMessage, Ended, Active

(* What the types say of a turn *)
LEMMA TurnFacts ==
  ASSUME TInv, NEW t \in Turns
  PROVE  /\ Fit(handlers[t]) /\ Delivery(t) \in Deliveries
         /\ target[t] \in 0..MaxMessages
         /\ handlers[t].pc # "none" =>
              /\ phase[t] = "leased" /\ target[t] \in Messages /\ MessageOf(t) \in Message
         /\ phase[t] # "absent" => target[t] \in Messages /\ MessageOf(t) \in Message
  BY BoundsAssumption
  DEF TInv, TypeOK, Fit, Queue!TypeOK, Delivery, Deliveries, Turns, MessageOf, Messages

-----------------------------------------------------------------------------
(* Types *)

(* The initial states have the types *)
LEMMA TInit ==
  ASSUME Init
  PROVE  TInv
  <1>1. /\ Fit(NoHandler) /\ NoHandler.pc = "none"
    BY NoHandlerFits
  <1>2. AbsentMessage \in Message
    BY BoundsAssumption DEF Nobody, Deliveries, AbsentMessage, Message
  <1>3. TypeOK
    BY <1>1, <1>2, BoundsAssumption
    DEF Init, TypeOK, Queue!Init, Queue!TypeOK, Queue!Phases, Fit, Request, IdleRequest
  <1>4. Opened
    <2>1. \A t \in Turns : phase[t] = "absent" <=> t > 0
      BY BoundsAssumption DEF Init, Queue!Init, Turns
    <2> QED BY <2>1, BoundsAssumption DEF Opened
  <1> QED BY <1>1, <1>3, <1>4 DEF TInv, Init, Queue!Init, Fit, IdleRequest

(* A step of one handler that touches neither the queue nor the messages *)
LEMMA HandlerStepTyped ==
  ASSUME TInv, NEW t \in Turns, NEW q, Fit(q), q.pc # "none" => phase[t] = "leased",
         HandlerGoes(t, q), UNCHANGED <<queue, stop, target, requests>>,
         messages' \in [Messages -> Message],
         runs' \in [Turns -> SUBSET Nat], \A u \in Turns : runs'[u] \subseteq 1..lease[u],
         journal' \in [Messages -> SUBSET Event], faults' \in 0..MaxFaults
  PROVE  TInv'
  <1>1. handlers' \in [Turns -> Handler] /\ handlers'[t] = q
        /\ \A u \in Turns \ {t} : handlers'[u] = handlers[u]
    BY DEF TInv, TypeOK, HandlerGoes, Fit
  <1>2. /\ \A u \in Turns : handlers'[u].pc # "none" => phase[u] = "leased"
        /\ \A u \in Turns : handlers'[u].outcome # "none" <=> handlers'[u].pc = "report"
        /\ \A u \in Turns : Shaped(handlers'[u])
    BY <1>1 DEF TInv, TypeOK, Fit
  <1>3. /\ phase' = phase /\ tries' = tries /\ lease' = lease /\ stop' = stop
        /\ target' = target /\ requests' = requests
    BY DEF queue
  <1>4. TypeOK'
    BY <1>1, <1>2, <1>3 DEF TInv, TypeOK, Queue!TypeOK
  <1>5. Opened'
    BY <1>3 DEF TInv, Opened
  <1> QED BY <1>2, <1>3, <1>4, <1>5 DEF TInv

(* A step that changes the handler only *)
LEMMA QuietTyped ==
  ASSUME TInv, NEW t \in Turns, NEW q, Fit(q), q.pc # "none" => phase[t] = "leased",
         HandlerGoes(t, q), UNCHANGED Others
  PROVE  TInv'
  BY HandlerStepTyped DEF Others, TInv, TypeOK, queue

(* What is appended is an event *)
LEMMA AppendTyped ==
  ASSUME TInv, NEW t \in Turns, phase[t] = "leased", NEW k \in Kinds, NEW i \in Message,
         NEW c \in Deliveries, Append(t, EventOf(t, k, i, c))
  PROVE  journal' \in [Messages -> SUBSET Event]
  <1>1. EventOf(t, k, i, c) \in Event
    BY DEF EventOf, Event, Message
  <1> QED BY <1>1, TurnFacts DEF Append, TInv

(* The steps of a handler, each in a lemma of its own *)
LEMMA LoadTyped ==
  ASSUME TInv, NEW t \in Turns, Load(t)
  PROVE  TInv'
  <1> DEFINE h == handlers[t]
             msg == MessageOf(t)
  <1>1. Fit(h) /\ h.pc = "load" /\ h.purpose = "none" /\ phase[t] = "leased" /\ msg \in Message
    BY TurnFacts DEF Load, Fit, Shaped
  <1>2. CASE msg.status \in Ended /\ HandlerGoes(t, AnnouncedAgain(h, msg))
    <2>1. Fit(AnnouncedAgain(h, msg))
      BY <1>1, <1>2, PublishingFits DEF AnnouncedAgain
    <2> QED BY <1>1, <1>2, <2>1, QuietTyped DEF Load
  <1>3. CASE HandlerGoes(t, StoppedFirst(h))
    <2>1. Fit(StoppedFirst(h))
      BY <1>1, PersistingFits DEF ChangeOf, StoppedFirst
    <2> QED BY <1>1, <1>3, <2>1, QuietTyped DEF Load
  <1>4. CASE HandlerGoes(t, [h EXCEPT !.pc = "recover", !.image = msg])
    <2>1. Fit([h EXCEPT !.pc = "recover", !.image = msg])
      BY <1>1 DEF Fit, Shaped, Handler
    <2> QED BY <1>1, <1>4, <2>1, QuietTyped DEF Load
  <1>5. CASE HandlerGoes(t, Beginning(h, msg))
    <2>1. Fit(Beginning(h, msg))
      BY <1>1, BeginningFits
    <2> QED BY <1>1, <1>5, <2>1, QuietTyped DEF Load
  <1> QED BY <1>2, <1>3, <1>4, <1>5 DEF Load

LEMMA RecoverTyped ==
  ASSUME TInv, NEW t \in Turns, Recover(t)
  PROVE  TInv'
  <1> DEFINE h == handlers[t]
             m == target[t]
  <1>1. Fit(h) /\ h.pc = "recover" /\ phase[t] = "leased" /\ h.image \in Message
        /\ m \in Messages
    BY TurnFacts DEF Recover, Fit, Shaped, Handler
  <1>2. CASE HandlerGoes(t, Persisting(h, "restart", "restart")) /\ UNCHANGED journal
    <2>1. Fit(Persisting(h, "restart", "restart"))
      BY <1>1, PersistingFits DEF ChangeOf
    <2> QED BY <1>1, <1>2, <2>1, QuietTyped DEF Recover, Others
  <1>3. CASE HandlerGoes(t, Persisting(h, "refuse", "failed")) /\ UNCHANGED journal
    <2>1. Fit(Persisting(h, "refuse", "failed"))
      BY <1>1, PersistingFits DEF ChangeOf
    <2> QED BY <1>1, <1>3, <2>1, QuietTyped DEF Recover, Others
  <1>4. ASSUME NEW call \in Unresolved(m), Append(t, EventOf(t, "toolfailed", h.image, call)),
               UNCHANGED handlers
        PROVE  TInv'
    <2>1. call \in Deliveries
      BY <1>1 DEF Unresolved, CallsIn, TInv, Event
    <2>2. journal' \in [Messages -> SUBSET Event]
      BY <1>1, <1>4, <2>1, AppendTyped DEF Kinds, ToolKinds
    <2>3. HandlerGoes(t, h)
      BY <1>4 DEF HandlerGoes, TInv, TypeOK
    <2> QED BY <1>1, <2>2, <2>3, HandlerStepTyped DEF Recover, TInv, TypeOK, queue
  <1> QED BY <1>2, <1>3, <1>4 DEF Recover

LEMMA BeginTyped ==
  ASSUME TInv, NEW t \in Turns, Begin(t)
  PROVE  TInv'
  <1> DEFINE h == handlers[t]
  <1>1. Fit(h) /\ h.pc = "begin" /\ phase[t] = "leased" /\ h.image \in Message
    BY TurnFacts DEF Begin, Fit, Shaped, Handler
  <1>2. CASE h.image.status = "pending"
    <2>1. journal' \in [Messages -> SUBSET Event]
      BY <1>1, <1>2, AppendTyped, BoundsAssumption DEF Begin, Kinds, Nobody, Deliveries
    <2>2. Fit(Streaming(h))
      BY <1>1, StreamingFits
    <2> QED BY <1>1, <1>2, <2>1, <2>2, HandlerStepTyped DEF Begin, TInv, TypeOK, queue
  <1>3. CASE h.image.status # "pending"
    BY <1>1, <1>3, FailingFits, QuietTyped DEF Begin, Others
  <1> QED BY <1>2, <1>3

LEMMA StreamTyped ==
  ASSUME TInv, NEW t \in Turns, NEW c \in Kinds, Stream(t, c)
  PROVE  TInv'
  <1> DEFINE h == handlers[t]
  <1>1. Fit(h) /\ h.pc = "stream" /\ phase[t] = "leased"
    BY TurnFacts DEF Stream, Fit, Shaped
  <1>2. CASE HandlerGoes(t, Persisting(h, "stop", "stopped"))
    <2>1. Fit(Persisting(h, "stop", "stopped"))
      BY <1>1, PersistingFits DEF ChangeOf
    <2> QED BY <1>1, <1>2, <2>1, QuietTyped DEF Stream
  <1>3. CASE HandlerGoes(t, [Persisting(h, "event", c) EXCEPT !.said = @ \/ c = "delta"])
    <2> DEFINE q == Persisting(h, "event", c)
    <2>1. c \in {"delta"} \cup ToolKinds \cup Ended
      BY DEF Stream, MayYield, Kinds
    <2>2. Fit(q)
      BY <1>1, <2>1, PersistingFits DEF ChangeOf
    <2> HIDE DEF q
    <2>3. Fit([q EXCEPT !.said = @ \/ c = "delta"])
      <3>1. q \in Handler
        BY <2>2 DEF Fit
      <3>2. (q.said \/ c = "delta") \in BOOLEAN
        OBVIOUS
      <3> DEFINE s == [q EXCEPT !.said = @ \/ c = "delta"]
      <3>3. /\ s \in Handler /\ s.pc = q.pc /\ s.purpose = q.purpose /\ s.change = q.change
            /\ s.outcome = q.outcome /\ s.tool = q.tool
        BY <3>1, <3>2 DEF Handler
      <3> HIDE DEF s
      <3>4. Fit(s)
        BY <2>2, <3>3 DEF Fit, Shaped
      <3> QED BY <3>4 DEF s
    <2> QED BY <1>1, <1>3, <2>3, QuietTyped DEF Stream, q
  <1> QED BY <1>2, <1>3 DEF Stream

(* A tool runs *)
LEMMA RunToolTyped ==
  ASSUME TInv, NEW t \in Turns, RunTool(t)
  PROVE  TInv'
  <1> DEFINE h == handlers[t]
             q == [h EXCEPT !.tool = "ran"]
  <1>1. Fit(h) /\ h.pc = "stream" /\ phase[t] = "leased" /\ lease[t] \in Nat /\ lease[t] >= 1
    BY TurnFacts DEF RunTool, Fit, Shaped, TInv, TypeOK, Queue!TypeOK
  <1>2. /\ q \in Handler /\ q.pc = h.pc /\ q.purpose = h.purpose /\ q.change = h.change
        /\ q.outcome = h.outcome
    BY <1>1 DEF Handler, Fit
  <1> HIDE DEF q
  <1>3. Fit(q)
    BY <1>1, <1>2 DEF Fit, Shaped
  <1>4. HandlerGoes(t, q)
    BY DEF RunTool, HandlerGoes, q
  <1>5. /\ runs' \in [Turns -> SUBSET Nat]
        /\ \A u \in Turns : runs'[u] \subseteq 1..lease[u]
    BY <1>1 DEF RunTool, TInv, TypeOK
  <1> QED BY <1>1, <1>3, <1>4, <1>5, HandlerStepTyped DEF RunTool, TInv, TypeOK, queue

(* What becomes of a change to a message that has ended *)
LEMMA OnEndedFits ==
  ASSUME TInv, NEW t \in Turns, handlers[t].pc = "read"
  PROVE  /\ Fit(OnEnded(t))
         /\ handlers[t].purpose \in {"event", "stop", "stop again"} => OnEnded(t) = Settling
         /\ handlers[t].purpose = "stop first" => OnEnded(t) = Reporting("cancelled")
         /\ handlers[t].purpose = "give up" => OnEnded(t) = Reporting("fatal")
         /\ handlers[t].purpose = "refuse" =>
              OnEnded(t) = Persisting(handlers[t], "restart", "restart")
         /\ handlers[t].purpose = "restart" => OnEnded(t) = Failing(t)
         /\ handlers[t].purpose = "unwind" => OnEnded(t) = NoHandler
  <1>1. /\ handlers[t].purpose \in {"event", "stop", "stop again"} => OnEnded(t) = Settling
        /\ handlers[t].purpose = "stop first" => OnEnded(t) = Reporting("cancelled")
        /\ handlers[t].purpose = "give up" => OnEnded(t) = Reporting("fatal")
        /\ handlers[t].purpose = "refuse" =>
             OnEnded(t) = Persisting(handlers[t], "restart", "restart")
        /\ handlers[t].purpose = "restart" => OnEnded(t) = Failing(t)
        /\ handlers[t].purpose = "unwind" => OnEnded(t) = NoHandler
    BY DEF OnEnded
  <1>2. Fit(handlers[t]) /\ handlers[t].purpose \in Writes
    BY TurnFacts DEF Fit, Shaped
  <1>3. /\ Fit(Settling) /\ Fit(Reporting("cancelled")) /\ Fit(Reporting("fatal"))
        /\ Fit(NoHandler) /\ Fit(Failing(t))
    BY <1>2, NoHandlerFits, FailingFits DEF Outcomes
  <1>4. ChangeOf("restart", "restart")
    BY DEF ChangeOf
  <1>5. Fit(Persisting(handlers[t], "restart", "restart"))
    BY <1>2, <1>4, PersistingFits
  <1> QED BY <1>1, <1>2, <1>3, <1>5 DEF Writes

LEMMA ReadTyped ==
  ASSUME TInv, NEW t \in Turns, Read(t)
  PROVE  TInv'
  <1> DEFINE h == handlers[t]
             msg == MessageOf(t)
  <1>1. /\ Fit(h) /\ h.pc = "read" /\ h.purpose \in Writes /\ phase[t] = "leased"
        /\ msg \in Message /\ UNCHANGED Others
    BY TurnFacts DEF Read, Fit, Shaped
  <1>2. CASE HandlerGoes(t, OnEnded(t))
    BY <1>1, <1>2, OnEndedFits, QuietTyped
  <1>3. CASE h.change \in ToolKinds /\ HandlerGoes(t, Publishing(h, h.purpose, h.change, msg))
    <2>1. ChangeOf(h.purpose, h.change) /\ h.purpose # "restart"
      BY <1>1, <1>3 DEF ChangeOf, Fit, Shaped, Writes, ToolKinds, Ended
    <2>2. Fit(Publishing(h, h.purpose, h.change, msg))
      BY <1>1, <2>1, PublishingFits
    <2> QED BY <1>1, <1>3, <2>2, QuietTyped
  <1>4. CASE /\ h.change \notin ToolKinds
             /\ HandlerGoes(t, [h EXCEPT !.pc = "write",
                                         !.image = Changed(msg, h.change, Delivery(t))])
    <2> DEFINE i == Changed(msg, h.change, Delivery(t))
               q == [h EXCEPT !.pc = "write", !.image = i]
    <2>1. h.change \in {"restart", "delta"} \cup Ended
      BY <1>1, <1>4 DEF Fit, Shaped, Writes, ToolKinds, Ended
    <2>2. i \in Message
      BY <1>1, <2>1, ChangedTyped, TurnFacts
    <2> HIDE DEF i
    <2>3. /\ q \in Handler /\ q.pc = "write" /\ q.purpose = h.purpose /\ q.change = h.change
          /\ q.outcome = h.outcome
      BY <1>1, <2>2 DEF Fit, Handler
    <2>4. HandlerGoes(t, q)
      BY <1>4 DEF i
    <2> HIDE DEF q
    <2>5. Fit(q)
      BY <1>1, <1>4, <2>3 DEF Fit, Shaped
    <2> QED BY <1>1, <2>4, <2>5, QuietTyped
  <1> QED BY <1>2, <1>3, <1>4 DEF Read

LEMMA WriteTyped ==
  ASSUME TInv, NEW t \in Turns, Write(t)
  PROVE  TInv'
  <1> DEFINE h == handlers[t]
  <1>1. /\ Fit(h) /\ h.pc = "write" /\ h.purpose \in Writes /\ phase[t] = "leased"
        /\ h.image \in Message /\ target[t] \in Messages
    BY TurnFacts DEF Write, Fit, Shaped, Handler
  <1>2. messages' \in [Messages -> Message]
    BY <1>1 DEF Write, TInv, TypeOK
  <1>3. /\ UNCHANGED <<queue, stop, target, requests>>
        /\ runs' \in [Turns -> SUBSET Nat] /\ \A u \in Turns : runs'[u] \subseteq 1..lease[u]
        /\ journal' \in [Messages -> SUBSET Event] /\ faults' \in 0..MaxFaults
    BY DEF Write, TInv, TypeOK
  <1>4. CASE h.purpose = "restart"
    BY <1>1, <1>2, <1>3, <1>4, BeginningFits, HandlerStepTyped DEF Write
  <1>5. CASE h.purpose # "restart"
    <2> DEFINE q == [h EXCEPT !.pc = "publish"]
    <2>1. /\ q \in Handler /\ q.pc = "publish" /\ q.purpose = h.purpose /\ q.change = h.change
          /\ q.outcome = h.outcome
      BY <1>1 DEF Fit, Handler
    <2>2. HandlerGoes(t, q)
      BY <1>5 DEF Write
    <2> HIDE DEF q
    <2>3. Fit(q)
      BY <1>1, <1>5, <2>1 DEF Fit, Shaped, Writes
    <2> QED BY <1>1, <1>2, <1>3, <2>2, <2>3, HandlerStepTyped
  <1> QED BY <1>4, <1>5

(* What follows an event *)
LEMMA OnPublishedFits ==
  ASSUME NEW h, Fit(h), h.pc = "publish"
  PROVE  /\ Fit(OnPublished(h))
         /\ h.purpose = "event" /\ h.change \in Ended => OnPublished(h) = Settling
         /\ h.purpose = "event" /\ h.change \notin Ended =>
              /\ OnPublished(h).pc = "stream" /\ OnPublished(h).purpose = "none"
              /\ OnPublished(h).said = h.said /\ OnPublished(h).outcome = "none"
              /\ OnPublished(h).tool = "announced" <=>
                   h.change = "toolstarted" \/ (h.tool = "announced" /\ h.change = "delta")
         /\ h.purpose \in {"stop", "stop again"} => OnPublished(h) = Settling
         /\ h.purpose = "stop first" => OnPublished(h) = Reporting("cancelled")
         /\ h.purpose \in {"refuse", "give up"} => OnPublished(h) = Reporting("fatal")
         /\ h.purpose = "republish" => OnPublished(h) = Reporting(StatusOutcome(h.image.status))
         /\ h.purpose = "unwind" => OnPublished(h) = NoHandler
  <1>1. /\ h.purpose = "event" /\ h.change \in Ended => OnPublished(h) = Settling
        /\ h.purpose \in {"stop", "stop again"} => OnPublished(h) = Settling
        /\ h.purpose = "stop first" => OnPublished(h) = Reporting("cancelled")
        /\ h.purpose \in {"refuse", "give up"} => OnPublished(h) = Reporting("fatal")
        /\ h.purpose = "republish" => OnPublished(h) = Reporting(StatusOutcome(h.image.status))
        /\ h.purpose = "unwind" => OnPublished(h) = NoHandler
    BY DEF OnPublished
  <1>2. /\ Fit(Settling) /\ Fit(Reporting("cancelled")) /\ Fit(Reporting("fatal"))
        /\ Fit(NoHandler) /\ \A s : Fit(Reporting(StatusOutcome(s)))
    <2>1. \A s : StatusOutcome(s) \in Outcomes
      BY DEF StatusOutcome, Outcomes
    <2> QED BY <2>1, NoHandlerFits DEF Outcomes
  <1>3. CASE h.purpose = "event" /\ h.change \notin Ended
    <2> DEFINE tool == CASE h.change = "toolstarted" -> "announced"
                         [] h.change \in {"toolcompleted", "toolfailed"} -> "over"
                         [] OTHER -> Streaming(h).tool
               s == Streaming(h)
               q == [s EXCEPT !.tool = tool]
    <2>1. Fit(s) /\ GoneOn(s, h, "stream", "none", "none", AbsentMessage)
      BY StreamingFits
    <2>2. h.change \in {"delta"} \cup ToolKinds /\ h.outcome = "none"
      BY <1>3 DEF Fit, Shaped
    <2>3. /\ tool \in {"none", "announced", "ran", "over"}
          /\ tool = "announced" <=>
               h.change = "toolstarted" \/ (h.tool = "announced" /\ h.change = "delta")
      BY <2>1, <2>2 DEF ToolKinds, GoneOn, Handler
    <2>4. OnPublished(h) = q
      BY <1>3 DEF OnPublished
    <2> HIDE DEF s, tool
    <2>5. /\ q \in Handler /\ q.pc = "stream" /\ q.purpose = "none" /\ q.said = h.said
          /\ q.outcome = "none" /\ q.tool = tool /\ q.change = "none"
      BY <2>1, <2>2, <2>3 DEF GoneOn, Handler
    <2> HIDE DEF q
    <2>6. Fit(q)
      BY <2>5 DEF Fit, Shaped
    <2> QED BY <1>3, <2>3, <2>4, <2>5, <2>6
  <1>4. CASE ~(h.purpose = "event" /\ h.change \notin Ended)
    <2>1. h.purpose \in (Writes \ {"restart"}) \cup {"republish"}
      BY DEF Fit, Shaped
    <2> QED BY <1>1, <1>2, <1>4, <2>1 DEF Writes
  <1> QED BY <1>1, <1>3, <1>4

LEMMA PublishTyped ==
  ASSUME TInv, NEW t \in Turns, Publish(t)
  PROVE  TInv'
  <1> DEFINE h == handlers[t]
             call == IF h.change \in ToolKinds THEN Delivery(t) ELSE Nobody
  <1>1. /\ Fit(h) /\ h.pc = "publish" /\ phase[t] = "leased" /\ h.image \in Message
        /\ call \in Deliveries
    <2>1. Nobody \in Deliveries
      BY BoundsAssumption DEF Nobody, Deliveries
    <2> QED BY <2>1, TurnFacts DEF Publish, Fit, Handler
  <1>2. h.change \in Kinds
    BY <1>1 DEF Fit, Shaped, Kinds, Writes, Ended
  <1>3. journal' \in [Messages -> SUBSET Event]
    BY <1>1, <1>2, AppendTyped DEF Publish
  <1> QED BY <1>1, <1>3, OnPublishedFits, HandlerStepTyped DEF Publish, TInv, TypeOK, queue

LEMMA SettleTyped ==
  ASSUME TInv, NEW t \in Turns, Settle(t)
  PROVE  TInv'
  <1>1. phase[t] = "leased"
    BY TurnFacts DEF Settle
  <1>2. StatusOutcome(MessageOf(t).status) \in Outcomes
    BY DEF StatusOutcome, Outcomes
  <1>3. Fit(Reporting(StatusOutcome(MessageOf(t).status)))
    BY <1>2, NoHandlerFits
  <1> QED BY <1>1, <1>3, QuietTyped DEF Settle

(* The heartbeat passes a stop on *)
LEMMA HearStopTyped ==
  ASSUME TInv, NEW t \in Turns, HearStop(t)
  PROVE  TInv'
  <1> DEFINE h == handlers[t]
             q == [h EXCEPT !.stop = TRUE]
  <1>1. Fit(h) /\ phase[t] = "leased"
    BY TurnFacts DEF HearStop
  <1>2. /\ q \in Handler /\ q.pc = h.pc /\ q.purpose = h.purpose /\ q.change = h.change
        /\ q.outcome = h.outcome /\ q.tool = h.tool
    BY <1>1 DEF Handler, Fit
  <1> HIDE DEF q
  <1>3. Fit(q)
    BY <1>1, <1>2 DEF Fit, Shaped
  <1> QED BY <1>1, <1>3, QuietTyped DEF HearStop, q

(* An exception, a crash, a cancellation *)
LEMMA FaultsTyped ==
  ASSUME TInv, NEW t \in Turns, Raise(t) \/ Crash(t) \/ CancelStopped(t)
  PROVE  TInv'
  <1> DEFINE h == handlers[t]
  <1>1. Fit(h) /\ h.pc # "none" /\ phase[t] = "leased" /\ faults' \in 0..MaxFaults
    <2>1. h.pc # "none"
      BY TurnFacts DEF Raise, Crash, CancelStopped, InRuntime, Fit, Shaped
    <2>2. faults < MaxFaults /\ faults' = faults + 1
      BY DEF Raise, Crash, CancelStopped, Fault
    <2>3. faults' \in 0..MaxFaults
      BY <2>2, BoundsAssumption DEF TInv, TypeOK
    <2> QED BY <2>1, <2>3, TurnFacts
  <1>2. /\ UNCHANGED <<queue, stop, target, requests>> /\ messages' \in [Messages -> Message]
        /\ runs' \in [Turns -> SUBSET Nat] /\ \A u \in Turns : runs'[u] \subseteq 1..lease[u]
        /\ journal' \in [Messages -> SUBSET Event]
    BY DEF Raise, Crash, CancelStopped, TInv, TypeOK
  <1>3. ASSUME NEW q, Fit(q), HandlerGoes(t, q) PROVE TInv'
    BY <1>1, <1>2, <1>3, HandlerStepTyped
  <1>4. ChangeOf("stop again", "stopped") /\ ChangeOf("unwind", "stopped")
    BY DEF ChangeOf
  <1>5. CASE Raise(t)
    <2>1. h.pc # "report"
      BY <1>5 DEF Raise
    <2>2. Fit(Persisting(h, "stop again", "stopped"))
      BY <1>1, <1>4, <2>1, PersistingFits
    <2>3. Fit(Failing(t))
      BY <1>1, <2>1, FailingFits
    <2>4. Fit(Reporting("retryable"))
      BY NoHandlerFits DEF Outcomes
    <2> QED BY <1>3, <1>5, <2>2, <2>3, <2>4 DEF Raise
  <1>6. CASE Crash(t)
    BY <1>3, <1>6, NoHandlerFits DEF Crash
  <1>7. CASE CancelStopped(t)
    <2>1. h.pc # "report"
      BY <1>1, <1>7 DEF CancelStopped, InRuntime, Fit, Shaped
    <2>2. Fit(Persisting(h, "unwind", "stopped"))
      BY <1>1, <1>4, <2>1, PersistingFits
    <2> QED BY <1>3, <1>7, <2>2 DEF CancelStopped
  <1> QED BY <1>5, <1>6, <1>7

-----------------------------------------------------------------------------
(* The queue and the API *)

(* A delivery *)
LEMMA ClaimTyped ==
  ASSUME TInv, NEW t \in Turns, Claim(t)
  PROVE  TInv'
  <1> DEFINE q == [NoHandler EXCEPT !.pc = "load", !.stop = stop[t]]
  <1>1. /\ q \in Handler /\ q.pc = "load" /\ q.purpose = "none" /\ q.change = "none"
        /\ q.outcome = "none"
    BY NoHandlerFits DEF Fit, Handler, NoHandler, TInv, TypeOK
  <1>2. handlers' = [handlers EXCEPT ![t] = q]
    BY DEF Claim, HandlerGoes
  <1> HIDE DEF q
  <1>3. Fit(q)
    BY <1>1 DEF Fit, Shaped
  <1>4. /\ phase' \in [Turns -> Queue!Phases] /\ tries' \in [Turns -> 0..MaxAttempts]
        /\ lease' \in [Turns -> Nat]
    <2>1. /\ phase \in [Turns -> Queue!Phases] /\ tries \in [Turns -> 0..MaxAttempts]
          /\ lease \in [Turns -> Nat]
      BY DEF TInv, TypeOK, Queue!TypeOK
    <2>2. CASE Queue!Deliver(t)
      BY <2>1, <2>2, BoundsAssumption DEF Queue!Deliver, Queue!Phases
    <2>3. CASE Queue!Takeover(t)
      BY <2>1, <2>3, BoundsAssumption DEF Queue!Takeover, Queue!Phases
    <2> QED BY <2>2, <2>3 DEF Claim
  <1>5. /\ phase'[t] = "leased" /\ phase[t] \in {"waiting", "leased"}
        /\ \A u \in Turns \ {t} : phase'[u] = phase[u] /\ lease'[u] = lease[u]
        /\ lease'[t] = lease[t] + 1
    BY DEF Claim, Queue!Deliver, Queue!Takeover, TInv, TypeOK, Queue!TypeOK
  <1>6. /\ handlers' \in [Turns -> Handler] /\ handlers'[t] = q
        /\ \A u \in Turns \ {t} : handlers'[u] = handlers[u]
    BY <1>1, <1>2 DEF TInv, TypeOK
  <1>7. lease \in [Turns -> Nat]
    BY DEF TInv, TypeOK, Queue!TypeOK
  <1>8. TypeOK'
    <2>1. \A u \in Turns : runs[u] \subseteq 1..lease'[u]
      BY <1>5, <1>7 DEF TInv, TypeOK
    <2>2. \A u \in Turns : target[u] = 0 <=> phase'[u] = "absent"
      BY <1>5 DEF TInv, TypeOK
    <2>3. \A u \in Turns : handlers'[u].pc # "none" => phase'[u] = "leased"
      BY <1>5, <1>6 DEF TInv, TypeOK
    <2>4. \A u \in Turns : handlers'[u].outcome # "none" <=> handlers'[u].pc = "report"
      BY <1>3, <1>6 DEF TInv, TypeOK, Fit
    <2> QED BY <1>4, <1>6, <2>1, <2>2, <2>3, <2>4
            DEF Claim, TInv, TypeOK, Queue!TypeOK, Queue!Phases
  <1>9. Opened'
    BY <1>5 DEF TInv, Opened
  <1>10. \A u \in Turns : phase'[u] = "leased" => lease'[u] >= 1
    BY <1>5, <1>7 DEF TInv
  <1>11. \A u \in Turns : Shaped(handlers'[u])
    BY <1>3, <1>6 DEF TInv, Fit
  <1> QED BY <1>8, <1>9, <1>10, <1>11 DEF Claim, TInv

(* A report *)
LEMMA ReportTyped ==
  ASSUME TInv, NEW t \in Turns, Report(t)
  PROVE  TInv'
  <1>1. /\ handlers' \in [Turns -> Handler] /\ handlers'[t] = NoHandler
        /\ \A u \in Turns \ {t} : handlers'[u] = handlers[u]
    BY NoHandlerFits DEF Report, HandlerGoes, TInv, TypeOK, Fit
  <1>2. /\ phase' \in [Turns -> Queue!Phases] /\ phase'[t] \notin {"absent", "leased"}
        /\ phase[t] = "leased" /\ tries' = tries /\ lease' = lease
        /\ \A u \in Turns \ {t} : phase'[u] = phase[u]
    BY DEF Report, Queue!Requeue, Queue!Settle, Queue!Settled, TInv, TypeOK, Queue!TypeOK,
           Queue!Phases
  <1>3. TypeOK'
    <2>1. \A u \in Turns : target[u] = 0 <=> phase'[u] = "absent"
      BY <1>2 DEF TInv, TypeOK
    <2>2. \A u \in Turns : handlers'[u].pc # "none" => phase'[u] = "leased"
      BY <1>1, <1>2, NoHandlerFits DEF TInv, TypeOK
    <2>3. \A u \in Turns : handlers'[u].outcome # "none" <=> handlers'[u].pc = "report"
      BY <1>1, NoHandlerFits DEF TInv, TypeOK, Fit
    <2> QED BY <1>1, <1>2, <2>1, <2>2, <2>3
            DEF Report, TInv, TypeOK, Queue!TypeOK, Queue!Phases
  <1>4. Opened'
    BY <1>2 DEF TInv, Opened
  <1>5. \A u \in Turns : phase'[u] = "leased" => lease'[u] >= 1
    BY <1>2 DEF TInv
  <1>6. \A u \in Turns : Shaped(handlers'[u])
    BY <1>1, NoHandlerFits DEF TInv, Fit
  <1> QED BY <1>3, <1>4, <1>5, <1>6 DEF Report, TInv

(* The next turn is the one after those opened so far *)
LEMMA NextTurnIs ==
  ASSUME TInv, CanOpenTurn
  PROVE  /\ NextTurn \in Turns /\ phase[NextTurn] = "absent"
         /\ \A u \in Turns : phase[u] = "absent" <=> u >= NextTurn
  <1>1. PICK n \in 0..(MaxMessages + MaxRetries) : \A t \in Turns : phase[t] = "absent" <=> t > n
    BY DEF TInv, Opened
  <1>2. n + 1 \in Turns
    BY <1>1, BoundsAssumption DEF CanOpenTurn, Turns
  <1>3. \A t \in Turns : phase[t] = "absent" <=> t >= n + 1
    BY <1>1, BoundsAssumption DEF Turns
  <1>4. phase[n + 1] = "absent" /\ \A u \in Turns : u < n + 1 => phase[u] # "absent"
    BY <1>2, <1>3, BoundsAssumption DEF Turns
  <1>5. \A t \in Turns :
          phase[t] = "absent" /\ (\A u \in Turns : u < t => phase[u] # "absent") => t = n + 1
    BY <1>2, <1>3, BoundsAssumption DEF Turns
  <1>6. NextTurn = n + 1
    BY <1>2, <1>4, <1>5 DEF NextTurn
  <1> QED BY <1>2, <1>3, <1>4, <1>6

(* A message and its task are written *)
LEMMA OpenTurnTyped ==
  ASSUME TInv, NEW m \in Messages, CanOpenTurn, OpenTurn(m),
         requests' \in [Requests -> Request],
         \A r \in Requests : requests'[r].pc # "idle" => requests'[r].message \in Messages
  PROVE  TInv'
  <1> DEFINE t == NextTurn
  <1>1. /\ t \in Turns /\ phase[t] = "absent"
        /\ \A u \in Turns : phase[u] = "absent" <=> u >= t
    BY NextTurnIs
  <1> HIDE DEF t
  <1>2. /\ phase' = [phase EXCEPT ![t] = "waiting"] /\ tries' = tries /\ lease' = lease
        /\ target' = [target EXCEPT ![t] = m]
        /\ messages' = [messages EXCEPT ![m] = PendingMessage(<<t, 0>>)]
        /\ UNCHANGED <<stop, handlers, journal, runs, faults>>
    BY DEF OpenTurn, Queue!Submit, t
  <1>3. PendingMessage(<<t, 0>>) \in Message
    BY <1>1, BoundsAssumption DEF PendingMessage, Message, Deliveries, Turns, Active
  <1>4. /\ messages' \in [Messages -> Message] /\ target' \in [Turns -> 0..MaxMessages]
        /\ phase' \in [Turns -> Queue!Phases]
    BY <1>1, <1>2, <1>3, BoundsAssumption
    DEF TInv, TypeOK, Queue!TypeOK, Queue!Phases, Messages
  <1>5. /\ phase'[t] = "waiting" /\ target'[t] = m /\ m # 0
        /\ \A u \in Turns \ {t} : phase'[u] = phase[u] /\ target'[u] = target[u]
    BY <1>1, <1>2, BoundsAssumption DEF TInv, TypeOK, Queue!TypeOK, Messages
  <1>6. TypeOK'
    <2>1. \A u \in Turns : target'[u] = 0 <=> phase'[u] = "absent"
      BY <1>5 DEF TInv, TypeOK
    <2>2. \A u \in Turns : handlers[u].pc # "none" => phase'[u] = "leased"
      BY <1>1, <1>5 DEF TInv, TypeOK
    <2> QED BY <1>2, <1>4, <2>1, <2>2 DEF TInv, TypeOK, Queue!TypeOK
  <1>7. Opened'
    <2>1. t \in 0..(MaxMessages + MaxRetries)
      BY <1>1, BoundsAssumption DEF Turns
    <2>2. \A u \in Turns : phase'[u] = "absent" <=> u > t
      BY <1>1, <1>5, BoundsAssumption DEF Turns
    <2> QED BY <2>1, <2>2 DEF Opened
  <1>8. \A u \in Turns : phase'[u] = "leased" => lease'[u] >= 1
    BY <1>2, <1>5 DEF TInv
  <1> QED BY <1>2, <1>6, <1>7, <1>8 DEF TInv

(* A step that changes a request only *)
LEMMA RequestOnlyTyped ==
  ASSUME TInv, NEW r \in Requests, NEW q \in Request, RequestGoes(r, q),
         q.pc # "idle" => q.message \in Messages,
         UNCHANGED <<messages, queue, stop, target, handlers, journal, runs, faults>>
  PROVE  TInv'
  <1>1. /\ requests' \in [Requests -> Request]
        /\ \A s \in Requests : requests'[s].pc # "idle" => requests'[s].message \in Messages
    BY DEF RequestGoes, TInv, TypeOK
  <1>2. /\ phase' = phase /\ tries' = tries /\ lease' = lease
    BY DEF queue
  <1>3. TypeOK'
    BY <1>1, <1>2 DEF TInv, TypeOK, Queue!TypeOK
  <1>4. Opened'
    BY <1>2 DEF TInv, Opened
  <1> QED BY <1>1, <1>2, <1>3, <1>4 DEF TInv

(* A step of the API *)
LEMMA RequestTyped ==
  ASSUME TInv, NEW r \in Requests, RequestStep(r)
  PROVE  TInv'
  <1>1. requests[r] \in Request /\ (requests[r].pc # "idle" => requests[r].message \in Messages)
    BY DEF TInv, TypeOK
  <1>2. IdleRequest \in Request /\ IdleRequest.pc = "idle"
    BY BoundsAssumption DEF IdleRequest, Request
  <1>3. ASSUME NEW m \in Messages, NEW pc \in {"send", "looked"}
        PROVE  [pc |-> pc, message |-> m] \in Request
    BY DEF Request, Messages
  <1>4. ASSUME NEW pc \in {"prepared", "checked"}, requests[r].pc # "idle"
        PROVE  /\ [requests[r] EXCEPT !.pc = pc] \in Request
               /\ [requests[r] EXCEPT !.pc = pc].message \in Messages
    BY <1>1, <1>4 DEF Request
  <1>5. CASE SendRead(r)
    BY <1>3, <1>5, RequestOnlyTyped DEF SendRead
  <1>6. ASSUME NEW m \in Messages, RetryLook(r, m) PROVE TInv'
    BY <1>3, <1>6, RequestOnlyTyped DEF RetryLook
  <1>7. CASE RetryPrepare(r)
    BY <1>2, <1>4, <1>7, RequestOnlyTyped DEF RetryPrepare
  <1>8. CASE RetryCheck(r)
    BY <1>2, <1>4, <1>8, RequestOnlyTyped DEF RetryCheck
  <1>9. CASE SendCommit(r)
    <2>1. requests[r].message \in Messages /\ RequestGoes(r, IdleRequest)
      BY <1>1, <1>9 DEF SendCommit
    <2>2. /\ requests' \in [Requests -> Request]
          /\ \A s \in Requests : requests'[s].pc # "idle" => requests'[s].message \in Messages
      BY <1>2, <2>1 DEF RequestGoes, TInv, TypeOK
    <2> QED BY <1>2, <1>9, <2>1, <2>2, RequestOnlyTyped, OpenTurnTyped DEF SendCommit
  <1>10. CASE RetryWrite(r)
    <2>1. requests[r].message \in Messages /\ RequestGoes(r, IdleRequest)
      BY <1>1, <1>10 DEF RetryWrite
    <2>2. /\ requests' \in [Requests -> Request]
          /\ \A s \in Requests : requests'[s].pc # "idle" => requests'[s].message \in Messages
      BY <1>2, <2>1 DEF RequestGoes, TInv, TypeOK
    <2> QED BY <1>10, <2>1, <2>2, OpenTurnTyped DEF RetryWrite
  <1> QED BY <1>5, <1>6, <1>7, <1>8, <1>9, <1>10 DEF RequestStep

(* A stop is asked for *)
LEMMA RequestStopTyped ==
  ASSUME TInv, RequestStop
  PROVE  TInv'
  <1>1. stop' \in [Turns -> BOOLEAN]
    BY DEF RequestStop, TInv, TypeOK
  <1>2. /\ phase' = phase /\ tries' = tries /\ lease' = lease
        /\ UNCHANGED <<messages, target, handlers, requests, journal, runs, faults>>
    BY DEF RequestStop, queue
  <1>3. TypeOK' /\ Opened'
    BY <1>1, <1>2 DEF TInv, TypeOK, Queue!TypeOK, Opened
  <1> QED BY <1>2, <1>3 DEF TInv

(* Every step keeps the types *)
LEMMA StepTyped ==
  ASSUME TInv, [Next]_vars
  PROVE  TInv'
  <1>1. CASE UNCHANGED vars
    <2>1. /\ phase' = phase /\ tries' = tries /\ lease' = lease
          /\ UNCHANGED <<messages, stop, target, handlers, requests, journal, runs, faults>>
      BY <1>1 DEF vars, queue
    <2> QED BY <2>1 DEF TInv, TypeOK, Queue!TypeOK, Opened
  <1>2. ASSUME NEW r \in Requests, RequestStep(r) PROVE TInv'
    BY <1>2, RequestTyped
  <1>3. CASE RequestStop
    BY <1>3, RequestStopTyped
  <1>4. ASSUME NEW t \in Turns,
               \/ Claim(t) \/ HearStop(t) \/ HandlerStep(t) \/ RunTool(t)
               \/ Raise(t) \/ Crash(t) \/ CancelStopped(t)
        PROVE  TInv'
    BY <1>4, ClaimTyped, HearStopTyped, LoadTyped, RecoverTyped, BeginTyped, StreamTyped,
       ReadTyped, WriteTyped, PublishTyped, SettleTyped, ReportTyped, RunToolTyped, FaultsTyped
    DEF HandlerStep
  <1> QED BY <1>1, <1>2, <1>3, <1>4 DEF Next

(* Whatever is sent, retried, stopped and lost, every variable has its type: a
   task has a message, a handler executes a leased task and has an outcome exactly
   when it reports one (durable.py). *)
THEOREM RepliesTyped == Spec => [](TInv /\ TypeOK)
  <1>1. Init => TInv
    BY TInit
  <1>2. TInv /\ [Next]_vars => TInv'
    BY StepTyped
  <1>3. TInv => TypeOK
    BY DEF TInv
  <1> QED BY <1>1, <1>2, <1>3, PTL DEF Spec

-----------------------------------------------------------------------------
(* Replies nobody retries: one turn goes on, the others keep what they know *)

(* What q knows in turn t when its message is n, the deliveries x ran a tool and
   the message's events are j *)
Well(t, q, n, x, j) ==
  /\ Knows(q, n, Delivery(t))
  /\ RanOnce(t, q, x, j, lease[t])
  /\ Calm => Closes(q, n, j, tries[t], "leased")

(* A step of one turn keeps the invariant if it does so for that turn *)
LEMMA OneTurnGood ==
  ASSUME RInv, TInv', NEW t \in Turns, phase[t] # "absent", phase'[t] # "absent",
         UNCHANGED <<target, requests>>,
         \A u \in Turns \ {t} : /\ handlers'[u] = handlers[u] /\ runs'[u] = runs[u]
                                /\ phase'[u] = phase[u] /\ tries'[u] = tries[u]
                                /\ lease'[u] = lease[u],
         \A m \in Messages \ {target[t]} :
           messages'[m] = messages[m] /\ journal'[m] = journal[m],
         messages'[target[t]].status # "absent",
         messages[target[t]].status \in Ended => messages'[target[t]].status \in Ended,
         WellTold(messages'[target[t]]),
         GoodTurn(t)'
  PROVE  RInv'
  <1>1. target[t] \in Messages /\ target[t] # 0
    BY TurnFacts, BoundsAssumption DEF RInv, Messages
  <1> DEFINE present(m) == messages[m].status # "absent"
  <1>2. present(target[t])
    BY <1>1 DEF RInv, Linked
  <1>3. \A m \in Messages : messages'[m].status # "absent" => present(m)
    BY <1>1, <1>2
  <1>4. \A m \in Messages : present(m) => messages'[m].status # "absent"
    BY <1>1
  <1>5. Linked'
    <2>1. /\ \A v, u \in Turns : target[v] = target[u] /\ target[v] # 0 => v = u
          /\ \A m \in Messages : present(m) => \E u \in Turns : target[u] = m
          /\ \A u \in Turns : target[u] # 0 => present(target[u])
          /\ \A r \in Requests : requests[r].pc \in {"idle", "send"}
      BY DEF RInv, Linked
    <2>2. \A u \in Turns : target[u] # 0 => target[u] \in Messages
      BY BoundsAssumption DEF RInv, TInv, TypeOK, Messages
    <2>3. \A u \in Turns : target[u] # 0 => messages'[target[u]].status # "absent"
      BY <1>4, <2>1, <2>2
    <2>4. \A m \in Messages : messages'[m].status # "absent" => \E u \in Turns : target[u] = m
      BY <1>3, <2>1
    <2>5. \A u \in Turns : phase'[u] = "absent" => lease'[u] = 0
      BY DEF RInv, Linked
    <2> QED BY <2>1, <2>3, <2>4, <2>5 DEF Linked
  <1>6. \A m \in Messages : messages[m].status \in Ended => messages'[m].status \in Ended
    BY <1>1
  <1>7. InOrder'
    BY <1>3, <1>6 DEF RInv, InOrder
  <1>8. Texts'
    <2>1. \A m \in Messages \ {target[t]} : WellTold(messages'[m])
      BY DEF RInv, Texts
    <2> QED BY <2>1 DEF Texts
  <1>9. ASSUME NEW u \in Turns, u # t, phase'[u] # "absent"
        PROVE  GoodTurn(u)'
    <2>1. phase[u] # "absent" /\ GoodTurn(u)
      BY <1>9 DEF RInv
    <2>2. target[u] \in Messages
      BY <2>1, TurnFacts DEF RInv
    <2>3. target[u] # target[t]
      BY <1>9, <2>2, BoundsAssumption DEF RInv, Linked, Messages
    <2>4. messages'[target[u]] = messages[target[u]] /\ journal'[target[u]] = journal[target[u]]
      BY <2>2, <2>3
    <2> QED BY <1>9, <2>1, <2>4 DEF GoodTurn, MessageOf, Delivery
  <1> QED BY <1>5, <1>7, <1>8, <1>9 DEF RInv

(* ... in particular a step of its handler *)
LEMMA HandlerGood ==
  ASSUME RInv, TInv', NEW t \in Turns, phase[t] = "leased", NEW q, HandlerGoes(t, q),
         UNCHANGED <<queue, target, requests>>,
         NEW n, messages' = [messages EXCEPT ![target[t]] = n],
         n.status # "absent", MessageOf(t).status \in Ended => n.status \in Ended, WellTold(n),
         NEW j, journal' = [journal EXCEPT ![target[t]] = j],
         NEW x, runs' = [runs EXCEPT ![t] = x],
         Well(t, q, n, x, j)
  PROVE  RInv'
  <1>1. target[t] \in Messages
    BY TurnFacts DEF RInv
  <1>2. /\ handlers'[t] = q /\ runs'[t] = x /\ messages'[target[t]] = n /\ journal'[target[t]] = j
        /\ \A u \in Turns \ {t} : handlers'[u] = handlers[u] /\ runs'[u] = runs[u]
        /\ \A m \in Messages \ {target[t]} :
             messages'[m] = messages[m] /\ journal'[m] = journal[m]
    BY <1>1 DEF HandlerGoes, RInv, TInv, TypeOK
  <1>3. phase' = phase /\ tries' = tries /\ lease' = lease /\ target' = target
    BY DEF queue
  <1>4. GoodTurn(t)'
    <2>1. GoodTurn(t)
      BY DEF RInv
    <2> QED BY <1>2, <1>3, <2>1 DEF GoodTurn, Well, MessageOf, Delivery, Settles, Charged
  <1> QED BY <1>2, <1>3, <1>4, OneTurnGood DEF MessageOf

(* ... and one that changes the handler only *)
LEMMA QuietGood ==
  ASSUME RInv, TInv', NEW t \in Turns, phase[t] = "leased", NEW q, HandlerGoes(t, q),
         UNCHANGED <<messages, queue, target, requests, journal, runs>>,
         Well(t, q, MessageOf(t), runs[t], journal[target[t]])
  PROVE  RInv'
  <1>1. target[t] \in Messages
    BY TurnFacts DEF RInv
  <1>2. handlers'[t] = q /\ \A u \in Turns \ {t} : handlers'[u] = handlers[u]
    BY DEF HandlerGoes, RInv, TInv, TypeOK
  <1>3. /\ phase' = phase /\ tries' = tries /\ lease' = lease /\ target' = target
        /\ messages' = messages /\ journal' = journal /\ runs' = runs
    BY DEF queue
  <1>4. GoodTurn(t)'
    <2>1. GoodTurn(t)
      BY DEF RInv
    <2> QED BY <1>2, <1>3, <2>1 DEF GoodTurn, Well, MessageOf, Delivery, Settles, Charged
  <1>5. WellTold(messages[target[t]]) /\ messages[target[t]].status # "absent"
    BY <1>1, BoundsAssumption DEF RInv, Texts, Linked, Messages
  <1> QED BY <1>1, <1>2, <1>3, <1>4, <1>5, OneTurnGood

(* What the invariant says of a handler and its message *)
LEMMA ExecutingFacts ==
  ASSUME RInv, NEW t \in Turns, handlers[t].pc # "none"
  PROVE  /\ Fit(handlers[t]) /\ phase[t] = "leased" /\ target[t] \in Messages
         /\ MessageOf(t) \in Message /\ MessageOf(t).status \in Active \cup Ended
         /\ WellTold(MessageOf(t)) /\ MessageOf(t).status # "absent"
         /\ Knows(handlers[t], MessageOf(t), Delivery(t))
         /\ RanOnce(t, handlers[t], runs[t], journal[target[t]], lease[t])
         /\ Calm => Closes(handlers[t], MessageOf(t), journal[target[t]], tries[t], "leased")
         /\ lease[t] \in Nat /\ lease[t] >= 1 /\ tries[t] \in Nat /\ Charged(lease[t], tries[t])
         /\ Delivery(t) \in Deliveries
  <1>1. /\ Fit(handlers[t]) /\ phase[t] = "leased" /\ target[t] \in Messages
        /\ MessageOf(t) \in Message /\ Delivery(t) \in Deliveries
    BY TurnFacts DEF RInv
  <1>2. target[t] # 0
    BY <1>1, BoundsAssumption DEF Messages
  <1>3. MessageOf(t).status # "absent" /\ WellTold(MessageOf(t))
    BY <1>1, <1>2 DEF RInv, Linked, Texts, MessageOf
  <1>4. MessageOf(t).status \in Active \cup Ended
    BY <1>1, <1>3 DEF Message
  <1>5. GoodTurn(t)
    BY <1>1 DEF RInv
  <1>6. lease[t] \in Nat /\ lease[t] >= 1 /\ tries[t] \in Nat
    BY <1>1, BoundsAssumption DEF RInv, TInv, TypeOK, Queue!TypeOK
  <1> QED BY <1>1, <1>3, <1>4, <1>5, <1>6 DEF GoodTurn

(* Between two deliveries, and at the end of one *)
LEMMA RestingFields ==
  /\ NoHandler.pc = "none" /\ NoHandler.purpose = "none" /\ NoHandler.change = "none"
  /\ NoHandler.tool = "none" /\ NoHandler.said = FALSE /\ NoHandler.outcome = "none"
  /\ Settling.pc = "settle" /\ Settling.purpose = "none" /\ Settling.change = "none"
  /\ Settling.tool = "none" /\ Settling.said = FALSE /\ Settling.outcome = "none"
  /\ \A o \in Outcomes :
       /\ Reporting(o).pc = "report" /\ Reporting(o).purpose = "none"
       /\ Reporting(o).change = "none" /\ Reporting(o).tool = "none"
       /\ Reporting(o).said = FALSE /\ Reporting(o).outcome = o
  <1>1. /\ NoHandler.pc = "none" /\ NoHandler.purpose = "none" /\ NoHandler.change = "none"
        /\ NoHandler.tool = "none" /\ NoHandler.said = FALSE /\ NoHandler.outcome = "none"
    BY DEF NoHandler
  <1>2. /\ Settling.pc = "settle" /\ Settling.purpose = "none" /\ Settling.change = "none"
        /\ Settling.tool = "none" /\ Settling.said = FALSE /\ Settling.outcome = "none"
    BY DEF NoHandler, Settling
  <1>3. ASSUME NEW o \in Outcomes
        PROVE  /\ Reporting(o).pc = "report" /\ Reporting(o).purpose = "none"
               /\ Reporting(o).change = "none" /\ Reporting(o).tool = "none"
               /\ Reporting(o).said = FALSE /\ Reporting(o).outcome = o
    BY DEF NoHandler, Reporting
  <1> QED BY <1>1, <1>2, <1>3

(* A delivery that is gone, settles or reports *)
LEMMA RestsWell ==
  ASSUME RInv, NEW t \in Turns, handlers[t].pc # "none", NEW n, NEW j,
         journal[target[t]] \subseteq j
  PROVE  /\ Well(t, NoHandler, n, runs[t], j)
         /\ n.status \in Ended /\ (Calm => Told(n, j)) => Well(t, Settling, n, runs[t], j)
         /\ \A o \in Outcomes :
              /\ o = "done" => n.status = "completed"
              /\ o = "cancelled" => n.status = "stopped"
              /\ Calm /\ o # "retryable" => n.status \in Ended /\ Told(n, j)
              /\ Calm /\ o = "retryable" => tries[t] < MaxAttempts
              => Well(t, Reporting(o), n, runs[t], j)
  <1>1. /\ \A e \in runs[t] : Started(<<t, e>>, j)
        /\ MaxAttempts > 1 => \A e, f \in runs[t] : e = f
    <2>1. RanOnce(t, handlers[t], runs[t], journal[target[t]], lease[t])
      BY ExecutingFacts
    <2>2. \A e \in runs[t] : Started(<<t, e>>, journal[target[t]])
      BY <2>1 DEF RanOnce
    <2>3. ASSUME NEW e \in runs[t] PROVE Started(<<t, e>>, j)
      BY <2>2 DEF Started
    <2> QED BY <2>1, <2>3 DEF RanOnce
  <1>2. Well(t, NoHandler, n, runs[t], j)
    BY <1>1, RestingFields DEF Well, Knows, Talking, RanOnce, MayRun, Closes, Queue!Settled
  <1>3. n.status \in Ended /\ (Calm => Told(n, j)) => Well(t, Settling, n, runs[t], j)
    BY <1>1, RestingFields DEF Well, Knows, Talking, RanOnce, MayRun, Closes, Queue!Settled
  <1>4. ASSUME NEW o \in Outcomes,
               /\ o = "done" => n.status = "completed"
               /\ o = "cancelled" => n.status = "stopped"
               /\ Calm /\ o # "retryable" => n.status \in Ended /\ Told(n, j)
               /\ Calm /\ o = "retryable" => tries[t] < MaxAttempts
        PROVE  Well(t, Reporting(o), n, runs[t], j)
    <2> DEFINE q == Reporting(o)
    <2>1. /\ q.pc = "report" /\ q.purpose = "none" /\ q.change = "none" /\ q.tool = "none"
          /\ q.said = FALSE /\ q.outcome = o
      BY RestingFields
    <2> HIDE DEF q
    <2>2. Knows(q, n, Delivery(t))
      BY <1>4, <2>1 DEF Knows, Talking
    <2>3. RanOnce(t, q, runs[t], j, lease[t])
      BY <1>1, <2>1 DEF RanOnce, MayRun
    <2>4. Calm => Closes(q, n, j, tries[t], "leased")
      BY <1>4, <2>1 DEF Closes, Queue!Settled, Outcomes
    <2> QED BY <2>2, <2>3, <2>4 DEF Well, q
  <1> QED BY <1>2, <1>3, <1>4

(* A change begins that is no event of the runtime *)
LEMMA PersistsWell ==
  ASSUME RInv, NEW t \in Turns, handlers[t].pc \notin {"none", "report"},
         NEW p, NEW c, ChangeOf(p, c), p # "event",
         p \notin {"stop again", "unwind", "give up"} => MessageOf(t).status \in Active,
         Calm /\ p # "unwind" => MessageOf(t).status \in Active /\ p # "stop again",
         p \in {"restart", "refuse"} => ~handlers[t].said,
         p = "restart" /\ MaxAttempts > 1 => runs[t] \subseteq {lease[t]}
  PROVE  Well(t, Persisting(handlers[t], p, c), MessageOf(t), runs[t], journal[target[t]])
  <1> DEFINE h == handlers[t]
             q == Persisting(h, p, c)
  <1>1. /\ Fit(h) /\ h.outcome = "none"
        /\ RanOnce(t, h, runs[t], journal[target[t]], lease[t])
    BY ExecutingFacts DEF Fit
  <1>2. GoneOn(q, h, "read", p, c, h.image)
    BY <1>1, PersistingFits
  <1> HIDE DEF q
  <1>3. Knows(q, MessageOf(t), Delivery(t))
    BY <1>1, <1>2 DEF Knows, GoneOn, Talking, ChangeOf
  <1>4. RanOnce(t, q, runs[t], journal[target[t]], lease[t])
    BY <1>1, <1>2 DEF RanOnce, GoneOn, MayRun
  <1>5. Calm => Closes(q, MessageOf(t), journal[target[t]], tries[t], "leased")
    BY <1>1, <1>2 DEF Closes, GoneOn, Queue!Settled
  <1> QED BY <1>3, <1>4, <1>5 DEF Well, q

(* An attempt fails *)
LEMMA FailsWell ==
  ASSUME RInv, NEW t \in Turns, handlers[t].pc \notin {"none", "report"},
         Calm => MessageOf(t).status \in Active
  PROVE  Well(t, Failing(t), MessageOf(t), runs[t], journal[target[t]])
  <1>1. TInv /\ Fit(handlers[t])
    BY ExecutingFacts DEF RInv
  <1>2. CASE Failing(t) = Reporting("retryable") /\ tries[t] < MaxAttempts
    BY <1>2, RestsWell DEF Outcomes
  <1>3. CASE Failing(t) = Persisting(handlers[t], "give up", "failed")
    BY <1>3, PersistsWell DEF ChangeOf
  <1> QED BY <1>1, <1>2, <1>3, FailingFits

(* The steps of a handler, each in a lemma of its own *)
LEMMA LoadGood ==
  ASSUME RInv, TInv', NEW t \in Turns, Load(t)
  PROVE  RInv'
  <1> DEFINE h == handlers[t]
             msg == MessageOf(t)
             ran == runs[t]
             events == journal[target[t]]
  <1>1. /\ Fit(h) /\ h.pc = "load" /\ h.purpose = "none" /\ phase[t] = "leased"
        /\ msg \in Message /\ ~h.said /\ h.outcome = "none"
        /\ RanOnce(t, h, ran, events, lease[t])
        /\ UNCHANGED <<messages, queue, target, requests, journal, runs>>
    BY ExecutingFacts DEF Load, Fit, Shaped, Knows, Others
  <1>2. CASE msg.status \in Ended /\ HandlerGoes(t, AnnouncedAgain(h, msg))
    <2> DEFINE q == AnnouncedAgain(h, msg)
    <2>1. GoneOn(q, h, "publish", "republish", msg.status, msg)
      BY <1>1, <1>2, PublishingFits DEF AnnouncedAgain
    <2> HIDE DEF q
    <2>2. Well(t, q, msg, ran, events)
      BY <1>1, <1>2, <2>1
      DEF Well, GoneOn, Knows, Talking, RanOnce, MayRun, Closes, Queue!Settled, Ended
    <2> QED BY <1>1, <1>2, <2>2, QuietGood DEF q
  <1>3. CASE msg.status \in Active /\ HandlerGoes(t, StoppedFirst(h))
    <2>1. Well(t, StoppedFirst(h), msg, ran, events)
      BY <1>1, <1>3, PersistsWell DEF ChangeOf, StoppedFirst
    <2> QED BY <1>1, <1>3, <2>1, QuietGood
  <1>4. CASE msg.status \in Active /\ HandlerGoes(t, [h EXCEPT !.pc = "recover", !.image = msg])
    <2> DEFINE q == [h EXCEPT !.pc = "recover", !.image = msg]
    <2>1. GoneOn(q, h, "recover", "none", h.change, msg)
      BY <1>1 DEF Fit, Handler, GoneOn
    <2> HIDE DEF q
    <2>2. Well(t, q, msg, ran, events)
      BY <1>1, <1>4, <2>1
      DEF Well, GoneOn, Knows, Talking, RanOnce, MayRun, Closes, Queue!Settled
    <2> QED BY <1>1, <1>4, <2>2, QuietGood DEF q
  <1>5. CASE msg.status \in Active /\ ~Repeated(t) /\ HandlerGoes(t, Beginning(h, msg))
    <2> DEFINE q == Beginning(h, msg)
    <2>1. GoneOn(q, h, "begin", "none", "none", msg)
      BY <1>1, BeginningFits
    <2> HIDE DEF q
    <2>2. MaxAttempts > 1 => lease[t] = 1
      BY <1>1, <1>5, ExecutingFacts DEF Charged, Repeated
    <2>3. MaxAttempts > 1 => ran \subseteq {lease[t]}
      <3>1. ran \subseteq 1..lease[t]
        BY DEF RInv, TInv, TypeOK
      <3> QED BY <2>2, <3>1
    <2>4. Well(t, q, msg, ran, events)
      BY <1>1, <1>5, <2>1, <2>3
      DEF Well, GoneOn, Knows, Talking, RanOnce, MayRun, Closes, Queue!Settled
    <2> QED BY <1>1, <1>5, <2>4, QuietGood DEF q
  <1> QED BY <1>2, <1>3, <1>4, <1>5 DEF Load

LEMMA RecoverGood ==
  ASSUME RInv, TInv', NEW t \in Turns, Recover(t)
  PROVE  RInv'
  <1> DEFINE h == handlers[t]
             m == target[t]
             msg == MessageOf(t)
             ran == runs[t]
             events == journal[m]
  <1>1. /\ h.pc = "recover" /\ phase[t] = "leased" /\ m \in Messages
        /\ WellTold(msg) /\ msg.status # "absent" /\ msg.status \in Active /\ ~h.said
        /\ Knows(h, msg, Delivery(t)) /\ RanOnce(t, h, ran, events, lease[t])
        /\ Calm => Closes(h, msg, events, tries[t], "leased")
        /\ UNCHANGED <<messages, queue, target, requests, runs>>
    BY ExecutingFacts DEF Recover, Knows
  <1>2. CASE /\ CallsIn(m, {"toolstarted"}) = {}
             /\ HandlerGoes(t, Persisting(h, "restart", "restart")) /\ UNCHANGED journal
    <2>1. ran = {}
      <3>1. \A c : ~Started(c, events)
        BY <1>2 DEF CallsIn, Started
      <3> QED BY <1>1, <3>1 DEF RanOnce
    <2>2. Well(t, Persisting(h, "restart", "restart"), msg, ran, events)
      BY <1>1, <2>1, PersistsWell DEF ChangeOf
    <2> QED BY <1>1, <1>2, <2>2, QuietGood
  <1>3. CASE HandlerGoes(t, Persisting(h, "refuse", "failed")) /\ UNCHANGED journal
    <2>1. Well(t, Persisting(h, "refuse", "failed"), msg, ran, events)
      BY <1>1, PersistsWell DEF ChangeOf
    <2> QED BY <1>1, <1>3, <2>1, QuietGood
  <1>4. ASSUME NEW call \in Unresolved(m), Append(t, EventOf(t, "toolfailed", h.image, call)),
               UNCHANGED handlers
        PROVE  RInv'
    <2> DEFINE j == events \cup {EventOf(t, "toolfailed", h.image, call)}
    <2>1. /\ journal' = [journal EXCEPT ![m] = j] /\ HandlerGoes(t, h)
          /\ messages' = [messages EXCEPT ![m] = msg] /\ runs' = [runs EXCEPT ![t] = ran]
      BY <1>1, <1>4 DEF Append, HandlerGoes, MessageOf, RInv, TInv, TypeOK
    <2>2. events \subseteq j
      OBVIOUS
    <2> HIDE DEF j
    <2>3. RanOnce(t, h, ran, j, lease[t])
      BY <1>1, <2>2 DEF RanOnce, Started
    <2>4. Calm => Closes(h, msg, j, tries[t], "leased")
      BY <1>1, <2>2 DEF Closes, Told
    <2> QED BY <1>1, <2>1, <2>3, <2>4, HandlerGood DEF Well
  <1> QED BY <1>2, <1>3, <1>4 DEF Recover

LEMMA BeginGood ==
  ASSUME RInv, TInv', NEW t \in Turns, Begin(t)
  PROVE  RInv'
  <1> DEFINE h == handlers[t]
             msg == MessageOf(t)
             ran == runs[t]
             events == journal[target[t]]
  <1>1. /\ Fit(h) /\ h.pc = "begin" /\ h.outcome = "none" /\ phase[t] = "leased"
        /\ target[t] \in Messages /\ WellTold(msg) /\ msg.status # "absent"
        /\ msg.status \in Active /\ h.image = msg /\ ~h.said
        /\ RanOnce(t, h, ran, events, lease[t])
        /\ UNCHANGED <<messages, queue, target, requests, runs>>
    BY ExecutingFacts DEF Begin, Knows, Fit
  <1>2. CASE h.image.status = "pending"
    <2> DEFINE j == events \cup {EventOf(t, "started", h.image, Nobody)}
               q == Streaming(h)
    <2>1. /\ journal' = [journal EXCEPT ![target[t]] = j] /\ HandlerGoes(t, q)
          /\ messages' = [messages EXCEPT ![target[t]] = msg]
          /\ runs' = [runs EXCEPT ![t] = ran]
      BY <1>1, <1>2 DEF Begin, Append, MessageOf, RInv, TInv, TypeOK
    <2>2. events \subseteq j
      OBVIOUS
    <2>3. GoneOn(q, h, "stream", "none", "none", AbsentMessage)
      BY <1>1, StreamingFits
    <2> HIDE DEF j, q
    <2>4. Knows(q, msg, Delivery(t))
      BY <1>1, <1>2, <2>3 DEF GoneOn, Knows, Talking, WellTold
    <2>5. RanOnce(t, q, ran, j, lease[t])
      BY <1>1, <2>2, <2>3 DEF GoneOn, RanOnce, Started, MayRun
    <2>6. Calm => Closes(q, msg, j, tries[t], "leased")
      BY <1>1, <2>3 DEF GoneOn, Closes, Queue!Settled
    <2> QED BY <1>1, <2>1, <2>4, <2>5, <2>6, HandlerGood DEF Well
  <1>3. CASE h.image.status # "pending"
    <2>1. HandlerGoes(t, Failing(t)) /\ UNCHANGED journal
      BY <1>3 DEF Begin
    <2>2. Well(t, Failing(t), msg, ran, events)
      BY <1>1, FailsWell
    <2> QED BY <1>1, <2>1, <2>2, QuietGood
  <1> QED BY <1>2, <1>3

LEMMA StreamGood ==
  ASSUME RInv, TInv', NEW t \in Turns, NEW c \in Kinds, Stream(t, c)
  PROVE  RInv'
  <1> DEFINE h == handlers[t]
             msg == MessageOf(t)
             ran == runs[t]
             events == journal[target[t]]
  <1>1. /\ Fit(h) /\ h.pc = "stream" /\ h.outcome = "none" /\ phase[t] = "leased"
        /\ msg.status \in Active /\ msg.text \subseteq {Delivery(t)}
        /\ h.said => Delivery(t) \in msg.text
        /\ RanOnce(t, h, ran, events, lease[t])
        /\ UNCHANGED <<messages, queue, target, requests, journal, runs>>
    BY ExecutingFacts DEF Stream, Knows, Talking, Fit, Others
  <1>2. CASE HandlerGoes(t, Persisting(h, "stop", "stopped"))
    <2>1. Well(t, Persisting(h, "stop", "stopped"), msg, ran, events)
      BY <1>1, PersistsWell DEF ChangeOf
    <2> QED BY <1>1, <1>2, <2>1, QuietGood
  <1>3. CASE HandlerGoes(t, [Persisting(h, "event", c) EXCEPT !.said = @ \/ c = "delta"])
    <2> DEFINE said == h.said \/ c = "delta"
               q == [Persisting(h, "event", c) EXCEPT !.said = said]
    <2>1. c \in {"delta"} \cup ToolKinds \cup Ended /\ (c = "completed" => h.said)
      BY DEF Stream, MayYield, Kinds
    <2>2. GoneOn(Persisting(h, "event", c), h, "read", "event", c, h.image)
      BY <1>1, <2>1, PersistingFits DEF ChangeOf
    <2>3. HandlerGoes(t, q)
      BY <1>3, <2>2 DEF GoneOn
    <2>4. /\ q.pc = "read" /\ q.purpose = "event" /\ q.change = c /\ q.tool = h.tool
          /\ q.outcome = "none" /\ q.said = said
      BY <1>1, <2>2 DEF GoneOn, Handler
    <2> HIDE DEF q
    <2>5. Knows(q, msg, Delivery(t))
      BY <1>1, <2>1, <2>4 DEF Knows, Talking
    <2>6. RanOnce(t, q, ran, events, lease[t])
      BY <1>1, <2>4 DEF RanOnce, MayRun
    <2>7. Calm => Closes(q, msg, events, tries[t], "leased")
      BY <1>1, <2>4 DEF Closes, Queue!Settled
    <2> QED BY <1>1, <2>3, <2>5, <2>6, <2>7, QuietGood DEF Well
  <1> QED BY <1>2, <1>3 DEF Stream

(* A tool runs *)
LEMMA RunToolGood ==
  ASSUME RInv, TInv', NEW t \in Turns, RunTool(t)
  PROVE  RInv'
  <1> DEFINE h == handlers[t]
             msg == MessageOf(t)
             events == journal[target[t]]
             q == [h EXCEPT !.tool = "ran"]
             x == runs[t] \cup {lease[t]}
  <1>1. /\ Fit(h) /\ h.pc = "stream" /\ h.tool = "announced" /\ phase[t] = "leased"
        /\ WellTold(msg) /\ msg.status # "absent"
        /\ Knows(h, msg, Delivery(t)) /\ RanOnce(t, h, runs[t], events, lease[t])
        /\ Calm => Closes(h, msg, events, tries[t], "leased")
        /\ UNCHANGED <<queue, target, requests>>
    BY ExecutingFacts DEF RunTool
  <1>2. /\ q.pc = h.pc /\ q.purpose = h.purpose /\ q.change = h.change /\ q.image = h.image
        /\ q.tool = "ran" /\ q.said = h.said /\ q.outcome = h.outcome
    BY <1>1 DEF Fit, Handler
  <1>3. /\ HandlerGoes(t, q) /\ messages' = [messages EXCEPT ![target[t]] = msg]
        /\ journal' = [journal EXCEPT ![target[t]] = events]
        /\ runs' = [runs EXCEPT ![t] = x]
    BY DEF RunTool, MessageOf, RInv, TInv, TypeOK
  <1> HIDE DEF q
  <1>4. Knows(q, msg, Delivery(t))
    BY <1>1, <1>2 DEF Knows, Talking
  <1>5. RanOnce(t, q, x, events, lease[t])
    BY <1>1, <1>2 DEF RanOnce, MayRun
  <1>6. Calm => Closes(q, msg, events, tries[t], "leased")
    BY <1>1, <1>2 DEF Closes
  <1> QED BY <1>1, <1>3, <1>4, <1>5, <1>6, HandlerGood DEF Well

LEMMA ReadGood ==
  ASSUME RInv, TInv', NEW t \in Turns, Read(t)
  PROVE  RInv'
  <1> DEFINE h == handlers[t]
             msg == MessageOf(t)
             ran == runs[t]
             events == journal[target[t]]
  <1>1. /\ Fit(h) /\ h.pc = "read" /\ h.purpose \in Writes /\ h.outcome = "none"
        /\ phase[t] = "leased" /\ msg \in Message
        /\ Knows(h, msg, Delivery(t)) /\ RanOnce(t, h, ran, events, lease[t])
        /\ Calm => Closes(h, msg, events, tries[t], "leased")
        /\ UNCHANGED <<messages, queue, target, requests, journal, runs>>
    BY ExecutingFacts DEF Read, Fit, Shaped, Others
  <1>2. CASE msg.status \in Ended /\ HandlerGoes(t, OnEnded(t))
    <2>1. msg.status \notin Active
      BY <1>2 DEF Ended, Active
    <2>2. h.purpose \in {"stop again", "unwind", "give up"} /\ (Calm => h.purpose = "unwind")
      BY <1>1, <2>1 DEF Knows, Closes
    <2>3. Well(t, OnEnded(t), msg, ran, events)
      BY <1>1, <1>2, <2>2, OnEndedFits, RestsWell DEF Outcomes, RInv
    <2> QED BY <1>1, <1>2, <2>3, QuietGood
  <1>3. CASE /\ msg.status \in Active /\ h.change \in ToolKinds
             /\ HandlerGoes(t, Publishing(h, h.purpose, h.change, msg))
    <2> DEFINE q == Publishing(h, h.purpose, h.change, msg)
    <2>1. h.purpose = "event" /\ ChangeOf(h.purpose, h.change)
      BY <1>1, <1>3 DEF ChangeOf, Fit, Shaped, Writes, ToolKinds, Ended
    <2>2. GoneOn(q, h, "publish", h.purpose, h.change, msg)
      BY <1>1, <2>1, PublishingFits
    <2> HIDE DEF q
    <2>3. h.change \notin Ended /\ h.change # "delta"
      BY <1>3 DEF ToolKinds, Ended
    <2>4. Knows(q, msg, Delivery(t))
      BY <1>1, <1>3, <2>1, <2>2, <2>3 DEF GoneOn, Knows, Talking
    <2>5. RanOnce(t, q, ran, events, lease[t])
      BY <1>1, <2>1, <2>2 DEF GoneOn, RanOnce, MayRun
    <2>6. Calm => Closes(q, msg, events, tries[t], "leased")
      BY <1>1, <2>2 DEF GoneOn, Closes, Queue!Settled
    <2> QED BY <1>1, <1>3, <2>4, <2>5, <2>6, QuietGood DEF Well, q
  <1>4. CASE /\ msg.status \in Active /\ h.change \notin ToolKinds
             /\ HandlerGoes(t, [h EXCEPT !.pc = "write",
                                         !.image = Changed(msg, h.change, Delivery(t))])
    <2> DEFINE i == Changed(msg, h.change, Delivery(t))
               q == [h EXCEPT !.pc = "write", !.image = i]
    <2> HIDE DEF i
    <2>1. /\ q.pc = "write" /\ q.purpose = h.purpose /\ q.change = h.change
          /\ q.image = i /\ q.said = h.said /\ q.tool = h.tool /\ q.outcome = "none"
      BY <1>1 DEF Fit, Handler
    <2>2. HandlerGoes(t, q)
      BY <1>4 DEF i
    <2> HIDE DEF q
    <2>3. Knows(q, msg, Delivery(t))
      BY <1>1, <1>4, <2>1 DEF Knows, Talking, i
    <2>4. RanOnce(t, q, ran, events, lease[t])
      BY <1>1, <2>1 DEF RanOnce, MayRun
    <2>5. Calm => Closes(q, msg, events, tries[t], "leased")
      BY <1>1, <2>1 DEF Closes, Queue!Settled
    <2> QED BY <1>1, <2>2, <2>3, <2>4, <2>5, QuietGood DEF Well
  <1> QED BY <1>2, <1>3, <1>4 DEF Read

LEMMA WriteGood ==
  ASSUME RInv, TInv', NEW t \in Turns, Write(t)
  PROVE  RInv'
  <1> DEFINE h == handlers[t]
             msg == MessageOf(t)
             ran == runs[t]
             events == journal[target[t]]
             d == Delivery(t)
             n == Changed(msg, h.change, d)
  <1>1. /\ Fit(h) /\ h.pc = "write" /\ h.purpose \in Writes /\ h.outcome = "none"
        /\ h.change \in {"restart", "delta"} \cup Ended
        /\ phase[t] = "leased" /\ msg \in Message /\ d \in Deliveries
        /\ msg.status \in Active /\ h.image = n
        /\ Knows(h, msg, d) /\ RanOnce(t, h, ran, events, lease[t])
        /\ UNCHANGED <<queue, target, requests>>
    <2>1. /\ Fit(h) /\ h.pc = "write" /\ phase[t] = "leased" /\ msg \in Message /\ d \in Deliveries
          /\ Knows(h, msg, d) /\ RanOnce(t, h, ran, events, lease[t])
      BY ExecutingFacts DEF Write
    <2>2. h.purpose \in Writes /\ h.outcome = "none" /\ h.change \in {"restart", "delta"} \cup Ended
      BY <2>1 DEF Fit, Shaped, Writes, ToolKinds, Ended
    <2> QED BY <2>1, <2>2 DEF Knows, Write
  <1>2. /\ messages' = [messages EXCEPT ![target[t]] = n]
        /\ journal' = [journal EXCEPT ![target[t]] = events]
        /\ runs' = [runs EXCEPT ![t] = ran]
    BY <1>1 DEF Write, RInv, TInv, TypeOK
  <1>3. /\ h.change = "restart" => n.status = "pending" /\ n.text = {}
        /\ h.change = "delta" => n.status = "streaming" /\ n.text = msg.text \cup {d}
        /\ h.change \in Ended => n.status = h.change /\ n.text = msg.text
    BY <1>1 DEF Changed, PendingMessage, Message, Ended
  <1>4. n.status # "absent" /\ (msg.status \in Ended => n.status \in Ended)
    BY <1>1, <1>3 DEF Active, Ended
  <1>5. WellTold(n)
    <2>1. CASE h.change = "restart"
      BY <1>3, <2>1 DEF WellTold
    <2>2. CASE h.change = "delta"
      BY <1>3, <2>2 DEF WellTold
    <2>3. CASE h.change = "completed"
      <3>1. h.purpose = "event" /\ h.said
        BY <1>1, <2>3 DEF Fit, Shaped, Writes, Knows
      <3>2. msg.text \subseteq {d} /\ d \in msg.text
        BY <1>1, <2>3, <3>1 DEF Knows, Talking
      <3>3. n.text = {d} /\ n.status = "completed"
        BY <1>3, <2>3, <3>2 DEF Ended
      <3> QED BY <3>3 DEF WellTold
    <2>4. CASE h.change \in {"failed", "stopped"}
      BY <1>3, <2>4 DEF WellTold, Ended
    <2> QED BY <1>1, <2>1, <2>2, <2>3, <2>4 DEF Ended
  <1> HIDE DEF n, d
  <1>6. CASE h.purpose = "restart"
    <2> DEFINE q == Beginning(h, h.image)
    <2>1. h.change = "restart" /\ h.image \in Message
      BY <1>1, <1>6 DEF Fit, Shaped, Handler
    <2>2. GoneOn(q, h, "begin", "none", "none", n) /\ HandlerGoes(t, q)
      BY <1>1, <1>6, <2>1, BeginningFits DEF Write
    <2> HIDE DEF q
    <2>3. Knows(q, n, d)
      BY <1>1, <1>3, <1>6, <2>1, <2>2 DEF GoneOn, Knows, Talking, Active
    <2>4. RanOnce(t, q, ran, events, lease[t])
      BY <1>1, <1>6, <2>2 DEF GoneOn, RanOnce, MayRun
    <2>5. Calm => Closes(q, n, events, tries[t], "leased")
      BY <1>1, <2>2 DEF GoneOn, Closes, Queue!Settled
    <2> QED BY <1>1, <1>2, <1>4, <1>5, <2>2, <2>3, <2>4, <2>5, HandlerGood DEF Well, d
  <1>7. CASE h.purpose # "restart"
    <2> DEFINE q == [h EXCEPT !.pc = "publish"]
    <2>1. HandlerGoes(t, q)
      BY <1>7 DEF Write
    <2>2. GoneOn(q, h, "publish", h.purpose, h.change, n)
      BY <1>1 DEF GoneOn, Fit, Handler
    <2> HIDE DEF q
    <2>3. h.change # "restart"
      BY <1>1, <1>7 DEF Fit, Shaped, Writes, ToolKinds, Ended
    <2>4. /\ IF h.change \in Ended THEN n.status = h.change ELSE n.status \in Active
          /\ Talking(h) => n.text \subseteq {d} /\ (h.said => d \in n.text)
      BY <1>1, <1>3, <2>3 DEF Knows, Talking, Active, Ended
    <2>5. /\ q.pc = "publish" /\ q.purpose = h.purpose /\ q.change = h.change /\ q.image = n
          /\ q.said = h.said /\ q.outcome = "none"
      BY <1>1, <2>2 DEF GoneOn
    <2>6. h.purpose \in {"restart", "refuse"} => ~h.said
      BY <1>1 DEF Knows
    <2>7. Knows(q, n, d)
      BY <2>4, <2>5, <2>6 DEF Knows, Talking
    <2>8. RanOnce(t, q, ran, events, lease[t])
      BY <1>1, <1>7, <2>2 DEF GoneOn, RanOnce, MayRun
    <2>9. Calm => Closes(q, n, events, tries[t], "leased")
      BY <1>1, <2>2 DEF GoneOn, Closes, Queue!Settled
    <2> QED BY <1>1, <1>2, <1>4, <1>5, <2>1, <2>7, <2>8, <2>9, HandlerGood DEF Well, d
  <1> QED BY <1>6, <1>7

(* The outcome is read from the status *)
LEMMA StatusReported ==
  ASSUME NEW status \in Ended
  PROVE  /\ StatusOutcome(status) \in Outcomes /\ StatusOutcome(status) # "retryable"
         /\ StatusOutcome(status) = "done" => status = "completed"
         /\ StatusOutcome(status) = "cancelled" => status = "stopped"
  BY DEF StatusOutcome, Outcomes, Ended

LEMMA PublishGood ==
  ASSUME RInv, TInv', NEW t \in Turns, Publish(t)
  PROVE  RInv'
  <1> DEFINE h == handlers[t]
             msg == MessageOf(t)
             ran == runs[t]
             events == journal[target[t]]
             call == IF h.change \in ToolKinds THEN Delivery(t) ELSE Nobody
             e == EventOf(t, h.change, h.image, call)
             j == events \cup {e}
             q == OnPublished(h)
  <1>1. /\ Fit(h) /\ h.pc = "publish" /\ h.outcome = "none" /\ phase[t] = "leased"
        /\ target[t] \in Messages /\ WellTold(msg) /\ msg.status # "absent"
        /\ Knows(h, msg, Delivery(t)) /\ RanOnce(t, h, ran, events, lease[t])
        /\ UNCHANGED <<messages, queue, target, requests, runs>>
    BY ExecutingFacts DEF Publish, Fit
  <1>2. /\ h.purpose \in (Writes \ {"restart"}) \cup {"republish"}
        /\ h.purpose = "event" => h.change \in {"delta"} \cup ToolKinds \cup Ended
        /\ h.purpose # "event" => h.change \in Ended
        /\ h.purpose \in {"stop first", "stop", "stop again", "unwind"} => h.change = "stopped"
        /\ h.purpose \in {"refuse", "give up"} => h.change = "failed"
    BY <1>1 DEF Fit, Shaped, Writes, Ended
  <1>3. /\ h.image = msg /\ (h.change \in Ended => msg.status = h.change)
        /\ h.change \notin Ended => msg.status \in Active
    BY <1>1 DEF Knows
  <1>4. /\ journal' = [journal EXCEPT ![target[t]] = j] /\ HandlerGoes(t, q)
        /\ messages' = [messages EXCEPT ![target[t]] = msg]
        /\ runs' = [runs EXCEPT ![t] = ran]
    BY <1>1 DEF Publish, Append, MessageOf, RInv, TInv, TypeOK
  <1>5. e \in j /\ e.kind = h.change /\ e.stamp = h.image.stamp /\ e.call = call
    BY DEF EventOf
  <1> HIDE DEF e
  <1>6. h.change \in Ended => Told(msg, j)
    BY <1>3, <1>5 DEF Told
  <1>7. events \subseteq j
    OBVIOUS
  <1>8. h.change = "toolstarted" => Started(<<t, lease[t]>>, j)
    BY <1>5 DEF Started, ToolKinds, Delivery
  <1> HIDE DEF j, q
  <1>9. Well(t, q, msg, ran, j)
    <2>1. CASE h.purpose = "event" /\ h.change \in Ended
      BY <1>1, <1>3, <1>6, <1>7, <2>1, OnPublishedFits, RestsWell DEF q
    <2>2. CASE h.purpose \in {"stop", "stop again"}
      <3>1. msg.status = "stopped" /\ msg.status \in Ended /\ Told(msg, j)
        BY <1>2, <1>3, <1>6, <2>2 DEF Ended
      <3>2. q = Settling
        BY <1>1, <2>2, OnPublishedFits DEF q
      <3> QED BY <1>1, <1>7, <3>1, <3>2, RestsWell DEF Outcomes
    <2>3. CASE h.purpose = "stop first"
      <3>1. msg.status = "stopped" /\ msg.status \in Ended /\ Told(msg, j)
        BY <1>2, <1>3, <1>6, <2>3 DEF Ended
      <3>2. q = Reporting("cancelled")
        BY <1>1, <2>3, OnPublishedFits DEF q
      <3> QED BY <1>1, <1>7, <3>1, <3>2, RestsWell DEF Outcomes
    <2>4. CASE h.purpose \in {"refuse", "give up"}
      <3>1. msg.status = "failed" /\ msg.status \in Ended /\ Told(msg, j)
        BY <1>2, <1>3, <1>6, <2>4 DEF Ended
      <3>2. q = Reporting("fatal")
        BY <1>1, <2>4, OnPublishedFits DEF q
      <3> QED BY <1>1, <1>7, <3>1, <3>2, RestsWell DEF Outcomes
    <2>5. CASE h.purpose = "republish"
      <3>1. q = Reporting(StatusOutcome(msg.status)) /\ msg.status \in Ended /\ Told(msg, j)
        BY <1>1, <1>2, <1>3, <1>6, <2>5, OnPublishedFits DEF q
      <3> QED BY <1>1, <1>7, <3>1, StatusReported, RestsWell
    <2>6. CASE h.purpose = "unwind"
      BY <1>1, <1>7, <2>6, OnPublishedFits, RestsWell DEF q
    <2>7. CASE h.purpose = "event" /\ h.change \notin Ended
      <3>1. /\ q.pc = "stream" /\ q.purpose = "none" /\ q.said = h.said /\ q.outcome = "none"
            /\ q.tool = "announced" =>
                 h.change = "toolstarted" \/ (h.tool = "announced" /\ h.change = "delta")
        BY <1>1, <2>7, OnPublishedFits DEF q
      <3>2. Knows(q, msg, Delivery(t))
        BY <1>1, <1>3, <2>7, <3>1 DEF Knows, Talking
      <3>3. RanOnce(t, q, ran, j, lease[t])
        BY <1>1, <1>7, <1>8, <2>7, <3>1 DEF RanOnce, MayRun, Started
      <3>4. Calm => Closes(q, msg, j, tries[t], "leased")
        BY <3>1 DEF Closes, Queue!Settled
      <3> QED BY <3>2, <3>3, <3>4 DEF Well
    <2> QED BY <1>2, <2>1, <2>2, <2>3, <2>4, <2>5, <2>6, <2>7 DEF Writes
  <1> QED BY <1>1, <1>4, <1>9, HandlerGood

LEMMA SettleGood ==
  ASSUME RInv, TInv', NEW t \in Turns, Settle(t)
  PROVE  RInv'
  <1> DEFINE o == StatusOutcome(MessageOf(t).status)
  <1>1. /\ handlers[t].pc = "settle" /\ phase[t] = "leased" /\ MessageOf(t).status \in Ended
        /\ Calm => Told(MessageOf(t), journal[target[t]])
        /\ UNCHANGED <<messages, queue, target, requests, journal, runs>>
        /\ HandlerGoes(t, Reporting(o))
    BY ExecutingFacts DEF Settle, Knows, Closes, Others
  <1>2. /\ o \in Outcomes /\ o # "retryable" /\ (o = "done" => MessageOf(t).status = "completed")
        /\ o = "cancelled" => MessageOf(t).status = "stopped"
    BY <1>1, StatusReported
  <1> HIDE DEF o
  <1>3. Well(t, Reporting(o), MessageOf(t), runs[t], journal[target[t]])
    BY <1>1, <1>2, RestsWell
  <1> QED BY <1>1, <1>3, QuietGood

(* The heartbeat passes a stop on *)
LEMMA HearStopGood ==
  ASSUME RInv, TInv', NEW t \in Turns, HearStop(t)
  PROVE  RInv'
  <1> DEFINE h == handlers[t]
             msg == MessageOf(t)
             q == [h EXCEPT !.stop = TRUE]
  <1>1. /\ Fit(h) /\ phase[t] = "leased"
        /\ Knows(h, msg, Delivery(t)) /\ RanOnce(t, h, runs[t], journal[target[t]], lease[t])
        /\ Calm => Closes(h, msg, journal[target[t]], tries[t], "leased")
        /\ UNCHANGED <<messages, queue, target, requests, journal, runs>>
        /\ HandlerGoes(t, q)
    BY ExecutingFacts DEF HearStop, Others
  <1>2. GoneOn(q, [h EXCEPT !.stop = TRUE], h.pc, h.purpose, h.change, h.image)
        /\ q.tool = h.tool /\ q.said = h.said /\ q.outcome = h.outcome
    BY <1>1 DEF GoneOn, Fit, Handler
  <1> HIDE DEF q
  <1>3. Knows(q, msg, Delivery(t))
    BY <1>1, <1>2 DEF GoneOn, Knows, Talking
  <1>4. RanOnce(t, q, runs[t], journal[target[t]], lease[t])
    BY <1>1, <1>2 DEF GoneOn, RanOnce, MayRun
  <1>5. Calm => Closes(q, msg, journal[target[t]], tries[t], "leased")
    BY <1>1, <1>2 DEF GoneOn, Closes
  <1> QED BY <1>1, <1>3, <1>4, <1>5, QuietGood DEF Well

(* An exception, a crash, a cancellation *)
LEMMA FaultsGood ==
  ASSUME RInv, TInv', NEW t \in Turns, Raise(t) \/ Crash(t) \/ CancelStopped(t)
  PROVE  RInv'
  <1> DEFINE h == handlers[t]
             msg == MessageOf(t)
             ran == runs[t]
             events == journal[target[t]]
  <1>1. /\ h.pc # "none" /\ phase[t] = "leased"
        /\ UNCHANGED <<messages, queue, target, requests, journal, runs>>
    <2>1. Fit(h)
      BY TurnFacts DEF RInv
    <2>2. h.pc # "none"
      BY <2>1 DEF Raise, Crash, CancelStopped, InRuntime, Fit, Shaped
    <2> QED BY <2>2, ExecutingFacts DEF Raise, Crash, CancelStopped
  <1>2. CASE Raise(t)
    <2>1. ~Calm /\ h.pc # "report"
      BY <1>2 DEF Raise, Fault, Calm
    <2>2. Well(t, Persisting(h, "stop again", "stopped"), msg, ran, events)
      BY <1>1, <2>1, PersistsWell DEF ChangeOf
    <2>3. Well(t, Failing(t), msg, ran, events)
      BY <1>1, <2>1, FailsWell
    <2>4. Well(t, Reporting("retryable"), msg, ran, events)
      BY <1>1, <2>1, RestsWell DEF Outcomes
    <2> QED BY <1>1, <1>2, <2>2, <2>3, <2>4, QuietGood DEF Raise
  <1>3. CASE Crash(t)
    <2>1. Well(t, NoHandler, msg, ran, events)
      BY <1>1, RestsWell
    <2> QED BY <1>1, <1>3, <2>1, QuietGood DEF Crash
  <1>4. CASE CancelStopped(t)
    <2>1. h.pc # "report"
      BY <1>1, <1>4, ExecutingFacts DEF CancelStopped, InRuntime, Fit, Shaped
    <2>2. Well(t, Persisting(h, "unwind", "stopped"), msg, ran, events)
      BY <1>1, <2>1, PersistsWell DEF ChangeOf
    <2> QED BY <1>1, <1>4, <2>2, QuietGood DEF CancelStopped
  <1> QED BY <1>2, <1>3, <1>4

-----------------------------------------------------------------------------
(* The queue *)

(* A report *)
LEMMA ReportGood ==
  ASSUME RInv, TInv', NEW t \in Turns, Report(t)
  PROVE  RInv'
  <1> DEFINE h == handlers[t]
             msg == MessageOf(t)
             ran == runs[t]
             events == journal[target[t]]
             o == h.outcome
  <1>1. /\ Fit(h) /\ h.pc = "report" /\ o \in Outcomes /\ phase[t] = "leased"
        /\ target[t] \in Messages /\ WellTold(msg) /\ msg.status # "absent"
        /\ Knows(h, msg, Delivery(t)) /\ Charged(lease[t], tries[t])
        /\ Calm => Closes(h, msg, events, tries[t], "leased")
        /\ tries[t] \in Nat
        /\ UNCHANGED <<messages, target, requests, journal, runs>>
    BY ExecutingFacts DEF Report, Fit, Handler
  <1>2. /\ handlers'[t] = NoHandler
        /\ \A u \in Turns \ {t} : handlers'[u] = handlers[u]
    BY DEF Report, HandlerGoes, RInv, TInv, TypeOK
  <1>3. /\ tries' = tries /\ lease' = lease /\ phase'[t] # "absent"
        /\ \A u \in Turns \ {t} : phase'[u] = phase[u]
        /\ \/ phase'[t] = "waiting"
           \/ phase'[t] = Final[o] /\ (o # "retryable" \/ tries[t] >= MaxAttempts)
    BY <1>1 DEF Report, FinalOf, Queue!Requeue, Queue!Settle, Queue!Settled, RInv, TInv, TypeOK,
           Queue!TypeOK
  <1>4. Settles(msg, phase'[t])
    BY <1>1, <1>3 DEF Settles, Final, Knows, Outcomes
  <1>5. Well(t, NoHandler, msg, ran, events)
    BY <1>1, RestsWell
  <1>6. ASSUME Calm PROVE Closes(NoHandler, msg, events, tries[t], phase'[t])
    <2>1. Closes(h, msg, events, tries[t], "leased")
      BY <1>1, <1>6
    <2>2. phase'[t] \in Queue!Settled => msg.status \in Ended /\ Told(msg, events)
      <3>1. CASE o = "retryable"
        BY <1>1, <1>3, <2>1, <3>1, BoundsAssumption DEF Closes, Queue!Settled
      <3>2. CASE o # "retryable"
        BY <1>1, <2>1, <3>2 DEF Closes, Outcomes
      <3> QED BY <3>1, <3>2
    <2> QED BY <2>2, RestingFields DEF Closes
  <1>7. GoodTurn(t)'
    BY <1>1, <1>2, <1>3, <1>4, <1>5, <1>6 DEF GoodTurn, Well, MessageOf, Delivery
  <1> QED BY <1>1, <1>2, <1>3, <1>7, OneTurnGood DEF MessageOf

(* A delivery *)
LEMMA ClaimGood ==
  ASSUME RInv, TInv', NEW t \in Turns, Claim(t)
  PROVE  RInv'
  <1> DEFINE msg == MessageOf(t)
             ran == runs[t]
             events == journal[target[t]]
             q == [NoHandler EXCEPT !.pc = "load", !.stop = stop[t]]
  <1>1. phase[t] \in {"waiting", "leased"}
    BY DEF Claim, Queue!Deliver, Queue!Takeover
  <1>2. GoodTurn(t) /\ target[t] \in Messages /\ target[t] # 0
    BY <1>1, TurnFacts, BoundsAssumption DEF RInv, Messages
  <1>3. WellTold(msg) /\ msg.status # "absent"
    BY <1>2 DEF RInv, Linked, Texts, MessageOf
  <1>4. /\ handlers' = [handlers EXCEPT ![t] = q]
        /\ UNCHANGED <<messages, target, requests, journal, runs>>
    BY DEF Claim, HandlerGoes
  <1>5. /\ q.pc = "load" /\ q.purpose = "none" /\ q.change = "none" /\ q.tool = "none"
        /\ q.said = FALSE /\ q.outcome = "none"
    BY DEF NoHandler
  <1> HIDE DEF q
  <1>6. handlers'[t] = q /\ \A u \in Turns \ {t} : handlers'[u] = handlers[u]
    BY <1>4 DEF RInv, TInv, TypeOK
  <1>7. /\ phase'[t] = "leased" /\ lease'[t] = lease[t] + 1
        /\ tries'[t] = tries[t] + 1 \/ (tries'[t] = tries[t] /\ tries[t] >= MaxAttempts)
        /\ \A u \in Turns \ {t} :
             phase'[u] = phase[u] /\ lease'[u] = lease[u] /\ tries'[u] = tries[u]
        /\ lease[t] \in Nat /\ tries[t] \in Nat
    BY BoundsAssumption
    DEF Claim, Queue!Deliver, Queue!Takeover, RInv, TInv, TypeOK, Queue!TypeOK
  <1>8. Knows(q, msg, <<t, lease'[t]>>)
    BY <1>5 DEF Knows, Talking
  <1>9. RanOnce(t, q, ran, events, lease'[t])
    BY <1>2, <1>5 DEF GoodTurn, RanOnce, MayRun
  <1>10. Charged(lease'[t], tries'[t])
    BY <1>2, <1>7, BoundsAssumption DEF GoodTurn, Charged
  <1>11. Settles(msg, "leased")
    BY DEF Settles
  <1>12. Closes(q, msg, events, tries'[t], "leased")
    BY <1>5 DEF Closes, Queue!Settled
  <1>13. GoodTurn(t)'
    BY <1>4, <1>6, <1>7, <1>8, <1>9, <1>10, <1>11, <1>12 DEF GoodTurn, MessageOf, Delivery
  <1> QED BY <1>1, <1>2, <1>3, <1>4, <1>6, <1>7, <1>13, OneTurnGood DEF MessageOf

-----------------------------------------------------------------------------
(* The API *)

(* The initial states are good *)
LEMMA GoodInit ==
  ASSUME Init
  PROVE  RInv
  <1>1. TInv
    BY TInit
  <1>2. /\ \A m \in Messages : messages[m].status = "absent" /\ messages[m].text = {}
        /\ \A t \in Turns : target[t] = 0 /\ phase[t] = "absent" /\ lease[t] = 0
        /\ \A r \in Requests : requests[r].pc = "idle"
    BY DEF Init, Queue!Init, AbsentMessage, IdleRequest
  <1>3. Linked
    BY <1>2 DEF Linked
  <1>4. InOrder
    BY <1>2 DEF InOrder
  <1>5. Texts
    BY <1>2 DEF Texts, WellTold
  <1> QED BY <1>1, <1>2, <1>3, <1>4, <1>5 DEF RInv

(* Every turn opened a message of its own, so there are no more messages than turns *)
LEMMA NoRetryYet ==
  ASSUME RInv
  PROVE  Retries \in Nat
  <1> DEFINE A == {t \in Turns : phase[t] # "absent"}
             B == {m \in Messages : messages[m].status # "absent"}
             f == [t \in A |-> target[t]]
  <1>1. \A t \in A : target[t] # 0 /\ target[t] \in B
    <2>1. \A t \in A : target[t] \in Messages
      BY TurnFacts DEF RInv
    <2>2. \A t \in A : target[t] # 0
      BY <2>1, BoundsAssumption DEF Messages
    <2> QED BY <2>1, <2>2 DEF RInv, Linked
  <1>2. \A m \in B : \E t \in A : f[t] = m
    <2>1. TAKE m \in B
    <2>2. PICK t \in Turns : target[t] = m
      BY DEF RInv, Linked
    <2>3. target[t] # 0
      BY <2>2, BoundsAssumption DEF Messages
    <2>4. phase[t] # "absent"
      BY <2>3 DEF RInv, TInv, TypeOK
    <2> QED BY <2>2, <2>4
  <1>3. f \in Surjection(A, B)
    BY <1>1, <1>2 DEF Surjection
  <1>4. IsFiniteSet(A)
    <2>1. IsFiniteSet(Turns)
      BY FS_Interval, BoundsAssumption DEF Turns
    <2> QED BY <2>1, FS_Subset
  <1> HIDE DEF A, B, f
  <1>5. IsFiniteSet(B) /\ Cardinality(B) <= Cardinality(A)
    BY <1>3, <1>4, FS_Surjection
  <1>6. Cardinality(A) \in Nat /\ Cardinality(B) \in Nat
    BY <1>4, <1>5, FS_CardinalityType
  <1>7. Retries = Cardinality(A) - Cardinality(B)
    BY DEF Retries, A, B
  <1> QED BY <1>5, <1>6, <1>7

(* A step that changes requests and stops only *)
LEMMA RequestOnlyGood ==
  ASSUME RInv, TInv',
         UNCHANGED <<messages, queue, target, handlers, journal, runs>>,
         \A r \in Requests :
           \/ requests'[r] = requests[r]
           \/ requests'[r].pc = "idle"
           \/ /\ requests'[r].pc = "send"
              /\ \A n \in Messages :
                   n < requests'[r].message => messages[n].status \in Ended
  PROVE  RInv'
  <1>1. /\ phase' = phase /\ tries' = tries /\ lease' = lease /\ target' = target
        /\ messages' = messages /\ journal' = journal /\ runs' = runs /\ handlers' = handlers
    BY DEF queue
  <1>2. \A r \in Requests : requests'[r].pc \in {"idle", "send"}
    BY DEF RInv, Linked
  <1>3. Linked'
    BY <1>1, <1>2 DEF RInv, Linked
  <1>4. InOrder'
    <2>1. \A r \in Requests : requests'[r].pc = "send" =>
            \A n \in Messages : n < requests'[r].message => messages[n].status \in Ended
      BY DEF RInv, InOrder
    <2> QED BY <1>1, <2>1 DEF RInv, InOrder
  <1>5. Texts'
    BY <1>1 DEF RInv, Texts
  <1>6. \A t \in Turns : phase'[t] # "absent" => GoodTurn(t)'
    BY <1>1 DEF RInv, GoodTurn, MessageOf, Delivery
  <1> QED BY <1>3, <1>4, <1>5, <1>6 DEF RInv

(* A message that is new is the last one, and those before it have ended *)
LEMMA OpeningFacts ==
  ASSUME RInv, NEW r \in Requests, requests[r].pc = "send",
         NEW m, m = requests[r].message, messages[m].status = "absent"
  PROVE  /\ m \in Messages
         /\ \A n \in Messages : n < m => messages[n].status \in Ended
         /\ \A n \in Messages : n > m => messages[n].status = "absent"
         /\ \A t \in Turns : target[t] # m
  <1>1. m \in Messages
    BY DEF RInv, TInv
  <1>2. \A n \in Messages : n < m => messages[n].status \in Ended
    BY DEF RInv, InOrder
  <1>3. \A n \in Messages : n > m => messages[n].status = "absent"
    BY <1>1 DEF RInv, InOrder, Ended, Messages
  <1>4. \A t \in Turns : target[t] # m
    BY <1>1, BoundsAssumption DEF RInv, Linked, Messages
  <1> QED BY <1>1, <1>2, <1>3, <1>4

(* A message and its task are written, or the send conflicts *)
LEMMA SendCommitGood ==
  ASSUME RInv, TInv', NEW r \in Requests, SendCommit(r)
  PROVE  RInv'
  <1> DEFINE m == requests[r].message
  <1>1. /\ requests[r].pc = "send" /\ requests'[r] = IdleRequest
        /\ \A s \in Requests \ {r} : requests'[s] = requests[s]
    BY DEF SendCommit, RequestGoes, RInv, TInv, TypeOK
  <1>2. IdleRequest.pc = "idle"
    BY DEF IdleRequest
  <1>3. CASE UNCHANGED <<messages, queue, stop, target, handlers, journal, runs, faults>>
    BY <1>1, <1>2, <1>3, RequestOnlyGood
  <1>4. CASE messages[m].status = "absent" /\ CanOpenTurn /\ OpenTurn(m)
    <2>1. /\ m \in Messages
          /\ \A n \in Messages : n < m => messages[n].status \in Ended
          /\ \A n \in Messages : n > m => messages[n].status = "absent"
          /\ \A u \in Turns : target[u] # m
      BY <1>1, <1>4, OpeningFacts
    <2> HIDE DEF m
    <2>2. PICK t \in Turns : t = NextTurn /\ phase[t] = "absent"
      BY <1>4, NextTurnIs DEF RInv
    <2>3. /\ messages' = [messages EXCEPT ![m] = PendingMessage(<<t, 0>>)]
          /\ target' = [target EXCEPT ![t] = m]
          /\ phase' = [phase EXCEPT ![t] = "waiting"] /\ tries' = tries /\ lease' = lease
          /\ handlers' = handlers /\ journal' = journal /\ runs' = runs
      BY <1>4, <2>2 DEF OpenTurn, Queue!Submit
    <2> DEFINE p == PendingMessage(<<t, 0>>)
    <2>4. p.status = "pending" /\ p.text = {}
      BY DEF PendingMessage
    <2> HIDE DEF p
    <2>5. /\ messages'[m] = p /\ \A n \in Messages \ {m} : messages'[n] = messages[n]
          /\ target'[t] = m /\ \A u \in Turns \ {t} : target'[u] = target[u]
          /\ phase'[t] = "waiting" /\ \A u \in Turns \ {t} : phase'[u] = phase[u]
          /\ m # 0
      BY <2>1, <2>2, <2>3, BoundsAssumption DEF RInv, TInv, TypeOK, Queue!TypeOK, p, Messages
    <2>6. Linked'
      <3>1. \A v, u \in Turns : target'[v] = target'[u] /\ target'[v] # 0 => v = u
        BY <2>1, <2>5 DEF RInv, Linked
      <3>2. \A n \in Messages : messages'[n].status # "absent" => \E u \in Turns : target'[u] = n
        <4>1. TAKE n \in Messages
        <4>2. CASE n = m
          BY <2>2, <2>5, <4>2
        <4>3. CASE n # m
          <5>1. SUFFICES ASSUME messages[n].status # "absent" PROVE \E u \in Turns : target'[u] = n
            BY <2>5, <4>3
          <5>2. PICK u \in Turns : target[u] = n
            BY <5>1 DEF RInv, Linked
          <5>3. u # t
            BY <2>2, <5>2, BoundsAssumption DEF RInv, TInv, TypeOK, Messages
          <5> QED BY <2>5, <5>2, <5>3
        <4> QED BY <4>2, <4>3
      <3>3. \A u \in Turns : target'[u] # 0 => messages'[target'[u]].status # "absent"
        <4>1. TAKE u \in Turns
        <4>2. CASE u = t
          BY <2>4, <2>5, <4>2
        <4>3. CASE u # t
          <5>1. target'[u] = target[u] /\ target[u] # m /\ target[u] \in 0..MaxMessages
            BY <2>1, <2>5, <4>3 DEF RInv, TInv, TypeOK
          <5>2. SUFFICES ASSUME target[u] # 0 PROVE messages'[target[u]].status # "absent"
            BY <5>1
          <5>3. target[u] \in Messages
            BY <5>1, <5>2, BoundsAssumption DEF Messages
          <5>4. messages'[target[u]] = messages[target[u]]
            BY <2>5, <5>1, <5>3
          <5> QED BY <5>2, <5>4 DEF RInv, Linked
        <4> QED BY <4>2, <4>3
      <3>4. \A u \in Turns : phase'[u] = "absent" => lease'[u] = 0
        BY <2>3, <2>5 DEF RInv, Linked
      <3>5. \A s \in Requests : requests'[s].pc \in {"idle", "send"}
        BY <1>1, <1>2 DEF RInv, Linked
      <3> QED BY <3>1, <3>2, <3>3, <3>4, <3>5 DEF Linked
    <2>7. InOrder'
      <3>1. \A n \in Messages : messages[n].status \in Ended => messages'[n].status \in Ended
        BY <1>4, <2>1, <2>5 DEF Ended, m
      <3>2. \A k, n \in Messages :
              messages'[k].status # "absent" /\ n < k => messages'[n].status \in Ended
        BY <2>1, <2>5, <3>1 DEF RInv, InOrder, Messages
      <3>3. \A s \in Requests : requests'[s].pc = "send" =>
              \A n \in Messages : n < requests'[s].message => messages'[n].status \in Ended
        BY <1>1, <1>2, <3>1 DEF RInv, InOrder
      <3> QED BY <3>2, <3>3 DEF InOrder
    <2>8. Texts'
      <3>1. WellTold(p)
        BY <2>4 DEF WellTold
      <3>2. \A n \in Messages \ {m} : WellTold(messages'[n])
        BY <2>5 DEF RInv, Texts
      <3> QED BY <2>5, <3>1, <3>2 DEF Texts
    <2>9. GoodTurn(t)'
      <3>1. /\ handlers[t].pc = "none" /\ handlers[t].purpose = "none" /\ handlers[t].tool = "none"
            /\ handlers[t].outcome = "none"
        BY <2>2 DEF RInv, TInv, TypeOK, Shaped
      <3>2. lease[t] = 0 /\ runs[t] = {}
        <4>1. lease[t] = 0
          BY <2>2 DEF RInv, Linked
        <4>2. runs[t] \subseteq 1..lease[t]
          BY <2>2 DEF RInv, TInv, TypeOK
        <4> QED BY <4>1, <4>2
      <3>3. Knows(handlers[t], p, <<t, 0>>)
        BY <3>1 DEF Knows, Talking
      <3>4. RanOnce(t, handlers[t], {}, journal[m], 0)
        BY <3>1 DEF RanOnce
      <3>5. Charged(0, tries[t]) /\ Settles(p, "waiting")
        BY DEF Charged, Settles
      <3>6. Closes(handlers[t], p, journal[m], tries[t], "waiting")
        BY <3>1 DEF Closes, Queue!Settled
      <3>7. /\ handlers'[t] = handlers[t] /\ runs'[t] = {} /\ phase'[t] = "waiting"
            /\ tries'[t] = tries[t] /\ lease'[t] = 0 /\ target'[t] = m
            /\ messages'[m] = p /\ journal'[m] = journal[m]
        BY <2>3, <2>5, <3>2
      <3>8. Delivery(t)' = <<t, 0>> /\ MessageOf(t)' = p
        BY <3>7 DEF Delivery, MessageOf
      <3> QED BY <3>3, <3>4, <3>5, <3>6, <3>7, <3>8 DEF GoodTurn
    <2>10. ASSUME NEW u \in Turns, u # t, phase'[u] # "absent" PROVE GoodTurn(u)'
      <3>1. phase[u] # "absent" /\ GoodTurn(u) /\ target[u] \in Messages
        BY <2>5, <2>10, TurnFacts DEF RInv
      <3>2. target'[u] = target[u] /\ messages'[target[u]] = messages[target[u]]
        BY <2>1, <2>5, <2>10, <3>1
      <3> QED BY <2>3, <2>5, <2>10, <3>1, <3>2 DEF GoodTurn, MessageOf, Delivery
    <2>11. \A u \in Turns : phase'[u] # "absent" => GoodTurn(u)'
      BY <2>9, <2>10
    <2> QED BY <2>6, <2>7, <2>8, <2>11 DEF RInv
  <1> QED BY <1>3, <1>4 DEF SendCommit

(* A step of the API, if nobody retries *)
LEMMA RequestGood ==
  ASSUME MaxRetries = 0, RInv, TInv', NEW r \in Requests, RequestStep(r)
  PROVE  RInv'
  <1>1. requests[r].pc \in {"idle", "send"} /\ Retries \in Nat
    BY NoRetryYet DEF RInv, Linked
  <1>2. SendRead(r) \/ SendCommit(r)
    <2>1. ~(Retries < MaxRetries)
      BY <1>1
    <2>2. \A m \in Messages : ~RetryLook(r, m)
      BY <2>1 DEF RetryLook
    <2>3. ~RetryPrepare(r) /\ ~RetryCheck(r) /\ ~RetryWrite(r)
      BY <1>1 DEF RetryPrepare, RetryCheck, RetryWrite
    <2> QED BY <2>2, <2>3 DEF RequestStep
  <1>3. CASE SendRead(r)
    <2>1. PICK m \in Messages :
            /\ \A n \in Messages : n < m => messages[n].status # "absent"
            /\ RequestGoes(r, [pc |-> "send", message |-> m])
      BY <1>3 DEF SendRead
    <2>2. \A n \in Messages : n < m => messages[n].status \in Ended
      BY <1>3, <2>1 DEF SendRead, Busy, HasActive, RInv, TInv, TypeOK, Message
    <2>3. /\ requests'[r] = [pc |-> "send", message |-> m]
          /\ \A s \in Requests \ {r} : requests'[s] = requests[s]
      BY <2>1 DEF RequestGoes, RInv, TInv, TypeOK
    <2> QED BY <1>3, <2>2, <2>3, RequestOnlyGood DEF SendRead
  <1> QED BY <1>2, <1>3, SendCommitGood

(* Every step keeps the invariant, if nobody retries *)
LEMMA StepGood ==
  ASSUME MaxRetries = 0, RInv, [Next]_vars
  PROVE  RInv'
  <1>1. TInv'
    BY StepTyped DEF RInv
  <1>2. CASE UNCHANGED vars
    BY <1>1, <1>2, RequestOnlyGood DEF vars
  <1>3. ASSUME NEW r \in Requests, RequestStep(r) PROVE RInv'
    BY <1>1, <1>3, RequestGood
  <1>4. CASE RequestStop
    BY <1>1, <1>4, RequestOnlyGood DEF RequestStop
  <1>5. ASSUME NEW t \in Turns,
               \/ Claim(t) \/ HearStop(t) \/ HandlerStep(t) \/ RunTool(t)
               \/ Raise(t) \/ Crash(t) \/ CancelStopped(t)
        PROVE  RInv'
    BY <1>1, <1>5, ClaimGood, HearStopGood, LoadGood, RecoverGood, BeginGood, StreamGood,
       ReadGood, WriteGood, PublishGood, SettleGood, ReportGood, RunToolGood, FaultsGood
    DEF HandlerStep
  <1> QED BY <1>2, <1>3, <1>4, <1>5 DEF Next

(* Replies nobody retries: a message has one turn, they come in order, a
   completed text is one delivery's, and each handler knows what RInv says between
   the read, the write and the event of a change (projection.py, events.py). *)
THEOREM RepliesGood ==
  ASSUME MaxRetries = 0
  PROVE  Spec => []RInv
  <1>1. Init => RInv
    BY GoodInit
  <1>2. RInv /\ [Next]_vars => RInv'
    BY StepGood
  <1> QED BY <1>1, <1>2, PTL DEF Spec

(* The text of a completed reply is the work of one delivery, however often the
   task was delivered, crashed or raised before (durable.py, projection.py). *)
THEOREM CompletedRepliesAreWhole ==
  ASSUME MaxRetries = 0
  PROVE  Spec => []CompletedIsWhole
  <1>1. RInv => CompletedIsWhole
    <2>1. \A d : Cardinality({d}) = 1
      BY FS_Singleton
    <2> QED BY <2>1 DEF RInv, Texts, WellTold, CompletedIsWhole
  <1> QED BY <1>1, RepliesGood, PTL

(* A reply task succeeds only with a complete reply, and is cancelled only with a
   stopped one (durable.py: the outcome is read from the message). *)
THEOREM OutcomesAgree ==
  ASSUME MaxRetries = 0
  PROVE  Spec => []OutcomeAgrees
  <1>1. RInv => OutcomeAgrees
    BY DEF RInv, GoodTurn, Settles, OutcomeAgrees, IsLatest
  <1> QED BY <1>1, RepliesGood, PTL

(* Of all the deliveries of a reply task at most one runs a tool
   (prevent_unsafe_tool_replay), provided a task is granted a second attempt: with
   one, a takeover is not told from a first delivery. *)
THEOREM ToolsAreRunOnce ==
  ASSUME MaxRetries = 0, MaxAttempts > 1
  PROVE  Spec => []ToolsRunOnce
  <1>1. RInv => ToolsRunOnce
    <2> SUFFICES ASSUME RInv, NEW t \in Turns PROVE Cardinality(runs[t]) <= 1
      BY DEF ToolsRunOnce
    <2>1. \A e, f \in runs[t] : e = f
      <3>1. CASE phase[t] = "absent"
        <4>1. lease[t] = 0 /\ runs[t] \subseteq 1..lease[t]
          BY <3>1 DEF RInv, Linked, TInv, TypeOK
        <4> QED BY <4>1
      <3>2. CASE phase[t] # "absent"
        BY <3>2 DEF RInv, GoodTurn, RanOnce
      <3> QED BY <3>1, <3>2
    <2>2. runs[t] = {} \/ \E e \in runs[t] : runs[t] = {e}
      BY <2>1
    <2>3. Cardinality({}) = 0 /\ \A e : Cardinality({e}) = 1
      BY FS_EmptySet, FS_Singleton
    <2>4. Cardinality(runs[t]) \in {0, 1}
      BY <2>2, <2>3
    <2> QED BY <2>4
  <1> QED BY <1>1, RepliesGood, PTL

(* A conversation has at most one active reply, though busy is read in one
   transaction and acted on in another, by any number of API processes. *)
THEOREM RepliesComeOneAtATime ==
  ASSUME MaxRetries = 0
  PROVE  Spec => []OneActiveReply
  <1>1. RInv => OneActiveReply
    <2> SUFFICES ASSUME RInv
                 PROVE  Cardinality({m \in Messages : messages[m].status \in Active}) <= 1
      BY DEF OneActiveReply
    <2> DEFINE A == {m \in Messages : messages[m].status \in Active}
    <2>1. \A m, n \in A : m = n
      <3>1. \A m, n \in A : ~(n < m)
        BY DEF RInv, InOrder, Active, Ended
      <3> QED BY <3>1, BoundsAssumption DEF Messages
    <2>2. A = {} \/ \E m \in A : A = {m}
      BY <2>1
    <2> HIDE DEF A
    <2>3. Cardinality({}) = 0 /\ \A m : Cardinality({m}) = 1
      BY FS_EmptySet, FS_Singleton
    <2>4. Cardinality(A) \in {0, 1}
      BY <2>2, <2>3
    <2> QED BY <2>4 DEF A
  <1> QED BY <1>1, RepliesGood, PTL

(* A settled task leaves an ended reply behind, whichever processes die, unless an
   exception reaches execute outside its try (durable.py). *)
THEOREM RepliesEndWithTheirTask ==
  ASSUME MaxRetries = 0, "raise" \notin Faults
  PROVE  Spec => []MessageSettledWithTask
  <1>1. RInv => MessageSettledWithTask
    BY DEF RInv, GoodTurn, Calm, Closes, MessageSettledWithTask, IsLatest
  <1> QED BY <1>1, RepliesGood, PTL

(* ... and the end of that reply is in the journal, though its event is appended
   after the message is committed, by this delivery or a later one. *)
THEOREM EndsAreAnnounced ==
  ASSUME MaxRetries = 0, "raise" \notin Faults
  PROVE  Spec => []EndIsAnnounced
  <1>1. RInv => EndIsAnnounced
    BY DEF RInv, GoodTurn, Calm, Closes, Told, EndIsAnnounced, IsLatest, Announced, MessageOf
  <1> QED BY <1>1, RepliesGood, PTL

-----------------------------------------------------------------------------
(* The conversation that its followers see *)

(* The refinement mapping *)
Statuses == [m \in Messages |-> messages[m].status]

(* Messages are written by Write and by SendCommit only *)
LEMMA MessagesFixed ==
  ASSUME MaxRetries = 0, RInv, [Next]_vars
  PROVE  \/ messages' = messages
         \/ \E t \in Turns : Write(t)
         \/ \E r \in Requests : SendCommit(r)
  <1>1. ASSUME NEW r \in Requests, RequestStep(r)
        PROVE  messages' = messages \/ SendCommit(r)
    <2>1. ~RetryWrite(r)
      BY DEF RInv, Linked, RetryWrite
    <2> QED BY <1>1, <2>1 DEF RequestStep, SendRead, RetryLook, RetryPrepare, RetryCheck
  <1>2. ASSUME NEW t \in Turns, HandlerStep(t)
        PROVE  messages' = messages \/ Write(t)
    BY <1>2 DEF HandlerStep, Load, Recover, Begin, Stream, Read, Publish, Settle, Report, Others
  <1> QED BY <1>1, <1>2
          DEF Next, vars, RequestStop, Claim, HearStop, RunTool, Raise, Crash, CancelStopped, Others

(* What a handler writes, the promise allows *)
LEMMA WriteIsPromised ==
  ASSUME RInv, NEW t \in Turns, Write(t)
  PROVE  [Promise!Next]_Statuses
  <1> DEFINE h == handlers[t]
             msg == MessageOf(t)
             n == Changed(msg, h.change, Delivery(t))
  <1>1. /\ Fit(h) /\ h.pc = "write" /\ target[t] \in Messages /\ msg \in Message
        /\ msg.status \in Active /\ h.image = n
    BY ExecutingFacts DEF Write, Knows
  <1>2. PICK m \in Messages : m = target[t]
    BY <1>1
  <1>3. h.change \in {"restart", "delta"} \cup Ended
    BY <1>1 DEF Fit, Shaped, Writes, ToolKinds, Ended
  <1>4. /\ h.change = "restart" => n.status = "pending"
        /\ h.change = "delta" => n.status = "streaming"
        /\ h.change \in Ended => n.status = h.change
    BY <1>1 DEF Changed, PendingMessage, Message, Ended
  <1>5. messages' = [messages EXCEPT ![m] = n] /\ messages \in [Messages -> Message]
    BY <1>1, <1>2 DEF Write, RInv, TInv, TypeOK
  <1> HIDE DEF n
  <1>6. Statuses' = [Statuses EXCEPT ![m] = n.status]
    BY <1>1, <1>2, <1>5 DEF Statuses
  <1>7. Statuses[m] \in Active
    BY <1>1, <1>2 DEF Statuses, MessageOf
  <1>8. Promise!Speak(m) \/ Promise!Restart(m) \/ Promise!End(m)
    BY <1>3, <1>4, <1>6, <1>7
    DEF Promise!Speak, Promise!Restart, Promise!End, Promise!Active, Promise!Ended, Active, Ended,
        Statuses
  <1>9. m \in Promise!Messages
    BY DEF Promise!Messages, Messages
  <1>10. Promise!Next
    BY <1>8, <1>9 DEF Promise!Next
  <1> QED BY <1>10

(* What a send writes, the promise allows *)
LEMMA SendIsPromised ==
  ASSUME RInv, NEW r \in Requests, SendCommit(r)
  PROVE  [Promise!Next]_Statuses
  <1>1. PICK m \in Messages : m = requests[r].message
    BY DEF SendCommit, RInv, TInv
  <1>2. CASE messages' = messages
    BY <1>2 DEF Statuses
  <1>3. CASE messages[m].status = "absent" /\ CanOpenTurn /\ OpenTurn(m)
    <2>1. /\ m \in Messages
          /\ \A n \in Messages : n < m => messages[n].status \in Ended
          /\ \A n \in Messages : n > m => messages[n].status = "absent"
      BY <1>1, <1>3, OpeningFacts DEF SendCommit
    <2>2. /\ messages' = [messages EXCEPT ![m] = PendingMessage(<<NextTurn, 0>>)]
          /\ messages \in [Messages -> Message]
      BY <1>3 DEF OpenTurn, RInv, TInv, TypeOK
    <2>3. Statuses' = [Statuses EXCEPT ![m] = "pending"]
      BY <2>1, <2>2 DEF Statuses, PendingMessage
    <2>4. \A n \in Messages : n # m => messages[n].status \in Ended \cup {"absent"}
      BY <2>1, BoundsAssumption DEF Messages
    <2>5. Promise!Quiet
      BY <1>3, <2>1, <2>4 DEF Promise!Quiet, Promise!Active, Promise!Messages, Messages, Ended
    <2>6. Promise!Send(m)
      BY <1>3, <2>1, <2>3, <2>5 DEF Promise!Send, Promise!Messages, Messages, Statuses, Ended
    <2>7. m \in Promise!Messages
      BY <2>1 DEF Promise!Messages, Messages
    <2>8. Promise!Next
      BY <2>6, <2>7 DEF Promise!Next
    <2> QED BY <2>8
  <1> QED BY <1>1, <1>2, <1>3 DEF SendCommit

(* The refinement: reply by reply the conversation is a ReplyLifecycle, so none of
   its blind writes reopens or rewrites a reply that ended. *)
THEOREM RepliesKeepThePromise ==
  ASSUME MaxRetries = 0
  PROVE  Spec => ImplementsReply
  <1>1. Init => Promise!Init
    BY DEF Init, Promise!Init, Promise!Messages, Messages, AbsentMessage
  <1>2. RInv /\ [Next]_vars => [Promise!Next]_Statuses
    <2> SUFFICES ASSUME RInv, [Next]_vars PROVE [Promise!Next]_Statuses
      OBVIOUS
    <2>1. CASE messages' = messages
      BY <2>1 DEF Statuses
    <2> QED BY <2>1, MessagesFixed, WriteIsPromised, SendIsPromised
  <1>3. RInv /\ [Next]_vars => [Promise!Next]_[m \in Messages |-> messages[m].status]
    BY <1>2 DEF Statuses
  <1> QED BY <1>1, <1>3, RepliesGood, PTL DEF Spec, ImplementsReply, Promise!SafeSpec
=============================================================================
