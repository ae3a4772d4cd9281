------------------------------ MODULE ChatScreen ------------------------------
(***************************************************************************)
(* A conversation in the browser: the messages it shows come from a        *)
(* snapshot that is fetched, from events that a stream repeats from the    *)
(* beginning whenever the conversation is opened, and from the answers to  *)
(* what the user sends, in whatever order these arrive.  A user's message, *)
(* which never changes, is left out: a turn is the assistant's message.    *)
(***************************************************************************)
EXTENDS Naturals, Sequences, FiniteSets

CONSTANTS MaxTurns, MaxStamp, MaxIncidents

ChatScreenAssumption ==
  {MaxTurns, MaxStamp, MaxIncidents} \subseteq Nat

VARIABLES
  stored,     \* the messages' rows, by turn
  due,        \* the changes that are stored and not published yet
  log,        \* the conversation's events, each with the message it was about
  cache,      \* the messages the browser holds
  source,     \* the event stream, with the number of the last event it brought
  fetch,      \* the messages query
  answer,     \* the send or retry that is under way, with its answer
  overtaken,  \* whether the last snapshot was older than what it replaced
  incidents   \* retries, openings, broken connections and failed fetches

vars == <<stored, due, log, cache, source, fetch, answer, overtaken, incidents>>

-----------------------------------------------------------------------------
Turns == 1 .. MaxTurns
NoMessage == [status |-> "none", stamp |-> 0]
Message(status, stamp) == [status |-> status, stamp |-> stamp]
Active == {"pending", "streaming"}
Terminal == {"failed"}      \* of the ways to end, the one that leaves most open

MessageStatusOrder(status) ==
  CASE status = "pending" -> 0 [] status = "streaming" -> 1 [] OTHER -> 2

Present(rows) == {t \in Turns : rows[t] # NoMessage}

Older(next, existing) ==
  \/ next.stamp < existing.stamp
  \/ next.stamp = existing.stamp
     /\ MessageStatusOrder(next.status) < MessageStatusOrder(existing.status)

NeverOlder(next, existing) == FALSE
KeepsExisting(next, existing) == existing # NoMessage /\ Older(next, existing)

(* The list stays sorted by sequence number, that is by turn *)
ReplaceMessage(rows, t, next) == IF KeepsExisting(next, rows[t]) THEN rows ELSE [rows EXCEPT ![t] = next]

Happens == incidents < MaxIncidents /\ incidents' = incidents + 1

NoFetch == [phase |-> "idle", rows |-> [t \in Turns |-> NoMessage]]
Asked == [NoFetch EXCEPT !.phase = "asked"]
NoAnswer == [phase |-> "none", turn |-> 0, message |-> NoMessage]

-----------------------------------------------------------------------------
(* The conversation on the server: every change of a message is stored and then
   published, the acceptance of a turn by the API and the others by a worker, which
   need not wait for the API; times do not go back and may be the same, but for a
   retry, which is later than what it retries *)
Changes(t, next) ==
  /\ stored' = [stored EXCEPT ![t] = next]
  /\ due' = due \cup {[turn |-> t, message |-> next]}
  /\ UNCHANGED log

Publishes(change) ==
  /\ due' = due \ {change} /\ log' = Append(log, change)
  /\ UNCHANGED <<stored, cache, source, fetch, answer, overtaken, incidents>>

Advances(t) ==
  /\ stored[t].status \in Active
  /\ \A change \in due : change.message.status = "pending"
  /\ \E stamp \in {stored[t].stamp, stored[t].stamp + 1}, status \in {"streaming"} \cup Terminal :
       /\ stamp <= MaxStamp /\ status # stored[t].status
       /\ Changes(t, Message(status, stamp))
  /\ UNCHANGED <<cache, source, fetch, answer, overtaken, incidents>>

ActiveReply(rows) == {t \in Turns : rows[t].status \in Active}

-----------------------------------------------------------------------------
(* useEffect of the selected conversation: a new stream, from the first event; the
   query keeps what it held before and fetches when that is stale *)
Opens ==
  /\ source.state = "closed" /\ Happens
  /\ source' = [state |-> "open", at |-> 0]
  /\ \/ fetch' = Asked
     \/ Present(cache) # {} /\ UNCHANGED fetch
  /\ UNCHANGED <<stored, due, log, cache, answer, overtaken>>

Closes ==
  /\ source.state # "closed"
  /\ source' = [state |-> "closed", at |-> 0]
  /\ UNCHANGED <<stored, due, log, cache, fetch, answer, overtaken, incidents>>

(* lastEventSequence drops what a stream repeats; one that names the last event it
   had repeats nothing *)
OnEvent ==
  /\ source.state = "open" /\ source.at < Len(log)
  /\ source' = [source EXCEPT !.at = @ + 1]
  /\ LET event == log[source.at + 1]
     IN  cache' = ReplaceMessage(cache, event.turn, event.message)
  /\ UNCHANGED <<stored, due, log, fetch, answer, overtaken, incidents>>

(* onError: the connection breaks, and the snapshot is fetched anew *)
Invalidates == fetch' = Asked

OnError ==
  /\ source.state = "open" /\ Happens
  /\ source' = [source EXCEPT !.state = "broken"]
  /\ Invalidates
  /\ UNCHANGED <<stored, due, log, cache, answer, overtaken>>

(* The browser connects again and names the last event it had; a stream that is
   refused it does not ask for again *)
Reconnects ==
  /\ source.state = "broken"
  /\ source' = [source EXCEPT !.state = "open"]
  /\ UNCHANGED <<stored, due, log, cache, fetch, answer, overtaken, incidents>>

ReconnectRefused ==
  /\ source.state = "broken"
  /\ source' = [source EXCEPT !.state = "refused"] /\ Invalidates
  /\ UNCHANGED <<stored, due, log, cache, answer, overtaken, incidents>>

-----------------------------------------------------------------------------
(* fetchConversationMessages: what is read may be shown later, and it is all that
   is shown then *)
FetchReads ==
  /\ fetch.phase = "asked"
  /\ fetch' = [phase |-> "read", rows |-> stored]
  /\ UNCHANGED <<stored, due, log, cache, source, answer, overtaken, incidents>>

FetchArrives ==
  /\ fetch.phase = "read"
  /\ cache' = fetch.rows /\ fetch' = NoFetch
  /\ overtaken' = \E t \in Present(cache) : fetch.rows[t] = NoMessage \/ Older(fetch.rows[t], cache[t])
  /\ UNCHANGED <<stored, due, log, source, answer, incidents>>

FetchFails ==
  /\ fetch.phase # "idle" /\ Happens
  /\ fetch' = NoFetch
  /\ UNCHANGED <<stored, due, log, cache, source, answer, overtaken>>

-----------------------------------------------------------------------------
(* sendDraft: not while a reply is under way, as far as the browser knows *)
Send ==
  /\ source.state # "closed" /\ answer = NoAnswer /\ ActiveReply(cache) = {}
  /\ answer' = [NoAnswer EXCEPT !.phase = "sent"]
  /\ UNCHANGED <<stored, due, log, cache, source, fetch, overtaken, incidents>>

Retry(t) ==
  /\ source.state # "closed" /\ answer = NoAnswer /\ cache[t].status = "failed" /\ Happens
  /\ answer' = [NoAnswer EXCEPT !.phase = "retry", !.turn = t]
  /\ UNCHANGED <<stored, due, log, cache, source, fetch, overtaken>>

(* The turn is accepted and its message published, unless a reply is under way *)
Accepts(t, stamp) ==
  LET message == Message("pending", stamp)
  IN  /\ \A change \in due : change.message.status # "pending"
      /\ Changes(t, message)
      /\ answer' = [phase |-> "accepted", turn |-> t, message |-> message]

AcceptsTurn ==
  /\ answer.phase = "sent" /\ ActiveReply(stored) = {}
  /\ \E t \in Turns \ Present(stored) :
       t = Cardinality(Present(stored)) + 1 /\ Accepts(t, 0)
  /\ UNCHANGED <<cache, source, fetch, overtaken, incidents>>

AcceptsRetry ==
  /\ answer.phase = "retry" /\ ActiveReply(stored) = {} /\ stored[answer.turn].status = "failed"
  /\ stored[answer.turn].stamp < MaxStamp
  /\ Accepts(answer.turn, stored[answer.turn].stamp + 1)
  /\ UNCHANGED <<cache, source, fetch, overtaken, incidents>>

(* onSuccess: the message goes into the conversation that is open by then *)
Answered ==
  /\ answer.phase = "accepted"
  /\ cache' = IF source.state = "closed" THEN cache
              ELSE ReplaceMessage(cache, answer.turn, answer.message)
  /\ answer' = NoAnswer
  /\ UNCHANGED <<stored, due, log, source, fetch, overtaken, incidents>>

(* A request is refused, or its answer is lost *)
Fails ==
  /\ answer # NoAnswer
  /\ answer' = NoAnswer
  /\ UNCHANGED <<stored, due, log, cache, source, fetch, overtaken, incidents>>

-----------------------------------------------------------------------------
Init ==
  /\ stored = [t \in Turns |-> NoMessage] /\ due = {} /\ log = <<>>
  /\ cache = [t \in Turns |-> NoMessage]
  /\ source = [state |-> "closed", at |-> 0]
  /\ fetch = NoFetch /\ answer = NoAnswer /\ overtaken = FALSE
  /\ incidents = 0

Next ==
  \/ \E t \in Turns : Advances(t) \/ Retry(t)
  \/ \E change \in due : Publishes(change)
  \/ Opens \/ Closes \/ OnEvent \/ OnError \/ Reconnects \/ ReconnectRefused
  \/ FetchReads \/ FetchArrives \/ FetchFails
  \/ Send \/ AcceptsTurn \/ AcceptsRetry \/ Answered \/ Fails

Spec == Init /\ [][Next]_vars

-----------------------------------------------------------------------------
(* Every variable has its type. *)
TypeOK ==
  /\ \A t \in Turns : {stored[t].status, cache[t].status} \subseteq {"none"} \cup Active \cup Terminal
  /\ source.state \in {"closed", "open", "broken", "refused"}
  /\ source.at <= Len(log)
  /\ fetch.phase \in {"idle", "asked", "read"}
  /\ answer.phase \in {"none", "sent", "retry", "accepted"}
  /\ overtaken \in BOOLEAN

(* A screen whose stream has brought every event shows every message as it is stored,
   in whatever order events were published, and answers, replayed events and
   snapshots arrived; but no snapshot may have been overtaken by the events it
   replaced (chatState.ts:11). *)
UpToDate ==
  /\ due = {} /\ source.state = "open" /\ source.at = Len(log)
  /\ fetch.phase = "idle" /\ ~overtaken

ScreenIsCurrent == UpToDate => cache = stored

=============================================================================
