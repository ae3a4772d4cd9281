--------------------------- MODULE ReplyLifecycle ---------------------------
(***************************************************************************)
(* What a conversation promises the people who follow it: replies come one *)
(* at a time and in order, a reply that ended stays as it ended, and only  *)
(* a user's retry of the last, unsuccessful one opens it again.            *)
(***************************************************************************)
EXTENDS Naturals

CONSTANT MaxMessages    \* replies a conversation is followed for

VARIABLE status         \* of each assistant message, in order

Messages == 1..MaxMessages
Active == {"pending", "streaming"}
Ended == {"completed", "failed", "stopped"}
Retryable == {"failed", "stopped"}

Quiet == \A m \in Messages : status[m] \notin Active
IsLast(m) == \A n \in Messages : n > m => status[n] = "absent"

Init == status = [m \in Messages |-> "absent"]

Send(m) ==
    /\ Quiet
    /\ status[m] = "absent"
    /\ \A n \in Messages : n < m => status[n] # "absent"
    /\ status' = [status EXCEPT ![m] = "pending"]

Speak(m) ==
    /\ status[m] \in Active
    /\ status' = [status EXCEPT ![m] = "streaming"]

\* Another attempt starts the text over.
Restart(m) ==
    /\ status[m] \in Active
    /\ status' = [status EXCEPT ![m] = "pending"]

End(m) ==
    /\ status[m] \in Active
    /\ \E outcome \in Ended : status' = [status EXCEPT ![m] = outcome]

Retry(m) ==
    /\ Quiet
    /\ IsLast(m)
    /\ status[m] \in Retryable
    /\ status' = [status EXCEPT ![m] = "pending"]

Next ==
    \E m \in Messages : Send(m) \/ Speak(m) \/ Restart(m) \/ End(m) \/ Retry(m)

SafeSpec == Init /\ [][Next]_status
=============================================================================
