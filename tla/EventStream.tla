---------------------------- MODULE EventStream ----------------------------
(***************************************************************************)
(* What the durable journal promises those who follow one of its streams,  *)
(* across API and Worker processes, lost connections and restarts: events  *)
(* are numbered without gaps as they are committed, everybody hears them   *)
(* in that order and once, and nobody is past an event he could still have *)
(* heard.  Only history that retention has taken is ever missed.           *)
(***************************************************************************)
EXTENDS Naturals

CONSTANT Followers

VARIABLES
    last,           \* the number of the newest event
    gone,           \* the events retention has taken
    heard           \* the events each follower has taken in

vars == <<last, gone, heard>>

TypeOK ==
    /\ last \in Nat
    /\ gone \subseteq 1..last
    /\ heard \in [Followers -> SUBSET (1..last)]

Init ==
    /\ last = 0
    /\ gone = {}
    /\ heard = [f \in Followers |-> {}]

\* An event whose commit was held up may be out of date when it is committed.
Publish ==
    /\ last' = last + 1
    /\ gone' = gone \/ gone' = gone \cup {last + 1}
    /\ UNCHANGED heard

Forget ==
    /\ gone \subseteq gone'
    /\ gone' \subseteq 1..last
    /\ UNCHANGED <<last, heard>>

Hear(f, n) ==
    /\ n \in 1..last
    /\ \A m \in heard[f] : m < n
    /\ \A m \in 1..(n - 1) : m \in heard[f] \/ m \in gone
    /\ heard' = [heard EXCEPT ![f] = @ \cup {n}]
    /\ UNCHANGED <<last, gone>>

Next ==
    \/ Publish
    \/ Forget
    \/ \E f \in Followers : \E n \in 1..last : Hear(f, n)

Spec == Init /\ [][Next]_vars
=============================================================================
