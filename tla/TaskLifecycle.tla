--------------------------- MODULE TaskLifecycle ---------------------------
(***************************************************************************)
(* What the durable task queue promises its callers, with neither clocks,  *)
(* leases' owners nor worker processes in sight.  A submitted task waits,  *)
(* is delivered under ever newer leases (at least once), and is settled by *)
(* the current lease alone: it goes back to waiting while attempts remain, *)
(* or reaches one final state it never leaves.                             *)
(***************************************************************************)
EXTENDS Naturals

CONSTANTS
    Tasks,          \* the identities of durable tasks
    MaxAttempts     \* deliveries a task is granted

VARIABLES
    phase,          \* where each task is in its life
    tries,          \* attempts charged to each task
    lease           \* the number of leases granted on each task so far

vars == <<phase, tries, lease>>

Settled == {"succeeded", "failed", "cancelled"}
Phases == {"absent", "waiting", "leased"} \cup Settled

TypeOK ==
    /\ phase \in [Tasks -> Phases]
    /\ tries \in [Tasks -> 0..MaxAttempts]
    /\ lease \in [Tasks -> Nat]

Init ==
    /\ phase = [t \in Tasks |-> "absent"]
    /\ tries = [t \in Tasks |-> 0]
    /\ lease = [t \in Tasks |-> 0]

Submit(t) ==
    /\ phase[t] = "absent"
    /\ phase' = [phase EXCEPT ![t] = "waiting"]
    /\ UNCHANGED <<tries, lease>>

\* A waiting task is delivered only while attempts remain, and each such
\* delivery is charged.
Deliver(t) ==
    /\ phase[t] = "waiting"
    /\ tries[t] < MaxAttempts
    /\ phase' = [phase EXCEPT ![t] = "leased"]
    /\ tries' = [tries EXCEPT ![t] = @ + 1]
    /\ lease' = [lease EXCEPT ![t] = @ + 1]

\* A lease nobody renewed is superseded.  The takeover is charged while
\* attempts remain and is free on the last one.
Takeover(t) ==
    /\ phase[t] = "leased"
    /\ tries' = [tries EXCEPT ![t] = IF @ < MaxAttempts THEN @ + 1 ELSE @]
    /\ lease' = [lease EXCEPT ![t] = @ + 1]
    /\ UNCHANGED phase

\* Only a task with attempts left goes back to waiting: a waiting task
\* without attempts would never be delivered again.
Requeue(t) ==
    /\ phase[t] = "leased"
    /\ tries[t] < MaxAttempts
    /\ phase' = [phase EXCEPT ![t] = "waiting"]
    /\ UNCHANGED <<tries, lease>>

Settle(t) ==
    /\ phase[t] = "leased"
    /\ \E outcome \in Settled : phase' = [phase EXCEPT ![t] = outcome]
    /\ UNCHANGED <<tries, lease>>

Next ==
    \E t \in Tasks :
        Submit(t) \/ Deliver(t) \/ Takeover(t) \/ Requeue(t) \/ Settle(t)

SafeSpec == Init /\ [][Next]_vars

\* Every submitted task is settled in the end.
EventuallySettled ==
    \A t \in Tasks : phase[t] = "waiting" ~> phase[t] \in Settled

Spec == SafeSpec /\ EventuallySettled
=============================================================================
