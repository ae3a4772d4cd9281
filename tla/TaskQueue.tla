----------------------------- MODULE TaskQueue -----------------------------
(***************************************************************************)
(* The rows of the durable_tasks table and what one statement of           *)
(* SqlAlchemyTaskQueue does to a row (adapters/persistence/tasks.py).      *)
(*                                                                         *)
(* Every operation locks its row (SELECT ... FOR UPDATE) and commits once, *)
(* so an operation is a function from a row to a row.  Instants are kept   *)
(* as the time left until them: lease is lease_until - now and wait is     *)
(* available_at - now, floored at 0, so the model needs no bound on time.  *)
(* The uuid4 lease token of the n-th claim of a task is the number n,      *)
(* which the row remembers in epoch after the token itself is cleared.     *)
(***************************************************************************)
EXTENDS Integers

CONSTANTS
    Tasks,          \* task identities; (tenant, idempotency key) is unique
    Slots,          \* worker slots, each with a worker_id of its own
    None,           \* SQL NULL
    MaxAttempts,    \* max_attempts of every task
    LeaseFor,       \* lease_for, in ticks
    MaxDelay        \* maximum_retry_delay, in units of base_retry_delay

ASSUME AttemptsAssumption == MaxAttempts \in Nat \ {0}
ASSUME LeaseAssumption == LeaseFor \in Nat \ {0, 1}
ASSUME DelayAssumption == MaxDelay \in Nat \ {0}
ASSUME NoneAssumption == 
    None \notin Slots \cup Tasks \cup {"done", "cancelled", "retryable", "fatal"}

Terminal == {"succeeded", "failed", "cancelled"}
Waiting == {"pending", "retry_wait"}
States == Waiting \cup Terminal \cup {"absent", "running"}

\* Error codes by what led to them: a failure the worker may retry, or one
\* the handler declared final.
Errors == {"retryable", "fatal"}

Row == [state : States,
        attempts : 0..MaxAttempts,
        epoch : Nat,
        owner : Slots \cup {None},
        lease : 0..LeaseFor,
        wait : 0..MaxDelay,
        stop : BOOLEAN,
        error : Errors \cup {None}]

BlankRow(state) ==
    [state |-> state, attempts |-> 0, epoch |-> 0, owner |-> None,
     lease |-> 0, wait |-> 0, stop |-> FALSE, error |-> None]

AbsentRow == BlankRow("absent")

\* DurableTask.__post_init__ and the table's CHECK constraints: a row that
\* breaks one of them cannot be read back by any operation.
Readable(row) ==
    /\ row.state = "running" <=> row.owner # None
    /\ row.state # "running" => row.lease = 0
    /\ row.state \in {"failed", "retry_wait"} <=> row.error # None

----------------------------------------------------------------------------

\* _new_row
NewRow == BlankRow("pending")

\* Broken variant: an expired lease is never taken over.
ClaimableOnce(row) ==
    row.state \in Waiting /\ row.attempts < MaxAttempts /\ row.wait = 0

\* A final attempt that crashed stays claimable: only a handler can settle
\* the task, the queue never gives up on its own.
Claimable(row) ==
    \/ /\ row.state \in Waiting
       /\ row.attempts < MaxAttempts
       /\ row.wait = 0
    \/ /\ row.state = "running"
       /\ row.lease = 0

\* Broken variants: the stop intention of earlier attempts is dropped; a
\* takeover is charged beyond the budget.
ClaimedForgettingStop(row, s) ==
    [row EXCEPT !.state = "running", !.epoch = @ + 1, !.owner = s,
                !.attempts = IF @ < MaxAttempts THEN @ + 1 ELSE @,
                !.lease = LeaseFor, !.error = None, !.stop = FALSE]

ClaimedUncapped(row, s) ==
    [row EXCEPT !.state = "running", !.epoch = @ + 1, !.owner = s,
                !.attempts = @ + 1, !.lease = LeaseFor, !.error = None]

\* claim: one more attempt unless the budget is spent, a fresh token, and
\* the stop intention of earlier attempts kept.
Claimed(row, s) ==
    [row EXCEPT !.state = "running", !.epoch = @ + 1, !.owner = s,
                !.attempts = IF @ < MaxAttempts THEN @ + 1 ELSE @,
                !.lease = LeaseFor, !.error = None]

\* Broken variant: any running row, whoever holds its lease.
OwnsWhileRunning(row, s, epoch) == row.state = "running"

\* _owns: running, and under this very lease.
Owns(row, s, epoch) ==
    /\ row.state = "running"
    /\ row.owner = s
    /\ row.epoch = epoch

\* heartbeat: the lease is renewed whether or not it has run out meanwhile.
Renewed(row) == [row EXCEPT !.lease = LeaseFor]

\* complete, fail, cancel
Finished(row, state, error) ==
    [row EXCEPT !.state = state, !.owner = None, !.lease = 0, !.error = error]

\* Broken variant: the lease stays with the row that waits.
RequeuedLeased(row, delay) ==
    [row EXCEPT !.state = "retry_wait", !.wait = delay, !.error = "retryable"]

\* retry
Requeued(row, delay) ==
    [row EXCEPT !.state = "retry_wait", !.owner = None, !.lease = 0,
                !.wait = delay, !.error = "retryable"]

\* request_stop, request_stop_for_aggregate: silent on a settled task.
StopMarked(row) ==
    IF row.state \in Terminal THEN row ELSE [row EXCEPT !.stop = TRUE]

\* One tick of the clock the instants of a row are compared with.
CountDown(n) == IF n > 0 THEN n - 1 ELSE 0
Aged(row) == [row EXCEPT !.lease = CountDown(@), !.wait = CountDown(@)]
=============================================================================
