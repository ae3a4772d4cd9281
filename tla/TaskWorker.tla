----------------------------- MODULE TaskWorker -----------------------------
(***************************************************************************)
(* The independent Worker processes (tasks/worker.py, worker_app.py) over  *)
(* the durable task table, and the API calls that submit a task or ask it  *)
(* to stop.                                                                *)
(*                                                                         *)
(* A process runs a pool of slots.  A slot claims a task, then waits for   *)
(* the task's execution guard (a process-local lock and a MySQL named      *)
(* lock), renews its lease once more under the guard, runs the handler and *)
(* reports the outcome under the lease it claimed.  Between claim and      *)
(* report a heartbeat coroutine renews the lease and cancels the handler   *)
(* when the lease is gone.                                                 *)
(*                                                                         *)
(* What may go wrong, MaxFaults times in a behaviour: a process dies, a    *)
(* heartbeat raises, a process stalls past its lease, a guard's database   *)
(* session is dropped while its handler runs.                              *)
(***************************************************************************)
EXTENDS TaskQueue

CONSTANTS
    Processes,      \* Worker processes
    ProcessOf,      \* the process each slot runs in
    Serves,         \* the tasks of the kinds each slot has a handler for
    ChildrenOf,     \* the workflow runs a task's handler submits and awaits
    Stoppable,      \* the tasks somebody may ask to stop
    MaxFaults       \* bound on the faults of a behaviour

ASSUME ProcessAssumption == ProcessOf \in [Slots -> Processes]
ASSUME ServesAssumption == Serves \in [Slots -> SUBSET Tasks]
ASSUME ChildrenAssumption == ChildrenOf \in [Tasks -> SUBSET Tasks]
ASSUME StoppableAssumption == Stoppable \subseteq Tasks
ASSUME FaultsAssumption == MaxFaults \in Nat

VARIABLES
    rows,           \* the durable_tasks table
    slots,          \* what each slot is doing, with its snapshot of the claim
    dblock,         \* the slot whose session holds each task's named lock
    faults          \* faults so far

vars == <<rows, slots, dblock, faults>>

Outcomes == {"done", "cancelled", "fatal", "retryable"}

\* guard: waiting for the execution guard; unwind: cancelled for a lost
\* lease, the handler not yet out of the guard; report: the handler ended.
Phases == {"idle", "guard", "run", "unwind", "report"}
Executing == {"run", "unwind"}
Beating == {"guard", "run", "report"}

Slot == [pc : Phases,
         task : Tasks \cup {None},
         epoch : Nat,
         attempts : 0..MaxAttempts,
         stop : BOOLEAN,
         unguarded : BOOLEAN,
         outcome : Outcomes \cup {None}]

IdleSlot == [pc |-> "idle", task |-> None, epoch |-> 0, attempts |-> 0,
             stop |-> FALSE, unguarded |-> FALSE, outcome |-> None]

TypeOK ==
    /\ rows \in [Tasks -> Row]
    /\ \A t \in Tasks : Readable(rows[t])
    /\ slots \in [Slots -> Slot]
    /\ \A s \in Slots : slots[s].pc = "idle" <=> slots[s].task = None
    /\ \A s \in Slots : slots[s].pc = "report" <=> slots[s].outcome # None
    /\ dblock \in [Tasks -> Slots \cup {None}]
    /\ faults \in 0..MaxFaults

Init ==
    /\ rows = [t \in Tasks |-> AbsentRow]
    /\ slots = [s \in Slots |-> IdleSlot]
    /\ dblock = [t \in Tasks |-> None]
    /\ faults = 0

\* What a step does to a slot.
Informed(slot, stop) == [slot EXCEPT !.stop = @ \/ stop]
Entered(slot, stop) == [slot EXCEPT !.pc = "run", !.stop = @ \/ stop]
Exposed(slot) == [slot EXCEPT !.unguarded = TRUE]
Ended(slot, outcome) ==
    [slot EXCEPT !.pc = "report", !.outcome = outcome, !.unguarded = FALSE]

\* Cancelling a handler that has ended has no effect.
Cancelled(slot) ==
    CASE slot.pc = "guard" -> IdleSlot
      [] slot.pc = "run" -> [slot EXCEPT !.pc = "unwind"]
      [] slot.pc = "report" -> slot

HoldsLease(s) == Owns(rows[slots[s].task], s, slots[s].epoch)

Fault == faults < MaxFaults /\ faults' = faults + 1

----------------------------------------------------------------------------
(* The API *)

\* A task is enqueued in the transaction of its business rows.  The run of a
\* workflow an employee calls is submitted by the handler that awaits it.
Submit(t) ==
    /\ rows[t].state = "absent"
    /\ \A p \in Tasks :
           t \in ChildrenOf[p] =>
               \E s \in Slots : slots[s].pc = "run" /\ slots[s].task = p
    /\ rows' = [rows EXCEPT ![t] = NewRow]
    /\ UNCHANGED <<slots, dblock, faults>>

RequestStop(t) ==
    /\ t \in Stoppable
    /\ rows[t].state # "absent"
    /\ ~rows[t].stop
    /\ rows' = [rows EXCEPT ![t] = StopMarked(@)]
    /\ UNCHANGED <<slots, dblock, faults>>

----------------------------------------------------------------------------
(* A slot *)

\* Broken variant: every slot takes tasks of every kind.
CanServeAnyKind(s, t) == TRUE

\* Conversation and workflow handlers have slots of their own.
CanServe(s, t) == t \in Serves[s]

\* claim.  SKIP LOCKED passes over a row another statement holds, so any
\* claimable row may be the one returned.
Poll(s, t) ==
    /\ slots[s].pc = "idle"
    /\ CanServe(s, t)
    /\ Claimable(rows[t])
    /\ rows' = [rows EXCEPT ![t] = Claimed(@, s)]
    /\ slots' = [slots EXCEPT ![s] =
                    [pc |-> "guard", task |-> t,
                     epoch |-> rows'[t].epoch, attempts |-> rows'[t].attempts,
                     stop |-> rows[t].stop, unguarded |-> FALSE, outcome |-> None]]
    /\ UNCHANGED <<dblock, faults>>

\* The process-local lock of a task is held by a slot of the process that
\* executes it; the named lock by whichever session acquired it.
LocalGuardFree(s, t) ==
    \A o \in Slots \ {s} :
        ProcessOf[o] = ProcessOf[s] /\ slots[o].task = t => slots[o].pc \notin Executing

\* Broken variant: handlers run without the guard.
GuardIgnored(s, t) == TRUE

GuardFree(s, t) == LocalGuardFree(s, t) /\ dblock[t] = None

\* Broken variant: the lease is not looked at again under the guard.
EnterUnconfirmed(s) ==
    LET t == slots[s].task IN
    /\ slots[s].pc = "guard"
    /\ GuardFree(s, t)
    /\ dblock' = [dblock EXCEPT ![t] = s]
    /\ slots' = [slots EXCEPT ![s].pc = "run"]
    /\ UNCHANGED <<rows, faults>>

\* _execute_handler: under the guard the lease is renewed first, and the
\* handler runs only while it is still owned, knowing of a stop requested
\* since the claim.
Enter(s) ==
    LET t == slots[s].task IN
    /\ slots[s].pc = "guard"
    /\ GuardFree(s, t)
    /\ \/ /\ HoldsLease(s)
          /\ rows' = [rows EXCEPT ![t] = Renewed(@)]
          /\ dblock' = [dblock EXCEPT ![t] = s]
          /\ slots' = [slots EXCEPT ![s] = Entered(@, rows[t].stop)]
       \/ /\ ~HoldsLease(s)
          /\ slots' = [slots EXCEPT ![s] = IdleSlot]
          /\ UNCHANGED <<rows, dblock>>
    /\ UNCHANGED faults

\* GET_LOCK times out while another process holds the lock: an ordinary
\* failure of this attempt.
GuardTimeout(s) ==
    LET t == slots[s].task IN
    /\ slots[s].pc = "guard"
    /\ LocalGuardFree(s, t)
    /\ dblock[t] # None
    /\ slots' = [slots EXCEPT ![s] = Ended(@, "retryable")]
    /\ UNCHANGED <<rows, dblock, faults>>

\* One round of _heartbeat.
Beat(s) ==
    LET t == slots[s].task IN
    /\ slots[s].pc \in Beating
    /\ \/ /\ HoldsLease(s)
          /\ rows' = [rows EXCEPT ![t] = Renewed(@)]
          /\ slots' = [slots EXCEPT ![s] = Informed(@, rows[t].stop)]
       \/ /\ ~HoldsLease(s)
          /\ slots' = [slots EXCEPT ![s] = Cancelled(@)]
          /\ UNCHANGED rows
    /\ UNCHANGED <<dblock, faults>>

\* A heartbeat that raises gives the lease up, though the row still has it.
BeatFails(s) ==
    /\ Fault
    /\ slots[s].pc \in {"guard", "run"}
    /\ slots' = [slots EXCEPT ![s] = Cancelled(@)]
    /\ UNCHANGED <<rows, dblock>>

Released(s) ==
    [t \in Tasks |-> IF dblock[t] = s THEN None ELSE dblock[t]]

ChildrenSettled(t) == \A c \in ChildrenOf[t] : rows[c].state \in Terminal \cup {"absent"}

\* The handler returns or raises; a cancelled one may still end either way.
\* It waits, however long, for the workflow runs it submitted, unless it is
\* told to stop.
HandlerEnds(s, outcome) ==
    /\ slots[s].pc \in Executing
    /\ \/ slots[s].pc = "unwind"
       \/ slots[s].stop
       \/ ChildrenSettled(slots[s].task)
    /\ slots' = [slots EXCEPT ![s] = Ended(@, outcome)]
    /\ dblock' = Released(s)
    /\ UNCHANGED <<rows, faults>>

\* CancelledError for a lost lease ends the round without a report.
Unwind(s) ==
    /\ slots[s].pc = "unwind"
    /\ slots' = [slots EXCEPT ![s] = IdleSlot]
    /\ dblock' = Released(s)
    /\ UNCHANGED <<rows, faults>>

\* base_retry_delay * 2^(attempts - 1), at most maximum_retry_delay.
Backoff(attempts) ==
    LET delay == 2 ^ (attempts - 1)
    IN  IF delay \in 1..MaxDelay THEN delay ELSE MaxDelay

\* Broken variants: off by one either way.
ExhaustedLate(attempts) == attempts > MaxAttempts
ExhaustedEarly(attempts) == attempts >= MaxAttempts - 1

Exhausted(attempts) == attempts >= MaxAttempts

\* What run_once writes for an outcome, by the attempts its claim returned.
Reported(row, slot) ==
    CASE slot.outcome = "done" -> Finished(row, "succeeded", None)
      [] slot.outcome = "cancelled" -> Finished(row, "cancelled", None)
      [] slot.outcome = "fatal" -> Finished(row, "failed", "fatal")
      [] slot.outcome = "retryable" ->
             IF Exhausted(slot.attempts)
             THEN Finished(row, "failed", "retryable")
             ELSE Requeued(row, Backoff(slot.attempts))

\* The update is dropped when the lease is no longer the slot's.
Report(s) ==
    LET t == slots[s].task IN
    /\ slots[s].pc = "report"
    /\ rows' = IF HoldsLease(s)
               THEN [rows EXCEPT ![t] = Reported(@, slots[s])]
               ELSE rows
    /\ slots' = [slots EXCEPT ![s] = IdleSlot]
    /\ UNCHANGED <<dblock, faults>>

----------------------------------------------------------------------------
(* Processes and time *)

\* A process dies, is shut down, or its pool gives up because one slot
\* raised: every slot stops, its sessions close, and it starts afresh.
\* Leases are left to run out.
Crash(p) ==
    /\ Fault
    /\ \E s \in Slots : ProcessOf[s] = p /\ slots[s].pc # "idle"
    /\ slots' = [s \in Slots |-> IF ProcessOf[s] = p THEN IdleSlot ELSE slots[s]]
    /\ dblock' = [t \in Tasks |->
                     IF dblock[t] # None /\ ProcessOf[dblock[t]] = p
                     THEN None ELSE dblock[t]]
    /\ UNCHANGED rows

\* MySQL drops the session that holds a guard; its handler runs on.
GuardDrops(s) ==
    /\ Fault
    /\ slots[s].pc \in Executing
    /\ dblock[slots[s].task] = s
    /\ dblock' = [dblock EXCEPT ![slots[s].task] = None]
    /\ slots' = [slots EXCEPT ![s] = Exposed(@)]
    /\ UNCHANGED rows

\* A heartbeat renews well before the lease ends, so the clock does not pass
\* the end of a live lease unless its process stalls.
HeartbeatDue ==
    \E s \in Slots :
        /\ slots[s].pc \in Beating
        /\ HoldsLease(s)
        /\ rows[slots[s].task].lease = 1

Advance ==
    /\ \E t \in Tasks : rows[t].lease > 0 \/ rows[t].wait > 0
    /\ rows' = [t \in Tasks |-> Aged(rows[t])]
    /\ UNCHANGED <<slots, dblock>>

Tick == ~HeartbeatDue /\ Advance /\ UNCHANGED faults

Stall == HeartbeatDue /\ Fault /\ Advance

----------------------------------------------------------------------------

SlotStep(s) ==
    \/ \E t \in Tasks : Poll(s, t)
    \/ Enter(s)
    \/ GuardTimeout(s)
    \/ Beat(s)
    \/ BeatFails(s)
    \/ \E outcome \in Outcomes : HandlerEnds(s, outcome)
    \/ Unwind(s)
    \/ Report(s)
    \/ GuardDrops(s)

Next ==
    \/ \E t \in Tasks : Submit(t) \/ RequestStop(t)
    \/ \E s \in Slots : SlotStep(s)
    \/ \E p \in Processes : Crash(p)
    \/ Tick
    \/ Stall

Spec == Init /\ [][Next]_vars

\* Running coroutines make progress; a handler returns in the end once the
\* runs it awaits are settled, since its other calls have timeouts.  Claims go by available_at, so a
\* claimable task is not passed over for ever.
Fairness ==
    /\ \A t \in Tasks : SF_vars(\E s \in Slots : Poll(s, t))
    /\ \A s \in Slots :
           /\ WF_vars(Enter(s))
           /\ WF_vars(Beat(s))
           /\ WF_vars(\E outcome \in Outcomes : HandlerEnds(s, outcome))
           /\ WF_vars(Unwind(s))
           /\ WF_vars(Report(s))
    /\ WF_vars(Tick)

LiveSpec == Spec /\ Fairness

----------------------------------------------------------------------------
(* Properties *)

\* A task that waits for its next delivery has attempts left.  The worker
\* decides to retry by the attempts its claim returned, the queue decides to
\* deliver by the row: if the two ever disagreed, a task would sit in
\* retry_wait for good, counted as backlog and never claimed.
WaitingHasBudget ==
    \A t \in Tasks : rows[t].state \in Waiting => rows[t].attempts < MaxAttempts

\* A task fails for a retryable error only once its attempts are used up:
\* a late report of an earlier attempt never cuts the later ones short.
FailsOnlyExhausted ==
    \A t \in Tasks :
        rows[t].state = "failed" /\ rows[t].error = "retryable"
            => rows[t].attempts = MaxAttempts

\* Two handlers execute the same task at once only in different processes,
\* and only when one of them lost the database session of its guard.  An
\* expired lease alone, however it came about, never lets a second handler in.
OneExecution ==
    \A s1, s2 \in Slots :
        /\ s1 # s2
        /\ slots[s1].pc \in Executing
        /\ slots[s2].pc \in Executing
        /\ slots[s1].task = slots[s2].task
        => /\ ProcessOf[s1] # ProcessOf[s2]
           /\ slots[s1].unguarded \/ slots[s2].unguarded

Starts(s) == slots[s].pc = "guard" /\ slots'[s].pc = "run"

\* A handler starts only under the newest lease of an unfinished task, and
\* knowing of every stop requested until then, however long the slot waited
\* for the guard while others reclaimed or finished the task.
StartsOwnedAndInformed ==
    [][\A s \in Slots :
           Starts(s) =>
               /\ HoldsLease(s)
               /\ rows[slots[s].task].stop => slots'[s].stop]_vars

\* Only the slot that holds the newest lease moves a task out of running:
\* the report of a superseded attempt changes nothing.
FencedReports ==
    [][\A t \in Tasks :
           rows[t].state = "running" /\ rows'[t].state # "running" =>
               \E s \in Slots :
                   /\ slots[s].task = t
                   /\ slots[s].epoch = rows[t].epoch
                   /\ slots[s].pc = "report"
                   /\ slots'[s].pc = "idle"]_vars

\* A stop once requested stays with the task through retries and takeovers.
StopIsKept ==
    [][\A t \in Tasks : rows[t].stop => rows'[t].stop]_vars

\* The queue as its callers see it.
PhaseOf(state) ==
    CASE state \in Waiting -> "waiting"
      [] state = "running" -> "leased"
      [] OTHER -> state

Lifecycle == INSTANCE TaskLifecycle WITH
    phase <- [t \in Tasks |-> PhaseOf(rows[t].state)],
    tries <- [t \in Tasks |-> rows[t].attempts],
    lease <- [t \in Tasks |-> rows[t].epoch]

\* The table under its workers implements the promise made to callers.
ImplementsLifecycle == Lifecycle!SafeSpec

\* And, faults being finitely many, every submitted task is settled, nested
\* workflow runs included: conversations that wait for the runs they started
\* cannot use up the slots those runs need.
EventuallySettled == Lifecycle!EventuallySettled
=============================================================================
