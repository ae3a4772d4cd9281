-------------------------- MODULE TaskWorkerProofs --------------------------
(***************************************************************************)
(* Type correctness, the safety properties of TaskWorker and its           *)
(* refinement of TaskLifecycle, for every number of tasks, slots and       *)
(* processes, every attempt budget, lease length and number of faults.     *)
(***************************************************************************)
EXTENDS TaskWorker, TLAPS


USE AttemptsAssumption, LeaseAssumption, DelayAssumption, NoneAssumption,
    ProcessAssumption, FaultsAssumption

----------------------------------------------------------------------------
(* The operations on a row keep it typed and readable. *)

\* A fresh row, as _new_row makes it, is typed and readable.
LEMMA BlankRowTyped ==
  ASSUME NEW state \in {"absent", "pending"}
  PROVE  BlankRow(state) \in Row /\ Readable(BlankRow(state))
  <1>1. ASSUME NEW zero \in 0..MaxAttempts, NEW epoch \in Nat,
               NEW lease \in 0..LeaseFor, NEW wait \in 0..MaxDelay
        PROVE  [state |-> state, attempts |-> zero, epoch |-> epoch,
                owner |-> None, lease |-> lease, wait |-> wait,
                stop |-> FALSE, error |-> None] \in Row
    BY DEF Row, States, Waiting
  <1>2. 0 \in 0..MaxAttempts /\ 0 \in Nat /\ 0 \in 0..LeaseFor /\ 0 \in 0..MaxDelay
    OBVIOUS
  <1>3. BlankRow(state) \in Row
    BY <1>1, <1>2, Zenon DEF BlankRow
  <1>4. Readable(BlankRow(state))
    BY DEF BlankRow, Readable
  <1> QED BY <1>3, <1>4

\* claim returns a typed, readable row: the attempt it charges stays in budget.
LEMMA ClaimedTyped ==
  ASSUME NEW row \in Row, NEW s \in Slots
  PROVE  /\ Claimed(row, s) \in Row
         /\ Readable(Claimed(row, s))
  <1>1. ASSUME NEW a \in 0..MaxAttempts, NEW e \in Nat,
               NEW state \in States, NEW lease \in 0..LeaseFor
        PROVE  [row EXCEPT !.state = state, !.epoch = e, !.owner = s,
                           !.attempts = a, !.lease = lease,
                           !.error = None] \in Row
    BY DEF Row
  <1>2. (IF row.attempts < MaxAttempts THEN row.attempts + 1 ELSE row.attempts)
            \in 0..MaxAttempts
    BY DEF Row
  <1>3. row.epoch + 1 \in Nat
    BY DEF Row
  <1>4. "running" \in States
    BY DEF States
  <1>5. LeaseFor \in 0..LeaseFor
    OBVIOUS
  <1>6. Claimed(row, s) \in Row
    BY <1>1, <1>2, <1>3, <1>4, <1>5, Zenon DEF Claimed
  <1>7. Readable(Claimed(row, s))
    BY DEF Claimed, Row, Readable
  <1> QED BY <1>6, <1>7

\* A claimed row is leased to the claimer under the next token.
LEMMA ClaimedFields ==
  ASSUME NEW row \in Row, NEW s \in Slots
  PROVE  /\ Claimed(row, s).state = "running"
         /\ Claimed(row, s).owner = s
         /\ Claimed(row, s).epoch = row.epoch + 1
         /\ Claimed(row, s).stop = row.stop
         /\ Claimed(row, s).attempts =
                IF row.attempts < MaxAttempts THEN row.attempts + 1 ELSE row.attempts
  BY DEF Claimed, Row

\* heartbeat keeps a running row typed and readable.
LEMMA RenewedTyped ==
  ASSUME NEW row \in Row, Readable(row), row.state = "running"
  PROVE  Renewed(row) \in Row /\ Readable(Renewed(row))
  BY DEF Renewed, Row, Readable

\* complete, fail and cancel leave a row without lease, with an error only when
\* it failed.
LEMMA FinishedTyped ==
  ASSUME NEW row \in Row, Readable(row),
         NEW state \in Terminal, NEW error \in Errors \cup {None},
         state = "failed" <=> error # None
  PROVE  Finished(row, state, error) \in Row /\ Readable(Finished(row, state, error))
  <1>1. ASSUME NEW st \in States, NEW lease \in 0..LeaseFor
        PROVE  [row EXCEPT !.state = st, !.owner = None, !.lease = lease,
                           !.error = error] \in Row
    BY DEF Row
  <1>2. 0 \in 0..LeaseFor /\ state \in States
    BY DEF States
  <1>3. Finished(row, state, error) \in Row
    BY <1>1, <1>2, Zenon DEF Finished
  <1>4. Readable(Finished(row, state, error))
    BY DEF Finished, Row, Readable, States, Waiting, Terminal, Errors
  <1> QED BY <1>3, <1>4

\* retry leaves a row without lease and with the error it waits for.
LEMMA RequeuedTyped ==
  ASSUME NEW row \in Row, Readable(row), NEW delay \in 0..MaxDelay
  PROVE  Requeued(row, delay) \in Row /\ Readable(Requeued(row, delay))
  <1>1. ASSUME NEW lease \in 0..LeaseFor
        PROVE  [row EXCEPT !.state = "retry_wait", !.owner = None, !.lease = lease,
                           !.wait = delay, !.error = "retryable"] \in Row
    BY DEF Row, States, Waiting, Errors
  <1>2. 0 \in 0..LeaseFor
    OBVIOUS
  <1>3. Requeued(row, delay) \in Row
    BY <1>1, <1>2, Zenon DEF Requeued
  <1>4. Readable(Requeued(row, delay))
    BY DEF Requeued, Row, Readable, States, Waiting, Terminal, Errors
  <1> QED BY <1>3, <1>4

\* A stop request changes nothing but the intention.
LEMMA StopMarkedTyped ==
  ASSUME NEW row \in Row, Readable(row)
  PROVE  StopMarked(row) \in Row /\ Readable(StopMarked(row))
  BY DEF StopMarked, Row, Readable

\* The passing of time keeps a row typed and readable.
LEMMA AgedTyped ==
  ASSUME NEW row \in Row, Readable(row)
  PROVE  Aged(row) \in Row /\ Readable(Aged(row))
  <1>1. CountDown(row.lease) \in 0..LeaseFor /\ CountDown(row.wait) \in 0..MaxDelay
    BY DEF Row, CountDown
  <1>2. Aged(row) \in Row
    BY <1>1 DEF Aged, Row
  <1>3. Readable(Aged(row))
    BY DEF Aged, CountDown, Row, Readable
  <1> QED BY <1>2, <1>3

\* The retry delay is positive and at most maximum_retry_delay.
LEMMA BackoffTyped ==
  ASSUME NEW attempts
  PROVE  Backoff(attempts) \in 0..MaxDelay
  <1> DEFINE delay == 2 ^ (attempts - 1)
  <1>1. CASE delay \in 1..MaxDelay
    BY <1>1 DEF Backoff
  <1>2. CASE delay \notin 1..MaxDelay
    BY <1>2 DEF Backoff
  <1> QED BY <1>1, <1>2

\* Whatever run_once writes for an outcome is a typed, readable row.
LEMMA ReportedTyped ==
  ASSUME NEW row \in Row, Readable(row), NEW slot \in Slot, slot.outcome # None
  PROVE  Reported(row, slot) \in Row /\ Readable(Reported(row, slot))
  <1>1. slot.outcome \in Outcomes
    BY DEF Slot
  <1>2. CASE slot.outcome = "done"
    BY <1>2, FinishedTyped DEF Reported, Terminal
  <1>3. CASE slot.outcome = "cancelled"
    BY <1>3, FinishedTyped DEF Reported, Terminal
  <1>4. CASE slot.outcome = "fatal"
    <2>1. Reported(row, slot) = Finished(row, "failed", "fatal")
      BY <1>4 DEF Reported
    <2> QED BY <2>1, FinishedTyped DEF Terminal, Errors
  <1>5. CASE slot.outcome = "retryable"
    <2>1. CASE Exhausted(slot.attempts)
      <3>1. Reported(row, slot) = Finished(row, "failed", "retryable")
        BY <1>5, <2>1 DEF Reported
      <3> QED BY <3>1, FinishedTyped DEF Terminal, Errors
    <2>2. CASE ~Exhausted(slot.attempts)
      <3>1. Reported(row, slot) = Requeued(row, Backoff(slot.attempts))
        BY <1>5, <2>2 DEF Reported
      <3> QED BY <3>1, RequeuedTyped, BackoffTyped
    <2> QED BY <2>1, <2>2
  <1> QED BY <1>1, <1>2, <1>3, <1>4, <1>5 DEF Outcomes

----------------------------------------------------------------------------
(* The steps of a slot keep it typed. *)

\* A slot between two rounds of run_once is typed.
LEMMA IdleSlotTyped == IdleSlot \in Slot
  <1>1. ASSUME NEW epoch \in Nat, NEW attempts \in 0..MaxAttempts
        PROVE  [pc |-> "idle", task |-> None, epoch |-> epoch, attempts |-> attempts,
                stop |-> FALSE, unguarded |-> FALSE, outcome |-> None] \in Slot
    BY DEF Slot, Phases
  <1>2. 0 \in Nat /\ 0 \in 0..MaxAttempts
    OBVIOUS
  <1> QED BY <1>1, <1>2, Zenon DEF IdleSlot

\* An empty table under idle slots is typed.
LEMMA InitTyped == Init => TypeOK
  <1> SUFFICES ASSUME Init PROVE TypeOK
    OBVIOUS
  <1>1. rows \in [Tasks -> Row] /\ \A t \in Tasks : Readable(rows[t])
    BY BlankRowTyped DEF Init, AbsentRow
  <1>2. slots \in [Slots -> Slot]
    BY IdleSlotTyped DEF Init
  <1>3. \A s \in Slots : slots[s].pc = "idle" /\ slots[s].task = None /\ slots[s].outcome = None
    BY DEF Init, IdleSlot
  <1>4. dblock \in [Tasks -> Slots \cup {None}] /\ faults \in 0..MaxFaults
    BY DEF Init
  <1> QED BY <1>1, <1>2, <1>3, <1>4 DEF TypeOK

SlotSound(slot) ==
    /\ slot \in Slot
    /\ slot.pc = "idle" <=> slot.task = None
    /\ slot.pc = "report" <=> slot.outcome # None

\* A heartbeat that passes on a stop keeps the slot sound.
LEMMA InformedSound ==
  ASSUME NEW slot, SlotSound(slot), NEW stop \in BOOLEAN
  PROVE  /\ SlotSound(Informed(slot, stop))
         /\ Informed(slot, stop).stop = (slot.stop \/ stop)
         /\ Informed(slot, stop).pc = slot.pc
         /\ Informed(slot, stop).task = slot.task
         /\ Informed(slot, stop).epoch = slot.epoch
         /\ Informed(slot, stop).attempts = slot.attempts
         /\ Informed(slot, stop).unguarded = slot.unguarded
  <1> DEFINE merged == slot.stop \/ stop
  <1>1. merged \in BOOLEAN
    BY DEF SlotSound, Slot
  <1>2. Informed(slot, stop) = [slot EXCEPT !.stop = merged]
    BY Zenon DEF Informed
  <1> HIDE DEF merged
  <1>3. SlotSound([slot EXCEPT !.stop = merged])
    BY <1>1 DEF SlotSound, Slot
  <1>4. /\ [slot EXCEPT !.stop = merged].stop = merged
        /\ [slot EXCEPT !.stop = merged].pc = slot.pc
        /\ [slot EXCEPT !.stop = merged].task = slot.task
        /\ [slot EXCEPT !.stop = merged].epoch = slot.epoch
        /\ [slot EXCEPT !.stop = merged].attempts = slot.attempts
        /\ [slot EXCEPT !.stop = merged].unguarded = slot.unguarded
    BY <1>1 DEF SlotSound, Slot
  <1> QED BY <1>2, <1>3, <1>4, Zenon DEF merged

\* A slot that enters the guard runs the task it claimed, knowing of the stop
\* the renewed lease reported.
LEMMA EnteredSound ==
  ASSUME NEW slot, SlotSound(slot), slot.pc = "guard", NEW stop \in BOOLEAN
  PROVE  /\ SlotSound(Entered(slot, stop))
         /\ Entered(slot, stop).stop = (slot.stop \/ stop)
         /\ Entered(slot, stop).pc = "run"
         /\ Entered(slot, stop).task = slot.task
         /\ Entered(slot, stop).epoch = slot.epoch
         /\ Entered(slot, stop).attempts = slot.attempts
         /\ Entered(slot, stop).unguarded = slot.unguarded
  <1> DEFINE merged == slot.stop \/ stop
             entered == [slot EXCEPT !.pc = "run", !.stop = merged]
  <1>1. merged \in BOOLEAN
    BY DEF SlotSound, Slot
  <1>2. Entered(slot, stop) = entered
    BY Zenon DEF Entered
  <1> HIDE DEF merged
  <1>3. SlotSound(entered)
    BY <1>1 DEF SlotSound, Slot, Phases
  <1>4. /\ entered.stop = merged
        /\ entered.pc = "run"
        /\ entered.task = slot.task
        /\ entered.epoch = slot.epoch
        /\ entered.attempts = slot.attempts
        /\ entered.unguarded = slot.unguarded
    BY <1>1 DEF SlotSound, Slot
  <1> QED BY <1>2, <1>3, <1>4, Zenon DEF merged

\* Losing the guard's session keeps the slot sound.
LEMMA ExposedSound ==
  ASSUME NEW slot, SlotSound(slot)
  PROVE  /\ SlotSound(Exposed(slot))
         /\ Exposed(slot).unguarded
         /\ Exposed(slot).pc = slot.pc
         /\ Exposed(slot).task = slot.task
         /\ Exposed(slot).epoch = slot.epoch
         /\ Exposed(slot).attempts = slot.attempts
  <1>1. ASSUME NEW b \in BOOLEAN
        PROVE  /\ SlotSound([slot EXCEPT !.unguarded = b])
               /\ [slot EXCEPT !.unguarded = b].unguarded = b
               /\ [slot EXCEPT !.unguarded = b].pc = slot.pc
               /\ [slot EXCEPT !.unguarded = b].task = slot.task
               /\ [slot EXCEPT !.unguarded = b].epoch = slot.epoch
               /\ [slot EXCEPT !.unguarded = b].attempts = slot.attempts
    BY DEF SlotSound, Slot
  <1> QED BY <1>1, Zenon DEF Exposed

\* A handler that ends leaves its slot with an outcome to report.
LEMMA EndedSound ==
  ASSUME NEW slot, SlotSound(slot), slot.pc # "idle", NEW outcome \in Outcomes
  PROVE  /\ SlotSound(Ended(slot, outcome))
         /\ Ended(slot, outcome).pc = "report"
         /\ Ended(slot, outcome).task = slot.task
         /\ Ended(slot, outcome).epoch = slot.epoch
         /\ Ended(slot, outcome).attempts = slot.attempts
  <1>1. ASSUME NEW b \in BOOLEAN
        PROVE  LET ended == [slot EXCEPT !.pc = "report", !.outcome = outcome,
                                         !.unguarded = b]
               IN  /\ SlotSound(ended)
                   /\ ended.pc = "report"
                   /\ ended.task = slot.task
                   /\ ended.epoch = slot.epoch
                   /\ ended.attempts = slot.attempts
    BY DEF SlotSound, Slot, Phases, Outcomes
  <1> QED BY <1>1, Zenon DEF Ended

\* A cancelled handler leaves the slot idle, unwinding or reporting.
LEMMA CancelledSound ==
  ASSUME NEW slot, SlotSound(slot), slot.pc \in Beating
  PROVE  /\ SlotSound(Cancelled(slot))
         /\ Cancelled(slot).pc # "idle" =>
                /\ Cancelled(slot).task = slot.task
                /\ Cancelled(slot).epoch = slot.epoch
                /\ Cancelled(slot).attempts = slot.attempts
         /\ Cancelled(slot).pc \in Executing =>
                /\ slot.pc = "run"
                /\ Cancelled(slot).unguarded = slot.unguarded
  <1>1. CASE slot.pc = "guard"
    <2>1. Cancelled(slot) = IdleSlot /\ IdleSlot.pc = "idle"
      BY <1>1 DEF Cancelled, IdleSlot
    <2>2. SlotSound(IdleSlot)
      BY IdleSlotTyped DEF SlotSound, IdleSlot
    <2> QED BY <2>1, <2>2 DEF Executing
  <1>2. CASE slot.pc = "run"
    <2>1. Cancelled(slot) = [slot EXCEPT !.pc = "unwind"]
      BY <1>2 DEF Cancelled
    <2> QED BY <1>2, <2>1 DEF SlotSound, Slot, Phases, Executing
  <1>3. CASE slot.pc = "report"
    BY <1>3 DEF Cancelled, Executing
  <1> QED BY <1>1, <1>2, <1>3 DEF Beating

\* An idle slot is sound.
LEMMA IdleSound == SlotSound(IdleSlot) /\ IdleSlot.pc = "idle"
  BY IdleSlotTyped DEF SlotSound, IdleSlot

\* A slot that has just claimed a task is sound.
LEMMA EngagedSound ==
  ASSUME NEW t \in Tasks, NEW row \in Row, NEW stop \in BOOLEAN
  PROVE  SlotSound([pc |-> "guard", task |-> t, epoch |-> row.epoch,
                    attempts |-> row.attempts, stop |-> stop,
                    unguarded |-> FALSE, outcome |-> None])
  <1>1. ASSUME NEW e \in Nat, NEW a \in 0..MaxAttempts, NEW b \in BOOLEAN
        PROVE  SlotSound([pc |-> "guard", task |-> t, epoch |-> e, attempts |-> a,
                          stop |-> stop, unguarded |-> b, outcome |-> None])
    BY DEF SlotSound, Slot, Phases
  <1>2. row.epoch \in Nat /\ row.attempts \in 0..MaxAttempts /\ FALSE \in BOOLEAN
    BY DEF Row
  <1> QED BY <1>1, <1>2, Zenon

\* Replacing one slot by a sound one keeps the slots typed.
LEMMA SlotUpdate ==
  ASSUME TypeOK, NEW s \in Slots, NEW slot, SlotSound(slot),
         slots' = [slots EXCEPT ![s] = slot]
  PROVE  /\ slots' \in [Slots -> Slot]
         /\ \A o \in Slots : SlotSound(slots'[o])
         /\ slots'[s] = slot
         /\ \A o \in Slots \ {s} : slots'[o] = slots[o]
  BY DEF TypeOK, SlotSound

\* Replacing one row by a readable one keeps the table typed.
LEMMA RowUpdate ==
  ASSUME TypeOK, NEW t \in Tasks, NEW row \in Row, Readable(row),
         rows' = [rows EXCEPT ![t] = row]
  PROVE  /\ rows' \in [Tasks -> Row]
         /\ \A u \in Tasks : Readable(rows'[u])
         /\ rows'[t] = row
         /\ \A u \in Tasks \ {t} : rows'[u] = rows[u]
  BY DEF TypeOK

\* A slot that is not idle has a task, and its row and snapshot are typed.
LEMMA Engaged ==
  ASSUME TypeOK, NEW s \in Slots
  PROVE  /\ SlotSound(slots[s])
         /\ slots[s].epoch \in Nat
         /\ slots[s].attempts \in 0..MaxAttempts
         /\ slots[s].unguarded \in BOOLEAN
         /\ slots[s].stop \in BOOLEAN
         /\ slots[s].pc # "idle" =>
                /\ slots[s].task \in Tasks
                /\ rows[slots[s].task] \in Row
                /\ Readable(rows[slots[s].task])
                /\ rows[slots[s].task].stop \in BOOLEAN
                /\ rows[slots[s].task].epoch \in Nat
                /\ rows[slots[s].task].attempts \in 0..MaxAttempts
  <1>1. SlotSound(slots[s])
    BY DEF TypeOK, SlotSound
  <1>2. slots[s] \in Slot
    BY <1>1 DEF SlotSound
  <1>3. slots[s].pc # "idle" => slots[s].task \in Tasks
    BY <1>1 DEF SlotSound, Slot
  <1>4. ASSUME NEW t \in Tasks
        PROVE  /\ rows[t] \in Row /\ Readable(rows[t]) /\ rows[t].stop \in BOOLEAN
               /\ rows[t].epoch \in Nat /\ rows[t].attempts \in 0..MaxAttempts
    BY DEF TypeOK, Row
  <1> QED BY <1>1, <1>2, <1>3, <1>4 DEF Slot

\* The named locks stay typed when one is taken or a slot lets go.
LEMMA LockUpdate ==
  ASSUME TypeOK, NEW s \in Slots
  PROVE  /\ Released(s) \in [Tasks -> Slots \cup {None}]
         /\ \A t \in Tasks, l \in Slots \cup {None} :
                [dblock EXCEPT ![t] = l] \in [Tasks -> Slots \cup {None}]
  BY DEF TypeOK, Released

\* What TypeOK asks, by variable.
RowsTyped == rows \in [Tasks -> Row] /\ \A t \in Tasks : Readable(rows[t])
SlotsTyped == slots \in [Slots -> Slot] /\ \A s \in Slots : SlotSound(slots[s])
LocksTyped == dblock \in [Tasks -> Slots \cup {None}]
FaultsTyped == faults \in 0..MaxFaults

\* TypeOK is the typing of its four variables.
LEMMA TypeParts == TypeOK <=> RowsTyped /\ SlotsTyped /\ LocksTyped /\ FaultsTyped
  BY DEF TypeOK, RowsTyped, SlotsTyped, SlotSound, LocksTyped, FaultsTyped

\* The same after a step.
LEMMA TypePartsPrimed ==
  RowsTyped' /\ SlotsTyped' /\ LocksTyped' /\ FaultsTyped' => TypeOK'
  BY DEF TypeOK, RowsTyped, SlotsTyped, SlotSound, LocksTyped, FaultsTyped

\* A fault stays within the bound on faults.
LEMMA FaultTyped == ASSUME TypeOK, Fault PROVE FaultsTyped'
  BY DEF TypeOK, Fault, FaultsTyped

\* Every step of API, slot, process or clock keeps TypeOK: TypeOK is inductive.
LEMMA TypeStep == TypeOK /\ [Next]_vars => TypeOK'
  <1> SUFFICES ASSUME TypeOK, [Next]_vars
               PROVE  RowsTyped' /\ SlotsTyped' /\ LocksTyped' /\ FaultsTyped'
    BY TypePartsPrimed
  <1>0. RowsTyped /\ SlotsTyped /\ LocksTyped /\ FaultsTyped
    BY TypeParts
  <1>a. UNCHANGED rows => RowsTyped'
    BY <1>0 DEF RowsTyped
  <1>b. UNCHANGED slots => SlotsTyped'
    BY <1>0 DEF SlotsTyped
  <1>c. UNCHANGED dblock => LocksTyped'
    BY <1>0 DEF LocksTyped
  <1>d. UNCHANGED faults => FaultsTyped'
    BY <1>0 DEF FaultsTyped
  <1>1. ASSUME NEW t \in Tasks, Submit(t)
        PROVE  RowsTyped' /\ SlotsTyped' /\ LocksTyped' /\ FaultsTyped'
    <2>1. rows' = [rows EXCEPT ![t] = BlankRow("pending")]
      BY <1>1 DEF Submit, NewRow
    <2>2. RowsTyped'
      BY <2>1, BlankRowTyped, RowUpdate DEF RowsTyped
    <2> QED BY <1>1, <2>2, <1>b, <1>c, <1>d DEF Submit
  <1>2. ASSUME NEW t \in Tasks, RequestStop(t)
        PROVE  RowsTyped' /\ SlotsTyped' /\ LocksTyped' /\ FaultsTyped'
    <2>1. rows[t] \in Row /\ Readable(rows[t])
      BY DEF TypeOK
    <2>2. rows' = [rows EXCEPT ![t] = StopMarked(rows[t])]
      BY <1>2 DEF RequestStop
    <2>3. RowsTyped'
      BY <2>1, <2>2, StopMarkedTyped, RowUpdate DEF RowsTyped
    <2> QED BY <1>2, <2>3, <1>b, <1>c, <1>d DEF RequestStop
  <1>3. ASSUME NEW s \in Slots, NEW t \in Tasks, Poll(s, t)
        PROVE  RowsTyped' /\ SlotsTyped' /\ LocksTyped' /\ FaultsTyped'
    <2>1. rows[t] \in Row /\ rows[t].stop \in BOOLEAN
      BY DEF TypeOK, Row
    <2>2. rows' = [rows EXCEPT ![t] = Claimed(rows[t], s)]
      BY <1>3 DEF Poll
    <2>3. RowsTyped' /\ rows'[t] \in Row
      BY <2>1, <2>2, ClaimedTyped, RowUpdate DEF RowsTyped
    <2>4. SlotsTyped'
      BY <1>3, <2>1, <2>3, EngagedSound, SlotUpdate DEF Poll, SlotsTyped
    <2> QED BY <1>3, <2>3, <2>4, <1>c, <1>d DEF Poll
  <1>4. ASSUME NEW s \in Slots, Enter(s)
        PROVE  RowsTyped' /\ SlotsTyped' /\ LocksTyped' /\ FaultsTyped'
    <2> DEFINE t == slots[s].task
    <2>1. slots[s].pc = "guard" /\ t \in Tasks
      BY <1>4, Engaged DEF Enter
    <2>2. CASE HoldsLease(s)
      <3>1. rows[t].state = "running"
        BY <2>2 DEF HoldsLease, Owns
      <3>2. rows' = [rows EXCEPT ![t] = Renewed(rows[t])]
        BY <1>4, <2>2 DEF Enter
      <3>3. RowsTyped'
        BY <2>1, <3>1, <3>2, Engaged, RenewedTyped, RowUpdate DEF RowsTyped
      <3>4. slots' = [slots EXCEPT ![s] = Entered(slots[s], rows[t].stop)]
        BY <1>4, <2>2 DEF Enter
      <3>a. SlotSound(Entered(slots[s], rows[t].stop))
        <4>1. SlotSound(slots[s]) /\ rows[t].stop \in BOOLEAN
          BY <2>1, Engaged
        <4> QED BY <2>1, <4>1, EnteredSound
      <3>5. SlotsTyped'
        BY <3>4, <3>a, SlotUpdate DEF SlotsTyped
      <3>6. LocksTyped'
        BY <1>4, <2>1, <2>2, LockUpdate DEF Enter, LocksTyped
      <3> QED BY <1>4, <3>3, <3>5, <3>6, <1>d DEF Enter
    <2>3. CASE ~HoldsLease(s)
      <3>1. slots' = [slots EXCEPT ![s] = IdleSlot]
        BY <1>4, <2>3 DEF Enter
      <3>2. SlotsTyped'
        BY <3>1, IdleSound, SlotUpdate DEF SlotsTyped
      <3> QED BY <1>4, <2>3, <3>2, <1>a, <1>c, <1>d DEF Enter
    <2> QED BY <2>2, <2>3
  <1>5. ASSUME NEW s \in Slots, GuardTimeout(s)
        PROVE  RowsTyped' /\ SlotsTyped' /\ LocksTyped' /\ FaultsTyped'
    <2>1. slots' = [slots EXCEPT ![s] = Ended(slots[s], "retryable")]
      BY <1>5 DEF GuardTimeout
    <2>2. SlotSound(Ended(slots[s], "retryable"))
      BY <1>5, Engaged, EndedSound DEF GuardTimeout, Outcomes
    <2>3. SlotsTyped'
      BY <2>1, <2>2, SlotUpdate DEF SlotsTyped
    <2> QED BY <1>5, <2>3, <1>a, <1>c, <1>d DEF GuardTimeout
  <1>6. ASSUME NEW s \in Slots, Beat(s)
        PROVE  RowsTyped' /\ SlotsTyped' /\ LocksTyped' /\ FaultsTyped'
    <2> DEFINE t == slots[s].task
    <2>1. slots[s].pc \in Beating /\ t \in Tasks
      BY <1>6, Engaged DEF Beat, Beating
    <2>2. CASE HoldsLease(s)
      <3>1. rows[t].state = "running"
        BY <2>2 DEF HoldsLease, Owns
      <3>2. rows' = [rows EXCEPT ![t] = Renewed(rows[t])]
        BY <1>6, <2>2 DEF Beat
      <3>3. rows[t] \in Row /\ Readable(rows[t]) /\ rows[t].stop \in BOOLEAN
        BY <2>1, Engaged DEF Beating
      <3>4. RowsTyped'
        BY <2>1, <3>1, <3>2, <3>3, RenewedTyped, RowUpdate DEF RowsTyped
      <3>5. slots' = [slots EXCEPT ![s] = Informed(slots[s], rows[t].stop)]
        BY <1>6, <2>2 DEF Beat
      <3>6. SlotsTyped'
        BY <3>3, <3>5, Engaged, InformedSound, SlotUpdate DEF SlotsTyped
      <3> QED BY <1>6, <3>4, <3>6, <1>c, <1>d DEF Beat
    <2>3. CASE ~HoldsLease(s)
      <3>1. slots' = [slots EXCEPT ![s] = Cancelled(slots[s])]
        BY <1>6, <2>3 DEF Beat
      <3>2. SlotsTyped'
        BY <2>1, <3>1, Engaged, CancelledSound, SlotUpdate DEF SlotsTyped
      <3> QED BY <1>6, <2>3, <3>2, <1>a, <1>c, <1>d DEF Beat
    <2> QED BY <2>2, <2>3
  <1>7. ASSUME NEW s \in Slots, BeatFails(s)
        PROVE  RowsTyped' /\ SlotsTyped' /\ LocksTyped' /\ FaultsTyped'
    <2>1. slots[s].pc \in Beating /\ slots' = [slots EXCEPT ![s] = Cancelled(slots[s])]
      BY <1>7 DEF BeatFails, Beating
    <2>2. SlotsTyped'
      BY <2>1, Engaged, CancelledSound, SlotUpdate DEF SlotsTyped
    <2> QED BY <1>7, <2>2, FaultTyped, <1>a, <1>c DEF BeatFails
  <1>8. ASSUME NEW s \in Slots, NEW outcome \in Outcomes, HandlerEnds(s, outcome)
        PROVE  RowsTyped' /\ SlotsTyped' /\ LocksTyped' /\ FaultsTyped'
    <2>1. slots[s].pc # "idle" /\ slots' = [slots EXCEPT ![s] = Ended(slots[s], outcome)]
      BY <1>8 DEF HandlerEnds, Executing
    <2>2. SlotsTyped'
      BY <2>1, Engaged, EndedSound, SlotUpdate DEF SlotsTyped
    <2>3. LocksTyped'
      BY <1>8, LockUpdate DEF HandlerEnds, LocksTyped
    <2> QED BY <1>8, <2>2, <2>3, <1>a, <1>d DEF HandlerEnds
  <1>9. ASSUME NEW s \in Slots, Unwind(s)
        PROVE  RowsTyped' /\ SlotsTyped' /\ LocksTyped' /\ FaultsTyped'
    <2>1. SlotsTyped'
      BY <1>9, IdleSound, SlotUpdate DEF Unwind, SlotsTyped
    <2>2. LocksTyped'
      BY <1>9, LockUpdate DEF Unwind, LocksTyped
    <2> QED BY <1>9, <2>1, <2>2, <1>a, <1>d DEF Unwind
  <1>10. ASSUME NEW s \in Slots, Report(s)
         PROVE  RowsTyped' /\ SlotsTyped' /\ LocksTyped' /\ FaultsTyped'
    <2> DEFINE t == slots[s].task
    <2>1. SlotsTyped'
      BY <1>10, IdleSound, SlotUpdate DEF Report, SlotsTyped
    <2>2. slots[s].pc = "report" /\ t \in Tasks
      BY <1>10, Engaged DEF Report
    <2>3. slots[s] \in Slot /\ slots[s].outcome # None
      BY <2>2, Engaged DEF SlotSound
    <2>4. Reported(rows[t], slots[s]) \in Row /\ Readable(Reported(rows[t], slots[s]))
      BY <2>2, <2>3, Engaged, ReportedTyped
    <2>5. rows' = [rows EXCEPT ![t] = Reported(rows[t], slots[s])] \/ UNCHANGED rows
      BY <1>10 DEF Report
    <2>6. RowsTyped'
      BY <2>2, <2>4, <2>5, <1>a, RowUpdate DEF RowsTyped
    <2> QED BY <1>10, <2>1, <2>6, <1>c, <1>d DEF Report
  <1>11. ASSUME NEW s \in Slots, GuardDrops(s)
         PROVE  RowsTyped' /\ SlotsTyped' /\ LocksTyped' /\ FaultsTyped'
    <2>1. SlotsTyped'
      BY <1>11, Engaged, ExposedSound, SlotUpdate DEF GuardDrops, SlotsTyped
    <2>2. slots[s].task \in Tasks
      BY <1>11, Engaged DEF GuardDrops, Executing
    <2>3. LocksTyped'
      BY <1>11, <2>2, LockUpdate DEF GuardDrops, LocksTyped
    <2> QED BY <1>11, <2>1, <2>3, FaultTyped, <1>a DEF GuardDrops
  <1>12. ASSUME NEW p \in Processes, Crash(p)
         PROVE  RowsTyped' /\ SlotsTyped' /\ LocksTyped' /\ FaultsTyped'
    <2>1. SlotsTyped'
      BY <1>0, <1>12, IdleSound DEF Crash, SlotsTyped, SlotSound
    <2>2. LocksTyped'
      BY <1>0, <1>12 DEF Crash, LocksTyped
    <2> QED BY <1>12, <2>1, <2>2, FaultTyped, <1>a DEF Crash
  <1>13. ASSUME Advance
         PROVE  RowsTyped' /\ SlotsTyped' /\ LocksTyped'
    <2>1. \A t \in Tasks : Aged(rows[t]) \in Row /\ Readable(Aged(rows[t]))
      BY <1>0, AgedTyped DEF RowsTyped
    <2>2. RowsTyped'
      BY <1>13, <2>1 DEF Advance, RowsTyped
    <2> QED BY <1>13, <2>2, <1>b, <1>c DEF Advance
  <1>14. CASE Tick
    BY <1>14, <1>13, <1>d DEF Tick
  <1>15. CASE Stall
    BY <1>15, <1>13, FaultTyped DEF Stall
  <1>16. CASE UNCHANGED vars
    BY <1>16, <1>a, <1>b, <1>c, <1>d DEF vars
  <1> QED
    BY <1>1, <1>2, <1>3, <1>4, <1>5, <1>6, <1>7, <1>8, <1>9, <1>10, <1>11, <1>12,
       <1>14, <1>15, <1>16 DEF Next, SlotStep

\* The table stays readable: no interleaving of claims, renewals, reports and
\* stop requests leaves a row its constraints or DurableTask would refuse.
THEOREM TypeCorrect == Spec => []TypeOK
  <1>1. Init => TypeOK
    BY InitTyped
  <1>2. TypeOK /\ [Next]_vars => TypeOK'
    BY TypeStep
  <1> QED BY <1>1, <1>2, PTL DEF Spec

----------------------------------------------------------------------------
(* The inductive invariant, and what follows from it. *)

\* What a slot took away from its claim agrees with the row for as long as
\* the row is still under that lease.
Snapshots ==
    \A s \in Slots :
        slots[s].pc # "idle" /\ HoldsLease(s)
            => slots[s].attempts = rows[slots[s].task].attempts

\* An executing handler whose session was not dropped holds the named lock,
\* and no other slot of its process executes its task.
Guarded ==
    \A s \in Slots :
        slots[s].pc \in Executing =>
            /\ slots[s].unguarded \/ dblock[slots[s].task] = s
            /\ \A o \in Slots \ {s} :
                   slots[o].pc \in Executing /\ slots[o].task = slots[s].task
                       => ProcessOf[o] # ProcessOf[s]

\* Nothing is known of a task before it is submitted.
AbsentBlank == \A t \in Tasks : rows[t].state = "absent" => rows[t] = AbsentRow

IInv ==
    /\ TypeOK
    /\ Snapshots
    /\ AbsentBlank
    /\ WaitingHasBudget
    /\ FailsOnlyExhausted
    /\ Guarded

\* The invariant holds of an empty table under idle slots.
LEMMA InitInv == Init => IInv
  <1> SUFFICES ASSUME Init PROVE IInv
    OBVIOUS
  <1>1. TypeOK
    BY InitTyped
  <1>2. \A s \in Slots : slots[s].pc = "idle"
    BY DEF Init, IdleSlot
  <1>3. Snapshots /\ Guarded
    BY <1>2 DEF Snapshots, Guarded, Executing
  <1>4. \A t \in Tasks : rows[t] = AbsentRow /\ rows[t].state = "absent"
    BY DEF Init, AbsentRow, BlankRow
  <1>5. AbsentBlank /\ WaitingHasBudget /\ FailsOnlyExhausted
    BY <1>4 DEF AbsentBlank, WaitingHasBudget, FailsOnlyExhausted, Waiting
  <1> QED BY <1>1, <1>3, <1>5 DEF IInv

----------------------------------------------------------------------------
(* What a step does to one row *)

RowKept(t) ==
    /\ rows'[t].state = rows[t].state
    /\ rows'[t].attempts = rows[t].attempts
    /\ rows'[t].epoch = rows[t].epoch
    /\ rows'[t].owner = rows[t].owner
    /\ rows'[t].error = rows[t].error
    /\ rows[t].stop => rows'[t].stop

RowSubmitted(t) == Submit(t) /\ rows'[t] = NewRow

RowClaimed(s, t) == Poll(s, t) /\ rows'[t] = Claimed(rows[t], s)

RowReported(s, t) ==
    /\ Report(s)
    /\ slots[s].task = t
    /\ HoldsLease(s)
    /\ rows'[t] = Reported(rows[t], slots[s])

\* What a stop request does to a row, field by field.
LEMMA StopMarkedFields ==
  ASSUME NEW row \in Row
  PROVE  /\ StopMarked(row).state = row.state
         /\ StopMarked(row).attempts = row.attempts
         /\ StopMarked(row).epoch = row.epoch
         /\ StopMarked(row).owner = row.owner
         /\ StopMarked(row).error = row.error
         /\ row.stop => StopMarked(row).stop
  BY DEF StopMarked, Row

\* What a heartbeat does to a row, field by field.
LEMMA RenewedFields ==
  ASSUME NEW row \in Row
  PROVE  /\ Renewed(row).state = row.state
         /\ Renewed(row).attempts = row.attempts
         /\ Renewed(row).epoch = row.epoch
         /\ Renewed(row).owner = row.owner
         /\ Renewed(row).error = row.error
         /\ Renewed(row).stop = row.stop
  BY DEF Renewed, Row

\* What time does to a row, field by field.
LEMMA AgedFields ==
  ASSUME NEW row \in Row
  PROVE  /\ Aged(row).state = row.state
         /\ Aged(row).attempts = row.attempts
         /\ Aged(row).epoch = row.epoch
         /\ Aged(row).owner = row.owner
         /\ Aged(row).error = row.error
         /\ Aged(row).stop = row.stop
  BY DEF Aged, Row

\* What complete, fail and cancel do to a row, field by field.
LEMMA FinishedFields ==
  ASSUME NEW row \in Row, NEW state \in Terminal, NEW error \in Errors \cup {None}
  PROVE  /\ Finished(row, state, error).state = state
         /\ Finished(row, state, error).attempts = row.attempts
         /\ Finished(row, state, error).epoch = row.epoch
         /\ Finished(row, state, error).error = error
         /\ Finished(row, state, error).stop = row.stop
  BY DEF Finished, Row

\* What retry does to a row, field by field.
LEMMA RequeuedFields ==
  ASSUME NEW row \in Row, NEW delay \in 0..MaxDelay
  PROVE  /\ Requeued(row, delay).state = "retry_wait"
         /\ Requeued(row, delay).attempts = row.attempts
         /\ Requeued(row, delay).epoch = row.epoch
         /\ Requeued(row, delay).error = "retryable"
         /\ Requeued(row, delay).stop = row.stop
  BY DEF Requeued, Row

\* A report settles the task, or puts it back with attempts left; it is
\* failed for a retryable error only with none left.
LEMMA ReportedFields ==
  ASSUME NEW row \in Row, NEW slot \in Slot, slot.outcome # None
  PROVE  /\ Reported(row, slot).state \in Terminal \cup {"retry_wait"}
         /\ Reported(row, slot).attempts = row.attempts
         /\ Reported(row, slot).epoch = row.epoch
         /\ Reported(row, slot).stop = row.stop
         /\ Reported(row, slot).state = "retry_wait" => slot.attempts < MaxAttempts
         /\ /\ Reported(row, slot).state = "failed"
            /\ Reported(row, slot).error = "retryable"
            => slot.attempts = MaxAttempts
  <1>1. slot.outcome \in Outcomes /\ slot.attempts \in 0..MaxAttempts
    BY DEF Slot
  <1>2. CASE slot.outcome = "done"
    <2>1. Reported(row, slot) = Finished(row, "succeeded", None)
      BY <1>2 DEF Reported
    <2> QED BY <2>1, FinishedFields DEF Terminal
  <1>3. CASE slot.outcome = "cancelled"
    <2>1. Reported(row, slot) = Finished(row, "cancelled", None)
      BY <1>3 DEF Reported
    <2> QED BY <2>1, FinishedFields DEF Terminal
  <1>4. CASE slot.outcome = "fatal"
    <2>1. Reported(row, slot) = Finished(row, "failed", "fatal")
      BY <1>4 DEF Reported
    <2> QED BY <2>1, FinishedFields DEF Terminal, Errors
  <1>5. CASE slot.outcome = "retryable"
    <2>1. CASE Exhausted(slot.attempts)
      <3>1. Reported(row, slot) = Finished(row, "failed", "retryable")
        BY <1>5, <2>1 DEF Reported
      <3>2. slot.attempts = MaxAttempts
        BY <1>1, <2>1 DEF Exhausted
      <3> QED BY <3>1, <3>2, FinishedFields DEF Terminal, Errors
    <2>2. CASE ~Exhausted(slot.attempts)
      <3>1. Reported(row, slot) = Requeued(row, Backoff(slot.attempts))
        BY <1>5, <2>2 DEF Reported
      <3>2. slot.attempts < MaxAttempts
        BY <1>1, <2>2 DEF Exhausted
      <3> QED BY <3>1, <3>2, RequeuedFields, BackoffTyped
    <2> QED BY <2>1, <2>2
  <1> QED BY <1>1, <1>2, <1>3, <1>4, <1>5 DEF Outcomes

\* Every step treats each row in one of four ways: it is submitted, claimed,
\* reported under its lease, or kept but for renewal, ageing and a stop.
LEMMA RowStep ==
  ASSUME TypeOK, [Next]_vars, NEW t \in Tasks
  PROVE  \/ RowKept(t)
         \/ RowSubmitted(t)
         \/ \E s \in Slots : RowClaimed(s, t)
         \/ \E s \in Slots : RowReported(s, t)
  <1> DEFINE Goal == \/ RowKept(t)
                     \/ RowSubmitted(t)
                     \/ \E s \in Slots : RowClaimed(s, t)
                     \/ \E s \in Slots : RowReported(s, t)
  <1>0. rows[t] \in Row
    BY DEF TypeOK
  <1>a. ASSUME UNCHANGED rows PROVE Goal
    BY <1>a DEF RowKept
  <1>b. ASSUME NEW u \in Tasks, NEW row, rows' = [rows EXCEPT ![u] = row]
        PROVE  (u = t => rows'[t] = row) /\ (u # t => RowKept(t))
    BY <1>b DEF TypeOK, RowKept
  <1>1. ASSUME NEW u \in Tasks, Submit(u) PROVE Goal
    BY <1>1, <1>b DEF Submit, RowSubmitted
  <1>2. ASSUME NEW u \in Tasks, RequestStop(u) PROVE Goal
    <2>1. rows' = [rows EXCEPT ![u] = StopMarked(rows[u])]
      BY <1>2 DEF RequestStop
    <2>2. RowKept(t)
      BY <1>0, <1>b, <2>1, StopMarkedFields DEF RowKept
    <2> QED BY <2>2
  <1>3. ASSUME NEW s \in Slots, NEW u \in Tasks, Poll(s, u) PROVE Goal
    <2>1. rows' = [rows EXCEPT ![u] = Claimed(rows[u], s)]
      BY <1>3 DEF Poll
    <2> QED BY <1>3, <1>b, <2>1 DEF RowClaimed
  <1>c. ASSUME NEW u \in Tasks, rows' = [rows EXCEPT ![u] = Renewed(rows[u])] PROVE Goal
    <2>1. RowKept(t)
      BY <1>0, <1>b, <1>c, RenewedFields DEF RowKept
    <2> QED BY <2>1
  <1>4. ASSUME NEW s \in Slots, Enter(s) PROVE Goal
    <2>1. slots[s].task \in Tasks
      BY <1>4, Engaged DEF Enter
    <2> QED BY <1>4, <1>a, <1>c, <2>1 DEF Enter
  <1>5. ASSUME NEW s \in Slots, Beat(s) PROVE Goal
    <2>1. slots[s].task \in Tasks
      BY <1>5, Engaged DEF Beat, Beating
    <2> QED BY <1>5, <1>a, <1>c, <2>1 DEF Beat
  <1>6. ASSUME NEW s \in Slots, Report(s) PROVE Goal
    <2>1. slots[s].task \in Tasks
      BY <1>6, Engaged DEF Report
    <2>2. CASE HoldsLease(s)
      <3>1. rows' = [rows EXCEPT ![slots[s].task] = Reported(rows[slots[s].task], slots[s])]
        BY <1>6, <2>2 DEF Report
      <3> QED BY <1>6, <1>b, <2>1, <2>2, <3>1 DEF RowReported
    <2>3. CASE ~HoldsLease(s)
      BY <1>6, <1>a, <2>3 DEF Report
    <2> QED BY <2>2, <2>3
  <1>7. ASSUME Advance PROVE Goal
    <2>1. rows'[t] = Aged(rows[t])
      BY <1>7 DEF Advance
    <2>2. RowKept(t)
      BY <1>0, <2>1, AgedFields DEF RowKept
    <2> QED BY <2>2
  <1>8. ASSUME NEW s \in Slots,
               \/ GuardTimeout(s) \/ BeatFails(s) \/ Unwind(s) \/ GuardDrops(s)
               \/ \E outcome \in Outcomes : HandlerEnds(s, outcome)
        PROVE  Goal
    BY <1>8, <1>a DEF GuardTimeout, BeatFails, Unwind, GuardDrops, HandlerEnds
  <1>9. ASSUME NEW p \in Processes, Crash(p) PROVE Goal
    BY <1>9, <1>a DEF Crash
  <1>10. ASSUME UNCHANGED vars PROVE Goal
    BY <1>10, <1>a DEF vars
  <1> HIDE DEF Goal
  <1>11. Goal
    BY <1>1, <1>2, <1>3, <1>4, <1>5, <1>6, <1>7, <1>8, <1>9, <1>10
       DEF Next, SlotStep, Tick, Stall
  <1> QED BY <1>11 DEF Goal

----------------------------------------------------------------------------
(* What a step does to one slot *)

SlotKept(s) ==
    /\ slots[s].pc # "idle"
    /\ slots'[s].task = slots[s].task
    /\ slots'[s].epoch = slots[s].epoch
    /\ slots'[s].attempts = slots[s].attempts

\* A slot that executes after a step executed the same task before it, or
\* has just entered with its lease confirmed.
StillExecutes(s) ==
    /\ slots[s].pc \in Executing
    /\ slots'[s].task = slots[s].task
    /\ slots[s].unguarded => slots'[s].unguarded

HasEntered(s) ==
    /\ Enter(s)
    /\ HoldsLease(s)
    /\ slots'[s] = Entered(slots[s], rows[slots[s].task].stop)
    /\ dblock'[slots[s].task] = s

\* Every step treats each slot in one of a few ways: it claims, enters the
\* guard, goes on with the task it has, or lets go of it.
LEMMA SlotChange ==
  ASSUME TypeOK, [Next]_vars, NEW s \in Slots, slots'[s].pc # "idle"
  PROVE  /\ SlotKept(s) \/ \E t \in Tasks : Poll(s, t)
         /\ slots'[s].pc \in Executing => StillExecutes(s) \/ HasEntered(s)
  <1> DEFINE Goal == /\ SlotKept(s) \/ \E t \in Tasks : Poll(s, t)
                     /\ slots'[s].pc \in Executing => StillExecutes(s) \/ HasEntered(s)
  <1>0. SlotSound(slots[s])
    BY Engaged
  <1>a. ASSUME slots'[s] = slots[s] PROVE Goal
    BY <1>a DEF SlotKept, StillExecutes
  <1>b. ASSUME NEW o \in Slots, NEW slot, slots' = [slots EXCEPT ![o] = slot]
        PROVE  (o = s => slots'[s] = slot) /\ (o # s => Goal)
    <2>1. o # s => slots'[s] = slots[s]
      BY <1>b DEF TypeOK
    <2>2. o = s => slots'[s] = slot
      BY <1>b DEF TypeOK
    <2> QED BY <1>a, <2>1, <2>2
  <1>1. ASSUME NEW o \in Slots, NEW t \in Tasks, Poll(o, t) PROVE Goal
    <2>1. CASE o # s
      BY <1>1, <1>b, <2>1 DEF Poll
    <2>2. CASE o = s
      <3>1. slots'[s].pc = "guard"
        BY <1>1, <1>b, <2>2 DEF Poll
      <3> QED BY <1>1, <2>2, <3>1 DEF Executing
    <2> QED BY <2>1, <2>2
  <1>2. ASSUME NEW o \in Slots, Enter(o) PROVE Goal
    <2>1. CASE o # s
      BY <1>2, <1>b, <2>1 DEF Enter
    <2>2. CASE o = s /\ HoldsLease(s)
      <3>1. slots'[s] = Entered(slots[s], rows[slots[s].task].stop)
        BY <1>2, <1>b, <2>2 DEF Enter
      <3>2. slots[s].task \in Tasks /\ slots[s].pc = "guard"
            /\ rows[slots[s].task].stop \in BOOLEAN
        BY <1>2, <2>2, Engaged DEF Enter
      <3>3. SlotKept(s)
        BY <1>0, <3>1, <3>2, EnteredSound DEF SlotKept
      <3>4. dblock'[slots[s].task] = s
        BY <1>2, <2>2, <3>2 DEF Enter, TypeOK
      <3>5. HasEntered(s)
        BY <1>2, <2>2, <3>1, <3>4 DEF HasEntered
      <3> QED BY <3>3, <3>5
    <2>3. CASE o = s /\ ~HoldsLease(s)
      BY <1>2, <1>b, <2>3, IdleSound DEF Enter
    <2> QED BY <2>1, <2>2, <2>3
  <1>3. ASSUME NEW o \in Slots, NEW outcome \in Outcomes, slots[o].pc # "idle",
               slots' = [slots EXCEPT ![o] = Ended(slots[o], outcome)]
        PROVE  Goal
    <2>1. CASE o # s
      BY <1>3, <1>b, <2>1
    <2>2. CASE o = s
      <3>1. slots'[s] = Ended(slots[s], outcome)
        BY <1>3, <1>b, <2>2
      <3>2. slots'[s].pc = "report" /\ SlotKept(s)
        BY <1>0, <1>3, <2>2, <3>1, EndedSound DEF SlotKept
      <3> QED BY <3>2 DEF Executing
    <2> QED BY <2>1, <2>2
  <1>4. ASSUME NEW o \in Slots, slots[o].pc \in Beating,
               slots' = [slots EXCEPT ![o] = Cancelled(slots[o])]
        PROVE  Goal
    <2>1. CASE o # s
      BY <1>4, <1>b, <2>1
    <2>2. CASE o = s
      <3>1. slots'[s] = Cancelled(slots[s])
        BY <1>4, <1>b, <2>2
      <3>2. SlotKept(s)
        BY <1>0, <1>4, <2>2, <3>1, CancelledSound DEF SlotKept, Beating
      <3>3. slots'[s].pc \in Executing => StillExecutes(s)
        BY <1>0, <1>4, <2>2, <3>1, CancelledSound DEF StillExecutes, Executing
      <3> QED BY <3>2, <3>3
    <2> QED BY <2>1, <2>2
  <1>5. ASSUME NEW o \in Slots, Beat(o) PROVE Goal
    <2>1. CASE ~HoldsLease(o)
      BY <1>5, <1>4, <2>1 DEF Beat
    <2>2. CASE HoldsLease(o) /\ o # s
      BY <1>5, <1>b, <2>2 DEF Beat
    <2>3. CASE HoldsLease(o) /\ o = s
      <3>1. slots'[s] = Informed(slots[s], rows[slots[s].task].stop)
        BY <1>5, <1>b, <2>3 DEF Beat
      <3>2. slots[s].pc # "idle" /\ rows[slots[s].task].stop \in BOOLEAN
        BY <1>5, <2>3, Engaged DEF Beat, Beating
      <3> QED BY <1>0, <3>1, <3>2, InformedSound DEF SlotKept, StillExecutes
    <2> QED BY <2>1, <2>2, <2>3
  <1>6. ASSUME NEW o \in Slots, GuardDrops(o) PROVE Goal
    <2>1. CASE o # s
      BY <1>6, <1>b, <2>1 DEF GuardDrops
    <2>2. CASE o = s
      <3>1. slots'[s] = Exposed(slots[s]) /\ slots[s].pc # "idle"
        BY <1>6, <1>b, <2>2 DEF GuardDrops, Executing
      <3> QED BY <1>0, <3>1, ExposedSound DEF SlotKept, StillExecutes
    <2> QED BY <2>1, <2>2
  <1>7. ASSUME NEW o \in Slots, slots' = [slots EXCEPT ![o] = IdleSlot] PROVE Goal
    BY <1>7, <1>b, IdleSound
  <1>8. ASSUME NEW p \in Processes, Crash(p) PROVE Goal
    <2>1. slots'[s] = IdleSlot \/ slots'[s] = slots[s]
      BY <1>8 DEF Crash
    <2> QED BY <1>a, <2>1, IdleSound
  <1>9. ASSUME UNCHANGED slots PROVE Goal
    BY <1>9, <1>a
  <1>10. ASSUME NEW o \in Slots,
                GuardTimeout(o) \/ \E outcome \in Outcomes : HandlerEnds(o, outcome)
         PROVE  Goal
    <2>1. "retryable" \in Outcomes
      BY DEF Outcomes
    <2> QED BY <1>3, <1>10, <2>1 DEF GuardTimeout, HandlerEnds, Executing
  <1>11. ASSUME NEW o \in Slots, BeatFails(o) PROVE Goal
    BY <1>4, <1>11 DEF BeatFails, Beating
  <1>12. ASSUME NEW o \in Slots, Unwind(o) \/ Report(o) PROVE Goal
    BY <1>7, <1>12 DEF Unwind, Report
  <1>13. ASSUME \/ \E t \in Tasks : Submit(t) \/ RequestStop(t)
                \/ Tick \/ Stall \/ UNCHANGED vars
         PROVE  Goal
    BY <1>9, <1>13 DEF Submit, RequestStop, Tick, Stall, Advance, vars
  <1> HIDE DEF Goal
  <1>14. Goal
    BY <1>1, <1>2, <1>5, <1>6, <1>8, <1>10, <1>11, <1>12, <1>13 DEF Next, SlotStep
  <1> QED BY <1>14 DEF Goal

----------------------------------------------------------------------------
(* The inductive invariant *)

\* A named lock changes hands only when a slot enters, leaves or loses it.
LEMMA LockChange ==
  ASSUME TypeOK, [Next]_vars, NEW s \in Slots, NEW t \in Tasks,
         dblock[t] = s, slots[s].task = t,
         slots[s].pc \in Executing, slots'[s].pc \in Executing
  PROVE  dblock'[t] = s \/ slots'[s].unguarded
  <1> DEFINE Goal == dblock'[t] = s \/ slots'[s].unguarded
  <1>0. SlotSound(slots[s])
    BY Engaged
  <1>1. ASSUME UNCHANGED dblock PROVE Goal
    BY <1>1
  <1>2. ASSUME NEW o \in Slots, Enter(o) PROVE Goal
    <2>1. slots[o].task \in Tasks
      BY <1>2, Engaged DEF Enter
    <2>2. UNCHANGED dblock \/ dblock' = [dblock EXCEPT ![slots[o].task] = o]
      BY <1>2 DEF Enter
    <2>3. dblock[slots[o].task] = None
      BY <1>2 DEF Enter, GuardFree
    <2>4. slots[o].task # t
      BY <2>3
    <2> QED BY <1>1, <2>2, <2>4 DEF TypeOK
  <1>3. ASSUME NEW o \in Slots, dblock' = Released(o), slots[o].pc \in Executing,
               \/ Unwind(o)
               \/ \E outcome \in Outcomes : HandlerEnds(o, outcome)
        PROVE  Goal
    <2>1. CASE o # s
      BY <1>3, <2>1 DEF Released
    <2>2. CASE o = s
      <3>1. slots'[s] = IdleSlot \/ \E outcome \in Outcomes : slots'[s] = Ended(slots[s], outcome)
        BY <1>3, <2>2 DEF Unwind, HandlerEnds, TypeOK
      <3>2. slots'[s].pc \in {"idle", "report"}
        BY <1>0, <1>3, <2>2, <3>1, IdleSound, EndedSound DEF Executing
      <3> QED BY <3>2 DEF Executing
    <2> QED BY <2>1, <2>2
  <1>4. ASSUME NEW o \in Slots, GuardDrops(o) PROVE Goal
    <2>1. dblock' = [dblock EXCEPT ![slots[o].task] = None] /\ dblock[slots[o].task] = o
      BY <1>4 DEF GuardDrops
    <2>2. CASE o # s
      BY <2>1, <2>2 DEF TypeOK
    <2>3. CASE o = s
      <3>1. slots'[s] = Exposed(slots[s])
        BY <1>4, <2>3 DEF GuardDrops, TypeOK
      <3> QED BY <1>0, <3>1, ExposedSound
    <2> QED BY <2>2, <2>3
  <1>5. ASSUME NEW p \in Processes, Crash(p) PROVE Goal
    <2>1. slots'[s] # IdleSlot
      BY IdleSound DEF Executing
    <2>2. ProcessOf[s] # p
      BY <1>5, <2>1 DEF Crash
    <2> QED BY <1>5, <2>2 DEF Crash
  <1>6. ASSUME \/ \E u \in Tasks : Submit(u) \/ RequestStop(u)
               \/ \E o \in Slots :
                      \/ \E u \in Tasks : Poll(o, u)
                      \/ GuardTimeout(o) \/ Beat(o) \/ BeatFails(o) \/ Report(o)
               \/ Tick \/ Stall \/ UNCHANGED vars
        PROVE  Goal
    BY <1>1, <1>6 DEF Submit, RequestStop, Poll, GuardTimeout, Beat, BeatFails,
                      Report, Tick, Stall, Advance, vars
  <1>7. ASSUME NEW o \in Slots,
               Unwind(o) \/ \E outcome \in Outcomes : HandlerEnds(o, outcome)
        PROVE  Goal
    BY <1>3, <1>7 DEF Unwind, HandlerEnds, Executing
  <1> HIDE DEF Goal
  <1>8. Goal
    BY <1>2, <1>4, <1>5, <1>6, <1>7 DEF Next, SlotStep
  <1> QED BY <1>8 DEF Goal

\* What is known of a slot that has just entered the guard.
LEMMA EnterFacts ==
  ASSUME TypeOK, NEW s \in Slots, HasEntered(s)
  PROVE  /\ slots[s].pc = "guard"
         /\ slots'[s].pc = "run"
         /\ slots'[s].task = slots[s].task
         /\ slots[s].task \in Tasks
         /\ rows[slots[s].task].stop => slots'[s].stop
         /\ dblock'[slots'[s].task] = s
         /\ LocalGuardFree(s, slots[s].task)
         /\ \A o \in Slots \ {s} : slots'[o] = slots[o]
  <1>1. slots[s].pc = "guard" /\ LocalGuardFree(s, slots[s].task)
    BY DEF HasEntered, Enter, GuardFree
  <1>2. SlotSound(slots[s]) /\ slots[s].task \in Tasks
        /\ rows[slots[s].task].stop \in BOOLEAN
    BY <1>1, Engaged
  <1>3. /\ slots'[s].pc = "run" /\ slots'[s].task = slots[s].task
        /\ rows[slots[s].task].stop => slots'[s].stop
    BY <1>1, <1>2, EnteredSound DEF HasEntered
  <1>4. \A o \in Slots \ {s} : slots'[o] = slots[o]
    BY DEF HasEntered, Enter, TypeOK
  <1> QED BY <1>1, <1>2, <1>3, <1>4 DEF HasEntered

\* Handlers keep the guard of their task, or are marked as having lost it, and
\* no two slots of a process execute one task.
LEMMA GuardedStep == TypeOK /\ Guarded /\ [Next]_vars => Guarded'
  <1> SUFFICES ASSUME TypeOK, Guarded, [Next]_vars,
                      NEW s \in Slots, slots'[s].pc \in Executing
               PROVE  /\ slots'[s].unguarded \/ dblock'[slots'[s].task] = s
                      /\ \A o \in Slots \ {s} :
                             slots'[o].pc \in Executing /\ slots'[o].task = slots'[s].task
                                 => ProcessOf[o] # ProcessOf[s]
    BY DEF Guarded
  <1>1. \A o \in Slots : slots'[o].pc \in Executing => StillExecutes(o) \/ HasEntered(o)
    BY SlotChange DEF Executing
  <1>2. slots'[s].unguarded \/ dblock'[slots'[s].task] = s
    <2>1. CASE HasEntered(s)
      BY <2>1, EnterFacts
    <2>2. CASE StillExecutes(s)
      <3>1. slots[s].task \in Tasks
        BY <2>2, Engaged DEF StillExecutes, Executing
      <3>2. slots[s].unguarded \/ dblock[slots[s].task] = s
        BY <2>2 DEF Guarded, StillExecutes
      <3> QED BY <2>2, <3>1, <3>2, LockChange DEF StillExecutes
    <2> QED BY <1>1, <2>1, <2>2
  <1>3. ASSUME NEW o \in Slots \ {s}, slots'[o].pc \in Executing,
               slots'[o].task = slots'[s].task
        PROVE  ProcessOf[o] # ProcessOf[s]
    <2>1. ASSUME NEW a \in Slots, NEW b \in Slots, a # b, HasEntered(a),
                 slots'[b].pc \in Executing, slots'[b].task = slots'[a].task
          PROVE  ProcessOf[b] # ProcessOf[a]
      BY <2>1, EnterFacts DEF LocalGuardFree
    <2>2. CASE StillExecutes(s) /\ StillExecutes(o)
      BY <1>3, <2>2 DEF StillExecutes, Guarded
    <2> QED BY <1>1, <1>3, <2>1, <2>2
  <1> QED BY <1>2, <1>3

\* While a slot holds the lease of its task, the attempts its claim returned are
\* those of the row.
LEMMA SnapshotsStep == TypeOK /\ Snapshots /\ [Next]_vars => Snapshots'
  <1> SUFFICES ASSUME TypeOK, Snapshots, [Next]_vars,
                      NEW s \in Slots, slots'[s].pc # "idle", HoldsLease(s)'
               PROVE  slots'[s].attempts = rows'[slots'[s].task].attempts
    BY DEF Snapshots
  <1>0. TypeOK'
    BY TypeStep
  <1>1. CASE \E t \in Tasks : Poll(s, t)
    <2>1. PICK t \in Tasks : Poll(s, t)
      BY <1>1
    <2>2. slots'[s].task = t /\ slots'[s].attempts = rows'[t].attempts
      BY <2>1 DEF Poll, TypeOK
    <2> QED BY <2>2
  <1>2. CASE SlotKept(s)
    <2> DEFINE t == slots[s].task
    <2>1. t \in Tasks /\ rows[t] \in Row
      BY <1>2, Engaged DEF SlotKept
    <2>2. /\ rows'[t].state = "running" /\ rows'[t].owner = s
          /\ rows'[t].epoch = slots[s].epoch
      BY <1>2 DEF SlotKept, HoldsLease, Owns
    <2>3. ~RowSubmitted(t)
      BY <2>2 DEF RowSubmitted, NewRow, BlankRow
    <2>4. ASSUME NEW o \in Slots, RowReported(o, t) PROVE FALSE
      <3>1. slots[o] \in Slot /\ slots[o].outcome # None
        BY <2>4, Engaged DEF RowReported, Report, SlotSound
      <3> QED BY <2>1, <2>2, <2>4, <3>1, ReportedFields DEF RowReported, Terminal
    <2>5. ASSUME NEW o \in Slots, RowClaimed(o, t) PROVE FALSE
      <3>1. rows'[t].owner = o
        BY <2>1, <2>5, ClaimedFields DEF RowClaimed
      <3> QED BY <1>2, <2>2, <2>5, <3>1 DEF RowClaimed, Poll, SlotKept
    <2>6. RowKept(t)
      BY <2>1, <2>3, <2>4, <2>5, RowStep
    <2>7. HoldsLease(s)
      BY <2>2, <2>6 DEF RowKept, HoldsLease, Owns
    <2> QED BY <1>2, <2>6, <2>7 DEF SlotKept, RowKept, Snapshots
  <1> QED BY <1>1, <1>2, SlotChange

\* The properties of a row that follow from what a step does to it.
RowGood(row) ==
    /\ row.state = "absent" => row = AbsentRow
    /\ row.state \in Waiting => row.attempts < MaxAttempts
    /\ row.state = "failed" /\ row.error = "retryable" => row.attempts = MaxAttempts

\* Nothing but its submission touches an absent row.
LEMMA AbsentStays ==
  ASSUME TypeOK, [Next]_vars, NEW t \in Tasks,
         rows[t] = AbsentRow, rows'[t].state = "absent"
  PROVE  rows'[t] = AbsentRow
  <1> DEFINE Goal == rows'[t] = AbsentRow
  <1>0. rows[t].state = "absent" /\ rows[t].owner = None
    BY DEF AbsentRow, BlankRow
  <1>1. ASSUME NEW u \in Tasks, NEW row, rows' = [rows EXCEPT ![u] = row], u # t
        PROVE  Goal
    BY <1>1
  <1>2. ASSUME NEW u \in Tasks, Submit(u) PROVE Goal
    <2>1. u # t
      BY <1>2 DEF Submit, NewRow, BlankRow, TypeOK
    <2> QED BY <1>1, <1>2, <2>1 DEF Submit
  <1>3. ASSUME NEW u \in Tasks, RequestStop(u) PROVE Goal
    BY <1>0, <1>1, <1>3 DEF RequestStop
  <1>4. ASSUME NEW s \in Slots, NEW u \in Tasks, Poll(s, u) PROVE Goal
    <2>1. u # t
      BY <1>0, <1>4 DEF Poll, Claimable, Waiting
    <2> QED BY <1>1, <1>4, <2>1 DEF Poll
  <1>5. ASSUME NEW s \in Slots, Enter(s) \/ Beat(s) \/ Report(s) PROVE Goal
    <2>1. slots[s].task \in Tasks
      BY <1>5, Engaged DEF Enter, Beat, Beating, Report
    <2>2. HoldsLease(s) => slots[s].task # t
      BY <1>0 DEF HoldsLease, Owns
    <2>3. UNCHANGED rows \/ HoldsLease(s)
      BY <1>5 DEF Enter, Beat, Report
    <2> QED BY <1>1, <1>5, <2>1, <2>2, <2>3 DEF Enter, Beat, Report
  <1>6. ASSUME Advance PROVE Goal
    <2>1. rows'[t] = Aged(AbsentRow)
      BY <1>6 DEF Advance
    <2>2. AbsentRow.lease = 0 /\ AbsentRow.wait = 0
      BY DEF AbsentRow, BlankRow
    <2>3. CountDown(0) = 0
      BY DEF CountDown
    <2>4. Aged(AbsentRow) = [AbsentRow EXCEPT !.lease = AbsentRow.lease,
                                              !.wait = AbsentRow.wait]
      BY <2>2, <2>3, Zenon DEF Aged
    <2>5. AbsentRow \in Row
      BY BlankRowTyped DEF AbsentRow
    <2>6. [AbsentRow EXCEPT !.lease = AbsentRow.lease, !.wait = AbsentRow.wait] = AbsentRow
      BY <2>5 DEF Row
    <2> QED BY <2>1, <2>4, <2>6
  <1>7. ASSUME \/ \E s \in Slots :
                      \/ GuardTimeout(s) \/ BeatFails(s) \/ Unwind(s) \/ GuardDrops(s)
                      \/ \E outcome \in Outcomes : HandlerEnds(s, outcome)
               \/ \E p \in Processes : Crash(p)
               \/ UNCHANGED vars
        PROVE  Goal
    BY <1>7 DEF GuardTimeout, BeatFails, Unwind, GuardDrops, HandlerEnds, Crash, vars
  <1> HIDE DEF Goal
  <1>8. Goal
    BY <1>2, <1>3, <1>4, <1>5, <1>6, <1>7 DEF Next, SlotStep, Tick, Stall
  <1> QED BY <1>8 DEF Goal

\* Rows keep the facts the budget properties rest on.
LEMMA RowGoodStep ==
  ASSUME TypeOK, Snapshots, \A t \in Tasks : RowGood(rows[t]), [Next]_vars
  PROVE  \A t \in Tasks : RowGood(rows'[t])
  <1> SUFFICES ASSUME NEW t \in Tasks PROVE RowGood(rows'[t])
    OBVIOUS
  <1>0. rows[t] \in Row /\ RowGood(rows[t])
    BY DEF TypeOK
  <1>1. CASE RowKept(t)
    <2>1. CASE rows[t].state = "absent"
      BY <1>0, <1>1, <2>1, AbsentStays DEF RowGood, RowKept
    <2>2. CASE rows[t].state # "absent"
      BY <1>0, <1>1, <2>2 DEF RowGood, RowKept
    <2> QED BY <2>1, <2>2
  <1>2. CASE RowSubmitted(t)
    BY <1>2 DEF RowSubmitted, RowGood, NewRow, BlankRow
  <1>3. ASSUME NEW s \in Slots, RowClaimed(s, t) PROVE RowGood(rows'[t])
    <2>1. rows'[t].state = "running"
      BY <1>0, <1>3, ClaimedFields DEF RowClaimed
    <2> QED BY <2>1 DEF RowGood, Waiting
  <1>4. ASSUME NEW s \in Slots, RowReported(s, t) PROVE RowGood(rows'[t])
    <2>1. slots[s] \in Slot /\ slots[s].outcome # None /\ slots[s].pc # "idle"
      BY <1>4, Engaged DEF RowReported, Report, SlotSound
    <2>2. slots[s].attempts = rows[t].attempts
      BY <1>4, <2>1 DEF RowReported, Snapshots
    <2> QED BY <1>0, <1>4, <2>1, <2>2, ReportedFields
            DEF RowReported, RowGood, Terminal, Waiting
  <1> QED BY <1>1, <1>2, <1>3, <1>4, RowStep

\* IInv is inductive.
LEMMA InvStep == IInv /\ [Next]_vars => IInv'
  <1> SUFFICES ASSUME IInv, [Next]_vars PROVE IInv'
    OBVIOUS
  <1>1. TypeOK' /\ Snapshots' /\ Guarded'
    BY TypeStep, SnapshotsStep, GuardedStep DEF IInv
  <1>2. \A t \in Tasks : RowGood(rows[t])
    BY DEF IInv, AbsentBlank, WaitingHasBudget, FailsOnlyExhausted, RowGood
  <1>3. \A t \in Tasks : RowGood(rows'[t])
    BY <1>2, RowGoodStep DEF IInv
  <1>4. AbsentBlank' /\ WaitingHasBudget' /\ FailsOnlyExhausted'
    BY <1>3 DEF AbsentBlank, WaitingHasBudget, FailsOnlyExhausted, RowGood, AbsentRow, BlankRow
  <1> QED BY <1>1, <1>4 DEF IInv

\* IInv holds in every reachable state: the worker's snapshots agree with the
\* rows they hold leases on, and handlers hold their guards.
THEOREM Invariance == Spec => []IInv
  BY InitInv, InvStep, PTL DEF Spec

----------------------------------------------------------------------------
(* The theorems *)

\* A waiting task always has attempts left: the worker's decision to retry,
\* made from the attempts its claim returned, never disagrees with the
\* queue's decision to deliver, made from the row.
THEOREM WaitingAlwaysHasBudget == Spec => []WaitingHasBudget
  <1>1. IInv => WaitingHasBudget
    BY DEF IInv
  <1> QED BY <1>1, Invariance, PTL

\* A task fails for a retryable error only when its attempts are used up.
THEOREM FailureAlwaysExhausted == Spec => []FailsOnlyExhausted
  <1>1. IInv => FailsOnlyExhausted
    BY DEF IInv
  <1> QED BY <1>1, Invariance, PTL

\* Two slots execute one task only in different processes and only after the
\* guard's session of one of them was dropped.
THEOREM AlwaysOneExecution == Spec => []OneExecution
  <1>1. IInv => OneExecution
    <2> SUFFICES ASSUME TypeOK, Guarded,
                        NEW s1 \in Slots, NEW s2 \in Slots, s1 # s2,
                        slots[s1].pc \in Executing, slots[s2].pc \in Executing,
                        slots[s1].task = slots[s2].task
                 PROVE  /\ ProcessOf[s1] # ProcessOf[s2]
                        /\ slots[s1].unguarded \/ slots[s2].unguarded
      BY DEF IInv, OneExecution
    <2>1. slots[s1].unguarded \/ dblock[slots[s1].task] = s1
      BY DEF Guarded
    <2>2. slots[s2].unguarded \/ dblock[slots[s2].task] = s2
      BY DEF Guarded
    <2>3. ProcessOf[s2] # ProcessOf[s1]
      BY DEF Guarded
    <2> QED BY <2>1, <2>2, <2>3
  <1> QED BY <1>1, Invariance, PTL

\* The report of a superseded attempt never moves a task.
THEOREM ReportsFenced == Spec => FencedReports
  <1>1. IInv /\ [Next]_vars =>
          [\A t \in Tasks :
             rows[t].state = "running" /\ rows'[t].state # "running" =>
               \E s \in Slots :
                   /\ slots[s].task = t
                   /\ slots[s].epoch = rows[t].epoch
                   /\ slots[s].pc = "report"
                   /\ slots'[s].pc = "idle"]_vars
    <2> SUFFICES ASSUME TypeOK, [Next]_vars, NEW t \in Tasks,
                        rows[t].state = "running", rows'[t].state # "running"
                 PROVE  \E s \in Slots : /\ slots[s].task = t
                                         /\ slots[s].epoch = rows[t].epoch
                                         /\ slots[s].pc = "report"
                                         /\ slots'[s].pc = "idle"
      BY DEF IInv
    <2>1. \A s \in Slots : ~RowClaimed(s, t)
      BY ClaimedFields DEF RowClaimed, TypeOK
    <2>2. PICK s \in Slots : RowReported(s, t)
      BY <2>1, RowStep DEF RowKept, RowSubmitted, Submit
    <2>3. slots[s].task = t /\ slots[s].epoch = rows[t].epoch /\ slots[s].pc = "report"
      BY <2>2 DEF RowReported, Report, HoldsLease, Owns
    <2>4. slots'[s].pc = "idle"
      BY <2>2, IdleSound DEF RowReported, Report, TypeOK
    <2> QED BY <2>3, <2>4
  <1> QED BY <1>1, Invariance, PTL DEF Spec, FencedReports

\* A requested stop survives claims, takeovers, retries and settlement.
THEOREM StopAlwaysKept == Spec => StopIsKept
  <1>1. IInv /\ [Next]_vars => [\A t \in Tasks : rows[t].stop => rows'[t].stop]_vars
    <2> SUFFICES ASSUME IInv, [Next]_vars, NEW t \in Tasks, rows[t].stop
                 PROVE  rows'[t].stop
      OBVIOUS
    <2>0. TypeOK /\ rows[t] \in Row
      BY DEF IInv, TypeOK
    <2>1. ~RowSubmitted(t)
      BY DEF RowSubmitted, Submit, IInv, AbsentBlank, AbsentRow, BlankRow
    <2>2. ASSUME NEW s \in Slots, RowClaimed(s, t) PROVE rows'[t].stop
      BY <2>0, <2>2, ClaimedFields DEF RowClaimed
    <2>3. ASSUME NEW s \in Slots, RowReported(s, t) PROVE rows'[t].stop
      <3>1. slots[s] \in Slot /\ slots[s].outcome # None
        BY <2>0, <2>3, Engaged DEF RowReported, Report, SlotSound
      <3> QED BY <2>0, <2>3, <3>1, ReportedFields DEF RowReported
    <2> QED BY <2>0, <2>1, <2>2, <2>3, RowStep DEF RowKept
  <1> QED BY <1>1, Invariance, PTL DEF Spec, StopIsKept

\* A handler starts under the newest lease and knows of every earlier stop.
THEOREM AlwaysStartsOwnedAndInformed == Spec => StartsOwnedAndInformed
  <1>1. IInv /\ [Next]_vars =>
          [\A s \in Slots :
             Starts(s) => /\ HoldsLease(s)
                          /\ rows[slots[s].task].stop => slots'[s].stop]_vars
    <2> SUFFICES ASSUME TypeOK, [Next]_vars, NEW s \in Slots, Starts(s)
                 PROVE  HoldsLease(s) /\ (rows[slots[s].task].stop => slots'[s].stop)
      BY DEF IInv
    <2>1. slots'[s].pc \in Executing /\ slots'[s].pc # "idle" /\ ~StillExecutes(s)
      BY DEF Starts, Executing, StillExecutes
    <2>2. HasEntered(s)
      BY <2>1, SlotChange
    <2> QED BY <2>2, EnterFacts DEF HasEntered
  <1> QED BY <1>1, Invariance, PTL DEF Spec, StartsOwnedAndInformed

----------------------------------------------------------------------------
(* Refinement *)

\* The refinement, initially.
LEMMA LifecycleInit == Init => Lifecycle!Init
  <1>1. ASSUME Init PROVE \A t \in Tasks : rows[t].state = "absent" /\ rows[t].attempts = 0 /\ rows[t].epoch = 0
    BY <1>1 DEF Init, AbsentRow, BlankRow
  <1>2. PhaseOf("absent") = "absent"
    BY DEF PhaseOf, Waiting
  <1> QED BY <1>1, <1>2 DEF Lifecycle!Init

\* The phase of a row by its state.
LEMMA PhaseFacts ==
  /\ \A state \in Waiting : PhaseOf(state) = "waiting"
  /\ PhaseOf("running") = "leased"
  /\ \A state \in Terminal \cup {"absent"} : PhaseOf(state) = state
  BY DEF PhaseOf, Waiting, Terminal

\* The step a change of one row is to the callers of the queue.
LEMMA LifecycleOne ==
  ASSUME IInv, [Next]_vars, NEW t \in Tasks, NEW row,
         rows' = [rows EXCEPT ![t] = row],
         \/ RowSubmitted(t)
         \/ \E s \in Slots : RowClaimed(s, t) \/ RowReported(s, t)
  PROVE  Lifecycle!Next
  <1> DEFINE phase == [u \in Tasks |-> PhaseOf(rows[u].state)]
             tries == [u \in Tasks |-> rows[u].attempts]
             lease == [u \in Tasks |-> rows[u].epoch]
  <1>0. TypeOK /\ rows[t] \in Row
    BY DEF IInv, TypeOK
  <1>1. /\ phase' = [phase EXCEPT ![t] = PhaseOf(rows'[t].state)]
        /\ tries' = [tries EXCEPT ![t] = rows'[t].attempts]
        /\ lease' = [lease EXCEPT ![t] = rows'[t].epoch]
    BY <1>0 DEF TypeOK
  <1>2. CASE RowSubmitted(t)
    <2>1. rows[t] = AbsentRow /\ rows[t].state = "absent" /\ rows'[t] = NewRow
      BY <1>2 DEF IInv, AbsentBlank, RowSubmitted, Submit
    <2>2. /\ rows'[t].state = "pending"
          /\ rows'[t].attempts = rows[t].attempts
          /\ rows'[t].epoch = rows[t].epoch
      BY <2>1 DEF AbsentRow, NewRow, BlankRow
    <2>3. phase[t] = "absent" /\ phase' = [phase EXCEPT ![t] = "waiting"]
      BY <1>1, <2>1, <2>2, PhaseFacts DEF Waiting
    <2>4. tries' = tries /\ lease' = lease
      BY <1>1, <2>2
    <2> HIDE DEF phase, tries, lease
    <2>5. phase[t] = "absent" /\ phase' = [phase EXCEPT ![t] = "waiting"]
          /\ tries' = tries /\ lease' = lease
      BY <2>3, <2>4
    <2> USE DEF phase, tries, lease
    <2>6. Lifecycle!Submit(t)
      BY <2>5, Zenon DEF Lifecycle!Submit
    <2> QED BY <2>6 DEF Lifecycle!Next
  <1>3. ASSUME NEW s \in Slots, RowClaimed(s, t) PROVE Lifecycle!Next
    <2>1. /\ rows'[t].state = "running"
          /\ rows'[t].epoch = rows[t].epoch + 1
          /\ rows'[t].attempts =
                 IF rows[t].attempts < MaxAttempts THEN rows[t].attempts + 1 ELSE rows[t].attempts
      BY <1>0, <1>3, ClaimedFields DEF RowClaimed
    <2>2. lease' = [lease EXCEPT ![t] = lease[t] + 1]
      BY <1>1, <2>1
    <2>3. phase' = [phase EXCEPT ![t] = "leased"]
      BY <1>1, <2>1, PhaseFacts
    <2>4. CASE rows[t].state \in Waiting /\ rows[t].attempts < MaxAttempts
      <3>1. phase[t] = "waiting" /\ tries[t] < MaxAttempts
        BY <2>4, PhaseFacts
      <3>2. tries' = [tries EXCEPT ![t] = tries[t] + 1]
        BY <1>1, <2>1, <2>4
      <3>3. Lifecycle!Deliver(t)
        BY <2>2, <2>3, <3>1, <3>2, Zenon DEF Lifecycle!Deliver
      <3> QED BY <3>3 DEF Lifecycle!Next
    <2>5. CASE rows[t].state = "running"
      <3>1. phase[t] = "leased"
        BY <2>5, PhaseFacts
      <3>2. tries' = [tries EXCEPT ![t] = IF tries[t] < MaxAttempts THEN tries[t] + 1 ELSE tries[t]]
        BY <1>1, <2>1
      <3>3. phase' = phase
        BY <2>3, <3>1
      <3>4. Lifecycle!Takeover(t)
        BY <2>2, <3>1, <3>2, <3>3, Zenon DEF Lifecycle!Takeover
      <3> QED BY <3>4 DEF Lifecycle!Next
    <2> QED BY <1>3, <2>4, <2>5 DEF RowClaimed, Poll, Claimable
  <1>4. ASSUME NEW s \in Slots, RowReported(s, t) PROVE Lifecycle!Next
    <2>1. slots[s] \in Slot /\ slots[s].outcome # None /\ slots[s].pc # "idle"
      BY <1>0, <1>4, Engaged DEF RowReported, Report, SlotSound
    <2>2. slots[s].attempts = rows[t].attempts
      BY <1>4, <2>1 DEF RowReported, IInv, Snapshots
    <2>3. rows[t].state = "running"
      BY <1>4 DEF RowReported, HoldsLease, Owns
    <2>4. /\ rows'[t].state \in Terminal \cup {"retry_wait"}
          /\ rows'[t].attempts = rows[t].attempts
          /\ rows'[t].epoch = rows[t].epoch
          /\ rows'[t].state = "retry_wait" => rows[t].attempts < MaxAttempts
      BY <1>0, <1>4, <2>1, <2>2, ReportedFields DEF RowReported
    <2>5. tries' = tries /\ lease' = lease
      BY <1>1, <2>4
    <2>6. phase[t] = "leased"
      BY <2>3, PhaseFacts
    <2>7. CASE rows'[t].state = "retry_wait"
      <3>1. phase' = [phase EXCEPT ![t] = "waiting"] /\ tries[t] < MaxAttempts
        BY <1>1, <2>4, <2>7, PhaseFacts DEF Waiting
      <3>2. Lifecycle!Requeue(t)
        BY <2>5, <2>6, <3>1, Zenon DEF Lifecycle!Requeue
      <3> QED BY <3>2 DEF Lifecycle!Next
    <2>8. CASE rows'[t].state \in Terminal
      <3>1. phase' = [phase EXCEPT ![t] = rows'[t].state]
        BY <1>1, <2>8, PhaseFacts
      <3>2. rows'[t].state \in Lifecycle!Settled
        BY <2>8 DEF Terminal, Lifecycle!Settled
      <3>3. Lifecycle!Settle(t)
        BY <2>5, <2>6, <3>1, <3>2, Zenon DEF Lifecycle!Settle
      <3> QED BY <3>3 DEF Lifecycle!Next
    <2> QED BY <2>4, <2>7, <2>8
  <1> QED BY <1>2, <1>3, <1>4

\* The refinement, step by step.
LEMMA LifecycleStep ==
  ASSUME IInv, [Next]_vars
  PROVE  [Lifecycle!Next]_(Lifecycle!vars)
  <1>0. TypeOK /\ TypeOK'
    BY TypeStep DEF IInv
  <1>1. CASE \A t \in Tasks : RowKept(t)
    <2>1. Lifecycle!vars' = Lifecycle!vars
      BY <1>1, Zenon DEF Lifecycle!vars, RowKept
    <2> QED BY <2>1
  <1>2. ASSUME NEW t \in Tasks, ~RowKept(t)
        PROVE  Lifecycle!Next
    <2>1. \/ RowSubmitted(t)
          \/ \E s \in Slots : RowClaimed(s, t) \/ RowReported(s, t)
      BY <1>0, <1>2, RowStep
    <2>2. rows' = [rows EXCEPT ![t] = rows'[t]]
      BY <1>0, <2>1 DEF RowSubmitted, RowClaimed, RowReported, Submit, Poll, Report, TypeOK
    <2> QED BY <2>1, <2>2, LifecycleOne
  <1> QED BY <1>1, <1>2

\* The table under its workers is the queue its callers were promised.
THEOREM Refinement == Spec => ImplementsLifecycle
  <1>1. Init => Lifecycle!Init
    BY LifecycleInit
  <1>2. IInv /\ [Next]_vars => [Lifecycle!Next]_(Lifecycle!vars)
    BY LifecycleStep
  <1> QED BY <1>1, <1>2, Invariance, PTL DEF Spec, ImplementsLifecycle, Lifecycle!SafeSpec
=============================================================================
