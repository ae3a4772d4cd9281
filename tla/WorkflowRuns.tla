---------------------------- MODULE WorkflowRuns ----------------------------
(***************************************************************************)
(* One workflow run, from the request that creates it to the answer its    *)
(* caller gets.  The API writes the run and its durable task in one        *)
(* transaction; a worker process claims the task and walks the workflow's  *)
(* nodes, writing the run's row after each; any process may stop the run.  *)
(* Every change is a read, a conditional update in a second transaction    *)
(* and an append to the run's event stream in a third, and other processes *)
(* act between them: the lock a process holds around the first two is its  *)
(* own.  The task obeys TaskLifecycle: one delivery at a time, at least    *)
(* once, settled by the delivery that holds it.                            *)
(***************************************************************************)
EXTENDS Naturals, Sequences, FiniteSets, SequencesExt

CONSTANTS
    NodeCount,      \* nodes of the workflow, executed in the order 1..NodeCount
    AiNodes,        \* the nodes that report which model or employee answers
    Stoppers,       \* processes that may ask for the run to stop
    MaxAttempts,    \* worker_settings.maximum_attempts
    Faults,         \* the faults of this instance
    MaxFaults       \* bound: faults in one behaviour

WorkflowRunsAssumption ==
    /\ NodeCount \in Nat \ {0}
    /\ MaxAttempts \in Nat \ {0}
    /\ AiNodes \subseteq 1..NodeCount
    /\ Faults \subseteq {"crash", "api_crash", "raise"} /\ MaxFaults \in Nat

VARIABLES
    run,        \* the row of workflow_runs
    task,       \* the durable task of the run
    exec,       \* the worker executing the task
    stopper,    \* the stop requests under way
    stream,     \* the events of the run's stream that tell of its end
    waiter,     \* the workflow tool call that waits for the run
    faults      \* faults so far, and whether a step raised

vars == <<run, task, exec, stopper, stream, waiter, faults>>

Chain == [i \in 1..NodeCount |-> i]
NoNode == 0
Active == {"pending", "running"}
Terminal == {"completed", "failed", "stopped"}

\* The columns that decide anything.  epoch stands for started_at: it tells
\* one execution of the run from the next.
RunRow == [status: {"absent"} \cup Active \cup Terminal,
           current: 0..NodeCount, failed: 0..NodeCount,
           completed: {SubSeq(Chain, 1, n) : n \in 0..NodeCount},
           targets: SUBSET AiNodes, error: BOOLEAN, output: BOOLEAN,
           epoch: 0..MaxAttempts + MaxFaults]

StatusFieldsAgree(r) ==
    /\ r.current \in ToSet(r.completed) => r.current = Last(r.completed)
    /\ r.status = "pending" => /\ r.current = NoNode /\ r.completed = <<>>
                               /\ r.epoch = 0
    /\ r.status = "running" => r.epoch > 0
    /\ r.status = "completed" => r.epoch > 0
    /\ r.output <=> r.status = "completed"
    /\ r.error <=> r.status = "failed"
    /\ r.failed = (IF r.status = "failed" THEN r.current ELSE NoNode)

----------------------------------------------------------------------------
(* The transitions of the domain object: what each needs, what it writes.  *)

Absent == [status |-> "absent", current |-> NoNode, failed |-> NoNode,
           completed |-> <<>>, targets |-> {}, error |-> FALSE,
           output |-> FALSE, epoch |-> 0]

Created == [Absent EXCEPT !.status = "pending"]

Started(r) == [r EXCEPT !.status = "running", !.epoch = @ + 1]

NodeStarted(r, n) == [r EXCEPT !.current = n]

NodeCompleted(r, n) == [r EXCEPT !.completed = Append(@, n)]

TargetRecorded(r, n) == [r EXCEPT !.targets = @ \cup {n}]

CompletedRun(r) == [r EXCEPT !.status = "completed", !.output = TRUE]

FailedWithoutNode(r) == [r EXCEPT !.status = "failed", !.error = TRUE]

FailedRun(r) ==
    [r EXCEPT !.status = "failed", !.failed = r.current, !.error = TRUE]

StoppedRun(r) ==
    [r EXCEPT !.status = "stopped", !.failed = NoNode, !.error = FALSE]

Restarted(r) ==
    [r EXCEPT !.status = "running", !.epoch = @ + 1, !.current = NoNode,
              !.completed = <<>>, !.targets = {}]

\* A transition outside its statuses, or for the wrong node, raises.
Allowed(op, r, n) ==
    CASE op = "mark" -> r.status = "pending"
      [] op = "restart" -> r.status \in Active
      [] op = "begin" -> r.status = "running" /\ n \notin ToSet(r.completed)
      [] op = "target" -> /\ r.status = "running" /\ r.current = n
                          /\ n \notin r.targets
      [] op = "end" -> /\ r.status = "running" /\ r.current = n
                       /\ n \notin ToSet(r.completed)
      [] op = "complete" -> r.status = "running"
      [] OTHER -> r.status \in Active

Changed(op, r, n) ==
    CASE op = "mark" -> Started(r)
      [] op = "restart" -> Restarted(r)
      [] op = "begin" -> NodeStarted(r, n)
      [] op = "target" -> TargetRecorded(r, n)
      [] op = "end" -> NodeCompleted(r, n)
      [] op = "complete" -> CompletedRun(r)
      [] op = "fail" -> FailedRun(r)
      [] OTHER -> StoppedRun(r)

----------------------------------------------------------------------------
(* The event stream.                                                       *)

RunEnds == {"run_completed", "run_failed", "run_stopped"}

\* The kind of an event agrees with the run it carries.
EventValid(e) ==
    CASE e.kind \in {"run_started"} -> e.run.status = "running" /\ e.node = NoNode
      [] e.kind = "node_started" -> /\ e.run.status = "running" /\ e.run.current = e.node
                                    /\ e.node \notin ToSet(e.run.completed)
      [] e.kind = "node_completed" -> /\ e.run.status = "running" /\ e.run.current = e.node
                                      /\ e.node \in ToSet(e.run.completed)
      [] e.kind = "node_failed" -> e.run.status = "failed" /\ e.run.failed = e.node
      [] e.kind = "run_completed" -> e.run.status = "completed"
      [] e.kind = "run_failed" -> e.run.status = "failed"
      [] e.kind = "run_stopped" -> e.run.status = "stopped"

Event(kind, r, n) == [kind |-> kind, run |-> r, node |-> n]

\* What is announced when a run ends: the node it failed at first.
EndEvents(r) ==
    CASE r.status = "completed" -> <<Event("run_completed", r, NoNode)>>
      [] r.status = "stopped" -> <<Event("run_stopped", r, NoNode)>>
      [] r.status = "failed" ->
            (IF r.failed = NoNode THEN <<>>
             ELSE <<Event("node_failed", r, r.failed)>>)
            \o <<Event("run_failed", r, NoNode)>>

Announcements(op, r, n) ==
    CASE op \in {"mark", "restart"} -> <<Event("run_started", r, NoNode)>>
      [] op = "begin" -> <<Event("node_started", r, n)>>
      [] op = "end" -> <<Event("node_completed", r, n)>>
      [] op = "target" -> <<>>
      [] OTHER -> EndEvents(r)

\* The key of an event is a digest of its kind and payload: the journal
\* returns the row it already has for a key.
AppendTwice(s, e) == Append(s, e)
AppendOnce(s, e) == IF e \in ToSet(s) THEN s ELSE Append(s, e)

----------------------------------------------------------------------------
(* The durable task, as its callers see it.                                *)

TaskOpen == {"waiting", "leased"}
TaskStates == {"absent", "succeeded", "failed", "cancelled"} \cup TaskOpen

IdleExec == [pc |-> "idle", op |-> "none", node |-> 1, next |-> Absent,
             events |-> <<>>, done |-> <<>>, stop |-> FALSE]

TypeOK ==
    /\ run \in RunRow
    /\ run.status # "absent" => StatusFieldsAgree(run)
    /\ task \in [state: TaskStates, attempts: 0..MaxAttempts, stop: BOOLEAN]
    /\ exec.pc \in {"idle", "load", "read", "write", "publish", "node", "running",
                    "ended", "verify", "error", "succeed", "fail", "cancel", "retry"}
    /\ exec.node \in 1..NodeCount
    /\ exec.next \in RunRow
    /\ stopper \in [Stoppers -> [pc: {"idle", "request", "read", "write", "publish"},
                                 next: RunRow]]
    /\ \A i \in DOMAIN exec.events : EventValid(exec.events[i])
    /\ \A i \in DOMAIN stream : EventValid(stream[i])
    /\ waiter \in [state: {"none", "waiting", "answered"},
                  answer: {"none", "output", "run_failed", "run_stopped"}]
    /\ faults \in [count: 0..MaxFaults, raised: BOOLEAN]

Init ==
    /\ run = Absent
    /\ task = [state |-> "absent", attempts |-> 0, stop |-> FALSE]
    /\ exec = IdleExec
    /\ stopper = [s \in Stoppers |-> [pc |-> "idle", next |-> Absent]]
    /\ stream = <<>>
    /\ waiter = [state |-> "none", answer |-> "none"]
    /\ faults = [count |-> 0, raised |-> FALSE]

----------------------------------------------------------------------------
(* The caller: a workflow tool of an employee, or the manual run route.    *)

Submitted == [state |-> "waiting", attempts |-> 0, stop |-> FALSE]

\* The run and its task are written in one transaction.
CreateRun == run' = Created /\ task' = Submitted

\* A run id is used once: a second request for it is refused.
StartRun ==
    /\ run.status = "absent"
    /\ CreateRun
    /\ waiter' = [waiter EXCEPT !.state = "waiting"]
    /\ UNCHANGED <<exec, stopper, stream, faults>>

\* Only a completed run gives the model an output; the other ends are
\* errors of the tool.
ToolResult(r) ==
    CASE r.status = "completed" -> "output"
      [] r.status = "failed" -> "run_failed"
      [] r.status = "stopped" -> "run_stopped"

\* The tool polls until the row is terminal, without a limit.
WaitEnds ==
    /\ waiter.state = "waiting"
    /\ run.status \in Terminal
    /\ waiter' = [state |-> "answered", answer |-> ToolResult(run)]
    /\ UNCHANGED <<run, task, exec, stopper, stream, faults>>

----------------------------------------------------------------------------
(* Stopping a run: the stop route, or the cancellation of the tool call    *)
(* that waits for it.                                                      *)

StopperAt(s, pc) == stopper[s].pc = pc /\ UNCHANGED <<task, exec, waiter, faults>>
StopperGoes(s, pc) == stopper' = [stopper EXCEPT ![s].pc = pc]

StopAsked(s) ==
    /\ StopperAt(s, "idle")
    /\ run.status \in Active
    /\ StopperGoes(s, "request")
    /\ UNCHANGED <<run, stream>>

\* The flag goes on the one task of the run that is not settled; without
\* one the request is answered "not active" and nothing else happens.
StopRequested(s) ==
    /\ stopper[s].pc = "request"
    /\ IF task.state \in TaskOpen
       THEN task' = [task EXCEPT !.stop = TRUE] /\ StopperGoes(s, "read")
       ELSE UNCHANGED task /\ StopperGoes(s, "idle")
    /\ UNCHANGED <<run, exec, stream, waiter, faults>>

StopReads(s) ==
    /\ StopperAt(s, "read")
    /\ stopper' = [stopper EXCEPT ![s] =
           IF run.status \in Active
           THEN [pc |-> "write", next |-> StoppedRun(run)]
           ELSE [@ EXCEPT !.pc = "idle"]]
    /\ UNCHANGED <<run, stream>>

\* The update names the statuses it may replace, so a row that ended since
\* it was read is left alone.
UpdateAny(r) == run' = r
UpdateActive(r) == run' = IF run.status \in Active THEN r ELSE run

StopWrites(s) ==
    /\ StopperAt(s, "write")
    /\ UpdateActive(stopper[s].next)
    /\ stopper' = [stopper EXCEPT ![s] =
           IF run.status \in Active THEN [@ EXCEPT !.pc = "publish"]
           ELSE [pc |-> "idle", next |-> Absent]]
    /\ UNCHANGED stream

StopPublishes(s) ==
    /\ StopperAt(s, "publish")
    /\ stream' = AppendOnce(stream, Event("run_stopped", stopper[s].next, NoNode))
    /\ stopper' = [stopper EXCEPT ![s] = [pc |-> "idle", next |-> Absent]]
    /\ UNCHANGED run

----------------------------------------------------------------------------
(* The worker.                                                             *)

Worker(pc) == exec.pc = pc /\ UNCHANGED <<stopper, waiter, faults>>
At(pc) == Worker(pc) /\ UNCHANGED task
Goes(pc) == exec' = [exec EXCEPT !.pc = pc]
Performs(op, pc) == exec' = [exec EXCEPT !.pc = pc, !.op = op]

\* A waiting task, or one whose worker vanished, is delivered.
DeliveredWaiting(t) == t.state = "waiting"
Delivered(t) == t.state \in TaskOpen

Claim ==
    /\ Worker("idle")
    /\ Delivered(task)
    /\ task' = [task EXCEPT !.state = "leased",
                            !.attempts = IF @ < MaxAttempts THEN @ + 1 ELSE @]
    /\ exec' = [IdleExec EXCEPT !.pc = "load", !.stop = task.stop]
    /\ UNCHANGED <<run, stream>>

\* A heartbeat tells the handler that a stop was asked for.
Heartbeat ==
    /\ exec.pc # "idle" /\ task.stop /\ ~exec.stop
    /\ exec' = [exec EXCEPT !.stop = TRUE]
    /\ UNCHANGED <<run, task, stopper, stream, waiter, faults>>

\* execute_task: an ended run is only announced again; a stop asked for
\* before the start ends the run; a pending run starts and a run an earlier
\* attempt left behind starts over.
LoadRun ==
    /\ At("load")
    /\ exec' =
        IF run.status \in Terminal
        THEN [exec EXCEPT !.pc = "publish", !.op = "republish", !.next = run,
                          !.events = EndEvents(run)]
        ELSE IF exec.stop
        THEN [exec EXCEPT !.pc = "read", !.op = "cancel"]
        ELSE IF run.status = "pending"
        THEN [exec EXCEPT !.pc = "write", !.op = "mark", !.next = Started(run)]
        ELSE IF task.attempts > 1
        THEN [exec EXCEPT !.pc = "write", !.op = "restart", !.next = Restarted(run)]
        ELSE [exec EXCEPT !.pc = "node"]
    /\ UNCHANGED <<run, stream>>

\* Where the worker goes on when a change found the run already ended.
FoundEnded(op) ==
    CASE op \in {"mark", "restart"} -> Goes("error")
      [] op \in {"begin", "target", "end"} -> Performs("stop", "read")
      [] op = "cancel" -> Goes("cancel")
      [] op = "fail" -> Goes("fail")
      [] op = "abandon" -> exec' = IdleExec
      [] OTHER -> Goes("verify")

\* The result of the graph must be what the row recorded node by node.
ResultAgrees(r) == exec.done = r.completed

\* The first transaction of a change: read the row and apply the
\* transition, which raises when the row does not allow it.
ReadForChange ==
    /\ At("read")
    /\ IF run.status \in Terminal THEN FoundEnded(exec.op)
       ELSE IF /\ Allowed(exec.op, run, exec.node)
               /\ exec.op = "complete" => ResultAgrees(run)
       THEN exec' = [exec EXCEPT !.pc = "write",
                                 !.next = Changed(exec.op, run, exec.node)]
       ELSE Goes(IF exec.op = "cancel" THEN "retry" ELSE "error")
    /\ UNCHANGED <<run, stream>>

\* The second: the conditional update.
WriteChange ==
    /\ At("write")
    /\ UpdateActive(exec.next)
    /\ IF run.status \in Active
       THEN exec' = [exec EXCEPT !.pc = "publish",
                                 !.events = Announcements(exec.op, exec.next, exec.node)]
       ELSE FoundEnded(exec.op)
    /\ UNCHANGED stream

\* The row, read again, decides how the attempt is reported.
VerdictUnread(r) == "succeed"
Verdict(r) ==
    CASE r.status = "stopped" -> "cancel"
      [] r.status = "failed" -> "fail"
      [] OTHER -> "succeed"

\* Where a change leads once it is announced.
Continue ==
    CASE exec.op \in {"mark", "restart"} -> Goes("node")
      [] exec.op = "begin" -> Goes("running")
      [] exec.op = "target" -> Goes("ended")
      [] exec.op = "end" /\ exec.node < NodeCount ->
            exec' = [exec EXCEPT !.pc = "node", !.node = @ + 1]
      [] exec.op = "end" /\ exec.node = NodeCount -> Performs("complete", "read")
      [] exec.op \in {"complete", "stop"} -> Goes("verify")
      [] exec.op = "cancel" -> Goes("cancel")
      [] exec.op = "fail" -> Goes("fail")
      [] exec.op = "abandon" -> exec' = IdleExec
      [] exec.op = "republish" ->
            Goes(Verdict(exec.next))

\* The third: announce it, after the commit and outside any lock.
PublishChange ==
    /\ At("publish")
    /\ IF exec.events = <<>> THEN Continue /\ UNCHANGED stream
       ELSE /\ exec' = [exec EXCEPT !.events = Tail(@)]
            /\ stream' = IF Head(exec.events).run.status \in Terminal
                          THEN AppendOnce(stream, Head(exec.events)) ELSE stream
    /\ UNCHANGED run

\* The compiled graph looks at the stop flag before a node's start is
\* recorded, again after, and when the node's runner ends.
NextNode ==
    /\ At("node")
    /\ Performs(IF exec.stop THEN "stop" ELSE "begin", "read")
    /\ UNCHANGED <<run, stream>>

RunNode ==
    /\ At("running")
    /\ IF exec.stop THEN Performs("stop", "read")
       ELSE IF exec.node \in AiNodes THEN Performs("target", "read")
       ELSE Goes("ended")
    /\ UNCHANGED <<run, stream>>

\* The graph's own list of completed nodes must not hold the node yet.
NodeUpdate(done, n) == Append(done, n)

EndNode ==
    /\ At("ended")
    /\ exec' = IF exec.stop THEN [exec EXCEPT !.pc = "read", !.op = "stop"]
               ELSE IF exec.node \in ToSet(exec.done) THEN [exec EXCEPT !.pc = "error"]
               ELSE [exec EXCEPT !.pc = "read", !.op = "end",
                                 !.done = NodeUpdate(@, exec.node)]
    /\ UNCHANGED <<run, stream>>

VerifyRun ==
    /\ At("verify")
    /\ Goes(Verdict(run))
    /\ UNCHANGED <<run, stream>>

\* A failed attempt is retried while attempts remain; the last one marks
\* the run failed first.
AttemptFailed ==
    /\ At("error")
    /\ IF task.attempts < MaxAttempts THEN Goes("retry")
       ELSE Performs("fail", "read")
    /\ UNCHANGED <<run, stream>>

\* The worker settles the task with the outcome of the handler.
SettleTask ==
    /\ exec.pc \in {"succeed", "fail", "cancel", "retry"}
    /\ task' = [task EXCEPT !.state =
           CASE exec.pc = "succeed" -> "succeeded"
             [] exec.pc = "cancel" -> "cancelled"
             [] exec.pc = "retry" /\ task.attempts < MaxAttempts -> "waiting"
             [] OTHER -> "failed"]
    /\ exec' = IdleExec
    /\ UNCHANGED <<run, stopper, stream, waiter, faults>>

----------------------------------------------------------------------------
(* Faults.                                                                 *)

Fault(f) ==
    /\ f \in Faults /\ faults.count < MaxFaults
    /\ faults' = [count |-> faults.count + 1, raised |-> faults.raised \/ f = "raise"]

\* The worker dies; its lease runs out and the task is delivered again.
WorkerCrash ==
    /\ Fault("crash")
    /\ exec.pc # "idle"
    /\ exec' = IdleExec
    /\ UNCHANGED <<run, task, stopper, stream, waiter>>

\* The lease is lost or the process shuts down: the handler is cancelled,
\* and ends the run on its way out when a stop was asked for.
Interrupt ==
    /\ Fault("crash")
    /\ exec.pc \in {"read", "write", "publish", "node", "running", "ended"}
    /\ exec.op \notin {"none", "mark", "restart", "cancel", "fail", "abandon", "republish"}
    /\ exec.stop
    /\ Performs("abandon", "read")
    /\ UNCHANGED <<run, task, stopper, stream, waiter>>

\* The process serving a stop request dies between two of its steps.
StopperCrash(s) ==
    /\ Fault("api_crash")
    /\ stopper[s].pc # "idle"
    /\ stopper' = [stopper EXCEPT ![s] = [pc |-> "idle", next |-> Absent]]
    /\ UNCHANGED <<run, task, exec, stream, waiter>>

\* A step of the worker raises: the database or the journal is unavailable,
\* a node fails, the clock is behind.  Inside the attempt that is a failed
\* attempt; outside it the worker retries or fails the task by itself.
StepRaises ==
    /\ Fault("raise")
    /\ exec.pc \in {"load", "read", "write", "publish", "node", "running", "ended", "verify"}
    /\ CASE exec.op = "abandon" -> exec' = IdleExec
         [] exec.op \in {"cancel", "fail", "republish"} \/ exec.pc \in {"load", "verify"} ->
                Goes("retry")
         [] OTHER -> Goes("error")
    /\ UNCHANGED <<run, task, stopper, stream, waiter>>

----------------------------------------------------------------------------
WorkerStep ==
    \/ Claim \/ Heartbeat \/ LoadRun \/ ReadForChange \/ WriteChange
    \/ PublishChange \/ NextNode \/ RunNode \/ EndNode \/ VerifyRun
    \/ AttemptFailed \/ SettleTask

StopStep(s) ==
    \/ StopRequested(s) \/ StopReads(s) \/ StopWrites(s) \/ StopPublishes(s)

Next ==
    \/ StartRun \/ WaitEnds \/ WorkerStep
    \/ WorkerCrash \/ Interrupt \/ StepRaises
    \/ \E s \in Stoppers : StopAsked(s) \/ StopStep(s) \/ StopperCrash(s)

\* A worker that is up runs; a caller that waits polls.
Fairness == WF_vars(WorkerStep) /\ WF_vars(WaitEnds)

Spec == Init /\ [][Next]_vars /\ Fairness

----------------------------------------------------------------------------
(* What the runs promise.                                                  *)

\* A run that has ended keeps its row: an update computed from an older
\* read, by a worker or by a stop, never replaces it.
EndedRunStays == [][run.status \in Terminal => run' = run]_vars

\* A settled task tells the truth about its run: success only for a
\* completed run whose end is announced, with every node recorded in order;
\* cancellation only for a stopped one.  A tool that was answered was told
\* the final state.
OutcomeAgrees ==
    /\ task.state = "succeeded" =>
         /\ run.status = "completed"
         /\ run.completed = Chain
         /\ Event("run_completed", run, NoNode) \in ToSet(stream)
    /\ task.state = "cancelled" => run.status = "stopped"
    /\ waiter.state = "answered" => waiter.answer = ToolResult(run)

\* The end of a run is announced at most once, whoever announces it and
\* however often the task is delivered again.
EndAnnouncedOnce ==
    \A i, j \in DOMAIN stream :
        /\ stream[i].kind \in RunEnds
        /\ stream[j].kind \in RunEnds
        => i = j /\ stream[i].run = run

\* A caller that waits is answered, unless some step raised: a fault outside
\* the attempt on the last delivery fails the task and leaves the run active.
Waits == waiter.state = "waiting"
Answered == waiter.state = "answered" \/ faults.raised
WaiterAnswered == Waits ~> Answered
=============================================================================
