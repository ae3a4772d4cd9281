------------------------- MODULE WorkflowRunsProofs -------------------------
(***************************************************************************)
(* WorkflowRuns, for any workflow, stop requests, attempts and faults: an   *)
(* ended run keeps its row, its end is announced at most once, and a task   *)
(* that is settled as a success or a cancellation tells the truth.          *)
(*                                                                          *)
(* The conditional update carries the argument: once a run has ended, every *)
(* other writer finds it so.  Each point of a worker then knows of the run  *)
(* whether it can have ended and by whom, and what of its end is announced. *)
(***************************************************************************)
EXTENDS WorkflowRuns, TLAPS

Endings == {"complete", "fail", "abandon", "stop", "cancel"}
Beginnings == {"mark", "restart"}
Progress == {"begin", "target", "end"}
Ops == Endings \cup Beginnings \cup Progress \cup {"none", "republish"}
Places == {"idle", "load", "read", "write", "publish", "node", "running", "ended",
           "verify", "error", "succeed", "fail", "cancel", "retry"}
Changing == {"read", "write", "publish"}

Row == [status : {"absent"} \cup Active \cup Terminal, current : 0..NodeCount,
        failed : 0..NodeCount, completed : Seq(Nat), targets : SUBSET Nat,
        error : BOOLEAN, output : BOOLEAN, epoch : Nat]
Kinds == {"run_started", "node_started", "node_completed", "node_failed"} \cup RunEnds
RunEvent == [kind : Kinds, run : Row, node : Nat]
Worked == [pc : Places, op : Ops, node : 1..NodeCount, next : Row, events : Seq(RunEvent),
           done : Seq(Nat), stop : BOOLEAN]
Stopping == [pc : {"idle", "request", "read", "write", "publish"}, next : Row]

WTyped ==
  /\ run \in Row
  /\ task \in [state : TaskStates, attempts : Nat, stop : BOOLEAN]
  /\ exec \in Worked
  /\ stopper \in [Stoppers -> Stopping]
  /\ stream \in Seq(RunEvent)
  /\ waiter \in [state : {"none", "waiting", "answered"},
                 answer : {"none", "output", "run_failed", "run_stopped"}]

-----------------------------------------------------------------------------
(* Vocabulary *)

Upto(n) == [i \in 1..n |-> i]
Ends(r) == ToSet(EndEvents(r))
After(op) == CASE op = "complete" -> "completed" [] op = "fail" -> "failed" [] OTHER -> "stopped"

(* A run that only a stop can have ended *)
Going(r) == r.status \in Active \cup {"stopped"}

(* What the graph's own list of nodes holds at each point *)
Listed(x) ==
  /\ x.pc = "load" \/ (x.pc \in {"write", "publish"} /\ x.op \in Beginnings)
       => x.node = 1 /\ x.done = Upto(0)
  /\ x.pc \in {"node", "running", "ended"} \/ (x.pc \in Changing /\ x.op \in {"begin", "target"})
       => x.done = Upto(x.node - 1)
  /\ x.pc \in Changing /\ x.op = "end" => x.done = Upto(x.node)
  /\ x.pc \in Changing /\ x.op = "complete" => x.done = Chain

(* What a change is about to write or to announce *)
Planned(x) ==
  /\ x.pc = "read" => x.op \in Progress \cup Endings
  /\ x.pc = "write" =>
       /\ x.op \in Progress \cup Endings \cup Beginnings
       /\ x.next.status = IF x.op \in Endings THEN After(x.op) ELSE "running"
       /\ x.op = "complete" => x.next.completed = Chain
  /\ x.pc = "publish" /\ x.op \notin Endings \cup {"republish"} =>
       /\ x.op \in Progress \cup Beginnings
       /\ \A i \in DOMAIN x.events : x.events[i].run.status \notin Terminal
  /\ x.pc = "publish" /\ x.op \in Endings => x.next.status = After(x.op)

(* What a worker knows of the row r and the stream s *)
Knows(x, r, s) ==
  /\ x.pc \in {"read", "write"} /\ x.op \notin {"fail", "abandon"} => Going(r)
  /\ x.pc \in {"node", "running", "ended"} => Going(r)
  /\ x.pc = "publish" /\ x.op \in Progress \cup Beginnings => Going(r)
  /\ x.pc = "publish" /\ x.op \in Endings \cup {"republish"} =>
       /\ r = x.next /\ r.status \in Terminal
       /\ ToSet(x.events) \subseteq Ends(r)
       /\ Ends(r) \subseteq ToSet(s) \cup ToSet(x.events)
  /\ x.pc = "verify" => /\ r.status \in Terminal
                        /\ r.status = "completed" => Ends(r) \subseteq ToSet(s)
  /\ x.pc = "succeed" => r.status = "completed" /\ Ends(r) \subseteq ToSet(s)
  /\ x.pc = "cancel" => r.status = "stopped"

(* What a stop request knows of the row *)
Stops(z, r) ==
  /\ z.pc \in {"write", "publish"} => z.next.status = "stopped"
  /\ z.pc = "publish" => r = z.next

Announced(s, r) ==
  /\ s # <<>> => r.status \in Terminal /\ ToSet(s) \subseteq Ends(r)
  /\ \A i, j \in DOMAIN s : s[i] = s[j] => i = j

(* Only a task that was submitted is worked on *)
Delivery ==
  /\ exec.pc # "idle" => task.state = "leased"
  /\ run.status = "absent" => task.state = "absent"

Settled ==
  /\ task.state = "succeeded" => run.status = "completed" /\ Ends(run) \subseteq ToSet(stream)
  /\ task.state = "cancelled" => run.status = "stopped"

Answer ==
  waiter.state = "answered" => run.status \in Terminal /\ waiter.answer = ToolResult(run)

WInv ==
  /\ WTyped
  /\ run.status = "completed" => run.completed = Chain
  /\ Delivery
  /\ Listed(exec) /\ Planned(exec) /\ Knows(exec, run, stream)
  /\ \A s \in Stoppers : Stops(stopper[s], run)
  /\ Announced(stream, run)
  /\ Settled
  /\ Answer

-----------------------------------------------------------------------------
(* Rows, events, streams *)

(* Each transition of the domain object gives a row. *)
LEMMA ChangedRows ==
  ASSUME WorkflowRunsAssumption, NEW r \in Row, NEW op \in Ops \ {"none", "republish"},
         NEW n \in 1..NodeCount
  PROVE  /\ Changed(op, r, n) \in Row
         /\ op \in Endings => Changed(op, r, n).status = After(op)
         /\ op \in Beginnings => Changed(op, r, n).status = "running"
         /\ op \in Progress => Changed(op, r, n).status = r.status
         /\ op = "complete" => Changed(op, r, n).completed = r.completed
  <1>1. /\ r.epoch + 1 \in Nat /\ r.current \in 0..NodeCount /\ n \in 0..NodeCount
        /\ Append(r.completed, n) \in Seq(Nat) /\ r.targets \cup {n} \in SUBSET Nat
        /\ <<>> \in Seq(Nat) /\ {} \in SUBSET Nat /\ NoNode \in 0..NodeCount
    BY DEF Row, NoNode, WorkflowRunsAssumption
  <1>2. \A e \in Nat : [r EXCEPT !.status = "running", !.epoch = e] \in Row
    BY DEF Row, Active
  <1>3. \A e \in Nat, i \in 0..NodeCount, c \in Seq(Nat), d \in SUBSET Nat :
          [r EXCEPT !.status = "running", !.epoch = e, !.current = i, !.completed = c,
                    !.targets = d] \in Row
    BY DEF Row, Active
  <1>4. /\ \A c \in Seq(Nat) : [r EXCEPT !.completed = c] \in Row
        /\ \A d \in SUBSET Nat : [r EXCEPT !.targets = d] \in Row
        /\ \A i \in 0..NodeCount : [r EXCEPT !.current = i] \in Row
    BY DEF Row
  <1>5. /\ \A i \in 0..NodeCount : [r EXCEPT !.status = "failed", !.failed = i,
                                             !.error = TRUE] \in Row
        /\ \A i \in 0..NodeCount : [r EXCEPT !.status = "stopped", !.failed = i,
                                             !.error = FALSE] \in Row
        /\ [r EXCEPT !.status = "completed", !.output = TRUE] \in Row
    BY DEF Row, Terminal
  <1>6. /\ Started(r) \in Row /\ Restarted(r) \in Row
        /\ NodeStarted(r, n) \in Row /\ NodeCompleted(r, n) \in Row
        /\ TargetRecorded(r, n) \in Row
        /\ CompletedRun(r) \in Row /\ FailedRun(r) \in Row /\ StoppedRun(r) \in Row
    BY <1>1, <1>2, <1>3, <1>4, <1>5 DEF Started, Restarted, NodeStarted, NodeCompleted,
       TargetRecorded, CompletedRun, FailedRun, StoppedRun
  <1>7. /\ Started(r).status = "running" /\ Restarted(r).status = "running"
        /\ CompletedRun(r).status = "completed" /\ CompletedRun(r).completed = r.completed
        /\ FailedRun(r).status = "failed" /\ StoppedRun(r).status = "stopped"
    BY DEF Started, Restarted, CompletedRun, FailedRun, StoppedRun, Row
  <1>8. /\ NodeStarted(r, n).status = r.status /\ NodeCompleted(r, n).status = r.status
        /\ TargetRecorded(r, n).status = r.status
    BY DEF NodeStarted, NodeCompleted, TargetRecorded, Row
  <1>9. /\ op \in Ops \ {"none", "republish"} => Changed(op, r, n) =
             CASE op = "mark" -> Started(r)
               [] op = "restart" -> Restarted(r)
               [] op = "begin" -> NodeStarted(r, n)
               [] op = "target" -> TargetRecorded(r, n)
               [] op = "end" -> NodeCompleted(r, n)
               [] op = "complete" -> CompletedRun(r)
               [] op = "fail" -> FailedRun(r)
               [] op \in {"stop", "cancel", "abandon"} -> StoppedRun(r)
    BY DEF Changed, Ops, Endings, Beginnings, Progress
  <1> QED BY <1>6, <1>7, <1>8, <1>9 DEF After, Ops, Endings, Beginnings, Progress

(* How the end of a run is announced. *)
LEMMA EndsOf ==
  ASSUME NEW r \in Row
  PROVE  /\ r.status = "completed" => Ends(r) = {Event("run_completed", r, NoNode)}
         /\ r.status = "stopped" => Ends(r) = {Event("run_stopped", r, NoNode)}
         /\ r.status = "failed" =>
              /\ Event("run_failed", r, NoNode) \in Ends(r)
              /\ Ends(r) \subseteq {Event("node_failed", r, r.failed),
                                    Event("run_failed", r, NoNode)}
  <1>1. \A e : ToSet(<<e>>) = {e}
    BY DEF ToSet
  <1>2. \A d, e : ToSet(<<d>> \o <<e>>) = {d, e}
    BY DEF ToSet
  <1>3. \A e : <<>> \o <<e>> = <<e>>
    OBVIOUS
  <1>4. CASE r.status = "completed"
    <2>1. EndEvents(r) = <<Event("run_completed", r, NoNode)>>
      BY <1>4 DEF EndEvents
    <2> QED BY <1>1, <1>4, <2>1 DEF Ends
  <1>5. CASE r.status = "stopped"
    <2>1. EndEvents(r) = <<Event("run_stopped", r, NoNode)>>
      BY <1>5 DEF EndEvents
    <2> QED BY <1>1, <1>5, <2>1 DEF Ends
  <1>6. CASE r.status = "failed"
    <2>1. EndEvents(r) = (IF r.failed = NoNode THEN <<>>
                          ELSE <<Event("node_failed", r, r.failed)>>)
                         \o <<Event("run_failed", r, NoNode)>>
      BY <1>6 DEF EndEvents
    <2>2. CASE r.failed = NoNode
      BY <1>1, <1>3, <1>6, <2>1, <2>2 DEF Ends
    <2>3. CASE r.failed # NoNode
      BY <1>2, <1>6, <2>1, <2>3 DEF Ends
    <2> QED BY <2>2, <2>3
  <1> QED BY <1>4, <1>5, <1>6

(* They are events that carry the run. *)
LEMMA EndsTyped ==
  ASSUME WorkflowRunsAssumption, NEW r \in Row, r.status \in Terminal
  PROVE  /\ EndEvents(r) \in Seq(RunEvent)
         /\ \A e \in Ends(r) : e \in RunEvent /\ e.run = r
         /\ \A d, e \in Ends(r) : d.kind \in RunEnds /\ e.kind \in RunEnds => d = e
  <1>1. \A k \in Kinds, n \in Nat : /\ Event(k, r, n) \in RunEvent
                                    /\ Event(k, r, n).run = r /\ Event(k, r, n).kind = k
    BY DEF Event, RunEvent
  <1>2. /\ NoNode \in Nat /\ r.failed \in Nat
        /\ {"run_completed", "run_stopped", "run_failed", "node_failed"} \subseteq Kinds
    BY DEF NoNode, Row, WorkflowRunsAssumption, Kinds, RunEnds
  <1>3. \A d, e \in RunEvent : <<e>> \in Seq(RunEvent) /\ <<d>> \o <<e>> \in Seq(RunEvent)
                                /\ <<>> \o <<e>> \in Seq(RunEvent)
    OBVIOUS
  <1>4. EndEvents(r) \in Seq(RunEvent)
    <2>1. CASE r.status = "completed"
      BY <1>1, <1>2, <1>3, <2>1 DEF EndEvents
    <2>2. CASE r.status = "stopped"
      BY <1>1, <1>2, <1>3, <2>2 DEF EndEvents
    <2>3. CASE r.status = "failed"
      <3>1. EndEvents(r) = (IF r.failed = NoNode THEN <<>>
                            ELSE <<Event("node_failed", r, r.failed)>>)
                           \o <<Event("run_failed", r, NoNode)>>
        BY <2>3 DEF EndEvents
      <3> QED BY <1>1, <1>2, <1>3, <3>1
    <2> QED BY <2>1, <2>2, <2>3 DEF Terminal
  <1>5. \A e \in Ends(r) : \/ e = Event("run_completed", r, NoNode)
                           \/ e = Event("run_stopped", r, NoNode)
                           \/ e = Event("run_failed", r, NoNode)
                           \/ e = Event("node_failed", r, r.failed)
    BY EndsOf DEF Terminal
  <1>6. \A e \in Ends(r) : e \in RunEvent /\ e.run = r
    BY <1>1, <1>2, <1>5
  <1>7. Event("node_failed", r, r.failed).kind \notin RunEnds
    BY <1>1, <1>2 DEF RunEnds
  <1>8. \A d, e \in Ends(r) : d.kind \in RunEnds /\ e.kind \in RunEnds => d = e
    BY <1>7, EndsOf DEF Terminal
  <1> QED BY <1>4, <1>6, <1>8

(* The journal's append by key. *)
LEMMA Appends ==
  ASSUME NEW s \in Seq(RunEvent), NEW e \in RunEvent,
         \A i, j \in DOMAIN s : s[i] = s[j] => i = j
  PROVE  /\ AppendOnce(s, e) \in Seq(RunEvent)
         /\ ToSet(AppendOnce(s, e)) = ToSet(s) \cup {e}
         /\ AppendOnce(s, e) # <<>>
         /\ \A i, j \in DOMAIN AppendOnce(s, e) :
              AppendOnce(s, e)[i] = AppendOnce(s, e)[j] => i = j
  <1>1. CASE e \in ToSet(s)
    <2>1. s # <<>>
      BY <1>1 DEF ToSet
    <2> QED BY <1>1, <2>1 DEF AppendOnce
  <1>2. CASE e \notin ToSet(s)
    <2>1. \A i \in DOMAIN s : s[i] # e
      BY <1>2 DEF ToSet
    <2>2. PICK q : q = Append(s, e)
      OBVIOUS
    <2>3. /\ q \in Seq(RunEvent) /\ DOMAIN q = 1..(Len(s) + 1) /\ DOMAIN s = 1..Len(s)
          /\ Len(s) \in Nat /\ q[Len(s) + 1] = e /\ \A i \in DOMAIN s : q[i] = s[i]
      BY <2>2
    <2>4. ToSet(q) = ToSet(s) \cup {e}
      BY <2>3 DEF ToSet
    <2>5. \A i, j \in DOMAIN q : q[i] = q[j] => i = j
      BY <2>1, <2>3
    <2>6. q # <<>>
      BY <2>2
    <2> QED BY <1>2, <2>2, <2>3, <2>4, <2>5, <2>6 DEF AppendOnce
  <1> QED BY <1>1, <1>2

(* The graph's list grows by the node that ends. *)
LEMMA Lists ==
  ASSUME WorkflowRunsAssumption
  PROVE  /\ Upto(0) = <<>> /\ Chain = Upto(NodeCount) /\ Upto(NodeCount) \in Seq(Nat)
         /\ \A n \in 1..NodeCount : /\ Append(Upto(n - 1), n) = Upto(n)
                                    /\ Upto(n) \in Seq(Nat) /\ Upto(n - 1) \in Seq(Nat)
  <1>1. Upto(0) = <<>>
    BY DEF Upto
  <1>2. Chain = Upto(NodeCount)
    BY DEF Chain, Upto
  <1>3. \A n \in Nat : Upto(n) \in Seq(Nat) /\ Len(Upto(n)) = n
    BY DEF Upto
  <1>4. ASSUME NEW n \in 1..NodeCount PROVE Append(Upto(n - 1), n) = Upto(n)
    <2>1. n \in Nat /\ n - 1 \in Nat /\ NodeCount \in Nat
      BY DEF WorkflowRunsAssumption
    <2>2. Upto(n - 1) \in Seq(Nat) /\ Len(Upto(n - 1)) = n - 1
      BY <1>3, <2>1
    <2>3. Upto(n) \in Seq(Nat) /\ Len(Upto(n)) = n
      BY <1>3, <2>1
    <2>4. (\A i \in 1..(n - 1) : Upto(n - 1)[i] = i) /\ (\A i \in 1..n : Upto(n)[i] = i)
      BY DEF Upto
    <2> QED BY <2>1, <2>2, <2>3, <2>4
  <1>5. NodeCount \in Nat /\ \A n \in 1..NodeCount : n \in Nat /\ n - 1 \in Nat
    BY DEF WorkflowRunsAssumption
  <1> QED BY <1>1, <1>2, <1>3, <1>4, <1>5

(* What a change announces. *)
LEMMA ChangeAnnounced ==
  ASSUME WorkflowRunsAssumption, NEW r \in Row, NEW n \in 1..NodeCount,
         NEW op \in Progress \cup Endings \cup Beginnings,
         r.status = IF op \in Endings THEN After(op) ELSE "running"
  PROVE  /\ Announcements(op, r, n) \in Seq(RunEvent)
         /\ op \notin Endings => \A i \in DOMAIN Announcements(op, r, n) :
              Announcements(op, r, n)[i].run.status \notin Terminal
         /\ op \in Endings => Announcements(op, r, n) = EndEvents(r)
  <1>1. CASE op \in Endings
    <2>1. Announcements(op, r, n) = EndEvents(r)
      BY <1>1 DEF Announcements, Endings
    <2>2. r.status \in Terminal
      BY <1>1 DEF After, Endings, Terminal
    <2> QED BY <1>1, <2>1, <2>2, EndsTyped
  <1>2. CASE op \notin Endings
    <2>1. \E k \in Kinds, m \in Nat : Announcements(op, r, n) \in {<<>>, <<Event(k, r, m)>>}
      <3>1. NoNode \in Nat /\ n \in Nat
        BY DEF NoNode, WorkflowRunsAssumption
      <3> QED BY <1>2, <3>1 DEF Announcements, Progress, Beginnings, Endings, Kinds
    <2>2. PICK k \in Kinds, m \in Nat : Announcements(op, r, n) \in {<<>>, <<Event(k, r, m)>>}
      BY <2>1
    <2>3. Event(k, r, m) \in RunEvent /\ Event(k, r, m).run = r
      BY DEF Event, RunEvent
    <2>4. PICK e : e = Event(k, r, m)
      OBVIOUS
    <2>5. r.status \notin Terminal
      BY <1>2 DEF Terminal
    <2>6. CASE Announcements(op, r, n) = <<>>
      BY <1>2, <2>6
    <2>7. CASE Announcements(op, r, n) = <<e>>
      BY <1>2, <2>3, <2>4, <2>5, <2>7
    <2> QED BY <2>2, <2>4, <2>6, <2>7
  <1> QED BY <1>1, <1>2

-----------------------------------------------------------------------------
(* What the steps of others leave alone *)

(* A worker's knowledge survives a stop of the run and new events. *)
LEMMA KnowsKept ==
  ASSUME NEW x, NEW r, NEW s, NEW r2, NEW s2, Knows(x, r, s),
         r.status \in Terminal => r2 = r, Going(r) => Going(r2),
         ToSet(s) \subseteq ToSet(s2)
  PROVE  Knows(x, r2, s2)
  BY DEF Knows, Progress, Beginnings, Endings, Going, Terminal

(* The row moves as its conditional update lets it, and the stream grows. *)
RunMoves ==
  /\ run' \in Row /\ stream' \in Seq(RunEvent)
  /\ run.status \in Terminal => run' = run
  /\ run.status # "absent" => run'.status # "absent"
  /\ run'.status = "completed" => run'.completed = Chain
  /\ ToSet(stream) \subseteq ToSet(stream')
  /\ Announced(stream', run')

(* Stop requests, the task and the waiter rely on an ended run. *)
LEMMA OthersKept ==
  ASSUME WInv, RunMoves
  PROVE  /\ \A s \in Stoppers : Stops(stopper[s], run')
         /\ UNCHANGED task => Settled'
         /\ UNCHANGED waiter => Answer'
  <1>1. \A s \in Stoppers : Stops(stopper[s], run')
    BY DEF WInv, RunMoves, Stops, Terminal
  <1>2. UNCHANGED task => Settled'
    BY DEF WInv, RunMoves, Settled, Terminal
  <1>3. UNCHANGED waiter => Answer'
    BY DEF WInv, RunMoves, Answer
  <1> QED BY <1>1, <1>2, <1>3

(* Without a change to the row or the stream they move as they may. *)
LEMMA RunStays ==
  ASSUME WInv, UNCHANGED <<run, stream>>
  PROVE  RunMoves
  BY DEF WInv, WTyped, RunMoves

(* The end of an ended run may be announced. *)
LEMMA StreamGrows ==
  ASSUME WorkflowRunsAssumption, WInv, run.status \in Terminal, UNCHANGED run,
         NEW e \in Ends(run), stream' = AppendOnce(stream, e)
  PROVE  RunMoves /\ ToSet(stream') = ToSet(stream) \cup {e}
  <1>1. /\ run \in Row /\ stream \in Seq(RunEvent) /\ Announced(stream, run)
        /\ \A i, j \in DOMAIN stream : stream[i] = stream[j] => i = j
    BY DEF WInv, WTyped, Announced
  <1>2. e \in RunEvent
    BY <1>1, EndsTyped
  <1>3. /\ stream' \in Seq(RunEvent) /\ ToSet(stream') = ToSet(stream) \cup {e}
        /\ \A i, j \in DOMAIN stream' : stream'[i] = stream'[j] => i = j
    BY <1>1, <1>2, Appends
  <1>4. ToSet(stream) \subseteq Ends(run)
    <2>1. CASE stream = <<>>
      BY <2>1 DEF ToSet
    <2> QED BY <1>1, <2>1 DEF Announced
  <1>5. Announced(stream', run')
    BY <1>3, <1>4 DEF Announced
  <1> QED BY <1>1, <1>3, <1>5 DEF RunMoves, WInv

(* A step of a worker keeps WInv when it knows where it goes. *)
LEMMA WorkerKeeps ==
  ASSUME WInv, RunMoves, UNCHANGED <<task, stopper, waiter>>, exec.pc # "idle",
         exec' \in Worked, Listed(exec'), Planned(exec'), Knows(exec', run', stream')
  PROVE  WInv'
  <1>1. WTyped'
    BY DEF WInv, WTyped, RunMoves
  <1>2. Delivery'
    BY DEF WInv, Delivery, RunMoves
  <1>3. (\A s \in Stoppers : Stops(stopper[s], run))' /\ Settled' /\ Answer'
    BY OthersKept
  <1> QED BY <1>1, <1>2, <1>3 DEF WInv, RunMoves

(* So does a step of a stop request. *)
LEMMA StopKeeps ==
  ASSUME WInv, RunMoves, UNCHANGED <<task, exec, waiter>>, Going(run) => Going(run'),
         NEW s \in Stoppers, NEW z \in Stopping, stopper' = [stopper EXCEPT ![s] = z],
         Stops(z, run')
  PROVE  WInv'
  <1>1. WTyped'
    BY DEF WInv, WTyped, RunMoves
  <1>2. Delivery'
    BY DEF WInv, Delivery, RunMoves
  <1>3. Listed(exec') /\ Planned(exec') /\ Knows(exec', run', stream')
    <2>1. Knows(exec, run', stream')
      BY KnowsKept DEF WInv, RunMoves
    <2> QED BY <2>1 DEF WInv
  <1>4. (\A q \in Stoppers : Stops(stopper[q], run))' /\ Settled' /\ Answer'
    <2>1. \A q \in Stoppers : Stops(stopper'[q], run')
      BY OthersKept DEF WInv, WTyped
    <2> QED BY <2>1, OthersKept
  <1> QED BY <1>1, <1>2, <1>3, <1>4 DEF WInv, RunMoves

-----------------------------------------------------------------------------
(* The caller and the stop requests *)

LEMMA WInit ==
  ASSUME WorkflowRunsAssumption, Init
  PROVE  WInv
  <1>1. Absent \in Row /\ Absent.status = "absent" /\ exec.pc = "idle" /\ exec.op = "none"
    BY DEF Init, IdleExec, Absent, Row, WorkflowRunsAssumption, NoNode
  <1>2. <<>> \in Seq(RunEvent) /\ <<>> \in Seq(Nat)
    OBVIOUS
  <1>3. IdleExec \in Worked
    BY <1>1, <1>2 DEF IdleExec, Worked, Places, Ops, WorkflowRunsAssumption
  <1>4. WTyped
    BY <1>1, <1>2, <1>3 DEF Init, WTyped, TaskStates, Stopping
  <1>5. Delivery /\ Settled /\ Answer
    BY <1>1 DEF Init, Delivery, Settled, Answer
  <1>6. Listed(exec) /\ Planned(exec) /\ Knows(exec, run, stream)
    BY <1>1 DEF Listed, Planned, Knows, Changing
  <1>7. (\A s \in Stoppers : Stops(stopper[s], run)) /\ Announced(stream, run)
    BY DEF Init, Stops, Announced
  <1> QED BY <1>1, <1>4, <1>5, <1>6, <1>7 DEF WInv, Init

LEMMA StartRunKeeps ==
  ASSUME WorkflowRunsAssumption, WInv, StartRun
  PROVE  WInv'
  <1>1. Created \in Row /\ Created.status = "pending"
    <2>1. Absent \in Row
      BY DEF Absent, Row, NoNode, WorkflowRunsAssumption
    <2> QED BY <2>1 DEF Created, Row, Active
  <1>2. /\ run.status = "absent" /\ run' = Created /\ task.state = "absent"
        /\ task' = [state |-> "waiting", attempts |-> 0, stop |-> FALSE]
        /\ waiter' = [waiter EXCEPT !.state = "waiting"]
        /\ UNCHANGED <<exec, stopper, stream>>
    BY DEF StartRun, CreateRun, Submitted, WInv, Delivery
  <1>3. exec.pc = "idle" /\ stream = <<>>
    BY <1>2 DEF WInv, Delivery, Announced, Terminal
  <1>4. WTyped'
    BY <1>1, <1>2 DEF WInv, WTyped, TaskStates, TaskOpen
  <1>5. Listed(exec') /\ Planned(exec') /\ Knows(exec', run', stream')
    BY <1>2, <1>3 DEF WInv, Knows
  <1>6. (\A s \in Stoppers : Stops(stopper[s], run))'
    BY <1>2 DEF WInv, Stops
  <1>7. Delivery' /\ Settled' /\ Answer' /\ Announced(stream', run')
    BY <1>1, <1>2, <1>3 DEF Delivery, Settled, Answer, Announced, WInv, WTyped
  <1> QED BY <1>1, <1>2, <1>4, <1>5, <1>6, <1>7 DEF WInv

LEMMA WaitEndsKeeps ==
  ASSUME WInv, WaitEnds
  PROVE  WInv'
  <1>1. /\ run.status \in Terminal /\ waiter' = [state |-> "answered", answer |-> ToolResult(run)]
        /\ UNCHANGED <<run, task, exec, stopper, stream>>
    BY DEF WaitEnds
  <1>2. WTyped'
    BY <1>1 DEF WInv, WTyped, ToolResult, Terminal
  <1>3. Answer'
    BY <1>1 DEF Answer
  <1> QED BY <1>1, <1>2, <1>3 DEF WInv, Delivery, Settled

LEMMA StopStepKeeps ==
  ASSUME WorkflowRunsAssumption, WInv, NEW s \in Stoppers,
         StopAsked(s) \/ StopStep(s) \/ StopperCrash(s)
  PROVE  WInv'
  <1>1. /\ stopper \in [Stoppers -> Stopping] /\ run \in Row /\ stopper[s] \in Stopping
        /\ stopper[s].next \in Row /\ Stops(stopper[s], run) /\ Announced(stream, run)
    BY DEF WInv, WTyped, Stopping
  <1>2. Absent \in Row
    BY DEF Absent, Row, NoNode, WorkflowRunsAssumption
  <1>3. /\ \A pc \in {"idle", "request", "read"} : /\ [stopper[s] EXCEPT !.pc = pc] \in Stopping
                                                   /\ Stops([stopper[s] EXCEPT !.pc = pc], run)
        /\ [pc |-> "idle", next |-> Absent] \in Stopping
        /\ \A r : Stops([pc |-> "idle", next |-> Absent], r)
    BY <1>1, <1>2 DEF Stopping, Stops
  <1>4. CASE StopAsked(s)
    <2>1. stopper' = [stopper EXCEPT ![s] = [stopper[s] EXCEPT !.pc = "request"]]
      BY <1>1, <1>4 DEF StopAsked, StopperGoes, Stopping
    <2>2. UNCHANGED <<run, stream, task, exec, waiter>>
      BY <1>4 DEF StopAsked, StopperAt
    <2>3. RunMoves
      BY <2>2, RunStays
    <2> QED BY <1>3, <2>1, <2>2, <2>3, StopKeeps
  <1>5. CASE StopRequested(s)
    <2>1. PICK pc \in {"idle", "read"} :
            stopper' = [stopper EXCEPT ![s] = [stopper[s] EXCEPT !.pc = pc]]
      BY <1>1, <1>5 DEF StopRequested, StopperGoes, Stopping
    <2>2. UNCHANGED <<run, exec, stream, waiter>> /\ task' \in {task, [task EXCEPT !.stop = TRUE]}
      BY <1>5 DEF StopRequested
    <2>3. RunMoves
      BY <2>2, RunStays
    <2>4. task'.state = task.state /\ WTyped'
      BY <1>1, <1>3, <2>1, <2>2 DEF WInv, WTyped
    <2>5. (\A q \in Stoppers : Stops(stopper[q], run))'
      BY <1>1, <1>3, <2>1, <2>2 DEF WInv
    <2> QED BY <2>2, <2>4, <2>5 DEF WInv, Delivery, Settled, Answer
  <1>6. CASE StopReads(s)
    <2>1. UNCHANGED <<run, stream, task, exec, waiter>> /\ RunMoves
      BY <1>6, RunStays DEF StopReads, StopperAt
    <2>2. StoppedRun(run) \in Row /\ StoppedRun(run).status = "stopped"
      <3>1. StoppedRun(run) = Changed("stop", run, 1) /\ "stop" \in Ops \ {"none", "republish"}
            /\ "stop" \in Endings /\ After("stop") = "stopped" /\ 1 \in 1..NodeCount
        BY DEF Changed, Ops, Endings, After, WorkflowRunsAssumption
      <3> QED BY <1>1, <3>1, ChangedRows
    <2>3. PICK z : /\ stopper' = [stopper EXCEPT ![s] = z]
                   /\ \/ z = [pc |-> "write", next |-> StoppedRun(run)]
                      \/ z = [stopper[s] EXCEPT !.pc = "idle"]
      BY <1>6 DEF StopReads
    <2>4. z \in Stopping /\ Stops(z, run)
      BY <1>3, <2>2, <2>3 DEF Stopping, Stops
    <2> QED BY <2>1, <2>3, <2>4, StopKeeps
  <1>7. CASE StopWrites(s)
    <2>1. /\ UNCHANGED <<stream, task, exec, waiter>> /\ stopper[s].next.status = "stopped"
          /\ run' = IF run.status \in Active THEN stopper[s].next ELSE run
      BY <1>1, <1>7 DEF StopWrites, StopperAt, UpdateActive, Stops
    <2>2. RunMoves
      BY <1>1, <2>1 DEF RunMoves, WInv, WTyped, Announced, Active, Terminal
    <2>3. PICK z : /\ stopper' = [stopper EXCEPT ![s] = z]
                   /\ \/ run.status \in Active /\ z = [stopper[s] EXCEPT !.pc = "publish"]
                      \/ z = [pc |-> "idle", next |-> Absent]
      BY <1>7 DEF StopWrites
    <2>4. z \in Stopping /\ Stops(z, run')
      BY <1>1, <1>3, <2>1, <2>3 DEF Stopping, Stops
    <2>5. Going(run) => Going(run')
      BY <2>1 DEF Going
    <2> QED BY <2>1, <2>2, <2>3, <2>4, <2>5, StopKeeps
  <1>8. CASE StopPublishes(s)
    <2>1. /\ UNCHANGED <<run, task, exec, waiter>> /\ run = stopper[s].next
          /\ run.status = "stopped"
          /\ stream' = AppendOnce(stream, Event("run_stopped", run, NoNode))
          /\ stopper' = [stopper EXCEPT ![s] = [pc |-> "idle", next |-> Absent]]
      BY <1>1, <1>8 DEF StopPublishes, StopperAt, Stops
    <2>2. PICK e : e = Event("run_stopped", run, NoNode)
      OBVIOUS
    <2>3. Ends(run) = {e} /\ e \in RunEvent
      BY <1>1, <2>1, <2>2, EndsOf, EndsTyped DEF Terminal
    <2>4. RunMoves
      BY <2>1, <2>2, <2>3, StreamGrows DEF Terminal
    <2> QED BY <1>3, <2>1, <2>4, StopKeeps
  <1>9. CASE StopperCrash(s)
    <2>1. /\ UNCHANGED <<run, stream, task, exec, waiter>>
          /\ stopper' = [stopper EXCEPT ![s] = [pc |-> "idle", next |-> Absent]]
      BY <1>9 DEF StopperCrash
    <2> QED BY <1>3, <2>1, RunStays, StopKeeps
  <1> QED BY <1>4, <1>5, <1>6, <1>7, <1>8, <1>9 DEF StopStep

-----------------------------------------------------------------------------
(* The worker *)

(* What the invariant says of the worker. *)
LEMMA WorkerKnown ==
  ASSUME WInv
  PROVE  /\ exec \in Worked /\ exec.pc \in Places /\ exec.op \in Ops
         /\ exec.node \in 1..NodeCount /\ exec.next \in Row /\ exec.events \in Seq(RunEvent)
         /\ exec.done \in Seq(Nat) /\ run \in Row /\ stream \in Seq(RunEvent)
         /\ Listed(exec) /\ Planned(exec) /\ Knows(exec, run, stream)
         /\ exec.pc # "idle" => task.state = "leased" /\ run.status # "absent"
  BY DEF WInv, WTyped, Worked, Delivery, TaskStates

(* A worker that goes to a place that asks for nothing. *)
LEMMA GoesAside ==
  ASSUME NEW x \in Worked, NEW r, NEW s, NEW pc \in {"error", "fail", "retry"}
  PROVE  LET y == [x EXCEPT !.pc = pc] IN
         y \in Worked /\ Listed(y) /\ Planned(y) /\ Knows(y, r, s)
  BY DEF Worked, Places, Listed, Planned, Knows, Changing

LEMMA GoesIdle ==
  ASSUME WorkflowRunsAssumption, NEW r, NEW s
  PROVE  IdleExec \in Worked /\ Listed(IdleExec) /\ Planned(IdleExec) /\ Knows(IdleExec, r, s)
  <1>1. Absent \in Row /\ <<>> \in Seq(RunEvent) /\ <<>> \in Seq(Nat)
    BY DEF Absent, Row, NoNode, WorkflowRunsAssumption
  <1>2. IdleExec \in Worked
    BY <1>1 DEF IdleExec, Worked, Places, Ops, WorkflowRunsAssumption
  <1> QED BY <1>2 DEF IdleExec, Listed, Planned, Knows, Changing

(* A worker that knows what to report. *)
LEMMA GoesToReport ==
  ASSUME NEW x \in Worked, NEW r, NEW s, Ends(r) \subseteq ToSet(s) \/ r.status # "completed",
         r.status \in Terminal
  PROVE  LET y == [x EXCEPT !.pc = Verdict(r)] IN
         y \in Worked /\ Listed(y) /\ Planned(y) /\ Knows(y, r, s)
  <1>1. CASE r.status = "completed"
    <2>1. Verdict(r) = "succeed"
      BY <1>1 DEF Verdict
    <2> QED BY <1>1, <2>1 DEF Worked, Places, Listed, Planned, Knows, Changing
  <1>2. CASE r.status = "failed"
    <2>1. Verdict(r) = "fail"
      BY <1>2 DEF Verdict
    <2> QED BY <1>2, <2>1 DEF Worked, Places, Listed, Planned, Knows, Changing
  <1>3. CASE r.status = "stopped"
    <2>1. Verdict(r) = "cancel"
      BY <1>3 DEF Verdict
    <2> QED BY <1>3, <2>1 DEF Worked, Places, Listed, Planned, Knows, Changing
  <1> QED BY <1>1, <1>2, <1>3 DEF Terminal

(* A worker that turns to ending the run. *)
LEMMA TurnsToEnd ==
  ASSUME NEW x \in Worked, NEW r, NEW s, NEW op \in {"stop", "cancel", "fail", "abandon"},
         op \in {"stop", "cancel"} => Going(r)
  PROVE  LET y == [x EXCEPT !.pc = "read", !.op = op] IN
         y \in Worked /\ Listed(y) /\ Planned(y) /\ Knows(y, r, s)
  BY DEF Worked, Places, Listed, Planned, Knows, Changing, Ops, Endings, Progress

(* Where a change leads when the run has ended meanwhile. *)
LEMMA FoundEndedKnows ==
  ASSUME WorkflowRunsAssumption, WInv, exec.pc \in {"read", "write"}, run.status \in Terminal,
         FoundEnded(exec.op)
  PROVE  exec' \in Worked /\ Listed(exec') /\ Planned(exec') /\ Knows(exec', run, stream)
  <1>1. exec.op \in Progress \cup Endings \cup Beginnings
    BY WorkerKnown DEF Planned
  <1>2. exec.op \notin {"fail", "abandon"} => run.status = "stopped"
    BY WorkerKnown DEF Knows, Going, Active, Terminal
  <1>3. CASE exec.op \in Beginnings
    <2>1. exec' = [exec EXCEPT !.pc = "error"]
      BY <1>3 DEF FoundEnded, Goes, Beginnings
    <2> QED BY <2>1, GoesAside, WorkerKnown
  <1>4. CASE exec.op \in Progress
    <2>1. exec' = [exec EXCEPT !.pc = "read", !.op = "stop"] /\ Going(run)
      BY <1>2, <1>4 DEF FoundEnded, Performs, Progress, Going
    <2> QED BY <2>1, TurnsToEnd, WorkerKnown
  <1>5. CASE exec.op = "cancel"
    <2>1. exec' = [exec EXCEPT !.pc = "cancel"] /\ run.status = "stopped"
      BY <1>2, <1>5 DEF FoundEnded, Goes
    <2> QED BY <2>1, WorkerKnown DEF Worked, Places, Listed, Planned, Knows, Changing
  <1>6. CASE exec.op = "fail"
    <2>1. exec' = [exec EXCEPT !.pc = "fail"]
      BY <1>6 DEF FoundEnded, Goes
    <2> QED BY <2>1, GoesAside, WorkerKnown
  <1>7. CASE exec.op = "abandon"
    BY <1>7, GoesIdle DEF FoundEnded
  <1>8. CASE exec.op \in {"complete", "stop"}
    <2>1. exec' = [exec EXCEPT !.pc = "verify"] /\ run.status = "stopped"
      BY <1>2, <1>8 DEF FoundEnded, Goes
    <2> QED BY <2>1, WorkerKnown DEF Worked, Places, Listed, Planned, Knows, Changing, Terminal
  <1> QED BY <1>1, <1>3, <1>4, <1>5, <1>6, <1>7, <1>8 DEF Progress, Endings, Beginnings

LEMMA ClaimKeeps ==
  ASSUME WorkflowRunsAssumption, WInv, Claim
  PROVE  WInv'
  <1>1. /\ UNCHANGED <<run, stream, stopper, waiter>> /\ task.state \in {"waiting", "leased"}
        /\ exec' = [IdleExec EXCEPT !.pc = "load", !.stop = task.stop]
        /\ task' = [task EXCEPT !.state = "leased",
                                !.attempts = IF @ < MaxAttempts THEN @ + 1 ELSE @]
    BY DEF Claim, Worker, Delivered, TaskOpen
  <1>2. task.stop \in BOOLEAN /\ task.attempts \in Nat
    BY DEF WInv, WTyped
  <1>3. IdleExec \in Worked /\ IdleExec.node = 1 /\ IdleExec.done = Upto(0)
    BY GoesIdle, Lists DEF IdleExec
  <1>4. exec' \in Worked /\ exec'.pc = "load" /\ exec'.node = 1 /\ exec'.done = Upto(0)
    BY <1>1, <1>2, <1>3 DEF Worked, Places
  <1>5. Listed(exec') /\ Planned(exec') /\ Knows(exec', run', stream')
    BY <1>4 DEF Listed, Planned, Knows, Changing
  <1>6. /\ task' \in [state : TaskStates, attempts : Nat, stop : BOOLEAN]
        /\ task'.state = "leased"
    <2>1. PICK n \in Nat : n = IF task.attempts < MaxAttempts THEN task.attempts + 1
                               ELSE task.attempts
      BY <1>2 DEF WorkflowRunsAssumption
    <2>2. task' = [task EXCEPT !.state = "leased", !.attempts = n]
      BY <1>1, <2>1
    <2> QED BY <2>2 DEF WInv, WTyped, TaskStates, TaskOpen
  <1>7. WTyped'
    BY <1>1, <1>4, <1>6 DEF WInv, WTyped
  <1>8. Delivery' /\ Settled' /\ Answer'
    BY <1>1, <1>6 DEF WInv, Delivery, Settled, Answer
  <1> QED BY <1>1, <1>5, <1>7, <1>8 DEF WInv

LEMMA HeartbeatKeeps ==
  ASSUME WInv, Heartbeat
  PROVE  WInv'
  <1>1. /\ exec.pc # "idle" /\ UNCHANGED <<run, task, stopper, stream, waiter>>
        /\ exec' = [exec EXCEPT !.stop = TRUE]
    BY DEF Heartbeat
  <1>2. /\ exec' \in Worked /\ exec'.pc = exec.pc /\ exec'.op = exec.op
        /\ exec'.node = exec.node /\ exec'.done = exec.done /\ exec'.next = exec.next
        /\ exec'.events = exec.events
    BY <1>1, WorkerKnown DEF Worked
  <1>3. Listed(exec')
    BY <1>2, WorkerKnown DEF Listed
  <1>4. Planned(exec')
    BY <1>2, WorkerKnown DEF Planned
  <1>5. Knows(exec', run', stream')
    BY <1>1, <1>2, WorkerKnown DEF Knows
  <1> QED BY <1>1, <1>2, <1>3, <1>4, <1>5, RunStays, WorkerKeeps

LEMMA LoadRunKeeps ==
  ASSUME WorkflowRunsAssumption, WInv, LoadRun
  PROVE  WInv'
  <1>1. exec.pc = "load" /\ UNCHANGED <<run, stream, stopper, waiter, task>>
    BY DEF LoadRun, At, Worker
  <1>2. exec.node = 1 /\ exec.done = Upto(0) /\ Upto(0) = Upto(exec.node - 1)
    BY <1>1, WorkerKnown DEF Listed
  <1>3. /\ Started(run) \in Row /\ Started(run).status = "running"
        /\ Restarted(run) \in Row /\ Restarted(run).status = "running"
    <2>1. /\ Started(run) = Changed("mark", run, 1) /\ Restarted(run) = Changed("restart", run, 1)
          /\ {"mark", "restart"} \subseteq Ops \ {"none", "republish"}
          /\ {"mark", "restart"} \subseteq Beginnings /\ 1 \in 1..NodeCount
      BY DEF Changed, Ops, Beginnings, WorkflowRunsAssumption
    <2> QED BY <2>1, ChangedRows, WorkerKnown
  <1>4. CASE run.status \in Terminal
    <2>1. exec' = [exec EXCEPT !.pc = "publish", !.op = "republish", !.next = run,
                               !.events = EndEvents(run)]
      BY <1>4 DEF LoadRun
    <2>2. EndEvents(run) \in Seq(RunEvent)
      BY <1>4, WorkerKnown, EndsTyped
    <2>3. /\ exec' \in Worked /\ exec'.pc = "publish" /\ exec'.op = "republish"
          /\ exec'.next = run /\ exec'.events = EndEvents(run)
      BY <2>1, <2>2, WorkerKnown DEF Worked, Places, Ops
    <2>4. Listed(exec') /\ Planned(exec') /\ Knows(exec', run, stream)
      BY <1>4, <2>3 DEF Listed, Planned, Knows, Ends, Changing, Endings, Beginnings, Progress
    <2> QED BY <1>1, <2>3, <2>4, RunStays, WorkerKeeps
  <1>5. CASE run.status \notin Terminal
    <2>1. Going(run)
      BY <1>1, <1>5, WorkerKnown DEF Going, Row
    <2>2. \/ exec' = [exec EXCEPT !.pc = "read", !.op = "cancel"]
          \/ exec' = [exec EXCEPT !.pc = "write", !.op = "mark", !.next = Started(run)]
          \/ exec' = [exec EXCEPT !.pc = "write", !.op = "restart", !.next = Restarted(run)]
          \/ exec' = [exec EXCEPT !.pc = "node"]
      BY <1>5 DEF LoadRun
    <2>3. exec' \in Worked
      BY <1>3, <2>2, WorkerKnown DEF Worked, Places, Ops, Endings, Beginnings
    <2>4. Listed(exec')
      BY <1>2, <2>2, WorkerKnown DEF Worked, Listed, Changing, Beginnings
    <2>5. Planned(exec')
      BY <1>3, <2>2, WorkerKnown DEF Worked, Planned, Endings, Beginnings, Progress
    <2>6. Knows(exec', run, stream)
      BY <2>1, <2>2, WorkerKnown DEF Worked, Knows
    <2> QED BY <1>1, <2>3, <2>4, <2>5, <2>6, RunStays, WorkerKeeps
  <1> QED BY <1>4, <1>5

LEMMA ReadForChangeKeeps ==
  ASSUME WorkflowRunsAssumption, WInv, ReadForChange
  PROVE  WInv'
  <1>1. exec.pc = "read" /\ UNCHANGED <<run, stream, stopper, waiter, task>>
    BY DEF ReadForChange, At, Worker
  <1>2. CASE run.status \in Terminal
    <2>1. FoundEnded(exec.op)
      BY <1>2 DEF ReadForChange
    <2>2. exec' \in Worked /\ Listed(exec') /\ Planned(exec') /\ Knows(exec', run, stream)
      BY <1>1, <1>2, <2>1, FoundEndedKnows
    <2> QED BY <1>1, <2>2, RunStays, WorkerKeeps
  <1>3. CASE run.status \notin Terminal /\ exec' \in {[exec EXCEPT !.pc = "retry"],
                                                       [exec EXCEPT !.pc = "error"]}
    <2>1. PICK pc \in {"error", "fail", "retry"} : exec' = [exec EXCEPT !.pc = pc]
      BY <1>3
    <2>2. exec' \in Worked /\ Listed(exec') /\ Planned(exec') /\ Knows(exec', run, stream)
      BY <2>1, GoesAside, WorkerKnown
    <2> QED BY <1>1, <2>2, RunStays, WorkerKeeps
  <1>4. CASE /\ run.status \notin Terminal /\ Allowed(exec.op, run, exec.node)
             /\ exec.op = "complete" => ResultAgrees(run)
             /\ exec' = [exec EXCEPT !.pc = "write", !.next = Changed(exec.op, run, exec.node)]
    <2>1. exec.op \in Progress \cup Endings /\ Going(run)
      BY <1>1, <1>4, WorkerKnown DEF Planned, Going, Row
    <2>2. exec.op \in Ops \ {"none", "republish"}
      BY <2>1 DEF Ops, Progress, Endings
    <2>3. PICK c : c = Changed(exec.op, run, exec.node)
      OBVIOUS
    <2>4. /\ c \in Row
          /\ exec.op \in Endings => c.status = After(exec.op)
          /\ exec.op \in Progress => c.status = run.status
          /\ exec.op = "complete" => c.completed = run.completed
      BY <2>2, <2>3, ChangedRows, WorkerKnown
    <2>5. exec.op \in Progress => c.status = "running"
      BY <1>4, <2>4 DEF Allowed, Progress
    <2>6. exec.op = "complete" => c.completed = Chain
      BY <1>1, <1>4, <2>4, WorkerKnown DEF ResultAgrees, Listed, Changing
    <2>7. /\ exec' \in Worked /\ exec'.pc = "write" /\ exec'.op = exec.op /\ exec'.next = c
          /\ exec'.node = exec.node /\ exec'.done = exec.done
      BY <1>4, <2>3, <2>4, WorkerKnown DEF Worked, Places
    <2>8. Listed(exec')
      BY <1>1, <2>1, <2>7, WorkerKnown DEF Listed, Changing, Progress, Endings, Beginnings
    <2>9. Planned(exec')
      BY <2>1, <2>4, <2>5, <2>6, <2>7 DEF Planned, Progress, Endings
    <2>10. Knows(exec', run, stream)
      BY <2>1, <2>7 DEF Knows
    <2> QED BY <1>1, <2>7, <2>8, <2>9, <2>10, RunStays, WorkerKeeps
  <1> QED BY <1>2, <1>3, <1>4 DEF ReadForChange, Goes

LEMMA WriteChangeKeeps ==
  ASSUME WorkflowRunsAssumption, WInv, WriteChange
  PROVE  WInv'
  <1>1. exec.pc = "write" /\ UNCHANGED <<stream, stopper, waiter, task>>
    BY DEF WriteChange, At, Worker
  <1>2. CASE run.status \notin Active
    <2>1. run' = run /\ FoundEnded(exec.op)
      BY <1>2 DEF WriteChange, UpdateActive
    <2>2. run.status \in Terminal
      BY <1>1, <1>2, WorkerKnown DEF Row
    <2>3. exec' \in Worked /\ Listed(exec') /\ Planned(exec') /\ Knows(exec', run, stream)
      BY <1>1, <2>1, <2>2, FoundEndedKnows
    <2> QED BY <1>1, <2>1, <2>3, RunStays, WorkerKeeps
  <1>3. CASE run.status \in Active
    <2>1. PICK v : v = Announcements(exec.op, exec.next, exec.node)
      OBVIOUS
    <2>2. /\ run' = exec.next /\ run.status \notin Terminal
          /\ exec' = [exec EXCEPT !.pc = "publish", !.events = v]
      BY <1>3, <2>1 DEF WriteChange, UpdateActive, Active, Terminal
    <2>3. /\ exec.op \in Progress \cup Endings \cup Beginnings
          /\ exec.next.status = IF exec.op \in Endings THEN After(exec.op) ELSE "running"
          /\ exec.op = "complete" => exec.next.completed = Chain
      BY <1>1, WorkerKnown DEF Planned
    <2>4. /\ v \in Seq(RunEvent)
          /\ exec.op \notin Endings => \A i \in DOMAIN v : v[i].run.status \notin Terminal
          /\ exec.op \in Endings => v = EndEvents(exec.next)
      BY <2>1, <2>3, ChangeAnnounced, WorkerKnown
    <2>5. /\ exec' \in Worked /\ exec'.pc = "publish" /\ exec'.op = exec.op
          /\ exec'.next = exec.next /\ exec'.events = v /\ exec'.node = exec.node
          /\ exec'.done = exec.done
      BY <2>2, <2>4, WorkerKnown DEF Worked, Places
    <2>6. stream = <<>> /\ run'.status \in {"running"} \cup Terminal
      BY <2>2, <2>3 DEF WInv, Announced, After, Terminal
    <2>7. RunMoves
      <3>1. run' \in Row /\ stream' \in Seq(RunEvent) /\ run'.status # "absent"
        BY <1>1, <2>2, <2>6, WorkerKnown DEF Terminal
      <3>2. run'.status = "completed" => run'.completed = Chain
        BY <2>2, <2>3 DEF After, Endings
      <3>3. Announced(stream', run')
        BY <1>1, <2>6 DEF Announced
      <3> QED BY <1>1, <2>2, <3>1, <3>2, <3>3 DEF RunMoves
    <2>8. Listed(exec')
      BY <1>1, <2>5, WorkerKnown DEF Listed, Changing
    <2>9. Planned(exec')
      BY <2>3, <2>4, <2>5 DEF Planned, Progress, Endings, Beginnings
    <2>10. Knows(exec', run', stream')
      BY <2>2, <2>3, <2>4, <2>5 DEF Knows, Going, Active, After, Terminal, Ends, Progress, Endings,
         Beginnings
    <2> QED BY <1>1, <2>5, <2>7, <2>8, <2>9, <2>10, WorkerKeeps
  <1> QED BY <1>2, <1>3

(* Events that are left to announce. *)
LEMMA Heads ==
  ASSUME NEW v \in Seq(RunEvent), v # <<>>
  PROVE  /\ Head(v) \in RunEvent /\ Tail(v) \in Seq(RunEvent)
         /\ Head(v) \in ToSet(v) /\ ToSet(v) = {Head(v)} \cup ToSet(Tail(v))
         /\ \A i \in DOMAIN Tail(v) : \E j \in DOMAIN v : Tail(v)[i] = v[j]
         /\ \E j \in DOMAIN v : Head(v) = v[j]
  <1>1. /\ Len(v) \in Nat /\ Len(v) # 0 /\ DOMAIN v = 1..Len(v) /\ Head(v) = v[1]
        /\ \A i \in DOMAIN v : v[i] \in RunEvent
    OBVIOUS
  <1>2. PICK w : w = Tail(v)
    OBVIOUS
  <1>3. /\ w \in Seq(RunEvent) /\ Len(w) = Len(v) - 1 /\ DOMAIN w = 1..(Len(v) - 1)
        /\ \A i \in DOMAIN w : w[i] = v[i + 1]
    BY <1>1, <1>2
  <1>4. ToSet(v) = {v[1]} \cup ToSet(w)
    <2>1. ASSUME NEW i \in DOMAIN v PROVE v[i] \in {v[1]} \cup ToSet(w)
      <3>1. CASE i = 1
        BY <3>1
      <3>2. CASE i # 1
        <4>1. i - 1 \in DOMAIN w /\ w[i - 1] = v[i]
          BY <1>1, <1>3, <2>1, <3>2
        <4> QED BY <4>1 DEF ToSet
      <3> QED BY <3>1, <3>2
    <2>2. ASSUME NEW i \in DOMAIN w PROVE w[i] \in ToSet(v)
      BY <1>1, <1>3, <2>2 DEF ToSet
    <2>3. v[1] \in ToSet(v)
      BY <1>1 DEF ToSet
    <2> QED BY <2>1, <2>2, <2>3 DEF ToSet
  <1>5. \A i \in DOMAIN w : \E j \in DOMAIN v : w[i] = v[j]
    BY <1>1, <1>3
  <1>6. Head(v) \in RunEvent /\ Head(v) \in ToSet(v) /\ 1 \in DOMAIN v
    BY <1>1, <1>4
  <1> QED BY <1>1, <1>2, <1>3, <1>4, <1>5, <1>6

LEMMA PublishChangeKeeps ==
  ASSUME WorkflowRunsAssumption, WInv, PublishChange
  PROVE  WInv'
  <1>1. exec.pc = "publish" /\ UNCHANGED <<run, stopper, waiter, task>>
    BY DEF PublishChange, At, Worker
  <1>2. CASE exec.events # <<>>
    <2>1. PICK e, w : e = Head(exec.events) /\ w = Tail(exec.events)
      OBVIOUS
    <2>2. /\ exec' = [exec EXCEPT !.events = w]
          /\ stream' = IF e.run.status \in Terminal THEN AppendOnce(stream, e) ELSE stream
      BY <1>2, <2>1 DEF PublishChange
    <2>3. /\ w \in Seq(RunEvent) /\ ToSet(exec.events) = {e} \cup ToSet(w)
          /\ \A i \in DOMAIN w : \E j \in DOMAIN exec.events : w[i] = exec.events[j]
          /\ \E j \in DOMAIN exec.events : e = exec.events[j]
      BY <1>2, <2>1, Heads, WorkerKnown
    <2>4. /\ exec' \in Worked /\ exec'.pc = "publish" /\ exec'.op = exec.op
          /\ exec'.next = exec.next /\ exec'.events = w /\ exec'.node = exec.node
          /\ exec'.done = exec.done
      BY <1>1, <2>2, <2>3, WorkerKnown DEF Worked
    <2>5. Listed(exec')
      BY <1>1, <2>4, WorkerKnown DEF Listed
    <2>6. Planned(exec')
      BY <1>1, <2>3, <2>4, WorkerKnown DEF Planned
    <2>7. CASE exec.op \in Endings \cup {"republish"}
      <3>1. /\ run = exec.next /\ run.status \in Terminal /\ ToSet(exec.events) \subseteq Ends(run)
            /\ Ends(run) \subseteq ToSet(stream) \cup ToSet(exec.events)
        BY <1>1, <2>7, WorkerKnown DEF Knows
      <3>2. e \in Ends(run) /\ e.run = run
        BY <2>3, <3>1, EndsTyped, WorkerKnown
      <3>3. stream' = AppendOnce(stream, e)
        BY <2>2, <3>1, <3>2
      <3>4. RunMoves /\ ToSet(stream') = ToSet(stream) \cup {e}
        BY <1>1, <3>1, <3>2, <3>3, StreamGrows
      <3>5. Knows(exec', run', stream')
        BY <1>1, <2>3, <2>4, <2>7, <3>1, <3>4 DEF Knows, Progress, Beginnings, Endings
      <3> QED BY <1>1, <2>4, <2>5, <2>6, <3>4, <3>5, WorkerKeeps
    <2>8. CASE exec.op \notin Endings \cup {"republish"}
      <3>1. e.run.status \notin Terminal
        BY <1>1, <2>3, <2>8, WorkerKnown DEF Planned
      <3>2. UNCHANGED stream
        BY <2>2, <3>1
      <3>3. Knows(exec', run', stream')
        BY <1>1, <2>4, <2>8, WorkerKnown DEF Knows
      <3> QED BY <1>1, <2>4, <2>5, <2>6, <3>2, <3>3, RunStays, WorkerKeeps
    <2> QED BY <2>7, <2>8
  <1>3. CASE exec.events = <<>>
    <2>1. Continue /\ UNCHANGED stream
      BY <1>3 DEF PublishChange
    <2>2. ToSet(exec.events) = {}
      BY <1>3 DEF ToSet
    <2>3. SUFFICES exec' \in Worked /\ Listed(exec') /\ Planned(exec') /\ Knows(exec', run, stream)
      BY <1>1, <2>1, RunStays, WorkerKeeps
    <2>4. /\ exec.op \notin Endings \cup {"republish"} => exec.op \in Progress \cup Beginnings
          /\ exec.op \in Progress \cup Beginnings => Going(run)
          /\ exec.op \in Endings \cup {"republish"} =>
               run = exec.next /\ run.status \in Terminal /\ Ends(run) \subseteq ToSet(stream)
          /\ exec.op \in Endings => run.status = After(exec.op)
      BY <1>1, <2>2, WorkerKnown DEF Planned, Knows
    <2>5. CASE exec.op \in Beginnings
      <3>1. exec' = [exec EXCEPT !.pc = "node"]
        BY <2>1, <2>5 DEF Continue, Goes, Beginnings
      <3>2. exec.done = Upto(exec.node - 1)
        BY <1>1, <2>5, WorkerKnown DEF Listed
      <3> QED BY <2>4, <2>5, <3>1, <3>2, WorkerKnown DEF Worked, Places, Listed, Planned, Knows,
           Changing
    <2>6. CASE exec.op \in {"begin", "target"}
      <3>1. PICK pc \in {"running", "ended"} : exec' = [exec EXCEPT !.pc = pc]
        BY <2>1, <2>6 DEF Continue, Goes
      <3>2. exec.done = Upto(exec.node - 1) /\ Going(run)
        BY <1>1, <2>4, <2>6, WorkerKnown DEF Listed, Changing, Progress
      <3> QED BY <3>1, <3>2, WorkerKnown DEF Worked, Places, Listed, Planned, Knows, Changing
    <2>7. CASE exec.op = "end" /\ exec.node < NodeCount
      <3>1. PICK n \in 1..NodeCount : n = exec.node + 1 /\ exec.node = n - 1
        BY <2>7, WorkerKnown DEF WorkflowRunsAssumption
      <3>2. exec' = [exec EXCEPT !.pc = "node", !.node = n]
        <4>1. exec.node \in Nat /\ NodeCount \in Nat /\ exec.node # NodeCount
          BY <2>7, WorkerKnown DEF WorkflowRunsAssumption
        <4>2. PICK x : x = [exec EXCEPT !.pc = "node", !.node = exec.node + 1]
          OBVIOUS
        <4>3. exec' = x
          BY <2>1, <2>7, <4>1, <4>2 DEF Continue
        <4> QED BY <3>1, <4>2, <4>3
      <3>3. exec.done = Upto(n - 1) /\ Going(run)
        BY <1>1, <2>4, <2>7, <3>1, WorkerKnown DEF Listed, Changing, Progress
      <3> QED BY <3>2, <3>3, WorkerKnown DEF Worked, Places, Listed, Planned, Knows, Changing
    <2>8. CASE exec.op = "end" /\ ~(exec.node < NodeCount)
      <3>1. exec.node = NodeCount
        BY <2>8, WorkerKnown DEF WorkflowRunsAssumption
      <3>2. exec' = [exec EXCEPT !.pc = "read", !.op = "complete"]
        BY <2>1, <2>8, <3>1 DEF Continue, Performs
      <3>3. exec.done = Chain /\ Going(run)
        BY <1>1, <2>4, <2>8, <3>1, WorkerKnown, Lists DEF Listed, Changing, Progress
      <3> QED BY <3>2, <3>3, WorkerKnown DEF Worked, Places, Ops, Endings, Listed, Planned, Knows,
           Changing, Beginnings
    <2>9. CASE exec.op \in {"complete", "stop"}
      <3>1. exec' = [exec EXCEPT !.pc = "verify"]
        BY <2>1, <2>9 DEF Continue, Goes
      <3>2. run.status \in Terminal /\ Ends(run) \subseteq ToSet(stream)
        BY <2>4, <2>9 DEF Endings
      <3> QED BY <3>1, <3>2, WorkerKnown DEF Worked, Places, Listed, Planned, Knows, Changing
    <2>10. CASE exec.op = "cancel"
      <3>1. exec' = [exec EXCEPT !.pc = "cancel"] /\ run.status = "stopped"
        BY <2>1, <2>4, <2>10 DEF Continue, Goes, Endings, After
      <3> QED BY <3>1, WorkerKnown DEF Worked, Places, Listed, Planned, Knows, Changing
    <2>11. CASE exec.op = "fail"
      <3>1. exec' = [exec EXCEPT !.pc = "fail"]
        BY <2>1, <2>11 DEF Continue, Goes
      <3> QED BY <3>1, GoesAside, WorkerKnown
    <2>12. CASE exec.op = "abandon"
      BY <2>1, <2>12, GoesIdle DEF Continue
    <2>13. CASE exec.op = "republish"
      <3>1. exec' = [exec EXCEPT !.pc = Verdict(exec.next)]
        BY <2>1, <2>13 DEF Continue, Goes
      <3>2. run = exec.next /\ run.status \in Terminal /\ Ends(run) \subseteq ToSet(stream)
        BY <2>4, <2>13
      <3>3. exec' = [exec EXCEPT !.pc = Verdict(run)]
        BY <3>1, <3>2
      <3> QED BY <3>2, <3>3, GoesToReport, WorkerKnown
    <2> QED BY <2>4, <2>5, <2>6, <2>7, <2>8, <2>9, <2>10, <2>11, <2>12, <2>13
         DEF Endings, Progress, Beginnings
  <1> QED BY <1>2, <1>3

(* The steps of the compiled graph. *)
LEMMA GraphStepKeeps ==
  ASSUME WorkflowRunsAssumption, WInv, NextNode \/ RunNode \/ EndNode
  PROVE  WInv'
  <1>1. /\ exec.pc \in {"node", "running", "ended"}
        /\ UNCHANGED <<run, stream, stopper, waiter, task>>
    BY DEF NextNode, RunNode, EndNode, At, Worker
  <1>2. Going(run) /\ exec.done = Upto(exec.node - 1)
    BY <1>1, WorkerKnown DEF Knows, Listed
  <1>3. CASE exec' = [exec EXCEPT !.pc = "read", !.op = "stop"]
    BY <1>1, <1>2, <1>3, TurnsToEnd, WorkerKnown, RunStays, WorkerKeeps
  <1>4. CASE \E op \in {"begin", "target"} : exec' = [exec EXCEPT !.pc = "read", !.op = op]
    <2>1. exec' \in Worked /\ Listed(exec') /\ Planned(exec') /\ Knows(exec', run, stream)
      BY <1>2, <1>4, WorkerKnown DEF Worked, Places, Ops, Progress, Endings, Listed, Planned,
         Knows, Changing
    <2> QED BY <1>1, <2>1, RunStays, WorkerKeeps
  <1>5. CASE exec.pc = "running" /\ exec' = [exec EXCEPT !.pc = "ended"]
    <2>1. exec' \in Worked /\ Listed(exec') /\ Planned(exec') /\ Knows(exec', run, stream)
      BY <1>2, <1>5, WorkerKnown DEF Worked, Places, Listed, Planned, Knows, Changing
    <2> QED BY <1>1, <2>1, RunStays, WorkerKeeps
  <1>6. CASE exec' = [exec EXCEPT !.pc = "error"]
    BY <1>1, <1>6, GoesAside, WorkerKnown, RunStays, WorkerKeeps
  <1>7. CASE exec' = [exec EXCEPT !.pc = "read", !.op = "end",
                                  !.done = NodeUpdate(exec.done, exec.node)]
    <2>1. PICK u : u = NodeUpdate(exec.done, exec.node)
      OBVIOUS
    <2>2. u = Upto(exec.node) /\ u \in Seq(Nat)
      BY <1>2, <2>1, WorkerKnown, Lists DEF NodeUpdate
    <2>3. exec' = [exec EXCEPT !.pc = "read", !.op = "end", !.done = u]
      BY <1>7, <2>1
    <2>4. exec' \in Worked /\ Listed(exec') /\ Planned(exec') /\ Knows(exec', run, stream)
      BY <1>2, <2>2, <2>3, WorkerKnown DEF Worked, Places, Ops, Progress, Endings, Listed, Planned,
         Knows, Changing, Beginnings
    <2> QED BY <1>1, <2>4, RunStays, WorkerKeeps
  <1>8. CASE NextNode
    BY <1>3, <1>4, <1>8 DEF NextNode, Performs
  <1>9. CASE RunNode
    BY <1>3, <1>4, <1>5, <1>9 DEF RunNode, Performs, Goes, At, Worker
  <1>10. CASE EndNode
    BY <1>3, <1>6, <1>7, <1>10 DEF EndNode
  <1> QED BY <1>8, <1>9, <1>10

(* The verdict on an attempt. *)
LEMMA VerdictKeeps ==
  ASSUME WorkflowRunsAssumption, WInv, VerifyRun \/ AttemptFailed
  PROVE  WInv'
  <1>1. /\ exec.pc \in {"verify", "error"}
        /\ UNCHANGED <<run, stream, stopper, waiter, task>>
    BY DEF VerifyRun, AttemptFailed, At, Worker
  <1>2. CASE VerifyRun
    <2>1. /\ run.status \in Terminal
          /\ run.status = "completed" => Ends(run) \subseteq ToSet(stream)
          /\ exec' = [exec EXCEPT !.pc = Verdict(run)]
      BY <1>2, WorkerKnown DEF VerifyRun, At, Worker, Goes, Knows
    <2>2. exec' \in Worked /\ Listed(exec') /\ Planned(exec') /\ Knows(exec', run, stream)
      BY <2>1, GoesToReport, WorkerKnown
    <2> QED BY <1>1, <2>2, RunStays, WorkerKeeps
  <1>3. CASE AttemptFailed
    <2>1. CASE exec' = [exec EXCEPT !.pc = "retry"]
      BY <1>1, <2>1, GoesAside, WorkerKnown, RunStays, WorkerKeeps
    <2>2. CASE exec' = [exec EXCEPT !.pc = "read", !.op = "fail"]
      BY <1>1, <2>2, TurnsToEnd, WorkerKnown, RunStays, WorkerKeeps
    <2> QED BY <1>3, <2>1, <2>2 DEF AttemptFailed, Goes, Performs
  <1> QED BY <1>2, <1>3

LEMMA SettleTaskKeeps ==
  ASSUME WorkflowRunsAssumption, WInv, SettleTask
  PROVE  WInv'
  <1>1. /\ exec.pc \in {"succeed", "fail", "cancel", "retry"} /\ exec' = IdleExec
        /\ UNCHANGED <<run, stopper, stream, waiter>>
    BY DEF SettleTask
  <1>2. PICK st \in {"succeeded", "cancelled", "waiting", "failed"} :
          /\ task' = [task EXCEPT !.state = st]
          /\ st = "succeeded" => exec.pc = "succeed"
          /\ st = "cancelled" => exec.pc = "cancel"
    BY DEF SettleTask
  <1>3. task.state = "leased" /\ run.status # "absent" /\ task'.state = st /\ WTyped'
    BY <1>1, <1>2, GoesIdle, WorkerKnown DEF WInv, WTyped, TaskStates, TaskOpen
  <1>4. Settled'
    BY <1>1, <1>2, <1>3, WorkerKnown DEF Settled, Knows
  <1>5. Delivery' /\ Answer'
    BY <1>1, <1>3 DEF WInv, Delivery, Answer, IdleExec
  <1> QED BY <1>1, <1>3, <1>4, <1>5, GoesIdle DEF WInv

(* A worker dies, is interrupted, or one of its steps raises. *)
LEMMA FaultKeeps ==
  ASSUME WorkflowRunsAssumption, WInv, WorkerCrash \/ Interrupt \/ StepRaises
  PROVE  WInv'
  <1>1. exec.pc # "idle" /\ UNCHANGED <<run, task, stopper, stream, waiter>>
    BY DEF WorkerCrash, Interrupt, StepRaises
  <1>2. CASE exec' = IdleExec
    BY <1>1, <1>2, GoesIdle, RunStays, WorkerKeeps
  <1>3. CASE exec' = [exec EXCEPT !.pc = "read", !.op = "abandon"]
    BY <1>1, <1>3, TurnsToEnd, WorkerKnown, RunStays, WorkerKeeps
  <1>4. CASE exec' = [exec EXCEPT !.pc = "retry"]
    BY <1>1, <1>4, GoesAside, WorkerKnown, RunStays, WorkerKeeps
  <1>5. CASE exec' = [exec EXCEPT !.pc = "error"]
    BY <1>1, <1>5, GoesAside, WorkerKnown, RunStays, WorkerKeeps
  <1> QED BY <1>2, <1>3, <1>4, <1>5 DEF WorkerCrash, Interrupt, StepRaises, Performs, Goes

-----------------------------------------------------------------------------
(* The theorems *)

LEMMA WStep ==
  ASSUME WorkflowRunsAssumption, WInv, [Next]_vars
  PROVE  WInv'
  <1>1. CASE StartRun \/ WaitEnds
    BY <1>1, StartRunKeeps, WaitEndsKeeps
  <1>2. CASE WorkerStep
    BY <1>2, ClaimKeeps, HeartbeatKeeps, LoadRunKeeps, ReadForChangeKeeps, WriteChangeKeeps,
       PublishChangeKeeps, GraphStepKeeps, VerdictKeeps, SettleTaskKeeps DEF WorkerStep
  <1>3. CASE WorkerCrash \/ Interrupt \/ StepRaises
    BY <1>3, FaultKeeps
  <1>4. ASSUME NEW s \in Stoppers, StopAsked(s) \/ StopStep(s) \/ StopperCrash(s)
        PROVE  WInv'
    BY <1>4, StopStepKeeps
  <1>5. CASE UNCHANGED vars
    <2>1. UNCHANGED <<run, task, exec, stopper, stream, waiter>>
      BY <1>5 DEF vars
    <2> QED BY <2>1 DEF WInv, WTyped, Delivery, Settled, Answer
  <1> QED BY <1>1, <1>2, <1>3, <1>4, <1>5 DEF Next

(* Every reachable state of a run is typed, and its worker, stop requests, task,
   stream and waiter know the truth about its row
   (application/workflow_runs.py:176). *)
THEOREM RunInvariance ==
  ASSUME WorkflowRunsAssumption
  PROVE  Spec => []WInv
  <1>1. Init => WInv
    BY WInit
  <1>2. WInv /\ [Next]_vars => WInv'
    BY WStep
  <1> QED BY <1>1, <1>2, PTL DEF Spec

(* What the settled task and the answered waiter say follows from the invariant. *)
LEMMA OutcomeFollows ==
  ASSUME WorkflowRunsAssumption, WInv
  PROVE  OutcomeAgrees
  <1>1. run.status = "completed" => Ends(run) = {Event("run_completed", run, NoNode)}
    BY EndsOf, WorkerKnown
  <1> QED BY <1>1 DEF WInv, Settled, Answer, OutcomeAgrees

(* A settled task and an answered waiter tell the truth about the run, whatever is
   stopped, crashes, raises or is delivered again (application/workflow_runs.py:190). *)
THEOREM TasksTellTheTruth ==
  ASSUME WorkflowRunsAssumption
  PROVE  Spec => []OutcomeAgrees
  BY OutcomeFollows, RunInvariance, PTL

(* That one event announces the end follows from the invariant. *)
LEMMA OneEndFollows ==
  ASSUME WorkflowRunsAssumption, WInv
  PROVE  EndAnnouncedOnce
  <1> SUFFICES ASSUME NEW i \in DOMAIN stream, NEW j \in DOMAIN stream,
                      stream[i].kind \in RunEnds, stream[j].kind \in RunEnds
               PROVE  i = j /\ stream[i].run = run
    BY DEF EndAnnouncedOnce
  <1>1. stream # <<>>
    OBVIOUS
  <1>2. run.status \in Terminal /\ ToSet(stream) \subseteq Ends(run)
    BY <1>1 DEF WInv, Announced
  <1>3. stream[i] \in Ends(run) /\ stream[j] \in Ends(run)
    BY <1>2 DEF ToSet
  <1>4. stream[i] = stream[j] /\ stream[i].run = run
    BY <1>2, <1>3, EndsTyped, WorkerKnown
  <1> QED BY <1>4 DEF WInv, Announced

(* The end of a run is announced at most once, and as it is stored
   (workflows/events.py:285). *)
THEOREM EndsAnnouncedOnce ==
  ASSUME WorkflowRunsAssumption
  PROVE  Spec => []EndAnnouncedOnce
  BY OneEndFollows, RunInvariance, PTL

(* No step of a run changes the row of a run that has ended. *)
LEMMA EndedRunStep ==
  ASSUME [Next]_vars
  PROVE  [run.status \in Terminal => run' = run]_vars
  <1>1. ASSUME Next, run.status \in Terminal PROVE run' = run
    <2>1. UNCHANGED run \/ StartRun \/ UpdateActive(exec.next)
          \/ \E s \in Stoppers : UpdateActive(stopper[s].next)
      BY <1>1 DEF Next, WaitEnds, WorkerStep, Claim, Heartbeat, LoadRun, ReadForChange,
         WriteChange, PublishChange, NextNode, RunNode, EndNode, VerifyRun, AttemptFailed,
         SettleTask, WorkerCrash, Interrupt, StepRaises, StopAsked, StopStep, StopRequested,
         StopReads, StopWrites, StopPublishes, StopperCrash
    <2> QED BY <1>1, <2>1 DEF StartRun, UpdateActive, Terminal, Active
  <1> QED BY <1>1

(* A run that has ended keeps its row: what a stop or a worker computed from an older
   read never replaces it (adapters/persistence/workflows.py:352). *)
THEOREM EndedRunsStay ==
  ASSUME WorkflowRunsAssumption
  PROVE  Spec => EndedRunStays
  BY EndedRunStep, PTL DEF Spec, EndedRunStays

-----------------------------------------------------------------------------
(* Types.  What is typed of a row is more than its fields: they agree with each other and
   with how far the workflow has come, and a run is begun at most once a delivery. *)

Budget == task.attempts + faults.count

RowFits(r, b) ==
  /\ r \in Row /\ r.targets \subseteq AiNodes /\ r.epoch <= b
  /\ \E n \in 0..NodeCount : r.completed = Upto(n)
  /\ r.status # "absent" => StatusFieldsAgree(r)

(* How far the row r of a running run is, by where its worker is *)
Underway(x) ==
  \/ x.pc \in {"running", "ended"}
  \/ x.pc = "publish" /\ x.op \in {"begin", "target"}
  \/ x.pc = "read" /\ x.op \in {"target", "end"}

Walks(x, r) ==
  /\ r.status = "running" =>
       /\ Underway(x) => r.completed = Upto(x.node - 1)
       /\ (x.pc = "node" \/ (x.pc = "read" /\ x.op = "begin")) /\ x.node > 1 =>
            r.completed = Upto(x.node - 1)
       /\ x.pc = "publish" /\ x.op = "end" => r.completed = Upto(x.node)
  /\ x.pc = "read" /\ x.op = "target" => x.node \in AiNodes
  /\ x.pc = "write" /\ x.op \in {"begin", "target"} => x.next.completed = Upto(x.node - 1)
  /\ x.pc = "write" /\ x.op = "end" => x.next.completed = Upto(x.node)
  /\ x.pc = "write" /\ x.op \in {"begin", "end"} => x.next.current = x.node

(* A delivery that has not begun the run yet, or never will, may still begin it *)
MayBegin(t, x) ==
  \/ x.pc = "load"
  \/ x.pc = "idle" /\ t.state = "leased"
  \/ x.pc # "idle" /\ x.op = "abandon"
Spare(r, t, x, b) == r.status \in Active /\ MayBegin(t, x) => r.epoch + 1 <= b

Counts ==
  /\ task.attempts <= MaxAttempts /\ (task.state = "waiting" => task.attempts < MaxAttempts)
  /\ task.state = "absent" => task.attempts = 0
  /\ faults \in [count : 0..MaxFaults, raised : BOOLEAN]

TypedInv ==
  /\ WInv /\ Counts
  /\ RowFits(run, Budget) /\ RowFits(exec.next, Budget)
  /\ \A s \in Stoppers : RowFits(stopper[s].next, Budget)
  /\ Walks(exec, run)
  /\ \A i \in DOMAIN exec.events : EventValid(exec.events[i])
  /\ Spare(run, task, exec, Budget)

-----------------------------------------------------------------------------
LEMMA Beginning ==
  ASSUME WorkflowRunsAssumption
  PROVE  /\ \E n \in 0..NodeCount : <<>> = Upto(n)
         /\ \A n \in 0..NodeCount : /\ Upto(n) \in Seq(Nat) /\ Len(Upto(n)) = n
                                    /\ ToSet(Upto(n)) = 1..n /\ Upto(n) = SubSeq(Chain, 1, n)
         /\ \A n \in 1..NodeCount : Last(Upto(n)) = n
         /\ ToSet(<<>>) = {} /\ NodeCount \in Nat
  <1>1. NodeCount \in Nat /\ 0 \in 0..NodeCount
    BY DEF WorkflowRunsAssumption
  <1>2. \A n \in Nat : Upto(n) \in Seq(Nat) /\ Len(Upto(n)) = n
    BY DEF Upto
  <1>3. \A n \in Nat : ToSet(Upto(n)) = 1..n
    BY DEF Upto, ToSet
  <1>4. ASSUME NEW n \in 0..NodeCount PROVE Upto(n) = SubSeq(Chain, 1, n)
    <2>1. Chain \in Seq(Nat) /\ Len(Chain) = NodeCount /\ \A i \in 1..NodeCount : Chain[i] = i
      BY <1>1 DEF Chain
    <2>2. /\ SubSeq(Chain, 1, n) \in Seq(Nat) /\ Len(SubSeq(Chain, 1, n)) = n
          /\ \A i \in 1..n : SubSeq(Chain, 1, n)[i] = Chain[i]
      BY <1>1, <2>1
    <2>3. Upto(n) \in Seq(Nat) /\ Len(Upto(n)) = n /\ \A i \in 1..n : Upto(n)[i] = i
      BY <1>1, <1>2 DEF Upto
    <2> QED BY <1>1, <2>1, <2>2, <2>3
  <1>5. \A n \in 1..NodeCount : Last(Upto(n)) = n
    BY <1>1, <1>2 DEF Last, Upto
  <1>6. ToSet(<<>>) = {}
    BY DEF ToSet
  <1> QED BY <1>1, <1>2, <1>3, <1>4, <1>5, <1>6, Lists

LEMMA MoreBudget ==
  ASSUME NEW r, NEW b \in Nat, NEW c \in Nat, b <= c, RowFits(r, b)
  PROVE  RowFits(r, c)
  BY DEF RowFits, Row

(* A transition that is allowed keeps the fields of a row in agreement. *)
LEMMA FitsChanged ==
  ASSUME WorkflowRunsAssumption, NEW b \in Nat, NEW r, RowFits(r, b),
         NEW n \in 1..NodeCount, NEW op \in Ops \ {"none", "republish"}, Allowed(op, r, n),
         op \in Beginnings => r.epoch + 1 <= b,
         op = "end" => r.completed = Upto(n - 1),
         op = "target" => n \in AiNodes
  PROVE  /\ RowFits(Changed(op, r, n), b)
         /\ op \in {"begin", "target"} => Changed(op, r, n).completed = r.completed
         /\ op = "end" => Changed(op, r, n).completed = Upto(n)
         /\ op \in {"begin", "end"} => Changed(op, r, n).current = n
         /\ op = "begin" => n \notin ToSet(Changed(op, r, n).completed)
  <1>1. /\ r \in Row /\ r.targets \subseteq AiNodes /\ r.epoch <= b /\ r.epoch \in Nat
        /\ r.status \in Active /\ StatusFieldsAgree(r)
        /\ op \notin {"mark", "restart", "fail", "stop", "cancel", "abandon"} => r.status = "running"
    BY DEF RowFits, Allowed, Active, Row, Ops, Endings, Beginnings, Progress
  <1>2. PICK m \in 0..NodeCount : r.completed = Upto(m)
    BY DEF RowFits
  <1>3. /\ r.output = FALSE /\ r.error = FALSE /\ r.failed = NoNode
        /\ r.current \in ToSet(r.completed) => r.current = Last(r.completed)
        /\ r.status = "running" => r.epoch > 0
        /\ r.status = "pending" => r.current = NoNode /\ r.completed = <<>> /\ r.epoch = 0
    BY <1>1, Zenon DEF StatusFieldsAgree, Active, Row
  <1>4. PICK c : c = Changed(op, r, n)
    OBVIOUS
  <1>5. c \in Row
    BY <1>1, <1>4, ChangedRows
  <1>6. SUFFICES /\ c.targets \subseteq AiNodes /\ c.epoch <= b
                 /\ \E k \in 0..NodeCount : c.completed = Upto(k)
                 /\ StatusFieldsAgree(c)
                 /\ op \in {"begin", "target"} => c.completed = r.completed
                 /\ op = "end" => c.completed = Upto(n)
                 /\ op \in {"begin", "end"} => c.current = n
                 /\ op = "begin" => n \notin ToSet(c.completed)
    BY <1>4, <1>5 DEF RowFits
  <1> n \in Nat /\ n # 0 /\ NodeCount \in Nat /\ NoNode = 0
    BY DEF NoNode, WorkflowRunsAssumption
  <1>7. CASE op = "mark"
    <2>1. /\ c.status = "running" /\ c.epoch = r.epoch + 1 /\ c.current = r.current
          /\ c.completed = r.completed /\ c.targets = r.targets /\ c.failed = r.failed
          /\ c.error = r.error /\ c.output = r.output
      BY <1>1, <1>4, <1>7 DEF Changed, Started, Row
    <2>2. StatusFieldsAgree(c)
      BY <1>1, <1>3, <2>1 DEF StatusFieldsAgree
    <2> QED BY <1>1, <1>2, <1>7, <2>1, <2>2 DEF Beginnings
  <1>8. CASE op = "restart"
    <2>1. /\ c.status = "running" /\ c.epoch = r.epoch + 1 /\ c.current = NoNode
          /\ c.completed = <<>> /\ c.targets = {} /\ c.failed = r.failed
          /\ c.error = r.error /\ c.output = r.output
      BY <1>1, <1>4, <1>8 DEF Changed, Restarted, Row
    <2>2. StatusFieldsAgree(c)
      BY <1>1, <1>3, <2>1, Beginning DEF StatusFieldsAgree
    <2> QED BY <1>1, <1>8, <2>1, <2>2, Beginning DEF Beginnings
  <1>9. CASE op = "begin"
    <2>1. /\ c.status = "running" /\ c.epoch = r.epoch /\ c.current = n
          /\ c.completed = r.completed /\ c.targets = r.targets /\ c.failed = r.failed
          /\ c.error = r.error /\ c.output = r.output /\ n \notin ToSet(r.completed)
      BY <1>1, <1>4, <1>9 DEF Changed, NodeStarted, Row, Allowed
    <2>2. StatusFieldsAgree(c)
      BY <1>1, <1>3, <1>9, <2>1 DEF StatusFieldsAgree
    <2> QED BY <1>1, <1>2, <1>9, <2>1, <2>2
  <1>10. CASE op = "target"
    <2>1. /\ c.status = "running" /\ c.epoch = r.epoch /\ c.current = r.current
          /\ c.completed = r.completed /\ c.targets = r.targets \cup {n} /\ c.failed = r.failed
          /\ c.error = r.error /\ c.output = r.output
      BY <1>1, <1>4, <1>10 DEF Changed, TargetRecorded, Row
    <2>2. StatusFieldsAgree(c)
      BY <1>1, <1>3, <1>10, <2>1 DEF StatusFieldsAgree
    <2> QED BY <1>1, <1>2, <1>10, <2>1, <2>2
  <1>11. CASE op = "end"
    <2>1. /\ c.status = "running" /\ c.epoch = r.epoch /\ c.current = n
          /\ c.completed = Append(r.completed, n) /\ c.targets = r.targets /\ c.failed = r.failed
          /\ c.error = r.error /\ c.output = r.output
      BY <1>1, <1>4, <1>11 DEF Changed, NodeCompleted, Row, Allowed
    <2>2. c.completed = Upto(n) /\ Last(c.completed) = n
      BY <1>11, <2>1, Lists, Beginning
    <2>3. StatusFieldsAgree(c)
      BY <1>1, <1>3, <1>11, <2>1, <2>2 DEF StatusFieldsAgree
    <2> QED BY <1>1, <1>11, <2>1, <2>2, <2>3
  <1>12. CASE op = "complete"
    <2>1. /\ c.status = "completed" /\ c.epoch = r.epoch /\ c.current = r.current
          /\ c.completed = r.completed /\ c.targets = r.targets /\ c.failed = r.failed
          /\ c.error = r.error /\ c.output = TRUE
      BY <1>1, <1>4, <1>12 DEF Changed, CompletedRun, Row
    <2>2. StatusFieldsAgree(c)
      BY <1>1, <1>3, <1>12, <2>1 DEF StatusFieldsAgree
    <2> QED BY <1>1, <1>2, <1>12, <2>1, <2>2
  <1>13. CASE op = "fail"
    <2>1. /\ c.status = "failed" /\ c.epoch = r.epoch /\ c.current = r.current
          /\ c.completed = r.completed /\ c.targets = r.targets /\ c.failed = r.current
          /\ c.error = TRUE /\ c.output = r.output
      BY <1>1, <1>4, <1>13 DEF Changed, FailedRun, Row
    <2>2. StatusFieldsAgree(c)
      BY <1>1, <1>3, <1>13, <2>1 DEF StatusFieldsAgree
    <2> QED BY <1>1, <1>2, <1>13, <2>1, <2>2
  <1>14. CASE op \in {"stop", "cancel", "abandon"}
    <2>1. /\ c.status = "stopped" /\ c.epoch = r.epoch /\ c.current = r.current
          /\ c.completed = r.completed /\ c.targets = r.targets /\ c.failed = NoNode
          /\ c.error = FALSE /\ c.output = r.output
      BY <1>1, <1>4, <1>14 DEF Changed, StoppedRun, Row
    <2>2. StatusFieldsAgree(c)
      BY <1>1, <1>3, <1>14, <2>1 DEF StatusFieldsAgree
    <2> QED BY <1>1, <1>2, <1>14, <2>1, <2>2
  <1> QED BY <1>7, <1>8, <1>9, <1>10, <1>11, <1>12, <1>13, <1>14 DEF Ops, Endings, Beginnings,
       Progress

(* What makes an event fit its run, kind by kind. *)
LEMMA ValidWhen ==
  ASSUME NEW e
  PROVE  /\ e.kind = "run_started" /\ e.run.status = "running" /\ e.node = NoNode => EventValid(e)
         /\ e.kind = "node_started" /\ e.run.status = "running" /\ e.run.current = e.node
              /\ e.node \notin ToSet(e.run.completed) => EventValid(e)
         /\ e.kind = "node_completed" /\ e.run.status = "running" /\ e.run.current = e.node
              /\ e.node \in ToSet(e.run.completed) => EventValid(e)
         /\ e.kind = "node_failed" /\ e.run.status = "failed" /\ e.run.failed = e.node
              => EventValid(e)
         /\ e.kind = "run_completed" /\ e.run.status = "completed" => EventValid(e)
         /\ e.kind = "run_failed" /\ e.run.status = "failed" => EventValid(e)
         /\ e.kind = "run_stopped" /\ e.run.status = "stopped" => EventValid(e)
  BY DEF EventValid

(* The end of a run is announced as it was. *)
LEMMA EndsValid ==
  ASSUME WorkflowRunsAssumption, NEW r \in Row, r.status \in Terminal
  PROVE  /\ \A e \in Ends(r) : EventValid(e)
         /\ \A i \in DOMAIN EndEvents(r) : EventValid(EndEvents(r)[i])
  <1>1. \A k, m : /\ Event(k, r, m).kind = k /\ Event(k, r, m).run = r /\ Event(k, r, m).node = m
    BY DEF Event
  <1>2. /\ r.status = "completed" => EventValid(Event("run_completed", r, NoNode))
        /\ r.status = "stopped" => EventValid(Event("run_stopped", r, NoNode))
        /\ r.status = "failed" => /\ EventValid(Event("run_failed", r, NoNode))
                                  /\ EventValid(Event("node_failed", r, r.failed))
    BY <1>1, ValidWhen
  <1>3. \A e \in Ends(r) : EventValid(e)
    BY <1>2, EndsOf DEF Terminal
  <1>4. \A i \in DOMAIN EndEvents(r) : EndEvents(r)[i] \in Ends(r)
    BY DEF Ends, ToSet
  <1> QED BY <1>3, <1>4

(* Every event that is announced fits the run it carries. *)
LEMMA AnnouncementsFit ==
  ASSUME WorkflowRunsAssumption, NEW r \in Row, NEW n \in 1..NodeCount,
         NEW op \in Progress \cup Endings \cup Beginnings,
         r.status = IF op \in Endings THEN After(op) ELSE "running",
         op \in {"begin", "end"} => r.current = n,
         op = "begin" => n \notin ToSet(r.completed),
         op = "end" => n \in ToSet(r.completed)
  PROVE  \A i \in DOMAIN Announcements(op, r, n) : EventValid(Announcements(op, r, n)[i])
  <1>1. \A k, m : /\ Event(k, r, m).kind = k /\ Event(k, r, m).run = r /\ Event(k, r, m).node = m
    BY DEF Event
  <1>2. \A e : DOMAIN <<e>> = {1} /\ <<e>>[1] = e
    OBVIOUS
  <1>3. \A d, e : LET q == <<d>> \o <<e>> IN DOMAIN q = {1, 2} /\ q[1] = d /\ q[2] = e
    OBVIOUS
  <1>4. \A e : <<>> \o <<e>> = <<e>>
    OBVIOUS
  <1>5. CASE op \in Beginnings
    <2>1. PICK e : e = Event("run_started", r, NoNode)
      OBVIOUS
    <2>2. EventValid(e)
      BY <1>1, <1>5, <2>1, ValidWhen DEF Beginnings, Endings
    <2>3. Announcements(op, r, n) = <<e>>
      BY <1>5, <2>1 DEF Announcements, Beginnings
    <2> QED BY <1>2, <2>2, <2>3
  <1>6. CASE op = "begin"
    <2>1. PICK e : e = Event("node_started", r, n)
      OBVIOUS
    <2>2. EventValid(e)
      BY <1>1, <1>6, <2>1, ValidWhen DEF Endings
    <2>3. Announcements(op, r, n) = <<e>>
      BY <1>6, <2>1 DEF Announcements
    <2> QED BY <1>2, <2>2, <2>3
  <1>7. CASE op = "end"
    <2>1. PICK e : e = Event("node_completed", r, n)
      OBVIOUS
    <2>2. EventValid(e)
      BY <1>1, <1>7, <2>1, ValidWhen DEF Endings
    <2>3. Announcements(op, r, n) = <<e>>
      BY <1>7, <2>1 DEF Announcements
    <2> QED BY <1>2, <2>2, <2>3
  <1>8. CASE op = "target"
    <2>1. Announcements(op, r, n) = <<>>
      BY <1>8 DEF Announcements
    <2> QED BY <2>1
  <1>9. CASE op \in Endings
    <2>1. Announcements(op, r, n) = EndEvents(r)
      BY <1>9 DEF Announcements, Endings
    <2>2. r.status \in Terminal
      BY <1>9 DEF After, Terminal
    <2> QED BY <2>1, <2>2, EndsValid
  <1> QED BY <1>5, <1>6, <1>7, <1>8, <1>9 DEF Progress

-----------------------------------------------------------------------------
LEMMA TypedKnown ==
  ASSUME WorkflowRunsAssumption, TypedInv
  PROVE  /\ WInv /\ Counts /\ Budget \in Nat /\ task.attempts \in Nat /\ faults.count \in Nat
         /\ RowFits(run, Budget) /\ RowFits(exec.next, Budget) /\ Walks(exec, run)
         /\ Spare(run, task, exec, Budget) /\ run.epoch \in Nat /\ run.epoch <= Budget
         /\ \A s \in Stoppers : RowFits(stopper[s].next, Budget)
         /\ \A i \in DOMAIN exec.events : EventValid(exec.events[i])
         /\ task.state \in TaskStates /\ MaxAttempts \in Nat /\ MaxAttempts > 0
         /\ faults = [count |-> faults.count, raised |-> faults.raised] /\ faults.raised \in BOOLEAN
  <1>1. task.attempts \in Nat /\ faults.count \in Nat /\ task.state \in TaskStates
    BY DEF TypedInv, WInv, WTyped, Counts, WorkflowRunsAssumption
  <1>2. Budget \in Nat
    BY <1>1 DEF Budget
  <1>3. run.epoch \in Nat /\ run.epoch <= Budget
    BY DEF TypedInv, RowFits, Row
  <1>4. faults = [count |-> faults.count, raised |-> faults.raised] /\ faults.raised \in BOOLEAN
    BY DEF TypedInv, Counts
  <1> QED BY <1>1, <1>2, <1>3, <1>4 DEF TypedInv, WorkflowRunsAssumption

LEMMA AbsentFits ==
  ASSUME WorkflowRunsAssumption, NEW b \in Nat
  PROVE  RowFits(Absent, b) /\ Absent.status = "absent"
  <1>1. /\ Absent.status = "absent" /\ Absent.targets = {} /\ Absent.epoch = 0
        /\ Absent.completed = <<>>
    BY DEF Absent
  <1>2. Absent \in Row
    BY DEF Absent, Row, NoNode, WorkflowRunsAssumption
  <1> QED BY <1>1, <1>2, Beginning DEF RowFits

LEMMA TypedInit ==
  ASSUME WorkflowRunsAssumption, Init
  PROVE  TypedInv
  <1>1. WInv
    BY WInit
  <1>2. /\ run = Absent /\ exec.next = Absent /\ exec.events = <<>> /\ exec.pc = "idle"
        /\ task.attempts = 0 /\ task.state = "absent" /\ faults = [count |-> 0, raised |-> FALSE]
        /\ \A s \in Stoppers : stopper[s].next = Absent
    BY DEF Init, IdleExec
  <1>3. Budget = 0
    BY <1>2 DEF Budget
  <1>4. Counts
    BY <1>2 DEF Counts, WorkflowRunsAssumption
  <1>5. Walks(exec, run)
    BY <1>2 DEF Walks, Underway
  <1>6. Spare(run, task, exec, Budget)
    BY <1>2 DEF Spare, MayBegin, Active, Absent
  <1> QED BY <1>1, <1>2, <1>3, <1>4, <1>5, <1>6, AbsentFits DEF TypedInv

(* A step of a worker. *)
LEMMA WorkerTyped ==
  ASSUME WorkflowRunsAssumption, TypedInv, WInv', UNCHANGED <<task, stopper, faults>>,
         RowFits(run', Budget), RowFits(exec'.next, Budget), Walks(exec', run'),
         \A i \in DOMAIN exec'.events : EventValid(exec'.events[i]),
         Spare(run', task, exec', Budget)
  PROVE  TypedInv'
  <1>1. Budget' = Budget
    BY DEF Budget
  <1>2. Counts'
    BY DEF TypedInv, Counts
  <1>3. Spare(run, task, exec, Budget)'
    BY <1>1 DEF Spare, MayBegin
  <1>4. (\A s \in Stoppers : RowFits(stopper[s].next, Budget))'
    BY <1>1 DEF TypedInv
  <1>5. RowFits(run, Budget)' /\ RowFits(exec.next, Budget)' /\ Walks(exec, run)'
    BY <1>1
  <1> QED BY <1>2, <1>3, <1>4, <1>5 DEF TypedInv

(* A worker that gives its turn up, or turns to ending the run. *)
LEMMA AsideTyped ==
  ASSUME WorkflowRunsAssumption, TypedInv, WInv', UNCHANGED <<run, task, stopper, faults>>,
         exec.pc # "idle", exec'.next = exec.next, exec'.events = exec.events,
         \/ exec'.pc \in {"error", "fail", "retry", "verify", "cancel", "succeed"}
         \/ exec'.pc = "read" /\ exec'.op \in {"stop", "cancel", "fail", "complete"},
         exec'.op = exec.op \/ exec'.op # "abandon"
  PROVE  TypedInv'
  <1>1. Walks(exec', run')
    BY DEF Walks, Underway
  <1>2. Spare(run', task, exec', Budget)
    BY TypedKnown DEF Spare, MayBegin
  <1> QED BY <1>1, <1>2, TypedKnown, WorkerTyped

LEMMA IdleFits ==
  ASSUME WorkflowRunsAssumption, NEW b \in Nat, NEW r
  PROVE  /\ RowFits(IdleExec.next, b) /\ Walks(IdleExec, r) /\ IdleExec.events = <<>>
         /\ IdleExec.pc = "idle" /\ IdleExec.op = "none"
  BY AbsentFits DEF IdleExec, Walks, Underway

(* A worker that leaves: its run has ended, or it had not begun it. *)
LEMMA IdleTyped ==
  ASSUME WorkflowRunsAssumption, TypedInv, WInv', UNCHANGED <<run, task, stopper, faults>>,
         exec.pc # "idle", exec' = IdleExec, run.status \in Terminal \/ exec.op = "abandon"
  PROVE  TypedInv'
  <1>1. Spare(run', task, exec', Budget)
    BY TypedKnown DEF Spare, MayBegin, Active, Terminal, IdleExec
  <1> QED BY <1>1, TypedKnown, IdleFits, WorkerTyped

(* A stop request, which does not touch the worker. *)
LEMMA StopTyped ==
  ASSUME WorkflowRunsAssumption, TypedInv, WInv', UNCHANGED exec,
         task' \in {task, [task EXCEPT !.stop = TRUE]}, faults'.count \in {faults.count, faults.count + 1},
         faults' \in [count : 0..MaxFaults, raised : BOOLEAN],
         run' = run \/ (run'.status = "stopped" /\ RowFits(run', Budget)),
         NEW s \in Stoppers, NEW z, stopper' = [stopper EXCEPT ![s] = z], RowFits(z.next, Budget)
  PROVE  TypedInv'
  <1>1. task'.attempts = task.attempts /\ task'.state = task.state
    BY DEF TypedInv, WInv, WTyped
  <1>2. Budget <= Budget' /\ Budget' \in Nat /\ Budget \in Nat
    BY <1>1, TypedKnown DEF Budget
  <1>3. Counts'
    BY <1>1, TypedKnown DEF Counts
  <1>4. \A r : RowFits(r, Budget) => RowFits(r, Budget')
    BY <1>2, MoreBudget
  <1>5. \A q \in Stoppers : RowFits(stopper'[q].next, Budget')
    BY <1>4, TypedKnown DEF TypedInv, WInv, WTyped
  <1>6. Walks(exec', run')
    BY TypedKnown DEF Walks
  <1>7. Spare(run', task', exec', Budget')
    <2>1. CASE run' = run
      <3>1. Spare(run, task, exec, Budget) /\ run.epoch \in Nat
        BY TypedKnown
      <3> QED BY <1>1, <1>2, <2>1, <3>1 DEF Spare, MayBegin
    <2>2. CASE run'.status = "stopped"
      BY <2>2 DEF Spare, MayBegin, Active
    <2> QED BY <2>1, <2>2
  <1>8. RowFits(run', Budget') /\ RowFits(exec'.next, Budget')
    BY <1>4, TypedKnown
  <1>9. \A i \in DOMAIN exec'.events : EventValid(exec'.events[i])
    BY TypedKnown
  <1> QED BY <1>3, <1>5, <1>6, <1>7, <1>8, <1>9 DEF TypedInv

(* A fault leaves room for one more beginning. *)
LEMMA FaultTyped ==
  ASSUME WorkflowRunsAssumption, TypedInv, WInv', UNCHANGED <<run, task, stopper>>,
         NEW f, Fault(f), exec'.next \in {exec.next, IdleExec.next},
         exec'.events \in {exec.events, IdleExec.events}, Walks(exec', run')
  PROVE  TypedInv'
  <1>1. /\ faults'.count = faults.count + 1 /\ faults.count < MaxFaults
        /\ faults' \in [count : 0..MaxFaults, raised : BOOLEAN]
    <2>1. faults' = [count |-> faults.count + 1, raised |-> faults.raised \/ f = "raise"]
          /\ faults.count < MaxFaults
      BY DEF Fault
    <2>2. faults.count \in Nat /\ MaxFaults \in Nat
      BY TypedKnown DEF WorkflowRunsAssumption
    <2>3. faults.count + 1 \in 0..MaxFaults
      BY <2>1, <2>2
    <2> QED BY <2>1, <2>3
  <1>2. Budget' = Budget + 1 /\ Budget \in Nat
    BY <1>1, TypedKnown DEF Budget
  <1>3. \A r : RowFits(r, Budget) => RowFits(r, Budget')
    BY <1>2, MoreBudget
  <1>4. Counts'
    BY <1>1, TypedKnown DEF Counts
  <1>5. Spare(run', task', exec', Budget')
    BY <1>2, TypedKnown DEF Spare
  <1>6. RowFits(exec'.next, Budget')
    BY <1>3, TypedKnown, IdleFits
  <1>7. \A i \in DOMAIN exec'.events : EventValid(exec'.events[i])
    <2>1. \A i \in DOMAIN IdleExec.events : EventValid(IdleExec.events[i])
      BY DEF IdleExec
    <2> QED BY <2>1, TypedKnown
  <1>8. RowFits(run', Budget') /\ \A s \in Stoppers : RowFits(stopper'[s].next, Budget')
    BY <1>3, TypedKnown
  <1> QED BY <1>4, <1>5, <1>6, <1>7, <1>8 DEF TypedInv

LEMMA FaultsTyped ==
  ASSUME WorkflowRunsAssumption, TypedInv, WInv', WorkerCrash \/ Interrupt \/ StepRaises
  PROVE  TypedInv'
  <1>1. PICK f : Fault(f)
    BY DEF WorkerCrash, Interrupt, StepRaises
  <1>2. UNCHANGED <<run, task, stopper>> /\ exec.pc # "idle"
    BY DEF WorkerCrash, Interrupt, StepRaises
  <1>3. CASE exec' = IdleExec
    BY <1>1, <1>2, <1>3, TypedKnown, IdleFits, FaultTyped
  <1>4. ASSUME NEW pc \in {"read", "retry", "error"}, NEW op \in {exec.op, "abandon"},
               pc = "read" => op = "abandon", exec' = [exec EXCEPT !.pc = pc, !.op = op]
        PROVE  TypedInv'
    <2>1. /\ exec'.pc = pc /\ exec'.op = op /\ exec'.next = exec.next
          /\ exec'.events = exec.events /\ exec'.node = exec.node
      BY <1>4, TypedKnown, WorkerKnown DEF Worked
    <2>2. Walks(exec', run')
      BY <1>4, <2>1 DEF Walks, Underway
    <2> QED BY <1>1, <1>2, <2>1, <2>2, FaultTyped
  <1>5. exec = [exec EXCEPT !.op = exec.op]
    BY TypedKnown, WorkerKnown DEF Worked
  <1>6. \A pc : [exec EXCEPT !.pc = pc] = [exec EXCEPT !.pc = pc, !.op = exec.op]
    BY TypedKnown, WorkerKnown DEF Worked
  <1>7. CASE \E pc \in {"retry", "error"} : exec' = [exec EXCEPT !.pc = pc]
    BY <1>4, <1>6, <1>7
  <1>8. CASE exec' = [exec EXCEPT !.pc = "read", !.op = "abandon"]
    BY <1>4, <1>8
  <1> QED BY <1>3, <1>7, <1>8 DEF WorkerCrash, Interrupt, StepRaises, Performs, Goes

(* The run is requested; its caller is answered. *)
LEMMA CallerTyped ==
  ASSUME WorkflowRunsAssumption, TypedInv, WInv', StartRun \/ WaitEnds
  PROVE  TypedInv'
  <1>1. CASE StartRun
    <2>1. /\ run.status = "absent" /\ run' = Created /\ task.state = "absent"
          /\ task'.state = "waiting" /\ task'.attempts = 0 /\ UNCHANGED <<exec, stopper, faults>>
      BY <1>1, TypedKnown DEF StartRun, CreateRun, Submitted, WInv, Delivery
    <2>2. exec.pc = "idle"
      BY <2>1, TypedKnown DEF WInv, Delivery
    <2>3. Budget' = Budget
      BY <2>1, TypedKnown DEF Budget, Counts
    <2>4. Counts'
      BY <2>1, TypedKnown DEF Counts
    <2>5. RowFits(Created, Budget) /\ Created.status = "pending"
      <3>1. RowFits(Absent, Budget)
        BY TypedKnown, AbsentFits
      <3>2. /\ Created.status = "pending" /\ Created.targets = {} /\ Created.epoch = 0
            /\ Created.completed = <<>> /\ Created.current = NoNode /\ Created.failed = NoNode
            /\ Created.error = FALSE /\ Created.output = FALSE
        BY DEF Created, Absent
      <3>3. Created \in Row
        BY <3>1 DEF RowFits, Created, Row, Active
      <3>4. StatusFieldsAgree(Created)
        BY <3>2, Beginning DEF StatusFieldsAgree, NoNode
      <3> QED BY <3>2, <3>3, <3>4, TypedKnown, Beginning DEF RowFits
    <2>6. Walks(exec', run')
      BY <2>1, <2>5, TypedKnown DEF Walks
    <2>7. Spare(run', task', exec', Budget)
      BY <2>1, <2>2 DEF Spare, MayBegin
    <2> QED BY <2>1, <2>3, <2>4, <2>5, <2>6, <2>7, TypedKnown DEF TypedInv
  <1>2. CASE WaitEnds
    <2>1. UNCHANGED <<run, task, exec, stopper, faults>>
      BY <1>2 DEF WaitEnds
    <2> QED BY <2>1, TypedKnown, WorkerTyped
  <1> QED BY <1>1, <1>2

(* A delivery begins: it counts an attempt, or the one before it ended in a fault. *)
LEMMA ClaimTyped ==
  ASSUME WorkflowRunsAssumption, TypedInv, WInv', Claim
  PROVE  TypedInv'
  <1>1. /\ UNCHANGED <<run, stopper, faults>> /\ exec.pc = "idle"
        /\ task.state \in {"waiting", "leased"}
        /\ exec' = [IdleExec EXCEPT !.pc = "load", !.stop = task.stop]
        /\ task' = [task EXCEPT !.state = "leased",
                                !.attempts = IF @ < MaxAttempts THEN @ + 1 ELSE @]
    BY DEF Claim, Worker, Delivered, TaskOpen
  <1>2. exec'.pc = "load" /\ exec'.next = Absent /\ exec'.events = <<>>
    BY <1>1 DEF IdleExec
  <1>3. PICK n \in Nat : /\ n = IF task.attempts < MaxAttempts THEN task.attempts + 1
                                ELSE task.attempts
                         /\ n <= MaxAttempts
    BY TypedKnown DEF Counts
  <1>4. task'.state = "leased" /\ task'.attempts = n
    <2>1. task' = [task EXCEPT !.state = "leased", !.attempts = n]
      BY <1>1, <1>3
    <2> QED BY <2>1, TypedKnown DEF WInv, WTyped
  <1>5. /\ Budget \in Nat /\ Budget' \in Nat /\ Budget <= Budget'
        /\ task.state = "waiting" => Budget' = Budget + 1
    BY <1>1, <1>3, <1>4, TypedKnown DEF Budget, Counts
  <1>6. \A r : RowFits(r, Budget) => RowFits(r, Budget')
    BY <1>5, MoreBudget
  <1>7. Counts'
    BY <1>1, <1>3, <1>4, TypedKnown DEF Counts
  <1>8. Walks(exec', run')
    BY <1>2 DEF Walks, Underway
  <1>9. Spare(run', task', exec', Budget')
    <2>1. CASE task.state = "waiting"
      BY <1>1, <1>5, <2>1, TypedKnown DEF Spare
    <2>2. CASE task.state = "leased"
      BY <1>1, <1>5, <2>2, TypedKnown DEF Spare, MayBegin
    <2> QED BY <1>1, <2>1, <2>2
  <1>10. RowFits(exec'.next, Budget')
    BY <1>2, <1>5, AbsentFits
  <1>11. RowFits(run', Budget') /\ \A s \in Stoppers : RowFits(stopper'[s].next, Budget')
    BY <1>1, <1>6, TypedKnown
  <1> QED BY <1>2, <1>7, <1>8, <1>9, <1>10, <1>11 DEF TypedInv

LEMMA HeartbeatTyped ==
  ASSUME WorkflowRunsAssumption, TypedInv, WInv', Heartbeat
  PROVE  TypedInv'
  <1>1. /\ UNCHANGED <<run, task, stopper, faults>> /\ exec' = [exec EXCEPT !.stop = TRUE]
    BY DEF Heartbeat
  <1>2. /\ exec'.pc = exec.pc /\ exec'.op = exec.op /\ exec'.node = exec.node
        /\ exec'.next = exec.next /\ exec'.events = exec.events
    BY <1>1, TypedKnown, WorkerKnown DEF Worked
  <1>3. Walks(exec', run')
    BY <1>1, <1>2, TypedKnown DEF Walks, Underway
  <1>4. Spare(run', task, exec', Budget)
    BY <1>1, <1>2, TypedKnown DEF Spare, MayBegin
  <1> QED BY <1>1, <1>2, <1>3, <1>4, TypedKnown, WorkerTyped

(* The task is settled, or waits for another delivery. *)
LEMMA SettleTyped ==
  ASSUME WorkflowRunsAssumption, TypedInv, WInv', SettleTask
  PROVE  TypedInv'
  <1>1. /\ UNCHANGED <<run, stopper, faults>> /\ exec' = IdleExec
        /\ exec.pc \in {"succeed", "fail", "cancel", "retry"}
    BY DEF SettleTask
  <1>2. PICK st \in {"succeeded", "cancelled", "waiting", "failed"} :
          /\ task' = [task EXCEPT !.state = st]
          /\ st = "waiting" => task.attempts < MaxAttempts
    BY DEF SettleTask
  <1>3. task'.state = st /\ task'.attempts = task.attempts
    BY <1>2, TypedKnown DEF WInv, WTyped
  <1>4. Budget' = Budget
    BY <1>1, <1>3 DEF Budget
  <1>5. Counts'
    BY <1>1, <1>2, <1>3, TypedKnown DEF Counts
  <1>6. Spare(run', task', exec', Budget)
    BY <1>1, <1>2, <1>3, IdleFits, TypedKnown DEF Spare, MayBegin
  <1>7. RowFits(exec'.next, Budget) /\ Walks(exec', run') /\ exec'.events = <<>>
    BY <1>1, TypedKnown, IdleFits
  <1> QED BY <1>1, <1>4, <1>5, <1>6, <1>7, TypedKnown DEF TypedInv

(* A worker that only goes elsewhere keeps what it holds. *)
LEMMA Turned ==
  ASSUME WInv
  PROVE  /\ \A pc : exec' = [exec EXCEPT !.pc = pc] =>
              /\ exec'.pc = pc /\ exec'.op = exec.op /\ exec'.next = exec.next
              /\ exec'.events = exec.events /\ exec'.node = exec.node
         /\ \A pc, op : exec' = [exec EXCEPT !.pc = pc, !.op = op] =>
              /\ exec'.pc = pc /\ exec'.op = op /\ exec'.next = exec.next
              /\ exec'.events = exec.events /\ exec'.node = exec.node
  BY WorkerKnown DEF Worked

(* A worker that gives its turn up or turns to ending the run, by what it writes. *)
LEMMA AsideSteps ==
  ASSUME WorkflowRunsAssumption, TypedInv, WInv', UNCHANGED <<run, task, stopper, faults>>,
         exec.pc # "idle",
         \/ \E pc \in {"error", "fail", "retry", "verify", "cancel", "succeed"} :
              exec' = [exec EXCEPT !.pc = pc]
         \/ \E op \in {"stop", "cancel", "fail", "complete"} :
              exec' = [exec EXCEPT !.pc = "read", !.op = op]
  PROVE  TypedInv'
  <1>1. CASE \E pc \in {"error", "fail", "retry", "verify", "cancel", "succeed"} :
               exec' = [exec EXCEPT !.pc = pc]
    <2>1. PICK pc \in {"error", "fail", "retry", "verify", "cancel", "succeed"} :
            exec' = [exec EXCEPT !.pc = pc]
      BY <1>1
    <2>2. exec'.pc = pc /\ exec'.op = exec.op /\ exec'.next = exec.next
          /\ exec'.events = exec.events
      BY <2>1, TypedKnown, Turned
    <2> QED BY <2>2, AsideTyped
  <1>2. CASE \E op \in {"stop", "cancel", "fail", "complete"} :
               exec' = [exec EXCEPT !.pc = "read", !.op = op]
    <2>1. PICK op \in {"stop", "cancel", "fail", "complete"} :
            exec' = [exec EXCEPT !.pc = "read", !.op = op]
      BY <1>2
    <2>2. exec'.pc = "read" /\ exec'.op = op /\ exec'.next = exec.next
          /\ exec'.events = exec.events
      BY <2>1, TypedKnown, Turned
    <2> QED BY <2>2, AsideTyped
  <1> QED BY <1>1, <1>2

LEMMA FoundEndedTyped ==
  ASSUME WorkflowRunsAssumption, TypedInv, WInv', UNCHANGED <<run, task, stopper, faults>>,
         exec.pc \in {"read", "write"}, run.status \in Terminal, FoundEnded(exec.op)
  PROVE  TypedInv'
  <1>1. WInv /\ exec.op \in Progress \cup Endings \cup Beginnings
    BY TypedKnown, WorkerKnown DEF Planned
  <1>2. CASE exec.op = "abandon"
    <2>1. exec' = IdleExec
      BY <1>2 DEF FoundEnded
    <2> QED BY <2>1, IdleTyped
  <1>3. CASE exec.op \in Progress
    <2>1. exec' = [exec EXCEPT !.pc = "read", !.op = "stop"]
      BY <1>3 DEF FoundEnded, Performs, Progress
    <2> QED BY <1>1, <2>1, AsideSteps
  <1>4. CASE exec.op \notin Progress \cup {"abandon"}
    <2>1. PICK pc \in {"error", "cancel", "fail", "verify"} : exec' = [exec EXCEPT !.pc = pc]
      BY <1>1, <1>4 DEF FoundEnded, Goes, Progress, Endings, Beginnings
    <2> QED BY <1>1, <2>1, AsideSteps
  <1> QED BY <1>2, <1>3, <1>4

LEMMA LoadRunTyped ==
  ASSUME WorkflowRunsAssumption, TypedInv, WInv', LoadRun
  PROVE  TypedInv'
  <1>1. exec.pc = "load" /\ UNCHANGED <<run, stopper, task, faults>> /\ WInv /\ run \in Row
    BY TypedKnown, WorkerKnown DEF LoadRun, At, Worker
  <1>2. exec.node = 1 /\ run.status # "absent"
    BY <1>1, WorkerKnown DEF Listed
  <1>3. CASE run.status \in Terminal
    <2>1. exec' = [exec EXCEPT !.pc = "publish", !.op = "republish", !.next = run,
                               !.events = EndEvents(run)]
      BY <1>3 DEF LoadRun
    <2>2. /\ exec'.pc = "publish" /\ exec'.op = "republish"
          /\ exec'.next = run /\ exec'.events = EndEvents(run)
      BY <1>1, <2>1, WorkerKnown DEF Worked
    <2>3. \A i \in DOMAIN exec'.events : EventValid(exec'.events[i])
      BY <1>1, <1>3, <2>2, EndsValid
    <2>4. Walks(exec', run') /\ Spare(run', task, exec', Budget)
      BY <1>1, <1>3, <2>2 DEF Walks, Underway, Spare, Active, Terminal
    <2> QED BY <1>1, <2>2, <2>3, <2>4, TypedKnown, WorkerTyped
  <1>4. CASE exec' = [exec EXCEPT !.pc = "read", !.op = "cancel"]
    BY <1>1, <1>4, AsideSteps
  <1>5. CASE run.status \in Active /\ exec' = [exec EXCEPT !.pc = "node"]
    <2>1. /\ exec'.pc = "node" /\ exec'.op = exec.op /\ exec'.node = 1
          /\ exec'.next = exec.next /\ exec'.events = exec.events
      BY <1>1, <1>2, <1>5, Turned
    <2>2. Walks(exec', run')
      BY <2>1 DEF Walks, Underway
    <2>3. Spare(run', task, exec', Budget)
      BY <1>1, TypedKnown DEF Spare, MayBegin
    <2> QED BY <1>1, <2>1, <2>2, <2>3, TypedKnown, WorkerTyped
  <1>6. ASSUME NEW op \in Beginnings, Allowed(op, run, 1), run.status \in Active,
               exec' = [exec EXCEPT !.pc = "write", !.op = op, !.next = Changed(op, run, 1)]
        PROVE  TypedInv'
    <2>1. op \in Ops \ {"none", "republish"} /\ op \notin {"end", "target"} /\ 1 \in 1..NodeCount
      BY DEF Ops, Beginnings, WorkflowRunsAssumption
    <2>2. run.epoch + 1 <= Budget
      BY <1>1, <1>6, TypedKnown DEF Spare, MayBegin
    <2>3. PICK c : c = Changed(op, run, 1)
      OBVIOUS
    <2>4. RowFits(c, Budget)
      BY <2>1, <2>2, <2>3, <1>6, TypedKnown, FitsChanged
    <2>5. /\ exec'.pc = "write" /\ exec'.op = op /\ exec'.next = c /\ exec'.events = exec.events
      BY <1>1, <1>6, <2>3, WorkerKnown DEF Worked
    <2>6. Walks(exec', run') /\ Spare(run', task, exec', Budget)
      BY <2>5 DEF Walks, Underway, Spare, MayBegin, Beginnings
    <2> QED BY <1>1, <2>4, <2>5, <2>6, TypedKnown, WorkerTyped
  <1>7. /\ Changed("mark", run, 1) = Started(run) /\ Changed("restart", run, 1) = Restarted(run)
        /\ Allowed("mark", run, 1) <=> run.status = "pending"
        /\ Allowed("restart", run, 1) <=> run.status \in Active
        /\ "mark" \in Beginnings /\ "restart" \in Beginnings
    BY DEF Changed, Allowed, Beginnings
  <1>8. CASE run.status = "pending"
             /\ exec' = [exec EXCEPT !.pc = "write", !.op = "mark", !.next = Started(run)]
    BY <1>6, <1>7, <1>8 DEF Active
  <1>9. CASE run.status \in Active
             /\ exec' = [exec EXCEPT !.pc = "write", !.op = "restart", !.next = Restarted(run)]
    BY <1>6, <1>7, <1>9
  <1>10. run.status \in Active \cup Terminal
    BY <1>1, <1>2 DEF Row
  <1> QED BY <1>3, <1>4, <1>5, <1>8, <1>9, <1>10 DEF LoadRun

LEMMA ReadForChangeTyped ==
  ASSUME WorkflowRunsAssumption, TypedInv, WInv', ReadForChange
  PROVE  TypedInv'
  <1>1. /\ exec.pc = "read" /\ UNCHANGED <<run, stopper, task, faults>> /\ WInv
        /\ run \in Row /\ exec.op \in Progress \cup Endings /\ exec.node \in 1..NodeCount
    BY TypedKnown, WorkerKnown DEF ReadForChange, At, Worker, Planned
  <1>2. CASE run.status \in Terminal
    BY <1>1, <1>2, FoundEndedTyped DEF ReadForChange
  <1>3. CASE \E pc \in {"retry", "error"} : exec' = [exec EXCEPT !.pc = pc]
    BY <1>1, <1>3, AsideSteps
  <1>4. CASE /\ Allowed(exec.op, run, exec.node)
             /\ exec' = [exec EXCEPT !.pc = "write", !.next = Changed(exec.op, run, exec.node)]
    <2>1. PICK c : c = Changed(exec.op, run, exec.node)
      OBVIOUS
    <2>2. exec.op \in Ops \ {"none", "republish"} /\ exec.op \notin Beginnings
      BY <1>1 DEF Ops, Beginnings, Progress, Endings
    <2>3. exec.op \in {"begin", "end", "target"} => run.status = "running"
      BY <1>4 DEF Allowed
    <2>4. exec.op \in {"end", "target"} => run.completed = Upto(exec.node - 1)
      BY <1>1, <2>3, TypedKnown DEF Walks, Underway
    <2>5. exec.op = "begin" => run.completed = Upto(exec.node - 1)
      <3>1. CASE exec.node > 1
        BY <1>1, <2>3, <3>1, TypedKnown DEF Walks
      <3>2. CASE exec.op = "begin" /\ exec.node = 1
        <4>1. PICK m \in 0..NodeCount : run.completed = Upto(m)
          BY TypedKnown DEF RowFits
        <4>2. 1 \notin 1..m
          BY <1>4, <3>2, <4>1, Beginning DEF Allowed
        <4> QED BY <3>2, <4>1, <4>2, Beginning
      <3> QED BY <1>1, <3>1, <3>2 DEF WorkflowRunsAssumption
    <2>6. exec.op = "target" => exec.node \in AiNodes
      BY <1>1, TypedKnown DEF Walks
    <2>7. /\ RowFits(c, Budget)
          /\ exec.op \in {"begin", "target"} => c.completed = run.completed
          /\ exec.op = "end" => c.completed = Upto(exec.node)
          /\ exec.op \in {"begin", "end"} => c.current = exec.node
      BY <1>1, <1>4, <2>1, <2>2, <2>4, <2>6, TypedKnown, FitsChanged
    <2>8. /\ exec'.pc = "write" /\ exec'.op = exec.op /\ exec'.next = c
          /\ exec'.node = exec.node /\ exec'.events = exec.events
      BY <1>1, <1>4, <2>1, WorkerKnown DEF Worked
    <2>9. Walks(exec', run')
      BY <2>4, <2>5, <2>7, <2>8 DEF Walks, Underway
    <2>10. Spare(run', task, exec', Budget)
      BY <1>1, <2>8, TypedKnown DEF Spare, MayBegin
    <2> QED BY <1>1, <2>7, <2>8, <2>9, <2>10, TypedKnown, WorkerTyped
  <1> QED BY <1>2, <1>3, <1>4 DEF ReadForChange, Goes

LEMMA WriteChangeTyped ==
  ASSUME WorkflowRunsAssumption, TypedInv, WInv', WriteChange
  PROVE  TypedInv'
  <1>1. /\ exec.pc = "write" /\ UNCHANGED <<stopper, task, faults>> /\ WInv
        /\ run \in Row /\ exec.node \in 1..NodeCount /\ run.status # "absent"
    BY TypedKnown, WorkerKnown DEF WriteChange, At, Worker
  <1>2. CASE run.status \notin Active
    <2>1. run' = run /\ FoundEnded(exec.op) /\ run.status \in Terminal
      BY <1>1, <1>2 DEF WriteChange, UpdateActive, Row
    <2> QED BY <1>1, <2>1, FoundEndedTyped
  <1>3. CASE run.status \in Active
    <2>1. PICK v : v = Announcements(exec.op, exec.next, exec.node)
      OBVIOUS
    <2>2. /\ run' = exec.next /\ exec' = [exec EXCEPT !.pc = "publish", !.events = v]
      BY <1>3, <2>1 DEF WriteChange, UpdateActive
    <2>3. /\ exec.op \in Progress \cup Endings \cup Beginnings /\ exec.next \in Row
          /\ exec.next.status = IF exec.op \in Endings THEN After(exec.op) ELSE "running"
      BY <1>1, WorkerKnown DEF Planned
    <2>4. /\ exec.op \in {"begin", "target"} => exec.next.completed = Upto(exec.node - 1)
          /\ exec.op = "end" => exec.next.completed = Upto(exec.node)
          /\ exec.op \in {"begin", "end"} => exec.next.current = exec.node
      BY <1>1, TypedKnown DEF Walks
    <2>5. /\ exec.op = "begin" => exec.node \notin ToSet(exec.next.completed)
          /\ exec.op = "end" => exec.node \in ToSet(exec.next.completed)
      <3>1. exec.node \in Nat /\ exec.node - 1 \in 0..NodeCount /\ exec.node \in 0..NodeCount
        BY <1>1 DEF WorkflowRunsAssumption
      <3>2. ToSet(Upto(exec.node - 1)) = 1..(exec.node - 1) /\ ToSet(Upto(exec.node)) = 1..exec.node
        BY <3>1, Beginning
      <3>3. exec.node \notin 1..(exec.node - 1) /\ exec.node \in 1..exec.node
        BY <1>1, <3>1
      <3> QED BY <2>4, <3>2, <3>3
    <2>6. \A i \in DOMAIN v : EventValid(v[i])
      BY <1>1, <2>1, <2>3, <2>4, <2>5, AnnouncementsFit
    <2>7. /\ exec'.pc = "publish" /\ exec'.op = exec.op /\ exec'.next = exec.next
          /\ exec'.node = exec.node /\ exec'.events = v
      BY <1>1, <2>2, WorkerKnown DEF Worked
    <2>8. Walks(exec', run')
      BY <2>2, <2>4, <2>7 DEF Walks, Underway
    <2>9. Spare(run', task, exec', Budget)
      BY <2>2, <2>3, <2>7 DEF Spare, MayBegin, Endings, After, Active
    <2> QED BY <1>1, <2>2, <2>6, <2>7, <2>8, <2>9, TypedKnown, WorkerTyped
  <1> QED BY <1>2, <1>3

LEMMA PublishChangeTyped ==
  ASSUME WorkflowRunsAssumption, TypedInv, WInv', PublishChange
  PROVE  TypedInv'
  <1>1. /\ exec.pc = "publish" /\ UNCHANGED <<run, stopper, task, faults>> /\ WInv
        /\ exec.node \in 1..NodeCount /\ exec.events \in Seq(RunEvent)
    BY TypedKnown, WorkerKnown DEF PublishChange, At, Worker
  <1>2. CASE exec.events # <<>>
    <2>1. PICK w : w = Tail(exec.events)
      OBVIOUS
    <2>2. exec' = [exec EXCEPT !.events = w]
      BY <1>2, <2>1 DEF PublishChange
    <2>3. /\ exec'.pc = exec.pc /\ exec'.op = exec.op /\ exec'.next = exec.next
          /\ exec'.node = exec.node /\ exec'.events = w
      BY <1>1, <2>2, WorkerKnown DEF Worked
    <2>4. \A i \in DOMAIN w : EventValid(w[i])
      BY <1>1, <1>2, <2>1, Heads, TypedKnown
    <2>5. Walks(exec', run') /\ Spare(run', task, exec', Budget)
      BY <1>1, <2>3, TypedKnown DEF Walks, Underway, Spare, MayBegin
    <2> QED BY <1>1, <2>3, <2>4, <2>5, TypedKnown, WorkerTyped
  <1>3. CASE exec.events = <<>>
    <2>1. Continue
      BY <1>3 DEF PublishChange
    <2>2. exec.op \in Progress \cup Beginnings \cup Endings \cup {"republish"}
      BY <1>1, WorkerKnown DEF Planned
    <2>3. CASE exec.op \in {"complete", "stop", "cancel", "fail"}
      <3>1. PICK pc \in {"verify", "cancel", "fail"} : exec' = [exec EXCEPT !.pc = pc]
        BY <2>1, <2>3 DEF Continue, Goes
      <3> QED BY <1>1, <3>1, AsideSteps
    <2>4. CASE exec.op = "republish"
      <3>1. PICK pc \in {"succeed", "cancel", "fail"} : exec' = [exec EXCEPT !.pc = pc]
        BY <2>1, <2>4 DEF Continue, Goes, Verdict
      <3> QED BY <1>1, <3>1, AsideSteps
    <2>5. CASE exec.op = "abandon"
      <3>1. exec' = IdleExec
        BY <2>1, <2>5 DEF Continue
      <3> QED BY <1>1, <2>5, <3>1, IdleTyped
    <2>6. CASE exec.op = "end" /\ ~(exec.node < NodeCount)
      <3>1. exec.node = NodeCount
        BY <1>1, <2>6 DEF WorkflowRunsAssumption
      <3>2. exec' = [exec EXCEPT !.pc = "read", !.op = "complete"]
        BY <2>1, <2>6, <3>1 DEF Continue, Performs
      <3> QED BY <1>1, <3>2, AsideSteps
    <2>7. CASE exec.op = "end" /\ exec.node < NodeCount
      <3>1. PICK n \in 1..NodeCount : n = exec.node + 1 /\ exec.node = n - 1
        BY <1>1, <2>7 DEF WorkflowRunsAssumption
      <3>2. exec' = [exec EXCEPT !.pc = "node", !.node = n]
        <4>1. exec.node \in Nat /\ NodeCount \in Nat /\ exec.node # NodeCount
          BY <1>1, <2>7 DEF WorkflowRunsAssumption
        <4>2. PICK x : x = [exec EXCEPT !.pc = "node", !.node = exec.node + 1]
          OBVIOUS
        <4>3. exec' = x
          BY <2>1, <2>7, <4>1, <4>2 DEF Continue
        <4> QED BY <3>1, <4>2, <4>3
      <3>3. /\ exec'.pc = "node" /\ exec'.node = n /\ exec'.op = exec.op
            /\ exec'.next = exec.next /\ exec'.events = exec.events
        BY <1>1, <3>2, WorkerKnown DEF Worked
      <3>4. run.status = "running" => run.completed = Upto(n - 1)
        BY <1>1, <2>7, <3>1, TypedKnown DEF Walks
      <3>5. Walks(exec', run')
        BY <1>1, <3>3, <3>4 DEF Walks, Underway
      <3>6. Spare(run', task, exec', Budget)
        BY <1>1, <2>7, <3>3 DEF Spare, MayBegin
      <3> QED BY <1>1, <3>3, <3>5, <3>6, TypedKnown, WorkerTyped
    <2>8. CASE exec.op \in Beginnings \cup {"begin", "target"}
      <3>1. PICK pc \in {"node", "running", "ended"} :
              /\ exec' = [exec EXCEPT !.pc = pc]
              /\ pc = "node" <=> exec.op \in Beginnings
        BY <2>1, <2>8 DEF Continue, Goes, Beginnings
      <3>2. /\ exec'.pc = pc /\ exec'.op = exec.op /\ exec'.next = exec.next
            /\ exec'.node = exec.node /\ exec'.events = exec.events
        BY <1>1, <3>1, Turned
      <3>3. pc = "node" => exec.node = 1
        BY <1>1, <3>1, WorkerKnown DEF Listed
      <3>4. pc # "node" /\ run.status = "running" => run.completed = Upto(exec.node - 1)
        BY <1>1, <2>8, <3>1, TypedKnown DEF Walks, Underway
      <3>5. Walks(exec', run')
        BY <1>1, <3>2, <3>3, <3>4 DEF Walks, Underway
      <3>6. Spare(run', task, exec', Budget)
        BY <1>1, <2>8, <3>2 DEF Spare, MayBegin, Beginnings
      <3> QED BY <1>1, <3>2, <3>5, <3>6, TypedKnown, WorkerTyped
    <2> QED BY <2>2, <2>3, <2>4, <2>5, <2>6, <2>7, <2>8 DEF Progress, Endings
  <1> QED BY <1>2, <1>3

(* The compiled graph and the verdict on an attempt. *)
LEMMA GraphTyped ==
  ASSUME WorkflowRunsAssumption, TypedInv, WInv',
         NextNode \/ RunNode \/ EndNode \/ VerifyRun \/ AttemptFailed
  PROVE  TypedInv'
  <1>1. /\ exec.pc \in {"node", "running", "ended", "verify", "error"}
        /\ UNCHANGED <<run, stopper, task, faults>> /\ WInv
    BY TypedKnown DEF NextNode, RunNode, EndNode, VerifyRun, AttemptFailed, At, Worker
  <1>2. CASE \E op \in {"stop", "fail"} : exec' = [exec EXCEPT !.pc = "read", !.op = op]
    BY <1>1, <1>2, AsideSteps
  <1>3. CASE \E pc \in {"error", "retry", "cancel", "fail", "succeed"} :
               exec' = [exec EXCEPT !.pc = pc]
    BY <1>1, <1>3, AsideSteps
  <1>4. ASSUME exec'.next = exec.next, exec'.events = exec.events, exec'.node = exec.node,
               \/ exec.pc = "node" /\ exec'.pc = "read" /\ exec'.op = "begin"
               \/ exec.pc = "running" /\ exec'.pc = "read" /\ exec'.op = "target"
                    /\ exec.node \in AiNodes
               \/ exec.pc = "running" /\ exec'.pc = "ended" /\ exec'.op = exec.op
               \/ exec.pc = "ended" /\ exec'.pc = "read" /\ exec'.op = "end"
        PROVE  TypedInv'
    <2>1. Walks(exec', run')
      BY <1>1, <1>4, TypedKnown DEF Walks, Underway
    <2>2. Spare(run', task, exec', Budget)
      BY <1>1, <1>4, TypedKnown DEF Spare, MayBegin
    <2> QED BY <1>1, <1>4, <2>1, <2>2, TypedKnown, WorkerTyped
  <1>5. CASE NextNode
    <2>1. CASE exec' = [exec EXCEPT !.pc = "read", !.op = "begin"]
      BY <1>1, <1>4, <1>5, <2>1, Turned DEF NextNode, At, Worker
    <2> QED BY <1>2, <1>5, <2>1 DEF NextNode, Performs
  <1>6. CASE RunNode
    <2>1. CASE exec.node \in AiNodes /\ exec' = [exec EXCEPT !.pc = "read", !.op = "target"]
      BY <1>1, <1>4, <1>6, <2>1, Turned DEF RunNode, At, Worker
    <2>2. CASE exec' = [exec EXCEPT !.pc = "ended"]
      BY <1>1, <1>4, <1>6, <2>2, Turned DEF RunNode, At, Worker
    <2> QED BY <1>2, <1>6, <2>1, <2>2 DEF RunNode, Performs, Goes
  <1>7. CASE EndNode
    <2>1. CASE exec' = [exec EXCEPT !.pc = "read", !.op = "end",
                                    !.done = NodeUpdate(@, exec.node)]
      <3>1. PICK u : u = NodeUpdate(exec.done, exec.node)
        OBVIOUS
      <3>2. exec' = [exec EXCEPT !.pc = "read", !.op = "end", !.done = u]
        BY <2>1, <3>1
      <3>3. /\ exec'.pc = "read" /\ exec'.op = "end" /\ exec'.next = exec.next
            /\ exec'.events = exec.events /\ exec'.node = exec.node
        BY <1>1, <3>2, WorkerKnown DEF Worked
      <3> QED BY <1>4, <1>7, <3>3 DEF EndNode, At, Worker
    <2> QED BY <1>2, <1>3, <1>7, <2>1 DEF EndNode
  <1>8. CASE VerifyRun
    BY <1>3, <1>8 DEF VerifyRun, Goes, Verdict
  <1>9. CASE AttemptFailed
    BY <1>2, <1>3, <1>9 DEF AttemptFailed, Goes, Performs
  <1> QED BY <1>1, <1>5, <1>6, <1>7, <1>8, <1>9

LEMMA StopStepTyped ==
  ASSUME WorkflowRunsAssumption, TypedInv, WInv', NEW s \in Stoppers,
         StopAsked(s) \/ StopStep(s) \/ StopperCrash(s)
  PROVE  TypedInv'
  <1>1. /\ stopper \in [Stoppers -> Stopping] /\ stopper[s] \in Stopping
        /\ RowFits(stopper[s].next, Budget) /\ Stops(stopper[s], run)
        /\ faults.count \in Nat /\ faults \in [count : 0..MaxFaults, raised : BOOLEAN]
    BY TypedKnown DEF TypedInv, Counts, WInv, WTyped
  <1>2. RowFits(Absent, Budget)
    BY TypedKnown, AbsentFits
  <1>3. \A pc : [stopper[s] EXCEPT !.pc = pc].next = stopper[s].next
    BY <1>1 DEF Stopping
  <1>4. CASE StopAsked(s)
    <2>1. PICK z : z = [stopper[s] EXCEPT !.pc = "request"]
      OBVIOUS
    <2>2. stopper' = [stopper EXCEPT ![s] = z] /\ RowFits(z.next, Budget)
      BY <1>1, <1>3, <1>4, <2>1 DEF StopAsked, StopperGoes, Stopping
    <2>3. UNCHANGED <<run, task, exec, faults>>
      BY <1>4 DEF StopAsked, StopperAt
    <2> QED BY <1>1, <2>2, <2>3, StopTyped
  <1>5. CASE StopRequested(s)
    <2>1. PICK z : /\ stopper' = [stopper EXCEPT ![s] = z] /\ z.next = stopper[s].next
      <3>1. PICK pc \in {"idle", "read"} : StopperGoes(s, pc)
        BY <1>5 DEF StopRequested
      <3>2. stopper' = [stopper EXCEPT ![s] = [stopper[s] EXCEPT !.pc = pc]]
        BY <1>1, <3>1 DEF StopperGoes, Stopping
      <3> QED BY <1>3, <3>2
    <2>2. UNCHANGED <<run, exec, faults>> /\ task' \in {task, [task EXCEPT !.stop = TRUE]}
      BY <1>5 DEF StopRequested
    <2> QED BY <1>1, <2>1, <2>2, StopTyped
  <1>6. CASE StopReads(s)
    <2>1. UNCHANGED <<run, task, exec, faults>>
      BY <1>6 DEF StopReads, StopperAt
    <2>2. CASE run.status \in Active
      <3>1. PICK c : c = StoppedRun(run)
        OBVIOUS
      <3>2. RowFits(c, Budget)
        <4>1. /\ c = Changed("stop", run, 1) /\ Allowed("stop", run, 1)
              /\ "stop" \in Ops \ {"none", "republish"} /\ 1 \in 1..NodeCount
              /\ "stop" \notin Beginnings
          BY <2>2, <3>1 DEF Changed, Allowed, Ops, Endings, Beginnings, WorkflowRunsAssumption
        <4> QED BY <4>1, TypedKnown, FitsChanged
      <3>3. PICK z : z = [pc |-> "write", next |-> c]
        OBVIOUS
      <3>4. stopper' = [stopper EXCEPT ![s] = z] /\ RowFits(z.next, Budget)
        BY <1>6, <2>2, <3>1, <3>2, <3>3 DEF StopReads
      <3> QED BY <1>1, <2>1, <3>4, StopTyped
    <2>3. CASE run.status \notin Active
      <3>1. PICK z : z = [stopper[s] EXCEPT !.pc = "idle"]
        OBVIOUS
      <3>2. stopper' = [stopper EXCEPT ![s] = z] /\ RowFits(z.next, Budget)
        BY <1>1, <1>3, <1>6, <2>3, <3>1 DEF StopReads
      <3> QED BY <1>1, <2>1, <3>2, StopTyped
    <2> QED BY <2>2, <2>3
  <1>7. CASE StopWrites(s)
    <2>1. /\ UNCHANGED <<task, exec, faults>> /\ stopper[s].next.status = "stopped"
          /\ run' = run \/ run' = stopper[s].next
      BY <1>1, <1>7 DEF StopWrites, StopperAt, UpdateActive, Stops
    <2>2. PICK z : /\ stopper' = [stopper EXCEPT ![s] = z]
                   /\ \/ z = [stopper[s] EXCEPT !.pc = "publish"]
                      \/ z = [pc |-> "idle", next |-> Absent]
      BY <1>7 DEF StopWrites
    <2>3. z.next \in {stopper[s].next, Absent}
      <3>1. CASE z = [stopper[s] EXCEPT !.pc = "publish"]
        BY <1>1, <3>1 DEF Stopping
      <3>2. CASE z = [pc |-> "idle", next |-> Absent]
        BY <3>2
      <3> QED BY <2>2, <3>1, <3>2
    <2>4. RowFits(z.next, Budget)
      BY <1>1, <1>2, <2>3
    <2> QED BY <1>1, <2>1, <2>2, <2>4, StopTyped
  <1>8. CASE StopPublishes(s) \/ StopperCrash(s)
    <2>1. PICK z : z = [pc |-> "idle", next |-> Absent]
      OBVIOUS
    <2>2. /\ UNCHANGED <<run, task, exec>> /\ stopper' = [stopper EXCEPT ![s] = z]
          /\ RowFits(z.next, Budget)
      BY <1>2, <1>8, <2>1 DEF StopPublishes, StopperAt, StopperCrash
    <2>3. /\ faults'.count \in {faults.count, faults.count + 1}
          /\ faults' \in [count : 0..MaxFaults, raised : BOOLEAN]
      <3>1. CASE StopPublishes(s)
        BY <1>1, <3>1 DEF StopPublishes, StopperAt
      <3>2. CASE StopperCrash(s)
        <4>1. /\ faults' = [count |-> faults.count + 1,
                            raised |-> faults.raised \/ "api_crash" = "raise"]
              /\ faults.count < MaxFaults
          BY <3>2 DEF StopperCrash, Fault
        <4>2. faults.count + 1 \in 0..MaxFaults
          BY <1>1, <4>1 DEF WorkflowRunsAssumption
        <4> QED BY <4>1, <4>2
      <3> QED BY <1>8, <3>1, <3>2
    <2> QED BY <2>2, <2>3, StopTyped
  <1> QED BY <1>4, <1>5, <1>6, <1>7, <1>8 DEF StopStep

LEMMA TypedStep ==
  ASSUME WorkflowRunsAssumption, TypedInv, [Next]_vars
  PROVE  TypedInv'
  <1>1. WInv'
    BY WStep, TypedKnown
  <1>2. CASE StartRun \/ WaitEnds
    BY <1>1, <1>2, CallerTyped
  <1>3. CASE WorkerStep
    BY <1>1, <1>3, ClaimTyped, HeartbeatTyped, LoadRunTyped, ReadForChangeTyped, WriteChangeTyped,
       PublishChangeTyped, GraphTyped, SettleTyped DEF WorkerStep
  <1>4. CASE WorkerCrash \/ Interrupt \/ StepRaises
    BY <1>1, <1>4, FaultsTyped
  <1>5. ASSUME NEW s \in Stoppers, StopAsked(s) \/ StopStep(s) \/ StopperCrash(s)
        PROVE  TypedInv'
    BY <1>1, <1>5, StopStepTyped
  <1>6. CASE UNCHANGED vars
    <2>1. UNCHANGED <<run, task, exec, stopper, faults>>
      BY <1>6 DEF vars
    <2> QED BY <1>1, <2>1, TypedKnown, WorkerTyped
  <1> QED BY <1>2, <1>3, <1>4, <1>5, <1>6 DEF Next

(* A row that fits is a row of the table. *)
LEMMA FitsTable ==
  ASSUME WorkflowRunsAssumption, TypedInv, NEW r, RowFits(r, Budget)
  PROVE  r \in RunRow
  <1>1. Budget \in Nat /\ Budget <= MaxAttempts + MaxFaults
    BY TypedKnown DEF Budget, Counts, WorkflowRunsAssumption
  <1>2. r.epoch \in 0..MaxAttempts + MaxFaults
    BY <1>1 DEF RowFits, Row, WorkflowRunsAssumption
  <1>3. r.completed \in {SubSeq(Chain, 1, n) : n \in 0..NodeCount}
    BY Beginning DEF RowFits
  <1> QED BY <1>2, <1>3 DEF RowFits, Row, RunRow

LEMMA TypeFollows ==
  ASSUME WorkflowRunsAssumption, TypedInv
  PROVE  TypeOK
  <1>1. run \in RunRow /\ exec.next \in RunRow /\ \A s \in Stoppers : stopper[s].next \in RunRow
    BY TypedKnown, FitsTable
  <1>2. run.status # "absent" => StatusFieldsAgree(run)
    BY TypedKnown DEF RowFits
  <1>3. task \in [state : TaskStates, attempts : 0..MaxAttempts, stop : BOOLEAN]
    BY TypedKnown DEF Counts, WInv, WTyped
  <1>4. stopper \in [Stoppers -> [pc : {"idle", "request", "read", "write", "publish"},
                                  next : RunRow]]
    <2>1. stopper \in [Stoppers -> Stopping]
      BY TypedKnown DEF WInv, WTyped
    <2>2. \A s \in Stoppers : stopper[s] \in [pc : {"idle", "request", "read", "write", "publish"},
                                              next : RunRow]
      BY <1>1, <2>1 DEF Stopping
    <2> QED BY <2>1, <2>2
  <1>5. \A i \in DOMAIN stream : EventValid(stream[i])
    <2>1. CASE stream # <<>>
      <3>1. run.status \in Terminal /\ ToSet(stream) \subseteq Ends(run) /\ run \in Row
        BY <2>1, TypedKnown, WorkerKnown DEF WInv, Announced
      <3> QED BY <3>1, EndsValid DEF ToSet
    <2> QED BY <2>1
  <1>6. exec.pc \in Places /\ exec.node \in 1..NodeCount
    BY TypedKnown, WorkerKnown
  <1> QED BY <1>1, <1>2, <1>3, <1>4, <1>5, <1>6, TypedKnown DEF TypeOK, Places, WInv, WTyped, Counts

(* Every row of a run, stored or about to be, is one the table accepts: its nodes are a
   beginning of the workflow, its status agrees with its fields, and it is begun at most
   once a delivery (adapters/persistence/models.py:1327). *)
THEOREM RunsTyped ==
  ASSUME WorkflowRunsAssumption
  PROVE  Spec => []TypeOK
  <1>1. Init => TypedInv
    BY TypedInit
  <1>2. TypedInv /\ [Next]_vars => TypedInv'
    BY TypedStep
  <1>3. TypedInv => TypeOK
    BY TypeFollows
  <1> QED BY <1>1, <1>2, <1>3, PTL DEF Spec
=============================================================================
