------------------------------- MODULE Lifecycle -------------------------------
(***************************************************************************)
(* A process of the platform, the API server or the worker, from its start  *)
(* to its end.  It opens step by step what it needs, serves, and closes     *)
(* what it has.  Any step of its start may raise, its work may end with an  *)
(* error, and so may each closing.                                         *)
(***************************************************************************)
EXTENDS Naturals, Sequences, SequencesExt, FiniteSets

CONSTANTS
  Adapters,    \* the model adapters a resolver can be asked for
  Initial      \* the one the process starts with

(* What a process may have, beside model adapters *)
Parts == {"database", "knowledge", "demo_model", "resolver", "workflow_events", "workflows",
          "runtime", "conversation_events", "conversations"}

(* The steps of a start that open nothing *)
OpensNothing == {"tenants", "identities", "seeds"}

LifecycleAssumption == Initial \in Adapters /\ Adapters \cap (Parts \cup OpensNothing) = {}

VARIABLES
  server,     \* the process: its kind, its mode, what it does and the steps of its start done
  open,       \* what it has opened
  models,     \* BailianChatModelResolver: the adapters it holds
  cleanups,   \* what is still to be closed, first to last
  closed,     \* what has been closed, first to last
  errors      \* has a step or a closing raised?

vars == <<server, open, models, cleanups, closed, errors>>

-----------------------------------------------------------------------------
(* The steps of a start, most of which open what they are named after *)
Foundation == <<"database", "tenants">>
DemoAdapters == <<"knowledge", "runtime", "demo_model">>
RealAdapters == <<"identities", "knowledge", Initial, "resolver">>
AdaptersOf(mode) == IF mode = "demo" THEN DemoAdapters ELSE RealAdapters
WorkflowServices(mode) ==
  <<"workflow_events", "workflows">> \o (IF mode = "demo" THEN <<>> ELSE <<"runtime">>)
Seeds == <<"seeds">>
ConversationServices == <<"conversation_events", "conversations">>

ApiStart(mode) ==
  Foundation \o AdaptersOf(mode) \o WorkflowServices(mode) \o Seeds \o ConversationServices
WorkerAdapters(mode) == Foundation \o AdaptersOf(mode)
WorkerServices(mode) == WorkflowServices(mode) \o ConversationServices

Steps ==
  IF server.kind = "api" THEN ApiStart(server.mode)
  ELSE WorkerAdapters(server.mode) \o WorkerServices(server.mode)

-----------------------------------------------------------------------------
(* What is closed when the process ends, as far as it was opened.  Whoever was given
   a part closes it: a conversation service its runtime, a runtime its resolver, and
   a resolver its adapters *)
If(part) == IF part \in open THEN <<part>> ELSE <<>>
RuntimeOrModel ==
  IF "conversations" \in open THEN <<"conversations">>
  ELSE IF "runtime" \in open THEN <<"runtime">>
  ELSE If(Initial)
Holder ==
  IF "conversations" \in open THEN <<"conversations">>
  ELSE IF "runtime" \in open THEN <<"runtime">>
  ELSE IF "resolver" \in open THEN <<"resolver">>
  ELSE If(Initial)
Cleanups ==
  If("workflows") \o Holder \o If("conversation_events") \o If("workflow_events")
  \o If("knowledge") \o If("demo_model") \o If("database")

Given(part) ==
  CASE part = "conversations" -> <<"runtime">>
    [] part = "runtime" /\ server.mode = "real" -> <<"resolver">>
    [] part = "resolver" -> models
    [] OTHER -> <<>>

-----------------------------------------------------------------------------
Does(phase) == server' = [server EXCEPT !.phase = phase]

(* The initialisation of RAGFlow's identities may also be put off *)
StepDone ==
  /\ server.phase = "starting"
  /\ LET step == Steps[server.step + 1]
         last == server.step + 1 = Len(Steps) IN
     /\ server' = [server EXCEPT !.step = @ + 1, !.phase = IF last THEN "serving" ELSE @]
     /\ open' = open \cup ({step} \ OpensNothing)
     /\ models' = IF step = "resolver" THEN <<Initial>> ELSE models
  /\ UNCHANGED <<cleanups, closed, errors>>

StepRaises ==
  /\ server.phase = "starting"
  /\ Does("closing") /\ cleanups' = Cleanups /\ errors' = TRUE
  /\ UNCHANGED <<open, models, closed>>

Resolves(a) ==
  /\ server.phase = "serving" /\ "resolver" \in open
  /\ a \notin ToSet(models)
  /\ models' = Append(models, a) /\ open' = open \cup {a}
  /\ UNCHANGED <<server, cleanups, closed, errors>>

(* The server is asked to stop when no request is under way *)
ApiStops ==
  /\ server.kind = "api" /\ server.phase = "serving"
  /\ Does("closing") /\ cleanups' = Cleanups
  /\ UNCHANGED <<open, models, closed, errors>>

(* The pool of workers ends, with or without an error *)
PoolEnds ==
  /\ server.kind = "worker" /\ server.phase = "serving"
  /\ Does("closing") /\ cleanups' = Cleanups /\ errors' \in BOOLEAN
  /\ UNCHANGED <<open, models, closed>>

Closing ==
  /\ server.phase = "closing" /\ cleanups # <<>>
  /\ closed' = Append(closed, Head(cleanups))
  /\ cleanups' = Given(Head(cleanups)) \o Tail(cleanups)
  /\ models' = IF Head(cleanups) = "resolver" THEN <<>> ELSE models
  /\ UNCHANGED <<server, open>>

Closes == Closing /\ UNCHANGED errors
CloseRaises == Closing /\ errors' = TRUE

Ends ==
  /\ server.phase = "closing" /\ cleanups = <<>>
  /\ Does("ended")
  /\ UNCHANGED <<open, models, cleanups, closed, errors>>

-----------------------------------------------------------------------------
Init ==
  /\ server \in [kind : {"api", "worker"}, mode : {"demo", "real"}, phase : {"starting"},
                 step : {0}]
  /\ open = {} /\ models = <<>> /\ cleanups = <<>> /\ closed = <<>> /\ errors = FALSE

Next ==
  \/ StepDone \/ StepRaises
  \/ \E a \in Adapters : Resolves(a)
  \/ ApiStops \/ PoolEnds
  \/ Closes \/ CloseRaises \/ Ends

Spec == Init /\ [][Next]_vars

-----------------------------------------------------------------------------
(* Every variable has its type. *)
TypeOK ==
  /\ server \in [kind : {"api", "worker"}, mode : {"demo", "real"},
                 phase : {"starting", "serving", "closing", "ended"}, step : 0 .. 12]
  /\ open \subseteq Parts \cup Adapters /\ errors \in BOOLEAN
  /\ models \in Seq(Adapters) /\ cleanups \in Seq(open) /\ closed \in Seq(open)

(* Who uses a part: it is closed before the part is *)
UsersOf(part) ==
  CASE part = "database" -> Parts \ {"database", "demo_model"}
    [] part \in {"knowledge", "workflow_events"} -> {"workflows", "conversations"}
    [] part = "demo_model" -> {"workflows"}
    [] part = "conversation_events" -> {"conversations"}
    [] part = "runtime" -> {"workflows", "conversations"}
    [] part = "resolver" -> {"workflows", "runtime"}
    [] part \in Adapters -> {"workflows", "resolver"}
    [] OTHER -> {}

(* Whichever steps and closings raise, what a process opened is closed once when it
   ends, nothing is closed before all that uses it, and no failed start ends without
   an error (lifecycle.py:11). *)
EverythingIsClosed ==
  /\ server.phase = "ended" /\ server.step < Len(Steps) => errors
  /\ server.phase = "ended" => ToSet(closed) = open
  /\ IsInjective(closed)
  /\ \A i \in DOMAIN closed : UsersOf(closed[i]) \cap open \subseteq {closed[j] : j \in 1 .. i - 1}

=============================================================================
