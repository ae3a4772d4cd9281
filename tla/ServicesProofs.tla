---------------------------- MODULE ServicesProofs ----------------------------
(***************************************************************************)
(* The invariants of the services, for any values of their constants: each  *)
(* holds at first and is kept by every step of its component, and what the  *)
(* component promises follows from it.                                      *)
(***************************************************************************)
EXTENDS Services, FiniteSetTheorems, TLAPS

-----------------------------------------------------------------------------
(* ResourceMutations: who holds which key, and what a request past its locks knows.
   A reference is checked in one transaction and written in another, so the argument is
   about the locks in between: whoever is past them holds the key of everything its
   request names, what it has checked is still there, and what a deletion in RAGFlow is
   about to remove is referred to by nobody, because whoever adds a reference to it needs
   its key. *)

Handler ==
  [process : Processes, phase : Res!Phases, op : Res!Ops \cup {"none"},
   on : Res!Things \cup {"none"},
   cfg : SUBSET Res!Resources, locks : SUBSET Res!Resources, connection : BOOLEAN,
   named : SUBSET Res!Resources, unchecked : SUBSET Res!Resources, current : SUBSET Res!Resources]

MTyped ==
  /\ present \subseteq Res!Things
  /\ refs \in [Res!Things -> SUBSET Res!Resources]
  /\ \A o \in present : refs[o] \in Res!RefsOf(o)
  /\ \A m \in Models : refs[m] = {}
  /\ enabled \subseteq Models
  /\ handler \in [Handlers -> Handler]
  /\ crashes \in 0 .. MaxCrashes

(* What is asked for is well formed *)
Asked(q) ==
  /\ q.op # "none" =>
       q.on \in Res!Things /\ q.cfg \in IF q.op \in Res!Deletions THEN {{}} ELSE Res!RefsOf(q.on)
  /\ q.op \in Res!EmployeeOps => q.on \in Employees
  /\ q.op \in Res!ModelOps => q.on \in Models
  /\ q.op \in Res!WorkflowOps => q.on \in Workflows
  /\ q.op \in Res!KnowledgeOps => q.on \in Knowledge
  /\ q.op \in Res!ConversationOps => q.on \in Conversations
  /\ q.op \in Res!RunOps => q.on \in Runs
  /\ q.op = "none" => q.phase \in {"idle", "done"}

(* Past the locks, all keys are held *)
Guarded(q) == q.phase \in {"read", "check", "commit"} => Res!KeysOf(q) \subseteq q.named

(* What no foreign key protects and has been checked is among the rows pr *)
SoFar(q, pr) ==
  /\ q.phase \in {"check", "commit"} =>
       (q.cfg \cap (Knowledge \cup Workflows)) \ q.unchecked \subseteq pr
  /\ q.phase = "commit" => q.unchecked = {}

(* What RAGFlow is about to delete is in no reference rf of the rows pr *)
Unreferred(q, pr, rf) ==
  q.phase \in {"check", "commit"} /\ q.op = "delete_knowledge_base" =>
    \A o \in (Employees \cup Workflows) \cap pr : q.on \notin rf[o]

SoundRequest(q, pr, rf) == Asked(q) /\ Guarded(q) /\ SoFar(q, pr) /\ Unreferred(q, pr, rf)

(* A session lock has one holder *)
Exclusive == \A g, h \in Handlers : g # h => handler[g].named \cap handler[h].named = {}

MInv ==
  /\ MTyped
  /\ Res!NoDanglingReference
  /\ Exclusive
  /\ \A h \in Handlers : SoundRequest(handler[h], present, refs)

-----------------------------------------------------------------------------
(* Sorts, references and keys *)

\* The sorts have nothing in common.
LEMMA SortsApart ==
  ASSUME Res!ResourceMutationsAssumption
  PROVE  /\ Employees \cap Knowledge = {} /\ Employees \cap Workflows = {}
         /\ Employees \cap Models = {} /\ Employees \cap Conversations = {}
         /\ Employees \cap Runs = {} /\ Knowledge \cap Workflows = {}
         /\ Knowledge \cap Models = {} /\ Knowledge \cap Conversations = {}
         /\ Knowledge \cap Runs = {} /\ Workflows \cap Models = {}
         /\ Workflows \cap Conversations = {} /\ Workflows \cap Runs = {}
         /\ Models \cap Conversations = {} /\ Models \cap Runs = {}
         /\ Conversations \cap Runs = {}
  <1>1. ASSUME NEW i \in 1 .. 6, NEW j \in 1 .. 6, i # j
        PROVE  Res!Sorts[i] \cap Res!Sorts[j] = {}
    BY <1>1 DEF Res!ResourceMutationsAssumption
  <1>2. /\ Res!Sorts[1] = Employees /\ Res!Sorts[2] = Knowledge /\ Res!Sorts[3] = Workflows
        /\ Res!Sorts[4] = Models /\ Res!Sorts[5] = Conversations /\ Res!Sorts[6] = Runs
    BY DEF Res!Sorts
  <1>3. /\ Res!Sorts[1] \cap Res!Sorts[2] = {} /\ Res!Sorts[1] \cap Res!Sorts[3] = {}
        /\ Res!Sorts[1] \cap Res!Sorts[4] = {} /\ Res!Sorts[1] \cap Res!Sorts[5] = {}
        /\ Res!Sorts[1] \cap Res!Sorts[6] = {} /\ Res!Sorts[2] \cap Res!Sorts[3] = {}
        /\ Res!Sorts[2] \cap Res!Sorts[4] = {} /\ Res!Sorts[2] \cap Res!Sorts[5] = {}
        /\ Res!Sorts[2] \cap Res!Sorts[6] = {} /\ Res!Sorts[3] \cap Res!Sorts[4] = {}
        /\ Res!Sorts[3] \cap Res!Sorts[5] = {} /\ Res!Sorts[3] \cap Res!Sorts[6] = {}
        /\ Res!Sorts[4] \cap Res!Sorts[5] = {} /\ Res!Sorts[4] \cap Res!Sorts[6] = {}
        /\ Res!Sorts[5] \cap Res!Sorts[6] = {}
    BY <1>1
  <1> QED BY <1>2, <1>3

\* What a row may refer to, by the sort of the row.
LEMMA SortsOfReferences ==
  ASSUME Res!ResourceMutationsAssumption, NEW o \in Res!Things, NEW c \in Res!RefsOf(o)
  PROVE  /\ c \subseteq Res!Resources
         /\ o \in Employees => c \subseteq Models \cup Knowledge \cup Workflows
         /\ o \in Workflows => c \subseteq Knowledge \cup Employees \cup Models
         /\ o \in Conversations => c \subseteq Employees \cup Models
         /\ o \in Runs => c \subseteq Workflows
         /\ o \in Knowledge \cup Models => c = {}
  <1>1. CASE o \in Employees
    <2>1. c \in Res!EmployeeRefs
      BY <1>1, SortsApart DEF Res!RefsOf
    <2>2. PICK m \in Models, k \in {{}} \cup {{b} : b \in Knowledge}, w \in SUBSET Workflows :
                c = {m} \cup k \cup w
      BY <2>1 DEF Res!EmployeeRefs
    <2>3. c \subseteq Models \cup Knowledge \cup Workflows
      BY <2>2
    <2> QED BY <1>1, <2>3, SortsApart DEF Res!Resources
  <1>2. CASE o \in Workflows
    <2>1. c \in Res!WorkflowRefs
      BY <1>2, SortsApart DEF Res!RefsOf
    <2>2. PICK n \in Res!NodeRefs, t \in Res!TargetRefs : c = n \cup t
      BY <2>1 DEF Res!WorkflowRefs
    <2>3. c \subseteq Knowledge \cup Employees \cup Models
      BY <2>2 DEF Res!NodeRefs, Res!TargetRefs
    <2> QED BY <1>2, <2>3, SortsApart DEF Res!Resources
  <1>3. CASE o \in Conversations
    <2>1. c \in Res!ConversationRefs
      BY <1>3, SortsApart DEF Res!RefsOf
    <2>2. c \subseteq Employees \cup Models
      BY <2>1 DEF Res!ConversationRefs
    <2> QED BY <1>3, <2>2, SortsApart DEF Res!Resources
  <1>4. CASE o \in Runs
    <2>1. c \in Res!RunRefs
      BY <1>4, SortsApart DEF Res!RefsOf
    <2>2. c \subseteq Workflows
      BY <2>1 DEF Res!RunRefs
    <2> QED BY <1>4, <2>2, SortsApart DEF Res!Resources
  <1>5. CASE o \in Knowledge \cup Models
    <2>1. c = {}
      BY <1>5, SortsApart DEF Res!RefsOf
    <2> QED BY <1>5, <2>1, SortsApart
  <1> QED BY <1>1, <1>2, <1>3, <1>4, <1>5 DEF Res!Things, Res!Resources

(* What a request refers to it has locked, and what it deletes too *)
LEMMA KeysCover ==
  ASSUME Res!ResourceMutationsAssumption, NEW q \in Handler, Asked(q), q.op # "none"
  PROVE  /\ q.cfg \subseteq Res!KeysOf(q)
         /\ q.op \in {"delete_knowledge_base", "delete_workflow"} => q.on \in Res!KeysOf(q)
  <1>1. q.op \in Res!Deletions => q.cfg = {}
    BY DEF Asked
  <1>2. q.op \in Res!ModelOps => q.cfg = {}
    BY <1>1, SortsOfReferences DEF Asked
  <1>3. q.op \in Res!Ops
    BY DEF Handler
  <1> QED
    BY <1>1, <1>2, <1>3
    DEF Res!KeysOf, Res!Ops, Res!EmployeeOps, Res!ModelOps, Res!WorkflowOps, Res!KnowledgeOps,
    Res!ConversationOps, Res!RunOps,
        Res!Deletions, Res!EmployeeConfigurationResources, Res!WorkflowConfigurationResources,
        Res!ConversationResources

\* Keys are those of employees, knowledge bases, workflows and models.
LEMMA KeysAreResources ==
  ASSUME Res!ResourceMutationsAssumption, NEW q \in Handler, Asked(q), q.op # "none"
  PROVE  Res!KeysOf(q) \subseteq Res!Resources
  <1>1. q.cfg \subseteq Res!Resources /\ q.op \in Res!Ops
    BY DEF Handler
  <1>2. q.op \notin Res!ConversationOps \cup Res!RunOps => q.on \in Res!Resources
    BY <1>1 DEF Asked, Res!Ops, Res!Resources
  <1> QED
    BY <1>1, <1>2
    DEF Res!KeysOf, Res!Ops, Res!EmployeeOps, Res!ModelOps, Res!WorkflowOps, Res!KnowledgeOps,
    Res!ConversationOps, Res!RunOps,
        Res!EmployeeConfigurationResources, Res!WorkflowConfigurationResources,
        Res!ConversationResources

\* The keys depend on the request only, not on how far it has come.
LEMMA KeysSame ==
  ASSUME NEW q, NEW s, q.op = s.op, q.on = s.on, q.cfg = s.cfg
  PROVE  Res!KeysOf(q) = Res!KeysOf(s)
  BY DEF Res!KeysOf, Res!EmployeeConfigurationResources, Res!WorkflowConfigurationResources,
         Res!ConversationResources

\* At first nobody holds or has checked anything, and the rows are in order.
LEMMA MInit ==
  ASSUME Res!ResourceMutationsAssumption, Res!Init
  PROVE  MInv
  <1>1. PICK place \in [Handlers -> Processes] : handler = [h \in Handlers |-> Res!Idle(place[h])]
    BY DEF Res!Init
  <1>2. \A h \in Handlers : /\ handler[h] \in Handler
                           /\ handler[h].op = "none" /\ handler[h].phase = "idle"
                           /\ handler[h].named = {}
    BY <1>1 DEF Res!Idle, Handler, Res!Phases
  <1>3. MTyped
    BY <1>1, <1>2 DEF MTyped, Res!Init, Res!ResourceMutationsAssumption
  <1>4. Res!NoDanglingReference
    BY DEF Res!NoDanglingReference, Res!Init, Res!ResourceMutationsAssumption
  <1>5. Exclusive
    BY <1>2 DEF Exclusive
  <1>6. \A h \in Handlers : SoundRequest(handler[h], present, refs)
    BY <1>2 DEF SoundRequest, Asked, Guarded, SoFar, Unreferred, Res!EmployeeOps, Res!ModelOps,
       Res!WorkflowOps,
                Res!KnowledgeOps, Res!ConversationOps, Res!RunOps
  <1> QED BY <1>3, <1>4, <1>5, <1>6 DEF MInv

-----------------------------------------------------------------------------
(* One handler at a time *)

\* A step that changes one handler and perhaps the rows.
LEMMA OneHandler ==
  ASSUME Res!ResourceMutationsAssumption, MInv, NEW h \in Handlers, NEW q \in Handler,
         handler' = [handler EXCEPT ![h] = q],
         present' \subseteq Res!Things, refs' \in [Res!Things -> SUBSET Res!Resources],
         \A o \in present' : refs'[o] \in Res!RefsOf(o), \A m \in Models : refs'[m] = {},
         enabled' \subseteq Models, crashes' = crashes, Res!NoDanglingReference',
         \A g \in Handlers \ {h} : handler[g].named \cap q.named = {},
         SoundRequest(q, present', refs'),
         \A g \in Handlers \ {h} : SoundRequest(handler[g], present', refs')
  PROVE  MInv'
  <1>1. /\ handler'[h] = q
        /\ \A g \in Handlers \ {h} : handler'[g] = handler[g]
        /\ handler' \in [Handlers -> Handler]
    BY DEF MInv, MTyped
  <1>2. MTyped'
    BY <1>1 DEF MTyped, MInv
  <1>3. Exclusive'
    BY <1>1 DEF Exclusive, MInv
  <1>4. \A g \in Handlers : SoundRequest(handler'[g], present', refs')
    BY <1>1
  <1> QED BY <1>2, <1>3, <1>4 DEF MInv

\* A step that changes one handler and no row.
LEMMA Quiet ==
  ASSUME Res!ResourceMutationsAssumption, MInv, NEW h \in Handlers, NEW q \in Handler,
         handler' = [handler EXCEPT ![h] = q],
         UNCHANGED <<present, refs, enabled, crashes>>,
         \A g \in Handlers \ {h} : handler[g].named \cap q.named = {},
         SoundRequest(q, present, refs)
  PROVE  MInv'
  <1>1. Res!NoDanglingReference'
    BY DEF MInv, Res!NoDanglingReference
  <1>2. \A g \in Handlers \ {h} : SoundRequest(handler[g], present', refs')
    BY DEF MInv
  <1>3. SoundRequest(q, present', refs')
    OBVIOUS
  <1> QED BY <1>1, <1>2, <1>3, OneHandler DEF MInv, MTyped

(* A handler that only moves on keeps what it asked for and what it holds *)
LEMMA MovedOn ==
  ASSUME MInv, NEW h \in Handlers, NEW phase \in Res!Phases, Res!Goes(h, phase)
  PROVE  \E q \in Handler :
           /\ handler' = [handler EXCEPT ![h] = q] /\ q.phase = phase
           /\ q.op = handler[h].op /\ q.on = handler[h].on /\ q.cfg = handler[h].cfg
           /\ q.named = handler[h].named /\ q.unchecked = handler[h].unchecked
  <1> DEFINE q == [handler[h] EXCEPT !.phase = phase]
  <1>1. handler[h] \in Handler
    BY DEF MInv, MTyped
  <1>2. q \in Handler
    BY <1>1 DEF Handler
  <1>3. /\ q.phase = phase
        /\ q.op = handler[h].op /\ q.on = handler[h].on /\ q.cfg = handler[h].cfg
        /\ q.named = handler[h].named /\ q.unchecked = handler[h].unchecked
    BY <1>1 DEF Handler
  <1>4. handler' = [handler EXCEPT ![h] = q]
    BY DEF Res!Goes
  <1> HIDE DEF q
  <1> QED BY <1>2, <1>3, <1>4

(* Whatever is released is sound *)
LEMMA ReleasedIsSound ==
  ASSUME NEW p, NEW q, NEW pr, NEW rf, Asked(p), p.op # "none",
         q.phase \in {"release", "local", "connect", "named"},
         q.op = p.op, q.on = p.on, q.cfg = p.cfg
  PROVE  SoundRequest(q, pr, rf)
  BY DEF SoundRequest, Asked, Guarded, SoFar, Unreferred

\* A handler that gives up keeps the rest as it is.
LEMMA ReleasingStep ==
  ASSUME Res!ResourceMutationsAssumption, MInv, NEW h \in Handlers,
         handler[h].phase \notin {"idle", "done"}, Res!Goes(h, "release"),
         UNCHANGED <<present, refs, enabled, crashes>>
  PROVE  MInv'
  <1>1. PICK q \in Handler :
           /\ handler' = [handler EXCEPT ![h] = q] /\ q.phase = "release"
           /\ q.op = handler[h].op /\ q.on = handler[h].on /\ q.cfg = handler[h].cfg
           /\ q.named = handler[h].named /\ q.unchecked = handler[h].unchecked
    BY MovedOn DEF Res!Phases
  <1>2. Asked(handler[h]) /\ handler[h].op # "none"
    BY DEF MInv, SoundRequest, Asked
  <1>3. SoundRequest(q, present, refs)
    BY <1>1, <1>2, ReleasedIsSound
  <1>4. \A g \in Handlers \ {h} : handler[g].named \cap q.named = {}
    BY <1>1 DEF MInv, Exclusive
  <1> QED BY <1>1, <1>3, <1>4, Quiet

-----------------------------------------------------------------------------
(* Requests *)

\* A request arrives with nothing held.
LEMMA ArrivesStep ==
  ASSUME Res!ResourceMutationsAssumption, MInv, NEW h \in Handlers, NEW a \in Requests,
         Res!Arrives(h, a),
         /\ a.op \in Res!EmployeeOps => a.on \in Employees
         /\ a.op \in Res!ModelOps => a.on \in Models
         /\ a.op \in Res!WorkflowOps => a.on \in Workflows
         /\ a.op \in Res!KnowledgeOps => a.on \in Knowledge
  PROVE  MInv'
  <1> DEFINE ph == IF Res!KeysOf(a) = {} THEN "read" ELSE "local"
             q  == [handler[h] EXCEPT !.phase = ph, !.op = a.op, !.on = a.on, !.cfg = a.cfg]
  <1>1. handler[h] \in Handler
    BY DEF MInv, MTyped
  <1>2. /\ a.op \in Res!Ops /\ a.on \in Res!Things /\ a.op # "none"
        /\ a.cfg \in IF a.op \in Res!Deletions THEN {{}} ELSE Res!RefsOf(a.on)
        /\ a.op \in Res!ConversationOps => a.on \in Conversations
        /\ a.op \in Res!RunOps => a.on \in Runs
    BY DEF Res!ResourceMutationsAssumption, Res!Ops, Res!EmployeeOps, Res!ModelOps,
       Res!WorkflowOps, Res!KnowledgeOps,
           Res!ConversationOps, Res!RunOps
  <1>3. a.cfg \subseteq Res!Resources
    BY <1>2, SortsOfReferences
  <1>4. ph \in Res!Phases
    BY DEF Res!Phases
  <1> HIDE DEF ph
  <1>5. q \in Handler
    BY <1>1, <1>2, <1>3, <1>4 DEF Handler
  <1>6. /\ q.phase = ph /\ q.op = a.op /\ q.on = a.on /\ q.cfg = a.cfg
        /\ q.named = handler[h].named
    BY <1>1 DEF Handler
  <1>7. handler' = [handler EXCEPT ![h] = q] /\ UNCHANGED <<present, refs, enabled, crashes>>
    BY DEF Res!Arrives, ph
  <1> HIDE DEF q
  <1>8. Res!KeysOf(q) = Res!KeysOf(a)
    BY <1>6, KeysSame
  <1>9. Asked(q)
    BY <1>2, <1>6 DEF Asked
  <1>10. Guarded(q) /\ SoFar(q, present) /\ Unreferred(q, present, refs)
    BY <1>6, <1>8 DEF Guarded, SoFar, Unreferred, ph
  <1>11. \A g \in Handlers \ {h} : handler[g].named \cap q.named = {}
    BY <1>6 DEF MInv, Exclusive
  <1> QED BY <1>5, <1>7, <1>9, <1>10, <1>11, Quiet DEF SoundRequest

\* Every arrival.
LEMMA RequestStep ==
  ASSUME Res!ResourceMutationsAssumption, MInv, NEW h \in Handlers, Res!Request(h)
  PROVE  MInv'
  <1> USE DEF Res!EmployeeOps, Res!ModelOps, Res!WorkflowOps, Res!KnowledgeOps,
  Res!ConversationOps, Res!RunOps
  <1>1. CASE Res!RequestEmployee(h)
    BY <1>1, ArrivesStep DEF Res!RequestEmployee
  <1>2. CASE Res!RequestModel(h)
    BY <1>2, ArrivesStep DEF Res!RequestModel
  <1>3. CASE Res!RequestWorkflow(h)
    BY <1>3, ArrivesStep DEF Res!RequestWorkflow
  <1>4. CASE Res!RequestKnowledge(h)
    BY <1>4, ArrivesStep DEF Res!RequestKnowledge
  <1>5. CASE Res!RequestConversation(h)
    BY <1>5, ArrivesStep DEF Res!RequestConversation
  <1>6. CASE Res!RequestRun(h)
    BY <1>6, ArrivesStep DEF Res!RequestRun
  <1> QED BY <1>1, <1>2, <1>3, <1>4, <1>5, <1>6 DEF Res!Request

-----------------------------------------------------------------------------
(* The guard *)

\* The process-local locks say nothing about other processes.
LEMMA TakeLocalStep ==
  ASSUME Res!ResourceMutationsAssumption, MInv, NEW h \in Handlers, Res!TakeLocal(h)
  PROVE  MInv'
  <1>1. PICK k \in Res!NextKey(Res!KeysOf(handler[h]), handler[h].locks) :
          handler' = [handler EXCEPT
            ![h].locks = @ \cup {k},
            ![h].phase = IF handler[h].locks \cup {k} = Res!KeysOf(handler[h])
                         THEN "connect" ELSE "local"]
    BY DEF Res!TakeLocal
  <1> DEFINE ph == IF handler[h].locks \cup {k} = Res!KeysOf(handler[h]) THEN "connect" ELSE "local"
             q  == [handler[h] EXCEPT !.locks = @ \cup {k}, !.phase = ph]
  <1>2. handler[h] \in Handler /\ Asked(handler[h]) /\ handler[h].op # "none"
    BY DEF MInv, MTyped, SoundRequest, Asked, Res!TakeLocal
  <1>3. k \in Res!Resources
    BY <1>2, KeysAreResources, <1>1 DEF Res!NextKey
  <1>4. ph \in Res!Phases /\ ph \in {"connect", "local"}
    BY DEF Res!Phases
  <1>5. handler' = [handler EXCEPT ![h] = q] /\ UNCHANGED <<present, refs, enabled, crashes>>
    BY <1>1 DEF Res!TakeLocal
  <1> HIDE DEF ph
  <1>6. q \in Handler
    BY <1>2, <1>3, <1>4 DEF Handler
  <1>7. /\ q.phase = ph /\ q.op = handler[h].op /\ q.on = handler[h].on
        /\ q.cfg = handler[h].cfg /\ q.named = handler[h].named
    BY <1>2 DEF Handler
  <1> HIDE DEF q
  <1>8. SoundRequest(q, present, refs)
    BY <1>2, <1>4, <1>7, ReleasedIsSound
  <1>9. \A g \in Handlers \ {h} : handler[g].named \cap q.named = {}
    BY <1>7 DEF MInv, Exclusive
  <1> QED BY <1>5, <1>6, <1>8, <1>9, Quiet

\* The connection of the guard.
LEMMA ConnectStep ==
  ASSUME Res!ResourceMutationsAssumption, MInv, NEW h \in Handlers, Res!Connect(h)
  PROVE  MInv'
  <1> DEFINE q == [handler[h] EXCEPT !.connection = TRUE, !.phase = "named"]
  <1>1. handler[h] \in Handler /\ Asked(handler[h]) /\ handler[h].op # "none"
    BY DEF MInv, MTyped, SoundRequest, Asked, Res!Connect
  <1>2. handler' = [handler EXCEPT ![h] = q] /\ UNCHANGED <<present, refs, enabled, crashes>>
    BY DEF Res!Connect
  <1>3. q \in Handler
    BY <1>1 DEF Handler, Res!Phases
  <1>4. /\ q.phase = "named" /\ q.op = handler[h].op /\ q.on = handler[h].on
        /\ q.cfg = handler[h].cfg /\ q.named = handler[h].named
    BY <1>1 DEF Handler
  <1> HIDE DEF q
  <1>5. SoundRequest(q, present, refs)
    BY <1>1, <1>4, ReleasedIsSound
  <1>6. \A g \in Handlers \ {h} : handler[g].named \cap q.named = {}
    BY <1>4 DEF MInv, Exclusive
  <1> QED BY <1>2, <1>3, <1>5, <1>6, Quiet

\* A named lock is taken only when nobody holds it; the last one lets the request read.
LEMMA TakeNamedStep ==
  ASSUME Res!ResourceMutationsAssumption, MInv, NEW h \in Handlers, Res!TakeNamed(h)
  PROVE  MInv'
  <1>1. PICK k \in Res!NextKey(Res!KeysOf(handler[h]), handler[h].named) :
          /\ ~Res!NamedHeld(k)
          /\ handler' = [handler EXCEPT
               ![h].named = @ \cup {k},
               ![h].phase = IF handler[h].named \cup {k} = Res!KeysOf(handler[h])
                            THEN "read" ELSE "named"]
    BY DEF Res!TakeNamed
  <1> DEFINE ph == IF handler[h].named \cup {k} = Res!KeysOf(handler[h]) THEN "read" ELSE "named"
             q  == [handler[h] EXCEPT !.named = @ \cup {k}, !.phase = ph]
  <1>2. handler[h] \in Handler /\ Asked(handler[h]) /\ handler[h].op # "none"
    BY DEF MInv, MTyped, SoundRequest, Asked, Res!TakeNamed
  <1>3. k \in Res!Resources
    BY <1>2, KeysAreResources, <1>1 DEF Res!NextKey
  <1>4. ph \in Res!Phases
    BY DEF Res!Phases
  <1>5. handler' = [handler EXCEPT ![h] = q] /\ UNCHANGED <<present, refs, enabled, crashes>>
    BY <1>1 DEF Res!TakeNamed
  <1> HIDE DEF ph
  <1>6. q \in Handler
    BY <1>2, <1>3, <1>4 DEF Handler
  <1>7. /\ q.phase = ph /\ q.op = handler[h].op /\ q.on = handler[h].on
        /\ q.cfg = handler[h].cfg /\ q.named = handler[h].named \cup {k}
    BY <1>2 DEF Handler
  <1> HIDE DEF q
  <1>8. Res!KeysOf(q) = Res!KeysOf(handler[h])
    BY <1>7, KeysSame
  <1>9. Asked(q)
    BY <1>2, <1>7 DEF Asked
  <1>10. Guarded(q) /\ SoFar(q, present) /\ Unreferred(q, present, refs)
    BY <1>7, <1>8 DEF Guarded, SoFar, Unreferred, ph
  <1>11. \A g \in Handlers \ {h} : handler[g].named \cap q.named = {}
    BY <1>1, <1>7 DEF MInv, Exclusive, Res!NamedHeld
  <1> QED BY <1>5, <1>6, <1>9, <1>10, <1>11, Quiet DEF SoundRequest

\* Locks are given up together.
LEMMA ReleaseStep ==
  ASSUME Res!ResourceMutationsAssumption, MInv, NEW h \in Handlers, Res!Release(h)
  PROVE  MInv'
  <1> DEFINE q == [handler[h] EXCEPT !.phase = "done", !.locks = {}, !.named = {},
                                    !.connection = FALSE]
  <1>1. handler[h] \in Handler /\ Asked(handler[h]) /\ handler[h].op # "none"
    BY DEF MInv, MTyped, SoundRequest, Asked, Res!Release
  <1>2. handler' = [handler EXCEPT ![h] = q] /\ UNCHANGED <<present, refs, enabled, crashes>>
    BY DEF Res!Release
  <1>3. q \in Handler
    BY <1>1 DEF Handler, Res!Phases
  <1>4. /\ q.phase = "done" /\ q.op = handler[h].op /\ q.on = handler[h].on
        /\ q.cfg = handler[h].cfg /\ q.named = {}
    BY <1>1 DEF Handler
  <1> HIDE DEF q
  <1>5. SoundRequest(q, present, refs)
    BY <1>1, <1>4 DEF SoundRequest, Asked, Guarded, SoFar, Unreferred
  <1> QED BY <1>2, <1>3, <1>4, <1>5, Quiet

\* Who waits too long gives up.
LEMMA TimeoutStep ==
  ASSUME Res!ResourceMutationsAssumption, MInv, NEW h \in Handlers,
         Res!LockTimeout(h) \/ Res!PoolTimeout(h)
  PROVE  MInv'
  BY ReleasingStep DEF Res!LockTimeout, Res!PoolTimeout

-----------------------------------------------------------------------------
(* Reads and checks *)

\* What is read before the checks; a deletion in RAGFlow has seen no reference.
LEMMA ContinuesStep ==
  ASSUME Res!ResourceMutationsAssumption, MInv, NEW h \in Handlers,
         handler[h].phase = "read", Res!Continues(h),
         handler[h].op = "delete_knowledge_base" =>
           \A o \in (Employees \cup Workflows) \cap present : handler[h].on \notin refs[o]
  PROVE  MInv'
  <1> DEFINE ph == IF handler[h].cfg = {} THEN "commit" ELSE "check"
             cu == IF handler[h].on \in present THEN refs[handler[h].on] ELSE {}
             q  == [handler[h] EXCEPT !.phase = ph, !.unchecked = handler[h].cfg, !.current = cu]
  <1>1. handler[h] \in Handler /\ Asked(handler[h]) /\ handler[h].op # "none"
        /\ Guarded(handler[h])
    BY DEF MInv, MTyped, SoundRequest, Asked
  <1>2. ph \in Res!Phases /\ cu \subseteq Res!Resources
    BY DEF Res!Phases, MInv, MTyped
  <1>3. handler' = [handler EXCEPT ![h] = q] /\ UNCHANGED <<present, refs, enabled, crashes>>
    BY DEF Res!Continues
  <1> HIDE DEF ph, cu
  <1>4. q \in Handler
    BY <1>1, <1>2 DEF Handler
  <1>5. /\ q.phase = ph /\ q.op = handler[h].op /\ q.on = handler[h].on
        /\ q.cfg = handler[h].cfg /\ q.named = handler[h].named /\ q.unchecked = q.cfg
    BY <1>1 DEF Handler
  <1> HIDE DEF q
  <1>6. Res!KeysOf(q) = Res!KeysOf(handler[h])
    BY <1>5, KeysSame
  <1>7. Asked(q)
    BY <1>1, <1>5 DEF Asked
  <1>8. Guarded(q) /\ SoFar(q, present) /\ Unreferred(q, present, refs)
    BY <1>1, <1>5, <1>6 DEF Guarded, SoFar, Unreferred, ph
  <1>9. \A g \in Handlers \ {h} : handler[g].named \cap q.named = {}
    BY <1>5 DEF MInv, Exclusive
  <1> QED BY <1>3, <1>4, <1>7, <1>8, <1>9, Quiet DEF SoundRequest

\* Every reading step either fails or continues.
LEMMA ReadStep ==
  ASSUME Res!ResourceMutationsAssumption, MInv, NEW h \in Handlers,
         \/ Res!ReadForUpdate(h) \/ Res!ReadForEnsure(h) \/ Res!ReadForWorkflowDelete(h)
         \/ Res!ReadForKnowledgeDelete(h) \/ Res!NothingToRead(h)
  PROVE  MInv'
  <1>1. handler[h].phase = "read"
    BY DEF Res!ReadForUpdate, Res!ReadForEnsure, Res!ReadForWorkflowDelete,
       Res!ReadForKnowledgeDelete,
           Res!NothingToRead, Res!Reading
  <1>2. CASE Res!Fails(h)
    BY <1>1, <1>2, ReleasingStep DEF Res!Fails
  <1>3. CASE Res!Continues(h) /\ ~Res!Fails(h)
    <2>1. handler[h].op = "delete_knowledge_base" =>
            \A o \in (Employees \cup Workflows) \cap present : handler[h].on \notin refs[o]
      BY <1>3 DEF Res!ReadForUpdate, Res!ReadForEnsure, Res!ReadForWorkflowDelete,
         Res!ReadForKnowledgeDelete,
                  Res!NothingToRead, Res!KnowledgeBaseReferences, Res!ReferredBy
    <2> QED BY <1>1, <1>3, <2>1, ContinuesStep
  <1> QED BY <1>2, <1>3 DEF Res!ReadForUpdate, Res!ReadForEnsure, Res!ReadForWorkflowDelete,
                            Res!ReadForKnowledgeDelete, Res!NothingToRead

\* One group of references is checked.
LEMMA CheckedStep ==
  ASSUME Res!ResourceMutationsAssumption, MInv, NEW h \in Handlers, handler[h].phase = "check",
         NEW group, NEW usable \in BOOLEAN, Res!Checked(h, group, usable),
         usable => group \subseteq present
  PROVE  MInv'
  <1>1. CASE ~usable
    BY <1>1, ReleasingStep DEF Res!Checked
  <1>2. CASE usable
    <2> DEFINE ph == IF handler[h].unchecked = group THEN "commit" ELSE "check"
               q  == [handler[h] EXCEPT !.unchecked = @ \ group, !.phase = ph]
    <2>1. /\ handler[h] \in Handler /\ Asked(handler[h]) /\ Guarded(handler[h])
          /\ SoFar(handler[h], present) /\ Unreferred(handler[h], present, refs)
      BY DEF MInv, MTyped, SoundRequest
    <2>2. ph \in Res!Phases
      BY DEF Res!Phases
    <2>3. handler' = [handler EXCEPT ![h] = q] /\ UNCHANGED <<present, refs, enabled, crashes>>
      BY <1>2 DEF Res!Checked
    <2> HIDE DEF ph
    <2>4. q \in Handler
      BY <2>1, <2>2 DEF Handler
    <2>5. /\ q.phase = ph /\ q.op = handler[h].op /\ q.on = handler[h].on
          /\ q.cfg = handler[h].cfg /\ q.named = handler[h].named
          /\ q.unchecked = handler[h].unchecked \ group
      BY <2>1 DEF Handler
    <2> HIDE DEF q
    <2>6. Res!KeysOf(q) = Res!KeysOf(handler[h])
      BY <2>5, KeysSame
    <2>7. Asked(q)
      BY <2>1, <2>5 DEF Asked
    <2>8. Guarded(q) /\ Unreferred(q, present, refs)
      BY <2>1, <2>5, <2>6 DEF Guarded, Unreferred, ph
    <2>9. SoFar(q, present)
      BY <1>2, <2>1, <2>5 DEF SoFar, ph
    <2>10. \A g \in Handlers \ {h} : handler[g].named \cap q.named = {}
      BY <2>5 DEF MInv, Exclusive
    <2> QED BY <2>3, <2>4, <2>7, <2>8, <2>9, <2>10, Quiet DEF SoundRequest
  <1> QED BY <1>1, <1>2

\* Every check is of rows that exist.
LEMMA CheckStep ==
  ASSUME Res!ResourceMutationsAssumption, MInv, NEW h \in Handlers,
         Res!CheckKnowledgeBase(h) \/ Res!CheckWorkflows(h) \/ Res!CheckTarget(h)
  PROVE  MInv'
  <1>1. CASE Res!CheckKnowledgeBase(h)
    <2>1. PICK k \in handler[h].unchecked \cap Knowledge : Res!Checked(h, {k}, k \in present)
      BY <1>1 DEF Res!CheckKnowledgeBase
    <2> DEFINE usable == k \in present
    <2>2. usable \in BOOLEAN /\ Res!Checked(h, {k}, usable) /\ (usable => {k} \subseteq present)
      BY <2>1
    <2>3. handler[h].phase = "check"
      BY <1>1 DEF Res!CheckKnowledgeBase, Res!Checking
    <2> HIDE DEF usable
    <2> QED BY <2>2, <2>3, CheckedStep
  <1>2. CASE Res!CheckWorkflows(h)
    <2> DEFINE group == handler[h].unchecked \cap Workflows
    <2>1. Res!Checked(h, group, group \subseteq present) /\ handler[h].phase = "check"
      BY <1>2 DEF Res!CheckWorkflows, Res!Checking
    <2> QED BY <2>1, CheckedStep
  <1>3. CASE Res!CheckTarget(h)
    <2> DEFINE keeps(m) == handler[h].op = "update_employee" /\ m \in handler[h].current
    <2>1. PICK t \in handler[h].unchecked :
            Res!Checked(h, {t}, t \in present /\ (t \in Models => (t \in enabled \/ keeps(t))))
      BY <1>3 DEF Res!CheckTarget
    <2> DEFINE usable == t \in present /\ (t \in Models => (t \in enabled \/ keeps(t)))
    <2>2. usable \in BOOLEAN /\ Res!Checked(h, {t}, usable) /\ (usable => {t} \subseteq present)
      BY <2>1
    <2> HIDE DEF usable
    <2> QED BY <1>3, <2>2, CheckedStep DEF Res!CheckTarget, Res!Checking
  <1> QED BY <1>1, <1>2, <1>3

-----------------------------------------------------------------------------
(* Writes *)

(* A handler that is about to write has locked, and checked, what no foreign
   key protects *)
LEMMA BeforeWriting ==
  ASSUME Res!ResourceMutationsAssumption, MInv, NEW h \in Handlers, handler[h].phase = "commit"
  PROVE  /\ handler[h].op \in Res!Ops /\ handler[h].on \in Res!Things
         /\ handler[h].cfg \in IF handler[h].op \in Res!Deletions THEN {{}}
                              ELSE Res!RefsOf(handler[h].on)
         /\ handler[h].cfg \subseteq handler[h].named
         /\ handler[h].cfg \cap (Knowledge \cup Workflows) \subseteq present
         /\ handler[h].op \in {"delete_knowledge_base", "delete_workflow"} =>
              handler[h].on \in handler[h].named
  <1>1. /\ handler[h] \in Handler /\ Asked(handler[h]) /\ handler[h].op # "none"
        /\ Guarded(handler[h]) /\ SoFar(handler[h], present)
    BY DEF MInv, MTyped, SoundRequest, Asked
  <1>2. handler[h].op \in Res!Ops /\ handler[h].on \in Res!Things
    BY <1>1 DEF Handler, Asked
  <1>3. Res!KeysOf(handler[h]) \subseteq handler[h].named
    BY <1>1 DEF Guarded
  <1>4. handler[h].cfg \cap (Knowledge \cup Workflows) \subseteq present
    BY <1>1 DEF SoFar
  <1> QED BY <1>1, <1>2, <1>3, <1>4, KeysCover DEF Asked

(* What a request adds, nobody else deletes *)
LEMMA InsertedStep ==
  ASSUME Res!ResourceMutationsAssumption, MInv, NEW h \in Handlers, handler[h].phase = "commit",
         handler[h].op \notin Res!Deletions, Res!Goes(h, "release"),
         Res!Inserted(handler[h].on, handler[h].cfg), UNCHANGED <<enabled, crashes>>,
         handler[h].cfg \ (Knowledge \cup Workflows) \subseteq present
  PROVE  MInv'
  <1> DEFINE o == handler[h].on
             c == handler[h].cfg
  <1>1. PICK q \in Handler :
           /\ handler' = [handler EXCEPT ![h] = q] /\ q.phase = "release"
           /\ q.op = handler[h].op /\ q.on = handler[h].on /\ q.cfg = handler[h].cfg
           /\ q.named = handler[h].named /\ q.unchecked = handler[h].unchecked
    BY MovedOn DEF Res!Phases
  <1>2. /\ o \in Res!Things /\ c \in Res!RefsOf(o) /\ c \subseteq present
        /\ c \subseteq handler[h].named /\ c \subseteq Res!Resources
    BY BeforeWriting, SortsOfReferences
  <1>3. present' = present \cup {o} /\ refs' = [refs EXCEPT ![o] = c]
    BY DEF Res!Inserted
  <1>4. /\ refs \in [Res!Things -> SUBSET Res!Resources] /\ present \subseteq Res!Things
        /\ \A r \in present : refs[r] \in Res!RefsOf(r) /\ refs[r] \subseteq present
        /\ \A m \in Models : refs[m] = {}
    BY DEF MInv, MTyped, Res!NoDanglingReference
  <1> HIDE DEF o, c
  <1>5. refs'[o] = c /\ \A r \in Res!Things \ {o} : refs'[r] = refs[r]
    BY <1>2, <1>3, <1>4
  <1>6. /\ refs' \in [Res!Things -> SUBSET Res!Resources] /\ present' \subseteq Res!Things
        /\ \A r \in present' : refs'[r] \in Res!RefsOf(r)
        /\ \A m \in Models : refs'[m] = {}
    BY <1>2, <1>3, <1>4, <1>5, SortsOfReferences DEF Res!Things, Res!Resources
  <1>7. Res!NoDanglingReference'
    BY <1>2, <1>3, <1>4, <1>5 DEF Res!NoDanglingReference
  <1>8. SoundRequest(q, present', refs')
    <2>1. Asked(handler[h]) /\ handler[h].op # "none"
      BY DEF MInv, SoundRequest, Asked
    <2> QED BY <1>1, <2>1, ReleasedIsSound
  <1>9. ASSUME NEW g \in Handlers \ {h} PROVE SoundRequest(handler[g], present', refs')
    <2>1. /\ handler[g] \in Handler /\ Asked(handler[g]) /\ Guarded(handler[g])
          /\ SoFar(handler[g], present) /\ Unreferred(handler[g], present, refs)
      BY DEF MInv, MTyped, SoundRequest
    <2>2. SoFar(handler[g], present')
      BY <1>3, <2>1 DEF SoFar
    <2>3. ASSUME handler[g].phase \in {"check", "commit"},
                 handler[g].op = "delete_knowledge_base"
          PROVE  handler[g].on \notin c
      <3>1. handler[g].on \in Res!KeysOf(handler[g])
        BY <2>1, <2>3, KeysCover
      <3>2. handler[g].on \in handler[g].named
        BY <2>1, <2>3, <3>1 DEF Guarded
      <3> QED BY <1>2, <3>2 DEF MInv, Exclusive
    <2>4. Unreferred(handler[g], present', refs')
      <3> SUFFICES ASSUME handler[g].phase \in {"check", "commit"},
                          handler[g].op = "delete_knowledge_base",
                          NEW r \in (Employees \cup Workflows) \cap present'
                   PROVE  handler[g].on \notin refs'[r]
        BY DEF Unreferred
      <3>1. CASE r = o
        BY <1>5, <2>3, <3>1
      <3>2. CASE r # o
        BY <1>3, <1>4, <1>5, <2>1, <3>2 DEF Unreferred
      <3> QED BY <3>1, <3>2
    <2> QED BY <2>1, <2>2, <2>4 DEF SoundRequest
  <1>10. \A g \in Handlers \ {h} : handler[g].named \cap q.named = {}
    BY <1>1 DEF MInv, Exclusive
  <1>11. enabled' \subseteq Models /\ crashes' = crashes
    BY DEF MInv, MTyped
  <1> QED BY <1>1, <1>6, <1>7, <1>8, <1>9, <1>10, <1>11, OneHandler

(* A row that nothing refers to, and that no other request has checked under
   its lock, can go *)
LEMMA RemovedStep ==
  ASSUME Res!ResourceMutationsAssumption, MInv, NEW h \in Handlers, handler[h].phase = "commit",
         Res!Goes(h, "release"), NEW r \in Res!Resources, present' = present \ {r},
         UNCHANGED <<refs, crashes>>, enabled' \subseteq Models,
         \A o \in present : r \notin refs[o],
         r \in Knowledge \cup Workflows => r \in handler[h].named
  PROVE  MInv'
  <1>1. PICK q \in Handler :
           /\ handler' = [handler EXCEPT ![h] = q] /\ q.phase = "release"
           /\ q.op = handler[h].op /\ q.on = handler[h].on /\ q.cfg = handler[h].cfg
           /\ q.named = handler[h].named /\ q.unchecked = handler[h].unchecked
    BY MovedOn DEF Res!Phases
  <1>2. /\ present' \subseteq Res!Things /\ refs' \in [Res!Things -> SUBSET Res!Resources]
        /\ \A o \in present' : refs'[o] \in Res!RefsOf(o)
        /\ \A m \in Models : refs'[m] = {}
    BY DEF MInv, MTyped
  <1>3. Res!NoDanglingReference'
    BY DEF MInv, Res!NoDanglingReference
  <1>4. SoundRequest(q, present', refs')
    <2>1. Asked(handler[h]) /\ handler[h].op # "none"
      BY DEF MInv, SoundRequest, Asked
    <2> QED BY <1>1, <2>1, ReleasedIsSound
  <1>5. ASSUME NEW g \in Handlers \ {h} PROVE SoundRequest(handler[g], present', refs')
    <2>1. /\ handler[g] \in Handler /\ Asked(handler[g]) /\ Guarded(handler[g])
          /\ SoFar(handler[g], present) /\ Unreferred(handler[g], present, refs)
      BY DEF MInv, MTyped, SoundRequest
    <2>2. ASSUME handler[g].phase \in {"check", "commit"}, r \in Knowledge \cup Workflows
          PROVE  r \notin handler[g].cfg
      <3>1. handler[g].op # "none"
        BY <2>1, <2>2 DEF Asked
      <3>2. handler[g].cfg \subseteq Res!KeysOf(handler[g])
        BY <2>1, <3>1, KeysCover
      <3>3. handler[g].cfg \subseteq handler[g].named
        BY <2>1, <2>2, <3>2 DEF Guarded
      <3> QED BY <2>2, <3>3 DEF MInv, Exclusive
    <2>3. SoFar(handler[g], present')
      BY <2>1, <2>2 DEF SoFar
    <2>4. Unreferred(handler[g], present', refs')
      BY <2>1 DEF Unreferred
    <2> QED BY <2>1, <2>3, <2>4 DEF SoundRequest
  <1>6. \A g \in Handlers \ {h} : handler[g].named \cap q.named = {}
    BY <1>1 DEF MInv, Exclusive
  <1> QED BY <1>1, <1>2, <1>3, <1>4, <1>5, <1>6, OneHandler

(* Who may refer to a resource *)
LEMMA Referrers ==
  ASSUME Res!ResourceMutationsAssumption, MInv, NEW r, NEW o \in present, r \in refs[o]
  PROVE  /\ r \in Employees => o \in Conversations \cup Workflows
         /\ r \in Workflows => o \in Employees \cup Runs
         /\ r \in Knowledge => o \in Employees \cup Workflows
         /\ r \in Models => o \in Employees \cup Workflows \cup Conversations
  <1>1. o \in Res!Things /\ refs[o] \in Res!RefsOf(o)
    BY DEF MInv, MTyped
  <1>2. /\ o \in Employees => refs[o] \subseteq Models \cup Knowledge \cup Workflows
        /\ o \in Workflows => refs[o] \subseteq Knowledge \cup Employees \cup Models
        /\ o \in Conversations => refs[o] \subseteq Employees \cup Models
        /\ o \in Runs => refs[o] \subseteq Workflows
        /\ o \in Knowledge \cup Models => refs[o] = {}
    BY <1>1, SortsOfReferences
  <1> QED BY <1>1, <1>2, SortsApart DEF Res!Things, Res!Resources

-----------------------------------------------------------------------------
\* Every write of a reference.
LEMMA AddsOrUpdates ==
  ASSUME Res!ResourceMutationsAssumption, MInv, NEW h \in Handlers,
         \/ Res!CreateEmployee(h) \/ Res!UpdateEmployee(h) \/ Res!CreateWorkflow(h)
            \/ Res!UpdateWorkflow(h)
         \/ Res!CreateConversation(h) \/ Res!CreateFirstTurn(h) \/ Res!StartRun(h)
  PROVE  MInv'
  <1> DEFINE o == handler[h].on
             c == handler[h].cfg
  <1>1. /\ handler[h].phase = "commit" /\ Res!Goes(h, "release")
        /\ UNCHANGED <<enabled, crashes>>
        /\ handler[h].op \in {"create_employee", "ensure_employee", "update_employee",
             "create_workflow", "update_workflow", "create_conversation", "create_first_turn",
             "start_run"}
        /\ Res!Rejected \/ (Res!Inserted(o, c) /\ Res!ForeignKeysHold(o, c))
    BY DEF Res!CreateEmployee, Res!UpdateEmployee, Res!CreateWorkflow, Res!UpdateWorkflow,
       Res!CreateConversation,
           Res!CreateFirstTurn, Res!StartRun, Res!Writing, Res!EmployeeAdd, Res!EmployeeUpdate,
           Res!WorkflowAdd,
           Res!WorkflowUpdate, Res!ConversationAdd
  <1>2. CASE Res!Rejected
    BY <1>1, <1>2, ReleasingStep DEF Res!Rejected
  <1>3. CASE Res!Inserted(o, c) /\ Res!ForeignKeysHold(o, c)
    <2>1. o \in Res!Things /\ c \in Res!RefsOf(o) /\ handler[h].op \notin Res!Deletions
      BY <1>1, BeforeWriting DEF Res!Deletions
    <2>2. c \subseteq Res!Resources
          /\ (o \in Employees => c \subseteq Models \cup Knowledge \cup Workflows)
      BY <2>1, SortsOfReferences
    <2>3. IF o \in Employees THEN c \cap Models \subseteq present
          ELSE c \ Knowledge \subseteq present
      BY <1>3 DEF Res!ForeignKeysHold
    <2>4. c \ (Knowledge \cup Workflows) \subseteq present
      BY <2>2, <2>3
    <2> QED BY <1>1, <1>3, <2>1, <2>4, InsertedStep
  <1> QED BY <1>1, <1>2, <1>3

\* Every deletion: by the database's own check, or by what was read under the locks.
LEMMA Deletes ==
  ASSUME Res!ResourceMutationsAssumption, MInv, NEW h \in Handlers,
         Res!DeleteEmployee(h) \/ Res!DeleteWorkflow(h) \/ Res!DeleteKnowledgeBase(h)
         \/ Res!DeleteModel(h)
  PROVE  MInv'
  <1> DEFINE r == handler[h].on
  <1>1. handler[h].phase = "commit" /\ Res!Goes(h, "release") /\ UNCHANGED <<refs, crashes>>
    BY DEF Res!DeleteEmployee, Res!DeleteWorkflow, Res!DeleteKnowledgeBase, Res!DeleteModel,
       Res!Writing
  <1>2. Asked(handler[h]) /\ Unreferred(handler[h], present, refs) /\ enabled \subseteq Models
    BY DEF MInv, MTyped, SoundRequest
  <1>3. CASE UNCHANGED <<present, enabled>>
    BY <1>1, <1>3, ReleasingStep
  <1>4. CASE Res!DeleteEmployee(h) /\ ~UNCHANGED <<present, enabled>>
    <2>1. r \in Employees
      BY <1>2, <1>4 DEF Res!DeleteEmployee, Res!Writing, Asked, Res!EmployeeOps
    <2>2. /\ present' = present \ {r} /\ enabled' = enabled
          /\ ~Res!ReferredBy(Conversations \cup Workflows, r)
      BY <1>4 DEF Res!DeleteEmployee, Res!EmployeeDelete
    <2>3. \A o \in present : r \notin refs[o]
      BY <2>1, <2>2, Referrers DEF Res!ReferredBy
    <2>4. r \in Res!Resources /\ r \notin Knowledge \cup Workflows
      BY <2>1, SortsApart DEF Res!Resources
    <2> QED BY <1>1, <1>2, <2>2, <2>3, <2>4, RemovedStep
  <1>5. CASE Res!DeleteWorkflow(h) /\ ~UNCHANGED <<present, enabled>>
    <2>1. r \in Workflows /\ r \in handler[h].named
      BY <1>1, <1>2, <1>5, BeforeWriting DEF Res!DeleteWorkflow, Res!Writing, Asked,
         Res!WorkflowOps
    <2>2. present' = present \ {r} /\ enabled' = enabled /\ ~Res!WorkflowReferences(r)
      BY <1>5 DEF Res!DeleteWorkflow, Res!WorkflowDelete
    <2>3. \A o \in present : r \notin refs[o]
      BY <2>1, <2>2, Referrers DEF Res!WorkflowReferences, Res!ReferredBy
    <2> QED BY <1>1, <1>2, <2>1, <2>2, <2>3, RemovedStep DEF Res!Resources
  <1>6. CASE Res!DeleteKnowledgeBase(h)
    <2>1. /\ r \in Knowledge /\ r \in handler[h].named
          /\ handler[h].op = "delete_knowledge_base"
      BY <1>1, <1>2, <1>6, BeforeWriting DEF Res!DeleteKnowledgeBase, Res!Writing, Asked,
         Res!KnowledgeOps
    <2>2. present' = present \ {r} /\ enabled' = enabled
      BY <1>6 DEF Res!DeleteKnowledgeBase
    <2>3. \A o \in present : r \notin refs[o]
      BY <1>1, <1>2, <2>1, Referrers DEF Unreferred
    <2> QED BY <1>1, <1>2, <2>1, <2>2, <2>3, RemovedStep DEF Res!Resources
  <1>7. CASE Res!DeleteModel(h) /\ ~UNCHANGED <<present, enabled>>
    <2>1. r \in Models
      BY <1>2, <1>7 DEF Res!DeleteModel, Res!Writing, Asked, Res!ModelOps
    <2>2. present' = present \ {r} /\ enabled' = enabled \ {r} /\ ~Res!CountReferences(r)
      BY <1>7 DEF Res!DeleteModel, Res!ModelDelete
    <2>3. ASSUME NEW o \in present, r \in refs[o] PROVE FALSE
      <3>1. o \in Employees \cup Workflows \cup Conversations
        BY <2>1, <2>3, Referrers
      <3>2. o \in Workflows => o \in Res!ModelReferenceRows
        BY <2>1, <2>3 DEF Res!ModelReferenceRows
      <3> QED BY <2>2, <2>3, <3>1, <3>2 DEF Res!CountReferences, Res!ReferredBy
    <2>4. r \in Res!Resources /\ r \notin Knowledge \cup Workflows
      BY <2>1, SortsApart DEF Res!Resources
    <2> QED BY <1>1, <1>2, <2>2, <2>3, <2>4, RemovedStep
  <1> QED BY <1>3, <1>4, <1>5, <1>6, <1>7

(* A model configuration refers to nothing *)
LEMMA ModelWrites ==
  ASSUME Res!ResourceMutationsAssumption, MInv, NEW h \in Handlers,
         Res!CreateModel(h) \/ Res!UpdateModel(h)
  PROVE  MInv'
  <1> DEFINE m == handler[h].on
  <1>1. handler[h].phase = "commit" /\ Res!Goes(h, "release") /\ UNCHANGED <<refs, crashes>>
        /\ handler[h].op \in Res!ModelOps
    BY DEF Res!CreateModel, Res!UpdateModel, Res!Writing, Res!ModelOps
  <1>2. m \in Models
    BY <1>1 DEF MInv, SoundRequest, Asked
  <1>3. /\ present' = present \/ present' = present \cup {m}
        /\ enabled' \subseteq Models
    BY <1>2 DEF Res!CreateModel, Res!UpdateModel, Res!ModelAdd, Res!ModelUpdate, MInv, MTyped
  <1>4. PICK q \in Handler :
           /\ handler' = [handler EXCEPT ![h] = q] /\ q.phase = "release"
           /\ q.op = handler[h].op /\ q.on = handler[h].on /\ q.cfg = handler[h].cfg
           /\ q.named = handler[h].named /\ q.unchecked = handler[h].unchecked
    BY <1>1, MovedOn DEF Res!Phases
  <1>5. refs' = refs /\ refs[m] = {} /\ m \in Res!Things
    BY <1>1, <1>2 DEF MInv, MTyped, Res!Things, Res!Resources
  <1>6. /\ present' \subseteq Res!Things /\ refs' \in [Res!Things -> SUBSET Res!Resources]
        /\ \A o \in present' : refs'[o] \in Res!RefsOf(o)
        /\ \A n \in Models : refs'[n] = {}
    <2>1. Res!RefsOf(m) = {{}}
      BY <1>2, SortsApart DEF Res!RefsOf
    <2> QED BY <1>3, <1>5, <2>1 DEF MInv, MTyped
  <1>7. Res!NoDanglingReference'
    BY <1>3, <1>5 DEF MInv, Res!NoDanglingReference
  <1>8. SoundRequest(q, present', refs')
    <2>1. Asked(handler[h]) /\ handler[h].op # "none"
      BY <1>1 DEF MInv, SoundRequest, Asked
    <2> QED BY <1>4, <2>1, ReleasedIsSound
  <1>9. ASSUME NEW g \in Handlers \ {h} PROVE SoundRequest(handler[g], present', refs')
    <2>1. SoundRequest(handler[g], present, refs)
      BY DEF MInv
    <2> QED BY <1>2, <1>3, <1>5, <2>1, SortsApart DEF SoundRequest, SoFar, Unreferred
  <1>10. \A g \in Handlers \ {h} : handler[g].named \cap q.named = {}
    BY <1>4 DEF MInv, Exclusive
  <1> QED BY <1>1, <1>3, <1>4, <1>6, <1>7, <1>8, <1>9, <1>10, OneHandler

(* A process that dies takes its locks along *)
LEMMA CrashStep ==
  ASSUME Res!ResourceMutationsAssumption, MInv, NEW p \in Processes, Res!ProcessCrash(p)
  PROVE  MInv'
  <1> DEFINE dead == [Res!Idle(p) EXCEPT !.phase = "done"]
  <1>1. dead \in Handler /\ dead.named = {} /\ dead.op = "none" /\ dead.phase = "done"
    BY DEF Res!Idle, Handler, Res!Phases
  <1>2. /\ UNCHANGED <<present, refs, enabled>>
        /\ \A h \in Handlers : handler'[h] = dead \/ handler'[h] = handler[h]
        /\ handler' = [h \in Handlers |->
             IF handler[h].process = p /\ handler[h].phase # "idle" THEN dead ELSE handler[h]]
    BY DEF Res!ProcessCrash
  <1>3. crashes' \in 0 .. MaxCrashes
    BY DEF Res!ProcessCrash, MInv, MTyped, Res!ResourceMutationsAssumption
  <1> HIDE DEF dead
  <1>4. MTyped'
    BY <1>1, <1>2, <1>3 DEF MInv, MTyped
  <1>5. Res!NoDanglingReference'
    BY <1>2 DEF MInv, Res!NoDanglingReference
  <1>6. Exclusive'
    BY <1>1, <1>2 DEF MInv, Exclusive
  <1>7. SoundRequest(dead, present, refs)
    BY <1>1 DEF SoundRequest, Asked, Guarded, SoFar, Unreferred, Res!EmployeeOps, Res!ModelOps,
       Res!WorkflowOps,
                Res!KnowledgeOps, Res!ConversationOps, Res!RunOps
  <1>8. \A h \in Handlers : SoundRequest(handler'[h], present', refs')
    BY <1>2, <1>7 DEF MInv
  <1> QED BY <1>4, <1>5, <1>6, <1>8 DEF MInv

\* Every step keeps the invariant.
LEMMA StepKeeps ==
  ASSUME Res!ResourceMutationsAssumption, MInv, [Res!Next]_Res!vars
  PROVE  MInv'
  <1>1. CASE UNCHANGED Res!vars
    BY <1>1 DEF Res!vars, MInv, MTyped, Res!NoDanglingReference, Exclusive
  <1>2. ASSUME NEW h \in Handlers, Res!Request(h) PROVE MInv'
    BY <1>2, RequestStep
  <1>3. ASSUME NEW h \in Handlers, Res!HandlerStep(h) PROVE MInv'
    BY <1>3, TakeLocalStep, ConnectStep, TakeNamedStep, TimeoutStep, ReadStep, CheckStep,
       AddsOrUpdates, Deletes, ModelWrites, ReleaseStep DEF Res!HandlerStep
  <1>4. ASSUME NEW p \in Processes, Res!ProcessCrash(p) PROVE MInv'
    BY <1>4, CrashStep
  <1> QED BY <1>1, <1>2, <1>3, <1>4 DEF Res!Next

-----------------------------------------------------------------------------
(* Theorems *)

(* The locks are exclusive, whoever reads, checks or writes holds all of its
   locks, what it has checked is still there, and what it is about to delete in
   RAGFlow is not referred to. *)
THEOREM GuardInvariance ==
  ASSUME Res!ResourceMutationsAssumption
  PROVE  Res!Spec => []MInv
  <1>1. Res!Init => MInv
    BY MInit
  <1>2. MInv /\ [Res!Next]_Res!vars => MInv'
    BY StepKeeps
  <1> QED BY <1>1, <1>2, PTL DEF Res!Spec

(* Every variable always has its type. *)
THEOREM MutationsTyped ==
  ASSUME Res!ResourceMutationsAssumption
  PROVE  Res!Spec => []Res!TypeOK
  <1>1. MInv => Res!TypeOK
    BY DEF MInv, MTyped, Res!TypeOK, Handler
  <1> QED BY <1>1, GuardInvariance, PTL

-----------------------------------------------------------------------------
(* Lifecycle: what is closed, and in which order *)

(* The order in which a process closes its parts *)
Place(p) ==
  CASE p = "workflows" -> 1 [] p = "conversations" -> 2 [] p = "runtime" -> 3
    [] p = "resolver" -> 4 [] p \in Adapters -> 5 [] p = "conversation_events" -> 6
    [] p = "workflow_events" -> 7 [] p = "knowledge" -> 8 [] p = "demo_model" -> 9
    [] p = "database" -> 10

(* What is closed in the course of a part's own closing *)
Below(p) ==
  CASE p = "conversations" -> {"runtime", "resolver"} \cup Adapters
    [] p = "runtime" -> {"resolver"} \cup Adapters
    [] p = "resolver" -> Adapters
    [] OTHER -> {}

(* The parts of the steps that are done are open, and no others *)
Starting ==
  /\ server.phase = "starting" =>
       /\ server.step < Len(Life!Steps)
       /\ \A i \in 1 .. Len(Life!Steps) :
            Life!Steps[i] \in open <=> i <= server.step /\ Life!Steps[i] \notin Life!OpensNothing
  /\ server.phase = "serving" => server.step = Len(Life!Steps)
  /\ server.phase \in {"starting", "serving"} => cleanups = <<>> /\ shut = <<>>
  /\ server.phase = "closing" /\ server.step < Len(Life!Steps) => errors

(* A part is opened after the one that it is given *)
Opened ==
  /\ "conversations" \in open => "runtime" \in open
  /\ "runtime" \in open /\ server.mode = "real" => "resolver" \in open
  /\ "resolver" \in open => FirstAdapter \in open
  /\ server.mode = "demo" => open \cap ({"resolver"} \cup Adapters) = {}
  /\ "resolver" \notin open => open \cap Adapters \subseteq {FirstAdapter}
  /\ "resolver" \in open /\ "resolver" \notin Life!ToSet(shut) =>
       Life!ToSet(models) = open \cap Adapters
  /\ Life!IsInjective(models)

(* What is still open is closed by what is still to be closed, in the order of places *)
Pending ==
  server.phase = "closing" =>
    /\ Life!ToSet(cleanups) \cap Life!ToSet(shut) = {} /\ Life!IsInjective(cleanups)
    /\ \A i, j \in DOMAIN cleanups : i <= j => Place(cleanups[i]) <= Place(cleanups[j])
    /\ \A p \in Life!ToSet(cleanups) :
         Below(p) \cap (Life!ToSet(cleanups) \cup Life!ToSet(shut)) = {}
    /\ \A x \in open : x \in Life!ToSet(shut) \/ \E p \in Life!ToSet(cleanups) : x = p
       \/ x \in Below(p)

LifeInv == Life!TypeOK /\ Starting /\ Opened /\ Pending /\ Life!EverythingIsClosed

-----------------------------------------------------------------------------
(* The steps of a start: each opens another part, and what a part is given is opened before it *)
LEMMA StartSteps ==
  ASSUME Life!LifecycleAssumption, server.kind \in {"api", "worker"},
         server.mode \in {"demo", "real"}
  PROVE  /\ Len(Life!Steps) \in 1 .. 12 /\ DOMAIN Life!Steps = 1 .. Len(Life!Steps)
         /\ \A i \in 1 .. Len(Life!Steps) :
              /\ Life!Steps[i] \in Life!Parts \cup Life!OpensNothing \cup {FirstAdapter}
              /\ server.mode = "demo" => Life!Steps[i] \notin {"resolver", FirstAdapter}
              /\ Life!Steps[i] = "conversations" =>
                   \E j \in 1 .. i - 1 : Life!Steps[j] = "runtime"
              /\ Life!Steps[i] = "runtime" /\ server.mode = "real" =>
                   \E j \in 1 .. i - 1 : Life!Steps[j] = "resolver"
              /\ Life!Steps[i] = "resolver" => \E j \in 1 .. i - 1 : Life!Steps[j] = FirstAdapter
              /\ \A j \in 1 .. Len(Life!Steps) : Life!Steps[i] = Life!Steps[j] => i = j
  <1>1. CASE server.kind = "api" /\ server.mode = "demo"
    <2>1. /\ Len(Life!Steps) = 10 /\ DOMAIN Life!Steps = 1 .. 10
          /\ Life!Steps[1] = "database" /\ Life!Steps[2] = "tenants"
          /\ Life!Steps[3] = "knowledge" /\ Life!Steps[4] = "runtime"
          /\ Life!Steps[5] = "demo_model" /\ Life!Steps[6] = "workflow_events"
          /\ Life!Steps[7] = "workflows" /\ Life!Steps[8] = "seeds"
          /\ Life!Steps[9] = "conversation_events" /\ Life!Steps[10] = "conversations"
      BY <1>1 DEF Life!Steps, Life!ApiStart, Life!Foundation, Life!AdaptersOf, Life!DemoAdapters,
         Life!WorkflowServices, Life!Seeds,
         Life!ConversationServices
    <2> QED BY <1>1, <2>1 DEF Life!LifecycleAssumption, Life!Parts, Life!OpensNothing
  <1>2. CASE server.kind = "api" /\ server.mode = "real"
    <2>1. /\ Len(Life!Steps) = 12 /\ DOMAIN Life!Steps = 1 .. 12
          /\ Life!Steps[1] = "database" /\ Life!Steps[2] = "tenants"
          /\ Life!Steps[3] = "identities" /\ Life!Steps[4] = "knowledge"
          /\ Life!Steps[5] = FirstAdapter /\ Life!Steps[6] = "resolver"
          /\ Life!Steps[7] = "workflow_events" /\ Life!Steps[8] = "workflows"
          /\ Life!Steps[9] = "runtime" /\ Life!Steps[10] = "seeds"
          /\ Life!Steps[11] = "conversation_events" /\ Life!Steps[12] = "conversations"
      BY <1>2 DEF Life!Steps, Life!ApiStart, Life!Foundation, Life!AdaptersOf, Life!RealAdapters,
         Life!WorkflowServices, Life!Seeds,
         Life!ConversationServices
    <2> QED BY <1>2, <2>1 DEF Life!LifecycleAssumption, Life!Parts, Life!OpensNothing
  <1>3. CASE server.kind = "worker" /\ server.mode = "demo"
    <2>1. /\ Len(Life!Steps) = 9 /\ DOMAIN Life!Steps = 1 .. 9
          /\ Life!Steps[1] = "database" /\ Life!Steps[2] = "tenants"
          /\ Life!Steps[3] = "knowledge" /\ Life!Steps[4] = "runtime"
          /\ Life!Steps[5] = "demo_model" /\ Life!Steps[6] = "workflow_events"
          /\ Life!Steps[7] = "workflows" /\ Life!Steps[8] = "conversation_events"
          /\ Life!Steps[9] = "conversations"
      BY <1>3 DEF Life!Steps, Life!WorkerAdapters, Life!WorkerServices, Life!Foundation,
         Life!AdaptersOf, Life!DemoAdapters,
         Life!WorkflowServices, Life!ConversationServices
    <2> QED BY <1>3, <2>1 DEF Life!LifecycleAssumption, Life!Parts, Life!OpensNothing
  <1>4. CASE server.kind = "worker" /\ server.mode = "real"
    <2>1. /\ Len(Life!Steps) = 11 /\ DOMAIN Life!Steps = 1 .. 11
          /\ Life!Steps[1] = "database" /\ Life!Steps[2] = "tenants"
          /\ Life!Steps[3] = "identities" /\ Life!Steps[4] = "knowledge"
          /\ Life!Steps[5] = FirstAdapter /\ Life!Steps[6] = "resolver"
          /\ Life!Steps[7] = "workflow_events" /\ Life!Steps[8] = "workflows"
          /\ Life!Steps[9] = "runtime" /\ Life!Steps[10] = "conversation_events"
          /\ Life!Steps[11] = "conversations"
      BY <1>4 DEF Life!Steps, Life!WorkerAdapters, Life!WorkerServices, Life!Foundation,
         Life!AdaptersOf, Life!RealAdapters,
         Life!WorkflowServices, Life!ConversationServices
    <2> QED BY <1>4, <2>1 DEF Life!LifecycleAssumption, Life!Parts, Life!OpensNothing
  <1> QED BY <1>1, <1>2, <1>3, <1>4

-----------------------------------------------------------------------------
(* Two rows of things to close, each in its order and the second after the first *)
InOrder(s, l, u) ==
  /\ s \in Seq(Life!Parts \cup Adapters) /\ Life!IsInjective(s)
  /\ \A i \in DOMAIN s : Place(s[i]) \in l .. u
  /\ \A i, j \in DOMAIN s : i <= j => Place(s[i]) <= Place(s[j])

LEMMA Joined ==
  ASSUME NEW s, NEW t, NEW l \in Nat, NEW m \in Nat, NEW n \in Nat, NEW u \in Nat,
         l <= m, m < n, n <= u, InOrder(s, l, m), InOrder(t, n, u)
  PROVE  InOrder(s \o t, l, u) /\ Life!ToSet(s \o t) = Life!ToSet(s) \cup Life!ToSet(t)
  <1>1. s \o t \in Seq(Life!Parts \cup Adapters) /\ Len(s \o t) = Len(s) + Len(t)
        /\ DOMAIN (s \o t) = 1 .. Len(s) + Len(t) /\ DOMAIN s = 1 .. Len(s)
        /\ DOMAIN t = 1 .. Len(t) /\ Len(s) \in Nat /\ Len(t) \in Nat
    BY DEF InOrder
  <1>2. \A i \in DOMAIN s : i \in DOMAIN (s \o t) /\ (s \o t)[i] = s[i]
    BY <1>1 DEF InOrder
  <1>3. \A i \in DOMAIN t : Len(s) + i \in DOMAIN (s \o t) /\ (s \o t)[Len(s) + i] = t[i]
    BY <1>1 DEF InOrder
  <1>4. \A i \in DOMAIN (s \o t) :
          i \in DOMAIN s \/ \E j \in DOMAIN t : i = Len(s) + j
    <2>1. \A i \in 1 .. Len(s) + Len(t) :
            i \in 1 .. Len(s) \/ (i - Len(s) \in 1 .. Len(t) /\ i = Len(s) + (i - Len(s)))
      BY <1>1
    <2> QED BY <1>1, <2>1, Zenon
  <1>5. Life!ToSet(s \o t) = Life!ToSet(s) \cup Life!ToSet(t)
    BY <1>2, <1>3, <1>4 DEF Life!ToSet
  <1>6. PICK st : st = s \o t
    OBVIOUS
  <1>7. \A i \in DOMAIN s : Place(st[i]) \in l .. m
    BY <1>2, <1>6 DEF InOrder
  <1>8. \A i \in DOMAIN t : Place(st[Len(s) + i]) \in n .. u
    BY <1>3, <1>6 DEF InOrder
  <1>9. \A i \in DOMAIN st : Place(st[i]) \in l .. u
    BY <1>4, <1>6, <1>7, <1>8
  <1>10. ASSUME NEW i \in DOMAIN st, NEW j \in DOMAIN st
         PROVE  (i <= j => Place(st[i]) <= Place(st[j])) /\ (st[i] = st[j] => i = j)
    <2>1. CASE i \in DOMAIN s /\ j \in DOMAIN s
      BY <2>1, <1>2, <1>6 DEF InOrder, Life!IsInjective
    <2>2. CASE i \in DOMAIN s /\ \E k \in DOMAIN t : j = Len(s) + k
      BY <2>2, <1>7, <1>8
    <2>3. CASE j \in DOMAIN s /\ \E k \in DOMAIN t : i = Len(s) + k
      BY <2>3, <1>1, <1>7, <1>8
    <2>4. CASE (\E k \in DOMAIN t : i = Len(s) + k) /\ \E k \in DOMAIN t : j = Len(s) + k
      <3>1. PICK a \in DOMAIN t : i = Len(s) + a
        BY <2>4
      <3>2. PICK b \in DOMAIN t : j = Len(s) + b
        BY <2>4
      <3>3. a \in Nat /\ b \in Nat /\ st[i] = t[a] /\ st[j] = t[b]
        BY <1>1, <1>3, <1>6, <3>1, <3>2
      <3>4. (a <= b => Place(t[a]) <= Place(t[b])) /\ (t[a] = t[b] => a = b)
        BY DEF InOrder, Life!IsInjective
      <3> QED BY <1>1, <3>1, <3>2, <3>3, <3>4
    <2> QED BY <1>4, <1>6, <2>1, <2>2, <2>3, <2>4
  <1> QED BY <1>1, <1>5, <1>6, <1>9, <1>10 DEF InOrder, Life!IsInjective

LEMMA Single ==
  ASSUME Life!LifecycleAssumption, NEW p \in Life!Parts \cup Adapters
  PROVE  /\ InOrder(<<p>>, Place(p), Place(p)) /\ Life!ToSet(<<p>>) = {p}
         /\ Place(p) \in 1 .. 10 /\ (p \in Adapters => Place(p) = 5)
  <1>1. Place(p) \in 1 .. 10 /\ (p \in Adapters => Place(p) = 5)
    <2>1. CASE p \in Adapters
      <3>1. p \notin Life!Parts
        BY <2>1 DEF Life!LifecycleAssumption
      <3> QED BY <2>1, <3>1 DEF Place, Life!Parts
    <2>2. CASE p \in Life!Parts
      <3>1. p \notin Adapters
        BY <2>2 DEF Life!LifecycleAssumption
      <3>2. Place(p) \in 1 .. 10
        BY <2>2, <3>1, SMTT(30) DEF Place, Life!Parts
      <3> QED BY <3>1, <3>2
    <2> QED BY <2>1, <2>2
  <1>2. Life!ToSet(<<p>>) = {p}
    BY DEF Life!ToSet
  <1>3. <<p>> \in Seq(Life!Parts \cup Adapters) /\ DOMAIN <<p>> = {1} /\ <<p>>[1] = p
    OBVIOUS
  <1>4. PICK s : s = <<p>>
    OBVIOUS
  <1>5. \A i \in DOMAIN s : i = 1 /\ s[i] = p
    BY <1>3, <1>4
  <1>6. InOrder(s, Place(p), Place(p))
    BY <1>1, <1>3, <1>4, <1>5 DEF InOrder, Life!IsInjective
  <1>7. InOrder(<<p>>, Place(p), Place(p))
    BY <1>4, <1>6, Zenon
  <1> QED BY <1>1, <1>2, <1>7

LEMMA Places ==
  ASSUME Life!LifecycleAssumption
  PROVE  \A p \in Life!Parts \cup Adapters :
           Place(p) \in Nat /\ Place(p) \in 1 .. 10 /\ (p \in Adapters => Place(p) = 5)
  <1>1. TAKE p \in Life!Parts \cup Adapters
  <1>2. Place(p) \in 1 .. 10 /\ (p \in Adapters => Place(p) = 5)
    BY Single
  <1> QED BY <1>2

LEMMA NothingInOrder ==
  ASSUME NEW l, NEW u
  PROVE  InOrder(<<>>, l, u) /\ Life!ToSet(<<>>) = {}
  BY DEF InOrder, Life!ToSet, Life!IsInjective

-----------------------------------------------------------------------------
(* What is to be closed when the process starts to close *)
LEMMA CleanupsInOrder ==
  ASSUME Life!LifecycleAssumption, Life!TypeOK, Opened, shut = <<>>
  PROVE  /\ InOrder(Life!Cleanups, 1, 10) /\ Life!ToSet(Life!Cleanups) \subseteq open
         /\ \A p \in Life!ToSet(Life!Cleanups) : Below(p) \cap Life!ToSet(Life!Cleanups) = {}
         /\ \A x \in open : \E p \in Life!ToSet(Life!Cleanups) : x = p \/ x \in Below(p)
  <1> DEFINE All == {"workflows", "conversation_events", "workflow_events", "knowledge",
                     "demo_model", "database"}
  <1>1. ASSUME NEW p \in All
        PROVE  InOrder(Life!If(p), Place(p), Place(p)) /\ Life!ToSet(Life!If(p)) = {p} \cap open
    <2>1. p \in Life!Parts
      BY DEF Life!Parts
    <2> QED BY <2>1, Single, NothingInOrder DEF Life!If
  <1>2. /\ Place("workflows") = 1 /\ Place("conversation_events") = 6
        /\ Place("workflow_events") = 7 /\ Place("knowledge") = 8 /\ Place("demo_model") = 9
        /\ Place("database") = 10
    BY DEF Place, Life!LifecycleAssumption, Life!Parts
  <1>3. PICK holder : holder = Life!Holder
    OBVIOUS
  <1>4. InOrder(holder, 2, 5) /\ Life!ToSet(holder) \subseteq open
    <2>1. ASSUME NEW p \in {"conversations", "runtime", "resolver", FirstAdapter}
          PROVE  InOrder(<<p>>, 2, 5) /\ Life!ToSet(<<p>>) = {p}
      <3>1. p \in Life!Parts \cup Adapters /\ Place(p) \in 2 .. 5
        BY <2>1 DEF Place, Life!LifecycleAssumption, Life!Parts
      <3>2. InOrder(<<p>>, Place(p), Place(p)) /\ Life!ToSet(<<p>>) = {p}
        BY <3>1, Single
      <3> QED BY <3>1, <3>2 DEF InOrder
    <2>2. InOrder(<<>>, 2, 5) /\ Life!ToSet(<<>>) = {}
      BY NothingInOrder
    <2> QED BY <1>3, <2>1, <2>2 DEF Life!Holder, Life!If
  <1>5. PICK a : a = Life!If("workflows") \o holder
    OBVIOUS
  <1>6. InOrder(a, 1, 5) /\ Life!ToSet(a) = ({"workflows"} \cap open) \cup Life!ToSet(holder)
    BY <1>1, <1>2, <1>4, <1>5, Joined
  <1>7. PICK b : b = a \o Life!If("conversation_events")
    OBVIOUS
  <1>8. InOrder(b, 1, 6) /\ Life!ToSet(b) = Life!ToSet(a) \cup ({"conversation_events"} \cap open)
    BY <1>1, <1>2, <1>6, <1>7, Joined
  <1>9. PICK c : c = b \o Life!If("workflow_events")
    OBVIOUS
  <1>10. InOrder(c, 1, 7) /\ Life!ToSet(c) = Life!ToSet(b) \cup ({"workflow_events"} \cap open)
    BY <1>1, <1>2, <1>8, <1>9, Joined
  <1>11. PICK d : d = c \o Life!If("knowledge")
    OBVIOUS
  <1>12. InOrder(d, 1, 8) /\ Life!ToSet(d) = Life!ToSet(c) \cup ({"knowledge"} \cap open)
    BY <1>1, <1>2, <1>10, <1>11, Joined
  <1>13. PICK e : e = d \o Life!If("demo_model")
    OBVIOUS
  <1>14. InOrder(e, 1, 9) /\ Life!ToSet(e) = Life!ToSet(d) \cup ({"demo_model"} \cap open)
    BY <1>1, <1>2, <1>12, <1>13, Joined
  <1>15. PICK f : f = e \o Life!If("database")
    OBVIOUS
  <1>16. InOrder(f, 1, 10) /\ Life!ToSet(f) = Life!ToSet(e) \cup ({"database"} \cap open)
    BY <1>1, <1>2, <1>14, <1>15, Joined
  <1>17. Life!Cleanups = f
    BY <1>3, <1>5, <1>7, <1>9, <1>11, <1>13, <1>15 DEF Life!Cleanups
  <1>18. Life!ToSet(f) = (All \cap open) \cup Life!ToSet(holder)
    BY <1>6, <1>8, <1>10, <1>12, <1>14, <1>16
  <1>19. \/ "conversations" \in open /\ Life!ToSet(holder) = {"conversations"}
         \/ "conversations" \notin open /\ "runtime" \in open /\ Life!ToSet(holder) = {"runtime"}
         \/ {"conversations", "runtime"} \cap open = {} /\ "resolver" \in open
            /\ Life!ToSet(holder) = {"resolver"}
         \/ {"conversations", "runtime", "resolver"} \cap open = {}
            /\ Life!ToSet(holder) = {FirstAdapter} \cap open
    <2>1. \A p : Life!ToSet(<<p>>) = {p}
      BY DEF Life!ToSet
    <2> QED BY <1>3, <2>1, NothingInOrder DEF Life!Holder, Life!If
  <1>20. \A p \in Life!ToSet(f) : Below(p) \cap Life!ToSet(f) = {}
    BY <1>18, <1>19 DEF Below, Opened, Life!LifecycleAssumption, Life!Parts
  <1>21. \A x \in open : \E p \in Life!ToSet(f) : x = p \/ x \in Below(p)
    BY <1>18, <1>19 DEF Below, Opened, Life!LifecycleAssumption, Life!Parts, Life!TypeOK
  <1> QED BY <1>4, <1>16, <1>17, <1>18, <1>20, <1>21

-----------------------------------------------------------------------------
LEMMA LifeInit ==
  ASSUME Life!LifecycleAssumption, Life!Init
  PROVE  LifeInv
  <1>1. Life!TypeOK
    <2>1. server \in [kind : {"api", "worker"}, mode : {"demo", "real"},
                      phase : {"starting", "serving", "closing", "ended"}, step : 0 .. 12]
      BY DEF Life!Init
    <2>2. \A S : <<>> \in Seq(S)
      OBVIOUS
    <2> QED BY <2>1, <2>2 DEF Life!Init, Life!TypeOK
  <1>2. server.kind \in {"api", "worker"} /\ server.mode \in {"demo", "real"}
        /\ server.phase = "starting" /\ server.step = 0
    BY DEF Life!Init
  <1>3. Starting
    BY <1>2, StartSteps DEF Life!Init, Starting
  <1>4. Opened
    BY DEF Life!Init, Opened, Life!IsInjective
  <1>5. Pending /\ Life!EverythingIsClosed
    BY <1>2 DEF Life!Init, Pending, Life!EverythingIsClosed, Life!IsInjective
  <1> QED BY <1>1, <1>3, <1>4, <1>5 DEF LifeInv

(* A step of the start opens another part *)
LEMMA StepDoneKeeps ==
  ASSUME Life!LifecycleAssumption, LifeInv, Life!StepDone
  PROVE  LifeInv'
  <1>1. server.kind \in {"api", "worker"} /\ server.mode \in {"demo", "real"}
        /\ server.step \in Nat /\ server.phase = "starting"
    BY DEF LifeInv, Life!TypeOK, Life!StepDone
  <1>2. PICK n : n = server.step + 1
    OBVIOUS
  <1>3. PICK step : step = Life!Steps[n]
    OBVIOUS
  <1>4. /\ server' = [server EXCEPT !.step = n,
                                    !.phase = IF n = Len(Life!Steps) THEN "serving" ELSE "starting"]
        /\ open' = open \cup ({step} \ Life!OpensNothing)
        /\ models' = IF step = "resolver" THEN <<FirstAdapter>> ELSE models
        /\ UNCHANGED <<cleanups, shut, errors>>
    BY <1>1, <1>2, <1>3 DEF Life!StepDone
  <1>5. server'.kind = server.kind /\ server'.mode = server.mode /\ server'.step = n
        /\ server'.phase = IF n = Len(Life!Steps) THEN "serving" ELSE "starting"
    BY <1>4 DEF LifeInv, Life!TypeOK
  <1>6. Life!Steps' = Life!Steps
    BY <1>5 DEF Life!Steps
  <1>7. n \in 1 .. Len(Life!Steps) /\ Len(Life!Steps) \in 1 .. 12
        /\ \A i \in 1 .. Len(Life!Steps) :
             Life!Steps[i] \in open <=> i < n /\ Life!Steps[i] \notin Life!OpensNothing
    BY <1>1, <1>2, StartSteps DEF LifeInv, Starting
  <1>8. step \in Life!Parts \cup Life!OpensNothing \cup {FirstAdapter} /\ step \notin open
    BY <1>1, <1>3, <1>7, StartSteps
  <1>9. shut = <<>> /\ cleanups = <<>>
    BY <1>1 DEF LifeInv, Starting
  <1>10. Life!TypeOK'
    <2>1. server' \in [kind : {"api", "worker"}, mode : {"demo", "real"},
                       phase : {"starting", "serving", "closing", "ended"}, step : 0 .. 12]
      <3>1. n \in 0 .. 12
        BY <1>7
      <3>2. PICK phase \in {"serving", "starting"} :
              server' = [server EXCEPT !.step = n, !.phase = phase]
        BY <1>4
      <3> QED BY <3>1, <3>2 DEF LifeInv, Life!TypeOK
    <2>2. open' \subseteq Life!Parts \cup Adapters
      BY <1>4, <1>8 DEF LifeInv, Life!TypeOK, Life!LifecycleAssumption
    <2>3. models' \in Seq(Adapters)
      BY <1>4 DEF LifeInv, Life!TypeOK, Life!LifecycleAssumption
    <2> QED BY <1>4, <1>9, <2>1, <2>2, <2>3 DEF LifeInv, Life!TypeOK
  <1>11. Starting'
    <2>1. \A i \in 1 .. Len(Life!Steps) :
            Life!Steps[i] \in open' <=> i <= n /\ Life!Steps[i] \notin Life!OpensNothing
      <3>1. \A i \in 1 .. Len(Life!Steps) : Life!Steps[i] = step => i = n
        BY <1>1, <1>3, <1>7, StartSteps
      <3> QED BY <1>3, <1>4, <1>7, <3>1
    <2> QED BY <1>4, <1>5, <1>6, <1>7, <1>9, <2>1 DEF Starting
  <1>12. Opened'
    <2>1. \A p \in Life!Parts \cup Adapters : (\E j \in 1 .. n - 1 : Life!Steps[j] = p) =>
            p \in open
      <3>1. \A p \in Life!Parts \cup Adapters : p \notin Life!OpensNothing
        BY DEF Life!Parts, Life!OpensNothing, Life!LifecycleAssumption
      <3>2. \A j \in 1 .. n - 1 : j \in 1 .. Len(Life!Steps) /\ j < n
        BY <1>7
      <3> QED BY <1>7, <3>1, <3>2
    <2>2. {"conversations", "runtime", "resolver", FirstAdapter}
            \subseteq Life!Parts \cup Adapters
      BY DEF Life!Parts, Life!LifecycleAssumption
    <2>3. /\ step = "conversations" => "runtime" \in open
          /\ step = "runtime" /\ server.mode = "real" => "resolver" \in open
          /\ step = "resolver" => FirstAdapter \in open
          /\ server.mode = "demo" => step \notin {"resolver", FirstAdapter}
      BY <1>1, <1>3, <1>7, <2>1, <2>2, StartSteps
    <2>4. step \in Adapters => step = FirstAdapter
      BY <1>8 DEF Life!Parts, Life!OpensNothing, Life!LifecycleAssumption
    <2>5. PICK o : o = open'
      OBVIOUS
    <2>6. open \subseteq o /\ o \subseteq open \cup {step}
          /\ (step \in {FirstAdapter, "resolver"} => step \in o)
      BY <1>4, <2>5 DEF Life!OpensNothing, Life!LifecycleAssumption
    <2>7. /\ "conversations" \in o => "runtime" \in o
          /\ "runtime" \in o /\ server.mode = "real" => "resolver" \in o
          /\ "resolver" \in o => FirstAdapter \in o
          /\ server.mode = "demo" => o \cap ({"resolver"} \cup Adapters) = {}
          /\ "resolver" \notin o => o \cap Adapters \subseteq {FirstAdapter}
      BY <2>3, <2>4, <2>6 DEF LifeInv, Opened
    <2>8. shut' = shut /\ Life!ToSet(shut) = {}
      BY <1>4, <1>9 DEF Life!ToSet
    <2>9. "resolver" \in o => Life!ToSet(models') = o \cap Adapters
      <3>1. CASE step = "resolver"
        <4>1. Life!ToSet(<<FirstAdapter>>) = {FirstAdapter}
          BY DEF Life!ToSet
        <4>2. o \cap Adapters = {FirstAdapter}
          BY <1>8, <2>3, <2>6, <3>1 DEF LifeInv, Opened, Life!LifecycleAssumption, Life!Parts
        <4> QED BY <1>4, <3>1, <4>1, <4>2
      <3>2. CASE step # "resolver" /\ "resolver" \in open
        <4>1. o \cap Adapters = open \cap Adapters
          BY <1>8, <2>4, <2>6, <3>2 DEF LifeInv, Opened
        <4> QED BY <1>4, <2>8, <3>2, <4>1 DEF LifeInv, Opened
      <3> QED BY <2>6, <3>1, <3>2
    <2>10. Life!IsInjective(models')
      BY <1>4 DEF LifeInv, Opened, Life!IsInjective
    <2> QED BY <1>5, <2>5, <2>7, <2>8, <2>9, <2>10 DEF Opened
  <1>13. Pending' /\ Life!EverythingIsClosed'
    BY <1>5, <1>4, <1>9 DEF Pending, Life!EverythingIsClosed, Life!IsInjective
  <1> QED BY <1>10, <1>11, <1>12, <1>13 DEF LifeInv

(* A process that starts to close still has everything it opened to close *)
LEMMA BeginsToClose ==
  ASSUME Life!LifecycleAssumption, LifeInv, server.phase \in {"starting", "serving"},
         Life!Does("closing"), cleanups' = Life!Cleanups, UNCHANGED <<open, models, shut>>,
         errors' \in BOOLEAN, server.step < Len(Life!Steps) => errors'
  PROVE  LifeInv'
  <1>1. /\ server'.kind = server.kind /\ server'.mode = server.mode
        /\ server'.step = server.step /\ server'.phase = "closing"
        /\ server' \in [kind : {"api", "worker"}, mode : {"demo", "real"},
                        phase : {"starting", "serving", "closing", "ended"}, step : 0 .. 12]
    BY DEF LifeInv, Life!TypeOK, Life!Does
  <1>2. Life!Steps' = Life!Steps
    BY <1>1 DEF Life!Steps
  <1>3. shut = <<>> /\ Life!ToSet(shut) = {}
    BY DEF LifeInv, Starting, Life!ToSet
  <1>4. /\ InOrder(Life!Cleanups, 1, 10) /\ Life!ToSet(Life!Cleanups) \subseteq open
        /\ \A p \in Life!ToSet(Life!Cleanups) : Below(p) \cap Life!ToSet(Life!Cleanups) = {}
        /\ \A x \in open : \E p \in Life!ToSet(Life!Cleanups) : x = p \/ x \in Below(p)
    BY <1>3, CleanupsInOrder DEF LifeInv
  <1>5. PICK row : row = Life!Cleanups
    OBVIOUS
  <1>6. row \in Seq(open)
    BY <1>4, <1>5 DEF InOrder, Life!ToSet
  <1>7. Life!TypeOK'
    BY <1>1, <1>5, <1>6 DEF LifeInv, Life!TypeOK
  <1>8. Starting'
    BY <1>1, <1>2 DEF Starting
  <1>9. Opened'
    BY <1>1 DEF LifeInv, Opened
  <1>10. Pending'
    BY <1>3, <1>4, <1>5 DEF Pending, InOrder
  <1>11. Life!EverythingIsClosed'
    BY <1>1, <1>3 DEF Life!EverythingIsClosed, Life!IsInjective
  <1> QED BY <1>7, <1>8, <1>9, <1>10, <1>11 DEF LifeInv


-----------------------------------------------------------------------------
(* The first of a row, and one more at its end *)
LEMMA FirstAndRest ==
  ASSUME NEW S, NEW s \in Seq(S), s # <<>>, Life!IsInjective(s)
  PROVE  /\ Head(s) \in S /\ Tail(s) \in Seq(S) /\ Life!IsInjective(Tail(s))
         /\ Life!ToSet(s) = {Head(s)} \cup Life!ToSet(Tail(s))
            /\ Head(s) \notin Life!ToSet(Tail(s))
         /\ \A i \in DOMAIN Tail(s) : i + 1 \in DOMAIN s /\ i \in Nat /\ Tail(s)[i] = s[i + 1]
         /\ 1 \in DOMAIN s /\ s[1] = Head(s)
  <1>1. PICK h, t : h = Head(s) /\ t = Tail(s)
    OBVIOUS
  <1>2. /\ Len(s) \in Nat /\ Len(s) >= 1 /\ DOMAIN s = 1 .. Len(s) /\ h = s[1]
        /\ t \in Seq(S) /\ DOMAIN t = 1 .. Len(s) - 1
        /\ \A i \in 1 .. Len(s) - 1 : t[i] = s[i + 1]
    BY <1>1
  <1>3. \A i \in DOMAIN t : i + 1 \in DOMAIN s /\ i \in Nat /\ i + 1 # 1 /\ t[i] = s[i + 1]
    BY <1>2
  <1>4. \A j \in DOMAIN s : j = 1 \/ \E i \in DOMAIN t : j = i + 1
    <2>1. \A j \in 1 .. Len(s) : j = 1 \/ (j - 1 \in 1 .. Len(s) - 1 /\ j = (j - 1) + 1)
      BY <1>2
    <2> QED BY <1>2, <2>1, Zenon
  <1>5. 1 \in DOMAIN s
    BY <1>2
  <1>6. Life!ToSet(s) = {h} \cup Life!ToSet(t)
    <2>1. \A x : x \in Life!ToSet(s) <=> \E i \in DOMAIN s : s[i] = x
      BY DEF Life!ToSet
    <2>2. \A x : x \in Life!ToSet(t) <=> \E i \in DOMAIN t : t[i] = x
      BY DEF Life!ToSet
    <2>3. \A x : x \in Life!ToSet(s) <=> x = h \/ x \in Life!ToSet(t)
      BY <1>2, <1>3, <1>4, <1>5, <2>1, <2>2
    <2> QED BY <2>3
  <1>7. h \notin Life!ToSet(t)
    BY <1>2, <1>3, <1>5 DEF Life!ToSet, Life!IsInjective
  <1>8. \A i, j \in DOMAIN t : t[i] = t[j] => i = j
    BY <1>3 DEF Life!IsInjective
  <1>9. Life!IsInjective(t)
    BY <1>8 DEF Life!IsInjective
  <1> QED BY <1>1, <1>2, <1>3, <1>5, <1>6, <1>7, <1>9

LEMMA OneMore ==
  ASSUME NEW S, NEW s \in Seq(S), NEW x, Life!IsInjective(s), x \notin Life!ToSet(s)
  PROVE  /\ Life!ToSet(Append(s, x)) = Life!ToSet(s) \cup {x} /\ Life!IsInjective(Append(s, x))
         /\ \A i \in DOMAIN Append(s, x) :
              \/ i \in DOMAIN s /\ Append(s, x)[i] = s[i]
              \/ i = Len(s) + 1 /\ Append(s, x)[i] = x
         /\ \A i \in DOMAIN s : i \in DOMAIN Append(s, x) /\ Append(s, x)[i] = s[i]
  <1>1. PICK a : a = Append(s, x)
    OBVIOUS
  <1>2. /\ Len(s) \in Nat /\ DOMAIN s = 1 .. Len(s) /\ DOMAIN a = 1 .. Len(s) + 1
        /\ a[Len(s) + 1] = x /\ \A i \in 1 .. Len(s) : a[i] = s[i]
    BY <1>1
  <1>3. /\ \A i \in DOMAIN a : i \in DOMAIN s \/ i = Len(s) + 1
        /\ \A i \in DOMAIN s : i \in DOMAIN a /\ i # Len(s) + 1
        /\ Len(s) + 1 \in DOMAIN a
    BY <1>2
  <1>4. Life!ToSet(a) = Life!ToSet(s) \cup {x}
    BY <1>2, <1>3 DEF Life!ToSet
  <1>5. \A i \in DOMAIN s : s[i] # x
    BY DEF Life!ToSet
  <1>6. Life!IsInjective(a)
    BY <1>2, <1>3, <1>5 DEF Life!IsInjective
  <1> QED BY <1>1, <1>2, <1>3, <1>4, <1>6

(* Of two parts that both lead to a third, one leads to the other *)
LEMMA OneChain ==
  ASSUME NEW p, NEW q, p # q, p \notin Below(q), q \notin Below(p)
  PROVE  Below(p) \cap Below(q) = {}
  BY DEF Below

(* What a part is given comes later than the part, and what uses it earlier *)
LEMMA Later ==
  ASSUME Life!LifecycleAssumption, NEW p \in Life!Parts \cup Adapters,
         NEW q \in Life!Parts \cup Adapters
  PROVE  /\ q \in Below(p) => Place(p) < Place(q)
         /\ q \in Life!UsersOf(p) => Place(q) < Place(p)
  <1>1. Place(p) \in Nat /\ Place(q) \in Nat
    BY Places
  <1>2. q \in Below(p) => Place(p) < Place(q)
    BY DEF Below, Place, Life!LifecycleAssumption, Life!Parts
  <1>3. q \in Life!UsersOf(p) => Place(q) < Place(p)
    BY DEF Life!UsersOf, Place, Life!LifecycleAssumption, Life!Parts
  <1> QED BY <1>1, <1>2, <1>3

(* A part is closed after all that uses it, and leaves what it was given to be closed *)
LEMMA ClosingKeeps ==
  ASSUME Life!LifecycleAssumption, LifeInv, Life!Closing, errors' \in BOOLEAN, errors => errors'
  PROVE  LifeInv'
  <1>1. /\ server.phase = "closing" /\ server' = server /\ open' = open
        /\ server.mode \in {"demo", "real"}
    BY DEF Life!Closing, LifeInv, Life!TypeOK
  <1>2. Life!Steps' = Life!Steps
    BY <1>1 DEF Life!Steps
  <1>3. PICK h : h = Head(cleanups)
    OBVIOUS
  <1>4. PICK rest : rest = Tail(cleanups)
    OBVIOUS
  <1>5. PICK given : given = Life!Given(h)
    OBVIOUS
  <1>6. /\ cleanups \in Seq(open) /\ cleanups # <<>> /\ Life!IsInjective(cleanups)
        /\ shut \in Seq(open) /\ Life!IsInjective(shut) /\ open \subseteq Life!Parts \cup Adapters
        /\ models \in Seq(Adapters)
    BY <1>1 DEF LifeInv, Life!TypeOK, Life!Closing, Pending, Life!EverythingIsClosed
  <1>7. /\ h \in open /\ rest \in Seq(open) /\ Life!IsInjective(rest)
        /\ Life!ToSet(cleanups) = {h} \cup Life!ToSet(rest) /\ h \notin Life!ToSet(rest)
        /\ \A i \in DOMAIN rest : i + 1 \in DOMAIN cleanups /\ i \in Nat
           /\ rest[i] = cleanups[i + 1]
        /\ 1 \in DOMAIN cleanups /\ cleanups[1] = h
    BY <1>3, <1>4, <1>6, FirstAndRest
  <1>8. shut' = Append(shut, h) /\ cleanups' = given \o rest
        /\ models' = IF h = "resolver" THEN <<>> ELSE models
    BY <1>3, <1>4, <1>5 DEF Life!Closing
  <1>9. /\ Life!ToSet(cleanups) \cap Life!ToSet(shut) = {}
        /\ \A i, j \in DOMAIN cleanups : i <= j => Place(cleanups[i]) <= Place(cleanups[j])
        /\ \A p \in Life!ToSet(cleanups) :
             Below(p) \cap (Life!ToSet(cleanups) \cup Life!ToSet(shut)) = {}
        /\ \A x \in open : x \in Life!ToSet(shut) \/ \E p \in Life!ToSet(cleanups) : x = p
           \/ x \in Below(p)
    BY <1>1 DEF LifeInv, Pending
  <1>10. /\ shut' \in Seq(open) /\ Life!ToSet(shut') = Life!ToSet(shut) \cup {h}
            /\ Life!IsInjective(shut')
         /\ \A i \in DOMAIN shut' :
              \/ i \in DOMAIN shut /\ shut'[i] = shut[i]
              \/ i = Len(shut) + 1 /\ shut'[i] = h
         /\ \A i \in DOMAIN shut : i \in DOMAIN shut' /\ shut'[i] = shut[i]
    BY <1>6, <1>7, <1>8, <1>9, OneMore
  <1>11. \A p \in Life!ToSet(rest) : Place(h) <= Place(p)
    <2>1. \A i \in DOMAIN rest : 1 <= i + 1 /\ Place(h) <= Place(rest[i])
      BY <1>7, <1>9
    <2> QED BY <2>1 DEF Life!ToSet
  (* what the part was given *)
  <1>12. /\ given \in Seq(open) /\ Life!IsInjective(given) /\ Life!ToSet(given) \subseteq Below(h)
         /\ \A x \in open \cap Below(h) : \E p \in Life!ToSet(given) : x = p \/ x \in Below(p)
         /\ \A p \in Life!ToSet(given) : Below(p) \subseteq Below(h)
            /\ Below(p) \cap Life!ToSet(given) = {}
         /\ given = <<>> \/ h \in {"conversations", "runtime", "resolver"}
         /\ \A p, q \in Life!ToSet(given) : Place(p) = Place(q)
    <2>1. CASE h = "conversations"
      <3>1. given = <<"runtime">> /\ "runtime" \in open
        BY <1>1, <1>5, <1>7, <2>1 DEF Life!Given, LifeInv, Opened
      <3>2. Life!ToSet(given) = {"runtime"} /\ Life!IsInjective(given) /\ given \in Seq(open)
            /\ \A i \in DOMAIN given : i = 1
        BY <3>1 DEF Life!ToSet, Life!IsInjective
      <3>3. Below("runtime") = {"resolver"} \cup Adapters
            /\ Below(h) = {"runtime", "resolver"} \cup Adapters /\ "runtime" \notin Adapters
        BY <2>1 DEF Below, Life!LifecycleAssumption, Life!Parts
      <3> QED BY <2>1, <3>1, <3>2, <3>3
    <2>2. CASE h = "runtime" /\ server.mode = "real"
      <3>1. given = <<"resolver">> /\ "resolver" \in open
        BY <1>1, <1>5, <1>7, <2>2 DEF Life!Given, LifeInv, Opened
      <3>2. Life!ToSet(given) = {"resolver"} /\ Life!IsInjective(given) /\ given \in Seq(open)
            /\ \A i \in DOMAIN given : i = 1
        BY <3>1 DEF Life!ToSet, Life!IsInjective
      <3>3. Below("resolver") = Adapters
            /\ Below(h) = {"resolver"} \cup Adapters /\ "resolver" \notin Adapters
        BY <2>2 DEF Below, Life!LifecycleAssumption, Life!Parts
      <3> QED BY <2>2, <3>1, <3>2, <3>3
    <2>3. CASE h = "resolver"
      <3>1. given = models /\ Below(h) = Adapters
        BY <1>5, <2>3 DEF Life!Given, Below
      <3>2. Life!ToSet(models) = open \cap Adapters /\ Life!IsInjective(models)
        BY <1>7, <1>9, <2>3 DEF LifeInv, Opened
      <3>3. \A p \in Adapters : Below(p) = {} /\ Place(p) = 5
        BY DEF Below, Place, Life!LifecycleAssumption, Life!Parts
      <3>4. models \in Seq(open) /\ \A i \in DOMAIN models : models[i] \in Adapters
        BY <1>6, <3>2 DEF Life!ToSet
      <3> QED BY <2>3, <3>1, <3>2, <3>3, <3>4
    <2>4. CASE h \notin {"conversations", "resolver"} /\ ~(h = "runtime" /\ server.mode = "real")
      <3>1. given = <<>>
        BY <1>5, <2>4 DEF Life!Given
      <3>2. Life!ToSet(given) = {} /\ Life!IsInjective(given) /\ given \in Seq(open)
            /\ DOMAIN given = {}
        BY <3>1 DEF Life!ToSet, Life!IsInjective
      <3>3. Below(h) \cap open = {}
        BY <1>1, <2>4 DEF Below, LifeInv, Opened
      <3> QED BY <3>2, <3>3
    <2> QED BY <2>1, <2>2, <2>3, <2>4
  <1>13. cleanups' \in Seq(open) /\ InOrder(cleanups', 0, 10)
         /\ Life!ToSet(cleanups') = Life!ToSet(given) \cup Life!ToSet(rest)
    <2>1. PICK row : row = given \o rest
      OBVIOUS
    <2>2. row \in Seq(open)
      BY <1>7, <1>12, <2>1
    <2>3. \A p \in open : Place(p) \in 1 .. 10 /\ (p \in Adapters => Place(p) = 5)
      BY <1>6, Places
    <2>4. \A i \in DOMAIN rest : rest[i] \in open /\ rest[i] \in Life!ToSet(rest)
      BY <1>7 DEF Life!ToSet
    <2>5. \A i, j \in DOMAIN rest : i <= j => Place(rest[i]) <= Place(rest[j])
      BY <1>7, <1>9
    <2>6. ASSUME NEW n \in 1 .. 10, \A p \in Life!ToSet(rest) : n <= Place(p)
          PROVE  InOrder(rest, n, 10)
      <3>1. rest \in Seq(Life!Parts \cup Adapters)
        BY <1>6, <1>7
      <3>2. \A i \in DOMAIN rest : Place(rest[i]) \in n .. 10
        BY <2>3, <2>4, <2>6
      <3> QED BY <1>7, <2>5, <3>1, <3>2 DEF InOrder
    <2>7. CASE given = <<>>
      <3>1. InOrder(given, 0, 0)
        BY <2>7, NothingInOrder
      <3>2. InOrder(rest, 1, 10)
        BY <2>3, <2>4, <2>6 DEF Life!ToSet
      <3> QED BY <1>8, <2>1, <2>2, <3>1, <3>2, Joined
    <2>8. CASE h \in {"conversations", "runtime", "resolver"}
      <3>1. InOrder(given, 0, 5)
        <4>1. \A i \in DOMAIN given : given[i] \in Below(h) /\ given[i] \in open
          BY <1>12 DEF Life!ToSet
        <4>2. \A p \in Below(h) \cap open : Place(p) \in 3 .. 5
          BY <2>8 DEF Below, Place, Life!LifecycleAssumption, Life!Parts
        <4>3. \A i, j \in DOMAIN given : Place(given[i]) = Place(given[j])
          BY <1>12 DEF Life!ToSet
        <4> QED BY <1>6, <1>12, <4>1, <4>2, <4>3 DEF InOrder
      <3>2. \A p \in Life!ToSet(rest) : 6 <= Place(p)
        <4>1. \A p \in Life!ToSet(rest) : p \notin Below(h) /\ p # h /\ p \in open
                                     /\ Place(h) <= Place(p)
          <5>1. Life!ToSet(rest) \subseteq open
            BY <2>4 DEF Life!ToSet
          <5>2. Below(h) \cap Life!ToSet(cleanups) = {}
            BY <1>7, <1>9
          <5> QED BY <1>7, <1>11, <5>1, <5>2
        <4> QED BY <1>6, <2>8, <4>1 DEF Below, Place, Life!LifecycleAssumption, Life!Parts
      <3>3. InOrder(rest, 6, 10)
        BY <2>6, <3>2
      <3> QED BY <1>8, <2>1, <2>2, <3>1, <3>3, Joined
    <2> QED BY <1>12, <2>7, <2>8
  <1>14. Life!TypeOK'
    BY <1>1, <1>6, <1>8, <1>10, <1>13 DEF LifeInv, Life!TypeOK
  <1>15. Starting'
    BY <1>1, <1>2 DEF LifeInv, Starting
  <1>16. Opened'
    BY <1>1, <1>6, <1>8, <1>10 DEF LifeInv, Opened, Life!IsInjective
  <1>17. Pending'
    <2>1. Life!ToSet(cleanups') \cap Life!ToSet(shut') = {}
      BY <1>7, <1>9, <1>10, <1>12, <1>13
    <2>2. \A p \in Life!ToSet(cleanups') :
            Below(p) \cap (Life!ToSet(cleanups') \cup Life!ToSet(shut')) = {}
      <3>1. \A p \in Life!ToSet(given) :
              Below(p) \cap (Life!ToSet(cleanups') \cup Life!ToSet(shut')) = {}
        BY <1>7, <1>9, <1>10, <1>12, <1>13
      <3>2. \A p \in Life!ToSet(rest) : p # h /\ p \notin Below(h) /\ h \notin Below(p)
        BY <1>7, <1>9
      <3>3. \A p \in Life!ToSet(rest) : Below(p) \cap Below(h) = {}
        BY <3>2, OneChain
      <3>4. \A p \in Life!ToSet(rest) :
              Below(p) \cap (Life!ToSet(cleanups') \cup Life!ToSet(shut')) = {}
        BY <1>7, <1>9, <1>10, <1>12, <1>13, <3>2, <3>3
      <3> QED BY <1>13, <3>1, <3>4
    <2>3. \A x \in open : x \in Life!ToSet(shut')
                          \/ \E p \in Life!ToSet(cleanups') : x = p \/ x \in Below(p)
      BY <1>7, <1>9, <1>10, <1>12, <1>13
    <2> QED BY <1>1, <1>13, <2>1, <2>2, <2>3 DEF Pending, InOrder
  <1>18. Life!EverythingIsClosed'
    <2>1. ASSUME NEW u \in Life!UsersOf(h) \cap open
          PROVE  u \in Life!ToSet(shut)
      <3>1. SUFFICES ASSUME u \notin Life!ToSet(shut) PROVE FALSE
        OBVIOUS
      <3>2. PICK p \in Life!ToSet(cleanups) : u = p \/ u \in Below(p)
        BY <1>9, <3>1
      <3>3. p \in open /\ Place(h) <= Place(p)
        <4>1. Life!ToSet(rest) \subseteq open
          BY <1>7 DEF Life!ToSet
        <4>2. p = h \/ p \in Life!ToSet(rest)
          BY <1>7
        <4>3. Place(h) <= Place(p)
          BY <1>6, <1>7, <1>11, <4>2, Places
        <4> QED BY <1>7, <4>1, <4>2, <4>3
      <3>4. Place(p) <= Place(u)
        <4>1. CASE u = p
          BY <1>6, <3>3, <4>1, Places
        <4>2. CASE u \in Below(p)
          BY <1>6, <3>3, <4>2, Later, Places
        <4> QED BY <3>2, <4>1, <4>2
      <3>5. Place(u) < Place(h)
        BY <1>6, <1>7, <2>1, Later
      <3> QED BY <1>6, <1>7, <3>3, <3>4, <3>5, Places
    <2>2. \A u \in Life!ToSet(shut) : \E j \in 1 .. Len(shut) : shut'[j] = u
      BY <1>6, <1>10 DEF Life!ToSet
    <2>3. Life!UsersOf(h)' = Life!UsersOf(h) /\ Len(shut) \in Nat /\ DOMAIN shut = 1 .. Len(shut)
      BY <1>6 DEF Life!UsersOf
    <2>4. \A i \in DOMAIN shut :
            Life!UsersOf(shut[i]) \cap open \subseteq {shut[j] : j \in 1 .. i - 1}
      BY DEF LifeInv, Life!EverythingIsClosed
    <2>5. \A i \in DOMAIN shut' :
            Life!UsersOf(shut'[i]) \cap open' \subseteq {shut'[j] : j \in 1 .. i - 1}
      <3>1. ASSUME NEW i \in DOMAIN shut', i \in DOMAIN shut
            PROVE  Life!UsersOf(shut'[i]) \cap open \subseteq {shut'[j] : j \in 1 .. i - 1}
        <4>1. \A j \in 1 .. i - 1 : shut'[j] = shut[j]
          BY <1>10, <2>3, <3>1
        <4> QED BY <1>10, <2>4, <3>1, <4>1
      <3>2. ASSUME NEW i \in DOMAIN shut', i = Len(shut) + 1, shut'[i] = h
            PROVE  Life!UsersOf(shut'[i]) \cap open \subseteq {shut'[j] : j \in 1 .. i - 1}
        <4>1. i - 1 = Len(shut)
          BY <2>3, <3>2
        <4> QED BY <2>1, <2>2, <3>2, <4>1
      <3> QED BY <1>1, <1>10, <3>1, <3>2
    <2> QED BY <1>1, <1>10, <2>5 DEF Life!EverythingIsClosed
  <1> QED BY <1>14, <1>15, <1>16, <1>17, <1>18 DEF LifeInv

LEMMA LifeStep ==
  ASSUME Life!LifecycleAssumption, LifeInv, [Life!Next]_Life!vars
  PROVE  LifeInv'
  <1>1. CASE Life!StepDone
    BY <1>1, StepDoneKeeps
  <1>2. CASE Life!StepRaises
    BY <1>2, BeginsToClose DEF Life!StepRaises
  <1>3. CASE \E a \in Adapters : Life!Resolves(a)
    <2>1. PICK a \in Adapters : Life!Resolves(a)
      BY <1>3
    <2>2. /\ server.phase = "serving" /\ "resolver" \in open /\ a \notin Life!ToSet(models)
          /\ models' = Append(models, a) /\ open' = open \cup {a}
          /\ UNCHANGED <<server, cleanups, shut, errors>>
      BY <2>1 DEF Life!Resolves
    <2>3. shut = <<>> /\ cleanups = <<>> /\ Life!ToSet(shut) = {}
      BY <2>2 DEF LifeInv, Starting, Life!ToSet
    <2>4. models \in Seq(Adapters) /\ Life!IsInjective(models)
          /\ Life!ToSet(models) = open \cap Adapters
      BY <2>2, <2>3 DEF LifeInv, Life!TypeOK, Opened
    <2>5. models' \in Seq(Adapters) /\ Life!IsInjective(models')
          /\ Life!ToSet(models') = Life!ToSet(models) \cup {a}
      BY <2>2, <2>4, OneMore
    <2>6. Life!TypeOK'
      BY <2>2, <2>3, <2>5 DEF LifeInv, Life!TypeOK
    <2>7. Starting'
      BY <2>2, <2>3 DEF LifeInv, Starting, Life!Steps
    <2>8. a \notin {"conversations", "runtime", "resolver"}
      BY DEF Life!LifecycleAssumption, Life!Parts
    <2>9. Opened'
      BY <2>2, <2>3, <2>4, <2>5, <2>8 DEF LifeInv, Opened
    <2>10. Pending' /\ Life!EverythingIsClosed'
      BY <2>2, <2>3 DEF LifeInv, Pending, Life!EverythingIsClosed
    <2> QED BY <2>6, <2>7, <2>9, <2>10 DEF LifeInv
  <1>4. CASE Life!ApiStops
    BY <1>4, BeginsToClose DEF Life!ApiStops, LifeInv, Starting, Life!TypeOK
  <1>5. CASE Life!PoolEnds
    BY <1>5, BeginsToClose DEF Life!PoolEnds, LifeInv, Starting, Life!TypeOK
  <1>6. CASE Life!Closes
    BY <1>6, ClosingKeeps DEF Life!Closes, LifeInv, Life!TypeOK
  <1>7. CASE Life!CloseRaises
    BY <1>7, ClosingKeeps DEF Life!CloseRaises
  <1>8. CASE Life!Ends
    <2>1. UNCHANGED <<open, models, cleanups, shut, errors>> /\ cleanups = <<>>
          /\ server.phase = "closing"
      BY <1>8 DEF Life!Ends
    <2>2. /\ server'.kind = server.kind /\ server'.mode = server.mode
          /\ server'.step = server.step /\ server'.phase = "ended"
          /\ server' \in [kind : {"api", "worker"}, mode : {"demo", "real"},
                          phase : {"starting", "serving", "closing", "ended"}, step : 0 .. 12]
      BY <1>8 DEF LifeInv, Life!TypeOK, Life!Does, Life!Ends
    <2>3. Life!ToSet(cleanups) = {}
      BY <2>1 DEF Life!ToSet
    <2>4. Life!ToSet(shut) = open
      <3>1. Life!ToSet(shut) \subseteq open
        BY DEF LifeInv, Life!TypeOK, Life!ToSet
      <3> QED BY <2>1, <2>3, <3>1 DEF LifeInv, Pending
    <2>5. Life!Steps' = Life!Steps
      BY <2>2 DEF Life!Steps
    <2>6. Life!TypeOK'
      BY <2>1, <2>2 DEF LifeInv, Life!TypeOK
    <2>7. Starting' /\ Pending'
      BY <2>2 DEF Starting, Pending
    <2>8. Opened'
      BY <2>1, <2>2 DEF LifeInv, Opened
    <2>9. Life!EverythingIsClosed'
      BY <2>1, <2>2, <2>4, <2>5 DEF LifeInv, Starting, Life!EverythingIsClosed, Life!UsersOf
    <2> QED BY <2>6, <2>7, <2>8, <2>9 DEF LifeInv
  <1>9. CASE UNCHANGED Life!vars
    BY <1>9 DEF Life!vars, LifeInv, Life!TypeOK, Starting, Opened, Pending,
       Life!EverythingIsClosed, Life!Steps
  <1> QED BY <1>1, <1>2, <1>3, <1>4, <1>5, <1>6, <1>7, <1>8, <1>9 DEF Life!Next

-----------------------------------------------------------------------------
(* AuthSessions: what is stored of sessions and of failed attempts *)

Requested ==
  [op : Access!Ops, phase : Access!Phases, user : Users, password : Nat, at : Nat, weak : BOOLEAN]
Attempted == [count : Nat, started : Nat, until : Nat, updated : Nat]

AccessTyped ==
  /\ access \in [Logins -> Requested] /\ clock \in Nat
  /\ codes \in [Users -> SUBSET Codes]

AccountsTyped ==
  /\ DOMAIN account = Users
  /\ \A u \in Users : /\ DOMAIN account[u] = {"exists", "owner", "password", "weak"}
                      /\ account[u].weak \in BOOLEAN

(* Every session that is not revoked was stored after its account's last reset, even one
   whose time is up *)
UnrevokedIsRecent ==
  \A t \in DOMAIN session : ~session[t].revoked =>
    session[t].resets = Access!Consumed(session[t].user)

SessionsTyped ==
  \A t \in DOMAIN session :
    /\ session[t].user \in Users
    /\ DOMAIN session[t] = {"user", "created", "idle", "absolute", "revoked", "resets"}

AttemptsTyped == \A k \in DOMAIN attempt : attempt[k] \in Attempted

AccessInv ==
  AccessTyped /\ AccountsTyped /\ SessionsTyped /\ UnrevokedIsRecent /\ AttemptsTyped
  /\ Access!LockedAtLimit

LEMMA IdleTyped ==
  ASSUME Access!AuthSessionsAssumption
  PROVE  Access!IdleRequest \in Requested
  <1>1. (CHOOSE u \in Users : TRUE) \in Users
    BY DEF Access!AuthSessionsAssumption
  <1> QED BY <1>1 DEF Access!IdleRequest, Requested, Access!Ops, Access!Phases

LEMMA AccessInit ==
  ASSUME Access!AuthSessionsAssumption, Access!Init
  PROVE  AccessInv
  <1>1. AccessTyped
    BY IdleTyped DEF Access!Init, AccessTyped
  <1>5. AccountsTyped
    BY DEF Access!Init, AccountsTyped, Access!NoAccount
  <1>2. SessionsTyped /\ UnrevokedIsRecent
    BY DEF Access!Init, Access!NoSessions, SessionsTyped, UnrevokedIsRecent
  <1>3. \A k \in DOMAIN attempt : attempt[k] = Access!FirstFailure(0)
    BY DEF Access!Init, Access!NoAttempts
  <1>4. AttemptsTyped /\ Access!LockedAtLimit
    BY <1>3 DEF AttemptsTyped, Access!LockedAtLimit, Access!FirstFailure, Attempted,
       Access!AuthSessionsAssumption
  <1> QED BY <1>1, <1>2, <1>4, <1>5 DEF AccessInv

(* A request that goes on remains one *)
LEMMA GoesOn ==
  ASSUME Access!AuthSessionsAssumption, AccessTyped, NEW r \in Logins,
         NEW phase \in Access!Phases,
         Access!Goes(r, phase)
  PROVE  access' \in [Logins -> Requested]
  <1>1. access[r] \in Requested
    BY DEF AccessTyped
  <1>2. Access!Then(access[r], phase) \in Requested
    BY <1>1, IdleTyped DEF Access!Then, Requested, Access!Phases
  <1> QED BY <1>2 DEF Access!Goes, AccessTyped

(* A failure is counted, and locks its key when it is the last allowed *)
LEMMA CountedRow ==
  ASSUME Access!AuthSessionsAssumption, NEW row \in Attempted, NEW moment \in Nat
  PROVE  /\ Access!CountedFailure(row, moment) \in Attempted
         /\ Access!CountedFailure(row, moment).until > 0
              <=> Access!CountedFailure(row, moment).count >= LoginAttempts
  <1>1. PICK next : next = IF row.started + Window <= moment THEN 1 ELSE row.count + 1
    OBVIOUS
  <1>2. next \in Nat /\ (row.started + Window <= moment => next = 1)
    BY <1>1 DEF Attempted
  <1>3. /\ Access!CountedFailure(row, moment).count = next
        /\ Access!CountedFailure(row, moment).until
             = IF next >= LoginAttempts THEN moment + Window ELSE 0
    BY <1>1, <1>2 DEF Access!CountedFailure, Access!Counted, Access!AuthSessionsAssumption
  <1>4. Access!CountedFailure(row, moment) \in Attempted
    BY <1>1, <1>2 DEF Access!CountedFailure, Access!Counted, Attempted,
       Access!AuthSessionsAssumption
  <1> QED BY <1>2, <1>3, <1>4 DEF Access!AuthSessionsAssumption

LEMMA RecordKeeps ==
  ASSUME Access!AuthSessionsAssumption, AttemptsTyped, Access!LockedAtLimit, NEW keys,
         NEW moment \in Nat,
         Access!RecordLoginFailure(keys, moment)
  PROVE  AttemptsTyped' /\ Access!LockedAtLimit'
  <1> DEFINE old == {k \in DOMAIN attempt : Access!Stale(attempt[k], moment)}
             fresh == Access!Without(attempt, old)
             Right(row) == row \in Attempted /\ (row.until > 0 <=> row.count >= LoginAttempts)
  <1>1. \A k \in DOMAIN fresh : k \in DOMAIN attempt /\ fresh[k] = attempt[k]
    BY DEF Access!Without
  <1>2. \A k \in DOMAIN fresh : Right(fresh[k])
    BY <1>1 DEF AttemptsTyped, Access!LockedAtLimit
  <1>3. Right(Access!FirstFailure(moment))
    BY DEF Access!FirstFailure, Attempted, Access!AuthSessionsAssumption
  <1>4. ASSUME NEW k PROVE Right(Access!FailureRow(fresh, k, moment))
    BY <1>2, <1>3, CountedRow DEF Access!FailureRow, AttemptsTyped, Access!LockedAtLimit
  <1>5. PICK counts :
          counts = Access!With(fresh, keys, LAMBDA k : Access!FailureRow(fresh, k, moment))
    OBVIOUS
  <1>6. \A k \in DOMAIN counts : Right(counts[k])
    BY <1>2, <1>4, <1>5 DEF Access!With
  <1>7. attempt' \in {counts, attempt}
    BY <1>5 DEF Access!RecordLoginFailure
  <1> QED BY <1>6, <1>7 DEF AttemptsTyped, Access!LockedAtLimit

(* The sessions and codes that the invariant is about *)
LEMMA SessionsStay ==
  ASSUME SessionsTyped, UnrevokedIsRecent, UNCHANGED <<session, codes>>
  PROVE  SessionsTyped' /\ UnrevokedIsRecent'
  BY DEF SessionsTyped, UnrevokedIsRecent, Access!Consumed

LEMMA AttemptsStay ==
  ASSUME AttemptsTyped, Access!LockedAtLimit, UNCHANGED attempt
  PROVE  AttemptsTyped' /\ Access!LockedAtLimit'
  BY DEF AttemptsTyped, Access!LockedAtLimit

LEMMA AccountsStay ==
  ASSUME AccountsTyped, UNCHANGED account
  PROVE  AccountsTyped'
  BY DEF AccountsTyped

LEMMA AccessKept ==
  ASSUME Access!AuthSessionsAssumption, AccessInv, [Access!Next]_Access!vars
  PROVE  AccessInv'
  <1> USE DEF AccessInv
  <1>1. ASSUME NEW r \in Logins, NEW op \in Access!Ops, NEW u \in Users, NEW p \in Nat,
               Access!Arrives(r, op, u, p)
        PROVE  AccessInv'
    <2>1. [op |-> op, user |-> u, password |-> p, at |-> clock, weak |-> FALSE,
           phase |-> IF op \in {"login", "reset"} THEN "check" ELSE "create"] \in Requested
      BY DEF Requested, Access!Phases, AccessTyped
    <2>2. AccessTyped'
      BY <1>1, <2>1 DEF Access!Arrives, AccessTyped
    <2> QED BY <1>1, <2>2, AccountsStay, SessionsStay, AttemptsStay DEF Access!Arrives
  <1>2. ASSUME NEW r \in Logins, Access!Login(r) \/ Access!ResetRequest(r)
               \/ Access!RegisterOwner(r)
                                   \/ Access!ProvisionMember(r)
        PROVE  AccessInv'
    <2>1. Access!Passwords \subseteq Nat /\ 0 \in Nat
      BY DEF Access!Passwords
    <2> QED BY <1>1, <1>2, <2>1 DEF Access!Login, Access!ResetRequest, Access!RegisterOwner,
       Access!ProvisionMember, Access!Ops
  <1>3. ASSUME NEW r \in Logins, NEW phase \in Access!Phases, Access!Goes(r, phase),
               UNCHANGED <<codes, session, attempt, clock>>, AccountsTyped'
        PROVE  AccessInv'
    <2>1. AccessTyped'
      BY <1>3, GoesOn DEF AccessTyped
    <2> QED BY <1>3, <2>1, SessionsStay, AttemptsStay
  <1>4. ASSUME NEW r \in Logins,
               Access!ChecksAttempts(r) \/ Access!ResetRefused(r) \/ Access!ResetFails(r)
               \/ Access!RequestLost(r)
        PROVE  AccessInv'
    BY <1>3, <1>4, AccountsStay DEF Access!ChecksAttempts, Access!ResetRefused,
       Access!ResetFails, Access!RequestLost, Access!AtPhase,
       Access!Phases
  <1>5. ASSUME NEW r \in Logins, Access!Verifies(r)
        PROVE  AccessInv'
    <2>1. UNCHANGED <<account, codes, session, attempt, clock>>
      BY <1>5 DEF Access!Verifies, Access!AtPhase
    <2>2. access[r].user \in Users
      BY DEF AccessTyped, Requested
    <2>3. PICK weak \in BOOLEAN, phase \in Access!Phases :
            access' = [access EXCEPT ![r].weak = weak, ![r].phase = phase]
      BY <1>5, <2>2 DEF Access!Verifies, AccountsTyped, Access!Phases
    <2>4. AccessTyped'
      BY <2>1, <2>3 DEF AccessTyped, Requested
    <2> QED BY <2>1, <2>4, AccountsStay, SessionsStay, AttemptsStay
  <1>6. ASSUME NEW r \in Logins, Access!RecordsFailure(r)
        PROVE  AccessInv'
    <2>1. AccessTyped'
      BY <1>6, GoesOn DEF Access!RecordsFailure, Access!AtPhase, Access!Phases, AccessTyped
    <2>2. access[r].at \in Nat
      BY DEF AccessTyped, Requested
    <2>3. AttemptsTyped' /\ Access!LockedAtLimit'
      BY <1>6, <2>2, RecordKeeps DEF Access!RecordsFailure
    <2> QED BY <1>6, <2>1, <2>3, AccountsStay, SessionsStay DEF Access!RecordsFailure
  <1>7. ASSUME NEW r \in Logins, Access!ClearsFailures(r)
        PROVE  AccessInv'
    <2>1. AccessTyped'
      BY <1>7, GoesOn DEF Access!ClearsFailures, Access!AtPhase, Access!Phases, AccessTyped
    <2>2. \A k \in DOMAIN attempt' : k \in DOMAIN attempt /\ attempt'[k] = attempt[k]
      BY <1>7 DEF Access!ClearsFailures, Access!Without
    <2>3. AttemptsTyped' /\ Access!LockedAtLimit'
      BY <2>2 DEF AttemptsTyped, Access!LockedAtLimit
    <2> QED BY <1>7, <2>1, <2>3, AccountsStay, SessionsStay DEF Access!ClearsFailures
  <1>8. ASSUME NEW r \in Logins, Access!ReplacesHash(r)
        PROVE  AccessInv'
    <2>1. AccountsTyped'
      BY <1>8 DEF Access!ReplacesHash, AccountsTyped
    <2> QED BY <1>3, <1>8, <2>1 DEF Access!ReplacesHash, Access!AtPhase, Access!Phases
  <1>9. ASSUME NEW r \in Logins, Access!CreatesAccount(r)
        PROVE  AccessInv'
    <2>1. PICK owning : owning = (access[r].op = "register")
      OBVIOUS
    <2>2. account' \in {account, [account EXCEPT ![access[r].user] =
                                    [Access!NoAccount EXCEPT !.exists = TRUE, !.owner = owning]]}
      BY <1>9, <2>1 DEF Access!CreatesAccount
    <2>3. AccountsTyped'
      BY <2>2 DEF AccountsTyped, Access!NoAccount
    <2> QED BY <1>3, <1>9, <2>3 DEF Access!CreatesAccount, Access!AtPhase, Access!Phases
  <1>10. ASSUME NEW r \in Logins, Access!IssuesSession(r)
         PROVE  AccessInv'
    <2>1. AccessTyped'
      BY <1>10, GoesOn DEF Access!IssuesSession, Access!AtPhase, Access!Phases, AccessTyped
    <2>2. PICK row : row = [user |-> access[r].user, created |-> access[r].at,
                            idle |-> access[r].at + SessionIdle,
                            absolute |-> access[r].at + Absolute,
                            revoked |-> FALSE, resets |-> Access!Consumed(access[r].user)]
      OBVIOUS
    <2>3. session' = [t \in DOMAIN session \cup {r} |-> IF t = r THEN row ELSE session[t]]
      BY <1>10, <2>2 DEF Access!IssuesSession, Access!With
    <2>4. row.user \in Users /\ row.resets = Access!Consumed(row.user)
          /\ DOMAIN row = {"user", "created", "idle", "absolute", "revoked", "resets"}
      BY <2>2 DEF AccessTyped, Requested
    <2>5. \A u : Access!Consumed(u)' = Access!Consumed(u)
      BY <1>10 DEF Access!IssuesSession, Access!Consumed
    <2>6. SessionsTyped' /\ UnrevokedIsRecent'
      BY <2>3, <2>4, <2>5 DEF SessionsTyped, UnrevokedIsRecent
    <2> QED BY <1>10, <2>1, <2>6, AccountsStay, AttemptsStay DEF Access!IssuesSession
  <1>11. ASSUME NEW r \in Logins, Access!ResetsPassword(r)
         PROVE  AccessInv'
    <2>1. PICK u : u = access[r].user
      OBVIOUS
    <2>2. u \in Users
      BY <2>1 DEF AccessTyped, Requested
    <2>3. access' \in [Logins -> Requested]
      BY <1>11, GoesOn DEF Access!ResetsPassword, Access!Phases
    <2>4. PICK c : codes' = [codes EXCEPT ![u] = @ \ {c}]
      BY <1>11, <2>1 DEF Access!ResetsPassword
    <2>5. AccessTyped'
      BY <1>11, <2>3, <2>4 DEF Access!ResetsPassword, Access!AtPhase, AccessTyped
    <2>6. PICK password : account' = [account EXCEPT ![u].password = password, ![u].weak = FALSE]
      BY <1>11, <2>1 DEF Access!ResetsPassword
    <2>7. AccountsTyped'
      BY <2>6 DEF AccountsTyped
    <2>8. session' = [t \in DOMAIN session |->
                        [session[t] EXCEPT !.revoked = @ \/ session[t].user = u]]
      BY <1>11, <2>1 DEF Access!ResetsPassword, Access!RevokedSessions
    <2>9. \A t \in DOMAIN session : session'[t].user = session[t].user
            /\ session'[t].resets = session[t].resets
            /\ DOMAIN session'[t] = DOMAIN session[t]
            /\ (~session'[t].revoked => ~session[t].revoked /\ session[t].user # u)
      BY <2>8 DEF SessionsTyped
    <2>10. \A v \in Users \ {u} : Access!Consumed(v)' = Access!Consumed(v)
      BY <2>4 DEF Access!Consumed, AccessTyped
    <2>11. DOMAIN session' = DOMAIN session
      BY <2>8
    <2>12. SessionsTyped' /\ UnrevokedIsRecent'
      BY <2>9, <2>10, <2>11 DEF SessionsTyped, UnrevokedIsRecent
    <2> QED BY <1>11, <2>5, <2>7, <2>12, AttemptsStay DEF Access!ResetsPassword
  <1>12. ASSUME NEW t, Access!FindActiveSession(t) \/ Access!RevokeSession(t)
         PROVE  AccessInv'
    <2>1. UNCHANGED <<account, codes, attempt, access, clock>> /\ DOMAIN session' = DOMAIN session
      BY <1>12 DEF Access!FindActiveSession, Access!RevokeSession
    <2>2. ASSUME NEW s \in DOMAIN session
          PROVE  /\ session'[s].user = session[s].user /\ session'[s].resets = session[s].resets
                 /\ DOMAIN session'[s] = DOMAIN session[s]
                 /\ ~session'[s].revoked => ~session[s].revoked
      <3>1. CASE s # t
        BY <1>12, <3>1 DEF Access!FindActiveSession, Access!RevokeSession
      <3>2. CASE s = t /\ Access!FindActiveSession(t) /\ Access!Active(t)
        <4>1. PICK idle : session' = [session EXCEPT ![t] = [@ EXCEPT !.idle = idle]]
          BY <3>2 DEF Access!FindActiveSession
        <4> QED BY <3>2, <4>1 DEF SessionsTyped
      <3>3. CASE s = t /\ session' = [session EXCEPT ![t] = [@ EXCEPT !.revoked = TRUE]]
        BY <3>3 DEF SessionsTyped
      <3>4. CASE s = t /\ Access!RevokeSession(t)
        BY <3>4 DEF Access!RevokeSession, SessionsTyped
      <3> QED BY <1>12, <3>1, <3>2, <3>3, <3>4 DEF Access!FindActiveSession
    <2>3. \A u : Access!Consumed(u)' = Access!Consumed(u)
      BY <2>1 DEF Access!Consumed
    <2>4. SessionsTyped' /\ UnrevokedIsRecent'
      BY <2>1, <2>2, <2>3 DEF SessionsTyped, UnrevokedIsRecent
    <2>5. AccessTyped'
      BY <2>1 DEF AccessTyped
    <2> QED BY <2>1, <2>4, <2>5, AccountsStay, AttemptsStay
  <1>13. ASSUME Access!Tick PROVE AccessInv'
    <2>1. AccessTyped'
      BY <1>13 DEF Access!Tick, AccessTyped
    <2> QED BY <1>13, <2>1, AccountsStay, SessionsStay, AttemptsStay DEF Access!Tick
  <1>14. ASSUME UNCHANGED Access!vars PROVE AccessInv'
    <2>1. AccessTyped'
      BY <1>14 DEF Access!vars, AccessTyped
    <2> QED BY <1>14, <2>1, AccountsStay, SessionsStay, AttemptsStay DEF Access!vars
  <1>15. ASSUME NEW r \in Logins, Access!RequestStep(r) PROVE AccessInv'
    BY <1>2, <1>4, <1>5, <1>6, <1>7, <1>8, <1>9, <1>10, <1>11, <1>15 DEF Access!RequestStep
  <1> QED BY <1>12, <1>13, <1>14, <1>15 DEF Access!Next

LEMMA AccessFollows ==
  ASSUME AccessInv
  PROVE  Access!SessionsOutliveNoReset /\ Access!LockedAtLimit
  BY DEF AccessInv, UnrevokedIsRecent, Access!SessionsOutliveNoReset, Access!Active

-----------------------------------------------------------------------------
(* AuditTrail: every head is the digest of its rows, and an append grows one chain *)

RequestState == [phase : Audit!Phases, planned : BOOLEAN, at : {"lock", "create"}, tries : 0 .. 2,
            scope : Audit!Scopes, outcome : Audit!Outcomes]
AuditEvent == [request : AuditRequests, outcome : Audit!Outcomes, previous : Seq(Audit!AuditEntry)]

(* A head and the rows it is the head of *)
ChainRight(h, table) ==
  /\ h \in [exists : BOOLEAN, count : Nat, last : Seq(Audit!AuditEntry)]
     /\ table \in Seq(AuditEvent)
  /\ h.exists <=> table # <<>>
  /\ Audit!Unbroken(table) /\ Audit!HeadMatches(h, table)

AuditTyped ==
  /\ audited \in [AuditRequests -> RequestState] /\ auditFaults \in Nat
  /\ performed \subseteq AuditRequests
  /\ head \in [Audit!Scopes -> [exists : BOOLEAN, count : Nat, last : Seq(Audit!AuditEntry)]]
  /\ events \in [Audit!Scopes -> Seq(AuditEvent)]

ChainsRight == \A s \in Audit!Scopes : ChainRight(head[s], events[s])

CheckRight ==
  /\ verifier.verified
  /\ verifier.phase = "rows" => ChainRight(verifier.head, verifier.rows)

Begun(r) == [request |-> r, outcome |-> "started"] \in Audit!ToSet(head[PlatformScope].last)
Completed(r) ==
  \/ head[MemberOf[r].tenant].count >= Capacity
  \/ \E o \in {"succeeded", "failed"} :
       [request |-> r, outcome |-> o] \in Audit!ToSet(head[MemberOf[r].tenant].last)

(* What is planned goes on when its start is recorded, and is recorded again when it has
   ended, unless an append fails *)
RequestRecorded(r) ==
  /\ audited[r].phase = "intent" =>
       audited[r].scope = PlatformScope /\ audited[r].outcome = "started" /\ audited[r].planned
  /\ audited[r].phase \in {"run", "completion"} /\ audited[r].planned => Begun(r)
  /\ r \in performed =>
       /\ audited[r].planned /\ audited[r].phase \in {"completion", "done"} /\ Begun(r)
       /\ audited[r].phase = "completion" =>
            /\ audited[r].scope = MemberOf[r].tenant
            /\ audited[r].outcome \in {"succeeded", "failed"}
       /\ audited[r].phase = "done" /\ auditFaults = 0 => Completed(r)

(* Who collided finds the head at the next try *)
FindsHead(r) ==
  audited[r].phase \in {"intent", "completion"} =>
    audited[r].tries = 0
    \/ (audited[r].tries = 1 /\ audited[r].at = "lock" /\ head[audited[r].scope].exists)

(* The next page begins below the last sequence shown *)
ReaderRight ==
  /\ reader.cursor \in Nat /\ reader.seen \in Seq(Nat)
  /\ reader.phase = "idle" => reader.cursor = 0 /\ reader.seen = <<>>
  /\ reader.phase = "more" =>
       /\ reader.scope \in Audit!Scopes
       /\ reader.cursor > 1 /\ reader.cursor <= Len(events[reader.scope])
       /\ reader.seen # <<>> /\ reader.seen[Len(reader.seen)] = reader.cursor
  /\ Audit!PagesAreWhole

AuditInv ==
  /\ AuditTyped /\ ChainsRight /\ CheckRight
  /\ \A r \in AuditRequests : RequestRecorded(r) /\ FindsHead(r)
  /\ ReaderRight

LEMMA AuditIdle == Audit!IdleRequest \in RequestState
/\ Audit!NoHead \in [exists : BOOLEAN, count : Nat, last : Seq(Audit!AuditEntry)]
  <1>1. <<>> \in Seq(Audit!AuditEntry)
    OBVIOUS
  <1> QED BY <1>1 DEF Audit!IdleRequest, RequestState, Audit!Phases, Audit!Scopes,
     Audit!Outcomes, Audit!NoHead, Audit!Genesis

LEMMA AuditInit ==
  ASSUME Audit!AuditTrailAssumption, Audit!Init
  PROVE  AuditInv
  <1>1. \A S : <<>> \in Seq(S) /\ Len(<<>>) = 0 /\ DOMAIN <<>> = {}
    OBVIOUS
  <1>2. AuditTyped
    BY <1>1, AuditIdle DEF Audit!Init, AuditTyped
  <1>3. ChainRight(Audit!NoHead, <<>>)
    BY <1>1, AuditIdle DEF ChainRight, Audit!NoHead, Audit!Unbroken, Audit!HeadMatches,
       Audit!LastHash
  <1>4. ChainsRight /\ CheckRight
    BY <1>3 DEF Audit!Init, ChainsRight, CheckRight, Audit!NoCheck
  <1>5. \A r \in AuditRequests : RequestRecorded(r) /\ FindsHead(r)
    BY DEF Audit!Init, RequestRecorded, FindsHead, Audit!IdleRequest
  <1>6. ReaderRight
    BY <1>1 DEF Audit!Init, ReaderRight, Audit!NoReader, Audit!PagesAreWhole
  <1> QED BY <1>2, <1>4, <1>5, <1>6 DEF AuditInv

-----------------------------------------------------------------------------
LEMMA ChainGrows ==
  ASSUME NEW h, NEW table, ChainRight(h, table), NEW entry \in Audit!AuditEntry
  PROVE  /\ ChainRight(Audit!Appended(h, entry), Append(table, Audit!NewEvent(h, entry)))
         /\ Audit!ToSet(Audit!Appended(h, entry).last) = Audit!ToSet(h.last) \cup {entry}
         /\ Audit!Appended(h, entry).exists /\ Audit!Appended(h, entry).count > h.count
  <1>1. PICK e : e = Audit!NewEvent(h, entry)
    OBVIOUS
  <1>2. e \in AuditEvent /\ e.previous = h.last
        /\ [request |-> e.request, outcome |-> e.outcome] = entry
    BY <1>1 DEF Audit!NewEvent, AuditEvent, Audit!AuditEntry, ChainRight
  <1>3. PICK new : new = Append(table, e)
    OBVIOUS
  <1>4. /\ new \in Seq(AuditEvent) /\ Len(new) = Len(table) + 1 /\ Len(table) \in Nat
        /\ DOMAIN new = 1 .. Len(table) + 1 /\ DOMAIN table = 1 .. Len(table)
        /\ new[Len(table) + 1] = e /\ \A i \in 1 .. Len(table) : new[i] = table[i]
        /\ new # <<>>
    BY <1>2, <1>3 DEF ChainRight
  <1>5. Audit!LastHash(table) = IF Len(table)
          = 0 THEN Audit!Genesis ELSE Audit!EventHash(table[Len(table)])
    BY DEF Audit!LastHash, Audit!Last, ChainRight
  <1>6. Audit!Unbroken(new)
    <2>1. ASSUME NEW i \in 1 .. Len(table) + 1
          PROVE  new[i].previous = (IF i = 1 THEN Audit!Genesis ELSE Audit!EventHash(new[i - 1]))
      <3>1. CASE i \in 1 .. Len(table)
        <4>1. i \in DOMAIN table /\ new[i] = table[i]
          BY <1>4, <3>1
        <4>2. i # 1 => new[i - 1] = table[i - 1]
          BY <1>4, <3>1
        <4> QED BY <4>1, <4>2 DEF ChainRight, Audit!Unbroken
      <3>2. CASE i = Len(table) + 1
        <4>1. new[i].previous = Audit!LastHash(table)
          BY <1>2, <1>4, <3>2 DEF ChainRight, Audit!HeadMatches
        <4>2. i = 1 <=> Len(table) = 0
          BY <1>4, <3>2
        <4>3. Len(table) # 0 => new[i - 1] = table[Len(table)]
          BY <1>4, <3>2
        <4> QED BY <1>5, <4>1, <4>2, <4>3
      <3> QED BY <1>4, <3>1, <3>2
    <2> QED BY <1>4, <2>1 DEF Audit!Unbroken
  <1>7. PICK last : last = Append(h.last, entry)
    OBVIOUS
  <1>8. last \in Seq(Audit!AuditEntry) /\ Audit!ToSet(last) = Audit!ToSet(h.last) \cup {entry}
    <2>1. /\ Len(h.last) \in Nat /\ DOMAIN last = 1 .. Len(h.last) + 1
             /\ DOMAIN h.last = 1 .. Len(h.last)
          /\ last[Len(h.last) + 1] = entry /\ \A i \in 1 .. Len(h.last) : last[i] = h.last[i]
          /\ last \in Seq(Audit!AuditEntry)
      BY <1>7 DEF ChainRight
    <2>2. /\ \A i \in DOMAIN last : i \in DOMAIN h.last \/ i = Len(h.last) + 1
          /\ \A i \in DOMAIN h.last : i \in DOMAIN last
          /\ Len(h.last) + 1 \in DOMAIN last
      BY <2>1
    <2> QED BY <2>1, <2>2 DEF Audit!ToSet
  <1>9. Audit!HeadMatches(Audit!Appended(h, entry), new)
    <2>1. Audit!LastHash(new) = Audit!EventHash(e)
      BY <1>4 DEF Audit!LastHash, Audit!Last
    <2>2. Audit!EventHash(e) = last
      BY <1>2, <1>7 DEF Audit!EventHash
    <2> QED BY <1>4, <1>7, <2>1, <2>2 DEF Audit!HeadMatches, Audit!Appended, ChainRight
  <1>10. Audit!Appended(h, entry) = [exists |-> TRUE, count |-> h.count + 1, last |-> last]
         /\ h.count \in Nat
    BY <1>7 DEF Audit!Appended, ChainRight
  <1> QED BY <1>1, <1>3, <1>4, <1>6, <1>8, <1>9, <1>10 DEF ChainRight

-----------------------------------------------------------------------------
(* What the steps of one request leave as it was for the others *)
HeadsGrow ==
  \A s \in Audit!Scopes :
    /\ Audit!ToSet(head[s].last) \subseteq Audit!ToSet(head'[s].last)
    /\ head[s].count \in Nat /\ head'[s].count \in Nat /\ head[s].count <= head'[s].count
    /\ head[s].exists => head'[s].exists

LEMMA RecordsStay ==
  ASSUME Audit!AuditTrailAssumption, HeadsGrow, NEW r \in AuditRequests
  PROVE  (Begun(r) => Begun(r)') /\ (Completed(r) => Completed(r)')
  <1>1. PlatformScope \in Audit!Scopes /\ MemberOf[r].tenant \in Audit!Scopes
    BY DEF Audit!AuditTrailAssumption, Audit!Scopes
  <1>2. Begun(r) => Begun(r)'
    BY <1>1 DEF HeadsGrow, Begun
  <1>3. head[MemberOf[r].tenant].count >= Capacity => head'[MemberOf[r].tenant].count >= Capacity
    BY <1>1 DEF HeadsGrow, Audit!AuditTrailAssumption
  <1>4. \A o : [request |-> r, outcome |-> o] \in Audit!ToSet(head[MemberOf[r].tenant].last)
                 => [request |-> r, outcome |-> o] \in Audit!ToSet(head'[MemberOf[r].tenant].last)
    BY <1>1 DEF HeadsGrow
  <1> QED BY <1>2, <1>3, <1>4 DEF Completed

LEMMA OthersKept ==
  ASSUME Audit!AuditTrailAssumption, AuditInv, HeadsGrow, NEW s \in AuditRequests,
         audited'[s] = audited[s], s \in performed' <=> s \in performed,
         auditFaults' \in Nat, auditFaults <= auditFaults'
  PROVE  RequestRecorded(s)' /\ FindsHead(s)'
  <1>1. auditFaults' = 0 => auditFaults = 0
    BY DEF AuditInv, AuditTyped
  <1>2. audited[s].scope \in Audit!Scopes
    BY DEF AuditInv, AuditTyped, RequestState
  <1>3. FindsHead(s)'
    BY <1>2 DEF AuditInv, FindsHead, HeadsGrow
  <1> QED BY <1>1, <1>3, RecordsStay DEF AuditInv, RequestRecorded

LEMMA HeadsStay ==
  ASSUME AuditInv, head' = head
  PROVE  HeadsGrow
  BY DEF HeadsGrow, AuditInv, AuditTyped

(* A step of a request that appends nothing *)
LEMMA RequestKeeps ==
  ASSUME Audit!AuditTrailAssumption, AuditInv, NEW r \in AuditRequests, NEW x \in RequestState,
         audited' = [audited EXCEPT ![r] = x],
         head' = head, events' = events, verifier' = verifier, reader' = reader,
         performed' \subseteq AuditRequests, \A s : s # r =>
           (s \in performed' <=> s \in performed),
         auditFaults' \in Nat, auditFaults <= auditFaults',
         RequestRecorded(r)', FindsHead(r)'
  PROVE  AuditInv'
  <1>1. AuditTyped'
    BY DEF AuditInv, AuditTyped
  <1>2. ChainsRight' /\ CheckRight'
    BY DEF AuditInv, ChainsRight, CheckRight
  <1>3. ReaderRight'
    BY DEF AuditInv, ReaderRight, Audit!PagesAreWhole
  <1>4. ASSUME NEW s \in AuditRequests, s # r PROVE RequestRecorded(s)' /\ FindsHead(s)'
    <2>1. audited'[s] = audited[s]
      BY <1>4 DEF AuditInv, AuditTyped
    <2> QED BY <1>4, <2>1, HeadsStay, OthersKept
  <1> QED BY <1>1, <1>2, <1>3, <1>4 DEF AuditInv

LEMMA OnwardIs ==
  ASSUME AuditInv, NEW r \in AuditRequests, NEW phase \in Audit!Phases
  PROVE  /\ Audit!Onward(r, phase) \in RequestState
         /\ Audit!Onward(r, phase).phase = phase
            /\ Audit!Onward(r, phase).planned = audited[r].planned
         /\ Audit!Onward(r, phase).at = "lock" /\ Audit!Onward(r, phase).tries = 0
         /\ Audit!Onward(r, phase).scope = audited[r].scope
         /\ Audit!Onward(r, phase).outcome = audited[r].outcome
  <1>1. audited[r] \in RequestState
    BY DEF AuditInv, AuditTyped
  <1>2. PICK q : q = audited[r]
    OBVIOUS
  <1>3. q \in RequestState
    BY <1>1, <1>2
  <1>4. PICK zero \in 0 .. 2 : zero = 0
    OBVIOUS
  <1>5. PICK x : x = [q EXCEPT !.phase = phase, !.at = "lock", !.tries = zero]
    OBVIOUS
  <1>6. /\ x \in RequestState /\ x.phase = phase /\ x.planned = q.planned
        /\ x.at = "lock" /\ x.tries = 0 /\ x.scope = q.scope /\ x.outcome = q.outcome
    BY <1>3, <1>4, <1>5 DEF RequestState
  <1> QED BY <1>2, <1>4, <1>5, <1>6 DEF Audit!Onward

(* A request that has ended, or goes on after it was recorded *)
LEMMA ArrivesKeeps ==
  ASSUME Audit!AuditTrailAssumption, AuditInv, NEW r \in AuditRequests, NEW planned \in BOOLEAN,
         Audit!Arrives(r, planned)
  PROVE  AuditInv'
  <1>1. PICK x : x = [Audit!IdleRequest EXCEPT !.phase = IF planned THEN "intent" ELSE "run",
                                          !.planned = planned]
    OBVIOUS
  <1>2. /\ x \in RequestState /\ x.phase = (IF planned THEN "intent" ELSE "run")
        /\ x.planned = planned /\ x.at = "lock" /\ x.tries = 0 /\ x.scope = PlatformScope
        /\ x.outcome = "started"
    BY <1>1, AuditIdle DEF Audit!IdleRequest, RequestState, Audit!Phases
  <1>3. audited' = [audited EXCEPT ![r] = x] /\ audited'[r] = x
    BY <1>1 DEF Audit!Arrives, AuditInv, AuditTyped
  <1>4. r \notin performed
    BY DEF Audit!Arrives, AuditInv, RequestRecorded
  <1>5. RequestRecorded(r)'
    BY <1>2, <1>3, <1>4 DEF Audit!Arrives, RequestRecorded
  <1>6. FindsHead(r)'
    BY <1>2, <1>3 DEF FindsHead
  <1>7. /\ head' = head /\ events' = events /\ verifier' = verifier /\ reader' = reader
        /\ performed' = performed /\ performed \subseteq AuditRequests
        /\ auditFaults' = auditFaults /\ auditFaults \in Nat /\ auditFaults <= auditFaults'
    BY DEF Audit!Arrives, AuditInv, AuditTyped
  <1> QED BY <1>2, <1>3, <1>5, <1>6, <1>7, RequestKeeps

LEMMA FailureKeeps ==
  ASSUME Audit!AuditTrailAssumption, AuditInv, NEW r \in AuditRequests,
         Audit!CapacityExceeded(r) \/ Audit!AppendFails(r)
  PROVE  AuditInv'
  <1>1. PICK x : x = Audit!Onward(r, "done")
    OBVIOUS
  <1>2. /\ x \in RequestState /\ x.phase = "done" /\ x.planned = audited[r].planned
        /\ x.tries = 0
    BY <1>1, OnwardIs DEF Audit!Phases
  <1>3. audited' = [audited EXCEPT ![r] = x] /\ audited'[r] = x
    BY <1>1 DEF Audit!CapacityExceeded, Audit!AppendFails, Audit!Goes, Audit!AfterFailure,
       AuditInv, AuditTyped
  <1>4. /\ head' = head /\ events' = events /\ verifier' = verifier /\ reader' = reader
        /\ performed' = performed /\ audited[r].phase \in {"intent", "completion"}
        /\ auditFaults' \in Nat /\ auditFaults <= auditFaults'
    BY DEF Audit!CapacityExceeded, Audit!AppendFails, Audit!Appending, AuditInv, AuditTyped
  <1>5. r \in performed /\ auditFaults' = 0 => Completed(r)'
    <2>1. CASE Audit!CapacityExceeded(r)
      <3>1. r \in performed => audited[r].scope = MemberOf[r].tenant
        BY <1>4 DEF AuditInv, RequestRecorded
      <3> QED BY <1>4, <2>1, <3>1 DEF Audit!CapacityExceeded, Completed
    <2>2. CASE Audit!AppendFails(r)
      BY <2>2 DEF Audit!AppendFails, AuditInv, AuditTyped
    <2> QED BY <2>1, <2>2
  <1>6. Begun(r)' <=> Begun(r)
    BY <1>4 DEF Begun
  <1>7. RequestRecorded(r)'
    BY <1>2, <1>3, <1>4, <1>5, <1>6 DEF RequestRecorded, AuditInv
  <1>8. FindsHead(r)'
    BY <1>2, <1>3 DEF FindsHead
  <1> QED BY <1>2, <1>3, <1>4, <1>7, <1>8, RequestKeeps DEF AuditInv, AuditTyped

LEMMA FindsNoHeadKeeps ==
  ASSUME Audit!AuditTrailAssumption, AuditInv, NEW r \in AuditRequests, Audit!FindsNoHead(r)
  PROVE  AuditInv'
  <1>1. PICK x : x = [audited[r] EXCEPT !.at = "create"]
    OBVIOUS
  <1>2. audited[r] \in RequestState
    BY DEF AuditInv, AuditTyped
  <1>3. /\ x \in RequestState /\ x.phase = audited[r].phase /\ x.planned = audited[r].planned
        /\ x.tries = audited[r].tries /\ x.scope = audited[r].scope
        /\ x.outcome = audited[r].outcome /\ x.at = "create"
    BY <1>1, <1>2 DEF RequestState
  <1>4. audited' = [audited EXCEPT ![r] = x] /\ audited'[r] = x
    BY <1>1 DEF Audit!FindsNoHead, AuditInv, AuditTyped
  <1>5. /\ head' = head /\ events' = events /\ verifier' = verifier /\ reader' = reader
        /\ performed' = performed /\ performed \subseteq AuditRequests
        /\ auditFaults' = auditFaults /\ auditFaults \in Nat /\ auditFaults <= auditFaults'
    BY DEF Audit!FindsNoHead, AuditInv, AuditTyped
  <1>6. audited[r].phase \in {"intent", "completion"} /\ audited[r].tries = 0
    BY DEF Audit!FindsNoHead, Audit!Appending, AuditInv, FindsHead
  <1>7. Begun(r)' <=> Begun(r)
    BY <1>5 DEF Begun
  <1>8. RequestRecorded(r)'
    BY <1>3, <1>4, <1>5, <1>6, <1>7 DEF RequestRecorded, AuditInv
  <1>9. FindsHead(r)'
    BY <1>3, <1>4, <1>6 DEF FindsHead
  <1> QED BY <1>3, <1>4, <1>5, <1>8, <1>9, RequestKeeps

LEMMA CollisionKeeps ==
  ASSUME Audit!AuditTrailAssumption, AuditInv, NEW r \in AuditRequests, Audit!CreateCollides(r)
  PROVE  AuditInv'
  <1>1. audited[r] \in RequestState /\ audited[r].phase \in {"intent", "completion"}
    BY DEF AuditInv, AuditTyped, Audit!CreateCollides, Audit!Appending
  <1>2. audited[r].tries = 0 /\ head[audited[r].scope].exists
    BY <1>1 DEF Audit!CreateCollides, Audit!Appending, AuditInv, FindsHead
  <1>3. PICK n, x : n = audited[r].tries + 1 /\ x = [audited[r] EXCEPT !.tries = n, !.at = "lock"]
    OBVIOUS
  <1>4. /\ x \in RequestState /\ x.phase = audited[r].phase /\ x.planned = audited[r].planned
        /\ x.tries = 1 /\ x.scope = audited[r].scope
        /\ x.outcome = audited[r].outcome /\ x.at = "lock"
    <2>1. n = 1 /\ n \in 0 .. 2
      BY <1>2, <1>3
    <2> QED BY <1>1, <1>3, <2>1 DEF RequestState
  <1>5. Audit!Again(r) = x
    BY <1>3 DEF Audit!Again
  <1>6. audited' = [audited EXCEPT ![r] = x] /\ audited'[r] = x
    BY <1>2, <1>5 DEF Audit!CreateCollides, AuditInv, AuditTyped
  <1>7. /\ head' = head /\ events' = events /\ verifier' = verifier /\ reader' = reader
        /\ performed' = performed /\ performed \subseteq AuditRequests
        /\ auditFaults' = auditFaults /\ auditFaults \in Nat /\ auditFaults <= auditFaults'
    BY DEF Audit!CreateCollides, AuditInv, AuditTyped
  <1>8. Begun(r)' <=> Begun(r)
    BY <1>7 DEF Begun
  <1>9. RequestRecorded(r)'
    BY <1>1, <1>4, <1>6, <1>7, <1>8 DEF RequestRecorded, AuditInv
  <1>10. FindsHead(r)'
    BY <1>2, <1>4, <1>6, <1>7 DEF FindsHead
  <1> QED BY <1>4, <1>6, <1>7, <1>9, <1>10, RequestKeeps

-----------------------------------------------------------------------------
(* Answers *)
LEMMA AnswerIs ==
  ASSUME Audit!AuditTrailAssumption, AuditInv, NEW r \in AuditRequests,
         NEW outcome \in {"denied", "succeeded", "failed"}, NEW scope \in Audit!Scopes,
         Audit!Answers(r, outcome, scope)
  PROVE  \E x \in RequestState :
           /\ audited' = [audited EXCEPT ![r] = x] /\ audited'[r] = x
           /\ x.phase = (IF audited[r].planned
              \/ outcome = "denied" THEN "completion" ELSE "done")
           /\ x.planned = audited[r].planned /\ x.tries = 0
           /\ x.outcome = outcome /\ x.scope = scope
  <1>1. PICK phase : phase = IF audited[r].planned
             \/ outcome = "denied" THEN "completion" ELSE "done"
    OBVIOUS
  <1>2. phase \in Audit!Phases
    BY <1>1 DEF Audit!Phases
  <1>3. PICK o : o = Audit!Onward(r, phase)
    OBVIOUS
  <1>4. o \in RequestState /\ o.phase = phase /\ o.planned = audited[r].planned /\ o.tries = 0
    BY <1>2, <1>3, OnwardIs
  <1>5. PICK x : x = [o EXCEPT !.outcome = outcome, !.scope = scope]
    OBVIOUS
  <1>6. /\ x \in RequestState /\ x.phase = phase /\ x.planned = audited[r].planned
        /\ x.tries = 0 /\ x.outcome = outcome /\ x.scope = scope
    BY <1>4, <1>5 DEF RequestState, Audit!Outcomes
  <1>7. audited' = [audited EXCEPT ![r] = x]
    BY <1>1, <1>3, <1>5 DEF Audit!Answers
  <1> QED BY <1>1, <1>6, <1>7 DEF AuditInv, AuditTyped

LEMMA AnswerKeeps ==
  ASSUME Audit!AuditTrailAssumption, AuditInv, NEW r \in AuditRequests,
         Audit!Denied(r) \/ Audit!DeniedByRole(r) \/ Audit!Performs(r) \/ Audit!Refuses(r)
  PROVE  AuditInv'
  <1>1. MemberOf[r].tenant \in Audit!Scopes /\ PlatformScope \in Audit!Scopes
    BY DEF Audit!AuditTrailAssumption, Audit!Scopes
  <1>2. /\ head' = head /\ events' = events /\ verifier' = verifier /\ reader' = reader
        /\ auditFaults' = auditFaults /\ auditFaults \in Nat /\ auditFaults <= auditFaults'
        /\ performed \subseteq AuditRequests
        /\ audited[r].phase = "run" /\ r \notin performed
    BY DEF Audit!Denied, Audit!DeniedByRole, Audit!Performs, Audit!Refuses, AuditInv, AuditTyped,
       RequestRecorded
  <1>3. audited[r].planned => Begun(r)
    BY <1>2 DEF AuditInv, RequestRecorded
  <1>4. Begun(r)' <=> Begun(r)
    BY <1>2 DEF Begun
  <1>5. ASSUME NEW x \in RequestState, audited' = [audited EXCEPT ![r] = x], audited'[r] = x,
               x.phase \in {"completion", "done"}, x.planned = audited[r].planned, x.tries = 0,
               \A s : s # r => (s \in performed' <=> s \in performed),
               r \in performed' => /\ audited[r].planned /\ x.phase = "completion"
                                   /\ x.scope = MemberOf[r].tenant
                                   /\ x.outcome \in {"succeeded", "failed"},
               performed' \subseteq AuditRequests
        PROVE  AuditInv'
    <2>1. RequestRecorded(r)'
      BY <1>3, <1>4, <1>5 DEF RequestRecorded
    <2>2. FindsHead(r)'
      BY <1>5 DEF FindsHead
    <2> QED BY <1>2, <1>5, <2>1, <2>2, RequestKeeps
  <1>6. CASE Audit!Denied(r)
    <2>1. PICK x \in RequestState :
            /\ audited' = [audited EXCEPT ![r] = x] /\ audited'[r] = x
            /\ x.phase = "completion" /\ x.planned = audited[r].planned /\ x.tries = 0
      BY <1>1, <1>6, AnswerIs DEF Audit!Denied
    <2>2. performed' = performed
      BY <1>6 DEF Audit!Denied
    <2> QED BY <1>2, <1>5, <2>1, <2>2
  <1>7. CASE Audit!DeniedByRole(r)
    <2>1. PICK x \in RequestState :
            /\ audited' = [audited EXCEPT ![r] = x] /\ audited'[r] = x
            /\ x.phase = "completion" /\ x.planned = audited[r].planned /\ x.tries = 0
      BY <1>1, <1>7, AnswerIs DEF Audit!DeniedByRole
    <2>2. performed' = performed
      BY <1>7 DEF Audit!DeniedByRole
    <2> QED BY <1>2, <1>5, <2>1, <2>2
  <1>8. CASE Audit!Performs(r) \/ Audit!Refuses(r)
    <2>1. PICK outcome \in {"succeeded", "failed"} : Audit!Answers(r, outcome, MemberOf[r].tenant)
      BY <1>8 DEF Audit!Performs, Audit!Refuses
    <2>2. PICK x \in RequestState :
            /\ audited' = [audited EXCEPT ![r] = x] /\ audited'[r] = x
            /\ x.phase = (IF audited[r].planned THEN "completion" ELSE "done")
            /\ x.planned = audited[r].planned /\ x.tries = 0
            /\ x.outcome = outcome /\ x.scope = MemberOf[r].tenant
      BY <1>1, <2>1, AnswerIs
    <2>3. \/ performed' = performed
          \/ audited[r].planned /\ performed' = performed \cup {r}
      BY <1>8 DEF Audit!Performs, Audit!Refuses
    <2>4. /\ performed' \subseteq AuditRequests
          /\ \A s : s # r => (s \in performed' <=> s \in performed)
      BY <1>2, <2>3
    <2>5. r \in performed' => audited[r].planned
      BY <1>2, <2>3
    <2> QED BY <1>5, <2>2, <2>4, <2>5
  <1> QED BY <1>6, <1>7, <1>8

LEMMA LossKeeps ==
  ASSUME Audit!AuditTrailAssumption, AuditInv, NEW r \in AuditRequests, Audit!RequestLost(r)
  PROVE  AuditInv'
  <1>1. PICK x : x = Audit!Onward(r, "done")
    OBVIOUS
  <1>2. /\ x \in RequestState /\ x.phase = "done" /\ x.planned = audited[r].planned
        /\ x.tries = 0
    BY <1>1, OnwardIs DEF Audit!Phases
  <1>3. audited' = [audited EXCEPT ![r] = x] /\ audited'[r] = x
    BY <1>1 DEF Audit!RequestLost, Audit!Goes, AuditInv, AuditTyped
  <1>4. /\ head' = head /\ events' = events /\ verifier' = verifier /\ reader' = reader
        /\ auditFaults \in Nat /\ auditFaults' = auditFaults + 1
        /\ performed \subseteq AuditRequests
    BY DEF Audit!RequestLost, AuditInv, AuditTyped
  <1>5. \/ performed' = performed
        \/ audited[r].phase = "run" /\ audited[r].planned /\ performed' = performed \cup {r}
    BY DEF Audit!RequestLost
  <1>6. performed' \subseteq AuditRequests /\ \A s : s # r =>
          (s \in performed' <=> s \in performed)
    BY <1>4, <1>5
  <1>7. Begun(r)' <=> Begun(r)
    BY <1>4 DEF Begun
  <1>8. r \in performed' => audited[r].planned /\ Begun(r)
    BY <1>5 DEF AuditInv, RequestRecorded
  <1>9. auditFaults' # 0 /\ auditFaults' \in Nat /\ auditFaults <= auditFaults'
    BY <1>4
  <1>10. RequestRecorded(r)'
    BY <1>2, <1>3, <1>7, <1>8, <1>9 DEF RequestRecorded
  <1>11. FindsHead(r)'
    BY <1>2, <1>3 DEF FindsHead
  <1> QED BY <1>2, <1>3, <1>4, <1>6, <1>9, <1>10, <1>11, RequestKeeps

-----------------------------------------------------------------------------
(* An append: the head that was read is the scope's, and a scope without one has no rows *)
LEMMA NoHeadIs ==
  ASSUME AuditInv, NEW s \in Audit!Scopes, ~head[s].exists
  PROVE  head[s] = Audit!NoHead
  <1>1. PICK h : h = head[s]
    OBVIOUS
  <1>2. ChainRight(h, events[s]) /\ ~h.exists
    BY <1>1 DEF AuditInv, ChainsRight
  <1>3. events[s] = <<>>
    BY <1>2 DEF ChainRight
  <1>4. h.count = 0 /\ h.last = Audit!Genesis
    <2>1. Audit!LastHash(events[s]) = Audit!Genesis /\ Len(events[s]) = 0
      BY <1>3 DEF Audit!LastHash
    <2> QED BY <1>2, <2>1 DEF ChainRight, Audit!HeadMatches
  <1>5. h \in [exists : BOOLEAN, count : Nat, last : Seq(Audit!AuditEntry)] /\ h.exists = FALSE
    BY <1>2 DEF ChainRight
  <1> QED BY <1>1, <1>4, <1>5 DEF Audit!NoHead

LEMMA StoresKeeps ==
  ASSUME Audit!AuditTrailAssumption, AuditInv, NEW r \in AuditRequests,
         audited[r].phase \in {"intent", "completion"},
         Audit!Stores(audited[r].scope, head[audited[r].scope], Audit!Entry(r)),
         Audit!Goes(r, Audit!AfterAppend(r)),
         performed' = performed, verifier' = verifier, reader' = reader,
         auditFaults' = auditFaults
  PROVE  AuditInv'
  <1>1. PICK scope : scope = audited[r].scope
    OBVIOUS
  <1>2. PICK entry : entry = Audit!Entry(r)
    OBVIOUS
  <1>3. scope \in Audit!Scopes /\ entry \in Audit!AuditEntry
    BY <1>1, <1>2 DEF AuditInv, AuditTyped, RequestState, Audit!Entry, Audit!AuditEntry
  <1>4. PICK h : h = Audit!Appended(head[scope], entry)
    OBVIOUS
  <1>5. PICK table : table = Append(events[scope], Audit!NewEvent(head[scope], entry))
    OBVIOUS
  <1>6. ChainRight(head[scope], events[scope])
    BY <1>3 DEF AuditInv, ChainsRight
  <1>7. /\ ChainRight(h, table)
           /\ Audit!ToSet(h.last) = Audit!ToSet(head[scope].last) \cup {entry}
        /\ h.exists /\ h.count > head[scope].count
    BY <1>3, <1>4, <1>5, <1>6, ChainGrows
  <1>8. /\ head' = [head EXCEPT ![scope] = h] /\ events' = [events EXCEPT ![scope] = table]
        /\ head'[scope] = h /\ events'[scope] = table
        /\ \A s \in Audit!Scopes : s # scope => head'[s] = head[s] /\ events'[s] = events[s]
    <2>1. head' = [head EXCEPT ![scope] = h] /\ events' = [events EXCEPT ![scope] = table]
      BY <1>1, <1>2, <1>4, <1>5 DEF Audit!Stores
    <2> QED BY <1>3, <2>1 DEF AuditInv, AuditTyped
  <1>9. h.count \in Nat /\ Len(table) = h.count /\ \A s \in Audit!Scopes : head[s].count \in Nat
    BY <1>7 DEF ChainRight, Audit!HeadMatches, AuditInv, AuditTyped
  <1>10. HeadsGrow
    <2> SUFFICES ASSUME NEW s \in Audit!Scopes
                 PROVE  /\ Audit!ToSet(head[s].last) \subseteq Audit!ToSet(head'[s].last)
                        /\ head[s].count \in Nat /\ head'[s].count \in Nat
                        /\ head[s].count <= head'[s].count
                        /\ head[s].exists => head'[s].exists
      BY DEF HeadsGrow
    <2>1. CASE s = scope
      BY <1>7, <1>8, <1>9, <2>1
    <2>2. CASE s # scope
      BY <1>8, <1>9, <2>2
    <2> QED BY <2>1, <2>2
  <1>11. ChainsRight'
    <2> SUFFICES ASSUME NEW s \in Audit!Scopes PROVE ChainRight(head'[s], events'[s])
      BY DEF ChainsRight, ChainRight, Audit!Unbroken, Audit!HeadMatches, Audit!LastHash
    <2> QED BY <1>7, <1>8 DEF AuditInv, ChainsRight
  <1>12. PICK phase \in {"run", "done"} : phase = Audit!AfterAppend(r)
    BY DEF Audit!AfterAppend
  <1>13. PICK x : x = Audit!Onward(r, phase)
    OBVIOUS
  <1>14. /\ x \in RequestState /\ x.phase = phase /\ x.planned = audited[r].planned
         /\ x.tries = 0
    BY <1>13, OnwardIs DEF Audit!Phases
  <1>15. audited' = [audited EXCEPT ![r] = x] /\ audited'[r] = x
    BY <1>12, <1>13 DEF Audit!Goes, AuditInv, AuditTyped
  <1>16. AuditTyped'
    <2>1. h \in [exists : BOOLEAN, count : Nat, last : Seq(Audit!AuditEntry)]
          /\ table \in Seq(AuditEvent)
      BY <1>7 DEF ChainRight
    <2>2. head' \in [Audit!Scopes -> [exists : BOOLEAN, count : Nat,
          last : Seq(Audit!AuditEntry)]]
      BY <1>8, <2>1 DEF AuditInv, AuditTyped
    <2>3. events' \in [Audit!Scopes -> Seq(AuditEvent)]
      BY <1>8, <2>1 DEF AuditInv, AuditTyped
    <2>4. audited' \in [AuditRequests -> RequestState]
      BY <1>14, <1>15 DEF AuditInv, AuditTyped
    <2> QED BY <2>2, <2>3, <2>4 DEF AuditInv, AuditTyped
  <1>17. CheckRight'
    BY DEF AuditInv, CheckRight
  <1>18. ReaderRight'
    <2>1. \A s \in Audit!Scopes : Len(events[s]) \in Nat /\ Len(events'[s]) \in Nat
                            /\ Len(events[s]) <= Len(events'[s])
      <3>1. \A s \in Audit!Scopes : Len(events[s]) = head[s].count
        BY DEF AuditInv, ChainsRight, ChainRight, Audit!HeadMatches
      <3>2. \A s \in Audit!Scopes : Len(events'[s]) = head'[s].count
        BY <1>8, <1>9, <3>1
      <3> QED BY <1>10, <3>1, <3>2 DEF HeadsGrow
    <2> QED BY <2>1 DEF AuditInv, ReaderRight, Audit!PagesAreWhole
  <1>19. RequestRecorded(r)'
    <2>1. audited[r].phase = "intent" => Begun(r)'
      <3>1. audited[r].phase = "intent" =>
              scope = PlatformScope /\ entry = [request |-> r, outcome |-> "started"]
        BY <1>1, <1>2 DEF AuditInv, RequestRecorded, Audit!Entry
      <3> QED BY <1>7, <1>8, <3>1 DEF Begun
    <2>2. r \in performed => audited[r].phase = "completion" /\ Completed(r)'
      <3>1. r \in performed => /\ audited[r].phase = "completion" /\ scope = MemberOf[r].tenant
                               /\ audited[r].outcome \in {"succeeded", "failed"}
                               /\ entry = [request |-> r, outcome |-> audited[r].outcome]
        BY <1>1, <1>2 DEF AuditInv, RequestRecorded, Audit!Entry
      <3>2. entry \in Audit!ToSet(h.last)
        BY <1>7
      <3> QED BY <1>8, <3>1, <3>2 DEF Completed
    <2>3. Begun(r) => Begun(r)'
      BY <1>10, RecordsStay
    <2>4. audited[r].phase = "completion" => phase = "done"
      BY <1>12 DEF Audit!AfterAppend
    <2>5. audited[r].phase = "intent" => r \notin performed
      BY DEF AuditInv, RequestRecorded
    <2>6. r \in performed => Begun(r) /\ audited[r].planned
      BY DEF AuditInv, RequestRecorded
    <2> QED BY <1>12, <1>14, <1>15, <2>1, <2>2, <2>3, <2>4, <2>5, <2>6 DEF RequestRecorded
  <1>20. FindsHead(r)'
    BY <1>12, <1>14, <1>15 DEF FindsHead
  <1>21. ASSUME NEW s \in AuditRequests, s # r PROVE RequestRecorded(s)' /\ FindsHead(s)'
    <2>1. audited'[s] = audited[s]
      BY <1>15, <1>21 DEF AuditInv, AuditTyped
    <2>2. auditFaults \in Nat
      BY DEF AuditInv, AuditTyped
    <2> QED BY <1>10, <1>21, <2>1, <2>2, OthersKept
  <1> QED BY <1>11, <1>16, <1>17, <1>18, <1>19, <1>20, <1>21 DEF AuditInv

LEMMA AppendKeeps ==
  ASSUME Audit!AuditTrailAssumption, AuditInv, NEW r \in AuditRequests,
         Audit!AppendsToChain(r) \/ Audit!CreatesChain(r)
  PROVE  AuditInv'
  <1>1. CASE Audit!AppendsToChain(r)
    BY <1>1, StoresKeeps DEF Audit!AppendsToChain, Audit!Appending
  <1>2. CASE Audit!CreatesChain(r)
    <2>1. audited[r].scope \in Audit!Scopes
      BY DEF AuditInv, AuditTyped, RequestState
    <2>2. head[audited[r].scope] = Audit!NoHead
      BY <1>2, <2>1, NoHeadIs DEF Audit!CreatesChain
    <2> QED BY <1>2, <2>2, StoresKeeps DEF Audit!CreatesChain, Audit!Appending
  <1> QED BY <1>1, <1>2

-----------------------------------------------------------------------------
(* An integrity check *)
LEMMA VerifierKeeps ==
  ASSUME Audit!AuditTrailAssumption, AuditInv, Audit!Verifies
         \/ \E s \in Audit!Scopes : Audit!BeginsVerify(s)
  PROVE  AuditInv'
  <1>1. CheckRight'
    <2>1. ASSUME NEW s \in Audit!Scopes, Audit!BeginsVerify(s) PROVE CheckRight'
      <3>1. /\ verifier'.phase = "rows" /\ verifier'.head = head[s]
            /\ verifier'.rows = events[s] /\ verifier'.verified
        BY <2>1 DEF Audit!BeginsVerify, Audit!NoCheck
      <3>2. ChainRight(head[s], events[s])
        BY DEF AuditInv, ChainsRight
      <3> QED BY <3>1, <3>2 DEF CheckRight
    <2>2. ASSUME Audit!Verifies PROVE CheckRight'
      <3>1. Audit!Unbroken(verifier.rows) /\ Audit!HeadMatches(verifier.head, verifier.rows)
        BY <2>2 DEF Audit!Verifies, AuditInv, CheckRight, ChainRight
      <3>2. verifier'.verified /\ verifier'.phase = "answered"
        BY <2>2, <3>1 DEF Audit!Verifies, Audit!SnapshotRows, Audit!NoCheck
      <3> QED BY <3>2 DEF CheckRight
    <2> QED BY <2>1, <2>2
  <1>2. UNCHANGED <<head, events, audited, performed, reader, auditFaults>>
    BY DEF Audit!Verifies, Audit!BeginsVerify
  <1>3. AuditTyped' /\ ChainsRight' /\ ReaderRight'
    BY <1>2 DEF AuditInv, AuditTyped, ChainsRight, ReaderRight, Audit!PagesAreWhole
  <1>4. \A r \in AuditRequests : RequestRecorded(r)' /\ FindsHead(r)'
    BY <1>2 DEF AuditInv, RequestRecorded, FindsHead, Begun, Completed
  <1> QED BY <1>1, <1>3, <1>4 DEF AuditInv

-----------------------------------------------------------------------------
(* The instance counts as this module does *)
LEMMA SameCount == \A S : Audit!Cardinality(S) = Cardinality(S)
  BY Zenon DEF Audit!Cardinality, Cardinality

(* Pages: the k-th newest of m rows *)
LEMMA PageOf ==
  ASSUME NEW m \in Nat, NEW n \in Nat
  PROVE  /\ Audit!NewestFirst(1 .. m, n) \in Seq(Nat)
         /\ Len(Audit!NewestFirst(1 .. m, n)) = Audit!Least(n, m) /\ Audit!Least(n, m) \in Nat
         /\ \A k \in 1 .. Audit!Least(n, m) : Audit!NewestFirst(1 .. m, n)[k] = m + 1 - k
  <1>1. Audit!Cardinality(1 .. m) = m
    BY FS_Interval, SameCount
  <1>2. ASSUME NEW i \in 1 .. m
        PROVE  Audit!Cardinality({j \in 1 .. m : j >= i}) = m - i + 1
    <2>1. {j \in 1 .. m : j >= i} = i .. m
      OBVIOUS
    <2>2. Cardinality(i .. m) = m - i + 1
      BY FS_Interval
    <2> QED BY <2>1, <2>2, SameCount
  <1>3. ASSUME NEW k \in 1 .. m
        PROVE  (CHOOSE i \in 1 .. m : Audit!Cardinality({j \in 1 .. m : j >= i}) = k) = m + 1 - k
    <2> DEFINE P(i) == Audit!Cardinality({j \in 1 .. m : j >= i}) = k
    <2>1. PICK w : w = m + 1 - k
      OBVIOUS
    <2>2. w \in 1 .. m /\ P(w)
      BY <1>2, <2>1
    <2>3. \A i \in 1 .. m : P(i) => i = w
      BY <1>2, <2>1
    <2> HIDE DEF P
    <2>4. (CHOOSE i \in 1 .. m : P(i)) = w
      BY <2>2, <2>3
    <2> QED BY <2>1, <2>4 DEF P
  <1>4. PICK l : l = Audit!Least(n, m)
    OBVIOUS
  <1>5. l \in Nat /\ l <= m /\ l <= n
    BY <1>4 DEF Audit!Least
  <1>6. Audit!NewestFirst(1 .. m, n) =
          [k \in 1 .. l |-> CHOOSE i \in 1 .. m : Audit!Cardinality({j \in 1 .. m : j >= i}) = k]
    BY <1>1, <1>4, Zenon DEF Audit!NewestFirst
  <1>7. PICK f : f = Audit!NewestFirst(1 .. m, n)
    OBVIOUS
  <1>8. DOMAIN f = 1 .. l /\ f = [k \in 1 .. l |-> f[k]]
    BY <1>6, <1>7
  <1>9. ASSUME NEW k \in 1 .. l PROVE f[k] = m + 1 - k
    <2>1. k \in 1 .. m
      BY <1>5
    <2>2. f[k] = CHOOSE i \in 1 .. m : Audit!Cardinality({j \in 1 .. m : j >= i}) = k
      BY <1>6, <1>7
    <2> QED BY <1>3, <2>1, <2>2
  <1>10. \A k \in 1 .. l : f[k] \in Nat
    BY <1>5, <1>9
  <1>11. f \in Seq(Nat) /\ Len(f) = l
    BY <1>5, <1>8, <1>10
  <1> QED BY <1>4, <1>5, <1>7, <1>9, <1>11

LEMMA PageShown ==
  ASSUME Audit!AuditTrailAssumption, NEW before \in Seq(Nat), NEW page \in Seq(Nat),
         NEW m \in Nat,
         \A k \in 1 .. Len(page) : page[k] = m + 1 - k,
         before # <<>> => before[Len(before)] = m + 1,
         \A i \in DOMAIN before : i > 1 => before[i] = before[i - 1] - 1
  PROVE  /\ before \o page \in Seq(Nat)
         /\ \A i \in DOMAIN (before \o page) :
              i > 1 => (before \o page)[i] = (before \o page)[i - 1] - 1
         /\ Len(page) # 0 => /\ before \o page # <<>>
                             /\ (before \o page)[Len(before \o page)] = page[Len(page)]
         /\ Len(page) = 0 => before \o page = before
  <1>1. PICK all : all = before \o page
    OBVIOUS
  <1>2. /\ all \in Seq(Nat) /\ Len(all) = Len(before) + Len(page)
        /\ Len(before) \in Nat /\ Len(page) \in Nat
        /\ DOMAIN all = 1 .. Len(before) + Len(page) /\ DOMAIN before = 1 .. Len(before)
        /\ \A i \in 1 .. Len(before) : all[i] = before[i]
        /\ \A k \in 1 .. Len(page) : all[Len(before) + k] = page[k]
    BY <1>1
  <1>3. ASSUME NEW i \in 1 .. Len(before) + Len(page), i > 1
        PROVE  all[i] = all[i - 1] - 1
    <2>1. CASE i <= Len(before)
      <3>1. i \in 1 .. Len(before) /\ i - 1 \in 1 .. Len(before)
        BY <1>2, <1>3, <2>1
      <3>2. all[i] = before[i] /\ all[i - 1] = before[i - 1] /\ before[i] = before[i - 1] - 1
        BY <1>2, <1>3, <3>1
      <3> QED BY <3>2
    <2>2. CASE i = Len(before) + 1
      <3>1. Len(before) \in 1 .. Len(before) /\ i - 1 = Len(before) /\ before # <<>>
            /\ 1 \in 1 .. Len(page)
        BY <1>2, <1>3, <2>2
      <3>2. all[i - 1] = m + 1 /\ all[i] = page[1] /\ page[1] = m
        BY <1>2, <2>2, <3>1
      <3> QED BY <3>2
    <2>3. CASE i > Len(before) + 1
      <3>1. PICK k \in 1 .. Len(page) : i = Len(before) + k /\ k > 1
        <4>1. i - Len(before) \in 1 .. Len(page) /\ i - Len(before) > 1
              /\ i = Len(before) + (i - Len(before))
          BY SMTT(40), <1>2, <2>3
        <4> QED BY <4>1
      <3>2. PICK j \in 1 .. Len(page) : j = k - 1 /\ i - 1 = Len(before) + j
        BY <1>2, <3>1
      <3>3. all[i] = m + 1 - k /\ all[i - 1] = m + 1 - j
        BY <1>2, <3>1, <3>2
      <3> QED BY <3>2, <3>3
    <2> QED BY <1>2, <2>1, <2>2, <2>3
  <1>4. Len(page) # 0 => all # <<>> /\ all[Len(all)] = page[Len(page)]
    BY <1>2
  <1>5. Len(page) = 0 => all = before
    BY <1>1
  <1> QED BY <1>1, <1>2, <1>3, <1>4, <1>5

LEMMA PageRest ==
  ASSUME Audit!AuditTrailAssumption, AuditInv, NEW scope \in Audit!Scopes, Audit!ReadsPage(scope),
         NEW all \in Seq(Nat), reader'.seen = all, reader'.scope = scope,
         reader'.phase \in {"more", "end"}, reader'.cursor \in Nat,
         \A i \in DOMAIN all : i > 1 => all[i] = all[i - 1] - 1,
         reader'.phase = "more" =>
           /\ reader'.cursor > 1 /\ reader'.cursor <= Len(events[scope])
           /\ all # <<>> /\ all[Len(all)] = reader'.cursor,
         reader'.phase = "end" /\ all # <<>> => all[Len(all)] = 1
  PROVE  AuditInv'
  <1>1. UNCHANGED <<head, events, audited, performed, verifier, auditFaults>>
    BY DEF Audit!ReadsPage
  <1>2. Audit!PagesAreWhole'
    <2>1. \A i \in DOMAIN all : all # <<>>
      OBVIOUS
    <2> QED BY <2>1 DEF Audit!PagesAreWhole, Audit!Last
  <1>3. ReaderRight'
    BY <1>1, <1>2 DEF ReaderRight
  <1>4. AuditTyped' /\ ChainsRight' /\ CheckRight'
    BY <1>1 DEF AuditInv, AuditTyped, ChainsRight, CheckRight
  <1>5. \A r \in AuditRequests : RequestRecorded(r)' /\ FindsHead(r)'
    BY <1>1 DEF AuditInv, RequestRecorded, FindsHead, Begun, Completed
  <1> QED BY <1>3, <1>4, <1>5 DEF AuditInv

LEMMA PageKeeps ==
  ASSUME Audit!AuditTrailAssumption, AuditInv, NEW scope \in Audit!Scopes, Audit!ReadsPage(scope)
  PROVE  AuditInv'
  <1>1. PICK m : m = IF reader.cursor = 0 THEN Len(events[scope]) ELSE reader.cursor - 1
    OBVIOUS
  <1>2. /\ events[scope] \in Seq(AuditEvent) /\ reader.cursor \in Nat /\ reader.seen \in Seq(Nat)
        /\ reader.phase = "idle" \/ (reader.phase = "more" /\ reader.scope = scope)
    <2>1. reader.phase = "idle" \/ (reader.phase = "more" /\ reader.scope = scope)
      BY DEF Audit!ReadsPage
    <2> QED BY <2>1 DEF AuditInv, AuditTyped, ReaderRight
  <1>3. m \in Nat /\ m <= Len(events[scope]) /\ Len(events[scope]) \in Nat
    BY <1>1, <1>2 DEF AuditInv, ReaderRight
  <1>4. Audit!Before(scope, reader.cursor) = 1 .. m
    <2>1. DOMAIN events[scope] = 1 .. Len(events[scope])
      BY <1>2
    <2> QED BY <1>1, <1>2, <1>3, <2>1 DEF Audit!Before
  <1>5. PageLimit \in Nat \ {0}
    BY DEF Audit!AuditTrailAssumption
  <1>6. PICK table : table = Audit!NewestFirst(1 .. m, PageLimit + 1)
    OBVIOUS
  <1>7. /\ table \in Seq(Nat) /\ Len(table) = Audit!Least(PageLimit + 1, m)
        /\ \A k \in 1 .. Len(table) : table[k] = m + 1 - k
    <2>1. PICK n \in Nat : n = PageLimit + 1
      BY <1>5
    <2>2. Len(table) = Audit!Least(n, m) /\ table = Audit!NewestFirst(1 .. m, n)
      BY <1>3, <1>6, <2>1, PageOf
    <2> QED BY <1>3, <2>1, <2>2, PageOf
  <1>8. PICK p : p = Audit!Least(PageLimit, Len(table))
    OBVIOUS
  <1>9. /\ p \in Nat /\ p <= Len(table) /\ p <= PageLimit /\ p <= m /\ Len(table) \in Nat
        /\ Len(table) > PageLimit <=> m > PageLimit
        /\ m > PageLimit => p = PageLimit /\ PageLimit \in 1 .. Len(table)
        /\ ~(m > PageLimit) => p = m
    BY <1>3, <1>5, <1>7, <1>8 DEF Audit!Least
  <1>10. PICK page : page = SubSeq(table, 1, p)
    OBVIOUS
  <1>11. page \in Seq(Nat) /\ Len(page) = p /\ \A k \in 1 .. Len(page) : page[k] = m + 1 - k
    BY <1>7, <1>9, <1>10
  <1>12. PICK all : all = reader.seen \o page
    OBVIOUS
  <1>13. /\ reader'.scope = scope /\ reader'.seen = all
         /\ reader'.phase = (IF m > PageLimit THEN "more" ELSE "end")
         /\ reader'.cursor = (IF m > PageLimit THEN table[PageLimit] ELSE 0)
    BY <1>4, <1>6, <1>8, <1>9, <1>10, <1>12 DEF Audit!ReadsPage, Audit!NextCursor
  <1>14. /\ reader.seen # <<>> => reader.seen[Len(reader.seen)] = m + 1
         /\ reader.seen = <<>> \/ m > 0
         /\ \A i \in DOMAIN reader.seen : i > 1 => reader.seen[i] = reader.seen[i - 1] - 1
    BY <1>1, <1>2 DEF AuditInv, ReaderRight, Audit!PagesAreWhole
  <1>15. /\ all \in Seq(Nat) /\ \A i \in DOMAIN all : i > 1 => all[i] = all[i - 1] - 1
         /\ Len(page) # 0 => all # <<>> /\ all[Len(all)] = page[Len(page)]
         /\ Len(page) = 0 => all = reader.seen
    <2>1. PICK before \in Seq(Nat) : before = reader.seen
      BY <1>2
    <2>2. /\ before # <<>> => before[Len(before)] = m + 1
          /\ \A i \in DOMAIN before : i > 1 => before[i] = before[i - 1] - 1
      BY <1>14, <2>1
    <2>3. m \in Nat /\ page \in Seq(Nat) /\ \A k \in 1 .. Len(page) : page[k] = m + 1 - k
      BY <1>3, <1>11
    <2>4. all = before \o page
      BY <1>12, <2>1
    <2>5. /\ before \o page \in Seq(Nat)
          /\ \A i \in DOMAIN (before \o page) :
               i > 1 => (before \o page)[i] = (before \o page)[i - 1] - 1
          /\ Len(page) # 0 => /\ before \o page # <<>>
                              /\ (before \o page)[Len(before \o page)] = page[Len(page)]
          /\ Len(page) = 0 => before \o page = before
      BY <2>2, <2>3, PageShown
    <2> QED BY <2>1, <2>4, <2>5
  <1>16. CASE m > PageLimit
    <2>1. table[PageLimit] = m + 1 - PageLimit /\ Len(page) = PageLimit
          /\ page[PageLimit] = m + 1 - PageLimit
      BY <1>5, <1>7, <1>9, <1>11, <1>16
    <2>2. /\ reader'.cursor = m + 1 - PageLimit /\ reader'.cursor \in Nat /\ reader'.cursor > 1
          /\ reader'.cursor <= Len(events[scope]) /\ reader'.phase = "more"
      BY <1>3, <1>5, <1>13, <1>16, <2>1
    <2>3. all # <<>> /\ all[Len(all)] = m + 1 - PageLimit
      BY <1>5, <1>15, <2>1
    <2>4. events' = events
      BY DEF Audit!ReadsPage
    <2> QED BY <1>13, <1>15, <2>2, <2>3, <2>4, PageRest
  <1>17. CASE ~(m > PageLimit)
    <2>1. reader'.cursor = 0 /\ reader'.phase = "end"
      BY <1>13, <1>17
    <2>2. all # <<>> => all[Len(all)] = 1
      <3>1. CASE m = 0
        BY <1>9, <1>11, <1>14, <1>15, <1>17, <3>1
      <3>2. CASE m # 0
        <4>1. Len(page) = m /\ m \in 1 .. Len(page) /\ page[m] = 1
          BY <1>3, <1>9, <1>11, <1>17, <3>2
        <4> QED BY <1>15, <4>1
      <3> QED BY <3>1, <3>2
    <2> QED BY <1>13, <1>15, <2>1, <2>2, PageRest
  <1> QED BY <1>16, <1>17

-----------------------------------------------------------------------------
LEMMA AuditKept ==
  ASSUME Audit!AuditTrailAssumption, AuditInv, [Audit!Next]_Audit!vars
  PROVE  AuditInv'
  <1>1. ASSUME NEW r \in AuditRequests, Audit!RequestStep(r) PROVE AuditInv'
    <2>1. ASSUME NEW planned \in BOOLEAN, Audit!Arrives(r, planned) PROVE AuditInv'
      BY <2>1, ArrivesKeeps
    <2>2. CASE Audit!AppendsToChain(r) \/ Audit!CreatesChain(r)
      BY <2>2, AppendKeeps
    <2>3. CASE Audit!CapacityExceeded(r) \/ Audit!AppendFails(r)
      BY <2>3, FailureKeeps
    <2>4. CASE Audit!FindsNoHead(r)
      BY <2>4, FindsNoHeadKeeps
    <2>5. CASE Audit!CreateCollides(r)
      BY <2>5, CollisionKeeps
    <2>6. CASE Audit!Denied(r) \/ Audit!DeniedByRole(r) \/ Audit!Performs(r) \/ Audit!Refuses(r)
      BY <2>6, AnswerKeeps
    <2>7. CASE Audit!RequestLost(r)
      BY <2>7, LossKeeps
    <2> QED BY <1>1, <2>1, <2>2, <2>3, <2>4, <2>5, <2>6, <2>7 DEF Audit!RequestStep
  <1>2. ASSUME NEW scope \in Audit!Scopes, Audit!ReadsPage(scope) PROVE AuditInv'
    BY <1>2, PageKeeps
  <1>3. CASE Audit!Verifies \/ \E scope \in Audit!Scopes : Audit!BeginsVerify(scope)
    BY <1>3, VerifierKeeps
  <1>4. CASE UNCHANGED Audit!vars
    <2>1. UNCHANGED <<head, events, audited, performed, verifier, reader, auditFaults>>
      BY <1>4 DEF Audit!vars
    <2>2. AuditTyped' /\ ChainsRight' /\ CheckRight' /\ ReaderRight'
      BY <2>1 DEF AuditInv, AuditTyped, ChainsRight, CheckRight, ReaderRight, Audit!PagesAreWhole
    <2>3. \A r \in AuditRequests : RequestRecorded(r)' /\ FindsHead(r)'
      BY <2>1 DEF AuditInv, RequestRecorded, FindsHead, Begun, Completed
    <2> QED BY <2>2, <2>3 DEF AuditInv
  <1> QED BY <1>1, <1>2, <1>3, <1>4 DEF Audit!Next

LEMMA AuditFollows ==
  ASSUME AuditInv
  PROVE  Audit!ChangesAreRecorded /\ Audit!ChecksFindNoBreak /\ Audit!PagesAreWhole
  <1>1. ASSUME NEW r \in performed
        PROVE  Begun(r) /\ (audited[r].phase = "done" /\ auditFaults = 0 => Completed(r))
    BY <1>1 DEF AuditInv, AuditTyped, RequestRecorded
  <1> QED BY <1>1 DEF AuditInv, CheckRight, ReaderRight, Audit!ChangesAreRecorded,
     Audit!ChecksFindNoBreak,
                      Begun, Completed

-----------------------------------------------------------------------------
(* KnowledgeBases: what calls that land late do.  An owner is the tenant whose account the
   dataset is in, so a call that was sent for an owner reaches the dataset as long as it
   exists, and what it misses is gone.  And every dataset a request created is its own:
   only the default tenant's listing can own it first. *)

Calls == Kb!Ops \cup {"none", "undo", "parse"}
Wires == {"none", "sent", "applied", "rejected", "missing"}
Request == [op : Kb!Ops, phase : Kb!Phases, tenant : Tenants, base : Bases, doc : Kb!Docs,
            call : Calls, wire : Wires, seen : SUBSET Bases, answer : Kb!Answers]

KTyped ==
  /\ dataset \in [Bases -> Kb!KnowledgeBaseSummary]
  /\ document \in [Kb!Docs -> Kb!KnowledgeDocument]
  /\ owner \in [Bases -> Tenants \cup {NoTenant}]
  /\ wanted \in [KbRequests -> Request]

(* What the phase of a request says of its call and its answer *)
Phased(r, q) ==
  /\ q.phase # "done" => q.answer = "none"
  /\ q.phase \in {"idle", "available", "owned", "read", "adopt", "answer"} => q.call = "none"
  /\ q.call = "none" => q.wire = "none"
  /\ q.phase \in {"send", "wait"} => q.call # "none"
  /\ q.phase = "send" /\ q.call \notin {"undo", "parse"} => q.wire = "none"
  /\ q.phase = "wait" => q.wire # "none"
  /\ q.phase = "claim" => q.call = "create" /\ q.wire = "applied"
  /\ q.phase = "release" => q.call = "delete" /\ q.wire \in {"applied", "missing"}
  /\ q.phase = "owned" => q.op \in {"get", "update", "delete", "upload", "retry"}
  /\ q.phase \in {"adopt", "answer"} => q.op = "list"
  /\ q.call \in {"get", "update", "delete", "upload", "retry", "create"} => q.op = q.call
  /\ q.call \notin {"list"}
  /\ q.call = "undo" => q.op = "create" /\ q.tenant = Default
  /\ q.call = "parse" => q.op = "upload"
  /\ q.op = "upload" => q.doc = r

No == {"not_found", "rejected", "upload_failed", "retry_rejected"}

Told(q) ==
  /\ q.answer \in No => q.wire # "sent" /\ (q.wire = "applied" => q.call = "undo")
  /\ q.answer = "ok" /\ q.op = "create" => q.call = "create" /\ q.wire = "applied"
  /\ q.answer = "ok" /\ q.op = "delete" => q.call = "delete" /\ q.wire \in {"applied", "missing"}
  /\ q.answer = "ok" /\ q.op = "upload" => q.call = "parse" /\ q.wire = "applied"

(* A request that created a dataset, and one that knows its dataset to be its
   tenant's *)
Creator(q) == q.call = "undo" \/ (q.call = "create" /\ q.wire = "applied")
Aware(q) == q.call \notin {"none", "create"} \/ Creator(q)

(* What a request knows of the world: datasets ds, documents dc and owners ow *)
Informed(r, q, ds, dc, ow) ==
  /\ Aware(q) => ds[q.base].state # "none" /\ ds[q.base].tenant = q.tenant
  /\ q.call = "delete" /\ q.wire \in {"applied", "missing"} => ds[q.base].state = "gone"
  /\ q.call = "create" /\ q.answer = "ok" /\ ds[q.base].state = "present" => ow[q.base] = q.tenant
  /\ q.call = "create" /\ q.wire = "applied" /\ q.phase \in {"wait", "claim"}
       /\ ow[q.base] # NoTenant => q.tenant = Default
  /\ q.call = "parse" \/ (q.call = "upload" /\ q.wire = "applied") => dc[r].base = q.base
  /\ q.call = "parse" /\ q.wire = "applied" /\ (q.phase = "wait" \/ q.answer = "ok")
       /\ ds[q.base].state = "present" => dc[r].status \in {"parsing", "completed", "failed"}
  /\ q.phase = "adopt" =>
       q.tenant = Default /\ \A b \in q.seen : ds[b].state # "none" /\ ds[b].tenant = Default

SoundCall(r, q, ds, dc, ow) == Phased(r, q) /\ Told(q) /\ Informed(r, q, ds, dc, ow)

(* An owner is the tenant whose account the dataset is in *)
Accounts(ds, ow) ==
  \A b \in Bases : ow[b] # NoTenant => ds[b].state # "none" /\ ds[b].tenant = ow[b]

(* Every dataset was created by at most one request *)
Apart(rq) ==
  \A r, s \in KbRequests : Creator(rq[r]) /\ Creator(rq[s]) /\ rq[r].base = rq[s].base => r = s

KInv ==
  /\ KTyped
  /\ Accounts(dataset, owner)
  /\ Apart(wanted)
  /\ \A r \in KbRequests : SoundCall(r, wanted[r], dataset, document, owner)

-----------------------------------------------------------------------------
(* The first state, and what requests a step does not touch keep *)

\* Nothing is known, sent or told at first; recorded owners have their datasets.
LEMMA KInit ==
  ASSUME Kb!KnowledgeBasesAssumption, Kb!Init
  PROVE  KInv
  <1>1. Kb!SomeBase \in Bases
    BY DEF Kb!SomeBase, Kb!KnowledgeBasesAssumption
  <1>2. ASSUME NEW r \in KbRequests PROVE Kb!NoRequest \in Request
    <2>1. r \in Kb!Docs
      BY DEF Kb!Docs
    <2>2. Kb!NoRequest.doc \in Kb!Docs
      BY <2>1 DEF Kb!NoRequest
    <2> QED BY <1>1, <2>2 DEF Kb!NoRequest, Request, Kb!Ops, Kb!Phases, Calls, Wires, Kb!Answers,
                             Kb!KnowledgeBasesAssumption
  <1>3. dataset \in [Bases -> Kb!KnowledgeBaseSummary]
    BY DEF Kb!Init, Kb!KnowledgeBaseSummary, Kb!KnowledgeBasesAssumption
  <1>4. document \in [Kb!Docs -> Kb!KnowledgeDocument]
    BY <1>1 DEF Kb!Init, Kb!KnowledgeDocument, Kb!DocumentParsingStatus, Kb!KnowledgeBasesAssumption
  <1>5. owner \in [Bases -> Tenants \cup {NoTenant}]
    BY DEF Kb!Init, Kb!KnowledgeBasesAssumption
  <1>6. wanted \in [KbRequests -> Request]
    BY <1>2 DEF Kb!Init
  <1>7. Accounts(dataset, owner)
    BY DEF Kb!Init, Accounts, Kb!KnowledgeBasesAssumption
  <1>8. \A r \in KbRequests : /\ wanted[r].call = "none" /\ wanted[r].wire = "none"
                             /\ wanted[r].answer = "none" /\ wanted[r].phase = "idle"
                             /\ wanted[r].op = "get"
    BY DEF Kb!Init, Kb!NoRequest
  <1>9. Apart(wanted)
    BY <1>8 DEF Apart, Creator
  <1>10. \A r \in KbRequests : SoundCall(r, wanted[r], dataset, document, owner)
    BY <1>8 DEF SoundCall, Phased, Told, Informed, Aware, Creator, No
  <1> QED BY <1>3, <1>4, <1>5, <1>6, <1>7, <1>9, <1>10 DEF KInv, KTyped

\* What a step does to datasets, owners, the documents requests upload, and to what
\* creators wait to own.
Datasets ==
  \A b \in Bases : dataset[b].state # "none" =>
     /\ dataset'[b].state # "none" /\ dataset'[b].tenant = dataset[b].tenant
     /\ dataset'[b].state = "present" => dataset[b].state = "present"
Owners ==
  \A b \in Bases : owner[b] # NoTenant /\ dataset'[b].state = "present" => owner'[b] = owner[b]
Progressed == {"parsing", "completed", "failed"}
DocumentsOf(S) ==
  \A d \in S :
     /\ document'[d].base = document[d].base
     /\ document[d].status \in Progressed =>
          document'[d].status \in Progressed \/ dataset'[document[d].base].state # "present"
OwnedByDefault(S) ==
  \A s \in S :
     Creator(wanted[s]) /\ owner[wanted[s].base] = NoTenant /\ owner'[wanted[s].base] # NoTenant
       => wanted[s].tenant = Default

\* A wanted that a step does not touch stays sound.
LEMMA OthersSound ==
  ASSUME Kb!KnowledgeBasesAssumption, KInv, Datasets, Owners,
         dataset' \in [Bases -> Kb!KnowledgeBaseSummary],
         NEW S \in SUBSET KbRequests, DocumentsOf(S), OwnedByDefault(S), NEW s \in S
  PROVE  SoundCall(s, wanted[s], dataset', document', owner')
  <1> DEFINE q == wanted[s]
  <1>1. q \in Request /\ q.base \in Bases /\ q.seen \in SUBSET Bases /\ q.tenant \in Tenants
    BY DEF KInv, KTyped, Request
  <1>3. SoundCall(s, q, dataset, document, owner)
    BY DEF KInv
  <1>4. dataset'[q.base] \in Kb!KnowledgeBaseSummary /\ dataset[q.base] \in Kb!KnowledgeBaseSummary
    BY <1>1 DEF KInv, KTyped
  <1> HIDE DEF q
  <1>a. Phased(s, q) /\ Told(q) /\ Informed(s, q, dataset, document, owner)
    BY <1>3 DEF SoundCall
  <1>b. dataset[q.base].state # "none" =>
          /\ dataset'[q.base].state # "none" /\ dataset'[q.base].tenant = dataset[q.base].tenant
          /\ dataset'[q.base].state = "present" => dataset[q.base].state = "present"
    BY <1>1 DEF Datasets
  <1>5. Aware(q) => dataset'[q.base].state # "none" /\ dataset'[q.base].tenant = q.tenant
    BY <1>a, <1>b DEF Informed
  <1>6. q.call = "delete" /\ q.wire \in {"applied", "missing"} => dataset'[q.base].state = "gone"
    BY <1>a, <1>b, <1>4 DEF Informed, Aware, Kb!KnowledgeBaseSummary
  <1>7. q.call = "create" /\ q.answer = "ok" /\ dataset'[q.base].state = "present"
          => owner'[q.base] = q.tenant
    <2> SUFFICES ASSUME q.call = "create", q.answer = "ok", dataset'[q.base].state = "present"
                 PROVE  owner'[q.base] = q.tenant
      OBVIOUS
    <2>1. q.op = "create" /\ q.wire = "applied"
      BY <1>a DEF Phased, Told
    <2>2. dataset[q.base].state = "present"
      BY <1>a, <1>b, <2>1 DEF Informed, Aware, Creator
    <2>3. owner[q.base] = q.tenant /\ q.tenant # NoTenant
      BY <1>1, <1>a, <2>2 DEF Informed, Kb!KnowledgeBasesAssumption
    <2> QED BY <1>1, <2>3 DEF Owners
  <1>8. q.call = "create" /\ q.wire = "applied" /\ q.phase \in {"wait", "claim"}
          /\ owner'[q.base] # NoTenant => q.tenant = Default
    BY <1>a DEF OwnedByDefault, Creator, Informed, q
  <1>9. q.call = "parse" \/ (q.call = "upload" /\ q.wire = "applied") => document'[s].base = q.base
    BY <1>a DEF DocumentsOf, Informed
  <1>10. q.call = "parse" /\ q.wire = "applied" /\ (q.phase = "wait" \/ q.answer = "ok")
          /\ dataset'[q.base].state = "present"
          => document'[s].status \in Progressed
    <2> SUFFICES ASSUME q.call = "parse", q.wire = "applied", q.phase = "wait" \/ q.answer = "ok",
                        dataset'[q.base].state = "present"
                 PROVE  document'[s].status \in Progressed
      OBVIOUS
    <2>1. dataset[q.base].state = "present"
      BY <1>a, <1>b DEF Informed, Aware
    <2>2. document[s].status \in Progressed /\ document[s].base = q.base
      BY <1>a, <2>1 DEF Informed, Progressed
    <2> QED BY <2>2 DEF DocumentsOf
  <1>11. q.phase = "adopt" =>
           q.tenant = Default
             /\ \A b \in q.seen : dataset'[b].state # "none" /\ dataset'[b].tenant = Default
    BY <1>1, <1>a DEF Datasets, Informed
  <1>12. Informed(s, q, dataset', document', owner')
    BY <1>5, <1>6, <1>7, <1>8, <1>9, <1>10, <1>11 DEF Informed, Progressed
  <1> QED BY <1>a, <1>12 DEF SoundCall, q

\* What is left to show of a step of one wanted.
LEMMA OneRequest ==
  ASSUME Kb!KnowledgeBasesAssumption, KInv, KTyped', Accounts(dataset', owner'), Datasets, Owners,
         NEW r \in KbRequests, NEW q, wanted' = [wanted EXCEPT ![r] = q],
         DocumentsOf(KbRequests \ {r}), OwnedByDefault(KbRequests \ {r}),
         SoundCall(r, q, dataset', document', owner'),
         Creator(q) => \A s \in KbRequests \ {r} : Creator(wanted[s]) => wanted[s].base # q.base
  PROVE  KInv'
  <1>1. wanted'[r] = q /\ \A s \in KbRequests \ {r} : wanted'[s] = wanted[s]
    BY DEF KInv, KTyped
  <1>2. \A s \in KbRequests \ {r} : SoundCall(s, wanted[s], dataset', document', owner')
    BY OthersSound DEF KTyped
  <1>3. \A s \in KbRequests : SoundCall(s, wanted'[s], dataset', document', owner')
    BY <1>1, <1>2
  <1>4. Apart(wanted')
    BY <1>1 DEF KInv, Apart
  <1> QED BY <1>3, <1>4 DEF KInv

\* A step of one wanted that leaves datasets, documents and owners as they are.
LEMMA NothingMoves ==
  ASSUME Kb!KnowledgeBasesAssumption, KInv, UNCHANGED <<dataset, document, owner>>,
         NEW r \in KbRequests, NEW q \in Request, wanted' = [wanted EXCEPT ![r] = q],
         SoundCall(r, q, dataset, document, owner),
         Creator(q) => Creator(wanted[r]) /\ wanted[r].base = q.base
  PROVE  KInv'
  <1>1. KTyped' /\ Accounts(dataset', owner')
    BY DEF KInv, KTyped
  <1>2. Datasets /\ Owners /\ DocumentsOf(KbRequests \ {r}) /\ OwnedByDefault(KbRequests \ {r})
    BY DEF Datasets, Owners, DocumentsOf, OwnedByDefault
  <1>3. Creator(q) => \A s \in KbRequests \ {r} : Creator(wanted[s]) => wanted[s].base # q.base
    BY DEF KInv, Apart
  <1> QED BY <1>1, <1>2, <1>3, OneRequest

-----------------------------------------------------------------------------
(* Steps that leave datasets, documents and owners as they are *)

LEMMA ChangedFields ==
  ASSUME NEW r, wanted[r] \in Request
  PROVE  /\ \A p \in Kb!Phases : /\ Kb!Moved(r, p) \in Request
                                 /\ Kb!Moved(r, p) = [wanted[r] EXCEPT !.phase = p]
         /\ \A a \in Kb!Answers : /\ Kb!Answered(r, a) \in Request
                                  /\ Kb!Answered(r, a) = [wanted[r] EXCEPT !.phase = "done", !.answer = a]
         /\ \A c \in Calls : /\ Kb!Sending(r, c) \in Request
                             /\ Kb!Sending(r, c) = [wanted[r] EXCEPT !.phase = "send", !.call = c]
  BY DEF Kb!Moved, Kb!Answered, Kb!Sending, Request, Kb!Phases, Kb!Answers

\* A wanted that ends, and the answer it gives.
LEMMA Ends ==
  ASSUME Kb!KnowledgeBasesAssumption, KInv, NEW r \in KbRequests, NEW a \in Kb!Answers,
         UNCHANGED <<dataset, document, owner>>, Kb!Set(r, Kb!Answered(r, a)),
         a \in No => wanted[r].wire # "sent" /\ (wanted[r].wire = "applied" => wanted[r].call = "undo"),
         a = "ok" => /\ wanted[r].op # "create"
                     /\ wanted[r].op = "delete" =>
                          wanted[r].call = "delete" /\ wanted[r].wire \in {"applied", "missing"}
                     /\ wanted[r].op = "upload" =>
                          wanted[r].call = "parse" /\ wanted[r].wire = "applied" /\ wanted[r].phase = "wait"
  PROVE  KInv'
  <1> DEFINE o == wanted[r]
             q == Kb!Answered(r, a)
  <1>1. o \in Request /\ SoundCall(r, o, dataset, document, owner)
    BY DEF KInv, KTyped
  <1>2. q \in Request /\ q = [o EXCEPT !.phase = "done", !.answer = a]
    BY <1>1, ChangedFields
  <1>3. /\ q.phase = "done" /\ q.answer = a /\ q.op = o.op /\ q.tenant = o.tenant /\ q.base = o.base
        /\ q.doc = o.doc /\ q.call = o.call /\ q.wire = o.wire
    BY <1>1, <1>2 DEF Request
  <1> HIDE DEF q
  <1>4. Phased(r, q)
    BY <1>1, <1>3 DEF SoundCall, Phased
  <1>5. Told(q)
    BY <1>3 DEF Told
  <1>6. Creator(q) = Creator(o) /\ Aware(q) = Aware(o)
    BY <1>3 DEF Creator, Aware
  <1>7. Informed(r, q, dataset, document, owner)
    BY <1>1, <1>3, <1>6 DEF SoundCall, Phased, Informed
  <1>8. SoundCall(r, q, dataset, document, owner)
    BY <1>4, <1>5, <1>7 DEF SoundCall
  <1>9. wanted' = [wanted EXCEPT ![r] = q]
    BY DEF Kb!Set, q
  <1> QED BY <1>2, <1>3, <1>6, <1>8, <1>9, NothingMoves

\* A wanted that goes on, with the call it made before.
LEMMA MovesOn ==
  ASSUME Kb!KnowledgeBasesAssumption, KInv, NEW r \in KbRequests, NEW p \in Kb!Phases \ {"done"},
         UNCHANGED <<dataset, document, owner>>, Kb!Set(r, Kb!Moved(r, p)),
         wanted[r].phase # "done",
         Phased(r, Kb!Moved(r, p)),
         p = "wait" => wanted[r].phase = "wait", p = "adopt" => wanted[r].phase = "adopt",
         p = "claim" => wanted[r].phase = "wait"
  PROVE  KInv'
  <1> DEFINE o == wanted[r]
             q == Kb!Moved(r, p)
  <1>1. o \in Request /\ SoundCall(r, o, dataset, document, owner)
    BY DEF KInv, KTyped
  <1>2. q \in Request /\ q = [o EXCEPT !.phase = p]
    BY <1>1, ChangedFields
  <1>3. /\ q.phase = p /\ q.answer = o.answer /\ q.op = o.op /\ q.tenant = o.tenant
        /\ q.base = o.base /\ q.doc = o.doc /\ q.call = o.call /\ q.wire = o.wire /\ q.seen = o.seen
    BY <1>1, <1>2 DEF Request
  <1> HIDE DEF q
  <1>4. Phased(r, q)
    BY DEF q
  <1>5. Told(q)
    BY <1>1, <1>3 DEF SoundCall, Told
  <1>6. Creator(q) = Creator(o) /\ Aware(q) = Aware(o)
    BY <1>3 DEF Creator, Aware
  <1>7. Informed(r, q, dataset, document, owner)
    BY <1>1, <1>3, <1>6 DEF SoundCall, Phased, Informed
  <1>8. SoundCall(r, q, dataset, document, owner)
    BY <1>4, <1>5, <1>7 DEF SoundCall
  <1>9. wanted' = [wanted EXCEPT ![r] = q]
    BY DEF Kb!Set, q
  <1> QED BY <1>2, <1>3, <1>6, <1>8, <1>9, NothingMoves

\* A wanted that is about to make a call it may make.
LEMMA TurnsTo ==
  ASSUME Kb!KnowledgeBasesAssumption, KInv, NEW r \in KbRequests,
         NEW c \in Calls \ {"none", "list"},
         UNCHANGED <<dataset, document, owner>>, Kb!Set(r, Kb!Sending(r, c)),
         wanted[r].phase # "done",
         Phased(r, Kb!Sending(r, c)),
         c # "create" => /\ dataset[wanted[r].base].state # "none"
                         /\ dataset[wanted[r].base].tenant = wanted[r].tenant,
         c \in {"create", "delete", "upload"} => wanted[r].wire = "none",
         c = "parse" => document[r].base = wanted[r].base,
         c = "undo" => Creator(wanted[r])
  PROVE  KInv'
  <1> DEFINE o == wanted[r]
             q == Kb!Sending(r, c)
  <1>1. o \in Request /\ SoundCall(r, o, dataset, document, owner)
    BY DEF KInv, KTyped
  <1>2. q \in Request /\ q = [o EXCEPT !.phase = "send", !.call = c]
    BY <1>1, ChangedFields
  <1>3. /\ q.phase = "send" /\ q.answer = o.answer /\ q.op = o.op /\ q.tenant = o.tenant
        /\ q.base = o.base /\ q.doc = o.doc /\ q.call = c /\ q.wire = o.wire /\ q.seen = o.seen
    BY <1>1, <1>2 DEF Request
  <1> HIDE DEF q
  <1>4. Phased(r, q) /\ q.answer = "none"
    BY <1>1, <1>3 DEF q, SoundCall, Phased
  <1>5. Told(q)
    BY <1>4 DEF Told, No
  <1>6. Creator(q) => Creator(o)
    BY <1>3 DEF Creator
  <1>7. Informed(r, q, dataset, document, owner)
    BY <1>3, <1>4 DEF Informed, Aware, Creator
  <1>8. SoundCall(r, q, dataset, document, owner)
    BY <1>4, <1>5, <1>7 DEF SoundCall
  <1>9. wanted' = [wanted EXCEPT ![r] = q]
    BY DEF Kb!Set, q
  <1> QED BY <1>2, <1>3, <1>6, <1>8, <1>9, NothingMoves

\* Every action of a wanted that tells RAGFlow and the owners' table nothing.
LEMMA AsksKeeps ==
  ASSUME Kb!KnowledgeBasesAssumption, KInv, NEW r \in KbRequests, Kb!Asks(r)
  PROVE  KInv'
  <1>1. wanted[r].base \in Bases /\ r \in Kb!Docs
    BY DEF KInv, KTyped, Request, Kb!Docs
  <1>2. Kb!SomeBase \in Bases /\ Kb!NoRequest.doc \in Kb!Docs
    BY <1>1 DEF Kb!SomeBase, Kb!NoRequest
  <1>3. ASSUME NEW op \in Kb!Ops, NEW t \in Tenants, NEW b \in Bases, NEW d \in Kb!Docs,
               Kb!Arrives(r, op, t, b, d), op = "upload" => d = r
        PROVE  KInv'
    <2> DEFINE q == [Kb!NoRequest EXCEPT !.phase = "available", !.op = op, !.tenant = t,
                                         !.base = b, !.doc = d]
    <2>1. /\ q \in Request /\ q.phase = "available" /\ q.op = op /\ q.doc = d /\ q.call = "none"
          /\ q.wire = "none" /\ q.answer = "none"
      BY DEF Kb!NoRequest, Request, Kb!Phases, Calls, Wires, Kb!Answers
    <2>2. wanted' = [wanted EXCEPT ![r] = q] /\ UNCHANGED <<dataset, document, owner>>
      BY <1>3 DEF Kb!Arrives, Kb!Set
    <2> HIDE DEF q
    <2>3. SoundCall(r, q, dataset, document, owner)
      BY <1>3, <2>1 DEF SoundCall, Phased, Told, Informed, Aware, Creator, No
    <2>4. ~Creator(q)
      BY <2>1 DEF Creator
    <2> QED BY <2>1, <2>2, <2>3, <2>4, NothingMoves
  <1>4. ASSUME NEW d \in Kb!Docs PROVE document[d].base \in Bases
    BY DEF KInv, KTyped, Kb!KnowledgeDocument
  <1> QED BY <1>1, <1>2, <1>3, <1>4 DEF Kb!Asks, Kb!Ops

LEMMA EnsuresAvailableKeeps ==
  ASSUME Kb!KnowledgeBasesAssumption, KInv, NEW r \in KbRequests, Kb!EnsuresAvailable(r)
  PROVE  KInv'
  <1> DEFINE o == wanted[r]
  <1>1. o \in Request /\ Phased(r, o) /\ o.phase = "available"
        /\ UNCHANGED <<dataset, document, owner>>
    BY DEF KInv, KTyped, SoundCall, Kb!EnsuresAvailable, Kb!At
  <1>2. CASE o.op = "create"
    <2>1. Kb!Set(r, Kb!Sending(r, "create"))
      BY <1>2 DEF Kb!EnsuresAvailable
    <2>2. Phased(r, Kb!Sending(r, "create"))
      BY <1>1, <1>2 DEF Kb!Sending, Phased, Request
    <2> QED BY <1>1, <2>1, <2>2, TurnsTo DEF Phased, Calls, Kb!Ops
  <1>3. CASE o.op = "list"
    <2>1. Kb!Set(r, Kb!Moved(r, "read"))
      BY <1>3 DEF Kb!EnsuresAvailable
    <2>2. Phased(r, Kb!Moved(r, "read"))
      BY <1>1, <1>3 DEF Kb!Moved, Phased, Request
    <2> QED BY <1>1, <2>1, <2>2, MovesOn DEF Kb!Phases
  <1>4. CASE o.op \notin {"create", "list"}
    <2>1. Kb!Set(r, Kb!Moved(r, "owned"))
      BY <1>4 DEF Kb!EnsuresAvailable
    <2>2. Phased(r, Kb!Moved(r, "owned"))
      BY <1>1, <1>4 DEF Kb!Moved, Phased, Request, Kb!Ops
    <2> QED BY <1>1, <2>1, <2>2, MovesOn DEF Kb!Phases
  <1> QED BY <1>2, <1>3, <1>4

LEMMA UnavailableKeeps ==
  ASSUME Kb!KnowledgeBasesAssumption, KInv, NEW r \in KbRequests, Kb!Unavailable(r)
  PROVE  KInv'
  BY Ends DEF Kb!Unavailable, Kb!Answers, No

LEMMA EnsuresOwnedKeeps ==
  ASSUME Kb!KnowledgeBasesAssumption, KInv, NEW r \in KbRequests, Kb!EnsuresOwned(r)
  PROVE  KInv'
  <1> DEFINE o == wanted[r]
  <1>1. /\ o \in Request /\ Phased(r, o) /\ o.phase = "owned"
           /\ UNCHANGED <<dataset, document, owner>>
        /\ o.call = "none" /\ o.wire = "none"
           /\ o.op \in {"get", "update", "delete", "upload", "retry"}
    BY DEF KInv, KTyped, SoundCall, Phased, Kb!EnsuresOwned, Kb!At
  <1>2. CASE owner[o.base] # o.tenant
    <2>1. Kb!Set(r, Kb!Answered(r, "not_found"))
      BY <1>2 DEF Kb!EnsuresOwned
    <2> QED BY <1>1, <2>1, Ends DEF Kb!Answers
  <1>3. CASE owner[o.base] = o.tenant /\ o.op = "retry"
    <2>1. Kb!Set(r, Kb!Moved(r, "read"))
      BY <1>3 DEF Kb!EnsuresOwned
    <2>2. Phased(r, Kb!Moved(r, "read"))
      BY <1>1, <1>3 DEF Kb!Moved, Phased, Request
    <2> QED BY <1>1, <2>1, <2>2, MovesOn DEF Kb!Phases
  <1>4. CASE owner[o.base] = o.tenant /\ o.op # "retry"
    <2>1. Kb!Set(r, Kb!Sending(r, o.op))
      BY <1>4 DEF Kb!EnsuresOwned
    <2>2. Phased(r, Kb!Sending(r, o.op))
      BY <1>1, <1>4 DEF Kb!Sending, Phased, Request
    <2>3. dataset[o.base].state # "none" /\ dataset[o.base].tenant = o.tenant
      BY <1>1, <1>4 DEF KInv, Accounts, Request, Kb!KnowledgeBasesAssumption
    <2> QED BY <1>1, <1>4, <2>1, <2>2, <2>3, TurnsTo DEF Calls, Kb!Ops
  <1> QED BY <1>2, <1>3, <1>4

LEMMA ReadsDocumentKeeps ==
  ASSUME Kb!KnowledgeBasesAssumption, KInv, NEW r \in KbRequests, Kb!ReadsDocument(r)
  PROVE  KInv'
  <1> DEFINE o == wanted[r]
             readable == Kb!Present(o.base) /\ dataset[o.base].tenant = o.tenant
  <1>1. /\ o \in Request /\ Phased(r, o) /\ o.phase = "read"
           /\ UNCHANGED <<dataset, document, owner>>
        /\ o.call = "none" /\ o.wire = "none" /\ o.op = "retry"
    BY DEF KInv, KTyped, SoundCall, Phased, Kb!ReadsDocument, Kb!At
  <1>2. CASE ~readable \/ document[o.doc].status = "none"
    <2>1. Kb!Set(r, Kb!Answered(r, "not_found"))
      BY <1>2 DEF Kb!ReadsDocument
    <2> QED BY <1>1, <2>1, Ends DEF Kb!Answers
  <1>3. CASE readable /\ document[o.doc].status \notin {"none", "failed"}
    <2>1. Kb!Set(r, Kb!Answered(r, "retry_rejected"))
      BY <1>3 DEF Kb!ReadsDocument
    <2> QED BY <1>1, <2>1, Ends DEF Kb!Answers
  <1>4. CASE readable /\ document[o.doc].status = "failed"
    <2>1. Kb!Set(r, Kb!Sending(r, "retry"))
      BY <1>4 DEF Kb!ReadsDocument
    <2>2. Phased(r, Kb!Sending(r, "retry"))
      BY <1>1 DEF Kb!Sending, Phased, Request
    <2>3. dataset[o.base].state # "none" /\ dataset[o.base].tenant = o.tenant
      BY <1>4 DEF Kb!Present
    <2> QED BY <1>1, <2>1, <2>2, <2>3, TurnsTo DEF Calls, Kb!Ops
  <1> QED BY <1>2, <1>3, <1>4

LEMMA SendsKeeps ==
  ASSUME Kb!KnowledgeBasesAssumption, KInv, NEW r \in KbRequests, Kb!Sends(r)
  PROVE  KInv'
  <1> DEFINE o == wanted[r]
             q == [Kb!Moved(r, "wait") EXCEPT !.wire = "sent"]
  <1>1. /\ o \in Request /\ SoundCall(r, o, dataset, document, owner) /\ o.phase = "send"
        /\ UNCHANGED <<dataset, document, owner>> /\ wanted' = [wanted EXCEPT ![r] = q]
    BY DEF KInv, KTyped, Kb!Sends, Kb!At, Kb!Set
  <1>2. /\ q \in Request /\ q.phase = "wait" /\ q.answer = o.answer /\ q.op = o.op
           /\ q.tenant = o.tenant
        /\ q.base = o.base /\ q.doc = o.doc /\ q.call = o.call /\ q.wire = "sent" /\ q.seen = o.seen
    BY <1>1 DEF Kb!Moved, Request, Kb!Phases, Wires
  <1> HIDE DEF q
  <1>3. Phased(r, q) /\ Told(q) /\ q.answer = "none"
    BY <1>1, <1>2 DEF SoundCall, Phased, Told, No
  <1>4. Creator(q) => Creator(o)
    BY <1>2 DEF Creator
  <1>5. Informed(r, q, dataset, document, owner)
    BY <1>1, <1>2, <1>3 DEF SoundCall, Phased, Informed, Aware, Creator
  <1> QED BY <1>1, <1>2, <1>3, <1>4, <1>5, NothingMoves DEF SoundCall

LEMMA ReceivesKeeps ==
  ASSUME Kb!KnowledgeBasesAssumption, KInv, NEW r \in KbRequests, Kb!Receives(r)
  PROVE  KInv'
  <1> DEFINE o == wanted[r]
  <1>1. /\ o \in Request /\ SoundCall(r, o, dataset, document, owner) /\ o.phase = "wait"
        /\ UNCHANGED <<dataset, document, owner>> /\ Kb!Set(r, Kb!Arrived(r))
        /\ o.wire \in {"applied", "rejected", "missing"}
    BY DEF KInv, KTyped, SoundCall, Phased, Kb!Receives, Kb!At, Request, Wires
  <1>2. CASE o.call = "create"
    <2>1. CASE o.wire = "applied"
      <3>1. Kb!Set(r, Kb!Moved(r, "claim"))
        BY <1>1, <1>2, <2>1 DEF Kb!Arrived
      <3>2. Phased(r, Kb!Moved(r, "claim"))
        BY <1>1, <1>2, <2>1 DEF Kb!Moved, SoundCall, Phased, Request
      <3> QED BY <1>1, <3>1, <3>2, MovesOn DEF Kb!Phases
    <2>2. CASE o.wire # "applied"
      <3>1. Kb!Set(r, Kb!Answered(r, "rejected"))
        BY <1>1, <1>2, <2>2 DEF Kb!Arrived
      <3> QED BY <1>1, <2>2, <3>1, Ends DEF Kb!Answers
    <2> QED BY <2>1, <2>2
  <1>3. CASE o.call = "delete"
    <2>1. CASE o.wire = "rejected"
      <3>1. Kb!Set(r, Kb!Answered(r, "rejected"))
        BY <1>1, <1>3, <2>1 DEF Kb!Arrived
      <3> QED BY <1>1, <2>1, <3>1, Ends DEF Kb!Answers
    <2>2. CASE o.wire # "rejected"
      <3>1. Kb!Set(r, Kb!Moved(r, "release"))
        BY <1>1, <1>3, <2>2 DEF Kb!Arrived
      <3>2. Phased(r, Kb!Moved(r, "release"))
        BY <1>1, <1>3, <2>2 DEF Kb!Moved, SoundCall, Phased, Request
      <3> QED BY <1>1, <3>1, <3>2, MovesOn DEF Kb!Phases
    <2> QED BY <2>1, <2>2
  <1>4. CASE o.call = "undo"
    <2>1. PICK a \in {"rejected", "not_found"} : Kb!Set(r, Kb!Answered(r, a))
      BY <1>1, <1>4 DEF Kb!Arrived
    <2> QED BY <1>1, <1>4, <2>1, Ends DEF Kb!Answers
  <1>5. CASE o.call = "upload"
    <2>1. CASE o.wire = "applied"
      <3>1. Kb!Set(r, Kb!Sending(r, "parse"))
        BY <1>1, <1>5, <2>1 DEF Kb!Arrived
      <3>2. Phased(r, Kb!Sending(r, "parse"))
        BY <1>1, <1>5, <2>1 DEF Kb!Sending, SoundCall, Phased, Request
      <3>3. /\ dataset[o.base].state # "none" /\ dataset[o.base].tenant = o.tenant
            /\ document[r].base = o.base
        BY <1>1, <1>5, <2>1 DEF SoundCall, Informed, Aware
      <3> QED BY <1>1, <3>1, <3>2, <3>3, TurnsTo DEF Calls
    <2>2. CASE o.wire # "applied"
      <3>1. Kb!Set(r, Kb!Answered(r, "upload_failed"))
        BY <1>1, <1>5, <2>2 DEF Kb!Arrived
      <3> QED BY <1>1, <2>2, <3>1, Ends DEF Kb!Answers
    <2> QED BY <2>1, <2>2
  <1>6. CASE o.call \in {"parse", "retry"}
    <2>1. CASE o.wire = "applied"
      <3>1. Kb!Set(r, Kb!Answered(r, "ok"))
        BY <1>1, <1>6, <2>1 DEF Kb!Arrived
      <3>2. o.op \in {"upload", "retry"} /\ (o.op = "upload" => o.call = "parse")
        BY <1>1, <1>6 DEF SoundCall, Phased
      <3> QED BY <1>1, <2>1, <3>1, <3>2, Ends DEF Kb!Answers, No
    <2>2. CASE o.wire # "applied"
      <3>1. Kb!Set(r, Kb!Answered(r, "unknown"))
        BY <1>1, <1>6, <2>2 DEF Kb!Arrived
      <3> QED BY <1>1, <3>1, Ends DEF Kb!Answers, No
    <2> QED BY <2>1, <2>2
  <1>7. CASE o.call \in {"get", "update"}
    <2>1. CASE o.wire = "applied"
      <3>1. Kb!Set(r, Kb!Answered(r, "ok"))
        BY <1>1, <1>7, <2>1 DEF Kb!Arrived
      <3>2. o.op \in {"get", "update"}
        BY <1>1, <1>7 DEF SoundCall, Phased
      <3> QED BY <1>1, <3>1, <3>2, Ends DEF Kb!Answers, No
    <2>2. CASE o.wire # "applied"
      <3>1. PICK a \in {"not_found", "rejected"} : Kb!Set(r, Kb!Answered(r, a))
        BY <1>1, <1>7, <2>2 DEF Kb!Arrived
      <3> QED BY <1>1, <2>2, <3>1, Ends DEF Kb!Answers
    <2> QED BY <2>1, <2>2
  <1>8. o.call \in {"create", "delete", "undo", "upload", "parse", "retry", "get", "update"}
    BY <1>1 DEF SoundCall, Phased, Request, Calls, Kb!Ops
  <1> QED BY <1>2, <1>3, <1>4, <1>5, <1>6, <1>7, <1>8

LEMMA ReceivesInvalidKeeps ==
  ASSUME Kb!KnowledgeBasesAssumption, KInv, NEW r \in KbRequests, Kb!ReceivesInvalid(r)
  PROVE  KInv'
  <1>1. PICK a \in {"unknown", "invalid"} : Kb!Set(r, Kb!Answered(r, a))
    BY DEF Kb!ReceivesInvalid, Kb!Unreadable
  <1> QED BY <1>1, Ends DEF Kb!ReceivesInvalid, Kb!Answers, No

LEMMA TimesOutKeeps ==
  ASSUME Kb!KnowledgeBasesAssumption, KInv, NEW r \in KbRequests, Kb!TimesOut(r)
  PROVE  KInv'
  <1>1. PICK a \in {"unavailable", "unknown"} : Kb!Set(r, Kb!Answered(r, a))
    BY DEF Kb!TimesOut, Kb!Unanswered, Kb!WithoutAnswer
  <1> QED BY <1>1, Ends DEF Kb!TimesOut, Kb!Answers, No

LEMMA RequestLostKeeps ==
  ASSUME Kb!KnowledgeBasesAssumption, KInv, NEW r \in KbRequests, Kb!RequestLost(r)
  PROVE  KInv'
  BY Ends DEF Kb!RequestLost, Kb!Answers, No

LEMMA ReadsPageKeeps ==
  ASSUME Kb!KnowledgeBasesAssumption, KInv, NEW r \in KbRequests, Kb!ReadsPage(r)
  PROVE  KInv'
  <1> DEFINE o == wanted[r]
  <1>1. /\ o \in Request /\ SoundCall(r, o, dataset, document, owner) /\ o.phase = "read"
           /\ o.op = "list"
        /\ UNCHANGED <<dataset, document, owner>>
    BY DEF KInv, KTyped, Kb!ReadsPage, Kb!At
  <1>2. PICK S \in SUBSET {b \in Bases : Kb!Present(b) /\ dataset[b].tenant = o.tenant} :
          Kb!Set(r, [Kb!Moved(r, IF o.tenant = Default /\ S # {} THEN "adopt" ELSE "answer")
                    EXCEPT !.seen = S])
    BY DEF Kb!ReadsPage
  <1> DEFINE p == IF o.tenant = Default /\ S # {} THEN "adopt" ELSE "answer"
             q == [Kb!Moved(r, p) EXCEPT !.seen = S]
  <1>3. p \in Kb!Phases /\ p \in {"adopt", "answer"} /\ (p = "adopt" => o.tenant = Default)
    BY DEF Kb!Phases
  <1> HIDE DEF p
  <1>4. /\ q \in Request /\ q.phase = p /\ q.answer = o.answer /\ q.op = o.op /\ q.tenant = o.tenant
        /\ q.base = o.base /\ q.doc = o.doc /\ q.call = o.call /\ q.wire = o.wire /\ q.seen = S
    BY <1>1, <1>3 DEF Kb!Moved, Request
  <1>5. wanted' = [wanted EXCEPT ![r] = q]
    BY <1>2 DEF Kb!Set, p
  <1> HIDE DEF q
  <1>6. Phased(r, q) /\ Told(q) /\ q.call = "none"
    BY <1>1, <1>3, <1>4 DEF SoundCall, Phased, Told
  <1>7. Informed(r, q, dataset, document, owner)
    BY <1>2, <1>3, <1>4, <1>6 DEF Informed, Aware, Creator, Kb!Present
  <1> QED BY <1>1, <1>4, <1>5, <1>6, <1>7, NothingMoves DEF SoundCall, Creator

LEMMA AnswersListKeeps ==
  ASSUME Kb!KnowledgeBasesAssumption, KInv, NEW r \in KbRequests, Kb!AnswersList(r)
  PROVE  KInv'
  <1> DEFINE o == wanted[r]
             S == {b \in o.seen : owner[b] = o.tenant}
             q == [Kb!Answered(r, "ok") EXCEPT !.seen = S]
  <1>1. /\ o \in Request /\ SoundCall(r, o, dataset, document, owner) /\ o.phase = "answer"
        /\ UNCHANGED <<dataset, document, owner>>
    BY DEF KInv, KTyped, Kb!AnswersList, Kb!At
  <1>2. wanted' = [wanted EXCEPT ![r] = q]
    BY <1>1 DEF Kb!AnswersList, Kb!Set, Kb!Answered, Request
  <1>3. /\ q \in Request /\ q.phase = "done" /\ q.answer = "ok" /\ q.op = o.op
           /\ q.tenant = o.tenant
        /\ q.base = o.base /\ q.doc = o.doc /\ q.call = o.call /\ q.wire = o.wire
    BY <1>1 DEF Kb!Answered, Request, Kb!Phases, Kb!Answers
  <1> HIDE DEF q
  <1>4. Phased(r, q) /\ Told(q) /\ q.call = "none" /\ q.op = "list"
    BY <1>1, <1>3 DEF SoundCall, Phased, Told, No
  <1>5. Informed(r, q, dataset, document, owner)
    BY <1>3, <1>4 DEF Informed, Aware, Creator
  <1> QED BY <1>1, <1>2, <1>3, <1>4, <1>5, NothingMoves DEF SoundCall, Creator

LEMMA TurnedDownKeeps ==
  ASSUME Kb!KnowledgeBasesAssumption, KInv, NEW r \in KbRequests, Kb!Refused(r)
  PROVE  KInv'
  <1> DEFINE o == wanted[r]
             w == IF o.call = "create" \/ Kb!Reaches(o) THEN "rejected" ELSE "missing"
             q == [o EXCEPT !.wire = w]
  <1>1. /\ o \in Request /\ SoundCall(r, o, dataset, document, owner) /\ o.wire = "sent"
        /\ UNCHANGED <<dataset, document, owner>> /\ wanted' = [wanted EXCEPT ![r] = q]
    BY DEF KInv, KTyped, Kb!Refused, Kb!Set
  <1>2. /\ q \in Request /\ q.phase = o.phase /\ q.answer = o.answer /\ q.op = o.op
        /\ q.tenant = o.tenant /\ q.base = o.base /\ q.doc = o.doc /\ q.call = o.call
        /\ q.wire = w /\ q.seen = o.seen
    BY <1>1 DEF Request, Wires
  <1>3. w \in {"rejected", "missing"} /\ (w = "missing" => o.call # "create" /\ ~Kb!Reaches(o))
    OBVIOUS
  <1> HIDE DEF q, w
  <1>4. dataset[o.base].state \in {"none", "present", "gone"}
    BY <1>1 DEF KInv, KTyped, Request, Kb!KnowledgeBaseSummary
  <1>5. Phased(r, q)
    BY <1>1, <1>2, <1>3 DEF SoundCall, Phased
  <1>6. Told(q)
    BY <1>1, <1>2, <1>3 DEF SoundCall, Told
  <1>7. Creator(q) => Creator(o)
    BY <1>2, <1>3 DEF Creator
  <1>8. q.call = "delete" /\ q.wire \in {"applied", "missing"} => dataset[q.base].state = "gone"
    BY <1>1, <1>2, <1>3, <1>4 DEF SoundCall, Informed, Aware, Kb!Reaches, Kb!Present
  <1>9. Informed(r, q, dataset, document, owner)
    BY <1>1, <1>2, <1>3, <1>7, <1>8 DEF SoundCall, Informed, Aware, Creator, Told
  <1> QED BY <1>1, <1>2, <1>5, <1>6, <1>7, <1>9, NothingMoves DEF SoundCall

-----------------------------------------------------------------------------
(* What RAGFlow carries out *)

Applied(r, b) == [wanted[r] EXCEPT !.wire = "applied", !.base = b]

\* A wanted whose call has been carried out is still what it was.
LEMMA AppliedFields ==
  ASSUME KInv, NEW r \in KbRequests, NEW b \in Bases, wanted[r].wire = "sent"
  PROVE  LET q == Applied(r, b) IN
         /\ q \in Request /\ q.phase = wanted[r].phase /\ q.answer = wanted[r].answer
         /\ q.op = wanted[r].op /\ q.tenant = wanted[r].tenant /\ q.base = b
         /\ q.doc = wanted[r].doc /\ q.call = wanted[r].call /\ q.wire = "applied"
         /\ q.seen = wanted[r].seen
         /\ Phased(r, q) /\ Told(q)
         /\ q.answer # "ok" \/ q.op \notin {"create", "delete", "upload"}
  <1> DEFINE o == wanted[r]
             q == Applied(r, b)
  <1>1. o \in Request /\ SoundCall(r, o, dataset, document, owner)
    BY DEF KInv, KTyped
  <1>2. /\ q \in Request /\ q.phase = o.phase /\ q.answer = o.answer
        /\ q.op = o.op /\ q.tenant = o.tenant /\ q.base = b
        /\ q.doc = o.doc /\ q.call = o.call /\ q.wire = "applied" /\ q.seen = o.seen
    BY <1>1 DEF Applied, Request, Wires
  <1> HIDE DEF q
  <1>3. Phased(r, q)
    BY <1>1, <1>2 DEF SoundCall, Phased
  <1>4. Told(q)
    BY <1>1, <1>2 DEF SoundCall, Told
  <1>5. q.answer # "ok" \/ q.op \notin {"create", "delete", "upload"}
    BY <1>1, <1>2 DEF SoundCall, Told
  <1> QED BY <1>2, <1>3, <1>4, <1>5 DEF q

LEMMA CreatedKeeps ==
  ASSUME Kb!KnowledgeBasesAssumption, KInv, NEW r \in KbRequests, wanted[r].wire = "sent",
         Kb!Created(r)
  PROVE  KInv'
  <1> DEFINE o == wanted[r]
  <1>1. PICK b \in Bases :
          /\ dataset[b].state = "none"
          /\ dataset' = [dataset EXCEPT ![b] = [state |-> "present", tenant |-> o.tenant]]
          /\ Kb!Set(r, [o EXCEPT !.wire = "applied", !.base = b])
    BY DEF Kb!Created
  <1> DEFINE q == Applied(r, b)
  <1>2. o \in Request /\ o.call = "create" /\ UNCHANGED <<document, owner>>
    BY DEF KInv, KTyped, Kb!Created
  <1>3. /\ q \in Request /\ q.phase = o.phase /\ q.answer = o.answer
        /\ q.op = o.op /\ q.tenant = o.tenant /\ q.base = b
        /\ q.call = "create" /\ q.wire = "applied" /\ q.seen = o.seen
        /\ Phased(r, q) /\ Told(q)
    BY <1>2, AppliedFields
  <1>4. q.answer # "ok"
    BY <1>2, <1>3, AppliedFields DEF Phased
  <1>5. wanted' = [wanted EXCEPT ![r] = q]
    BY <1>1 DEF Kb!Set, Applied
  <1> HIDE DEF q
  <1>6. o.tenant \in Tenants
    BY <1>2 DEF Request
  <1>7. /\ dataset' \in [Bases -> Kb!KnowledgeBaseSummary]
        /\ dataset'[b].state = "present" /\ dataset'[b].tenant = o.tenant
        /\ \A c \in Bases \ {b} : dataset'[c] = dataset[c]
    BY <1>1, <1>6 DEF KInv, KTyped, Kb!KnowledgeBaseSummary
  <1>8. KTyped'
    BY <1>2, <1>3, <1>5, <1>7 DEF KInv, KTyped
  <1>9. owner[b] = NoTenant
    BY <1>1 DEF KInv, Accounts
  <1>10. Accounts(dataset', owner')
    BY <1>2, <1>7, <1>9 DEF KInv, Accounts
  <1>11. Datasets /\ Owners /\ DocumentsOf(KbRequests \ {r}) /\ OwnedByDefault(KbRequests \ {r})
    BY <1>1, <1>2, <1>7 DEF Datasets, Owners, DocumentsOf, OwnedByDefault
  <1>12. o.phase # "adopt"
    BY <1>2 DEF KInv, SoundCall, Phased
  <1>13. Informed(r, q, dataset', document', owner')
    BY <1>2, <1>3, <1>4, <1>7, <1>9, <1>12 DEF Informed, Aware, Creator
  <1>14. ASSUME NEW s \in KbRequests \ {r}, Creator(wanted[s]) PROVE wanted[s].base # q.base
    BY <1>1, <1>3, <1>14 DEF KInv, SoundCall, Informed, Aware
  <1> QED BY <1>3, <1>5, <1>8, <1>10, <1>11, <1>13, <1>14, OneRequest DEF SoundCall

LEMMA DeletedKeeps ==
  ASSUME Kb!KnowledgeBasesAssumption, KInv, NEW r \in KbRequests, wanted[r].wire = "sent",
         Kb!Deleted(r)
  PROVE  KInv'
  <1> DEFINE o == wanted[r]
             q == Applied(r, o.base)
  <1>1. /\ o \in Request /\ o.call \in {"delete", "undo"} /\ o.base \in Bases /\ Kb!Reaches(o)
        /\ UNCHANGED owner /\ SoundCall(r, o, dataset, document, owner)
    BY DEF KInv, KTyped, Kb!Deleted, Request
  <1>2. /\ q \in Request /\ q.phase = o.phase /\ q.answer = o.answer
        /\ q.op = o.op /\ q.tenant = o.tenant /\ q.base = o.base
        /\ q.call = o.call /\ q.wire = "applied" /\ q.seen = o.seen
        /\ Phased(r, q) /\ Told(q)
    BY <1>1, AppliedFields
  <1>3. wanted' = [wanted EXCEPT ![r] = q]
    BY <1>1 DEF Kb!Deleted, Kb!Set, Request, Applied
  <1> HIDE DEF q
  <1>4. /\ dataset' \in [Bases -> Kb!KnowledgeBaseSummary]
        /\ dataset'[o.base].state = "gone" /\ dataset'[o.base].tenant = dataset[o.base].tenant
        /\ \A c \in Bases \ {o.base} : dataset'[c] = dataset[c]
    BY <1>1 DEF KInv, KTyped, Kb!Deleted, Kb!KnowledgeBaseSummary
  <1>5. /\ document' \in [Kb!Docs -> Kb!KnowledgeDocument]
        /\ \A d \in Kb!Docs : /\ document'[d].base = document[d].base
                              /\ document[d].base # o.base => document'[d] = document[d]
    BY DEF KInv, KTyped, Kb!Deleted, Kb!KnowledgeDocument
  <1>6. KTyped'
    BY <1>1, <1>2, <1>3, <1>4, <1>5 DEF KInv, KTyped
  <1>7. Accounts(dataset', owner')
    BY <1>1, <1>4 DEF KInv, Accounts
  <1>8. Datasets /\ Owners /\ OwnedByDefault(KbRequests \ {r})
    BY <1>1, <1>4 DEF Datasets, Owners, OwnedByDefault
  <1>9. DocumentsOf(KbRequests \ {r})
    <2>1. ASSUME NEW d \in KbRequests PROVE d \in Kb!Docs
      BY DEF Kb!Docs
    <2> QED BY <1>4, <1>5, <2>1 DEF DocumentsOf
  <1>10. Informed(r, q, dataset', document', owner')
    BY <1>1, <1>2, <1>4 DEF Informed, Aware, Creator, Kb!Reaches, Kb!Present, SoundCall, Phased
  <1>11. Creator(q) => Creator(o)
    BY <1>2, <1>1 DEF Creator
  <1>12. Creator(q) => \A s \in KbRequests \ {r} : Creator(wanted[s]) => wanted[s].base # q.base
    BY <1>2, <1>11 DEF KInv, Apart
  <1> QED BY <1>2, <1>3, <1>6, <1>7, <1>8, <1>9, <1>10, <1>12, OneRequest DEF SoundCall

LEMMA UploadedKeeps ==
  ASSUME Kb!KnowledgeBasesAssumption, KInv, NEW r \in KbRequests, wanted[r].wire = "sent",
         Kb!Uploaded(r)
  PROVE  KInv'
  <1> DEFINE o == wanted[r]
             q == Applied(r, o.base)
  <1>1. /\ o \in Request /\ o.call = "upload" /\ o.base \in Bases /\ Kb!Reaches(o) /\ r \in Kb!Docs
        /\ UNCHANGED <<dataset, owner>> /\ SoundCall(r, o, dataset, document, owner)
    BY DEF KInv, KTyped, Kb!Uploaded, Request, Kb!Docs
  <1>2. /\ q \in Request /\ q.phase = o.phase /\ q.answer = o.answer
        /\ q.op = o.op /\ q.tenant = o.tenant /\ q.base = o.base
        /\ q.call = o.call /\ q.wire = "applied" /\ q.seen = o.seen
        /\ Phased(r, q) /\ Told(q)
    BY <1>1, AppliedFields
  <1>3. wanted' = [wanted EXCEPT ![r] = q]
    BY <1>1 DEF Kb!Uploaded, Kb!Set, Request, Applied
  <1> HIDE DEF q
  <1>4. /\ document' \in [Kb!Docs -> Kb!KnowledgeDocument] /\ document'[r].base = o.base
        /\ \A d \in Kb!Docs \ {r} : document'[d] = document[d]
    BY <1>1 DEF KInv, KTyped, Kb!Uploaded, Kb!KnowledgeDocument, Kb!DocumentParsingStatus
  <1>5. KTyped'
    BY <1>1, <1>2, <1>3, <1>4 DEF KInv, KTyped
  <1>6. Accounts(dataset', owner') /\ Datasets /\ Owners /\ OwnedByDefault(KbRequests \ {r})
    BY <1>1 DEF KInv, Datasets, Owners, OwnedByDefault
  <1>7. DocumentsOf(KbRequests \ {r})
    <2>1. ASSUME NEW d \in KbRequests PROVE d \in Kb!Docs
      BY DEF Kb!Docs
    <2> QED BY <1>4, <2>1 DEF DocumentsOf
  <1>8. Informed(r, q, dataset', document', owner')
    BY <1>1, <1>2, <1>4 DEF Informed, Aware, Creator, Kb!Reaches, Kb!Present, SoundCall, Phased
  <1>9. ~Creator(q)
    BY <1>1, <1>2 DEF Creator
  <1> QED BY <1>2, <1>3, <1>5, <1>6, <1>7, <1>8, <1>9, OneRequest DEF SoundCall

LEMMA ParsingStartedKeeps ==
  ASSUME Kb!KnowledgeBasesAssumption, KInv, NEW r \in KbRequests, wanted[r].wire = "sent",
         Kb!ParsingStarted(r)
  PROVE  KInv'
  <1> DEFINE o == wanted[r]
             q == Applied(r, o.base)
  <1>1. /\ o \in Request /\ o.call \in {"parse", "retry"} /\ o.base \in Bases /\ Kb!Reaches(o)
        /\ o.doc \in Kb!Docs /\ r \in Kb!Docs
        /\ UNCHANGED <<dataset, owner>> /\ SoundCall(r, o, dataset, document, owner)
    BY DEF KInv, KTyped, Kb!ParsingStarted, Request, Kb!Docs
  <1>2. /\ q \in Request /\ q.phase = o.phase /\ q.answer = o.answer
        /\ q.op = o.op /\ q.tenant = o.tenant /\ q.base = o.base
        /\ q.call = o.call /\ q.wire = "applied" /\ q.seen = o.seen
        /\ Phased(r, q) /\ Told(q)
    BY <1>1, AppliedFields
  <1>3. wanted' = [wanted EXCEPT ![r] = q]
    BY <1>1 DEF Kb!ParsingStarted, Kb!Set, Request, Applied
  <1> HIDE DEF q
  <1>4. /\ document' \in [Kb!Docs -> Kb!KnowledgeDocument] /\ document'[o.doc].status = "parsing"
        /\ \A d \in Kb!Docs : /\ document'[d].base = document[d].base
                              /\ d # o.doc => document'[d] = document[d]
    BY <1>1 DEF KInv, KTyped, Kb!ParsingStarted, Kb!KnowledgeDocument, Kb!DocumentParsingStatus
  <1>5. KTyped'
    BY <1>1, <1>2, <1>3, <1>4 DEF KInv, KTyped
  <1>6. Accounts(dataset', owner') /\ Datasets /\ Owners /\ OwnedByDefault(KbRequests \ {r})
    BY <1>1 DEF KInv, Datasets, Owners, OwnedByDefault
  <1>7. DocumentsOf(KbRequests \ {r})
    <2>1. ASSUME NEW d \in KbRequests PROVE d \in Kb!Docs
      BY DEF Kb!Docs
    <2> QED BY <1>4, <2>1 DEF DocumentsOf, Progressed
  <1>8. o.call = "parse" => o.doc = r
    BY <1>1 DEF SoundCall, Phased
  <1>9. Informed(r, q, dataset', document', owner')
    BY <1>1, <1>2, <1>4, <1>8 DEF Informed, Aware, Creator, Kb!Reaches, Kb!Present, SoundCall,
       Phased
  <1>10. ~Creator(q)
    BY <1>1, <1>2 DEF Creator
  <1> QED BY <1>2, <1>3, <1>5, <1>6, <1>7, <1>9, <1>10, OneRequest DEF SoundCall

LEMMA CarriedKeeps ==
  ASSUME Kb!KnowledgeBasesAssumption, KInv, NEW r \in KbRequests, wanted[r].wire = "sent",
         Kb!Carried(r)
  PROVE  KInv'
  <1> DEFINE o == wanted[r]
             q == Applied(r, o.base)
  <1>1. /\ o \in Request /\ o.call \in {"get", "update"} /\ o.base \in Bases
        /\ UNCHANGED <<dataset, document, owner>> /\ SoundCall(r, o, dataset, document, owner)
    BY DEF KInv, KTyped, Kb!Carried, Request
  <1>2. /\ q \in Request /\ q.phase = o.phase /\ q.answer = o.answer
        /\ q.op = o.op /\ q.tenant = o.tenant /\ q.base = o.base
        /\ q.call = o.call /\ q.wire = "applied" /\ q.seen = o.seen
        /\ Phased(r, q) /\ Told(q)
    BY <1>1, AppliedFields
  <1>3. wanted' = [wanted EXCEPT ![r] = q]
    BY <1>1 DEF Kb!Carried, Kb!Set, Request, Applied
  <1> HIDE DEF q
  <1>4. Informed(r, q, dataset, document, owner) /\ ~Creator(q)
    BY <1>1, <1>2 DEF Informed, Aware, Creator, SoundCall, Phased
  <1> QED BY <1>1, <1>2, <1>3, <1>4, NothingMoves DEF SoundCall

\* The parsing of a document comes to an end.
LEMMA ParsingEndsKeeps ==
  ASSUME Kb!KnowledgeBasesAssumption, KInv, NEW d \in Kb!Docs, Kb!ParsingEnds(d)
  PROVE  KInv'
  <1>1. PICK e \in {"completed", "failed"} : document' = [document EXCEPT ![d].status = e]
    BY DEF Kb!ParsingEnds
  <1>2. UNCHANGED <<dataset, owner, wanted>>
    BY DEF Kb!ParsingEnds
  <1>3. /\ document' \in [Kb!Docs -> Kb!KnowledgeDocument] /\ document'[d].status = e
        /\ \A c \in Kb!Docs : /\ document'[c].base = document[c].base
                              /\ c # d => document'[c] = document[c]
    BY <1>1 DEF KInv, KTyped, Kb!KnowledgeDocument, Kb!DocumentParsingStatus
  <1>4. KTyped' /\ Accounts(dataset', owner') /\ Apart(wanted')
    BY <1>2, <1>3 DEF KInv, KTyped
  <1>5. Datasets /\ Owners /\ OwnedByDefault(KbRequests)
    BY <1>2 DEF Datasets, Owners, OwnedByDefault
  <1>6. DocumentsOf(KbRequests)
    <2>1. ASSUME NEW c \in KbRequests PROVE c \in Kb!Docs
      BY DEF Kb!Docs
    <2> QED BY <1>3, <2>1 DEF DocumentsOf, Progressed
  <1>7. \A s \in KbRequests : SoundCall(s, wanted[s], dataset', document', owner')
    BY <1>4, <1>5, <1>6, OthersSound DEF KTyped
  <1> QED BY <1>2, <1>4, <1>7 DEF KInv

-----------------------------------------------------------------------------
(* Ownership *)

LEMMA ClaimsBaseKeeps ==
  ASSUME Kb!KnowledgeBasesAssumption, KInv, NEW r \in KbRequests, Kb!ClaimsBase(r)
  PROVE  KInv'
  <1> DEFINE o == wanted[r]
             b == o.base
  <1>1. /\ o \in Request /\ o.phase = "claim" /\ b \in Bases /\ o.tenant \in Tenants
        /\ UNCHANGED <<dataset, document>> /\ SoundCall(r, o, dataset, document, owner)
    BY DEF KInv, KTyped, Kb!ClaimsBase, Kb!At, Request
  <1>2. /\ o.call = "create" /\ o.wire = "applied" /\ o.op = "create" /\ o.answer = "none"
        /\ dataset[b].state # "none" /\ dataset[b].tenant = o.tenant /\ Creator(o)
        /\ owner[b] # NoTenant => o.tenant = Default
    BY <1>1 DEF SoundCall, Phased, Informed, Aware, Creator
  <1>3. CASE owner[b] = NoTenant
    <2> DEFINE q == Kb!Answered(r, "ok")
    <2>1. owner' = [owner EXCEPT ![b] = o.tenant] /\ wanted' = [wanted EXCEPT ![r] = q]
      BY <1>3 DEF Kb!ClaimsBase, Kb!Set
    <2>2. q \in Request /\ q = [o EXCEPT !.phase = "done", !.answer = "ok"]
      BY <1>1, ChangedFields DEF Kb!Answers
    <2>3. /\ q.phase = "done" /\ q.answer = "ok" /\ q.op = "create" /\ q.tenant = o.tenant
          /\ q.base = b /\ q.doc = o.doc /\ q.call = "create" /\ q.wire = "applied"
      BY <1>1, <1>2, <2>2 DEF Request
    <2> HIDE DEF q
    <2>4. owner'[b] = o.tenant /\ \A c \in Bases \ {b} : owner'[c] = owner[c]
      BY <1>1, <2>1 DEF KInv, KTyped
    <2>5. KTyped'
      BY <1>1, <2>1, <2>2 DEF KInv, KTyped
    <2>6. Accounts(dataset', owner')
      BY <1>1, <1>2, <2>4 DEF KInv, Accounts
    <2>7. Datasets /\ Owners /\ DocumentsOf(KbRequests \ {r})
      BY <1>1, <1>3, <2>4 DEF Datasets, Owners, DocumentsOf
    <2>8. \A s \in KbRequests \ {r} : Creator(wanted[s]) => wanted[s].base # b
      BY <1>2 DEF KInv, Apart
    <2>9. OwnedByDefault(KbRequests \ {r})
      <3>1. ASSUME NEW s \in KbRequests PROVE wanted[s].base \in Bases
        BY DEF KInv, KTyped, Request
      <3> QED BY <2>4, <2>8, <3>1 DEF OwnedByDefault
    <2>10. Phased(r, q) /\ Told(q)
      BY <2>3 DEF Phased, Told, No
    <2>11. Informed(r, q, dataset', document', owner')
      BY <1>1, <1>2, <2>3, <2>4 DEF Informed, Aware, Creator
    <2> QED BY <2>1, <2>3, <2>5, <2>6, <2>7, <2>8, <2>9, <2>10, <2>11, OneRequest DEF SoundCall
  <1>4. CASE owner[b] # NoTenant
    <2>1. Kb!Set(r, Kb!Sending(r, "undo")) /\ UNCHANGED owner
      BY <1>4 DEF Kb!ClaimsBase
    <2>2. Phased(r, Kb!Sending(r, "undo"))
      BY <1>1, <1>2, <1>4 DEF Kb!Sending, SoundCall, Phased, Request
    <2> QED BY <1>1, <1>2, <2>1, <2>2, TurnsTo DEF Calls
  <1> QED BY <1>3, <1>4

LEMMA ReleasesBaseKeeps ==
  ASSUME Kb!KnowledgeBasesAssumption, KInv, NEW r \in KbRequests, Kb!ReleasesBase(r)
  PROVE  KInv'
  <1> DEFINE o == wanted[r]
             b == o.base
             q == Kb!Answered(r, "ok")
  <1>1. /\ o \in Request /\ o.phase = "release" /\ b \in Bases /\ o.tenant \in Tenants
        /\ UNCHANGED <<dataset, document>> /\ SoundCall(r, o, dataset, document, owner)
        /\ wanted' = [wanted EXCEPT ![r] = q]
    BY DEF KInv, KTyped, Kb!ReleasesBase, Kb!At, Request, Kb!Set
  <1>2. /\ o.call = "delete" /\ o.wire \in {"applied", "missing"} /\ o.op = "delete"
        /\ dataset[b].state = "gone"
    BY <1>1 DEF SoundCall, Phased, Informed
  <1>3. q \in Request /\ q = [o EXCEPT !.phase = "done", !.answer = "ok"]
    BY <1>1, ChangedFields DEF Kb!Answers
  <1>4. /\ q.phase = "done" /\ q.answer = "ok" /\ q.op = o.op /\ q.tenant = o.tenant
        /\ q.base = b /\ q.doc = o.doc /\ q.call = o.call /\ q.wire = o.wire
    BY <1>1, <1>3 DEF Request
  <1> HIDE DEF q
  <1>5. /\ owner' \in [Bases -> Tenants \cup {NoTenant}]
        /\ owner'[b] \in {owner[b], NoTenant} /\ \A c \in Bases \ {b} : owner'[c] = owner[c]
    BY <1>1 DEF KInv, KTyped, Kb!ReleasesBase
  <1>6. KTyped'
    BY <1>1, <1>3, <1>5 DEF KInv, KTyped
  <1>7. Accounts(dataset', owner')
    BY <1>1, <1>5 DEF KInv, Accounts
  <1>8. Datasets /\ Owners /\ DocumentsOf(KbRequests \ {r})
    BY <1>1, <1>2, <1>5 DEF Datasets, Owners, DocumentsOf
  <1>9. OwnedByDefault(KbRequests \ {r})
    <2>1. ASSUME NEW s \in KbRequests PROVE wanted[s].base \in Bases
      BY DEF KInv, KTyped, Request
    <2> QED BY <1>5, <2>1 DEF OwnedByDefault
  <1>10. Phased(r, q) /\ Told(q)
    BY <1>1, <1>2, <1>4 DEF SoundCall, Phased, Told, No
  <1>11. Informed(r, q, dataset', document', owner') /\ ~Creator(q)
    BY <1>1, <1>2, <1>4 DEF SoundCall, Informed, Aware, Creator
  <1> QED BY <1>1, <1>4, <1>6, <1>7, <1>8, <1>9, <1>10, <1>11, OneRequest DEF SoundCall

LEMMA AdoptsLegacyKeeps ==
  ASSUME Kb!KnowledgeBasesAssumption, KInv, NEW r \in KbRequests, Kb!AdoptsLegacy(r)
  PROVE  KInv'
  <1> DEFINE o == wanted[r]
             q == Kb!Moved(r, "answer")
  <1>1. /\ o \in Request /\ o.phase = "adopt" /\ o.seen \in SUBSET Bases
        /\ UNCHANGED <<dataset, document>> /\ SoundCall(r, o, dataset, document, owner)
        /\ wanted' = [wanted EXCEPT ![r] = q]
        /\ owner' = [c \in Bases |-> IF c \in o.seen /\ owner[c] = NoTenant THEN Default ELSE owner[c]]
    BY DEF KInv, KTyped, Kb!AdoptsLegacy, Kb!At, Request, Kb!Set
  <1>2. /\ o.tenant = Default /\ o.call = "none" /\ o.wire = "none" /\ o.op = "list"
        /\ \A c \in o.seen : dataset[c].state # "none" /\ dataset[c].tenant = Default
    BY <1>1 DEF SoundCall, Phased, Informed
  <1>3. q \in Request /\ q = [o EXCEPT !.phase = "answer"]
    BY <1>1, ChangedFields DEF Kb!Phases
  <1>4. /\ q.phase = "answer" /\ q.answer = o.answer /\ q.op = o.op /\ q.tenant = o.tenant
        /\ q.base = o.base /\ q.doc = o.doc /\ q.call = o.call /\ q.wire = o.wire
    BY <1>1, <1>3 DEF Request
  <1> HIDE DEF q
  <1>5. Default \in Tenants
    BY DEF Kb!KnowledgeBasesAssumption
  <1>6. \A c \in Bases : owner'[c] # owner[c] =>
          owner[c] = NoTenant /\ c \in o.seen /\ owner'[c] = Default
    BY <1>1
  <1>7. KTyped'
    BY <1>1, <1>3, <1>5 DEF KInv, KTyped
  <1>8. Accounts(dataset', owner')
    BY <1>1, <1>2, <1>6 DEF KInv, Accounts
  <1>9. Datasets /\ Owners /\ DocumentsOf(KbRequests \ {r})
    BY <1>1, <1>6 DEF Datasets, Owners, DocumentsOf
  <1>10. OwnedByDefault(KbRequests \ {r})
    <2>1. ASSUME NEW s \in KbRequests \ {r}, Creator(wanted[s]),
                 owner[wanted[s].base] = NoTenant, owner'[wanted[s].base] # NoTenant
          PROVE  wanted[s].tenant = Default
      <3>1. wanted[s].base \in Bases /\ dataset[wanted[s].base].tenant = wanted[s].tenant
        BY <2>1 DEF KInv, KTyped, Request, SoundCall, Informed, Aware
      <3> QED BY <1>2, <1>6, <2>1, <3>1
    <2> QED BY <2>1 DEF OwnedByDefault
  <1>11. Phased(r, q) /\ Told(q)
    BY <1>1, <1>2, <1>4 DEF SoundCall, Phased, Told
  <1>12. Informed(r, q, dataset', document', owner') /\ ~Creator(q)
    BY <1>2, <1>4 DEF Informed, Aware, Creator
  <1> QED BY <1>1, <1>4, <1>7, <1>8, <1>9, <1>10, <1>11, <1>12, OneRequest DEF SoundCall

-----------------------------------------------------------------------------
(* The theorems *)

LEMMA KStep ==
  ASSUME Kb!KnowledgeBasesAssumption, KInv, [Kb!Next]_Kb!vars
  PROVE  KInv'
  <1>1. ASSUME NEW r \in KbRequests, Kb!RequestStep(r) PROVE KInv'
    BY <1>1, AsksKeeps, EnsuresAvailableKeeps, UnavailableKeeps, EnsuresOwnedKeeps,
       ReadsDocumentKeeps, SendsKeeps, ReceivesKeeps, ReceivesInvalidKeeps, TimesOutKeeps,
       ClaimsBaseKeeps, ReleasesBaseKeeps, ReadsPageKeeps, AdoptsLegacyKeeps, AnswersListKeeps,
       RequestLostKeeps
    DEF Kb!RequestStep
  <1>2. ASSUME NEW r \in KbRequests, Kb!CarriedOut(r) PROVE KInv'
    BY <1>2, CreatedKeeps, DeletedKeeps, UploadedKeeps, ParsingStartedKeeps, CarriedKeeps
    DEF Kb!CarriedOut
  <1>3. ASSUME NEW r \in KbRequests, Kb!Refused(r) PROVE KInv'
    BY <1>3, TurnedDownKeeps
  <1>4. ASSUME NEW d \in Kb!Docs, Kb!ParsingEnds(d) PROVE KInv'
    BY <1>4, ParsingEndsKeeps
  <1>5. CASE UNCHANGED Kb!vars
    BY <1>5 DEF Kb!vars, KInv, KTyped
  <1> QED BY <1>1, <1>2, <1>3, <1>4, <1>5 DEF Kb!Next

(* Every reachable state of KnowledgeBases is typed, has owners that are their
   datasets' accounts, and requests that know the truth (knowledge/service.py:191). *)
THEOREM KnowledgeInvariance ==
  ASSUME Kb!KnowledgeBasesAssumption
  PROVE  Kb!Spec => []KInv
  <1>1. Kb!Init => KInv
    BY KInit
  <1>2. KInv /\ [Kb!Next]_Kb!vars => KInv'
    BY KStep
  <1> QED BY <1>1, <1>2, PTL DEF Kb!Spec

(* The types of what is stored and of what is asked follow from it too. *)
LEMMA KnowledgeTypes ==
  ASSUME KInv
  PROVE  Kb!TypeOK
  BY DEF KInv, KTyped, Kb!TypeOK, Request

(* What a user was told follows from the invariant. *)
LEMMA AnswersFollow ==
  ASSUME Kb!KnowledgeBasesAssumption, KInv
  PROVE  Kb!AnswersAreTrue
  <1> SUFFICES ASSUME NEW r \in KbRequests
               PROVE  LET q == wanted[r] IN
                 /\ q.answer \in No => q.wire # "sent" /\ (q.wire = "applied" => q.call = "undo")
                 /\ q.answer = "ok" /\ q.op = "create" /\ Kb!Present(q.base) =>
                      owner[q.base] = q.tenant
                 /\ q.answer = "ok" /\ q.op = "delete" => dataset[q.base].state = "gone"
                 /\ q.answer = "ok" /\ q.op = "upload" /\ Kb!Present(q.base) =>
                      document[r].status \in {"parsing", "completed", "failed"}
                 /\ q.call = "undo" => q.tenant = Default
    BY DEF Kb!AnswersAreTrue, No
  <1> DEFINE q == wanted[r]
  <1>1. SoundCall(r, q, dataset, document, owner)
    BY DEF KInv
  <1> HIDE DEF q
  <1>2. /\ q.answer \in No => q.wire # "sent" /\ (q.wire = "applied" => q.call = "undo")
        /\ q.answer = "ok" /\ q.op = "create" /\ Kb!Present(q.base) => owner[q.base] = q.tenant
        /\ q.answer = "ok" /\ q.op = "delete" => dataset[q.base].state = "gone"
        /\ q.answer = "ok" /\ q.op = "upload" /\ Kb!Present(q.base) =>
             document[r].status \in {"parsing", "completed", "failed"}
        /\ q.call = "undo" => q.tenant = Default
    BY <1>1 DEF SoundCall, Phased, Told, Informed, Kb!Present
  <1> QED BY <1>2 DEF q

(* No step gives up the ownership of a dataset that is still there. *)
LEMMA ReleasedStep ==
  ASSUME Kb!KnowledgeBasesAssumption, KInv, [Kb!Next]_Kb!vars
  PROVE  [\A b \in Bases : owner[b] # NoTenant /\ owner'[b] = NoTenant
                              => dataset[b].state = "gone"]_Kb!vars
  <1> DEFINE Given == \A b \in Bases : owner[b] # NoTenant /\ owner'[b] = NoTenant
                                         => dataset[b].state = "gone"
  <1>1. CASE UNCHANGED owner
    BY <1>1
  <1>2. ASSUME NEW r \in KbRequests, Kb!ClaimsBase(r) PROVE Given
    BY <1>2 DEF Kb!ClaimsBase, KInv, KTyped, Request, Kb!KnowledgeBasesAssumption
  <1>3. ASSUME NEW r \in KbRequests, Kb!ReleasesBase(r) PROVE Given
    <2>1. dataset[wanted[r].base].state = "gone"
      BY <1>3 DEF Kb!ReleasesBase, Kb!At, KInv, SoundCall, Phased, Informed
    <2> QED BY <1>3, <2>1 DEF Kb!ReleasesBase, KInv, KTyped
  <1>4. ASSUME NEW r \in KbRequests, Kb!AdoptsLegacy(r) PROVE Given
    BY <1>4 DEF Kb!AdoptsLegacy, KInv, KTyped
  <1>5. \/ UNCHANGED owner
        \/ \E r \in KbRequests : Kb!ClaimsBase(r) \/ Kb!ReleasesBase(r) \/ Kb!AdoptsLegacy(r)
    BY DEF Kb!Next, Kb!vars, Kb!RequestStep, Kb!CarriedOut, Kb!Asks, Kb!Arrives,
       Kb!EnsuresAvailable, Kb!Unavailable,
       Kb!EnsuresOwned, Kb!ReadsDocument, Kb!Sends, Kb!Receives, Kb!ReceivesInvalid, Kb!TimesOut,
       Kb!ReadsPage,
       Kb!AnswersList, Kb!RequestLost, Kb!Created, Kb!Deleted, Kb!Uploaded, Kb!ParsingStarted,
       Kb!Carried, Kb!Refused,
       Kb!ParsingEnds
  <1> QED BY <1>1, <1>2, <1>3, <1>4, <1>5

-----------------------------------------------------------------------------
(* RagFlowIdentities: what a process knows of the row and the account it works on, and how
   many tokens there can be *)

Process == [stage : Id!Stages, tenant : Tenants, adopting : BOOLEAN,
            key : {Id!NoKey} \cup Id!ToSet(IdKeys), token : Nat]

IdTyped ==
  /\ identity \in [Tenants -> Id!RagFlowTenantIdentityRow]
  /\ held \in [Tenants -> Id!Account]
  /\ ensuring \in [Processes -> Process]
  /\ lock \in [Tenants -> Processes \cup {NoTenant}]
  /\ active \in 1 .. Len(IdKeys)
  /\ drops \in Nat /\ failures \in Nat

Reserved == {"register", "login", "adopt", "configure", "tokens", "create", "activate"}
IsLegacy(t) == Legacy /\ t = Default

(* What a process knows of its tenant's row and account *)
Knows(e, row, a) ==
  /\ e.stage \in Reserved => row.status # "none" /\ e.key = row.key
  /\ e.stage = "adopt" => e.adopting
  /\ e.adopting => IsLegacy(e.tenant)
  /\ e.stage \in {"login", "configure", "tokens", "create", "activate"} => a.exists
  /\ e.stage \in {"tokens", "create", "activate"} => a.configured = Len(Id!Parts)
  /\ e.token # 0 => e.token \in 1 .. a.tokens
  /\ e.stage = "activate" => e.token # 0

(* A row and the account *)
Fits(t, row, a) ==
  /\ ~a.exists => a.configured = 0 /\ a.tokens = 0
  /\ a.exists =>
       \/ row.status # "none" /\ a.password = row.key
       \/ IsLegacy(t) /\ a.password = Id!LegacyPassword
  /\ IsLegacy(t) => a.exists /\ a.tokens >= 1
  /\ row.status = "active" => a.configured = Len(Id!Parts) /\ row.token \in 1 .. a.tokens

LocksHeld ==
  \A t \in Tenants, p \in Processes : lock[t] = p =>
    ensuring[p].tenant = t /\ ensuring[p].stage \notin {"idle", "lock"}

Underway == Id!Stages \ {"idle", "lock", "activate"}
(* who is past the lock of t and has it no more; and whoever may create a token *)
Strays(t) ==
  {p \in Processes : ensuring[p].stage \in Underway /\ ensuring[p].tenant = t /\ lock[t] # p}
Creators(t) == Strays(t) \cup
  {p \in Processes : ensuring[p].stage = "create" /\ ensuring[p].tenant = t}

Counted(t) ==
  /\ IsFiniteSet(Creators(t))
  /\ held[t].tokens + Cardinality(Creators(t)) <= 1 + drops
  /\ held[t].tokens = 0 => Cardinality(Strays(t)) <= drops

IdInv ==
  /\ IdTyped
  /\ \A p \in Processes :
       Knows(ensuring[p], identity[ensuring[p].tenant], held[ensuring[p].tenant])
  /\ \A t \in Tenants : Fits(t, identity[t], held[t]) /\ Counted(t)
  /\ LocksHeld

-----------------------------------------------------------------------------
(* A row once reserved keeps its key, and nothing of an account is lost *)
Onwards(row, a, row2, a2) ==
  /\ row.status # "none" => row2.status # "none" /\ row2.key = row.key
  /\ a.exists => a2.exists
  /\ a.configured = Len(Id!Parts) => a2.configured = Len(Id!Parts)
  /\ a.tokens <= a2.tokens

LEMMA NobodyIs == NoTenant \notin Processes /\ Default \in Tenants /\ Legacy \in BOOLEAN
                   /\ Len(IdKeys) \in Nat /\ Len(IdKeys) >= 1
                   /\ \A i \in 1 .. Len(IdKeys) : IdKeys[i] \in Id!ToSet(IdKeys)
  BY ServicesAssumption DEF Id!RagFlowIdentitiesAssumption, Id!ToSet

(* A process record with some of its fields replaced *)
LEMMA WithStage ==
  ASSUME NEW e \in Process, NEW s \in Id!Stages
  PROVE  LET f == [e EXCEPT !.stage = s]
         IN  f \in Process /\ f.stage = s /\ f.tenant = e.tenant
  BY DEF Process

LEMMA WithKey ==
  ASSUME NEW e \in Process, NEW s \in Id!Stages, NEW k \in {Id!NoKey} \cup Id!ToSet(IdKeys)
  PROVE  LET f == [e EXCEPT !.key = k, !.stage = s]
         IN  /\ f \in Process /\ f.stage = s /\ f.tenant = e.tenant
             /\ f = [e EXCEPT !.stage = s, !.key = k]
  BY DEF Process

LEMMA WithToken ==
  ASSUME NEW e \in Process, NEW s \in Id!Stages, NEW n \in Nat
  PROVE  LET f == [e EXCEPT !.token = n, !.stage = s]
         IN  /\ f \in Process /\ f.stage = s /\ f.tenant = e.tenant
             /\ f = [e EXCEPT !.stage = s, !.token = n]
  BY DEF Process

LEMMA IdleIs == Id!IdleProcess \in Process /\ \A row, a : Knows(Id!IdleProcess, row, a)
  BY NobodyIs DEF Id!IdleProcess, Process, Knows, Id!Stages, Id!NoKey, Reserved

LEMMA IdInit == Id!Init => IdInv
  <1> SUFFICES ASSUME Id!Init PROVE IdInv
    OBVIOUS
  <1>1. IdTyped
    <2>1. Id!NoAccount \in Id!Account /\ Id!LegacyAccount \in Id!Account
      <3>1. 0 \in 0 .. Len(Id!Parts)
        BY DEF Id!Parts
      <3> QED BY <3>1 DEF Id!NoAccount, Id!LegacyAccount, Id!Account
    <2>2. Id!NoIdentity \in Id!RagFlowTenantIdentityRow
      BY DEF Id!NoIdentity, Id!RagFlowTenantIdentityRow, Id!NoKey
    <2> QED BY <2>1, <2>2, IdleIs, NobodyIs DEF Id!Init, IdTyped
  <1>2. \A p \in Processes :
          Knows(ensuring[p], identity[ensuring[p].tenant], held[ensuring[p].tenant])
    BY IdleIs DEF Id!Init
  <1>3. ASSUME NEW t \in Tenants PROVE Fits(t, identity[t], held[t]) /\ Counted(t)
    <2>1. Fits(t, identity[t], held[t])
      BY DEF Id!Init, Fits, Id!NoAccount, Id!LegacyAccount, Id!NoIdentity, IsLegacy
    <2>2. Strays(t) = {} /\ Creators(t) = {}
      BY DEF Id!Init, Strays, Creators, Underway, Id!IdleProcess
    <2>3. held[t].tokens \in {0, 1} /\ drops = 0
      BY DEF Id!Init, Id!NoAccount, Id!LegacyAccount
    <2> QED BY <2>1, <2>2, <2>3, FS_EmptySet DEF Counted
  <1>4. LocksHeld
    BY NobodyIs DEF Id!Init, LocksHeld
  <1> QED BY <1>1, <1>2, <1>3, <1>4 DEF IdInv

-----------------------------------------------------------------------------
(* What a step of one process leaves known to the others *)
LEMMA KnowsKept ==
  ASSUME IdInv, NEW p \in Processes, NEW e, NEW t \in Tenants, NEW row, NEW a \in Id!Account,
         ensuring' = [ensuring EXCEPT ![p] = e], identity' = [identity EXCEPT ![t] = row],
         held' = [held EXCEPT ![t] = a],
         Onwards(identity[t], held[t], row, a),
         Knows(e, identity'[e.tenant], held'[e.tenant])
  PROVE  \A q \in Processes :
           Knows(ensuring'[q], identity'[ensuring'[q].tenant], held'[ensuring'[q].tenant])
  <1> TAKE q \in Processes
  <1> USE DEF IdInv, IdTyped
  <1>1. CASE q = p
    BY <1>1
  <1>2. CASE q # p
    <2>1. ensuring'[q] = ensuring[q] /\ ensuring[q] \in Process
      BY <1>2
    <2>2. CASE ensuring[q].tenant # t
      BY <2>1, <2>2 DEF Process
    <2>3. CASE ensuring[q].tenant = t
      <3>1. identity'[t] = row /\ held'[t] = a /\ held[t] \in Id!Account
        OBVIOUS
      <3>2. Knows(ensuring[q], identity[t], held[t])
        BY <2>3
      <3> HIDE DEF IdInv, IdTyped
      <3>3. Knows(ensuring[q], row, a)
        BY <2>1, <3>1, <3>2 DEF Knows, Onwards, Process, Id!Account
      <3> QED BY <2>1, <2>3, <3>1, <3>3
    <2> QED BY <2>2, <2>3
  <1> QED BY <1>1, <1>2

LEMMA FitsKept ==
  ASSUME IdInv, NEW t \in Tenants, NEW row, NEW a, Fits(t, row, a),
         identity' = [identity EXCEPT ![t] = row], held' = [held EXCEPT ![t] = a]
  PROVE  \A u \in Tenants : Fits(u, identity'[u], held'[u])
  BY DEF IdInv, IdTyped

(* A process that ends lets its lock go, and one that goes on keeps it *)
LEMMA LocksKept ==
  ASSUME IdInv, NEW p \in Processes, NEW e,
         ensuring' = [ensuring EXCEPT ![p] = e],
         \/ lock' = Id!Released(p)
         \/ lock' = lock /\ e.tenant = ensuring[p].tenant /\ e.stage \notin {"idle", "lock"}
         \/ lock' = lock /\ ensuring[p].stage \in {"idle", "lock"}
  PROVE  LocksHeld'
  <1> SUFFICES ASSUME NEW u \in Tenants, NEW q \in Processes, lock'[u] = q
               PROVE  ensuring'[q].tenant = u /\ ensuring'[q].stage \notin {"idle", "lock"}
    BY DEF LocksHeld
  <1>1. lock[u] = q /\ ensuring[q].tenant = u /\ ensuring[q].stage \notin {"idle", "lock"}
    BY NobodyIs DEF IdInv, IdTyped, LocksHeld, Id!Released
  <1>2. CASE q = p
    BY <1>1, <1>2, NobodyIs DEF IdInv, IdTyped, Id!Released
  <1>3. CASE q # p
    BY <1>1, <1>3 DEF IdInv, IdTyped
  <1> QED BY <1>2, <1>3

(* Nobody joins those who may create a token *)
LEMMA CountKept ==
  ASSUME NEW u \in Tenants, Counted(u), Creators(u)' \subseteq Creators(u),
         Strays(u)' \subseteq Strays(u), held'[u].tokens = held[u].tokens, drops' = drops,
         held[u].tokens \in Nat, drops \in Nat
  PROVE  Counted(u)'
  <1>1. IsFiniteSet(Creators(u)) /\ IsFiniteSet(Strays(u))
    BY FS_Subset DEF Counted, Creators
  <1>2. /\ IsFiniteSet(Creators(u)') /\ Cardinality(Creators(u)') <= Cardinality(Creators(u))
        /\ IsFiniteSet(Strays(u)') /\ Cardinality(Strays(u)') <= Cardinality(Strays(u))
    BY <1>1, FS_Subset
  <1>3. /\ Cardinality(Creators(u)') \in Nat /\ Cardinality(Creators(u)) \in Nat
        /\ Cardinality(Strays(u)') \in Nat /\ Cardinality(Strays(u)) \in Nat
    BY <1>1, <1>2, FS_CardinalityType
  <1> QED BY <1>2, <1>3 DEF Counted

(* A step that creates no token, and no creator *)
LEMMA Unhurried ==
  ASSUME IdInv, NEW p \in Processes, NEW e,
         ensuring' = [ensuring EXCEPT ![p] = e], drops' = drops,
         lock' \in {lock, Id!Released(p)} \/ (lock' = [lock EXCEPT ![ensuring[p].tenant] = p]
                                            /\ lock[ensuring[p].tenant] = NoTenant),
         e.stage # "create" \/ (e.stage = ensuring[p].stage /\ e.tenant = ensuring[p].tenant),
         \/ e.stage \in {"idle", "lock", "activate"}
         \/ e.tenant = ensuring[p].tenant /\ ensuring[p].stage \in Underway /\ lock' = lock
         \/ e.tenant = ensuring[p].tenant /\ lock'[e.tenant] = p,
         \A u \in Tenants : held'[u].tokens = held[u].tokens
  PROVE  \A u \in Tenants : Counted(u)'
  <1> TAKE u \in Tenants
  <1>1. ASSUME NEW q \in Processes, q # p
        PROVE  ensuring'[q] = ensuring[q] /\ \A v \in Tenants : lock'[v] = q <=> lock[v] = q
    BY <1>1, NobodyIs DEF IdInv, IdTyped, Id!Released, Process
  <1>2. ensuring'[p] = e
    BY DEF IdInv, IdTyped
  <1>3. Strays(u)' \subseteq Strays(u)
    BY <1>1, <1>2 DEF Strays, Underway
  <1>4. Creators(u)' \subseteq Creators(u)
    BY <1>1, <1>2, <1>3 DEF Creators
  <1> QED BY <1>3, <1>4, CountKept DEF IdInv, IdTyped, Id!Account

-----------------------------------------------------------------------------
(* A step of a process: what remains to be shown of each *)
LEMMA ProcessMoves ==
  ASSUME IdInv, NEW p \in Processes, NEW e \in Process, NEW t \in Tenants,
         NEW row \in Id!RagFlowTenantIdentityRow, NEW a \in Id!Account,
         ensuring' = [ensuring EXCEPT ![p] = e], identity' = [identity EXCEPT ![t] = row],
         held' = [held EXCEPT ![t] = a],
         Onwards(identity[t], held[t], row, a), Fits(t, row, a),
         Knows(e, identity'[e.tenant], held'[e.tenant]),
         \/ lock' = Id!Released(p) /\ e.stage = "idle"
         \/ lock' = lock /\ e.tenant = ensuring[p].tenant /\ e.stage \notin {"idle", "lock"}
         \/ lock' = lock /\ ensuring[p].stage \in {"idle", "lock"},
         active' \in 1 .. Len(IdKeys), drops' \in Nat, failures' \in Nat,
         \A u \in Tenants : Counted(u)'
  PROVE  IdInv'
  <1>1. IdTyped'
    <2>1. lock' \in [Tenants -> Processes \cup {NoTenant}]
      BY DEF IdInv, IdTyped, Id!Released
    <2> QED BY <2>1 DEF IdInv, IdTyped
  <1>2. \A q \in Processes :
           Knows(ensuring'[q], identity'[ensuring'[q].tenant], held'[ensuring'[q].tenant])
    BY KnowsKept
  <1>3. \A u \in Tenants : Fits(u, identity'[u], held'[u])
    BY FitsKept
  <1>4. LocksHeld'
    BY LocksKept
  <1> QED BY <1>1, <1>2, <1>3, <1>4 DEF IdInv

(* The same when neither row nor account changes, and when the process ends *)
LEMMA Unchanged ==
  ASSUME IdInv, NEW t \in Tenants
  PROVE  /\ identity[t] \in Id!RagFlowTenantIdentityRow /\ held[t] \in Id!Account
         /\ Onwards(identity[t], held[t], identity[t], held[t])
         /\ Fits(t, identity[t], held[t])
         /\ identity = [identity EXCEPT ![t] = identity[t]]
         /\ held = [held EXCEPT ![t] = held[t]]
  BY DEF IdInv, IdTyped, Onwards, Id!Account, Id!RagFlowTenantIdentityRow

LEMMA Here ==
  ASSUME IdInv, NEW p \in Processes
  PROVE  /\ ensuring[p] \in Process /\ Id!Tenant(p) \in Tenants
         /\ Knows(ensuring[p], identity[Id!Tenant(p)], held[Id!Tenant(p)])
         /\ ensuring[p].stage \in Id!Stages
  BY DEF IdInv, IdTyped, Process, Id!Tenant

LEMMA ProcessEnds ==
  ASSUME IdInv, NEW p \in Processes, Id!Ends(p), UNCHANGED <<identity, held, active, drops>>,
         failures' \in Nat
  PROVE  IdInv'
  <1>1. \A u \in Tenants : Counted(u)'
    BY IdleIs, Unhurried DEF Id!Ends, Id!Set, Id!IdleProcess
  <1>2. Id!IdleProcess.stage = "idle"
    BY DEF Id!IdleProcess
  <1> DEFINE t == Id!Tenant(p)
  <1>3. /\ identity' = [identity EXCEPT ![t] = identity[t]]
        /\ held' = [held EXCEPT ![t] = held[t]]
        /\ t \in Tenants /\ identity[t] \in Id!RagFlowTenantIdentityRow /\ held[t] \in Id!Account
        /\ Onwards(identity[t], held[t], identity[t], held[t])
        /\ Fits(t, identity[t], held[t])
    BY Unchanged, Here
  <1>4. ensuring' = [ensuring EXCEPT ![p] = Id!IdleProcess] /\ lock' = Id!Released(p)
    BY DEF Id!Ends, Id!Set
  <1>5. Knows(Id!IdleProcess, identity'[Id!IdleProcess.tenant], held'[Id!IdleProcess.tenant])
    BY IdleIs
  <1>6. active' \in 1 .. Len(IdKeys) /\ drops' \in Nat
    BY DEF IdInv, IdTyped
  <1> HIDE DEF t
  <1> QED BY <1>1, <1>2, <1>3, <1>4, <1>5, <1>6, IdleIs, ProcessMoves

(* A step from one stage to the next *)
LEMMA ProcessGoesOn ==
  ASSUME IdInv, NEW p \in Processes, NEW e \in Process, Id!Set(p, e),
         ensuring[p].stage \in Underway, e.tenant = Id!Tenant(p),
         e.stage \in Id!Stages \ {"idle", "lock", "create"} \/ e.stage = ensuring[p].stage,
         NEW row \in Id!RagFlowTenantIdentityRow, NEW a \in Id!Account,
         identity' = [identity EXCEPT ![Id!Tenant(p)] = row],
         held' = [held EXCEPT ![Id!Tenant(p)] = a], a.tokens = held[Id!Tenant(p)].tokens,
         Onwards(identity[Id!Tenant(p)], held[Id!Tenant(p)], row, a), Fits(Id!Tenant(p), row, a),
         Knows(e, row, a), UNCHANGED <<lock, active, drops, failures>>
  PROVE  IdInv'
  <1>1. ensuring' = [ensuring EXCEPT ![p] = e] /\ e.tenant = ensuring[p].tenant
    BY DEF Id!Set, Id!Tenant
  <1>2. \A u \in Tenants : held'[u].tokens = held[u].tokens
    BY DEF IdInv, IdTyped
  <1>3. \A u \in Tenants : Counted(u)'
    BY <1>1, <1>2, Unhurried, Here
  <1>4. Knows(e, identity'[e.tenant], held'[e.tenant])
    BY Here DEF IdInv, IdTyped
  <1>5. e.stage \notin {"idle", "lock"}
    BY DEF Underway
  <1> QED BY <1>1, <1>3, <1>4, <1>5, ProcessMoves, Here DEF IdInv, IdTyped

LEMMA NeedsKeeps == ASSUME IdInv, NEW p \in Processes, NEW t \in Tenants,
                           Id!Needs(p, t) PROVE IdInv'
  <1> DEFINE e == [Id!IdleProcess EXCEPT !.stage = "lock", !.tenant = t]
  <1>1. e \in Process /\ e.stage = "lock" /\ \A row, a : Knows(e, row, a)
    BY IdleIs DEF Process, Knows, Id!IdleProcess, Id!Stages, Reserved
  <1>2. ensuring' = [ensuring EXCEPT ![p] = e] /\ ensuring[p].stage = "idle"
    BY DEF Id!Needs, Id!Set, Id!At
  <1> HIDE DEF e
  <1>3. \A u \in Tenants : Counted(u)'
    BY <1>1, <1>2, Unhurried DEF Id!Needs
  <1> QED BY <1>1, <1>2, <1>3, ProcessMoves, Unchanged DEF Id!Needs, IdInv, IdTyped

LEMMA TakesLockKeeps == ASSUME IdInv, NEW p \in Processes, Id!TakesLock(p) PROVE IdInv'
  <1> DEFINE e == [ensuring[p] EXCEPT !.stage = "get"]
  <1>1. ensuring' = [ensuring EXCEPT ![p] = e] /\ e \in Process /\ e.stage = "get"
        /\ e.tenant = Id!Tenant(p)
    <2>1. "get" \in Id!Stages /\ ensuring[p] \in Process
      BY Here DEF Id!Stages
    <2> QED BY <2>1, WithStage DEF Id!TakesLock, Id!Goes, Id!Set, Id!Tenant
  <1>2. Knows(e, identity[Id!Tenant(p)], held[Id!Tenant(p)])
    BY Here DEF Knows, Id!TakesLock, Id!At, Reserved, Process
  <1> HIDE DEF e
  <1>3. \A u \in Tenants : Counted(u)'
    <2>1. lock'[e.tenant] = p
      BY <1>1, Here DEF Id!TakesLock, IdInv, IdTyped
    <2> QED BY <1>1, <2>1, Unhurried DEF Id!TakesLock, Id!Tenant
  <1>4. LocksHeld'
    BY <1>1, NobodyIs DEF LocksHeld, Id!TakesLock, IdInv, IdTyped, Id!Tenant
  <1>5. IdTyped'
    BY <1>1, Here DEF IdInv, IdTyped, Id!TakesLock
  <1>6. \A q \in Processes :
           Knows(ensuring'[q], identity'[ensuring'[q].tenant], held'[ensuring'[q].tenant])
    <2>1. Id!Tenant(p) \in Tenants /\ identity' = identity /\ held' = held
      BY Here DEF Id!TakesLock
    <2>2. /\ identity' = [identity EXCEPT ![Id!Tenant(p)] = identity[Id!Tenant(p)]]
          /\ held' = [held EXCEPT ![Id!Tenant(p)] = held[Id!Tenant(p)]]
          /\ held[Id!Tenant(p)] \in Id!Account
          /\ Onwards(identity[Id!Tenant(p)], held[Id!Tenant(p)], identity[Id!Tenant(p)], held[Id!Tenant(p)])
      BY <2>1, Unchanged
    <2>3. Knows(e, identity'[e.tenant], held'[e.tenant])
      BY <1>1, <1>2, <2>1
    <2> DEFINE row == identity[Id!Tenant(p)]
               a == held[Id!Tenant(p)]
               t == Id!Tenant(p)
    <2>4. /\ t \in Tenants /\ identity' = [identity EXCEPT ![t] = row]
          /\ held' = [held EXCEPT ![t] = a] /\ a \in Id!Account
          /\ Onwards(identity[t], held[t], row, a)
      BY <2>1, <2>2
    <2> HIDE DEF row, a, t
    <2> QED BY <1>1, <2>3, <2>4, KnowsKept
  <1> QED BY <1>3, <1>4, <1>5, <1>6 DEF IdInv, Id!TakesLock

LEMMA GetsKeeps == ASSUME IdInv, NEW p \in Processes, Id!Gets(p) PROVE IdInv'
  <1> DEFINE t == Id!Tenant(p)
             e == IF identity[t].status = "none"
                  THEN [ensuring[p] EXCEPT !.stage = "reserve",
                                           !.adopting = Legacy /\ Id!Tenant(p) = Default]
                  ELSE [ensuring[p] EXCEPT !.stage = "register", !.key = identity[t].key]
  <1>1. e \in Process /\ e.stage \in {"reserve", "register"} /\ e.tenant = t
    <2>1. (Legacy /\ Id!Tenant(p) = Default) \in BOOLEAN
          /\ identity[t].key \in {Id!NoKey} \cup Id!ToSet(IdKeys)
      BY Here, Unchanged, NobodyIs DEF Id!RagFlowTenantIdentityRow
    <2>2. ensuring[p] \in Process /\ "reserve" \in Id!Stages /\ "register" \in Id!Stages
      BY Here DEF Id!Stages
    <2>3. CASE identity[t].status = "none"
      <3> DEFINE b == Legacy /\ Id!Tenant(p) = Default
      <3>1. b \in BOOLEAN
        BY <2>1
      <3> HIDE DEF b
      <3>2. e = [ensuring[p] EXCEPT !.stage = "reserve", !.adopting = b]
        BY <2>3 DEF b
      <3> DEFINE q == ensuring[p]
      <3>3. q \in Process /\ q.tenant = t
        BY <2>2 DEF Id!Tenant
      <3>4. e = [q EXCEPT !.stage = "reserve", !.adopting = b]
        BY <3>2
      <3> HIDE DEF e, q, t
      <3> QED BY <2>2, <3>1, <3>3, <3>4 DEF Process
    <2>4. CASE identity[t].status # "none"
      <3> DEFINE q == ensuring[p]
                 k == identity[t].key
      <3>1. k \in {Id!NoKey} \cup Id!ToSet(IdKeys) /\ q \in Process /\ q.tenant = t
        BY <2>1, <2>2 DEF Id!Tenant
      <3>2. e = [q EXCEPT !.stage = "register", !.key = k]
        BY <2>4
      <3> HIDE DEF e, q, k, t
      <3> QED BY <2>2, <3>1, <3>2 DEF Process
    <2> QED BY <2>3, <2>4
  <1>2. Knows(e, identity[t], held[t])
    BY Here, NobodyIs, <1>1 DEF Knows, Process, Reserved, Id!Gets, Id!At, IsLegacy, Id!Tenant
  <1>3. Id!Set(p, e) /\ ensuring[p].stage = "get"
        /\ UNCHANGED <<identity, held, lock, active, drops, failures>>
    BY DEF Id!Gets, Id!At
  <1> HIDE DEF e, t
  <1> QED BY <1>1, <1>2, <1>3, ProcessGoesOn, Unchanged, Here DEF t, Underway, Id!Stages

LEMMA ReservesKeeps == ASSUME IdInv, NEW p \in Processes, Id!Reserves(p) PROVE IdInv'
  <1> DEFINE t == Id!Tenant(p)
             row == IF identity[t].status # "none" THEN identity[t]
                    ELSE [Id!NoIdentity EXCEPT !.status = "provisioning", !.key = IdKeys[active]]
             e == [ensuring[p] EXCEPT !.key = row.key,
                     !.stage = IF ensuring[p].adopting THEN "adopt" ELSE "register"]
  <1>1. row \in Id!RagFlowTenantIdentityRow /\ row.status # "none"
    BY Here, Unchanged, NobodyIs DEF Id!NoIdentity, Id!RagFlowTenantIdentityRow, IdInv, IdTyped
  <1>2. identity[t].status # "none" => row = identity[t]
    OBVIOUS
  <1>3. identity[t].status = "none" => row.status = "provisioning"
    BY DEF Id!NoIdentity
  <1>4. identity' = [identity EXCEPT ![t] = row] /\ Id!Set(p, e) /\ ensuring[p].stage = "reserve"
    BY DEF Id!Reserves, Id!At
  <1>5. row.key \in {Id!NoKey} \cup Id!ToSet(IdKeys)
    BY <1>1 DEF Id!RagFlowTenantIdentityRow
  <1> HIDE DEF row, t
  <1>6. e \in Process /\ e.stage \in {"adopt", "register"} /\ e.tenant = t
    <2> DEFINE s == IF ensuring[p].adopting THEN "adopt" ELSE "register"
    <2>1. s \in Id!Stages /\ s \in {"adopt", "register"} /\ ensuring[p] \in Process
      BY Here DEF Id!Stages
    <2> HIDE DEF s
    <2>2. e = [ensuring[p] EXCEPT !.key = row.key, !.stage = s]
      BY DEF s
    <2> HIDE DEF e
    <2> QED BY <1>5, <2>1, <2>2, WithKey DEF Id!Tenant, t
  <1>7. Knows(e, row, held[t])
    BY <1>1, <1>4, <1>6, Here DEF Knows, Process, Reserved, t, IsLegacy
  <1>8. Onwards(identity[t], held[t], row, held[t])
    BY <1>1, <1>2, Unchanged, Here DEF Onwards, Id!Account, t
  <1>9. Fits(t, row, held[t])
    BY <1>1, <1>2, <1>3, Unchanged, Here DEF Fits, t
  <1>10. held' = [held EXCEPT ![t] = held[t]] /\ held[t] \in Id!Account
         /\ UNCHANGED <<lock, active, drops, failures>>
    BY Unchanged, Here DEF Id!Reserves, t
  <1> HIDE DEF e
  <1> QED BY <1>1, <1>4, <1>6, <1>7, <1>8, <1>9, <1>10, ProcessGoesOn DEF t, Underway, Id!Stages

LEMMA FindsActiveKeeps == ASSUME IdInv, NEW p \in Processes, Id!FindsActive(p) PROVE IdInv'
  BY ProcessEnds DEF Id!FindsActive, IdInv, IdTyped

LEMMA LoginFailsKeeps == ASSUME IdInv, NEW p \in Processes, Id!LoginFails(p) PROVE IdInv'
  BY ProcessEnds DEF Id!LoginFails, IdInv, IdTyped

LEMMA FailsKeeps == ASSUME IdInv, NEW p \in Processes, Id!Fails(p) PROVE IdInv'
  BY ProcessEnds DEF Id!Fails, IdInv, IdTyped

LEMMA PartsAre == Len(Id!Parts) = 4
  BY DEF Id!Parts

-----------------------------------------------------------------------------
LEMMA RegistersKeeps == ASSUME IdInv, NEW p \in Processes, Id!Registers(p) PROVE IdInv'
  <1> DEFINE t == Id!Tenant(p)
             row == identity[t]
             b == held[t]
             a == IF b.exists THEN b
                  ELSE [Id!NoAccount EXCEPT !.exists = TRUE, !.password = ensuring[p].key]
             e == [ensuring[p] EXCEPT !.stage = "login"]
  <1>1. /\ t \in Tenants /\ row \in Id!RagFlowTenantIdentityRow /\ b \in Id!Account
           /\ ensuring[p] \in Process
        /\ Knows(ensuring[p], row, b) /\ Fits(t, row, b) /\ ensuring[p].stage = "register"
    BY Here, Unchanged DEF Id!Registers, Id!At
  <1>2. held' = [held EXCEPT ![t] = a] /\ Id!Set(p, e) /\ identity' = [identity EXCEPT ![t] = row]
        /\ UNCHANGED <<lock, active, drops, failures>>
    BY Unchanged, Here DEF Id!Registers, Id!Changed, Id!Goes, Id!Own, Id!AccountPassword
  <1>3. e \in Process /\ e.stage = "login" /\ e.tenant = t
    BY <1>1, WithStage DEF Id!Stages, Id!Tenant
  <1>4. row.status # "none" /\ ensuring[p].key = row.key
    BY <1>1 DEF Knows, Reserved
  <1>5. a \in Id!Account /\ a.exists
    <2>1. ensuring[p].key \in {Id!LegacyPassword, Id!NoKey} \cup Id!ToSet(IdKeys)
      BY <1>1 DEF Process
    <2>2. 0 \in 0 .. Len(Id!Parts)
      BY PartsAre
    <2> QED BY <1>1, <2>1, <2>2 DEF Id!Account, Id!NoAccount
  <1>6. ~b.exists => a.configured = 0 /\ a.tokens = 0 /\ a.password = row.key
    BY <1>4 DEF Id!NoAccount
  <1>7. b.exists => a = b
    OBVIOUS
  <1> HIDE DEF t, row, b, a
  <1>8. Knows(e, row, a)
    BY <1>1, <1>3, <1>4, <1>5, <1>6, <1>7 DEF Knows, Reserved, Fits, Process
  <1>9. Fits(t, row, a) /\ Onwards(row, b, row, a) /\ a.tokens = b.tokens
    BY <1>1, <1>4, <1>5, <1>6, <1>7, PartsAre DEF Fits, Onwards, Id!Account
  <1> HIDE DEF e
  <1> QED BY <1>1, <1>2, <1>3, <1>5, <1>8, <1>9, ProcessGoesOn DEF t, row, b, Underway, Id!Stages

LEMMA LogsInKeeps == ASSUME IdInv, NEW p \in Processes, Id!LogsIn(p) PROVE IdInv'
  <1> DEFINE t == Id!Tenant(p)
             e == [ensuring[p] EXCEPT !.stage = "configure"]
  <1>1. Id!Set(p, e) /\ ensuring[p].stage = "login"
        /\ UNCHANGED <<identity, held, lock, active, drops, failures>>
    BY DEF Id!LogsIn, Id!Goes, Id!At
  <1>2. e \in Process /\ e.stage = "configure" /\ e.tenant = t
    BY Here, WithStage DEF Id!Stages, Id!Tenant
  <1>3. Knows(e, identity[t], held[t])
    BY <1>1, <1>2, Here DEF Knows, Reserved, Process
  <1> HIDE DEF e, t
  <1> QED BY <1>1, <1>2, <1>3, ProcessGoesOn, Unchanged, Here DEF t, Underway, Id!Stages

LEMMA AdoptsKeeps == ASSUME IdInv, NEW p \in Processes, Id!Adopts(p) PROVE IdInv'
  <1> DEFINE t == Id!Tenant(p)
             row == identity[t]
             b == held[t]
             a == [b EXCEPT !.password = ensuring[p].key]
             e == [ensuring[p] EXCEPT !.stage = "configure", !.token = 1]
  <1>1. /\ t \in Tenants /\ row \in Id!RagFlowTenantIdentityRow /\ b \in Id!Account
           /\ ensuring[p] \in Process
        /\ Knows(ensuring[p], row, b) /\ Fits(t, row, b) /\ ensuring[p].stage = "adopt"
    BY Here, Unchanged DEF Id!Adopts, Id!At
  <1>2. held' = [held EXCEPT ![t] = a] /\ Id!Set(p, e) /\ identity' = [identity EXCEPT ![t] = row]
        /\ UNCHANGED <<lock, active, drops, failures>>
    BY Unchanged, Here DEF Id!Adopts, Id!Changed, Id!Own, Id!AccountPassword
  <1>3. e \in Process /\ e.stage = "configure" /\ e.tenant = t /\ e.token = 1
        /\ e.key = ensuring[p].key
        /\ e.adopting = ensuring[p].adopting
    BY <1>1 DEF Id!Stages, Id!Tenant, Process
  <1>4. row.status # "none" /\ ensuring[p].key = row.key /\ ensuring[p].adopting /\ IsLegacy(t)
    BY <1>1 DEF Knows, Reserved, Id!Tenant
  <1>5. a \in Id!Account /\ a.exists = b.exists /\ a.password = row.key
        /\ a.configured = b.configured
        /\ a.tokens = b.tokens
    <2>1. ensuring[p].key \in {Id!LegacyPassword, Id!NoKey} \cup Id!ToSet(IdKeys)
      BY <1>1 DEF Process
    <2> QED BY <1>1, <1>4, <2>1 DEF Id!Account
  <1>6. b.exists /\ b.tokens >= 1 /\ b.tokens \in Nat
    BY <1>1, <1>4 DEF Fits, Id!Account
  <1> HIDE DEF t, row, b, a
  <1>7. Knows(e, row, a)
    BY <1>1, <1>3, <1>4, <1>5, <1>6 DEF Knows, Reserved, Process
  <1>8. Fits(t, row, a) /\ Onwards(row, b, row, a)
    BY <1>1, <1>4, <1>5, <1>6 DEF Fits, Onwards
  <1> HIDE DEF e
  <1> QED BY <1>1, <1>2, <1>3, <1>5, <1>7, <1>8, ProcessGoesOn DEF t, row, b, Underway, Id!Stages

LEMMA ConfiguresKeeps == ASSUME IdInv, NEW p \in Processes, Id!Configures(p) PROVE IdInv'
  <1> DEFINE t == Id!Tenant(p)
             row == identity[t]
             b == held[t]
             a == [b EXCEPT !.configured = @ + 1]
             e == [ensuring[p] EXCEPT !.stage = "tokens"]
  <1>1. /\ t \in Tenants /\ row \in Id!RagFlowTenantIdentityRow /\ b \in Id!Account
           /\ ensuring[p] \in Process
        /\ Knows(ensuring[p], row, b) /\ Fits(t, row, b) /\ ensuring[p].stage = "configure"
        /\ identity' = [identity EXCEPT ![t] = row] /\ UNCHANGED <<lock, active, drops, failures>>
        /\ b.exists /\ ensuring[p].tenant = t
    BY Here, Unchanged DEF Id!Configures, Id!At, Knows, Id!Tenant
  <1>2. CASE b.configured < Len(Id!Parts)
    <2>1. held' = [held EXCEPT ![t] = a] /\ Id!Set(p, ensuring[p])
      BY <1>2 DEF Id!Configures, Id!Changed, Id!Own, Id!Set, IdInv, IdTyped
    <2>2. a \in Id!Account /\ a.exists = b.exists /\ a.password = b.password
          /\ a.tokens = b.tokens
          /\ a.configured = b.configured + 1
      <3>1. b.configured + 1 \in 0 .. Len(Id!Parts)
        BY <1>1, <1>2, PartsAre DEF Id!Account
      <3> DEFINE n == b.configured + 1
      <3>2. a = [b EXCEPT !.configured = n] /\ n \in 0 .. Len(Id!Parts)
        BY <3>1
      <3> HIDE DEF n
      <3>3. a \in Id!Account /\ a.exists = b.exists /\ a.password = b.password
            /\ a.tokens = b.tokens /\ a.configured = n
        BY <1>1, <3>2 DEF Id!Account
      <3> QED BY <3>3 DEF n
    <2> HIDE DEF t, row, b, a
    <2>3. Knows(ensuring[p], row, a)
      BY <1>1, <2>2 DEF Knows
    <2>4. Fits(t, row, a) /\ Onwards(row, b, row, a)
      BY <1>1, <1>2, <2>2 DEF Fits, Onwards, Id!Account
    <2> QED BY <1>1, <2>1, <2>2, <2>3, <2>4, ProcessGoesOn DEF t, row, b, Underway, Id!Stages
  <1>3. CASE ~(b.configured < Len(Id!Parts))
    <2>1. held' = [held EXCEPT ![t] = b] /\ Id!Set(p, e)
      BY <1>1, <1>3, Unchanged DEF Id!Configures, Id!Own, Id!Goes
    <2>2. e \in Process /\ e.stage = "tokens" /\ e.tenant = t
      BY Here, WithStage DEF Id!Stages, Id!Tenant
    <2>3. b.configured = Len(Id!Parts)
      BY <1>1, <1>3, PartsAre DEF Id!Account
    <2> HIDE DEF t, row, b
    <2>4. Knows(e, row, b)
      BY <1>1, <2>2, <2>3 DEF Knows, Reserved, Process
    <2> HIDE DEF e
    <2>5. Onwards(row, b, row, b)
      BY <1>1 DEF Onwards, Id!Account
    <2> QED BY <1>1, <2>1, <2>2, <2>4, <2>5, ProcessGoesOn DEF t, row, b, Underway, Id!Stages
  <1> QED BY <1>2, <1>3

-----------------------------------------------------------------------------
(* Tokens: a process that holds the lock sees that there is none *)
LEMMA CreatorsAre ==
  ASSUME IdInv, NEW u \in Tenants
  PROVE  /\ IsFiniteSet(Creators(u)) /\ IsFiniteSet(Strays(u)) /\ Strays(u) \subseteq Creators(u)
         /\ Cardinality(Creators(u)) \in Nat /\ Cardinality(Strays(u)) \in Nat
         /\ held[u].tokens \in Nat /\ drops \in Nat
         /\ held[u].tokens + Cardinality(Creators(u)) <= 1 + drops
         /\ held[u].tokens = 0 => Cardinality(Strays(u)) <= drops
  <1>1. Counted(u) /\ held[u] \in Id!Account /\ drops \in Nat
    BY DEF IdInv, IdTyped
  <1>2. IsFiniteSet(Creators(u)) /\ Strays(u) \subseteq Creators(u)
    BY <1>1 DEF Counted, Creators
  <1>3. IsFiniteSet(Strays(u))
    BY <1>2, FS_Subset
  <1> QED BY <1>1, <1>2, <1>3, FS_CardinalityType DEF Counted, Id!Account

LEMMA OneMoreAtMost ==
  ASSUME NEW S, NEW T, NEW x, IsFiniteSet(S), T \subseteq S \cup {x}
  PROVE  IsFiniteSet(T) /\ Cardinality(T) \in Nat /\ Cardinality(T) <= Cardinality(S) + 1
  <1>1. IsFiniteSet(S \cup {x}) /\ Cardinality(S \cup {x}) <= Cardinality(S) + 1
    <2>1. IsFiniteSet(S \cup {x}) /\ Cardinality(S) \in Nat
          /\ Cardinality(S \cup {x}) \in {Cardinality(S), Cardinality(S) + 1}
      BY FS_AddElement, FS_CardinalityType
    <2> QED BY <2>1
  <1>2. Cardinality(S) \in Nat /\ Cardinality(S \cup {x}) \in Nat
    BY <1>1, FS_CardinalityType
  <1> QED BY <1>1, <1>2, FS_Subset, FS_CardinalityType

LEMMA TakesTokenKeeps == ASSUME IdInv, NEW p \in Processes, Id!TakesToken(p) PROVE IdInv'
  <1> DEFINE t == Id!Tenant(p)
             row == identity[t]
             a == held[t]
             n == Id!TokenAtHand(p)
             s == IF n # 0 THEN "activate" ELSE "create"
             e == [ensuring[p] EXCEPT !.token = n, !.stage = s]
  <1>1. /\ t \in Tenants /\ row \in Id!RagFlowTenantIdentityRow /\ a \in Id!Account
           /\ ensuring[p] \in Process
        /\ Knows(ensuring[p], row, a) /\ Fits(t, row, a) /\ ensuring[p].stage = "tokens"
        /\ identity' = [identity EXCEPT ![t] = row] /\ held' = [held EXCEPT ![t] = a]
        /\ UNCHANGED <<identity, held, lock, active, drops, failures>>
        /\ a.exists /\ a.configured = Len(Id!Parts) /\ ensuring[p].tenant = t
        /\ Onwards(row, a, row, a)
    BY Here, Unchanged DEF Id!TakesToken, Id!At, Knows, Id!Tenant
  <1>2. Id!Set(p, e)
    BY DEF Id!TakesToken
  <1>3. /\ n \in Nat
        /\ n # 0 => n \in 1 .. a.tokens
        /\ n = 0 => a.tokens = 0
    BY <1>1 DEF Id!TokenAtHand, Id!Own, Id!Account, Process, Knows
  <1>4. s \in Id!Stages /\ s \in {"activate", "create"} /\ (s = "activate" <=> n # 0)
    BY DEF Id!Stages
  <1> HIDE DEF s, n
  <1>5. e \in Process /\ e.stage = s /\ e.tenant = t /\ e.token = n
    <2>1. ensuring[p] \in Process /\ ensuring[p].tenant = t /\ n \in Nat /\ s \in Id!Stages
      BY <1>1, <1>3, <1>4
    <2> QED BY <2>1 DEF Process
  <1>6. e.key = ensuring[p].key /\ e.adopting = ensuring[p].adopting
    BY <1>1 DEF Process
  <1> HIDE DEF e, row, a
  <1>7. Knows(e, row, a)
    <2>1. row.status # "none" /\ ensuring[p].key = row.key /\ a.exists
          /\ a.configured = Len(Id!Parts)
      BY <1>1 DEF Knows, Reserved
    <2>2. ensuring[p].adopting => IsLegacy(t)
      BY <1>1 DEF Knows
    <2> QED BY <1>3, <1>4, <1>5, <1>6, <2>1, <2>2 DEF Knows, Reserved
  <1>8. ensuring' = [ensuring EXCEPT ![p] = e] /\ e.tenant = ensuring[p].tenant
        /\ e.stage \notin {"idle", "lock"} /\ Knows(e, identity'[e.tenant], held'[e.tenant])
    BY <1>1, <1>2, <1>4, <1>5, <1>7 DEF Id!Set, row, a
  <1>9. \A u \in Tenants : Counted(u)'
    <2>1. CASE s = "activate"
      BY <1>1, <1>5, <1>8, <2>1, Unhurried
    <2>2. CASE s = "create"
      <3> TAKE u \in Tenants
      <3>1. a.tokens = 0
        BY <2>2, <1>3, <1>4
      <3>2. ensuring'[p] = e /\ \A q \in Processes \ {p} : ensuring'[q] = ensuring[q]
        BY <1>8 DEF IdInv, IdTyped
      <3>3. Strays(u)' = Strays(u)
        BY <1>1, <1>5, <1>8, <2>2, <3>2 DEF Strays, Underway, Id!Stages
      <3>4. CASE u # t \/ lock[t] # p
        <4>1. Creators(u)' \subseteq Creators(u)
          BY <1>1, <1>5, <1>8, <2>2, <3>2, <3>3, <3>4 DEF Creators, Strays, Underway, Id!Stages
        <4> QED BY <1>1, <3>3, <4>1, CountKept, CreatorsAre DEF IdInv
      <3>5. CASE u = t /\ lock[t] = p
        <4>1. Creators(u)' \subseteq Strays(u) \cup {p}
          BY <1>1, <1>5, <1>8, <2>2, <3>2, <3>3, <3>5 DEF Creators, Strays, Underway, Id!Stages
        <4>2. held[u].tokens = 0 /\ held' = held /\ drops' = drops
          BY <1>1, <3>1, <3>5 DEF a
        <4> HIDE DEF t
        <4>3. Cardinality(Strays(u)) <= drops /\ Cardinality(Strays(u)) \in Nat /\ drops \in Nat
              /\ IsFiniteSet(Strays(u))
          BY <4>2, CreatorsAre
        <4>4. /\ IsFiniteSet(Creators(u)') /\ Cardinality(Creators(u)') \in Nat
              /\ Cardinality(Creators(u)') <= Cardinality(Strays(u)) + 1
          BY <4>1, <4>3, OneMoreAtMost
        <4> QED BY <3>3, <4>2, <4>3, <4>4 DEF Counted
      <3> QED BY <3>4, <3>5
    <2> QED BY <1>4, <2>1, <2>2
  <1>10. active' \in 1 .. Len(IdKeys) /\ drops' \in Nat /\ failures' \in Nat
    BY <1>1 DEF IdInv, IdTyped
  <1>11. lock' = lock /\ e.tenant = ensuring[p].tenant /\ e.stage \notin {"idle", "lock"}
    BY <1>1, <1>8
  <1>12. /\ t \in Tenants /\ row \in Id!RagFlowTenantIdentityRow /\ a \in Id!Account
         /\ Fits(t, row, a) /\ Onwards(row, a, row, a)
         /\ identity' = [identity EXCEPT ![t] = row] /\ held' = [held EXCEPT ![t] = a]
    BY <1>1
  <1>13. Onwards(identity[t], held[t], row, a)
    BY <1>12 DEF row, a
  <1> HIDE DEF t
  <1> QED BY <1>5, <1>8, <1>9, <1>10, <1>11, <1>12, <1>13, ProcessMoves

(* A process at "create" creates its token and is a creator no more *)
LEMMA TokenCreated ==
  ASSUME IdInv, NEW p \in Processes, NEW e, ensuring[p].stage = "create",
         ensuring' = [ensuring EXCEPT ![p] = e], e.stage \in {"idle", "activate"},
         lock' \in {lock, Id!Released(p)}, drops' = drops,
         held'[Id!Tenant(p)].tokens = held[Id!Tenant(p)].tokens + 1,
         \A u \in Tenants \ {Id!Tenant(p)} : held'[u] = held[u]
  PROVE  \A u \in Tenants : Counted(u)'
  <1> TAKE u \in Tenants
  <1>1. ASSUME NEW q \in Processes, q # p
        PROVE  ensuring'[q] = ensuring[q] /\ \A v \in Tenants : lock'[v] = q <=> lock[v] = q
    BY <1>1, NobodyIs DEF IdInv, IdTyped, Id!Released, Process
  <1>2. ensuring'[p] = e
    BY DEF IdInv, IdTyped
  <1>3. Strays(u)' \subseteq Strays(u) /\ Creators(u)' \subseteq Creators(u)
    BY <1>1, <1>2 DEF Strays, Creators, Underway
  <1>4. CASE u # Id!Tenant(p)
    BY <1>3, <1>4, CountKept, CreatorsAre DEF IdInv
  <1>5. CASE u = Id!Tenant(p)
    <2>1. p \in Creators(u) /\ Creators(u)' \subseteq Creators(u) \ {p}
      BY <1>1, <1>2, <1>3, <1>5 DEF Creators, Strays, Underway, Id!Tenant
    <2>2. /\ IsFiniteSet(Creators(u) \ {p})
          /\ Cardinality(Creators(u) \ {p}) = Cardinality(Creators(u)) - 1
      BY <2>1, CreatorsAre, FS_RemoveElement
    <2>3. /\ IsFiniteSet(Creators(u)') /\ Cardinality(Creators(u)') \in Nat
          /\ Cardinality(Creators(u)') <= Cardinality(Creators(u)) - 1
      BY <2>1, <2>2, FS_Subset, FS_CardinalityType
    <2>4. held'[u].tokens = held[u].tokens + 1
      BY <1>5
    <2> QED BY <2>3, <2>4, CreatorsAre DEF Counted
  <1> QED BY <1>4, <1>5

LEMMA CreatesTokenKeeps == ASSUME IdInv, NEW p \in Processes, Id!CreatesToken(p) PROVE IdInv'
  <1> DEFINE t == Id!Tenant(p)
             row == identity[t]
             b == held[t]
             n == b.tokens + 1
             a == [b EXCEPT !.tokens = n]
             e == [ensuring[p] EXCEPT !.token = n, !.stage = "activate"]
  <1>1. /\ t \in Tenants /\ row \in Id!RagFlowTenantIdentityRow /\ b \in Id!Account
        /\ ensuring[p] \in Process /\ ensuring[p].tenant = t /\ ensuring[p].stage = "create"
        /\ Knows(ensuring[p], row, b) /\ Fits(t, row, b)
    BY Here, Unchanged DEF Id!CreatesToken, Id!At, Id!Tenant
  <1>2. /\ identity' = [identity EXCEPT ![t] = row] /\ held' = [held EXCEPT ![t] = a]
        /\ ensuring' = [ensuring EXCEPT ![p] = e]
        /\ UNCHANGED <<lock, active, drops, failures>>
    BY <1>1, Unchanged DEF Id!CreatesToken, Id!Changed, Id!Own, Id!Set
  <1>3. /\ n \in Nat /\ b.tokens \in Nat /\ n >= 1
        /\ a \in Id!Account /\ a.tokens = n /\ a.exists = b.exists /\ a.configured = b.configured
        /\ a.password = b.password
    <2>1. b.tokens \in Nat /\ n \in Nat
      BY <1>1 DEF Id!Account
    <2>2. a = [b EXCEPT !.tokens = n]
      OBVIOUS
    <2>3. n = b.tokens + 1
      OBVIOUS
    <2> HIDE DEF n, a
    <2>4. a \in Id!Account /\ a.tokens = n /\ a.exists = b.exists /\ a.configured = b.configured
          /\ a.password = b.password
      BY <1>1, <2>1, <2>2 DEF Id!Account
    <2> QED BY <2>1, <2>3, <2>4
  <1>4. e \in Process /\ e.stage = "activate" /\ e.tenant = t /\ e.token = n
        /\ e.key = ensuring[p].key /\ e.adopting = ensuring[p].adopting
    <2>1. "activate" \in Id!Stages /\ n \in Nat
      BY <1>3 DEF Id!Stages
    <2> HIDE DEF n, t
    <2> QED BY <1>1, <2>1 DEF Process
  <1>5. row.status # "none" /\ ensuring[p].key = row.key /\ b.exists
        /\ b.configured = Len(Id!Parts)
        /\ (ensuring[p].adopting => IsLegacy(t))
    BY <1>1 DEF Knows, Reserved
  <1>6. n = b.tokens + 1 /\ e.tenant = ensuring[p].tenant
    BY <1>1, <1>4
  <1> HIDE DEF e, a, n, row, b
  <1>7. Knows(e, row, a)
    BY <1>3, <1>4, <1>5 DEF Knows, Reserved
  <1>8. Fits(t, row, a) /\ Onwards(row, b, row, a)
    BY <1>1, <1>3, <1>5, <1>6 DEF Fits, Onwards
  <1>9. \A u \in Tenants : Counted(u)'
    <2>1. held'[t].tokens = held[t].tokens + 1 /\ \A u \in Tenants \ {t} : held'[u] = held[u]
      BY <1>1, <1>2, <1>3, <1>6 DEF b, IdInv, IdTyped
    <2> QED BY <1>1, <1>2, <1>4, <2>1, TokenCreated
  <1>10. Knows(e, identity'[e.tenant], held'[e.tenant])
    BY <1>1, <1>2, <1>4, <1>7 DEF IdInv, IdTyped
  <1>11. /\ active' \in 1 .. Len(IdKeys) /\ drops' \in Nat /\ failures' \in Nat
         /\ lock' = lock /\ e.stage \notin {"idle", "lock"}
    BY <1>2, <1>4 DEF IdInv, IdTyped
  <1>12. Onwards(identity[t], held[t], row, a)
    BY <1>8 DEF row, b
  <1> HIDE DEF t
  <1> QED BY <1>1, <1>2, <1>3, <1>4, <1>6, <1>8, <1>9, <1>10, <1>11, <1>12, ProcessMoves

-----------------------------------------------------------------------------
(* A step with which the process ends, whatever it did to its row and account *)
LEMMA EndsWith ==
  ASSUME IdInv, NEW p \in Processes, Id!Ends(p), NEW row \in Id!RagFlowTenantIdentityRow,
         NEW a \in Id!Account, identity' = [identity EXCEPT ![Id!Tenant(p)] = row],
         held' = [held EXCEPT ![Id!Tenant(p)] = a],
         Onwards(identity[Id!Tenant(p)], held[Id!Tenant(p)], row, a), Fits(Id!Tenant(p), row, a),
         \/ a.tokens = held[Id!Tenant(p)].tokens
         \/ ensuring[p].stage = "create" /\ a.tokens = held[Id!Tenant(p)].tokens + 1,
         UNCHANGED <<active, drops>>, failures' \in Nat
  PROVE  IdInv'
  <1> DEFINE t == Id!Tenant(p)
  <1>1. ensuring' = [ensuring EXCEPT ![p] = Id!IdleProcess] /\ lock' = Id!Released(p)
        /\ t \in Tenants
    BY Here DEF Id!Ends, Id!Set
  <1>2. Id!IdleProcess.stage = "idle"
    BY DEF Id!IdleProcess
  <1>3. held'[t] = a /\ \A u \in Tenants \ {t} : held'[u] = held[u]
    BY <1>1 DEF IdInv, IdTyped
  <1>4. \A u \in Tenants : Counted(u)'
    <2>1. CASE a.tokens = held[t].tokens
      <3>1. \A u \in Tenants : held'[u].tokens = held[u].tokens
        BY <1>3, <2>1
      <3> QED BY <1>1, <1>2, <3>1, Unhurried
    <2>2. CASE ensuring[p].stage = "create" /\ a.tokens = held[t].tokens + 1
      BY <1>1, <1>2, <1>3, <2>2, TokenCreated
    <2> QED BY <2>1, <2>2
  <1>5. Knows(Id!IdleProcess, identity'[Id!IdleProcess.tenant], held'[Id!IdleProcess.tenant])
    BY IdleIs
  <1>6. active' \in 1 .. Len(IdKeys) /\ drops' \in Nat
    BY DEF IdInv, IdTyped
  <1> HIDE DEF t
  <1> QED BY <1>1, <1>2, <1>4, <1>5, <1>6, IdleIs, ProcessMoves DEF t

LEMMA ActivatesKeeps == ASSUME IdInv, NEW p \in Processes, Id!Activates(p) PROVE IdInv'
  <1> DEFINE t == Id!Tenant(p)
             old == identity[t]
             a == held[t]
             n == ensuring[p].token
             k == IdKeys[active]
             row == [old EXCEPT !.status = "active", !.token = n, !.sealed = k]
  <1>1. /\ t \in Tenants /\ old \in Id!RagFlowTenantIdentityRow /\ a \in Id!Account
        /\ Knows(ensuring[p], old, a) /\ Fits(t, old, a) /\ ensuring[p].stage = "activate"
    BY Here, Unchanged DEF Id!Activates, Id!At
  <1>2. identity' = [identity EXCEPT ![t] = row] /\ Id!Ends(p)
        /\ UNCHANGED <<held, active, drops, failures>>
    BY DEF Id!Activates
  <1>3. k \in {Id!NoKey} \cup Id!ToSet(IdKeys) /\ n \in Nat
    BY Here, NobodyIs DEF IdInv, IdTyped, Process
  <1>4. old.status # "none" /\ a.configured = Len(Id!Parts) /\ n \in 1 .. a.tokens /\ a.exists
    BY <1>1 DEF Knows, Reserved
  <1> HIDE DEF n, k, old, a, t
  <1>5. row \in Id!RagFlowTenantIdentityRow /\ row.key = old.key /\ row.status = "active"
        /\ row.token = n
    BY <1>1, <1>3 DEF Id!RagFlowTenantIdentityRow
  <1> HIDE DEF row
  <1>6. Onwards(old, a, row, a) /\ Fits(t, row, a)
    BY <1>1, <1>4, <1>5 DEF Onwards, Fits, Id!Account
  <1>7. held' = [held EXCEPT ![t] = a] /\ failures' \in Nat
    BY <1>1, <1>2, Unchanged DEF a, IdInv, IdTyped
  <1> QED BY <1>1, <1>2, <1>5, <1>6, <1>7, EndsWith DEF t, old, a

LEMMA LosesAnswerKeeps == ASSUME IdInv, NEW p \in Processes, Id!LosesAnswer(p) PROVE IdInv'
  <1> DEFINE t == Id!Tenant(p)
             row == identity[t]
             b == held[t]
             k == ensuring[p].key
             new == [Id!NoAccount EXCEPT !.exists = TRUE, !.password = k]
             adopted == [b EXCEPT !.password = k]
             next == [b EXCEPT !.configured = @ + 1]
             more == [b EXCEPT !.tokens = @ + 1]
  <1>1. /\ t \in Tenants /\ row \in Id!RagFlowTenantIdentityRow /\ b \in Id!Account
        /\ Knows(ensuring[p], row, b) /\ Fits(t, row, b) /\ Onwards(row, b, row, b)
        /\ ensuring[p].tenant = t
    BY Here, Unchanged DEF Id!Tenant
  <1>2. ensuring[p].stage \in {"register", "adopt", "configure", "create"}
    BY DEF Id!LosesAnswer
  <1>3. row.status # "none" /\ k = row.key
        /\ k \in {Id!LegacyPassword, Id!NoKey} \cup Id!ToSet(IdKeys)
    BY <1>1, <1>2 DEF Knows, Reserved, Id!RagFlowTenantIdentityRow
  <1>4. /\ b.exists \in BOOLEAN
           /\ b.password \in {Id!LegacyPassword, Id!NoKey} \cup Id!ToSet(IdKeys)
        /\ b.configured \in 0 .. Len(Id!Parts) /\ b.tokens \in Nat
    BY <1>1 DEF Id!Account
  <1>5. identity' = [identity EXCEPT ![t] = row] /\ Id!Ends(p) /\ UNCHANGED <<active, drops>>
        /\ failures' \in Nat
    BY <1>1, Unchanged DEF Id!LosesAnswer, IdInv, IdTyped
  <1>6. \/ ensuring[p].stage = "register" /\ ~b.exists /\ held' = [held EXCEPT ![t] = new]
        \/ ensuring[p].stage = "adopt" /\ held' = [held EXCEPT ![t] = adopted]
        \/ /\ ensuring[p].stage = "configure" /\ b.configured < Len(Id!Parts)
           /\ held' = [held EXCEPT ![t] = next]
        \/ ensuring[p].stage = "create" /\ held' = [held EXCEPT ![t] = more]
        \/ held' = [held EXCEPT ![t] = b]
    BY DEF Id!LosesAnswer, Id!Changed, Id!Own, Id!AccountPassword, Id!At
  <1> HIDE DEF t, row, b, k
  <1>7. CASE ensuring[p].stage = "register" /\ ~b.exists /\ held' = [held EXCEPT ![t] = new]
    <2>1. new \in Id!Account /\ new.exists /\ new.password = k /\ new.configured = 0
          /\ new.tokens = 0
      <3>1. 0 \in 0 .. Len(Id!Parts)
        BY PartsAre
      <3> QED BY <1>3, <3>1 DEF Id!Account, Id!NoAccount
    <2> HIDE DEF new
    <2>2. Onwards(row, b, row, new) /\ Fits(t, row, new) /\ new.tokens = b.tokens
      BY <1>1, <1>3, <1>4, <1>7, <2>1, PartsAre DEF Onwards, Fits
    <2> QED BY <1>1, <1>5, <1>7, <2>1, <2>2, EndsWith DEF t, row, b
  <1>8. CASE ensuring[p].stage = "adopt" /\ held' = [held EXCEPT ![t] = adopted]
    <2>1. /\ adopted \in Id!Account /\ adopted.exists = b.exists /\ adopted.password = k
          /\ adopted.configured = b.configured /\ adopted.tokens = b.tokens
      BY <1>1, <1>3 DEF Id!Account
    <2> HIDE DEF adopted
    <2>2. Onwards(row, b, row, adopted) /\ Fits(t, row, adopted)
      BY <1>1, <1>3, <1>4, <1>8, <2>1 DEF Onwards, Fits
    <2> QED BY <1>1, <1>5, <1>8, <2>1, <2>2, EndsWith DEF t, row, b
  <1>9. CASE /\ ensuring[p].stage = "configure" /\ b.configured < Len(Id!Parts)
             /\ held' = [held EXCEPT ![t] = next]
    <2> DEFINE n == b.configured + 1
    <2>1. n \in 0 .. Len(Id!Parts) /\ next = [b EXCEPT !.configured = n] /\ b.exists
      BY <1>1, <1>4, <1>9, PartsAre DEF Knows
    <2>2. b.configured # Len(Id!Parts)
      BY <1>4, <1>9
    <2> HIDE DEF n, next
    <2>3. /\ next \in Id!Account /\ next.exists = b.exists /\ next.password = b.password
          /\ next.configured = n /\ next.tokens = b.tokens
      BY <1>1, <2>1 DEF Id!Account
    <2>4. Onwards(row, b, row, next) /\ Fits(t, row, next)
      BY <1>1, <1>3, <1>4, <2>1, <2>2, <2>3 DEF Onwards, Fits
    <2> QED BY <1>1, <1>5, <1>9, <2>3, <2>4, EndsWith DEF t, row, b
  <1>10. CASE ensuring[p].stage = "create" /\ held' = [held EXCEPT ![t] = more]
    <2> DEFINE n == b.tokens + 1
    <2>1. n \in Nat /\ more = [b EXCEPT !.tokens = n] /\ b.exists /\ n = b.tokens + 1
      BY <1>1, <1>4, <1>10 DEF Knows
    <2> HIDE DEF n, more
    <2>2. /\ more \in Id!Account /\ more.exists = b.exists /\ more.password = b.password
          /\ more.configured = b.configured /\ more.tokens = n
      BY <1>1, <2>1 DEF Id!Account
    <2>3. Onwards(row, b, row, more) /\ Fits(t, row, more)
      BY <1>1, <1>3, <1>4, <2>1, <2>2 DEF Onwards, Fits
    <2> QED BY <1>1, <1>5, <1>10, <2>1, <2>2, <2>3, EndsWith DEF t, row, b
  <1>11. CASE held' = [held EXCEPT ![t] = b]
    BY <1>1, <1>5, <1>11, EndsWith DEF t, row, b
  <1> QED BY <1>6, <1>7, <1>8, <1>9, <1>10, <1>11

(* A lost lock makes its holder a stray, and is counted *)
LEMMA LosesLockKeeps == ASSUME IdInv, NEW p \in Processes, Id!LosesLock(p) PROVE IdInv'
  <1>1. ensuring' = ensuring /\ identity' = identity /\ held' = held /\ active' = active
        /\ lock' = Id!Released(p) /\ drops' = drops + 1 /\ drops \in Nat /\ failures' \in Nat
    BY DEF Id!LosesLock, IdInv, IdTyped
  <1>2. IdTyped'
    BY <1>1 DEF IdInv, IdTyped, Id!Released
  <1>3. LocksHeld'
    BY <1>1, NobodyIs DEF IdInv, IdTyped, LocksHeld, Id!Released
  <1>4. ASSUME NEW u \in Tenants PROVE Counted(u)'
    <2>1. Strays(u)' \subseteq Strays(u) \cup {p} /\ Creators(u)' \subseteq Creators(u) \cup {p}
      BY <1>1, NobodyIs DEF IdInv, IdTyped, Strays, Creators, Id!Released
    <2>2. /\ IsFiniteSet(Creators(u)') /\ Cardinality(Creators(u)') \in Nat
          /\ Cardinality(Creators(u)') <= Cardinality(Creators(u)) + 1
          /\ IsFiniteSet(Strays(u)') /\ Cardinality(Strays(u)') \in Nat
          /\ Cardinality(Strays(u)') <= Cardinality(Strays(u)) + 1
      BY <2>1, CreatorsAre, OneMoreAtMost
    <2> QED BY <1>1, <2>2, CreatorsAre DEF Counted
  <1>5. \A q \in Processes :
          Knows(ensuring'[q], identity'[ensuring'[q].tenant], held'[ensuring'[q].tenant])
    BY <1>1 DEF IdInv
  <1>6. \A u \in Tenants : Fits(u, identity'[u], held'[u])
    BY <1>1 DEF IdInv
  <1> QED BY <1>2, <1>3, <1>4, <1>5, <1>6 DEF IdInv

LEMMA StaysSo == ASSUME IdInv, UNCHANGED <<identity, held, ensuring, lock, drops>>,
                        active' \in 1 .. Len(IdKeys), failures' \in Nat PROVE IdInv'
  <1>1. IdTyped' /\ LocksHeld'
    BY DEF IdInv, IdTyped, LocksHeld
  <1>2. \A u \in Tenants : Counted(u)'
    BY DEF IdInv, Counted, Strays, Creators
  <1> QED BY <1>1, <1>2 DEF IdInv

LEMMA IdKept == ASSUME IdInv, [Id!Next]_Id!vars PROVE IdInv'
  <1>1. CASE UNCHANGED Id!vars
    BY <1>1, StaysSo DEF Id!vars, IdInv, IdTyped
  <1>2. CASE Id!Rotates
    <2>1. active' \in 1 .. Len(IdKeys)
      BY <1>2, NobodyIs DEF Id!Rotates, IdInv, IdTyped
    <2> QED BY <1>2, <2>1, StaysSo DEF Id!Rotates, IdInv, IdTyped
  <1>3. ASSUME NEW p \in Processes, Id!ProcessStep(p) PROVE IdInv'
    BY <1>3, NeedsKeeps, TakesLockKeeps, GetsKeeps, FindsActiveKeeps, ReservesKeeps,
       RegistersKeeps, LogsInKeeps, LoginFailsKeeps, AdoptsKeeps, ConfiguresKeeps,
       TakesTokenKeeps, CreatesTokenKeeps, ActivatesKeeps, FailsKeeps, LosesAnswerKeeps,
       LosesLockKeeps DEF Id!ProcessStep
  <1> QED BY <1>1, <1>2, <1>3 DEF Id!Next

LEMMA IdFollows == ASSUME IdInv PROVE Id!TypeOK /\ Id!RetriesConverge
  <1>1. Id!TypeOK
    BY DEF IdInv, IdTyped, Id!TypeOK, Process
  <1>2. ASSUME NEW t \in Tenants
        PROVE  /\ identity[t].status # "none" /\ held[t].exists =>
                    held[t].password = identity[t].key
                    \/ (Legacy /\ t = Default /\ held[t].password = Id!LegacyPassword)
               /\ Id!IsActive(t) => held[t].configured = Len(Id!Parts)
                                    /\ identity[t].token \in 1 .. held[t].tokens
               /\ held[t].tokens <= 1 + drops
    BY CreatorsAre DEF IdInv, Fits, Id!IsActive, IsLegacy
  <1> QED BY <1>1, <1>2 DEF Id!RetriesConverge

-----------------------------------------------------------------------------
(* EventBroker: what a stream has got, what it waits for and what is queued are one row of
   numbers, which ends where its conversation is *)

Event == 1 .. MaxSequence
State == [next : Nat, history : Seq(Nat), subscribers : SUBSET Subscribers, active : BOOLEAN,
          accessed : Nat, timer : Nat, epoch : Nat]
Stream == [phase : {"open", "leaving"}, key : Streams, epoch : Nat, after : Nat,
           replay : Seq(Nat), queue : Seq(Nat), got : Seq(Nat)]

(* The n numbers after a *)
Run(a, n) == [i \in 1 .. n |-> a + i]

(* A history is what was published last *)
Sound(s) ==
  /\ s \in State /\ s.next >= 1
  /\ s.next > 1 => s.history # <<>>
  /\ Len(s.history) < s.next
  /\ s.history = Run(s.next - 1 - Len(s.history), Len(s.history))

StatesSound(ss) ==
  /\ DOMAIN ss \subseteq Streams /\ ss = [k \in DOMAIN ss |-> ss[k]]
  /\ \A k \in DOMAIN ss : Sound(ss[k])

(* A subscriber has a stream from this very state *)
Members(ss, st) ==
  \A k \in DOMAIN ss : \A c \in ss[k].subscribers :
    st[c] \in Stream /\ st[c].key = k /\ st[c].epoch = ss[k].epoch

Subscribed(c, s, ss) == s.key \in DOMAIN ss /\ c \in ss[s.key].subscribers

WholeStream(c, s, ss) ==
  /\ s.got = Run(s.after, Len(s.got))
  /\ s.replay = Run(s.after + Len(s.got), Len(s.replay))
  /\ IF Subscribed(c, s, ss)
     THEN /\ s.queue = Run(s.after + Len(s.got) + Len(s.replay), Len(s.queue))
          /\ ss[s.key].next = 1 + s.after + Len(s.got) + Len(s.replay) + Len(s.queue)
     ELSE s.queue = <<Broker!Overflow>>

BrokerInv ==
  /\ following \in [Subscribers -> Stream \cup {Broker!NoStream}]
  /\ epoch \in Nat /\ now \in Nat /\ closed \in BOOLEAN
  /\ StatesSound(states)
  /\ Members(states, following)
  /\ \A c \in Subscribers : following[c].phase = "open" => WholeStream(c, following[c], states)

-----------------------------------------------------------------------------
LEMMA Limits ==
  /\ HistoryLimit \in Nat /\ HistoryLimit >= 1 /\ StateLimit \in Nat /\ Ttl \in Nat
     /\ MaxClock \in Nat
  /\ MaxSequence \in Nat
  BY ServicesAssumption DEF Broker!EventBrokerAssumption

(* Runs of numbers *)
LEMMA RunIs ==
  ASSUME NEW a \in Nat, NEW n \in Nat
  PROVE  /\ Run(a, n) \in Seq(Nat) /\ Len(Run(a, n)) = n
         /\ Append(Run(a, n), a + n + 1) = Run(a, n + 1)
         /\ n > 0 => Head(Run(a, n)) = a + 1 /\ Tail(Run(a, n)) = Run(a + 1, n - 1)
         /\ Run(a, 0) = <<>>
  <1>1. Run(a, n) \in Seq(Nat) /\ Len(Run(a, n)) = n /\ Run(a, 0) = <<>>
    BY DEF Run
  <1>2. Append(Run(a, n), a + n + 1) = Run(a, n + 1)
    BY DEF Run
  <1>3. ASSUME n > 0
        PROVE  Head(Run(a, n)) = a + 1 /\ Tail(Run(a, n)) = Run(a + 1, n - 1)
    BY <1>3 DEF Run
  <1> QED BY <1>1, <1>2, <1>3

LEMMA RunsJoin ==
  ASSUME NEW a \in Nat, NEW m \in Nat, NEW n \in Nat
  PROVE  Run(a, m) \o Run(a + m, n) = Run(a, m + n)
  BY DEF Run

(* The instance counts as this module does *)
LEMMA BrokerCounts == \A S : Broker!Cardinality(S) = Cardinality(S)
  BY Zenon DEF Broker!Cardinality, Cardinality

LEMMA RunSuffix ==
  ASSUME NEW a \in Nat, NEW n \in Nat, NEW b \in Nat, a <= b, b <= a + n
  PROVE  Broker!Since(Run(a, n), b) = Run(b, a + n - b)
  <1> DEFINE I == {i \in DOMAIN Run(a, n) : Run(a, n)[i] <= b}
  <1>1. I = 1 .. (b - a)
    BY DEF Run
  <1>2. Cardinality(1 .. (b - a)) = b - a
    BY FS_Interval
  <1>3. SubSeq(Run(a, n), 1 + (b - a), n) = Run(b, a + n - b)
    BY DEF Run
  <1> HIDE DEF I
  <1>4. Broker!Since(Run(a, n), b) = SubSeq(Run(a, n), 1 + Cardinality(I), Len(Run(a, n)))
    BY BrokerCounts DEF Broker!Since, I
  <1> QED BY <1>1, <1>2, <1>3, <1>4, RunIs

-----------------------------------------------------------------------------
(* A state that is as it was, but for when it was accessed, and a new one *)
Same(s, t) ==
  /\ t \in State /\ t.next = s.next /\ t.history = s.history
  /\ t.subscribers = s.subscribers /\ t.epoch = s.epoch

Fresh(s) == s \in State /\ s.next = 1 /\ s.history = <<>> /\ s.subscribers = {}

(* States that nobody misses: those without subscribers may go or begin anew *)
Keeps(ss, tt) ==
  /\ DOMAIN tt \subseteq Streams /\ tt = [k \in DOMAIN tt |-> tt[k]]
  /\ \A k \in DOMAIN tt : (k \in DOMAIN ss /\ Same(ss[k], tt[k])) \/ Fresh(tt[k])
  /\ \A k \in DOMAIN ss : ss[k].subscribers # {} => k \in DOMAIN tt /\ Same(ss[k], tt[k])

LEMMA SameSound ==
  ASSUME NEW s, NEW t, (Sound(s) /\ Same(s, t)) \/ Fresh(t)
  PROVE  Sound(t)
  <1>1. Run(0, 0) = <<>>
    BY RunIs
  <1> QED BY <1>1 DEF Sound, Same, Fresh, State

LEMMA KeptSound ==
  ASSUME NEW ss, NEW tt, StatesSound(ss), Keeps(ss, tt)
  PROVE  StatesSound(tt)
  BY SameSound DEF StatesSound, Keeps

LEMMA KeepsTwice ==
  ASSUME NEW ss, NEW tt, NEW uu, Keeps(ss, tt), Keeps(tt, uu)
  PROVE  Keeps(ss, uu)
  <1>1. ASSUME NEW k \in DOMAIN uu
        PROVE  (k \in DOMAIN ss /\ Same(ss[k], uu[k])) \/ Fresh(uu[k])
    BY <1>1 DEF Keeps, Same, Fresh
  <1>2. ASSUME NEW k \in DOMAIN ss, ss[k].subscribers # {}
        PROVE  k \in DOMAIN uu /\ Same(ss[k], uu[k])
    BY <1>2 DEF Keeps, Same
  <1> QED BY <1>1, <1>2 DEF Keeps

LEMMA KeptMembers ==
  ASSUME NEW ss, NEW tt, NEW st, Members(ss, st), Keeps(ss, tt)
  PROVE  Members(tt, st)
  BY DEF Members, Keeps, Same, Fresh

LEMMA KeptWhole ==
  ASSUME NEW ss, NEW tt, NEW c, NEW s, WholeStream(c, s, ss), Keeps(ss, tt)
  PROVE  WholeStream(c, s, tt)
  <1>1. Subscribed(c, s, tt) <=> Subscribed(c, s, ss)
    BY DEF Subscribed, Keeps, Same, Fresh
  <1>2. Subscribed(c, s, ss) => tt[s.key].next = ss[s.key].next
    BY DEF Subscribed, Keeps, Same
  <1> QED BY <1>1, <1>2 DEF WholeStream

LEMMA StatesKept ==
  ASSUME BrokerInv, Keeps(states, states'), UNCHANGED <<following, closed>>, epoch' \in Nat,
         now' \in Nat
  PROVE  BrokerInv'
  <1>1. StatesSound(states') /\ Members(states', following)
    BY KeptSound, KeptMembers DEF BrokerInv
  <1>2. ASSUME NEW c \in Subscribers,
               following[c].phase = "open" PROVE WholeStream(c, following[c], states')
    BY <1>2, KeptWhole DEF BrokerInv
  <1> QED BY <1>1, <1>2 DEF BrokerInv

-----------------------------------------------------------------------------
LEMMA KeepsSelf == ASSUME NEW ss, StatesSound(ss) PROVE Keeps(ss, ss)
  BY DEF Keeps, StatesSound, Sound, Same

LEMMA WithoutIs ==
  ASSUME NEW ss, NEW gone
  PROVE  Broker!Without(ss, gone) = [k \in DOMAIN ss \ gone |-> ss[k]]
  BY DEF Broker!Without, Broker!Restrict

(* States without subscribers are dropped *)
LEMMA DropsIdle ==
  ASSUME NEW ss, NEW gone, StatesSound(ss), \A k \in gone \cap DOMAIN ss : ss[k].subscribers = {}
  PROVE  /\ Keeps(ss, Broker!Without(ss, gone))
            /\ DOMAIN Broker!Without(ss, gone) = DOMAIN ss \ gone
         /\ \A k \in DOMAIN ss \ gone : Broker!Without(ss, gone)[k] = ss[k]
  <1> DEFINE tt == Broker!Without(ss, gone)
  <1>1. /\ DOMAIN tt = DOMAIN ss \ gone
        /\ \A k \in DOMAIN tt : tt[k] = ss[k]
        /\ tt = [k \in DOMAIN tt |-> tt[k]]
    BY WithoutIs
  <1> HIDE DEF tt
  <1>2. \A k \in DOMAIN ss : Same(ss[k], ss[k])
    BY DEF StatesSound, Sound, Same
  <1>3. Keeps(ss, tt)
    BY <1>1, <1>2 DEF Keeps, StatesSound
  <1> QED BY <1>1, <1>3 DEF tt

LEMMA PrunedKeeps ==
  ASSUME NEW ss, StatesSound(ss)
  PROVE  /\ Keeps(ss, Broker!Pruned(ss)) /\ StatesSound(Broker!Pruned(ss))
            /\ DOMAIN Broker!Pruned(ss) \subseteq DOMAIN ss
         /\ \A k \in DOMAIN Broker!Pruned(ss) : Broker!Pruned(ss)[k] = ss[k]
  <1> DEFINE gone == {k \in DOMAIN ss : Broker!Idle(ss[k]) /\ now - ss[k].accessed >= Ttl}
  <1>1. \A k \in gone \cap DOMAIN ss : ss[k].subscribers = {}
    BY DEF Broker!Idle
  <1>2. Broker!Pruned(ss) = Broker!Without(ss, gone)
    BY DEF Broker!Pruned
  <1> HIDE DEF gone
  <1>3. /\ Keeps(ss, Broker!Without(ss, gone))
           /\ DOMAIN Broker!Without(ss, gone) = DOMAIN ss \ gone
        /\ \A k \in DOMAIN ss \ gone : Broker!Without(ss, gone)[k] = ss[k]
    BY <1>1, DropsIdle
  <1> QED BY <1>2, <1>3, KeptSound

LEMMA TrimmedKeeps ==
  ASSUME NEW ss, StatesSound(ss), NEW most, NEW tt \in Broker!Trimmed(ss, most)
  PROVE  /\ Keeps(ss, tt) /\ StatesSound(tt) /\ DOMAIN tt \subseteq DOMAIN ss
         /\ \A k \in DOMAIN tt : tt[k] = ss[k]
  <1>1. PICK gone \in SUBSET {k \in DOMAIN ss : Broker!Idle(ss[k])} :
               tt = Broker!Without(ss, gone)
    BY DEF Broker!Trimmed
  <1>2. \A k \in gone \cap DOMAIN ss : ss[k].subscribers = {}
    BY <1>1 DEF Broker!Idle
  <1>3. /\ Keeps(ss, tt) /\ DOMAIN tt = DOMAIN ss \ gone
        /\ \A k \in DOMAIN ss \ gone : tt[k] = ss[k]
    BY <1>1, <1>2, DropsIdle
  <1> QED BY <1>3, KeptSound

(* One state is replaced *)
LEMMA Replaces ==
  ASSUME NEW ss, StatesSound(ss), NEW k \in DOMAIN ss, NEW s, Same(ss[k], s)
  PROVE  Keeps(ss, [ss EXCEPT ![k] = s]) /\ StatesSound([ss EXCEPT ![k] = s])
  <1> DEFINE tt == [ss EXCEPT ![k] = s]
  <1>1. DOMAIN tt = DOMAIN ss /\ tt = [l \in DOMAIN tt |-> tt[l]]
        /\ tt[k] = s /\ \A l \in DOMAIN ss \ {k} : tt[l] = ss[l]
    BY DEF StatesSound
  <1> HIDE DEF tt
  <1>2. \A l \in DOMAIN ss : Same(ss[l], tt[l])
    BY <1>1 DEF StatesSound, Sound, Same
  <1>3. Keeps(ss, tt)
    BY <1>1, <1>2 DEF Keeps, StatesSound
  <1> QED BY <1>3, KeptSound DEF tt

LEMMA ScheduledIs ==
  ASSUME NEW s \in State
  PROVE  Same(s, Broker!Scheduled(s)) /\ (now \in Nat => Same(s, Broker!Touched(s)))
  <1>1. \A t \in State : Same(t, Broker!Scheduled(t))
    <2> TAKE t \in State
    <2> DEFINE n == IF Broker!Idle(t) /\ ~closed THEN t.accessed ELSE Broker!NoTimer
    <2>1. n \in Nat
      BY Limits DEF State, Broker!NoTimer
    <2> HIDE DEF n
    <2>2. Broker!Scheduled(t) = [t EXCEPT !.timer = n]
      BY DEF Broker!Scheduled, n
    <2> QED BY <2>1, <2>2 DEF Same, State
  <1>2. ASSUME now \in Nat PROVE Same(s, Broker!Touched(s))
    <2> DEFINE t == [s EXCEPT !.accessed = now]
    <2>1. t \in State /\ Same(s, t)
      BY <1>2 DEF Same, State
    <2> HIDE DEF t
    <2>2. Broker!Touched(s) = Broker!Scheduled(t)
      BY DEF Broker!Touched, t
    <2> QED BY <1>1, <2>1, <2>2 DEF Same
  <1> QED BY <1>1, <1>2

-----------------------------------------------------------------------------
(* _state_locked: the state that was there, or a new one *)
LEMMA WithStateKeeps ==
  ASSUME BrokerInv, NEW k \in Streams, NEW ss \in Broker!WithState(k)
  PROVE  /\ Keeps(states, ss) /\ StatesSound(ss) /\ k \in DOMAIN ss
         /\ Broker!Created(k) => ss[k].subscribers = {}
  <1> DEFINE live == Broker!Pruned(states)
  <1>1. /\ Keeps(states, live) /\ StatesSound(live) /\ now \in Nat /\ epoch \in Nat
    BY PrunedKeeps DEF BrokerInv
  <1>2. CASE ~Broker!Created(k)
    <2> DEFINE s == [live[k] EXCEPT !.accessed = now]
    <2>1. ss = [live EXCEPT ![k] = s] /\ k \in DOMAIN live
      BY <1>2 DEF Broker!WithState, Broker!Created
    <2> HIDE DEF live
    <2>2. Same(live[k], s)
      BY <1>1, <2>1 DEF StatesSound, Sound, Same, State
    <2> HIDE DEF s
    <2>3. Keeps(live, ss) /\ StatesSound(ss)
      BY <1>1, <2>1, <2>2, Replaces
    <2>4. k \in DOMAIN ss
      BY <2>1
    <2> QED BY <1>1, <1>2, <2>3, <2>4, KeepsTwice
  <1>3. CASE Broker!Created(k)
    <2>1. PICK rest \in Broker!Trimmed(live, StateLimit - 1) :
            ss = [l \in DOMAIN rest \cup {k} |-> IF l = k THEN Broker!NewState(epoch + 1) ELSE rest[l]]
      BY <1>3 DEF Broker!WithState
    <2>2. Keeps(live, rest) /\ StatesSound(rest) /\ DOMAIN rest \subseteq DOMAIN live
      BY <1>1, TrimmedKeeps
    <2>3. k \notin DOMAIN rest
      BY <1>3, <2>2 DEF Broker!Created
    <2>4. Fresh(Broker!NewState(epoch + 1))
      BY <1>1, Limits DEF Fresh, Broker!NewState, State, Broker!NoTimer
    <2>5. /\ DOMAIN ss = DOMAIN rest \cup {k} /\ ss[k] = Broker!NewState(epoch + 1)
          /\ \A l \in DOMAIN rest : ss[l] = rest[l]
          /\ ss = [l \in DOMAIN ss |-> ss[l]]
      BY <2>1, <2>3
    <2>6. \A l \in DOMAIN rest : Same(rest[l], rest[l])
      BY <2>2 DEF StatesSound, Sound, Same
    <2> HIDE DEF live
    <2>7. Keeps(rest, ss)
      BY <2>2, <2>4, <2>5, <2>6 DEF Keeps, StatesSound
    <2>8. Keeps(live, ss)
      BY <2>2, <2>7, KeepsTwice
    <2>9. Keeps(states, ss)
      BY <1>1, <2>8, KeepsTwice
    <2> QED BY <2>2, <2>4, <2>5, <2>7, <2>9, KeptSound DEF Fresh
  <1> QED BY <1>2, <1>3

LEMMA RefusedKeeps ==
  ASSUME BrokerInv, NEW k \in Streams, NEW ss \in Broker!WithState(k), Broker!Refused(k, ss)
  PROVE  Keeps(states, states') /\ epoch' = epoch
  <1>1. /\ Keeps(states, ss) /\ StatesSound(ss) /\ k \in DOMAIN ss
        /\ Broker!Created(k) => ss[k].subscribers = {}
    BY WithStateKeeps
  <1>2. CASE Broker!Created(k)
    <2>1. states' = Broker!Without(ss, {k})
      BY <1>2 DEF Broker!Refused
    <2>2. Keeps(ss, Broker!Without(ss, {k}))
      BY <1>1, <1>2, DropsIdle
    <2> QED BY <1>1, <2>1, <2>2, KeepsTwice DEF Broker!Refused
  <1>3. CASE ~Broker!Created(k)
    BY <1>1, <1>3 DEF Broker!Refused
  <1> QED BY <1>2, <1>3

LEMMA ValidateKeeps ==
  ASSUME BrokerInv, NEW k \in Streams, NEW after \in Nat, Broker!ValidateResume(k, after)
  PROVE  BrokerInv'
  <1>1. PICK ss \in Broker!WithState(k) :
          IF Broker!HistoryUnavailable(ss[k], after) THEN Broker!Refused(k, ss)
          ELSE states' = [ss EXCEPT ![k] = Broker!Touched(@)] /\ Broker!Kept(k)
    BY DEF Broker!ValidateResume
  <1>2. UNCHANGED <<following, closed, now>> /\ epoch \in Nat /\ now \in Nat
    BY DEF Broker!ValidateResume, BrokerInv
  <1>3. CASE Broker!HistoryUnavailable(ss[k], after)
    BY <1>1, <1>2, <1>3, RefusedKeeps, StatesKept
  <1>4. CASE ~Broker!HistoryUnavailable(ss[k], after)
    <2>1. Keeps(states, ss) /\ StatesSound(ss) /\ k \in DOMAIN ss
      BY WithStateKeeps
    <2>2. Same(ss[k], Broker!Touched(ss[k]))
      BY <1>2, <2>1, ScheduledIs DEF StatesSound, Sound
    <2>3. Keeps(ss, [ss EXCEPT ![k] = Broker!Touched(ss[k])])
      BY <2>1, <2>2, Replaces
    <2>4. states' = [ss EXCEPT ![k] = Broker!Touched(ss[k])] /\ epoch' \in Nat
      BY <1>1, <1>2, <1>4 DEF Broker!Kept
    <2>5. Keeps(states, states')
      BY <2>1, <2>3, <2>4, KeepsTwice
    <2> QED BY <1>2, <2>4, <2>5, StatesKept
  <1> QED BY <1>3, <1>4

LEMMA ExpireKeeps == ASSUME BrokerInv, NEW k \in Streams, Broker!ExpireState(k) PROVE BrokerInv'
  <1> DEFINE fired == [states EXCEPT ![k].timer = Broker!NoTimer]
             left == Broker!Pruned(fired)
  <1>1. k \in DOMAIN states /\ StatesSound(states) /\ UNCHANGED <<following, epoch, closed, now>>
        /\ epoch \in Nat /\ now \in Nat
    BY DEF Broker!ExpireState, BrokerInv
  <1>2. states' = (IF states[k].accessed # states[k].timer THEN fired
                   ELSE IF k \in DOMAIN left THEN [left EXCEPT ![k] = Broker!Scheduled(@)] ELSE left)
    BY DEF Broker!ExpireState
  <1>3. Keeps(states, fired) /\ StatesSound(fired)
    <2> DEFINE s == [states[k] EXCEPT !.timer = Broker!NoTimer]
    <2>1. fired = [states EXCEPT ![k] = s]
      OBVIOUS
    <2>2. Same(states[k], s)
      <3>1. Broker!NoTimer \in Nat /\ states[k] \in State
        BY <1>1, Limits DEF StatesSound, Sound, Broker!NoTimer
      <3> QED BY <3>1 DEF Same, State
    <2> HIDE DEF s, fired
    <2> QED BY <1>1, <2>1, <2>2, Replaces
  <1> HIDE DEF fired
  <1>4. Keeps(fired, left) /\ StatesSound(left)
    BY <1>3, PrunedKeeps
  <1> HIDE DEF left
  <1>5. Keeps(states, left)
    BY <1>3, <1>4, KeepsTwice
  <1>6. ASSUME k \in DOMAIN left PROVE Keeps(states, [left EXCEPT ![k] = Broker!Scheduled(left[k])])
    <2>1. Same(left[k], Broker!Scheduled(left[k]))
      BY <1>4, <1>6, ScheduledIs DEF StatesSound, Sound
    <2>2. Keeps(left, [left EXCEPT ![k] = Broker!Scheduled(left[k])])
      BY <1>4, <1>6, <2>1, Replaces
    <2> QED BY <1>5, <2>2, KeepsTwice
  <1>7. Keeps(states, states')
    BY <1>2, <1>3, <1>5, <1>6
  <1> QED BY <1>1, <1>7, StatesKept

LEMMA SnapshotKeeps == ASSUME BrokerInv, Broker!LifecycleSnapshot PROVE BrokerInv'
  <1>1. Keeps(states, Broker!Pruned(states))
    BY PrunedKeeps DEF BrokerInv
  <1> QED BY <1>1, StatesKept DEF Broker!LifecycleSnapshot, BrokerInv

LEMMA TickKeeps == ASSUME BrokerInv, Broker!Tick PROVE BrokerInv'
  <1>1. Keeps(states, states)
    BY KeepsSelf DEF BrokerInv
  <1> QED BY <1>1, StatesKept DEF Broker!Tick, BrokerInv

-----------------------------------------------------------------------------
(* A subscription begins with what the history has after the position *)
LEMMA SubscribeKeeps ==
  ASSUME BrokerInv, NEW c \in Subscribers, NEW k \in Streams, NEW after \in Nat,
         Broker!Subscribe(c, k, after)
  PROVE  BrokerInv'
  <1> DEFINE Refuses(ss) ==
        \/ Broker!HistoryUnavailable(ss[k], after)
        \/ Broker!Cardinality(ss[k].subscribers) >= SubscriberLimit
        \/ Broker!SubscriberCount(ss) >= TotalLimit
  <1>1. PICK ss \in Broker!WithState(k) :
          IF Refuses(ss) THEN Broker!Refused(k, ss) /\ UNCHANGED following
          ELSE /\ states' = [ss EXCEPT ![k].subscribers = @ \cup {c}, ![k].accessed = now,
                                       ![k].timer = Broker!NoTimer]
               /\ following' = [following EXCEPT ![c] =
                    [phase |-> "open", key |-> k, epoch |-> ss[k].epoch, after |-> after,
                     replay |-> Broker!Since(ss[k].history, after), queue |-> <<>>, got |-> <<>>]]
               /\ Broker!Kept(k)
    BY DEF Broker!Subscribe
  <1>2. /\ UNCHANGED <<closed, now>> /\ epoch \in Nat /\ now \in Nat
           /\ following[c] = Broker!NoStream
        /\ Keeps(states, ss) /\ StatesSound(ss) /\ k \in DOMAIN ss /\ Broker!NoTimer \in Nat
    BY WithStateKeeps, Limits DEF Broker!Subscribe, BrokerInv, Broker!NoTimer
  <1>3. CASE Refuses(ss)
    BY <1>1, <1>2, <1>3, RefusedKeeps, StatesKept
  <1>4. CASE ~Refuses(ss)
    <2> DEFINE h == ss[k].history
               s == [ss[k] EXCEPT !.subscribers = @ \cup {c}, !.accessed = now, !.timer = Broker!NoTimer]
               new == [phase |-> "open", key |-> k, epoch |-> ss[k].epoch, after |-> after,
                       replay |-> Broker!Since(h, after), queue |-> <<>>, got |-> <<>>]
    <2>1. states' = [ss EXCEPT ![k] = s] /\ following' = [following EXCEPT ![c] = new]
          /\ epoch' \in Nat
          /\ ~Broker!HistoryUnavailable(ss[k], after)
      BY <1>1, <1>2, <1>4 DEF Broker!Kept
    <2>2. Sound(ss[k])
      BY <1>2 DEF StatesSound
    <2>3. /\ s \in State /\ s.next = ss[k].next /\ s.history = ss[k].history
             /\ s.epoch = ss[k].epoch
          /\ s.subscribers = ss[k].subscribers \cup {c}
      BY <1>2, <2>2 DEF Sound, State
    <2>4. Sound(s)
      BY <2>2, <2>3 DEF Sound
    <2>5. /\ h \in Seq(Nat) /\ Len(h) \in Nat /\ ss[k].next \in Nat /\ ss[k].next >= 1
          /\ h = Run(ss[k].next - 1 - Len(h), Len(h)) /\ Len(h) < ss[k].next
          /\ ss[k].next > 1 => Len(h) # 0
      BY <2>2 DEF Sound, State
    <2>6. after <= ss[k].next - 1 /\ (Len(h) # 0 => after >= ss[k].next - 1 - Len(h))
      <3> DEFINE m == ss[k].next
      <3>1. after <= m - 1 /\ (h # <<>> => ~(after < Head(h) - 1))
        BY <2>1, <2>5 DEF Broker!HistoryUnavailable
      <3> DEFINE b == m - 1 - Len(h)
      <3>3. b \in Nat /\ h = Run(b, Len(h)) /\ Len(h) \in Nat
        BY <2>5
      <3> HIDE DEF b
      <3>4. Len(h) # 0 => Head(Run(b, Len(h))) = b + 1
        <4> DEFINE l == Len(h)
        <4>1. l \in Nat /\ b \in Nat
          BY <3>3
        <4> HIDE DEF l
        <4>2. l # 0 => Head(Run(b, l)) = b + 1
          BY <4>1, RunIs
        <4> QED BY <4>2 DEF l
      <3>5. Len(h) # 0 => h # <<>>
        BY <2>5
      <3>2. Len(h) # 0 => h # <<>> /\ Head(h) = m - 1 - Len(h) + 1
        BY <3>3, <3>4, <3>5 DEF b
      <3> HIDE DEF h, m
      <3> QED BY <2>5, <3>1, <3>2 DEF m
    <2>7. Broker!Since(h, after) = Run(after, ss[k].next - 1 - after)
      <3> DEFINE m == ss[k].next
                 b == m - 1 - Len(h)
      <3>1. b \in Nat /\ b <= after /\ after <= b + Len(h) /\ b + Len(h) - after = m - 1 - after
        <4> DEFINE l == Len(h)
        <4>1. m \in Nat /\ m >= 1 /\ l \in Nat /\ l < m /\ after <= m - 1
              /\ (l # 0 => after >= m - 1 - l) /\ (m > 1 => l # 0)
          BY <2>5, <2>6
        <4> HIDE DEF l, m
        <4> QED BY <4>1 DEF l
      <3>2. h = Run(b, Len(h)) /\ Len(h) \in Nat
        BY <2>5
      <3> HIDE DEF b
      <3>3. Broker!Since(Run(b, Len(h)), after) = Run(after, b + Len(h) - after)
        BY <3>1, <3>2, RunSuffix
      <3> HIDE DEF h, m
      <3>4. Broker!Since(h, after) = Run(after, m - 1 - after)
        BY <3>1, <3>2, <3>3
      <3> QED BY <3>4 DEF h, m
    <2>8. ss[k].next - 1 - after \in Nat
      BY <2>5, <2>6
    <2> DEFINE n == ss[k].next - 1 - after
    <2>9. /\ new \in Stream /\ new.phase = "open" /\ new.key = k /\ new.epoch = ss[k].epoch
          /\ new.after = after /\ new.replay = Run(after, n) /\ new.queue = <<>> /\ new.got = <<>>
          /\ n \in Nat /\ ss[k].next = 1 + after + n
      <3>1. Run(after, n) \in Seq(Nat)
        BY <2>8, RunIs
      <3>2. ss[k].epoch \in Nat /\ <<>> \in Seq(Nat)
        BY <2>2 DEF Sound, State
      <3>3. n \in Nat /\ ss[k].next = 1 + after + n /\ Broker!Since(h, after) = Run(after, n)
        <4>1. n \in Nat /\ Broker!Since(h, after) = Run(after, n)
          BY <2>7, <2>8 DEF n
        <4>2. ss[k].next \in Nat /\ after \in Int
          BY <2>1, <2>5
        <4> DEFINE m == ss[k].next
        <4>3. n = m - 1 - after
          OBVIOUS
        <4> HIDE DEF n, m
        <4>4. m = 1 + after + n
          BY <4>2, <4>3 DEF m
        <4> QED BY <4>1, <4>4 DEF m
      <3> HIDE DEF h, n
      <3> QED BY <3>1, <3>2, <3>3 DEF Stream
    <2> HIDE DEF s, new, n
    <2>10. /\ DOMAIN states' = DOMAIN ss /\ states' = [l \in DOMAIN states' |-> states'[l]]
           /\ states'[k] = s
           /\ \A l \in DOMAIN ss \ {k} : states'[l] = ss[l]
      BY <1>2, <2>1 DEF StatesSound
    <2>11. StatesSound(states')
      BY <1>2, <2>4, <2>10 DEF StatesSound
    <2>12. /\ following' \in [Subscribers -> Stream \cup {Broker!NoStream}] /\ following'[c] = new
           /\ \A d \in Subscribers \ {c} : following'[d] = following[d]
      BY <2>1, <2>9 DEF BrokerInv
    <2>13. Members(ss, following) /\ \A d \in Subscribers : following[d].phase = "open" =>
             WholeStream(d, following[d], ss)
      BY <1>2, KeptMembers, KeptWhole DEF BrokerInv
    <2>14. \A l \in DOMAIN ss : c \notin ss[l].subscribers
      BY <1>2, <2>13 DEF Members, Broker!NoStream, Stream
    <2>15. Members(states', following')
      <3> SUFFICES ASSUME NEW l \in DOMAIN ss, NEW d \in states'[l].subscribers
                   PROVE  /\ following'[d] \in Stream /\ following'[d].key = l
                          /\ following'[d].epoch = states'[l].epoch
        BY <2>10 DEF Members
      <3>1. CASE d = c
        BY <3>1, <2>3, <2>9, <2>10, <2>12, <2>14
      <3>2. CASE d # c
        <4>1. d \in ss[l].subscribers /\ states'[l].epoch = ss[l].epoch
          BY <3>2, <2>3, <2>10
        <4>2. d \in Subscribers
          BY <4>1, <1>2 DEF StatesSound, Sound, State
        <4> QED BY <3>2, <4>1, <4>2, <2>12, <2>13 DEF Members
      <3> QED BY <3>1, <3>2
    <2>16. ASSUME NEW d \in Subscribers, following'[d].phase = "open"
           PROVE  WholeStream(d, following'[d], states')
      <3>1. CASE d = c
        <4>1. Subscribed(d, new, states') /\ states'[new.key].next = 1 + after + n
          BY <3>1, <2>3, <2>9, <2>10, <1>2 DEF Subscribed
        <4>2. Run(after, 0) = <<>> /\ Len(Run(after, n)) = n /\ Run(after + n, 0) = <<>>
          <5>1. after + n \in Nat /\ n \in Nat
            BY <2>9
          <5> QED BY <5>1, RunIs
        <4>3. Len(<<>>) = 0 /\ after + 0 = after /\ after + 0 + n = after + n /\ n + 0 = n
          BY <2>9
        <4> QED BY <3>1, <4>1, <4>2, <4>3, <2>9, <2>12 DEF WholeStream
      <3>2. CASE d # c
        <4>1. following'[d] = following[d] /\ WholeStream(d, following[d], ss)
          BY <3>2, <2>12, <2>13, <2>16
        <4>2. /\ Subscribed(d, following[d], states') <=> Subscribed(d, following[d], ss)
              /\ Subscribed(d, following[d], ss) =>
                   states'[following[d].key].next = ss[following[d].key].next
          BY <3>2, <2>3, <2>10 DEF Subscribed
        <4> QED BY <4>1, <4>2 DEF WholeStream
      <3> QED BY <3>1, <3>2
    <2> QED BY <1>2, <2>1, <2>11, <2>12, <2>15, <2>16 DEF BrokerInv
  <1> QED BY <1>3, <1>4

-----------------------------------------------------------------------------
(* Only what a stream yields, replays or has queued changes *)
LEMMA StreamsKept ==
  ASSUME BrokerInv, UNCHANGED <<states, epoch, closed, now>>, NEW c \in Subscribers,
         NEW s \in Stream,
         following' = [following EXCEPT ![c] = s], following[c].phase = "open",
         s.key = following[c].key, s.epoch = following[c].epoch,
         s.phase = "open" => WholeStream(c, s, states)
  PROVE  BrokerInv'
  <1>1. /\ following' \in [Subscribers -> Stream \cup {Broker!NoStream}] /\ following'[c] = s
        /\ \A d \in Subscribers \ {c} : following'[d] = following[d]
    BY DEF BrokerInv
  <1>2. Members(states, following')
    BY <1>1 DEF BrokerInv, Members, StatesSound, Sound, State
  <1>3. ASSUME NEW d \in Subscribers, following'[d].phase = "open"
        PROVE  WholeStream(d, following'[d], states)
    BY <1>1, <1>3 DEF BrokerInv
  <1> QED BY <1>1, <1>2, <1>3 DEF BrokerInv

LEMMA OpenStream ==
  ASSUME BrokerInv, NEW c \in Subscribers, following[c].phase = "open"
  PROVE  /\ following[c] \in Stream /\ WholeStream(c, following[c], states)
         /\ following[c].after \in Nat /\ following[c].got \in Seq(Nat)
            /\ Len(following[c].got) \in Nat
         /\ following[c].replay \in Seq(Nat) /\ Len(following[c].replay) \in Nat
         /\ following[c].queue \in Seq(Nat) /\ Len(following[c].queue) \in Nat
  <1>1. following[c] \in Stream /\ WholeStream(c, following[c], states)
    BY DEF BrokerInv, Broker!NoStream
  <1> QED BY <1>1 DEF Stream

LEMMA ReplaysKeeps == ASSUME BrokerInv, NEW c \in Subscribers, Broker!Replays(c) PROVE BrokerInv'
  <1> DEFINE r == following[c]
             s == [r EXCEPT !.got = Append(@, Head(r.replay)), !.replay = Tail(@)]
             a == r.after
             g == Len(r.got)
             n == Len(r.replay)
  <1>1. r.phase = "open" /\ r.replay # <<>> /\ UNCHANGED <<states, epoch, closed, now>>
        /\ following' = [following EXCEPT ![c] = s]
    BY DEF Broker!Replays
  <1>2. /\ r \in Stream /\ WholeStream(c, r, states) /\ a \in Nat /\ g \in Nat /\ n \in Nat
        /\ r.got \in Seq(Nat) /\ r.replay \in Seq(Nat)
    BY <1>1, OpenStream
  <1>3. n > 0
    BY <1>1, <1>2
  <1>4. r.got = Run(a, g) /\ r.replay = Run(a + g, n)
    BY <1>2 DEF WholeStream
  <1> HIDE DEF a, g, n
  <1>5. Head(r.replay) = a + g + 1 /\ Tail(r.replay) = Run(a + g + 1, n - 1)
    <2>1. a + g \in Nat
      BY <1>2
    <2> QED BY <1>2, <1>3, <1>4, <2>1, RunIs
  <1>6. Append(r.got, Head(r.replay)) = Run(a, g + 1)
    BY <1>2, <1>4, <1>5, RunIs
  <1>7. /\ Run(a, g + 1) \in Seq(Nat) /\ Len(Run(a, g + 1)) = g + 1
        /\ Run(a + g + 1, n - 1) \in Seq(Nat) /\ Len(Run(a + g + 1, n - 1)) = n - 1
    <2>1. g + 1 \in Nat /\ a + g + 1 \in Nat /\ n - 1 \in Nat
      BY <1>2, <1>3
    <2> QED BY <1>2, <2>1, RunIs
  <1>8. s = [r EXCEPT !.got = Run(a, g + 1), !.replay = Run(a + g + 1, n - 1)]
    BY <1>5, <1>6
  <1> HIDE DEF s, r
  <1>9. /\ s \in Stream /\ s.got = Run(a, g + 1) /\ s.replay = Run(a + g + 1, n - 1)
        /\ s.queue = r.queue /\ s.key = r.key /\ s.epoch = r.epoch /\ s.after = r.after
    BY <1>2, <1>7, <1>8 DEF Stream
  <1>10. WholeStream(c, s, states)
    <2>1. Len(s.got) = g + 1 /\ Len(s.replay) = n - 1 /\ s.after = a
          /\ a + (g + 1) = a + g + 1 /\ a + (g + 1) + (n - 1) = a + g + n
          /\ 1 + a + (g + 1) + (n - 1) = 1 + a + g + n
      <3>1. Len(s.got) = g + 1 /\ Len(s.replay) = n - 1 /\ s.after = a
        BY <1>7, <1>9 DEF a
      <3>2. /\ a + (g + 1) = a + g + 1 /\ a + (g + 1) + (n - 1) = a + g + n
            /\ 1 + a + (g + 1) + (n - 1) = 1 + a + g + n
        BY <1>2
      <3> QED BY <3>1, <3>2
    <2>2. Subscribed(c, s, states) <=> Subscribed(c, r, states)
      BY <1>9 DEF Subscribed
    <2>3. IF Subscribed(c, r, states)
          THEN r.queue = Run(a + g + n, Len(r.queue))
               /\ states[r.key].next = 1 + a + g + n + Len(r.queue)
          ELSE r.queue = <<Broker!Overflow>>
      BY <1>2 DEF WholeStream, a, g, n
    <2> QED BY <1>9, <2>1, <2>2, <2>3 DEF WholeStream
  <1> QED BY <1>1, <1>9, <1>10, StreamsKept DEF r

LEMMA YieldsKeeps == ASSUME BrokerInv, NEW c \in Subscribers, Broker!Yields(c) PROVE BrokerInv'
  <1> DEFINE r == following[c]
             next == Head(r.queue)
             s == [r EXCEPT !.queue = Tail(@), !.phase = IF next = Broker!Overflow THEN "leaving" ELSE @,
                            !.got = IF next = Broker!Overflow THEN @ ELSE Append(@, next)]
             a == r.after
             g == Len(r.got)
             n == Len(r.queue)
  <1>1. r.phase = "open" /\ r.replay = <<>> /\ r.queue # <<>>
        /\ UNCHANGED <<states, epoch, closed, now>>
        /\ following' = [following EXCEPT ![c] = s]
    BY DEF Broker!Yields
  <1>2. /\ r \in Stream /\ WholeStream(c, r, states) /\ a \in Nat /\ g \in Nat /\ n \in Nat
        /\ r.got \in Seq(Nat) /\ r.queue \in Seq(Nat)
    BY <1>1, OpenStream
  <1>3. n > 0 /\ next \in Nat /\ Tail(r.queue) \in Seq(Nat)
    BY <1>1, <1>2
  <1>4. r.got = Run(a, g) /\ Len(r.replay) = 0
    BY <1>1, <1>2 DEF WholeStream
  <1>5. CASE next = Broker!Overflow
    <2>1. s = [r EXCEPT !.queue = Tail(r.queue), !.phase = "leaving", !.got = r.got]
      BY <1>5
    <2> HIDE DEF s, r
    <2>2. s \in Stream /\ s.key = r.key /\ s.epoch = r.epoch /\ s.phase = "leaving"
      BY <1>2, <1>3, <2>1 DEF Stream
    <2> QED BY <1>1, <2>2, StreamsKept DEF r
  <1>6. CASE next # Broker!Overflow
    <2>1. Subscribed(c, r, states)
      <3>1. r.queue = <<Broker!Overflow>> => next = Broker!Overflow
        OBVIOUS
      <3> QED BY <1>2, <1>6, <3>1 DEF WholeStream
    <2>2. r.queue = Run(a + g, n) /\ states[r.key].next = 1 + a + g + n
      <3>1. r.queue = Run(a + g + Len(r.replay), n)
            /\ states[r.key].next = 1 + a + g + Len(r.replay) + n
        BY <1>2, <2>1 DEF WholeStream
      <3>2. a + g + 0 = a + g /\ 1 + a + g + 0 = 1 + a + g
        BY <1>2
      <3> QED BY <1>4, <3>1, <3>2
    <2>3. s = [r EXCEPT !.queue = Tail(r.queue), !.got = Append(r.got, next)]
      <3>1. s = [r EXCEPT !.queue = Tail(r.queue), !.phase = r.phase, !.got = Append(r.got, next)]
        BY <1>6
      <3> HIDE DEF s, r, next
      <3> QED BY <1>2, <3>1 DEF Stream
    <2> HIDE DEF a, g, n
    <2>4. next = a + g + 1 /\ Tail(r.queue) = Run(a + g + 1, n - 1)
      <3>1. a + g \in Nat
        BY <1>2
      <3> QED BY <1>2, <1>3, <2>2, <3>1, RunIs
    <2>5. Append(r.got, next) = Run(a, g + 1)
      BY <1>2, <1>4, <2>4, RunIs
    <2>6. /\ Run(a, g + 1) \in Seq(Nat) /\ Len(Run(a, g + 1)) = g + 1
          /\ Run(a + g + 1, n - 1) \in Seq(Nat) /\ Len(Run(a + g + 1, n - 1)) = n - 1
          /\ Run(a + g + 1, 0) = <<>>
      <3>1. g + 1 \in Nat /\ a + g + 1 \in Nat /\ n - 1 \in Nat
        BY <1>2, <1>3
      <3> QED BY <1>2, <3>1, RunIs
    <2> HIDE DEF s, r, next
    <2>7. /\ s \in Stream /\ s.got = Run(a, g + 1) /\ s.queue = Run(a + g + 1, n - 1)
          /\ s.replay = r.replay /\ s.key = r.key /\ s.epoch = r.epoch /\ s.after = r.after
      BY <1>2, <2>3, <2>4, <2>5, <2>6 DEF Stream
    <2>8. WholeStream(c, s, states)
      <3>1. /\ Len(s.got) = g + 1 /\ Len(s.queue) = n - 1 /\ s.after = a /\ Len(s.replay) = 0
            /\ a + (g + 1) = a + g + 1 /\ a + (g + 1) + 0 = a + g + 1
            /\ 1 + a + (g + 1) + 0 + (n - 1) = 1 + a + g + n
        <4>1. Len(s.got) = g + 1 /\ Len(s.queue) = n - 1 /\ s.after = a /\ Len(s.replay) = 0
          BY <1>4, <2>6, <2>7 DEF a
        <4>2. /\ a + (g + 1) = a + g + 1 /\ a + (g + 1) + 0 = a + g + 1
              /\ 1 + a + (g + 1) + 0 + (n - 1) = 1 + a + g + n
          BY <1>2
        <4> QED BY <4>1, <4>2
      <3>2. Subscribed(c, s, states)
        BY <2>1, <2>7 DEF Subscribed
      <3> QED BY <1>1, <2>2, <2>6, <2>7, <3>1, <3>2 DEF WholeStream
    <2> QED BY <1>1, <2>7, <2>8, StreamsKept DEF r
  <1> QED BY <1>5, <1>6

LEMMA DisconnectsKeeps == ASSUME BrokerInv, NEW c \in Subscribers,
                                 Broker!Disconnects(c) PROVE BrokerInv'
  <1> DEFINE r == following[c]
             s == [r EXCEPT !.phase = "leaving"]
  <1>1. r \in Stream /\ r.phase = "open" /\ UNCHANGED <<states, epoch, closed, now>>
        /\ following' = [following EXCEPT ![c] = s]
    BY OpenStream DEF Broker!Disconnects
  <1> HIDE DEF r
  <1>2. s \in Stream /\ s.key = r.key /\ s.epoch = r.epoch /\ s.phase = "leaving"
    BY <1>1 DEF Stream
  <1> HIDE DEF s
  <1> QED BY <1>1, <1>2, StreamsKept DEF r

-----------------------------------------------------------------------------
(* The generator's end: the client is a subscriber of nothing then *)
LEMMA LeavesKeeps == ASSUME BrokerInv, NEW c \in Subscribers, Broker!Leaves(c) PROVE BrokerInv'
  <1> DEFINE k == following[c].key
  <1>1. /\ following' = [following EXCEPT ![c] = Broker!NoStream]
           /\ UNCHANGED <<epoch, closed, now>>
        /\ following[c] \in Stream /\ k \in Streams /\ now \in Nat /\ StatesSound(states)
    BY DEF Broker!Leaves, BrokerInv, Broker!NoStream, Stream
  <1>2. \A l \in DOMAIN states \ {k} : c \notin states[l].subscribers
    BY DEF BrokerInv, Members
  <1>3. /\ DOMAIN states' = DOMAIN states /\ states' = [l \in DOMAIN states' |-> states'[l]]
        /\ \A l \in DOMAIN states \ {k} : states'[l] = states[l]
        /\ k \in DOMAIN states =>
             /\ Sound(states'[k]) /\ states'[k].next = states[k].next
                /\ states'[k].epoch = states[k].epoch
             /\ states'[k].subscribers = states[k].subscribers \ {c}
    <2>1. CASE k \notin DOMAIN states
      BY <1>1, <2>1 DEF Broker!Leaves, StatesSound
    <2>2. CASE k \in DOMAIN states
      <3> DEFINE s == [states[k] EXCEPT !.subscribers = @ \ {c}]
      <3>1. states' = [states EXCEPT ![k] = Broker!Touched(s)]
        BY <2>2 DEF Broker!Leaves
      <3>2. Sound(states[k])
        BY <1>1, <2>2 DEF StatesSound
      <3>3. /\ s \in State /\ s.next = states[k].next /\ s.epoch = states[k].epoch
            /\ s.history = states[k].history /\ s.subscribers = states[k].subscribers \ {c}
        BY <3>2 DEF Sound, State
      <3>4. Sound(s)
        BY <3>2, <3>3 DEF Sound
      <3> HIDE DEF s
      <3>5. Same(s, Broker!Touched(s))
        BY <1>1, <3>3, ScheduledIs
      <3>6. Sound(Broker!Touched(s))
        BY <3>4, <3>5, SameSound
      <3> QED BY <1>1, <2>2, <3>1, <3>3, <3>5, <3>6 DEF StatesSound, Same
    <2> QED BY <2>1, <2>2
  <1>4. /\ following' \in [Subscribers -> Stream \cup {Broker!NoStream}]
           /\ following'[c] = Broker!NoStream
        /\ \A d \in Subscribers \ {c} : following'[d] = following[d]
    BY <1>1 DEF BrokerInv
  <1> HIDE DEF k
  <1>5. StatesSound(states')
    BY <1>1, <1>3 DEF StatesSound
  <1>6. Members(states', following')
    <2> SUFFICES ASSUME NEW l \in DOMAIN states, NEW d \in states'[l].subscribers
                 PROVE  /\ following'[d] \in Stream /\ following'[d].key = l
                        /\ following'[d].epoch = states'[l].epoch
      BY <1>3 DEF Members
    <2>1. d \in states[l].subscribers /\ states'[l].epoch = states[l].epoch /\ d # c
      BY <1>2, <1>3
    <2>2. d \in Subscribers
      BY <2>1, <1>1 DEF StatesSound, Sound, State
    <2> QED BY <2>1, <2>2, <1>4 DEF BrokerInv, Members
  <1>7. ASSUME NEW d \in Subscribers, following'[d].phase = "open"
        PROVE  WholeStream(d, following'[d], states')
    <2>1. d # c
      BY <1>4, <1>7 DEF Broker!NoStream
    <2>2. following'[d] = following[d] /\ WholeStream(d, following[d], states)
      BY <1>4, <1>7, <2>1 DEF BrokerInv
    <2>3. /\ Subscribed(d, following[d], states') <=> Subscribed(d, following[d], states)
          /\ Subscribed(d, following[d], states) =>
               states'[following[d].key].next = states[following[d].key].next
      BY <1>3, <2>1 DEF Subscribed
    <2> QED BY <2>2, <2>3 DEF WholeStream
  <1> QED BY <1>1, <1>4, <1>5, <1>6, <1>7 DEF BrokerInv

LEMMA CloseKeeps == ASSUME BrokerInv, Broker!Close PROVE BrokerInv'
  <1> DEFINE left(c) == \E k \in DOMAIN states : c \in states[k].subscribers
  <1>1. /\ closed' = TRUE /\ UNCHANGED <<epoch, now>> /\ states' = Broker!Without(states, Streams)
        /\ following' = [c \in Subscribers |->
             IF left(c) THEN [following[c] EXCEPT !.queue = Broker!Notice(@)] ELSE following[c]]
    BY DEF Broker!Close
  <1>2. /\ DOMAIN states' = {} /\ states' = [k \in DOMAIN states' |-> states'[k]]
    BY <1>1, WithoutIs DEF BrokerInv, StatesSound
  <1>3. StatesSound(states') /\ Members(states', following')
    BY <1>2 DEF StatesSound, Members
  <1>4. ASSUME NEW c \in Subscribers, left(c)
        PROVE  LET s == [following[c] EXCEPT !.queue = <<Broker!Overflow>>]
               IN  /\ following'[c] = s /\ s \in Stream
                   /\ s.phase = following[c].phase /\ s.queue = <<Broker!Overflow>>
                      /\ s.got = following[c].got
                   /\ s.replay = following[c].replay /\ s.after = following[c].after
    <2>1. following[c] \in Stream
      BY <1>4 DEF BrokerInv, Members
    <2>2. <<Broker!Overflow>> \in Seq(Nat)
      BY DEF Broker!Overflow
    <2>3. following'[c] = [following[c] EXCEPT !.queue = <<Broker!Overflow>>]
      BY <1>1, <1>4 DEF Broker!Notice
    <2> HIDE DEF left
    <2> QED BY <2>1, <2>2, <2>3 DEF Stream
  <1>5. following' \in [Subscribers -> Stream \cup {Broker!NoStream}]
    BY <1>1, <1>4 DEF BrokerInv, Broker!Notice
  <1>6. ASSUME NEW c \in Subscribers, following'[c].phase = "open"
        PROVE  WholeStream(c, following'[c], states')
    <2>1. ~Subscribed(c, following'[c], states')
      BY <1>2 DEF Subscribed
    <2>2. CASE left(c)
      <3>1. /\ following'[c].phase = following[c].phase
            /\ following'[c].queue = <<Broker!Overflow>>
            /\ following'[c].got = following[c].got /\ following'[c].replay = following[c].replay
            /\ following'[c].after = following[c].after
        BY <1>4, <2>2
      <3>2. WholeStream(c, following[c], states)
        BY <1>6, <3>1 DEF BrokerInv
      <3> HIDE DEF left
      <3> QED BY <2>1, <3>1, <3>2 DEF WholeStream
    <2>3. CASE ~left(c)
      <3>1. following'[c] = following[c] /\ ~Subscribed(c, following[c], states)
        BY <1>1, <2>3 DEF Subscribed
      <3> QED BY <1>6, <2>1, <3>1 DEF WholeStream, BrokerInv
    <2> QED BY <2>2, <2>3
  <1> QED BY <1>1, <1>3, <1>5, <1>6 DEF BrokerInv

-----------------------------------------------------------------------------
(* An event is the next one, and the history keeps the last *)
LEMMA AfterIs ==
  ASSUME NEW s, Sound(s), NEW kind, now \in Nat
  PROVE  LET t == Broker!After(s, kind)
         IN  Sound(t) /\ t.next = s.next + 1 /\ t.epoch = s.epoch /\ t.subscribers = s.subscribers
  <1> DEFINE n == s.next
             h == s.history
             l == Len(h)
             a == n - 1 - l
             new == Broker!Retained(Append(h, n))
             b == CASE kind = "started" -> TRUE [] kind = "ended" -> FALSE [] OTHER -> s.active
             t == [s EXCEPT !.next = n + 1, !.history = new, !.accessed = now, !.active = b]
  <1>1. /\ s \in State /\ n \in Nat /\ n >= 1 /\ l \in Nat /\ l < n /\ h = Run(n - 1 - l, l)
        /\ n > 1 => l # 0
    BY DEF Sound, State
  <1>2. a \in Nat /\ a + l + 1 = n /\ h = Run(a, l)
    BY <1>1
  <1>3. t = Broker!After(s, kind)
    BY DEF Broker!After
  <1> HIDE DEF t, a, l
  <1>4. Append(h, n) = Run(a, l + 1)
    BY <1>1, <1>2, RunIs
  <1>5. /\ Len(Run(a, l + 1)) = l + 1 /\ Run(a, l + 1) \in Seq(Nat)
        /\ Tail(Run(a, l + 1)) = Run(a + 1, l) /\ Len(Run(a + 1, l)) = l
           /\ Run(a + 1, l) \in Seq(Nat)
    <2> DEFINE m == l + 1
    <2>1. m \in Nat /\ m > 0 /\ m - 1 = l /\ a + 1 \in Nat
      BY <1>1, <1>2
    <2> HIDE DEF m
    <2>2. Len(Run(a, m)) = m /\ Run(a, m) \in Seq(Nat) /\ Tail(Run(a, m)) = Run(a + 1, m - 1)
      BY <1>2, <2>1, RunIs
    <2>3. Len(Run(a + 1, l)) = l /\ Run(a + 1, l) \in Seq(Nat)
      BY <1>1, <2>1, RunIs
    <2> QED BY <2>1, <2>2, <2>3 DEF m
  <1>6. /\ new \in Seq(Nat) /\ Len(new) \in Nat /\ Len(new) >= 1 /\ Len(new) < n + 1
        /\ new = Run(n - Len(new), Len(new))
    <2>1. CASE l + 1 > HistoryLimit
      <3>1. new = Run(a + 1, l)
        BY <1>4, <1>5, <2>1 DEF Broker!Retained
      <3>2. l >= 1 /\ n - l = a + 1
        BY <1>1, <1>2, <2>1, Limits
      <3> HIDE DEF new, n
      <3>3. Len(new) = l /\ new \in Seq(Nat) /\ new = Run(n - l, l)
        BY <1>5, <3>1, <3>2
      <3> QED BY <1>1, <3>2, <3>3
    <2>2. CASE ~(l + 1 > HistoryLimit)
      <3>1. new = Run(a, l + 1)
        BY <1>4, <1>5, <2>2 DEF Broker!Retained
      <3>2. n - (l + 1) = a
        BY <1>1, <1>2
      <3> HIDE DEF new, n
      <3>3. Len(new) = l + 1 /\ new \in Seq(Nat) /\ new = Run(n - (l + 1), l + 1)
        BY <1>5, <3>1, <3>2
      <3>4. l + 1 \in Nat /\ l + 1 >= 1 /\ l + 1 < n + 1
        BY <1>1, <1>2
      <3> QED BY <3>3, <3>4
    <2> QED BY <2>1, <2>2
  <1>7. b \in BOOLEAN
    BY <1>1 DEF State
  <1> HIDE DEF new, b
  <1>8. /\ t \in State /\ t.next = n + 1 /\ t.history = new /\ t.epoch = s.epoch
        /\ t.subscribers = s.subscribers
    <2>1. n + 1 \in Nat
      BY <1>1
    <2> DEFINE z == n + 1
    <2> HIDE DEF z
    <2>2. t = [s EXCEPT !.next = z, !.history = new, !.accessed = now, !.active = b]
      BY DEF t, z
    <2>3. z \in Nat /\ z = n + 1
      BY <2>1 DEF z
    <2> HIDE DEF n
    <2> QED BY <1>1, <1>6, <1>7, <2>2, <2>3 DEF State
  <1> HIDE DEF n
  <1>9. Sound(t)
    <2>1. t.next - 1 - Len(t.history) = n - Len(new) /\ t.next >= 1
      BY <1>1, <1>6, <1>8
    <2>2. new # <<>> /\ Len(new) < n + 1 /\ new = Run(n - Len(new), Len(new))
      BY <1>6
    <2> QED BY <1>8, <2>1, <2>2 DEF Sound
  <1> QED BY <1>3, <1>8, <1>9 DEF n

LEMMA PublishKeeps ==
  ASSUME BrokerInv, NEW k \in Streams, NEW kind, Broker!Publish(k, kind)
  PROVE  BrokerInv'
  <1>1. PICK ss \in Broker!WithState(k) :
          LET s == Broker!After(ss[k], kind)
              overflowed == {c \in s.subscribers : Broker!Full(c)}
              kept == [ss EXCEPT ![k] = [s EXCEPT !.subscribers = @ \ overflowed]]
          IN  /\ following' = [c \in Subscribers |->
                   IF c \in overflowed THEN [following[c] EXCEPT !.queue = Broker!Notice(@)]
                   ELSE IF c \in s.subscribers THEN [following[c] EXCEPT !.queue = Append(@, ss[k].next)]
                   ELSE following[c]]
              /\ \E left \in Broker!Trimmed(kept, StateLimit) :
                   states' = IF k \in DOMAIN left THEN [left EXCEPT ![k] = Broker!Scheduled(@)] ELSE left
    BY DEF Broker!Publish
  <1> DEFINE s == Broker!After(ss[k], kind)
             overflowed == {c \in s.subscribers : Broker!Full(c)}
             q == [s EXCEPT !.subscribers = @ \ overflowed]
             kept == [ss EXCEPT ![k] = q]
             n == ss[k].next
  <1>2. /\ Keeps(states, ss) /\ StatesSound(ss) /\ k \in DOMAIN ss /\ Sound(ss[k])
        /\ epoch \in Nat /\ now \in Nat /\ closed \in BOOLEAN
        /\ following \in [Subscribers -> Stream \cup {Broker!NoStream}]
    BY WithStateKeeps DEF BrokerInv, StatesSound
  <1>3. epoch' \in Nat /\ UNCHANGED <<closed, now>>
    BY <1>2 DEF Broker!Publish, Broker!Kept
  <1>4. Sound(s) /\ s.next = n + 1 /\ s.epoch = ss[k].epoch /\ s.subscribers = ss[k].subscribers
        /\ n \in Nat /\ s \in State /\ s.subscribers \subseteq Subscribers
    BY <1>2, AfterIs DEF Sound, State
  <1>5. /\ following' = [c \in Subscribers |->
              IF c \in overflowed THEN [following[c] EXCEPT !.queue = <<Broker!Overflow>>]
              ELSE IF c \in s.subscribers THEN [following[c] EXCEPT !.queue = Append(@, n)]
              ELSE following[c]]
        /\ \E left \in Broker!Trimmed(kept, StateLimit) :
             states' = IF k \in DOMAIN left THEN [left EXCEPT ![k] = Broker!Scheduled(left[k])] ELSE left
    BY <1>1 DEF Broker!Notice
  <1> HIDE DEF s, n
  <1>6. /\ Sound(q) /\ q.next = n + 1 /\ q.epoch = ss[k].epoch
        /\ q.subscribers = ss[k].subscribers \ overflowed
    <2> HIDE DEF overflowed
    <2>1. /\ q \in State /\ q.next = s.next /\ q.history = s.history /\ q.epoch = s.epoch
          /\ q.subscribers = s.subscribers \ overflowed
      BY <1>4 DEF State
    <2> HIDE DEF q
    <2> QED BY <1>4, <2>1 DEF Sound
  <1>7. overflowed \subseteq ss[k].subscribers
    BY <1>4
  <1> HIDE DEF q, overflowed
  <1>8. /\ DOMAIN kept = DOMAIN ss /\ kept = [l \in DOMAIN kept |-> kept[l]] /\ kept[k] = q
        /\ \A l \in DOMAIN ss \ {k} : kept[l] = ss[l]
    BY <1>2 DEF StatesSound
  <1> HIDE DEF kept
  <1>9. StatesSound(kept)
    BY <1>2, <1>6, <1>8 DEF StatesSound
  <1>10. Members(ss, following) /\ \A c \in Subscribers : following[c].phase = "open" =>
           WholeStream(c, following[c], ss)
    BY <1>2, KeptMembers, KeptWhole DEF BrokerInv
  <1>11. ASSUME NEW c \in overflowed
         PROVE  /\ following'[c] \in Stream /\ following[c] \in Stream /\ following[c].key = k
                /\ following'[c].queue = <<Broker!Overflow>>
                /\ \A f \in {"phase", "key", "epoch", "after", "replay", "got"} :
                     following'[c][f] = following[c][f]
    <2>1. following[c] \in Stream /\ following[c].key = k /\ <<Broker!Overflow>> \in Seq(Nat)
          /\ c \in Subscribers
      BY <1>2, <1>4, <1>7, <1>10 DEF Members, Broker!Overflow
    <2>2. following'[c] = [following[c] EXCEPT !.queue = <<Broker!Overflow>>]
      BY <1>5, <2>1
    <2> QED BY <2>1, <2>2 DEF Stream
  <1>12. ASSUME NEW c \in ss[k].subscribers \ overflowed
         PROVE  /\ following'[c] \in Stream /\ following[c] \in Stream /\ following[c].key = k
                /\ following'[c].queue = Append(following[c].queue, n)
                /\ \A f \in {"phase", "key", "epoch", "after", "replay", "got"} :
                     following'[c][f] = following[c][f]
    <2>1. following[c] \in Stream /\ following[c].key = k /\ c \in Subscribers
      BY <1>2, <1>4, <1>10 DEF Members
    <2>2. following'[c] = [following[c] EXCEPT !.queue = Append(following[c].queue, n)]
      BY <1>4, <1>5, <2>1
    <2>3. Append(following[c].queue, n) \in Seq(Nat)
      BY <1>4, <2>1 DEF Stream
    <2> QED BY <2>1, <2>2, <2>3 DEF Stream
  <1>13. ASSUME NEW c \in Subscribers,
                c \notin ss[k].subscribers PROVE following'[c] = following[c]
    BY <1>4, <1>5, <1>7, <1>13
  <1>14. following' \in [Subscribers -> Stream \cup {Broker!NoStream}]
    <2>1. DOMAIN following' = Subscribers /\ following' = [c \in Subscribers |-> following'[c]]
      BY <1>5
    <2>2. ASSUME NEW c \in Subscribers PROVE following'[c] \in Stream \cup {Broker!NoStream}
      BY <1>2, <1>11, <1>12, <1>13
    <2> QED BY <2>1, <2>2
  <1>15. Members(kept, following')
    <2> SUFFICES ASSUME NEW l \in DOMAIN ss, NEW c \in kept[l].subscribers
                 PROVE  /\ following'[c] \in Stream /\ following'[c].key = l
                        /\ following'[c].epoch = kept[l].epoch
      BY <1>8 DEF Members
    <2>1. CASE l = k
      BY <2>1, <1>6, <1>8, <1>10, <1>12 DEF Members
    <2>2. CASE l # k
      <3>1. c \in ss[l].subscribers /\ kept[l] = ss[l]
        BY <2>2, <1>8
      <3>2. following[c] \in Stream /\ following[c].key = l /\ following[c].epoch = ss[l].epoch
            /\ c \in Subscribers
        BY <3>1, <1>2, <1>10 DEF Members, StatesSound, Sound, State
      <3>3. c \notin ss[k].subscribers
        BY <2>2, <3>2, <1>2, <1>10 DEF Members
      <3> QED BY <3>1, <3>2, <3>3, <1>13
    <2> QED BY <2>1, <2>2
  <1>16. ASSUME NEW c \in Subscribers, following'[c].phase = "open"
         PROVE  WholeStream(c, following'[c], kept)
    <2>1. CASE c \in overflowed
      <3>1. /\ following'[c].phase = following[c].phase /\ following'[c].key = following[c].key
            /\ following'[c].after = following[c].after
               /\ following'[c].replay = following[c].replay
            /\ following'[c].got = following[c].got /\ following'[c].queue = <<Broker!Overflow>>
               /\ following[c].key = k
        BY <2>1, <1>11
      <3>2. ~Subscribed(c, following'[c], kept)
        BY <2>1, <3>1, <1>6, <1>8 DEF Subscribed
      <3> QED BY <1>10, <1>16, <3>1, <3>2 DEF WholeStream
    <2>2. CASE c \in ss[k].subscribers \ overflowed
      <3> DEFINE r == following[c]
                 t == following'[c]
                 g == Len(r.got)
                 p == Len(r.replay)
                 m == Len(r.queue)
                 a == r.after
      <3>1. /\ t.phase = r.phase /\ t.key = k /\ r.key = k /\ t.after = a /\ t.replay = r.replay
            /\ t.got = r.got /\ t.queue = Append(r.queue, n) /\ r \in Stream
        BY <2>2, <1>12
      <3>2. g \in Nat /\ p \in Nat /\ m \in Nat /\ a \in Nat
        BY <3>1 DEF Stream
      <3>3. WholeStream(c, r, ss) /\ Subscribed(c, r, ss)
        BY <1>2, <1>10, <1>16, <2>2, <3>1 DEF Subscribed
      <3>4. r.queue = Run(a + g + p, m) /\ n = 1 + a + g + p + m
        BY <3>1, <3>3 DEF WholeStream, n
      <3> HIDE DEF g, p, m, a
      <3>5. t.queue = Run(a + g + p, m + 1) /\ Len(t.queue) = m + 1
        <4> DEFINE b == a + g + p
        <4>1. b \in Nat /\ n = b + m + 1 /\ m + 1 \in Nat
          BY <3>2, <3>4
        <4> HIDE DEF b
        <4>2. Append(Run(b, m), b + m + 1) = Run(b, m + 1) /\ Len(Run(b, m + 1)) = m + 1
          BY <3>2, <4>1, RunIs
        <4>3. t.queue = Append(Run(b, m), b + m + 1)
          BY <3>1, <3>4, <4>1 DEF b
        <4> QED BY <4>2, <4>3 DEF b
      <3>6. Subscribed(c, t, kept) /\ kept[t.key].next = n + 1
        BY <1>2, <1>6, <1>8, <2>2, <3>1 DEF Subscribed
      <3>7. n + 1 = 1 + a + g + p + (m + 1)
        BY <3>2, <3>4
      <3> HIDE DEF t
      <3> QED BY <3>1, <3>3, <3>5, <3>6, <3>7 DEF WholeStream, t, a, g, p
    <2>3. CASE c \notin ss[k].subscribers
      <3>1. following'[c] = following[c] /\ WholeStream(c, following[c], ss)
        BY <1>10, <1>13, <1>16, <2>3
      <3>2. /\ Subscribed(c, following[c], kept) <=> Subscribed(c, following[c], ss)
            /\ Subscribed(c, following[c], ss) =>
                 kept[following[c].key].next = ss[following[c].key].next
        BY <2>3, <1>6, <1>8 DEF Subscribed
      <3> QED BY <3>1, <3>2 DEF WholeStream
    <2> QED BY <2>1, <2>2, <2>3
  <1>17. Keeps(kept, states')
    <2>1. PICK left \in Broker!Trimmed(kept, StateLimit) :
            states' = IF k \in DOMAIN left THEN [left EXCEPT ![k] = Broker!Scheduled(left[k])] ELSE left
      BY <1>5
    <2>2. Keeps(kept, left) /\ StatesSound(left)
      BY <1>9, TrimmedKeeps
    <2>3. CASE k \in DOMAIN left
      <3>1. Same(left[k], Broker!Scheduled(left[k]))
        BY <2>2, <2>3, ScheduledIs DEF StatesSound, Sound
      <3>2. Keeps(left, [left EXCEPT ![k] = Broker!Scheduled(left[k])])
        BY <2>2, <2>3, <3>1, Replaces
      <3> QED BY <2>1, <2>2, <2>3, <3>2, KeepsTwice
    <2>4. CASE k \notin DOMAIN left
      BY <2>1, <2>2, <2>4
    <2> QED BY <2>3, <2>4
  <1>18. StatesSound(states') /\ Members(states', following')
    BY <1>9, <1>15, <1>17, KeptSound, KeptMembers
  <1>19. ASSUME NEW c \in Subscribers,
                following'[c].phase = "open" PROVE WholeStream(c, following'[c], states')
    BY <1>16, <1>17, <1>19, KeptWhole
  <1> QED BY <1>2, <1>3, <1>14, <1>18, <1>19 DEF BrokerInv

-----------------------------------------------------------------------------
LEMMA BrokerInit == Broker!Init => BrokerInv
  <1> SUFFICES ASSUME Broker!Init PROVE BrokerInv
    OBVIOUS
  <1>1. DOMAIN states = {} /\ states = [k \in DOMAIN states |-> states[k]]
    BY DEF Broker!Init
  <1>2. \A c \in Subscribers : following[c].phase # "open"
    BY DEF Broker!Init, Broker!NoStream
  <1> QED BY <1>1, <1>2 DEF Broker!Init, BrokerInv, StatesSound, Members

LEMMA BrokerKept == ASSUME BrokerInv, [Broker!Next]_Broker!vars PROVE BrokerInv'
  <1>1. CASE UNCHANGED Broker!vars
    BY <1>1, KeepsSelf, StatesKept DEF Broker!vars, BrokerInv
  <1>2. ASSUME NEW after \in 0 .. MaxSequence PROVE after \in Nat
    BY <1>2, Limits
  <1> QED BY <1>1, <1>2, ValidateKeeps, PublishKeeps, SubscribeKeeps, ReplaysKeeps, YieldsKeeps,
             DisconnectsKeeps, LeavesKeeps, ExpireKeeps, SnapshotKeeps, CloseKeeps,
             TickKeeps DEF Broker!Next

(* What is given, waits and is queued, one after the other *)
LEMMA BrokerFollows == ASSUME BrokerInv PROVE Broker!StreamsAreWhole
  <1> SUFFICES ASSUME NEW c \in Subscribers, following[c].phase = "open"
               PROVE  LET s == following[c]
                          given == s.got \o s.replay
                          subscribed == /\ s.key \in DOMAIN states /\ c \in states[s.key].subscribers
                                        /\ states[s.key].epoch = s.epoch
                          last == IF subscribed THEN states[s.key].next - 1 ELSE s.after + Len(given)
                          all == [i \in 1 .. last - s.after |-> s.after + i]
                      IN  IF subscribed THEN given \o s.queue = all
                          ELSE given = all /\ s.queue = <<Broker!Overflow>>
    BY DEF Broker!StreamsAreWhole
  <1> DEFINE s == following[c]
             a == s.after
             g == Len(s.got)
             p == Len(s.replay)
             m == Len(s.queue)
             subscribed == /\ s.key \in DOMAIN states /\ c \in states[s.key].subscribers
                           /\ states[s.key].epoch = s.epoch
  <1>1. WholeStream(c, s, states) /\ a \in Nat /\ g \in Nat /\ p \in Nat /\ m \in Nat
    BY OpenStream
  <1>2. subscribed <=> Subscribed(c, s, states)
    BY DEF Subscribed, BrokerInv, Members
  <1>3. s.got = Run(a, g) /\ s.replay = Run(a + g, p)
    BY <1>1 DEF WholeStream
  <1> HIDE DEF a, g, p, m
  <1>4. s.got \o s.replay = Run(a, g + p) /\ Len(s.got \o s.replay) = g + p
    <2> HIDE DEF subscribed
    <2>1. Run(a, g) \o Run(a + g, p) = Run(a, g + p)
      BY <1>1, RunsJoin
    <2> DEFINE b == g + p
    <2>2. b \in Nat
      BY <1>1
    <2> HIDE DEF b
    <2>3. Len(Run(a, b)) = b
      BY <1>1, <2>2, RunIs
    <2> QED BY <1>3, <2>1, <2>3 DEF b
  <1>5. CASE subscribed
    <2>1. s.queue = Run(a + g + p, m) /\ states[s.key].next = 1 + a + g + p + m
      BY <1>1, <1>2, <1>5 DEF WholeStream, a, g, p, m
    <2>2. Run(a, g + p) \o Run(a + g + p, m) = Run(a, g + p + m)
      <3> DEFINE b == g + p
      <3>1. b \in Nat /\ a + b = a + g + p
        BY <1>1
      <3> HIDE DEF b
      <3>2. Run(a, b) \o Run(a + b, m) = Run(a, b + m)
        BY <1>1, <3>1, RunsJoin
      <3> QED BY <3>1, <3>2 DEF b
    <2>3. states[s.key].next - 1 - a = g + p + m
      BY <1>1, <2>1
    <2> QED BY <1>4, <1>5, <2>1, <2>2, <2>3 DEF Run, a
  <1>6. CASE ~subscribed
    <2>1. s.queue = <<Broker!Overflow>>
      BY <1>1, <1>2, <1>6 DEF WholeStream
    <2> DEFINE given == s.got \o s.replay
               last == a + Len(given)
    <2>2. last - a = Len(given) /\ Len(given) = g + p
      BY <1>1, <1>4
    <2>3. given = Run(a, last - a)
      BY <1>4, <2>2
    <2>4. given = [i \in 1 .. last - a |-> a + i]
      BY <2>3 DEF Run
    <2> QED BY <1>6, <2>1, <2>4 DEF a
  <1> QED BY <1>5, <1>6

=============================================================================
