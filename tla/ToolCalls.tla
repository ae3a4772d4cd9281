------------------------------ MODULE ToolCalls ------------------------------
(***************************************************************************)
(* The tools of one agent turn.  At its start the capabilities granted to  *)
(* its target are authorised and their descriptions fetched; from then on  *)
(* the model may call them, several at once, while administrators change   *)
(* the catalog.  A call of a remote tool takes the tool's lock, leaves an  *)
(* audit record, is authorised again, is sent, and leaves a second record. *)
(* When nobody can tell whether a request had an effect, the tool is not   *)
(* used again in the turn.                                                 *)
(***************************************************************************)
EXTENDS ToolCatalog, Sequences

CONSTANTS
  Target,        \* the turn's target
  Calls,         \* tool calls of the model in this turn
  Slots          \* outbound requests a process makes at once

ToolCallsAssumption == ToolCatalogAssumption /\ Target \in Targets /\ Slots \in Nat

VARIABLES
  turn,     \* the turn: its phase, and the tools it resolved
  call,     \* each call
  unknown   \* the tools with a call whose result nobody knows

turnVars == <<turn, call, unknown>>
vars     == <<catalogVars, turnVars>>

Outcomes   == {"started", "denied", "failed", "succeeded"}
TurnPhases == {"new", "listing", "ready", "refused", "cancelled"}
CallPhases == {"idle", "waiting", "authorise", "send", "sent", "answered", "done"}
Results    == {"none", "ok", "error", "unknown"}

(* What the turn knows of a capability *)
Description(c) == [name |-> capability[c].name, schema |-> capability[c].schema]

Remote(c) == SourceOf[c] # Platform

-----------------------------------------------------------------------------
(* The start of the turn *)

Resolves ==
  /\ turn.phase = "new"
  /\ turn' = IF AuthorizedRuntimeCapabilities(Target, grants[Target])
             THEN [phase |-> "listing", tools |-> [c \in grants[Target] |-> Description(c)]]
             ELSE [turn EXCEPT !.phase = "refused"]
  /\ UNCHANGED <<catalogVars, call, unknown>>

(* A managed source lists its active capabilities; the server of an external
   one may list another schema, or not answer *)
ListedAsResolved(c) ==
  SourceOf[c] \in Managed =>
    /\ Usable(c) /\ Description(c) = turn.tools[c]

Lists ==
  /\ turn.phase = "listing"
  /\ \/ /\ \A c \in DOMAIN turn.tools : ListedAsResolved(c)
        /\ turn' = [turn EXCEPT !.phase = "ready"]
     \/ /\ \E c \in DOMAIN turn.tools : SourceOf[c] \in External \/ ~ListedAsResolved(c)
        /\ turn' = [turn EXCEPT !.phase = "refused"]
  /\ UNCHANGED <<catalogVars, call, unknown>>

-----------------------------------------------------------------------------
(* One call *)

IdleCall == [phase |-> "idle", tool |-> CurrentTime, result |-> "none", audit |-> <<>>]

(* A repeated call identifier joins the call under way: a call starts once *)
CallArrives(k, c) ==
  /\ turn.phase = "ready" /\ call[k].phase = "idle" /\ c \in DOMAIN turn.tools
  /\ call' = [call EXCEPT ![k].phase = "waiting", ![k].tool = c]
  /\ UNCHANGED <<catalogVars, turn, unknown>>

Holds(k) == call[k].phase \in {"authorise", "send", "sent", "answered"}

(* Slip: calls of one tool do not wait for one another *)
NeverBusy(c) == FALSE

Busy(c) == Remote(c) /\ \E k \in Calls : call[k].tool = c /\ Holds(k)

Audited(k, outcomes) == call[k].audit \o outcomes

Ends(k, result, outcomes) ==
  call' = [call EXCEPT ![k].phase = "done", ![k].result = result,
                       ![k].audit = Audited(k, outcomes)]

(* Without its first record the call does not happen; with a result unknown it
   is refused *)
Starts(k) ==
  LET c == call[k].tool
  IN  /\ call[k].phase = "waiting" /\ ~Busy(c)
      /\ \/ Ends(k, "error", <<>>)
         \/ c \in unknown /\ Ends(k, "error", <<"started", "failed">>)
         \/ /\ c \notin unknown
            /\ call' = [call EXCEPT ![k].phase = "authorise",
                                    ![k].audit = Audited(k, <<"started">>)]
      /\ UNCHANGED <<catalogVars, turn, unknown>>

(* The catalog is read again, and must agree with what was resolved *)
Authorises(k) ==
  LET c == call[k].tool
  IN  /\ call[k].phase = "authorise"
      /\ IF AuthorizedRuntimeCapabilities(Target, {c})
            /\ (Remote(c) => Description(c) = turn.tools[c])
         THEN call' = [call EXCEPT ![k].phase = "send"]
         ELSE Ends(k, "error", <<"denied">>)
      /\ UNCHANGED <<catalogVars, turn, unknown>>

IsManaged(c)  == SourceOf[c] \in Managed
IsExternal(c) == SourceOf[c] \in External

Sending(k) == call[k].phase = "send"
Fails(k)   == Ends(k, "error", <<"failed">>) /\ UNCHANGED unknown

LeavesUnknown(k) ==
  Ends(k, "unknown", <<"failed">>) /\ unknown' = unknown \cup {call[k].tool}

(* The platform's own tool runs in the process *)
CallsPlatform(k) ==
  /\ Sending(k) /\ ~Remote(call[k].tool)
  /\ \/ call' = [call EXCEPT ![k].phase = "answered"] /\ UNCHANGED unknown
     \/ Fails(k)
  /\ UNCHANGED <<catalogVars, turn>>

(* All outbound requests of a process share its slots *)
SlotFree == Cardinality({k \in Calls : call[k].phase = "sent"}) < Slots

Sent(k) == call' = [call EXCEPT ![k].phase = "sent"] /\ UNCHANGED <<catalogVars, turn, unknown>>

(* The managed source is read once more; the arguments or the credential may
   not do *)
RefusesManaged(k) ==
  /\ Sending(k) /\ IsManaged(call[k].tool)
  /\ Fails(k)
  /\ UNCHANGED <<catalogVars, turn>>

SendsManaged(k) ==
  /\ Sending(k) /\ IsManaged(call[k].tool) /\ Usable(call[k].tool) /\ SlotFree
  /\ Sent(k)

(* Waiting for a slot is part of the call's time: when it runs out the request
   is taken to have been sent *)
SlotTimeout(k) ==
  /\ Sending(k) /\ IsManaged(call[k].tool) /\ Usable(call[k].tool) /\ ~SlotFree
  /\ LeavesUnknown(k)
  /\ UNCHANGED <<catalogVars, turn>>

(* A session with an external server that does not come about sent nothing *)
SessionFails(k) ==
  /\ Sending(k) /\ IsExternal(call[k].tool)
  /\ Fails(k)
  /\ UNCHANGED <<catalogVars, turn>>

SendsExternal(k) ==
  /\ Sending(k) /\ IsExternal(call[k].tool) /\ SlotFree
  /\ Sent(k)

(* An answer, an error the server reports, or an end that tells nothing *)
ManagedAnswers(k) ==
  /\ call[k].phase = "sent" /\ IsManaged(call[k].tool)
  /\ \/ call' = [call EXCEPT ![k].phase = "answered"] /\ UNCHANGED unknown
     \/ Fails(k)
     \/ LeavesUnknown(k)
  /\ UNCHANGED <<catalogVars, turn>>

ExternalAnswers(k) ==
  /\ call[k].phase = "sent" /\ IsExternal(call[k].tool)
  /\ \/ call' = [call EXCEPT ![k].phase = "answered"] /\ UNCHANGED unknown
     \/ Fails(k)
     \/ LeavesUnknown(k)
  /\ UNCHANGED <<catalogVars, turn>>

(* A remote result that cannot be recorded as delivered counts as unknown, and
   then one more attempt is made to record the failure *)
Records(k) ==
  LET c == call[k].tool
  IN  /\ call[k].phase = "answered"
      /\ \/ Ends(k, "ok", <<"succeeded">>) /\ UNCHANGED unknown
         \/ /\ Remote(c)
            /\ \E outcomes \in {<<>>, <<"failed">>} : Ends(k, "unknown", outcomes)
            /\ unknown' = unknown \cup {c}
         \/ ~Remote(c) /\ Ends(k, "error", <<>>) /\ UNCHANGED unknown
      /\ UNCHANGED <<catalogVars, turn>>

(* The turn is cancelled: its calls stop where they are *)
Cancel ==
  /\ turn.phase \in {"listing", "ready"}
  /\ turn' = [turn EXCEPT !.phase = "cancelled"]
  /\ call' = [k \in Calls |-> [call[k] EXCEPT !.phase = IF @ = "idle" THEN @ ELSE "done"]]
  /\ UNCHANGED <<catalogVars, unknown>>

-----------------------------------------------------------------------------
Init ==
  /\ CatalogInit
  /\ turn = [phase |-> "new", tools |-> <<>>]
  /\ call = [k \in Calls |-> IdleCall]
  /\ unknown = {}

Administers(s) ==
  /\ \/ CreateExternal(s) \/ UpdateExternal(s) \/ CreateManaged(s) \/ UpdateManaged(s)
     \/ UpdateCredential(s) \/ ImportCapabilities(s)
  /\ UNCHANGED turnVars

ChangesCapability(c) ==
  /\ AddCapability(c) \/ UpdateCapability(c) \/ DeleteCapability(c)
  /\ UNCHANGED turnVars

ChangesGrants ==
  /\ \/ CreateCollection \/ UpdateCollection \/ DeleteCollection \/ Seed
     \/ \E t \in Targets : ReplaceGrants(t)
  /\ UNCHANGED turnVars

SyncStep(y) ==
  /\ \/ \E s \in Sources : BeginSync(y, s) \/ BeginDelete(y, s)
     \/ ApplySync(y) \/ MarkFailed(y) \/ SyncConflict(y)
     \/ DeleteSource(y) \/ DeleteEnds(y)
  /\ UNCHANGED turnVars

CallStep(k) ==
  \/ \E c \in Caps : CallArrives(k, c)
  \/ Starts(k) \/ Authorises(k)
  \/ CallsPlatform(k)
  \/ RefusesManaged(k) \/ SendsManaged(k) \/ SlotTimeout(k) \/ ManagedAnswers(k)
  \/ SessionFails(k) \/ SendsExternal(k) \/ ExternalAnswers(k)
  \/ Records(k)

Next ==
  \/ \E s \in Sources : Administers(s)
  \/ \E c \in Caps : ChangesCapability(c)
  \/ ChangesGrants
  \/ \E y \in Syncers : SyncStep(y)
  \/ Resolves \/ Lists \/ Cancel
  \/ \E k \in Calls : CallStep(k)

Spec == Init /\ [][Next]_vars

-----------------------------------------------------------------------------
(* Every variable has its type; a finished call has at most two audit records,
   the first of which says that it started. *)
TypeOK ==
  /\ CatalogTypeOK
  /\ turn.phase \in TurnPhases /\ DOMAIN turn.tools \subseteq Caps
  /\ \A k \in Calls :
       /\ call[k].phase \in CallPhases /\ call[k].tool \in Caps /\ call[k].result \in Results
       /\ call[k].audit \in {<<>>, <<"started">>} \cup {<<"started", o>> : o \in Outcomes}
  /\ unknown \subseteq Caps

(* Once a request of a tool may or may not have had an effect, no other request
   of that tool leaves in the same turn, although calls are made concurrently
   (platform_tools.py:230). *)
UnknownIsFinal ==
  [][\A k, j \in Calls :
       (call[k].phase = "send" /\ call'[k].phase = "sent" /\ call[j].result = "unknown")
         => call[j].tool # call[k].tool]_vars

=============================================================================
