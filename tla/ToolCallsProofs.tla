-------------------------- MODULE ToolCallsProofs --------------------------
(***************************************************************************)
(* ToolCatalog and ToolCalls, for any sources, capabilities, administrators *)
(* and calls: a ready source offers what its present endpoint listed, a     *)
(* collection keeps its sources, and a request with an unknown result is    *)
(* the last one of its tool.                                                *)
(*                                                                          *)
(* The catalog rests on stamps: a synchronisation that finds the stamp it   *)
(* read finds the endpoint it asked.  The calls rest on the tool's lock: a  *)
(* call that holds it was let in while the tool was not unknown, and only   *)
(* the holder can make it so.                                               *)
(***************************************************************************)
EXTENDS ToolCalls, FiniteSetTheorems, SequenceTheorems, TLAPS

SourceRow == [status : SourceStatus, endpoint : Endpoints, stamp : Nat]
CapabilityRow == [status : CapabilityStatus, name : Names, schema : Nat, listed : Endpoints]
Under == [op : {"none", "sync", "delete"}, phase : {"idle", "listing", "deleting"},
          on : Sources, before : Nat, endpoint : Endpoints, seen : BOOLEAN]
OneCall == [phase : CallPhases, tool : Caps, result : Results, audit : Seq(Outcomes)]

CatalogTyped ==
  /\ source \in [Sources -> SourceRow]
  /\ capability \in [Caps -> CapabilityRow]
  /\ sync \in [Syncers -> Under]

CallsTyped ==
  /\ call \in [Calls -> OneCall]
  /\ unknown \subseteq Caps

(* A listing under way knows the endpoint of the row whose stamp it read *)
Asked(u, rows) ==
  u.phase = "listing" =>
    /\ u.on \in External
    /\ u.before =< rows[u.on].stamp
    /\ rows[u.on].status # "absent" /\ rows[u.on].stamp = u.before
         => rows[u.on].endpoint = u.endpoint

CatalogInv ==
  /\ CatalogTyped
  /\ \A y \in Syncers : Asked(sync[y], source)
  /\ ReadyListsCurrentEndpoint

InCall == {"authorise", "send", "sent", "answered"}

(* Who holds a remote tool holds it alone, and nobody knows of an unknown result *)
Locked(cs, un) ==
  \A k \in Calls : cs[k].phase \in InCall /\ Remote(cs[k].tool) =>
    /\ cs[k].tool \notin un
    /\ \A j \in Calls : cs[j].phase \in InCall /\ cs[j].tool = cs[k].tool => j = k

CallInv ==
  /\ CallsTyped
  /\ Locked(call, unknown)
  /\ \A k \in Calls : call[k].result = "unknown" => call[k].tool \in unknown
  /\ \A k \in Calls : call[k].phase \in {"idle", "waiting"} \cup InCall => call[k].result = "none"

-----------------------------------------------------------------------------
(* The catalog *)

LEMMA CatalogInitial ==
  ASSUME ToolCatalogAssumption, CatalogInit
  PROVE  CatalogInv
  <1>1. (CHOOSE n \in Names : TRUE) \in Names
    BY DEF ToolCatalogAssumption
  <1>2. Platform \in Sources
    BY DEF Sources
  <1>3. CatalogTyped
    BY <1>1, <1>2 DEF CatalogInit, CatalogTyped, SourceRow, CapabilityRow, Under, SourceStatus,
       CapabilityStatus, NoSync, ToolCatalogAssumption
  <1>4. \A y \in Syncers : Asked(sync[y], source)
    BY DEF CatalogInit, Asked, NoSync
  <1>5. ReadyListsCurrentEndpoint
    BY DEF CatalogInit, ReadyListsCurrentEndpoint, Usable, ToolCatalogAssumption
  <1> QED BY <1>3, <1>4, <1>5 DEF CatalogInv

(* A write of a row that gives it a later stamp, or takes it away. *)
LEMMA AskedKept ==
  ASSUME source \in [Sources -> SourceRow], NEW s \in Sources, NEW row \in SourceRow,
         source' = [source EXCEPT ![s] = row],
         \/ row.stamp > source[s].stamp
         \/ row.stamp = source[s].stamp /\ (row.status = "absent" \/ s \notin External),
         NEW u \in Under, Asked(u, source)
  PROVE  Asked(u, source')
  <1>1. u.on \in Sources /\ u.before \in Nat /\ source[s].stamp \in Nat /\ row.stamp \in Nat
    BY DEF Under, SourceRow
  <1>2. CASE u.on = s
    BY <1>1, <1>2 DEF Asked
  <1>3. CASE u.on # s
    BY <1>1, <1>3 DEF Asked
  <1> QED BY <1>2, <1>3

(* Administrators write one row of a source. *)
LEMMA SourceWritten ==
  ASSUME CatalogInv, NEW s \in Sources, NEW row \in SourceRow, UNCHANGED <<capability, sync>>,
         source' = [source EXCEPT ![s] = row],
         \/ row.stamp > source[s].stamp
         \/ row.stamp = source[s].stamp /\ s \notin External,
         s \in External => \/ row.status # "ready"
                           \/ row.status = source[s].status /\ row.endpoint = source[s].endpoint
  PROVE  CatalogInv'
  <1>1. CatalogTyped'
    BY DEF CatalogInv, CatalogTyped
  <1>2. (\A y \in Syncers : Asked(sync[y], source))'
    BY AskedKept DEF CatalogInv, CatalogTyped
  <1>3. ReadyListsCurrentEndpoint'
    <2> SUFFICES ASSUME NEW c \in Caps, SourceOf[c] \in External,
                        capability[c].status = "active", source'[SourceOf[c]].status = "ready"
                 PROVE  capability[c].listed = source'[SourceOf[c]].endpoint
      BY DEF ReadyListsCurrentEndpoint, Usable
    <2>1. SourceOf[c] \in Sources
      BY DEF Sources
    <2> QED BY <2>1 DEF CatalogInv, CatalogTyped, ReadyListsCurrentEndpoint, Usable
  <1> QED BY <1>1, <1>2, <1>3 DEF CatalogInv

(* Capabilities of other sources than external ones. *)
LEMMA CapabilitiesWritten ==
  ASSUME CatalogInv, UNCHANGED <<source, sync>>, capability' \in [Caps -> CapabilityRow],
         \A c \in Caps : SourceOf[c] \in External => capability'[c] = capability[c]
  PROVE  CatalogInv'
  <1>1. ReadyListsCurrentEndpoint'
    BY DEF CatalogInv, ReadyListsCurrentEndpoint, Usable
  <1> QED BY <1>1 DEF CatalogInv, CatalogTyped

(* Nothing of sources, capabilities and synchronisations changes. *)
LEMMA CatalogSame ==
  ASSUME CatalogInv, UNCHANGED <<source, capability, sync>>
  PROVE  CatalogInv'
  BY DEF CatalogInv, CatalogTyped, ReadyListsCurrentEndpoint, Usable

LEMMA AdministersKeeps ==
  ASSUME ToolCatalogAssumption, CatalogInv, NEW s \in Sources, Administers(s)
  PROVE  CatalogInv'
  <1>1. source[s] \in SourceRow /\ source[s].stamp \in Nat /\ source[s].stamp + 1 \in Nat
    BY DEF CatalogInv, CatalogTyped, SourceRow
  <1>2. PICK n \in Nat : n = source[s].stamp + 1 /\ n > source[s].stamp
    BY <1>1
  <1>3. ASSUME NEW e \in Endpoints, NEW st \in {"draft", "ready", "disabled"},
               source' = [source EXCEPT ![s] = NewSource(s, st, e)],
               UNCHANGED <<capability, sync>>, s \notin External \/ st = "draft"
        PROVE  CatalogInv'
    <2>1. PICK row : row = NewSource(s, st, e)
      OBVIOUS
    <2>2. row \in SourceRow /\ row.stamp = n /\ row.status = st
      BY <1>2, <2>1 DEF NewSource, SourceRow, SourceStatus
    <2> QED BY <1>2, <1>3, <2>1, <2>2, SourceWritten
  <1>4. CASE CreateExternal(s)
    BY <1>3, <1>4 DEF CreateExternal
  <1>5. CASE UpdateExternal(s)
    <2>1. PICK e \in Endpoints : source' = [source EXCEPT ![s] = Replaced(s, e)]
      BY <1>5 DEF UpdateExternal
    <2>2. PICK row : row = Replaced(s, e)
      OBVIOUS
    <2>3. row = [source[s] EXCEPT !.status = IF e = source[s].endpoint THEN @ ELSE "draft",
                                  !.endpoint = e, !.stamp = n]
      BY <1>2, <2>2 DEF Replaced
    <2>4. /\ row \in SourceRow /\ row.stamp = n
          /\ \/ row.status # "ready"
             \/ row.status = source[s].status /\ row.endpoint = source[s].endpoint
      BY <1>1, <2>3 DEF SourceRow, SourceStatus
    <2> QED BY <1>2, <1>5, <2>1, <2>2, <2>4, SourceWritten DEF UpdateExternal
  <1>6. CASE CreateManaged(s) \/ UpdateManaged(s)
    <2>1. s \notin External /\ ManagedStatus \subseteq {"draft", "ready", "disabled"}
      BY <1>6 DEF CreateManaged, UpdateManaged, ToolCatalogAssumption, ManagedStatus
    <2> QED BY <1>3, <1>6, <2>1 DEF CreateManaged, UpdateManaged
  <1>7. CASE UpdateCredential(s)
    BY <1>7, CatalogSame DEF UpdateCredential
  <1>8. CASE ImportCapabilities(s)
    <2>1. s \in Managed /\ s \notin External /\ UNCHANGED <<source, sync>>
      BY <1>8 DEF ImportCapabilities, ToolCatalogAssumption
    <2>2. PICK cs \in SUBSET CapsOf(s) : \E name \in [cs -> Names] :
            capability' = [c \in Caps |->
              IF c \in cs THEN Written(c, name[c], 1, TRUE) ELSE capability[c]]
      BY <1>8 DEF ImportCapabilities
    <2>3. PICK name \in [cs -> Names] :
            capability' = [c \in Caps |->
              IF c \in cs THEN Written(c, name[c], 1, TRUE) ELSE capability[c]]
      BY <2>2
    <2>4. \A c \in cs : SourceOf[c] \notin External /\ name[c] \in Names
      BY <2>1, <2>3 DEF CapsOf
    <2>5. \A c, nm : nm \in Names => Written(c, nm, 1, TRUE) \in CapabilityRow
      BY DEF Written, CapabilityRow, CapabilityStatus, ToolCatalogAssumption
    <2>6. capability' \in [Caps -> CapabilityRow]
      BY <2>3, <2>4, <2>5 DEF CatalogInv, CatalogTyped
    <2>7. \A c \in Caps : SourceOf[c] \in External => capability'[c] = capability[c]
      BY <2>3, <2>4
    <2> QED BY <2>1, <2>6, <2>7, CapabilitiesWritten
  <1> QED BY <1>4, <1>5, <1>6, <1>7, <1>8 DEF Administers

LEMMA ChangesCapabilityKeeps ==
  ASSUME ToolCatalogAssumption, CatalogInv, NEW c \in Caps, ChangesCapability(c)
  PROVE  CatalogInv'
  <1>1. SourceOf[c] \notin External /\ UNCHANGED <<source, sync>>
    BY DEF ChangesCapability, AddCapability, UpdateCapability, DeleteCapability,
       ToolCatalogAssumption
  <1>2. PICK row \in CapabilityRow : capability' = [capability EXCEPT ![c] = row]
    <2>1. CASE AddCapability(c) \/ UpdateCapability(c)
      <3>1. PICK name \in Names, schema \in Schemas, on \in BOOLEAN :
              capability' = [capability EXCEPT ![c] = Written(c, name, schema, on)]
        BY <2>1 DEF AddCapability, UpdateCapability
      <3>2. Written(c, name, schema, on) \in CapabilityRow
        BY DEF Written, CapabilityRow, CapabilityStatus, ToolCatalogAssumption
      <3> QED BY <3>1, <3>2
    <2>2. CASE DeleteCapability(c)
      <3>1. capability' = [capability EXCEPT ![c] = [capability[c] EXCEPT !.status = "absent"]]
        BY <2>2 DEF DeleteCapability, CatalogInv, CatalogTyped
      <3>2. [capability[c] EXCEPT !.status = "absent"] \in CapabilityRow
        BY DEF CatalogInv, CatalogTyped, CapabilityRow, CapabilityStatus
      <3> QED BY <3>1, <3>2
    <2> QED BY <2>1, <2>2 DEF ChangesCapability
  <1> QED BY <1>1, <1>2, CapabilitiesWritten DEF CatalogInv, CatalogTyped

LEMMA ChangesGrantsKeeps ==
  ASSUME ToolCatalogAssumption, CatalogInv, ChangesGrants
  PROVE  CatalogInv'
  <1>1. CASE Seed
    <2>1. CurrentTime \in Caps /\ SourceOf[CurrentTime] = Platform
      BY DEF CurrentTime, CapsOf, ToolCatalogAssumption
    <2>2. Platform \in Sources /\ Platform \notin External
      BY DEF Sources, ToolCatalogAssumption
    <2>3. source[Platform] \in SourceRow /\ source[Platform].stamp \in Nat
      BY <2>2 DEF CatalogInv, CatalogTyped, SourceRow
    <2>4. PICK n \in Nat : /\ n >= source[Platform].stamp
            /\ n = IF source[Platform].status = "ready" THEN source[Platform].stamp
                   ELSE source[Platform].stamp + 1
      BY <2>3
    <2>5. PICK row : /\ row = [status |-> "ready", endpoint |-> 1, stamp |-> n]
                     /\ source' = [source EXCEPT ![Platform] = row]
      BY <1>1, <2>2, <2>4 DEF Seed, CatalogInv, CatalogTyped
    <2>6. row \in SourceRow /\ row.stamp = n
      BY <2>5 DEF SourceRow, SourceStatus, ToolCatalogAssumption
    <2>7. PICK cap \in CapabilityRow : capability' = [capability EXCEPT ![CurrentTime] = cap]
      <3>1. capability' = [capability EXCEPT ![CurrentTime] =
                             [capability[CurrentTime] EXCEPT !.status = "active"]]
        BY <1>1, <2>1 DEF Seed, CatalogInv, CatalogTyped
      <3>2. [capability[CurrentTime] EXCEPT !.status = "active"] \in CapabilityRow
        BY <2>1 DEF CatalogInv, CatalogTyped, CapabilityRow, CapabilityStatus
      <3> QED BY <3>1, <3>2
    <2>8. CatalogTyped' /\ UNCHANGED sync
      BY <1>1, <2>5, <2>6, <2>7 DEF Seed, CatalogInv, CatalogTyped
    <2>9. (\A y \in Syncers : Asked(sync[y], source))'
      <3>1. \/ row.stamp > source[Platform].stamp
            \/ row.stamp = source[Platform].stamp /\ Platform \notin External
        BY <2>2, <2>3, <2>4, <2>6
      <3> QED BY <2>2, <2>5, <2>6, <2>8, <3>1, AskedKept DEF CatalogInv, CatalogTyped
    <2>10. ReadyListsCurrentEndpoint'
      BY <2>1, <2>2, <2>5, <2>7 DEF CatalogInv, CatalogTyped, ReadyListsCurrentEndpoint, Usable,
         Sources
    <2> QED BY <2>8, <2>9, <2>10 DEF CatalogInv
  <1>2. CASE UNCHANGED <<source, capability, sync>>
    BY <1>2, CatalogSame
  <1> QED BY <1>1, <1>2 DEF ChangesGrants, CreateCollection, UpdateCollection, DeleteCollection,
       ReplaceGrants

LEMMA SyncStepKeeps ==
  ASSUME ToolCatalogAssumption, CatalogInv, NEW y \in Syncers, SyncStep(y)
  PROVE  CatalogInv'
  <1>1. /\ sync[y] \in Under /\ sync[y].on \in Sources /\ source[sync[y].on] \in SourceRow
        /\ Asked(sync[y], source) /\ sync[y].endpoint \in Endpoints
        /\ source[sync[y].on].stamp \in Nat
    BY DEF CatalogInv, CatalogTyped, Under, SourceRow
  <1>2. NoSync \in Under /\ \A rows : Asked(NoSync, rows)
    BY DEF NoSync, Under, Asked, Sources, ToolCatalogAssumption
  <1>3. ASSUME NEW u \in Under, sync' = [sync EXCEPT ![y] = u], Asked(u, source),
               UNCHANGED <<source, capability>>
        PROVE  CatalogInv'
    BY <1>3 DEF CatalogInv, CatalogTyped, ReadyListsCurrentEndpoint, Usable
  <1>4. ASSUME NEW row \in SourceRow, source' = [source EXCEPT ![sync[y].on] = row],
               \/ row.stamp > source[sync[y].on].stamp
               \/ row.stamp = source[sync[y].on].stamp /\ row.status = "absent",
               sync' = [sync EXCEPT ![y] = NoSync]
        PROVE  (\A z \in Syncers : Asked(sync[z], source))'
    <2> SUFFICES ASSUME NEW z \in Syncers PROVE Asked(sync'[z], source')
      OBVIOUS
    <2>1. CASE z = y
      BY <1>2, <1>4, <2>1 DEF CatalogInv, CatalogTyped
    <2>2. CASE z # y
      <3>1. sync'[z] = sync[z] /\ sync[z] \in Under /\ Asked(sync[z], source)
        BY <1>4, <2>2 DEF CatalogInv, CatalogTyped
      <3> QED BY <1>1, <1>4, <3>1, AskedKept DEF CatalogInv, CatalogTyped
    <2> QED BY <2>1, <2>2
  <1>5. ASSUME NEW s \in Sources, BeginSync(y, s) PROVE CatalogInv'
    <2>1. PICK u : u = [sync[y] EXCEPT !.op = "sync", !.phase = "listing", !.on = s,
                                       !.before = source[s].stamp,
                                       !.endpoint = source[s].endpoint]
      OBVIOUS
    <2>2. sync' = [sync EXCEPT ![y] = u] /\ s \in External /\ UNCHANGED <<source, capability>>
      BY <1>5, <2>1 DEF BeginSync, CatalogInv, CatalogTyped
    <2>3. source[s] \in SourceRow /\ source[s].stamp \in Nat /\ source[s].endpoint \in Endpoints
      BY DEF CatalogInv, CatalogTyped, SourceRow
    <2>4. u \in Under /\ u.on = s /\ u.before = source[s].stamp /\ u.endpoint = source[s].endpoint
      BY <1>1, <2>1, <2>3 DEF Under
    <2>5. Asked(u, source)
      BY <2>2, <2>3, <2>4 DEF Asked
    <2> QED BY <1>3, <2>2, <2>4, <2>5
  <1>6. ASSUME NEW s \in Sources, BeginDelete(y, s) PROVE CatalogInv'
    <2>1. PICK u : u = [sync[y] EXCEPT !.op = "delete", !.phase = "deleting", !.on = s,
                                       !.seen = Member(s)]
      OBVIOUS
    <2>2. sync' = [sync EXCEPT ![y] = u] /\ UNCHANGED <<source, capability>>
      BY <1>6, <2>1 DEF BeginDelete, CatalogInv, CatalogTyped
    <2>3. PICK b \in BOOLEAN : b = Member(s)
      BY DEF Member
    <2>4. u \in Under /\ u.phase = "deleting"
      BY <1>1, <2>1, <2>3 DEF Under
    <2> QED BY <1>3, <2>2, <2>4 DEF Asked
  <1>7. CASE SyncConflict(y) \/ DeleteEnds(y)
    BY <1>2, <1>3, <1>7 DEF SyncConflict, DeleteEnds, Done
  <1>8. CASE MarkFailed(y)
    <2>1. PICK n \in Nat : n = source[sync[y].on].stamp + 1 /\ n > source[sync[y].on].stamp
      BY <1>1
    <2>2. PICK row : row = [source[sync[y].on] EXCEPT !.status = "unavailable", !.stamp = n]
      OBVIOUS
    <2>3. source' = [source EXCEPT ![sync[y].on] = row]
      BY <1>1, <1>8, <2>1, <2>2 DEF MarkFailed, CatalogInv, CatalogTyped
    <2>4. row \in SourceRow /\ row.stamp = n /\ row.status = "unavailable"
      BY <1>1, <2>2 DEF SourceRow, SourceStatus
    <2>5. sync' = [sync EXCEPT ![y] = NoSync] /\ UNCHANGED capability
      BY <1>8 DEF MarkFailed, Done
    <2>6. (\A z \in Syncers : Asked(sync[z], source))'
      BY <1>4, <2>1, <2>3, <2>4, <2>5
    <2>7. CatalogTyped'
      BY <1>2, <2>3, <2>4, <2>5 DEF CatalogInv, CatalogTyped
    <2>8. ReadyListsCurrentEndpoint'
      BY <1>1, <2>3, <2>4, <2>5 DEF CatalogInv, CatalogTyped, ReadyListsCurrentEndpoint, Usable
    <2> QED BY <2>6, <2>7, <2>8 DEF CatalogInv
  <1>9. CASE DeleteSource(y)
    <2>1. PICK row : row = [NoSource EXCEPT !.stamp = source[sync[y].on].stamp]
      OBVIOUS
    <2>2. source' = [source EXCEPT ![sync[y].on] = row]
      BY <1>9, <2>1 DEF DeleteSource
    <2>3. row \in SourceRow /\ row.stamp = source[sync[y].on].stamp /\ row.status = "absent"
      BY <1>1, <2>1 DEF NoSource, SourceRow, SourceStatus, ToolCatalogAssumption
    <2>4. /\ sync' = [sync EXCEPT ![y] = NoSync]
          /\ capability' = [c \in Caps |-> IF SourceOf[c] = sync[y].on
                THEN [capability[c] EXCEPT !.status = "absent"] ELSE capability[c]]
      BY <1>9 DEF DeleteSource, Done
    <2>5. (\A z \in Syncers : Asked(sync[z], source))'
      BY <1>4, <2>2, <2>3, <2>4
    <2>6. \A c \in Caps : [capability[c] EXCEPT !.status = "absent"] \in CapabilityRow
      BY DEF CatalogInv, CatalogTyped, CapabilityRow, CapabilityStatus
    <2>7. CatalogTyped'
      BY <1>2, <2>2, <2>3, <2>4, <2>6 DEF CatalogInv, CatalogTyped
    <2>8. ReadyListsCurrentEndpoint'
      BY <1>1, <2>2, <2>3, <2>4 DEF CatalogInv, CatalogTyped, ReadyListsCurrentEndpoint, Usable
    <2> QED BY <2>5, <2>7, <2>8 DEF CatalogInv
  <1>10. CASE ApplySync(y)
    <2>1. PICK n \in Nat : n = source[sync[y].on].stamp + 1 /\ n > source[sync[y].on].stamp
      BY <1>1
    <2>2. PICK row : row = [source[sync[y].on] EXCEPT !.status = "ready", !.stamp = n]
      OBVIOUS
    <2>3. source' = [source EXCEPT ![sync[y].on] = row]
      BY <1>1, <1>10, <2>1, <2>2 DEF ApplySync, CatalogInv, CatalogTyped
    <2>4. /\ row \in SourceRow /\ row.stamp = n /\ row.status = "ready"
          /\ row.endpoint = source[sync[y].on].endpoint
      BY <1>1, <2>2 DEF SourceRow, SourceStatus
    <2>5. sync' = [sync EXCEPT ![y] = NoSync]
      BY <1>10 DEF ApplySync, Done
    <2>6. source[sync[y].on].endpoint = sync[y].endpoint /\ sync[y].on \in External
      BY <1>1, <1>10 DEF ApplySync, SameVersion, Exists, Asked
    <2>7. PICK found \in [CapsOf(sync[y].on) -> Schemas \cup {0}] :
            capability' = [c \in Caps |-> IF c \in CapsOf(sync[y].on)
                                          THEN Reconciled(c, y, found) ELSE capability[c]]
      BY <1>10 DEF ApplySync
    <2>8. ASSUME NEW c \in CapsOf(sync[y].on)
          PROVE  /\ Reconciled(c, y, found) \in CapabilityRow
                 /\ Reconciled(c, y, found).status = "active" =>
                      Reconciled(c, y, found).listed = sync[y].endpoint
      <3>1. capability[c] \in CapabilityRow /\ found[c] \in Nat
        <4>1. c \in Caps /\ Schemas \subseteq Nat
          BY <2>8 DEF CapsOf, ToolCatalogAssumption
        <4>2. found[c] \in Schemas \/ found[c] = 0
          BY <2>7, <2>8
        <4>3. found[c] \in Nat
          <5>1. CASE found[c] = 0
            BY <5>1
          <5>2. CASE found[c] \in Schemas
            BY <4>1, <5>2
          <5> QED BY <4>2, <5>1, <5>2
        <4> QED BY <4>1, <4>3 DEF CatalogInv, CatalogTyped
      <3>2. CASE found[c] = 0
        <4>1. Reconciled(c, y, found) =
                [capability[c] EXCEPT !.status = IF @ = "absent" THEN @ ELSE "unavailable"]
          BY <3>2 DEF Reconciled
        <4> QED BY <3>1, <4>1 DEF CapabilityRow, CapabilityStatus
      <3>3. CASE found[c] # 0 /\ capability[c].status # "absent" /\ capability[c].schema # found[c]
        <4>1. Reconciled(c, y, found) =
                [capability[c] EXCEPT !.status = "unavailable", !.schema = found[c],
                                      !.listed = sync[y].endpoint]
          BY <3>3 DEF Reconciled
        <4> QED BY <1>1, <3>1, <4>1 DEF CapabilityRow, CapabilityStatus
      <3>4. CASE /\ found[c] # 0
                 /\ ~(capability[c].status # "absent" /\ capability[c].schema # found[c])
        <4>1. Reconciled(c, y, found) =
                [capability[c] EXCEPT !.status = "active", !.schema = found[c],
                                      !.listed = sync[y].endpoint]
          BY <3>4 DEF Reconciled
        <4> QED BY <1>1, <3>1, <4>1 DEF CapabilityRow, CapabilityStatus
      <3> QED BY <3>2, <3>3, <3>4
    <2>9. (\A z \in Syncers : Asked(sync[z], source))'
      BY <1>4, <2>1, <2>3, <2>4, <2>5
    <2>10. CatalogTyped'
      BY <1>2, <2>3, <2>4, <2>5, <2>7, <2>8 DEF CatalogInv, CatalogTyped
    <2>11. ReadyListsCurrentEndpoint'
      <3> SUFFICES ASSUME NEW c \in Caps, SourceOf[c] \in External,
                          capability'[c].status = "active", source'[SourceOf[c]].status = "ready"
                   PROVE  capability'[c].listed = source'[SourceOf[c]].endpoint
        BY DEF ReadyListsCurrentEndpoint, Usable
      <3>1. CASE SourceOf[c] = sync[y].on
        <4>1. capability'[c] = Reconciled(c, y, found) /\ c \in CapsOf(sync[y].on)
          BY <2>7, <3>1 DEF CapsOf
        <4> QED BY <1>1, <2>3, <2>4, <2>6, <2>8, <3>1, <4>1 DEF CatalogInv, CatalogTyped
      <3>2. CASE SourceOf[c] # sync[y].on
        <4>1. capability'[c] = capability[c] /\ source'[SourceOf[c]] = source[SourceOf[c]]
          BY <2>3, <2>7, <3>2 DEF CapsOf, CatalogInv, CatalogTyped, Sources
        <4> QED BY <4>1 DEF CatalogInv, ReadyListsCurrentEndpoint, Usable
      <3> QED BY <3>1, <3>2
    <2> QED BY <2>9, <2>10, <2>11 DEF CatalogInv
  <1> QED BY <1>5, <1>6, <1>7, <1>8, <1>9, <1>10 DEF SyncStep

-----------------------------------------------------------------------------
(* The calls *)

LEMMA CallsInitial ==
  ASSUME ToolCatalogAssumption, Init
  PROVE  CallInv
  <1>1. CurrentTime \in Caps
    BY DEF CurrentTime, CapsOf, ToolCatalogAssumption
  <1>2. <<>> \in Seq(Outcomes)
    OBVIOUS
  <1>3. IdleCall \in OneCall /\ IdleCall.phase = "idle" /\ IdleCall.result = "none"
    BY <1>1, <1>2 DEF IdleCall, OneCall, CallPhases, Results
  <1> QED BY <1>3 DEF Init, CallInv, CallsTyped, Locked, InCall

(* A record is added to those of the call. *)
LEMMA Appended ==
  ASSUME NEW s \in Seq(Outcomes), NEW t \in Seq(Outcomes)
  PROVE  s \o t \in Seq(Outcomes)
  OBVIOUS

(* A call ends; it makes its tool's result unknown only while it holds the tool. *)
LEMMA EndsKeeps ==
  ASSUME CallInv, NEW k \in Calls, NEW result \in {"ok", "error", "unknown"},
         NEW outcomes \in Seq(Outcomes), Ends(k, result, outcomes),
         \/ result # "unknown" /\ UNCHANGED unknown
         \/ /\ unknown' = unknown \cup {call[k].tool}
            /\ call[k].phase \in InCall /\ Remote(call[k].tool)
  PROVE  CallInv'
  <1>1. call[k] \in OneCall /\ call[k].tool \in Caps /\ call[k].audit \in Seq(Outcomes)
    BY DEF CallInv, CallsTyped, OneCall
  <1>2. PICK a \in Seq(Outcomes) : a = Audited(k, outcomes)
    <2>1. Audited(k, outcomes) \in Seq(Outcomes)
      BY <1>1, Appended DEF Audited
    <2> QED BY <2>1
  <1>3. PICK q : q = [call[k] EXCEPT !.phase = "done", !.result = result, !.audit = a]
    OBVIOUS
  <1>4. call' = [call EXCEPT ![k] = q]
    BY <1>2, <1>3 DEF Ends, CallInv, CallsTyped
  <1>5. q \in OneCall /\ q.phase = "done" /\ q.result = result /\ q.tool = call[k].tool
    BY <1>1, <1>3 DEF OneCall, CallPhases, Results
  <1>6. CallsTyped'
    BY <1>1, <1>4, <1>5 DEF CallInv, CallsTyped
  <1>7. ASSUME NEW j \in Calls, call'[j].phase \in InCall, Remote(call'[j].tool)
        PROVE  /\ call'[j].tool \notin unknown'
               /\ \A i \in Calls : call'[i].phase \in InCall /\ call'[i].tool = call'[j].tool
                                     => i = j
    <2>1. j # k /\ call'[j] = call[j]
      BY <1>4, <1>5, <1>7 DEF CallInv, CallsTyped, InCall
    <2>2. /\ call[j].tool \notin unknown
          /\ \A i \in Calls : call[i].phase \in InCall /\ call[i].tool = call[j].tool => i = j
      BY <1>7, <2>1 DEF CallInv, Locked
    <2>3. call[j].tool \notin unknown'
      BY <2>1, <2>2
    <2>4. \A i \in Calls : call'[i].phase \in InCall => call'[i] = call[i]
      BY <1>4, <1>5 DEF CallInv, CallsTyped, InCall
    <2> QED BY <2>1, <2>2, <2>3, <2>4
  <1>8. Locked(call', unknown')
    BY <1>7 DEF Locked
  <1>9. (\A j \in Calls : call[j].result = "unknown" => call[j].tool \in unknown)'
    BY <1>4, <1>5 DEF CallInv, CallsTyped
  <1>10. (\A j \in Calls : call[j].phase \in {"idle", "waiting"} \cup InCall
                             => call[j].result = "none")'
    BY <1>4, <1>5 DEF CallInv, CallsTyped, InCall
  <1> QED BY <1>6, <1>8, <1>9, <1>10 DEF CallInv

(* A call that has the tool goes on with it. *)
LEMMA GoesOnKeeps ==
  ASSUME CallInv, NEW k \in Calls, NEW phase \in InCall, call[k].phase \in InCall,
         call' = [call EXCEPT ![k].phase = phase], UNCHANGED unknown
  PROVE  CallInv'
  <1>1. PICK q : q = [call[k] EXCEPT !.phase = phase]
    OBVIOUS
  <1>2. call[k] \in OneCall /\ call' = [call EXCEPT ![k] = q]
    BY <1>1 DEF CallInv, CallsTyped
  <1>3. q \in OneCall /\ q.phase = phase /\ q.result = call[k].result /\ q.tool = call[k].tool
    BY <1>1, <1>2 DEF OneCall, CallPhases, InCall
  <1>4. \A j \in Calls : /\ call'[j].tool = call[j].tool /\ call'[j].result = call[j].result
                         /\ call'[j].phase \in InCall <=> call[j].phase \in InCall
                         /\ j # k => call'[j] = call[j]
    BY <1>2, <1>3 DEF CallInv, CallsTyped
  <1>5. Locked(call', unknown')
    BY <1>4 DEF CallInv, Locked
  <1>6. CallsTyped'
    BY <1>2, <1>3 DEF CallInv, CallsTyped
  <1>7. (\A j \in Calls : call[j].phase \in {"idle", "waiting"} \cup InCall
                            => call[j].result = "none")'
    BY <1>4 DEF CallInv
  <1> QED BY <1>4, <1>5, <1>6, <1>7 DEF CallInv

(* The records a call leaves. *)
LEMMA RecordSequences ==
  /\ <<>> \in Seq(Outcomes) /\ <<"failed">> \in Seq(Outcomes) /\ <<"denied">> \in Seq(Outcomes)
  /\ <<"started">> \in Seq(Outcomes) /\ <<"succeeded">> \in Seq(Outcomes)
  /\ <<"started", "failed">> \in Seq(Outcomes)
  BY DEF Outcomes

LEMMA CallArrivesKeeps ==
  ASSUME CallInv, NEW k \in Calls, NEW c \in Caps, CallArrives(k, c)
  PROVE  CallInv'
  <1>1. PICK q : q = [call[k] EXCEPT !.phase = "waiting", !.tool = c]
    OBVIOUS
  <1>2. /\ call[k] \in OneCall /\ call' = [call EXCEPT ![k] = q] /\ UNCHANGED unknown
        /\ call[k].phase = "idle" /\ call[k].result = "none"
    BY <1>1 DEF CallArrives, CallInv, CallsTyped
  <1>3. q \in OneCall /\ q.phase = "waiting" /\ q.result = "none" /\ q.tool = c
    BY <1>1, <1>2 DEF OneCall, CallPhases
  <1>4. \A j \in Calls : call'[j].phase \in InCall => call'[j] = call[j]
    BY <1>2, <1>3 DEF CallInv, CallsTyped, InCall
  <1>5. Locked(call', unknown')
    BY <1>2, <1>4 DEF CallInv, Locked
  <1> QED BY <1>2, <1>3, <1>5 DEF CallInv, CallsTyped

LEMMA StartsKeeps ==
  ASSUME CallInv, NEW k \in Calls, Starts(k)
  PROVE  CallInv'
  <1>1. /\ call[k] \in OneCall /\ call[k].phase = "waiting" /\ ~Busy(call[k].tool)
        /\ call[k].result = "none" /\ UNCHANGED unknown /\ call[k].audit \in Seq(Outcomes)
    BY DEF Starts, CallInv, CallsTyped, OneCall
  <1>2. CASE Ends(k, "error", <<>>) \/ Ends(k, "error", <<"started", "failed">>)
    BY <1>1, <1>2, EndsKeeps, RecordSequences
  <1>3. CASE /\ call[k].tool \notin unknown
             /\ call' = [call EXCEPT ![k].phase = "authorise",
                                     ![k].audit = Audited(k, <<"started">>)]
    <2>1. PICK a \in Seq(Outcomes) : a = Audited(k, <<"started">>)
      <3>1. Audited(k, <<"started">>) \in Seq(Outcomes)
        BY <1>1, RecordSequences, Appended DEF Audited
      <3> QED BY <3>1
    <2>2. PICK q : q = [call[k] EXCEPT !.phase = "authorise", !.audit = a]
      OBVIOUS
    <2>3. call' = [call EXCEPT ![k] = q]
      BY <1>3, <2>1, <2>2 DEF CallInv, CallsTyped
    <2>4. q \in OneCall /\ q.phase = "authorise" /\ q.result = "none" /\ q.tool = call[k].tool
      BY <1>1, <2>2 DEF OneCall, CallPhases
    <2>5. Remote(call[k].tool) =>
            \A j \in Calls : call[j].phase \in InCall => call[j].tool # call[k].tool
      BY <1>1 DEF Busy, Holds, InCall
    <2>6. /\ \A j \in Calls : j # k => call'[j] = call[j]
          /\ call'[k] = q /\ call'[k].tool = call[k].tool
      BY <2>3, <2>4 DEF CallInv, CallsTyped
    <2>7. ASSUME NEW j \in Calls, call'[j].phase \in InCall, Remote(call'[j].tool)
          PROVE  /\ call'[j].tool \notin unknown'
                 /\ \A i \in Calls : call'[i].phase \in InCall /\ call'[i].tool = call'[j].tool
                                       => i = j
      <3>1. CASE j = k
        <4>1. Remote(call[k].tool) /\ call'[j].tool = call[k].tool
          BY <2>6, <2>7, <3>1
        <4>2. call'[j].tool \notin unknown'
          BY <1>1, <1>3, <4>1
        <4>3. ASSUME NEW i \in Calls, i # k, call'[i].phase \in InCall
              PROVE  call'[i].tool # call[k].tool
          <5>1. call'[i] = call[i]
            BY <2>6, <4>3
          <5> QED BY <2>5, <4>1, <4>3, <5>1
        <4> QED BY <3>1, <4>1, <4>2, <4>3
      <3>2. CASE j # k
        <4>1. call'[j] = call[j] /\ call[j].tool \notin unknown
          BY <2>6, <2>7, <3>2 DEF CallInv, Locked
        <4>2. \A i \in Calls : i # k /\ call'[i].phase \in InCall /\ call'[i].tool = call'[j].tool
                                 => i = j
          BY <2>6, <2>7, <4>1 DEF CallInv, Locked
        <4>3. call'[k].tool # call'[j].tool
          BY <2>5, <2>6, <2>7, <4>1
        <4> QED BY <1>1, <4>1, <4>2, <4>3
      <3> QED BY <3>1, <3>2
    <2>8. Locked(call', unknown')
      BY <2>7 DEF Locked
    <2>9. CallsTyped'
      BY <1>1, <2>3, <2>4 DEF CallInv, CallsTyped
    <2> QED BY <1>1, <2>4, <2>6, <2>8, <2>9 DEF CallInv
  <1> QED BY <1>2, <1>3 DEF Starts

LEMMA CallStepKeeps ==
  ASSUME ToolCatalogAssumption, CallInv, NEW k \in Calls, CallStep(k)
  PROVE  CallInv'
  <1>1. IsManaged(call[k].tool) \/ IsExternal(call[k].tool) => Remote(call[k].tool)
    BY DEF IsManaged, IsExternal, Remote, ToolCatalogAssumption
  <1>2. CASE \E c \in Caps : CallArrives(k, c)
    BY <1>2, CallArrivesKeeps
  <1>3. CASE Starts(k)
    BY <1>3, StartsKeeps
  <1>4. CASE \E o \in {"failed", "denied", "succeeded"}, r \in {"ok", "error"} :
               Ends(k, r, <<o>>) /\ UNCHANGED unknown
    <2>1. \A o \in {"failed", "denied", "succeeded"} : <<o>> \in Seq(Outcomes)
      BY RecordSequences
    <2> QED BY <1>4, <2>1, EndsKeeps
  <1>5. CASE /\ call[k].phase \in InCall /\ Remote(call[k].tool)
             /\ \E outcomes \in {<<>>, <<"failed">>} : Ends(k, "unknown", outcomes)
             /\ unknown' = unknown \cup {call[k].tool}
    BY <1>5, EndsKeeps, RecordSequences
  <1>6. CASE /\ call[k].phase \in InCall /\ UNCHANGED unknown
             /\ \E phase \in InCall : call' = [call EXCEPT ![k].phase = phase]
    BY <1>6, GoesOnKeeps
  <1>7. CASE Authorises(k)
    BY <1>4, <1>6, <1>7 DEF Authorises, InCall
  <1>8. CASE CallsPlatform(k)
    BY <1>4, <1>6, <1>8 DEF CallsPlatform, Sending, Fails, InCall
  <1>9. CASE RefusesManaged(k) \/ SessionFails(k)
    BY <1>4, <1>9 DEF RefusesManaged, SessionFails, Fails
  <1>10. CASE SendsManaged(k) \/ SendsExternal(k)
    BY <1>6, <1>10 DEF SendsManaged, SendsExternal, Sending, Sent, InCall
  <1>11. CASE SlotTimeout(k)
    BY <1>1, <1>5, <1>11 DEF SlotTimeout, Sending, LeavesUnknown, InCall
  <1>12. CASE ManagedAnswers(k) \/ ExternalAnswers(k)
    BY <1>1, <1>4, <1>5, <1>6, <1>12 DEF ManagedAnswers, ExternalAnswers, Fails, LeavesUnknown,
       InCall
  <1>13. CASE Records(k)
    <2>1. CASE Ends(k, "error", <<>>) /\ UNCHANGED unknown
      BY <2>1, EndsKeeps, RecordSequences
    <2> QED BY <1>4, <1>5, <1>13, <2>1 DEF Records, InCall
  <1> QED BY <1>2, <1>3, <1>7, <1>8, <1>9, <1>10, <1>11, <1>12, <1>13 DEF CallStep

LEMMA CancelKeeps ==
  ASSUME CallInv, Cancel
  PROVE  CallInv'
  <1>1. /\ call' = [k \in Calls |-> [call[k] EXCEPT !.phase = IF @ = "idle" THEN @ ELSE "done"]]
        /\ UNCHANGED unknown
    BY DEF Cancel
  <1>2. \A k \in Calls : /\ call'[k] \in OneCall /\ call'[k].tool = call[k].tool
                         /\ call'[k].result = call[k].result
                         /\ call'[k].phase \in {"idle", "done"}
                         /\ call'[k].phase = "idle" => call[k].phase = "idle"
    BY <1>1 DEF CallInv, CallsTyped, OneCall, CallPhases
  <1>3. CallsTyped' /\ Locked(call', unknown')
    BY <1>1, <1>2 DEF CallInv, CallsTyped, Locked, InCall
  <1>4. (\A k \in Calls : call[k].result = "unknown" => call[k].tool \in unknown)'
    BY <1>1, <1>2 DEF CallInv
  <1>5. (\A k \in Calls : call[k].phase \in {"idle", "waiting"} \cup InCall
                            => call[k].result = "none")'
    <2> SUFFICES ASSUME NEW k \in Calls, call'[k].phase \in {"idle", "waiting"} \cup InCall
                 PROVE  call'[k].result = "none"
      OBVIOUS
    <2>1. call[k].phase = "idle" /\ call'[k].result = call[k].result
      BY <1>2 DEF InCall
    <2> QED BY <2>1 DEF CallInv
  <1> QED BY <1>3, <1>4, <1>5 DEF CallInv

-----------------------------------------------------------------------------
(* The theorems *)

(* What a step does not touch *)
LEMMA Apart ==
  ASSUME [Next]_vars
  PROVE  \/ UNCHANGED turnVars
         \/ UNCHANGED catalogVars
  BY DEF Next, vars, Administers, ChangesCapability, ChangesGrants, SyncStep, Resolves, Lists,
     Cancel, CallStep, CallArrives, Starts, Authorises, CallsPlatform, RefusesManaged,
     SendsManaged, Sent, SlotTimeout, SessionFails, SendsExternal, ManagedAnswers,
     ExternalAnswers, Records

LEMMA CatalogStep ==
  ASSUME ToolCatalogAssumption, CatalogInv, [Next]_vars
  PROVE  CatalogInv'
  <1>1. CASE UNCHANGED catalogVars
    BY <1>1, CatalogSame DEF catalogVars
  <1>2. CASE ~UNCHANGED catalogVars
    <2>1. \/ \E s \in Sources : Administers(s)
          \/ \E c \in Caps : ChangesCapability(c)
          \/ ChangesGrants
          \/ \E y \in Syncers : SyncStep(y)
      BY <1>2 DEF Next, vars, Resolves, Lists, Cancel, CallStep, CallArrives, Starts, Authorises,
         CallsPlatform, RefusesManaged, SendsManaged, Sent, SlotTimeout, SessionFails,
         SendsExternal, ManagedAnswers, ExternalAnswers, Records
    <2> QED BY <2>1, AdministersKeeps, ChangesCapabilityKeeps, ChangesGrantsKeeps, SyncStepKeeps
  <1> QED BY <1>1, <1>2

LEMMA CallsStep ==
  ASSUME ToolCatalogAssumption, CallInv, [Next]_vars
  PROVE  CallInv'
  <1>1. CASE UNCHANGED <<call, unknown>>
    BY <1>1 DEF CallInv, CallsTyped
  <1>2. CASE ~UNCHANGED <<call, unknown>>
    <2>1. Cancel \/ \E k \in Calls : CallStep(k)
      BY <1>2 DEF Next, vars, turnVars, Administers, ChangesCapability, ChangesGrants, SyncStep,
         Resolves, Lists
    <2> QED BY <2>1, CancelKeeps, CallStepKeeps
  <1> QED BY <1>1, <1>2

(* Every reachable catalog is typed, and a listing that finds the stamp it read knows the
   endpoint (external_mcp_service.py:153). *)
THEOREM CatalogInvariance ==
  ASSUME ToolCatalogAssumption
  PROVE  Spec => []CatalogInv
  <1>1. Init => CatalogInv
    BY CatalogInitial DEF Init
  <1>2. CatalogInv /\ [Next]_vars => CatalogInv'
    BY CatalogStep
  <1> QED BY <1>1, <1>2, PTL DEF Spec

(* A ready source offers only what its present endpoint has listed
   (external_mcp_service.py:153). *)
THEOREM ReadySourcesListTheirs ==
  ASSUME ToolCatalogAssumption
  PROVE  Spec => []ReadyListsCurrentEndpoint
  <1>1. CatalogInv => ReadyListsCurrentEndpoint
    BY DEF CatalogInv
  <1> QED BY <1>1, CatalogInvariance, PTL

(* No step deletes an external source that a collection has. *)
LEMMA CollectionKeepsStep ==
  ASSUME ToolCatalogAssumption, CatalogInv, [Next]_vars
  PROVE  [\A s \in External : Exists(s) /\ ~Exists(s)' => ~Member(s)]_catalogVars
  <1> SUFFICES ASSUME ~UNCHANGED catalogVars, NEW s \in External, Exists(s), ~Exists(s)'
               PROVE  ~Member(s)
    OBVIOUS
  <1>1. \/ \E q \in Sources : Administers(q)
        \/ \E c \in Caps : ChangesCapability(c)
        \/ ChangesGrants
        \/ \E y \in Syncers : SyncStep(y)
    BY DEF Next, vars, Resolves, Lists, Cancel, CallStep, CallArrives, Starts, Authorises,
       CallsPlatform, RefusesManaged, SendsManaged, Sent, SlotTimeout, SessionFails,
       SendsExternal, ManagedAnswers, ExternalAnswers, Records
  <1>2. /\ source \in [Sources -> SourceRow] /\ s \in Sources /\ s # Platform
        /\ source[s].status # "absent" /\ source'[s].status = "absent"
    BY DEF CatalogInv, CatalogTyped, Sources, ToolCatalogAssumption, Exists
  <1>3. ASSUME NEW q \in Sources, Administers(q) PROVE FALSE
    <2>1. ASSUME NEW e \in Endpoints, NEW st \in {"draft", "ready", "disabled"},
                 source' = [source EXCEPT ![q] = NewSource(q, st, e)]
          PROVE  FALSE
      BY <1>2, <2>1 DEF NewSource
    <2>2. CASE CreateExternal(q)
      BY <2>1, <2>2 DEF CreateExternal
    <2>3. CASE CreateManaged(q) \/ UpdateManaged(q)
      BY <2>1, <2>3 DEF CreateManaged, UpdateManaged, ManagedStatus
    <2>4. CASE UpdateExternal(q)
      <3>1. PICK e \in Endpoints : source' = [source EXCEPT ![q] = Replaced(q, e)]
        BY <2>4 DEF UpdateExternal
      <3>2. source[q] \in SourceRow
        BY <1>2
      <3>3. PICK row : row = Replaced(q, e)
        OBVIOUS
      <3>4. row.status = IF e = source[q].endpoint THEN source[q].status ELSE "draft"
        BY <3>2, <3>3 DEF Replaced, SourceRow
      <3>5. q = s /\ source'[q] = row
        BY <1>2, <3>1, <3>3
      <3> QED BY <1>2, <3>4, <3>5
    <2>5. CASE UpdateCredential(q) \/ ImportCapabilities(q)
      BY <1>2, <2>5 DEF UpdateCredential, ImportCapabilities
    <2> QED BY <1>3, <2>2, <2>3, <2>4, <2>5 DEF Administers
  <1>4. ASSUME NEW c \in Caps, ChangesCapability(c) PROVE FALSE
    BY <1>2, <1>4 DEF ChangesCapability, AddCapability, UpdateCapability, DeleteCapability
  <1>5. CASE ChangesGrants
    BY <1>2, <1>5 DEF ChangesGrants, Seed, CreateCollection, UpdateCollection, DeleteCollection,
       ReplaceGrants
  <1>6. ASSUME NEW y \in Syncers, SyncStep(y) PROVE ~Member(s)
    <2>1. CASE DeleteSource(y)
      <3>1. s = sync[y].on
        BY <1>2, <2>1 DEF DeleteSource
      <3> QED BY <2>1, <3>1 DEF DeleteSource, MemberSeen, ToolCatalogAssumption
    <2>2. CASE ~DeleteSource(y)
      BY <1>2, <1>6, <2>2 DEF SyncStep, BeginSync, BeginDelete, ApplySync, MarkFailed,
         SyncConflict, DeleteEnds, SourceRow
    <2> QED BY <2>1, <2>2
  <1> QED BY <1>1, <1>3, <1>4, <1>5, <1>6

(* An external source is not deleted from under a collection (external_mcp.py:164). *)
THEOREM CollectionsKeepTheirs ==
  ASSUME ToolCatalogAssumption
  PROVE  Spec => CollectionKeepsItsSources
  BY CollectionKeepsStep, CatalogInvariance, PTL DEF Spec, CollectionKeepsItsSources

(* Every reachable turn has one holder of each remote tool, whose earlier calls all have a
   known result (platform_tools.py:230). *)
THEOREM CallInvariance ==
  ASSUME ToolCatalogAssumption
  PROVE  Spec => []CallInv
  <1>1. Init => CallInv
    BY CallsInitial
  <1>2. CallInv /\ [Next]_vars => CallInv'
    BY CallsStep
  <1> QED BY <1>1, <1>2, PTL DEF Spec

(* No step sends a request of a tool whose earlier result is unknown. *)
LEMMA UnknownFinalStep ==
  ASSUME ToolCatalogAssumption, CallInv, [Next]_vars
  PROVE  [\A k, j \in Calls :
            (call[k].phase = "send" /\ call'[k].phase = "sent" /\ call[j].result = "unknown")
              => call[j].tool # call[k].tool]_vars
  <1> SUFFICES ASSUME NEW k \in Calls, NEW j \in Calls, call[k].phase = "send",
                      call'[k].phase = "sent", call[j].result = "unknown"
               PROVE  call[j].tool # call[k].tool
    OBVIOUS
  <1>1. call[j].tool \in unknown
    BY DEF CallInv
  <1>2. Remote(call[k].tool) => call[k].tool \notin unknown
    BY DEF CallInv, Locked, InCall
  <1>3. call \in [Calls -> OneCall]
    BY DEF CallInv, CallsTyped
  <1>4. PICK i \in Calls : CallStep(i)
    <2>1. call' # call
      OBVIOUS
    <2>2. ~Cancel
      BY <1>3 DEF Cancel, OneCall
    <2> QED BY <2>1, <2>2 DEF Next, vars, turnVars, Administers, ChangesCapability,
         ChangesGrants, SyncStep, Resolves, Lists
  <1>5. i = k
    BY <1>3, <1>4 DEF CallStep, CallArrives, Starts, Ends, Authorises, CallsPlatform, Fails,
       RefusesManaged, SendsManaged, Sent, SlotTimeout, LeavesUnknown, SessionFails,
       SendsExternal, ManagedAnswers, ExternalAnswers, Records
  <1>6. SendsManaged(k) \/ SendsExternal(k)
    <2>1. ASSUME NEW r, NEW outcomes, Ends(k, r, outcomes) PROVE FALSE
      <3>1. PICK q : q = [call[k] EXCEPT !.phase = "done", !.result = r,
                                         !.audit = Audited(k, outcomes)]
        OBVIOUS
      <3>2. call[k] \in OneCall /\ call'[k] = q
        BY <1>3, <2>1, <3>1 DEF Ends
      <3>3. q.phase = "done"
        BY <3>1, <3>2 DEF OneCall
      <3> QED BY <3>2, <3>3
    <2>2. ~CallsPlatform(k)
      <3>1. ~(call' = [call EXCEPT ![k].phase = "answered"])
        BY <1>3 DEF OneCall
      <3> QED BY <2>1, <3>1 DEF CallsPlatform, Fails
    <2>3. ~RefusesManaged(k) /\ ~SlotTimeout(k) /\ ~SessionFails(k)
      BY <2>1 DEF RefusesManaged, SlotTimeout, SessionFails, Fails, LeavesUnknown
    <2>4. /\ ~Starts(k) /\ ~Authorises(k) /\ ~ManagedAnswers(k) /\ ~ExternalAnswers(k)
          /\ ~Records(k) /\ \A c \in Caps : ~CallArrives(k, c)
      BY DEF Starts, Authorises, ManagedAnswers, ExternalAnswers, Records, CallArrives
    <2> QED BY <1>4, <1>5, <2>2, <2>3, <2>4 DEF CallStep
  <1>7. Remote(call[k].tool)
    BY <1>6 DEF SendsManaged, SendsExternal, IsManaged, IsExternal, Remote,
       ToolCatalogAssumption
  <1> QED BY <1>1, <1>2, <1>7

(* After a request with an unknown result no request of its tool leaves in the turn
   (platform_tools.py:230). *)
THEOREM UnknownStaysFinal ==
  ASSUME ToolCatalogAssumption
  PROVE  Spec => UnknownIsFinal
  BY UnknownFinalStep, CallInvariance, PTL DEF Spec, UnknownIsFinal

-----------------------------------------------------------------------------
(* Types.  A source is written once for each edit and once more for each listing that was
   begun by an edit, so its stamp and the listings under way together stay within bounds;
   and a call leaves its first record when it takes the tool and its second when it ends. *)

Listing == {y \in Syncers : sync[y].phase = "listing"}

Stamped ==
  /\ edits \in Nat /\ edits <= MaxEdits /\ IsFiniteSet(Listing)
  /\ \A s \in Sources : source[s].stamp + Cardinality(Listing) <= 1 + 2 * edits

Schemed == \A c \in Caps : capability[c].schema \in Schemas
Chosen == collection \in ToolCollection /\ selected \in SelectionRows

CatalogRows ==
  Stamped /\ Schemed /\ Chosen /\ credential \in CredentialRows /\ grants \in GrantRows

Resolved ==
  /\ turn = [phase |-> turn.phase, tools |-> turn.tools]
  /\ turn.phase \in TurnPhases /\ DOMAIN turn.tools \subseteq Caps

Recorded(q) ==
  /\ q.phase \in {"idle", "waiting"} => q.audit = <<>>
  /\ q.phase \in InCall => q.audit = <<"started">>
  /\ q.audit \in {<<>>, <<"started">>} \cup {<<"started", o>> : o \in Outcomes}

CallRows == Resolved /\ \A k \in Calls : Recorded(call[k])

LEMMA CatalogRowsInit ==
  ASSUME ToolCatalogAssumption, CatalogInit
  PROVE  CatalogRows
  <1>1. Listing = {}
    BY DEF Listing, CatalogInit, NoSync
  <1>2. IsFiniteSet(Listing) /\ Cardinality(Listing) = 0
    BY <1>1, FS_EmptySet
  <1>3. Stamped
    BY <1>2 DEF Stamped, CatalogInit, ToolCatalogAssumption
  <1>4. Schemed /\ Chosen
    BY DEF CatalogInit, Schemed, Chosen, ToolCollection, SelectionRows, ToolCatalogAssumption
  <1>5. credential \in CredentialRows /\ grants \in GrantRows
    BY DEF CatalogInit, CredentialRows, GrantRows
  <1> QED BY <1>3, <1>4, <1>5 DEF CatalogRows

(* An edit that leaves the listings alone and writes a source at most once *)
LEMMA EditStamps ==
  ASSUME ToolCatalogAssumption, CatalogInv, CatalogInv', Stamped, Edit, UNCHANGED sync,
         \A s \in Sources : source'[s].stamp <= source[s].stamp + 1
  PROVE  Stamped'
  <1>1. Listing' = Listing
    BY DEF Listing
  <1>2. Cardinality(Listing) \in Nat /\ IsFiniteSet(Listing)
    BY FS_CardinalityType DEF Stamped
  <1>3. edits' = edits + 1 /\ edits \in Nat /\ edits < MaxEdits /\ MaxEdits \in Nat
    BY DEF Edit, Stamped, ToolCatalogAssumption
  <1>4. \A s \in Sources : source[s].stamp \in Nat /\ source'[s].stamp \in Nat
    BY DEF CatalogInv, CatalogTyped, SourceRow
  <1> QED BY <1>1, <1>2, <1>3, <1>4 DEF Stamped

(* A listing ends, and with it at most one write *)
LEMMA EndStamps ==
  ASSUME ToolCatalogAssumption, CatalogInv, CatalogInv', Stamped, NEW y \in Syncers, Done(y),
         UNCHANGED edits,
         \A s \in Sources : \/ source'[s].stamp <= source[s].stamp
                            \/ sync[y].phase = "listing" /\ source'[s].stamp = source[s].stamp + 1
  PROVE  Stamped'
  <1>1. Listing' = Listing \ {y}
    BY DEF Listing, Done, NoSync, CatalogInv, CatalogTyped
  <1>2. /\ Cardinality(Listing) \in Nat /\ IsFiniteSet(Listing) /\ IsFiniteSet(Listing')
        /\ Cardinality(Listing') = IF y \in Listing THEN Cardinality(Listing) - 1
                                   ELSE Cardinality(Listing)
    BY <1>1, FS_CardinalityType, FS_RemoveElement DEF Stamped
  <1>3. \A s \in Sources : source[s].stamp \in Nat /\ source'[s].stamp \in Nat
    BY DEF CatalogInv, CatalogTyped, SourceRow
  <1>4. y \in Listing <=> sync[y].phase = "listing"
    BY DEF Listing
  <1> QED BY <1>2, <1>3, <1>4 DEF Stamped

(* A synchronisation is begun by an edit *)
LEMMA BeginStamps ==
  ASSUME ToolCatalogAssumption, CatalogInv, CatalogInv', Stamped, Edit, UNCHANGED source,
         NEW y, Listing' \subseteq Listing \cup {y}
  PROVE  Stamped'
  <1>1. IsFiniteSet(Listing) /\ Cardinality(Listing) \in Nat
    BY FS_CardinalityType DEF Stamped
  <1>2. IsFiniteSet(Listing \cup {y})
        /\ Cardinality(Listing \cup {y}) \in {Cardinality(Listing), Cardinality(Listing) + 1}
    BY <1>1, FS_AddElement
  <1>3. /\ IsFiniteSet(Listing') /\ Cardinality(Listing') <= Cardinality(Listing \cup {y})
        /\ Cardinality(Listing') \in Nat
    BY <1>2, FS_Subset, FS_CardinalityType
  <1>4. edits' = edits + 1 /\ edits \in Nat /\ edits < MaxEdits /\ MaxEdits \in Nat
    BY DEF Edit, Stamped, ToolCatalogAssumption
  <1>5. \A s \in Sources : source[s].stamp \in Nat
    BY DEF CatalogInv, CatalogTyped, SourceRow
  <1>6. Cardinality(Listing') <= Cardinality(Listing) + 1
    BY <1>1, <1>2, <1>3
  <1> QED BY <1>1, <1>3, <1>4, <1>5, <1>6 DEF Stamped

(* The rows a write leaves *)
LEMMA NewRows ==
  ASSUME ToolCatalogAssumption, CatalogInv, NEW s \in Sources, NEW st, NEW e
  PROVE  /\ NewSource(s, st, e).stamp = source[s].stamp + 1 /\ NewSource(s, st, e).status = st
         /\ Replaced(s, e).stamp = source[s].stamp + 1
         /\ Replaced(s, e).status \in {source[s].status, "draft"}
  BY DEF NewSource, Replaced, CatalogInv, CatalogTyped, SourceRow

LEMMA WrittenIs ==
  ASSUME NEW c, NEW name, NEW schema, NEW on
  PROVE  Written(c, name, schema, on).schema = schema
         /\ Written(c, name, schema, on).status # "absent"
  BY DEF Written

(* One source is written, and none of the rest *)
LEMMA OneSource ==
  ASSUME ToolCatalogAssumption, CatalogInv, CatalogInv', CatalogRows, Edit, NEW s \in Sources,
         NEW row, source' = [source EXCEPT ![s] = row], row.stamp <= source[s].stamp + 1,
         row.status # "absent", credential' \subseteq credential,
         UNCHANGED <<capability, collection, grants, selected, sync>>
  PROVE  CatalogRows'
  <1>1. /\ \A t \in Sources \ {s} : source'[t] = source[t]
        /\ source'[s] = row
    BY DEF CatalogInv, CatalogTyped
  <1>2. \A t \in Sources : source[t].stamp \in Nat
    BY DEF CatalogInv, CatalogTyped, SourceRow
  <1>3. Stamped'
    BY <1>1, <1>2, EditStamps DEF CatalogRows
  <1>4. credential' \in CredentialRows'
    BY <1>1 DEF CatalogRows, CredentialRows
  <1> QED BY <1>3, <1>4 DEF CatalogRows, Schemed, Chosen, GrantRows, SelectionRows

(* Capabilities are written, and none that is granted is taken away *)
LEMMA CapsWritten ==
  ASSUME ToolCatalogAssumption, CatalogInv, CatalogInv', CatalogRows, Edit,
         UNCHANGED <<source, credential, collection, grants, selected, sync>>,
         \A c \in Caps : /\ capability'[c].schema \in Schemas
                         /\ \/ capability[c].status # "absent" => capability'[c].status # "absent"
                            \/ \A t \in Targets : c \notin grants[t]
  PROVE  CatalogRows'
  <1>1. \A t \in Sources : source'[t].stamp <= source[t].stamp + 1
    BY DEF CatalogInv, CatalogTyped, SourceRow
  <1>2. Stamped'
    BY <1>1, EditStamps DEF CatalogRows
  <1>3. grants' \in GrantRows'
    BY DEF CatalogRows, GrantRows
  <1> QED BY <1>2, <1>3 DEF CatalogRows, Schemed, Chosen, CredentialRows, SelectionRows

LEMMA AdministersRows ==
  ASSUME ToolCatalogAssumption, CatalogInv, CatalogInv', CatalogRows, NEW s \in Sources,
         Administers(s)
  PROVE  CatalogRows'
  <1>0. source[s].stamp \in Nat
    BY DEF CatalogInv, CatalogTyped, SourceRow
  <1>1. CASE CreateExternal(s)
    <2>1. PICK e \in Endpoints : source' = [source EXCEPT ![s] = NewSource(s, "draft", e)]
      BY <1>1 DEF CreateExternal
    <2> DEFINE row == NewSource(s, "draft", e)
    <2>2. row.stamp <= source[s].stamp + 1 /\ row.status # "absent"
      BY <1>0, NewRows
    <2> HIDE DEF row
    <2> QED BY <1>1, <2>1, <2>2, OneSource DEF CreateExternal, row
  <1>2. CASE UpdateExternal(s)
    <2>1. PICK e \in Endpoints : source' = [source EXCEPT ![s] = Replaced(s, e)]
                                 /\ credential' \subseteq credential
      BY <1>2 DEF UpdateExternal
    <2> DEFINE row == Replaced(s, e)
    <2>2. row.stamp <= source[s].stamp + 1 /\ row.status # "absent"
      BY <1>0, <1>2, NewRows DEF UpdateExternal, Exists
    <2> HIDE DEF row
    <2> QED BY <1>2, <2>1, <2>2, OneSource DEF UpdateExternal, row
  <1>3. CASE CreateManaged(s) \/ UpdateManaged(s)
    <2>1. PICK e \in Endpoints, st \in ManagedStatus :
            source' = [source EXCEPT ![s] = NewSource(s, st, e)]
            /\ credential' \subseteq credential
      BY <1>3 DEF CreateManaged, UpdateManaged
    <2> DEFINE row == NewSource(s, st, e)
    <2>2. row.stamp <= source[s].stamp + 1 /\ row.status # "absent"
      BY <1>0, NewRows DEF ManagedStatus
    <2> HIDE DEF row
    <2> QED BY <1>3, <2>1, <2>2, OneSource DEF CreateManaged, UpdateManaged, row
  <1>4. CASE UpdateCredential(s)
    <2>1. credential' \in CredentialRows'
      BY <1>4 DEF UpdateCredential, CatalogRows, CredentialRows, Exists
    <2>2. \A t \in Sources : source'[t].stamp <= source[t].stamp + 1
      BY <1>4 DEF UpdateCredential, CatalogInv, CatalogTyped, SourceRow
    <2>3. Stamped'
      BY <1>4, <2>2, EditStamps DEF CatalogRows, UpdateCredential
    <2> QED BY <1>4, <2>1, <2>3 DEF UpdateCredential, CatalogRows, Schemed, Chosen, GrantRows,
         SelectionRows
  <1>5. CASE ImportCapabilities(s)
    <2>1. PICK cs \in SUBSET CapsOf(s) : \E name \in [cs -> Names] :
            capability' = [c \in Caps |->
              IF c \in cs THEN Written(c, name[c], 1, TRUE) ELSE capability[c]]
      BY <1>5 DEF ImportCapabilities
    <2>2. \A c \in Caps : \/ capability'[c] = capability[c]
                         \/ \E name : capability'[c] = Written(c, name, 1, TRUE)
      BY <2>1
    <2>3. ASSUME NEW c \in Caps
          PROVE  /\ capability'[c].schema \in Schemas
                 /\ capability[c].status # "absent" => capability'[c].status # "absent"
      <3>1. CASE capability'[c] = capability[c]
        BY <3>1 DEF CatalogRows, Schemed
      <3>2. ASSUME NEW name, capability'[c] = Written(c, name, 1, TRUE)
            PROVE  capability'[c].schema \in Schemas /\ capability'[c].status # "absent"
        BY <3>2 DEF Written, ToolCatalogAssumption
      <3> QED BY <2>2, <3>1, <3>2
    <2> QED BY <1>5, <2>3, CapsWritten DEF ImportCapabilities
  <1> QED BY <1>1, <1>2, <1>3, <1>4, <1>5 DEF Administers

LEMMA ChangesCapabilityRows ==
  ASSUME ToolCatalogAssumption, CatalogInv, CatalogInv', CatalogRows, NEW c \in Caps,
         ChangesCapability(c)
  PROVE  CatalogRows'
  <1>1. Edit /\ UNCHANGED <<source, credential, collection, grants, selected, sync>>
    BY DEF ChangesCapability, AddCapability, UpdateCapability, DeleteCapability
  <1>2. /\ \A d \in Caps \ {c} : capability'[d] = capability[d]
        /\ capability'[c].schema \in Schemas
        /\ capability'[c].status # "absent" \/ \A t \in Targets : c \notin grants[t]
    <2>1. CASE AddCapability(c) \/ UpdateCapability(c)
      <3>1. PICK name \in Names, schema \in Schemas, on \in BOOLEAN :
              capability' = [capability EXCEPT ![c] = Written(c, name, schema, on)]
        BY <2>1 DEF AddCapability, UpdateCapability
      <3> QED BY <3>1, WrittenIs DEF CatalogInv, CatalogTyped
    <2>2. CASE DeleteCapability(c)
      <3>1. capability' = [capability EXCEPT ![c].status = "absent"]
            /\ \A t \in Targets : c \notin grants[t]
        BY <2>2 DEF DeleteCapability
      <3> QED BY <3>1 DEF CatalogInv, CatalogTyped, CapabilityRow, CatalogRows, Schemed
    <2> QED BY <2>1, <2>2 DEF ChangesCapability
  <1>3. \A d \in Caps : capability[d].schema \in Schemas
    BY DEF CatalogRows, Schemed
  <1> QED BY <1>1, <1>2, <1>3, CapsWritten

LEMMA ChangesGrantsRows ==
  ASSUME ToolCatalogAssumption, CatalogInv, CatalogInv', CatalogRows, ChangesGrants
  PROVE  CatalogRows'
  <1>1. ASSUME Edit, UNCHANGED <<source, sync>> PROVE Stamped'
    <2>1. \A t \in Sources : source'[t].stamp <= source[t].stamp + 1
      BY <1>1 DEF CatalogInv, CatalogTyped, SourceRow
    <2> QED BY <1>1, <2>1, EditStamps DEF CatalogRows
  <1>2. CASE CreateCollection \/ UpdateCollection \/ DeleteCollection
    <2>1. Stamped'
      BY <1>1, <1>2 DEF CreateCollection, UpdateCollection, DeleteCollection
    <2>2. Chosen'
      <3>1. ASSUME NEW ss \in SUBSET (External \cup Managed), NEW b \in BOOLEAN,
                   collection' = [exists |-> b, sources |-> ss], selected' \subseteq Targets
            PROVE  Chosen'
        BY <3>1 DEF Chosen, ToolCollection, SelectionRows
      <3>2. selected \subseteq Targets /\ collection \in ToolCollection
        BY DEF CatalogRows, Chosen, SelectionRows
      <3>3. CASE CreateCollection
        BY <3>1, <3>2, <3>3 DEF CreateCollection, SelectableSources
      <3>4. CASE UpdateCollection
        <4>1. PICK ss \in SUBSET SelectableSources : collection' = [collection EXCEPT !.sources = ss]
          BY <3>4 DEF UpdateCollection
        <4>2. ss \in SUBSET (External \cup Managed)
          BY <4>1 DEF SelectableSources
        <4>3. collection' = [exists |-> collection.exists, sources |-> ss]
          BY <3>2, <4>1 DEF ToolCollection
        <4>4. collection.exists \in BOOLEAN
          BY <3>2 DEF ToolCollection
        <4> QED BY <3>1, <3>2, <3>4, <4>2, <4>3, <4>4 DEF UpdateCollection
      <3>5. CASE DeleteCollection
        BY <3>1, <3>2, <3>5 DEF DeleteCollection
      <3> QED BY <1>2, <3>3, <3>4, <3>5
    <2> QED BY <1>2, <2>1, <2>2 DEF CreateCollection, UpdateCollection, DeleteCollection,
         CatalogRows, Schemed, CredentialRows, GrantRows
  <1>3. CASE Seed
    <2>1. CurrentTime \in Caps /\ Platform \in Sources
      BY DEF CurrentTime, CapsOf, ToolCatalogAssumption, Sources
    <2>2. \A s \in Sources : /\ source'[s].stamp <= source[s].stamp + 1
                             /\ source[s].status # "absent" => source'[s].status # "absent"
      BY <1>3, <2>1 DEF Seed, CatalogInv, CatalogTyped, SourceRow
    <2>3. \A c \in Caps : /\ capability'[c].schema = capability[c].schema
                          /\ capability[c].status # "absent" => capability'[c].status # "absent"
      BY <1>3, <2>1 DEF Seed, CatalogInv, CatalogTyped, CapabilityRow
    <2>4. Stamped'
      BY <1>3, <2>2, EditStamps DEF Seed, CatalogRows
    <2>5. credential' \in CredentialRows' /\ grants' \in GrantRows' /\ Schemed'
      BY <1>3, <2>2, <2>3 DEF Seed, CatalogRows, CredentialRows, GrantRows, Schemed
    <2> QED BY <1>3, <2>4, <2>5 DEF Seed, CatalogRows, Chosen, SelectionRows
  <1>4. ASSUME NEW t \in Targets, ReplaceGrants(t) PROVE CatalogRows'
    <2>0. PICK chosen \in SUBSET {c \in Caps : Offered(c)}, more \in BOOLEAN :
            LET resolved    == Resolve(chosen, more)
                unavailable == chosen \ resolved
            IN  /\ grants' = [grants EXCEPT ![t] = resolved \cup unavailable]
                /\ selected' = IF more THEN selected \cup {t} ELSE selected \ {t}
      BY <1>4 DEF ReplaceGrants
    <2> DEFINE gs == Resolve(chosen, more) \cup (chosen \ Resolve(chosen, more))
    <2>1. /\ gs \subseteq {c \in Caps : capability[c].status # "absent"}
          /\ grants' = [grants EXCEPT ![t] = gs]
          /\ selected' \subseteq selected \cup {t}
      BY <2>0 DEF Resolve, Usable, Offered
    <2> HIDE DEF gs
    <2>2. Stamped' /\ UNCHANGED <<source, credential, capability, collection>>
      BY <1>1, <1>4 DEF ReplaceGrants
    <2>3. grants' \in GrantRows'
      BY <2>1, <2>2 DEF CatalogRows, GrantRows
    <2>4. Chosen'
      BY <2>1, <2>2 DEF CatalogRows, Chosen, SelectionRows
    <2> QED BY <2>2, <2>3, <2>4 DEF CatalogRows, Schemed, CredentialRows
  <1> QED BY <1>2, <1>3, <1>4 DEF ChangesGrants


LEMMA SyncStepRows ==
  ASSUME ToolCatalogAssumption, CatalogInv, CatalogInv', CatalogRows, NEW y \in Syncers, SyncStep(y)
  PROVE  CatalogRows'
  <1>0. /\ sync[y].on \in Sources /\ Stamped
        /\ \A s \in Sources : source[s].stamp \in Nat
    BY DEF CatalogInv, CatalogTyped, Under, SourceRow, CatalogRows
  <1>1. ASSUME NEW s \in Sources, BeginSync(y, s) \/ BeginDelete(y, s) PROVE CatalogRows'
    <2>1. Edit /\ UNCHANGED <<source, credential, capability, collection, grants, selected>>
          /\ \A z \in Syncers \ {y} : sync'[z] = sync[z]
      BY <1>1 DEF BeginSync, BeginDelete, CatalogInv, CatalogTyped
    <2>2. Listing' \subseteq Listing \cup {y}
      BY <2>1 DEF Listing
    <2>3. Stamped'
      BY <1>0, <2>1, <2>2, BeginStamps
    <2> QED BY <2>1, <2>3 DEF CatalogRows, Schemed, Chosen, CredentialRows, GrantRows, SelectionRows
  <1>2. CASE SyncConflict(y) \/ DeleteEnds(y)
    <2>1. Done(y) /\ UNCHANGED <<source, credential, capability, collection, grants, selected, edits>>
      BY <1>2 DEF SyncConflict, DeleteEnds
    <2>2. Stamped'
      BY <1>0, <2>1, EndStamps
    <2> QED BY <2>1, <2>2 DEF CatalogRows, Schemed, Chosen, CredentialRows, GrantRows, SelectionRows
  <1>3. CASE MarkFailed(y)
    <2>1. /\ sync[y].phase = "listing" /\ Done(y) /\ Exists(sync[y].on)
          /\ UNCHANGED <<credential, capability, collection, grants, selected, edits>>
          /\ source' = [source EXCEPT ![sync[y].on].status = "unavailable",
                                      ![sync[y].on].stamp = @ + 1]
      BY <1>3 DEF MarkFailed, SameVersion
    <2>2. \A s \in Sources : /\ source'[s].stamp \in {source[s].stamp, source[s].stamp + 1}
                             /\ source[s].status # "absent" => source'[s].status # "absent"
      BY <1>0, <2>1 DEF CatalogInv, CatalogTyped, SourceRow
    <2>3. Stamped'
      <3>1. \A s \in Sources : source'[s].stamp <= source[s].stamp
                               \/ source'[s].stamp = source[s].stamp + 1
        BY <1>0, <2>2
      <3> QED BY <1>0, <2>1, <3>1, EndStamps
    <2>4. credential' \in CredentialRows'
      BY <2>1, <2>2 DEF CatalogRows, CredentialRows
    <2> QED BY <2>1, <2>3, <2>4 DEF CatalogRows, Schemed, Chosen, GrantRows, SelectionRows
  <1>4. CASE DeleteSource(y)
    <2>1. /\ Done(y) /\ UNCHANGED <<grants, selected, edits>> /\ ~Granted(sync[y].on)
          /\ credential' = credential \ {sync[y].on}
          /\ collection' = [collection EXCEPT !.sources = @ \ {sync[y].on}]
          /\ source' = [source EXCEPT ![sync[y].on] =
                          [NoSource EXCEPT !.stamp = source[sync[y].on].stamp]]
          /\ capability' = [c \in Caps |-> IF SourceOf[c] = sync[y].on
                THEN [capability[c] EXCEPT !.status = "absent"] ELSE capability[c]]
      BY <1>4 DEF DeleteSource
    <2>2. \A s \in Sources : /\ source'[s].stamp = source[s].stamp
                             /\ s # sync[y].on => source'[s] = source[s]
      BY <1>0, <2>1 DEF CatalogInv, CatalogTyped, NoSource
    <2>3. Stamped'
      BY <1>0, <2>1, <2>2, EndStamps
    <2>4. \A c \in Caps : /\ capability'[c].schema = capability[c].schema
                          /\ SourceOf[c] # sync[y].on => capability'[c] = capability[c]
      BY <2>1 DEF CatalogInv, CatalogTyped, CapabilityRow
    <2>5. Schemed' /\ credential' \in CredentialRows'
      BY <2>1, <2>2, <2>4 DEF CatalogRows, Schemed, CredentialRows
    <2>6. grants' \in GrantRows'
      BY <2>1, <2>4 DEF CatalogRows, GrantRows, Granted, CapsOf
    <2>7. Chosen'
      BY <2>1 DEF CatalogRows, Chosen, ToolCollection, SelectionRows
    <2> QED BY <2>3, <2>5, <2>6, <2>7 DEF CatalogRows
  <1>5. CASE ApplySync(y)
    <2>1. /\ sync[y].phase = "listing" /\ Done(y) /\ Exists(sync[y].on)
          /\ UNCHANGED <<credential, collection, grants, selected, edits>>
          /\ source' = [source EXCEPT ![sync[y].on].status = "ready", ![sync[y].on].stamp = @ + 1]
      BY <1>5 DEF ApplySync, SameVersion
    <2>2. PICK found \in [CapsOf(sync[y].on) -> Schemas \cup {0}] :
            capability' = [c \in Caps |-> IF c \in CapsOf(sync[y].on)
                                          THEN Reconciled(c, y, found) ELSE capability[c]]
      BY <1>5 DEF ApplySync
    <2>3. \A s \in Sources : /\ source'[s].stamp \in {source[s].stamp, source[s].stamp + 1}
                             /\ source[s].status # "absent" => source'[s].status # "absent"
      BY <1>0, <2>1 DEF CatalogInv, CatalogTyped, SourceRow
    <2>4. Stamped'
      <3>1. \A s \in Sources : source'[s].stamp <= source[s].stamp
                               \/ source'[s].stamp = source[s].stamp + 1
        BY <1>0, <2>3
      <3> QED BY <1>0, <2>1, <3>1, EndStamps
    <2>5. ASSUME NEW c \in Caps
          PROVE  /\ capability'[c].schema \in Schemas
                 /\ capability[c].status # "absent" => capability'[c].status # "absent"
      <3>1. capability[c] \in CapabilityRow /\ capability[c].schema \in Schemas
        BY DEF CatalogInv, CatalogTyped, CatalogRows, Schemed
      <3>2. CASE c \notin CapsOf(sync[y].on)
        BY <2>2, <3>1, <3>2
      <3>3. CASE c \in CapsOf(sync[y].on)
        <4>1. capability'[c] = Reconciled(c, y, found) /\ (found[c] = 0 \/ found[c] \in Schemas)
          BY <2>2, <3>3
        <4>2. CASE found[c] = 0
          <5>1. capability'[c] =
                  [capability[c] EXCEPT !.status = IF @ = "absent" THEN @ ELSE "unavailable"]
            BY <4>1, <4>2 DEF Reconciled
          <5> QED BY <3>1, <5>1 DEF CapabilityRow
        <4>3. CASE found[c] # 0
          <5>1. \/ capability'[c] = [capability[c] EXCEPT !.status = "unavailable",
                                       !.schema = found[c], !.listed = sync[y].endpoint]
                \/ capability'[c] = [capability[c] EXCEPT !.status = "active",
                                       !.schema = found[c], !.listed = sync[y].endpoint]
            BY <4>1, <4>3 DEF Reconciled
          <5> QED BY <3>1, <4>1, <4>3, <5>1 DEF CapabilityRow
        <4> QED BY <4>2, <4>3
      <3> QED BY <3>2, <3>3
    <2>6. Schemed' /\ credential' \in CredentialRows' /\ grants' \in GrantRows'
      BY <2>1, <2>3, <2>5 DEF CatalogRows, Schemed, CredentialRows, GrantRows
    <2> QED BY <2>1, <2>4, <2>6 DEF CatalogRows, Chosen, SelectionRows
  <1> QED BY <1>1, <1>2, <1>3, <1>4, <1>5 DEF SyncStep

LEMMA CatalogRowsStep ==
  ASSUME ToolCatalogAssumption, CatalogInv, CatalogRows, [Next]_vars
  PROVE  CatalogRows'
  <1>0. CatalogInv'
    BY CatalogStep
  <1>1. CASE UNCHANGED catalogVars
    BY <1>1 DEF catalogVars, CatalogRows, Stamped, Listing, Schemed, Chosen, CredentialRows,
       GrantRows, SelectionRows
  <1>2. CASE ~UNCHANGED catalogVars
    <2>1. \/ \E s \in Sources : Administers(s)
          \/ \E c \in Caps : ChangesCapability(c)
          \/ ChangesGrants
          \/ \E y \in Syncers : SyncStep(y)
      BY <1>2 DEF Next, vars, Resolves, Lists, Cancel, CallStep, CallArrives, Starts, Authorises,
         CallsPlatform, RefusesManaged, SendsManaged, Sent, SlotTimeout, SessionFails,
         SendsExternal, ManagedAnswers, ExternalAnswers, Records
    <2> QED BY <1>0, <2>1, AdministersRows, ChangesCapabilityRows, ChangesGrantsRows, SyncStepRows
  <1> QED BY <1>1, <1>2

-----------------------------------------------------------------------------
LEMMA CallRowsInit ==
  ASSUME ToolCatalogAssumption, Init
  PROVE  CallRows
  BY DEF Init, IdleCall, CallRows, Resolved, Recorded, InCall, TurnPhases

(* A call of which only the records and the phase matter is changed *)
LEMMA OneRecorded ==
  ASSUME CallInv, \A j \in Calls : Recorded(call[j]), NEW k \in Calls, NEW q, Recorded(q),
         call' = [call EXCEPT ![k] = q]
  PROVE  \A j \in Calls : Recorded(call'[j])
  BY DEF CallInv, CallsTyped

LEMMA TwoRecords ==
  ASSUME NEW o \in Outcomes, NEW p \in Outcomes
  PROVE  <<o>> \o <<p>> = <<o, p>>
  <1> DEFINE s == <<o>>
             t == <<p>>
             u == <<o, p>>
  <1>1. /\ s \in Seq(Outcomes) /\ t \in Seq(Outcomes) /\ u \in Seq(Outcomes)
        /\ Len(s) = 1 /\ Len(t) = 1 /\ Len(u) = 2 /\ s[1] = o /\ t[1] = p /\ u[1] = o /\ u[2] = p
    OBVIOUS
  <1> HIDE DEF s, t, u
  <1>2. s \o t \in Seq(Outcomes) /\ Len(s \o t) = 2
    BY <1>1, ConcatProperties
  <1>3. (s \o t)[1] = o /\ (s \o t)[2] = p
    BY <1>1, ConcatProperties
  <1>4. s \o t = u
    BY <1>1, <1>2, <1>3, SeqEqual
  <1> QED BY <1>4 DEF s, t, u

LEMMA EndsRecorded ==
  ASSUME CallInv, \A j \in Calls : Recorded(call[j]), NEW k \in Calls, NEW result, NEW outcomes,
         Ends(k, result, outcomes),
         \/ outcomes = <<>> /\ call[k].phase \in {"waiting"} \cup InCall
         \/ outcomes = <<"started", "failed">> /\ call[k].phase = "waiting"
         \/ (\E o \in Outcomes : outcomes = <<o>>) /\ call[k].phase \in InCall
  PROVE  \A j \in Calls : Recorded(call'[j])
  <1> DEFINE a == Audited(k, outcomes)
             q == [call[k] EXCEPT !.phase = "done", !.result = result, !.audit = a]
  <1>1. call[k] \in OneCall /\ Recorded(call[k])
    BY DEF CallInv, CallsTyped
  <1>2. call' = [call EXCEPT ![k] = q]
    BY DEF Ends, CallInv, CallsTyped
  <1>3. a \in {<<>>, <<"started">>} \cup {<<"started", o>> : o \in Outcomes}
    <2>1. /\ \A o \in Outcomes : <<"started">> \o <<o>> = <<"started", o>>
          /\ <<"started">> \o <<>> = <<"started">> /\ <<>> \o <<>> = <<>>
          /\ <<>> \o <<"started", "failed">> = <<"started", "failed">>
      <3>1. ASSUME NEW o \in Outcomes PROVE <<"started">> \o <<o>> = <<"started", o>>
        <4>1. "started" \in Outcomes
          BY DEF Outcomes
        <4> QED BY <4>1, TwoRecords
      <3>2. <<"started">> \o <<>> = <<"started">>
        OBVIOUS
      <3>3. <<>> \o <<>> = <<>>
        OBVIOUS
      <3>4. <<>> \o <<"started", "failed">> = <<"started", "failed">>
        OBVIOUS
      <3> QED BY <3>1, <3>2, <3>3, <3>4
    <2>2. "failed" \in Outcomes
      BY DEF Outcomes
    <2>3. /\ call[k].phase = "waiting" => call[k].audit = <<>>
          /\ call[k].phase \in InCall => call[k].audit = <<"started">>
      BY <1>1 DEF Recorded
    <2>4. CASE outcomes = <<>> /\ call[k].phase \in {"waiting"} \cup InCall
      BY <2>1, <2>3, <2>4 DEF Audited
    <2>5. CASE outcomes = <<"started", "failed">> /\ call[k].phase = "waiting"
      BY <2>1, <2>2, <2>3, <2>5 DEF Audited
    <2>6. CASE (\E o \in Outcomes : outcomes = <<o>>) /\ call[k].phase \in InCall
      BY <2>1, <2>3, <2>6 DEF Audited
    <2> QED BY <2>4, <2>5, <2>6
  <1> HIDE DEF a
  <1>4. q.phase = "done" /\ q.audit = a
    BY <1>1 DEF OneCall
  <1>5. Recorded(q)
    BY <1>3, <1>4 DEF Recorded, InCall
  <1> HIDE DEF q
  <1> QED BY <1>2, <1>5, OneRecorded

LEMMA CallStepRecorded ==
  ASSUME CallInv, \A j \in Calls : Recorded(call[j]), NEW k \in Calls, CallStep(k)
  PROVE  \A j \in Calls : Recorded(call'[j])
  <1>0. call[k] \in OneCall /\ Recorded(call[k]) /\ {"failed", "denied", "succeeded"} \subseteq Outcomes
    BY DEF CallInv, CallsTyped, Outcomes
  <1>1. ASSUME NEW phase \in InCall, call[k].phase \in InCall, call' = [call EXCEPT ![k].phase = phase]
        PROVE  \A j \in Calls : Recorded(call'[j])
    <2> DEFINE q == [call[k] EXCEPT !.phase = phase]
    <2>1. call' = [call EXCEPT ![k] = q]
      BY <1>1 DEF CallInv, CallsTyped
    <2>2. Recorded(q)
      BY <1>0, <1>1 DEF Recorded, OneCall, InCall
    <2> HIDE DEF q
    <2> QED BY <2>1, <2>2, OneRecorded
  <1>2. ASSUME NEW o \in {"failed", "denied", "succeeded"}, NEW result, Ends(k, result, <<o>>),
               call[k].phase \in InCall
        PROVE  \A j \in Calls : Recorded(call'[j])
    BY <1>0, <1>2, EndsRecorded
  <1>3. ASSUME NEW result, Ends(k, result, <<>>), call[k].phase \in {"waiting"} \cup InCall
        PROVE  \A j \in Calls : Recorded(call'[j])
    BY <1>3, EndsRecorded
  <1>4. ASSUME NEW c \in Caps, CallArrives(k, c) PROVE \A j \in Calls : Recorded(call'[j])
    <2> DEFINE q == [call[k] EXCEPT !.phase = "waiting", !.tool = c]
    <2>1. call' = [call EXCEPT ![k] = q] /\ call[k].phase = "idle"
      BY <1>4 DEF CallArrives, CallInv, CallsTyped
    <2>2. Recorded(q)
      BY <1>0, <2>1 DEF Recorded, OneCall, InCall
    <2> HIDE DEF q
    <2> QED BY <2>1, <2>2, OneRecorded
  <1>5. CASE Starts(k)
    <2>1. call[k].phase = "waiting" /\ call[k].audit = <<>>
      BY <1>0, <1>5 DEF Starts, Recorded
    <2>2. CASE Ends(k, "error", <<>>)
      BY <1>3, <2>1, <2>2
    <2>3. CASE Ends(k, "error", <<"started", "failed">>)
      BY <2>1, <2>3, EndsRecorded
    <2>4. CASE call' = [call EXCEPT ![k].phase = "authorise", ![k].audit = Audited(k, <<"started">>)]
      <3> DEFINE a == Audited(k, <<"started">>)
                 q == [call[k] EXCEPT !.phase = "authorise", !.audit = a]
      <3>1. call' = [call EXCEPT ![k] = q]
        BY <2>4 DEF CallInv, CallsTyped
      <3>2. a = <<"started">>
        BY <2>1 DEF Audited
      <3> HIDE DEF a
      <3>3. Recorded(q)
        BY <1>0, <3>2 DEF Recorded, OneCall, InCall
      <3> HIDE DEF q
      <3> QED BY <3>1, <3>3, OneRecorded
    <2> QED BY <1>5, <2>2, <2>3, <2>4 DEF Starts
  <1>6. CASE Authorises(k)
    BY <1>1, <1>2, <1>6 DEF Authorises, InCall
  <1>7. CASE CallsPlatform(k)
    BY <1>1, <1>2, <1>7 DEF CallsPlatform, Sending, Fails, InCall
  <1>8. CASE RefusesManaged(k) \/ SessionFails(k)
    BY <1>2, <1>8 DEF RefusesManaged, SessionFails, Sending, Fails, InCall
  <1>9. CASE SendsManaged(k) \/ SendsExternal(k)
    BY <1>1, <1>9 DEF SendsManaged, SendsExternal, Sending, Sent, InCall
  <1>10. CASE SlotTimeout(k)
    BY <1>2, <1>10 DEF SlotTimeout, Sending, LeavesUnknown, InCall
  <1>11. CASE ManagedAnswers(k) \/ ExternalAnswers(k)
    BY <1>1, <1>2, <1>11 DEF ManagedAnswers, ExternalAnswers, Fails, LeavesUnknown, InCall
  <1>12. CASE Records(k)
    BY <1>2, <1>3, <1>12 DEF Records, InCall
  <1> QED BY <1>4, <1>5, <1>6, <1>7, <1>8, <1>9, <1>10, <1>11, <1>12 DEF CallStep

LEMMA CancelRecorded ==
  ASSUME CallInv, \A j \in Calls : Recorded(call[j]), Cancel
  PROVE  \A j \in Calls : Recorded(call'[j])
  <1> SUFFICES ASSUME NEW j \in Calls PROVE Recorded(call'[j])
    OBVIOUS
  <1>1. call[j] \in OneCall /\ Recorded(call[j])
    BY DEF CallInv, CallsTyped
  <1>2. call'[j] = [call[j] EXCEPT !.phase = IF @ = "idle" THEN @ ELSE "done"]
    BY DEF Cancel
  <1>3. /\ call'[j].audit = call[j].audit
        /\ call'[j].phase = "done" \/ (call'[j].phase = "idle" /\ call[j].phase = "idle")
    BY <1>1, <1>2 DEF OneCall
  <1> QED BY <1>1, <1>3 DEF Recorded, InCall

LEMMA CallRowsStep ==
  ASSUME ToolCallsAssumption, CallInv, CatalogRows, CallRows, [Next]_vars
  PROVE  CallRows'
  <1>1. \A j \in Calls : Recorded(call'[j])
    <2>1. CASE UNCHANGED call
      BY <2>1 DEF CallRows
    <2>2. CASE ~UNCHANGED call
      <3>1. Cancel \/ \E k \in Calls : CallStep(k)
        BY <2>2 DEF Next, vars, turnVars, Administers, ChangesCapability, ChangesGrants, SyncStep,
           Resolves, Lists
      <3> QED BY <3>1, CancelRecorded, CallStepRecorded DEF CallRows
    <2> QED BY <2>1, <2>2
  <1>2. Resolved'
    <2>1. ASSUME NEW phase \in TurnPhases, turn' = [turn EXCEPT !.phase = phase] PROVE Resolved'
      <3>1. turn' = [phase |-> phase, tools |-> turn.tools]
        BY <2>1 DEF CallRows, Resolved
      <3> QED BY <3>1 DEF CallRows, Resolved
    <2>2. CASE UNCHANGED turn
      BY <2>2 DEF CallRows, Resolved
    <2>3. CASE Resolves
      <3>1. CASE turn' = [phase |-> "listing", tools |-> [c \in grants[Target] |-> Description(c)]]
        <4>1. grants[Target] \subseteq Caps
          BY DEF CatalogRows, GrantRows, ToolCallsAssumption
        <4> QED BY <3>1, <4>1 DEF Resolved, TurnPhases
      <3>2. CASE turn' = [turn EXCEPT !.phase = "refused"]
        BY <2>1, <3>2 DEF TurnPhases
      <3> QED BY <2>3, <3>1, <3>2 DEF Resolves
    <2>4. CASE Lists \/ Cancel
      BY <2>1, <2>4 DEF Lists, Cancel, TurnPhases
    <2>5. CASE ~UNCHANGED turn
      <3>1. Resolves \/ Lists \/ Cancel
        BY <2>5 DEF Next, vars, turnVars, Administers, ChangesCapability, ChangesGrants, SyncStep,
           CallStep, CallArrives, Starts, Authorises, CallsPlatform, RefusesManaged,
           SendsManaged, Sent, SlotTimeout, SessionFails, SendsExternal, ManagedAnswers,
           ExternalAnswers, Records
      <3> QED BY <2>3, <2>4, <3>1
    <2> QED BY <2>2, <2>5
  <1> QED BY <1>1, <1>2 DEF CallRows

LEMMA ToolTypes ==
  ASSUME ToolCallsAssumption, CatalogInv, CallInv, CatalogRows, CallRows
  PROVE  TypeOK
  <1>1. source \in SourceRows
    <2>1. ASSUME NEW s \in Sources PROVE source[s].stamp \in 0 .. 2 * MaxEdits + 2
      <3>1. /\ source[s].stamp \in Nat /\ Cardinality(Listing) \in Nat /\ edits \in Nat
            /\ edits <= MaxEdits /\ source[s].stamp + Cardinality(Listing) <= 1 + 2 * edits
            /\ MaxEdits \in Nat
        BY FS_CardinalityType DEF CatalogRows, Stamped, CatalogInv, CatalogTyped, SourceRow,
           ToolCallsAssumption, ToolCatalogAssumption
      <3> QED BY <3>1
    <2>2. ASSUME NEW s \in Sources PROVE source[s] \in McpSource
      BY <2>1 DEF CatalogInv, CatalogTyped, SourceRow, McpSource
    <2> QED BY <2>2 DEF CatalogInv, CatalogTyped, SourceRows
  <1>2. capability \in CapabilityRows
    <2>1. ASSUME NEW c \in Caps PROVE capability[c] \in ToolCapability
      BY DEF CatalogInv, CatalogTyped, CapabilityRow, ToolCapability, CatalogRows, Schemed
    <2> QED BY <2>1 DEF CatalogInv, CatalogTyped, CapabilityRows
  <1>3. CatalogTypeOK
    BY <1>1, <1>2 DEF CatalogTypeOK, CatalogRows, Chosen, Stamped, ToolCallsAssumption,
       ToolCatalogAssumption
  <1>4. \A k \in Calls :
          /\ call[k].phase \in CallPhases /\ call[k].tool \in Caps /\ call[k].result \in Results
          /\ call[k].audit \in {<<>>, <<"started">>} \cup {<<"started", o>> : o \in Outcomes}
    BY DEF CallInv, CallsTyped, OneCall, CallRows, Recorded
  <1> QED BY <1>3, <1>4 DEF TypeOK, CallRows, Resolved, CallInv, CallsTyped

(* Every variable of the catalog and of the calls has its type, and a call leaves at most two
   records, the first of which says that it started (platform_tools.py:230). *)
THEOREM ToolsTyped ==
  ASSUME ToolCallsAssumption
  PROVE  Spec => []TypeOK
  <1> USE DEF ToolCallsAssumption
  <1>1. Init => CatalogRows /\ CallRows
    BY CatalogRowsInit, CallRowsInit DEF Init
  <1>2. CatalogInv /\ CallInv /\ CatalogRows /\ CallRows /\ [Next]_vars => CatalogRows' /\ CallRows'
    BY CatalogRowsStep, CallRowsStep
  <1>3. CatalogInv /\ CallInv /\ CatalogRows /\ CallRows => TypeOK
    BY ToolTypes
  <1> QED BY <1>1, <1>2, <1>3, CatalogInvariance, CallInvariance, PTL DEF Spec
=============================================================================
