----------------------------- MODULE ToolCatalog -----------------------------
(***************************************************************************)
(* The catalog of tools of a tenant: MCP sources, the capabilities they    *)
(* offer, collections of sources, and the grants that let a conversation   *)
(* or an employee use a capability.  A managed source and its capabilities *)
(* are written by an administrator; what an external source offers is      *)
(* asked of its server, between two transactions.  A source is deleted     *)
(* when nothing refers to it, which is decided by reads of the database's  *)
(* snapshot as well as by row locks.                                       *)
(***************************************************************************)
EXTENDS Naturals, FiniteSets

CONSTANTS
  External, Managed, Platform,  \* sources by type; there is one of the platform
  Caps, SourceOf,               \* capabilities, and the source of each
  Names,                        \* names a source gives its tools
  Schemas, Endpoints,
  Targets,                      \* conversations and employees
  Syncers,                      \* requests that synchronise or delete a source
  MaxEdits                      \* bound on writes to the catalog

Sources == External \cup Managed \cup {Platform}
CapsOf(s) == {c \in Caps : SourceOf[c] = s}
CurrentTime == CHOOSE c \in Caps : SourceOf[c] = Platform

ToolCatalogAssumption ==
  /\ External \cap Managed = {} /\ Platform \notin External \cup Managed
  /\ SourceOf \in [Caps -> Sources] /\ CapsOf(Platform) # {}
  /\ MaxEdits \in Nat /\ Schemas \subseteq Nat \ {0} /\ 1 \in Schemas /\ 1 \in Endpoints
  /\ Names # {}

VARIABLES
  source,      \* the row of each source
  credential,  \* the sources with a stored credential
  capability,  \* the row of each capability
  collection,  \* the one collection: whether it exists, and its sources
  grants,      \* for each target the capabilities it may use
  selected,    \* the targets that selected the collection
  sync,        \* synchronisations and deletions under way
  edits

catalogVars ==
  <<source, credential, capability, collection, grants, selected, sync, edits>>

-----------------------------------------------------------------------------
(* Rows *)

SourceStatus     == {"absent", "draft", "ready", "unavailable", "disabled"}
CapabilityStatus == {"absent", "active", "unavailable", "disabled"}

(* stamp stands for updated_at: every write of the row gives a later one *)
McpSource == [status : SourceStatus, endpoint : Endpoints, stamp : 0 .. 2 * MaxEdits + 2]

(* listed is not stored: the endpoint that last listed the capability *)
ToolCapability ==
  [status : CapabilityStatus, name : Names, schema : Schemas, listed : Endpoints]

ToolCollection == [exists : BOOLEAN, sources : SUBSET (External \cup Managed)]

SourceRows     == [Sources -> McpSource]
CredentialRows == SUBSET {s \in Sources : source[s].status # "absent"}
CapabilityRows == [Caps -> ToolCapability]
GrantRows      == [Targets -> SUBSET {c \in Caps : capability[c].status # "absent"}]
SelectionRows  == SUBSET Targets

NoSource == [status |-> "absent", endpoint |-> 1, stamp |-> 0]

Exists(s)     == source[s].status # "absent"
Offered(c)    == capability[c].status # "absent"
Member(s)     == collection.exists /\ s \in collection.sources
Granted(s)    == \E t \in Targets : grants[t] \cap CapsOf(s) # {}

(* Names are unique within a source *)
NameTaken(s, name, but) ==
  \E c \in CapsOf(s) \ but : Offered(c) /\ capability[c].name = name

Usable(c) == capability[c].status = "active" /\ source[SourceOf[c]].status = "ready"

Edit == edits < MaxEdits /\ edits' = edits + 1

-----------------------------------------------------------------------------
(* Sources *)

(* A new row is never taken for a deleted one *)
NewSource(s, st, e) == [status |-> st, endpoint |-> e, stamp |-> source[s].stamp + 1]
ManagedStatus == {"ready", "disabled"}

CreateExternal(s) ==
  /\ Edit /\ s \in External /\ ~Exists(s)
  /\ \E e \in Endpoints : source' = [source EXCEPT ![s] = NewSource(s, "draft", e)]
  /\ UNCHANGED <<credential, capability, collection, grants, selected, sync>>

Replaced(s, e) ==
  [source[s] EXCEPT !.status = IF e = source[s].endpoint THEN @ ELSE "draft",
                    !.endpoint = e, !.stamp = @ + 1]

(* The credential belongs to the endpoint *)
UpdateExternal(s) ==
  /\ Edit /\ s \in External /\ Exists(s)
  /\ \E e \in Endpoints :
       /\ source' = [source EXCEPT ![s] = Replaced(s, e)]
       /\ credential' = IF e = source[s].endpoint THEN credential ELSE credential \ {s}
  /\ UNCHANGED <<capability, collection, grants, selected, sync>>

CreateManaged(s) ==
  /\ Edit /\ s \in Managed /\ ~Exists(s)
  /\ \E e \in Endpoints, st \in ManagedStatus :
       source' = [source EXCEPT ![s] = NewSource(s, st, e)]
  /\ UNCHANGED <<credential, capability, collection, grants, selected, sync>>

UpdateManaged(s) ==
  /\ Edit /\ s \in Managed /\ Exists(s)
  /\ \E e \in Endpoints, st \in ManagedStatus :
       /\ source' = [source EXCEPT ![s] = NewSource(s, st, e)]
       /\ credential' = IF e = source[s].endpoint THEN credential ELSE credential \ {s}
  /\ UNCHANGED <<capability, collection, grants, selected, sync>>

(* keep changes nothing, the platform's source has no credential *)
UpdateCredential(s) ==
  /\ Edit /\ Exists(s)
  /\ \/ credential' = credential \ {s}
     \/ s # Platform /\ credential' = credential \cup {s}
  /\ UNCHANGED <<source, capability, collection, grants, selected, sync>>

(* At startup the platform's rows are brought to what the code says *)
Seed ==
  /\ Edit
  /\ source' = [source EXCEPT ![Platform] =
       [status |-> "ready", endpoint |-> 1,
        stamp |-> IF @.status = "ready" THEN @.stamp ELSE @.stamp + 1]]
  /\ capability' = [capability EXCEPT ![CurrentTime].status = "active"]
  /\ UNCHANGED <<credential, collection, grants, selected, sync>>

-----------------------------------------------------------------------------
(* Capabilities of a managed source *)

Written(c, name, schema, on) ==
  [status |-> IF on THEN "active" ELSE "disabled", name |-> name, schema |-> schema,
   listed |-> 1]

AddCapability(c) ==
  /\ Edit /\ SourceOf[c] \in Managed /\ Exists(SourceOf[c]) /\ ~Offered(c)
  /\ \E name \in Names, schema \in Schemas, on \in BOOLEAN :
       /\ ~NameTaken(SourceOf[c], name, {})
       /\ capability' = [capability EXCEPT ![c] = Written(c, name, schema, on)]
  /\ UNCHANGED <<source, credential, collection, grants, selected, sync>>

(* All the operations chosen from an OpenAPI document, or none *)
ImportCapabilities(s) ==
  /\ Edit /\ s \in Managed /\ Exists(s)
  /\ \E cs \in SUBSET {c \in CapsOf(s) : ~Offered(c)} :
       \E name \in [cs -> Names] :
         /\ cs # {}
         /\ \A c \in cs : ~NameTaken(s, name[c], {})
         /\ \A c, d \in cs : name[c] = name[d] => c = d
         /\ capability' = [c \in Caps |->
              IF c \in cs THEN Written(c, name[c], 1, TRUE) ELSE capability[c]]
  /\ UNCHANGED <<source, credential, collection, grants, selected, sync>>

UpdateCapability(c) ==
  /\ Edit /\ SourceOf[c] \in Managed /\ Offered(c)
  /\ \E name \in Names, schema \in Schemas, on \in BOOLEAN :
       /\ ~NameTaken(SourceOf[c], name, {c})
       /\ capability' = [capability EXCEPT ![c] = Written(c, name, schema, on)]
  /\ UNCHANGED <<source, credential, collection, grants, selected, sync>>

DeleteCapability(c) ==
  /\ Edit /\ SourceOf[c] \in Managed /\ Offered(c)
  /\ \A t \in Targets : c \notin grants[t]
  /\ capability' = [capability EXCEPT ![c].status = "absent"]
  /\ UNCHANGED <<source, credential, collection, grants, selected, sync>>

-----------------------------------------------------------------------------
(* Collections and grants *)

(* An association with a deleted source fails on its foreign key *)
SelectableSources == {s \in External \cup Managed : Exists(s)}

CreateCollection ==
  /\ Edit /\ ~collection.exists
  /\ \E ss \in SUBSET SelectableSources \ {{}} :
       collection' = [exists |-> TRUE, sources |-> ss]
  /\ UNCHANGED <<source, credential, capability, grants, selected, sync>>

UpdateCollection ==
  /\ Edit /\ collection.exists
  /\ \E ss \in SUBSET SelectableSources \ {{}} :
       collection' = [collection EXCEPT !.sources = ss]
  /\ UNCHANGED <<source, credential, capability, grants, selected, sync>>

DeleteCollection ==
  /\ Edit /\ collection.exists
  /\ collection' = [exists |-> FALSE, sources |-> {}]
  /\ selected' = {}
  /\ UNCHANGED <<source, credential, capability, grants, sync>>

(* What a selection comes to: the usable capabilities among those chosen and
   those of the chosen collection's sources *)
Resolve(chosen, withCollection) ==
  {c \in Caps : Usable(c) /\ (c \in chosen \/ (withCollection /\ Member(SourceOf[c])))}

(* A grant that has become unusable may be kept, never added *)
ReplaceGrants(t) ==
  /\ Edit
  /\ \E chosen \in SUBSET {c \in Caps : Offered(c)}, withCollection \in BOOLEAN :
       LET resolved    == Resolve(chosen, withCollection)
           unavailable == chosen \ resolved
       IN  /\ withCollection => collection.exists
           /\ unavailable \subseteq grants[t]
           /\ grants' = [grants EXCEPT ![t] = resolved \cup unavailable]
           /\ selected' = IF withCollection THEN selected \cup {t} ELSE selected \ {t}
  /\ UNCHANGED <<source, credential, capability, collection, sync>>

AuthorizedRuntimeCapabilities(t, cs) ==
  cs \subseteq grants[t] /\ \A c \in cs : Usable(c)

-----------------------------------------------------------------------------
(* Synchronisation of an external source *)

NoSync == [op |-> "none", phase |-> "idle", on |-> Platform, before |-> 0, endpoint |-> 1,
           seen |-> FALSE]

(* The snapshot is read, and the server asked outside of any transaction *)
BeginSync(y, s) ==
  /\ Edit /\ sync[y].phase = "idle" /\ s \in External
  /\ source[s].status \in {"draft", "ready", "unavailable"}
  /\ sync' = [sync EXCEPT ![y] = [@ EXCEPT !.op = "sync", !.phase = "listing", !.on = s,
                                           !.before = source[s].stamp,
                                           !.endpoint = source[s].endpoint]]
  /\ UNCHANGED <<source, credential, capability, collection, grants, selected>>

Done(y) == sync' = [sync EXCEPT ![y] = NoSync]

(* Slip: the state read before the call is taken to be current *)
AnyVersion(y) == Exists(sync[y].on)

SameVersion(y) == Exists(sync[y].on) /\ source[sync[y].on].stamp = sync[y].before

(* found gives the schema of each tool the server listed, 0 if it listed none *)
Reconciled(c, y, found) ==
  LET row == capability[c]
  IN  CASE found[c] = 0 -> [row EXCEPT !.status = IF @ = "absent" THEN @ ELSE "unavailable"]
        [] found[c] # 0 /\ row.status # "absent" /\ row.schema # found[c] ->
             [row EXCEPT !.status = "unavailable", !.schema = found[c],
                         !.listed = sync[y].endpoint]
        [] OTHER -> [row EXCEPT !.status = "active", !.schema = found[c],
                                !.listed = sync[y].endpoint]

ApplySync(y) ==
  LET s == sync[y].on
  IN  /\ sync[y].phase = "listing" /\ SameVersion(y)
      /\ \E found \in [CapsOf(s) -> Schemas \cup {0}] :
           capability' = [c \in Caps |->
             IF c \in CapsOf(s) THEN Reconciled(c, y, found) ELSE capability[c]]
      /\ source' = [source EXCEPT ![s].status = "ready", ![s].stamp = @ + 1]
      /\ Done(y)
      /\ UNCHANGED <<credential, collection, grants, selected, edits>>

(* The server cannot be asked *)
MarkFailed(y) ==
  LET s == sync[y].on
  IN  /\ sync[y].phase = "listing" /\ SameVersion(y)
      /\ source' = [source EXCEPT ![s].status = "unavailable", ![s].stamp = @ + 1]
      /\ Done(y)
      /\ UNCHANGED <<credential, capability, collection, grants, selected, edits>>

SyncConflict(y) ==
  /\ sync[y].phase = "listing" /\ ~SameVersion(y)
  /\ Done(y)
  /\ UNCHANGED <<source, credential, capability, collection, grants, selected, edits>>

-----------------------------------------------------------------------------
(* Deletion of a source *)

(* The first read of the transaction is an ordinary one for a managed source,
   and fixes what every later ordinary read sees *)
BeginDelete(y, s) ==
  /\ Edit /\ sync[y].phase = "idle" /\ s \in External \cup Managed /\ Exists(s)
  /\ sync' = [sync EXCEPT ![y] = [@ EXCEPT !.op = "delete", !.phase = "deleting", !.on = s,
                                           !.seen = Member(s)]]
  /\ UNCHANGED <<source, credential, capability, collection, grants, selected>>

(* Slip: an external source is read before it is locked *)
ReadBeforeLock(y) == sync[y].seen

(* Whether the check of the references finds the collection's.  An external
   source is locked by the first read, so the check sees what the lock keeps *)
MemberSeen(y) == IF sync[y].on \in Managed THEN sync[y].seen ELSE Member(sync[y].on)

(* Grants restrict the delete; capabilities, the credential and the collection's
   associations go with the source *)
DeleteSource(y) ==
  LET s == sync[y].on
  IN  /\ sync[y].phase = "deleting" /\ Exists(s) /\ ~MemberSeen(y) /\ ~Granted(s)
      /\ source' = [source EXCEPT ![s] = [NoSource EXCEPT !.stamp = source[s].stamp]]
      /\ credential' = credential \ {s}
      /\ capability' = [c \in Caps |->
           IF SourceOf[c] = s THEN [capability[c] EXCEPT !.status = "absent"] ELSE capability[c]]
      /\ collection' = [collection EXCEPT !.sources = @ \ {s}]
      /\ Done(y)
      /\ UNCHANGED <<grants, selected, edits>>

(* Something refers to the source, or it is gone *)
DeleteEnds(y) ==
  /\ sync[y].phase = "deleting"
  /\ ~Exists(sync[y].on) \/ MemberSeen(y) \/ Granted(sync[y].on)
  /\ Done(y)
  /\ UNCHANGED <<source, credential, capability, collection, grants, selected, edits>>

-----------------------------------------------------------------------------
(* A tenant whose catalog is in use *)
CatalogInit ==
  /\ source = [s \in Sources |->
       [status |-> IF s \in External THEN "draft" ELSE "ready", endpoint |-> 1, stamp |-> 1]]
  /\ credential = {}
  /\ capability = [c \in Caps |->
       [status |-> IF SourceOf[c] = Platform THEN "active" ELSE "absent",
        name |-> CHOOSE n \in Names : TRUE, schema |-> 1, listed |-> 1]]
  /\ collection = [exists |-> FALSE, sources |-> {}]
  /\ grants = [t \in Targets |-> {}] /\ selected = {}
  /\ sync = [y \in Syncers |-> NoSync]
  /\ edits = 0

CatalogTypeOK ==
  /\ source \in SourceRows /\ credential \in CredentialRows
  /\ capability \in CapabilityRows /\ collection \in ToolCollection
  /\ grants \in GrantRows /\ selected \in SelectionRows
  /\ edits \in 0 .. MaxEdits

(* Whatever administrators change while the server is being asked, a source
   that is ready offers only what its present endpoint has listed
   (external_mcp_service.py:153). *)
ReadyListsCurrentEndpoint ==
  \A c \in Caps : SourceOf[c] \in External /\ Usable(c)
                    => capability[c].listed = source[SourceOf[c]].endpoint

(* A source loses its place in a collection only when the collection is
   changed: an external source is not deleted from under one that was given it
   while the delete was under way (external_mcp.py:164). *)
CollectionKeepsItsSources ==
  [][\A s \in External : Exists(s) /\ ~Exists(s)' => ~Member(s)]_catalogVars

=============================================================================
