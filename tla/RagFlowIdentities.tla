--------------------------- MODULE RagFlowIdentities ---------------------------
(***************************************************************************)
(* Every tenant has an account of its own in RAGFlow.  A process that needs *)
(* it, at its start, for a new tenant or for a request, reserves a row,     *)
(* registers or adopts the account, configures its models, takes a token    *)
(* and activates the row.  Each step is a call that may fail, the process   *)
(* may die between two of them, and whoever needs the account next starts   *)
(* again.                                                                   *)
(***************************************************************************)
EXTENDS Naturals, Sequences, SequencesExt

CONSTANTS
  Tenants,
  Default,      \* DEFAULT_TENANT_ID
  Legacy,       \* does the default tenant have an account and a key from before?
  Processes,
  Keys,         \* the key ids of the cipher, in the order they become active
  MaxFaults,
  Nobody

RagFlowIdentitiesAssumption ==
  /\ Default \in Tenants /\ Legacy \in BOOLEAN /\ Nobody \notin Processes
  /\ Keys \in Seq(STRING) /\ Keys # <<>> /\ MaxFaults \in Nat

VARIABLES
  identity,   \* ragflow_tenant_identities
  account,    \* RAGFlow: the account of each tenant
  ensuring,   \* what each process does
  lock,       \* who holds the lock of each tenant's identity
  active,     \* active_key_id, by its place in Keys
  drops,      \* locks lost with their connection
  faults

vars == <<identity, account, ensuring, lock, active, drops, faults>>

-----------------------------------------------------------------------------
(* Rows.  Accounts are named after their tenant, passwords after the tenant and
   the key they are derived with *)
Parts == <<"provider", "embedding", "rerank", "defaults">>
NoKey == "none"
LegacyPassword == "legacy"

Account == [exists : BOOLEAN, password : {LegacyPassword, NoKey} \cup ToSet(Keys),
            configured : 0 .. Len(Parts), tokens : Nat]
NoAccount == [exists |-> FALSE, password |-> NoKey, configured |-> 0, tokens |-> 0]
LegacyAccount == [NoAccount EXCEPT !.exists = TRUE, !.password = LegacyPassword, !.tokens = 1]

RagFlowTenantIdentityRow ==
  [status : {"none", "provisioning", "active"}, key : {NoKey} \cup ToSet(Keys),
   sealed : {NoKey} \cup ToSet(Keys), token : Nat]
NoIdentity == [status |-> "none", key |-> NoKey, sealed |-> NoKey, token |-> 0]

IsActive(t) == identity[t].status = "active"

-----------------------------------------------------------------------------
(* A process *)
Stages == {"idle", "lock", "get", "reserve", "register", "login", "adopt", "configure",
           "tokens", "create", "activate"}

(* key is the reserved row's; the legacy key, if it is known, is token 1 *)
IdleProcess == [stage |-> "idle", tenant |-> Default, adopting |-> FALSE, key |-> NoKey, token |-> 0]

At(p, stage) == ensuring[p].stage = stage
Tenant(p) == ensuring[p].tenant
Own(p) == account[Tenant(p)]
Set(p, e) == ensuring' = [ensuring EXCEPT ![p] = e]
Goes(p, stage) == Set(p, [ensuring[p] EXCEPT !.stage = stage])

(* The named lock goes with its holder's connection *)
Released(p) == [t \in Tenants |-> IF lock[t] = p THEN Nobody ELSE lock[t]]
Ends(p) == Set(p, IdleProcess) /\ lock' = Released(p)

Needs(p, t) ==
  /\ At(p, "idle") /\ ~IsActive(t)
  /\ Set(p, [IdleProcess EXCEPT !.stage = "lock", !.tenant = t])
  /\ UNCHANGED <<identity, account, lock, active, drops, faults>>

TakesLock(p) ==
  /\ At(p, "lock") /\ lock[Tenant(p)] = Nobody
  /\ lock' = [lock EXCEPT ![Tenant(p)] = p]
  /\ Goes(p, "get")
  /\ UNCHANGED <<identity, account, active, drops, faults>>

(* Adoption is for the default tenant's very first row *)
Gets(p) ==
  LET row == identity[Tenant(p)] IN
  /\ At(p, "get") /\ row.status # "active"
  /\ Set(p, IF row.status = "none"
            THEN [ensuring[p] EXCEPT !.stage = "reserve",
                                     !.adopting = Legacy /\ Tenant(p) = Default]
            ELSE [ensuring[p] EXCEPT !.stage = "register", !.key = row.key])
  /\ UNCHANGED <<identity, account, lock, active, drops, faults>>

FindsActive(p) ==
  /\ At(p, "get") /\ IsActive(Tenant(p))
  /\ Ends(p)
  /\ UNCHANGED <<identity, account, active, drops, faults>>

(* Whatever the insertion did, the row that is there counts *)
Reserves(p) ==
  LET t == Tenant(p)
      row == IF identity[t].status # "none" THEN identity[t]
             ELSE [NoIdentity EXCEPT !.status = "provisioning", !.key = Keys[active]]
  IN  /\ At(p, "reserve")
      /\ identity' = [identity EXCEPT ![t] = row]
      /\ Set(p, [ensuring[p] EXCEPT !.key = row.key,
                   !.stage = IF ensuring[p].adopting THEN "adopt" ELSE "register"])
      /\ UNCHANGED <<account, lock, active, drops, faults>>

-----------------------------------------------------------------------------
(* RAGFlow *)
DerivedWithActiveKey(p) == Keys[active]
AccountPassword(p) == ensuring[p].key

Changed(p, a) == account' = [account EXCEPT ![Tenant(p)] = a]

(* An account that is registered already is taken for ours *)
Registers(p) ==
  /\ At(p, "register")
  /\ Changed(p, IF Own(p).exists THEN Own(p)
                ELSE [NoAccount EXCEPT !.exists = TRUE, !.password = AccountPassword(p)])
  /\ Goes(p, "login")
  /\ UNCHANGED <<identity, lock, active, drops, faults>>

LogsIn(p) ==
  /\ At(p, "login") /\ Own(p).password = AccountPassword(p)
  /\ Goes(p, "configure")
  /\ UNCHANGED <<identity, account, lock, active, drops, faults>>

LoginFails(p) ==
  /\ At(p, "login") /\ Own(p).password # AccountPassword(p)
  /\ Ends(p)
  /\ UNCHANGED <<identity, account, active, drops, faults>>

(* The legacy key opens the account; its password is changed unless it is the
   derived one already, and a third one would be an error *)
Adopts(p) ==
  /\ At(p, "adopt")
  /\ Changed(p, [Own(p) EXCEPT !.password = AccountPassword(p)])
  /\ Set(p, [ensuring[p] EXCEPT !.stage = "configure", !.token = 1])
  /\ UNCHANGED <<identity, lock, active, drops, faults>>

(* What is there is left alone; the defaults are set in any case *)
Configures(p) ==
  /\ At(p, "configure")
  /\ IF Own(p).configured < Len(Parts)
     THEN /\ Changed(p, [Own(p) EXCEPT !.configured = @ + 1])
          /\ UNCHANGED ensuring
     ELSE Goes(p, "tokens") /\ UNCHANGED account
  /\ UNCHANGED <<identity, lock, active, drops, faults>>

(* The token at hand if it is valid, else one that is listed, else a new one *)
AlwaysNew(p) == ensuring[p].token
TokenAtHand(p) == IF ensuring[p].token # 0 THEN ensuring[p].token ELSE Own(p).tokens

TakesToken(p) ==
  /\ At(p, "tokens")
  /\ Set(p, [ensuring[p] EXCEPT !.token = TokenAtHand(p),
                                !.stage = IF TokenAtHand(p) # 0 THEN "activate" ELSE "create"])
  /\ UNCHANGED <<identity, account, lock, active, drops, faults>>

CreatesToken(p) ==
  /\ At(p, "create")
  /\ Changed(p, [Own(p) EXCEPT !.tokens = @ + 1])
  /\ Set(p, [ensuring[p] EXCEPT !.token = Own(p).tokens + 1, !.stage = "activate"])
  /\ UNCHANGED <<identity, lock, active, drops, faults>>

-----------------------------------------------------------------------------
(* The row is locked and must be the one reserved.  The token is sealed with the
   key that is active now; the row goes on naming the reserved one *)
Activates(p) ==
  LET t == Tenant(p) IN
  /\ At(p, "activate") /\ identity[t].key = ensuring[p].key
  /\ identity' = [identity EXCEPT ![t] = [@ EXCEPT !.status = "active", !.token = ensuring[p].token,
                                                 !.sealed = Keys[active]]]
  /\ Ends(p)
  /\ UNCHANGED <<account, active, drops, faults>>

-----------------------------------------------------------------------------
(* RAGFlow does not answer, or the lock does not come in time *)
Fails(p) ==
  /\ ensuring[p].stage \notin {"idle", "get"}
  /\ faults < MaxFaults /\ faults' = faults + 1
  /\ Ends(p)
  /\ UNCHANGED <<identity, account, active, drops>>

(* A call that was carried out though its answer was lost, or a process that
   dies after it *)
LosesAnswer(p) ==
  /\ ensuring[p].stage \in {"register", "adopt", "configure", "create"}
  /\ faults < MaxFaults /\ faults' = faults + 1
  /\ Changed(p,
       IF At(p, "register") /\ ~Own(p).exists
       THEN [NoAccount EXCEPT !.exists = TRUE, !.password = AccountPassword(p)]
       ELSE IF At(p, "adopt") /\ Own(p).password = LegacyPassword
       THEN [Own(p) EXCEPT !.password = AccountPassword(p)]
       ELSE IF At(p, "configure") /\ Own(p).configured < Len(Parts)
       THEN [Own(p) EXCEPT !.configured = @ + 1]
       ELSE IF At(p, "create") THEN [Own(p) EXCEPT !.tokens = @ + 1]
       ELSE Own(p))
  /\ Ends(p)
  /\ UNCHANGED <<identity, active, drops>>

(* The lock's connection is dropped; its holder does not notice *)
LosesLock(p) ==
  /\ \E t \in Tenants : lock[t] = p
  /\ faults < MaxFaults /\ faults' = faults + 1
  /\ lock' = Released(p) /\ drops' = drops + 1
  /\ UNCHANGED <<identity, account, ensuring, active>>

(* The processes are started again with another active key; no key is dropped
   from the ring *)
Rotates ==
  /\ active < Len(Keys) /\ active' = active + 1
  /\ \A p \in Processes : At(p, "idle")
  /\ UNCHANGED <<identity, account, ensuring, lock, drops, faults>>

Init ==
  /\ identity = [t \in Tenants |-> NoIdentity]
  /\ account = [t \in Tenants |-> IF Legacy /\ t = Default THEN LegacyAccount ELSE NoAccount]
  /\ ensuring = [p \in Processes |-> IdleProcess]
  /\ lock = [t \in Tenants |-> Nobody]
  /\ active = 1 /\ drops = 0 /\ faults = 0

ProcessStep(p) ==
  \/ \E t \in Tenants : Needs(p, t)
  \/ TakesLock(p) \/ Gets(p) \/ FindsActive(p) \/ Reserves(p)
  \/ Registers(p) \/ LogsIn(p) \/ LoginFails(p) \/ Adopts(p)
  \/ Configures(p) \/ TakesToken(p) \/ CreatesToken(p) \/ Activates(p)
  \/ Fails(p) \/ LosesAnswer(p) \/ LosesLock(p)

Next == Rotates \/ \E p \in Processes : ProcessStep(p)

Spec == Init /\ [][Next]_vars

-----------------------------------------------------------------------------
(* Every variable has its type. *)
TypeOK ==
  /\ identity \in [Tenants -> RagFlowTenantIdentityRow]
  /\ \A t \in Tenants : account[t] \in Account
  /\ \A p \in Processes : ensuring[p].stage \in Stages
  /\ lock \in [Tenants -> Processes \cup {Nobody}]

(* However often an initialisation is broken off and begun again, by whichever
   process and with whichever key, the account opens with the password of the
   reserved row, or has its old one yet; an active row's account is configured
   and the token is one of its own; and no attempt leaves a token behind that
   the next one does not take, unless a lock was lost (ragflow_identity.py:136). *)
RetriesConverge ==
  \A t \in Tenants :
    /\ identity[t].status # "none" /\ account[t].exists =>
         account[t].password = identity[t].key \/ (Legacy /\ t = Default /\ account[t].password = LegacyPassword)
    /\ IsActive(t) => account[t].configured = Len(Parts) /\ identity[t].token \in 1 .. account[t].tokens
    /\ account[t].tokens <= 1 + drops

=============================================================================
