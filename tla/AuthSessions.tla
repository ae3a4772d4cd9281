----------------------------- MODULE AuthSessions -----------------------------
(***************************************************************************)
(* Accounts, recovery codes, login attempts and sessions: the rows the API  *)
(* processes share, and the requests that change them.  A request reads the *)
(* clock once, when it arrives, and hashes or verifies a password between   *)
(* two transactions, so its time may be old when it writes.                 *)
(***************************************************************************)
EXTENDS Naturals, FiniteSets, FiniteSetsExt

CONSTANTS
  Users,         \* normalised email addresses
  Registered,    \* those that have an account initially
  Codes,         \* recovery codes an account is given
  Requests,      \* requests; the session one issues bears its name
  MaxAttempts,   \* login_max_attempts
  Window,        \* login_window_seconds
  Idle,          \* session_idle_seconds
  Absolute,      \* session_absolute_seconds
  MaxTime        \* bound on the clock

(* The settings ask for three attempts; the first failure of a window never locks *)
AuthSessionsAssumption ==
  /\ Users # {} /\ Registered \subseteq Users
  /\ IsFiniteSet(Codes) /\ IsFiniteSet(Requests)
  /\ MaxAttempts \in Nat \ {0, 1} /\ Window \in Nat \ {0} /\ MaxTime \in Nat
  /\ Idle \in Nat \ {0} /\ Absolute \in Nat /\ Idle <= Absolute

VARIABLES
  account,   \* auth_users, with the number of the password that is stored
  codes,     \* auth_recovery_codes that are not consumed
  session,   \* auth_sessions
  attempt,   \* auth_login_attempts
  request,   \* each request
  clock

vars == <<account, codes, session, attempt, request, clock>>

-----------------------------------------------------------------------------
(* Rows *)
Passwords == 0 .. Cardinality(Codes)
AuthUserRow == [exists : BOOLEAN, owner : BOOLEAN, password : Passwords, weak : BOOLEAN]

NoAccount == [exists |-> FALSE, owner |-> FALSE, password |-> 0, weak |-> FALSE]

(* ck_auth_sessions_lifetime and ck_auth_sessions_revoked_at; resets is the
   number of codes consumed when the session was stored *)
AuthSessionRow ==
  {s \in [user : Users, created : 0 .. MaxTime, idle : 0 .. MaxTime + Idle,
          absolute : 0 .. MaxTime + Absolute, revoked : BOOLEAN, resets : Passwords] :
     s.created < s.idle /\ s.idle <= s.absolute}

Scopes == {"login", "recovery"}
Keys == Scopes \X (Users \cup {"address"})
AuthLoginAttemptRow ==
  [count : 1 .. MaxAttempts + Cardinality(Requests), started : 0 .. MaxTime,
   until : 0 .. MaxTime + Window, updated : 0 .. MaxTime]

NoSessions == [t \in {} |-> 0]
NoAttempts == [k \in {} |-> 0]
Without(f, S) == [x \in DOMAIN f \ S |-> f[x]]
With(f, S, Row(_)) == [x \in DOMAIN f \cup S |-> IF x \in S THEN Row(x) ELSE f[x]]

Consumed(u) == Cardinality(Codes) - Cardinality(codes[u])

-----------------------------------------------------------------------------
(* Login attempts *)

(* One key for the account and one for the address it is tried from *)
AttemptKeys(r) ==
  LET scope == IF request[r].op = "reset" THEN "recovery" ELSE "login"
  IN  {<<scope, request[r].user>>, <<scope, "address">>}

IsLoginBlocked(keys, now) == \E k \in keys \cap DOMAIN attempt : attempt[k].until > now

(* Rows out of date are deleted before the failure is counted *)
Stale(row, now) == row.updated + Window <= now /\ row.until <= now

(* The assignments of ON DUPLICATE KEY UPDATE run from left to right: the lock is
   computed from the count before it is raised (already = 0) *)
Counted(row, now, already) ==
  LET reset == row.started + Window <= now
      next  == IF reset THEN 1 ELSE row.count + 1
  IN  [until   |-> IF next + (IF reset THEN 0 ELSE already) >= MaxAttempts THEN now + Window ELSE 0,
       count   |-> next,
       started |-> IF reset THEN now ELSE row.started,
       updated |-> now]

CountedBeforeLock(row, now) == Counted(row, now, 1)
CountedFailure(row, now) == Counted(row, now, 0)

FirstFailure(now) == [until |-> 0, count |-> 1, started |-> now, updated |-> now]

FailureRow(kept, k, now) ==
  IF k \in DOMAIN kept THEN CountedFailure(kept[k], now) ELSE FirstFailure(now)

(* ck_auth_login_attempts_state: a failure whose request read the clock before
   the row's window began cannot be stored; the statement fails as a whole *)
RecordLoginFailure(keys, now) ==
  LET kept == Without(attempt, {k \in DOMAIN attempt : Stale(attempt[k], now)})
      rows == With(kept, keys, LAMBDA k : FailureRow(kept, k, now))
  IN  attempt' = IF \A k \in keys : rows[k].started <= rows[k].updated THEN rows ELSE attempt

-----------------------------------------------------------------------------
(* Requests *)
Ops == {"login", "reset", "register", "provision"}
Phases == {"idle", "check", "find", "record", "clear", "rehash", "reset", "create", "issue", "done"}
IdleRequest == [op |-> "login", phase |-> "idle", user |-> CHOOSE u \in Users : TRUE,
                password |-> 0, at |-> 0, weak |-> FALSE]

(* A request that has ended leaves nothing behind *)
Then(q, phase) ==
  IF phase = "done" THEN [IdleRequest EXCEPT !.phase = "done"] ELSE [q EXCEPT !.phase = phase]
Goes(r, phase) == request' = [request EXCEPT ![r] = Then(@, phase)]
AtPhase(r, phase) == request[r].phase = phase /\ UNCHANGED clock

Arrives(r, op, u, p) ==
  /\ request[r].phase = "idle"
  /\ request' = [request EXCEPT ![r] =
       [op |-> op, user |-> u, password |-> p, at |-> clock, weak |-> FALSE,
        phase |-> IF op \in {"login", "reset"} THEN "check" ELSE "create"]]
  /\ UNCHANGED <<account, codes, session, attempt, clock>>

Login(r) == \E u \in Users, p \in Passwords : Arrives(r, "login", u, p)
ResetRequest(r) == \E u \in Users : Arrives(r, "reset", u, 0)
RegisterOwner(r) == \E u \in Users : Arrives(r, "register", u, 0)
ProvisionMember(r) == \E u \in Users : Arrives(r, "provision", u, 0)

ChecksAttempts(r) ==
  /\ AtPhase(r, "check")
  /\ Goes(r, IF IsLoginBlocked(AttemptKeys(r), request[r].at) THEN "done"
             ELSE IF request[r].op = "login" THEN "find" ELSE "reset")
  /\ UNCHANGED <<account, codes, session, attempt>>

(* The hash is read here; it is verified in a thread, and what follows relies on
   this reading.  An account that does not exist is verified against a dummy. *)
Verifies(r) ==
  LET a == account[request[r].user]
  IN  /\ AtPhase(r, "find")
      /\ request' = [request EXCEPT
           ![r].weak = a.weak,
           ![r].phase = IF a.exists /\ a.password = request[r].password THEN "clear" ELSE "record"]
      /\ UNCHANGED <<account, codes, session, attempt>>

RecordsFailure(r) ==
  /\ AtPhase(r, "record")
  /\ RecordLoginFailure(AttemptKeys(r), request[r].at)
  /\ Goes(r, "done")
  /\ UNCHANGED <<account, codes, session>>

(* A verified login, or a reset that is already committed *)
ClearsFailures(r) ==
  /\ AtPhase(r, "clear")
  /\ attempt' = Without(attempt, AttemptKeys(r))
  /\ Goes(r, IF request[r].op = "reset" THEN "done"
             ELSE IF request[r].weak THEN "rehash" ELSE "issue")
  /\ UNCHANGED <<account, codes, session>>

(* The same password, hashed with the present parameters, whatever is stored by
   then *)
ReplacesHash(r) ==
  /\ AtPhase(r, "rehash")
  /\ account' = [account EXCEPT ![request[r].user].password = request[r].password,
                                ![request[r].user].weak = FALSE]
  /\ Goes(r, "issue")
  /\ UNCHANGED <<codes, session, attempt>>

(* The unique slot admits one owner, the unique address one account each *)
CreatesAccount(r) ==
  LET u == request[r].user
      owner == request[r].op = "register"
      free == ~account[u].exists /\ (owner => \A v \in Users : ~account[v].owner)
  IN  /\ AtPhase(r, "create")
      /\ IF free
         THEN account' = [account EXCEPT ![u] = [NoAccount EXCEPT !.exists = TRUE, !.owner = owner]]
         ELSE UNCHANGED account
      /\ Goes(r, IF free /\ owner THEN "issue" ELSE "done")
      /\ UNCHANGED <<codes, session, attempt>>

IssuesSession(r) ==
  LET q == request[r]
  IN  /\ AtPhase(r, "issue")
      /\ session' = With(session, {r}, LAMBDA t :
           [user |-> q.user, created |-> q.at, idle |-> q.at + Idle,
            absolute |-> q.at + Absolute, revoked |-> FALSE, resets |-> Consumed(q.user)])
      /\ Goes(r, "done")
      /\ UNCHANGED <<account, codes, attempt>>

-----------------------------------------------------------------------------
(* One transaction: the account and the code are locked, the code is consumed,
   the password replaced and the sessions revoked; a session created after the
   reset's request read the clock fails ck_auth_sessions_revoked_at, and with
   it the reset *)
Sessions(u) == {t \in DOMAIN session : session[t].user = u /\ ~session[t].revoked}
Revocable(u, now) == \A t \in Sessions(u) : session[t].created <= now

RevokesNothing(u) == session
RevokedSessions(u) == [t \in DOMAIN session |->
                         [session[t] EXCEPT !.revoked = @ \/ session[t].user = u]]

ResetsPassword(r) ==
  LET u == request[r].user
  IN  /\ AtPhase(r, "reset")
      /\ account[u].exists /\ Revocable(u, request[r].at)
      /\ \E c \in codes[u] : codes' = [codes EXCEPT ![u] = @ \ {c}]
      /\ account' = [account EXCEPT ![u].password = Consumed(u) + 1, ![u].weak = FALSE]
      /\ session' = RevokedSessions(u)
      /\ Goes(r, "clear")
      /\ UNCHANGED attempt

(* No such account, or a code that is unknown or consumed *)
ResetRefused(r) ==
  /\ AtPhase(r, "reset") /\ Goes(r, "record")
  /\ UNCHANGED <<account, codes, session, attempt>>

ResetFails(r) ==
  /\ AtPhase(r, "reset") /\ ~Revocable(request[r].user, request[r].at)
  /\ Goes(r, "done")
  /\ UNCHANGED <<account, codes, session, attempt>>

-----------------------------------------------------------------------------
(* Sessions in use *)
Active(t) ==
  ~session[t].revoked /\ clock < session[t].idle /\ clock < session[t].absolute

Slid(t) == Min({clock + Idle, session[t].absolute})

(* The row is locked; a session past its time is revoked on the way *)
FindActiveSession(t) ==
  /\ t \in DOMAIN session
  /\ session' = [session EXCEPT ![t] =
       IF Active(t) THEN [@ EXCEPT !.idle = Slid(t)] ELSE [@ EXCEPT !.revoked = TRUE]]
  /\ UNCHANGED <<account, codes, attempt, request, clock>>

RevokeSession(t) ==
  /\ t \in DOMAIN session
  /\ session' = [session EXCEPT ![t].revoked = TRUE]
  /\ UNCHANGED <<account, codes, attempt, request, clock>>

(* A process dies: what its request committed stays *)
RequestLost(r) ==
  /\ request[r].phase \notin {"idle", "done"} /\ Goes(r, "done")
  /\ UNCHANGED <<account, codes, session, attempt, clock>>

Tick ==
  /\ clock < MaxTime /\ clock' = clock + 1
  /\ UNCHANGED <<account, codes, session, attempt, request>>

Init ==
  /\ account = [u \in Users |->
       IF u \in Registered THEN [exists |-> TRUE, owner |-> FALSE, password |-> 0, weak |-> TRUE]
       ELSE NoAccount]
  /\ codes = [u \in Users |-> Codes]
  /\ session = NoSessions
  /\ attempt \in {NoAttempts,
       [k \in {"login"} \X (Registered \cup {"address"}) |-> FirstFailure(0)]}
  /\ request = [r \in Requests |-> IdleRequest]
  /\ clock = 0

RequestStep(r) ==
  \/ Login(r) \/ ResetRequest(r) \/ RegisterOwner(r) \/ ProvisionMember(r)
  \/ ChecksAttempts(r) \/ Verifies(r) \/ RecordsFailure(r) \/ ClearsFailures(r)
  \/ ReplacesHash(r) \/ CreatesAccount(r) \/ IssuesSession(r)
  \/ ResetsPassword(r) \/ ResetRefused(r) \/ ResetFails(r) \/ RequestLost(r)

Next ==
  \/ \E r \in Requests : RequestStep(r) \/ FindActiveSession(r) \/ RevokeSession(r)
  \/ Tick

Spec == Init /\ [][Next]_vars

-----------------------------------------------------------------------------
(* Every row has its type, and there is at most one owner. *)
TypeOK ==
  /\ account \in [Users -> AuthUserRow]
  /\ \A u \in Users : codes[u] \subseteq Codes
  /\ \A t \in DOMAIN session : session[t] \in AuthSessionRow
  /\ \A k \in DOMAIN attempt : k \in Keys /\ attempt[k] \in AuthLoginAttemptRow
  /\ \A r \in Requests : request[r].phase \in Phases /\ request[r].op \in Ops
  /\ Cardinality({u \in Users : account[u].owner}) <= 1

(* A key is locked exactly when the failures of its window have reached the
   limit, however requests with older and newer clocks interleave
   (auth.py:254). *)
LockedAtLimit ==
  \A k \in DOMAIN attempt : attempt[k].until > 0 <=> attempt[k].count >= MaxAttempts

(* A session that still answers was stored after the last reset of its account's
   password (auth.py:349). *)
SessionsOutliveNoReset ==
  \A t \in DOMAIN session : Active(t) => session[t].resets = Consumed(session[t].user)

=============================================================================
