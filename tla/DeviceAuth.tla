----------------------------- MODULE DeviceAuth -----------------------------
(***************************************************************************)
(* Accounts, devices, roles and sessions in the database (server/internal/ *)
(* store/auth.go, store/devices.go): the transactions of sign-in, refresh, *)
(* logout, revocation and change of role, one step per statement that      *)
(* waits for row locks, run by several request handlers at once under      *)
(* PostgreSQL's READ COMMITTED.                                            *)
(*                                                                         *)
(* Abstractions: what a transaction writes is written at its COMMIT, which *)
(* the locks it holds make the same; a session has one token, the refresh  *)
(* token, drawn at COMMIT; passwords are right, nothing expires: a wrong   *)
(* password or an expired token only refuses a request. Names and times of *)
(* devices, login_events and push tokens are left out.                     *)
(***************************************************************************)
EXTENDS Naturals, FiniteSets

CONSTANTS
  Device,      \* installations, each of one account
  AccountOf,   \* the account of each device
  MaxUsers,    \* FASTCOPY_MAX_USERS, 0 for no limit
  Handler,     \* concurrent request handlers
  MaxTokens    \* bound of the model: tokens handed out

ASSUME AuthAssumption == MaxUsers \in Nat /\ MaxTokens \in Nat

VARIABLES
  role,        \* devices.role of committed rows, "none" without a row
  revoked,     \* devices with a revoked_at
  sessions,    \* rows of auth_sessions without a revoked_at
  drawn,       \* tokens handed out so far
  req,         \* each handler's request and where it stands
  held         \* the row locks of each handler's transaction

tables == <<role, revoked, sessions, drawn>>
vars == <<tables, req, held>>

Token == 1..MaxTokens
Assignable == {"admin", "member"}
Role == {"super_admin"} \union Assignable

\* A session's row keeps its id while Refresh changes its token.
Session == [id : Token, device : Device, token : Token]

\* Rows that are locked: of users, devices and auth_sessions, and the
\* advisory lock of registrations.
Row ==
  ({"user"} \X {AccountOf[d] : d \in Device}) \union ({"device"} \X Device)
    \union ({"session"} \X Token) \union {<<"registration">>}

\* FOR UPDATE; an UPDATE of other columns than keys; the check of a foreign key.
Mode == {"update", "nokey", "share"}
Lock == [row : Row, mode : Mode]

Clash(m, n) == {m, n} \notin {{"share"}, {"share", "nokey"}}

\* What a handler does next.
Step == {"register", "insert", "registered",                       \* Register
         "upsert", "clear", "event", "login",                      \* Login
         "find", "user", "device", "refresh",                      \* Refresh
         "logout",                                                 \* Logout
         "actor", "target", "close", "revoke", "role"}             \* RevokeDevice, SetDeviceRole

(* device: who signs in, refreshes or acts. target: on whom. token: the    *)
(* token presented or the session's id. to: the role to be given, "none"   *)
(* for a revocation. doomed: the sessions about to end.                    *)
Request == [pc : Step, device : Device, target : Device, token : 0..MaxTokens,
            to : Assignable \union {"none"}, doomed : SUBSET Session]

NoRequest == [pc |-> "idle"]

TypeOK ==
  /\ role \in [Device -> Role \union {"none"}]
  /\ revoked \subseteq Device
  /\ sessions \subseteq Session
  /\ drawn \in 0..MaxTokens
  /\ \A s \in sessions : s.token <= drawn
  /\ req \in [Handler -> Request \union {NoRequest}]
  /\ held \in [Handler -> SUBSET Lock]

Init ==
  /\ role = [d \in Device |-> "none"]
  /\ revoked = {} /\ sessions = {} /\ drawn = 0
  /\ req = [h \in Handler |-> NoRequest]
  /\ held = [h \in Handler |-> {}]

Accounts == {AccountOf[d] : d \in {e \in Device : role[e] # "none"}}
SessionsOf(d) == {s \in sessions : s.device = d}

-----------------------------------------------------------------------------
(* Row locks.                                                              *)

UserRow(d) == <<"user", AccountOf[d]>>
DeviceRow(d) == <<"device", d>>
For(rows, mode) == {[row |-> r, mode |-> mode] : r \in rows}

\* Mutant: registrations are not serialised.
NotSerialised == {}

\* pg_advisory_xact_lock
Serialised == IF MaxUsers = 0 THEN {} ELSE For({<<"registration">>}, "update")

\* Mutant: only the target of a revocation or change of role is locked.
ActorLock(h) == {}

\* FOR UPDATE OF actor, target: the first of the two.
LockActor(h) == For({DeviceRow(req[h].device)}, "update")

(* The locks that a handler's statement at pc has to get.                  *)
Locks(h, pc) ==
  LET q == req[h]
      mine == DeviceRow(q.device)
      session(ss) == {<<"session", s.id>> : s \in ss}
  IN  CASE pc = "register" -> Serialised
        [] pc = "insert" -> For({UserRow(q.device), mine}, "update")
        [] pc = "upsert" ->
             IF role[q.device] = "none"
             THEN For({mine}, "update") \union For({UserRow(q.device)}, "share")
             ELSE For({mine}, "nokey")
        [] pc = "clear" -> For(session(SessionsOf(q.device)), "nokey")
        [] pc = "event" -> For({UserRow(q.device)}, "share")
        [] pc = "find" -> For(session({s \in sessions : s.token = q.token}), "update")
        [] pc = "user" -> For({UserRow(q.device)}, "update")
        [] pc = "device" -> For({mine}, "update")
        [] pc = "logout" -> For(session({s \in sessions : s.id = q.token}), "nokey")
        [] pc = "actor" -> LockActor(h)
        [] pc = "target" -> For({DeviceRow(q.target)}, "update")
        [] pc = "close" -> For(session(SessionsOf(q.target)), "nokey")
        [] OTHER -> {}

\* Mutant: a sign-in clears the sessions of its device before it locks it.
WantedLate(h) ==
  Locks(h, CASE req[h].pc = "upsert" -> "clear" [] req[h].pc = "clear" -> "upsert"
             [] OTHER -> req[h].pc)

\* Those of the next statement.
Wanted(h) == Locks(h, req[h].pc)

WaitsFor(h, g) ==
  \E l \in Wanted(h), k \in held[g] : g # h /\ l.row = k.row /\ Clash(l.mode, k.mode)

\* A statement returns once nobody else holds what it wants.
Granted(h) == \A g \in Handler : ~WaitsFor(h, g)

\* The handler's statement has its locks and the request stands at q.
Proceed(h, q) ==
  /\ held' = [held EXCEPT ![h] = @ \union Wanted(h)]
  /\ req' = [req EXCEPT ![h] = q]
  /\ UNCHANGED tables

\* The transaction ends, and with it its locks.
Ends(h) ==
  /\ req' = [req EXCEPT ![h] = NoRequest]
  /\ held' = [held EXCEPT ![h] = {}]

\* Mutant: an early return leaves the transaction open.
RefuseKeepsLocks(h) ==
  /\ req' = [req EXCEPT ![h] = NoRequest]
  /\ UNCHANGED <<held, tables>>

(* An early return: the deferred Rollback.                                 *)
Refuse(h) == Ends(h) /\ UNCHANGED tables

At(h, pc) == req[h].pc = pc /\ Granted(h)
Go(pc, h) == [req[h] EXCEPT !.pc = pc]

\* A request arrives; `tokens` more may be drawn by those under way.
Arrive(h, q) ==
  /\ req[h].pc = "idle"
  /\ req' = [req EXCEPT ![h] = [pc |-> q[1], device |-> q[2], target |-> q[3],
                                token |-> q[4], to |-> q[5], doomed |-> {}]]
  /\ UNCHANGED <<tables, held>>

Drawing == {h \in Handler : req[h].pc # "idle" /\ req[h].pc \notin
              {"logout", "actor", "target", "close", "revoke", "role"}}

\* Bound of the model: a token is left for every request that may draw one.
MayDraw == drawn + Cardinality(Drawing) < MaxTokens

-----------------------------------------------------------------------------
(* POST /v1/auth/session.                                                  *)

\* CredentialsByAccount: whom the handler takes the request for.
Known(d) == AccountOf[d] \in Accounts

SignIn(h, d) ==
  /\ MayDraw
  /\ Arrive(h, <<IF Known(d) THEN "upsert" ELSE "register", d, d, 0, "none">>)

\* A session row for d, of the token drawn with it.
Granting(d) ==
  /\ drawn' = drawn + 1
  /\ sessions' = sessions \union {[id |-> drawn + 1, device |-> d, token |-> drawn + 1]}

\* ErrAccountExists: rolled back, and treated as a normal login.
LoginInstead(h) ==
  /\ req' = [req EXCEPT ![h].pc = "upsert"]
  /\ held' = [held EXCEPT ![h] = {}]
  /\ UNCHANGED tables

(* Register with a limit: under the lock, is the account still new, and is *)
(* there room for it? Without a limit neither is asked.                    *)
CheckLimit(h) ==
  /\ At(h, "register")
  /\ IF MaxUsers # 0 /\ Known(req[h].device) THEN LoginInstead(h)
     ELSE IF MaxUsers # 0 /\ Cardinality(Accounts) >= MaxUsers THEN Refuse(h)
     ELSE Proceed(h, Go("insert", h))

(* INSERT INTO users, which another first request may have come before;    *)
(* INSERT INTO devices, as super_admin.                                    *)
InsertUser(h) ==
  /\ At(h, "insert")
  /\ IF Known(req[h].device) THEN LoginInstead(h) ELSE Proceed(h, Go("registered", h))

CommitRegister(h) ==
  /\ At(h, "registered")
  /\ role' = [role EXCEPT ![req[h].device] = "super_admin"]
  /\ Granting(req[h].device)
  /\ Ends(h)
  /\ UNCHANGED revoked

\* Mutant: the device is written in a transaction of its own.
UpsertAlone(h) ==
  /\ At(h, "upsert")
  /\ req' = [req EXCEPT ![h].pc = "clear"]
  /\ UNCHANGED <<tables, held>>

(* INSERT INTO devices ... ON CONFLICT DO UPDATE.                          *)
UpsertDevice(h) == At(h, "upsert") /\ Proceed(h, Go("clear", h))

(* UPDATE auth_sessions SET revoked_at, of this device.                    *)
ClearSessions(h) ==
  /\ At(h, "clear")
  /\ Proceed(h, [Go("event", h) EXCEPT !.doomed = SessionsOf(req[h].device)])

(* The session, and the login event with its reference to the user.        *)
InsertSession(h) == At(h, "event") /\ Proceed(h, Go("login", h))

CommitLogin(h) ==
  /\ At(h, "login")
  /\ LET q == req[h]
     IN  /\ role' = [role EXCEPT ![q.device] = IF @ = "none" THEN "member" ELSE @]
         /\ revoked' = revoked \ {q.device}
         /\ drawn' = drawn + 1
         /\ sessions' = (sessions \ q.doomed)
              \union {[id |-> drawn + 1, device |-> q.device, token |-> drawn + 1]}
  /\ Ends(h)

-----------------------------------------------------------------------------
(* POST /v1/auth/refresh, with the token of a session. One without a       *)
(* session is refused at once and for ever.                                *)
StartRefresh(h, s) == MayDraw /\ Arrive(h, <<"find", s.device, s.device, s.token, "none">>)

(* FOR UPDATE, session, user and device in turn. Once the session's row is *)
(* locked, the token must still be its token.                              *)
LockSession(h) ==
  /\ At(h, "find")
  /\ IF \E s \in sessions : s.token = req[h].token
     THEN Proceed(h, Go("user", h)) ELSE Refuse(h)

LockUser(h) == At(h, "user") /\ Proceed(h, Go("device", h))

LockDevice(h) ==
  /\ At(h, "device")
  /\ IF req[h].device \in revoked THEN Refuse(h) ELSE Proceed(h, Go("refresh", h))

CommitRefresh(h) ==
  /\ At(h, "refresh")
  /\ drawn' = drawn + 1
  /\ sessions' = {IF s.token = req[h].token THEN [s EXCEPT !.token = drawn + 1] ELSE s :
                    s \in sessions}
  /\ Ends(h)
  /\ UNCHANGED <<role, revoked>>

-----------------------------------------------------------------------------
\* The principal of a request: a session of a device that is not revoked.
Principals == {s \in sessions : s.device \notin revoked}

(* POST /v1/auth/logout, one statement.                                    *)
StartLogout(h, s) == Arrive(h, <<"logout", s.device, s.device, s.id, "none">>)

Logout(h) ==
  /\ At(h, "logout")
  /\ sessions' = {s \in sessions : s.id # req[h].token}
  /\ Ends(h)
  /\ UNCHANGED <<role, revoked, drawn>>

-----------------------------------------------------------------------------
(* POST /v1/devices/<device_id>/revoke and PATCH .../role, which refuse    *)
(* the device itself and another user's first.                             *)
Manage(h, s, d, to) ==
  /\ d # s.device /\ AccountOf[d] = AccountOf[s.device]
  /\ Arrive(h, <<"actor", s.device, d, 0, to>>)

\* lockedDeviceRoles finds a row: both are devices and not revoked.
Both(q) == role[q.target] # "none" /\ {q.device, q.target} \cap revoked = {}

LockActorRow(h) ==
  /\ At(h, "actor")
  /\ IF Both(req[h]) THEN Proceed(h, Go("target", h)) ELSE Refuse(h)

\* Mutant: an admin may revoke every device.
CanRevokeAll(actor, target) == actor \in {"super_admin", "admin"}

CanRevokeDevice(actor, target) ==
  target # "super_admin" /\ actor \in {"super_admin", "admin"}

CanChangeDeviceRole(actor, target) == actor = "super_admin" /\ target # "super_admin"

(* The target is locked, both are looked at again, and the roles checked.  *)
LockTarget(h) ==
  /\ At(h, "target")
  /\ LET q == req[h]
         actor == role[q.device]
         target == role[q.target]
     IN  IF Both(q) /\ (IF q.to = "none" THEN CanRevokeDevice(actor, target)
                                         ELSE CanChangeDeviceRole(actor, target))
         THEN Proceed(h, Go(IF q.to = "none" THEN "close" ELSE "role", h))
         ELSE Refuse(h)

(* UPDATE devices SET revoked_at, and the sessions of the device.          *)
CloseSessions(h) ==
  /\ At(h, "close")
  /\ Proceed(h, [Go("revoke", h) EXCEPT !.doomed = SessionsOf(req[h].target)])

CommitRevoke(h) ==
  /\ At(h, "revoke")
  /\ revoked' = revoked \union {req[h].target}
  /\ sessions' = sessions \ req[h].doomed
  /\ Ends(h)
  /\ UNCHANGED <<role, drawn>>

CommitRole(h) ==
  /\ At(h, "role")
  /\ role' = [role EXCEPT ![req[h].target] = req[h].to]
  /\ Ends(h)
  /\ UNCHANGED <<revoked, sessions, drawn>>

-----------------------------------------------------------------------------
(* The request's context is cancelled or the connection fails.             *)
Cancel(h) == req[h].pc # "idle" /\ Refuse(h)

(* PostgreSQL ends a transaction that waits in a circle.                   *)
Deadlocked(h) ==
  \E S \in SUBSET Handler : h \in S /\ \A g \in S : \E k \in S : WaitsFor(g, k)

DeadlockDetected(h) == ~Granted(h) /\ Deadlocked(h) /\ Refuse(h)

(* A wrong password, a token that is no session's or has expired: 401.     *)
Unauthorized(h) == req[h].pc = "idle" /\ UNCHANGED vars

Begin(h) ==
  \/ Unauthorized(h)
  \/ \E d \in Device : SignIn(h, d)
  \/ \E s \in sessions : StartRefresh(h, s)
  \/ \E s \in Principals :
       \/ StartLogout(h, s)
       \/ \E d \in Device, to \in Assignable \union {"none"} : Manage(h, s, d, to)

Handle(h) ==
  \/ CheckLimit(h) \/ InsertUser(h) \/ CommitRegister(h)
  \/ UpsertDevice(h) \/ ClearSessions(h) \/ InsertSession(h) \/ CommitLogin(h)
  \/ LockSession(h) \/ LockUser(h) \/ LockDevice(h) \/ CommitRefresh(h)
  \/ Logout(h)
  \/ LockActorRow(h) \/ LockTarget(h) \/ CloseSessions(h) \/ CommitRevoke(h) \/ CommitRole(h)

Next == \E h \in Handler : Begin(h) \/ Handle(h) \/ Cancel(h) \/ DeadlockDetected(h)

Spec == Init /\ [][Next]_vars

(* A handler runs on as far as its locks let it; a lock is granted to who  *)
(* waited longest, so one that is free again and again is granted in the   *)
(* end; the deadlock detector runs every second.                           *)
FairSpec ==
  /\ Spec
  /\ \A h \in Handler : SF_vars(Handle(h)) /\ WF_vars(DeadlockDetected(h))

-----------------------------------------------------------------------------
(* shared/API.md: the first device of an account is its unique super admin *)
(* and no other can revoke it or change its role: every account has one,   *)
(* and it is never left revoked.                                           *)
OneSuperAdmin ==
  \A a \in Accounts :
    \E d \in Device \ revoked :
      {e \in Device : AccountOf[e] = a /\ role[e] = "super_admin"} = {d}

(* A revoked device has no session, and no device has two, whichever       *)
(* sign-in, refresh and revocation overlap.                                *)
OneSessionPerDevice ==
  \A s, t \in sessions : s.device \notin revoked /\ (s.device = t.device => s = t)

(* Every request is answered, deadlocks between transactions included.     *)
RequestsEnd == \A h \in Handler : []<>(req[h].pc = "idle")

(* Requests wait for one another in a circle only through a refresh that   *)
(* holds its session before its device, against the order of all others,   *)
(* or through an administrator who acts on another one that is acting.     *)
DeadlocksExplained ==
  \A S \in (SUBSET Handler) \ {{}} :
    (\A g \in S : \E k \in S : WaitsFor(g, k)) =>
      \/ \E g \in S : req[g].pc \in {"user", "device"}
      \/ \E g, k \in S : /\ req[g].pc = "target" /\ req[k].pc = "target"
                       /\ req[g].target = req[k].device

Rules == INSTANCE Membership WITH
           session <- [d \in Device |-> {s.token : s \in SessionsOf(d)}],
           used <- 1..drawn

(* Concurrent transactions amount to one request after another: a refresh  *)
(* token is exchanged once, the limit of users holds, an account has one   *)
(* first device.                                                           *)
ImplementsMembership == Rules!Spec

(* server/README.md: role checks and row locks are applied inside the      *)
(* transaction. Who revokes a device or changes its role is active and may *)
(* do so at the moment it takes effect, also where two admins revoke each  *)
(* other or the actor is being demoted.                                    *)
ActedWithAuthority ==
  [][\A h \in Handler :
       /\ CommitRevoke(h) => Rules!Revoke(req[h].device, req[h].target)
       /\ CommitRole(h) => Rules!SetRole(req[h].device, req[h].target)]_vars
=============================================================================
