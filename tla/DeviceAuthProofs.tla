-------------------------- MODULE DeviceAuthProofs --------------------------
(***************************************************************************)
(* Proofs about DeviceAuth, for any number of devices, accounts, handlers  *)
(* and tokens, with a limit of users or without.                           *)
(*                                                                         *)
(* What carries them: two transactions never hold strong locks of one row  *)
(* (Exclusive), and every request that has come to a certain step holds    *)
(* the locks under which what it has looked at cannot change (Standing),   *)
(* and where it waits, no others (Holding).                                *)
(***************************************************************************)
EXTENDS DeviceAuth, FiniteSetTheorems, TLAPS

(* h holds a lock of the row that excludes every other one but a share.    *)
Strong(h, row) == \E l \in held[h] : l.row = row /\ l.mode \in {"update", "nokey"}

Exclusive ==
  \A g, h \in Handler, row \in Row : Strong(g, row) /\ Strong(h, row) => g = h

SessionRow(s) == <<"session", s.id>>

(* Registration: the account is new, and there is room for it.             *)
Registering(h) ==
  LET q == req[h]
  IN  /\ q.pc = "registered" => ~Known(q.device) /\ Strong(h, UserRow(q.device))
      /\ q.pc \in {"insert", "registered"} /\ MaxUsers # 0 =>
           Strong(h, <<"registration">>) /\ Cardinality(Accounts) < MaxUsers

\* The sessions the request is about to end are those of d, and locked.
Dooms(h, d) ==
  /\ SessionsOf(d) \subseteq req[h].doomed
  /\ \A s \in req[h].doomed : s.device = d /\ Strong(h, SessionRow(s))

(* Sign-in: of a known account; the device's row and sessions are locked.  *)
SigningIn(h) ==
  LET q == req[h]
  IN  /\ q.pc \in {"upsert", "clear", "event", "login"} => Known(q.device)
      /\ q.pc \in {"clear", "event", "login"} => Strong(h, DeviceRow(q.device))
      /\ q.pc \in {"event", "login"} => Dooms(h, q.device)

(* Refresh: the token was never another device's; the session is locked.   *)
Refreshing(h) ==
  LET q == req[h]
  IN  /\ q.pc \in {"find", "user", "device", "refresh"} =>
           q.token <= drawn /\ \A s \in sessions : s.token = q.token => s.device = q.device
      /\ q.pc \in {"user", "device", "refresh"} =>
           \E s \in sessions : s.token = q.token /\ Strong(h, SessionRow(s))
      /\ q.pc = "refresh" => Strong(h, DeviceRow(q.device))

LoggingOut(h) ==
  LET q == req[h]
  IN  q.pc = "logout" =>
        q.token <= drawn /\ \A s \in sessions : s.id = q.token => s.device = q.device

(* Revocation and change of role: both rows are locked, and were right.    *)
Managing(h) ==
  LET q == req[h]
  IN  /\ q.pc \in {"actor", "target", "close", "revoke", "role"} =>
           q.target # q.device /\ AccountOf[q.target] = AccountOf[q.device]
      /\ q.pc \in {"target", "close", "revoke", "role"} => Strong(h, DeviceRow(q.device))
      /\ q.pc \in {"close", "revoke", "role"} =>
           /\ Strong(h, DeviceRow(q.target)) /\ Both(q)
           /\ role[q.target] # "super_admin"
           /\ role[q.device] \in {"super_admin", "admin"}
      /\ q.pc = "role" => role[q.device] = "super_admin" /\ q.to # "none"
      /\ q.pc = "revoke" => Dooms(h, q.target)

Standing(h) ==
  Registering(h) /\ SigningIn(h) /\ Refreshing(h) /\ LoggingOut(h) /\ Managing(h)

(* Rows refer to one another, and no token is drawn twice.                 *)
Keys ==
  /\ \A s \in sessions : s.id <= drawn /\ s.token <= drawn /\ role[s.device] # "none"
  /\ \A s, t \in sessions : s.id = t.id \/ s.token = t.token => s = t
  /\ \A d \in revoked : role[d] # "none"

(* A token is left for every request that may draw one.                    *)
Budget == IsFiniteSet(Drawing) /\ drawn + Cardinality(Drawing) <= MaxTokens

IInv ==
  /\ TypeOK /\ Budget /\ Keys /\ Exclusive /\ IsFiniteSet(Accounts)
  /\ \A h \in Handler : Standing(h)
  /\ OneSuperAdmin /\ OneSessionPerDevice

-----------------------------------------------------------------------------
(* A request under way has its fields.                                     *)
LEMMA Shape ==
  ASSUME TypeOK, NEW h \in Handler, req[h].pc # "idle"
  PROVE  req[h] \in Request
BY DEF TypeOK, NoRequest

(* Statements lock rows.                                                   *)
LEMMA WantedTyped ==
  ASSUME TypeOK, NEW h \in Handler, req[h].pc # "idle"
  PROVE  Wanted(h) \subseteq Lock
<1>1. req[h] \in Request /\ sessions \subseteq Session
  BY Shape DEF TypeOK
<1>2. /\ UserRow(req[h].device) \in Row /\ DeviceRow(req[h].device) \in Row
      /\ DeviceRow(req[h].target) \in Row /\ <<"registration">> \in Row
      /\ \A s \in sessions : <<"session", s.id>> \in Row
  BY <1>1 DEF Request, Session, Row, UserRow, DeviceRow
<1>3. \A rows \in SUBSET Row, mode \in Mode : For(rows, mode) \subseteq Lock
  BY DEF For, Lock
<1>4. \A S \in SUBSET sessions : {<<"session", s.id>> : s \in S} \in SUBSET Row
  BY <1>2
<1>5. {"update", "nokey", "share"} \subseteq Mode
  BY DEF Mode
<1>6. Serialised \subseteq Lock
  BY <1>2, <1>3, <1>5 DEF Serialised
<1>7. LockActor(h) \subseteq Lock
  BY <1>2, <1>3, <1>5 DEF LockActor
<1>8. /\ For({UserRow(req[h].device), DeviceRow(req[h].device)}, "update") \subseteq Lock
      /\ For({DeviceRow(req[h].device)}, "update") \subseteq Lock
      /\ For({DeviceRow(req[h].device)}, "nokey") \subseteq Lock
      /\ For({DeviceRow(req[h].target)}, "update") \subseteq Lock
      /\ For({UserRow(req[h].device)}, "update") \subseteq Lock
      /\ For({UserRow(req[h].device)}, "share") \subseteq Lock
  BY <1>2, <1>3, <1>5
<1>9. \A S \in SUBSET sessions :
        /\ For({<<"session", s.id>> : s \in S}, "nokey") \subseteq Lock
        /\ For({<<"session", s.id>> : s \in S}, "update") \subseteq Lock
  BY <1>3, <1>4, <1>5
<1>10. /\ For({<<"session", s.id>> : s \in SessionsOf(req[h].device)}, "nokey") \subseteq Lock
       /\ For({<<"session", s.id>> : s \in SessionsOf(req[h].target)}, "nokey") \subseteq Lock
       /\ For({<<"session", s.id>> : s \in {t \in sessions : t.token = req[h].token}}, "update") \subseteq Lock
       /\ For({<<"session", s.id>> : s \in {t \in sessions : t.id = req[h].token}}, "nokey") \subseteq Lock
  BY <1>9 DEF SessionsOf
<1>. QED
  BY <1>6, <1>7, <1>8, <1>10 DEF Wanted, Locks

-----------------------------------------------------------------------------
(* What a step of a handler does to the locks and the requests.            *)

\* The handler's step, whichever it is.
Steps(h) == Begin(h) \/ Handle(h) \/ Cancel(h) \/ DeadlockDetected(h)

\* A step leaves the others' requests and locks alone.
LEMMA OthersAlone ==
  ASSUME TypeOK, NEW h \in Handler, Steps(h), NEW g \in Handler, g # h
  PROVE  req'[g] = req[g] /\ held'[g] = held[g]
<1>. USE DEF TypeOK, tables
<1>1. CASE Begin(h)
  BY <1>1 DEF Begin, Unauthorized, SignIn, StartRefresh, StartLogout, Manage, Arrive, vars
<1>2. CASE Cancel(h) \/ DeadlockDetected(h)
  BY <1>2 DEF Cancel, DeadlockDetected, Refuse, Ends
<1>3. CASE \/ CommitRegister(h) \/ CommitLogin(h) \/ CommitRefresh(h)
           \/ Logout(h) \/ CommitRevoke(h) \/ CommitRole(h)
  BY <1>3 DEF CommitRegister, CommitLogin, CommitRefresh, Logout, CommitRevoke, CommitRole, Ends
<1>4. CASE CheckLimit(h) \/ InsertUser(h) \/ LockSession(h) \/ LockDevice(h)
           \/ LockActorRow(h) \/ LockTarget(h)
  BY <1>4 DEF CheckLimit, InsertUser, LockSession, LockDevice, LockActorRow, LockTarget,
              LoginInstead, Proceed, Refuse, Ends
<1>5. CASE UpsertDevice(h) \/ ClearSessions(h) \/ InsertSession(h) \/ LockUser(h) \/ CloseSessions(h)
  BY <1>5 DEF UpsertDevice, ClearSessions, InsertSession, LockUser, CloseSessions, Proceed
<1>. QED
  BY <1>1, <1>2, <1>3, <1>4, <1>5 DEF Steps, Handle

(* Locks are given up together or, once nobody else is in the way, added.  *)
LEMMA LockStep ==
  ASSUME TypeOK, NEW h \in Handler, Steps(h)
  PROVE  \/ held' = held
         \/ held' = [held EXCEPT ![h] = {}]
         \/ /\ req[h].pc # "idle" /\ Granted(h)
            /\ held' = [held EXCEPT ![h] = @ \union Wanted(h)]
<1>. USE DEF tables
<1>1. CASE Begin(h)
  BY <1>1 DEF Begin, Unauthorized, SignIn, StartRefresh, StartLogout, Manage, Arrive, vars
<1>2. CASE Cancel(h) \/ DeadlockDetected(h)
  BY <1>2 DEF Cancel, DeadlockDetected, Refuse, Ends
<1>3. CASE \/ CommitRegister(h) \/ CommitLogin(h) \/ CommitRefresh(h)
           \/ Logout(h) \/ CommitRevoke(h) \/ CommitRole(h)
  BY <1>3 DEF CommitRegister, CommitLogin, CommitRefresh, Logout, CommitRevoke, CommitRole, Ends
<1>4. CASE CheckLimit(h) \/ InsertUser(h) \/ LockSession(h) \/ LockDevice(h)
           \/ LockActorRow(h) \/ LockTarget(h)
  BY <1>4 DEF CheckLimit, InsertUser, LockSession, LockDevice, LockActorRow, LockTarget,
              LoginInstead, Proceed, Refuse, Ends, At
<1>5. CASE UpsertDevice(h) \/ ClearSessions(h) \/ InsertSession(h) \/ LockUser(h) \/ CloseSessions(h)
  BY <1>5 DEF UpsertDevice, ClearSessions, InsertSession, LockUser, CloseSessions, Proceed, At
<1>. QED
  BY <1>1, <1>2, <1>3, <1>4, <1>5 DEF Steps, Handle

(* Strong locks of one row clash, so no two requests come to hold them.    *)
LEMMA ExclusiveStep ==
  ASSUME TypeOK, Exclusive, NEW h \in Handler, Steps(h)
  PROVE  Exclusive'
<1>. SUFFICES ASSUME NEW f \in Handler, NEW g \in Handler, NEW row \in Row,
                     Strong(f, row)', Strong(g, row)', f # g
              PROVE  FALSE
  BY DEF Exclusive
<1>. USE DEF TypeOK
<1>1. ASSUME NEW k \in Handler, Strong(k, row)', ~Strong(k, row)
      PROVE  k = h /\ Granted(h) /\ \E l \in Wanted(h) : l.row = row /\ l.mode \in {"update", "nokey"}
  BY <1>1, LockStep DEF Strong
<1>2. ASSUME Granted(h), NEW l \in Wanted(h), l.row = row, l.mode \in {"update", "nokey"},
             NEW k \in Handler, k # h, Strong(k, row)
      PROVE  FALSE
  <2>1. PICK m \in held[k] : m.row = row /\ m.mode \in {"update", "nokey"}
    BY <1>2 DEF Strong
  <2>2. l.mode \notin {"share"} /\ m.mode \notin {"share"}
    BY <1>2, <2>1
  <2>3. {l.mode, m.mode} # {"share"} /\ {l.mode, m.mode} # {"share", "nokey"}
    BY <2>2
  <2>4. Clash(l.mode, m.mode)
    BY <2>3 DEF Clash
  <2>. QED
    BY <1>2, <2>1, <2>4 DEF Granted, WaitsFor
<1>3. CASE Strong(f, row) /\ Strong(g, row)
  BY <1>3 DEF Exclusive
<1>4. CASE ~Strong(f, row)
  <2>1. Strong(g, row)
    BY <1>1, <1>4
  <2>. QED
    BY <1>1, <1>2, <1>4, <2>1
<1>5. CASE ~Strong(g, row)
  <2>1. Strong(f, row)
    BY <1>1, <1>5
  <2>. QED
    BY <1>1, <1>2, <1>5, <2>1
<1>. QED
  BY <1>3, <1>4, <1>5

-----------------------------------------------------------------------------
(* Types and the budget of tokens.                                         *)

\* The requests that commit with a new token.
Commits == {"registered", "login", "refresh"}

\* Who is about to draw a token has one left to draw.
LEMMA Room ==
  ASSUME TypeOK, Budget, NEW h \in Handler, req[h].pc \in Commits
  PROVE  drawn + 1 \in 0..MaxTokens /\ drawn + 1 \in Token /\ h \in Drawing
<1>1. h \in Drawing
  BY DEF Drawing, Commits
<1>2. Cardinality(Drawing) \in Nat /\ Cardinality(Drawing) # 0
  BY <1>1, FS_CardinalityType, FS_EmptySet DEF Budget
<1>3. drawn \in Nat /\ MaxTokens \in Nat
  BY AuthAssumption DEF TypeOK
<1>. QED
  BY <1>1, <1>2, <1>3 DEF Budget, Token

\* A session's row with a new token, and one of a new session.
LEMMA NewSession ==
  ASSUME NEW d \in Device, drawn + 1 \in Token
  PROVE  /\ [id |-> drawn + 1, device |-> d, token |-> drawn + 1] \in Session
         /\ \A s \in Session : [s EXCEPT !.token = drawn + 1] \in Session
BY DEF Session

\* Every step keeps the tables well typed.
LEMMA TablesTyped ==
  ASSUME TypeOK, Budget, Keys, NEW h \in Handler, Steps(h)
  PROVE  /\ role' \in [Device -> Role \union {"none"}] /\ revoked' \subseteq Device
         /\ sessions' \subseteq Session /\ drawn' \in 0..MaxTokens
         /\ \A s \in sessions' : s.token <= drawn'
<1>. USE DEF TypeOK
<1>t. drawn \in Nat /\ \A s \in sessions : s \in Session /\ s.token \in Nat
  BY AuthAssumption DEF Session, Token
<1>1. CASE UNCHANGED tables
  BY <1>1 DEF tables
<1>2. CASE CommitRegister(h)
  <2>1. req[h] \in Request /\ drawn + 1 \in 0..MaxTokens /\ drawn + 1 \in Token
    BY <1>2, Shape, Room DEF CommitRegister, At, Commits
  <2>2. [id |-> drawn + 1, device |-> req[h].device, token |-> drawn + 1] \in Session
    BY <2>1, NewSession DEF Request
  <2>. QED
    BY <1>2, <1>t, <2>1, <2>2 DEF CommitRegister, Granting, Request, Role
<1>3. CASE CommitLogin(h)
  <2>1. req[h] \in Request /\ drawn + 1 \in 0..MaxTokens /\ drawn + 1 \in Token
    BY <1>3, Shape, Room DEF CommitLogin, At, Commits
  <2>2. [id |-> drawn + 1, device |-> req[h].device, token |-> drawn + 1] \in Session
    BY <2>1, NewSession DEF Request
  <2>. QED
    BY <1>3, <1>t, <2>1, <2>2 DEF CommitLogin, Request, Role, Assignable
<1>4. CASE CommitRefresh(h)
  <2>1. drawn + 1 \in 0..MaxTokens /\ drawn + 1 \in Token
    BY <1>4, Room DEF CommitRefresh, At, Commits
  <2>2. \A s \in sessions : [s EXCEPT !.token = drawn + 1] \in Session
                            /\ [s EXCEPT !.token = drawn + 1].token = drawn + 1
    BY <2>1, NewSession DEF Session
  <2>3. ASSUME NEW t \in sessions'
        PROVE  t \in Session /\ t.token <= drawn + 1
    <3>1. PICK s \in sessions : t = IF s.token = req[h].token THEN [s EXCEPT !.token = drawn + 1] ELSE s
      BY <1>4 DEF CommitRefresh
    <3>. QED
      BY <1>t, <2>2, <3>1
  <2>. QED
    BY <1>4, <2>1, <2>3 DEF CommitRefresh
<1>5. CASE Logout(h) \/ CommitRevoke(h) \/ CommitRole(h)
  <2>1. req[h] \in Request
    BY <1>5, Shape DEF Logout, CommitRevoke, CommitRole, At
  <2>2. CASE Logout(h)
    BY <2>2 DEF Logout
  <2>3. CASE CommitRevoke(h)
    BY <2>1, <2>3 DEF CommitRevoke, Request
  <2>4. CASE CommitRole(h)
    BY <1>t, <2>1, <2>4 DEF CommitRole, Request, Role, Assignable
  <2>. QED
    BY <1>5, <2>2, <2>3, <2>4
<1>6. CASE Begin(h) \/ Cancel(h) \/ DeadlockDetected(h) \/ CheckLimit(h) \/ InsertUser(h)
  BY <1>1, <1>6 DEF Begin, Unauthorized, vars, tables, SignIn, StartRefresh, StartLogout, Manage,
       Arrive, Cancel, DeadlockDetected, Refuse, CheckLimit, InsertUser, LoginInstead, Proceed
<1>7. CASE UpsertDevice(h) \/ ClearSessions(h) \/ InsertSession(h) \/ LockSession(h) \/ LockUser(h)
           \/ LockDevice(h) \/ LockActorRow(h) \/ LockTarget(h) \/ CloseSessions(h)
  BY <1>1, <1>7 DEF UpsertDevice, ClearSessions, InsertSession, LockSession, LockUser, LockDevice,
       LockActorRow, LockTarget, CloseSessions, Refuse, Proceed, tables
<1>. QED
  BY <1>2, <1>3, <1>4, <1>5, <1>6, <1>7 DEF Steps, Handle

\* What a step leaves of its handler's request is a request or none.
LEMMA RequestTyped ==
  ASSUME TypeOK, NEW h \in Handler, Steps(h)
  PROVE  req' \in [Handler -> Request \union {NoRequest}]
<1>. USE DEF TypeOK
<1>1. ASSUME NEW q \in Request \union {NoRequest}, req' = [req EXCEPT ![h] = q]
      PROVE  req' \in [Handler -> Request \union {NoRequest}]
  BY <1>1
<1>2. ASSUME req[h].pc # "idle"
      PROVE  /\ \A p \in Step : Go(p, h) \in Request
             /\ \A p \in Step, D \in SUBSET Session : [Go(p, h) EXCEPT !.doomed = D] \in Request
             /\ \A p \in Step : [req[h] EXCEPT !.pc = p] \in Request
  BY <1>2, Shape DEF Go, Request
<1>3. \A d \in Device : SessionsOf(d) \in SUBSET Session
  BY DEF SessionsOf
<1>4. CASE Begin(h)
  <2>1. CASE Unauthorized(h)
    BY <2>1 DEF Unauthorized, vars
  <2>2. ASSUME NEW p \in Step, NEW d \in Device, NEW e \in Device, NEW t \in 0..MaxTokens,
               NEW to \in Assignable \union {"none"}, Arrive(h, <<p, d, e, t, to>>)
        PROVE  req' \in [Handler -> Request \union {NoRequest}]
    <3>1. [pc |-> p, device |-> d, target |-> e, token |-> t, to |-> to, doomed |-> {}] \in Request
      BY DEF Request
    <3>. QED
      BY <1>1, <2>2, <3>1 DEF Arrive
  <2>3. {"upsert", "register", "find", "logout", "actor"} \subseteq Step /\ 0 \in 0..MaxTokens
    BY AuthAssumption DEF Step
  <2>4. \A s \in sessions : s.device \in Device /\ s.token \in 0..MaxTokens /\ s.id \in 0..MaxTokens
    BY DEF Session, Token
  <2>5. CASE \E d \in Device : SignIn(h, d)
    BY <2>2, <2>3, <2>5 DEF SignIn
  <2>6. CASE \E s \in sessions : StartRefresh(h, s)
    BY <2>2, <2>3, <2>4, <2>6 DEF StartRefresh
  <2>7. CASE \E s \in Principals : StartLogout(h, s)
    BY <2>2, <2>3, <2>4, <2>7 DEF StartLogout, Principals
  <2>8. CASE \E s \in Principals, d \in Device, to \in Assignable \union {"none"} : Manage(h, s, d, to)
    BY <2>2, <2>3, <2>4, <2>8 DEF Manage, Principals
  <2>. QED
    BY <1>4, <2>1, <2>5, <2>6, <2>7, <2>8 DEF Begin
<1>5. CASE Cancel(h) \/ DeadlockDetected(h)
  BY <1>1, <1>5 DEF Cancel, DeadlockDetected, Refuse, Ends
<1>6. CASE \/ CommitRegister(h) \/ CommitLogin(h) \/ CommitRefresh(h)
           \/ Logout(h) \/ CommitRevoke(h) \/ CommitRole(h)
  BY <1>1, <1>6 DEF CommitRegister, CommitLogin, CommitRefresh, Logout, CommitRevoke, CommitRole, Ends
<1>7. {"insert", "upsert", "registered", "clear", "event", "login", "user", "device", "refresh",
       "target", "close", "role", "revoke"} \subseteq Step
  BY DEF Step
<1>8. CASE \/ CheckLimit(h) \/ InsertUser(h) \/ LockSession(h) \/ LockDevice(h)
           \/ LockActorRow(h) \/ LockTarget(h)
  <2>1. req[h].pc # "idle"
    BY <1>8 DEF CheckLimit, InsertUser, LockSession, LockDevice, LockActorRow, LockTarget, At
  <2>. HIDE DEF TypeOK
  <2>. QED
    BY <1>1, <1>2, <1>7, <1>8, <2>1 DEF CheckLimit, InsertUser, LockSession, LockDevice, LockActorRow,
         LockTarget, LoginInstead, Proceed, Refuse, Ends
<1>9. CASE UpsertDevice(h) \/ ClearSessions(h) \/ InsertSession(h) \/ LockUser(h) \/ CloseSessions(h)
  <2>1. req[h].pc # "idle"
    BY <1>9 DEF UpsertDevice, ClearSessions, InsertSession, LockUser, CloseSessions, At
  <2>2. req[h].device \in Device /\ req[h].target \in Device
    BY <2>1, Shape DEF Request
  <2>. HIDE DEF TypeOK
  <2>. QED
    BY <1>1, <1>2, <1>3, <1>7, <1>9, <2>1, <2>2 DEF UpsertDevice, ClearSessions, InsertSession,
         LockUser, CloseSessions, Proceed
<1>. QED
  BY <1>4, <1>5, <1>6, <1>8, <1>9 DEF Steps, Handle

\* Every step of a handler keeps the types.
LEMMA TypeStep ==
  ASSUME TypeOK, Budget, Keys, NEW h \in Handler, Steps(h)
  PROVE  TypeOK'
<1>1. held' \in [Handler -> SUBSET Lock]
  BY LockStep, WantedTyped DEF TypeOK
<1>. QED
  BY <1>1, TablesTyped, RequestTyped DEF TypeOK

\* Tokens are drawn by requests that said they would, and once each.
LEMMA DrawStep ==
  ASSUME TypeOK, NEW h \in Handler, Steps(h)
  PROVE  \/ Drawing' \subseteq Drawing /\ drawn' = drawn
         \/ MayDraw /\ h \notin Drawing /\ Drawing' = Drawing \union {h} /\ drawn' = drawn
         \/ h \in Drawing /\ Drawing' = Drawing \ {h} /\ drawn' = drawn + 1
<1>. DEFINE Draws(q) == q.pc # "idle" /\ q.pc \notin
                {"logout", "actor", "target", "close", "revoke", "role"}
<1>1. /\ Drawing = {g \in Handler : Draws(req[g])} /\ Drawing' = {g \in Handler : Draws(req'[g])}
      /\ \A g \in Handler : g # h => req'[g] = req[g]
  BY OthersAlone DEF Drawing
<1>2. /\ ~Draws(req'[h]) => Drawing' \subseteq Drawing
      /\ Draws(req[h]) => Drawing' \subseteq Drawing
      /\ Draws(req'[h]) /\ ~Draws(req[h]) => h \notin Drawing /\ Drawing' = Drawing \union {h}
      /\ ~Draws(req'[h]) /\ Draws(req[h]) => h \in Drawing /\ Drawing' = Drawing \ {h}
  BY <1>1
<1>. USE DEF TypeOK, tables
<1>3. CASE Begin(h)
  <2>1. CASE MayDraw /\ drawn' = drawn /\ ~Draws(req[h])
    BY <1>2, <2>1
  <2>2. CASE ~Draws(req'[h]) /\ drawn' = drawn
    BY <1>2, <2>2
  <2>3. CASE UNCHANGED vars
    BY <1>1, <2>3 DEF vars
  <2>. QED
    BY <1>3, <2>1, <2>2, <2>3 DEF Begin, Unauthorized, SignIn, StartRefresh, StartLogout, Manage, Arrive
<1>4. CASE Cancel(h) \/ DeadlockDetected(h)
  BY <1>2, <1>4 DEF Cancel, DeadlockDetected, Refuse, Ends, NoRequest
<1>5. CASE CommitRegister(h) \/ CommitLogin(h) \/ CommitRefresh(h)
  BY <1>2, <1>5 DEF CommitRegister, CommitLogin, CommitRefresh, Granting, At, Ends, NoRequest
<1>6. CASE Logout(h) \/ CommitRevoke(h) \/ CommitRole(h)
  BY <1>2, <1>6 DEF Logout, CommitRevoke, CommitRole, Ends, NoRequest
<1>7. CASE CheckLimit(h) \/ InsertUser(h) \/ LockSession(h) \/ LockDevice(h)
  BY <1>2, <1>7 DEF CheckLimit, InsertUser, LockSession, LockDevice, LoginInstead, Proceed, Refuse,
       At
<1>8. CASE LockActorRow(h) \/ LockTarget(h) \/ CloseSessions(h)
  <2>1. req[h] \in Request
    BY <1>8, Shape DEF LockActorRow, LockTarget, CloseSessions, At
  <2>2. /\ ~Draws(NoRequest)
        /\ \A p \in {"target", "close", "revoke", "role"} :
             ~Draws(Go(p, h)) /\ \A D : ~Draws([Go(p, h) EXCEPT !.doomed = D])
    BY <2>1 DEF Go, Request, NoRequest
  <2>3. ~Draws(req'[h]) /\ drawn' = drawn
    <3>. HIDE DEF Draws
    <3>1. ASSUME NEW q, req' = [req EXCEPT ![h] = q], ~Draws(q)
          PROVE  ~Draws(req'[h])
      BY <3>1
    <3>2. CASE LockActorRow(h)
      BY <2>2, <3>1, <3>2 DEF LockActorRow, Proceed, Refuse, Ends
    <3>3. CASE LockTarget(h)
      BY <2>2, <3>1, <3>3 DEF LockTarget, Proceed, Refuse, Ends
    <3>4. CASE CloseSessions(h)
      BY <2>2, <3>1, <3>4 DEF CloseSessions, Proceed
    <3>. QED
      BY <1>8, <3>2, <3>3, <3>4
  <2>. QED
    BY <1>2, <2>3
<1>9. CASE UpsertDevice(h) \/ ClearSessions(h) \/ InsertSession(h) \/ LockUser(h)
  BY <1>2, <1>9 DEF UpsertDevice, ClearSessions, InsertSession, LockUser, Proceed, At
<1>. QED
  BY <1>3, <1>4, <1>5, <1>6, <1>7, <1>8, <1>9 DEF Steps, Handle

LEMMA BudgetStep ==
  ASSUME TypeOK, Budget, NEW h \in Handler, Steps(h)
  PROVE  Budget'
<1>1. IsFiniteSet(Drawing) /\ drawn \in Nat /\ MaxTokens \in Nat
  BY AuthAssumption DEF Budget, TypeOK
<1>2. Cardinality(Drawing) \in Nat
  BY <1>1, FS_CardinalityType
<1>3. CASE Drawing' \subseteq Drawing /\ drawn' = drawn
  <2>1. IsFiniteSet(Drawing') /\ Cardinality(Drawing') <= Cardinality(Drawing)
    BY <1>1, <1>3, FS_Subset
  <2>2. Cardinality(Drawing') \in Nat
    BY <2>1, FS_CardinalityType
  <2>. QED
    BY <1>1, <1>2, <1>3, <2>1, <2>2 DEF Budget
<1>4. CASE MayDraw /\ h \notin Drawing /\ Drawing' = Drawing \union {h} /\ drawn' = drawn
  <2>1. IsFiniteSet(Drawing') /\ Cardinality(Drawing') = Cardinality(Drawing) + 1
    BY <1>1, <1>4, FS_AddElement
  <2>. QED
    BY <1>1, <1>2, <1>4, <2>1 DEF Budget, MayDraw
<1>5. CASE h \in Drawing /\ Drawing' = Drawing \ {h} /\ drawn' = drawn + 1
  <2>1. IsFiniteSet(Drawing') /\ Cardinality(Drawing') = Cardinality(Drawing) - 1
    BY <1>1, <1>5, FS_RemoveElement
  <2>. QED
    BY <1>1, <1>2, <1>5, <2>1 DEF Budget
<1>. QED
  BY <1>3, <1>4, <1>5, DrawStep

-----------------------------------------------------------------------------
(* The tables. Only a COMMIT writes them.                                  *)

Committing(h) ==
  \/ CommitRegister(h) \/ CommitLogin(h) \/ CommitRefresh(h)
  \/ Logout(h) \/ CommitRevoke(h) \/ CommitRole(h)

LEMMA OnlyCommitsWrite ==
  ASSUME NEW h \in Handler, Steps(h), ~Committing(h)
  PROVE  UNCHANGED tables
<1>1. CASE Begin(h) \/ Cancel(h) \/ DeadlockDetected(h) \/ CheckLimit(h) \/ InsertUser(h)
  BY <1>1 DEF Begin, Unauthorized, vars, tables, SignIn, StartRefresh, StartLogout, Manage,
       Arrive, Cancel, DeadlockDetected, Refuse, CheckLimit, InsertUser, LoginInstead, Proceed
<1>2. CASE UpsertDevice(h) \/ ClearSessions(h) \/ InsertSession(h) \/ LockSession(h) \/ LockUser(h)
           \/ LockDevice(h) \/ LockActorRow(h) \/ LockTarget(h) \/ CloseSessions(h)
  BY <1>2 DEF UpsertDevice, ClearSessions, InsertSession, LockSession, LockUser, LockDevice,
       LockActorRow, LockTarget, CloseSessions, Refuse, Proceed, tables
<1>. QED
  BY <1>1, <1>2 DEF Steps, Handle, Committing

\* What each commit finds, from the standing of its request.
LEMMA Found ==
  ASSUME IInv, NEW h \in Handler, Committing(h)
  PROVE  /\ req[h] \in Request /\ Granted(h)
         /\ CommitRegister(h) => ~Known(req[h].device)
         /\ CommitLogin(h) => Known(req[h].device) /\ Strong(h, DeviceRow(req[h].device))
                              /\ Dooms(h, req[h].device)
         /\ CommitRefresh(h) =>
              /\ \A s \in sessions : s.token = req[h].token => s.device = req[h].device
              /\ \E s \in sessions : s.token = req[h].token /\ Strong(h, SessionRow(s))
         /\ CommitRevoke(h) \/ CommitRole(h) =>
              /\ req[h].target # req[h].device
              /\ AccountOf[req[h].target] = AccountOf[req[h].device]
              /\ Strong(h, DeviceRow(req[h].target)) /\ Both(req[h])
              /\ role[req[h].target] # "super_admin"
              /\ role[req[h].device] \in {"super_admin", "admin"}
         /\ CommitRole(h) => role[req[h].device] = "super_admin" /\ req[h].to \in Assignable
         /\ CommitRevoke(h) => Dooms(h, req[h].target)
<1>1. /\ CommitRegister(h) => req[h].pc = "registered" /\ Granted(h)
      /\ CommitLogin(h) => req[h].pc = "login" /\ Granted(h)
      /\ CommitRefresh(h) => req[h].pc = "refresh" /\ Granted(h)
      /\ Logout(h) => req[h].pc = "logout" /\ Granted(h)
      /\ CommitRevoke(h) => req[h].pc = "revoke" /\ Granted(h)
      /\ CommitRole(h) => req[h].pc = "role" /\ Granted(h)
  BY DEF CommitRegister, CommitLogin, CommitRefresh, Logout, CommitRevoke, CommitRole, At
<1>2. req[h] \in Request /\ Granted(h)
  BY <1>1, Shape DEF Committing, IInv
<1>3. Registering(h) /\ SigningIn(h) /\ Refreshing(h) /\ Managing(h)
  BY DEF IInv, Standing
<1>4. CommitRegister(h) => ~Known(req[h].device)
  BY <1>1, <1>3 DEF Registering
<1>5. CommitLogin(h) => Known(req[h].device) /\ Strong(h, DeviceRow(req[h].device))
                        /\ Dooms(h, req[h].device)
  BY <1>1, <1>3 DEF SigningIn
<1>6. CommitRefresh(h) =>
        /\ \A s \in sessions : s.token = req[h].token => s.device = req[h].device
        /\ \E s \in sessions : s.token = req[h].token /\ Strong(h, SessionRow(s))
  BY <1>1, <1>3 DEF Refreshing
<1>7. CommitRevoke(h) \/ CommitRole(h) =>
        /\ req[h].target # req[h].device
        /\ AccountOf[req[h].target] = AccountOf[req[h].device]
        /\ Strong(h, DeviceRow(req[h].target)) /\ Both(req[h])
        /\ role[req[h].target] # "super_admin"
        /\ role[req[h].device] \in {"super_admin", "admin"}
  BY <1>1, <1>3 DEF Managing
<1>8. req[h].to \in Assignable \union {"none"}
  BY <1>2 DEF Request
<1>9. CommitRole(h) => role[req[h].device] = "super_admin" /\ req[h].to \in Assignable
  BY <1>1, <1>3, <1>8 DEF Managing
<1>10. CommitRevoke(h) => Dooms(h, req[h].target)
  BY <1>1, <1>3 DEF Managing
<1>. QED
  BY <1>2, <1>4, <1>5, <1>6, <1>7, <1>9, <1>10

\* Rows of sessions belong to devices with a row and differ in both keys.
LEMMA KeysStep ==
  ASSUME IInv, NEW h \in Handler, Steps(h)
  PROVE  Keys'
<1>. USE DEF TypeOK
<1>. DEFINE new(d) == [id |-> drawn + 1, device |-> d, token |-> drawn + 1]
<1>t. /\ TypeOK /\ Keys /\ drawn \in Nat
      /\ \A s \in sessions : s \in Session /\ s.id \in Nat /\ s.token \in Nat /\ s.device \in Device
  BY AuthAssumption DEF IInv, Session, Token
<1>1. CASE UNCHANGED tables
  BY <1>1, <1>t DEF Keys, tables
<1>2. CASE CommitRegister(h)
  <2>1. req[h].device \in Device
    BY <1>2, Found DEF Committing, Request
  <2>2. /\ sessions' = sessions \union {new(req[h].device)} /\ drawn' = drawn + 1 /\ revoked' = revoked
        /\ role'[req[h].device] = "super_admin" /\ \A d \in Device : role[d] # "none" => role'[d] # "none"
    BY <1>2, <1>t, <2>1 DEF CommitRegister, Granting
  <2>. QED
    BY <1>t, <2>1, <2>2 DEF Keys
<1>3. CASE CommitLogin(h)
  <2>1. req[h].device \in Device
    BY <1>3, Found DEF Committing, Request
  <2>2. /\ sessions' \subseteq sessions \union {new(req[h].device)}
        /\ drawn' = drawn + 1 /\ revoked' \subseteq revoked
        /\ role'[req[h].device] # "none" /\ \A d \in Device : role[d] # "none" => role'[d] # "none"
    BY <1>3, <1>t, <2>1 DEF CommitLogin
  <2>. QED
    BY <1>t, <2>1, <2>2 DEF Keys
<1>4. CASE CommitRefresh(h)
  <2>1. /\ UNCHANGED <<role, revoked>> /\ drawn' = drawn + 1
        /\ sessions' = {IF s.token = req[h].token THEN [s EXCEPT !.token = drawn + 1] ELSE s : s \in sessions}
    BY <1>4 DEF CommitRefresh
  <2>2. ASSUME NEW t \in sessions'
        PROVE  \E s \in sessions : t.id = s.id /\ t.device = s.device
                 /\ \/ t = s /\ s.token # req[h].token
                    \/ t = [s EXCEPT !.token = drawn + 1] /\ t.token = drawn + 1 /\ s.token = req[h].token
    BY <1>t, <2>1 DEF Session
  <2>3. \A s \in sessions' : s.id <= drawn + 1 /\ s.token <= drawn + 1 /\ role[s.device] # "none"
    BY <1>t, <2>2 DEF Keys
  <2>4. ASSUME NEW s \in sessions', NEW t \in sessions', s.id = t.id \/ s.token = t.token
        PROVE  s = t
    <3>1. PICK a \in sessions : s.id = a.id /\ s.device = a.device
             /\ \/ s = a /\ a.token # req[h].token
                \/ s = [a EXCEPT !.token = drawn + 1] /\ s.token = drawn + 1 /\ a.token = req[h].token
      BY <2>2
    <3>2. PICK b \in sessions : t.id = b.id /\ t.device = b.device
             /\ \/ t = b /\ b.token # req[h].token
                \/ t = [b EXCEPT !.token = drawn + 1] /\ t.token = drawn + 1 /\ b.token = req[h].token
      BY <2>2
    <3>3. a.token <= drawn /\ b.token <= drawn /\ a.token \in Nat /\ b.token \in Nat
      BY <1>t DEF Keys
    <3>4. a.id = b.id \/ a.token = b.token
      BY <1>t, <2>4, <3>1, <3>2, <3>3
    <3>5. a = b
      BY <1>t, <3>4 DEF Keys
    <3>. QED
      BY <3>1, <3>2, <3>5
  <2>. QED
    BY <1>t, <2>1, <2>3, <2>4 DEF Keys
<1>5. CASE Logout(h) \/ CommitRevoke(h)
  <2>1. CASE Logout(h)
    BY <1>t, <2>1 DEF Logout, Keys
  <2>2. CASE CommitRevoke(h)
    <3>1. role[req[h].target] # "none" /\ req[h].target \in Device
      BY <2>2, Found DEF Both, Committing, Request
    <3>. QED
      BY <1>t, <2>2, <3>1 DEF CommitRevoke, Keys
  <2>. QED
    BY <1>5, <2>1, <2>2
<1>6. CASE CommitRole(h)
  <2>1. req[h].target \in Device /\ req[h].to \in Assignable
    BY <1>6, Found DEF Committing, Request
  <2>2. UNCHANGED <<revoked, sessions, drawn>> /\ \A d \in Device : role[d] # "none" => role'[d] # "none"
    BY <1>6, <1>t, <2>1 DEF CommitRole, Assignable
  <2>. QED
    BY <1>t, <2>2 DEF Keys
<1>. QED
  BY <1>1, <1>2, <1>3, <1>4, <1>5, <1>6, OnlyCommitsWrite DEF Committing

\* d is the only super admin of e's account, and is not revoked.
Sole(d, e) ==
  /\ d \notin revoked /\ AccountOf[d] = AccountOf[e]
  /\ \A f \in Device : AccountOf[f] = AccountOf[e] => (role[f] = "super_admin" <=> f = d)

LEMMA SuperAdminStep ==
  ASSUME IInv, NEW h \in Handler, Steps(h)
  PROVE  OneSuperAdmin'
<1>. USE DEF TypeOK
<1>t. TypeOK /\ Keys
  BY DEF IInv
<1>o. ASSUME NEW e \in Device, role[e] # "none"
      PROVE  \E d \in Device : Sole(d, e)
  <2>1. AccountOf[e] \in Accounts
    BY <1>o DEF Accounts
  <2>2. PICK d \in Device \ revoked :
          {f \in Device : AccountOf[f] = AccountOf[e] /\ role[f] = "super_admin"} = {d}
    BY <2>1 DEF IInv, OneSuperAdmin
  <2>. QED
    BY <2>2 DEF Sole
<1>. SUFFICES ASSUME NEW e \in Device, role'[e] # "none"
              PROVE  \E d \in Device : Sole(d, e)'
  <2>1. ASSUME NEW a \in Accounts'
        PROVE  \E d \in Device \ revoked' :
                 {f \in Device : AccountOf[f] = a /\ role'[f] = "super_admin"} = {d}
    <3>1. PICK e \in Device : role'[e] # "none" /\ a = AccountOf[e]
      BY <2>1 DEF Accounts
    <3>2. PICK d \in Device : Sole(d, e)'
      BY <3>1
    <3>. QED
      BY <3>1, <3>2 DEF Sole
  <2>. QED
    BY <2>1 DEF OneSuperAdmin
<1>1. CASE role' = role /\ revoked' \subseteq revoked
  BY <1>1, <1>o DEF Sole
<1>2. CASE CommitRegister(h)
  <2>0. PICK n \in Device : n = req[h].device
    BY <1>2, Found DEF Committing, Request
  <2>1. ~Known(n)
    BY <1>2, <2>0, Found DEF Committing
  <2>2. \A f \in Device : AccountOf[f] = AccountOf[n] => role[f] = "none"
    BY <2>1 DEF Known, Accounts
  <2>3. role' = [role EXCEPT ![n] = "super_admin"] /\ revoked' = revoked
    BY <1>2, <2>0 DEF CommitRegister
  <2>4. CASE AccountOf[e] = AccountOf[n]
    <3>1. n \notin revoked
      BY <1>t, <2>1, <2>2 DEF Keys
    <3>2. Sole(n, e)'
      BY <1>t, <2>1, <2>2, <2>3, <2>4, <3>1 DEF Sole
    <3>. QED
      BY <2>1, <3>2
  <2>5. CASE AccountOf[e] # AccountOf[n]
    <3>1. role[e] # "none"
      BY <1>t, <2>1, <2>3, <2>5
    <3>2. PICK d \in Device : Sole(d, e)
      BY <1>o, <3>1
    <3>3. Sole(d, e)'
      BY <1>t, <2>1, <2>3, <2>5, <3>2 DEF Sole
    <3>. QED
      BY <3>3
  <2>. QED
    BY <2>4, <2>5
<1>3. CASE CommitLogin(h)
  <2>. DEFINE n == req[h].device
  <2>1. n \in Device /\ Known(n)
    BY <1>3, Found DEF Committing, Request
  <2>2. PICK k \in Device : role[k] # "none" /\ AccountOf[k] = AccountOf[n]
    BY <2>1 DEF Known, Accounts
  <2>3. role' = [role EXCEPT ![n] = IF @ = "none" THEN "member" ELSE @] /\ revoked' = revoked \ {n}
    BY <1>3 DEF CommitLogin
  <2>. HIDE DEF n
  <2>4. \E d \in Device : Sole(d, e)
    <3>1. CASE role[e] # "none"
      BY <1>o, <3>1
    <3>2. CASE role[e] = "none"
      <4>1. AccountOf[e] = AccountOf[k]
        BY <1>t, <2>1, <2>2, <2>3, <3>2
      <4>2. PICK d \in Device : Sole(d, k)
        BY <1>o, <2>2
      <4>. QED
        BY <4>1, <4>2 DEF Sole
    <3>. QED
      BY <3>1, <3>2
  <2>5. PICK d \in Device : Sole(d, e)
    BY <2>4
  <2>6. Sole(d, e)'
    BY <1>t, <2>1, <2>3, <2>5 DEF Sole
  <2>. QED
    BY <2>6
<1>4. CASE CommitRevoke(h) \/ CommitRole(h)
  <2>. DEFINE n == req[h].target
  <2>1. n \in Device /\ role[n] # "super_admin" /\ role[n] # "none"
    BY <1>4, Found DEF Committing, Request, Both
  <2>2. CASE CommitRevoke(h)
    <3>1. role' = role /\ revoked' = revoked \union {n}
      BY <2>2 DEF CommitRevoke
    <3>. HIDE DEF n
    <3>2. PICK d \in Device : Sole(d, e)
      BY <1>o, <3>1
    <3>3. d # n
      BY <2>1, <3>2 DEF Sole
    <3>. QED
      BY <3>1, <3>2, <3>3 DEF Sole
  <2>3. CASE CommitRole(h)
    <3>. DEFINE to == req[h].to
    <3>1. role' = [role EXCEPT ![n] = to] /\ revoked' = revoked
      BY <2>3 DEF CommitRole
    <3>2. to # "super_admin"
      BY <2>3, Found DEF Committing, Assignable
    <3>. HIDE DEF n, to
    <3>3. role[e] # "none"
      BY <1>t, <2>1, <3>1
    <3>4. PICK d \in Device : Sole(d, e)
      BY <1>o, <3>3
    <3>5. Sole(d, e)'
      BY <1>t, <2>1, <3>1, <3>2, <3>4 DEF Sole
    <3>. QED
      BY <3>5
  <2>. QED
    BY <1>4, <2>2, <2>3
<1>5. CASE Logout(h) \/ CommitRefresh(h) \/ UNCHANGED tables
  BY <1>1, <1>5 DEF Logout, CommitRefresh, tables
<1>. QED
  BY <1>2, <1>3, <1>4, <1>5, OnlyCommitsWrite DEF Committing

\* What a transaction dooms is all that its device had.
LEMMA OneSessionStep ==
  ASSUME IInv, NEW h \in Handler, Steps(h)
  PROVE  OneSessionPerDevice'
<1>. USE DEF TypeOK
<1>. DEFINE new(d) == [id |-> drawn + 1, device |-> d, token |-> drawn + 1]
<1>t. /\ TypeOK /\ Keys /\ OneSessionPerDevice
      /\ \A s \in sessions : s \in Session /\ s.device \in Device
  BY DEF IInv, Session
<1>1. CASE revoked' = revoked /\ sessions' \subseteq sessions
  BY <1>1, <1>t DEF OneSessionPerDevice
<1>2. CASE CommitRegister(h)
  <2>1. /\ role[req[h].device] = "none"
        /\ sessions' = sessions \union {new(req[h].device)} /\ revoked' = revoked
    <3>1. req[h].device \in Device /\ ~Known(req[h].device)
      BY <1>2, Found DEF Committing, Request
    <3>. QED
      BY <1>2, <3>1 DEF CommitRegister, Granting, Known, Accounts
  <2>2. req[h].device \notin revoked /\ \A s \in sessions : s.device # req[h].device
    BY <1>t, <2>1 DEF Keys
  <2>. QED
    BY <1>t, <2>1, <2>2 DEF OneSessionPerDevice
<1>3. CASE CommitLogin(h)
  <2>1. /\ \A s \in sessions : s.device = req[h].device <=> s \in req[h].doomed
        /\ sessions' = (sessions \ req[h].doomed) \union {new(req[h].device)}
        /\ revoked' = revoked \ {req[h].device}
    BY <1>3, Found DEF Committing, CommitLogin, Dooms, SessionsOf
  <2>. QED
    BY <1>t, <2>1 DEF OneSessionPerDevice
<1>4. CASE CommitRefresh(h)
  <2>1. /\ sessions' = {IF s.token = req[h].token THEN [s EXCEPT !.token = drawn + 1] ELSE s : s \in sessions}
        /\ revoked' = revoked
    BY <1>4 DEF CommitRefresh
  <2>2. ASSUME NEW t \in sessions'
        PROVE  \E s \in sessions : t.device = s.device
                 /\ t = IF s.token = req[h].token THEN [s EXCEPT !.token = drawn + 1] ELSE s
    BY <1>t, <2>1 DEF Session
  <2>. QED
    BY <1>t, <2>1, <2>2 DEF OneSessionPerDevice
<1>5. CASE CommitRevoke(h)
  <2>1. /\ \A s \in sessions : s.device = req[h].target => s \in req[h].doomed
        /\ sessions' = sessions \ req[h].doomed /\ revoked' = revoked \union {req[h].target}
    BY <1>5, Found DEF Committing, CommitRevoke, Dooms, SessionsOf
  <2>. QED
    BY <1>t, <2>1 DEF OneSessionPerDevice
<1>6. CASE Logout(h) \/ CommitRole(h) \/ UNCHANGED tables
  BY <1>1, <1>6 DEF Logout, CommitRole, tables
<1>. QED
  BY <1>2, <1>3, <1>4, <1>5, <1>6, OnlyCommitsWrite DEF Committing

-----------------------------------------------------------------------------
(* The standing of the others. What g has looked at is as it was, because  *)
(* g has locked it.                                                        *)

Untouched(g) ==
  /\ Accounts \subseteq Accounts' /\ drawn <= drawn'
  /\ \A d \in Device : Strong(g, DeviceRow(d)) /\ role[d] # "none" =>
       role'[d] = role[d] /\ (d \in revoked' => d \in revoked)
  /\ \A s \in sessions : Strong(g, SessionRow(s)) => s \in sessions'
  /\ \A t \in sessions' :
       \/ t \in sessions
       \/ \E s \in sessions : /\ ~Strong(g, SessionRow(s))
                              /\ t.id = s.id /\ t.device = s.device /\ t.token = drawn + 1
       \/ /\ t.id = drawn + 1 /\ t.token = drawn + 1 /\ t.device \in Device
          /\ ~Strong(g, DeviceRow(t.device)) \/ ~Known(t.device)

LEMMA Rows ==
  /\ \A d \in Device : DeviceRow(d) \in Row /\ UserRow(d) \in Row
  /\ \A s \in Session : SessionRow(s) \in Row
  /\ <<"registration">> \in Row
BY DEF Row, DeviceRow, UserRow, SessionRow, Session

\* What h has locked, g has not.
LEMMA NotBoth ==
  ASSUME IInv, NEW g \in Handler, NEW h \in Handler, g # h
  PROVE  /\ \A d \in Device : /\ ~(Strong(g, DeviceRow(d)) /\ Strong(h, DeviceRow(d)))
                              /\ ~(Strong(g, UserRow(d)) /\ Strong(h, UserRow(d)))
         /\ \A s \in sessions : ~(Strong(g, SessionRow(s)) /\ Strong(h, SessionRow(s)))
         /\ ~(Strong(g, <<"registration">>) /\ Strong(h, <<"registration">>))
BY Rows DEF IInv, Exclusive, TypeOK

LEMMA UntouchedStep ==
  ASSUME IInv, NEW g \in Handler, NEW h \in Handler, g # h, Steps(h)
  PROVE  Untouched(g)
<1>t. /\ TypeOK /\ Keys /\ drawn \in Nat /\ drawn <= drawn + 1
      /\ role \in [Device -> Role \union {"none"}]
      /\ \A s \in sessions : s \in Session /\ s.device \in Device
  BY AuthAssumption DEF IInv, Session, TypeOK
<1>1. CASE UNCHANGED tables
  BY <1>1, <1>t DEF tables, Untouched, Accounts
<1>2. CASE CommitRegister(h)
  <2>1. PICK d \in Device : d = req[h].device /\ ~Known(d)
    BY <1>2, Found DEF Committing, Request
  <2>2. /\ role' = [role EXCEPT ![d] = "super_admin"] /\ revoked' = revoked /\ drawn' = drawn + 1
        /\ sessions' = sessions \union {[id |-> drawn + 1, device |-> d, token |-> drawn + 1]}
    BY <1>2, <2>1 DEF CommitRegister, Granting
  <2>3. role[d] = "none"
    BY <2>1 DEF Known, Accounts
  <2>4. Accounts \subseteq Accounts'
    BY <1>t, <2>2, <2>3 DEF Accounts
  <2>. QED
    BY <1>t, <2>1, <2>2, <2>3, <2>4 DEF Untouched
<1>3. CASE CommitLogin(h)
  <2>1. PICK d \in Device : d = req[h].device /\ Strong(h, DeviceRow(d))
    BY <1>3, Found DEF Committing, Request
  <2>2. /\ role' = [role EXCEPT ![d] = IF @ = "none" THEN "member" ELSE @] /\ revoked' \subseteq revoked
        /\ drawn' = drawn + 1
        /\ sessions' = (sessions \ req[h].doomed)
                         \union {[id |-> drawn + 1, device |-> d, token |-> drawn + 1]}
    BY <1>3, <2>1 DEF CommitLogin
  <2>3. ~Strong(g, DeviceRow(d))
    BY <2>1, NotBoth
  <2>4. \A s \in sessions : Strong(g, SessionRow(s)) => s \notin req[h].doomed
    BY <1>3, Found, NotBoth DEF Committing, Dooms
  <2>5. Accounts \subseteq Accounts'
    BY <1>t, <2>2 DEF Accounts
  <2>. QED
    BY <1>t, <2>1, <2>2, <2>3, <2>4, <2>5 DEF Untouched
<1>4. CASE CommitRefresh(h)
  <2>1. /\ UNCHANGED <<role, revoked>> /\ drawn' = drawn + 1
        /\ sessions' = {IF s.token = req[h].token THEN [s EXCEPT !.token = drawn + 1] ELSE s : s \in sessions}
    BY <1>4 DEF CommitRefresh
  <2>2. \A s \in sessions : s.token = req[h].token => ~Strong(g, SessionRow(s))
    <3>1. PICK o \in sessions : o.token = req[h].token /\ Strong(h, SessionRow(o))
      BY <1>4, Found DEF Committing
    <3>. QED
      BY <1>t, <3>1, NotBoth DEF Keys
  <2>3. ASSUME NEW t \in sessions', t \notin sessions
        PROVE  \E s \in sessions : /\ ~Strong(g, SessionRow(s))
                                   /\ t.id = s.id /\ t.device = s.device /\ t.token = drawn + 1
    <3>1. PICK s \in sessions : t = IF s.token = req[h].token THEN [s EXCEPT !.token = drawn + 1] ELSE s
      BY <2>1, <2>3
    <3>2. t = [s EXCEPT !.token = drawn + 1] /\ s.token = req[h].token /\ s \in Session
      BY <1>t, <2>3, <3>1
    <3>. QED
      BY <2>2, <3>2 DEF Session
  <2>4. \A s \in sessions : Strong(g, SessionRow(s)) => s \in sessions'
    BY <2>1, <2>2
  <2>5. Accounts' = Accounts
    BY <2>1 DEF Accounts
  <2>. QED
    BY <1>t, <2>1, <2>3, <2>4, <2>5 DEF Untouched
<1>5. CASE Logout(h)
  <2>1. UNCHANGED <<role, revoked, drawn>> /\ sessions' = {s \in sessions : s.id # req[h].token}
    BY <1>5 DEF Logout
  <2>2. ASSUME NEW s \in sessions, s.id = req[h].token
        PROVE  ~Strong(g, SessionRow(s))
    <3>1. SUFFICES ASSUME NEW k \in held[g], k.row = SessionRow(s), k.mode \in {"update", "nokey"}
                   PROVE  FALSE
      BY DEF Strong
    <3>2. req[h].pc = "logout" /\ Granted(h)
      BY <1>5 DEF Logout, At
    <3>. DEFINE l == [row |-> SessionRow(s), mode |-> "nokey"]
    <3>3. Wanted(h) = For({<<"session", t.id>> : t \in {t \in sessions : t.id = req[h].token}}, "nokey")
      BY <3>2 DEF Wanted, Locks
    <3>4. l \in Wanted(h)
      BY <2>2, <3>3 DEF For, SessionRow
    <3>5. {l.mode, k.mode} # {"share"} /\ {l.mode, k.mode} # {"share", "nokey"}
      BY <3>1
    <3>6. WaitsFor(h, g)
      BY <3>1, <3>4, <3>5 DEF WaitsFor, Clash
    <3>. QED
      BY <3>2, <3>6 DEF Granted
  <2>3. Accounts' = Accounts
    BY <2>1 DEF Accounts
  <2>. QED
    BY <1>t, <2>1, <2>2, <2>3 DEF Untouched
<1>6. CASE CommitRevoke(h)
  <2>1. PICK d \in Device : d = req[h].target /\ Strong(h, DeviceRow(d))
    BY <1>6, Found DEF Committing, Request
  <2>2. /\ UNCHANGED <<role, drawn>> /\ revoked' = revoked \union {d}
        /\ sessions' = sessions \ req[h].doomed
    BY <1>6, <2>1 DEF CommitRevoke
  <2>3. ~Strong(g, DeviceRow(d))
    BY <2>1, NotBoth
  <2>4. \A s \in sessions : Strong(g, SessionRow(s)) => s \notin req[h].doomed
    BY <1>6, Found, NotBoth DEF Committing, Dooms
  <2>5. Accounts' = Accounts
    BY <2>2 DEF Accounts
  <2>. QED
    BY <1>t, <2>1, <2>2, <2>3, <2>4, <2>5 DEF Untouched
<1>7. CASE CommitRole(h)
  <2>1. PICK d \in Device : d = req[h].target /\ Strong(h, DeviceRow(d)) /\ req[h].to \in Assignable
    BY <1>7, Found DEF Committing, Request
  <2>2. UNCHANGED <<revoked, sessions, drawn>> /\ role' = [role EXCEPT ![d] = req[h].to]
    BY <1>7, <2>1 DEF CommitRole
  <2>3. ~Strong(g, DeviceRow(d))
    BY <2>1, NotBoth
  <2>4. Accounts \subseteq Accounts'
    BY <1>t, <2>1, <2>2 DEF Accounts, Assignable
  <2>. QED
    BY <1>t, <2>1, <2>2, <2>3, <2>4 DEF Untouched
<1>. QED
  BY <1>1, <1>2, <1>3, <1>4, <1>5, <1>6, <1>7, OnlyCommitsWrite DEF Committing

\* Only a registration adds an account.
LEMMA AccountsStep ==
  ASSUME IInv, NEW h \in Handler, Steps(h), ~CommitRegister(h)
  PROVE  Accounts' = Accounts
<1>t. role \in [Device -> Role \union {"none"}]
  BY DEF IInv, TypeOK
<1>1. CASE UNCHANGED tables \/ CommitRefresh(h) \/ Logout(h) \/ CommitRevoke(h)
  BY <1>1 DEF tables, CommitRefresh, Logout, CommitRevoke, Accounts
<1>2. CASE CommitLogin(h)
  <2>1. PICK d \in Device : d = req[h].device /\ Known(d)
    BY <1>2, Found DEF Committing, Request
  <2>2. PICK k \in Device : role[k] # "none" /\ AccountOf[k] = AccountOf[d]
    BY <2>1 DEF Known, Accounts
  <2>3. role' = [role EXCEPT ![d] = IF @ = "none" THEN "member" ELSE @]
    BY <1>2, <2>1 DEF CommitLogin
  <2>. QED
    BY <1>t, <2>2, <2>3 DEF Accounts
<1>3. CASE CommitRole(h)
  <2>1. PICK d \in Device : d = req[h].target /\ role[d] # "none" /\ req[h].to \in Assignable
    BY <1>3, Found DEF Committing, Request, Both
  <2>2. role' = [role EXCEPT ![d] = req[h].to]
    BY <1>3, <2>1 DEF CommitRole
  <2>. QED
    BY <1>t, <2>1, <2>2 DEF Accounts, Assignable
<1>. QED
  BY <1>1, <1>2, <1>3, OnlyCommitsWrite DEF Committing

LEMMA OthersStand ==
  ASSUME IInv, NEW g \in Handler, NEW h \in Handler, g # h, Steps(h)
  PROVE  Standing(g)'
<1>a. req'[g] = req[g] /\ held'[g] = held[g]
  BY OthersAlone DEF IInv
<1>b. \A row : Strong(g, row)' <=> Strong(g, row)
  BY <1>a DEF Strong
<1>c. TypeOK /\ Standing(g) /\ Untouched(g)
  BY UntouchedStep DEF IInv
<1>d. req[g].pc # "idle" =>
        /\ req[g] \in Request /\ req[g].device \in Device /\ req[g].target \in Device
        /\ req[g].token \in Nat
  BY <1>c, Shape, AuthAssumption DEF Request
<1>n. drawn \in Nat /\ drawn' \in Nat /\ drawn' >= drawn
  BY <1>c, TablesTyped, AuthAssumption DEF IInv, TypeOK, Untouched
<1>1. Registering(g)'
  <2>1. CASE ~CommitRegister(h)
    BY <1>a, <1>b, <1>c, <2>1, AccountsStep DEF Standing, Registering, Known
  <2>2. CASE CommitRegister(h)
    <3>1. /\ req[h].pc = "registered" /\ req[h] \in Request
          /\ role' = [role EXCEPT ![req[h].device] = "super_admin"]
      BY <2>2, Found DEF CommitRegister, At, Committing
    <3>2. /\ Strong(h, UserRow(req[h].device))
          /\ MaxUsers # 0 => Strong(h, <<"registration">>)
      BY <3>1 DEF IInv, Standing, Registering
    <3>3. req[g].pc \in {"insert", "registered"} => MaxUsers = 0
      BY <1>c, <3>2, NotBoth DEF Standing, Registering
    <3>4. ASSUME req[g].pc = "registered"
          PROVE  ~Known(req[g].device)'
      <4>1. ~Known(req[g].device) /\ Strong(g, UserRow(req[g].device))
        BY <1>c, <3>4 DEF Standing, Registering
      <4>2. AccountOf[req[g].device] # AccountOf[req[h].device]
        BY <1>d, <3>1, <3>2, <3>4, <4>1, NotBoth DEF UserRow, Request
      <4>. QED
        BY <1>a, <1>c, <3>1, <4>1, <4>2 DEF Known, Accounts, TypeOK
    <3>5. req'[g].pc = "registered" => Strong(g, UserRow(req[g].device))'
      BY <1>a, <1>b, <1>c DEF Standing, Registering, UserRow
    <3>. QED
      BY <1>a, <3>3, <3>4, <3>5 DEF Registering, UserRow, Known
  <2>. QED
    BY <2>1, <2>2
<1>2. ASSUME NEW d \in Device, Dooms(g, d), Known(d), Strong(g, DeviceRow(d))
      PROVE  /\ \A t \in sessions' : t.device = d => t \in req'[g].doomed
             /\ \A s \in req'[g].doomed : s.device = d /\ Strong(g, SessionRow(s))'
  <2>1. \A s \in req'[g].doomed : s.device = d /\ Strong(g, SessionRow(s))'
    BY <1>2, <1>a, <1>b DEF Dooms, SessionRow
  <2>2. ASSUME NEW t \in sessions', t.device = d
        PROVE  t \in req[g].doomed
    <3>1. CASE t \in sessions
      BY <1>2, <2>2, <3>1 DEF Dooms, SessionsOf
    <3>2. CASE \E s \in sessions : ~Strong(g, SessionRow(s)) /\ t.device = s.device
      BY <1>2, <2>2, <3>2 DEF Dooms, SessionsOf
    <3>. QED
      BY <1>2, <1>c, <2>2, <3>1, <3>2 DEF Untouched
  <2>. QED
    BY <1>a, <2>1, <2>2
<1>3. SigningIn(g)'
  <2>1. \A d : Known(d) => Known(d)'
    BY <1>c DEF Untouched, Known
  <2>2. /\ req'[g].pc \in {"upsert", "clear", "event", "login"} => Known(req[g].device)'
        /\ req'[g].pc \in {"clear", "event", "login"} => Strong(g, DeviceRow(req[g].device))'
    BY <1>a, <1>b, <1>c, <2>1 DEF Standing, SigningIn, DeviceRow, Known
  <2>3. ASSUME req'[g].pc \in {"event", "login"}
        PROVE  Dooms(g, req[g].device)'
    <3>1. /\ req[g].device \in Device /\ Dooms(g, req[g].device) /\ Known(req[g].device)
          /\ Strong(g, DeviceRow(req[g].device))
      BY <1>a, <1>c, <1>d, <2>3 DEF Standing, SigningIn
    <3>. QED
      BY <1>2, <1>a, <3>1 DEF Dooms, SessionsOf
  <2>. QED
    BY <1>a, <2>2, <2>3 DEF SigningIn
<1>4. Refreshing(g)'
  <2>1. ASSUME req[g].pc \in {"find", "user", "device", "refresh"}
        PROVE  req[g].token <= drawn' /\ \A t \in sessions' : t.token = req[g].token => t.device = req[g].device
    <3>1. req[g].token <= drawn /\ \A s \in sessions : s.token = req[g].token => s.device = req[g].device
      BY <1>c, <2>1 DEF Standing, Refreshing
    <3>2. req[g].token <= drawn' /\ req[g].token # drawn + 1
      BY <1>d, <1>n, <2>1, <3>1
    <3>. QED
      BY <1>c, <3>1, <3>2 DEF Untouched
  <2>2. req[g].pc \in {"user", "device", "refresh"} =>
          \E s \in sessions' : s.token = req[g].token /\ Strong(g, SessionRow(s))'
    BY <1>b, <1>c DEF Standing, Refreshing, Untouched, SessionRow
  <2>3. req[g].pc = "refresh" => Strong(g, DeviceRow(req[g].device))'
    BY <1>a, <1>b, <1>c DEF Standing, Refreshing, DeviceRow
  <2>. QED
    BY <1>a, <2>1, <2>2, <2>3 DEF Refreshing, DeviceRow, SessionRow
<1>5. LoggingOut(g)'
  <2>1. ASSUME req[g].pc = "logout"
        PROVE  req[g].token <= drawn' /\ \A t \in sessions' : t.id = req[g].token => t.device = req[g].device
    <3>1. req[g].token <= drawn /\ \A s \in sessions : s.id = req[g].token => s.device = req[g].device
      BY <1>c, <2>1 DEF Standing, LoggingOut
    <3>2. req[g].token <= drawn' /\ req[g].token # drawn + 1
      BY <1>d, <1>n, <2>1, <3>1
    <3>. QED
      BY <1>c, <3>1, <3>2 DEF Untouched
  <2>. QED
    BY <1>a, <2>1 DEF LoggingOut
<1>6. Managing(g)'
  <2>1. /\ req[g].pc \in {"actor", "target", "close", "revoke", "role"} =>
             req[g].target # req[g].device /\ AccountOf[req[g].target] = AccountOf[req[g].device]
        /\ req[g].pc \in {"target", "close", "revoke", "role"} => Strong(g, DeviceRow(req[g].device))'
    BY <1>a, <1>b, <1>c DEF Standing, Managing, DeviceRow
  <2>2. ASSUME req[g].pc \in {"close", "revoke", "role"}
        PROVE  /\ Strong(g, DeviceRow(req[g].target))' /\ Both(req[g])'
               /\ role'[req[g].target] = role[req[g].target]
               /\ role'[req[g].device] = role[req[g].device]
               /\ role[req[g].target] # "super_admin"
               /\ role[req[g].device] \in {"super_admin", "admin"}
    <3>1. /\ Strong(g, DeviceRow(req[g].target)) /\ Both(req[g])
          /\ Strong(g, DeviceRow(req[g].device))
          /\ role[req[g].target] # "super_admin"
          /\ role[req[g].device] \in {"super_admin", "admin"}
      BY <1>c, <2>2 DEF Standing, Managing
    <3>2. role[req[g].target] # "none" /\ role[req[g].device] # "none"
      BY <3>1 DEF Both
    <3>3. /\ role'[req[g].target] = role[req[g].target] /\ role'[req[g].device] = role[req[g].device]
          /\ req[g].target \notin revoked' /\ req[g].device \notin revoked'
      BY <1>c, <1>d, <2>2, <3>1, <3>2 DEF Untouched, Both
    <3>4. Strong(g, DeviceRow(req[g].target))'
      BY <1>a, <1>b, <3>1 DEF DeviceRow
    <3>5. Both(req[g])'
      BY <1>a, <3>2, <3>3 DEF Both
    <3>. QED
      BY <3>1, <3>3, <3>4, <3>5
  <2>3. req[g].pc = "role" => role'[req[g].device] = "super_admin" /\ req[g].to # "none"
    BY <1>c, <2>2 DEF Standing, Managing
  <2>4. ASSUME req[g].pc = "revoke"
        PROVE  Dooms(g, req[g].target)'
    <3>1. /\ req[g].target \in Device /\ Dooms(g, req[g].target) /\ role[req[g].target] # "none"
          /\ Strong(g, DeviceRow(req[g].target))
      BY <1>c, <1>d, <2>4 DEF Standing, Managing, Both
    <3>2. Known(req[g].target)
      BY <3>1 DEF Known, Accounts
    <3>. QED
      BY <1>2, <1>a, <3>1, <3>2 DEF Dooms, SessionsOf
  <2>. QED
    BY <1>a, <2>1, <2>2, <2>3, <2>4 DEF Managing, DeviceRow
<1>. QED
  BY <1>1, <1>3, <1>4, <1>5, <1>6 DEF Standing

-----------------------------------------------------------------------------
(* The standing of the handler itself.                                     *)

\* The request stays what it is, and keeps what it has locked.
LEMMA Onward ==
  ASSUME TypeOK, NEW h \in Handler, req[h].pc # "idle", NEW p \in Step, Proceed(h, Go(p, h))
  PROVE  /\ UNCHANGED tables
         /\ req'[h].pc = p /\ req'[h].device = req[h].device /\ req'[h].target = req[h].target
         /\ req'[h].token = req[h].token /\ req'[h].to = req[h].to /\ req'[h].doomed = req[h].doomed
         /\ held'[h] = held[h] \union Wanted(h)
         /\ \A row : Strong(h, row) => Strong(h, row)'
<1>1. req[h] \in Request
  BY Shape
<1>2. held'[h] = held[h] \union Wanted(h) /\ UNCHANGED tables /\ req'[h] = Go(p, h)
  BY DEF Proceed, TypeOK
<1>. QED
  BY <1>1, <1>2 DEF Strong, Go, Request

LEMMA OnwardDooming ==
  ASSUME TypeOK, NEW h \in Handler, req[h].pc # "idle", NEW p \in Step, NEW D \in SUBSET Session,
         Proceed(h, [Go(p, h) EXCEPT !.doomed = D])
  PROVE  /\ UNCHANGED tables
         /\ req'[h].pc = p /\ req'[h].device = req[h].device /\ req'[h].target = req[h].target
         /\ req'[h].token = req[h].token /\ req'[h].to = req[h].to /\ req'[h].doomed = D
         /\ held'[h] = held[h] \union Wanted(h)
         /\ \A row : Strong(h, row) => Strong(h, row)'
<1>1. req[h] \in Request
  BY Shape
<1>2. /\ held'[h] = held[h] \union Wanted(h) /\ UNCHANGED tables
      /\ req'[h] = [Go(p, h) EXCEPT !.doomed = D]
  BY DEF Proceed, TypeOK
<1>. QED
  BY <1>1, <1>2 DEF Strong, Go, Request

\* What it wanted with a strong lock is its own.
LEMMA Obtains ==
  ASSUME NEW h \in Handler, held'[h] = held[h] \union Wanted(h), NEW rows,
         NEW mode \in {"update", "nokey"}, For(rows, mode) \subseteq Wanted(h)
  PROVE  \A row \in rows : Strong(h, row)'
<1>. SUFFICES ASSUME NEW row \in rows
              PROVE  \E l \in held'[h] : l.row = row /\ l.mode \in {"update", "nokey"}
  BY DEF Strong
<1>1. [row |-> row, mode |-> mode] \in held'[h]
  BY DEF For
<1>. QED
  BY <1>1

\* A request that stands nowhere.
LEMMA IdleStands ==
  ASSUME NEW h \in Handler, req'[h] = NoRequest
  PROVE  Standing(h)'
<1>1. req'[h].pc = "idle"
  BY DEF NoRequest
<1>2. Registering(h)' /\ LoggingOut(h)'
  BY <1>1 DEF Registering, LoggingOut
<1>3. SigningIn(h)'
  BY <1>1 DEF SigningIn
<1>4. Refreshing(h)' /\ Managing(h)'
  BY <1>1 DEF Refreshing, Managing
<1>. QED
  BY <1>2, <1>3, <1>4 DEF Standing

LEMMA ArrivalStands ==
  ASSUME IInv, NEW h \in Handler, Begin(h)
  PROVE  Standing(h)'
<1>t. TypeOK /\ Keys /\ Standing(h)
  BY DEF IInv
<1>. DEFINE New(p, d, e, t) ==
       /\ req'[h].pc = p /\ req'[h].device = d /\ req'[h].target = e /\ req'[h].token = t
       /\ UNCHANGED <<role, revoked, sessions, drawn>>
<1>1. ASSUME NEW p, NEW d, NEW e, NEW t, NEW to, Arrive(h, <<p, d, e, t, to>>)
      PROVE  New(p, d, e, t)
  BY <1>1, <1>t DEF Arrive, tables, TypeOK
<1>2. CASE Unauthorized(h)
  <2>1. UNCHANGED vars
    BY <1>2 DEF Unauthorized
  <2>2. Registering(h)'
    BY <1>t, <2>1 DEF vars, tables, Standing, Registering, Known, Accounts, Strong, UserRow
  <2>3. SigningIn(h)'
    BY <1>t, <2>1 DEF vars, tables, Standing, SigningIn, Known, Accounts, Strong, DeviceRow,
                      Dooms, SessionsOf, SessionRow
  <2>4. Refreshing(h)' /\ LoggingOut(h)'
    BY <1>t, <2>1 DEF vars, tables, Standing, Refreshing, LoggingOut, Strong, DeviceRow, SessionRow
  <2>5. Managing(h)'
    BY <1>t, <2>1 DEF vars, tables, Standing, Managing, Both, Strong, DeviceRow, Dooms, SessionsOf, SessionRow
  <2>. QED
    BY <2>2, <2>3, <2>4, <2>5 DEF Standing
<1>3. ASSUME NEW d \in Device, SignIn(h, d)
      PROVE  Standing(h)'
  <2>1. \/ New("register", d, d, 0)
        \/ New("upsert", d, d, 0) /\ Known(d)
    BY <1>1, <1>3 DEF SignIn
  <2>2. Known(d)' <=> Known(d)
    BY <2>1 DEF Known, Accounts
  <2>3. SigningIn(h)'
    BY <2>1, <2>2 DEF SigningIn, Known
  <2>4. Registering(h)' /\ Refreshing(h)' /\ LoggingOut(h)' /\ Managing(h)'
    BY <2>1 DEF Registering, Refreshing, LoggingOut, Managing
  <2>. QED
    BY <2>3, <2>4 DEF Standing
<1>4. ASSUME NEW s \in sessions, StartRefresh(h, s)
      PROVE  Standing(h)'
  <2>1. New("find", s.device, s.device, s.token)
    BY <1>1, <1>4 DEF StartRefresh
  <2>2. Refreshing(h)'
    BY <1>t, <2>1 DEF Refreshing, Keys
  <2>3. Registering(h)' /\ SigningIn(h)' /\ LoggingOut(h)' /\ Managing(h)'
    BY <2>1 DEF Registering, SigningIn, LoggingOut, Managing
  <2>. QED
    BY <2>2, <2>3 DEF Standing
<1>5. ASSUME NEW s \in sessions, StartLogout(h, s)
      PROVE  Standing(h)'
  <2>1. New("logout", s.device, s.device, s.id)
    BY <1>1, <1>5 DEF StartLogout
  <2>2. LoggingOut(h)'
    BY <1>t, <2>1 DEF LoggingOut, Keys
  <2>3. Registering(h)' /\ SigningIn(h)' /\ Refreshing(h)' /\ Managing(h)'
    BY <2>1 DEF Registering, SigningIn, Refreshing, Managing
  <2>. QED
    BY <2>2, <2>3 DEF Standing
<1>6. ASSUME NEW s \in sessions, NEW d \in Device, NEW to, Manage(h, s, d, to)
      PROVE  Standing(h)'
  <2>1. New("actor", s.device, d, 0) /\ d # s.device /\ AccountOf[d] = AccountOf[s.device]
    BY <1>1, <1>6 DEF Manage
  <2>2. Managing(h)'
    BY <2>1 DEF Managing
  <2>3. Registering(h)' /\ SigningIn(h)' /\ Refreshing(h)' /\ LoggingOut(h)'
    BY <2>1 DEF Registering, SigningIn, Refreshing, LoggingOut
  <2>. QED
    BY <2>2, <2>3 DEF Standing
<1>. QED
  BY <1>2, <1>3, <1>4, <1>5, <1>6 DEF Begin, Principals

LEMMA RegisterStands ==
  ASSUME IInv, NEW h \in Handler, CheckLimit(h) \/ InsertUser(h)
  PROVE  Standing(h)'
<1>t. TypeOK /\ Standing(h) /\ req[h].pc # "idle" /\ req[h] \in Request /\ req[h].doomed \in SUBSET Session
  BY Shape DEF IInv, CheckLimit, InsertUser, At, Request
<1>n. Cardinality(Accounts) \in Nat /\ MaxUsers \in Nat /\ {"insert", "registered"} \subseteq Step
  BY FS_CardinalityType, AuthAssumption DEF IInv, Step
<1>1. CASE Refuse(h)
  BY <1>1, <1>t, IdleStands DEF Refuse, Ends, TypeOK
<1>2. CASE LoginInstead(h) /\ Known(req[h].device)
  <2>1. /\ req'[h].pc = "upsert" /\ req'[h].device = req[h].device /\ UNCHANGED tables
    BY <1>2, <1>t DEF LoginInstead, TypeOK, Request
  <2>2. SigningIn(h)'
    BY <1>2, <2>1 DEF SigningIn, Known, Accounts, tables
  <2>3. Registering(h)' /\ Refreshing(h)' /\ LoggingOut(h)' /\ Managing(h)'
    BY <2>1 DEF Registering, Refreshing, LoggingOut, Managing
  <2>. QED
    BY <2>2, <2>3 DEF Standing
<1>3. CASE /\ req[h].pc = "register" /\ Proceed(h, Go("insert", h))
           /\ ~(MaxUsers # 0 /\ Cardinality(Accounts) >= MaxUsers)
  <2>1. /\ req'[h].pc = "insert" /\ Accounts' = Accounts
        /\ held'[h] = held[h] \union Wanted(h)
    BY <1>3, <1>n, <1>t, Onward DEF tables, Accounts
  <2>2. MaxUsers # 0 => Wanted(h) = For({<<"registration">>}, "update")
    BY <1>3 DEF Wanted, Locks, Serialised
  <2>3. MaxUsers # 0 => Strong(h, <<"registration">>)' /\ Cardinality(Accounts)' < MaxUsers
    BY <1>n, <1>3, <2>1, <2>2, Obtains
  <2>4. Registering(h)'
    BY <2>1, <2>3 DEF Registering
  <2>5. SigningIn(h)' /\ Refreshing(h)' /\ LoggingOut(h)' /\ Managing(h)'
    BY <2>1 DEF SigningIn, Refreshing, LoggingOut, Managing
  <2>. QED
    BY <2>4, <2>5 DEF Standing
<1>4. CASE /\ req[h].pc = "insert" /\ Proceed(h, Go("registered", h)) /\ ~Known(req[h].device)
  <2>1. /\ req'[h].pc = "registered" /\ req'[h].device = req[h].device /\ Accounts' = Accounts
        /\ \A row : Strong(h, row) => Strong(h, row)'
        /\ held'[h] = held[h] \union Wanted(h)
    BY <1>4, <1>n, <1>t, Onward DEF tables, Accounts
  <2>2. Wanted(h) = For({UserRow(req[h].device), DeviceRow(req[h].device)}, "update")
    BY <1>4 DEF Wanted, Locks
  <2>3. Strong(h, UserRow(req[h].device))'
    BY <2>1, <2>2, Obtains DEF UserRow
  <2>4. MaxUsers # 0 => Strong(h, <<"registration">>)' /\ Cardinality(Accounts)' < MaxUsers
    BY <1>4, <1>t, <2>1 DEF Standing, Registering
  <2>5. Registering(h)'
    BY <1>4, <2>1, <2>3, <2>4 DEF Registering, Known, UserRow
  <2>6. SigningIn(h)' /\ Refreshing(h)' /\ LoggingOut(h)' /\ Managing(h)'
    BY <2>1 DEF SigningIn, Refreshing, LoggingOut, Managing
  <2>. QED
    BY <2>5, <2>6 DEF Standing
<1>. QED
  BY <1>1, <1>2, <1>3, <1>4 DEF CheckLimit, InsertUser, At

LEMMA LoginStands ==
  ASSUME IInv, NEW h \in Handler, UpsertDevice(h) \/ ClearSessions(h) \/ InsertSession(h)
  PROVE  Standing(h)'
<1>t. TypeOK /\ Standing(h) /\ req[h].pc # "idle" /\ req[h] \in Request /\ req[h].doomed \in SUBSET Session
  BY Shape DEF IInv, UpsertDevice, ClearSessions, InsertSession, At, Request
<1>s. {"clear", "event", "login"} \subseteq Step
  BY DEF Step
<1>1. ASSUME req'[h].pc \in {"clear", "event", "login"}, req'[h].device = req[h].device, UNCHANGED tables,
             req[h].pc \in {"upsert", "clear", "event"},
             Strong(h, DeviceRow(req[h].device))',
             req'[h].pc \in {"event", "login"} => Dooms(h, req[h].device)'
      PROVE  Standing(h)'
  <2>1. Known(req[h].device)'
    BY <1>1, <1>t DEF Standing, SigningIn, Known, Accounts, tables
  <2>2. SigningIn(h)'
    BY <1>1, <2>1 DEF SigningIn, Known, DeviceRow, Dooms, SessionsOf
  <2>3. Registering(h)' /\ Refreshing(h)' /\ LoggingOut(h)' /\ Managing(h)'
    BY <1>1 DEF Registering, Refreshing, LoggingOut, Managing
  <2>. QED
    BY <2>2, <2>3 DEF Standing
<1>2. CASE UpsertDevice(h)
  <2>1. req[h].pc = "upsert" /\ Proceed(h, Go("clear", h))
    BY <1>2 DEF UpsertDevice, At
  <2>2. /\ UNCHANGED tables /\ req'[h].pc = "clear" /\ req'[h].device = req[h].device
        /\ held'[h] = held[h] \union Wanted(h)
    BY <1>s, <1>t, <2>1, Onward
  <2>3. \/ For({DeviceRow(req[h].device)}, "update") \subseteq Wanted(h)
        \/ For({DeviceRow(req[h].device)}, "nokey") \subseteq Wanted(h)
    BY <2>1 DEF Wanted, Locks
  <2>4. Strong(h, DeviceRow(req[h].device))'
    BY <2>2, <2>3, Obtains DEF DeviceRow
  <2>. QED
    BY <1>1, <2>1, <2>2, <2>4
<1>3. CASE ClearSessions(h)
  <2>0. SessionsOf(req[h].device) \in SUBSET Session
    BY <1>t DEF SessionsOf, TypeOK
  <2>1. /\ req[h].pc = "clear"
        /\ Proceed(h, [Go("event", h) EXCEPT !.doomed = SessionsOf(req[h].device)])
    BY <1>3 DEF ClearSessions, At
  <2>2. /\ UNCHANGED tables /\ req'[h].pc = "event" /\ req'[h].device = req[h].device
        /\ req'[h].doomed = SessionsOf(req[h].device)
        /\ \A row : Strong(h, row) => Strong(h, row)'
        /\ held'[h] = held[h] \union Wanted(h)
    BY ZenonT(60), <1>s, <1>t, <2>0, <2>1, OnwardDooming
  <2>3. Wanted(h) = For({SessionRow(s) : s \in SessionsOf(req[h].device)}, "nokey")
    BY <2>1 DEF Wanted, Locks, SessionRow
  <2>4. \A s \in SessionsOf(req[h].device) : Strong(h, SessionRow(s))'
    BY <2>2, <2>3, Obtains DEF SessionRow
  <2>5. Dooms(h, req[h].device)'
    BY <2>2, <2>4 DEF Dooms, SessionsOf, SessionRow, tables
  <2>6. Strong(h, DeviceRow(req[h].device))'
    BY <1>t, <2>1, <2>2 DEF Standing, SigningIn, DeviceRow
  <2>. QED
    BY <1>1, <2>1, <2>2, <2>5, <2>6
<1>4. CASE InsertSession(h)
  <2>1. req[h].pc = "event" /\ Proceed(h, Go("login", h))
    BY <1>4 DEF InsertSession, At
  <2>2. /\ UNCHANGED tables /\ req'[h].pc = "login" /\ req'[h].device = req[h].device
        /\ req'[h].doomed = req[h].doomed
        /\ \A row : Strong(h, row) => Strong(h, row)'
    BY <1>s, <1>t, <2>1, Onward
  <2>3. Dooms(h, req[h].device) /\ Strong(h, DeviceRow(req[h].device))
    BY <1>t, <2>1 DEF Standing, SigningIn
  <2>4. Dooms(h, req[h].device)' /\ Strong(h, DeviceRow(req[h].device))'
    BY <2>2, <2>3 DEF Dooms, SessionsOf, SessionRow, DeviceRow, tables
  <2>. QED
    BY <1>1, <2>1, <2>2, <2>4
<1>. QED
  BY <1>2, <1>3, <1>4

LEMMA RefreshStands ==
  ASSUME IInv, NEW h \in Handler, LockSession(h) \/ LockUser(h) \/ LockDevice(h)
  PROVE  Standing(h)'
<1>t. TypeOK /\ Standing(h) /\ req[h].pc # "idle" /\ req[h] \in Request /\ req[h].doomed \in SUBSET Session
  BY Shape DEF IInv, LockSession, LockUser, LockDevice, At, Request
<1>s. {"user", "device", "refresh"} \subseteq Step
  BY DEF Step
<1>1. CASE Refuse(h)
  BY <1>1, <1>t, IdleStands DEF Refuse, Ends, TypeOK
<1>2. ASSUME NEW p \in {"user", "device", "refresh"}, Proceed(h, Go(p, h)),
             req[h].pc \in {"find", "user", "device"},
             \/ req[h].pc \in {"user", "device"}
             \/ \E s \in sessions : s.token = req[h].token /\ For({SessionRow(s)}, "update") \subseteq Wanted(h),
             p = "refresh" => For({DeviceRow(req[h].device)}, "update") \subseteq Wanted(h)
      PROVE  Standing(h)'
  <2>1. /\ UNCHANGED tables /\ req'[h].pc = p /\ req'[h].device = req[h].device
        /\ req'[h].token = req[h].token
        /\ \A row : Strong(h, row) => Strong(h, row)'
        /\ held'[h] = held[h] \union Wanted(h)
    BY <1>2, <1>s, <1>t, Onward
  <2>2. /\ req[h].token <= drawn
        /\ \A s \in sessions : s.token = req[h].token => s.device = req[h].device
        /\ req[h].pc \in {"user", "device"} =>
             \E s \in sessions : s.token = req[h].token /\ Strong(h, SessionRow(s))
    BY <1>2, <1>t DEF Standing, Refreshing
  <2>3. \E s \in sessions : s.token = req[h].token /\ Strong(h, SessionRow(s))'
    BY <1>2, <2>1, <2>2, Obtains DEF SessionRow
  <2>4. p = "refresh" => Strong(h, DeviceRow(req[h].device))'
    BY <1>2, <2>1, Obtains DEF DeviceRow
  <2>5. Refreshing(h)'
    BY <2>1, <2>2, <2>3, <2>4 DEF Refreshing, DeviceRow, SessionRow, tables
  <2>6. Registering(h)' /\ SigningIn(h)' /\ LoggingOut(h)' /\ Managing(h)'
    BY <2>1 DEF Registering, SigningIn, LoggingOut, Managing
  <2>. QED
    BY <2>5, <2>6 DEF Standing
<1>3. CASE LockSession(h) /\ ~Refuse(h)
  <2>1. /\ req[h].pc = "find" /\ Proceed(h, Go("user", h))
        /\ \E s \in sessions : s.token = req[h].token
    BY <1>3 DEF LockSession, At
  <2>2. PICK s \in sessions : s.token = req[h].token
    BY <2>1
  <2>3. Wanted(h) = For({SessionRow(r) : r \in {r \in sessions : r.token = req[h].token}}, "update")
    BY <2>1 DEF Wanted, Locks, SessionRow
  <2>4. For({SessionRow(s)}, "update") \subseteq Wanted(h)
    BY <2>2, <2>3 DEF For
  <2>. QED
    BY <1>2, <2>1, <2>2, <2>4
<1>4. CASE LockUser(h)
  BY <1>2, <1>4 DEF LockUser, At
<1>5. CASE LockDevice(h) /\ ~Refuse(h)
  <2>1. req[h].pc = "device" /\ Proceed(h, Go("refresh", h))
    BY <1>5 DEF LockDevice, At
  <2>2. Wanted(h) = For({DeviceRow(req[h].device)}, "update")
    BY <2>1 DEF Wanted, Locks
  <2>. QED
    BY <1>2, <2>1, <2>2
<1>. QED
  BY <1>1, <1>3, <1>4, <1>5

LEMMA ManageStands ==
  ASSUME IInv, NEW h \in Handler, LockActorRow(h) \/ LockTarget(h) \/ CloseSessions(h)
  PROVE  Standing(h)'
<1>t. TypeOK /\ Standing(h) /\ req[h].pc # "idle" /\ req[h] \in Request /\ req[h].doomed \in SUBSET Session
  BY Shape DEF IInv, LockActorRow, LockTarget, CloseSessions, At, Request
<1>s. {"target", "close", "revoke", "role"} \subseteq Step
  BY DEF Step
<1>m. req[h].pc \in {"actor", "target", "close"} =>
        req[h].target # req[h].device /\ AccountOf[req[h].target] = AccountOf[req[h].device]
  BY <1>t DEF Standing, Managing
<1>1. CASE Refuse(h)
  BY <1>1, <1>t, IdleStands DEF Refuse, Ends, TypeOK
<1>o. ASSUME req'[h].pc \in {"target", "close", "revoke", "role"}
      PROVE  Registering(h)' /\ SigningIn(h)' /\ Refreshing(h)' /\ LoggingOut(h)'
  BY <1>o DEF Registering, SigningIn, Refreshing, LoggingOut
<1>2. CASE LockActorRow(h) /\ ~Refuse(h)
  <2>1. req[h].pc = "actor" /\ Proceed(h, Go("target", h))
    BY <1>2 DEF LockActorRow, At
  <2>2. /\ req'[h].pc = "target" /\ req'[h].device = req[h].device /\ req'[h].target = req[h].target
        /\ held'[h] = held[h] \union Wanted(h)
    BY <1>s, <1>t, <2>1, Onward
  <2>3. Wanted(h) = For({DeviceRow(req[h].device)}, "update")
    BY <2>1 DEF Wanted, Locks, LockActor
  <2>4. Strong(h, DeviceRow(req[h].device))'
    BY <2>2, <2>3, Obtains DEF DeviceRow
  <2>5. Managing(h)'
    BY <1>m, <2>1, <2>2, <2>4 DEF Managing, DeviceRow
  <2>. QED
    BY <1>o, <2>2, <2>5 DEF Standing
<1>3. CASE LockTarget(h) /\ ~Refuse(h)
  <2>. DEFINE p == IF req[h].to = "none" THEN "close" ELSE "role"
  <2>1. /\ req[h].pc = "target" /\ Proceed(h, Go(p, h)) /\ Both(req[h])
        /\ IF req[h].to = "none" THEN CanRevokeDevice(role[req[h].device], role[req[h].target])
                                ELSE CanChangeDeviceRole(role[req[h].device], role[req[h].target])
    BY <1>3 DEF LockTarget, At
  <2>2. /\ UNCHANGED tables /\ p \in {"close", "role"} /\ req'[h].pc = p
        /\ req'[h].device = req[h].device /\ req'[h].target = req[h].target /\ req'[h].to = req[h].to
        /\ \A row : Strong(h, row) => Strong(h, row)'
        /\ held'[h] = held[h] \union Wanted(h)
    BY <1>s, <1>t, <2>1, Onward
  <2>3. Wanted(h) = For({DeviceRow(req[h].target)}, "update")
    BY <2>1 DEF Wanted, Locks
  <2>4. Strong(h, DeviceRow(req[h].target))'
    BY <2>2, <2>3, Obtains DEF DeviceRow
  <2>5. Strong(h, DeviceRow(req[h].device))'
    BY <1>t, <2>1, <2>2 DEF Standing, Managing, DeviceRow
  <2>6. /\ role[req[h].target] # "super_admin" /\ role[req[h].device] \in {"super_admin", "admin"}
        /\ p = "role" => role[req[h].device] = "super_admin" /\ req[h].to # "none"
    BY <2>1 DEF CanRevokeDevice, CanChangeDeviceRole
  <2>. HIDE DEF p
  <2>7. Both(req[h])'
    BY <2>1, <2>2 DEF Both, tables
  <2>8. Managing(h)'
    BY <1>m, <2>1, <2>2, <2>4, <2>5, <2>6, <2>7 DEF Managing, DeviceRow, Both, tables
  <2>. QED
    BY <1>o, <2>2, <2>8 DEF Standing
<1>4. CASE CloseSessions(h)
  <2>0. SessionsOf(req[h].target) \in SUBSET Session
    BY <1>t DEF SessionsOf, TypeOK
  <2>1. /\ req[h].pc = "close"
        /\ Proceed(h, [Go("revoke", h) EXCEPT !.doomed = SessionsOf(req[h].target)])
    BY <1>4 DEF CloseSessions, At
  <2>2. /\ UNCHANGED tables /\ req'[h].pc = "revoke"
        /\ req'[h].device = req[h].device /\ req'[h].target = req[h].target /\ req'[h].to = req[h].to
        /\ req'[h].doomed = SessionsOf(req[h].target)
        /\ \A row : Strong(h, row) => Strong(h, row)'
        /\ held'[h] = held[h] \union Wanted(h)
    BY ZenonT(60), <1>s, <1>t, <2>0, <2>1, OnwardDooming
  <2>3. Wanted(h) = For({SessionRow(s) : s \in SessionsOf(req[h].target)}, "nokey")
    BY <2>1 DEF Wanted, Locks, SessionRow
  <2>4. \A s \in SessionsOf(req[h].target) : Strong(h, SessionRow(s))'
    BY <2>2, <2>3, Obtains DEF SessionRow
  <2>5. Dooms(h, req[h].target)'
    BY <2>2, <2>4 DEF Dooms, SessionsOf, SessionRow, tables
  <2>6. /\ Strong(h, DeviceRow(req[h].device)) /\ Strong(h, DeviceRow(req[h].target)) /\ Both(req[h])
        /\ role[req[h].target] # "super_admin" /\ role[req[h].device] \in {"super_admin", "admin"}
    BY <1>t, <2>1 DEF Standing, Managing
  <2>7. Strong(h, DeviceRow(req[h].device))' /\ Strong(h, DeviceRow(req[h].target))' /\ Both(req[h])'
    BY <2>2, <2>6 DEF DeviceRow, Both, tables
  <2>8. Managing(h)'
    BY <1>m, <2>1, <2>2, <2>5, <2>6, <2>7 DEF Managing, DeviceRow, Both, Dooms, SessionsOf, tables
  <2>. QED
    BY <1>o, <2>2, <2>8 DEF Standing
<1>. QED
  BY <1>1, <1>2, <1>3, <1>4

LEMMA OwnStands ==
  ASSUME IInv, NEW h \in Handler, Steps(h)
  PROVE  Standing(h)'
<1>1. CASE Committing(h) \/ Cancel(h) \/ DeadlockDetected(h)
  BY <1>1, IdleStands DEF IInv, TypeOK, Committing, CommitRegister, CommitLogin, CommitRefresh, Logout,
       CommitRevoke, CommitRole, Cancel, DeadlockDetected, Refuse, Ends
<1>. QED
  BY <1>1, ArrivalStands, RegisterStands, LoginStands, RefreshStands, ManageStands
     DEF Steps, Handle, Committing

-----------------------------------------------------------------------------
(* The invariant.                                                          *)

LEMMA AccountsFinite ==
  ASSUME IInv, NEW h \in Handler, Steps(h)
  PROVE  IsFiniteSet(Accounts')
<1>1. CASE ~CommitRegister(h)
  BY <1>1, AccountsStep DEF IInv
<1>2. CASE CommitRegister(h)
  <2>1. PICK d \in Device : d = req[h].device
    BY <1>2, Found DEF Committing, Request
  <2>2. role' = [role EXCEPT ![d] = "super_admin"]
    BY <1>2, <2>1 DEF CommitRegister
  <2>3. Accounts' = Accounts \union {AccountOf[d]}
    BY <2>2 DEF IInv, TypeOK, Accounts
  <2>4. IsFiniteSet(Accounts \union {AccountOf[d]})
    BY FS_AddElement DEF IInv
  <2>. QED
    BY <2>3, <2>4
<1>. QED
  BY <1>1, <1>2

LEMMA Beginning ==
  ASSUME Init
  PROVE  IInv
<1>. USE DEF Init
<1>1. TypeOK
  BY AuthAssumption DEF TypeOK, Role
<1>2. \A h \in Handler : req[h].pc = "idle" /\ held[h] = {}
  BY DEF NoRequest
<1>3. Drawing = {} /\ Accounts = {}
  BY <1>2 DEF Drawing, Accounts
<1>4. Budget
  BY <1>3, FS_EmptySet, AuthAssumption DEF Budget
<1>5. IsFiniteSet(Accounts)
  BY <1>3, FS_EmptySet
<1>6. Keys /\ OneSessionPerDevice /\ OneSuperAdmin
  BY <1>3 DEF Keys, OneSessionPerDevice, OneSuperAdmin
<1>7. Exclusive
  BY <1>2 DEF Exclusive, Strong
<1>8. \A h \in Handler : Standing(h)
  BY <1>2 DEF Standing, Registering, SigningIn, Refreshing, LoggingOut, Managing
<1>. QED
  BY <1>1, <1>4, <1>5, <1>6, <1>7, <1>8 DEF IInv

LEMMA Inductive ==
  ASSUME IInv, [Next]_vars
  PROVE  IInv'
<1>1. ASSUME NEW h \in Handler, Steps(h)
      PROVE  IInv'
  <2>1. TypeOK' /\ Budget' /\ Exclusive'
    BY <1>1, TypeStep, BudgetStep, ExclusiveStep DEF IInv
  <2>2. Keys' /\ OneSuperAdmin' /\ OneSessionPerDevice' /\ IsFiniteSet(Accounts')
    BY <1>1, KeysStep, SuperAdminStep, OneSessionStep, AccountsFinite
  <2>3. \A g \in Handler : Standing(g)'
    BY <1>1, OwnStands, OthersStand
  <2>. QED
    BY <2>1, <2>2, <2>3 DEF IInv
<1>2. CASE UNCHANGED vars
  <2>. USE <1>2 DEF vars, tables
  <2>1. TypeOK' /\ Keys' /\ IsFiniteSet(Accounts')
    BY DEF IInv, TypeOK, Keys, Accounts
  <2>2. Drawing' = Drawing /\ Accounts' = Accounts
    BY DEF Drawing, Accounts
  <2>3. Budget' /\ Exclusive'
    BY <2>2 DEF IInv, Budget, Exclusive, Strong
  <2>4. OneSuperAdmin' /\ OneSessionPerDevice'
    BY <2>2 DEF IInv, OneSuperAdmin, OneSessionPerDevice
  <2>5. ASSUME NEW h \in Handler
        PROVE  Standing(h)'
    <3>1. Standing(h)
      BY DEF IInv
    <3>2. Registering(h)' /\ LoggingOut(h)'
      BY <2>2, <3>1 DEF Standing, Registering, LoggingOut, Known, Strong, UserRow
    <3>3. SigningIn(h)' /\ Refreshing(h)'
      BY <2>2, <3>1 DEF Standing, SigningIn, Refreshing, Known, Strong, DeviceRow, Dooms, SessionsOf,
                        SessionRow
    <3>4. Managing(h)'
      BY <3>1 DEF Standing, Managing, Both, Strong, DeviceRow, Dooms, SessionsOf, SessionRow
    <3>. QED
      BY <3>2, <3>3, <3>4 DEF Standing
  <2>. QED
    BY <2>1, <2>3, <2>4, <2>5 DEF IInv
<1>. QED
  BY <1>1, <1>2 DEF Next, Steps

(* Every variable keeps to its type: with the bound of the model, a token  *)
(* is left for every request that was let in.                              *)
THEOREM AuthTypes == Spec => []TypeOK
<1>1. Init => IInv
  BY Beginning
<1>2. IInv /\ [Next]_vars => IInv'
  BY Inductive
<1>3. IInv => TypeOK
  BY DEF IInv
<1>. QED
  BY <1>1, <1>2, <1>3, PTL DEF Spec

(* Every account with a device has one super admin, who is not revoked,    *)
(* however first sign-ins, revocations and changes of role overlap.        *)
THEOREM OneSuperAdminAlways == Spec => []OneSuperAdmin
<1>1. Init => IInv
  BY Beginning
<1>2. IInv /\ [Next]_vars => IInv'
  BY Inductive
<1>3. IInv => OneSuperAdmin
  BY DEF IInv
<1>. QED
  BY <1>1, <1>2, <1>3, PTL DEF Spec

(* A revoked device has no session and no device has two, whichever        *)
(* sign-in, refresh, logout and revocation overlap.                        *)
THEOREM OneSessionAlways == Spec => []OneSessionPerDevice
<1>1. Init => IInv
  BY Beginning
<1>2. IInv /\ [Next]_vars => IInv'
  BY Inductive
<1>3. IInv => OneSessionPerDevice
  BY DEF IInv
<1>. QED
  BY <1>1, <1>2, <1>3, PTL DEF Spec

-----------------------------------------------------------------------------
(* Deadlocks: which rows a request may hold where it waits for more. What  *)
(* it holds when it only has to commit, or in a refresh, does not matter.  *)

\* The locks of a sign-in that has its device's row.
OfSignIn(h, l) ==
  \/ l.row = DeviceRow(req[h].device)
  \/ l.row = UserRow(req[h].device) /\ l.mode = "share"

\* A session's row that is of no other device than d.
OfDevice(row, d) ==
  \E i \in 1..drawn : row = <<"session", i>> /\ \A s \in sessions : s.id = i => s.device = d

Holding(h) ==
  LET q == req[h]
  IN  /\ q.pc \in {"idle", "register", "upsert", "find", "logout", "actor"} => held[h] = {}
      /\ q.pc = "insert" => \A l \in held[h] : l.row = <<"registration">>
      /\ q.pc = "clear" => \A l \in held[h] : OfSignIn(h, l)
      /\ q.pc = "event" => \A l \in held[h] : OfSignIn(h, l) \/ OfDevice(l.row, q.device)
      /\ q.pc = "target" => \A l \in held[h] : l.row = DeviceRow(q.device)
      /\ q.pc = "close" => \A l \in held[h] : l.row \in {DeviceRow(q.device), DeviceRow(q.target)}

Holdings == \A h \in Handler : Holding(h)

\* Sessions keep their number and device; a new one has a new number.
LEMMA SessionsNumbered ==
  ASSUME IInv, NEW h \in Handler, Steps(h), NEW row, NEW d, OfDevice(row, d)
  PROVE  OfDevice(row, d)'
<1>t. drawn \in Nat /\ \A s \in sessions : s.id \in Nat
  BY AuthAssumption DEF IInv, TypeOK, Session, Token
<1>1. PICK i \in 1..drawn : row = <<"session", i>> /\ \A s \in sessions : s.id = i => s.device = d
  BY DEF OfDevice
<1>2. SUFFICES i \in 1..drawn' /\ \A s \in sessions' : s.id = i => s.device = d
  BY <1>1 DEF OfDevice
<1>3. CASE UNCHANGED tables
  BY <1>1, <1>3 DEF tables
<1>4. CASE CommitRegister(h) \/ CommitLogin(h)
  <2>1. drawn' = drawn + 1
    BY <1>4 DEF CommitRegister, CommitLogin, Granting
  <2>2. \A s \in sessions' : s \in sessions \/ s.id = drawn + 1
    BY <1>4 DEF CommitRegister, CommitLogin, Granting
  <2>. QED
    BY <1>t, <1>1, <2>1, <2>2
<1>5. CASE CommitRefresh(h)
  <2>1. drawn' = drawn + 1
    BY <1>5 DEF CommitRefresh
  <2>2. \A s \in sessions : [s EXCEPT !.token = drawn + 1].id = s.id
                         /\ [s EXCEPT !.token = drawn + 1].device = s.device
    BY DEF IInv, TypeOK, Session
  <2>3. \A s \in sessions' : \E t \in sessions : s.id = t.id /\ s.device = t.device
    BY <1>5, <2>2 DEF CommitRefresh
  <2>. QED
    BY <1>t, <1>1, <2>1, <2>3
<1>6. CASE Logout(h) \/ CommitRevoke(h) \/ CommitRole(h)
  BY <1>1, <1>6 DEF Logout, CommitRevoke, CommitRole
<1>. QED
  BY <1>3, <1>4, <1>5, <1>6, OnlyCommitsWrite DEF Committing

\* Another handler's step takes nothing and gives nothing.
LEMMA OthersHold ==
  ASSUME IInv, Holdings, NEW h \in Handler, Steps(h), NEW g \in Handler, g # h
  PROVE  Holding(g)'
<1>1. req'[g] = req[g] /\ held'[g] = held[g] /\ Holding(g)
  BY OthersAlone DEF IInv, Holdings
<1>2. \A row, d : OfDevice(row, d) => OfDevice(row, d)'
  BY SessionsNumbered
<1>3. \A l : OfSignIn(g, l) => OfSignIn(g, l)'
  BY <1>1 DEF OfSignIn, DeviceRow, UserRow
<1>. QED
  BY <1>1, <1>2, <1>3 DEF Holding, DeviceRow

\* A request without locks holds what it may, wherever it stands.
LEMMA EmptyHolds ==
  ASSUME NEW h \in Handler, held'[h] = {}
  PROVE  Holding(h)'
BY DEF Holding

\* A statement that is done leads on to the next with what it has locked.
LEMMA OnwardHolds ==
  ASSUME IInv, Holdings, NEW h \in Handler, req[h].pc # "idle",
         \/ CheckLimit(h) \/ InsertUser(h) \/ UpsertDevice(h) \/ InsertSession(h)
         \/ LockSession(h) \/ LockUser(h) \/ LockDevice(h) \/ LockActorRow(h) \/ LockTarget(h)
  PROVE  Holding(h)'
<1>t. TypeOK /\ Holding(h) /\ req[h] \in Request
  BY Shape DEF IInv, Holdings
<1>s. {"insert", "registered", "clear", "login", "user", "device", "refresh",
       "target", "close", "role"} \subseteq Step
  BY DEF Step
<1>1. CASE Refuse(h) \/ LoginInstead(h)
  BY <1>1, <1>t, EmptyHolds DEF Refuse, Ends, LoginInstead, TypeOK
<1>2. ASSUME NEW p \in {"registered", "login", "user", "device", "refresh", "role"}, Proceed(h, Go(p, h))
      PROVE  Holding(h)'
  <2>1. req'[h].pc = p
    BY <1>2, <1>s, <1>t, Onward
  <2>. QED
    BY <2>1 DEF Holding
<1>3. CASE req[h].pc = "register" /\ Proceed(h, Go("insert", h))
  <2>1. req'[h].pc = "insert" /\ held'[h] = {} \union Wanted(h)
    BY <1>3, <1>s, <1>t, Onward DEF Holding
  <2>2. \A l \in Wanted(h) : l.row = <<"registration">>
    BY <1>3 DEF Wanted, Locks, Serialised, For
  <2>. QED
    BY <2>1, <2>2 DEF Holding
<1>4. CASE req[h].pc = "upsert" /\ Proceed(h, Go("clear", h))
  <2>1. req'[h].pc = "clear" /\ req'[h].device = req[h].device /\ held'[h] = {} \union Wanted(h)
    BY <1>4, <1>s, <1>t, Onward DEF Holding
  <2>2. \A l \in Wanted(h) : OfSignIn(h, l)
    BY <1>4 DEF Wanted, Locks, For, OfSignIn
  <2>. QED
    BY <2>1, <2>2 DEF Holding, OfSignIn, DeviceRow, UserRow
<1>5. CASE req[h].pc = "actor" /\ Proceed(h, Go("target", h))
  <2>1. req'[h].pc = "target" /\ req'[h].device = req[h].device /\ held'[h] = {} \union Wanted(h)
    BY <1>5, <1>s, <1>t, Onward DEF Holding
  <2>2. \A l \in Wanted(h) : l.row = DeviceRow(req[h].device)
    BY <1>5 DEF Wanted, Locks, LockActor, For
  <2>. QED
    BY <2>1, <2>2 DEF Holding, DeviceRow
<1>6. CASE req[h].pc = "target" /\ Proceed(h, Go("close", h))
  <2>1. /\ req'[h].pc = "close" /\ req'[h].device = req[h].device /\ req'[h].target = req[h].target
        /\ held'[h] = held[h] \union Wanted(h)
    BY <1>6, <1>s, <1>t, Onward
  <2>2. \A l \in Wanted(h) : l.row = DeviceRow(req[h].target)
    BY <1>6 DEF Wanted, Locks, For
  <2>3. \A l \in held[h] : l.row = DeviceRow(req[h].device)
    BY <1>6, <1>t DEF Holding
  <2>. QED
    BY <2>1, <2>2, <2>3 DEF Holding, DeviceRow
<1>7. CASE CheckLimit(h) \/ InsertUser(h) \/ UpsertDevice(h) \/ InsertSession(h)
  BY <1>1, <1>2, <1>3, <1>4, <1>7 DEF CheckLimit, InsertUser, UpsertDevice, InsertSession, At
<1>8. CASE LockSession(h) \/ LockUser(h) \/ LockDevice(h)
  BY <1>1, <1>2, <1>8 DEF LockSession, LockUser, LockDevice, At
<1>9. CASE LockActorRow(h) \/ LockTarget(h)
  BY <1>1, <1>2, <1>5, <1>6, <1>9 DEF LockActorRow, LockTarget, At
<1>. QED
  BY <1>7, <1>8, <1>9

\* The sessions that are locked are those of the device.
LEMMA DoomingHolds ==
  ASSUME IInv, Holdings, NEW h \in Handler, ClearSessions(h) \/ CloseSessions(h)
  PROVE  Holding(h)'
<1>t. /\ TypeOK /\ Keys /\ Holding(h) /\ req[h].pc # "idle" /\ {"event", "revoke"} \subseteq Step
      /\ SessionsOf(req[h].device) \in SUBSET Session /\ SessionsOf(req[h].target) \in SUBSET Session
  BY DEF IInv, TypeOK, Holdings, ClearSessions, CloseSessions, At, SessionsOf, Step
<1>1. CASE CloseSessions(h)
  <2>1. req'[h].pc = "revoke"
    BY ZenonT(60), <1>1, <1>t, OnwardDooming DEF CloseSessions
  <2>. QED
    BY <2>1 DEF Holding
<1>2. CASE ClearSessions(h)
  <2>1. /\ req'[h].pc = "event" /\ req'[h].device = req[h].device /\ UNCHANGED tables
        /\ held'[h] = held[h] \union Wanted(h)
    BY ZenonT(60), <1>2, <1>t, OnwardDooming DEF ClearSessions
  <2>2. \A l \in held[h] : OfSignIn(h, l)
    BY <1>2, <1>t DEF ClearSessions, At, Holding
  <2>3. ASSUME NEW l \in Wanted(h)
        PROVE  OfDevice(l.row, req[h].device)
    <3>1. PICK s \in SessionsOf(req[h].device) : l.row = <<"session", s.id>>
      BY <1>2 DEF ClearSessions, At, Wanted, Locks, For
    <3>2. s \in sessions /\ s.device = req[h].device
      BY DEF SessionsOf
    <3>3. s.id \in 1..drawn
      BY <1>t, <3>2, AuthAssumption DEF TypeOK, Keys, Session, Token
    <3>. QED
      BY <1>t, <3>1, <3>2, <3>3 DEF OfDevice, Keys
  <2>4. \A l \in held'[h] : OfSignIn(h, l)' \/ OfDevice(l.row, req[h].device)'
    BY <2>1, <2>2, <2>3 DEF OfSignIn, OfDevice, DeviceRow, UserRow, tables
  <2>. QED
    BY <2>1, <2>4 DEF Holding
<1>. QED
  BY <1>1, <1>2

\* Each step keeps to what its request may hold.
LEMMA HoldingsStep ==
  ASSUME IInv, Holdings, NEW h \in Handler, Steps(h)
  PROVE  Holdings'
<1>1. \A g \in Handler : g # h => Holding(g)'
  BY OthersHold
<1>2. Holding(h)'
  <2>t. TypeOK /\ Holding(h)
    BY DEF IInv, Holdings
  <2>1. CASE Begin(h)
    <3>1. CASE Unauthorized(h)
      BY <2>t, <3>1 DEF Unauthorized, vars, tables, Holding, OfSignIn, OfDevice, DeviceRow, UserRow
    <3>2. CASE req[h].pc = "idle" /\ held' = held
      BY <2>t, <3>2, EmptyHolds DEF Holding
    <3>. QED
      BY <2>1, <3>1, <3>2 DEF Begin, SignIn, StartRefresh, StartLogout, Manage, Arrive
  <2>2. CASE \/ Cancel(h) \/ DeadlockDetected(h) \/ CommitRegister(h) \/ CommitLogin(h)
             \/ CommitRefresh(h) \/ Logout(h) \/ CommitRevoke(h) \/ CommitRole(h)
    BY <2>t, <2>2, EmptyHolds DEF Cancel, DeadlockDetected, Refuse, CommitRegister, CommitLogin,
         CommitRefresh, Logout, CommitRevoke, CommitRole, Ends, TypeOK
  <2>3. CASE ClearSessions(h) \/ CloseSessions(h)
    BY <2>3, DoomingHolds
  <2>4. CASE \/ CheckLimit(h) \/ InsertUser(h) \/ UpsertDevice(h) \/ InsertSession(h)
             \/ LockSession(h) \/ LockUser(h) \/ LockDevice(h) \/ LockActorRow(h) \/ LockTarget(h)
    BY <2>4, OnwardHolds DEF CheckLimit, InsertUser, UpsertDevice, InsertSession, LockSession,
         LockUser, LockDevice, LockActorRow, LockTarget, At
  <2>. QED
    BY <2>1, <2>2, <2>3, <2>4 DEF Steps, Handle
<1>. QED
  BY <1>1, <1>2 DEF Holdings

\* What waits, has statements to come: who only commits waits for nobody.
LEMMA Waiting ==
  ASSUME IInv, NEW g \in Handler, NEW k \in Handler, WaitsFor(g, k)
  PROVE  /\ g # k /\ req[g] \in Request
         /\ req[g].pc \in {"register", "insert", "upsert", "clear", "event", "find", "user",
                           "device", "logout", "actor", "target", "close"}
         /\ \E l \in Wanted(g), m \in held[k] : l.row = m.row /\ Clash(l.mode, m.mode)
<1>1. PICK l \in Wanted(g), m \in held[k] : g # k /\ l.row = m.row /\ Clash(l.mode, m.mode)
  BY DEF WaitsFor
<1>2. req[g].pc \in {"register", "insert", "upsert", "clear", "event", "find", "user",
                     "device", "logout", "actor", "target", "close"}
  BY <1>1 DEF Wanted, Locks
<1>3. req[g] \in Request
  BY <1>2, Shape DEF IInv
<1>. QED
  BY <1>1, <1>2, <1>3

\* Rows of different tables are different rows.
LEMMA RowsDiffer ==
  /\ \A d, e : UserRow(d) # DeviceRow(e) /\ UserRow(d) # <<"registration">>
               /\ DeviceRow(d) # <<"registration">>
  /\ \A d, i : UserRow(d) # <<"session", i>> /\ DeviceRow(d) # <<"session", i>>
  /\ \A i : <<"session", i>> # <<"registration">>
  /\ \A d, e : DeviceRow(d) = DeviceRow(e) => d = e
BY DEF UserRow, DeviceRow

\* Who waits for sessions of a device whose row it has waits for a refresh.
LEMMA SessionWaits ==
  ASSUME IInv, Holdings, NEW g \in Handler, NEW k \in Handler, g # k,
         NEW s \in sessions, DeviceRow(s.device) \in Row, Strong(g, DeviceRow(s.device)),
         req[k].pc \in {"insert", "clear", "event", "target", "close"},
         NEW m \in held[k], m.row = <<"session", s.id>>
  PROVE  FALSE
<1>1. Holding(k) /\ SigningIn(k)
  BY DEF IInv, Holdings, Standing
<1>r. m.row # <<"registration">> /\ \A d : m.row # UserRow(d) /\ m.row # DeviceRow(d)
  BY RowsDiffer
<1>o. ~OfSignIn(k, m)
  BY <1>r DEF OfSignIn
<1>2. req[k].pc = "event"
  BY <1>1, <1>r, <1>o DEF Holding
<1>3. OfDevice(m.row, req[k].device)
  BY <1>1, <1>2, <1>o DEF Holding
<1>4. PICK i \in 1..drawn : m.row = <<"session", i>> /\ \A t \in sessions : t.id = i => t.device = req[k].device
  BY <1>3 DEF OfDevice
<1>5. s.device = req[k].device
  BY <1>4
<1>6. Strong(k, DeviceRow(s.device))
  BY <1>1, <1>2, <1>5 DEF SigningIn
<1>. QED
  BY <1>6 DEF IInv, Exclusive

(* In a circle without a refresh nobody waits for sessions or, at the end  *)
(* of a sign-in, for the user: all that is left are the rows of devices,   *)
(* which only administrators take one after the other.                     *)
LEMMA CircleOfAdmins ==
  ASSUME IInv, Holdings, NEW S \in SUBSET Handler, S # {},
         \A g \in S : \E k \in S : WaitsFor(g, k),
         \A g \in S : req[g].pc \notin {"user", "device"}
  PROVE  \E g, k \in S : /\ req[g].pc = "target" /\ req[k].pc = "target"
                         /\ req[g].target = req[k].device
<1>t. TypeOK /\ \A h \in Handler : Standing(h) /\ Holding(h)
  BY DEF IInv, Holdings
<1>1. ASSUME NEW g \in S, NEW k \in S, WaitsFor(g, k)
      PROVE  req[k].pc \in {"insert", "clear", "event", "target", "close"}
  <2>1. PICK j \in S : WaitsFor(k, j)
    OBVIOUS
  <2>2. held[k] # {}
    BY <1>1, Waiting
  <2>. QED
    BY <1>t, <2>1, <2>2, Waiting DEF Holding
<1>2. ASSUME NEW g \in S, NEW k \in S, WaitsFor(g, k)
      PROVE  req[g].pc \notin {"clear", "close"}
  <2>1. PICK l \in Wanted(g), m \in held[k] : l.row = m.row
    BY <1>2, Waiting
  <2>2. req[g] \in Request /\ g # k
    BY <1>2, Waiting
  <2>3. ASSUME NEW d \in Device, Strong(g, DeviceRow(d)),
               Wanted(g) = For({<<"session", s.id>> : s \in SessionsOf(d)}, "nokey")
        PROVE  FALSE
    <3>1. PICK s \in SessionsOf(d) : l.row = <<"session", s.id>>
      BY <2>3 DEF For
    <3>2. s \in sessions /\ s.device = d /\ DeviceRow(d) \in Row
      BY <3>1 DEF SessionsOf, Row, DeviceRow
    <3>. QED
      BY <1>1, <1>2, <2>1, <2>2, <2>3, <3>1, <3>2, SessionWaits
  <2>4. ASSUME req[g].pc = "clear"
        PROVE  FALSE
    <3>1. Wanted(g) = For({<<"session", s.id>> : s \in SessionsOf(req[g].device)}, "nokey")
      BY <2>4 DEF Wanted, Locks
    <3>2. Strong(g, DeviceRow(req[g].device))
      BY <1>t, <2>4 DEF Standing, SigningIn
    <3>. QED
      BY <2>2, <2>3, <3>1, <3>2 DEF Request
  <2>5. ASSUME req[g].pc = "close"
        PROVE  FALSE
    <3>1. Wanted(g) = For({<<"session", s.id>> : s \in SessionsOf(req[g].target)}, "nokey")
      BY <2>5 DEF Wanted, Locks
    <3>2. Strong(g, DeviceRow(req[g].target))
      BY <1>t, <2>5 DEF Standing, Managing
    <3>. QED
      BY <2>2, <2>3, <3>1, <3>2 DEF Request
  <2>. QED
    BY <2>4, <2>5
<1>3. ASSUME NEW g \in S, NEW k \in S, WaitsFor(g, k), req[g].pc = "event"
      PROVE  FALSE
  <2>1. PICK l \in Wanted(g), m \in held[k] : l.row = m.row /\ Clash(l.mode, m.mode)
    BY <1>3, Waiting
  <2>2. l.row = UserRow(req[g].device) /\ l.mode = "share"
    BY <1>3, <2>1 DEF Wanted, Locks, For
  <2>3. Clash("share", m.mode) => m.mode # "share"
    BY DEF Clash
  <2>4. OfSignIn(k, m) => FALSE
    BY <2>1, <2>2, <2>3, RowsDiffer DEF OfSignIn
  <2>5. OfDevice(m.row, req[k].device) => FALSE
    BY <2>1, <2>2, RowsDiffer DEF OfDevice
  <2>6. m.row # <<"registration">> /\ \A d : m.row # DeviceRow(d)
    BY <2>1, <2>2, RowsDiffer
  <2>. QED
    BY <1>1, <1>3, <1>t, <2>4, <2>5, <2>6 DEF Holding
<1>4. ASSUME NEW g \in S, NEW k \in S, WaitsFor(g, k)
      PROVE  req[k].pc \in {"insert", "target"}
  <2>1. PICK j \in S : WaitsFor(k, j)
    OBVIOUS
  <2>. QED
    BY <1>1, <1>2, <1>3, <1>4, <2>1
<1>5. ASSUME NEW g \in S, NEW k \in S, WaitsFor(g, k), req[g].pc \in {"insert", "target"}
      PROVE  req[k].pc = "target"
  <2>1. PICK l \in Wanted(g), m \in held[k] : l.row = m.row
    BY <1>5, Waiting
  <2>2. l.row \in {UserRow(req[g].device), DeviceRow(req[g].device), DeviceRow(req[g].target)}
    BY <1>5, <2>1 DEF Wanted, Locks, For
  <2>3. m.row # <<"registration">>
    BY <2>1, <2>2, RowsDiffer
  <2>. QED
    BY <1>4, <1>5, <1>t, <2>3 DEF Holding
<1>6. PICK g \in S : req[g].pc = "target"
  <2>1. PICK a \in S, b \in S, c \in S : WaitsFor(a, b) /\ WaitsFor(b, c)
    OBVIOUS
  <2>. QED
    BY <1>4, <1>5, <2>1
<1>7. PICK k \in S : WaitsFor(g, k)
  OBVIOUS
<1>8. req[k].pc = "target"
  BY <1>5, <1>6, <1>7
<1>9. PICK l \in Wanted(g), m \in held[k] : l.row = m.row
  BY <1>7, Waiting
<1>10. l.row = DeviceRow(req[g].target)
  BY <1>6, <1>9 DEF Wanted, Locks, For
<1>11. m.row = DeviceRow(req[k].device)
  BY <1>8, <1>9, <1>t DEF Holding
<1>12. req[g].target = req[k].device
  BY <1>9, <1>10, <1>11, RowsDiffer
<1>. QED
  BY <1>6, <1>8, <1>12

(* Requests wait for one another in a circle only through a refresh that   *)
(* holds its session, or through administrators of whom one acts on the    *)
(* other: sign-ins, registrations and logouts among themselves never do,   *)
(* for any number of them.                                                 *)
THEOREM DeadlocksAlwaysExplained == Spec => []DeadlocksExplained
<1>1. Init => IInv /\ Holdings
  <2>1. Init => IInv
    BY Beginning
  <2>2. Init => Holdings
    BY DEF Init, Holdings, Holding, NoRequest
  <2>. QED
    BY <2>1, <2>2
<1>2. IInv /\ Holdings /\ [Next]_vars => IInv' /\ Holdings'
  <2>1. IInv /\ [Next]_vars => IInv'
    BY Inductive
  <2>2. ASSUME IInv, Holdings, [Next]_vars
        PROVE  Holdings'
    <3>1. CASE UNCHANGED vars
      BY <2>2, <3>1 DEF vars, tables, Holdings, Holding, OfSignIn, OfDevice, DeviceRow, UserRow
    <3>2. CASE Next
      <4>1. PICK h \in Handler : Steps(h)
        BY <3>2 DEF Next, Steps
      <4>. QED
        BY <2>2, <4>1, HoldingsStep
    <3>. QED
      BY <2>2, <3>1, <3>2
  <2>. QED
    BY <2>1, <2>2
<1>3. IInv /\ Holdings => DeadlocksExplained
  <2>. SUFFICES ASSUME IInv, Holdings, NEW S \in SUBSET Handler, S # {},
                       \A g \in S : \E k \in S : WaitsFor(g, k),
                       \A g \in S : req[g].pc \notin {"user", "device"}
                PROVE  \E g, k \in S : /\ req[g].pc = "target" /\ req[k].pc = "target"
                                       /\ req[g].target = req[k].device
    BY Zenon DEF DeadlocksExplained
  <2>. QED
    BY CircleOfAdmins
<1>. QED
  BY <1>1, <1>2, <1>3, PTL DEF Spec

-----------------------------------------------------------------------------
(* The refinement: a COMMIT is the request's one step of Membership.       *)

\* The tokens of a device's sessions, as Membership sees them.
TokensOf(d) == {s.token : s \in SessionsOf(d)}

\* A session of d that takes the place of all that d had.
LEMMA TokensStep ==
  ASSUME NEW d \in Device, NEW n, NEW t, NEW S \in SUBSET sessions, n.device = d, n.token = t,
         sessions' = S \union {n},
         \A s \in S : s.device # d, \A s \in sessions : s.device # d => s \in S
  PROVE  TokensOf(d)' = {t} /\ \A e \in Device : e # d => TokensOf(e)' = TokensOf(e)
<1>1. SessionsOf(d)' = {n}
  BY DEF SessionsOf
<1>2. \A e \in Device : e # d => SessionsOf(e)' = SessionsOf(e)
  BY DEF SessionsOf
<1>. QED
  BY <1>1, <1>2 DEF TokensOf

\* The abstract specification counts as the detailed one does.
LEMMA SameCount ==
  ASSUME NEW S
  PROVE  Rules!Cardinality(S) = Cardinality(S)
BY DEF Rules!Cardinality, Cardinality

\* A new token is the only one of its device.
LEMMA GrantStep ==
  ASSUME TypeOK, NEW d \in Device, drawn + 1 \in Token, drawn' = drawn + 1,
         TokensOf(d)' = {drawn + 1}, \A e \in Device : e # d => TokensOf(e)' = TokensOf(e)
  PROVE  Rules!Grant(d)
<1>1. drawn \in Nat
  BY AuthAssumption DEF TypeOK
<1>2. drawn + 1 \in Token \ (1..drawn) /\ 1..(drawn + 1) = (1..drawn) \union {drawn + 1}
  BY <1>1
<1>3. [e \in Device |-> TokensOf(e)]' = [[e \in Device |-> TokensOf(e)] EXCEPT ![d] = {drawn + 1}]
  OBVIOUS
<1>. QED
  BY <1>2, <1>3 DEF Rules!Grant, TokensOf

LEMMA RegisterRefines ==
  ASSUME IInv, NEW h \in Handler, CommitRegister(h)
  PROVE  \E d \in Device : Rules!Register(d)
<1>t. TypeOK /\ Keys /\ \A s \in sessions : s \in Session
  BY DEF IInv, TypeOK
<1>1. PICK d \in Device : d = req[h].device /\ ~Known(d)
  BY Found DEF Committing, Request
<1>2. /\ req[h].pc = "registered" /\ role' = [role EXCEPT ![d] = "super_admin"] /\ revoked' = revoked
      /\ drawn' = drawn + 1
      /\ sessions' = sessions \union {[id |-> drawn + 1, device |-> d, token |-> drawn + 1]}
  BY <1>1 DEF CommitRegister, Granting, At
<1>3. MaxUsers # 0 => Cardinality(Accounts) < MaxUsers
  BY <1>2 DEF IInv, Standing, Registering
<1>4. drawn + 1 \in Token
  BY <1>2, Room DEF IInv, Commits
<1>5. role[d] = "none"
  BY <1>1 DEF Known, Accounts
<1>6. \A s \in sessions : s.device # d
  BY <1>t, <1>5 DEF Keys
<1>7. TokensOf(d)' = {drawn + 1} /\ \A e \in Device : e # d => TokensOf(e)' = TokensOf(e)
  BY <1>2, <1>6, TokensStep
<1>8. Rules!Grant(d)
  BY <1>t, <1>2, <1>4, <1>7, GrantStep
<1>9. Rules!Accounts = Accounts
  BY DEF Rules!Accounts, Accounts
<1>10. Rules!Register(d)
  BY <1>1, <1>2, <1>3, <1>8, <1>9, SameCount DEF Rules!Register, Known
<1>. QED
  BY <1>10

LEMMA LoginRefines ==
  ASSUME IInv, NEW h \in Handler, CommitLogin(h)
  PROVE  \E d \in Device : Rules!Login(d)
<1>t. TypeOK /\ Keys /\ \A s \in sessions : s \in Session
  BY DEF IInv, TypeOK
<1>1. PICK d \in Device : d = req[h].device /\ Known(d) /\ Dooms(h, d)
  BY Found DEF Committing, Request
<1>2. /\ req[h].pc = "login" /\ role' = [role EXCEPT ![d] = IF @ = "none" THEN "member" ELSE @]
      /\ revoked' = revoked \ {d} /\ drawn' = drawn + 1
      /\ sessions' = (sessions \ req[h].doomed)
                       \union {[id |-> drawn + 1, device |-> d, token |-> drawn + 1]}
  BY <1>1 DEF CommitLogin, At
<1>3. drawn + 1 \in Token
  BY <1>2, Room DEF IInv, Commits
<1>4. \A s \in sessions : s \in req[h].doomed <=> s.device = d
  BY <1>1 DEF Dooms, SessionsOf
<1>5. TokensOf(d)' = {drawn + 1} /\ \A e \in Device : e # d => TokensOf(e)' = TokensOf(e)
  <2>1. \A s \in sessions : s.device # d => s \in sessions \ req[h].doomed
    BY <1>4
  <2>2. \A s \in sessions \ req[h].doomed : s.device # d
    BY <1>4
  <2>3. PICK S \in SUBSET sessions : S = sessions \ req[h].doomed
    OBVIOUS
  <2>. QED
    BY <1>2, <2>1, <2>2, <2>3, TokensStep
<1>6. Rules!Grant(d)
  BY <1>t, <1>2, <1>3, <1>5, GrantStep
<1>7. Rules!Accounts = Accounts
  BY DEF Rules!Accounts, Accounts
<1>8. Rules!Login(d)
  BY <1>1, <1>2, <1>6, <1>7 DEF Rules!Login, Known
<1>. QED
  BY <1>8

LEMMA RefreshRefines ==
  ASSUME IInv, NEW h \in Handler, CommitRefresh(h)
  PROVE  \E d \in Device : Rules!Refresh(d)
<1>t. TypeOK /\ Keys /\ OneSessionPerDevice /\ \A s \in sessions : s \in Session
  BY DEF IInv, TypeOK
<1>1. PICK d \in Device : d = req[h].device
  BY Found DEF Committing, Request
<1>2. PICK o \in sessions : o.token = req[h].token /\ o.device = d
  BY <1>1, Found DEF Committing
<1>3. \A s \in sessions : (s.token = req[h].token <=> s = o) /\ (s.device = d <=> s = o)
  BY <1>t, <1>2 DEF Keys, OneSessionPerDevice
<1>4. /\ req[h].pc = "refresh" /\ UNCHANGED <<role, revoked>> /\ drawn' = drawn + 1
      /\ sessions' = {IF s.token = req[h].token THEN [s EXCEPT !.token = drawn + 1] ELSE s : s \in sessions}
  BY DEF CommitRefresh, At
<1>5. drawn + 1 \in Token
  BY <1>4, Room DEF IInv, Commits
<1>s. o \in [id : Token, device : Device, token : Token]
  BY <1>t, <1>2 DEF Session
<1>r. [o EXCEPT !.token = drawn + 1].device = o.device /\ [o EXCEPT !.token = drawn + 1].token = drawn + 1
  BY <1>s
<1>6. PICK n : n = [o EXCEPT !.token = drawn + 1]
  OBVIOUS
<1>e. n.device = d /\ n.token = drawn + 1
  BY <1>2, <1>r, <1>6
<1>7. sessions' = (sessions \ {o}) \union {n}
  BY <1>3, <1>4, <1>6
<1>8. TokensOf(d)' = {drawn + 1} /\ \A e \in Device : e # d => TokensOf(e)' = TokensOf(e)
  BY <1>2, <1>3, <1>e, <1>7 DEF TokensOf, SessionsOf
<1>9. Rules!Grant(d)
  BY <1>t, <1>4, <1>5, <1>8, GrantStep
<1>10. TokensOf(d) # {}
  BY <1>2 DEF TokensOf, SessionsOf
<1>11. Rules!Refresh(d)
  BY <1>4, <1>9, <1>10 DEF Rules!Refresh, TokensOf
<1>. QED
  BY <1>11

LEMMA LogoutRefines ==
  ASSUME IInv, NEW h \in Handler, Logout(h)
  PROVE  UNCHANGED tables \/ \E d \in Device : Rules!Logout(d)
<1>t. TypeOK /\ OneSessionPerDevice
  BY DEF IInv
<1>1. PICK d \in Device : d = req[h].device
  BY Found DEF Committing, Request
<1>2. /\ req[h].pc = "logout" /\ UNCHANGED <<role, revoked, drawn>>
      /\ sessions' = {s \in sessions : s.id # req[h].token}
  BY DEF Logout, At
<1>3. \A s \in sessions : s.id = req[h].token => s.device = d
  BY <1>1, <1>2 DEF IInv, Standing, LoggingOut
<1>4. CASE \E s \in sessions : s.id = req[h].token
  <2>1. TokensOf(d)' = {} /\ \A e \in Device : e # d => TokensOf(e)' = TokensOf(e)
    BY <1>t, <1>2, <1>3, <1>4 DEF TokensOf, SessionsOf, OneSessionPerDevice
  <2>2. [e \in Device |-> TokensOf(e)]' = [[e \in Device |-> TokensOf(e)] EXCEPT ![d] = {}]
    BY <2>1
  <2>. QED
    BY <1>1, <1>2, <2>2 DEF Rules!Logout, TokensOf
<1>5. CASE ~\E s \in sessions : s.id = req[h].token
  BY <1>2, <1>5 DEF tables
<1>. QED
  BY <1>4, <1>5

LEMMA RevokeRefines ==
  ASSUME IInv, NEW h \in Handler, CommitRevoke(h)
  PROVE  \E a, d \in Device :
           a = req[h].device /\ d = req[h].target /\ Rules!Revoke(a, d)
<1>1. PICK a \in Device, d \in Device : a = req[h].device /\ d = req[h].target
  BY Found DEF Committing, Request
<1>2. /\ d # a /\ AccountOf[d] = AccountOf[a] /\ role[d] # "none" /\ a \notin revoked /\ d \notin revoked
      /\ role[d] # "super_admin" /\ role[a] \in {"super_admin", "admin"} /\ Dooms(h, d)
  BY <1>1, Found DEF Committing, Both
<1>3. /\ UNCHANGED <<role, drawn>> /\ revoked' = revoked \union {d}
      /\ sessions' = sessions \ req[h].doomed
  BY <1>1 DEF CommitRevoke
<1>4. \A s \in sessions : s \in req[h].doomed <=> s.device = d
  BY <1>2 DEF Dooms, SessionsOf
<1>5. TokensOf(d)' = {} /\ \A e \in Device : e # d => TokensOf(e)' = TokensOf(e)
  BY <1>3, <1>4 DEF TokensOf, SessionsOf
<1>6. [e \in Device |-> TokensOf(e)]' = [[e \in Device |-> TokensOf(e)] EXCEPT ![d] = {}]
  BY <1>5
<1>7. Rules!Revoke(a, d)
  BY <1>2, <1>3, <1>6 DEF Rules!Revoke, Rules!Peers, TokensOf
<1>. QED
  BY <1>1, <1>7

LEMMA RoleRefines ==
  ASSUME IInv, NEW h \in Handler, CommitRole(h)
  PROVE  \E a, d \in Device :
           a = req[h].device /\ d = req[h].target /\ Rules!SetRole(a, d)
<1>1. PICK a \in Device, d \in Device : a = req[h].device /\ d = req[h].target
  BY Found DEF Committing, Request
<1>2. /\ d # a /\ AccountOf[d] = AccountOf[a] /\ role[d] # "none" /\ a \notin revoked /\ d \notin revoked
      /\ role[a] = "super_admin" /\ req[h].to \in Assignable
  BY <1>1, Found DEF Committing, Both
<1>3. UNCHANGED <<revoked, sessions, drawn>> /\ role' = [role EXCEPT ![d] = req[h].to]
  BY <1>1 DEF CommitRole
<1>4. [e \in Device |-> TokensOf(e)]' = [e \in Device |-> TokensOf(e)]
  BY <1>3 DEF TokensOf, SessionsOf
<1>5. Rules!SetRole(a, d)
  BY <1>2, <1>3, <1>4 DEF Rules!SetRole, Rules!Peers, TokensOf, Rules!Assignable, Assignable
<1>. QED
  BY <1>1, <1>5

(* Concurrent transactions amount to one request after another: a refresh  *)
(* token is exchanged once, the limit of users holds, an account has one   *)
(* first device.                                                           *)
THEOREM AuthImplementsMembership == Spec => ImplementsMembership
<1>1. Init => Rules!Init
  BY DEF Init, Rules!Init, SessionsOf
<1>2. ASSUME IInv, [Next]_vars
      PROVE  [Rules!Next]_(Rules!vars)
  <2>1. ASSUME UNCHANGED tables
        PROVE  UNCHANGED Rules!vars
    BY <2>1 DEF tables, Rules!vars, SessionsOf
  <2>2. CASE UNCHANGED vars
    BY <2>1, <2>2 DEF vars
  <2>3. ASSUME NEW h \in Handler, Steps(h)
        PROVE  Rules!Next \/ UNCHANGED tables
    <3>1. CASE Committing(h)
      BY <1>2, <3>1, RegisterRefines, LoginRefines, RefreshRefines, LogoutRefines,
         RevokeRefines, RoleRefines DEF Committing, Rules!Next
    <3>. QED
      BY <2>3, <3>1, OnlyCommitsWrite
  <2>. QED
    BY <1>2, <2>1, <2>2, <2>3 DEF Next, Steps
<1>3. Init => IInv
  BY Beginning
<1>4. IInv /\ [Next]_vars => IInv'
  BY Inductive
<1>. QED
  BY <1>1, <1>2, <1>3, <1>4, PTL DEF Spec, ImplementsMembership, Rules!Spec

(* server/README.md: role checks and row locks are applied inside the      *)
(* transaction: who revokes a device or changes its role is active and may *)
(* do so at the moment it takes effect, whatever was decided meanwhile.    *)
THEOREM ActedWithAuthorityAlways == Spec => ActedWithAuthority
<1>1. ASSUME IInv, [Next]_vars
      PROVE  [\A h \in Handler :
                /\ CommitRevoke(h) => Rules!Revoke(req[h].device, req[h].target)
                /\ CommitRole(h) => Rules!SetRole(req[h].device, req[h].target)]_vars
  <2>1. ASSUME NEW h \in Handler, CommitRevoke(h)
        PROVE  Rules!Revoke(req[h].device, req[h].target)
    <3>1. PICK a \in Device, d \in Device : a = req[h].device /\ d = req[h].target /\ Rules!Revoke(a, d)
      BY <1>1, <2>1, RevokeRefines
    <3>. QED
      BY <3>1 DEF Rules!Revoke, Rules!Peers
  <2>2. ASSUME NEW h \in Handler, CommitRole(h)
        PROVE  Rules!SetRole(req[h].device, req[h].target)
    <3>1. PICK a \in Device, d \in Device : a = req[h].device /\ d = req[h].target /\ Rules!SetRole(a, d)
      BY <1>1, <2>2, RoleRefines
    <3>. QED
      BY <3>1 DEF Rules!SetRole, Rules!Peers
  <2>. QED
    BY <2>1, <2>2
<1>2. Init => IInv
  BY Beginning
<1>3. IInv /\ [Next]_vars => IInv'
  BY Inductive
<1>. QED
  BY <1>1, <1>2, <1>3, PTL DEF Spec, ActedWithAuthority
=============================================================================
