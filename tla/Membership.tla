----------------------------- MODULE Membership -----------------------------
(***************************************************************************)
(* What the server promises about accounts, devices, roles and sessions    *)
(* (shared/API.md, "Devices"), every request being one step: the first     *)
(* device of an account is its super admin, a device has at most one       *)
(* session, a refresh token is exchanged once, and who revokes a device or *)
(* changes a role may do so at that moment. DeviceAuth implements it.      *)
(***************************************************************************)
EXTENDS Naturals, FiniteSets

CONSTANTS
  Device,      \* installations, each of one account
  AccountOf,   \* the account of each device
  MaxUsers,    \* FASTCOPY_MAX_USERS, 0 for no limit
  Token        \* refresh tokens

VARIABLES
  role,        \* each device's role, "none" before its first sign-in
  revoked,     \* devices with a revoked_at
  session,     \* the refresh token of each device's session, {} without one
  used         \* refresh tokens that were handed out at some time

vars == <<role, revoked, session, used>>

Assignable == {"admin", "member"}
Role == {"super_admin"} \union Assignable

TypeOK ==
  /\ role \in [Device -> Role \union {"none"}]
  /\ revoked \subseteq Device
  /\ session \in [Device -> SUBSET Token]
  /\ used \subseteq Token

Init ==
  /\ role = [d \in Device |-> "none"]
  /\ revoked = {}
  /\ session = [d \in Device |-> {}]
  /\ used = {}

Accounts == {AccountOf[d] : d \in {e \in Device : role[e] # "none"}}

\* A session of d begins, or goes on, with a token nobody has had.
Grant(d) ==
  \E t \in Token \ used : session' = [session EXCEPT ![d] = {t}] /\ used' = used \union {t}

(* The first sign-in of an account registers it.                           *)
Register(d) ==
  /\ AccountOf[d] \notin Accounts
  /\ MaxUsers # 0 => Cardinality(Accounts) < MaxUsers
  /\ role' = [role EXCEPT ![d] = "super_admin"]
  /\ Grant(d)
  /\ UNCHANGED revoked

(* A device that signs in again keeps its role, revoked or not.            *)
Login(d) ==
  /\ AccountOf[d] \in Accounts
  /\ role' = [role EXCEPT ![d] = IF @ = "none" THEN "member" ELSE @]
  /\ revoked' = revoked \ {d}
  /\ Grant(d)

Refresh(d) ==
  /\ session[d] # {}
  /\ Grant(d)
  /\ UNCHANGED <<role, revoked>>

Logout(d) ==
  /\ session' = [session EXCEPT ![d] = {}]
  /\ UNCHANGED <<role, revoked, used>>

\* a and d are different active devices of one account.
Peers(a, d) ==
  /\ a # d /\ AccountOf[a] = AccountOf[d]
  /\ a \notin revoked /\ d \notin revoked
  /\ role[d] # "none"

Revoke(a, d) ==
  /\ Peers(a, d)
  /\ role[a] \in {"super_admin", "admin"} /\ role[d] # "super_admin"
  /\ revoked' = revoked \union {d}
  /\ session' = [session EXCEPT ![d] = {}]
  /\ UNCHANGED <<role, used>>

SetRole(a, d) ==
  /\ Peers(a, d)
  /\ role[a] = "super_admin"
  /\ \E r \in Assignable : role' = [role EXCEPT ![d] = r]
  /\ UNCHANGED <<revoked, session, used>>

Next ==
  \E d \in Device :
    \/ Register(d) \/ Login(d) \/ Refresh(d) \/ Logout(d)
    \/ \E a \in Device : Revoke(a, d) \/ SetRole(a, d)

Spec == Init /\ [][Next]_vars
=============================================================================
