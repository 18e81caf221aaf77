--------------------------- MODULE DaemonAccount ---------------------------
(***************************************************************************)
(* The session of the KernelSU module (android-kernelsu): settings.json,   *)
(* runtime.json and pending.json, the daemon that signs in, refreshes and  *)
(* loses its session, and the commands of fastcopyctl, which stop it and   *)
(* run a utility process over the same files. One command runs at a time,  *)
(* as the WebUI issues them.                                               *)
(*                                                                         *)
(* Abstractions: one server URL, so a fingerprint is the account; the pair *)
(* of tokens is one, of which the access half may have expired; a clip is  *)
(* its account, the one whose key encrypted it, and so is a cursor above   *)
(* 0; a request that may be repeated and its answer are one step. A write  *)
(* of a file succeeds whole (writeJSONAtomic). status.json is left out.    *)
(***************************************************************************)
EXTENDS Naturals, Sequences

CONSTANTS
  Account,      \* accounts on the server, whose passwords the user knows
  MaxCommands,  \* bound of the model: commands of the user
  MaxCopies,    \* bound of the model: local copies
  MaxFaults     \* bound of the model: losses, crashes, expiries, sessions ended

None == "none"

ASSUME AccountAssumption ==
  /\ None \notin Account
  /\ MaxCommands \in Nat /\ MaxCopies \in Nat /\ MaxFaults \in Nat

VARIABLES
  settings,  \* settings.json
  runtime,   \* runtime.json
  pending,   \* pending.json and, while the daemon runs, its queue
  pc,        \* where each process stands
  user,      \* each process's UserConfig
  state,     \* each process's RuntimeState
  sent,      \* the token that the server has drawn for a process, on its way
  ctl,       \* fastcopyctl: the command and what it does next
  issued,    \* tokens drawn by the server
  live,      \* tokens the server accepts
  ended,     \* history: tokens of sessions the server ended
  saved,     \* history: tokens that were written to runtime.json
  torn,      \* history: a start was cut off between its two writes
  commands, copies, faults   \* how many there were

files == <<settings, runtime, pending>>
process == <<pc, user, state, sent>>
server == <<issued, live, ended>>
counts == <<commands, copies, faults>>
history == <<saved, torn>>
vars == <<files, process, ctl, server, history, counts>>

Process == {"daemon", "utility"}
Password == {"none", "right", "wrong"}

Token == Nat \ {0}

UserConfig == [account : Account \union {None}, password : Password, enabled : BOOLEAN]
RuntimeState == [of : Account \union {None}, token : Token \union {0},
                 key : Account \union {None}, cursor : Account \union {None}]

NewRuntime == [of |-> None, token |-> 0, key |-> None, cursor |-> None]
NewConfig == [account |-> None, password |-> "none", enabled |-> TRUE]

Command == {"none", "save", "restart", "logout", "device"}
Script == [cmd : Command, pc : {"idle", "write", "stop", "run", "wait", "left", "start"},
           config : UserConfig, resume : BOOLEAN, heard : BOOLEAN]
Quiet == [cmd |-> "none", pc |-> "idle", config |-> NewConfig, resume |-> FALSE, heard |-> FALSE]

Step == {"off", "boot", "adopted", "idle",              \* the daemon's life
         "signin", "granted", "erase",                  \* authenticate
         "call", "refresh", "rotated", "again",         \* a request under withAuth
         "settings", "runtime", "pending",              \* clearLocalSession
         "logout", "renew", "renewed"}                  \* revokeRemoteSession

TypeOK ==
  /\ settings \in UserConfig /\ runtime \in RuntimeState /\ pending \in Seq(Account)
  /\ pc \in [Process -> Step]
  /\ user \in [Process -> UserConfig] /\ state \in [Process -> RuntimeState]
  /\ sent \in [Process -> Token \union {0}]
  /\ ctl \in Script
  /\ issued \in Seq([account : Account, from : Token \union {0}])
  /\ live \subseteq DOMAIN issued /\ ended \subseteq DOMAIN issued \ live
  /\ saved \subseteq DOMAIN issued /\ torn \in BOOLEAN
  /\ commands \in 0..MaxCommands /\ copies \in 0..MaxCopies /\ faults \in 0..MaxFaults

Init ==
  /\ settings = NewConfig /\ runtime = NewRuntime /\ pending = <<>>
  /\ pc = [p \in Process |-> "off"]
  /\ user = [p \in Process |-> NewConfig] /\ state = [p \in Process |-> NewRuntime]
  /\ sent = [p \in Process |-> 0]
  /\ ctl = Quiet
  /\ issued = <<>> /\ live = {} /\ ended = {} /\ saved = {} /\ torn = FALSE
  /\ commands = 0 /\ copies = 0 /\ faults = 0

Fault == faults < MaxFaults /\ faults' = faults + 1
NoFault == UNCHANGED counts

AccountOf(t) == issued[t].account
HasSession(r) == r.key # None /\ r.token # 0

ClearAuthentication(r) == [r EXCEPT !.token = 0, !.key = None]
InvalidateSession(r) == [ClearAuthentication(r) EXCEPT !.cursor = None]

Goes(p, step) == pc' = [pc EXCEPT ![p] = step]

\* Process p changes its RuntimeState and writes it out (SaveRuntime).
SaveRuntime(p, r) ==
  /\ runtime' = r
  /\ state' = [state EXCEPT ![p] = r]
  /\ saved' = saved \union ({r.token} \ {0})

\* A process ends; its memory is gone, and with it what was on its way.
Exit(p) ==
  /\ Goes(p, "off")
  /\ user' = [user EXCEPT ![p] = NewConfig]
  /\ state' = [state EXCEPT ![p] = NewRuntime]
  /\ sent' = [sent EXCEPT ![p] = 0]

\* The daemon or the utility gives up a request.
GivesUp(p) ==
  IF p = "daemon"
  THEN Goes(p, "idle") /\ sent' = [sent EXCEPT ![p] = 0] /\ UNCHANGED <<user, state>>
  ELSE Exit(p)

-----------------------------------------------------------------------------
(* The server.                                                             *)

\* Draws a token for p that continues the session of `from`, or begins one.
Draws(p, a, from, replaced) ==
  LET n == Len(issued) + 1
  IN  /\ issued' = Append(issued, [account |-> a, from |-> from])
      /\ live' = (live \ replaced) \union {n}
      /\ sent' = [sent EXCEPT ![p] = n]

(* Another device revokes this one, or the session times out.              *)
EndSession(t) ==
  /\ Fault
  /\ live' = live \ {t} /\ ended' = ended \union {t}
  /\ UNCHANGED <<files, process, ctl, issued, history, commands, copies>>

-----------------------------------------------------------------------------
(* The start of the daemon, main.                                          *)

Load(p) ==
  /\ user' = [user EXCEPT ![p] = settings]
  /\ state' = [state EXCEPT ![p] = runtime]

\* Mutant: the queue outlives a change of account.
AdoptKeepingQueue ==
  /\ pc["daemon"] = "boot" /\ state["daemon"].of # user["daemon"].account
  /\ SaveRuntime("daemon", [NewRuntime EXCEPT !.of = user["daemon"].account])
  /\ UNCHANGED <<settings, pending, pc, user, sent, ctl, server, torn, counts>>

\* Mutant: the cursor outlives a change of account.
AdoptKeepingCursor ==
  /\ pc["daemon"] = "boot" /\ state["daemon"].of # user["daemon"].account
  /\ SaveRuntime("daemon", [ClearAuthentication(state["daemon"]) EXCEPT
                              !.of = user["daemon"].account])
  /\ Goes("daemon", "adopted")
  /\ UNCHANGED <<settings, pending, user, sent, ctl, server, torn, counts>>

(* The settings name another account than runtime.json is of: start afresh.*)
AdoptAccount ==
  /\ pc["daemon"] = "boot" /\ state["daemon"].of # user["daemon"].account
  /\ SaveRuntime("daemon", [NewRuntime EXCEPT !.of = user["daemon"].account])
  /\ Goes("daemon", "adopted")
  /\ UNCHANGED <<settings, pending, user, sent, ctl, server, torn, counts>>

(* ... and then its queue.                                                 *)
DropQueue ==
  /\ pc["daemon"] = "adopted"
  /\ pending' = <<>> /\ torn' = FALSE
  /\ Goes("daemon", "boot")
  /\ UNCHANGED <<settings, runtime, user, state, sent, ctl, server, saved, counts>>

(* A password is an order to sign in anew; tokens without a key are of no  *)
(* use. Disabled, or with nothing to sign in with, the daemon ends.        *)
BeginSync ==
  /\ pc["daemon"] = "boot" /\ state["daemon"].of = user["daemon"].account
  /\ LET u == user["daemon"]
         r == IF u.password # "none" THEN ClearAuthentication(state["daemon"])
              ELSE IF state["daemon"].key = None THEN [state["daemon"] EXCEPT !.token = 0]
              ELSE state["daemon"]
         starts == u.enabled /\ u.account # None /\ (HasSession(r) \/ u.password # "none")
     IN  /\ runtime' = r
         /\ IF starts
            THEN /\ Goes("daemon", "idle")
                 /\ state' = [state EXCEPT !["daemon"] = r]
                 /\ UNCHANGED <<user, sent>>
            ELSE Exit("daemon")
  /\ UNCHANGED <<settings, pending, ctl, server, history, counts>>

-----------------------------------------------------------------------------
(* The daemon's rounds.                                                    *)

(* A local copy is encrypted and queued; without a key it is lost.         *)
LocalCopy ==
  /\ pc["daemon"] = "idle" /\ state["daemon"].key # None
  /\ copies < MaxCopies /\ copies' = copies + 1
  /\ pending' = Append(pending, state["daemon"].key)
  /\ UNCHANGED <<settings, runtime, process, ctl, server, history, commands, faults>>

\* ensureAuthenticated has nothing to go by: "password is required".
NeedsPassword ==
  ~HasSession(state["daemon"]) /\ user["daemon"].password = "none"

(* A round begins with ensureAuthenticated.                                *)
BeginRound ==
  /\ pc["daemon"] = "idle" /\ ~NeedsPassword
  /\ Goes("daemon", IF HasSession(state["daemon"]) THEN "call" ELSE "signin")
  /\ UNCHANGED <<files, user, state, sent, ctl, server, history, counts>>

\* Every five minutes the round fails at once.
AuthRequired == pc["daemon"] = "idle" /\ NeedsPassword /\ UNCHANGED vars

(* POST /v1/auth/session: the server ends older sessions of this device.   *)
Authenticate ==
  /\ pc["daemon"] = "signin"
  /\ LET u == user["daemon"]
         older == {t \in live : AccountOf(t) = u.account}
     IN  IF u.password = "right"
         THEN /\ Draws("daemon", u.account, 0, older)
              /\ ended' = ended \union older
              /\ Goes("daemon", "granted")
         ELSE Goes("daemon", "idle") /\ UNCHANGED <<server, sent>>
  /\ UNCHANGED <<files, user, state, ctl, history, counts>>

(* The answer: the session and the key are saved ...                       *)
SignedIn ==
  /\ pc["daemon"] = "granted"
  /\ LET a == user["daemon"].account
     IN  SaveRuntime("daemon", [state["daemon"] EXCEPT
           !.token = sent["daemon"], !.key = a, !.of = a])
  /\ sent' = [sent EXCEPT !["daemon"] = 0]
  /\ Goes("daemon", "erase")
  /\ UNCHANGED <<settings, pending, user, ctl, server, torn, counts>>

(* ... and the settings without the password, whatever the file says now.  *)
ErasePassword ==
  /\ pc["daemon"] = "erase"
  /\ settings' = [user["daemon"] EXCEPT !.password = "none"]
  /\ user' = [user EXCEPT !["daemon"].password = "none"]
  /\ Goes("daemon", "call")
  /\ UNCHANGED <<runtime, pending, state, sent, ctl, server, history, counts>>

(* A round under a session: the queue is uploaded, then clips are pulled.  *)
Succeeds(p) ==
  IF p = "utility" THEN Exit(p) /\ UNCHANGED <<files, saved>>
  ELSE /\ Goes(p, "idle")
       /\ IF pending # <<>>
          THEN pending' = Tail(pending) /\ UNCHANGED <<runtime, state, saved>>
          ELSE /\ SaveRuntime(p, [state[p] EXCEPT !.cursor = AccountOf(state[p].token)])
               /\ UNCHANGED pending
       /\ UNCHANGED <<settings, user, sent>>

Accepted(p, step) ==
  /\ pc[p] = step /\ state[p].token \in live
  /\ Succeeds(p)
  /\ UNCHANGED <<ctl, server, torn, counts>>

\* Mutant: a 401 is an error like others.
NoRefresh(p) ==
  /\ pc[p] = "call"
  /\ IF state[p].token \in live THEN Fault /\ UNCHANGED <<commands, copies>> ELSE NoFault
  /\ GivesUp(p)
  /\ UNCHANGED <<files, ctl, server, history>>

(* 401: the session is over, or a fault, the access token has expired.     *)
Unauthorized(p) ==
  /\ pc[p] = "call"
  /\ IF state[p].token \in live THEN Fault /\ UNCHANGED <<commands, copies>> ELSE NoFault
  /\ Goes(p, "refresh")
  /\ UNCHANGED <<files, user, state, sent, ctl, server, history>>

\* The session is over: p goes on without it.
WithoutSession(p) ==
  /\ runtime' = InvalidateSession(state[p])
  /\ IF p = "daemon"
     THEN Goes(p, "idle") /\ state' = [state EXCEPT ![p] = runtime'] /\ UNCHANGED <<user, sent>>
     ELSE Exit(p)
  /\ UNCHANGED <<settings, saved>>

\* Mutant: the queue goes with the session.
DiscardSessionAndQueue(p) == WithoutSession(p) /\ pending' = <<>>

(* invalidateSession: session, key and cursor are forgotten, the queue     *)
(* stays.                                                                  *)
DiscardSession(p) == WithoutSession(p) /\ UNCHANGED pending

(* POST /v1/auth/refresh. The server rotates the token, or 401.            *)
Refresh(p) ==
  /\ pc[p] = "refresh"
  /\ LET t == state[p].token
     IN  IF t \in live
         THEN /\ Draws(p, AccountOf(t), t, {t})
              /\ Goes(p, "rotated")
              /\ UNCHANGED <<files, user, state, ended, saved>>
         ELSE DiscardSession(p) /\ UNCHANGED server
  /\ UNCHANGED <<ctl, torn, counts>>

(* The answer, and the request once more.                                  *)
Refreshed(p) ==
  /\ pc[p] = "rotated"
  /\ SaveRuntime(p, [state[p] EXCEPT !.token = sent[p]])
  /\ sent' = [sent EXCEPT ![p] = 0]
  /\ Goes(p, "again")
  /\ UNCHANGED <<settings, pending, user, ctl, server, torn, counts>>

(* A second 401 ends the round; a utility forgets the session.             *)
UnauthorizedAgain(p) ==
  /\ pc[p] = "again" /\ state[p].token \notin live
  /\ IF p = "daemon" THEN GivesUp(p) /\ UNCHANGED <<files, saved>> ELSE DiscardSession(p)
  /\ UNCHANGED <<ctl, server, torn, counts>>

(* The request or its answer is lost; a token that was on its way, too.    *)
Lose(p) ==
  /\ pc[p] \in {"signin", "granted", "call", "refresh", "rotated", "again"}
  /\ Fault /\ GivesUp(p)
  /\ UNCHANGED <<files, ctl, server, history, commands, copies>>

-----------------------------------------------------------------------------
(* The utility `logout`.                                                   *)

\* The files, one write after the other; the session stays in memory.
ClearSettings ==
  /\ pc["utility"] = "settings"
  /\ settings' = [user["utility"] EXCEPT !.password = "none"]
  /\ Goes("utility", "runtime")
  /\ UNCHANGED <<runtime, pending, user, state, sent, ctl, server, history, counts>>

ClearRuntime ==
  /\ pc["utility"] = "runtime"
  /\ runtime' = ClearAuthentication(state["utility"])
  /\ Goes("utility", "pending")
  /\ UNCHANGED <<settings, pending, user, state, sent, ctl, server, history, counts>>

ClearPending ==
  /\ pc["utility"] = "pending"
  /\ pending' = <<>> /\ torn' = FALSE
  /\ IF state["utility"].token = 0
     THEN Exit("utility")
     ELSE Goes("utility", "logout") /\ UNCHANGED <<user, state, sent>>
  /\ UNCHANGED <<settings, runtime, ctl, server, saved, counts>>

\* revokeRemoteSession ends: heard, unless the server did not answer.
Heard(answer) == ctl' = [ctl EXCEPT !.heard = answer]

(* POST /v1/auth/logout with a token: 204, or 401.                         *)
EndOwnSession(t) ==
  /\ live' = live \ {t} /\ ended' = ended \union {t} /\ UNCHANGED issued
  /\ Exit("utility") /\ Heard(TRUE)

\* Mutant: an expired access token is taken for the end of the session.
RemoteLogoutOnce ==
  /\ pc["utility"] = "logout"
  /\ LET t == state["utility"].token
     IN  \/ t \in live /\ EndOwnSession(t) /\ NoFault
         \/ /\ Exit("utility") /\ Heard(TRUE) /\ UNCHANGED server
            /\ IF t \in live THEN Fault /\ UNCHANGED <<commands, copies>> ELSE NoFault
  /\ UNCHANGED <<files, history>>

RemoteLogout ==
  /\ pc["utility"] = "logout"
  /\ LET t == state["utility"].token
     IN  \/ t \in live /\ EndOwnSession(t) /\ NoFault
         \/ /\ Goes("utility", "renew") /\ UNCHANGED <<user, state, sent, ctl, server>>
            /\ IF t \in live THEN Fault /\ UNCHANGED <<commands, copies>> ELSE NoFault
  /\ UNCHANGED <<files, history>>

RemoteRefresh ==
  /\ pc["utility"] = "renew"
  /\ LET t == state["utility"].token
     IN  IF t \in live
         THEN /\ Draws("utility", AccountOf(t), t, {t})
              /\ Goes("utility", "renewed")
              /\ UNCHANGED <<user, state, ended, ctl>>
         ELSE Exit("utility") /\ Heard(TRUE) /\ UNCHANGED server
  /\ UNCHANGED <<files, history, counts>>

RemoteLogoutAgain ==
  /\ pc["utility"] = "renewed"
  /\ LET t == sent["utility"]
     IN  IF t \in live THEN EndOwnSession(t)
         ELSE Exit("utility") /\ Heard(TRUE) /\ UNCHANGED server
  /\ UNCHANGED <<files, history, counts>>

\* Three seconds pass without an answer.
LogoutUnheard ==
  /\ pc["utility"] \in {"logout", "renew", "renewed"}
  /\ Fault /\ Exit("utility")
  /\ UNCHANGED <<files, ctl, server, history, commands, copies>>

-----------------------------------------------------------------------------
(* fastcopyctl.                                                            *)

Issue(c) ==
  /\ ctl = Quiet /\ commands < MaxCommands /\ commands' = commands + 1
  /\ ctl' = c
  /\ UNCHANGED <<files, process, server, history, copies, faults>>

(* save in app.js, or config-set by hand: signed in, the switch; otherwise *)
(* account and password, which the WebUI sends with the switch on.         *)
Save ==
  \E u \in UserConfig :
    /\ IF HasSession(runtime) THEN u.account = settings.account /\ u.password = "none"
                              ELSE u.account # None /\ u.password # "none"
    /\ Issue([Quiet EXCEPT !.cmd = "save", !.pc = "write", !.config = u])

Restart == Issue([Quiet EXCEPT !.cmd = "restart", !.pc = "stop"])
SignOut == HasSession(runtime) /\ Issue([Quiet EXCEPT !.cmd = "logout", !.pc = "stop"])
ManageDevice == HasSession(runtime) /\ Issue([Quiet EXCEPT !.cmd = "device", !.pc = "stop"])

(* config-set, while the daemon runs.                                      *)
ConfigSet ==
  /\ ctl.pc = "write"
  /\ settings' = [ctl.config EXCEPT !.enabled = @ \/ ctl.config.password # "none"]
  /\ ctl' = [ctl EXCEPT !.pc = "stop"]
  /\ UNCHANGED <<runtime, pending, process, server, history, counts>>

Torn == torn \/ (pc["daemon"] = "adopted" /\ pending # <<>>)

AfterStop ==
  IF ctl.cmd \in {"save", "restart"} THEN "start" ELSE "run"

\* Mutant: a utility runs beside the daemon.
NoStop ==
  /\ ctl.pc = "stop"
  /\ ctl' = [ctl EXCEPT !.pc = AfterStop, !.resume = ctl.cmd # "logout"]
  /\ UNCHANGED <<files, process, server, history, counts>>

(* TERM, and KILL when the daemon takes too long: it may end anywhere.     *)
Stop ==
  /\ ctl.pc = "stop"
  /\ Exit("daemon") /\ torn' = Torn
  /\ ctl' = [ctl EXCEPT !.pc = AfterStop,
                        !.resume = ctl.cmd = "device" /\ pc["daemon"] # "off"]
  /\ UNCHANGED <<files, server, saved, counts>>

(* The utility: it loads the files, and without a token there is nothing   *)
(* to ask the server.                                                      *)
RunUtility ==
  /\ ctl.pc = "run"
  /\ ctl' = [ctl EXCEPT !.pc = "wait"]
  /\ IF ctl.cmd = "device" /\ runtime.token = 0
     THEN runtime' = InvalidateSession(runtime) /\ UNCHANGED process
     ELSE /\ Load("utility")
          /\ Goes("utility", IF ctl.cmd = "logout" THEN "settings" ELSE "call")
          /\ UNCHANGED <<runtime, sent>>
  /\ UNCHANGED <<settings, pending, server, history, counts>>

UtilityEnded ==
  /\ ctl.pc = "wait" /\ pc["utility"] = "off"
  /\ ctl' = IF ctl.cmd = "logout" THEN [ctl EXCEPT !.pc = "left"]
            ELSE IF ctl.resume THEN [ctl EXCEPT !.pc = "start"] ELSE Quiet
  /\ UNCHANGED <<files, process, server, history, counts>>

LogoutReported ==
  /\ ctl.pc = "left"
  /\ ctl' = Quiet
  /\ UNCHANGED <<files, process, server, history, counts>>

\* The daemon's files are read at its start.
Started ==
  /\ pc["daemon"] = "off"
  /\ Load("daemon") /\ Goes("daemon", "boot")
  /\ UNCHANGED <<files, sent, server, history, counts>>

Start == ctl.pc = "start" /\ Started /\ ctl' = Quiet

(* The phone is switched on: service.sh.                                   *)
Boot == ctl = Quiet /\ Started /\ UNCHANGED ctl

(* The phone is switched off or the processes are killed.                  *)
Crash ==
  /\ Fault
  /\ pc' = [p \in Process |-> "off"] /\ sent' = [p \in Process |-> 0]
  /\ user' = [p \in Process |-> NewConfig] /\ state' = [p \in Process |-> NewRuntime]
  /\ torn' = Torn
  /\ ctl' = Quiet
  /\ UNCHANGED <<files, server, saved, commands, copies>>

-----------------------------------------------------------------------------
User == Save \/ Restart \/ SignOut \/ ManageDevice \/ LocalCopy

Disturbance ==
  \/ Crash \/ LogoutUnheard
  \/ \E p \in Process : Lose(p)
  \/ \E t \in live : EndSession(t)

Asking(p) ==
  \/ \E step \in {"call", "again"} : Accepted(p, step)
  \/ Unauthorized(p) \/ Refresh(p) \/ Refreshed(p) \/ UnauthorizedAgain(p)

Daemon ==
  \/ AdoptAccount \/ DropQueue \/ BeginSync
  \/ BeginRound \/ AuthRequired \/ Authenticate \/ SignedIn \/ ErasePassword
  \/ Asking("daemon")

Utility ==
  \/ ClearSettings \/ ClearRuntime \/ ClearPending
  \/ RemoteLogout \/ RemoteRefresh \/ RemoteLogoutAgain
  \/ Asking("utility")

Control ==
  ConfigSet \/ Stop \/ RunUtility \/ UtilityEnded \/ LogoutReported \/ Start

Next == User \/ Disturbance \/ Daemon \/ Utility \/ Control \/ Boot

Spec == Init /\ [][Next]_vars

(* Processes run on and requests are answered within their time limits.    *)
FairSpec ==
  /\ Spec
  /\ WF_vars(Daemon) /\ WF_vars(Utility) /\ WF_vars(Control)
-----------------------------------------------------------------------------
Tokens(a) == {t \in DOMAIN issued : AccountOf(t) = a}

(* The daemon never uploads under one account what was copied under        *)
(* another, whichever commands, crashes and lost answers come in between - *)
(* except when a start was cut off between the two files of a change of    *)
(* account (main.go:54-57): the new fingerprint is saved, the old queue    *)
(* is not dropped any more.                                                *)
UploadsOwnCopies ==
  [][Len(pending') < Len(pending) /\ pc["daemon"] \in {"call", "again"} =>
       torn \/ Head(pending) = AccountOf(state["daemon"].token)]_vars

(* A cursor is only used with the account whose clips it counted: numbers  *)
(* are drawn for all accounts together, so another's would skip clips.     *)
CursorOfAccount ==
  pc["daemon"] \in {"call", "again"} =>
    state["daemon"].cursor \in {None, AccountOf(state["daemon"].token)}

(* A copy that is queued leaves the queue by its upload, by a sign-out or  *)
(* when the module changes to another account: neither a lost session nor  *)
(* signing in again loses it.                                              *)
QueueKept ==
  [][Len(pending') < Len(pending) =>
       \/ pc["daemon"] \in {"call", "again"} /\ pending' = Tail(pending)
       \/ pc["utility"] = "pending"
       \/ torn \/ \A i \in DOMAIN pending : pending[i] # user["daemon"].account]_vars

\* The token that continues t's session reached no file and is not on its way.
LostRotation(t) ==
  \E n \in DOMAIN issued :
    issued[n].from = t /\ n \notin saved \union {sent[p] : p \in Process}

(* The module forgets a session only when the server ended it, or when the *)
(* answer to a refresh was lost (a crash, or a command that stops the      *)
(* daemon at that moment): daemon and utilities never use up each other's  *)
(* refresh token.                                                          *)
SessionsEndForCause ==
  [][\A p \in Process :
       LET t == state[p].token
       IN  runtime.token = t /\ t # 0 /\ (Refresh(p) \/ UnauthorizedAgain(p)) /\ runtime'.token = 0
             => t \in ended \/ LostRotation(t)]_vars

(* README.md: signing out revokes the server session and removes tokens,   *)
(* key and pending uploads. When `fastcopyctl logout` reports success,     *)
(* nothing of them is left in the files, and if the server answered, it    *)
(* accepts no token that was ever saved here for the account.              *)
SignedOut ==
  ctl.pc = "left" =>
    /\ pending = <<>> /\ settings.password = "none"
    /\ runtime.token = 0 /\ runtime.key = None
    /\ ctl.heard => live \intersect saved \intersect Tokens(runtime.of) = {}

(* Whatever was submitted, lost or cut off: the queue is uploaded, unless  *)
(* the daemon is off, needs a password or has a wrong one.                 *)
QueueDrains ==
  []<>(\/ pending = <<>>
       \/ pc["daemon"] = "off" \/ NeedsPassword
       \/ user["daemon"].password = "wrong")
=============================================================================
