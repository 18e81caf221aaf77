------------------------ MODULE DaemonAccountProofs ------------------------
(***************************************************************************)
(* Proofs about DaemonAccount, for any accounts and any number of          *)
(* commands, copies and faults.                                            *)
(*                                                                         *)
(* What carries them: daemon and utility take turns (Turns), so that what  *)
(* a process has in memory is what the file says (Memory); what the file   *)
(* says is all of one account (Belongings); the newest token of an account *)
(* is the only one the server may still accept of those that were saved    *)
(* (Sessions).                                                             *)
(***************************************************************************)
EXTENDS DaemonAccount, TLAPS

LeavingSteps == {"settings", "runtime", "pending", "logout", "renew", "renewed"}
AskingSteps == {"call", "refresh", "rotated", "again"}

(* The daemon is stopped while a utility may run, and a utility runs only  *)
(* while its command waits for it.                                         *)
Turns ==
  /\ ctl.pc \in {"run", "wait", "left", "start"} => pc["daemon"] = "off"
  /\ ctl.pc # "wait" => pc["utility"] = "off"
  /\ ctl.pc \in {"run", "wait"} => ctl.cmd \in {"logout", "device"}
  /\ ctl.pc = "left" => ctl.cmd = "logout"
  /\ ctl.cmd = "none" => ctl.pc = "idle"
  /\ pc["daemon"] \in AskingSteps \union
       {"off", "boot", "adopted", "idle", "signin", "granted", "erase"}
  /\ pc["utility"] \in AskingSteps \union LeavingSteps \union {"off"}
  /\ pc["utility"] \in LeavingSteps => ctl.cmd = "logout"
  /\ pc["utility"] \in AskingSteps => ctl.cmd = "device"

(* A process works with what the files say.                                *)
Memory ==
  /\ \A p \in Process : sent[p] # 0 <=> pc[p] \in {"granted", "rotated", "renewed"}
  /\ pc["daemon"] # "off" => state["daemon"] = runtime
  /\ pc["daemon"] \notin {"off", "boot"} => runtime.of = user["daemon"].account
  /\ pc["daemon"] \notin {"off", "boot", "adopted"} => user["daemon"].account \in Account
  /\ pc["utility"] # "off" => state["utility"].of = runtime.of
  /\ pc["utility"] \in AskingSteps \union {"settings", "runtime"} => state["utility"] = runtime
  /\ \A p \in Process :
       pc[p] \in AskingSteps \union {"erase", "logout", "renew", "renewed"} => state[p].token # 0

(* A RuntimeState has tokens, key and cursor of one account.               *)
Whole(r) ==
  /\ r.token = 0 <=> r.key = None
  /\ r.key \in {None, r.of} /\ r.cursor \in {None, r.of}
  /\ r.token # 0 => r.token \in saved /\ AccountOf(r.token) = r.of

(* Of the saved tokens of its account, only its own may still be accepted. *)
Current(r) ==
  r.token # 0 => \A t \in live \intersect saved : AccountOf(t) = r.of => t = r.token

Belongings ==
  /\ Whole(runtime) /\ Current(runtime)
  /\ pc["utility"] # "off" => Whole(state["utility"]) /\ Current(state["utility"])

(* The server accepts one token of an account at most, and a token on its  *)
(* way is the last one it has drawn. A token that is accepted no more was  *)
(* ended or continued.                                                     *)
Sessions ==
  /\ \A s, t \in live : AccountOf(s) = AccountOf(t) => s = t
  /\ \A p \in Process :
       sent[p] # 0 =>
         /\ sent[p] = Len(issued) /\ sent[p] \notin saved
         /\ AccountOf(sent[p]) = state[p].of
         /\ \A t \in live : AccountOf(t) = AccountOf(sent[p]) => t = sent[p]
  /\ runtime.token # 0 => \A t \in saved : t <= runtime.token
  /\ \A n \in DOMAIN issued : issued[n].from < n
  /\ \A t \in DOMAIN issued :
       t \in live \union ended \/ \E n \in DOMAIN issued : issued[n].from = t

(* The queue is of the account in runtime.json, but for a change of        *)
(* account that is under way or was cut off.                               *)
Queue ==
  torn \/ IF pc["daemon"] = "adopted"
          THEN \A i \in DOMAIN pending : pending[i] # user["daemon"].account
          ELSE \A i \in DOMAIN pending : pending[i] = runtime.of

(* How far a sign-out has come.                                            *)
Leaving ==
  /\ ctl.heard => ctl.cmd = "logout" /\ ctl.pc \in {"wait", "left"} /\ pc["utility"] = "off"
  /\ ctl.cmd = "logout" /\ ctl.pc \in {"wait", "left"} =>
       /\ pc["utility"] # "settings" => settings.password = "none"
       /\ pc["utility"] \notin {"settings", "runtime"} => runtime.token = 0 /\ runtime.key = None
       /\ pc["utility"] \notin {"settings", "runtime", "pending"} => pending = <<>>
       /\ ctl.heard => live \intersect saved \intersect Tokens(runtime.of) = {}

IInv == TypeOK /\ Turns /\ Memory /\ Belongings /\ Sessions /\ Queue /\ Leaving

-----------------------------------------------------------------------------
(* What the operators on RuntimeState return.                              *)
LEMMA Cleared ==
  ASSUME NEW r \in RuntimeState
  PROVE  /\ ClearAuthentication(r) \in RuntimeState /\ InvalidateSession(r) \in RuntimeState
         /\ ClearAuthentication(r).token = 0 /\ ClearAuthentication(r).key = None
         /\ InvalidateSession(r).token = 0 /\ InvalidateSession(r).key = None
         /\ ClearAuthentication(r).of = r.of /\ InvalidateSession(r).of = r.of
         /\ ClearAuthentication(r).cursor = r.cursor /\ InvalidateSession(r).cursor = None
  BY DEF RuntimeState, ClearAuthentication, InvalidateSession, Token

LEMMA NewTypes ==
  NewRuntime \in RuntimeState /\ NewConfig \in UserConfig
  BY DEF NewRuntime, NewConfig, RuntimeState, UserConfig, Token, Password

LEMMA ScriptTypes ==
  /\ Quiet \in Script
  /\ \A u \in UserConfig : [Quiet EXCEPT !.cmd = "save", !.pc = "write", !.config = u] \in Script
  /\ [Quiet EXCEPT !.cmd = "restart", !.pc = "stop"] \in Script
  /\ [Quiet EXCEPT !.cmd = "logout", !.pc = "stop"] \in Script
  /\ [Quiet EXCEPT !.cmd = "device", !.pc = "stop"] \in Script
  BY NewTypes DEF Quiet, Script, Command

LEMMA IssueTypes ==
  ASSUME TypeOK, NEW c \in Script, Issue(c)
  PROVE  TypeOK'
  BY AccountAssumption DEF TypeOK, Issue, files, process, server, history

LEMMA Element ==
  ASSUME NEW S, NEW q \in Seq(S), NEW i \in DOMAIN q
  PROVE  q[i] \in S
  OBVIOUS

LEMMA AccountTypes ==
  ASSUME TypeOK, NEW t \in DOMAIN issued
  PROVE  AccountOf(t) \in Account
<1>1. issued \in Seq([account : Account, from : Token \union {0}])
  BY DEF TypeOK
<1>2. issued[t] \in [account : Account, from : Token \union {0}]
  BY <1>1, Element
<1>3. QED
  BY <1>2 DEF AccountOf

(* What the server's drawing of a token leaves and adds.                   *)
LEMMA Drawn ==
  ASSUME TypeOK, NEW p \in Process, NEW a \in Account, NEW from \in Token \union {0},
         NEW replaced \in SUBSET live, Draws(p, a, from, replaced)
  PROVE  /\ issued' \in Seq([account : Account, from : Token \union {0}])
         /\ DOMAIN issued' = DOMAIN issued \union {Len(issued) + 1}
         /\ \A t \in DOMAIN issued : issued'[t] = issued[t]
         /\ issued'[Len(issued) + 1] = [account |-> a, from |-> from]
         /\ Len(issued) + 1 \in Token /\ Len(issued) + 1 \notin DOMAIN issued
         /\ Len(issued') = Len(issued) + 1
         /\ live' = (live \ replaced) \union {Len(issued) + 1}
         /\ sent' = [sent EXCEPT ![p] = Len(issued) + 1]
<1>1. issued \in Seq([account : Account, from : Token \union {0}])
  BY DEF TypeOK
<1>2. [account |-> a, from |-> from] \in [account : Account, from : Token \union {0}]
  OBVIOUS
<1>3. QED
  BY <1>1, <1>2 DEF Draws, Token

LEMMA DrawnTypes ==
  ASSUME TypeOK, NEW p \in Process, NEW a \in Account, NEW from \in Token \union {0},
         NEW replaced \in SUBSET live, Draws(p, a, from, replaced)
  PROVE  /\ issued' \in Seq([account : Account, from : Token \union {0}])
         /\ live' \subseteq DOMAIN issued'
         /\ ended \union replaced \subseteq DOMAIN issued' \ live'
         /\ saved \subseteq DOMAIN issued'
         /\ sent' \in [Process -> Token \union {0}]
<1>1. live \subseteq DOMAIN issued /\ ended \subseteq DOMAIN issued \ live
      /\ saved \subseteq DOMAIN issued /\ sent \in [Process -> Token \union {0}]
  BY DEF TypeOK
<1>2. live' \subseteq DOMAIN issued' /\ saved \subseteq DOMAIN issued'
  BY <1>1, Drawn
<1>3. Len(issued) + 1 \notin ended \union replaced
  BY <1>1, Drawn
<1>4. ended \union replaced \subseteq DOMAIN issued' \ live'
  <2>1. ASSUME NEW t \in ended \union replaced PROVE t \in DOMAIN issued /\ t \notin live \ replaced
    BY <1>1, <2>1
  <2>2. DOMAIN issued' = DOMAIN issued \union {Len(issued) + 1}
        /\ live' = (live \ replaced) \union {Len(issued) + 1}
    BY Drawn
  <2>3. QED
    BY <1>3, <2>1, <2>2
<1>5. sent' \in [Process -> Token \union {0}]
  BY <1>1, Drawn
<1>6. issued' \in Seq([account : Account, from : Token \union {0}])
  BY Drawn
<1>7. QED
  BY <1>2, <1>4, <1>5, <1>6

LEMMA SaveTypes ==
  ASSUME TypeOK, NEW p \in Process, NEW r \in RuntimeState, r.token \in DOMAIN issued \union {0},
         SaveRuntime(p, r)
  PROVE  /\ runtime' \in RuntimeState /\ state' \in [Process -> RuntimeState]
         /\ saved' \subseteq DOMAIN issued
  BY DEF TypeOK, SaveRuntime

LEMMA AcceptedTypes ==
  ASSUME TypeOK, NEW p \in Process, NEW step \in {"call", "again"}, Accepted(p, step)
  PROVE  TypeOK'
<1> USE DEF TypeOK, files, server, counts, Process
<1>1. CASE p = "utility"
  BY <1>1, NewTypes DEF Accepted, Succeeds, Exit, Goes, Step
<1>2. CASE p = "daemon" /\ pending # <<>>
  <2>1. Tail(pending) \in Seq(Account)
    BY <1>2
  <2>2. QED
    BY <1>2, <2>1 DEF Accepted, Succeeds, Goes, Step
<1>3. CASE p = "daemon" /\ pending = <<>>
  <2> DEFINE r == [state[p] EXCEPT !.cursor = AccountOf(state[p].token)]
  <2>1. state[p].token \in live /\ AccountOf(state[p].token) \in Account
    BY AccountTypes DEF Accepted
  <2>2. r \in RuntimeState /\ r.token = state[p].token
    BY <2>1 DEF RuntimeState
  <2>3. QED
    BY <1>3, <2>1, <2>2, SaveTypes DEF Accepted, Succeeds, Goes, Step
<1>4. QED
  BY <1>1, <1>2, <1>3

LEMMA DiscardTypes ==
  ASSUME TypeOK, NEW p \in Process, DiscardSession(p)
  PROVE  /\ runtime' \in RuntimeState /\ UNCHANGED <<settings, pending, saved>>
         /\ pc' \in [Process -> Step] /\ user' \in [Process -> UserConfig]
         /\ state' \in [Process -> RuntimeState] /\ sent' \in [Process -> Token \union {0}]
<1>1. state[p] \in RuntimeState
  BY DEF TypeOK
<1>2. QED
  BY <1>1, Cleared, NewTypes DEF TypeOK, DiscardSession, WithoutSession, Exit, Goes, Step, Process

LEMMA RefreshTypes ==
  ASSUME TypeOK, NEW p \in Process, Refresh(p)
  PROVE  TypeOK'
<1> DEFINE t == state[p].token
<1>1. CASE t \in live
  <2>1. AccountOf(t) \in Account /\ t \in Token \union {0}
    BY <1>1, AccountTypes DEF TypeOK, RuntimeState
  <2>2. Draws(p, AccountOf(t), t, {t}) /\ pc' = [pc EXCEPT ![p] = "rotated"]
    BY <1>1 DEF Refresh, Goes
  <2>3. QED
    BY <1>1, <2>1, <2>2, DrawnTypes DEF TypeOK, Refresh, files, counts, Step, Token
<1>2. CASE t \notin live
  <2>1. DiscardSession(p)
    BY <1>2 DEF Refresh
  <2>2. QED
    BY <1>2, <2>1, DiscardTypes DEF TypeOK, Refresh, server, counts
<1>3. QED
  BY <1>1, <1>2

(* The utility's requests end, and with them its process.                  *)
LEMMA UtilityEnds ==
  ASSUME TypeOK, Exit("utility"), NEW answer \in BOOLEAN, Heard(answer)
  PROVE  /\ ctl' \in Script /\ pc' \in [Process -> Step] /\ user' \in [Process -> UserConfig]
         /\ state' \in [Process -> RuntimeState] /\ sent' \in [Process -> Token \union {0}]
  BY NewTypes DEF TypeOK, Heard, Exit, Goes, Step, Process, Script

(* Types.                                                                  *)
LEMMA TypeStep ==
  ASSUME TypeOK, Memory, Sessions, [Next]_vars
  PROVE  TypeOK'
<1> USE AccountAssumption DEF TypeOK, Script, files, process, server, counts, history, Process
<1>0. <<>> \in Seq(Account)
  OBVIOUS
<1>1. CASE Save BY <1>1, IssueTypes, ScriptTypes DEF Save
<1>2. CASE Restart BY <1>2, IssueTypes, ScriptTypes DEF Restart
<1>3. CASE SignOut BY <1>3, IssueTypes, ScriptTypes DEF SignOut
<1>4. CASE ManageDevice BY <1>4, IssueTypes, ScriptTypes DEF ManageDevice
<1>5. CASE LocalCopy BY <1>5 DEF LocalCopy, RuntimeState
<1>6. CASE Crash BY <1>6, NewTypes DEF Crash, Fault, Torn, Step, Quiet, Command, NewConfig, UserConfig, Password
<1>7. CASE LogoutUnheard BY <1>7, NewTypes DEF LogoutUnheard, Fault, Exit, Goes, Step
<1>8. CASE \E p \in Process : Lose(p) BY <1>8, NewTypes DEF Lose, Fault, GivesUp, Exit, Goes, Step
<1>9. CASE \E t \in live : EndSession(t) BY <1>9 DEF EndSession, Fault
<1>10. CASE AdoptAccount BY <1>10, NewTypes DEF AdoptAccount, SaveRuntime, Goes, Step, RuntimeState, NewRuntime, UserConfig
<1>11. CASE DropQueue BY <1>0, <1>11 DEF DropQueue, Goes, Step
<1>12. CASE BeginSync
  <2> DEFINE r == IF user["daemon"].password # "none" THEN ClearAuthentication(state["daemon"])
                  ELSE IF state["daemon"].key = None THEN [state["daemon"] EXCEPT !.token = 0]
                  ELSE state["daemon"]
  <2>1. r \in RuntimeState
    BY DEF RuntimeState, ClearAuthentication
  <2>2. runtime' = r
    BY <1>12 DEF BeginSync
  <2>3. \/ Exit("daemon")
        \/ /\ pc' = [pc EXCEPT !["daemon"] = "idle"]
           /\ state' = [state EXCEPT !["daemon"] = r] /\ UNCHANGED <<user, sent>>
    BY <1>12 DEF BeginSync, Goes
  <2>4. UNCHANGED <<settings, pending, ctl, server, history, counts>>
    BY <1>12 DEF BeginSync
  <2>5. QED
    <3>1. CASE Exit("daemon")
      BY <2>1, <2>2, <2>4, <3>1, NewTypes DEF Exit, Goes, Step
    <3>2. CASE ~Exit("daemon")
      BY <2>1, <2>2, <2>3, <2>4, <3>2 DEF Step
    <3>3. QED
      BY <3>1, <3>2
<1>13. CASE BeginRound BY <1>13 DEF BeginRound, Goes, Step
<1>14. CASE AuthRequired BY <1>14 DEF AuthRequired, vars
<1>15. CASE Authenticate
  <2> DEFINE u == user["daemon"]
             older == {t \in live : AccountOf(t) = u.account}
  <2>1. CASE u.password = "right"
    <3>1. Draws("daemon", u.account, 0, older) /\ ended' = ended \union older
          /\ pc' = [pc EXCEPT !["daemon"] = "granted"]
      BY <1>15, <2>1 DEF Authenticate, Goes
    <3>2. u.account \in Account
      BY <1>15 DEF Authenticate, Memory
    <3>3. QED
      BY ZenonT(60), <1>15, <3>1, <3>2, DrawnTypes DEF Authenticate, Step, Token
  <2>2. CASE u.password # "right"
    BY <1>15, <2>2 DEF Authenticate, Goes, Step
  <2>3. QED
    BY <2>1, <2>2
<1>16. CASE SignedIn
  <2>1. user["daemon"].account \in Account /\ sent["daemon"] # 0
    BY <1>16 DEF SignedIn, Memory
  <2> DEFINE r == [state["daemon"] EXCEPT !.token = sent["daemon"],
                       !.key = user["daemon"].account, !.of = user["daemon"].account]
  <2>2. r \in RuntimeState /\ r.token = sent["daemon"] /\ SaveRuntime("daemon", r)
    BY <1>16, <2>1 DEF SignedIn, RuntimeState
  <2>3. sent["daemon"] \in DOMAIN issued
    BY <2>1 DEF Sessions
  <2>4. runtime' \in RuntimeState /\ state' \in [Process -> RuntimeState]
        /\ saved' \subseteq DOMAIN issued
    BY <2>2, <2>3, SaveTypes
  <2>5. QED
    BY <1>16, <2>4 DEF SignedIn, Goes, Step
<1>17. CASE ErasePassword BY <1>17 DEF ErasePassword, Goes, Step, UserConfig, Password
<1>18. ASSUME NEW p \in Process, NEW step \in {"call", "again"}, Accepted(p, step) PROVE TypeOK'
  BY <1>18, AcceptedTypes
<1>19. ASSUME NEW p \in Process, Unauthorized(p) PROVE TypeOK'
  BY <1>19 DEF Unauthorized, Fault, NoFault, Goes, Step
<1>20. ASSUME NEW p \in Process, Refresh(p) PROVE TypeOK'
  BY <1>20, RefreshTypes
<1>21. ASSUME NEW p \in Process, Refreshed(p) PROVE TypeOK'
  <2>1. sent[p] # 0
    BY <1>21 DEF Refreshed, Memory
  <2> DEFINE r == [state[p] EXCEPT !.token = sent[p]]
  <2>2. r \in RuntimeState /\ r.token = sent[p] /\ SaveRuntime(p, r)
    BY <1>21 DEF Refreshed, RuntimeState
  <2>3. sent[p] \in DOMAIN issued
    BY <2>1 DEF Sessions
  <2>4. runtime' \in RuntimeState /\ state' \in [Process -> RuntimeState]
        /\ saved' \subseteq DOMAIN issued
    BY <2>2, <2>3, SaveTypes
  <2>5. QED
    BY <1>21, <2>4 DEF Refreshed, Goes, Step
<1>22. ASSUME NEW p \in Process, UnauthorizedAgain(p) PROVE TypeOK'
  BY <1>22, DiscardTypes DEF UnauthorizedAgain, GivesUp, Exit, Goes, Step
<1>23. CASE ClearSettings BY <1>23 DEF ClearSettings, Goes, Step, UserConfig, Password
<1>24. CASE ClearRuntime BY <1>24, Cleared DEF ClearRuntime, Goes, Step
<1>25. CASE ClearPending
  <2>1. pc' \in [Process -> Step] /\ user' \in [Process -> UserConfig]
        /\ state' \in [Process -> RuntimeState] /\ sent' \in [Process -> Token \union {0}]
    BY <1>25, NewTypes DEF ClearPending, Exit, Goes, Step
  <2>2. QED
    BY <1>0, <1>25, <2>1 DEF ClearPending
<1>26. CASE RemoteLogout
  <2>1. CASE EndOwnSession(state["utility"].token) /\ state["utility"].token \in live /\ NoFault
    BY <1>26, <2>1, UtilityEnds DEF RemoteLogout, EndOwnSession, NoFault
  <2>2. CASE ~(EndOwnSession(state["utility"].token) /\ state["utility"].token \in live /\ NoFault)
    BY <1>26, <2>2 DEF RemoteLogout, Goes, Step, NoFault, Fault
  <2>3. QED
    BY <2>1, <2>2
<1>27. CASE RemoteRefresh
  <2> DEFINE t == state["utility"].token
  <2>1. CASE t \in live
    <3>1. AccountOf(t) \in Account /\ t \in Token \union {0}
      BY <2>1, AccountTypes DEF RuntimeState
    <3>2. Draws("utility", AccountOf(t), t, {t}) /\ pc' = [pc EXCEPT !["utility"] = "renewed"]
      BY <1>27, <2>1 DEF RemoteRefresh, Goes
    <3>3. QED
      BY <1>27, <2>1, <3>1, <3>2, DrawnTypes DEF RemoteRefresh, Step, Token
  <2>2. CASE t \notin live
    BY <1>27, <2>2, UtilityEnds DEF RemoteRefresh
  <2>3. QED
    BY <2>1, <2>2
<1>28. CASE RemoteLogoutAgain
  BY ZenonT(60), <1>28, UtilityEnds DEF RemoteLogoutAgain, EndOwnSession
<1>29. CASE ConfigSet BY <1>29 DEF ConfigSet, UserConfig
<1>30. CASE Stop BY <1>30, NewTypes DEF Stop, Exit, Goes, Torn, AfterStop, Step
<1>31. CASE RunUtility BY <1>31, Cleared DEF RunUtility, Load, Goes, Step
<1>32. CASE UtilityEnded BY <1>32 DEF UtilityEnded, Quiet, Command, NewConfig, UserConfig, Password
<1>33. CASE LogoutReported BY <1>33 DEF LogoutReported, Quiet, Command, NewConfig, UserConfig, Password
<1>34. CASE Start BY <1>34 DEF Start, Started, Load, Goes, Step, Quiet, Command, NewConfig, UserConfig, Password
<1>35. CASE Boot BY <1>35 DEF Boot, Started, Load, Goes, Step
<1>36. CASE UNCHANGED vars BY <1>36 DEF vars
<1> QED
  BY <1>1, <1>2, <1>3, <1>4, <1>5, <1>6, <1>7, <1>8, <1>9, <1>10, <1>11, <1>12, <1>13, <1>14,
     <1>15, <1>16, <1>17, <1>18, <1>19, <1>20, <1>21, <1>22, <1>23, <1>24, <1>25, <1>26, <1>27,
     <1>28, <1>29, <1>30, <1>31, <1>32, <1>33, <1>34, <1>35, <1>36
     DEF Next, User, Disturbance, Daemon, Utility, Asking, Control

-----------------------------------------------------------------------------
(* Who runs. *)
LEMMA TurnsStep ==
  ASSUME TypeOK, Turns, [Next]_vars
  PROVE  Turns'
<1> USE DEF TypeOK, Turns, Process, process, Goes, Exit, LeavingSteps, AskingSteps
<1>1. CASE Save \/ Restart \/ SignOut \/ ManageDevice
  <2>1. ctl = Quiet /\ UNCHANGED pc /\ ctl'.pc \in {"write", "stop"} /\ ctl'.cmd # "none"
    BY <1>1 DEF Save, Restart, SignOut, ManageDevice, Issue, Quiet
  <2>2. QED
    BY <2>1 DEF Quiet
<1>2. CASE LocalCopy \/ (\E t \in live : EndSession(t)) \/ UNCHANGED vars
  BY <1>2 DEF LocalCopy, EndSession, vars
<1>3. CASE Crash BY <1>3 DEF Crash, Quiet
<1>4. CASE LogoutUnheard \/ \E p \in Process : Lose(p)
  BY <1>4 DEF LogoutUnheard, Lose, GivesUp
<1>5. CASE AdoptAccount \/ DropQueue \/ BeginSync
  BY <1>5 DEF AdoptAccount, DropQueue, BeginSync
<1>6. CASE BeginRound \/ AuthRequired
  BY <1>6 DEF BeginRound, AuthRequired, vars
<1>7. CASE Authenticate BY <1>7 DEF Authenticate
<1>8. CASE SignedIn \/ ErasePassword
  BY <1>8 DEF SignedIn, ErasePassword
<1>9. ASSUME NEW p \in Process, Asking(p) PROVE Turns'
  <2>1. UNCHANGED ctl /\ pc[p] \in AskingSteps /\ \E s \in AskingSteps \union {"idle", "off"} :
           pc' = [pc EXCEPT ![p] = s] /\ (p = "daemon" => s # "off") /\ (p = "utility" => s # "idle")
    BY <1>9 DEF Asking, Accepted, Succeeds, Unauthorized, Refresh, DiscardSession, WithoutSession,
         Refreshed, UnauthorizedAgain, GivesUp
  <2>2. QED
    BY <2>1
<1>10. CASE ClearSettings \/ ClearRuntime \/ ClearPending
  BY <1>10 DEF ClearSettings, ClearRuntime, ClearPending
<1>11. CASE RemoteLogout \/ RemoteRefresh \/ RemoteLogoutAgain
  BY <1>11 DEF RemoteLogout, RemoteRefresh, RemoteLogoutAgain, EndOwnSession, Heard, Script
<1>12. CASE ConfigSet \/ Stop BY <1>12 DEF ConfigSet, Stop, AfterStop, Script, Command
<1>13. CASE RunUtility BY <1>13 DEF RunUtility, Load, Script
<1>14. CASE UtilityEnded \/ LogoutReported BY <1>14 DEF UtilityEnded, LogoutReported, Script, Quiet
<1>15. CASE Start \/ Boot BY <1>15 DEF Start, Boot, Started, Load, Quiet
<1> QED
  BY <1>1, <1>2, <1>3, <1>4, <1>5, <1>6, <1>7, <1>8, <1>9, <1>10, <1>11, <1>12, <1>13, <1>14, <1>15
     DEF Next, User, Disturbance, Daemon, Utility, Control

LEMMA DiscardMemory ==
  ASSUME TypeOK, Turns, Memory, NEW p \in Process, pc[p] \in {"refresh", "again"}, DiscardSession(p)
  PROVE  Memory'
<1> USE DEF TypeOK, Turns, Memory, Process, LeavingSteps, AskingSteps
<1>1. runtime' = InvalidateSession(state[p]) /\ runtime'.of = runtime.of
  BY Cleared DEF DiscardSession, WithoutSession
<1>2. CASE p = "daemon"
  BY <1>1, <1>2 DEF DiscardSession, WithoutSession, Goes
<1>3. CASE p = "utility"
  BY <1>1, <1>3 DEF DiscardSession, WithoutSession, Goes, Exit
<1>4. QED
  BY <1>2, <1>3

(* What memory and files have in common. *)
LEMMA MemoryStep ==
  ASSUME TypeOK, Turns, Memory, [Next]_vars
  PROVE  Memory'
<1> USE DEF TypeOK, Turns, Memory, Process, process, files, Goes, LeavingSteps, AskingSteps
<1>1. CASE Save \/ Restart \/ SignOut \/ ManageDevice
  BY <1>1 DEF Save, Restart, SignOut, ManageDevice, Issue
<1>2. CASE LocalCopy \/ (\E t \in live : EndSession(t)) \/ UNCHANGED vars
  BY <1>2 DEF LocalCopy, EndSession, vars
<1>3. CASE Crash BY <1>3 DEF Crash
<1>4. CASE LogoutUnheard
  BY <1>4 DEF LogoutUnheard, Exit
<1>5. ASSUME NEW p \in Process, Lose(p) PROVE Memory'
  BY <1>5 DEF Lose, GivesUp, Exit
<1>6. CASE AdoptAccount
  BY <1>6, NewTypes DEF AdoptAccount, SaveRuntime, NewRuntime
<1>7. CASE DropQueue
  BY <1>7 DEF DropQueue
<1>8. CASE BeginSync
  BY <1>8, Cleared DEF BeginSync, Exit, RuntimeState, UserConfig
<1>9. CASE BeginRound \/ AuthRequired
  BY <1>9 DEF BeginRound, AuthRequired, HasSession, vars
<1>10. CASE Authenticate
  <2>1. UNCHANGED <<files, user, state>> /\ pc["daemon"] = "signin"
    BY <1>10 DEF Authenticate
  <2>2. \/ pc' = [pc EXCEPT !["daemon"] = "idle"] /\ sent' = sent
        \/ /\ pc' = [pc EXCEPT !["daemon"] = "granted"]
           /\ sent' = [sent EXCEPT !["daemon"] = Len(issued) + 1]
    BY <1>10 DEF Authenticate, Draws
  <2>3. Len(issued) + 1 # 0
    OBVIOUS
  <2>4. QED
    BY <2>1, <2>2, <2>3
<1>11. CASE SignedIn BY <1>11 DEF SignedIn, SaveRuntime, RuntimeState
<1>12. CASE ErasePassword BY <1>12 DEF ErasePassword
<1>13. ASSUME NEW p \in Process, NEW step \in {"call", "again"}, Accepted(p, step) PROVE Memory'
  <2>1. CASE p = "utility"
    BY <1>13, <2>1 DEF Accepted, Succeeds, Exit
  <2>2. CASE p = "daemon"
    BY <1>13, <2>2 DEF Accepted, Succeeds, SaveRuntime, RuntimeState
  <2>3. QED
    BY <2>1, <2>2
<1>14. ASSUME NEW p \in Process, Unauthorized(p) PROVE Memory'
  BY <1>14 DEF Unauthorized
<1>15. ASSUME NEW p \in Process, Refresh(p) PROVE Memory'
  <2>1. CASE state[p].token \in live
    <3>1. UNCHANGED <<files, user, state>> /\ pc[p] = "refresh"
          /\ pc' = [pc EXCEPT ![p] = "rotated"]
          /\ sent' = [sent EXCEPT ![p] = Len(issued) + 1]
      BY <1>15, <2>1 DEF Refresh, Draws
    <3>2. Len(issued) + 1 # 0
      OBVIOUS
    <3>3. QED
      BY <3>1, <3>2
  <2>2. CASE state[p].token \notin live
    BY <1>15, <2>2, DiscardMemory DEF Refresh
  <2>3. QED
    BY <2>1, <2>2
<1>16. ASSUME NEW p \in Process, Refreshed(p) PROVE Memory'
  BY <1>16 DEF Refreshed, SaveRuntime, RuntimeState
<1>17. ASSUME NEW p \in Process, UnauthorizedAgain(p) PROVE Memory'
  BY <1>17, DiscardMemory DEF UnauthorizedAgain, GivesUp
<1>18. CASE ClearSettings \/ ClearRuntime
  BY <1>18, Cleared DEF ClearSettings, ClearRuntime
<1>19. CASE ClearPending
  BY <1>19 DEF ClearPending, Exit
<1>20. CASE RemoteLogout
  BY <1>20 DEF RemoteLogout, EndOwnSession, Exit
<1>21. CASE RemoteRefresh
  <2>1. CASE state["utility"].token \in live
    <3>1. UNCHANGED <<files, user, state>> /\ pc["utility"] = "renew"
          /\ pc' = [pc EXCEPT !["utility"] = "renewed"]
          /\ sent' = [sent EXCEPT !["utility"] = Len(issued) + 1]
      BY <1>21, <2>1 DEF RemoteRefresh, Draws
    <3>2. Len(issued) + 1 # 0
      OBVIOUS
    <3>3. QED
      BY <3>1, <3>2
  <2>2. CASE state["utility"].token \notin live
    BY <1>21, <2>2 DEF RemoteRefresh, Exit
  <2>3. QED
    BY <2>1, <2>2
<1>22. CASE RemoteLogoutAgain
  BY <1>22 DEF RemoteLogoutAgain, EndOwnSession, Exit
<1>23. CASE ConfigSet \/ Stop BY <1>23 DEF ConfigSet, Stop, Exit
<1>24. CASE RunUtility BY <1>24, Cleared DEF RunUtility, Load
<1>25. CASE UtilityEnded \/ LogoutReported BY <1>25 DEF UtilityEnded, LogoutReported
<1>26. CASE Start \/ Boot BY <1>26 DEF Start, Boot, Started, Load
<1> QED
  BY <1>1, <1>2, <1>3, <1>4, <1>5, <1>6, <1>7, <1>8, <1>9, <1>10, <1>11, <1>12, <1>13, <1>14, <1>15,
     <1>16, <1>17, <1>18, <1>19, <1>20, <1>21, <1>22, <1>23, <1>24, <1>25, <1>26
     DEF Next, User, Disturbance, Daemon, Utility, Asking, Control

-----------------------------------------------------------------------------
(* A process that ends or goes on with what it had. *)
GoesOn ==
  /\ pc'["utility"] # "off" => pc["utility"] # "off" /\ state'["utility"] = state["utility"]
  /\ \A p \in Process : sent'[p] # 0 => sent'[p] = sent[p] /\ state'[p].of = state[p].of

(* What runtime.json may become without a new token.                       *)
KeepsToken(r) ==
  /\ r.cursor \in {None, r.of}
  /\ \/ r.token = 0 /\ r.key = None
     \/ r.token = runtime.token /\ r.key = runtime.key /\ r.of = runtime.of

LEMMA GoesOnStep ==
  ASSUME Belongings, Sessions, UNCHANGED <<server, saved>>, GoesOn, KeepsToken(runtime')
  PROVE  Belongings' /\ Sessions'
<1> USE DEF Whole, Current, AccountOf, server
<1>1. Belongings'
  BY DEF Belongings, GoesOn, KeepsToken
<1>2. Sessions'
  BY DEF Sessions, GoesOn, KeepsToken
<1>3. QED
  BY <1>1, <1>2

(* The server ends the session of a token.                                 *)
LEMMA EndStep ==
  ASSUME Belongings, Sessions, UNCHANGED <<runtime, issued, saved>>, GoesOn,
         NEW t, live' = live \ {t}, ended' = ended \union {t}
  PROVE  Belongings' /\ Sessions'
<1> USE DEF Whole, Current, AccountOf
<1>1. Belongings'
  BY DEF Belongings, GoesOn
<1>2. Sessions'
  BY DEF Sessions, GoesOn
<1>3. QED
  BY <1>1, <1>2

(* The server draws a token for an account, whose other tokens it accepts  *)
(* no more: they have been ended, or continued by this one.                *)
LEMMA DrawStep ==
  ASSUME TypeOK, Belongings, Sessions, NEW p \in Process, NEW a \in Account,
         NEW from \in Token \union {0}, from <= Len(issued), NEW replaced \in SUBSET live,
         Draws(p, a, from, replaced), state[p].of = a,
         \A t \in live : AccountOf(t) = a => t \in replaced,
         ended' = ended \union replaced \/ (ended' = ended /\ replaced = {from}),
         \A q \in Process : sent[q] = 0,
         UNCHANGED <<runtime, state, saved>>, pc'["utility"] # "off" => pc["utility"] # "off"
  PROVE  Belongings' /\ Sessions'
<1>0. PICK n : n = Len(issued) + 1
  OBVIOUS
<1>1. /\ DOMAIN issued' = DOMAIN issued \union {n} /\ Len(issued') = n
      /\ \A t \in DOMAIN issued : issued'[t] = issued[t]
      /\ issued'[n] = [account |-> a, from |-> from]
      /\ n \notin DOMAIN issued /\ n \in Nat /\ n # 0
      /\ live' = (live \ replaced) \union {n} /\ sent' = [sent EXCEPT ![p] = n]
  <2>1. n \in Nat /\ n # 0
    BY <1>0, Drawn DEF Token
  <2>2. DOMAIN issued' = DOMAIN issued \union {n} /\ Len(issued') = n /\ n \notin DOMAIN issued
    BY <1>0, Drawn
  <2>3. issued'[n] = [account |-> a, from |-> from] /\ \A t \in DOMAIN issued : issued'[t] = issued[t]
    BY <1>0, Drawn
  <2>4. live' = (live \ replaced) \union {n} /\ sent' = [sent EXCEPT ![p] = n]
    BY <1>0, Drawn
  <2>5. QED
    BY <2>1, <2>2, <2>3, <2>4
<1>2. /\ live \subseteq DOMAIN issued /\ saved \subseteq DOMAIN issued
      /\ sent \in [Process -> Token \union {0}] /\ runtime \in RuntimeState
  BY DEF TypeOK
<1>3. Belongings'
  <2>1. \A t \in DOMAIN issued : AccountOf(t)' = AccountOf(t)
    BY <1>1 DEF AccountOf
  <2>2. live' \intersect saved' \subseteq live \intersect saved
    BY <1>1, <1>2
  <2>3. QED
    BY <1>2, <2>1, <2>2 DEF Belongings, Whole, Current
<1>4. Sessions'
  <2>1. issued'[n].account = a /\ \A t \in DOMAIN issued : AccountOf(t)' = AccountOf(t)
    BY <1>1 DEF AccountOf
  <2>2. \A t \in live' : t = n \/ t \in live \ replaced
    BY <1>1
  <2>3. \A s, t \in live' : AccountOf(s)' = AccountOf(t)' => s = t
    BY <1>2, <2>1, <2>2 DEF Sessions, AccountOf
  <2>4. \A q \in Process : sent'[q] # 0 => q = p /\ sent'[q] = n
    BY <1>1, <1>2
  <2>5. \A t \in live' : AccountOf(t)' = a => t = n
    BY <1>2, <2>1, <2>2 DEF AccountOf
  <2>6. \A m \in DOMAIN issued' : issued'[m].from < m
    BY <1>1 DEF Sessions, Token
  <2>7. \A t \in DOMAIN issued' :
          t \in live' \union ended' \/ \E m \in DOMAIN issued' : issued'[m].from = t
    <3>1. TAKE t \in DOMAIN issued'
    <3>2. CASE t = n
      BY <1>1, <3>2
    <3>3. CASE t \in replaced
      BY <1>1, <3>3
    <3>4. CASE t \in DOMAIN issued /\ t \notin replaced
      BY <1>1, <3>4 DEF Sessions
    <3>5. QED
      BY <1>1, <3>2, <3>3, <3>4
  <2>8. \A q \in Process :
          sent'[q] # 0 =>
            /\ sent'[q] = Len(issued') /\ sent'[q] \notin saved'
            /\ issued'[sent'[q]].account = state'[q].of
            /\ \A t \in live' : AccountOf(t)' = issued'[sent'[q]].account => t = sent'[q]
    BY <1>1, <1>2, <2>1, <2>4, <2>5
  <2>9. runtime'.token # 0 => \A t \in saved' : t <= runtime'.token
    BY DEF Sessions
  <2>10. QED
    BY <2>3, <2>6, <2>7, <2>8, <2>9 DEF Sessions, AccountOf
<1>5. QED
  BY <1>3, <1>4

(* A token that has come is saved.                                         *)
LEMMA SaveStep ==
  ASSUME TypeOK, Belongings, Sessions, NEW p \in Process, sent[p] # 0,
         NEW r \in RuntimeState, SaveRuntime(p, r), sent' = [sent EXCEPT ![p] = 0],
         r.token = sent[p], r.of = state[p].of, r.key = r.of, r.key # None,
         r.cursor \in {None, r.of},
         \A q \in Process \ {p} : sent[q] = 0,
         pc'["utility"] # "off" => p = "utility",
         UNCHANGED server
  PROVE  Belongings' /\ Sessions'
<1>1. /\ runtime' = r /\ saved' = saved \union {r.token} /\ state'[p] = r
      /\ \A q \in Process : sent'[q] = 0
  BY DEF SaveRuntime, TypeOK
<1>2. live \subseteq DOMAIN issued /\ saved \subseteq DOMAIN issued /\ issued \in Seq([account : Account, from : Token \union {0}])
  BY DEF TypeOK
<1>3. r.token = Len(issued) /\ AccountOf(r.token) = r.of
      /\ \A t \in live : AccountOf(t) = r.of => t = r.token
  BY DEF Sessions
<1>4. Belongings'
  BY <1>1, <1>3 DEF Belongings, Whole, Current, AccountOf, server
<1>5. \A t \in saved' : t <= r.token
  BY <1>1, <1>2, <1>3
<1>6. Sessions'
  BY <1>1, <1>5 DEF Sessions, AccountOf, server
<1>7. QED
  BY <1>4, <1>6

(* A running process has the state of one account, and nothing is on its   *)
(* way but for it.                                                         *)
LEMMA Working ==
  ASSUME TypeOK, Turns, Memory, Belongings, NEW p \in Process, pc[p] # "off"
  PROVE  /\ \A q \in Process \ {p} : pc[q] = "off" /\ sent[q] = 0
         /\ pc[p] # "boot" => Whole(state[p]) /\ state[p].of = runtime.of
         /\ p = "daemon" => state[p] = runtime
         /\ p = "utility" => Whole(state[p]) /\ Current(state[p])
<1>1. \A q \in Process \ {p} : pc[q] = "off"
  BY DEF Turns, Process
<1>2. \A q \in Process \ {p} : sent[q] = 0
  BY <1>1 DEF Memory
<1>3. QED
  BY <1>1, <1>2 DEF Memory, Belongings, Process

LEMMA DiscardSessions ==
  ASSUME TypeOK, Turns, Memory, Belongings, Sessions, NEW p \in Process,
         pc[p] \in {"refresh", "again"}, DiscardSession(p), UNCHANGED server
  PROVE  Belongings' /\ Sessions'
<1>1. state[p] \in RuntimeState
  BY DEF TypeOK
<1>2. UNCHANGED saved /\ KeepsToken(runtime')
  BY <1>1, Cleared DEF DiscardSession, WithoutSession, KeepsToken
<1>3. GoesOn
  BY <1>1, Cleared DEF DiscardSession, WithoutSession, GoesOn, Goes, Exit, TypeOK, Process
<1>4. QED
  BY <1>2, <1>3, GoesOnStep

(* A utility's process ends.                                               *)
LEMMA ExitGoesOn ==
  ASSUME TypeOK, NEW p \in Process, Exit(p)
  PROVE  GoesOn
  BY DEF TypeOK, Exit, Goes, GoesOn, Process

LEMMA RotationStep ==
  ASSUME TypeOK, Turns, Memory, Belongings, Sessions, NEW p \in Process,
         pc[p] \in {"refresh", "renew"}, state[p].token \in live,
         Draws(p, AccountOf(state[p].token), state[p].token, {state[p].token}),
         UNCHANGED <<runtime, state, saved, ended>>, pc'["utility"] # "off" => pc["utility"] # "off"
  PROVE  Belongings' /\ Sessions'
<1> DEFINE t == state[p].token
<1>1. live \subseteq DOMAIN issued /\ state[p] \in RuntimeState
      /\ issued \in Seq([account : Account, from : Token \union {0}])
  BY DEF TypeOK
<1>2. AccountOf(t) \in Account /\ t \in Token \union {0} /\ t <= Len(issued) /\ t # 0
  BY <1>1, AccountTypes DEF RuntimeState
<1>3. state[p].of = AccountOf(t)
  BY <1>2, Working DEF Whole
<1>4. \A s \in live : AccountOf(s) = AccountOf(t) => s \in {t}
  BY DEF Sessions
<1>5. \A q \in Process : sent[q] = 0
  BY Working DEF Memory
<1>6. {t} \in SUBSET live
  OBVIOUS
<1>7. QED
  BY <1>2, <1>3, <1>4, <1>5, <1>6, DrawStep

LEMMA SignInStep ==
  ASSUME TypeOK, Turns, Memory, Belongings, Sessions, Authenticate,
         user["daemon"].password = "right"
  PROVE  Belongings' /\ Sessions'
<1>1. "daemon" \in Process /\ pc \in [Process -> Step]
  BY DEF TypeOK, Process
<1>2. pc["daemon"] = "signin" /\ UNCHANGED <<runtime, state, saved>>
  BY DEF Authenticate, files, history
<1>3. PICK a \in Account : a = user["daemon"].account /\ a = state["daemon"].of
  BY <1>2 DEF Memory
<1>4. PICK older \in SUBSET live : older = {t \in live : AccountOf(t) = a}
  OBVIOUS
<1>5. Draws("daemon", a, 0, older) /\ ended' = ended \union older
      /\ pc' = [pc EXCEPT !["daemon"] = "granted"]
  BY <1>3, <1>4 DEF Authenticate, Goes
<1>6. pc'["utility"] # "off" => pc["utility"] # "off"
  BY <1>1, <1>5
<1>7. \A q \in Process : sent[q] = 0
  BY <1>1, <1>2, Working DEF Memory
<1>8. \A t \in live : AccountOf(t) = a => t \in older
  BY <1>4
<1>9. 0 <= Len(issued)
  BY DEF TypeOK
<1>10. QED
  BY <1>1, <1>2, <1>3, <1>5, <1>6, <1>7, <1>8, <1>9, DrawStep

(* Sessions and what is saved of them. *)
LEMMA SessionsStep ==
  ASSUME TypeOK, Turns, Memory, Belongings, Sessions, [Next]_vars
  PROVE  Belongings' /\ Sessions'
<1> USE DEF Process, process, files, server, history, Goes
<1>0. state \in [Process -> RuntimeState] /\ runtime \in RuntimeState /\ user \in [Process -> UserConfig]
      /\ pc \in [Process -> Step] /\ sent \in [Process -> Token \union {0}]
      /\ live \subseteq DOMAIN issued
  BY DEF TypeOK
<1>a. KeepsToken(runtime)
  BY DEF KeepsToken, Belongings, Whole
<1>1. CASE Save \/ Restart \/ SignOut \/ ManageDevice \/ ConfigSet \/ UtilityEnded \/ LogoutReported
           \/ LocalCopy \/ UNCHANGED vars
  <2>1. UNCHANGED <<runtime, state, pc, sent, server, saved>>
    BY <1>1 DEF Save, Restart, SignOut, ManageDevice, Issue, LocalCopy, ConfigSet, UtilityEnded,
         LogoutReported, vars
  <2>2. QED
    BY <1>a, <2>1, GoesOnStep DEF GoesOn
<1>2. CASE \E t \in live : EndSession(t)
  BY <1>2, EndStep DEF EndSession, GoesOn
<1>3. CASE Crash
  <2>1. GoesOn /\ UNCHANGED <<runtime, server, saved>>
    BY <1>3 DEF Crash, GoesOn
  <2>2. QED
    BY <1>a, <2>1, GoesOnStep
<1>4. CASE LogoutUnheard \/ \E p \in Process : Lose(p)
  <2>1. GoesOn /\ UNCHANGED <<runtime, server, saved>>
    BY <1>0, <1>4, ExitGoesOn DEF LogoutUnheard, Lose, GivesUp, GoesOn
  <2>2. QED
    BY <1>a, <2>1, GoesOnStep
<1>5. CASE AdoptAccount
  <2>1. GoesOn /\ UNCHANGED <<server, saved>> /\ KeepsToken(runtime')
    BY <1>0, <1>5 DEF AdoptAccount, SaveRuntime, NewRuntime, KeepsToken, GoesOn, Memory, UserConfig
  <2>2. QED
    BY <2>1, GoesOnStep
<1>6. CASE BeginSync
  <2>1. UNCHANGED <<server, saved>> /\ state["daemon"] = runtime
    BY <1>6 DEF BeginSync, Memory
  <2>2. GoesOn
    BY <1>0, <1>6 DEF BeginSync, GoesOn, Exit, Memory
  <2>3. KeepsToken(runtime')
    BY <1>0, <1>6, <1>a, <2>1, Cleared DEF BeginSync, KeepsToken, RuntimeState
  <2>4. QED
    BY <2>1, <2>2, <2>3, GoesOnStep
<1>7. CASE DropQueue \/ BeginRound \/ AuthRequired \/ ErasePassword
  <2>1. UNCHANGED <<runtime, state, sent, server, saved>> /\ pc'["utility"] = pc["utility"]
    BY <1>0, <1>7 DEF DropQueue, BeginRound, AuthRequired, ErasePassword, vars
  <2>2. QED
    BY <1>a, <2>1, GoesOnStep DEF GoesOn
<1>8. CASE Authenticate
  <2>1. CASE user["daemon"].password = "right"
    BY <1>8, <2>1, SignInStep
  <2>2. CASE user["daemon"].password # "right"
    <3>1. UNCHANGED <<runtime, state, sent, server, saved>> /\ pc'["utility"] = pc["utility"]
      BY <1>0, <1>8, <2>2 DEF Authenticate
    <3>2. QED
      BY <1>a, <3>1, GoesOnStep DEF GoesOn
  <2>3. QED
    BY <2>1, <2>2
<1>9. CASE SignedIn
  <2> DEFINE a == user["daemon"].account
             r == [state["daemon"] EXCEPT !.token = sent["daemon"], !.key = a, !.of = a]
  <2>1. pc["daemon"] = "granted" /\ sent["daemon"] # 0 /\ a \in Account
        /\ state["daemon"].of = a /\ a # None
    BY <1>9, AccountAssumption DEF SignedIn, Memory
  <2>2. SaveRuntime("daemon", r) /\ sent' = [sent EXCEPT !["daemon"] = 0]
        /\ UNCHANGED server /\ pc'["utility"] = pc["utility"]
    BY <1>0, <1>9 DEF SignedIn
  <2>3. r \in RuntimeState /\ r.token = sent["daemon"] /\ r.of = a /\ r.key = a
        /\ r.cursor = state["daemon"].cursor
    BY <1>0, <2>1 DEF RuntimeState
  <2>4. (\A q \in Process \ {"daemon"} : sent[q] = 0) /\ pc["utility"] = "off"
        /\ state["daemon"].cursor \in {None, a}
    BY <2>1, Working DEF Whole
  <2> HIDE DEF r
  <2>5. QED
    BY <2>1, <2>2, <2>3, <2>4, SaveStep
<1>10. ASSUME NEW p \in Process, NEW step \in {"call", "again"}, Accepted(p, step)
       PROVE  Belongings' /\ Sessions'
  <2>1. CASE p = "utility"
    BY <1>a, <1>10, <2>1, ExitGoesOn, GoesOnStep DEF Accepted, Succeeds
  <2>2. CASE p = "daemon"
    <3>1. state[p].token \in live /\ state[p].token \in saved /\ state[p] = runtime
          /\ AccountOf(state[p].token) = runtime.of
      BY <1>10, <2>2, Working DEF Accepted, Whole, Memory, AskingSteps
    <3>2. UNCHANGED <<server, saved>> /\ KeepsToken(runtime')
      <4>1. CASE pending # <<>>
        BY <1>a, <1>10, <2>2, <4>1 DEF Accepted, Succeeds
      <4>2. CASE pending = <<>>
        <5> DEFINE r == [runtime EXCEPT !.cursor = runtime.of]
        <5>1. SaveRuntime(p, r) /\ UNCHANGED server
          BY <1>10, <2>2, <3>1, <4>2 DEF Accepted, Succeeds
        <5>2. r.token = runtime.token /\ r.key = runtime.key /\ r.of = runtime.of
              /\ r.cursor = runtime.of
          BY <1>0 DEF RuntimeState
        <5> HIDE DEF r
        <5>3. QED
          BY <3>1, <5>1, <5>2 DEF SaveRuntime, KeepsToken
      <4>3. QED
        BY <4>1, <4>2
    <3>3. GoesOn
      BY <1>0, <1>10, <2>2, <3>1 DEF Accepted, Succeeds, SaveRuntime, GoesOn, RuntimeState
    <3>4. QED
      BY <3>2, <3>3, GoesOnStep
  <2>3. QED
    BY <2>1, <2>2
<1>11. ASSUME NEW p \in Process, Unauthorized(p) PROVE Belongings' /\ Sessions'
  <2>1. GoesOn /\ UNCHANGED <<runtime, server, saved>>
    BY <1>0, <1>11 DEF Unauthorized, GoesOn
  <2>2. QED
    BY <1>a, <2>1, GoesOnStep
<1>12. ASSUME NEW p \in Process, Refresh(p) PROVE Belongings' /\ Sessions'
  <2>1. CASE state[p].token \in live
    BY <1>0, <1>12, <2>1, RotationStep DEF Refresh
  <2>2. CASE state[p].token \notin live
    BY <1>12, <2>2, DiscardSessions DEF Refresh
  <2>3. QED
    BY <2>1, <2>2
<1>13. ASSUME NEW p \in Process, Refreshed(p) PROVE Belongings' /\ Sessions'
  <2> DEFINE r == [state[p] EXCEPT !.token = sent[p]]
  <2>1. pc[p] = "rotated" /\ sent[p] # 0 /\ state[p].token # 0 /\ Whole(state[p])
    BY <1>13, Working DEF Refreshed, Memory, AskingSteps
  <2>2. SaveRuntime(p, r) /\ sent' = [sent EXCEPT ![p] = 0]
        /\ UNCHANGED server /\ pc' = [pc EXCEPT ![p] = "again"]
    BY <1>0, <1>13 DEF Refreshed
  <2>3. r \in RuntimeState /\ r.token = sent[p] /\ r.of = state[p].of /\ r.key = state[p].key
        /\ r.cursor = state[p].cursor
    BY <1>0, <2>1 DEF RuntimeState
  <2>4. \A q \in Process \ {p} : sent[q] = 0 /\ pc[q] = "off"
    BY <2>1, Working
  <2>5. pc'["utility"] # "off" => p = "utility"
    BY <1>0, <2>2, <2>4
  <2> HIDE DEF r
  <2>6. r.key = r.of /\ r.key # None /\ r.cursor \in {None, r.of}
    BY <2>1, <2>3 DEF Whole
  <2>7. QED
    BY <2>1, <2>2, <2>3, <2>4, <2>5, <2>6, SaveStep
<1>14. ASSUME NEW p \in Process, UnauthorizedAgain(p) PROVE Belongings' /\ Sessions'
  <2>1. CASE p = "daemon"
    <3>1. GoesOn /\ UNCHANGED <<runtime, server, saved>>
      BY <1>0, <1>14, <2>1 DEF UnauthorizedAgain, GivesUp, GoesOn
    <3>2. QED
      BY <1>a, <3>1, GoesOnStep
  <2>2. CASE p = "utility"
    BY <1>14, <2>2, DiscardSessions DEF UnauthorizedAgain
  <2>3. QED
    BY <2>1, <2>2
<1>15. CASE ClearSettings
  <2>1. GoesOn /\ UNCHANGED <<runtime, server, saved>>
    BY <1>0, <1>15 DEF ClearSettings, GoesOn
  <2>2. QED
    BY <1>a, <2>1, GoesOnStep
<1>16. CASE ClearRuntime
  <2>1. GoesOn /\ UNCHANGED <<server, saved>> /\ Whole(state["utility"])
    BY <1>0, <1>16, Working DEF ClearRuntime, GoesOn
  <2>2. KeepsToken(runtime')
    BY <1>0, <1>16, <2>1, Cleared DEF ClearRuntime, KeepsToken, Whole
  <2>3. QED
    BY <2>1, <2>2, GoesOnStep
<1>17. CASE ClearPending
  <2>1. GoesOn /\ UNCHANGED <<runtime, server, saved>>
    BY <1>0, <1>17, ExitGoesOn DEF ClearPending, GoesOn
  <2>2. QED
    BY <1>a, <2>1, GoesOnStep
<1>18. CASE RemoteLogout
  <2>1. CASE EndOwnSession(state["utility"].token)
    BY <1>18, <2>1, ExitGoesOn, EndStep DEF RemoteLogout, EndOwnSession
  <2>2. CASE ~EndOwnSession(state["utility"].token)
    <3>1. GoesOn /\ UNCHANGED <<runtime, server, saved>>
      BY <1>0, <1>18, <2>2 DEF RemoteLogout, GoesOn
    <3>2. QED
      BY <1>a, <3>1, GoesOnStep
  <2>3. QED
    BY <2>1, <2>2
<1>19. CASE RemoteRefresh
  <2>1. CASE state["utility"].token \in live
    BY <1>0, <1>19, <2>1, RotationStep DEF RemoteRefresh
  <2>2. CASE state["utility"].token \notin live
    BY <1>a, <1>19, <2>2, ExitGoesOn, GoesOnStep DEF RemoteRefresh
  <2>3. QED
    BY <2>1, <2>2
<1>20. CASE RemoteLogoutAgain
  BY <1>a, <1>20, ExitGoesOn, GoesOnStep, EndStep DEF RemoteLogoutAgain, EndOwnSession
<1>21. CASE Stop
  BY <1>a, <1>21, ExitGoesOn, GoesOnStep DEF Stop
<1>22. CASE RunUtility
  <2>1. CASE ctl.cmd = "device" /\ runtime.token = 0
    <3>1. GoesOn /\ UNCHANGED <<server, saved>> /\ KeepsToken(runtime')
      BY <1>0, <1>22, <2>1, Cleared DEF RunUtility, GoesOn, KeepsToken
    <3>2. QED
      BY <3>1, GoesOnStep
  <2>2. CASE ~(ctl.cmd = "device" /\ runtime.token = 0)
    <3>1. UNCHANGED <<runtime, server, saved, sent>> /\ state' = [state EXCEPT !["utility"] = runtime]
          /\ \A p \in Process : sent[p] = 0
      BY <1>22, <2>2 DEF RunUtility, Load, Turns, Memory
    <3>2. Belongings'
      BY <1>0, <3>1 DEF Belongings, Whole, Current, AccountOf
    <3>3. Sessions'
      BY <3>1 DEF Sessions, AccountOf
    <3>4. QED
      BY <3>2, <3>3
  <2>3. QED
    BY <2>1, <2>2
<1>23. CASE Start \/ Boot
  <2>1. UNCHANGED <<runtime, server, saved, sent>> /\ pc'["utility"] = pc["utility"]
        /\ state'["utility"] = state["utility"] /\ sent["daemon"] = 0
    BY <1>0, <1>23 DEF Start, Boot, Started, Load, Memory
  <2>2. GoesOn
    BY <2>1 DEF GoesOn
  <2>3. QED
    BY <1>a, <2>1, <2>2, GoesOnStep
<1> QED
  BY <1>1, <1>2, <1>3, <1>4, <1>5, <1>6, <1>7, <1>8, <1>9, <1>10, <1>11, <1>12, <1>13, <1>14, <1>15,
     <1>16, <1>17, <1>18, <1>19, <1>20, <1>21, <1>22, <1>23
     DEF Next, User, Disturbance, Daemon, Utility, Asking, Control

-----------------------------------------------------------------------------
(* The queue stays with its account while neither changes. *)
LEMMA SameQueue ==
  ASSUME TypeOK, Queue, pending' = pending, runtime'.of = runtime.of,
         \/ torn' = torn /\ pc["daemon"] # "adopted" /\ pc'["daemon"] # "adopted"
         \/ torn' = torn /\ pc'["daemon"] = pc["daemon"] /\ user'["daemon"] = user["daemon"]
         \/ torn' = Torn /\ pc'["daemon"] = "off"
  PROVE  Queue'
<1>1. CASE torn' = torn /\ pc["daemon"] # "adopted" /\ pc'["daemon"] # "adopted"
  BY <1>1 DEF Queue
<1>2. CASE torn' = torn /\ pc'["daemon"] = pc["daemon"] /\ user'["daemon"] = user["daemon"]
  BY <1>2 DEF Queue
<1>3. CASE torn' = Torn /\ pc'["daemon"] = "off"
  <2>1. CASE pc["daemon"] = "adopted" /\ pending # <<>>
    BY <1>3, <2>1 DEF Queue, Torn
  <2>2. CASE pc["daemon"] # "adopted"
    BY <1>3, <2>2 DEF Queue, Torn, TypeOK
  <2>3. CASE pending = <<>>
    BY <1>3, <2>3 DEF Queue, Torn
  <2>4. QED
    BY <2>1, <2>2, <2>3
<1>4. QED
  BY <1>1, <1>2, <1>3

LEMMA QueueStep ==
  ASSUME TypeOK, Turns, Memory, Belongings, Queue, [Next]_vars
  PROVE  Queue'
<1> USE DEF Process, process, files, history, Goes
<1>0. state \in [Process -> RuntimeState] /\ runtime \in RuntimeState /\ user \in [Process -> UserConfig]
      /\ pc \in [Process -> Step]
  BY DEF TypeOK
<1>1. CASE Save \/ Restart \/ SignOut \/ ManageDevice \/ ConfigSet \/ UtilityEnded \/ LogoutReported
           \/ (\E t \in live : EndSession(t)) \/ UNCHANGED vars
  BY <1>1, SameQueue DEF Save, Restart, SignOut, ManageDevice, Issue, ConfigSet, UtilityEnded,
       LogoutReported, EndSession, vars
<1>2. CASE LocalCopy
  <2>1. state["daemon"].key = runtime.of /\ pc["daemon"] = "idle"
    BY <1>2 DEF LocalCopy, Memory, Belongings, Whole
  <2>2. pending' = Append(pending, runtime.of) /\ pending \in Seq(Account)
        /\ UNCHANGED <<runtime, pc, torn>>
    BY <1>2, <2>1 DEF LocalCopy, TypeOK
  <2>3. \A i \in DOMAIN pending' :
          (i \in DOMAIN pending /\ pending'[i] = pending[i]) \/ pending'[i] = runtime.of
    BY <2>2
  <2>4. QED
    BY <2>1, <2>2, <2>3 DEF Queue
<1>3. CASE Crash \/ Stop
  BY <1>0, <1>3, SameQueue DEF Crash, Stop, Exit
<1>4. CASE LogoutUnheard
  BY <1>0, <1>4, SameQueue DEF LogoutUnheard, Exit
<1>5. ASSUME NEW p \in Process, Lose(p) PROVE Queue'
  BY <1>0, <1>5, SameQueue DEF Lose, GivesUp, Exit
<1>6. CASE AdoptAccount
  <2>1. runtime.of # user["daemon"].account /\ pc'["daemon"] = "adopted" /\ pc["daemon"] = "boot"
        /\ UNCHANGED <<pending, torn, user>>
    BY <1>0, <1>6 DEF AdoptAccount, Memory
  <2>2. QED
    BY <2>1 DEF Queue
<1>7. CASE DropQueue
  BY <1>0, <1>7 DEF DropQueue, Queue
<1>8. CASE BeginSync
  <2>1. runtime'.of = runtime.of /\ UNCHANGED <<pending, torn>> /\ pc["daemon"] = "boot"
    BY <1>0, <1>8, Cleared DEF BeginSync, Memory, RuntimeState
  <2>2. pc'["daemon"] # "adopted"
    BY <1>0, <1>8 DEF BeginSync, Exit
  <2>3. QED
    BY <2>1, <2>2, SameQueue
<1>9. CASE BeginRound \/ AuthRequired \/ Authenticate \/ ErasePassword
  <2>1. runtime'.of = runtime.of /\ UNCHANGED <<pending, torn>> /\ pc["daemon"] # "adopted"
        /\ pc'["daemon"] # "adopted"
    BY <1>0, <1>9 DEF BeginRound, AuthRequired, Authenticate, ErasePassword, vars
  <2>2. QED
    BY <2>1, SameQueue
<1>10. CASE SignedIn
  <2>1. runtime'.of = user["daemon"].account /\ runtime.of = user["daemon"].account
        /\ UNCHANGED <<pending, torn>> /\ pc["daemon"] # "adopted" /\ pc'["daemon"] # "adopted"
    BY <1>0, <1>10 DEF SignedIn, SaveRuntime, Memory, RuntimeState
  <2>2. QED
    BY <2>1, SameQueue
<1>11. ASSUME NEW p \in Process, NEW step \in {"call", "again"}, Accepted(p, step) PROVE Queue'
  <2>1. CASE p = "utility"
    BY <1>0, <1>11, <2>1, SameQueue DEF Accepted, Succeeds, Exit
  <2>2. CASE p = "daemon"
    <3>1. state[p] = runtime /\ torn' = torn /\ pc'[p] = "idle" /\ pc[p] # "adopted"
      BY <1>0, <1>11, <2>2 DEF Accepted, Succeeds, Memory
    <3>2. runtime'.of = runtime.of
      BY <1>0, <1>11, <2>2, <3>1 DEF Accepted, Succeeds, SaveRuntime, RuntimeState
    <3>3. pending' = pending \/ (pending # <<>> /\ pending' = Tail(pending))
      BY <1>11, <2>2 DEF Accepted, Succeeds
    <3>4. CASE pending' = pending
      BY <2>2, <3>1, <3>2, <3>4, SameQueue
    <3>5. CASE pending # <<>> /\ pending' = Tail(pending)
      <4>1. \A i \in DOMAIN pending' : i + 1 \in DOMAIN pending /\ pending'[i] = pending[i + 1]
        BY <3>5 DEF TypeOK
      <4>2. QED
        BY <2>2, <3>1, <3>2, <4>1 DEF Queue
    <3>6. QED
      BY <3>3, <3>4, <3>5
  <2>3. QED
    BY <2>1, <2>2
<1>12. ASSUME NEW p \in Process, Unauthorized(p) \/ Refreshed(p) PROVE Queue'
  <2>1. runtime'.of = runtime.of
    BY <1>0, <1>12, Working DEF Unauthorized, Refreshed, SaveRuntime, RuntimeState
  <2>2. UNCHANGED <<pending, torn>> /\ pc[p] # "adopted" /\ pc'[p] # "adopted"
        /\ \A q \in Process \ {p} : pc'[q] = pc[q] /\ user' = user
    BY <1>0, <1>12 DEF Unauthorized, Refreshed
  <2>3. QED
    BY <2>1, <2>2, SameQueue
<1>13. ASSUME NEW p \in Process, Refresh(p) \/ UnauthorizedAgain(p) PROVE Queue'
  <2>1. state[p].of = runtime.of /\ state[p] \in RuntimeState /\ pc[p] \in {"refresh", "again"}
    BY <1>0, <1>13, Working DEF Refresh, UnauthorizedAgain
  <2>2. runtime'.of = runtime.of /\ UNCHANGED <<pending, torn>>
    BY <1>13, <2>1, Cleared DEF Refresh, UnauthorizedAgain, DiscardSession, WithoutSession, Draws
  <2>3. \/ pc'["daemon"] # "adopted" /\ pc["daemon"] # "adopted"
        \/ pc'["daemon"] = pc["daemon"] /\ user'["daemon"] = user["daemon"]
    BY <1>0, <1>13, <2>1 DEF Refresh, UnauthorizedAgain, DiscardSession, WithoutSession, GivesUp, Exit
  <2>4. QED
    BY <2>2, <2>3, SameQueue
<1>14. CASE ClearSettings \/ ClearRuntime \/ RunUtility
  <2>1. pc'["daemon"] = pc["daemon"] /\ user'["daemon"] = user["daemon"] /\ UNCHANGED <<pending, torn>>
    BY <1>0, <1>14 DEF ClearSettings, ClearRuntime, RunUtility, Load
  <2>2. runtime'.of = runtime.of
    BY <1>0, <1>14, Cleared, Working DEF ClearSettings, ClearRuntime, RunUtility
  <2>3. QED
    BY <2>1, <2>2, SameQueue
<1>15. CASE ClearPending
  <2>1. pc["daemon"] # "adopted" /\ pc'["daemon"] # "adopted"
    BY <1>0, <1>15 DEF ClearPending, Exit, Turns
  <2>2. QED
    BY <1>15, <2>1 DEF ClearPending, Queue
<1>16. CASE RemoteLogout \/ RemoteRefresh \/ RemoteLogoutAgain
  <2>1. pc'["daemon"] = pc["daemon"] /\ user'["daemon"] = user["daemon"] /\ UNCHANGED <<pending, runtime, torn>>
    BY <1>0, <1>16 DEF RemoteLogout, RemoteRefresh, RemoteLogoutAgain, EndOwnSession, Exit
  <2>2. QED
    BY <2>1, SameQueue
<1>17. CASE Start \/ Boot
  BY <1>0, <1>17, SameQueue DEF Start, Boot, Started, Load
<1> QED
  BY <1>1, <1>2, <1>3, <1>4, <1>5, <1>6, <1>7, <1>8, <1>9, <1>10, <1>11, <1>12, <1>13, <1>14, <1>15,
     <1>16, <1>17
     DEF Next, User, Disturbance, Daemon, Utility, Asking, Control

(* How far a sign-out is, while others do not interfere.                   *)
LEMMA SameLeaving ==
  ASSUME Leaving, ctl'.cmd = ctl.cmd, ctl'.pc = ctl.pc, ctl'.heard = ctl.heard,
         ctl.heard => pc'["utility"] = "off",
         ctl.cmd = "logout" /\ ctl.pc \in {"wait", "left"} =>
           /\ pc'["utility"] = pc["utility"] \/ pc["utility"] \notin {"settings", "runtime", "pending"}
           /\ pc'["utility"] \notin {"settings", "runtime", "pending"} \/ pc'["utility"] = pc["utility"]
           /\ UNCHANGED <<files, issued>> /\ live' \subseteq live /\ saved' = saved,
         live \subseteq DOMAIN issued
  PROVE  Leaving'
  BY DEF Leaving, files, Tokens, AccountOf

(* Nothing is left once the server has answered.                           *)
LEMMA Answered ==
  ASSUME TypeOK, Turns, Memory, Belongings, pc["utility"] \in {"logout", "renew"},
         state["utility"].token \notin live
  PROVE  live \intersect saved \intersect Tokens(runtime.of) = {}
<1>1. "utility" \in Process
  BY DEF Process
<1>2. state["utility"].token # 0 /\ Current(state["utility"]) /\ state["utility"].of = runtime.of
  BY <1>1, Working DEF Memory
<1>3. QED
  BY <1>2 DEF Current, Tokens

LEMMA LeavingStep ==
  ASSUME TypeOK, Turns, Memory, Belongings, Sessions, Leaving, [Next]_vars
  PROVE  Leaving'
<1> USE DEF Process, process, files, history, server, Goes
<1>0. state \in [Process -> RuntimeState] /\ runtime \in RuntimeState /\ user \in [Process -> UserConfig]
      /\ pc \in [Process -> Step] /\ live \subseteq DOMAIN issued /\ ctl \in Script
  BY DEF TypeOK
<1>1. CASE Save \/ Restart \/ SignOut \/ ManageDevice
  <2>1. ctl'.pc \in {"write", "stop"} /\ ctl'.heard = FALSE
    BY <1>1 DEF Save, Restart, SignOut, ManageDevice, Issue, Quiet
  <2>2. QED
    BY <2>1 DEF Leaving
<1>2. CASE Crash \/ LogoutReported \/ Start
  <2>1. ctl' = Quiet
    BY <1>2 DEF Crash, LogoutReported, Start
  <2>2. QED
    BY <2>1 DEF Quiet, Leaving
<1>3. CASE ConfigSet \/ Stop
  <2>1. ctl'.pc \in {"stop", "run", "start"} /\ ctl.pc \in {"write", "stop"} /\ ctl'.heard = ctl.heard
    BY <1>0, <1>3 DEF ConfigSet, Stop, AfterStop, Script
  <2>2. QED
    BY <2>1 DEF Leaving
<1>4. CASE Boot \/ (\E t \in live : EndSession(t)) \/ UNCHANGED vars
  <2>1. UNCHANGED <<ctl, files, issued, saved>> /\ pc'["utility"] = pc["utility"] /\ live' \subseteq live
    BY <1>0, <1>4 DEF Boot, Started, EndSession, vars
  <2>2. QED
    BY <1>0, <2>1, SameLeaving DEF Leaving
<1>5. CASE \/ LocalCopy \/ AdoptAccount \/ DropQueue \/ BeginSync \/ BeginRound \/ AuthRequired
           \/ Authenticate \/ SignedIn \/ ErasePassword \/ Lose("daemon") \/ Asking("daemon")
  <2>1. pc["daemon"] # "off"
    BY <1>5 DEF LocalCopy, AdoptAccount, DropQueue, BeginSync, BeginRound, AuthRequired,
         Authenticate, SignedIn, ErasePassword, Lose, Asking, Accepted, Unauthorized, Refresh,
         Refreshed, UnauthorizedAgain
  <2>2. UNCHANGED ctl
    BY <1>5 DEF LocalCopy, AdoptAccount, DropQueue, BeginSync, BeginRound, AuthRequired, vars,
         Authenticate, SignedIn, ErasePassword, Lose, Asking, Accepted, Unauthorized, Refresh,
         Refreshed, UnauthorizedAgain
  <2>3. ctl.pc \notin {"wait", "left"}
    BY <2>1 DEF Turns
  <2>4. QED
    BY <2>2, <2>3 DEF Leaving
<1>6. CASE Asking("utility")
  <2>1. UNCHANGED ctl /\ pc["utility"] \in AskingSteps
    BY <1>6 DEF Asking, Accepted, Unauthorized, Refresh, Refreshed, UnauthorizedAgain, AskingSteps
  <2>2. ctl.cmd = "device"
    BY <2>1 DEF Turns
  <2>3. QED
    BY <2>1, <2>2 DEF Leaving
<1>7. CASE Lose("utility")
  <2>1. pc["utility"] \in AskingSteps /\ UNCHANGED ctl
    BY <1>7 DEF Lose, Turns, AskingSteps, LeavingSteps
  <2>2. ctl.cmd = "device"
    BY <2>1 DEF Turns
  <2>3. QED
    BY <2>1, <2>2 DEF Leaving
<1>8. CASE LogoutUnheard
  BY <1>0, <1>8 DEF LogoutUnheard, Exit, Leaving, Tokens, AccountOf
<1>9. CASE ClearSettings
  <2>1. pc' = [pc EXCEPT !["utility"] = "runtime"] /\ UNCHANGED ctl /\ settings'.password = "none"
        /\ pc["utility"] = "settings"
    BY <1>0, <1>9 DEF ClearSettings, UserConfig
  <2>2. QED
    BY <1>0, <2>1 DEF Leaving
<1>10. CASE ClearRuntime
  <2>1. pc' = [pc EXCEPT !["utility"] = "pending"] /\ UNCHANGED <<ctl, settings>>
        /\ pc["utility"] = "runtime" /\ runtime'.token = 0 /\ runtime'.key = None
    BY <1>0, <1>10, Cleared DEF ClearRuntime
  <2>2. QED
    BY <1>0, <2>1 DEF Leaving
<1>11. CASE ClearPending
  <2>1. pc'["utility"] \notin {"settings", "runtime", "pending"} /\ UNCHANGED <<ctl, settings, runtime>>
        /\ pc["utility"] = "pending" /\ pending' = <<>>
    BY <1>0, <1>11 DEF ClearPending, Exit
  <2>2. QED
    BY <1>0, <2>1 DEF Leaving
<1>12. ASSUME NEW t, EndOwnSession(t), t \in live, AccountOf(t) = runtime.of, UNCHANGED <<files, saved>>,
              pc["utility"] \in {"logout", "renewed"}
       PROVE  Leaving'
  <2>1. live' = live \ {t} /\ pc'["utility"] = "off" /\ ctl' = [ctl EXCEPT !.heard = TRUE]
        /\ UNCHANGED <<files, issued>>
    BY <1>0, <1>12 DEF EndOwnSession, Exit, Heard
  <2>2. live' \intersect Tokens(runtime.of)' = {}
    BY <1>12, <2>1 DEF Sessions, Tokens, AccountOf
  <2>3. ctl.cmd = "logout" /\ ctl.pc = "wait"
    BY <1>12 DEF Turns, LeavingSteps
  <2>4. QED
    BY <1>0, <1>12, <2>1, <2>2, <2>3 DEF Leaving, Script
<1>13. ASSUME Exit("utility"), Heard(TRUE), UNCHANGED <<files, saved, server>>,
              pc["utility"] \in {"logout", "renew", "renewed"},
              live \intersect saved \intersect Tokens(runtime.of) = {}
       PROVE  Leaving'
  <2>1. pc'["utility"] = "off" /\ ctl' = [ctl EXCEPT !.heard = TRUE]
    BY <1>0, <1>13 DEF Exit, Heard
  <2>2. ctl.cmd = "logout" /\ ctl.pc = "wait"
    BY <1>13 DEF Turns, LeavingSteps
  <2>3. live' \intersect saved' \intersect Tokens(runtime.of)' = {}
    BY <1>13 DEF Tokens, AccountOf
  <2>4. QED
    BY <1>0, <1>13, <2>1, <2>2, <2>3 DEF Leaving, Script
<1>14. CASE RemoteLogout
  <2> DEFINE t == state["utility"].token
  <2>1. pc["utility"] = "logout" /\ UNCHANGED <<files, saved>>
    BY <1>14 DEF RemoteLogout
  <2>2. AccountOf(t) = runtime.of
    BY <2>1, Working DEF Memory, Whole
  <2>3. CASE EndOwnSession(t) /\ t \in live
    BY <1>12, <2>1, <2>2, <2>3
  <2>4. CASE ~(EndOwnSession(t) /\ t \in live)
    <3>1. pc' = [pc EXCEPT !["utility"] = "renew"] /\ UNCHANGED <<ctl, server>>
      BY <1>14, <2>4 DEF RemoteLogout
    <3>2. QED
      BY <1>0, <2>1, <3>1 DEF Leaving, Tokens, AccountOf
  <2>5. QED
    BY <2>3, <2>4
<1>15. CASE RemoteRefresh
  <2>1. pc["utility"] = "renew" /\ UNCHANGED <<files, saved>>
    BY <1>15 DEF RemoteRefresh
  <2>2. CASE state["utility"].token \in live
    <3>1. pc' = [pc EXCEPT !["utility"] = "renewed"] /\ UNCHANGED ctl
      BY <1>15, <2>2 DEF RemoteRefresh
    <3>2. QED
      BY <1>0, <2>1, <3>1 DEF Leaving
  <2>3. CASE state["utility"].token \notin live
    BY <1>13, <1>15, <2>1, <2>3, Answered DEF RemoteRefresh
  <2>4. QED
    BY <2>2, <2>3
<1>16. CASE RemoteLogoutAgain
  <2> DEFINE t == sent["utility"]
  <2>1. pc["utility"] = "renewed" /\ UNCHANGED <<files, saved>> /\ t # 0
    BY <1>16 DEF RemoteLogoutAgain, Memory
  <2>2. AccountOf(t) = runtime.of /\ \A s \in live : AccountOf(s) = runtime.of => s = t
    BY <2>1, Working DEF Sessions, Memory
  <2>3. CASE t \in live
    BY <1>12, <1>16, <2>1, <2>2, <2>3 DEF RemoteLogoutAgain
  <2>4. CASE t \notin live
    <3>1. live \intersect saved \intersect Tokens(runtime.of) = {}
      BY <2>2, <2>4 DEF Tokens
    <3>2. QED
      BY <1>13, <1>16, <2>1, <2>4, <3>1 DEF RemoteLogoutAgain
  <2>5. QED
    BY <2>3, <2>4
<1>17. CASE RunUtility
  <2>1. ctl'.cmd = ctl.cmd /\ ctl'.heard = ctl.heard /\ ctl.pc = "run"
        /\ (ctl.cmd = "logout" => pc'["utility"] = "settings")
    BY <1>0, <1>17 DEF RunUtility, Load, Script
  <2>2. QED
    BY <2>1 DEF Leaving
<1>18. CASE UtilityEnded
  <2>1. CASE ctl.cmd = "logout"
    <3>1. ctl'.cmd = ctl.cmd /\ ctl'.heard = ctl.heard /\ ctl'.pc = "left" /\ ctl.pc = "wait"
          /\ UNCHANGED <<files, pc, server, saved>>
      BY <1>0, <1>18, <2>1 DEF UtilityEnded, Script
    <3>2. QED
      BY <2>1, <3>1 DEF Leaving, Tokens, AccountOf
  <2>2. CASE ctl.cmd # "logout"
    BY <1>0, <1>18, <2>2 DEF UtilityEnded, Leaving, Script, Quiet
  <2>3. QED
    BY <2>1, <2>2
<1> QED
  BY <1>1, <1>2, <1>3, <1>4, <1>5, <1>6, <1>7, <1>8, <1>9, <1>10, <1>11, <1>14, <1>15,
     <1>16, <1>17, <1>18
     DEF Next, User, Disturbance, Daemon, Utility, Control

-----------------------------------------------------------------------------
LEMMA Beginning == Init => IInv
<1> SUFFICES ASSUME Init PROVE IInv
  OBVIOUS
<1>1. TypeOK
  <2>0. pending \in Seq(Account)
    BY DEF Init
  <2>1. settings \in UserConfig /\ runtime \in RuntimeState /\ ctl \in Script
    BY NewTypes, ScriptTypes, Zenon DEF Init
  <2>2. /\ pc \in [Process -> Step] /\ user \in [Process -> UserConfig]
        /\ state \in [Process -> RuntimeState] /\ sent \in [Process -> Token \union {0}]
    BY NewTypes DEF Init, Step
  <2>3. issued \in Seq([account : Account, from : Token \union {0}]) /\ DOMAIN issued = {}
    BY DEF Init
  <2>4. /\ live \subseteq DOMAIN issued /\ ended \subseteq DOMAIN issued \ live
        /\ saved \subseteq DOMAIN issued /\ torn \in BOOLEAN
    BY DEF Init
  <2>5. /\ commands \in 0..MaxCommands /\ copies \in 0..MaxCopies /\ faults \in 0..MaxFaults
    BY AccountAssumption DEF Init
  <2>6. QED
    BY <2>0, <2>1, <2>2, <2>3, <2>4, <2>5 DEF TypeOK
<1>2. Turns
  BY DEF Init, Turns, Quiet, Process, AskingSteps, LeavingSteps
<1>3. Memory
  BY DEF Init, Memory, Process, AskingSteps
<1>4. Belongings
  BY DEF Init, Belongings, Whole, Current, NewRuntime, Process
<1>5. Sessions
  BY DEF Init, Sessions, NewRuntime, Process
<1>6. Queue
  BY DEF Init, Queue
<1>7. Leaving
  BY DEF Init, Leaving, Quiet
<1> QED
  BY <1>1, <1>2, <1>3, <1>4, <1>5, <1>6, <1>7 DEF IInv

LEMMA Inductive == Spec => []IInv
<1>1. IInv /\ [Next]_vars => IInv'
  BY TypeStep, TurnsStep, MemoryStep, SessionsStep, QueueStep, LeavingStep DEF IInv
<1>2. QED
  BY Beginning, <1>1, PTL DEF Spec

(* The files of the module, its processes, its script and the server's     *)
(* records keep their types (models.go, config.go).                        *)
THEOREM AccountTypesAlways == Spec => []TypeOK
<1>1. IInv => TypeOK
  BY DEF IInv
<1>2. QED
  BY Inductive, <1>1, PTL

(* The cursor a round sends is one of the account it asks with (main.go,   *)
(* sync.go), for any accounts, crashes and commands.                       *)
THEOREM CursorAlwaysOfAccount == Spec => []CursorOfAccount
<1>1. IInv => CursorOfAccount
  <2> SUFFICES ASSUME IInv, pc["daemon"] \in {"call", "again"}
               PROVE  state["daemon"].cursor \in {None, AccountOf(state["daemon"].token)}
    BY DEF CursorOfAccount
  <2>1. state["daemon"] = runtime /\ runtime.token # 0
    BY DEF IInv, Memory, AskingSteps, Process
  <2>2. QED
    BY <2>1 DEF IInv, Belongings, Whole
<1>2. QED
  BY Inductive, <1>1, PTL

(* When fastcopyctl reports a sign-out, nothing of the session is left in  *)
(* the files, and what the server still accepts was never saved in them.   *)
THEOREM SignedOutAlways == Spec => []SignedOut
<1>1. IInv => SignedOut
  BY DEF IInv, SignedOut, Turns, Leaving
<1>2. QED
  BY Inductive, <1>1, PTL

-----------------------------------------------------------------------------
(* The steps that shorten the queue.                                       *)
LEMMA Shortened ==
  ASSUME TypeOK, Turns, [Next]_vars, Len(pending') < Len(pending)
  PROVE  \/ pc["daemon"] \in {"call", "again"} /\ pending' = Tail(pending)
         \/ pc["utility"] = "pending" /\ pc["daemon"] \notin {"call", "again"}
         \/ pc["daemon"] = "adopted"
<1> USE DEF files
<1>0. pending \in Seq(Account) /\ ~(Len(pending) < Len(pending))
  BY DEF TypeOK
<1>1. ~UNCHANGED pending
  BY <1>0
<1>2. ASSUME NEW p \in Process, NEW step \in {"call", "again"}, Accepted(p, step)
      PROVE  pc["daemon"] \in {"call", "again"} /\ pending' = Tail(pending)
  BY <1>1, <1>2 DEF Accepted, Succeeds, Process
<1>3. CASE LocalCopy
  BY <1>0, <1>3 DEF LocalCopy
<1>4. CASE DropQueue
  BY <1>4 DEF DropQueue
<1>5. CASE ClearPending
  BY <1>5 DEF ClearPending, Turns
<1>6. CASE \/ Save \/ Restart \/ SignOut \/ ManageDevice \/ Crash \/ LogoutUnheard
           \/ (\E p \in Process : Lose(p)) \/ (\E t \in live : EndSession(t)) \/ UNCHANGED vars
  BY <1>1, <1>6 DEF Save, Restart, SignOut, ManageDevice, Issue, Crash, LogoutUnheard, Lose,
     EndSession, vars
<1>7. CASE \/ AdoptAccount \/ BeginSync \/ BeginRound \/ AuthRequired \/ Authenticate
           \/ SignedIn \/ ErasePassword
  BY <1>1, <1>7 DEF AdoptAccount, BeginSync, BeginRound, AuthRequired, Authenticate, SignedIn,
     ErasePassword, vars
<1>8. ASSUME NEW p \in Process,
             Unauthorized(p) \/ Refresh(p) \/ Refreshed(p) \/ UnauthorizedAgain(p)
      PROVE  FALSE
  BY <1>1, <1>8 DEF Unauthorized, Refresh, Refreshed, UnauthorizedAgain, DiscardSession
<1>9. CASE \/ ClearSettings \/ ClearRuntime \/ RemoteLogout \/ RemoteRefresh \/ RemoteLogoutAgain
  BY <1>1, <1>9 DEF ClearSettings, ClearRuntime, RemoteLogout, RemoteRefresh, RemoteLogoutAgain
<1>10. CASE ConfigSet \/ Stop \/ RunUtility \/ UtilityEnded \/ LogoutReported \/ Start \/ Boot
  BY <1>1, <1>10 DEF ConfigSet, Stop, RunUtility, UtilityEnded, LogoutReported, Start, Boot, Started
<1>11. QED
  <2> USE DEF Process
  <2>1. QED
    BY <1>2, <1>3, <1>4, <1>5, <1>6, <1>7, <1>8, <1>9, <1>10
       DEF Next, User, Disturbance, Daemon, Utility, Asking, Control

(* What is uploaded was copied under the account it is uploaded to, unless *)
(* a change of account was cut off between its two writes.                 *)
THEOREM UploadsAlwaysOwnCopies == Spec => UploadsOwnCopies
<1>1. ASSUME IInv, TypeOK', Len(pending') < Len(pending), pc["daemon"] \in {"call", "again"}, ~torn
      PROVE  Head(pending) = AccountOf(state["daemon"].token)
  <2>1. pending \in Seq(Account) /\ pending' \in Seq(Account)
    BY <1>1 DEF IInv, TypeOK
  <2>2. 1 \in DOMAIN pending /\ Head(pending) = pending[1]
    BY <1>1, <2>1
  <2>3. pending[1] = runtime.of
    BY <1>1, <2>2 DEF IInv, Queue
  <2>4. state["daemon"] = runtime /\ runtime.token # 0
    BY <1>1 DEF IInv, Memory, AskingSteps, Process
  <2>5. AccountOf(runtime.token) = runtime.of
    BY <1>1, <2>4 DEF IInv, Belongings, Whole
  <2>6. QED
    BY <2>2, <2>3, <2>4, <2>5
<1>2. IInv /\ IInv' => TypeOK'
  BY DEF IInv
<1>3. IInv /\ IInv' /\ [Next]_vars =>
        [Len(pending') < Len(pending) /\ pc["daemon"] \in {"call", "again"} =>
           torn \/ Head(pending) = AccountOf(state["daemon"].token)]_vars
  BY <1>1, <1>2
<1>4. QED
  BY Inductive, <1>3, PTL DEF Spec, UploadsOwnCopies

(* A queued copy leaves the queue by its upload, by a sign-out or by a     *)
(* change of account, after any number of lost sessions and crashes.       *)
THEOREM QueueAlwaysKept == Spec => QueueKept
<1>1. ASSUME IInv, [Next]_vars, Len(pending') < Len(pending)
      PROVE  \/ pc["daemon"] \in {"call", "again"} /\ pending' = Tail(pending)
             \/ pc["utility"] = "pending"
             \/ torn \/ \A i \in DOMAIN pending : pending[i] # user["daemon"].account
  <2>1. CASE pc["daemon"] = "adopted"
    BY <1>1, <2>1 DEF IInv, Queue
  <2>2. CASE pc["daemon"] # "adopted"
    BY <1>1, <2>2, Shortened DEF IInv
  <2>3. QED
    BY <2>1, <2>2
<1>2. IInv /\ [Next]_vars =>
        [Len(pending') < Len(pending) =>
           \/ pc["daemon"] \in {"call", "again"} /\ pending' = Tail(pending)
           \/ pc["utility"] = "pending"
           \/ torn \/ \A i \in DOMAIN pending : pending[i] # user["daemon"].account]_vars
  BY <1>1
<1>3. QED
  BY Inductive, <1>2, PTL DEF Spec, QueueKept

(* A session that is given up was ended by the server, or the answer to    *)
(* one of its refreshes was lost.                                          *)
LEMMA GivenUpForCause ==
  ASSUME IInv, NEW p \in Process, Refresh(p) \/ UnauthorizedAgain(p),
         runtime.token = state[p].token, runtime.token # 0, runtime'.token = 0
  PROVE  state[p].token \in ended \/ LostRotation(state[p].token)
<1> DEFINE t == runtime.token
<1>0. TypeOK /\ Turns /\ Memory /\ Belongings /\ Sessions
  BY DEF IInv
<1>1. pc[p] \in {"refresh", "again"} /\ t \notin live
  BY DEF Refresh, UnauthorizedAgain, files
<1>2. t \in saved /\ t \in DOMAIN issued
  BY <1>0 DEF Belongings, Whole, TypeOK
<1>3. CASE t \in ended
  BY <1>3
<1>4. CASE t \notin ended
  <2>1. PICK n \in DOMAIN issued : issued[n].from = t
    BY <1>0, <1>1, <1>2, <1>4 DEF Sessions
  <2>2. t < n /\ n \in Nat /\ n # 0 /\ t \in Nat
    BY <1>0, <1>2, <2>1 DEF Sessions, TypeOK
  <2>3. n \notin saved
    <3>1. n \in saved => n <= t
      BY <1>0 DEF Sessions
    <3>2. QED
      BY <2>2, <3>1
  <2>4. \A q \in Process : sent[q] = 0
    <3>1. sent[p] = 0
      BY <1>0, <1>1 DEF Memory
    <3>2. \A q \in Process \ {p} : sent[q] = 0
      BY <1>0, <1>1, Working
    <3>3. QED
      BY <3>1, <3>2
  <2>5. n \notin saved \union {sent[q] : q \in Process}
    BY <2>2, <2>3, <2>4
  <2>6. QED
    BY <2>1, <2>5 DEF LostRotation
<1>5. QED
  BY <1>3, <1>4

(* Daemon and utilities never use up each other's refresh token.           *)
THEOREM SessionsAlwaysEndForCause == Spec => SessionsEndForCause
<1>1. IInv /\ [Next]_vars =>
        [\A p \in Process :
           LET t == state[p].token
           IN  runtime.token = t /\ t # 0 /\ (Refresh(p) \/ UnauthorizedAgain(p)) /\ runtime'.token = 0
                 => t \in ended \/ LostRotation(t)]_vars
  BY GivenUpForCause
<1>2. QED
  BY Inductive, <1>1, PTL DEF Spec, SessionsEndForCause
=============================================================================
