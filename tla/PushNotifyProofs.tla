-------------------------- MODULE PushNotifyProofs --------------------------
(***************************************************************************)
(* Proofs about PushNotify, for any number of phones, accounts, notices,   *)
(* tokens and faults.                                                      *)
(*                                                                         *)
(* What carries them: tokens grow, and those stored, on their way or in    *)
(* the notifier's list are no newer than the phone's (Numbers); a phone    *)
(* that waits for a wake-up is registered with its newest token, which is  *)
(* in the list as such once the list is read (Waiting); and what may still *)
(* store a token belongs to the account its phone is signed in to, or is   *)
(* overlooked (Bound).                                                     *)
(***************************************************************************)
EXTENDS PushNotify, TLAPS

Numbers ==
  /\ \A d \in Device : tokens[d] <= current[PhoneOf(d)]
  /\ \A r \in requests : r.token <= current[PhoneOf(r.device)]
  /\ \A e \in list : e.token <= current[PhoneOf(e.device)]

(* A token that APNs refused stays invalid.                                *)
Refusing ==
  /\ \A e \in refused : e.token < current[PhoneOf(e.device)]
  /\ pc # "prune" => refused = {}

(* The notice at work or waiting that clip's number is in.                 *)
About(n, o) == o[2][2] = n.account /\ o[2] # n.origin

(* An owed wake-up: the phone is registered with its newest token, and its *)
(* notice, which is for that phone, is on its way.                         *)
Awaited(o) ==
  /\ o[1] <= clips /\ o[2] \in valid
  /\ tokens[o[2]] = current[PhoneOf(o[2])]
  /\ \A i \in DOMAIN queue : queue[i].clip = o[1] => About(queue[i], o)
  /\ notice.clip = o[1] => About(notice, o)
  /\ \/ \E i \in DOMAIN queue : queue[i].clip = o[1]
     \/ /\ notice.clip = o[1]
        /\ \/ pc = "load"
           \/ /\ pc \in {"send", "prune"}
              /\ [device |-> o[2], token |-> tokens[o[2]]] \in list

Waiting == \A o \in owed : Awaited(o)

(* Notices are about clips that were created.                              *)
Known ==
  /\ \A i \in DOMAIN queue : queue[i].clip <= clips
  /\ notice.clip <= clips
  /\ pc = "wait" => notice = NoNotice

(* A phone is signed in to an account of its own, and only then leaves it. *)
Accounts ==
  \A p \in Phone : /\ signed[p] # None => DeviceOf(p) \in Device
                   /\ leaving[p] # "no" => signed[p] # None

\* d is its phone's present account.
Present(d) == d = DeviceOf(PhoneOf(d))

(* Who may have or get a token.                                            *)
Bound ==
  /\ \A d \in Device : tokens[d] # 0 => (Present(d) /\ d \in valid) \/ d \in overlooked
  /\ \A r \in requests : \/ Present(r.device) /\ (r.admitted => r.device \in valid)
                         \/ r.device \in overlooked
  /\ \A p \in Phone :
       /\ leaving[p] = "logout"
       /\ tokens[DeviceOf(p)] # 0 \/ Uploading(DeviceOf(p))
       => DeviceOf(p) \in overlooked

IInv == TypeOK /\ Accounts /\ Numbers /\ Refusing /\ Known /\ Waiting /\ Bound

-----------------------------------------------------------------------------
(* A device is a phone and an account.                                     *)
LEMMA DeviceShape ==
  ASSUME NEW d \in Device
  PROVE  d[1] \in Phone /\ d[2] \in Account /\ d = <<d[1], d[2]>>
BY PushAssumption

(* A wake-up is a clip and a device.                                       *)
LEMMA OwedShape ==
  ASSUME TypeOK
  PROVE  \A o \in owed : o[1] \in Nat \ {0} /\ o[2] \in Device /\ o = <<o[1], o[2]>>
BY PushAssumption DEF TypeOK

(* Notices are about clips, at work or waiting.                            *)
LEMMA NoticeShape ==
  ASSUME TypeOK
  PROVE  /\ \A i \in DOMAIN queue : queue[i] \in Notice /\ queue[i].clip \in Nat
         /\ notice.clip \in Nat
<1>1. \A i \in DOMAIN queue : queue[i] \in Notice
  BY DEF TypeOK
<1>2. QED
  BY <1>1, PushAssumption DEF TypeOK, Notice, NoNotice

(* The type invariant holds in every reachable state.                       *)
LEMMA TypeStep ==
  ASSUME TypeOK, Refusing, Accounts, [Next]_vars
  PROVE  TypeOK'
<1> USE PushAssumption, DeviceShape DEF TypeOK, SameToken, server, app, notifier, PhoneOf
<1>1. ASSUME NEW p \in Phone, NEW a \in Account, SignIn(p, a) PROVE TypeOK'
  <2>1. signed' \in [Phone -> Account \union {None}]
    BY <1>1 DEF SignIn
  <2>2. valid' \subseteq Device /\ alive' \subseteq valid' /\ overlooked' \subseteq Device
    BY <1>1 DEF SignIn
  <2>3. QED
    BY <1>1, <2>1, <2>2 DEF SignIn, Event
<1>2. ASSUME NEW p \in Phone, Launch(p) PROVE TypeOK'
  BY <1>2 DEF Launch, Event
<1>3. ASSUME NEW p \in Phone, Renew(p) PROVE TypeOK'
  BY <1>3 DEF Renew, Event
<1>4. ASSUME NEW p \in Phone, Upload(p) PROVE TypeOK'
  <2>1. DeviceOf(p) \in Device
    BY <1>4 DEF Upload, Accounts
  <2>2. [device |-> DeviceOf(p), token |-> current[p], admitted |-> FALSE] \in Request
    BY <2>1 DEF Request
  <2>3. QED
    BY <1>4, <2>1, <2>2 DEF Upload
<1>5. ASSUME NEW p \in Phone, SignOut(p) PROVE TypeOK'
  BY SMTT(60), <1>5 DEF SignOut, Event
<1>6. ASSUME NEW p \in Phone, Unregister(p) PROVE TypeOK'
  <2>1. DeviceOf(p) \in Device
    BY <1>6 DEF Unregister, Accounts
  <2>2. overlooked' \subseteq Device
    BY <1>6, <2>1 DEF Unregister
  <2>3. leaving' \in [Phone -> {"no", "delete", "logout"}] /\ faults' \in 0..MaxFaults
    BY <1>6 DEF Unregister, Fault, NoFault
  <2>4. /\ tokens' \in [Device -> 0..MaxTokens] /\ \A d, e \in Device : SameToken(d, e)' => d = e
        /\ owed' \subseteq (1..MaxClips) \X Device
    <3>1. CASE tokens' = Without({DeviceOf(p)}) /\ owed' = OwedAfter(tokens')
      BY <3>1 DEF Without, OwedAfter
    <3>2. CASE UNCHANGED <<tokens, owed>>
      BY <3>2
    <3>3. QED
      BY <1>6, <3>1, <3>2 DEF Unregister
  <2>5. QED
    BY <1>6, <2>2, <2>3, <2>4 DEF Unregister
<1>7. ASSUME NEW p \in Phone, Logout(p) PROVE TypeOK'
  BY SMTT(60), <1>7 DEF Logout, Fault, NoFault
<1>8. ASSUME NEW r \in requests, Admit(r) PROVE TypeOK'
  BY <1>8 DEF Admit, Request
<1>9. ASSUME NEW r \in requests, Store(r) PROVE TypeOK'
  <2> DEFINE rows == Without(Having(PhoneOf(r.device), r.token))
  <2>1. r.device \in Device /\ r.token \in 1..MaxTokens
    BY DEF Request
  <2>2. \A d \in Device : PhoneOf(d) = PhoneOf(r.device) => rows[d] # r.token
    BY <2>1 DEF Without, Having
  <2>3. rows \in [Device -> 0..MaxTokens] /\ \A d \in Device : rows[d] \in {0, tokens[d]}
    BY DEF Without
  <2>4. tokens' = [rows EXCEPT ![r.device] = r.token]
    BY <1>9 DEF Store, Stored
  <2>5. tokens' \in [Device -> 0..MaxTokens]
    BY <2>1, <2>3, <2>4
  <2>6. \A d, e \in Device : SameToken(d, e)' => d = e
    BY <2>1, <2>2, <2>3, <2>4
  <2>7. owed' \subseteq (1..MaxClips) \X Device
    BY <1>9 DEF Store, OwedAfter
  <2>8. QED
    BY <1>9, <2>5, <2>6, <2>7 DEF Store
<1>10. ASSUME NEW r \in requests, Fail(r) PROVE TypeOK'
  BY <1>10 DEF Fail, Fault
<1>11. ASSUME NEW d \in Device, RevokeDevice(d) PROVE TypeOK'
  BY <1>11 DEF RevokeDevice, Event, Without, OwedAfter
<1>12. ASSUME NEW d \in Device, Expire(d) PROVE TypeOK'
  BY SMTT(60), <1>12 DEF Expire, Fault
<1>13. ASSUME NEW a \in Account, NEW g \in Device \union {Desk}, ClipCreated(a, g) PROVE TypeOK'
  <2>1. clips' \in 1..MaxClips
    BY <1>13 DEF ClipCreated
  <2>2. [clip |-> clips', account |-> a, origin |-> g] \in Notice
    BY <2>1 DEF Notice
  <2>3. queue' \in Seq(Notice) /\ Len(queue') <= QueueCap
    <3>1. CASE Len(queue) < QueueCap
      <4>1. queue' = Append(queue, [clip |-> clips', account |-> a, origin |-> g])
        BY <1>13, <3>1 DEF ClipCreated
      <4>2. QED
        BY <2>2, <3>1, <4>1
    <3>2. CASE ~(Len(queue) < QueueCap)
      BY <1>13, <3>2 DEF ClipCreated
    <3>3. QED
      BY <3>1, <3>2
  <2>4. owed' \subseteq (1..MaxClips) \X Device
    BY <1>13, <2>1 DEF ClipCreated, Eligible
  <2>5. QED
    BY <1>13, <2>1, <2>3, <2>4 DEF ClipCreated
<1>14. CASE TakeNotice
  BY <1>14 DEF TakeNotice
<1>15. CASE LoadTokens
  <2>1. \A d \in Eligible(notice.account, notice.origin) : [device |-> d, token |-> tokens[d]] \in Entry
    BY DEF Eligible, Entry
  <2>2. list' \subseteq Entry /\ refused = {}
    BY <1>15, <2>1 DEF LoadTokens, Refusing
  <2>3. QED
    BY <1>15, <2>2 DEF LoadTokens
<1>16. CASE LoadFails
  BY <1>16 DEF LoadFails, Fault
<1>17. ASSUME NEW e \in Entry, Send(e) PROVE TypeOK'
  BY <1>17 DEF Send, Tried, Refusing
<1>18. ASSUME NEW e \in Entry, SendFails(e) PROVE TypeOK'
  BY <1>18 DEF SendFails, Tried, Fault, Refusing
<1>19. ASSUME NEW e \in Entry, Refuse(e) PROVE TypeOK'
  BY <1>19 DEF Refuse
<1>20. CASE Prune
  BY <1>20 DEF Prune, Without, OwedAfter, Having, Entry, Refusing
<1>21. CASE Done
  BY <1>21 DEF Done
<1>22. CASE Restart
  BY <1>22 DEF Restart, Fault
<1>23. CASE UNCHANGED vars
  BY <1>23 DEF vars
<1>24. QED
  BY <1>1, <1>2, <1>3, <1>4, <1>5, <1>6, <1>7, <1>8, <1>9, <1>10, <1>11, <1>12, <1>13, <1>14, <1>15, <1>16, <1>17, <1>18, <1>19, <1>20, <1>21, <1>22, <1>23 DEF Next, App, Handler, Notifier

(* Phones keep to their own accounts.                                      *)
LEMMA AccountsStep ==
  ASSUME TypeOK, Accounts, [Next]_vars
  PROVE  Accounts'
<1> USE PushAssumption, DeviceShape DEF TypeOK, Accounts, DeviceOf, server, app
<1>1. ASSUME NEW p \in Phone, NEW a \in Account, SignIn(p, a) PROVE Accounts'
  BY <1>1 DEF SignIn, Event
<1>2. ASSUME NEW p \in Phone, Launch(p) PROVE Accounts'
  BY <1>2 DEF Launch, Event
<1>3. ASSUME NEW p \in Phone, Renew(p) PROVE Accounts'
  BY <1>3 DEF Renew, Event
<1>4. ASSUME NEW p \in Phone, Upload(p) PROVE Accounts'
  BY <1>4 DEF Upload
<1>5. ASSUME NEW p \in Phone, SignOut(p) PROVE Accounts'
  BY <1>5 DEF SignOut, Event
<1>6. ASSUME NEW p \in Phone, Unregister(p) PROVE Accounts'
  BY <1>6 DEF Unregister
<1>7. ASSUME NEW p \in Phone, Logout(p) PROVE Accounts'
  BY <1>7 DEF Logout
<1>8. ASSUME NEW r \in requests, Admit(r) PROVE Accounts'
  BY <1>8 DEF Admit
<1>9. ASSUME NEW r \in requests, Store(r) PROVE Accounts'
  BY <1>9 DEF Store
<1>10. ASSUME NEW r \in requests, Fail(r) PROVE Accounts'
  BY <1>10 DEF Fail
<1>11. ASSUME NEW d \in Device, RevokeDevice(d) PROVE Accounts'
  BY <1>11 DEF RevokeDevice, Event
<1>12. ASSUME NEW d \in Device, Expire(d) PROVE Accounts'
  BY <1>12 DEF Expire
<1>13. ASSUME NEW a \in Account, NEW g \in Device \union {Desk}, ClipCreated(a, g) PROVE Accounts'
  BY <1>13 DEF ClipCreated
<1>14. CASE TakeNotice
  BY <1>14 DEF TakeNotice
<1>15. CASE LoadTokens
  BY <1>15 DEF LoadTokens
<1>16. CASE LoadFails
  BY <1>16 DEF LoadFails
<1>17. ASSUME NEW e \in Entry, Send(e) PROVE Accounts'
  BY <1>17 DEF Send, Tried
<1>18. ASSUME NEW e \in Entry, SendFails(e) PROVE Accounts'
  BY <1>18 DEF SendFails, Tried
<1>19. ASSUME NEW e \in Entry, Refuse(e) PROVE Accounts'
  BY <1>19 DEF Refuse
<1>20. CASE Prune
  BY <1>20 DEF Prune
<1>21. CASE Done
  BY <1>21 DEF Done
<1>22. CASE Restart
  BY <1>22 DEF Restart
<1>23. CASE UNCHANGED vars
  BY <1>23 DEF vars
<1>24. QED
  BY <1>1, <1>2, <1>3, <1>4, <1>5, <1>6, <1>7, <1>8, <1>9, <1>10, <1>11, <1>12, <1>13, <1>14, <1>15, <1>16, <1>17, <1>18, <1>19, <1>20, <1>21, <1>22, <1>23 DEF Next, App, Handler, Notifier

(* No token runs ahead of its phone.                                       *)
LEMMA NumbersStep ==
  ASSUME TypeOK, Numbers, Accounts, [Next]_vars
  PROVE  Numbers'
<1> USE PushAssumption, DeviceShape DEF TypeOK, Numbers, PhoneOf, server, app, notifier
<1>1. ASSUME NEW p \in Phone, NEW a \in Account, SignIn(p, a) PROVE Numbers'
  BY <1>1 DEF SignIn, Event
<1>2. ASSUME NEW p \in Phone, Launch(p) PROVE Numbers'
  BY <1>2 DEF Launch, Event
<1>3. ASSUME NEW p \in Phone, Renew(p) PROVE Numbers'
  BY <1>3 DEF Renew, Event, Request, Entry
<1>4. ASSUME NEW p \in Phone, Upload(p) PROVE Numbers'
  BY <1>4 DEF Upload, DeviceOf, Accounts
<1>5. ASSUME NEW p \in Phone, SignOut(p) PROVE Numbers'
  BY <1>5 DEF SignOut, Event
<1>6. ASSUME NEW p \in Phone, Unregister(p) PROVE Numbers'
  <2>1. \A d \in Device : tokens'[d] \in {0, tokens[d]}
    BY <1>6 DEF Unregister, Without
  <2>2. QED
    <3>1. UNCHANGED requests /\ UNCHANGED current /\ UNCHANGED list
      BY <1>6 DEF Unregister
    <3>2. ASSUME NEW d \in Device PROVE tokens'[d] <= current'[PhoneOf(d)]
      <4>1. tokens[d] <= current[PhoneOf(d)]
        OBVIOUS
      <4>2. tokens[d] \in Nat /\ current[PhoneOf(d)] \in Nat
        OBVIOUS
      <4>3. tokens'[d] \in {0, tokens[d]} /\ current' = current
        BY <2>1, <3>1
      <4>4. QED
        BY <4>1, <4>2, <4>3
    <3>3. (\A r \in requests : r.token <= current[PhoneOf(r.device)])'
      BY <3>1
    <3>4. (\A e \in list : e.token <= current[PhoneOf(e.device)])'
      BY <3>1
    <3>5. QED
      BY <3>2, <3>3, <3>4
<1>7. ASSUME NEW p \in Phone, Logout(p) PROVE Numbers'
  BY <1>7 DEF Logout
<1>8. ASSUME NEW r \in requests, Admit(r) PROVE Numbers'
  BY <1>8 DEF Admit, Request
<1>9. ASSUME NEW r \in requests, Store(r) PROVE Numbers'
  BY <1>9 DEF Store, Without, Stored, Request
<1>10. ASSUME NEW r \in requests, Fail(r) PROVE Numbers'
  BY <1>10 DEF Fail
<1>11. ASSUME NEW d \in Device, RevokeDevice(d) PROVE Numbers'
  BY <1>11 DEF RevokeDevice, Event, Without
<1>12. ASSUME NEW d \in Device, Expire(d) PROVE Numbers'
  BY <1>12 DEF Expire
<1>13. ASSUME NEW a \in Account, NEW g \in Device \union {Desk}, ClipCreated(a, g) PROVE Numbers'
  BY <1>13 DEF ClipCreated
<1>14. CASE TakeNotice
  BY <1>14 DEF TakeNotice
<1>15. CASE LoadTokens
  BY <1>15 DEF LoadTokens, Eligible
<1>16. CASE LoadFails
  BY <1>16 DEF LoadFails
<1>17. ASSUME NEW e \in Entry, Send(e) PROVE Numbers'
  BY <1>17 DEF Send, Tried
<1>18. ASSUME NEW e \in Entry, SendFails(e) PROVE Numbers'
  BY <1>18 DEF SendFails, Tried
<1>19. ASSUME NEW e \in Entry, Refuse(e) PROVE Numbers'
  BY <1>19 DEF Refuse
<1>20. CASE Prune
  BY <1>20 DEF Prune, Without
<1>21. CASE Done
  BY <1>21 DEF Done
<1>22. CASE Restart
  BY <1>22 DEF Restart
<1>23. CASE UNCHANGED vars
  BY <1>23 DEF vars
<1>24. QED
  BY <1>1, <1>2, <1>3, <1>4, <1>5, <1>6, <1>7, <1>8, <1>9, <1>10, <1>11, <1>12, <1>13, <1>14, <1>15, <1>16, <1>17, <1>18, <1>19, <1>20, <1>21, <1>22, <1>23 DEF Next, App, Handler, Notifier

(* A refused token stays invalid.                                          *)
LEMMA RefusingStep ==
  ASSUME TypeOK, Numbers, Refusing, [Next]_vars
  PROVE  Refusing'
<1> USE PushAssumption, DeviceShape DEF TypeOK, Refusing, PhoneOf, Valid, Entry, server, app, notifier
<1>1. ASSUME NEW p \in Phone, NEW a \in Account, SignIn(p, a) PROVE Refusing'
  BY <1>1 DEF SignIn, Event
<1>2. ASSUME NEW p \in Phone, Launch(p) PROVE Refusing'
  BY <1>2 DEF Launch, Event
<1>3. ASSUME NEW p \in Phone, Renew(p) PROVE Refusing'
  BY <1>3 DEF Renew, Event
<1>4. ASSUME NEW p \in Phone, Upload(p) PROVE Refusing'
  BY <1>4 DEF Upload
<1>5. ASSUME NEW p \in Phone, SignOut(p) PROVE Refusing'
  BY <1>5 DEF SignOut, Event
<1>6. ASSUME NEW p \in Phone, Unregister(p) PROVE Refusing'
  BY <1>6 DEF Unregister
<1>7. ASSUME NEW p \in Phone, Logout(p) PROVE Refusing'
  BY <1>7 DEF Logout
<1>8. ASSUME NEW r \in requests, Admit(r) PROVE Refusing'
  BY <1>8 DEF Admit
<1>9. ASSUME NEW r \in requests, Store(r) PROVE Refusing'
  BY <1>9 DEF Store
<1>10. ASSUME NEW r \in requests, Fail(r) PROVE Refusing'
  BY <1>10 DEF Fail
<1>11. ASSUME NEW d \in Device, RevokeDevice(d) PROVE Refusing'
  BY <1>11 DEF RevokeDevice, Event
<1>12. ASSUME NEW d \in Device, Expire(d) PROVE Refusing'
  BY <1>12 DEF Expire
<1>13. ASSUME NEW a \in Account, NEW g \in Device \union {Desk}, ClipCreated(a, g) PROVE Refusing'
  BY <1>13 DEF ClipCreated
<1>14. CASE TakeNotice
  BY <1>14 DEF TakeNotice
<1>15. CASE LoadTokens
  BY <1>15 DEF LoadTokens
<1>16. CASE LoadFails
  BY <1>16 DEF LoadFails
<1>17. ASSUME NEW e \in Entry, Send(e) PROVE Refusing'
  BY <1>17 DEF Send, Tried
<1>18. ASSUME NEW e \in Entry, SendFails(e) PROVE Refusing'
  BY <1>18 DEF SendFails, Tried
<1>19. ASSUME NEW e \in Entry, Refuse(e) PROVE Refusing'
  BY <1>19 DEF Refuse, Numbers
<1>20. CASE Prune
  BY <1>20 DEF Prune
<1>21. CASE Done
  BY <1>21 DEF Done
<1>22. CASE Restart
  BY <1>22 DEF Restart
<1>23. CASE UNCHANGED vars
  BY <1>23 DEF vars
<1>24. QED
  BY <1>1, <1>2, <1>3, <1>4, <1>5, <1>6, <1>7, <1>8, <1>9, <1>10, <1>11, <1>12, <1>13, <1>14, <1>15, <1>16, <1>17, <1>18, <1>19, <1>20, <1>21, <1>22, <1>23 DEF Next, App, Handler, Notifier

(* Notices are about clips that were created.                              *)
LEMMA KnownStep ==
  ASSUME TypeOK, Known, [Next]_vars
  PROVE  Known'
<1> USE PushAssumption DEF TypeOK, Known, Notice, NoNotice, server, app, notifier
<1>1. ASSUME NEW p \in Phone, NEW a \in Account, SignIn(p, a) PROVE Known'
  BY <1>1 DEF SignIn, Event
<1>2. ASSUME NEW p \in Phone, Launch(p) PROVE Known'
  BY <1>2 DEF Launch, Event
<1>3. ASSUME NEW p \in Phone, Renew(p) PROVE Known'
  BY <1>3 DEF Renew, Event
<1>4. ASSUME NEW p \in Phone, Upload(p) PROVE Known'
  BY <1>4 DEF Upload
<1>5. ASSUME NEW p \in Phone, SignOut(p) PROVE Known'
  BY <1>5 DEF SignOut, Event
<1>6. ASSUME NEW p \in Phone, Unregister(p) PROVE Known'
  BY <1>6 DEF Unregister
<1>7. ASSUME NEW p \in Phone, Logout(p) PROVE Known'
  BY <1>7 DEF Logout
<1>8. ASSUME NEW r \in requests, Admit(r) PROVE Known'
  BY <1>8 DEF Admit
<1>9. ASSUME NEW r \in requests, Store(r) PROVE Known'
  BY <1>9 DEF Store
<1>10. ASSUME NEW r \in requests, Fail(r) PROVE Known'
  BY <1>10 DEF Fail
<1>11. ASSUME NEW d \in Device, RevokeDevice(d) PROVE Known'
  BY <1>11 DEF RevokeDevice, Event
<1>12. ASSUME NEW d \in Device, Expire(d) PROVE Known'
  BY <1>12 DEF Expire
<1>13. ASSUME NEW a \in Account, NEW g \in Device \union {Desk}, ClipCreated(a, g) PROVE Known'
  <2>1. clips' = clips + 1 /\ UNCHANGED <<notice, pc>>
    BY <1>13 DEF ClipCreated
  <2>2. notice.clip \in Nat /\ \A i \in DOMAIN queue : queue[i].clip \in Nat
    BY NoticeShape
  <2>3. CASE Len(queue) < QueueCap
    <3>1. queue' = Append(queue, [clip |-> clips', account |-> a, origin |-> g])
      BY <1>13, <2>3 DEF ClipCreated
    <3>2. \A i \in DOMAIN queue' : (queue'[i] = queue[i] /\ i \in DOMAIN queue) \/ queue'[i].clip = clips'
      BY SMTT(60), <3>1
    <3>3. ASSUME NEW i \in DOMAIN queue' PROVE queue'[i].clip <= clips'
      <4>1. CASE queue'[i] = queue[i] /\ i \in DOMAIN queue
        <5>1. queue[i].clip <= clips /\ queue[i].clip \in Nat /\ clips \in Nat
          BY <2>2, <4>1
        <5>2. QED
          BY <2>1, <4>1, <5>1
      <4>2. CASE queue'[i].clip = clips'
        BY <2>1, <4>2
      <4>3. QED
        BY <3>2, <4>1, <4>2
    <3>4. notice'.clip <= clips' /\ (pc' = "wait" => notice' = NoNotice)
      BY <2>1, <2>2
    <3>5. QED
      BY <3>3, <3>4
  <2>4. CASE ~(Len(queue) < QueueCap)
    <3>1. queue' = queue
      BY <1>13, <2>4 DEF ClipCreated
    <3>2. QED
      BY <2>1, <2>2, <3>1
  <2>5. QED
    BY <2>3, <2>4
<1>14. CASE TakeNotice
  BY <1>14 DEF TakeNotice
<1>15. CASE LoadTokens
  BY <1>15 DEF LoadTokens
<1>16. CASE LoadFails
  BY <1>16 DEF LoadFails
<1>17. ASSUME NEW e \in Entry, Send(e) PROVE Known'
  BY <1>17 DEF Send, Tried
<1>18. ASSUME NEW e \in Entry, SendFails(e) PROVE Known'
  BY <1>18 DEF SendFails, Tried
<1>19. ASSUME NEW e \in Entry, Refuse(e) PROVE Known'
  BY <1>19 DEF Refuse
<1>20. CASE Prune
  BY <1>20 DEF Prune
<1>21. CASE Done
  BY <1>21 DEF Done
<1>22. CASE Restart
  BY <1>22 DEF Restart
<1>23. CASE UNCHANGED vars
  BY <1>23 DEF vars
<1>24. QED
  BY <1>1, <1>2, <1>3, <1>4, <1>5, <1>6, <1>7, <1>8, <1>9, <1>10, <1>11, <1>12, <1>13, <1>14, <1>15, <1>16, <1>17, <1>18, <1>19, <1>20, <1>21, <1>22, <1>23 DEF Next, App, Handler, Notifier

(* Who has or gets a token is present, or overlooked.                      *)
LEMMA BoundStep ==
  ASSUME TypeOK, Accounts, Bound, [Next]_vars
  PROVE  Bound'
<1> USE PushAssumption, DeviceShape DEF TypeOK, Accounts, Bound, Present, DeviceOf, PhoneOf, Uploading, server, app
<1>1. ASSUME NEW p \in Phone, NEW a \in Account, SignIn(p, a) PROVE Bound'
  <2>1. \A d \in Device : PhoneOf(d) = p => ~Present(d)
    BY <1>1 DEF SignIn
  <2>2. \A d \in Device : PhoneOf(d) # p => (Present(d)' <=> Present(d))
    BY <1>1 DEF SignIn
  <2>3. \A d \in Device : PhoneOf(d) = p /\ d # <<p, a>> /\ d \in overlooked => d \in overlooked'
    BY <1>1 DEF SignIn
  <2>4. Present(<<p, a>>)' /\ <<p, a>> \in valid'
    BY <1>1 DEF SignIn
  <2>5. \A d \in Device : PhoneOf(d) # p /\ d \in overlooked => d \in overlooked'
    BY <1>1 DEF SignIn
  <2>6. UNCHANGED <<tokens, requests, leaving>> /\ valid \subseteq valid' /\ leaving[p] = "no"
    BY <1>1 DEF SignIn
  <2>7. (\A d \in Device : tokens[d] # 0 => (Present(d) /\ d \in valid) \/ d \in overlooked)'
    BY <2>1, <2>2, <2>3, <2>4, <2>5, <2>6
  <2>8. (\A r \in requests : \/ Present(r.device) /\ (r.admitted => r.device \in valid)
                             \/ r.device \in overlooked)'
    <3>1. \A r \in requests : r.device \in Device
      BY DEF Request
    <3>2. QED
      <4>1. SUFFICES ASSUME NEW r \in requests
                     PROVE  \/ Present(r.device)' /\ (r.admitted => r.device \in valid')
                            \/ r.device \in overlooked'
        BY <2>6
      <4>2. CASE r.device \in overlooked
        BY <2>3, <2>4, <2>5, <3>1, <4>2
      <4>3. CASE r.device \notin overlooked
        BY <2>1, <2>2, <2>6, <3>1, <4>3
      <4>4. QED
        BY <4>2, <4>3
  <2>9. ASSUME NEW q \in Phone, leaving'[q] = "logout",
               (tokens[DeviceOf(q)] # 0 \/ Uploading(DeviceOf(q)))'
        PROVE  (DeviceOf(q) \in overlooked)'
    <3>1. q # p /\ signed'[q] = signed[q] /\ signed[q] # None
      BY <1>1, <2>6, <2>9 DEF SignIn
    <3>2. QED
      BY <2>5, <2>6, <2>9, <3>1
  <2>10. QED
    BY <2>7, <2>8, <2>9
<1>2. ASSUME NEW p \in Phone, Launch(p) PROVE Bound'
  BY <1>2 DEF Launch, Event
<1>3. ASSUME NEW p \in Phone, Renew(p) PROVE Bound'
  BY <1>3 DEF Renew, Event
<1>4. ASSUME NEW p \in Phone, Upload(p) PROVE Bound'
  BY <1>4 DEF Upload
<1>5. ASSUME NEW p \in Phone, SignOut(p) PROVE Bound'
  BY <1>5 DEF SignOut, Event
<1>6. ASSUME NEW p \in Phone, Unregister(p) PROVE Bound'
  BY ZenonT(60), <1>6 DEF Unregister, Without
<1>7. ASSUME NEW p \in Phone, Logout(p) PROVE Bound'
  <2>1. UNCHANGED <<tokens, requests, overlooked, valid>> /\ leaving[p] = "logout"
    BY <1>7 DEF Logout
  <2>2. \A d \in Device : (Present(d)' <=> Present(d)) \/ d = DeviceOf(p)
    BY <1>7 DEF Logout
  <2>3. \A q \in Phone : leaving'[q] = "logout" => leaving[q] = "logout" /\ signed'[q] = signed[q]
    BY <1>7 DEF Logout
  <2>4. \A r \in requests : r.device \in Device
    BY DEF Request
  <2>5. (\A d \in Device : tokens[d] # 0 => (Present(d) /\ d \in valid) \/ d \in overlooked)'
    BY <2>1, <2>2
  <2>6. (\A r \in requests : \/ Present(r.device) /\ (r.admitted => r.device \in valid)
                             \/ r.device \in overlooked)'
    <3>1. SUFFICES ASSUME NEW r \in requests
                   PROVE  \/ Present(r.device)' /\ (r.admitted => r.device \in valid)
                          \/ r.device \in overlooked
      BY <2>1
    <3>2. CASE r.device = DeviceOf(p)
      BY <2>1, <2>4, <3>2
    <3>3. CASE r.device # DeviceOf(p)
      BY <2>2, <2>4, <3>3
    <3>4. QED
      BY <3>2, <3>3
  <2>7. QED
    BY <2>1, <2>3, <2>5, <2>6
<1>8. ASSUME NEW r \in requests, Admit(r) PROVE Bound'
  <2>1. UNCHANGED <<tokens, overlooked, valid, app>> /\ alive \subseteq valid
    BY <1>8 DEF Admit
  <2>2. \A s \in requests' : \/ s \in requests
                             \/ s = [r EXCEPT !.admitted = TRUE] /\ r.device \in alive
    BY <1>8 DEF Admit
  <2>3. [r EXCEPT !.admitted = TRUE].device = r.device
    BY DEF Request
  <2>4. (\A s \in requests : \/ Present(s.device) /\ (s.admitted => s.device \in valid)
                             \/ s.device \in overlooked)'
    BY <2>1, <2>2, <2>3
  <2>5. \A d \in Device : Uploading(d)' => Uploading(d)
    BY <2>2, <2>3
  <2>6. QED
    BY <2>1, <2>4, <2>5
<1>9. ASSUME NEW r \in requests, Store(r) PROVE Bound'
  BY <1>9 DEF Store, Without, Stored, Request
<1>10. ASSUME NEW r \in requests, Fail(r) PROVE Bound'
  BY <1>10 DEF Fail
<1>11. ASSUME NEW d \in Device, RevokeDevice(d) PROVE Bound'
  BY <1>11 DEF RevokeDevice, Event, Without
<1>12. ASSUME NEW d \in Device, Expire(d) PROVE Bound'
  BY <1>12 DEF Expire
<1>13. ASSUME NEW a \in Account, NEW g \in Device \union {Desk}, ClipCreated(a, g) PROVE Bound'
  BY <1>13 DEF ClipCreated
<1>14. CASE TakeNotice
  BY <1>14 DEF TakeNotice
<1>15. CASE LoadTokens
  BY <1>15 DEF LoadTokens
<1>16. CASE LoadFails
  BY <1>16 DEF LoadFails
<1>17. ASSUME NEW e \in Entry, Send(e) PROVE Bound'
  BY <1>17 DEF Send, Tried
<1>18. ASSUME NEW e \in Entry, SendFails(e) PROVE Bound'
  BY <1>18 DEF SendFails, Tried
<1>19. ASSUME NEW e \in Entry, Refuse(e) PROVE Bound'
  BY <1>19 DEF Refuse
<1>20. CASE Prune
  BY <1>20 DEF Prune, Without
<1>21. CASE Done
  BY <1>21 DEF Done
<1>22. CASE Restart
  BY <1>22 DEF Restart
<1>23. CASE UNCHANGED vars
  BY <1>23 DEF vars
<1>24. QED
  BY <1>1, <1>2, <1>3, <1>4, <1>5, <1>6, <1>7, <1>8, <1>9, <1>10, <1>11, <1>12, <1>13, <1>14, <1>15, <1>16, <1>17, <1>18, <1>19, <1>20, <1>21, <1>22, <1>23 DEF Next, App, Handler, Notifier

(* A wake-up that is owed is on its way to the newest token.               *)
LEMMA WaitingStep ==
  ASSUME IInv, TypeOK', [Next]_vars
  PROVE  Waiting'
<1> USE PushAssumption, DeviceShape DEF IInv, TypeOK, Waiting, Awaited, About, PhoneOf, server, app, notifier
<1>1. ASSUME NEW p \in Phone, NEW a \in Account, SignIn(p, a) PROVE Waiting'
  BY <1>1 DEF SignIn, Event
<1>2. ASSUME NEW p \in Phone, Launch(p) PROVE Waiting'
  BY <1>2 DEF Launch, Event
<1>3. ASSUME NEW p \in Phone, Renew(p) PROVE Waiting'
  BY <1>3 DEF Renew, Event
<1>4. ASSUME NEW p \in Phone, Upload(p) PROVE Waiting'
  BY <1>4 DEF Upload
<1>5. ASSUME NEW p \in Phone, SignOut(p) PROVE Waiting'
  BY <1>5 DEF SignOut, Event
<1>6. ASSUME NEW p \in Phone, Unregister(p) PROVE Waiting'
  BY <1>6 DEF Unregister, Without, OwedAfter
<1>7. ASSUME NEW p \in Phone, Logout(p) PROVE Waiting'
  BY <1>7 DEF Logout
<1>8. ASSUME NEW r \in requests, Admit(r) PROVE Waiting'
  BY <1>8 DEF Admit
<1>9. ASSUME NEW r \in requests, Store(r) PROVE Waiting'
  BY <1>9 DEF Store, OwedAfter
<1>10. ASSUME NEW r \in requests, Fail(r) PROVE Waiting'
  BY <1>10 DEF Fail
<1>11. ASSUME NEW d \in Device, RevokeDevice(d) PROVE Waiting'
  BY <1>11 DEF RevokeDevice, Event, Without, OwedAfter
<1>12. ASSUME NEW d \in Device, Expire(d) PROVE Waiting'
  BY <1>12 DEF Expire
<1>13. ASSUME NEW a \in Account, NEW g \in Device \union {Desk}, ClipCreated(a, g) PROVE Waiting'
  <2> DEFINE n == [clip |-> clips', account |-> a, origin |-> g]
  <2>1. /\ clips' = clips + 1 /\ clips \in Nat
        /\ UNCHANGED <<tokens, valid, current, notice, pc, list>>
    BY <1>13 DEF ClipCreated
  <2>2. \A o \in owed : o[1] \in Nat /\ o[1] <= clips
    BY OwedShape
  <2>3. notice.clip \in Nat /\ notice.clip <= clips
        /\ \A i \in DOMAIN queue : queue[i].clip \in Nat /\ queue[i].clip <= clips
    BY NoticeShape DEF Known
  <2>4. CASE Len(queue) < QueueCap
    <3>1. queue' = Append(queue, n)
      BY <1>13, <2>4 DEF ClipCreated
    <3>2. \A i \in DOMAIN queue : i \in DOMAIN queue' /\ queue'[i] = queue[i]
      BY <3>1
    <3>3. Len(queue) + 1 \in DOMAIN queue' /\ queue'[Len(queue) + 1] = n
      BY <3>1
    <3>4. \A i \in DOMAIN queue' : (i \in DOMAIN queue /\ queue'[i] = queue[i]) \/ queue'[i] = n
      BY <3>1
    <3>5. \A o \in owed' : o \in owed \/ /\ o[1] = clips' /\ o[2] \in Eligible(a, g)
                                         /\ tokens[o[2]] = current[PhoneOf(o[2])]
      BY <1>13, <2>4 DEF ClipCreated
    <3>6. ASSUME NEW o \in owed PROVE Awaited(o)'
      <4>1. o[1] # clips' /\ Awaited(o)
        BY <2>1, <2>2
      <4>2. \A i \in DOMAIN queue' : queue'[i].clip = o[1] => i \in DOMAIN queue /\ queue'[i] = queue[i]
        BY <3>4, <4>1
      <4>3. (\E i \in DOMAIN queue : queue[i].clip = o[1]) => \E i \in DOMAIN queue' : queue'[i].clip = o[1]
        BY <3>2
      <4>4. o[1] <= clips'
        BY <2>1, <2>2
      <4>5. QED
        BY <2>1, <4>1, <4>2, <4>3, <4>4
    <3>7. ASSUME NEW o \in owed', o \notin owed PROVE Awaited(o)'
      <4>1. /\ o[1] = clips' /\ o[2] \in Eligible(a, g)
            /\ tokens[o[2]] = current[PhoneOf(o[2])]
        BY <3>5, <3>7
      <4>2. \A i \in DOMAIN queue' : queue'[i].clip = o[1] => queue'[i] = n
        BY <2>1, <2>3, <3>4, <4>1
      <4>3. notice.clip # o[1]
        BY <2>1, <2>3, <4>1
      <4>4. QED
        BY <2>1, <3>3, <4>1, <4>2, <4>3 DEF Eligible
    <3>8. QED
      BY <3>6, <3>7
  <2>5. CASE ~(Len(queue) < QueueCap)
    <3>1. UNCHANGED <<queue, owed>>
      BY <1>13, <2>5 DEF ClipCreated
    <3>2. QED
      BY <2>1, <2>2, <3>1
  <2>6. QED
    BY <2>4, <2>5
<1>14. CASE TakeNotice
  <2>1. queue # <<>> /\ notice' = Head(queue) /\ queue' = Tail(queue) /\ pc = "wait" /\ pc' = "load"
    BY <1>14 DEF TakeNotice
  <2>2. UNCHANGED <<tokens, valid, current, owed, clips>>
    BY <1>14 DEF TakeNotice
  <2>3. notice' = queue[1] /\ 1 \in DOMAIN queue
    BY <2>1
  <2>4. \A i \in DOMAIN queue' : i + 1 \in DOMAIN queue /\ queue'[i] = queue[i + 1]
    BY <2>1
  <2>5. \A i \in DOMAIN queue : i # 1 => i - 1 \in DOMAIN queue' /\ queue'[i - 1] = queue[i]
    BY <2>1
  <2>6. ASSUME NEW o \in owed PROVE Awaited(o)'
    <3>1. Awaited(o) /\ notice.clip # o[1]
      <4>1. notice = NoNotice
        BY <2>1 DEF Known
      <4>2. o[1] # 0
        BY OwedShape
      <4>3. QED
        BY <4>1, <4>2 DEF NoNotice
    <3>2. PICK i \in DOMAIN queue : queue[i].clip = o[1]
      BY <3>1
    <3>3. notice'.clip = o[1] \/ \E j \in DOMAIN queue' : queue'[j].clip = o[1]
      BY SMTT(60), <2>3, <2>5, <3>2
    <3>4. ASSUME NEW j \in DOMAIN queue', queue'[j].clip = o[1] PROVE About(queue'[j], o)
      <4>1. j + 1 \in DOMAIN queue /\ queue'[j] = queue[j + 1]
        BY <2>4
      <4>2. queue[j + 1].clip = o[1] => About(queue[j + 1], o)
        BY <3>1, <4>1
      <4>3. QED
        BY <3>4, <4>1, <4>2
    <3>5. notice'.clip = o[1] => About(notice', o)
      BY <2>3, <3>1
    <3>6. QED
      BY <2>1, <2>2, <3>1, <3>3, <3>4, <3>5
  <2>7. QED
    BY <2>2, <2>6
<1>15. CASE LoadTokens
  BY <1>15 DEF LoadTokens, Eligible, Known
<1>16. CASE LoadFails
  <2>1. /\ notice' = NoNotice /\ owed' = {o \in owed : o[1] # notice.clip}
        /\ UNCHANGED <<queue, tokens, valid, current, clips>>
    BY <1>16 DEF LoadFails
  <2>2. ASSUME NEW o \in owed, o[1] # notice.clip PROVE Awaited(o)'
    <3>1. Awaited(o) /\ o[1] # 0
      BY OwedShape
    <3>2. QED
      BY <2>1, <2>2, <3>1 DEF NoNotice
  <2>3. QED
    BY <2>1, <2>2
<1>17. ASSUME NEW e \in Entry, Send(e) PROVE Waiting'
  BY <1>17 DEF Send, Tried
<1>18. ASSUME NEW e \in Entry, SendFails(e) PROVE Waiting'
  BY <1>18 DEF SendFails, Tried
<1>19. ASSUME NEW e \in Entry, Refuse(e) PROVE Waiting'
  BY <1>19 DEF Refuse
<1>20. CASE Prune
  BY <1>20 DEF Prune, OwedAfter, Refusing
<1>21. CASE Done
  <2>1. /\ notice' = NoNotice /\ pc = "send" /\ list = {}
        /\ UNCHANGED <<queue, tokens, valid, current, clips, owed>>
    BY <1>21 DEF Done
  <2>2. ASSUME NEW o \in owed PROVE Awaited(o)'
    <3>1. Awaited(o) /\ o[1] # 0
      BY OwedShape
    <3>2. QED
      BY <2>1, <3>1 DEF NoNotice
  <2>3. QED
    BY <2>1, <2>2
<1>22. CASE Restart
  BY <1>22 DEF Restart
<1>23. CASE UNCHANGED vars
  BY <1>23 DEF vars
<1>24. QED
  BY <1>1, <1>2, <1>3, <1>4, <1>5, <1>6, <1>7, <1>8, <1>9, <1>10, <1>11, <1>12, <1>13, <1>14, <1>15, <1>16, <1>17, <1>18, <1>19, <1>20, <1>21, <1>22, <1>23 DEF Next, App, Handler, Notifier

-----------------------------------------------------------------------------
(* IInv is an inductive invariant.                                         *)
LEMMA Inductive ==
  Spec => []IInv
<1>1. Init => IInv
  BY PushAssumption DEF Init, IInv, TypeOK, Accounts, Numbers, Refusing, Known, Waiting, Bound,
     SameToken, PhoneOf, Uploading, NoNotice
<1>2. IInv /\ [Next]_vars => IInv'
  BY TypeStep, AccountsStep, NumbersStep, RefusingStep, KnownStep, BoundStep, WaitingStep DEF IInv
<1>3. QED
  BY <1>1, <1>2, PTL DEF Spec

(* The tables, the queue and the notifier keep their types; a token is     *)
(* stored for one device at most.                                          *)
THEOREM PushTypes ==
  Spec => []TypeOK
<1>1. IInv => TypeOK
  BY DEF IInv
<1>2. QED
  BY <1>1, Inductive, PTL

(* A registered phone's wake-up is in the queue or ahead in the list, for  *)
(* any number of phones, notices and failures (notifier.Run, deliver).     *)
THEOREM WakeUpsKeptAlways ==
  Spec => []WakeUpsKept
<1>1. IInv => WakeUpsKept
  BY DEF IInv, Waiting, Awaited, WakeUpsKept
<1>2. QED
  BY <1>1, Inductive, PTL

(* A token outlives the removal of its device only by a lost removal or an *)
(* upload beside it (UpsertAPNsToken, DeleteAPNsToken, RevokeDevice).      *)
THEOREM TokensRemoved ==
  Spec => []OnlyOverlookedTokens
<1>1. IInv => OnlyOverlookedTokens
  BY DEF IInv, Bound, Present, OnlyOverlookedTokens
<1>2. QED
  BY <1>1, Inductive, PTL

(* What is deleted for a refused token is never a phone's newest token     *)
(* (deliver, DeleteAPNsTokenValue).                                        *)
THEOREM NewTokenSpared ==
  Spec => NewTokenKept
<1>1. ASSUME IInv, [Next]_vars, pc = "prune", pc' = "send",
             NEW d \in Device, tokens[d] = current[PhoneOf(d)]
      PROVE  tokens'[d] = tokens[d]
  <2>1. Prune
    BY <1>1 DEF Next, App, Handler, Notifier, SignIn, Launch, Renew, Upload, SignOut, Unregister,
       Logout, Admit, Store, Fail, RevokeDevice, Expire, ClipCreated, TakeNotice, LoadTokens,
       LoadFails, Send, SendFails, Tried, Refuse, Done, Restart, notifier, vars
  <2>2. PICK e \in refused : tokens' = Without(Having(PhoneOf(e.device), e.token))
    BY <2>1 DEF Prune
  <2>3. e.token < current[PhoneOf(e.device)] /\ current[PhoneOf(e.device)] \in Nat /\ e.token \in Nat
    BY <1>1, DeviceShape DEF IInv, TypeOK, Refusing, Entry, PhoneOf
  <2>4. d \notin Having(PhoneOf(e.device), e.token)
    BY <1>1, <2>3 DEF Having
  <2>5. QED
    BY <2>2, <2>4 DEF Without
<1>2. IInv /\ [Next]_vars
      => [pc = "prune" /\ pc' = "send" =>
            \A d \in Device : tokens[d] = current[PhoneOf(d)] => tokens'[d] = tokens[d]]_vars
  BY <1>1
<1>3. QED
  BY <1>2, Inductive, PTL DEF Spec, NewTokenKept
=============================================================================
