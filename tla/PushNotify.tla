----------------------------- MODULE PushNotify -----------------------------
(***************************************************************************)
(* Wake-ups of suspended iPhones: the table device_push_tokens, the        *)
(* handlers that fill it, the notifier (internal/push), a single goroutine *)
(* behind a bounded queue, and what the app does with its token when it    *)
(* signs in and out.                                                       *)
(*                                                                         *)
(* Abstractions: a token stands for itself and its environment; a device   *)
(* is a phone under an account; APNs accepts a phone's newest token only.  *)
(* What an upload of a token deletes and inserts is locked until its       *)
(* commit, so these statements are one step; a revocation is one step for  *)
(* the same reason (DeviceAuth has its locks). APNs is enabled.            *)
(***************************************************************************)
EXTENDS Naturals, Sequences, FiniteSets

CONSTANTS
  Phone,        \* installations of the iOS app
  Account,
  Device,       \* the accounts each phone may sign in to
  Desk,         \* any other device, which only copies
  QueueCap,     \* notices that wait for the notifier: 128
  MaxClips,     \* bound of the model: clips
  MaxTokens,    \* bound of the model: tokens of a phone
  MaxRequests,  \* bound of the model: uploads of tokens under way at a time
  MaxEvents,    \* bound of the model: sign-ins, sign-outs, launches, renewals, revocations
  MaxFaults     \* bound of the model: failures, expiries, restarts

None == "none"

ASSUME PushAssumption ==
  /\ Device \subseteq Phone \X Account /\ Desk \notin Device /\ None \notin Account
  /\ QueueCap \in Nat \ {0} /\ MaxClips \in Nat /\ MaxTokens \in Nat \ {0}
  /\ MaxRequests \in Nat /\ MaxEvents \in Nat /\ MaxFaults \in Nat

PhoneOf(d) == d[1]

VARIABLES
  tokens,      \* device_push_tokens: which of its phone's tokens a device has, or 0
  alive,       \* devices with a session
  valid,       \* devices that signed in and are not revoked
  signed,      \* the account whose secrets a phone has
  leaving,     \* a phone's sign-out: "no", "delete", "logout"
  current,     \* the newest token of a phone
  due,         \* phones whose token is to be uploaded
  requests,    \* uploads of tokens under way
  queue,       \* notices in the channel
  pc,          \* where the notifier stands
  notice,      \* the notice at work
  list,        \* the tokens read for it and not yet tried
  refused,     \* of them, the one that APNs called invalid
  owed,        \* history: wake-ups a registered phone waits for
  overlooked,  \* history: devices whose removal was lost or had an upload beside it
  clips, events, faults

server == <<tokens, alive, valid, requests>>
app == <<signed, leaving, current, due>>
notifier == <<queue, pc, notice, list, refused>>
vars == <<server, app, notifier, owed, overlooked, clips, events, faults>>

Notice == [clip : 1..MaxClips, account : Account, origin : Device \union {Desk}]
Entry == [device : Device, token : 1..MaxTokens]
Request == [device : Device, token : 1..MaxTokens, admitted : BOOLEAN]
NoNotice == [clip |-> 0, account |-> None, origin |-> Desk]

\* Rows of d and e with one token (UNIQUE (provider, environment, token)).
SameToken(d, e) == PhoneOf(d) = PhoneOf(e) /\ tokens[d] = tokens[e] /\ tokens[d] # 0

TypeOK ==
  /\ tokens \in [Device -> 0..MaxTokens] /\ \A d, e \in Device : SameToken(d, e) => d = e
  /\ valid \subseteq Device /\ alive \subseteq valid
  /\ signed \in [Phone -> Account \union {None}]
  /\ leaving \in [Phone -> {"no", "delete", "logout"}]
  /\ current \in [Phone -> 1..MaxTokens] /\ due \subseteq Phone
  /\ requests \subseteq Request
  /\ queue \in Seq(Notice) /\ Len(queue) <= QueueCap
  /\ pc \in {"wait", "load", "send", "prune"}
  /\ notice \in Notice \union {NoNotice} /\ list \subseteq Entry
  /\ refused \subseteq list
  /\ owed \subseteq (1..MaxClips) \X Device /\ overlooked \subseteq Device
  /\ clips \in 0..MaxClips /\ events \in 0..MaxEvents /\ faults \in 0..MaxFaults

Init ==
  /\ tokens = [d \in Device |-> 0] /\ alive = {} /\ valid = {}
  /\ signed = [p \in Phone |-> None] /\ leaving = [p \in Phone |-> "no"]
  /\ current = [p \in Phone |-> 1] /\ due = {} /\ requests = {}
  /\ queue = <<>> /\ pc = "wait" /\ notice = NoNotice /\ list = {} /\ refused = {}
  /\ owed = {} /\ overlooked = {} /\ clips = 0 /\ events = 0 /\ faults = 0

Event == events < MaxEvents /\ events' = events + 1 /\ UNCHANGED <<clips, faults>>
Fault == faults < MaxFaults /\ faults' = faults + 1
NoFault == UNCHANGED <<faults>>

DeviceOf(p) == <<p, signed[p]>>

\* Nothing is owed to devices whose row changes.
OwedAfter(rows) == {o \in owed : rows[o[2]] = tokens[o[2]]}

\* Rows without those of devices D.
Without(D) == [d \in Device |-> IF d \in D THEN 0 ELSE tokens[d]]

-----------------------------------------------------------------------------
(* The app.                                                                *)

(* A sign-in makes the device known, or valid again, and uploads the token.*)
SignIn(p, a) ==
  /\ Event
  /\ signed[p] = None /\ <<p, a>> \in Device
  /\ signed' = [signed EXCEPT ![p] = a] /\ due' = due \union {p}
  /\ alive' = alive \union {<<p, a>>} /\ valid' = valid \union {<<p, a>>}
  /\ overlooked' = overlooked \ {<<p, a>>}
  /\ UNCHANGED <<tokens, requests, leaving, current, notifier, owed>>

(* Every launch registers with APNs, which calls back with the token. A    *)
(* sign-out that was under way is forgotten.                               *)
Launch(p) ==
  /\ Event
  /\ due' = due \union {p} /\ leaving' = [leaving EXCEPT ![p] = "no"]
  /\ UNCHANGED <<server, signed, current, notifier, owed, overlooked>>

(* APNs gives the phone another token; the one before is invalid.          *)
Renew(p) ==
  /\ Event
  /\ current[p] < MaxTokens /\ current' = [current EXCEPT ![p] = @ + 1]
  /\ due' = due \union {p}
  /\ owed' = {o \in owed : PhoneOf(o[2]) # p}
  /\ UNCHANGED <<server, signed, leaving, notifier, overlooked>>

(* uploadPushTokenIfPossible; a task of its own, beside a sign-out too.    *)
Upload(p) ==
  /\ p \in due /\ signed[p] # None /\ Cardinality(requests) < MaxRequests
  /\ due' = due \ {p}
  /\ requests' = requests \union
       {[device |-> DeviceOf(p), token |-> current[p], admitted |-> FALSE]}
  /\ overlooked' = IF leaving[p] = "no" THEN overlooked ELSE overlooked \union {DeviceOf(p)}
  /\ UNCHANGED <<tokens, alive, valid, signed, leaving, current, notifier, owed, clips, events, faults>>

SignOut(p) ==
  /\ Event
  /\ signed[p] # None /\ leaving[p] = "no"
  /\ leaving' = [leaving EXCEPT ![p] = "delete"]
  /\ UNCHANGED <<server, signed, current, due, notifier, owed, overlooked>>

\* An upload of d's token is under way.
Uploading(d) == \E r \in requests : r.device = d

(* First the token: DeleteAPNsToken. A failure is not looked at.           *)
Unregister(p) ==
  /\ leaving[p] = "delete" /\ leaving' = [leaving EXCEPT ![p] = "logout"]
  /\ LET d == DeviceOf(p)
         heard == d \in alive
     IN  /\ \/ /\ heard /\ NoFault
               /\ tokens' = Without({d}) /\ owed' = OwedAfter(tokens')
            \/ /\ IF heard THEN Fault ELSE NoFault
               /\ UNCHANGED <<tokens, owed>>
         /\ overlooked' = IF tokens'[d] # 0 \/ Uploading(d)
                          THEN overlooked \union {d} ELSE overlooked
  /\ UNCHANGED <<alive, valid, requests, signed, current, due, notifier, clips, events>>

(* Then the session, and whatever the answer, the phone's own secrets.     *)
Logout(p) ==
  /\ leaving[p] = "logout" /\ leaving' = [leaving EXCEPT ![p] = "no"]
  /\ signed' = [signed EXCEPT ![p] = None]
  /\ \/ alive' = alive \ {DeviceOf(p)} /\ NoFault
     \/ Fault /\ UNCHANGED alive
  /\ UNCHANGED <<tokens, valid, requests, current, due, notifier, owed, overlooked, clips, events>>

-----------------------------------------------------------------------------
(* The handlers.                                                           *)

(* The session is valid and the device not revoked: the first statement of *)
(* UpsertAPNsToken, which locks nothing.                                   *)
Admit(r) ==
  /\ ~r.admitted
  /\ requests' = (requests \ {r}) \union
       (IF r.device \in alive THEN {[r EXCEPT !.admitted = TRUE]} ELSE {})
  /\ UNCHANGED <<tokens, alive, valid, app, notifier, owed, overlooked, clips, events, faults>>

\* The devices with phone p's token n.
Having(p, n) == {d \in Device : PhoneOf(d) = p /\ tokens[d] = n}

\* The rows once r has its own.
Stored(r, rows) == [rows EXCEPT ![r.device] = r.token]

(* The token is taken from other devices, of other accounts as well, and   *)
(* replaces the one this device had.                                       *)
Store(r) ==
  /\ r.admitted /\ requests' = requests \ {r}
  /\ tokens' = Stored(r, Without(Having(PhoneOf(r.device), r.token)))
  /\ owed' = OwedAfter(tokens')
  /\ UNCHANGED <<alive, valid, app, notifier, overlooked, clips, events, faults>>

(* The transaction fails, or the request is lost.                          *)
Fail(r) ==
  /\ Fault /\ requests' = requests \ {r}
  /\ UNCHANGED <<tokens, alive, valid, app, notifier, owed, overlooked, clips, events>>

\* Mutant: the tokens are left to the notifier.
RevokeSessions(d) ==
  /\ Event
  /\ d \in valid
  /\ valid' = valid \ {d} /\ alive' = alive \ {d}
  /\ UNCHANGED <<tokens, requests, app, notifier, owed, overlooked>>

(* RevokeDevice: the device, its sessions, its token.                      *)
RevokeDevice(d) ==
  /\ Event
  /\ d \in valid
  /\ valid' = valid \ {d} /\ alive' = alive \ {d}
  /\ tokens' = Without({d}) /\ owed' = OwedAfter(tokens')
  /\ overlooked' = IF Uploading(d) THEN overlooked \union {d} ELSE overlooked
  /\ UNCHANGED <<requests, app, notifier>>

(* A session runs out.                                                     *)
Expire(d) ==
  /\ d \in alive /\ Fault /\ alive' = alive \ {d}
  /\ UNCHANGED <<tokens, valid, requests, app, notifier, owed, overlooked, clips, events>>

Eligible(a, origin) ==
  {d \in Device : d[2] = a /\ d # origin /\ tokens[d] # 0 /\ d \in valid}

(* createClip tells the notifier, which never makes it wait: a full queue  *)
(* drops the notice.                                                       *)
ClipCreated(a, origin) ==
  /\ clips < MaxClips /\ clips' = clips + 1
  /\ IF Len(queue) < QueueCap
     THEN /\ queue' = Append(queue, [clip |-> clips', account |-> a, origin |-> origin])
          /\ owed' = owed \union
               ({clips'} \X {d \in Eligible(a, origin) : tokens[d] = current[PhoneOf(d)]})
     ELSE UNCHANGED <<queue, owed>>
  /\ UNCHANGED <<server, app, pc, notice, list, refused, overlooked, events, faults>>

-----------------------------------------------------------------------------
(* The notifier.                                                           *)

TakeNotice ==
  /\ pc = "wait" /\ queue # <<>>
  /\ notice' = Head(queue) /\ queue' = Tail(queue) /\ pc' = "load"
  /\ UNCHANGED <<server, app, list, refused, owed, overlooked, clips, events, faults>>

(* APNsTokensForUser, once for the notice.                                 *)
LoadTokens ==
  /\ pc = "load" /\ pc' = "send"
  /\ list' = {[device |-> d, token |-> tokens[d]] : d \in Eligible(notice.account, notice.origin)}
  /\ UNCHANGED <<server, app, queue, notice, refused, owed, overlooked, clips, events, faults>>

LoadFails ==
  /\ pc = "load" /\ pc' = "wait" /\ Fault
  /\ notice' = NoNotice /\ owed' = {o \in owed : o[1] # notice.clip}
  /\ UNCHANGED <<server, app, queue, list, refused, overlooked, clips, events>>

\* APNs takes the token of entry e.
Valid(e) == e.token = current[PhoneOf(e.device)]

\* e, whichever the database returned next, was tried: nobody waits for it.
Tried(e) ==
  /\ pc = "send" /\ e \in list
  /\ list' = list \ {e}
  /\ owed' = owed \ {<<notice.clip, e.device>>}

Send(e) ==
  /\ Tried(e) /\ Valid(e)
  /\ UNCHANGED <<server, app, queue, pc, notice, refused, overlooked, clips, events, faults>>

\* Mutant: an error ends the notice.
SendAborts(e) ==
  /\ pc = "send" /\ e \in list /\ Fault
  /\ list' = {} /\ owed' = owed \ {<<notice.clip, e.device>>}
  /\ UNCHANGED <<server, app, queue, pc, notice, refused, overlooked, clips, events>>

(* No answer in 10 seconds, or one that says nothing of the token: next.   *)
SendFails(e) ==
  /\ Tried(e) /\ Fault
  /\ UNCHANGED <<server, app, queue, pc, notice, refused, overlooked, clips, events>>

(* 400 or 410, with a reason that is about the token.                      *)
Refuse(e) ==
  /\ pc = "send" /\ e \in list /\ ~Valid(e)
  /\ refused' = {e} /\ pc' = "prune"
  /\ UNCHANGED <<server, app, queue, notice, list, owed, overlooked, clips, events, faults>>

\* Mutant: whatever token the phone has by now is deleted.
PrunePhone ==
  /\ pc = "prune" /\ pc' = "send"
  /\ \E e \in refused :
       /\ tokens' = Without({d \in Device : PhoneOf(d) = PhoneOf(e.device)})
       /\ list' = list \ {e}
  /\ refused' = {} /\ owed' = OwedAfter(tokens')
  /\ UNCHANGED <<alive, valid, requests, app, queue, notice, overlooked, clips, events, faults>>

\* Mutant: a token that was refused is tried again.
PruneAndRetry ==
  /\ pc = "prune" /\ pc' = "send"
  /\ \E e \in refused : tokens' = Without(Having(PhoneOf(e.device), e.token))
  /\ refused' = {} /\ owed' = OwedAfter(tokens')
  /\ UNCHANGED <<alive, valid, requests, app, queue, notice, list, overlooked, clips, events, faults>>

(* DeleteAPNsTokenValue: the token APNs refused, whoever has it by now.    *)
Prune ==
  /\ pc = "prune" /\ pc' = "send"
  /\ \E e \in refused :
       /\ tokens' = Without(Having(PhoneOf(e.device), e.token))
       /\ list' = list \ {e}
  /\ refused' = {} /\ owed' = OwedAfter(tokens')
  /\ UNCHANGED <<alive, valid, requests, app, queue, notice, overlooked, clips, events, faults>>

Done ==
  /\ pc = "send" /\ list = {} /\ pc' = "wait"
  /\ notice' = NoNotice
  /\ UNCHANGED <<server, app, queue, list, refused, owed, overlooked, clips, events, faults>>

(* The server is restarted: the queue was memory.                          *)
Restart ==
  /\ Fault
  /\ requests' = {} /\ queue' = <<>> /\ pc' = "wait"
  /\ notice' = NoNotice /\ list' = {} /\ refused' = {}
  /\ owed' = {}
  /\ UNCHANGED <<tokens, alive, valid, app, overlooked, clips, events>>

-----------------------------------------------------------------------------
App(p) ==
  \/ \E a \in Account : SignIn(p, a)
  \/ Launch(p) \/ Renew(p) \/ Upload(p) \/ SignOut(p) \/ Unregister(p) \/ Logout(p)

Handler ==
  \/ \E r \in requests : Admit(r) \/ Store(r) \/ Fail(r)
  \/ \E d \in Device : RevokeDevice(d) \/ Expire(d)
  \/ \E a \in Account : ClipCreated(a, Desk)
  \/ \E d \in alive : ClipCreated(d[2], d)

Notifier ==
  \/ TakeNotice \/ LoadTokens \/ Prune \/ Done
  \/ \E e \in Entry : Send(e) \/ Refuse(e)

Next ==
  \/ \E p \in Phone : App(p)
  \/ Handler \/ Notifier
  \/ LoadFails \/ (\E e \in Entry : SendFails(e)) \/ Restart

Spec == Init /\ [][Next]_vars

(* The notifier's goroutine runs, and every send ends within 10 seconds.   *)
FairSpec == Spec /\ WF_vars(Notifier)
-----------------------------------------------------------------------------
(* A phone that was registered when a clip was created, and still is with  *)
(* the same valid token, is in the way to its wake-up: the notice is in    *)
(* the queue, or the phone in what is left of the list. Errors for other   *)
(* phones, tokens that come and go, sign-ins and sign-outs lose none;      *)
(* only a full queue, a restart, a failed read or its own failed send do.  *)
WakeUpsKept ==
  \A o \in owed :
    \/ \E i \in DOMAIN queue : queue[i].clip = o[1]
    \/ /\ notice.clip = o[1]
       /\ pc = "load" \/ \E e \in list : e.device = o[2]

(* server/README.md: tokens are bound to the authenticated device and      *)
(* removed when it is revoked; the app removes its token when it signs     *)
(* out. A token is left to a device that its phone has left, or that was   *)
(* valid, only if the removal at the sign-out failed, or an upload of    *)
(* the token was under way beside it (push_tokens.go:29-60 looks at the    *)
(* device without a lock, and the app uploads in a task of its own).       *)
OnlyOverlookedTokens ==
  \A d \in Device :
    tokens[d] # 0 => \/ d = DeviceOf(PhoneOf(d)) /\ d \in valid
                     \/ d \in overlooked

(* The notifier works from a list that may be old. What it deletes for a   *)
(* refused token is never a phone's newest token, which may have been      *)
(* uploaded in the meantime.                                               *)
NewTokenKept ==
  [][pc = "prune" /\ pc' = "send" =>
       \A d \in Device : tokens[d] = current[PhoneOf(d)] => tokens'[d] = tokens[d]]_vars

(* Every wake-up is sent or given up in the end: one dead token or one     *)
(* send that times out does not keep the notices behind it.                *)
WakeUpsEnd == []<>(owed = {})
=============================================================================
