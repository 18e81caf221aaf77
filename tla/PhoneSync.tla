----------------------------- MODULE PhoneSync ------------------------------
(***************************************************************************)
(* The iOS app (AppModel.swift): one main actor, whose tasks give way at   *)
(* each await. A task that uploads the queue, one that pulls and one that  *)
(* signs out go on beside pushed clips, wake-ups, a move to the background *)
(* and a sign-in to another account.                                       *)
(*                                                                         *)
(* Abstractions: a token is the number of its sign-in, an expired one is   *)
(* refreshed unseen; a clip is readable with the key of its account; the   *)
(* server numbers clips by their place in its log; synchronization is not  *)
(* switched off. Sign-in is one step: the app shows it when signed out.    *)
(***************************************************************************)
EXTENDS Naturals, Sequences, FiniteSetsExt

CONSTANTS
  Account,
  PendingCap,   \* uploads that are kept: 100
  PageLimit,    \* clips of an answer: 200
  MaxClips,     \* bound of the model: clips of other devices
  MaxDemands,   \* bound of the model: local copies and refreshes
  MaxSignIns,   \* bound of the model: sign-ins
  MaxMoves,     \* bound of the model: the user's and the system's other moves
  MaxFaults     \* bound of the model: lost requests and connections

None == "none"

ASSUME PhoneAssumption ==
  /\ None \notin Account
  /\ PendingCap \in Nat \ {0} /\ PageLimit \in Nat \ {0}
  /\ {MaxClips, MaxDemands, MaxSignIns, MaxMoves, MaxFaults} \subseteq Nat

VARIABLES
  log,         \* the server's clips
  over,        \* sign-ins whose session the server ended
  accounts,    \* the account of each sign-in
  session,     \* the sign-in whose secrets the app has, or 0
  lastSeq,     \* persisted: the cursor
  latest,      \* persisted: the newest clip of another device, or 0
  queue,       \* persisted: pendingUploads
  shown,       \* lastAppliedSequence, in memory
  shownSaved,  \* ... and persisted
  foreground,
  flush,       \* the task in flushPending
  sync,        \* the task in syncPass, or in handlePushedClip
  resync,      \* resyncRequested
  leaving,     \* logout awaits its requests
  socket,      \* "closed", "waiting" to reconnect, "opening", "open"
  wire,        \* events on the connection
  notice,      \* a wake-up by APNs is on its way; a newer one replaces it
  readAt,      \* history: the length of the log when it was last read
  excused,     \* history: clips not read by a failed pass or before the connection
  displaced,   \* history: the queue moved under an upload
  crossed,     \* history: a pass went on from one account to the next
  quiet,       \* history: a clip was saved in the foreground without being shown
  demands, moves, faults

persisted == <<session, lastSeq, latest, queue, shownSaved>>
tasks == <<flush, sync, resync, leaving>>
connection == <<socket, wire>>
history == <<readAt, excused, displaced, crossed, quiet>>
counts == <<demands, moves, faults>>
vars == <<log, over, accounts, persisted, shown, foreground, tasks, connection,
          notice, history, counts>>

Copy == [id : 1..MaxDemands, key : Account]
NoCopy == [id |-> 0, key |-> None]
Clip == [account : Account, key : Account, origin : {"me", "other"}, id : 0..MaxDemands]
SignIns == 1..MaxSignIns

NoFlush == [pc |-> "idle", copy |-> NoCopy, token |-> 0, then |-> FALSE]
NoPass == [pc |-> "idle", cursor |-> 0, page |-> {}, newest |-> 0,
           write |-> FALSE, then |-> "end", token |-> 0]

TypeOK ==
  /\ log \in Seq(Clip)
  /\ accounts \in Seq(Account) /\ over \subseteq DOMAIN accounts
  /\ session \in {0} \union (DOMAIN accounts \ over)
  /\ lastSeq \in 0..Len(log) /\ latest \in 0..Len(log)
  /\ queue \in Seq(Copy) /\ Len(queue) <= PendingCap
  /\ shown \in 0..Len(log) /\ shownSaved \in {0, shown}
  /\ foreground \in BOOLEAN /\ resync \in BOOLEAN /\ leaving \in BOOLEAN
  /\ flush \in [pc : {"idle", "sent", "stored"}, copy : Copy \union {NoCopy},
                token : 0..MaxSignIns, then : BOOLEAN]
  /\ sync \in [pc : {"idle", "sent", "page", "ack", "pushed"}, cursor : 0..Len(log),
               page : SUBSET DOMAIN log, newest : 0..Len(log), write : BOOLEAN,
               then : {"end", "connect", "cancelled"}, token : 0..MaxSignIns]
  /\ socket \in {"closed", "waiting", "opening", "open"}
  /\ wire \in Seq(DOMAIN log) /\ (wire # <<>> => socket = "open" /\ session # 0)
  /\ notice \in BOOLEAN /\ readAt \in 0..Len(log) /\ excused \subseteq DOMAIN log
  /\ {displaced, crossed, quiet} \subseteq BOOLEAN
  /\ demands \in 0..MaxDemands /\ moves \in 0..MaxMoves /\ faults \in 0..MaxFaults

Init ==
  /\ log = <<>> /\ over = {} /\ accounts = <<>>
  /\ session = 0 /\ lastSeq = 0 /\ latest = 0 /\ queue = <<>>
  /\ shown = 0 /\ shownSaved = 0 /\ foreground = TRUE
  /\ flush = NoFlush /\ sync = NoPass /\ resync = FALSE /\ leaving = FALSE
  /\ socket = "closed" /\ wire = <<>> /\ notice = FALSE
  /\ readAt = 0 /\ excused = {} /\ displaced = FALSE /\ crossed = FALSE /\ quiet = FALSE
  /\ demands = 0 /\ moves = 0 /\ faults = 0

Fault == faults < MaxFaults /\ faults' = faults + 1 /\ UNCHANGED <<demands, moves>>
Move == moves < MaxMoves /\ moves' = moves + 1 /\ UNCHANGED <<demands, faults>>

AccountOf(n) == IF n = 0 THEN None ELSE accounts[n]
Mine(i) == log[i].origin = "me" /\ log[i].account = AccountOf(session)
Remote(a) == {i \in DOMAIN log : log[i].account = a /\ log[i].origin = "other"}
Readable(i) == session # 0 /\ log[i].key = AccountOf(session)

-----------------------------------------------------------------------------
(* The server.                                                             *)

\* A clip of account a joins the log; the hub sends it to other devices.
RemoteClip(a) ==
  /\ Cardinality({i \in DOMAIN log : log[i].origin = "other"}) < MaxClips
  /\ log' = Append(log, [account |-> a, key |-> a, origin |-> "other", id |-> 0])
  /\ wire' = IF socket = "open" /\ AccountOf(session) = a THEN Append(wire, Len(log')) ELSE wire
  /\ notice' = (notice \/ AccountOf(session) = a)
  /\ UNCHANGED <<over, accounts, persisted, shown, foreground, tasks, socket, history, counts>>

\* Uploads are idempotent for a device, which is one of its account.
StoreUpload ==
  /\ flush.pc = "sent" /\ flush.token \notin over
  /\ LET a == accounts[flush.token]
         clip == [account |-> a, key |-> flush.copy.key, origin |-> "me", id |-> flush.copy.id]
     IN  log' = IF clip \in Range(log) THEN log ELSE Append(log, clip)
  /\ flush' = [flush EXCEPT !.pc = "stored"]
  /\ UNCHANGED <<over, accounts, persisted, shown, foreground, sync, resync, leaving,
                 connection, notice, history, counts>>

\* GET /v1/clips: at most PageLimit clips of the account above the cursor.
PageAfter(a, cursor) ==
  LET above == {i \in DOMAIN log : i > cursor /\ log[i].account = a}
  IN  {i \in above : Cardinality({j \in above : j <= i}) <= PageLimit}

ServePage ==
  /\ sync.pc = "sent" /\ sync.token \notin over
  /\ sync' = [sync EXCEPT !.pc = "page", !.page = PageAfter(accounts[sync.token], sync.cursor)]
  /\ readAt' = Len(log) /\ excused' = {}
  /\ UNCHANGED <<log, over, accounts, persisted, shown, foreground, flush, resync, leaving,
                 connection, notice, displaced, crossed, quiet, counts>>

-----------------------------------------------------------------------------
(* The queue.                                                              *)

\* flushPending takes the head of q, unless it is at work.
FlushPending(q, then) ==
  IF flush.pc = "idle" /\ q # <<>>
  THEN /\ flush' = [pc |-> "sent", copy |-> Head(q), token |-> session, then |-> then]
       /\ displaced' = FALSE
  ELSE UNCHANGED <<flush, displaced>>

\* The queue keeps the newest.
Kept(q) == IF Len(q) <= PendingCap THEN q ELSE Tail(q)

(* queueLocalText.                                                         *)
LocalCopy ==
  /\ session # 0 /\ foreground
  /\ demands < MaxDemands /\ demands' = demands + 1
  /\ LET all == Append(queue, [id |-> demands', key |-> AccountOf(session)])
     IN  /\ queue' = Kept(all)
         /\ IF flush.pc # "idle" /\ queue' # all
            THEN displaced' = TRUE /\ UNCHANGED flush
            ELSE FlushPending(queue', FALSE)
  /\ UNCHANGED <<log, over, accounts, session, lastSeq, latest, shown, shownSaved, foreground,
                 sync, resync, leaving, connection, notice, readAt, excused, crossed, quiet,
                 moves, faults>>

\* sync: a pass, or another one after the pass under way.
Sync(write, then) ==
  IF sync.pc # "idle" THEN resync' = TRUE /\ UNCHANGED sync
  ELSE /\ sync' = [NoPass EXCEPT !.pc = "sent", !.cursor = lastSeq', !.write = write,
                                 !.then = then, !.token = session']
       /\ resync' = FALSE

(* The queue was emptied in the meantime: removeFirst ends the program.    *)
Trap ==
  /\ flush.pc = "stored" /\ queue = <<>>
  /\ flush' = NoFlush /\ sync' = NoPass /\ resync' = FALSE /\ leaving' = FALSE
  /\ foreground' = FALSE /\ socket' = "closed" /\ wire' = <<>> /\ shown' = shownSaved
  /\ displaced' = FALSE
  /\ UNCHANGED <<log, over, accounts, persisted, notice, readAt, excused, crossed, quiet, counts>>

(* The answer takes the head away, whatever that is by now, and the next   *)
(* follows.                                                                *)
Uploaded ==
  /\ flush.pc = "stored" /\ queue # <<>>
  /\ queue' = Tail(queue)
  /\ displaced' = FALSE
  /\ IF queue' # <<>> /\ session # 0
     THEN flush' = [flush EXCEPT !.pc = "sent", !.copy = Head(queue'), !.token = session]
     ELSE flush' = NoFlush
  /\ UNCHANGED <<lastSeq, session>>
  /\ IF flush.then /\ queue' = <<>> /\ session # 0
     THEN Sync(foreground, "end") ELSE UNCHANGED <<sync, resync>>
  /\ UNCHANGED <<log, over, accounts, latest, shown, shownSaved, foreground, leaving,
                 connection, notice, readAt, excused, crossed, quiet, counts>>

(* 401: a session that was replaced is tried again with its successor, one *)
(* that is over cannot be refreshed.                                       *)
UploadUnauthorized ==
  /\ flush.pc = "sent" /\ flush.token \in over
  /\ flush' = IF session = 0 THEN NoFlush ELSE [flush EXCEPT !.token = session]
  /\ UNCHANGED <<log, over, accounts, persisted, shown, foreground, sync, resync, leaving,
                 connection, notice, history, counts>>

\* Mutant: a copy is tried once.
UploadForgotten ==
  /\ flush.pc # "idle" /\ Fault
  /\ flush' = NoFlush /\ queue' = IF queue = <<>> THEN queue ELSE Tail(queue)
  /\ UNCHANGED <<log, over, accounts, session, lastSeq, latest, shownSaved, shown, foreground,
                 sync, resync, leaving, connection, notice, history>>

(* The request or its answer is lost: the error is shown.                  *)
UploadLost ==
  /\ flush.pc # "idle" /\ Fault
  /\ flush' = NoFlush
  /\ UNCHANGED <<log, over, accounts, persisted, shown, foreground, sync, resync, leaving,
                 connection, notice, history>>

-----------------------------------------------------------------------------
(* Passes.                                                                 *)

\* connectSocket after a pass of the reconnect task.
Connects(pass) ==
  socket' = IF pass.then # "end" /\ socket \in {"closed", "waiting"} /\ foreground /\ session # 0
            THEN "opening" ELSE socket

\* A pass ends without an error, and goes round again if one was asked for.
PassEnds ==
  IF resync /\ session # 0
  THEN /\ sync' = [NoPass EXCEPT !.pc = "sent", !.cursor = lastSeq', !.write = sync.write,
                                 !.then = sync.then, !.token = session]
       /\ resync' = FALSE /\ UNCHANGED socket
  ELSE sync' = NoPass /\ resync' = FALSE /\ Connects(sync)

\* An error ends a pass; a request for another one is left lying.
PassFails ==
  /\ sync' = NoPass /\ UNCHANGED resync /\ Connects(sync)
  /\ excused' = DOMAIN log

\* The clip is written to the pasteboard.
Show(i) == shown' = i /\ shownSaved' = i /\ quiet' = FALSE

\* The newest clip that this device did not send.
Newest ==
  LET others == {i \in sync.page : ~Mine(i)}
  IN  IF others = {} THEN sync.newest ELSE Max(others)

Cursor == IF sync.page = {} THEN sync.cursor ELSE Max(sync.page)

\* Mutant: each page moves the cursor.
NextPageSaved ==
  /\ sync.pc = "page" /\ Cardinality(sync.page) = PageLimit
  /\ IF session = 0 THEN PassFails
     ELSE /\ sync' = [sync EXCEPT !.pc = "sent", !.cursor = Cursor, !.newest = Newest,
                                  !.page = {}, !.token = session]
          /\ UNCHANGED <<resync, socket, excused>>
  /\ lastSeq' = Cursor
  /\ UNCHANGED <<log, over, accounts, session, latest, queue, shownSaved, shown, foreground, flush,
                 leaving, wire, notice, readAt, displaced, crossed, quiet, counts>>

(* A full page: the next one.                                              *)
NextPage ==
  /\ sync.pc = "page" /\ Cardinality(sync.page) = PageLimit
  /\ IF session = 0 THEN PassFails
     ELSE /\ sync' = [sync EXCEPT !.pc = "sent", !.cursor = Cursor, !.newest = Newest,
                                  !.page = {}, !.token = session]
          /\ UNCHANGED <<resync, socket, excused>>
  /\ UNCHANGED <<log, over, accounts, persisted, shown, foreground, flush, leaving, wire,
                 notice, readAt, displaced, crossed, quiet, counts>>

\* latestText is set, and in the foreground the pasteboard, if the pass may.
ShowNewest(i) ==
  IF i = 0 THEN UNCHANGED <<shown, shownSaved, quiet>>
  ELSE IF sync.write /\ foreground THEN Show(i)
  ELSE quiet' = (quiet \/ foreground) /\ UNCHANGED <<shown, shownSaved>>

(* The last page: the newest clip is decrypted, then a cursor that moved   *)
(* is acknowledged.                                                        *)
LastPage ==
  /\ sync.pc = "page" /\ Cardinality(sync.page) < PageLimit
  /\ UNCHANGED lastSeq
  /\ IF session = 0 \/ (Newest # 0 /\ ~Readable(Newest))
     THEN PassFails /\ UNCHANGED <<shown, shownSaved, quiet>>
     ELSE /\ UNCHANGED excused
          /\ IF Cursor > lastSeq
             THEN /\ sync' = [sync EXCEPT !.pc = "ack", !.cursor = Cursor, !.newest = Newest,
                                          !.page = {}, !.token = session]
                  /\ UNCHANGED <<resync, socket, shown, shownSaved, quiet>>
             ELSE PassEnds /\ ShowNewest(Newest)
  /\ UNCHANGED <<log, over, accounts, session, latest, queue, foreground, flush, leaving, wire,
                 notice, readAt, displaced, crossed, counts>>

(* The acknowledgement's answer: only now is the cursor saved.             *)
Acknowledged ==
  /\ sync.pc = "ack" /\ sync.token \notin over
  /\ lastSeq' = sync.cursor
  /\ latest' = IF sync.newest = 0 THEN latest ELSE sync.newest
  /\ ShowNewest(sync.newest) /\ PassEnds
  /\ UNCHANGED <<log, over, accounts, session, queue, foreground, flush, leaving, wire,
                 notice, readAt, excused, displaced, crossed, counts>>

\* handlePushedClip ends: a pass that was asked for begins.
PushEnds ==
  IF resync /\ session # 0
  THEN /\ sync' = [NoPass EXCEPT !.pc = "sent", !.cursor = lastSeq, !.write = foreground,
                                 !.token = session]
       /\ resync' = FALSE
  ELSE sync' = NoPass /\ resync' = FALSE

(* A request of a pass is answered with 401, or lost.                      *)
PassUnauthorized ==
  /\ sync.pc \in {"sent", "ack", "pushed"} /\ sync.token \in over
  /\ IF session # 0
     THEN sync' = [sync EXCEPT !.token = session] /\ UNCHANGED <<resync, socket, excused>>
     ELSE IF sync.pc = "pushed" THEN PushEnds /\ UNCHANGED <<socket, excused>> ELSE PassFails
  /\ UNCHANGED <<log, over, accounts, persisted, shown, foreground, flush, leaving, wire,
                 notice, readAt, displaced, crossed, quiet, counts>>

PassLost ==
  /\ sync.pc \in {"sent", "page", "ack"}
  /\ IF sync.then = "cancelled" THEN UNCHANGED counts ELSE Fault
  /\ PassFails
  /\ UNCHANGED <<log, over, accounts, persisted, shown, foreground, flush, leaving, wire,
                 notice, readAt, displaced, crossed, quiet>>

-----------------------------------------------------------------------------
(* The connection.                                                         *)

(* The server knows the connection; what was stored since the last read    *)
(* and before is neither pushed nor pulled.                                *)
Connect ==
  /\ socket = "opening" /\ socket' = "open"
  /\ excused' = excused \union (readAt + 1)..Len(log)
  /\ UNCHANGED <<log, over, accounts, persisted, shown, foreground, tasks, wire, notice,
                 readAt, displaced, crossed, quiet, counts>>

\* Mutant: the connection stays down.
DisconnectForGood ==
  /\ socket \in {"opening", "open"} /\ Fault
  /\ socket' = "closed" /\ wire' = <<>>
  /\ UNCHANGED <<log, over, accounts, persisted, shown, foreground, tasks, notice, history>>

Disconnect ==
  /\ socket \in {"opening", "open"} /\ Fault
  /\ socket' = "waiting" /\ wire' = <<>>
  /\ UNCHANGED <<log, over, accounts, persisted, shown, foreground, tasks, notice, history>>

(* After five seconds: a pass, then the connection; both at once, if a     *)
(* pass is under way.                                                      *)
Reconnect ==
  /\ socket = "waiting"
  /\ UNCHANGED <<lastSeq, session>> /\ Sync(foreground, "connect")
  /\ socket' = IF sync.pc = "idle" THEN "closed" ELSE "opening"
  /\ UNCHANGED <<log, over, accounts, latest, queue, shownSaved, shown, foreground, flush,
                 leaving, wire, notice, history, counts>>

\* Mutant: a clip that comes during a pass is left to that pass.
DeferNothing == UNCHANGED <<sync, resync, lastSeq, latest>>

\* A clip that comes while a pass is under way asks for another one.
Defer == resync' = TRUE /\ UNCHANGED <<sync, lastSeq, latest>>

(* handlePushedClip: the next number is saved at once and acknowledged; a  *)
(* gap asks for a pass.                                                    *)
PushedClip ==
  /\ wire # <<>> /\ wire' = Tail(wire) /\ UNCHANGED session
  /\ LET i == Head(wire)
     IN  \/ sync.pc # "idle" /\ Defer
         \/ sync.pc = "idle" /\ i <= lastSeq /\ UNCHANGED <<sync, resync, lastSeq, latest>>
         \/ /\ sync.pc = "idle" /\ i = lastSeq + 1
            /\ lastSeq' = i /\ latest' = i
            /\ sync' = [NoPass EXCEPT !.pc = "pushed", !.newest = i, !.token = session]
            /\ UNCHANGED resync
         \/ /\ sync.pc = "idle" /\ i > lastSeq + 1
            /\ UNCHANGED <<lastSeq, latest>> /\ Sync(foreground, "end")
  /\ UNCHANGED <<log, over, accounts, queue, shownSaved, shown, foreground, flush,
                 leaving, socket, notice, history, counts>>

(* Its acknowledgement is answered.                                        *)
PushAcknowledged ==
  /\ sync.pc = "pushed" /\ sync.token \notin over
  /\ IF foreground THEN Show(sync.newest) ELSE UNCHANGED <<shown, shownSaved, quiet>>
  /\ PushEnds
  /\ UNCHANGED <<log, over, accounts, session, lastSeq, latest, queue, foreground, flush,
                 leaving, connection, notice, readAt, excused, displaced, crossed, counts>>

(* ... or lost: the clip was saved and is not shown.                       *)
PushLost ==
  /\ sync.pc = "pushed" /\ Fault
  /\ quiet' = (quiet \/ foreground)
  /\ PushEnds
  /\ UNCHANGED <<log, over, accounts, persisted, shown, foreground, flush, leaving,
                 connection, notice, readAt, excused, displaced, crossed>>

-----------------------------------------------------------------------------
(* The user and the system.                                                *)

\* Mutant: copies wait for the next sign-in.
ClearKeepingQueue == lastSeq' = 0 /\ latest' = 0 /\ shownSaved' = 0 /\ UNCHANGED queue

\* What was saved of an account.
ClearState == lastSeq' = 0 /\ latest' = 0 /\ shownSaved' = 0 /\ queue' = <<>>

(* authenticate, for another account or again.                             *)
SignIn(a) ==
  /\ session = 0 /\ foreground /\ Len(accounts) < MaxSignIns
  /\ accounts' = Append(accounts, a) /\ session' = Len(accounts')
  /\ over' = over \union {n \in DOMAIN accounts : accounts[n] = a}
  /\ ClearState
  /\ socket' = "opening" /\ Sync(foreground, "end")
  /\ crossed' = (sync.pc # "idle") /\ readAt' = 0 /\ excused' = {} /\ quiet' = FALSE
  /\ UNCHANGED <<log, shown, foreground, flush, leaving, wire, notice, displaced, counts>>

SignOut ==
  /\ session # 0 /\ ~leaving /\ leaving' = TRUE /\ Move
  /\ UNCHANGED <<log, over, accounts, persisted, shown, foreground, flush, sync, resync,
                 connection, notice, history>>

(* logout was answered, or not: the app forgets everything. Other tasks    *)
(* are not told.                                                           *)
SignedOut ==
  /\ leaving /\ leaving' = FALSE
  /\ \/ over' = over \union {session} /\ UNCHANGED counts
     \/ Fault /\ UNCHANGED over
  /\ session' = 0 /\ ClearState
  /\ socket' = "closed" /\ wire' = <<>> /\ notice' = FALSE
  /\ displaced' = (displaced \/ flush.pc # "idle")
  /\ UNCHANGED <<log, accounts, shown, foreground, flush, sync, resync, readAt, excused,
                 crossed, quiet>>

\* Mutant: what was pulled in the background is left there.
ForegroundOnly == UNCHANGED <<shown, shownSaved>> /\ quiet' = FALSE

\* applyPersistedRemote.
ApplyPersisted ==
  IF latest > shown /\ Readable(latest) THEN Show(latest)
  ELSE UNCHANGED <<shown, shownSaved>> /\ quiet' = FALSE

EnterForeground ==
  /\ ~foreground /\ foreground' = TRUE /\ UNCHANGED counts
  /\ IF session # 0
     THEN /\ socket' = IF socket = "closed" THEN "opening" ELSE socket
          /\ ApplyPersisted
          /\ UNCHANGED <<lastSeq, session>> /\ Sync(TRUE, "end")
     ELSE UNCHANGED <<socket, shown, shownSaved, quiet, sync, resync, lastSeq, session>>
  /\ UNCHANGED <<log, over, accounts, latest, queue, flush, leaving, wire, notice, readAt,
                 excused, displaced, crossed>>

(* closeSocket also cancels the reconnect task, in its pass perhaps.       *)
EnterBackground ==
  /\ foreground /\ foreground' = FALSE /\ Move
  /\ IF session # 0
     THEN /\ socket' = "closed" /\ wire' = <<>>
          /\ sync' = IF sync.then = "connect" THEN [sync EXCEPT !.then = "cancelled"] ELSE sync
     ELSE UNCHANGED <<connection, sync>>
  /\ UNCHANGED <<log, over, accounts, persisted, shown, flush, resync, leaving, notice, history>>

(* A wake-up by APNs, in the background or not: a pass that only saves.    *)
RemotePush ==
  /\ notice /\ notice' = FALSE /\ session # 0
  /\ UNCHANGED <<lastSeq, session>> /\ Sync(FALSE, "end")
  /\ UNCHANGED <<log, over, accounts, latest, queue, shownSaved, shown, foreground, flush,
                 leaving, connection, history, counts>>

(* refreshNow: the queue, and when it is empty or at work, a pass.         *)
RefreshNow ==
  /\ session # 0 /\ foreground
  /\ demands < MaxDemands /\ demands' = demands + 1
  /\ FlushPending(queue, TRUE) /\ UNCHANGED persisted
  /\ IF flush.pc # "idle" \/ queue = <<>> THEN Sync(foreground, "end")
     ELSE UNCHANGED <<sync, resync>>
  /\ UNCHANGED <<log, over, accounts, shown, foreground, leaving, connection,
                 notice, readAt, excused, crossed, quiet, moves, faults>>

(* The app is killed; launched again, it is in the background at first.    *)
Kill ==
  /\ Move
  /\ flush' = NoFlush /\ sync' = NoPass /\ resync' = FALSE /\ leaving' = FALSE
  /\ foreground' = FALSE /\ socket' = "closed" /\ wire' = <<>> /\ shown' = shownSaved
  /\ displaced' = FALSE
  /\ UNCHANGED <<log, over, accounts, persisted, notice, readAt, excused, crossed, quiet>>

-----------------------------------------------------------------------------
Server == (\E a \in Account : RemoteClip(a)) \/ StoreUpload \/ ServePage

Tasks ==
  \/ Trap \/ Uploaded \/ UploadUnauthorized
  \/ NextPage \/ LastPage \/ Acknowledged \/ PassUnauthorized
  \/ PushedClip \/ PushAcknowledged \/ Connect \/ Reconnect \/ SignedOut

User ==
  \/ LocalCopy \/ SignOut \/ EnterForeground \/ EnterBackground \/ RefreshNow \/ Kill
  \/ \E a \in Account : SignIn(a)

Next == Server \/ Tasks \/ User \/ RemotePush
          \/ UploadLost \/ PassLost \/ PushLost \/ Disconnect

Spec == Init /\ [][Next]_vars

(* Requests are answered or time out, and the main actor runs its tasks.   *)
FairSpec ==
  /\ Spec
  /\ WF_vars(StoreUpload) /\ WF_vars(ServePage)
  /\ WF_vars(Trap \/ Uploaded \/ UploadUnauthorized)
  /\ WF_vars(NextPage \/ LastPage \/ Acknowledged \/ PassUnauthorized \/ PushAcknowledged)
  /\ WF_vars(PushedClip) /\ WF_vars(Connect) /\ WF_vars(Reconnect) /\ WF_vars(SignedOut)
-----------------------------------------------------------------------------
(* The cursor and the newest clip are saved together: whatever was pulled, *)
(* pushed, lost or killed, the saved clip is the newest of other devices   *)
(* up to the cursor, so that no clip is passed without being the one to    *)
(* show - unless a pass went on from one account to the next, whose cursor *)
(* it then saves (AppModel.swift:385-391).                                 *)
LatestOfCursor ==
  session # 0 /\ ~crossed =>
    latest = Max({0} \union {i \in Remote(AccountOf(session)) : i <= lastSeq})

\* Nothing is under way that could still bring a clip.
Settled ==
  session # 0 /\ foreground /\ socket = "open" /\ wire = <<>> /\ sync.pc = "idle"

(* README.md: REST pulls make up for lost, reordered and missing events.   *)
(* A connected phone at rest lacks a clip only if a pass failed, or if the *)
(* clip was stored after the last pull and before the server knew the      *)
(* connection: unlike other clients the app does not pull at hello.        *)
OnlyBetweenMissed ==
  Settled /\ ~crossed =>
    \A i \in Remote(AccountOf(session)) : i <= lastSeq \/ i \in excused

(* ios/README.md: in the foreground the app applies what it pulled. It     *)
(* does, except after a pass that a wake-up began, which keeps from        *)
(* writing for those who join it, or a lost acknowledgement.               *)
NewestShown ==
  foreground /\ session # 0 /\ sync.pc = "idle" /\ ~crossed => latest <= shown \/ quiet

(* A copy leaves the queue when the server has it, by overflow or at a     *)
(* sign-out. Only if the queue moved under an upload, another copy goes    *)
(* (AppModel.swift:348).                                                   *)
CopyKept ==
  [][Len(queue') < Len(queue) /\ session' = session =>
       \/ displaced
       \/ \E i \in DOMAIN log : log[i].origin = "me" /\ log[i].id = Head(queue).id]_vars

(* What is uploaded under an account can be read there: its key is that of *)
(* the account, unless the session was replaced under an upload.           *)
OwnStream ==
  [][Len(log') > Len(log) =>
       displaced \/ log'[Len(log')].key = log'[Len(log')].account]_vars

(* After any loss a phone in the foreground comes to rest again, connected *)
(* and with nothing left to read.                                          *)
Settles == []<>(Settled \/ session = 0 \/ ~foreground)

(* README.md:37: uploads are kept and tried again when the network is      *)
(* back. Nothing does: only another copy or the user's refresh.            *)
CopiesSent == []<>(queue = <<>> \/ session = 0 \/ ~foreground)
=============================================================================
