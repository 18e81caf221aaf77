# share_clipboard in TLA+

FastCopy (share_clipboard) copies text between the devices of one account. A Go
server stores end-to-end encrypted clips in PostgreSQL under a global sequence
number and announces them over WebSocket; a client per platform (Windows, macOS,
iOS, Android, a KernelSU daemon on rooted Android) uploads local copies, keeps the
last number it has handled as a cursor, and fetches what lies above it. This
directory holds the models of that system, the TLC runs over them, and the
machine-checked proofs. `PROJECT.json` maps every definition to its source lines.

## The system

| component | state | operations | how it is reached |
|---|---|---|---|
| clip store (`server/internal/store/clips.go`, `store.go`) | `clip_idempotency`, `clipboard_events`, the sequence | `CreateClip`, `ClipsAfter`, `AcknowledgeCursor`, hourly `Cleanup` | REST handlers |
| accounts, sessions, devices, roles (`store/auth.go`, `store/devices.go`) | `users`, `devices`, `auth_sessions` | register, login, authenticate, refresh, logout, revoke, change role | REST handlers, the middleware of every request |
| event hub (`hub/hub.go`, `api/websocket.go`) | connections per user and device, a bounded channel each | `Add`, `Remove`, `Publish`, `CloseDevice`, one handler and one writer per socket | `createClip`, `revokeDevice`, `logout` and the sockets |
| APNs notifier (`push/service.go`, `store/push_tokens.go`) | a queue of notices, the tokens of phones | register and remove a token, notify, send, drop a dead token | `createClip`, the app's requests, sign-out and revocation |
| KernelSU daemon (`android-kernelsu/daemon`) | `runtime.json` (session, key, cursor), the queue file, `lastDigest`, timer, `wake`, `pushedClips` | one select loop; a WebSocket goroutine; signals | REST, WebSocket, bridge |
| clipboard bridge (`daemon/bridge.go`, `ClipboardBridge.java`) | command pipe, result channel, event channel, `lastText` | `Set`, poll, restart | pipes of a child process |
| KernelSU utility commands, WebUI | the same files, `settings.json` | save, restart, sign out, device commands | `fastcopyctl`, a second process |
| Windows, macOS clients | state file, queue, cursor | watcher, upload loop, synchronisation, WebSocket loop | REST, WebSocket |
| iOS, Android clients | state, queue, cursor, foreground flag | the same, plus background and push | REST, WebSocket, APNs |
| client cryptography | key | derive, encrypt, decrypt | the clients |

What is hard in it:

- **Order.** A number is drawn inside a transaction that may commit after a later
  one. Publishing happens after the commit, outside every lock, one channel send at
  a time. Pushed clips overtake each other and race the pull.
- **Loss and retry.** Every answer may be lost after the server acted; a full
  channel drops; a socket closes with what was on it.
- **Crash and restart.** Cursor and queue are files, everything else is memory; the
  clipboard survives the daemon and the clipboard process.
- **Time.** Clips, receipts, sessions expire; `Set` gives up after five seconds;
  five different delays decide when work is taken up again.
- **Stale reads.** A session is checked when a request begins and revoked while it
  runs; a receipt is read one statement after the conflict with it; a list of tokens is
  worked off while tokens change; a task of the app goes on after its `await` with what
  it read before.
- **Change of account.** Queue, cursor, key and session belong together and are written
  one after the other, by two processes or by tasks of one actor.

What makes each component correct:

- *clip store*: one client event is one clip for as long as its receipt lasts,
  whatever retries race; a retry is answered with its own first clip; a clip never
  outlives the receipt that recognises it.
- *clip feed*: a reader that follows its cursor gets every clip.
- *hub*: between the pull at hello and the channel nothing is lost; who is online is
  shown correctly in the end; a revoked device has no connection left.
- *daemon*: the cursor passes only clips that were verified in the clipboard; local
  copies arrive once and in order; nothing is left lying without a wake-up or timer;
  what came from another device is not sent back.
- *accounts*: a revoked or rotated token opens nothing; there is one super
  administrator; no two requests wait on each other's rows for ever.
- *notifier*: a registered phone is woken or its wake-up is given up for a reason; a
  device that is gone leaves no token; the newest token is never pruned.
- *sessions of the KernelSU module*: no process spoils another's session; copies and
  cursor stay with the account they are of; a sign-out leaves nothing.
- *other clients*: as for the daemon, under their own concurrency.

## Modules

**`ClipLog`** is the abstract upload log: an entry per upload, a receipt for every
entry, positions never used twice. It knows no transaction, clock or retry.

**`ClipStore`** is the server's implementation. `tx[h]` is the transaction of one
request handler. Its steps are the statements of `CreateClip` under READ COMMITTED:
`BeginClip` (clock, begin, `nextval`, which no rollback returns), `ClaimEvent`
(`INSERT ... ON CONFLICT DO NOTHING`, which waits for an uncommitted row of the same
key), then either `StoreEvent` and `CommitClip` or `ReadReceipt` and
`AnswerDuplicate`; `RollbackClip` can strike at any of them. `SweepEvents` and
`SweepReceipts` are the two DELETEs of `Cleanup`, one snapshot each, one commit; the
first holds its rows locked until then. A payload is its digest; the event id is left
to the number drawn with it.

**`ClipFeed`** extends it with readers: `cursor` is a client's `last_seq`, `Pull` one
`GET /clips` and the advance to the page's last number. `overtaken` records the
numbers that became visible below a visible one.

**`EventHub`** models connections. `pc[c]` is where the handler `eventsWebSocket` of
connection `c` stands: token accepted, in the hub and about to announce its device,
about to send hello, reading and writing, about to say farewell. `Publish` fixes the
recipients under the hub's lock and leaves single sends in `mail`; `Send` is one of
them, and closes the client whose channel is full. A client pulls at hello and fetches
the list of devices again at events about devices, as `AppModel.swift` (macOS) and
`SyncEngine.cs` do.

**`DaemonSync`** is the KernelSU daemon with its bridge and its WebSocket goroutine.
`run` is the program counter of the one goroutine that owns queue and cursor, with the
page it is working on and the local cursor `top`; the channels `wake`, `pushed`,
`events`, `result` have the capacities of the code. The server is its log in commit
order, since `ClipFeed` deals with the rest. The clipboard process reads its commands
in order, remembers what it last saw (`polled` is `lastText`) and reports what differs.

**`ClipClient`** states what such a client promises, without rounds, pages, channels, retries or
restarts: a copy enters a queue, whose oldest goes when it is full; the oldest copy is stored, once
and behind all older ones, and leaves the queue; other devices post clips; a clip is written; the
cursor passes clips that were written. `DaemonSync` implements it: what the server has is read off
its log, the queue is the numbers of the copies in `pending`, `written` is `applied`. A lost answer is a
`Deliver` that keeps the queue, its repetition a `Confirm`, the end of a session a `Forget`.

**`Membership`** states what the server promises about accounts, devices, roles and
sessions, every request one step. **`DeviceAuth`** is the implementation: the
transactions of `auth.go` and `devices.go`. `req[h]` is the request of one handler and
the statement it is at, `held[h]` the row locks of its transaction with their modes
(`FOR UPDATE`, an update of other columns, the check of a foreign key), `Wanted` the
locks its next statement has to get first. What a transaction writes appears at its
commit, which the locks make the same; a lock that was waited for is followed by a new
look at the rows, as PostgreSQL does under READ COMMITTED. Refresh locks session, user, device;
sign-in device, sessions, user; revocation actor, target, sessions: they can wait in a
circle, of which `DeadlockDetected` is PostgreSQL's way out. `Cancel` rolls back at any
point. Expired tokens and wrong passwords only refuse (`Unauthorized`).

**`DaemonAccount`** is the session of the same daemon and the commands that change it:
`settings.json`, `runtime.json` and `pending.json` as `settings`, `runtime`, `pending`; one program
counter, `UserConfig` and `RuntimeState` for each of the two processes; `ctl` is the command of
`fastcopyctl` and the line it is at (write the settings, stop the daemon, run the utility, wait for
it, start the daemon). `main` starts afresh when the settings name another account (`AdoptAccount`,
`DropQueue`), `authenticate` signs in and saves session and settings in two writes, `withAuth`
refreshes after a 401 (`Unauthorized`, `Refresh`, `Refreshed`), and `logout` clears the three files
and then asks the server. A stop or a crash may fall between any two writes. What a round does with
clips is in `DaemonSync` and is two steps here.

**`PushNotify`** is the table of APNs tokens, the handlers that change it, the notifier and
the part of the app that registers. `UpsertAPNsToken` looks at the device
without a lock (`Admit`) and writes later (`Store`); the notifier takes a notice, reads its
list of tokens once, sends to one after the other and deletes a token that APNs
refuses (`Refuse`, `Prune`). `owed` remembers the wake-ups that registered phones wait for.

**`PhoneSync`** is `AppModel.swift` of the iOS app: one main actor, so an action is what runs between
two awaits. `flush` is the task in `flushPending`, `sync` the pass, or the pushed clip, under
way (others only set `resync`), `leaving` the sign-out that waits for its answers. `removeFirst`
after an await acts on whatever the queue is by then (`Uploaded`, `Trap`); a pass continues over a sign-out.

`MCClipFeed`, `MCDaemonSync`, `MCDeviceAuth`, `MCEventHub` and `MCPushNotify` give TLC the functions, the
sets of pairs and the symmetry that a `.cfg` cannot write. Definitions headed "Mutant" are variants of
the definition after them with a plausible bug; no specification uses them, and each property is
violated once one is put in place of the original.

The modules whose names end in **`Proofs`** hold the theorems about the module they are named after.

How they compose: `ClipFeed` runs the steps of `ClipStore` with readers beside them;
`DeviceAuth`, `ClipStore` and `DaemonSync` implement `Membership`, `ClipLog` and `ClipClient`. `EventHub`, `DaemonSync`,
`PushNotify` and `PhoneSync` each see the rest of the server as what the modules before them
establish: a log in commit order (`ClipFeed` says what else may happen), sessions that begin
and end (`DeviceAuth`), events that come or a connection that closes (`EventHub`), a
wake-up that comes or not (`PushNotify`).

## Runs

| run | instance | what it shows |
|---|---|---|
| `clipstore` | one upload id of one device, two payloads, two handlers, TTLs 2 and 3, five instants, three numbers | The store's invariants hold, it implements `ClipLog`, every upload is answered. Three numbers are one more than a retry racing its first attempt needs; five instants let clip and receipt expire one after the other and the upload be repeated. |
| `clipfeed` | two devices of one user, two handlers, three numbers, pages of one | A live clip is missed only if a higher number was visible when it committed; every other clip reaches all readers or expires. |
| `device_auth` | three devices of one account, one of a second that the limit of one user keeps out, two handlers, three tokens | Overlapping requests amount to one after another (`Membership`); every request ends; roles are checked at the moment they count; requests wait in a circle only through a refresh, which locks its session before its device, or through two administrators. Three devices are what two admins who revoke each other need beside the super admin; three tokens sign all of them in, or let a session be refreshed or replaced twice. |
| `hub` | three connections, two of one device, channels of two, one clip | Nothing falls between pull and socket; a wrong view of who is online always has its correction on the way. Two connections of one device are needed for first/last to differ, and with a capacity of two a channel fills. Symmetry exchanges the two connections of one device, which nothing distinguishes; no liveness is checked here. |
| `hub_live` | one connection per device, reused, one device that may be revoked or log out | Clips reach greeted connections; revocation closes every connection but late ones. |
| `daemon` | two texts, readable and garbled remote clips, two local copies, a queue and channels of one or two, one fault | The cursor passes verified clips only, and the daemon implements `ClipClient`: copies arrive once and in order, and leave the queue only as they should. Capacities of one make every "full" case happen at once. Symmetry exchanges the two texts, which nothing distinguishes; no liveness is checked here. |
| `daemon_live` | one local copy, two remote clips, small or large, one fault of any kind, slow confirmations and a locked screen included | The daemon catches up to the first page it cannot read whole, its queue drains, nothing that the bridge wrote is queued as a copy unless a locked screen hid it, and when the daemon sleeps for five minutes after a round that did not fail, nothing is left to do. |
| `daemon_slow_bridge` | the smallest that suffices | Violated: see findings. |
| `daemon_account` | two accounts, three commands, one copy, two faults | Daemon and utilities never use up each other's refresh token; copies and cursor stay with their account; a reported sign-out leaves nothing; the queue drains. Three commands are a sign-in, a change of account and one more; two faults let a stop fall on top of a lost answer. |
| `push` | a phone with two accounts and one with the first of them, a queue of one, two clips, two tokens, two uploads of tokens at a time, three sign-ins, sign-outs, launches, renewals or revocations, one fault | Wake-ups reach registered phones or are given up, tokens stay behind only in the ways named below, a fresh token survives the pruning of an old one. Two accounts on a phone let its token pass from one device to another. |
| `phone` | two accounts, two sign-ins, a queue of one, pages of one, one remote clip, two copies or refreshes, one move to the background, sign-out or kill, one loss | Cursor and newest clip go together, the newest clip is shown, copies are kept, the app comes to rest with nothing left to read, each but for the exceptions its property names. |
| `phone_resend` | one account, one copy, one loss | Violated: see findings. |

`hub` does not check deadlock because the server really has one: hello is sent into a
channel of 16 before `RunWriter` is started behind it (`websocket.go:49`), so
a handler whose channel other requests fill first blocks for ever, keeps its place in
the hub and keeps its device online. TLC reaches a state in which every handler of the
instance is stuck that way. No document states a bound it would contradict, so it is a
hazard in the list and not a finding. `push`, `phone` and `phone_resend` do not check it because
a server without requests and a phone without a user may stop.

### Bounds

`MaxSeq`, `MaxNow`, `MaxTokens`, `MaxClips`, `MaxCopies`, `MaxCommands`, `MaxRequests`, `MaxEvents`,
`MaxDemands`, `MaxSignIns`, `MaxMoves`, `MaxFaults` and `Ending` are bounds of the models and appear
only in guards. They end the instances, not the behaviours: after the last
fault, clip and tick everything else goes on. `DaemonSync` reserves numbers for the local
copies, so that a remote clip cannot use them up. A step of `Poll` is bounded by the
copies that are left. `Hiding`, `SlowBridge` and `Kind` say which disturbances an instance of `DaemonSync`
has, so that its runs can each afford some of them.

### Fairness

- `ClipStore`: handlers and the cleanup are goroutines blocked only on the database:
  weak fairness. Uploads and ticks are not fair.
- `ClipFeed`: a client keeps pulling (an event, a reconnect, a timer): weak fairness
  of `Pull`. Handlers are not fair; a clip that never commits is promised to nobody.
- `DeviceAuth`: strong fairness of a handler's statements, since a row lock goes to
  whoever waited longest; weak fairness of the deadlock detector.
- `EventHub`: handlers, writers, publishing loops and clients run on: weak fairness of
  each. Nobody has to connect, hang up or upload.
- `DaemonSync`: the goroutine's own steps, deliveries, the bridge and its restart
  are weakly fair (faults are limited by `MaxFaults`, and a request that is not lost is
  answered). The cases of Go's `select` are strongly fair: it picks at random among the
  ready ones, and a round in between disables the others. The user signs in again, or
  nothing could be promised after an expired session. The timer is fair only when it is short or a round has
  failed: without a failure, wake-ups alone must suffice, and `CatchesUp` would not
  notice a missing one if the five-minute reconciliation repaired it.
- `DaemonAccount`: weak fairness of the daemon, of the utility and of the script: processes run
  on, and a request is answered or given up within its time limit. No command has to be issued.
- `PushNotify`: weak fairness of the notifier's goroutine; a send ends within ten seconds. Nobody has
  to register, upload or copy.
- `PhoneSync`: weak fairness of the server's answers, of each task between its awaits, of events,
  the connection and the reconnection after five seconds. The user and the system owe nothing.

The liveness properties have the form `[]<>`: again and again the work is done. With a bounded
number of new demands that is the same as being done in the end, and it does not depend on naming each item.

### Assumptions

- A request's transaction ends before its clip expires (`RequestLimit < ClipTTL`; the
  default TTL is seven days). The server's and the database's clocks are one.
- SHA-256 and random identifiers do not collide.
- In `DeviceAuth` registration is enabled, no user is disabled, and nobody deletes rows.
- Disk writes of the clients succeed, each of them whole (`writeJSONAtomic`).
- In `DaemonSync` an upload is stored and visible in one step, number 1 was
  given to another account, and no clip expires. In `EventHub` a device has one
  session at a time and there is one user.
- In `DaemonAccount` there is one server URL, and commands are issued one after the other, as the WebUI does.
- In `PushNotify` APNs is configured and accepts a phone's newest token only.
- In `PhoneSync` sign-in is one step, since the app shows it only when signed out, and an
  expired access token is refreshed unseen.

## Findings

Two runs show a statement of the repository that the code does not keep:

1. `daemon_slow_bridge` - `Set` gives up after five seconds and takes the late `SET_OK` of that
   command for the answer to the next: the cursor passes a clip that was not confirmed, which
   `android-kernelsu/README.md:65-67` rules out.
2. `phone_resend` - `README.md:37` says that kept uploads are retried when the network is back. The
   iOS app calls `flushPending` for a new copy and for the user's refresh, and nowhere else.

Other deviations are named as exceptions in the properties that hold, each at its line:

- `OnlyOvertakenMissed`: numbers are drawn before the commit (`clips.go:52`). A clip that commits
  behind a higher number lies below the cursor of every reader that pulled in between, is ignored
  when pushed, and is never delivered to them.
- `OnlyLateStay`: a connection authenticated before a revocation and added to the hub after
  `CloseDevice` (`device_handlers.go:65`) stays until its token expires.
- `CatchesUp`: the daemon reads 1 MiB of an answer to a request for 200 clips of up to 256 KiB each
  (`api.go:176`); a page that is longer stops it until clips expire.
- `NoEcho`: behind a locked screen the clipboard process takes what it cannot read for an empty
  clipboard, and reports what the bridge itself wrote as a copy once it can
  (`ClipboardBridge.java:114`).
- `UploadsOwnCopies`: a change of account writes `runtime.json` and then `pending.json`
  (`main.go:54-57`); a stop between the two leaves the old account's copies to the new one.
- `SessionsEndForCause`: a rotation whose answer is lost, or cut off by a stop before it is saved,
  ends the session (`auth.go:336`).
- `OnlyOverlookedTokens`: an upload of a push token beside a sign-out or a revocation, or a removal
  that failed, leaves a token behind (`push_tokens.go:29-60`).
- `CopyKept`, `OwnStream` of `PhoneSync`: the queue is cut or emptied while its head is uploaded,
  and `removeFirst` then removes another copy, or ends the program on an empty queue
  (`AppModel.swift:348`). macOS (`AppModel.swift:368`) and Android (`ClipboardRepository.kt:369`)
  have the same lines.
- `LatestOfCursor`: a pass that spans a sign-out and a sign-in saves its cursor for the new account
  (`AppModel.swift:385-391`; `SyncEngine.cs:785` on Windows).
- `OnlyBetweenMissed`: the app does not pull at hello, so a clip stored between the last pull and
  the registration of the socket waits for the next event; a pass that failed leaves a request for
  another one lying.
- `NewestShown`: whoever joins a pass that a wake-up began inherits its leave not to write the
  clipboard.

One more is a trace of the model without a property: an authentication under way writes the settings it
began with over credentials just submitted (`daemon.go:293`; `android-kernelsu/README.md:30` says that a new
password is used once and removed). `ErasePassword` of `DaemonAccount` is the step.

## Proofs

The theorems hold for every value of the constants that the named assumptions allow: any number of
devices, accounts, handlers, connections, clips and faults. Each proof module defines an inductive
invariant `IInv`, a conjunction of named parts, has a lemma per part that says which steps preserve
it, and derives the properties from it. The invariants were checked by TLC on the instances of the
runs before they were proved.

**`ClipStoreProofs`** (`TTLAssumption`, `BoundAssumption`). `TypeOK`, `ClipHasReceipt` and
`AnswerIsTheUpload` are not inductive by themselves. `IInv` adds: receipts are unique by upload and by
number (`Keys`); numbers in use were drawn, and the number of a transaction that may
still store a clip is nobody else's answer (`Fresh`); a handler that holds an
idempotency row is the only one with that key and no receipt has it (`Claims`); an
open transaction is younger than `RequestLimit` (`Timely`), without which the receipt of
a commit could expire under a sweep in progress; a sweep has doomed every clip that
had expired when it began (`Sweeping`), without which its second DELETE could take a receipt and
leave the clip. `TypeCorrect`, `ReceiptCorrect`, `AnswerCorrect` follow; `ClaimCorrect` and
the action property `WindowCorrect` with one more argument each. `Refinement` is `Spec => ImplementsClipLog`:
committed rows are entries and receipts; the positions spent are the drawn numbers no open
transaction may still use. A commit is `Create`, an abandoned or duplicate upload `Skip`, a sweep `Forget`.

**`ClipFeedProofs`** (the same, `FeedAssumption` and `RequestLimit < ClipTTL`). The feed takes the
steps of the store (`FeedImplementsStore`), so its invariant is the store's and what readers add.
Numbers follow the clock (`Ordered`): a clip above the number of an open upload outlives that
upload. A reader whose cursor passed an open upload therefore did so for a clip that is still there
(`Cursors`), and whatever the upload stores is below a visible clip, that is, overtaken.

**`DeviceAuthProofs`** (`AuthAssumption`). The argument is locking: no two transactions hold strong locks on
one row (`Exclusive`), and what a request has looked at it holds locked until its commit (`Standing`, one
part per request), so it still holds when the writes appear. From that `OneSuperAdmin`,
`OneSessionPerDevice`, `ActedWithAuthority` and the refinement of `Membership`. `DeadlocksExplained` needs
the converse, that a request holds no other rows than these where it waits (`Holding`, an invariant beside
`IInv`). Then a sign-in that waits for sessions waits for a refresh, since only its own device's sessions
are locked by a sign-in or a revocation and those hold the device's row as well; one that waits for the
user waits for a refresh or a registration that only has to commit; what remains of a circle
without a refresh are rows of devices, which only administrators take one after the other.

**`EventHubProofs`** (`HubAssumption`). To the three properties `IInv` adds that a connection is in
the hub while its handler is between `Add` and `Remove`, and only an open one has a client that was
greeted or shown a list (`Opened`), and that events about clips are about committed ones
(`Committed`).

**`PushNotifyProofs`** (`PushAssumption`). A phone that waits for a wake-up is registered with its
newest token, and its notice is in the queue, at the notifier, or its entry in what is left of the
list (`Waiting`); tokens grow, and none stored or on its way is newer than the phone's (`Numbers`);
a refused token is older than the newest (`Refusing`), which is why pruning spares that one; what
has or may get a token is its phone's present account or overlooked (`Bound`).

**`DaemonAccountProofs`** (`AccountAssumption`). Daemon and utility take turns, because the script
stops the one and waits for the other (`Turns`); hence what a process has in memory is what the file
says (`Memory`), and what it writes back is nothing old. What the file says is all of one account
(`Belongings`); the server accepts one token of the account at most, and the newest that was saved
is the one in the file (`Sessions`), which is what makes a sign-out complete and a lost session
explicable; the queue is of the account in the file unless a start was cut off (`Queue`); `Leaving`
says how far a sign-out has come.

**`DaemonSyncProofs`** (`SyncAssumption`). The log is in the order of its numbers (`Ordered`) and
what is on the socket, in the channel and on the page is in it (`InLog`). A page has every clip
between the round's cursor and each clip on it, whether the server answered it or a pushed clip was
taken for the next one (`Consecutive`), so that passing its first clip passes no other. With
`~SlowBridge` - which `CursorAlwaysVerified` assumes and the first finding shows to be needed - a
command is out only while `Set` waits for it and an "ok" is the answer to that one (`Answering`);
hence the cursor passes what was written and read back. What the server stored was copied before all
that waits, but for the head of the queue, whose answer may have been lost (`Copies`). While no
screen was locked, `poll` has seen what is in the clipboard, so what it reports was put there by the
user (`Sights`).

`NothingForgotten` is no consequence of these. `Known` says, of a daemon whose last round did not fail
or that is in a whole round now (`Whole`), that copies wait only while the round is uploading, and
that while it is online with no wake-up pending every clip above the cursor is on the socket, in the
channel, or still ahead of the round: to be pulled, on its page, or on a page after it (`Ahead`). Each
of the ways to leave that state - a full channel, a new connection, an ignored pushed clip, an
enqueued copy, a socket that closes - sets the wake-up or a short timer, or begins a round.
The refinement of `ClipClient` (`DaemonImplementsClient`) assumes `~SlowBridge` for the step of the cursor, as
`CursorAlwaysVerified` does; `Commands` says that what the clipboard process is told to write is a clip of
the log, `Copies` that an upload not yet stored is newer than all that are. It implies `CopiesInOrder` and
`CopyKept`, which are proved for a slow bridge as well (`CopiesAlwaysInOrder`, `CopiesAlwaysKept`).

**`PhoneSyncProofs`** (`PhoneAssumption`). Whoever acts does so for a sign-in, and a pass is of the
session unless it went on from another account (`Sessions`). From the saved cursor to its own a pass has
left no clip out, and its newest is the newest of those (`Passing`), because a page has every
clip between the cursor and each clip on it; so `lastSeq` and `latest`, saved together, agree. A clip
above the cursor is on the page, behind a full page, on the connection, ahead of a read that is
under way or asked for, or excused (`Coming`); that a page leaves clips out only when it is full
(`PageFull`) is the one argument about numbers of clips. What was saved is shown, or its
acknowledgement awaited (`Showing`). While the queue was not displaced, the copy that is uploaded
is its head, under the session it was made in (`AtHead`).

Only model-checked: the liveness properties of the runs, since the prover handles neither fairness nor
ENABLED. Every invariant and every other action property or refinement that a passing run checks is proved.

## What is left

In the order in which it would add most:

1. `DesktopSync` - Windows and macOS. Their own hazards are a refused upload that stays at the head
   of the queue (`SyncEngine.cs:671`) and semaphores instead of an actor; the rest is what
   `PhoneSync` and `DaemonSync` check.
2. The Android app: coroutines under one operation mutex, a foreground service.
3. An abstract client for the phone. `ClipClient` is not it: the phone shows the newest clip only, and
   its cursor passes the others unseen.

## Not modelled

- The Windows, macOS and Android clients: they follow the protocol of `DaemonSync` and `PhoneSync`;
  what differs is named above.
- User interfaces, packaging and deployment; JSON, validation, password hashing, identifiers and
  cryptography beyond "can be decrypted or not".
- The login limiter: one short method under a mutex.
- Migrations, the HTTP server and configuration parsing beyond the check of the two TTLs.
- `AcknowledgeCursor`, whose stored number nothing reads, and `RenameDevice` and `TouchDevice`,
  which change what is only shown.
- The session rows that `Cleanup` deletes: they had expired, so no request accepts them.
- Of the iOS app: `sendCurrentClipboard`, `copyLatest`, the switch for synchronisation and the list
  of devices.
