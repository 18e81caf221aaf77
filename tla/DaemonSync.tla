----------------------------- MODULE DaemonSync -----------------------------
(***************************************************************************)
(* The KernelSU daemon (android-kernelsu/daemon): one goroutine that       *)
(* uploads the queue of local copies, fetches and applies the clips of the *)
(* other devices, and owns cursor and queue; the bridge to the clipboard   *)
(* process, whose confirmations come on their own; the WebSocket goroutine *)
(* that feeds pushed clips and wake-ups to it.                             *)
(*                                                                         *)
(* Abstractions: the server is its log, numbers in commit order (ClipFeed  *)
(* has the rest), no clip expires; a request and its answer are one step   *)
(* unless the answer is lost; a write to disk succeeds, so what is saved   *)
(* and what is in memory is one variable; a text stands for its digest.    *)
(***************************************************************************)
EXTENDS Integers, Sequences, FiniteSets, Functions

CONSTANTS
  Self,        \* DeviceID of this daemon
  Other,       \* another device of the user, # Self
  Text,        \* clipboard texts
  Kind,        \* kinds of remote clips: subset of {"small", "large", "garbled"}
  PageLimit,   \* `limit` of GET /clips
  ReadLimit,   \* what LimitReader lets through of an answer, in small clips
  PushCap,     \* capacity of pushedClips
  PendingCap,  \* maxPendingEvents
  EventCap,    \* capacity of Bridge.events
  SlowBridge,  \* may a confirmation take longer than 5 seconds?
  Hiding,      \* may the clipboard read as empty while the screen is locked?
  MaxSeq,      \* bound of the model: the last number
  MaxCopies,   \* bound of the model: local copies
  MaxFaults    \* bound of the model: losses, failures, restarts

ASSUME SyncAssumption ==
  /\ Self # Other
  /\ PageLimit \in Nat \ {0} /\ PendingCap \in Nat \ {0} /\ {PushCap, EventCap} \subseteq Nat
  /\ Kind \subseteq {"small", "large", "garbled"}
  /\ SlowBridge \in BOOLEAN /\ Hiding \in BOOLEAN
  /\ MaxSeq \in Nat \ {0} /\ MaxCopies \in Nat /\ MaxFaults \in Nat

VARIABLES
  log,        \* the clips of this user on the server, in order
  head,       \* clipboard_event_seq
  copies,     \* local copies queued so far: the source of client_event_id
  signedIn,   \* the session is alive and the key is known
  cursor,     \* RuntimeState.LastSeq
  pending,    \* the queue of encrypted local copies
  digest,     \* lastDigest, or "none"
  run,        \* the daemon goroutine: where it is, its page and local cursor
  timer,      \* "short": a retry or the 30 seconds; "long": 5 minutes
  failed,     \* history: a round failed and no round was completed since
  wake,       \* the wake channel, capacity 1
  pushed,     \* the pushedClips channel
  online,     \* the WebSocket is connected
  wire,       \* clip.created messages on their way
  up,         \* the clipboard process runs (Bridge.writer # nil)
  inbox,      \* SET commands it has not executed
  result,     \* the setResults channel, capacity 1
  events,     \* the Bridge.events channel
  clipboard,  \* Android's clipboard, and who wrote it last
  polled,     \* ClipboardBridge.lastText
  applied,    \* history: numbers whose text the bridge wrote and read back
  locked,     \* history: a locked screen hid the clipboard or refused a write
  faults      \* how many things went wrong

server == <<log, head>>
queue == <<copies, pending>>
session == <<signedIn, cursor>>
round == <<run, timer, failed>>
socket == <<wake, pushed, online, wire>>
bridge == <<up, inbox, events, clipboard, polled, applied, locked>>

vars == <<server, queue, session, digest, round, socket, bridge, result, faults>>

Clip == [seq : 1..MaxSeq, origin : {Self, Other}, cid : Nat,
         text : Text, kind : {"small", "large", "garbled"}]
Writer == {"user", "bridge"}
Upload == [cid : Nat \ {0}, text : Text, by : Writer]
NoText == "none"
Event == [kind : {"ready", "init", "clip"}, text : Text \union {NoText}, by : Writer]

Phase == {"idle", "upload", "pull", "apply", "setting", "ack"}

TypeOK ==
  /\ log \in Seq(Clip) /\ head \in 1..MaxSeq
  /\ copies \in Nat /\ pending \in Seq(Upload)
  /\ Len(pending) <= PendingCap
  /\ signedIn \in BOOLEAN /\ wake \in BOOLEAN /\ online \in BOOLEAN /\ up \in BOOLEAN
  /\ cursor \in 0..head
  /\ digest \in Text \union {NoText} /\ polled \in Text \union {NoText}
  /\ clipboard \in [text : Text \union {NoText}, by : Writer]
  /\ run \in [pc : Phase, page : Seq(Clip), top : 0..MaxSeq, more : BOOLEAN, push : BOOLEAN]
  /\ timer \in {"short", "long"} /\ failed \in BOOLEAN
  /\ pushed \in Seq(Clip) /\ Len(pushed) <= PushCap
  /\ wire \subseteq Clip
  /\ inbox \in Seq(Clip)
  /\ result \in {"none", "ok", "retry"}
  /\ events \in Seq(Event) /\ Len(events) <= EventCap
  /\ applied \subseteq 1..MaxSeq /\ locked \in BOOLEAN
  /\ faults \in 0..MaxFaults

Idle == [pc |-> "idle", page |-> <<>>, top |-> 0, more |-> FALSE, push |-> FALSE]
Syncing == [Idle EXCEPT !.pc = "upload"]   \* syncOnce begins

Init ==
  /\ log = <<>> /\ head = 1            \* number 1 went to somebody else
  /\ copies = 0 /\ pending = <<>>
  /\ signedIn = TRUE /\ cursor = 0
  /\ digest = NoText /\ run = Syncing /\ timer = "short" /\ failed = FALSE
  /\ wake = FALSE /\ pushed = <<>> /\ online = FALSE /\ wire = {}
  /\ up = FALSE /\ inbox = <<>> /\ result = "none" /\ events = <<>>
  /\ clipboard = [text |-> NoText, by |-> "user"] /\ polled = NoText /\ applied = {}
  /\ locked = FALSE
  /\ faults = 0

Fault == faults < MaxFaults /\ faults' = faults + 1

\* A channel takes what fits.
Offer(ch, item, cap) == IF Len(ch) < cap THEN Append(ch, item) ELSE ch

\* Mutant: the server does not recognise a repeated client_event_id.
StoreAgain(u) ==
  /\ head < MaxSeq
  /\ head' = head + 1
  /\ log' = Append(log, [seq |-> head + 1, origin |-> Self, cid |-> u.cid,
                         text |-> u.text, kind |-> "small"])

(* CreateClip as the daemon sees it (ClipStore has its steps): an upload   *)
(* is stored once.                                                         *)
Store(u) ==
  IF \E c \in Range(log) : c.cid = u.cid THEN UNCHANGED server ELSE
    /\ head < MaxSeq
    /\ head' = head + 1
    /\ log' = Append(log, [seq |-> head + 1, origin |-> Self, cid |-> u.cid,
                           text |-> u.text, kind |-> "small"])

-----------------------------------------------------------------------------
(* Around the daemon.                                                      *)

(* Another device's clip commits and is published to the open socket.      *)
RemoteClip ==
  \E n \in head + 1 .. MaxSeq - MaxCopies, t \in Text, k \in Kind :
    LET c == [seq |-> n, origin |-> Other, cid |-> 0, text |-> t, kind |-> k]
    IN  /\ head' = n
        /\ log' = Append(log, c)
        /\ wire' = IF online THEN wire \union {c} ELSE wire
        /\ UNCHANGED <<queue, session, digest, round, wake, pushed, online, bridge,
                       result, faults>>

\* What the clipboard process emits of the clipboard c.
Sight(kind, c) == [kind |-> kind, text |-> c.text, by |-> c.by]

\* It emits what it sees, and remembers it.
Report(kind) ==
  /\ polled' = clipboard'.text
  /\ events' = Offer(events, Sight(kind, clipboard'), EventCap)

\* Bound of the model: there is room for one more copy.
MayCopy == copies + Len(SelectSeq(events, LAMBDA e : e.kind = "clip")) < MaxCopies

(* The user copies a text, and the listener polls.                         *)
LocalCopy ==
  \E t \in Text \ {clipboard.text} :
    /\ MayCopy
    /\ clipboard' = [text |-> t, by |-> "user"]
    /\ IF up /\ t # polled THEN Report("clip") ELSE UNCHANGED <<events, polled>>
    /\ UNCHANGED <<server, queue, session, digest, round, socket, up, inbox, applied, locked,
                   result, faults>>

(* poll sees a text that is not the last one it saw or wrote: one that an  *)
(* unlocked screen shows again, or one that an ignored write left there.   *)
Poll ==
  /\ up /\ clipboard.text \notin {NoText, polled} /\ MayCopy
  /\ UNCHANGED clipboard
  /\ Report("clip")
  /\ UNCHANGED <<server, queue, session, digest, round, socket, up, inbox, applied, locked,
                 result, faults>>

\* Mutant: hello asks for no round.
ConnectQuietly ==
  /\ signedIn /\ ~online
  /\ online' = TRUE
  /\ UNCHANGED <<server, queue, session, digest, round, wake, pushed, wire, bridge, result, faults>>

(* websocketLoop: a connection is made and hello arrives.                  *)
Connect ==
  /\ signedIn /\ ~online
  /\ online' = TRUE /\ wake' = TRUE
  /\ UNCHANGED <<server, queue, session, digest, round, pushed, wire, bridge, result, faults>>

(* The socket closes with what was on it.                                  *)
Disconnect ==
  /\ online /\ Fault
  /\ online' = FALSE /\ wire' = {} /\ wake' = TRUE
  /\ UNCHANGED <<server, queue, session, digest, round, pushed, bridge, result>>

\* Mutant: a clip that finds the channel full is dropped without a wake-up.
ReceiveQuietly(c) ==
  /\ c \in wire
  /\ wire' = wire \ {c}
  /\ pushed' = Offer(pushed, c, PushCap)
  /\ UNCHANGED <<server, queue, session, digest, round, wake, online, bridge, result, faults>>

(* clip.created arrives; concurrent handlers publish in any order.         *)
Receive(c) ==
  /\ c \in wire
  /\ wire' = wire \ {c}
  /\ pushed' = Offer(pushed, c, PushCap)
  /\ wake' = (wake \/ Len(pushed) >= PushCap)
  /\ UNCHANGED <<server, queue, session, digest, round, online, bridge, result, faults>>

\* READY, which asks for a round.
Ready == [kind |-> "ready", text |-> NoText, by |-> "user"]

\* Mutant: the first poll reports the clipboard as a copy.
StartReporting ==
  /\ ~up
  /\ up' = TRUE
  /\ \E hidden \in {FALSE, Hiding} :
       /\ locked' = (locked \/ (hidden /\ clipboard.text # NoText))
       /\ IF hidden \/ clipboard.text = NoText
          THEN events' = Offer(events, Ready, EventCap) /\ polled' = NoText
          ELSE /\ polled' = clipboard.text
               /\ events' = Offer(Offer(events, Ready, EventCap), Sight("clip", clipboard), EventCap)
  /\ UNCHANGED <<server, queue, session, digest, round, socket, inbox, clipboard, applied,
                 result, faults>>

(* runProcess starts: READY, and the first poll reports the clipboard as   *)
(* INIT. What it cannot read it takes for an empty clipboard.              *)
StartBridge ==
  /\ ~up
  /\ up' = TRUE
  /\ \E hidden \in {FALSE, Hiding} :
       /\ locked' = (locked \/ (hidden /\ clipboard.text # NoText))
       /\ IF hidden \/ clipboard.text = NoText
          THEN events' = Offer(events, Ready, EventCap) /\ polled' = NoText
          ELSE /\ polled' = clipboard.text
               /\ events' = Offer(Offer(events, Ready, EventCap), Sight("init", clipboard), EventCap)
  /\ UNCHANGED <<server, queue, session, digest, round, socket, inbox, clipboard, applied,
                 result, faults>>

\* emitSetResult: while a result waits to be fetched, a further one is lost.
EmitResult(r) == result' = IF result = "none" THEN r ELSE result

(* The clipboard process dies, with the commands it has not executed.      *)
StopBridge ==
  /\ up /\ Fault
  /\ up' = FALSE /\ inbox' = <<>> /\ polled' = NoText
  /\ EmitResult("retry")
  /\ UNCHANGED <<server, queue, session, digest, round, socket, events, clipboard, applied, locked>>

\* setText sets the clipboard and remembers the text.
Written == [text |-> Head(inbox).text, by |-> "bridge"]

(* setText: written, read back and equal: SET_OK.                          *)
WriteClipboard ==
  /\ inbox # <<>>
  /\ inbox' = Tail(inbox)
  /\ clipboard' = Written /\ polled' = Written.text
  /\ applied' = applied \union {Head(inbox).seq}
  /\ EmitResult("ok")
  /\ UNCHANGED <<server, queue, session, digest, round, socket, up, events, locked, faults>>

(* setText on a locked screen: SET_RETRY, the text cannot be read back. It *)
(* was written and is hidden, or ignored and yet remembered, or refused.   *)
RejectWrite ==
  /\ inbox # <<>> /\ Fault
  /\ inbox' = Tail(inbox)
  /\ \/ clipboard' \in {clipboard, Written} /\ polled' = Written.text
     \/ UNCHANGED <<clipboard, polled>>
  /\ locked' = TRUE /\ EmitResult("retry")
  /\ UNCHANGED <<server, queue, session, digest, round, socket, up, events, applied>>

-----------------------------------------------------------------------------
(* The daemon goroutine: Run's select, syncOnce and applyPushedClip.       *)

(* runSync from the timer. When it is "long" that is the reconciliation.   *)
TimerSync ==
  /\ run.pc = "idle"
  /\ run' = Syncing
  /\ UNCHANGED <<server, queue, session, digest, timer, failed, socket, bridge, result, faults>>

(* runSync from a wake-up.                                                 *)
WakeSync ==
  /\ run.pc = "idle" /\ wake
  /\ run' = Syncing /\ wake' = FALSE
  /\ UNCHANGED <<server, queue, session, digest, timer, failed, pushed, online, wire,
                 bridge, result, faults>>

(* NextDelay(syncReady), or of an outcome that is tried again soon.        *)
Delay(ok) == IF ok /\ online THEN "long" ELSE "short"

\* The round ends and the timer is set.
Finish(ok) ==
  /\ run' = Idle
  /\ timer' = Delay(ok)
  /\ failed' = IF ok THEN failed /\ run.push ELSE TRUE

(* The oldest copies go when the queue is longer than its limit.           *)
Enqueue(u) ==
  pending' = IF Len(pending) < PendingCap THEN Append(pending, u)
             ELSE Append(Tail(pending), u)

(* handleBridgeEvent. Without a key encryptText fails and the copy is lost *)
(* with its digest recorded.                                               *)
BridgeEvent ==
  /\ run.pc = "idle" /\ events # <<>>
  /\ events' = Tail(events)
  /\ LET e == Head(events)
         fresh == e.kind = "clip" /\ e.text # digest
     IN  /\ digest' = IF e.kind = "ready" THEN digest ELSE e.text
         /\ run' = IF e.kind = "init" \/ (fresh /\ ~signedIn) THEN run ELSE Syncing
         /\ IF fresh /\ signedIn
            THEN copies' = copies + 1 /\ Enqueue([cid |-> copies + 1, text |-> e.text, by |-> e.by])
            ELSE UNCHANGED queue
  /\ UNCHANGED <<server, session, timer, failed, socket, up, inbox, clipboard, polled, applied,
                 locked, result, faults>>

\* Mutant: a pushed clip is applied across a gap.
ActionAnyAhead(seq) == IF seq <= cursor THEN "ignore" ELSE "apply"

ActionForPushedClip(seq) ==
  IF seq <= cursor THEN "ignore" ELSE IF seq = cursor + 1 THEN "apply" ELSE "reconcile"

(* applyPushedClip takes the next pushed clip.                             *)
PushedClip ==
  /\ run.pc = "idle" /\ pushed # <<>>
  /\ pushed' = Tail(pushed)
  /\ LET c == Head(pushed)
         action == ActionForPushedClip(c.seq)
     IN  /\ run' = CASE action = "ignore" -> run
                     [] action = "apply" -> [pc |-> "apply", page |-> <<c>>, top |-> cursor,
                                             more |-> FALSE, push |-> TRUE]
                     [] action = "reconcile" -> Syncing
         /\ timer' = IF action = "ignore" THEN Delay(TRUE) ELSE timer
  /\ UNCHANGED <<server, queue, session, digest, failed, wake, online, wire, bridge,
                 result, faults>>

Uploading == run.pc = "upload" /\ pending # <<>>

\* Mutant: an upload that was answered stays in the queue.
UploadKept ==
  /\ Uploading /\ signedIn
  /\ Store(Head(pending))
  /\ UNCHANGED <<queue, session, digest, round, socket, bridge, result, faults>>

(* flushPending: the upload is answered and leaves the queue.              *)
UploadClip ==
  /\ Uploading /\ signedIn
  /\ Store(Head(pending))
  /\ pending' = Tail(pending)
  /\ UNCHANGED <<copies, session, digest, round, socket, bridge, result, faults>>

(* Its answer does not come; the server may have stored it.                *)
UploadLost ==
  /\ Uploading /\ signedIn /\ Fault
  /\ Store(Head(pending)) \/ UNCHANGED server
  /\ Finish(FALSE)
  /\ UNCHANGED <<queue, session, digest, socket, bridge, result>>

(* The queue is empty: synchronize begins.                                 *)
Uploaded ==
  /\ run.pc = "upload" /\ pending = <<>>
  /\ run' = [run EXCEPT !.pc = "pull"]
  /\ UNCHANGED <<server, queue, session, digest, timer, failed, socket, bridge, result, faults>>

\* The log is in the order of its numbers: the first n are not above `after`.
ClipsAfter(after) ==
  LET n == Cardinality({i \in DOMAIN log : log[i].seq <= after})
  IN  SubSeq(log, n + 1, IF n + PageLimit < Len(log) THEN n + PageLimit ELSE Len(log))

\* A large clip weighs two; an answer is cut off at ReadLimit and not decoded.
Fits(page) == Len(page) + Len(SelectSeq(page, LAMBDA c : c.kind = "large")) <= ReadLimit

(* GET /clips answers.                                                     *)
PullPage ==
  /\ run.pc = "pull" /\ signedIn
  /\ LET page == ClipsAfter(cursor)
     IN  IF Fits(page)
         THEN /\ run' = [pc |-> "apply", page |-> page, top |-> cursor,
                         more |-> Len(page) = PageLimit, push |-> FALSE]
              /\ UNCHANGED <<timer, failed>>
         ELSE Finish(FALSE)
  /\ UNCHANGED <<server, queue, session, digest, socket, bridge, result, faults>>

\* The page goes on behind its first clip.
Passed == [run EXCEPT !.pc = "apply", !.page = Tail(@),
                      !.top = IF Head(run.page).seq > @ THEN Head(run.page).seq ELSE @]

(* The next clip: one's own and one that cannot be decrypted are passed    *)
(* over.                                                                   *)
PassClip ==
  /\ run.pc = "apply" /\ run.page # <<>>
  /\ Head(run.page).origin = Self \/ Head(run.page).kind = "garbled"
  /\ run' = Passed
  /\ UNCHANGED <<server, queue, session, digest, timer, failed, socket, bridge, result, faults>>

(* Any other goes to the bridge (Set), whose absence ends the round.       *)
ApplyClip ==
  /\ run.pc = "apply" /\ run.page # <<>>
  /\ Head(run.page).origin # Self /\ Head(run.page).kind # "garbled"
  /\ result' = "none"
  /\ IF up THEN /\ run' = [run EXCEPT !.pc = "setting"]
                /\ inbox' = Append(inbox, Head(run.page))
                /\ UNCHANGED <<timer, failed>>
           ELSE Finish(FALSE) /\ UNCHANGED inbox
  /\ UNCHANGED <<server, queue, session, digest, socket, up, events, clipboard, polled, applied,
                 locked, faults>>

(* Set returns: the write was confirmed, or has to be tried again later.   *)
SetAnswered ==
  /\ run.pc = "setting" /\ result # "none"
  /\ result' = "none"
  /\ IF result = "ok"
     THEN run' = Passed /\ digest' = Head(run.page).text /\ UNCHANGED <<timer, failed>>
     ELSE Finish(FALSE) /\ UNCHANGED digest
  /\ UNCHANGED <<server, queue, session, socket, bridge, faults>>

(* Set gives up after 5 seconds; the command is still on its way.          *)
SetTimesOut ==
  /\ SlowBridge
  /\ run.pc = "setting" /\ result = "none" /\ Fault
  /\ Finish(FALSE)
  /\ UNCHANGED <<server, queue, session, digest, socket, bridge, result>>

\* What follows a page: the next one, or the end of the round.
NextPage ==
  IF run.more THEN run' = [Idle EXCEPT !.pc = "pull"] /\ UNCHANGED <<timer, failed>>
              ELSE Finish(TRUE)

(* The page is done: the cursor is saved before it is acknowledged.        *)
SaveCursor ==
  /\ run.pc = "apply" /\ run.page = <<>>
  /\ IF run.top > cursor
     THEN cursor' = run.top /\ run' = [run EXCEPT !.pc = "ack"] /\ UNCHANGED <<timer, failed>>
     ELSE NextPage /\ UNCHANGED cursor
  /\ UNCHANGED <<server, queue, signedIn, digest, socket, bridge, result, faults>>

(* POST /sync/ack answers. Nothing on the server reads what it stores.     *)
Acknowledge ==
  /\ run.pc = "ack" /\ signedIn
  /\ NextPage
  /\ UNCHANGED <<server, queue, session, digest, socket, bridge, result, faults>>

(* A page or an acknowledgement is lost.                                   *)
AnswerLost ==
  /\ run.pc \in {"pull", "ack"} /\ signedIn /\ Fault
  /\ Finish(FALSE)
  /\ UNCHANGED <<server, queue, session, digest, socket, bridge, result>>

\* A request of the daemon is due: an upload, a page, an acknowledgement.
Requesting == Uploading \/ run.pc \in {"pull", "ack"}

\* syncAuthRequired: tried again in 5 minutes.
SignedOut == run' = Idle /\ timer' = "long" /\ failed' = TRUE

(* withAuth: access and refresh token are refused: invalidateSession.      *)
Unauthorized ==
  /\ Requesting /\ signedIn /\ Fault
  /\ signedIn' = FALSE /\ cursor' = 0
  /\ SignedOut
  /\ online' = FALSE /\ wire' = {}
  /\ wake' \in {wake, wake \/ online}
  /\ UNCHANGED <<server, queue, digest, pushed, bridge, result>>

(* withAuth without a session: a password is required.                     *)
NeedsSignIn ==
  /\ Requesting /\ ~signedIn
  /\ SignedOut
  /\ UNCHANGED <<server, queue, session, digest, socket, bridge, result, faults>>

(* The process starts over with what it saved; the clipboard process ends  *)
(* with it.                                                                *)
Restart ==
  /\ run' = Syncing /\ timer' = "short" /\ failed' = FALSE /\ digest' = NoText
  /\ wake' = FALSE /\ pushed' = <<>> /\ online' = FALSE /\ wire' = {}
  /\ up' = FALSE /\ inbox' = <<>> /\ result' = "none" /\ events' = <<>> /\ polled' = NoText
  /\ UNCHANGED <<server, queue, cursor, clipboard, applied, locked>>

Crash == Fault /\ Restart /\ UNCHANGED signedIn

(* The user signs in in the WebUI, which restarts the daemon.              *)
SignIn == ~signedIn /\ signedIn' = TRUE /\ Restart /\ UNCHANGED faults

Working ==
  \/ UploadClip \/ Uploaded \/ PullPage \/ PassClip \/ ApplyClip \/ SetAnswered
  \/ SaveCursor \/ Acknowledge \/ NeedsSignIn

Failing ==
  \/ UploadLost \/ AnswerLost \/ Unauthorized \/ SetTimesOut \/ RejectWrite
  \/ StopBridge \/ Disconnect \/ Crash

Next ==
  \/ RemoteClip \/ LocalCopy \/ Poll
  \/ Connect \/ (\E c \in wire : Receive(c))
  \/ StartBridge \/ WriteClipboard
  \/ TimerSync \/ WakeSync \/ BridgeEvent \/ PushedClip
  \/ Working \/ Failing \/ SignIn

Spec == Init /\ [][Next]_vars

(* Requests and writes succeed but for MaxFaults; select takes every ready *)
(* channel in the end; the clipboard process is started again; the user    *)
(* signs in again. The 5 minute reconciliation is relied upon only where   *)
(* a round has failed: without failures the wake-ups have to do.           *)
FairSpec ==
  /\ Spec
  /\ WF_vars(Working) /\ WF_vars(SignIn)
  /\ WF_vars(\E c \in wire : Receive(c)) /\ WF_vars(StartBridge) /\ WF_vars(WriteClipboard)
  /\ SF_vars(WakeSync) /\ SF_vars(BridgeEvent) /\ SF_vars(PushedClip)
  /\ SF_vars((timer = "short" \/ failed) /\ TimerSync)

-----------------------------------------------------------------------------
Queued == {u.cid : u \in Range(pending)}

(* android-kernelsu/README.md: if verification fails, the server cursor is *)
(* left unchanged. Every readable clip of another device at or below the   *)
(* cursor was written to the clipboard and read back.                      *)
CursorVerified ==
  \A c \in Range(log) :
    c.seq <= cursor /\ c.origin # Self /\ c.kind # "garbled" => c.seq \in applied

(* Local copies reach the server in the order they were made, each once,   *)
(* whatever answers are lost and wherever the daemon is restarted.         *)
CopiesInOrder ==
  \A i, j \in DOMAIN log :
    log[i].origin = Self /\ log[j].origin = Self /\ i < j => log[i].cid < log[j].cid

(* A queued copy leaves the queue only once the server has it, or as the   *)
(* oldest of a full queue when a new copy comes.                           *)
CopyKept ==
  [][\A c \in Queued : c \notin {u.cid : u \in Range(pending')} =>
       \/ c \in {e.cid : e \in Range(log')}
       \/ Len(pending) = PendingCap /\ c = Head(pending).cid /\ copies' > copies]_vars

(* README.md: what was just synchronised to this device is filtered, so    *)
(* that devices do not send each other's copies round in a circle. Nothing *)
(* the bridge wrote to the clipboard waits to be uploaded as a copy, unless*)
(* a locked screen hid it from poll or ignored a write: poll takes what it *)
(* cannot read for an empty clipboard, and the old text for a new one.     *)
NoEcho == locked \/ \A u \in Range(pending) : u.by = "user"

(* A wake-up or a short timer stands for all that is to be done: when the  *)
(* daemon has gone to sleep for 5 minutes, no round having failed, nothing *)
(* waits to be uploaded, the socket is open, and every clip above the      *)
(* cursor is on it or in the channel.                                      *)
NothingForgotten ==
  run.pc = "idle" /\ timer = "long" /\ ~failed /\ ~wake =>
    /\ pending = <<>> /\ online
    /\ \A c \in Range(log) : c.seq <= cursor \/ c \in wire \union Range(pushed)

(* Again and again the cursor has passed every clip on the server, unless *)
(* the page that comes next is longer than what the daemon reads of an     *)
(* answer.                                                                 *)
CatchesUp == []<>(ClipsAfter(cursor) = <<>> \/ ~Fits(ClipsAfter(cursor)))

(* Again and again the queue is empty: every queued copy leaves it.        *)
CopiesDrain == []<>(pending = <<>>)
-----------------------------------------------------------------------------
(* The daemon as the client it is meant to be.                             *)
Cids(q) == [i \in 1..Len(q) |-> q[i].cid]
Readable(c) == c.origin # Self /\ c.kind # "garbled"

Client == INSTANCE ClipClient WITH
  Number <- 1..MaxSeq, Capacity <- PendingCap,
  made <- copies,
  queue <- Cids(pending),
  stored <- {[seq |-> c.seq, copy |-> c.cid] : c \in {d \in Range(log) : d.origin = Self}},
  posted <- {c.seq : c \in {d \in Range(log) : Readable(d)}},
  written <- applied,
  cursor <- cursor

(* The rounds over pages, pushed clips, uploads, retries and restarts, the *)
(* bridge and its answers amount to a client that loses nothing, sends     *)
(* nothing twice or out of order and passes nothing it has not written.    *)
ImplementsClient == Client!Spec
=============================================================================
