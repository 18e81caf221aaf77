-------------------------- MODULE DaemonSyncProofs --------------------------
(***************************************************************************)
(* Proofs about DaemonSync, for any texts, limits and capacities and any   *)
(* number of clips, copies and faults.                                     *)
(*                                                                         *)
(* What carries them: a page has every clip of the log from its `top` on   *)
(* (Consecutive), so that passing its clips one by one passes no other;    *)
(* with a prompt bridge a command is answered before the next one is given *)
(* (Answering); copies have growing numbers in log and queue together      *)
(* (Copies); on an unlocked screen poll has always seen what is in the     *)
(* clipboard (Sights); whoever leaves work behind sets a wake-up or a short*)
(* timer (Known).                                                          *)
(***************************************************************************)
EXTENDS DaemonSync, FiniteSetTheorems, SequenceTheorems, TLAPS

(* The log is in order; clips that are on their way or at work are in it.  *)
Ordered ==
  /\ \A i, j \in DOMAIN log : i < j => log[i].seq < log[j].seq
  /\ \A i \in DOMAIN log : log[i].seq <= head /\ log[i].cid <= copies
  /\ \A i \in DOMAIN log : log[i].origin = Self <=> log[i].cid # 0

InLog ==
  /\ wire \subseteq Range(log)
  /\ \A i \in DOMAIN pushed : pushed[i] \in Range(log)
  /\ \A i \in DOMAIN run.page : run.page[i] \in Range(log)
  /\ run.top <= head

\* n clips of the log are not above x, and they are the first n.
Reach(x, n) == \A i \in DOMAIN log : i <= n <=> log[i].seq <= x
Reached(x) == \E n \in 0..Len(log) : Reach(x, n)

(* The page at work goes on where the cursor of the round stands.          *)
Consecutive ==
  /\ Reached(cursor) /\ Reached(run.top)
  /\ run.pc \notin {"apply", "setting"} => run.page = <<>>
  /\ run.pc = "setting" => run.page # <<>>
  /\ \A i \in DOMAIN run.page, c \in Range(log) :
       run.top < c.seq /\ c.seq <= run.page[i].seq =>
         \E j \in DOMAIN run.page : j <= i /\ run.page[j] = c

\* What the bridge has to have written for a cursor of x.
Verified(x) ==
  \A c \in Range(log) : c.seq <= x /\ c.origin # Self /\ c.kind # "garbled" => c.seq \in applied

(* A command is at work only while Set waits for its answer.               *)
Answering ==
  ~SlowBridge =>
    /\ inbox # <<>> => run.pc = "setting" /\ inbox = <<Head(run.page)>> /\ result = "none"
    /\ run.pc = "setting" /\ result = "ok" => Head(run.page).seq \in applied
    /\ Verified(cursor) /\ Verified(run.top)

(* What is on the server was copied before what waits.                     *)
Copies ==
  /\ CopiesInOrder
  /\ \A i, j \in DOMAIN pending : i < j => pending[i].cid < pending[j].cid
  /\ \A i \in DOMAIN pending : pending[i].cid <= copies
  /\ \A i \in DOMAIN log, j \in DOMAIN pending : log[i].cid <= pending[j].cid

(* What the clipboard process has seen and reported.                       *)
Sights ==
  /\ \A i \in DOMAIN events : events[i].kind = "clip" => events[i].text \in Text
  /\ ~locked =>
       /\ up => polled = clipboard.text
       /\ \A i \in DOMAIN events : events[i].kind = "clip" => events[i].by = "user"
       /\ \A i \in DOMAIN pending : pending[i].by = "user"

\* No round failed, or a whole one is under way, which makes up for it.
Whole == ~failed \/ (run.pc # "idle" /\ ~run.push)

\* A clip above the cursor that is on its way or ahead of the round.
Ahead(c) ==
  \/ c \in wire \union Range(pushed)
  \/ run.pc \in {"upload", "pull"}
  \/ run.pc \in {"apply", "setting"} /\ (c.seq <= run.top \/ c \in Range(run.page) \/ run.more)
  \/ run.pc = "ack" /\ run.more

(* What is left to do is under way, or something will wake the daemon.     *)
Known ==
  /\ online => signedIn
  /\ run.pc = "idle" /\ ~failed /\ timer = "long" => online \/ wake
  /\ run.push => run.pc \in {"apply", "setting", "ack"} /\ ~run.more
  /\ Whole =>
       /\ pending # <<>> => run.pc = "upload"
       /\ online /\ ~wake => \A c \in Range(log) : c.seq <= cursor \/ Ahead(c)

(* The bridge is only told to write clips of the log that it may write.    *)
Commands == \A i \in DOMAIN inbox : inbox[i] \in Range(log) /\ Readable(inbox[i])

IInv == TypeOK /\ Ordered /\ InLog /\ Consecutive /\ Answering /\ Copies /\ Sights /\ Known
        /\ Commands

-----------------------------------------------------------------------------
(* Sequences that grow by one element or lose their first.                 *)
LEMMA OfferTypes ==
  ASSUME NEW S, NEW q \in Seq(S), NEW x \in S, NEW cap \in Nat, Len(q) <= cap
  PROVE  Offer(q, x, cap) \in Seq(S) /\ Len(Offer(q, x, cap)) <= cap
  BY DEF Offer

LEMMA OfferElements ==
  ASSUME NEW S, NEW q \in Seq(S), NEW x \in S, NEW cap \in Nat
  PROVE  \A i \in DOMAIN Offer(q, x, cap) :
           (i \in DOMAIN q /\ Offer(q, x, cap)[i] = q[i]) \/ Offer(q, x, cap)[i] = x
  BY DEF Offer

LEMMA TailElements ==
  ASSUME NEW S, NEW q \in Seq(S), q # <<>>
  PROVE  /\ Tail(q) \in Seq(S) /\ Len(Tail(q)) = Len(q) - 1
         /\ \A i \in DOMAIN Tail(q) : i + 1 \in DOMAIN q /\ Tail(q)[i] = q[i + 1]
         /\ 1 \in DOMAIN q /\ Head(q) = q[1] /\ Head(q) \in S
  OBVIOUS

LEMMA Appended ==
  ASSUME NEW S, NEW q \in Seq(S), NEW x \in S
  PROVE  /\ Append(q, x) \in Seq(S) /\ Len(Append(q, x)) = Len(q) + 1
         /\ DOMAIN Append(q, x) = DOMAIN q \union {Len(q) + 1} /\ Len(q) + 1 \notin DOMAIN q
         /\ \A i \in DOMAIN q : i <= Len(q) /\ Append(q, x)[i] = q[i]
         /\ Append(q, x)[Len(q) + 1] = x
  OBVIOUS

LEMMA Part ==
  ASSUME NEW S, NEW q \in Seq(S), NEW n \in Nat, NEW m \in Nat, m <= Len(q), n <= m
  PROVE  /\ SubSeq(q, n + 1, m) \in Seq(S) /\ DOMAIN SubSeq(q, n + 1, m) = 1..(m - n)
         /\ Len(SubSeq(q, n + 1, m)) = m - n
         /\ \A i \in 1..(m - n) : i + n \in DOMAIN q /\ SubSeq(q, n + 1, m)[i] = q[i + n]
<1>1. SubSeq(q, n + 1, m) \in Seq(S)
  OBVIOUS
<1>2. DOMAIN SubSeq(q, n + 1, m) = 1..(m - n)
  OBVIOUS
<1>3. \A i \in 1..(m - n) : i + n \in DOMAIN q
  OBVIOUS
<1>4. \A i \in 1..(m - n) : SubSeq(q, n + 1, m)[i] = q[i + n]
  OBVIOUS
<1>5. Len(SubSeq(q, n + 1, m)) = m - n
  OBVIOUS
<1>6. QED
  BY <1>1, <1>2, <1>3, <1>4, <1>5

(* What the server may answer to a request for a page: the clips from the  *)
(* cursor on.                                                              *)
LEMMA PageOfLog ==
  ASSUME TypeOK, NEW x, NEW n \in 0..Len(log), Reach(x, n)
  PROVE  /\ ClipsAfter(x) \in Seq(Clip)
         /\ Len(ClipsAfter(x)) = (IF n + PageLimit < Len(log) THEN n + PageLimit ELSE Len(log)) - n
         /\ \A i \in DOMAIN ClipsAfter(x) : i + n \in DOMAIN log /\ ClipsAfter(x)[i] = log[i + n]
<1> DEFINE m == IF n + PageLimit < Len(log) THEN n + PageLimit ELSE Len(log)
<1>1. log \in Seq(Clip) /\ Len(log) \in Nat /\ n \in Nat
  BY DEF TypeOK
<1>2. {i \in DOMAIN log : log[i].seq <= x} = 1..n
  BY <1>1 DEF Reach
<1>3. Cardinality(1..n) = n
  <2>1. Cardinality(1..n) = IF 1 > n THEN 0 ELSE n - 1 + 1
    BY <1>1, FS_Interval
  <2>2. QED
    BY <1>1, <2>1
<1>4. ClipsAfter(x) = SubSeq(log, n + 1, m)
  BY <1>2, <1>3 DEF ClipsAfter
<1>5. m \in Nat /\ m <= Len(log) /\ n <= m
  BY <1>1, SyncAssumption
<1>6. QED
  BY <1>1, <1>4, <1>5, Part

(* An upload is stored behind what is there, if it is new.                 *)
LEMMA StoreTypes ==
  ASSUME TypeOK, NEW u \in Upload, Store(u)
  PROVE  log' \in Seq(Clip) /\ head' \in 1..MaxSeq
<1>1. CASE UNCHANGED server
  BY <1>1 DEF server, TypeOK
<1>2. CASE head < MaxSeq /\ head' = head + 1
           /\ log' = Append(log, [seq |-> head + 1, origin |-> Self, cid |-> u.cid,
                                  text |-> u.text, kind |-> "small"])
  BY <1>2, SyncAssumption DEF TypeOK, Clip, Upload
<1>3. QED
  BY <1>1, <1>2 DEF Store

(* A round goes back to a state it may be in.                              *)
LEMMA RunTypes ==
  ASSUME TypeOK
  PROVE  /\ Idle \in [pc : Phase, page : Seq(Clip), top : 0..MaxSeq, more : BOOLEAN, push : BOOLEAN]
         /\ Syncing \in [pc : Phase, page : Seq(Clip), top : 0..MaxSeq, more : BOOLEAN, push : BOOLEAN]
         /\ [Idle EXCEPT !.pc = "pull"] \in
              [pc : Phase, page : Seq(Clip), top : 0..MaxSeq, more : BOOLEAN, push : BOOLEAN]
         /\ run.page # <<>> => Passed \in
              [pc : Phase, page : Seq(Clip), top : 0..MaxSeq, more : BOOLEAN, push : BOOLEAN]
<1>1. 0 \in 0..MaxSeq /\ <<>> \in Seq(Clip)
  BY SyncAssumption
<1>2. Idle \in [pc : Phase, page : Seq(Clip), top : 0..MaxSeq, more : BOOLEAN, push : BOOLEAN]
  BY <1>1 DEF Idle, Phase
<1>3. ASSUME run.page # <<>>
      PROVE Passed \in [pc : Phase, page : Seq(Clip), top : 0..MaxSeq, more : BOOLEAN, push : BOOLEAN]
  <2>1. run.page \in Seq(Clip)
    BY DEF TypeOK
  <2>2. Head(run.page) \in Clip /\ Tail(run.page) \in Seq(Clip)
    BY <1>3, <2>1, TailElements
  <2>3. Head(run.page).seq \in 0..MaxSeq
    BY <2>2, SyncAssumption DEF Clip
  <2>4. QED
    BY <2>2, <2>3 DEF Passed, TypeOK, Phase
<1>4. QED
  BY <1>2, <1>3 DEF Syncing, Phase

LEMMA FinishTypes ==
  ASSUME TypeOK, NEW ok \in BOOLEAN, Finish(ok)
  PROVE  /\ run' \in [pc : Phase, page : Seq(Clip), top : 0..MaxSeq, more : BOOLEAN, push : BOOLEAN]
         /\ timer' \in {"short", "long"} /\ failed' \in BOOLEAN
<1>1. run' = Idle /\ timer' \in {"short", "long"}
  BY DEF Finish, Delay
<1>2. failed' \in BOOLEAN
  BY DEF Finish, TypeOK
<1>3. QED
  BY <1>1, <1>2, RunTypes

LEMMA FaultTypes ==
  ASSUME TypeOK, Fault
  PROVE  faults' \in 0..MaxFaults
<1>1. faults \in Nat /\ MaxFaults \in Nat
  BY SyncAssumption DEF TypeOK
<1>2. QED
  BY <1>1 DEF Fault

LEMMA StoreGrows ==
  ASSUME TypeOK, NEW u, Store(u)
  PROVE  cursor \in 0..head'
<1>1. head \in Nat /\ cursor \in 0..head /\ (head' = head \/ head' = head + 1)
  BY SyncAssumption DEF Store, server, TypeOK
<1>2. QED
  BY <1>1

(* Every step keeps the types.                                             *)
LEMMA TypeStep ==
  ASSUME TypeOK, Ordered, InLog, Consecutive, Sights, [Next]_vars
  PROVE  TypeOK'
<1> USE DEF server, queue, session, round, socket, bridge
<1>1. CASE RemoteClip
  <2>1. PICK n \in head + 1 .. MaxSeq - MaxCopies, t \in Text, k \in Kind :
          LET c == [seq |-> n, origin |-> Other, cid |-> 0, text |-> t, kind |-> k]
          IN  head' = n /\ log' = Append(log, c)
              /\ wire' = IF online THEN wire \union {c} ELSE wire
    BY <1>1 DEF RemoteClip
  <2>2. n \in 1..MaxSeq /\ head < n
    BY SyncAssumption DEF TypeOK
  <2>3. [seq |-> n, origin |-> Other, cid |-> 0, text |-> t, kind |-> k] \in Clip
    BY <2>2, SyncAssumption DEF Clip
  <2>4. log' \in Seq(Clip) /\ wire' \subseteq Clip /\ head' \in 1..MaxSeq
    BY <2>1, <2>2, <2>3 DEF TypeOK
  <2>5. cursor \in 0..head'
    BY <2>1, <2>2 DEF TypeOK
  <2>6. QED
    BY <1>1, <2>4, <2>5 DEF RemoteClip, TypeOK
<1>2. CASE LocalCopy
  <2>1. PICK t \in Text \ {clipboard.text} :
          /\ clipboard' = [text |-> t, by |-> "user"]
          /\ IF up /\ t # polled THEN Report("clip") ELSE UNCHANGED <<events, polled>>
    BY <1>2 DEF LocalCopy
  <2>2. clipboard' \in [text : Text \union {NoText}, by : Writer]
    BY <2>1 DEF Writer
  <2>3. polled' \in Text \union {NoText}
    BY <2>1 DEF Report, TypeOK
  <2>4. Sight("clip", clipboard') \in Event
    BY <2>2 DEF Sight, Event
  <2>5. events' \in Seq(Event) /\ Len(events') <= EventCap
    BY <2>1, <2>4, OfferTypes, SyncAssumption DEF Report, TypeOK
  <2>6. QED
    BY <1>2, <2>2, <2>3, <2>5 DEF LocalCopy, TypeOK
<1>3. CASE Poll
  <2>1. clipboard' = clipboard /\ Report("clip")
    BY <1>3 DEF Poll
  <2>2. Sight("clip", clipboard') \in Event
    BY <2>1 DEF Sight, Event, TypeOK
  <2>3. events' \in Seq(Event) /\ Len(events') <= EventCap /\ polled' \in Text \union {NoText}
    BY <2>1, <2>2, OfferTypes, SyncAssumption DEF Report, TypeOK
  <2>4. QED
    BY <1>3, <2>1, <2>3 DEF Poll, TypeOK
<1>4. CASE Connect
  BY <1>4 DEF Connect, TypeOK
<1>5. CASE Disconnect
  <2>1. online' = FALSE /\ wire' = {} /\ wake' = TRUE /\ faults' \in 0..MaxFaults
    BY <1>5, FaultTypes DEF Disconnect
  <2>2. QED
    BY ZenonT(60), <1>5, <2>1 DEF Disconnect, TypeOK
<1>6. ASSUME NEW c \in wire, Receive(c) PROVE TypeOK'
  <2>1. c \in Clip /\ pushed' = Offer(pushed, c, PushCap)
    BY <1>6 DEF Receive, TypeOK
  <2>2. pushed' \in Seq(Clip) /\ Len(pushed') <= PushCap
    BY <2>1, OfferTypes, SyncAssumption DEF TypeOK
  <2>3. wire' \subseteq Clip /\ wake' \in BOOLEAN
    BY <1>6 DEF Receive, TypeOK
  <2>4. QED
    BY <1>6, <2>2, <2>3 DEF Receive, TypeOK
<1>7. CASE StartBridge
  <2>1. Ready \in Event /\ Sight("init", clipboard) \in Event
    BY DEF Ready, Sight, Event, Writer, TypeOK
  <2>2. Offer(events, Ready, EventCap) \in Seq(Event) /\ Len(Offer(events, Ready, EventCap)) <= EventCap
    BY <2>1, OfferTypes, SyncAssumption DEF TypeOK
  <2>3. /\ Offer(Offer(events, Ready, EventCap), Sight("init", clipboard), EventCap) \in Seq(Event)
        /\ Len(Offer(Offer(events, Ready, EventCap), Sight("init", clipboard), EventCap)) <= EventCap
    BY <2>1, <2>2, OfferTypes, SyncAssumption
  <2>4. events' \in Seq(Event) /\ Len(events') <= EventCap
    BY <1>7, <2>2, <2>3 DEF StartBridge
  <2>5. polled' \in Text \union {NoText} /\ locked' \in BOOLEAN /\ up' \in BOOLEAN
    BY <1>7, SyncAssumption DEF StartBridge, TypeOK
  <2>6. QED
    BY <1>7, <2>4, <2>5 DEF StartBridge, TypeOK
<1>8. CASE StopBridge
  <2>1. inbox' \in Seq(Clip) /\ polled' \in Text \union {NoText} /\ result' \in {"none", "ok", "retry"}
    BY <1>8 DEF StopBridge, EmitResult, TypeOK
  <2>2. QED
    BY ZenonT(60), <1>8, <2>1, FaultTypes DEF StopBridge, TypeOK
<1>9. CASE WriteClipboard \/ RejectWrite
  <2>1. inbox \in Seq(Clip) /\ inbox # <<>>
    BY <1>9 DEF WriteClipboard, RejectWrite, TypeOK
  <2>2. Head(inbox) \in Clip /\ Tail(inbox) \in Seq(Clip)
    BY <2>1, TailElements
  <2>3. Written \in [text : Text \union {NoText}, by : Writer] /\ Head(inbox).seq \in 1..MaxSeq
    BY <2>2 DEF Written, Writer, Clip
  <2>4. inbox' \in Seq(Clip) /\ result' \in {"none", "ok", "retry"}
    BY <1>9, <2>2 DEF WriteClipboard, RejectWrite, EmitResult, TypeOK
  <2>5. clipboard' \in [text : Text \union {NoText}, by : Writer] /\ polled' \in Text \union {NoText}
    BY <1>9, <2>3 DEF WriteClipboard, RejectWrite, TypeOK
  <2>6. applied' \subseteq 1..MaxSeq /\ locked' \in BOOLEAN /\ faults' \in 0..MaxFaults
    BY <1>9, <2>3, FaultTypes DEF WriteClipboard, RejectWrite, TypeOK
  <2>7. QED
    BY <1>9, <2>4, <2>5, <2>6 DEF WriteClipboard, RejectWrite, TypeOK
<1>10. CASE TimerSync \/ WakeSync
  BY ZenonT(60), <1>10, RunTypes DEF TimerSync, WakeSync, TypeOK
<1>11. CASE BridgeEvent
  <2> DEFINE e == Head(events)
  <2>1. e \in Event /\ events' \in Seq(Event) /\ Len(events') <= EventCap
        /\ (e.kind = "clip" => e.text \in Text)
    BY <1>11, TailElements, SyncAssumption DEF BridgeEvent, TypeOK, Sights
  <2>2. digest' \in Text \union {NoText}
    BY <1>11, <2>1 DEF BridgeEvent, Event, TypeOK
  <2>3. run' \in [pc : Phase, page : Seq(Clip), top : 0..MaxSeq, more : BOOLEAN, push : BOOLEAN]
    BY <1>11, RunTypes DEF BridgeEvent, TypeOK
  <2>4. copies' \in Nat /\ pending' \in Seq(Upload) /\ Len(pending') <= PendingCap
    <3>1. CASE UNCHANGED queue
      BY <3>1 DEF TypeOK
    <3>2. CASE e.kind = "clip" /\ copies' = copies + 1
               /\ Enqueue([cid |-> copies + 1, text |-> e.text, by |-> e.by])
      <4>1. [cid |-> copies + 1, text |-> e.text, by |-> e.by] \in Upload /\ copies' \in Nat
        BY <2>1, <3>2 DEF Upload, Event, TypeOK
      <4>2. CASE Len(pending) < PendingCap
        BY <3>2, <4>1, <4>2, Appended, SyncAssumption DEF Enqueue, TypeOK
      <4>3. CASE ~(Len(pending) < PendingCap)
        <5>1. pending \in Seq(Upload) /\ pending # <<>> /\ Len(pending) <= PendingCap
              /\ PendingCap \in Nat
          BY <4>3, SyncAssumption DEF TypeOK
        <5>2. Tail(pending) \in Seq(Upload) /\ Len(Tail(pending)) = Len(pending) - 1
          BY <5>1, TailElements
        <5>3. pending' = Append(Tail(pending), [cid |-> copies + 1, text |-> e.text, by |-> e.by])
          BY <3>2, <4>3 DEF Enqueue
        <5>4. pending' \in Seq(Upload) /\ Len(pending') = Len(Tail(pending)) + 1
          BY <4>1, <5>2, <5>3, Appended
        <5>5. QED
          BY <4>1, <5>1, <5>2, <5>4
      <4>4. QED
        BY <4>2, <4>3
    <3>3. QED
      BY <1>11, <3>1, <3>2 DEF BridgeEvent
  <2>5. QED
    BY <1>11, <2>1, <2>2, <2>3, <2>4 DEF BridgeEvent, TypeOK
<1>12. CASE PushedClip
  <2> DEFINE c == Head(pushed)
  <2>1. c \in Clip /\ pushed' \in Seq(Clip) /\ Len(pushed') <= PushCap
    BY <1>12, TailElements, SyncAssumption DEF PushedClip, TypeOK
  <2>2. <<c>> \in Seq(Clip) /\ cursor \in 0..MaxSeq
    BY <2>1, SyncAssumption DEF TypeOK
  <2>3. [pc |-> "apply", page |-> <<c>>, top |-> cursor, more |-> FALSE, push |-> TRUE] \in
          [pc : Phase, page : Seq(Clip), top : 0..MaxSeq, more : BOOLEAN, push : BOOLEAN]
    BY <2>2 DEF Phase
  <2>4. ActionForPushedClip(c.seq) \in {"ignore", "apply", "reconcile"}
    BY DEF ActionForPushedClip
  <2>5. run' \in [pc : Phase, page : Seq(Clip), top : 0..MaxSeq, more : BOOLEAN, push : BOOLEAN]
    BY <1>12, <2>3, <2>4, RunTypes DEF PushedClip, TypeOK
  <2>6. timer' \in {"short", "long"}
    BY <1>12 DEF PushedClip, Delay, TypeOK
  <2>7. UNCHANGED <<log, head, copies, pending, signedIn, cursor, digest, failed, wake, online, wire,
                  up, inbox, events, clipboard, polled, applied, locked, result, faults>>
    BY <1>12 DEF PushedClip
  <2>8. QED
    BY <2>1, <2>5, <2>6, <2>7 DEF TypeOK
<1>13. CASE UploadClip \/ UploadLost
  <2>1. pending \in Seq(Upload) /\ pending # <<>>
    BY <1>13 DEF UploadClip, UploadLost, Uploading, TypeOK
  <2>2. Head(pending) \in Upload /\ Tail(pending) \in Seq(Upload) /\ Len(Tail(pending)) = Len(pending) - 1
    BY <2>1, TailElements
  <2>3. log' \in Seq(Clip) /\ head' \in 1..MaxSeq
    BY <1>13, <2>2, StoreTypes DEF UploadClip, UploadLost, TypeOK
  <2>4. cursor \in 0..head'
    BY <1>13, StoreGrows DEF UploadClip, UploadLost, TypeOK
  <2>5. CASE UploadClip
    <3>1. Len(pending') <= PendingCap /\ pending' \in Seq(Upload)
      BY <2>1, <2>2, <2>5, SyncAssumption DEF UploadClip, TypeOK
    <3>2. QED
      BY <2>3, <2>4, <2>5, <3>1 DEF UploadClip, TypeOK
  <2>6. CASE UploadLost
    BY <2>3, <2>4, <2>6, FinishTypes, FaultTypes DEF UploadLost, TypeOK
  <2>7. QED
    BY <1>13, <2>5, <2>6
<1>14. CASE Uploaded
  BY ZenonT(60), <1>14 DEF Uploaded, Phase, TypeOK
<1>15. CASE PullPage
  <2>1. ClipsAfter(cursor) \in Seq(Clip)
    BY PageOfLog DEF Consecutive, Reached
  <2>2. [pc |-> "apply", page |-> ClipsAfter(cursor), top |-> cursor,
         more |-> Len(ClipsAfter(cursor)) = PageLimit, push |-> FALSE] \in
          [pc : Phase, page : Seq(Clip), top : 0..MaxSeq, more : BOOLEAN, push : BOOLEAN]
    BY <2>1, SyncAssumption DEF Phase, TypeOK
  <2>3. QED
    BY ZenonT(60), <1>15, <2>2, FinishTypes DEF PullPage, TypeOK
<1>16. CASE PassClip
  BY SMTT(60), <1>16, RunTypes DEF PassClip, TypeOK
<1>17. CASE ApplyClip
  <2>1. Head(run.page) \in Clip
    BY <1>17, TailElements DEF ApplyClip, TypeOK
  <2>2. inbox' \in Seq(Clip)
    <3>1. inbox \in Seq(Clip) /\ inbox' \in {inbox, Append(inbox, Head(run.page))}
      BY <1>17 DEF ApplyClip, TypeOK
    <3>2. QED
      BY <2>1, <3>1, Appended
  <2>3. run' \in [pc : Phase, page : Seq(Clip), top : 0..MaxSeq, more : BOOLEAN, push : BOOLEAN]
        /\ timer' \in {"short", "long"} /\ failed' \in BOOLEAN
    <3>1. CASE up
      BY <1>17, <3>1 DEF ApplyClip, Phase, TypeOK
    <3>2. CASE ~up
      BY <1>17, <3>2, FinishTypes DEF ApplyClip
    <3>3. QED
      BY <3>1, <3>2
  <2>4. QED
    BY <1>17, <2>2, <2>3 DEF ApplyClip, TypeOK
<1>18. CASE SetAnswered
  <2>1. run.page # <<>>
    BY <1>18 DEF SetAnswered, Consecutive
  <2>2. Head(run.page) \in Clip
    BY <2>1, TailElements DEF TypeOK
  <2>3. digest' \in Text \union {NoText}
    BY <1>18, <2>2 DEF SetAnswered, Clip, TypeOK
  <2>4. run' \in [pc : Phase, page : Seq(Clip), top : 0..MaxSeq, more : BOOLEAN, push : BOOLEAN]
        /\ timer' \in {"short", "long"} /\ failed' \in BOOLEAN
    BY <1>18, <2>1, RunTypes, FinishTypes DEF SetAnswered, TypeOK
  <2>5. QED
    BY <1>18, <2>3, <2>4 DEF SetAnswered, TypeOK
<1>19. CASE SetTimesOut \/ AnswerLost
  BY <1>19, FinishTypes, FaultTypes DEF SetTimesOut, AnswerLost, TypeOK
<1>20. CASE SaveCursor \/ Acknowledge
  <2>1. cursor' \in 0..head
    BY SMTT(60), <1>20, SyncAssumption DEF SaveCursor, Acknowledge, InLog, TypeOK
  <2>2. run' \in [pc : Phase, page : Seq(Clip), top : 0..MaxSeq, more : BOOLEAN, push : BOOLEAN]
        /\ timer' \in {"short", "long"} /\ failed' \in BOOLEAN
    <3>1. CASE NextPage
      BY <3>1, RunTypes, FinishTypes DEF NextPage, TypeOK
    <3>2. CASE run' = [run EXCEPT !.pc = "ack"] /\ UNCHANGED <<timer, failed>>
      BY <3>2 DEF Phase, TypeOK
    <3>3. QED
      BY <1>20, <3>1, <3>2 DEF SaveCursor, Acknowledge
  <2>3. QED
    BY <1>20, <2>1, <2>2 DEF SaveCursor, Acknowledge, TypeOK
<1>21. CASE Unauthorized \/ NeedsSignIn
  <2>0. 0 \in 0..head /\ cursor \in 0..head
    BY SyncAssumption DEF TypeOK
  <2>1. cursor' \in 0..head /\ run' = Idle /\ timer' \in {"short", "long"} /\ failed' \in BOOLEAN
    BY <1>21, <2>0 DEF Unauthorized, NeedsSignIn, SignedOut
  <2>2. signedIn' \in BOOLEAN /\ online' \in BOOLEAN /\ wake' \in BOOLEAN /\ wire' \subseteq Clip
    BY <1>21 DEF Unauthorized, NeedsSignIn, TypeOK
  <2>3. QED
    BY <1>21, <2>1, <2>2, RunTypes, FaultTypes DEF Unauthorized, NeedsSignIn, SignedOut, TypeOK
<1>22. CASE Crash \/ SignIn
  <2>1. run' = Syncing /\ pushed' = <<>> /\ inbox' = <<>> /\ events' = <<>> /\ wire' = {}
    BY <1>22 DEF Crash, SignIn, Restart
  <2>2. pushed' \in Seq(Clip) /\ Len(pushed') <= PushCap /\ inbox' \in Seq(Clip)
        /\ events' \in Seq(Event) /\ Len(events') <= EventCap /\ wire' \subseteq Clip
    BY <2>1, SyncAssumption
  <2>3. run' \in [pc : Phase, page : Seq(Clip), top : 0..MaxSeq, more : BOOLEAN, push : BOOLEAN]
    BY <2>1, RunTypes
  <2>4. signedIn' \in BOOLEAN /\ faults' \in 0..MaxFaults
    BY <1>22, FaultTypes DEF Crash, SignIn, Restart, TypeOK
  <2>5. QED
    BY <1>22, <2>2, <2>3, <2>4 DEF Crash, SignIn, Restart, TypeOK
<1>23. CASE UNCHANGED vars
  BY <1>23 DEF vars, TypeOK
<1> QED
  BY <1>1, <1>2, <1>3, <1>4, <1>5, <1>6, <1>7, <1>8, <1>9, <1>10, <1>11, <1>12, <1>13, <1>14, <1>15,
     <1>16, <1>17, <1>18, <1>19, <1>20, <1>21, <1>22, <1>23 DEF Next, Working, Failing

-----------------------------------------------------------------------------
(* How log, round and cursor move.                                         *)
NewClip(c) ==
  /\ log' = Append(log, c) /\ head < c.seq /\ head' = c.seq
  /\ c.origin = Self <=> c.cid # 0
  /\ c.cid # 0 => /\ pending # <<>> /\ c.cid = Head(pending).cid
                  /\ \A i \in DOMAIN log : log[i].cid # c.cid

LEMMA StoreMoves ==
  ASSUME TypeOK, pending # <<>>, Store(Head(pending))
  PROVE  UNCHANGED server \/ \E c \in Clip : NewClip(c)
<1> DEFINE u == Head(pending)
           c == [seq |-> head + 1, origin |-> Self, cid |-> u.cid, text |-> u.text, kind |-> "small"]
<1>1. u \in Upload
  BY TailElements DEF TypeOK
<1>2. CASE UNCHANGED server
  BY <1>2
<1>3. CASE ~UNCHANGED server
  <2>1. head < MaxSeq /\ head' = head + 1 /\ log' = Append(log, c)
        /\ ~\E d \in Range(log) : d.cid = u.cid
    BY <1>3 DEF Store
  <2>2. c \in Clip
    BY SMTT(60), <1>1, <2>1, SyncAssumption DEF Clip, Upload, TypeOK
  <2>3. NewClip(c)
    BY <1>1, <2>1, SyncAssumption DEF NewClip, Upload, Range, TypeOK
  <2>4. QED
    BY <2>2, <2>3
<1>4. QED
  BY <1>2, <1>3

LEMMA LogMoves ==
  ASSUME TypeOK, [Next]_vars
  PROVE  UNCHANGED server \/ \E c \in Clip : NewClip(c)
<1>1. CASE RemoteClip
  <2>1. PICK n \in head + 1 .. MaxSeq - MaxCopies, t \in Text, k \in Kind :
          /\ head' = n
          /\ log' = Append(log, [seq |-> n, origin |-> Other, cid |-> 0, text |-> t, kind |-> k])
    BY <1>1 DEF RemoteClip
  <2> DEFINE c == [seq |-> n, origin |-> Other, cid |-> 0, text |-> t, kind |-> k]
  <2>2. n \in 1..MaxSeq /\ head < n
    BY SyncAssumption DEF TypeOK
  <2>3. c \in Clip
    BY <2>2, SyncAssumption DEF Clip
  <2>4. NewClip(c)
    BY <2>1, <2>2, SyncAssumption DEF NewClip
  <2>5. QED
    BY <2>3, <2>4
<1>2. CASE UploadClip \/ UploadLost
  <2>1. pending # <<>> /\ (Store(Head(pending)) \/ UNCHANGED server)
    BY <1>2 DEF UploadClip, UploadLost, Uploading
  <2>2. QED
    BY <2>1, StoreMoves
<1>3. CASE \/ LocalCopy \/ Poll \/ Connect \/ (\E c \in wire : Receive(c)) \/ StartBridge
           \/ WriteClipboard \/ TimerSync \/ WakeSync \/ BridgeEvent \/ PushedClip
  BY <1>3 DEF LocalCopy, Poll, Connect, Receive, StartBridge, WriteClipboard, TimerSync, WakeSync,
       BridgeEvent, PushedClip
<1>4. CASE \/ Uploaded \/ PullPage \/ PassClip \/ ApplyClip \/ SetAnswered \/ SaveCursor
           \/ Acknowledge \/ NeedsSignIn \/ UNCHANGED vars
  BY <1>4 DEF Uploaded, PullPage, PassClip, ApplyClip, SetAnswered, SaveCursor, Acknowledge,
       NeedsSignIn, vars, server
<1>5. CASE \/ AnswerLost \/ Unauthorized \/ SetTimesOut \/ RejectWrite \/ StopBridge \/ Disconnect
           \/ Crash \/ SignIn
  BY <1>5 DEF AnswerLost, Unauthorized, SetTimesOut, RejectWrite, StopBridge, Disconnect, Crash,
       SignIn, Restart
<1>6. QED
  BY <1>1, <1>2, <1>3, <1>4, <1>5 DEF Next, Working, Failing

\* A round at rest or on its way to a page.
Rests(r) == r.page = <<>> /\ r.top = 0 /\ r.pc \notin {"apply", "setting"}

\* The clip at work is not to be written, or was written.
Settled ==
  \/ Head(run.page).origin = Self \/ Head(run.page).kind = "garbled"
  \/ run.pc = "setting" /\ result = "ok"

RoundMoves ==
  \/ run' = run \/ Rests(run')
  \/ /\ UNCHANGED log
     /\ \/ /\ run'.page = run.page /\ run'.top = run.top
           /\ \/ run.page = <<>> /\ run'.pc \in {"pull", "ack"}
              \/ run.page # <<>> /\ run.pc = "apply" /\ run'.pc = "setting"
        \/ run.pc \in {"apply", "setting"} /\ run.page # <<>> /\ Settled /\ run' = Passed
        \/ /\ run'.pc = "apply" /\ run'.top = cursor
           /\ \/ run'.page = ClipsAfter(cursor)
              \/ /\ pushed # <<>> /\ Head(pushed).seq = cursor + 1
                 /\ run'.page = <<Head(pushed)>>

CursorMoves == cursor' \in {cursor, 0} \/ (UNCHANGED log /\ cursor' = run.top)

LEMMA Resting ==
  /\ Rests(Idle) /\ Rests(Syncing) /\ Rests([Idle EXCEPT !.pc = "pull"])
  /\ \A ok \in BOOLEAN : Finish(ok) => Rests(run')
<1>1. Rests(Idle)
  BY DEF Rests, Idle
<1>2. Rests(Syncing)
  BY DEF Rests, Syncing, Idle
<1>3. Rests([Idle EXCEPT !.pc = "pull"])
  BY DEF Rests, Idle
<1>4. \A ok \in BOOLEAN : Finish(ok) => Rests(run')
  BY <1>1 DEF Finish
<1>5. QED
  BY <1>1, <1>2, <1>3, <1>4

LEMMA Moves ==
  ASSUME TypeOK, Consecutive, [Next]_vars
  PROVE  RoundMoves /\ CursorMoves
<1> USE DEF server, session, round
<1>0. run \in [pc : Phase, page : Seq(Clip), top : 0..MaxSeq, more : BOOLEAN, push : BOOLEAN]
  BY DEF TypeOK
<1>1. CASE \/ RemoteClip \/ LocalCopy \/ Poll \/ Connect \/ (\E c \in wire : Receive(c)) \/ StartBridge
           \/ WriteClipboard \/ RejectWrite \/ StopBridge \/ Disconnect \/ UploadClip
           \/ UNCHANGED vars
  BY <1>1 DEF RemoteClip, LocalCopy, Poll, Connect, Receive, StartBridge, WriteClipboard, RejectWrite,
       StopBridge, Disconnect, UploadClip, vars, RoundMoves, CursorMoves
<1>2. CASE TimerSync \/ WakeSync \/ BridgeEvent \/ Crash \/ SignIn
  <2>1. run' \in {run, Syncing} /\ cursor' = cursor
    BY <1>2 DEF TimerSync, WakeSync, BridgeEvent, Crash, SignIn, Restart
  <2>2. QED
    BY <2>1, Resting DEF RoundMoves, CursorMoves
<1>3. CASE PushedClip
  <2>1. UNCHANGED log /\ cursor' = cursor /\ pushed # <<>>
    BY <1>3 DEF PushedClip
  <2>2. ActionForPushedClip(Head(pushed).seq) \in {"ignore", "apply", "reconcile"}
    BY DEF ActionForPushedClip
  <2>3. CASE ActionForPushedClip(Head(pushed).seq) = "apply"
    <3>1. Head(pushed).seq = cursor + 1
      BY <2>3 DEF ActionForPushedClip
    <3>2. run' = [pc |-> "apply", page |-> <<Head(pushed)>>, top |-> cursor, more |-> FALSE,
                  push |-> TRUE]
      BY <1>3, <2>3 DEF PushedClip
    <3>3. QED
      BY <2>1, <3>1, <3>2 DEF RoundMoves, CursorMoves
  <2>4. CASE ActionForPushedClip(Head(pushed).seq) # "apply"
    <3>1. run' \in {run, Syncing}
      BY <1>3, <2>2, <2>4 DEF PushedClip
    <3>2. QED
      BY <2>1, <3>1, Resting DEF RoundMoves, CursorMoves
  <2>5. QED
    BY <2>3, <2>4
<1>4. CASE UploadLost \/ SetTimesOut \/ AnswerLost
  <2>1. Finish(FALSE) /\ cursor' = cursor
    BY <1>4 DEF UploadLost, SetTimesOut, AnswerLost
  <2>2. QED
    BY <2>1, Resting DEF RoundMoves, CursorMoves
<1>5. CASE Uploaded
  <2>1. UNCHANGED log /\ cursor' = cursor /\ run' = [run EXCEPT !.pc = "pull"] /\ run.page = <<>>
    BY <1>5 DEF Uploaded, Consecutive
  <2>2. QED
    BY <1>0, <2>1 DEF RoundMoves, CursorMoves
<1>6. CASE PullPage
  <2>1. UNCHANGED log /\ cursor' = cursor
    BY <1>6 DEF PullPage
  <2>2. CASE Fits(ClipsAfter(cursor))
    <3>1. run'.page = ClipsAfter(cursor) /\ run'.top = cursor /\ run'.pc = "apply"
      BY <1>6, <2>2 DEF PullPage
    <3>2. QED
      BY <2>1, <3>1 DEF RoundMoves, CursorMoves
  <2>3. CASE ~Fits(ClipsAfter(cursor))
    <3>1. Finish(FALSE)
      BY <1>6, <2>3 DEF PullPage
    <3>2. QED
      BY <2>1, <3>1, Resting DEF RoundMoves, CursorMoves
  <2>4. QED
    BY <2>2, <2>3
<1>7. CASE PassClip
  BY <1>7 DEF PassClip, Settled, RoundMoves, CursorMoves
<1>8. CASE ApplyClip
  <2>1. UNCHANGED log /\ cursor' = cursor /\ run.pc = "apply" /\ run.page # <<>>
    BY <1>8 DEF ApplyClip
  <2>2. run' = [run EXCEPT !.pc = "setting"] \/ Finish(FALSE)
    BY <1>8 DEF ApplyClip
  <2>3. QED
    BY <1>0, <2>1, <2>2, Resting DEF RoundMoves, CursorMoves
<1>9. CASE SetAnswered
  <2>1. UNCHANGED log /\ cursor' = cursor /\ run.pc = "setting" /\ run.page # <<>>
    BY <1>9 DEF SetAnswered, Consecutive
  <2>2. (run' = Passed /\ Settled) \/ Finish(FALSE)
    BY <1>9 DEF SetAnswered, Settled
  <2>3. QED
    BY <2>1, <2>2, Resting DEF RoundMoves, CursorMoves
<1>10. CASE SaveCursor \/ Acknowledge
  <2>1. UNCHANGED log /\ cursor' \in {cursor, run.top}
    BY <1>10 DEF SaveCursor, Acknowledge
  <2>2. \/ run.page = <<>> /\ run' = [run EXCEPT !.pc = "ack"]
        \/ NextPage
    BY <1>10 DEF SaveCursor, Acknowledge
  <2>3. NextPage => Rests(run')
    BY Resting DEF NextPage
  <2>4. QED
    BY <1>0, <2>1, <2>2, <2>3 DEF RoundMoves, CursorMoves
<1>11. CASE Unauthorized \/ NeedsSignIn
  <2>1. run' = Idle /\ cursor' \in {cursor, 0}
    BY <1>11 DEF Unauthorized, NeedsSignIn, SignedOut
  <2>2. QED
    BY <2>1, Resting DEF RoundMoves, CursorMoves
<1>12. QED
  BY <1>1, <1>2, <1>3, <1>4, <1>5, <1>6, <1>7, <1>8, <1>9, <1>10, <1>11 DEF Next, Working, Failing

(* What a step does to the number of copies, the socket and the queue.     *)
LEMMA CopiesMove ==
  ASSUME TypeOK, [Next]_vars
  PROVE  \/ UNCHANGED queue
         \/ /\ UploadClip
            /\ pending # <<>> /\ pending' = Tail(pending) /\ UNCHANGED copies
         \/ /\ copies' = copies + 1 /\ UNCHANGED log /\ events # <<>> /\ events' = Tail(events)
            /\ Head(events).kind = "clip"
            /\ Enqueue([cid |-> copies + 1, text |-> Head(events).text, by |-> Head(events).by])
<1> USE DEF server, queue
<1>1. CASE BridgeEvent
  BY <1>1 DEF BridgeEvent
<1>2. CASE UploadClip
  BY <1>2 DEF UploadClip, Uploading
<1>3. CASE \/ RemoteClip \/ LocalCopy \/ Poll \/ Connect \/ (\E c \in wire : Receive(c)) \/ StartBridge
           \/ WriteClipboard \/ TimerSync \/ WakeSync \/ PushedClip \/ SignIn \/ UploadLost
  BY <1>3 DEF RemoteClip, LocalCopy, Poll, Connect, Receive, StartBridge, WriteClipboard, TimerSync,
       WakeSync, PushedClip, SignIn, Restart, UploadLost
<1>4. CASE \/ Uploaded \/ PullPage \/ PassClip \/ ApplyClip \/ SetAnswered \/ SaveCursor
           \/ Acknowledge \/ NeedsSignIn \/ UNCHANGED vars
  BY <1>4 DEF Uploaded, PullPage, PassClip, ApplyClip, SetAnswered, SaveCursor, Acknowledge,
       NeedsSignIn, vars
<1>5. CASE \/ AnswerLost \/ Unauthorized \/ SetTimesOut \/ RejectWrite \/ StopBridge \/ Disconnect
           \/ Crash
  BY <1>5 DEF AnswerLost, Unauthorized, SetTimesOut, RejectWrite, StopBridge, Disconnect, Crash, Restart
<1>6. QED
  BY <1>1, <1>2, <1>3, <1>4, <1>5 DEF Next, Working, Failing

LEMMA SocketMoves ==
  ASSUME TypeOK, [Next]_vars
  PROVE  /\ \/ wire' \subseteq wire
            \/ \E c \in Clip : log' = Append(log, c) /\ wire' \subseteq wire \union {c}
         /\ \/ pushed' = pushed \/ pushed' = <<>>
            \/ pushed # <<>> /\ pushed' = Tail(pushed)
            \/ \E c \in wire : pushed' = Offer(pushed, c, PushCap)
<1> USE DEF socket
<1>1. CASE RemoteClip
  <2>1. PICK n \in head + 1 .. MaxSeq - MaxCopies, t \in Text, k \in Kind :
          LET c == [seq |-> n, origin |-> Other, cid |-> 0, text |-> t, kind |-> k]
          IN  log' = Append(log, c) /\ wire' = IF online THEN wire \union {c} ELSE wire
    BY <1>1 DEF RemoteClip
  <2>2. n \in 1..MaxSeq
    BY SyncAssumption DEF TypeOK
  <2>3. [seq |-> n, origin |-> Other, cid |-> 0, text |-> t, kind |-> k] \in Clip
    BY <2>2, SyncAssumption DEF Clip
  <2>4. QED
    BY <1>1, <2>1, <2>3 DEF RemoteClip
<1>2. CASE \E c \in wire : Receive(c)
  BY <1>2 DEF Receive
<1>3. CASE Disconnect \/ Unauthorized \/ Crash \/ SignIn
  BY <1>3 DEF Disconnect, Unauthorized, Crash, SignIn, Restart
<1>4. CASE PushedClip \/ WakeSync \/ Connect
  BY <1>4 DEF PushedClip, WakeSync, Connect
<1>5. CASE \/ LocalCopy \/ Poll \/ StartBridge \/ WriteClipboard \/ TimerSync \/ BridgeEvent
           \/ UploadClip \/ UploadLost \/ UNCHANGED vars
  BY <1>5 DEF LocalCopy, Poll, StartBridge, WriteClipboard, TimerSync, BridgeEvent, UploadClip,
       UploadLost, vars
<1>6. CASE \/ Uploaded \/ PullPage \/ PassClip \/ ApplyClip \/ SetAnswered \/ SaveCursor
           \/ Acknowledge \/ NeedsSignIn
  BY <1>6 DEF Uploaded, PullPage, PassClip, ApplyClip, SetAnswered, SaveCursor, Acknowledge, NeedsSignIn
<1>7. CASE AnswerLost \/ SetTimesOut \/ RejectWrite \/ StopBridge
  BY <1>7 DEF AnswerLost, SetTimesOut, RejectWrite, StopBridge
<1>8. QED
  BY <1>1, <1>2, <1>3, <1>4, <1>5, <1>6, <1>7 DEF Next, Working, Failing

LEMMA Grown ==
  ASSUME TypeOK, NEW c \in Clip, log' = Append(log, c)
  PROVE  /\ Range(log') = Range(log) \union {c}
         /\ DOMAIN log' = DOMAIN log \union {Len(log) + 1} /\ Len(log') = Len(log) + 1
         /\ \A i \in DOMAIN log : i <= Len(log) /\ log'[i] = log[i]
         /\ log'[Len(log) + 1] = c
<1>1. /\ DOMAIN log' = DOMAIN log \union {Len(log) + 1} /\ Len(log') = Len(log) + 1
      /\ \A i \in DOMAIN log : i <= Len(log) /\ log'[i] = log[i]
      /\ log'[Len(log) + 1] = c
  BY SMTT(60), Appended DEF TypeOK
<1>2. Range(log') = Range(log) \union {c}
  <2>1. Len(log) + 1 \notin DOMAIN log
    BY DEF TypeOK
  <2>2. QED
    BY <1>1, <2>1 DEF Range
<1>3. QED
  BY <1>1, <1>2

LEMMA LogGrows ==
  ASSUME TypeOK, [Next]_vars
  PROVE  Range(log) \subseteq Range(log') /\ head <= head' /\ head' \in Nat
<1>1. CASE UNCHANGED server
  BY <1>1 DEF server, TypeOK
<1>2. ASSUME NEW c \in Clip, NewClip(c)
      PROVE Range(log) \subseteq Range(log') /\ head <= head' /\ head' \in Nat
  <2>1. head' = c.seq /\ head < c.seq /\ c.seq \in Nat /\ head \in Nat
    BY <1>2, SyncAssumption DEF NewClip, Clip, TypeOK
  <2>2. QED
    BY <1>2, <2>1, Grown DEF NewClip
<1>3. QED
  BY <1>1, <1>2, LogMoves

LEMMA OrderedStep ==
  ASSUME TypeOK, Ordered, Copies, [Next]_vars
  PROVE  Ordered'
<1>1. copies \in Nat /\ copies' \in {copies, copies + 1}
  BY CopiesMove DEF queue, TypeOK
<1>2. CASE UNCHANGED server
  <2>1. log' = log /\ head' = head
    BY <1>2 DEF server
  <2>2. \A i \in DOMAIN log : log[i].cid \in Nat /\ log[i].cid <= copies'
    <3>1. \A i \in DOMAIN log : log[i] \in Clip
      BY DEF TypeOK
    <3>2. \A i \in DOMAIN log : log[i].cid \in Nat /\ log[i].cid <= copies
      BY <3>1 DEF Ordered, Clip
    <3>3. QED
      BY <1>1, <3>2
  <2>3. QED
    BY <2>1, <2>2 DEF Ordered
<1>3. ASSUME NEW c \in Clip, NewClip(c) PROVE Ordered'
  <2>1. /\ DOMAIN log' = DOMAIN log \union {Len(log) + 1} /\ Len(log) \in Nat
        /\ \A i \in DOMAIN log : i <= Len(log) /\ log'[i] = log[i] /\ log[i] \in Clip
        /\ log'[Len(log) + 1] = c
    BY <1>3, Grown DEF NewClip, TypeOK
  <2>2. head < c.seq /\ head' = c.seq /\ (c.origin = Self <=> c.cid # 0) /\ c.seq \in Nat
        /\ c.cid \in Nat /\ head \in Nat
    BY SMTT(60), <1>3, SyncAssumption DEF NewClip, Clip, TypeOK
  <2>3. c.cid <= copies'
    <3>1. CASE c.cid = 0
      BY <1>1, <3>1
    <3>2. CASE c.cid # 0
      <4>1. pending # <<>> /\ c.cid = Head(pending).cid
        BY <1>3, <3>2 DEF NewClip
      <4>2. 1 \in DOMAIN pending /\ Head(pending) = pending[1]
        BY <4>1, TailElements DEF TypeOK
      <4>3. QED
        BY <1>1, <2>2, <4>1, <4>2 DEF Copies
    <3>3. QED
      BY <3>1, <3>2
  <2>4. \A i \in DOMAIN log : log[i].seq \in Nat /\ log[i].seq <= head /\ log[i].cid \in Nat
           /\ log[i].cid <= copies
    BY <2>1, SyncAssumption DEF Ordered, Clip
  <2>5. \A i, j \in DOMAIN log' : i < j => log'[i].seq < log'[j].seq
    <3> TAKE i, j \in DOMAIN log'
    <3>1. CASE i \in DOMAIN log /\ j \in DOMAIN log
      BY <2>1, <3>1 DEF Ordered
    <3>2. CASE i \in DOMAIN log /\ j = Len(log) + 1
      BY <2>1, <2>2, <2>4, <3>2
    <3>3. CASE i = Len(log) + 1
      BY <2>1, <3>3 DEF TypeOK
    <3>4. QED
      BY <2>1, <3>1, <3>2, <3>3
  <2>6. \A i \in DOMAIN log' : log'[i].seq <= head' /\ log'[i].cid <= copies'
    BY <1>1, <2>1, <2>2, <2>3, <2>4
  <2>7. \A i \in DOMAIN log' : log'[i].origin = Self <=> log'[i].cid # 0
    BY <2>1, <2>2 DEF Ordered
  <2>8. QED
    BY <2>5, <2>6, <2>7 DEF Ordered
<1>4. QED
  BY <1>2, <1>3, LogMoves

LEMMA InLogStep ==
  ASSUME TypeOK, Ordered, InLog, Consecutive, [Next]_vars
  PROVE  InLog'
<1>1. Range(log) \subseteq Range(log') /\ head <= head' /\ head' \in Nat
  BY LogGrows
<1>2. wire' \subseteq Range(log')
  <2>1. CASE wire' \subseteq wire
    BY <1>1, <2>1 DEF InLog
  <2>2. ASSUME NEW c \in Clip, log' = Append(log, c), wire' \subseteq wire \union {c}
        PROVE wire' \subseteq Range(log')
    BY <1>1, <2>2, Grown DEF InLog
  <2>3. QED
    BY <2>1, <2>2, SocketMoves
<1>3. \A i \in DOMAIN pushed' : pushed'[i] \in Range(log')
  <2>1. CASE pushed' = pushed \/ pushed' = <<>>
    BY <1>1, <2>1 DEF InLog
  <2>2. CASE pushed # <<>> /\ pushed' = Tail(pushed)
    <3>1. \A i \in DOMAIN Tail(pushed) : i + 1 \in DOMAIN pushed /\ Tail(pushed)[i] = pushed[i + 1]
      BY <2>2, TailElements DEF TypeOK
    <3>2. QED
      BY <1>1, <2>2, <3>1 DEF InLog
  <2>3. ASSUME NEW c \in wire, pushed' = Offer(pushed, c, PushCap)
        PROVE \A i \in DOMAIN pushed' : pushed'[i] \in Range(log')
    <3>1. c \in Clip /\ c \in Range(log')
      BY <1>1 DEF InLog, TypeOK
    <3>2. \A i \in DOMAIN Offer(pushed, c, PushCap) :
            (i \in DOMAIN pushed /\ Offer(pushed, c, PushCap)[i] = pushed[i])
              \/ Offer(pushed, c, PushCap)[i] = c
      BY <3>1, OfferElements, SyncAssumption DEF TypeOK
    <3>3. QED
      BY <1>1, <2>3, <3>1, <3>2 DEF InLog
  <2>4. QED
    BY <2>1, <2>2, <2>3, SocketMoves
<1>4. (\A i \in DOMAIN run'.page : run'.page[i] \in Range(log')) /\ run'.top <= head'
  <2>0. run.top \in Nat /\ head \in Nat /\ run.top <= head'
    BY <1>1, SyncAssumption DEF InLog, TypeOK
  <2>1. CASE run' = run
    BY <1>1, <2>0, <2>1 DEF InLog
  <2>2. CASE Rests(run')
    BY <1>1, <2>2 DEF Rests
  <2>3. CASE run'.page = run.page /\ run'.top = run.top
    BY <1>1, <2>0, <2>3 DEF InLog
  <2>4. CASE run.page # <<>> /\ run' = Passed
    <3>1. /\ \A i \in DOMAIN Tail(run.page) : i + 1 \in DOMAIN run.page
                                              /\ Tail(run.page)[i] = run.page[i + 1]
          /\ 1 \in DOMAIN run.page /\ Head(run.page) = run.page[1]
      BY <2>4, TailElements DEF TypeOK
    <3>2. run'.page = Tail(run.page) /\ run'.top \in {run.top, Head(run.page).seq}
      BY <2>4 DEF Passed, TypeOK
    <3>3. Head(run.page).seq <= head'
      <4>1. PICK k \in DOMAIN log : run.page[1] = log[k]
        BY <3>1 DEF InLog, Range
      <4>2. log[k] \in Clip /\ log[k].seq <= head
        BY <4>1 DEF Ordered, TypeOK
      <4>3. QED
        BY <1>1, <2>0, <3>1, <4>1, <4>2, SyncAssumption DEF Clip
    <3>4. QED
      BY <1>1, <2>0, <3>1, <3>2, <3>3 DEF InLog
  <2>5. CASE run'.page = ClipsAfter(cursor) /\ run'.top = cursor
    <3>1. \A i \in DOMAIN ClipsAfter(cursor) : ClipsAfter(cursor)[i] \in Range(log)
      <4>1. PICK n \in 0..Len(log) : Reach(cursor, n)
        BY DEF Consecutive, Reached
      <4>2. \A i \in DOMAIN ClipsAfter(cursor) :
              i + n \in DOMAIN log /\ ClipsAfter(cursor)[i] = log[i + n]
        BY <4>1, PageOfLog
      <4>3. QED
        BY <4>2 DEF Range
    <3>2. cursor \in Nat /\ cursor <= head'
      BY <1>1, <2>0 DEF TypeOK
    <3>3. QED
      BY <1>1, <2>5, <3>1, <3>2
  <2>6. CASE pushed # <<>> /\ run'.page = <<Head(pushed)>> /\ run'.top = cursor
    <3>1. Head(pushed) \in Range(log)
      BY <2>6, TailElements DEF InLog, TypeOK
    <3>2. cursor \in Nat /\ cursor <= head'
      BY <1>1, <2>0 DEF TypeOK
    <3>3. QED
      BY <1>1, <2>6, <3>1, <3>2
  <2>7. QED
    BY <2>1, <2>2, <2>3, <2>4, <2>5, <2>6, Moves DEF RoundMoves
<1>5. QED
  BY <1>2, <1>3, <1>4 DEF InLog

LEMMA LogTypes ==
  ASSUME TypeOK
  PROVE  /\ \A i \in DOMAIN log : log[i] \in Clip /\ log[i].seq \in Nat /\ 1 <= log[i].seq /\ i \in Nat
         /\ \A c \in Range(log) : c \in Clip /\ c.seq \in Nat
<1>1. \A i \in DOMAIN log : log[i] \in Clip /\ i \in Nat
  BY DEF TypeOK
<1>2. \A c \in Clip : c.seq \in Nat /\ 1 <= c.seq
  BY SyncAssumption DEF Clip
<1>3. QED
  BY <1>1, <1>2 DEF Range

(* A new clip is above every cursor.                                       *)
LEMMA ReachKept ==
  ASSUME TypeOK, Ordered, NEW c \in Clip, NewClip(c), NEW x \in 0..head, Reached(x)
  PROVE  Reached(x)'
<1>1. PICK n \in 0..Len(log) : Reach(x, n)
  BY DEF Reached
<1>2. /\ DOMAIN log' = DOMAIN log \union {Len(log) + 1} /\ Len(log') = Len(log) + 1 /\ Len(log) \in Nat
      /\ \A i \in DOMAIN log : log'[i] = log[i]
      /\ log'[Len(log) + 1] = c
  BY SMTT(60), Grown DEF NewClip, TypeOK
<1>3. ~(c.seq <= x)
  <2>1. c.seq \in Nat /\ head \in Nat /\ x \in Nat /\ x <= head /\ head < c.seq
    BY SyncAssumption DEF NewClip, Clip, TypeOK
  <2>2. QED
    BY <2>1
<1>4. \A i \in DOMAIN log' : i <= n <=> log'[i].seq <= x
  BY <1>1, <1>2, <1>3 DEF Reach
<1>5. QED
  BY <1>2, <1>4 DEF Reached, Reach

LEMMA ReachNothing ==
  ASSUME TypeOK
  PROVE  Reached(0)
<1>1. \A i \in DOMAIN log : ~(log[i].seq <= 0) /\ ~(i <= 0)
  <2>1. \A i \in DOMAIN log : i \in Nat /\ 1 <= i
    BY DEF TypeOK
  <2>2. QED
    BY <2>1, LogTypes
<1>2. 0 \in 0..Len(log)
  BY DEF TypeOK
<1>3. QED
  BY <1>1, <1>2 DEF Reached, Reach

LEMMA ReachClip ==
  ASSUME TypeOK, Ordered, NEW c \in Range(log)
  PROVE  Reached(c.seq)
<1>1. PICK k \in DOMAIN log : c = log[k]
  BY DEF Range
<1>2. \A i \in DOMAIN log : log[i].seq \in Nat /\ i \in Nat
  BY LogTypes
<1>3. \A i \in DOMAIN log : i <= k <=> log[i].seq <= c.seq
  <2> TAKE i \in DOMAIN log
  <2>1. i < k => log[i].seq < log[k].seq
    BY DEF Ordered
  <2>2. k < i => log[k].seq < log[i].seq
    BY DEF Ordered
  <2>3. QED
    BY <1>1, <1>2, <2>1, <2>2
<1>4. k \in 0..Len(log)
  BY DEF TypeOK
<1>5. QED
  BY <1>3, <1>4 DEF Reached, Reach

\* The clips from `top` up to one of the page are before it on the page.
Joined(page, top) ==
  \A i \in DOMAIN page, c \in Range(log) :
    top < c.seq /\ c.seq <= page[i].seq => \E j \in DOMAIN page : j <= i /\ page[j] = c

LEMMA PageJoined ==
  ASSUME TypeOK, Ordered, Reached(cursor)
  PROVE  Joined(ClipsAfter(cursor), cursor)
<1> DEFINE page == ClipsAfter(cursor)
<1>1. PICK n \in 0..Len(log) : Reach(cursor, n)
  BY DEF Reached
<1>2. page \in Seq(Clip) /\ \A i \in DOMAIN page : i + n \in DOMAIN log /\ page[i] = log[i + n]
  BY <1>1, PageOfLog
<1>3. \A i \in DOMAIN log : log[i].seq \in Nat /\ i \in Nat
  BY LogTypes
<1>4. cursor \in Nat /\ n \in Nat
  BY SyncAssumption DEF TypeOK
<1>5. ASSUME NEW i \in DOMAIN page, NEW c \in Range(log), cursor < c.seq, c.seq <= page[i].seq
      PROVE  \E j \in DOMAIN page : j <= i /\ page[j] = c
  <2>1. PICK k \in DOMAIN log : c = log[k]
    BY DEF Range
  <2>2. ~(k <= n)
    BY <1>1, <1>3, <1>4, <1>5, <2>1 DEF Reach
  <2>3. i + n \in DOMAIN log /\ page[i] = log[i + n]
    BY <1>2
  <2>4. ~(i + n < k)
    <3>1. i + n < k => log[i + n].seq < log[k].seq
      BY <2>3 DEF Ordered
    <3>2. QED
      BY <1>3, <1>5, <2>1, <2>3, <3>1
  <2>5. i \in 1..Len(page) /\ Len(page) \in Nat /\ DOMAIN page = 1..Len(page)
    BY <1>2, <1>5
  <2>6. k - n \in DOMAIN page /\ k - n <= i /\ (k - n) + n = k
    BY <1>3, <1>4, <2>1, <2>2, <2>4, <2>5
  <2>7. page[k - n] = log[(k - n) + n]
    BY <1>2, <2>6
  <2>8. page[k - n] = c
    BY <2>1, <2>6, <2>7
  <2>9. QED
    BY <2>6, <2>8
<1>6. QED
  BY <1>5 DEF Joined

LEMMA PassedJoined ==
  ASSUME TypeOK, InLog, run.page # <<>>, Joined(run.page, run.top)
  PROVE  Joined(Passed.page, Passed.top)
<1> DEFINE p == run.page
           top == IF p[1].seq > run.top THEN p[1].seq ELSE run.top
<1>1. /\ \A i \in DOMAIN Tail(p) : i + 1 \in DOMAIN p /\ Tail(p)[i] = p[i + 1] /\ i \in Nat
      /\ 1 \in DOMAIN p /\ Head(p) = p[1] /\ DOMAIN Tail(p) = 1..(Len(p) - 1)
      /\ DOMAIN p = 1..Len(p) /\ Len(p) \in Nat
  <2>1. p \in Seq(Clip) /\ p # <<>>
    BY DEF TypeOK
  <2>2. Tail(p) \in Seq(Clip) /\ Len(Tail(p)) = Len(p) - 1
    BY <2>1, TailElements
  <2>3. QED
    BY <2>1, <2>2, TailElements
<1>2. Passed.page = Tail(p) /\ Passed.top = top
  BY <1>1 DEF Passed, TypeOK
<1>3. p[1].seq \in Nat /\ run.top \in Nat /\ \A c \in Range(log) : c.seq \in Nat
  BY <1>1, LogTypes, SyncAssumption DEF InLog, TypeOK
<1>4. ASSUME NEW i \in DOMAIN Tail(p), NEW c \in Range(log), top < c.seq, c.seq <= Tail(p)[i].seq
      PROVE  \E j \in DOMAIN Tail(p) : j <= i /\ Tail(p)[j] = c
  <2>1. run.top < c.seq /\ c.seq <= p[i + 1].seq /\ p[1].seq < c.seq
    BY <1>1, <1>3, <1>4
  <2>2. PICK j \in DOMAIN p : j <= i + 1 /\ p[j] = c
    BY <1>1, <2>1 DEF Joined
  <2>3. j # 1
    BY <1>3, <2>1, <2>2
  <2>4. j - 1 \in DOMAIN Tail(p) /\ j - 1 <= i /\ (j - 1) + 1 = j
    BY <1>1, <2>2, <2>3
  <2>5. Tail(p)[j - 1] = p[(j - 1) + 1]
    BY <1>1, <2>4
  <2>6. Tail(p)[j - 1] = c
    BY <2>2, <2>4, <2>5
  <2>7. QED
    BY <2>4, <2>6
<1>5. QED
  BY <1>2, <1>4 DEF Joined

LEMMA NextJoined ==
  ASSUME TypeOK, Ordered, NEW q \in Range(log), q.seq = cursor + 1
  PROVE  Joined(<<q>>, cursor)
<1>1. PICK k \in DOMAIN log : q = log[k]
  BY DEF Range
<1>2. \A i \in DOMAIN log : log[i].seq \in Nat /\ i \in Nat
  BY LogTypes
<1>3. cursor \in Nat
  BY SyncAssumption DEF TypeOK
<1>4. ASSUME NEW c \in Range(log), cursor < c.seq, c.seq <= q.seq
      PROVE  c = q
  <2>1. PICK l \in DOMAIN log : c = log[l]
    BY DEF Range
  <2>2. log[l].seq = log[k].seq
    BY <1>1, <1>2, <1>3, <1>4, <2>1
  <2>3. ~(l < k) /\ ~(k < l)
    BY <1>2, <2>2 DEF Ordered
  <2>4. QED
    BY <1>1, <1>2, <2>1, <2>3
<1>5. DOMAIN <<q>> = {1} /\ <<q>>[1] = q
  OBVIOUS
<1>6. QED
  BY <1>4, <1>5 DEF Joined

LEMMA ConsecutiveStep ==
  ASSUME TypeOK, Ordered, InLog, Consecutive, [Next]_vars
  PROVE  Consecutive'
<1>1. RoundMoves /\ CursorMoves
  BY Moves
<1>2. cursor \in 0..head /\ run.top \in 0..head /\ 0 \in 0..head
  BY SyncAssumption DEF InLog, TypeOK
<1>3. Reached(cursor) /\ Reached(run.top) /\ Reached(0)
  BY ReachNothing DEF Consecutive
<1>4. /\ run'.pc \notin {"apply", "setting"} => run'.page = <<>>
      /\ run'.pc = "setting" => run'.page # <<>>
  <2>1. CASE run' = run
    BY <2>1 DEF Consecutive
  <2>2. CASE Rests(run')
    BY <2>2 DEF Rests
  <2>3. CASE run' = Passed
    BY <2>3 DEF Passed, TypeOK
  <2>4. CASE \/ run'.pc = "apply"
             \/ run'.page = run.page /\ run.page = <<>> /\ run'.pc \in {"pull", "ack"}
             \/ run'.page = run.page /\ run.page # <<>> /\ run'.pc = "setting"
    BY <2>4
  <2>5. QED
    BY <1>1, <2>1, <2>2, <2>3, <2>4 DEF RoundMoves
<1>5. CASE UNCHANGED server
  <2>1. log' = log
    BY <1>5 DEF server
  <2>2. \A x : Reached(x) => Reached(x)'
    BY <2>1 DEF Reached, Reach
  <2>3. Reached(cursor')
    BY <1>1, <1>3 DEF CursorMoves
  <2>4. Joined(run.page, run.top)
    BY DEF Consecutive, Joined
  <2>5. Reached(run'.top) /\ Joined(run'.page, run'.top)
    <3>1. CASE run' = run \/ (run'.page = run.page /\ run'.top = run.top)
      BY <1>3, <2>4, <3>1
    <3>2. CASE Rests(run')
      BY <1>3, <3>2 DEF Rests, Joined
    <3>3. CASE run.page # <<>> /\ run' = Passed
      <4>1. Head(run.page) \in Range(log)
        BY <3>3, TailElements DEF InLog, TypeOK
      <4>2. run'.top \in {run.top, Head(run.page).seq}
        BY <3>3 DEF Passed, TypeOK
      <4>3. QED
        BY <1>3, <2>4, <3>3, <4>1, <4>2, ReachClip, PassedJoined
    <3>4. CASE run'.page = ClipsAfter(cursor) /\ run'.top = cursor
      BY <1>3, <3>4, PageJoined
    <3>5. CASE pushed # <<>> /\ Head(pushed).seq = cursor + 1 /\ run'.page = <<Head(pushed)>>
               /\ run'.top = cursor
      <4>1. Head(pushed) \in Range(log)
        BY <3>5, TailElements DEF InLog, TypeOK
      <4>2. QED
        BY <1>3, <3>5, <4>1, NextJoined
    <3>6. QED
      BY <1>1, <3>1, <3>2, <3>3, <3>4, <3>5 DEF RoundMoves
  <2>6. Reached(cursor)' /\ Reached(run.top)'
    BY <2>1, <2>3, <2>5 DEF Reached, Reach
  <2>7. QED
    BY <1>4, <2>1, <2>5, <2>6 DEF Consecutive, Joined
<1>6. ASSUME NEW c \in Clip, NewClip(c) PROVE Consecutive'
  <2>1. log' # log /\ Range(log') = Range(log) \union {c}
    <3>1. Len(log') = Len(log) + 1 /\ Len(log) \in Nat
      BY <1>6, Grown DEF NewClip, TypeOK
    <3>2. QED
      BY <1>6, <3>1, Grown DEF NewClip
  <2>2. (run' = run \/ Rests(run')) /\ cursor' \in {cursor, 0}
    BY <1>1, <2>1 DEF RoundMoves, CursorMoves
  <2>3. \A x \in {cursor, run.top, 0} : Reached(x)'
    BY <1>2, <1>3, <1>6, ReachKept
  <2>4. Reached(cursor)' /\ Reached(run.top)'
    <3>1. cursor' \in {cursor, run.top, 0} /\ run'.top \in {cursor, run.top, 0}
      BY <2>2 DEF Rests
    <3>2. QED
      BY <2>3, <3>1 DEF Reached, Reach
  <2>5. \A i \in DOMAIN run'.page, d \in Range(log') :
          run'.top < d.seq /\ d.seq <= run'.page[i].seq =>
            \E j \in DOMAIN run'.page : j <= i /\ run'.page[j] = d
    <3>1. CASE Rests(run')
      BY <3>1 DEF Rests
    <3>2. CASE run' = run
      <4>1. \A i \in DOMAIN run.page : ~(c.seq <= run.page[i].seq)
        <5>1. \A d \in Range(log) : d.seq \in Nat /\ d.seq <= head
          BY LogTypes DEF Ordered, Range
        <5>2. c.seq \in Nat /\ head \in Nat /\ head < c.seq
          BY <1>6, SyncAssumption DEF NewClip, Clip, TypeOK
        <5>3. QED
          BY <5>1, <5>2 DEF InLog
      <4>2. QED
        BY <2>1, <3>2, <4>1 DEF Consecutive
    <3>3. QED
      BY <2>2, <3>1, <3>2
  <2>6. QED
    BY <1>4, <2>4, <2>5 DEF Consecutive
<1>7. QED
  BY <1>5, <1>6, LogMoves

\* The command that is at work, and its answer.
Commanded ==
  /\ inbox # <<>> => run.pc = "setting" /\ inbox = <<Head(run.page)>> /\ result = "none"
  /\ run.pc = "setting" /\ result = "ok" => Head(run.page).seq \in applied

(* With a prompt bridge a command has its answer before Set returns.       *)
LEMMA CommandStep ==
  ASSUME TypeOK, Consecutive, ~SlowBridge, Commanded, [Next]_vars
  PROVE  Commanded' /\ applied \subseteq applied'
<1> USE DEF bridge, round
<1>0. run \in [pc : Phase, page : Seq(Clip), top : 0..MaxSeq, more : BOOLEAN, push : BOOLEAN]
  BY DEF TypeOK
<1>1. CASE \/ RemoteClip \/ LocalCopy \/ Poll \/ Connect \/ (\E c \in wire : Receive(c)) \/ StartBridge
           \/ Disconnect \/ UploadClip \/ UNCHANGED vars
  <2>1. UNCHANGED <<inbox, run, result, applied>>
    BY <1>1 DEF RemoteClip, LocalCopy, Poll, Connect, Receive, StartBridge, Disconnect, UploadClip, vars
  <2>2. QED
    BY <2>1 DEF Commanded
<1>2. CASE TimerSync \/ WakeSync \/ BridgeEvent \/ PushedClip
  <2>1. run.pc = "idle" /\ UNCHANGED <<inbox, result, applied>>
    BY <1>2 DEF TimerSync, WakeSync, BridgeEvent, PushedClip
  <2>2. run'.pc # "setting"
    <3>1. Syncing.pc = "upload"
      BY DEF Syncing, Idle
    <3>2. CASE TimerSync \/ WakeSync \/ BridgeEvent
      <4>1. run' \in {run, Syncing}
        BY <3>2 DEF TimerSync, WakeSync, BridgeEvent
      <4>2. QED
        BY <2>1, <3>1, <4>1
    <3>3. CASE PushedClip
      <4>1. ActionForPushedClip(Head(pushed).seq) \in {"ignore", "apply", "reconcile"}
        BY DEF ActionForPushedClip
      <4>2. run' \in {run, Syncing} \/ run'.pc = "apply"
        BY <3>3, <4>1 DEF PushedClip
      <4>3. QED
        BY <2>1, <3>1, <4>2
    <3>4. QED
      BY <1>2, <3>2, <3>3
  <2>3. QED
    BY <2>1, <2>2 DEF Commanded
<1>3. CASE \/ UploadLost \/ Uploaded \/ PullPage \/ PassClip \/ SaveCursor \/ Acknowledge
           \/ AnswerLost \/ Unauthorized \/ NeedsSignIn
  <2>1. run.pc # "setting" /\ UNCHANGED <<inbox, result, applied>>
    BY <1>3 DEF UploadLost, Uploaded, PullPage, PassClip, SaveCursor, Acknowledge, AnswerLost,
         Unauthorized, NeedsSignIn, Uploading, Requesting
  <2>2. run'.pc # "setting"
    <3>1. Idle.pc = "idle" /\ [Idle EXCEPT !.pc = "pull"].pc = "pull" /\ (Finish(TRUE) => run' = Idle)
          /\ (Finish(FALSE) => run' = Idle) /\ (SignedOut => run' = Idle)
      BY DEF Idle, Finish, SignedOut
    <3>2. NextPage => run'.pc # "setting"
      BY <3>1 DEF NextPage
    <3>3. CASE UploadLost \/ AnswerLost \/ Unauthorized \/ NeedsSignIn
      BY <3>1, <3>3 DEF UploadLost, AnswerLost, Unauthorized, NeedsSignIn
    <3>4. CASE Uploaded
      BY <1>0, <3>4 DEF Uploaded
    <3>5. CASE PassClip
      BY <1>0, <3>5 DEF PassClip, Passed
    <3>6. CASE PullPage
      <4>1. run'.pc = "apply" \/ Finish(FALSE)
        <5>1. CASE Fits(ClipsAfter(cursor))
          <6>1. run' = [pc |-> "apply", page |-> ClipsAfter(cursor), top |-> cursor,
                        more |-> Len(ClipsAfter(cursor)) = PageLimit, push |-> FALSE]
            BY <3>6, <5>1 DEF PullPage
          <6>2. QED
            BY <6>1
        <5>2. CASE ~Fits(ClipsAfter(cursor))
          BY <3>6, <5>2 DEF PullPage
        <5>3. QED
          BY <5>1, <5>2
      <4>2. QED
        BY <3>1, <4>1
    <3>7. CASE SaveCursor \/ Acknowledge
      BY <1>0, <3>2, <3>7 DEF SaveCursor, Acknowledge
    <3>8. QED
      BY <1>3, <3>3, <3>4, <3>5, <3>6, <3>7
  <2>3. QED
    BY <2>1, <2>2 DEF Commanded
<1>4. CASE ApplyClip
  <2>1. inbox = <<>> /\ result' = "none" /\ UNCHANGED applied
    BY <1>4 DEF ApplyClip, Commanded
  <2>2. CASE up
    <3>1. run' = [run EXCEPT !.pc = "setting"] /\ inbox' = Append(inbox, Head(run.page))
      BY <1>4, <2>2 DEF ApplyClip
    <3>2. inbox' = <<Head(run.page)>> /\ run'.pc = "setting" /\ run'.page = run.page
      BY <1>0, <2>1, <3>1
    <3>3. QED
      BY <2>1, <3>2 DEF Commanded
  <2>3. CASE ~up
    BY <1>4, <2>1, <2>3 DEF ApplyClip, Commanded
  <2>4. QED
    BY <2>2, <2>3
<1>5. CASE SetAnswered
  <2>1. inbox' = <<>> /\ result' = "none" /\ UNCHANGED applied
    BY <1>5 DEF SetAnswered, Commanded
  <2>2. QED
    BY <2>1 DEF Commanded
<1>6. CASE WriteClipboard
  <2>1. run.pc = "setting" /\ inbox = <<Head(run.page)>> /\ UNCHANGED run
    BY <1>6 DEF WriteClipboard, Commanded
  <2>2. inbox' = <<>> /\ applied' = applied \union {Head(run.page).seq}
    BY <1>6, <2>1 DEF WriteClipboard
  <2>3. QED
    BY <2>1, <2>2 DEF Commanded
<1>7. CASE RejectWrite
  <2>1. run.pc = "setting" /\ inbox = <<Head(run.page)>> /\ UNCHANGED <<run, applied>>
    BY <1>7 DEF RejectWrite, Commanded
  <2>2. inbox' = <<>> /\ (result' = "ok" => result = "ok")
    BY <1>7, <2>1 DEF RejectWrite, EmitResult
  <2>3. QED
    BY <2>1, <2>2 DEF Commanded
<1>8. CASE StopBridge
  <2>1. inbox' = <<>> /\ (result' = "ok" => result = "ok") /\ UNCHANGED <<run, applied>>
    BY <1>8 DEF StopBridge, EmitResult
  <2>2. QED
    BY <2>1 DEF Commanded
<1>9. CASE Crash \/ SignIn
  <2>1. inbox' = <<>> /\ result' = "none" /\ UNCHANGED applied
    BY <1>9 DEF Crash, SignIn, Restart
  <2>2. QED
    BY <2>1 DEF Commanded
<1>10. CASE SetTimesOut
  BY <1>10 DEF SetTimesOut
<1>11. QED
  BY <1>1, <1>2, <1>3, <1>4, <1>5, <1>6, <1>7, <1>8, <1>9, <1>10 DEF Next, Working, Failing

(* The cursor passes a clip that was written, and only that one.           *)
LEMMA VerifiedStep ==
  ASSUME TypeOK, Ordered, InLog, Consecutive, Commanded, Verified(cursor), Verified(run.top),
         applied \subseteq applied', [Next]_vars
  PROVE  Verified(cursor)' /\ Verified(run.top)'
<1>1. RoundMoves /\ CursorMoves
  BY Moves
<1>2. Verified(0)
  <2>1. \A c \in Range(log) : ~(c.seq <= 0)
    BY LogTypes DEF Range
  <2>2. QED
    BY <2>1 DEF Verified
<1>3. ASSUME run.page # <<>>, Settled PROVE Verified(Passed.top)
  <2> DEFINE h == Head(run.page)
  <2>1. h = run.page[1] /\ 1 \in DOMAIN run.page /\ h \in Range(log)
    BY <1>3, TailElements DEF InLog, TypeOK
  <2>2. h.origin = Self \/ h.kind = "garbled" \/ h.seq \in applied
    BY <1>3 DEF Settled, Commanded
  <2>3. Passed.top = IF h.seq > run.top THEN h.seq ELSE run.top
    BY DEF Passed, TypeOK
  <2>4. ASSUME NEW c \in Range(log), c.seq <= Passed.top, ~(c.seq <= run.top)
        PROVE  c = h
    <3>1. run.top < c.seq /\ c.seq <= h.seq
      BY <2>1, <2>3, <2>4, LogTypes, SyncAssumption DEF TypeOK
    <3>2. PICK j \in DOMAIN run.page : j <= 1 /\ run.page[j] = c
      BY <2>1, <3>1 DEF Consecutive
    <3>3. j = 1
      BY <3>2 DEF TypeOK
    <3>4. QED
      BY <2>1, <3>2, <3>3
  <2>5. QED
    BY <2>2, <2>4 DEF Verified
<1>4. ASSUME NEW x \in 0..head, Verified(x) PROVE Verified(x)'
  <2>1. CASE UNCHANGED server
    BY <1>4, <2>1 DEF server, Verified
  <2>2. ASSUME NEW c \in Clip, NewClip(c) PROVE Verified(x)'
    <3>1. c.seq \in Nat /\ head \in Nat /\ head < c.seq /\ x \in Nat /\ x <= head
      BY <2>2, SyncAssumption DEF NewClip, Clip, TypeOK
    <3>2. ~(c.seq <= x) /\ Range(log') = Range(log) \union {c}
      BY <2>2, <3>1, Grown DEF NewClip
    <3>3. QED
      BY <1>4, <3>2 DEF Verified
  <2>3. QED
    BY <2>1, <2>2, LogMoves
<1>5. cursor \in 0..head /\ run.top \in 0..head /\ 0 \in 0..head
  BY SyncAssumption DEF InLog, TypeOK
<1>6. \A x \in {cursor, run.top, 0} : Verified(x)'
  BY <1>2, <1>4, <1>5
<1>7. Verified(cursor)'
  <2>1. cursor' \in {cursor, run.top, 0}
    BY <1>1 DEF CursorMoves
  <2>2. QED
    BY <1>6, <2>1 DEF Verified
<1>8. Verified(run.top)'
  <2>1. CASE run'.top \in {cursor, run.top, 0}
    BY <1>6, <2>1 DEF Verified
  <2>2. CASE run.page # <<>> /\ Settled /\ run' = Passed
    <3>1. Passed.top \in 0..head
      <4>1. Head(run.page) \in Range(log)
        BY <2>2, TailElements DEF InLog, TypeOK
      <4>2. Head(run.page).seq \in 0..head
        BY <4>1, LogTypes DEF Ordered, Range, TypeOK
      <4>3. Passed.top \in {run.top, Head(run.page).seq}
        BY DEF Passed, TypeOK
      <4>4. QED
        BY <1>5, <4>2, <4>3
    <3>2. Verified(Passed.top)
      BY <1>3, <2>2
    <3>3. QED
      BY <1>4, <2>2, <3>1, <3>2 DEF Verified
  <2>3. QED
    BY <1>1, <2>1, <2>2 DEF RoundMoves, Rests
<1>9. QED
  BY <1>7, <1>8

LEMMA AnsweringStep ==
  ASSUME TypeOK, Ordered, InLog, Consecutive, Answering, [Next]_vars
  PROVE  Answering'
<1>1. ASSUME ~SlowBridge PROVE Commanded' /\ Verified(cursor)' /\ Verified(run.top)'
  <2>1. Commanded /\ Verified(cursor) /\ Verified(run.top)
    BY <1>1 DEF Answering, Commanded
  <2>2. Commanded' /\ applied \subseteq applied'
    BY <1>1, <2>1, CommandStep
  <2>3. QED
    BY <2>1, <2>2, VerifiedStep
<1>2. QED
  BY <1>1 DEF Answering, Commanded

(* What is stored is the oldest copy that waits; what comes is newer than  *)
(* all.                                                                    *)
LEMMA CopiesStep ==
  ASSUME TypeOK, Ordered, Copies, [Next]_vars
  PROVE  Copies'
<1>1. pending \in Seq(Upload) /\ copies \in Nat
  BY DEF TypeOK
<1>2. \A i \in DOMAIN pending : pending[i].cid \in Nat /\ i \in Nat
  <2>1. \A i \in DOMAIN pending : pending[i] \in Upload /\ i \in Nat
    BY <1>1
  <2>2. QED
    BY <2>1 DEF Upload
<1>3. \A i \in DOMAIN log : log[i].cid \in Nat /\ i \in Nat
  BY LogTypes DEF Clip
<1>4. pending # <<>> =>
        /\ \A i \in DOMAIN Tail(pending) : /\ i + 1 \in DOMAIN pending /\ i \in Nat
                                           /\ Tail(pending)[i] = pending[i + 1]
        /\ 1 \in DOMAIN pending /\ Head(pending) = pending[1] /\ Tail(pending) \in Seq(Upload)
        /\ \A i \in DOMAIN pending : pending[1].cid <= pending[i].cid
  <2>1. ASSUME pending # <<>>, NEW i \in DOMAIN pending
        PROVE  1 \in DOMAIN pending /\ pending[1].cid <= pending[i].cid
    <3>1. i = 1 \/ 1 < i
      BY <1>1
    <3>2. 1 \in DOMAIN pending
      BY <1>1, <2>1
    <3>3. QED
      BY <1>2, <3>1, <3>2 DEF Copies
  <2>2. ASSUME pending # <<>>
        PROVE  /\ \A i \in DOMAIN Tail(pending) : /\ i + 1 \in DOMAIN pending
                                                  /\ Tail(pending)[i] = pending[i + 1]
               /\ 1 \in DOMAIN pending /\ Head(pending) = pending[1] /\ Tail(pending) \in Seq(Upload)
    BY <1>1, <2>2, TailElements
  <2>3. ASSUME pending # <<>> PROVE \A i \in DOMAIN Tail(pending) : i \in Nat
    BY <2>2, <2>3
  <2>4. QED
    BY <2>1, <2>2, <2>3
\* The queue by itself.
<1> DEFINE After(q, n) == /\ \A i, j \in DOMAIN q : i < j => q[i].cid < q[j].cid
                          /\ \A i \in DOMAIN q : q[i].cid <= n /\ q[i].cid \in Nat
                          /\ \A i \in DOMAIN log, j \in DOMAIN q : log[i].cid <= q[j].cid
<1>5. After(pending, copies)
  BY <1>2 DEF Copies
<1>6. pending # <<>> => After(Tail(pending), copies)
  <2>1. ASSUME pending # <<>>
        PROVE  \A i, j \in DOMAIN Tail(pending) :
                 i < j => Tail(pending)[i].cid < Tail(pending)[j].cid
    <3>1. ASSUME NEW i \in DOMAIN Tail(pending), NEW j \in DOMAIN Tail(pending), i < j
          PROVE  Tail(pending)[i].cid < Tail(pending)[j].cid
      <4>1. i + 1 \in DOMAIN pending /\ j + 1 \in DOMAIN pending /\ i + 1 < j + 1
        BY <1>4, <2>1, <3>1
      <4>2. pending[i + 1].cid < pending[j + 1].cid
        BY <4>1, <1>5
      <4>3. QED
        BY <1>4, <2>1, <4>2
    <3>2. QED
      BY <3>1
  <2>2. QED
    BY <1>4, <1>5, <2>1
<1>7. CASE \E c \in Clip : NewClip(c)
  <2>1. PICK c \in Clip : NewClip(c)
    BY <1>7
  <2>2. /\ DOMAIN log' = DOMAIN log \union {Len(log) + 1} /\ Len(log) \in Nat /\ log' # log
        /\ \A i \in DOMAIN log : i <= Len(log) /\ log'[i] = log[i]
        /\ log'[Len(log) + 1] = c
    <3>1. Len(log') = Len(log) + 1 /\ Len(log) \in Nat
      BY <2>1, Grown DEF NewClip, TypeOK
    <3>2. QED
      BY <2>1, <3>1, Grown DEF NewClip
  <2>3. /\ c.cid \in Nat /\ (c.origin = Self <=> c.cid # 0)
        /\ c.cid # 0 => /\ pending # <<>> /\ c.cid = pending[1].cid
                        /\ \A i \in DOMAIN log : log[i].cid # c.cid
    BY <1>4, <2>1 DEF NewClip, Clip
  <2>4. CopiesInOrder'
    <3>1. ASSUME NEW i \in DOMAIN log', NEW j \in DOMAIN log', log'[i].origin = Self,
                 log'[j].origin = Self, i < j
          PROVE  log'[i].cid < log'[j].cid
      <4>1. i \in DOMAIN log
        BY <2>2, <3>1, <1>3
      <4>2. CASE j \in DOMAIN log
        BY <2>2, <3>1, <4>1, <4>2 DEF Copies, CopiesInOrder
      <4>3. CASE j = Len(log) + 1
        <5>1. log'[j] = c /\ log'[i] = log[i] /\ c.cid # 0
          BY <2>2, <2>3, <3>1, <4>1, <4>3
        <5>2. 1 \in DOMAIN pending /\ log[i].cid <= pending[1].cid
          BY <1>4, <1>5, <2>3, <4>1, <5>1
        <5>3. log[i].cid # c.cid /\ c.cid = pending[1].cid /\ log[i].cid \in Nat
          BY <1>3, <2>3, <4>1, <5>1
        <5>4. QED
          BY <2>3, <5>1, <5>2, <5>3
      <4>4. QED
        BY <2>2, <4>2, <4>3
    <3>2. QED
      BY <3>1 DEF CopiesInOrder
  <2>5. copies' = copies /\ (pending' = pending \/ (pending # <<>> /\ pending' = Tail(pending)))
    BY <2>2, CopiesMove DEF queue
  <2>6. After(pending', copies)
    BY <1>5, <1>6, <2>5
  <2>7. \A j \in DOMAIN pending' : c.cid <= pending'[j].cid
    <3>1. CASE c.cid = 0
      BY <2>6, <3>1
    <3>2. CASE c.cid # 0
      BY <1>4, <2>3, <2>5, <3>2
    <3>3. QED
      BY <3>1, <3>2
  <2>8. \A i \in DOMAIN log', j \in DOMAIN pending' : log'[i].cid <= pending'[j].cid
    BY <2>2, <2>6, <2>7
  <2>9. QED
    BY <2>4, <2>5, <2>6, <2>8 DEF Copies
<1>8. CASE UNCHANGED server
  <2>1. log' = log
    BY <1>8 DEF server
  <2>2. ASSUME copies' \in Nat, After(pending', copies') PROVE Copies'
    BY <2>1, <2>2 DEF Copies, CopiesInOrder
  <2>3. CASE copies' = copies /\ (pending' = pending \/ (pending # <<>> /\ pending' = Tail(pending)))
    BY <1>1, <1>5, <1>6, <2>2, <2>3
  <2>4. ASSUME NEW u, u.cid = copies + 1, copies' = copies + 1, Enqueue(u)
        PROVE  Copies'
    <3>1. \A i \in DOMAIN log : log[i].cid <= copies /\ log[i].cid \in Nat
      BY <1>3 DEF Ordered
    <3>2. ASSUME NEW q \in Seq(Upload), After(q, copies), pending' = Append(q, u)
          PROVE  After(pending', copies')
      <4>1. /\ DOMAIN pending' = DOMAIN q \union {Len(q) + 1} /\ Len(q) \in Nat
            /\ \A i \in DOMAIN q : i <= Len(q) /\ i \in Nat /\ pending'[i] = q[i]
            /\ pending'[Len(q) + 1] = u
        BY <3>2
      <4>2. \A i, j \in DOMAIN pending' : i < j => pending'[i].cid < pending'[j].cid
        <5> TAKE i, j \in DOMAIN pending'
        <5>1. CASE i \in DOMAIN q /\ j \in DOMAIN q
          BY <3>2, <4>1, <5>1
        <5>2. CASE i \in DOMAIN q /\ j = Len(q) + 1
          <6>1. q[i].cid <= copies /\ q[i].cid \in Nat
            BY <3>2, <5>2
          <6>2. QED
            BY <1>1, <2>4, <4>1, <5>2, <6>1
        <5>3. CASE i = Len(q) + 1
          BY <4>1, <5>3
        <5>4. QED
          BY <4>1, <5>1, <5>2, <5>3
      <4>3. \A i \in DOMAIN pending' : pending'[i].cid <= copies' /\ pending'[i].cid \in Nat
        BY <1>1, <2>4, <3>2, <4>1
      <4>4. \A i \in DOMAIN log, j \in DOMAIN pending' : log[i].cid <= pending'[j].cid
        BY <1>1, <2>4, <3>1, <3>2, <4>1
      <4>5. QED
        BY <4>2, <4>3, <4>4
    <3>3. copies' \in Nat
      BY <1>1, <2>4
    <3>4. CASE Len(pending) < PendingCap
      BY <1>1, <1>5, <2>2, <2>4, <3>2, <3>3, <3>4 DEF Enqueue
    <3>5. CASE ~(Len(pending) < PendingCap)
      <4>1. pending # <<>> /\ pending' = Append(Tail(pending), u)
        BY <1>1, <2>4, <3>5, SyncAssumption DEF Enqueue
      <4>2. Tail(pending) \in Seq(Upload) /\ After(Tail(pending), copies)
        BY <1>4, <1>6, <4>1
      <4>3. QED
        BY <2>2, <3>2, <3>3, <4>1, <4>2
    <3>6. QED
      BY <3>4, <3>5
  <2>5. CASE \/ UNCHANGED queue
             \/ pending # <<>> /\ pending' = Tail(pending) /\ UNCHANGED copies
    BY <2>3, <2>5 DEF queue
  <2>6. CASE copies' = copies + 1 /\
             Enqueue([cid |-> copies + 1, text |-> Head(events).text, by |-> Head(events).by])
    BY <2>4, <2>6
  <2>7. QED
    BY <2>5, <2>6, CopiesMove
<1>9. QED
  BY <1>7, <1>8, LogMoves

(* While the screen has not been locked, what poll reports is a copy of    *)
(* the user.                                                               *)
LEMMA SightsStep ==
  ASSUME TypeOK, Sights, [Next]_vars
  PROVE  Sights'
<1> USE DEF bridge, queue
\* What has been reported.
<1> DEFINE Seen(q) == /\ \A i \in DOMAIN q : q[i].kind = "clip" => q[i].text \in Text
                      /\ ~locked => \A i \in DOMAIN q : q[i].kind = "clip" => q[i].by = "user"
           ByUser == \A i \in DOMAIN pending : pending[i].by = "user"
<1>1. events \in Seq(Event) /\ EventCap \in Nat /\ Seen(events) /\ (~locked => ByUser)
  BY SyncAssumption DEF TypeOK, Sights
<1>2. ASSUME NEW e \in Event, e.kind = "clip" => e.text \in Text,
             ~locked /\ e.kind = "clip" => e.by = "user",
             NEW q \in Seq(Event), Seen(q)
      PROVE  Seen(Offer(q, e, EventCap))
  BY <1>1, <1>2, OfferElements
<1>3. CASE \/ RemoteClip \/ Connect \/ (\E c \in wire : Receive(c)) \/ Disconnect \/ TimerSync
           \/ WakeSync \/ PushedClip \/ UploadLost \/ Uploaded \/ UNCHANGED vars
  <2>1. UNCHANGED <<up, events, clipboard, polled, locked, pending>>
    BY <1>3 DEF RemoteClip, Connect, Receive, Disconnect, TimerSync, WakeSync, PushedClip, UploadLost,
         Uploaded, vars
  <2>2. QED
    BY <2>1 DEF Sights
<1>4. CASE \/ PullPage \/ PassClip \/ ApplyClip \/ SetAnswered \/ SaveCursor \/ Acknowledge
           \/ NeedsSignIn \/ AnswerLost \/ Unauthorized \/ SetTimesOut
  <2>1. UNCHANGED <<up, events, clipboard, polled, locked, pending>>
    BY <1>4 DEF PullPage, PassClip, ApplyClip, SetAnswered, SaveCursor, Acknowledge, NeedsSignIn,
         AnswerLost, Unauthorized, SetTimesOut
  <2>2. QED
    BY <2>1 DEF Sights
<1>5. CASE LocalCopy
  <2>1. PICK t \in Text \ {clipboard.text} :
          /\ clipboard' = [text |-> t, by |-> "user"]
          /\ IF up /\ t # polled THEN Report("clip") ELSE UNCHANGED <<events, polled>>
          /\ UNCHANGED <<up, locked, pending>>
    BY <1>5 DEF LocalCopy
  <2> DEFINE e == Sight("clip", clipboard')
  <2>2. e \in Event /\ e.text \in Text /\ e.by = "user" /\ clipboard'.text = t
    BY <2>1 DEF Sight, Event, Writer
  <2>3. events' \in {events, Offer(events, e, EventCap)}
    BY <2>1 DEF Report
  <2>4. Seen(events')
    BY <1>1, <1>2, <2>2, <2>3
  <2>5. up => polled' = clipboard'.text
    BY <2>1, <2>2 DEF Report
  <2>6. QED
    BY <1>1, <2>1, <2>4, <2>5 DEF Sights
<1>6. CASE Poll
  <2>1. /\ up /\ clipboard.text \notin {NoText, polled} /\ clipboard' = clipboard
        /\ polled' = clipboard'.text /\ events' = Offer(events, Sight("clip", clipboard'), EventCap)
        /\ UNCHANGED <<up, locked, pending>>
    BY <1>6 DEF Poll, Report
  <2>2. locked
    BY <2>1 DEF Sights
  <2>3. Sight("clip", clipboard') \in Event /\ Sight("clip", clipboard').text \in Text
    BY <2>1 DEF Sight, Event, TypeOK
  <2>4. Seen(events')
    BY <1>1, <1>2, <2>1, <2>2, <2>3
  <2>5. QED
    BY <2>1, <2>2, <2>4 DEF Sights
<1>7. CASE StartBridge
  <2> DEFINE init == Sight("init", clipboard)
             ready == Offer(events, Ready, EventCap)
  <2>1. Ready \in Event /\ Ready.kind = "ready" /\ init \in Event /\ init.kind = "init"
    BY DEF Ready, Sight, Event, Writer, TypeOK
  <2>2. ready \in Seq(Event) /\ Seen(ready)
    <3>1. Seen(ready)
      BY <1>1, <1>2, <2>1
    <3>2. ready \in Seq(Event)
      BY <1>1, <2>1, OfferTypes DEF TypeOK
    <3>3. QED
      BY <3>1, <3>2
  <2>3. Seen(Offer(ready, init, EventCap))
    BY <1>2, <2>1, <2>2
  <2>4. events' \in {ready, Offer(ready, init, EventCap)} /\ UNCHANGED <<clipboard, pending>>
        /\ (~locked' => ~locked /\ polled' = clipboard.text)
    BY <1>7 DEF StartBridge
  <2>5. Seen(events')
    BY <2>2, <2>3, <2>4
  <2>6. QED
    BY <1>1, <2>4, <2>5 DEF Sights
<1>8. CASE WriteClipboard
  <2>1. polled' = clipboard'.text /\ UNCHANGED <<up, events, locked, pending>>
    BY <1>8 DEF WriteClipboard
  <2>2. QED
    BY <1>1, <2>1 DEF Sights
<1>9. CASE RejectWrite \/ StopBridge
  <2>1. (locked' \/ (~up' /\ UNCHANGED locked)) /\ UNCHANGED <<events, pending>>
    BY <1>9 DEF RejectWrite, StopBridge
  <2>2. QED
    BY <1>1, <2>1 DEF Sights
<1>10. CASE Crash \/ SignIn
  <2>1. ~up' /\ events' = <<>> /\ UNCHANGED <<pending, locked>>
    BY <1>10 DEF Crash, SignIn, Restart
  <2>2. QED
    BY <1>1, <2>1 DEF Sights
<1>11. CASE UploadClip
  <2>1. pending # <<>> /\ pending' = Tail(pending)
        /\ UNCHANGED <<up, events, clipboard, polled, locked>>
    BY <1>11 DEF UploadClip, Uploading
  <2>2. ByUser => ByUser'
    BY <2>1, TailElements DEF TypeOK
  <2>3. QED
    BY <1>1, <2>1, <2>2 DEF Sights
<1>12. CASE BridgeEvent
  <2>1. events # <<>> /\ events' = Tail(events) /\ UNCHANGED <<up, clipboard, polled, locked>>
    BY <1>12 DEF BridgeEvent
  <2>2. /\ \A i \in DOMAIN Tail(events) : i + 1 \in DOMAIN events /\ Tail(events)[i] = events[i + 1]
        /\ 1 \in DOMAIN events /\ Head(events) = events[1] /\ Head(events) \in Event
    BY <1>1, <2>1, TailElements
  <2>3. Seen(events')
    BY <1>1, <2>1, <2>2
  <2>4. ~locked => ByUser'
    <3>1. CASE UNCHANGED queue
      BY <1>1, <3>1
    <3>2. CASE Head(events).kind = "clip" /\ copies' = copies + 1
               /\ Enqueue([cid |-> copies + 1, text |-> Head(events).text, by |-> Head(events).by])
      <4> DEFINE u == [cid |-> copies + 1, text |-> Head(events).text, by |-> Head(events).by]
      <4>1. pending \in Seq(Upload) /\ u \in Upload /\ (~locked => u.by = "user")
        <5>1. Head(events).text \in Text /\ (~locked => Head(events).by = "user")
          BY <1>1, <2>2, <3>2
        <5>2. QED
          BY <2>2, <5>1 DEF Upload, Event, TypeOK
      <4>2. CASE pending' = Append(pending, u)
        BY <1>1, <4>1, <4>2
      <4>3. CASE pending # <<>> /\ pending' = Append(Tail(pending), u)
        <5>1. Tail(pending) \in Seq(Upload)
              /\ \A i \in DOMAIN Tail(pending) : i + 1 \in DOMAIN pending
                                                 /\ Tail(pending)[i] = pending[i + 1]
          BY <4>1, <4>3, TailElements
        <5>2. ~locked => \A i \in DOMAIN Tail(pending) : Tail(pending)[i].by = "user"
          BY <1>1, <5>1
        <5>3. QED
          BY <4>1, <4>3, <5>1, <5>2
      <4>4. pending # <<>> \/ Len(pending) < PendingCap
        BY <4>1, SyncAssumption
      <4>5. QED
        BY <3>2, <4>2, <4>3, <4>4 DEF Enqueue
    <3>3. QED
      BY <1>12, <3>1, <3>2 DEF BridgeEvent
  <2>5. QED
    BY <2>1, <2>3, <2>4 DEF Sights
<1>13. QED
  BY <1>3, <1>4, <1>5, <1>6, <1>7, <1>8, <1>9, <1>10, <1>11, <1>12 DEF Next, Working, Failing

-----------------------------------------------------------------------------
(* What is still to be done is known to somebody.                          *)

LEMMA RangeOfAppend ==
  ASSUME NEW S, NEW q \in Seq(S), NEW x \in S
  PROVE  Range(Append(q, x)) = Range(q) \union {x}
<1>1. \A i \in DOMAIN q : i \in DOMAIN Append(q, x) /\ Append(q, x)[i] = q[i]
  BY Appended
<1>2. DOMAIN Append(q, x) = DOMAIN q \union {Len(q) + 1} /\ Append(q, x)[Len(q) + 1] = x
  BY Appended
<1>3. QED
  BY <1>1, <1>2 DEF Range

LEMMA RangeOfTail ==
  ASSUME NEW S, NEW q \in Seq(S), q # <<>>
  PROVE  Range(q) = {Head(q)} \union Range(Tail(q))
<1>1. Head(q) = q[1] /\ 1 \in DOMAIN q /\ \A i \in DOMAIN Tail(q) : i + 1 \in DOMAIN q /\ Tail(q)[i] = q[i + 1]
  BY TailElements
<1>2. \A i \in DOMAIN q : i = 1 \/ (i - 1 \in DOMAIN Tail(q) /\ Tail(q)[i - 1] = q[i])
  OBVIOUS
<1>3. ASSUME NEW y \in Range(q) PROVE y = Head(q) \/ y \in Range(Tail(q))
  <2>1. PICK i \in DOMAIN q : y = q[i]
    BY DEF Range
  <2>2. CASE i = 1
    BY <1>1, <2>1, <2>2
  <2>3. CASE i - 1 \in DOMAIN Tail(q) /\ Tail(q)[i - 1] = q[i]
    BY <2>1, <2>3 DEF Range
  <2>4. QED
    BY <1>2, <2>2, <2>3
<1>4. \A y \in Range(Tail(q)) : y \in Range(q)
  BY <1>1 DEF Range
<1>5. Head(q) \in Range(q)
  BY <1>1 DEF Range
<1>6. QED
  BY <1>3, <1>4, <1>5

\* A page that is not full ends with the log.
LEMMA LastPage ==
  ASSUME TypeOK, Ordered, Reached(cursor), Len(ClipsAfter(cursor)) # PageLimit,
         NEW c \in Range(log), ~(c.seq <= cursor)
  PROVE  c \in Range(ClipsAfter(cursor))
<1> DEFINE page == ClipsAfter(cursor)
<1>1. PICK n \in 0..Len(log) : Reach(cursor, n)
  BY DEF Reached
<1>2. PICK k \in DOMAIN log : c = log[k]
  BY DEF Range
<1>3. log \in Seq(Clip) /\ Len(log) \in Nat /\ n \in Nat /\ k \in 1..Len(log) /\ PageLimit \in Nat
  BY <1>1, <1>2, SyncAssumption DEF TypeOK
<1>4. ~(k <= n)
  BY <1>1, <1>2 DEF Reach
<1>5. DOMAIN page = 1..(Len(log) - n)
  <2> DEFINE m == IF n + PageLimit < Len(log) THEN n + PageLimit ELSE Len(log)
  <2>1. Len(page) = m - n /\ DOMAIN page = 1..(m - n)
    <3>1. Len(page) = m - n /\ page \in Seq(Clip)
      BY <1>1, PageOfLog
    <3>2. QED
      BY <3>1
  <2>2. ~(n + PageLimit < Len(log))
    BY <1>3, <2>1
  <2>3. QED
    BY <2>1, <2>2
<1>6. k - n \in DOMAIN page /\ page[k - n] = log[(k - n) + n] /\ (k - n) + n = k
  BY <1>1, <1>3, <1>4, <1>5, PageOfLog
<1>7. QED
  BY <1>2, <1>6 DEF Range

(* The daemon finds its work again: a step leaves no clip behind that      *)
(* nobody knows of, and no copy that no round takes up.                    *)
LEMMA KnownStep ==
  ASSUME TypeOK, Ordered, InLog, Consecutive, Known, [Next]_vars
  PROVE  Known'
<1> USE DEF server, queue, session, round, socket, bridge
<1>0. run \in [pc : Phase, page : Seq(Clip), top : 0..MaxSeq, more : BOOLEAN, push : BOOLEAN]
  BY DEF TypeOK
<1>1. CASE LocalCopy \/ Poll \/ StartBridge \/ StopBridge \/ WriteClipboard \/ RejectWrite \/ UNCHANGED vars
  <2>1. UNCHANGED <<log, pending, signedIn, cursor, run, timer, failed, wake, pushed, online, wire>>
    BY <1>1 DEF LocalCopy, Poll, StartBridge, StopBridge, WriteClipboard, RejectWrite, vars
  <2>2. QED
    BY <2>1 DEF Known, Whole, Ahead
\* A round begins, which fetches everything; no key or a failure stop it.
<1>2. ASSUME run' = Syncing, online' => signedIn' PROVE Known'
  <2>1. run'.pc = "upload" /\ ~run'.push /\ ~run'.more
    BY <1>2 DEF Syncing, Idle
  <2>2. QED
    BY <1>2, <2>1 DEF Known, Whole, Ahead
<1>3. ASSUME run' = Idle, failed', online' => signedIn' PROVE Known'
  <2>1. run'.pc = "idle" /\ ~run'.push /\ ~run'.more
    BY <1>3 DEF Idle
  <2>2. QED
    BY <1>3, <2>1 DEF Known, Whole, Ahead
<1>4. CASE TimerSync \/ WakeSync
  BY <1>2, <1>4 DEF TimerSync, WakeSync, Known
<1>5. CASE Crash \/ SignIn
  BY <1>2, <1>5 DEF Crash, SignIn, Restart
<1>6. CASE UploadLost \/ SetTimesOut \/ AnswerLost
  <2>1. run' = Idle /\ failed' /\ UNCHANGED <<online, signedIn>>
    BY <1>6 DEF UploadLost, SetTimesOut, AnswerLost, Finish
  <2>2. QED
    BY <1>3, <2>1 DEF Known
<1>7. CASE Unauthorized \/ NeedsSignIn
  BY <1>3, <1>7 DEF Unauthorized, NeedsSignIn, SignedOut, Known
<1>8. CASE Connect \/ Disconnect
  <2>1. wake' /\ (online' => signedIn') /\ UNCHANGED <<pending, run, timer, failed>>
    BY <1>8 DEF Connect, Disconnect
  <2>2. QED
    BY <2>1 DEF Known, Whole
<1>9. CASE RemoteClip
  <2>1. PICK c \in Clip : log' = Append(log, c) /\ wire' = IF online THEN wire \union {c} ELSE wire
    <3>1. PICK n \in head + 1 .. MaxSeq - MaxCopies, t \in Text, k \in Kind :
            LET c == [seq |-> n, origin |-> Other, cid |-> 0, text |-> t, kind |-> k]
            IN  log' = Append(log, c) /\ wire' = IF online THEN wire \union {c} ELSE wire
      BY <1>9 DEF RemoteClip
    <3>2. n \in 1..MaxSeq
      BY SyncAssumption DEF TypeOK
    <3>3. [seq |-> n, origin |-> Other, cid |-> 0, text |-> t, kind |-> k] \in Clip
      BY <3>2, SyncAssumption DEF Clip
    <3>4. QED
      BY <3>1, <3>3
  <2>2. UNCHANGED <<pending, signedIn, cursor, run, timer, failed, wake, pushed, online>>
    BY <1>9 DEF RemoteClip
  <2>3. Range(log') = Range(log) \union {c}
    BY <2>1, Grown
  <2>4. QED
    BY <2>1, <2>2, <2>3 DEF Known, Whole, Ahead
<1>10. ASSUME NEW c \in wire, Receive(c) PROVE Known'
  <2>1. /\ UNCHANGED <<log, pending, signedIn, cursor, run, timer, failed, online>>
        /\ wire' = wire \ {c} /\ pushed' = Offer(pushed, c, PushCap)
        /\ wake \/ Len(pushed) >= PushCap => wake'
    BY <1>10 DEF Receive
  <2>2. ~wake' => ~wake /\ Range(pushed') = Range(pushed) \union {c}
    <3>1. c \in Clip /\ pushed \in Seq(Clip) /\ Len(pushed) \in Nat /\ PushCap \in Nat
      BY SyncAssumption DEF TypeOK
    <3>2. ~wake' => ~wake /\ Len(pushed) < PushCap
      BY <2>1, <3>1
    <3>3. QED
      BY <2>1, <3>1, <3>2, RangeOfAppend DEF Offer
  <2>3. QED
    BY <2>1, <2>2 DEF Known, Whole, Ahead
<1>11. CASE BridgeEvent
  <2>1. UNCHANGED <<log, signedIn, cursor, timer, failed, wake, pushed, online, wire>>
    BY <1>11 DEF BridgeEvent
  <2>2. run' = Syncing \/ (run' = run /\ pending' = pending)
    BY <1>11 DEF BridgeEvent
  <2>3. QED
    BY <1>2, <2>1, <2>2 DEF Known, Whole, Ahead
<1>12. CASE PushedClip
  <2> DEFINE c == Head(pushed)
  <2>1. /\ UNCHANGED <<log, pending, signedIn, cursor, failed, wake, online, wire>>
        /\ run.pc = "idle" /\ pushed # <<>> /\ pushed' = Tail(pushed)
    BY <1>12 DEF PushedClip
  <2>2. Range(pushed) = {c} \union Range(pushed')
    BY <2>1, RangeOfTail DEF TypeOK
  <2>3. CASE c.seq <= cursor
    <3>1. run' = run /\ timer' = Delay(TRUE)
      BY <1>12, <2>3 DEF PushedClip, ActionForPushedClip
    <3>2. QED
      BY <2>1, <2>2, <2>3, <3>1 DEF Known, Whole, Ahead, Delay
  <2>4. CASE ~(c.seq <= cursor) /\ c.seq = cursor + 1
    <3>1. /\ run' = [pc |-> "apply", page |-> <<c>>, top |-> cursor, more |-> FALSE, push |-> TRUE]
          /\ timer' = timer
      BY <1>12, <2>4 DEF PushedClip, ActionForPushedClip
    <3>2. run'.pc = "apply" /\ run'.push /\ ~run'.more /\ Range(run'.page) = {c}
      BY <3>1 DEF Range
    <3>3. QED
      BY <2>1, <2>2, <3>2 DEF Known, Whole, Ahead
  <2>5. CASE ~(c.seq <= cursor) /\ c.seq # cursor + 1
    <3>1. run' = Syncing
      BY <1>12, <2>5 DEF PushedClip, ActionForPushedClip
    <3>2. QED
      BY <1>2, <2>1, <3>1 DEF Known
  <2>6. QED
    BY <2>3, <2>4, <2>5
<1>13. CASE UploadClip
  <2>1. UNCHANGED <<signedIn, run, timer, failed, online, wake>> /\ run.pc = "upload"
    BY <1>13 DEF UploadClip, Uploading
  <2>2. QED
    BY <2>1 DEF Known, Whole, Ahead
<1>14. CASE Uploaded
  <2>1. UNCHANGED <<signedIn, timer, failed, online, wake, pending>> /\ pending = <<>>
        /\ run.pc = "upload" /\ run' = [run EXCEPT !.pc = "pull"]
    BY <1>14 DEF Uploaded
  <2>2. run'.pc = "pull" /\ run'.push = run.push /\ run'.more = run.more
    BY <1>0, <2>1
  <2>3. QED
    BY <2>1, <2>2 DEF Known, Whole, Ahead
<1>15. CASE PullPage
  <2> DEFINE page == ClipsAfter(cursor)
  <2>1. UNCHANGED <<log, pending, signedIn, cursor, online, wire, wake, pushed>> /\ run.pc = "pull"
    BY <1>15 DEF PullPage
  <2>2. CASE Fits(page)
    <3>1. /\ run' = [pc |-> "apply", page |-> page, top |-> cursor,
                     more |-> Len(page) = PageLimit, push |-> FALSE]
          /\ UNCHANGED <<timer, failed>>
      BY <1>15, <2>2 DEF PullPage
    <3>2. /\ run'.pc = "apply" /\ run'.page = page /\ ~run'.push
          /\ run'.more <=> Len(page) = PageLimit
      BY <3>1
    <3>3. ~run'.more => \A c \in Range(log) : c.seq <= cursor \/ c \in Range(run'.page)
      BY <3>2, LastPage DEF Consecutive
    <3>4. Whole /\ pending = <<>>
      BY <2>1 DEF Known, Whole
    <3>5. QED
      BY <2>1, <3>1, <3>2, <3>3, <3>4 DEF Known, Whole, Ahead
  <2>3. CASE ~Fits(page)
    <3>1. run' = Idle /\ failed'
      BY <1>15, <2>3 DEF PullPage, Finish
    <3>2. QED
      BY <1>3, <2>1, <3>1 DEF Known
  <2>4. QED
    BY <2>2, <2>3
\* A clip is passed over or written.
<1>16. ASSUME run.pc \in {"apply", "setting"}, run.page # <<>>, run' = Passed,
              UNCHANGED <<log, pending, signedIn, cursor, timer, failed, wake, pushed, online, wire>>
       PROVE  Known'
  <2>1. /\ run'.pc = "apply" /\ run'.page = Tail(run.page) /\ run'.push = run.push
        /\ run'.more = run.more
        /\ run'.top = IF Head(run.page).seq > run.top THEN Head(run.page).seq ELSE run.top
    BY <1>0, <1>16 DEF Passed
  <2>2. Range(run.page) = {Head(run.page)} \union Range(run'.page)
    BY <1>0, <1>16, <2>1, RangeOfTail
  <2>3. \A c \in Range(log) : c.seq <= run.top \/ c = Head(run.page) => c.seq <= run'.top
    <3>1. Head(run.page) \in Clip /\ run.top \in Nat
      BY <1>0, <1>16, TailElements, SyncAssumption
    <3>2. Head(run.page).seq \in Nat /\ \A c \in Range(log) : c.seq \in Nat
      BY <3>1, LogTypes, SyncAssumption DEF Clip
    <3>3. QED
      BY <2>1, <3>1, <3>2
  <2>4. QED
    BY <1>16, <2>1, <2>2, <2>3 DEF Known, Whole, Ahead
<1>17. CASE PassClip
  BY <1>16, <1>17 DEF PassClip
<1>18. CASE ApplyClip
  <2>1. UNCHANGED <<log, pending, signedIn, cursor, wake, pushed, online, wire>> /\ run.pc = "apply"
    BY <1>18 DEF ApplyClip
  <2>2. CASE run' = [run EXCEPT !.pc = "setting"] /\ UNCHANGED <<timer, failed>>
    <3>1. /\ run'.pc = "setting" /\ run'.page = run.page /\ run'.top = run.top
          /\ run'.more = run.more /\ run'.push = run.push
      BY <1>0, <2>2
    <3>2. QED
      BY <2>1, <2>2, <3>1 DEF Known, Whole, Ahead
  <2>3. CASE Finish(FALSE)
    BY <1>3, <2>1, <2>3 DEF Finish, Known
  <2>4. QED
    BY <1>18, <2>2, <2>3 DEF ApplyClip
<1>19. CASE SetAnswered
  <2>1. UNCHANGED <<log, pending, signedIn, cursor, wake, pushed, online, wire>> /\ run.pc = "setting"
        /\ run.page # <<>>
    BY <1>19 DEF SetAnswered, Consecutive
  <2>2. (run' = Passed /\ UNCHANGED <<timer, failed>>) \/ Finish(FALSE)
    BY <1>19 DEF SetAnswered
  <2>3. QED
    BY <1>3, <1>16, <2>1, <2>2 DEF Finish, Known
\* Behind a page comes the next one, or everything was there.
<1>20. ASSUME NextPage, ~run.more => \A c \in Range(log) : c.seq <= cursor \/ c \in wire \union Range(pushed)
                                              \/ ~Whole \/ ~online \/ wake,
              run.pc \in {"apply", "ack"},
              UNCHANGED <<log, pending, signedIn, cursor, wake, pushed, online, wire>>
       PROVE  Known'
  <2>1. CASE run.more
    <3>1. run' = [Idle EXCEPT !.pc = "pull"] /\ UNCHANGED <<timer, failed>>
      BY <1>20, <2>1 DEF NextPage
    <3>2. run'.pc = "pull" /\ ~run'.push /\ ~run'.more
      BY <3>1 DEF Idle
    <3>3. Whole /\ pending = <<>>
      BY <1>20, <2>1 DEF Known, Whole
    <3>4. QED
      BY <1>20, <3>1, <3>2, <3>3 DEF Known, Whole, Ahead
  <2>2. CASE ~run.more
    <3>1. run' = Idle /\ timer' = Delay(TRUE) /\ failed' = (failed /\ run.push)
      BY <1>20, <2>2 DEF NextPage, Finish
    <3>2. run'.pc = "idle" /\ ~run'.push /\ ~run'.more
      BY <3>1 DEF Idle
    <3>3. ~failed' => Whole
      BY <1>20, <3>1 DEF Whole
    <3>4. Whole => pending = <<>>
      BY <1>20 DEF Known
    <3>5. QED
      BY <1>20, <2>2, <3>1, <3>2, <3>3, <3>4 DEF Known, Whole, Ahead, Delay
  <2>3. QED
    BY <2>1, <2>2
<1>21. CASE SaveCursor
  <2>1. UNCHANGED <<log, pending, signedIn, wake, pushed, online, wire>> /\ run.pc = "apply"
        /\ run.page = <<>>
    BY <1>21 DEF SaveCursor
  <2>2. Range(run.page) = {}
    BY <2>1 DEF Range
  <2>3. CASE run.top > cursor
    <3>1. cursor' = run.top /\ run' = [run EXCEPT !.pc = "ack"] /\ UNCHANGED <<timer, failed>>
      BY <1>21, <2>3 DEF SaveCursor
    <3>2. run'.pc = "ack" /\ run'.more = run.more /\ run'.push = run.push
      BY <1>0, <3>1
    <3>3. \A c \in Range(log) : c.seq <= cursor => c.seq <= cursor'
      <4>1. cursor \in Nat /\ run.top \in Nat /\ \A c \in Range(log) : c.seq \in Nat
        BY <1>0, LogTypes, SyncAssumption DEF TypeOK
      <4>2. QED
        BY <2>3, <3>1, <4>1
    <3>4. QED
      BY <2>1, <2>2, <3>1, <3>2, <3>3 DEF Known, Whole, Ahead
  <2>4. CASE ~(run.top > cursor)
    <3>1. NextPage /\ cursor' = cursor
      BY <1>21, <2>4 DEF SaveCursor
    <3>2. \A c \in Range(log) : c.seq <= run.top => c.seq <= cursor
      <4>1. cursor \in Nat /\ run.top \in Nat /\ \A c \in Range(log) : c.seq \in Nat
        BY <1>0, LogTypes, SyncAssumption DEF TypeOK
      <4>2. QED
        BY <2>4, <4>1
    <3>3. QED
      BY <1>20, <2>1, <2>2, <3>1, <3>2 DEF Known, Ahead
  <2>5. QED
    BY <2>3, <2>4
<1>22. CASE Acknowledge
  <2>1. UNCHANGED <<log, pending, signedIn, cursor, wake, pushed, online, wire>> /\ run.pc = "ack"
        /\ NextPage
    BY <1>22 DEF Acknowledge
  <2>2. QED
    BY <1>20, <2>1 DEF Known, Ahead
<1>23. QED
  BY <1>1, <1>4, <1>5, <1>6, <1>7, <1>8, <1>9, <1>10, <1>11, <1>12, <1>13, <1>14, <1>15, <1>17, <1>18,
     <1>19, <1>21, <1>22 DEF Next, Working, Failing

(* Commands are for readable clips of the log; a clip that waits to be     *)
(* written was posted.                                                     *)
LEMMA CommandsStep ==
  ASSUME TypeOK, InLog, Commands, [Next]_vars
  PROVE  Commands'
<1> USE DEF bridge
<1>1. Range(log) \subseteq Range(log')
  BY LogGrows
<1>2. CASE inbox' = inbox \/ inbox' = <<>>
  BY <1>1, <1>2 DEF Commands
<1>3. CASE WriteClipboard \/ RejectWrite
  <2>1. inbox \in Seq(Clip) /\ inbox # <<>> /\ inbox' = Tail(inbox)
    BY <1>3 DEF WriteClipboard, RejectWrite, TypeOK
  <2>2. \A i \in DOMAIN Tail(inbox) : i + 1 \in DOMAIN inbox /\ Tail(inbox)[i] = inbox[i + 1]
    BY <2>1, TailElements
  <2>3. QED
    BY <1>1, <2>1, <2>2 DEF Commands
<1>4. CASE ApplyClip
  <2>1. CASE up
    <3>1. /\ inbox' = Append(inbox, Head(run.page)) /\ inbox \in Seq(Clip)
          /\ run.page \in Seq(Clip) /\ run.page # <<>> /\ Readable(Head(run.page))
      BY <1>4, <2>1 DEF ApplyClip, Readable, TypeOK
    <3>2. Head(run.page) \in Range(log) /\ Head(run.page) \in Clip
      BY <3>1, TailElements DEF InLog
    <3>3. \A i \in DOMAIN inbox' : (i \in DOMAIN inbox /\ inbox'[i] = inbox[i]) \/ inbox'[i] = Head(run.page)
      BY <3>1, <3>2, Appended
    <3>4. QED
      BY <1>1, <3>1, <3>2, <3>3 DEF Commands
  <2>2. CASE ~up
    BY <1>2, <1>4, <2>2 DEF ApplyClip
  <2>3. QED
    BY <2>1, <2>2
<1>5. CASE \/ RemoteClip \/ LocalCopy \/ Poll \/ Connect \/ (\E c \in wire : Receive(c)) \/ StartBridge
           \/ TimerSync \/ WakeSync \/ BridgeEvent \/ PushedClip \/ UNCHANGED vars
  BY <1>2, <1>5 DEF RemoteClip, LocalCopy, Poll, Connect, Receive, StartBridge, TimerSync, WakeSync,
       BridgeEvent, PushedClip, vars
<1>6. CASE UploadClip \/ Uploaded \/ PullPage \/ PassClip \/ SetAnswered \/ SaveCursor \/ Acknowledge
           \/ NeedsSignIn
  BY <1>2, <1>6 DEF UploadClip, Uploaded, PullPage, PassClip, SetAnswered, SaveCursor, Acknowledge,
       NeedsSignIn
<1>7. CASE UploadLost \/ AnswerLost \/ Unauthorized \/ SetTimesOut \/ StopBridge \/ Disconnect \/ Crash
           \/ SignIn
  BY <1>2, <1>7 DEF UploadLost, AnswerLost, Unauthorized, SetTimesOut, StopBridge, Disconnect, Crash,
       SignIn, Restart
<1>8. QED
  BY <1>3, <1>4, <1>5, <1>6, <1>7 DEF Next, Working, Failing

LEMMA Beginning ==
  ASSUME Init
  PROVE  IInv
<1>1. TypeOK
  <2>1. <<>> \in Seq(Clip) /\ <<>> \in Seq(Upload) /\ <<>> \in Seq(Event) /\ Len(<<>>) = 0
    OBVIOUS
  <2>2. Syncing \in [pc : Phase, page : Seq(Clip), top : 0..MaxSeq, more : BOOLEAN, push : BOOLEAN]
    <3>1. 0 \in 0..MaxSeq
      BY SyncAssumption
    <3>2. Idle \in [pc : Phase, page : Seq(Clip), top : 0..MaxSeq, more : BOOLEAN, push : BOOLEAN]
      BY <2>1, <3>1 DEF Idle, Phase
    <3>3. QED
      BY <3>2 DEF Syncing, Phase
  <2>3. 1 \in 1..MaxSeq /\ 0 \in 0..1 /\ 0 \in 0..MaxFaults /\ PendingCap \in Nat /\ PushCap \in Nat
        /\ EventCap \in Nat
    BY SyncAssumption
  <2>4. QED
    <3>1. /\ log \in Seq(Clip) /\ head \in 1..MaxSeq /\ copies \in Nat
          /\ pending \in Seq(Upload) /\ Len(pending) <= PendingCap
          /\ cursor \in 0..head /\ faults \in 0..MaxFaults
      BY <2>1, <2>3 DEF Init
    <3>2. /\ pushed \in Seq(Clip) /\ Len(pushed) <= PushCap /\ wire \subseteq Clip
          /\ inbox \in Seq(Clip) /\ events \in Seq(Event) /\ Len(events) <= EventCap
      BY <2>1, <2>3 DEF Init
    <3>3. run \in [pc : Phase, page : Seq(Clip), top : 0..MaxSeq, more : BOOLEAN, push : BOOLEAN]
      BY <2>2 DEF Init
    <3>4. /\ signedIn \in BOOLEAN /\ wake \in BOOLEAN /\ online \in BOOLEAN /\ up \in BOOLEAN
          /\ digest \in Text \union {NoText} /\ polled \in Text \union {NoText}
          /\ clipboard \in [text : Text \union {NoText}, by : Writer]
          /\ timer \in {"short", "long"} /\ failed \in BOOLEAN
          /\ result \in {"none", "ok", "retry"}
          /\ applied \subseteq 1..MaxSeq /\ locked \in BOOLEAN
      BY DEF Init, Writer
    <3>5. QED
      BY <3>1, <3>2, <3>3, <3>4 DEF TypeOK
<1>2. log = <<>> /\ pending = <<>> /\ events = <<>> /\ inbox = <<>> /\ pushed = <<>> /\ wire = {}
      /\ head = 1 /\ cursor = 0 /\ ~up
  BY DEF Init
<1>3. run.page = <<>> /\ run.top = 0 /\ run.pc = "upload"
  BY DEF Init, Syncing, Idle
<1>4. Range(log) = {}
  BY <1>2 DEF Range
<1>5. Ordered /\ InLog
  BY <1>2, <1>3, <1>4 DEF Ordered, InLog
<1>6. Consecutive
  BY <1>1, <1>2, <1>3, ReachNothing DEF Consecutive
<1>7. Answering
  BY <1>2, <1>3, <1>4 DEF Answering, Verified
<1>8. Copies /\ Sights
  BY <1>2 DEF Copies, CopiesInOrder, Sights
<1>9. Known /\ Commands
  BY <1>2, <1>4 DEF Init, Syncing, Idle, Known, Commands
<1>10. QED
  BY <1>1, <1>5, <1>6, <1>7, <1>8, <1>9 DEF IInv

LEMMA Inductive == Spec => []IInv
<1>1. ASSUME IInv, [Next]_vars PROVE IInv'
  <2>1. TypeOK /\ Ordered /\ InLog /\ Consecutive /\ Answering /\ Copies /\ Sights /\ Known
        /\ Commands
    BY <1>1 DEF IInv
  <2>2. TypeOK' /\ Ordered' /\ InLog' /\ Consecutive'
    BY <1>1, <2>1, TypeStep, OrderedStep, InLogStep, ConsecutiveStep
  <2>3. Answering' /\ Copies' /\ Sights' /\ Known' /\ Commands'
    BY <1>1, <2>1, AnsweringStep, CopiesStep, SightsStep, KnownStep, CommandsStep
  <2>4. QED
    BY <2>2, <2>3 DEF IInv
<1>2. QED
  BY <1>1, Beginning, PTL DEF Spec

-----------------------------------------------------------------------------
(* Every value is of its type: the cursor is not above the last number, and*)
(* queue and channels hold no more than their capacity.                    *)
THEOREM SyncTypesAlways == Spec => []TypeOK
<1>1. IInv => TypeOK
  BY DEF IInv
<1>2. QED
  BY <1>1, Inductive, PTL

(* Where a confirmation comes before Set gives up, every readable clip of  *)
(* another device at or below the cursor was written to the clipboard and  *)
(* read back, whatever the order of pages, pushed clips, lost answers and  *)
(* restarts of the daemon and of the clipboard process.                    *)
THEOREM CursorAlwaysVerified ==
  ASSUME ~SlowBridge
  PROVE  Spec => []CursorVerified
<1>1. IInv => CursorVerified
  BY DEF IInv, Answering, Verified, CursorVerified
<1>2. QED
  BY <1>1, Inductive, PTL

(* Local copies reach the server in the order they were made, each once.   *)
THEOREM CopiesAlwaysInOrder == Spec => []CopiesInOrder
<1>1. IInv => CopiesInOrder
  BY DEF IInv, Copies
<1>2. QED
  BY <1>1, Inductive, PTL

(* Nothing the bridge wrote is uploaded as a copy of this device, as long  *)
(* as no locked screen hid the clipboard or ignored a write.               *)
THEOREM NeverEchoed == Spec => []NoEcho
<1>1. ASSUME IInv PROVE NoEcho
  BY <1>1 DEF IInv, Sights, NoEcho, Range
<1>2. QED
  BY <1>1, Inductive, PTL

(* When the daemon sleeps for 5 minutes, no round having failed, it owes   *)
(* nothing: the queue is empty, the socket open, and every clip above the  *)
(* cursor on it or in the channel. No wake-up is lost, whichever order of  *)
(* rounds, pushed clips, full channels and reconnections.                  *)
THEOREM NothingIsForgotten == Spec => []NothingForgotten
<1>1. IInv => NothingForgotten
  BY DEF IInv, Known, Whole, Ahead, NothingForgotten
<1>2. QED
  BY <1>1, Inductive, PTL

\* A copy that leaves the queue by an upload is on the server.
LEMMA Stored ==
  ASSUME TypeOK, UploadClip
  PROVE  Head(pending).cid \in {e.cid : e \in Range(log')}
<1> DEFINE u == Head(pending)
<1>1. Store(u) /\ log \in Seq(Clip) /\ u \in Upload
  BY TailElements DEF UploadClip, Uploading, TypeOK
<1>2. CASE \E c \in Range(log) : c.cid = u.cid
  BY <1>1, <1>2 DEF Store, server
<1>3. CASE ~\E c \in Range(log) : c.cid = u.cid
  <2> DEFINE c == [seq |-> head + 1, origin |-> Self, cid |-> u.cid, text |-> u.text, kind |-> "small"]
  <2>1. head < MaxSeq /\ log' = Append(log, c)
    BY <1>1, <1>3 DEF Store
  <2>2. c \in Clip
    BY <1>1, <2>1, SyncAssumption DEF Clip, Upload, TypeOK
  <2>3. c \in Range(log') /\ c.cid = u.cid
    BY <2>1, <2>2, Grown
  <2>4. QED
    BY <2>3
<1>4. QED
  BY <1>2, <1>3

(* A queued copy leaves the queue only when the server has it, or as the   *)
(* oldest of a full queue when a new copy comes.                           *)
THEOREM CopiesAlwaysKept == Spec => CopyKept
<1> DEFINE Left(c) == \/ c \in {e.cid : e \in Range(log')}
                      \/ Len(pending) = PendingCap /\ c = Head(pending).cid /\ copies' > copies
           Kept == \A c \in Queued : c \notin {u.cid : u \in Range(pending')} => Left(c)
<1>1. ASSUME IInv, [Next]_vars PROVE Kept
  <2>1. TypeOK /\ pending \in Seq(Upload) /\ copies \in Nat /\ Len(pending) <= PendingCap
    BY <1>1 DEF IInv, TypeOK
  <2>2. CASE UNCHANGED queue
    BY <2>2 DEF queue, Queued
  \* Only the head of the queue is not in what follows it.
  <2>3. ASSUME pending # <<>>, NEW c \in Queued, c # Head(pending).cid
        PROVE  \E i \in DOMAIN Tail(pending) : Tail(pending)[i].cid = c
    <3>1. PICK k \in DOMAIN pending : pending[k].cid = c
      BY DEF Queued, Range
    <3>2. k # 1 /\ k \in 1..Len(pending) /\ Len(pending) \in Nat
      BY <2>1, <2>3, <3>1
    <3>3. k - 1 \in DOMAIN Tail(pending) /\ Tail(pending)[k - 1] = pending[k]
      BY <2>1, <2>3, <3>2
    <3>4. QED
      BY <3>1, <3>3
  <2>4. CASE UploadClip
    <3>1. pending # <<>> /\ pending' = Tail(pending)
      BY <2>4 DEF UploadClip, Uploading
    <3>2. Left(Head(pending).cid)
      BY <2>1, <2>4, Stored
    <3>3. \A c \in Queued : c # Head(pending).cid => c \in {u.cid : u \in Range(pending')}
      BY <2>3, <3>1 DEF Range
    <3>4. QED
      BY <3>2, <3>3
  <2>5. ASSUME NEW u \in Upload, copies' = copies + 1, Enqueue(u)
        PROVE  Kept
    <3>1. copies' > copies
      BY <2>1, <2>5
    <3>2. CASE Len(pending) < PendingCap
      <4>1. pending' = Append(pending, u)
        BY <2>5, <3>2 DEF Enqueue
      <4>2. \A i \in DOMAIN pending : i \in DOMAIN pending' /\ pending'[i] = pending[i]
        BY <2>1, <4>1, Appended
      <4>3. QED
        BY <4>2 DEF Queued, Range
    <3>3. CASE ~(Len(pending) < PendingCap)
      <4>1. pending # <<>> /\ pending' = Append(Tail(pending), u) /\ Len(pending) = PendingCap
        BY <2>1, <2>5, <3>3, SyncAssumption DEF Enqueue
      <4>2. \A i \in DOMAIN Tail(pending) : i \in DOMAIN pending' /\ pending'[i] = Tail(pending)[i]
        <5>1. Tail(pending) \in Seq(Upload)
          BY <2>1, <4>1, TailElements
        <5>2. QED
          BY <4>1, <5>1, Appended
      <4>3. \A c \in Queued : c # Head(pending).cid => c \in {v.cid : v \in Range(pending')}
        BY <2>3, <4>1, <4>2 DEF Range
      <4>4. Left(Head(pending).cid)
        BY <3>1, <4>1
      <4>5. QED
        BY <4>3, <4>4
    <3>4. QED
      BY <3>2, <3>3
  <2>6. QED
    <3> DEFINE e == Head(events)
               u == [cid |-> copies + 1, text |-> e.text, by |-> e.by]
    <3>1. CASE events # <<>> /\ e.kind = "clip" /\ copies' = copies + 1 /\ Enqueue(u)
      <4>1. e \in Event /\ e = events[1] /\ 1 \in DOMAIN events
        BY <2>1, <3>1, TailElements DEF TypeOK
      <4>2. e.text \in Text
        BY <1>1, <3>1, <4>1 DEF IInv, Sights
      <4>3. u \in Upload
        BY <2>1, <4>1, <4>2 DEF Upload, Event
      <4>4. QED
        BY <2>5, <3>1, <4>3
    <3>2. QED
      BY <1>1, <2>1, <2>2, <2>4, <3>1, CopiesMove
<1>2. QED
  <2>1. Spec => [][Kept]_vars
    BY <1>1, Inductive, PTL DEF Spec
  <2>2. QED
    BY <2>1, PTL DEF CopyKept

-----------------------------------------------------------------------------
(* The daemon as a client: the queue by the numbers of its copies.         *)
LEMMA CidsTypes ==
  ASSUME NEW q \in Seq(Upload)
  PROVE  Cids(q) \in Seq(Nat) /\ Len(Cids(q)) = Len(q) /\ \A i \in 1..Len(q) : Cids(q)[i] = q[i].cid
<1>1. \A i \in 1..Len(q) : q[i].cid \in Nat
  <2>1. \A i \in 1..Len(q) : q[i] \in Upload
    OBVIOUS
  <2>2. QED
    BY <2>1 DEF Upload
<1>2. QED
  BY <1>1 DEF Cids

LEMMA CidsOfTail ==
  ASSUME NEW q \in Seq(Upload), q # <<>>
  PROVE  Cids(q) # <<>> /\ Head(Cids(q)) = Head(q).cid /\ Cids(Tail(q)) = Tail(Cids(q))
<1>1. Tail(q) \in Seq(Upload) /\ Len(Tail(q)) = Len(q) - 1 /\ Len(q) \in Nat /\ Len(q) # 0
  BY TailElements
<1>2. Cids(q) \in Seq(Nat) /\ Len(Cids(q)) = Len(q) /\ \A i \in 1..Len(q) : Cids(q)[i] = q[i].cid
  BY CidsTypes
<1>3. Cids(q) # <<>> /\ Head(Cids(q)) = Head(q).cid
  BY <1>1, <1>2
<1>4. Cids(Tail(q)) \in Seq(Nat) /\ Len(Cids(Tail(q))) = Len(q) - 1
      /\ \A i \in 1..(Len(q) - 1) : Cids(Tail(q))[i] = Tail(q)[i].cid
  BY <1>1, CidsTypes
<1>5. Tail(Cids(q)) \in Seq(Nat) /\ Len(Tail(Cids(q))) = Len(q) - 1
      /\ \A i \in 1..(Len(q) - 1) : Tail(Cids(q))[i] = Cids(q)[i + 1]
  BY <1>1, <1>2, <1>3
<1>6. \A i \in 1..(Len(q) - 1) : Cids(Tail(q))[i] = Tail(Cids(q))[i]
  <2> TAKE i \in 1..(Len(q) - 1)
  <2>1. i + 1 \in 1..Len(q) /\ Tail(q)[i] = q[i + 1]
    BY <1>1
  <2>2. QED
    BY <1>2, <1>4, <1>5, <2>1
<1>7. Cids(Tail(q)) = Tail(Cids(q))
  BY <1>4, <1>5, <1>6, SeqEqual
<1>8. QED
  BY <1>3, <1>7

LEMMA CidsOfAppend ==
  ASSUME NEW q \in Seq(Upload), NEW u \in Upload
  PROVE  Cids(Append(q, u)) = Append(Cids(q), u.cid)
<1>1. Cids(q) \in Seq(Nat) /\ Len(Cids(q)) = Len(q) /\ \A i \in 1..Len(q) : Cids(q)[i] = q[i].cid
  BY CidsTypes
<1>2. Append(Cids(q), u.cid) = [i \in 1..(Len(q) + 1) |-> IF i = Len(q) + 1 THEN u.cid ELSE Cids(q)[i]]
  BY <1>1 DEF Upload
<1>3. Cids(Append(q, u)) = [i \in 1..(Len(q) + 1) |-> Append(q, u)[i].cid]
  BY DEF Cids
<1>4. \A i \in 1..(Len(q) + 1) :
        Append(q, u)[i].cid = IF i = Len(q) + 1 THEN u.cid ELSE Cids(q)[i]
  BY <1>1
<1>5. QED
  BY <1>2, <1>3, <1>4

\* What the server has of this device, and for it.
Delivered == {[seq |-> c.seq, copy |-> c.cid] : c \in {d \in Range(log) : d.origin = Self}}
Posted == {c.seq : c \in {d \in Range(log) : Readable(d)}}

\* What a new clip adds to them.
LEMMA StoredGrows ==
  ASSUME TypeOK, NEW c \in Clip, log' = Append(log, c)
  PROVE  /\ Delivered' = IF c.origin = Self THEN Delivered \union {[seq |-> c.seq, copy |-> c.cid]} ELSE Delivered
         /\ Posted' = IF Readable(c) THEN Posted \union {c.seq} ELSE Posted
<1>1. Range(log') = Range(log) \union {c}
  BY Grown
<1>2. QED
  BY <1>1 DEF Delivered, Posted, Readable

\* An upload that is stored is the oldest copy, and behind all that are.
LEMMA StoreDelivers ==
  ASSUME IInv, pending # <<>>, Store(Head(pending))
  PROVE  \/ (\E s \in Delivered : s.copy = Head(pending).cid) /\ UNCHANGED <<log, head>>
         \/ /\ \A s \in Delivered : s.copy < Head(pending).cid /\ s.seq < head + 1
            /\ head + 1 \in 1..MaxSeq /\ Posted' = Posted
            /\ Delivered' = Delivered \union {[seq |-> head + 1, copy |-> Head(pending).cid]}
<1> DEFINE u == Head(pending)
           c == [seq |-> head + 1, origin |-> Self, cid |-> u.cid, text |-> u.text, kind |-> "small"]
<1>1. TypeOK /\ Ordered /\ Copies
  BY DEF IInv
<1>2. u \in Upload /\ u = pending[1] /\ 1 \in DOMAIN pending /\ u.cid \in Nat /\ u.cid # 0
  <2>1. u \in Upload /\ u = pending[1] /\ 1 \in DOMAIN pending
    BY <1>1, TailElements DEF TypeOK
  <2>2. QED
    BY <2>1 DEF Upload
<1>3. CASE \E d \in Range(log) : d.cid = u.cid
  <2>1. PICK d \in Range(log) : d.cid = u.cid
    BY <1>3
  <2>2. d.origin = Self
    BY <1>1, <1>2, <2>1 DEF Ordered, Range
  <2>3. [seq |-> d.seq, copy |-> d.cid] \in Delivered
    BY <2>1, <2>2 DEF Delivered
  <2>4. QED
    BY <1>3, <2>1, <2>3 DEF Store, server
<1>4. CASE ~\E d \in Range(log) : d.cid = u.cid
  <2>1. head < MaxSeq /\ log' = Append(log, c)
    BY <1>4 DEF Store
  <2>2. c \in Clip /\ c.origin = Self /\ c.cid = u.cid
    BY <1>1, <1>2, <2>1, SyncAssumption DEF Clip, Upload, TypeOK
  <2>3. Delivered' = Delivered \union {[seq |-> head + 1, copy |-> u.cid]} /\ Posted' = Posted
    BY <1>1, <2>1, <2>2, StoredGrows DEF Readable
  <2>4. ASSUME NEW s \in Delivered PROVE s.copy < u.cid /\ s.seq < head + 1
    <3>1. PICK i \in DOMAIN log : s.copy = log[i].cid /\ s.seq = log[i].seq
      BY DEF Delivered, Range
    <3>2. s.copy <= u.cid /\ s.seq <= head
      BY <1>1, <1>2, <3>1 DEF Copies, Ordered
    <3>3. s.copy # u.cid
      BY <1>4, <3>1 DEF Range
    <3>4. s.copy \in Nat /\ s.seq \in Nat /\ head \in Nat
      <4>1. log[i] \in Clip /\ head \in Nat
        BY <1>1, <3>1, LogTypes DEF TypeOK
      <4>2. QED
        BY <3>1, <4>1 DEF Clip
    <3>5. QED
      BY <1>2, <3>2, <3>3, <3>4
  <2>5. head + 1 \in 1..MaxSeq
    BY <1>1, <2>1, SyncAssumption DEF TypeOK
  <2>6. QED
    BY <2>3, <2>4, <2>5
<1>5. QED
  BY <1>3, <1>4

(* Every step of the daemon is one of a client, or none.                   *)
LEMMA ClientStep ==
  ASSUME IInv, ~SlowBridge, [Next]_vars
  PROVE  [Client!Next]_(Client!vars)
<1> USE DEF server, queue, session, bridge
<1>1. TypeOK /\ Ordered /\ InLog /\ Answering /\ Commands
  BY DEF IInv
<1>2. pending \in Seq(Upload) /\ copies \in Nat /\ cursor \in Nat /\ head \in Nat /\ cursor <= head
      /\ Len(pending) <= PendingCap /\ PendingCap \in Nat \ {0}
  BY <1>1, SyncAssumption DEF TypeOK
\* The client is defined by these six.
<1>3. ASSUME UNCHANGED <<copies, pending, log, applied, cursor>>
      PROVE  UNCHANGED Client!vars
  BY <1>3 DEF Client!vars, Cids
<1>4. CASE RemoteClip
  <2>1. PICK n \in head + 1 .. MaxSeq - MaxCopies, t \in Text, k \in Kind :
          log' = Append(log, [seq |-> n, origin |-> Other, cid |-> 0, text |-> t, kind |-> k])
    BY <1>4 DEF RemoteClip
  <2> DEFINE c == [seq |-> n, origin |-> Other, cid |-> 0, text |-> t, kind |-> k]
  <2>2. n \in 1..MaxSeq /\ head < n
    BY <1>2, SyncAssumption
  <2>3. c \in Clip /\ c.origin # Self
    BY <2>2, SyncAssumption DEF Clip
  <2>4. UNCHANGED <<copies, pending, applied, cursor>>
    BY <1>4 DEF RemoteClip
  <2>5. Delivered' = Delivered /\ Posted' = IF Readable(c) THEN Posted \union {n} ELSE Posted
    BY <1>1, <2>1, <2>3, StoredGrows
  <2>6. CASE ~Readable(c)
    BY <2>4, <2>5, <2>6 DEF Client!vars, Delivered, Posted, Cids
  <2>7. CASE Readable(c)
    <3>1. \A m \in Posted : m < n
      <4>1. \A m \in Posted : m \in Nat /\ m <= head
        BY <1>1, LogTypes DEF Ordered, Posted, Range
      <4>2. QED
        BY <1>2, <2>2, <4>1
    <3>2. n > cursor /\ n \in Nat
      BY <1>2, <2>2
    <3>3. n \in (1..MaxSeq) \ Posted
      BY <2>2, <3>1, <3>2
    <3>4. Client!Post(n)
      BY <2>4, <2>5, <2>7, <3>1, <3>2 DEF Client!Post, Delivered, Posted, Cids
    <3>5. QED
      BY <3>3, <3>4 DEF Client!Next, Posted
  <2>8. QED
    BY <2>6, <2>7
<1>5. CASE UploadClip
  <2>1. pending # <<>> /\ Store(Head(pending)) /\ pending' = Tail(pending)
        /\ UNCHANGED <<copies, applied, cursor>>
    BY <1>5 DEF UploadClip, Uploading
  <2>2. Cids(pending) # <<>> /\ Head(Cids(pending)) = Head(pending).cid
        /\ Cids(pending') = Tail(Cids(pending))
    BY <1>2, <2>1, CidsOfTail
  <2>3. CASE (\E s \in Delivered : s.copy = Head(pending).cid) /\ UNCHANGED <<log, head>>
    <3>1. Client!Confirm
      BY <2>1, <2>2, <2>3 DEF Client!Confirm, Delivered, Posted
    <3>2. QED
      BY <3>1 DEF Client!Next
  <2>4. CASE /\ \A s \in Delivered : s.copy < Head(pending).cid /\ s.seq < head + 1
             /\ head + 1 \in 1..MaxSeq /\ Posted' = Posted
             /\ Delivered' = Delivered \union {[seq |-> head + 1, copy |-> Head(pending).cid]}
    <3>1. PICK n \in 1..MaxSeq : n = head + 1
      BY <2>4
    <3>2. Client!Deliver(n)
      BY <2>1, <2>2, <2>4, <3>1 DEF Client!Deliver, Delivered, Posted
    <3>3. QED
      BY <3>2 DEF Client!Next
  <2>5. QED
    BY <2>1, <2>3, <2>4, StoreDelivers
<1>6. CASE UploadLost
  <2>1. pending # <<>> /\ (Store(Head(pending)) \/ UNCHANGED server)
        /\ UNCHANGED <<copies, pending, applied, cursor>>
    BY <1>6 DEF UploadLost, Uploading
  <2>2. CASE UNCHANGED log
    BY <1>3, <2>1, <2>2
  <2>3. CASE /\ \A s \in Delivered : s.copy < Head(pending).cid /\ s.seq < head + 1
             /\ head + 1 \in 1..MaxSeq /\ Posted' = Posted
             /\ Delivered' = Delivered \union {[seq |-> head + 1, copy |-> Head(pending).cid]}
    <3>1. Cids(pending) # <<>> /\ Head(Cids(pending)) = Head(pending).cid
          /\ Cids(pending') = Cids(pending)
      BY <1>2, <2>1, CidsOfTail
    <3>2. PICK n \in 1..MaxSeq : n = head + 1
      BY <2>3
    <3>3. Client!Deliver(n)
      BY <2>1, <2>3, <3>1, <3>2 DEF Client!Deliver, Delivered, Posted
    <3>4. QED
      BY <3>3 DEF Client!Next
  <2>4. QED
    BY <2>1, <2>2, <2>3, StoreDelivers
<1>7. CASE BridgeEvent
  <2> DEFINE e == Head(events)
             u == [cid |-> copies + 1, text |-> e.text, by |-> e.by]
  <2>1. UNCHANGED <<log, applied, cursor>>
    BY <1>7 DEF BridgeEvent
  <2>2. CASE UNCHANGED queue
    BY <1>3, <2>1, <2>2
  <2>3. CASE events # <<>> /\ e.kind = "clip" /\ copies' = copies + 1 /\ Enqueue(u)
    <3>1. e \in Event /\ e = events[1] /\ 1 \in DOMAIN events
      BY <1>1, <2>3, TailElements DEF TypeOK
    <3>2. u \in Upload /\ u.cid = copies + 1
      BY <1>2, <2>3, <3>1 DEF IInv, Sights, Upload, Event
    <3>3. Cids(pending') = Append(IF Len(Cids(pending)) < PendingCap THEN Cids(pending)
                                  ELSE Tail(Cids(pending)), copies + 1)
      <4>1. Len(Cids(pending)) = Len(pending)
        BY <1>2, CidsTypes
      <4>2. CASE Len(pending) < PendingCap
        BY <1>2, <2>3, <3>2, <4>1, <4>2, CidsOfAppend DEF Enqueue
      <4>3. CASE ~(Len(pending) < PendingCap)
        <5>1. pending # <<>> /\ pending' = Append(Tail(pending), u)
          BY <1>2, <2>3, <4>3 DEF Enqueue
        <5>2. Tail(pending) \in Seq(Upload) /\ Cids(Tail(pending)) = Tail(Cids(pending))
          BY <1>2, <5>1, TailElements, CidsOfTail
        <5>3. Cids(pending') = Append(Cids(Tail(pending)), copies + 1)
          BY <3>2, <5>1, <5>2, CidsOfAppend
        <5>4. QED
          BY <4>1, <4>3, <5>2, <5>3
      <4>4. QED
        BY <4>2, <4>3
    <3>4. Client!Copy
      BY <2>1, <2>3, <3>3 DEF Client!Copy
    <3>5. QED
      BY <3>4 DEF Client!Next
  <2>4. QED
    BY <1>1, <1>7, <2>2, <2>3 DEF BridgeEvent
<1>8. CASE WriteClipboard
  <2> DEFINE n == Head(inbox).seq
  <2>1. inbox # <<>> /\ applied' = applied \union {n} /\ UNCHANGED <<copies, pending, log, cursor>>
    BY <1>8 DEF WriteClipboard
  <2>2. n \in Posted
    <3>1. Head(inbox) = inbox[1] /\ 1 \in DOMAIN inbox
      BY <1>1, <2>1, TailElements DEF TypeOK
    <3>2. QED
      BY <1>1, <3>1 DEF Commands, Posted
  <2>3. CASE n \in applied
    <3>1. applied' = applied
      BY <2>1, <2>3
    <3>2. QED
      BY <1>3, <2>1, <3>1
  <2>4. CASE n \notin applied
    <3>1. Client!Write(n)
      BY <2>1, <2>2 DEF Client!Write, Posted, Cids
    <3>2. QED
      BY <2>2, <2>4, <3>1 DEF Client!Next, Posted
  <2>5. QED
    BY <2>3, <2>4
<1>9. CASE SaveCursor
  <2>1. UNCHANGED <<copies, pending, log, applied>>
    BY <1>9 DEF SaveCursor
  <2>2. CASE run.top > cursor
    <3>1. cursor' = run.top
      BY <1>9, <2>2 DEF SaveCursor
    <3>2. \A m \in Posted : m <= run.top => m \in applied
      BY <1>1 DEF Answering, Verified, Posted, Readable
    <3>3. run.top \in 1..MaxSeq
      BY <1>1, <1>2, <2>2, SyncAssumption DEF TypeOK
    <3>4. Client!Pass(run.top)
      BY <2>1, <2>2, <3>1, <3>2 DEF Client!Pass, Posted, Cids
    <3>5. QED
      BY <3>3, <3>4 DEF Client!Next
  <2>3. CASE ~(run.top > cursor)
    BY <1>3, <1>9, <2>1, <2>3 DEF SaveCursor
  <2>4. QED
    BY <2>2, <2>3
<1>10. CASE Unauthorized
  <2>1. cursor' = 0 /\ UNCHANGED <<copies, pending, log, applied>>
    BY <1>10 DEF Unauthorized
  <2>2. Client!Forget
    BY <2>1 DEF Client!Forget, Cids
  <2>3. QED
    BY <2>2 DEF Client!Next
<1>11. CASE \/ LocalCopy \/ Poll \/ Connect \/ (\E c \in wire : Receive(c)) \/ StartBridge
            \/ TimerSync \/ WakeSync \/ PushedClip \/ UNCHANGED vars
  BY <1>3, <1>11 DEF LocalCopy, Poll, Connect, Receive, StartBridge, TimerSync, WakeSync, PushedClip, vars
<1>12. CASE \/ Uploaded \/ PullPage \/ PassClip \/ ApplyClip \/ SetAnswered \/ Acknowledge \/ NeedsSignIn
  BY <1>3, <1>12 DEF Uploaded, PullPage, PassClip, ApplyClip, SetAnswered, Acknowledge, NeedsSignIn
<1>13. CASE \/ AnswerLost \/ SetTimesOut \/ RejectWrite \/ StopBridge \/ Disconnect \/ Crash \/ SignIn
  BY <1>3, <1>13 DEF AnswerLost, SetTimesOut, RejectWrite, StopBridge, Disconnect, Crash, SignIn, Restart
<1>14. QED
  BY <1>4, <1>5, <1>6, <1>7, <1>8, <1>9, <1>10, <1>11, <1>12, <1>13 DEF Next, Working, Failing

(* Where a confirmation comes before Set gives up, the daemon is the client*)
(* of ClipClient: copies are handed over in order, each once, and only the *)
(* oldest of a full queue is given up; the cursor passes written clips.    *)
THEOREM DaemonImplementsClient ==
  ASSUME ~SlowBridge
  PROVE  Spec => ImplementsClient
<1>1. Init => Client!Init
  BY DEF Init, Client!Init, Cids, Range
<1>2. IInv /\ [Next]_vars => [Client!Next]_(Client!vars)
  BY ClientStep
<1>3. QED
  BY <1>1, <1>2, Inductive, PTL DEF Spec, ImplementsClient, Client!Spec
=============================================================================
