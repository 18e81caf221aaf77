-------------------------- MODULE PhoneSyncProofs ---------------------------
(***************************************************************************)
(* Proofs about PhoneSync, for any accounts and limits and any number of   *)
(* clips, copies, sign-ins, moves and faults.                              *)
(*                                                                         *)
(* What carries them: while the app is signed in and no pass went on from  *)
(* another account, a pass is of the session and has seen every clip from  *)
(* the saved cursor on (Passing); a clip above the cursor is on a page, on *)
(* the connection, ahead of a read or excused (Coming); an upload is of    *)
(* the head of the queue until the queue is displaced under it (AtHead).   *)
(***************************************************************************)
EXTENDS PhoneSync, FiniteSetTheorems, WellFoundedInduction, TLAPS

\* The account the app is signed in to, in a state that is nobody else's.
Live == session # 0 /\ ~crossed
Acc == AccountOf(session)

(* Whoever acts does so for a sign-in.                                     *)
Sessions ==
  /\ Len(accounts) <= MaxSignIns
  /\ leaving \/ socket # "closed" => session # 0
  /\ flush.pc # "idle" => flush.token \in DOMAIN accounts /\ flush.copy \in Copy
  /\ sync.pc # "idle" => sync.token \in DOMAIN accounts
  /\ Live /\ sync.pc # "idle" => sync.token = session

(* Clips of other devices are of their account, on the connection too.     *)
Remotes ==
  /\ \A i \in DOMAIN log : log[i].origin = "other" => log[i].key = log[i].account
  /\ \A k \in DOMAIN wire : wire[k] \in Remote(Acc)

(* An upload is of the head of the queue, unless the queue was displaced;  *)
(* the queue is of the account.                                            *)
QueueOK ==
  /\ session = 0 => queue = <<>>
  /\ \A k \in DOMAIN queue : queue[k].key = Acc

HeadOK ==
  flush.pc # "idle" /\ ~displaced =>
    session # 0 /\ flush.token = session /\ queue # <<>> /\ flush.copy = Head(queue)

StoredOK ==
  flush.pc = "stored" => \E i \in DOMAIN log : log[i].origin = "me" /\ log[i].id = flush.copy.id

AtHead == QueueOK /\ HeadOK /\ StoredOK

\* n is the newest clip of other devices above `from` and up to c, if any.
Found(from, n, c) ==
  /\ n # 0 => n \in Remote(Acc) /\ from < n /\ n <= c
  /\ \A i \in Remote(Acc) : from < i /\ i <= c => i <= n

(* What a pass has seen goes on from the saved cursor without a gap.       *)
Passing ==
  Live =>
    /\ Found(0, latest, lastSeq)
    /\ sync.pc \in {"sent", "page", "ack"} =>
         lastSeq <= sync.cursor /\ Found(lastSeq, sync.newest, sync.cursor)
    /\ sync.pc = "page" =>
         /\ \A i \in sync.page : sync.cursor < i /\ log[i].account = Acc
         /\ \A i \in DOMAIN log, j \in sync.page :
              log[i].account = Acc /\ sync.cursor < i /\ i <= j => i \in sync.page

(* Where a clip that the cursor has not passed still is.                   *)
OnItsWay(i) ==
  \/ i <= lastSeq \/ i \in excused
  \/ sync.pc = "sent" \/ (sync.pc # "idle" /\ resync)
  \/ sync.pc = "page" /\ (i <= sync.cursor \/ i \in sync.page \/ Cardinality(sync.page) = PageLimit)
  \/ sync.pc = "ack" /\ i <= sync.cursor
  \/ i > readAt /\ (socket # "open" \/ \E k \in DOMAIN wire : wire[k] = i)

Coming == Live /\ foreground => \A i \in Remote(Acc) : OnItsWay(i)

(* The newest clip is shown, or its acknowledgement is awaited.            *)
Showing ==
  /\ Live /\ sync.pc = "pushed" => sync.newest = latest
  /\ Live /\ foreground => latest <= shown \/ quiet \/ sync.pc = "pushed"

IInv == TypeOK /\ Sessions /\ Remotes /\ AtHead /\ Passing /\ Coming /\ Showing

-----------------------------------------------------------------------------
(* Numbers of clips have a least and a greatest.                           *)
LEMMA Least ==
  ASSUME NEW T \in SUBSET Nat, T # {}
  PROVE  \E x \in T : \A y \in T : x <= y
<1>1. \E x \in T : \A y \in T : ~(y < x)
  <2>1. PICK x \in T : \A y \in T : ~(<<y, x>> \in OpToRel(<, Nat))
    BY NatLessThanWellFounded, WFMin, Zenon
  <2>2. \A y \in T : ~(y < x)
    BY <2>1, Zenon DEF OpToRel
  <2>3. QED
    BY <2>2, Zenon
<1>2. QED
  BY <1>1

LEMMA Greatest ==
  ASSUME NEW n \in Nat, NEW T \in SUBSET (0..n), T # {}
  PROVE  Max(T) \in T /\ \A y \in T : y <= Max(T)
<1> DEFINE below == {k \in Nat : n - k \in T}
<1>1. \A y \in T : y \in Nat /\ y <= n /\ n - y \in Nat /\ n - (n - y) = y
  OBVIOUS
<1>2. below # {}
  BY <1>1
<1>3. PICK k \in below : \A j \in below : k <= j
  BY <1>2, Least
<1>4. n - k \in T /\ k \in Nat
  BY <1>3
<1>5. \A y \in T : n - k >= y
  <2> TAKE y \in T
  <2>1. n - y \in below
    BY <1>1
  <2>2. k <= n - y
    BY <1>3, <2>1
  <2>3. QED
    BY <1>1, <1>4, <2>2
<1>6. QED
  BY <1>1, <1>4, <1>5 DEF Max

LEMMA MaxIs ==
  ASSUME NEW T \in SUBSET Nat, NEW x \in T, \A y \in T : y <= x
  PROVE  Max(T) = x
<1>1. x \in T /\ \A y \in T : x >= y
  OBVIOUS
<1>2. Max(T) \in T /\ \A y \in T : Max(T) >= y
  BY <1>1 DEF Max
<1>3. Max(T) >= x /\ x >= Max(T) /\ x \in Nat /\ Max(T) \in Nat
  BY <1>1, <1>2
<1>4. QED
  BY <1>3

LEMMA TailElements ==
  ASSUME NEW S, NEW q \in Seq(S), q # <<>>
  PROVE  /\ Tail(q) \in Seq(S) /\ Len(Tail(q)) = Len(q) - 1 /\ Len(q) \in Nat \ {0}
         /\ \A i \in DOMAIN Tail(q) : i + 1 \in DOMAIN q /\ Tail(q)[i] = q[i + 1]
         /\ 1 \in DOMAIN q /\ Head(q) = q[1] /\ Head(q) \in S
  OBVIOUS

LEMMA Appended ==
  ASSUME NEW S, NEW q \in Seq(S), NEW x \in S
  PROVE  /\ Append(q, x) \in Seq(S) /\ Len(Append(q, x)) = Len(q) + 1 /\ Len(q) \in Nat
         /\ DOMAIN Append(q, x) = DOMAIN q \union {Len(q) + 1} /\ Len(q) + 1 \notin DOMAIN q
         /\ DOMAIN q = 1..Len(q)
         /\ \A i \in DOMAIN q : i <= Len(q) /\ Append(q, x)[i] = q[i]
         /\ Append(q, x)[Len(q) + 1] = x
  OBVIOUS

FlushType == [pc : {"idle", "sent", "stored"}, copy : Copy \union {NoCopy},
              token : 0..MaxSignIns, then : BOOLEAN]
PassType == [pc : {"idle", "sent", "page", "ack", "pushed"}, cursor : 0..Len(log),
             page : SUBSET DOMAIN log, newest : 0..Len(log), write : BOOLEAN,
             then : {"end", "connect", "cancelled"}, token : 0..MaxSignIns]

(* The types but for those of the tasks.                                   *)
TypeRest ==
  /\ log \in Seq(Clip)
  /\ accounts \in Seq(Account) /\ over \subseteq DOMAIN accounts
  /\ session \in {0} \union (DOMAIN accounts \ over)
  /\ lastSeq \in 0..Len(log) /\ latest \in 0..Len(log)
  /\ queue \in Seq(Copy) /\ Len(queue) <= PendingCap
  /\ shown \in 0..Len(log) /\ shownSaved \in {0, shown}
  /\ foreground \in BOOLEAN /\ resync \in BOOLEAN /\ leaving \in BOOLEAN
  /\ socket \in {"closed", "waiting", "opening", "open"}
  /\ wire \in Seq(DOMAIN log) /\ (wire # <<>> => socket = "open" /\ session # 0)
  /\ notice \in BOOLEAN /\ readAt \in 0..Len(log) /\ excused \subseteq DOMAIN log
  /\ {displaced, crossed, quiet} \subseteq BOOLEAN
  /\ demands \in 0..MaxDemands /\ moves \in 0..MaxMoves /\ faults \in 0..MaxFaults

LEMMA TypeIs ==
  TypeOK <=> TypeRest /\ flush \in FlushType /\ sync \in PassType
BY Zenon DEF TypeOK, TypeRest, FlushType, PassType

LEMMA Basics ==
  ASSUME TypeOK, Sessions
  PROVE  /\ Len(log) \in Nat /\ DOMAIN log = 1..Len(log) /\ 0 \in 0..Len(log)
         /\ Len(accounts) \in Nat /\ DOMAIN accounts = 1..Len(accounts)
         /\ session \in 0..MaxSignIns /\ DOMAIN accounts \subseteq 0..MaxSignIns
         /\ sync \in PassType /\ flush \in FlushType
         /\ {PendingCap, PageLimit, MaxClips, MaxDemands, MaxSignIns, MaxMoves, MaxFaults} \subseteq Nat
         /\ NoFlush \in FlushType /\ NoPass \in PassType
<1>1. Len(log) \in Nat /\ DOMAIN log = 1..Len(log) /\ 0 \in 0..Len(log)
      /\ Len(accounts) \in Nat /\ DOMAIN accounts = 1..Len(accounts)
  BY TypeIs DEF TypeRest
<1>2. {PendingCap, PageLimit, MaxClips, MaxDemands, MaxSignIns, MaxMoves, MaxFaults} \subseteq Nat
  BY PhoneAssumption
<1>3. DOMAIN accounts \subseteq 0..MaxSignIns /\ 0 \in 0..MaxSignIns
  BY <1>1, <1>2 DEF Sessions
<1>4. session \in 0..MaxSignIns
  BY <1>3, TypeIs DEF TypeRest
<1>5. sync \in PassType /\ flush \in FlushType
  BY TypeIs
<1>6. NoFlush \in FlushType
  BY <1>3 DEF NoFlush, FlushType
<1>7. NoPass \in PassType
  BY <1>1, <1>3 DEF NoPass, PassType
<1>8. QED
  BY <1>1, <1>2, <1>3, <1>4, <1>5, <1>6, <1>7

LEMMA Typed ==
  ASSUME TypeRest', UNCHANGED log, flush' \in FlushType, sync' \in PassType
  PROVE  TypeOK'
<1>1. PassType' = PassType
  BY DEF PassType
<1>2. sync' \in PassType'
  BY <1>1
<1>3. QED
  BY <1>2, Zenon DEF TypeOK, TypeRest, FlushType, PassType

(* What a page says about where the pass goes on.                          *)
LEMMA CursorTypes ==
  ASSUME TypeOK, Sessions
  PROVE  /\ Cursor \in 0..Len(log) /\ Newest \in 0..Len(log)
         /\ \A i \in sync.page : i \in Nat /\ i <= Cursor
         /\ sync.page # {} => Cursor \in sync.page
         /\ sync.page = {} => Cursor = sync.cursor
         /\ \A i \in sync.page : ~Mine(i) => i <= Newest
         /\ Newest = sync.newest \/ (Newest \in sync.page /\ ~Mine(Newest))
         /\ (\A i \in sync.page : Mine(i)) => Newest = sync.newest
<1>1. Len(log) \in Nat /\ sync.page \subseteq 1..Len(log) /\ sync.cursor \in 0..Len(log)
      /\ sync.newest \in 0..Len(log)
  BY Basics DEF PassType
<1>2. sync.page \in SUBSET (0..Len(log))
  BY <1>1
<1>3. sync.page # {} => Max(sync.page) \in sync.page /\ \A i \in sync.page : i <= Max(sync.page)
  BY <1>1, <1>2, Greatest
<1> DEFINE others == {i \in sync.page : ~Mine(i)}
<1>4. others \in SUBSET (0..Len(log))
  BY <1>2
<1>5. others # {} => Max(others) \in others /\ \A i \in others : i <= Max(others)
  BY <1>1, <1>4, Greatest
<1>6. /\ Cursor \in 0..Len(log)
      /\ \A i \in sync.page : i \in Nat /\ i <= Cursor
      /\ sync.page # {} => Cursor \in sync.page
      /\ sync.page = {} => Cursor = sync.cursor
  BY <1>1, <1>2, <1>3 DEF Cursor
<1>7. Newest = IF others = {} THEN sync.newest ELSE Max(others)
  BY DEF Newest
<1> HIDE DEF others
<1>8. /\ Newest \in 0..Len(log)
      /\ \A i \in others : i <= Newest
      /\ Newest = sync.newest \/ Newest \in others
      /\ others = {} => Newest = sync.newest
  BY <1>1, <1>4, <1>5, <1>7
<1>9. QED
  BY <1>6, <1>8 DEF others

LEMMA SyncTypes ==
  ASSUME TypeOK, Sessions, NEW write \in BOOLEAN, NEW then \in {"end", "connect"},
         lastSeq' \in 0..Len(log), session' \in 0..MaxSignIns, Sync(write, then)
  PROVE  sync' \in PassType /\ resync' \in BOOLEAN
<1>1. sync \in PassType /\ NoPass \in PassType
  BY Basics
<1>2. CASE sync.pc # "idle"
  BY <1>1, <1>2 DEF Sync
<1>3. CASE sync.pc = "idle"
  <2>1. sync' = [NoPass EXCEPT !.pc = "sent", !.cursor = lastSeq', !.write = write,
                               !.then = then, !.token = session'] /\ resync' = FALSE
    BY <1>3 DEF Sync
  <2>2. QED
    BY <1>1, <2>1 DEF PassType
<1>4. QED
  BY <1>2, <1>3

LEMMA PassEndsTypes ==
  ASSUME TypeOK, Sessions, lastSeq' \in 0..Len(log), PassEnds
  PROVE  /\ sync' \in PassType /\ resync' \in BOOLEAN
         /\ socket' = socket \/ (socket \in {"closed", "waiting"} /\ socket' = "opening")
<1>1. sync \in PassType /\ NoPass \in PassType /\ session \in 0..MaxSignIns
  BY Basics
<1>2. CASE resync /\ session # 0
  <2>1. sync' = [NoPass EXCEPT !.pc = "sent", !.cursor = lastSeq', !.write = sync.write,
                               !.then = sync.then, !.token = session]
        /\ resync' = FALSE /\ socket' = socket
    BY <1>2 DEF PassEnds
  <2>2. QED
    BY <1>1, <2>1 DEF PassType
<1>3. CASE ~(resync /\ session # 0)
  BY <1>1, <1>3 DEF PassEnds, Connects
<1>4. QED
  BY <1>2, <1>3

LEMMA PassFailsTypes ==
  ASSUME TypeOK, Sessions, PassFails
  PROVE  /\ sync' \in PassType /\ resync' \in BOOLEAN /\ excused' = DOMAIN log
         /\ socket' = socket \/ (socket \in {"closed", "waiting"} /\ socket' = "opening")
<1>1. NoPass \in PassType /\ resync \in BOOLEAN
  BY Basics, TypeIs DEF TypeRest
<1>2. QED
  BY <1>1 DEF PassFails, Connects

LEMMA PushEndsTypes ==
  ASSUME TypeOK, Sessions, PushEnds
  PROVE  sync' \in PassType /\ resync' \in BOOLEAN
<1>1. NoPass \in PassType /\ session \in 0..MaxSignIns /\ lastSeq \in 0..Len(log)
      /\ foreground \in BOOLEAN
  BY Basics, TypeIs DEF TypeRest
<1>2. CASE resync /\ session # 0
  <2>1. sync' = [NoPass EXCEPT !.pc = "sent", !.cursor = lastSeq, !.write = foreground,
                               !.token = session] /\ resync' = FALSE
    BY <1>2 DEF PushEnds
  <2>2. QED
    BY <1>1, <2>1 DEF PassType
<1>3. CASE ~(resync /\ session # 0)
  BY <1>1, <1>3 DEF PushEnds
<1>4. QED
  BY <1>2, <1>3

LEMMA FlushTypes ==
  ASSUME TypeOK, Sessions, NEW q \in Seq(Copy), NEW then \in BOOLEAN, FlushPending(q, then)
  PROVE  flush' \in FlushType /\ displaced' \in BOOLEAN
<1>1. flush \in FlushType /\ session \in 0..MaxSignIns /\ displaced \in BOOLEAN
  BY Basics, TypeIs DEF TypeRest
<1>2. CASE flush.pc = "idle" /\ q # <<>>
  <2>1. Head(q) \in Copy
    BY <1>2, TailElements
  <2>2. flush' = [pc |-> "sent", copy |-> Head(q), token |-> session, then |-> then]
        /\ displaced' = FALSE
    BY <1>2 DEF FlushPending
  <2>3. QED
    BY <1>1, <2>1, <2>2 DEF FlushType
<1>3. CASE ~(flush.pc = "idle" /\ q # <<>>)
  BY <1>1, <1>3 DEF FlushPending
<1>4. QED
  BY <1>2, <1>3

LEMMA CountTypes ==
  ASSUME TypeOK, Sessions, Fault \/ Move
  PROVE  demands' \in 0..MaxDemands /\ moves' \in 0..MaxMoves /\ faults' \in 0..MaxFaults
<1>1. demands \in 0..MaxDemands /\ moves \in 0..MaxMoves /\ faults \in 0..MaxFaults
      /\ MaxMoves \in Nat /\ MaxFaults \in Nat
  BY Basics, TypeIs DEF TypeRest
<1>2. QED
  BY <1>1 DEF Fault, Move

(* A clip is added behind the others.                                      *)
LEMMA Grown ==
  ASSUME TypeOK, NEW c \in Clip, log' = Append(log, c)
  PROVE  /\ log' \in Seq(Clip) /\ Len(log') = Len(log) + 1 /\ Len(log) \in Nat
         /\ DOMAIN log = 1..Len(log) /\ DOMAIN log' = 1..(Len(log) + 1)
         /\ \A i \in DOMAIN log : i \in DOMAIN log' /\ log'[i] = log[i]
         /\ log'[Len(log) + 1] = c
<1>1. log \in Seq(Clip)
  BY TypeIs DEF TypeRest
<1>2. /\ Append(log, c) \in Seq(Clip) /\ Len(Append(log, c)) = Len(log) + 1 /\ Len(log) \in Nat
      /\ DOMAIN Append(log, c) = DOMAIN log \union {Len(log) + 1} /\ DOMAIN log = 1..Len(log)
      /\ \A i \in DOMAIN log : Append(log, c)[i] = log[i]
      /\ Append(log, c)[Len(log) + 1] = c
  BY <1>1, Appended
<1>3. DOMAIN log \union {Len(log) + 1} = 1..(Len(log) + 1)
  BY <1>2
<1>4. QED
  BY <1>2, <1>3

LEMMA GrownTypes ==
  ASSUME TypeOK, Sessions, NEW c \in Clip, log' = Append(log, c),
         UNCHANGED <<over, accounts, session, lastSeq, latest, queue, shown, shownSaved, foreground,
                     sync, resync, leaving, socket, readAt, excused, displaced, crossed, quiet,
                     demands, moves, faults>>,
         flush' \in FlushType, notice' \in BOOLEAN,
         wire' \in Seq(DOMAIN log'), wire' # <<>> => socket = "open" /\ session # 0
  PROVE  TypeOK'
<1>1. /\ log' \in Seq(Clip) /\ Len(log') = Len(log) + 1 /\ Len(log) \in Nat
      /\ DOMAIN log = 1..Len(log) /\ DOMAIN log' = 1..(Len(log) + 1)
  BY Grown
<1>2. 0..Len(log) \subseteq 0..Len(log') /\ DOMAIN log \subseteq DOMAIN log'
  BY <1>1
<1>3. sync \in PassType
  BY Basics
<1>4. sync' \in [pc : {"idle", "sent", "page", "ack", "pushed"}, cursor : 0..Len(log'),
                 page : SUBSET DOMAIN log', newest : 0..Len(log'), write : BOOLEAN,
                 then : {"end", "connect", "cancelled"}, token : 0..MaxSignIns]
  BY <1>2, <1>3 DEF PassType
<1>5. /\ lastSeq' \in 0..Len(log') /\ latest' \in 0..Len(log') /\ shown' \in 0..Len(log')
      /\ shownSaved' \in {0, shown'} /\ readAt' \in 0..Len(log') /\ excused' \subseteq DOMAIN log'
  BY <1>2, TypeIs DEF TypeRest
<1>6. QED
  BY <1>1, <1>4, <1>5 DEF TypeOK, FlushType

(* Every step keeps the types.                                             *)
LEMMA TypeStep ==
  ASSUME TypeOK, Sessions, Remotes, [Next]_vars
  PROVE  TypeOK'
<1> USE DEF persisted, tasks, connection, history, counts
<1>r. TypeRest
  BY TypeIs
<1>0. /\ Len(log) \in Nat /\ DOMAIN log = 1..Len(log) /\ 0 \in 0..Len(log)
      /\ session \in 0..MaxSignIns /\ DOMAIN accounts \subseteq 0..MaxSignIns
      /\ sync \in PassType /\ flush \in FlushType /\ NoFlush \in FlushType /\ NoPass \in PassType
      /\ lastSeq \in 0..Len(log) /\ foreground \in BOOLEAN /\ Cursor \in 0..Len(log)
      /\ Newest \in 0..Len(log)
  BY Basics, CursorTypes, <1>r DEF TypeRest
<1>00. /\ PendingCap \in Nat /\ MaxDemands \in Nat /\ MaxSignIns \in Nat /\ demands \in 0..MaxDemands
       /\ queue \in Seq(Copy) /\ Len(queue) \in Nat /\ Len(queue) <= PendingCap
       /\ log \in Seq(Clip) /\ accounts \in Seq(Account) /\ wire \in Seq(DOMAIN log)
  BY Basics, <1>r DEF TypeRest
<1>1. ASSUME NEW a \in Account, RemoteClip(a) PROVE TypeOK'
  <2> DEFINE c == [account |-> a, key |-> a, origin |-> "other", id |-> 0]
  <2>1. c \in Clip
    BY Basics DEF Clip
  <2>2. log' = Append(log, c)
    BY <1>1 DEF RemoteClip
  <2>3. DOMAIN log' = 1..(Len(log) + 1) /\ Len(log') = Len(log) + 1 /\ Len(log') \in DOMAIN log'
    BY <1>0, <2>1, <2>2, Grown
  <2>4. wire \in Seq(DOMAIN log')
    BY <1>00, <1>0, <2>3
  <2>5. socket = "open" /\ AccountOf(session) = a => session # 0
    BY PhoneAssumption DEF AccountOf
  <2>6. wire' \in Seq(DOMAIN log') /\ (wire' # <<>> => socket = "open" /\ session # 0)
    <3>1. CASE socket = "open" /\ AccountOf(session) = a
      <4>1. wire' = Append(wire, Len(log'))
        BY <1>1, <3>1 DEF RemoteClip
      <4>2. wire' \in Seq(DOMAIN log')
        BY <2>3, <2>4, <4>1, Appended
      <4>3. QED
        BY <2>5, <3>1, <4>2
    <3>2. CASE ~(socket = "open" /\ AccountOf(session) = a)
      <4>1. wire' = wire
        BY <1>1, <3>2 DEF RemoteClip
      <4>2. QED
        BY <1>r, <2>4, <4>1 DEF TypeRest
    <3>3. QED
      BY <3>1, <3>2
  <2>7. notice' \in BOOLEAN
    BY <1>1, <1>r DEF RemoteClip, TypeRest
  <2>8. QED
    BY <1>0, <1>1, <2>1, <2>2, <2>6, <2>7, GrownTypes DEF RemoteClip
<1>2. CASE StoreUpload
  <2> DEFINE c == [account |-> accounts[flush.token], key |-> flush.copy.key, origin |-> "me",
                   id |-> flush.copy.id]
  <2>1. flush.token \in DOMAIN accounts /\ flush.copy \in Copy
    BY <1>2 DEF StoreUpload, Sessions
  <2>2. c \in Clip
    <3>1. accounts[flush.token] \in Account
      BY <1>00, <2>1
    <3>2. flush.copy.key \in Account /\ flush.copy.id \in 0..MaxDemands
      BY <1>00, <2>1 DEF Copy
    <3>3. QED
      BY <3>1, <3>2 DEF Clip
  <2>3. flush' \in FlushType
    BY <1>0, <1>2 DEF StoreUpload, FlushType
  <2>4. CASE log' = log
    <3>1. UNCHANGED <<over, accounts, session, lastSeq, latest, queue, shownSaved, shown,
                      foreground, sync, resync, leaving, socket, wire, notice, readAt, excused,
                      displaced, crossed, quiet, demands, moves, faults>>
      BY <1>2 DEF StoreUpload
    <3>2. QED
      <4>1. TypeRest'
        BY <2>3, <2>4, <3>1, <1>r DEF TypeRest
      <4>2. QED
        BY <2>3, <2>4, <3>1, <1>0, <4>1, Typed
  <2>5. CASE log' = Append(log, c)
    <3>1. DOMAIN log \subseteq DOMAIN log'
      BY <2>2, <2>5, Grown
    <3>2. wire' \in Seq(DOMAIN log') /\ (wire' # <<>> => socket = "open" /\ session # 0)
      BY <1>2, <3>1, <1>r DEF StoreUpload, TypeRest
    <3>3. QED
      BY <1>2, <1>r, <2>2, <2>3, <2>5, <3>2, GrownTypes DEF StoreUpload, TypeRest
  <2>6. QED
    BY <1>2, <2>4, <2>5 DEF StoreUpload
<1>3. CASE ServePage
  <2>1. PageAfter(accounts[sync.token], sync.cursor) \subseteq DOMAIN log
    BY DEF PageAfter
  <2>2. sync' \in PassType
    BY <1>0, <1>3, <2>1 DEF ServePage, PassType
  <2>3. readAt' \in 0..Len(log) /\ excused' \subseteq DOMAIN log
    BY <1>0, <1>3 DEF ServePage
  <2>4. QED
    <3>1. UNCHANGED <<log, over, accounts, session, lastSeq, latest, queue, shownSaved, shown,
                      foreground, flush, resync, leaving, socket, wire, notice, displaced,
                      crossed, quiet, demands, moves, faults>>
      BY <1>3 DEF ServePage
    <3>2. QED
      <4>1. TypeRest'
        BY <2>2, <2>3, <3>1, <1>r DEF TypeRest
      <4>2. QED
        BY <2>2, <2>3, <3>1, <1>0, <4>1, Typed
<1>4. CASE LocalCopy
  <2> DEFINE u == [id |-> demands + 1, key |-> AccountOf(session)]
             all == Append(queue, u)
  <2>1. demands' = demands + 1 /\ demands' \in 1..MaxDemands /\ demands' \in 0..MaxDemands
    BY <1>00, <1>4 DEF LocalCopy
  <2>2. AccountOf(session) \in Account
    BY <1>4, <1>r DEF LocalCopy, AccountOf, TypeRest
  <2>3. u \in Copy
    BY <2>1, <2>2 DEF Copy
  <2>4. all \in Seq(Copy) /\ all # <<>> /\ Len(all) = Len(queue) + 1 /\ Len(queue) \in Nat
        /\ Len(queue) <= PendingCap
    BY <1>00, <2>3, Appended
  <2>5. queue' = Kept(all)
    BY <1>4, <2>1 DEF LocalCopy
  <2>6. queue' \in Seq(Copy) /\ Len(queue') <= PendingCap
    BY <2>4, <2>5, TailElements, Basics DEF Kept
  <2>7. flush' \in FlushType /\ displaced' \in BOOLEAN
    BY <1>0, <1>4, <2>6, FlushTypes DEF LocalCopy
  <2>8. QED
    <3>1. UNCHANGED <<log, over, accounts, session, lastSeq, latest, shown, shownSaved,
                      foreground, sync, resync, leaving, socket, wire, notice, readAt, excused,
                      crossed, quiet, moves, faults>>
      BY <1>4 DEF LocalCopy
    <3>2. QED
      <4>1. TypeRest'
        BY <2>1, <2>6, <2>7, <3>1, <1>r DEF TypeRest
      <4>2. QED
        BY <2>1, <2>6, <2>7, <3>1, <1>0, <4>1, Typed
<1>5. CASE Trap \/ Kill
  <2>1. wire' = <<>> /\ flush' = NoFlush /\ sync' = NoPass /\ shown' = shownSaved
        /\ shownSaved' = shownSaved /\ log' = log /\ foreground' = FALSE /\ socket' = "closed"
        /\ resync' = FALSE /\ leaving' = FALSE /\ displaced' = FALSE
    BY <1>5 DEF Trap, Kill
  <2>2. wire' \in Seq(DOMAIN log') /\ (wire' # <<>> => socket' = "open" /\ session' # 0)
    BY <2>1
  <2>3. shown' \in 0..Len(log) /\ shownSaved' \in {0, shown'}
    BY <1>0, <2>1, <1>r DEF TypeRest
  <2>4. flush' \in FlushType /\ sync' \in PassType
    BY <1>0, <2>1
  <2>5. demands' \in 0..MaxDemands /\ moves' \in 0..MaxMoves /\ faults' \in 0..MaxFaults
    BY <1>5, CountTypes, <1>r DEF Trap, Kill, TypeRest
  <2>6. UNCHANGED <<log, over, accounts, session, lastSeq, latest, queue, notice, readAt, excused,
                    crossed, quiet>>
    BY <1>5 DEF Trap, Kill
  <2>7. QED
    <3>1. TypeRest'
      BY <2>1, <2>2, <2>3, <2>4, <2>5, <2>6, <1>r DEF TypeRest
    <3>2. QED
      BY <2>1, <2>2, <2>3, <2>4, <2>5, <2>6, <1>0, <3>1, Typed
<1>6. CASE Uploaded
  <2>1. queue \in Seq(Copy) /\ queue # <<>> /\ queue' = Tail(queue)
    BY <1>6, <1>r DEF Uploaded, TypeRest
  <2>2. queue' \in Seq(Copy) /\ Len(queue') = Len(queue) - 1 /\ Len(queue) \in Nat
    BY <2>1, TailElements
  <2>3. flush' \in FlushType
    <3>1. CASE queue' # <<>> /\ session # 0
      <4>1. Head(queue') \in Copy
        BY <2>2, <3>1, TailElements
      <4>2. flush' = [flush EXCEPT !.pc = "sent", !.copy = Head(queue'), !.token = session]
        BY <1>6, <3>1 DEF Uploaded
      <4>3. QED
        BY <1>0, <4>1, <4>2 DEF FlushType
    <3>2. CASE ~(queue' # <<>> /\ session # 0)
      BY <1>0, <1>6, <3>2 DEF Uploaded
    <3>3. QED
      BY <3>1, <3>2
  <2>4. sync' \in PassType /\ resync' \in BOOLEAN
    <3>1. CASE Sync(foreground, "end")
      <4>1. lastSeq' \in 0..Len(log) /\ session' \in 0..MaxSignIns
        BY <1>0, <1>6 DEF Uploaded
      <4>2. QED
        BY <1>0, <3>1, <4>1, SyncTypes
    <3>2. CASE UNCHANGED <<sync, resync>>
      BY <1>0, <1>r, <3>2 DEF TypeRest
    <3>3. QED
      BY <1>6, <3>1, <3>2 DEF Uploaded
  <2>5. Len(queue') <= PendingCap
    BY <1>00, <2>2
  <2>6. QED
    <3>1. TypeRest'
      BY <1>6, <2>2, <2>3, <2>4, <2>5, <1>r DEF Uploaded, TypeRest
    <3>2. QED
      BY <1>6, <2>2, <2>3, <2>4, <2>5, <1>0, <3>1, Typed DEF Uploaded
<1>7. CASE UploadUnauthorized
  <2>1. flush' \in FlushType
    BY <1>0, <1>7 DEF UploadUnauthorized, FlushType
  <2>2. QED
    <3>1. TypeRest'
      BY <1>7, <2>1, <1>r DEF UploadUnauthorized, TypeRest
    <3>2. QED
      BY <1>7, <2>1, <1>0, <3>1, Typed DEF UploadUnauthorized
<1>8. CASE UploadLost
  <2>1. /\ flush' = NoFlush
        /\ UNCHANGED <<log, over, accounts, session, lastSeq, latest, queue, shownSaved, shown,
                       foreground, sync, resync, leaving, socket, wire, notice, readAt, excused,
                       displaced, crossed, quiet>>
    BY <1>8 DEF UploadLost
  <2>2. demands' \in 0..MaxDemands /\ moves' \in 0..MaxMoves /\ faults' \in 0..MaxFaults
    BY <1>8, CountTypes DEF UploadLost
  <2>3. QED
    <3>1. TypeRest'
      BY <1>0, <2>1, <2>2, <1>r DEF TypeRest
    <3>2. QED
      BY <1>0, <2>1, <2>2, <3>1, Typed
<1>9. CASE NextPage
  <2>1. CASE session = 0
    <3>1. TypeRest'
      BY <1>9, <2>1, PassFailsTypes, <1>r DEF NextPage, TypeRest
    <3>2. QED
      BY <1>9, <2>1, PassFailsTypes, <1>0, <3>1, Typed DEF NextPage
  <2>2. CASE session # 0
    <3>1. sync' = [sync EXCEPT !.pc = "sent", !.cursor = Cursor, !.newest = Newest,
                               !.page = {}, !.token = session]
      BY <1>9, <2>2 DEF NextPage
    <3>2. sync' \in PassType
      BY <1>0, <3>1 DEF PassType
    <3>3. QED
      <4>1. TypeRest'
        BY <1>9, <2>2, <3>2, <1>r DEF NextPage, TypeRest
      <4>2. QED
        BY <1>9, <2>2, <3>2, <1>0, <4>1, Typed DEF NextPage
  <2>3. QED
    BY <2>1, <2>2
<1>10. ASSUME NEW i \in 0..Len(log), UNCHANGED log, ShowNewest(i) \/ Show(i)
       PROVE  shown' \in 0..Len(log) /\ shownSaved' \in {0, shown'} /\ quiet' \in BOOLEAN
  <2>1. shown \in 0..Len(log) /\ shownSaved \in {0, shown} /\ quiet \in BOOLEAN
    BY <1>r DEF TypeRest
  <2>2. QED
    BY <1>0, <1>10, <2>1 DEF ShowNewest, Show
<1>11. CASE LastPage
  <2>1. UNCHANGED <<log, over, accounts, session, lastSeq, latest, queue, foreground, flush, leaving,
                    wire, notice, readAt, displaced, crossed, demands, moves, faults>>
    BY <1>11 DEF LastPage
  <2>2. CASE PassFails /\ UNCHANGED <<shown, shownSaved, quiet>>
    <3>1. TypeRest'
      BY <2>1, <2>2, PassFailsTypes, <1>r DEF TypeRest
    <3>2. QED
      BY <2>1, <2>2, PassFailsTypes, <1>0, <3>1, Typed
  <2>3. CASE /\ sync' = [sync EXCEPT !.pc = "ack", !.cursor = Cursor, !.newest = Newest,
                                     !.page = {}, !.token = session]
             /\ UNCHANGED <<resync, socket, shown, shownSaved, quiet, excused>>
    <3>1. sync' \in PassType
      BY <1>0, <2>3 DEF PassType
    <3>2. QED
      <4>1. TypeRest'
        BY <2>1, <2>3, <3>1, <1>r DEF TypeRest
      <4>2. QED
        BY <2>1, <2>3, <3>1, <1>0, <4>1, Typed
  <2>4. CASE PassEnds /\ ShowNewest(Newest) /\ UNCHANGED excused
    <3>1. sync' \in PassType /\ resync' \in BOOLEAN
          /\ (socket' = socket \/ (socket \in {"closed", "waiting"} /\ socket' = "opening"))
      BY <1>0, <2>1, <2>4, PassEndsTypes
    <3>2. shown' \in 0..Len(log) /\ shownSaved' \in {0, shown'} /\ quiet' \in BOOLEAN
      BY <1>0, <1>10, <2>1, <2>4
    <3>3. QED
      <4>1. TypeRest'
        BY <2>1, <2>4, <3>1, <3>2, <1>r DEF TypeRest
      <4>2. QED
        BY <2>1, <2>4, <3>1, <3>2, <1>0, <4>1, Typed
  <2>5. QED
    BY <1>11, <2>2, <2>3, <2>4 DEF LastPage
<1>12. CASE Acknowledged
  <2>1. UNCHANGED <<log, over, accounts, session, queue, foreground, flush, leaving, wire,
                    notice, readAt, excused, displaced, crossed, demands, moves, faults>>
    BY <1>12 DEF Acknowledged
  <2>2. sync.cursor \in 0..Len(log) /\ sync.newest \in 0..Len(log)
    BY <1>0 DEF PassType
  <2>3. lastSeq' \in 0..Len(log) /\ latest' \in 0..Len(log)
    BY <1>12, <2>2, <1>r DEF Acknowledged, TypeRest
  <2>4. sync' \in PassType /\ resync' \in BOOLEAN
        /\ (socket' = socket \/ (socket \in {"closed", "waiting"} /\ socket' = "opening"))
    BY <1>12, <2>3, PassEndsTypes DEF Acknowledged
  <2>5. shown' \in 0..Len(log) /\ shownSaved' \in {0, shown'} /\ quiet' \in BOOLEAN
    BY <1>10, <1>12, <2>1, <2>2 DEF Acknowledged
  <2>6. QED
    <3>1. TypeRest'
      BY <2>1, <2>3, <2>4, <2>5, <1>r DEF TypeRest
    <3>2. QED
      BY <2>1, <2>3, <2>4, <2>5, <1>0, <3>1, Typed
<1>13. CASE PassUnauthorized
  <2>1. CASE session # 0
    <3>1. sync' = [sync EXCEPT !.token = session]
      BY <1>13, <2>1 DEF PassUnauthorized
    <3>2. sync' \in PassType
      BY <1>0, <3>1 DEF PassType
    <3>3. QED
      <4>1. TypeRest'
        BY <1>13, <2>1, <3>2, <1>r DEF PassUnauthorized, TypeRest
      <4>2. QED
        BY <1>13, <2>1, <3>2, <1>0, <4>1, Typed DEF PassUnauthorized
  <2>2. CASE session = 0 /\ sync.pc = "pushed"
    <3>1. TypeRest'
      BY <1>13, <2>2, PushEndsTypes, <1>r DEF PassUnauthorized, TypeRest
    <3>2. QED
      BY <1>13, <2>2, PushEndsTypes, <1>0, <3>1, Typed DEF PassUnauthorized
  <2>3. CASE session = 0 /\ sync.pc # "pushed"
    <3>1. TypeRest'
      BY <1>13, <2>3, PassFailsTypes, <1>r DEF PassUnauthorized, TypeRest
    <3>2. QED
      BY <1>13, <2>3, PassFailsTypes, <1>0, <3>1, Typed DEF PassUnauthorized
  <2>4. QED
    BY <2>1, <2>2, <2>3
<1>14. CASE PassLost
  <2>1. demands' \in 0..MaxDemands /\ moves' \in 0..MaxMoves /\ faults' \in 0..MaxFaults
    BY <1>14, CountTypes, <1>r DEF PassLost, TypeRest
  <2>2. QED
    <3>1. PassFails /\ UNCHANGED <<log, over, accounts, session, lastSeq, latest, queue,
                                   shownSaved, shown, foreground, flush, leaving, wire, notice,
                                   readAt, displaced, crossed, quiet>>
      BY <1>14 DEF PassLost
    <3>2. QED
      <4>1. TypeRest'
        BY <2>1, <3>1, PassFailsTypes, <1>r DEF TypeRest
      <4>2. QED
        BY <2>1, <3>1, PassFailsTypes, <1>0, <4>1, Typed
<1>15. CASE Connect
  <2>1. excused' \subseteq DOMAIN log
    <3>1. readAt \in Nat /\ excused \subseteq DOMAIN log
      BY <1>r DEF TypeRest
    <3>2. (readAt + 1)..Len(log) \subseteq DOMAIN log
      BY <1>0, <3>1
    <3>3. QED
      BY <1>15, <3>1, <3>2 DEF Connect
  <2>2. QED
    <3>1. TypeRest'
      BY <1>15, <2>1, <1>r DEF Connect, TypeRest
    <3>2. QED
      BY <1>15, <2>1, <1>0, <3>1, Typed DEF Connect
<1>16. CASE Disconnect
  <2>1. wire' = <<>> /\ wire' \in Seq(DOMAIN log)
    BY <1>16 DEF Disconnect
  <2>2. QED
    <3>1. /\ socket' = "waiting"
          /\ UNCHANGED <<log, over, accounts, session, lastSeq, latest, queue, shownSaved, shown,
                         foreground, flush, sync, resync, leaving, notice, readAt, excused,
                         displaced, crossed, quiet>>
      BY <1>16 DEF Disconnect
    <3>2. demands' \in 0..MaxDemands /\ moves' \in 0..MaxMoves /\ faults' \in 0..MaxFaults
      BY <1>16, CountTypes DEF Disconnect
    <3>3. QED
      <4>1. TypeRest'
        BY <2>1, <3>1, <3>2, <1>r DEF TypeRest
      <4>2. QED
        BY <2>1, <3>1, <3>2, <1>0, <4>1, Typed
<1>17. CASE Reconnect
  <2>1. lastSeq' \in 0..Len(log) /\ session' \in 0..MaxSignIns /\ Sync(foreground, "connect")
    BY <1>0, <1>17 DEF Reconnect
  <2>2. sync' \in PassType /\ resync' \in BOOLEAN
    BY <1>0, <2>1, SyncTypes
  <2>3. QED
    <3>1. /\ socket' \in {"closed", "opening"}
          /\ UNCHANGED <<log, over, accounts, session, lastSeq, latest, queue, shownSaved, shown,
                         foreground, flush, leaving, wire, notice, readAt, excused, displaced,
                         crossed, quiet, demands, moves, faults>>
      BY <1>17 DEF Reconnect
    <3>2. wire = <<>>
      BY <1>17, <1>r DEF Reconnect, TypeRest
    <3>3. QED
      <4>1. TypeRest'
        BY <2>2, <3>1, <3>2, <1>r DEF TypeRest
      <4>2. QED
        BY <2>2, <3>1, <3>2, <1>0, <4>1, Typed
<1>18. CASE PushedClip
  <2> DEFINE i == Head(wire)
  <2>1. i \in DOMAIN log /\ wire' \in Seq(DOMAIN log) /\ wire # <<>>
    BY <1>18, TailElements, <1>r DEF PushedClip, TypeRest
  <2>2. UNCHANGED <<log, over, accounts, session, queue, shownSaved, shown, foreground, flush,
                    leaving, socket, notice, readAt, excused, displaced, crossed, quiet, demands,
                    moves, faults>>
    BY <1>18 DEF PushedClip
  <2>3. lastSeq' \in 0..Len(log) /\ latest' \in 0..Len(log) /\ sync' \in PassType /\ resync' \in BOOLEAN
    <3>0. latest \in 0..Len(log) /\ resync \in BOOLEAN /\ i \in 0..Len(log) /\ i \in Nat
          /\ lastSeq \in Nat
      <4>1. latest \in 0..Len(log) /\ resync \in BOOLEAN
        BY <1>r DEF TypeRest
      <4>2. i \in DOMAIN log
        BY <2>1
      <4>3. QED
        BY <1>0, <4>1, <4>2
    <3>1. CASE sync.pc # "idle"
      <4>1. resync' = TRUE /\ UNCHANGED <<sync, lastSeq, latest>>
        BY <1>18, <3>1 DEF PushedClip, Defer
      <4>2. QED
        BY <1>0, <3>0, <4>1
    <3>2. CASE sync.pc = "idle" /\ i <= lastSeq
      <4>1. UNCHANGED <<sync, resync, lastSeq, latest>>
        BY SMTT(30), <1>18, <3>0, <3>2 DEF PushedClip
      <4>2. QED
        BY <1>0, <3>0, <4>1
    <3>3. CASE sync.pc = "idle" /\ i = lastSeq + 1
      <4>1. /\ lastSeq' = i /\ latest' = i /\ resync' = resync
            /\ sync' = [NoPass EXCEPT !.pc = "pushed", !.newest = i, !.token = session]
        BY SMTT(30), <1>18, <3>0, <3>3 DEF PushedClip
      <4>2. QED
        BY <1>0, <3>0, <4>1 DEF PassType
    <3>4. CASE sync.pc = "idle" /\ i > lastSeq + 1
      <4>1. UNCHANGED <<lastSeq, latest>> /\ Sync(foreground, "end")
        BY <1>18, <3>0, <3>4 DEF PushedClip
      <4>2. sync' \in PassType /\ resync' \in BOOLEAN
        BY <1>0, <2>2, <4>1, SyncTypes
      <4>3. QED
        BY <1>0, <3>0, <4>1, <4>2
    <3>5. QED
      BY <3>0, <3>1, <3>2, <3>3, <3>4
  <2>4. QED
    <3>1. TypeRest'
      BY <2>1, <2>2, <2>3, <1>r DEF TypeRest
    <3>2. QED
      BY <2>1, <2>2, <2>3, <1>0, <3>1, Typed
<1>19. CASE PushAcknowledged
  <2>1. sync.newest \in 0..Len(log)
    BY <1>0 DEF PassType
  <2>2. shown' \in 0..Len(log) /\ shownSaved' \in {0, shown'} /\ quiet' \in BOOLEAN
    <3>1. CASE foreground
      BY <1>10, <1>19, <2>1, <3>1 DEF PushAcknowledged
    <3>2. CASE ~foreground
      BY <1>19, <1>r, <3>2 DEF PushAcknowledged, TypeRest
    <3>3. QED
      BY <3>1, <3>2
  <2>3. sync' \in PassType /\ resync' \in BOOLEAN
    BY <1>19, PushEndsTypes DEF PushAcknowledged
  <2>4. QED
    <3>1. UNCHANGED <<log, over, accounts, session, lastSeq, latest, queue, foreground, flush,
                      leaving, socket, wire, notice, readAt, excused, displaced, crossed,
                      demands, moves, faults>>
      BY <1>19 DEF PushAcknowledged
    <3>2. QED
      <4>1. TypeRest'
        BY <2>2, <2>3, <3>1, <1>r DEF TypeRest
      <4>2. QED
        BY <2>2, <2>3, <3>1, <1>0, <4>1, Typed
<1>20. CASE PushLost
  <2>1. sync' \in PassType /\ resync' \in BOOLEAN /\ quiet' \in BOOLEAN
    BY <1>20, PushEndsTypes, <1>r DEF PushLost, TypeRest
  <2>2. QED
    <3>1. UNCHANGED <<log, over, accounts, session, lastSeq, latest, queue, shownSaved, shown,
                      foreground, flush, leaving, socket, wire, notice, readAt, excused,
                      displaced, crossed>>
      BY <1>20 DEF PushLost
    <3>2. demands' \in 0..MaxDemands /\ moves' \in 0..MaxMoves /\ faults' \in 0..MaxFaults
      BY <1>20, CountTypes DEF PushLost
    <3>3. QED
      <4>1. TypeRest'
        BY <2>1, <3>1, <3>2, <1>r DEF TypeRest
      <4>2. QED
        BY <2>1, <3>1, <3>2, <1>0, <4>1, Typed
<1>21. ASSUME NEW a \in Account, SignIn(a) PROVE TypeOK'
  <2>1. /\ accounts' \in Seq(Account) /\ Len(accounts') = Len(accounts) + 1
        /\ DOMAIN accounts' = DOMAIN accounts \union {Len(accounts) + 1}
        /\ Len(accounts) + 1 \notin DOMAIN accounts /\ Len(accounts) \in Nat
    <3>1. accounts' = Append(accounts, a)
      BY <1>21 DEF SignIn
    <3>2. QED
      BY <1>00, <3>1, Appended
  <2>2. session' = Len(accounts) + 1 /\ over' \subseteq DOMAIN accounts
        /\ session' \in 0..MaxSignIns
    <3>1. session' = Len(accounts') /\ Len(accounts) < MaxSignIns
          /\ over' = over \union {n \in DOMAIN accounts : accounts[n] = a}
      BY <1>21 DEF SignIn
    <3>2. over \subseteq DOMAIN accounts
      BY <1>r DEF TypeRest
    <3>3. QED
      BY <1>00, <2>1, <3>1, <3>2
  <2>3. /\ lastSeq' = 0 /\ latest' = 0 /\ shownSaved' = 0 /\ queue' = <<>>
        /\ socket' = "opening" /\ Sync(foreground, "end") /\ readAt' = 0 /\ excused' = {}
        /\ quiet' = FALSE /\ crossed' = (sync.pc # "idle") /\ session = 0
        /\ UNCHANGED <<log, shown, foreground, flush, leaving, wire, notice, displaced, demands,
                       moves, faults>>
    BY <1>21 DEF SignIn, ClearState
  <2>4. sync' \in PassType /\ resync' \in BOOLEAN
    BY <1>0, <2>2, <2>3, SyncTypes
  <2>5. queue' \in Seq(Copy) /\ Len(queue') <= PendingCap /\ wire = <<>>
    BY <2>3, Basics, <1>r DEF TypeRest
  <2>6. lastSeq' \in 0..Len(log) /\ latest' \in 0..Len(log) /\ readAt' \in 0..Len(log)
    BY <1>0, <2>3
  <2>7. QED
    <3>1. TypeRest'
      BY <2>1, <2>2, <2>3, <2>4, <2>5, <2>6, <1>r DEF TypeRest
    <3>2. QED
      BY <2>1, <2>2, <2>3, <2>4, <2>5, <2>6, <1>0, <3>1, Typed
<1>22. CASE SignOut
  <2>1. /\ leaving' = TRUE
        /\ UNCHANGED <<log, over, accounts, session, lastSeq, latest, queue, shownSaved, shown,
                       foreground, flush, sync, resync, socket, wire, notice, readAt, excused,
                       displaced, crossed, quiet>>
    BY <1>22 DEF SignOut
  <2>2. demands' \in 0..MaxDemands /\ moves' \in 0..MaxMoves /\ faults' \in 0..MaxFaults
    BY <1>22, CountTypes DEF SignOut
  <2>3. QED
    <3>1. TypeRest'
      BY <2>1, <2>2, <1>r DEF TypeRest
    <3>2. QED
      BY <2>1, <2>2, <1>0, <3>1, Typed
<1>23. CASE SignedOut
  <2>1. session \in DOMAIN accounts
    BY <1>23, <1>r DEF SignedOut, Sessions, TypeRest
  <2>2. over' \subseteq DOMAIN accounts
    BY <1>23, <2>1, <1>r DEF SignedOut, TypeRest
  <2>3. /\ session' = 0 /\ lastSeq' = 0 /\ latest' = 0 /\ shownSaved' = 0 /\ queue' = <<>>
        /\ socket' = "closed" /\ wire' = <<>> /\ notice' = FALSE /\ leaving' = FALSE
        /\ UNCHANGED <<log, accounts, shown, foreground, flush, sync, resync, readAt, excused,
                       crossed, quiet>>
    BY <1>23 DEF SignedOut, ClearState
  <2>4. displaced' \in BOOLEAN
    BY <1>23, <1>r DEF SignedOut, TypeRest
  <2>5. demands' \in 0..MaxDemands /\ moves' \in 0..MaxMoves /\ faults' \in 0..MaxFaults
    BY <1>23, CountTypes, <1>r DEF SignedOut, TypeRest
  <2>6. queue' \in Seq(Copy) /\ Len(queue') <= PendingCap /\ wire' \in Seq(DOMAIN log)
    BY <2>3, Basics
  <2>7. lastSeq' \in 0..Len(log) /\ latest' \in 0..Len(log)
    BY <1>0, <2>3
  <2>8. QED
    <3>1. session' \in {0} \union (DOMAIN accounts' \ over') /\ over' \subseteq DOMAIN accounts'
      BY <2>2, <2>3
    <3>2. /\ log' \in Seq(Clip) /\ accounts' \in Seq(Account) /\ shown' \in 0..Len(log')
          /\ lastSeq' \in 0..Len(log') /\ latest' \in 0..Len(log') /\ shownSaved' \in {0, shown'}
          /\ wire' \in Seq(DOMAIN log') /\ (wire' # <<>> => socket' = "open" /\ session' # 0)
      BY <1>00, <2>3, <2>6, <2>7, <1>r DEF TypeRest
    <3>3. /\ foreground' \in BOOLEAN /\ resync' \in BOOLEAN /\ leaving' \in BOOLEAN
          /\ socket' \in {"closed", "waiting", "opening", "open"} /\ notice' \in BOOLEAN
          /\ readAt' \in 0..Len(log') /\ excused' \subseteq DOMAIN log'
          /\ {displaced', crossed', quiet'} \subseteq BOOLEAN
      BY <2>3, <2>4, <1>r DEF TypeRest
    <3>4. QED
      <4>1. TypeRest'
        BY <1>0, <2>3, <2>5, <2>6, <3>1, <3>2, <3>3, <1>r DEF TypeRest
      <4>2. QED
        BY <1>0, <2>3, <2>5, <2>6, <3>1, <3>2, <3>3, <4>1, Typed
<1>24. CASE EnterForeground
  <2>1. UNCHANGED <<log, over, accounts, session, lastSeq, latest, queue, flush, leaving, wire,
                    notice, readAt, excused, displaced, crossed, demands, moves, faults>>
        /\ foreground' = TRUE
    BY <1>24 DEF EnterForeground
  <2>2. sync' \in PassType /\ resync' \in BOOLEAN
    <3>1. CASE session # 0
      BY <1>0, <1>24, <2>1, <3>1, SyncTypes DEF EnterForeground
    <3>2. CASE session = 0
      BY <1>0, <1>24, <1>r, <3>2 DEF EnterForeground, TypeRest
    <3>3. QED
      BY <3>1, <3>2
  <2>3. shown' \in 0..Len(log) /\ shownSaved' \in {0, shown'} /\ quiet' \in BOOLEAN
    <3>1. latest \in 0..Len(log) /\ shown \in 0..Len(log) /\ shownSaved \in {0, shown}
          /\ quiet \in BOOLEAN
      BY <1>r DEF TypeRest
    <3>2. CASE session # 0
      BY <1>10, <1>24, <2>1, <3>1, <3>2 DEF EnterForeground, ApplyPersisted
    <3>3. CASE session = 0
      BY <1>24, <3>1, <3>3 DEF EnterForeground
    <3>4. QED
      BY <3>2, <3>3
  <2>4. socket' = socket \/ (socket = "closed" /\ socket' = "opening")
    BY <1>24 DEF EnterForeground
  <2>5. QED
    <3>1. TypeRest'
      BY <2>1, <2>2, <2>3, <2>4, <1>r DEF TypeRest
    <3>2. QED
      BY <2>1, <2>2, <2>3, <2>4, <1>0, <3>1, Typed
<1>25. CASE EnterBackground
  <2>1. UNCHANGED <<log, over, accounts, session, lastSeq, latest, queue, shownSaved, shown, flush,
                    resync, leaving, notice, readAt, excused, displaced, crossed, quiet>>
        /\ foreground' = FALSE
    BY <1>25 DEF EnterBackground
  <2>2. sync' \in {sync, [sync EXCEPT !.then = "cancelled"]}
    BY <1>25 DEF EnterBackground
  <2>3. sync' \in PassType
    BY <1>0, <2>2 DEF PassType
  <2>4. (socket' = "closed" /\ wire' = <<>>) \/ UNCHANGED <<socket, wire>>
    BY <1>25 DEF EnterBackground
  <2>5. wire' \in Seq(DOMAIN log) /\ socket' \in {"closed", "waiting", "opening", "open"}
        /\ (wire' # <<>> => socket' = "open" /\ session # 0)
    <3>1. wire \in Seq(DOMAIN log) /\ socket \in {"closed", "waiting", "opening", "open"}
          /\ (wire # <<>> => socket = "open" /\ session # 0)
      BY <1>r DEF TypeRest
    <3>2. <<>> \in Seq(DOMAIN log)
      OBVIOUS
    <3>3. CASE socket' = "closed" /\ wire' = <<>>
      BY <3>2, <3>3
    <3>4. CASE UNCHANGED <<socket, wire>>
      BY <2>1, <3>1, <3>4
    <3>5. QED
      BY <2>4, <3>3, <3>4
  <2>6. demands' \in 0..MaxDemands /\ moves' \in 0..MaxMoves /\ faults' \in 0..MaxFaults
    <3>1. Move
      BY <1>25 DEF EnterBackground
    <3>2. QED
      BY <3>1, CountTypes
  <2>7. QED
    <3>1. TypeRest'
      BY <2>1, <2>3, <2>5, <2>6, <1>r DEF TypeRest
    <3>2. QED
      BY <2>1, <2>3, <2>5, <2>6, <1>0, <3>1, Typed
<1>26. CASE RemotePush
  <2>1. lastSeq' \in 0..Len(log) /\ session' \in 0..MaxSignIns /\ Sync(FALSE, "end")
    BY <1>0, <1>26 DEF RemotePush
  <2>2. sync' \in PassType /\ resync' \in BOOLEAN
    BY <2>1, SyncTypes
  <2>3. QED
    <3>1. TypeRest'
      BY <1>26, <2>2, <1>r DEF RemotePush, TypeRest
    <3>2. QED
      BY <1>26, <2>2, <1>0, <3>1, Typed DEF RemotePush
<1>27. CASE RefreshNow
  <2>1. UNCHANGED <<log, over, accounts, session, lastSeq, latest, queue, shownSaved, shown, foreground,
                    leaving, socket, wire, notice, readAt, excused, crossed, quiet, moves, faults>>
    BY <1>27 DEF RefreshNow
  <2>2. demands' \in 0..MaxDemands
    BY <1>00, <1>27 DEF RefreshNow
  <2>3. flush' \in FlushType /\ displaced' \in BOOLEAN
    BY <1>27, FlushTypes, <1>r DEF RefreshNow, TypeRest
  <2>4. sync' \in PassType /\ resync' \in BOOLEAN
    <3>1. CASE Sync(foreground, "end")
      BY <1>0, <2>1, <3>1, SyncTypes
    <3>2. CASE UNCHANGED <<sync, resync>>
      BY <1>0, <1>r, <3>2 DEF TypeRest
    <3>3. QED
      BY <1>27, <3>1, <3>2 DEF RefreshNow
  <2>5. QED
    <3>1. TypeRest'
      BY <2>1, <2>2, <2>3, <2>4, <1>r DEF TypeRest
    <3>2. QED
      BY <2>1, <2>2, <2>3, <2>4, <1>0, <3>1, Typed
<1>28. CASE UNCHANGED vars
  <2>1. TypeRest'
    BY <1>28, <1>r DEF vars, TypeRest
  <2>2. QED
    BY <1>28, <1>0, <2>1, Typed DEF vars
<1> QED
  BY <1>1, <1>2, <1>3, <1>4, <1>5, <1>6, <1>7, <1>8, <1>9, <1>11, <1>12, <1>13, <1>14, <1>15, <1>16,
     <1>17, <1>18, <1>19, <1>20, <1>21, <1>22, <1>23, <1>24, <1>25, <1>26, <1>27, <1>28
     DEF Next, Server, Tasks, User

(* Who is signed in changes at a sign-in and a sign-out only.              *)
LEMMA Stays ==
  ASSUME [Next]_vars, ~SignedOut, ~(\E a \in Account : SignIn(a))
  PROVE  UNCHANGED <<session, accounts, over, crossed>>
<1> USE DEF persisted, history
<1>1. CASE Server
  BY <1>1 DEF Server, RemoteClip, StoreUpload, ServePage
<1>2. CASE Trap \/ Uploaded \/ UploadUnauthorized \/ UploadLost \/ LocalCopy \/ RefreshNow
  BY <1>2 DEF Trap, Uploaded, UploadUnauthorized, UploadLost, LocalCopy, RefreshNow
<1>3. CASE NextPage \/ LastPage \/ Acknowledged \/ PassUnauthorized \/ PassLost
  BY <1>3 DEF NextPage, LastPage, Acknowledged, PassUnauthorized, PassLost
<1>4. CASE PushedClip \/ PushAcknowledged \/ PushLost \/ Connect \/ Reconnect \/ Disconnect
  BY <1>4 DEF PushedClip, PushAcknowledged, PushLost, Connect, Reconnect, Disconnect
<1>5. CASE SignOut \/ EnterForeground \/ EnterBackground \/ Kill \/ RemotePush
  BY <1>5 DEF SignOut, EnterForeground, EnterBackground, Kill, RemotePush
<1>6. CASE UNCHANGED vars
  BY <1>6 DEF vars
<1> QED
  BY <1>1, <1>2, <1>3, <1>4, <1>5, <1>6 DEF Next, Tasks, User

(* What a step may do to the upload and to the pass.                       *)
UploadGoesOn ==
  \/ flush'.pc = "idle"
  \/ flush.pc # "idle" /\ flush'.token = flush.token /\ flush'.copy = flush.copy
  \/ session # 0 /\ flush'.token = session /\ flush'.copy \in Copy

PassGoesOn ==
  \/ sync'.pc = "idle"
  \/ sync.pc # "idle" /\ sync'.token = sync.token
  \/ session # 0 /\ sync'.token = session

LEMMA UploadStep ==
  ASSUME TypeOK, Sessions, [Next]_vars
  PROVE  UploadGoesOn
<1> USE DEF tasks
<1>0. flush \in FlushType /\ queue \in Seq(Copy) /\ session \in {0} \union DOMAIN accounts
      /\ NoFlush.pc = "idle"
  BY Basics, TypeIs DEF TypeRest, NoFlush
<1>1. CASE UNCHANGED flush
  BY <1>1 DEF UploadGoesOn
<1>2. CASE flush' = NoFlush
  BY <1>0, <1>2 DEF UploadGoesOn
<1>3. ASSUME NEW q \in Seq(Copy), NEW then \in BOOLEAN, FlushPending(q, then), session # 0
      PROVE  UploadGoesOn
  <2>1. CASE flush.pc = "idle" /\ q # <<>>
    <3>1. flush' = [pc |-> "sent", copy |-> Head(q), token |-> session, then |-> then]
      BY <1>3, <2>1 DEF FlushPending
    <3>2. Head(q) \in Copy
      BY <2>1, TailElements
    <3>3. QED
      BY <1>3, <3>1, <3>2 DEF UploadGoesOn
  <2>2. CASE ~(flush.pc = "idle" /\ q # <<>>)
    BY <1>1, <1>3, <2>2 DEF FlushPending
  <2>3. QED
    BY <2>1, <2>2
<1>4. CASE StoreUpload
  BY <1>0, <1>4 DEF StoreUpload, FlushType, UploadGoesOn
<1>5. CASE Uploaded
  <2>1. queue # <<>> /\ queue' = Tail(queue)
    BY <1>5 DEF Uploaded
  <2>2. queue' \in Seq(Copy)
    BY <1>0, <2>1, TailElements
  <2>3. CASE queue' # <<>> /\ session # 0
    <3>1. flush' = [flush EXCEPT !.pc = "sent", !.copy = Head(queue'), !.token = session]
      BY <1>5, <2>3 DEF Uploaded
    <3>2. Head(queue') \in Copy
      BY <2>2, <2>3, TailElements
    <3>3. QED
      BY <1>0, <2>3, <3>1, <3>2 DEF FlushType, UploadGoesOn
  <2>4. CASE ~(queue' # <<>> /\ session # 0)
    BY <1>2, <1>5, <2>4 DEF Uploaded
  <2>5. QED
    BY <2>3, <2>4
<1>6. CASE UploadUnauthorized
  <2>1. CASE session = 0
    BY <1>2, <1>6, <2>1 DEF UploadUnauthorized
  <2>2. CASE session # 0
    <3>1. flush' = [flush EXCEPT !.token = session] /\ flush.pc = "sent" /\ flush.copy \in Copy
      BY <1>6, <2>2 DEF UploadUnauthorized, Sessions
    <3>2. QED
      BY <1>0, <2>2, <3>1 DEF FlushType, UploadGoesOn
  <2>3. QED
    BY <2>1, <2>2
<1>7. CASE LocalCopy
  <2> DEFINE all == Append(queue, [id |-> demands', key |-> AccountOf(session)])
  <2>1. queue' = Kept(all) /\ session # 0 /\ demands' = demands + 1 /\ demands < MaxDemands
    BY <1>7 DEF LocalCopy
  <2>2. [id |-> demands', key |-> AccountOf(session)] \in Copy
    <3>1. demands' \in 1..MaxDemands
      <4>1. MaxDemands \in Nat /\ demands \in 0..MaxDemands
        BY Basics, TypeIs DEF TypeRest
      <4>2. QED
        BY <2>1, <4>1
    <3>2. AccountOf(session) \in Account
      BY <2>1, TypeIs DEF AccountOf, TypeRest
    <3>3. QED
      BY <3>1, <3>2 DEF Copy
  <2>3. all \in Seq(Copy) /\ all # <<>>
    BY <1>0, <2>2, Appended
  <2>4. queue' \in Seq(Copy)
    BY <2>1, <2>3, TailElements DEF Kept
  <2>5. CASE UNCHANGED flush
    BY <1>1, <2>5
  <2>6. CASE FlushPending(queue', FALSE)
    BY <1>3, <2>1, <2>4, <2>6
  <2>7. QED
    BY <1>7, <2>5, <2>6 DEF LocalCopy
<1>8. CASE RefreshNow
  BY <1>0, <1>3, <1>8 DEF RefreshNow
<1>9. CASE Trap \/ UploadLost \/ Kill
  BY <1>2, <1>9 DEF Trap, UploadLost, Kill
<1>10. CASE (\E a \in Account : RemoteClip(a)) \/ ServePage
  BY <1>1, <1>10 DEF RemoteClip, ServePage
<1>11. CASE NextPage \/ LastPage \/ Acknowledged \/ PassUnauthorized \/ PassLost
  BY <1>1, <1>11 DEF NextPage, LastPage, Acknowledged, PassUnauthorized, PassLost
<1>12. CASE PushedClip \/ PushAcknowledged \/ PushLost \/ Connect \/ Reconnect \/ Disconnect
  BY <1>1, <1>12 DEF PushedClip, PushAcknowledged, PushLost, Connect, Reconnect, Disconnect
<1>13. CASE SignedOut \/ SignOut \/ EnterForeground \/ EnterBackground \/ RemotePush
  BY <1>1, <1>13 DEF SignedOut, SignOut, EnterForeground, EnterBackground, RemotePush
<1>14. CASE \E a \in Account : SignIn(a)
  BY <1>1, <1>14 DEF SignIn
<1>15. CASE UNCHANGED vars
  BY <1>1, <1>15 DEF vars
<1> QED
  BY <1>4, <1>5, <1>6, <1>7, <1>8, <1>9, <1>10, <1>11, <1>12, <1>13, <1>14, <1>15
     DEF Next, Server, Tasks, User

LEMMA PassStep ==
  ASSUME TypeOK, Sessions, [Next]_vars, ~SignedOut, ~(\E a \in Account : SignIn(a))
  PROVE  PassGoesOn
<1> USE DEF tasks
<1>0. sync \in PassType /\ NoPass.pc = "idle" /\ UNCHANGED session
  BY Basics, Stays DEF NoPass
<1>00. NoPass \in PassType
  BY Basics
<1>1. CASE UNCHANGED sync
  BY <1>1 DEF PassGoesOn
<1>2. CASE sync' = NoPass
  BY <1>0, <1>2 DEF PassGoesOn
<1>3. ASSUME NEW write, NEW then, Sync(write, then), session # 0
      PROVE  PassGoesOn
  <2>1. CASE UNCHANGED sync
    BY <1>1, <2>1
  <2>2. CASE sync' = [NoPass EXCEPT !.pc = "sent", !.cursor = lastSeq', !.write = write,
                                    !.then = then, !.token = session']
    BY <1>0, <1>3, <2>2 DEF NoPass, PassGoesOn
  <2>3. QED
    BY <1>3, <2>1, <2>2 DEF Sync
<1>4. CASE PassEnds
  <2>1. CASE resync /\ session # 0
    <3>1. sync' = [NoPass EXCEPT !.pc = "sent", !.cursor = lastSeq', !.write = sync.write,
                                 !.then = sync.then, !.token = session]
      BY <1>4, <2>1 DEF PassEnds
    <3>2. QED
      BY <2>1, <3>1 DEF NoPass, PassGoesOn
  <2>2. CASE ~(resync /\ session # 0)
    BY <1>2, <1>4, <2>2 DEF PassEnds
  <2>3. QED
    BY <2>1, <2>2
<1>5. CASE PassFails
  BY <1>2, <1>5 DEF PassFails
<1>6. CASE PushEnds
  <2>1. CASE resync /\ session # 0
    <3>1. sync' = [NoPass EXCEPT !.pc = "sent", !.cursor = lastSeq, !.write = foreground,
                                 !.token = session]
      BY <1>6, <2>1 DEF PushEnds
    <3>2. QED
      BY <2>1, <3>1 DEF NoPass, PassGoesOn
  <2>2. CASE ~(resync /\ session # 0)
    BY <1>2, <1>6, <2>2 DEF PushEnds
  <2>3. QED
    BY <2>1, <2>2
<1>7. CASE ServePage
  BY <1>0, <1>7 DEF ServePage, PassType, PassGoesOn
<1>8. CASE NextPage
  <2>1. CASE session # 0
    <3>1. sync' = [sync EXCEPT !.pc = "sent", !.cursor = Cursor, !.newest = Newest,
                               !.page = {}, !.token = session]
      BY <1>8, <2>1 DEF NextPage
    <3>2. QED
      BY <1>0, <2>1, <3>1 DEF PassType, PassGoesOn
  <2>2. QED
    BY <1>5, <1>8, <2>1 DEF NextPage
<1>9. CASE LastPage
  <2>1. CASE /\ session # 0
             /\ sync' = [sync EXCEPT !.pc = "ack", !.cursor = Cursor, !.newest = Newest,
                                     !.page = {}, !.token = session]
    BY <1>0, <2>1 DEF PassType, PassGoesOn
  <2>2. QED
    BY <1>4, <1>5, <1>9, <2>1 DEF LastPage
<1>10. CASE PassUnauthorized
  <2>1. CASE session # 0
    <3>1. sync' = [sync EXCEPT !.token = session]
      BY <1>10, <2>1 DEF PassUnauthorized
    <3>2. QED
      BY <1>0, <2>1, <3>1 DEF PassType, PassGoesOn
  <2>2. QED
    BY <1>5, <1>6, <1>10, <2>1 DEF PassUnauthorized
<1>11. CASE Acknowledged \/ PassLost
  BY <1>4, <1>5, <1>11 DEF Acknowledged, PassLost
<1>12. CASE PushAcknowledged \/ PushLost
  BY <1>6, <1>12 DEF PushAcknowledged, PushLost
<1>13. CASE PushedClip
  <2>1. session # 0
    BY <1>13, TypeIs DEF PushedClip, TypeRest
  <2>2. CASE sync' = [NoPass EXCEPT !.pc = "pushed", !.newest = Head(wire), !.token = session]
    BY <2>1, <2>2 DEF NoPass, PassGoesOn
  <2>3. QED
    BY <1>1, <1>3, <1>13, <2>1, <2>2 DEF PushedClip, Defer
<1>14. CASE Uploaded
  BY <1>1, <1>3, <1>14 DEF Uploaded
<1>15. CASE Reconnect
  <2>1. session # 0
    BY <1>15 DEF Reconnect, Sessions
  <2>2. QED
    BY <1>3, <1>15, <2>1 DEF Reconnect
<1>16. CASE EnterForeground
  BY <1>1, <1>3, <1>16 DEF EnterForeground
<1>17. CASE EnterBackground
  <2>1. sync' \in {sync, [sync EXCEPT !.then = "cancelled"]}
    BY <1>17 DEF EnterBackground
  <2>2. QED
    BY <1>0, <2>1 DEF PassType, PassGoesOn
<1>18. CASE RemotePush
  BY <1>3, <1>18 DEF RemotePush
<1>19. CASE RefreshNow
  BY <1>1, <1>3, <1>19 DEF RefreshNow
<1>20. CASE Trap \/ Kill
  BY <1>2, <1>20 DEF Trap, Kill
<1>21. CASE (\E a \in Account : RemoteClip(a)) \/ StoreUpload
  BY <1>1, <1>21 DEF RemoteClip, StoreUpload
<1>22. CASE LocalCopy \/ UploadUnauthorized \/ UploadLost \/ Connect \/ Disconnect \/ SignOut
  BY <1>1, <1>22 DEF LocalCopy, UploadUnauthorized, UploadLost, Connect, Disconnect, SignOut
<1>23. CASE UNCHANGED vars
  BY <1>1, <1>23 DEF vars
<1> QED
  BY <1>7, <1>8, <1>9, <1>10, <1>11, <1>12, <1>13, <1>14, <1>15, <1>16, <1>17, <1>18, <1>19, <1>20,
     <1>21, <1>22, <1>23 DEF Next, Server, Tasks, User

(* Only the signed-in have a connection, or sign out.                      *)
LEMMA ConnectedStep ==
  ASSUME TypeOK, Sessions, [Next]_vars, ~SignedOut, ~(\E a \in Account : SignIn(a))
  PROVE  leaving' \/ socket' # "closed" => session' # 0
<1> USE DEF tasks, connection
<1>0. UNCHANGED session /\ (leaving \/ socket # "closed" => session # 0)
  BY Stays DEF Sessions
<1>1. CASE UNCHANGED <<leaving, socket>>
  BY <1>0, <1>1
<1>2. CASE UNCHANGED leaving /\ Connects(sync)
  BY <1>0, <1>2 DEF Connects
<1>3. CASE leaving' = FALSE /\ socket' = "closed"
  BY <1>3
<1>4. CASE NextPage \/ LastPage \/ Acknowledged \/ PassUnauthorized \/ PassLost
  BY <1>1, <1>2, <1>4 DEF NextPage, LastPage, Acknowledged, PassUnauthorized, PassLost, PassEnds,
     PassFails
<1>5. CASE Connect \/ Disconnect \/ Reconnect \/ SignOut \/ EnterForeground \/ EnterBackground
  BY <1>0, <1>5 DEF Connect, Disconnect, Reconnect, SignOut, EnterForeground, EnterBackground
<1>6. CASE Trap \/ Kill
  BY <1>3, <1>6 DEF Trap, Kill
<1>7. CASE Server
  BY <1>1, <1>7 DEF Server, RemoteClip, StoreUpload, ServePage
<1>8. CASE PushedClip \/ PushAcknowledged \/ PushLost \/ RemotePush \/ RefreshNow
  BY <1>1, <1>8 DEF PushedClip, PushAcknowledged, PushLost, RemotePush, RefreshNow
<1>9. CASE Uploaded \/ UploadUnauthorized \/ UploadLost \/ LocalCopy
  BY <1>1, <1>9 DEF Uploaded, UploadUnauthorized, UploadLost, LocalCopy
<1>10. CASE UNCHANGED vars
  BY <1>1, <1>10 DEF vars
<1> QED
  BY <1>4, <1>5, <1>6, <1>7, <1>8, <1>9, <1>10 DEF Next, Tasks, User

LEMMA SessionsStep ==
  ASSUME TypeOK, Sessions, [Next]_vars
  PROVE  Sessions'
<1>0. /\ Len(accounts) \in Nat /\ DOMAIN accounts = 1..Len(accounts) /\ Len(accounts) <= MaxSignIns
      /\ MaxSignIns \in Nat /\ session \in {0} \union DOMAIN accounts
  BY Basics, TypeIs DEF Sessions, TypeRest
<1>1. ASSUME UploadGoesOn, DOMAIN accounts \subseteq DOMAIN accounts'
      PROVE  flush'.pc # "idle" => flush'.token \in DOMAIN accounts' /\ flush'.copy \in Copy
  BY <1>0, <1>1 DEF UploadGoesOn, Sessions
<1>2. CASE SignedOut
  <2>1. UNCHANGED <<accounts, sync>> /\ session' = 0 /\ leaving' = FALSE /\ socket' = "closed"
    BY <1>2 DEF SignedOut
  <2>2. UploadGoesOn
    BY UploadStep
  <2>3. QED
    BY <1>0, <1>1, <2>1, <2>2 DEF Sessions, Live
<1>3. ASSUME NEW a \in Account, SignIn(a) PROVE Sessions'
  <2>1. /\ session = 0 /\ accounts' = Append(accounts, a) /\ session' = Len(accounts')
        /\ Len(accounts) < MaxSignIns /\ crossed' = (sync.pc # "idle") /\ Sync(foreground, "end")
    BY <1>3 DEF SignIn
  <2>2. /\ Len(accounts') = Len(accounts) + 1
        /\ DOMAIN accounts' = DOMAIN accounts \union {Len(accounts) + 1}
    <3>1. accounts \in Seq(Account)
      BY TypeIs DEF TypeRest
    <3>2. QED
      BY <2>1, <3>1, Appended
  <2>3. flush'.pc # "idle" => flush'.token \in DOMAIN accounts' /\ flush'.copy \in Copy
    BY <1>1, <2>2, UploadStep
  <2>4. CASE sync.pc # "idle"
    <3>1. UNCHANGED sync /\ crossed'
      BY <2>1, <2>4 DEF Sync
    <3>2. QED
      BY <1>0, <2>1, <2>2, <2>3, <2>4, <3>1 DEF Sessions, Live
  <2>5. CASE sync.pc = "idle"
    <3>1. sync' = [NoPass EXCEPT !.pc = "sent", !.cursor = lastSeq', !.write = foreground,
                                 !.then = "end", !.token = session']
      BY <2>1, <2>5 DEF Sync
    <3>2. sync'.token = session'
      BY <3>1 DEF NoPass
    <3>3. QED
      BY <1>0, <2>1, <2>2, <2>3, <3>2 DEF Sessions, Live
  <2>6. QED
    BY <2>4, <2>5
<1>4. CASE ~SignedOut /\ ~(\E a \in Account : SignIn(a))
  <2>1. UNCHANGED <<session, accounts, crossed>>
    BY <1>4, Stays
  <2>2. PassGoesOn /\ UploadGoesOn /\ (leaving' \/ socket' # "closed" => session' # 0)
    BY <1>4, PassStep, UploadStep, ConnectedStep
  <2>3. sync'.pc # "idle" => sync'.token \in DOMAIN accounts
    BY <1>0, <2>2 DEF PassGoesOn, Sessions
  <2>4. Live /\ sync'.pc # "idle" => sync'.token = session
    BY <2>2 DEF PassGoesOn, Sessions
  <2>5. QED
    BY <1>0, <1>1, <2>1, <2>2, <2>3, <2>4 DEF Sessions, Live
<1> QED
  BY <1>2, <1>3, <1>4

(* The log grows by one clip at a time: of another device, or of this one. *)
LEMMA LogStep ==
  ASSUME TypeOK, Sessions, [Next]_vars
  PROVE  \/ UNCHANGED log
         \/ \E a \in Account :
              /\ RemoteClip(a)
              /\ [account |-> a, key |-> a, origin |-> "other", id |-> 0] \in Clip
              /\ log' = Append(log, [account |-> a, key |-> a, origin |-> "other", id |-> 0])
         \/ \E c \in Clip :
              StoreUpload /\ c.origin = "me" /\ c.id = flush.copy.id /\ log' = Append(log, c)
                /\ c.account = accounts[flush.token] /\ c.key = flush.copy.key
<1>1. ASSUME NEW a \in Account, RemoteClip(a)
      PROVE  /\ [account |-> a, key |-> a, origin |-> "other", id |-> 0] \in Clip
             /\ log' = Append(log, [account |-> a, key |-> a, origin |-> "other", id |-> 0])
  BY <1>1, Basics DEF RemoteClip, Clip
<1>2. CASE StoreUpload
  <2> DEFINE c == [account |-> accounts[flush.token], key |-> flush.copy.key, origin |-> "me",
                   id |-> flush.copy.id]
  <2>1. flush.token \in DOMAIN accounts /\ flush.copy \in Copy
    BY <1>2 DEF StoreUpload, Sessions
  <2>2. accounts[flush.token] \in Account
    BY <2>1, TypeIs DEF TypeRest
  <2>3. flush.copy.key \in Account /\ flush.copy.id \in 0..MaxDemands
    <3>1. MaxDemands \in Nat
      BY Basics
    <3>2. QED
      BY <2>1, <3>1 DEF Copy
  <2>4. c \in Clip /\ c.origin = "me" /\ c.id = flush.copy.id /\ c.account = accounts[flush.token]
        /\ c.key = flush.copy.key
    BY <2>2, <2>3 DEF Clip
  <2>5. log' = log \/ log' = Append(log, c)
    BY <1>2 DEF StoreUpload
  <2>6. QED
    BY <1>2, <2>4, <2>5
<1>3. CASE ServePage
  BY <1>3 DEF ServePage
<1>4. CASE Trap \/ Uploaded \/ UploadUnauthorized \/ UploadLost \/ LocalCopy \/ RefreshNow
  BY <1>4 DEF Trap, Uploaded, UploadUnauthorized, UploadLost, LocalCopy, RefreshNow
<1>5. CASE NextPage \/ LastPage \/ Acknowledged \/ PassUnauthorized \/ PassLost
  BY <1>5 DEF NextPage, LastPage, Acknowledged, PassUnauthorized, PassLost
<1>6. CASE PushedClip \/ PushAcknowledged \/ PushLost \/ Connect \/ Reconnect \/ Disconnect
  BY <1>6 DEF PushedClip, PushAcknowledged, PushLost, Connect, Reconnect, Disconnect
<1>7. CASE SignOut \/ EnterForeground \/ EnterBackground \/ Kill \/ RemotePush
  BY <1>7 DEF SignOut, EnterForeground, EnterBackground, Kill, RemotePush
<1>8. CASE SignedOut \/ \E a \in Account : SignIn(a)
  BY <1>8 DEF SignedOut, SignIn
<1>9. CASE UNCHANGED vars
  BY <1>9 DEF vars
<1> QED
  BY <1>1, <1>2, <1>3, <1>4, <1>5, <1>6, <1>7, <1>8, <1>9 DEF Next, Server, Tasks, User

(* So clips keep their numbers.                                            *)
LEMMA LogKept ==
  ASSUME TypeOK, Sessions, [Next]_vars
  PROVE  \A i \in DOMAIN log : i \in DOMAIN log' /\ log'[i] = log[i]
<1>1. CASE UNCHANGED log
  BY <1>1
<1>2. ASSUME NEW c \in Clip, log' = Append(log, c)
      PROVE  \A i \in DOMAIN log : i \in DOMAIN log' /\ log'[i] = log[i]
  BY <1>2, Grown
<1> QED
  BY <1>1, <1>2, LogStep

LEMMA RemotesStep ==
  ASSUME TypeOK, Sessions, Remotes, [Next]_vars
  PROVE  Remotes'
<1> USE DEF connection
<1>1. \A i \in DOMAIN log' : log'[i].origin = "other" => log'[i].key = log'[i].account
  <2>1. CASE UNCHANGED log
    BY <2>1 DEF Remotes
  <2>2. ASSUME NEW c \in Clip, log' = Append(log, c), c.origin = "other" => c.key = c.account
        PROVE  \A i \in DOMAIN log' : log'[i].origin = "other" => log'[i].key = log'[i].account
    <3>1. /\ DOMAIN log = 1..Len(log) /\ DOMAIN log' = 1..(Len(log) + 1) /\ Len(log) \in Nat
          /\ \A i \in DOMAIN log : log'[i] = log[i]
          /\ log'[Len(log) + 1] = c
      BY <2>2, Grown
    <3>2. \A i \in DOMAIN log' : i \in DOMAIN log \/ i = Len(log) + 1
      BY <3>1
    <3>3. QED
      BY <2>2, <3>1, <3>2 DEF Remotes
  <2>3. QED
    BY <2>1, <2>2, LogStep
<1>2. ASSUME UNCHANGED <<session, accounts>>
      PROVE  \A i \in Remote(Acc) : i \in Remote(Acc)'
  BY <1>2, LogKept DEF Remote, Acc, AccountOf
<1>3. CASE wire' = <<>>
  BY <1>1, <1>3 DEF Remotes
<1>4. CASE UNCHANGED <<session, accounts, wire>>
  BY <1>1, <1>2, <1>4 DEF Remotes
<1>5. CASE PushedClip
  <2>1. UNCHANGED <<session, accounts>> /\ wire' = Tail(wire) /\ wire # <<>>
    BY <1>5 DEF PushedClip
  <2>2. \A k \in DOMAIN wire' : k + 1 \in DOMAIN wire /\ wire'[k] = wire[k + 1]
    <3>1. wire \in Seq(DOMAIN log)
      BY TypeIs DEF TypeRest
    <3>2. QED
      BY <2>1, <3>1, TailElements
  <2>3. QED
    BY <1>1, <1>2, <2>1, <2>2 DEF Remotes
<1>6. ASSUME NEW a \in Account, RemoteClip(a) PROVE Remotes'
  <2>1. CASE socket = "open" /\ AccountOf(session) = a
    <3> DEFINE c == [account |-> a, key |-> a, origin |-> "other", id |-> 0]
    <3>1. UNCHANGED <<session, accounts>> /\ wire' = Append(wire, Len(log')) /\ log' = Append(log, c)
      BY <1>6, <2>1 DEF RemoteClip, persisted
    <3>2. c \in Clip
      BY Basics DEF Clip
    <3>3. /\ Len(log') = Len(log) + 1 /\ Len(log) + 1 \in DOMAIN log' /\ log'[Len(log) + 1] = c
      BY <3>1, <3>2, Grown
    <3>4. Len(log') \in Remote(Acc)'
      BY <2>1, <3>1, <3>3 DEF Remote, Acc, AccountOf
    <3>5. wire \in Seq(DOMAIN log)
      BY TypeIs DEF TypeRest
    <3>6. \A k \in DOMAIN wire' : wire'[k] = Len(log') \/ (k \in DOMAIN wire /\ wire'[k] = wire[k])
      BY <3>1, <3>5
    <3>7. QED
      BY <1>1, <1>2, <3>1, <3>4, <3>6 DEF Remotes
  <2>2. CASE ~(socket = "open" /\ AccountOf(session) = a)
    <3>1. UNCHANGED <<session, accounts, wire>>
      BY <1>6, <2>2 DEF RemoteClip, persisted
    <3>2. QED
      BY <1>4, <3>1
  <2>3. QED
    BY <2>1, <2>2
<1>7. ASSUME NEW a \in Account, SignIn(a) PROVE Remotes'
  <2>1. UNCHANGED wire /\ session = 0
    BY <1>7 DEF SignIn
  <2>2. wire' = <<>>
    BY <2>1, TypeIs DEF TypeRest
  <2>3. QED
    BY <1>3, <2>2
<1>8. CASE SignedOut \/ Trap \/ Kill \/ Disconnect
  BY <1>3, <1>8 DEF SignedOut, Trap, Kill, Disconnect
<1>9. CASE EnterBackground
  <2>1. wire' = <<>> \/ UNCHANGED <<session, accounts, wire>>
    BY <1>9 DEF EnterBackground, persisted
  <2>2. QED
    BY <1>3, <1>4, <2>1
<1>10. CASE StoreUpload \/ ServePage \/ Uploaded \/ UploadUnauthorized \/ UploadLost \/ LocalCopy
  BY <1>4, <1>10 DEF StoreUpload, ServePage, Uploaded, UploadUnauthorized, UploadLost, LocalCopy,
     persisted
<1>11. CASE NextPage \/ LastPage \/ Acknowledged \/ PassUnauthorized \/ PassLost
  BY <1>4, <1>11 DEF NextPage, LastPage, Acknowledged, PassUnauthorized, PassLost, persisted
<1>12. CASE PushAcknowledged \/ PushLost \/ Connect \/ Reconnect \/ RefreshNow
  BY <1>4, <1>12 DEF PushAcknowledged, PushLost, Connect, Reconnect, RefreshNow, persisted
<1>13. CASE SignOut \/ EnterForeground \/ RemotePush
  BY <1>4, <1>13 DEF SignOut, EnterForeground, RemotePush, persisted
<1>14. CASE UNCHANGED vars
  BY <1>4, <1>14 DEF vars, persisted
<1> QED
  BY <1>5, <1>6, <1>7, <1>8, <1>9, <1>10, <1>11, <1>12, <1>13, <1>14 DEF Next, Server, Tasks, User

(* What LocalCopy makes of the queue.                                      *)
LEMMA CopyAdded ==
  ASSUME TypeOK, Sessions, LocalCopy
  PROVE  /\ session # 0 /\ UNCHANGED <<session, accounts, log>>
         /\ queue' \in Seq(Copy) /\ queue' # <<>>
         /\ \A k \in DOMAIN queue' : queue'[k].key = Acc \/ \E j \in DOMAIN queue : queue'[k] = queue[j]
         /\ \/ /\ displaced' = TRUE /\ UNCHANGED flush
            \/ FlushPending(queue', FALSE) /\ (flush.pc # "idle" /\ queue # <<>> => Head(queue') = Head(queue))
         /\ Len(queue') >= Len(queue)
<1> DEFINE u == [id |-> demands', key |-> AccountOf(session)]
           all == Append(queue, u)
<1>1. session # 0 /\ UNCHANGED <<session, accounts, log>> /\ queue' = Kept(all)
      /\ demands' = demands + 1 /\ demands < MaxDemands
  BY DEF LocalCopy
<1>2. u \in Copy
  <2>1. MaxDemands \in Nat /\ demands \in 0..MaxDemands
    BY Basics, TypeIs DEF TypeRest
  <2>2. demands' \in 1..MaxDemands
    BY <1>1, <2>1
  <2>3. AccountOf(session) \in Account
    BY <1>1, TypeIs DEF AccountOf, TypeRest
  <2>4. QED
    BY <2>2, <2>3 DEF Copy
<1>3. queue \in Seq(Copy) /\ Len(queue) \in Nat /\ Len(queue) <= PendingCap /\ PendingCap \in Nat \ {0}
  BY PhoneAssumption, TypeIs DEF TypeRest
<1>4. /\ all \in Seq(Copy) /\ all # <<>> /\ Len(all) = Len(queue) + 1
      /\ \A k \in DOMAIN all : all[k] = u \/ (k \in DOMAIN queue /\ all[k] = queue[k])
      /\ queue # <<>> => Head(all) = Head(queue)
  <2>1. /\ all \in Seq(Copy) /\ Len(all) = Len(queue) + 1
        /\ DOMAIN all = DOMAIN queue \union {Len(queue) + 1}
        /\ \A i \in DOMAIN queue : all[i] = queue[i]
        /\ all[Len(queue) + 1] = u
    BY <1>2, <1>3, Appended
  <2>2. all # <<>>
    BY <1>3, <2>1
  <2>3. queue # <<>> => Head(all) = Head(queue)
    <3>1. CASE queue # <<>>
      <4>1. Head(queue) = queue[1] /\ 1 \in DOMAIN queue
        BY <1>3, <3>1, TailElements
      <4>2. Head(all) = all[1]
        BY <2>1, <2>2, TailElements
      <4>3. QED
        BY <2>1, <4>1, <4>2
    <3>2. QED
      BY <3>1
  <2>4. QED
    BY <2>1, <2>2, <2>3
<1> HIDE DEF all
<1>5. queue' = all \/ (queue' = Tail(all) /\ Len(all) > PendingCap)
  BY <1>1, <1>3, <1>4 DEF Kept
<1>6. /\ Tail(all) \in Seq(Copy) /\ Len(Tail(all)) = Len(all) - 1
      /\ \A i \in DOMAIN Tail(all) : i + 1 \in DOMAIN all /\ Tail(all)[i] = all[i + 1]
  BY <1>4, TailElements
<1>7. /\ queue' \in Seq(Copy) /\ Len(queue') \in Nat /\ Len(queue') # 0 /\ Len(queue') >= Len(queue)
      /\ \A k \in DOMAIN queue' : \E j \in DOMAIN all : queue'[k] = all[j]
  <2>1. CASE queue' = all
    BY <1>3, <1>4, <2>1
  <2>2. CASE queue' = Tail(all) /\ Len(all) > PendingCap
    BY <1>3, <1>4, <1>6, <2>2
  <2>3. QED
    BY <1>5, <2>1, <2>2
<1>8. queue' # <<>>
  BY <1>7
<1>9. \A k \in DOMAIN queue' : queue'[k].key = Acc \/ \E j \in DOMAIN queue : queue'[k] = queue[j]
  <2>1. u.key = Acc
    BY DEF Acc
  <2>2. QED
    BY <1>4, <1>7, <2>1
<1>10. \/ displaced' = TRUE /\ UNCHANGED flush
       \/ FlushPending(queue', FALSE) /\ (flush.pc # "idle" => queue' = all)
  BY <1>1 DEF LocalCopy, all
<1>11. QED
  BY <1>1, <1>4, <1>7, <1>8, <1>9, <1>10

LEMMA QueueStep ==
  ASSUME TypeOK, Sessions, QueueOK, [Next]_vars
  PROVE  QueueOK'
<1>1. CASE queue' = <<>>
  BY <1>1 DEF QueueOK
<1>2. CASE UNCHANGED <<session, accounts, queue>>
  BY <1>2 DEF QueueOK, Acc, AccountOf
<1>3. CASE LocalCopy
  <2>1. /\ session' # 0 /\ Acc' = Acc
        /\ \A k \in DOMAIN queue' : queue'[k].key = Acc \/ \E j \in DOMAIN queue : queue'[k] = queue[j]
    BY <1>3, CopyAdded DEF Acc, AccountOf
  <2>2. QED
    BY <2>1 DEF QueueOK
<1>4. CASE Uploaded
  <2>1. UNCHANGED <<session, accounts>> /\ queue # <<>> /\ queue' = Tail(queue)
    BY <1>4 DEF Uploaded
  <2>2. queue \in Seq(Copy)
    BY TypeIs DEF TypeRest
  <2>3. \A k \in DOMAIN queue' : k + 1 \in DOMAIN queue /\ queue'[k] = queue[k + 1]
    BY <2>1, <2>2, TailElements
  <2>4. QED
    BY <2>1, <2>3 DEF QueueOK, Acc, AccountOf
<1>5. CASE SignedOut \/ \E a \in Account : SignIn(a)
  BY <1>1, <1>5 DEF SignedOut, SignIn, ClearState
<1> USE DEF persisted
<1>6. CASE Server
  BY <1>2, <1>6 DEF Server, RemoteClip, StoreUpload, ServePage
<1>7. CASE Trap \/ UploadUnauthorized \/ UploadLost \/ RefreshNow
  BY <1>2, <1>7, Stays DEF Trap, UploadUnauthorized, UploadLost, RefreshNow
<1>8. CASE NextPage \/ LastPage \/ Acknowledged \/ PassUnauthorized \/ PassLost
  BY <1>2, <1>8 DEF NextPage, LastPage, Acknowledged, PassUnauthorized, PassLost
<1>9. CASE PushedClip \/ PushAcknowledged \/ PushLost \/ Connect \/ Reconnect \/ Disconnect
  BY <1>2, <1>9 DEF PushedClip, PushAcknowledged, PushLost, Connect, Reconnect, Disconnect
<1>10. CASE SignOut \/ EnterForeground \/ EnterBackground \/ Kill \/ RemotePush
  BY <1>2, <1>10 DEF SignOut, EnterForeground, EnterBackground, Kill, RemotePush
<1>11. CASE UNCHANGED vars
  BY <1>2, <1>11 DEF vars
<1> QED
  BY <1>3, <1>4, <1>5, <1>6, <1>7, <1>8, <1>9, <1>10, <1>11 DEF Next, Tasks, User

LEMMA HeadStep ==
  ASSUME TypeOK, Sessions, QueueOK, HeadOK, [Next]_vars
  PROVE  HeadOK'
<1> USE DEF persisted, tasks, history
<1>0. flush \in FlushType /\ queue \in Seq(Copy) /\ displaced \in BOOLEAN
  BY Basics, TypeIs DEF TypeRest
<1>1. CASE UNCHANGED <<session, queue, flush, displaced>>
  BY <1>1 DEF HeadOK
<1>2. CASE flush' = NoFlush
  BY <1>2 DEF HeadOK, NoFlush
<1>3. ASSUME NEW then, FlushPending(queue', then), queue' # <<>>, session # 0, UNCHANGED session,
             flush.pc # "idle" /\ queue # <<>> => Head(queue') = Head(queue)
      PROVE  HeadOK'
  <2>1. CASE flush.pc = "idle"
    <3>1. flush' = [pc |-> "sent", copy |-> Head(queue'), token |-> session, then |-> then]
      BY <1>3, <2>1 DEF FlushPending
    <3>2. QED
      BY <1>3, <3>1 DEF HeadOK
  <2>2. CASE flush.pc # "idle"
    <3>1. UNCHANGED <<flush, displaced>>
      BY <1>3, <2>2 DEF FlushPending
    <3>2. QED
      BY <1>3, <2>2, <3>1 DEF HeadOK
  <2>3. QED
    BY <2>1, <2>2
<1>4. CASE LocalCopy
  <2>1. CASE displaced'
    BY <2>1 DEF HeadOK
  <2>2. CASE ~displaced'
    BY <1>3, <1>4, <2>2, CopyAdded
  <2>3. QED
    BY <2>1, <2>2
<1>5. CASE RefreshNow
  <2>1. UNCHANGED <<queue, session>> /\ session # 0 /\ FlushPending(queue, TRUE)
    BY <1>5 DEF RefreshNow
  <2>2. CASE queue = <<>>
    <3>1. UNCHANGED <<flush, displaced>>
      BY <2>1, <2>2 DEF FlushPending
    <3>2. QED
      BY <1>1, <2>1, <3>1
  <2>3. CASE queue # <<>>
    <3>1. FlushPending(queue', TRUE)
      BY <2>1
    <3>2. QED
      BY <1>3, <2>1, <2>3, <3>1
  <2>4. QED
    BY <2>2, <2>3
<1>6. CASE Uploaded
  <2>1. UNCHANGED session
    BY <1>6 DEF Uploaded
  <2>2. CASE queue' # <<>> /\ session # 0
    <3>1. flush' = [flush EXCEPT !.pc = "sent", !.copy = Head(queue'), !.token = session]
      BY <1>6, <2>2 DEF Uploaded
    <3>2. flush'.copy = Head(queue') /\ flush'.token = session
      BY <1>0, <3>1 DEF FlushType
    <3>3. QED
      BY <2>1, <2>2, <3>2 DEF HeadOK
  <2>3. CASE ~(queue' # <<>> /\ session # 0)
    BY <1>2, <1>6, <2>3 DEF Uploaded
  <2>4. QED
    BY <2>2, <2>3
<1>7. CASE StoreUpload \/ UploadUnauthorized
  <2>1. UNCHANGED <<session, queue, displaced>>
    BY <1>7 DEF StoreUpload, UploadUnauthorized
  <2>2. \/ flush' = NoFlush
        \/ flush.pc # "idle" /\ flush' = [flush EXCEPT !.pc = "stored"]
        \/ flush.pc # "idle" /\ flush' = [flush EXCEPT !.token = session]
    BY <1>7 DEF StoreUpload, UploadUnauthorized
  <2>3. \/ flush' = NoFlush
        \/ flush.pc # "idle" /\ flush'.copy = flush.copy /\ flush'.token \in {flush.token, session}
    BY <1>0, <2>2 DEF FlushType
  <2>4. QED
    BY <1>2, <2>1, <2>3 DEF HeadOK
<1>8. CASE SignedOut
  BY <1>8 DEF SignedOut, HeadOK
<1>9. ASSUME NEW a \in Account, SignIn(a) PROVE HeadOK'
  BY <1>9 DEF SignIn, HeadOK
<1>10. CASE Trap \/ UploadLost \/ Kill
  BY <1>2, <1>10 DEF Trap, UploadLost, Kill
<1>11. CASE (\E a \in Account : RemoteClip(a)) \/ ServePage
  BY <1>1, <1>11 DEF RemoteClip, ServePage
<1>12. CASE NextPage \/ LastPage \/ Acknowledged \/ PassUnauthorized \/ PassLost
  BY <1>1, <1>12 DEF NextPage, LastPage, Acknowledged, PassUnauthorized, PassLost
<1>13. CASE PushedClip \/ PushAcknowledged \/ PushLost \/ Connect \/ Reconnect \/ Disconnect
  BY <1>1, <1>13 DEF PushedClip, PushAcknowledged, PushLost, Connect, Reconnect, Disconnect
<1>14. CASE SignOut \/ EnterForeground \/ EnterBackground \/ RemotePush
  BY <1>1, <1>14 DEF SignOut, EnterForeground, EnterBackground, RemotePush
<1>15. CASE UNCHANGED vars
  BY <1>1, <1>15 DEF vars
<1> QED
  BY <1>4, <1>5, <1>6, <1>7, <1>8, <1>9, <1>10, <1>11, <1>12, <1>13, <1>14, <1>15
     DEF Next, Server, Tasks, User

LEMMA StoredStep ==
  ASSUME TypeOK, Sessions, StoredOK, [Next]_vars
  PROVE  StoredOK'
<1> USE DEF persisted, tasks
<1>0. flush \in FlushType
  BY Basics
<1>1. CASE flush'.pc # "stored"
  BY <1>1 DEF StoredOK
<1>2. CASE UNCHANGED flush
  BY <1>2, LogKept DEF StoredOK
<1>3. CASE StoreUpload
  <2> DEFINE c == [account |-> accounts[flush.token], key |-> flush.copy.key, origin |-> "me",
                   id |-> flush.copy.id]
  <2>1. flush'.copy = flush.copy /\ c.origin = "me" /\ c.id = flush.copy.id
    BY <1>0, <1>3 DEF StoreUpload, FlushType
  <2>2. CASE log' = log /\ c \in Range(log)
    <3>1. PICK i \in DOMAIN log : log[i] = c
      BY <2>2 DEF Range
    <3>2. QED
      BY <2>1, <2>2, <3>1 DEF StoredOK
  <2>3. CASE log' = Append(log, c)
    <3>1. flush.copy \in Copy /\ flush.token \in DOMAIN accounts
      BY <1>3 DEF StoreUpload, Sessions
    <3>2. accounts[flush.token] \in Account
      BY <3>1, TypeIs DEF TypeRest
    <3>3. MaxDemands \in Nat
      BY Basics
    <3>4. c \in Clip
      BY <3>1, <3>2, <3>3 DEF Copy, Clip
    <3>5. Len(log) + 1 \in DOMAIN log' /\ log'[Len(log) + 1] = c
      BY <2>3, <3>4, Grown
    <3>6. QED
      BY <2>1, <3>5 DEF StoredOK
  <2>4. QED
    BY <1>3, <2>2, <2>3 DEF StoreUpload
<1>4. CASE LocalCopy \/ RefreshNow
  <2>1. UNCHANGED flush \/ flush'.pc = "sent"
    <3>1. CASE UNCHANGED flush \/ FlushPending(queue', FALSE) \/ FlushPending(queue, TRUE)
      BY <3>1 DEF FlushPending
    <3>2. QED
      BY <1>4, <3>1 DEF LocalCopy, RefreshNow
  <2>2. QED
    BY <1>1, <1>2, <2>1
<1>5. CASE Uploaded \/ UploadUnauthorized
  <2>1. \/ flush' = NoFlush
        \/ flush' = [flush EXCEPT !.pc = "sent", !.copy = Head(queue'), !.token = session]
        \/ flush.pc = "sent" /\ flush' = [flush EXCEPT !.token = session]
    BY <1>5 DEF Uploaded, UploadUnauthorized
  <2>2. CASE flush' = NoFlush
    BY <1>1, <2>2 DEF NoFlush
  <2>3. CASE flush' = [flush EXCEPT !.pc = "sent", !.copy = Head(queue'), !.token = session]
    BY <1>0, <1>1, <2>3 DEF FlushType
  <2>4. CASE flush.pc = "sent" /\ flush' = [flush EXCEPT !.token = session]
    BY <1>0, <1>1, <2>4 DEF FlushType
  <2>5. QED
    BY <2>1, <2>2, <2>3, <2>4
<1>6. CASE Trap \/ UploadLost \/ Kill
  BY <1>1, <1>6 DEF Trap, UploadLost, Kill, NoFlush
<1>7. CASE (\E a \in Account : RemoteClip(a)) \/ ServePage
  BY <1>2, <1>7 DEF RemoteClip, ServePage
<1>8. CASE NextPage \/ LastPage \/ Acknowledged \/ PassUnauthorized \/ PassLost
  BY <1>2, <1>8 DEF NextPage, LastPage, Acknowledged, PassUnauthorized, PassLost
<1>9. CASE PushedClip \/ PushAcknowledged \/ PushLost \/ Connect \/ Reconnect \/ Disconnect
  BY <1>2, <1>9 DEF PushedClip, PushAcknowledged, PushLost, Connect, Reconnect, Disconnect
<1>10. CASE SignOut \/ EnterForeground \/ EnterBackground \/ RemotePush \/ SignedOut
  BY <1>2, <1>10 DEF SignOut, EnterForeground, EnterBackground, RemotePush, SignedOut
<1>11. CASE \E a \in Account : SignIn(a)
  BY <1>2, <1>11 DEF SignIn
<1>12. CASE UNCHANGED vars
  BY <1>2, <1>12 DEF vars
<1> QED
  BY <1>3, <1>4, <1>5, <1>6, <1>7, <1>8, <1>9, <1>10, <1>11, <1>12 DEF Next, Server, Tasks, User

(* A page leaves a clip out only if it is full.                            *)
LEMMA PageFull ==
  ASSUME TypeOK, NEW a, NEW cursor \in Nat, NEW i \in DOMAIN log, i > cursor, log[i].account = a,
         i \notin PageAfter(a, cursor)
  PROVE  Cardinality(PageAfter(a, cursor)) = PageLimit
<1> DEFINE above == {k \in DOMAIN log : k > cursor /\ log[k].account = a}
           upTo(m) == {j \in above : j <= m}
           page == {k \in above : Cardinality(upTo(k)) <= PageLimit}
<1>0. Len(log) \in Nat /\ DOMAIN log = 1..Len(log) /\ PageLimit \in Nat \ {0}
  BY PhoneAssumption, TypeIs DEF TypeRest
<1>1. PageAfter(a, cursor) = page
  BY DEF PageAfter
<1>2. above \subseteq 1..Len(log) /\ above \subseteq Nat /\ i \in above
  BY <1>0
<1>u. \A m, j : j \in upTo(m) <=> j \in above /\ j <= m
  OBVIOUS
<1>p. \A k : k \in page <=> k \in above /\ Cardinality(upTo(k)) <= PageLimit
  OBVIOUS
<1> HIDE DEF above, upTo, page
<1>3. \A m : IsFiniteSet(upTo(m)) /\ Cardinality(upTo(m)) \in Nat
  <2> TAKE m
  <2>1. IsFiniteSet(1..Len(log))
    <3>1. 1 \in Int /\ Len(log) \in Int
      BY <1>0
    <3>2. QED
      BY <3>1, FS_Interval
  <2>2. upTo(m) \subseteq 1..Len(log)
    BY <1>2, <1>u
  <2>3. QED
    BY <2>1, <2>2, FS_Subset, FS_CardinalityType
<1>4. ASSUME NEW m \in Nat, NEW n \in Nat, m <= n
      PROVE  Cardinality(upTo(m)) <= Cardinality(upTo(n))
  <2>1. upTo(m) \subseteq upTo(n)
    <3>1. \A j \in Nat : j <= m => j <= n
      BY <1>4
    <3>2. QED
      BY <1>2, <1>u, <3>1
  <2>2. QED
    BY <1>3, <2>1, FS_Subset
<1> DEFINE full == {m \in Nat : Cardinality(upTo(m)) >= PageLimit}
<1>5. i \in full
  <2>1. ~(Cardinality(upTo(i)) <= PageLimit)
    BY <1>1, <1>2, <1>p
  <2>2. QED
    BY <1>0, <1>2, <1>3, <2>1
<1>6. PICK m \in full : \A n \in full : m <= n
  BY <1>5, Least
<1>7. m \in Nat /\ Cardinality(upTo(m)) >= PageLimit
  BY <1>6
<1>8. m # 0
  <2>1. upTo(0) = {}
    <3>1. \A j \in above : ~(j <= 0)
      BY <1>2
    <3>2. QED
      BY <1>u, <3>1
  <2>2. Cardinality(upTo(0)) = 0
    BY <2>1, FS_EmptySet
  <2>3. QED
    BY <1>0, <1>7, <2>2
<1>9. m - 1 \in Nat /\ m - 1 \notin full
  BY <1>6, <1>7, <1>8
<1>10. Cardinality(upTo(m - 1)) < PageLimit
  BY <1>0, <1>3, <1>9
<1>11. Cardinality(upTo(m)) = PageLimit
  <2>1. upTo(m) \subseteq upTo(m - 1) \union {m}
    <3>1. \A j \in Nat : j <= m => j <= m - 1 \/ j = m
      BY <1>7, <1>9
    <3>2. QED
      BY <1>2, <1>u, <3>1
  <2>2. IsFiniteSet(upTo(m - 1) \union {m})
        /\ Cardinality(upTo(m - 1) \union {m}) <= Cardinality(upTo(m - 1)) + 1
    <3>1. IsFiniteSet(upTo(m - 1)) /\ Cardinality(upTo(m - 1)) \in Nat
      BY <1>3
    <3> DEFINE S == upTo(m - 1)
    <3> HIDE DEF S
    <3>2. IsFiniteSet(S) /\ Cardinality(S) \in Nat
      BY <3>1 DEF S
    <3>3. IsFiniteSet(S \union {m})
          /\ Cardinality(S \union {m}) = IF m \in S THEN Cardinality(S) ELSE Cardinality(S) + 1
      BY <3>2, FS_AddElement
    <3>4. Cardinality(S \union {m}) <= Cardinality(S) + 1
      BY <3>2, <3>3
    <3>5. QED
      BY <3>3, <3>4 DEF S
  <2>3. Cardinality(upTo(m)) <= Cardinality(upTo(m - 1) \union {m})
    BY <2>1, <2>2, FS_Subset
  <2>4. Cardinality(upTo(m - 1) \union {m}) \in Nat
    BY <2>2, FS_CardinalityType
  <2>5. QED
    BY <1>0, <1>3, <1>7, <1>10, <2>2, <2>3, <2>4
<1>12. \A j \in above : Cardinality(upTo(j)) <= PageLimit <=> j <= m
  <2> TAKE j \in above
  <2>1. j \in Nat
    BY <1>2
  <2>2. CASE j <= m
    BY <1>4, <1>7, <1>11, <2>1, <2>2
  <2>3. CASE ~(j <= m)
    <3>1. upTo(m) \union {j} \subseteq upTo(j) /\ j \notin upTo(m)
      <4>1. \A k \in Nat : k <= m => k <= j
        BY <1>7, <2>1, <2>3
      <4>2. QED
        <5>1. j \in upTo(j) /\ j \notin upTo(m)
          BY <1>u, <2>1, <2>3
        <5>2. upTo(m) \subseteq upTo(j)
          BY <1>2, <1>u, <4>1
        <5>3. QED
          BY <5>1, <5>2
    <3>2. Cardinality(upTo(m) \union {j}) = PageLimit + 1
      BY <1>3, <1>11, <3>1, FS_AddElement
    <3>3. Cardinality(upTo(m) \union {j}) <= Cardinality(upTo(j))
      BY <1>3, <3>1, FS_Subset
    <3>4. ~(Cardinality(upTo(j)) <= PageLimit)
      BY <1>0, <1>3, <3>2, <3>3
    <3>5. QED
      BY <2>3, <3>4
  <2>4. QED
    BY <2>2, <2>3
<1>13. page = upTo(m)
  BY <1>12, <1>p, <1>u
<1> QED
  BY <1>1, <1>11, <1>13

(* What is on a page, and that it has no gap.                              *)
LEMMA PageClosed ==
  ASSUME TypeOK, NEW a, NEW cursor \in Nat
  PROVE  /\ \A i \in PageAfter(a, cursor) : i \in DOMAIN log /\ cursor < i /\ log[i].account = a
         /\ \A i \in DOMAIN log, j \in PageAfter(a, cursor) :
              log[i].account = a /\ cursor < i /\ i <= j => i \in PageAfter(a, cursor)
<1> DEFINE above == {k \in DOMAIN log : k > cursor /\ log[k].account = a}
           upTo(m) == {j \in above : j <= m}
<1>0. Len(log) \in Nat /\ DOMAIN log = 1..Len(log) /\ PageLimit \in Nat
  BY PhoneAssumption, TypeIs DEF TypeRest
<1>1. PageAfter(a, cursor) = {k \in above : Cardinality(upTo(k)) <= PageLimit}
  BY DEF PageAfter
<1>a. \A k : k \in above <=> k \in DOMAIN log /\ cursor < k /\ log[k].account = a
  BY <1>0
<1>u. \A m, j : j \in upTo(m) <=> j \in above /\ j <= m
  OBVIOUS
<1>p. \A k : k \in PageAfter(a, cursor) <=> k \in above /\ Cardinality(upTo(k)) <= PageLimit
  BY <1>1
<1> HIDE DEF above, upTo
<1>2. \A m : IsFiniteSet(upTo(m)) /\ Cardinality(upTo(m)) \in Nat
  <2> TAKE m
  <2>1. IsFiniteSet(1..Len(log))
    <3>1. 1 \in Int /\ Len(log) \in Int
      BY <1>0
    <3>2. QED
      BY <3>1, FS_Interval
  <2>2. upTo(m) \subseteq 1..Len(log)
    BY <1>0, <1>a, <1>u
  <2>3. QED
    BY <2>1, <2>2, FS_Subset, FS_CardinalityType
<1>3. ASSUME NEW i \in DOMAIN log, NEW j \in PageAfter(a, cursor), log[i].account = a, cursor < i,
             i <= j
      PROVE  i \in PageAfter(a, cursor)
  <2>1. i \in above /\ i \in Nat /\ j \in Nat /\ Cardinality(upTo(j)) <= PageLimit
    BY <1>0, <1>3, <1>a, <1>p
  <2>2. upTo(i) \subseteq upTo(j)
    BY <1>0, <1>3, <1>a, <1>u, <2>1
  <2>3. Cardinality(upTo(i)) <= Cardinality(upTo(j))
    BY <1>2, <2>2, FS_Subset
  <2>4. Cardinality(upTo(i)) <= PageLimit
    BY <1>0, <1>2, <2>1, <2>3
  <2>5. QED
    BY <1>p, <2>1, <2>4
<1>4. \A i \in PageAfter(a, cursor) : i \in DOMAIN log /\ cursor < i /\ log[i].account = a
  BY <1>a, <1>p
<1>5. QED
  BY <1>3, <1>4

(* The pass begins anew at the saved cursor, or there is none.             *)
Fresh ==
  \/ sync'.pc \in {"idle", "pushed"}
  \/ sync'.pc = "sent" /\ sync'.cursor = lastSeq' /\ sync'.newest = 0

(* The pass is where it was.                                               *)
Same ==
  /\ sync'.pc = sync.pc /\ sync'.cursor = sync.cursor
  /\ sync'.newest = sync.newest /\ sync'.page = sync.page

\* A pass is asked for.
Asked == sync'.pc # "idle" /\ (sync'.pc = "sent" \/ resync')

LEMMA SyncDoes ==
  ASSUME NEW write, NEW then, Sync(write, then)
  PROVE  /\ Asked
         /\ (sync.pc # "idle" /\ UNCHANGED sync) \/ (sync'.pc = "sent" /\ Fresh)
<1>1. CASE sync.pc # "idle"
  BY <1>1 DEF Sync, Asked
<1>2. CASE sync.pc = "idle"
  <2>1. sync' = [NoPass EXCEPT !.pc = "sent", !.cursor = lastSeq', !.write = write,
                               !.then = then, !.token = session']
    BY <1>2 DEF Sync
  <2>2. sync'.pc = "sent" /\ sync'.cursor = lastSeq' /\ sync'.newest = 0
    BY <2>1 DEF NoPass
  <2>3. QED
    BY <2>2 DEF Asked, Fresh
<1> QED
  BY <1>1, <1>2

LEMMA PassEndsDoes ==
  ASSUME PassEnds
  PROVE  /\ Fresh /\ sync'.pc \in {"idle", "sent"}
         /\ sync'.pc = "idle" => ~(resync /\ session # 0)
<1>1. CASE resync /\ session # 0
  <2>1. sync' = [NoPass EXCEPT !.pc = "sent", !.cursor = lastSeq', !.write = sync.write,
                               !.then = sync.then, !.token = session]
    BY <1>1 DEF PassEnds
  <2>2. sync'.pc = "sent" /\ sync'.cursor = lastSeq' /\ sync'.newest = 0
    BY <2>1 DEF NoPass
  <2>3. QED
    BY <2>2 DEF Fresh
<1>2. CASE ~(resync /\ session # 0)
  <2>1. sync'.pc = "idle"
    BY <1>2 DEF PassEnds, NoPass
  <2>2. QED
    BY <1>2, <2>1 DEF Fresh
<1> QED
  BY <1>1, <1>2

LEMMA PushEndsDoes ==
  ASSUME PushEnds, UNCHANGED lastSeq
  PROVE  /\ Fresh /\ sync'.pc \in {"idle", "sent"}
         /\ sync'.pc = "idle" => ~(resync /\ session # 0)
<1>1. CASE resync /\ session # 0
  <2>1. sync' = [NoPass EXCEPT !.pc = "sent", !.cursor = lastSeq, !.write = foreground,
                               !.token = session]
    BY <1>1 DEF PushEnds
  <2>2. sync'.pc = "sent" /\ sync'.cursor = lastSeq' /\ sync'.newest = 0
    BY <2>1 DEF NoPass
  <2>3. QED
    BY <2>2 DEF Fresh
<1>2. CASE ~(resync /\ session # 0)
  <2>1. sync'.pc = "idle"
    BY <1>2 DEF PushEnds, NoPass
  <2>2. QED
    BY <1>2, <2>1 DEF Fresh
<1> QED
  BY <1>1, <1>2

LEMMA PassFailsDoes ==
  ASSUME PassFails
  PROVE  Fresh /\ sync'.pc = "idle" /\ excused' = DOMAIN log
BY DEF PassFails, NoPass, Fresh

LEMMA Numbers ==
  ASSUME TypeOK
  PROVE  /\ Len(log) \in Nat /\ DOMAIN log = 1..Len(log)
         /\ Remote(Acc) \subseteq DOMAIN log /\ \A i \in Remote(Acc) : i \in Nat /\ i > 0
         /\ lastSeq \in Nat /\ latest \in Nat /\ readAt \in Nat /\ shown \in Nat
         /\ lastSeq <= Len(log) /\ latest <= Len(log) /\ readAt <= Len(log)
         /\ sync.cursor \in Nat /\ sync.newest \in Nat /\ sync.page \subseteq DOMAIN log
         /\ sync.cursor <= Len(log)
<1>1. Len(log) \in Nat /\ DOMAIN log = 1..Len(log)
  BY TypeIs DEF TypeRest
<1>2. sync.cursor \in 0..Len(log) /\ sync.newest \in 0..Len(log) /\ sync.page \subseteq DOMAIN log
  BY TypeIs DEF PassType
<1>3. Remote(Acc) \subseteq DOMAIN log
  BY DEF Remote
<1>4. lastSeq \in 0..Len(log) /\ latest \in 0..Len(log) /\ readAt \in 0..Len(log)
      /\ shown \in 0..Len(log)
  BY TypeIs DEF TypeRest
<1> QED
  BY <1>1, <1>2, <1>3, <1>4

(* Where a page leads: nothing is left out.                                *)
LEMMA Onward ==
  ASSUME TypeOK, Sessions, Passing, Live, sync.pc = "page"
  PROVE  /\ lastSeq <= Cursor /\ sync.cursor <= Cursor /\ Cursor \in Nat
         /\ Found(lastSeq, Newest, Cursor)
<1>1. /\ lastSeq <= sync.cursor /\ Found(lastSeq, sync.newest, sync.cursor)
      /\ \A i \in sync.page : sync.cursor < i /\ log[i].account = Acc
      /\ \A i \in DOMAIN log, j \in sync.page :
           log[i].account = Acc /\ sync.cursor < i /\ i <= j => i \in sync.page
  BY DEF Passing
<1>2. /\ Cursor \in Nat /\ Newest \in Nat
      /\ \A i \in sync.page : i \in Nat /\ i <= Cursor
      /\ sync.page # {} => Cursor \in sync.page
      /\ sync.page = {} => Cursor = sync.cursor
      /\ \A i \in sync.page : ~Mine(i) => i <= Newest
      /\ Newest = sync.newest \/ (Newest \in sync.page /\ ~Mine(Newest))
  BY CursorTypes
<1>3. /\ lastSeq \in Nat /\ sync.cursor \in Nat /\ sync.newest \in Nat
      /\ sync.page \subseteq DOMAIN log /\ \A i \in Remote(Acc) : i \in Nat
  BY Numbers
<1>4. sync.cursor <= Cursor /\ lastSeq <= Cursor
  BY <1>1, <1>2, <1>3
<1>5. \A i \in DOMAIN log : log[i].account = Acc => (~Mine(i) <=> i \in Remote(Acc))
  <2>1. \A i \in DOMAIN log : log[i].origin \in {"me", "other"}
    <3>1. \A i \in DOMAIN log : log[i] \in Clip
      BY TypeIs DEF TypeRest
    <3>2. QED
      BY <3>1 DEF Clip
  <2>2. QED
    BY <2>1 DEF Mine, Remote, Acc
<1>6. Newest # 0 => Newest \in Remote(Acc) /\ lastSeq < Newest /\ Newest <= Cursor
  <2>1. CASE Newest = sync.newest
    BY <1>1, <1>2, <1>3, <1>4, <2>1 DEF Found
  <2>2. CASE Newest \in sync.page /\ ~Mine(Newest)
    BY <1>1, <1>2, <1>3, <1>5, <2>2
  <2>3. QED
    BY <1>2, <2>1, <2>2
<1>7. ASSUME NEW i \in Remote(Acc), lastSeq < i, i <= Cursor PROVE i <= Newest
  <2>1. i \in Nat /\ i \in DOMAIN log /\ log[i].account = Acc /\ ~Mine(i)
    BY <1>3, <1>5 DEF Remote
  <2>2. CASE i <= sync.cursor
    <3>1. i <= sync.newest
      BY <1>1, <1>7, <2>2 DEF Found
    <3>2. CASE Newest = sync.newest
      BY <3>1, <3>2
    <3>3. CASE Newest \in sync.page
      BY <1>1, <1>2, <1>3, <2>1, <2>2, <3>3
    <3>4. QED
      BY <1>2, <3>2, <3>3
  <2>3. CASE sync.cursor < i
    <3>1. Cursor \in sync.page
      BY <1>2, <1>3, <1>7, <2>1, <2>3
    <3>2. i \in sync.page
      BY <1>1, <1>7, <2>1, <2>3, <3>1
    <3>3. QED
      BY <1>2, <2>1, <3>2
  <2>4. QED
    BY <1>3, <2>1, <2>2, <2>3
<1> QED
  BY <1>2, <1>4, <1>6, <1>7 DEF Found

LEMMA PassingKept ==
  ASSUME TypeOK, Sessions, Passing, Fresh \/ Same,
         UNCHANGED <<log, session, accounts, crossed, lastSeq, latest>>
  PROVE  Passing'
<1>1. /\ Remote(Acc)' = Remote(Acc) /\ Acc' = Acc /\ (Live' <=> Live)
      /\ \A i : log'[i] = log[i]
  BY DEF Remote, Acc, AccountOf, Live
<1> SUFFICES ASSUME Live PROVE
       /\ Found(0, latest, lastSeq)'
       /\ (sync.pc \in {"sent", "page", "ack"} =>
            lastSeq <= sync.cursor /\ Found(lastSeq, sync.newest, sync.cursor))'
       /\ (sync.pc = "page" =>
            /\ \A i \in sync.page : sync.cursor < i /\ log[i].account = Acc
            /\ \A i \in DOMAIN log, j \in sync.page :
                 log[i].account = Acc /\ sync.cursor < i /\ i <= j => i \in sync.page)'
  BY <1>1, Zenon DEF Passing
<1>2. Found(0, latest, lastSeq)'
  BY <1>1 DEF Passing, Found
<1>3. lastSeq \in Nat /\ \A i \in Remote(Acc) : i \in Nat
  BY Numbers
<1>4. CASE Fresh
  <2>1. sync'.pc = "sent" =>
          lastSeq' <= sync'.cursor /\ Found(lastSeq, sync.newest, sync.cursor)'
    BY <1>1, <1>3, <1>4 DEF Fresh, Found
  <2>2. QED
    BY <1>2, <1>4, <2>1 DEF Fresh
<1>5. CASE Same
  <2>1. sync'.pc \in {"sent", "page", "ack"} =>
          lastSeq' <= sync'.cursor /\ Found(lastSeq, sync.newest, sync.cursor)'
    BY <1>1, <1>5 DEF Same, Passing, Found
  <2>2. sync'.pc = "page" =>
          /\ \A i \in sync'.page : sync'.cursor < i /\ log'[i].account = Acc'
          /\ \A i \in DOMAIN log', j \in sync'.page :
               log'[i].account = Acc' /\ sync'.cursor < i /\ i <= j => i \in sync'.page
    BY <1>1, <1>5 DEF Same, Passing
  <2>3. QED
    BY <1>2, <2>1, <2>2
<1> QED
  BY <1>4, <1>5

(* A clip that joins the log is above all that was seen.                   *)
LEMMA PassingGrows ==
  ASSUME TypeOK, Sessions, Passing, NEW c \in Clip, log' = Append(log, c),
         UNCHANGED <<session, accounts, crossed, lastSeq, latest, sync>>
  PROVE  Passing'
<1>1. /\ Acc' = Acc /\ (Live' <=> Live)
      /\ DOMAIN log = 1..Len(log) /\ DOMAIN log' = 1..(Len(log) + 1) /\ Len(log) \in Nat
      /\ \A i \in DOMAIN log : log'[i] = log[i]
  BY Grown DEF Acc, AccountOf, Live
<1>2. \A i \in DOMAIN log' : i \in DOMAIN log \/ i = Len(log) + 1
  BY <1>1
<1>3. /\ \A i \in Remote(Acc) : i \in Remote(Acc)'
      /\ \A i \in Remote(Acc)' : i \in Remote(Acc) \/ i = Len(log) + 1
  BY <1>1, <1>2 DEF Remote
<1>4. /\ lastSeq \in Nat /\ latest \in Nat /\ lastSeq <= Len(log) /\ sync.cursor \in Nat
      /\ sync.cursor <= Len(log) /\ sync.page \subseteq DOMAIN log
  BY Numbers
<1>5. ASSUME NEW from \in Nat, NEW n \in Nat, NEW to \in Nat, to <= Len(log), Found(from, n, to),
             UNCHANGED <<from, n, to>>
      PROVE  /\ n # 0 => n \in Remote(Acc)' /\ from < n /\ n <= to
             /\ \A i \in Remote(Acc)' : from < i /\ i <= to => i <= n
  <2>1. ~(Len(log) + 1 <= to)
    BY <1>1, <1>5
  <2>2. QED
    BY <1>3, <1>5, <2>1 DEF Found
<1>6. CASE ~Live
  BY <1>1, <1>6 DEF Passing
<1>7. CASE Live
  <2>1. Found(0, latest, lastSeq)'
    <3>1. Found(0, latest, lastSeq)
      BY <1>7 DEF Passing
    <3>2. QED
      BY <1>4, <1>5, <3>1 DEF Found
  <2>2. ASSUME sync.pc \in {"sent", "page", "ack"}
        PROVE  lastSeq' <= sync'.cursor /\ Found(lastSeq, sync.newest, sync.cursor)'
    <3>1. lastSeq <= sync.cursor /\ Found(lastSeq, sync.newest, sync.cursor) /\ sync.newest \in Nat
      BY <1>7, <2>2, Numbers DEF Passing
    <3>2. QED
      BY <1>4, <1>5, <3>1 DEF Found
  <2>3. ASSUME sync.pc = "page"
        PROVE  /\ \A i \in sync'.page : sync'.cursor < i /\ log'[i].account = Acc'
               /\ \A i \in DOMAIN log', j \in sync'.page :
                    log'[i].account = Acc' /\ sync'.cursor < i /\ i <= j => i \in sync'.page
    <3>1. /\ \A i \in sync.page : sync.cursor < i /\ log[i].account = Acc
          /\ \A i \in DOMAIN log, j \in sync.page :
               log[i].account = Acc /\ sync.cursor < i /\ i <= j => i \in sync.page
      BY <1>7, <2>3 DEF Passing
    <3>2. \A j \in sync.page : ~(Len(log) + 1 <= j)
      BY <1>1, <1>4
    <3>3. QED
      BY <1>1, <1>2, <1>4, <3>1, <3>2
  <2>4. QED
    BY <1>1, <2>1, <2>2, <2>3 DEF Passing
<1> QED
  BY <1>6, <1>7

LEMMA PassingStep ==
  ASSUME TypeOK, Sessions, Remotes, Passing, [Next]_vars
  PROVE  Passing'
<1> USE DEF persisted, tasks, history
<1>0. sync \in PassType
  BY Basics
<1>1. CASE UNCHANGED <<log, session, accounts, crossed, lastSeq, latest, sync>>
  BY <1>1, PassingKept DEF Same
<1>2. CASE Fresh /\ UNCHANGED <<log, session, accounts, crossed, lastSeq, latest>>
  BY <1>2, PassingKept
<1>3. ASSUME NEW write, NEW then, Sync(write, then),
             UNCHANGED <<log, session, accounts, crossed, lastSeq, latest>>
      PROVE  Passing'
  BY <1>1, <1>2, <1>3, SyncDoes
<1>4. CASE ~Live'
  BY <1>4 DEF Passing
<1>5. CASE \E a \in Account : RemoteClip(a)
  <2>1. PICK c \in Clip : log' = Append(log, c)
    BY <1>5, Basics DEF RemoteClip, Clip
  <2>2. UNCHANGED <<session, accounts, crossed, lastSeq, latest, sync>>
    BY <1>5 DEF RemoteClip
  <2>3. QED
    BY <2>1, <2>2, PassingGrows
<1>6. CASE StoreUpload
  <2>1. UNCHANGED <<session, accounts, crossed, lastSeq, latest, sync>>
    BY <1>6 DEF StoreUpload
  <2>2. CASE UNCHANGED log
    BY <1>1, <2>1, <2>2
  <2>3. ASSUME NEW c \in Clip, log' = Append(log, c) PROVE Passing'
    BY <2>1, <2>3, PassingGrows
  <2>4. flush.token \in DOMAIN accounts /\ flush.copy \in Copy
    BY <1>6 DEF StoreUpload, Sessions
  <2>5. accounts[flush.token] \in Account /\ MaxDemands \in Nat
    <3>1. accounts \in Seq(Account)
      BY TypeIs DEF TypeRest
    <3>2. QED
      BY <2>4, <3>1, PhoneAssumption
  <2>6. [account |-> accounts[flush.token], key |-> flush.copy.key, origin |-> "me",
         id |-> flush.copy.id] \in Clip
    BY <2>4, <2>5 DEF Copy, Clip
  <2>7. QED
    BY <1>6, <2>2, <2>3, <2>6 DEF StoreUpload
<1>7. CASE ServePage /\ Live
  <2> DEFINE page == PageAfter(accounts[sync.token], sync.cursor)
  <2>1. UNCHANGED <<log, session, accounts, crossed, lastSeq, latest>> /\ sync.pc = "sent"
        /\ sync' = [sync EXCEPT !.pc = "page", !.page = page]
    BY <1>7 DEF ServePage
  <2>2. sync'.pc = "page" /\ sync'.cursor = sync.cursor /\ sync'.newest = sync.newest
        /\ sync'.page = page
    BY <1>0, <2>1 DEF PassType
  <2>3. accounts[sync.token] = Acc
    BY <1>7, <2>1 DEF Sessions, Live, Acc, AccountOf
  <2>4. sync.cursor \in Nat
    BY Numbers
  <2>5. /\ \A i \in page : sync.cursor < i /\ log[i].account = Acc
        /\ \A i \in DOMAIN log, j \in page :
             log[i].account = Acc /\ sync.cursor < i /\ i <= j => i \in page
    BY <2>3, <2>4, PageClosed
  <2> HIDE DEF page
  <2>6. Remote(Acc)' = Remote(Acc) /\ Acc' = Acc
    BY <2>1 DEF Remote, Acc, AccountOf
  <2>7. Found(0, latest, lastSeq) /\ lastSeq <= sync.cursor /\ Found(lastSeq, sync.newest, sync.cursor)
    BY <1>7, <2>1 DEF Passing
  <2>8. Found(0, latest, lastSeq)' /\ lastSeq' <= sync'.cursor
        /\ Found(lastSeq, sync.newest, sync.cursor)'
    BY <2>1, <2>2, <2>6, <2>7 DEF Found
  <2>9. QED
    BY <2>1, <2>2, <2>5, <2>6, <2>8 DEF Passing
<1>8. CASE (NextPage \/ LastPage) /\ Live
  <2>1. UNCHANGED <<log, session, accounts, crossed, lastSeq, latest>> /\ sync.pc = "page"
    BY <1>8 DEF NextPage, LastPage
  <2>2. CASE PassFails \/ PassEnds
    BY <1>2, <2>1, <2>2, PassFailsDoes, PassEndsDoes
  <2>3. CASE \/ sync' = [sync EXCEPT !.pc = "sent", !.cursor = Cursor, !.newest = Newest,
                                     !.page = {}, !.token = session]
             \/ sync' = [sync EXCEPT !.pc = "ack", !.cursor = Cursor, !.newest = Newest,
                                     !.page = {}, !.token = session]
    <3>1. sync'.pc \in {"sent", "ack"} /\ sync'.cursor = Cursor /\ sync'.newest = Newest
      BY <1>0, <2>3 DEF PassType
    <3>2. lastSeq <= Cursor /\ Found(lastSeq, Newest, Cursor) /\ Found(0, latest, lastSeq)
      BY <1>8, <2>1, Onward DEF Passing
    <3>3. Remote(Acc)' = Remote(Acc)
      BY <2>1 DEF Remote, Acc, AccountOf
    <3>4. Found(0, latest, lastSeq)' /\ lastSeq' <= sync'.cursor
          /\ Found(lastSeq, sync.newest, sync.cursor)'
      BY <2>1, <3>1, <3>2, <3>3 DEF Found
    <3>5. QED
      BY <3>1, <3>4 DEF Passing
  <2>4. QED
    BY <1>8, <2>2, <2>3 DEF NextPage, LastPage
<1>9. CASE Acknowledged /\ Live
  <2>1. UNCHANGED <<log, session, accounts, crossed>> /\ sync.pc = "ack" /\ PassEnds
        /\ lastSeq' = sync.cursor
        /\ latest' = IF sync.newest = 0 THEN latest ELSE sync.newest
    BY <1>9 DEF Acknowledged
  <2>2. /\ Found(0, latest, lastSeq) /\ lastSeq <= sync.cursor
        /\ Found(lastSeq, sync.newest, sync.cursor)
    BY <1>9, <2>1 DEF Passing
  <2>3. /\ lastSeq \in Nat /\ latest \in Nat /\ sync.cursor \in Nat /\ sync.newest \in Nat
        /\ \A i \in Remote(Acc) : i \in Nat /\ i > 0
    BY Numbers
  <2>4. Remote(Acc)' = Remote(Acc)
    BY <2>1 DEF Remote, Acc, AccountOf
  <2>5. Found(0, latest, lastSeq)'
    <3>1. CASE sync.newest = 0
      <4>1. \A i \in Remote(Acc) : i <= sync.cursor => i <= lastSeq
        BY <2>2, <2>3, <3>1 DEF Found
      <4>2. QED
        BY <2>1, <2>2, <2>3, <2>4, <3>1, <4>1 DEF Found
    <3>2. CASE sync.newest # 0
      <4>1. lastSeq < sync.newest /\ sync.newest <= sync.cursor /\ sync.newest \in Remote(Acc)
        BY <2>2, <3>2 DEF Found
      <4>2. \A i \in Remote(Acc) : i <= sync.cursor => i <= sync.newest
        BY <2>2, <2>3, <4>1 DEF Found
      <4>3. QED
        BY <2>1, <2>3, <2>4, <3>2, <4>1, <4>2 DEF Found
    <3>3. QED
      BY <3>1, <3>2
  <2>6. Fresh
    BY <2>1, PassEndsDoes
  <2>7. sync'.pc = "sent" => lastSeq' <= sync'.cursor /\ Found(lastSeq, sync.newest, sync.cursor)'
    BY <2>1, <2>3, <2>4, <2>6 DEF Fresh, Found
  <2>8. QED
    BY <2>5, <2>6, <2>7 DEF Passing, Fresh
<1>10. CASE PassUnauthorized /\ Live
  <2>1. /\ UNCHANGED <<log, session, accounts, crossed, lastSeq, latest>>
        /\ sync' = [sync EXCEPT !.token = session]
    BY <1>10 DEF PassUnauthorized, Live
  <2>2. Same
    BY <1>0, <2>1 DEF PassType, Same
  <2>3. QED
    BY <2>1, <2>2, PassingKept
<1>11. CASE PassLost
  BY <1>2, <1>11, PassFailsDoes DEF PassLost
<1>12. CASE PushAcknowledged \/ PushLost
  <2>1. PushEnds /\ UNCHANGED <<log, session, accounts, crossed, lastSeq, latest>>
    BY <1>12 DEF PushAcknowledged, PushLost
  <2>2. QED
    BY <1>2, <2>1, PushEndsDoes
<1>13. CASE PushedClip /\ Live
  <2> DEFINE i == Head(wire)
  <2>1. UNCHANGED <<log, session, accounts, crossed>> /\ wire # <<>>
    BY <1>13 DEF PushedClip
  <2>2. i \in Remote(Acc)
    <3>1. wire \in Seq(DOMAIN log)
      BY TypeIs DEF TypeRest
    <3>2. 1 \in DOMAIN wire /\ i = wire[1]
      BY <2>1, <3>1, TailElements
    <3>3. QED
      BY <3>2 DEF Remotes
  <2> HIDE DEF i
  <2>3. CASE UNCHANGED <<sync, lastSeq, latest>>
    BY <1>1, <2>1, <2>3
  <2>4. CASE UNCHANGED <<lastSeq, latest>> /\ Sync(foreground, "end")
    BY <1>3, <2>1, <2>4
  <2>5. CASE /\ i = lastSeq + 1 /\ lastSeq' = i /\ latest' = i
             /\ sync' = [NoPass EXCEPT !.pc = "pushed", !.newest = i, !.token = session]
    <3>1. sync'.pc = "pushed"
      BY <2>5 DEF NoPass
    <3>2. Remote(Acc)' = Remote(Acc)
      BY <2>1 DEF Remote, Acc, AccountOf
    <3>3. \A j \in Remote(Acc) : j \in Nat /\ j > 0
      BY Numbers
    <3>4. Found(0, latest, lastSeq)'
      BY <2>2, <2>5, <3>2, <3>3 DEF Found
    <3>5. QED
      BY <3>1, <3>4 DEF Passing
  <2>6. QED
    BY <1>13, <2>3, <2>4, <2>5 DEF PushedClip, Defer, i
<1>14. ASSUME NEW a \in Account, SignIn(a) PROVE Passing'
  <2>1. CASE sync.pc # "idle"
    <3>1. crossed'
      BY <1>14, <2>1 DEF SignIn
    <3>2. QED
      BY <1>4, <3>1 DEF Live
  <2>2. CASE sync.pc = "idle"
    <3>1. Sync(foreground, "end") /\ lastSeq' = 0 /\ latest' = 0 /\ UNCHANGED log
      BY <1>14 DEF SignIn, ClearState
    <3>2. sync'.pc = "sent" /\ Fresh
      BY <2>2, <3>1, SyncDoes
    <3>3. \A j \in Remote(Acc)' : j \in Nat /\ j > 0
      BY <3>1, Numbers DEF Remote
    <3>4. \A j \in Remote(Acc)' : ~(j <= 0)
      BY <3>3
    <3>5. sync'.cursor = 0 /\ sync'.newest = 0
      BY <3>1, <3>2 DEF Fresh
    <3>6. QED
      BY <3>1, <3>2, <3>4, <3>5 DEF Passing, Found
  <2>3. QED
    BY <2>1, <2>2
<1>15. CASE SignedOut
  BY <1>4, <1>15 DEF SignedOut, Live
<1>16. CASE Reconnect \/ RemotePush
  <2>1. PICK write, then : Sync(write, then)
    BY <1>16 DEF Reconnect, RemotePush
  <2>2. UNCHANGED <<log, session, accounts, crossed, lastSeq, latest>>
    BY <1>16 DEF Reconnect, RemotePush
  <2>3. QED
    BY <1>3, <2>1, <2>2
<1>17. CASE Uploaded \/ EnterForeground \/ RefreshNow
  <2>1. UNCHANGED <<log, session, accounts, crossed, lastSeq, latest>>
    BY <1>17 DEF Uploaded, EnterForeground, RefreshNow
  <2>2. UNCHANGED sync \/ \E write, then : Sync(write, then)
    BY <1>17 DEF Uploaded, EnterForeground, RefreshNow
  <2>3. QED
    BY <1>1, <1>3, <2>1, <2>2
<1>18. CASE EnterBackground
  <2>1. UNCHANGED <<log, session, accounts, crossed, lastSeq, latest>>
        /\ sync' \in {sync, [sync EXCEPT !.then = "cancelled"]}
    BY <1>18 DEF EnterBackground
  <2>2. Same
    BY <1>0, <2>1 DEF PassType, Same
  <2>3. QED
    BY <2>1, <2>2, PassingKept
<1>19. CASE Trap \/ Kill
  <2>1. UNCHANGED <<log, session, accounts, crossed, lastSeq, latest>> /\ sync' = NoPass
    BY <1>19 DEF Trap, Kill
  <2>2. QED
    BY <1>2, <2>1 DEF NoPass, Fresh
<1>20. CASE LocalCopy \/ UploadUnauthorized \/ UploadLost \/ Connect \/ Disconnect \/ SignOut
  BY <1>1, <1>20 DEF LocalCopy, UploadUnauthorized, UploadLost, Connect, Disconnect, SignOut
<1>21. CASE UNCHANGED vars
  BY <1>1, <1>21 DEF vars
<1>22. CASE (ServePage \/ NextPage \/ LastPage \/ Acknowledged \/ PassUnauthorized \/ PushedClip) /\ ~Live
  <2>1. UNCHANGED <<session, crossed>>
    BY <1>22 DEF ServePage, NextPage, LastPage, Acknowledged, PassUnauthorized, PushedClip
  <2>2. QED
    BY <1>4, <1>22, <2>1 DEF Live
<1> QED
  BY <1>5, <1>6, <1>7, <1>8, <1>9, <1>10, <1>11, <1>12, <1>13, <1>14, <1>15, <1>16, <1>17, <1>18,
     <1>19, <1>20, <1>21, <1>22 DEF Next, Server, Tasks, User

(* A clip that is on its way stays so, or was passed.                      *)
LEMMA ComingKept ==
  ASSUME TypeOK, Sessions, Coming, Same,
         UNCHANGED <<session, accounts, crossed, foreground, lastSeq, excused, readAt, socket>>,
         Remote(Acc)' = Remote(Acc), resync => resync',
         \A k \in DOMAIN wire : \E j \in DOMAIN wire' : wire'[j] = wire[k]
  PROVE  Coming'
<1>1. Live' <=> Live
  BY DEF Live
<1>2. ASSUME NEW i, OnItsWay(i)
      PROVE  OnItsWay(i)'
  BY <1>2 DEF OnItsWay, Same
<1> QED
  BY <1>1, <1>2 DEF Coming

(* A pass that begins reads whatever is there.                             *)
LEMMA ComingAsked ==
  ASSUME Asked
  PROVE  Coming'
BY DEF Asked, Coming, OnItsWay

LEMMA ComingStep ==
  ASSUME TypeOK, Sessions, Passing, Coming, [Next]_vars
  PROVE  Coming'
<1> USE DEF persisted, tasks, connection, history
<1>0. sync \in PassType /\ resync \in BOOLEAN
  BY Basics, TypeIs DEF TypeRest
<1>1. CASE UNCHANGED <<log, session, accounts, crossed, foreground, lastSeq, excused, readAt, socket,
                       wire, sync, resync>>
  BY <1>1, ComingKept DEF Same, Remote, Acc, AccountOf
<1>2. ASSUME NEW write, NEW then, Sync(write, then)
      PROVE  Coming'
  BY <1>2, SyncDoes, ComingAsked
<1>3. CASE ~Live' \/ ~foreground'
  BY <1>3 DEF Coming
<1>4. CASE PassFails /\ UNCHANGED log
  BY <1>4, PassFailsDoes DEF Coming, OnItsWay, Remote
<1>5. ASSUME NEW a \in Account, RemoteClip(a) PROVE Coming'
  <2> DEFINE c == [account |-> a, key |-> a, origin |-> "other", id |-> 0]
  <2>1. UNCHANGED <<session, accounts, crossed, foreground, lastSeq, excused, readAt, socket, sync,
                    resync>>
        /\ log' = Append(log, c)
    BY <1>5 DEF RemoteClip
  <2>2. c \in Clip
    BY Basics DEF Clip
  <2>3. /\ DOMAIN log' = 1..(Len(log) + 1) /\ Len(log') = Len(log) + 1 /\ Len(log) \in Nat
        /\ DOMAIN log = 1..Len(log) /\ \A i \in DOMAIN log : log'[i] = log[i]
        /\ log'[Len(log) + 1] = c
    BY <2>1, <2>2, Grown
  <2>4. \A i \in DOMAIN log' : i \in DOMAIN log \/ i = Len(log')
    BY <2>3
  <2>5. ASSUME NEW i \in Remote(Acc)' PROVE i \in Remote(Acc) \/ (i = Len(log') /\ Acc = a)
    BY <2>1, <2>3, <2>4, <2>5 DEF Remote, Acc, AccountOf
  <2>6. wire \in Seq(DOMAIN log) /\ (wire' = wire \/ wire' = Append(wire, Len(log')))
    BY <1>5, TypeIs DEF RemoteClip, TypeRest
  <2>7. \A k \in DOMAIN wire : k \in DOMAIN wire' /\ wire'[k] = wire[k]
    BY <2>6
  <2>8. ASSUME NEW i, OnItsWay(i) PROVE OnItsWay(i)'
    BY <2>1, <2>7, <2>8 DEF OnItsWay
  <2>9. ASSUME NEW i, i = Len(log'), Acc = a PROVE OnItsWay(i)'
    <3>1. readAt \in Nat /\ readAt <= Len(log)
      BY Numbers
    <3>2. i > readAt
      BY <2>3, <2>9, <3>1
    <3>3. CASE socket = "open"
      <4>1. wire' = Append(wire, Len(log'))
        BY <1>5, <2>9, <3>3 DEF RemoteClip, Acc
      <4>2. Len(wire) + 1 \in DOMAIN wire' /\ wire'[Len(wire) + 1] = i
        BY <2>6, <2>9, <4>1
      <4>3. QED
        BY <2>1, <3>2, <4>2 DEF OnItsWay
    <3>4. CASE socket # "open"
      BY <2>1, <3>2, <3>4 DEF OnItsWay
    <3>5. QED
      BY <3>3, <3>4
  <2>10. (Live' <=> Live)
    BY <2>1 DEF Live
  <2>11. ASSUME Live, foreground, NEW i \in Remote(Acc)' PROVE OnItsWay(i)'
    BY <2>5, <2>8, <2>9, <2>11 DEF Coming
  <2>12. QED
    BY <2>1, <2>10, <2>11 DEF Coming
<1>6. CASE StoreUpload
  <2>1. UNCHANGED <<session, accounts, crossed, foreground, lastSeq, excused, readAt, socket, wire,
                    sync, resync>>
    BY <1>6 DEF StoreUpload
  <2>2. Remote(Acc)' = Remote(Acc)
    <3>1. CASE UNCHANGED log
      BY <2>1, <3>1 DEF Remote, Acc, AccountOf
    <3>2. ASSUME NEW c \in Clip, c.origin = "me", log' = Append(log, c)
          PROVE  Remote(Acc)' = Remote(Acc)
      <4>1. /\ DOMAIN log' = 1..(Len(log) + 1) /\ Len(log) \in Nat /\ DOMAIN log = 1..Len(log)
            /\ \A i \in DOMAIN log : log'[i] = log[i]
            /\ log'[Len(log) + 1] = c
        BY <3>2, Grown
      <4>2. \A i : i \in DOMAIN log' <=> i \in DOMAIN log \/ i = Len(log) + 1
        BY <4>1
      <4>3. QED
        BY <2>1, <3>2, <4>1, <4>2 DEF Remote, Acc, AccountOf
    <3>3. QED
      <4>1. UNCHANGED log \/ \E c \in Clip : c.origin = "me" /\ log' = Append(log, c)
        <5>1. flush.token \in DOMAIN accounts /\ flush.copy \in Copy
          BY <1>6 DEF StoreUpload, Sessions
        <5>2. accounts[flush.token] \in Account /\ MaxDemands \in Nat
          <6>1. accounts \in Seq(Account)
            BY TypeIs DEF TypeRest
          <6>2. QED
            BY <5>1, <6>1, PhoneAssumption
        <5>3. [account |-> accounts[flush.token], key |-> flush.copy.key, origin |-> "me",
               id |-> flush.copy.id] \in Clip
          BY <5>1, <5>2 DEF Copy, Clip
        <5>4. QED
          BY <1>6, <5>3 DEF StoreUpload
      <4>2. QED
        BY <3>1, <3>2, <4>1
  <2>3. QED
    BY <2>1, <2>2, ComingKept DEF Same
<1>7. CASE ServePage /\ Live
  <2> DEFINE page == PageAfter(accounts[sync.token], sync.cursor)
  <2>1. UNCHANGED <<log, session, accounts, foreground>> /\ sync.pc = "sent"
        /\ sync' = [sync EXCEPT !.pc = "page", !.page = page]
    BY <1>7 DEF ServePage
  <2>2. sync'.pc = "page" /\ sync'.cursor = sync.cursor /\ sync'.page = page
    BY <1>0, <2>1 DEF PassType
  <2>3. accounts[sync.token] = Acc
    BY <1>7, <2>1 DEF Sessions, Live, Acc, AccountOf
  <2>4. sync.cursor \in Nat /\ \A i \in Remote(Acc) : i \in Nat
    BY Numbers
  <2>5. ASSUME NEW i \in Remote(Acc)
        PROVE  i <= sync.cursor \/ i \in page \/ Cardinality(page) = PageLimit
    <3>1. i \in DOMAIN log /\ log[i].account = Acc /\ i \in Nat
      BY <2>4 DEF Remote
    <3>2. CASE i > sync.cursor
      BY <2>3, <2>4, <3>1, <3>2, PageFull
    <3>3. QED
      BY <2>4, <3>1, <3>2
  <2>6. Remote(Acc)' = Remote(Acc)
    BY <2>1 DEF Remote, Acc, AccountOf
  <2> HIDE DEF page
  <2>7. QED
    BY <2>2, <2>5, <2>6 DEF Coming, OnItsWay
<1>8. CASE NextPage /\ Live
  <2>1. sync' = [sync EXCEPT !.pc = "sent", !.cursor = Cursor, !.newest = Newest,
                             !.page = {}, !.token = session]
    BY <1>8 DEF NextPage, Live
  <2>2. sync'.pc = "sent"
    BY <1>0, <2>1 DEF PassType
  <2>3. QED
    BY <2>2, ComingAsked DEF Asked
<1>9. CASE LastPage /\ Live /\ foreground
  <2>1. /\ UNCHANGED <<log, session, accounts, foreground, lastSeq, wire, readAt>> /\ sync.pc = "page"
        /\ Cardinality(sync.page) # PageLimit /\ session # 0 /\ ~crossed
    <3>1. PageLimit \in Nat
      BY Basics
    <3>2. QED
      BY <1>9, <3>1 DEF LastPage, Live
  <2>2. Remote(Acc)' = Remote(Acc)
    BY <2>1 DEF Remote, Acc, AccountOf
  <2>3. CASE PassFails
    BY <1>4, <2>1, <2>3
  <2>4. /\ lastSeq \in Nat /\ sync.cursor <= Cursor /\ Cursor \in Nat /\ sync.cursor \in Nat
        /\ \A i \in Remote(Acc) : i \in Nat
        /\ \A i \in sync.page : i <= Cursor
    BY <1>9, <2>1, Numbers, Onward, CursorTypes
  <2>5. ASSUME NEW i \in Remote(Acc)
        PROVE  \/ i <= lastSeq \/ i <= Cursor \/ i \in excused \/ resync
               \/ i > readAt /\ (socket # "open" \/ \E k \in DOMAIN wire : wire[k] = i)
    <3>1. OnItsWay(i) /\ i \in Nat
      BY <1>9, <2>4 DEF Coming
    <3>2. CASE i <= sync.cursor
      BY <2>4, <3>1, <3>2
    <3>3. QED
      BY <2>1, <2>4, <3>1, <3>2 DEF OnItsWay
  <2>6. CASE /\ sync' = [sync EXCEPT !.pc = "ack", !.cursor = Cursor, !.newest = Newest,
                                     !.page = {}, !.token = session]
             /\ UNCHANGED <<resync, socket, excused>>
    <3>1. sync'.pc = "ack" /\ sync'.cursor = Cursor
      BY <1>0, <2>6 DEF PassType
    <3>2. QED
      BY <2>1, <2>2, <2>5, <2>6, <3>1 DEF Coming, OnItsWay
  <2>7. CASE PassEnds /\ ~(Cursor > lastSeq) /\ UNCHANGED excused
    <3>1. CASE sync'.pc = "sent"
      BY <3>1, ComingAsked DEF Asked
    <3>2. CASE sync'.pc = "idle"
      <4>1. ~resync /\ (socket' = socket \/ socket' = "opening")
        BY <2>1, <2>7, <3>2, PassEndsDoes DEF PassEnds, Connects
      <4>2. ASSUME NEW i \in Remote(Acc) PROVE OnItsWay(i)'
        <5>1. i <= Cursor => i <= lastSeq
          BY <2>4, <2>7
        <5>2. \/ i <= lastSeq' \/ i \in excused'
              \/ i > readAt' /\ (socket' # "open" \/ \E k \in DOMAIN wire' : wire'[k] = i)
          BY <2>1, <2>5, <2>7, <4>1, <5>1
        <5>3. QED
          BY <5>2 DEF OnItsWay
      <4>3. QED
        BY <2>2, <4>2 DEF Coming
    <3>3. QED
      BY <2>7, <3>1, <3>2, PassEndsDoes
  <2>8. QED
    BY <1>9, <2>3, <2>6, <2>7 DEF LastPage
<1>10. CASE Acknowledged /\ Live /\ foreground
  <2>1. /\ UNCHANGED <<log, session, accounts, foreground, wire, readAt, excused>> /\ sync.pc = "ack"
        /\ lastSeq' = sync.cursor /\ PassEnds /\ session # 0
    BY <1>10 DEF Acknowledged, Live
  <2>2. Remote(Acc)' = Remote(Acc)
    BY <2>1 DEF Remote, Acc, AccountOf
  <2>3. lastSeq <= sync.cursor /\ lastSeq \in Nat /\ sync.cursor \in Nat
        /\ \A i \in Remote(Acc) : i \in Nat
    BY <1>10, <2>1, Numbers DEF Passing
  <2>4. CASE sync'.pc = "sent"
    BY <2>4, ComingAsked DEF Asked
  <2>5. CASE sync'.pc = "idle"
    <3>1. ~resync /\ (socket' = socket \/ socket' = "opening")
      BY <2>1, <2>5, PassEndsDoes DEF PassEnds, Connects
    <3>2. ASSUME NEW i \in Remote(Acc) PROVE OnItsWay(i)'
      <4>1. OnItsWay(i) /\ (i <= lastSeq => i <= sync.cursor)
        BY <1>10, <2>3 DEF Coming
      <4>2. \/ i <= lastSeq' \/ i \in excused'
            \/ i > readAt' /\ (socket' # "open" \/ \E k \in DOMAIN wire' : wire'[k] = i)
        BY <2>1, <3>1, <4>1 DEF OnItsWay
      <4>3. QED
        BY <4>2 DEF OnItsWay
    <3>3. QED
      BY <2>2, <3>2 DEF Coming
  <2>6. QED
    BY <2>1, <2>4, <2>5, PassEndsDoes
<1>11. CASE PassUnauthorized /\ Live
  <2>1. /\ UNCHANGED <<log, session, accounts, crossed, foreground, lastSeq, excused, readAt, socket,
                       wire, resync>>
        /\ sync' = [sync EXCEPT !.token = session]
    BY <1>11 DEF PassUnauthorized, Live
  <2>2. Same
    BY <1>0, <2>1 DEF PassType, Same
  <2>3. Remote(Acc)' = Remote(Acc)
    BY <2>1 DEF Remote, Acc, AccountOf
  <2>4. QED
    BY <2>1, <2>2, <2>3, ComingKept
<1>12. CASE PassLost
  BY <1>4, <1>12 DEF PassLost
<1>13. CASE (PushAcknowledged \/ PushLost) /\ Live /\ foreground
  <2>1. /\ UNCHANGED <<log, session, accounts, crossed, foreground, lastSeq, excused, readAt, socket, wire>>
        /\ PushEnds /\ sync.pc = "pushed" /\ session # 0
    BY <1>13 DEF PushAcknowledged, PushLost, Live
  <2>2. CASE sync'.pc = "sent"
    BY <2>2, ComingAsked DEF Asked
  <2>3. CASE sync'.pc = "idle"
    <3>1. ~resync
      BY <2>1, <2>3, PushEndsDoes
    <3>2. Remote(Acc)' = Remote(Acc)
      BY <2>1 DEF Remote, Acc, AccountOf
    <3>3. ASSUME NEW i \in Remote(Acc) PROVE OnItsWay(i)'
      <4>1. OnItsWay(i)
        BY <1>13 DEF Coming
      <4>2. QED
        BY <2>1, <3>1, <4>1 DEF OnItsWay
    <3>4. QED
      BY <3>2, <3>3 DEF Coming
  <2>4. QED
    BY <2>1, <2>2, <2>3, PushEndsDoes
<1>14. CASE PushedClip /\ Live /\ foreground
  <2> DEFINE h == Head(wire)
  <2>1. UNCHANGED <<log, session, accounts, crossed, foreground, excused, readAt, socket>>
        /\ wire # <<>> /\ wire' = Tail(wire)
    BY <1>14 DEF PushedClip
  <2>2. h = wire[1] /\ h \in DOMAIN log
        /\ \A k \in DOMAIN wire : k = 1 \/ (k - 1 \in DOMAIN wire' /\ wire'[k - 1] = wire[k])
    <3>1. wire \in Seq(DOMAIN log)
      BY TypeIs DEF TypeRest
    <3>2. QED
      BY <2>1, <3>1
  <2>3. Remote(Acc)' = Remote(Acc)
    BY <2>1 DEF Remote, Acc, AccountOf
  <2>4. h \in Nat /\ lastSeq \in Nat /\ \A i \in Remote(Acc) : i \in Nat
    BY <2>2, Numbers
  <2> HIDE DEF h
  <2>5. CASE sync.pc # "idle" /\ resync' = TRUE /\ UNCHANGED sync
    BY <2>5, ComingAsked DEF Asked
  <2>6. CASE sync.pc = "idle" /\ h <= lastSeq' /\ lastSeq <= lastSeq' /\ lastSeq' \in Nat
    <3>1. ASSUME NEW i \in Remote(Acc) PROVE OnItsWay(i)'
      <4>1. OnItsWay(i) /\ i \in Nat
        BY <1>14, <2>4 DEF Coming
      <4>2. CASE i <= lastSeq \/ i = h
        BY <2>4, <2>6, <4>1, <4>2 DEF OnItsWay
      <4>3. CASE i \in excused
        BY <2>1, <4>3 DEF OnItsWay
      <4>4. CASE i > readAt /\ socket # "open"
        BY <2>1, <4>4 DEF OnItsWay
      <4>5. CASE i > readAt /\ \E k \in DOMAIN wire : wire[k] = i
        <5>1. PICK k \in DOMAIN wire : wire[k] = i
          BY <4>5
        <5>2. CASE k = 1
          BY <2>2, <4>2, <5>1, <5>2
        <5>3. CASE k # 1
          BY <2>1, <2>2, <4>5, <5>1, <5>3 DEF OnItsWay
        <5>4. QED
          BY <5>2, <5>3
      <4>6. QED
        BY <2>6, <4>1, <4>2, <4>3, <4>4, <4>5 DEF OnItsWay
    <3>2. QED
      BY <2>3, <3>1 DEF Coming
  <2>7. CASE Sync(foreground, "end")
    BY <1>2, <2>7
  <2>8. \/ sync.pc # "idle" /\ resync' = TRUE /\ UNCHANGED sync
        \/ sync.pc = "idle" /\ h <= lastSeq /\ UNCHANGED lastSeq
        \/ sync.pc = "idle" /\ h = lastSeq + 1 /\ lastSeq' = h
        \/ Sync(foreground, "end")
    BY <1>14 DEF PushedClip, Defer, h
  <2>9. CASE sync.pc = "idle" /\ h = lastSeq + 1 /\ lastSeq' = h
    BY <2>4, <2>6, <2>9
  <2>10. CASE sync.pc = "idle" /\ h <= lastSeq /\ UNCHANGED lastSeq
    BY <2>4, <2>6, <2>10
  <2>11. QED
    BY <2>5, <2>7, <2>8, <2>9, <2>10
<1>15. CASE Connect /\ Live /\ foreground
  <2>1. /\ UNCHANGED <<log, session, accounts, foreground, lastSeq, sync, resync, readAt>>
        /\ excused' = excused \union (readAt + 1)..Len(log)
    BY <1>15 DEF Connect
  <2>2. /\ Len(log) \in Nat /\ readAt \in Nat /\ \A i \in Remote(Acc) : i \in 1..Len(log)
    BY Numbers
  <2>3. \A i \in Remote(Acc) : i > readAt => i \in excused'
    BY <2>1, <2>2
  <2>4. Remote(Acc)' = Remote(Acc)
    BY <2>1 DEF Remote, Acc, AccountOf
  <2>5. ASSUME NEW i \in Remote(Acc) PROVE OnItsWay(i)'
    <3>1. OnItsWay(i)
      BY <1>15 DEF Coming
    <3>2. QED
      BY <2>1, <2>3, <3>1 DEF OnItsWay
  <2>6. QED
    BY <2>4, <2>5 DEF Coming
<1>16. CASE Disconnect
  <2>1. UNCHANGED <<log, session, accounts, crossed, foreground, lastSeq, excused, sync, resync, readAt>>
        /\ socket' = "waiting"
    BY <1>16 DEF Disconnect
  <2>2. Remote(Acc)' = Remote(Acc)
    BY <2>1 DEF Remote, Acc, AccountOf
  <2>3. ASSUME NEW i, OnItsWay(i) PROVE OnItsWay(i)'
    BY <2>1, <2>3 DEF OnItsWay
  <2>4. QED
    BY <2>1, <2>2, <2>3 DEF Coming, Live
<1>17. ASSUME NEW a \in Account, SignIn(a) PROVE Coming'
  BY <1>2, <1>17 DEF SignIn
<1>18. CASE SignedOut
  BY <1>3, <1>18 DEF SignedOut, Live
<1>19. CASE Reconnect \/ RemotePush
  BY <1>2, <1>19 DEF Reconnect, RemotePush
<1>20. CASE Uploaded \/ RefreshNow
  <2>1. UNCHANGED <<log, session, accounts, crossed, foreground, lastSeq, excused, readAt, socket, wire>>
    BY <1>20 DEF Uploaded, RefreshNow
  <2>2. UNCHANGED <<sync, resync>> \/ \E write, then : Sync(write, then)
    BY <1>20 DEF Uploaded, RefreshNow
  <2>3. QED
    BY <1>1, <1>2, <2>1, <2>2
<1>21. CASE EnterForeground
  <2>1. CASE session # 0
    BY <1>2, <1>21, <2>1 DEF EnterForeground
  <2>2. CASE session = 0
    BY <1>3, <1>21, <2>2 DEF EnterForeground, Live
  <2>3. QED
    BY <2>1, <2>2
<1>22. CASE EnterBackground \/ Trap \/ Kill
  BY <1>3, <1>22 DEF EnterBackground, Trap, Kill
<1>23. CASE LocalCopy \/ UploadUnauthorized \/ UploadLost \/ SignOut
  BY <1>1, <1>23 DEF LocalCopy, UploadUnauthorized, UploadLost, SignOut
<1>24. CASE UNCHANGED vars
  BY <1>1, <1>24 DEF vars
<1>25. CASE /\ ServePage \/ NextPage \/ LastPage \/ Acknowledged \/ PassUnauthorized \/ PushedClip
               \/ PushAcknowledged \/ PushLost \/ Connect
            /\ ~(Live /\ foreground)
  <2>1. UNCHANGED <<session, crossed, foreground>>
    BY <1>25 DEF ServePage, NextPage, LastPage, Acknowledged, PassUnauthorized, PushedClip,
       PushAcknowledged, PushLost, Connect
  <2>2. QED
    BY <1>3, <1>25, <2>1 DEF Live
<1> QED
  BY <1>5, <1>6, <1>7, <1>8, <1>9, <1>10, <1>11, <1>12, <1>13, <1>14, <1>15, <1>16, <1>17, <1>18,
     <1>19, <1>20, <1>21, <1>22, <1>23, <1>24, <1>25 DEF Next, Server, Tasks, User

(* The clip to show is one the app can read.                               *)
LEMMA LatestReadable ==
  ASSUME TypeOK, Remotes, Passing, Live, latest # 0
  PROVE  Readable(latest)
<1>1. latest \in Remote(Acc) /\ session # 0
  BY DEF Passing, Found, Live
<1>2. QED
  BY <1>1 DEF Remotes, Remote, Readable, Acc

LEMMA ShowingKept ==
  ASSUME Showing, UNCHANGED <<session, crossed, foreground, latest, shown, quiet>>,
         \/ sync'.pc = sync.pc /\ sync'.newest = sync.newest
         \/ sync'.pc # "pushed" /\ sync.pc # "pushed"
  PROVE  Showing'
BY DEF Showing, Live

LEMMA ShowingStep ==
  ASSUME TypeOK, Sessions, Remotes, Passing, Showing, [Next]_vars
  PROVE  Showing'
<1> USE DEF persisted, tasks, history
<1>0. sync \in PassType
  BY Basics
<1>1. CASE UNCHANGED <<session, crossed, foreground, latest, shown, quiet, sync>>
  BY <1>1, ShowingKept
<1>2. ASSUME NEW write, NEW then, Sync(write, then)
      PROVE  \/ UNCHANGED sync /\ sync.pc # "idle"
             \/ sync'.pc = "sent" /\ sync.pc = "idle"
  BY <1>2, SyncDoes DEF Sync
<1>3. ASSUME NEW write, NEW then, Sync(write, then),
             UNCHANGED <<session, crossed, foreground, latest, shown, quiet>>
      PROVE  Showing'
  BY <1>2, <1>3, ShowingKept
<1>4. CASE ~Live'
  BY <1>4 DEF Showing
<1>5. CASE ServePage
  <2>1. sync' = [sync EXCEPT !.pc = "page", !.page = PageAfter(accounts[sync.token], sync.cursor)]
        /\ sync.pc = "sent"
        /\ UNCHANGED <<session, crossed, foreground, latest, shown, quiet>>
    BY <1>5 DEF ServePage
  <2>2. sync'.pc = "page"
    BY <1>0, <2>1 DEF PassType
  <2>3. QED
    BY <2>1, <2>2, ShowingKept
<1>6. CASE NextPage \/ PassLost
  <2>1. UNCHANGED <<session, crossed, foreground, latest, shown, quiet>> /\ sync.pc # "pushed"
    BY <1>6 DEF NextPage, PassLost
  <2>2. \/ PassFails
        \/ sync' = [sync EXCEPT !.pc = "sent", !.cursor = Cursor, !.newest = Newest,
                                !.page = {}, !.token = session]
    BY <1>6 DEF NextPage, PassLost
  <2>3. sync'.pc # "pushed"
    BY <1>0, <2>2, PassFailsDoes DEF PassType
  <2>4. QED
    BY <2>1, <2>3, ShowingKept
<1>7. CASE LastPage /\ Live
  <2>1. UNCHANGED <<session, crossed, foreground, latest>> /\ sync.pc = "page"
    BY <1>7 DEF LastPage
  <2>2. CASE PassFails /\ UNCHANGED <<shown, shownSaved, quiet>>
    BY <2>1, <2>2, PassFailsDoes, ShowingKept
  <2>3. CASE /\ sync' = [sync EXCEPT !.pc = "ack", !.cursor = Cursor, !.newest = Newest,
                                     !.page = {}, !.token = session]
             /\ UNCHANGED <<resync, socket, shown, shownSaved, quiet>>
    <3>1. sync'.pc = "ack"
      BY <1>0, <2>3 DEF PassType
    <3>2. QED
      BY <2>1, <2>3, <3>1, ShowingKept
  <2>4. CASE PassEnds /\ ShowNewest(Newest) /\ ~(Cursor > lastSeq)
    <3>1. /\ lastSeq \in Nat /\ Cursor \in Nat /\ Newest \in Nat
          /\ Newest # 0 => lastSeq < Newest /\ Newest <= Cursor
      <4>1. Newest \in Nat
        <5>1. Newest \in 0..Len(log) /\ Len(log) \in Nat
          BY CursorTypes, Numbers
        <5>2. QED
          BY <5>1
      <4>2. QED
        BY <1>7, <2>1, <4>1, Numbers, Onward DEF Found
    <3>2. Newest = 0
      BY <2>4, <3>1
    <3>3. UNCHANGED <<shown, quiet>>
      BY <2>4, <3>2 DEF ShowNewest
    <3>4. QED
      BY <2>1, <2>4, <3>3, PassEndsDoes, ShowingKept
  <2>5. QED
    BY <1>7, <2>2, <2>3, <2>4 DEF LastPage
<1>8. CASE Acknowledged
  <2>1. /\ UNCHANGED <<session, crossed, foreground>> /\ sync.pc = "ack" /\ PassEnds
        /\ latest' = IF sync.newest = 0 THEN latest ELSE sync.newest
        /\ ShowNewest(sync.newest)
    BY <1>8 DEF Acknowledged
  <2>2. sync'.pc # "pushed"
    BY <2>1, PassEndsDoes
  <2>3. CASE sync.newest = 0
    BY <2>1, <2>2, <2>3, ShowingKept DEF ShowNewest
  <2>4. CASE sync.newest # 0
    <3>1. sync.newest \in Nat
      BY Numbers
    <3>2. foreground => latest' <= shown' \/ quiet'
      <4>1. CASE sync.write /\ foreground
        <5>1. shown' = sync.newest
          BY <2>1, <2>4, <4>1 DEF ShowNewest, Show
        <5>2. QED
          BY <2>1, <2>4, <3>1, <5>1
      <4>2. CASE ~(sync.write /\ foreground)
        <5>1. quiet' = (quiet \/ foreground)
          BY <2>1, <2>4, <4>2 DEF ShowNewest
        <5>2. QED
          BY <5>1
      <4>3. QED
        BY <4>1, <4>2
    <3>3. QED
      BY <2>1, <2>2, <3>2 DEF Showing
  <2>5. QED
    BY <2>3, <2>4
<1>9. CASE PassUnauthorized /\ Live
  <2>1. UNCHANGED <<session, crossed, foreground, latest, shown, quiet>>
        /\ sync' = [sync EXCEPT !.token = session]
    BY <1>9 DEF PassUnauthorized, Live
  <2>2. sync'.pc = sync.pc /\ sync'.newest = sync.newest
    BY <1>0, <2>1 DEF PassType
  <2>3. QED
    BY <2>1, <2>2, ShowingKept
<1>10. CASE PushedClip
  <2>1. UNCHANGED <<session, crossed, foreground, shown, quiet>>
    BY <1>10 DEF PushedClip
  <2>2. CASE UNCHANGED <<sync, latest>>
    BY <1>1, <2>1, <2>2
  <2>3. CASE UNCHANGED latest /\ Sync(foreground, "end")
    BY <1>3, <2>1, <2>3
  <2>4. CASE /\ latest' = Head(wire)
             /\ sync' = [NoPass EXCEPT !.pc = "pushed", !.newest = Head(wire), !.token = session]
    <3>1. sync'.pc = "pushed" /\ sync'.newest = latest'
      BY <2>4 DEF NoPass
    <3>2. QED
      BY <3>1 DEF Showing
  <2>5. QED
    BY <1>10, <2>2, <2>3, <2>4 DEF PushedClip, Defer
<1>11. CASE PushAcknowledged /\ Live
  <2>1. UNCHANGED <<session, crossed, foreground, lastSeq, latest>> /\ sync.pc = "pushed" /\ PushEnds
        /\ IF foreground THEN Show(sync.newest) ELSE UNCHANGED <<shown, shownSaved, quiet>>
    BY <1>11 DEF PushAcknowledged
  <2>2. sync'.pc # "pushed"
    BY <2>1, PushEndsDoes
  <2>3. sync.newest = latest /\ latest \in Nat
    BY <1>11, <2>1, Numbers DEF Showing
  <2>4. foreground => latest' <= shown'
    BY <2>1, <2>3 DEF Show
  <2>5. QED
    BY <2>1, <2>2, <2>4 DEF Showing
<1>12. CASE PushLost
  <2>1. UNCHANGED <<session, crossed, foreground, lastSeq, latest>> /\ PushEnds
        /\ quiet' = (quiet \/ foreground)
    BY <1>12 DEF PushLost
  <2>2. sync'.pc # "pushed"
    BY <2>1, PushEndsDoes
  <2>3. QED
    BY <2>1, <2>2 DEF Showing
<1>13. ASSUME NEW a \in Account, SignIn(a) PROVE Showing'
  <2>1. Sync(foreground, "end") /\ crossed' = (sync.pc # "idle") /\ latest' = 0 /\ UNCHANGED shown
    BY <1>13 DEF SignIn, ClearState
  <2>2. CASE sync.pc # "idle"
    BY <1>4, <2>1, <2>2 DEF Live
  <2>3. CASE sync.pc = "idle"
    <3>1. sync'.pc = "sent" /\ shown \in Nat
      BY <1>2, <2>1, <2>3, Numbers
    <3>2. latest' <= shown'
      BY <2>1, <3>1
    <3>3. QED
      BY <3>1, <3>2 DEF Showing
  <2>4. QED
    BY <2>2, <2>3
<1>14. CASE SignedOut
  BY <1>4, <1>14 DEF SignedOut, Live
<1>15. CASE EnterForeground
  <2>1. UNCHANGED <<session, crossed, latest>>
    BY <1>15 DEF EnterForeground
  <2>2. CASE session = 0
    BY <1>4, <2>1, <2>2 DEF Live
  <2>3. CASE crossed
    BY <1>4, <2>1, <2>3 DEF Live
  <2>4. CASE session # 0 /\ ~crossed
    <3>1. ApplyPersisted /\ Sync(TRUE, "end")
      BY <1>15, <2>4 DEF EnterForeground
    <3>2. latest \in Nat /\ shown \in Nat
      BY Numbers
    <3>3. latest > shown => Readable(latest)
      BY <2>4, <3>2, LatestReadable DEF Live
    <3>4. latest' <= shown'
      BY <2>1, <3>1, <3>2, <3>3 DEF ApplyPersisted, Show
    <3>5. sync'.pc = "pushed" => sync'.newest = sync.newest /\ sync.pc = "pushed"
      BY <1>2, <3>1
    <3>6. QED
      BY <2>1, <2>4, <3>4, <3>5 DEF Showing, Live
  <2>5. QED
    BY <2>2, <2>3, <2>4
<1>16. CASE EnterBackground
  <2>1. UNCHANGED <<session, crossed, latest>> /\ foreground' = FALSE
        /\ sync' \in {sync, [sync EXCEPT !.then = "cancelled"]}
    BY <1>16 DEF EnterBackground
  <2>2. sync'.pc = sync.pc /\ sync'.newest = sync.newest
    BY <1>0, <2>1 DEF PassType
  <2>3. QED
    BY <2>1, <2>2 DEF Showing, Live
<1>17. CASE Trap \/ Kill
  BY <1>17 DEF Trap, Kill, NoPass, Showing
<1>18. CASE Reconnect \/ RemotePush
  <2>1. PICK write, then : Sync(write, then)
    BY <1>18 DEF Reconnect, RemotePush
  <2>2. UNCHANGED <<session, crossed, foreground, latest, shown, quiet>>
    BY <1>18 DEF Reconnect, RemotePush
  <2>3. QED
    BY <1>3, <2>1, <2>2
<1>19. CASE Uploaded \/ RefreshNow
  <2>1. UNCHANGED <<session, crossed, foreground, latest, shown, quiet>>
    BY <1>19 DEF Uploaded, RefreshNow
  <2>2. UNCHANGED sync \/ \E write, then : Sync(write, then)
    BY <1>19 DEF Uploaded, RefreshNow
  <2>3. QED
    BY <1>1, <1>3, <2>1, <2>2
<1>20. CASE (\E a \in Account : RemoteClip(a)) \/ StoreUpload
  BY <1>1, <1>20 DEF RemoteClip, StoreUpload
<1>21. CASE LocalCopy \/ UploadUnauthorized \/ UploadLost \/ Connect \/ Disconnect \/ SignOut
  BY <1>1, <1>21 DEF LocalCopy, UploadUnauthorized, UploadLost, Connect, Disconnect, SignOut
<1>22. CASE UNCHANGED vars
  BY <1>1, <1>22 DEF vars
<1>23. CASE (LastPage \/ PassUnauthorized \/ PushAcknowledged) /\ ~Live
  <2>1. UNCHANGED <<session, crossed>>
    BY <1>23 DEF LastPage, PassUnauthorized, PushAcknowledged
  <2>2. QED
    BY <1>4, <1>23, <2>1 DEF Live
<1> QED
  BY <1>5, <1>6, <1>7, <1>8, <1>9, <1>10, <1>11, <1>12, <1>13, <1>14, <1>15, <1>16, <1>17, <1>18,
     <1>19, <1>20, <1>21, <1>22, <1>23 DEF Next, Server, Tasks, User

-----------------------------------------------------------------------------
LEMMA Beginning ==
  Init => IInv
<1> SUFFICES ASSUME Init PROVE IInv
  OBVIOUS
<1>1. log = <<>> /\ Len(log) = 0 /\ DOMAIN log = {} /\ 0 \in 0..Len(log) /\ log \in Seq(Clip)
  BY DEF Init
<1>2. accounts = <<>> /\ accounts \in Seq(Account) /\ Len(accounts) = 0 /\ DOMAIN accounts = {}
  BY DEF Init
<1>3. /\ PendingCap \in Nat /\ MaxSignIns \in Nat /\ MaxDemands \in Nat /\ MaxMoves \in Nat
      /\ MaxFaults \in Nat
  BY PhoneAssumption
<1>4. queue \in Seq(Copy) /\ queue = <<>> /\ Len(queue) <= PendingCap /\ DOMAIN queue = {}
      /\ wire \in Seq(DOMAIN log) /\ wire = <<>> /\ DOMAIN wire = {}
  BY <1>3 DEF Init
<1>5. flush \in FlushType /\ flush.pc = "idle"
  BY <1>3 DEF Init, NoFlush, FlushType
<1>6. sync \in PassType /\ sync.pc = "idle"
  BY <1>1, <1>3 DEF Init, NoPass, PassType
<1>7. demands \in 0..MaxDemands /\ moves \in 0..MaxMoves /\ faults \in 0..MaxFaults
  BY <1>3 DEF Init
<1>8. TypeOK
  BY <1>1, <1>2, <1>4, <1>5, <1>6, <1>7, TypeIs DEF Init, TypeRest, FlushType, PassType
<1>9. Sessions
  BY <1>2, <1>3, <1>5, <1>6 DEF Init, Sessions
<1>10. Remotes /\ AtHead
  BY <1>1, <1>4, <1>5 DEF Init, Remotes, AtHead, QueueOK, HeadOK, StoredOK
<1>11. Passing /\ Coming /\ Showing
  BY DEF Init, Passing, Coming, Showing, Live
<1> QED
  BY <1>8, <1>9, <1>10, <1>11 DEF IInv

LEMMA Inductive ==
  IInv /\ [Next]_vars => IInv'
<1> SUFFICES ASSUME IInv, [Next]_vars PROVE IInv'
  OBVIOUS
<1>1. TypeOK /\ Sessions /\ Remotes /\ AtHead /\ Passing /\ Coming /\ Showing
  BY DEF IInv
<1>2. TypeOK' /\ Sessions' /\ Remotes'
  BY <1>1, TypeStep, SessionsStep, RemotesStep
<1>3. AtHead'
  BY <1>1, QueueStep, HeadStep, StoredStep DEF AtHead
<1>4. Passing' /\ Coming' /\ Showing'
  BY <1>1, PassingStep, ComingStep, ShowingStep
<1> QED
  BY <1>2, <1>3, <1>4 DEF IInv

LEMMA Always ==
  Spec => []IInv
<1>1. QED
  BY Beginning, Inductive, PTL DEF Spec

(* Every variable of the phone keeps its type, whatever it answers to.     *)
THEOREM TypeCorrect ==
  Spec => []TypeOK
<1>1. IInv => TypeOK
  BY DEF IInv
<1>2. QED
  BY <1>1, Always, PTL

(* The clip that is saved is the newest of other devices up to the cursor: *)
(* no clip is passed that was not the one to show (AppModel.swift:385-391).*)
THEOREM LatestIsOfCursor ==
  Spec => []LatestOfCursor
<1>1. ASSUME IInv PROVE LatestOfCursor
  <2> SUFFICES ASSUME Live
               PROVE  latest = Max({0} \union {i \in Remote(Acc) : i <= lastSeq})
    BY DEF LatestOfCursor, Live, Acc
  <2> DEFINE seen == {0} \union {i \in Remote(Acc) : i <= lastSeq}
  <2>1. Found(0, latest, lastSeq)
    BY <1>1 DEF IInv, Passing
  <2>2. latest \in Nat /\ \A i \in Remote(Acc) : i \in Nat /\ i > 0
    BY <1>1, Numbers DEF IInv
  <2>3. seen \in SUBSET Nat /\ latest \in seen /\ \A i \in seen : i <= latest
    BY <2>1, <2>2 DEF Found
  <2>4. QED
    BY <2>3, MaxIs
<1>2. QED
  BY <1>1, Always, PTL

(* A connected phone at rest lacks a clip only if a pass failed or if the  *)
(* clip came before its connection (AppModel.swift:415-455).               *)
THEOREM NothingElseMissed ==
  Spec => []OnlyBetweenMissed
<1>1. ASSUME IInv PROVE OnlyBetweenMissed
  <2> SUFFICES ASSUME Settled, ~crossed, NEW i \in Remote(Acc)
               PROVE  i <= lastSeq \/ i \in excused
    BY DEF OnlyBetweenMissed, Acc
  <2>1. OnItsWay(i)
    BY <1>1 DEF IInv, Coming, Live, Settled
  <2>2. sync.pc = "idle" /\ socket = "open" /\ DOMAIN wire = {}
    BY DEF Settled
  <2>3. QED
    BY <2>1, <2>2 DEF OnItsWay
<1>2. QED
  BY <1>1, Always, PTL

(* In the foreground, with no pass under way, the newest clip is shown, or *)
(* a pass that may not write or a lost acknowledgement kept it.            *)
THEOREM NewestIsShown ==
  Spec => []NewestShown
<1>1. IInv => NewestShown
  BY DEF IInv, Showing, NewestShown, Live
<1>2. QED
  BY <1>1, Always, PTL

(* The queue of a session loses its head only to the server, unless it was *)
(* displaced under an upload.                                              *)
THEOREM CopiesAreKept ==
  Spec => CopyKept
<1>1. ASSUME IInv, [Next]_vars, Len(queue') < Len(queue), session' = session, ~displaced
      PROVE  \E i \in DOMAIN log : log[i].origin = "me" /\ log[i].id = Head(queue).id
  <2> USE DEF persisted
  <2>1. TypeOK /\ Sessions /\ HeadOK /\ StoredOK
    BY <1>1 DEF IInv, AtHead
  <2>2. Len(queue) \in Nat
    BY <2>1, TypeIs DEF TypeRest
  <2>3. CASE UNCHANGED queue
    BY <1>1, <2>2, <2>3
  <2>4. CASE Uploaded
    <3>1. flush.pc = "stored"
      BY <2>4 DEF Uploaded
    <3>2. flush.copy = Head(queue)
      BY <1>1, <2>1, <3>1 DEF HeadOK
    <3>3. QED
      BY <2>1, <3>1, <3>2 DEF StoredOK
  <2>5. CASE LocalCopy
    <3>1. Len(queue') >= Len(queue) /\ Len(queue') \in Nat
      BY <2>1, <2>5, CopyAdded
    <3>2. QED
      BY <1>1, <2>2, <3>1
  <2>6. CASE SignedOut
    <3>1. session # 0 /\ session' = 0
      BY <2>1, <2>6 DEF SignedOut, Sessions
    <3>2. QED
      BY <1>1, <3>1
  <2>7. ASSUME NEW a \in Account, SignIn(a) PROVE FALSE
    <3>1. session = 0 /\ accounts' = Append(accounts, a) /\ session' = Len(accounts')
      BY <2>7 DEF SignIn
    <3>2. accounts \in Seq(Account)
      BY <2>1, TypeIs DEF TypeRest
    <3>3. Len(accounts') = Len(accounts) + 1 /\ Len(accounts) \in Nat
      BY <3>1, <3>2, Appended
    <3>4. QED
      BY <1>1, <3>1, <3>3
  <2>8. CASE Server
    BY <2>3, <2>8 DEF Server, RemoteClip, StoreUpload, ServePage
  <2>9. CASE Trap \/ UploadUnauthorized \/ UploadLost \/ RefreshNow
    BY <2>3, <2>9 DEF Trap, UploadUnauthorized, UploadLost, RefreshNow
  <2>10. CASE NextPage \/ LastPage \/ Acknowledged \/ PassUnauthorized \/ PassLost
    BY <2>3, <2>10 DEF NextPage, LastPage, Acknowledged, PassUnauthorized, PassLost
  <2>11. CASE PushedClip \/ PushAcknowledged \/ PushLost \/ Connect \/ Reconnect \/ Disconnect
    BY <2>3, <2>11 DEF PushedClip, PushAcknowledged, PushLost, Connect, Reconnect, Disconnect
  <2>12. CASE SignOut \/ EnterForeground \/ EnterBackground \/ Kill \/ RemotePush
    BY <2>3, <2>12 DEF SignOut, EnterForeground, EnterBackground, Kill, RemotePush
  <2>13. CASE UNCHANGED vars
    BY <2>3, <2>13 DEF vars
  <2> QED
    BY <1>1, <2>4, <2>5, <2>6, <2>7, <2>8, <2>9, <2>10, <2>11, <2>12, <2>13 DEF Next, Tasks, User
<1>2. ASSUME IInv, [Next]_vars
      PROVE  [Len(queue') < Len(queue) /\ session' = session =>
                \/ displaced
                \/ \E i \in DOMAIN log : log[i].origin = "me" /\ log[i].id = Head(queue).id]_vars
  BY <1>1, <1>2
<1>3. QED
  BY <1>2, Always, PTL DEF CopyKept, Spec

(* What is uploaded is readable where it is stored: its key is that of the *)
(* account, unless the session was replaced under the upload.              *)
THEOREM UploadsAreReadable ==
  Spec => OwnStream
<1>1. ASSUME IInv, [Next]_vars, Len(log') > Len(log), ~displaced
      PROVE  log'[Len(log')].key = log'[Len(log')].account
  <2>1. TypeOK /\ Sessions /\ QueueOK /\ HeadOK
    BY <1>1 DEF IInv, AtHead
  <2>2. Len(log) \in Nat
    BY <2>1, Numbers
  <2>3. ASSUME NEW c \in Clip, log' = Append(log, c)
        PROVE  log'[Len(log')] = c
    <3>1. Len(log') = Len(log) + 1 /\ log'[Len(log) + 1] = c
      BY <2>1, <2>3, Grown
    <3>2. QED
      BY <3>1
  <2>4. CASE UNCHANGED log
    BY <1>1, <2>2, <2>4
  <2>5. ASSUME NEW a \in Account,
               [account |-> a, key |-> a, origin |-> "other", id |-> 0] \in Clip,
               log' = Append(log, [account |-> a, key |-> a, origin |-> "other", id |-> 0])
        PROVE  log'[Len(log')].key = log'[Len(log')].account
    <3>1. log'[Len(log')] = [account |-> a, key |-> a, origin |-> "other", id |-> 0]
      BY <2>3, <2>5
    <3>2. QED
      BY <3>1
  <2>6. ASSUME NEW c \in Clip, StoreUpload, log' = Append(log, c),
               c.account = accounts[flush.token], c.key = flush.copy.key
        PROVE  log'[Len(log')].key = log'[Len(log')].account
    <3>1. session # 0 /\ flush.token = session /\ queue # <<>> /\ flush.copy = Head(queue)
      BY <1>1, <2>1, <2>6 DEF StoreUpload, HeadOK
    <3>2. queue \in Seq(Copy)
      BY <2>1, TypeIs DEF TypeRest
    <3>3. 1 \in DOMAIN queue /\ Head(queue) = queue[1]
      BY <3>1, <3>2, TailElements
    <3>4. flush.copy.key = accounts[session]
      BY <2>1, <3>1, <3>3 DEF QueueOK, Acc, AccountOf
    <3>5. QED
      BY <2>3, <2>6, <3>1, <3>4
  <2>7. QED
    BY <1>1, <2>1, <2>4, <2>5, <2>6, LogStep
<1>2. ASSUME IInv, [Next]_vars
      PROVE  [Len(log') > Len(log) =>
                displaced \/ log'[Len(log')].key = log'[Len(log')].account]_vars
  BY <1>1, <1>2
<1>3. QED
  BY <1>2, Always, PTL DEF OwnStream, Spec
=============================================================================
