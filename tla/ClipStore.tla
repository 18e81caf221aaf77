----------------------------- MODULE ClipStore -----------------------------
(***************************************************************************)
(* The clip tables of the server (server/internal/store/clips.go): the     *)
(* upload transaction of CreateClip, one step per statement, run by        *)
(* several request handlers at once under PostgreSQL's READ COMMITTED, and *)
(* the hourly Cleanup with its two DELETE statements.                      *)
(*                                                                         *)
(* Abstractions: a payload stands for its SHA-256 digest; an event_id is   *)
(* the sequence number drawn with it, since each transaction draws one of  *)
(* each; the server's clock and the database's are one clock, `now`.       *)
(***************************************************************************)
EXTENDS Integers, FiniteSets

CONSTANTS
  Device,          \* devices, each of one user
  EventId,         \* client_event_id values the devices choose
  Body,            \* payloads
  Handler,         \* concurrent request handlers
  ClipTTL,         \* FASTCOPY_CLIP_TTL
  IdempotencyTTL,  \* FASTCOPY_IDEMPOTENCY_TTL
  RequestLimit,    \* longest time an upload transaction stays open
  MaxSeq,          \* bound of the model: sequence numbers drawn
  MaxNow           \* bound of the model: the last instant

\* config.go refuses IdempotencyTTL < ClipTTL. That a transaction ends before
\* its clip expires (7 days by default) is assumed of the environment.
ASSUME TTLAssumption ==
  /\ ClipTTL \in Nat /\ IdempotencyTTL \in Nat /\ RequestLimit \in Nat
  /\ IdempotencyTTL >= ClipTTL
  /\ RequestLimit < ClipTTL

ASSUME BoundAssumption == MaxSeq \in Nat /\ MaxNow \in Nat

VARIABLES
  now,      \* the clock
  lastSeq,  \* clipboard_event_seq; nextval is never rolled back
  idem,     \* committed rows of clip_idempotency
  events,   \* committed rows of clipboard_events
  tx,       \* each handler's upload transaction, or how its last one ended
  sweep     \* Cleanup: the expired clips its first DELETE has locked

vars == <<now, lastSeq, idem, events, tx, sweep>>

Row == [seq : 1..MaxSeq, origin : Device, cid : EventId, body : Body,
        expires : Nat]

Open == {"begun", "claimed", "stored", "conflict", "found"}
Accepted == {"created", "already_created"}
Closed == {"idle", "reused", "error"} \union Accepted

Tx == [pc : Open \union Accepted, seq : 1..MaxSeq, origin : Device,
       cid : EventId, body : Body, at : Nat, answer : 1..MaxSeq]

NoSweep == [on |-> FALSE, at |-> 0, doomed |-> {}]

TypeOK ==
  /\ now \in Nat
  /\ lastSeq \in 0..MaxSeq
  /\ idem \subseteq Row
  /\ events \subseteq Row
  /\ tx \in [Handler -> Tx \union [pc : Closed \ Accepted]]
  /\ sweep \in [on : BOOLEAN, at : Nat, doomed : SUBSET (1..MaxSeq)]

Init ==
  /\ now = 0
  /\ lastSeq = 0
  /\ idem = {}
  /\ events = {}
  /\ tx = [h \in Handler |-> [pc |-> "idle"]]
  /\ sweep = NoSweep

SameUpload(x, y) == x.origin = y.origin /\ x.cid = y.cid

RowOf(t, ttl) == [seq |-> t.seq, origin |-> t.origin, cid |-> t.cid,
                  body |-> t.body, expires |-> t.at + ttl]

HoldsClaim(h) == tx[h].pc \in {"claimed", "stored"}

Receipts(t) == {r \in idem : SameUpload(r, t)}

Goto(h, pc) == tx' = [tx EXCEPT ![h].pc = pc]

Refuse(h, pc) == tx' = [tx EXCEPT ![h] = [pc |-> pc]]

-----------------------------------------------------------------------------
(* `now` is read, the transaction begins and nextval draws its number.     *)
BeginClip(h, d, c, b) ==
  /\ tx[h].pc \in Closed
  /\ lastSeq < MaxSeq
  /\ lastSeq' = lastSeq + 1
  /\ tx' = [tx EXCEPT ![h] = [pc |-> "begun", seq |-> lastSeq + 1, origin |-> d,
                              cid |-> c, body |-> b, at |-> now,
                              answer |-> lastSeq + 1]]
  /\ UNCHANGED <<now, idem, events, sweep>>

\* Mutant: the INSERT does not wait.
ClaimNeverWaits(h) == TRUE

\* Mutant: it waits for every open transaction of the same upload.
ClaimWaitsForAll(h) ==
  \A g \in Handler \ {h} : tx[g].pc \in Open => ~SameUpload(tx[g], tx[h])

(* INSERT INTO clip_idempotency ... ON CONFLICT DO NOTHING. It waits for a *)
(* transaction that has inserted the same key and not ended yet.           *)
ClaimFree(h) ==
  \A g \in Handler \ {h} : HoldsClaim(g) => ~SameUpload(tx[g], tx[h])

ClaimEvent(h) ==
  /\ tx[h].pc = "begun"
  /\ ClaimFree(h)
  /\ Goto(h, IF Receipts(tx[h]) = {} THEN "claimed" ELSE "conflict")
  /\ UNCHANGED <<now, lastSeq, idem, events, sweep>>

(* INSERT INTO clipboard_events. A stored row of the same upload violates  *)
(* UNIQUE (origin_device_id, client_event_id), unless Cleanup is deleting  *)
(* it, in which case the INSERT waits.                                     *)
Clashing(t) == {e \in events : SameUpload(e, t) \/ e.seq = t.seq}

StoreEvent(h) ==
  /\ tx[h].pc = "claimed"
  /\ \A e \in Clashing(tx[h]) : e.seq \notin sweep.doomed
  /\ IF Clashing(tx[h]) = {} THEN Goto(h, "stored") ELSE Refuse(h, "error")
  /\ UNCHANGED <<now, lastSeq, idem, events, sweep>>

\* Mutant: the clip is stored without its idempotency row.
CommitWithoutReceipt(h) ==
  /\ tx[h].pc = "stored"
  /\ events' = events \union {RowOf(tx[h], ClipTTL)}
  /\ Goto(h, "created")
  /\ UNCHANGED <<now, lastSeq, idem, sweep>>

(* The origin's name is read and the transaction commits: status "created" *)
CommitClip(h) ==
  /\ tx[h].pc = "stored"
  /\ idem' = idem \union {RowOf(tx[h], IdempotencyTTL)}
  /\ events' = events \union {RowOf(tx[h], ClipTTL)}
  /\ Goto(h, "created")
  /\ UNCHANGED <<now, lastSeq, sweep>>

\* Mutant: the digest is not compared.
ReadReceiptOnly(h) ==
  /\ tx[h].pc = "conflict"
  /\ \/ Receipts(tx[h]) = {} /\ Refuse(h, "error")
     \/ \E r \in Receipts(tx[h]) : tx' = [tx EXCEPT ![h].pc = "found", ![h].answer = r.seq]
  /\ UNCHANGED <<now, lastSeq, idem, events, sweep>>

(* The duplicate's path reads the first upload's receipt. Cleanup may have *)
(* removed it in between (pgx.ErrNoRows, an internal error).               *)
ReadReceipt(h) ==
  /\ tx[h].pc = "conflict"
  /\ \/ /\ Receipts(tx[h]) = {}
        /\ Refuse(h, "error")
     \/ \E r \in Receipts(tx[h]) :
          IF r.body = tx[h].body
          THEN tx' = [tx EXCEPT ![h].pc = "found", ![h].answer = r.seq]
          ELSE Refuse(h, "reused")
  /\ UNCHANGED <<now, lastSeq, idem, events, sweep>>

(* clipByIdentity, which answers with the bare identity when the clip has  *)
(* expired, and COMMIT.                                                    *)
AnswerDuplicate(h) ==
  /\ tx[h].pc = "found"
  /\ Goto(h, "already_created")
  /\ UNCHANGED <<now, lastSeq, idem, events, sweep>>

(* The context is cancelled, the connection fails or the server stops: the *)
(* deferred Rollback discards the transaction, but not the drawn number.   *)
RollbackClip(h) ==
  /\ tx[h].pc \in Open
  /\ Refuse(h, "error")
  /\ UNCHANGED <<now, lastSeq, idem, events, sweep>>

-----------------------------------------------------------------------------
(* Cleanup runs two DELETEs as one implicit transaction: one now(), a new  *)
(* snapshot per statement, one commit.                                     *)
SweepEvents ==
  /\ ~sweep.on
  /\ sweep' = [on |-> TRUE, at |-> now,
               doomed |-> {e.seq : e \in {x \in events : x.expires <= now}}]
  /\ UNCHANGED <<now, lastSeq, idem, events, tx>>

\* Mutant: only receipts are deleted.
SweepReceiptsOnly ==
  /\ sweep.on
  /\ idem' = {r \in idem : r.expires > sweep.at}
  /\ sweep' = NoSweep
  /\ UNCHANGED <<now, lastSeq, events, tx>>

\* Mutant: a clip's receipt is deleted along with it.
SweepReceiptWithClip ==
  /\ sweep.on
  /\ events' = {e \in events : e.seq \notin sweep.doomed}
  /\ idem' = {r \in idem : r.seq \notin sweep.doomed}
  /\ sweep' = NoSweep
  /\ UNCHANGED <<now, lastSeq, tx>>

SweepReceipts ==
  /\ sweep.on
  /\ events' = {e \in events : e.seq \notin sweep.doomed}
  /\ idem' = {r \in idem : r.expires > sweep.at}
  /\ sweep' = NoSweep
  /\ UNCHANGED <<now, lastSeq, tx>>

(* The cleanup's context expires after a minute: everything is rolled back *)
SweepFails ==
  /\ sweep.on
  /\ sweep' = NoSweep
  /\ UNCHANGED <<now, lastSeq, idem, events, tx>>

Tick ==
  /\ now < MaxNow
  /\ \A h \in Handler : tx[h].pc \in Open => now < tx[h].at + RequestLimit
  /\ now' = now + 1
  /\ UNCHANGED <<lastSeq, idem, events, tx, sweep>>

Handle(h) ==
  \/ ClaimEvent(h) \/ StoreEvent(h) \/ CommitClip(h)
  \/ ReadReceipt(h) \/ AnswerDuplicate(h)

Next ==
  \/ \E h \in Handler, d \in Device, c \in EventId, b \in Body : BeginClip(h, d, c, b)
  \/ \E h \in Handler : Handle(h) \/ RollbackClip(h)
  \/ SweepEvents \/ SweepReceipts \/ SweepFails
  \/ Tick

Spec == Init /\ [][Next]_vars

(* A handler's goroutine runs to its end, and so does the cleanup: both    *)
(* are ordinary goroutines blocked only on the database.                   *)
Fairness ==
  /\ \A h \in Handler : WF_vars(Handle(h))
  /\ WF_vars(SweepReceipts \/ SweepFails)

FairSpec == Spec /\ Fairness

-----------------------------------------------------------------------------
(* Every clip readers can fetch still has the receipt that recognises a    *)
(* retry of it, with the same number and payload: CreateClip inserts both, *)
(* and Cleanup must never drop the receipt first (config.go rejects an     *)
(* IDEMPOTENCY_TTL below CLIP_TTL for this).                               *)
ClipHasReceipt ==
  \A e \in events :
    \E r \in idem : /\ SameUpload(r, e)
                    /\ r.seq = e.seq
                    /\ r.body = e.body
                    /\ r.expires >= e.expires

(* A handler that has won the idempotency row never meets the UNIQUE       *)
(* constraint of clipboard_events, so an upload is not answered with an    *)
(* internal error because of an earlier clip (clips.go, "insert clip").    *)
ClaimNeverClashes ==
  \A h \in Handler : tx[h].pc = "claimed" => Clashing(tx[h]) = {}

(* The position an accepted upload is answered with is never that of a     *)
(* clip with another origin, id or payload: a retry gets the number of its *)
(* first attempt, and a reused id with another payload is refused.         *)
AnswerIsTheUpload ==
  \A h \in Handler : tx[h].pc \in {"found", "already_created", "created"} =>
    \A r \in idem \union events :
      r.seq = tx[h].answer => SameUpload(r, tx[h]) /\ r.body = tx[h].body

(* Within IDEMPOTENCY_TTL of a clip's creation no second clip is created   *)
(* for the same upload, and what was promised for that long is not dropped *)
(* earlier: however many retries race, a client event becomes one clip.    *)
OneClipPerWindow ==
  [][/\ \A e \in events' \ events : \A r \in idem : ~SameUpload(r, e)
     /\ \A r \in idem \ idem' : r.expires <= now]_vars

(* No request waits for ever on another one's idempotency row.             *)
UploadsAnswered ==
  \A h \in Handler : tx[h].pc \in Open ~> tx[h].pc \in Closed

(* Numbers that no clip will take any more: drawn, and not held by an open *)
(* transaction that may still store one.                                   *)
MayStore(h) == tx[h].pc \in {"begun", "claimed", "stored"}

Spent == {s \in 1..lastSeq : \A h \in Handler : MayStore(h) => tx[h].seq # s}

AsEntry(r) == [seq |-> r.seq, origin |-> r.origin, cid |-> r.cid, body |-> r.body]

Log == INSTANCE ClipLog WITH
         Position <- 1..MaxSeq,
         log <- {AsEntry(e) : e \in events},
         receipts <- {AsEntry(r) : r \in idem},
         spent <- Spent

(* The tables, the transactions and the cleanup implement the abstract log *)
ImplementsClipLog == Log!Spec
=============================================================================
