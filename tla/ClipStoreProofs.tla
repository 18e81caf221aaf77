-------------------------- MODULE ClipStoreProofs --------------------------
(***************************************************************************)
(* Proofs about ClipStore, for every number of devices, handlers, uploads, *)
(* payloads and instants, and for all TTLs the configuration admits.       *)
(*                                                                         *)
(* None of the properties is inductive by itself. What carries them: an    *)
(* open transaction that still may store a clip owns its number (Fresh),   *)
(* one that won the idempotency row owns its key (Claims), none is older   *)
(* than RequestLimit (Timely), and the cleanup removes a receipt only      *)
(* together with its clip (Sweeping).                                      *)
(***************************************************************************)
EXTENDS ClipStore, TLAPS

Typed(h) == tx[h].pc \in Open \union Accepted

(* Receipts have one row per upload and one per number. *)
Keys ==
  \A r, s \in idem : (SameUpload(r, s) \/ r.seq = s.seq) => r = s

(* Numbers in use were drawn, and a storing transaction's is its own.      *)
Fresh ==
  /\ \A r \in idem : r.seq <= lastSeq
  /\ \A h \in Handler : Typed(h) => tx[h].seq <= lastSeq /\ tx[h].answer <= lastSeq
  /\ \A h \in Handler : MayStore(h) =>
       /\ tx[h].answer = tx[h].seq
       /\ \A r \in idem : r.seq # tx[h].seq
       /\ \A g \in Handler : Typed(g) /\ g # h => tx[g].answer # tx[h].seq

(* The holder of an idempotency row that is not committed yet is alone.    *)
Claims ==
  \A h \in Handler : HoldsClaim(h) =>
    /\ \A r \in idem : ~SameUpload(r, tx[h])
    /\ \A g \in Handler \ {h} : HoldsClaim(g) => ~SameUpload(tx[g], tx[h])

(* No transaction outlives RequestLimit.                                   *)
Timely ==
  \A h \in Handler : tx[h].pc \in Open => now <= tx[h].at + RequestLimit

(* A sweep under way removes every clip that had expired when it began.    *)
Sweeping ==
  sweep.on => /\ sweep.at <= now
              /\ \A e \in events : e.expires <= sweep.at => e.seq \in sweep.doomed

IInv ==
  /\ TypeOK
  /\ Keys
  /\ Fresh
  /\ Claims
  /\ Timely
  /\ Sweeping
  /\ ClipHasReceipt
  /\ AnswerIsTheUpload

-----------------------------------------------------------------------------
(* An open or accepted transaction is a full record.                       *)
LEMMA TypedTx ==
  ASSUME TypeOK, NEW h \in Handler, Typed(h)
  PROVE  tx[h] \in Tx
BY DEF TypeOK, Typed, Tx, Open, Closed, Accepted

(* The type invariant holds in every reachable state.                      *)
LEMMA TypeStep ==
  ASSUME TypeOK, [Next]_vars
  PROVE  TypeOK'
<1> USE TTLAssumption, BoundAssumption DEF TypeOK
<1>1. ASSUME NEW h \in Handler, NEW d \in Device, NEW c \in EventId, NEW b \in Body,
             BeginClip(h, d, c, b)
      PROVE  TypeOK'
  <2>1. lastSeq + 1 \in 1..MaxSeq
    BY <1>1 DEF BeginClip
  <2>2. [pc |-> "begun", seq |-> lastSeq + 1, origin |-> d, cid |-> c, body |-> b,
         at |-> now, answer |-> lastSeq + 1] \in Tx
    BY <2>1 DEF Tx, Open, Accepted
  <2>3. QED
    BY <1>1, <2>1, <2>2 DEF BeginClip
<1>2. ASSUME NEW h \in Handler, ClaimEvent(h) PROVE TypeOK'
  <2>1. tx[h] \in Tx
    BY <1>2, TypedTx DEF ClaimEvent, Typed, Open
  <2>2. [tx[h] EXCEPT !.pc = IF Receipts(tx[h]) = {} THEN "claimed" ELSE "conflict"] \in Tx
    BY <2>1 DEF Tx, Open
  <2>3. QED
    BY <1>2, <2>2 DEF ClaimEvent, Goto
<1>3. ASSUME NEW h \in Handler, StoreEvent(h) PROVE TypeOK'
  <2>1. tx[h] \in Tx
    BY <1>3, TypedTx DEF StoreEvent, Typed, Open
  <2>2. [tx[h] EXCEPT !.pc = "stored"] \in Tx
    BY <2>1 DEF Tx, Open
  <2>3. [pc |-> "error"] \in [pc : Closed \ Accepted]
    BY DEF Closed, Accepted
  <2>4. QED
    BY <1>3, <2>2, <2>3 DEF StoreEvent, Goto, Refuse
<1>4. ASSUME NEW h \in Handler, CommitClip(h) PROVE TypeOK'
  <2>1. tx[h] \in Tx
    BY <1>4, TypedTx DEF CommitClip, Typed, Open
  <2>2. [tx[h] EXCEPT !.pc = "created"] \in Tx
    BY <2>1 DEF Tx, Accepted
  <2>3. RowOf(tx[h], IdempotencyTTL) \in Row /\ RowOf(tx[h], ClipTTL) \in Row
    BY <2>1 DEF RowOf, Row, Tx
  <2>4. QED
    BY <1>4, <2>2, <2>3 DEF CommitClip, Goto
<1>5. ASSUME NEW h \in Handler, ReadReceipt(h) PROVE TypeOK'
  <2>1. tx[h] \in Tx
    BY <1>5, TypedTx DEF ReadReceipt, Typed, Open
  <2>2. \A r \in idem : [tx[h] EXCEPT !.pc = "found", !.answer = r.seq] \in Tx
    BY <2>1 DEF Tx, Open, Row
  <2>3. [pc |-> "error"] \in [pc : Closed \ Accepted] /\ [pc |-> "reused"] \in [pc : Closed \ Accepted]
    BY DEF Closed, Accepted
  <2>4. UNCHANGED <<now, lastSeq, idem, events, sweep>>
    BY <1>5 DEF ReadReceipt
  <2>5. CASE Refuse(h, "error") \/ Refuse(h, "reused")
    BY <2>3, <2>4, <2>5 DEF Refuse
  <2>6. ASSUME NEW r \in idem, tx' = [tx EXCEPT ![h].pc = "found", ![h].answer = r.seq]
        PROVE  TypeOK'
    <3>1. tx' = [tx EXCEPT ![h] = [tx[h] EXCEPT !.pc = "found", !.answer = r.seq]]
      BY <2>1, <2>6 DEF Tx
    <3>2. QED
      BY <2>2, <2>4, <3>1
  <2>7. QED
    BY <1>5, <2>5, <2>6 DEF ReadReceipt, Receipts
<1>6. ASSUME NEW h \in Handler, AnswerDuplicate(h) PROVE TypeOK'
  <2>1. tx[h] \in Tx
    BY <1>6, TypedTx DEF AnswerDuplicate, Typed, Open
  <2>2. [tx[h] EXCEPT !.pc = "already_created"] \in Tx
    BY <2>1 DEF Tx, Accepted
  <2>3. QED
    BY <1>6, <2>2 DEF AnswerDuplicate, Goto
<1>7. ASSUME NEW h \in Handler, RollbackClip(h) PROVE TypeOK'
  <2>1. [pc |-> "error"] \in [pc : Closed \ Accepted]
    BY DEF Closed, Accepted
  <2>2. QED
    BY <1>7, <2>1 DEF RollbackClip, Refuse
<1>8. CASE SweepEvents
  BY <1>8 DEF SweepEvents, Row
<1>9. CASE SweepReceipts \/ SweepFails
  <2>1. NoSweep \in [on : BOOLEAN, at : Nat, doomed : SUBSET (1..MaxSeq)]
    BY DEF NoSweep
  <2>2. QED
    BY <1>9, <2>1 DEF SweepReceipts, SweepFails
<1>10. CASE Tick
  BY <1>10 DEF Tick
<1>11. CASE UNCHANGED vars
  BY <1>11 DEF vars
<1>12. QED
  BY <1>1, <1>2, <1>3, <1>4, <1>5, <1>6, <1>7, <1>8, <1>9, <1>10, <1>11 DEF Next, Handle

-----------------------------------------------------------------------------
(* The strengthened invariant is inductive.                                *)
LEMMA IInvInit == Init => IInv
<1> SUFFICES ASSUME Init PROVE IInv
  OBVIOUS
<1>1. TypeOK
  <2>1. [pc |-> "idle"] \in [pc : Closed \ Accepted]
    BY DEF Closed, Accepted
  <2>2. NoSweep \in [on : BOOLEAN, at : Nat, doomed : SUBSET (1..MaxSeq)]
    BY DEF NoSweep
  <2>3. QED
    BY <2>1, <2>2, BoundAssumption DEF Init, TypeOK
<1>2. \A h \in Handler : tx[h].pc = "idle"
  BY DEF Init
<1>3. QED
  BY <1>1, <1>2 DEF Init, IInv, Keys, Fresh, Claims, Timely, Sweeping, ClipHasReceipt,
     AnswerIsTheUpload, Typed, MayStore, HoldsClaim, Open, Accepted, NoSweep

(* A step of one handler that stores nothing: its transaction keeps its    *)
(* number and upload, or ends. What such a step may do to the invariant.   *)
LEMMA QuietStep ==
  ASSUME IInv, TypeOK', NEW h \in Handler, Typed(h),
         UNCHANGED <<now, lastSeq, idem, events, sweep>>,
         \A g \in Handler \ {h} : tx'[g] = tx[g],
         Typed(h)' => /\ tx'[h].seq = tx[h].seq
                      /\ tx'[h].origin = tx[h].origin
                      /\ tx'[h].cid = tx[h].cid
                      /\ tx'[h].body = tx[h].body
                      /\ tx'[h].at = tx[h].at,
         (tx[h].pc \in Open)' => tx[h].pc \in Open,
         MayStore(h)' => MayStore(h) /\ tx'[h].answer = tx[h].answer,
         HoldsClaim(h)' => HoldsClaim(h) \/ (Receipts(tx[h]) = {} /\ ClaimFree(h)),
         Typed(h)' => \/ tx'[h].answer = tx[h].answer
                      \/ \E r \in idem : tx'[h].answer = r.seq,
         (tx[h].pc \in {"found", "already_created", "created"})' =>
            \/ /\ tx[h].pc \in {"found", "already_created", "created"}
               /\ tx'[h].answer = tx[h].answer
            \/ \E r \in idem : /\ tx'[h].answer = r.seq
                               /\ SameUpload(r, tx[h])
                               /\ r.body = tx[h].body
  PROVE  IInv'
<1> USE DEF IInv
<1>1. Keys'
  BY DEF Keys, SameUpload
<1>2. Fresh'
  BY DEF Fresh, Typed, MayStore, Open, Accepted
<1>3. Claims'
  BY DEF Claims, HoldsClaim, Receipts, ClaimFree, SameUpload, Typed, Open, Accepted
<1>4. Timely'
  BY DEF Timely, Typed, Open
<1>5. Sweeping' /\ ClipHasReceipt'
  BY DEF Sweeping, ClipHasReceipt, SameUpload
<1>6. AnswerIsTheUpload'
  BY DEF AnswerIsTheUpload, SameUpload, Keys, ClipHasReceipt, Typed, Accepted, Open
<1>7. QED
  BY <1>1, <1>2, <1>3, <1>4, <1>5, <1>6

LEMMA IInvStep == IInv /\ [Next]_vars => IInv'
<1> SUFFICES ASSUME IInv, [Next]_vars PROVE IInv'
  OBVIOUS
<1>0. TypeOK /\ TypeOK'
  BY TypeStep DEF IInv
<1>1. ASSUME NEW h \in Handler, NEW d \in Device, NEW c \in EventId, NEW b \in Body,
             BeginClip(h, d, c, b)
      PROVE  IInv'
  <2> DEFINE s == lastSeq + 1
  <2>1. /\ tx'[h] = [pc |-> "begun", seq |-> s, origin |-> d, cid |-> c, body |-> b,
                     at |-> now, answer |-> s]
        /\ \A g \in Handler \ {h} : tx'[g] = tx[g]
        /\ lastSeq' = s
        /\ UNCHANGED <<now, idem, events, sweep>>
    BY <1>0, <1>1 DEF BeginClip, TypeOK
  <2>2. lastSeq \in Nat /\ now \in Nat /\ RequestLimit \in Nat
    BY <1>0, BoundAssumption, TTLAssumption DEF TypeOK
  <2>3. Keys' /\ Sweeping' /\ ClipHasReceipt'
    BY <2>1 DEF IInv, Keys, Sweeping, ClipHasReceipt, SameUpload
  <2>4. \A g \in Handler : Typed(g) => tx[g] \in Tx
    BY <1>0, TypedTx
  <2>5. \A r \in idem : r.seq \in Nat /\ r.seq <= lastSeq
    BY <1>0 DEF IInv, Fresh, TypeOK, Row
  <2>6. Fresh'
    <3>1. \A g \in Handler : Typed(g) => /\ tx[g].seq \in Nat /\ tx[g].seq <= lastSeq
                                         /\ tx[g].answer \in Nat /\ tx[g].answer <= lastSeq
      BY <2>4 DEF IInv, Fresh, Tx
    <3>2. s \in Nat /\ s > lastSeq
      BY <2>2
    <3>3. QED
      BY <2>1, <2>2, <2>5, <3>1, <3>2 DEF IInv, Fresh, Typed, MayStore, Open, Accepted
  <2>7. Claims'
    BY <2>1 DEF IInv, Claims, HoldsClaim, SameUpload
  <2>8. Timely'
    BY <2>1, <2>2 DEF IInv, Timely, Open
  <2>9. AnswerIsTheUpload'
    BY <2>1 DEF IInv, AnswerIsTheUpload, SameUpload
  <2>10. QED
    BY <1>0, <2>3, <2>6, <2>7, <2>8, <2>9 DEF IInv
<1>2. ASSUME NEW h \in Handler, ClaimEvent(h) PROVE IInv'
  <2>1. Typed(h) /\ MayStore(h) /\ tx[h] \in Tx
    BY <1>0, <1>2, TypedTx DEF ClaimEvent, Typed, MayStore, Open
  <2>2. tx'[h] = [tx[h] EXCEPT !.pc = IF Receipts(tx[h]) = {} THEN "claimed" ELSE "conflict"]
    BY <1>0, <1>2 DEF ClaimEvent, Goto, TypeOK
  <2>3. QED
    BY <1>0, <1>2, <2>1, <2>2, QuietStep
       DEF ClaimEvent, Goto, TypeOK, Typed, MayStore, HoldsClaim, Open, Accepted, Tx
<1>3. ASSUME NEW h \in Handler, StoreEvent(h) PROVE IInv'
  <2>1. Typed(h) /\ MayStore(h) /\ HoldsClaim(h) /\ tx[h] \in Tx
    BY <1>0, <1>3, TypedTx DEF StoreEvent, Typed, MayStore, HoldsClaim, Open
  <2>2. tx'[h] = [tx[h] EXCEPT !.pc = "stored"] \/ tx'[h] = [pc |-> "error"]
    BY <1>0, <1>3 DEF StoreEvent, Goto, Refuse, TypeOK
  <2>3. \A g \in Handler \ {h} : tx'[g] = tx[g]
    BY <1>0, <1>3 DEF StoreEvent, Goto, Refuse, TypeOK
  <2>4. QED
    BY <1>0, <1>3, <2>1, <2>2, <2>3, QuietStep
       DEF StoreEvent, Typed, MayStore, HoldsClaim, Open, Accepted, Tx
<1>5. ASSUME NEW h \in Handler, ReadReceipt(h) PROVE IInv'
  <2>1. Typed(h) /\ tx[h] \in Tx
    BY <1>0, <1>5, TypedTx DEF ReadReceipt, Typed, Open
  <2>2. \/ tx'[h] = [pc |-> "error"] \/ tx'[h] = [pc |-> "reused"]
        \/ \E r \in idem : /\ SameUpload(r, tx[h])
                           /\ r.body = tx[h].body
                           /\ tx'[h] = [tx[h] EXCEPT !.pc = "found", !.answer = r.seq]
    <3>1. CASE Refuse(h, "error") \/ Refuse(h, "reused")
      BY <1>0, <3>1 DEF Refuse, TypeOK
    <3>2. CASE \E r \in Receipts(tx[h]) :
                 /\ r.body = tx[h].body
                 /\ tx' = [tx EXCEPT ![h].pc = "found", ![h].answer = r.seq]
      BY <1>0, <3>2 DEF Receipts, TypeOK
    <3>3. QED
      BY <1>5, <3>1, <3>2 DEF ReadReceipt
  <2>3. \A g \in Handler \ {h} : tx'[g] = tx[g]
    BY <1>0, <1>5 DEF ReadReceipt, Refuse, TypeOK
  <2>4. CASE tx'[h] = [pc |-> "error"] \/ tx'[h] = [pc |-> "reused"]
    BY <1>0, <1>5, <2>1, <2>3, <2>4, QuietStep
       DEF ReadReceipt, Typed, MayStore, HoldsClaim, Open, Accepted
  <2>5. ASSUME NEW r \in idem, SameUpload(r, tx[h]), r.body = tx[h].body,
               tx'[h] = [tx[h] EXCEPT !.pc = "found", !.answer = r.seq]
        PROVE  IInv'
    <3>1. /\ tx'[h].pc = "found" /\ tx'[h].answer = r.seq
          /\ tx'[h].seq = tx[h].seq /\ tx'[h].origin = tx[h].origin
          /\ tx'[h].cid = tx[h].cid /\ tx'[h].body = tx[h].body
          /\ tx'[h].at = tx[h].at
      BY <2>1, <2>5 DEF Tx
    <3>2. QED
      BY <1>0, <1>5, <2>1, <2>3, <2>5, <3>1, QuietStep
         DEF ReadReceipt, Typed, MayStore, HoldsClaim, Open, Accepted
  <2>6. QED
    BY <2>2, <2>4, <2>5
<1>6. ASSUME NEW h \in Handler, AnswerDuplicate(h) PROVE IInv'
  <2>1. Typed(h) /\ tx[h] \in Tx
    BY <1>0, <1>6, TypedTx DEF AnswerDuplicate, Typed, Open
  <2>2. tx'[h] = [tx[h] EXCEPT !.pc = "already_created"]
    BY <1>0, <1>6 DEF AnswerDuplicate, Goto, TypeOK
  <2>3. QED
    BY <1>0, <1>6, <2>1, <2>2, QuietStep
       DEF AnswerDuplicate, Goto, TypeOK, Typed, MayStore, HoldsClaim, Open, Accepted, Tx
<1>7. ASSUME NEW h \in Handler, RollbackClip(h) PROVE IInv'
  <2>1. Typed(h)
    BY <1>7 DEF RollbackClip, Typed
  <2>2. tx'[h] = [pc |-> "error"]
    BY <1>0, <1>7 DEF RollbackClip, Refuse, TypeOK
  <2>3. QED
    BY <1>0, <1>7, <2>1, <2>2, QuietStep
       DEF RollbackClip, Refuse, TypeOK, Typed, MayStore, HoldsClaim, Open, Accepted
<1>8. CASE SweepEvents
  <2>1. now \in Nat /\ \A e \in events : e.expires \in Nat
    BY <1>0 DEF TypeOK, Row
  <2>2. Sweeping'
    BY <1>8, <2>1 DEF SweepEvents, Sweeping
  <2>3. QED
    BY <1>0, <1>8, <2>2 DEF SweepEvents, IInv, Keys, Fresh, Claims, Timely, ClipHasReceipt,
       AnswerIsTheUpload, Typed, MayStore, HoldsClaim, SameUpload
<1>9. CASE SweepFails
  BY <1>0, <1>9 DEF SweepFails, IInv, Keys, Fresh, Claims, Timely, ClipHasReceipt, Sweeping,
     AnswerIsTheUpload, Typed, MayStore, HoldsClaim, SameUpload, NoSweep
<1>10. CASE SweepReceipts
  <2>1. /\ idem' \subseteq idem /\ events' \subseteq events
        /\ UNCHANGED <<now, lastSeq, tx>>
        /\ ~sweep'.on
    BY <1>10 DEF SweepReceipts, NoSweep
  <2>2. Keys' /\ Fresh' /\ Claims' /\ Timely' /\ AnswerIsTheUpload' /\ Sweeping'
    BY <2>1 DEF IInv, Keys, Fresh, Claims, Timely, AnswerIsTheUpload, Sweeping, Typed, MayStore,
       HoldsClaim, SameUpload
  <2>3. ClipHasReceipt'
    <3> SUFFICES ASSUME NEW e \in events'
                 PROVE  \E r \in idem' : /\ SameUpload(r, e) /\ r.seq = e.seq
                                         /\ r.body = e.body /\ r.expires >= e.expires
      BY DEF ClipHasReceipt, SameUpload
    <3>1. e \in events /\ e.seq \notin sweep.doomed
      BY <1>10 DEF SweepReceipts
    <3>2. e.expires \in Nat /\ sweep.at \in Nat /\ \A r \in idem : r.expires \in Nat
      BY <1>0, <3>1 DEF TypeOK, Row
    <3>3. e.expires > sweep.at
      BY <1>10, <3>1, <3>2 DEF SweepReceipts, IInv, Sweeping
    <3>4. PICK r \in idem : /\ SameUpload(r, e) /\ r.seq = e.seq
                            /\ r.body = e.body /\ r.expires >= e.expires
      BY <3>1 DEF IInv, ClipHasReceipt
    <3>5. r \in idem'
      BY <1>10, <3>2, <3>3, <3>4 DEF SweepReceipts
    <3>6. QED
      BY <3>4, <3>5
  <2>4. QED
    BY <1>0, <2>2, <2>3 DEF IInv
<1>11. CASE Tick
  <2>1. /\ now' = now + 1 /\ now \in Nat
        /\ \A h \in Handler : tx[h].pc \in Open => now < tx[h].at + RequestLimit
        /\ UNCHANGED <<lastSeq, idem, events, tx, sweep>>
    BY <1>0, <1>11 DEF Tick, TypeOK
  <2>2. \A h \in Handler : tx[h].pc \in Open => tx[h].at \in Nat
    BY <1>0, TypedTx DEF Typed, Tx
  <2>3. Timely'
    BY <2>1, <2>2, TTLAssumption DEF Timely
  <2>4. sweep.at \in Nat
    BY <1>0 DEF TypeOK
  <2>5. Sweeping'
    BY <2>1, <2>4 DEF IInv, Sweeping
  <2>6. QED
    BY <1>0, <2>1, <2>3, <2>5 DEF IInv, Keys, Fresh, Claims, ClipHasReceipt,
       AnswerIsTheUpload, Typed, MayStore, HoldsClaim, SameUpload
<1>12. CASE UNCHANGED vars
  BY <1>0, <1>12 DEF vars, IInv, Keys, Fresh, Claims, Timely, ClipHasReceipt, Sweeping,
     AnswerIsTheUpload, Typed, MayStore, HoldsClaim, SameUpload
<1>4. ASSUME NEW h \in Handler, CommitClip(h) PROVE IInv'
  <2> DEFINE r == RowOf(tx[h], IdempotencyTTL)
             e == RowOf(tx[h], ClipTTL)
  <2>1. Typed(h) /\ MayStore(h) /\ HoldsClaim(h) /\ tx[h] \in Tx
    BY <1>0, <1>4, TypedTx DEF CommitClip, Typed, MayStore, HoldsClaim, Open
  <2>2. /\ idem' = idem \union {r} /\ events' = events \union {e}
        /\ UNCHANGED <<now, lastSeq, sweep>>
        /\ tx'[h] = [tx[h] EXCEPT !.pc = "created"]
        /\ \A g \in Handler \ {h} : tx'[g] = tx[g]
    BY <1>0, <1>4 DEF CommitClip, Goto, TypeOK
  <2>3. /\ r.seq = tx[h].seq /\ e.seq = r.seq
        /\ SameUpload(r, tx[h]) /\ SameUpload(r, e)
        /\ r.body = tx[h].body /\ e.body = r.body
        /\ r.expires = tx[h].at + IdempotencyTTL
        /\ e.expires = tx[h].at + ClipTTL
    BY DEF RowOf, SameUpload
  <2> HIDE DEF r, e
  <2>4. /\ tx'[h].seq = tx[h].seq /\ tx'[h].origin = tx[h].origin
        /\ tx'[h].cid = tx[h].cid /\ tx'[h].body = tx[h].body
        /\ tx'[h].answer = tx[h].answer /\ tx'[h].pc = "created"
    BY <2>1, <2>2 DEF Tx
  <2>5. /\ \A x \in idem : x.seq # tx[h].seq /\ ~SameUpload(x, tx[h])
        /\ tx[h].answer = tx[h].seq
        /\ \A g \in Handler \ {h} : Typed(g) => tx[g].answer # tx[h].seq
        /\ \A g \in Handler \ {h} : HoldsClaim(g) => ~SameUpload(tx[g], tx[h])
    BY <2>1 DEF IInv, Fresh, Claims
  <2>6. Keys'
    BY <2>2, <2>3, <2>5 DEF IInv, Keys, SameUpload
  <2>7. Fresh'
    <3>1. \A x \in idem' : x.seq <= lastSeq'
      BY <2>1, <2>2, <2>3 DEF IInv, Fresh
    <3>2. \A g \in Handler : Typed(g)' => /\ Typed(g)
                                          /\ tx'[g].seq = tx[g].seq
                                          /\ tx'[g].answer = tx[g].answer
      BY <2>1, <2>2, <2>4 DEF Typed
    <3>3. \A g \in Handler : MayStore(g)' => g # h /\ MayStore(g) /\ tx'[g] = tx[g]
      BY <2>2, <2>4 DEF MayStore
    <3>4. \A g \in Handler : MayStore(g) /\ g # h => tx[g].seq # tx[h].seq
      BY <2>1, <2>5 DEF IInv, Fresh
    <3>5. QED
      BY <2>2, <2>3, <3>1, <3>2, <3>3, <3>4 DEF IInv, Fresh
  <2>8. Claims'
    <3>1. \A g \in Handler : HoldsClaim(g)' => g # h /\ HoldsClaim(g) /\ tx'[g] = tx[g]
      BY <2>2, <2>4 DEF HoldsClaim
    <3>2. \A g \in Handler : HoldsClaim(g) /\ g # h => ~SameUpload(r, tx[g])
      BY <2>3, <2>5 DEF SameUpload
    <3>3. QED
      BY <2>2, <3>1, <3>2 DEF IInv, Claims, SameUpload
  <2>9. Timely'
    BY <2>2, <2>4 DEF IInv, Timely, Open
  <2>10. Sweeping'
    <3>1. now \in Nat /\ sweep.at \in Nat /\ tx[h].at \in Nat
      BY <1>0, <2>1 DEF TypeOK, Tx
    <3>2. now <= tx[h].at + RequestLimit
      BY <1>4 DEF IInv, Timely, CommitClip, Open
    <3>3. sweep.on => e.expires > sweep.at
      BY <2>3, <3>1, <3>2, TTLAssumption DEF IInv, Sweeping
    <3>4. e.expires \in Nat
      BY <2>3, <3>1, TTLAssumption
    <3>5. QED
      BY <2>2, <3>1, <3>3, <3>4 DEF IInv, Sweeping
  <2>11. ClipHasReceipt'
    <3>1. r.expires >= e.expires
      BY <2>1, <2>3, TTLAssumption DEF Tx
    <3>2. QED
      BY <2>2, <2>3, <3>1 DEF IInv, ClipHasReceipt, SameUpload
  <2>12. AnswerIsTheUpload'
    <3> SUFFICES ASSUME NEW g \in Handler,
                        tx'[g].pc \in {"found", "already_created", "created"},
                        NEW x \in (idem \union events)', x.seq = tx'[g].answer
                 PROVE  SameUpload(x, tx'[g]) /\ x.body = tx'[g].body
      BY DEF AnswerIsTheUpload, SameUpload
    <3>1. CASE g = h
      <4>1. x \in {r, e}
        <5>1. \A y \in events : y.seq # tx[h].seq
          BY <2>5 DEF IInv, ClipHasReceipt
        <5>2. QED
          BY <2>2, <2>4, <2>5, <3>1, <5>1
      <4>2. QED
        BY <2>3, <2>4, <3>1, <4>1 DEF SameUpload
    <3>2. CASE g # h
      <4>1. tx'[g] = tx[g] /\ Typed(g)
        BY <2>2, <3>2 DEF Typed, Open, Accepted
      <4>2. x \in idem \union events
        BY <2>2, <2>3, <2>5, <3>2, <4>1
      <4>3. QED
        BY <4>1, <4>2 DEF IInv, AnswerIsTheUpload
    <3>3. QED
      BY <3>1, <3>2
  <2>13. QED
    BY <1>0, <2>6, <2>7, <2>8, <2>9, <2>10, <2>11, <2>12 DEF IInv
<1>13. QED
  BY <1>1, <1>2, <1>3, <1>4, <1>5, <1>6, <1>7, <1>8, <1>9, <1>10, <1>11, <1>12 DEF Next, Handle

-----------------------------------------------------------------------------
(* The strengthened invariant holds in every reachable state.              *)
THEOREM Inductive == Spec => []IInv
BY IInvInit, IInvStep, PTL DEF Spec

(* The tables and the transactions keep their types: store/clips.go never  *)
(* draws a number twice or leaves a transaction half described.            *)
THEOREM TypeCorrect == Spec => []TypeOK
<1>1. IInv => TypeOK
  BY DEF IInv
<1>2. QED
  BY <1>1, Inductive, PTL

(* Every stored clip keeps its receipt, whatever the retries, rollbacks    *)
(* and cleanups, for every pair of TTLs config.go accepts.                 *)
THEOREM ReceiptCorrect == Spec => []ClipHasReceipt
<1>1. IInv => ClipHasReceipt
  BY DEF IInv
<1>2. QED
  BY <1>1, Inductive, PTL

(* A retry is answered with the clip of its own first attempt.             *)
THEOREM AnswerCorrect == Spec => []AnswerIsTheUpload
<1>1. IInv => AnswerIsTheUpload
  BY DEF IInv
<1>2. QED
  BY <1>1, Inductive, PTL

(* The winner of an idempotency row never meets the UNIQUE constraint.     *)
THEOREM ClaimCorrect == Spec => []ClaimNeverClashes
<1>1. IInv => ClaimNeverClashes
  <2> SUFFICES ASSUME IInv, NEW h \in Handler, tx[h].pc = "claimed"
               PROVE  Clashing(tx[h]) = {}
    BY DEF ClaimNeverClashes
  <2>1. \A r \in idem : ~SameUpload(r, tx[h]) /\ r.seq # tx[h].seq
    BY DEF IInv, Claims, Fresh, HoldsClaim, MayStore
  <2>2. QED
    BY <2>1 DEF IInv, ClipHasReceipt, Clashing, SameUpload
<1>2. QED
  BY <1>1, Inductive, PTL

(* One client event becomes at most one clip per IDEMPOTENCY_TTL.          *)
THEOREM WindowCorrect == Spec => OneClipPerWindow
<1> DEFINE A == /\ \A e \in events' \ events : \A r \in idem : ~SameUpload(r, e)
                /\ \A r \in idem \ idem' : r.expires <= now
<1>1. IInv /\ [Next]_vars => [A]_vars
  <2> SUFFICES ASSUME IInv, Next PROVE A
    OBVIOUS
  <2>1. ASSUME NEW h \in Handler, CommitClip(h) PROVE A
    BY <2>1 DEF CommitClip, IInv, Claims, HoldsClaim, SameUpload, RowOf
  <2>2. CASE SweepReceipts
    <3>1. sweep.at <= now /\ now \in Nat /\ sweep.at \in Nat /\ \A r \in idem : r.expires \in Nat
      BY <2>2 DEF SweepReceipts, IInv, Sweeping, TypeOK, Row
    <3>2. QED
      BY <2>2, <3>1 DEF SweepReceipts
  <2>3. CASE UNCHANGED <<idem, events>>
    BY <2>3
  <2>4. QED
    BY <2>1, <2>2, <2>3 DEF Next, Handle, BeginClip, ClaimEvent, StoreEvent, ReadReceipt,
       AnswerDuplicate, RollbackClip, SweepEvents, SweepFails, Tick
<1>2. QED
  BY <1>1, Inductive, PTL DEF Spec, OneClipPerWindow

-----------------------------------------------------------------------------
(* The refinement. A transaction that stops being able to store a clip     *)
(* gives up its number: the abstract position is spent.                    *)
LEMMA SpentGrows ==
  ASSUME IInv, NEW h \in Handler, MayStore(h), ~MayStore(h)', lastSeq' = lastSeq,
         \A g \in Handler \ {h} : tx'[g] = tx[g]
  PROVE  /\ tx[h].seq \in (1..MaxSeq) \ Spent
         /\ Spent' = Spent \union {tx[h].seq}
<1>1. Typed(h) /\ tx[h].seq \in 1..lastSeq /\ tx[h].seq \in 1..MaxSeq
  <2>1. Typed(h)
    BY DEF MayStore, Typed, Open
  <2>2. tx[h] \in Tx
    BY <2>1, TypedTx DEF IInv
  <2>3. tx[h].seq <= lastSeq /\ lastSeq \in Nat
    BY <2>1, BoundAssumption DEF IInv, Fresh, TypeOK
  <2>4. QED
    BY <2>1, <2>2, <2>3 DEF Tx
<1>2. \A g \in Handler : MayStore(g) /\ g # h => tx[g].seq # tx[h].seq
  BY <1>1 DEF IInv, Fresh, Typed, MayStore
<1>3. QED
  BY <1>1, <1>2 DEF Spent, MayStore

LEMMA SpentStays ==
  ASSUME lastSeq' = lastSeq,
         \A g \in Handler : MayStore(g)' <=> MayStore(g),
         \A g \in Handler : MayStore(g) => tx'[g].seq = tx[g].seq
  PROVE  Spent' = Spent
BY DEF Spent

(* Every step of the store is a step of the log or leaves it alone.        *)
LEMMA RefineStep == IInv /\ IInv' /\ [Next]_vars => [Log!Next]_(Log!vars)
<1> SUFFICES ASSUME IInv, IInv', [Next]_vars PROVE [Log!Next]_(Log!vars)
  OBVIOUS
<1> DEFINE log == {AsEntry(e) : e \in events}
           receipts == {AsEntry(r) : r \in idem}
<1>0. TypeOK
  BY DEF IInv
<1>1. ASSUME NEW h \in Handler, UNCHANGED <<lastSeq, idem, events>>,
             MayStore(h)' => MayStore(h) /\ tx'[h].seq = tx[h].seq,
             \A g \in Handler \ {h} : tx'[g] = tx[g]
      PROVE  [Log!Next]_(Log!vars)
  <2>1. CASE MayStore(h) /\ ~MayStore(h)'
    <3>1. /\ tx[h].seq \in (1..MaxSeq) \ Spent
          /\ Spent' = Spent \union {tx[h].seq}
      BY <1>1, <2>1, SpentGrows
    <3>2. Log!Skip
      BY <1>1, <3>1 DEF Log!Skip
    <3>3. QED
      BY <3>2 DEF Log!Next
  <2>2. CASE MayStore(h)' <=> MayStore(h)
    <3>1. Spent' = Spent
      BY <1>1, <2>2, SpentStays DEF MayStore
    <3>2. QED
      BY <1>1, <3>1 DEF Log!vars
  <2>3. QED
    BY <1>1, <2>1, <2>2
<1>2. ASSUME NEW h \in Handler, NEW d \in Device, NEW c \in EventId, NEW b \in Body,
             BeginClip(h, d, c, b)
      PROVE  [Log!Next]_(Log!vars)
  <2>1. /\ tx'[h].pc = "begun" /\ tx'[h].seq = lastSeq + 1
        /\ \A g \in Handler \ {h} : tx'[g] = tx[g]
        /\ lastSeq' = lastSeq + 1 /\ lastSeq \in Nat
        /\ UNCHANGED <<idem, events>>
    BY <1>0, <1>2, BoundAssumption DEF BeginClip, TypeOK
  <2>2. ~MayStore(h) /\ MayStore(h)'
    BY <1>2, <2>1 DEF BeginClip, MayStore, Closed, Accepted
  <2>3. \A g \in Handler \ {h} : MayStore(g)' <=> MayStore(g)
    BY <2>1 DEF MayStore
  <2>4. Spent' = Spent
    BY <2>1, <2>2, <2>3 DEF Spent
  <2>5. QED
    BY <2>1, <2>4 DEF Log!vars
<1>3. ASSUME NEW h \in Handler,
             ClaimEvent(h) \/ StoreEvent(h) \/ ReadReceipt(h) \/ AnswerDuplicate(h) \/ RollbackClip(h)
      PROVE  [Log!Next]_(Log!vars)
  <2>1. UNCHANGED <<lastSeq, idem, events>> /\ Typed(h) /\ tx[h] \in Tx
    BY <1>0, <1>3, TypedTx
       DEF ClaimEvent, StoreEvent, ReadReceipt, AnswerDuplicate, RollbackClip, Typed, Open
  <2>2. \A g \in Handler \ {h} : tx'[g] = tx[g]
    BY <1>0, <1>3 DEF ClaimEvent, StoreEvent, ReadReceipt, AnswerDuplicate, RollbackClip,
       Goto, Refuse, TypeOK
  <2>3. MayStore(h)' => MayStore(h) /\ tx'[h].seq = tx[h].seq
    <3>1. CASE ClaimEvent(h)
      BY <1>0, <2>1, <3>1 DEF ClaimEvent, Goto, MayStore, TypeOK, Tx
    <3>2. CASE StoreEvent(h)
      <4>1. tx'[h] = [tx[h] EXCEPT !.pc = "stored"] \/ tx'[h] = [pc |-> "error"]
        BY <1>0, <3>2 DEF StoreEvent, Goto, Refuse, TypeOK
      <4>2. QED
        BY <2>1, <3>2, <4>1 DEF StoreEvent, MayStore, Tx
    <3>3. CASE ReadReceipt(h)
      <4>1. tx'[h].pc \in {"error", "reused", "found"}
        <5>1. CASE Refuse(h, "error") \/ Refuse(h, "reused")
          BY <1>0, <5>1 DEF Refuse, TypeOK
        <5>2. CASE \E r \in Receipts(tx[h]) :
                     tx' = [tx EXCEPT ![h].pc = "found", ![h].answer = r.seq]
          BY <1>0, <2>1, <5>2 DEF TypeOK, Tx
        <5>3. QED
          BY <3>3, <5>1, <5>2 DEF ReadReceipt
      <4>2. QED
        BY <4>1 DEF MayStore
    <3>4. CASE AnswerDuplicate(h)
      BY <1>0, <2>1, <3>4 DEF AnswerDuplicate, Goto, MayStore, TypeOK, Tx
    <3>5. CASE RollbackClip(h)
      BY <1>0, <3>5 DEF RollbackClip, Refuse, MayStore, TypeOK
    <3>6. QED
      BY <1>3, <3>1, <3>2, <3>3, <3>4, <3>5
  <2>4. QED
    BY <1>1, <2>1, <2>2, <2>3
<1>4. ASSUME NEW h \in Handler, CommitClip(h) PROVE Log!Next
  <2> DEFINE e == AsEntry(RowOf(tx[h], ClipTTL))
  <2>1. Typed(h) /\ MayStore(h) /\ HoldsClaim(h) /\ tx[h] \in Tx
    BY <1>0, <1>4, TypedTx DEF CommitClip, Typed, MayStore, HoldsClaim, Open
  <2>2. /\ tx'[h].pc = "created" /\ lastSeq' = lastSeq
        /\ \A g \in Handler \ {h} : tx'[g] = tx[g]
    BY <1>0, <1>4, <2>1 DEF CommitClip, Goto, TypeOK, Tx
  <2>3. /\ tx[h].seq \in (1..MaxSeq) \ Spent
        /\ Spent' = Spent \union {tx[h].seq}
    BY <2>1, <2>2, SpentGrows DEF MayStore
  <2>4. /\ e.seq = tx[h].seq /\ e.origin = tx[h].origin /\ e.cid = tx[h].cid
        /\ e = AsEntry(RowOf(tx[h], IdempotencyTTL))
    BY DEF AsEntry, RowOf
  <2>5. e \in Log!Entry
    BY <2>1 DEF AsEntry, RowOf, Tx, Log!Entry
  <2>6. log' = log \union {e} /\ receipts' = receipts \union {e}
    BY <1>4, <2>4 DEF CommitClip
  <2>7. \A x \in receipts : ~Log!SameUpload(x, e)
    BY <2>1, <2>4 DEF IInv, Claims, SameUpload, Log!SameUpload, AsEntry
  <2>8. Log!Create(e)
    BY <2>3, <2>4, <2>6, <2>7 DEF Log!Create
  <2>9. QED
    BY <2>5, <2>8 DEF Log!Next
<1>5. CASE SweepReceipts
  <2>1. log' \subseteq log /\ receipts' \subseteq receipts
    BY <1>5 DEF SweepReceipts
  <2>2. log' \subseteq receipts'
    BY DEF IInv, ClipHasReceipt, SameUpload, AsEntry
  <2>3. Spent' = Spent
    BY <1>5, SpentStays DEF SweepReceipts, MayStore
  <2>4. QED
    BY <2>1, <2>2, <2>3 DEF Log!Forget, Log!Next
<1>6. CASE SweepEvents \/ SweepFails \/ Tick \/ UNCHANGED vars
  <2>1. UNCHANGED <<lastSeq, idem, events, tx>>
    BY <1>6 DEF SweepEvents, SweepFails, Tick, vars
  <2>2. Spent' = Spent
    BY <2>1, SpentStays DEF MayStore
  <2>3. QED
    BY <2>1, <2>2 DEF Log!vars
<1>7. QED
  BY <1>2, <1>3, <1>4, <1>5, <1>6 DEF Next, Handle

(* Retries, races, rollbacks and cleanups of the concrete tables are       *)
(* invisible behind the log of ClipLog: one entry per upload.              *)
THEOREM Refinement == Spec => ImplementsClipLog
<1>1. Init => Log!Init
  BY BoundAssumption DEF Init, Log!Init, Spent
<1>2. QED
  BY <1>1, RefineStep, Inductive, PTL DEF Spec, ImplementsClipLog, Log!Spec
=============================================================================
