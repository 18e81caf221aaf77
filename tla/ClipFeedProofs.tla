--------------------------- MODULE ClipFeedProofs ---------------------------
(***************************************************************************)
(* Proofs about ClipFeed, on top of those about ClipStore, for any number  *)
(* of devices, handlers and clips, any page size and all admitted TTLs.    *)
(*                                                                         *)
(* What carries them: numbers follow the clock (Ordered), so that a clip   *)
(* above the number of an open upload outlives that upload, and a reader   *)
(* whose cursor passed an open upload did so for a clip that is still      *)
(* there (Cursors). Whatever the upload stores is then below a clip that   *)
(* is visible. This is where RequestLimit < ClipTTL is needed.             *)
(***************************************************************************)
EXTENDS ClipFeed, ClipStoreProofs, FiniteSetTheorems

FeedTypes ==
  /\ cursor \in [Device -> 0..MaxSeq]
  /\ seen \in [Device -> SUBSET (1..MaxSeq)]
  /\ overtaken \subseteq 1..MaxSeq

(* A number is one clip's, and what a cleanup will remove has expired.     *)
Numbered ==
  /\ \A e, f \in events : e.seq = f.seq => e = f
  /\ sweep.on => \A s \in sweep.doomed : \E e \in events : e.seq = s /\ e.expires <= sweep.at

(* Numbers and times of uploads that may still store go together.          *)
Ordered ==
  \A h \in Handler : MayStore(h) =>
    /\ tx[h].at <= now
    /\ \A g \in Handler : MayStore(g) /\ tx[h].seq < tx[g].seq => tx[h].at <= tx[g].at
    /\ \A e \in events : tx[h].seq < e.seq => tx[h].at + ClipTTL <= e.expires

(* A cursor above an open upload stands at a clip that is still there.     *)
Cursors ==
  \A d \in Device :
    /\ cursor[d] <= lastSeq
    /\ \A h \in Handler : MayStore(h) =>
         /\ tx[h].seq # cursor[d]
         /\ tx[h].seq < cursor[d] =>
              \E e \in events : e.seq = cursor[d] /\ UserOf[e.origin] = UserOf[d]

FeedInv == IInv /\ FeedTypes /\ Numbered /\ Ordered /\ Cursors /\ OnlyOvertakenMissed

-----------------------------------------------------------------------------
(* A finite set of positive numbers that is not empty has a greatest one:  *)
(* the size of the interval it reaches up to.                              *)
LEMMA Greatest ==
  ASSUME NEW M \in Nat, NEW T \in SUBSET (1..M), T # {}
  PROVE  \E s \in T : \A t \in T : s >= t
<1> DEFINE K == {k \in 1..M : \E t \in T : k <= t}
           n == Cardinality(K)
<1>1. IsFiniteSet(K) /\ n \in Nat /\ n # 0
  <2>1. IsFiniteSet(1..M)
    BY FS_Interval
  <2>2. IsFiniteSet(K)
    BY <2>1, FS_Subset
  <2>3. K # {}
    <3>1. PICK u \in T : TRUE
      OBVIOUS
    <3>2. u \in K
      BY <3>1
    <3>3. QED
      BY <3>2
  <2>4. QED
    BY <2>2, <2>3, FS_CardinalityType, FS_EmptySet
<1>2. n \in K
  <2>1. SUFFICES ASSUME n \notin K PROVE FALSE
    OBVIOUS
  <2>2. ASSUME NEW k \in K PROVE k <= n - 1
    <3>1. PICK t \in T : k <= t
      OBVIOUS
    <3>2. ~(n <= k)
      BY <1>1, <2>1, <3>1
    <3>3. QED
      BY <1>1, <3>2
  <2>3. K \in SUBSET (1..(n - 1))
    BY <1>1, <2>2
  <2>4. n - 1 \in Int /\ ~(1 > n - 1 /\ n # 1)
    BY <1>1
  <2>5. IsFiniteSet(1..(n - 1)) /\ Cardinality(1..(n - 1)) = n - 1
    <3>1. IsFiniteSet(1..(n - 1)) /\ Cardinality(1..(n - 1)) = IF 1 > n - 1 THEN 0 ELSE (n - 1) - 1 + 1
      BY <2>4, FS_Interval
    <3> HIDE DEF n
    <3>2. QED
      BY <1>1, <3>1
  <2>6. n <= n - 1
    <3>1. \A S \in SUBSET (1..(n - 1)) : Cardinality(S) <= Cardinality(1..(n - 1))
      BY <2>5, FS_Subset
    <3>2. QED
      BY <2>3, <2>5, <3>1
  <2> HIDE DEF n
  <2>7. QED
    BY <1>1, <2>6
<1>3. n + 1 \notin K
  <2>1. SUFFICES ASSUME n + 1 \in K PROVE FALSE
    OBVIOUS
  <2>2. 1..(n + 1) \in SUBSET K
    BY <1>1, <2>1
  <2>3. Cardinality(1..(n + 1)) = n + 1
    BY <1>1, FS_Interval
  <2>4. n + 1 <= n
    <3>1. \A S \in SUBSET K : Cardinality(S) <= Cardinality(K)
      BY <1>1, FS_Subset
    <3>2. QED
      BY <2>2, <2>3, <3>1
  <2> HIDE DEF n
  <2>5. QED
    BY <1>1, <2>4
<1>4. PICK t \in T : n <= t
  BY <1>2
<1>5. ASSUME NEW u \in T PROVE u <= n
  <2> HIDE DEF n
  <2>1. ~(n + 1 <= u)
    BY <1>1, <1>3
  <2>2. QED
    BY <1>1, <2>1
<1>6. QED
  BY <1>1, <1>4, <1>5

(* A page is not empty, holds numbers of readable clips above the cursor,  *)
(* and all of these up to its last one.                                    *)
LEMMA PageShape ==
  ASSUME TypeOK, FeedTypes, NEW d \in Device, ClipsAfter(d, cursor[d]) # {},
         NEW last, last = CHOOSE s \in ClipsAfter(d, cursor[d]) :
                                    \A t \in ClipsAfter(d, cursor[d]) : s >= t
  PROVE  /\ last \in 1..MaxSeq /\ last > cursor[d]
         /\ ClipsAfter(d, cursor[d]) \subseteq 1..MaxSeq
         /\ \E e \in Readable(d) : e.seq = last
         /\ \A e \in Readable(d) : e.seq > cursor[d] /\ e.seq <= last
                                      => e.seq \in ClipsAfter(d, cursor[d])
<1> DEFINE page == ClipsAfter(d, cursor[d])
           above == {e.seq : e \in {x \in Readable(d) : x.seq > cursor[d]}}
<1>1. Readable(d) \subseteq Row /\ MaxSeq \in Nat /\ cursor[d] \in Nat
  BY BoundAssumption DEF Readable, TypeOK, FeedTypes
<1>2. above \subseteq 1..MaxSeq
  BY <1>1 DEF Row
<1>3. page = {s \in above : Cardinality({t \in above : t < s}) < PageLimit}
  BY DEF ClipsAfter
<1>4. \E s \in page : \A t \in page : s >= t
  BY <1>1, <1>2, <1>3, Greatest
<1>5. last \in page /\ \A t \in page : last >= t
  BY <1>4
<1>6. ASSUME NEW e \in Readable(d), e.seq > cursor[d], e.seq <= last
      PROVE  e.seq \in page
  <2> DEFINE lower == {t \in above : t < e.seq}
             lowest == {t \in above : t < last}
  <2>1. e.seq \in above
    BY <1>6
  <2>2. lower \in SUBSET lowest
    <3>1. \A t \in above : t \in Nat
      BY <1>2
    <3>2. last \in Nat /\ e.seq \in Nat
      BY <1>3, <1>5, <2>1, <3>1
    <3> HIDE DEF above
    <3>3. ASSUME NEW t \in above, t < e.seq PROVE t < last
      BY <1>6, <3>1, <3>2, <3>3
    <3>4. QED
      BY <3>3
  <2>3. IsFiniteSet(1..MaxSeq)
    BY <1>1, FS_Interval
  <2>4. IsFiniteSet(lowest)
    BY <1>2, <2>3, FS_Subset
  <2>5. Cardinality(lower) <= Cardinality(lowest) /\ IsFiniteSet(lower)
    BY <2>2, <2>4, FS_Subset
  <2>6. Cardinality(lower) \in Nat /\ Cardinality(lowest) \in Nat
    BY <2>4, <2>5, FS_CardinalityType
  <2>7. Cardinality(lowest) < PageLimit
    BY <1>3, <1>5
  <2>8. Cardinality(lower) < PageLimit
    <3> HIDE DEF lower, lowest
    <3>1. QED
      BY <2>5, <2>6, <2>7, FeedAssumption
  <2>9. QED
    BY <1>3, <2>1, <2>8
<1>7. QED
  BY <1>1, <1>2, <1>3, <1>5, <1>6
-----------------------------------------------------------------------------
(* Uploads that may still store keep their number and time.                *)
Keeps(h) ==
  MayStore(h)' => MayStore(h) /\ tx'[h].seq = tx[h].seq /\ tx'[h].at = tx[h].at

LEMMA KeepsAll ==
  ASSUME TypeOK, NEW h \in Handler,
         \/ ClaimEvent(h) \/ StoreEvent(h) \/ CommitClip(h)
         \/ ReadReceipt(h) \/ AnswerDuplicate(h) \/ RollbackClip(h)
  PROVE  /\ \A g \in Handler : Keeps(g)
         /\ UNCHANGED <<now, lastSeq, sweep>>
         /\ CommitClip(h) \/ UNCHANGED events
<1>1. CASE ClaimEvent(h)
  BY <1>1, TypedTx DEF ClaimEvent, Goto, Keeps, MayStore, TypeOK, Typed, Open, Tx
<1>2. CASE StoreEvent(h)
  BY <1>2, TypedTx DEF StoreEvent, Goto, Refuse, Keeps, MayStore, TypeOK, Typed, Open, Tx
<1>3. CASE CommitClip(h)
  BY <1>3, TypedTx DEF CommitClip, Goto, Keeps, MayStore, TypeOK, Typed, Open, Tx
<1>4. CASE ReadReceipt(h)
  BY <1>4, TypedTx DEF ReadReceipt, Refuse, Keeps, MayStore, TypeOK, Typed, Open, Tx
<1>5. CASE AnswerDuplicate(h)
  BY <1>5, TypedTx DEF AnswerDuplicate, Goto, Keeps, MayStore, TypeOK, Typed, Open, Tx
<1>6. CASE RollbackClip(h)
  BY <1>6, TypedTx DEF RollbackClip, Refuse, Keeps, MayStore, TypeOK, Typed, Open, Tx
<1>7. QED
  BY <1>1, <1>2, <1>3, <1>4, <1>5, <1>6

(* An open upload is described in full.                                    *)
LEMMA StoringTx ==
  ASSUME TypeOK, NEW h \in Handler, MayStore(h)
  PROVE  tx[h] \in Tx /\ tx[h].seq \in Nat /\ tx[h].at \in Nat /\ tx[h].pc \in Open
BY TypedTx, BoundAssumption DEF MayStore, Typed, Open, Tx

(* Clips have numbers and a time to live.                                  *)
LEMMA RowShape ==
  ASSUME TypeOK
  PROVE  \A e \in events : e \in Row /\ e.seq \in 1..MaxSeq /\ e.seq \in Nat /\ e.expires \in Nat
BY BoundAssumption DEF TypeOK, Row

(* Steps that store and remove no clip.                                    *)
LEMMA QuietFeed ==
  ASSUME FeedInv, \A h \in Handler : Keeps(h), UNCHANGED <<lastSeq, events, sweep, feedVars>>,
         now' >= now, now' \in Nat
  PROVE  FeedTypes' /\ Numbered' /\ Ordered' /\ Cursors' /\ OnlyOvertakenMissed'
<1>1. FeedTypes' /\ Numbered'
  BY DEF FeedInv, FeedTypes, Numbered, feedVars
<1>2. Ordered'
  BY StoringTx DEF FeedInv, IInv, TypeOK, Ordered, Keeps
<1>3. Cursors'
  BY DEF FeedInv, Cursors, Keeps, feedVars
<1>4. \A d \in Device : Readable(d)' \subseteq Readable(d)
  BY RowShape DEF FeedInv, IInv, TypeOK, Readable
<1>5. OnlyOvertakenMissed'
  BY <1>4 DEF FeedInv, OnlyOvertakenMissed, Missed, feedVars
<1>6. QED
  BY <1>1, <1>2, <1>3, <1>5

(* BeginClip: the new upload has the highest number and the latest time.   *)
LEMMA BeginFeed ==
  ASSUME FeedInv, NEW h \in Handler, NEW o \in Device, NEW c \in EventId, NEW b \in Body,
         BeginClip(h, o, c, b), UNCHANGED feedVars
  PROVE  FeedTypes' /\ Numbered' /\ Ordered' /\ Cursors' /\ OnlyOvertakenMissed'
<1>1. /\ UNCHANGED <<now, events, sweep>> /\ lastSeq' = lastSeq + 1
      /\ tx'[h].seq = lastSeq + 1 /\ tx'[h].at = now /\ tx'[h].pc = "begun"
      /\ \A g \in Handler \ {h} : tx'[g] = tx[g]
  BY DEF BeginClip, FeedInv, IInv, TypeOK
<1>2. /\ now \in Nat /\ lastSeq \in Nat /\ \A d \in Device : cursor[d] \in Nat /\ cursor[d] <= lastSeq
      /\ UNCHANGED <<cursor, seen, overtaken>>
  BY BoundAssumption DEF FeedInv, FeedTypes, IInv, TypeOK, Cursors, feedVars
<1>3. \A e \in events : e.seq \in Nat /\ e.seq <= lastSeq
  BY RowShape DEF FeedInv, IInv, Fresh, ClipHasReceipt
<1>4. \A g \in Handler : MayStore(g) => tx[g].seq <= lastSeq
  BY DEF FeedInv, IInv, Fresh, Typed, MayStore, Open
<1>5. \A g \in Handler \ {h} : MayStore(g)' <=> MayStore(g)
  BY <1>1 DEF MayStore
<1>6. FeedTypes' /\ Numbered' /\ OnlyOvertakenMissed'
  BY <1>1, <1>2 DEF FeedInv, FeedTypes, Numbered, OnlyOvertakenMissed, Missed, Readable
<1>7. Ordered'
  <2>1. ASSUME NEW g \in Handler, MayStore(g)', g # h
        PROVE  /\ tx'[g].at <= now' /\ tx'[g] = tx[g] /\ MayStore(g)
               /\ tx[g].seq \in Nat /\ tx[g].seq <= lastSeq
    BY <1>1, <1>4, <1>5, <2>1, StoringTx DEF FeedInv, IInv, Ordered
  <2>2. ASSUME NEW g \in Handler, MayStore(g)' PROVE tx'[g].at <= now'
    BY <1>1, <1>2, <2>1, <2>2
  <2>3. ASSUME NEW g \in Handler, MayStore(g)', NEW k \in Handler, MayStore(k)', tx'[g].seq < tx'[k].seq
        PROVE  tx'[g].at <= tx'[k].at
    <3>1. g # h
      BY <1>1, <1>2, <2>1, <2>3
    <3>2. CASE k = h
      BY <1>1, <2>1, <2>3, <3>1, <3>2
    <3>3. CASE k # h
      BY <2>1, <2>3, <3>1, <3>3 DEF FeedInv, Ordered
    <3>4. QED
      BY <3>2, <3>3
  <2>4. ASSUME NEW g \in Handler, MayStore(g)', NEW e \in events, tx'[g].seq < e.seq
        PROVE  tx'[g].at + ClipTTL <= e.expires
    <3>1. g # h
      BY <1>1, <1>2, <1>3, <2>4
    <3>2. QED
      BY <2>1, <2>4, <3>1 DEF FeedInv, Ordered
  <2>5. QED
    BY <1>1, <2>2, <2>3, <2>4 DEF Ordered
<1>8. Cursors'
  <2>1. \A d \in Device : cursor'[d] <= lastSeq'
    BY <1>1, <1>2
  <2>2. ASSUME NEW d \in Device, NEW g \in Handler, MayStore(g)'
        PROVE  /\ tx'[g].seq # cursor'[d]
               /\ tx'[g].seq < cursor'[d] =>
                    \E e \in events : e.seq = cursor'[d] /\ UserOf[e.origin] = UserOf[d]
    <3>1. CASE g = h
      BY <1>1, <1>2, <3>1
    <3>2. CASE g # h
      BY <1>1, <1>2, <1>5, <2>2, <3>2 DEF FeedInv, Cursors
    <3>3. QED
      BY <3>1, <3>2
  <2>3. QED
    BY <1>1, <2>1, <2>2 DEF Cursors
<1>9. QED
  BY <1>6, <1>7, <1>8

(* FeedCommit: a reader that passed this number did so for a visible clip. *)
LEMMA CommitFeed ==
  ASSUME FeedInv, NEW h \in Handler, FeedCommit(h)
  PROVE  FeedTypes' /\ Numbered' /\ Ordered' /\ Cursors' /\ OnlyOvertakenMissed'
<1> DEFINE clip == RowOf(tx[h], ClipTTL)
<1>1. MayStore(h) /\ ~MayStore(h)' /\ events' = events \union {clip} /\ CommitClip(h)
      /\ UNCHANGED <<cursor, seen>>
  BY DEF FeedCommit, CommitClip, MayStore, Goto, FeedInv, IInv, TypeOK
<1>2. /\ UNCHANGED <<now, lastSeq, sweep>>
      /\ \A g \in Handler : Keeps(g)
  BY <1>1, KeepsAll DEF FeedInv, IInv
<1>3. /\ tx[h].seq \in 1..MaxSeq /\ tx[h].seq \in Nat /\ tx[h].at \in Nat
      /\ clip.seq = tx[h].seq /\ clip.origin = tx[h].origin /\ clip.expires = tx[h].at + ClipTTL
  BY <1>1, StoringTx DEF RowOf, FeedInv, IInv, Tx
<1>4. \A e \in events : e.seq # tx[h].seq
  BY <1>1 DEF FeedInv, IInv, Fresh, ClipHasReceipt
<1>5. FeedTypes'
  BY <1>1, <1>3 DEF FeedInv, FeedTypes, FeedCommit
<1>6. Numbered'
  BY <1>1, <1>2, <1>3, <1>4 DEF FeedInv, Numbered
<1>7. Ordered'
  <2>1. ASSUME NEW g \in Handler, MayStore(g)'
        PROVE  /\ MayStore(g) /\ tx'[g].seq = tx[g].seq /\ tx'[g].at = tx[g].at
               /\ tx[g].seq \in Nat /\ tx[g].at \in Nat
    BY <1>2, <2>1, StoringTx DEF Keeps, FeedInv, IInv
  <2>2. ASSUME NEW g \in Handler, MayStore(g)', tx[g].seq < clip.seq
        PROVE  tx[g].at + ClipTTL <= clip.expires
    <3>1. tx[g].at <= tx[h].at
      BY <1>1, <1>3, <2>1, <2>2 DEF FeedInv, Ordered
    <3>2. QED
      BY <1>3, <2>1, <2>2, <3>1, TTLAssumption
  <2>3. QED
    BY <1>1, <1>2, <2>1, <2>2 DEF FeedInv, Ordered
<1>8. Cursors'
  BY <1>1, <1>2 DEF FeedInv, Cursors, Keeps
<1>9. OnlyOvertakenMissed'
  <2>1. SUFFICES ASSUME NEW d \in Device, NEW e \in events', (e \in Missed(d))'
                 PROVE  e.seq \in overtaken'
    BY DEF OnlyOvertakenMissed
  <2>2. overtaken \subseteq overtaken'
    BY DEF FeedCommit
  <2>3. CASE e \in events
    <3>1. e \in Missed(d)
      BY <1>1, <1>2, <2>1, <2>3 DEF Missed, Readable
    <3>2. QED
      BY <2>2, <2>3, <3>1 DEF FeedInv, OnlyOvertakenMissed
  <2>4. CASE e = clip
    <3>1. UserOf[tx[h].origin] = UserOf[d] /\ tx[h].seq <= cursor[d]
      BY <1>1, <1>3, <2>1, <2>4 DEF Missed, Readable
    <3>2. cursor[d] \in Nat
      BY BoundAssumption DEF FeedInv, FeedTypes
    <3>3. tx[h].seq < cursor[d]
      BY <1>1, <1>3, <3>1, <3>2 DEF FeedInv, Cursors
    <3>4. PICK f \in events : f.seq = cursor[d] /\ UserOf[f.origin] = UserOf[d]
      BY <1>1, <3>3 DEF FeedInv, Cursors
    <3>5. f.seq > tx[h].seq /\ UserOf[f.origin] = UserOf[tx[h].origin]
      BY <1>3, <3>1, <3>2, <3>3, <3>4
    <3>6. QED
      BY <1>3, <2>4, <3>5 DEF FeedCommit
  <2>5. QED
    BY <1>1, <2>3, <2>4
<1>10. QED
  BY <1>5, <1>6, <1>7, <1>8, <1>9

(* Pull: every readable clip up to the new cursor was in the page.         *)
LEMMA PullFeed ==
  ASSUME FeedInv, NEW d \in Device, Pull(d)
  PROVE  FeedTypes' /\ Numbered' /\ Ordered' /\ Cursors' /\ OnlyOvertakenMissed'
<1> DEFINE page == ClipsAfter(d, cursor[d])
           last == CHOOSE s \in page : \A t \in page : s >= t
<1>1. /\ page # {} /\ cursor' = [cursor EXCEPT ![d] = last]
      /\ seen' = [seen EXCEPT ![d] = @ \union page]
      /\ UNCHANGED <<now, lastSeq, events, tx, sweep, overtaken>>
  BY DEF Pull, vars
<1>2. /\ last \in 1..MaxSeq /\ last > cursor[d] /\ page \subseteq 1..MaxSeq
      /\ \E e \in Readable(d) : e.seq = last
      /\ \A e \in Readable(d) : e.seq > cursor[d] /\ e.seq <= last => e.seq \in page
  BY <1>1, PageShape DEF FeedInv, IInv
<1> HIDE DEF page, last
<1>3. \A x \in Device : cursor[x] \in Nat /\ (x # d => cursor'[x] = cursor[x] /\ seen'[x] = seen[x])
  BY <1>1, BoundAssumption DEF FeedInv, FeedTypes
<1>4. cursor'[d] = last /\ seen'[d] = seen[d] \union page
  BY <1>1 DEF FeedInv, FeedTypes
<1>5. FeedTypes'
  <2>1. last \in 0..MaxSeq
    BY <1>2, BoundAssumption
  <2>2. seen[d] \union page \in SUBSET (1..MaxSeq)
    BY <1>2 DEF FeedInv, FeedTypes
  <2>3. QED
    BY <1>1, <1>4, <2>1, <2>2 DEF FeedInv, FeedTypes
<1>6. Numbered' /\ Ordered'
  BY <1>1 DEF FeedInv, Numbered, Ordered, MayStore
<1>7. PICK f \in events : f.seq = last /\ UserOf[f.origin] = UserOf[d]
  BY <1>2 DEF Readable
<1>8. PICK r \in idem : r.seq = last
  BY <1>7 DEF FeedInv, IInv, ClipHasReceipt
<1>9. Cursors'
  <2>1. last <= lastSeq /\ \A g \in Handler : MayStore(g) => tx[g].seq # last
    BY <1>8 DEF FeedInv, IInv, Fresh
  <2>2. \A g \in Handler : MayStore(g)' <=> MayStore(g)
    BY <1>1 DEF MayStore
  <2>3. QED
    BY <1>1, <1>3, <1>4, <1>7, <2>1, <2>2 DEF FeedInv, Cursors
<1>10. OnlyOvertakenMissed'
  <2>1. SUFFICES ASSUME NEW x \in Device, NEW e \in events, (e \in Missed(x))'
                 PROVE  e.seq \in overtaken
    BY <1>1 DEF OnlyOvertakenMissed
  <2>2. e \in Readable(x) /\ e.seq <= cursor'[x] /\ e.seq \notin seen'[x] /\ e.seq \in Nat
    BY <1>1, <2>1, RowShape DEF Missed, Readable, FeedInv, IInv
  <2>3. e.seq <= cursor[x]
    BY <1>2, <1>3, <1>4, <2>2
  <2>4. e.seq \notin seen[x]
    BY <1>3, <1>4, <2>2
  <2>5. QED
    BY <2>2, <2>3, <2>4 DEF FeedInv, OnlyOvertakenMissed, Missed
<1>11. QED
  BY <1>5, <1>6, <1>9, <1>10

(* SweepReceipts: what stays for a cursor above an open upload has not     *)
(* expired, since the upload is younger than RequestLimit.                 *)
LEMMA SweepFeed ==
  ASSUME FeedInv, SweepReceipts, UNCHANGED feedVars
  PROVE  FeedTypes' /\ Numbered' /\ Ordered' /\ Cursors' /\ OnlyOvertakenMissed'
<1>1. /\ sweep.on /\ events' = {e \in events : e.seq \notin sweep.doomed} /\ sweep' = NoSweep
      /\ UNCHANGED <<now, lastSeq, tx, cursor, seen, overtaken>>
  BY DEF SweepReceipts, feedVars
<1>2. FeedTypes' /\ Numbered' /\ OnlyOvertakenMissed'
  BY <1>1 DEF FeedInv, FeedTypes, Numbered, OnlyOvertakenMissed, Missed, Readable, NoSweep
<1>3. Ordered'
  BY <1>1 DEF FeedInv, Ordered, MayStore
<1>4. ASSUME NEW h \in Handler, MayStore(h), NEW e \in events, tx[h].seq < e.seq
      PROVE  e \in events'
  <2>1. tx[h].at + ClipTTL <= e.expires /\ e.expires \in Nat /\ tx[h].at \in Nat
    BY <1>4, RowShape, StoringTx DEF FeedInv, IInv, Ordered
  <2>2. now <= tx[h].at + RequestLimit
    BY <1>4, StoringTx DEF FeedInv, IInv, Timely
  <2>3. sweep.at <= now /\ sweep.at \in Nat /\ now \in Nat
    BY <1>1 DEF FeedInv, IInv, Sweeping, TypeOK
  <2>4. ~(e.expires <= sweep.at)
    BY <2>1, <2>2, <2>3, TTLAssumption
  <2>5. e.seq \notin sweep.doomed
    BY <1>1, <1>4, <2>4 DEF FeedInv, Numbered
  <2>6. QED
    BY <1>1, <1>4, <2>5
<1>5. Cursors'
  BY <1>1, <1>4 DEF FeedInv, Cursors, MayStore
<1>6. QED
  BY <1>2, <1>3, <1>5

(* SweepEvents takes note of clips that have expired.                      *)
LEMMA SweepBegins ==
  ASSUME FeedInv, SweepEvents, UNCHANGED feedVars
  PROVE  FeedTypes' /\ Numbered' /\ Ordered' /\ Cursors' /\ OnlyOvertakenMissed'
<1>1. /\ UNCHANGED <<now, lastSeq, events, tx, cursor, seen, overtaken>>
      /\ sweep'.doomed = {e.seq : e \in {x \in events : x.expires <= now}} /\ sweep'.at = now
  BY DEF SweepEvents, feedVars
<1>2. Numbered'
  BY <1>1 DEF FeedInv, Numbered
<1>3. FeedTypes' /\ Ordered' /\ Cursors' /\ OnlyOvertakenMissed'
  BY <1>1 DEF FeedInv, FeedTypes, Ordered, Cursors, MayStore, OnlyOvertakenMissed, Missed, Readable
<1>4. QED
  BY <1>2, <1>3

-----------------------------------------------------------------------------
(* A step of the feed is a step of the store, or leaves it alone.          *)
LEMMA StoreSteps ==
  [FeedNext]_allVars => [Next]_vars
BY DEF FeedNext, StoreStep, FeedCommit, Pull, Next, Handle, allVars, vars

LEMMA FeedStep ==
  FeedInv /\ [FeedNext]_allVars => FeedInv'
<1> SUFFICES ASSUME FeedInv, [FeedNext]_allVars PROVE FeedInv'
  OBVIOUS
<1>1. IInv'
  BY StoreSteps, IInvStep DEF FeedInv
<1> DEFINE Goal == FeedTypes' /\ Numbered' /\ Ordered' /\ Cursors' /\ OnlyOvertakenMissed'
<1>2. ASSUME UNCHANGED <<tx, lastSeq, events, sweep, feedVars>>, now' >= now, now' \in Nat PROVE Goal
  <2>1. \A h \in Handler : Keeps(h)
    BY <1>2 DEF Keeps, MayStore
  <2>2. QED
    BY <1>2, <2>1, QuietFeed
<1>3. ASSUME NEW h \in Handler, UNCHANGED feedVars,
             \/ ClaimEvent(h) \/ StoreEvent(h) \/ ReadReceipt(h)
             \/ AnswerDuplicate(h) \/ RollbackClip(h)
      PROVE  Goal
  <2>1. (\A g \in Handler : Keeps(g)) /\ UNCHANGED <<now, lastSeq, sweep>>
    BY <1>3, KeepsAll DEF FeedInv, IInv
  <2>2. UNCHANGED events
    BY <1>3 DEF ClaimEvent, StoreEvent, ReadReceipt, AnswerDuplicate, RollbackClip
  <2>3. now \in Nat
    BY DEF FeedInv, IInv, TypeOK
  <2>4. QED
    BY <1>3, <2>1, <2>2, <2>3, QuietFeed
<1>4. ASSUME SweepFails, UNCHANGED feedVars PROVE Goal
  <2>1. /\ UNCHANGED <<now, lastSeq, events, tx, cursor, seen, overtaken>> /\ ~sweep'.on
    BY <1>4 DEF SweepFails, NoSweep, feedVars
  <2>2. QED
    BY <2>1 DEF FeedInv, FeedTypes, Numbered, Ordered, Cursors, MayStore,
       OnlyOvertakenMissed, Missed, Readable
<1>5. ASSUME Tick, UNCHANGED feedVars PROVE Goal
  BY <1>2, <1>5 DEF Tick, FeedInv, IInv, TypeOK
<1>6. ASSUME StoreStep PROVE Goal
  <2>1. ASSUME NEW h \in Handler, NEW o \in Device, NEW c \in EventId, NEW b \in Body,
               BeginClip(h, o, c, b), UNCHANGED feedVars
        PROVE  Goal
    BY <2>1, BeginFeed
  <2>2. ASSUME SweepReceipts, UNCHANGED feedVars PROVE Goal
    BY <2>2, SweepFeed
  <2>3. ASSUME SweepEvents, UNCHANGED feedVars PROVE Goal
    BY <2>3, SweepBegins
  <2> HIDE DEF Goal
  <2>4. QED
    BY <1>3, <1>4, <1>5, <1>6, <2>1, <2>2, <2>3 DEF StoreStep
<1>7. ASSUME UNCHANGED allVars PROVE Goal
  <2>1. UNCHANGED <<tx, lastSeq, events, sweep, feedVars>> /\ now' = now /\ now \in Nat
    BY <1>7 DEF allVars, vars, FeedInv, IInv, TypeOK
  <2>2. QED
    BY <1>2, <2>1
<1>8. Goal
  <2>1. ASSUME NEW h \in Handler, FeedCommit(h) PROVE Goal
    BY <2>1, CommitFeed
  <2>2. ASSUME NEW d \in Device, Pull(d) PROVE Goal
    BY <2>2, PullFeed
  <2> HIDE DEF Goal
  <2>3. QED
    BY <1>6, <1>7, <2>1, <2>2 DEF FeedNext
<1>9. QED
  BY <1>1, <1>8 DEF FeedInv

LEMMA FeedInductive ==
  FeedSpec => []FeedInv
<1>1. FeedInit => FeedInv
  <2> SUFFICES ASSUME FeedInit PROVE FeedInv
    OBVIOUS
  <2>1. IInv
    BY IInvInit DEF FeedInit
  <2>2. FeedTypes /\ Numbered /\ Ordered /\ Cursors /\ OnlyOvertakenMissed
    BY BoundAssumption DEF FeedInit, Init, NoSweep, FeedTypes, Numbered, Ordered, Cursors,
       MayStore, OnlyOvertakenMissed
  <2>3. QED
    BY <2>1, <2>2 DEF FeedInv
<1>2. QED
  BY <1>1, FeedStep, PTL DEF FeedSpec

(* Readers change nothing of the store: all that is proved of it holds in  *)
(* the composition (ClipsAfter is a SELECT).                               *)
THEOREM FeedImplementsStore ==
  FeedSpec => Spec
<1>1. FeedInit => Init
  BY DEF FeedInit
<1>2. QED
  BY <1>1, StoreSteps, PTL DEF FeedSpec, Spec

(* Tables, cursors and pages keep their types.                             *)
THEOREM FeedTypeCorrect ==
  FeedSpec => []FeedTypeOK
<1>1. FeedInv => FeedTypeOK
  BY DEF FeedInv, IInv, FeedTypes, FeedTypeOK
<1>2. QED
  BY <1>1, FeedInductive, PTL

(* A reader passes a clip unseen only if the clip committed below one that *)
(* was visible (nextval before commit): pages, gaps in the numbers, the    *)
(* cleanup and the end of a clip's life cause no miss (ClipsAfter).        *)
THEOREM OnlyOvertakenCorrect ==
  FeedSpec => []OnlyOvertakenMissed
<1>1. FeedInv => OnlyOvertakenMissed
  BY DEF FeedInv
<1>2. QED
  BY <1>1, FeedInductive, PTL
=============================================================================
