------------------------------ MODULE ClipFeed ------------------------------
(***************************************************************************)
(* The clip store together with the devices that read it: each device      *)
(* keeps a cursor and fetches the clips above it, a page at a time, in the *)
(* order of their numbers (store/clips.go, ClipsAfter, and the loop every  *)
(* client runs on it, here the KernelSU daemon's synchronize).             *)
(***************************************************************************)
EXTENDS ClipStore

CONSTANTS
  UserOf,      \* the user of each device
  PageLimit    \* `limit` of GET /clips

ASSUME FeedAssumption == PageLimit \in Nat \ {0}

VARIABLES
  cursor,      \* each device's last_seq
  seen,        \* the numbers each device has been served
  overtaken    \* history: numbers that became visible below a visible one

feedVars == <<cursor, seen, overtaken>>
allVars == <<vars, feedVars>>

FeedTypeOK ==
  /\ TypeOK
  /\ cursor \in [Device -> 0..MaxSeq]
  /\ seen \in [Device -> SUBSET (1..MaxSeq)]
  /\ overtaken \subseteq 1..MaxSeq

FeedInit ==
  /\ Init
  /\ cursor = [d \in Device |-> 0]
  /\ seen = [d \in Device |-> {}]
  /\ overtaken = {}

Readable(d) == {e \in events : UserOf[e.origin] = UserOf[d] /\ e.expires > now}

\* Mutant: the page is not taken from the lowest numbers up.
ClipsAfterUnordered(d, after) ==
  LET above == {e.seq : e \in {x \in Readable(d) : x.seq > after}}
  IN  {s \in above : Cardinality({t \in above : t > s}) < PageLimit}

\* Mutant: the number after the cursor is skipped.
ClipsAfterNext(d, after) ==
  LET above == {e.seq : e \in {x \in Readable(d) : x.seq > after + 1}}
  IN  {s \in above : Cardinality({t \in above : t < s}) < PageLimit}

(* WHERE user_id = $1 AND seq > $2 AND expires_at > now()                  *)
(* ORDER BY seq ASC LIMIT $3                                               *)
ClipsAfter(d, after) ==
  LET above == {e.seq : e \in {x \in Readable(d) : x.seq > after}}
  IN  {s \in above : Cardinality({t \in above : t < s}) < PageLimit}

(* One GET /clips and the advance of the cursor to the page's last number. *)
Pull(d) ==
  LET page == ClipsAfter(d, cursor[d])
  IN  /\ page # {}
      /\ cursor' = [cursor EXCEPT ![d] = CHOOSE s \in page : \A t \in page : s >= t]
      /\ seen' = [seen EXCEPT ![d] = @ \union page]
      /\ UNCHANGED <<vars, overtaken>>

(* CommitClip, noting whether a higher number was visible already.         *)
FeedCommit(h) ==
  /\ CommitClip(h)
  /\ overtaken' = overtaken \union
       {s \in {tx[h].seq} : \E e \in events : e.seq > s /\ UserOf[e.origin] = UserOf[tx[h].origin]}
  /\ UNCHANGED <<cursor, seen>>

StoreStep ==
  /\ \/ \E h \in Handler, d \in Device, c \in EventId, b \in Body : BeginClip(h, d, c, b)
     \/ \E h \in Handler : \/ ClaimEvent(h) \/ StoreEvent(h) \/ ReadReceipt(h)
                           \/ AnswerDuplicate(h) \/ RollbackClip(h)
     \/ SweepEvents \/ SweepReceipts \/ SweepFails
     \/ Tick
  /\ UNCHANGED feedVars

FeedNext ==
  \/ StoreStep
  \/ \E h \in Handler : FeedCommit(h)
  \/ \E d \in Device : Pull(d)

(* A client keeps pulling: on every event, and from a timer otherwise.     *)
FeedSpec == FeedInit /\ [][FeedNext]_allVars /\ \A d \in Device : WF_allVars(Pull(d))

-----------------------------------------------------------------------------
Missed(d) ==
  {e \in Readable(d) : e.seq <= cursor[d] /\ e.seq \notin seen[d]}

(* README.md promises that the event sequence, the persisted cursor and    *)
(* the REST catch-up make up for whatever was missed. A live clip below a  *)
(* reader's cursor that it has not seen is left behind for good, and there *)
(* is only one way to that: it committed after a clip with a higher number *)
(* had become visible (nextval before commit). Pages and gaps lose none.   *)
OnlyOvertakenMissed ==
  \A d \in Device, e \in events : e \in Missed(d) => e.seq \in overtaken

(* Every clip that no other overtook reaches every device of its user, or  *)
(* expires: whatever else is uploaded, rolled back or cleaned up.          *)
ClipReachesReaders ==
  \A d \in Device, s \in 1..MaxSeq :
    (s \notin overtaken /\ \E e \in Readable(d) : e.seq = s)
      ~> (s \in seen[d] \/ ~\E e \in Readable(d) : e.seq = s)
=============================================================================
