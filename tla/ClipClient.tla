----------------------------- MODULE ClipClient -----------------------------
(***************************************************************************)
(* What a client of the server promises, without rounds, pages, channels,  *)
(* restarts or retries: it queues the copies its user makes and hands them *)
(* to the server one by one, each once, in the order they were made, and   *)
(* gives up none but the oldest of a full queue; it writes the clips that  *)
(* other devices post, and its cursor passes a clip only once it was       *)
(* written. DaemonSync implements it.                                      *)
(***************************************************************************)
EXTENDS Naturals, Sequences

CONSTANTS
  Number,      \* the numbers of clips
  Capacity     \* how many copies the queue holds

VARIABLES
  made,        \* the number of copies the user made
  queue,       \* those that wait, by number
  stored,      \* the copies the server has, each with the number of its clip
  posted,      \* the numbers of the clips of other devices it can read
  written,     \* those that were written to the clipboard
  cursor       \* the number up to which it is done

vars == <<made, queue, stored, posted, written, cursor>>

Init ==
  /\ made = 0 /\ queue = <<>> /\ stored = {}
  /\ posted = {} /\ written = {} /\ cursor = 0

(* The user copies a text; a full queue gives up its oldest copy.          *)
Copy ==
  /\ made' = made + 1
  /\ queue' = Append(IF Len(queue) < Capacity THEN queue ELSE Tail(queue), made + 1)
  /\ UNCHANGED <<stored, posted, written, cursor>>

(* The server stores the oldest copy as clip n, for the first time and     *)
(* behind all older ones. Whether the client learns of it at once is open. *)
Deliver(n) ==
  /\ queue # <<>> /\ \A s \in stored : s.copy < Head(queue) /\ s.seq < n
  /\ stored' = stored \union {[seq |-> n, copy |-> Head(queue)]}
  /\ queue' \in {queue, Tail(queue)}
  /\ UNCHANGED <<made, posted, written, cursor>>

(* The client learns that the server has the oldest copy.                  *)
Confirm ==
  /\ queue # <<>> /\ \E s \in stored : s.copy = Head(queue)
  /\ queue' = Tail(queue)
  /\ UNCHANGED <<made, stored, posted, written, cursor>>

(* Another device posts a clip, beyond all that this client has seen.      *)
Post(n) ==
  /\ n > cursor /\ \A m \in posted : m < n
  /\ posted' = posted \union {n}
  /\ UNCHANGED <<made, queue, stored, written, cursor>>

(* A clip is written to the clipboard and read back.                       *)
Write(n) ==
  /\ n \in posted
  /\ written' = written \union {n}
  /\ UNCHANGED <<made, queue, stored, posted, cursor>>

(* The cursor moves on; every clip it passes was written.                  *)
Pass(n) ==
  /\ n > cursor /\ cursor' = n
  /\ \A m \in posted : m <= n => m \in written
  /\ UNCHANGED <<made, queue, stored, posted, written>>

(* The session ends, and with it what was known of its clips.              *)
Forget ==
  /\ cursor' = 0
  /\ UNCHANGED <<made, queue, stored, posted, written>>

Next ==
  \/ Copy \/ Confirm \/ Forget
  \/ \E n \in Number : Deliver(n)
  \/ \E n \in Number \ posted : Post(n)
  \/ \E n \in posted \ written : Write(n)
  \/ \E n \in Number : Pass(n)

Spec == Init /\ [][Next]_vars
=============================================================================
