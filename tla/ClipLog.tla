------------------------------ MODULE ClipLog ------------------------------
(***************************************************************************)
(* What the clipboard server promises about uploads, without transactions, *)
(* clocks or retries: a log of clips in which an upload, identified by the *)
(* device that sent it and the id the device chose for it, has at most one *)
(* entry, a receipt for every entry, and positions that are never reused.  *)
(* ClipStore implements it.                                                *)
(***************************************************************************)
CONSTANTS
  Position,    \* places in the log
  Device,      \* devices that upload
  EventId,     \* client_event_id values
  Body         \* what an upload carries, up to its digest

VARIABLES
  log,         \* entries [seq, origin, cid, body] that readers can fetch
  receipts,    \* receipts [seq, origin, cid, body] that stop a duplicate
  spent        \* positions that no entry will ever take again

vars == <<log, receipts, spent>>

Entry == [seq : Position, origin : Device, cid : EventId, body : Body]

TypeOK ==
  /\ log \subseteq Entry
  /\ receipts \subseteq Entry
  /\ spent \subseteq Position

Init ==
  /\ log = {}
  /\ receipts = {}
  /\ spent = {}

SameUpload(x, y) == x.origin = y.origin /\ x.cid = y.cid

(* A first upload takes a fresh position, which need not be the highest.   *)
Create(e) ==
  /\ e.seq \notin spent
  /\ \A r \in receipts : ~SameUpload(r, e)
  /\ log' = log \union {e}
  /\ receipts' = receipts \union {e}
  /\ spent' = spent \union {e.seq}

(* A duplicate or an abandoned upload costs a position and adds nothing.   *)
Skip ==
  /\ \E s \in Position \ spent : spent' = spent \union {s}
  /\ UNCHANGED <<log, receipts>>

(* Retention removes entries and receipts, never a receipt that an entry   *)
(* still in the log relies on.                                             *)
Forget ==
  /\ log' \subseteq log
  /\ receipts' \subseteq receipts
  /\ log' \subseteq receipts'
  /\ UNCHANGED spent

Next ==
  \/ \E e \in Entry : Create(e)
  \/ Skip
  \/ Forget

Spec == Init /\ [][Next]_vars

(* One entry per upload, whatever the retries: the guarantee that          *)
(* client_event_id exists for (store/clips.go, CreateClip).                *)
OnePerUpload ==
  \A x, y \in log : SameUpload(x, y) => x = y
=============================================================================
