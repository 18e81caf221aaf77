----------------------------- MODULE MCClipFeed -----------------------------
(* Two devices of one user, both uploading and both reading.               *)
EXTENDS ClipFeed, TLC

CONSTANTS d1, d2

MCUserOf == d1 :> "alice" @@ d2 :> "alice"
=============================================================================
