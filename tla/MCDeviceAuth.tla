---------------------------- MODULE MCDeviceAuth ----------------------------
(* Devices of two accounts, of which one may register.                     *)
EXTENDS DeviceAuth, TLC

CONSTANTS a1, a2, a3, b1

MCAccountOf == a1 :> "alice" @@ a2 :> "alice" @@ a3 :> "alice" @@ b1 :> "bob"
=============================================================================
