----------------------------- MODULE MCEventHub -----------------------------
(* A device with two connections and one with one.                         *)
EXTENDS EventHub, TLC

CONSTANTS a, b, a1, a2, b1

MCDeviceOf == a1 :> a @@ a2 :> a @@ b1 :> b
MCOneEach == a1 :> a @@ b1 :> b

Symmetry == Permutations({a1, a2})
=============================================================================
