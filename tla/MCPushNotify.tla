---------------------------- MODULE MCPushNotify ----------------------------
(* One phone with two accounts and one with the first of them.             *)
EXTENDS PushNotify

CONSTANTS p, q, a, b

MCDevice == {<<p, a>>, <<p, b>>, <<q, a>>}
=============================================================================
