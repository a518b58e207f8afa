----------------------------- MODULE MCPushRtmp -----------------------------
(* PushRtmp on small instances: the values its configurations share.       *)
EXTENDS PushRtmp

(* A counter below zero and one above the limit.                           *)
Anything == {-1, 4}
AnyFailures == {-1, 3}
=============================================================================
