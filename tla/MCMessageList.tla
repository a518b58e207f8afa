---------------------------- MODULE MCMessageList ----------------------------
(* MessageList on small instances; addresses are used again.               *)
EXTENDS MessageList

CONSTANTS a1, a2, a3

ThreeAddresses == {a1, a2, a3}
TwoTimes == {0, 1}
=============================================================================
