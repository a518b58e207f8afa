---------------------------- MODULE MCRtmpManager ----------------------------
(* RtmpManager on small instances: the values its configurations share.    *)
EXTENDS RtmpManager

FourNodes == 0 .. 3

(* Every name is read as its number ...                                    *)
Exact == [n \in Nodes |-> {n}]

(* ... or with a digit that stands in the memory behind it.                *)
Unterminated == [n \in Nodes |-> {n, 10 * n + 1}]
=============================================================================
