---------------------------- MODULE MCRtmpSession ----------------------------
(* RtmpSession on small instances.                                         *)
EXTENDS RtmpSession
=============================================================================
