--------------------------- MODULE MCHandlerThread ---------------------------
(* HandlerThread on small instances: the values its configurations share.  *)
EXTENDS HandlerThread

OneClient == {"c1"}
TwoClients == {"c1", "c2"}
Soon == {0}
SoonOrLater == {0, 2}
NoSteps == {}
BackAndForth == {-2, 1}
=============================================================================
