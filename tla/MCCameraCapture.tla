--------------------------- MODULE MCCameraCapture ---------------------------
(* CameraCapture on small instances: the values its configurations share.  *)
EXTENDS CameraCapture

(* Some places in a second, with room to set the clock back.               *)
SomePhases == {10, 13, 16, 19}
OnePhase == {10}

NoJumps == {}
BackAndForth == {-3, -1, 2}
=============================================================================
