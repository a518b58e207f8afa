----------------------------- MODULE CameraCapture -----------------------------
(***************************************************************************)
(* One CameraCapture (src/rtmp/CameraCapture.cpp): a message that the      *)
(* handler sends itself after every frame drives it.  The first one opens  *)
(* the camera, or fails to and sleeps for two seconds; the later ones grab *)
(* a frame, hand it to PushRtmp, and choose the delay of the next by the   *)
(* wall clock, which somebody may set meanwhile.                           *)
(*                                                                         *)
(* Time is counted in microseconds; how many of them make a millisecond,   *)
(* and how many of those a second, are parameters, so that small instances *)
(* meet the borders between seconds that timeval has.  The thread runs as  *)
(* soon as it can; what a frame costs is arbitrary up to a bound.          *)
(***************************************************************************)
EXTENDS Integers

CONSTANTS
  UsecPerMs,     (* 1000                                                   *)
  MsPerSec,      (* 1000                                                   *)
  Framerate,     (* mFramerate, 25                                         *)
  Phases,        (* what the wall clock may show at first, in microseconds *)
  Jumps,         (* by how much it may be set, forward or back             *)
  MaxJumps,      (* bound: how far it is set between two frames            *)
  MaxCost,       (* bound: microseconds a frame or an attempt to open takes*)
  MaxTime        (* bound: microseconds the model runs                     *)

ASSUME UnitsArePositive ==
  /\ UsecPerMs \in Nat \ {0} /\ MsPerSec \in Nat \ {0} /\ Framerate \in Nat \ {0}
ASSUME BoundsAreNumbers ==
  /\ Phases \subseteq Nat /\ Jumps \subseteq Int
  /\ MaxJumps \in Nat /\ MaxCost \in Nat /\ MaxTime \in Nat

VARIABLES
  now,      (* time since the start; epoll_wait and sleep go by it         *)
  wall,     (* what gettimeofday returns                                   *)
  step,     (* where the capture thread is                                 *)
  began,    (* when handlerMessage last began, -1 before                   *)
  ended,    (* when it last sent itself a message                          *)
  startTime,(* what it read from the wall clock when it began              *)
  due,      (* when of the message, in milliseconds of the wall clock      *)
  wake,     (* when the poll, or the sleep, ends                           *)
  forward,  (* how far the wall clock was set forward since began          *)
  back,     (* and how far back                                            *)
  video,    (* mVideoCapture is an open camera                             *)
  scaler    (* m_Vsc: "garbage" as the constructor leaves it, "null", "live" *)

timeVars == <<began, ended, startTime, due, wake>>
vars == <<now, wall, step, timeVars, forward, back, video, scaler>>

Steps == {"wait", "open", "release", "asleep", "grab", "send", "exited"}

TypeOK ==
  /\ now \in 0 .. MaxTime /\ wall \in Nat
  /\ step \in Steps
  /\ began \in -1 .. MaxTime /\ ended \in 0 .. MaxTime
  /\ startTime \in Nat /\ due \in Nat /\ wake \in Nat
  /\ forward \in 0 .. MaxJumps /\ back \in 0 .. MaxJumps
  /\ step \in {"wait", "asleep"} => now <= wake
  /\ video \in BOOLEAN
  /\ scaler \in {"garbage", "null", "live"}

WallMillis == wall \div UsecPerMs

(* The constructor and startCameraCapture.                                 *)
Init ==
  /\ now = 0 /\ wall \in Phases
  /\ step = "wait"
  /\ began = -1 /\ ended = 0 /\ startTime = 0
  /\ due = WallMillis /\ wake = 0
  /\ forward = 0 /\ back = 0
  /\ video = FALSE
  /\ scaler \in {"garbage", "null"}

-----------------------------------------------------------------------------
(* getNextFrameDelay.                                                      *)
Sec(t) == t \div (MsPerSec * UsecPerMs)
Usec(t) == t % (MsPerSec * UsecPerMs)

(* C divides towards zero.                                                 *)
Quotient(a, b) == IF a >= 0 THEN a \div b ELSE -((-a) \div b)

CostMillis_UsecOnly(s, e) == Quotient(Usec(e) - Usec(s), UsecPerMs)

CostMillis(s, e) ==
  (Sec(e) - Sec(s)) * MsPerSec + Quotient(Usec(e) - Usec(s), UsecPerMs)

NextFrameDelay_Constant(s, e) == MsPerSec \div Framerate

NextFrameDelay(s, e) == MsPerSec \div Framerate - CostMillis(s, e)

-----------------------------------------------------------------------------
(* The poll ends and the message is due.                                   *)
Begin ==
  /\ step = "wait" /\ now = wake /\ WallMillis >= due
  /\ step' = IF video THEN "grab" ELSE "open"
  /\ began' = now /\ startTime' = wall
  /\ forward' = 0 /\ back' = 0
  /\ UNCHANGED <<now, wall, ended, due, wake, video, scaler>>

(* The poll ends before the message is due, since the wall clock was set   *)
(* back: getNextMessage polls again for what is left.                      *)
PollAgain ==
  /\ step = "wait" /\ now = wake /\ WallMillis < due
  /\ wake' = now + UsecPerMs * (due - WallMillis)
  /\ UNCHANGED <<now, wall, step, began, ended, startTime, due, forward, back, video, scaler>>

(* openCamera.  After that doCapture creates the PushRtmp.                 *)
OpenSucceeds ==
  /\ step = "open"
  /\ video' = TRUE /\ scaler' = "live"
  /\ step' = "grab"
  /\ UNCHANGED <<now, wall, timeVars, forward, back>>

(* The camera does not open, or its constructor throws; or there is no     *)
(* scaler to be had.                                                       *)
OpenFails ==
  /\ step = "open"
  /\ scaler' \in {scaler, "null"}
  /\ step' = "release"
  /\ UNCHANGED <<now, wall, timeVars, forward, back, video>>

(* releaseCamera frees m_Vsc unless it is NULL; a garbage pointer ends the *)
(* process, or nothing is seen.  Then doCapture sleeps for two seconds.    *)
Release ==
  /\ step = "release"
  /\ \/ /\ step' = "asleep" /\ scaler' = "null"
        /\ wake' = now + 2 * MsPerSec * UsecPerMs
     \/ /\ scaler = "garbage"
        /\ step' = "exited" /\ UNCHANGED <<scaler, wake>>
  /\ UNCHANGED <<now, wall, began, ended, startTime, due, forward, back, video>>

WakeUp ==
  /\ step = "asleep" /\ now = wake
  /\ step' = "send"
  /\ UNCHANGED <<now, wall, timeVars, forward, back, video, scaler>>

(* grab and retrieve succeed and the frame is pushed.                      *)
Grab ==
  /\ step = "grab"
  /\ step' = "send"
  /\ UNCHANGED <<now, wall, timeVars, forward, back, video, scaler>>

(* errorCamera calls exit(0).                                              *)
GrabFails ==
  /\ step = "grab"
  /\ step' = "exited"
  /\ UNCHANGED <<now, wall, timeVars, forward, back, video, scaler>>

(* sendMessageDelayed or, at once, sendMessage.                            *)
WaitFor(delay) == IF delay > 0 THEN delay ELSE 0

(* The end of handlerMessage, and the poll that follows it.                *)
SendNext ==
  /\ step = "send"
  /\ LET wait == WaitFor(NextFrameDelay(startTime, wall))
     IN  due' = WallMillis + wait /\ wake' = now + UsecPerMs * wait
  /\ ended' = now
  /\ step' = "wait"
  /\ UNCHANGED <<now, wall, began, startTime, forward, back, video, scaler>>

-----------------------------------------------------------------------------
(* Time passes while the thread waits, sleeps or works.                    *)
Tick ==
  /\ now < MaxTime
  /\ step \in {"wait", "asleep"} => now < wake
  /\ step \in {"open", "grab"} => now < began + MaxCost
  /\ step \notin {"release", "send", "exited"}
  /\ now' = now + 1 /\ wall' = wall + 1
  /\ UNCHANGED <<step, timeVars, forward, back, video, scaler>>

SetClock ==
  /\ step # "exited"
  /\ \E j \in Jumps :
       /\ wall + j >= 0
       /\ wall' = wall + j
       /\ IF j >= 0 THEN forward' = forward + j /\ UNCHANGED back
                    ELSE back' = back - j /\ UNCHANGED forward
  /\ forward' <= MaxJumps /\ back' <= MaxJumps
  /\ UNCHANGED <<now, step, timeVars, video, scaler>>

(* The end of the process, or of the time the model covers.                *)
Over ==
  /\ step = "exited" \/ now = MaxTime
  /\ UNCHANGED vars

Next ==
  \/ Begin \/ PollAgain \/ OpenSucceeds \/ OpenFails \/ Release \/ WakeUp
  \/ Grab \/ GrabFails \/ SendNext \/ Tick \/ SetClock \/ Over

Spec == Init /\ [][Next]_vars

-----------------------------------------------------------------------------
Period == UsecPerMs * (MsPerSec \div Framerate)

(* Frames keep the pace that mFramerate asks for.  One begins less than    *)
(* two milliseconds early, which the divisions lose, and by as much as the *)
(* wall clock was set forward; and two milliseconds late at most, and by   *)
(* as much as it was set back, unless the frame before took longer.  Then  *)
(* it begins at once, or late by as much as the clock was set back.  The   *)
(* seconds that timeval carries over, and a clock set in the middle of a   *)
(* frame, make no other difference.                                        *)
PaceKept ==
  [][ step = "wait" /\ step' # "wait" /\ began >= 0
        => /\ now > began + Period - 2 * UsecPerMs - forward
           /\ \/ now < began + Period + 2 * UsecPerMs + back
              \/ now = ended
              \/ back > 0 /\ now < ended + UsecPerMs + back ]_vars

(* CameraCapture.cpp:156, "if (m_Vsc != NULL)": releaseCamera frees the    *)
(* scaler if there is one.                                                 *)
FreesOnlyItsOwn == step = "release" => scaler # "garbage"
=============================================================================
