------------------------------ MODULE Pipeline ------------------------------
(***************************************************************************)
(* A CameraCapture and its PushRtmp (src/rtmp): the capture thread grabs   *)
(* pictures and hands them over, the push thread writes them, and a third  *)
(* thread deletes the two objects, at any time.                            *)
(*                                                                         *)
(* The threads meet in two mailboxes.  The push thread's is an instance of *)
(* Mailbox; the capture thread's holds the one message that its handler    *)
(* sends itself, whose delays are the business of CameraCapture.  Whether  *)
(* a frame makes pushRtmp clear the mailbox, and whether a frame is        *)
(* written or skipped, is the business of PushRtmp and arbitrary here.     *)
(***************************************************************************)
EXTENDS Integers, FiniteSets

CONSTANTS
  MaxFrames,  (* bound: pictures that are grabbed                          *)
  MaxNow,     (* bound: the latest the wall clock shows                    *)
  MaxBacks    (* bound: how often it is set back                           *)

ASSUME BoundsAreNumbers == MaxFrames \in Nat \ {0} /\ MaxNow \in Nat /\ MaxBacks \in Nat

VARIABLES
  now, backs,                        (* the wall clock, and its settings   *)
  when, accepted, pending, handling, (* the push thread's mailbox          *)
  captureBox,  (* messages in the capture thread's                         *)
  capture,     (* where the capture thread is                              *)
  grabbed,     (* pictures so far; the last is the one in hand             *)
  late,        (* messages handled after that was cleared for good, 2 for more *)
  push,        (* where the push thread is, "none" before it is created    *)
  last,        (* the frame written last, 0 before                         *)
  live,        (* the pictures (Mat) allocated and not deleted             *)
  cleared,     (* those whose messages a clear has deleted                 *)
  pushRtmp,    (* mPushRtmp: "garbage" or, by luck, "null"; "live", "deleted" *)
  encoder,     (* mMppEncoder is there                                     *)
  owner,       (* where the thread that deletes the objects is             *)
  gone         (* the process has ended                                    *)

boxVars == <<when, accepted, pending, handling>>
clockVars == <<now, backs>>
captureVars == <<captureBox, capture, grabbed, late>>
pushVars == <<push, last>>
frameVars == <<live, cleared>>
objectVars == <<pushRtmp, encoder>>
vars == <<clockVars, boxVars, captureVars, pushVars, frameVars, objectVars, owner, gone>>

PushBox == INSTANCE Mailbox WITH Senders <- {"capture"}, MaxSends <- MaxFrames

(* Frame k travels in message k of the only sender.                        *)
Frame(k) == <<"capture", k>>
Frames == PushBox!Messages

Holding == {"offer", "stamp", "test", "accept"}
Owners == {"run", "clearCapture", "joinCapture", "dropCapture", "deletePush", "clearPush",
           "joinPush", "dropPush", "deleteEncoder", "done"}

TypeOK ==
  /\ now \in 0 .. MaxNow /\ backs \in 0 .. MaxBacks
  /\ when \in [Frames -> Int]
  /\ accepted \subseteq Frames /\ pending \subseteq Frames
  /\ handling \subseteq Frames
  /\ captureBox \in 0 .. 1
  /\ capture \in Holding \cup {"wait", "open", "construct", "grab", "requeue", "enqueue", "exited"}
  /\ grabbed \in 0 .. MaxFrames /\ late \in 0 .. 2
  /\ push \in {"none", "wait", "write", "free", "exited"}
  /\ last \in 0 .. MaxFrames
  /\ live \subseteq Frames /\ cleared \subseteq Frames
  /\ pushRtmp \in {"garbage", "null", "live", "deleted"}
  /\ encoder \in BOOLEAN /\ gone \in BOOLEAN
  /\ owner \in Owners

(* mQuit of the two loopers; the destructors go one way.                   *)
CaptureQuit == owner # "run"
PushQuit == owner \in {"clearPush", "joinPush", "dropPush", "deleteEncoder", "done"}

(* The queues are told after the clear.                                    *)
CaptureTold == owner \notin {"run", "clearCapture"}
PushTold == owner \in {"joinPush", "dropPush", "deleteEncoder", "done"}

(* startCameraCapture has been called.                                     *)
Init ==
  /\ now = 0 /\ backs = 0
  /\ when = [m \in Frames |-> 0]
  /\ accepted = {} /\ pending = {} /\ handling = {}
  /\ captureBox = 1 /\ capture = "wait" /\ grabbed = 0 /\ late = 0
  /\ push = "none" /\ last = 0
  /\ live = {} /\ cleared = {}
  /\ pushRtmp \in {"garbage", "null"} /\ encoder = FALSE
  /\ owner = "run" /\ gone = FALSE

-----------------------------------------------------------------------------
(* The capture thread: doCapture.  The last frame is kept for the time     *)
(* after the quit.                                                         *)
Began == late' = IF CaptureTold /\ late < 2 THEN late + 1 ELSE late

Begin ==
  /\ capture = "wait" /\ captureBox > 0
  /\ grabbed < IF CaptureQuit THEN MaxFrames ELSE MaxFrames - 1
  /\ captureBox' = captureBox - 1
  /\ Began
  /\ capture' = IF pushRtmp \in {"garbage", "null"} THEN "open" ELSE "grab"
  /\ UNCHANGED <<grabbed, clockVars, boxVars, pushVars, frameVars, objectVars, owner, gone>>

Goes(from, to) ==
  /\ capture = from /\ capture' = to
  /\ UNCHANGED <<captureBox, grabbed, late, clockVars, pushVars, objectVars, owner, gone>>

OpenFails == Goes("open", "requeue") /\ UNCHANGED <<boxVars, frameVars>>
OpenSucceeds == Goes("open", "construct") /\ UNCHANGED <<boxVars, frameVars>>

(* The constructor of PushRtmp makes the encoder, the push thread and a    *)
(* session; initRtmp may fail, or end the process.                         *)
Construct ==
  /\ capture = "construct" /\ capture' = "grab"
  /\ pushRtmp' = "live" /\ encoder' = TRUE /\ push' = "wait"
  /\ UNCHANGED <<captureBox, grabbed, late, clockVars, boxVars, last, frameVars, owner, gone>>

Dies ==
  /\ gone' = TRUE
  /\ UNCHANGED <<clockVars, boxVars, captureVars, pushVars, frameVars, objectVars, owner>>

ConstructDies == capture = "construct" /\ Dies

Grab ==
  /\ capture = "grab"
  /\ grabbed' = grabbed + 1
  /\ live' = live \cup {Frame(grabbed + 1)}
  /\ capture' = "offer"
  /\ UNCHANGED <<captureBox, late, clockVars, boxVars, pushVars, cleared, objectVars, owner, gone>>

(* errorCamera calls exit(0).                                              *)
GrabFails == capture = "grab" /\ Dies

(* pushRtmp: the mailbox may be cleared first, and with the messages the   *)
(* last pointers to their pictures are lost.                               *)
ClearFrames ==
  /\ Goes("offer", "stamp")
  /\ PushBox!Clear
  /\ cleared' = cleared \cup pending
  /\ UNCHANGED live

KeepFrames == Goes("offer", "stamp") /\ UNCHANGED <<boxVars, frameVars>>

StampFrame ==
  /\ Goes("stamp", "test")
  /\ when' = [when EXCEPT ![Frame(grabbed)] = now]
  /\ PushBox!Stamp(Frame(grabbed))
  /\ UNCHANGED frameVars

(* Looper::enqueueMessage: a test and, later, the insertion.               *)
TestPush == Goes("test", IF PushQuit THEN "requeue" ELSE "accept") /\ UNCHANGED <<boxVars, frameVars>>

AcceptFrame ==
  /\ Goes("accept", "requeue")
  /\ PushBox!Accept(Frame(grabbed))
  /\ UNCHANGED frameVars

(* The handler sends itself the next message in the same way.              *)
Requeue_Untested == Goes("requeue", "enqueue") /\ UNCHANGED <<boxVars, frameVars>>

Requeue ==
  Goes("requeue", IF CaptureQuit THEN "wait" ELSE "enqueue") /\ UNCHANGED <<boxVars, frameVars>>

Enqueue ==
  /\ capture = "enqueue" /\ capture' = "wait"
  /\ captureBox' = captureBox + 1
  /\ UNCHANGED <<grabbed, late, clockVars, boxVars, pushVars, frameVars, objectVars, owner, gone>>

CaptureExits ==
  /\ Goes("wait", "exited")
  /\ captureBox = 0 /\ CaptureTold
  /\ UNCHANGED <<boxVars, frameVars>>

-----------------------------------------------------------------------------
(* The push thread: handlerMessage.                                        *)
Take_Newest(m) ==
  /\ push = "wait" /\ push' = "write"
  /\ handling = {} /\ m \in pending
  /\ when[m] <= now
  /\ \A n \in pending : n[2] <= m[2]
  /\ pending' = pending \ {m} /\ handling' = {m}
  /\ UNCHANGED <<when, accepted, last, clockVars, captureVars, frameVars, objectVars, owner, gone>>

Take_Overdue(m) ==
  /\ push = "wait" /\ push' = "write"
  /\ when[m] < now
  /\ PushBox!Handle(m)
  /\ UNCHANGED <<last, backs, captureVars, frameVars, objectVars, owner, gone>>

Take(m) ==
  /\ push = "wait" /\ push' = "write"
  /\ PushBox!Handle(m)
  /\ UNCHANGED <<last, backs, captureVars, frameVars, objectVars, owner, gone>>

Write(m) ==
  /\ push = "write" /\ push' = "free"
  /\ m \in handling
  /\ last' = m[2]
  /\ UNCHANGED <<clockVars, boxVars, captureVars, frameVars, objectVars, owner, gone>>

(* No session, or it cannot be encoded or written.                         *)
Skip ==
  /\ push = "write" /\ push' = "free"
  /\ UNCHANGED <<last, clockVars, boxVars, captureVars, frameVars, objectVars, owner, gone>>

(* releaseAVFrame, and Looper::loop deletes the message.                   *)
Free_Kept ==
  /\ push = "free" /\ push' = "wait"
  /\ PushBox!Finish
  /\ UNCHANGED <<last, backs, captureVars, frameVars, objectVars, owner, gone>>

Free ==
  /\ push = "free" /\ push' = "wait"
  /\ live' = live \ handling
  /\ PushBox!Finish
  /\ UNCHANGED <<last, backs, captureVars, cleared, objectVars, owner, gone>>

PushExits ==
  /\ push = "wait" /\ push' = "exited"
  /\ pending = {} /\ PushTold
  /\ UNCHANGED <<last, clockVars, boxVars, captureVars, frameVars, objectVars, owner, gone>>

-----------------------------------------------------------------------------
(* The thread that deletes: ~CameraCapture, and in it ~PushRtmp.           *)
Proceeds(from, to) ==
  /\ owner = from /\ owner' = to
  /\ UNCHANGED <<clockVars, capture, grabbed, late, pushVars, live>>

BeginTeardown ==
  Proceeds("run", "clearCapture") /\ UNCHANGED <<captureBox, boxVars, cleared, objectVars, gone>>

ClearCapture ==
  /\ Proceeds("clearCapture", "joinCapture")
  /\ captureBox' = 0
  /\ UNCHANGED <<boxVars, cleared, objectVars, gone>>

JoinCapture_Unjoined ==
  /\ Proceeds("joinCapture", "dropCapture")
  /\ UNCHANGED <<captureBox, boxVars, cleared, objectVars, gone>>

JoinCapture ==
  /\ Proceeds("joinCapture", "dropCapture")
  /\ capture = "exited"
  /\ UNCHANGED <<captureBox, boxVars, cleared, objectVars, gone>>

(* The handler's mailbox is cleared once more, through the looper that the *)
(* join has deleted; nothing is seen, the mailbox being empty ...          *)
DropCapture ==
  /\ Proceeds("dropCapture", "deletePush")
  /\ UNCHANGED <<captureBox, boxVars, cleared, objectVars, gone>>

DropPush ==
  /\ Proceeds("dropPush", "deleteEncoder")
  /\ UNCHANGED <<captureBox, boxVars, cleared, objectVars, gone>>

(* ... or that ends the process.                                           *)
UsesDeletedLooper == owner \in {"dropCapture", "dropPush"} /\ Dies

DeletePush ==
  /\ pushRtmp = "live"
  /\ Proceeds("deletePush", "clearPush")
  /\ UNCHANGED <<captureBox, boxVars, cleared, objectVars, gone>>

(* mPushRtmp holds garbage when no camera has been opened; deleting it     *)
(* ends the process, or nothing is seen.                                   *)
DeleteNothing ==
  /\ pushRtmp # "live"
  /\ Proceeds("deletePush", "done")
  /\ UNCHANGED <<captureBox, boxVars, cleared, objectVars, gone>>

DeleteGarbage == owner = "deletePush" /\ pushRtmp = "garbage" /\ Dies

ClearPush ==
  /\ Proceeds("clearPush", "joinPush")
  /\ PushBox!Clear
  /\ cleared' = cleared \cup pending
  /\ UNCHANGED <<captureBox, objectVars, gone>>

JoinPush_Unjoined ==
  /\ Proceeds("joinPush", "dropPush")
  /\ UNCHANGED <<captureBox, boxVars, cleared, objectVars, gone>>

JoinPush ==
  /\ Proceeds("joinPush", "dropPush")
  /\ push = "exited"
  /\ UNCHANGED <<captureBox, boxVars, cleared, objectVars, gone>>

DeleteEncoder ==
  /\ Proceeds("deleteEncoder", "done")
  /\ encoder' = FALSE /\ pushRtmp' = "deleted"
  /\ UNCHANGED <<captureBox, boxVars, cleared, gone>>

-----------------------------------------------------------------------------
Tick ==
  /\ now < MaxNow /\ now' = now + 1
  /\ PushBox!Clock
  /\ UNCHANGED <<backs, captureVars, pushVars, frameVars, objectVars, owner, gone>>

SetBack ==
  /\ backs < MaxBacks /\ now > 0
  /\ backs' = backs + 1 /\ now' = now - 1
  /\ PushBox!Clock
  /\ UNCHANGED <<captureVars, pushVars, frameVars, objectVars, owner, gone>>

CaptureStep ==
  \/ Begin \/ OpenFails \/ OpenSucceeds \/ Construct \/ ConstructDies \/ Grab \/ GrabFails
  \/ ClearFrames \/ KeepFrames \/ StampFrame \/ TestPush \/ AcceptFrame
  \/ Requeue \/ Enqueue \/ CaptureExits

PushStep ==
  \/ \E m \in Frames : Take(m) \/ Write(m)
  \/ Skip \/ Free \/ PushExits

OwnerStep ==
  \/ ClearCapture \/ JoinCapture \/ DropCapture \/ UsesDeletedLooper
  \/ DeletePush \/ DeleteNothing \/ DeleteGarbage
  \/ ClearPush \/ JoinPush \/ DropPush \/ DeleteEncoder

Step == ~gone /\ (CaptureStep \/ PushStep \/ OwnerStep \/ BeginTeardown \/ Tick \/ SetBack)

Over == (gone \/ owner = "done") /\ UNCHANGED vars

Next == Step \/ Over

(* Threads that can go on do, and time passes.                             *)
Fairness ==
  /\ WF_vars(~gone /\ CaptureStep)
  /\ WF_vars(~gone /\ PushStep)
  /\ WF_vars(~gone /\ OwnerStep)
  /\ WF_vars(~gone /\ Tick)

Spec == Init /\ [][Next]_vars
FairSpec == Spec /\ Fairness

-----------------------------------------------------------------------------
Held == IF capture \in Holding THEN {Frame(grabbed)} ELSE {}

(* A picture that has not been deleted is in hand, in the mailbox, being   *)
(* handled, or was in a mailbox that was cleared: clears are the only leak. *)
(* No other way of a message, a refusal after the quit in particular,      *)
(* loses a picture, and none is used after it was deleted.                 *)
FramesOwned ==
  /\ live = Held \cup pending \cup handling \cup cleared
  /\ (pending \cup handling \cup Held) \cap cleared = {}

(* The threads use only what has not been deleted: pushRtmp runs on a live *)
(* object that takes its message, a frame is encoded while the encoder is  *)
(* there, and both threads have ended when the destructors have.           *)
UsesLiveObjects ==
  /\ capture \in Holding => pushRtmp = "live" /\ ~PushQuit
  /\ handling # {} => encoder
  /\ owner = "done" => capture = "exited" /\ push \in {"none", "exited"}

(* Once the capture thread's mailbox has been cleared for good, at most    *)
(* one more message is handled, the one that had passed the test of mQuit. *)
OneLateCapture == late <= 1

(* Frames are written in the order they were grabbed; only a wall clock    *)
(* that was set back between two sends lets the later one overtake.        *)
WrittenInOrder ==
  [][ last' # last => \/ last' > last
                      \/ when[Frame(last')] > when[Frame(last)] ]_vars

(* What is left to do once the destructors have begun: for the capture     *)
(* thread, of which each step may bring the push thread three more; for    *)
(* that one, by frame in its mailbox; for the thread that deletes.         *)
CaptureWork ==
  IF capture = "wait" THEN IF captureBox = 1 THEN 10 ELSE 1
  ELSE [enqueue |-> 11, open |-> 9, construct |-> 8, grab |-> 7, offer |-> 6, stamp |-> 5,
        test |-> 4, accept |-> 3, requeue |-> 2, exited |-> 0][capture]

PushWork ==
  3 * Cardinality(pending) + [write |-> 3, free |-> 2, wait |-> 1, none |-> 0, exited |-> 0][push]

OwnerWork ==
  [run |-> 9, clearCapture |-> 8, joinCapture |-> 7, dropCapture |-> 6, deletePush |-> 5,
   clearPush |-> 4, joinPush |-> 3, dropPush |-> 2, deleteEncoder |-> 1, done |-> 0][owner]

WorkLeft == 4 * CaptureWork + PushWork + OwnerWork + (IF gone THEN 0 ELSE 1)

(* Once the destructors have begun, every step of a thread leaves less to  *)
(* do, and the clock does not bring more: the handler that sends itself    *)
(* messages stops, no frame that comes late keeps the push thread going,   *)
(* and nothing is waited for that has to be done twice.                    *)
TeardownAdvances ==
  [][owner # "run" => WorkLeft' < WorkLeft \/ (now' # now /\ WorkLeft' = WorkLeft)]_vars

(* The destructors come to their end, although they wait for two threads,  *)
(* of which the first goes on sending itself messages until it sees mQuit. *)
TeardownEnds == owner # "run" ~> owner = "done" \/ gone

(* No frame stays in the mailbox, whatever the clock does and wherever the *)
(* capture thread stops.                                                   *)
FramesGetOut ==
  \A k \in 1 .. MaxFrames : Frame(k) \in pending ~> Frame(k) \notin pending \/ gone
=============================================================================
