------------------------------- MODULE PushRtmp -------------------------------
(***************************************************************************)
(* One PushRtmp (src/rtmp/PushRtmp.cpp): the frames that the capture       *)
(* thread hands over and the push thread encodes and writes, and the RTMP  *)
(* session that is set up, given up after many failed writes and set up    *)
(* again.                                                                  *)
(*                                                                         *)
(* The two threads meet in the handler's mailbox (see Mailbox), of which   *)
(* only the number of frames matters here, and in m_framecnt, a volatile   *)
(* int that both change without a lock: an increment is a load and a       *)
(* store.  The session belongs to the constructor first and to the push    *)
(* thread afterwards, so initRtmp is one step.                             *)
(***************************************************************************)
EXTENDS Session

CONSTANTS
  Limit,          (* frames after which pushRtmp clears the mailbox; 20    *)
  FailLimit,      (* failed writes after which a session is given up; 5 * fps *)
  MaxBacklog,     (* bound: frames in the mailbox                          *)
  MaxLost,        (* bound: increments the push thread overwrites between two resets *)
  InitialCounts,  (* what m_framecnt, which no constructor sets, may hold  *)
  InitialFailures (* the same for m_localRtmpFailedTimes                   *)

ASSUME BoundsAreNumbers ==
  /\ Limit \in Nat /\ FailLimit \in Nat
  /\ MaxBacklog \in Nat /\ MaxLost \in Nat
  /\ InitialCounts \subseteq Int /\ InitialFailures \subseteq Int

(* The capture thread in pushRtmp; the labels name the next step.          *)
CaptureStates == {"construct", "idle", "load", "store", "test", "clear", "reset", "send"}

(* The push thread in handlerMessage.                                      *)
PushStates == {"wait", "session", "restart", "encode", "write", "load", "store"}

VARIABLES
  capture,    (* where the capture thread is                               *)
  counted,    (* what it has loaded from m_framecnt                        *)
  push,       (* where the push thread is                                  *)
  uncounted,  (* what that one has loaded                                  *)
  backlog,    (* frames in the mailbox                                     *)
  framecnt,   (* m_framecnt                                                *)
  lost,       (* increments missing from it since it was last reset        *)
  failedTimes (* m_localRtmpFailedTimes                                    *)

frameVars   == <<backlog, framecnt, lost>>
vars == <<capture, counted, push, uncounted, frameVars, link, sessionVars, failedTimes>>

TypeOK ==
  /\ capture \in CaptureStates
  /\ counted \in Int
  /\ push \in PushStates
  /\ uncounted \in Int
  /\ backlog \in 0 .. MaxBacklog
  /\ framecnt \in Int
  /\ lost \in Nat
  /\ failedTimes \in Int
  /\ SessionTypeOK

(* Nothing sets m_framecnt before the first frame; a negative value stands *)
(* for increments that are missing from the start.                         *)
Init ==
  /\ capture = "construct" /\ counted = 0
  /\ push = "wait" /\ uncounted = 0
  /\ backlog = 0
  /\ framecnt \in InitialCounts
  /\ lost = IF framecnt < 0 THEN -framecnt ELSE 0
  /\ failedTimes \in InitialFailures
  /\ SessionInit

-----------------------------------------------------------------------------
(* The session.                                                            *)

(* The constructor ignores the result: a PushRtmp without a session sets   *)
(* one up with its first frame.                                            *)
Construct ==
  /\ capture = "construct"
  /\ InitFails \/ InitSucceeds \/ InitDies
  /\ capture' = "idle"
  /\ UNCHANGED <<counted, push, uncounted, frameVars, link, failedTimes>>

RestartFails ==
  /\ push = "restart"
  /\ InitFails \/ InitDies
  /\ push' = "load"
  /\ UNCHANGED <<capture, counted, uncounted, frameVars, link, failedTimes>>

RestartSucceeds ==
  /\ push = "restart"
  /\ InitSucceeds
  /\ push' = "encode"
  /\ UNCHANGED <<capture, counted, uncounted, frameVars, link, failedTimes>>

Restart == RestartFails \/ RestartSucceeds

-----------------------------------------------------------------------------
(* The capture thread: pushRtmp.                                          *)

PushFrame ==
  /\ capture = "idle"
  /\ backlog < MaxBacklog
  /\ capture' = "load"
  /\ UNCHANGED <<counted, push, uncounted, frameVars, link, sessionVars, failedTimes>>

LoadCount ==
  /\ capture = "load"
  /\ counted' = framecnt
  /\ capture' = "store"
  /\ UNCHANGED <<push, uncounted, frameVars, link, sessionVars, failedTimes>>

StoreCount ==
  /\ capture = "store"
  /\ push = "store" => lost + counted + 1 - uncounted <= MaxLost
  /\ framecnt' = counted + 1
  /\ capture' = "test"
  /\ UNCHANGED <<counted, push, uncounted, backlog, lost, link, sessionVars, failedTimes>>

TooMany_OneMore == framecnt > Limit + 1
TooMany == framecnt > Limit

TestCount ==
  /\ capture = "test"
  /\ capture' = IF TooMany THEN "clear" ELSE "send"
  /\ UNCHANGED <<counted, push, uncounted, frameVars, link, sessionVars, failedTimes>>

(* removeAndDeleteAllMessage deletes the messages; the frames they point   *)
(* to are never deleted.                                                   *)
ClearFrames ==
  /\ capture = "clear"
  /\ backlog' = 0
  /\ capture' = "reset"
  /\ UNCHANGED <<counted, push, uncounted, framecnt, lost, link, sessionVars, failedTimes>>

ResetCount_BelowZero ==
  /\ capture = "reset"
  /\ framecnt' = -1
  /\ lost' = 0
  /\ capture' = "send"
  /\ UNCHANGED <<counted, push, uncounted, backlog, link, sessionVars, failedTimes>>

ResetCount ==
  /\ capture = "reset"
  /\ framecnt' = 0
  /\ lost' = 0
  /\ capture' = "send"
  /\ UNCHANGED <<counted, push, uncounted, backlog, link, sessionVars, failedTimes>>

SendFrame ==
  /\ capture = "send"
  /\ backlog' = backlog + 1
  /\ capture' = "idle"
  /\ UNCHANGED <<counted, push, uncounted, framecnt, lost, link, sessionVars, failedTimes>>

-----------------------------------------------------------------------------
(* The push thread: handlerMessage.                                        *)

Handle ==
  /\ push = "wait"
  /\ backlog > 0
  /\ backlog' = backlog - 1
  /\ push' = "session"
  /\ UNCHANGED <<capture, counted, uncounted, framecnt, lost, link, sessionVars, failedTimes>>

CheckSession_Trusting ==
  /\ push = "session"
  /\ push' = "encode"
  /\ UNCHANGED <<capture, counted, uncounted, frameVars, link, sessionVars, failedTimes>>

CheckSession_Ignored ==
  /\ push = "session"
  /\ push' = "restart"
  /\ UNCHANGED <<capture, counted, uncounted, frameVars, link, sessionVars, failedTimes>>

CheckSession_NoRestart ==
  /\ push = "session"
  /\ push' = IF status THEN "encode" ELSE "load"
  /\ UNCHANGED <<capture, counted, uncounted, frameVars, link, sessionVars, failedTimes>>

CheckSession ==
  /\ push = "session"
  /\ push' = IF status THEN "encode" ELSE "restart"
  /\ UNCHANGED <<capture, counted, uncounted, frameVars, link, sessionVars, failedTimes>>

(* rkmpp_encode_frame succeeds or fails; a failure ends the frame.         *)
EncodeSucceeds ==
  /\ push = "encode"
  /\ push' = "write"
  /\ UNCHANGED <<capture, counted, uncounted, frameVars, link, sessionVars, failedTimes>>

EncodeFails ==
  /\ push = "encode"
  /\ push' = "load"
  /\ UNCHANGED <<capture, counted, uncounted, frameVars, link, sessionVars, failedTimes>>

(* Once the server has gone, the connection it leaves fails all writes.    *)
WriteSucceeds ==
  /\ push = "write"
  /\ io = "open"
  /\ push' = "load"
  /\ UNCHANGED <<capture, counted, uncounted, frameVars, link, sessionVars, failedTimes>>

(* getRtmpPushFailedTimes counts the failure it reports; a success does    *)
(* not reset the count.                                                    *)
TooManyFailures == failedTimes + 1 >= FailLimit

WriteFails_Uncounted ==
  /\ push = "write"
  /\ ~TooManyFailures
  /\ push' = "load"
  /\ UNCHANGED <<capture, counted, uncounted, frameVars, link, sessionVars, failedTimes>>

WriteFails ==
  /\ push = "write"
  /\ ~TooManyFailures
  /\ failedTimes' = failedTimes + 1
  /\ push' = "load"
  /\ UNCHANGED <<capture, counted, uncounted, frameVars, link, sessionVars>>

GiveUpSession ==
  /\ push = "write"
  /\ TooManyFailures
  /\ failedTimes' = 0
  /\ CloseSession
  /\ push' = "load"
  /\ UNCHANGED <<capture, counted, uncounted, frameVars, link>>

(* reduceFrameCount, then the frame is deleted.                            *)
LoadUncount ==
  /\ push = "load"
  /\ uncounted' = framecnt
  /\ push' = "store"
  /\ UNCHANGED <<capture, counted, frameVars, link, sessionVars, failedTimes>>

(* An increment stored since the load is overwritten.                      *)
StoreUncount ==
  /\ push = "store"
  /\ framecnt' = uncounted - 1
  /\ lost' = IF framecnt > uncounted THEN lost + framecnt - uncounted ELSE lost
  /\ push' = "wait"
  /\ UNCHANGED <<capture, counted, uncounted, backlog, link, sessionVars, failedTimes>>

-----------------------------------------------------------------------------
(* The server goes and comes back.                                         *)
LinkChanges ==
  /\ LinkFlips
  /\ UNCHANGED <<capture, counted, push, uncounted, frameVars, failedTimes>>

CaptureStep ==
  \/ Construct \/ PushFrame \/ LoadCount \/ StoreCount \/ TestCount
  \/ ClearFrames \/ ResetCount \/ SendFrame

PushStep ==
  \/ Handle \/ CheckSession \/ Restart \/ EncodeSucceeds \/ EncodeFails \/ WriteSucceeds
  \/ WriteFails \/ GiveUpSession \/ LoadUncount \/ StoreUncount

Next ==
  \/ ~crashed /\ (CaptureStep \/ PushStep \/ LinkChanges)
  \/ crashed /\ UNCHANGED vars

(* The capture thread sends itself a message after every frame.  The push  *)
(* thread is woken for each frame it is sent, and is not passed over for   *)
(* ever, although a clear may take the frame away before it runs.  A       *)
(* session that is tried again and again while the server is there is set  *)
(* up some day, and so is a frame encoded.                                 *)
Fairness ==
  /\ WF_vars(~crashed /\ CaptureStep)
  /\ SF_vars(~crashed /\ PushStep)
  /\ SF_vars(~crashed /\ RestartSucceeds)
  /\ SF_vars(~crashed /\ EncodeSucceeds)

Spec == Init /\ [][Next]_vars
FairSpec == Spec /\ Fairness

-----------------------------------------------------------------------------
Count(b) == IF b THEN 1 ELSE 0

(* Frames that m_framecnt is to count: counted and not yet sent, in the    *)
(* mailbox, or being handled and not yet subtracted.                       *)
InFlight ==
  backlog + Count(capture \in {"test", "clear", "reset", "send"}) + Count(push # "wait")

(* m_framecnt falls short of the frames in flight by two at most, the one  *)
(* that is sent after a clear and the one that is handled during it, and   *)
(* by the increments that have been lost.                                  *)
CountFollowsFrames == InFlight <= framecnt + 2 + lost

(* The mailbox is cleared in time: it never holds many more frames than    *)
(* the limit, whatever the interleaving of the two threads; each lost      *)
(* increment lets in one frame more.                                       *)
BacklogBounded == backlog <= Limit + 2 + lost

(* A frame is encoded and written only in a session that is set up from    *)
(* end to end: an encoder that is ready, a header written, an open         *)
(* connection and a codec context that has not been freed.                 *)
WritesInLiveSession ==
  push \in {"encode", "write"} /\ ~crashed
     => SessionIsUp

(* When the server is gone for good, the session is given up for good, as  *)
(* long as frames reach the writer.                                        *)
DeadSessionGivenUp ==
  <>[]~link => \/ <>[]~status
               \/ <>[](push # "write")
               \/ <>crashed

(* When the server stays, frames reach it again: whatever the session was  *)
(* through before, a writer on an open connection is met time and again.   *)
(* A connection that broke is given up first, after failures that are      *)
(* counted from whatever value the counter began with.                     *)
Recovers ==
  <>[]link => []<>(push = "write" /\ io = "open") \/ <>crashed

(* The session is set up only when there is none, closed only when there   *)
(* is one, and untouched otherwise: what RtmpSession takes for granted.    *)
UsesSession == SessionSpec
=============================================================================
