---------------------------- MODULE PushRtmpProofs ----------------------------
(***************************************************************************)
(* The backlog and the session of PushRtmp, for every limit, every bound   *)
(* and whatever the counters hold before the first frame.                  *)
(***************************************************************************)
EXTENDS PushRtmp, TLAPS

USE BoundsAreNumbers DEF Count, frameVars, sessionVars

(* The capture thread has a place for the frame it is pushing.             *)
PlaceReserved == capture \notin {"construct", "idle"} => backlog < MaxBacklog

TypeInv == TypeOK /\ PlaceReserved

LEMMA TypeInit == Init => TypeInv
<1> SUFFICES ASSUME Init PROVE TypeInv
  OBVIOUS
<1>1. /\ capture \in CaptureStates /\ push \in PushStates
      /\ PlaceReserved
  BY DEF Init, PlaceReserved, CaptureStates, PushStates
<1>2. counted \in Int /\ uncounted \in Int /\ backlog \in 0 .. MaxBacklog
  BY DEF Init
<1>3. framecnt \in Int /\ failedTimes \in Int
  BY DEF Init
<1>4. lost \in Nat
  BY <1>3 DEF Init
<1>5. /\ link \in BOOLEAN /\ status \in BOOLEAN /\ crashed \in BOOLEAN
  BY Zenon DEF Init, SessionInit
<1>6. SessionTypeOK
  BY <1>5 DEF Init, SessionInit, SessionTypeOK
<1>7. QED
  BY <1>1, <1>2, <1>3, <1>4, <1>6 DEF TypeInv, TypeOK

LEMMA TypeStep == TypeInv /\ [Next]_vars => TypeInv'
<1> SUFFICES ASSUME TypeInv, [Next]_vars PROVE TypeInv'
  OBVIOUS
<1> USE DEF TypeInv, TypeOK, PlaceReserved, CaptureStates, PushStates, SessionTypeOK
<1>2. CASE Construct
  BY <1>2 DEF Construct, InitFails, InitSucceeds, InitDies, EncoderInits
<1>3. CASE PushFrame
  BY <1>3 DEF PushFrame
<1>4. CASE LoadCount
  BY <1>4 DEF LoadCount
<1>5. CASE StoreCount
  BY <1>5 DEF StoreCount
<1>6. CASE TestCount
  BY <1>6 DEF TestCount
<1>7. CASE ClearFrames
  BY <1>7 DEF ClearFrames
<1>8. CASE ResetCount
  BY <1>8 DEF ResetCount
<1>9. CASE SendFrame
  BY <1>9 DEF SendFrame
<1>10. CASE Handle
  BY <1>10 DEF Handle
<1>11. CASE CheckSession
  BY <1>11 DEF CheckSession
<1>12. CASE Restart
  BY <1>12 DEF Restart, RestartFails, RestartSucceeds, InitFails, InitSucceeds, InitDies, EncoderInits
<1>13. CASE EncodeSucceeds \/ EncodeFails
  BY <1>13 DEF EncodeSucceeds, EncodeFails
<1>14. CASE WriteSucceeds
  BY <1>14 DEF WriteSucceeds
<1>15. CASE WriteFails
  BY <1>15 DEF WriteFails
<1>16. CASE GiveUpSession
  <2>1. /\ failedTimes' = 0 /\ codec' = "freed" /\ push' = "load"
        /\ UNCHANGED <<capture, counted, uncounted, frameVars, link, encoder, muxer, crashed>>
    BY <1>16 DEF GiveUpSession, CloseSession
  <2>2. status' \in BOOLEAN /\ io' = "closed"
    BY <1>16, Zenon DEF GiveUpSession, CloseSession
  <2>3. QED
    BY <2>1, <2>2
<1>17. CASE LoadUncount
  BY <1>17 DEF LoadUncount
<1>18. CASE StoreUncount
  BY <1>18 DEF StoreUncount
<1>19. CASE LinkChanges
  BY <1>19 DEF LinkChanges, LinkFlips
<1>20. CASE UNCHANGED vars
  BY <1>20 DEF vars
<1>21. QED
  BY <1>2, <1>3, <1>4, <1>5, <1>6, <1>7, <1>8, <1>9, <1>10, <1>11, <1>12,
     <1>13, <1>14, <1>15, <1>16, <1>17, <1>18, <1>19, <1>20
     DEF Next, CaptureStep, PushStep

LEMMA TypeInvariant == Spec => []TypeInv
<1>1. QED
  BY TypeInit, TypeStep, PTL DEF Spec

(* Every variable keeps its type; the backlog stays within MaxBacklog      *)
(* because a frame's place is reserved before the frame is counted.        *)
THEOREM TypesHold == Spec => []TypeOK
<1>1. TypeInv => TypeOK
  BY DEF TypeInv
<1>2. QED
  BY <1>1, TypeInvariant, PTL

-----------------------------------------------------------------------------
(* The backlog.                                                            *)

(* What the capture thread has read stays true until it acts on it: frames *)
(* in flight only become fewer and lost increments more.                   *)
BacklogInv ==
  /\ CountFollowsFrames
  /\ capture = "store" => InFlight <= counted + 2 + lost
  /\ capture = "send" => InFlight <= Limit + 2 + lost
  /\ capture = "reset" => backlog = 0
  /\ BacklogBounded

LEMMA BacklogInit == Init => BacklogInv
BY DEF Init, BacklogInv, CountFollowsFrames, InFlight, BacklogBounded

LEMMA BacklogStep == TypeInv /\ BacklogInv /\ [Next]_vars => BacklogInv'
<1> SUFFICES ASSUME TypeInv, BacklogInv, [Next]_vars PROVE BacklogInv'
  OBVIOUS
<1> USE DEF BacklogInv, CountFollowsFrames, InFlight, BacklogBounded
<1>0. /\ backlog \in Nat /\ framecnt \in Int /\ lost \in Nat
      /\ counted \in Int /\ uncounted \in Int
  BY DEF TypeInv, TypeOK
<1>1. CASE Construct
  BY <1>0, <1>1 DEF Construct
<1>2. CASE PushFrame \/ LoadCount
  BY <1>0, <1>2 DEF PushFrame, LoadCount
<1>3. CASE StoreCount
  BY <1>0, <1>3 DEF StoreCount
<1>4. CASE TestCount
  BY <1>0, <1>4 DEF TestCount, TooMany
<1>5. CASE ClearFrames
  BY <1>0, <1>5 DEF ClearFrames
<1>6. CASE ResetCount
  BY <1>0, <1>6 DEF ResetCount
<1>7. CASE SendFrame
  BY <1>0, <1>7 DEF SendFrame
<1>8. CASE Handle
  BY <1>0, <1>8 DEF Handle
<1>9. CASE CheckSession \/ EncodeSucceeds \/ EncodeFails \/ LoadUncount
  BY <1>0, <1>9 DEF CheckSession, EncodeSucceeds, EncodeFails, LoadUncount
<1>10. CASE Restart
  BY <1>0, <1>10 DEF Restart, RestartFails, RestartSucceeds
<1>11. CASE WriteSucceeds \/ WriteFails \/ GiveUpSession
  BY <1>0, <1>11 DEF WriteSucceeds, WriteFails, GiveUpSession
<1>12. CASE StoreUncount
  <2>1. /\ push = "store" /\ push' = "wait" /\ framecnt' = uncounted - 1
        /\ UNCHANGED <<capture, counted, backlog>>
        /\ lost' = IF framecnt > uncounted THEN lost + framecnt - uncounted ELSE lost
    BY <1>12 DEF StoreUncount
  <2>2. InFlight' = InFlight - 1 /\ lost' >= lost /\ lost' \in Nat
    BY <1>0, <2>1
  <2>3. CountFollowsFrames'
    BY <1>0, <2>1, <2>2
  <2>4. QED
    BY <1>0, <2>1, <2>2, <2>3
<1>13. CASE LinkChanges \/ UNCHANGED vars
  BY <1>13 DEF LinkChanges, vars
<1>14. QED
  BY <1>1, <1>2, <1>3, <1>4, <1>5, <1>6, <1>7, <1>8, <1>9, <1>10, <1>11,
     <1>12, <1>13
     DEF Next, CaptureStep, PushStep

LEMMA BacklogInvariant == Spec => []BacklogInv
<1>1. QED
  BY BacklogInit, BacklogStep, TypeInvariant, PTL DEF Spec

(* m_framecnt never falls short of the frames in flight by more than two   *)
(* and the increments that the unlocked updates have lost.                 *)
THEOREM CountFollows == Spec => []CountFollowsFrames
<1>1. BacklogInv => CountFollowsFrames
  BY DEF BacklogInv
<1>2. QED
  BY <1>1, BacklogInvariant, PTL

(* pushRtmp bounds the mailbox by its limit, two frames and the lost       *)
(* increments.                                                             *)
THEOREM Bounded == Spec => []BacklogBounded
<1>1. BacklogInv => BacklogBounded
  BY DEF BacklogInv
<1>2. QED
  BY <1>1, BacklogInvariant, PTL

-----------------------------------------------------------------------------
(* The session.                                                            *)

(* m_rtmpStatus is set exactly as long as the session it stands for is     *)
(* complete, the push thread restarts the session only while it is not,    *)
(* and the constructor is done before the push thread starts.              *)
SessionInv ==
  /\ status => SessionIsUp
  /\ push \in {"encode", "write"} /\ ~crashed => status
  /\ push = "restart" => ~status
  /\ capture = "construct" => push = "wait" /\ backlog = 0 /\ ~status

LEMMA SessionStarts == Init => SessionInv
BY DEF Init, SessionInit, SessionInv

LEMMA SessionStep == TypeInv /\ SessionInv /\ [Next]_vars => SessionInv'
<1> SUFFICES ASSUME TypeInv, SessionInv, [Next]_vars PROVE SessionInv'
  OBVIOUS
<1> USE DEF SessionInv, SessionIsUp
<1>1. CASE Construct
  BY <1>1 DEF Construct, InitFails, InitSucceeds, InitDies, EncoderInits
<1>2. CASE PushFrame \/ LoadCount \/ StoreCount \/ TestCount \/ ClearFrames \/ ResetCount \/ SendFrame
  BY <1>2 DEF PushFrame, LoadCount, StoreCount, TestCount, ClearFrames, ResetCount, SendFrame
<1>3. CASE Handle
  BY <1>3 DEF Handle, TypeInv, TypeOK
<1>4. CASE CheckSession
  BY <1>4 DEF CheckSession
<1>5. CASE Restart
  BY <1>5 DEF Restart, RestartFails, RestartSucceeds, InitFails, InitSucceeds, InitDies, EncoderInits
<1>6. CASE EncodeSucceeds \/ EncodeFails
  BY <1>6 DEF EncodeSucceeds, EncodeFails
<1>7. CASE WriteSucceeds \/ WriteFails \/ GiveUpSession
  BY <1>7 DEF WriteSucceeds, WriteFails, GiveUpSession, CloseSession
<1>8. CASE LoadUncount \/ StoreUncount
  BY <1>8 DEF LoadUncount, StoreUncount
<1>9. CASE LinkChanges \/ UNCHANGED vars
  BY <1>9 DEF LinkChanges, LinkFlips, vars
<1>10. QED
  BY <1>1, <1>2, <1>3, <1>4, <1>5, <1>6, <1>7, <1>8, <1>9
     DEF Next, CaptureStep, PushStep

(* No frame is encoded or written outside a session that is set up from    *)
(* end to end, although a failed attempt leaves half of one behind and the *)
(* session is given up in the middle of a frame.                           *)
THEOREM LiveSession == Spec => []WritesInLiveSession
<1>1. SessionInv => WritesInLiveSession
  BY DEF SessionInv, SessionIsUp, WritesInLiveSession
<1>2. QED
  BY <1>1, SessionStarts, SessionStep, TypeInvariant, PTL DEF Spec

(* The other direction of the contract: PushRtmp touches the session only  *)
(* through the steps that RtmpSession implements, sets one up only when    *)
(* there is none and closes only one that is up.                           *)
THEOREM SessionContract == Spec => UsesSession
<1>1. Init => SessionInit
  BY DEF Init
<1>2. TypeInv /\ SessionInv /\ [Next]_vars => [SessionNext]_<<link, sessionVars>>
  <2> SUFFICES ASSUME TypeInv, SessionInv, [Next]_vars
               PROVE  [SessionNext]_<<link, sessionVars>>
    OBVIOUS
  <2>1. CASE Construct /\ ~crashed
    <3>1. ~status
      BY <2>1 DEF Construct, SessionInv
    <3>2. QED
      BY <2>1, <3>1 DEF Construct, SessionNext
  <2>2. CASE Restart /\ ~crashed
    <3>1. ~status
      BY <2>2 DEF Restart, RestartFails, RestartSucceeds, SessionInv
    <3>2. QED
      BY <2>2, <3>1 DEF Restart, RestartFails, RestartSucceeds, SessionNext
  <2>3. CASE GiveUpSession /\ ~crashed
    <3>1. status
      BY <2>3 DEF GiveUpSession, SessionInv
    <3>2. QED
      BY <2>3, <3>1 DEF GiveUpSession, SessionNext
  <2>4. CASE LinkChanges /\ ~crashed
    BY <2>4 DEF LinkChanges, SessionNext
  <2>5. CASE PushFrame \/ LoadCount \/ StoreCount \/ TestCount \/ ClearFrames \/ ResetCount \/ SendFrame
    BY <2>5 DEF PushFrame, LoadCount, StoreCount, TestCount, ClearFrames, ResetCount, SendFrame
  <2>6. CASE Handle \/ CheckSession \/ EncodeSucceeds \/ EncodeFails
    BY <2>6 DEF Handle, CheckSession, EncodeSucceeds, EncodeFails
  <2>7. CASE WriteSucceeds \/ WriteFails \/ LoadUncount \/ StoreUncount
    BY <2>7 DEF WriteSucceeds, WriteFails, LoadUncount, StoreUncount
  <2>8. CASE UNCHANGED vars
    BY <2>8 DEF vars
  <2>9. QED
    BY <2>1, <2>2, <2>3, <2>4, <2>5, <2>6, <2>7, <2>8
       DEF Next, CaptureStep, PushStep
<1>3. QED
  BY <1>1, <1>2, SessionStarts, SessionStep, TypeInvariant, PTL
     DEF Spec, UsesSession, SessionSpec

(* What the contract is worth: whoever keeps to Session has, whenever      *)
(* m_rtmpStatus is set, a session that is complete, although attempts fail *)
(* half way and the server comes and goes.                                 *)
THEOREM StatusMeansUp == SessionSpec => [](status => SessionIsUp)
<1> USE DEF SessionIsUp
<1>1. SessionInit => (status => SessionIsUp)
  BY DEF SessionInit
<1>2. (status => SessionIsUp) /\ [SessionNext]_<<link, sessionVars>> => (status => SessionIsUp)'
  <2> SUFFICES ASSUME status => SessionIsUp, [SessionNext]_<<link, sessionVars>>, status'
               PROVE  SessionIsUp'
    OBVIOUS
  <2>1. CASE InitFails \/ InitSucceeds \/ InitDies
    BY <2>1 DEF InitFails, InitSucceeds, InitDies, EncoderInits
  <2>2. CASE CloseSession
    BY <2>2 DEF CloseSession
  <2>3. CASE LinkFlips
    BY <2>3 DEF LinkFlips
  <2>4. CASE UNCHANGED <<link, sessionVars>>
    BY <2>4
  <2>5. QED
    BY <2>1, <2>2, <2>3, <2>4 DEF SessionNext
<1>3. QED
  BY <1>1, <1>2, PTL DEF SessionSpec

(* A session whose connection the server has broken keeps that connection  *)
(* and wears out: nothing takes a failure back, and each frame that gets   *)
(* as far as the writer counts one more, below FailLimit, or ends it.      *)
DeadSessionWearsOut ==
  [][status /\ io = "broken" =>
       \/ ~status'
       \/ /\ io' = "broken"
          /\ failedTimes' >= failedTimes
          /\ push = "write" /\ push' # "write" =>
               failedTimes' = failedTimes + 1 /\ failedTimes' < FailLimit]_vars

(* The safety half of DeadSessionGivenUp and of Recovers: after at most    *)
(* FailLimit - m_localRtmpFailedTimes failed writes, one if the counter    *)
(* began beyond the limit, the session is given up.  A reset on success,   *)
(* on a lost frame or on a reconnection would break it.                    *)
THEOREM WearsOut == Spec => DeadSessionWearsOut
<1> DEFINE Wears == status /\ io = "broken" =>
                      \/ ~status'
                      \/ /\ io' = "broken"
                         /\ failedTimes' >= failedTimes
                         /\ push = "write" /\ push' # "write" =>
                              failedTimes' = failedTimes + 1 /\ failedTimes' < FailLimit
<1>1. TypeInv /\ SessionInv /\ [Next]_vars => [Wears]_vars
  <2> SUFFICES ASSUME TypeInv, SessionInv, [Next]_vars, status, io = "broken", status'
               PROVE  /\ io' = "broken"
                      /\ failedTimes' >= failedTimes
                      /\ push = "write" /\ push' # "write" =>
                           failedTimes' = failedTimes + 1 /\ failedTimes' < FailLimit
    OBVIOUS
  <2>0. failedTimes \in Int /\ FailLimit \in Nat
    BY DEF TypeInv, TypeOK
  <2>1. ~Construct /\ ~Restart /\ ~GiveUpSession /\ ~WriteSucceeds
    BY DEF Construct, Restart, RestartFails, RestartSucceeds, GiveUpSession, CloseSession,
           WriteSucceeds, SessionInv
  <2>2. CASE WriteFails
    BY <2>0, <2>2 DEF WriteFails, TooManyFailures
  <2>3. CASE \/ PushFrame \/ LoadCount \/ StoreCount \/ TestCount \/ ClearFrames
             \/ ResetCount \/ SendFrame
    BY <2>0, <2>3 DEF PushFrame, LoadCount, StoreCount, TestCount, ClearFrames, ResetCount, SendFrame
  <2>4. CASE Handle \/ CheckSession \/ EncodeSucceeds \/ EncodeFails \/ LoadUncount \/ StoreUncount
    BY <2>0, <2>4 DEF Handle, CheckSession, EncodeSucceeds, EncodeFails, LoadUncount, StoreUncount
  <2>5. CASE LinkChanges \/ UNCHANGED vars
    BY <2>0, <2>5 DEF LinkChanges, LinkFlips, vars
  <2>6. QED
    BY <2>1, <2>2, <2>3, <2>4, <2>5 DEF Next, CaptureStep, PushStep
<1>2. QED
  BY <1>1, SessionStarts, SessionStep, TypeInvariant, PTL DEF Spec, DeadSessionWearsOut
=============================================================================
