---------------------------- MODULE PipelineProofs ----------------------------
(***************************************************************************)
(* What holds of Pipeline for every number of frames, every length of time *)
(* and every number of settings of the clock.                              *)
(***************************************************************************)
EXTENDS Pipeline, FiniteSetTheorems, TLAPS

(* Where the threads may be, given the objects that are there.             *)
Phases ==
  /\ captureBox = 1 => capture = "wait"
  /\ ~CaptureTold => late = 0
  /\ CaptureTold => late + captureBox + (IF capture = "enqueue" THEN 1 ELSE 0) <= 1
  /\ owner \notin {"run", "clearCapture", "joinCapture"} => capture = "exited"
  /\ capture \in Holding \cup {"grab"} => pushRtmp = "live"
  /\ capture \in {"open", "construct"} => pushRtmp \in {"garbage", "null"}
  /\ pushRtmp = "live" <=> encoder
  /\ push # "none" <=> pushRtmp \in {"live", "deleted"}
  /\ pushRtmp = "deleted" => owner = "done" /\ push = "exited"
  /\ owner \in {"dropPush", "deleteEncoder"} => push = "exited"
  /\ owner \in {"clearPush", "joinPush", "dropPush", "deleteEncoder"} => pushRtmp = "live"
  /\ owner = "done" => pushRtmp # "live"
  /\ handling # {} => push \in {"write", "free"}

(* The messages are those of the pictures grabbed so far, in one place each. *)
Boxed ==
  /\ \A m \in accepted : \E k \in 1 .. grabbed : m = Frame(k)
  /\ capture \in {"open", "construct", "grab"} => grabbed < MaxFrames
  /\ capture \in Holding => grabbed >= 1 /\ Frame(grabbed) \notin accepted
  /\ pending \cup handling \cup cleared \subseteq accepted
  /\ pending \cap handling = {}
  /\ \A m, n \in handling : m = n

(* A frame that was overtaken is due later than the one that overtook it.  *)
Ordered ==
  /\ last > 0 => Frame(last) \in accepted
  /\ last > 0 => \A n \in pending \cup handling : n[2] < last => when[n] > when[Frame(last)]
  /\ \A m \in handling, n \in pending : n[2] < m[2] => when[n] > when[m]

IInv == TypeOK /\ Phases /\ FramesOwned /\ Boxed /\ Ordered

LEMMA FramesAreMessages ==
  /\ Frames = {"capture"} \X (1 .. MaxFrames)
  /\ \A m \in Frames : m[2] \in 1 .. MaxFrames /\ m = Frame(m[2])
  /\ \A k \in 1 .. MaxFrames : Frame(k) \in Frames /\ Frame(k)[2] = k
  /\ \A j, k : Frame(j) = Frame(k) => j = k
BY DEF Frames, PushBox!Messages, Frame

LEMMA InitHolds == Init => IInv
<1> SUFFICES ASSUME Init PROVE IInv
  OBVIOUS
<1>1. TypeOK
  <2>1. when \in [Frames -> Int]
    BY DEF Init
  <2>2. encoder \in BOOLEAN /\ gone \in BOOLEAN
    BY Zenon DEF Init
  <2>3. now \in 0 .. MaxNow /\ backs \in 0 .. MaxBacks /\ grabbed \in 0 .. MaxFrames /\ last \in 0 .. MaxFrames
    BY BoundsAreNumbers DEF Init
  <2>4. QED
    BY <2>1, <2>2, <2>3 DEF Init, TypeOK, Owners
<1>2. Phases
  BY DEF Init, Phases, CaptureTold, Holding
<1>3. FramesOwned /\ Boxed /\ Ordered
  BY DEF Init, FramesOwned, Boxed, Ordered, Held, Holding
<1>4. QED
  BY <1>1, <1>2, <1>3 DEF IInv

-----------------------------------------------------------------------------
(* The steps, sorted by what they change.                                  *)
USE DEF Goes, Proceeds, Dies

Moves == OpenFails \/ OpenSucceeds \/ TestPush \/ Requeue \/ KeepFrames \/ CaptureExits
Deaths == ConstructDies \/ GrabFails \/ UsesDeletedLooper \/ DeleteGarbage
Advances == \/ BeginTeardown \/ JoinCapture \/ DropCapture \/ DeletePush \/ DeleteNothing
            \/ JoinPush \/ DropPush
Clocks == Tick \/ SetBack

LEMMA StepCases ==
  Step => \/ Moves \/ Deaths \/ Advances \/ Clocks
          \/ Begin \/ Construct \/ Grab \/ ClearFrames \/ StampFrame \/ AcceptFrame \/ Enqueue
          \/ \E m \in Frames : Take(m) \/ Write(m)
          \/ Skip \/ Free \/ PushExits \/ ClearCapture \/ ClearPush \/ DeleteEncoder
BY DEF Step, CaptureStep, PushStep, OwnerStep, Moves, Deaths, Advances, Clocks

LEMMA TypeStep == IInv /\ Step => TypeOK'
<1> SUFFICES ASSUME IInv, Step PROVE TypeOK'
  OBVIOUS
<1> USE DEF TypeOK, Owners, Holding, clockVars, captureVars, pushVars, frameVars, objectVars, boxVars
<1>0. TypeOK
  BY DEF IInv
<1>1. CASE Begin
  BY <1>0, <1>1 DEF Begin, Began
<1>2. CASE Moves
  BY <1>0, <1>2 DEF Moves, OpenFails, OpenSucceeds, TestPush, Requeue, KeepFrames, CaptureExits
<1>3. CASE Construct
  BY <1>0, <1>3 DEF Construct
<1>4. CASE Deaths
  <2>1. gone' = TRUE
    BY <1>4 DEF Deaths, ConstructDies, GrabFails, UsesDeletedLooper, DeleteGarbage
  <2>2. gone' \in BOOLEAN
    BY <2>1, Zenon
  <2>3. UNCHANGED <<clockVars, boxVars, captureVars, pushVars, frameVars, objectVars, owner>>
    BY <1>4 DEF Deaths, ConstructDies, GrabFails, UsesDeletedLooper, DeleteGarbage
  <2>4. QED
    BY <1>0, <2>2, <2>3
<1>5. CASE Grab
  <2>1. grabbed + 1 \in 1 .. MaxFrames
    BY <1>0, <1>5, BoundsAreNumbers DEF Grab, IInv, Boxed
  <2>2. QED
    BY <1>0, <1>5, <2>1, FramesAreMessages DEF Grab
<1>6. CASE ClearFrames \/ ClearPush
  BY <1>0, <1>6 DEF ClearFrames, ClearPush, PushBox!Clear
<1>7. CASE StampFrame
  <2>1. now \in Int
    BY <1>0, BoundsAreNumbers
  <2>2. when' \in [Frames -> Int]
    BY <1>0, <1>7, <2>1 DEF StampFrame
  <2>3. QED
    BY <1>0, <1>7, <2>2 DEF StampFrame, PushBox!Stamp
<1>8. CASE AcceptFrame
  <2>1. Frame(grabbed) \in Frames
    BY <1>0, <1>8, BoundsAreNumbers, FramesAreMessages DEF AcceptFrame, IInv, Boxed
  <2>2. QED
    BY <1>0, <1>8, <2>1 DEF AcceptFrame, PushBox!Accept
<1>9. CASE Enqueue
  BY <1>0, <1>9 DEF Enqueue, IInv, Phases
<1>10. CASE \E m \in Frames : Take(m)
  BY <1>0, <1>10 DEF Take, PushBox!Handle
<1>11. CASE \E m \in Frames : Write(m)
  BY <1>0, <1>11, FramesAreMessages DEF Write
<1>12. CASE Skip \/ PushExits \/ ClearCapture
  BY <1>0, <1>12 DEF Skip, PushExits, ClearCapture
<1>16. CASE DeleteEncoder
  <2>1. encoder' \in BOOLEAN
    BY <1>16, Zenon DEF DeleteEncoder
  <2>2. QED
    BY <1>0, <1>16, <2>1 DEF DeleteEncoder
<1>13. CASE Free
  BY <1>0, <1>13 DEF Free, PushBox!Finish
<1>14. CASE Advances
  BY <1>0, <1>14 DEF Advances, BeginTeardown, JoinCapture, DropCapture,
     DeletePush, DeleteNothing, JoinPush, DropPush
<1>15. CASE Clocks
  BY <1>0, <1>15, BoundsAreNumbers DEF Clocks, Tick, SetBack, PushBox!Clock
<1>17. QED
  BY StepCases, <1>1, <1>2, <1>3, <1>4, <1>5, <1>6, <1>7, <1>8, <1>9, <1>10, <1>11, <1>12,
     <1>13, <1>14, <1>15, <1>16

LEMMA PhasesStep == IInv /\ Step => Phases'
<1> SUFFICES ASSUME IInv, Step PROVE Phases'
  OBVIOUS
<1> USE DEF Phases, CaptureTold, CaptureQuit, PushTold, PushQuit, Holding,
            clockVars, captureVars, pushVars, frameVars, objectVars, boxVars
<1>0. /\ Phases
      /\ captureBox \in 0 .. 1 /\ late \in 0 .. 2 /\ owner \in Owners
      /\ encoder \in BOOLEAN /\ pushRtmp \in {"garbage", "null", "live", "deleted"}
  BY DEF IInv, TypeOK
<1>1. CASE Begin
  BY <1>0, <1>1 DEF Begin, Began
<1>2. CASE Moves
  BY <1>0, <1>2 DEF Moves, OpenFails, OpenSucceeds, TestPush, Requeue, KeepFrames, CaptureExits
<1>3. CASE Construct
  BY <1>0, <1>3 DEF Construct
<1>4. CASE Deaths
  BY <1>0, <1>4 DEF Deaths, ConstructDies, GrabFails, UsesDeletedLooper, DeleteGarbage
<1>5. CASE Grab
  BY <1>0, <1>5 DEF Grab
<1>6. CASE ClearFrames
  BY <1>0, <1>6 DEF ClearFrames, PushBox!Clear
<1>7. CASE StampFrame
  BY <1>0, <1>7 DEF StampFrame, PushBox!Stamp
<1>8. CASE AcceptFrame
  BY <1>0, <1>8 DEF AcceptFrame, PushBox!Accept
<1>9. CASE Enqueue
  BY <1>0, <1>9 DEF Enqueue
<1>10. CASE \E m \in Frames : Take(m)
  BY <1>0, <1>10 DEF Take, PushBox!Handle
<1>11. CASE \E m \in Frames : Write(m)
  BY <1>0, <1>11 DEF Write
<1>12. CASE Skip \/ PushExits \/ DeleteEncoder
  BY <1>0, <1>12 DEF Skip, PushExits, DeleteEncoder, IInv
<1>13. CASE Free
  BY <1>0, <1>13 DEF Free, PushBox!Finish
<1>14. CASE Advances
  BY <1>0, <1>14 DEF Advances, BeginTeardown, JoinCapture, DropCapture,
     DeletePush, DeleteNothing, JoinPush, DropPush
<1>15. CASE Clocks
  BY <1>0, <1>15 DEF Clocks, Tick, SetBack, PushBox!Clock
<1>16. CASE ClearCapture
  BY <1>0, <1>16 DEF ClearCapture
<1>17. CASE ClearPush
  BY <1>0, <1>17 DEF ClearPush, PushBox!Clear
<1>18. QED
  BY StepCases, <1>1, <1>2, <1>3, <1>4, <1>5, <1>6, <1>7, <1>8, <1>9, <1>10, <1>11, <1>12,
     <1>13, <1>14, <1>15, <1>16, <1>17

(* The picture in hand is in no mailbox yet.                               *)
LEMMA InHand ==
  ASSUME IInv, capture \in Holding
  PROVE  /\ grabbed \in 1 .. MaxFrames
         /\ Frame(grabbed) \in Frames /\ Frame(grabbed)[2] = grabbed
         /\ Frame(grabbed) \notin accepted \cup pending \cup handling \cup cleared
         /\ \A n \in accepted : n[2] < grabbed
<1>1. grabbed \in 1 .. MaxFrames /\ Frame(grabbed) \notin accepted
  BY BoundsAreNumbers DEF IInv, TypeOK, Boxed
<1>2. Frame(grabbed) \in Frames /\ Frame(grabbed)[2] = grabbed
  BY <1>1, FramesAreMessages
<1>3. Frame(grabbed) \notin pending \cup handling \cup cleared
  BY <1>1 DEF IInv, Boxed
<1>4. ASSUME NEW n \in accepted PROVE n[2] < grabbed
  <2>1. PICK k \in 1 .. grabbed : n = Frame(k)
    BY DEF IInv, Boxed
  <2>2. k # grabbed
    BY <1>1, <2>1
  <2>3. k \in 1 .. MaxFrames
    BY <1>1, BoundsAreNumbers
  <2>4. n[2] = k
    BY <2>1, <2>3, FramesAreMessages
  <2>5. QED
    BY <1>1, <2>2, <2>4
<1>5. QED
  BY <1>1, <1>2, <1>3, <1>4

LEMMA OwnedStep == IInv /\ Step => FramesOwned'
<1> SUFFICES ASSUME IInv, Step PROVE FramesOwned'
  OBVIOUS
<1> USE DEF FramesOwned, Held, Holding,
            clockVars, captureVars, pushVars, frameVars, objectVars, boxVars
<1>0. FramesOwned
  BY DEF IInv
<1>1. CASE Begin
  BY <1>0, <1>1 DEF Begin
<1>2. CASE Moves
  <2>1. CASE TestPush
    <3>1. ~PushQuit
      <4>1. capture = "test"
        BY <2>1 DEF TestPush
      <4>2. owner \notin {"run", "clearCapture", "joinCapture"} => capture = "exited"
        BY DEF IInv, Phases
      <4>3. QED
        BY <4>1, <4>2 DEF PushQuit
    <3>2. QED
      BY <1>0, <2>1, <3>1 DEF TestPush
  <2>2. CASE Moves /\ ~TestPush
    BY <1>0, <2>2 DEF Moves, OpenFails, OpenSucceeds, Requeue, KeepFrames, CaptureExits
  <2>3. QED
    BY <1>2, <2>1, <2>2
<1>3. CASE Construct \/ Enqueue
  BY <1>0, <1>3 DEF Construct, Enqueue
<1>4. CASE Deaths
  BY <1>0, <1>4 DEF Deaths, ConstructDies, GrabFails, UsesDeletedLooper, DeleteGarbage
<1>5. CASE Grab
  <2>1. Frame(grabbed + 1) \notin cleared
    <3>1. ASSUME Frame(grabbed + 1) \in cleared PROVE FALSE
      <4>1. PICK k \in 1 .. grabbed : Frame(grabbed + 1) = Frame(k)
        BY <3>1 DEF IInv, Boxed
      <4>2. grabbed + 1 = k /\ grabbed \in Nat
        BY <4>1, FramesAreMessages DEF IInv, TypeOK
      <4>3. QED
        BY <4>1, <4>2
    <3>2. QED
      BY <3>1
  <2>2. Held = {} /\ Held' = {Frame(grabbed + 1)}
    BY <1>5 DEF Grab
  <2>3. QED
    BY <1>0, <1>5, <2>1, <2>2 DEF Grab
<1>6. CASE ClearFrames \/ ClearPush
  <2>1. Held' = Held
    BY <1>6 DEF ClearFrames, ClearPush
  <2>2. handling \cap pending = {} /\ (capture \in Holding => Frame(grabbed) \notin pending)
    BY InHand DEF IInv, Boxed
  <2>3. pending' = {} /\ cleared' = cleared \cup pending /\ handling' = handling /\ live' = live
    BY <1>6 DEF ClearFrames, ClearPush, PushBox!Clear
  <2>4. QED
    BY <1>0, <2>1, <2>2, <2>3
<1>7. CASE StampFrame
  BY <1>0, <1>7 DEF StampFrame, PushBox!Stamp
<1>8. CASE AcceptFrame
  BY <1>0, <1>8 DEF AcceptFrame, PushBox!Accept
<1>9. CASE \E m \in Frames : Take(m)
  <2>1. handling = {} /\ UNCHANGED <<live, cleared, capture, grabbed>>
        /\ \E m \in pending : pending' = pending \ {m} /\ handling' = {m}
    BY <1>9 DEF Take, PushBox!Handle
  <2>2. QED
    BY <1>0, <2>1
<1>10. CASE \E m \in Frames : Write(m)
  BY <1>0, <1>10 DEF Write
<1>11. CASE Skip \/ PushExits \/ ClearCapture \/ DeleteEncoder
  BY <1>0, <1>11 DEF Skip, PushExits, ClearCapture, DeleteEncoder
<1>12. CASE Free
  <2>1. live' = live \ handling /\ handling' = {} /\ UNCHANGED <<pending, cleared, capture, grabbed>>
    BY <1>12 DEF Free, PushBox!Finish
  <2>2. Held \cap handling = {} /\ pending \cap handling = {} /\ cleared \cap handling = {}
    BY <1>0, InHand DEF IInv, Boxed
  <2>3. Held' = Held
    BY <2>1
  <2>4. QED
    BY <1>0, <2>1, <2>2, <2>3
<1>13. CASE Advances
  BY <1>0, <1>13 DEF Advances, BeginTeardown, JoinCapture, DropCapture,
     DeletePush, DeleteNothing, JoinPush, DropPush
<1>14. CASE Clocks
  BY <1>0, <1>14 DEF Clocks, Tick, SetBack, PushBox!Clock
<1>15. QED
  BY StepCases, <1>1, <1>2, <1>3, <1>4, <1>5, <1>6, <1>7, <1>8, <1>9, <1>10, <1>11, <1>12,
     <1>13, <1>14

LEMMA BoxedStep == IInv /\ Step => Boxed'
<1> SUFFICES ASSUME IInv, Step PROVE Boxed'
  OBVIOUS
<1> USE DEF Boxed, Holding,
            clockVars, captureVars, pushVars, frameVars, objectVars, boxVars
<1>0. Boxed /\ grabbed \in Nat
  BY DEF IInv, TypeOK
<1>1. CASE Begin
  BY <1>0, <1>1, BoundsAreNumbers DEF Begin
<1>2. CASE Moves
  BY <1>0, <1>2 DEF Moves, OpenFails, OpenSucceeds, TestPush, Requeue, KeepFrames, CaptureExits
<1>3. CASE Construct \/ Enqueue
  BY <1>0, <1>3 DEF Construct, Enqueue
<1>4. CASE Deaths
  BY <1>0, <1>4 DEF Deaths, ConstructDies, GrabFails, UsesDeletedLooper, DeleteGarbage
<1>5. CASE Grab
  <2>1. grabbed' = grabbed + 1 /\ capture' = "offer"
        /\ UNCHANGED <<accepted, pending, handling, cleared>>
    BY <1>5 DEF Grab
  <2>2. \A m \in accepted : \E k \in 1 .. grabbed + 1 : m = Frame(k)
    BY <1>0
  <2>3. Frame(grabbed + 1) \notin accepted
    <3>1. ASSUME NEW k \in 1 .. grabbed PROVE Frame(grabbed + 1) # Frame(k)
      BY <1>0, FramesAreMessages
    <3>2. QED
      BY <1>0, <3>1
  <2>4. QED
    BY <1>0, <2>1, <2>2, <2>3
<1>6. CASE ClearFrames \/ ClearPush
  BY <1>0, <1>6 DEF ClearFrames, ClearPush, PushBox!Clear
<1>7. CASE StampFrame
  BY <1>0, <1>7 DEF StampFrame, PushBox!Stamp
<1>8. CASE AcceptFrame
  <2>1. grabbed \in 1 .. grabbed
    BY <1>0, <1>8 DEF AcceptFrame
  <2>2. QED
    BY <1>0, <1>8, <2>1 DEF AcceptFrame, PushBox!Accept
<1>9. CASE \E m \in Frames : Take(m)
  BY <1>0, <1>9 DEF Take, PushBox!Handle
<1>10. CASE \E m \in Frames : Write(m)
  BY <1>0, <1>10 DEF Write
<1>11. CASE Skip \/ PushExits \/ ClearCapture \/ DeleteEncoder
  BY <1>0, <1>11 DEF Skip, PushExits, ClearCapture, DeleteEncoder
<1>12. CASE Free
  BY <1>0, <1>12 DEF Free, PushBox!Finish
<1>13. CASE Advances
  BY <1>0, <1>13 DEF Advances, BeginTeardown, JoinCapture, DropCapture,
     DeletePush, DeleteNothing, JoinPush, DropPush
<1>14. CASE Clocks
  BY <1>0, <1>14 DEF Clocks, Tick, SetBack, PushBox!Clock
<1>15. QED
  BY StepCases, <1>1, <1>2, <1>3, <1>4, <1>5, <1>6, <1>7, <1>8, <1>9, <1>10, <1>11, <1>12,
     <1>13, <1>14

(* A step that keeps when, and brings no new message to pending or         *)
(* handling, keeps the order.                                              *)
LEMMA OrderShrinks ==
  ASSUME IInv, UNCHANGED <<when, last>>, accepted \subseteq accepted',
         pending' \subseteq pending, handling' \subseteq handling
  PROVE  Ordered'
BY DEF IInv, Ordered

LEMMA OrderedStep == IInv /\ Step => Ordered'
<1> SUFFICES ASSUME IInv, Step PROVE Ordered'
  OBVIOUS
<1> USE DEF clockVars, captureVars, pushVars, frameVars, objectVars, boxVars
<1>0. /\ Ordered /\ last \in 0 .. MaxFrames /\ when \in [Frames -> Int]
      /\ pending \subseteq accepted /\ handling \subseteq accepted /\ accepted \subseteq Frames
      /\ grabbed \in 0 .. MaxFrames /\ MaxFrames \in Nat
      /\ \A m \in Frames : m[2] \in 1 .. MaxFrames
  BY FramesAreMessages, BoundsAreNumbers DEF IInv, TypeOK, Boxed
<1>1. CASE StampFrame
  <2>1. /\ capture \in Holding /\ when' = [when EXCEPT ![Frame(grabbed)] = now]
        /\ UNCHANGED <<accepted, pending, handling, last>>
    BY <1>1 DEF StampFrame, PushBox!Stamp, Holding
  <2>2. \A n \in accepted : when'[n] = when[n]
    BY <1>0, <2>1, InHand
  <2>3. QED
    BY <1>0, <2>1, <2>2 DEF Ordered
<1>2. CASE AcceptFrame
  <2> DEFINE new == Frame(grabbed)
  <2>1. /\ capture \in Holding /\ accepted' = accepted \cup {new} /\ pending' = pending \cup {new}
        /\ UNCHANGED <<when, handling, last>>
    BY <1>2 DEF AcceptFrame, PushBox!Accept, Holding
  <2>2. new[2] = grabbed /\ \A n \in accepted : n[2] < grabbed
    BY <2>1, InHand
  <2>3. last > 0 => last < grabbed
    <3>1. ASSUME last > 0 PROVE last < grabbed
      <4>1. Frame(last) \in accepted /\ Frame(last)[2] = last
        BY <1>0, <3>1, FramesAreMessages DEF Ordered
      <4>2. QED
        BY <2>2, <4>1
    <3>2. QED
      BY <3>1
  <2>4. last > 0 => ~(new[2] < last)
    BY <1>0, <2>2, <2>3
  <2>5. \A m \in handling : ~(new[2] < m[2])
    BY <1>0, <2>2
  <2> HIDE DEF new
  <2>6. QED
    BY <1>0, <2>1, <2>4, <2>5 DEF Ordered
<1>3. CASE \E m \in Frames : Take(m)
  <2>1. PICK m \in Frames : Take(m)
    BY <1>3
  <2>2. /\ m \in pending /\ pending' = pending \ {m} /\ handling' = {m}
        /\ UNCHANGED <<when, accepted, last>>
        /\ \A n \in pending : PushBox!Older(n, m) => when[m] < when[n]
    BY <2>1 DEF Take, PushBox!Handle
  <2>3. \A n \in pending : n[2] < m[2] => when[m] < when[n]
    <3>1. \A n \in Frames : n[1] = "capture"
      BY DEF Frames, PushBox!Messages
    <3>2. \A n \in pending : n \in Frames
      BY <1>0
    <3>3. QED
      BY <2>2, <3>1, <3>2 DEF PushBox!Older
  <2>4. \A n \in pending : when[n] \in Int
    BY <1>0
  <2>5. QED
    BY <1>0, <2>2, <2>3, <2>4 DEF Ordered
<1>4. CASE \E m \in Frames : Write(m)
  <2>1. PICK m \in handling : last' = m[2] /\ UNCHANGED <<when, accepted, pending, handling>>
    BY <1>4 DEF Write
  <2>2. m \in accepted /\ Frame(m[2]) = m
    BY <1>0, <2>1, FramesAreMessages
  <2>3. \A n \in handling : n = m
    BY <2>1 DEF IInv, Boxed
  <2>4. m[2] \in Int
    BY <1>0, <2>2
  <2>5. QED
    BY <1>0, <2>1, <2>2, <2>3, <2>4 DEF Ordered
<1>5. CASE \/ Moves \/ Deaths \/ Advances \/ Clocks
           \/ Begin \/ Construct \/ Grab \/ Enqueue
           \/ Skip \/ PushExits \/ ClearCapture \/ DeleteEncoder
  <2>1. UNCHANGED <<when, last, accepted, pending, handling>>
    BY <1>5 DEF Moves, OpenFails, OpenSucceeds, TestPush, Requeue, KeepFrames, CaptureExits,
       Deaths, ConstructDies, GrabFails, UsesDeletedLooper, DeleteGarbage, Advances, BeginTeardown, JoinCapture,
       DropCapture, DeletePush, DeleteNothing, JoinPush, DropPush, Clocks, Tick, SetBack,
       PushBox!Clock, Begin, Construct, Grab, Enqueue, Skip, PushExits, ClearCapture, DeleteEncoder
  <2>2. QED
    BY <2>1, OrderShrinks
<1>6. CASE ClearFrames \/ ClearPush \/ Free
  <2>1. /\ UNCHANGED <<when, last, accepted>>
        /\ pending' \subseteq pending /\ handling' \subseteq handling
    BY <1>6 DEF ClearFrames, ClearPush, Free, PushBox!Clear, PushBox!Finish
  <2>2. QED
    BY <2>1, OrderShrinks
<1>7. QED
  BY StepCases, <1>1, <1>2, <1>3, <1>4, <1>5, <1>6

LEMMA Inductive == Spec => []IInv
<1>1. IInv /\ [Next]_vars => IInv'
  <2> SUFFICES ASSUME IInv, [Next]_vars PROVE IInv'
    OBVIOUS
  <2>1. CASE Step
    BY <2>1, TypeStep, PhasesStep, OwnedStep, BoxedStep, OrderedStep DEF IInv
  <2>2. CASE UNCHANGED vars
    <3>1. UNCHANGED <<clockVars, boxVars, captureVars, pushVars, frameVars, objectVars, owner, gone>>
      BY <2>2 DEF vars
    <3> USE DEF clockVars, captureVars, pushVars, frameVars, objectVars, boxVars
    <3>2. TypeOK' /\ Phases'
      BY <3>1 DEF IInv, TypeOK, Phases, CaptureTold
    <3>3. FramesOwned' /\ Boxed' /\ Ordered'
      BY <3>1 DEF IInv, FramesOwned, Held, Boxed, Ordered
    <3>4. QED
      BY <3>2, <3>3 DEF IInv
  <2>3. QED
    BY <2>1, <2>2 DEF Next, Over
<1>2. QED
  BY <1>1, InitHolds, PTL DEF Spec

-----------------------------------------------------------------------------
(* Every variable stays in its set; in particular, the capture thread's    *)
(* mailbox never holds two messages, so no camera is driven twice.         *)
THEOREM TypesHold == Spec => []TypeOK
<1>1. IInv => TypeOK
  BY DEF IInv
<1>2. QED
  BY <1>1, Inductive, PTL

(* Pictures are lost only in a clear, and none is used after its deletion. *)
THEOREM OwnedAlways == Spec => []FramesOwned
<1>1. IInv => FramesOwned
  BY DEF IInv
<1>2. QED
  BY <1>1, Inductive, PTL

(* No thread uses an object that has been deleted, or outlives them all.   *)
THEOREM ObjectsOutliveTheirUsers == Spec => []UsesLiveObjects
<1>1. IInv => UsesLiveObjects
  <2> SUFFICES ASSUME IInv PROVE UsesLiveObjects
    OBVIOUS
  <2>1. Phases /\ owner \in Owners /\ pushRtmp \in {"garbage", "null", "live", "deleted"}
    BY DEF IInv, TypeOK
  <2>2. QED
    BY <2>1 DEF Phases, UsesLiveObjects, PushQuit, Holding
<1>2. QED
  BY <1>1, Inductive, PTL

(* At most one message is handled after the last clear of a quit.          *)
THEOREM OneLate == Spec => []OneLateCapture
<1>1. IInv => OneLateCapture
  <2> SUFFICES ASSUME IInv PROVE OneLateCapture
    OBVIOUS
  <2>1. Phases /\ late \in 0 .. 2 /\ captureBox \in 0 .. 1
    BY DEF IInv, TypeOK
  <2>2. QED
    BY <2>1 DEF Phases, OneLateCapture
<1>2. QED
  BY <1>1, Inductive, PTL

(* Frames are written in the order of their sending times, and in the      *)
(* order they were grabbed among frames sent at the same time.             *)
THEOREM OrderKept == Spec => WrittenInOrder
<1>1. ASSUME IInv, [Next]_vars
      PROVE  [ last' # last => \/ last' > last
                               \/ when[Frame(last')] > when[Frame(last)] ]_vars
  <2> SUFFICES ASSUME last' # last, ~(last' > last)
               PROVE  when[Frame(last')] > when[Frame(last)]
    OBVIOUS
  <2>1. ASSUME ~(\E m \in Frames : Write(m)) PROVE last' = last
    <3> USE DEF clockVars, captureVars, pushVars, frameVars, objectVars, boxVars
    <3>1. CASE \/ Moves \/ Deaths \/ Advances \/ Clocks
      BY <3>1 DEF Moves, OpenFails, OpenSucceeds, TestPush, Requeue, KeepFrames, CaptureExits,
         Deaths, ConstructDies, GrabFails, UsesDeletedLooper, DeleteGarbage, Advances, BeginTeardown, JoinCapture, DropCapture,
         DeletePush, DeleteNothing, JoinPush, DropPush, Clocks, Tick, SetBack
    <3>2. CASE \/ Begin \/ Construct \/ Grab \/ ClearFrames \/ StampFrame \/ AcceptFrame \/ Enqueue
               \/ \E m \in Frames : Take(m)
               \/ Skip \/ Free \/ PushExits \/ ClearCapture \/ ClearPush \/ DeleteEncoder
      BY <3>2 DEF Begin, Construct, Grab, ClearFrames, StampFrame, AcceptFrame, Enqueue, Take,
         Skip, Free, PushExits, ClearCapture, ClearPush, DeleteEncoder
    <3>3. CASE UNCHANGED vars
      BY <3>3 DEF vars
    <3>4. QED
      BY <1>1, <2>1, <3>1, <3>2, <3>3, StepCases DEF Next, Over
  <2>2. PICK m \in Frames : Write(m)
    BY <2>1
  <2>3. m \in handling /\ last' = m[2]
    BY <2>2 DEF Write
  <2>4. m[2] \in 1 .. MaxFrames /\ Frame(m[2]) = m /\ last \in 0 .. MaxFrames /\ MaxFrames \in Nat
    BY <1>1, FramesAreMessages, BoundsAreNumbers DEF IInv, TypeOK
  <2>5. last > 0 /\ m[2] < last
    BY <2>3, <2>4
  <2>6. QED
    BY <1>1, <2>3, <2>4, <2>5 DEF IInv, Ordered
<1>2. QED
  BY <1>1, Inductive, PTL DEF Spec, WrittenInOrder

-----------------------------------------------------------------------------
(* The work that is left.                                                  *)
LEMMA FramesFinite ==
  ASSUME NEW S \in SUBSET Frames
  PROVE  IsFiniteSet(S) /\ Cardinality(S) \in Nat
<1>1. IsFiniteSet({"capture"})
  BY FS_Singleton
<1>2. IsFiniteSet(1 .. MaxFrames)
  BY FS_Interval, BoundsAreNumbers
<1>3. IsFiniteSet(Frames)
  BY <1>1, <1>2, FS_Product, FramesAreMessages
<1>4. QED
  BY <1>3, FS_Subset, FS_CardinalityType

(* What the threads have left to do, apart from the frames in the mailbox. *)
PushSteps == [write |-> 3, free |-> 2, wait |-> 1, none |-> 0, exited |-> 0][push]

LEMMA WorkIsNumber ==
  ASSUME TypeOK
  PROVE  /\ CaptureWork \in Nat /\ PushSteps \in Nat /\ OwnerWork \in Nat
         /\ Cardinality(pending) \in Nat
         /\ PushWork = 3 * Cardinality(pending) + PushSteps
<1>1. Cardinality(pending) \in Nat
  BY FramesFinite DEF TypeOK
<1>2. CaptureWork \in Nat
  BY DEF TypeOK, CaptureWork, Holding
<1>3. PushSteps \in Nat
  BY DEF TypeOK, PushSteps
<1>4. OwnerWork \in Nat
  BY DEF TypeOK, OwnerWork, Owners
<1>5. QED
  BY <1>1, <1>2, <1>3, <1>4 DEF PushWork, PushSteps

LEMMA WorkIsNumberNext ==
  ASSUME TypeOK'
  PROVE  /\ CaptureWork' \in Nat /\ PushSteps' \in Nat /\ OwnerWork' \in Nat
         /\ Cardinality(pending') \in Nat
         /\ PushWork' = 3 * Cardinality(pending') + PushSteps'
<1>1. Cardinality(pending') \in Nat
  BY FramesFinite DEF TypeOK
<1>2. CaptureWork' \in Nat
  BY DEF TypeOK, CaptureWork, Holding
<1>3. PushSteps' \in Nat
  BY DEF TypeOK, PushSteps
<1>4. OwnerWork' \in Nat
  BY DEF TypeOK, OwnerWork, Owners
<1>5. QED
  BY <1>1, <1>2, <1>3, <1>4 DEF PushWork, PushSteps

(* A step lowers the sum when, weighed as in WorkLeft, it lowers more than *)
(* it raises.                                                              *)
LEMMA Weighed ==
  ASSUME TypeOK, TypeOK',
         NEW c \in Int, NEW n \in Int, NEW p \in Int, NEW o \in Int, NEW g \in Int,
         CaptureWork' = CaptureWork + c, Cardinality(pending') = Cardinality(pending) + n,
         PushSteps' = PushSteps + p, OwnerWork' = OwnerWork + o,
         (IF gone' THEN 0 ELSE 1) = (IF gone THEN 0 ELSE 1) + g
  PROVE  WorkLeft' = WorkLeft + (4 * c + 3 * n + p + o + g)
<1>1. PICK cw \in Nat, ps \in Nat, ow \in Nat, ca \in Nat :
         cw = CaptureWork /\ ps = PushSteps /\ ow = OwnerWork /\ ca = Cardinality(pending)
  BY WorkIsNumber
<1>2. PICK gn \in Int : gn = IF gone THEN 0 ELSE 1
  OBVIOUS
<1>3. WorkLeft = 4 * cw + (3 * ca + ps) + ow + gn
  BY <1>1, <1>2, WorkIsNumber DEF WorkLeft
<1>4. WorkLeft' = 4 * (cw + c) + (3 * (ca + n) + (ps + p)) + (ow + o) + (gn + g)
  BY <1>1, <1>2, WorkIsNumberNext DEF WorkLeft
<1>5. QED
  BY <1>3, <1>4

(* Steps of the capture thread after the quit: it goes on by one place at  *)
(* least, since it sends itself no message any more, and brings the push   *)
(* thread to life or one frame at most.                                    *)
LEMMA CaptureAdvances == IInv /\ Step /\ IInv' /\ owner # "run"
                           /\ (Begin \/ Moves \/ Construct \/ Grab \/ ClearFrames \/ StampFrame \/ AcceptFrame \/ Enqueue)
                         => WorkLeft' < WorkLeft
<1> SUFFICES ASSUME IInv, Step, IInv', owner # "run",
                    Begin \/ Moves \/ Construct \/ Grab \/ ClearFrames \/ StampFrame \/ AcceptFrame \/ Enqueue
             PROVE  WorkLeft' < WorkLeft
  OBVIOUS
<1> USE DEF clockVars, captureVars, pushVars, frameVars, objectVars, boxVars
<1>0. /\ TypeOK /\ TypeOK' /\ Phases /\ captureBox \in 0 .. 1
      /\ owner' = owner /\ gone' = gone
  BY DEF IInv, TypeOK, Begin, Moves, OpenFails, OpenSucceeds, TestPush, Requeue, KeepFrames,
     CaptureExits, Construct, Grab, ClearFrames, StampFrame, AcceptFrame, Enqueue
<1>1. OwnerWork' = OwnerWork + 0 /\ (IF gone' THEN 0 ELSE 1) = (IF gone THEN 0 ELSE 1) + 0
  BY <1>0, WorkIsNumber DEF OwnerWork
<1>2. CaptureWork' < CaptureWork
  <2> USE DEF Phases, CaptureQuit, CaptureTold, CaptureWork, Holding
  <2>1. CASE Begin
    BY <1>0, <2>1 DEF Begin
  <2>2. CASE OpenFails \/ OpenSucceeds \/ TestPush \/ KeepFrames
    BY <1>0, <2>2 DEF OpenFails, OpenSucceeds, TestPush, KeepFrames
  <2>3. CASE Requeue
    BY <1>0, <2>3 DEF Requeue
  <2>4. CASE CaptureExits
    BY <1>0, <2>4 DEF CaptureExits
  <2>5. CASE Construct \/ Grab
    BY <1>0, <2>5 DEF Construct, Grab
  <2>6. CASE ClearFrames \/ StampFrame \/ AcceptFrame
    BY <1>0, <2>6 DEF ClearFrames, StampFrame, AcceptFrame
  <2>7. CASE Enqueue
    BY <1>0, <2>7 DEF Enqueue
  <2>8. QED
    BY <2>1, <2>2, <2>3, <2>4, <2>5, <2>6, <2>7 DEF Moves
<1>3. PICK c \in Int : CaptureWork' = CaptureWork + c /\ c <= -1
  <2>1. PICK a \in Nat, b \in Nat : a = CaptureWork /\ b = CaptureWork'
    BY <1>0, WorkIsNumber, WorkIsNumberNext
  <2>2. b < a
    BY <1>2, <2>1
  <2>3. b - a \in Int /\ b - a <= -1 /\ b = a + (b - a)
    BY <2>2
  <2>4. QED
    BY <2>1, <2>3
<1>5. Cardinality(pending) \in Nat /\ Cardinality(pending') \in Nat
  BY <1>0, WorkIsNumber, WorkIsNumberNext
<1>6. CASE push' = push /\ Cardinality(pending') <= Cardinality(pending) + 1
  <2>1. PushSteps' = PushSteps + 0
    BY <1>0, <1>6, WorkIsNumber DEF PushSteps
  <2>2. PICK n \in Int : Cardinality(pending') = Cardinality(pending) + n /\ n <= 1
    <3>1. PICK d \in Nat, e \in Nat : d = Cardinality(pending) /\ e = Cardinality(pending')
      BY <1>5
    <3>2. e - d \in Int /\ e - d <= 1 /\ e = d + (e - d)
      BY <1>6, <3>1
    <3>3. QED
      BY <3>1, <3>2
  <2>3. WorkLeft' = WorkLeft + (4 * c + 3 * n + 0 + 0 + 0)
    BY <1>0, <1>1, <1>3, <2>1, <2>2, Weighed
  <2>4. WorkLeft \in Int
    BY <1>0, WorkIsNumber DEF WorkLeft
  <2>5. QED
    BY <1>3, <2>2, <2>3, <2>4
<1>7. CASE Construct
  <2>1. PushSteps' = PushSteps + 1 /\ pending' = pending
    BY <1>0, <1>7 DEF Construct, Phases, PushSteps
  <2>2. Cardinality(pending') = Cardinality(pending) + 0
    BY <1>5, <2>1
  <2>3. WorkLeft' = WorkLeft + (4 * c + 3 * 0 + 1 + 0 + 0)
    BY <1>0, <1>1, <1>3, <2>1, <2>2, Weighed
  <2>4. WorkLeft \in Int
    BY <1>0, WorkIsNumber DEF WorkLeft
  <2>5. QED
    BY <1>3, <2>3, <2>4
<1>8. CASE Begin \/ Moves \/ Grab \/ StampFrame \/ Enqueue
  <2>1. push' = push /\ pending' = pending
    BY <1>8 DEF Begin, Moves, OpenFails, OpenSucceeds, TestPush, Requeue, KeepFrames,
       CaptureExits, Grab, StampFrame, PushBox!Stamp, Enqueue
  <2>2. QED
    BY <1>5, <1>6, <2>1
<1>9. CASE ClearFrames
  <2>1. push' = push /\ pending' = {}
    BY <1>9 DEF ClearFrames, PushBox!Clear
  <2>2. QED
    BY <1>5, <1>6, <2>1, FS_EmptySet
<1>10. CASE AcceptFrame
  <2>1. push' = push /\ pending' = pending \cup {Frame(grabbed)}
    BY <1>10 DEF AcceptFrame, PushBox!Accept
  <2>2. IsFiniteSet(pending)
    BY <1>0, FramesFinite DEF TypeOK
  <2>3. Cardinality(pending') <= Cardinality(pending) + 1
    <3>1. Cardinality(pending') \in {Cardinality(pending), Cardinality(pending) + 1}
      BY <2>1, <2>2, FS_AddElement
    <3>2. PICK d \in Nat : d = Cardinality(pending)
      BY <1>5
    <3>3. QED
      BY <3>1, <3>2
  <2>4. QED
    BY <1>6, <2>1, <2>3
<1>11. QED
  BY <1>7, <1>8, <1>9, <1>10

(* Steps of the push thread: what it takes it has less to take.            *)
LEMMA PushAdvances == IInv /\ IInv' /\ ((\E m \in Frames : Take(m) \/ Write(m)) \/ Skip \/ Free \/ PushExits)
                      => WorkLeft' < WorkLeft
<1> SUFFICES ASSUME IInv, IInv', (\E m \in Frames : Take(m) \/ Write(m)) \/ Skip \/ Free \/ PushExits
             PROVE  WorkLeft' < WorkLeft
  OBVIOUS
<1> USE DEF clockVars, captureVars, pushVars, frameVars, objectVars, boxVars
<1>1. TypeOK /\ TypeOK' /\ UNCHANGED <<capture, captureBox, owner, gone>>
  BY DEF IInv, Take, Write, Skip, Free, PushExits
<1>2. /\ CaptureWork' = CaptureWork + 0 /\ OwnerWork' = OwnerWork + 0
      /\ (IF gone' THEN 0 ELSE 1) = (IF gone THEN 0 ELSE 1) + 0
  BY <1>1, WorkIsNumber DEF CaptureWork, OwnerWork
<1>3. WorkLeft \in Int /\ Cardinality(pending) \in Nat /\ IsFiniteSet(pending)
  BY <1>1, WorkIsNumber, FramesFinite DEF WorkLeft, TypeOK
<1>4. CASE \E m \in Frames : Take(m)
  <2>1. PICK m \in pending : pending' = pending \ {m} /\ push = "wait" /\ push' = "write"
    BY <1>4 DEF Take, PushBox!Handle
  <2>2. Cardinality(pending') = Cardinality(pending) + (-1)
    BY <1>3, <2>1, FS_RemoveElement
  <2>3. PushSteps' = PushSteps + 2
    BY <2>1 DEF PushSteps
  <2>4. WorkLeft' = WorkLeft + (4 * 0 + 3 * (-1) + 2 + 0 + 0)
    BY <1>1, <1>2, <2>2, <2>3, Weighed
  <2>5. QED
    BY <1>3, <2>4
<1>5. CASE (\E m \in Frames : Write(m)) \/ Skip \/ Free \/ PushExits
  <2>1. pending' = pending
    BY <1>5 DEF Write, Skip, Free, PushExits, PushBox!Finish
  <2>2. Cardinality(pending') = Cardinality(pending) + 0
    BY <1>3, <2>1
  <2>3. PushSteps' = PushSteps + (-1)
    BY <1>5 DEF Write, Skip, Free, PushExits, PushSteps
  <2>4. WorkLeft' = WorkLeft + (4 * 0 + 3 * 0 + (-1) + 0 + 0)
    BY <1>1, <1>2, <2>2, <2>3, Weighed
  <2>5. QED
    BY <1>3, <2>4
<1>6. QED
  BY <1>4, <1>5

(* Steps of the thread that deletes, of which a clear takes messages away, *)
(* and the end of the process.                                             *)
LEMMA OwnerAdvances == IInv /\ IInv' /\ Step /\ (Advances \/ ClearCapture \/ ClearPush \/ DeleteEncoder \/ Deaths)
                       => WorkLeft' < WorkLeft
<1> SUFFICES ASSUME IInv, IInv', Step, Advances \/ ClearCapture \/ ClearPush \/ DeleteEncoder \/ Deaths
             PROVE  WorkLeft' < WorkLeft
  OBVIOUS
<1> USE DEF clockVars, captureVars, pushVars, frameVars, objectVars, boxVars
<1>1. /\ TypeOK /\ TypeOK' /\ UNCHANGED <<capture, push>> /\ captureBox \in 0 .. 1 /\ ~gone
      /\ pending' \in {pending, {}} /\ captureBox' \in {captureBox, 0}
  BY DEF IInv, TypeOK, Step, Advances, BeginTeardown, JoinCapture, DropCapture,
     DeletePush, DeleteNothing, JoinPush, DropPush,
     ClearCapture, ClearPush, PushBox!Clear, DeleteEncoder, Deaths, ConstructDies, GrabFails, UsesDeletedLooper, DeleteGarbage
<1>2. PushSteps' = PushSteps + 0
  BY <1>1, WorkIsNumber DEF PushSteps
<1>3. WorkLeft \in Int /\ Cardinality(pending) \in Nat /\ Cardinality(pending') \in Nat
      /\ CaptureWork \in Nat /\ CaptureWork' \in Nat
  BY <1>1, WorkIsNumber, WorkIsNumberNext DEF WorkLeft
<1>4. PICK c \in Int : CaptureWork' = CaptureWork + c /\ c <= 0
  <2>1. CaptureWork' <= CaptureWork
    BY <1>1, <1>3 DEF CaptureWork
  <2>2. PICK a \in Nat, b \in Nat : a = CaptureWork /\ b = CaptureWork'
    BY <1>3
  <2>3. b <= a
    BY <2>1, <2>2
  <2>4. b - a \in Int /\ b - a <= 0 /\ b = a + (b - a)
    BY <2>3
  <2>5. QED
    BY <2>2, <2>4
<1>5. PICK n \in Int : Cardinality(pending') = Cardinality(pending) + n /\ n <= 0
  <2>1. PICK d \in Nat, e \in Nat : d = Cardinality(pending) /\ e = Cardinality(pending')
    BY <1>3
  <2>2. e <= d
    BY <1>1, <2>1, FS_EmptySet
  <2>3. e - d \in Int /\ e - d <= 0 /\ e = d + (e - d)
    BY <2>1, <2>2
  <2>4. QED
    BY <2>1, <2>3
<1>6. PICK o \in Int, g \in Int :
         /\ OwnerWork' = OwnerWork + o /\ (IF gone' THEN 0 ELSE 1) = (IF gone THEN 0 ELSE 1) + g
         /\ o + g <= -1
  <2>1. CASE Deaths
    <3>1. gone' = TRUE /\ owner' = owner
      BY <2>1 DEF Deaths, ConstructDies, GrabFails, UsesDeletedLooper, DeleteGarbage
    <3>2. /\ OwnerWork' = OwnerWork + 0
          /\ (IF gone' THEN 0 ELSE 1) = (IF gone THEN 0 ELSE 1) + (-1)
      BY <1>1, <3>1, WorkIsNumber DEF OwnerWork
    <3>3. QED
      BY <3>2
  <2>2. CASE DeleteNothing
    <3>1. OwnerWork' = OwnerWork + (-5) /\ gone' = gone
      BY <2>2 DEF DeleteNothing, OwnerWork
    <3>2. (IF gone' THEN 0 ELSE 1) = (IF gone THEN 0 ELSE 1) + 0
      BY <3>1
    <3>3. QED
      BY <3>1, <3>2
  <2>3. CASE \/ BeginTeardown \/ JoinCapture \/ DropCapture \/ DeletePush \/ JoinPush \/ DropPush
             \/ ClearCapture \/ ClearPush \/ DeleteEncoder
    <3>1. OwnerWork' = OwnerWork + (-1) /\ gone' = gone
      BY <2>3 DEF BeginTeardown, JoinCapture, DropCapture, DeletePush, JoinPush, DropPush,
         ClearCapture, ClearPush, DeleteEncoder, OwnerWork
    <3>2. (IF gone' THEN 0 ELSE 1) = (IF gone THEN 0 ELSE 1) + 0
      BY <3>1
    <3>3. QED
      BY <3>1, <3>2
  <2>4. QED
    BY <2>1, <2>2, <2>3 DEF Advances
<1>7. WorkLeft' = WorkLeft + (4 * c + 3 * n + 0 + o + g)
  BY <1>1, <1>2, <1>4, <1>5, <1>6, Weighed
<1>8. QED
  BY <1>3, <1>4, <1>5, <1>6, <1>7

(* After the quit every step of a thread, whatever the number of frames,   *)
(* leaves less to do, and only time passes without one: the destructors    *)
(* cannot go on for ever.                                                  *)
THEOREM TeardownIsBounded == Spec => TeardownAdvances
<1>1. ASSUME IInv, IInv', [Next]_vars
      PROVE  [owner # "run" => WorkLeft' < WorkLeft \/ (now' # now /\ WorkLeft' = WorkLeft)]_vars
  <2> SUFFICES ASSUME owner # "run", vars' # vars
               PROVE  WorkLeft' < WorkLeft \/ (now' # now /\ WorkLeft' = WorkLeft)
    OBVIOUS
  <2>1. Step
    BY <1>1 DEF Next, Over
  <2>2. CASE Clocks
    <3>1. now' # now
      BY <1>1, <2>2, BoundsAreNumbers DEF Clocks, Tick, SetBack, IInv, TypeOK
    <3>2. UNCHANGED <<capture, captureBox, push, pending, owner, gone>>
      BY <2>2 DEF Clocks, Tick, SetBack, PushBox!Clock, captureVars, pushVars
    <3>3. WorkLeft' = WorkLeft
      BY <3>2 DEF WorkLeft, CaptureWork, PushWork, OwnerWork
    <3>4. QED
      BY <3>1, <3>3
  <2>3. QED
    BY <1>1, <2>1, <2>2, StepCases, CaptureAdvances, PushAdvances, OwnerAdvances
<1>2. QED
  BY <1>1, Inductive, PTL DEF Spec, TeardownAdvances
=============================================================================
