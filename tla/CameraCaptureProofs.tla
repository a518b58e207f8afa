-------------------------- MODULE CameraCaptureProofs --------------------------
(***************************************************************************)
(* The pace of CameraCapture, for every frame rate, every length of a      *)
(* second, every cost of a frame and every change of the wall clock.       *)
(***************************************************************************)
EXTENDS CameraCapture, TLAPS

(* A division by UsecPerMs loses less than a millisecond.                  *)
LEMMA DivisionLoses ==
  ASSUME NEW a \in Nat, NEW d \in Nat \ {0}
  PROVE  /\ a \div d \in Nat /\ a % d \in Nat
         /\ a = d * (a \div d) + (a % d)
         /\ a % d < d
OBVIOUS

LEMMA QuotientLoses ==
  ASSUME NEW a \in Int, NEW d \in Nat \ {0}
  PROVE  /\ Quotient(a, d) \in Int
         /\ a < d * Quotient(a, d) + d /\ d * Quotient(a, d) < a + d
<1>1. CASE a >= 0
  <2>1. Quotient(a, d) = a \div d /\ a \in Nat
    BY <1>1 DEF Quotient
  <2>2. QED
    BY <2>1, DivisionLoses
<1>2. CASE a < 0
  <2> DEFINE b == -a
  <2>1. Quotient(a, d) = -(b \div d) /\ b \in Nat
    BY <1>2 DEF Quotient
  <2>2. /\ b \div d \in Nat /\ b % d \in Nat
        /\ b = d * (b \div d) + (b % d) /\ b % d < d
    BY <2>1, DivisionLoses
  <2>3. d * (-(b \div d)) = -(d * (b \div d))
    BY <2>2
  <2>4. QED
    BY <2>1, <2>2, <2>3
<1>3. QED
  BY <1>1, <1>2

(* What getNextFrameDelay takes for the cost of a frame, seconds carried   *)
(* over or not, is less than a millisecond off.                            *)
LEMMA CostIsClose ==
  ASSUME NEW s \in Nat, NEW e \in Nat
  PROVE  /\ CostMillis(s, e) \in Int
         /\ e - s < UsecPerMs * CostMillis(s, e) + UsecPerMs
         /\ UsecPerMs * CostMillis(s, e) < e - s + UsecPerMs
<1> DEFINE U == UsecPerMs
           M == MsPerSec
           q == Quotient(Usec(e) - Usec(s), U)
<1>1. U \in Nat \ {0} /\ M \in Nat \ {0} /\ M * U \in Nat \ {0}
  BY UnitsArePositive
<1>2. /\ Sec(s) \in Nat /\ Usec(s) \in Nat /\ s = (M * U) * Sec(s) + Usec(s)
      /\ Sec(e) \in Nat /\ Usec(e) \in Nat /\ e = (M * U) * Sec(e) + Usec(e)
  BY <1>1, DivisionLoses DEF Sec, Usec
<1>3. Usec(e) - Usec(s) \in Int
  BY <1>2
<1>4. /\ q \in Int
      /\ Usec(e) - Usec(s) < U * q + U /\ U * q < Usec(e) - Usec(s) + U
  BY <1>1, <1>3, QuotientLoses
<1>5. CostMillis(s, e) = (Sec(e) - Sec(s)) * M + q
  BY DEF CostMillis
<1> HIDE DEF q, U, M
<1>6. U * ((Sec(e) - Sec(s)) * M + q) = (M * U) * Sec(e) - (M * U) * Sec(s) + U * q
  BY <1>1, <1>2, <1>4
<1>7. (M * U) * Sec(e) \in Int /\ (M * U) * Sec(s) \in Int /\ U * q \in Int
  BY <1>1, <1>2, <1>4
<1>8. CostMillis(s, e) \in Int
  BY <1>1, <1>2, <1>4, <1>5
<1>9. /\ e - s < U * CostMillis(s, e) + U
      /\ U * CostMillis(s, e) < e - s + U
  BY <1>1, <1>2, <1>4, <1>5, <1>6, <1>7
<1>10. QED
  BY <1>8, <1>9 DEF U

(* The clock of the messages, in microseconds, runs behind the wall clock  *)
(* by less than a millisecond.                                             *)
LEMMA MillisAreClose ==
  ASSUME wall \in Nat
  PROVE  /\ WallMillis \in Nat
         /\ UsecPerMs * WallMillis <= wall /\ wall < UsecPerMs * WallMillis + UsecPerMs
<1>1. UsecPerMs \in Nat \ {0}
  BY UnitsArePositive
<1>2. /\ wall \div UsecPerMs \in Nat /\ wall % UsecPerMs \in Nat
      /\ wall = UsecPerMs * (wall \div UsecPerMs) + (wall % UsecPerMs)
      /\ wall % UsecPerMs < UsecPerMs
  BY <1>1, DivisionLoses
<1>3. UsecPerMs * (wall \div UsecPerMs) \in Nat
  BY <1>1, <1>2
<1>4. QED
  BY <1>1, <1>2, <1>3 DEF WallMillis

LEMMA PeriodIsNumber == MsPerSec \div Framerate \in Nat /\ Period \in Nat
<1>1. MsPerSec \in Nat /\ Framerate \in Nat \ {0} /\ UsecPerMs \in Nat
  BY UnitsArePositive
<1>2. MsPerSec \div Framerate \in Nat
  BY <1>1, DivisionLoses
<1>3. QED
  BY <1>1, <1>2 DEF Period

-----------------------------------------------------------------------------
(* The wall clock differs from the time since the frame began by what it   *)
(* was set forward and back.                                               *)
Drift == began >= 0 => wall = startTime + (now - began) + forward - back

(* What the message that waits says of the next frame: it is not due       *)
(* earlier than a period after the last one began, but for two divisions;  *)
(* and not later, unless it was due at once when the last one ended.       *)
DueInTime ==
  /\ startTime + Period - 2 * UsecPerMs < UsecPerMs * due
  /\ \/ UsecPerMs * due < startTime + Period + UsecPerMs
     \/ UsecPerMs * due <= startTime + ended - began + forward

(* And the poll does not last longer, unless the clock was set back.       *)
WakesInTime ==
  \/ wake < began + Period + 2 * UsecPerMs + back
  \/ wake = ended
  \/ back > 0 /\ wake < ended + UsecPerMs + back

PaceInv ==
  /\ TypeOK
  /\ began <= now /\ ended <= now
  /\ Drift
  /\ step \in {"send", "open", "release", "asleep", "grab"} => began >= 0
  /\ step = "wait" /\ began >= 0 => DueInTime /\ WakesInTime

LEMMA PaceInit == Init => PaceInv
<1> SUFFICES ASSUME Init PROVE PaceInv
  OBVIOUS
<1>1. wall \in Nat
  BY BoundsAreNumbers DEF Init
<1>2. WallMillis \in Nat
  BY <1>1, MillisAreClose
<1>3. due \in Nat
  BY <1>2 DEF Init
<1>4. /\ now \in 0 .. MaxTime /\ began \in -1 .. MaxTime /\ ended \in 0 .. MaxTime
      /\ startTime \in Nat /\ wake \in Nat /\ forward \in 0 .. MaxJumps /\ back \in 0 .. MaxJumps
      /\ now <= wake
  BY BoundsAreNumbers DEF Init
<1>5. step \in Steps /\ video \in BOOLEAN /\ scaler \in {"garbage", "null", "live"}
  BY Zenon DEF Init, Steps
<1>6. TypeOK
  BY <1>1, <1>3, <1>4, <1>5 DEF TypeOK
<1>7. QED
  BY <1>6 DEF Init, PaceInv, Drift

(* The message that SendNext posts.                                        *)
LEMMA SendKeeps == PaceInv /\ SendNext => PaceInv'
<1> SUFFICES ASSUME PaceInv, SendNext PROVE PaceInv'
  OBVIOUS
<1> DEFINE U == UsecPerMs
           cost == CostMillis(startTime, wall)
           delay == NextFrameDelay(startTime, wall)
           wait == WaitFor(delay)
<1>1. /\ U \in Nat \ {0} /\ Period \in Nat /\ MsPerSec \div Framerate \in Nat
      /\ Period = U * (MsPerSec \div Framerate)
  BY UnitsArePositive, PeriodIsNumber DEF Period
<1>2. /\ wall \in Nat /\ startTime \in Nat /\ now \in 0 .. MaxTime /\ began \in -1 .. MaxTime
      /\ forward \in 0 .. MaxJumps /\ back \in 0 .. MaxJumps /\ MaxTime \in Nat /\ MaxJumps \in Nat
      /\ began >= 0 /\ began <= now
      /\ wall = startTime + (now - began) + forward - back
  BY BoundsAreNumbers DEF PaceInv, TypeOK, Drift, SendNext
<1>3. /\ due' = WallMillis + wait /\ wake' = now + U * wait
      /\ ended' = now /\ step' = "wait"
      /\ UNCHANGED <<now, wall, began, startTime, forward, back, video, scaler>>
  BY DEF SendNext
<1>4. /\ cost \in Int
      /\ wall - startTime < U * cost + U /\ U * cost < wall - startTime + U
  BY <1>2, CostIsClose
<1>5. delay \in Int /\ delay = (MsPerSec \div Framerate) - cost
  BY <1>1, <1>4 DEF NextFrameDelay
<1>6. WallMillis \in Nat /\ U * WallMillis <= wall /\ wall < U * WallMillis + U
  BY <1>2, MillisAreClose
<1> HIDE DEF cost, delay
<1>7. wait \in Nat /\ wait >= delay /\ (wait = delay \/ wait = 0)
  BY <1>5 DEF WaitFor
<1> HIDE DEF wait, U
<1>8. /\ U * delay = Period - U * cost
      /\ U * wait \in Nat /\ U * delay \in Int /\ U * cost \in Int /\ U * WallMillis \in Nat
      /\ U * wait >= U * delay
      /\ wait = 0 => U * wait = 0
      /\ wait = delay => U * wait = U * delay
  <2>1. U * delay = Period - U * cost
    BY <1>1, <1>4, <1>5
  <2>2. U * wait \in Nat /\ U * delay \in Int /\ U * cost \in Int /\ U * WallMillis \in Nat
    BY <1>1, <1>4, <1>5, <1>6, <1>7
  <2>3. U * wait >= U * delay
    BY <1>1, <1>5, <1>7
  <2>4. QED
    BY <1>1, <2>1, <2>2, <2>3
<1>9. U * due' = U * WallMillis + U * wait
  BY <1>1, <1>3, <1>6, <1>7
<1>10. due' \in Nat /\ wake' \in Nat /\ now <= wake'
  BY <1>2, <1>3, <1>6, <1>7, <1>8
<1>11. startTime + Period - 2 * U < U * due'
  BY <1>1, <1>2, <1>4, <1>6, <1>8, <1>9
<1>12. \/ U * due' < startTime + Period + U /\ wake' < began + Period + 2 * U + back
       \/ U * due' <= startTime + now - began + forward /\ wake' = now
  <2>1. CASE wait = delay
    <3>1. wake' = now + Period - U * cost
      BY <1>1, <1>2, <1>3, <1>4, <1>8, <2>1
    <3>2. U * due' < startTime + Period + U
      BY <1>1, <1>2, <1>4, <1>6, <1>8, <1>9, <2>1
    <3>3. wake' < began + Period + 2 * U + back
      BY <1>1, <1>2, <1>4, <1>8, <3>1
    <3>4. QED
      BY <3>2, <3>3
  <2>2. CASE wait = 0
    BY <1>1, <1>2, <1>3, <1>6, <1>8, <1>9, <2>2
  <2>3. QED
    BY <1>7, <2>1, <2>2
<1>13. (DueInTime /\ WakesInTime)'
  BY <1>1, <1>3, <1>11, <1>12 DEF DueInTime, WakesInTime, U, Period
<1>14. TypeOK'
  BY <1>2, <1>3, <1>10 DEF PaceInv, TypeOK, Steps
<1>15. QED
  BY <1>2, <1>3, <1>13, <1>14 DEF PaceInv, Drift

(* The clock was set back and getNextMessage polls again.                  *)
LEMMA PollAgainKeeps == PaceInv /\ PollAgain => PaceInv'
<1> SUFFICES ASSUME PaceInv, PollAgain PROVE PaceInv'
  OBVIOUS
<1> DEFINE U == UsecPerMs
<1>1. U \in Nat \ {0} /\ Period \in Nat
  BY UnitsArePositive, PeriodIsNumber
<1>2. /\ wall \in Nat /\ startTime \in Nat /\ now \in 0 .. MaxTime /\ began \in -1 .. MaxTime
      /\ forward \in 0 .. MaxJumps /\ back \in 0 .. MaxJumps /\ MaxTime \in Nat /\ MaxJumps \in Nat
      /\ due \in Nat /\ ended \in 0 .. MaxTime
      /\ began <= now /\ ended <= now
  BY BoundsAreNumbers DEF PaceInv, TypeOK
<1>3. /\ WallMillis < due /\ wake' = now + U * (due - WallMillis)
      /\ step = "wait" /\ step' = "wait"
      /\ UNCHANGED <<now, wall, began, ended, startTime, due, forward, back, video, scaler>>
  BY DEF PollAgain
<1>4. WallMillis \in Nat /\ U * WallMillis <= wall /\ wall < U * WallMillis + U
  BY <1>2, MillisAreClose
<1>5. /\ U * (due - WallMillis) = U * due - U * WallMillis
      /\ U * due \in Nat /\ U * WallMillis \in Nat
      /\ due - WallMillis \in Nat /\ U * (due - WallMillis) \in Nat
      /\ U * WallMillis + U <= U * due
  <2>1. due - WallMillis \in Nat /\ WallMillis + 1 <= due
    BY <1>2, <1>3, <1>4
  <2>2. U * (WallMillis + 1) <= U * due
    BY <1>1, <1>2, <1>4, <2>1
  <2>3. QED
    BY <1>1, <1>2, <1>4, <2>1, <2>2
<1>6. wake' \in Nat /\ now <= wake'
  BY <1>2, <1>3, <1>5
<1>7. TypeOK'
  BY <1>2, <1>3, <1>6 DEF PaceInv, TypeOK, Steps
<1> HIDE DEF U
<1>8. ASSUME began >= 0
      PROVE  (DueInTime /\ WakesInTime)'
  <2>1. /\ DueInTime
        /\ wall = startTime + (now - began) + forward - back
    BY <1>3, <1>8 DEF PaceInv, Drift
  <2>2. wake' < now - wall + U * due + U
    BY <1>1, <1>2, <1>3, <1>4, <1>5
  <2>3. wall < U * due
    BY <1>1, <1>2, <1>4, <1>5
  <2>4. CASE U * due < startTime + Period + U
    <3>1. wake' < began + Period + 2 * U + back
      BY <1>1, <1>2, <1>5, <1>6, <2>1, <2>2, <2>4
    <3>2. QED
      BY <1>3, <2>1, <3>1 DEF DueInTime, WakesInTime, U, Period
  <2>5. CASE U * due <= startTime + ended - began + forward
    <3>1. wake' < ended + U + back /\ back > 0
      BY <1>1, <1>2, <1>5, <1>6, <2>1, <2>2, <2>3, <2>5
    <3>2. QED
      BY <1>3, <2>1, <3>1 DEF DueInTime, WakesInTime, U, Period
  <2>6. QED
    BY <2>1, <2>4, <2>5 DEF DueInTime, U
<1>9. QED
  BY <1>3, <1>7, <1>8 DEF PaceInv, Drift

(* What waits stays in time while the clocks go on or are set.             *)
LEMMA ClocksKeep == PaceInv /\ (Tick \/ SetClock) => PaceInv'
<1> SUFFICES ASSUME PaceInv, Tick \/ SetClock PROVE PaceInv'
  OBVIOUS
<1>1. /\ wall \in Nat /\ startTime \in Nat /\ now \in 0 .. MaxTime /\ began \in -1 .. MaxTime
      /\ forward \in 0 .. MaxJumps /\ back \in 0 .. MaxJumps /\ MaxTime \in Nat /\ MaxJumps \in Nat
      /\ due \in Nat /\ wake \in Nat /\ ended \in 0 .. MaxTime
      /\ began <= now /\ ended <= now
      /\ began >= 0 => wall = startTime + (now - began) + forward - back
      /\ step \in {"wait", "asleep"} => now <= wake
      /\ UsecPerMs \in Nat /\ Period \in Nat /\ UsecPerMs * due \in Nat
  BY BoundsAreNumbers, UnitsArePositive, PeriodIsNumber DEF PaceInv, TypeOK, Drift
<1>2. UNCHANGED <<step, began, ended, startTime, due, wake, video, scaler>>
  BY DEF Tick, SetClock, timeVars
<1>3. /\ wall' \in Nat /\ now' \in 0 .. MaxTime /\ began <= now' /\ ended <= now'
      /\ forward' \in 0 .. MaxJumps /\ back' \in 0 .. MaxJumps
      /\ forward <= forward' /\ back <= back'
      /\ began >= 0 => wall' = startTime + (now' - began) + forward' - back'
      /\ step \in {"wait", "asleep"} => now' <= wake
  <2>1. CASE Tick
    BY <1>1, <2>1 DEF Tick
  <2>2. CASE SetClock
    <3>1. PICK j \in Jumps :
            /\ wall + j >= 0
            /\ wall' = wall + j
            /\ IF j >= 0 THEN forward' = forward + j /\ back' = back
                         ELSE back' = back - j /\ forward' = forward
      BY <2>2 DEF SetClock
    <3>2. j \in Int
      BY BoundsAreNumbers
    <3>3. forward' <= MaxJumps /\ back' <= MaxJumps /\ now' = now
      BY <2>2 DEF SetClock
    <3>4. QED
      BY <1>1, <3>1, <3>2, <3>3
  <2>3. QED
    BY <2>1, <2>2
<1>4. TypeOK'
  BY <1>1, <1>2, <1>3 DEF PaceInv, TypeOK
<1>5. PICK f \in Int, b \in Int : f = forward' /\ b = back'
  BY <1>3
<1>6. /\ startTime \in Int /\ began \in Int /\ ended \in Int /\ wake \in Int
      /\ forward \in Int /\ back \in Int /\ forward <= f /\ back <= b
      /\ UsecPerMs \in Int /\ Period \in Int /\ UsecPerMs * due \in Int
  BY <1>1, <1>3, <1>5
<1>7. ASSUME DueInTime, WakesInTime
      PROVE  (DueInTime /\ WakesInTime)'
  <2>1. /\ startTime + Period - 2 * UsecPerMs < UsecPerMs * due
        /\ \/ UsecPerMs * due < startTime + Period + UsecPerMs
           \/ UsecPerMs * due <= startTime + ended - began + f
    BY <1>6, <1>7 DEF DueInTime
  <2>2. \/ wake < began + Period + 2 * UsecPerMs + b
        \/ wake = ended
        \/ b > 0 /\ wake < ended + UsecPerMs + b
    BY <1>6, <1>7 DEF WakesInTime
  <2>3. QED
    BY <1>2, <1>5, <2>1, <2>2 DEF DueInTime, WakesInTime, Period
<1>8. (began <= now /\ ended <= now)' /\ Drift'
  BY <1>1, <1>2, <1>3 DEF Drift
<1>9. (step = "wait" /\ began >= 0 => DueInTime /\ WakesInTime)'
  BY <1>2, <1>7, Zenon DEF PaceInv
<1>10. (step \in {"send", "open", "release", "asleep", "grab"} => began >= 0)'
  BY <1>2 DEF PaceInv
<1>11. QED
  BY <1>4, <1>8, <1>9, <1>10 DEF PaceInv

(* The steps of the handler between the two.                               *)
LEMMA HandlerKeeps ==
  PaceInv /\ (Begin \/ OpenSucceeds \/ OpenFails \/ Release \/ WakeUp \/ Grab \/ GrabFails) => PaceInv'
<1> SUFFICES ASSUME PaceInv,
                    Begin \/ OpenSucceeds \/ OpenFails \/ Release \/ WakeUp \/ Grab \/ GrabFails
             PROVE  PaceInv'
  OBVIOUS
<1>1. TypeOK /\ MaxTime \in Nat /\ MaxJumps \in Nat /\ MsPerSec \in Nat /\ UsecPerMs \in Nat
  BY BoundsAreNumbers, UnitsArePositive DEF PaceInv
<1>2. CASE Begin
  <2>1. /\ began' = now /\ startTime' = wall /\ forward' = 0 /\ back' = 0
        /\ step' \in {"open", "grab"}
        /\ UNCHANGED <<now, wall, ended, due, wake, video, scaler>>
    BY <1>2 DEF Begin
  <2>2. QED
    BY <1>1, <2>1 DEF PaceInv, TypeOK, Steps, Drift
<1>3. CASE Release
  <2>1. /\ wake' \in Nat /\ (step' = "asleep" => now <= wake')
        /\ step' \in {"asleep", "exited"}
    <3>1. 2 * MsPerSec * UsecPerMs \in Nat
      BY <1>1
    <3>2. QED
      BY <1>1, <1>3, <3>1 DEF Release, TypeOK
  <2>2. scaler' \in {"garbage", "null", "live"}
    BY <1>1, <1>3, Zenon DEF Release, TypeOK
  <2>3. UNCHANGED <<now, wall, began, ended, startTime, due, forward, back, video>>
    BY <1>3 DEF Release
  <2>4. step = "release"
    BY <1>3 DEF Release
  <2>5. QED
    BY <1>1, <2>1, <2>2, <2>3, <2>4 DEF PaceInv, TypeOK, Steps, Drift
<1>4. CASE OpenSucceeds \/ OpenFails \/ WakeUp \/ Grab \/ GrabFails
  <2>1. /\ step \in {"open", "asleep", "grab"} /\ step' \in {"grab", "release", "send", "exited"}
        /\ UNCHANGED <<now, wall, began, ended, startTime, due, wake, forward, back>>
    BY <1>4 DEF OpenSucceeds, OpenFails, WakeUp, Grab, GrabFails, timeVars
  <2>2. scaler' \in {"garbage", "null", "live"} /\ video' \in BOOLEAN
    BY <1>1, <1>4, Zenon DEF OpenSucceeds, OpenFails, WakeUp, Grab, GrabFails, TypeOK
  <2>3. QED
    BY <1>1, <2>1, <2>2 DEF PaceInv, TypeOK, Steps, Drift
<1>5. QED
  BY <1>2, <1>3, <1>4

LEMMA PaceStep == PaceInv /\ [Next]_vars => PaceInv'
<1> SUFFICES ASSUME PaceInv, [Next]_vars PROVE PaceInv'
  OBVIOUS
<1>1. CASE UNCHANGED vars
  BY <1>1 DEF vars, timeVars, PaceInv, TypeOK, Drift, DueInTime, WakesInTime, Period
<1>2. QED
  BY <1>1, SendKeeps, PollAgainKeeps, ClocksKeep, HandlerKeeps DEF Next, Over

LEMMA PaceInvariant == Spec => []PaceInv
<1>1. QED
  BY PaceInit, PaceStep, PTL DEF Spec

(* Every variable stays in its type; the thread never polls past the end   *)
(* of its poll.                                                            *)
THEOREM TypesHold == Spec => []TypeOK
<1>1. PaceInv => TypeOK
  BY DEF PaceInv
<1>2. QED
  BY <1>1, PaceInvariant, PTL

(* A frame begins in time.                                                 *)
LEMMA BeginsInTime ==
  ASSUME PaceInv, Begin, began >= 0
  PROVE  /\ now > began + Period - 2 * UsecPerMs - forward
         /\ \/ now < began + Period + 2 * UsecPerMs + back
            \/ now = ended
            \/ back > 0 /\ now < ended + UsecPerMs + back
<1> DEFINE U == UsecPerMs
<1>1. U \in Nat \ {0} /\ Period \in Nat
  BY UnitsArePositive, PeriodIsNumber
<1>2. /\ wall \in Nat /\ startTime \in Nat /\ now \in Nat /\ began \in Nat
      /\ forward \in Nat /\ back \in Nat /\ due \in Nat
      /\ wall = startTime + (now - began) + forward - back
      /\ DueInTime /\ WakesInTime
      /\ now = wake /\ WallMillis >= due
  BY BoundsAreNumbers DEF PaceInv, TypeOK, Drift, Begin
<1>3. WallMillis \in Nat /\ U * WallMillis <= wall
  BY <1>2, MillisAreClose
<1>4. U * due <= U * WallMillis /\ U * due \in Nat /\ U * WallMillis \in Nat
  BY <1>1, <1>2, <1>3
<1>5. startTime + Period - 2 * U < wall
  BY <1>1, <1>2, <1>3, <1>4 DEF DueInTime
<1>6. now > began + Period - 2 * U - forward
  BY <1>1, <1>2, <1>5
<1>7. QED
  BY <1>2, <1>6 DEF WakesInTime, U

(* For every frame rate and every unit of time, frames keep the pace that  *)
(* mFramerate asks for, up to what the divisions lose and the wall clock   *)
(* was set by; seconds that carry over make no difference.                 *)
THEOREM FramesKeepPace == Spec => PaceKept
<1> DEFINE Pace == step = "wait" /\ step' # "wait" /\ began >= 0
                     => /\ now > began + Period - 2 * UsecPerMs - forward
                        /\ \/ now < began + Period + 2 * UsecPerMs + back
                           \/ now = ended
                           \/ back > 0 /\ now < ended + UsecPerMs + back
<1>1. PaceInv /\ [Next]_vars => [Pace]_vars
  <2> SUFFICES ASSUME PaceInv, Next PROVE Pace
    OBVIOUS
  <2>1. step = "wait" /\ step' # "wait" => Begin
    BY DEF Next, PollAgain, OpenSucceeds, OpenFails, Release, WakeUp, Grab, GrabFails,
       SendNext, Tick, SetClock, Over, vars
  <2>2. QED
    BY <2>1, BeginsInTime
<1>2. QED
  BY <1>1, PaceInvariant, PTL DEF Spec, PaceKept
=============================================================================
