------------------------- MODULE HandlerThreadProofs -------------------------
(***************************************************************************)
(* What holds of HandlerThread for every set of clients, every number of   *)
(* messages, every delay, clock and pipe capacity.                         *)
(***************************************************************************)
EXTENDS HandlerThread, SequenceTheorems, WellFoundedInduction, TLAPS

USE DEF Forever

-----------------------------------------------------------------------------
(* Lists.                                                                  *)

(* Unlinking one node keeps the others, in their order.                    *)
LEMMA RemoveAtProperties ==
  ASSUME NEW S, NEW s \in Seq(S), NEW i \in 1 .. Len(s)
  PROVE  /\ RemoveAt(s, i) \in Seq(S)
         /\ Len(RemoveAt(s, i)) = Len(s) - 1
         /\ \A j \in 1 .. Len(s) - 1 :
               RemoveAt(s, i)[j] = IF j < i THEN s[j] ELSE s[j + 1]
<1> DEFINE front == SubSeq(s, 1, i - 1)
           back  == SubSeq(s, i + 1, Len(s))
<1>1. /\ front \in Seq(S) /\ Len(front) = i - 1
      /\ \A j \in 1 .. i - 1 : front[j] = s[j]
  BY SubSeqProperties, ElementOfSeq
<1>2. /\ back \in Seq(S) /\ Len(back) = Len(s) - i
      /\ \A j \in 1 .. Len(s) - i : back[j] = s[i + j]
  BY SubSeqProperties, ElementOfSeq
<1>3. RemoveAt(s, i) = front \o back
  BY DEF RemoveAt
<1> HIDE DEF front, back
<1>4. /\ front \o back \in Seq(S)
      /\ Len(front \o back) = Len(front) + Len(back)
      /\ \A j \in 1 .. Len(front) + Len(back) :
            (front \o back)[j] = IF j <= Len(front) THEN front[j] ELSE back[j - Len(front)]
  BY <1>1, <1>2, ConcatProperties
<1>5. Len(s) \in Nat
  BY LenProperties
<1>6. ASSUME NEW j \in 1 .. Len(s) - 1
      PROVE  (front \o back)[j] = IF j < i THEN s[j] ELSE s[j + 1]
  <2>1. j \in 1 .. Len(front) + Len(back)
    BY <1>1, <1>2, <1>5
  <2>2. CASE j < i
    <3>1. j \in 1 .. i - 1 /\ j <= Len(front)
      BY <2>2, <1>1, <1>5
    <3>2. front[j] = s[j]
      BY <3>1, <1>1
    <3>3. (front \o back)[j] = front[j]
      BY <2>1, <3>1, <1>4
    <3>4. QED
      BY <2>2, <3>2, <3>3
  <2>3. CASE ~(j < i)
    <3> DEFINE k == j - (i - 1)
    <3>1. /\ k \in 1 .. Len(s) - i /\ ~(j <= Len(front))
          /\ i + k = j + 1 /\ k = j - Len(front)
      BY <2>3, <1>1, <1>5
    <3>2. back[k] = s[i + k]
      BY <3>1, <1>2
    <3>3. (front \o back)[j] = back[k]
      BY <2>1, <3>1, <1>4
    <3>4. QED
      BY <2>3, <3>1, <3>2, <3>3
  <2>4. QED
    BY <2>2, <2>3
<1>7. QED
  BY <1>1, <1>2, <1>3, <1>4, <1>5, <1>6

(* Inserting a node at the head moves the others up by one.                *)
LEMMA PushProperties ==
  ASSUME NEW S, NEW s \in Seq(S), NEW e \in S
  PROVE  /\ <<e>> \o s \in Seq(S)
         /\ Len(<<e>> \o s) = Len(s) + 1
         /\ \A j \in 1 .. Len(s) + 1 :
               (<<e>> \o s)[j] = IF j = 1 THEN e ELSE s[j - 1]
<1>1. <<e>> \in Seq(S) /\ Len(<<e>>) = 1 /\ <<e>>[1] = e
  OBVIOUS
<1>2. Len(s) \in Nat
  BY LenProperties
<1>3. /\ <<e>> \o s \in Seq(S)
      /\ Len(<<e>> \o s) = Len(<<e>>) + Len(s)
      /\ \A j \in 1 .. Len(<<e>>) + Len(s) :
            (<<e>> \o s)[j] = IF j <= Len(<<e>>) THEN <<e>>[j] ELSE s[j - Len(<<e>>)]
  BY <1>1, ConcatProperties
<1>4. QED
  BY <1>1, <1>2, <1>3

(* What is left of a list without repetitions is the rest of it, in order. *)
LEMMA RemoveAtKeepsOrder ==
  ASSUME NEW S, NEW s \in Seq(S), NEW i \in 1 .. Len(s),
         \A j, k \in DOMAIN s : s[j] = s[k] => j = k
  PROVE  /\ Range(RemoveAt(s, i)) = Range(s) \ {s[i]}
         /\ \A j, k \in DOMAIN RemoveAt(s, i) : j < k =>
               \E a, b \in DOMAIN s :
                  a < b /\ RemoveAt(s, i)[j] = s[a] /\ RemoveAt(s, i)[k] = s[b]
<1> DEFINE r == RemoveAt(s, i)
           old(j) == IF j < i THEN j ELSE j + 1
<1>1. /\ r \in Seq(S) /\ Len(r) = Len(s) - 1 /\ Len(s) \in Nat
      /\ DOMAIN s = 1 .. Len(s) /\ DOMAIN r = 1 .. Len(s) - 1
  BY RemoveAtProperties, LenProperties
<1>2. \A j \in DOMAIN r : old(j) \in DOMAIN s /\ old(j) # i /\ r[j] = s[old(j)]
  BY <1>1, RemoveAtProperties
<1> HIDE DEF r
<1>3. \A k \in DOMAIN s : k # i => \E j \in DOMAIN r : old(j) = k
  <2> SUFFICES ASSUME NEW k \in DOMAIN s, k # i PROVE \E j \in DOMAIN r : old(j) = k
    OBVIOUS
  <2>1. CASE k < i
    BY <2>1, <1>1
  <2>2. CASE ~(k < i)
    <3>1. k - 1 \in DOMAIN r /\ old(k - 1) = k
      BY <2>2, <1>1
    <3>2. QED
      BY <3>1
  <2>3. QED
    BY <2>1, <2>2
<1>4. Range(r) = Range(s) \ {s[i]}
  <2>1. ASSUME NEW e \in Range(r) PROVE e \in Range(s) \ {s[i]}
    BY <1>1, <1>2 DEF Range
  <2>2. ASSUME NEW e \in Range(s), e # s[i] PROVE e \in Range(r)
    <3>1. PICK k \in DOMAIN s : e = s[k]
      BY DEF Range
    <3>2. PICK j \in DOMAIN r : old(j) = k
      BY <2>2, <3>1, <1>3
    <3>3. e = r[j]
      BY <3>1, <3>2, <1>2
    <3>4. QED
      BY <3>3 DEF Range
  <2>3. QED
    BY <2>1, <2>2
<1>5. ASSUME NEW j \in DOMAIN r, NEW k \in DOMAIN r, j < k
      PROVE  \E a, b \in DOMAIN s : a < b /\ r[j] = s[a] /\ r[k] = s[b]
  <2>1. old(j) < old(k)
    BY <1>1, <1>5
  <2>2. QED
    BY <2>1, <1>2
<1>6. QED
  BY <1>4, <1>5 DEF r

-----------------------------------------------------------------------------
(* Type correctness.  A thread about to link a message names one of its    *)
(* own, and only then is the list a list of messages.                      *)
LinksOwnMessage ==
  \A t \in Threads : op[t] = "link" => t \in Senders /\ sent[t] \in 1 .. MaxSends

TypeInv == TypeOK /\ LinksOwnMessage

LEMMA TypeInit == Init => TypeInv
<1> SUFFICES ASSUME Init PROVE TypeInv
  OBVIOUS
<1>1. queue \in Seq(Messages)
  BY EmptySeq DEF Init
<1>2. /\ now \in 0 .. MaxTime /\ clockSets \in 0 .. MaxClockSets
      /\ pipe \in 0 .. PipeCapacity /\ sent \in [Senders -> 0 .. MaxSends]
      /\ timeout \in Nat \cup {Forever} /\ sem \in Nat
  BY BoundsAreNumbers DEF Init
<1>3. /\ when \in [Messages -> Int] /\ fate \in [Messages -> Fates]
      /\ op \in [Threads -> Ops]
  BY DEF Init, Fates, Ops
<1>4. worker \in WorkerStates /\ owner \in OwnerStates
  BY DEF Init, WorkerStates, OwnerStates
<1>5. looperQuit \in BOOLEAN /\ queueQuit \in BOOLEAN /\ running \in BOOLEAN
  BY DEF Init
<1>6. LinksOwnMessage
  BY DEF Init, LinksOwnMessage
<1>7. QED
  BY <1>1, <1>2, <1>3, <1>4, <1>5, <1>6 DEF TypeOK, TypeInv

(* The steps that touch neither the list nor the names of messages.        *)
LEMMA TypeKept ==
  ASSUME TypeInv,
         UNCHANGED listVars,
         now' \in 0 .. MaxTime,
         clockSets' \in 0 .. MaxClockSets,
         pipe' \in 0 .. PipeCapacity,
         looperQuit' \in BOOLEAN,
         queueQuit' \in BOOLEAN,
         op' \in [Threads -> Ops],
         \A t \in Threads : op'[t] = "link" => op[t] = "link",
         worker' \in WorkerStates,
         timeout' \in Nat \cup {Forever},
         running' \in BOOLEAN,
         sem' \in Nat,
         owner' \in OwnerStates
  PROVE  TypeInv'
BY DEF TypeInv, TypeOK, LinksOwnMessage, listVars

LEMMA TypeStep == TypeInv /\ [Next]_vars => TypeInv'
<1> SUFFICES ASSUME TypeInv, [Next]_vars PROVE TypeInv'
  OBVIOUS
<1> USE DEF TypeInv, clockVars, flagVars, loopVars
<1>1. ASSUME NEW t \in Senders, NEW delay \in Delays, Send(t, delay)
      PROVE  TypeInv'
  BY <1>1, BoundsAreNumbers DEF Send, MayCall, TypeOK, LinksOwnMessage, Messages, Fates, Ops, Threads, Senders
<1>2. ASSUME NEW t \in Clients, BeginClear(t)
      PROVE  TypeInv'
  BY <1>2, TypeKept DEF BeginClear, TypeOK, Ops, Threads
<1>3. ASSUME NEW t \in Threads, QueueAtFront(t)
      PROVE  TypeInv'
  BY <1>3, PushProperties DEF QueueAtFront, TypeOK, LinksOwnMessage, Messages, Fates, Ops
<1>4. ASSUME NEW t \in Threads, Wake(t)
      PROVE  TypeInv'
  BY <1>4, TypeKept, BoundsAreNumbers DEF Wake, TypeOK, Ops, OwnerStates
<1>5. ASSUME NEW t \in Threads, ClearQueue(t)
      PROVE  TypeInv'
  BY <1>5, EmptySeq DEF ClearQueue, DeleteAllQueued, TypeOK, LinksOwnMessage, Fates, Ops
<1>6. ASSUME NEW t \in Threads, QuitLooper(t)
      PROVE  TypeInv'
  BY <1>6, TypeKept DEF QuitLooper, TypeOK, Ops
<1>7. ASSUME NEW t \in Threads, QuitQueue(t)
      PROVE  TypeInv'
  BY <1>7, TypeKept DEF QuitQueue, TypeOK, Ops
<1>8. ASSUME NEW all \in BOOLEAN, HandlerQuits(all)
      PROVE  TypeInv'
  BY <1>8, TypeKept DEF HandlerQuits, TypeOK, Ops, Threads
<1>9. CASE PostStarted
  BY <1>9, TypeKept DEF PostStarted, TypeOK, WorkerStates
<1>10. CASE EnterLoop
  BY <1>10, TypeKept DEF EnterLoop, TypeOK, WorkerStates
<1>11. CASE PollReadable
  BY <1>11, TypeKept, BoundsAreNumbers DEF PollReadable, TypeOK, WorkerStates
<1>12. CASE PollTimeout \/ PollInterrupted
  BY <1>12, TypeKept DEF PollTimeout, PollInterrupted, TypeOK, WorkerStates
<1>13. CASE TakeDue
  BY <1>13, RemoveAtProperties DEF TakeDue, TypeOK, LinksOwnMessage, Fates, WorkerStates
<1>14. CASE TakeEarly
  BY <1>14, TypeKept DEF TakeEarly, TimeLeft, TypeOK, WorkerStates
<1>15. CASE TakeEmpty
  BY <1>15, TypeKept DEF TakeEmpty, TypeOK, WorkerStates
<1>16. CASE HandlerReturns
  BY <1>16 DEF HandlerReturns, TypeOK, LinksOwnMessage, Fates, WorkerStates
<1>17. CASE LeaveLoop
  BY <1>17, TypeKept DEF LeaveLoop, TypeOK, WorkerStates
<1>24. CASE PostStopped
  BY <1>24, TypeKept DEF PostStopped, TypeOK, WorkerStates
<1>18. CASE ConstructorReturns \/ Join \/ ClearAfterDelete
  BY <1>18, TypeKept DEF ConstructorReturns, Join, ClearAfterDelete, TypeOK, OwnerStates
<1>19. CASE BeginDestructor
  BY <1>19, TypeKept DEF BeginDestructor, TypeOK, OwnerStates, Ops, Threads
<1>20. CASE DeleteLooper
  BY <1>20, EmptySeq DEF DeleteLooper, DeleteAllQueued, TypeOK, LinksOwnMessage, Fates, OwnerStates
<1>21. CASE Tick
  BY <1>21, TypeKept, BoundsAreNumbers DEF Tick, TypeOK
<1>22. ASSUME NEW step \in ClockSteps, SetClock(step)
       PROVE  TypeInv'
  BY <1>22, TypeKept, BoundsAreNumbers DEF SetClock, TypeOK
<1>23. CASE UNCHANGED vars
  BY <1>23 DEF TypeOK, LinksOwnMessage, vars, listVars
<1>25. QED
  BY <1>1, <1>2, <1>3, <1>4, <1>5, <1>6, <1>7, <1>8, <1>9, <1>10, <1>11,
     <1>12, <1>13, <1>14, <1>15, <1>16, <1>17, <1>18, <1>19, <1>20, <1>21,
     <1>22, <1>23, <1>24
     DEF Next, SenderStep, QuitStep, WorkerStep, OwnerStep, Terminated

LEMMA TypeInvariant == Spec => []TypeInv
<1>1. QED
  BY TypeInit, TypeStep, PTL DEF Spec

(* The state keeps its types: Message::when, the poll timeout computed by  *)
(* getNextMessage, the list and the semaphore.                             *)
THEOREM TypeCorrect == Spec => []TypeOK
<1>1. TypeInv => TypeOK
  BY DEF TypeInv
<1>2. QED
  BY <1>1, TypeInvariant, PTL

-----------------------------------------------------------------------------
(* The constructor, the destructor and the loop.                           *)

(* A thread is inside a call only where its program makes one, and the     *)
(* running flag is set only while the loop runs.                           *)
CallsInPlace ==
  /\ \A c \in Clients : op[c] # "idle" => owner = "live"
  /\ op[Worker] # "idle" => worker = "handle"
  /\ op[Owner] # "idle" => owner = "quit"
  /\ running => worker \in {"poll", "take", "handle", "leave"}

Count(b) == IF b THEN 1 ELSE 0

(* One semaphore serves the start and the end of the loop: its value is    *)
(* what the worker has posted less what the owner has waited for.          *)
SemaphoreCounts ==
  sem + Count(owner # "ctor") + Count(owner \in {"delete", "deleted", "end", "crashed"})
    = Count(worker # "start") + Count(worker = "done")

LifecycleInv == TypeInv /\ CallsInPlace /\ SemaphoreCounts

LEMMA LifecycleInit == Init => CallsInPlace /\ SemaphoreCounts
BY ThreadsDiffer DEF Init, CallsInPlace, SemaphoreCounts, Count, Threads

LEMMA CallsStep == TypeInv /\ CallsInPlace /\ [Next]_vars => CallsInPlace'
<1> SUFFICES ASSUME TypeInv, CallsInPlace, [Next]_vars PROVE CallsInPlace'
  OBVIOUS
<1> USE ThreadsDiffer DEF TypeInv, CallsInPlace, Threads, Senders
<1>0. op \in [Threads -> Ops]
  BY DEF TypeOK
<1>1. ASSUME NEW t \in Senders, NEW delay \in Delays, Send(t, delay)
      PROVE  CallsInPlace'
  BY <1>0, <1>1 DEF Send, MayCall, loopVars
<1>2. ASSUME NEW t \in Clients, BeginClear(t)
      PROVE  CallsInPlace'
  BY <1>0, <1>2 DEF BeginClear, MayCall, loopVars
<1>3. ASSUME NEW t \in Threads, QueueAtFront(t) \/ ClearQueue(t)
      PROVE  CallsInPlace'
  BY <1>0, <1>3 DEF QueueAtFront, ClearQueue, loopVars
<1>4. ASSUME NEW t \in Threads, QuitLooper(t) \/ QuitQueue(t)
      PROVE  CallsInPlace'
  BY <1>0, <1>4 DEF QuitLooper, QuitQueue, loopVars
<1>5. ASSUME NEW t \in Threads, Wake(t)
      PROVE  CallsInPlace'
  BY <1>0, <1>5 DEF Wake, loopVars
<1>6. ASSUME NEW all \in BOOLEAN, HandlerQuits(all)
      PROVE  CallsInPlace'
  BY <1>0, <1>6 DEF HandlerQuits, loopVars
<1>7. CASE PostStarted \/ EnterLoop \/ LeaveLoop \/ PostStopped
  BY <1>7 DEF PostStarted, EnterLoop, LeaveLoop, PostStopped
<1>8. CASE PollReadable \/ PollTimeout \/ PollInterrupted
  BY <1>8 DEF PollReadable, PollTimeout, PollInterrupted
<1>9. CASE TakeDue \/ TakeEarly \/ TakeEmpty
  BY <1>9 DEF TakeDue, TakeEarly, TakeEmpty
<1>10. CASE HandlerReturns
  BY <1>10 DEF HandlerReturns
<1>11. CASE OwnerStep
  BY <1>11 DEF OwnerStep, ConstructorReturns, Join, DeleteLooper, ClearAfterDelete, loopVars
<1>12. CASE BeginDestructor
  BY <1>0, <1>12 DEF BeginDestructor, loopVars
<1>13. CASE Tick
  BY <1>13 DEF Tick
<1>14. ASSUME NEW step \in ClockSteps, SetClock(step)
       PROVE  CallsInPlace'
  BY <1>14 DEF SetClock, loopVars
<1>15. CASE UNCHANGED vars
  BY <1>15 DEF vars, loopVars
<1>16. QED
  BY <1>1, <1>2, <1>3, <1>4, <1>5, <1>6, <1>7, <1>8, <1>9, <1>10, <1>11,
     <1>12, <1>13, <1>14, <1>15
     DEF Next, SenderStep, QuitStep, WorkerStep, Terminated

LEMMA SemaphoreStep == LifecycleInv /\ [Next]_vars => SemaphoreCounts'
<1> SUFFICES ASSUME LifecycleInv, [Next]_vars PROVE SemaphoreCounts'
  OBVIOUS
<1> USE DEF LifecycleInv, SemaphoreCounts, Count, loopVars
<1>0. sem \in Nat /\ op \in [Threads -> Ops] /\ Owner \in Threads
  BY DEF TypeInv, TypeOK, Threads
<1>1. ASSUME UNCHANGED <<sem, owner, worker>>
      PROVE  SemaphoreCounts'
  BY <1>1
<1>2. ASSUME NEW t \in Threads, Wake(t)
      PROVE  SemaphoreCounts'
  BY <1>0, <1>2 DEF Wake, CallsInPlace
<1>3. CASE PostStarted \/ PostStopped
  BY <1>0, <1>3 DEF PostStarted, PostStopped
<1>4. CASE EnterLoop \/ LeaveLoop \/ HandlerReturns
  BY <1>0, <1>4 DEF EnterLoop, LeaveLoop, HandlerReturns
<1>5. CASE PollReadable \/ PollTimeout \/ PollInterrupted
  BY <1>0, <1>5 DEF PollReadable, PollTimeout, PollInterrupted
<1>6. CASE TakeDue \/ TakeEarly \/ TakeEmpty
  BY <1>0, <1>6 DEF TakeDue, TakeEarly, TakeEmpty
<1>7. CASE OwnerStep
  BY <1>0, <1>7 DEF OwnerStep, ConstructorReturns, Join, DeleteLooper, ClearAfterDelete
<1>8. CASE BeginDestructor
  BY <1>0, <1>8 DEF BeginDestructor
<1>9. ASSUME \/ \E t \in Senders, delay \in Delays : Send(t, delay)
             \/ \E t \in Clients : BeginClear(t)
             \/ \E t \in Threads : QueueAtFront(t) \/ ClearQueue(t) \/ QuitStep(t)
             \/ \E all \in BOOLEAN : HandlerQuits(all)
             \/ Tick
             \/ \E step \in ClockSteps : SetClock(step)
             \/ UNCHANGED vars
      PROVE  UNCHANGED <<sem, owner, worker>>
  BY <1>9 DEF Send, BeginClear, QueueAtFront, ClearQueue, QuitStep, QuitLooper,
              QuitQueue, HandlerQuits, Tick, SetClock, vars
<1>10. QED
  BY <1>1, <1>2, <1>3, <1>4, <1>5, <1>6, <1>7, <1>8, <1>9
     DEF Next, SenderStep, WorkerStep, Terminated

LEMMA LifecycleInvariant == Spec => []LifecycleInv
<1>1. Init => LifecycleInv
  BY TypeInit, LifecycleInit DEF LifecycleInv
<1>2. LifecycleInv /\ [Next]_vars => LifecycleInv'
  BY TypeStep, CallsStep, SemaphoreStep DEF LifecycleInv
<1>3. QED
  BY <1>1, <1>2, PTL DEF Spec

(* ~NThread frees the looper, its queue and the semaphore only when the    *)
(* worker has posted for the last time and no thread is inside a call,     *)
(* although one semaphore counts both the start and the end of the loop.   *)
THEOREM LooperOutlives == Spec => []LooperOutlivesThreads
<1>1. LifecycleInv => LooperOutlivesThreads
  <2> SUFFICES ASSUME LifecycleInv, LooperFreed PROVE LooperOutlivesThreads
    BY DEF LooperOutlivesThreads
  <2>1. worker = "done"
    BY DEF LifecycleInv, SemaphoreCounts, Count, LooperFreed, TypeInv, TypeOK
  <2>2. ~running
    BY <2>1 DEF LifecycleInv, CallsInPlace
  <2>3. \A t \in Threads : op[t] = "idle"
    BY <2>1 DEF LifecycleInv, CallsInPlace, LooperFreed, Threads
  <2>4. QED
    BY <2>1, <2>2, <2>3 DEF LooperOutlivesThreads
<1>2. QED
  BY <1>1, LifecycleInvariant, PTL

-----------------------------------------------------------------------------
(* Waking the loop.                                                        *)

LEMMA WakeupInit == Init => NoLostWakeup
BY DEF Init, NoLostWakeup

LEMMA WakeupStep == LifecycleInv /\ NoLostWakeup /\ [Next]_vars => NoLostWakeup'
<1> SUFFICES ASSUME LifecycleInv, NoLostWakeup, [Next]_vars PROVE NoLostWakeup'
  OBVIOUS
<1> USE DEF NoLostWakeup, WakeComing, loopVars, flagVars, listVars
<1>0. /\ op \in [Threads -> Ops] /\ Owner \in Threads /\ Worker \in Threads
      /\ pipe \in Nat /\ timeout \in Nat \cup {Forever}
      /\ CallsInPlace
  BY BoundsAreNumbers DEF LifecycleInv, TypeInv, TypeOK, Threads
<1>1. ASSUME NEW t \in Senders, NEW delay \in Delays, Send(t, delay)
      PROVE  NoLostWakeup'
  BY <1>0, <1>1 DEF Send, MayCall
<1>2. ASSUME NEW t \in Clients, BeginClear(t)
      PROVE  NoLostWakeup'
  BY <1>0, <1>2 DEF BeginClear, MayCall
<1>3. ASSUME NEW t \in Threads, QueueAtFront(t)
      PROVE  NoLostWakeup'
  BY <1>0, <1>3 DEF QueueAtFront
<1>4. ASSUME NEW t \in Threads, Wake(t)
      PROVE  NoLostWakeup'
  <2>1. pipe' > 0
    BY <1>0, <1>4, BoundsAreNumbers DEF Wake
  <2>2. QED
    BY <2>1
<1>5. ASSUME NEW t \in Threads, ClearQueue(t)
      PROVE  NoLostWakeup'
  BY <1>0, <1>5 DEF ClearQueue, DeleteAllQueued
<1>6. ASSUME NEW t \in Threads, QuitLooper(t)
      PROVE  NoLostWakeup'
  BY <1>0, <1>6 DEF QuitLooper
<1>7. ASSUME NEW t \in Threads, QuitQueue(t)
      PROVE  NoLostWakeup'
  BY <1>0, <1>7 DEF QuitQueue
<1>8. ASSUME NEW all \in BOOLEAN, HandlerQuits(all)
      PROVE  NoLostWakeup'
  BY <1>8 DEF HandlerQuits
<1>9. CASE PostStarted \/ EnterLoop \/ LeaveLoop \/ PostStopped \/ HandlerReturns
  BY <1>9 DEF PostStarted, EnterLoop, LeaveLoop, PostStopped, HandlerReturns
<1>10. CASE PollReadable \/ PollTimeout \/ PollInterrupted
  BY <1>10 DEF PollReadable, PollTimeout, PollInterrupted
<1>11. CASE TakeDue \/ TakeEmpty
  BY <1>11 DEF TakeDue, TakeEmpty, NothingToTake
<1>12. CASE TakeEarly
  <2>1. PICK i \in DOMAIN queue : when[queue[i]] > now /\ timeout' = when[queue[i]] - now
    BY <1>12 DEF TakeEarly, TimeLeft
  <2>2. queue[i] \in Messages
    BY <2>1, ElementOfSeq DEF LifecycleInv, TypeInv, TypeOK
  <2>3. timeout' # Forever
    BY <2>1, <2>2, BoundsAreNumbers DEF LifecycleInv, TypeInv, TypeOK
  <2>4. QED
    BY <2>3
<1>13. CASE ConstructorReturns \/ Join \/ ClearAfterDelete
  BY <1>13 DEF ConstructorReturns, Join, ClearAfterDelete
<1>14. CASE DeleteLooper
  <2>1. worker = "done"
    BY <1>14 DEF DeleteLooper, LifecycleInv, SemaphoreCounts, Count, TypeInv, TypeOK
  <2>2. QED
    BY <2>1, <1>14 DEF DeleteLooper
<1>15. CASE BeginDestructor
  BY <1>0, <1>15 DEF BeginDestructor, CallsInPlace
<1>16. CASE Tick
  BY <1>0, <1>16 DEF Tick
<1>17. ASSUME NEW step \in ClockSteps, SetClock(step)
       PROVE  NoLostWakeup'
  BY <1>17 DEF SetClock
<1>18. CASE UNCHANGED vars
  BY <1>18 DEF vars
<1>19. QED
  BY <1>1, <1>2, <1>3, <1>4, <1>5, <1>6, <1>7, <1>8, <1>9, <1>10, <1>11,
     <1>12, <1>13, <1>14, <1>15, <1>16, <1>17, <1>18
     DEF Next, SenderStep, QuitStep, WorkerStep, OwnerStep, Terminated

(* A loop that waits without a timeout is woken for every message and for  *)
(* quit: enqueueMessage and quit change what the loop looks at before they *)
(* write to the pipe, and awoken leaves the bytes of later calls in it.    *)
THEOREM Wakeup == Spec => []NoLostWakeup
<1>1. QED
  BY WakeupInit, WakeupStep, LifecycleInvariant, PTL DEF Spec

-----------------------------------------------------------------------------
(* The list and the fates of the messages.                                 *)

(* A message has been obtained exactly when its number is not beyond what  *)
(* its sender has sent; between obtaining and linking it is the sender's   *)
(* latest.                                                                 *)
FatesFollowSends ==
  /\ \A m \in Messages : fate[m] = "unsent" <=> m[2] > sent[m[1]]
  /\ \A m \in Messages :
        fate[m] = "held" <=> op[m[1]] = "link" /\ m[2] = sent[m[1]]

(* Each sender's messages stand in the list with the latest first.         *)
LatestFirst ==
  \A i, j \in DOMAIN queue :
     i < j /\ queue[i][1] = queue[j][1] => queue[i][2] > queue[j][2]

ListInv == FatesFollowSends /\ NoDanglingNode /\ LatestFirst /\ SenderOrder

LEMMA ListInit == Init => ListInv
<1> SUFFICES ASSUME Init PROVE ListInv
  OBVIOUS
<1>1. FatesFollowSends
  BY BoundsAreNumbers DEF Init, FatesFollowSends, Messages, Senders, Threads
<1>2. NoDanglingNode /\ LatestFirst
  BY DEF Init, NoDanglingNode, LatestFirst, Range
<1>3. SenderOrder
  BY DEF Init, SenderOrder
<1>4. QED
  BY <1>1, <1>2, <1>3 DEF ListInv

(* The steps that leave the list alone and link no message.                *)
LEMMA ListKept ==
  ASSUME ListInv, UNCHANGED listVars,
         \A t \in Senders : op'[t] = "link" <=> op[t] = "link"
  PROVE  ListInv'
<1>1. FatesFollowSends'
  BY DEF ListInv, FatesFollowSends, listVars, Messages
<1>2. QED
  BY <1>1 DEF ListInv, NoDanglingNode, LatestFirst, SenderOrder, listVars

(* A new message is unknown to the list; what is known keeps its when.     *)
LEMMA ListSend ==
  ASSUME TypeInv, ListInv, NEW t \in Senders, NEW delay \in Delays, Send(t, delay)
  PROVE  ListInv'
<1> DEFINE new == <<t, sent[t] + 1>>
<1>1. /\ new \in Messages /\ t \in Threads /\ op[t] = "idle"
      /\ sent \in [Senders -> 0 .. MaxSends] /\ sent' = [sent EXCEPT ![t] = @ + 1]
      /\ fate \in [Messages -> Fates] /\ when \in [Messages -> Int]
      /\ op \in [Threads -> Ops] /\ queue \in Seq(Messages)
      /\ queue' = queue
      /\ fate' = [fate EXCEPT ![new] = IF Admits THEN "held" ELSE "leaked"]
      /\ op' = [op EXCEPT ![t] = IF Admits THEN "link" ELSE "idle"]
      /\ \A m \in Messages : m # new => when'[m] = when[m]
  BY BoundsAreNumbers DEF Send, MayCall, Messages, TypeInv, TypeOK, Threads, Senders
<1>2. fate[new] = "unsent"
  BY <1>1 DEF ListInv, FatesFollowSends, Messages
<1>3. FatesFollowSends'
  <2>0. \A m \in Messages :
           /\ m[1] \in Senders /\ m[1] \in Threads /\ m[2] \in Nat /\ sent[m[1]] \in Nat
           /\ m = <<m[1], m[2]>>
    BY <1>1 DEF Messages, Senders, Threads
  <2>1. ASSUME NEW m \in Messages
        PROVE  fate'[m] = "unsent" <=> m[2] > sent'[m[1]]
    <3>1. CASE m[1] = t
      BY <1>1, <1>2, <2>0, <3>1 DEF ListInv, FatesFollowSends
    <3>2. CASE m[1] # t
      BY <1>1, <2>0, <3>2 DEF ListInv, FatesFollowSends
    <3>3. QED
      BY <3>1, <3>2
  <2>2. ASSUME NEW m \in Messages
        PROVE  fate'[m] = "held" <=> op'[m[1]] = "link" /\ m[2] = sent'[m[1]]
    <3>1. CASE m[1] = t
      <4>1. m # new => fate'[m] # "held"
        BY <1>1, <3>1 DEF ListInv, FatesFollowSends
      <4>2. m = new <=> m[2] = sent'[m[1]]
        BY <1>1, <2>0, <3>1
      <4>3. QED
        BY <1>1, <2>0, <3>1, <4>1, <4>2
    <3>2. CASE m[1] # t
      BY <1>1, <2>0, <3>2 DEF ListInv, FatesFollowSends
    <3>3. QED
      BY <3>1, <3>2
  <2>3. QED
    BY <2>1, <2>2 DEF FatesFollowSends
<1>4. NoDanglingNode'
  BY <1>1, <1>2 DEF ListInv, NoDanglingNode
<1>5. LatestFirst'
  BY <1>1 DEF ListInv, LatestFirst
<1>6. SenderOrder'
  <2> SUFFICES ASSUME NEW m \in Messages, NEW n \in Messages,
                      m[1] = n[1], m[2] < n[2], when'[m] <= when'[n],
                      fate'[n] \in {"running", "handled"}
               PROVE  fate'[m] # "queued"
    BY DEF SenderOrder
  <2>1. n # new
    BY <1>1
  <2>2. CASE m = new
    BY <1>1, <2>2
  <2>3. CASE m # new
    BY <1>1, <2>1, <2>3 DEF ListInv, SenderOrder
  <2>4. QED
    BY <2>2, <2>3
<1>7. QED
  BY <1>3, <1>4, <1>5, <1>6 DEF ListInv

(* What is linked at the head is its sender's latest message.              *)
LEMMA ListLink ==
  ASSUME TypeInv, ListInv, NEW t \in Threads, QueueAtFront(t)
  PROVE  ListInv'
<1> DEFINE new == <<t, sent[t]>>
<1>1. /\ op[t] = "link" /\ t \in Senders /\ new \in Messages
      /\ sent \in [Senders -> 0 .. MaxSends] /\ sent' = sent /\ when' = when
      /\ fate \in [Messages -> Fates] /\ op \in [Threads -> Ops]
      /\ fate' = [fate EXCEPT ![new] = "queued"]
      /\ op' = [op EXCEPT ![t] = "wake"]
      /\ queue \in Seq(Messages) /\ queue' = <<new>> \o queue
  BY DEF QueueAtFront, Messages, TypeInv, TypeOK, LinksOwnMessage
<1>2. fate[new] = "held"
  BY <1>1 DEF ListInv, FatesFollowSends
<1>3. FatesFollowSends'
  <2>1. \A m \in Messages : fate'[m] = "unsent" <=> m[2] > sent'[m[1]]
    BY <1>1, <1>2 DEF ListInv, FatesFollowSends
  <2>2. \A m \in Messages :
           fate'[m] = "held" <=> op'[m[1]] = "link" /\ m[2] = sent'[m[1]]
    BY <1>1, <1>2 DEF ListInv, FatesFollowSends, Messages, Threads, Senders
  <2>3. QED
    BY <2>1, <2>2 DEF FatesFollowSends
<1>4. /\ Len(queue) \in Nat
      /\ DOMAIN queue = 1 .. Len(queue) /\ DOMAIN queue' = 1 .. Len(queue) + 1
      /\ \A j \in DOMAIN queue' : queue'[j] = IF j = 1 THEN new ELSE queue[j - 1]
      /\ \A j \in DOMAIN queue : queue[j] \in Messages /\ fate[queue[j]] = "queued"
  <2>1. queue' \in Seq(Messages)
    BY <1>1, PushProperties
  <2>2. \A j \in DOMAIN queue : fate[queue[j]] = "queued"
    BY DEF ListInv, NoDanglingNode, Range
  <2>3. Len(queue) \in Nat /\ DOMAIN queue = 1 .. Len(queue)
    BY <1>1, LenProperties
  <2>4. Len(queue') = Len(queue) + 1 /\ DOMAIN queue' = 1 .. Len(queue) + 1
    BY <1>1, <2>1, PushProperties, LenProperties
  <2>5. \A j \in DOMAIN queue' : queue'[j] = IF j = 1 THEN new ELSE queue[j - 1]
    BY <1>1, <2>4, PushProperties
  <2>6. \A j \in DOMAIN queue : queue[j] \in Messages
    BY <1>1, <2>3, ElementOfSeq
  <2>7. QED
    BY <2>2, <2>3, <2>4, <2>5, <2>6
<1>5. Range(queue') = Range(queue) \cup {new}
  <2>1. ASSUME NEW e \in Range(queue) PROVE e \in Range(queue')
    <3>1. PICK j \in DOMAIN queue : e = queue[j]
      BY DEF Range
    <3>2. j + 1 \in DOMAIN queue' /\ queue'[j + 1] = e
      BY <1>4, <3>1
    <3>3. QED
      BY <3>2 DEF Range
  <2>2. new \in Range(queue')
    <3>1. 1 \in DOMAIN queue' /\ queue'[1] = new
      BY <1>4
    <3>2. QED
      BY <3>1 DEF Range
  <2>3. ASSUME NEW e \in Range(queue') PROVE e \in Range(queue) \cup {new}
    <3>1. PICK j \in DOMAIN queue' : e = queue'[j]
      BY DEF Range
    <3>2. CASE j = 1
      BY <1>4, <3>1, <3>2
    <3>3. CASE j # 1
      <4>1. j - 1 \in DOMAIN queue /\ e = queue[j - 1]
        BY <1>4, <3>1, <3>3
      <4>2. QED
        BY <4>1 DEF Range
    <3>4. QED
      BY <3>2, <3>3
  <2>4. QED
    BY <2>1, <2>2, <2>3
<1>6. NoDanglingNode'
  <2>1. Range(queue') = {m \in Messages : fate'[m] = "queued"}
    BY <1>1, <1>5 DEF ListInv, NoDanglingNode
  <2>2. ASSUME NEW i \in DOMAIN queue', NEW j \in DOMAIN queue', queue'[i] = queue'[j]
        PROVE  i = j
    <3>1. CASE i = 1 \/ j = 1
      BY <1>2, <1>4, <2>2, <3>1
    <3>2. CASE i # 1 /\ j # 1
      <4>1. i - 1 \in DOMAIN queue /\ j - 1 \in DOMAIN queue
            /\ queue[i - 1] = queue[j - 1]
        BY <1>4, <2>2, <3>2
      <4>2. i - 1 = j - 1
        BY <4>1 DEF ListInv, NoDanglingNode
      <4>3. QED
        BY <1>4, <4>2
    <3>3. QED
      BY <3>1, <3>2
  <2>3. QED
    BY <2>1, <2>2 DEF NoDanglingNode
<1>7. LatestFirst'
  <2> SUFFICES ASSUME NEW i \in DOMAIN queue', NEW j \in DOMAIN queue',
                      i < j, queue'[i][1] = queue'[j][1]
               PROVE  queue'[i][2] > queue'[j][2]
    BY DEF LatestFirst
  <2>1. j - 1 \in DOMAIN queue /\ queue'[j] = queue[j - 1]
    BY <1>4
  <2>2. CASE i = 1
    <3> DEFINE old == queue[j - 1]
    <3>1. /\ queue'[i] = new /\ old \in Messages /\ old[1] = t
          /\ fate[old] = "queued" /\ old # new
      BY <1>2, <1>4, <2>1, <2>2
    <3>2. ~(old[2] > sent[t])
      BY <3>1 DEF ListInv, FatesFollowSends
    <3>3. old[2] # sent[t]
      BY <3>1 DEF Messages
    <3>4. old[2] \in Nat /\ sent[t] \in Nat
      BY <1>1, <3>1, BoundsAreNumbers DEF Messages
    <3> HIDE DEF old
    <3>5. sent[t] > old[2]
      BY <3>2, <3>3, <3>4
    <3>6. QED
      BY <2>1, <3>1, <3>5 DEF old
  <2>3. CASE i # 1
    <3>1. i - 1 \in DOMAIN queue /\ queue'[i] = queue[i - 1] /\ i - 1 < j - 1
      BY <1>4, <2>3
    <3>2. QED
      BY <2>1, <3>1 DEF ListInv, LatestFirst
  <2>4. QED
    BY <2>2, <2>3
<1>8. SenderOrder'
  <2> SUFFICES ASSUME NEW m \in Messages, NEW n \in Messages,
                      m[1] = n[1], m[2] < n[2], when[m] <= when[n],
                      fate'[n] \in {"running", "handled"}
               PROVE  fate'[m] # "queued"
    BY <1>1 DEF SenderOrder
  <2>1. n # new /\ fate[n] \in {"running", "handled"}
    BY <1>1
  <2>2. CASE m = new
    <3>1. n[2] > sent[n[1]]
      BY <2>2
    <3>2. fate[n] = "unsent"
      BY <3>1 DEF ListInv, FatesFollowSends
    <3>3. QED
      BY <2>1, <3>2
  <2>3. CASE m # new
    BY <1>1, <2>1, <2>3 DEF ListInv, SenderOrder
  <2>4. QED
    BY <2>2, <2>3
<1>9. QED
  BY <1>3, <1>6, <1>7, <1>8 DEF ListInv

(* What the loop takes is the earliest: nothing its sender sent before it, *)
(* and due no later, is still in the list.                                 *)
LEMMA ListTake ==
  ASSUME TypeInv, ListInv, TakeDue
  PROVE  ListInv'
<1>1. PICK i \in DOMAIN queue :
         /\ IsEarliest(i)
         /\ queue' = RemoveAt(queue, i)
         /\ fate' = [fate EXCEPT ![queue[i]] = "running"]
  BY DEF TakeDue
<1> DEFINE taken == queue[i]
<1>2. /\ queue \in Seq(Messages) /\ fate \in [Messages -> Fates]
      /\ when \in [Messages -> Int] /\ when' = when /\ sent' = sent /\ op' = op
      /\ i \in 1 .. Len(queue)
  BY LenProperties DEF TakeDue, TypeInv, TypeOK
<1>3. taken \in Messages /\ fate[taken] = "queued"
  BY <1>2, ElementOfSeq DEF ListInv, NoDanglingNode, Range
<1>4. /\ Range(queue') = Range(queue) \ {taken}
      /\ \A j, k \in DOMAIN queue' : j < k =>
            \E a, b \in DOMAIN queue :
               a < b /\ queue'[j] = queue[a] /\ queue'[k] = queue[b]
  BY <1>1, <1>2, RemoveAtKeepsOrder DEF ListInv, NoDanglingNode
<1>5. DOMAIN queue' \subseteq Nat /\ DOMAIN queue \subseteq Nat
  BY <1>1, <1>2, RemoveAtProperties, LenProperties
<1> HIDE DEF taken
<1>6. fate' = [fate EXCEPT ![taken] = "running"]
  BY <1>1 DEF taken
<1>7. FatesFollowSends'
  BY <1>2, <1>3, <1>6 DEF ListInv, FatesFollowSends
<1>8. NoDanglingNode'
  <2>1. Range(queue') = {m \in Messages : fate'[m] = "queued"}
    BY <1>2, <1>3, <1>4, <1>6 DEF ListInv, NoDanglingNode
  <2>2. ASSUME NEW j \in DOMAIN queue', NEW k \in DOMAIN queue', j < k
        PROVE  queue'[j] # queue'[k]
    <3>1. PICK a \in DOMAIN queue, b \in DOMAIN queue :
             a < b /\ queue'[j] = queue[a] /\ queue'[k] = queue[b]
      BY <1>4, <2>2
    <3>2. a # b
      BY <1>5, <3>1
    <3>3. QED
      BY <3>1, <3>2 DEF ListInv, NoDanglingNode
  <2>3. \A j, k \in DOMAIN queue' : queue'[j] = queue'[k] => j = k
    BY <1>5, <2>2
  <2>4. QED
    BY <2>1, <2>3 DEF NoDanglingNode
<1>9. LatestFirst'
  <2> SUFFICES ASSUME NEW j \in DOMAIN queue', NEW k \in DOMAIN queue',
                      j < k, queue'[j][1] = queue'[k][1]
               PROVE  queue'[j][2] > queue'[k][2]
    BY DEF LatestFirst
  <2>1. PICK a \in DOMAIN queue, b \in DOMAIN queue :
           a < b /\ queue'[j] = queue[a] /\ queue'[k] = queue[b]
    BY <1>4
  <2>2. QED
    BY <2>1 DEF ListInv, LatestFirst
<1>10. SenderOrder'
  <2> SUFFICES ASSUME NEW m \in Messages, NEW n \in Messages,
                      m[1] = n[1], m[2] < n[2], when[m] <= when[n],
                      fate'[n] \in {"running", "handled"}, fate'[m] = "queued"
               PROVE  FALSE
    BY <1>2 DEF SenderOrder
  <2>1. fate[m] = "queued" /\ m # taken
    BY <1>2, <1>3, <1>6
  <2>2. CASE n # taken
    BY <1>2, <1>6, <2>1, <2>2 DEF ListInv, SenderOrder
  <2>3. CASE n = taken
    <3>1. PICK j \in DOMAIN queue : m = queue[j]
      BY <2>1 DEF ListInv, NoDanglingNode, Range
    <3>2. j # i
      BY <2>1, <3>1 DEF taken
    <3>3. ~(i > j)
      <4>1. ASSUME i > j PROVE m[2] > n[2]
        BY <2>3, <3>1, <4>1 DEF ListInv, LatestFirst, taken
      <4>2. m[2] \in Nat /\ n[2] \in Nat
        BY DEF Messages
      <4>3. QED
        BY <4>1, <4>2
    <3>4. j > i
      BY <1>5, <3>2, <3>3
    <3>5. when[n] < when[m]
      BY <1>1, <2>3, <3>1, <3>4 DEF IsEarliest, taken
    <3>6. QED
      BY <1>2, <3>5
  <2>4. QED
    BY <2>2, <2>3
<1>11. QED
  BY <1>7, <1>8, <1>9, <1>10 DEF ListInv

LEMMA ListClear ==
  ASSUME TypeInv, ListInv, DeleteAllQueued, UNCHANGED <<when, sent>>,
         \A t \in Senders : op'[t] = "link" <=> op[t] = "link"
  PROVE  ListInv'
<1>1. /\ fate \in [Messages -> Fates] /\ queue' = <<>>
      /\ fate' = [m \in Messages |-> IF m \in Range(queue) THEN "cleared" ELSE fate[m]]
      /\ \A m \in Messages : m \in Range(queue) <=> fate[m] = "queued"
  BY DEF DeleteAllQueued, TypeInv, TypeOK, ListInv, NoDanglingNode
<1>2. FatesFollowSends'
  BY <1>1 DEF ListInv, FatesFollowSends, Messages
<1>3. NoDanglingNode' /\ LatestFirst'
  <2>1. DOMAIN queue' = {} /\ Range(queue') = {}
    BY <1>1 DEF Range
  <2>2. QED
    BY <1>1, <2>1 DEF NoDanglingNode, LatestFirst
<1>4. SenderOrder'
  BY <1>1 DEF SenderOrder
<1>5. QED
  BY <1>2, <1>3, <1>4 DEF ListInv

LEMMA ListStep == TypeInv /\ ListInv /\ [Next]_vars => ListInv'
<1> SUFFICES ASSUME TypeInv, ListInv, [Next]_vars PROVE ListInv'
  OBVIOUS
<1>0. op \in [Threads -> Ops] /\ Senders \subseteq Threads /\ Worker \in Threads
  BY DEF TypeInv, TypeOK, Senders, Threads
<1>1. ASSUME NEW t \in Senders, NEW delay \in Delays, Send(t, delay)
      PROVE  ListInv'
  BY <1>1, ListSend
<1>2. ASSUME NEW t \in Threads, QueueAtFront(t)
      PROVE  ListInv'
  BY <1>2, ListLink
<1>3. CASE TakeDue
  BY <1>3, ListTake
<1>4. ASSUME NEW t \in Threads, ClearQueue(t)
      PROVE  ListInv'
  BY <1>0, <1>4, ListClear DEF ClearQueue
<1>5. CASE DeleteLooper
  BY <1>5, ListClear DEF DeleteLooper
<1>6. CASE HandlerReturns
  <2>1. /\ fate' = [m \in Messages |-> IF fate[m] = "running" THEN "handled" ELSE fate[m]]
        /\ queue' = queue /\ when' = when /\ sent' = sent /\ op' = op
    BY <1>6 DEF HandlerReturns
  <2>2. FatesFollowSends' /\ SenderOrder'
    BY <2>1 DEF ListInv, FatesFollowSends, SenderOrder
  <2>3. NoDanglingNode' /\ LatestFirst'
    BY <2>1 DEF ListInv, NoDanglingNode, LatestFirst
  <2>4. QED
    BY <2>2, <2>3 DEF ListInv
<1>7. ASSUME NEW t \in Threads, Wake(t) \/ QuitStep(t) \/ BeginClear(t)
      PROVE  ListInv'
  <2>1. UNCHANGED listVars
    BY <1>7 DEF Wake, QuitStep, QuitLooper, QuitQueue, BeginClear
  <2>2. \A u \in Senders : op'[u] = "link" <=> op[u] = "link"
    BY <1>0, <1>7 DEF Wake, QuitStep, QuitLooper, QuitQueue, BeginClear, MayCall
  <2>3. QED
    BY <2>1, <2>2, ListKept
<1>8. ASSUME NEW all \in BOOLEAN, HandlerQuits(all)
      PROVE  ListInv'
  BY <1>0, <1>8, ListKept DEF HandlerQuits
<1>9. CASE PostStarted \/ EnterLoop \/ LeaveLoop \/ PostStopped
  BY <1>9, ListKept DEF PostStarted, EnterLoop, LeaveLoop, PostStopped
<1>10. CASE PollReadable \/ PollTimeout \/ PollInterrupted
  BY <1>10, ListKept DEF PollReadable, PollTimeout, PollInterrupted
<1>11. CASE TakeEarly \/ TakeEmpty
  BY <1>11, ListKept DEF TakeEarly, TakeEmpty
<1>12. CASE ConstructorReturns \/ Join \/ ClearAfterDelete
  BY <1>12, ListKept DEF ConstructorReturns, Join, ClearAfterDelete
<1>13. CASE BeginDestructor
  BY <1>0, <1>13, ListKept, ThreadsDiffer DEF BeginDestructor, Senders
<1>14. CASE Tick \/ \E step \in ClockSteps : SetClock(step)
  BY <1>14, ListKept DEF Tick, SetClock
<1>15. CASE UNCHANGED vars
  BY <1>15, ListKept DEF vars
<1>16. QED
  BY <1>1, <1>2, <1>3, <1>4, <1>5, <1>6, <1>7, <1>8, <1>9, <1>10, <1>11,
     <1>12, <1>13, <1>14, <1>15
     DEF Next, SenderStep, WorkerStep, OwnerStep, Terminated, Threads

LEMMA ListInvariant == Spec => []ListInv
<1>1. QED
  BY ListInit, ListStep, TypeInvariant, PTL DEF Spec

(* Whatever is linked is a message nobody has deleted, and linked once:    *)
(* queueAtFront, getMessage, removeMessage and the two ways to clear agree *)
(* on who owns a node.                                                     *)
THEOREM NodesLive == Spec => []NoDanglingNode
<1>1. ListInv => NoDanglingNode
  BY DEF ListInv
<1>2. QED
  BY <1>1, ListInvariant, PTL

(* A sender's messages are not overtaken by later ones that are due no     *)
(* sooner, whatever the clock does and whoever else sends: getMessage scans*)
(* from the oldest node and replaces its choice only by a strictly earlier *)
(* one.                                                                    *)
THEOREM OrderKept == Spec => []SenderOrder
<1>1. ListInv => SenderOrder
  BY DEF ListInv
<1>2. QED
  BY <1>1, ListInvariant, PTL

-----------------------------------------------------------------------------
(* Sleeping.                                                               *)

LEMMA PollInit == Init => PollCoversQueue
BY DEF Init, PollCoversQueue

LEMMA PollStep ==
  LifecycleInv /\ ListInv /\ PollCoversQueue /\ [Next]_vars => PollCoversQueue'
<1> SUFFICES ASSUME LifecycleInv, ListInv, PollCoversQueue, [Next]_vars
             PROVE  PollCoversQueue'
  OBVIOUS
<1> USE DEF PollCoversQueue, WakeComing, loopVars, flagVars, listVars, clockVars
<1>0. /\ op \in [Threads -> Ops] /\ Owner \in Threads /\ Worker \in Threads
      /\ Senders \subseteq Threads
      /\ pipe \in Nat /\ timeout \in Nat \cup {Forever} /\ now \in Nat
      /\ clockSets \in Nat /\ queue \in Seq(Messages) /\ when \in [Messages -> Int]
      /\ CallsInPlace
      /\ \A m \in Range(queue) : m \in Messages
  BY BoundsAreNumbers
     DEF LifecycleInv, TypeInv, TypeOK, Threads, Senders, ListInv, NoDanglingNode
<1>1. ASSUME NEW t \in Senders, NEW delay \in Delays, Send(t, delay)
      PROVE  PollCoversQueue'
  <2> DEFINE new == <<t, sent[t] + 1>>
  <2>1. fate[new] # "queued"
    <3>1. /\ new \in Messages /\ sent[t] \in Nat
      BY <1>1, BoundsAreNumbers DEF Send, Messages, LifecycleInv, TypeInv, TypeOK
    <3>2. fate[new] = "unsent"
      BY <3>1 DEF ListInv, FatesFollowSends
    <3>3. QED
      BY <3>2
  <2>2. new \notin Range(queue)
    BY <2>1 DEF ListInv, NoDanglingNode
  <2>3. \A m \in Range(queue) : when'[m] = when[m]
    BY <1>0, <1>1, <2>2 DEF Send
  <2>4. queue' = queue /\ UNCHANGED <<clockVars, pipe, loopVars>>
    BY <1>1 DEF Send
  <2>5. WakeComing => WakeComing'
    BY <1>0, <1>1 DEF Send, MayCall
  <2>6. QED
    BY <2>3, <2>4, <2>5
<1>2. ASSUME NEW t \in Clients, BeginClear(t)
      PROVE  PollCoversQueue'
  BY <1>0, <1>2 DEF BeginClear, MayCall
<1>3. ASSUME NEW t \in Threads, QueueAtFront(t)
      PROVE  PollCoversQueue'
  BY <1>0, <1>3 DEF QueueAtFront
<1>4. ASSUME NEW t \in Threads, Wake(t)
      PROVE  PollCoversQueue'
  <2>1. pipe' > 0
    BY <1>0, <1>4, BoundsAreNumbers DEF Wake
  <2>2. QED
    BY <2>1
<1>5. ASSUME DeleteAllQueued
      PROVE  PollCoversQueue'
  <2>1. Range(queue') = {}
    BY <1>5 DEF DeleteAllQueued, Range
  <2>2. QED
    BY <2>1
<1>6. ASSUME NEW t \in Threads, QuitLooper(t)
      PROVE  PollCoversQueue'
  BY <1>0, <1>6 DEF QuitLooper
<1>7. ASSUME NEW t \in Threads, QuitQueue(t)
      PROVE  PollCoversQueue'
  BY <1>0, <1>7 DEF QuitQueue
<1>8. ASSUME NEW all \in BOOLEAN, HandlerQuits(all)
      PROVE  PollCoversQueue'
  BY <1>8 DEF HandlerQuits
<1>9. CASE PostStarted \/ EnterLoop \/ LeaveLoop \/ PostStopped \/ HandlerReturns
  BY <1>9 DEF PostStarted, EnterLoop, LeaveLoop, PostStopped, HandlerReturns
<1>10. CASE PollReadable \/ PollTimeout \/ PollInterrupted
  BY <1>10 DEF PollReadable, PollTimeout, PollInterrupted
<1>11. CASE TakeDue
  BY <1>11 DEF TakeDue
<1>12. CASE TakeEmpty
  <2>1. Range(queue') = {}
    BY <1>12 DEF TakeEmpty, NothingToTake, Range
  <2>2. QED
    BY <2>1
<1>13. CASE TakeEarly
  <2>1. PICK i \in DOMAIN queue :
           IsEarliest(i) /\ when[queue[i]] > now /\ timeout' = when[queue[i]] - now
    BY <1>13 DEF TakeEarly, TimeLeft
  <2>2. queue[i] \in Messages /\ UNCHANGED <<clockVars, queue, when, pipe, op>>
    BY <1>0, <1>13, <2>1, ElementOfSeq DEF TakeEarly
  <2>3. ASSUME NEW m \in Range(queue)
        PROVE  timeout' # Forever /\ timeout' <= when[m] - now
    <3>1. PICK j \in DOMAIN queue : m = queue[j]
      BY DEF Range
    <3>2. when[queue[i]] <= when[m]
      BY <2>1, <3>1 DEF IsEarliest
    <3>3. QED
      BY <1>0, <2>1, <2>2, <3>2
  <2>4. QED
    BY <2>2, <2>3
<1>14. CASE ConstructorReturns \/ Join \/ ClearAfterDelete
  BY <1>14 DEF ConstructorReturns, Join, ClearAfterDelete
<1>15. CASE BeginDestructor
  BY <1>0, <1>15 DEF BeginDestructor, CallsInPlace
<1>16. CASE Tick
  <2>1. /\ now' \in Nat /\ now' <= now + 1
        /\ worker = "poll" => timeout' = IF timeout > 0 THEN timeout - 1 ELSE timeout
        /\ UNCHANGED <<clockSets, listVars, pipe, op, worker>>
    BY <1>0, <1>16 DEF Tick
  <2>2. QED
    BY <1>0, <2>1
<1>17. ASSUME NEW step \in ClockSteps, SetClock(step)
       PROVE  PollCoversQueue'
  <2>1. clockSets' # 0
    BY <1>0, <1>17 DEF SetClock
  <2>2. QED
    BY <2>1
<1>18. CASE UNCHANGED vars
  BY <1>18 DEF vars
<1>19. QED
  BY <1>1, <1>2, <1>3, <1>4, <1>5, <1>6, <1>7, <1>8, <1>9, <1>10, <1>11,
     <1>12, <1>13, <1>14, <1>15, <1>16, <1>17, <1>18
     DEF Next, SenderStep, QuitStep, WorkerStep, OwnerStep, Terminated,
         ClearQueue, DeleteLooper

(* While nobody sets the clock, the loop never sleeps past a message, also *)
(* one that was queued while it slept for a later one.                     *)
THEOREM SleepsNoLonger == Spec => []PollCoversQueue
<1>1. QED
  BY PollInit, PollStep, LifecycleInvariant, ListInvariant, PTL DEF Spec

-----------------------------------------------------------------------------
(* Quitting.                                                               *)

(* Messages that have been admitted and neither handled nor deleted.       *)
Unhandled == {m \in Messages : fate[m] \in {"held", "queued"}}

OwnerOps == {"idle", "quit_all", "quit_clear", "quit_flag", "quit_wake"}

Left == worker \in {"leave", "stopped", "done"}

ClearedForGood ==
  op[Owner] \in {"quit_flag", "quit_wake"} \/ owner \notin {"ctor", "live", "quit"}

(* The queue is told after the looper, and when no handler quits, only by  *)
(* the destructor.  From then on the unhandled messages are those that     *)
(* were admitted before.                                                   *)
QuitInv ==
  /\ queueQuit => looperQuit
  /\ op[Owner] \in OwnerOps
  /\ \A t \in Threads : op[t] \in {"quit_clear", "quit_flag", "quit_wake"} => looperQuit
  /\ ~HandlersMayQuit =>
       /\ \A t \in Senders : op[t] \in {"idle", "link", "wake", "clear"}
       /\ owner \in {"ctor", "live"} => ~looperQuit
       /\ ClearedForGood => looperQuit /\ \A m, n \in Unhandled : m = n
       /\ Left => Unhandled = {}
  /\ Left => /\ queueQuit
             /\ \A m, n \in Unhandled : m[1] = n[1] => m = n

ExitInv == LifecycleInv /\ ListInv /\ QuitInv

LEMMA QuitInit == Init => QuitInv
BY DEF Init, QuitInv, OwnerOps, Left, ClearedForGood, Unhandled, Senders, Threads

(* After the looper has quit no message is admitted any more.              *)
LEMMA NothingAdmitted ==
  ASSUME LifecycleInv, ListInv, [Next]_vars, looperQuit
  PROVE  Unhandled' \subseteq Unhandled
<1> USE DEF Unhandled
<1>0. op \in [Threads -> Ops] /\ fate \in [Messages -> Fates] /\ sent \in [Senders -> 0 .. MaxSends]
  BY DEF LifecycleInv, TypeInv, TypeOK
<1>1. ASSUME NEW t \in Senders, NEW delay \in Delays, Send(t, delay)
      PROVE  Unhandled' \subseteq Unhandled
  BY <1>0, <1>1 DEF Send, Admits
<1>2. ASSUME NEW t \in Threads, QueueAtFront(t)
      PROVE  Unhandled' \subseteq Unhandled
  <2> DEFINE message == <<t, sent[t]>>
  <2>1. t \in Senders /\ sent[t] \in 1 .. MaxSends
    BY <1>2 DEF LifecycleInv, TypeInv, LinksOwnMessage, QueueAtFront
  <2>2. message \in Messages /\ message[1] = t /\ message[2] = sent[t]
    BY <2>1 DEF Messages
  <2>3. fate[message] = "held"
    BY <2>2, <1>2 DEF ListInv, FatesFollowSends, QueueAtFront
  <2>4. fate' = [fate EXCEPT ![message] = "queued"]
    BY <1>2 DEF QueueAtFront
  <2> HIDE DEF message
  <2>5. QED
    BY <1>0, <2>2, <2>3, <2>4
<1>3. CASE TakeDue
  BY <1>0, <1>3 DEF TakeDue
<1>4. CASE HandlerReturns
  BY <1>0, <1>4 DEF HandlerReturns
<1>5. CASE DeleteLooper \/ \E t \in Threads : ClearQueue(t)
  BY <1>0, <1>5 DEF DeleteLooper, ClearQueue, DeleteAllQueued
<1>6. ASSUME fate' = fate PROVE Unhandled' \subseteq Unhandled
  BY <1>6
<1>7. ASSUME \/ \E t \in Clients : BeginClear(t)
             \/ \E t \in Threads : Wake(t) \/ QuitStep(t)
             \/ \E all \in BOOLEAN : HandlerQuits(all)
             \/ PostStarted \/ EnterLoop \/ PollReadable \/ PollTimeout \/ PollInterrupted
             \/ TakeEarly \/ TakeEmpty \/ LeaveLoop \/ PostStopped
             \/ ConstructorReturns \/ Join \/ ClearAfterDelete \/ BeginDestructor \/ Tick
             \/ \E step \in ClockSteps : SetClock(step)
             \/ UNCHANGED vars
      PROVE  fate' = fate
  BY <1>7 DEF BeginClear, Wake, QuitStep, QuitLooper, QuitQueue, HandlerQuits, PostStarted,
     EnterLoop, PollReadable, PollTimeout, PollInterrupted, TakeEarly, TakeEmpty, LeaveLoop,
     PostStopped, ConstructorReturns, Join, ClearAfterDelete, BeginDestructor, Tick, SetClock,
     vars, listVars
<1>8. QED
  BY <1>1, <1>2, <1>3, <1>4, <1>5, <1>6, <1>7
     DEF Next, SenderStep, WorkerStep, OwnerStep, Terminated

(* An empty list leaves the messages that threads are about to link.       *)
LEMMA HeldIsLatest ==
  ASSUME ListInv, NEW m \in Messages, fate[m] = "held"
  PROVE  op[m[1]] = "link" /\ m = <<m[1], sent[m[1]]>> /\ m[1] \in Senders
BY DEF ListInv, FatesFollowSends, Messages

LEMMA NoneQueued ==
  ASSUME ListInv, queue = <<>>, NEW m \in Messages
  PROVE  fate[m] # "queued"
BY DEF ListInv, NoDanglingNode, Range

(* Conjunct by conjunct.                                                   *)
LEMMA FlagsStep ==
  ASSUME ExitInv, [Next]_vars
  PROVE  /\ (queueQuit => looperQuit)'
         /\ (\A t \in Threads : op[t] \in {"quit_clear", "quit_flag", "quit_wake"} => looperQuit)'
         /\ looperQuit => looperQuit'
<1> USE DEF flagVars
<1>0. op \in [Threads -> Ops] /\ Owner \in Threads /\ Worker \in Threads /\ QuitInv
      /\ Senders \subseteq Threads /\ Clients \subseteq Threads
  BY DEF ExitInv, LifecycleInv, TypeInv, TypeOK, Threads, Senders
<1> USE DEF QuitInv
<1>1. ASSUME NEW t \in Threads, QuitLooper(t) \/ QuitQueue(t)
      PROVE  /\ queueQuit' => looperQuit'
             /\ looperQuit => looperQuit'
             /\ \A u \in Threads : op'[u] \in {"quit_clear", "quit_flag", "quit_wake"} => looperQuit'
  BY <1>0, <1>1 DEF QuitLooper, QuitQueue
<1>2. ASSUME UNCHANGED flagVars,
             \A u \in Threads : op'[u] \in {"quit_clear", "quit_flag", "quit_wake"}
                => op[u] \in {"quit_clear", "quit_flag", "quit_wake"}
      PROVE  /\ queueQuit' => looperQuit'
             /\ looperQuit => looperQuit'
             /\ \A u \in Threads : op'[u] \in {"quit_clear", "quit_flag", "quit_wake"} => looperQuit'
  BY <1>0, <1>2
<1>3. ASSUME NEW t \in Threads,
             \/ QueueAtFront(t) \/ Wake(t) \/ ClearQueue(t) \/ BeginClear(t)
             \/ \E delay \in Delays : Send(t, delay)
             \/ \E all \in BOOLEAN : HandlerQuits(all)
             \/ BeginDestructor
      PROVE  /\ UNCHANGED flagVars
             /\ \A u \in Threads : op'[u] \in {"quit_clear", "quit_flag", "quit_wake"}
                   => op[u] \in {"quit_clear", "quit_flag", "quit_wake"}
  BY <1>0, <1>3 DEF QueueAtFront, Wake, ClearQueue, BeginClear, Send, HandlerQuits, BeginDestructor
<1>4. ASSUME WorkerStep \/ PollInterrupted \/ OwnerStep \/ Tick \/ UNCHANGED vars
             \/ \E step \in ClockSteps : SetClock(step)
      PROVE  UNCHANGED flagVars /\ op' = op
  BY <1>4 DEF WorkerStep, PostStarted, EnterLoop, PollReadable, PollTimeout, PollInterrupted,
     TakeDue, TakeEarly, TakeEmpty, HandlerReturns, LeaveLoop, PostStopped, OwnerStep,
     ConstructorReturns, Join, DeleteLooper, ClearAfterDelete, Tick, SetClock, vars
<1>5. CASE \E t \in Threads : QuitLooper(t) \/ QuitQueue(t)
  <2>1. PICK t \in Threads : QuitLooper(t) \/ QuitQueue(t)
    BY <1>5
  <2>2. QED
    BY <2>1, <1>1
<1>6. CASE \/ \E t \in Senders, delay \in Delays : Send(t, delay)
           \/ \E t \in Clients : BeginClear(t)
           \/ \E t \in Threads : SenderStep(t)
           \/ \E all \in BOOLEAN : HandlerQuits(all)
           \/ BeginDestructor
  <2>1. \E t \in Threads :
             \/ QueueAtFront(t) \/ Wake(t) \/ ClearQueue(t) \/ BeginClear(t)
             \/ \E delay \in Delays : Send(t, delay)
             \/ \E all \in BOOLEAN : HandlerQuits(all)
             \/ BeginDestructor
    BY <1>0, <1>6 DEF SenderStep
  <2>2. QED
    BY <2>1, <1>2, <1>3
<1>7. CASE \/ WorkerStep \/ PollInterrupted \/ OwnerStep \/ Tick \/ UNCHANGED vars
           \/ \E step \in ClockSteps : SetClock(step)
  BY <1>2, <1>4, <1>7
<1>8. QED
  BY <1>5, <1>6, <1>7 DEF Next, QuitStep, Terminated

LEMMA OwnerOpsStep ==
  ASSUME ExitInv, [Next]_vars
  PROVE  op'[Owner] \in OwnerOps
<1>0. /\ op \in [Threads -> Ops] /\ Owner \in Threads /\ Owner \notin Senders
      /\ op[Owner] \in OwnerOps
  BY ThreadsDiffer DEF ExitInv, LifecycleInv, TypeInv, TypeOK, Threads, Senders, QuitInv
<1> USE DEF OwnerOps
<1>1. ASSUME NEW t \in Threads, SenderStep(t) \/ QuitStep(t)
      PROVE  op'[Owner] \in OwnerOps
  BY <1>0, <1>1 DEF SenderStep, QuitStep, QueueAtFront, Wake, ClearQueue, QuitLooper, QuitQueue
<1>2. CASE \/ \E t \in Senders, delay \in Delays : Send(t, delay)
           \/ \E t \in Clients : BeginClear(t)
           \/ \E all \in BOOLEAN : HandlerQuits(all)
  BY <1>0, <1>2, ThreadsDiffer DEF Send, BeginClear, HandlerQuits, Senders
<1>3. CASE BeginDestructor
  BY <1>0, <1>3 DEF BeginDestructor
<1>4. CASE \/ WorkerStep \/ PollInterrupted \/ OwnerStep \/ Tick \/ UNCHANGED vars
           \/ \E step \in ClockSteps : SetClock(step)
  <2>1. op' = op
    BY <1>4 DEF WorkerStep, PostStarted, EnterLoop, PollReadable, PollTimeout, PollInterrupted,
       TakeDue, TakeEarly, TakeEmpty, HandlerReturns, LeaveLoop, PostStopped, OwnerStep,
       ConstructorReturns, Join, DeleteLooper, ClearAfterDelete, Tick, SetClock, vars
  <2>2. QED
    BY <1>0, <2>1
<1>5. QED
  BY <1>1, <1>2, <1>3, <1>4 DEF Next, Terminated

LEMMA LeftStep ==
  ASSUME ExitInv, [Next]_vars
  PROVE  (Left => /\ queueQuit
                  /\ \A m, n \in Unhandled : m[1] = n[1] => m = n)'
<1> USE DEF ExitInv, QuitInv
<1>1. CASE Left
  <2>1. looperQuit /\ queueQuit
    BY <1>1
  <2>2. Unhandled' \subseteq Unhandled
    BY <2>1, NothingAdmitted
  <2>3. queueQuit'
    <3>1. CASE \E t \in Threads : QuitQueue(t)
      BY <3>1 DEF QuitQueue
    <3>2. CASE ~(\E t \in Threads : QuitQueue(t))
      BY <2>1, <3>2 DEF Next, SenderStep, QuitStep, Terminated, WorkerStep, OwnerStep, QueueAtFront, Wake,
         ClearQueue, BeginClear, Send, HandlerQuits, BeginDestructor, PostStarted, EnterLoop, PollReadable,
         PollTimeout, PollInterrupted, TakeDue, TakeEarly, TakeEmpty, HandlerReturns, LeaveLoop,
         PostStopped, ConstructorReturns, Join, DeleteLooper, ClearAfterDelete, Tick, SetClock,
         QuitLooper, flagVars, vars
    <3>3. QED
      BY <3>1, <3>2
  <2>4. QED
    BY <1>1, <2>2, <2>3
<1>2. CASE ~Left /\ TakeEmpty
  <2>1. queue = <<>> /\ UNCHANGED <<queueQuit, fate>> /\ (Left' => queueQuit)
    BY <1>2 DEF TakeEmpty, NothingToTake, listVars, flagVars, Left
  <2>2. \A m \in Unhandled : fate[m] = "held"
    BY <2>1, NoneQueued DEF Unhandled
  <2>3. \A m, n \in Unhandled : m[1] = n[1] => m = n
    BY <2>2, HeldIsLatest DEF Unhandled
  <2>4. Unhandled' = Unhandled
    BY <2>1 DEF Unhandled
  <2>5. QED
    BY <2>1, <2>3, <2>4
<1>3. CASE ~Left /\ ~TakeEmpty
  <2>1. ~Left'
    BY <1>3 DEF Left, Next, SenderStep, QuitStep, Terminated, WorkerStep, OwnerStep, QueueAtFront, Wake,
       ClearQueue, BeginClear, Send, HandlerQuits, BeginDestructor, PostStarted, EnterLoop, PollReadable,
       PollTimeout, PollInterrupted, TakeDue, TakeEarly, HandlerReturns, LeaveLoop,
       PostStopped, ConstructorReturns, Join, DeleteLooper, ClearAfterDelete, Tick, SetClock,
       QuitLooper, QuitQueue, loopVars, vars
  <2>2. QED
    BY <2>1
<1>4. QED
  BY <1>1, <1>2, <1>3

(* What holds as long as handlers do not quit their looper.                *)
LEMMA OnlyOwnerQuits ==
  ASSUME ExitInv, [Next]_vars, ~HandlersMayQuit
  PROVE  /\ \A t \in Senders : op'[t] \in {"idle", "link", "wake", "clear"}
         /\ owner' \in {"ctor", "live"} => ~looperQuit'
<1>0. /\ op \in [Threads -> Ops] /\ Owner \in Threads /\ Owner \notin Senders
      /\ Senders \subseteq Threads /\ Clients \subseteq Threads
      /\ op[Owner] # "idle" => owner = "quit"
      /\ \A t \in Senders : op[t] \in {"idle", "link", "wake", "clear"}
      /\ owner \in {"ctor", "live"} => ~looperQuit
  BY ThreadsDiffer DEF ExitInv, LifecycleInv, TypeInv, TypeOK, Threads, Senders, CallsInPlace, QuitInv
<1>1. \A t \in Senders : op'[t] \in {"idle", "link", "wake", "clear"}
  <2>1. ASSUME NEW t \in Threads, QuitLooper(t) \/ QuitQueue(t)
        PROVE  \A u \in Senders : op'[u] \in {"idle", "link", "wake", "clear"}
    BY <1>0, <2>1 DEF QuitLooper, QuitQueue
  <2>2. ASSUME NEW t \in Threads, QueueAtFront(t) \/ Wake(t) \/ ClearQueue(t)
        PROVE  \A u \in Senders : op'[u] \in {"idle", "link", "wake", "clear"}
    BY <1>0, <2>2 DEF QueueAtFront, Wake, ClearQueue
  <2>3. ASSUME NEW t \in Clients, BeginClear(t)
        PROVE  \A u \in Senders : op'[u] \in {"idle", "link", "wake", "clear"}
    BY <1>0, <2>3 DEF BeginClear
  <2>4. ASSUME NEW t \in Senders, NEW delay \in Delays, Send(t, delay)
        PROVE  \A u \in Senders : op'[u] \in {"idle", "link", "wake", "clear"}
    BY <1>0, <2>4 DEF Send
  <2>5. ~(\E all \in BOOLEAN : HandlerQuits(all))
    BY DEF HandlerQuits, ExitInv
  <2>6. CASE BeginDestructor
    BY <1>0, <2>6 DEF BeginDestructor
  <2>7. CASE \/ WorkerStep \/ PollInterrupted \/ OwnerStep \/ Tick \/ UNCHANGED vars
             \/ \E step \in ClockSteps : SetClock(step)
    <3>1. op' = op
      BY <2>7 DEF WorkerStep, PostStarted, EnterLoop, PollReadable, PollTimeout, PollInterrupted,
         TakeDue, TakeEarly, TakeEmpty, HandlerReturns, LeaveLoop, PostStopped, OwnerStep,
         ConstructorReturns, Join, DeleteLooper, ClearAfterDelete, Tick, SetClock, vars
    <3>2. QED
      BY <1>0, <3>1
  <2>8. QED
    BY <2>1, <2>2, <2>3, <2>4, <2>5, <2>6, <2>7 DEF Next, SenderStep, QuitStep, Terminated
<1>2. owner' \in {"ctor", "live"} => owner \in {"ctor", "live"}
  BY DEF Next, SenderStep, QuitStep, Terminated, WorkerStep, OwnerStep, QueueAtFront, Wake,
     ClearQueue, BeginClear, Send, HandlerQuits, BeginDestructor, PostStarted, EnterLoop, PollReadable,
     PollTimeout, PollInterrupted, TakeDue, TakeEarly, TakeEmpty, HandlerReturns, LeaveLoop,
     PostStopped, ConstructorReturns, Join, DeleteLooper, ClearAfterDelete, Tick, SetClock,
     QuitLooper, QuitQueue, vars
<1>3. CASE \E t \in Threads : QuitLooper(t)
  <2>1. op[Owner] # "idle" /\ owner' = owner
    BY <1>0, <1>3 DEF QuitLooper, Threads, Senders
  <2>2. QED
    BY <1>0, <1>1, <2>1
<1>4. CASE ~(\E t \in Threads : QuitLooper(t))
  <2>1. looperQuit' = looperQuit
    BY <1>4 DEF Next, SenderStep, QuitStep, Terminated, WorkerStep, OwnerStep, QueueAtFront, Wake,
       ClearQueue, BeginClear, Send, HandlerQuits, BeginDestructor, PostStarted, EnterLoop, PollReadable,
       PollTimeout, PollInterrupted, TakeDue, TakeEarly, TakeEmpty, HandlerReturns, LeaveLoop,
       PostStopped, ConstructorReturns, Join, DeleteLooper, ClearAfterDelete, Tick, SetClock,
       QuitQueue, flagVars, vars
  <2>2. QED
    BY <1>0, <1>1, <1>2, <2>1
<1>5. QED
  BY <1>3, <1>4

(* Nobody but the worker can be about to link when the destructor runs.    *)
LEMMA OnlyWorkerHolds ==
  ASSUME ExitInv, owner \notin {"live"}, NEW m \in Messages, fate[m] = "held"
  PROVE  m = <<Worker, sent[Worker]>> /\ op[Worker] = "link" /\ worker = "handle"
BY HeldIsLatest DEF ExitInv, LifecycleInv, CallsInPlace, Senders

LEMMA LeavesNothing ==
  ASSUME ExitInv, [Next]_vars, ~HandlersMayQuit, Left'
  PROVE  Unhandled' = {}
<1>1. CASE Left
  <2>1. looperQuit /\ Unhandled = {}
    BY <1>1 DEF ExitInv, QuitInv
  <2>2. QED
    BY <2>1, NothingAdmitted DEF ExitInv
<1>2. CASE ~Left /\ TakeEmpty
  <2>1. /\ queue = <<>> /\ fate' = fate /\ queueQuit /\ worker = "take"
    BY <1>2 DEF TakeEmpty, NothingToTake, listVars, flagVars, Left
  <2>2. owner # "live"
    BY <2>1 DEF ExitInv, QuitInv
  <2>3. \A m \in Messages : fate[m] # "held" /\ fate[m] # "queued"
    BY <2>1, <2>2, OnlyWorkerHolds, NoneQueued DEF ExitInv
  <2>4. QED
    BY <2>1, <2>3 DEF Unhandled
<1>3. CASE ~Left /\ ~TakeEmpty
  <2>1. ~Left'
    BY <1>3 DEF Left, Next, SenderStep, QuitStep, Terminated, WorkerStep, OwnerStep, QueueAtFront, Wake,
       ClearQueue, BeginClear, Send, HandlerQuits, BeginDestructor, PostStarted, EnterLoop, PollReadable,
       PollTimeout, PollInterrupted, TakeDue, TakeEarly, HandlerReturns, LeaveLoop,
       PostStopped, ConstructorReturns, Join, DeleteLooper, ClearAfterDelete, Tick, SetClock,
       QuitLooper, QuitQueue, loopVars, vars
  <2>2. QED
    BY <2>1
<1>4. QED
  BY <1>1, <1>2, <1>3

LEMMA ClearedStep ==
  ASSUME ExitInv, [Next]_vars, ~HandlersMayQuit, ClearedForGood'
  PROVE  looperQuit' /\ \A m, n \in Unhandled' : m = n
<1>0. /\ op \in [Threads -> Ops] /\ Owner \in Threads
      /\ op[Owner] # "idle" => owner = "quit"
      /\ Senders \subseteq Threads /\ Owner \notin Senders /\ op[Owner] \in OwnerOps
  BY ThreadsDiffer DEF ExitInv, LifecycleInv, TypeInv, TypeOK, Threads, Senders, CallsInPlace, QuitInv
<1>1. CASE ClearedForGood
  <2>1. looperQuit /\ \A m, n \in Unhandled : m = n
    BY <1>1 DEF ExitInv, QuitInv
  <2>2. QED
    BY <2>1, NothingAdmitted, FlagsStep DEF ExitInv
<1>2. CASE ~ClearedForGood /\ ClearQueue(Owner)
  <2>1. /\ op[Owner] \in {"clear", "quit_clear"} /\ op'[Owner] = IF op[Owner] = "clear" THEN "idle" ELSE "quit_flag"
        /\ UNCHANGED <<owner, looperQuit, op>> \/ op[Owner] # op'[Owner]
        /\ owner' = owner /\ looperQuit' = looperQuit
        /\ fate' = [m \in Messages |-> IF m \in Range(queue) THEN "cleared" ELSE fate[m]]
    BY <1>0, <1>2 DEF ClearQueue, DeleteAllQueued, flagVars
  <2>2. op[Owner] = "quit_clear" /\ owner = "quit"
    BY <1>0, <1>2, <2>1 DEF ClearedForGood
  <2>3. looperQuit
    BY <1>0, <2>2 DEF ExitInv, QuitInv
  <2>4. \A m \in Unhandled' : m \in Messages /\ fate[m] = "held"
    BY <2>1 DEF Unhandled, ExitInv, ListInv, NoDanglingNode
  <2>5. \A m \in Unhandled' : m = <<Worker, sent[Worker]>>
    BY <2>2, <2>4, OnlyWorkerHolds
  <2>6. QED
    BY <2>1, <2>3, <2>5
<1>3. CASE ~ClearedForGood /\ ~ClearQueue(Owner)
  <2>1. owner \in {"ctor", "live", "quit"} /\ op[Owner] \notin {"quit_flag", "quit_wake"}
    BY <1>3 DEF ClearedForGood
  <2>2. ~(BeginDestructor /\ looperQuit)
    BY DEF BeginDestructor, ExitInv, QuitInv
  <2>3. ~ClearedForGood'
    <3>1. CASE \E t \in Threads : SenderStep(t) \/ QuitStep(t)
      <4>1. PICK t \in Threads : SenderStep(t) \/ QuitStep(t)
        BY <3>1
      <4>2. (op'[Owner] = op[Owner] /\ owner' = owner) \/ t = Owner
        BY <1>0, <4>1 DEF SenderStep, QuitStep, QueueAtFront, Wake, ClearQueue, QuitLooper, QuitQueue
      <4>3. CASE t = Owner
        <5>1. QuitLooper(t) /\ op[t] = "quit_all"
          BY <1>0, <1>3, <2>1, <4>1, <4>3 DEF SenderStep, QuitStep, QueueAtFront, Wake, ClearQueue,
             QuitLooper, QuitQueue, OwnerOps
        <5>2. op'[Owner] = "quit_clear" /\ owner' = owner
          BY <1>0, <4>3, <5>1 DEF QuitLooper
        <5>3. QED
          BY <2>1, <5>2 DEF ClearedForGood
      <4>4. QED
        BY <2>1, <4>2, <4>3 DEF ClearedForGood
    <3>2. CASE \/ \E t \in Senders, delay \in Delays : Send(t, delay)
               \/ \E t \in Clients : BeginClear(t)
               \/ \E all \in BOOLEAN : HandlerQuits(all)
      BY <1>0, <2>1, <3>2, ThreadsDiffer DEF Send, BeginClear, HandlerQuits, ClearedForGood, Senders
    <3>3. CASE BeginDestructor
      BY <1>0, <2>1, <2>2, <3>3 DEF BeginDestructor, ClearedForGood
    <3>4. CASE OwnerStep
      BY <1>0, <2>1, <3>4 DEF OwnerStep, ConstructorReturns, Join, DeleteLooper, ClearAfterDelete, ClearedForGood
    <3>5. CASE \/ WorkerStep \/ PollInterrupted \/ Tick \/ UNCHANGED vars
               \/ \E step \in ClockSteps : SetClock(step)
      <4>1. op' = op /\ owner' = owner
        BY <3>5 DEF WorkerStep, PostStarted, EnterLoop, PollReadable, PollTimeout, PollInterrupted,
           TakeDue, TakeEarly, TakeEmpty, HandlerReturns, LeaveLoop, PostStopped, Tick, SetClock, vars
      <4>2. QED
        BY <1>3, <4>1 DEF ClearedForGood
    <3>6. QED
      BY <3>1, <3>2, <3>3, <3>4, <3>5 DEF Next, Terminated
  <2>4. QED
    BY <2>3
<1>4. QED
  BY <1>1, <1>2, <1>3

LEMMA ExitInvariant == Spec => []ExitInv
<1>1. ExitInv /\ [Next]_vars => QuitInv'
  BY FlagsStep, OwnerOpsStep, LeftStep, OnlyOwnerQuits, LeavesNothing, ClearedStep DEF QuitInv
<1>2. QED
  BY <1>1, QuitInit, LifecycleInvariant, ListInvariant, PTL DEF Spec, ExitInv

(* ~NThread waits for at most one message more than the one being handled: *)
(* the one the handler had sent past the test of Looper::mQuit.            *)
THEOREM OneLate == Spec => []AtMostOneLateMessage
<1>1. ExitInv => AtMostOneLateMessage
  BY DEF ExitInv, QuitInv, ClearedForGood, Unhandled, AtMostOneLateMessage
<1>2. QED
  BY <1>1, ExitInvariant, PTL

(* The worker leaves the loop with an empty queue, and nothing is put into *)
(* it afterwards.                                                          *)
THEOREM Drained == Spec => []ExitDrains
<1>1. ExitInv => ExitDrains
  <2> SUFFICES ASSUME ExitInv, worker = "done", ~HandlersMayQuit PROVE queue = <<>>
    BY DEF ExitDrains
  <2>1. \A m \in Messages : fate[m] # "queued"
    BY DEF ExitInv, QuitInv, Left, Unhandled
  <2>2. Range(queue) = {}
    BY <2>1 DEF ExitInv, ListInv, NoDanglingNode
  <2>3. queue \in Seq(Messages)
    BY DEF ExitInv, LifecycleInv, TypeInv, TypeOK
  <2>4. Len(queue) = 0
    <3>1. ASSUME Len(queue) # 0 PROVE FALSE
      <4>1. 1 \in DOMAIN queue
        BY <2>3, <3>1, LenProperties
      <4>2. queue[1] \in Range(queue)
        BY <4>1 DEF Range
      <4>3. QED
        BY <2>2, <4>2
    <3>2. QED
      BY <3>1
  <2>5. QED
    BY <2>3, <2>4, EmptySeq
<1>2. QED
  BY <1>1, ExitInvariant, PTL

(* A handler that quits its own looper strands at most one message of each *)
(* sender, however many are sent and whenever the queue is told.           *)
THEOREM StrandedBounded == Spec => []StrandedAtMostOnePerClient
<1>1. ExitInv => StrandedAtMostOnePerClient
  BY DEF ExitInv, QuitInv, Left, Unhandled, StrandedAtMostOnePerClient
<1>2. QED
  BY <1>1, ExitInvariant, PTL

-----------------------------------------------------------------------------
(* Going on: what the waits of the constructor and the destructor rest on. *)

(* A set of natural numbers that is not empty has a least one.             *)
LEMMA LeastNumber ==
  ASSUME NEW T \in SUBSET Nat, T # {}
  PROVE  \E m \in T : \A n \in T : m <= n
<1> DEFINE R == {p \in Nat \X Nat : p[1] < p[2]}
<1>1. \A m, n \in Nat : <<m, n>> \in R <=> m < n
  OBVIOUS
<1>2. IsWellFoundedOn(R, Nat)
  BY NatLessThanWellFounded, Zenon DEF OpToRel
<1> HIDE DEF R
<1>3. PICK m \in T : \A n \in T : ~(<<n, m>> \in R)
  BY <1>2, WFMin
<1>4. ASSUME NEW n \in T PROVE m <= n
  <2>1. m \in Nat /\ n \in Nat /\ ~(n < m)
    BY <1>1, <1>3
  <2>2. QED
    BY <2>1
<1>5. QED
  BY <1>4

(* Nothing is stamped before the clock starts.                             *)
DueIsNatural == \A m \in Messages : when[m] \in Nat

LEMMA DueInit == Init => DueIsNatural
BY DEF Init, DueIsNatural

LEMMA DueStep == TypeInv /\ DueIsNatural /\ [Next]_vars => DueIsNatural'
<1> SUFFICES ASSUME TypeInv, DueIsNatural, [Next]_vars PROVE DueIsNatural'
  OBVIOUS
<1>1. CASE \E t \in Senders, delay \in Delays : Send(t, delay)
  <2>1. PICK t \in Senders, delay \in Delays : Send(t, delay)
    BY <1>1
  <2>2. now \in Nat /\ delay \in Nat /\ now + delay \in Nat
    BY BoundsAreNumbers DEF TypeInv, TypeOK
  <2>3. QED
    BY <2>1, <2>2 DEF Send, DueIsNatural, TypeInv, TypeOK
<1>2. CASE ~(\E t \in Senders, delay \in Delays : Send(t, delay))
  <2>1. when' = when
    BY <1>2 DEF Next, SenderStep, QuitStep, Terminated, WorkerStep, OwnerStep, QueueAtFront, Wake,
       ClearQueue, BeginClear, HandlerQuits, BeginDestructor, PostStarted, EnterLoop, PollReadable,
       PollTimeout, PollInterrupted, TakeDue, TakeEarly, TakeEmpty, HandlerReturns, LeaveLoop,
       PostStopped, ConstructorReturns, Join, DeleteLooper, ClearAfterDelete, Tick, SetClock,
       QuitLooper, QuitQueue, listVars, vars
  <2>2. QED
    BY <2>1 DEF DueIsNatural
<1>3. QED
  BY <1>1, <1>2

(* The scan of getMessage settles on a message of every list that has one. *)
LEMMA ScanSettles ==
  ASSUME TypeInv, DueIsNatural, queue # <<>>
  PROVE  \E i \in DOMAIN queue : IsEarliest(i)
<1> DEFINE n == Len(queue)
           dues == {when[queue[i]] : i \in DOMAIN queue}
<1>1. queue \in Seq(Messages) /\ n \in Nat /\ DOMAIN queue = 1 .. n /\ 1 \in DOMAIN queue
  BY LenProperties, EmptySeq DEF TypeInv, TypeOK
<1>2. \A i \in DOMAIN queue : queue[i] \in Messages /\ when[queue[i]] \in Nat
  BY <1>1, ElementOfSeq DEF DueIsNatural
<1>3. PICK least \in dues : \A d \in dues : least <= d
  <2>1. dues \subseteq Nat /\ when[queue[1]] \in dues
    BY <1>1, <1>2
  <2> HIDE DEF dues
  <2>2. QED
    BY <2>1, LeastNumber
<1> DEFINE fromTail == {n - i : i \in {j \in DOMAIN queue : when[queue[j]] = least}}
<1>4. PICK k \in fromTail : \A l \in fromTail : k <= l
  <2>1. PICK i \in DOMAIN queue : when[queue[i]] = least
    BY <1>3
  <2>2. fromTail \subseteq Nat /\ n - i \in fromTail
    BY <1>1, <2>1
  <2> HIDE DEF fromTail
  <2>3. QED
    BY <2>2, LeastNumber
<1>5. PICK i \in DOMAIN queue : when[queue[i]] = least /\ k = n - i
  BY <1>4
<1>6. ASSUME NEW j \in DOMAIN queue
      PROVE  /\ when[queue[i]] <= when[queue[j]]
             /\ j > i => when[queue[i]] < when[queue[j]]
  <2>1. least <= when[queue[j]] /\ least \in Nat
    BY <1>2, <1>3, <1>5
  <2>2. ASSUME j > i, when[queue[j]] = least PROVE FALSE
    <3>1. n - j \in fromTail
      BY <2>2
    <3>2. k <= n - j
      BY <3>1, <1>4
    <3>3. QED
      BY <1>1, <1>5, <2>2, <3>2
  <2>3. when[queue[j]] \in Nat
    BY <1>2
  <2>4. QED
    BY <1>5, <2>1, <2>2, <2>3
<1>7. QED
  BY <1>6 DEF IsEarliest

(* Looper::quit has told the queue, or a thread that is inside it will;    *)
(* and nobody waits in sem_wait of ~NThread for a looper that has not been *)
(* told.                                                                   *)
QuitIsTold ==
  /\ owner \notin {"ctor", "live", "quit"} => looperQuit
  /\ owner = "quit" => op[Owner] # "idle"
  /\ looperQuit => queueQuit \/ \E t \in Threads : op[t] \in {"quit_clear", "quit_flag"}

LEMMA ToldInit == Init => QuitIsTold
BY DEF Init, QuitIsTold

LEMMA ToldStep == ExitInv /\ QuitIsTold /\ [Next]_vars => QuitIsTold'
<1> SUFFICES ASSUME ExitInv, QuitIsTold, [Next]_vars PROVE QuitIsTold'
  OBVIOUS
<1> USE ThreadsDiffer DEF QuitIsTold, loopVars, flagVars
<1>0. /\ op \in [Threads -> Ops] /\ Owner \in Threads /\ Worker \in Threads
      /\ Senders \subseteq Threads /\ Clients \subseteq Threads /\ Owner \notin Senders
      /\ op[Owner] \in OwnerOps /\ (op[Owner] # "idle" => owner = "quit")
      /\ \A t \in Threads : op[t] \in {"quit_clear", "quit_flag", "quit_wake"} => looperQuit
  BY DEF ExitInv, LifecycleInv, TypeInv, TypeOK, CallsInPlace, QuitInv, Threads, Senders
<1>1. ASSUME NEW t \in Threads, QuitLooper(t)
      PROVE  QuitIsTold'
  BY <1>0, <1>1 DEF QuitLooper
<1>2. ASSUME NEW t \in Threads, QuitQueue(t)
      PROVE  QuitIsTold'
  BY <1>0, <1>2 DEF QuitQueue
<1>3. ASSUME NEW t \in Threads, Wake(t)
      PROVE  QuitIsTold'
  BY <1>0, <1>3 DEF Wake, OwnerOps
<1>4. ASSUME NEW t \in Threads, QueueAtFront(t)
      PROVE  QuitIsTold'
  BY <1>0, <1>4 DEF QueueAtFront
<1>12. ASSUME NEW t \in Threads, ClearQueue(t)
      PROVE  QuitIsTold'
  <2>1. UNCHANGED <<owner, looperQuit, queueQuit>>
    BY <1>12 DEF ClearQueue
  <2>2. \A u \in Threads : op'[u] = IF u = t THEN IF op[t] = "clear" THEN "idle" ELSE "quit_flag" ELSE op[u]
    BY <1>0, <1>12 DEF ClearQueue
  <2>3. op[t] \in {"clear", "quit_clear"}
    BY <1>12 DEF ClearQueue
  <2>4. owner' = "quit" => op'[Owner] # "idle"
    BY <1>0, <2>1, <2>2, <2>3 DEF OwnerOps
  <2>5. ASSUME NEW u \in Threads, op[u] \in {"quit_clear", "quit_flag"}
        PROVE  op'[u] \in {"quit_clear", "quit_flag"}
    BY <2>2, <2>3, <2>5
  <2>6. QED
    BY <2>1, <2>4, <2>5
<1>5. ASSUME NEW t \in Clients, BeginClear(t)
      PROVE  QuitIsTold'
  BY <1>0, <1>5 DEF BeginClear, MayCall
<1>6. ASSUME NEW t \in Senders, NEW delay \in Delays, Send(t, delay)
      PROVE  QuitIsTold'
  BY <1>0, <1>6 DEF Send, MayCall
<1>7. ASSUME NEW all \in BOOLEAN, HandlerQuits(all)
      PROVE  QuitIsTold'
  BY <1>0, <1>7 DEF HandlerQuits
<1>8. CASE BeginDestructor
  BY <1>0, <1>8 DEF BeginDestructor
<1>9. CASE OwnerStep
  BY <1>9 DEF OwnerStep, ConstructorReturns, Join, DeleteLooper, ClearAfterDelete
<1>10. CASE \/ WorkerStep \/ PollInterrupted \/ Tick \/ UNCHANGED vars
            \/ \E step \in ClockSteps : SetClock(step)
  <2>1. UNCHANGED <<op, owner, looperQuit, queueQuit>>
    BY <1>10 DEF WorkerStep, PostStarted, EnterLoop, PollReadable, PollTimeout, PollInterrupted,
       TakeDue, TakeEarly, TakeEmpty, HandlerReturns, LeaveLoop, PostStopped, Tick, SetClock, vars
  <2>2. QED
    BY <2>1
<1>11. QED
  BY <1>1, <1>2, <1>3, <1>4, <1>5, <1>6, <1>7, <1>8, <1>9, <1>10, <1>12
     DEF Next, SenderStep, QuitStep, Terminated

(* The loop has a step to take: it is about to wake up by itself or has a  *)
(* byte to read, the scan has an outcome, the handler is not inside a call *)
(* of its own.                                                             *)
LoopGoesOn ==
  \/ worker \in {"start", "posted", "leave", "stopped"}
  \/ worker = "poll" /\ (pipe > 0 \/ timeout # Forever)
  \/ worker = "take" /\ (queue = <<>> \/ \E i \in DOMAIN queue : IsEarliest(i))
  \/ worker = "handle" /\ op[Worker] = "idle"

(* Nobody waits for nobody: the constructor waits for a post that is there *)
(* or for a worker that is about to post; a quit that has begun has a next *)
(* step; and the destructor that waits finds the post there, a loop that   *)
(* has a step to take, or a thread in the middle of a call.                *)
WaitsForSomebody ==
  /\ owner = "ctor" => sem > 0 \/ worker = "start"
  /\ owner = "quit" => op[Owner] # "idle"
  /\ owner = "join" => sem > 0 \/ LoopGoesOn \/ \E t \in Threads : op[t] # "idle"

(* The constructor and the destructor of NThread never wait for a loop     *)
(* that sleeps for good: whichever of the loop and the destructor gets     *)
(* first to the queue, the flag, the pipe and the one semaphore that       *)
(* counts both the start and the end, somebody can move.                   *)
THEOREM NeverStuck == Spec => []WaitsForSomebody
<1>1. ASSUME ExitInv, NoLostWakeup, DueIsNatural, QuitIsTold
      PROVE  WaitsForSomebody
  <2>0. /\ worker \in WorkerStates /\ sem \in Nat /\ Worker \in Threads
        /\ SemaphoreCounts
    BY <1>1 DEF ExitInv, LifecycleInv, TypeInv, TypeOK, Threads
  <2>1. owner = "ctor" => sem > 0 \/ worker = "start"
    BY <2>0 DEF SemaphoreCounts, Count
  <2>2. owner = "quit" => op[Owner] # "idle"
    BY <1>1 DEF QuitIsTold
  <2>3. ASSUME owner = "join", \A t \in Threads : op[t] = "idle"
        PROVE  sem > 0 \/ LoopGoesOn
    <3>1. queueQuit
      BY <1>1, <2>3 DEF QuitIsTold
    <3>2. CASE worker = "done"
      BY <2>0, <2>3, <3>2 DEF SemaphoreCounts, Count
    <3>3. CASE worker = "poll"
      BY <1>1, <2>3, <3>1, <3>3 DEF NoLostWakeup, WakeComing, LoopGoesOn
    <3>4. CASE worker = "take"
      BY <1>1, <3>4, ScanSettles DEF LoopGoesOn, ExitInv, LifecycleInv
    <3>5. CASE worker \in {"start", "posted", "leave", "stopped", "handle"}
      BY <2>0, <2>3, <3>5 DEF LoopGoesOn
    <3>6. QED
      BY <2>0, <3>2, <3>3, <3>4, <3>5 DEF WorkerStates
  <2>4. QED
    BY <2>1, <2>2, <2>3 DEF WaitsForSomebody
<1>2. TypeInv /\ DueIsNatural /\ [Next]_vars => DueIsNatural'
  BY DueStep
<1>3. ExitInv /\ QuitIsTold /\ [Next]_vars => QuitIsTold'
  BY ToldStep
<1>4. Spec => []DueIsNatural
  BY DueInit, <1>2, TypeInvariant, PTL DEF Spec
<1>5. Spec => []QuitIsTold
  BY ToldInit, <1>3, ExitInvariant, PTL DEF Spec
<1>6. QED
  BY <1>1, <1>4, <1>5, ExitInvariant, Wakeup, PTL
=============================================================================
