------------------------- MODULE HandlerThreadRefines -------------------------
(***************************************************************************)
(* HandlerThread implements Mailbox and, seen from its list, DelayQueue,   *)
(* for every value of the constants.                                       *)
(***************************************************************************)
EXTENDS HandlerThreadProofs

(* Only a worker that runs a handler has taken a message out.              *)
RunsInHandler == worker # "handle" => Handling = {}

LEMMA RunsInit == Init => RunsInHandler
BY DEF Init, RunsInHandler, Handling

LEMMA RunsStep == TypeInv /\ ListInv /\ RunsInHandler /\ [Next]_vars => RunsInHandler'
<1> SUFFICES ASSUME TypeInv, ListInv, RunsInHandler, [Next]_vars
             PROVE  RunsInHandler'
  OBVIOUS
<1> USE DEF RunsInHandler, Handling
<1>0. fate \in [Messages -> Fates]
  BY DEF TypeInv, TypeOK
<1>1. CASE worker' = worker /\ Handling' = Handling
  BY <1>1
<1>2. ASSUME NEW t \in Senders, NEW delay \in Delays, Send(t, delay)
      PROVE  RunsInHandler'
  BY <1>0, <1>2 DEF Send, loopVars
<1>3. ASSUME NEW t \in Threads, QueueAtFront(t)
      PROVE  RunsInHandler'
  BY <1>0, <1>3 DEF QueueAtFront, loopVars
<1>4. ASSUME DeleteAllQueued, worker' = worker
      PROVE  RunsInHandler'
  BY <1>0, <1>4 DEF DeleteAllQueued
<1>5. CASE TakeDue
  BY <1>5 DEF TakeDue
<1>6. CASE HandlerReturns
  BY <1>0, <1>6 DEF HandlerReturns
<1>7. CASE PostStarted \/ EnterLoop \/ LeaveLoop \/ PostStopped
  BY <1>7 DEF PostStarted, EnterLoop, LeaveLoop, PostStopped, listVars
<1>8. CASE PollReadable \/ PollTimeout \/ PollInterrupted
  BY <1>8 DEF PollReadable, PollTimeout, PollInterrupted, listVars
<1>9. CASE TakeEarly \/ TakeEmpty
  BY <1>9 DEF TakeEarly, TakeEmpty, listVars
<1>10. ASSUME \/ \E t \in Threads : Wake(t) \/ QuitStep(t)
              \/ \E t \in Clients : BeginClear(t)
              \/ \E all \in BOOLEAN : HandlerQuits(all)
              \/ ConstructorReturns \/ Join \/ ClearAfterDelete \/ BeginDestructor
              \/ Tick \/ \E step \in ClockSteps : SetClock(step)
              \/ UNCHANGED vars
       PROVE  worker' = worker /\ fate' = fate
  BY <1>10 DEF Wake, QuitStep, QuitLooper, QuitQueue, BeginClear, HandlerQuits,
               ConstructorReturns, Join, ClearAfterDelete, BeginDestructor, Tick,
               SetClock, vars, listVars, loopVars
<1>11. ASSUME NEW t \in Threads, ClearQueue(t)
       PROVE  DeleteAllQueued /\ worker' = worker
  BY <1>11 DEF ClearQueue, loopVars
<1>12. CASE DeleteLooper
  BY <1>4, <1>12 DEF DeleteLooper, loopVars
<1>13. QED
  BY <1>1, <1>2, <1>3, <1>4, <1>5, <1>6, <1>7, <1>8, <1>9, <1>10, <1>11, <1>12
     DEF Next, SenderStep, WorkerStep, OwnerStep, Terminated

RefineInv == TypeInv /\ ListInv /\ RunsInHandler

LEMMA RefineInvariant == Spec => []RefineInv
<1>1. Init => RunsInHandler
  BY RunsInit
<1>2. QED
  BY <1>1, RunsStep, TypeInvariant, ListInvariant, PTL DEF Spec, RefineInv

-----------------------------------------------------------------------------
LEMMA MailInit == Init => Mail!Init
<1> SUFFICES ASSUME Init PROVE Mail!Init
  OBVIOUS
<1>1. now \in Nat /\ when \in [Mail!Messages -> Int]
  BY DEF Init, Mail!Messages, Messages
<1>2. Accepted = {} /\ Pending = {} /\ Handling = {}
  BY DEF Init, Accepted, Pending, Handling
<1>3. QED
  BY <1>1, <1>2 DEF Mail!Init

LEMMA MailSend ==
  ASSUME RefineInv, NEW t \in Senders, NEW delay \in Delays, Send(t, delay)
  PROVE  Mail!Next
<1> DEFINE new == <<t, sent[t] + 1>>
<1>1. /\ new \in Messages
      /\ fate \in [Messages -> Fates] /\ when \in [Messages -> Int]
      /\ now' = now /\ when' = [when EXCEPT ![new] = now + delay]
      /\ fate' = [fate EXCEPT ![new] = IF Admits THEN "held" ELSE "leaked"]
      /\ sent[t] \in Nat
  BY BoundsAreNumbers DEF Send, Messages, RefineInv, TypeInv, TypeOK, clockVars
<1>2. fate[new] = "unsent"
  BY <1>1 DEF RefineInv, ListInv, FatesFollowSends
<1> HIDE DEF new
<1>3. Accepted' = Accepted /\ Pending' = Pending /\ Handling' = Handling
  BY <1>1, <1>2 DEF Accepted, Pending, Handling
<1>4. new \notin Accepted
  BY <1>2 DEF Accepted
<1>5. when' = [when EXCEPT ![new] = when'[new]]
  BY <1>1
<1>6. Mail!Stamp(new)
  BY <1>1, <1>3, <1>4, <1>5 DEF Mail!Stamp
<1>7. QED
  BY <1>1, <1>6 DEF Mail!Next, Mail!Messages, Messages

LEMMA MailLink ==
  ASSUME RefineInv, NEW t \in Threads, QueueAtFront(t)
  PROVE  Mail!Next
<1> DEFINE new == <<t, sent[t]>>
<1>1. /\ new \in Messages /\ op[t] = "link" /\ t \in Senders
      /\ fate \in [Messages -> Fates]
      /\ now' = now /\ when' = when /\ fate' = [fate EXCEPT ![new] = "queued"]
      /\ sent[t] \in Nat
  BY DEF QueueAtFront, Messages, RefineInv, TypeInv, TypeOK, LinksOwnMessage, clockVars
<1>2. fate[new] = "held"
  BY <1>1 DEF RefineInv, ListInv, FatesFollowSends
<1>3. ASSUME NEW n \in Accepted
      PROVE  ~Mail!Older(new, n)
  <2>1. n \in Messages /\ fate[n] # "unsent"
    BY DEF Accepted
  <2>2. ~(n[2] > sent[n[1]])
    BY <2>1 DEF RefineInv, ListInv, FatesFollowSends
  <2>3. n[2] \in Nat
    BY <2>1 DEF Messages
  <2>4. QED
    BY <1>1, <2>2, <2>3 DEF Mail!Older
<1> HIDE DEF new
<1>4. /\ Accepted' = Accepted \cup {new} /\ Pending' = Pending \cup {new}
      /\ Handling' = Handling /\ new \notin Accepted
  BY <1>1, <1>2 DEF Accepted, Pending, Handling
<1>5. Mail!Accept(new)
  BY <1>1, <1>3, <1>4 DEF Mail!Accept
<1>6. QED
  BY <1>1, <1>5 DEF Mail!Next, Mail!Messages, Messages

LEMMA MailTake ==
  ASSUME RefineInv, TakeDue
  PROVE  Mail!Next
<1>1. PICK i \in DOMAIN queue :
         /\ IsEarliest(i) /\ when[queue[i]] <= now
         /\ fate' = [fate EXCEPT ![queue[i]] = "running"]
  BY DEF TakeDue
<1> DEFINE taken == queue[i]
<1>2. /\ fate \in [Messages -> Fates] /\ when \in [Messages -> Int]
      /\ now' = now /\ when' = when /\ worker = "take"
      /\ queue \in Seq(Messages) /\ DOMAIN queue = 1 .. Len(queue)
      /\ DOMAIN queue \subseteq Nat
  BY LenProperties DEF TakeDue, RefineInv, TypeInv, TypeOK, clockVars
<1>3. \A m \in Messages : m \in Pending <=> \E j \in DOMAIN queue : m = queue[j]
  BY DEF Pending, RefineInv, ListInv, NoDanglingNode, Range
<1>4. taken \in Messages /\ taken \in Pending /\ fate[taken] = "queued"
  BY <1>2, <1>3, ElementOfSeq DEF RefineInv, ListInv, NoDanglingNode, Range
<1>5. ASSUME NEW n \in Pending
      PROVE  when[taken] <= when[n] /\ (Mail!Older(n, taken) => when[taken] < when[n])
  <2>1. PICK j \in DOMAIN queue : n = queue[j]
    BY <1>3 DEF Pending
  <2>2. n \in Messages
    BY DEF Pending
  <2>3. when[taken] <= when[n]
    BY <1>1, <2>1 DEF IsEarliest
  <2>4. ASSUME Mail!Older(n, taken)
        PROVE  when[taken] < when[n]
    <3>1. j # i
      BY <1>4, <2>1, <2>2, <2>4 DEF Mail!Older, Messages
    <3>2. ~(j < i)
      <4>1. ASSUME j < i PROVE n[2] > taken[2]
        BY <2>1, <2>4, <4>1 DEF RefineInv, ListInv, LatestFirst, Mail!Older
      <4>2. n[2] \in Nat /\ taken[2] \in Nat
        BY <1>4, <2>2 DEF Messages
      <4>3. QED
        BY <2>4, <4>1, <4>2 DEF Mail!Older
    <3>3. j > i
      BY <1>2, <3>1, <3>2
    <3>4. QED
      BY <1>1, <2>1, <3>3 DEF IsEarliest
  <2>5. QED
    BY <2>3, <2>4
<1> HIDE DEF taken
<1>6. fate' = [fate EXCEPT ![taken] = "running"] /\ when[taken] <= now
  BY <1>1 DEF taken
<1>7. Handling = {}
  BY <1>2 DEF RefineInv, RunsInHandler
<1>8. /\ Accepted' = Accepted /\ Pending' = Pending \ {taken} /\ Handling' = {taken}
  BY <1>2, <1>4, <1>6, <1>7 DEF Accepted, Pending, Handling
<1>9. Mail!Handle(taken)
  BY <1>2, <1>4, <1>5, <1>6, <1>7, <1>8 DEF Mail!Handle
<1>10. QED
  BY <1>4, <1>9 DEF Mail!Next, Mail!Messages, Messages

LEMMA MailClear ==
  ASSUME RefineInv, DeleteAllQueued, UNCHANGED <<now, when>>
  PROVE  Mail!Next
<1>1. /\ fate \in [Messages -> Fates]
      /\ fate' = [m \in Messages |-> IF m \in Pending THEN "cleared" ELSE fate[m]]
  BY DEF DeleteAllQueued, RefineInv, TypeInv, TypeOK, ListInv, NoDanglingNode, Pending
<1>2. Accepted' = Accepted /\ Pending' = {} /\ Handling' = Handling
  BY <1>1 DEF Accepted, Pending, Handling
<1>3. Mail!Clear
  BY <1>2 DEF Mail!Clear
<1>4. QED
  BY <1>3 DEF Mail!Next

LEMMA MailFinish ==
  ASSUME RefineInv, HandlerReturns
  PROVE  Mail!Next
<1>1. /\ fate \in [Messages -> Fates] /\ UNCHANGED <<now, when>>
      /\ fate' = [m \in Messages |-> IF fate[m] = "running" THEN "handled" ELSE fate[m]]
  BY DEF HandlerReturns, RefineInv, TypeInv, TypeOK, clockVars
<1>2. Accepted' = Accepted /\ Pending' = Pending /\ Handling' = {}
  BY <1>1 DEF Accepted, Pending, Handling
<1>3. Mail!Finish
  BY <1>1, <1>2 DEF Mail!Finish
<1>4. QED
  BY <1>3 DEF Mail!Next

(* Every step is a step of the mailbox, or one it does not see.            *)
LEMMA MailStep == RefineInv /\ RefineInv' /\ [Next]_vars => [Mail!Next]_Mail!vars
<1> SUFFICES ASSUME RefineInv, RefineInv', [Next]_vars PROVE [Mail!Next]_Mail!vars
  OBVIOUS
<1>1. ASSUME UNCHANGED <<now, when, fate>>
      PROVE  UNCHANGED Mail!vars
  BY <1>1 DEF Mail!vars, Accepted, Pending, Handling
<1>2. ASSUME UNCHANGED <<when, fate>>
      PROVE  Mail!Next
  <2>1. now' \in Nat
    BY DEF RefineInv, TypeInv, TypeOK
  <2>2. Mail!Clock
    BY <1>2, <2>1 DEF Mail!Clock, Accepted, Pending, Handling
  <2>3. QED
    BY <2>2 DEF Mail!Next
<1>3. ASSUME NEW t \in Senders, NEW delay \in Delays, Send(t, delay)
      PROVE  Mail!Next
  BY <1>3, MailSend
<1>4. ASSUME NEW t \in Threads, QueueAtFront(t)
      PROVE  Mail!Next
  BY <1>4, MailLink
<1>5. ASSUME NEW t \in Threads, ClearQueue(t)
      PROVE  Mail!Next
  BY <1>5, MailClear DEF ClearQueue, clockVars
<1>6. CASE DeleteLooper
  BY <1>6, MailClear DEF DeleteLooper, clockVars
<1>7. CASE TakeDue
  BY <1>7, MailTake
<1>8. CASE HandlerReturns
  BY <1>8, MailFinish
<1>9. ASSUME \/ \E t \in Threads : Wake(t) \/ QuitStep(t)
             \/ \E t \in Clients : BeginClear(t)
             \/ \E all \in BOOLEAN : HandlerQuits(all)
             \/ ConstructorReturns \/ Join \/ ClearAfterDelete \/ BeginDestructor
             \/ UNCHANGED vars
      PROVE  UNCHANGED <<now, when, fate>>
  BY <1>9 DEF Wake, QuitStep, QuitLooper, QuitQueue, BeginClear, HandlerQuits,
              ConstructorReturns, Join, ClearAfterDelete, BeginDestructor,
              vars, listVars, clockVars
<1>10. CASE PostStarted \/ EnterLoop \/ LeaveLoop \/ PostStopped
  BY <1>1, <1>10 DEF PostStarted, EnterLoop, LeaveLoop, PostStopped, listVars, clockVars
<1>11. CASE PollReadable \/ PollTimeout \/ PollInterrupted \/ TakeEarly \/ TakeEmpty
  BY <1>1, <1>11 DEF PollReadable, PollTimeout, PollInterrupted, TakeEarly, TakeEmpty,
                     listVars, clockVars
<1>12. CASE Tick \/ \E step \in ClockSteps : SetClock(step)
  BY <1>2, <1>12 DEF Tick, SetClock, listVars
<1>13. QED
  BY <1>1, <1>3, <1>4, <1>5, <1>6, <1>7, <1>8, <1>9, <1>10, <1>11, <1>12
     DEF Next, SenderStep, WorkerStep, OwnerStep, Terminated

(* The queue, its loop, its wake pipe and its quit protocol implement the  *)
(* mailbox: handlers run one at a time, for accepted messages, each once,  *)
(* when due, in order of due time and, among equals of one sender, in the  *)
(* order they were sent, and never for a cleared message.                  *)
THEOREM ImplementsMailbox == Spec => IsMailbox
<1>1. RefineInv /\ RefineInv' /\ [Next]_vars => [Mail!Next]_Mail!vars
  BY MailStep
<1>2. QED
  BY <1>1, MailInit, RefineInvariant, PTL DEF Spec, IsMailbox, Mail!Spec

-----------------------------------------------------------------------------
(* The list as a DelayQueue.  a is further from the head of s than b.      *)
OlderIn(s, a, b) == \E i, j \in DOMAIN s : i > j /\ s[i] = a /\ s[j] = b

(* A message at the head is newer than all the others ...                  *)
LEMMA OlderWhenPushed ==
  ASSUME NEW S, NEW s \in Seq(S), NEW e \in S, \A i \in DOMAIN s : s[i] # e, NEW a, NEW b
  PROVE  OlderIn(<<e>> \o s, a, b) <=> OlderIn(s, a, b) \/ (a \in Range(s) /\ b = e)
<1> DEFINE t == <<e>> \o s
<1>1. /\ t \in Seq(S) /\ Len(t) = Len(s) + 1
      /\ \A j \in 1 .. Len(s) + 1 : t[j] = IF j = 1 THEN e ELSE s[j - 1]
  BY PushProperties
<1>2. Len(s) \in Nat /\ DOMAIN s = 1 .. Len(s) /\ DOMAIN t = 1 .. Len(s) + 1
  BY <1>1, LenProperties
<1> HIDE DEF t
<1>3. ASSUME OlderIn(t, a, b)
      PROVE  OlderIn(s, a, b) \/ (a \in Range(s) /\ b = e)
  <2>1. PICK i, j \in DOMAIN t : i > j /\ t[i] = a /\ t[j] = b
    BY <1>3 DEF OlderIn
  <2>2. i - 1 \in DOMAIN s /\ s[i - 1] = a
    BY <1>1, <1>2, <2>1
  <2>3. CASE j = 1
    BY <1>1, <1>2, <2>1, <2>2, <2>3 DEF Range
  <2>4. CASE j # 1
    <3>1. j - 1 \in DOMAIN s /\ s[j - 1] = b /\ i - 1 > j - 1
      BY <1>1, <1>2, <2>1, <2>4
    <3>2. QED
      BY <2>2, <3>1 DEF OlderIn
  <2>5. QED
    BY <2>3, <2>4
<1>4. ASSUME OlderIn(s, a, b) PROVE OlderIn(t, a, b)
  <2>1. PICK i, j \in DOMAIN s : i > j /\ s[i] = a /\ s[j] = b
    BY <1>4 DEF OlderIn
  <2>2. /\ i + 1 \in DOMAIN t /\ j + 1 \in DOMAIN t /\ i + 1 > j + 1
        /\ t[i + 1] = a /\ t[j + 1] = b
    BY <1>1, <1>2, <2>1
  <2>3. QED
    BY <2>2 DEF OlderIn
<1>5. ASSUME a \in Range(s), b = e PROVE OlderIn(t, a, b)
  <2>1. PICK i \in DOMAIN s : s[i] = a
    BY <1>5 DEF Range
  <2>2. i + 1 \in DOMAIN t /\ 1 \in DOMAIN t /\ i + 1 > 1 /\ t[i + 1] = a /\ t[1] = b
    BY <1>1, <1>2, <1>5, <2>1
  <2>3. QED
    BY <2>2 DEF OlderIn
<1>6. QED
  BY <1>3, <1>4, <1>5 DEF t

(* ... and one that is unlinked takes nothing but its own pairs away.      *)
LEMMA OlderWhenUnlinked ==
  ASSUME NEW S, NEW s \in Seq(S), NEW i \in 1 .. Len(s),
         \A j, k \in DOMAIN s : s[j] = s[k] => j = k, NEW a, NEW b
  PROVE  OlderIn(RemoveAt(s, i), a, b) <=> OlderIn(s, a, b) /\ a # s[i] /\ b # s[i]
<1> DEFINE r == RemoveAt(s, i)
<1>1. /\ Range(r) = Range(s) \ {s[i]}
      /\ \A j, k \in DOMAIN r : j < k =>
            \E c, d \in DOMAIN s : c < d /\ r[j] = s[c] /\ r[k] = s[d]
  BY RemoveAtKeepsOrder
<1>2. r \in Seq(S)
  BY RemoveAtProperties
<1>3. DOMAIN s \subseteq Nat /\ DOMAIN r \subseteq Nat
  BY <1>2, LenProperties
<1> HIDE DEF r
<1>4. ASSUME OlderIn(r, a, b) PROVE OlderIn(s, a, b) /\ a # s[i] /\ b # s[i]
  <2>1. PICK k, j \in DOMAIN r : k > j /\ r[k] = a /\ r[j] = b
    BY <1>4 DEF OlderIn
  <2>2. a \in Range(r) /\ b \in Range(r)
    BY <2>1 DEF Range
  <2>3. j < k
    BY <1>3, <2>1
  <2>4. PICK c, d \in DOMAIN s : c < d /\ r[j] = s[c] /\ r[k] = s[d]
    BY <1>1, <2>3
  <2>5. d > c
    BY <1>3, <2>4
  <2>6. QED
    BY <1>1, <2>1, <2>2, <2>4, <2>5 DEF OlderIn
<1>5. ASSUME OlderIn(s, a, b), a # s[i], b # s[i] PROVE OlderIn(r, a, b)
  <2>1. PICK k, j \in DOMAIN s : k > j /\ s[k] = a /\ s[j] = b
    BY <1>5 DEF OlderIn
  <2>2. a \in Range(r) /\ b \in Range(r) /\ a # b
    <3>1. a \in Range(s) /\ b \in Range(s)
      BY <2>1 DEF Range
    <3>2. a \in Range(r) /\ b \in Range(r)
      BY <1>1, <1>5, <3>1
    <3>3. k # j
      BY <1>3, <2>1
    <3>4. QED
      BY <2>1, <3>2, <3>3
  <2>3. PICK m, n \in DOMAIN r : r[m] = a /\ r[n] = b
    BY <2>2 DEF Range
  <2>4. ~(m < n)
    <3>1. ASSUME m < n PROVE FALSE
      <4>1. PICK c, d \in DOMAIN s : c < d /\ a = s[c] /\ b = s[d]
        BY <1>1, <2>3, <3>1
      <4>2. c = k /\ d = j
        BY <2>1, <4>1
      <4>3. QED
        BY <1>3, <2>1, <4>1, <4>2
    <3>2. QED
      BY <3>1
  <2>5. m > n
    BY <1>3, <2>2, <2>3, <2>4
  <2>6. QED
    BY <2>3, <2>5 DEF OlderIn
<1>6. QED
  BY <1>4, <1>5 DEF r

LEMMA PutBeforeIsOlder ==
  PutBefore = {p \in Pending \X Pending : OlderIn(queue, p[1], p[2])}
BY DEF PutBefore, OlderIn

LEMMA OrderInit == Init => Order!Init
<1> SUFFICES ASSUME Init PROVE Order!Init
  OBVIOUS
<1>1. Pending = {}
  BY DEF Init, Pending
<1>2. QED
  BY <1>1 DEF Order!Init, Order!Waiting, PutBefore

LEMMA OrderUnseen ==
  ASSUME Pending' = Pending, queue' = queue, \A m \in Pending : when'[m] = when[m]
  PROVE  UNCHANGED Order!vars
BY DEF Order!vars, PutBefore

LEMMA OrderPut ==
  ASSUME RefineInv, NEW t \in Threads, QueueAtFront(t)
  PROVE  Order!Next
<1> DEFINE new == <<t, sent[t]>>
<1>1. PICK m \in Messages :
         m = new /\ queue' = <<m>> \o queue /\ fate' = [fate EXCEPT ![m] = "queued"]
  BY DEF QueueAtFront, Messages, RefineInv, TypeInv, TypeOK, LinksOwnMessage
<1> HIDE DEF new
<1>2. fate[m] = "held"
  BY <1>1 DEF new, QueueAtFront, RefineInv, ListInv, FatesFollowSends
<1>3. /\ queue \in Seq(Messages) /\ fate \in [Messages -> Fates]
      /\ when \in [Messages -> Int] /\ when' = when
  BY DEF QueueAtFront, RefineInv, TypeInv, TypeOK
<1>4. Pending' = Pending \cup {m} /\ m \notin Pending /\ Range(queue) = Pending
  BY <1>1, <1>2, <1>3 DEF Pending, RefineInv, ListInv, NoDanglingNode
<1>5. \A i \in DOMAIN queue : queue[i] # m
  BY <1>4 DEF Range
<1>6. PutBefore' = PutBefore \cup (Pending \X {m})
  <2>1. \A a, b \in Pending \cup {m} :
           OlderIn(queue', a, b) <=> OlderIn(queue, a, b) \/ (a \in Pending /\ b = m)
    BY <1>1, <1>3, <1>4, <1>5, OlderWhenPushed
  <2>2. \A a, b : OlderIn(queue, a, b) => a \in Pending /\ b \in Pending
    BY <1>4 DEF OlderIn, Range
  <2>3. PutBefore' = {p \in Pending' \X Pending' : OlderIn(queue', p[1], p[2])}
    BY PutBeforeIsOlder DEF OlderIn, PutBefore
  <2>4. QED
    BY <1>4, <2>1, <2>2, <2>3, PutBeforeIsOlder
<1>7. [n \in Pending |-> when[n]]' = [n \in Pending \cup {m} |-> IF n = m THEN when'[m] ELSE when[n]]
  BY <1>3, <1>4
<1>8. m \in Order!Waiting'
  BY <1>4 DEF Order!Waiting
<1>9. Order!Put(m)
  BY <1>3, <1>4, <1>6, <1>7 DEF Order!Put, Order!Waiting
<1>10. QED
  BY <1>8, <1>9 DEF Order!Next

LEMMA OrderTake ==
  ASSUME RefineInv, TakeDue
  PROVE  Order!Next
<1>1. PICK i \in DOMAIN queue :
         /\ IsEarliest(i) /\ queue' = RemoveAt(queue, i)
         /\ fate' = [fate EXCEPT ![queue[i]] = "running"]
  BY DEF TakeDue
<1>2. /\ queue \in Seq(Messages) /\ fate \in [Messages -> Fates]
      /\ when \in [Messages -> Int] /\ when' = when
      /\ DOMAIN queue = 1 .. Len(queue) /\ DOMAIN queue \subseteq Nat
  BY LenProperties DEF TakeDue, RefineInv, TypeInv, TypeOK
<1>3. /\ Range(queue) = Pending
      /\ \A j, k \in DOMAIN queue : queue[j] = queue[k] => j = k
  BY DEF Pending, RefineInv, ListInv, NoDanglingNode
<1>4. PICK m \in Pending : m = queue[i]
  BY <1>3 DEF Range
<1>5. m \in Messages /\ Pending \subseteq Messages
  BY DEF Pending
<1>6. Pending' = Pending \ {m}
  BY <1>1, <1>2, <1>4, <1>5 DEF Pending
<1>7. ASSUME NEW n \in Pending \ {m}
      PROVE  \/ when[m] < when[n]
             \/ when[m] = when[n] /\ <<m, n>> \in PutBefore
  <2>1. PICK j \in DOMAIN queue : n = queue[j]
    BY <1>3 DEF Range
  <2>2. when[m] <= when[n] /\ (j > i => when[m] < when[n])
    BY <1>1, <1>4, <2>1 DEF IsEarliest
  <2>3. CASE j > i
    BY <2>2, <2>3
  <2>4. CASE ~(j > i)
    <3>1. i > j
      BY <1>2, <1>4, <2>1, <2>4
    <3>2. <<m, n>> \in PutBefore
      BY <1>4, <2>1, <3>1 DEF PutBefore
    <3>3. QED
      BY <1>2, <1>5, <2>2, <3>2
  <2>5. QED
    BY <2>3, <2>4
<1>8. Order!IsNext(m)
  BY <1>7 DEF Order!IsNext, Order!Waiting
<1>9. PutBefore' = {p \in PutBefore : p[1] # m /\ p[2] # m}
  <2>1. \A a, b \in Pending : OlderIn(queue', a, b) <=> OlderIn(queue, a, b) /\ a # m /\ b # m
    BY <1>1, <1>2, <1>3, <1>4, OlderWhenUnlinked
  <2>2. PutBefore' = {p \in Pending' \X Pending' : OlderIn(queue', p[1], p[2])}
    BY PutBeforeIsOlder DEF OlderIn, PutBefore
  <2>3. QED
    BY <1>6, <2>1, <2>2, PutBeforeIsOlder
<1>10. [n \in Pending |-> when[n]]' = [n \in Pending \ {m} |-> when[n]]
  BY <1>2, <1>6
<1>11. m \in Order!Waiting
  BY DEF Order!Waiting
<1>12. Order!Take(m)
  BY <1>8, <1>9, <1>10, <1>11 DEF Order!Take, Order!Waiting
<1>13. QED
  BY <1>11, <1>12 DEF Order!Next

LEMMA OrderClear ==
  ASSUME RefineInv, DeleteAllQueued
  PROVE  Order!Next
<1>1. Pending' = {}
  BY DEF DeleteAllQueued, RefineInv, TypeInv, TypeOK, ListInv, NoDanglingNode, Pending
<1>2. QED
  BY <1>1 DEF Order!Next, Order!Clear, Order!Waiting, PutBefore

LEMMA OrderSend ==
  ASSUME RefineInv, NEW t \in Senders, NEW delay \in Delays, Send(t, delay)
  PROVE  UNCHANGED Order!vars
<1> DEFINE new == <<t, sent[t] + 1>>
<1>1. /\ new \in Messages /\ sent[t] \in Nat
      /\ fate \in [Messages -> Fates] /\ when \in [Messages -> Int] /\ queue' = queue
      /\ when' = [when EXCEPT ![new] = now + delay]
      /\ fate' = [fate EXCEPT ![new] = IF Admits THEN "held" ELSE "leaked"]
  BY BoundsAreNumbers DEF Send, Messages, RefineInv, TypeInv, TypeOK
<1>2. fate[new] = "unsent"
  BY <1>1 DEF RefineInv, ListInv, FatesFollowSends
<1> HIDE DEF new
<1>3. Pending' = Pending /\ \A m \in Pending : when'[m] = when[m]
  BY <1>1, <1>2 DEF Pending
<1>4. QED
  BY <1>1, <1>3, OrderUnseen

LEMMA OrderStep == RefineInv /\ [Next]_vars => [Order!Next]_Order!vars
<1> SUFFICES ASSUME RefineInv, [Next]_vars PROVE [Order!Next]_Order!vars
  OBVIOUS
<1>1. ASSUME NEW t \in Senders, NEW delay \in Delays, Send(t, delay)
      PROVE  UNCHANGED Order!vars
  BY <1>1, OrderSend
<1>2. ASSUME NEW t \in Threads, QueueAtFront(t)
      PROVE  Order!Next
  BY <1>2, OrderPut
<1>3. ASSUME NEW t \in Threads, ClearQueue(t)
      PROVE  Order!Next
  BY <1>3, OrderClear DEF ClearQueue
<1>4. CASE DeleteLooper
  BY <1>4, OrderClear DEF DeleteLooper
<1>5. CASE TakeDue
  BY <1>5, OrderTake
<1>6. CASE HandlerReturns
  <2>1. /\ queue' = queue /\ when' = when /\ fate \in [Messages -> Fates]
        /\ fate' = [m \in Messages |-> IF fate[m] = "running" THEN "handled" ELSE fate[m]]
    BY <1>6 DEF HandlerReturns, RefineInv, TypeInv, TypeOK
  <2>2. Pending' = Pending
    BY <2>1 DEF Pending
  <2>3. QED
    BY <2>1, <2>2, OrderUnseen
<1>7. ASSUME UNCHANGED <<queue, when, fate>>
      PROVE  UNCHANGED Order!vars
  <2>1. Pending' = Pending /\ queue' = queue /\ when' = when
    BY <1>7 DEF Pending
  <2>2. QED
    BY <2>1, OrderUnseen
<1>8. ASSUME \/ \E t \in Threads : Wake(t) \/ QuitStep(t)
             \/ \E t \in Clients : BeginClear(t)
             \/ \E all \in BOOLEAN : HandlerQuits(all)
             \/ ConstructorReturns \/ Join \/ ClearAfterDelete \/ BeginDestructor
             \/ Tick \/ \E step \in ClockSteps : SetClock(step)
             \/ UNCHANGED vars
      PROVE  UNCHANGED <<queue, when, fate>>
  BY <1>8 DEF Wake, QuitStep, QuitLooper, QuitQueue, BeginClear, HandlerQuits,
              ConstructorReturns, Join, ClearAfterDelete, BeginDestructor, Tick, SetClock,
              vars, listVars
<1>9. CASE PostStarted \/ EnterLoop \/ LeaveLoop \/ PostStopped
  BY <1>7, <1>9 DEF PostStarted, EnterLoop, LeaveLoop, PostStopped, listVars
<1>10. CASE PollReadable \/ PollTimeout \/ PollInterrupted \/ TakeEarly \/ TakeEmpty
  BY <1>7, <1>10 DEF PollReadable, PollTimeout, PollInterrupted, TakeEarly, TakeEmpty, listVars
<1>11. QED
  BY <1>1, <1>2, <1>3, <1>4, <1>5, <1>6, <1>7, <1>8, <1>9, <1>10
     DEF Next, SenderStep, WorkerStep, OwnerStep, Terminated

(* The sequence of HandlerThread is the same queue that the linked list of *)
(* MessageList implements, whatever the threads around it do.              *)
THEOREM SequenceIsQueue == Spec => ListIsQueue
<1>1. QED
  BY OrderInit, OrderStep, RefineInvariant, PTL DEF Spec, ListIsQueue, Order!Spec
=============================================================================
