---------------------------- MODULE HandlerThread ----------------------------
(***************************************************************************)
(* One NThread with everything it owns: its Looper, the Looper's           *)
(* MessageQueue (list, wake pipe, quit flag), the thread that runs         *)
(* Looper::loop, and the threads that talk to it through a Handler         *)
(* (src/handlerThread/).  RtmpManager, CameraCapture and PushRtmp each own *)
(* one instance and use it as modelled here.                               *)
(*                                                                         *)
(* Threads.  Clients call sendMessage, sendMessageDelayed and              *)
(* removeAndDeleteAllMessage; Worker runs the loop, and the handler it     *)
(* executes may send to its own queue; Owner runs the constructor and the  *)
(* destructor of NThread, and the rest of the destructor of the object     *)
(* that holds the NThread.                                                 *)
(*                                                                         *)
(* Atomicity.  A critical section of mMutex is one action: it neither      *)
(* blocks nor takes another lock.  What happens between two of them (the   *)
(* test of Looper::mQuit, the insertion, the write to the pipe) is left to *)
(* interleave.  Time between computing a poll timeout and entering         *)
(* epoll_wait is not counted.                                              *)
(***************************************************************************)
EXTENDS Integers, SequencesExt

CONSTANTS
  Clients,          (* threads that use the handler from outside           *)
  Worker,           (* the thread created by NThread                       *)
  Owner,            (* the thread that constructs and destroys the NThread *)
  MaxSends,         (* bound: messages each sender obtains                 *)
  Delays,           (* delays in use, in ticks; 0 is sendMessage           *)
  MaxTime,          (* bound: last value of the wall clock                 *)
  ClockSteps,       (* amounts by which the wall clock may be set          *)
  MaxClockSets,     (* bound: how often it is set                          *)
  PipeCapacity,     (* bytes the wake pipe holds                           *)
  HandlersMayQuit   (* may a handler quit its own looper (Looper.h:9)?     *)

ASSUME ThreadsDiffer ==
  /\ Worker \notin Clients
  /\ Owner \notin Clients
  /\ Owner # Worker

ASSUME BoundsAreNumbers ==
  /\ MaxSends \in Nat
  /\ Delays \subseteq Nat
  /\ MaxTime \in Nat
  /\ ClockSteps \subseteq Int
  /\ MaxClockSets \in Nat
  /\ PipeCapacity \in Nat \ {0}
  /\ HandlersMayQuit \in BOOLEAN

Threads == Clients \cup {Worker, Owner}
Senders == Clients \cup {Worker}

(* A message is named after its sender and its place among the messages    *)
(* that sender obtained.                                                   *)
Messages == Senders \X (1 .. MaxSends)

(* Where a message is.  held: admitted by its sender, not yet in the list; *)
(* cleared: deleted by removeAndDeleteAllMessage; handled: deleted by      *)
(* Looper::loop after its handler; leaked: refused by Looper::enqueueMessage *)
(* and never deleted.                                                      *)
Fates == {"unsent", "held", "queued", "running", "handled", "cleared", "leaked"}

(* What a thread is in the middle of; each label names the next step.      *)
Ops == {"idle", "link", "wake", "clear",
        "quit_all", "quit_keep", "quit_clear", "quit_flag", "quit_wake"}

WorkerStates == {"start", "posted", "poll", "take", "handle",
                 "leave", "stopped", "done"}

OwnerStates == {"ctor", "live", "quit", "join", "delete", "deleted",
                "end", "crashed"}

Forever == -1       (* the timeout of a poll that only a wake can end      *)

VARIABLES
  now,          (* what getCurrentTime() returns                           *)
  clockSets,    (* how often the wall clock has been set                   *)
  queue,        (* the list from mHead->mNext (newest) to mTail->mBefore   *)
  when,         (* Message::when                                           *)
  fate,         (* where each message is                                   *)
  sent,         (* how many messages each sender has obtained              *)
  pipe,         (* bytes in the wake pipe                                  *)
  looperQuit,   (* Looper::mQuit                                           *)
  queueQuit,    (* MessageQueue::mQuit                                     *)
  op,           (* what each thread is in the middle of                    *)
  worker,       (* where the worker is in NThread::Run                     *)
  timeout,      (* nextPollTimeoutMillis, what is left of it while polling *)
  running,      (* NThread::running                                        *)
  sem,          (* bin_sem                                                 *)
  owner         (* where the owner is in the life of the NThread           *)

clockVars  == <<now, clockSets>>
listVars   == <<queue, when, fate, sent>>
flagVars   == <<looperQuit, queueQuit>>
loopVars   == <<worker, timeout, running>>
vars == <<clockVars, listVars, pipe, flagVars, op, loopVars, sem, owner>>

TypeOK ==
  /\ now \in 0 .. MaxTime
  /\ clockSets \in 0 .. MaxClockSets
  /\ queue \in Seq(Messages)
  /\ when \in [Messages -> Int]
  /\ fate \in [Messages -> Fates]
  /\ sent \in [Senders -> 0 .. MaxSends]
  /\ pipe \in 0 .. PipeCapacity
  /\ looperQuit \in BOOLEAN
  /\ queueQuit \in BOOLEAN
  /\ op \in [Threads -> Ops]
  /\ worker \in WorkerStates
  /\ timeout \in Nat \cup {Forever}
  /\ running \in BOOLEAN
  /\ sem \in Nat
  /\ owner \in OwnerStates

Init ==
  /\ now = 0
  /\ clockSets = 0
  /\ queue = <<>>
  /\ when = [m \in Messages |-> 0]
  /\ fate = [m \in Messages |-> "unsent"]
  /\ sent = [t \in Senders |-> 0]
  /\ pipe = 0
  /\ looperQuit = FALSE
  /\ queueQuit = FALSE
  /\ op = [t \in Threads |-> "idle"]
  /\ worker = "start"
  /\ timeout = 0
  /\ running = FALSE
  /\ sem = 0
  /\ owner = "ctor"

-----------------------------------------------------------------------------
(* Sending.                                                                *)

(* Clients use the handler between the constructor and the destructor;     *)
(* the worker uses it from inside a handler.                               *)
MayCall(t) ==
  /\ op[t] = "idle"
  /\ \/ t \in Clients /\ owner = "live"
     \/ t = Worker /\ worker = "handle"

(* Looper::enqueueMessage goes on only while mQuit is not set.             *)
Admits_Always == TRUE
Admits == ~looperQuit

(* Handler::sendMessage and sendMessageDelayed: obtain a message, stamp it *)
(* and hand it to Looper::enqueueMessage, which drops it (undeleted) when  *)
(* the looper has quit.                                                    *)
Send(t, delay) ==
  /\ MayCall(t)
  /\ sent[t] < MaxSends
  /\ now + delay <= MaxTime
  /\ LET message == <<t, sent[t] + 1>>
     IN  /\ when' = [when EXCEPT ![message] = now + delay]
         /\ fate' = [fate EXCEPT ![message] = IF Admits THEN "held" ELSE "leaked"]
  /\ sent' = [sent EXCEPT ![t] = @ + 1]
  /\ op' = [op EXCEPT ![t] = IF Admits THEN "link" ELSE "idle"]
  /\ UNCHANGED <<clockVars, queue, pipe, flagVars, loopVars, sem, owner>>

(* MessageQueue::queueAtFront, under the mutex.                            *)
QueueAtFront_WakeIfEmpty(t) ==
  /\ op[t] = "link"
  /\ queue' = <<<<t, sent[t]>>>> \o queue
  /\ fate' = [fate EXCEPT ![<<t, sent[t]>>] = "queued"]
  /\ op' = [op EXCEPT ![t] = IF queue = <<>> THEN "wake" ELSE "idle"]
  /\ UNCHANGED <<clockVars, when, sent, pipe, flagVars, loopVars, sem, owner>>

QueueAtFront(t) ==
  /\ op[t] = "link"
  /\ queue' = <<<<t, sent[t]>>>> \o queue
  /\ fate' = [fate EXCEPT ![<<t, sent[t]>>] = "queued"]
  /\ op' = [op EXCEPT ![t] = "wake"]
  /\ UNCHANGED <<clockVars, when, sent, pipe, flagVars, loopVars, sem, owner>>

(* MessageQueue::wake: one byte into the pipe, none when the pipe is full  *)
(* (the write end does not block).  It ends enqueueMessage and             *)
(* Looper::quit; after the latter the destructor goes on to sem_wait.      *)
Wake(t) ==
  /\ op[t] \in {"wake", "quit_wake"}
  /\ pipe' = IF pipe < PipeCapacity THEN pipe + 1 ELSE pipe
  /\ op' = [op EXCEPT ![t] = "idle"]
  /\ owner' = IF t = Owner THEN "join" ELSE owner
  /\ UNCHANGED <<clockVars, listVars, flagVars, loopVars, sem>>

-----------------------------------------------------------------------------
(* Clearing and quitting.                                                  *)

(* Handler::removeAndDeleteAllMessage up to the lock; a looper that has    *)
(* quit returns at once.                                                   *)
BeginClear(t) ==
  /\ t \in Clients
  /\ MayCall(t)
  /\ ~looperQuit
  /\ op' = [op EXCEPT ![t] = "clear"]
  /\ UNCHANGED <<clockVars, listVars, pipe, flagVars, loopVars, sem, owner>>

(* MessageQueue::removeAndDeleteAllMessage, under the mutex.               *)
DeleteAllQueued ==
  /\ queue' = <<>>
  /\ fate' = [m \in Messages |-> IF m \in Range(queue) THEN "cleared" ELSE fate[m]]

ClearQueue(t) ==
  /\ op[t] \in {"clear", "quit_clear"}
  /\ DeleteAllQueued
  /\ op' = [op EXCEPT ![t] = IF op[t] = "clear" THEN "idle" ELSE "quit_flag"]
  /\ UNCHANGED <<clockVars, when, sent, pipe, flagVars, loopVars, sem, owner>>

(* Looper::quit called by a handler on its own thread; a second quit       *)
(* returns at once.                                                        *)
HandlerQuits(removeAllMessage) ==
  /\ HandlersMayQuit
  /\ worker = "handle" /\ op[Worker] = "idle"
  /\ ~looperQuit
  /\ op' = [op EXCEPT ![Worker] = IF removeAllMessage THEN "quit_all" ELSE "quit_keep"]
  /\ UNCHANGED <<clockVars, listVars, pipe, flagVars, loopVars, sem, owner>>

QuitLooper(t) ==
  /\ op[t] \in {"quit_all", "quit_keep"}
  /\ looperQuit' = TRUE
  /\ op' = [op EXCEPT ![t] = IF op[t] = "quit_all" THEN "quit_clear" ELSE "quit_flag"]
  /\ UNCHANGED <<clockVars, listVars, pipe, queueQuit, loopVars, sem, owner>>

QuitQueue_NoWake(t) ==
  /\ op[t] = "quit_flag"
  /\ queueQuit' = TRUE
  /\ op' = [op EXCEPT ![t] = "idle"]
  /\ owner' = IF t = Owner THEN "join" ELSE owner
  /\ UNCHANGED <<clockVars, listVars, pipe, looperQuit, loopVars, sem>>

QuitQueue(t) ==
  /\ op[t] = "quit_flag"
  /\ queueQuit' = TRUE
  /\ op' = [op EXCEPT ![t] = "quit_wake"]
  /\ UNCHANGED <<clockVars, listVars, pipe, looperQuit, loopVars, sem, owner>>

-----------------------------------------------------------------------------
(* The worker: NThread::Run, Looper::loop, MessageQueue::getNextMessage.   *)

(* Run posts the semaphore first and only then sets running.               *)
PostStarted ==
  /\ worker = "start"
  /\ sem' = sem + 1
  /\ worker' = "posted"
  /\ UNCHANGED <<clockVars, listVars, pipe, flagVars, op, timeout, running, owner>>

(* The first getNextMessage starts with a poll that does not wait.         *)
EnterLoop ==
  /\ worker = "posted"
  /\ running' = TRUE
  /\ worker' = "poll"
  /\ timeout' = 0
  /\ UNCHANGED <<clockVars, listVars, pipe, flagVars, op, sem, owner>>

(* pollOnce returns for one of three reasons, which its caller does not    *)
(* tell apart: the pipe is readable, and awoken takes one byte; the        *)
(* timeout is over; epoll_wait is interrupted or fails.                    *)
PollReadable ==
  /\ worker = "poll"
  /\ pipe > 0
  /\ pipe' = pipe - 1
  /\ worker' = "take"
  /\ UNCHANGED <<clockVars, listVars, flagVars, op, timeout, running, sem, owner>>

PollTimeout ==
  /\ worker = "poll"
  /\ pipe = 0
  /\ timeout = 0
  /\ worker' = "take"
  /\ UNCHANGED <<clockVars, listVars, pipe, flagVars, op, timeout, running, sem, owner>>

PollInterrupted ==
  /\ worker = "poll"
  /\ timeout # 0
  /\ worker' = "take"
  /\ UNCHANGED <<clockVars, listVars, pipe, flagVars, op, timeout, running, sem, owner>>

(* What the scan of getMessage from mTail->mBefore to the head settles on: *)
(* the least when and, among equals, the one inserted first.               *)
IsEarliest_NewestFirst(i) ==
  \A j \in DOMAIN queue :
     /\ when[queue[i]] <= when[queue[j]]
     /\ j < i => when[queue[i]] < when[queue[j]]

IsEarliest(i) ==
  \A j \in DOMAIN queue :
     /\ when[queue[i]] <= when[queue[j]]
     /\ j > i => when[queue[i]] < when[queue[j]]

(* The critical section of getNextMessage.  A due message is unlinked and  *)
(* handed to its handler ...                                               *)
TakeDue ==
  /\ worker = "take"
  /\ \E i \in DOMAIN queue :
        /\ IsEarliest(i)
        /\ when[queue[i]] <= now
        /\ queue' = RemoveAt(queue, i)
        /\ fate' = [fate EXCEPT ![queue[i]] = "running"]
  /\ worker' = "handle"
  /\ UNCHANGED <<clockVars, when, sent, pipe, flagVars, op, timeout, running, sem, owner>>

(* ... one that is not due sets the timeout of the next poll ...           *)
TimeLeft_Reversed(due) == now - due
TimeLeft_None(due) == Forever
TimeLeft(due) == due - now

TakeEarly ==
  /\ worker = "take"
  /\ \E i \in DOMAIN queue :
        /\ IsEarliest(i)
        /\ when[queue[i]] > now
        /\ timeout' = TimeLeft(when[queue[i]])
  /\ worker' = "poll"
  /\ UNCHANGED <<clockVars, listVars, pipe, flagVars, op, running, sem, owner>>

(* ... and an empty queue ends the loop after quit, or waits for a wake.   *)
NothingToTake_QuitFirst == queue = <<>> \/ queueQuit
NothingToTake == queue = <<>>

TakeEmpty ==
  /\ worker = "take"
  /\ NothingToTake
  /\ worker' = IF queueQuit THEN "leave" ELSE "poll"
  /\ timeout' = IF queueQuit THEN timeout ELSE Forever
  /\ UNCHANGED <<clockVars, listVars, pipe, flagVars, op, running, sem, owner>>

(* handlerMessage returns, loop deletes the message and asks for the next. *)
HandlerReturns ==
  /\ worker = "handle" /\ op[Worker] = "idle"
  /\ fate' = [m \in Messages |-> IF fate[m] = "running" THEN "handled" ELSE fate[m]]
  /\ worker' = "poll"
  /\ timeout' = 0
  /\ UNCHANGED <<clockVars, queue, when, sent, pipe, flagVars, op, running, sem, owner>>

LeaveLoop ==
  /\ worker = "leave"
  /\ running' = FALSE
  /\ worker' = "stopped"
  /\ UNCHANGED <<clockVars, listVars, pipe, flagVars, op, timeout, sem, owner>>

PostStopped ==
  /\ worker = "stopped"
  /\ sem' = sem + 1
  /\ worker' = "done"
  /\ UNCHANGED <<clockVars, listVars, pipe, flagVars, op, timeout, running, owner>>

-----------------------------------------------------------------------------
(* The owner: NThread::NThread, NThread::~NThread and what the destructors *)
(* of RtmpManager, CameraCapture and PushRtmp do around it.                *)

ConstructorReturns_NoWait ==
  /\ owner = "ctor"
  /\ owner' = "live"
  /\ UNCHANGED <<clockVars, listVars, pipe, flagVars, op, loopVars, sem>>

ConstructorReturns ==
  /\ owner = "ctor"
  /\ sem > 0
  /\ sem' = sem - 1
  /\ owner' = "live"
  /\ UNCHANGED <<clockVars, listVars, pipe, flagVars, op, loopVars>>

(* Every destructor in rtmp/ runs after the threads that use the handler   *)
(* have stopped using it.  quit(true) returns at once when a handler has   *)
(* already quit the looper.                                                *)
BeginDestructor ==
  /\ owner = "live"
  /\ \A c \in Clients : op[c] = "idle"
  /\ op' = [op EXCEPT ![Owner] = IF looperQuit THEN "idle" ELSE "quit_all"]
  /\ owner' = IF looperQuit THEN "join" ELSE "quit"
  /\ UNCHANGED <<clockVars, listVars, pipe, flagVars, loopVars, sem>>

Join ==
  /\ owner = "join"
  /\ sem > 0
  /\ sem' = sem - 1
  /\ owner' = "delete"
  /\ UNCHANGED <<clockVars, listVars, pipe, flagVars, op, loopVars>>

(* delete mLooper: ~Looper, ~MessageQueue, which deletes what is left.     *)
DeleteLooper ==
  /\ owner = "delete"
  /\ DeleteAllQueued
  /\ owner' = "deleted"
  /\ UNCHANGED <<clockVars, when, sent, pipe, flagVars, op, loopVars, sem>>

(* The holder's destructor goes on with mHandler->removeAndDeleteAllMessage, *)
(* which tests Looper::mQuit of the deleted looper: whatever it reads, it  *)
(* either returns or walks a list that is gone.                            *)
ClearAfterDelete ==
  /\ owner = "deleted"
  /\ owner' \in {"end", "crashed"}
  /\ UNCHANGED <<clockVars, listVars, pipe, flagVars, op, loopVars, sem>>

-----------------------------------------------------------------------------
(* Time.  The wall clock that stamps messages (gettimeofday) may be set;   *)
(* the one epoll_wait counts on may not.                                   *)
Tick ==
  /\ now < MaxTime \/ (worker = "poll" /\ timeout > 0)
  /\ now' = IF now < MaxTime THEN now + 1 ELSE now
  /\ timeout' = IF worker = "poll" /\ timeout > 0 THEN timeout - 1 ELSE timeout
  /\ UNCHANGED <<clockSets, listVars, pipe, flagVars, op, worker, running, sem, owner>>

SetClock(step) ==
  /\ clockSets < MaxClockSets
  /\ now + step \in 0 .. MaxTime
  /\ now' = now + step
  /\ clockSets' = clockSets + 1
  /\ UNCHANGED <<listVars, pipe, flagVars, op, loopVars, sem, owner>>

Terminated ==
  /\ owner \in {"end", "crashed"}
  /\ UNCHANGED vars

-----------------------------------------------------------------------------
SenderStep(t) == QueueAtFront(t) \/ Wake(t) \/ ClearQueue(t)
QuitStep(t)   == QuitLooper(t) \/ QuitQueue(t)

WorkerStep ==
  \/ PostStarted \/ EnterLoop \/ PollReadable \/ PollTimeout
  \/ TakeDue \/ TakeEarly \/ TakeEmpty
  \/ HandlerReturns \/ LeaveLoop \/ PostStopped

OwnerStep == ConstructorReturns \/ Join \/ DeleteLooper \/ ClearAfterDelete

Next ==
  \/ \E t \in Senders, delay \in Delays : Send(t, delay)
  \/ \E t \in Clients : BeginClear(t)
  \/ \E t \in Threads : SenderStep(t) \/ QuitStep(t)
  \/ \E all \in BOOLEAN : HandlerQuits(all)
  \/ WorkerStep
  \/ PollInterrupted
  \/ OwnerStep
  \/ BeginDestructor
  \/ Tick
  \/ \E step \in ClockSteps : SetClock(step)
  \/ Terminated

(* A thread that has started a call goes on with it, the worker runs when  *)
(* it can, handlers return, the owner is not abandoned by the scheduler    *)
(* and time passes.  Nobody is obliged to send, to clear, to interrupt a   *)
(* poll or to begin the destructor.                                        *)
Fairness ==
  /\ \A t \in Threads : WF_vars(SenderStep(t) \/ QuitStep(t))
  /\ WF_vars(WorkerStep)
  /\ WF_vars(OwnerStep)
  /\ WF_vars(Tick)

Spec == Init /\ [][Next]_vars
FairSpec == Spec /\ Fairness

-----------------------------------------------------------------------------
(* Safety.                                                                 *)

WakeComing == \E t \in Threads : op[t] \in {"wake", "quit_wake"}

(* No lost wake-up: a worker that polls without a timeout while a message  *)
(* is queued, or while the queue has been told to quit, has a byte to read *)
(* or a thread about to write one.  enqueueMessage inserts under the mutex *)
(* and wakes outside it, quit sets its flag without the mutex, awoken      *)
(* takes one byte whatever their number.                                   *)
NoLostWakeup ==
  worker = "poll" /\ timeout = Forever /\ (queue # <<>> \/ queueQuit)
     => pipe > 0 \/ WakeComing

(* No oversleeping: as long as nobody sets the clock, a poll that is not   *)
(* about to be woken ends no later than the first queued message is due,   *)
(* also when that message was sent after the timeout had been computed for *)
(* a later one.                                                            *)
PollCoversQueue ==
  worker = "poll" /\ clockSets = 0 /\ pipe = 0 /\ ~WakeComing
     => \A m \in Range(queue) :
           timeout # Forever /\ (timeout = 0 \/ timeout <= when[m] - now)

(* Each list node is a live message, each once: nothing that loop, a clear *)
(* or the destructor has deleted is still linked, nothing is linked twice. *)
NoDanglingNode ==
  /\ Range(queue) = {m \in Messages : fate[m] = "queued"}
  /\ \A i, j \in DOMAIN queue : queue[i] = queue[j] => i = j

(* Messages of one sender are handled in the order it sent them, unless a  *)
(* later one is due earlier: while an earlier one waits in the list, none  *)
(* sent after it and due no sooner has been handed to a handler.           *)
SenderOrder ==
  \A m, n \in Messages :
     /\ m[1] = n[1] /\ m[2] < n[2]
     /\ when[m] <= when[n]
     /\ fate[n] \in {"running", "handled"}
     => fate[m] # "queued"

LooperFreed == owner \in {"deleted", "end", "crashed"}

(* The destructor frees the looper (and the NThread, semaphore included)   *)
(* only after the worker's last access and with no call in progress.       *)
LooperOutlivesThreads ==
  LooperFreed => worker = "done" /\ ~running /\ \A t \in Threads : op[t] = "idle"

(* The destructor waits for at most one message more than the one being    *)
(* handled: the one the handler had sent past the test of Looper::mQuit    *)
(* before quit(true) set it.                                               *)
AtMostOneLateMessage ==
  owner = "join" /\ ~HandlersMayQuit
     => \A m, n \in Messages :
           fate[m] \in {"held", "queued"} /\ fate[n] \in {"held", "queued"} => m = n

(* The worker leaves only a drained queue behind.                          *)
ExitDrains == worker = "done" /\ ~HandlersMayQuit => queue = <<>>

(* When a handler quits the looper, a worker that has left strands at most *)
(* one message per client: one that had passed the test of Looper::mQuit.  *)
StrandedAtMostOnePerClient ==
  worker = "done"
     => \A m, n \in Messages :
           /\ fate[m] \in {"held", "queued"} /\ fate[n] \in {"held", "queued"}
           /\ m[1] = n[1]
           => m = n

(* What Handler.cpp:50-54 is written for: nobody calls into a looper that  *)
(* is gone, be it a call in progress, the loop itself or the holder's      *)
(* destructor about to clear its handler's queue.                          *)
LooperInUse ==
  \/ \E t \in Threads : op[t] # "idle"
  \/ worker \in {"poll", "take", "handle"}
  \/ owner = "deleted"

HandlerUsesLiveLooper == LooperInUse => ~LooperFreed

-----------------------------------------------------------------------------
(* Liveness, under Fairness.                                               *)

(* Every queued message is handed to its handler or cleared.               *)
QueuedIsTaken ==
  \A m \in Messages : fate[m] = "queued" ~> fate[m] # "queued"

(* The constructor returns, and a destructor that has begun deletes the    *)
(* looper: sem_wait is answered by the loop's exit.                        *)
LifecycleCompletes ==
  /\ owner = "ctor" ~> owner = "live"
  /\ owner \in {"quit", "join"} ~> LooperFreed

-----------------------------------------------------------------------------
(* Refinement: seen through the fates of its messages, the whole machinery *)
(* is a Mailbox.                                                           *)
Accepted == {m \in Messages : fate[m] \in {"queued", "running", "handled", "cleared"}}
Pending  == {m \in Messages : fate[m] = "queued"}
Handling == {m \in Messages : fate[m] = "running"}

Mail == INSTANCE Mailbox
          WITH accepted <- Accepted, pending <- Pending, handling <- Handling

(* Every step of the queue, the loop and the threads around it is one that *)
(* a Mailbox allows, or none at all: no message is handled twice, early,   *)
(* out of turn, at the same time as another or after it was cleared.       *)
IsMailbox == Mail!Spec

(* The newest message is first in the list.                                *)
PutBefore == {p \in Pending \X Pending :
               \E i, j \in DOMAIN queue : i > j /\ p = <<queue[i], queue[j]>>}

Order == INSTANCE DelayQueue
           WITH due <- [m \in Pending |-> when[m]], before <- PutBefore

(* The sequence that stands for the list is the DelayQueue that the list   *)
(* of MessageList implements, link by link: whoever sends, clears, quits   *)
(* or deletes meanwhile, the loop takes what the list would give it.       *)
ListIsQueue == Order!Spec
=============================================================================
