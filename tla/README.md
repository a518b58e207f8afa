# A verification development for rtmpClient

rtmpClient captures the pictures of up to two USB cameras on a Rockchip board,
encodes them with the hardware encoder and pushes each camera's stream to a
local RTMP server. It is about 2500 lines of C++ in two layers:
`src/handlerThread/` is a message loop in the manner of Android's Looper, and
`src/rtmp/` is the program proper, four classes of which three run on such a
loop each.

This directory holds TLA+ modules that model both layers, TLC configurations
that check them on small instances, and TLAPS proofs of what matters most for
every instance. `PROJECT.json` is the index: it maps each definition to the
source lines it stands for, and lists runs, findings, hazards and theorems.

## Inventory

| Component | State it keeps | Operations | What makes it correct |
|---|---|---|---|
| `MessageQueue` | linked list of messages, size, quit flag, wake pipe, epoll descriptor, mutex | `enqueueMessage`, `getNextMessage`, `removeAndDeleteAllMessage`, `wake`, `pollOnce` | no wake-up is lost, no oversleeping, order, no dangling node |
| `Looper` | its queue, `mQuit`, a thread-local key | `loop`, `quit`, `enqueueMessage`, `removeAndDeleteAllMessage` | the loop ends after quit and drains the queue, what passes the test of `mQuit` too late is bounded |
| `NThread` | its looper, the thread, one semaphore, `running` | constructor, `Run`, destructor | the looper outlives all that use it, construction and destruction end |
| `Handler`, `Message` | the looper a handler is bound to; `when`, `mTarget`, `mObj` | `sendMessage`, `sendMessageDelayed`, `removeAndDeleteAllMessage` | messages are handled once, when due, in order |
| `RtmpManager` | `mCamerasMap`, `mCurrentWorkCameraCount`, one message in its mailbox | `startRtmp`, `freshAviableCamera`, `createCamera`, `errorCamera` | the search goes on until two cameras work, each camera has a capture and a stream of its own |
| `CameraCapture` | `mVideoCapture`, `m_Vsc`, `mPushRtmp`, one message in its mailbox | `startCameraCapture`, `handlerMessage`, `openCamera`, `doCapture`, `releaseCamera` | frames keep the frame rate, only what was acquired is released |
| `PushRtmp` | `m_framecnt`, `m_localRtmpFailedTimes`, `m_rtmpStatus`, muxer, connection, codec context | `pushRtmp`, `handlerMessage`, `initRtmp` | the backlog is bounded, frames are written in a complete session only, a dead session is given up |
| `MppEncoder` | encoder context, configuration, three buffers | `init`, `getSpsInfo`, `rkmpp_encode_frame` | used only after a complete init, resources released |
| `main` | a looper nobody sends to | | |
| `Mutex`, `Condition`, `BaseHeader`, makefiles | none of interest | | |

How they interact:

    main --startRtmp--> RtmpManager ==START/CHECK==> (itself, every 2 s)
                          | createCamera
                          v
                     CameraCapture ==CAPTURE==> (itself, every 40 ms)
                          | pushRtmp(frame)            | errorCamera: exit(0)
                          v
                     PushRtmp ==frame==> push thread --> MppEncoder, FFmpeg, server

A double arrow is a message through a Handler, a Looper and its MessageQueue; a
single one is a call. The callers' threads insert into the queue, the
NThread's thread takes out.

What is hard about it: the unlocked flags and counters that two threads share
(`Looper::mQuit`, `m_framecnt`); wake-ups that are written outside the lock;
due times on the wall clock against sleeps on the monotonic one; the lifetime
of loopers and semaphores; sessions that fail half-way and are set up again;
self-sent messages on which a component's whole life depends; pictures that
travel by pointer while objects are destroyed; members nobody initialises. The list, each with its line, is under `hazards` in
`PROJECT.json`.

## Modules

| Module | Stands for |
|---|---|
| `HandlerThread` | one NThread with its Looper and MessageQueue, and the threads around it |
| `MessageList` | the linked list inside a MessageQueue, link by link |
| `DelayQueue` | what a MessageQueue's list is to the code around it: the earliest due comes out, the oldest of those first |
| `Mailbox` | what a Handler promises, without lists, pipes or threads |
| `Session` | an RTMP session as its user sees it: `initRtmp` as one step |
| `PushRtmp` | one PushRtmp, capture thread against push thread, and its sessions; extends `Session` |
| `RtmpSession` | `initRtmp`, `MppEncoder::init`, `getSpsInfo` and the destructors call by call |
| `Pipeline` | CameraCapture and PushRtmp over their mailboxes, and the thread that deletes them |
| `RtmpManager` | the search for cameras |
| `CameraCapture` | one capture thread: opening, pace, release |
| `*Proofs`, `HandlerThreadRefines` | proofs about the module of that name; that `HandlerThread` implements `Mailbox` and `DelayQueue` |
| `MC*` | the values the configurations of a module share |

    Mailbox <--implements-- HandlerThread        Session <--implements-- RtmpSession
       ^                        | implements        ^
       | INSTANCE               v                   | EXTENDS (and uses it as specified)
    Pipeline                DelayQueue           PushRtmp
                                ^
                                | implements
                            MessageList

`Pipeline` uses the push thread's mailbox as an instance of `Mailbox`;
`PushRtmp`, `RtmpManager` and `CameraCapture` keep only how many messages are
in one, or when the next is due; `HandlerThread` shows that the real one is a
`Mailbox`. `DelayQueue` is where the two models of the list meet:
`MessageList`, which follows the links, and `HandlerThread`, which has a sequence
for it, both implement it (`IsQueue`, `ListIsQueue`). `PushRtmp` uses a session through `Session`, and its property
`UsesSession` says that it does so as `Session` allows; `RtmpSession` shows
that the real `initRtmp` behaves that way. An operator with a suffix, such as
`IsKnown_Never` or `LinkFirst_HeadFirst`, is a deliberately wrong variant of
the definition after it: putting it in the definition's place must break a
property, which shows that the property is about the code.

### HandlerThread

Threads: the clients, the worker (which also sends, from inside a handler), and
the owner, which constructs and destroys the NThread and goes on with the
destructor of the object that holds it. `op[t]` is the call a thread is in the
middle of, `worker` and `owner` where those two are.

| Action | Code |
|---|---|
| `Send` | `Handler::sendMessage`, `sendMessageDelayed`, the test in `Looper::enqueueMessage` |
| `QueueAtFront`, `Wake` | `MessageQueue::queueAtFront` under the mutex; the write to the pipe after it |
| `BeginClear`, `ClearQueue` | `removeAndDeleteAllMessage` of Handler, Looper, MessageQueue |
| `HandlerQuits`, `QuitLooper`, `ClearQueue`, `QuitQueue`, `Wake` | `Looper::quit`, step by step |
| `PostStarted`, `EnterLoop`, `LeaveLoop`, `PostStopped` | `NThread::Run` |
| `PollReadable`, `PollTimeout`, `PollInterrupted` | the three ways `pollOnce` returns, with `awoken` |
| `TakeDue`, `TakeEarly`, `TakeEmpty` | the critical section of `getNextMessage` |
| `HandlerReturns` | the rest of `Looper::loop` |
| `ConstructorReturns`, `BeginDestructor`, `Join`, `DeleteLooper`, `ClearAfterDelete` | `NThread::NThread`, `~NThread`, and `mHandler->removeAndDeleteAllMessage()` after it |
| `Tick`, `SetClock` | time; somebody sets the wall clock |

A critical section of `mMutex` is one action, and the list is a sequence. A
message is identified by its sender and its number.

### MessageList

The same critical sections taken apart. A message is an address, which may be
used again once its message has been deleted; the links of a new message hold
whatever was there. `QueueAtFront` is the four assignments of `queueAtFront` in
their order; `BeginScan`, `ScanNext`, `ScanEndsDue`/`ScanEndsEarly` the loop of
`getMessage`; `RemoveNext`, `RemoveEnds` that of `removeMessage`, with the
message returned to `Looper::loop` (`handed`) and deleted there
(`DeleteHandled`); `BeginClear`, `ClearNext`, `ClearEnds` that of
`removeAndDeleteAllMessage`; `Delete` the destructor. `queued`, `stamp` and
`inserted` are history: what should be in the list, and in which order it was
put in. `Chained` says that the list is the queued messages, newest first, in
both directions, `SizeCounts` that the two tests for emptiness agree, and
`IsQueue` that the whole is a `DelayQueue`: a message is in it from
`QueueAtFront` until `removeMessage` has unlinked it or a clear, which holds the
mutex until it is through, has begun. `HandlerThread` assumes no more of its
sequence, which is a `DelayQueue` too (`ListIsQueue`).

### Session and PushRtmp

The capture thread goes through `pushRtmp`, the push thread through
`handlerMessage`. `m_framecnt++` and `--m_framecnt` are a load and a store each
(`LoadCount`/`StoreCount`, `LoadUncount`/`StoreUncount`): the member is a
volatile int, changed without a lock. `lost` is history: the number of
increments that a store of the push thread has overwritten since the counter
was last reset, and, at the start, the amount by which an uninitialised
counter is below zero. In `Session` the whole of `initRtmp` is one step
(`InitFails`, `InitSucceeds`, `InitDies`), since only one thread at a time uses
it: the constructor until it returns, the push thread from the first frame on.
`InitFails` has one disjunct per group of places where `initRtmp` returns, and
leaves behind what they leave behind. `LinkFlips` is the server going and
coming back.

### RtmpSession

One action per call that may fail: `Creates`, `Configures`, `EncoderFails`,
`Cleanup` for `MppEncoder::init` (`group`, `frame`, `packet`, `context`,
`mpp_init`, `config`, `setup`), whose result `initRtmp` ignores; `AllocatesMuxer`,
`NoMuxer`, `AddsStream`, `GetsSps`, `OpensIo`, `WritesHeader`, `FormatFails` for
the rest; `GiveUp` for the end of a session; `Delete` for the destructors. A
resource is a kind and the attempt that created it; a pointer holds an attempt,
`NULL`, or `Garbage` where no constructor sets it. `misused` collects releases
of what does not exist. `Dies` is the undefined calls: `mpp_destroy` of a
context that was never set, `getSpsInfo` without an API or with a packet buffer
never set. `View` maps pointers and resources to the variables of `Session`, and
`shown` is that view as of the last return of `initRtmp`, which is when a frame
meets it.

### Pipeline

Three threads: capture (`Begin` to `CaptureExits`), push (`Take`, `Write`,
`Skip`, `Free`, `PushExits`) and the one that runs `~CameraCapture` and, in it,
`~PushRtmp` (`BeginTeardown` to `DeleteEncoder`), at any time. A looper's `quit`
is the flag, the clear, and the telling of the queue, in that order; the sends
of the capture thread test the flag first and insert later, so a message may
arrive after the clear. Frames are stamped with a clock that may be set back,
cleared with their messages when `m_framecnt` says so (any time, here), written or
skipped, and deleted. After each join the destructors clear their handler once
more, through the looper that the join has deleted: `DropCapture` and `DropPush`
are the case in which nothing is seen of it, `UsesDeletedLooper` the one in which
it ends the process (the run `handler_use_after_delete` shows the use itself). So
`TeardownEnds` promises the end of the destructors or of the process, no more. A
capture that has opened no camera has an `mPushRtmp` that nobody has set.

In the program as it stands nothing runs these destructors: `main` keeps its
manager for ever, and errors call `exit(0)`. `deleteErrorCamera`, whose call is
commented out, would.

### RtmpManager

A scan is taken apart. `BeginScan` is `opendir`, `ScanFails` its failure, after
which nothing is posted; each `ReadEntry` is one turn of the loop over `readdir`;
`EndOfDir` is `closedir`, the sorting and the choice of every second entry; each
`createCamera` is a step, since a created capture runs at once; `EndScan` posts
CHECK unless `isAllCameraWork`. In between `DevicesChange` adds or removes one
node at a time, as the kernel does. What is in /dev from `opendir` on (`due`) is
returned; what comes or goes meanwhile (`passing`) is returned or not, as POSIX
leaves it open. A name is returned at most once in a scan, which is the one thing
the model asks of `readdir`. `Readings` says what `atoi` may make of each name.
`halved` is history: whether the numbers read in some scan were not all of whole
cameras, an even node and the next one.

The status of a camera in the map is always RUN, because the one function that
sets another, `deleteErrorCamera`, is never called; the branch of `createCamera`
that reuses such an entry is therefore not in the model.

### CameraCapture

One message drives the thread: `Begin` (the poll ends and the message is due),
`OpenSucceeds`/`OpenFails`/`Release`/`WakeUp` or `Grab`, then `SendNext`, which
computes the next delay with `getNextFrameDelay` and sends. Time counts
microseconds, with the sizes of a millisecond and a second as parameters, so
that a small instance crosses the borders at which `timeval` carries. The poll
and the sleep go by `now`, stamps by `wall`, which `SetClock` may move. The
thread is scheduled without delay, so that the bounds shown are those of the
code's arithmetic.

## Runs

Every property of a passing run also has a wrong variant of the code that
breaks it.

| Run | Checks | Instance and why it is enough |
|---|---|---|
| `handler_messages` | `TypeOK`, `PollCoversQueue`, `SenderOrder`, `AtMostOneLateMessage`, `ExitDrains`, `IsMailbox`, `ListIsQueue` | one client and the worker, two messages each, delays 0 and 2, three ticks: two messages of each of two senders are what order and a late send need |
| `handler_wakeup` | `NoLostWakeup`, `LooperOutlivesThreads`, `StrandedAtMostOnePerClient` | two clients and a handler that may quit, two messages each, a pipe of one byte, no delays: writers race each other, the quit and a full pipe |
| `handler_progress` | `QueuedIsTaken`, `LifecycleCompletes` | fair; one message each, the clock set twice, forward and back |
| `handler_use_after_delete` | `HandlerUsesLiveLooper` (violated) | one client |
| `list_links` | `Chained`, `SizeCounts`, `LoopsStayInList`, `IsQueue`, `LoopsEnd` | three addresses, two due times, four insertions: lists of none to three messages, removal at either end and in the middle, equal due times, an address used twice; fair |
| `push_frames` | `CountFollowsFrames`, `BacklogBounded`, `WritesInLiveSession`, `DeadSessionGivenUp`, `Recovers`, `UsesSession` | fair; limit 2 instead of 20, a session ends after 2 failures instead of 125, counters that start below zero and above their limit, up to 6 frames in the mailbox, one lost increment: clears, lost updates, failed attempts and give-ups all happen several times |
| `session_attempts` | `SessionFromOneAttempt`, `CleansUp`, `ReleasesOwn`, `IsSession` | three attempts: one that fails anywhere, one over its leftovers, and one after a session |
| `pipeline_teardown` | `FramesOwned`, `UsesLiveObjects`, `WrittenInOrder`, `TeardownAdvances`, `TeardownEnds`, `FramesGetOut` | four pictures, two clock values, one set-back; the teardown begins anywhere; the last picture is kept for the capture thread that goes on after the quit; fair |
| `manager_search` | `StreamsDistinct`, `OneCapturePerNode`, `FirstNodesOnly`, `ChecksUntilAllWork`, `CapturesLimited`, `FindsCameras` | nodes 0 to 3, two cameras, each coming and going by itself, also in the middle of a scan; a name may be read with a digit too many; opendir may fail; fair: whole and half cameras, shifted positions and scans that add two to one all occur |
| `manager_unopened` | `StopsWhenAllWork` (violated) | the same nodes, read exactly; fair |
| `capture_pace` | `PaceKept` | 2 microseconds a millisecond, 5 milliseconds a second, one frame a second: every remainder occurs; frames cost from nothing to more than a period |
| `capture_scaler` | `FreesOnlyItsOwn` (violated) | the clock is not set |

Bounds: `MaxSends`, `MaxTime`, `MaxClockSets`, `PipeCapacity` (HandlerThread);
`MaxInserts` (MessageList); `MaxBacklog`, `MaxLost` (PushRtmp); `MaxAttempts`
(RtmpSession); `MaxFrames`, `MaxNow`, `MaxBacks` (Pipeline); `MaxJumps`,
`MaxCost`, `MaxTime` (CameraCapture). RtmpManager needs none. `MaxTime` stops the
wall clock of HandlerThread, not the countdown of a poll. `MaxBacklog` and
`MaxLost` only keep back steps that would exceed them; `Bounded` is proved for
every value of both, so that they hide nothing. Where a bound keeps an action
from happening, the rest goes on; deadlock is checked in every run.

### Fairness

`HandlerThread`: a thread in the middle of a call goes on, the worker runs when
it can, the owner is scheduled, time passes. The code has no thread that waits
for more than the mutex, the poll and the semaphore, and handlers return: the
ones in `src/rtmp/` block for two seconds at most, or in a call of a library.
Nobody is obliged to send, clear or begin a destructor.
`MessageList`: a thread that holds the mutex goes on with its loop.
`Pipeline`: each of the three threads goes on when it can, once the destructors
have begun, and the clock advances; nobody is obliged to begin them.
Where the destructors use a deleted looper, fairness lets them go on or end the
process.
`PushRtmp`: the capture thread sends itself the message for the next frame (weak
fairness). The push thread is woken for each frame and is not passed over for
ever although a clear may take the frame away before it runs (strong); an
attempt to set up a session that is made again and again while it could succeed
succeeds some day, and so does the encoding of a frame (strong). The server owes
nothing: `DeadSessionGivenUp` and `Recovers` are about it going, or staying, for
good.
`RtmpManager`: main calls `startRtmp`, the manager's loop delivers (this is
`QueuedIsTaken`), a capture that cannot open tries again as long as its device
is there.
`CameraCapture` and `RtmpSession` have no liveness property.

## Findings

Each is a run that TLC finds violated; `PROJECT.json` quotes what the code says
of itself.

1. `handler_use_after_delete`: the destructors of RtmpManager, CameraCapture and
   PushRtmp delete their NThread, and with it the looper, before they clear
   their handler, which then reads the deleted looper.
2. `manager_unopened`: a camera counts as working from before it is opened, so
   the manager stops looking although a camera is free.
3. `capture_scaler`: the first failing attempt to open a camera frees the
   uninitialised `m_Vsc`.

More places behave otherwise than one would expect, though no text of the
repository says what they should do. The models have them, and the properties
are stated beside them:

- `m_framecnt` does not say how many frames there are: nothing initialises it, a
  clear resets it to zero just before one more frame is sent, and its two
  writers race. `CountFollowsFrames` says how far it may be off, and
  `BacklogBounded` what that lets in.
- `m_localRtmpFailedTimes` is not initialised either, and successes do not reset
  it. A session is given up all the same, sooner or later.
- A clear deletes messages and not the pictures in them. `FramesOwned` shows
  that this is the only way in which a picture leaks.
- Most of what attempts to set up a session make is never released. `CleansUp`
  says what is: the context of a failed init, the connection and the codec
  context of a session given up, and the last attempt's encoder in the
  destructor. Everything else stays: every muxer with its header; the codec
  context and the connection of an attempt that failed after making them; the
  encoder a later attempt replaces, with its buffers; and, since the clean-up in
  `~PushRtmp` is commented out (`PushRtmp.cpp:48-57`), the codec context and the
  connection of the session in use at the end, which nothing replaces. A failed
  first attempt may destroy a context that was never set, which is the one
  exception in `ReleasesOwn`.
- `mPushRtmp` is set by no constructor; the destructor of a capture that has
  opened no camera deletes what the memory held (`DeleteGarbage`).
- `mMaxCameraCount` is never read: a scan that finds six nodes starts three
  cameras. `CapturesLimited` says how many there may be; their streams are
  distinct all the same.
- Cameras are chosen by position, so that a scan that meets half a camera (its
  other node just plugged in or out, misread, or passed over by `readdir`) shifts
  the choice for all that come after it to second nodes, also of cameras that
  run already. `FirstNodesOnly` says that it takes such a scan; once it has
  happened, a second node stays captured.
- When `opendir` fails once, the manager never looks again (`failed`).
- The digits of a device name are read without a terminator, so that a camera
  which is not in /dev may be created, and counts as running (`Readings`).
- `bps_max` and `bps_min` of MppEncoder are handed to the library as the memory
  left them.

## Proofs

All theorems are about `Spec`, for every value of the constants that satisfies
the named assumptions of the module, and are checked by TLAPS to the last leaf.
The assumptions say that bounds are numbers, that units of time and the frame
rate are positive, that threads and sentinels differ, and that sets of nodes and
addresses are finite.

`HandlerThreadProofs`. `TypeCorrect`: a thread about to link a message names one
of its own (`LinksOwnMessage`), without which the list need not hold messages.
`LooperOutlives`: `CallsInPlace` says where each thread may be inside a call,
`SemaphoreCounts` counts posts of the one semaphore against waits, per place of
worker and owner; the owner gets past its second wait only after the worker's
second post. `Wakeup`: inductive given those, because the loop chooses to sleep
for ever only inside the critical section in which it saw an empty list.
`NodesLive` and `OrderKept`: fates follow what was sent (`FatesFollowSends`) and
of two messages of one sender the later stands nearer to the head
(`LatestFirst`), so that the scan from the tail meets the earlier one first.
`SleepsNoLonger`: inductive given the types and the list's invariant, since a
timeout is computed for the earliest message of the list and a message inserted
afterwards brings its wake-up. `OneLate`, `Drained`, `StrandedBounded`: once the
flag is set no message is admitted, so that each sender has at most the one that
was admitted before. `QuitInv` counts them: at most one in all once the
destructor's clear is over (`ClearedForGood`), since clients have stopped by then
and only the handler itself may be in the middle of a send; none when the loop
has left; and at most one per sender when handlers may quit and clients go on.
`NeverStuck`, the safety half of `LifecycleCompletes`: whoever waits in the
constructor or in the destructor can count on a post that is there, a loop that
has a step to take, or a thread in the middle of a call. It rests on
`NoLostWakeup`, on `QuitIsTold` (when the looper's flag is set, the queue's is,
or a thread is on its way to set it) and on `ScanSettles` (a list that is not
empty has an earliest message, because the numbers are well-founded).

`HandlerThreadRefines`. `ImplementsMailbox`: each action maps to one of
`Mailbox` or to a stutter; the steps that need an invariant are `TakeDue`
(order in the list) and `QueueAtFront` (a message is accepted once).
`SequenceIsQueue`: a push puts a message after all that wait, and removing one
leaves the order of the others (`OlderWhenPushed`, `OlderWhenUnlinked`); sending,
waking and quitting leave the queue alone, since `when` changes only for a
message that is not yet in it.

`MessageListProofs`. One inductive invariant: `Chained` states the order of the
links by ranks rather than by a path from the head, so that no induction over
the list is needed, each operation changing the successor of one cell;
`Stamped` says that stamps are distinct and below `inserted`, `Settled` that the
scan's choice is the earliest of what it has passed. `SizeIsRight` adds the
cardinality of a set that grows and shrinks by one. `EarliestIsTaken` says what a
removal takes. `ListImplementsQueue`: an insertion, the end of a removal and the
beginning of a clear are the steps in which the abstract queue changes, every
other one is a stutter. `LoopsAreBounded`, the safety half of `LoopsEnd`: the
rank of the cell a loop has reached bounds the steps it has left, and every step
lowers it.

`PushRtmpProofs`. `CountFollows` and `Bounded`: the strengthening says that what
the capture thread has loaded or tested stays true until it acts on it, since
the other thread only takes frames out and its overwrites are counted in
`lost`. `LiveSession`: `m_rtmpStatus` implies a complete session, and the push
thread is past its test only while it is set. `SessionContract`: every step is
one of `Session` or leaves the session alone; `StatusMeansUp` says what this
contract gives to whoever keeps it. `WearsOut`, the safety half of
`DeadSessionGivenUp`: while a broken session lasts, `failedTimes` never falls and
each frame that reaches the writer raises it, below `FailLimit`, or ends the
session; so a number of failed writes that is known beforehand ends it.

`RtmpSessionProofs`. `SessionInv`: before its call a kind has nothing of the
running attempt, after it the pointer and the resource of the attempt are there
(`InOrder`); what lives and has been misused belongs to attempts made so far
(`Tracked`); a live context is of an attempt that was good, or of the running one
(`ContextsGood`). `OneAttempt` and `OwnReleased` follow. `CleanUpHolds` adds that an attempt under way
has written no header (`ClosedInv`), so that what has one was in use, and was
closed by `GiveUp` if it is not in use any more.
`ImplementsSession` needs `ShownInv`, which ties the view that the user has to the
pointers while `initRtmp` runs: `shown` stays what it was when the attempt began,
but for what the server does to it, and each return is one of the disjuncts of
`InitFails` or `InitSucceeds`.

`PipelineProofs`. `Phases` lists which places of the three threads go together
(the push thread exists from the construction of its object on, the owner passes
a join only when the thread has ended, the capture thread has one message at
most); `Boxed` puts each frame in one place; `Ordered` says that a frame that was
overtaken is due later than the one that overtook it.
`OwnedAlways`, `ObjectsOutliveTheirUsers`, `OneLate` and `OrderKept` follow.
`TeardownIsBounded`, the safety half of `TeardownEnds`: `WorkLeft` weighs where
the three threads are and how many frames are left; once the destructors have
begun, every step but those of the clock lowers it. The capture thread's message
to itself is what could make it go up; the looper's flag keeps it away.

`RtmpManagerProofs`. `DistinctStreams`, `OneCapture`: stream numbers in use do
not exceed `mCurrentWorkCameraCount` and every capture's index is a key of the
map. `ChecksGoOn`: exactly one message keeps the search going, in the mailbox or
taken by the scan under way (`OneMessage`). `FirstNodes` has no hypothesis about
/dev: if no scan has met half a camera, the numbers a scan has read are paired,
an entry's position is the number of smaller ones (`WholeCamerasFirst`), next-node
is a bijection between the even and the odd ones below an even number, so that
evenly many precede it and oddly many its partner (`EvenlyMany`,
`FirstOfPairs`). `MapIsRight`: map, captures and stream numbers say the same, so
that `isAllCameraWork` counts captures. `ScanSuffices`, the safety half of
`FindsCameras`: of three different numbers read two are chosen (`TwoAreChosen`),
and creating a camera only moves it from the list to the map. `FewCaptures`: half
of what is read is chosen, rounded up (`HalfIsChosen`, which maps every chosen
entry to half its position), no scan begins with two cameras in the map
(`OneMessage`), and what the map and the list hold together does not grow while
the cameras are created (`FewInSight`).

`CameraCaptureProofs`. `FramesKeepPace`: the wall clock is what it was when the
frame began, plus what passed and what was set since (`Drift`); the message for
the next frame is due a period after the last one, but for what the divisions
lose, unless the last one took longer (`DueInTime`), and the poll ends within a
millisecond of it, unless the clock was set back (`WakesInTime`). Lemmas on
division say what rounding loses, whether the difference of the microseconds is
negative or not.

Only model-checked: liveness and everything under fairness, which the prover
does not reach. Every other property of the passing runs is a theorem. Of the
liveness properties the part that is about single steps is proved as well, where
it says something by itself: who waits can count on somebody (`NeverStuck`),
loops and the teardown have a number that goes down (`LoopsAreBounded`,
`TeardownIsBounded`), a dead session wears out (`WearsOut`), one scan is enough
(`ScanSuffices`). What fairness adds to them is that the steps are taken. The
types (`TypeOK`) are invariants of one run and theorems about every module.

## Not modelled

What FFmpeg, OpenCV and the encoder do inside, and the configuration values
given to them; packet time stamps; functions nothing calls (`pushRtmp(AVFrame*)`,
`deleteErrorCamera` and the branch of `createCamera` it would make reachable,
`cvmatToAvframe`, `releaseAVFrame` of CameraCapture, `gstreamerPipeline`,
`Looper::getForThread` and the thread-local key it reads); the destructor of
RtmpManager beyond its use of its handler, since `main` never deletes the
manager; failures of `pipe`, `epoll_ctl`, `pthread_create` and `new`, which abort
or end the program at once; the truncation of a poll timeout to int, which needs
a clock set back by more than 24 days; the wrappers `Mutex` and `Condition`, of
which the first makes critical sections single actions and the second is unused;
build files. `CameraCapture` takes for granted that the camera delivers pictures
of the size it was asked for.

## Plan

Done: the message loop with its list, its promise and the refinement; sessions in
one step and call by call, with the refinement between them; the two threads of
PushRtmp; the composition of captures, pushes and teardown; the search for
cameras; the pace; proofs about all of them.

The two models of the list are related by `DelayQueue`, which both implement.
What would add most next: what a `Mailbox` promises as theorems about `Mailbox`
itself, so that its users can rest on them alone; the bound of the backlog seen
from `Pipeline`; two captures and their manager in one module; integers of
limited width for the poll timeout.
