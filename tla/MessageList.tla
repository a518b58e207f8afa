----------------------------- MODULE MessageList -----------------------------
(***************************************************************************)
(* The list inside a MessageQueue (src/handlerThread/MessageQueue.cpp):    *)
(* doubly linked between two sentinels, newest message first.  HandlerThread *)
(* takes each of its operations for one step on a sequence; here they are  *)
(* taken apart into what they do to mNext, mBefore and mQueueSize.         *)
(*                                                                         *)
(* Every operation holds mMutex, so they follow one another.  A message is *)
(* known by its address, which the heap gives away again when the message  *)
(* has been deleted; the pointers in a new message are what the memory     *)
(* held before, since no constructor of Message sets them.                 *)
(***************************************************************************)
EXTENDS Integers, FiniteSets

CONSTANTS
  Addresses,      (* where messages may be                                 *)
  Head, Tail,     (* the two sentinels                                     *)
  Times,          (* the values of when in use                             *)
  MaxInserts      (* bound: messages that are put into the list            *)

ASSUME SentinelsDiffer ==
  Head \notin Addresses /\ Tail \notin Addresses /\ Head # Tail
ASSUME AddressesFinite == IsFiniteSet(Addresses)
ASSUME BoundsAreNumbers == Times \subseteq Int /\ MaxInserts \in Nat

Cells == Addresses \cup {Head, Tail}

VARIABLES
  mNext, mBefore, (* the links of every cell                               *)
  mQueueSize,
  when,           (* of every message                                      *)
  at,             (* the loop the operation is in, or "idle", or "deleted" *)
  index,          (* indexMessage                                          *)
  temp,           (* tempMessage, what the scan has settled on so far      *)
  queued,         (* the messages put in and not yet taken or deleted      *)
  handed,         (* those getNextMessage has returned and loop not yet deleted *)
  stamp,          (* the place of each among all that have been put in     *)
  inserted        (* how many those are                                    *)

vars == <<mNext, mBefore, mQueueSize, when, at, index, temp, queued, handed, stamp, inserted>>

TypeOK ==
  /\ mNext \in [Cells -> Cells] /\ mBefore \in [Cells -> Cells]
  /\ mQueueSize \in Nat
  /\ when \in [Addresses -> Int]
  /\ at \in {"idle", "scan", "remove", "clear", "deleted"}
  /\ index \in Cells /\ temp \in Cells
  /\ queued \subseteq Addresses /\ handed \subseteq Addresses
  /\ inserted \in 0 .. MaxInserts
  /\ stamp \in [Addresses -> 0 .. inserted]

Init ==
  /\ \E old \in Cells :
       /\ mNext = [c \in Cells |-> IF c = Head THEN Tail ELSE IF c = Tail THEN Head ELSE old]
       /\ mBefore = [c \in Cells |-> IF c = Head THEN Tail ELSE IF c = Tail THEN Head ELSE old]
  /\ mQueueSize = 0
  /\ when = [c \in Addresses |-> 0]
  /\ at = "idle" /\ index = Head /\ temp = Head
  /\ queued = {} /\ handed = {}
  /\ stamp = [c \in Addresses |-> 0] /\ inserted = 0

-----------------------------------------------------------------------------
(* queueAtFront: the statements in their order.                            *)
LinkFirst_HeadFirst(m) ==
  /\ mNext' = [mNext EXCEPT ![Head] = m, ![m] = m]
  /\ mBefore' = [mBefore EXCEPT ![m] = Head]

LinkFirst(m) ==
  /\ mNext' = [mNext EXCEPT ![m] = mNext[Head], ![Head] = m]
  /\ mBefore' = [mBefore EXCEPT ![mNext[Head]] = m, ![m] = Head]

QueueAtFront(m, due) ==
  /\ at = "idle" /\ inserted < MaxInserts
  /\ m \notin queued \cup handed
  /\ LinkFirst(m)
  /\ mQueueSize' = mQueueSize + 1
  /\ when' = [when EXCEPT ![m] = due]
  /\ queued' = queued \cup {m}
  /\ inserted' = inserted + 1
  /\ stamp' = [stamp EXCEPT ![m] = inserted + 1]
  /\ UNCHANGED <<at, index, temp, handed>>

-----------------------------------------------------------------------------
(* getNextMessage, when the list is not empty: getMessage goes from the    *)
(* tail to the head and settles on a message.                              *)
BeginScan ==
  /\ at = "idle" /\ mQueueSize # 0
  /\ at' = "scan"
  /\ index' = mBefore[Tail] /\ temp' = mBefore[Tail]
  /\ UNCHANGED <<mNext, mBefore, mQueueSize, when, queued, handed, stamp, inserted>>

IsEarlier_OrEqual(c) == when[c] <= when[temp]
IsEarlier(c) == when[c] < when[temp]

ScanNext ==
  /\ at = "scan" /\ index # Head
  /\ temp' = IF IsEarlier(index) THEN index ELSE temp
  /\ index' = mBefore[index]
  /\ UNCHANGED <<mNext, mBefore, mQueueSize, when, at, queued, handed, stamp, inserted>>

(* It is due, and removeMessage looks for it from the head on ...          *)
ScanEndsDue ==
  /\ at = "scan" /\ index = Head
  /\ at' = "remove"
  /\ index' = mNext[Head]
  /\ UNCHANGED <<mNext, mBefore, mQueueSize, when, temp, queued, handed, stamp, inserted>>

(* ... or the next poll is for what is left.                               *)
ScanEndsEarly ==
  /\ at = "scan" /\ index = Head
  /\ at' = "idle"
  /\ UNCHANGED <<mNext, mBefore, mQueueSize, when, index, temp, queued, handed, stamp, inserted>>

RemoveNext ==
  /\ at = "remove" /\ index # Tail /\ index # temp
  /\ index' = mNext[index]
  /\ UNCHANGED <<mNext, mBefore, mQueueSize, when, at, temp, queued, handed, stamp, inserted>>

Unlink_Forward(c) ==
  /\ mNext' = [mNext EXCEPT ![mBefore[c]] = mNext[c]]
  /\ mBefore' = mBefore

Unlink(c) ==
  /\ mNext' = [mNext EXCEPT ![mBefore[c]] = mNext[c]]
  /\ mBefore' = [mBefore EXCEPT ![mNext[c]] = mBefore[c]]

(* The message is returned, found or not.                                  *)
RemoveEnds ==
  /\ at = "remove" /\ index \in {Tail, temp}
  /\ IF index = Tail
       THEN UNCHANGED <<mNext, mBefore, mQueueSize, queued>>
       ELSE /\ Unlink(index)
            /\ mQueueSize' = mQueueSize - 1
            /\ queued' = queued \ {index}
  /\ handed' = handed \cup {temp}
  /\ at' = "idle"
  /\ UNCHANGED <<when, index, temp, stamp, inserted>>

(* Looper::loop deletes the message when it has been handled.              *)
DeleteHandled(m) ==
  /\ at = "idle"
  /\ m \in handed
  /\ handed' = handed \ {m}
  /\ UNCHANGED <<mNext, mBefore, mQueueSize, when, at, index, temp, queued, stamp, inserted>>

-----------------------------------------------------------------------------
(* removeAndDeleteAllMessage.                                              *)
BeginClear ==
  /\ at = "idle"
  /\ mNext[Head] # Tail
  /\ at' = "clear"
  /\ index' = mNext[Head]
  /\ UNCHANGED <<mNext, mBefore, mQueueSize, when, temp, queued, handed, stamp, inserted>>

UnlinkFirst_KeepBefore ==
  /\ mNext' = [mNext EXCEPT ![Head] = mNext[index]]
  /\ mBefore' = mBefore

UnlinkFirst ==
  /\ mNext' = [mNext EXCEPT ![Head] = mNext[index]]
  /\ mBefore' = [mBefore EXCEPT ![mNext[index]] = Head]

ClearNext_Uncounted ==
  /\ at = "clear" /\ index # Tail
  /\ UnlinkFirst
  /\ queued' = queued \ {index}
  /\ index' = mNext'[Head]
  /\ UNCHANGED <<mQueueSize, when, at, temp, handed, stamp, inserted>>

ClearNext ==
  /\ at = "clear" /\ index # Tail
  /\ UnlinkFirst
  /\ queued' = queued \ {index}
  /\ mQueueSize' = mQueueSize - 1
  /\ index' = mNext'[Head]
  /\ UNCHANGED <<when, at, temp, handed, stamp, inserted>>

ClearEnds ==
  /\ at = "clear" /\ index = Tail
  /\ at' = "idle"
  /\ UNCHANGED <<mNext, mBefore, mQueueSize, when, index, temp, queued, handed, stamp, inserted>>

(* The destructor clears the list first; then the sentinels go.            *)
Delete ==
  /\ at = "idle" /\ mNext[Head] = Tail
  /\ at' = "deleted"
  /\ UNCHANGED <<mNext, mBefore, mQueueSize, when, index, temp, queued, handed, stamp, inserted>>

LoopStep ==
  \/ ScanNext \/ ScanEndsDue \/ ScanEndsEarly
  \/ RemoveNext \/ RemoveEnds
  \/ ClearNext \/ ClearEnds

Next ==
  \/ \E m \in Addresses, due \in Times : QueueAtFront(m, due)
  \/ \E m \in Addresses : DeleteHandled(m)
  \/ BeginScan \/ BeginClear \/ LoopStep \/ Delete
  \/ at = "deleted" /\ UNCHANGED vars

(* A thread that holds the mutex goes on.                                  *)
Spec == Init /\ [][Next]_vars
FairSpec == Spec /\ WF_vars(LoopStep)

-----------------------------------------------------------------------------
(* The head is newer than every message and the tail is older.             *)
Rank(c) == IF c = Head THEN inserted + 1 ELSE IF c = Tail THEN 0 ELSE stamp[c]

(* The links hold the queued messages from the newest to the oldest, all   *)
(* of them and nothing else, forwards and back, also in the middle of a    *)
(* clear: no link leads to a message that has been deleted or handed out.  *)
Chained ==
  /\ \A c \in queued \cup {Head} :
       /\ mNext[c] \in queued \cup {Tail}
       /\ mBefore[mNext[c]] = c
       /\ Rank(mNext[c]) < Rank(c)
       /\ \A m \in queued : Rank(m) < Rank(c) => Rank(m) <= Rank(mNext[c])
  /\ \A c \in queued \cup {Tail} :
       mBefore[c] \in queued \cup {Head} /\ mNext[mBefore[c]] = c

(* The two tests for an empty list, mQueueSize == 0 of getNextMessage and  *)
(* mHead->mNext == mTail of a clear, agree, since the size is counted in   *)
(* every operation.                                                        *)
SizeCounts == mQueueSize = Cardinality(queued)

(* The loops read no deleted message and leave no link behind: the scan    *)
(* meets the head, the search finds its message before the tail, and the   *)
(* clear reads the first message that is left.                             *)
LoopsStayInList ==
  /\ at = "scan" => index \in queued \cup {Head} /\ temp \in queued
  /\ at = "remove" => index \in queued /\ temp \in queued
  /\ at = "clear" => index = mNext[Head]
  /\ queued \cap handed = {}

(* What getNextMessage takes is due earliest and, among those due at the   *)
(* same time, was put in first.                                            *)
IsEarliest(m) ==
  \A n \in queued : when[m] <= when[n] /\ (when[m] = when[n] => stamp[m] <= stamp[n])

TakesEarliest ==
  [][at = "remove" => \A m \in queued \ queued' : IsEarliest(m)]_vars

(* Seen from outside, the list is a DelayQueue.  A clear empties it when it *)
(* begins: nothing else is done before it ends.                            *)
Waiting == IF at = "clear" THEN {} ELSE queued
PutBefore == {p \in Waiting \X Waiting : stamp[p[1]] < stamp[p[2]]}

Order == INSTANCE DelayQueue
           WITH due <- [m \in Waiting |-> when[m]], before <- PutBefore

(* The four loops and the links they change do what a DelayQueue does, or  *)
(* nothing that shows: a message goes in once, stays until it is the one   *)
(* due earliest and put in first, comes out once, and a clear lets none    *)
(* stay.                                                                   *)
IsQueue == Order!Spec

(* Every operation comes to its end, although three loops follow links.    *)
LoopsEnd == at # "idle" ~> at \in {"idle", "deleted"}
=============================================================================
