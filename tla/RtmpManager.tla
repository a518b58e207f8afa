------------------------------ MODULE RtmpManager ------------------------------
(***************************************************************************)
(* The manager (src/rtmp/RtmpManager.cpp): it looks through /dev, starts a *)
(* CameraCapture for every second video node, and looks again two seconds  *)
(* later until two cameras run.  A capture that has opened its camera and  *)
(* gets no picture ends the process.                                       *)
(*                                                                         *)
(* The manager runs on a thread of its own; of its mailbox (see Mailbox)   *)
(* the number of START and CHECK messages matters here, both are handled   *)
(* alike.  Each capture runs on a thread too (see CameraCapture); here it  *)
(* opens its camera at some time and may fail later.                       *)
(***************************************************************************)
EXTENDS Integers, FiniteSets

CONSTANTS
  Nodes,          (* the numbers N of the /dev/videoN there may be         *)
  Readings        (* what freshAviableCamera may read from the name of a node *)

ASSUME NodesAreNumbers == Nodes \subseteq Nat /\ IsFiniteSet(Nodes)
ASSUME ReadingsAreNumbers == Readings \in [Nodes -> SUBSET Nat]

VARIABLES
  devices,    (* the nodes in /dev                                         *)
  started,    (* has main called startRtmp?                                *)
  mail,       (* messages in the manager's mailbox                         *)
  scan,       (* where freshAviableCamera is, "none" outside of it         *)
  due,        (* nodes in /dev since opendir that readdir has to return yet *)
  passing,    (* nodes that came or went since: it may return them or not  *)
  found,      (* indexVector: what was read, by the node it was read from  *)
  chosen,     (* indices for which createCamera has still to be called     *)
  cameras,    (* mCamerasMap: device index to mCameraCount; all in status RUN *)
  workCount,  (* mCurrentWorkCameraCount                                   *)
  captures,   (* the CameraCaptures: device index, number of the stream, opened *)
  failed,     (* has opendir("/dev") failed?  (read by properties only)    *)
  halved,     (* has a scan met half a camera?  (likewise)                 *)
  exited      (* exit(0) has been called                                   *)

dirVars == <<due, passing, found>>
mapVars == <<cameras, workCount, captures>>
vars == <<devices, started, mail, scan, dirVars, chosen, mapVars, failed, halved, exited>>

Indices == UNION {Readings[n] : n \in Nodes}

TypeOK ==
  /\ devices \subseteq Nodes
  /\ started \in BOOLEAN
  /\ mail \in Nat
  /\ scan \in {"none", "reading", "creating"}
  /\ due \subseteq Nodes /\ passing \subseteq Nodes
  /\ found \in [DOMAIN found -> Indices] /\ DOMAIN found \subseteq Nodes
  /\ chosen \subseteq Indices
  /\ cameras \in [DOMAIN cameras -> Nat] /\ DOMAIN cameras \subseteq Indices
  /\ workCount \in Nat
  /\ captures \subseteq [index : Indices, stream : Nat, open : BOOLEAN]
  /\ failed \in BOOLEAN /\ halved \in BOOLEAN /\ exited \in BOOLEAN

Nothing == [i \in {} |-> 0]

Init ==
  /\ devices \in SUBSET Nodes
  /\ started = FALSE /\ mail = 0
  /\ scan = "none" /\ due = {} /\ passing = {} /\ found = Nothing /\ chosen = {}
  /\ cameras = Nothing /\ workCount = 0 /\ captures = {}
  /\ failed = FALSE /\ halved = FALSE /\ exited = FALSE

-----------------------------------------------------------------------------
StartRtmp ==
  /\ ~started
  /\ started' = TRUE
  /\ mail' = mail + 1
  /\ UNCHANGED <<devices, scan, dirVars, chosen, mapVars, failed, halved, exited>>

(* opendir                                                                 *)
BeginScan ==
  /\ scan = "none" /\ mail > 0
  /\ mail' = mail - 1
  /\ scan' = "reading"
  /\ due' = devices /\ passing' = {}
  /\ UNCHANGED <<devices, started, found, chosen, mapVars, failed, halved, exited>>

(* freshAviableCamera returns and nothing is posted.                       *)
ScanFails ==
  /\ scan = "none" /\ mail > 0
  /\ mail' = mail - 1
  /\ failed' = TRUE
  /\ UNCHANGED <<devices, started, scan, dirVars, chosen, mapVars, halved, exited>>

(* readdir returns a node and its number is read.                          *)
ReadEntry(n) ==
  /\ scan = "reading" /\ n \in due \cup passing
  /\ due' = due \ {n} /\ passing' = passing \ {n}
  /\ \E i \in Readings[n] :
       found' = [k \in DOMAIN found \cup {n} |-> IF k = n THEN i ELSE found[k]]
  /\ UNCHANGED <<devices, started, mail, scan, chosen, mapVars, failed, halved, exited>>

(* Every second entry of the sorted vector of readings, beginning with the *)
(* first: those that an even number of entries precede.  Entries that read *)
(* the same are told apart by their node.                                  *)
Precedes(read, m, n) == read[m] < read[n] \/ (read[m] = read[n] /\ m < n)
Before(read, n) == {m \in DOMAIN read : Precedes(read, m, n)}

EverySecond_FromSecond(read) ==
  {read[n] : n \in {k \in DOMAIN read : Cardinality(Before(read, k)) % 2 = 1}}

EverySecond(read) ==
  {read[n] : n \in {k \in DOMAIN read : Cardinality(Before(read, k)) % 2 = 0}}

(* A camera has two nodes, an even one for its pictures and the next one.  *)
Partner(i) == IF i % 2 = 0 THEN i + 1 ELSE i - 1

WholeCameras(read) ==
  /\ \A m, n \in DOMAIN read : read[m] = read[n] => m = n
  /\ \A m \in DOMAIN read : \E n \in DOMAIN read : read[n] = Partner(read[m])

(* readdir has nothing more to return; closedir, sort and the choice.      *)
EndOfDir ==
  /\ scan = "reading" /\ due = {}
  /\ scan' = "creating"
  /\ chosen' = EverySecond(found)
  /\ halved' = (halved \/ ~WholeCameras(found))
  /\ passing' = {} /\ found' = Nothing
  /\ UNCHANGED <<devices, started, mail, due, mapVars, failed, exited>>

IsNext(i) == i \in chosen /\ \A j \in chosen : i <= j

IsKnown_Never(i) == FALSE
IsKnown(i) == i \in DOMAIN cameras

NextStream_Unchanged == workCount
NextStream == workCount + 1

(* createCamera: no entry of the map has a status other than RUN, since    *)
(* only deleteErrorCamera, which nothing calls, sets one.                  *)
CreateCamera(i) ==
  /\ scan = "creating" /\ IsNext(i)
  /\ chosen' = chosen \ {i}
  /\ IF IsKnown(i)
       THEN UNCHANGED mapVars
       ELSE /\ workCount' = NextStream
            /\ cameras' = [j \in DOMAIN cameras \cup {i} |-> IF j = i THEN NextStream ELSE cameras[j]]
            /\ captures' = captures \cup {[index |-> i, stream |-> NextStream, open |-> FALSE]}
  /\ UNCHANGED <<devices, started, mail, scan, dirVars, failed, halved, exited>>

(* isAllCameraWork                                                         *)
AllWork_AboveTwo == Cardinality(DOMAIN cameras) > 2
AllWork == Cardinality(DOMAIN cameras) >= 2

NeedsCheck_WhenNoCamera == cameras = Nothing
NeedsCheck_Always == TRUE
NeedsCheck == ~AllWork

(* The end of freshAviableCamera.                                          *)
EndScan ==
  /\ scan = "creating" /\ chosen = {}
  /\ scan' = "none"
  /\ mail' = IF NeedsCheck THEN mail + 1 ELSE mail
  /\ UNCHANGED <<devices, started, dirVars, chosen, mapVars, failed, halved, exited>>

-----------------------------------------------------------------------------
(* The capture thread of a camera.                                         *)
Open(c) ==
  /\ c \in captures /\ ~c.open
  /\ c.index \in devices
  /\ captures' = (captures \ {c}) \cup {[c EXCEPT !.open = TRUE]}
  /\ UNCHANGED <<devices, started, mail, scan, dirVars, chosen, cameras, workCount, failed, halved, exited>>

(* grab or retrieve fails: errorCamera.                                    *)
ErrorCamera(c) ==
  /\ c \in captures /\ c.open
  /\ exited' = TRUE
  /\ UNCHANGED <<devices, started, mail, scan, dirVars, chosen, mapVars, failed, halved>>

(* The kernel adds or removes one node, also while readdir goes through    *)
(* them: it may then be returned or not, but once if it was not before.    *)
DevicesChange(n) ==
  /\ devices' = IF n \in devices THEN devices \ {n} ELSE devices \cup {n}
  /\ due' = due \ {n}
  /\ passing' = IF scan = "reading" THEN passing \cup ({n} \ DOMAIN found) ELSE passing
  /\ UNCHANGED <<started, mail, scan, found, chosen, mapVars, failed, halved, exited>>

ReadStep == BeginScan \/ ScanFails \/ (\E n \in Nodes : ReadEntry(n)) \/ EndOfDir
ManagerStep == ReadStep \/ (\E i \in Indices : CreateCamera(i)) \/ EndScan

Next ==
  \/ ~exited /\ (StartRtmp \/ ManagerStep \/ \E n \in Nodes : DevicesChange(n))
  \/ ~exited /\ \E c \in captures : Open(c) \/ ErrorCamera(c)
  \/ exited /\ UNCHANGED vars

Spec == Init /\ [][Next]_vars

(* main starts the manager; the loop of the manager's thread handles what  *)
(* is in its mailbox; a capture tries every two seconds to open its camera.*)
Tries(i) == ~exited /\ \E c \in captures : c.index = i /\ Open(c)
Fairness ==
  /\ WF_vars(~exited /\ StartRtmp)
  /\ WF_vars(~exited /\ ManagerStep)
  /\ \A i \in Indices : WF_vars(Tries(i))

FairSpec == Spec /\ Fairness

-----------------------------------------------------------------------------
(* The manager looks for cameras until two run and no longer: between two  *)
(* scans exactly one message is on its way while there are too few, and    *)
(* none afterwards.  The first scan that cannot open /dev is the last one. *)
ChecksUntilAllWork ==
  started /\ scan = "none" => mail = IF AllWork \/ failed THEN 0 ELSE 1

(* No two captures write to the same URL, whatever order their cameras are *)
(* found in and however often one is found.                                *)
StreamsDistinct == \A c, d \in captures : c.stream = d.stream => c = d

(* No video node is opened by two captures, although every scan finds the  *)
(* cameras again that run already.                                         *)
OneCapturePerNode == \A c, d \in captures : c.index = d.index => c = d

(* Which nodes are captured rests on their positions among those of one    *)
(* scan.  A camera's second node comes to be captured only after a scan    *)
(* has met a camera by halves: while it was plugged in or out, when a name *)
(* was misread, or when readdir passed over what came or went meanwhile.   *)
(* Scans of whole cameras choose first nodes, whichever they are.          *)
FirstNodesOnly == ~halved => \A c \in captures : c.index % 2 = 0

(* mMaxCameraCount limits nothing.  What does is that a scan begins with   *)
(* one camera in the map at most and adds every second node: however nodes *)
(* come and go between scans, there are no more captures than these.       *)
CapturesLimited == Cardinality(captures) <= 1 + (Cardinality(Nodes) + 1) \div 2

(* When three nodes, enough for two cameras, are in /dev for good, two     *)
(* cameras are in the map some day, or a camera that broke down has ended  *)
(* the process, or /dev was not opened once.  Other nodes may go on coming *)
(* and going.                                                              *)
Stay(present) == Cardinality(present) >= 3 /\ <>[](present \subseteq devices)
FindsCameras ==
  (\E present \in SUBSET Nodes : Stay(present)) => <>(AllWork \/ failed \/ exited)

(* What isAllCameraWork answers: when the manager has stopped looking, two *)
(* cameras come to work, or one of them ends the process, when the same    *)
(* nodes, enough for two cameras, stay in /dev from some time on.          *)
Working == {c \in captures : c.open}
StopsWhenAllWork ==
  (\E present \in SUBSET Nodes : Cardinality(present) >= 3 /\ <>[](devices = present))
    => [](started /\ scan = "none" /\ ~failed /\ mail = 0
            => <>(Cardinality(Working) >= 2 \/ exited))
=============================================================================
