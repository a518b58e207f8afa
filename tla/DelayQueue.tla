------------------------------ MODULE DelayQueue ------------------------------
(***************************************************************************)
(* What the list of a MessageQueue is to the code around it                *)
(* (src/handlerThread/MessageQueue.cpp, the operations that hold mMutex):  *)
(* messages with a due time each, of which the one due earliest comes out  *)
(* first and, among those due at the same time, the one that was put in    *)
(* first, whoever sent it.                                                 *)
(*                                                                         *)
(* MessageList, where the operations follow links, and HandlerThread,      *)
(* where the list is a sequence that threads share, both implement this    *)
(* module: what one shows of the list holds of the other's.                *)
(***************************************************************************)
EXTENDS Integers

VARIABLES
  due,      (* the due time of each message in the queue, and of no other  *)
  before    (* the pairs of which the first was put in before the second   *)

vars == <<due, before>>

(* The messages in the queue.                                              *)
Waiting == DOMAIN due

Init == Waiting = {} /\ before = {}

(* A message comes with the due time its sender has given it.              *)
Put(m) ==
  /\ m \in Waiting' \ Waiting
  /\ due' = [n \in Waiting \cup {m} |-> IF n = m THEN due'[m] ELSE due[n]]
  /\ before' = before \cup (Waiting \X {m})

IsNext(m) ==
  \A n \in Waiting \ {m} :
     due[m] < due[n] \/ (due[m] = due[n] /\ <<m, n>> \in before)

Take(m) ==
  /\ m \in Waiting
  /\ IsNext(m)
  /\ due' = [n \in Waiting \ {m} |-> due[n]]
  /\ before' = {p \in before : p[1] # m /\ p[2] # m}

Clear == Waiting' = {} /\ before' = {}

Next ==
  \/ \E m \in Waiting' : Put(m)
  \/ \E m \in Waiting : Take(m)
  \/ Clear

Spec == Init /\ [][Next]_vars
=============================================================================
