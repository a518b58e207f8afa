------------------------------- MODULE Mailbox -------------------------------
(***************************************************************************)
(* What a Handler bound to an NThread promises to the code that uses it    *)
(* (src/handlerThread/Handler.h): a message is accepted at most once, and  *)
(* in the order its sender sends; handlers run one at a time, a message's  *)
(* not before the message is due, not before one that is due earlier, and  *)
(* not before an older one of the same sender due at the same time; a      *)
(* cleared message is never handled.                                       *)
(*                                                                         *)
(* Nothing is said of lists, pipes, threads or semaphores: HandlerThread   *)
(* is shown to implement this module, and the modules of the classes in    *)
(* src/rtmp use their handlers as it allows.                               *)
(***************************************************************************)
EXTENDS Integers

CONSTANTS Senders, MaxSends

(* A message: its sender and its place among the sender's messages.        *)
Messages == Senders \X (1 .. MaxSends)

VARIABLES
  now,        (* the wall clock                                            *)
  when,       (* when each message is due                                  *)
  accepted,   (* the messages that have been put into the mailbox          *)
  pending,    (* those that are still in it                                *)
  handling    (* the message whose handler runs, as a set of at most one   *)

vars == <<now, when, accepted, pending, handling>>

Older(n, m) == n[1] = m[1] /\ n[2] < m[2]

Init ==
  /\ now \in Nat
  /\ when \in [Messages -> Int]
  /\ accepted = {} /\ pending = {} /\ handling = {}

(* The sender decides when its message is due.                             *)
Stamp(m) ==
  /\ m \notin accepted
  /\ when' = [when EXCEPT ![m] = when'[m]]
  /\ UNCHANGED <<now, accepted, pending, handling>>

Accept(m) ==
  /\ m \notin accepted
  /\ \A n \in accepted : ~Older(m, n)
  /\ accepted' = accepted \cup {m}
  /\ pending' = pending \cup {m}
  /\ UNCHANGED <<now, when, handling>>

Handle(m) ==
  /\ handling = {}
  /\ m \in pending
  /\ when[m] <= now
  /\ \A n \in pending : when[m] <= when[n]
  /\ \A n \in pending : Older(n, m) => when[m] < when[n]
  /\ pending' = pending \ {m}
  /\ handling' = {m}
  /\ UNCHANGED <<now, when, accepted>>

Finish ==
  /\ handling' = {}
  /\ UNCHANGED <<now, when, accepted, pending>>

Clear ==
  /\ pending' = {}
  /\ UNCHANGED <<now, when, accepted, handling>>

(* The wall clock runs and may be set.                                     *)
Clock ==
  /\ now' \in Nat
  /\ UNCHANGED <<when, accepted, pending, handling>>

Next ==
  \/ \E m \in Messages : Stamp(m) \/ Accept(m) \/ Handle(m)
  \/ Finish \/ Clear \/ Clock

Spec == Init /\ [][Next]_vars
=============================================================================
