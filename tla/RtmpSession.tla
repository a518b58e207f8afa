----------------------------- MODULE RtmpSession -----------------------------
(***************************************************************************)
(* The RTMP session of a PushRtmp, call by call: initRtmp                  *)
(* (src/rtmp/PushRtmp.cpp) with MppEncoder::init and getSpsInfo            *)
(* (src/rtmp/MppEncoder.cpp), the end of a session, and the destructors.   *)
(*                                                                         *)
(* Every attempt overwrites the pointers of the attempts before it.  A     *)
(* resource is named after its kind and the attempt that created it, a     *)
(* pointer holds the number of that attempt, NULL, or what its memory held *)
(* before: no constructor sets it.                                         *)
(***************************************************************************)
EXTENDS Integers

CONSTANT MaxAttempts   (* bound: how often initRtmp is called              *)

ASSUME MaxAttemptsIsNumber == MaxAttempts \in Nat

NULL == 0
Garbage == -1

(* buf_grp, frm_buf, pkt_buf, mMppCtx, mMppEncCfg of the encoder           *)
EncoderKinds == {"group", "frame", "packet", "context", "config"}

(* m_octx, m_vc, m_octx->pb, and the header written into m_octx            *)
FormatKinds == {"muxer", "codec", "io", "header"}
Kinds == EncoderKinds \cup FormatKinds

(* The calls of initRtmp in their order, each before the one it names.     *)
Following ==
  [group |-> "frame", frame |-> "packet", packet |-> "context", context |-> "mpp_init",
   mpp_init |-> "config", config |-> "setup", setup |-> "muxer", muxer |-> "stream",
   stream |-> "sps", sps |-> "io", io |-> "header", header |-> "idle"]

EncoderCalls == EncoderKinds \cup {"mpp_init", "setup"}
FormatCalls == {"muxer", "stream", "sps", "io", "header"}

VARIABLES
  link,     (* is the RTMP server reachable?                               *)
  up,       (* has it been so since the last avio_open?                    *)
  status,   (* m_rtmpStatus                                                *)
  at,       (* the next call of initRtmp, or "idle", "deleted" or "dead"   *)
  attempt,  (* calls of initRtmp so far                                    *)
  ptr,      (* the pointers of the PushRtmp and its encoder                *)
  api,      (* has mpp_create set mMppApi?                                 *)
  live,     (* the resources that exist                                    *)
  misused,  (* pointers released without a resource behind them            *)
  good,     (* attempts in which MppEncoder::init returned 0               *)
  shown     (* the session as its user met it when initRtmp last returned  *)

vars == <<link, up, status, at, attempt, ptr, api, live, misused, good, shown>>

TypeOK ==
  /\ link \in BOOLEAN /\ up \in BOOLEAN /\ status \in BOOLEAN /\ api \in BOOLEAN
  /\ at \in EncoderCalls \cup FormatCalls \cup {"idle", "cleanup", "deleted", "dead"}
  /\ attempt \in 0 .. MaxAttempts
  /\ ptr \in [Kinds -> {Garbage} \cup 0 .. attempt]
  /\ live \subseteq Kinds \X (1 .. attempt)
  /\ misused \subseteq Kinds \X ({Garbage} \cup 1 .. attempt)
  /\ good \subseteq 1 .. attempt

IsLive(k) == <<k, ptr[k]>> \in live

(* What Session says of the state initRtmp leaves behind.                  *)
View ==
  [status  |-> status,
   encoder |-> IF attempt = 0 THEN "none" ELSE IF IsLive("context") THEN "ready" ELSE "broken",
   muxer   |-> IF ~IsLive("muxer") THEN "none" ELSE IF IsLive("header") THEN "headed" ELSE "allocated",
   io      |-> IF ~IsLive("io") THEN "closed" ELSE IF up THEN "open" ELSE "broken",
   codec   |-> IF ptr["codec"] <= 0 THEN "none" ELSE IF IsLive("codec") THEN "live" ELSE "freed",
   crashed |-> at = "dead"]

Init ==
  /\ link \in BOOLEAN /\ up = FALSE
  /\ status = FALSE
  /\ at = "idle" /\ attempt = 0
  /\ ptr \in [Kinds -> {Garbage, NULL}] /\ \A k \in FormatKinds : ptr[k] = NULL
  /\ api = FALSE
  /\ live = {} /\ misused = {} /\ good = {}
  /\ shown = View

-----------------------------------------------------------------------------
(* initRtmp, in the constructor or before a frame.                         *)
BeginInit ==
  /\ at = "idle" /\ ~status /\ attempt < MaxAttempts
  /\ attempt' = attempt + 1
  /\ at' = "group"
  /\ UNCHANGED <<link, up, status, ptr, api, live, misused, good, shown>>

(* A call that creates something of the encoder succeeds ...               *)
Creates(k) ==
  /\ at = k
  /\ ptr' = [ptr EXCEPT ![k] = attempt]
  /\ live' = live \cup {<<k, attempt>>}
  /\ at' = Following[k]
  /\ api' = (api \/ k = "context")
  /\ UNCHANGED <<link, up, status, attempt, misused, good, shown>>

(* ... as does mpp_init, or mpp_enc_cfg_setup, the last one ...            *)
Configures(call) ==
  /\ at = call
  /\ at' = Following[call]
  /\ good' = IF call = "setup" THEN good \cup {attempt} ELSE good
  /\ UNCHANGED <<link, up, status, attempt, ptr, api, live, misused, shown>>

(* ... or one of them fails, which may set its pointers to NULL.           *)
EncoderFails_NoCleanup(call) ==
  /\ at = call
  /\ at' = "muxer"
  /\ UNCHANGED <<link, up, status, attempt, ptr, api, live, misused, good, shown>>

EncoderFails(call) ==
  /\ at = call
  /\ ptr' \in {ptr} \cup {[ptr EXCEPT ![k] = NULL] : k \in EncoderKinds \cap {call}}
  /\ api' \in {api} \cup {FALSE : k \in {"context"} \cap {call}}
  /\ at' = "cleanup"
  /\ UNCHANGED <<link, up, status, attempt, live, misused, good, shown>>

(* Releasing what the pointers point to; NULL is left out.                 *)
Pointed(kinds) == {<<k, ptr[k]>> : k \in {j \in kinds : ptr[j] # NULL}}

Release(kinds) ==
  /\ live' = live \ Pointed(kinds)
  /\ misused' = misused \cup (Pointed(kinds) \ live)

(* MPP_INIT_OUT: the context is destroyed, and nothing else; initRtmp goes *)
(* on whatever init has returned.                                          *)
Cleanup_KeepPointer ==
  /\ at = "cleanup"
  /\ Release({"context"})
  /\ at' = "muxer"
  /\ UNCHANGED <<link, up, status, attempt, ptr, api, good, shown>>

Cleanup ==
  /\ at = "cleanup"
  /\ Release({"context"})
  /\ ptr' = [ptr EXCEPT !["context"] = NULL]
  /\ at' = "muxer"
  /\ UNCHANGED <<link, up, status, attempt, api, good, shown>>

(* mpp_destroy of a pointer that nothing has set, or getSpsInfo with such  *)
(* a packet buffer or without an API.                                      *)
Dies ==
  /\ \/ at = "cleanup" /\ ~(Pointed({"context"}) \subseteq live)
     \/ at = "sps" /\ (~api \/ ptr["packet"] = Garbage)
  /\ at' = "dead"
  /\ shown' = [shown EXCEPT !.status = FALSE, !.encoder = "broken", !.crashed = TRUE]
  /\ UNCHANGED <<link, up, status, attempt, ptr, api, live, misused, good>>

(* initRtmp returns, before its last call with false.                      *)
Returns == at' = "idle" /\ shown' = View'

(* A new m_octx has neither an I/O context nor a header.                   *)
WithMuxer(n) ==
  [k \in Kinds |-> IF k = "muxer" THEN n ELSE IF k \in {"io", "header"} THEN NULL ELSE ptr[k]]

AllocatesMuxer ==
  /\ at = "muxer"
  /\ ptr' = WithMuxer(attempt)
  /\ live' = live \cup {<<"muxer", attempt>>}
  /\ at' = "stream"
  /\ UNCHANGED <<link, up, status, attempt, api, misused, good, shown>>

NoMuxer ==
  /\ at = "muxer"
  /\ ptr' = WithMuxer(NULL)
  /\ UNCHANGED <<link, up, status, attempt, api, live, misused, good>>
  /\ Returns

(* The stream comes with a codec context, which m_vc is to point to.       *)
AddsStream ==
  /\ at = "stream"
  /\ live' = live \cup {<<"codec", attempt>>}
  /\ at' = "sps"
  /\ UNCHANGED <<link, up, status, attempt, ptr, api, misused, good, shown>>

(* getSpsInfo asks the encoder through its context; without one it fails.  *)
HasSps_Unchecked == TRUE
HasSps == ptr["context"] # NULL

GetsSps ==
  /\ at = "sps"
  /\ HasSps
  /\ ptr' = [ptr EXCEPT !["codec"] = attempt]
  /\ at' = "io"
  /\ UNCHANGED <<link, up, status, attempt, api, live, misused, good, shown>>

OpensIo ==
  /\ at = "io"
  /\ link
  /\ up' = TRUE
  /\ ptr' = [ptr EXCEPT !["io"] = attempt]
  /\ live' = live \cup {<<"io", attempt>>}
  /\ at' = "header"
  /\ UNCHANGED <<link, status, attempt, api, misused, good, shown>>

WritesHeader ==
  /\ at = "header"
  /\ link /\ up
  /\ ptr' = [ptr EXCEPT !["header"] = attempt]
  /\ live' = live \cup {<<"header", attempt>>}
  /\ status' = TRUE
  /\ UNCHANGED <<link, up, attempt, api, misused, good>>
  /\ Returns

FormatFails(call) ==
  /\ at = call
  /\ UNCHANGED <<link, up, status, attempt, ptr, api, live, misused, good>>
  /\ Returns

-----------------------------------------------------------------------------
(* The session is given up: its connection is closed and its codec context *)
(* freed, and both pointers stay.                                          *)
GiveUp_KeepStatus ==
  /\ at = "idle" /\ status
  /\ Release({"io", "codec"})
  /\ UNCHANGED <<link, up, status, attempt, ptr, api, good>>
  /\ Returns

GiveUp ==
  /\ at = "idle" /\ status
  /\ Release({"io", "codec"})
  /\ status' = FALSE
  /\ UNCHANGED <<link, up, attempt, ptr, api, good>>
  /\ Returns

LinkChanges ==
  /\ at # "dead"
  /\ link' = ~link
  /\ up' = FALSE
  /\ shown' = [shown EXCEPT !.io = IF @ = "open" THEN "broken" ELSE @]
  /\ UNCHANGED <<status, at, attempt, ptr, api, live, misused, good>>

(* The destructor of PushRtmp, when its thread is gone, deletes the        *)
(* encoder and leaves m_octx and m_vc alone.                               *)
Delete ==
  /\ at = "idle" /\ attempt > 0
  /\ Release(EncoderKinds)
  /\ ptr' = [k \in Kinds |-> IF k \in EncoderKinds THEN NULL ELSE ptr[k]]
  /\ at' = "deleted"
  /\ UNCHANGED <<link, up, status, attempt, api, good, shown>>

EncoderStep ==
  \/ \E k \in EncoderKinds : Creates(k)
  \/ \E call \in {"mpp_init", "setup"} : Configures(call)
  \/ \E call \in EncoderCalls : EncoderFails(call)
  \/ Cleanup \/ Dies

FormatStep ==
  \/ AllocatesMuxer \/ NoMuxer \/ AddsStream \/ GetsSps \/ OpensIo \/ WritesHeader
  \/ \E call \in FormatCalls \ {"muxer"} : FormatFails(call)

Next ==
  \/ BeginInit \/ EncoderStep \/ FormatStep
  \/ GiveUp \/ LinkChanges \/ Delete
  \/ at = "dead" /\ UNCHANGED vars

Spec == Init /\ [][Next]_vars

-----------------------------------------------------------------------------
(* Nothing is released twice, although a failed init destroys a context    *)
(* that may be an earlier attempt's, sessions are given up with pointers   *)
(* left behind, and the destructor releases what it finds.  A pointer that *)
(* nothing has set is released only if no init has ever succeeded.         *)
ReleasesOwn ==
  [][\A m \in misused' \ misused : m[2] = Garbage /\ good = {}]_vars

(* A session that is in use is all of one attempt and all alive: no        *)
(* pointer of it is left from an attempt that failed or was given up.      *)
SessionFromOneAttempt ==
  at = "idle" /\ status => \A k \in Kinds : ptr[k] = attempt /\ IsLive(k)

(* What is cleaned up, of all that attempts make: the context of an init   *)
(* that failed, before initRtmp returns; the connection and the codec      *)
(* context of a session that is given up, so that of all sessions that     *)
(* were ever in use the present one alone has them; and what the last      *)
(* attempt made for the encoder, by the destructor.  Nothing else is: a    *)
(* muxer and its header stay for good, as do the codec context and the     *)
(* connection of an attempt that failed after making them, the encoders    *)
(* that a later attempt replaces, and, the clean-up in ~PushRtmp being     *)
(* commented out, the last session's codec context and connection too.     *)
Idle == at \in {"idle", "deleted"}
ContextsFreed == Idle => \A n \in 1 .. attempt : <<"context", n>> \in live => n \in good
SessionsClosed ==
  \A n \in 1 .. attempt, k \in {"io", "codec"} :
    <<"header", n>> \in live /\ <<k, n>> \in live => n = attempt /\ status
EncoderDeleted == at = "deleted" => \A k \in EncoderKinds : <<k, attempt>> \notin live
CleansUp == ContextsFreed /\ SessionsClosed /\ EncoderDeleted

(* initRtmp and the end of a session implement the session that PushRtmp   *)
(* is modelled with.                                                       *)
Abstract == INSTANCE Session
  WITH status <- shown.status, encoder <- shown.encoder, muxer <- shown.muxer,
       io <- shown.io, codec <- shown.codec, crashed <- shown.crashed

IsSession == Abstract!SessionSpec
=============================================================================
