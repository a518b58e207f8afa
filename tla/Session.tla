------------------------------- MODULE Session -------------------------------
(***************************************************************************)
(* The RTMP session of a PushRtmp as its user sees it: initRtmp            *)
(* (src/rtmp/PushRtmp.cpp) returns, and what it leaves behind is the       *)
(* session the next frame meets.  PushRtmp uses it in this form;           *)
(* RtmpSession takes initRtmp apart and is shown to implement it.          *)
(***************************************************************************)
EXTENDS Integers

VARIABLES
  link,     (* is the RTMP server reachable?                               *)
  status,   (* m_rtmpStatus                                                *)
  encoder,  (* mMppEncoder: "none", "ready" or "broken"                    *)
  muxer,    (* m_octx: "none", "allocated" or "headed"                     *)
  io,       (* m_octx->pb: "closed", "open", or "broken" by the server     *)
  codec,    (* m_vc: "none", "live" or "freed"                             *)
  crashed   (* the process has died in an undefined call                   *)

sessionVars == <<status, encoder, muxer, io, codec, crashed>>

SessionTypeOK ==
  /\ link \in BOOLEAN
  /\ status \in BOOLEAN
  /\ encoder \in {"none", "ready", "broken"}
  /\ muxer \in {"none", "allocated", "headed"}
  /\ io \in {"closed", "open", "broken"}
  /\ codec \in {"none", "live", "freed"}
  /\ crashed \in BOOLEAN

SessionInit ==
  /\ link \in BOOLEAN
  /\ status = FALSE /\ encoder = "none" /\ muxer = "none"
  /\ io = "closed" /\ codec = "none" /\ crashed = FALSE

(* MppEncoder::init and getSpsInfo.  A failed init frees the context only; *)
(* its result is ignored, and asking a broken encoder for its header       *)
(* either fails or dies.                                                   *)
EncoderInits(ready) == encoder' = IF ready THEN "ready" ELSE "broken"

(* initRtmp up to the point where it returns.  What a failed attempt has   *)
(* set up stays, and what an earlier session held in m_octx is dropped.    *)
InitFails ==
  /\ status' = FALSE
  /\ \E ready \in BOOLEAN : EncoderInits(ready)
  /\ \/ (* avformat_alloc_output_context2 *)
        muxer' = "none" /\ io' = "closed" /\ codec' = codec
     \/ (* avformat_new_stream or getSpsInfo *)
        muxer' = "allocated" /\ io' = "closed" /\ codec' = codec
     \/ (* avio_open *)
        encoder' = "ready" /\ muxer' = "allocated" /\ io' = "closed" /\ codec' = "live"
     \/ (* avformat_write_header *)
        /\ encoder' = "ready" /\ muxer' = "allocated" /\ codec' = "live"
        /\ io' = "broken" \/ (io' = "open" /\ link)
  /\ UNCHANGED crashed

InitSucceeds ==
  /\ link
  /\ status' = TRUE
  /\ EncoderInits(TRUE)
  /\ muxer' = "headed" /\ io' = "open" /\ codec' = "live"
  /\ UNCHANGED crashed

InitDies ==
  /\ status' = FALSE
  /\ EncoderInits(FALSE)
  /\ crashed' = TRUE
  /\ UNCHANGED <<muxer, io, codec>>

(* The end of a session after too many failed writes.                      *)
CloseSession ==
  /\ io' = "closed" /\ codec' = "freed"
  /\ status' = FALSE
  /\ UNCHANGED <<encoder, muxer, crashed>>

(* The server goes, and with it the connection, or comes back.             *)
LinkFlips ==
  /\ link' = ~link
  /\ io' = IF io = "open" THEN "broken" ELSE io
  /\ UNCHANGED <<status, encoder, muxer, codec, crashed>>

SessionIsUp ==
  encoder = "ready" /\ muxer = "headed" /\ io # "closed" /\ codec = "live"

SessionNext ==
  \/ ~crashed /\ ~status /\ (InitFails \/ InitSucceeds \/ InitDies) /\ UNCHANGED link
  \/ ~crashed /\ status /\ CloseSession /\ UNCHANGED link
  \/ ~crashed /\ LinkFlips

SessionSpec == SessionInit /\ [][SessionNext]_<<link, sessionVars>>
=============================================================================
