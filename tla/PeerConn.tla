------------------------------ MODULE PeerConn ------------------------------
(***************************************************************************)
(* The peer connection object of peerconn.c with its single audio track    *)
(* (mediatrack.c) and the ICE session it owns (baresip's ice module), as a *)
(* record and the operations on it.  Every operation of peerconn.c that    *)
(* can fail comes as a pair: Op(p, ...) is the object after the call, and  *)
(* OpOk(p, ...) says whether the call returned 0.                          *)
(*                                                                         *)
(* The record stands for the pointer as well: alive = FALSE is the NULL    *)
(* pointer an owner holds before create_pc and after its close handler.    *)
(***************************************************************************)
EXTENDS Naturals

CONSTANT MaxIceRetries      \* 10 in peerconnection_start_ice

ASSUME RetryAssumption == MaxIceRetries \in Nat \ {0}

Stable          == "stable"
HaveLocalOffer  == "have-local-offer"
HaveRemoteOffer == "have-remote-offer"

SignalingState == {Stable, HaveLocalOffer, HaveRemoteOffer}

(***************************************************************************)
(* offerer is the ICE role (controlling) fixed by !got_offer; track says   *)
(* that audio_alloc succeeded; gather_ok, sdp_dec_ok, retry and tmr are    *)
(* peerconn.c's own fields (tmr: ice_tmr is armed); started is the ICE     *)
(* session's flag; ice_conn and dtls_ok are the track's gates and audio    *)
(* says that its audio source runs.                                        *)
(***************************************************************************)
Pc == [alive : BOOLEAN, offerer : BOOLEAN, track : BOOLEAN,
       ss : SignalingState, gather_ok : BOOLEAN, sdp_dec_ok : BOOLEAN,
       retry : 0..MaxIceRetries, tmr : BOOLEAN, started : BOOLEAN,
       ice_conn : BOOLEAN, dtls_ok : BOOLEAN, audio : BOOLEAN]

NoPc == [alive |-> FALSE, offerer |-> FALSE, track |-> FALSE,
         ss |-> Stable, gather_ok |-> FALSE, sdp_dec_ok |-> FALSE,
         retry |-> 0, tmr |-> FALSE, started |-> FALSE,
         ice_conn |-> FALSE, dtls_ok |-> FALSE, audio |-> FALSE]

(* peerconnection_new and peerconnection_add_audio; audio_alloc may fail,  *)
(* which leaves the object in place without a usable track.                *)
NewPc(offerer, audioOk) ==
  [NoPc EXCEPT !.alive = TRUE, !.offerer = offerer, !.track = audioOk]

(* peerconnection_set_remote_descr: the signalling state moves before the  *)
(* description is decoded and stays moved when decoding fails.             *)
SetRemoteDescr(p, type, decodes) ==
  IF ~p.alive \/ p.ss = HaveRemoteOffer THEN p
  ELSE [p EXCEPT !.ss = IF type = "offer" THEN HaveRemoteOffer ELSE Stable,
                 !.sdp_dec_ok = @ \/ decodes]

SetRemoteDescrOk(p, decodes) ==
  p.alive /\ p.ss # HaveRemoteOffer /\ decodes

CreateOfferOk(p) == p.alive /\ p.ss = Stable

CreateOffer(p) ==
  IF CreateOfferOk(p) THEN [p EXCEPT !.ss = HaveLocalOffer] ELSE p

CreateAnswerOk(p) == p.alive /\ p.ss = HaveRemoteOffer

(* Faulty variant: the state is not reset.                                 *)
CreateAnswer_NoReset(p) == p

CreateAnswer(p) ==
  IF CreateAnswerOk(p) THEN [p EXCEPT !.ss = Stable] ELSE p

(* peerconnection_start_ice, down into ice_start: without a decoded remote *)
(* description it re-arms ice_tmr, a bounded number of times; with one it  *)
(* starts the connectivity checks (checks: forming the check list worked). *)
StartIce(p, checks) ==
  CASE ~p.alive -> p
    [] p.alive /\ ~p.sdp_dec_ok ->
         IF p.retry < MaxIceRetries
         THEN [p EXCEPT !.retry = @ + 1, !.tmr = TRUE] ELSE p
    [] p.alive /\ p.sdp_dec_ok -> [p EXCEPT !.started = @ \/ checks]

StartIceOk(p, checks) ==
  /\ p.alive
  /\ IF p.sdp_dec_ok THEN p.started \/ checks ELSE p.retry < MaxIceRetries

(* Faulty variant: the timer's handler does nothing.                       *)
IceTmr_Idle(p, checks) == [p EXCEPT !.tmr = FALSE]

(* ice_tmr expires: the timer is disarmed, then its handler runs.          *)
IceTmr(p, checks) == StartIce([p EXCEPT !.tmr = FALSE], checks)

(* mnat_estab_handler without error, before it calls the owner's handler.  *)
MnatEstab(p) == [p EXCEPT !.gather_ok = TRUE]

(* mnatconn_handler: the track's ICE gate opens.                           *)
MnatConn(p) == [p EXCEPT !.ice_conn = TRUE]

(* mediatrack_start_audio: the source starts only if both gates are open   *)
(* and the remote description offers a format whose source can be opened.  *)
StartAudio(p, source) ==
  [p EXCEPT !.audio = @ \/ (p.ice_conn /\ p.dtls_ok /\ source)]

(* Faulty variant: the established handler is not called.                  *)
Established_NoHandler(p, source) == [p EXCEPT !.dtls_ok = TRUE]

(* menc_event_handler (SECURE): the track's other gate opens, then the     *)
(* owner's established handler runs.                                       *)
Established(p, source) == StartAudio([p EXCEPT !.dtls_ok = TRUE], source)

(* peerconnection_start_media: the same, without an event of the           *)
(* encryption.                                                             *)
StartMedia(p, source) == StartAudio([p EXCEPT !.dtls_ok = TRUE], source)
=============================================================================
