----------------------------- MODULE RoomClient -----------------------------
(***************************************************************************)
(* The room client as a whole: the signalling of module Janus together     *)
(* with the sessions of baidu_rtc_client_session.c, each of which owns a   *)
(* peer connection (PeerConn).  Joining the room publishes the own feed    *)
(* with an offer; the server's answer is applied to the first session with *)
(* the handle; an offer of the server makes a session that answers it.     *)
(* ICE starts from the gather callback only, and audio from the server's   *)
(* "webrtcup".                                                             *)
(*                                                                         *)
(* One thread runs the HTTP commands, the WebSocket and the timers, so     *)
(* every handler is one step; sessions are appended to a list and never    *)
(* removed from it.                                                        *)
(***************************************************************************)
EXTENDS Janus, PeerConn, Sequences

VARIABLES
  sess,      \* sessl, with the handle and the peer connection of each session
  unstarted, \* history: sessions whose connectivity checks could not start
  early,     \* history: sessions whose media was started before ICE connected
  silent,    \* history: sessions whose audio source could not be opened
  crash      \* a NULL pointer or a freed object was used, and which

sessionVars == <<sess, unstarted, early, silent, crash>>

roomVars == <<vars, sessionVars>>

RoomInit ==
  /\ Init
  /\ sess = <<>>
  /\ unstarted = {} /\ early = {} /\ silent = {}
  /\ crash = "none"

Alive == Running /\ crash = "none"

(* Faulty variant: ICE is started with the connection, not by gathering.   *)
ClientPc_StartIce(offerer, alloc) ==
  IF alloc = "nopc" THEN NoPc ELSE StartIce(NewPc(offerer, alloc = "ok"), FALSE)

(* What client_session_create_pc leaves in sess->pc (see HttpDemo).        *)
ClientPc(offerer, alloc) ==
  IF alloc = "nopc" THEN NoPc ELSE NewPc(offerer, alloc = "ok")

Allocs == {"nopc", "noaudio", "ok"}

(* A description: not JSON, JSON whose SDP does not decode, or good.       *)
Jseps == {"invalid", "undecodable", "ok"}

(* client_session_lookup: session k is the first one with handle h.        *)
First(h, k) == /\ k \in DOMAIN sess /\ sess[k].handle = h
               /\ \A l \in 1..(k - 1) : sess[l].handle # h

(* client_session_create_offer and _create_answer do not look at the       *)
(* result of peerconnection_create_offer and _answer (ok): they write      *)
(* through the buffer that a failed call did not set.                      *)
SendDescription(ok) == crash' = (IF ok THEN "none" ELSE "description")

(* publishOwnFeed: a session, its peer connection, whose allocation may    *)
(* have failed, and its offer.                                             *)
Publish(h, alloc) ==
  LET p == ClientPc(TRUE, alloc)
  IN  /\ sess' = Append(sess, [handle |-> h, pc |-> CreateOffer(p)])
      /\ SendDescription(CreateOfferOk(p))
      /\ UNCHANGED <<unstarted, early, silent>>

RoomJoined(h, i, f, alloc) ==
  /\ Alive
  /\ Joined(h, i, f)
  /\ IF AutoPublish THEN Publish(h, alloc) ELSE UNCHANGED sessionVars

RoomStart(alloc) ==
  /\ Alive
  /\ Start
  /\ Publish(pub, alloc)

(***************************************************************************)
(* Remote descriptions.                                                    *)
(***************************************************************************)
(* client_session_set_remote_description.                                  *)
Described(p, type, jsep) ==
  IF jsep = "invalid" THEN p ELSE SetRemoteDescr(p, type, jsep = "ok")

(* Faulty variant: the last session with the handle gets the answer.       *)
RoomConfigured_Last(i, jsep) ==
  /\ Alive
  /\ Configured(i)
  /\ sess' = [k \in DOMAIN sess |->
                IF /\ fault' = "none" /\ sess[k].handle = pub
                   /\ \A l \in DOMAIN sess : l > k => sess[l].handle # pub
                THEN [sess[k] EXCEPT !.pc = Described(@, "answer", jsep)] ELSE sess[k]]
  /\ UNCHANGED <<unstarted, early, silent, crash>>

(* onPublisherRemoteJsep.                                                  *)
RoomConfigured(i, jsep) ==
  /\ Alive
  /\ Configured(i)
  /\ sess' = [k \in DOMAIN sess |->
                IF fault' = "none" /\ First(pub, k)
                THEN [sess[k] EXCEPT !.pc = Described(@, "answer", jsep)] ELSE sess[k]]
  /\ UNCHANGED <<unstarted, early, silent, crash>>

(* onOffer: a new session, the description, and an answer in any case.     *)
RoomAttached(j, i, alloc, jsep) ==
  LET p == Described(ClientPc(FALSE, alloc), "offer", jsep)
  IN  /\ Alive
      /\ Attached(j, i)
      /\ IF fault' = "none"
         THEN /\ sess' = Append(sess, [handle |-> j.handle, pc |-> CreateAnswer(p)])
              /\ SendDescription(CreateAnswerOk(p))
         ELSE UNCHANGED <<sess, crash>>
      /\ UNCHANGED <<unstarted, early, silent>>

(* The steps of the signalling that no session takes part in.              *)
SignalOnly ==
  /\ Alive
  /\ \/ \E r \in req : Reply(r)
     \/ \E f \in Feeds : NewPublisher(f) \/ Leaving(f) \/ Unpublished(f)
     \/ \E j \in joins : AttachedUnknown(j)
     \/ \E j \in joins, event \in BOOLEAN : JoinRefused(j, event)
     \/ \E kind \in Notices : Notified(kind)
     \/ ListenerSlowLink
  /\ UNCHANGED sessionVars

(***************************************************************************)
(* Callbacks of a session's peer connection.                               *)
(***************************************************************************)
Becomes(k, p) == sess' = [sess EXCEPT ![k].pc = p]

(* start_ice was called on p: checks that cannot start are logged and      *)
(* never tried again.                                                      *)
IceTried(k, p, checks) ==
  unstarted' = IF p.sdp_dec_ok /\ ~p.started /\ ~checks THEN unstarted \cup {k} ELSE unstarted

(* Faulty variant: ICE is started only if there is a description already.  *)
Gathered_NoRetry(k, checks) ==
  LET p == sess[k].pc
  IN  /\ Alive /\ p.alive /\ p.track /\ ~p.gather_ok
      /\ Becomes(k, IF p.sdp_dec_ok THEN StartIce(MnatEstab(p), checks) ELSE MnatEstab(p)) /\ IceTried(k, p, checks)
      /\ UNCHANGED <<vars, early, silent, crash>>

(* peerconnection_gather_handler.                                          *)
Gathered(k, checks) ==
  LET p == sess[k].pc
  IN  /\ Alive /\ p.alive /\ p.track /\ ~p.gather_ok
      /\ Becomes(k, StartIce(MnatEstab(p), checks)) /\ IceTried(k, p, checks)
      /\ UNCHANGED <<vars, early, silent, crash>>

(* peerconnection_close_handler: sess->pc is freed, and an armed ice_tmr   *)
(* of the object would run on freed memory.                                *)
Close(k) ==
  /\ Becomes(k, NoPc)
  /\ crash' = (IF sess[k].pc.tmr THEN "timer" ELSE "none")
  /\ UNCHANGED <<vars, unstarted, early, silent>>

(* Gathering failed: there is no candidate.  The client sets no ICE        *)
(* server, so nothing can fail without a track.                            *)
GatherFailed(k) ==
  /\ Alive /\ sess[k].pc.alive /\ sess[k].pc.track /\ ~sess[k].pc.gather_ok
  /\ Close(k)

(* An audio, encryption or stream error.                                   *)
MediaError(k) ==
  /\ Alive /\ sess[k].pc.alive /\ sess[k].pc.ice_conn
  /\ Close(k)

IceTmrExpires(k, checks) ==
  LET p == sess[k].pc
  IN  /\ Alive /\ p.alive /\ p.tmr
      /\ Becomes(k, IceTmr(p, checks)) /\ IceTried(k, p, checks)
      /\ UNCHANGED <<vars, early, silent, crash>>

(* The outcome of opening the audio source of session k, whose connection  *)
(* p is told that its media is secure.                                     *)
Sourced(k, p, source) ==
  /\ early' = IF p.ice_conn THEN early ELSE early \cup {k}
  /\ silent' = IF p.ice_conn /\ ~source THEN silent \cup {k} ELSE silent

(* ICE connected: the gate opens and the media encryption starts, which is *)
(* secure at once if the remote description carried a key (keyed).  An     *)
(* offerer whose default candidate changed runs the gather handler again.  *)
IceConnected(k, keyed, source, reinvite, checks) ==
  LET p == MnatConn(sess[k].pc)
      q == IF keyed THEN Established(p, source) ELSE p
      again == p.offerer /\ reinvite
  IN  /\ Alive /\ p.alive /\ p.track /\ p.started
      /\ Becomes(k, IF again THEN StartIce(MnatEstab(q), checks) ELSE q)
      /\ IF keyed THEN Sourced(k, p, source) ELSE UNCHANGED <<early, silent>>
      /\ UNCHANGED <<vars, unstarted, crash>>

(* "webrtcup" for the own feed, once its offer has been answered:          *)
(* peerconnection_start_media on the first session's connection, which is  *)
(* NULL once it has been closed.  (For other handles nothing happens.)     *)
WebrtcUp(k, source) ==
  LET p == sess[k].pc
  IN  /\ Alive /\ hmap[0].jh = "freed" /\ First(pub, k)
      /\ Notified("webrtcup")
      /\ IF p.alive
         THEN /\ Becomes(k, StartMedia(p, source))
              /\ Sourced(k, p, source)
              /\ UNCHANGED crash
         ELSE crash' = "media" /\ UNCHANGED <<sess, early, silent>>
      /\ UNCHANGED unstarted

(* The client may stay as it is for ever, and it does so after a crash.    *)
RoomResting == UNCHANGED roomVars

RoomNext ==
  \/ SignalOnly
  \/ \E j \in joins, i \in 0..1, f \in Feeds \cup {0}, alloc \in Allocs :
       RoomJoined(j.handle, i, f, alloc)
  \/ \E alloc \in Allocs : RoomStart(alloc)
  \/ \E i \in 0..1, jsep \in Jseps : RoomConfigured(i, jsep)
  \/ \E j \in joins, i \in 0..1, alloc \in Allocs, jsep \in Jseps :
       RoomAttached(j, i, alloc, jsep)
  \/ \E k \in DOMAIN sess, checks \in BOOLEAN : Gathered(k, checks)
  \/ \E k \in DOMAIN sess : GatherFailed(k) \/ MediaError(k)
  \/ \E k \in DOMAIN sess, checks \in BOOLEAN : IceTmrExpires(k, checks)
  \/ \E k \in DOMAIN sess, keyed, source, reinvite, checks \in BOOLEAN :
       IceConnected(k, keyed, source, reinvite, checks)
  \/ \E k \in DOMAIN sess, source \in BOOLEAN : WebrtcUp(k, source)
  \/ RoomResting

RoomSpec == RoomInit /\ [][RoomNext]_roomVars

(* A session takes an offer, or a transaction after the first three.       *)
Sessions == 1..(MaxOffers + MaxTrans - 3)

(* Gathering ends (the ice module's own timer starts it, and host          *)
(* candidates need no server), and an armed timer expires.                 *)
RoomFairness == \A k \in Sessions :
  /\ WF_roomVars(/\ k \in DOMAIN sess
                 /\ GatherFailed(k) \/ \E checks \in BOOLEAN : Gathered(k, checks))
  /\ WF_roomVars(/\ k \in DOMAIN sess
                 /\ \E checks \in BOOLEAN : IceTmrExpires(k, checks))

RoomFairSpec == RoomSpec /\ RoomFairness
-----------------------------------------------------------------------------
RoomTypeOK ==
  /\ TypeOK
  /\ sess \in Seq([handle : 0..handles, pc : Pc])
  /\ unstarted \cup early \cup silent \subseteq DOMAIN sess
  /\ crash \in {"none", "description", "timer", "media"}

(***************************************************************************)
(* Answers meet their offers although sessions are found by handle, and    *)
(* GET /start may have made several with the same one: of the connections  *)
(* that sent an offer only the first one for the publisher's handle is     *)
(* ever answered.  And no connection stays in have-remote-offer, where it  *)
(* would refuse every further description.                                 *)
(***************************************************************************)
NegotiationClosed ==
  Alive => \A k \in DOMAIN sess :
             /\ sess[k].pc.ss # HaveRemoteOffer
             /\ sess[k].pc.offerer /\ sess[k].pc.ss = Stable /\ sess[k].pc.alive
                  => First(pub, k)

(***************************************************************************)
(* No lost wakeup between gathering and the answer: once a connection has  *)
(* gathered, either its checks run, or ice_tmr is armed to look for the    *)
(* answer again, or the ten retries are used up, or starting failed.       *)
(***************************************************************************)
IceOwed ==
  \A k \in DOMAIN sess :
    LET p == sess[k].pc
    IN  p.alive /\ p.gather_ok =>
          p.started \/ p.tmr \/ p.retry = MaxIceRetries \/ k \in unstarted

(***************************************************************************)
(* The destructor of a peer connection does not cancel ice_tmr; in the     *)
(* room client no connection is freed while it is armed, because it is     *)
(* armed only after gathering and before the checks have started.          *)
(***************************************************************************)
NoTimerOnFreed == crash # "timer"

(***************************************************************************)
(* Audio runs only through both gates, over checks that were started on a  *)
(* decoded description, although "webrtcup" comes from the server and may  *)
(* overtake the client's own ICE.                                          *)
(***************************************************************************)
AudioGated ==
  \A k \in DOMAIN sess :
    LET p == sess[k].pc
    IN  p.audio => p.ice_conn /\ p.dtls_ok /\ p.started /\ p.sdp_dec_ok

(***************************************************************************)
(* The three together, with the types: what the timer and the media gates  *)
(* of every connection of the room client keep, while the server's events, *)
(* ICE, DTLS and the user interleave.                                      *)
(***************************************************************************)
RoomKept == RoomTypeOK /\ IceOwed /\ NoTimerOnFreed /\ AudioGated

(***************************************************************************)
(* A connection whose two gates are open and whose audio does not run has  *)
(* a reason: its source failed, or "webrtcup" came before ICE connected,   *)
(* which nothing makes up for afterwards.                                  *)
(***************************************************************************)
SilenceExplained ==
  \A k \in DOMAIN sess :
    LET p == sess[k].pc
    IN  p.ice_conn /\ p.dtls_ok /\ ~p.audio => k \in early \cup silent

(***************************************************************************)
(* An answer that arrives before the retries of peerconnection_start_ice   *)
(* are used up gets the checks started, unless starting them fails or the  *)
(* connection closes.                                                      *)
(***************************************************************************)
InTime(k) == /\ Alive /\ k \in DOMAIN sess
             /\ sess[k].pc.alive /\ sess[k].pc.track /\ sess[k].pc.sdp_dec_ok
             /\ sess[k].pc.gather_ok => sess[k].pc.tmr

AnswerStartsIce ==
  \A k \in Sessions :
    InTime(k) ~> \/ ~Alive \/ k \in unstarted
                 \/ k \in DOMAIN sess /\ (sess[k].pc.started \/ ~sess[k].pc.alive)
-----------------------------------------------------------------------------
(***************************************************************************)
(* The inductive invariant.  ClientPcOk is what holds of the peer          *)
(* connection p of a session at any time; un, ea and si say whether the    *)
(* session is in unstarted, early and silent.  ice_tmr is armed only       *)
(* between the gather callback and the start of the checks.                *)
(***************************************************************************)
ClientPcOk(p, un, ea, si) ==
  /\ ~p.alive => p = NoPc
  /\ p.ss # HaveRemoteOffer
  /\ p.gather_ok => p.started \/ p.tmr \/ p.retry = MaxIceRetries \/ un
  /\ p.tmr => p.gather_ok /\ ~p.started
  /\ p.audio => p.ice_conn /\ p.dtls_ok
  /\ p.ice_conn => p.started
  /\ p.started => p.sdp_dec_ok
  /\ p.dtls_ok /\ ~p.audio => ea \/ (p.ice_conn /\ si)

(* The session an answer was applied to stays the first of its handle,     *)
(* because sessions are only appended and mPulisherHandleId is set once.   *)
AnsweredFirst ==
  \A k \in DOMAIN sess :
    sess[k].pc.offerer /\ sess[k].pc.ss = Stable /\ sess[k].pc.alive
      => pub # 0 /\ First(pub, k)

(* The signalling and the sessions keep what they rely on of each other:   *)
(* however ICE, DTLS, the server and the user interleave, the connection   *)
(* of every session is as baidu_rtc_client_session.c left it.              *)
RoomInv ==
  /\ JanusInv /\ RoomTypeOK
  /\ \A k \in DOMAIN sess :
       ClientPcOk(sess[k].pc, k \in unstarted, k \in early, k \in silent)
  /\ AnsweredFirst
  /\ NoTimerOnFreed
=============================================================================
