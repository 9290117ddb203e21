------------------------------ MODULE HttpDemo ------------------------------
(***************************************************************************)
(* The demo HTTP server of barertc.c: browsers open connections, create    *)
(* sessions with POST /connect, exchange descriptions with POST /sdp and   *)
(* end sessions with POST /disconnect.  A session owns at most one peer    *)
(* connection (PeerConn), whose ICE and DTLS callbacks run between         *)
(* requests on the same event loop, so every handler below is one step.    *)
(*                                                                         *)
(* The reply to POST /sdp is not sent by its handler: the connection is    *)
(* parked in the one global conn_pending, and the gather callback of       *)
(* whichever session finishes gathering writes its description there.      *)
(***************************************************************************)
EXTENDS PeerConn, FiniteSets

CONSTANTS Conns,        \* HTTP connection objects
          MaxSessions,  \* bound: sessions created in one run of the program
          MaxLive,      \* bound: sessions alive at the same time
          IdSpace,      \* values of the uint32_t session_counter (2^32)
          None          \* no connection, no session

ASSUME SessionAssumption == /\ MaxSessions \in Nat /\ MaxLive \in Nat
                            /\ IdSpace \in Nat \ {0}
ASSUME NoneAssumption == None \notin Conns /\ None \notin Nat

(* Session objects in the order of their creation, hence of the list sessl.*)
Sess == 1..MaxSessions

VARIABLES
  up,        \* the server runs (between barertcdemo_init and _close)
  made,      \* number of sessions created; session_counter is made % IdSpace
  sessl,     \* the sessions in the list
  pc,        \* sess->pc of every session
  open,      \* conn->tc is set
  refs,      \* reference count of every connection object
  waiting,   \* client side: the session whose /sdp reply is awaited, or None
  pending,   \* conn_pending
  reply,     \* the description sent by the last step, if it sent one
  rejected,  \* history: sessions that posted an offer which did not decode
  dangling,  \* sessions with a freed peer connection whose ice_tmr is armed
  fault      \* a handler ran on freed memory: nothing is defined any more

vars == <<up, made, sessl, pc, open, refs, waiting, pending, reply,
          rejected, dangling, fault>>

Reply == [from : Nat, to : Sess \cup {None}, type : {"none", "offer", "answer"}]

NoReply == [from |-> 0, to |-> None, type |-> "none"]

Init ==
  /\ up = TRUE
  /\ made = 0
  /\ sessl = {}
  /\ pc = [s \in Sess |-> NoPc]
  /\ open = [c \in Conns |-> FALSE]
  /\ refs = [c \in Conns |-> 0]
  /\ waiting = [c \in Conns |-> None]
  /\ pending = None
  /\ reply = NoReply
  /\ rejected = {}
  /\ dangling = {}
  /\ fault = FALSE

Running == up /\ ~fault

(* A browser sends one request at a time on a connection.                  *)
Idle(c) == Running /\ open[c] /\ waiting[c] = None

(***************************************************************************)
(* Connections (re's HTTP server): the socket holds one reference, and     *)
(* conn_pending may hold a second one.                                     *)
(***************************************************************************)
Accept(c) ==
  /\ Running /\ refs[c] = 0
  /\ open' = [open EXCEPT ![c] = TRUE]
  /\ refs' = [refs EXCEPT ![c] = 1]
  /\ reply' = NoReply
  /\ UNCHANGED <<up, made, sessl, pc, waiting, pending, rejected, dangling, fault>>

ConnClose(c) ==
  /\ Running /\ open[c]
  /\ open' = [open EXCEPT ![c] = FALSE]
  /\ refs' = [refs EXCEPT ![c] = @ - 1]
  /\ waiting' = [waiting EXCEPT ![c] = None]
  /\ reply' = NoReply
  /\ UNCHANGED <<up, made, sessl, pc, pending, rejected, dangling, fault>>

(***************************************************************************)
(* Sessions.  A client names its session s by its id, and the server acts  *)
(* on the session t it finds under that id; a request for an unknown id is *)
(* answered with 404 and changes nothing.                                  *)
(***************************************************************************)
IdOf(s) == s % IdSpace

(* session_lookup: t is the first session of the list with this id.        *)
Found(id, t) ==
  /\ t \in sessl /\ IdOf(t) = id
  /\ \A u \in sessl : IdOf(u) = id => t <= u

PostConnect(c) ==
  /\ Idle(c)
  /\ made < MaxSessions /\ Cardinality(sessl) < MaxLive
  /\ made' = made + 1
  /\ sessl' = sessl \cup {made + 1}
  /\ reply' = NoReply
  /\ UNCHANGED <<up, pc, open, refs, waiting, pending, rejected, dangling, fault>>

(* mem_deref of sess->pc: the object goes, an armed ice_tmr stays behind.  *)
FreePc(S) ==
  /\ pc' = [s \in Sess |-> IF s \in S THEN NoPc ELSE pc[s]]
  /\ dangling' = dangling \cup {s \in S : pc[s].tmr}

(* Faulty variant: the destructor forgets sess->pc.                        *)
PostDisconnect_LeavePc(c, s, t) ==
  /\ Idle(c) /\ s \in 1..made /\ Found(IdOf(s), t)
  /\ sessl' = sessl \ {t}
  /\ reply' = NoReply
  /\ UNCHANGED <<up, made, pc, open, refs, waiting, pending, rejected, dangling, fault>>

PostDisconnect(c, s, t) ==
  /\ Idle(c) /\ s \in 1..made /\ Found(IdOf(s), t)
  /\ sessl' = sessl \ {t}
  /\ FreePc({t})
  /\ reply' = NoReply
  /\ UNCHANGED <<up, made, open, refs, waiting, pending, rejected, fault>>

(***************************************************************************)
(* POST /sdp.  handle_post_sdp turns the peer connection p of the session  *)
(* into PostedPc(p, m) and returns 0 iff PostedOk(p, m).  The request m    *)
(* has an empty body, one that is not a JSON description, an offer or an   *)
(* answer; decodes says that its SDP decodes, alloc is the outcome of      *)
(* create_pc - "nopc" (peerconnection_new failed), "noaudio" (audio_alloc  *)
(* failed, the object stays) or "ok" - and checks that of ice_start.       *)
(***************************************************************************)
Posts ==
  [body : {"empty", "invalid"}, decodes : {FALSE}, alloc : {"ok"}, checks : {FALSE}]
  \cup
  [body : {"offer"}, decodes : BOOLEAN, alloc : {"nopc", "noaudio", "ok"}, checks : {FALSE}]
  \cup
  [body : {"answer"}, decodes : BOOLEAN, alloc : {"ok"}, checks : BOOLEAN]

CreatePc(p, alloc) ==
  IF p.alive THEN p
  ELSE IF alloc = "nopc" THEN NoPc ELSE NewPc(FALSE, alloc = "ok")

CreatePcOk(p, alloc) == p.alive \/ alloc = "ok"

PostedPc(p, m) ==
  CASE m.body = "answer" ->
         LET q == SetRemoteDescr(p, "answer", m.decodes)
         IN  IF SetRemoteDescrOk(p, m.decodes) THEN StartIce(q, m.checks) ELSE q
    [] m.body = "offer" ->
         LET q == CreatePc(p, m.alloc)
         IN  IF CreatePcOk(p, m.alloc) THEN SetRemoteDescr(q, "offer", m.decodes) ELSE q
    [] OTHER -> p

PostedOk(p, m) ==
  CASE m.body = "empty"   -> TRUE
    [] m.body = "invalid" -> FALSE
    [] m.body = "answer"  ->
         /\ SetRemoteDescrOk(p, m.decodes)
         /\ StartIceOk(SetRemoteDescr(p, "answer", m.decodes), m.checks)
    [] m.body = "offer"   ->
         /\ CreatePcOk(p, m.alloc)
         /\ SetRemoteDescrOk(CreatePc(p, m.alloc), m.decodes)

(* mem_deref(conn_pending); conn_pending = mem_ref(conn).                  *)
ParkRefs(c) ==
  [d \in Conns |-> refs[d] + (IF d = c THEN 1 ELSE 0)
                           - (IF d = pending THEN 1 ELSE 0)]

(* Without an error the connection is parked and its request stays open;   *)
(* an error is answered at once with 500.                                  *)
PostSdp(c, s, t, m) ==
  /\ Idle(c) /\ s \in 1..made /\ Found(IdOf(s), t)
  /\ pc' = [pc EXCEPT ![t] = PostedPc(@, m)]
  /\ IF PostedOk(pc[t], m)
     THEN /\ refs' = ParkRefs(c)
          /\ pending' = c
          /\ waiting' = [waiting EXCEPT ![c] = s]
     ELSE UNCHANGED <<refs, pending, waiting>>
  /\ rejected' = IF m.body = "offer" /\ ~m.decodes THEN rejected \cup {t} ELSE rejected
  /\ reply' = NoReply
  /\ UNCHANGED <<up, made, sessl, open, dangling, fault>>

(***************************************************************************)
(* The gather callback: reply_descr writes to conn_pending, which may be   *)
(* NULL or closed by now (the reply is lost then) or belong to the request *)
(* of another session.                                                     *)
(***************************************************************************)
(* Faulty variant: reply_descr returns before it sends.                    *)
ReplyDescr_Lost(s, type) == reply' = NoReply /\ UNCHANGED waiting

ReplyDescr(s, type) ==
  IF pending # None /\ open[pending]
  THEN /\ reply' = [from |-> s, to |-> waiting[pending], type |-> type]
       /\ waiting' = [waiting EXCEPT ![pending] = None]
  ELSE reply' = NoReply /\ UNCHANGED waiting

GatherHandler(s, p, checks) ==
  IF p.ss = HaveRemoteOffer
  THEN /\ pc' = [pc EXCEPT ![s] = StartIce(CreateAnswer(p), checks)]
       /\ ReplyDescr(s, "answer")
  ELSE /\ pc' = [pc EXCEPT ![s] = CreateOffer(p)]
       /\ IF CreateOfferOk(p) THEN ReplyDescr(s, "offer")
          ELSE reply' = NoReply /\ UNCHANGED waiting

Gathered(s, checks) ==
  /\ Running /\ pc[s].alive /\ pc[s].track /\ ~pc[s].gather_ok
  /\ GatherHandler(s, MnatEstab(pc[s]), checks)
  /\ UNCHANGED <<up, made, sessl, open, refs, pending, rejected, dangling, fault>>

(* Gathering failed: pc_close, and the session forgets the connection.     *)
GatherFailed(s) ==
  /\ Running /\ pc[s].alive /\ ~pc[s].gather_ok
  /\ FreePc({s})
  /\ reply' = NoReply
  /\ UNCHANGED <<up, made, sessl, open, refs, waiting, pending, rejected, fault>>

(***************************************************************************)
(* Media callbacks.                                                        *)
(***************************************************************************)
(* conncheck_handler: the track's gate opens, and a controlling agent      *)
(* whose default candidate changed runs the gather callback again.         *)
IceConnected(s, reinvite, checks) ==
  /\ Running /\ pc[s].alive /\ pc[s].track /\ pc[s].started
  /\ IF pc[s].offerer /\ reinvite
     THEN GatherHandler(s, MnatEstab(MnatConn(pc[s])), checks)
     ELSE /\ pc' = [pc EXCEPT ![s] = MnatConn(@)]
          /\ reply' = NoReply
          /\ UNCHANGED waiting
  /\ UNCHANGED <<up, made, sessl, open, refs, pending, rejected, dangling, fault>>

(* DTLS runs over the connected ICE transport.                             *)
DtlsSecure(s, source) ==
  /\ Running /\ pc[s].alive /\ pc[s].track /\ pc[s].ice_conn
  /\ pc' = [pc EXCEPT ![s] = Established(@, source)]
  /\ reply' = NoReply
  /\ UNCHANGED <<up, made, sessl, open, refs, waiting, pending, rejected,
                 dangling, fault>>

(* A DTLS, audio or stream error: pc_close.                                *)
MediaError(s) ==
  /\ Running /\ pc[s].alive /\ pc[s].ice_conn
  /\ FreePc({s})
  /\ reply' = NoReply
  /\ UNCHANGED <<up, made, sessl, open, refs, waiting, pending, rejected, fault>>

IceTmrExpires(s, checks) ==
  /\ Running /\ pc[s].alive /\ pc[s].tmr
  /\ pc' = [pc EXCEPT ![s] = IceTmr(@, checks)]
  /\ reply' = NoReply
  /\ UNCHANGED <<up, made, sessl, open, refs, waiting, pending, rejected,
                 dangling, fault>>

(* The same timer of a peer connection that has been freed meanwhile.      *)
DanglingTmrExpires(s) ==
  /\ Running /\ s \in dangling
  /\ fault' = TRUE
  /\ UNCHANGED <<up, made, sessl, pc, open, refs, waiting, pending, reply,
                 rejected, dangling>>

(* barertcdemo_close, after the event loop has ended.                      *)
DemoClose ==
  /\ Running
  /\ up' = FALSE
  /\ sessl' = {}
  /\ FreePc(Sess)
  /\ open' = [c \in Conns |-> FALSE]
  /\ refs' = [c \in Conns |-> refs[c] - (IF open[c] THEN 1 ELSE 0)
                                      - (IF c = pending THEN 1 ELSE 0)]
  /\ waiting' = [c \in Conns |-> None]
  /\ pending' = None
  /\ reply' = NoReply
  /\ UNCHANGED <<made, rejected, fault>>

Stopped == ~Running /\ UNCHANGED vars

Next ==
  \/ \E c \in Conns : Accept(c) \/ ConnClose(c) \/ PostConnect(c)
  \/ \E c \in Conns, s, t \in Sess : PostDisconnect(c, s, t)
  \/ \E c \in Conns, s, t \in Sess, m \in Posts : PostSdp(c, s, t, m)
  \/ \E s \in Sess, checks \in BOOLEAN : Gathered(s, checks)
  \/ \E s \in Sess : GatherFailed(s)
  \/ \E s \in Sess, reinvite, checks \in BOOLEAN : IceConnected(s, reinvite, checks)
  \/ \E s \in Sess, source \in BOOLEAN : DtlsSecure(s, source)
  \/ \E s \in Sess : MediaError(s)
  \/ \E s \in Sess, checks \in BOOLEAN : IceTmrExpires(s, checks)
  \/ \E s \in Sess : DanglingTmrExpires(s)
  \/ DemoClose
  \/ Stopped

Spec == Init /\ [][Next]_vars

(* ICE gathering ends, one way or the other: STUN transactions time out    *)
(* and the server-less case is a timer.                                    *)
Fairness == \A s \in Sess :
  WF_vars(/\ pc[s].track
          /\ GatherFailed(s) \/ \E checks \in BOOLEAN : Gathered(s, checks))

FairSpec == Spec /\ Fairness
-----------------------------------------------------------------------------
TypeOK ==
  /\ up \in BOOLEAN /\ fault \in BOOLEAN
  /\ made \in 0..MaxSessions
  /\ sessl \subseteq Sess /\ rejected \subseteq Sess /\ dangling \subseteq Sess
  /\ pc \in [Sess -> Pc]
  /\ open \in [Conns -> BOOLEAN]
  /\ refs \in [Conns -> 0..2]
  /\ waiting \in [Conns -> Sess \cup {None}]
  /\ pending \in Conns \cup {None}
  /\ reply \in Reply

(***************************************************************************)
(* A description sent in reply to POST /sdp is always an answer: the       *)
(* OFFER branch of peerconnection_gather_handler is never taken with       *)
(* success, whatever order requests, failed decodings, gather results and  *)
(* re-created peer connections come in.  www/js/main.js relies on it: it   *)
(* passes what it gets to setRemoteDescription of a local offer.           *)
(***************************************************************************)
AnswerOnly == reply.type # "offer"

(***************************************************************************)
(* The gates of mediatrack_start_audio open in order: the audio source of  *)
(* a browser session runs only after DTLS completed, DTLS only after ICE   *)
(* connected, and ICE only on a remote description that decoded.  In       *)
(* particular a SECURE event never finds the ICE gate closed, which        *)
(* start_audio would answer with EPROTO and nobody would retry.            *)
(***************************************************************************)
MediaOrder ==
  \A s \in Sess : /\ pc[s].audio    => pc[s].dtls_ok
                  /\ pc[s].dtls_ok  => pc[s].ice_conn
                  /\ pc[s].ice_conn => pc[s].started
                  /\ pc[s].started  => pc[s].sdp_dec_ok

(***************************************************************************)
(* A live peer connection always belongs to a session in the list: its     *)
(* callbacks carry the session as argument, and would run on freed memory  *)
(* if /disconnect or the close handler left the object behind.             *)
(***************************************************************************)
LivePcOwned == \A s \in Sess : pc[s].alive => s \in sessl

(***************************************************************************)
(* Reference counts of connections are exact: one for the socket, one for  *)
(* conn_pending.  So reply_descr never writes to a freed connection, and   *)
(* a parked connection that the browser closed is released by the next     *)
(* accepted POST /sdp.                                                     *)
(***************************************************************************)
RefsExact ==
  \A c \in Conns : refs[c] = (IF open[c] THEN 1 ELSE 0)
                              + (IF pending = c THEN 1 ELSE 0)

(***************************************************************************)
(* peerconn.c's destructor does not cancel ice_tmr.  In a browser session  *)
(* the timer is armed only by the gather callback of an offer that did not *)
(* decode, so a freed peer connection leaves an armed timer only then.     *)
(***************************************************************************)
DanglingOnlyAfterBadOffer == dangling \subseteq rejected

(* r is a request for the session s, by the id it carries.                 *)
AsksFor(r, s) == r # None /\ IdOf(r) = IdOf(s)

(***************************************************************************)
(* An answer written to conn_pending reaches a request that named the      *)
(* session it describes ("async reply", barertc.c), for sessions whose     *)
(* offers all decoded.  It is true while sessions follow one another       *)
(* (MaxLive = 1) and false when two are alive.                             *)
(***************************************************************************)
AnswerReachesAsker ==
  reply.type # "none" /\ reply.from \notin rejected => AsksFor(reply.to, reply.from)

(***************************************************************************)
(* A parked request of a session that still gathers is answered, unless    *)
(* the peer connection closes or another request is parked first.          *)
(***************************************************************************)
Asked(c, s) == /\ Running /\ pending = c /\ waiting[c] = s
               /\ pc[s].alive /\ pc[s].track /\ ~pc[s].gather_ok

ParkedAnswered ==
  \A c \in Conns, s \in Sess :
    Asked(c, s) ~> \/ waiting[c] # s \/ ~pc[s].alive
                   \/ pending # c \/ ~Running

(***************************************************************************)
(* The server implements module Negotiation: handle_post_sdp, the gather   *)
(* callback and the ends of sessions and peer connections send each        *)
(* description for an offer that the session holds, and at most once.  An  *)
(* offer is held while the peer connection is in have-remote-offer.        *)
(***************************************************************************)
Holding == {s \in Sess : pc[s].ss = HaveRemoteOffer}

Sent == IF reply.type = "none" THEN 0 ELSE reply.from

Neg == INSTANCE Negotiation WITH Peers <- Sess, held <- Holding, sent <- Sent

Negotiates == Neg!Spec

-----------------------------------------------------------------------------
(***************************************************************************)
(* The inductive invariant.  PcOk is what holds of the peer connection p   *)
(* of a session at any time; bad says that the session has posted an offer *)
(* that did not decode.  The central conjunct is the third: until its one  *)
(* gather callback, a peer connection with a track stays in                *)
(* have-remote-offer, because it is created for an offer and nothing but   *)
(* that callback leaves the state.                                         *)
(***************************************************************************)
PcOk(p, bad) ==
  /\ ~p.alive => p = NoPc
  /\ ~p.offerer
  /\ p.alive /\ p.track /\ ~p.gather_ok => p.ss = HaveRemoteOffer
  /\ p.ss = HaveRemoteOffer /\ ~p.sdp_dec_ok => bad
  /\ p.tmr => bad
  /\ p.audio    => p.dtls_ok
  /\ p.dtls_ok  => p.ice_conn
  /\ p.ice_conn => p.started
  /\ p.started  => p.sdp_dec_ok

(* Everything above holds together, and is kept by every step: the peer    *)
(* connections are consistent with the requests and callbacks so far.      *)
HttpInv ==
  /\ TypeOK
  /\ sessl \subseteq 1..made
  /\ \A s \in Sess : PcOk(pc[s], s \in rejected)
  /\ LivePcOwned
  /\ RefsExact
  /\ DanglingOnlyAfterBadOffer
  /\ AnswerOnly

(***************************************************************************)
(* What makes answers reach their askers while sessions follow one         *)
(* another: a session that gathers after a good offer has a request for    *)
(* its id in conn_pending, or one that the browser has closed since.       *)
(***************************************************************************)
ParkedForAsker ==
  \A s \in Sess :
    pc[s].alive /\ pc[s].track /\ ~pc[s].gather_ok /\ s \notin rejected
      => pending # None /\ (open[pending] => AsksFor(waiting[pending], s))

(* With one live session, conn_pending is a request for the session that   *)
(* still gathers (handle_post_sdp, peerconnection_gather_handler), and the *)
(* last answer went to such a request.  session_counter may wrap: an id    *)
(* kept from an ended session then names a later one, and what the server  *)
(* does for it still ends in an answer to that id.                         *)
AskerInv ==
  /\ \A s, t \in sessl : s = t
  /\ ParkedForAsker
  /\ AnswerReachesAsker
=============================================================================
