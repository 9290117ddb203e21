--------------------------- MODULE HttpDemoProofs ---------------------------
(***************************************************************************)
(* Proofs about the HTTP demo server, for any number of connections and    *)
(* sessions, any retry limit and any size of the id space.                 *)
(***************************************************************************)
EXTENDS HttpDemo, FiniteSetTheorems, TLAPS

USE DEF Stable, HaveLocalOffer, HaveRemoteOffer, SignalingState

(* A fresh pointer and a fresh peer connection are well formed.            *)
LEMMA NoPcOk == NoPc \in Pc /\ \A bad \in BOOLEAN : PcOk(NoPc, bad)
  BY RetryAssumption DEF NoPc, Pc, PcOk

(* A peer connection made by create_pc; without a track it never gathers,  *)
(* so it is well formed although no offer has been set on it yet.          *)
LEMMA NewPcOk ==
  /\ \A a \in BOOLEAN : NewPc(FALSE, a) \in Pc /\ NewPc(FALSE, a).alive
  /\ \A bad \in BOOLEAN : PcOk(NewPc(FALSE, FALSE), bad)
<1>1. \A a \in BOOLEAN : NewPc(FALSE, a) \in Pc /\ NewPc(FALSE, a).alive
  BY ZenonT(30), NoPcOk DEF NewPc, Pc
<1>2. /\ NewPc(FALSE, FALSE).alive /\ ~NewPc(FALSE, FALSE).offerer
      /\ ~NewPc(FALSE, FALSE).track /\ NewPc(FALSE, FALSE).ss = Stable
      /\ ~NewPc(FALSE, FALSE).tmr /\ ~NewPc(FALSE, FALSE).audio
      /\ ~NewPc(FALSE, FALSE).dtls_ok /\ ~NewPc(FALSE, FALSE).ice_conn
      /\ ~NewPc(FALSE, FALSE).started
  BY DEF NewPc, NoPc
<1>3. \A bad \in BOOLEAN : PcOk(NewPc(FALSE, FALSE), bad)
  BY Zenon, <1>2 DEF PcOk
<1> QED  BY Zenon, <1>1, <1>3

(* peerconnection_start_ice keeps a peer connection well formed where the  *)
(* server calls it: with a decoded description, or after a bad offer.      *)
LEMMA StartIceKeeps ==
  ASSUME NEW p \in Pc, NEW bad \in BOOLEAN, NEW checks \in BOOLEAN,
         PcOk(p, bad), p.sdp_dec_ok \/ bad
  PROVE  StartIce(p, checks) \in Pc /\ PcOk(StartIce(p, checks), bad)
<1>1. CASE ~p.alive
  BY <1>1 DEF StartIce
<1>2. CASE p.alive /\ ~p.sdp_dec_ok /\ p.retry < MaxIceRetries
  <2>1. StartIce(p, checks) = [p EXCEPT !.retry = @ + 1, !.tmr = TRUE]
    BY <1>2 DEF StartIce
  <2>2. p.retry + 1 \in 0..MaxIceRetries
    BY <1>2, RetryAssumption DEF Pc
  <2> QED  BY ZenonT(30), <1>2, <2>1, <2>2 DEF Pc, PcOk
<1>3. CASE p.alive /\ ~p.sdp_dec_ok /\ ~(p.retry < MaxIceRetries)
  BY <1>3 DEF StartIce
<1>4. CASE p.alive /\ p.sdp_dec_ok
  <2>1. StartIce(p, checks) = [p EXCEPT !.started = p.started \/ checks]
    BY <1>4 DEF StartIce
  <2>2. p.started \/ checks \in BOOLEAN
    OBVIOUS
  <2> QED  BY <1>4, <2>1, <2>2 DEF Pc, PcOk
<1> QED  BY <1>1, <1>2, <1>3, <1>4 DEF Pc

(* peerconnection_set_remote_descr with an offer: the state it leaves      *)
(* behind is allowed, if a failed decoding is remembered in bad.           *)
LEMMA SetOfferKeeps ==
  ASSUME NEW p \in Pc, NEW bad \in BOOLEAN, NEW decodes \in BOOLEAN,
         PcOk(p, bad) \/ (p.alive /\ \E a \in BOOLEAN : p = NewPc(FALSE, a))
  PROVE  LET q == SetRemoteDescr(p, "offer", decodes)
         IN  q \in Pc /\ PcOk(q, bad \/ ~decodes)
<1> DEFINE q == [p EXCEPT !.ss = HaveRemoteOffer, !.sdp_dec_ok = p.sdp_dec_ok \/ decodes]
<1>1. p.sdp_dec_ok \/ decodes \in BOOLEAN
  OBVIOUS
<1>2. CASE PcOk(p, bad) /\ (~p.alive \/ p.ss = HaveRemoteOffer)
  BY <1>2 DEF SetRemoteDescr, PcOk
<1>3. CASE PcOk(p, bad) /\ p.alive /\ p.ss # HaveRemoteOffer
  <2>1. SetRemoteDescr(p, "offer", decodes) = q
    BY <1>3 DEF SetRemoteDescr
  <2>2. q \in Pc
    BY Zenon, <1>1 DEF Pc
  <2>3. PcOk(q, bad \/ ~decodes)
    BY <1>3, <1>1 DEF PcOk, Pc
  <2> QED  BY <2>1, <2>2, <2>3
<1>4. CASE p.alive /\ \E a \in BOOLEAN : p = NewPc(FALSE, a)
  <2>1. p.ss = Stable /\ ~p.offerer /\ ~p.tmr /\ ~p.sdp_dec_ok /\ ~p.started
        /\ ~p.ice_conn /\ ~p.dtls_ok /\ ~p.audio
    BY Zenon, <1>4 DEF NewPc, NoPc
  <2>2. SetRemoteDescr(p, "offer", decodes) = q
    BY Zenon, <1>4, <2>1 DEF SetRemoteDescr
  <2>3. q \in Pc
    BY Zenon, <1>1 DEF Pc
  <2>4. PcOk(q, bad \/ ~decodes)
    BY Zenon, <1>4, <2>1 DEF PcOk, Pc
  <2> QED  BY <2>2, <2>3, <2>4
<1> QED  BY Zenon, <1>2, <1>3, <1>4

(* peerconnection_set_remote_descr with an answer.                         *)
LEMMA SetAnswerKeeps ==
  ASSUME NEW p \in Pc, NEW bad \in BOOLEAN, NEW decodes \in BOOLEAN, PcOk(p, bad)
  PROVE  LET q == SetRemoteDescr(p, "answer", decodes)
         IN  /\ q \in Pc /\ PcOk(q, bad)
             /\ SetRemoteDescrOk(p, decodes) => q.sdp_dec_ok
<1> DEFINE q == [p EXCEPT !.ss = Stable, !.sdp_dec_ok = p.sdp_dec_ok \/ decodes]
<1>1. p.sdp_dec_ok \/ decodes \in BOOLEAN
  OBVIOUS
<1>2. CASE ~p.alive \/ p.ss = HaveRemoteOffer
  BY <1>2 DEF SetRemoteDescr, SetRemoteDescrOk
<1>3. CASE p.alive /\ p.ss # HaveRemoteOffer
  <2>1. SetRemoteDescr(p, "answer", decodes) = q
    BY <1>3 DEF SetRemoteDescr
  <2>2. q \in Pc
    BY Zenon, <1>1 DEF Pc
  <2>3. PcOk(q, bad)
    BY <1>3, <1>1 DEF PcOk, Pc
  <2>4. decodes => q.sdp_dec_ok
    BY Zenon DEF Pc
  <2> QED  BY Zenon, <2>1, <2>2, <2>3, <2>4 DEF SetRemoteDescrOk
<1> QED  BY <1>2, <1>3

(* handle_post_sdp keeps the session's peer connection well formed.        *)
LEMMA PostedKeeps ==
  ASSUME NEW p \in Pc, NEW bad \in BOOLEAN, NEW m \in Posts, PcOk(p, bad)
  PROVE  /\ PostedPc(p, m) \in Pc
         /\ PcOk(PostedPc(p, m), bad \/ (m.body = "offer" /\ ~m.decodes))
<1> DEFINE after == bad \/ (m.body = "offer" /\ ~m.decodes)
<1>0. m.decodes \in BOOLEAN /\ m.checks \in BOOLEAN
  BY Zenon DEF Posts
<1>3. after \in BOOLEAN
  OBVIOUS
<1>1. CASE m.body = "answer"
  <2> DEFINE q == SetRemoteDescr(p, "answer", m.decodes)
  <2>1. /\ q \in Pc /\ PcOk(q, bad)
        /\ SetRemoteDescrOk(p, m.decodes) => q.sdp_dec_ok
    BY <1>0, SetAnswerKeeps
  <2>2. PostedPc(p, m) = IF SetRemoteDescrOk(p, m.decodes)
                         THEN StartIce(q, m.checks) ELSE q
    BY <1>1 DEF PostedPc
  <2>3. CASE SetRemoteDescrOk(p, m.decodes)
    <3> HIDE DEF q
    <3>1. StartIce(q, m.checks) \in Pc /\ PcOk(StartIce(q, m.checks), bad)
      BY <1>0, <2>1, <2>3, StartIceKeeps
    <3> QED  BY <1>1, <2>2, <2>3, <3>1
  <2>4. CASE ~SetRemoteDescrOk(p, m.decodes)
    BY <1>1, <2>1, <2>2, <2>4
  <2> QED  BY <2>3, <2>4
<1>2. CASE m.body = "offer"
  <2> DEFINE q == CreatePc(p, m.alloc)
  <2>1. PostedPc(p, m) = IF CreatePcOk(p, m.alloc)
                         THEN SetRemoteDescr(q, "offer", m.decodes) ELSE q
    BY <1>2 DEF PostedPc
  <2>2. CASE p.alive
    <3>1. q = p /\ CreatePcOk(p, m.alloc)
      BY <2>2 DEF CreatePc, CreatePcOk
    <3> QED  BY Zenon, <1>0, <1>2, <2>1, <3>1, SetOfferKeeps
  <2>3. CASE ~p.alive /\ m.alloc = "ok"
    <3>1. q = NewPc(FALSE, TRUE) /\ CreatePcOk(p, m.alloc)
      BY Zenon, <2>3 DEF CreatePc, CreatePcOk
    <3> QED  BY Zenon, <1>0, <1>2, <2>1, <3>1, NewPcOk, SetOfferKeeps
  <2>4. CASE ~p.alive /\ m.alloc = "nopc"
    <3>1. q = NoPc /\ ~CreatePcOk(p, m.alloc)
      BY <2>4 DEF CreatePc, CreatePcOk
    <3> QED  BY Zenon, <1>3, <2>1, <3>1, NoPcOk
  <2>5. CASE ~p.alive /\ m.alloc = "noaudio"
    <3>1. q = NewPc(FALSE, FALSE) /\ ~CreatePcOk(p, m.alloc)
      BY Zenon, <2>5 DEF CreatePc, CreatePcOk
    <3> QED  BY Zenon, <1>3, <2>1, <3>1, NewPcOk
  <2> QED  BY Zenon, <1>2, <2>2, <2>3, <2>4, <2>5 DEF Posts
<1>4. CASE m.body \notin {"answer", "offer"}
  BY <1>4 DEF PostedPc
<1> QED  BY <1>1, <1>2, <1>4

(* The gather callback of a session that owes an answer.                   *)
LEMMA AnswerKeeps ==
  ASSUME NEW p \in Pc, NEW bad \in BOOLEAN, NEW checks \in BOOLEAN,
         PcOk(p, bad), p.alive, p.ss = HaveRemoteOffer
  PROVE  LET q == StartIce(CreateAnswer(MnatEstab(p)), checks)
         IN  q \in Pc /\ PcOk(q, bad)
<1> DEFINE r == CreateAnswer(MnatEstab(p))
<1>1. r = [p EXCEPT !.gather_ok = TRUE, !.ss = Stable]
  BY DEF CreateAnswer, CreateAnswerOk, MnatEstab, Pc
<1>2. r \in Pc /\ PcOk(r, bad) /\ (r.sdp_dec_ok \/ bad)
  BY ZenonT(30), <1>1 DEF Pc, PcOk
<1> HIDE DEF r
<1>3. StartIce(r, checks) \in Pc /\ PcOk(StartIce(r, checks), bad)
  BY <1>2, StartIceKeeps
<1> QED  BY <1>3 DEF r

(* ice_tmr of a live peer connection expires.                              *)
LEMMA IceTmrKeeps ==
  ASSUME NEW p \in Pc, NEW bad \in BOOLEAN, NEW checks \in BOOLEAN,
         PcOk(p, bad), p.alive, p.tmr
  PROVE  IceTmr(p, checks) \in Pc /\ PcOk(IceTmr(p, checks), bad)
<1> DEFINE r == [p EXCEPT !.tmr = FALSE]
<1>1. r \in Pc /\ PcOk(r, bad) /\ bad
  BY Zenon DEF Pc, PcOk
<1> HIDE DEF r
<1>2. StartIce(r, checks) \in Pc /\ PcOk(StartIce(r, checks), bad)
  BY Zenon, <1>1, StartIceKeeps
<1> QED  BY <1>2 DEF IceTmr, r

(* ICE connects, then DTLS completes.                                      *)
LEMMA MediaKeeps ==
  ASSUME NEW p \in Pc, NEW bad \in BOOLEAN, NEW source \in BOOLEAN,
         PcOk(p, bad), p.alive
  PROVE  /\ p.started => MnatConn(p) \in Pc /\ PcOk(MnatConn(p), bad)
         /\ p.ice_conn => /\ Established(p, source) \in Pc
                          /\ PcOk(Established(p, source), bad)
<1>1. p.started => MnatConn(p) \in Pc /\ PcOk(MnatConn(p), bad)
  BY Zenon DEF MnatConn, Pc, PcOk
<1>2. ASSUME p.ice_conn
      PROVE  Established(p, source) \in Pc /\ PcOk(Established(p, source), bad)
  <2>1. (p.audio \/ (p.ice_conn /\ source)) \in BOOLEAN
    OBVIOUS
  <2>2. Established(p, source) =
          [p EXCEPT !.dtls_ok = TRUE, !.audio = p.audio \/ (p.ice_conn /\ source)]
    BY DEF Established, StartAudio, Pc
  <2> QED  BY ZenonT(30), <1>2, <2>1, <2>2 DEF Pc, PcOk
<1> QED  BY <1>1, <1>2

(* mem_deref of peer connections: the pointers become NULL, and a timer    *)
(* left behind belongs to a session with a bad offer.                      *)
LEMMA FreePcKeeps ==
  ASSUME HttpInv, NEW S \in SUBSET Sess, FreePc(S)
  PROVE  /\ pc' \in [Sess -> Pc]
         /\ \A s \in Sess : PcOk(pc'[s], s \in rejected)
         /\ \A s \in Sess : pc'[s].alive => s \in sessl /\ s \notin S
         /\ dangling' \subseteq Sess /\ dangling' \subseteq rejected
<1>1. \A s \in Sess : pc'[s] = IF s \in S THEN NoPc ELSE pc[s]
  BY DEF FreePc
<1>2. pc' \in [Sess -> Pc]
  BY NoPcOk DEF FreePc, HttpInv, TypeOK
<1>3. \A s \in Sess : PcOk(pc'[s], s \in rejected)
  BY <1>1 DEF HttpInv, PcOk, NoPc
<1>4. \A s \in Sess : pc'[s].alive => s \in sessl /\ s \notin S
  BY <1>1 DEF HttpInv, LivePcOwned, NoPc
<1>5. dangling' \subseteq Sess /\ dangling' \subseteq rejected
  BY Zenon DEF FreePc, HttpInv, TypeOK, DanglingOnlyAfterBadOffer, PcOk
<1> QED  BY <1>2, <1>3, <1>4, <1>5

(* A handler replaces the peer connection of one session in the list.      *)
LEMMA UpdateKeeps ==
  ASSUME HttpInv, NEW s \in Sess, NEW q \in Pc, s \in sessl,
         pc' = [pc EXCEPT ![s] = q], sessl' = sessl,
         PcOk(q, s \in rejected'), rejected \subseteq rejected', rejected' \subseteq Sess
  PROVE  /\ pc' \in [Sess -> Pc]
         /\ \A t \in Sess : PcOk(pc'[t], t \in rejected')
         /\ LivePcOwned'
<1>1. pc' \in [Sess -> Pc]
  BY DEF HttpInv, TypeOK
<1>2. \A t \in Sess : pc'[t] = IF t = s THEN q ELSE pc[t]
  BY DEF HttpInv, TypeOK
<1>3. \A t \in Sess : PcOk(pc[t], t \in rejected')
  BY DEF HttpInv, PcOk
<1>4. \A t \in Sess : PcOk(pc'[t], t \in rejected')
  BY <1>2, <1>3
<1>5. LivePcOwned'
  BY <1>2 DEF HttpInv, LivePcOwned
<1> QED  BY <1>1, <1>4, <1>5

(* The invariant holds initially.                                          *)
LEMMA HttpInit == Init => HttpInv
<1> SUFFICES ASSUME Init PROVE HttpInv
  OBVIOUS
<1>1. TypeOK
  <2>1. pc \in [Sess -> Pc]
    BY NoPcOk DEF Init
  <2>2. /\ open \in [Conns -> BOOLEAN] /\ refs \in [Conns -> 0..2]
        /\ waiting \in [Conns -> Sess \cup {None}]
    BY DEF Init
  <2>3. up \in BOOLEAN /\ fault \in BOOLEAN
    BY Zenon DEF Init
  <2>4. made \in 0..MaxSessions
    BY SessionAssumption DEF Init
  <2> QED  BY <2>1, <2>2, <2>3, <2>4 DEF Init, TypeOK, NoReply, Reply
<1>2. \A s \in Sess : PcOk(pc[s], s \in rejected)
  BY DEF Init, PcOk, NoPc
<1>3. LivePcOwned /\ RefsExact /\ DanglingOnlyAfterBadOffer /\ AnswerOnly
  BY NoneAssumption DEF Init, LivePcOwned, RefsExact, DanglingOnlyAfterBadOffer,
       AnswerOnly, NoReply, Reply, NoPc
<1> QED  BY <1>1, <1>2, <1>3 DEF HttpInv, Init

(* Connection and session requests keep the invariant.                     *)
LEMMA RequestStep ==
  ASSUME HttpInv, NEW c \in Conns,
         \/ Accept(c) \/ ConnClose(c) \/ PostConnect(c)
         \/ \E s, t \in Sess : PostDisconnect(c, s, t)
         \/ \E s, t \in Sess, m \in Posts : PostSdp(c, s, t, m)
  PROVE  HttpInv'
<1> USE NoneAssumption, SessionAssumption
<1>1. CASE Accept(c)
  <2>1. TypeOK'
    BY <1>1 DEF Accept, HttpInv, TypeOK, NoReply, Reply
  <2>2. RefsExact'
    BY <1>1 DEF Accept, HttpInv, TypeOK, RefsExact
  <2> QED  BY <1>1, <2>1, <2>2 DEF Accept, HttpInv, LivePcOwned,
             DanglingOnlyAfterBadOffer, AnswerOnly, NoReply, Reply
<1>2. CASE ConnClose(c)
  <2>1. refs[c] = 1 + (IF pending = c THEN 1 ELSE 0)
    BY <1>2 DEF ConnClose, HttpInv, RefsExact
  <2>2. TypeOK'
    BY <1>2, <2>1 DEF ConnClose, HttpInv, TypeOK, NoReply, Reply
  <2>3. RefsExact'
    BY <1>2, <2>1 DEF ConnClose, HttpInv, TypeOK, RefsExact
  <2> QED  BY <1>2, <2>2, <2>3 DEF ConnClose, HttpInv, LivePcOwned,
             DanglingOnlyAfterBadOffer, AnswerOnly, NoReply, Reply
<1>3. CASE PostConnect(c)
  <2>1. made + 1 \in Sess /\ sessl' \subseteq 1..made'
    BY <1>3 DEF PostConnect, HttpInv, TypeOK, Sess
  <2>2. TypeOK'
    BY SMTT(30), <1>3, <2>1 DEF PostConnect, HttpInv, TypeOK, NoReply, Reply, Sess
  <2> QED  BY <1>3, <2>1, <2>2 DEF PostConnect, HttpInv, LivePcOwned, RefsExact,
             DanglingOnlyAfterBadOffer, AnswerOnly, NoReply, Reply
<1>4. ASSUME NEW s \in Sess, NEW t \in Sess, PostDisconnect(c, s, t)
      PROVE  HttpInv'
  <2>1. FreePc({t}) /\ sessl' = sessl \ {t}
    BY <1>4 DEF PostDisconnect
  <2>2. /\ pc' \in [Sess -> Pc]
        /\ \A u \in Sess : PcOk(pc'[u], u \in rejected)
        /\ \A u \in Sess : pc'[u].alive => u \in sessl /\ u # t
        /\ dangling' \subseteq Sess /\ dangling' \subseteq rejected
    BY SMTT(30), <2>1, FreePcKeeps
  <2>3. TypeOK'
    BY <1>4, <2>2 DEF PostDisconnect, HttpInv, TypeOK, NoReply, Reply
  <2>4. LivePcOwned'
    BY <2>1, <2>2 DEF LivePcOwned
  <2> QED  BY SMTT(30), <1>4, <2>2, <2>3, <2>4 DEF PostDisconnect, HttpInv, RefsExact,
             DanglingOnlyAfterBadOffer, AnswerOnly, NoReply, Reply
<1>5. ASSUME NEW s \in Sess, NEW t \in Sess, NEW m \in Posts, PostSdp(c, s, t, m)
      PROVE  HttpInv'
  <2> DEFINE q == PostedPc(pc[t], m)
             bad == t \in rejected \/ (m.body = "offer" /\ ~m.decodes)
  <2>1. pc[t] \in Pc /\ PcOk(pc[t], t \in rejected) /\ t \in sessl
    BY SMTT(30), <1>5 DEF PostSdp, Found, HttpInv, TypeOK
  <2>2. q \in Pc /\ PcOk(q, bad)
    <3>1. PICK b \in BOOLEAN : b <=> t \in rejected
      BY ZenonT(30)
    <3>2. PcOk(pc[t], b)
      BY <2>1, <3>1 DEF PcOk
    <3>3. q \in Pc /\ PcOk(q, b \/ (m.body = "offer" /\ ~m.decodes))
      BY SMTT(30), <2>1, <3>2, PostedKeeps
    <3> QED  BY <3>1, <3>3 DEF PcOk
  <2>3. rejected \subseteq rejected' /\ rejected' \subseteq Sess
        /\ (t \in rejected' <=> bad)
    BY <1>5 DEF PostSdp, HttpInv, TypeOK
  <2>4. pc' = [pc EXCEPT ![t] = q] /\ sessl' = sessl
    BY SMTT(30), <1>5 DEF PostSdp, HttpInv, TypeOK
  <2>5. PcOk(q, t \in rejected')
    BY <2>2, <2>3 DEF PcOk
  <2> HIDE DEF q
  <2>6. /\ pc' \in [Sess -> Pc]
        /\ \A u \in Sess : PcOk(pc'[u], u \in rejected')
        /\ LivePcOwned'
    BY Zenon, <2>1, <2>2, <2>3, <2>4, <2>5, UpdateKeeps
  <2>7. /\ refs' \in [Conns -> 0..2] /\ waiting' \in [Conns -> Sess \cup {None}]
        /\ pending' \in Conns \cup {None} /\ RefsExact'
    <3>1. CASE PostedOk(pc[t], m)
      <4>1. refs' = ParkRefs(c) /\ pending' = c /\ open' = open /\ open[c]
            /\ waiting' = [waiting EXCEPT ![c] = s]
        BY <1>5, <3>1 DEF PostSdp, Idle
      <4>2. \A d \in Conns : ParkRefs(c)[d] =
              (IF open[d] THEN 1 ELSE 0) + (IF d = c THEN 1 ELSE 0)
        BY DEF ParkRefs, HttpInv, RefsExact, TypeOK
      <4>3. refs' \in [Conns -> 0..2]
        BY <4>1, <4>2 DEF ParkRefs
      <4>4. RefsExact'
        BY SMTT(30), <4>1, <4>2 DEF RefsExact
      <4> QED  BY ZenonT(30), <4>1, <4>3, <4>4 DEF HttpInv, TypeOK
    <3>2. CASE ~PostedOk(pc[t], m)
      BY SMTT(30), <1>5, <3>2 DEF PostSdp, HttpInv, TypeOK, RefsExact
    <3> QED  BY <3>1, <3>2
  <2>8. TypeOK'
    BY SMTT(30), <1>5, <2>3, <2>6, <2>7 DEF PostSdp, HttpInv, TypeOK, NoReply, Reply
  <2>9. DanglingOnlyAfterBadOffer' /\ AnswerOnly' /\ sessl' \subseteq 1..made'
    BY <1>5, <2>3 DEF PostSdp, HttpInv, DanglingOnlyAfterBadOffer, AnswerOnly, NoReply, Reply
  <2> QED  BY SMTT(30), <2>6, <2>7, <2>8, <2>9 DEF HttpInv
<1> QED  BY SMTT(30), <1>1, <1>2, <1>3, <1>4, <1>5

(* ICE, DTLS and timer callbacks, and the shutdown, keep the invariant.    *)
LEMMA CallbackStep ==
  ASSUME HttpInv,
         \/ \E s \in Sess, checks \in BOOLEAN : Gathered(s, checks)
         \/ \E s \in Sess : GatherFailed(s)
         \/ \E s \in Sess, reinvite, checks \in BOOLEAN : IceConnected(s, reinvite, checks)
         \/ \E s \in Sess, source \in BOOLEAN : DtlsSecure(s, source)
         \/ \E s \in Sess : MediaError(s)
         \/ \E s \in Sess, checks \in BOOLEAN : IceTmrExpires(s, checks)
         \/ \E s \in Sess : DanglingTmrExpires(s)
         \/ DemoClose
  PROVE  HttpInv'
<1> USE NoneAssumption, SessionAssumption
<1> DEFINE ReplyOk == /\ waiting' \in [Conns -> Sess \cup {None}]
                      /\ reply' \in Reply /\ AnswerOnly'
<1>0. ASSUME NEW s \in Sess, pc[s].alive
      PROVE  pc[s] \in Pc /\ s \in sessl /\ \E b \in BOOLEAN :
               /\ b <=> s \in rejected
               /\ PcOk(pc[s], b)
  BY Zenon, <1>0 DEF HttpInv, TypeOK, LivePcOwned, PcOk
<1>u. ASSUME NEW s \in Sess, NEW q \in Pc, NEW b \in BOOLEAN, s \in sessl,
             pc' = [pc EXCEPT ![s] = q], PcOk(q, b), b <=> s \in rejected,
             ReplyOk,
             UNCHANGED <<up, made, sessl, open, refs, pending, rejected, dangling, fault>>
      PROVE  HttpInv'
  <2>1. PcOk(q, s \in rejected')
    BY <1>u DEF PcOk
  <2>2. /\ pc' \in [Sess -> Pc]
        /\ \A t \in Sess : PcOk(pc'[t], t \in rejected')
        /\ LivePcOwned'
    BY Zenon, <1>u, <2>1, UpdateKeeps DEF HttpInv, TypeOK
  <2>3. TypeOK'
    BY <1>u, <2>2 DEF HttpInv, TypeOK
  <2> QED  BY SMTT(30), <1>u, <2>2, <2>3 DEF HttpInv, RefsExact, DanglingOnlyAfterBadOffer
<1>n. ASSUME reply' = NoReply, waiting' = waiting
      PROVE  ReplyOk
  BY <1>n DEF HttpInv, TypeOK, AnswerOnly, NoReply, Reply
<1>f. ASSUME NEW s \in Sess, FreePc({s}), reply' = NoReply,
             UNCHANGED <<up, made, sessl, open, refs, waiting, pending, rejected, fault>>
      PROVE  HttpInv'
  <2>1. /\ pc' \in [Sess -> Pc]
        /\ \A u \in Sess : PcOk(pc'[u], u \in rejected)
        /\ \A u \in Sess : pc'[u].alive => u \in sessl
        /\ dangling' \subseteq Sess /\ dangling' \subseteq rejected
    BY SMTT(30), <1>f, FreePcKeeps
  <2>2. TypeOK'
    BY <1>f, <2>1 DEF HttpInv, TypeOK, NoReply, Reply
  <2> QED  BY <1>f, <2>1, <2>2 DEF HttpInv, RefsExact, LivePcOwned,
             DanglingOnlyAfterBadOffer, AnswerOnly, NoReply, Reply
<1> HIDE DEF ReplyOk
<1>1. ASSUME NEW s \in Sess, NEW checks \in BOOLEAN, Gathered(s, checks)
      PROVE  HttpInv'
  <2> DEFINE q == StartIce(CreateAnswer(MnatEstab(pc[s])), checks)
  <2>1. PICK b \in BOOLEAN : (b <=> s \in rejected) /\ PcOk(pc[s], b)
    BY <1>0, <1>1 DEF Gathered
  <2>2. pc[s] \in Pc /\ s \in sessl /\ pc[s].alive /\ pc[s].ss = HaveRemoteOffer
    BY Zenon, <1>0, <1>1, <2>1 DEF Gathered, PcOk
  <2>3. MnatEstab(pc[s]).ss = HaveRemoteOffer
    BY <2>2 DEF MnatEstab, Pc
  <2>4. pc' = [pc EXCEPT ![s] = q] /\ ReplyDescr(s, "answer")
    BY SMTT(30), <1>1, <2>3 DEF Gathered, GatherHandler
  <2>5. q \in Pc /\ PcOk(q, b)
    BY <2>1, <2>2, AnswerKeeps
  <2> HIDE DEF q
  <2>6. ReplyOk
    BY <2>4 DEF ReplyOk, ReplyDescr, NoReply, Reply, AnswerOnly, HttpInv, TypeOK, Sess
  <2>7. UNCHANGED <<up, made, sessl, open, refs, pending, rejected, dangling, fault>>
    BY <1>1 DEF Gathered
  <2> QED  BY ZenonT(30), <1>u, <2>1, <2>2, <2>4, <2>5, <2>6, <2>7
<1>2. ASSUME NEW s \in Sess, GatherFailed(s)
      PROVE  HttpInv'
  BY <1>2, <1>f DEF GatherFailed
<1>3. ASSUME NEW s \in Sess, NEW reinvite \in BOOLEAN, NEW checks \in BOOLEAN,
             IceConnected(s, reinvite, checks)
      PROVE  HttpInv'
  <2> DEFINE q == MnatConn(pc[s])
  <2>1. PICK b \in BOOLEAN : (b <=> s \in rejected) /\ PcOk(pc[s], b)
    BY SMTT(30), <1>0, <1>3 DEF IceConnected
  <2>2. pc[s] \in Pc /\ s \in sessl /\ pc[s].alive /\ pc[s].started /\ ~pc[s].offerer
    BY SMTT(30), <1>0, <1>3, <2>1 DEF IceConnected, PcOk
  <2>3. pc' = [pc EXCEPT ![s] = q] /\ reply' = NoReply /\ waiting' = waiting
    BY <1>3, <2>2 DEF IceConnected
  <2>4. q \in Pc /\ PcOk(q, b)
    BY <2>1, <2>2, MediaKeeps
  <2> HIDE DEF q
  <2>5. ReplyOk
    BY <1>n, <2>3
  <2>6. UNCHANGED <<up, made, sessl, open, refs, pending, rejected, dangling, fault>>
    BY <1>3 DEF IceConnected
  <2> QED  BY ZenonT(30), <1>u, <2>1, <2>2, <2>3, <2>4, <2>5, <2>6
<1>4. ASSUME NEW s \in Sess, NEW source \in BOOLEAN, DtlsSecure(s, source)
      PROVE  HttpInv'
  <2> DEFINE q == Established(pc[s], source)
  <2>1. PICK b \in BOOLEAN : (b <=> s \in rejected) /\ PcOk(pc[s], b)
    BY SMTT(30), <1>0, <1>4 DEF DtlsSecure
  <2>2. pc[s] \in Pc /\ s \in sessl /\ pc[s].alive /\ pc[s].ice_conn
    BY <1>0, <1>4 DEF DtlsSecure
  <2>3. pc' = [pc EXCEPT ![s] = q] /\ reply' = NoReply /\ waiting' = waiting
    BY <1>4 DEF DtlsSecure
  <2>4. q \in Pc /\ PcOk(q, b)
    BY <2>1, <2>2, MediaKeeps
  <2> HIDE DEF q
  <2>5. ReplyOk
    BY <1>n, <2>3
  <2>6. UNCHANGED <<up, made, sessl, open, refs, pending, rejected, dangling, fault>>
    BY <1>4 DEF DtlsSecure
  <2> QED  BY ZenonT(30), <1>u, <2>1, <2>2, <2>3, <2>4, <2>5, <2>6
<1>5. ASSUME NEW s \in Sess, MediaError(s)
      PROVE  HttpInv'
  BY <1>5, <1>f DEF MediaError
<1>6. ASSUME NEW s \in Sess, NEW checks \in BOOLEAN, IceTmrExpires(s, checks)
      PROVE  HttpInv'
  <2> DEFINE q == IceTmr(pc[s], checks)
  <2>1. PICK b \in BOOLEAN : (b <=> s \in rejected) /\ PcOk(pc[s], b)
    BY SMTT(30), <1>0, <1>6 DEF IceTmrExpires
  <2>2. pc[s] \in Pc /\ s \in sessl /\ pc[s].alive /\ pc[s].tmr
    BY <1>0, <1>6 DEF IceTmrExpires
  <2>3. pc' = [pc EXCEPT ![s] = q] /\ reply' = NoReply /\ waiting' = waiting
    BY <1>6 DEF IceTmrExpires
  <2>4. q \in Pc /\ PcOk(q, b)
    BY SMTT(30), <2>1, <2>2, IceTmrKeeps
  <2> HIDE DEF q
  <2>5. ReplyOk
    BY <1>n, <2>3
  <2>6. UNCHANGED <<up, made, sessl, open, refs, pending, rejected, dangling, fault>>
    BY SMTT(30), <1>6 DEF IceTmrExpires
  <2> QED  BY ZenonT(30), <1>u, <2>1, <2>2, <2>3, <2>4, <2>5, <2>6
<1>7. ASSUME NEW s \in Sess, DanglingTmrExpires(s)
      PROVE  HttpInv'
  BY SMTT(30), <1>7 DEF DanglingTmrExpires, HttpInv, TypeOK, LivePcOwned, RefsExact,
       DanglingOnlyAfterBadOffer, AnswerOnly
<1>8. CASE DemoClose
  <2>1. /\ pc' \in [Sess -> Pc]
        /\ \A u \in Sess : PcOk(pc'[u], u \in rejected)
        /\ \A u \in Sess : ~pc'[u].alive
        /\ dangling' \subseteq Sess /\ dangling' \subseteq rejected
    BY SMTT(30), <1>8, FreePcKeeps DEF DemoClose
  <2>2. refs' = [c \in Conns |-> 0]
    BY SMTT(30), <1>8 DEF DemoClose, HttpInv, TypeOK, RefsExact
  <2>3. TypeOK'
    <3>1. up' \in BOOLEAN /\ fault' \in BOOLEAN
      BY Zenon, <1>8 DEF DemoClose, HttpInv, TypeOK
    <3>2. /\ open' \in [Conns -> BOOLEAN] /\ refs' \in [Conns -> 0..2]
          /\ waiting' \in [Conns -> Sess \cup {None}]
      BY SMTT(30), <1>8, <2>2 DEF DemoClose
    <3> QED  BY <1>8, <2>1, <3>1, <3>2 DEF DemoClose, HttpInv, TypeOK, NoReply, Reply
  <2>4. RefsExact'
    BY <1>8, <2>2 DEF DemoClose, RefsExact
  <2> QED  BY SMTT(30), <1>8, <2>1, <2>3, <2>4 DEF DemoClose, HttpInv, LivePcOwned,
             DanglingOnlyAfterBadOffer, AnswerOnly, NoReply, Reply
<1> QED  BY SMTT(30), <1>1, <1>2, <1>3, <1>4, <1>5, <1>6, <1>7, <1>8

(***************************************************************************)
(* Every request and every callback keeps the invariant, hence it holds in *)
(* every state the HTTP demo server reaches.                               *)
(***************************************************************************)
THEOREM HttpInvariant == Spec => []HttpInv
<1>1. Init => HttpInv
  BY HttpInit
<1>2. HttpInv /\ [Next]_vars => HttpInv'
  <2> SUFFICES ASSUME HttpInv, [Next]_vars PROVE HttpInv'
    OBVIOUS
  <2>1. CASE UNCHANGED vars
    BY SMTT(30), <2>1 DEF vars, HttpInv, TypeOK, LivePcOwned, RefsExact,
         DanglingOnlyAfterBadOffer, AnswerOnly
  <2>2. CASE Next
    BY <2>1, <2>2, RequestStep, CallbackStep DEF Next, Stopped
  <2> QED  BY <2>1, <2>2
<1> QED  BY <1>1, <1>2, PTL DEF Spec

(***************************************************************************)
(* POST /sdp is only ever answered with an answer, never with an offer of  *)
(* the server's own (peerconnection_gather_handler).                       *)
(***************************************************************************)
THEOREM RepliesAreAnswers == Spec => []AnswerOnly
<1>1. HttpInv => AnswerOnly
  BY SMTT(30) DEF HttpInv
<1> QED  BY <1>1, HttpInvariant, PTL

(***************************************************************************)
(* The gates of mediatrack_start_audio open in order in every session.     *)
(***************************************************************************)
THEOREM GatesOpenInOrder == Spec => []MediaOrder
<1>1. HttpInv => MediaOrder
  BY DEF HttpInv, MediaOrder, PcOk
<1> QED  BY <1>1, HttpInvariant, PTL

(***************************************************************************)
(* Connection reference counts are exact: conn_pending never dangles and   *)
(* leaks nothing.                                                          *)
(***************************************************************************)
THEOREM ConnectionsBalanced == Spec => []RefsExact
<1>1. HttpInv => RefsExact
  BY DEF HttpInv
<1> QED  BY <1>1, HttpInvariant, PTL

(***************************************************************************)
(* A peer connection is freed with its ice_tmr armed only in sessions that *)
(* posted an offer which did not decode, and peer connections never        *)
(* outlive their session.                                                  *)
(***************************************************************************)
THEOREM TimersAndOwners == Spec => [](DanglingOnlyAfterBadOffer /\ LivePcOwned)
<1>1. HttpInv => DanglingOnlyAfterBadOffer /\ LivePcOwned
  BY DEF HttpInv
<1> QED  BY <1>1, HttpInvariant, PTL

-----------------------------------------------------------------------------
(* A peer connection that owes its owner the gather callback.              *)
Gathering(p) == p.alive /\ p.track /\ ~p.gather_ok

(* Nothing but a new peer connection starts to gather.                     *)
LEMMA GatheringKept ==
  ASSUME NEW p \in Pc, NEW b \in BOOLEAN, NEW type \in {"offer", "answer"}
  PROVE  /\ SetRemoteDescr(p, type, b) \in Pc
         /\ Gathering(SetRemoteDescr(p, type, b)) => Gathering(p)
         /\ Gathering(StartIce(p, b)) => Gathering(p)
         /\ Gathering(IceTmr(p, b)) => Gathering(p)
         /\ Gathering(MnatConn(p)) => Gathering(p)
         /\ Gathering(Established(p, b)) => Gathering(p)
<1>1. SetRemoteDescr(p, type, b) \in Pc
  <2>1. p.sdp_dec_ok \/ b \in BOOLEAN
    OBVIOUS
  <2>2. \A ss \in SignalingState :
          [p EXCEPT !.ss = ss, !.sdp_dec_ok = p.sdp_dec_ok \/ b] \in Pc
    BY Zenon, <2>1 DEF Pc
  <2>3. \E ss \in SignalingState :
          SetRemoteDescr(p, type, b)
            \in {p, [p EXCEPT !.ss = ss, !.sdp_dec_ok = p.sdp_dec_ok \/ b]}
    BY Zenon DEF SetRemoteDescr
  <2> QED BY Zenon, <2>2, <2>3
<1>2. Gathering(SetRemoteDescr(p, type, b)) => Gathering(p)
  BY DEF SetRemoteDescr, Pc, Gathering
<1>3. \A q \in Pc : Gathering(StartIce(q, b)) => Gathering(q)
  BY DEF StartIce, Pc, Gathering
<1>4. Gathering(IceTmr(p, b)) => Gathering(p)
  <2> DEFINE q == [p EXCEPT !.tmr = FALSE]
  <2>1. q \in Pc /\ (Gathering(q) => Gathering(p))
    BY Zenon DEF Pc, Gathering
  <2> HIDE DEF q
  <2>2. Gathering(StartIce(q, b)) => Gathering(p)
    BY <1>3, <2>1
  <2> QED BY <2>2 DEF IceTmr, q
<1>5. Gathering(MnatConn(p)) => Gathering(p)
  BY DEF MnatConn, Pc, Gathering
<1>6. Gathering(Established(p, b)) => Gathering(p)
  BY DEF Established, StartAudio, Pc, Gathering
<1> QED BY <1>1, <1>2, <1>3, <1>4, <1>5, <1>6

(* handle_post_sdp makes a peer connection gather only if it parks the     *)
(* request or the offer did not decode.                                    *)
LEMMA PostedGathering ==
  ASSUME NEW p \in Pc, NEW m \in Posts, Gathering(PostedPc(p, m))
  PROVE  Gathering(p) \/ (m.body = "offer" /\ (PostedOk(p, m) \/ ~m.decodes))
<1>0. m.decodes \in BOOLEAN /\ m.checks \in BOOLEAN
  BY Zenon DEF Posts
<1>1. CASE m.body = "answer"
  <2> DEFINE q == SetRemoteDescr(p, "answer", m.decodes)
  <2>1. q \in Pc /\ (Gathering(q) => Gathering(p))
    BY <1>0, GatheringKept
  <2>2. PostedPc(p, m) = q \/ PostedPc(p, m) = StartIce(q, m.checks)
    BY <1>1 DEF PostedPc
  <2> HIDE DEF q
  <2> QED BY SMTT(30), <1>0, <2>1, <2>2, GatheringKept
<1>2. CASE m.body = "offer" /\ m.decodes
  <2> DEFINE q == CreatePc(p, m.alloc)
  <2>1. CASE p.alive
    <3>1. PostedPc(p, m) = SetRemoteDescr(p, "offer", m.decodes)
      BY <1>2, <2>1 DEF PostedPc, CreatePc, CreatePcOk
    <3> QED BY <1>0, <3>1, GatheringKept
  <2>2. CASE ~p.alive /\ m.alloc = "ok"
    <3>1. NewPc(FALSE, TRUE).alive /\ NewPc(FALSE, TRUE).ss = Stable
      BY DEF NewPc, NoPc
    <3>2. CreatePc(p, m.alloc) = NewPc(FALSE, TRUE)
      BY Zenon, <2>2 DEF CreatePc
    <3>3. SetRemoteDescrOk(CreatePc(p, m.alloc), m.decodes)
      BY Zenon, <1>2, <3>1, <3>2 DEF SetRemoteDescrOk
    <3>4. PostedOk(p, m)
      BY Zenon, <1>2, <2>2, <3>3 DEF PostedOk, CreatePcOk
    <3> QED BY <1>2, <3>4
  <2>3. CASE ~p.alive /\ m.alloc # "ok"
    <3>1. PostedPc(p, m) = CreatePc(p, m.alloc)
      BY Zenon, <1>2, <2>3 DEF PostedPc, CreatePcOk
    <3>2. CreatePc(p, m.alloc) \in {NoPc, NewPc(FALSE, FALSE)}
      BY Zenon, <2>3 DEF CreatePc
    <3>3. ~Gathering(NoPc) /\ ~Gathering(NewPc(FALSE, FALSE))
      BY DEF Gathering, NoPc, NewPc
    <3> QED BY Zenon, <3>1, <3>2, <3>3
  <2> QED BY <2>1, <2>2, <2>3
<1>3. CASE m.body \notin {"answer", "offer"}
  BY <1>3 DEF PostedPc
<1> QED BY <1>0, <1>1, <1>2, <1>3

(* A step that starts no gathering, parks nothing and sends nothing.       *)
LEMMA CalmStep ==
  ASSUME AskerInv, sessl' \subseteq sessl, rejected \subseteq rejected',
         \A s \in Sess : Gathering(pc'[s]) => Gathering(pc[s]),
         pending' = pending,
         pending # None /\ open'[pending] =>
           open[pending] /\ waiting'[pending] = waiting[pending],
         \/ reply' = NoReply
         \/ reply' = reply /\ rejected' = rejected
  PROVE  AskerInv'
  BY DEF AskerInv, ParkedForAsker, AnswerReachesAsker, Gathering, NoReply

(***************************************************************************)
(* While at most one session lives, the request in conn_pending is that of *)
(* the session that gathers.  The hypothesis is that of the property:      *)
(* sessions follow one another.  Their ids may wrap.                       *)
(***************************************************************************)
LEMMA AskerStep ==
  ASSUME HttpInv, AskerInv, [Next]_vars, MaxLive <= 1
  PROVE  AskerInv'
<1> USE NoneAssumption, SessionAssumption
<1>0. /\ pc \in [Sess -> Pc] /\ \A s \in Sess : Gathering(pc[s]) => s \in sessl
      /\ open \in [Conns -> BOOLEAN] /\ waiting \in [Conns -> Sess \cup {None}]
      /\ pending \in Conns \cup {None} /\ reply \in Reply
  BY DEF HttpInv, TypeOK, LivePcOwned, Gathering
<1>p. ASSUME NEW s \in Sess, NEW q, Gathering(q) => Gathering(pc[s]),
             pc' = [pc EXCEPT ![s] = q]
      PROVE  \A t \in Sess : Gathering(pc'[t]) => Gathering(pc[t])
  BY SMTT(30), <1>0, <1>p
<1>f. ASSUME NEW S \in SUBSET Sess, FreePc(S)
      PROVE  \A t \in Sess : Gathering(pc'[t]) => Gathering(pc[t])
  <2>1. ~Gathering(NoPc)
    BY DEF Gathering, NoPc
  <2>2. \A t \in Sess : pc'[t] = NoPc \/ pc'[t] = pc[t]
    BY SMTT(30), <1>f DEF FreePc
  <2> QED BY SMTT(30), <2>1, <2>2
<1>1. ASSUME NEW c \in Conns, Accept(c) PROVE AskerInv'
  <2>1. pending # c
    BY <1>1 DEF Accept, HttpInv, RefsExact, TypeOK
  <2> QED BY SMTT(30), <1>0, <1>1, <2>1, CalmStep DEF Accept
<1>2. ASSUME NEW c \in Conns, ConnClose(c) PROVE AskerInv'
  <2>1. pending # None /\ open'[pending] =>
          open[pending] /\ waiting'[pending] = waiting[pending]
    BY SMTT(30), <1>0, <1>2 DEF ConnClose
  <2> QED BY SMTT(30), <1>2, <2>1, CalmStep DEF ConnClose
<1>3. ASSUME NEW c \in Conns, PostConnect(c) PROVE AskerInv'
  <2>1. IsFiniteSet(sessl)
    <3>1. IsFiniteSet(1..MaxSessions)
      BY FS_Interval
    <3>2. sessl \subseteq 1..MaxSessions
      BY DEF HttpInv, TypeOK, Sess
    <3> QED BY Zenon, <3>1, <3>2, FS_Subset
  <2>2. Cardinality(sessl) \in Nat /\ Cardinality(sessl) < 1
    BY <1>3, <2>1, FS_CardinalityType DEF PostConnect
  <2>3. sessl = {}
    BY <2>1, <2>2, FS_EmptySet
  <2> QED BY <1>3, <2>3 DEF PostConnect, AskerInv, ParkedForAsker, AnswerReachesAsker, NoReply
<1>4. ASSUME NEW c \in Conns, NEW s \in Sess, NEW t \in Sess, PostDisconnect(c, s, t)
      PROVE  AskerInv'
  <2>1. \A u \in Sess : Gathering(pc'[u]) => Gathering(pc[u])
    BY Zenon, <1>4, <1>f DEF PostDisconnect
  <2> QED BY SMTT(30), <1>4, <2>1, CalmStep DEF PostDisconnect
<1>5. ASSUME NEW c \in Conns, NEW s \in Sess, NEW t \in Sess, NEW m \in Posts,
             PostSdp(c, s, t, m)
      PROVE  AskerInv'
  <2>1. /\ t \in sessl /\ t \in 1..made /\ s \in 1..made /\ made \in 0..MaxSessions
        /\ IdOf(t) = IdOf(s) /\ pc[t] \in Pc
    BY <1>0, <1>5 DEF PostSdp, Found, HttpInv, TypeOK
  <2>2. AsksFor(s, t)
    BY <2>1 DEF AsksFor, Sess
  <2>3. /\ pc' = [pc EXCEPT ![t] = PostedPc(pc[t], m)] /\ sessl' = sessl
        /\ reply' = NoReply /\ open' = open
        /\ rejected' = IF m.body = "offer" /\ ~m.decodes THEN rejected \cup {t}
                       ELSE rejected
    BY <1>5 DEF PostSdp
  <2>4. \A u \in Sess : Gathering(pc'[u]) => u = t
    BY SMTT(30), <1>0, <2>1, <2>3 DEF AskerInv
  <2>5. AnswerReachesAsker' /\ \A u, v \in sessl' : u = v
    BY <2>3 DEF AskerInv, AnswerReachesAsker, NoReply
  <2>6. CASE PostedOk(pc[t], m)
    <3>1. pending' = c /\ waiting'[c] = s
      BY SMTT(30), <1>0, <1>5, <2>6 DEF PostSdp
    <3>2. ParkedForAsker'
      BY SMTT(30), <2>2, <2>4, <3>1 DEF ParkedForAsker, Gathering
    <3> QED BY SMTT(30), <2>5, <3>2 DEF AskerInv
  <2>7. CASE ~PostedOk(pc[t], m)
    <3>1. pending' = pending /\ waiting' = waiting
      BY <1>5, <2>7 DEF PostSdp
    <3>2. Gathering(pc'[t]) => Gathering(pc[t]) \/ t \in rejected'
      <4>1. pc'[t] = PostedPc(pc[t], m)
        BY SMTT(30), <1>0, <2>3
      <4> QED BY SMTT(30), <2>1, <2>3, <2>7, <4>1, PostedGathering
    <3>3. ParkedForAsker'
      <4>1. rejected \subseteq rejected'
        BY SMTT(30), <2>3
      <4> QED BY SMTT(30), <2>3, <2>4, <3>1, <3>2, <4>1 DEF AskerInv, ParkedForAsker, Gathering
    <3> QED BY <2>5, <3>3 DEF AskerInv
  <2> QED BY <2>6, <2>7
<1>6. ASSUME NEW s \in Sess, NEW checks \in BOOLEAN, Gathered(s, checks)
      PROVE  AskerInv'
  <2>1. /\ Gathering(pc[s]) /\ pc[s] \in Pc /\ s \in sessl
        /\ pc[s].ss = HaveRemoteOffer
    BY <1>0, <1>6 DEF Gathered, Gathering, HttpInv, PcOk
  <2>2. /\ MnatEstab(pc[s]).ss = HaveRemoteOffer /\ MnatEstab(pc[s]) \in Pc
    BY Zenon, <2>1 DEF MnatEstab, Pc
  <2>3. /\ pc' = [pc EXCEPT ![s] = StartIce(CreateAnswer(MnatEstab(pc[s])), checks)]
        /\ ReplyDescr(s, "answer")
    BY <1>6, <2>2 DEF Gathered, GatherHandler
  <2>4. UNCHANGED <<sessl, open, pending, rejected>>
    BY <1>6 DEF Gathered
  <2>5. ~Gathering(pc'[s])
    <3> DEFINE r == CreateAnswer(MnatEstab(pc[s]))
    <3>1. r \in Pc /\ r.gather_ok
      BY Zenon, <2>1 DEF CreateAnswer, CreateAnswerOk, MnatEstab, Pc
    <3>2. pc'[s] = StartIce(r, checks)
      BY <1>0, <2>3
    <3> HIDE DEF r
    <3> QED BY <3>1, <3>2, GatheringKept DEF Gathering
  <2>6. \A u \in Sess : ~Gathering(pc'[u])
    BY <1>0, <2>1, <2>3, <2>5 DEF AskerInv
  <2>7. AnswerReachesAsker'
    <3>1. CASE s \in rejected
      BY SMTT(30), <2>3, <2>4, <3>1 DEF ReplyDescr, AnswerReachesAsker, NoReply
    <3>2. CASE s \notin rejected
      <4>1. pending # None /\ (open[pending] => AsksFor(waiting[pending], s))
        BY SMTT(30), <2>1, <3>2 DEF AskerInv, ParkedForAsker, Gathering
      <4> QED BY <2>3, <4>1 DEF ReplyDescr, AnswerReachesAsker, NoReply
    <3> QED BY SMTT(30), <3>1, <3>2
  <2> QED BY SMTT(30), <2>4, <2>6, <2>7 DEF AskerInv, ParkedForAsker, Gathering
<1>7. ASSUME NEW s \in Sess, GatherFailed(s) \/ MediaError(s) PROVE AskerInv'
  <2>1. \A u \in Sess : Gathering(pc'[u]) => Gathering(pc[u])
    BY <1>7, <1>f DEF GatherFailed, MediaError
  <2> QED BY SMTT(30), <1>7, <2>1, CalmStep DEF GatherFailed, MediaError
<1>8. ASSUME NEW s \in Sess, NEW reinvite \in BOOLEAN, NEW checks \in BOOLEAN,
             IceConnected(s, reinvite, checks)
      PROVE  AskerInv'
  <2>1. /\ pc' = [pc EXCEPT ![s] = MnatConn(pc[s])]
        /\ reply' = NoReply /\ UNCHANGED <<sessl, open, pending, waiting, rejected>>
    BY SMTT(30), <1>8 DEF IceConnected, HttpInv, PcOk
  <2>2. Gathering(MnatConn(pc[s])) => Gathering(pc[s])
    BY SMTT(30), <1>0, GatheringKept
  <2>3. \A u \in Sess : Gathering(pc'[u]) => Gathering(pc[u])
    BY <1>p, <2>1, <2>2
  <2> QED BY SMTT(30), <2>1, <2>3, CalmStep
<1>9. ASSUME NEW s \in Sess, NEW source \in BOOLEAN, DtlsSecure(s, source)
      PROVE  AskerInv'
  <2>1. /\ pc' = [pc EXCEPT ![s] = Established(pc[s], source)]
        /\ reply' = NoReply /\ UNCHANGED <<sessl, open, pending, waiting, rejected>>
    BY SMTT(30), <1>9 DEF DtlsSecure
  <2>2. Gathering(Established(pc[s], source)) => Gathering(pc[s])
    BY SMTT(30), <1>0, GatheringKept
  <2>3. \A u \in Sess : Gathering(pc'[u]) => Gathering(pc[u])
    BY SMTT(30), <1>p, <2>1, <2>2
  <2> QED BY <2>1, <2>3, CalmStep
<1>10. ASSUME NEW s \in Sess, NEW checks \in BOOLEAN, IceTmrExpires(s, checks)
       PROVE  AskerInv'
  <2>1. /\ pc' = [pc EXCEPT ![s] = IceTmr(pc[s], checks)]
        /\ reply' = NoReply /\ UNCHANGED <<sessl, open, pending, waiting, rejected>>
    BY SMTT(30), <1>10 DEF IceTmrExpires
  <2>2. Gathering(IceTmr(pc[s], checks)) => Gathering(pc[s])
    BY SMTT(30), <1>0, GatheringKept
  <2>3. \A u \in Sess : Gathering(pc'[u]) => Gathering(pc[u])
    BY <1>p, <2>1, <2>2
  <2> QED BY <2>1, <2>3, CalmStep
<1>11. CASE (\E s \in Sess : DanglingTmrExpires(s)) \/ UNCHANGED vars
  BY SMTT(30), <1>11, CalmStep DEF DanglingTmrExpires, vars
<1>12. CASE DemoClose
  <2>1. \A u \in Sess : ~pc'[u].alive
    BY <1>12 DEF DemoClose, FreePc, NoPc
  <2> QED BY SMTT(30), <1>12, <2>1 DEF DemoClose, AskerInv, ParkedForAsker, AnswerReachesAsker, NoReply
<1> QED BY <1>1, <1>2, <1>3, <1>4, <1>5, <1>6, <1>7, <1>8, <1>9, <1>10, <1>11, <1>12
       DEF Next, Stopped

(***************************************************************************)
(* When sessions follow one another, conn_pending is a request for the     *)
(* session that still gathers (handle_post_sdp,                            *)
(* peerconnection_gather_handler), and every description written to it     *)
(* answers a request that named its session.  Nothing is assumed of the    *)
(* width of session_counter: ids may wrap, and stale ids may be used.      *)
(***************************************************************************)
THEOREM AskersTracked ==
  ASSUME MaxLive <= 1
  PROVE  Spec => []AskerInv
<1>1. Init => AskerInv
  BY DEF Init, AskerInv, ParkedForAsker, AnswerReachesAsker, NoReply, NoPc
<1>2. HttpInv /\ AskerInv /\ [Next]_vars => AskerInv'
  BY AskerStep
<1> QED BY <1>1, <1>2, HttpInvariant, PTL DEF Spec

-----------------------------------------------------------------------------
(* The server implements the abstract module Negotiation.  The refinement  *)
(* mapping is in HttpDemo: an offer is held while the session's peer       *)
(* connection is in have-remote-offer.                                     *)

(* A step of one session that sends nothing takes an offer, drops one, or  *)
(* leaves the offers alone, whatever it does to the peer connection.       *)
LEMMA SilentStep ==
  ASSUME pc \in [Sess -> Pc], NEW s \in Sess, NEW q,
         pc' = [pc EXCEPT ![s] = q], reply' = NoReply
  PROVE  Neg!Next
<1>1. Sent' = 0
  BY DEF Sent, NoReply
<1>2. \A t \in Sess : pc'[t] = IF t = s THEN q ELSE pc[t]
  OBVIOUS
<1>3. CASE q.ss = HaveRemoteOffer /\ pc[s].ss # HaveRemoteOffer
  <2>1. Holding' = Holding \cup {s} /\ s \notin Holding
    BY <1>2, <1>3 DEF Holding
  <2> QED  BY <1>1, <2>1 DEF Neg!Next, Neg!Offer
<1>4. CASE q.ss = HaveRemoteOffer /\ pc[s].ss = HaveRemoteOffer
  <2>1. Holding' = Holding \ {}
    BY <1>2, <1>4 DEF Holding
  <2>2. {} \in SUBSET Sess
    OBVIOUS
  <2> QED  BY Zenon, <1>1, <2>1, <2>2 DEF Neg!Next, Neg!Drop
<1>5. CASE q.ss # HaveRemoteOffer
  <2>1. Holding' = Holding \ {s}
    BY <1>2, <1>5 DEF Holding
  <2>2. {s} \in SUBSET Sess
    OBVIOUS
  <2> QED  BY Zenon, <1>1, <2>1, <2>2 DEF Neg!Next, Neg!Drop
<1> QED  BY <1>3, <1>4, <1>5

(* A step that only concerns connections sends and takes nothing.          *)
LEMMA IdleStep ==
  ASSUME pc' = pc, reply' = NoReply
  PROVE  Neg!Next
<1>1. Sent' = 0 /\ Holding' = Holding \ {} /\ {} \in SUBSET Sess
  BY DEF Sent, NoReply, Holding
<1> QED  BY Zenon, <1>1 DEF Neg!Next, Neg!Drop

(* Freeing the peer connections of S drops their offers.                   *)
LEMMA FreeStep ==
  ASSUME NEW S, S \subseteq Sess, FreePc(S), reply' = NoReply
  PROVE  Neg!Next
<1>1. Sent' = 0
  BY DEF Sent, NoReply
<1>2. \A t \in Sess : pc'[t] = IF t \in S THEN NoPc ELSE pc[t]
  BY DEF FreePc
<1>3. NoPc.ss # HaveRemoteOffer
  BY DEF NoPc
<1>4. Holding' = Holding \ S
  BY <1>2, <1>3 DEF Holding
<1> QED  BY <1>1, <1>4 DEF Neg!Next, Neg!Drop

(* create_answer leaves have-remote-offer, and start_ice does not return.  *)
LEMMA AnswerLeaves ==
  ASSUME NEW p \in Pc, p.alive, p.ss = HaveRemoteOffer, NEW checks \in BOOLEAN
  PROVE  StartIce(CreateAnswer(p), checks).ss # HaveRemoteOffer
<1> DEFINE r == CreateAnswer(p)
<1>1. r \in Pc /\ r.ss = Stable
  BY DEF CreateAnswer, CreateAnswerOk, Pc
<1>2. StartIce(r, checks).ss = r.ss
  <2> HIDE DEF r
  <2> QED  BY <1>1 DEF StartIce, Pc
<1> QED  BY <1>1, <1>2

(* The gather callback sends the session's description for the offer that  *)
(* the session holds: the invariant says that it does hold one then.       *)
LEMMA GatheredStep ==
  ASSUME HttpInv, NEW s \in Sess, NEW checks \in BOOLEAN, Gathered(s, checks)
  PROVE  Neg!Next
<1> DEFINE p == MnatEstab(pc[s])
           q == StartIce(CreateAnswer(p), checks)
<1>1. pc \in [Sess -> Pc] /\ pc[s] \in Pc
  BY DEF HttpInv, TypeOK
<1>2. pc[s].ss = HaveRemoteOffer
  BY DEF HttpInv, PcOk, Gathered
<1>3. p \in Pc /\ p.alive /\ p.ss = HaveRemoteOffer
  BY Zenon, <1>1, <1>2 DEF MnatEstab, Pc, Gathered
<1>4. q.ss # HaveRemoteOffer
  <2> HIDE DEF p
  <2> QED  BY <1>3, AnswerLeaves
<1>5. pc' = [pc EXCEPT ![s] = q] /\ ReplyDescr(s, "answer")
  BY <1>3 DEF Gathered, GatherHandler
<1>6. Holding' = Holding \ {s} /\ s \in Holding
  <2> HIDE DEF q
  <2> QED  BY <1>1, <1>2, <1>4, <1>5 DEF Holding
<1>7. Sent' \in {0, s}
  BY <1>5 DEF ReplyDescr, Sent, NoReply
<1> QED  BY <1>6, <1>7 DEF Neg!Next, Neg!Answer

(* Every step of the server is a step of Negotiation or changes nothing    *)
(* that Negotiation sees.                                                  *)
LEMMA StepRefines ==
  ASSUME HttpInv, [Next]_vars
  PROVE  [Neg!Next]_<<Holding, Sent>>
<1>0. pc \in [Sess -> Pc]
  BY DEF HttpInv, TypeOK
<1>1. ASSUME NEW c \in Conns, Accept(c) \/ ConnClose(c) \/ PostConnect(c)
      PROVE  Neg!Next
  BY <1>1, IdleStep DEF Accept, ConnClose, PostConnect
<1>2. ASSUME NEW c \in Conns, NEW s \in Sess, NEW t \in Sess, PostDisconnect(c, s, t)
      PROVE  Neg!Next
  BY <1>2, FreeStep DEF PostDisconnect
<1>3. ASSUME NEW c \in Conns, NEW s \in Sess, NEW t \in Sess, NEW m \in Posts,
             PostSdp(c, s, t, m)
      PROVE  Neg!Next
  BY Zenon, <1>0, <1>3, SilentStep DEF PostSdp
<1>4. ASSUME NEW s \in Sess, NEW checks \in BOOLEAN, Gathered(s, checks)
      PROVE  Neg!Next
  BY <1>4, GatheredStep
<1>5. ASSUME NEW s \in Sess, GatherFailed(s) \/ MediaError(s)
      PROVE  Neg!Next
  BY <1>5, FreeStep DEF GatherFailed, MediaError
<1>6. ASSUME NEW s \in Sess, NEW reinvite \in BOOLEAN, NEW checks \in BOOLEAN,
             IceConnected(s, reinvite, checks)
      PROVE  Neg!Next
  <2>1. ~pc[s].offerer
    BY DEF HttpInv, PcOk
  <2> QED  BY <1>0, <1>6, <2>1, SilentStep DEF IceConnected
<1>7. ASSUME NEW s \in Sess, NEW source \in BOOLEAN, DtlsSecure(s, source)
      PROVE  Neg!Next
  BY Zenon, <1>0, <1>7, SilentStep DEF DtlsSecure
<1>8. ASSUME NEW s \in Sess, NEW checks \in BOOLEAN, IceTmrExpires(s, checks)
      PROVE  Neg!Next
  BY Zenon, <1>0, <1>8, SilentStep DEF IceTmrExpires
<1>9. CASE DemoClose
  BY <1>9, FreeStep DEF DemoClose
<1>10. CASE (\E s \in Sess : DanglingTmrExpires(s)) \/ Stopped \/ UNCHANGED vars
  BY <1>10 DEF DanglingTmrExpires, Stopped, vars, Holding, Sent
<1> QED
  BY <1>1, <1>2, <1>3, <1>4, <1>5, <1>6, <1>7, <1>8, <1>9, <1>10 DEF Next

(* The server implements Negotiation: whatever requests, closed sockets,   *)
(* failed decodings, gather results and media errors come in whatever      *)
(* order, reply_descr sends a description only for an offer that the       *)
(* session holds, and never a second one for the same offer.               *)
THEOREM ServerNegotiates == Spec => Negotiates
<1>1. Init => Neg!Init
  BY DEF Init, Neg!Init, Holding, Sent, NoPc, NoReply
<1>2. HttpInv /\ [Next]_vars => [Neg!Next]_<<Holding, Sent>>
  BY StepRefines
<1> QED
  BY <1>1, <1>2, HttpInvariant, PTL DEF Spec, Negotiates, Neg!Spec
=============================================================================
