-------------------------------- MODULE Dtls --------------------------------
(***************************************************************************)
(* The way of one media stream to encryption at two ends that run this     *)
(* code: the stream of baresip (stream.c), the dtls_srtp module, the DTLS  *)
(* sockets of libre (tls_udp.c) and the handlers of the peer connection.   *)
(* A stream may send once ICE has connected, DTLS has delivered the keys   *)
(* and a remote address is known, in whatever order these happen.  RTP and *)
(* RTCP share one component.  The handshake itself is OpenSSL's: four      *)
(* flights, each repeated by a timer, over a network that loses, repeats   *)
(* and reorders.                                                           *)
(***************************************************************************)
EXTENDS Naturals, FiniteSets

CONSTANTS MaxTries,   \* timeouts before OpenSSL gives up
          MaxUpdates, \* remote descriptions an end may get
          SdpAddr,    \* ends whose description holds a usable address
          Outcomes,   \* how an end's check of the other and its keying may end
          RoomEnds    \* ends that start media on the room server's word

ASSUME BoundAssumption == MaxTries \in Nat /\ MaxUpdates \in Nat

Ends == {"offerer", "answerer"}
Peer(e) == IF e = "offerer" THEN "answerer" ELSE "offerer"

VARIABLES end,      \* stream, dtls_srtp component and DTLS connection of an end
          outcome,  \* how the check of the fingerprint and the keying will end
          net,      \* flights under way: [to, f]
          updates   \* remote descriptions taken

vars == <<end, outcome, net, updates>>

(* The session lives; the remote description, ICE and the remote address;  *)
(* the dtls_srtp state; the connection: its state, whether it is a client, *)
(* its timeouts; the keys installed; what the stream knows; whether media  *)
(* was started by the room's word, and whether any left unencrypted.       *)
NewEnd == [up |-> TRUE, remote |-> FALSE, conn |-> FALSE, raddr |-> "none",
          started |-> FALSE, active |-> FALSE, sock |-> FALSE,
          tc |-> "none", client |-> FALSE, tries |-> 0,
          negotiated |-> FALSE, tx |-> "none", rx |-> "none",
          secure |-> FALSE, rtcp |-> "off", forced |-> FALSE, clear |-> FALSE]

Init == /\ end = [e \in Ends |-> NewEnd]
        /\ outcome \in [Ends -> Outcomes]
        /\ net = {}
        /\ updates = [e \in Ends |-> 0]

\* session_alloc writes the setup attribute once.
setup(e) == IF e = "offerer" THEN "actpass" ELSE "active"

-----------------------------------------------------------------------------
(* Handlers compute the new end c and the flights out it sends.            *)

St(c, out) == [c |-> c, out |-> out]

Said(s, f) == St(s.c, s.out \cup {f})

\* tls_close: an established connection says goodbye.
tls_close(s) ==
  LET r == IF s.c.tc = "up" THEN Said(s, "bye") ELSE s IN
  St([r.c EXCEPT !.tc = "none"], r.out)

\* The application's close handler frees the peer connection and all it owns.
Closed(s) == LET r == tls_close(s) IN St([r.c EXCEPT !.up = FALSE], r.out)

stream_is_ready(c) == c.conn /\ c.secure /\ c.raddr # "none"

\* rtcp_start: reports go to the address known now.
stream_start(s) == St([s.c EXCEPT !.rtcp = s.c.raddr], s.out)

StartIfReady(s) == IF stream_is_ready(s.c) THEN stream_start(s) ELSE s

tls_connect(s) ==
  Said(St([s.c EXCEPT !.tc = "hello", !.client = TRUE, !.tries = 0], s.out), "CH")

component_start(s) ==
  LET r == St([s.c EXCEPT !.sock = TRUE], s.out) IN
  IF s.c.negotiated \/ s.c.sock THEN s
  ELSE IF s.c.raddr # "none" /\ s.c.active /\ s.c.tc = "none" THEN tls_connect(r)
  ELSE r

media_start(s) ==
  IF s.c.started THEN s
  ELSE LET r == component_start(s) IN St([r.c EXCEPT !.started = TRUE], r.out)

\* media_alloc through stream_start_mediaenc: nothing to do before the remote
\* description; the role is read from it each time.
media_alloc(s, e) ==
  IF ~s.c.remote THEN s
  ELSE media_start(St([s.c EXCEPT !.active = (setup(Peer(e)) # "active")], s.out))

\* A fingerprint of an unknown hash is an error once DTLS has been started.
media_alloc_fails(s, e) == s.c.remote /\ outcome[e] = "hash"

stream_update(s, e) ==
  LET r == StartIfReady(St([s.c EXCEPT !.remote = TRUE,
                              !.raddr = IF Peer(e) \in SdpAddr THEN "sdp" ELSE "none"],
                           s.out))
  IN IF r.c.conn THEN media_alloc(r, e) ELSE r

mnat_connected_handler(s, e) ==
  LET r == media_alloc(StartIfReady(St([s.c EXCEPT !.raddr = "nominated", !.conn = TRUE],
                                       s.out)), e)
  IN IF media_alloc_fails(r, e) THEN Closed(r) ELSE r

\* menc_event_handler of the peer connection, and peerconnection_start_media.
Secure(s) == stream_start(St([s.c EXCEPT !.secure = TRUE], s.out))

\* Both keys by the role, and the helper on the socket that uses them.
Installed(c) == [c EXCEPT !.negotiated = TRUE,
                    !.tx = IF c.active THEN "client" ELSE "server",
                    !.rx = IF c.active THEN "server" ELSE "client"]

\* The fingerprint matches and all goes well; OpenSSL hands out no keys; no SRTP
\* stream can be made of them, and nobody is told of either; the helper cannot be
\* installed, and the stream is reported secure all the same; or the fingerprint
\* does not match ("mismatch", "hash").
\* Mutant: the stream is called secure before the keys are in place.
dtls_estab_handler_Early(s, e) ==
  LET done == [s.c EXCEPT !.negotiated = TRUE] IN
  CASE outcome[e] \in {"match", "nohelper"} -> Secure(St(done, s.out))
    [] outcome[e] = "nokeys" -> s
    [] outcome[e] = "nostreams" -> St(done, s.out)
    [] OTHER -> Closed(s)
dtls_estab_handler(s, e) ==
  LET done == [s.c EXCEPT !.negotiated = TRUE] IN
  CASE outcome[e] = "match" -> Secure(St(Installed(s.c), s.out))
    [] outcome[e] = "nokeys" -> s
    [] outcome[e] = "nostreams" -> St(done, s.out)
    [] outcome[e] = "nohelper" -> Secure(St(done, s.out))
    [] OTHER -> Closed(s)

\* conn_close and dtls_close_handler: only an unfinished handshake is an error.
conn_close(s) == IF s.c.negotiated THEN tls_close(s) ELSE Closed(s)

Up(s, e) == dtls_estab_handler(St([s.c EXCEPT !.tc = "up"], s.out), e)

\* dtls_conn_handler, dtls_accept: a packet of an unknown peer that opens a
\* handshake; another one is an error of SSL_accept, and the connection is freed.
dtls_accept(s, f) ==
  IF f = "CH" THEN Said(St([s.c EXCEPT !.tc = "hello", !.client = FALSE, !.tries = 0],
                           s.out), "SH")
  ELSE s

\* conn_recv: what OpenSSL makes of a flight, and what the code makes of that.
conn_recv(s, e, f) ==
  LET c == s.c IN
  CASE c.client /\ c.tc = "hello" /\ f = "SH" ->
         Said(St([c EXCEPT !.tc = "finished", !.tries = 0], s.out), "CF")
    [] c.client /\ c.tc = "hello" /\ f = "CH" -> conn_close(s)
    [] c.client /\ c.tc = "finished" /\ f = "SF" -> Up(s, e)
    [] ~c.client /\ c.tc = "hello" /\ f = "CH" -> Said(s, "SH")
    [] ~c.client /\ c.tc = "hello" /\ f = "CF" -> Up(Said(s, "SF"), e)
    [] ~c.client /\ c.tc = "up" /\ f = "CF" -> Said(s, "SF")
    [] c.tc = "up" /\ f = "bye" -> conn_close(s)
    [] OTHER -> s

\* recv_handler: without a DTLS socket the packet is not for DTLS.
recv_handler(s, e, f) ==
  IF ~s.c.up \/ ~s.c.sock THEN s
  ELSE IF s.c.tc = "none" THEN dtls_accept(s, f)
  ELSE conn_recv(s, e, f)

flight(c) == CASE c.client /\ c.tc = "hello" -> "CH"
               [] c.client /\ c.tc = "finished" -> "CF"
               [] OTHER -> "SH"

\* Mutant: one timeout too many.
timeout_Late(s) ==
  IF s.c.tries <= MaxTries
  THEN Said(St([s.c EXCEPT !.tries = @ + 1], s.out), flight(s.c))
  ELSE conn_close(s)
timeout(s) ==
  IF s.c.tries < MaxTries
  THEN Said(St([s.c EXCEPT !.tries = @ + 1], s.out), flight(s.c))
  ELSE conn_close(s)

-----------------------------------------------------------------------------

Apply(e, s, rest) ==
  /\ end' = [end EXCEPT ![e] = s.c]
  /\ net' = rest \cup {[to |-> Peer(e), f |-> f] : f \in s.out}

\* An offer, then its answer; a new offer later.
SetRemote(e) ==
  /\ end[e].up
  /\ updates[e] < MaxUpdates
  /\ IF e = "answerer" THEN updates[e] = updates[Peer(e)]
     ELSE updates[e] < updates[Peer(e)]
  /\ Apply(e, stream_update(St(end[e], {}), e), net)
  /\ updates' = [updates EXCEPT ![e] = @ + 1]
  /\ UNCHANGED outcome

\* ICE connects once it has the remote candidates, and again after a restart.
MnatConnected(e) ==
  /\ end[e].up /\ end[e].remote /\ end[e].raddr # "nominated"
  /\ Apply(e, mnat_connected_handler(St(end[e], {}), e), net)
  /\ UNCHANGED <<outcome, updates>>

Receive(e) ==
  \E p \in net :
    /\ p.to = e
    /\ \E rest \in {net, net \ {p}} : Apply(e, recv_handler(St(end[e], {}), e, p.f), rest)
    /\ UNCHANGED <<outcome, updates>>

Timeout(e) ==
  /\ end[e].up /\ end[e].tc \in {"hello", "finished"}
  /\ Apply(e, timeout(St(end[e], {})), net)
  /\ UNCHANGED <<outcome, updates>>

\* The room server saw its own end of the handshake finished.
StartMedia(e) ==
  /\ e \in RoomEnds /\ end[e].up /\ end[e].remote /\ ~end[e].forced
  /\ end[Peer(e)].secure
  /\ end' = [end EXCEPT ![e] = [Secure(St(@, {})).c EXCEPT !.forced = TRUE]]
  /\ UNCHANGED <<outcome, net, updates>>

\* stream_send: SRTP is applied by the helper that srtp_install put on the socket.
SendMedia(e) ==
  /\ end[e].up /\ stream_is_ready(end[e])
  /\ end[e].tx = "none" /\ ~end[e].clear
  /\ end' = [end EXCEPT ![e].clear = TRUE]
  /\ UNCHANGED <<outcome, net, updates>>

\* The application hangs up.
HangUp(e) ==
  /\ end[e].up
  /\ Apply(e, Closed(St(end[e], {})), net)
  /\ UNCHANGED <<outcome, updates>>

Next == \E e \in Ends : \/ SetRemote(e) \/ MnatConnected(e) \/ Receive(e) \/ Timeout(e)
                        \/ StartMedia(e) \/ SendMedia(e) \/ HangUp(e)

Spec == Init /\ [][Next]_vars

\* Timers run out.
FairSpec == Spec /\ \A e \in Ends : WF_vars(Timeout(e))

-----------------------------------------------------------------------------

TypeOK ==
  /\ \A e \in Ends :
       /\ end[e].raddr \in {"none", "sdp", "nominated"}
       /\ end[e].tc \in {"none", "hello", "finished", "up"}
       /\ {end[e].tx, end[e].rx} \subseteq {"none", "client", "server"}
       /\ end[e].tries \in 0..MaxTries
  /\ net \subseteq [to : Ends, f : {"CH", "SH", "CF", "SF", "bye"}]

(* Two ends that have keys can talk: what one sends with is what the other *)
(* receives with, and nobody uses one key in both directions.  The role is *)
(* read again from every description, the keys are taken much later        *)
(* (media_alloc, dtls_estab_handler).                                      *)
KeysAgree ==
  \A e \in Ends :
    (end[e].tx # "none" /\ end[Peer(e)].tx # "none") =>
      /\ end[e].tx = end[Peer(e)].rx
      /\ end[e].tx # end[e].rx

(* A stream is called secure by DTLS only against the certificate the      *)
(* description named, and only with keys in both directions, unless the    *)
(* helper that would use them could not be installed                       *)
(* (verify_fingerprint, dtls_estab_handler, menc_event_handler).           *)
SecureIsVerified ==
  \A e \in Ends :
    (end[e].secure /\ ~end[e].forced) =>
      /\ outcome[e] \in {"match", "nohelper"}
      /\ outcome[e] = "match" => end[e].tx # "none" /\ end[e].rx # "none"

(* Media leaves unencrypted in two cases only: the room server's word      *)
(* started it before this end had its keys, or the SRTP helper could not   *)
(* be installed (stream_is_ready, stream_send, peerconnection_start_media, *)
(* dtls_estab_handler).                                                    *)
ClearExplained ==
  \A e \in Ends : end[e].clear => end[e].forced \/ outcome[e] = "nohelper"

(* Whatever comes last of ICE, DTLS and the description starts RTCP, and   *)
(* the reports of a stream that may send go where its media goes           *)
(* (stream_remote_set, mnat_connected_handler, menc_event_handler).        *)
ReportsFollowMedia ==
  \A e \in Ends : stream_is_ready(end[e]) => end[e].rtcp = end[e].raddr

(* The four together, with the types: what holds of a stream however ICE,  *)
(* DTLS, descriptions and the room server's word are ordered               *)
(* (dtls_srtp.c and stream.c of baresip).                                  *)
DtlsKept ==
  TypeOK /\ KeysAgree /\ SecureIsVerified /\ ClearExplained /\ ReportsFollowMedia

(* A handshake ends: the stream becomes secure or the application is told, *)
(* whatever the network and the other end do, unless the keys of a         *)
(* finished handshake cannot be used, of which nobody is told (timeout,    *)
(* conn_close, dtls_close_handler, menc_error_handler,                     *)
(* dtls_estab_handler).                                                    *)
HandshakeEnds ==
  \A e \in Ends :
    end[e].tc # "none" ~>
      \/ end[e].secure
      \/ ~end[e].up
      \/ end[e].tc = "up" /\ outcome[e] \in {"nokeys", "nostreams"}
-----------------------------------------------------------------------------
(* The inductive invariant: what holds of an end at any time.  The role    *)
(* that the keys follow is settled before the first packet can be taken,   *)
(* because the DTLS socket is opened after the role was read, and every    *)
(* further description says the same; the answerer is the client.          *)
Sides == [up : BOOLEAN, remote : BOOLEAN, conn : BOOLEAN,
          raddr : {"none", "sdp", "nominated"}, started : BOOLEAN, active : BOOLEAN,
          sock : BOOLEAN, tc : {"none", "hello", "finished", "up"}, client : BOOLEAN,
          tries : 0..MaxTries, negotiated : BOOLEAN,
          tx : {"none", "client", "server"}, rx : {"none", "client", "server"},
          secure : BOOLEAN, rtcp : {"off", "none", "sdp", "nominated"},
          forced : BOOLEAN, clear : BOOLEAN]

KeyOf(e) == IF e = "answerer" THEN "client" ELSE "server"

EndOk(c, e) ==
  /\ c.sock => c.remote /\ c.active = (e = "answerer")
  /\ c.tc # "none" => c.up /\ c.sock
  /\ c.client => e = "answerer"
  /\ c.tc = "finished" => c.client
  /\ <<c.tx, c.rx>> \in {<<"none", "none">>, <<KeyOf(e), KeyOf(Peer(e))>>}
  /\ c.secure /\ ~c.forced =>
       outcome[e] = "nohelper" \/ (outcome[e] = "match" /\ c.tx # "none")
  /\ c.clear => c.forced \/ outcome[e] = "nohelper"
  /\ stream_is_ready(c) => c.rtcp = c.raddr

(* Both ends are so at any time, whatever is on the network (media_alloc,  *)
(* dtls_estab_handler, menc_event_handler, stream_remote_set).             *)
DtlsInv ==
  /\ end \in [Ends -> Sides]
  /\ net \subseteq [to : Ends, f : {"CH", "SH", "CF", "SF", "bye"}]
  /\ \A e \in Ends : EndOk(end[e], e)
=============================================================================
