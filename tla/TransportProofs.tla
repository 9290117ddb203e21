--------------------------- MODULE TransportProofs ---------------------------
(***************************************************************************)
(* Proofs about the transport of a media stream.  Its way to encryption,   *)
(* for any number of timeouts and descriptions, any certificates, any ends *)
(* with an address in their description and any ends that the room server  *)
(* may start.  The gathering of its candidates, for any number of streams  *)
(* and of components.                                                      *)
(***************************************************************************)
EXTENDS Dtls, MnatIce, TLAPS

Flights == {"CH", "SH", "CF", "SF", "bye"}

(* EndOk without what rtcp_start settles.                                  *)
Keyed(c, e) ==
  /\ c.sock => c.remote /\ c.active = (e = "answerer")
  /\ c.tc # "none" => c.up /\ c.sock
  /\ c.client => e = "answerer"
  /\ c.tc = "finished" => c.client
  /\ <<c.tx, c.rx>> \in {<<"none", "none">>, <<KeyOf(e), KeyOf(Peer(e))>>}
  /\ c.secure /\ ~c.forced =>
       outcome[e] = "nohelper" \/ (outcome[e] = "match" /\ c.tx # "none")
  /\ c.clear => c.forced \/ outcome[e] = "nohelper"

(* A result of a handler of end e.                                         *)
Result(s, e) == s.c \in Sides /\ s.out \subseteq Flights /\ EndOk(s.c, e)

(* What the invariant says of one end.                                     *)
LEMMA Parts ==
  ASSUME NEW c, NEW e
  PROVE  EndOk(c, e) <=> Keyed(c, e) /\ (stream_is_ready(c) => c.rtcp = c.raddr)
  BY DEF EndOk, Keyed

(* What St and Said make of an end and its flights.                        *)
LEMMA StFields ==
  ASSUME NEW c, NEW out, NEW f
  PROVE  /\ St(c, out).c = c /\ St(c, out).out = out
         /\ Said(St(c, out), f).c = c /\ Said(St(c, out), f).out = out \cup {f}
  BY DEF St, Said

(* tls_close, and the application's close handler.                         *)
LEMMA CloseResult ==
  ASSUME NEW e \in Ends, NEW s, Result(s, e)
  PROVE  Result(tls_close(s), e) /\ Result(Closed(s), e)
<1> DEFINE c == [s.c EXCEPT !.tc = "none"]
           d == [c EXCEPT !.up = FALSE]
           o == IF s.c.tc = "up" THEN s.out \cup {"bye"} ELSE s.out
<1>1. s.c \in Sides /\ EndOk(s.c, e) /\ s.out \subseteq Flights
  BY DEF Result
<1>2. tls_close(s).c = c /\ tls_close(s).out = o /\ Closed(s).c = d /\ Closed(s).out = o
  BY DEF tls_close, Closed, Said, St
<1>3. c \in Sides /\ d \in Sides
  BY ZenonT(30), <1>1 DEF Sides
<1>4. o \subseteq Flights
  BY <1>1 DEF Flights
<1>5. EndOk(c, e) /\ EndOk(d, e)
  BY <1>1 DEF EndOk, Sides, stream_is_ready
<1> QED BY <1>2, <1>3, <1>4, <1>5 DEF Result

(* conn_close leaves the end consistent.                                   *)
LEMMA ConnCloseResult ==
  ASSUME NEW e \in Ends, NEW s, Result(s, e)
  PROVE  Result(conn_close(s), e)
  BY CloseResult DEF conn_close

(* rtcp_start, and the places that look whether it is time for it.         *)
LEMMA StartResult ==
  ASSUME NEW e \in Ends, NEW s, s.c \in Sides, s.out \subseteq Flights, Keyed(s.c, e)
  PROVE  /\ Result(stream_start(s), e) /\ Result(StartIfReady(s), e)
         /\ StartIfReady(s).c.up = s.c.up /\ StartIfReady(s).c.remote = s.c.remote
<1> DEFINE c == [s.c EXCEPT !.rtcp = s.c.raddr]
<1>1. stream_start(s).c = c /\ stream_start(s).out = s.out
  BY DEF stream_start, St
<1>2. c \in Sides
  BY DEF Sides
<1>3. c.rtcp = c.raddr /\ Keyed(c, e) /\ c.up = s.c.up /\ c.remote = s.c.remote
  BY DEF Keyed, Sides
<1>4. Result(stream_start(s), e)
  BY Zenon, <1>1, <1>2, <1>3, Parts DEF Result
<1>5. ~stream_is_ready(s.c) => Result(s, e)
  BY Parts DEF Result
<1> QED BY Zenon, <1>1, <1>3, <1>4, <1>5 DEF StartIfReady

(* media_alloc: the role is read before the DTLS socket is opened, and the *)
(* answerer alone connects.                                                *)
LEMMA AllocResult ==
  ASSUME NEW e \in Ends, NEW s, Result(s, e), s.c.up
  PROVE  Result(media_alloc(s, e), e) /\ media_alloc(s, e).c.up
<1>1. s.c \in Sides /\ EndOk(s.c, e) /\ s.out \subseteq Flights
  BY DEF Result
<1>2. CASE ~s.c.remote
  BY <1>2 DEF media_alloc
<1>3. CASE s.c.remote
  <2> DEFINE a == [s.c EXCEPT !.active = (e = "answerer")]
             b == [a EXCEPT !.sock = TRUE]
             h == [b EXCEPT !.tc = "hello", !.client = TRUE, !.tries = 0]
             Begun(c) == [c EXCEPT !.started = TRUE]
  <2>1. (setup(Peer(e)) # "active") = (e = "answerer")
    BY DEF setup, Peer, Ends
  <2>2. a \in Sides
    BY Zenon, <1>1 DEF Sides
  <2>3. b \in Sides
    <3> HIDE DEF a
    <3> QED BY Zenon, <2>2 DEF Sides
  <2>a. h \in Sides
    <3>1. 0 \in 0..MaxTries
      BY BoundAssumption
    <3> HIDE DEF b
    <3> QED BY <2>3, <3>1, Zenon DEF Sides
  <2>4. Begun(a) \in Sides /\ Begun(b) \in Sides /\ Begun(h) \in Sides
    <3> HIDE DEF a, b, h
    <3> QED BY ZenonT(30), <2>2, <2>3, <2>a DEF Sides
  <2>5. EndOk(a, e) /\ EndOk(Begun(a), e) /\ a.up /\ Begun(a).up
    BY <1>1 DEF EndOk, Sides, stream_is_ready
  <2>6. EndOk(Begun(b), e) /\ Begun(b).up
    BY <1>1, <1>3 DEF EndOk, Sides, stream_is_ready
  <2>7. a.active => EndOk(Begun(h), e) /\ Begun(h).up
    BY <1>1, <1>3 DEF EndOk, Sides, stream_is_ready
  <2>8. media_alloc(s, e) = media_start(St(a, s.out))
    BY <1>3, <2>1 DEF media_alloc
  <2> HIDE DEF a, b, h, Begun
  <2> DEFINE m == media_start(St(a, s.out))
  <2>9. \/ m.c = a /\ m.out = s.out
        \/ m.c = Begun(a) /\ m.out = s.out
        \/ m.c = Begun(b) /\ m.out = s.out
        \/ a.active /\ m.c = Begun(h) /\ m.out = s.out \cup {"CH"}
    BY Zenon DEF media_start, component_start, tls_connect, Said, St, b, h, Begun
  <2>10. s.out \cup {"CH"} \subseteq Flights
    BY <1>1 DEF Flights
  <2> QED BY <1>1, <2>2, <2>4, <2>5, <2>6, <2>7, <2>8, <2>9, <2>10 DEF Result
<1> QED BY <1>2, <1>3

(* stream_update and mnat_connected_handler: a new address, then RTCP, then *)
(* DTLS.                                                                   *)
LEMMA UpdateResult ==
  ASSUME NEW e \in Ends, NEW s, Result(s, e), s.c.up
  PROVE  Result(stream_update(s, e), e)
<1> DEFINE c == [s.c EXCEPT !.remote = TRUE,
                            !.raddr = IF Peer(e) \in SdpAddr THEN "sdp" ELSE "none"]
           r == StartIfReady(St(c, s.out))
<1>1. s.c \in Sides /\ EndOk(s.c, e) /\ s.out \subseteq Flights
  BY DEF Result
<1>2. c \in Sides
  BY ZenonT(30), <1>1 DEF Sides
<1>3. Keyed(c, e) /\ c.up
  BY <1>1 DEF EndOk, Keyed, Sides
<1>4. stream_update(s, e) = IF r.c.conn THEN media_alloc(r, e) ELSE r
  BY DEF stream_update
<1> HIDE DEF c
<1>5. St(c, s.out).c = c /\ St(c, s.out).out = s.out
  BY DEF St
<1>6. Result(r, e) /\ r.c.up
  BY <1>1, <1>2, <1>3, <1>5, StartResult
<1> HIDE DEF r
<1> QED BY <1>4, <1>6, AllocResult

(* ICE connects the end (media_start).                                     *)
LEMMA ConnectedResult ==
  ASSUME NEW e \in Ends, NEW s, Result(s, e), s.c.up
  PROVE  Result(mnat_connected_handler(s, e), e)
<1> DEFINE c == [s.c EXCEPT !.raddr = "nominated", !.conn = TRUE]
           q == StartIfReady(St(c, s.out))
           r == media_alloc(q, e)
<1>1. s.c \in Sides /\ EndOk(s.c, e) /\ s.out \subseteq Flights
  BY DEF Result
<1>2. c \in Sides
  BY Zenon, <1>1 DEF Sides
<1>3. Keyed(c, e) /\ c.up
  BY <1>1 DEF EndOk, Keyed, Sides
<1>4. mnat_connected_handler(s, e) = IF media_alloc_fails(r, e) THEN Closed(r) ELSE r
  BY DEF mnat_connected_handler
<1> HIDE DEF c
<1>5. St(c, s.out).c = c /\ St(c, s.out).out = s.out
  BY DEF St
<1>6. Result(q, e) /\ q.c.up
  BY <1>1, <1>2, <1>3, <1>5, StartResult
<1> HIDE DEF q
<1>7. Result(r, e)
  BY <1>6, AllocResult
<1> HIDE DEF r
<1> QED BY <1>4, <1>7, CloseResult

(* The stream is called secure: after the keys were installed, or without  *)
(* them where the helper failed.                                           *)
LEMMA SecureResult ==
  ASSUME NEW e \in Ends, NEW c \in Sides, NEW out \in SUBSET Flights, Keyed(c, e),
         outcome[e] = "nohelper" \/ (outcome[e] = "match" /\ c.tx # "none")
  PROVE  Result(Secure(St(c, out)), e)
<1> DEFINE t == [c EXCEPT !.secure = TRUE]
<1>1. t \in Sides
  BY Zenon DEF Sides
<1>2. Keyed(t, e)
  BY DEF Keyed, Sides
<1>3. Secure(St(c, out)) = stream_start(St(t, out))
  BY DEF Secure, St
<1> HIDE DEF t
<1> QED BY <1>1, <1>2, <1>3, StFields, StartResult

(* dtls_estab_handler: the keys follow the role, and the stream is secure  *)
(* only against the certificate of the description.                        *)
LEMMA UpResult ==
  ASSUME NEW e \in Ends, NEW s, Result(s, e), s.c.tc # "none"
  PROVE  Result(Up(s, e), e)
<1> DEFINE u == [s.c EXCEPT !.tc = "up"]
           n == [u EXCEPT !.negotiated = TRUE]
           k == Installed(u)
           d == St(u, s.out)
<1>1. s.c \in Sides /\ EndOk(s.c, e) /\ s.out \subseteq Flights
  BY DEF Result
<1>2. u \in Sides
  BY <1>1 DEF Sides
<1>3. EndOk(u, e) /\ u.sock
  BY <1>1 DEF EndOk, Sides, stream_is_ready
<1>4. Up(s, e) = dtls_estab_handler(d, e) /\ d.c = u /\ d.out = s.out
  BY DEF Up, St
<1>5. Result(d, e)
  BY <1>1, <1>2, <1>3, <1>4 DEF Result
<1> HIDE DEF u, d
<1>6. n \in Sides /\ k \in Sides
  BY ZenonT(30), <1>2 DEF Sides, Installed
<1>7. EndOk(n, e)
  BY <1>2, <1>3 DEF EndOk, Sides, stream_is_ready
<1>8. outcome[e] = "match" => Keyed(k, e) /\ k.tx # "none"
  BY <1>2, <1>3 DEF Installed, EndOk, Keyed, Sides, KeyOf, Peer, Ends
<1>9. \/ outcome[e] = "match" /\ Up(s, e) = Secure(St(k, s.out))
      \/ outcome[e] = "nohelper" /\ Up(s, e) = Secure(St(n, s.out))
      \/ Up(s, e) \in {d, St(n, s.out), Closed(d)}
  <2>1. Installed(d.c) = k /\ [d.c EXCEPT !.negotiated = TRUE] = n
    BY Zenon, <1>4
  <2>2. \/ outcome[e] = "match" /\ Up(s, e) = Secure(St(Installed(d.c), d.out))
        \/ /\ outcome[e] = "nohelper"
           /\ Up(s, e) = Secure(St([d.c EXCEPT !.negotiated = TRUE], d.out))
        \/ Up(s, e) = d
        \/ Up(s, e) = St([d.c EXCEPT !.negotiated = TRUE], d.out)
        \/ Up(s, e) = Closed(d)
    BY Zenon, <1>4 DEF dtls_estab_handler
  <2> HIDE DEF n, k
  <2> QED BY Zenon, <1>4, <2>1, <2>2
<1> HIDE DEF n, k
<1>10. Result(St(n, s.out), e)
  BY <1>1, <1>6, <1>7 DEF Result, St
<1>11. Keyed(n, e)
  BY <1>7, Parts
<1> QED BY <1>1, <1>5, <1>6, <1>8, <1>9, <1>10, <1>11, CloseResult, SecureResult

(* Something more is sent.                                                 *)
LEMMA SaidResult ==
  ASSUME NEW e \in Ends, NEW s, Result(s, e), NEW f \in Flights
  PROVE  Result(Said(s, f), e) /\ Said(s, f).c = s.c
  BY DEF Result, Said, St, Flights

(* A flight of the other end arrives (udp_recv_handler).                   *)
LEMMA ReceivedResult ==
  ASSUME NEW e \in Ends, NEW s, Result(s, e), NEW f \in Flights
  PROVE  Result(recv_handler(s, e, f), e)
<1> DEFINE c == s.c
<1>1. c \in Sides /\ EndOk(c, e) /\ s.out \subseteq Flights
  BY DEF Result
<1>0. 0 \in 0..MaxTries
  BY BoundAssumption
<1>2. CASE ~c.up \/ ~c.sock
  BY <1>2 DEF recv_handler
<1>3. CASE c.up /\ c.sock /\ c.tc = "none"
  <2> DEFINE h == [c EXCEPT !.tc = "hello", !.client = FALSE, !.tries = 0]
  <2>1. h \in Sides
    BY <1>0, <1>1, Zenon DEF Sides
  <2>2. EndOk(h, e)
    BY <1>1, <1>3 DEF EndOk, Sides, stream_is_ready
  <2>3. recv_handler(s, e, f) = IF f = "CH" THEN Said(St(h, s.out), "SH") ELSE s
    BY <1>3 DEF recv_handler, dtls_accept
  <2> HIDE DEF h
  <2>4. Result(St(h, s.out), e)
    BY <1>1, <2>1, <2>2 DEF Result, St
  <2>5. "SH" \in Flights
    BY DEF Flights
  <2> QED BY <2>3, <2>4, <2>5, SaidResult
<1>4. CASE c.up /\ c.sock /\ c.tc # "none"
  <2> DEFINE g == [c EXCEPT !.tc = "finished", !.tries = 0]
  <2>1. g \in Sides
    BY <1>0, <1>1, Zenon DEF Sides
  <2>2. c.client => EndOk(g, e)
    BY <1>1, <1>4 DEF EndOk, Sides, stream_is_ready
  <2>3. recv_handler(s, e, f) = conn_recv(s, e, f)
    BY <1>4 DEF recv_handler
  <2> DEFINE r == conn_recv(s, e, f)
  <2>4. \/ c.client /\ r = Said(St(g, s.out), "CF")
        \/ r = conn_close(s)
        \/ r = Up(s, e)
        \/ r = Said(s, "SH")
        \/ r = Up(Said(s, "SF"), e)
        \/ r = Said(s, "SF")
        \/ r = s
    BY DEF conn_recv
  <2> HIDE DEF g, r
  <2>5. {"CF", "SH", "SF"} \subseteq Flights
    BY DEF Flights
  <2>6. c.client => Result(St(g, s.out), e)
    BY <1>1, <2>1, <2>2 DEF Result, St
  <2>7. c.client => Result(Said(St(g, s.out), "CF"), e)
    BY <2>5, <2>6, SaidResult
  <2>8. /\ Result(Said(s, "SH"), e)
        /\ Result(Said(s, "SF"), e) /\ Said(s, "SF").c.tc # "none"
    BY Zenon, <1>4, <2>5, SaidResult
  <2>9. Result(Up(s, e), e) /\ Result(Up(Said(s, "SF"), e), e)
    BY <1>4, <2>8, UpResult
  <2>10. Result(conn_close(s), e)
    BY ConnCloseResult
  <2>11. Result(r, e)
    BY <2>4, <2>7, <2>8, <2>9, <2>10
  <2> QED BY <2>3, <2>11 DEF r
<1> QED BY <1>2, <1>3, <1>4

(* The retransmission timer fires (timeout).                               *)
LEMMA TimeoutResult ==
  ASSUME NEW e \in Ends, NEW s, Result(s, e)
  PROVE  Result(timeout(s), e)
<1>1. s.c \in Sides /\ EndOk(s.c, e) /\ s.out \subseteq Flights
  BY DEF Result
<1>2. CASE s.c.tries < MaxTries
  <2> DEFINE c == [s.c EXCEPT !.tries = s.c.tries + 1]
  <2>1. s.c.tries + 1 \in 0..MaxTries
    BY <1>1, <1>2, BoundAssumption DEF Sides
  <2>2. c \in Sides
    BY <1>1, <2>1, Zenon DEF Sides
  <2>3. EndOk(c, e)
    BY <1>1 DEF EndOk, Sides, stream_is_ready
  <2>4. timeout(s) = Said(St(c, s.out), flight(s.c))
    BY <1>2 DEF timeout
  <2> HIDE DEF c
  <2>5. Result(St(c, s.out), e)
    BY <1>1, <2>2, <2>3 DEF Result, St
  <2>6. flight(s.c) \in Flights
    BY DEF flight, Flights
  <2> QED BY <2>4, <2>5, <2>6, SaidResult
<1>3. CASE ~(s.c.tries < MaxTries)
  <2>1. timeout(s) = conn_close(s)
    BY <1>3 DEF timeout
  <2> QED BY <2>1, ConnCloseResult
<1> QED BY <1>2, <1>3

(* A result becomes the state of an end, and what it sent is on its way.   *)
LEMMA Applied ==
  ASSUME DtlsInv, NEW e \in Ends, NEW s, Result(s, e), NEW rest \in SUBSET net,
         Apply(e, s, rest), UNCHANGED outcome
  PROVE  DtlsInv'
<1>1. end' = [end EXCEPT ![e] = s.c]
  BY DEF Apply
<1>2. s.c \in Sides /\ EndOk(s.c, e) /\ s.out \subseteq Flights
  BY DEF Result
<1>3. end' \in [Ends -> Sides]
  BY <1>1, <1>2 DEF DtlsInv
<1>4. Peer(e) \in Ends
  BY DEF Peer, Ends
<1>5. net' \subseteq [to : Ends, f : Flights]
  BY <1>2, <1>4 DEF Apply, DtlsInv, Flights
<1>6. ASSUME NEW d \in Ends PROVE EndOk(end[d], d)'
  <2>1. end'[d] = IF d = e THEN s.c ELSE end[d]
    BY <1>1 DEF DtlsInv
  <2>2. EndOk(end'[d], d)
    BY <2>1, <1>2 DEF DtlsInv
  <2> QED BY <2>2 DEF EndOk, stream_is_ready, KeyOf, Peer
<1> QED BY <1>3, <1>5, <1>6 DEF DtlsInv, Flights

(* An end as it stands is a consistent result of a handler.                *)
LEMMA AtRest ==
  ASSUME DtlsInv, NEW e \in Ends
  PROVE  /\ end[e] \in Sides /\ EndOk(end[e], e)
         /\ Result(St(end[e], {}), e) /\ St(end[e], {}).c = end[e]
  BY DEF DtlsInv, Result, St

-----------------------------------------------------------------------------

(* The invariant holds at the start.                                       *)
LEMMA DtlsInitInv == Init => DtlsInv
<1> SUFFICES ASSUME Init PROVE DtlsInv
  OBVIOUS
<1>1. 0 \in 0..MaxTries
  BY BoundAssumption
<1>2. NewEnd \in Sides
  BY <1>1, Zenon DEF NewEnd, Sides
<1>3. \A e \in Ends : EndOk(NewEnd, e)
  BY DEF NewEnd, EndOk, stream_is_ready
<1>4. end \in [Ends -> Sides] /\ \A e \in Ends : end[e] = NewEnd
  BY <1>2 DEF Init
<1> QED BY <1>3, <1>4 DEF Init, DtlsInv

(* Every step keeps the invariant.                                         *)
LEMMA DtlsStep == DtlsInv /\ [Next]_vars => DtlsInv'
<1> SUFFICES ASSUME DtlsInv, [Next]_vars PROVE DtlsInv'
  OBVIOUS
<1>1. CASE UNCHANGED vars
  BY <1>1 DEF vars, DtlsInv, EndOk, stream_is_ready, KeyOf, Peer
<1>2. CASE Next
  <2>0. PICK e \in Ends : \/ SetRemote(e) \/ MnatConnected(e) \/ Receive(e) \/ Timeout(e)
                          \/ StartMedia(e) \/ SendMedia(e) \/ HangUp(e)
    BY <1>2 DEF Next
  <2> DEFINE s == St(end[e], {})
  <2>1. /\ end[e] \in Sides /\ EndOk(end[e], e)
        /\ Result(s, e) /\ s.c = end[e]
    BY AtRest
  <2> HIDE DEF s
  <2>2. CASE SetRemote(e)
    <3>1. Apply(e, stream_update(s, e), net) /\ UNCHANGED outcome /\ end[e].up
      BY <2>2 DEF SetRemote, s
    <3> QED BY <2>1, <3>1, UpdateResult, Applied
  <2>3. CASE MnatConnected(e)
    <3>1. Apply(e, mnat_connected_handler(s, e), net) /\ UNCHANGED outcome /\ end[e].up
      BY <2>3 DEF MnatConnected, s
    <3> QED BY <2>1, <3>1, ConnectedResult, Applied
  <2>4. CASE Receive(e)
    <3>0. PICK p \in net :
            /\ \E r \in {net, net \ {p}} : Apply(e, recv_handler(s, e, p.f), r)
            /\ UNCHANGED outcome
      BY <2>4 DEF Receive, s
    <3>1. PICK rest \in {net, net \ {p}} : Apply(e, recv_handler(s, e, p.f), rest)
      BY <3>0
    <3>2. p.f \in Flights /\ rest \in SUBSET net
      BY DEF DtlsInv, Flights
    <3>3. Result(recv_handler(s, e, p.f), e)
      BY <2>1, <3>2, ReceivedResult
    <3> QED BY <3>0, <3>1, <3>2, <3>3, Applied
  <2>5. CASE Timeout(e)
    <3>1. Apply(e, timeout(s), net) /\ UNCHANGED outcome
      BY <2>5 DEF Timeout, s
    <3> QED BY <2>1, <3>1, TimeoutResult, Applied
  <2>6. CASE StartMedia(e)
    <3> DEFINE c == end[e]
               t == [c EXCEPT !.secure = TRUE]
               u == [t EXCEPT !.rtcp = t.raddr]
               d == [u EXCEPT !.forced = TRUE]
    <3>1. end' = [end EXCEPT ![e] = d] /\ UNCHANGED <<outcome, net>>
      BY Zenon, <2>6 DEF StartMedia, Secure, stream_start, St
    <3>2. t \in Sides
      BY Zenon, <2>1 DEF Sides
    <3>3. u \in Sides
      <4> HIDE DEF t
      <4> QED BY <3>2 DEF Sides
    <3>4. d \in Sides
      <4> HIDE DEF u
      <4> QED BY Zenon, <3>3 DEF Sides
    <3>5. EndOk(d, e)
      BY <2>1 DEF EndOk, Sides, stream_is_ready
    <3> HIDE DEF d
    <3>6. Result(St(d, {}), e) /\ Apply(e, St(d, {}), net)
      BY <3>1, <3>4, <3>5 DEF Result, St, Apply
    <3> QED BY <3>1, <3>6, Applied
  <2>7. CASE SendMedia(e)
    <3> DEFINE c == end[e]
               d == [c EXCEPT !.clear = TRUE]
    <3>1. end' = [end EXCEPT ![e] = d] /\ UNCHANGED <<outcome, net>>
      BY <2>7 DEF SendMedia
    <3>2. d \in Sides
      BY Zenon, <2>1 DEF Sides
    <3>3. c.secure /\ c.tx = "none"
      BY <2>7 DEF SendMedia, stream_is_ready
    <3>4. c.forced \/ outcome[e] = "nohelper"
      BY <2>1, <3>3 DEF EndOk, KeyOf, Sides
    <3>5. EndOk(d, e)
      BY <2>1, <3>4 DEF EndOk, Sides, stream_is_ready
    <3> HIDE DEF d
    <3>6. Result(St(d, {}), e) /\ Apply(e, St(d, {}), net)
      BY <3>1, <3>2, <3>5 DEF Result, St, Apply
    <3> QED BY <3>1, <3>6, Applied
  <2>8. CASE HangUp(e)
    <3>1. Apply(e, Closed(s), net) /\ UNCHANGED outcome
      BY <2>8 DEF HangUp, s
    <3> QED BY <2>1, <3>1, CloseResult, Applied
  <2> QED BY <2>0, <2>2, <2>3, <2>4, <2>5, <2>6, <2>7, <2>8
<1> QED BY <1>1, <1>2

(* What an end has agreed with what it was told, kept by every handler of  *)
(* stream.c, dtls_srtp.c and tls_udp.c in whatever order they run.         *)
THEOREM DtlsInvariant == Spec => []DtlsInv
<1>1. Init => DtlsInv
  BY DtlsInitInv
<1>2. DtlsInv /\ [Next]_vars => DtlsInv'
  BY DtlsStep
<1> QED BY <1>1, <1>2, PTL DEF Spec

(* Ends with keys can talk, DTLS calls a stream secure only against the    *)
(* certificate of the description, media in the clear has the room         *)
(* server's word or a failed installation behind it, and reports go where  *)
(* the media goes                                                          *)
(* (dtls_estab_handler, menc_event_handler, mnat_connected_handler).       *)
THEOREM StreamSecured == Spec => []DtlsKept
<1>1. DtlsInv => DtlsKept
  <2> SUFFICES ASSUME DtlsInv PROVE DtlsKept
    OBVIOUS
  <2>1. \A e \in Ends : end[e] \in Sides /\ EndOk(end[e], e) /\ Peer(e) \in Ends
    BY DEF DtlsInv, Peer, Ends
  <2>2. TypeOK
    BY <2>1 DEF TypeOK, Sides, DtlsInv
  <2>3. KeysAgree
    <3> SUFFICES ASSUME NEW e \in Ends, end[e].tx # "none", end[Peer(e)].tx # "none"
                 PROVE  end[e].tx = end[Peer(e)].rx /\ end[e].tx # end[e].rx
      BY DEF KeysAgree
    <3>1. end[e].tx = KeyOf(e) /\ end[e].rx = KeyOf(Peer(e))
      BY <2>1 DEF EndOk
    <3>2. end[Peer(e)].rx = KeyOf(Peer(Peer(e)))
      BY <2>1 DEF EndOk
    <3>3. Peer(Peer(e)) = e /\ KeyOf(e) # KeyOf(Peer(e))
      BY DEF Peer, KeyOf, Ends
    <3> QED BY <3>1, <3>2, <3>3
  <2>4. SecureIsVerified
    BY <2>1 DEF SecureIsVerified, EndOk, KeyOf
  <2>5. ClearExplained /\ ReportsFollowMedia
    BY <2>1 DEF ClearExplained, ReportsFollowMedia, EndOk
  <2> QED BY <2>2, <2>3, <2>4, <2>5 DEF DtlsKept
<1> QED BY <1>1, DtlsInvariant, PTL

-----------------------------------------------------------------------------

(***************************************************************************)
(* What the lemmas need to know about the number of components.  It        *)
(* follows from the library's facts about finite sets (Countable, at the   *)
(* end).                                                                   *)
(***************************************************************************)
CompsCount ==
  /\ Cardinality({}) = 0
  /\ \A S \in SUBSET Comps :
       /\ Cardinality(S) \in Nat /\ Cardinality(S) <= Cardinality(Comps)
       /\ Cardinality(S) = 0 <=> S = {}
       /\ \A c \in S : Cardinality(S \ {c}) = Cardinality(S) - 1
       /\ \A c \in Comps : c \notin S => Cardinality(S \cup {c}) = Cardinality(S) + 1
  /\ \A S, T \in SUBSET Comps :
       S \cap T = {} => Cardinality(S) + Cardinality(T) <= Cardinality(Comps)

(* Counting the components of a stream.                                    *)
LEMMA Cards ==
  ASSUME CompsCount, MnatAssumption, NEW S \in SUBSET Comps
  PROVE  /\ Cardinality(S) \in Nat /\ Cardinality(Comps) \in Nat /\ Cardinality(Comps) > 0
         /\ Cardinality(S) <= Cardinality(Comps)
         /\ Cardinality(S) = 0 <=> S = {}
         /\ \A c \in S : Cardinality(S \ {c}) = Cardinality(S) - 1
         /\ \A c \in Comps : c \notin S => Cardinality(S \cup {c}) = Cardinality(S) + 1
<1>1. Cardinality(Comps) \in Nat /\ (Cardinality(Comps) = 0 <=> Comps = {})
  <2>1. Comps \in SUBSET Comps
    OBVIOUS
  <2> QED
    BY <2>1 DEF CompsCount
<1>2. Cardinality(Comps) > 0
  BY <1>1 DEF MnatAssumption
<1> QED
  BY <1>1, <1>2 DEF CompsCount

(* No request pending counts zero.                                         *)
LEMMA CardNone == ASSUME CompsCount PROVE Cardinality({}) = 0
  BY DEF CompsCount

(* Binding requests and allocations are counted apart.                     *)
LEMMA CardDisjoint ==
  ASSUME CompsCount, NEW S \in SUBSET Comps, NEW T \in SUBSET Comps, S \cap T = {}
  PROVE  Cardinality(S) + Cardinality(T) <= Cardinality(Comps)
  BY Zenon DEF CompsCount

(* The part of the invariant about one stream.                             *)
Done(r) ==
  /\ Counted(r)
  /\ ~alive => Quiet(r) /\ ~r.gathered
  /\ resolving => Quiet(r) /\ ~r.gathered
  /\ alive /\ ~resolving /\ ~r.gathered => r.nstun > 0

Told ==
  /\ resolving => alive /\ told = <<>>
  /\ told \in {<<>>, <<"ok">>} => estabh
  /\ told = <<>> /\ alive => \E m \in Streams : ~med[m].gathered
  /\ told = <<"ok">> /\ alive => \A m \in Streams : med[m].gathered
  /\ told = <<"error">> => ~alive

(* The invariant as what holds of every stream and what the owner knows.   *)
LEMMA MnatParts ==
  MnatInv <=> /\ Flags /\ med \in [Streams -> MediaRecs]
              /\ told \in {<<>>, <<"ok">>, <<"error">>}
              /\ \A m \in Streams : Done(med[m])
              /\ Told
  BY DEF MnatInv, Done, Told

(* The same for the state after a step.                                    *)
LEMMA MnatPartsNext ==
  MnatInv' <=> /\ Flags' /\ med' \in [Streams -> MediaRecs]
               /\ told' \in {<<>>, <<"ok">>, <<"error">>}
               /\ \A m \in Streams : Done(med[m])'
               /\ Told'
  BY DEF MnatInv, Done, Told

(* The results the owner may be told differ from each other.               *)
LEMMA Results ==
  <<>> # <<"ok">> /\ <<>> # <<"error">> /\ <<"ok">> # <<"error">>
  OBVIOUS

(* media_alloc: a new stream satisfies its part of the invariant.          *)
LEMMA NewMediaOk ==
  ASSUME CompsCount
  PROVE  NewMedia \in MediaRecs /\ ~NewMedia.gathered /\ Quiet(NewMedia) /\ Counted(NewMedia)
  BY CardNone DEF NewMedia, MediaRecs, Quiet, Counted

(* session_destructor takes all requests with it.                          *)
LEMMA DropKeeps ==
  ASSUME CompsCount, MnatInv, Dropped, Flags', told' \in {<<>>, <<"ok">>, <<"error">>},
         told' \in {<<>>, <<"ok">>} => estabh'
  PROVE  MnatInv'
<1>1. alive' = FALSE /\ med' = [m \in Streams |-> NewMedia] /\ resolving' = FALSE
  BY DEF Dropped
<1>2. med' \in [Streams -> MediaRecs] /\ \A m \in Streams : med'[m] = NewMedia
  BY <1>1, NewMediaOk
<1>3. \A m \in Streams : Done(med[m])'
  BY <1>1, <1>2, NewMediaOk DEF Done, Counted, Quiet
<1>4. Told'
  BY <1>1 DEF Told
<1> QED
  BY <1>2, <1>3, <1>4, MnatPartsNext

(* A change that leaves requests and flags alone keeps a stream consistent.*)
LEMMA SameGathering ==
  ASSUME CompsCount, MnatInv, UNCHANGED <<alive, resolving, estabh, told>>, Flags',
         med' \in [Streams -> MediaRecs],
         \A m \in Streams : /\ med'[m].gathered = med[m].gathered /\ med'[m].nstun = med[m].nstun
                            /\ med'[m].ct = med[m].ct /\ med'[m].wait = med[m].wait
                            /\ med'[m].up = med[m].up
  PROVE  MnatInv'
<1>1. /\ told \in {<<>>, <<"ok">>, <<"error">>} /\ Told /\ \A m \in Streams : Done(med[m])
  BY MnatParts
<1>2. \A m \in Streams : Done(med[m])'
  BY <1>1 DEF Done, Counted, Quiet
<1>3. Told'
  BY <1>1 DEF Told
<1> QED
  BY <1>1, <1>2, <1>3, MnatPartsNext

(* call_gather_handler and gather_handler, for a stream whose requests are *)
(* counted in r.                                                           *)
LEMMA GatherKeeps ==
  ASSUME CompsCount, MnatAssumption, MnatInv, NEW m \in Streams, alive, ~resolving,
         NEW r \in MediaRecs, r.gathered = med[m].gathered, Counted(r),
         r.gathered => r.nstun < 0,
         NEW err \in BOOLEAN, Gather(m, r, err),
         UNCHANGED <<iface, started, reinvite, again, stale>>
  PROVE  MnatInv'
<1> DEFINE fails == err \/ ~iface
           g == [r EXCEPT !.gathered = NoneLeft(r) \/ @]
           ms == [med EXCEPT ![m] = g]
<1>1. /\ Flags /\ med \in [Streams -> MediaRecs] /\ told \in {<<>>, <<"ok">>, <<"error">>}
      /\ Told /\ \A n \in Streams : Done(med[n])
  BY MnatParts
<1>2. IF ~NoneLeft(r)
      THEN med' = [med EXCEPT ![m] = r] /\ UNCHANGED <<estabh, told, alive, resolving>>
      ELSE /\ estabh' = (estabh /\ ~fails)
           /\ IF estabh /\ (fails \/ all_gathered(ms))
              THEN Report(IF fails THEN "error" ELSE "ok", ms)
              ELSE med' = ms /\ UNCHANGED <<told, alive, resolving>>
  BY Zenon DEF Gather
<1>3. fails \in BOOLEAN
  BY <1>1 DEF Flags
<1>4. /\ g \in MediaRecs /\ g.gathered = (NoneLeft(r) \/ r.gathered)
      /\ g.nstun = r.nstun /\ g.ct = r.ct /\ g.wait = r.wait /\ g.up = r.up
  BY Zenon DEF MediaRecs, NoneLeft
<1> HIDE DEF fails, g
<1>5. CASE ~NoneLeft(r)
  <2>1. med' = [med EXCEPT ![m] = r] /\ UNCHANGED <<estabh, told, alive, resolving>>
    BY <1>2, <1>5
  <2>2. med' \in [Streams -> MediaRecs] /\ med'[m] = r
        /\ \A n \in Streams : n # m => med'[n] = med[n]
    BY <1>1, <2>1
  <2>3. r.nstun > 0 \/ r.gathered
    <3>1. r.ct \in SUBSET Comps /\ r.wait \in SUBSET Comps /\ r.nstun \in Int
      BY DEF MediaRecs
    <3>2. Cardinality(r.ct) \in Nat /\ Cardinality(r.wait) \in Nat
      BY <3>1, Cards
    <3> QED
      BY <1>5, <3>1, <3>2 DEF Counted, NoneLeft
  <2>4. Done(r)'
    BY <2>1, <2>3 DEF Done, Counted, Quiet
  <2>5. \A n \in Streams : n # m => Done(med[n])'
    BY SMTT(30), <1>1, <2>1, <2>2 DEF Done, Counted, Quiet
  <2>6. \A n \in Streams : Done(med[n])'
    BY <2>2, <2>4, <2>5 DEF Done, Counted, Quiet
  <2>7. \A n \in Streams : med'[n].gathered = med[n].gathered
    BY <2>2
  <2>8. Told' /\ Flags'
    BY <1>1, <2>1, <2>7 DEF Told, Flags
  <2> QED
    BY <1>1, <2>1, <2>2, <2>6, <2>8, MnatPartsNext
<1>6. CASE NoneLeft(r)
  <2>1. ~r.gathered /\ g.gathered /\ r.nstun = 0
    <3>1. r.nstun = 0
      BY <1>6 DEF NoneLeft
    <3>2. ~r.gathered
      BY <3>1
    <3>3. g.gathered
      BY Zenon, <1>4, <1>6
    <3> QED
      BY <3>1, <3>2, <3>3
  <2>2. told = <<>> /\ estabh
    BY <1>1, <2>1 DEF Told
  <2>3. r.ct = {} /\ r.wait = {}
    <3>1. r.ct \in SUBSET Comps /\ r.wait \in SUBSET Comps
      BY DEF MediaRecs
    <3>2. /\ Cardinality(r.ct) \in Nat /\ Cardinality(r.wait) \in Nat
          /\ (Cardinality(r.ct) = 0 <=> r.ct = {}) /\ (Cardinality(r.wait) = 0 <=> r.wait = {})
      BY <3>1, Cards
    <3>3. 0 = Cardinality(r.ct) + Cardinality(r.wait)
      BY SMTT(30), <2>1 DEF Counted
    <3> QED
      BY ONLY <3>2, <3>3
  <2>4. Counted(g)
    <3>1. g.up \in SUBSET Comps /\ Cardinality(g.ct) = 0
      BY <1>4, <2>3, CardNone DEF MediaRecs
    <3>2. Cardinality(g.up) <= Cardinality(Comps) /\ Cardinality(g.up) \in Nat /\ Cardinality(Comps) \in Nat
      BY <3>1, Cards
    <3>3. g.nstun + Cardinality(Comps) >= Cardinality(g.ct) + Cardinality(g.up)
      BY <1>4, <2>1, <3>1, <3>2
    <3> QED
      BY <1>4, <2>1, <2>3, <3>3 DEF Counted
  <2>5. CASE fails
    <3>3. (IF fails THEN "error" ELSE "ok") = "error"
      BY <2>5
    <3>4. estabh' = FALSE /\ Report("error", ms)
      BY Zenon, <1>2, <1>6, <2>2, <2>5, <3>3
    <3>1. Dropped /\ told' = <<"error">> /\ estabh' = FALSE
      BY <2>2, <3>4 DEF Report
    <3>2. Flags'
      BY Zenon, <1>1, <3>1 DEF Flags, Dropped
    <3> QED
      BY <3>1, <3>2, DropKeeps
  <2>6. CASE ~fails
    <3>7. (IF fails THEN "error" ELSE "ok") = "ok"
      BY <2>6
    <3>8. estabh' = TRUE /\ IF all_gathered(ms) THEN Report("ok", ms)
                            ELSE med' = ms /\ UNCHANGED <<told, alive, resolving>>
      BY Zenon, <1>2, <1>6, <2>2, <2>6, <3>7
    <3>1. med' = ms /\ UNCHANGED <<alive, resolving>> /\ estabh' = TRUE
          /\ told' = (IF all_gathered(ms) THEN <<"ok">> ELSE <<>>)
      <4>1. CASE all_gathered(ms)
        <5>1. med' = ms /\ UNCHANGED <<alive, resolving>> /\ told' = Append(told, "ok")
          BY <3>8, <4>1 DEF Report
        <5>2. told' = <<"ok">>
          BY <2>2, <5>1
        <5> QED
          BY Zenon, <3>8, <4>1, <5>1, <5>2
      <4>2. CASE ~all_gathered(ms)
        BY Zenon, <2>2, <3>8, <4>2
      <4> QED
        BY Zenon, <4>1, <4>2
    <3>2. ms \in [Streams -> MediaRecs] /\ ms[m] = g /\ \A n \in Streams : n # m => ms[n] = med[n]
      BY <1>1, <1>4
    <3> HIDE DEF ms
    <3>3. Done(g)'
      BY SMTT(30), <2>1, <2>4, <3>1 DEF Done, Counted
    <3>4. \A n \in Streams : n # m => Done(med[n])'
      BY ZenonT(30), <1>1, <3>1, <3>2 DEF Done, Counted, Quiet
    <3>5. \A n \in Streams : Done(med[n])'
      BY ZenonT(30), <3>1, <3>2, <3>3, <3>4 DEF Done, Counted, Quiet
    <3>6. Told' /\ Flags' /\ told' \in {<<>>, <<"ok">>, <<"error">>}
      BY <1>1, <3>1 DEF Told, Flags, all_gathered
    <3> QED
      BY <3>1, <3>2, <3>5, <3>6, MnatPartsNext
  <2> QED
    BY <1>3, <2>5, <2>6
<1> QED
  BY <1>5, <1>6

(* A step of one stream leaves the invariant of the others.                *)
LEMMA StreamKeeps ==
  ASSUME CompsCount, MnatAssumption, MnatInv, NEW m \in Streams, alive, ~resolving,
         NEW r \in MediaRecs, r.gathered = med[m].gathered, Counted(r),
         ~r.gathered => r.nstun > 0,
         med' = [med EXCEPT ![m] = r], UNCHANGED <<estabh, told, alive, resolving>>, Flags'
  PROVE  MnatInv'
<1>1. /\ Flags /\ med \in [Streams -> MediaRecs] /\ told \in {<<>>, <<"ok">>, <<"error">>}
      /\ Told /\ \A n \in Streams : Done(med[n])
  BY MnatParts
<1>2. med' \in [Streams -> MediaRecs] /\ med'[m] = r
      /\ \A n \in Streams : n # m => med'[n] = med[n]
  BY SMTT(30), <1>1
<1>3. Done(r)'
  BY SMTT(30) DEF Done, Counted, Quiet
<1>4. \A n \in Streams : n # m => Done(med[n])'
  BY ZenonT(30), <1>1, <1>2 DEF Done, Counted, Quiet
<1>5. \A n \in Streams : Done(med[n])'
  BY ZenonT(30), <1>2, <1>3, <1>4 DEF Done, Counted, Quiet
<1>6. \A n \in Streams : med'[n].gathered = med[n].gathered
  BY <1>2
<1>7. Told'
  BY <1>1, <1>6 DEF Told
<1> QED
  BY <1>1, <1>2, <1>5, <1>7, MnatPartsNext

(* session_alloc: the invariant holds at the start.                        *)
LEMMA MnatBegins ==
  ASSUME CompsCount, MnatAssumption, MnatInit
  PROVE  MnatInv
<1>1. med \in [Streams -> MediaRecs] /\ \A m \in Streams : med[m] = NewMedia
  BY NewMediaOk DEF MnatInit
<1>2. \A m \in Streams : Done(med[m])
  BY <1>1, NewMediaOk DEF MnatInit, Done
<1>3. Told
  <2>1. PICK m \in Streams : ~med[m].gathered
    BY <1>1, NewMediaOk DEF MnatAssumption
  <2> QED
    BY <2>1 DEF MnatInit, Told
<1>4. Flags /\ told \in {<<>>, <<"ok">>, <<"error">>}
  BY Zenon DEF MnatInit, Flags
<1> QED
  BY <1>1, <1>2, <1>3, <1>4, MnatParts

(* The error that ends the session before a request was sent.              *)
LEMMA ErrorKeeps ==
  ASSUME CompsCount, MnatInv, resolving, Report("error", med), Flags'
  PROVE  MnatInv'
<1>1. told = <<>>
  BY MnatParts DEF Told
<1>2. Dropped /\ told' = Append(told, "error")
  BY DEF Report
<1>3. told' = <<"error">>
  BY <1>1, <1>2
<1> QED
  BY Zenon, <1>2, <1>3, Results, DropKeeps

(* tmr_async_handler gathers from the interfaces.                          *)
LEMMA TimerKeeps ==
  ASSUME CompsCount, MnatAssumption, MnatInv, tmr_async_handler
  PROVE  MnatInv'
<1>1. /\ Flags /\ med \in [Streams -> MediaRecs] /\ Told /\ \A n \in Streams : Done(med[n])
  BY MnatParts
<1>2. alive /\ resolving /\ told = <<>> /\ estabh
  BY <1>1 DEF tmr_async_handler, Told
<1>3. CASE iface
  <2>1. /\ resolving' = FALSE /\ told' = Append(told, "ok")
        /\ med' = [m \in Streams |-> [med[m] EXCEPT !.gathered = TRUE]]
        /\ UNCHANGED <<alive, estabh, stale, iface, started, reinvite, again>>
    BY <1>3 DEF tmr_async_handler
  <2>2. told' = <<"ok">>
    BY <1>2, <2>1
  <2>3. ASSUME NEW m \in Streams
        PROVE  /\ med'[m] \in MediaRecs /\ med'[m].gathered
               /\ med'[m].ct = {} /\ med'[m].wait = {} /\ med'[m].up = {} /\ med'[m].nstun = 0
    <3>1. Quiet(med[m]) /\ ~med[m].gathered /\ Counted(med[m])
      BY <1>1, <1>2 DEF Done
    <3>2. med[m].nstun = 0
      BY <3>1, CardNone DEF Quiet, Counted
    <3>3. med[m] \in MediaRecs /\ med'[m] = [med[m] EXCEPT !.gathered = TRUE]
      BY <1>1, <2>1
    <3> QED
      BY Zenon, <3>1, <3>2, <3>3 DEF Quiet, MediaRecs
  <2>4. \A m \in Streams : Done(med[m])'
    <3>1. Cardinality(Comps) \in Nat
      BY Cards
    <3>2. ASSUME NEW m \in Streams PROVE Counted(med'[m])
      <4>1. /\ med'[m].gathered /\ med'[m].wait = {} /\ med'[m].nstun = 0
            /\ Cardinality(med'[m].ct) = 0 /\ Cardinality(med'[m].up) = 0
        BY Zenon, <2>3, CardNone
      <4> QED
        BY ONLY <3>1, <4>1 DEF Counted
    <3> QED
      BY <1>2, <2>1, <2>3, <3>2 DEF Done, Counted
  <2>5. Told' /\ Flags'
    <3>1. Told'
      BY Zenon, <1>2, <2>1, <2>2, <2>3, Results DEF Told
    <3>2. Flags'
      BY Zenon, <1>1, <2>1 DEF Flags
    <3> QED
      BY <3>1, <3>2
  <2>6. med' \in [Streams -> MediaRecs]
    BY <2>1, <2>3
  <2> QED
    BY <2>2, <2>4, <2>5, <2>6, MnatPartsNext
<1>4. CASE ~iface
  <2>1. Report("error", med) /\ estabh' = FALSE /\ stale' = TRUE /\ UNCHANGED <<iface, started, reinvite, again>>
    BY <1>4 DEF tmr_async_handler
  <2>2. Flags'
    BY ZenonT(30), <1>1, <2>1 DEF Flags, Report, Dropped
  <2> QED
    BY <1>2, <2>1, <2>2, ErrorKeeps
<1> QED
  BY <1>3, <1>4

(* dns_handler: the address of the server is known, or not.                *)
LEMMA AddressKeeps ==
  ASSUME CompsCount, MnatAssumption, MnatInv, NEW err \in BOOLEAN, dns_handler(err)
  PROVE  MnatInv'
<1> DEFINE all == Cardinality(Comps)
           sent(r) == IF Server = "turn" THEN [r EXCEPT !.wait = Comps, !.nstun = all]
                      ELSE [r EXCEPT !.ct = Comps, !.nstun = all]
<1>1. /\ Flags /\ med \in [Streams -> MediaRecs] /\ Told /\ \A n \in Streams : Done(med[n])
  BY MnatParts
<1>2. alive /\ resolving /\ told = <<>> /\ estabh
  BY Zenon, <1>1 DEF dns_handler, Told
<1>3. UNCHANGED <<iface, estabh, started, reinvite, again, stale>>
  BY Zenon DEF dns_handler
<1>4. CASE err
  <2>1. Report("error", med)
    BY <1>4 DEF dns_handler
  <2>2. Flags'
    BY ZenonT(30), <1>1, <1>3, <2>1 DEF Flags, Report, Dropped
  <2> QED
    BY <1>2, <2>1, <2>2, ErrorKeeps
<1>5. CASE ~err
  <2>1. resolving' = FALSE /\ med' = [m \in Streams |-> sent(med[m])] /\ UNCHANGED <<told, alive>>
    BY Zenon, <1>5 DEF dns_handler
  <2>2. all \in Nat /\ all > 0
    <3>1. Comps \in SUBSET Comps
      OBVIOUS
    <3> QED
      BY <3>1, Cards
  <2>3. ASSUME NEW m \in Streams
        PROVE  /\ med'[m] \in MediaRecs /\ ~med'[m].gathered /\ med'[m].nstun = all
               /\ \/ med'[m].ct = Comps /\ med'[m].wait = {}
                  \/ med'[m].ct = {} /\ med'[m].wait = Comps
    <3>1. Quiet(med[m]) /\ ~med[m].gathered
      BY <1>1, <1>2 DEF Done
    <3>2. med[m] \in MediaRecs /\ med'[m] = sent(med[m])
      BY Zenon, <1>1, <2>1
    <3>3. CASE Server = "turn"
      <4>1. med'[m] = [med[m] EXCEPT !.wait = Comps, !.nstun = all]
        BY <3>2, <3>3
      <4> HIDE DEF all
      <4>2. /\ med'[m] \in MediaRecs /\ med'[m].gathered = med[m].gathered /\ med'[m].nstun = all
            /\ med'[m].wait = Comps /\ med'[m].ct = med[m].ct
        <5>1. all \in Int /\ Comps \in SUBSET Comps /\ med[m] \in MediaRecs
          BY <2>2, <3>2
        <5> DEFINE o == med[m]
                   q == med'[m]
        <5> HIDE DEF o, q
        <5> QED
          BY ONLY Zenon, <4>1, <5>1 DEF MediaRecs
      <4> QED
        BY <3>1, <4>2 DEF Quiet
    <3>4. CASE Server # "turn"
      <4>1. med'[m] = [med[m] EXCEPT !.ct = Comps, !.nstun = all]
        BY <3>2, <3>4
      <4> HIDE DEF all
      <4>2. /\ med'[m] \in MediaRecs /\ med'[m].gathered = med[m].gathered /\ med'[m].nstun = all
            /\ med'[m].ct = Comps /\ med'[m].wait = med[m].wait
        <5>1. all \in Int /\ Comps \in SUBSET Comps /\ med[m] \in MediaRecs
          BY <2>2, <3>2
        <5> DEFINE o == med[m]
                   q == med'[m]
        <5> HIDE DEF o, q
        <5> QED
          BY ONLY ZenonT(30), <4>1, <5>1 DEF MediaRecs
      <4> QED
        BY <3>1, <4>2 DEF Quiet
    <3> QED
      BY <3>3, <3>4
  <2>4. \A m \in Streams : Done(med[m])'
    <3>1. ASSUME NEW m \in Streams PROVE Counted(med'[m])
      <4>1. ~med'[m].gathered /\ med'[m].nstun = all /\ med'[m].ct \cap med'[m].wait = {}
        BY <2>3
      <4>2. \/ Cardinality(med'[m].ct) = all /\ Cardinality(med'[m].wait) = 0
            \/ Cardinality(med'[m].ct) = 0 /\ Cardinality(med'[m].wait) = all
        BY Zenon, <2>3, CardNone
      <4> HIDE DEF all
      <4> QED
        BY ONLY <2>2, <4>1, <4>2 DEF Counted
    <3> QED
      BY Zenon, <1>2, <2>1, <2>2, <2>3, <3>1 DEF Done, Counted
  <2>5. Told' /\ Flags'
    <3>1. PICK m \in Streams : TRUE
      BY DEF MnatAssumption
    <3>2. ~med'[m].gathered
      BY <2>3
    <3> QED
      BY Zenon, <1>1, <1>2, <1>3, <2>1, <3>2 DEF Told, Flags
  <2>6. med' \in [Streams -> MediaRecs]
    BY Zenon, <2>1, <2>3
  <2> QED
    BY Zenon, <1>2, <2>1, <2>4, <2>5, <2>6, MnatPartsNext
<1> QED
  BY <1>4, <1>5

(* Only a stream of a living session has something pending.                *)
LEMMA Pending ==
  ASSUME CompsCount, MnatInv, NEW m \in Streams, ~Quiet(med[m])
  PROVE  alive /\ ~resolving /\ med[m] \in MediaRecs /\ Counted(med[m]) /\ Flags
  BY MnatParts DEF Done

(* stun_resp_handler: a binding request is answered.                       *)
LEMMA AnswerKeeps ==
  ASSUME CompsCount, MnatAssumption, MnatInv, NEW m \in Streams, NEW c \in Comps, NEW err \in BOOLEAN,
         stun_resp_handler(m, c, err)
  PROVE  MnatInv'
<1> DEFINE o == med[m]
           r == [o EXCEPT !.ct = @ \ {c}, !.nstun = @ - 1]
<1>1. /\ c \in o.ct /\ Gather(m, r, err)
      /\ UNCHANGED <<iface, started, reinvite, again, stale>>
  BY DEF stun_resp_handler
<1>2. alive /\ ~resolving /\ o \in MediaRecs /\ Counted(o)
  BY <1>1, Pending DEF Quiet
<1>3. /\ r \in MediaRecs /\ r.gathered = o.gathered /\ r.nstun = o.nstun - 1
      /\ r.ct = o.ct \ {c} /\ r.wait = o.wait /\ r.up = o.up
  <2> DEFINE x == o.ct \ {c}
             n == o.nstun - 1
  <2>1. r = [o EXCEPT !.ct = x, !.nstun = n]
    OBVIOUS
  <2>2. x \in SUBSET Comps /\ n \in Int
    BY <1>2 DEF MediaRecs
  <2> HIDE DEF o, r, x, n
  <2>3. /\ r \in MediaRecs /\ r.gathered = o.gathered /\ r.nstun = n
        /\ r.ct = x /\ r.wait = o.wait /\ r.up = o.up
    BY ONLY Zenon, <1>2, <2>1, <2>2 DEF MediaRecs
  <2> QED
    BY <2>3 DEF x, n
<1>4. /\ o.ct \in SUBSET Comps /\ o.wait \in SUBSET Comps /\ o.up \in SUBSET Comps
      /\ o.gathered \in BOOLEAN /\ o.nstun \in Int
  BY SMTT(30), <1>2 DEF MediaRecs
<1> HIDE DEF o, r
<1>5. /\ Cardinality(r.ct) = Cardinality(o.ct) - 1 /\ Cardinality(o.ct) \in Nat
      /\ Cardinality(o.wait) \in Nat /\ Cardinality(o.up) \in Nat /\ Cardinality(Comps) \in Nat
  BY <1>1, <1>3, <1>4, Cards
<1>6. Counted(r) /\ (r.gathered => r.nstun < 0)
  <2>1. CASE o.gathered
    <3>1. /\ o.wait = {} /\ o.nstun <= 0
          /\ o.nstun + Cardinality(Comps) >= Cardinality(o.ct) + Cardinality(o.up)
      BY <1>2, <2>1 DEF Counted
    <3> QED
      BY ONLY <1>3, <1>4, <1>5, <2>1, <3>1 DEF Counted
  <2>2. CASE ~o.gathered
    <3>1. o.ct \cap o.wait = {} /\ o.nstun = Cardinality(o.ct) + Cardinality(o.wait)
      BY <1>2, <2>2 DEF Counted
    <3>2. r.ct \cap r.wait = {}
      BY ONLY <1>3, <3>1
    <3>3. r.nstun = Cardinality(r.ct) + Cardinality(r.wait)
      BY ONLY SMTT(30), <1>3, <1>5, <3>1
    <3> QED
      BY ONLY <1>3, <2>2, <3>2, <3>3 DEF Counted
  <2> QED
    BY <1>4, <2>1, <2>2
<1> QED
  BY <1>1, <1>2, <1>3, <1>6, GatherKeeps DEF o

(* An answer for the allocation of component c.                            *)
LEMMA Answers ==
  ASSUME CompsCount, MnatAssumption, NEW o \in MediaRecs, Counted(o), NEW c \in Comps, NEW r, r = Answered(o, c),
         c \in o.wait \/ (c \in o.up /\ o.gathered)
  PROVE  /\ r \in MediaRecs /\ r.gathered = o.gathered /\ Counted(r)
         /\ r.nstun = o.nstun - 1 /\ r.ct = o.ct /\ r.wait = o.wait \ {c} /\ r.up = o.up \ {c}
         /\ r.gathered => r.nstun < 0 /\ c \in o.up
         /\ ~r.gathered => c \notin r.ct /\ c \notin r.wait
<1>1. /\ r \in MediaRecs /\ r.gathered = o.gathered /\ r.nstun = o.nstun - 1
      /\ r.ct = o.ct /\ r.wait = o.wait \ {c} /\ r.up = o.up \ {c}
  <2> DEFINE w == o.wait \ {c}
             u == o.up \ {c}
             n == o.nstun - 1
  <2>1. r = [o EXCEPT !.nstun = n, !.wait = w, !.up = u]
    BY DEF Answered
  <2>2. w \in SUBSET Comps /\ u \in SUBSET Comps /\ n \in Int
    BY DEF MediaRecs
  <2> HIDE DEF w, u, n
  <2>3. /\ r \in MediaRecs /\ r.gathered = o.gathered /\ r.nstun = n
        /\ r.ct = o.ct /\ r.wait = w /\ r.up = u
    BY ONLY Zenon, <2>1, <2>2, o \in MediaRecs DEF MediaRecs
  <2> QED
    BY <2>3 DEF w, u, n
<1>2. /\ o.ct \in SUBSET Comps /\ o.wait \in SUBSET Comps /\ o.up \in SUBSET Comps
      /\ o.gathered \in BOOLEAN /\ o.nstun \in Int
  BY SMTT(30) DEF MediaRecs
<1>3. /\ Cardinality(o.ct) \in Nat /\ Cardinality(o.wait) \in Nat /\ Cardinality(o.up) \in Nat
      /\ Cardinality(Comps) \in Nat
  BY SMTT(30), <1>2, Cards
<1>4. CASE o.gathered
  <2>1. /\ o.wait = {} /\ o.nstun <= 0
        /\ o.nstun + Cardinality(Comps) >= Cardinality(o.ct) + Cardinality(o.up)
    BY <1>4 DEF Counted
  <2>2. c \in o.up /\ Cardinality(o.up \ {c}) = Cardinality(o.up) - 1
    BY <1>2, <2>1, Cards
  <2>3. Counted(r) /\ r.nstun < 0
    BY ONLY <1>1, <1>2, <1>3, <1>4, <2>1, <2>2 DEF Counted
  <2> QED
    BY <1>1, <1>4, <2>2, <2>3
<1>5. CASE ~o.gathered
  <2>1. o.ct \cap o.wait = {} /\ o.nstun = Cardinality(o.ct) + Cardinality(o.wait) /\ c \in o.wait
    BY <1>5 DEF Counted
  <2>2. Cardinality(o.wait \ {c}) = Cardinality(o.wait) - 1
    BY <1>2, <2>1, Cards
  <2>3. r.ct \cap r.wait = {} /\ c \notin r.ct /\ c \notin r.wait
    BY ONLY <1>1, <2>1
  <2>4. r.nstun = Cardinality(r.ct) + Cardinality(r.wait)
    BY ONLY <1>1, <1>3, <2>1, <2>2
  <2> QED
    BY ONLY <1>1, <1>5, <2>3, <2>4 DEF Counted
<1> QED
  BY <1>2, <1>4, <1>5

(* A binding request for component c is one more that is pending.          *)
LEMMA Binds ==
  ASSUME CompsCount, MnatAssumption, NEW o \in MediaRecs, Counted(o), NEW c \in Comps, c \notin o.ct,
         o.gathered => o.nstun < 0, ~o.gathered => c \notin o.wait,
         NEW r, r = Bind(o, c)
  PROVE  /\ r \in MediaRecs /\ r.gathered = o.gathered /\ Counted(r)
         /\ ~r.gathered => r.nstun > 0
<1>1. /\ r \in MediaRecs /\ r.gathered = o.gathered /\ r.nstun = o.nstun + 1
      /\ r.ct = o.ct \cup {c} /\ r.wait = o.wait /\ r.up = o.up
  <2> DEFINE x == o.ct \cup {c}
             n == o.nstun + 1
  <2>1. r = [o EXCEPT !.ct = x, !.nstun = n]
    BY DEF Bind
  <2>2. x \in SUBSET Comps /\ n \in Int
    BY DEF MediaRecs
  <2> HIDE DEF x, n
  <2>3. /\ r \in MediaRecs /\ r.gathered = o.gathered /\ r.nstun = n
        /\ r.ct = x /\ r.wait = o.wait /\ r.up = o.up
    BY ONLY Zenon, <2>1, <2>2, o \in MediaRecs DEF MediaRecs
  <2> QED
    BY <2>3 DEF x, n
<1>2. /\ o.ct \in SUBSET Comps /\ o.wait \in SUBSET Comps /\ o.up \in SUBSET Comps
      /\ o.gathered \in BOOLEAN /\ o.nstun \in Int
  BY DEF MediaRecs
<1>3. /\ Cardinality(o.ct) \in Nat /\ Cardinality(o.wait) \in Nat /\ Cardinality(o.up) \in Nat
      /\ Cardinality(Comps) \in Nat
  BY <1>2, Cards
<1>4. Cardinality(r.ct) = Cardinality(o.ct) + 1
  BY <1>1, <1>2, Cards
<1>5. CASE o.gathered
  <2>1. /\ o.wait = {} /\ o.nstun <= 0
        /\ o.nstun + Cardinality(Comps) >= Cardinality(o.ct) + Cardinality(o.up)
    BY <1>5 DEF Counted
  <2>2. o.nstun < 0
    BY <1>5
  <2> QED
    BY ONLY <1>1, <1>2, <1>3, <1>4, <1>5, <2>1, <2>2 DEF Counted
<1>6. CASE ~o.gathered
  <2>1. o.ct \cap o.wait = {} /\ o.nstun = Cardinality(o.ct) + Cardinality(o.wait) /\ c \notin o.wait
    BY <1>6 DEF Counted
  <2>2. r.ct \cap r.wait = {}
    BY ONLY <1>1, <2>1
  <2>3. r.nstun = Cardinality(r.ct) + Cardinality(r.wait) /\ r.nstun > 0
    BY ONLY SMTT(30), <1>1, <1>3, <1>4, <2>1
  <2> QED
    BY ONLY <1>1, <1>6, <2>2, <2>3 DEF Counted
<1> QED
  BY <1>2, <1>5, <1>6

(* turnc_handler with an allocation.                                       *)
LEMMA AllocatedKeeps ==
  ASSUME CompsCount, MnatAssumption, MnatInv, NEW m \in Streams, NEW c \in Comps,
         NEW mapped \in BOOLEAN, NEW sends \in BOOLEAN, Allocated(m, c, mapped, sends)
  PROVE  MnatInv'
<1> DEFINE o == med[m]
           a == Answered(o, c)
           r == [a EXCEPT !.up = @ \cup {c}]
           bind == ~mapped /\ iface
           err == bind /\ ~CanBind(r, c, sends)
           n == IF bind /\ CanBind(r, c, sends) THEN Bind(r, c) ELSE r
<1>1. /\ c \in o.wait /\ Gather(m, n, err)
      /\ UNCHANGED <<iface, started, reinvite, again, stale>>
  BY DEF Allocated
<1>2. alive /\ ~resolving /\ o \in MediaRecs /\ Counted(o)
  BY <1>1, Pending DEF Quiet
<1>3. ~o.gathered /\ o.gathered \in BOOLEAN
  BY <1>1, <1>2 DEF Counted, MediaRecs
<1> HIDE DEF o
<1>4. /\ a \in MediaRecs /\ a.gathered = o.gathered /\ Counted(a)
      /\ ~a.gathered => c \notin a.ct /\ c \notin a.wait
  BY <1>1, <1>2, Answers
<1> HIDE DEF a
<1>5. /\ r \in MediaRecs /\ r.gathered = a.gathered /\ r.nstun = a.nstun /\ r.ct = a.ct /\ r.wait = a.wait
  BY <1>4 DEF MediaRecs
<1>6. Counted(r)
  BY SMTT(30), <1>3, <1>4, <1>5 DEF Counted
<1> HIDE DEF r
<1>7. n \in MediaRecs /\ Counted(n) /\ ~n.gathered /\ n.gathered = o.gathered
  <2>1. CASE bind /\ CanBind(r, c, sends)
    <3>1. n = Bind(r, c)
      BY SMTT(30), <2>1
    <3>2. c \notin r.ct /\ c \notin r.wait /\ ~r.gathered
      BY <1>3, <1>4, <1>5
    <3> HIDE DEF n
    <3> QED
      BY <1>3, <1>4, <1>5, <1>6, <3>1, <3>2, Binds
  <2>2. CASE ~(bind /\ CanBind(r, c, sends))
    <3>1. n = r
      BY <2>2
    <3> HIDE DEF n
    <3> QED
      BY <1>3, <1>4, <1>5, <1>6, <3>1
  <2> QED
    BY SMTT(30), <2>1, <2>2
<1>8. err \in BOOLEAN
  OBVIOUS
<1> HIDE DEF n, err
<1> QED
  BY <1>1, <1>2, <1>7, <1>8, GatherKeeps DEF o

(* turnc_handler with a failure, at once or later.                         *)
LEMMA FailedKeeps ==
  ASSUME CompsCount, MnatAssumption, MnatInv, NEW m \in Streams, NEW c \in Comps,
         NEW code \in BOOLEAN, NEW sends \in BOOLEAN, AllocFailed(m, c, code, sends)
  PROVE  MnatInv'
<1> DEFINE o == med[m]
           r == Answered(o, c)
<1>1. /\ c \in o.wait \/ (c \in o.up /\ o.gathered)
      /\ IF code /\ CanBind(r, c, sends)
         THEN med' = [med EXCEPT ![m] = Bind(r, c)] /\ UNCHANGED <<estabh, told, alive, resolving>>
         ELSE Gather(m, r, TRUE)
      /\ UNCHANGED <<iface, started, reinvite, again, stale>>
  BY ZenonT(30) DEF AllocFailed
<1>2. alive /\ ~resolving /\ o \in MediaRecs /\ Counted(o) /\ Flags
  BY ZenonT(30), <1>1, Pending DEF Quiet
<1>3. /\ r \in MediaRecs /\ r.gathered = o.gathered /\ Counted(r)
      /\ r.gathered => r.nstun < 0
      /\ ~r.gathered => c \notin r.ct /\ c \notin r.wait
  BY ZenonT(30), <1>1, <1>2, Answers
<1> HIDE DEF r
<1>4. CASE code /\ CanBind(r, c, sends)
  <2> DEFINE n == Bind(r, c)
  <2>1. med' = [med EXCEPT ![m] = n] /\ UNCHANGED <<estabh, told, alive, resolving>>
    BY Zenon, <1>1, <1>4
  <2>2. c \notin r.ct
    BY <1>4 DEF CanBind
  <2>3. n \in MediaRecs /\ n.gathered = r.gathered /\ Counted(n) /\ (~n.gathered => n.nstun > 0)
    BY SMTT(30), <1>3, <2>2, Binds
  <2>4. Flags'
    BY <1>1, <1>2, <2>1 DEF Flags
  <2> HIDE DEF n
  <2> QED
    BY ZenonT(30), <1>2, <1>3, <2>1, <2>3, <2>4, StreamKeeps DEF o
<1>5. CASE ~(code /\ CanBind(r, c, sends))
  <2>1. Gather(m, r, TRUE)
    BY ZenonT(30), <1>1, <1>5
  <2> QED
    BY Zenon, <1>1, <1>2, <1>3, <2>1, GatherKeeps DEF o
<1> QED
  BY <1>4, <1>5

(* ice_start begins the checks and touches no request.                     *)
LEMMA StartKeeps ==
  ASSUME CompsCount, MnatAssumption, MnatInv, NEW active \in SUBSET Streams, NEW bad \in SUBSET Streams,
         ice_start(active, bad)
  PROVE  MnatInv'
<1> DEFINE Fails == {i \in 1..Len(Media) : Media[i] \in active /\ (Media[i] \in bad \/ med[Media[i]].formed)}
           First == IF Fails = {} THEN 0 ELSE CHOOSE i \in Fails : \A j \in Fails : i <= j
           upto == IF First = 0 THEN Len(Media) ELSE First - 1
           reached == {Media[i] : i \in 1..upto}
<1>1. /\ started' = (First = 0)
      /\ UNCHANGED <<iface, alive, resolving, estabh, reinvite, told, again, stale>>
  BY Zenon DEF ice_start
<1>2. PICK good \in SUBSET Streams, runs \in [Streams -> 1..2] :
           med' = [m \in Streams |->
                     IF m \in reached \cap active
                     THEN [med[m] EXCEPT !.complete = FALSE, !.formed = TRUE,
                                         !.runs = runs[m], !.ok = m \in good]
                     ELSE IF m \in reached THEN [med[m] EXCEPT !.complete = TRUE]
                     ELSE IF First # 0 /\ m = Media[First] THEN [med[m] EXCEPT !.complete = FALSE]
                     ELSE med[m]]
  BY Zenon DEF ice_start
<1>3. Flags /\ med \in [Streams -> MediaRecs]
  BY MnatParts
<1>4. Flags'
  <2> HIDE DEF First
  <2> QED
    BY SMTT(30), <1>1, <1>3 DEF Flags
<1> HIDE DEF First, reached
<1>5. ASSUME NEW m \in Streams
      PROVE  /\ med'[m] \in MediaRecs /\ med'[m].gathered = med[m].gathered
             /\ med'[m].nstun = med[m].nstun /\ med'[m].ct = med[m].ct
             /\ med'[m].wait = med[m].wait /\ med'[m].up = med[m].up
  <2> DEFINE o == med[m]
             q == med'[m]
             k == runs[m]
             g == m \in good
  <2>1. \/ q = [o EXCEPT !.complete = FALSE, !.formed = TRUE, !.runs = k, !.ok = g]
        \/ q = [o EXCEPT !.complete = TRUE]
        \/ q = [o EXCEPT !.complete = FALSE]
        \/ q = o
    BY Zenon, <1>2
  <2>2. o \in MediaRecs /\ k \in Int /\ g \in BOOLEAN
    BY <1>3
  <2> HIDE DEF o, q, k, g
  <2>3. /\ q \in MediaRecs /\ q.gathered = o.gathered /\ q.nstun = o.nstun /\ q.ct = o.ct
        /\ q.wait = o.wait /\ q.up = o.up
    BY ONLY ZenonT(30), <2>1, <2>2 DEF MediaRecs
  <2> QED
    BY <2>3 DEF o, q
<1>6. med' \in [Streams -> MediaRecs]
  BY Zenon, <1>2, <1>5
<1> QED
  BY <1>1, <1>4, <1>5, <1>6, SameGathering

(* conncheck_handler ends the checks of a stream.                          *)
LEMMA CheckedKeeps ==
  ASSUME CompsCount, MnatAssumption, MnatInv, NEW m \in Streams, NEW changed \in BOOLEAN, NEW enc \in BOOLEAN,
         conncheck_handler(m, changed, enc)
  PROVE  MnatInv'
<1> DEFINE o == med[m]
           q == Checked(o)
           ms == [med EXCEPT ![m] = q]
           complete == all_completed(ms)
           asks == reinvite \/ changed
<1>1. Flags /\ med \in [Streams -> MediaRecs] /\ told \in {<<>>, <<"ok">>, <<"error">>} /\ Told
  BY MnatParts
<1>3. complete \in BOOLEAN
  BY DEF all_completed
<1>4. /\ \/ med' = ms /\ UNCHANGED <<alive, resolving, reinvite, again, stale>>
         \/ Dropped /\ stale' = (stale \/ complete) /\ UNCHANGED <<reinvite, again>>
         \/ /\ med' = ms /\ reinvite' = (asks /\ ~(complete /\ Offerer))
            /\ again' = (again \/ (complete /\ asks /\ Offerer))
            /\ UNCHANGED <<alive, resolving, stale>>
      /\ UNCHANGED <<iface, estabh, started, told>>
  BY DEF conncheck_handler, Looks
<1>5. q \in MediaRecs /\ q.gathered = o.gathered /\ q.nstun = o.nstun
      /\ q.ct = o.ct /\ q.wait = o.wait /\ q.up = o.up
  <2> DEFINE k == o.runs - 1
             d == o.complete \/ o.ok
  <2>1. q = [o EXCEPT !.runs = k, !.complete = d]
    BY DEF Checked
  <2>2. o \in MediaRecs
    BY <1>1
  <2>3. k \in Int /\ d \in BOOLEAN
    BY <2>2 DEF MediaRecs
  <2> HIDE DEF o, q, k, d
  <2> QED
    BY ONLY Zenon, <2>1, <2>2, <2>3 DEF MediaRecs
<1> HIDE DEF q, complete
<1>6. CASE Dropped /\ stale' = (stale \/ complete) /\ UNCHANGED <<reinvite, again>>
  <2>1. Flags'
    BY Zenon, <1>1, <1>3, <1>4, <1>6 DEF Flags, Dropped
  <2>2. told' \in {<<>>, <<"ok">>, <<"error">>} /\ (told' \in {<<>>, <<"ok">>} => estabh')
    BY ZenonT(30), <1>1, <1>4 DEF Told
  <2> QED
    BY <1>6, <2>1, <2>2, DropKeeps
<1>7. CASE med' = ms /\ UNCHANGED <<alive, resolving>> /\ Flags'
  <2>1. ms \in [Streams -> MediaRecs]
        /\ \A n \in Streams : /\ ms[n].gathered = med[n].gathered /\ ms[n].nstun = med[n].nstun
                               /\ ms[n].ct = med[n].ct /\ ms[n].wait = med[n].wait
                               /\ ms[n].up = med[n].up
    BY <1>1, <1>5
  <2> HIDE DEF ms
  <2>2. \A n \in Streams : /\ med'[n].gathered = med[n].gathered /\ med'[n].nstun = med[n].nstun
                           /\ med'[n].ct = med[n].ct /\ med'[n].wait = med[n].wait
                           /\ med'[n].up = med[n].up
    BY Zenon, <1>7, <2>1
  <2> QED
    BY ZenonT(30), <1>4, <1>7, <2>1, <2>2, SameGathering
<1>8. CASE med' = ms /\ UNCHANGED <<alive, resolving, reinvite, again, stale>>
  <2>1. Flags'
    BY <1>1, <1>4, <1>8 DEF Flags
  <2> QED
    BY <1>7, <1>8, <2>1
<1>9. CASE /\ med' = ms /\ reinvite' = (asks /\ ~(complete /\ Offerer))
           /\ again' = (again \/ (complete /\ asks /\ Offerer))
           /\ UNCHANGED <<alive, resolving, stale>>
  <2>1. reinvite' \in BOOLEAN /\ again' \in BOOLEAN
    BY <1>9
  <2>2. Flags'
    BY <1>1, <1>4, <1>9, <2>1 DEF Flags
  <2> QED
    BY <1>7, <1>9, <2>2
<1> QED
  BY Zenon, <1>4, <1>6, <1>8, <1>9

(* The owner drops the session.                                            *)
LEMMA ReleaseKeeps ==
  ASSUME CompsCount, MnatInv, Release
  PROVE  MnatInv'
<1>1. Flags /\ told \in {<<>>, <<"ok">>, <<"error">>} /\ Told
  BY MnatParts
<1>2. Dropped /\ UNCHANGED <<iface, estabh, started, reinvite, told, again, stale>>
  BY DEF Release
<1>3. Flags'
  BY Zenon, <1>1, <1>2 DEF Flags, Dropped
<1>4. told' \in {<<>>, <<"ok">>, <<"error">>} /\ (told' \in {<<>>, <<"ok">>} => estabh')
  BY Zenon, <1>1, <1>2 DEF Told
<1> QED
  BY <1>2, <1>3, <1>4, DropKeeps

(* A step in which nothing changes.                                        *)
LEMMA StillKeeps ==
  ASSUME CompsCount, MnatInv, UNCHANGED mnatVars
  PROVE  MnatInv'
<1>1. /\ med' = med /\ UNCHANGED <<alive, resolving, estabh, told>> /\ Flags' 
      /\ med' \in [Streams -> MediaRecs]
  BY MnatParts DEF mnatVars, Flags
<1> QED
  BY <1>1, SameGathering

(* Every step keeps the invariant.                                         *)
LEMMA MnatSteps ==
  ASSUME CompsCount, MnatAssumption, MnatInv, [MnatNext]_mnatVars
  PROVE  MnatInv'
<1>1. CASE Resolved
  BY <1>1, TimerKeeps, AddressKeeps DEF Resolved
<1>2. CASE \E m \in Streams, c \in Comps :
             (\E err \in BOOLEAN : stun_resp_handler(m, c, err)) \/ turnc_handler(m, c)
  BY <1>2, AnswerKeeps, AllocatedKeeps, FailedKeeps DEF turnc_handler
<1>3. CASE \E active, bad \in SUBSET Streams : ice_start(active, bad)
  BY <1>3, StartKeeps
<1>4. CASE \E m \in Streams, changed, enc \in BOOLEAN : conncheck_handler(m, changed, enc)
  BY <1>4, CheckedKeeps
<1>5. CASE Release
  BY <1>5, ReleaseKeeps
<1>6. CASE UNCHANGED mnatVars
  BY <1>6, StillKeeps
<1> QED
  BY Zenon, <1>1, <1>2, <1>3, <1>4, <1>5, <1>6 DEF MnatNext, MnatRests

(* What the invariant says of the reports to the owner.                    *)
LEMMA InvSays ==
  ASSUME CompsCount, MnatAssumption, MnatInv
  PROVE  MnatTypeOK /\ ToldOnce /\ NotForgotten
<1>1. /\ Flags /\ med \in [Streams -> MediaRecs] /\ told \in {<<>>, <<"ok">>, <<"error">>}
      /\ Told /\ \A n \in Streams : Done(med[n])
  BY SMTT(30), MnatParts
<1>2. ASSUME NEW m \in Streams
      PROVE  /\ med[m].ct \cup med[m].wait \cup med[m].up \subseteq Comps
             /\ med[m].nstun \in -Cardinality(Comps)..Cardinality(Comps)
             /\ med[m].gathered => med[m].wait = {}
             /\ ~med[m].gathered /\ med[m].nstun > 0 => med[m].ct \cup med[m].wait # {}
  <2> DEFINE o == med[m]
  <2>1. Counted(o) /\ o \in MediaRecs
    BY <1>1 DEF Done
  <2> HIDE DEF o
  <2>2. /\ o.ct \in SUBSET Comps /\ o.wait \in SUBSET Comps /\ o.up \in SUBSET Comps
        /\ o.nstun \in Int /\ o.gathered \in BOOLEAN
    BY <2>1 DEF MediaRecs
  <2>3. /\ Cardinality(o.ct) \in Nat /\ Cardinality(o.wait) \in Nat /\ Cardinality(o.up) \in Nat
        /\ Cardinality(Comps) \in Nat
        /\ (Cardinality(o.ct) = 0 <=> o.ct = {}) /\ (Cardinality(o.wait) = 0 <=> o.wait = {})
    BY SMTT(30), <2>2, Cards
  <2>4. CASE o.gathered
    <3>1. /\ o.wait = {} /\ o.nstun <= 0
          /\ o.nstun + Cardinality(Comps) >= Cardinality(o.ct) + Cardinality(o.up)
      BY <2>1, <2>4 DEF Counted
    <3>2. o.nstun \in -Cardinality(Comps)..Cardinality(Comps)
      BY ONLY <2>2, <2>3, <3>1
    <3> QED
      BY <2>2, <2>4, <3>1, <3>2 DEF o
  <2>5. CASE ~o.gathered
    <3>1. o.ct \cap o.wait = {} /\ o.nstun = Cardinality(o.ct) + Cardinality(o.wait)
      BY <2>1, <2>5 DEF Counted
    <3>2. Cardinality(o.ct) + Cardinality(o.wait) <= Cardinality(Comps)
      BY <2>2, <3>1, CardDisjoint
    <3>3. o.nstun \in -Cardinality(Comps)..Cardinality(Comps)
      BY ONLY <2>2, <2>3, <3>1, <3>2
    <3>4. o.nstun > 0 => o.ct # {} \/ o.wait # {}
      BY ONLY <2>3, <3>1
    <3> QED
      BY <2>2, <2>5, <3>3, <3>4 DEF o
  <2> QED
    BY <2>2, <2>4, <2>5
<1>3. MnatTypeOK
  BY <1>1, <1>2 DEF MnatTypeOK
<1>4. ToldOnce
  <2>1. Len(told) <= 1
    <3>1. told = <<>> \/ told = <<"ok">> \/ told = <<"error">>
      BY <1>1
    <3>2. Len(<<>>) <= 1 /\ Len(<<"ok">>) <= 1 /\ Len(<<"error">>) <= 1
      OBVIOUS
    <3> QED
      BY Zenon, <3>1, <3>2
  <2> QED
    BY <1>1, <1>2, <2>1 DEF ToldOnce, Told
<1>5. NotForgotten
  <2> SUFFICES ASSUME alive, told = <<>>, ~resolving
               PROVE  \E m \in Streams : med[m].ct \cup med[m].wait # {}
    BY DEF NotForgotten
  <2>1. PICK m \in Streams : ~med[m].gathered
    BY <1>1 DEF Told
  <2>2. med[m].nstun > 0
    BY <1>1, <2>1 DEF Done
  <2> QED
    BY <1>2, <2>1, <2>2
<1> QED
  BY <1>3, <1>4, <1>5

INSTANCE FiniteSetTheorems

(* A finite set of components can be counted.                              *)
LEMMA Countable ==
  ASSUME MnatAssumption
  PROVE  CompsCount
<1>1. ASSUME NEW S \in SUBSET Comps
      PROVE  /\ IsFiniteSet(S) /\ IsFiniteSet(Comps)
             /\ Cardinality(S) \in Nat /\ Cardinality(S) <= Cardinality(Comps)
             /\ Cardinality(S) = 0 <=> S = {}
  <2>1. IsFiniteSet(Comps) /\ IsFiniteSet(S)
    BY FS_Subset DEF MnatAssumption
  <2>2. Cardinality(S) \in Nat /\ Cardinality(S) <= Cardinality(Comps)
    BY <2>1, FS_Subset, FS_CardinalityType
  <2>3. Cardinality(S) = 0 <=> S = {}
    BY <2>1, FS_EmptySet
  <2> QED
    BY <2>1, <2>2, <2>3
<1>2. ASSUME NEW S \in SUBSET Comps, NEW c \in S PROVE Cardinality(S \ {c}) = Cardinality(S) - 1
  BY <1>1, FS_RemoveElement
<1>3. ASSUME NEW S \in SUBSET Comps, NEW c \in Comps, c \notin S
      PROVE  Cardinality(S \cup {c}) = Cardinality(S) + 1
  BY <1>1, <1>3, FS_AddElement
<1>4. Cardinality({}) = 0
  BY FS_EmptySet
<1>5. ASSUME NEW S \in SUBSET Comps, NEW T \in SUBSET Comps, S \cap T = {}
      PROVE  Cardinality(S) + Cardinality(T) <= Cardinality(Comps)
  <2>1. Cardinality(S \cup T) = Cardinality(S) + Cardinality(T) - Cardinality(S \cap T)
    BY <1>1, FS_Union
  <2>2. S \cup T \in SUBSET Comps
    OBVIOUS
  <2>3. Cardinality(S \cup T) <= Cardinality(Comps) /\ Cardinality(S \cup T) \in Nat
    BY <1>1, <2>2
  <2>4. Cardinality(S) \in Nat /\ Cardinality(T) \in Nat
    BY <1>1
  <2>5. Cardinality(S \cap T) = 0
    BY <1>4, <1>5
  <2>6. Comps \in SUBSET Comps
    OBVIOUS
  <2>7. Cardinality(Comps) \in Nat
    BY <1>1, <2>6
  <2> QED
    BY <2>1, <2>3, <2>4, <2>5, <2>7
<1> QED
  BY SMTT(30), <1>1, <1>2, <1>3, <1>4, <1>5 DEF CompsCount

(***************************************************************************)
(* The counters of the gathering are right, for every number of streams    *)
(* and of components: call_gather_handler, stun_resp_handler and           *)
(* turnc_handler of modules/ice/ice.c.                                     *)
(***************************************************************************)
THEOREM MnatInvariant == MnatAssumption => (MnatSpec => []MnatInv)
<1> SUFFICES ASSUME MnatAssumption PROVE MnatSpec => []MnatInv
  OBVIOUS
<1>1. MnatInit => MnatInv
  BY MnatBegins, Countable
<1>2. MnatInv /\ [MnatNext]_mnatVars => MnatInv'
  BY MnatSteps, Countable
<1> QED
  BY <1>1, <1>2, PTL DEF MnatSpec

(***************************************************************************)
(* The owner of the session hears once of the end of the gathering, and of *)
(* success only when every stream has its candidates; and the session      *)
(* never waits for a request that is not pending (gather_handler,          *)
(* modules/ice/ice.c).                                                     *)
(***************************************************************************)
THEOREM GatheringKept == MnatAssumption => (MnatSpec => []GatherKept)
<1> SUFFICES ASSUME MnatAssumption PROVE MnatSpec => []GatherKept
  OBVIOUS
<1>1. MnatSpec => []MnatInv
  BY MnatInvariant
<1>2. MnatInv => GatherKept
  BY InvSays, Countable DEF GatherKept
<1> QED
  BY <1>1, <1>2, PTL

(* The steps that may use a dropped session, or ask for a renegotiation.   *)
LEMMA OthersKeep ==
  ASSUME MnatNext
  PROVE  \/ again' = again /\ (stale' = stale \/ ~iface)
         \/ \E m \in Streams, changed, enc \in BOOLEAN : conncheck_handler(m, changed, enc)
<1>1. CASE tmr_async_handler
  BY Zenon, <1>1 DEF tmr_async_handler
<1>2. CASE \E err \in BOOLEAN : dns_handler(err)
  BY Zenon, <1>2 DEF dns_handler
<1>3. CASE \E m \in Streams, c \in Comps :
             (\E err \in BOOLEAN : stun_resp_handler(m, c, err)) \/ turnc_handler(m, c)
  <2>1. ASSUME NEW m \in Streams, NEW c \in Comps, NEW err \in BOOLEAN, stun_resp_handler(m, c, err)
        PROVE  again' = again /\ stale' = stale
    BY <2>1 DEF stun_resp_handler
  <2>2. ASSUME NEW m \in Streams, NEW c \in Comps, NEW b \in BOOLEAN, NEW sends \in BOOLEAN,
               Allocated(m, c, b, sends) \/ AllocFailed(m, c, b, sends)
        PROVE  again' = again /\ stale' = stale
    BY Zenon, <2>2 DEF Allocated, AllocFailed
  <2> QED
    BY <1>3, <2>1, <2>2 DEF turnc_handler
<1>4. CASE \E active, bad \in SUBSET Streams : ice_start(active, bad)
  <2>1. ASSUME NEW active \in SUBSET Streams, NEW bad \in SUBSET Streams, ice_start(active, bad)
        PROVE  again' = again /\ stale' = stale
    BY Zenon, <2>1 DEF ice_start
  <2> QED
    BY <1>4, <2>1
<1>5. CASE Release \/ MnatRests
  BY <1>5 DEF Release, MnatRests, mnatVars
<1> QED
  BY Zenon, <1>1, <1>2, <1>3, <1>4, <1>5 DEF MnatNext, Resolved

(***************************************************************************)
(* The session asks its owner to renegotiate only when every stream is     *)
(* connected (conncheck_handler, modules/ice/ice.c).                       *)
(***************************************************************************)
THEOREM RenegotiatesAfterAll == MnatAssumption => (MnatSpec => [][AsksAfterAll]_mnatVars)
<1> SUFFICES ASSUME MnatAssumption PROVE MnatSpec => [][AsksAfterAll]_mnatVars
  OBVIOUS
<1>1. ASSUME MnatInv, MnatNext PROVE AsksAfterAll
  <2> SUFFICES ASSUME again # again' PROVE \A m \in Streams : med'[m].complete
    BY DEF AsksAfterAll
  <2>1. again \in BOOLEAN
    BY <1>1 DEF MnatInv, Flags
  <2>2. PICK m \in Streams, changed \in BOOLEAN, enc \in BOOLEAN : conncheck_handler(m, changed, enc)
    BY <1>1, OthersKeep
  <2> DEFINE ms == [med EXCEPT ![m] = Checked(med[m])]
  <2>3. med' = ms /\ again' = (again \/ (all_completed(ms) /\ (reinvite \/ changed) /\ Offerer))
    BY <2>2 DEF conncheck_handler
  <2> HIDE DEF ms
  <2>4. all_completed(ms)
    BY <2>1, <2>3 DEF all_completed
  <2> QED
    BY <2>3, <2>4 DEF all_completed
<1>2. MnatInv /\ [MnatNext]_mnatVars => [AsksAfterAll]_mnatVars
  BY <1>1
<1>3. MnatSpec => []MnatInv
  BY MnatInvariant
<1> QED
  BY <1>2, <1>3, PTL DEF MnatSpec

(***************************************************************************)
(* A handler goes on with a session that its callback has dropped in two   *)
(* cases only: tmr_async_handler when the host has no interface, and       *)
(* conncheck_handler when the encryption of the last stream to be          *)
(* connected fails (modules/ice/ice.c).                                    *)
(***************************************************************************)
THEOREM DroppedInTwoCases == MnatAssumption => (MnatSpec => [][StaleExplained]_mnatVars)
<1> SUFFICES ASSUME MnatAssumption PROVE MnatSpec => [][StaleExplained]_mnatVars
  OBVIOUS
<1>1. ASSUME MnatInv, MnatNext PROVE StaleExplained
  <2> SUFFICES ASSUME stale # stale', iface
               PROVE  \E m \in Streams : \A n \in Streams \ {m} : med[n].complete
    BY DEF StaleExplained
  <2>1. stale \in BOOLEAN /\ med \in [Streams -> MediaRecs]
    BY <1>1 DEF MnatInv, Flags
  <2>2. PICK m \in Streams, changed \in BOOLEAN, enc \in BOOLEAN : conncheck_handler(m, changed, enc)
    BY <1>1, OthersKeep
  <2> DEFINE ms == [med EXCEPT ![m] = Checked(med[m])]
  <2>3. stale' = (stale \/ all_completed(ms))
    BY <2>2 DEF conncheck_handler, Looks
  <2>4. all_completed(ms)
    BY SMTT(30), <2>1, <2>3 DEF all_completed
  <2>5. \A n \in Streams \ {m} : med[n].complete
    BY <2>1, <2>4 DEF all_completed
  <2> QED
    BY <2>5
<1>2. MnatInv /\ [MnatNext]_mnatVars => [StaleExplained]_mnatVars
  BY <1>1
<1>3. MnatSpec => []MnatInv
  BY MnatInvariant
<1> QED
  BY <1>2, <1>3, PTL DEF MnatSpec
=============================================================================
