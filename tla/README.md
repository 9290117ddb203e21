# A TLA+ model of barertc

barertc is a small WebRTC endpoint. A demo HTTP server lets browsers set up an
audio session with it, and the same HTTP server takes commands that make the
program join a video room of a Janus-like signalling server as a client. It is
built on libre, baresip and librem, and talks TURN to restund. This directory
holds TLA+ models of the program and of the libraries it stands on, TLC
configurations that check them on small instances, and proofs that TLAPS checks
for every instance.

## The system

Everything runs on one event loop (libre): HTTP requests, timers, ICE and
encryption callbacks, and the WebSocket, which a 50 ms timer polls. A handler
runs to its end before the next one starts, and is one step of a model. (The
decoding thread of an adaptive jitter buffer is the exception, and is modelled as
a second actor.) What makes the program hard is the order in which handlers come:
a reply is written by a callback long after its request, timers carry pointers to
objects that another request frees, the server's messages race the client's own
ICE, and the network loses, repeats and reorders.

| Part | Source | Module |
|---|---|---|
| Peer connection, media track | `barertc/src/peerconn.c`, `mediatrack.c` | `PeerConn` (a record and operators on it, no variables) |
| Demo server | `barertc/src/barertc.c` | `HttpDemo`; what it promises about descriptions: `Negotiation` |
| Room client life cycle | `barertc.c`, `brtc/baidu_rtc_signal_client.c` | `RtcClient` |
| Room signalling | `brtc/RTCConnection.c` | `Janus` |
| Client sessions | `brtc/baidu_rtc_client_session.c` | `RoomClient` (composes `Janus` with sessions and `PeerConn`) |
| JSON reader | `brtc/core_json.c` | `CoreJson` (operators); `JsonBytes`, `JsonSearch` (inputs and reference definitions) |
| Timers, polling, signals | `re/src/tmr`, `re/src/main` | `EventLoop` |
| HTTP server | `re/src/http/server.c` | `HttpServer` |
| WebSocket | `re/src/websock/websock.c` | `WebSock` |
| Resolver | `re/src/dns/client.c` | `DnsClient` |
| STUN transaction, keepalive | `re/src/stun` | `Stun` |
| TURN client and server | `re/src/turn`, `restund` | `Turn` |
| ICE module of baresip | `baresip/modules/ice/ice.c` | `MnatIce` |
| Connectivity checks | `re/src/ice` | `IceAgent` |
| DTLS-SRTP | `baresip/modules/dtls_srtp`, `stream.c`, `re/src/tls` | `Dtls` |
| SRTP | `re/src/srtp` | `ReplayList` (operators), `Replay`, `Srtp` |
| Jitter buffer | `re/src/jbuf`, `baresip/src/stream.c` | `Jbuf` |
| SIP transactions | `re/src/sip` | `SipTrans` |
| SIP registration | `re/src/sipreg`, `baresip/src/reg.c` | `SipReg` |

The demo server and the client sessions own peer connections. The client sessions
are driven by the signalling, and the signalling by the life cycle. A peer
connection gathers through `MnatIce` (which uses STUN, TURN and DNS), checks
through `IceAgent`, and is encrypted by `Dtls` and `Srtp`. All of it is called
by the event loop.

Definitions keep the names of the functions they translate where there is one
function (`conn_destructor`, `srtp_get_index`, `do_check`), in capitals where
several are joined (`peerconnection_start_ice` is `StartIce`). `PROJECT.json`
maps every definition to its lines. A name with a suffix, such as
`conn_destructor_NoTimer`, is a faulty variant: a plausible bug, kept to see that
a property notices it.

### How state and actions correspond to the code

- **PeerConn.** A call that may fail is a pair: `Op(p)` is the object afterwards
  and `OpOk(p)` says whether it returned 0. `SetRemoteDescr` moves the signalling
  state before decoding, as the code does. `StartIce` includes the retry timer. A
  record with `alive = FALSE` is the NULL pointer.
- **HttpDemo.** `pending` is `conn_pending`, `refs` the reference counts of
  connections, `waiting` the session whose answer a browser's connection expects.
  `dangling` holds sessions whose peer connection was freed with an armed
  `ice_tmr`; when such a timer runs, `fault` is set and nothing more is said.
- **RtcClient.** Time is counted in ticks of 5 s; a timer that is due runs before
  the clock moves. `silence` is the time since the last sign of life or message to
  the listener.
- **Janus.** The room server is the environment: it answers requests in any order,
  refuses them, announces and withdraws feeds. `for` in a request is what the
  server knows, to compare it with what the client does later.
- **RoomClient.** An action is an action of `Janus` with its effect on the
  sessions, or a callback of one session's peer connection. `crash` records the
  use of a NULL pointer or of a freed object.
- **CoreJson.** Every function of the scanner as an operator on a sequence of
  bytes. `JsonBytes` lets buffers arrive in pieces and compares `JSON_Validate`
  with the grammar; `JsonSearch` builds a document and compares `JSON_SearchConst`
  and `JSON_Iterate` with a walk down the tree.
- **EventLoop.** `tmrl` is the sorted list, `batch` the array `epoll_wait`
  returned. A handler is a phase in which the application starts and cancels
  timers, opens and closes descriptors and cancels the loop.
- **HttpServer.** A request is a number of cells that arrive in any segments; it is
  answered at once, later, or never. `posted` holds the sessions that posted a
  description; the gather callback of each writes to `conn_pending`, whoever waits
  there by then, and `conn_pending` is kept, as in the code.
- **WebSock.** Both ends with their owners. A handler maps a connection and the
  frames it sends to the next; `Put` puts them on the wire.
- **DnsClient, Turn, MnatIce, Stun, IceAgent.** The client objects with their
  transactions, and the servers, peers and NATs they meet. In `Turn` a unit of time
  is longer than a transaction; in `Stun` it is the first retransmission interval.
  In `IceAgent` the route (`Path`) and not the local candidate decides which
  address the peer sees, because candidates share a socket.
- **Dtls.** Two ends with stream, encryption and DTLS connection. OpenSSL's
  handshake is external: four flights, each repeated by its timer. `outcome` says in
  advance how an end's check of the fingerprint and its keying will turn out: match,
  mismatch, unknown hash, no keys from OpenSSL (`nokeys`), no SRTP streams
  (`nostreams`), or a helper that cannot be installed (`nohelper`), after which
  `dtls_estab_handler` reports the stream secure all the same.
- **Srtp, Jbuf.** Numbers keep the proportions of the code (`SeqMod` for 2^16, its
  square for 2^32). A packet verifies when both ends used the same index.
- **SipTrans.** A request with its client and server transactions in units of T1.
  `Targets` are the hosts to try, each with its addresses; a host whose addresses
  did not come with the SRV answer is looked up when its turn comes (phase
  `lookup`, `addr_handler`). Every step chooses what cannot be sent to (`fails`, a
  subset of `MayFail`): addresses, or the resolver.
- **SipReg.** Registration objects that live on until the server has been told.

## Runs

`MCNet`, `MCCall`, `MCNetLive`, `MCCallLive` and `MCJanus` hold several components.
A behaviour there belongs to one scenario (variable `sc`), in which one component
runs with constants of its own; the others do not move. A state is checked by the
properties of its scenario, so such a run is the union of the runs of its
components.

| Run | Question |
|---|---|
| `http_demo` | two browsers, two concurrent sessions: are sessions, peer connections and references consistent (`HttpInv`), does the server implement the abstract negotiation (`Negotiates`) |
| `http_one_browser` | three sessions, one live at a time, with ids that wrap: does an answer go to a request for the session it describes (`AskerInv`), are parked requests answered (`ParkedAnswered`) |
| `http_crossed_replies` | two live sessions: that (`AnswerReachesAsker`, a part of `AskerInv`) is violated (finding) |
| `rtc_client` | is a silent server noticed in time (`SilenceBounded`), is every alarm justified (`AlarmJustified`), what is leaked (`LeakOnlyUnopened`), with the invariant `RtcInv` |
| `rtc_after_close` | is nothing sent after the close event: violated (finding) |
| `janus` | two feeds, six transactions, two offers: `JanusKept` with its invariant `JanusInv`, the handshake ends (`RoomReached`), the reader is exact (`ReaderExact`) |
| `room_client` | one feed, two offers: `RoomKept`, `NegotiationClosed`, `SilenceExplained` with the invariant `RoomInv`; an answer in time starts ICE (`AnswerStartsIce`) |
| `network` | event loop, HTTP server, WebSocket, resolver, TURN, gathering, STUN and connectivity checks: the safety of each |
| `call` | replay window, SRTP, jitter buffer, DTLS, SIP transactions, registration: the safety of each |
| `ice` | without losses the checks of two agents end, also with a role conflict and a NAT (`ChecksEnd`) |
| `net_live` | what the network libraries begin comes to an end (`NetEnds`); a STUN session stays sound (`SessionKept`) |
| `call_live` | playing, handshakes, requests and registrations go on or end (`CallProgress`) |

The properties aim at the hazards listed in `PROJECT.json`. The ones a reader
should know first:

- Nothing is used after it is freed, and nothing freed leaves a timer behind:
  `RefsExact` and `LivePcOwned` (in `HttpInv`), `TimersServeClient`,
  `NoTimerOnFreed` (in `RoomKept`), `SocketKept`. `DanglingOnlyAfterBadOffer`
  names the one case in which the demo server leaves a timer behind.
- POST `/sdp` is never answered with an offer, although the callback chooses by
  the signalling state (`AnswerOnly`, in `HttpInv`).
- The keepalive logic shares one flag between three handlers and still notices
  silence within one period and one check (`SilenceBounded`).
- Fixed slots and the single `mFeedId` do not lose or confuse what is still wanted
  (`JanusKept`); of several sessions with the publisher's handle only the first is
  ever answered (`NegotiationClosed`).
- When both gates are open and audio is silent the reason is known
  (`SilenceExplained`).
- In every order of ICE, DTLS and descriptions the two ends' keys fit, and a stream
  is called secure by DTLS only against the right certificate. Media leaves
  unencrypted in two cases, and no other: the room server's word started it before
  the keys were there, or the SRTP helper could not be installed (`DtlsKept`). Of
  keys that cannot be used nobody is told (`HandshakeEnds` excepts that).
- The single `conn_pending` gives a browser another session's description, but only
  one that was posted before and was still gathering, and none twice
  (`AnswersInOrder`, in `ServerKept`).
- A SIP request cancelled while a server is asked goes to no other server. One
  cancelled while a name is looked up is still sent to one server, because
  `addr_handler` does not look at `canceled`, and to no second one (`CancelKept`).
- The revived WebSocket connection ends, once, and says nothing after its close
  frame (`SocketKept`, `ToldOnce`).
- An index is accepted exactly once (`WindowExact`, `MediaSteps`); the receiver's
  index is the sender's through losses, reordering and roll-overs (`SrtpKept`).

### Bounds

- `http_demo`: two sessions and two connections suffice for every interaction
  through `conn_pending`, which relates at most two of each. `MaxIceRetries` is 1
  or 2 instead of 10: retries differ only in being used up or not. The counter
  wraps in `http_one_browser` (three sessions, `IdSpace = 2`): the third session
  has the id of the first.
- `rtc_client`: `Period = 5` and `CheckDelay = 1` are the real ratio.
- `janus`: `MaxTrans = 6` leaves three subscriptions after the handshake, so that
  one can overtake another. The reader meets buffers of up to five pieces, trees of
  two items and two levels, with a bracket stack of three, and the same documents
  with a stack of one, which the deeper of them exceed.
- `network`: three timers with a clock that is set back, two timers with two
  descriptors; two connections with three requests and a buffer of two cells (a
  request of three does not fit); three frames on the wire; three queries and two
  servers; one permission or channel, or a faulty server; two components or two
  streams; two or three candidates.
- `call`: indices 0..7 with a window of 3 (jumps inside, at and beyond the window);
  14 packets with numbers modulo 8 (a roll-over with reordering at both sides);
  numbers modulo 16 in the jitter buffer, which run round for ever; one DTLS
  retransmission and two descriptions, with a check or keys that fail at one end at
  most (`OneFails`); one INVITE over UDP to one server, one over
  TCP with a second server to fail over to, every send of which may fail and each
  address of which may need a look-up (timers are shorter, but as in the code the
  last repetition is due one unit before the end: 63 of 64 there, 5 of 6 here);
  two generations of a registration. `SipReg` scales 2^32 to 2^16.

The theorems below do not depend on these bounds.

### Fairness

- The loop runs, time passes, a due timer expires, a resolver, gathering or STUN
  transaction comes to its end: weak fairness of those actions. The event loop
  runs every due handler, and each of these waits is bounded by a timer.
- `Stun` (`MappingReported`) and `Jbuf` (`KeepsPlaying`): strong fairness of the
  delivery of what is sent again and again; a network that loses everything shows
  nothing of the client.
- `SipTrans`: strong fairness of time, which is disabled while a timer is due.
- `Janus`: the server answers requests and joins, possibly with a refusal. Without
  it nothing can be said about the handshake.
- `IceAgent`: no losses, and datagrams arrive.
- No fairness is assumed of browsers, applications, users of a transaction or
  owners of a connection.

## Findings

- `http_crossed_replies`: `conn_pending` is shared by all sessions, so the answer
  for one session can be sent to the request of another (`barertc.c:645`).
- `rtc_after_close`: after the WebSocket closed, `sendMessage` still writes to the
  freed connection (`RTCConnection.c:1017`).

Smaller disagreements between code and comment that no run repeats. Each is found
by TLC with a configuration of the component's own module:

| Module, property | Instance | What the code does |
|---|---|---|
| `Stun`, `ToldCurrent` | `MaxOdd = 1` | a first transmission that fails, or an answer without an address, is reported and `curmap` is kept, so the same address is not reported again |
| `Srtp`, `SameIndex` | `SeqMod = 4`, `MaxPkt = 12` | the index is computed in `int`: past 2^31 the two ends differ |
| `Jbuf`, `KeepsPlaying` | `CfgMin = CfgMax = 2`, `CfgWish = 3`, adaptive | a wish above the maximum is never reached |
| `Jbuf`, `PlayedInOrder` | any | number 0 doubles as "nothing played", so a late frame is played after it (`OrderButAtZero` is what holds) |
| `JsonBytes`, `OnlyDocumentsTaken`, `IllegalIsFinal` | as in `janus` | some buffers that are no JSON are taken, some incomplete ones called illegal |
| `JsonSearch`, `EmptyPartRefused` | as in `janus` | a query that ends in a separator is not refused |
| `DnsClient`, `CalledOnce` | `InHandler = {"nothing", "again_tcp"}` | the handler of a failing TCP query that starts another TCP query may be called again for the first |
| `DnsClient`, `FailsOnlyAtTheEnd` | `Srvc = 3` | "all servers failed" is told while a further server is asked |
| `SipReg`, `RelativeInterval` | `RegInt = 100`, `Modulus = 65536` | the refresh time overflows for long intervals |

## Proofs

Eight modules hold theorems. Each EXTENDS the modules of its components and has
one lemma per operator or action, a lemma that a step keeps the inductive
invariant, and the theorems. Assumptions are only those on constants, named in the
modules that declare them and evaluated by TLC in the runs: bounds are natural
numbers, the retry limit, the window and the intervals are positive, the check
delay is shorter than the period, `None` and `Off` are no numbers or connections,
0 is no feed and no transaction id. Where a run instantiates a component several
times, the assumption is a hypothesis of the theorems (`SrtpAssumption`,
`MnatAssumption`, `RegAssumption`), and the property the run checks includes it.

Every inductive invariant is an invariant of a run: `HttpInv`, `AskerInv`,
`RtcInv`, `JanusInv`, `RoomInv`, `DtlsInv`, `WsInv` and `WindowExact` by
themselves, `SrtpInv`, `MnatInv`, `RegInv` and the one of `Stun` as a part of
`SrtpKept`, `GatherKept`, `RegKept` and `SessionKept`.

**HttpDemoProofs** — any number of connections and sessions, any retry limit, any
width of the session counter.

- `HttpInvariant`: `Spec => []HttpInv`. `AnswerOnly` alone is not inductive: it
  needs to know that a peer connection with a track stays in have-remote-offer
  until its one gather callback (`PcOk`, third conjunct).
  `DanglingOnlyAfterBadOffer` needs that a timer is armed only after an offer that
  did not decode. `RepliesAreAnswers`, `GatesOpenInOrder`, `ConnectionsBalanced`
  and `TimersAndOwners` follow.
- `ServerNegotiates`: `HttpDemo` implements `Negotiation`, with the sessions in
  have-remote-offer as the abstract `held`. The gather step needs `HttpInv`.
- `AskersTracked` (`Spec => []AskerInv`): under `MaxLive <= 1` (sessions follow one
  another; without it the property is the finding above), for every `IdSpace`, so
  ids may wrap any number of times. A request names a session by its id, and the
  property says that the answer goes to a request for the id of the session it
  describes. `AskerInv` adds to `HttpInv` that there is one live session, and that
  while it gathers after a good offer a request for its id, or one its browser has
  closed since, is parked.

**RtcClientProofs** — every period and shorter check delay.

- `RtcInvariant` relates silence to what is left on the timers: a flag that is set,
  or no pending check, means that silence is at most the time since the period
  began; otherwise the check is still to come. `SilenceDetected`, `TimersSafe` and
  `NoFalseAlarm` follow. `AlarmJustified` is inductive only with `AliveInv`, which
  says what a cleared `mbAliving` means.
- `OpenedNeverLeaks`: the action property `LeakOnlyUnopened`. Only `Stop` loses a
  context, and `RtcInv` says that a WebSocket that has opened is connected.

**RoomProofs** — every set of feeds, any number of transactions and offers, any
retry limit. The signalling first, then the sessions on top of it.

- `JanusInvariant`: `JanusInv` adds three things to `JanusKept`. `SlotsOk`: ids are
  unique and a reply is looked up in the slot of its kind. `ChainOk`: the handshake
  is a chain, so nothing else is outstanding while one of its requests is, and
  every outstanding subscription is for `mFeedId`, which is why a subscription
  joins its feed although the feed is read when the reply arrives. `HandlesOk`:
  handles are given out in order and the map holds the youngest.
- `SignallingKept`: `Spec => []JanusKept`.
- `RoomSignals`: the room client implements the signalling: every step of
  `RoomClient` is a step of `Janus` or leaves its variables alone, so `JanusInv`
  holds of the composition.
- `RoomInvariant`: `ClientPcOk` says what holds of the connection of a session; each
  operator of `PeerConn` has a lemma. `AnsweredFirst` says that the session an
  answer was applied to stays the first of its handle, because sessions are only
  appended and the publisher's handle is set once. `ConnectionsKept`,
  `AnswersMeetOffers` and `SilenceHasReason` follow.

**WebSockProofs** — any bound on the wire, with and without keepalive, foreign
frames and vanishing hosts.

- `WebsockInvariant`: `ConnOk` relates state, timer, reference and TCP of one end,
  `WireOk` a connection to what it has on the wire: while it may still send, there
  is no close frame there. Handlers are composed of a few operators, each with a
  lemma about the connection and the frames it returns; `Handled` and
  `ReadAndHandled` put a handler's result back into the two ends.
- `SocketSafe`: `Spec => []SocketKept`. `OwnerToldOnce`: no step tells an owner
  twice or after it let go (checked by `StepsKept` in `network`).

**StunProofs** — every timer value, set of mappings and fault budget:
`AnswersUsedOnce`, `SessionNeverStalls`, `ApplicationInformed` (while requests can
be sent and answers carry an address) and the three together, `SessionSound`.

**SrtpProofs** — the replay window, and SRTP on top of it.

- `BitmapExact` and `NoReplay`, for every window size and order of arrival. The
  invariant says that the bitmap is the set of distances of the accepted indices
  from the highest one (`Remembers`).
- `SrtpInvariant`, for any number of streams, any even number space, any window of
  at most half of it, both cipher modes and any number of packets below the limit
  of an `int`. `SrtpInv` relates both ends to the true index `start + n`, which
  neither computes: the sender's counter and highest number are quotient and
  remainder of the index of its newest packet, the receiver's are those of the
  newest packet it accepted (`At`), its list remembers the accepted ones, and what
  it said of the last packet is explained. The core is arithmetic: a packet less than half
  the number space from the newest one either lies in the same round, or in the
  next one and makes `srtp_decrypt` roll over, or in the one before and is refused
  as too old (`diff > Half`) before the counter is touched; in the first two cases
  `srtp_get_index` returns the true index. Hence the tag of a packet in reach
  always verifies, and the counter that `srtp_decrypt` moves before it verifies
  the tag moves rightly.
- `StreamsInStep`: `SrtpAssumption => (SrtpSpec => []SrtpKept)`. It needs that a
  stream ends before packet 2^31 (`MaxPkt + Half <= IntMod \div 2`), because
  `srtp_get_index` computes in `int`; beyond it the property is false (findings).
- `PacketsOnceOnly` (`RefusedExplained` and `OnceOnly`) and `ReportsOnceOnly`
  (`RtcpOnceOnly`, beside an HMAC): the action properties of `MediaSteps`. `got`
  forgets packets that are too far back to arrive again.

**TransportProofs** — the two DTLS-SRTP ends, and the gathering of candidates.

- `DtlsInvariant`, for any number of retransmissions and descriptions, any set of
  outcomes, addresses and ends that obey the room server. `EndOk` says that the
  DTLS socket exists only after the role was read, that every description gives the
  same role, that the connection is a client only at the answerer, that keys
  follow the role, and that a stream DTLS called secure has them unless the helper
  failed. So the keys of two ends fit without any statement that relates
  the two handshakes.
- `StreamSecured`: `Spec => []DtlsKept`.
- `MnatInvariant`, for any list of streams, any finite set of components and any
  server. `ToldOnce` needs to know what the counter `nstun` counts: while a stream
  gathers, it is the number of its binding requests and allocations under way
  (`Counted`), and it is positive. Once it has gathered, no allocation is awaited
  and the counter is at most 0, so an allocation that is lost later makes it
  negative and never 0 again, which is what would report the gathering twice. The
  cardinalities are those of finite sets of components.
- `GatheringKept`: `MnatAssumption => (MnatSpec => []GatherKept)`.
  `RenegotiatesAfterAll` and `DroppedInTwoCases` are the action properties
  `AsksAfterAll` and `StaleExplained` of `StepsKept`.

**SipRegProofs** — any number of registration objects of one contact, any answers
and intervals of the registrar, any width of the interval. `RegAssumption` is the
hypothesis of the theorems, and `RegKept` evaluates it: numbers are natural, and
the refresh is at 5 to 95 percent (`sipreg_set_rwait` takes no other value).

- `RegInvariant`: `RegInv` adds four things to the properties. Only the client's
  current object is live, and what comes after it does not exist yet. An object
  knows what it asked for, and its answer grants no more than that. While nothing
  failed, its timer has the value computed from the interval granted last; the
  product may wrap, which makes the refresh earlier and never later. `Answerable`:
  while the server holds a binding, some object is registered or is about to learn
  it from an answer under way, or a request of some object was given up or refused
  (it is not `clean`). An object is changed by `With` and `Put` only, which touch
  one object and its message; each operation has a lemma on what it does to that
  object, and `KeptStep` and `OneMoves` lift it to all of them.
- `NeverStuck` (`WaitsForOne`), `RefreshedInTime` (`RefreshInTime`) and
  `NoBindingLeft` (`NothingLeft`) follow; `RegistrationKept` joins them
  (`RegAssumption => (Spec => []RegKept)`).

### Only model-checked

- Liveness (`ParkedAnswered`, `RoomReached`, `AnswerStartsIce`, `ChecksEnd`,
  `NetEnds`, `CallProgress`): out of the prover's reach.
- `ReaderExact`, `DnsKept`, `ChecksKept`: `CoreJson`, `DnsClient` and `IceAgent`
  use recursive operators, as their code recurses; what a recursive definition
  computes cannot be proved.
- `LoopKept`, `ServerKept`, `TurnKept`, `JbufKept`, `TransKept`, `CancelKept`: no proof yet. Of
  the action properties, `StepsKept` is proved for the WebSocket and the gathering,
  and `MediaSteps` for SRTP.

## Not modelled

- Text: SDP, HTTP headers and query strings. A message is what the code tells
  apart. Requests that are answered with 404 change nothing.
- Allocation failures other than those of a peer connection, its audio, the
  WebSocket and SRTP's keys.
- Video, which neither owner adds; media itself; audio and video devices.
- Calls of the client library that the program does not make: explicit subscribe,
  unpublish, the listener-only role.
- Equal transaction ids, which the generator can produce within a millisecond.
- The timers of the room client at shut-down of the program.
- `PeerConn` sees gathering, checks and encryption as results that may come or
  fail; the modules behind them are checked on their own, not composed with it.
- mongoose, the WebSocket client of the room client, appears as its events.
- Event loop: the select and kqueue back ends, locks. HTTP server: the grammar of
  requests is the number of segments and whether it is bad.
- WebSocket: frames cut into segments, overflow of the receive buffer,
  `websock_shutdown`.
- DNS: segments of TCP frames, zone transfers, a change of servers under queries,
  cancelling from a handler while a connection fails, closing inside a handler.
- STUN: message coding, TCP. TURN: answers that lack attributes, IPv6, even ports
  and reservations, several peers in one request, TCP and DTLS, relayed data, two
  peers with channels, failure of the first request at once.
- ICE: candidate text, TCP candidates, several components in `IceAgent`.
- DTLS: OpenSSL; a passive end that gets no ClientHello waits without limit (so
  `HandshakeEnds` is about started handshakes); more than one component.
- SRTP: ciphers and damaged packets. Under GCM `srtcp_decrypt` keeps no replay
  list, so a repeated SRTCP packet passes twice (`RtcpOnceOnly` is claimed for HMAC).
- Jitter buffer: a change of the payload type, video with an adaptive buffer.
- SIP: packets do not outlive a tick; repeating a 2xx belongs to sipsess; merged
  requests and stateless sending; an INVITE that rings and is never cancelled may
  ring for ever. Registration: outbound flows beyond their keepalive.
- JSON: that `\u0000` is refused and escaped control characters are accepted are
  choices of the code, and part of the reference grammar.
- `baresip-webrtc`, the program that barertc was derived from; SIP sessions and user
  agents; status pages and databases of restund.

## Plan

1. Proofs about `HttpServer`, `SipTrans` and `Turn`, whose invariants are small
   records like those proved so far.
2. The life cycle composed with the signalling: a connection lost during the
   handshake, and a second client after the first.
3. `PeerConn` composed with `MnatIce` and `Dtls`: closing from inside callbacks.
4. The GET commands as requests of a connection, with `/start` and `/stop`, which
   send no reply.
