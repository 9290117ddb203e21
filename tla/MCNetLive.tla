----------------------------- MODULE MCNetLive -----------------------------
(***************************************************************************)
(* What the libraries under the client bring to an end, one component at a *)
(* time: a behaviour belongs to one scenario, in which one component runs  *)
(* and the others stay as they start.  Fairness is that of the component.  *)
(***************************************************************************)
EXTENDS Stun, Sequences

CONSTANT Nil

VARIABLES
  sc,
  now, setback, tmrl, jfs, th, arms, stamp, fhs, opens, freed, ready, batch,
  update, polling, sig, left, snap, pc,
  h_conn, pending, posted, up,
  conn, wire, gone,
  q, d_conn, ql, open, refuse, broken, stray,
  cli, obj, srv, t_net, rsp, pwd, restarted,
  iface, m_alive, resolving, estabh, started, reinvite, med, m_told, again, stale

loopV == <<now, setback, tmrl, jfs, th, arms, stamp, fhs, opens, freed, ready,
           batch, update, polling, sig, left, snap, pc>>
httpV == <<h_conn, pending, posted, up>>
wsV == <<conn, wire, gone>>
dnsV == <<q, d_conn, ql, open, refuse, broken, stray>>
turnV == <<cli, obj, srv, t_net, rsp, pwd, restarted>>
mnatV == <<iface, m_alive, resolving, estabh, started, reinvite, med, m_told, again, stale>>

all == <<sc, vars, loopV, httpV, wsV, dnsV, turnV, mnatV>>
-----------------------------------------------------------------------------
EvLoop == INSTANCE EventLoop WITH
  Timers <- {"t1", "t2"}, Fds <- {1}, Delays <- {0, 1}, MaxWait <- 1,
  MaxNow <- 1, MaxArms <- 2, MaxOpens <- 1, MaxSetBack <- 0

Req(kind, len) == [kind |-> kind, len |-> len]
Browser == {<<Req("sync", 1), Req("async", 2), Req("sync", 1)>>,
            <<Req("async", 2), Req("mute", 1), Req("sync", 1)>>}
Httpd == INSTANCE HttpServer WITH
  conn <- h_conn, Conns <- {"c1", "c2"}, Scripts <- Browser, BufMax <- 2, Pipelined <- FALSE

(* A WebSocket whose peer may do anything; one whose peer keeps to the     *)
(* protocol and does not disappear.                                        *)
Orphan == INSTANCE WebSock WITH
  MaxWire <- 2, kaint <- FALSE, Foreign <- TRUE, Vanishing <- TRUE
Closing == INSTANCE WebSock WITH
  MaxWire <- 2, kaint <- TRUE, Foreign <- FALSE, Vanishing <- FALSE

Dns == INSTANCE DnsClient WITH
  conn <- d_conn, Queries <- {1}, Srvc <- 2, NTX_MAX <- 3, InHandler <- {"nothing"}

Turn == INSTANCE Turn WITH
  net <- t_net, Peers <- {"p1"}, None <- Nil, DEFAULT <- 3, lifetime_max <- 3,
  PERM_LIFETIME <- 3, PERM_REFRESH <- 2, CHAN_LIFETIME <- 5, CHAN_REFRESH <- 2,
  nonce_expiry <- 1, FAILC_MAX <- 3, Front <- FALSE, SendFails <- FALSE,
  Faults <- TRUE, Passwords <- {TRUE}, Kinds <- {}

Gather == INSTANCE MnatIce WITH
  Media <- <<"audio">>, Comps <- {1, 2}, Server <- "turn", Offerer <- TRUE,
  alive <- m_alive, told <- m_told
-----------------------------------------------------------------------------
(* The components start, those that do not run in one of the ways they may. *)
LiveInit ==
  /\ sc \in {"stun", "loop", "server", "orphan", "closing", "dns", "turn", "gather"}
  /\ Init /\ (sc = "stun" \/ map = CHOOSE m \in Maps : TRUE)
  /\ EvLoop!Init /\ Httpd!Init /\ Orphan!Init /\ Turn!Init
  /\ Dns!Init /\ (sc = "dns" \/ refuse = {})
  /\ Gather!MnatInit /\ (sc = "gather" \/ iface)

(* A step of the component of scenario s, the only one that moves.         *)
StunStep(A) == sc = "stun" /\ A /\ UNCHANGED <<sc, loopV, httpV, wsV, dnsV, turnV, mnatV>>
LoopStep(A) == sc = "loop" /\ A /\ UNCHANGED <<sc, vars, httpV, wsV, dnsV, turnV, mnatV>>
ServerStep(A) == sc = "server" /\ A /\ UNCHANGED <<sc, vars, loopV, wsV, dnsV, turnV, mnatV>>
OrphanStep(A) == sc = "orphan" /\ A /\ UNCHANGED <<sc, vars, loopV, httpV, dnsV, turnV, mnatV>>
ClosingStep(A) == sc = "closing" /\ A /\ UNCHANGED <<sc, vars, loopV, httpV, dnsV, turnV, mnatV>>
DnsStep(A) == sc = "dns" /\ A /\ UNCHANGED <<sc, vars, loopV, httpV, wsV, turnV, mnatV>>
TurnStep(A) == sc = "turn" /\ A /\ UNCHANGED <<sc, vars, loopV, httpV, wsV, dnsV, mnatV>>
GatherStep(A) == sc = "gather" /\ A /\ UNCHANGED <<sc, vars, loopV, httpV, wsV, dnsV, turnV>>

LiveNext ==
  \/ StunStep(Next) \/ LoopStep(EvLoop!Next) \/ ServerStep(Httpd!Next)
  \/ OrphanStep(Orphan!Next) \/ ClosingStep(Closing!Next)
  \/ DnsStep(Dns!Next) \/ (sc = "dns" /\ UNCHANGED all)
  \/ TurnStep(Turn!Next) \/ GatherStep(Gather!MnatNext)

(* The fairness of each component (Stun, EventLoop, HttpServer, WebSock,   *)
(* DnsClient, Turn, MnatIce).  At most one scenario's part can be enabled. *)
LiveFair ==
  /\ WF_all(StunStep(Session) \/ LoopStep(EvLoop!Loop) \/ ServerStep(Httpd!timeout_handler("c1"))
            \/ OrphanStep(Orphan!http_resp_handler) \/ ClosingStep(Closing!http_resp_handler)
            \/ DnsStep(Dns!UdpTimeout(1)) \/ TurnStep(Turn!Tick) \/ GatherStep(Gather!Resolved))
  /\ WF_all(StunStep(Tick) \/ LoopStep(EvLoop!Tick) \/ ServerStep(Httpd!timeout_handler("c2"))
            \/ OrphanStep(Orphan!Receive("active")) \/ ClosingStep(Closing!Receive("active"))
            \/ TurnStep(Turn!alloc_timeout)
            \/ GatherStep(Gather!Answer("audio", 1)))
  /\ WF_all(StunStep(Expire) \/ OrphanStep(Orphan!Receive("passive")) \/ ClosingStep(Closing!Receive("passive"))
            \/ DnsStep(Dns!TcpTimeout(1)) \/ TurnStep(Turn!timeout(Turn!Alloc))
            \/ GatherStep(Gather!Answer("audio", 2)))
  /\ WF_all(OrphanStep(Orphan!timeout_handler("active")) \/ ClosingStep(Closing!timeout_handler("active"))
            \/ TurnStep(Turn!Answer(Turn!Alloc)))
  /\ WF_all(OrphanStep(Orphan!timeout_handler("passive")) \/ ClosingStep(Closing!timeout_handler("passive")))
  /\ SF_all(StunStep(\E m \in net : Matches(m) /\ Serve(m)))
  /\ SF_all(StunStep(\E m \in net : stun_ctrans_recv(m)))

LiveSpec == LiveInit /\ [][LiveNext]_all /\ LiveFair
-----------------------------------------------------------------------------
(* What was begun comes to an end: timers fire, events are served, a       *)
(* signal or re_cancel ends the loop, a request of a browser               *)
(* is answered or its connection closed, a WebSocket its owner has closed  *)
(* or left is closed or freed, a DNS query ends, an allocation is given or *)
(* refused, released and its loss told, the candidates are gathered, and   *)
(* the mapping of the NAT is reported again and again (re_main, tmr_poll,  *)
(* fd_poll, http/server.c, websock.c, dns/client.c, turnc.c, modules/ice,  *)
(* stun/keepalive.c).                                                      *)
NetEnds ==
  /\ sc = "loop" => /\ EvLoop!TimersFire /\ EvLoop!EventsServed
                    /\ EvLoop!SignalStops /\ EvLoop!CancelStops
  /\ sc = "stun" => MappingReported
  /\ sc = "server" => Httpd!AnsweredOrClosed
  /\ sc = "orphan" => Orphan!OrphanFreed
  /\ sc = "closing" => Closing!CloseEnds
  /\ sc = "dns" => Dns!QueryEnds
  /\ sc = "turn" => Turn!OutcomeTold /\ Turn!Released /\ Turn!LossTold
  /\ sc = "gather" => Gather!GatherEnds
=============================================================================
