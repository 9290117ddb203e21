------------------------------- MODULE MCNet -------------------------------
(***************************************************************************)
(* The libraries under the client, one at a time, for model checking: a    *)
(* behaviour belongs to one scenario, in which one component runs with     *)
(* constants of its own.  The variables of the other components are 0,     *)
(* those of WebSock as it starts.                                          *)
(***************************************************************************)
EXTENDS WebSock, Integers

VARIABLES
  sc,                                                             \* the scenario
  now, setback, tmrl, jfs, th, arms, stamp, fhs, opens, freed, ready, batch,
  update, polling, sig, left, snap, pc,                           \* EventLoop
  h_conn, pending, posted, up,                                    \* HttpServer
  q, d_conn, ql, open, refuse, broken, stray,                     \* DnsClient
  cli, obj, srv, t_net, rsp, pwd, restarted,                      \* Turn
  iface, alive, resolving, estabh, started, reinvite, med, told, again, stale,
                                                                  \* MnatIce
  ct, tmr, interval, curmap, s_alive, s_told, used, s_net, map, budget, \* Stun
  ag, net                                                         \* IceAgent

loopV == <<now, setback, tmrl, jfs, th, arms, stamp, fhs, opens, freed, ready,
           batch, update, polling, sig, left, snap, pc>>
httpV == <<h_conn, pending, posted, up>>
dnsV == <<q, d_conn, ql, open, refuse, broken, stray>>
turnV == <<cli, obj, srv, t_net, rsp, pwd, restarted>>
mnatV == <<iface, alive, resolving, estabh, started, reinvite, med, told, again, stale>>
stunV == <<ct, tmr, interval, curmap, s_alive, s_told, used, s_net, map, budget>>
iceV == <<ag, net>>

all == <<sc, loopV, httpV, vars, dnsV, turnV, mnatV, stunV, iceV>>

-----------------------------------------------------------------------------
(* Three timers and a clock that is set back; two timers and two descriptors. *)
Clocks == INSTANCE EventLoop WITH
  Timers <- {"t1", "t2", "t3"}, Fds <- {}, Delays <- {0, 1, 2}, MaxWait <- 1,
  MaxNow <- 2, MaxArms <- 4, MaxOpens <- 0, MaxSetBack <- 1
Files == INSTANCE EventLoop WITH
  Timers <- {"t1", "t2"}, Fds <- {1, 2}, Delays <- {0, 1}, MaxWait <- 1,
  MaxNow <- 1, MaxArms <- 2, MaxOpens <- 2, MaxSetBack <- 0

(* Requests of one to three cells, from browsers that wait for the answer  *)
(* and from a stream that does not.                                        *)
Req(kind, len) == [kind |-> kind, len |-> len]
Browser == {<<Req("sync", 1), Req("async", 2), Req("sync", 1)>>,
            <<Req("async", 2), Req("mute", 1), Req("sync", 1)>>,
            <<Req("async", 1), Req("async", 1), Req("sync", 1)>>}
Stream == {<<Req("sync", 2), Req("async", 1), Req("sync", 2)>>,
           <<Req("async", 1), Req("sync", 3), Req("bad", 1)>>}
Browsing == INSTANCE HttpServer WITH
  conn <- h_conn, Conns <- {"c1", "c2"}, Scripts <- Browser, BufMax <- 2, Pipelined <- FALSE
Streaming == INSTANCE HttpServer WITH
  conn <- h_conn, Conns <- {"c1", "c2"}, Scripts <- Stream, BufMax <- 2, Pipelined <- TRUE

Dns == INSTANCE DnsClient WITH
  conn <- d_conn, Queries <- {1, 2, 3}, Srvc <- 2, NTX_MAX <- 2,
  InHandler <- {"nothing", "again", "drop"}

(* A permission; a channel; a server that redirects, drains and restarts,  *)
(* and a password that may be wrong.                                       *)
CONSTANT Nil
Permission == INSTANCE Turn WITH
  net <- t_net, Peers <- {"p1"}, None <- Nil, DEFAULT <- 10, lifetime_max <- 10,
  PERM_LIFETIME <- 3, PERM_REFRESH <- 2, CHAN_LIFETIME <- 4, CHAN_REFRESH <- 2,
  nonce_expiry <- 3, FAILC_MAX <- 3, Front <- FALSE, SendFails <- FALSE,
  Faults <- FALSE, Passwords <- {TRUE}, Kinds <- {"perm"}
Channel == INSTANCE Turn WITH
  net <- t_net, Peers <- {"p1"}, None <- Nil, DEFAULT <- 4, lifetime_max <- 4,
  PERM_LIFETIME <- 3, PERM_REFRESH <- 2, CHAN_LIFETIME <- 5, CHAN_REFRESH <- 2,
  nonce_expiry <- 2, FAILC_MAX <- 3, Front <- FALSE, SendFails <- FALSE,
  Faults <- FALSE, Passwords <- {TRUE}, Kinds <- {"chan"}
Faulty == INSTANCE Turn WITH
  net <- t_net, Peers <- {"p1"}, None <- Nil, DEFAULT <- 3, lifetime_max <- 3,
  PERM_LIFETIME <- 3, PERM_REFRESH <- 2, CHAN_LIFETIME <- 5, CHAN_REFRESH <- 2,
  nonce_expiry <- 2, FAILC_MAX <- 4, Front <- TRUE, SendFails <- TRUE,
  Faults <- TRUE, Passwords <- {TRUE, FALSE}, Kinds <- {}

(* One stream with two components and two streams with one, both with a    *)
(* TURN server; two streams with host addresses.                           *)
Relayed == INSTANCE MnatIce WITH
  Media <- <<"audio">>, Comps <- {1, 2}, Server <- "turn", Offerer <- TRUE
Muxed == INSTANCE MnatIce WITH
  Media <- <<"audio", "video">>, Comps <- {1}, Server <- "turn", Offerer <- TRUE
Host == INSTANCE MnatIce WITH
  Media <- <<"audio", "video">>, Comps <- {1}, Server <- "none", Offerer <- TRUE

(* The STUN session that keeps the mapping of a NAT.                       *)
Mapping == INSTANCE Stun WITH
  alive <- s_alive, told <- s_told, net <- s_net, Rto <- 1, Rc <- 3, Rm <- 2,
  Interval <- 2, Maps <- {"m1"}, Tids <- {1, 2}, MaxErr <- 1, MaxOdd <- 1,
  MaxLoss <- 1, MaxMove <- 0, MaxEnable <- 1

(* Agent a has two interfaces, one of which reaches b; or a is behind a    *)
(* NAT, so that b sees it at n1, and both start in one role.               *)
Prio == [l \in {"a1", "a2", "n1", "b1"} |-> IF l = "n1" THEN 1 ELSE 2]
Routed == INSTANCE IceAgent WITH
  Addr <- [a |-> <<"a1", "a2">>, b |-> <<"b1">>], NoPath <- "none",
  Path <- [a |-> [r \in {"b1"} |-> "a1"],
           b |-> [r \in {"a1", "a2"} |-> IF r = "a1" THEN "b1" ELSE "none"]],
  Tie <- [a |-> 2, b |-> 1], Role0 <- [a |-> "controlling", b |-> "controlled"],
  Lossy <- FALSE, MaxReq <- 4, MaxErr <- 1
Natted == INSTANCE IceAgent WITH
  Addr <- [a |-> <<"a1">>, b |-> <<"b1">>], NoPath <- "none",
  Path <- [a |-> [r \in {"b1"} |-> "n1"],
           b |-> [r \in {"a1", "n1"} |-> IF r = "n1" THEN "b1" ELSE "none"]],
  Tie <- [a |-> 2, b |-> 1], Role0 <- [x \in {"a", "b"} |-> "controlling"],
  Lossy <- TRUE, MaxReq <- 3, MaxErr <- 1
-----------------------------------------------------------------------------
(* What the variables of a component are while another one runs.           *)
NoLoop ==
  /\ now = 0 /\ setback = 0 /\ tmrl = 0 /\ jfs = 0 /\ th = 0 /\ arms = 0
  /\ stamp = 0 /\ fhs = 0 /\ opens = 0 /\ freed = 0 /\ ready = 0 /\ batch = 0
  /\ update = 0 /\ polling = 0 /\ sig = 0 /\ left = 0 /\ snap = 0 /\ pc = 0
NoHttp ==
  /\ h_conn = 0 /\ pending = 0 /\ posted = 0 /\ up = 0
NoWs == Init
NoDns ==
  /\ q = 0 /\ d_conn = 0 /\ ql = 0 /\ open = 0 /\ refuse = 0 /\ broken = 0
  /\ stray = 0
NoTurn ==
  /\ cli = 0 /\ obj = 0 /\ srv = 0 /\ t_net = 0 /\ rsp = 0 /\ pwd = 0
  /\ restarted = 0
NoMnat ==
  /\ iface = 0 /\ alive = 0 /\ resolving = 0 /\ estabh = 0 /\ started = 0
  /\ reinvite = 0 /\ med = 0 /\ told = 0 /\ again = 0 /\ stale = 0
NoStun ==
  /\ ct = 0 /\ tmr = 0 /\ interval = 0 /\ curmap = 0 /\ s_alive = 0 /\ s_told = 0
  /\ used = 0 /\ s_net = 0 /\ map = 0 /\ budget = 0
NoIce ==
  /\ ag = 0 /\ net = 0

NetInit ==
  \/ /\ \/ sc = "clocks" /\ Clocks!Init
        \/ sc = "files" /\ Files!Init
     /\ NoHttp /\ NoWs /\ NoDns /\ NoTurn /\ NoMnat /\ NoStun /\ NoIce
  \/ /\ \/ sc = "browsing" /\ Browsing!Init
        \/ sc = "streaming" /\ Streaming!Init
     /\ NoLoop /\ NoWs /\ NoDns /\ NoTurn /\ NoMnat /\ NoStun /\ NoIce
  \/ /\ sc = "socket" /\ Init
     /\ NoLoop /\ NoHttp /\ NoDns /\ NoTurn /\ NoMnat /\ NoStun /\ NoIce
  \/ /\ sc = "dns" /\ Dns!Init
     /\ NoLoop /\ NoHttp /\ NoWs /\ NoTurn /\ NoMnat /\ NoStun /\ NoIce
  \/ /\ \/ sc = "permission" /\ Permission!Init
        \/ sc = "channel" /\ Channel!Init
        \/ sc = "faulty" /\ Faulty!Init
     /\ NoLoop /\ NoHttp /\ NoWs /\ NoDns /\ NoMnat /\ NoStun /\ NoIce
  \/ /\ \/ sc = "relayed" /\ Relayed!MnatInit
        \/ sc = "muxed" /\ Muxed!MnatInit
        \/ sc = "host" /\ Host!MnatInit
     /\ NoLoop /\ NoHttp /\ NoWs /\ NoDns /\ NoTurn /\ NoStun /\ NoIce
  \/ /\ sc = "mapping" /\ Mapping!Init
     /\ NoLoop /\ NoHttp /\ NoWs /\ NoDns /\ NoTurn /\ NoMnat /\ NoIce
  \/ /\ \/ sc = "routed" /\ Routed!Init
        \/ sc = "natted" /\ Natted!Init
     /\ NoLoop /\ NoHttp /\ NoWs /\ NoDns /\ NoTurn /\ NoMnat /\ NoStun

(* The resolver was closed, or has nothing left to do.                     *)
Ended == sc = "dns"

NetNext ==
  /\ UNCHANGED sc
  /\ \/ /\ \/ sc = "clocks" /\ Clocks!Next
           \/ sc = "files" /\ Files!Next
        /\ UNCHANGED <<httpV, vars, dnsV, turnV, mnatV, stunV, iceV>>
     \/ /\ \/ sc = "browsing" /\ Browsing!Next
           \/ sc = "streaming" /\ Streaming!Next
        /\ UNCHANGED <<loopV, vars, dnsV, turnV, mnatV, stunV, iceV>>
     \/ /\ sc = "socket" /\ Next
        /\ UNCHANGED <<loopV, httpV, dnsV, turnV, mnatV, stunV, iceV>>
     \/ /\ sc = "dns" /\ Dns!Next
        /\ UNCHANGED <<loopV, httpV, vars, turnV, mnatV, stunV, iceV>>
     \/ /\ \/ sc = "permission" /\ Permission!Next
           \/ sc = "channel" /\ Channel!Next
           \/ sc = "faulty" /\ Faulty!Next
        /\ UNCHANGED <<loopV, httpV, vars, dnsV, mnatV, stunV, iceV>>
     \/ /\ \/ sc = "relayed" /\ Relayed!MnatNext
           \/ sc = "muxed" /\ Muxed!MnatNext
           \/ sc = "host" /\ Host!MnatNext
        /\ UNCHANGED <<loopV, httpV, vars, dnsV, turnV, stunV, iceV>>
     \/ /\ sc = "mapping" /\ Mapping!Next
        /\ UNCHANGED <<loopV, httpV, vars, dnsV, turnV, mnatV, iceV>>
     \/ /\ \/ sc = "routed" /\ Routed!Next
           \/ sc = "natted" /\ Natted!Next
        /\ UNCHANGED <<loopV, httpV, vars, dnsV, turnV, mnatV, stunV>>
     \/ Ended /\ UNCHANGED all

NetSpec == NetInit /\ [][NetNext]_all
-----------------------------------------------------------------------------
(* The event loop: timers stay in order and are waited for, also when      *)
(* handlers start and cancel them or the clock is set back (tmr_start,     *)
(* tmr_poll and fd_poll of libre).                                         *)
LoopKept ==
  /\ sc = "clocks" => Clocks!TypeOK /\ Clocks!ListOrder /\ Clocks!SleepsWithTimeout
  /\ sc = "files" => Files!TypeOK /\ Files!ListOrder /\ Files!SleepsWithTimeout

(* The HTTP server: however requests are cut into segments each is served  *)
(* once, the answers on a connection come in order until one that belongs  *)
(* to a request parked earlier on another, and a connection lives while it *)
(* is used (recv_handler, http_reply, conn_close of libre; conn_pending of *)
(* barertc).                                                               *)
ServerKept ==
  /\ sc = "browsing" => Browsing!TypeOK /\ Browsing!AnswersInOrder /\ Browsing!HeldWhileUsed
  /\ sc = "streaming" => Streaming!EveryRequestSeen /\ Streaming!HeldWhileUsed

(* The resolver calls each handler once and loses no query while it moves  *)
(* queries between servers and connections (dns/client.c).                 *)
DnsKept ==
  sc = "dns" => Dns!TypeOK /\ Dns!CalledOnce /\ Dns!ListsMatch /\ Dns!WaitsSomewhere

(* TURN: what the client believes in, the server holds, or the error has   *)
(* its cause (turnc.c and perm.c of libre, turn.c of restund).             *)
TurnKept ==
  /\ sc = "permission" => /\ Permission!TypeOK /\ Permission!AllocationHeld
                          /\ Permission!PermissionHeld /\ Permission!ErrorExplained
  /\ sc = "channel" => Channel!PermissionHeld /\ Channel!ChannelHeld
  /\ sc = "faulty" => Faulty!AllocationHeld /\ Faulty!ErrorExplained

(* The gathering of candidates: the owner is told once, and waits for      *)
(* nothing that is not pending; a transaction of STUN is answered once and *)
(* given up in time, and a session never stalls (modules/ice/ice.c of      *)
(* baresip, ctrans.c and keepalive.c of libre).                            *)
GatherKept ==
  /\ sc = "relayed" => Relayed!MnatAssumption /\ Relayed!GatherKept
  /\ sc = "muxed" => Muxed!MnatAssumption /\ Muxed!GatherKept
  /\ sc = "host" => Host!MnatAssumption /\ Host!GatherKept
  /\ sc = "mapping" => /\ Mapping!AnsweredOnce /\ Mapping!NeverStalls
                       /\ Mapping!GivesUpInTime

(* Connectivity checks: a check in progress will end, the outcome is       *)
(* reported once, and media is sent only where a check was answered        *)
(* (connchk.c, icestr.c, candpair.c and stunsrv.c of libre).               *)
ChecksKept ==
  /\ sc = "routed" => Routed!SelectedReached /\ Routed!BetterPairSelected
  /\ sc = "natted" => Natted!TypeOK /\ Natted!CheckPending /\ Natted!ReportedOnce

(* What no step may do: serve a descriptor that was closed, leave the loop *)
(* uncalled, tell the owner of a WebSocket twice, prolong an allocation    *)
(* while the server drains, renegotiate before every stream is connected,  *)
(* use a session that is gone without one of two causes, report failure    *)
(* although a check was answered.                                          *)
StepsKept ==
  [][/\ sc = "files" => Files!NoCallAfterClose /\ Files!StopsWhenCancelled
     /\ sc = "socket" => ToldOnce
     /\ sc = "faulty" => Faulty!DrainStops
     /\ sc = "host" => Host!AsksAfterAll /\ Host!StaleExplained
     /\ sc = "natted" => Natted!FailsWithoutPath]_all
=============================================================================
