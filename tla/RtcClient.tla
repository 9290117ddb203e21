----------------------------- MODULE RtcClient -----------------------------
(***************************************************************************)
(* The room client's life cycle: GET /login and GET /stop of barertc.c     *)
(* create, log in, log out and destroy the one BaiduRtcClient, whose       *)
(* FRTCConnection runs over a WebSocket that poll_tmr drives.  keepalive_- *)
(* tmr and keepalive_check_tmr watch that the server still answers.        *)
(*                                                                         *)
(* Everything runs on one event loop, so each handler is one step.  Time   *)
(* advances in ticks of CheckDelay = 1 (5 s), and a timer that is due runs *)
(* before the clock moves on: the 50 ms a poll may block are below a tick. *)
(***************************************************************************)
EXTENDS Integers

CONSTANTS Period,      \* 25000 ms of keepalive_tmr, in ticks
          CheckDelay,  \* 5000 ms of keepalive_check_tmr, in ticks
          MaxClients,  \* bound: clients created in one run of the program
          MaxFlight,   \* bound: keepalives sent and not yet acknowledged
          Off          \* a timer that is not armed

ASSUME TimerAssumption ==
  /\ Period \in Nat /\ CheckDelay \in Nat \ {0} /\ CheckDelay < Period
  /\ MaxClients \in Nat /\ MaxFlight \in Nat
  /\ Off \notin Nat

VARIABLES
  client,     \* gBrtcClient: 0 is NULL, otherwise the number of the object
  made,       \* clients created so far
  ctx,        \* mWSCtx # NULL
  ws,         \* the mg_connection behind mWSConnetion
  connected,  \* mRTCConnected
  aliving,    \* mbAliving
  session,    \* mSessionId: not asked for, asked for, refused or set
  ka,         \* ticks until keepalive_tmr runs, or Off; poll_tmr is armed with it
  chk,        \* ticks until keepalive_check_tmr runs, or Off
  flight,     \* keepalives sent that the server has not acknowledged
  message,    \* a join or configure message awaits its ack
  notice,     \* what the last step told the message listener
  silence,    \* history: ticks since /login, the last sign of life or the last notice
  early,      \* history: a keepalive came due before the session existed
  opened,     \* history: the WebSocket of this client has been open
  leaked,     \* history: clients destroyed with their WebSocket context
  fault       \* data was sent on a connection that mongoose has freed

vars == <<client, made, ctx, ws, connected, aliving, session, ka, chk, flight,
          message, notice, silence, early, opened, leaked, fault>>

Init ==
  /\ client = 0 /\ made = 0 /\ ctx = FALSE /\ ws = "none"
  /\ connected = FALSE /\ aliving = FALSE /\ session = "none"
  /\ ka = Off /\ chk = Off /\ flight = 0 /\ message = FALSE
  /\ notice = "none" /\ silence = 0 /\ early = FALSE /\ opened = FALSE
  /\ leaked = {} /\ fault = FALSE

Running == client # 0 /\ ~fault

(* A timer whose time has come runs before anything that takes time.       *)
Due == ka = 0 \/ chk = 0

(* onRTCConnectError and onRTCLoginOK pass a message to the listener.      *)
Notify(what) == notice' = what /\ silence' = 0

Quiet == notice' = "none" /\ UNCHANGED silence

StartTmrs == ka' = Period
StopTmrs == ka' = Off /\ chk' = Off

(* createClient and init: a new client with a new FRTCConnection.          *)
CreateClient ==
  /\ client' = made + 1 /\ made' = made + 1
  /\ connected' = FALSE /\ aliving' = FALSE /\ session' = "none"
  /\ flight' = 0 /\ message' = FALSE /\ early' = FALSE /\ opened' = FALSE

(* connecting().  outcome is that of brtc_websocket_connect: no memory, an *)
(* error at once, or a connection under way.                               *)
Connecting(outcome) ==
  /\ ctx' = TRUE
  /\ ws' = CASE outcome = "nomem" -> "none" [] outcome = "fails" -> "failing"
             [] outcome = "ok" -> "connecting"
  /\ Notify(IF outcome = "ok" THEN "none" ELSE "error")

(***************************************************************************)
(* GET /login: brtc_cmd_handler('c') creates and initialises a client if   *)
(* there is none, and ('i') connects it if it is not logged in.  start_-   *)
(* brtc_tmrs runs in any case.                                             *)
(***************************************************************************)
Login(outcome) ==
  /\ client = 0 /\ ~fault /\ made < MaxClients
  /\ CreateClient
  /\ Connecting(outcome)
  /\ StartTmrs
  /\ UNCHANGED <<chk, leaked, fault>>

LoginAgain ==
  /\ Running
  /\ StartTmrs
  /\ Notify("none")
  /\ UNCHANGED <<client, made, ctx, ws, connected, aliving, session, chk,
                 flight, message, early, opened, leaked, fault>>

(***************************************************************************)
(* logoutRoom, then deInit and destoryClient.  disconnect() - which frees  *)
(* the WebSocket context and, through it, an open connection, whose close  *)
(* event is still delivered - is called only if mRTCConnected is set.      *)
(***************************************************************************)
LogoutRoom ==
  /\ leaked' = IF connected THEN leaked ELSE leaked \cup {client}
  /\ ctx' = FALSE /\ ws' = "none" /\ connected' = FALSE
  /\ Notify(IF connected /\ ws \in {"open", "failing"} THEN "error" ELSE "none")

(* Faulty variants: only poll_tmr and keepalive_tmr are cancelled, and     *)
(* logoutRoom forgets to disconnect.                                       *)
Stop_KeepCheck ==
  /\ Running
  /\ ka' = Off
  /\ LogoutRoom
  /\ client' = 0
  /\ UNCHANGED <<made, aliving, session, chk, flight, message, early, opened, fault>>

Stop_NoDisconnect ==
  /\ Running
  /\ StopTmrs
  /\ client' = 0
  /\ leaked' = leaked \cup {client}
  /\ ctx' = FALSE /\ ws' = "none" /\ connected' = FALSE
  /\ Notify("none")
  /\ UNCHANGED <<made, aliving, session, flight, message, early, opened, fault>>

(* GET /stop: brtc_cmd_handler('o') cancels the three timers and logs out, *)
(* ('d') deinitialises and frees the client.                               *)
Stop ==
  /\ Running
  /\ StopTmrs
  /\ LogoutRoom
  /\ client' = 0
  /\ UNCHANGED <<made, aliving, session, flight, message, early, opened, fault>>

(***************************************************************************)
(* sendMessage: nothing before mRTCConnected; afterwards mg_ws_send writes *)
(* to mWSConnetion, which is freed memory once the connection has closed.  *)
(***************************************************************************)
SendOnFreed == connected /\ ws = "closed"

(* GET /sendmsg, and GET /start with its offer: an ack may follow.         *)
AppSend ==
  /\ Running
  /\ fault' = SendOnFreed
  /\ message' = (message \/ (ws = "open" /\ session = "set"))
  /\ Quiet
  /\ UNCHANGED <<client, made, ctx, ws, connected, aliving, session, ka, chk,
                 flight, early, opened, leaked>>

(***************************************************************************)
(* WebSocket events, delivered by the poll.                                *)
(***************************************************************************)
Polled == Running /\ ka # Off /\ ctx

(* MG_EV_WS_OPEN: onRTCOpen, which asks for a session at once.             *)
WsOpen ==
  /\ Polled /\ ws = "connecting"
  /\ ws' = "open" /\ connected' = TRUE /\ aliving' = TRUE
  /\ session' = "asked" /\ opened' = TRUE
  /\ Notify("ok")
  /\ UNCHANGED <<client, made, ctx, ka, chk, flight, message, early, leaked, fault>>

(* MG_EV_ERROR: onRTCClosed; the connection closes in a later poll.        *)
WsError ==
  /\ Polled /\ ws \in {"connecting", "open"}
  /\ ws' = "failing"
  /\ Notify("error")
  /\ UNCHANGED <<client, made, ctx, connected, aliving, session, ka, chk, flight,
                 message, early, opened, leaked, fault>>

(* MG_EV_CLOSE: onRTCClosed again, then mongoose frees the connection.     *)
(* mRTCConnected and mWSConnetion stay as they are.                        *)
WsClose ==
  /\ Polled /\ ws \in {"connecting", "failing", "open"}
  /\ ws' = "closed"
  /\ Notify("error")
  /\ UNCHANGED <<client, made, ctx, connected, aliving, session, ka, chk, flight,
                 message, early, opened, leaked, fault>>

(* The reply to createSession.  On success the client goes on to attach    *)
(* and join, on an error it does nothing more.                             *)
SessionReply(success) ==
  /\ Polled /\ ws = "open" /\ session = "asked"
  /\ session' = (IF success THEN "set" ELSE "refused")
  /\ message' = (message \/ success)
  /\ Quiet
  /\ UNCHANGED <<client, made, ctx, ws, connected, aliving, ka, chk, flight,
                 early, opened, leaked, fault>>

(* Faulty variant: an ack is ignored.                                      *)
Ack_Ignored(keepalive) ==
  /\ Polled /\ ws = "open"
  /\ IF keepalive THEN flight > 0 /\ flight' = flight - 1 /\ UNCHANGED message
     ELSE message /\ message' = FALSE /\ UNCHANGED flight
  /\ early' = FALSE /\ notice' = "none" /\ silence' = 0
  /\ UNCHANGED <<client, made, ctx, ws, connected, aliving, session, ka, chk,
                 opened, leaked, fault>>

(* "ack": the server sends one for each keepalive and for each message.    *)
Ack(keepalive) ==
  /\ Polled /\ ws = "open"
  /\ IF keepalive THEN flight > 0 /\ flight' = flight - 1 /\ UNCHANGED message
     ELSE message /\ message' = FALSE /\ UNCHANGED flight
  /\ aliving' = TRUE /\ early' = FALSE
  /\ notice' = "none" /\ silence' = 0
  /\ UNCHANGED <<client, made, ctx, ws, connected, session, ka, chk, opened,
                 leaked, fault>>

(***************************************************************************)
(* The timers.  do_keepalive calls baidu_rtc_signal_keepalive and re-arms  *)
(* itself and the check, whatever that returned.                           *)
(***************************************************************************)
(* Without an ack since the last one, no keepalive is sent.                *)
SignalKeepalive ==
  IF ctx /\ ~aliving
  THEN Notify("alarm") /\ UNCHANGED <<aliving, flight, early, fault>>
  ELSE /\ aliving' = (IF ctx THEN FALSE ELSE aliving)
       /\ flight' = IF ctx /\ session = "set" /\ connected THEN flight + 1 ELSE flight
       /\ fault' = (ctx /\ session = "set" /\ SendOnFreed)
       /\ early' = (early \/ session # "set")
       /\ Quiet

DoKeepalive ==
  /\ Running /\ ka = 0 /\ (aliving => flight < MaxFlight)
  /\ SignalKeepalive
  /\ ka' = Period /\ chk' = CheckDelay
  /\ UNCHANGED <<client, made, ctx, ws, connected, session, message, opened, leaked>>

(* Faulty variant: the check looks for a missing context.                  *)
DoCheck_NoContext ==
  /\ Running /\ chk = 0
  /\ chk' = Off
  /\ IF ~ctx /\ ~aliving THEN Notify("alarm") ELSE Quiet
  /\ UNCHANGED <<client, made, ctx, ws, connected, aliving, session, ka, flight,
                 message, early, opened, leaked, fault>>

DoCheck ==
  /\ Running /\ chk = 0
  /\ chk' = Off
  /\ IF ctx /\ ~aliving THEN Notify("alarm") ELSE Quiet
  /\ UNCHANGED <<client, made, ctx, ws, connected, aliving, session, ka, flight,
                 message, early, opened, leaked, fault>>

Left(t) == IF t = Off THEN Off ELSE t - 1

Tick ==
  /\ Running /\ ~Due
  /\ ka' = Left(ka) /\ chk' = Left(chk)
  /\ silence' = silence + 1
  /\ notice' = "none"
  /\ UNCHANGED <<client, made, ctx, ws, connected, aliving, session, flight,
                 message, early, opened, leaked, fault>>

Ended == (fault \/ (client = 0 /\ made = MaxClients)) /\ UNCHANGED vars

Next ==
  \/ \E outcome \in {"nomem", "fails", "ok"} : Login(outcome)
  \/ LoginAgain \/ Stop \/ AppSend
  \/ WsOpen \/ WsError \/ WsClose
  \/ \E success \in BOOLEAN : SessionReply(success)
  \/ \E keepalive \in BOOLEAN : Ack(keepalive)
  \/ DoKeepalive \/ DoCheck \/ Tick
  \/ Ended

Spec == Init /\ [][Next]_vars
-----------------------------------------------------------------------------
TypeOK ==
  /\ made \in 0..MaxClients /\ client \in 0..made
  /\ ctx \in BOOLEAN /\ connected \in BOOLEAN /\ aliving \in BOOLEAN
  /\ ws \in {"none", "connecting", "failing", "open", "closed"}
  /\ session \in {"none", "asked", "refused", "set"}
  /\ ka \in 0..Period \cup {Off} /\ chk \in 0..CheckDelay \cup {Off}
  /\ flight \in 0..MaxFlight /\ message \in BOOLEAN
  /\ notice \in {"none", "ok", "error", "alarm"}
  /\ silence \in Nat /\ early \in BOOLEAN /\ opened \in BOOLEAN
  /\ leaked \subseteq 1..made /\ fault \in BOOLEAN

(***************************************************************************)
(* Silence is detected in time: while a client is logged in, it is never   *)
(* longer than one keepalive period and one check delay (30 s) since the   *)
(* last /login, the last ack or the last message to the listener, however  *)
(* the WebSocket and the server fail.  do_keepalive, the check and the     *)
(* ack handler share only mbAliving and the two timers.                    *)
(***************************************************************************)
SilenceBounded == client # 0 => silence <= Period + CheckDelay

(***************************************************************************)
(* The keepalive alarm is no false alarm: when do_keepalive or its check   *)
(* reports a dead connection, then a keepalive is unanswered, or the       *)
(* WebSocket is not open, or a keepalive came due before the session       *)
(* existed (nothing is sent then, but mbAliving is cleared all the same).  *)
(***************************************************************************)
AlarmJustified == notice = "alarm" => flight > 0 \/ ws # "open" \/ early

(***************************************************************************)
(* No timer outlives its client: the timers carry the client as argument,  *)
(* and GET /stop frees it.                                                 *)
(***************************************************************************)
TimersServeClient == (ka # Off \/ chk # Off) => client # 0

(***************************************************************************)
(* A WebSocket context is lost (with its socket) only when GET /stop comes *)
(* before the WebSocket has opened, because logoutRoom and deInit          *)
(* disconnect only if mRTCConnected is set.                                *)
(***************************************************************************)
LeakOnlyUnopened ==
  [][\A k \in leaked' \ leaked : ~opened]_vars

(***************************************************************************)
(* The timing part of the inductive invariant.  A logged-in client has its *)
(* context and its keepalive timer; how long it has been silent follows    *)
(* from the flag and from what is left on the timers.  Only between a      *)
(* keepalive and its check may the silence be longer than a period.        *)
(***************************************************************************)
TimingInv ==
  /\ TypeOK
  /\ TimersServeClient
  /\ client # 0 => /\ ctx /\ ka # Off
                   /\ aliving \/ chk = Off => silence <= Period - ka
                   /\ ~aliving /\ chk # Off => silence <= Period + CheckDelay - chk

(***************************************************************************)
(* What mbAliving and mRTCConnected stand for: on an open WebSocket the    *)
(* first is clear only while a keepalive waits for its ack or came due too *)
(* early, and the second says whether the client has ever opened one.      *)
(***************************************************************************)
AliveInv ==
  client # 0 => /\ connected <=> opened
                /\ ws = "open" => connected /\ (aliving \/ flight > 0 \/ early)

(* The inductive invariant.                                                *)
RtcInv == TimingInv /\ AliveInv /\ AlarmJustified

(***************************************************************************)
(* After the close event nothing is sent on the connection ("Signal that   *)
(* we're done", RTCConnection.c).                                          *)
(***************************************************************************)
NothingSentAfterClose == ~fault
=============================================================================
