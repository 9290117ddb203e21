-------------------------- MODULE RtcClientProofs --------------------------
(***************************************************************************)
(* The timing of the room client's keepalive, proved for every period and  *)
(* every check delay that is shorter than the period.                      *)
(***************************************************************************)
EXTENDS RtcClient, TLAPS

(* A step that has just reset the silence satisfies the bound, whatever    *)
(* the timers show: both are within their ranges.                          *)
LEMMA FreshSilence ==
  ASSUME NEW a \in BOOLEAN, NEW k \in 0..Period,
         NEW c \in 0..CheckDelay \cup {Off}
  PROVE  /\ a \/ c = Off => 0 <= Period - k
         /\ ~a /\ c # Off => 0 <= Period + CheckDelay - c
  BY TimerAssumption

(* The program starts in a state that satisfies the invariant.             *)
LEMMA RtcInit == Init => TimingInv
<1> SUFFICES ASSUME Init PROVE TimingInv
  OBVIOUS
<1>1. /\ made \in 0..MaxClients /\ client \in 0..made /\ leaked \subseteq 1..made
      /\ ka \in 0..Period \cup {Off} /\ chk \in 0..CheckDelay \cup {Off}
      /\ flight \in 0..MaxFlight /\ silence \in Nat
  BY TimerAssumption DEF Init
<1>2. TypeOK
  BY Zenon, <1>1 DEF Init, TypeOK
<1> QED BY <1>2 DEF Init, TimingInv, TimersServeClient

(* GET /login, a repeated GET /login and GET /stop keep the invariant.     *)
LEMMA CommandStep ==
  ASSUME TimingInv,
         \/ \E outcome \in {"nomem", "fails", "ok"} : Login(outcome)
         \/ LoginAgain \/ Stop \/ AppSend
  PROVE  TimingInv'
<1>1. ASSUME NEW outcome \in {"nomem", "fails", "ok"}, Login(outcome) PROVE TimingInv'
  <2>1. /\ client' = made + 1 /\ made' = made + 1 /\ made + 1 \in 1..MaxClients
        /\ leaked' \subseteq 1..made'
    BY <1>1, TimerAssumption
      DEF Login, CreateClient, Connecting, StartTmrs, Notify, TimingInv, TypeOK
  <2>2. chk = Off
    BY <1>1
      DEF Login, CreateClient, Connecting, StartTmrs, Notify, TimingInv, TimersServeClient
  <2>3. TypeOK'
    <3>1. ws' \in {"none", "failing", "connecting"} /\ notice' \in {"none", "error"}
      BY <1>1 DEF Login, CreateClient, Connecting, StartTmrs, Notify
    <3>2. /\ made' \in 0..MaxClients /\ client' \in 0..made'
          /\ ka' \in 0..Period \cup {Off} /\ flight' \in 0..MaxFlight /\ silence' \in Nat
      BY <1>1, <2>1, TimerAssumption
        DEF Login, CreateClient, Connecting, StartTmrs, Notify
    <3> QED BY Zenon, <1>1, <2>1, <2>2, <3>1, <3>2
      DEF Login, CreateClient, Connecting, StartTmrs, Notify, TimingInv, TypeOK
  <2>4. TimersServeClient' /\ ctx' /\ ka' # Off
    BY <1>1, <2>1, TimerAssumption
      DEF Login, CreateClient, Connecting, StartTmrs, Notify, TimersServeClient
  <2>5. /\ silence' = 0 /\ ka' = Period /\ chk' = Off
    BY <1>1, <2>2 DEF Login, CreateClient, Connecting, StartTmrs, Notify
  <2> QED BY <2>3, <2>4, <2>5, TimerAssumption DEF TimingInv
<1>2. CASE LoginAgain
  <2>1. TypeOK' /\ TimersServeClient' /\ ctx' /\ ka' # Off
    BY <1>2, TimerAssumption
      DEF LoginAgain, StartTmrs, Notify, TimingInv, TypeOK, TimersServeClient, Running
  <2>2. silence' = 0 /\ ka' \in 0..Period
    BY <1>2, TimerAssumption DEF LoginAgain, StartTmrs, Notify
  <2>3. aliving' \in BOOLEAN /\ chk' \in 0..CheckDelay \cup {Off}
    BY <2>1 DEF TypeOK
  <2> QED BY <2>1, <2>2, <2>3, FreshSilence DEF TimingInv
<1>3. CASE Stop
  <2>1. /\ made' = made /\ client' \in 0..made' /\ client \in 1..made
        /\ silence' \in Nat /\ leaked' \subseteq leaked \cup {client}
    BY <1>3, TimerAssumption
      DEF Stop, StopTmrs, LogoutRoom, Notify, Running, TimingInv, TypeOK
  <2>2. notice' \in {"none", "error"}
    BY <1>3 DEF Stop, StopTmrs, LogoutRoom, Notify
  <2>3. leaked' \subseteq 1..made'
    BY <2>1 DEF TimingInv, TypeOK
  <2>4. TypeOK'
    BY ZenonT(30), <1>3, <2>1, <2>2, <2>3 DEF Stop, StopTmrs, LogoutRoom, TimingInv, TypeOK
  <2> QED BY <1>3, <2>4 DEF Stop, StopTmrs, LogoutRoom, TimingInv, TimersServeClient
<1>4. CASE AppSend
  BY <1>4 DEF AppSend, Quiet, Running, SendOnFreed, TimingInv, TypeOK, TimersServeClient
<1> QED BY <1>1, <1>2, <1>3, <1>4

(* The WebSocket's events and the server's replies keep the invariant.     *)
LEMMA SocketStep ==
  ASSUME TimingInv,
         \/ WsOpen \/ WsError \/ WsClose
         \/ \E success \in BOOLEAN : SessionReply(success)
         \/ \E keepalive \in BOOLEAN : Ack(keepalive)
  PROVE  TimingInv'
<1>1. ASSUME TypeOK', TimersServeClient', ctx' /\ ka' # Off, silence' = 0
      PROVE  TimingInv'
  <2>1. aliving' \in BOOLEAN /\ ka' \in 0..Period /\ chk' \in 0..CheckDelay \cup {Off}
    BY <1>1 DEF TypeOK
  <2> QED BY <1>1, <2>1, FreshSilence DEF TimingInv
<1>2. CASE WsOpen
  BY <1>1, <1>2 DEF WsOpen, Polled, Running, Notify, TimingInv, TypeOK, TimersServeClient
<1>3. CASE WsError
  BY <1>1, <1>3 DEF WsError, Polled, Running, Notify, TimingInv, TypeOK, TimersServeClient
<1>4. CASE WsClose
  BY <1>1, <1>4 DEF WsClose, Polled, Running, Notify, TimingInv, TypeOK, TimersServeClient
<1>5. ASSUME NEW success \in BOOLEAN, SessionReply(success) PROVE TimingInv'
  BY <1>5 DEF SessionReply, Polled, Running, Quiet, TimingInv, TypeOK, TimersServeClient
<1>6. ASSUME NEW keepalive \in BOOLEAN, Ack(keepalive) PROVE TimingInv'
  <2>1. flight' \in 0..MaxFlight
    BY <1>6, TimerAssumption DEF Ack, TimingInv, TypeOK
  <2>2. TypeOK'
    BY ZenonT(30), <1>6, <2>1 DEF Ack, TimingInv, TypeOK
  <2> QED BY <1>1, <1>6, <2>2 DEF Ack, Polled, Running, TimingInv, TimersServeClient
<1> QED BY <1>2, <1>3, <1>4, <1>5, <1>6

(* The timers and the clock keep the invariant.  do_keepalive finds the    *)
(* silence at most a period long, and leaves CheckDelay for the check.     *)
LEMMA TimerStep ==
  ASSUME TimingInv, DoKeepalive \/ DoCheck \/ Tick \/ Ended
  PROVE  TimingInv'
<1>1. CASE DoKeepalive
  <2>1. /\ client' = client /\ client # 0 /\ ctx' /\ ctx
        /\ ka' = Period /\ chk' = CheckDelay /\ ka = 0
    BY <1>1 DEF DoKeepalive, Running, TimingInv
  <2>2. /\ flight' \in 0..MaxFlight /\ silence' \in Nat
        /\ silence' <= Period
    <3>1. CASE aliving
      <4>1. silence \in Nat /\ silence <= Period
        BY <2>1, <3>1, TimerAssumption DEF TimingInv, TypeOK
      <4>2. silence' = silence /\ flight < MaxFlight /\ flight' \in {flight, flight + 1}
        BY <1>1, <3>1 DEF DoKeepalive, SignalKeepalive, Quiet
      <4> QED BY <4>1, <4>2, TimerAssumption DEF TimingInv, TypeOK
    <3>2. CASE ~aliving
      <4>1. silence' = 0 /\ flight' = flight
        BY <1>1, <2>1, <3>2 DEF DoKeepalive, SignalKeepalive, Notify
      <4> QED BY <4>1, TimerAssumption DEF TimingInv, TypeOK
    <3> QED BY <3>1, <3>2
  <2>3. aliving' = FALSE
    BY Zenon, <1>1, <2>1 DEF DoKeepalive, SignalKeepalive, TimingInv, TypeOK
  <2>4. fault' \in BOOLEAN /\ early' \in BOOLEAN
    <3>1. CASE aliving
      BY Zenon, <1>1, <3>1, Zenon DEF DoKeepalive, SignalKeepalive
    <3>2. CASE ~aliving
      BY <1>1, <2>1, <3>2 DEF DoKeepalive, SignalKeepalive, TimingInv, TypeOK
    <3> QED BY <3>1, <3>2
  <2>5. notice' \in {"none", "alarm"}
    BY Zenon, <1>1 DEF DoKeepalive, SignalKeepalive, Notify, Quiet
  <2>6. TypeOK'
    <3>1. ka' \in 0..Period \cup {Off} /\ chk' \in 0..CheckDelay \cup {Off}
      BY <2>1, TimerAssumption
    <3>2. aliving' \in BOOLEAN
      BY Zenon, <2>3
    <3> QED BY <1>1, <2>2, <2>4, <2>5, <3>1, <3>2 DEF DoKeepalive, TimingInv, TypeOK
  <2>7. TimersServeClient'
    BY <2>1 DEF TimersServeClient
  <2> QED BY <2>1, <2>2, <2>3, <2>6, <2>7, TimerAssumption DEF TimingInv
<1>2. CASE DoCheck
  <2>1. TypeOK' /\ TimersServeClient' /\ ctx' /\ ka' # Off
    BY <1>2 DEF DoCheck, Running, Notify, Quiet, TimingInv, TypeOK, TimersServeClient
  <2>2. silence' <= Period - ka'
    BY <1>2, TimerAssumption DEF DoCheck, Running, Notify, Quiet, TimingInv, TypeOK
  <2> QED BY <1>2, <2>1, <2>2, TimerAssumption DEF DoCheck, TimingInv
<1>3. CASE Tick
  <2>1. /\ ka \in 1..Period /\ ka' = ka - 1
        /\ chk = Off => chk' = Off
        /\ chk # Off => chk \in 1..CheckDelay /\ chk' = chk - 1
    BY <1>3, TimerAssumption DEF Tick, Due, Left, Running, TimingInv, TypeOK
  <2>2. silence \in Nat /\ silence' = silence + 1
    BY <1>3 DEF Tick, TimingInv, TypeOK
  <2>3. TypeOK'
    BY <1>3, <2>1, <2>2, TimerAssumption DEF Tick, TimingInv, TypeOK
  <2>4. TimersServeClient' /\ ctx' /\ ka' # Off
    BY <1>3, <2>1, TimerAssumption DEF Tick, Running, TimingInv, TimersServeClient
  <2>5. aliving' \/ chk' = Off => silence' <= Period - ka'
    BY <1>3, <2>1, <2>2, TimerAssumption DEF Tick, Running, TimingInv
  <2>6. ~aliving' /\ chk' # Off => silence' <= Period + CheckDelay - chk'
    BY <1>3, <2>1, <2>2, TimerAssumption DEF Tick, Running, TimingInv
  <2> QED BY <2>3, <2>4, <2>5, <2>6 DEF TimingInv
<1>4. CASE Ended
  BY <1>4 DEF Ended, vars, TimingInv, TypeOK, TimersServeClient
<1> QED BY <1>1, <1>2, <1>3, <1>4

(***************************************************************************)
(* do_keepalive clears mbAliving only when it has sent a keepalive or the  *)
(* session does not exist yet, and only an ack sets it again and takes a   *)
(* keepalive off the flight: so an alarm on an open WebSocket has a cause. *)
(***************************************************************************)
LEMMA AliveStep ==
  ASSUME TimingInv, AliveInv, AlarmJustified, [Next]_vars
  PROVE  AliveInv' /\ AlarmJustified'
<1> USE DEF AliveInv, AlarmJustified
<1>t. flight \in Nat /\ aliving \in BOOLEAN /\ early \in BOOLEAN
  BY TimerAssumption DEF TimingInv, TypeOK
<1>1. ASSUME NEW outcome \in {"nomem", "fails", "ok"}, Login(outcome)
      PROVE  AliveInv' /\ AlarmJustified'
  BY <1>1 DEF Login, CreateClient, Connecting, Notify
<1>2. CASE LoginAgain
  BY <1>2 DEF LoginAgain, Notify, Running
<1>3. CASE Stop
  BY <1>3 DEF Stop, LogoutRoom, Notify
<1>4. CASE AppSend
  BY <1>4 DEF AppSend, Quiet, Running
<1>5. CASE WsOpen
  BY <1>5 DEF WsOpen, Notify
<1>6. CASE WsError
  BY <1>6 DEF WsError, Notify, Polled, Running
<1>7. CASE WsClose
  BY <1>7 DEF WsClose, Notify, Polled, Running
<1>8. ASSUME NEW success \in BOOLEAN, SessionReply(success)
      PROVE  AliveInv' /\ AlarmJustified'
  BY <1>8 DEF SessionReply, Quiet, Polled, Running
<1>9. ASSUME NEW keepalive \in BOOLEAN, Ack(keepalive)
      PROVE  AliveInv' /\ AlarmJustified'
  BY <1>9 DEF Ack, Polled, Running
<1>10. CASE DoKeepalive
  <2>1. /\ client # 0 /\ ctx
        /\ UNCHANGED <<client, ctx, ws, connected, session, opened>>
    BY <1>10 DEF DoKeepalive, Running, TimingInv
  <2>2. CASE aliving
    <3>1. /\ notice' = "none"
          /\ session # "set" => early'
          /\ session = "set" /\ connected => flight' = flight + 1
      BY Zenon, <1>10, <2>1, <2>2 DEF DoKeepalive, SignalKeepalive, Quiet
    <3> QED BY <1>t, <2>1, <3>1
  <2>3. CASE ~aliving
    <3>1. UNCHANGED <<aliving, flight, early>>
      BY <1>10, <2>1, <2>3 DEF DoKeepalive, SignalKeepalive
    <3> QED BY <2>1, <2>3, <3>1
  <2> QED BY <2>2, <2>3
<1>11. CASE DoCheck
  BY <1>11 DEF DoCheck, Notify, Quiet, Running
<1>12. CASE Tick
  BY <1>12 DEF Tick, Running
<1>13. CASE Ended \/ UNCHANGED vars
  BY <1>13 DEF Ended, vars
<1> QED BY <1>1, <1>2, <1>3, <1>4, <1>5, <1>6, <1>7, <1>8, <1>9, <1>10, <1>11,
           <1>12, <1>13 DEF Next

(* The invariant holds in every reachable state, for every keepalive       *)
(* period and check delay of barertc.c's timers.                           *)
THEOREM RtcInvariant == Spec => []RtcInv
<1>1. TimingInv /\ [Next]_vars => TimingInv'
  <2>1. TimingInv /\ UNCHANGED vars => TimingInv'
    BY DEF vars, TimingInv, TypeOK, TimersServeClient
  <2> QED BY <2>1, CommandStep, SocketStep, TimerStep DEF Next
<1>2. RtcInv /\ [Next]_vars => RtcInv'
  BY <1>1, AliveStep DEF RtcInv
<1>3. Init => RtcInv
  BY RtcInit DEF RtcInv, Init, AliveInv, AlarmJustified
<1> QED BY <1>2, <1>3, PTL DEF Spec

(* Silence of the server is reported within a period and a check delay.    *)
THEOREM SilenceDetected == Spec => []SilenceBounded
<1>1. RtcInv => SilenceBounded
  <2>1. ASSUME TimingInv, client # 0 PROVE silence <= Period + CheckDelay
    <3>1. silence \in Nat /\ ka \in 0..Period /\ chk \in 0..CheckDelay \cup {Off}
      BY <2>1 DEF TimingInv, TypeOK
    <3> QED BY <2>1, <3>1, TimerAssumption DEF TimingInv
  <2> QED BY <2>1 DEF SilenceBounded, RtcInv
<1> QED BY <1>1, RtcInvariant, PTL

(* The keepalive alarm is never raised on an open connection that has      *)
(* answered every keepalive.                                               *)
THEOREM NoFalseAlarm == Spec => []AlarmJustified
  BY RtcInvariant, PTL DEF RtcInv

(***************************************************************************)
(* GET /stop loses a WebSocket context only when it comes before the       *)
(* WebSocket has opened: mRTCConnected is then set, and logoutRoom         *)
(* disconnects.                                                            *)
(***************************************************************************)
THEOREM OpenedNeverLeaks == Spec => LeakOnlyUnopened
<1>1. RtcInv /\ [Next]_vars => [\A k \in leaked' \ leaked : ~opened]_vars
  <2>1. ASSUME RtcInv, Stop PROVE \A k \in leaked' \ leaked : ~opened
    BY SMTT(30), <2>1 DEF Stop, LogoutRoom, Running, RtcInv, AliveInv
  <2>2. ASSUME Next, ~Stop PROVE leaked' = leaked
    BY <2>2 DEF Next, Login, LoginAgain, AppSend, WsOpen, WsError, WsClose,
         SessionReply, Ack, DoKeepalive, DoCheck, Tick, Ended, vars
  <2> QED BY <2>1, <2>2
<1> QED BY <1>1, RtcInvariant, PTL DEF Spec, LeakOnlyUnopened

(* No timer runs with a client that GET /stop has freed.                   *)
THEOREM TimersSafe == Spec => []TimersServeClient
  BY RtcInvariant, PTL DEF RtcInv, TimingInv
=============================================================================
