------------------------------ MODULE WebSock ------------------------------
(***************************************************************************)
(* The WebSocket connections of libre (src/re/src/websock/websock.c): the  *)
(* two ends of one connection, each with the application that owns it.     *)
(* A connection outlives its owner's reference: the destructor brings it   *)
(* back to life until the peer has answered the close frame or a timer     *)
(* has run out.  The wire between the ends keeps the order; an end that    *)
(* drops its TCP connection leaves a "fin" behind.                         *)
(***************************************************************************)
EXTENDS Naturals, Sequences, Functions

CONSTANTS MaxWire,   \* bound on what is on the wire
          kaint,     \* is there a keepalive interval
          Foreign,   \* may the peer send what a libre end never would
          Vanishing  \* may a host disappear without a word

Ends == {"active", "passive"}
Peer(e) == IF e = "active" THEN "passive" ELSE "active"

VARIABLES conn,   \* struct websock_conn of each end
          wire,   \* what each end has sent and the other has not read
          gone    \* hosts that have disappeared

vars == <<conn, wire, gone>>

(* state, is it allocated, does the owner hold its reference, is there a   *)
(* TCP connection, which timer runs, how often closeh told the owner.      *)
Unborn == [st |-> "NONE", alive |-> FALSE, ref |-> FALSE, tc |-> FALSE,
           tmr |-> "off", told |-> 0]

Init == /\ conn = [e \in Ends |-> Unborn]
        /\ wire = [e \in Ends |-> <<>>]
        /\ gone = {}

-----------------------------------------------------------------------------
(* The handlers compute the new connection c and the frames out it sends.  *)

St(c, out) == [c |-> c, out |-> out]

(* websock_vsend: only an open connection sends, and TCP may refuse.       *)
websock_vsend(s, f, ok) ==
  IF s.c.st = "OPEN" /\ ok THEN St(s.c, Append(s.out, f)) ELSE s

websock_close(s, ok) ==
  LET r == websock_vsend(s, "close", ok) IN
  IF r.out # s.out THEN St([r.c EXCEPT !.st = "CLOSING"], r.out) ELSE r

(* Dropping the TCP connection is seen by the other end.                   *)
DropTcp(s) ==
  St([s.c EXCEPT !.tc = FALSE], IF s.c.tc THEN Append(s.out, "fin") ELSE s.out)

Free(s) == LET r == DropTcp(s) IN
           St([r.c EXCEPT !.alive = FALSE, !.tmr = "off", !.ref = FALSE], r.out)

(* The last reference is gone: say goodbye, and live on while the answer   *)
(* is outstanding, at most for TIMEOUT_CLOSE.                              *)
conn_destructor_NoTimer(s, ok) ==
  LET r == IF s.c.st = "OPEN" THEN websock_close(s, ok) ELSE s IN
  IF r.c.st = "CLOSING"
  THEN St([r.c EXCEPT !.ref = FALSE], r.out)
  ELSE Free(r)
conn_destructor(s, ok) ==
  LET r == IF s.c.st = "OPEN" THEN websock_close(s, ok) ELSE s IN
  IF r.c.st = "CLOSING"
  THEN St([r.c EXCEPT !.ref = FALSE, !.tmr = "close"], r.out)
  ELSE Free(r)

Told(s) == St([s.c EXCEPT !.told = @ + 1], s.out)

(* The end: the owner is told and may let go in its handler; a connection  *)
(* that had outlived its owner is freed by internal_close_handler.         *)
conn_close_KeepsTcp(s, drop) ==
  LET r == St([s.c EXCEPT !.tmr = "off", !.st = "CLOSED"], s.out) IN
  CASE s.c.ref /\ ~drop -> Told(r)
    [] s.c.ref /\ drop  -> conn_destructor(Told(r), FALSE)
    [] OTHER            -> conn_destructor(r, FALSE)
conn_close(s, drop) ==
  LET r == DropTcp(St([s.c EXCEPT !.tmr = "off", !.st = "CLOSED"], s.out)) IN
  CASE s.c.ref /\ ~drop -> Told(r)
    [] s.c.ref /\ drop  -> conn_destructor(Told(r), FALSE)
    [] OTHER            -> conn_destructor(r, FALSE)

(* What an owner may do in its receive handler, in this order.             *)
Owner(s, acts, ok) ==
  LET a == IF "send" \in acts THEN websock_vsend(s, "data", ok) ELSE s IN
  IF "close" \in acts THEN websock_close(a, ok) ELSE a

(* A data frame: the owner's handler may drop the last reference, which is *)
(* noticed by the count; the state is forced to CLOSING so that the        *)
(* destructor keeps the connection for the rest of recv_handler.           *)
Data(s, acts, drop, ok) ==
  IF ~s.c.ref THEN s
  ELSE LET a == Owner(s, acts, ok)
           b == IF a.c.st = "OPEN" THEN websock_close(a, ok) ELSE a
       IN IF drop THEN conn_destructor(St([b.c EXCEPT !.st = "CLOSING"], b.out), ok) ELSE a

(* One frame of the loop of recv_handler.                                  *)
recv_handler(s, f, acts, drop, ok) ==
  CASE f = "data"  -> Data(s, acts, drop, ok)
    [] f = "ping"  -> websock_vsend(s, "pong", ok)
    [] f = "pong"  -> s
    [] f = "close" -> conn_close(websock_vsend(s, "close", ok), drop)
    [] f = "bad"   -> conn_close(websock_close(s, ok), drop)

-----------------------------------------------------------------------------
(* A handler has run at e: its frames go on the wire, unless the host is   *)
(* gone.  After "fin" nothing can follow.                                  *)
Put(e, s) == IF e \in gone \/ "fin" \in Range(wire[e]) THEN wire[e]
             ELSE wire[e] \o s.out
Room(e) == Len(wire[e]) + Len(wire[Peer(e)]) < MaxWire

websock_connect ==
  /\ conn["active"].st = "NONE"
  /\ conn' = [conn EXCEPT !["active"] =
                [Unborn EXCEPT !.st = "CONNECTING", !.alive = TRUE, !.ref = TRUE]]
  /\ UNCHANGED <<wire, gone>>

(* The server accepts, and its answer 101 goes before all it sends.        *)
websock_accept ==
  /\ conn["active"].st = "CONNECTING" /\ conn["passive"].st = "NONE"
  /\ conn["active"].alive /\ gone = {}
  /\ conn' = [conn EXCEPT !["passive"] =
                [Unborn EXCEPT !.st = "OPEN", !.alive = TRUE, !.ref = TRUE,
                               !.tc = TRUE, !.tmr = IF kaint THEN "ka" ELSE "off"]]
  /\ wire' = [wire EXCEPT !["passive"] = <<"101">>]
  /\ UNCHANGED gone

(* The owner of a connection that is not open yet may give it up; its      *)
(* request takes the TCP connection along.                                 *)
http_resp_handler ==
  /\ conn["active"].st = "CONNECTING" /\ conn["active"].alive
  /\ \/ /\ wire["passive"] # <<>> /\ Head(wire["passive"]) = "101"
        /\ conn' = [conn EXCEPT !["active"].st = "OPEN", !["active"].tc = TRUE,
                                !["active"].tmr = IF kaint THEN "ka" ELSE "off"]
        /\ wire' = [wire EXCEPT !["passive"] = Tail(@)]
     \/ \E drop \in BOOLEAN :
          LET s == conn_close(St(conn["active"], <<>>), drop) IN
          /\ conn' = [conn EXCEPT !["active"] = s.c]
          /\ wire' = [wire EXCEPT !["active"] = <<"fin">>]
  /\ UNCHANGED gone

Receive(e) ==
  /\ conn[e].tc /\ wire[Peer(e)] # <<>>
  /\ LET f == Head(wire[Peer(e)]) IN
     \E acts \in SUBSET {"send", "close"}, drop \in BOOLEAN, ok \in BOOLEAN :
       LET s == IF f = "fin" THEN conn_close(St(conn[e], <<>>), drop)
                ELSE recv_handler(St(conn[e], <<>>), f, acts, drop, ok)
       IN /\ ~Room(e) => acts = {}
          /\ conn' = [conn EXCEPT ![e] = s.c]
          /\ wire' = [wire EXCEPT ![Peer(e)] = Tail(@), ![e] = Put(e, s)]
  /\ UNCHANGED gone

(* TCP reports an error.                                                   *)
close_handler(e) ==
  /\ conn[e].tc
  /\ \E drop \in BOOLEAN :
       LET s == conn_close(St(conn[e], <<>>), drop) IN
       /\ conn' = [conn EXCEPT ![e] = s.c]
       /\ wire' = [wire EXCEPT ![e] = Put(e, s)]
  /\ UNCHANGED gone

(* The owner sends, closes, or drops its reference, outside any handler.   *)
Act(e, Op(_, _)) ==
  /\ conn[e].alive /\ conn[e].ref
  /\ \E ok \in BOOLEAN :
       LET s == Op(St(conn[e], <<>>), ok) IN
       /\ conn' = [conn EXCEPT ![e] = s.c]
       /\ wire' = [wire EXCEPT ![e] = IF conn[e].st = "CONNECTING" THEN <<"fin">>
                                      ELSE Put(e, s)]
  /\ UNCHANGED gone

websock_send(e) ==
  /\ conn[e].st = "OPEN" /\ Room(e)
  /\ Act(e, LAMBDA s, ok : websock_vsend(s, "data", ok))
Close(e) == conn[e].st = "OPEN" /\ Act(e, websock_close)
Drop(e) == Act(e, conn_destructor)

(* The keepalive timer starts itself again; nobody watches for the pong.   *)
keepalive_handler(e) ==
  /\ conn[e].tmr = "ka" /\ Room(e)
  /\ \E ok \in BOOLEAN :
       LET s == websock_vsend(St(conn[e], <<>>), "ping", ok) IN
       wire' = [wire EXCEPT ![e] = Put(e, s)]
  /\ UNCHANGED <<conn, gone>>

timeout_handler(e) ==
  /\ conn[e].tmr = "close"
  /\ LET s == conn_close(St(conn[e], <<>>), FALSE) IN
     /\ conn' = [conn EXCEPT ![e] = s.c]
     /\ wire' = [wire EXCEPT ![e] = Put(e, s)]
  /\ UNCHANGED gone

(* A frame with reserved bits or an unknown opcode.                        *)
BadFrame(e) ==
  /\ Foreign /\ conn[e].st = "OPEN" /\ conn[e].tc /\ Room(e)
  /\ wire' = [wire EXCEPT ![e] = Append(@, "bad")]
  /\ UNCHANGED <<conn, gone>>

Vanish(e) ==
  /\ Vanishing /\ gone = {} /\ conn[e].tc
  /\ gone' = {e}
  /\ conn' = [conn EXCEPT ![e] = [Unborn EXCEPT !.st = "CLOSED"]]
  /\ wire' = [wire EXCEPT ![e] = <<>>]

Done == (\A e \in Ends : ~conn[e].alive \/ conn[e].st = "CLOSED") /\ UNCHANGED vars

Next == \/ websock_connect \/ websock_accept \/ http_resp_handler \/ Done
        \/ \E e \in Ends : \/ Receive(e) \/ close_handler(e) \/ websock_send(e)
                           \/ Close(e) \/ Drop(e) \/ keepalive_handler(e)
                           \/ timeout_handler(e) \/ BadFrame(e) \/ Vanish(e)

Spec == Init /\ [][Next]_vars

(* Frames that are on the wire are read, the handshake gets an answer or   *)
(* fails, and timers run out.                                              *)
FairSpec == /\ Spec
            /\ WF_vars(http_resp_handler)
            /\ \A e \in Ends : WF_vars(Receive(e)) /\ WF_vars(timeout_handler(e))

-----------------------------------------------------------------------------
Frames == {"101", "data", "ping", "pong", "close", "bad", "fin"}

Conn == [st : {"NONE", "CONNECTING", "OPEN", "CLOSING", "CLOSED"},
         alive : BOOLEAN, ref : BOOLEAN, tc : BOOLEAN,
         tmr : {"off", "ka", "close"}, told : 0..1]

(* Types.                                                                  *)
TypeOK == conn \in [Ends -> Conn] /\ wire \in [Ends -> Seq(Frames)]

(* Nothing runs on a freed connection: no timer, no TCP handler; and one   *)
(* that has outlived its owner is closing and has the timer that ends it.  *)
NothingLeft ==
  \A e \in Ends :
    /\ ~conn[e].alive => conn[e].tmr = "off" /\ ~conn[e].tc /\ ~conn[e].ref
    /\ conn[e].alive /\ ~conn[e].ref => conn[e].st = "CLOSING" /\ conn[e].tmr = "close"

(* The close frame is the last frame of its end.                           *)
CloseLast(w) ==
  \A i \in 1..Len(w) : w[i] = "close" => \A j \in (i + 1)..Len(w) : w[j] = "fin"
CloseIsLast == \A e \in Ends : CloseLast(wire[e])

(* Nothing runs on a freed connection, one without owner has the timer     *)
(* that ends it, and close is the last frame (conn_destructor, conn_close, *)
(* websock_vsend).                                                         *)
SocketKept == TypeOK /\ NothingLeft /\ CloseIsLast

(* The owner is told of the end at most once, and not after it let go.     *)
ToldOnce ==
  \A e \in Ends : conn'[e].told # conn[e].told =>
    conn[e].told = 0 /\ conn[e].ref /\ ~conn'[e].tc

(* A connection without owner is freed, whatever the peer does.            *)
OrphanFreed == \A e \in Ends :
  (conn[e].alive /\ ~conn[e].ref) ~> ~conn[e].alive

(* A connection its owner has closed ends, as long as the peer's host is   *)
(* there to answer.                                                        *)
CloseEnds == \A e \in Ends :
  conn[e].st = "CLOSING" ~> (conn[e].st = "CLOSED" \/ ~conn[e].alive)
-----------------------------------------------------------------------------
(* The inductive invariant.  A connection with TCP is open or closing, so  *)
(* it was not told of its end; the answer 101 is read before TCP is handed *)
(* over; and an end that may still send has sent no close frame.          *)
ConnOk(c) ==
  /\ c.tc => c.st \in {"OPEN", "CLOSING"}
  /\ c.told = 1 => c.st = "CLOSED"
  /\ c.st = "CLOSED" => c.tmr = "off"
  /\ ~c.alive => c.tmr = "off" /\ ~c.tc /\ ~c.ref
  /\ c.alive /\ ~c.ref => c.st = "CLOSING" /\ c.tmr = "close"

Early == {"NONE", "CONNECTING", "OPEN"}

WireOk(e) ==
  /\ CloseLast(wire[e])
  /\ conn[e].st \in Early => \A i \in 1..Len(wire[e]) : wire[e][i] # "close"
  /\ \A i \in 1..Len(wire[e]) :
       wire[e][i] = "101" => e = "passive" /\ i = 1 /\ ~conn["active"].tc

(* Both ends and what each has on the wire are so at any time, whatever    *)
(* the owners, TCP and the timers do (conn_destructor, conn_close,         *)
(* recv_handler, websock_vsend).                                           *)
WsInv == TypeOK /\ \A e \in Ends : ConnOk(conn[e]) /\ WireOk(e)
=============================================================================
