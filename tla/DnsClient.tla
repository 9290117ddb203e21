------------------------------ MODULE DnsClient ------------------------------
(***************************************************************************)
(* The DNS client of libre (re/src/dns/client.c): queries over UDP, asked  *)
(* of one server after the other, and queries over TCP, which share a      *)
(* connection per server and move to the next server when it fails.  The   *)
(* user may cancel a query, or close the client, at any moment, and may    *)
(* cancel or start another query inside the handler of a query.            *)
(* Addresses, names and records are left out; a server answers, reports    *)
(* failure, or sends records that cannot be decoded.                       *)
(***************************************************************************)
EXTENDS Naturals, Sequences, SequencesExt

CONSTANTS Queries,   \* query objects of the user: 1..n
          Srvc,      \* number of servers
          NTX_MAX,   \* transmissions of a UDP query: 20 in the code
          InHandler  \* what the user may do inside a query handler

Servers == 1..Srvc

VARIABLES q,      \* the queries
          conn,   \* TCP connection to each server: none, connecting or up
          ql,     \* the queries on each connection, in order
          open,   \* the client exists
          refuse, \* servers to which a TCP connection cannot even be begun
          broken, \* connections on which the next send fails
          stray   \* connections on which an answer nobody waits for may come

vars == <<q, conn, ql, open, refuse, broken, stray>>

\* told: calls of the handler.  wrong: it was told that all servers failed
\* before all had been tried.  late: it was called after the user cancelled.
Idle == [state |-> "idle", proto |-> "udp", ntx |-> 0, tc |-> 0, soon |-> FALSE,
         qh |-> FALSE, told |-> 0, wrong |-> FALSE, late |-> FALSE]

World == [q |-> q, conn |-> conn, ql |-> ql, stray |-> stray, open |-> open]

Becomes(w) == /\ q' = w.q /\ conn' = w.conn /\ ql' = w.ql
              /\ stray' = w.stray /\ open' = w.open
              /\ UNCHANGED refuse
              /\ broken' = {s \in broken : w.conn[s] = "up"}

Init == /\ q = [i \in Queries |-> Idle]
        /\ conn = [s \in Servers |-> "none"]
        /\ ql = [s \in Servers |-> <<>>]
        /\ open = TRUE
        /\ refuse \in SUBSET Servers
        /\ broken = {}
        /\ stray = {}

-----------------------------------------------------------------------------

\* Mutant: the query stays on its connection.
query_abort_Stays(w, i) == [w EXCEPT !.q[i].state = "done", !.q[i].soon = FALSE]
\* Off the connection, no timer, not in the table; an answer may still come.
query_abort(w, i) ==
  LET s == w.q[i].tc
      v == [w EXCEPT !.q[i].state = "done", !.q[i].tc = 0, !.q[i].soon = FALSE]
  IN IF s = 0 THEN v ELSE [v EXCEPT !.ql[s] = Remove(@, i)]

\* mem_deref by the user, or by the client after the handler.
Cancelled(w, i) ==
  LET s == w.q[i].tc
      v == query_abort([w EXCEPT !.q[i].qh = FALSE], i)
  IN IF s = 0 THEN v ELSE [v EXCEPT !.stray = @ \cup {s}]

Tell(w, i) == IF ~w.q[i].qh THEN w
              ELSE [w EXCEPT !.q[i].told = @ + 1,
                             !.q[i].late = @ \/ w.q[i].state # "wait"]

\* query_close_handler for every query in the table, then the connections go.
dnsc_destructor(w) ==
  LET close(v, i) == IF v.q[i].state = "wait"
                     THEN query_abort([Tell(v, i) EXCEPT !.q[i].qh = FALSE], i) ELSE v
      v == FoldLeft(close, w, SetToSeq(Queries))
  IN [v EXCEPT !.open = FALSE, !.conn = [s \in Servers |-> "none"], !.stray = {}]

-----------------------------------------------------------------------------
(* TCP.  send_tcp takes the next server on whose connection the query can  *)
(* be put, opening one if need be; a connection that fails hands its       *)
(* queries on.  err is what send_tcp returns.                              *)

RECURSIVE send_tcp(_, _, _)
RECURSIVE tcpconn_close(_, _)

\* A query that cannot be sent is an error to the caller, who has no query then.
query(w, i, proto) ==
  LET v == [w EXCEPT !.q[i] = [Idle EXCEPT !.state = "wait", !.proto = proto, !.qh = TRUE,
                                           !.ntx = IF proto = "udp" THEN 1 ELSE 0]]
      r == send_tcp(v, i, 0)
  IN IF proto = "udp" THEN v
     ELSE IF r.err = 0 THEN r.w
     ELSE query_abort([r.w EXCEPT !.q[i].qh = FALSE], i)

\* The user's handler is called once, with the query still in the table.
\* u is what the user does in it, j the other query concerned.
query_handler(w, i, u, j) ==
  LET told == Tell(w, i)
      user == CASE u = "drop" /\ told.q[j].state = "wait" /\ i # j -> Cancelled(told, j)
                [] u \in {"again", "again_tcp"} /\ told.q[j].state = "idle" ->
                     query(told, j, IF u = "again" THEN "udp" ELSE "tcp")
                [] OTHER -> told
  IN query_abort([user EXCEPT !.q[i].qh = FALSE], i)

tcpconn_fail_handler(w, i) ==
  LET v == [w EXCEPT !.q[i].tc = 0]
      r == send_tcp(v, i, 0)
  IN IF v.q[i].ntx >= Srvc THEN query_handler(v, i, "nothing", i)
     ELSE IF r.err = 0 THEN r.w
     ELSE query_handler([r.w EXCEPT !.q[i].wrong = r.w.q[i].tc # 0], i, "nothing", i)

\* The connection is dead before its queries are moved.
tcpconn_close(w, s) ==
  LET v == [w EXCEPT !.conn[s] = "none", !.ql[s] = <<>>, !.stray = @ \ {s}]
  IN FoldLeft(tcpconn_fail_handler, v, w.ql[s])

\* err is kept from one server to the next and cleared only by tcpconn_alloc
\* and tcp_send.
send_tcp(w, i, err) ==
  LET s == w.q[i].ntx + 1
      v == [w EXCEPT !.q[i].ntx = s]
      found == w.conn[s] # "none"
      put(x, e) == [w |-> [x EXCEPT !.ql[s] = Append(@, i), !.q[i].tc = s], err |-> e]
  IN IF w.q[i].ntx >= Srvc THEN [w |-> w, err |-> err]
     ELSE IF ~found /\ s \in refuse THEN send_tcp(v, i, 1)
     ELSE IF ~found THEN put([v EXCEPT !.conn[s] = "connecting"], 0)
     ELSE IF w.conn[s] = "up" /\ s \in broken THEN send_tcp(tcpconn_close(v, s), i, 1)
     ELSE IF w.conn[s] = "up" THEN put(v, 0)
     ELSE put(v, err)

\* reply_recv on a TCP frame; an error of it closes the connection.
tcp_reply(w, s, i, kind, u, j) ==
  CASE kind = "answer" -> query_handler(w, i, u, j)
    [] kind = "failure" /\ w.q[i].ntx < Srvc -> tcpconn_close(w, s)
    [] kind = "failure" /\ w.q[i].ntx >= Srvc -> query_handler(w, i, u, j)
    [] OTHER -> LET v == query_handler(w, i, u, j) IN
                IF v.conn[s] = "none" THEN v ELSE tcpconn_close(v, s)

-----------------------------------------------------------------------------
(* UDP.                                                                    *)

udp_timeout_handler(w, i, u, j) ==
  IF w.q[i].ntx >= NTX_MAX THEN query_handler(w, i, u, j)
  ELSE [w EXCEPT !.q[i].ntx = @ + 1, !.q[i].soon = FALSE]

\* reply_recv on a datagram: a failing server is passed over at once until
\* each has been asked.
udp_reply(w, i, kind, u, j) ==
  IF kind = "failure" /\ w.q[i].ntx < Srvc THEN [w EXCEPT !.q[i].soon = TRUE]
  ELSE query_handler(w, i, u, j)

-----------------------------------------------------------------------------

Query(i) == /\ open /\ q[i].state = "idle"
            /\ \E proto \in {"udp", "tcp"} : Becomes(query(World, i, proto))

Cancel(i) == q[i].state = "wait" /\ Becomes(Cancelled(World, i))

Close == open /\ Becomes(dnsc_destructor(World))

User(u, j) == u \in InHandler /\ j \in Queries

UdpReply(i) == /\ q[i].state = "wait" /\ q[i].proto = "udp"
               /\ \E kind \in {"answer", "failure", "garbled"}, u \in InHandler, j \in Queries :
                    User(u, j) /\ Becomes(udp_reply(World, i, kind, u, j))

UdpTimeout(i) == /\ q[i].state = "wait" /\ q[i].proto = "udp"
                 /\ \E u \in InHandler, j \in Queries :
                      User(u, j) /\ Becomes(udp_timeout_handler(World, i, u, j))

\* No server can be sent to (send_udp).
UdpSendFails(i) == /\ q[i].state = "wait" /\ q[i].proto = "udp"
                   /\ \E u \in InHandler, j \in Queries :
                        User(u, j) /\ Becomes(query_handler(World, i, u, j))

\* The 60 seconds of a TCP query are over.
TcpTimeout(i) == /\ q[i].state = "wait" /\ q[i].proto = "tcp"
                 /\ \E u \in InHandler, j \in Queries :
                      /\ User(u, j)
                      /\ Becomes([query_handler(World, i, u, j) EXCEPT
                                    !.stray = IF q[i].tc = 0 THEN @ ELSE @ \cup {q[i].tc}])

TcpEstablished(s) == conn[s] = "connecting" /\ Becomes([World EXCEPT !.conn[s] = "up"])

TcpReply(s) == /\ conn[s] = "up"
               /\ \E i \in Queries, kind \in {"answer", "failure", "garbled"},
                     u \in InHandler, j \in Queries :
                    /\ q[i].tc = s /\ q[i].state = "wait" /\ User(u, j)
                    /\ Becomes(tcp_reply(World, s, i, kind, u, j))

\* An answer to a query that was cancelled or has timed out is an error.
TcpStray(s) == /\ conn[s] = "up" /\ s \in stray
               /\ Becomes(tcpconn_close(World, s))

\* Refused, reset, idle for too long or not connected in time.
TcpClosed(s) == conn[s] # "none" /\ Becomes(tcpconn_close(World, s))

Break(s) == /\ conn[s] = "up" /\ s \notin broken
            /\ broken' = broken \cup {s}
            /\ UNCHANGED <<q, conn, ql, open, refuse, stray>>

Next == \/ \E i \in Queries : \/ Query(i) \/ Cancel(i) \/ UdpReply(i) \/ UdpTimeout(i) \/ UdpSendFails(i)
                              \/ TcpTimeout(i)
        \/ \E s \in Servers : \/ TcpEstablished(s) \/ TcpReply(s) \/ TcpStray(s)
                              \/ TcpClosed(s) \/ Break(s)
        \/ Close

Spec == Init /\ [][Next]_vars

\* The timers of the queries run out.
FairSpec == Spec /\ \A i \in Queries : WF_vars(UdpTimeout(i)) /\ WF_vars(TcpTimeout(i))

-----------------------------------------------------------------------------

TypeOK == /\ \A i \in Queries : /\ q[i].state \in {"idle", "wait", "done"}
                                /\ q[i].ntx \in 0..(IF Srvc > NTX_MAX THEN Srvc ELSE NTX_MAX)
                                /\ q[i].tc \in 0..Srvc
          /\ \A s \in Servers : conn[s] \in {"none", "connecting", "up"}

(* The handler of a query is called at most once, and never once the user  *)
(* has let the query go (query_handler: "The handler must only be called   *)
(* _once_").                                                               *)
CalledOnce == \A i \in Queries : q[i].told <= 1 /\ ~q[i].late

(* A query and its connection know each other: a query on no connection is *)
(* in no list, one on a connection is there once, and the connection is    *)
(* alive, however connections fail while queries are moved (send_tcp,      *)
(* tcpconn_close, query_abort).                                            *)
ListsMatch ==
  \A s \in Servers :
    /\ \A i \in Queries :
         Len(SelectSeq(ql[s], LAMBDA x : x = i)) = IF q[i].tc = s THEN 1 ELSE 0
    /\ conn[s] = "none" => ql[s] = <<>>

(* A TCP query that waits is on a connection (send_tcp).                   *)
WaitsSomewhere == \A i \in Queries : (q[i].state = "wait" /\ q[i].proto = "tcp") => q[i].tc # 0

(* A query is told that "all servers failed, giving up" only when it is on *)
(* no connection to a further server (tcpconn_fail_handler, send_tcp).     *)
FailsOnlyAtTheEnd == \A i \in Queries : ~q[i].wrong

(* Every query ends, whatever the servers do (udp_timeout_handler,         *)
(* tcp_timeout_handler).                                                   *)
QueryEnds == \A i \in Queries : q[i].state = "wait" ~> q[i].state = "done"
=============================================================================
