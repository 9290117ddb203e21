----------------------------- MODULE HttpServer -----------------------------
(***************************************************************************)
(* The HTTP server of libre (re/src/http/server.c) below the demo's        *)
(* request handler: connections that receive requests in arbitrary         *)
(* segments, their timers, and the references to a connection, one of      *)
(* which the demo keeps in conn_pending for an answer that comes later.    *)
(*                                                                         *)
(* A client sends the requests of its script.  A request is a number of    *)
(* cells, the last of which completes it, and it is answered at once       *)
(* ("sync"), later ("async": POST /sdp), or not at all ("mute": GET /start *)
(* and GET /stop); a "bad" one does not parse.                             *)
(***************************************************************************)
EXTENDS Integers, FiniteSets, SequencesExt

CONSTANTS Conns,      \* connections, each used once
          Scripts,    \* the sequences of requests a client may send
          BufMax,     \* BUFSIZE_MAX, in cells
          Pipelined   \* clients send without waiting for answers

VARIABLES conn,     \* conn[c]: struct http_conn and its peer
          pending,  \* conn_pending
          posted,   \* the sessions that posted a description, in order
          up        \* the listening socket exists

vars == <<conn, pending, posted, up>>

None == "none"

(* tc: the TCP connection exists; refs: references to the object; tmr: the *)
(* timer runs.  sent and got count cells; mb are the cells received and    *)
(* not yet consumed, as pairs <<request, is last>>.  done is the last      *)
(* request given to the handler; replies are the answers the client got,   *)
(* each as <<connection, request>> of the request that it answers.         *)
Idle == [used |-> FALSE, tc |-> FALSE, refs |-> 0, tmr |-> FALSE, script |-> <<>>,
         got |-> 0, mb |-> <<>>, done |-> 0, replies |-> <<>>]

Init == /\ conn = [c \in Conns |-> Idle]
        /\ pending = None /\ posted = <<>> /\ up = TRUE

(* The cells of a script, in order.                                        *)
Cells(script) ==
  FoldLeft(LAMBDA acc, i : acc \o [j \in 1..script[i].len |-> <<i, j = script[i].len>>],
           <<>>, [i \in 1..Len(script) |-> i])

(***************************************************************************)
(* Handlers work on the state s = [conn, pending, posted].                 *)
(***************************************************************************)
Deref(s, c) == IF c = None THEN s ELSE [s EXCEPT !.conn[c].refs = @ - 1]

(* conn_close and mem_deref.                                               *)
Close(s, c) ==
  Deref([s EXCEPT !.conn[c].tc = FALSE, !.conn[c].tmr = FALSE, !.conn[c].mb = <<>>], c)

(* The answer to the request q goes out on c, if that is still open.       *)
http_reply(s, c, q) ==
  IF s.conn[c].tc THEN [s EXCEPT !.conn[c].replies = Append(@, q)] ELSE s

(* Faulty variant: a connection that waits already is not replaced.        *)
Await_KeepsFirst(s, c, i) ==
  LET t == [s EXCEPT !.posted = Append(@, [req |-> <<c, i>>, gathering |-> TRUE])]
  IN  IF s.pending # None THEN t
      ELSE [t EXCEPT !.pending = c, !.conn[c].refs = @ + 1]

(* POST /sdp: the session begins to gather, and the connection takes the   *)
(* place of the one that waits in conn_pending.                            *)
Await(s, c, i) ==
  [Deref(s, s.pending) EXCEPT !.pending = c, !.conn[c].refs = @ + 1,
     !.posted = Append(@, [req |-> <<c, i>>, gathering |-> TRUE])]

(* The demo's request handler, by what it does with the connection.        *)
http_req_handler(s, c, i) ==
  LET kind == s.conn[c].script[i].kind
  IN  CASE kind = "sync" -> http_reply(s, c, <<c, i>>)
        [] kind = "async" -> Await(s, c, i)
        [] OTHER -> s

(* One request of the buffer: parsed, given to the handler, and the timer  *)
(* started again.  What does not parse closes the connection.              *)
Consume(s, c, i) ==
  IF ~s.conn[c].tc THEN s
  ELSE IF s.conn[c].script[i].kind = "bad" THEN Close(s, c)
  ELSE [http_req_handler([s EXCEPT !.conn[c].done = i], c, i) EXCEPT !.conn[c].tmr = TRUE]

(* The requests that the buffer completes.                                 *)
Complete(mb) == SelectSeq(mb, LAMBDA x : x[2])

(* What stays: the cells after the last completed request.                 *)
Rest(mb) == SubSeq(mb, SelectLastInSeq(mb, LAMBDA x : x[2]) + 1, Len(mb))

Becomes(s) == /\ conn' = s.conn /\ pending' = s.pending /\ posted' = s.posted
              /\ UNCHANGED up
State == [conn |-> conn, pending |-> pending, posted |-> posted]

(* k cells arrive.  A client that waits has an answer for each request.    *)
recv_handler(c, k) ==
  LET all == Cells(conn[c].script)
      chunk == SubSeq(all, conn[c].got + 1, conn[c].got + k)
      mb == conn[c].mb \o chunk
      s == [State EXCEPT !.conn[c].got = @ + k, !.conn[c].mb = Rest(mb)]
      asked == conn[c].mb = <<>> => Len(conn[c].replies) >= conn[c].done
      alone == \A i \in 1..(k - 1) : ~chunk[i][2]
  IN  /\ conn[c].tc /\ conn[c].got + k <= Len(all)
      /\ ~Pipelined => asked /\ alone
      /\ IF conn[c].mb # <<>> /\ Len(mb) > BufMax
         THEN Becomes(Close(s, c))
         ELSE Becomes(FoldLeft(LAMBDA t, x : Consume(t, c, x[1]), s, Complete(mb)))

connect_handler(c, script) ==
  /\ up /\ ~conn[c].used
  /\ conn' = [conn EXCEPT ![c] = [Idle EXCEPT !.used = TRUE, !.tc = TRUE, !.refs = 1,
                                              !.tmr = TRUE, !.script = script]]
  /\ UNCHANGED <<pending, posted, up>>

close_handler(c) == conn[c].tc /\ Becomes(Close(State, c))

timeout_handler(c) == conn[c].tmr /\ Becomes(Close(State, c))

(***************************************************************************)
(* The gather callback of the session posted[n]: its description goes to   *)
(* conn_pending, whoever waits there by now, and conn_pending is kept.  No *)
(* description comes when gathering fails or the session ends first.       *)
(***************************************************************************)
Gathered(n) == [State EXCEPT !.posted[n].gathering = FALSE]

Answer(n) ==
  /\ posted[n].gathering
  /\ Becomes(http_reply(Gathered(n), pending, posted[n].req))

NoAnswer(n) == posted[n].gathering /\ Becomes(Gathered(n))

(* barertcdemo_close and sock_destructor.                                  *)
Shutdown ==
  /\ up /\ up' = FALSE
  /\ posted' = [n \in DOMAIN posted |-> [posted[n] EXCEPT !.gathering = FALSE]]
  /\ LET s == [Deref(State, pending) EXCEPT !.pending = None]
         t == FoldSet(LAMBDA c, acc : IF acc.conn[c].tc THEN Close(acc, c) ELSE acc, s, Conns)
     IN  conn' = t.conn /\ pending' = t.pending

Resting == ~up /\ UNCHANGED vars

Next ==
  \/ \E c \in Conns : \/ \E s \in Scripts : connect_handler(c, s)
                      \/ \E k \in 1..3 : recv_handler(c, k)
                      \/ close_handler(c) \/ timeout_handler(c)
  \/ \E n \in DOMAIN posted : Answer(n) \/ NoAnswer(n)
  \/ Shutdown \/ Resting

Spec == Init /\ [][Next]_vars

(* Timers fire.                                                            *)
FairSpec == Spec /\ \A c \in Conns : WF_vars(timeout_handler(c))

(***************************************************************************)
(* Properties.                                                             *)
(***************************************************************************)
TypeOK ==
  /\ pending \in Conns \cup {None} /\ up \in BOOLEAN
  /\ \A c \in Conns : conn[c].refs \in 0..2 /\ conn[c].done \in 0..Len(conn[c].script)

(* However the stream is cut into segments, the handler has seen exactly   *)
(* the requests completed so far, each once and in order, and the buffer   *)
(* holds the beginning of the next one and no more than it may.            *)
EveryRequestSeen ==
  \A c \in Conns : conn[c].tc =>
    LET cells == Cells(conn[c].script)
        ends == {i \in 1..conn[c].got : cells[i][2]}
    IN  /\ conn[c].done = Cardinality(ends)
        /\ conn[c].mb = SubSeq(cells, Max(ends \cup {0}) + 1, conn[c].got)

(* A connection object is held by the server's list while it is open and   *)
(* by conn_pending; nobody holds one that is gone, and its timer is off.   *)
HeldWhileUsed ==
  \A c \in Conns :
    /\ conn[c].refs = (IF conn[c].tc THEN 1 ELSE 0) + (IF pending = c THEN 1 ELSE 0)
    /\ conn[c].tmr => conn[c].tc

(* The session that posted for the request q, and whether the connection c *)
(* posted after it.                                                        *)
PostedBefore(q, c) ==
  \E m, n \in DOMAIN posted : m < n /\ posted[m].req = q /\ posted[n].req[1] = c

(* The descriptions of all sessions go through one conn_pending.  For      *)
(* clients that wait for each answer it is still true that no description  *)
(* is sent twice, and that the answers on a connection are its own and in  *)
(* order until the first that is not: the description of a session that    *)
(* posted earlier on another connection and was still gathering when this  *)
(* one posted (peerconnection_gather_handler, reply_descr).                *)
AnswersInOrder ==
  /\ \A c, d \in Conns : \A k \in DOMAIN conn[c].replies, l \in DOMAIN conn[d].replies :
       conn[c].replies[k] = conn[d].replies[l] => <<c, k>> = <<d, l>>
  /\ \A c \in Conns : \A k \in DOMAIN conn[c].replies :
       \/ conn[c].replies[k] = <<c, k>>
       \/ \E j \in 1..k : /\ conn[c].replies[j][1] # c
                         /\ PostedBefore(conn[c].replies[j], c)

(* GET /start and GET /stop send no answer, and the description that a     *)
(* client waits for goes elsewhere when another session has posted since.  *)
(* The client does not wait for ever: the server closes the connection.    *)
AnsweredOrClosed ==
  \A c \in Conns : conn[c].done > Len(conn[c].replies)
                     ~> (conn[c].done <= Len(conn[c].replies) \/ ~conn[c].tc)
=============================================================================
