------------------------------ MODULE SipTrans ------------------------------
(***************************************************************************)
(* One SIP request of libre, from the request object (sip/request.c) over  *)
(* the client transactions (sip/ctrans.c) to the server transactions of    *)
(* the servers it may be sent to (sip/strans.c).  Over UDP packets are     *)
(* lost, repeated and reordered within a tick; over TCP a connection may   *)
(* fail.  Time is in units of T1.  The owner of the request may cancel or  *)
(* release it, and may close the stack, at any moment; the user of each    *)
(* server answers as it likes.                                             *)
(***************************************************************************)
EXTENDS Integers, FiniteSets, SequencesExt

CONSTANTS Method,     \* "INVITE", or another method
          Targets,    \* the hosts to try in order (SRV), each a sequence of addresses
          MayFail,    \* what may be out of reach: addresses, and the Resolver
          Reliable,   \* TCP
          T2, T4, T64,\* timers of the protocol: 8, 10 and 64 in the code
          CompleteWait \* how long a rejected INVITE is remembered: 64

Srv  == UNION {Range(Targets[t]) : t \in DOMAIN Targets}
Mets == {Method, "CANCEL"}
Off  == -1

VARIABLES req,   \* the request object and what its owner was told
          ct,    \* client transactions, by server and method
          st,    \* server transactions
          net,   \* packets under way
          seen   \* times a server's user was given the request

vars == <<req, ct, st, net, seen>>

NoCt == [state |-> "none", tmr |-> Off, tmre |-> Off, txc |-> 0]
NoSt == [state |-> "none", tmr |-> Off, tmrg |-> Off, txc |-> 0, mb |-> 0]

\* Status codes: 180, 200, 487, 486 and 503; 0 is an error without a response.
Final == {200, 486, 487, 503}

(* The state, and what cannot be sent to during a step: servers, or the    *)
(* resolver.  Sending to them fails at once, with an error.                *)
World(fails) ==
  [req |-> req, ct |-> ct, st |-> st, net |-> net, seen |-> seen, fails |-> fails]

Resolver == 0
Failures == SUBSET MayFail

Becomes(w) == /\ req' = w.req /\ ct' = w.ct /\ st' = w.st
              /\ net' = w.net /\ seen' = w.seen

ToServer(w, i, met) ==
  IF i \in w.fails THEN w
  ELSE [w EXCEPT !.net = @ \cup {[to |-> "server", i |-> i, met |-> met]}]
ToClient(w, i, met, c) ==
  [w EXCEPT !.net = @ \cup {[to |-> "client", i |-> i, met |-> met, scode |-> c]}]

-----------------------------------------------------------------------------
(* Client transactions.                                                    *)

\* The request goes out; tmr bounds the transaction, tmre repeats the request.
\* There is no transaction for one that cannot be sent.
sip_ctrans_request(w, i, met) ==
  IF i \in w.fails THEN w
  ELSE ToServer([w EXCEPT !.ct[i, met] =
                   [state |-> IF met = "INVITE" THEN "CALLING" ELSE "TRYING",
                    tmr   |-> T64,
                    tmre  |-> IF Reliable THEN Off ELSE 1,
                    txc   |-> 0]], i, met)

\* Mutant: a cancelled INVITE keeps waiting without a timer.
sip_ctrans_cancel_NoTimer(w, i) ==
  IF Method # "INVITE" \/ w.ct[i, Method].state # "PROCEEDING" THEN w
  ELSE sip_ctrans_request(w, i, "CANCEL")
sip_ctrans_cancel(w, i) ==
  IF Method # "INVITE" \/ w.ct[i, Method].state # "PROCEEDING" THEN w
  ELSE sip_ctrans_request([w EXCEPT !.ct[i, Method].tmr = T64], i, "CANCEL")

FreeCt(w, i, met) == [w EXCEPT !.ct[i, met] = NoCt]

-----------------------------------------------------------------------------
(* The request object.  resph: the owner's handler is still set.  told     *)
(* counts the outcomes reported, late records a call out of place; when is *)
(* the phase in which the request was cancelled, and after counts the      *)
(* servers asked since.  todo are the addresses (addrl) and then the hosts *)
(* (srvl) still to try: a host whose addresses are in cachel stands there  *)
(* as these addresses, any other as the look-up that it needs.             *)

resph(w, final) ==
  IF ~w.req.resph THEN w
  ELSE [w EXCEPT !.req.told = IF final THEN @ + 1 ELSE @,
                 !.req.late = @ \/ w.req.released \/ w.req.told > 0]

terminate(w) ==
  [resph(w, TRUE) EXCEPT !.req.phase = "done", !.req.resph = FALSE]

Ask(i)  == [look |-> FALSE, n |-> i]
Look(h) == [look |-> TRUE, n |-> h]

Addresses(h) == [k \in DOMAIN Targets[h] |-> Ask(Targets[h][k])]

\* One address after the other is tried until the request goes out to one, or
\* until a host must be looked up first.  Nothing here looks at canceled.  When
\* nothing is left every caller terminates the request.
request_next(w) ==
  LET todo == w.req.todo
      n == SelectInSeq(todo, LAMBDA x : x.look \/ x.n \notin w.fails)
      v == [w EXCEPT !.req.todo = SubSeq(todo, n + 1, Len(todo)),
                     !.req.provrecv = @ /\ todo[1].look]
  IN IF n = 0 \/ (todo[n].look /\ Resolver \in w.fails) THEN terminate(w)
     ELSE IF todo[n].look THEN [v EXCEPT !.req.phase = "lookup", !.req.cur = todo[n].n]
     ELSE sip_ctrans_request([v EXCEPT !.req.phase = "asked", !.req.cur = todo[n].n,
                                       !.req.after = IF w.req.canceled THEN @ + 1 ELSE @],
                             todo[n].n, Method)

provisional(w) ==
  LET v == [w EXCEPT !.req.provrecv = TRUE] IN
  resph(IF ~w.req.provrecv /\ w.req.canceled
        THEN sip_ctrans_cancel(v, w.req.cur) ELSE v, FALSE)

\* A call for a request that is gone would use freed memory.
\* Mutant: a cancelled request goes on to the next server.
response_handler_Anyway(w, c) ==
  IF w.req.phase = "done" THEN [w EXCEPT !.req.late = TRUE]
  ELSE IF c = 180 THEN provisional(w)
  ELSE IF c \in {0, 503} /\ w.req.todo # <<>> THEN request_next(w)
  ELSE terminate(w)
response_handler(w, c) ==
  IF w.req.phase = "done" THEN [w EXCEPT !.req.late = TRUE]
  ELSE IF c = 180 THEN provisional(w)
  ELSE IF ~w.req.canceled /\ c \in {0, 503} /\ w.req.todo # <<>> THEN request_next(w)
  ELSE terminate(w)

\* What a client transaction tells its user; a CANCEL has none.
Tell(w, met, c) == IF met = "CANCEL" THEN w ELSE response_handler(w, c)

\* terminate of ctrans.c: only a transaction that has no answer reports one.
terminate_ct(w, i, met) ==
  LET v == IF w.ct[i, met].state \in {"TRYING", "CALLING", "PROCEEDING"}
           THEN Tell(w, met, 0) ELSE w
  IN FreeCt(v, i, met)

Ack(w, i) == ToServer(w, i, "ACK")

invite_response(w, i, c) ==
  LET s == w.ct[i, Method].state
      v == [w EXCEPT !.ct[i, Method].tmr = IF s = "CALLING" THEN Off ELSE @,
                     !.ct[i, Method].tmre = IF s = "CALLING" THEN Off ELSE @]
      done == response_handler(Ack([v EXCEPT !.ct[i, Method].state = "COMPLETED"], i), c)
  IN CASE s \in {"CALLING", "PROCEEDING"} /\ c = 180 ->
            response_handler([v EXCEPT !.ct[i, Method].state = "PROCEEDING"], 180)
       [] s \in {"CALLING", "PROCEEDING"} /\ c = 200 ->
            FreeCt(response_handler(v, c), i, Method)
       [] s \in {"CALLING", "PROCEEDING"} /\ c \notin {180, 200} ->
            IF Reliable THEN FreeCt(done, i, Method)
            ELSE [done EXCEPT !.ct[i, Method].tmr = CompleteWait]
       [] s = "COMPLETED" /\ c \notin {180, 200} -> Ack(v, i)
       [] OTHER -> v

\* Every other method; T4 absorbs repeated answers.
noninvite_response(w, i, met, c) ==
  LET s == w.ct[i, met].state
      done == Tell([w EXCEPT !.ct[i, met].state = "COMPLETED"], met, c)
  IN IF s \notin {"TRYING", "PROCEEDING"} THEN w
     ELSE IF c = 180 THEN Tell([w EXCEPT !.ct[i, met].state = "PROCEEDING"], met, 180)
     ELSE IF Reliable THEN FreeCt(done, i, met)
     ELSE [done EXCEPT !.ct[i, met].tmr = T4, !.ct[i, met].tmre = Off]

\* A response without a transaction goes to the other listeners.
ctrans_response(w, i, met, c) ==
  IF w.ct[i, met].state = "none"
  THEN [w EXCEPT !.req.stray = @ \/ (met = "INVITE" /\ c \notin {180, 200}
                                     /\ i \in w.req.rejected)]
  ELSE LET v == IF c \in Final /\ c # 200 /\ met = "INVITE"
                THEN [w EXCEPT !.req.rejected = @ \cup {i}] ELSE w
       IN IF met = "INVITE" THEN invite_response(v, i, c)
          ELSE noninvite_response(v, i, met, c)

Pow2(n) == 2 ^ n
Least(a, b) == IF a < b THEN a ELSE b

\* A repetition that cannot be sent ends the transaction.
retransmit_handler(w, i, met) ==
  LET t == w.ct[i, met]
      n == t.txc + 1
      wait == CASE t.state = "TRYING" -> Least(Pow2(n), T2)
                [] t.state = "CALLING" -> Pow2(n)
                [] OTHER -> T2
  IN IF t.state = "COMPLETED" THEN [w EXCEPT !.ct[i, met].tmre = Off]
     ELSE IF i \in w.fails THEN terminate_ct(w, i, met)
     ELSE ToServer([w EXCEPT !.ct[i, met].txc = IF n < 8 THEN n ELSE 8,
                             !.ct[i, met].tmre = wait], i, met)

-----------------------------------------------------------------------------
(* Server transactions.                                                    *)

\* sip_strans_reply; mb is the response to repeat.
sip_strans_reply(w, i, c) ==
  LET v == ToClient([w EXCEPT !.st[i].mb = c], i, Method, c)
      Wait(state, tmrg) == [v EXCEPT !.st[i].state = state, !.st[i].tmr = T64,
                                     !.st[i].tmrg = tmrg]
  IN CASE c = 180 -> [v EXCEPT !.st[i].state = "PROCEEDING"]
       [] c = 200 /\ Method = "INVITE" -> Wait("ACCEPTED", Off)
       [] c > 200 /\ Method = "INVITE" -> Wait("COMPLETED", IF Reliable THEN Off ELSE 1)
       [] OTHER -> IF Reliable THEN [v EXCEPT !.st[i] = NoSt] ELSE Wait("COMPLETED", Off)

strans_retransmit(w, i) ==
  LET n == w.st[i].txc + 1 IN
  ToClient([w EXCEPT !.st[i].txc = IF n < 8 THEN n ELSE 8,
                     !.st[i].tmrg = Least(Pow2(n), T2)], i, Method, w.st[i].mb)

ack_handler(w, i) ==
  IF w.st[i].state # "COMPLETED" THEN w
  ELSE IF Reliable THEN [w EXCEPT !.st[i] = NoSt]
  ELSE [w EXCEPT !.st[i].state = "CONFIRMED", !.st[i].tmr = T4, !.st[i].tmrg = Off]

\* Answered without a transaction; the user's cancel handler rejects the INVITE.
cancel_handler(w, i) ==
  IF w.st[i].state = "none" THEN ToClient(w, i, "CANCEL", 486)
  ELSE LET v == ToClient(w, i, "CANCEL", 200) IN
       IF w.st[i].state \in {"TRYING", "PROCEEDING"} THEN sip_strans_reply(v, i, 487) ELSE v

\* A repeated request is answered from the transaction; a new one goes to the
\* user, who keeps an INVITE and answers another method at once with c.
request_handler(w, i, met, c) ==
  CASE met = "ACK" -> ack_handler(w, i)
    [] met = "CANCEL" -> cancel_handler(w, i)
    [] met = Method /\ w.st[i].state \in {"PROCEEDING", "COMPLETED"} ->
         ToClient(w, i, met, w.st[i].mb)
    [] met = Method /\ w.st[i].state = "none" ->
         LET v == [w EXCEPT !.st[i].state = "TRYING", !.seen[i] = @ + 1] IN
         IF Method = "INVITE" THEN v ELSE sip_strans_reply(v, i, c)
    [] OTHER -> w

-----------------------------------------------------------------------------

Init ==
  /\ req = [phase |-> "dns", todo |-> <<>>, cur |-> 0,
            canceled |-> FALSE, provrecv |-> FALSE, resph |-> TRUE,
            told |-> 0, late |-> FALSE, released |-> FALSE, when |-> "never",
            after |-> 0, rejected |-> {}, stray |-> FALSE]
  /\ ct = [k \in Srv \X Mets |-> NoCt]
  /\ st = [i \in Srv |-> NoSt]
  /\ net = {}
  /\ seen = [i \in Srv |-> 0]

\* The hosts are known, with the addresses of some of them, or the look-up failed.
Resolved ==
  /\ req.phase = "dns"
  /\ \/ Becomes(terminate(World({})))
     \/ \E cachel \in SUBSET DOMAIN Targets, fails \in Failures :
          LET Known(h) == IF h \in cachel THEN Addresses(h) ELSE <<Look(h)>> IN
          Becomes(request_next([World(fails) EXCEPT !.req.todo =
                                  FlattenSeq([h \in DOMAIN Targets |-> Known(h)])]))

\* The addresses of the host asked for have come, or none has.
addr_handler ==
  /\ req.phase = "lookup"
  /\ \E addrl \in {<<>>, Addresses(req.cur)}, fails \in Failures :
       Becomes(request_next([World(fails) EXCEPT !.req.todo = addrl \o @]))

sip_request_cancel(w) ==
  IF w.req.canceled THEN w
  ELSE LET v == [w EXCEPT !.req.canceled = TRUE, !.req.when = w.req.phase] IN
       IF v.req.provrecv /\ v.req.phase = "asked" THEN sip_ctrans_cancel(v, v.req.cur) ELSE v

Cancel == /\ req.phase # "done" /\ ~req.released /\ ~req.canceled
          /\ \E fails \in Failures : Becomes(sip_request_cancel(World(fails)))

\* destructor: the owner lets go before the end; the request lives on, cancelled.
Release == /\ req.phase # "done" /\ ~req.released
           /\ \E fails \in Failures :
                Becomes(sip_request_cancel([World(fails) EXCEPT !.req.released = TRUE,
                                                                !.req.resph = FALSE]))

\* sip_request_close and the destructor of the stack.
CloseStack == /\ req.phase # "done"
              /\ Becomes([terminate(World({})) EXCEPT !.ct = [k \in Srv \X Mets |-> NoCt]])

\* UDP may deliver a packet again.
Taken(p, fails) ==
  {[World(fails) EXCEPT !.net = @ \ {p}]} \cup (IF Reliable THEN {} ELSE {World(fails)})

ReceiveResponse ==
  \E p \in net, fails \in Failures :
    /\ p.to = "client"
    /\ \E w \in Taken(p, fails) : Becomes(ctrans_response(w, p.i, p.met, p.scode))

ReceiveRequest ==
  \E p \in net, c \in {200, 486, 503} :
    /\ p.to = "server" /\ (Method = "INVITE" => c = 200)
    /\ \E w \in Taken(p, {}) : Becomes(request_handler(w, p.i, p.met, c))

\* The user of a server rings, accepts, rejects or is overloaded.
Answer(i) == /\ Method = "INVITE" /\ st[i].state \in {"TRYING", "PROCEEDING"}
             /\ \E c \in {180, 200, 486, 503} :
                  /\ c = 180 => st[i].state = "TRYING"
                  /\ Becomes(sip_strans_reply(World({}), i, c))

\* The connection a request waits for cannot be made (transport_handler).
ConnFail ==
  /\ Reliable
  /\ \E p \in net, fails \in Failures :
       /\ p.to = "server" /\ p.met # "ACK" /\ ct[p.i, p.met].state # "none"
       /\ Becomes(terminate_ct([World(fails) EXCEPT !.net = @ \ {p}], p.i, p.met))

CtTimer == \E k \in Srv \X Mets, fails \in Failures :
             ct[k].tmr = 0 /\ Becomes(terminate_ct(World(fails), k[1], k[2]))
CtRetransmit == \E k \in Srv \X Mets, fails \in Failures :
                  ct[k].tmre = 0 /\ Becomes(retransmit_handler(World(fails), k[1], k[2]))
StTimer == \E i \in Srv : st[i].tmr = 0 /\ Becomes([World({}) EXCEPT !.st[i] = NoSt])
StRetransmit == \E i \in Srv : st[i].tmrg = 0 /\ Becomes(strans_retransmit(World({}), i))

Due == \/ \E k \in Srv \X Mets : ct[k].tmr = 0 \/ ct[k].tmre = 0
       \/ \E i \in Srv : st[i].tmr = 0 \/ st[i].tmrg = 0

Down(t) == IF t > 0 THEN t - 1 ELSE t

\* Time passes once every timer due has fired; what UDP still carries is lost.
Tick == /\ ~Due
        /\ Reliable => net = {}
        /\ net' = {}
        /\ ct' = [k \in DOMAIN ct |-> [ct[k] EXCEPT !.tmr = Down(@), !.tmre = Down(@)]]
        /\ st' = [i \in Srv |-> [st[i] EXCEPT !.tmr = Down(@), !.tmrg = Down(@)]]
        /\ UNCHANGED <<req, seen>>

Next == \/ Resolved \/ addr_handler \/ Cancel \/ Release \/ CloseStack
        \/ ReceiveResponse \/ ReceiveRequest \/ (\E i \in Srv : Answer(i)) \/ ConnFail
        \/ CtTimer \/ CtRetransmit \/ StTimer \/ StRetransmit \/ Tick

Spec == Init /\ [][Next]_vars

(* The loop runs: names are resolved or not, timers fire, time passes.     *)
FairSpec == /\ Spec
            /\ WF_vars(Resolved) /\ WF_vars(addr_handler)
            /\ WF_vars(CtTimer) /\ WF_vars(CtRetransmit)
            /\ WF_vars(StTimer) /\ WF_vars(StRetransmit) /\ SF_vars(Tick)

-----------------------------------------------------------------------------

TypeOK ==
  /\ req.phase \in {"dns", "lookup", "asked", "done"}
  /\ \A k \in Srv \X Mets :
       /\ ct[k].state \in {"none", "TRYING", "CALLING", "PROCEEDING", "COMPLETED"}
       /\ ct[k].tmr <= T64 \/ ct[k].tmr <= CompleteWait
  /\ \A i \in Srv :
       st[i].state \in {"none", "TRYING", "PROCEEDING", "ACCEPTED", "COMPLETED", "CONFIRMED"}

(* The owner learns one outcome, and nothing after it or after letting go; *)
(* no transaction calls back into a request that is gone (terminate,       *)
(* destructor and response_handler of request.c, terminate of ctrans.c).   *)
ToldOnce == req.told <= 1 /\ ~req.late

(* A request that has not been released does not vanish untold.            *)
NotForgotten == (req.phase = "done" /\ ~req.released) => req.told = 1

(* A live request has somebody who will end it: the resolver, a client     *)
(* transaction with a timer, or a ringing server (which may ring for ever, *)
(* but not once the request is cancelled and the server has rung).         *)
SomebodyWaits ==
  req.phase = "asked" =>
    LET t == ct[req.cur, Method] IN
    /\ t.state \in {"TRYING", "CALLING", "PROCEEDING"}
    /\ (t.tmr = Off) => /\ Method = "INVITE" /\ t.state = "PROCEEDING"
                        /\ ~req.canceled

(* A request cancelled while a server is asked asks no further one.  One   *)
(* cancelled while a name is looked up is sent to one server all the same, *)
(* and to no second one (response_handler, addr_handler and request_next   *)
(* of request.c).                                                          *)
CancelStops == req.after <= (IF req.when = "asked" THEN 0 ELSE 1)

(* Each server's user gets the request once, however often it was repeated *)
(* (request_handler and the timers of strans.c).                           *)
SeenOnce == \A i \in Srv : seen[i] <= 1

(* While a server repeats its rejection the client still acknowledges it:  *)
(* the rejection never reaches a client that has forgotten it (COMPLETED   *)
(* of ctrans.c outlives COMPLETED of strans.c).                            *)
RejectionAbsorbed == ~req.stray

(* A cancelled or released request ends.                                   *)
CancelEnds == req.canceled ~> req.phase = "done"

(* A request of another method than INVITE ends.                           *)
OtherEnds == Method # "INVITE" => <>(req.phase = "done")
=============================================================================
