-------------------------------- MODULE Stun --------------------------------
(***************************************************************************)
(* A STUN client transaction over UDP (ctrans.c of libre) and the          *)
(* keepalive session that uses it (keepalive.c), over a network that       *)
(* loses, delays, repeats and reorders datagrams, behind a NAT whose       *)
(* mapping changes.                                                        *)
(*                                                                         *)
(* Time is counted in units of the first retransmission interval; a timer  *)
(* that is due runs before more time passes, as it does in the event loop. *)
(***************************************************************************)
EXTENDS Integers, FiniteSets

None == "none"

CONSTANTS Rto, Rc, Rm,   \* struct stun_conf: interval, transmissions, last wait
          Interval,      \* the refresh interval of the session
          Maps,          \* mapped addresses the NAT may give
          Tids,          \* transaction ids (96 random bits in the code)
          MaxErr,        \* bound: retransmissions that fail, and error answers
          MaxOdd,        \* bound: first transmissions that fail, and answers
                         \*        without an address
          MaxLoss,       \* bound: datagrams lost
          MaxMove,       \* bound: changes of the mapping
          MaxEnable      \* bound: calls of stun_keepalive_enable

ASSUME StunAssumption ==
  /\ Rto \in Nat \ {0} /\ Rc \in Nat \ {0} /\ Rm \in Nat \ {0}
  /\ Interval \in Nat \ {0} /\ 0 \notin Tids /\ MaxErr \in Nat /\ MaxOdd \in Nat
  /\ MaxLoss \in Nat /\ MaxMove \in Nat /\ MaxEnable \in Nat
  /\ None \notin Maps /\ "error" \notin Maps

VARIABLES
  ct,        \* ska->ct: the pending transaction, or NoCt
  tmr,       \* ms left of ska->tmr, Off if it is not running
  interval,  \* ska->interval
  curmap,    \* ska->curmap, None if it is not set
  alive,     \* the session exists
  told,      \* what the mapped address handler was last called with
  used,      \* history: answers given to the response handler, per transaction
  net,       \* datagrams in flight
  map,       \* the mapping of the NAT
  budget     \* bounds: what may still go wrong

sess == <<ct, tmr, interval, curmap, alive, told, used>>
vars == <<sess, net, map, budget>>

Off == -1
NoCt == [tid |-> 0, txc |-> 0, ival |-> 0, due |-> 0, age |-> 0]
Pending == ct.tid # 0

Init ==
  /\ ct = NoCt /\ tmr = Off /\ interval = 0
  /\ curmap = None /\ alive = TRUE /\ told = None
  /\ used = [t \in Tids |-> 0]
  /\ net = {} /\ map \in Maps
  /\ budget = [err |-> MaxErr, odd |-> MaxOdd, loss |-> MaxLoss, move |-> MaxMove, enable |-> MaxEnable]

Spend(b) == budget[b] > 0 /\ budget' = [budget EXCEPT ![b] = @ - 1]

Request(t) == [class |-> "request", tid |-> t, map |-> None]

(***************************************************************************)
(* The session.                                                            *)
(***************************************************************************)

Restart(good) == tmr' = IF interval > 0 THEN Interval ELSE tmr

(* The handler of a completed transaction.  An error code from the server  *)
(* clears the mapping and is not reported; the next mapping will be.  An   *)
(* answer with no address is reported and leaves the mapping.              *)
stun_response_handler(err, scode, m) ==
  /\ Restart(~err /\ ~scode)
  /\ curmap' = IF err \/ scode THEN None ELSE IF m = None THEN curmap ELSE m
  /\ told' = IF err \/ (~scode /\ m = None) THEN "error"
             ELSE IF ~scode /\ m # curmap THEN m ELSE told

(* completed(): the transaction is gone before its handler is called.      *)
completed(t, err, scode, m) ==
  /\ ct' = NoCt
  /\ used' = [used EXCEPT ![t] = @ + 1]
  /\ stun_response_handler(err, scode, m)

stun_keepalive_enable(i) ==
  /\ alive /\ Spend("enable")
  /\ interval' = i
  /\ tmr' = IF i > 0 THEN 1 ELSE Off
  /\ UNCHANGED <<ct, curmap, alive, told, used, net, map>>

(* A session that is freed takes its transaction with it, without a call.  *)
keepalive_destructor ==
  /\ alive /\ alive' = FALSE
  /\ tmr' = Off /\ ct' = NoCt
  /\ UNCHANGED <<interval, curmap, told, used, net, map, budget>>

(* The refresh timer: the old transaction is dropped, a new one is sent;   *)
(* no datagram in flight has the id of the new one.                        *)
timeout ==
  /\ tmr = 0
  /\ \/ \E t \in Tids \ {m.tid : m \in net} :
          /\ ct' = [tid |-> t, txc |-> 1, ival |-> Rto, due |-> Rto, age |-> 0]
          /\ used' = [used EXCEPT ![t] = 0]
          /\ net' = net \cup {Request(t)}
          /\ tmr' = Off
          /\ UNCHANGED <<told, budget>>
     \/ /\ Spend("odd")
        /\ ct' = NoCt
        /\ tmr' = IF interval > 0 THEN Interval ELSE Off
        /\ told' = "error"
        /\ UNCHANGED <<net, used>>
  /\ UNCHANGED <<interval, curmap, alive, map>>

(***************************************************************************)
(* The transaction.                                                        *)
(***************************************************************************)

Exhausted == ct.txc >= Rc

(* The wait after the transmission that timeout_handler makes.             *)
NextIval == IF ct.txc + 1 >= Rc THEN Rto * Rm ELSE ct.ival * 2

GiveUp ==
  /\ Pending /\ ct.due = 0 /\ Exhausted
  /\ completed(ct.tid, TRUE, FALSE, None)
  /\ UNCHANGED <<interval, alive, net, map, budget>>

Retransmit ==
  /\ Pending /\ ct.due = 0 /\ ~Exhausted
  /\ \/ /\ net' = net \cup {Request(ct.tid)}
        /\ ct' = [ct EXCEPT !.txc = @ + 1, !.ival = NextIval, !.due = NextIval]
        /\ UNCHANGED <<tmr, curmap, told, used, budget>>
     \/ /\ Spend("err")
        /\ completed(ct.tid, TRUE, FALSE, None)
        /\ UNCHANGED net
  /\ UNCHANGED <<interval, alive, map>>

(* Faulty variant: the transaction id is not compared.                     *)
Matches_Any(m) == Pending

Matches(m) == Pending /\ ct.tid = m.tid

(* A response: it completes the transaction with its id; any other is of   *)
(* no effect.  The datagram may arrive again.                              *)
stun_ctrans_recv(m) ==
  /\ m \in net /\ m.class \in {"success", "error"}
  /\ Matches(m)
  /\ completed(m.tid, FALSE, m.class = "error", m.map)
  /\ UNCHANGED <<interval, alive, net, map, budget>>

(***************************************************************************)
(* The environment.                                                        *)
(***************************************************************************)
(* The server answers a request with an address, or an error.              *)
Answer(m, class, a) ==
  /\ m \in net /\ m.class = "request"
  /\ net' = (net \ {m}) \cup {[class |-> class, tid |-> m.tid, map |-> a]}
  /\ UNCHANGED <<sess, map>>

Serve(m) == Answer(m, "success", map) /\ UNCHANGED budget
Refuse(m) == Answer(m, "error", None) /\ Spend("err")
ServeBare(m) == Answer(m, "success", None) /\ Spend("odd")

Lose(m) ==
  /\ m \in net /\ Spend("loss")
  /\ net' = net \ {m}
  /\ UNCHANGED <<sess, map>>

Move ==
  /\ Spend("move")
  /\ \E a \in Maps \ {map} : map' = a
  /\ UNCHANGED <<sess, net>>

(* What is left of a finished transaction is off the network in the end.   *)
Expire ==
  /\ \E m \in net : m.tid # ct.tid /\ net' = net \ {m}
  /\ UNCHANGED <<sess, map, budget>>

Due == tmr = 0 \/ (Pending /\ ct.due = 0)

Tick ==
  /\ ~Due /\ (tmr # Off \/ Pending)
  /\ tmr' = IF tmr = Off THEN Off ELSE tmr - 1
  /\ ct' = IF Pending THEN [ct EXCEPT !.due = @ - 1, !.age = @ + 1] ELSE NoCt
  /\ UNCHANGED <<interval, curmap, alive, told, used, net, map, budget>>

(* The session is disabled or freed.                                       *)
Resting ==
  /\ tmr = Off /\ ~Pending
  /\ UNCHANGED vars

Session == timeout \/ GiveUp \/ Retransmit \/ \E m \in net : stun_ctrans_recv(m)

Next ==
  \/ \E i \in {0, Interval} : stun_keepalive_enable(i)
  \/ keepalive_destructor
  \/ Session
  \/ \E m \in net : Serve(m) \/ Refuse(m) \/ ServeBare(m) \/ Lose(m)
  \/ Move \/ Expire \/ Tick \/ Resting

(* Timers fire and time passes; a network that works at all delivers a     *)
(* request, and an answer, in time every now and then.                     *)
Fairness ==
  /\ WF_vars(Session) /\ WF_vars(Tick) /\ WF_vars(Expire)
  /\ SF_vars(\E m \in net : Matches(m) /\ Serve(m))
  /\ SF_vars(\E m \in net : stun_ctrans_recv(m))

Spec == Init /\ [][Next]_vars /\ Fairness
-----------------------------------------------------------------------------
(* rto*(2^(rc-1) - 1) + rto*rm: the time after which a transaction gives up. *)
Patience == Rto * (2^(Rc - 1) - 1) + Rto * Rm

TypeOK ==
  /\ ct \in [tid : Tids \cup {0}, txc : 0..Rc, ival : Nat, due : Nat, age : Nat]
  /\ tmr \in -1..Interval /\ interval \in {0, Interval}
  /\ curmap \in Maps \cup {None} /\ alive \in BOOLEAN
  /\ told \in Maps \cup {None, "error"}
  /\ used \in [Tids -> Nat] /\ map \in Maps
  /\ net \subseteq [class : {"request", "success", "error"}, tid : Tids, map : Maps \cup {None}]
  /\ budget \in [{"err", "odd", "loss", "move", "enable"} -> Nat]

(***************************************************************************)
(* However late, repeated or reordered the answers are, the handler runs   *)
(* at most once for a transaction, and for a pending one not yet: an       *)
(* answer to an older request is never taken for the answer to this one.   *)
(***************************************************************************)
AnsweredOnce ==
  /\ \A t \in Tids : used[t] <= 1
  /\ Pending => used[ct.tid] = 0

(***************************************************************************)
(* A request is sent at most Rc times and given up exactly when            *)
(* rto*(2^(rc-1)-1) + rto*rm have passed: no transaction is older.         *)
(***************************************************************************)
GivesUpInTime == Pending => ct.txc <= Rc /\ ct.age + ct.due <= Patience

(***************************************************************************)
(* An enabled session never stalls: it waits for an answer or for its      *)
(* timer, after every error, error code, lost datagram and failed send.    *)
(***************************************************************************)
NeverStalls == alive /\ interval > 0 => tmr # Off \/ Pending

(***************************************************************************)
(* The application knows the mapping that the session takes for current,   *)
(* also when the same address comes back after an error was reported:      *)
(* "Clear current mapped addr to force new notification".                  *)
(***************************************************************************)
ToldCurrent == curmap # None => told = curmap

(***************************************************************************)
(* The session as its owner sees it: answers are used once, it does not    *)
(* stall, and unless a first transmission fails or an answer comes without *)
(* an address, the application knows the current mapping.                  *)
(***************************************************************************)
SessionKept == AnsweredOnce /\ NeverStalls /\ (MaxOdd = 0 => ToldCurrent)

(***************************************************************************)
(* While a session keeps running, the application is told the right        *)
(* mapping again and again, whatever was lost, refused or moved before.    *)
(***************************************************************************)
MappingReported ==
  <>[](alive /\ interval > 0) => []<>(told = map)
=============================================================================
